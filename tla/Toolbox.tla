------------------------------- MODULE Toolbox -------------------------------
(***************************************************************************)
(* The tool catalog of packages/tool-runtime/src/catalog: what each tool   *)
(* is called, where a search finds it, which arguments it documents, which *)
(* its schema takes (packages/domain/src/schemas.ts) and where its help    *)
(* sends the solver next; discover_tools, get_tool_help, execute_tool and  *)
(* the hints of inspect_file and analyze_rsa_instance over that catalog.   *)
(* The wording of the cards and the scores of a free-text query are left   *)
(* out: a query is the name of a tool, or none.                            *)
(***************************************************************************)
EXTENDS Naturals, FiniteSets, TLC

Both == {"MISC", "CRYPTO"}
Misc == {"MISC"}
Crypto == {"CRYPTO"}

(* A tool the solver calls itself; execute_tool refuses it. *)
Core(name, group, domains, needs, offers, next) ==
  [name |-> name, group |-> group, domains |-> domains, core |-> TRUE,
   needs |-> needs, offers |-> offers, next |-> next]

(* A tool behind discover_tools and execute_tool. *)
Hidden(name, group, domains, needs, offers, next) ==
  [name |-> name, group |-> group, domains |-> domains, core |-> FALSE,
   needs |-> needs, offers |-> offers, next |-> next]
-----------------------------------------------------------------------------
(* core.ts: looking around *)
WorkspaceReading == {
  Core("list_workspace", "WORKSPACE", Both, {}, {"path"}, {"inspect_file", "read_challenge_file"}),
  Core("read_challenge_file", "WORKSPACE", Both, {"path"}, {"maxChars"}, {"inspect_file",
    "parse_crypto_values"}),
  Core("inspect_file", "WORKSPACE", Both, {"path"}, {}, {"extract_archive", "analyze_visual",
    "analyze_pcap_overview"})}

(* core.ts: writing, running, and reading long outputs *)
WorkspaceWork == {
  Core("write_work_file", "WORKSPACE", Both, {"path", "content"}, {}, {"run_python"}),
  Core("run_python", "WORKSPACE", Both, {}, {"code", "scriptPath", "args", "timeoutMs"},
    {"search_tool_output", "submit_flag_candidate"}),
  Core("search_tool_output", "WORKSPACE", Both, {"path", "query"}, {"maxMatches"},
    {"read_tool_output_chunk"}),
  Core("read_tool_output_chunk", "WORKSPACE", Both, {"path"}, {"offset", "maxChars"},
    {"search_tool_output"})}

(* core.ts: what the solver tells the control plane *)
Control == {
  Core("record_hypothesis", "CONTROL", Both, {"description"}, {"confidence"}, {"discover_tools",
    "report_progress"}),
  Core("report_progress", "CONTROL", Both, {"summary", "confidence"}, {"progress", "stalled"},
    {"discover_tools"}),
  Core("submit_flag_candidate", "CONTROL", Both, {"value", "confidence", "reason"}, {},
    {"report_progress"}),
  Core("request_reflection", "CONTROL", Both, {"reason"}, {}, {"discover_tools"}),
  Core("request_handoff", "CONTROL", Both, {"target", "summary"}, {}, {"report_progress"})}

(* catalog.ts: the way to the hidden tools *)
Meta == {
  Core("discover_tools", "CONTROL", Both, {}, {"query", "group", "domain", "limit"},
    {"get_tool_help", "execute_tool"}),
  Core("get_tool_help", "CONTROL", Both, {"name"}, {}, {"execute_tool"}),
  Core("execute_tool", "CONTROL", Both, {"name", "args"}, {}, {"get_tool_help", "discover_tools"})}

(* misc.ts: archives and files *)
MiscFiles == {
  Hidden("extract_archive", "MISC_ARCHIVE", Misc, {"path"}, {"destPath", "maxDepth"},
    {"inspect_file", "scan_trailing_data"}),
  Hidden("inspect_metadata", "MISC_FILE", Misc, {"path"}, {"force"}, {"analyze_visual",
    "scan_trailing_data"}),
  Hidden("scan_trailing_data", "MISC_FILE", Misc, {"path"}, {"force"}, {"carve_files",
    "scan_embedded_signatures"}),
  Hidden("scan_embedded_signatures", "MISC_FILE", Misc, {"path"}, {"force"}, {"carve_files"}),
  Hidden("extract_strings_summary", "MISC_FILE", Both, {"path"}, {"force"},
    {"submit_flag_candidate", "parse_crypto_values"})}

(* misc.ts: packet captures, carving, specialists *)
MiscTraffic == {
  Hidden("analyze_pcap_overview", "MISC_PCAP", Misc, {"path"}, {"force"}, {"extract_http_objects",
    "extract_dns_activity", "follow_tcp_stream"}),
  Hidden("follow_tcp_stream", "MISC_PCAP", Misc, {"path"}, {"streamIndex", "src", "dst", "sport",
    "dport", "maxBytes", "force"}, {"extract_http_objects", "extract_strings_summary",
    "carve_files"}),
  Hidden("extract_http_objects", "MISC_PCAP", Misc, {"path"}, {"force"}, {"extract_dns_activity",
    "carve_files"}),
  Hidden("extract_dns_activity", "MISC_PCAP", Misc, {"path"}, {"force"}, {"run_python"}),
  Hidden("carve_files", "MISC_FILE", Misc, {"path", "offset"}, {"length", "destPath", "force"},
    {"inspect_file", "extract_archive"}),
  Hidden("request_specialist", "SPECIALIST", Both, {"kind"}, {"path", "text"},
    {"analyze_rsa_instance", "analyze_visual"})}

(* visual.ts: looking at pictures, sound and video *)
VisualReview == {
  Hidden("analyze_visual", "MISC_IMAGE", Misc, {"path"}, {"question", "mode", "force"},
    {"extract_bitplane", "render_transform", "request_visual_review"}),
  Hidden("request_visual_review", "MISC_IMAGE", Misc, {"path", "question", "reason"}, {},
    {"analyze_visual", "extract_bitplane"}),
  Hidden("render_spectrogram", "MISC_AUDIO_VIDEO", Misc, {"path"}, {"mode", "maxDurationSeconds"},
    {"analyze_visual"}),
  Hidden("extract_keyframes", "MISC_AUDIO_VIDEO", Misc, {"path"}, {"strategy", "maxFrames"},
    {"analyze_visual"})}

(* visual.ts: deriving pictures *)
VisualTransforms == {
  Hidden("render_transform", "MISC_IMAGE", Misc, {"path", "op"}, {"force"}, {"analyze_visual",
    "extract_bitplane"}),
  Hidden("extract_bitplane", "MISC_IMAGE", Misc, {"path", "channel", "bit"}, {"force"},
    {"analyze_visual"}),
  Hidden("extract_visible_text", "MISC_IMAGE", Misc, {"path"}, {"force"}, {"analyze_visual",
    "request_visual_review"})}

(* crypto.ts: from the text to an attack *)
CryptoParsing == {
  Hidden("update_crypto_state", "CRYPTO_PARSE", Crypto, {}, {"primitive", "knownVariables",
    "unknownVariables", "attackCandidates", "attempt", "replaceCandidates"},
    {"analyze_rsa_instance", "discover_tools"}),
  Hidden("parse_crypto_values", "CRYPTO_PARSE", Crypto, {}, {"text", "path"},
    {"analyze_rsa_instance"}),
  Hidden("analyze_rsa_instance", "CRYPTO_RSA", Crypto, {}, {"n", "e", "c", "text", "path"},
    {"rsa_small_e", "rsa_fermat", "rsa_wiener", "factor_integer"})}

(* crypto.ts: RSA *)
RsaAttacks == {
  Hidden("rsa_small_e", "CRYPTO_RSA", Crypto, {"c", "e"}, {"n"}, {"integer_root", "rsa_hastad",
    "analyze_rsa_instance"}),
  Hidden("rsa_fermat", "CRYPTO_RSA", Crypto, {"n"}, {}, {"rsa_basic_decrypt", "factor_integer"}),
  Hidden("rsa_wiener", "CRYPTO_RSA", Crypto, {"n", "e"}, {}, {"rsa_basic_decrypt",
    "analyze_rsa_instance"}),
  Hidden("rsa_common_modulus", "CRYPTO_RSA", Crypto, {"n", "e1", "c1", "e2", "c2"}, {},
    {"integer_root", "analyze_rsa_instance"})}

(* crypto.ts: RSA, continued *)
RsaMore == {
  Hidden("rsa_hastad", "CRYPTO_RSA", Crypto, {"e", "n1", "c1", "n2", "c2", "n3", "c3"}, {},
    {"rsa_small_e", "crt"}),
  Hidden("rsa_basic_decrypt", "CRYPTO_RSA", Crypto, {"n", "c"}, {"e", "p", "q"}, {"factor_integer"})}

(* crypto.ts: arithmetic *)
NumberTheory == {
  Hidden("factor_integer", "CRYPTO_NUMBER_THEORY", Crypto, {"n"}, {}, {"rsa_basic_decrypt",
    "rsa_fermat"}),
  Hidden("integer_root", "CRYPTO_NUMBER_THEORY", Crypto, {"c", "e"}, {}, {"rsa_small_e"}),
  Hidden("mod_inverse", "CRYPTO_NUMBER_THEORY", Crypto, {"a", "m"}, {}, {"gcd", "extended_gcd"}),
  Hidden("gcd", "CRYPTO_NUMBER_THEORY", Crypto, {"a", "b"}, {}, {"extended_gcd", "factor_integer"}),
  Hidden("extended_gcd", "CRYPTO_NUMBER_THEORY", Crypto, {"a", "b"}, {}, {"mod_inverse", "crt"})}

(* crypto.ts: congruences and logarithms *)
Congruences == {
  Hidden("crt", "CRYPTO_NUMBER_THEORY", Crypto, {"a", "m", "b", "m2"}, {}, {"rsa_hastad",
    "solve_linear_congruence"}),
  Hidden("solve_linear_congruence", "CRYPTO_NUMBER_THEORY", Crypto, {"a", "b", "m"}, {},
    {"mod_inverse", "crt"}),
  Hidden("discrete_log_if_small", "CRYPTO_NUMBER_THEORY", Crypto, {"g", "h", "m"}, {},
    {"run_python"})}

(* crypto.ts: generators and block ciphers *)
Generators == {
  Hidden("lcg_recover", "CRYPTO_PRNG", Crypto, {"samples"}, {}, {"mt19937_recover",
    "request_specialist"}),
  Hidden("mt19937_recover", "CRYPTO_PRNG", Crypto, {"samples"}, {}, {"run_python",
    "update_crypto_state"}),
  Hidden("aes_inspect", "CRYPTO_SYMMETRIC", Crypto, {}, {"path", "text"}, {"aes_misuse_inspect",
    "xor_bytes", "run_python"}),
  Hidden("aes_misuse_inspect", "CRYPTO_SYMMETRIC", Crypto, {}, {"path", "text", "path2", "text2"},
    {"xor_bytes", "run_python", "update_crypto_state"})}

(* crypto.ts: classical ciphers and lattices *)
Ciphers == {
  Hidden("frequency_analysis", "CRYPTO_XOR_CLASSICAL", Crypto, {}, {"text", "path"}, {"run_python"}),
  Hidden("xor_bytes", "CRYPTO_XOR_CLASSICAL", Crypto, {"a"}, {"b", "key"}, {"xor_known_plaintext",
    "frequency_analysis"}),
  Hidden("xor_known_plaintext", "CRYPTO_XOR_CLASSICAL", Crypto, {"c"}, {"p", "m"}, {"xor_bytes"}),
  Hidden("lll_reduce", "CRYPTO_ADVANCED_MATH", Crypto, {"matrix"}, {}, {"run_python",
    "analyze_rsa_instance"})}

(* TOOL_CATALOG *)
Catalog ==
  UNION {WorkspaceReading, WorkspaceWork, Control, Meta, MiscFiles, MiscTraffic, VisualReview,
         VisualTransforms, CryptoParsing, RsaAttacks, RsaMore, NumberTheory, Congruences,
         Generators, Ciphers}

Names == {t.name : t \in Catalog}

(* getCatalogTool *)
Named(name) == CHOOSE t \in Catalog : t.name = name

(* listDirectPiTools *)
CoreTools == {t.name : t \in {x \in Catalog : x.core}}

(* listDiscoverableTools *)
HiddenTools == {t.name : t \in {x \in Catalog : ~x.core}}
-----------------------------------------------------------------------------
(* The zod schemas: the fields that must be there, those that may, and, if *)
(* there is a refinement, the fields of which one must be there.           *)

Schema(tool, needs, takes, oneOf) ==
  [tool |-> tool, needs |-> needs, takes |-> takes, oneOf |-> oneOf]

ReportSchemas == {
  Schema("report_progress", {"summary", "confidence"}, {"hypotheses", "confirmedFacts",
    "rejectedHypotheses", "nextActions", "progress", "stalled"}, {}),
  Schema("submit_flag_candidate", {"value", "confidence", "reason"}, {"evidence"}, {}),
  Schema("request_handoff", {"target", "summary"}, {}, {}),
  Schema("request_reflection", {"reason"}, {}, {})}

WorkspaceSchemas == {
  Schema("run_python", {}, {"scriptPath", "code", "args", "timeoutMs"}, {}),
  Schema("read_challenge_file", {"path"}, {"maxChars"}, {}),
  Schema("list_workspace", {}, {"path"}, {}),
  Schema("write_work_file", {"path", "content"}, {}, {}),
  Schema("inspect_file", {"path"}, {}, {}),
  Schema("extract_archive", {"path"}, {"destPath", "maxDepth"}, {})}

VisualSchemas == {
  Schema("analyze_visual", {"path"}, {"question", "mode", "force"}, {}),
  Schema("request_visual_review", {"path", "question", "reason"}, {}, {}),
  Schema("render_spectrogram", {"path"}, {"mode", "maxDurationSeconds"}, {}),
  Schema("extract_keyframes", {"path"}, {"strategy", "maxFrames"}, {})}

OutputSchemas == {
  Schema("search_tool_output", {"path", "query"}, {"maxMatches"}, {}),
  Schema("read_tool_output_chunk", {"path"}, {"offset", "maxChars"}, {}),
  Schema("discover_tools", {}, {"query", "group", "domain", "limit"}, {}),
  Schema("get_tool_help", {"name"}, {}, {}),
  Schema("execute_tool", {"name"}, {"args"}, {})}

RsaSchemas == {
  Schema("parse_crypto_values", {}, {"text", "path", "force"}, {"text", "path"}),
  Schema("analyze_rsa_instance", {}, {"text", "path", "n", "e", "c", "force"}, {}),
  Schema("rsa_small_e", {"c", "e"}, {"n", "force"}, {}),
  Schema("rsa_fermat", {"n"}, {"force"}, {}),
  Schema("rsa_wiener", {"n", "e"}, {"force"}, {}),
  Schema("rsa_common_modulus", {"n", "e1", "c1", "e2", "c2"}, {"force"}, {}),
  Schema("rsa_hastad", {"e", "n1", "c1", "n2", "c2", "n3", "c3"}, {"force"}, {}),
  Schema("rsa_basic_decrypt", {"n", "c"}, {"e", "p", "q", "force"}, {})}

NumberSchemas == {
  Schema("factor_integer", {"n"}, {"force"}, {}),
  Schema("integer_root", {"c", "e"}, {"force"}, {}),
  Schema("mod_inverse", {"a", "m"}, {"force"}, {}),
  Schema("gcd", {"a", "b"}, {"force"}, {}),
  Schema("extended_gcd", {"a", "b"}, {"force"}, {}),
  Schema("crt", {"a", "m", "b", "m2"}, {"force"}, {}),
  Schema("solve_linear_congruence", {"a", "b", "m"}, {"force"}, {}),
  Schema("lcg_recover", {"samples"}, {"force"}, {})}

CipherSchemas == {
  Schema("aes_inspect", {}, {"path", "text", "force"}, {"path", "text"}),
  Schema("frequency_analysis", {}, {"text", "path", "force"}, {"text", "path"}),
  Schema("xor_bytes", {"a"}, {"b", "key", "force"}, {"b", "key"}),
  Schema("xor_known_plaintext", {"c"}, {"p", "m", "force"}, {"p", "m"}),
  Schema("lll_reduce", {"matrix"}, {"force"}, {}),
  Schema("discrete_log_if_small", {"g", "h", "m"}, {"force"}, {})}

PathOnly == {"analyze_pcap_overview", "extract_dns_activity", "extract_http_objects", "extract_strings_summary", "extract_visible_text", "inspect_metadata", "scan_embedded_signatures", "scan_trailing_data"}
FileSchemas == {
  Schema("render_transform", {"path", "op"}, {"force"}, {}),
  Schema("extract_bitplane", {"path", "channel", "bit"}, {"force"}, {}),
  Schema("carve_files", {"path", "offset"}, {"length", "destPath", "force"}, {}),
  Schema("mt19937_recover", {"samples"}, {"force"}, {}),
  Schema("aes_misuse_inspect", {}, {"path", "text", "text2", "path2", "force"}, {"path", "text"}),
  Schema("follow_tcp_stream", {"path"}, {"streamIndex", "src", "dst", "sport", "dport", "maxBytes",
    "force"}, {})}

StateSchemas == {
  Schema("update_crypto_state", {}, {"primitive", "knownVariables", "unknownVariables",
    "equations", "constraints", "assumptions", "attackCandidates", "attempt", "replaceCandidates",
    "force"}, {}),
  Schema("request_specialist", {"kind"}, {"path", "text"}, {}),
  Schema("record_hypothesis", {"description"}, {"confidence", "status", "evidenceFor",
    "evidenceAgainst", "proposedTests"}, {})}

(* pathOnlySchema *)
PathOnlySchemas == {Schema(n, {"path"}, {"force"}, {}) : n \in PathOnly}

Schemas ==
  UNION {ReportSchemas, WorkspaceSchemas, VisualSchemas, OutputSchemas, RsaSchemas, NumberSchemas,
         CipherSchemas, FileSchemas, StateSchemas, PathOnlySchemas}

SchemaOf(name) == CHOOSE s \in Schemas : s.tool = name

(* Does safeParse take a call with these fields? (Other fields are dropped.) *)
Accepts(name, args) ==
  LET s == SchemaOf(name)
  IN s.needs \subseteq args /\ (s.oneOf = {} \/ s.oneOf \cap args # {})

(* toolParameterSchema: what Pi lets the solver put into a direct call. *)
PiNeeds(name) ==
  CASE name \in {"read_challenge_file", "inspect_file"} -> {"path"}
    [] name = "write_work_file" -> {"path", "content"}
    [] name = "search_tool_output" -> {"path", "query"}
    [] name = "read_tool_output_chunk" -> {"path"}
    [] name = "report_progress" -> {"summary", "confidence"}
    [] name = "submit_flag_candidate" -> {"value", "confidence", "reason"}
    [] name = "request_handoff" -> {"target", "summary"}
    [] name = "request_reflection" -> {"reason"}
    [] name = "record_hypothesis" -> {"description"}
    [] name \in {"get_tool_help", "execute_tool"} -> {"name"}
    [] OTHER -> {}
-----------------------------------------------------------------------------
(* discoverTools                                                           *)

Domains == {"MISC", "CRYPTO", "ANY"}

MiscGroups == {"MISC_FILE", "MISC_ARCHIVE", "MISC_IMAGE", "MISC_PCAP", "MISC_AUDIO_VIDEO", "SPECIALIST"}

CryptoGroups == {"CRYPTO_PARSE", "CRYPTO_RSA", "CRYPTO_NUMBER_THEORY", "CRYPTO_XOR_CLASSICAL",
                 "CRYPTO_PRNG", "CRYPTO_SYMMETRIC", "CRYPTO_ADVANCED_MATH", "SPECIALIST"}

(* TOOL_GROUPS_BY_DOMAIN, without WORKSPACE and CONTROL. *)
GroupsOf(domain) ==
  CASE domain = "MISC" -> MiscGroups
    [] domain = "CRYPTO" -> CryptoGroups
    [] OTHER -> MiscGroups \cup CryptoGroups

MiscStarters == {"inspect_file", "extract_archive", "analyze_visual", "analyze_pcap_overview"}
CryptoStarters == {"parse_crypto_values", "analyze_rsa_instance"}

(* What discover_tools without a query and a group shows (six at most, and  *)
(* there are six).                                                         *)
Starters(domain) ==
  CASE domain = "MISC" -> MiscStarters
    [] domain = "CRYPTO" -> CryptoStarters
    [] OTHER -> MiscStarters \cup CryptoStarters

(* limit: 6 when none is given, between 1 and 10. *)
Limit(asked) == CASE asked = 0 -> 6 [] asked > 10 -> 10 [] OTHER -> asked

Pool(group, domain) ==
  {t.name : t \in {x \in Catalog : ~x.core /\ x.group = group /\ (domain = "ANY" \/ domain \in x.domains)}}

(* localeCompare, for the groups that are longer than the default limit: how *)
(* many of the group come before a tool.                                   *)
ByName ==
  ("analyze_rsa_instance" :> 0) @@ ("rsa_basic_decrypt" :> 1) @@ ("rsa_common_modulus" :> 2)
  @@ ("rsa_fermat" :> 3) @@ ("rsa_hastad" :> 4) @@ ("rsa_small_e" :> 5) @@ ("rsa_wiener" :> 6)
  @@ ("crt" :> 0) @@ ("discrete_log_if_small" :> 1) @@ ("extended_gcd" :> 2)
  @@ ("factor_integer" :> 3) @@ ("gcd" :> 4) @@ ("integer_root" :> 5) @@ ("mod_inverse" :> 6)
  @@ ("solve_linear_congruence" :> 7)

(* What discover_tools shows of a group: all of its tools score the same, so *)
(* the first by name, as many as the limit lets through.                    *)
Listing(group, domain, asked) ==
  {name \in Pool(group, domain) : name \in DOMAIN ByName => ByName[name] < Limit(asked)}

(* executeToolTool: the tools it runs, given arguments their schema takes. *)
Executable(name, args) == name \in HiddenTools /\ Accepts(name, args)

(* What the solver can call, one way or the other. *)
Callable == CoreTools \cup HiddenTools
-----------------------------------------------------------------------------
(* hintsForInspection and hintsForRsaAnalysis.                             *)

Magics == {"PNG", "JPEG", "GIF", "ZIP", "GZIP", "RAR", "7Z", "PCAP", "TEXT", "BINARY", "OTHER"}

Pictures == {"PNG", "JPEG", "GIF"}
Archives == {"ZIP", "GZIP", "RAR", "7Z"}

HintsForInspection(magic, trailing, dense) ==
  (IF magic \in Pictures
   THEN {"inspect_metadata", "analyze_visual", "extract_bitplane", "scan_trailing_data"}
        \cup (IF trailing THEN {"carve_files"} ELSE {})
   ELSE {})
  \cup (IF magic \in Archives THEN {"extract_archive"} ELSE {})
  \cup (IF magic = "ZIP" THEN {"scan_trailing_data"} ELSE {})
  \cup (IF magic = "PCAP"
        THEN {"analyze_pcap_overview", "extract_http_objects", "extract_dns_activity", "follow_tcp_stream"}
        ELSE {})
  \cup (IF magic = "TEXT" THEN {"parse_crypto_values", "extract_strings_summary"} ELSE {})
  \cup (IF magic = "BINARY" \/ dense THEN {"scan_embedded_signatures", "extract_strings_summary"} ELSE {})

(* Mutant of AttackTool: an attack is named for a tool that does not exist. *)
AttackToolMisnamed ==
  [FACTOR |-> "rsa_factor", SMALL_E |-> "rsa_small_e", FERMAT |-> "rsa_fermat", WIENER |-> "rsa_wiener"]

AttackTool ==
  [FACTOR |-> "factor_integer", SMALL_E |-> "rsa_small_e", FERMAT |-> "rsa_fermat", WIENER |-> "rsa_wiener"]

HintsForRsaAnalysis(attacks) ==
  (IF attacks = {} THEN {"analyze_rsa_instance"} ELSE {AttackTool[a] : a \in attacks})
  \cup {"rsa_common_modulus", "rsa_hastad"}

(* The names a call of this tool may put before the solver. *)
Shown(name) ==
  Named(name).next
  \cup (IF name = "inspect_file"
        THEN UNION {HintsForInspection(m, t, d) : m \in Magics, t \in BOOLEAN, d \in BOOLEAN} ELSE {})
  \cup (IF name = "analyze_rsa_instance"
        THEN UNION {HintsForRsaAnalysis(S) : S \in SUBSET DOMAIN AttackTool} ELSE {})

(* What a solver of a domain comes to know that asks for the overview of    *)
(* its domain, for each of the groups it is shown, and then for the help of *)
(* what it has been shown, n times.                                        *)
Met(domain, asked) ==
  LET f[n \in 0..5] ==
        IF n = 0
        THEN CoreTools \cup Starters(domain)
             \cup UNION {Listing(g, domain, asked) : g \in GroupsOf(domain)}
        ELSE f[n - 1] \cup UNION {Shown(x) : x \in f[n - 1] \cap Names}
  IN f[5]
=============================================================================
