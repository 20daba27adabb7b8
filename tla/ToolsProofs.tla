----------------------------- MODULE ToolsProofs ------------------------------
(***************************************************************************)
(* Proofs about Tools, for any files, contents, calls and faults: what the *)
(* experiment ledger answers for a reader is what the file holds, it       *)
(* swallows no write and no message, force forces, and what the            *)
(* conversation was told of stays in the file it was told.                 *)
(***************************************************************************)
EXTENDS Tools, TLAPS

(* The other tools the ledger records, but for the calculators. *)
Doers == {"analyze_visual", "run_python", "extract_visible_text", "write_work_file"}

(* The tools that cannot do without a path. *)
Pathed == (PathReaders \ Scanners) \cup {"write_work_file"}

(* The tools that must be called directly. *)
Direct == {"write_work_file", "run_python", "read_challenge_file", "inspect_file"}

(* The tools whose card offers force. *)
Forced ==
  {"inspect_metadata", "scan_trailing_data", "scan_embedded_signatures", "extract_strings_summary",
   "analyze_pcap_overview", "follow_tcp_stream", "extract_http_objects", "extract_dns_activity",
   "carve_files", "analyze_visual", "render_transform", "extract_bitplane", "extract_visible_text"}

(* What the proofs need of a card. *)
CardFits(t) ==
  /\ ~t.core => t.name \notin Direct
  /\ "force" \in t.offers => t.name \in Forced
  /\ t.name \in PathReaders => "path" \in t.needs \cup t.offers
  /\ \/ t.name \in LEDGER_SKIP_TOOLS \cup PathReaders \cup Doers
     \/ t.domains = Crypto /\ "path" \notin t.needs \cup t.offers

(* What the proofs need of a schema. *)
SchemaFits(s) ==
  /\ "force" \notin s.needs \cup s.oneOf
  /\ s.tool \in Pathed => "path" \in s.needs
  /\ s.tool \in Forced => "force" \in s.takes
-----------------------------------------------------------------------------
(* The catalog and the schemas. *)

LEMMA CardsFit == \A t \in Catalog : CardFits(t)
<1> USE DEF CardFits, Core, Hidden, Direct, Forced, PathReaders, Doers, LEDGER_SKIP_TOOLS, Signals,
            Lookers, Searchers, Scanners, Cutters, Renderers
<1>1. \A t \in WorkspaceReading : CardFits(t)  BY DEF WorkspaceReading
<1>2. \A t \in WorkspaceWork : CardFits(t)  BY DEF WorkspaceWork
<1>3. \A t \in Control : CardFits(t)  BY DEF Control
<1>4. \A t \in Meta : CardFits(t)  BY DEF Meta
<1>5. \A t \in MiscFiles : CardFits(t)  BY DEF MiscFiles
<1>6. \A t \in MiscTraffic : CardFits(t)  BY DEF MiscTraffic
<1>7. \A t \in VisualReview : CardFits(t)  BY DEF VisualReview
<1>8. \A t \in VisualTransforms : CardFits(t)  BY DEF VisualTransforms
<1>9. \A t \in CryptoParsing : CardFits(t)  BY DEF CryptoParsing
<1>10. \A t \in RsaAttacks : CardFits(t)  BY DEF RsaAttacks
<1>11. \A t \in RsaMore : CardFits(t)  BY DEF RsaMore
<1>12. \A t \in NumberTheory : CardFits(t)  BY DEF NumberTheory
<1>13. \A t \in Congruences : CardFits(t)  BY DEF Congruences
<1>14. \A t \in Generators : CardFits(t)  BY DEF Generators
<1>15. \A t \in Ciphers : CardFits(t)  BY DEF Ciphers
<1> HIDE DEF CardFits
<1>16. QED
  BY <1>1, <1>2, <1>3, <1>4, <1>5, <1>6, <1>7, <1>8, <1>9, <1>10, <1>11, <1>12, <1>13, <1>14, <1>15
     DEF Catalog

LEMMA SchemasFit == \A s \in Schemas : SchemaFits(s)
<1> USE DEF SchemaFits, Schema, Forced, Pathed, PathReaders, Lookers, Searchers, Scanners, Cutters, Renderers
<1>1. \A s \in ReportSchemas : SchemaFits(s)  BY DEF ReportSchemas
<1>2. \A s \in WorkspaceSchemas : SchemaFits(s)  BY DEF WorkspaceSchemas
<1>3. \A s \in VisualSchemas : SchemaFits(s)  BY DEF VisualSchemas
<1>4. \A s \in OutputSchemas : SchemaFits(s)  BY DEF OutputSchemas
<1>5. \A s \in RsaSchemas : SchemaFits(s)  BY DEF RsaSchemas
<1>6. \A s \in NumberSchemas : SchemaFits(s)  BY DEF NumberSchemas
<1>7. \A s \in CipherSchemas : SchemaFits(s)  BY DEF CipherSchemas
<1>8. \A s \in FileSchemas : SchemaFits(s)  BY DEF FileSchemas
<1>9. \A s \in StateSchemas : SchemaFits(s)  BY DEF StateSchemas
<1>10. \A s \in PathOnlySchemas : SchemaFits(s)  BY DEF PathOnlySchemas, PathOnly
<1> HIDE DEF SchemaFits
<1>11. QED
  BY <1>1, <1>2, <1>3, <1>4, <1>5, <1>6, <1>7, <1>8, <1>9, <1>10 DEF Schemas

(* Every reader and every tool with force has a schema, and that schema     *)
(* fits.                                                                   *)
LEMMA SchemaThere ==
  ASSUME NEW name \in PathReaders \cup Forced \cup Direct
  PROVE  SchemaFits(SchemaOf(name)) /\ SchemaOf(name).tool = name
<1>1. \E s \in Schemas : s.tool = name
  <2>1. name \in PathOnly
          \cup {"read_challenge_file", "inspect_file", "write_work_file", "run_python", "extract_archive"}
          \cup {"analyze_visual", "render_spectrogram", "extract_keyframes"}
          \cup {"search_tool_output", "read_tool_output_chunk"}
          \cup {"parse_crypto_values", "analyze_rsa_instance"} \cup {"aes_inspect", "frequency_analysis"}
          \cup {"render_transform", "extract_bitplane", "carve_files", "aes_misuse_inspect", "follow_tcp_stream"}
    BY DEF PathReaders, Forced, Direct, Lookers, Searchers, Scanners, Cutters, Renderers, PathOnly
  <2>2. ASSUME name \in PathOnly  PROVE \E s \in PathOnlySchemas : s.tool = name
    <3>1. Schema(name, {"path"}, {"force"}, {}) \in PathOnlySchemas  BY <2>2 DEF PathOnlySchemas
    <3>2. Schema(name, {"path"}, {"force"}, {}).tool = name  BY DEF Schema
    <3>3. QED  BY <3>1, <3>2
  <2>3. ASSUME name \in {"read_challenge_file", "inspect_file", "write_work_file", "run_python",
                         "extract_archive"}
        PROVE  \E s \in WorkspaceSchemas : s.tool = name
    BY <2>3 DEF WorkspaceSchemas, Schema
  <2>4. ASSUME name \in {"analyze_visual", "render_spectrogram", "extract_keyframes"}
        PROVE  \E s \in VisualSchemas : s.tool = name
    BY <2>4 DEF VisualSchemas, Schema
  <2>5. ASSUME name \in {"search_tool_output", "read_tool_output_chunk"}
        PROVE  \E s \in OutputSchemas : s.tool = name
    BY <2>5 DEF OutputSchemas, Schema
  <2>6. ASSUME name \in {"parse_crypto_values", "analyze_rsa_instance"}
        PROVE  \E s \in RsaSchemas : s.tool = name
    BY <2>6 DEF RsaSchemas, Schema
  <2>7. ASSUME name \in {"aes_inspect", "frequency_analysis"}
        PROVE  \E s \in CipherSchemas : s.tool = name
    BY <2>7 DEF CipherSchemas, Schema
  <2>8. ASSUME name \in {"render_transform", "extract_bitplane", "carve_files", "aes_misuse_inspect",
                         "follow_tcp_stream"}
        PROVE  \E s \in FileSchemas : s.tool = name
    BY <2>8 DEF FileSchemas, Schema
  <2>9. QED  BY <2>1, <2>2, <2>3, <2>4, <2>5, <2>6, <2>7, <2>8 DEF Schemas
<1>2. SchemaOf(name) \in Schemas /\ SchemaOf(name).tool = name  BY <1>1 DEF SchemaOf
<1>3. QED  BY <1>2, SchemasFit

(* A tool is called as the model can: it is in the catalog, and the direct  *)
(* ones are not called through execute_tool.                               *)
LEMMA ParsedFits ==
  ASSUME NEW c \in Calls, NEW p, p = Parsed(c)
  PROVE  /\ p.tool = c.tool /\ p.value = c.value
         /\ p.path \in Paths \cup {""} /\ p.path \in {"", c.path}
         /\ "path" \in p.fields <=> p.path # ""
         /\ c.via = "direct" => p = c
         /\ ~Refused(c) => c.tool \in Names /\ (c.tool \in Direct => c.via = "direct")
<1>1. /\ c \in [tool : STRING, via : {"direct", "router"}, path : Paths \cup {""},
                value : STRING, fields : SUBSET STRING]
      /\ "path" \in c.fields <=> c.path # ""
      /\ c.via = "direct" => c.tool \in CoreTools
  BY ToolsAssumption
<1>2. CASE c.via = "direct"
  <2>1. p = c  BY <1>2 DEF Parsed
  <2>2. c.tool \in Names  BY <1>1, <1>2 DEF CoreTools, Names
  <2>3. QED  BY <1>1, <1>2, <2>1, <2>2
<1>3. CASE c.via = "router"
  <2>1. PICK kept : /\ kept = c.fields \cap (SchemaOf(c.tool).needs \cup SchemaOf(c.tool).takes)
                    /\ p = [c EXCEPT !.fields = kept, !.path = IF "path" \in kept THEN c.path ELSE ""]
    BY <1>3 DEF Parsed
  <2>2. /\ p.tool = c.tool /\ p.value = c.value /\ p.fields = kept
        /\ p.path = IF "path" \in kept THEN c.path ELSE ""
    BY <1>1, <2>1
  <2>3. "path" \in kept => "path" \in c.fields  BY <2>1
  <2>4. ~Refused(c) => c.tool \in Names /\ c.tool \notin Direct
    <3>1. SUFFICES ASSUME ~Refused(c) PROVE c.tool \in Names /\ c.tool \notin Direct  OBVIOUS
    <3>2. c.tool \in HiddenTools  BY <1>3, <3>1 DEF Refused, Executable
    <3>3. PICK t \in Catalog : ~t.core /\ t.name = c.tool  BY <3>2 DEF HiddenTools
    <3>4. QED  BY <3>3, CardsFit DEF CardFits, Names
  <2>5. QED  BY <1>1, <1>3, <2>2, <2>3, <2>4
<1>4. QED  BY <1>1, <1>2, <1>3

(* What a recorded tool answers says whether it went well. *)
LEMMA OutcomeSays ==
  ASSUME NEW c, c.tool \in Names \ LEDGER_SKIP_TOOLS
  PROVE  Outcome(c).ok \in BOOLEAN
<1>1. PICK t \in Catalog : t.name = c.tool  BY DEF Names
<1>2. CardFits(t)  BY CardsFit
<1>3. c.tool \in PathReaders \cup Doers \cup Calculators
  BY <1>1, <1>2 DEF CardFits, Calculators
<1>4. \A x : Good(x).ok = TRUE /\ Bad(x).ok = FALSE  BY DEF Good, Bad
<1> HIDE DEF Good, Bad
<1>5. CASE c.tool \in Lookers \cup Searchers \cup Renderers  BY <1>4, <1>5 DEF Outcome
<1>6. CASE c.tool \in Scanners \cup Cutters  BY <1>4, <1>6 DEF Outcome
<1>7. CASE c.tool = "run_python"  BY <1>4, <1>7 DEF Outcome
<1>8. CASE c.tool = "extract_visible_text"  BY <1>4, <1>8 DEF Outcome
<1>9. CASE c.tool \in Calculators \cup {"write_work_file"}  BY <1>4, <1>9 DEF Outcome
<1>10. QED
  BY <1>3, <1>5, <1>6, <1>7, <1>8, <1>9 DEF PathReaders, Doers, Renderers
-----------------------------------------------------------------------------
(* Types. *)

(* The tools that compute from their arguments read nothing. *)
LEMMA ReadersDoNotCalculate == PathReaders \cap Calculators = {}
<1>1. SUFFICES ASSUME NEW t \in Catalog, t.name \in PathReaders, "path" \notin t.needs \cup t.offers
               PROVE  FALSE
  BY DEF Calculators
<1>2. QED  BY <1>1, CardsFit DEF CardFits

Typing ==
  /\ TypeOK
  /\ counter <= calls /\ told <= calls /\ calls \in 0..MaxCalls /\ life \in Nat
  /\ call.at = "waits" =>
       /\ call.call \in Calls /\ ~Refused(call.call) /\ call.call.tool \in Slow
       /\ call.got.ok \in BOOLEAN
       /\ call = [at |-> "waits", call |-> call.call, got |-> call.got, n |-> call.n,
                  steady |-> call.steady]
  /\ child # "none" => up /\ call.at = "waits" /\ call.call.tool = "run_python"

LedgerTyped(l) == \A e \in l : e.key.tool \in Names \ LEDGER_SKIP_TOOLS /\ e.was.ok \in BOOLEAN

LEMMA RecordedTyped ==
  ASSUME LedgerTyped(ledger), NEW fs, NEW c, NEW got, NEW steady, c.tool \in Names,
         c.tool \notin LEDGER_SKIP_TOOLS => got.ok \in BOOLEAN, Recorded(fs, c, got, steady)
  PROVE  LedgerTyped(ledger')
<1>1. CASE c.tool \in LEDGER_SKIP_TOOLS  BY <1>1 DEF Recorded
<1>2. CASE c.tool \notin LEDGER_SKIP_TOOLS
  <2>1. ledger' = {e \in ledger : e.key # Key(fs, c)}
                    \cup {[key |-> Key(fs, c), was |-> got, steady |-> steady]}
    BY <1>2 DEF Recorded
  <2>2. Key(fs, c).tool = c.tool  BY DEF Key
  <2>3. QED  BY <1>2, <2>1, <2>2 DEF LedgerTyped
<1>3. QED  BY <1>1, <1>2

LEMMA WritesTyped ==
  ASSUME NEW c \in Calls, files \in [Paths -> Contents \cup {"gone"}], Writes(c)
  PROVE  files' \in [Paths -> Contents \cup {"gone"}]
<1>1. c.tool = "write_work_file" => c.value \in Contents  BY ToolsAssumption
<1>2. QED  BY <1>1 DEF Writes

LEMMA TypingInit == Init => Typing
<1>1. SUFFICES ASSUME Init PROVE Typing  OBVIOUS
<1>2. call.at = "none" /\ answer.how = "none"  BY <1>1 DEF Init, NoCall, NoAnswer
<1>3. MaxCalls \in Nat  BY ToolsAssumption
<1>4. /\ ledger = {} /\ told = 0 /\ counter = 0 /\ calls = 0 /\ life = 0 /\ child = "none"
      /\ orphan = FALSE /\ up = TRUE /\ files \in [Paths -> Contents \cup {"gone"}]
  BY <1>1 DEF Init
<1>5. told \in 0..MaxCalls /\ counter \in 0..MaxCalls /\ calls \in 0..MaxCalls /\ life \in Nat
      /\ counter <= calls /\ told <= calls
  BY <1>3, <1>4
<1>6. TypeOK  BY <1>2, <1>4, <1>5 DEF TypeOK
<1>7. QED  BY <1>2, <1>4, <1>5, <1>6 DEF Typing

LEMMA TypingStep == Typing /\ [Next]_vars => Typing'
<1>1. SUFFICES ASSUME Typing, [Next]_vars PROVE Typing'  OBVIOUS
<1>2. MaxCalls \in Nat  BY ToolsAssumption
<1>3. \A c, how, got : Answered(c, how, got) => answer'.how = how  BY DEF Answered
<1>4. NoCall.at = "none"  BY DEF NoCall
<1>5. LedgerTyped(ledger)  BY <1>1 DEF Typing, TypeOK, LedgerTyped
<1> DEFINE Kept == /\ files' \in [Paths -> Contents \cup {"gone"}] /\ LedgerTyped(ledger')
                   /\ answer'.how \in {"none", "run", "replayed", "refused"}
<1>6. ASSUME Kept, UNCHANGED <<call, child, orphan, up, life>>, counter' \in Nat, counter' <= calls',
             calls' \in 0..MaxCalls, calls' >= calls, told' \in Nat, told' <= calls'
      PROVE  Typing'
  BY <1>1, <1>2, <1>6 DEF Typing, TypeOK, LedgerTyped
<1>7. ASSUME NEW c \in Calls, Asks(c)
      PROVE  calls' = calls + 1 /\ calls' \in 0..MaxCalls /\ up /\ call.at = "none" /\ child = "none"
  BY <1>1, <1>2, <1>4, <1>7 DEF Asks, Typing, TypeOK
<1>8. files \in [Paths -> Contents \cup {"gone"}] /\ answer.how \in {"none", "run", "replayed", "refused"}
      /\ told \in Nat /\ told <= calls /\ calls \in 0..MaxCalls /\ counter \in Nat /\ counter <= calls
  BY <1>1 DEF Typing, TypeOK
<1>9. ASSUME NEW c \in Calls, Refuse(c)  PROVE Typing'
  BY <1>2, <1>3, <1>5, <1>6, <1>7, <1>8, <1>9 DEF Refuse, fileVars
<1>10. ASSUME NEW c \in Calls, Replay(c)  PROVE Typing'
  <2>1. answer'.how = "replayed"
    <3>1. PICK e, now, got : answer' = [how |-> "replayed", call |-> c, n |-> calls', got |-> got,
                                        entry |-> e, now |-> now]
      BY <1>10 DEF Replay
    <3>2. QED  BY <3>1
  <2>2. QED  BY <1>2, <1>5, <1>6, <1>7, <1>8, <1>10, <2>1 DEF Replay, fileVars
<1>11. ASSUME NEW c \in Calls, RunQuick(c)  PROVE Typing'
  <2>1. PICK p : p = Parsed(c)  OBVIOUS
  <2>2. p.tool = c.tool /\ c.tool \in Names  BY <1>11, <2>1, ParsedFits DEF RunQuick, Runs
  <2>3. Asks(c) /\ UNCHANGED <<call, child, orphan, up, life>>  BY <1>11 DEF RunQuick, Runs
  <2>4. LedgerTyped(ledger')
    <3>1. Recorded(files', p, Outcome(p), TRUE) \/ UNCHANGED ledger  BY <1>11, <2>1 DEF RunQuick
    <3>2. CASE Recorded(files', p, Outcome(p), TRUE)
      <4>1. c.tool \notin LEDGER_SKIP_TOOLS => Outcome(p).ok \in BOOLEAN  BY <2>2, OutcomeSays
      <4>2. QED  BY <1>5, <2>2, <3>2, <4>1, RecordedTyped
    <3>3. QED  BY <1>5, <3>1, <3>2
  <2>5. files' \in [Paths -> Contents \cup {"gone"}]
    <3>1. CASE c.via = "direct"
      <4>1. p = c  BY <2>1, <3>1, ParsedFits
      <4>2. Writes(p)  BY <1>11, <2>1 DEF RunQuick
      <4>3. Writes(c)  BY <4>1, <4>2
      <4>4. QED  BY <1>8, <4>3, WritesTyped
    <3>2. CASE c.via # "direct"
      <4>1. p.tool # "write_work_file"  BY <1>11, <2>1, <3>2, ParsedFits DEF RunQuick, Runs, Direct
      <4>2. QED  BY <1>8, <1>11, <2>1, <4>1 DEF RunQuick, Writes
    <3>3. QED  BY <3>1, <3>2
  <2>6. told' \in Nat /\ told' <= calls'  BY <1>2, <1>7, <1>8, <1>11, <2>3 DEF RunQuick, Emits
  <2>7. answer'.how = "run"  BY <1>3, <1>11 DEF RunQuick
  <2>8. counter' = counter \/ counter' = counter + 1  BY <1>11 DEF RunQuick, NextResult
  <2>9. QED  BY <1>2, <1>6, <1>7, <1>8, <2>3, <2>4, <2>5, <2>6, <2>7, <2>8
<1>27. ASSUME NEW c \in Calls, DiskFull(c)  PROVE Typing'
  <2>1. PICK p : p = Parsed(c)  OBVIOUS
  <2>2. p.tool = c.tool /\ c.tool \in Names  BY <1>27, <2>1, ParsedFits DEF DiskFull, Runs
  <2>3. Asks(c) /\ UNCHANGED <<call, counter, told, child, orphan, up, life>>  BY <1>27 DEF DiskFull, Runs
  <2>4. LedgerTyped(ledger')
    <3>1. Recorded(files', p, Bad("FS"), TRUE) \/ UNCHANGED ledger  BY <1>27, <2>1 DEF DiskFull
    <3>2. Bad("FS").ok \in BOOLEAN  BY DEF Bad
    <3>3. QED  BY <1>5, <2>2, <3>1, <3>2, RecordedTyped
  <2>5. files' \in [Paths -> Contents \cup {"gone"}]  BY <1>8, <1>27 DEF DiskFull
  <2>6. answer'.how = "run"  BY <1>3, <1>27 DEF DiskFull
  <2>7. QED  BY <1>2, <1>6, <1>7, <1>8, <2>3, <2>4, <2>5, <2>6
<1>12. ASSUME NEW c \in Calls, StartSlow(c)  PROVE Typing'
  <2>1. PICK p : p = Parsed(c)  OBVIOUS
  <2>2. p.tool = c.tool /\ c.tool \in Names /\ c.tool \in Slow \ {"run_python"} /\ ~Refused(c)
    BY <1>12, <2>1, ParsedFits DEF StartSlow, Runs, Quick
  <2>3. Outcome(p).ok \in BOOLEAN
    <3>1. c.tool \notin LEDGER_SKIP_TOOLS  BY <2>2 DEF Slow, Searchers, LEDGER_SKIP_TOOLS, Signals
    <3>2. QED  BY <2>2, <3>1, OutcomeSays
  <2>4. call' = [at |-> "waits", call |-> c, got |-> Outcome(p), n |-> 0, steady |-> TRUE]
    BY <1>12, <2>1 DEF StartSlow
  <2>5. /\ call'.at = "waits" /\ call'.call = c /\ call'.got = Outcome(p)
        /\ call'.n = 0 /\ call'.steady = TRUE
    BY <2>4
  <2>6. Refused(c)' = Refused(c)  BY DEF Refused, Executable
  <2>7. Asks(c) /\ UNCHANGED <<files, ledger, answer, told, results, counter, cited, child, orphan, up, life>>
    BY <1>12 DEF StartSlow, Runs, fileVars
  <2>8. child' = "none" /\ calls' = calls + 1 /\ calls' \in 0..MaxCalls  BY <1>7, <2>7
  <2>9. QED
    BY <1>1, <1>2, <2>2, <2>3, <2>4, <2>5, <2>6, <2>7, <2>8 DEF Typing, TypeOK
<1>13. ASSUME NEW c \in Calls, StartPython(c)  PROVE Typing'
  <2>1. c.tool = "run_python" /\ ~Refused(c) /\ Asks(c)  BY <1>13 DEF StartPython, Runs
  <2>2. Outcome(c).ok \in BOOLEAN
    <3>1. c.tool \in Names  BY <2>1, ParsedFits
    <3>2. c.tool \notin LEDGER_SKIP_TOOLS  BY <2>1 DEF LEDGER_SKIP_TOOLS, Signals
    <3>3. QED  BY <3>1, <3>2, OutcomeSays
  <2>3. call' = [at |-> "waits", call |-> c, got |-> Outcome(c), n |-> counter + 1, steady |-> TRUE]
    BY <1>13 DEF StartPython
  <2>4. /\ call'.at = "waits" /\ call'.call = c /\ call'.got = Outcome(c)
        /\ call'.n = counter + 1 /\ call'.steady = TRUE
    BY <2>3
  <2>5. counter' = counter + 1 /\ child' \in {"runs", "hangs", "error"}  BY <1>13 DEF StartPython, NextResult
  <2>6. calls' = calls + 1 /\ calls' \in 0..MaxCalls /\ up  BY <1>7, <2>1
  <2>7. c.tool \in Slow  BY <2>1 DEF Slow
  <2>8. UNCHANGED <<files, ledger, answer, told, orphan, up, life>>  BY <1>13 DEF StartPython, fileVars
  <2>9. QED
    BY <1>1, <1>2, <2>1, <2>2, <2>3, <2>4, <2>5, <2>6, <2>7, <2>8 DEF Typing, TypeOK
<1>14. ASSUME LedgerTyped(ledger'), files' \in [Paths -> Contents \cup {"gone"}], answer'.how = "run",
              call' = NoCall, child' = "none", UNCHANGED <<calls, told, counter, orphan, up, life>>
       PROVE  Typing'
  BY <1>1, <1>2, <1>4, <1>14 DEF Typing, TypeOK, LedgerTyped
<1>28. ASSUME NEW got, SlowDone(got), got.ok \in BOOLEAN, call.at = "waits"  PROVE Typing'
  <2>1. PICK p : p = Parsed(call.call)  OBVIOUS
  <2>2. call.call \in Calls /\ ~Refused(call.call)  BY <1>1, <1>28 DEF Typing
  <2>3. p.tool \in Names  BY <2>1, <2>2, ParsedFits
  <2>4. Recorded(files, p, got, call.steady)  BY <1>28, <2>1 DEF SlowDone
  <2>5. LedgerTyped(ledger')  BY <1>5, <1>28, <2>3, <2>4, RecordedTyped
  <2>6. child = "none"  BY <1>1, <1>28 DEF SlowDone, Typing
  <2>7. QED  BY <1>3, <1>8, <1>14, <1>28, <2>5, <2>6 DEF SlowDone
<1>15. ASSUME FinishSlow \/ SlowFails  PROVE Typing'
  <2>1. PICK p : p = Parsed(call.call)  OBVIOUS
  <2>2. PICK got : SlowDone(got) /\ got \in {call.got, Outcome(p), Bad("FS")}
    BY <1>15, <2>1 DEF FinishSlow, SlowFails
  <2>3. call.at = "waits"  BY <1>15 DEF FinishSlow, SlowFails
  <2>4. call.call \in Calls /\ ~Refused(call.call) /\ call.got.ok \in BOOLEAN /\ call.call.tool \in Slow
    BY <1>1, <2>3 DEF Typing
  <2>5. p.tool = call.call.tool /\ p.tool \in Names  BY <2>1, <2>4, ParsedFits
  <2>6. p.tool \notin LEDGER_SKIP_TOOLS  BY <2>4, <2>5 DEF Slow, Searchers, LEDGER_SKIP_TOOLS, Signals
  <2>7. Outcome(p).ok \in BOOLEAN  BY <2>5, <2>6, OutcomeSays
  <2>8. Bad("FS").ok \in BOOLEAN  BY DEF Bad
  <2>9. QED  BY <1>28, <2>2, <2>3, <2>4, <2>7, <2>8
<1>16. ASSUME NEW got, PythonDone(got), got.ok \in BOOLEAN, child # "none",
              files' \in [Paths -> Contents \cup {"gone"}]
       PROVE  Typing'
  <2>1. call.call \in Calls /\ ~Refused(call.call)  BY <1>1, <1>16 DEF Typing
  <2>2. call.call.tool \in Names  BY <2>1, ParsedFits
  <2>3. Recorded(files', call.call, got, TRUE)  BY <1>16 DEF PythonDone
  <2>4. LedgerTyped(ledger')  BY <1>5, <1>16, <2>2, <2>3, RecordedTyped
  <2>5. QED  BY <1>3, <1>14, <1>16, <2>4 DEF PythonDone
<1>17. Bad("EXIT").ok \in BOOLEAN  BY DEF Bad
<1>18. \A v \in Contents : [files EXCEPT !["work/s"] = v] \in [Paths -> Contents \cup {"gone"}]
  BY <1>8
<1>19. ASSUME PythonCloses  PROVE Typing'
  <2>1. child = "runs" /\ files' \in [Paths -> Contents \cup {"gone"}]
    BY <1>8, <1>18, <1>19 DEF PythonCloses
  <2>2. call.got.ok \in BOOLEAN  BY <1>1, <2>1 DEF Typing
  <2>3. QED  BY <1>16, <1>17, <1>19, <2>1, <2>2 DEF PythonCloses
<1>20. ASSUME SpawnFails \/ KilledCloses  PROVE Typing'
  <2>1. PythonDone(Bad("EXIT")) /\ child # "none" /\ files' = files
    BY <1>20 DEF SpawnFails, KilledCloses
  <2>2. QED  BY <1>8, <1>16, <1>17, <2>1
<1>21. ASSUME TimesOut  PROVE Typing'
  <2>1. child = "hangs" /\ child' = "killed"  BY <1>21 DEF TimesOut, KillTimer
  <2>2. QED  BY <1>1, <1>21, <2>1 DEF TimesOut, fileVars, Typing, TypeOK
<1>22. ASSUME WorkerGoes  PROVE Typing'
  <2>1. ledger' = ledger \/ ledger' = {}  BY <1>22 DEF WorkerGoes
  <2>2. orphan' \in BOOLEAN  BY <1>1, <1>22 DEF WorkerGoes, Typing, TypeOK
  <2>3. call' = NoCall /\ up' = FALSE /\ child' = "none"
        /\ UNCHANGED <<files, answer, told, counter, life, calls>>
    BY <1>22 DEF WorkerGoes, fileVars
  <2>4. QED  BY <1>1, <1>4, <2>1, <2>2, <2>3 DEF Typing, TypeOK
<1>23. ASSUME WorkerComes  PROVE Typing'
  <2>1. up' = TRUE /\ life' = life + 1 /\ counter' = 0
        /\ UNCHANGED <<files, ledger, call, answer, told, child, orphan, calls>>
    BY <1>23 DEF WorkerComes, fileVars
  <2>2. QED  BY <1>1, <1>2, <2>1 DEF Typing, TypeOK
<1>24. ASSUME OrphanEnds  PROVE Typing'
  <2>1. orphan' = FALSE /\ files' \in [Paths -> Contents \cup {"gone"}]
        /\ UNCHANGED <<ledger, answer, told, counter, child, up, life, calls>>
    BY <1>18, <1>24 DEF OrphanEnds
  <2>2. /\ call'.at = call.at
        /\ call.at = "waits" =>
             /\ call' = [at |-> "waits", call |-> call.call, got |-> call.got, n |-> call.n, steady |-> FALSE]
             /\ call'.call = call.call /\ call'.got = call.got /\ call'.n = call.n /\ call'.steady = FALSE
    BY <1>1, <1>24 DEF OrphanEnds, Typing
  <2>3. \A c : Refused(c)' = Refused(c)  BY DEF Refused, Executable
  <2>4. QED  BY <1>1, <2>1, <2>2, <2>3 DEF Typing, TypeOK
<1>25. ASSUME UNCHANGED vars  PROVE Typing'
  BY <1>1, <1>25 DEF Typing, TypeOK, vars, fileVars
<1>26. QED
  BY <1>1, <1>9, <1>10, <1>11, <1>12, <1>13, <1>15, <1>19, <1>20, <1>21, <1>22, <1>23, <1>24, <1>25,
     <1>27
     DEF Next

LEMMA TypingAlways == Spec => []Typing
<1>1. QED  BY TypingInit, TypingStep, PTL DEF Spec
-----------------------------------------------------------------------------
(* The ledger. What an entry of a reader says is what its key says: the     *)
(* digest in the key is the content of the file the path names.             *)

Result(key) ==
  IF ~Accepts(key.tool, key.fields) THEN Bad("VALIDATION")
  ELSE IF key.tool \in Scanners \cup Cutters THEN Good(IF ReadsFile(key) THEN key.sha ELSE key.value)
  ELSE IF key.sha = "path:" THEN Bad("NOT_FOUND") ELSE Good(key.sha)

(* A scan of a file that is not there throws, and is not recorded. *)
ScanFits(key) ==
  key.tool \in Scanners \cup Cutters /\ ReadsFile(key) /\ Accepts(key.tool, key.fields) => key.sha # "path:"

ReadingFits(e) ==
  e.key.tool \in PathReaders /\ Settled(e) => e.was = Result(e.key) /\ ScanFits(e.key)

(* A write that names its file leaves the digest of what it wrote. *)
WritingFits(e) ==
  e.key.tool = "write_work_file" /\ e.was.ok /\ Target(e.key.path) = e.key.path
    => e.key.path \in Paths /\ e.key.sha = e.key.value /\ e.key.value \in Contents

LedgerFits(l) == \A e \in l : ReadingFits(e) /\ WritingFits(e)

(* While nobody writes, a call that waits has read what is there. *)
Waiting ==
  call.at = "waits" /\ call.call.tool # "run_python" /\ call.steady
    => call.got = Outcome(Parsed(call.call)) /\ ~Throws(Parsed(call.call))

(* Force is no field that a reader's schema asks for. *)
LEMMA ForceIsNoNeed ==
  ASSUME NEW name \in PathReaders, NEW fields
  PROVE  Accepts(name, fields) = Accepts(name, fields \ {"force"})
<1>1. PICK s : s = SchemaOf(name)  OBVIOUS
<1>2. "force" \notin s.needs \cup s.oneOf  BY <1>1, SchemaThere DEF SchemaFits
<1>3. s.needs \subseteq fields <=> s.needs \subseteq fields \ {"force"}  BY <1>2
<1>4. s.oneOf \cap fields = s.oneOf \cap (fields \ {"force"})  BY <1>2
<1>5. QED  BY <1>1, <1>3, <1>4 DEF Accepts

(* The readers in two kinds, and what each finds. *)
LEMMA ReaderOutcome ==
  ASSUME NEW c, c.tool \in PathReaders, Accepts(c.tool, c.fields)
  PROVE  /\ c.tool \in Scanners \cup Cutters =>
              Outcome(c) = Good(IF ReadsFile(c) THEN files[c.path] ELSE c.value)
         /\ c.tool \notin Scanners \cup Cutters =>
              Outcome(c) = IF Present(c.path) THEN Good(files[c.path]) ELSE Bad("NOT_FOUND")
<1>1. CASE c.tool \in Scanners \cup Cutters
  <2>1. c.tool \notin Lookers \cup Searchers \cup Renderers \cup Calculators \cup Signals
                        \cup {"run_python", "list_workspace", "extract_visible_text", "write_work_file"}
    BY <1>1, ReadersDoNotCalculate DEF Scanners, Cutters, Lookers, Searchers, Renderers, Signals
  <2>2. QED  BY <1>1, <2>1 DEF Outcome
<1>2. CASE c.tool \notin Scanners \cup Cutters
  <2>1. c.tool \in Lookers \cup Searchers \cup Renderers  BY <1>2 DEF PathReaders
  <2>2. c.tool \notin Scanners \cup Cutters \cup Calculators \cup Signals
                        \cup {"run_python", "list_workspace", "extract_visible_text", "write_work_file"}
    BY <1>2, <2>1, ReadersDoNotCalculate DEF Lookers, Searchers, Renderers, Signals
  <2>3. QED  BY <1>2, <2>1, <2>2 DEF Outcome
<1>3. QED  BY <1>1, <1>2

(* What a reader finds is what its key says, unless it throws. *)
LEMMA ReaderFinds ==
  ASSUME NEW c \in Calls, NEW p, p = Parsed(c), ~Refused(c), p.tool \in PathReaders,
         files \in [Paths -> Contents \cup {"gone"}]
  PROVE  /\ ~Throws(p) => Outcome(p) = Result(Key(files, p)) /\ ScanFits(Key(files, p))
         /\ Throws(p) => ~ScanFits(Key(files, p))
<1>1. /\ p.path \in Paths \cup {""} /\ ("path" \in p.fields <=> p.path # "")
  BY ParsedFits
<1>2. PICK k : k = Key(files, p)  OBVIOUS
<1>3. /\ k.tool = p.tool /\ k.path = p.path /\ k.value = p.value /\ k.fields = p.fields \ {"force"}
      /\ k.sha = FingerprintIn(files, p.path)
  BY <1>2 DEF Key
<1>4. Accepts(k.tool, k.fields) = Accepts(p.tool, p.fields)  BY <1>3, ForceIsNoNeed
<1>5. "" \notin Paths /\ Contents \subseteq STRING \ {"gone", "path:"}  BY ToolsAssumption
<1>6. ReadsFile(k) = ReadsFile(p)  BY <1>3 DEF ReadsFile
<1>7. CASE ~Accepts(p.tool, p.fields)
  BY <1>2, <1>3, <1>4, <1>7 DEF Outcome, Result, Throws, ScanFits
<1>8. CASE Accepts(p.tool, p.fields) /\ ~ReadsFile(p) /\ p.tool \in Scanners \cup Cutters
  <2>1. Outcome(p) = Good(p.value)  BY <1>8, ReaderOutcome
  <2>2. QED  BY <1>2, <1>3, <1>4, <1>6, <1>8, <2>1 DEF Result, Throws, ScanFits
<1>9. CASE Accepts(p.tool, p.fields) /\ (ReadsFile(p) \/ p.tool \notin Scanners \cup Cutters)
  <2>1. p.path \in Paths /\ p.path # ""
    <3>1. CASE ReadsFile(p)  BY <1>1, <3>1 DEF ReadsFile
    <3>2. CASE p.tool \notin Scanners \cup Cutters
      <4>1. "path" \in SchemaOf(p.tool).needs  BY <3>2, SchemaThere DEF SchemaFits, Pathed
      <4>2. "path" \in p.fields  BY <1>9, <4>1 DEF Accepts
      <4>3. QED  BY <1>1, <4>2
    <3>3. QED  BY <1>9, <3>1, <3>2
  <2>2. k.sha = IF files[p.path] # "gone" THEN files[p.path] ELSE "path:"
    BY <1>3, <2>1 DEF FingerprintIn
  <2>3. files[p.path] \in Contents \cup {"gone"}  BY <2>1
  <2>4. Present(p.path) <=> k.sha # "path:"  BY <1>5, <2>1, <2>2, <2>3 DEF Present
  <2>5. Present(p.path) => k.sha = files[p.path]  BY <2>2 DEF Present
  <2>6. CASE p.tool \in Scanners \cup Cutters
    <3>1. Outcome(p) = Good(files[p.path]) /\ ReadsFile(p)  BY <1>9, <2>6, ReaderOutcome
    <3>2. Throws(p) <=> ~Present(p.path)  BY <1>9, <2>6, <3>1 DEF Throws
    <3>3. QED  BY <1>2, <1>3, <1>4, <1>6, <1>9, <2>4, <2>5, <2>6, <3>1, <3>2 DEF Result, ScanFits
  <2>7. CASE p.tool \notin Scanners \cup Cutters
    <3>1. Outcome(p) = IF Present(p.path) THEN Good(files[p.path]) ELSE Bad("NOT_FOUND")
      BY <1>9, <2>7, ReaderOutcome
    <3>2. ~Throws(p)
      <4>1. p.tool \in Lookers \cup Searchers \cup Renderers  BY <2>7 DEF PathReaders
      <4>2. p.tool # "request_specialist"  BY <4>1 DEF Lookers, Searchers, Renderers
      <4>3. QED  BY <2>7, <4>2 DEF Throws
    <3>3. QED  BY <1>2, <1>3, <1>4, <1>9, <2>4, <2>5, <2>7, <3>1, <3>2 DEF Result, ScanFits
  <2>8. QED  BY <2>6, <2>7
<1>10. QED  BY <1>7, <1>8, <1>9

LEMMA RecordedFits ==
  ASSUME LedgerFits(ledger), NEW fs, NEW c, NEW got, NEW steady, Recorded(fs, c, got, steady),
         NEW e, e = [key |-> Key(fs, c), was |-> got, steady |-> steady],
         c.tool \notin LEDGER_SKIP_TOOLS => ReadingFits(e) /\ WritingFits(e)
  PROVE  LedgerFits(ledger')
<1>1. CASE c.tool \in LEDGER_SKIP_TOOLS  BY <1>1 DEF Recorded
<1>2. CASE c.tool \notin LEDGER_SKIP_TOOLS
  <2>1. ledger' = {x \in ledger : x.key # Key(fs, c)} \cup {e}  BY <1>2 DEF Recorded
  <2>2. QED  BY <1>2, <2>1 DEF LedgerFits
<1>3. QED  BY <1>1, <1>2

(* A call that neither reads nor writes leaves an entry of which nothing    *)
(* is said.                                                                *)
LEMMA OthersFit ==
  ASSUME NEW fs, NEW c, NEW got, NEW steady, NEW e,
         e = [key |-> Key(fs, c), was |-> got, steady |-> steady],
         c.tool \notin PathReaders \cup {"write_work_file"}
  PROVE  ReadingFits(e) /\ WritingFits(e)
<1>1. e.key.tool = c.tool  BY DEF Key
<1>2. QED  BY <1>1 DEF ReadingFits, WritingFits

(* A read that nothing disturbed leaves what its key says. *)
LEMMA ReaderLeaves ==
  ASSUME NEW c \in Calls, NEW p, p = Parsed(c), ~Refused(c), p.tool # "write_work_file",
         files \in [Paths -> Contents \cup {"gone"}], NEW got, NEW steady, NEW e,
         e = [key |-> Key(files, p), was |-> got, steady |-> steady],
         steady /\ p.tool \in PathReaders /\ (p.tool \in Renderers => got.ok)
           => got = Outcome(p) /\ ~Throws(p)
  PROVE  ReadingFits(e) /\ WritingFits(e)
<1>1. e.key = Key(files, p) /\ e.was = got /\ e.steady = steady /\ e.key.tool = p.tool  BY DEF Key
<1>2. WritingFits(e)  BY <1>1 DEF WritingFits
<1>3. ASSUME p.tool \in PathReaders, Settled(e)  PROVE e.was = Result(e.key) /\ ScanFits(e.key)
  <2>1. got = Outcome(p) /\ ~Throws(p)  BY <1>1, <1>3 DEF Settled
  <2>2. QED  BY <1>1, <1>3, <2>1, ReaderFinds
<1>4. QED  BY <1>1, <1>2, <1>3 DEF ReadingFits

(* What a write leaves in the file it names is what its key says. *)
LEMMA WriterLeaves ==
  ASSUME NEW c \in Calls, c.tool = "write_work_file", NEW e,
         files \in [Paths -> Contents \cup {"gone"}], Writes(c),
         e = [key |-> Key(files', c), was |-> Outcome(c), steady |-> TRUE]
  PROVE  /\ WritingFits(e)
         /\ Outcome(c).ok => files'[Target(c.path)] = c.value
<1>1. /\ c.path \in Paths \cup {""} /\ c.value \in Contents /\ ("path" \in c.fields <=> c.path # "")
      /\ {"work/s", "work/a"} \subseteq Paths /\ "" \notin Paths
      /\ Contents \subseteq STRING \ {"gone", "path:"}
  BY ToolsAssumption
<1>2. e.key.path = c.path /\ e.key.value = c.value /\ e.key.sha = FingerprintIn(files', c.path)
      /\ e.was = Outcome(c)
  BY DEF Key
<1>3. Outcome(c).ok => Accepts(c.tool, c.fields)  BY DEF Outcome, Bad
<1>4. Accepts(c.tool, c.fields) => c.path # ""
  BY <1>1, SchemaThere DEF Accepts, SchemaFits, Direct, Pathed
<1>5. Target(c.path) \in Paths \cup {""} /\ (c.path # "" => Target(c.path) \in Paths)
  BY <1>1 DEF Target
<1>6. Outcome(c).ok => files'[Target(c.path)] = c.value
  BY <1>3, <1>4, <1>5 DEF Writes
<1>7. SUFFICES ASSUME Outcome(c).ok, Target(c.path) = c.path
               PROVE  c.path \in Paths /\ FingerprintIn(files', c.path) = c.value
  BY <1>1, <1>2, <1>6 DEF WritingFits
<1>8. c.path # "" /\ c.path \in Paths  BY <1>1, <1>3, <1>4, <1>7
<1>9. QED  BY <1>1, <1>6, <1>7, <1>8 DEF FingerprintIn

Entries == LedgerFits(ledger) /\ Waiting

(* What RunQuick does to the ledger, and to the file a write names. *)
LEMMA QuickFits ==
  ASSUME Typing, Entries, NEW c \in Calls, RunQuick(c)
  PROVE  /\ LedgerFits(ledger')
         /\ c.tool = "write_work_file" /\ Outcome(c).ok => files'[Target(c.path)] = c.value
<1>1. PICK p : p = Parsed(c)  OBVIOUS
<1>2. p.tool = c.tool /\ ~Refused(c) /\ (c.tool \in Direct => p = c)
  BY <1>1, ParsedFits DEF RunQuick, Runs
<1>3. files \in [Paths -> Contents \cup {"gone"}]  BY DEF Typing, TypeOK
<1>4. LedgerFits(ledger)  BY DEF Entries
<1>5. Writes(p) /\ IF Throws(p) THEN UNCHANGED ledger ELSE Recorded(files', p, Outcome(p), TRUE)
  BY <1>1 DEF RunQuick
<1>6. PICK e : e = [key |-> Key(files', p), was |-> Outcome(p), steady |-> TRUE]  OBVIOUS
<1>7. CASE Throws(p)
  <2>1. c.tool # "write_work_file"  BY <1>2, <1>7 DEF Throws, Scanners, Cutters
  <2>2. LedgerFits(ledger')  BY <1>4, <1>5, <1>7
  <2>3. QED  BY <2>1, <2>2
<1>8. CASE ~Throws(p) /\ p.tool # "write_work_file"
  <2>1. files' = files  BY <1>5, <1>8 DEF Writes
  <2>2. e = [key |-> Key(files, p), was |-> Outcome(p), steady |-> TRUE]  BY <1>6, <2>1
  <2>3. ReadingFits(e) /\ WritingFits(e)  BY <1>1, <1>2, <1>3, <1>8, <2>2, ReaderLeaves
  <2>4. Recorded(files', p, Outcome(p), TRUE)  BY <1>5, <1>8
  <2>5. LedgerFits(ledger')  BY <1>4, <1>6, <2>3, <2>4, RecordedFits
  <2>6. QED  BY <1>2, <1>8, <2>5
<1>9. CASE ~Throws(p) /\ p.tool = "write_work_file"
  <2>1. p = c  BY <1>2, <1>9 DEF Direct
  <2>2. Writes(c) /\ e = [key |-> Key(files', c), was |-> Outcome(c), steady |-> TRUE]
    BY <1>5, <1>6, <2>1
  <2>3. c.tool = "write_work_file"  BY <1>2, <1>9
  <2>4. WritingFits(e) /\ (Outcome(c).ok => files'[Target(c.path)] = c.value)
    BY <1>3, <2>2, <2>3, WriterLeaves
  <2>5. e.key.tool = "write_work_file"  BY <2>2, <2>3 DEF Key
  <2>6. ReadingFits(e)
    BY <2>5 DEF ReadingFits, PathReaders, Lookers, Searchers, Scanners, Cutters, Renderers
  <2>7. LedgerFits(ledger')
    <3>1. Recorded(files', p, Outcome(p), TRUE)  BY <1>5, <1>9
    <3>2. QED  BY <1>4, <1>6, <2>4, <2>6, <3>1, RecordedFits
  <2>8. QED  BY <2>4, <2>7
<1>10. QED  BY <1>7, <1>8, <1>9

(* What a full disk leaves in the ledger: a failure. *)
LEMMA FullFits ==
  ASSUME Typing, Entries, NEW c \in Calls, DiskFull(c)
  PROVE  LedgerFits(ledger')
<1>1. PICK p : p = Parsed(c)  OBVIOUS
<1>2. LedgerFits(ledger)  BY DEF Entries
<1>3. /\ p.tool \in {"write_work_file"} \cup Cutters \cup Renderers
      /\ IF p.tool \in Cutters THEN UNCHANGED ledger ELSE Recorded(files', p, Bad("FS"), TRUE)
  BY <1>1 DEF DiskFull
<1>4. CASE p.tool \in Cutters  BY <1>2, <1>3, <1>4
<1>5. CASE p.tool \notin Cutters
  <2>1. PICK e : e = [key |-> Key(files', p), was |-> Bad("FS"), steady |-> TRUE]  OBVIOUS
  <2>2. e.key.tool = p.tool /\ e.was.ok = FALSE  BY <2>1 DEF Key, Bad
  <2>3. WritingFits(e)  BY <2>2 DEF WritingFits
  <2>4. ReadingFits(e)
    <3>1. p.tool \in PathReaders => p.tool \in Renderers
      BY <1>3, <1>5 DEF PathReaders, Lookers, Searchers, Scanners, Cutters, Renderers
    <3>2. QED  BY <2>2, <3>1 DEF ReadingFits, Settled
  <2>5. Recorded(files', p, Bad("FS"), TRUE)  BY <1>3, <1>5
  <2>6. QED  BY <1>2, <2>1, <2>3, <2>4, <2>5, RecordedFits
<1>6. QED  BY <1>4, <1>5

(* What a call that waited leaves: what was there if nobody wrote, or a     *)
(* failure.                                                                *)
LEMMA SlowFits ==
  ASSUME Typing, Entries, FinishSlow \/ SlowFails
  PROVE  LedgerFits(ledger')
<1>1. PICK p : p = Parsed(call.call)  OBVIOUS
<1>2. call.at = "waits"  BY DEF FinishSlow, SlowFails
<1>3. PICK got : /\ SlowDone(got)
                 /\ \/ FinishSlow /\ got \in {call.got, Outcome(p)}
                    \/ call.call.tool \in Renderers /\ got = Bad("FS")
  BY <1>1 DEF FinishSlow, SlowFails
<1>4. call.call \in Calls /\ ~Refused(call.call) /\ call.call.tool \in Slow /\ call.call.tool # "run_python"
  BY <1>2, <1>3 DEF Typing, SlowDone
<1>5. p.tool = call.call.tool  BY <1>1, <1>4, ParsedFits
<1>6. p.tool # "write_work_file"  BY <1>4, <1>5 DEF Slow, Searchers
<1>7. files \in [Paths -> Contents \cup {"gone"}] /\ LedgerFits(ledger)  BY DEF Typing, TypeOK, Entries
<1>8. PICK e : e = [key |-> Key(files, p), was |-> got, steady |-> call.steady]  OBVIOUS
<1>9. call.steady /\ p.tool \in PathReaders /\ (p.tool \in Renderers => got.ok)
        => got = Outcome(p) /\ ~Throws(p)
  <2>1. SUFFICES ASSUME call.steady, p.tool \in Renderers => got.ok  PROVE got = Outcome(p) /\ ~Throws(p)
    OBVIOUS
  <2>2. call.got = Outcome(p) /\ ~Throws(p)  BY <1>1, <1>2, <1>4, <2>1 DEF Entries, Waiting
  <2>3. got # Bad("FS") \/ p.tool \notin Renderers  BY <2>1 DEF Bad
  <2>4. QED  BY <1>3, <1>5, <2>2, <2>3
<1>10. ReadingFits(e) /\ WritingFits(e)  BY <1>1, <1>4, <1>6, <1>7, <1>8, <1>9, ReaderLeaves
<1>11. Recorded(files, p, got, call.steady)  BY <1>1, <1>3 DEF SlowDone
<1>12. QED  BY <1>7, <1>8, <1>10, <1>11, RecordedFits

LEMMA EntriesStep == Typing /\ Entries /\ [Next]_vars => Entries'
<1>1. SUFFICES ASSUME Typing, Entries, [Next]_vars PROVE Entries'  OBVIOUS
<1>2. LedgerFits(ledger) /\ Waiting  BY <1>1 DEF Entries
<1>3. ASSUME UNCHANGED ledger \/ ledger' = {}  PROVE LedgerFits(ledger)'
  BY <1>2, <1>3 DEF LedgerFits
<1>4. ASSUME call' = NoCall \/ call'.at = "none"  PROVE Waiting'
  BY <1>4 DEF Waiting, NoCall
<1>5. ASSUME UNCHANGED <<call, files>>  PROVE Waiting'
  <2>1. \A c : Outcome(c)' = Outcome(c) /\ Throws(c)' = Throws(c)
    BY <1>5 DEF Outcome, Throws, Present
  <2>2. QED  BY <1>2, <1>5, <2>1 DEF Waiting
<1>6. ASSUME NEW c \in Calls, Asks(c), UNCHANGED call  PROVE Waiting'
  BY <1>4, <1>6 DEF Asks
<1>7. ASSUME NEW c \in Calls, Refuse(c) \/ Replay(c)  PROVE Entries'
  BY <1>3, <1>6, <1>7 DEF Refuse, Replay, Entries
<1>8. ASSUME NEW c \in Calls, RunQuick(c)  PROVE Entries'
  BY <1>1, <1>6, <1>8, QuickFits DEF RunQuick, Runs, Entries
<1>9. ASSUME NEW c \in Calls, DiskFull(c)  PROVE Entries'
  BY <1>1, <1>6, <1>9, FullFits DEF DiskFull, Runs, Entries
<1>10. ASSUME NEW c \in Calls, StartSlow(c)  PROVE Entries'
  <2>1. PICK p : p = Parsed(c)  OBVIOUS
  <2>2. p.tool = c.tool /\ c.tool \in Slow  BY <1>10, <2>1, ParsedFits DEF StartSlow, Runs, Quick
  <2>3. ~Throws(p)  BY <2>2 DEF Throws, Slow, Searchers, Scanners, Cutters
  <2>4. call' = [at |-> "waits", call |-> c, got |-> Outcome(p), n |-> 0, steady |-> TRUE]
    BY <1>10, <2>1 DEF StartSlow
  <2>5. call'.call = c /\ call'.got = Outcome(p)  BY <2>4
  <2>6. files' = files /\ ledger' = ledger  BY <1>10 DEF StartSlow, fileVars
  <2>7. Outcome(p)' = Outcome(p) /\ Throws(p)' = Throws(p)  BY <2>6 DEF Outcome, Throws, Present
  <2>8. Waiting'  BY <2>1, <2>3, <2>5, <2>6, <2>7 DEF Waiting, Outcome, Throws, Present
  <2>9. QED  BY <1>3, <2>6, <2>8 DEF Entries
<1>11. ASSUME NEW c \in Calls, StartPython(c)  PROVE Entries'
  <2>1. call'.call.tool = "run_python" /\ ledger' = ledger  BY <1>11 DEF StartPython
  <2>2. Waiting'  BY <2>1 DEF Waiting
  <2>3. QED  BY <1>3, <2>1, <2>2 DEF Entries
<1>12. ASSUME FinishSlow \/ SlowFails  PROVE Entries'
  <2>1. call' = NoCall  BY <1>12 DEF FinishSlow, SlowFails, SlowDone
  <2>2. QED  BY <1>1, <1>4, <1>12, <2>1, SlowFits DEF Entries
<1>13. ASSUME PythonCloses \/ SpawnFails \/ KilledCloses  PROVE Entries'
  <2>1. PICK got : PythonDone(got)  BY <1>13 DEF PythonCloses, SpawnFails, KilledCloses
  <2>2. call.call.tool = "run_python"  BY <1>1, <1>13 DEF Typing, PythonCloses, SpawnFails, KilledCloses
  <2>3. Recorded(files', call.call, got, TRUE) /\ call' = NoCall  BY <2>1 DEF PythonDone
  <2>4. PICK e : e = [key |-> Key(files', call.call), was |-> got, steady |-> TRUE]  OBVIOUS
  <2>5. call.call.tool \notin PathReaders \cup {"write_work_file"}
    BY <2>2 DEF PathReaders, Lookers, Searchers, Scanners, Cutters, Renderers
  <2>6. ReadingFits(e) /\ WritingFits(e)  BY <2>4, <2>5, OthersFit
  <2>7. LedgerFits(ledger')  BY <1>2, <2>3, <2>4, <2>6, RecordedFits
  <2>8. QED  BY <1>4, <2>3, <2>7 DEF Entries
<1>14. ASSUME TimesOut \/ WorkerComes \/ UNCHANGED vars  PROVE Entries'
  BY <1>3, <1>5, <1>14 DEF TimesOut, WorkerComes, vars, fileVars, Entries
<1>15. ASSUME WorkerGoes  PROVE Entries'
  BY <1>3, <1>4, <1>15 DEF WorkerGoes, Entries
<1>16. ASSUME OrphanEnds  PROVE Entries'
  <2>1. call.at = "waits" => call'.steady = FALSE
    BY <1>1, <1>16 DEF OrphanEnds, Typing
  <2>2. call.at # "waits" => call' = call  BY <1>16 DEF OrphanEnds
  <2>3. Waiting'  BY <2>1, <2>2 DEF Waiting
  <2>4. QED  BY <1>3, <1>16, <2>3 DEF OrphanEnds, Entries
<1>17. QED
  BY <1>1, <1>7, <1>8, <1>9, <1>10, <1>11, <1>12, <1>13, <1>14, <1>15, <1>16 DEF Next
-----------------------------------------------------------------------------
(* What the ledger answers. *)

LEMMA ReplayFits ==
  ASSUME Typing, Entries, NEW c \in Calls, Replay(c)
  PROVE  /\ answer'.how = "replayed" /\ answer'.call = c
         /\ c.tool \in PathReaders /\ Settled(answer'.entry) =>
              answer'.entry.was = answer'.now /\ answer'.got.previous = Previous(c.tool, answer'.now)
         /\ c.tool \notin LEDGER_SKIP_TOOLS
         /\ "force" \in Named(c.tool).offers => "force" \notin c.fields
         /\ c.tool = "write_work_file" /\ answer'.got.previous.outcome # "FAILED" /\ Target(c.path) = c.path
              => files[c.path] = c.value
<1>1. PICK p : p = Parsed(c)  OBVIOUS
<1>2. /\ p.tool = c.tool /\ ~Refused(c) /\ (c.tool \in Direct => p = c)
      /\ c.tool \in Names /\ (c.via = "direct" => p = c)
  BY <1>1, ParsedFits DEF Replay
<1>3. Looks(p) /\ c.via \in {"direct", "router"}  BY <1>1, ToolsAssumption DEF Replay
<1>4. PICK e \in Known(p) :
        answer' = [how |-> "replayed", call |-> c, n |-> calls',
                   got |-> [ok |-> TRUE, text |-> "ALREADY_TESTED", previous |-> Previous(p.tool, e.was)],
                   entry |-> e, now |-> Outcome(p)]
  BY <1>1 DEF Replay
<1>5. /\ answer'.how = "replayed" /\ answer'.call = c /\ answer'.entry = e
      /\ answer'.now = Outcome(p) /\ answer'.got.previous = Previous(c.tool, e.was)
  BY <1>2, <1>4
<1>6. e \in ledger /\ e.key = Key(files, p)  BY <1>4 DEF Known
<1>7. e.key.tool = c.tool /\ e.key.path = p.path /\ e.key.value = p.value
      /\ e.key.sha = FingerprintIn(files, p.path)
  BY <1>2, <1>6 DEF Key
<1>8. ReadingFits(e) /\ WritingFits(e)  BY <1>6 DEF Entries, LedgerFits
<1>9. files \in [Paths -> Contents \cup {"gone"}]  BY DEF Typing, TypeOK
<1>10. c.tool \notin LEDGER_SKIP_TOOLS  BY <1>2, <1>3 DEF Looks
<1>11. c.tool \in PathReaders /\ Settled(answer'.entry) =>
         answer'.entry.was = answer'.now /\ answer'.got.previous = Previous(c.tool, answer'.now)
  <2>1. SUFFICES ASSUME c.tool \in PathReaders, Settled(e) PROVE e.was = Outcome(p)  BY <1>5
  <2>2. e.was = Result(e.key) /\ ScanFits(e.key)  BY <1>7, <1>8, <2>1 DEF ReadingFits
  <2>3. ~Throws(p)  BY <1>1, <1>2, <1>6, <1>9, <2>1, <2>2, ReaderFinds
  <2>4. QED  BY <1>1, <1>2, <1>6, <1>9, <2>1, <2>2, <2>3, ReaderFinds
<1>12. "force" \in Named(c.tool).offers => "force" \notin c.fields
  <2>1. SUFFICES ASSUME "force" \in Named(c.tool).offers PROVE "force" \notin c.fields  OBVIOUS
  <2>2. "force" \notin p.fields  BY <1>3 DEF Looks
  <2>3. CASE c.via = "direct"  BY <1>2, <2>2, <2>3
  <2>4. CASE c.via = "router"
    <3>1. Named(c.tool) \in Catalog /\ Named(c.tool).name = c.tool
      <4>1. \E t \in Catalog : t.name = c.tool  BY <1>2 DEF Names
      <4>2. QED  BY <4>1 DEF Named
    <3>2. c.tool \in Forced  BY <2>1, <3>1, CardsFit DEF CardFits
    <3>3. "force" \in SchemaOf(c.tool).takes  BY <3>2, SchemaThere DEF SchemaFits
    <3>4. p.fields = c.fields \cap (SchemaOf(c.tool).needs \cup SchemaOf(c.tool).takes)
      <4>1. c \in [tool : STRING, via : {"direct", "router"}, path : Paths \cup {""},
                   value : STRING, fields : SUBSET STRING]
        BY ToolsAssumption
      <4>2. QED  BY <1>1, <2>4, <4>1 DEF Parsed
    <3>5. QED  BY <2>2, <3>3, <3>4
  <2>5. QED  BY <1>3, <2>3, <2>4
<1>13. c.tool = "write_work_file" /\ answer'.got.previous.outcome # "FAILED" /\ Target(c.path) = c.path
         => files[c.path] = c.value
  <2>1. SUFFICES ASSUME c.tool = "write_work_file", e.was.ok, Target(c.path) = c.path
                 PROVE  files[c.path] = c.value
    BY <1>5 DEF Previous
  <2>2. p = c  BY <1>2, <2>1 DEF Direct
  <2>3. c.path \in Paths /\ FingerprintIn(files, c.path) = c.value /\ c.value \in Contents
    BY <1>7, <1>8, <2>1, <2>2 DEF WritingFits
  <2>4. "" \notin Paths /\ "path:" \notin Contents  BY ToolsAssumption
  <2>5. QED  BY <2>3, <2>4 DEF FingerprintIn
<1>14. QED  BY <1>5, <1>10, <1>11, <1>12, <1>13

(* The other answers are no replays. *)
LEMMA OtherAnswers ==
  ASSUME [Next]_vars, \A c \in Calls : ~Replay(c)
  PROVE  answer' = answer \/ answer'.how \in {"run", "refused"}
<1>1. \A c, how, got : Answered(c, how, got) => answer'.how = how  BY DEF Answered
<1>2. ASSUME NEW c \in Calls, Refuse(c) \/ RunQuick(c) \/ DiskFull(c) \/ StartSlow(c) \/ StartPython(c)
      PROVE  answer' = answer \/ answer'.how \in {"run", "refused"}
  BY <1>1, <1>2 DEF Refuse, RunQuick, DiskFull, StartSlow, StartPython
<1>3. ASSUME FinishSlow \/ SlowFails \/ PythonCloses \/ SpawnFails \/ KilledCloses
      PROVE  answer'.how = "run"
  BY <1>1, <1>3 DEF FinishSlow, SlowFails, SlowDone, PythonCloses, SpawnFails, KilledCloses, PythonDone
<1>4. ASSUME TimesOut \/ WorkerGoes \/ WorkerComes \/ OrphanEnds \/ UNCHANGED vars
      PROVE  answer' = answer
  BY <1>4 DEF TimesOut, WorkerGoes, WorkerComes, OrphanEnds, vars
<1>5. QED  BY <1>2, <1>3, <1>4 DEF Next

LEMMA ReplaysStep ==
  Typing /\ Entries /\ ReplaysAreCurrent /\ ForceRuns /\ [Next]_vars => (ReplaysAreCurrent /\ ForceRuns)'
<1>1. SUFFICES ASSUME Typing, Entries, ReplaysAreCurrent, ForceRuns, [Next]_vars
               PROVE  (ReplaysAreCurrent /\ ForceRuns)'
  OBVIOUS
<1>2. ASSUME NEW c \in Calls, Replay(c)  PROVE (ReplaysAreCurrent /\ ForceRuns)'
  BY <1>1, <1>2, ReplayFits DEF ReplaysAreCurrent, ForceRuns
<1>3. CASE \A c \in Calls : ~Replay(c)
  <2>1. answer' = answer \/ answer'.how \in {"run", "refused"}  BY <1>1, <1>3, OtherAnswers
  <2>2. QED  BY <1>1, <2>1 DEF ReplaysAreCurrent, ForceRuns
<1>4. QED  BY <1>2, <1>3

LEMMA EntriesAlways == Spec => []Entries
<1>1. Init => Entries  BY DEF Init, Entries, LedgerFits, Waiting, NoCall
<1>2. QED  BY <1>1, TypingAlways, EntriesStep, PTL DEF Spec

LEMMA ReplaysAlways == Spec => [](ReplaysAreCurrent /\ ForceRuns)
<1>1. Init => ReplaysAreCurrent /\ ForceRuns  BY DEF Init, NoAnswer, ReplaysAreCurrent, ForceRuns
<1>2. QED  BY <1>1, TypingAlways, EntriesAlways, ReplaysStep, PTL DEF Spec

(* For any files, calls, crashes and scripts: a replay of a call that reads *)
(* the file its path names points at a run that answered what a run would   *)
(* answer now, and repeats its summary and outcome; unless a script wrote   *)
(* during that run, or it failed writing its own output.                   *)
THEOREM LedgerIsCurrent == Spec => []ReplaysAreCurrent
<1>1. QED  BY ReplaysAlways, PTL
-----------------------------------------------------------------------------
(* The result files. *)

(* What a worker cites is in its result files, each under a number of its   *)
(* own, and the process under way has the latest.                          *)
Citing ==
  /\ \A c \in cited : c.life <= life /\ c.life \in Nat
  /\ \A c \in cited : c.life = life =>
       /\ c.n \in DOMAIN results /\ results[c.n] = c.text
       /\ c.n \in Nat /\ c.n <= counter
       /\ child # "none" => c.n < call.n
  /\ child # "none" => call.n \in Nat /\ call.n <= counter

LEMMA CitingStep == Typing /\ Citing /\ [Next]_vars => Citing'
<1>1. SUFFICES ASSUME Typing, Citing, [Next]_vars PROVE Citing'  OBVIOUS
<1>2. counter \in Nat /\ life \in Nat  BY <1>1 DEF Typing, TypeOK
<1>3. ASSUME UNCHANGED <<results, counter, cited, life>>, child' = "none" \/ UNCHANGED <<child, call>>
      PROVE  Citing'
  BY <1>1, <1>3 DEF Citing
<1>4. ASSUME NEW c \in Calls, Refuse(c) \/ Replay(c) \/ DiskFull(c)  PROVE Citing'
  BY <1>3, <1>4 DEF Refuse, Replay, DiskFull
<1>15. ASSUME NEW c \in Calls, RunQuick(c)  PROVE Citing'
  <2>1. call.at = "none"  BY <1>15 DEF RunQuick, Runs, Asks, NoCall
  <2>2. child = "none"  BY <1>1, <2>1 DEF Typing
  <2>3. /\ counter' = counter \/ counter' = counter + 1
        /\ UNCHANGED <<results, cited, child, life>>
    BY <1>15 DEF RunQuick, NextResult
  <2>4. QED  BY <1>1, <1>2, <2>2, <2>3 DEF Citing
<1>5. ASSUME NEW c \in Calls, StartSlow(c)  PROVE Citing'
  <2>1. call.at = "none"  BY <1>5 DEF StartSlow, Runs, Asks, NoCall
  <2>2. child = "none"  BY <1>1, <2>1 DEF Typing
  <2>3. QED  BY <1>3, <1>5, <2>2 DEF StartSlow
<1>6. ASSUME NEW c \in Calls, StartPython(c)  PROVE Citing'
  <2>1. call' = [at |-> "waits", call |-> c, got |-> Outcome(c), n |-> counter + 1, steady |-> TRUE]
    BY <1>6 DEF StartPython
  <2>2. call'.n = counter + 1  BY <2>1
  <2>3. counter' = counter + 1 /\ UNCHANGED <<results, cited, life>>  BY <1>6 DEF StartPython, NextResult
  <2>4. QED  BY <1>1, <1>2, <2>2, <2>3 DEF Citing
<1>7. ASSUME FinishSlow \/ SlowFails  PROVE Citing'
  <2>1. PICK got : SlowDone(got)  BY <1>7 DEF FinishSlow, SlowFails
  <2>2. child = "none"  BY <1>1, <2>1 DEF SlowDone, Typing
  <2>3. QED  BY <1>3, <2>1, <2>2 DEF SlowDone
<1>8. ASSUME NEW got, PythonDone(got), child # "none"  PROVE Citing'
  <2>1. results' = [n \in DOMAIN results \cup {call.n} |->
                      IF n = call.n THEN got.text ELSE results[n]]
    BY <1>8 DEF PythonDone, Written
  <2>2. /\ DOMAIN results' = {call.n} \cup DOMAIN results
        /\ results'[call.n] = got.text
        /\ \A n \in DOMAIN results : n # call.n => results'[n] = results[n]
    BY <2>1
  <2>3. /\ cited' = cited \cup {[n |-> call.n, text |-> got.text, life |-> life]}
        /\ child' = "none" /\ UNCHANGED <<counter, life>>
    BY <1>8 DEF PythonDone
  <2>4. call.n \in Nat /\ call.n <= counter  BY <1>1, <1>8 DEF Citing
  <2>5. \A c \in cited' : c \in cited \/ (c.n = call.n /\ c.text = got.text /\ c.life = life)  BY <2>3
  <2>6. \A c \in cited' : c.life <= life /\ c.life \in Nat  BY <1>1, <1>2, <2>5 DEF Citing
  <2>7. ASSUME NEW c \in cited', c.life = life
        PROVE  c.n \in DOMAIN results' /\ results'[c.n] = c.text /\ c.n \in Nat /\ c.n <= counter
    <3>1. CASE c \in cited
      <4>1. c.n \in DOMAIN results /\ results[c.n] = c.text /\ c.n \in Nat /\ c.n <= counter /\ c.n < call.n
        BY <1>1, <1>8, <2>7, <3>1 DEF Citing
      <4>2. c.n # call.n  BY <2>4, <4>1
      <4>3. QED  BY <2>2, <4>1, <4>2
    <3>2. CASE c.n = call.n /\ c.text = got.text  BY <2>2, <2>4, <3>2
    <3>3. QED  BY <2>5, <3>1, <3>2
  <2>8. QED  BY <2>2, <2>3, <2>6, <2>7 DEF Citing
<1>9. ASSUME PythonCloses \/ SpawnFails \/ KilledCloses  PROVE Citing'
  BY <1>8, <1>9 DEF PythonCloses, SpawnFails, KilledCloses
<1>10. ASSUME TimesOut  PROVE Citing'
  <2>1. child # "none" /\ UNCHANGED <<results, counter, cited, life, call>>
    BY <1>10 DEF TimesOut, KillTimer
  <2>2. QED  BY <1>1, <2>1 DEF Citing
<1>11. ASSUME WorkerGoes  PROVE Citing'  BY <1>3, <1>11 DEF WorkerGoes
<1>12. ASSUME WorkerComes  PROVE Citing'
  <2>1. life' = life + 1 /\ UNCHANGED <<results, cited, child, call>>  BY <1>12 DEF WorkerComes
  <2>2. \A c \in cited' : c.life # life' /\ c.life <= life' /\ c.life \in Nat
    BY <1>1, <1>2, <2>1 DEF Citing
  <2>3. child = "none"
    BY <1>1, <1>12 DEF WorkerComes, Typing
  <2>4. QED  BY <1>1, <2>1, <2>2, <2>3 DEF Citing
<1>13. ASSUME UNCHANGED vars  PROVE Citing'  BY <1>3, <1>13 DEF vars
<1>16. ASSUME OrphanEnds  PROVE Citing'
  <2>1. UNCHANGED <<results, counter, cited, child, life>>  BY <1>16 DEF OrphanEnds
  <2>2. child # "none" => call'.n = call.n  BY <1>1, <1>16 DEF OrphanEnds, Typing
  <2>3. QED  BY <1>1, <2>1, <2>2 DEF Citing
<1>14. QED
  BY <1>15, <1>16, <1>1, <1>4, <1>5, <1>6, <1>7, <1>9, <1>10, <1>11, <1>12, <1>13 DEF Next

(* For any calls and faults: a call with force runs where its card offers   *)
(* force, and a result file a worker was told of stays as it was told while *)
(* that worker lives.                                                      *)
THEOREM AnswersHold == Spec => []ToolsInv
<1>1. Init => Citing
  BY DEF Init, Citing
<1>2. Spec => []Citing  BY <1>1, TypingAlways, CitingStep, PTL DEF Spec
<1>3. Typing /\ Citing /\ (ReplaysAreCurrent /\ ForceRuns) => ToolsInv
  BY DEF Typing, Citing, ToolsInv, CitedHold
<1>4. QED  BY <1>2, <1>3, TypingAlways, ReplaysAlways, PTL
-----------------------------------------------------------------------------
(* Effects. *)

(* A write that says it is done, or is answered from the ledger with an     *)
(* outcome other than FAILED where it names its file; and a control tool.   *)
WriteSaysDone ==
  /\ answer'.call.tool = "write_work_file"
  /\ \/ answer'.how = "run" /\ answer'.got.ok
     \/ /\ answer'.how = "replayed" /\ answer'.got.previous.outcome # "FAILED"
        /\ Target(answer'.call.path) = answer'.call.path

SignalSaysDone == answer'.how # "refused" /\ answer'.call.tool \in Signals /\ answer'.got.ok

LEMMA EffectsStep ==
  ASSUME Typing, Entries, [Next]_vars, answer' # answer
  PROVE  /\ WriteSaysDone => files'[Target(answer'.call.path)] = answer'.call.value
         /\ SignalSaysDone => told' = told + 1
<1> DEFINE Held ==
      /\ WriteSaysDone => files'[Target(answer'.call.path)] = answer'.call.value
      /\ SignalSaysDone => told' = told + 1
<1> USE DEF WriteSaysDone, SignalSaysDone
<1>1. \A c, how, got :
        Answered(c, how, got) => answer'.how = how /\ answer'.call = c /\ answer'.got = got
  BY DEF Answered
<1>2. ASSUME NEW c \in Calls, Refuse(c)  PROVE Held
  BY <1>1, <1>2 DEF Refuse
<1>3. ASSUME NEW c \in Calls, Replay(c)  PROVE Held
  <2>1. files' = files /\ Signals \subseteq LEDGER_SKIP_TOOLS
    BY <1>3 DEF Replay, fileVars, LEDGER_SKIP_TOOLS
  <2>2. QED  BY <1>3, <2>1, ReplayFits
<1>4. ASSUME NEW c \in Calls, RunQuick(c)  PROVE Held
  <2>1. PICK p : p = Parsed(c)  OBVIOUS
  <2>2. p.tool = c.tool /\ (c.tool \in Direct => p = c)  BY <1>4, <2>1, ParsedFits DEF RunQuick, Runs
  <2>3. PICK got : /\ got = IF Throws(p) THEN Bad("THROWN") ELSE Outcome(p)
                   /\ answer'.how = "run" /\ answer'.call = c /\ answer'.got = got
    BY <1>1, <1>4, <2>1 DEF RunQuick
  <2>4. got.ok => ~Throws(p) /\ Outcome(p).ok  BY <2>3 DEF Bad
  <2>5. CASE c.tool = "write_work_file"
    <3>1. p = c /\ c.tool \notin Signals  BY <2>2, <2>5 DEF Direct, Signals
    <3>2. QED  BY <1>4, <2>3, <2>4, <2>5, <3>1, QuickFits
  <2>6. CASE c.tool \in Signals
    <3>1. c.tool # "write_work_file"  BY <2>6 DEF Signals
    <3>2. Outcome(p).ok => Accepts(p.tool, p.fields)  BY DEF Outcome, Bad
    <3>3. Emits(p)  BY <1>4, <2>1 DEF RunQuick
    <3>4. got.ok => told' = told + 1  BY <2>2, <2>4, <2>6, <3>2, <3>3 DEF Emits
    <3>5. QED  BY <2>3, <3>1, <3>4
  <2>7. QED  BY <2>3, <2>5, <2>6
<1>11. ASSUME NEW c \in Calls, DiskFull(c)  PROVE Held
  <2>1. c.tool \notin Signals
    <3>1. PICK p : p = Parsed(c)  OBVIOUS
    <3>2. p.tool = c.tool  BY <3>1, ParsedFits
    <3>3. QED  BY <1>11, <3>1, <3>2 DEF DiskFull, Cutters, Renderers, Signals
  <2>2. answer'.call = c /\ answer'.how = "run" /\ answer'.got = Bad("FS")  BY <1>1, <1>11 DEF DiskFull
  <2>3. QED  BY <2>1, <2>2 DEF Bad
<1>5. ASSUME NEW c, NEW how, NEW got, c.tool \in Slow, Answered(c, how, got)  PROVE Held
  BY <1>1, <1>5 DEF Slow, Searchers, Signals
<1>6. ASSUME FinishSlow \/ SlowFails  PROVE Held
  <2>1. call.call.tool \in Slow  BY <1>6 DEF FinishSlow, SlowFails, Typing
  <2>2. PICK got : SlowDone(got)  BY <1>6 DEF FinishSlow, SlowFails
  <2>3. QED  BY <1>5, <2>1, <2>2 DEF SlowDone
<1>7. ASSUME PythonCloses \/ SpawnFails \/ KilledCloses  PROVE Held
  <2>1. call.call.tool \in Slow  BY <1>7 DEF Typing, PythonCloses, SpawnFails, KilledCloses
  <2>2. PICK got : PythonDone(got)  BY <1>7 DEF PythonCloses, SpawnFails, KilledCloses
  <2>3. QED  BY <1>5, <2>1, <2>2 DEF PythonDone
<1>8. \A c \in Calls : ~StartSlow(c) /\ ~StartPython(c)  BY DEF StartSlow, StartPython
<1>9. ~TimesOut /\ ~WorkerGoes /\ ~WorkerComes /\ ~OrphanEnds /\ ~UNCHANGED vars
  BY DEF TimesOut, WorkerGoes, WorkerComes, OrphanEnds, vars
<1>10. Held  BY <1>2, <1>3, <1>4, <1>6, <1>7, <1>8, <1>9, <1>11 DEF Next
<1>12. QED  BY <1>10

(* For any calls, scripts, crashes and failing disks: a write that says it  *)
(* is done, or is answered from the ledger with an outcome other than       *)
(* FAILED under the name it writes, is in the file; and a control tool's    *)
(* call that is answered with ok was told.                                 *)
THEOREM NoEffectIsSwallowed == Spec => EffectsHappen
<1> DEFINE WriteIsThere == (answer' # answer /\ answer'.call.tool = "write_work_file"
                /\ \/ answer'.how = "run" /\ answer'.got.ok
                   \/ /\ answer'.how = "replayed" /\ answer'.got.previous.outcome # "FAILED"
                      /\ Target(answer'.call.path) = answer'.call.path)
                 => files'[Target(answer'.call.path)] = answer'.call.value
           Told == (answer' # answer /\ answer'.how # "refused" /\ answer'.call.tool \in Signals
                    /\ answer'.got.ok) => told' = told + 1
<1>1. Typing /\ Entries /\ [Next]_vars => [WriteIsThere /\ Told]_vars
  BY EffectsStep DEF WriteSaysDone, SignalSaysDone
<1>2. Spec => [][WriteIsThere]_vars /\ [][Told]_vars
  BY <1>1, TypingAlways, EntriesAlways, PTL DEF Spec
<1>3. QED  BY <1>2 DEF EffectsHappen, WriteHolds, SignalsArrive
=============================================================================
