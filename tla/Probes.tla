------------------------------- MODULE Probes -------------------------------
(***************************************************************************)
(* The pure functions of the system put to the test: a state asks one      *)
(* question (an input of one of them), a step answers it with the          *)
(* operator that models the code, and the invariants compare the answer    *)
(* with what the function is for. The sets of questions hold all that make *)
(* sense; Inquiries chooses those that are asked. What is computed by      *)
(* recursion is asked for in Algorithms.                                   *)
(***************************************************************************)
EXTENDS Archives, Platforms, Models, Toolbox

VARIABLES ask, answer    \* answer: <<>>, or <<the answer>>

probe == <<ask, answer>>
-----------------------------------------------------------------------------
(* zip.ts, stream-io.ts, safe-name.ts *)
FileKinds == {"extract", "sample", "names"}

FileQuestion ==
  [extract |-> [of : {"extract"}, entries : Seq(ZipEntry), o : ExtractOptions],
   sample |-> [of : {"sample"}, size : Nat, window : Nat \ {0}],
   names |-> [of : {"names"}, names : Seq(DiskName)]]

Handled(q) ==
  CASE q.of = "extract" -> ExtractZipFromFile(q.entries, q.o)
    [] q.of = "sample" -> SampleFileWindows(q.size, q.window)
    [] q.of = "names" -> DiskNames(q.names)

(* Nothing over the budget or outside, and no path left out where it        *)
(* succeeds: only directories and names that come to nothing have no file;  *)
(* of two entries of one path the later one's is there.                     *)
Extracted(q, r) ==
  /\ r.total <= q.o.maxExpandedBytes
  /\ \A f \in r.files : f.size <= q.o.maxSingleFile
  /\ \A f \in r.files : Outside \cap Range(f.path) = {} /\ f.path # <<>>
  /\ r.ok => \A i \in DOMAIN q.entries :
               \/ q.entries[i].isDirectory
               \/ EntryPath(q.entries[i]) = <<>>
               \/ \E f \in r.files : f.path = EntryPath(q.entries[i])

FilesHold(q, r) ==
  CASE q.of = "extract" -> Extracted(q, r)
    [] q.of = "sample" -> (r.partial <=> r.seen # 0..q.size - 1)
    [] q.of = "names" ->
         /\ DOMAIN r = DOMAIN q.names
         /\ \A i, j \in DOMAIN r : i # j => Lower(r[i]) # Lower(r[j])

(* An archive never puts more on disk than the budget allows, whatever its  *)
(* directory says of it, nor outside its directory, and an extraction that  *)
(* succeeds leaves no path out; an inspection calls itself partial exactly *)
(* when it did not see every byte; and two attachments never get one name   *)
(* on a disk that ignores case.                                             *)
FilesAreWhole == (ask.of \in FileKinds /\ answer # <<>>) => FilesHold(ask, answer[1])
-----------------------------------------------------------------------------
(* packages/contest, packages/scheduler *)
PlatformKinds == {"submit", "ctfd", "download", "start", "rank"}

(* What a request hears until it has its answer, or has asked too often.    *)
Replies ==
  {s \in Seq(Reply) : Len(s) >= MaxRounds
                      \/ (s # <<>> /\ s[Len(s)] \notin {"redirect", "limit"})}

(* A response: its foreign bytes and its mark are bytes of its body.        *)
Responses ==
  {q \in [of : {"download"}, platform : {"dasctf", "ctfd"}, from : {"url", "nowhere", "memory"},
          status : Nat, type : {"binary", "text", "odd"}, named : BOOLEAN, business : BOOLEAN,
          broken : BOOLEAN, body : Seq(Nat), foreign : Nat, marked : BOOLEAN,
          length : Nat \cup {Unsaid, Garbled}] :
     q.foreign + MarkBytes(q) <= Arrived(q.body)}

PlatformQuestion ==
  [submit |-> [of : {"submit"}, replies : Replies, json : Envelope],
   ctfd |-> [of : {"ctfd"}, replies : Replies, status : STRING, injected : BOOLEAN],
   download |-> Responses,
   start |-> [of : {"start"}, init : BOOLEAN, check : BOOLEAN, breaks : {"none", "detail", "build"},
              polls : Seq(EnvPoll)],
   rank |-> [of : {"rank"}, c : Candidate, older : Nat]]

(* The same challenge a second time: tried once more, and older.            *)
Twin(q) == [q.c EXCEPT !.attempts = @ + 1, !.age = @ + q.older]

Judged(q) ==
  CASE q.of = "submit" ->
         LET r == Request(q.replies)
         IN  [sent |-> r.sent, result |-> DasctfSubmitFlag(r.got, q.json)]
    [] q.of = "ctfd" ->
         LET r == CtfdRequest(q.replies)
         IN  [sent |-> r.sent, result |-> CtfdSubmitFlag(q.injected, r.got, q.status)]
    [] q.of = "download" -> IF q.platform = "dasctf" THEN DasctfDownload(q) ELSE CtfdDownload(q)
    [] q.of = "start" -> StartChallenge([init |-> q.init, check |-> q.check], q.breaks, q.polls)
    [] q.of = "rank" -> ScoreAndRankQueued(<<Twin(q), q.c>>)

(* A verdict comes from the reply that ended the request, which is an       *)
(* envelope that came with HTTP 200: CORRECT is what it says, and neither   *)
(* that nor "too fast" is ever WRONG; every other code is (OnlyWrongCounts).*)
Believed(q, r) ==
  LET seen == q.replies[r.sent]
      right == seen = "json" /\ q.json.code = "00000" /\ q.json.isCorrect
  IN  /\ r.sent \in 1..MaxRounds
      /\ r.result.status = "CORRECT" <=> right
      /\ r.result.status = "WRONG" => seen = "json" /\ ~right /\ (q.json.code = "00000" \/ "limit" \notin q.json.says)
      /\ r.result.ok <=> r.result.status \in {"CORRECT", "WRONG"}

(* The same of CTFd, whose verdicts are words of their own.                 *)
BelievedOfCtfd(q, r) ==
  LET heard == ~q.injected /\ q.replies[r.sent] = "json"
  IN  /\ r.result.status = "WRONG" => heard /\ q.status \in {"incorrect", "wrong"}
      /\ r.result.status = "CORRECT" => heard /\ q.status \in {"correct", "already_solved"}
      /\ r.result.ok <=> r.result.status \in {"CORRECT", "WRONG"}

(* A download that succeeds is a response with a 2xx whose body arrived to  *)
(* its end, in the length the header said where it is not converted, and    *)
(* has the bytes that were sent where it is text or not converted; DASCTF   *)
(* text without a file name is no business error. What fails can be told    *)
(* apart: the platform's errors are retryable or thrown.                    *)
Downloaded(q, r) ==
  LET converted == q.platform = "dasctf" /\ ShouldProbe(q)
  IN  /\ r.ok => q.from = "memory" \/ (q.status \in Successful /\ ~q.broken)
      /\ r.ok /\ ~(converted /\ (q.foreign # 0 \/ q.marked)) => r.exact /\ r.bytes = Arrived(q.body)
      /\ r.ok /\ ~converted /\ q.from = "url" => q.length \in {Unsaid, Arrived(q.body)}
      /\ r.ok /\ converted => ~q.business
      /\ r.ok => ~r.threw
      /\ q.from = "url" /\ (q.status = 429 \/ q.status >= 500) => ~r.ok /\ r.retryable
      /\ q.from = "url" /\ q.status \in Successful /\ q.broken
         => ~r.ok /\ (r.retryable \/ r.threw \/ q.length = Garbled)

(* An environment is called ready only by the last that was heard of it,    *)
(* and nothing is built that did not ask for it.                            *)
StartedAsTold(q, r) ==
  /\ r.ok => /\ ~r.threw /\ q.breaks # "detail"
             /\ \/ ~q.init /\ ~q.check
                \/ /\ r.polls \in DOMAIN q.polls /\ q.polls[r.polls] = "ready"
                   /\ \A i \in DOMAIN q.polls : i < r.polls => q.polls[i] = "preparing"
                   /\ r.built <=> q.init
  /\ r.built => q.init

PlatformHolds(q, r) ==
  CASE q.of = "submit" -> Believed(q, r)
    [] q.of = "ctfd" -> BelievedOfCtfd(q, r)
    [] q.of = "download" -> Downloaded(q, r)
    [] q.of = "start" -> StartedAsTold(q, r)
    [] q.of = "rank" -> 2 * (q.older \div 10 + 1) < 5 => r = <<q.c, Twin(q)>>

(* What an answer of a platform is taken for: a flag is CORRECT if and only *)
(* if the reply that ended the request says so, and a reply that says "too  *)
(* fast", or is no envelope, never counts as WRONG; a download succeeds     *)
(* only with a 2xx whose body came to its end, in the length that was said  *)
(* and without the business error that DASCTF sends as text; an environment *)
(* is ready only if the last detail says so; and a challenge that failed    *)
(* once more does not come before its equal.                                *)
PlatformsAreBelieved == (ask.of \in PlatformKinds /\ answer # <<>>) => PlatformHolds(ask, answer[1])

(* What dasctf.ts:73-76 documents of WRONG: code 40001, or a message that   *)
(* says so. Refuted: any other code is WRONG too (dasctf.ts:201-209).       *)
OnlyWrongCounts ==
  (ask.of = "submit" /\ answer # <<>> /\ answer[1].result.status = "WRONG")
  => ask.json.code \in {"00000", "40001"} \/ "wrong" \in ask.json.says

(* A download that succeeds has the bytes that were sent. Refuted: what is  *)
(* read as text and is not UTF-8 is stored changed (dasctf.ts:431-436).     *)
DownloadsAreExact == (ask.of = "download" /\ answer # <<>> /\ answer[1].ok) => answer[1].exact

(* What a download counts is in the sink. Refuted where the sink was        *)
(* destroyed meanwhile (stream-body.ts:20).                                 *)
CountedIsWritten ==
  (ask.of = "download" /\ answer # <<>> /\ answer[1].ok) =>
  \A taken \in 0..Len(ask.body) : Arrived(WrittenChunks(ask.body, taken)) = answer[1].bytes

(* What dasctf.ts:79 documents: a submission the platform throttles is      *)
(* RATE_LIMITED, so that it is sent again after the cooldown.               *)
ThrottledIsRetried ==
  (ask.of = "submit" /\ answer # <<>> /\ ask.replies = <<"json">>
   /\ ask.json.code = "40001" /\ ask.json.says = {"limit"})
  => answer[1].result.status = "RATE_LIMITED"
-----------------------------------------------------------------------------
(* the registry of models, the calls of the advisory runtime *)
ModelKinds == {"remove", "close", "vision", "advise"}

UsableIn(reg) == {m \in reg.enabled : ProviderOf[m] \in reg.open}

SlotsUsableIn(reg) == \A s \in Slots : reg.slots[s] \in UsableIn(reg) \cup {None}

(* The slots of a running server name models that can be used: every save   *)
(* drops the others.                                                        *)
Running == {reg \in Registry : SlotsUsableIn(reg)}

Answers == CallFailures \cup {"garbage", "plan"}

ModelQuestion ==
  [remove |-> [of : {"remove"}, reg : Running, m : Models],
   close |-> [of : {"close"}, reg : Running, p : Providers],
   vision |-> [of : {"vision"}, list : SUBSET Models, m : Models \cup {None}],
   advise |-> [of : {"advise"}, m : Models \cup {None}, key : BOOLEAN, first : Answers, second : Answers]]

Roles(reg) == [solver |-> ResolveAssigned(reg, "primarySolver"), vision |-> ResolveAssigned(reg, "vision"),
               manager |-> ResolveAdvisory(reg, "manager")]

Resolved(q) ==
  CASE q.of = "remove" -> [reg |-> WithoutModel(q.reg, q.m), roles |-> Roles(WithoutModel(q.reg, q.m))]
    [] q.of = "close" -> [reg |-> WithoutProvider(q.reg, q.p), roles |-> Roles(WithoutProvider(q.reg, q.p))]
    [] q.of = "vision" -> ResolveVision(q.list, IF q.m = None THEN None ELSE Name[q.m])
    [] q.of = "advise" -> RunStructured(q.m, q.key, q.first, q.second)

RolesHold(r) ==
  /\ SlotsUsableIn(r.reg)
  /\ \A role \in DOMAIN r.roles : r.roles[role] \subseteq UsableIn(r.reg) \cup {None}
  /\ None \in r.roles.solver \cup r.roles.manager => UsableIn(r.reg) = {}
  /\ None \in r.roles.vision => UsableIn(r.reg) \cap Sees = {}

ModelsHold(q, r) ==
  CASE q.of \in {"remove", "close"} -> RolesHold(r)
    [] q.of = "vision" ->
         /\ r.model # None => r.model \in Sees /\ r.model \in q.list
         /\ r.model # None /\ q.m # None /\ (\E o \in q.list : Name[o] = Name[q.m])
            => Name[r.model] = Name[q.m]
         /\ r.told => r.model = None
    [] q.of = "advise" ->
         /\ r.calls <= 2
         /\ r.got = "plan" <=>
              (q.m # None /\ q.key /\ (q.first = "plan" \/ (q.first = "garbage" /\ q.second = "plan")))
         /\ r.got # "garbage"

(* However models and providers come and go, a role is given to a model     *)
(* that can be used, and to none only where there is none; pictures go to a *)
(* model that sees them, and to the one that was named where it is in the   *)
(* list; and an advisory call asks twice at most and passes nothing on it   *)
(* could not read.                                                          *)
ModelsServe == (ask.of \in ModelKinds /\ answer # <<>>) => ModelsHold(ask, answer[1])
-----------------------------------------------------------------------------
(* the tool catalog *)
CatalogKinds == {"tool", "hints", "rsa"}

(* Tools whose card says an argument is required that the schema does not   *)
(* know or does not need: the call the card describes is refused, or is     *)
(* taken without it.                                                        *)
Misdescribed == {"parse_crypto_values", "aes_inspect", "aes_misuse_inspect", "xor_bytes",
                 "frequency_analysis", "xor_known_plaintext"}

CatalogQuestion ==
  [tool |-> [of : {"tool"}, tool : Names, domain : Domains],
   hints |-> [of : {"hints"}, magic : Magics, trailing : BOOLEAN, dense : BOOLEAN],
   rsa |-> [of : {"rsa"}, attacks : SUBSET DOMAIN AttackTool]]

Consulted(q) ==
  CASE q.of = "tool" -> [met |-> q.tool \in Met(q.domain, 0), shown |-> Shown(q.tool),
                         taken |-> Accepts(q.tool, Named(q.tool).needs)]
    [] q.of = "hints" -> HintsForInspection(q.magic, q.trailing, q.dense)
    [] q.of = "rsa" -> HintsForRsaAnalysis(q.attacks)

CatalogHolds(q, r) ==
  CASE q.of = "tool" ->
         /\ r.shown \subseteq Callable
         /\ (q.tool \in CoreTools \/ q.domain = "ANY" \/ q.domain \in Named(q.tool).domains) => r.met
         /\ r.taken = (q.tool \notin Misdescribed)
         /\ q.tool \in CoreTools => PiNeeds(q.tool) = SchemaOf(q.tool).needs
    [] OTHER -> r \subseteq Callable

(* What a tool, its help or a hint sends the solver to can be called; a     *)
(* solver that asks comes to know every tool of its domain although the     *)
(* lists are cut; and a call with the arguments a tool documents is taken.  *)
CatalogIsUsable == (ask.of \in CatalogKinds /\ answer # <<>>) => CatalogHolds(ask, answer[1])
-----------------------------------------------------------------------------
CONSTANT Inquiries    \* for each kind of question, those that are asked

ASSUME InquiriesAssumption ==
  /\ \A kind \in FileKinds : Inquiries[kind] \subseteq FileQuestion[kind]
  /\ \A kind \in PlatformKinds : Inquiries[kind] \subseteq PlatformQuestion[kind]
  /\ \A kind \in ModelKinds : Inquiries[kind] \subseteq ModelQuestion[kind]
  /\ \A kind \in CatalogKinds : Inquiries[kind] \subseteq CatalogQuestion[kind]

Asked(kinds) == \E kind \in kinds : ask \in Inquiries[kind]

ProbeInit ==
  /\ answer = <<>>
  /\ Asked(FileKinds) \/ Asked(PlatformKinds) \/ Asked(ModelKinds) \/ Asked(CatalogKinds)

Answering(kinds, reply) ==
  /\ ask.of \in kinds
  /\ answer = <<>>
  /\ answer' = <<reply>>
  /\ UNCHANGED ask

HandleFile == Answering(FileKinds, Handled(ask))

AskThePlatform == Answering(PlatformKinds, Judged(ask))

ChooseModel == Answering(ModelKinds, Resolved(ask))

ConsultCatalog == Answering(CatalogKinds, Consulted(ask))

ProbeNext == HandleFile \/ AskThePlatform \/ ChooseModel \/ ConsultCatalog

ProbeSpec == ProbeInit /\ [][ProbeNext]_probe
=============================================================================
