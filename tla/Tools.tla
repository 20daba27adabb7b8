-------------------------------- MODULE Tools ---------------------------------
(***************************************************************************)
(* The tool calls of one solver, in its worker process: runTool            *)
(* (packages/tool-runtime/src/tools.ts) with the experiment ledger that    *)
(* answers a call it has seen, the tools by what they do to the workspace, *)
(* execute_tool (catalog/catalog.ts), the Python processes (process.ts)    *)
(* and the ledger file the worker keeps (workers/solver-worker.ts).        *)
(*                                                                         *)
(* The solver makes one call at a time. A tool that does not await is one  *)
(* step; the others start and finish, and what a script of a dead worker   *)
(* still does may come between. A call names a path, a value (its other    *)
(* arguments) and the fields it has.                                       *)
(***************************************************************************)
EXTENDS Toolbox

CONSTANTS
  Paths,      \* the files the calls name
  Contents,   \* what a file may hold
  Calls,      \* the calls the solver makes
  MaxCalls,   \* how many it makes (bound)
  Faults,     \* "crash", "torn", "hang", "nospawn", "full"
  MaxFaults   \* bound on their number

ASSUME ToolsAssumption ==
  /\ Contents \subseteq STRING \ {"gone", "path:"}
  /\ "" \notin Paths /\ {"work/s", "s", "work/a", "input/a"} \subseteq Paths
  /\ Calls \subseteq [tool : STRING, via : {"direct", "router"}, path : Paths \cup {""},
                      value : STRING, fields : SUBSET STRING]
  /\ \A c \in Calls : /\ "path" \in c.fields <=> c.path # ""
                      /\ c.via = "direct" => c.tool \in CoreTools
                      /\ c.tool = "write_work_file" => c.value \in Contents
  /\ MaxCalls \in Nat /\ MaxFaults \in Nat
  /\ Faults \subseteq {"crash", "torn", "hang", "nospawn", "full"}

VARIABLES
  files,    \* path -> what it holds, or "gone"
  made,     \* the output a tool writes under a name of its own -> whence it comes
  ledger,   \* state/experiments.json: a set of [key, was, steady]: of what the run
            \* answered the file keeps Previous; the rest, and whether nobody wrote
            \* a file while it ran, is history
  call,     \* the call under way
  answer,   \* the last answer the solver got
  told,     \* the messages of the control tools so far
  results,  \* results/tool-<n>.txt -> what it holds
  counter,  \* resultFileCounter of the worker
  cited,    \* the result files the conversation has been told of
  child,    \* the Python process of the call: none, runs, hangs, killed
  orphan,   \* does a script of a worker that is gone still run?
  up, life, \* is there a worker, and which one is it?
  calls, faults

fileVars == <<files, made>>
vars == <<fileVars, ledger, call, answer, told, results, counter, cited, child, orphan, up, life, calls, faults>>

NoCall == [at |-> "none"]
NoAnswer == [how |-> "none"]

Good(text) == [ok |-> TRUE, text |-> text]
Bad(text) == [ok |-> FALSE, text |-> text]

Init ==
  /\ files \in [Paths -> Contents \cup {"gone"}] /\ files["s"] = "gone" /\ files["work/a"] = "gone"
  /\ made = << >>
  /\ ledger = {}
  /\ call = NoCall /\ answer = NoAnswer
  /\ told = 0
  /\ results = << >> /\ counter = 0 /\ cited = {}
  /\ child = "none" /\ orphan = FALSE
  /\ up = TRUE /\ life = 0
  /\ calls = 0 /\ faults = 0

Fault(kind) == kind \in Faults /\ faults < MaxFaults /\ faults' = faults + 1
-----------------------------------------------------------------------------
(* The tools, by what they do.                                             *)

(* readChallengeFile, inspectFileTool: they look whether the file is there. *)
Lookers == {"read_challenge_file", "inspect_file"}

(* searchToolOutput, readToolOutputChunk: the same, through streams.        *)
Searchers == {"search_tool_output", "read_tool_output_chunk"}

(* The scans of semantic-tools.ts: readFileSync throws, and nothing catches *)
(* it before Pi does.                                                      *)
Scanners == {"scan_trailing_data", "scan_embedded_signatures", "extract_strings_summary",
             "analyze_pcap_overview", "extract_http_objects", "extract_dns_activity",
             "inspect_metadata", "follow_tcp_stream", "parse_crypto_values", "analyze_rsa_instance",
             "aes_inspect", "aes_misuse_inspect", "frequency_analysis"}

(* carve_files, render_transform, extract_bitplane: as the scans, and they  *)
(* write a file whose name does not depend on the file they read.           *)
Cutters == {"carve_files", "render_transform", "extract_bitplane"}

(* extractArchive, renderSpectrogramTool, extractKeyframesTool: they write  *)
(* such a file too, and catch what is thrown.                              *)
Renderers == {"extract_archive", "render_spectrogram", "extract_keyframes", "analyze_visual"}

(* rsaAttackTool: what it gives depends on its arguments alone.             *)
Calculators ==
  {t.name : t \in {x \in Catalog : x.domains = Crypto /\ "path" \notin x.needs \cup x.offers}}

(* The tools that only emit a message; LEDGER_SKIP_TOOLS holds them all.    *)
Signals == {"report_progress", "submit_flag_candidate", "request_handoff", "request_reflection",
            "request_visual_review", "request_specialist", "record_hypothesis", "update_crypto_state"}

LEDGER_SKIP_TOOLS == Signals \cup {"list_workspace", "discover_tools", "get_tool_help", "execute_tool"}

Slow == Searchers \cup {"extract_archive", "analyze_visual", "run_python"}

(* normalizeWorkPath: a bare name goes under work/, and so does an input. *)
Target(path) ==
  CASE path = "s" -> "work/s"
    [] path = "input/a" -> "work/a"
    [] OTHER -> path

Present(path) == path \in Paths /\ files[path] # "gone"

(* readTarget: a text that is given goes before the path. *)
ReadsFile(c) == c.path # "" /\ "text" \notin c.fields

(* run_python with neither: safeResolve of undefined throws. *)
NoScript(c) == c.tool = "run_python" /\ c.fields \cap {"code", "scriptPath"} = {}

(* What a call gives when it runs now and nothing goes wrong. *)
Outcome(c) ==
  IF ~Accepts(c.tool, c.fields) THEN Bad("VALIDATION") ELSE
  CASE c.tool \in Lookers \cup Searchers \cup Renderers ->
         IF Present(c.path) THEN Good(files[c.path]) ELSE Bad("NOT_FOUND")
    [] c.tool = "list_workspace" ->
         IF c.path = "" \/ Present(c.path) THEN Good(c.value) ELSE Bad("NOT_FOUND")
    [] c.tool \in Scanners \cup Cutters -> Good(IF ReadsFile(c) THEN files[c.path] ELSE c.value)
    [] c.tool = "run_python" ->
         IF NoScript(c) THEN Bad("FS")
         ELSE IF "code" \in c.fields THEN Good(c.value)
         ELSE IF Present("work/s") THEN Good(files["work/s"]) ELSE Bad("EXIT")
    [] c.tool = "extract_visible_text" -> Bad("BACKEND_UNAVAILABLE")
    [] c.tool \in Calculators \cup Signals \cup {"write_work_file"} -> Good(c.value)

(* readFileSync of a file that is not there throws, and the tool with it:   *)
(* its answer goes to the solver, the ledger is not told.                  *)
Throws(c) == /\ Accepts(c.tool, c.fields) /\ c.tool \in Scanners \cup Cutters \cup {"request_specialist"}
             /\ ReadsFile(c) /\ ~Present(c.path)

(* Does it answer without waiting for a stream or a process? *)
Quick(c) == \/ c.tool \notin Slow \/ ~Accepts(c.tool, c.fields) \/ NoScript(c)
            \/ c.tool # "run_python" /\ ~Present(c.path)

(* What the tool leaves in the workspace. *)
Writes(c) ==
  IF c.tool = "write_work_file" /\ Outcome(c).ok
  THEN files' = [files EXCEPT ![Target(c.path)] = c.value] ELSE UNCHANGED files

Leaves(c, got) ==
  IF c.tool \in Cutters \cup Renderers /\ got.ok
  THEN made' = (<<c.tool, c.value>> :> got.text) @@ made ELSE UNCHANGED made

Emits(c) ==
  told' = IF c.tool \in Signals /\ Accepts(c.tool, c.fields) /\ ~Throws(c) THEN told + 1 ELSE told
-----------------------------------------------------------------------------
(* The ledger.                                                             *)

(* Mutant of FingerprintIn: only what was downloaded is hashed. *)
FingerprintOfInput(fs, path) ==
  IF path = "input/a" /\ fs[path] # "gone" THEN fs[path] ELSE "none"

(* fingerprintArtifact, of the workspace fs. *)
FingerprintIn(fs, path) ==
  CASE path = "" -> "none"
    [] path \in Paths /\ fs[path] # "gone" -> fs[path]
    [] OTHER -> "path:"

(* Mutant of Key: the ledger goes by the name of the file. *)
KeyOfName(fs, c) == [sha |-> "none", tool |-> c.tool, path |-> c.path, value |-> c.value,
                     fields |-> c.fields \ {"force"}]

(* experimentKey: the arguments without force; the path is one of them. *)
Key(fs, c) == [sha |-> FingerprintIn(fs, c.path), tool |-> c.tool, path |-> c.path, value |-> c.value,
               fields |-> c.fields \ {"force"}]

Known(c) == {e \in ledger : e.key = Key(files, c)}

(* Does runTool look into the ledger? *)
Looks(c) == c.tool \notin LEDGER_SKIP_TOOLS /\ "force" \notin c.fields

(* map.set, and the whole map is written out. *)
Recorded(fs, c, got, steady) ==
  ledger' = IF c.tool \in LEDGER_SKIP_TOOLS THEN ledger
            ELSE {e \in ledger : e.key # Key(fs, c)}
                   \cup {[key |-> Key(fs, c), was |-> got, steady |-> steady]}

(* What the file keeps of an answer: its summary, which for two tools does  *)
(* not depend on the file, and whether it failed. NO_SIGNAL is not told     *)
(* from NEW_EVIDENCE.                                                      *)
Previous(tool, got) ==
  [summary |-> IF tool \in {"read_challenge_file", "inspect_file"} /\ got.ok THEN "done" ELSE got.text,
   outcome |-> IF got.ok THEN "NEW_EVIDENCE" ELSE "FAILED"]

Answered(c, how, got) == answer' = [how |-> how, call |-> c, got |-> got, n |-> calls']
-----------------------------------------------------------------------------
(* A call.                                                                 *)

(* What reaches runTool: through execute_tool, only the fields the schema   *)
(* of the tool has.                                                        *)
Parsed(c) ==
  IF c.via = "direct" THEN c
  ELSE LET kept == c.fields \cap (SchemaOf(c.tool).needs \cup SchemaOf(c.tool).takes)
       IN [c EXCEPT !.fields = kept, !.path = IF "path" \in kept THEN @ ELSE ""]

Asks(c) == up /\ call = NoCall /\ calls < MaxCalls /\ calls' = calls + 1

(* executeToolTool: a core tool, or arguments its schema does not take. *)
Refused(c) == c.via = "router" /\ ~Executable(c.tool, c.fields)

Refuse(c) ==
  /\ Asks(c) /\ Refused(c)
  /\ Answered(c, "refused", Bad("REFUSED"))
  /\ UNCHANGED <<fileVars, ledger, call, told, results, counter, cited, child, orphan, up, life, faults>>

(* ALREADY_TESTED: ok whatever was recorded, with the summary and the       *)
(* outcome of the run that was. The entry, and what a run would give, are   *)
(* history.                                                                *)
Replay(c) ==
  LET p == Parsed(c) IN
  /\ Asks(c) /\ ~Refused(c) /\ Looks(p) /\ Known(p) # {}
  /\ \E e \in Known(p) :
       answer' = [how |-> "replayed", call |-> c, n |-> calls',
                  got |-> [ok |-> TRUE, text |-> "ALREADY_TESTED", previous |-> Previous(p.tool, e.was)],
                  entry |-> e, now |-> Outcome(p)]
  /\ UNCHANGED <<fileVars, ledger, call, told, results, counter, cited, child, orphan, up, life, faults>>

Runs(c) == Asks(c) /\ ~Refused(c) /\ ~(Looks(Parsed(c)) /\ Known(Parsed(c)) # {})

(* Mutant of NextResult: the counter is read, and not advanced. *)
NextResultOfAll == counter' = counter

(* nextResultFile *)
NextResult == counter' = counter + 1

(* A call that does not wait. *)
RunQuick(c) ==
  LET p == Parsed(c)
      got == IF Throws(p) THEN Bad("THROWN") ELSE Outcome(p) IN
  /\ Runs(c) /\ Quick(p)
  /\ Writes(p) /\ Leaves(p, got) /\ Emits(p)
  /\ IF Throws(p) THEN UNCHANGED ledger ELSE Recorded(files', p, got, TRUE)
  /\ IF NoScript(p) /\ Accepts(p.tool, p.fields) THEN NextResult ELSE UNCHANGED counter
  /\ Answered(c, "run", got)
  /\ UNCHANGED <<call, results, cited, child, orphan, up, life, faults>>

(* The same, and the file cannot be written: a work file may be torn. What  *)
(* the tool catches is recorded, what Pi catches is not.                   *)
DiskFull(c) ==
  LET p == Parsed(c) IN
  /\ Runs(c) /\ Quick(p) /\ Outcome(p).ok /\ ~Throws(p)
  /\ p.tool \in {"write_work_file"} \cup Cutters \cup Renderers
  /\ Fault("full")
  /\ \/ UNCHANGED files
     \/ p.tool = "write_work_file" /\ \E v \in Contents : files' = [files EXCEPT ![Target(p.path)] = v]
  /\ IF p.tool \in Cutters THEN UNCHANGED ledger ELSE Recorded(files', p, Bad("FS"), TRUE)
  /\ Answered(c, "run", Bad("FS"))
  /\ UNCHANGED <<made, call, told, results, counter, cited, child, orphan, up, life>>

(* The others but run_python look whether the file is there, and wait. *)
StartSlow(c) ==
  LET p == Parsed(c) IN
  /\ Runs(c) /\ ~Quick(p) /\ c.tool # "run_python"
  /\ call' = [at |-> "waits", call |-> c, got |-> Outcome(p), n |-> 0, steady |-> TRUE]
  /\ UNCHANGED <<fileVars, ledger, answer, told, results, counter, cited, child, orphan, up, life, faults>>

SlowDone(got) ==
  LET p == Parsed(call.call) IN
  /\ up /\ call.call.tool # "run_python"
  /\ UNCHANGED calls
  /\ Leaves(p, got) /\ Recorded(files, p, got, call.steady)
  /\ Answered(call.call, "run", got)
  /\ call' = NoCall
  /\ UNCHANGED <<files, told, results, counter, cited, child, orphan, up, life>>

(* What was read is what the file held at the start or what it holds now;   *)
(* the fingerprint is taken now.                                           *)
FinishSlow ==
  /\ call.at = "waits"
  /\ \E got \in {call.got, Outcome(Parsed(call.call))} : SlowDone(got)
  /\ UNCHANGED faults

(* extractArchive, analyzeVisualTool: the catch. *)
SlowFails ==
  /\ call.at = "waits" /\ call.call.tool \in Renderers
  /\ Fault("full") /\ SlowDone(Bad("FS"))
-----------------------------------------------------------------------------
(* run_python: runPython, ProcessRunner.run, processResult.                *)

(* The process is spawned; its output goes to the next result file. When    *)
(* the spawn throws, the call resolves at once.                            *)
StartPython(c) ==
  /\ Runs(c) /\ ~Quick(Parsed(c)) /\ c.tool = "run_python"
  /\ NextResult
  /\ call' = [at |-> "waits", call |-> c, got |-> Outcome(c), n |-> counter + 1, steady |-> TRUE]
  /\ \/ child' = "runs" /\ UNCHANGED faults
     \/ Fault("hang") /\ child' = "hangs"
     \/ Fault("nospawn") /\ child' = "error"
  /\ UNCHANGED <<fileVars, ledger, answer, told, results, cited, orphan, up, life>>

Written(n, text) ==
  results' = [m \in DOMAIN results \cup {n} |-> IF m = n THEN text ELSE results[m]]

PythonDone(got) ==
  /\ UNCHANGED calls /\ call' = NoCall /\ child' = "none"
  /\ Recorded(files', call.call, got, TRUE)
  /\ Answered(call.call, "run", got)
  /\ Written(call.n, got.text)
  /\ cited' = cited \cup {[n |-> call.n, text |-> got.text, life |-> life]}
  /\ UNCHANGED <<made, told, counter, orphan, up, life>>

(* The process closes by itself; it may have written a file, and failed. *)
PythonCloses ==
  /\ up /\ child = "runs"
  /\ \/ UNCHANGED files
     \/ \E v \in Contents : files' = [files EXCEPT !["work/s"] = v]
  /\ \E got \in {call.got, Bad("EXIT")} : PythonDone(got)
  /\ UNCHANGED faults

(* "error": the executable is not there. *)
SpawnFails ==
  /\ up /\ child = "error"
  /\ UNCHANGED files /\ PythonDone(Bad("EXIT"))
  /\ UNCHANGED faults

(* Mutant of KillTimer: the timer marks the call, and kills nothing. *)
TimerOnly == up /\ child = "hangs" /\ child' = "hangs"

(* setTimeout, killProcessTree: the group of the child. *)
KillTimer == up /\ child = "hangs" /\ child' = "killed"

TimesOut ==
  /\ KillTimer
  /\ UNCHANGED <<fileVars, ledger, call, answer, told, results, counter, cited, orphan, up, life, calls, faults>>

(* "close" after the kill: ok is false whatever the code. *)
KilledCloses ==
  /\ up /\ child = "killed"
  /\ UNCHANGED files /\ PythonDone(Bad("EXIT"))
  /\ UNCHANGED faults
-----------------------------------------------------------------------------
(* The worker goes: an abort exits it, or it crashes. The child has a group *)
(* of its own and stays, without its timer. The file of the ledger is       *)
(* written in place: a crash may tear it, and a torn file reads as none.    *)

WorkerGoes ==
  /\ up /\ up' = FALSE
  /\ \/ Fault("crash") /\ UNCHANGED ledger
     \/ Fault("torn") /\ ledger' = {}
  /\ call' = NoCall
  /\ orphan' = (orphan \/ child \in {"runs", "hangs"}) /\ child' = "none"
  /\ UNCHANGED <<fileVars, answer, told, results, counter, cited, life, calls>>

(* buildToolContext: the ledger is read, the counter starts at 0. The       *)
(* conversation goes on.                                                   *)
WorkerComes ==
  /\ ~up /\ up' = TRUE
  /\ life' = life + 1 /\ counter' = 0
  /\ UNCHANGED <<fileVars, ledger, call, answer, told, results, cited, child, orphan, calls, faults>>

(* A script nobody waits for writes a last time and ends. *)
OrphanEnds ==
  /\ orphan /\ orphan' = FALSE
  /\ \E v \in Contents : files' = [files EXCEPT !["work/s"] = v]
  /\ call' = IF call.at = "waits" THEN [call EXCEPT !.steady = FALSE] ELSE call
  /\ UNCHANGED <<made, ledger, answer, told, results, counter, cited, child, up, life, calls, faults>>
-----------------------------------------------------------------------------
Next ==
  \/ \E c \in Calls : \/ Refuse(c) \/ Replay(c) \/ RunQuick(c) \/ DiskFull(c)
                     \/ StartSlow(c) \/ StartPython(c)
  \/ FinishSlow \/ SlowFails \/ PythonCloses \/ SpawnFails \/ TimesOut \/ KilledCloses
  \/ WorkerGoes \/ WorkerComes \/ OrphanEnds

Spec == Init /\ [][Next]_vars

(* The streams end, a process ends or hangs, the timer fires, a killed      *)
(* process closes.                                                         *)
FairSpec ==
  /\ Spec
  /\ WF_vars(FinishSlow) /\ WF_vars(PythonCloses) /\ WF_vars(SpawnFails)
  /\ WF_vars(TimesOut) /\ WF_vars(KilledCloses)
-----------------------------------------------------------------------------
(* The state has the shape its comments give. *)
TypeOK ==
  /\ files \in [Paths -> Contents \cup {"gone"}]
  /\ \A e \in ledger : e.key.tool \in Names \ LEDGER_SKIP_TOOLS /\ e.was.ok \in BOOLEAN
  /\ call.at \in {"none", "waits"}
  /\ answer.how \in {"none", "run", "replayed", "refused"}
  /\ told \in 0..MaxCalls /\ counter \in 0..MaxCalls
  /\ child \in {"none", "runs", "hangs", "error", "killed"}
  /\ child # "none" => call.at = "waits"
  /\ orphan \in BOOLEAN /\ up \in BOOLEAN

(* The tools whose answer depends on their arguments and on the file their  *)
(* path names: all that read one but analyze_visual, which asks a model.    *)
PathReaders == Lookers \cup Searchers \cup Scanners \cup Cutters \cup (Renderers \ {"analyze_visual"})

(* Nobody wrote a file while the run of this entry waited, and a tool that  *)
(* writes one too did not fail.                                            *)
Settled(e) == e.steady /\ (e.key.tool \in Renderers => e.was.ok)

(* runTool: when the ledger answers for a tool that reads the file named by *)
(* its path, the run it points at answered just what a run would answer     *)
(* now, and the summary and outcome it repeats are those of a run now,      *)
(* though the solver, its scripts and those of dead workers have changed    *)
(* files since; but for a run during which a script of a dead worker wrote, *)
(* and for a failed run of a tool that writes a file.                       *)
ReplaysAreCurrent ==
  (answer.how = "replayed" /\ answer.call.tool \in PathReaders /\ Settled(answer.entry)) =>
    /\ answer.entry.was = answer.now
    /\ answer.got.previous = Previous(answer.call.tool, answer.now)

(* runTool: when a write answers that it is done, or the ledger answers     *)
(* with an outcome that is not FAILED, the file holds what was to be        *)
(* written. By the ledger: where the call names the file it writes; a write *)
(* under a bare name is fingerprinted elsewhere. That the ledger says ok    *)
(* shows nothing: see AnsweredWritesHold.                                  *)
WriteHolds ==
  [][(answer' # answer /\ answer'.call.tool = "write_work_file"
      /\ \/ answer'.how = "run" /\ answer'.got.ok
         \/ /\ answer'.how = "replayed" /\ answer'.got.previous.outcome # "FAILED"
            /\ Target(answer'.call.path) = answer'.call.path)
       => files'[Target(answer'.call.path)] = answer'.call.value]_vars

(* LEDGER_SKIP_TOOLS: every call of a control tool reaches the control      *)
(* plane, the second candidate or report that is like the first too.        *)
SignalsArrive ==
  [][(answer' # answer /\ answer'.how # "refused" /\ answer'.call.tool \in Signals /\ answer'.got.ok)
       => told' = told + 1]_vars

(* catalog/misc.ts:18: a call with force runs, where the documentation of   *)
(* the tool offers force.                                                  *)
ForceRuns ==
  (answer.how = "replayed" /\ "force" \in Named(answer.call.tool).offers)
    => "force" \notin answer.call.fields

(* tools.ts:3: a result file the conversation was told of holds what it was *)
(* told, as long as the worker lives that wrote it.                         *)
CitedHold == \A c \in cited : c.life = life => results[c.n] = c.text

(* ProcessRunner: a call is answered, or its worker is gone, though scripts *)
(* hang and executables are missing.                                       *)
CallsReturn == call.at = "waits" ~> call.at = "none"
-----------------------------------------------------------------------------
(* Not so in the code (README, section 6).                                 *)

(* core.ts:121, "Then run_python with scriptPath=work/solve.py": what       *)
(* run_python answers is what the script does.                              *)
ScriptIsRun ==
  (answer.how = "replayed" /\ answer.call.tool = "run_python") =>
    answer.got.previous.summary \in {answer.now.text, "EXIT"}

(* A write that is answered with ok is in the file. *)
AnsweredWritesHold ==
  [][(answer' # answer /\ answer'.call.tool = "write_work_file" /\ answer'.got.ok
      /\ Target(answer'.call.path) = answer'.call.path)
       => files'[answer'.call.path] = answer'.call.value]_vars

(* What the ledger says of a tool that streams is what it would find now. *)
StreamsAreCurrent ==
  (answer.how = "replayed" /\ answer.call.tool \in Searchers) => answer.entry.was = answer.now

(* The output of a rendering that is "already tested" is there. *)
OutputsAreThere ==
  (answer.how = "replayed" /\ answer.call.tool \in Cutters \cup Renderers /\ answer.entry.was.ok) =>
    made[<<answer.call.tool, answer.call.value>>] = answer.entry.was.text
-----------------------------------------------------------------------------
(* A call with force runs, and what the conversation cites stays as it was  *)
(* told.                                                                    *)
ToolsInv == TypeOK /\ ForceRuns /\ CitedHold

(* A write that answers that it is done, or is answered from the ledger     *)
(* with an outcome other than FAILED under the name it writes, is in the    *)
(* file; and every call of a control tool that is answered with ok is told. *)
EffectsHappen == WriteHolds /\ SignalsArrive
=============================================================================
