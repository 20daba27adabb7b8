-------------------------------- MODULE Agent ---------------------------------
(***************************************************************************)
(* The solver of one challenge, from its start to its end: the session row *)
(* and the model the control plane picks (#startSolver), the worker        *)
(* process (apps/server/src/workers/solver-worker.ts) with the Pi or the   *)
(* mock session in it (packages/agent-runtime), the messages both ways,    *)
(* and the pictures it asks a vision model about                           *)
(* (packages/visual-runtime/src/model).                                    *)
(*                                                                         *)
(* Messages of one direction arrive in order. That the process has gone    *)
(* and what it sent before are heard in any order. The Pi SDK is not part  *)
(* of the repository: a session of it keeps a file of the conversation     *)
(* from the start, prompt() returns when the model is done, and throws     *)
(* when another prompt runs; abort() returns.                              *)
(*                                                                         *)
(* Left to Workers: what the human and the judge do while a worker is      *)
(* being started, and the handoff to a solver of the other kind.           *)
(***************************************************************************)
EXTENDS Models, FiniteSets, LifecycleTable

CONSTANTS
  Env,         \* RIO_AGENT_RUNTIME: "pi", "mock" or "unset"
  AllowMock,   \* what config agent.allowMockFallback may be
  Questions,   \* what a solver may ask about a picture
  MaxVision,   \* config visual.maxVisionCallsPerChallenge
  Operator,    \* what the human does; "flag": a flag is found
  Faults,      \* "crash": the worker dies, "slow": 60 s without "ready",
               \* "http": a call of a model fails
  MaxRows, MaxOrders, MaxEdits, MaxFaults, MaxLooks   \* bounds

ASSUME AgentAssumption ==
  /\ Env \in {"pi", "mock", "unset"}
  /\ AllowMock \subseteq BOOLEAN
  /\ MaxVision \in Nat
  /\ Operator \subseteq {"pause", "restart", "switch", "hint", "edit", "flag"}
  /\ Faults \subseteq {"crash", "slow", "http"}
  /\ {MaxRows, MaxOrders, MaxEdits, MaxFaults, MaxLooks} \subseteq Nat

VARIABLES
  fallback, \* config agent.allowMockFallback
  reg,      \* the registry and the slots
  leaving,  \* the providers whose secret is deleted and that are still enabled
  life,     \* challenges.lifecycle_status
  stopped,  \* intentionallyStopped
  rows,     \* the session rows of the challenge, oldest first
  proc,     \* its worker
  down,     \* messages to the worker
  up,       \* messages to the control plane
  story,    \* the conversation files, in the order of their creation
  vision,   \* budget and cache of the pictures
  anew,     \* why the row of the session is ACTIVE and nobody works on it
  count     \* what the bounds are about

vars == <<fallback, reg, leaving, life, stopped, rows, proc, down, up, story, vision, anew, count>>

NoProcess ==
  [at |-> "none", row |-> 0, list |-> {}, asked |-> None, pref |-> "pi", resume |-> FALSE,
   file |-> 0, runtime |-> "none", model |-> None, missed |-> FALSE, used |-> 0, looks |-> {}]

(* at: forked; choosing, from "ready" to the session; first, during the     *)
(* first prompt, when Pi has given no handle yet; loop, the same of a mock  *)
(* session, which has one; busy and idle, with a handle; ending, while the  *)
(* session is aborted; gone, when nobody has heard of it. missed: a model   *)
(* switch it did not carry out, or that its row forgot.                     *)
Stages == {"none", "forked", "choosing", "first", "loop", "busy", "idle", "ending", "gone"}

Process ==
  [at : Stages, row : 0..MaxRows, list : SUBSET Models, asked : Range(Name) \cup {None},
   pref : {"pi", "mock"}, resume : BOOLEAN, file : Nat, runtime : {"none", "pi", "mock"},
   model : Models \cup {None}, missed : BOOLEAN, used : Nat, looks : SUBSET Questions]

(* restart: the human wants another conversation. failed: a start did. unheeded:    *)
(* onWorkerExit only logged the end of the worker.                          *)
Causes == {"none", "restart", "failed", "unheeded"}

Row == [status : {"ACTIVE", "PAUSED", "INTERRUPTED", "ENDED"}, file : Nat, kind : {"none", "pi", "mock"},
        model : Models \cup {None}]

Alive == proc.at \notin {"none", "gone"}

HasHandle == proc.at \in {"loop", "busy", "idle"}

Latest == Len(rows)

(* Bounds: no model, the first or all are enabled, and at most the key of   *)
(* the first is missing. What config says of the mock matters only where    *)
(* the models may be gone.                                                  *)
Init ==
  /\ fallback \in AllowMock
  /\ \E on \in {{}, Models \cap {Head(Order)}, Models},
        keys \in {Providers, Providers \ {ProviderOf[m] : m \in Models \cap {Head(Order)}}} :
     \E m \in on \cup {None} :
       /\ on = {} => keys = Providers
       /\ on = Models => (fallback \/ TRUE \notin AllowMock)
       /\ reg = [enabled |-> on, open |-> Providers, keys |-> keys, chief |-> on \cap {Head(Order)},
                 slots |-> [s \in Slots |-> IF s = "primarySolver" THEN m ELSE None],
                 fails |-> [p \in Providers |-> 0]]
  /\ leaving = {}
  /\ life = "QUEUED"
  /\ stopped = FALSE
  /\ rows = <<>>
  /\ proc = NoProcess
  /\ down = <<>> /\ up = <<>>
  /\ story = <<>>
  /\ vision = [saved |-> 0, calls |-> 0, cached |-> {}]
  /\ anew = "none"
  /\ count = [orders |-> 0, edits |-> 0, faults |-> 0, looks |-> 0, flags |-> 0, judged |-> 0, verdicts |-> 0]

Counts(what, max) == count[what] < max /\ count' = [count EXCEPT ![what] = @ + 1]

Fault(kind) == kind \in Faults /\ Counts("faults", MaxFaults)
-----------------------------------------------------------------------------
(* The control plane starts a solver.                                      *)

(* Mutant of Resumable: the file of a mock session counts as well. *)
ResumableAny(r) == r.status \in {"INTERRUPTED", "PAUSED"} /\ r.file # 0

(* isResumableSession. *)
Resumable(r) == r.status \in {"INTERRUPTED", "PAUSED"} /\ r.file # 0 /\ r.kind = "pi"

ActiveRows == {i \in 1..Len(rows) : rows[i].status = "ACTIVE"}

(* #startSolver up to startWorker: the session, the model, the runtime. The *)
(* row is told of the model when the worker is ready. What an earlier       *)
(* worker sent has been heard by the next tick of the scheduler.            *)
Launch(i, resume, m, session) ==
  LET pref == AgentRuntime(reg, Env, fallback) IN
  /\ pref # "unavailable"
  /\ life' = Target(life, "SCHEDULE")
  /\ rows' = session
  /\ proc' = [NoProcess EXCEPT
       !.at = "forked", !.row = i, !.list = PiProviders(reg), !.pref = pref, !.resume = resume,
       !.asked = IF m = None THEN None ELSE Name[m], !.model = m,
       !.file = IF resume THEN session[i].file ELSE 0]
  /\ down' = <<>>
  /\ anew' = "none"
  /\ UNCHANGED <<fallback, reg, leaving, stopped, up, story, vision, count>>

(* #agentRuntime throws: the registry was edited after the tick had looked. *)
(* The session has been written, the challenge goes back to the queue.      *)
LaunchThrows(session) ==
  /\ AgentRuntime(reg, Env, fallback) = "unavailable" /\ count.edits > count.flags
  /\ life' = Target(Target(life, "SCHEDULE"), "SOLVER_ERROR")
  /\ rows' = session
  /\ anew' = "failed"
  /\ UNCHANGED <<fallback, reg, leaving, stopped, proc, down, up, story, vision, count>>

Start(i, resume, m, session) == Launch(i, resume, m, session) \/ LaunchThrows(session)

StartSolver ==
  /\ life = "QUEUED" /\ proc.at = "none" /\ up = <<>>
  /\ \E m \in ResolveAssigned(reg, "primarySolver") :
       IF Latest > 0 /\ Resumable(rows[Latest])
       THEN Start(Latest, TRUE, m, [rows EXCEPT ![Latest].status = "ACTIVE"])
       ELSE IF ActiveRows # {}
       THEN \E i \in ActiveRows : Start(i, FALSE, m, rows)
       ELSE /\ Latest < MaxRows
            /\ Start(Latest + 1, FALSE, m,
                 Append(rows, [status |-> "ACTIVE", file |-> 0, kind |-> "none", model |-> None]))

(* startWorker times out: the process is killed, SOLVER_ERROR.              *)
StartTimeout ==
  /\ proc.at = "forked" /\ Fault("slow")
  /\ proc' = NoProcess
  /\ down' = <<>>
  /\ life' = Target(life, "SOLVER_ERROR")
  /\ anew' = "failed"
  /\ UNCHANGED <<fallback, reg, leaving, stopped, rows, up, story, vision>>
-----------------------------------------------------------------------------
(* The worker.                                                             *)

Sends(msgs) == up' = up \o msgs

Msg(type) == <<[type |-> type, row |-> proc.row, file |-> proc.file, kind |-> proc.runtime]>>

(* "start" arrives, "ready" goes out at once, and #startSolver writes the   *)
(* model to the row, over a switch of the human that came in between.       *)
Begin ==
  /\ proc.at = "forked"
  /\ proc' = [proc EXCEPT !.at = "choosing", !.model = None, !.used = vision.saved,
                          !.missed = \E i \in 1..Len(down) : down[i].type = "switch_model"]
  /\ rows' = [rows EXCEPT ![proc.row].model = proc.model]
  /\ UNCHANGED <<fallback, reg, leaving, life, stopped, down, up, story, vision, count, anew>>

(* selectRuntime: a configured provider wins over the runtime asked for.    *)
Runtime == IF proc.list # {} THEN "pi" ELSE proc.pref

(* The providers whose secret the worker can read, and the model it takes.  *)
Readable == WithKeys(proc.list, reg)

Chosen == SelectPi(Readable, proc.asked)

(* What the first prompt adds to its conversation: #kickoff or              *)
(* #resumeMessage.                                                          *)
FirstWords == IF proc.resume THEN "resume" ELSE "kickoff"

(* PiAgentRuntimeAdapter.#create up to its first prompt: a resumed session  *)
(* opens its file, another one has a new file. The mock session has its     *)
(* handle at once, and a file of its own that nobody reads.                 *)
OpenSession ==
  /\ proc.at = "choosing" /\ (Runtime = "pi" => Chosen # None)
  /\ LET pi   == Runtime = "pi"
         keep == proc.resume /\ pi
         n    == IF keep THEN proc.file ELSE Len(story) + 1
     IN /\ proc' = [proc EXCEPT !.at = IF pi THEN "first" ELSE "loop", !.runtime = Runtime,
                                !.list = Readable, !.model = IF pi THEN Chosen ELSE None, !.file = n]
        /\ story' = IF keep THEN [story EXCEPT ![n].said = @ \cup {FirstWords}]
                    ELSE Append(story, [row |-> proc.row, said |-> IF pi THEN {FirstWords} ELSE {}])
        /\ IF pi THEN UNCHANGED up
           ELSE up' = Append(up, [type |-> "session_persisted", row |-> proc.row, file |-> n, kind |-> "mock"])
  /\ UNCHANGED <<fallback, reg, leaving, life, stopped, rows, down, vision, anew, count>>

(* "error" and exit(1): no runtime, no key, no such model. The message may  *)
(* be lost with the process.                                                *)
OpenFails ==
  /\ proc.at = "choosing" /\ Runtime = "pi" /\ Chosen = None
  /\ \E lost \in BOOLEAN : IF lost THEN UNCHANGED up ELSE Sends(Msg("error"))
  /\ proc' = [proc EXCEPT !.at = "gone"]
  /\ UNCHANGED <<fallback, reg, leaving, life, stopped, rows, down, story, vision, count, anew>>

(* Mutant of FirstDone: the row is not told of the file. *)
FirstDoneUnsaid ==
  /\ proc.at = "first" /\ proc.looks = {}
  /\ proc' = [proc EXCEPT !.at = "idle"]
  /\ Sends(Msg("idle"))
  /\ UNCHANGED <<fallback, reg, leaving, life, stopped, rows, down, story, vision, anew, count>>

(* The first prompt is done: only now there is a handle, the row hears of   *)
(* the file, and the session is idle.                                       *)
FirstDone ==
  /\ proc.at = "first" /\ proc.looks = {}
  /\ proc' = [proc EXCEPT !.at = "idle"]
  /\ Sends(Msg("session_persisted") \o Msg("idle"))
  /\ UNCHANGED <<fallback, reg, leaving, life, stopped, rows, down, story, vision, count, anew>>

(* The first prompt throws. *)
FirstFails ==
  /\ proc.at = "first" /\ Fault("http")
  /\ \E lost \in BOOLEAN : IF lost THEN UNCHANGED up ELSE Sends(Msg("error"))
  /\ proc' = [proc EXCEPT !.at = "gone"]
  /\ UNCHANGED <<fallback, reg, leaving, life, stopped, rows, down, story, vision, anew>>

(* The first loop of a mock session is done: it is idle. *)
LoopDone ==
  /\ proc.at = "loop" /\ proc.looks = {}
  /\ proc' = [proc EXCEPT !.at = "idle"]
  /\ Sends(Msg("idle"))
  /\ UNCHANGED <<fallback, reg, leaving, life, stopped, rows, down, story, vision, count, anew>>

(* A later prompt, or a later loop, is done. "idle" has been said.          *)
PromptDone ==
  /\ proc.at = "busy" /\ proc.looks = {}
  /\ proc' = [proc EXCEPT !.at = "idle"]
  /\ UNCHANGED up
  /\ UNCHANGED <<fallback, reg, leaving, life, stopped, rows, down, story, vision, count, anew>>

(* A message of the control plane, once "start" has been looked at.         *)
Receives(type) ==
  /\ proc.at \in {"choosing", "first", "loop", "busy", "idle"}
  /\ down # <<>> /\ Head(down).type = type
  /\ down' = Tail(down)

(* "inject": without a handle it is dropped; an idle session is prompted; a *)
(* busy one refuses, which is only logged.                                  *)
Inject ==
  /\ Receives("inject")
  /\ IF proc.at = "idle"
     THEN /\ proc' = [proc EXCEPT !.at = "busy"]
          /\ story' = IF proc.runtime = "mock" THEN story
                      ELSE [story EXCEPT ![proc.file].said = @ \cup {"note"}]
     ELSE UNCHANGED <<proc, story>>
  /\ UNCHANGED <<fallback, reg, leaving, life, stopped, rows, up, vision, count, anew>>

(* The model a switch finds in the list of the session. *)
SwitchedTo(name) == SelectPi(proc.list, name)

(* "switch_model": dropped without a handle, ignored by the mock, refused   *)
(* for a model the worker was not started with.                             *)
SwitchModel ==
  /\ Receives("switch_model")
  /\ LET m == SwitchedTo(Head(down).name)
         ok == HasHandle /\ proc.runtime = "pi" /\ m # None
     IN /\ proc' = IF ok THEN [proc EXCEPT !.model = m] ELSE [proc EXCEPT !.missed = TRUE]
        /\ IF HasHandle /\ proc.runtime = "pi" /\ m = None THEN Sends(Msg("error")) ELSE UNCHANGED up
  /\ UNCHANGED <<fallback, reg, leaving, life, stopped, rows, story, vision, count, anew>>

(* Mutant of Abort: only a session can be aborted. *)
AbortSession ==
  /\ Receives("abort")
  /\ proc' = IF HasHandle THEN [proc EXCEPT !.at = "ending"] ELSE proc
  /\ UNCHANGED <<fallback, reg, leaving, life, stopped, rows, up, story, vision, anew, count>>

(* "abort": without a handle exit(0), with one its session is aborted       *)
(* before. What is sent to the worker meanwhile is left out.                *)
Abort ==
  /\ Receives("abort")
  /\ proc' = [proc EXCEPT !.at = IF HasHandle THEN "ending" ELSE "gone"]
  /\ UNCHANGED <<fallback, reg, leaving, life, stopped, rows, up, story, vision, count, anew>>

(* The session is aborted, which makes one of the mock idle: exit(0). The   *)
(* message may be lost with the process.                                    *)
AbortEnds ==
  /\ proc.at = "ending"
  /\ UNCHANGED up \/ (proc.runtime = "mock" /\ Sends(Msg("idle")))
  /\ proc' = [proc EXCEPT !.at = "gone"]
  /\ UNCHANGED <<fallback, reg, leaving, life, stopped, rows, down, story, vision, count, anew>>

Crash ==
  /\ Alive /\ proc.at # "forked" /\ Fault("crash")
  /\ proc' = [proc EXCEPT !.at = "gone"]
  /\ UNCHANGED <<fallback, reg, leaving, life, stopped, rows, down, up, story, vision, anew>>
-----------------------------------------------------------------------------
(* Pictures: HttpVisionAdapter.analyzeImage. The runtime gives calls of one *)
(* turn to the tools side by side.                                          *)

CanLook == proc.at \in {"first", "loop", "busy"} /\ Counts("looks", MaxLooks)

(* Mutant of Take: the file of the budget is written with the answer. *)
TakeInMemory(v) == v

(* VisionCallBudget.take: the file is written before the call is made.      *)
Take(v) == [v EXCEPT !.saved = proc.used + 1]

(* A question the cache cannot answer, within the budget.                   *)
Look(q) ==
  /\ CanLook
  /\ q \notin vision.cached /\ q \notin proc.looks /\ proc.used < MaxVision
  /\ proc' = [proc EXCEPT !.used = @ + 1, !.looks = @ \cup {q}]
  /\ vision' = [Take(vision) EXCEPT !.calls = @ + 1]
  /\ UNCHANGED <<fallback, reg, leaving, life, stopped, rows, down, up, story, anew>>

(* The answer, which the cache keeps unless the call failed. *)
LookDone(q) ==
  /\ proc.at \in {"first", "loop", "busy"} /\ q \in proc.looks
  /\ proc' = [proc EXCEPT !.looks = @ \ {q}]
  /\ \/ vision' = [vision EXCEPT !.cached = @ \cup {q}] /\ UNCHANGED count
     \/ UNCHANGED vision /\ Fault("http")
  /\ UNCHANGED <<fallback, reg, leaving, life, stopped, rows, down, up, story, anew>>
-----------------------------------------------------------------------------
(* The control plane hears of the worker.                                  *)

(* The provider an "idle" or an "error" is booked on: the one of the row,   *)
(* or the primary model's.                                                  *)
Booked(i) ==
  IF rows[i].model # None THEN {ProviderOf[rows[i].model]} ELSE {ProviderOf[m] : m \in Primaries(reg)}

(* The row a message is about. *)
RowOf(msg) == msg.row

Hears(type) == up # <<>> /\ Head(up).type = type /\ up' = Tail(up)

HearPersisted ==
  /\ Hears("session_persisted")
  /\ rows' = [rows EXCEPT ![RowOf(Head(up))].file = Head(up).file, ![RowOf(Head(up))].kind = Head(up).kind]
  /\ UNCHANGED <<fallback, reg, leaving, life, stopped, proc, down, story, vision, count, anew>>

HearIdle ==
  /\ Hears("idle")
  /\ IF Booked(Head(up).row) = {} THEN UNCHANGED reg
     ELSE \E p \in Booked(Head(up).row) : reg' = Succeeded(reg, p)
  /\ UNCHANGED <<fallback, leaving, life, stopped, rows, proc, down, story, vision, count, anew>>

(* Bound: no more failures are counted than Health tells apart. *)
MaxFails == 5

HearError ==
  /\ Hears("error")
  /\ IF Booked(Head(up).row) = {} THEN UNCHANGED reg
     ELSE \E p \in Booked(Head(up).row) : reg' = IF reg.fails[p] < MaxFails THEN Failed(reg, p) ELSE reg
  /\ UNCHANGED <<fallback, leaving, life, stopped, rows, proc, down, story, vision, count, anew>>

(* The rows when the session that is ACTIVE, if there is one, has become s. *)
Become(s) == [i \in 1..Len(rows) |->
  IF rows[i].status = "ACTIVE" THEN [rows[i] EXCEPT !.status = s] ELSE rows[i]]

(* Mutant of Interrupted: the rows stay ACTIVE. *)
InterruptedNot == rows

(* #markSessionInterrupted. *)
Interrupted == Become("INTERRUPTED")

(* The exit event and onWorkerExit. Nobody follows up the end of a worker   *)
(* that was to be stopped, or whose challenge is not ACTIVE.                *)
HearExit ==
  /\ proc.at = "gone"
  /\ proc' = NoProcess
  /\ down' = <<>>
  /\ stopped' = FALSE
  /\ IF ~stopped /\ life = "ACTIVE"
     THEN rows' = Interrupted /\ life' = Target(life, "RECOVER_ACTIVE") /\ UNCHANGED anew
     ELSE /\ UNCHANGED <<rows, life>>
          /\ anew' = IF ActiveRows # {} /\ anew = "none" THEN "unheeded" ELSE anew
  /\ UNCHANGED <<fallback, reg, leaving, up, story, vision, count>>
-----------------------------------------------------------------------------
(* The human.                                                              *)

(* A message to the worker, if the pool has one. *)
Told(msg) == down' = IF proc.at = "none" THEN down ELSE Append(down, msg)

Orders(what) == what \in Operator /\ Counts("orders", MaxOrders)

(* switchModel: the row first, then the worker. *)
Switch(m) ==
  /\ Orders("switch") /\ IsModelUsable(reg, m)
  /\ rows' = IF ActiveRows = {} THEN rows
             ELSE [rows EXCEPT ![CHOOSE i \in ActiveRows : TRUE].model = m]
  /\ Told([type |-> "switch_model", name |-> Name[m]])
  /\ UNCHANGED <<fallback, reg, leaving, life, stopped, proc, up, story, vision, anew>>

(* injectWorker: a hint, a rejection, a review. *)
Hint ==
  /\ Orders("hint") /\ proc.at # "none"
  /\ Told([type |-> "inject", name |-> None])
  /\ UNCHANGED <<fallback, reg, leaving, life, stopped, rows, proc, up, story, vision, anew>>

(* pause: the human stops a challenge that is worked on (see Workers). *)
Pause ==
  /\ life \in {"ACTIVE", "SUBMITTING"} /\ Alive /\ proc.at # "forked" /\ Orders("pause")
  /\ stopped' = TRUE
  /\ Told([type |-> "abort", name |-> None])
  /\ life' = Target(life, "PAUSE")
  /\ rows' = Become("PAUSED")
  /\ UNCHANGED <<fallback, reg, leaving, proc, up, story, vision, anew>>

Resume ==
  /\ life = "PAUSED"
  /\ life' = Target(life, "RESUME")
  /\ UNCHANGED <<fallback, reg, leaving, stopped, rows, proc, down, up, story, vision, count, anew>>

(* restartSolver: the session row stays ACTIVE. *)
Restart ==
  /\ life = "ACTIVE" /\ Alive /\ proc.at # "forked" /\ Orders("restart")
  /\ stopped' = TRUE
  /\ Told([type |-> "abort", name |-> None])
  /\ life' = Target(life, "RESTART_SOLVER")
  /\ anew' = "restart"
  /\ UNCHANGED <<fallback, reg, leaving, rows, proc, up, story, vision>>
-----------------------------------------------------------------------------
(* Flags (see Submission): the judge answers at any time, and the human     *)
(* decides at any time, once per flag. Bounds: a flag counts as an order    *)
(* and as an edit.                                                          *)

(* A flag of the worker or of the human is on its way to the judge.         *)
FlagFound ==
  /\ life \in {"QUEUED", "ACTIVE"} /\ proc.at # "forked"
  /\ "flag" \in Operator /\ count.orders < MaxOrders /\ count.edits < MaxEdits
  /\ count' = [count EXCEPT !.orders = @ + 1, !.edits = @ + 1, !.flags = @ + 1]
  /\ life' = Target(Target(life, "CANDIDATE_FOUND"), "VERIFY_OK")
  /\ UNCHANGED <<fallback, reg, leaving, stopped, rows, proc, down, up, story, vision, anew>>

Feedback == [type |-> "inject", name |-> None]

(* The judge says no, and the worker hears of it. *)
FlagWrong ==
  /\ proc.at # "forked" /\ Counts("judged", count.flags)
  /\ life' = Target(life, "SUBMIT_WRONG")
  /\ Told(Feedback)
  /\ UNCHANGED <<fallback, reg, leaving, stopped, rows, proc, up, story, vision, anew>>

(* handleSubmissionCorrect: the worker is killed, its session has ended.    *)
Stopped ==
  /\ stopped' = TRUE
  /\ proc' = IF proc.at = "none" THEN proc ELSE [proc EXCEPT !.at = "gone"]
  /\ rows' = Become("ENDED")
  /\ UNCHANGED <<fallback, reg, leaving, down, up, story, vision, anew>>

FlagCorrect ==
  /\ proc.at # "forked" /\ Counts("judged", count.flags)
  /\ life' = Target(life, "SUBMIT_CORRECT")
  /\ Stopped

(* acceptCandidate, from whatever status. *)
Accept ==
  /\ life # "SOLVED" /\ proc.at # "forked" /\ Counts("verdicts", count.flags)
  /\ life' = "SOLVED"
  /\ Stopped

(* The event of rejectCandidate. *)
Reopened(s) ==
  CASE s = "SOLVED" -> Target(s, "REOPEN")
    [] s = "SUBMITTING" -> Target(s, "SUBMIT_WRONG")
    [] s = "PAUSED" -> Target(s, "RESUME")
    [] OTHER -> s

(* rejectCandidate: without a worker the challenge goes back to the queue.  *)
Reject ==
  /\ proc.at # "forked" /\ Counts("verdicts", count.flags)
  /\ life' = IF proc.at = "none" THEN Target(Reopened(life), "SOLVER_STOPPED") ELSE Reopened(life)
  /\ Told(Feedback)
  /\ UNCHANGED <<fallback, reg, leaving, stopped, rows, proc, up, story, vision, anew>>

(* resumeSolvingAfterUnknown: the row and the worker stay what they are.    *)
ResumeSolving ==
  /\ life = "SUBMITTING"
  /\ life' = Target(life, "RECOVER_SUBMITTING")
  /\ UNCHANGED <<fallback, reg, leaving, stopped, rows, proc, down, up, story, vision, count, anew>>
-----------------------------------------------------------------------------
Edits == "edit" \in Operator /\ Counts("edits", MaxEdits)

(* What the human changes in the registry. *)
Edit ==
  /\ Edits
  /\ \/ \E m \in reg.enabled : reg' = WithoutModel(reg, m) /\ UNCHANGED leaving
     \/ \E m \in Models \ reg.enabled : reg' = WithModel(reg, m) /\ UNCHANGED leaving
     \/ \E p \in Providers : reg' = [reg EXCEPT !.keys = @ \cup {p}] /\ UNCHANGED leaving
     \/ \E m \in reg.enabled : IsModelUsable(reg, m) /\ reg' = Promoted(reg, m) /\ UNCHANGED leaving
     \/ \E p \in reg.open \ leaving : reg' = WithoutKey(reg, p) /\ leaving' = leaving \cup {p}
  /\ UNCHANGED <<fallback, life, stopped, rows, proc, down, up, story, vision, anew>>

(* The other half of DELETE /api/providers/:id. *)
ProviderLeaves(p) ==
  /\ p \in leaving
  /\ reg' = WithoutProvider(reg, p)
  /\ leaving' = leaving \ {p}
  /\ UNCHANGED <<fallback, life, stopped, rows, proc, down, up, story, vision, count, anew>>
-----------------------------------------------------------------------------
Works == Begin \/ OpenSession \/ OpenFails \/ FirstDone \/ LoopDone \/ PromptDone
         \/ \E q \in Questions : LookDone(q)

Takes == Inject \/ SwitchModel \/ Abort

Hearing == HearPersisted \/ HearIdle \/ HearError \/ HearExit

Flags == FlagFound \/ FlagWrong \/ FlagCorrect \/ Accept \/ Reject \/ ResumeSolving

Next ==
  \/ StartSolver \/ StartTimeout
  \/ Works \/ FirstFails \/ Takes \/ AbortEnds \/ Crash
  \/ \E q \in Questions : Look(q)
  \/ Hearing
  \/ \E m \in Models : Switch(m)
  \/ Hint \/ Pause \/ Resume \/ Restart \/ Edit
  \/ \E p \in Providers : ProviderLeaves(p)
  \/ Flags

Spec == Init /\ [][Next]_vars

(* The processes run, their messages arrive, and the scheduler ticks. A     *)
(* message the worker can take does not wait behind its prompt. An abort of *)
(* the session returns: true of the mock, assumed of the Pi SDK.            *)
FairSpec ==
  /\ Spec
  /\ WF_vars(Works) /\ WF_vars(Takes) /\ WF_vars(Hearing) /\ WF_vars(StartSolver)
  /\ WF_vars(HearExit) /\ WF_vars(AbortEnds)
-----------------------------------------------------------------------------
TypeOK ==
  /\ reg \in Registry
  /\ leaving \subseteq Providers
  /\ fallback \in BOOLEAN
  /\ anew \in Causes
  /\ life \in {"QUEUED", "ACTIVE", "SUBMITTING", "PAUSED", "SOLVED"}
  /\ stopped \in BOOLEAN
  /\ rows \in Seq(Row)
  /\ proc \in Process
  /\ \A i \in 1..Len(story) : story[i].said \subseteq {"kickoff", "resume", "note"}
  /\ vision.saved \in Nat /\ vision.calls \in Nat /\ vision.cached \subseteq Questions

(* A solver that is told its conversation was restored has the one that     *)
(* began with the challenge: session-resume.ts never hands out the file of  *)
(* a mock session, nor one that nobody has been told of. A worker that      *)
(* falls back to the mock has a conversation of its own and is told nothing.*)
ResumedKnowsTask ==
  (proc.resume /\ proc.runtime # "mock") =>
    /\ proc.file \in 1..Len(story)
    /\ "kickoff" \in story[proc.file].said

(* A conversation belongs to the session it was opened for, however late    *)
(* the worker's message about it is heard (session_persisted).              *)
StoryOfItsRow ==
  \A i \in 1..Len(rows) : rows[i].file # 0 => story[rows[i].file].row = i

(* However often workers die, no more calls of a vision model are made for  *)
(* a challenge than configured, and the file never counts fewer than were   *)
(* made (loadFileBudget, take).                                             *)
VisionWithinBudget == vision.calls <= MaxVision /\ vision.calls <= vision.saved

(* A session whose worker follows the human runs a model of the name its    *)
(* row names, unless a switch was missed (switchModel, #startSolver).       *)
RowTellsModel ==
  (HasHandle /\ proc.runtime = "pi" /\ ~proc.missed /\ down = <<>> /\ rows[proc.row].model # None)
    => /\ proc.model # None
       /\ Name[proc.model] = Name[rows[proc.row].model]

(* What the sessions say of their workers, and the workers of their         *)
(* conversations, together. *)
SessionsInv == TypeOK /\ ResumedKnowsTask /\ StoryOfItsRow /\ RowTellsModel

(* A worker starts, and its session has a conversation that was kept. *)
Succeeds == proc.at = "none" /\ proc'.at = "forked" /\ Latest > 0 /\ rows[Latest].kind = "pi"

Continues == proc'.resume /\ proc'.file = rows[Latest].file

(* Once its conversation was kept, a solver that follows another one goes   *)
(* on with it, whether the other one died, was paused or had its model      *)
(* taken away, and whatever came of its flags. It starts over only where    *)
(* the session has ended with the challenge solved, the human restarts it,  *)
(* a start failed, or the other one died unheeded: after its flag was sent  *)
(* to the judge, or with the mark of a stop on the challenge                *)
(* (isResumableSession, onWorkerExit).                                      *)
KeepsStory ==
  [][(Succeeds /\ anew = "none" /\ rows[Latest].status # "ENDED") => Continues]_vars

(* A worker that is told to end ends, whatever its session is doing: with   *)
(* the first prompt under way, when it has no handle, too (pause, restart). *)
StopEnds == []((\E i \in 1..Len(down) : down[i].type = "abort") => <>(proc.at = "none"))

(* A conversation whose first prompt is done reaches its row, even when the *)
(* worker dies right after it said so.                                      *)
PersistedArrives ==
  \A i \in 1..MaxRows :
    (proc.at = "idle" /\ proc.row = i) ~> (i <= Len(rows) /\ rows[i].file # 0)

(* Refuted: a model switch the control plane announces is carried out.      *)
SwitchIsCarriedOut == ~proc.missed

(* Refuted: a worker that dies is followed by one that has its conversation *)
(* (a worker that exits while its flag is judged leaves its row ACTIVE).    *)
DeathKeepsStory ==
  [][(Succeeds /\ anew \notin {"restart", "failed"} /\ rows[Latest].status # "ENDED") => Continues]_vars
=============================================================================
