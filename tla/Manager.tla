------------------------------- MODULE Manager -------------------------------
(***************************************************************************)
(* The manager (apps/server/src/control/manager/): when a plan is asked    *)
(* for and made (ManagerCoordinator, ManagerService), what becomes of the  *)
(* model's decisions (validateAndApply), and what the scheduler tick does  *)
(* with them and with the human's wishes (admitChallenge, rankAdmitted).   *)
(*                                                                         *)
(* The control plane is a single thread. A run of the manager has one      *)
(* await, the call of the model; the tick awaits the start of each solver. *)
(* What follows an await without another macrotask in between is one step. *)
(***************************************************************************)
EXTENDS Integers, FiniteSets

CONSTANTS
  Challenges,
  Score,         \* computePriorityScore of a queued challenge
  Found,         \* discoveredAt
  Concurrency,   \* config workers.solverConcurrency
  MaxCandidates, \* config manager.maxCandidates
  Answers,       \* what the model may decide about a challenge
  Touched,       \* the challenges the human locks, forces or holds (bound)
  Modes          \* the modes the human chooses from

ASSUME ManagerAssumption ==
  /\ IsFiniteSet(Challenges)
  /\ Score \in [Challenges -> 1..9999]  \* it is below 300; 10000 is the human's
  /\ Found \in [Challenges -> Nat]
  /\ \A c, d \in Challenges : Found[c] = Found[d] => c = d
  /\ Concurrency \in Nat \ {0} /\ MaxCandidates \in Nat \ {0}
  /\ Answers \subseteq {"START", "HOLD", "CONTINUE"}
  /\ Touched \subseteq Challenges
  /\ Modes \subseteq {"OFF", "SHADOW", "ACTIVE"}

VARIABLES
  mode,     \* settings manager.mode
  life,     \* challenges.lifecycle_status
  scored,   \* the challenges with a last_priority_score in the database
  orch,     \* challenge_orchestration: the human's lock and dispatch
  dirty,    \* ManagerCoordinator.dirty
  timer,    \* is the debounce timer set?
  manual,   \* does pending hold a MANUAL request?
  run,      \* the run of the manager: where it stands, the snapshot it was asked about
  live,     \* is lastAppliedPlanId that of a plan younger than planTtlMs?
  applied,  \* applied(): the action of that plan that stands for each challenge
  lastHash, \* lastAppliedSnapshotHash
  tick      \* the challenges the running scheduler tick still has to start

vars == <<mode, life, scored, orch, dirty, timer, manual, run, live, applied, lastHash, tick>>

Lifecycles == {"READY", "QUEUED", "ACTIVE", "SOLVED"}

Dispatch == {"AUTO", "FORCE_START", "FORCE_HOLD"}

Actions == {"none", "START", "HOLD", "CONTINUE"}

Undecided == [c \in Challenges |-> "none"]

NoSnapshot == [active |-> {}, candidates |-> {}, slots |-> 0]

Snapshots == [active : SUBSET Challenges, candidates : SUBSET Challenges, slots : 0..Concurrency]

Rest == [at |-> "idle", snap |-> NoSnapshot]

Init ==
  /\ mode \in Modes
  /\ life = [c \in Challenges |-> "READY"]
  /\ scored = {}
  /\ orch = [c \in Challenges |-> [locked |-> FALSE, dispatch |-> "AUTO"]]
  /\ dirty = TRUE     \* requestReplan("STARTUP"), before its runIfNeeded
  /\ timer = (mode # "OFF") /\ manual = FALSE
  /\ run = Rest
  /\ live = FALSE /\ applied = Undecided /\ lastHash = NoSnapshot
  /\ tick = {}
-----------------------------------------------------------------------------
(* The snapshot.                                                           *)

Queued == {c \in Challenges : life[c] \in {"QUEUED", "READY"}}

Active == {c \in Challenges : life[c] = "ACTIVE"}

(* Does c come before d in the snapshot? The code breaks ties by id.        *)
Before(c, d) == Score[c] > Score[d] \/ (Score[c] = Score[d] /\ Found[c] < Found[d])

(* prefilterCandidates: the best of the queued ones. The separate lists of  *)
(* the two categories matter from 26 queued challenges on, and are left out.*)
Candidates == {c \in Queued : Cardinality({d \in Queued : Before(d, c)}) < MaxCandidates}

FreeSlots == IF Cardinality(Active) < Concurrency THEN Concurrency - Cardinality(Active) ELSE 0

(* Stands for its hash as well: scores of a challenge do not change here.   *)
Snapshot == [active |-> Active, candidates |-> Candidates, slots |-> FreeSlots]
-----------------------------------------------------------------------------
(* The coordinator.                                                        *)

(* While the continuation of a run waits in the microtask queue, nothing    *)
(* else runs.                                                               *)
Quiet == run.at # "again"

(* replan up to its await: without anything to plan, and when nothing has   *)
(* changed since the plan applied last, it is over at once.                 *)
Asks(isManual, m) ==
  /\ m # "OFF"
  /\ Snapshot.active \cup Snapshot.candidates # {}
  /\ isManual \/ lastHash # Snapshot

(* Mutant of RunIfNeeded: a request with nobody to serve it stays marked,   *)
(* but the request of a caller who finds a run under way is dropped.        *)
RunIfNeededForgets(isManual, m) ==
  IF run.at = "ask"
  THEN dirty' = FALSE /\ manual' = FALSE /\ UNCHANGED run
  ELSE /\ dirty' = FALSE /\ manual' = FALSE
       /\ run' = IF Asks(isManual, m) THEN [at |-> "ask", snap |-> Snapshot] ELSE Rest

(* runIfNeeded, called with a request pending. With the manager off a run   *)
(* nobody asked for by hand is dropped before it begins.                    *)
RunIfNeeded(isManual, m) ==
  IF run.at = "ask"
  THEN dirty' = TRUE /\ manual' = isManual /\ UNCHANGED run
  ELSE /\ dirty' = FALSE /\ manual' = FALSE
       /\ run' = IF Asks(isManual, m) THEN [at |-> "ask", snap |-> Snapshot] ELSE Rest

(* requestReplan of the control plane and of the periodic timer: a batch of *)
(* challenges, a free slot, a solved challenge, a stalled solver.           *)
Request ==
  /\ Quiet
  /\ dirty' = TRUE
  /\ timer' = (timer \/ (mode # "OFF" /\ run.at = "idle"))
  /\ UNCHANGED <<mode, life, scored, orch, manual, run, live, applied, lastHash, tick>>

(* What requestReplan("MANUAL") does in mode m, for the operations that end *)
(* with it.                                                                 *)
RequestManual(m) == timer' = FALSE /\ RunIfNeeded(TRUE, m)

ManualReplan ==
  /\ Quiet
  /\ RequestManual(mode)
  /\ UNCHANGED <<mode, life, scored, orch, live, applied, lastHash, tick>>

TimerFires ==
  /\ Quiet /\ timer
  /\ timer' = FALSE
  /\ IF dirty THEN RunIfNeeded(manual, mode) ELSE UNCHANGED <<dirty, manual, run>>
  /\ UNCHANGED <<mode, life, scored, orch, live, applied, lastHash, tick>>

(* Mutant of Over: the run that ends does not look for a request. *)
OverForGood == run' = Rest

(* The run is over; with a request pending its continuation runs again.     *)
Over == run' = IF dirty THEN [run EXCEPT !.at = "again"] ELSE Rest

RunAgain ==
  /\ run.at = "again"
  /\ RunIfNeeded(manual, mode)
  /\ UNCHANGED <<mode, life, scored, orch, timer, live, applied, lastHash, tick>>
-----------------------------------------------------------------------------
(* The answer of the model.                                                *)

(* Mutant of LockedNow: the lock as the snapshot's summary gave it, which   *)
(* the model was told and is trusted with.                                  *)
LockedThen(c) == FALSE

(* The lock of c, read when the answer is there. *)
LockedNow(c) == orch[c].locked

(* Is a decision refused: the challenge is solved, or locked by the human? *)
Refused(c, d) == LockedNow(c) \/ (life[c] = "SOLVED" /\ d = "START")

(* The decisions that stand: at most as many starts as the snapshot had     *)
(* slots, the others turned into holds; which ones is up to the priorities  *)
(* the model gave.                                                          *)
Standing(answer, kept) ==
  [c \in Challenges |->
     IF Refused(c, answer[c]) THEN "none"
     ELSE IF answer[c] = "START" /\ c \notin kept THEN "HOLD" ELSE answer[c]]

(* A plan is made; what it says of each challenge is also written to the    *)
(* challenge's orchestration row, where only the dashboard and the          *)
(* reflection switch look.                                                  *)
PlanMade ==
  /\ run.at = "ask"
  /\ \E answer \in [Challenges -> Answers \cup {"none"}] :
       LET starts == {c \in Challenges : answer[c] = "START" /\ ~Refused(c, "START")}
       IN \E kept \in SUBSET starts :
            /\ Cardinality(kept) = IF Cardinality(starts) > run.snap.slots
                                   THEN run.snap.slots ELSE Cardinality(starts)
            /\ applied' = Standing(answer, kept)
  /\ live' = TRUE /\ lastHash' = run.snap
  /\ Over
  /\ UNCHANGED <<mode, life, scored, orch, dirty, timer, manual, tick>>

(* No usable answer, or an exception: back to the deterministic order. The  *)
(* hash of the last plan stays.                                             *)
PlanFails ==
  /\ run.at = "ask"
  /\ live' = FALSE /\ applied' = Undecided
  /\ Over
  /\ UNCHANGED <<mode, life, scored, orch, dirty, timer, manual, lastHash, tick>>

(* planTtlMs later. *)
PlanExpires ==
  /\ Quiet /\ live
  /\ live' = FALSE /\ applied' = Undecided
  /\ UNCHANGED <<mode, life, scored, orch, dirty, timer, manual, run, lastHash, tick>>
-----------------------------------------------------------------------------
(* The scheduler tick.                                                     *)

(* Mutant of Planned: the mode alone decides. *)
PlannedByMode == mode = "ACTIVE"

(* shouldUseManagerGate. *)
Planned == mode = "ACTIVE" /\ live

(* Mutants of Admitted: the manager's plan is looked at first; a plan       *)
(* without a decision admits.                                               *)
AdmittedByPlan(c) ==
  IF Planned /\ applied[c] # "none" THEN applied[c] = "START" ELSE orch[c].dispatch # "FORCE_HOLD"

(* admitChallenge. Under a plan only a START admits: a challenge without a  *)
(* decision is held.                                                        *)
Admitted(c) ==
  \/ orch[c].dispatch = "FORCE_START"
  \/ orch[c].dispatch = "AUTO" /\ (Planned => applied[c] = "START")

(* The sort key, without the priorities the model gave: those may put the   *)
(* starts of a plan in any order. The score is the one that was in the row  *)
(* when the tick read it.                                                   *)
Rank(c) ==
  CASE orch[c].dispatch = "FORCE_START" -> 10000
    [] orch[c].dispatch # "FORCE_START" /\ Planned -> 1000
    [] OTHER -> IF c \in scored THEN Score[c] ELSE 0

Ahead(c, d) == Rank(c) > Rank(d) \/ (Rank(c) = Rank(d) /\ Rank(c) < 1000 /\ Found[c] < Found[d])

(* The tick queues what is ready, stores the scores and picks the first of  *)
(* the admitted, as many as there is capacity for.                          *)
Tick ==
  /\ Quiet /\ tick = {}
  /\ LET open == {c \in Queued : Admitted(c)}
     IN \E picked \in SUBSET open :
          /\ Cardinality(picked) = IF Cardinality(open) > FreeSlots THEN FreeSlots ELSE Cardinality(open)
          /\ \A c \in picked, d \in open \ picked : ~Ahead(d, c)
          /\ tick' = picked
  /\ life' = [c \in Challenges |-> IF life[c] = "READY" THEN "QUEUED" ELSE life[c]]
  /\ scored' = scored \cup Queued
  /\ UNCHANGED <<mode, orch, dirty, timer, manual, run, live, applied, lastHash>>

(* #startSolver succeeds for one of them or fails (SOLVER_ERROR). *)
StartSolver(c) ==
  /\ Quiet /\ c \in tick
  /\ tick' = tick \ {c}
  /\ life' = [life EXCEPT ![c] = IF @ = "QUEUED" THEN "ACTIVE" ELSE @]
  /\ UNCHANGED <<mode, scored, orch, dirty, timer, manual, run, live, applied, lastHash>>

StartFails(c) ==
  /\ Quiet /\ c \in tick
  /\ tick' = tick \ {c}
  /\ UNCHANGED <<mode, life, scored, orch, dirty, timer, manual, run, live, applied, lastHash>>

(* A solver is done, or gone: what follows asks for a replan. *)
SolverLeaves(c) ==
  /\ Quiet /\ life[c] = "ACTIVE"
  /\ \E s \in {"QUEUED", "SOLVED"} : life' = [life EXCEPT ![c] = s]
  /\ dirty' = TRUE
  /\ timer' = (timer \/ (mode # "OFF" /\ run.at = "idle"))
  /\ UNCHANGED <<mode, scored, orch, manual, run, live, applied, lastHash, tick>>
-----------------------------------------------------------------------------
(* The human, and the restart.                                             *)

SetMode ==
  /\ Quiet
  /\ mode' \in Modes \ {mode}
  /\ IF mode' = "OFF" THEN UNCHANGED <<dirty, timer, manual, run>> ELSE RequestManual(mode')
  /\ UNCHANGED <<life, scored, orch, live, applied, lastHash, tick>>

PatchOrchestration(c) ==
  /\ Quiet /\ c \in Touched
  /\ \/ orch' = [orch EXCEPT ![c].locked = ~@]
     \/ \E d \in Dispatch \ {orch[c].dispatch} : orch' = [orch EXCEPT ![c].dispatch = d]
  /\ RequestManual(mode)
  /\ UNCHANGED <<mode, life, scored, live, applied, lastHash, tick>>

(* The process dies and starts again; recovery puts what was active back in *)
(* the queue (RECOVER_ACTIVE), and the first plan is asked for.             *)
Restart ==
  /\ life' = [c \in Challenges |-> IF life[c] = "ACTIVE" THEN "QUEUED" ELSE life[c]]
  /\ dirty' = TRUE /\ timer' = (mode # "OFF") /\ manual' = FALSE
  /\ run' = Rest
  /\ live' = FALSE /\ applied' = Undecided /\ lastHash' = NoSnapshot
  /\ tick' = {}
  /\ UNCHANGED <<mode, scored, orch>>

Next ==
  \/ Request \/ ManualReplan \/ TimerFires \/ RunAgain
  \/ PlanMade \/ PlanFails \/ PlanExpires
  \/ Tick
  \/ \E c \in Challenges : StartSolver(c) \/ StartFails(c) \/ SolverLeaves(c) \/ PatchOrchestration(c)
  \/ SetMode \/ Restart

Spec == Init /\ [][Next]_vars

(* The timers of node fire, a call of the model ends (it has a timeout), a  *)
(* continuation runs, and a solver comes up or fails. A continuation goes   *)
(* before the timers but cannot keep them from firing: strong fairness.     *)
Fairness ==
  /\ WF_vars(TimerFires) /\ WF_vars(RunAgain)
  /\ WF_vars(PlanMade \/ PlanFails)
  /\ SF_vars(Tick) /\ \A c \in Challenges : WF_vars(StartSolver(c) \/ StartFails(c))

FairSpec == Spec /\ Fairness
-----------------------------------------------------------------------------
TypeOK ==
  /\ mode \in Modes
  /\ life \in [Challenges -> Lifecycles]
  /\ scored \subseteq Challenges
  /\ orch \in [Challenges -> [locked : BOOLEAN, dispatch : Dispatch]]
  /\ dirty \in BOOLEAN /\ timer \in BOOLEAN /\ manual \in BOOLEAN
  /\ run \in [at : {"idle", "ask", "again"}, snap : Snapshots]
  /\ live \in BOOLEAN
  /\ applied \in [Challenges -> Actions]
  /\ lastHash \in Snapshots
  /\ tick \subseteq Challenges

(* A request is never left without somebody who will serve it: while the    *)
(* manager is on, a pending request has the timer, the run under way or its *)
(* continuation. (requestReplan sets no timer while a run is under way.)    *)
RequestIsDriven == dirty /\ mode # "OFF" => timer \/ run.at # "idle"

(* A challenge the human locked is the human's: a plan the model was asked  *)
(* for before the lock brings no decision about it when it comes.           *)
LockedIsUntouched ==
  [][\A c \in Challenges : orch[c].locked /\ applied'[c] # applied[c] => applied'[c] = "none"]_vars

(* The human comes first: what is held is not picked, and no challenge is   *)
(* picked over one the human wants started.                                 *)
HumanFirst ==
  [][tick = {} /\ tick' # {} =>
       \A c \in tick' :
         /\ orch[c].dispatch # "FORCE_HOLD"
         /\ orch[c].dispatch # "FORCE_START" =>
              \A d \in Queued : orch[d].dispatch = "FORCE_START" => d \in tick']_vars

(* A manager that fails or stays silent holds nothing up: with a slot free  *)
(* for it and no plan in force, a queued challenge is started, is tried, or *)
(* has the human or a plan in its way.                                      *)
FallbackStarts ==
  \A c \in Challenges :
    life[c] = "QUEUED" /\ ~live /\ orch[c].dispatch = "AUTO" /\ FreeSlots = Cardinality(Queued)
      ~> life[c] # "QUEUED" \/ live \/ orch[c].dispatch # "AUTO" \/ FreeSlots < Cardinality(Queued) \/ c \in tick

(* The coordinator keeps its promise. *)
Coordinator == INSTANCE Replan WITH wanted <- dirty, busy <- run.at = "ask", on <- mode # "OFF"

ReplanSpec == Coordinator!FairSpec

(* "Manual lock/override -> Manager decision -> deterministic scheduler"    *)
(* (scheduler-gate.ts): a challenge whose strategy the human has locked is  *)
(* not held by the manager.                                                 *)
LockedIsNotHeld ==
  \A c \in Challenges : orch[c].locked /\ orch[c].dispatch = "AUTO" /\ c \in Queued => Admitted(c)

(* "schedule workers using the just-computed ranking" (control-plane.ts):   *)
(* without a plan, a challenge is not picked over one of a higher score.    *)
PickedByScore ==
  [][tick = {} /\ tick' # {} /\ ~Planned =>
       \A c \in tick', d \in {q \in Queued : orch[q].dispatch = "AUTO"} \ tick' :
         orch[c].dispatch = "AUTO" => Score[d] <= Score[c]]_vars

(* The coordinator's state, and no request of it without somebody to serve  *)
(* it.                                                                      *)
ManagerInv == TypeOK /\ RequestIsDriven

(* The human decides before the plan and before the score: a plan leaves    *)
(* what is locked alone, and the tick picks what is forced and nothing that *)
(* is held.                                                                 *)
HumanDecides == LockedIsUntouched /\ HumanFirst
=============================================================================
