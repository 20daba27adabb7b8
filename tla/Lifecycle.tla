------------------------------ MODULE Lifecycle ------------------------------
(***************************************************************************)
(* StateMachine.transition (apps/server/src/state-machine.ts) on one       *)
(* challenge row: the status and the columns a transition patches with it. *)
(* Each column is kept as "is it non-null", which is all its readers test. *)
(***************************************************************************)
EXTENDS Naturals, LifecycleTable

CONSTANT MaxRestarts   \* bound on solverRestartCount

ASSUME MaxRestartsAssumption == MaxRestarts \in Nat

VARIABLES
  status,        \* lifecycleStatus
  session,       \* currentSessionId # null
  solverStarted, \* solverStartedAt # null
  pausedReason,  \* pausedReason # null
  parkedReason,  \* parkedReason # null
  restarts       \* solverRestartCount

vars == <<status, session, solverStarted, pausedReason, parkedReason, restarts>>

(* The row syncRemoteChallenge creates. *)
Init ==
  /\ status = "DISCOVERED"
  /\ session = FALSE
  /\ solverStarted = FALSE
  /\ pausedReason = FALSE
  /\ parkedReason = FALSE
  /\ restarts = 0

Restarting(e) == e \in {"RESTART_SOLVER", "REOPEN"}

(* Mutant of DropsSession: a solved challenge keeps its session. *)
DropsSessionUnlessSolved(e) == e \in {"SOLVER_ERROR", "SOLVER_STOPPED", "RESTART_SOLVER", "REOPEN"}

(* The events that null the session: the solver is gone or the work is over. *)
DropsSession(e) == e \in {"SUBMIT_CORRECT", "SOLVER_ERROR", "SOLVER_STOPPED", "RESTART_SOLVER", "REOPEN"}

(* The events that null the reasons of pausing and parking. *)
ClearsReasons(e) == e \in {"RESUME", "UNPARK"}

(* An allowed transition. The reasons and the session travel in ctx: pause  *)
(* and park pass a reason, #startSolver a session.                          *)
Transition(e) ==
  /\ Allowed(status, e)
  /\ status' = Target(status, e)
  /\ session' = ((session \/ e = "SCHEDULE") /\ ~DropsSession(e))
  /\ solverStarted' = (solverStarted \/ e = "SCHEDULE")
  /\ pausedReason' = ((pausedReason \/ e = "PAUSE") /\ ~ClearsReasons(e))
  /\ parkedReason' = ((parkedReason \/ e = "PARK") /\ ~ClearsReasons(e))
  /\ restarts' = IF Restarting(e) THEN restarts + 1 ELSE restarts
  /\ restarts' <= MaxRestarts

Next == \E e \in Event : Transition(e)

Spec == Init /\ [][Next]_vars
-----------------------------------------------------------------------------
TypeOK ==
  /\ status \in Status
  /\ session \in BOOLEAN
  /\ solverStarted \in BOOLEAN
  /\ pausedReason \in BOOLEAN
  /\ parkedReason \in BOOLEAN
  /\ restarts \in 0..MaxRestarts

(* schedulerTick passes over a QUEUED challenge whose pausedReason is set   *)
(* (control-plane.ts:452), so a reason that outlived its pause, on any of   *)
(* the ways through PAUSED and PARKED, would starve the challenge forever.  *)
NoStaleReason == status \notin {"PAUSED", "PARKED"} => ~pausedReason /\ ~parkedReason

(* Only a challenge some solver was started for, or whose flag came from    *)
(* outside, is worked on: a session is never held in a status before the    *)
(* first SCHEDULE, nor kept by a solved or a failed challenge.              *)
SessionFollowsSolver ==
  session => solverStarted /\ status \notin {"DISCOVERED", "PREPARING", "READY", "SOLVED", "ERROR"}

(* SOLVED, and every status some event of which leads into the set. *)
Closed(S) ==
  /\ "SOLVED" \in S
  /\ \A s \in Status : (\E e \in Event : Target(s, e) \in S) => s \in S

(* The statuses from which some sequence of events leads to SOLVED: the     *)
(* least closed set.                                                       *)
NotDead == {s \in Status : \A S \in SUBSET Status : Closed(S) => s \in S}

(* No dead end: from every status but UNSUPPORTED the challenge can still   *)
(* be solved.                                                               *)
CanStillBeSolved == status # "UNSUPPORTED" => status \in NotDead

(* The columns a transition patches follow the status along every path      *)
(* through the table: reasons, the session, and the status itself is one of *)
(* the table's.                                                             *)
ColumnsFollow == TypeOK /\ NoStaleReason /\ SessionFollowsSolver
=============================================================================
