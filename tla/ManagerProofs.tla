---------------------------- MODULE ManagerProofs ----------------------------
(***************************************************************************)
(* Proofs about Manager, for any set of challenges, any scores, any        *)
(* concurrency and any use of the modes and orders: no request for a plan  *)
(* is left without somebody to serve it, the human decides before the plan *)
(* and the score, and the coordinator keeps the promise of Replan.         *)
(***************************************************************************)
EXTENDS Manager, FiniteSetTheorems, TLAPS

(* Whatever is active and queued, a snapshot is a snapshot. *)
LEMMA SnapshotType ==
  ASSUME TypeOK
  PROVE  Snapshot \in Snapshots
<1>1. Active \in SUBSET Challenges /\ Candidates \in SUBSET Challenges
  BY DEF Active, Candidates, Queued
<1>2. Cardinality(Active) \in Nat
  <2>1. IsFiniteSet(Active)
    BY <1>1, ManagerAssumption, FS_Subset
  <2>2. QED BY <2>1, FS_CardinalityType
<1>3. FreeSlots \in 0..Concurrency
  BY <1>2, ManagerAssumption DEF FreeSlots
<1>4. QED BY <1>1, <1>3 DEF Snapshot, Snapshots

LEMMA NoSnapshotType == NoSnapshot \in Snapshots
BY ManagerAssumption DEF NoSnapshot, Snapshots

(* What RunIfNeeded leaves: a run that is at the model or at rest, and a    *)
(* pending request only with a run.                                         *)
LEMMA RunIfNeededType ==
  ASSUME TypeOK, NEW isManual \in BOOLEAN, NEW m \in Modes, RunIfNeeded(isManual, m)
  PROVE  /\ dirty' \in BOOLEAN /\ manual' \in BOOLEAN
         /\ run' \in [at : {"idle", "ask", "again"}, snap : Snapshots]
         /\ dirty' => run'.at # "idle"
<1>1. CASE run.at = "ask"
  BY <1>1 DEF RunIfNeeded, TypeOK
<1>2. CASE run.at # "ask"
  <2>1. run' \in {[at |-> "ask", snap |-> Snapshot], Rest}
    BY <1>2 DEF RunIfNeeded
  <2>2. run' \in [at : {"idle", "ask", "again"}, snap : Snapshots]
    BY <2>1, SnapshotType, NoSnapshotType DEF Rest
  <2>3. QED BY <1>2, <2>2 DEF RunIfNeeded
<1>3. QED BY <1>1, <1>2

(* The end of a run. *)
LEMMA OverType ==
  ASSUME TypeOK, run.at = "ask", Over
  PROVE  /\ run' \in [at : {"idle", "ask", "again"}, snap : Snapshots]
         /\ dirty => run'.at # "idle"
<1>1. CASE dirty
  BY <1>1 DEF Over, TypeOK
<1>2. CASE ~dirty
  BY <1>2, NoSnapshotType DEF Over, Rest, TypeOK
<1>3. QED BY <1>1, <1>2

LEMMA ManagerInit ==
  ASSUME Init
  PROVE  ManagerInv
<1>1. TypeOK
  BY NoSnapshotType DEF Init, TypeOK, Rest, Lifecycles, Dispatch, Actions, Undecided
<1>2. RequestIsDriven
  BY DEF Init, RequestIsDriven
<1>3. QED BY <1>1, <1>2 DEF ManagerInv

LEMMA ManagerStep ==
  ASSUME ManagerInv, [Next]_vars
  PROVE  ManagerInv'
<1> USE DEF ManagerInv
<1>1. CASE Request
  BY <1>1 DEF Request, TypeOK, RequestIsDriven, Quiet
<1>2. CASE ManualReplan
  <2>1. TypeOK /\ mode \in Modes /\ RunIfNeeded(TRUE, mode)
    BY <1>2 DEF ManualReplan, RequestManual, TypeOK
  <2>2. /\ dirty' \in BOOLEAN /\ manual' \in BOOLEAN
        /\ run' \in [at : {"idle", "ask", "again"}, snap : Snapshots]
        /\ dirty' => run'.at # "idle"
    BY <2>1, RunIfNeededType
  <2>3. QED BY <1>2, <2>2 DEF ManualReplan, RequestManual, TypeOK, RequestIsDriven
<1>3. CASE TimerFires
  <2>1. CASE dirty
    <3>1. TypeOK /\ mode \in Modes /\ manual \in BOOLEAN /\ RunIfNeeded(manual, mode)
      BY <1>3, <2>1 DEF TimerFires, TypeOK
    <3>2. /\ dirty' \in BOOLEAN /\ manual' \in BOOLEAN
          /\ run' \in [at : {"idle", "ask", "again"}, snap : Snapshots]
          /\ dirty' => run'.at # "idle"
      BY <3>1, RunIfNeededType
    <3>3. QED BY <1>3, <3>2 DEF TimerFires, TypeOK, RequestIsDriven
  <2>2. CASE ~dirty
    BY <1>3, <2>2 DEF TimerFires, TypeOK, RequestIsDriven
  <2>3. QED BY <2>1, <2>2
<1>4. CASE RunAgain
  <2>1. TypeOK /\ mode \in Modes /\ manual \in BOOLEAN /\ RunIfNeeded(manual, mode)
    BY <1>4 DEF RunAgain, TypeOK
  <2>2. /\ dirty' \in BOOLEAN /\ manual' \in BOOLEAN
        /\ run' \in [at : {"idle", "ask", "again"}, snap : Snapshots]
        /\ dirty' => run'.at # "idle"
    BY <2>1, RunIfNeededType
  <2>3. QED BY <1>4, <2>2 DEF RunAgain, TypeOK, RequestIsDriven
<1>5. CASE PlanMade
  <2>1. PICK answer \in [Challenges -> Answers \cup {"none"}], kept \in SUBSET Challenges :
          applied' = Standing(answer, kept)
    BY <1>5 DEF PlanMade
  <2>2. applied' \in [Challenges -> Actions]
    <3>1. Answers \cup {"none"} \subseteq Actions
      <4>1. Answers \subseteq {"START", "HOLD", "CONTINUE"}
        BY ManagerAssumption
      <4>2. QED BY <4>1, Zenon DEF Actions
    <3>2. \A c \in Challenges : answer[c] \in Actions
      BY <3>1
    <3>3. \A c \in Challenges : Standing(answer, kept)[c] \in Actions
      BY <3>2 DEF Standing, Actions
    <3>4. QED BY <2>1, <3>3 DEF Standing
  <2>3. /\ run' \in [at : {"idle", "ask", "again"}, snap : Snapshots]
        /\ dirty => run'.at # "idle"
    BY <1>5, OverType DEF PlanMade
  <2>4. QED BY <1>5, <2>2, <2>3 DEF PlanMade, TypeOK, RequestIsDriven
<1>6. CASE PlanFails
  <2>1. applied' \in [Challenges -> Actions]
    BY <1>6 DEF PlanFails, Undecided, Actions
  <2>2. /\ run' \in [at : {"idle", "ask", "again"}, snap : Snapshots]
        /\ dirty => run'.at # "idle"
    BY <1>6, OverType DEF PlanFails
  <2>3. QED BY <1>6, <2>1, <2>2 DEF PlanFails, TypeOK, RequestIsDriven
<1>7. CASE PlanExpires
  BY <1>7 DEF PlanExpires, TypeOK, RequestIsDriven, Undecided, Actions
<1>8. CASE Tick
  <2>1. tick' \subseteq Challenges /\ scored' \subseteq Challenges
    BY <1>8 DEF Tick, Queued, TypeOK
  <2>2. life' \in [Challenges -> Lifecycles]
    BY <1>8 DEF Tick, Lifecycles, TypeOK
  <2>3. QED BY <1>8, <2>1, <2>2 DEF Tick, TypeOK, RequestIsDriven
<1>9. ASSUME NEW c \in Challenges,
             StartSolver(c) \/ StartFails(c) \/ SolverLeaves(c) \/ PatchOrchestration(c)
      PROVE  ManagerInv'
  <2>1. CASE StartSolver(c)
    BY <2>1 DEF StartSolver, TypeOK, RequestIsDriven, Lifecycles
  <2>2. CASE StartFails(c)
    BY <2>2 DEF StartFails, TypeOK, RequestIsDriven
  <2>3. CASE SolverLeaves(c)
    BY <2>3 DEF SolverLeaves, Quiet, TypeOK, RequestIsDriven, Lifecycles
  <2>4. CASE PatchOrchestration(c)
    <3>1. orch' \in [Challenges -> [locked : BOOLEAN, dispatch : Dispatch]]
      <4>1. orch[c] \in [locked : BOOLEAN, dispatch : Dispatch]
        BY DEF TypeOK
      <4>2. CASE orch' = [orch EXCEPT ![c].locked = ~@]
        <5>1. [orch[c] EXCEPT !.locked = ~@] \in [locked : BOOLEAN, dispatch : Dispatch]
          BY <4>1, Zenon
        <5>2. QED BY <4>2, <5>1, Zenon DEF TypeOK
      <4>3. CASE \E d \in Dispatch \ {orch[c].dispatch} : orch' = [orch EXCEPT ![c].dispatch = d]
        BY <4>1, <4>3 DEF TypeOK
      <4>4. QED BY <2>4, <4>2, <4>3 DEF PatchOrchestration
    <3>2. TypeOK /\ mode \in Modes /\ RunIfNeeded(TRUE, mode)
      BY <2>4 DEF PatchOrchestration, RequestManual, TypeOK
    <3>3. /\ dirty' \in BOOLEAN /\ manual' \in BOOLEAN
          /\ run' \in [at : {"idle", "ask", "again"}, snap : Snapshots]
          /\ dirty' => run'.at # "idle"
      BY <3>2, RunIfNeededType
    <3>4. QED BY <2>4, <3>1, <3>3 DEF PatchOrchestration, RequestManual, TypeOK, RequestIsDriven
  <2>5. QED BY <1>9, <2>1, <2>2, <2>3, <2>4
<1>10. CASE SetMode
  <2>1. mode' \in Modes
    BY <1>10 DEF SetMode
  <2>2. CASE mode' = "OFF"
    BY <1>10, <2>1, <2>2 DEF SetMode, TypeOK, RequestIsDriven
  <2>3. CASE mode' # "OFF"
    <3>1. TypeOK /\ RunIfNeeded(TRUE, mode') /\ timer' = FALSE
      BY <1>10, <2>3 DEF SetMode, RequestManual
    <3>2. /\ dirty' \in BOOLEAN /\ manual' \in BOOLEAN
          /\ run' \in [at : {"idle", "ask", "again"}, snap : Snapshots]
          /\ dirty' => run'.at # "idle"
      BY <2>1, <3>1, RunIfNeededType
    <3>3. QED BY <1>10, <2>1, <3>1, <3>2 DEF SetMode, TypeOK, RequestIsDriven
  <2>4. QED BY <2>2, <2>3
<1>11. CASE Restart
  BY <1>11, NoSnapshotType DEF Restart, TypeOK, RequestIsDriven, Rest, Undecided, Actions, Lifecycles
<1>12. CASE UNCHANGED vars
  BY <1>12 DEF vars, TypeOK, RequestIsDriven
<1>13. QED
  BY <1>1, <1>2, <1>3, <1>4, <1>5, <1>6, <1>7, <1>8, <1>9, <1>10, <1>11, <1>12 DEF Next

(* While the manager is on, a request for a plan always has a timer, a run  *)
(* under way or the continuation of one, however requests, answers, the     *)
(* switch and restarts follow each other.                                   *)
THEOREM RequestsAreDriven == Spec => []ManagerInv
<1>1. Init => ManagerInv
  BY ManagerInit
<1>2. ManagerInv /\ [Next]_vars => ManagerInv'
  BY ManagerStep
<1>3. QED BY <1>1, <1>2, PTL DEF Spec
-----------------------------------------------------------------------------
LEMMA LockedStep ==
  ASSUME TypeOK, Next, NEW c \in Challenges, orch[c].locked, applied'[c] # applied[c]
  PROVE  applied'[c] = "none"
<1>1. CASE PlanMade
  <2>1. PICK answer \in [Challenges -> Answers \cup {"none"}], kept \in SUBSET Challenges :
          applied' = Standing(answer, kept)
    BY <1>1 DEF PlanMade
  <2>2. Refused(c, answer[c])
    BY DEF Refused, LockedNow
  <2>3. QED BY <2>1, <2>2 DEF Standing
<1>2. CASE PlanFails \/ PlanExpires \/ Restart
  BY <1>2 DEF PlanFails, PlanExpires, Restart, Undecided
<1>3. CASE UNCHANGED applied
  BY <1>3
<1>4. PlanMade \/ PlanFails \/ PlanExpires \/ Restart \/ UNCHANGED applied
  BY DEF Next, Request, ManualReplan, TimerFires, RunAgain, Tick, StartSolver, StartFails,
         SolverLeaves, PatchOrchestration, SetMode
<1>5. QED BY <1>1, <1>2, <1>3, <1>4

(* Only the tick fills the list of challenges to start. *)
LEMMA OnlyTickPicks ==
  ASSUME Next, tick = {}, tick' # {}
  PROVE  Tick
BY DEF Next, Request, ManualReplan, TimerFires, RunAgain, PlanMade, PlanFails, PlanExpires,
       StartSolver, StartFails, SolverLeaves, PatchOrchestration, SetMode, Restart

LEMMA PickedStep ==
  ASSUME TypeOK, Tick, NEW c \in tick'
  PROVE  /\ orch[c].dispatch # "FORCE_HOLD"
         /\ orch[c].dispatch # "FORCE_START" =>
              \A d \in Queued : orch[d].dispatch = "FORCE_START" => d \in tick'
<1> DEFINE open == {q \in Queued : Admitted(q)}
<1>1. /\ tick' \subseteq open
      /\ \A p \in tick', q \in open \ tick' : ~Ahead(q, p)
  BY DEF Tick
<1>2. c \in Challenges /\ Admitted(c)
  BY <1>1 DEF Queued
<1>3. orch[c].dispatch # "FORCE_HOLD"
  BY <1>2 DEF Admitted
<1>4. ASSUME orch[c].dispatch # "FORCE_START",
             NEW d \in Queued, orch[d].dispatch = "FORCE_START", d \notin tick'
      PROVE  FALSE
  <2>1. d \in open
    BY <1>4 DEF Admitted
  <2>2. ~Ahead(d, c)
    BY <1>1, <1>4, <2>1
  <2>3. Rank(d) = 10000
    BY <1>4 DEF Rank
  <2>4. Rank(c) \in 0..9999
    <3>1. orch[c].dispatch # "FORCE_START" /\ c \in Challenges
      BY <1>2, <1>4
    <3>2. Score[c] \in 1..9999
      BY <3>1, ManagerAssumption
    <3>3. Rank(c) \in {0, 1000, Score[c]}
      BY <3>1 DEF Rank
    <3>4. QED BY <3>2, <3>3
  <2>5. Rank(d) > Rank(c)
    <3> DEFINE high == Rank(d)  low == Rank(c)
    <3>1. high = 10000 /\ low \in 0..9999
      BY <2>3, <2>4
    <3> HIDE DEF high, low
    <3>2. high > low
      BY <3>1
    <3>3. QED BY <3>2 DEF high, low
  <2>6. QED BY <2>2, <2>5 DEF Ahead
<1>5. QED BY <1>3, <1>4

(* The human decides before the plan and before the score, for any answers  *)
(* of the model, even to a question asked before the human's order.         *)
THEOREM TheHumanDecides == Spec => HumanDecides
<1>1. TypeOK /\ [Next]_vars =>
        [\A c \in Challenges : orch[c].locked /\ applied'[c] # applied[c] => applied'[c] = "none"]_vars
  BY LockedStep
<1>2. TypeOK /\ [Next]_vars =>
        [tick = {} /\ tick' # {} =>
           \A c \in tick' :
             /\ orch[c].dispatch # "FORCE_HOLD"
             /\ orch[c].dispatch # "FORCE_START" =>
                  \A d \in Queued : orch[d].dispatch = "FORCE_START" => d \in tick']_vars
  BY OnlyTickPicks, PickedStep
<1>3. ManagerInv => TypeOK
  BY DEF ManagerInv
<1>4. QED
  BY <1>1, <1>2, <1>3, RequestsAreDriven, PTL DEF Spec, HumanDecides, LockedIsUntouched, HumanFirst
-----------------------------------------------------------------------------
(* A request finds a run under way and is kept, or is served by a run of    *)
(* its own, or by one that is over at once.                                 *)
LEMMA RunIfNeededServes ==
  ASSUME TypeOK, NEW isManual, NEW m, RunIfNeeded(isManual, m)
  PROVE  Coordinator!Ask \/ Coordinator!Begin \/ Coordinator!Dismiss
<1>1. CASE run.at = "ask"
  <2>1. dirty' = TRUE /\ run' = run
    BY <1>1 DEF RunIfNeeded
  <2>2. (run.at = "ask") = (run'.at = "ask")
    BY <2>1
  <2>3. QED BY <2>1, <2>2, Zenon DEF Coordinator!Ask
<1>2. CASE run.at # "ask"
  <2>1. dirty' = FALSE /\ run' \in {[at |-> "ask", snap |-> Snapshot], Rest}
    BY <1>2 DEF RunIfNeeded
  <2>2. CASE run'.at = "ask"
    <3>1. ~(run.at = "ask") /\ (run'.at = "ask") = TRUE
      BY <1>2, <2>2
    <3>2. QED BY <2>1, <3>1, Zenon DEF Coordinator!Begin
  <2>3. CASE run'.at # "ask"
    <3>1. ~(run.at = "ask") /\ (run.at = "ask") = (run'.at = "ask")
      BY <1>2, <2>3
    <3>2. QED BY <2>1, <3>1, Zenon DEF Coordinator!Dismiss
  <2>4. QED BY <2>2, <2>3
<1>3. QED BY <1>1, <1>2

LEMMA EndServes ==
  ASSUME TypeOK, run.at = "ask", Over, UNCHANGED <<dirty, mode>>
  PROVE  Coordinator!End
<1>1. run'.at # "ask"
  BY DEF Over, Rest, TypeOK
<1>2. (run.at = "ask") /\ (run'.at = "ask") = FALSE
  BY <1>1
<1>3. (mode # "OFF") = (mode' # "OFF")
  OBVIOUS
<1>4. QED BY <1>2, <1>3, Zenon DEF Coordinator!End

(* Every step of the coordinator is one the promise allows, or changes      *)
(* nothing it speaks of.                                                    *)
LEMMA CoordinatorStep ==
  ASSUME TypeOK, [Next]_vars
  PROVE  [Coordinator!Next]_(Coordinator!pvars)
<1> DEFINE Still == UNCHANGED <<dirty, run, mode>>
<1>1. (mode' # "OFF") \in BOOLEAN
  OBVIOUS
<1>2. CASE Request
  <2>1. dirty' = TRUE /\ (run.at = "ask") = (run'.at = "ask")
    BY <1>2 DEF Request
  <2>2. QED BY <1>1, <2>1, Zenon DEF Coordinator!Ask, Coordinator!Next
<1>3. ASSUME NEW isManual, NEW m, RunIfNeeded(isManual, m)
      PROVE  Coordinator!Next
  BY <1>1, <1>3, RunIfNeededServes, Zenon DEF Coordinator!Next
<1>4. CASE ManualReplan
  BY <1>3, <1>4 DEF ManualReplan, RequestManual
<1>5. CASE TimerFires
  <2>1. CASE dirty
    BY <1>3, <1>5, <2>1 DEF TimerFires
  <2>2. CASE ~dirty
    BY <1>5, <2>2 DEF TimerFires, Coordinator!pvars
  <2>3. QED BY <2>1, <2>2
<1>6. CASE RunAgain
  BY <1>3, <1>6 DEF RunAgain
<1>7. CASE PlanMade \/ PlanFails
  <2>1. Coordinator!End
    BY <1>7, EndServes DEF PlanMade, PlanFails
  <2>2. QED BY <2>1, Zenon DEF Coordinator!Next
<1>8. CASE Still
  BY <1>8 DEF Coordinator!pvars
<1>9. ASSUME NEW c \in Challenges, SolverLeaves(c)
      PROVE  Coordinator!Next
  <2>1. dirty' = TRUE /\ (run.at = "ask") = (run'.at = "ask")
    BY <1>9 DEF SolverLeaves
  <2>2. QED BY <1>1, <2>1, Zenon DEF Coordinator!Ask, Coordinator!Next
<1>10. ASSUME NEW c \in Challenges, PatchOrchestration(c)
       PROVE  Coordinator!Next
  BY <1>3, <1>10 DEF PatchOrchestration, RequestManual
<1>11. CASE SetMode
  <2>1. CASE mode' = "OFF"
    <3>1. dirty' = dirty /\ (run.at = "ask") = (run'.at = "ask")
      BY <1>11, <2>1 DEF SetMode
    <3>2. QED BY <1>1, <3>1, Zenon DEF Coordinator!Next
  <2>2. CASE mode' # "OFF"
    BY <1>3, <1>11, <2>2 DEF SetMode, RequestManual
  <2>3. QED BY <2>1, <2>2
<1>12. CASE Restart
  <2>1. dirty' = TRUE /\ (run'.at = "ask") = FALSE /\ (mode # "OFF") = (mode' # "OFF")
    BY <1>12 DEF Restart, Rest
  <2>2. QED BY <2>1, Zenon DEF Coordinator!Restart, Coordinator!Next
<1>13. CASE PlanExpires \/ Tick
  BY <1>8, <1>13 DEF PlanExpires, Tick
<1>14. ASSUME NEW c \in Challenges, StartSolver(c) \/ StartFails(c)
       PROVE  Still
  BY <1>14 DEF StartSolver, StartFails
<1>15. CASE UNCHANGED vars
  BY <1>8, <1>15 DEF vars
<1>16. QED
  BY <1>2, <1>4, <1>5, <1>6, <1>7, <1>8, <1>9, <1>10, <1>11, <1>12, <1>13, <1>14, <1>15, Zenon DEF Next

(* The coordinator, with its debounce timer, its continuations and its      *)
(* restarts, does only what the promise of Replan allows: one run at a      *)
(* time, and no request lost. (That none waits forever is left to TLC.)     *)
THEOREM CoordinatorKeepsPromise == Spec => Coordinator!Spec
<1>1. Init => Coordinator!Init
  <2>1. ASSUME Init
        PROVE  dirty = TRUE /\ (run.at = "ask") = FALSE /\ (mode # "OFF") \in BOOLEAN
    BY <2>1 DEF Init, Rest
  <2>2. QED BY <2>1, Zenon DEF Coordinator!Init
<1>2. TypeOK /\ [Next]_vars => [Coordinator!Next]_(Coordinator!pvars)
  BY CoordinatorStep
<1>3. ManagerInv => TypeOK
  BY DEF ManagerInv
<1>4. QED BY <1>1, <1>2, <1>3, RequestsAreDriven, PTL DEF Spec, Coordinator!Spec
=============================================================================
