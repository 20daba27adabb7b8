---------------------------- MODULE WorkersProofs ----------------------------
(***************************************************************************)
(* Proofs about Workers, for any number of challenges, processes and       *)
(* slots. Whatever faults occur: types, leases and the LLM slots. The      *)
(* three are proved together, because that a slot taken is at most as many *)
(* as there are, and at least as many as are kept, need each other. While  *)
(* a crash is the only fault: one worker per challenge, stop waits answered*)
(* by the process they wait for, and, for an operator who leaves some of   *)
(* the operations alone, the places of the pool and the statuses.          *)
(***************************************************************************)
EXTENDS Workers, FiniteSetTheorems, TLAPS

Events == {"SCHEDULE", "SOLVER_ERROR", "SOLVER_STOPPED", "RECOVER_ACTIVE", "RECOVER_SUBMITTING",
           "PAUSE", "RESUME", "PARK", "UNPARK", "RESTART_SOLVER", "REOPEN",
           "SUBMIT_WRONG", "SUBMIT_CORRECT"}

LEMMA TargetInLifecycles ==
  ASSUME NEW s \in Lifecycles, NEW e \in Events
  PROVE  Target(s, e) \in Lifecycles
<1>1. CASE s = "QUEUED"     BY <1>1 DEF Target, Allowed, T, Lifecycles, Events
<1>2. CASE s = "ACTIVE"     BY <1>2 DEF Target, Allowed, T, Lifecycles, Events
<1>3. CASE s = "SUBMITTING" BY <1>3 DEF Target, Allowed, T, Lifecycles, Events
<1>4. CASE s = "PAUSED"     BY <1>4 DEF Target, Allowed, T, Lifecycles, Events
<1>5. CASE s = "PARKED"     BY <1>5 DEF Target, Allowed, T, Lifecycles, Events
<1>6. CASE s = "SOLVED"     BY <1>6 DEF Target, Allowed, T, Lifecycles, Events
<1>7. QED BY <1>1, <1>2, <1>3, <1>4, <1>5, <1>6 DEF Lifecycles

(* The two steps of a candidate that is submitted at once. *)
LEMMA SubmittedInLifecycles ==
  ASSUME NEW s \in Lifecycles, Allowed(s, "CANDIDATE_FOUND")
  PROVE  Target(Target(s, "CANDIDATE_FOUND"), "VERIFY_OK") \in Lifecycles
<1>1. CASE s = "QUEUED"     BY <1>1 DEF Target, Allowed, T, Lifecycles
<1>2. CASE s = "ACTIVE"     BY <1>2 DEF Target, Allowed, T, Lifecycles
<1>3. CASE s \notin {"QUEUED", "ACTIVE"} BY <1>3 DEF Allowed, T, Lifecycles
<1>4. QED BY <1>1, <1>2, <1>3

LEMMA AfterRejectInLifecycles ==
  ASSUME NEW s \in Lifecycles
  PROVE  /\ AfterReject(s) \in Lifecycles
         /\ Target(AfterReject(s), "SOLVER_STOPPED") \in Lifecycles
<1>1. AfterReject(s) \in Lifecycles
  BY TargetInLifecycles DEF AfterReject, Events
<1>2. QED BY <1>1, TargetInLifecycles DEF Events
-----------------------------------------------------------------------------
(* The slots.                                                              *)

SlotsOK == held \subseteq Challenges /\ taken \in 0..Slots /\ SlotsNotFreedTwice

(* A kept slot that goes, goes from both counts. *)
LEMMA Removed ==
  ASSUME SlotsOK, NEW c
  PROVE  LET t == IF c \in held THEN taken - 1 ELSE taken
         IN  t \in 0..Slots /\ Cardinality(held \ {c}) <= t
<1>1. IsFiniteSet(held)
  BY FS_Subset, WorkersAssumption DEF SlotsOK
<1>2. Cardinality(held) \in Nat
  BY <1>1, FS_CardinalityType
<1>3. Slots \in Nat
  BY WorkersAssumption
<1>4. Cardinality(held \ {c}) = IF c \in held THEN Cardinality(held) - 1 ELSE Cardinality(held)
  BY <1>1, FS_RemoveElement
<1>5. c \in held => Cardinality(held) >= 1
  <2>1. SUFFICES ASSUME c \in held PROVE Cardinality(held) # 0
    BY <1>2
  <2>2. QED BY <1>1, <2>1, FS_EmptySet
<1>6. QED BY <1>2, <1>3, <1>4, <1>5 DEF SlotsOK, SlotsNotFreedTwice

LEMMA ReleaseSlotKeeps ==
  ASSUME SlotsOK, NEW c, ReleaseSlot(c)
  PROVE  SlotsOK'
BY Removed DEF ReleaseSlot, SlotsOK, SlotsNotFreedTwice

LEMMA AdvanceKeeps ==
  ASSUME NEW rest \in SUBSET Challenges, NEW h \in SUBSET Challenges, NEW t \in 0..Slots,
         Cardinality(h) <= t, Advance(rest, h, t)
  PROVE  tick' \in Tick /\ SlotsOK'
<1>1. CASE tick' = Idle /\ held' = h /\ taken' = t
  BY <1>1 DEF Idle, Tick, SlotsOK, SlotsNotFreedTwice
<1>2. CASE /\ t < Slots
           /\ \E c \in rest :
                /\ tick' = [at |-> "ensure", chal |-> c, plan |-> rest \ {c}]
                /\ held' = h \cup {c} /\ taken' = t + 1
  <2>1. PICK c \in rest : /\ tick' = [at |-> "ensure", chal |-> c, plan |-> rest \ {c}]
                          /\ held' = h \cup {c} /\ taken' = t + 1
    BY <1>2
  <2>2. tick' \in Tick
    BY <2>1 DEF Tick
  <2>3. IsFiniteSet(h)
    BY FS_Subset, WorkersAssumption
  <2>4. Cardinality(h) \in Nat
    BY <2>3, FS_CardinalityType
  <2>5. Cardinality(h \cup {c}) <= Cardinality(h) + 1
    BY <2>3, <2>4, FS_AddElement
  <2>6. Slots \in Nat
    BY WorkersAssumption
  <2>7. taken' \in 0..Slots /\ held' \subseteq Challenges
    BY <1>2, <2>1, <2>6
  <2>8. Cardinality(held') \in Nat
    BY <2>1, <2>3, FS_AddElement, FS_CardinalityType
  <2>9. Cardinality(held') <= taken'
    BY <2>1, <2>4, <2>5, <2>8
  <2>10. QED BY <2>2, <2>7, <2>9 DEF SlotsOK, SlotsNotFreedTwice
<1>3. QED BY <1>1, <1>2 DEF Advance
-----------------------------------------------------------------------------
(* The processes and the leases.                                           *)

ProcOK == handle \in [Challenges -> Workers \cup {None}] /\ proc \in [Workers -> Process]

(* An order changes neither whose a process is nor whether it runs. *)
LEMMA TellKeeps ==
  ASSUME ProcOK, NEW c \in Challenges, NEW order \in {"abort", "kill"}, Tell(c, order)
  PROVE  /\ proc' \in [Workers -> Process]
         /\ \A w \in Workers : proc'[w].state = proc[w].state /\ proc'[w].chal = proc[w].chal
<1>1. CASE handle[c] = None
  BY <1>1 DEF Tell, ProcOK
<1>2. CASE handle[c] # None
  <2>1. handle[c] \in Workers
    BY <1>2 DEF ProcOK
  <2>2. PICK o \in {"abort", "kill"} : proc' = [proc EXCEPT ![handle[c]].order = o]
    BY <1>2 DEF Tell, ProcOK
  <2>3. QED BY <2>1, <2>2 DEF ProcOK, Process
<1>3. QED BY <1>1, <1>2

LEMMA ForkKeeps ==
  ASSUME ProcOK, NEW c, NEW w \in Workers, NEW caller \in {"tick", "handoff"},
         c \in Challenges \cup {None}, Fork(c, w, caller)
  PROVE  /\ ProcOK'
         /\ proc[w].state = "none"
         /\ \A v \in Workers \ {w} : proc'[v] = proc[v]
<1>1. proc' \in [Workers -> Process] /\ \A v \in Workers \ {w} : proc'[v] = proc[v]
  BY DEF Fork, ProcOK, Process
<1>2. handle' \in [Challenges -> Workers \cup {None}]
  BY DEF Fork, ProcOK
<1>3. QED BY <1>1, <1>2 DEF Fork, NoProcess, ProcOK

(* A lease survives a step that leaves its worker running.                  *)
LEMMA LeaseKept ==
  ASSUME LeaseHasWorker, UNCHANGED lease, lease \in [Challenges -> Workers \cup {None}],
         \A w \in Workers : proc[w].state = "running" =>
           proc'[w].state = "running" /\ proc'[w].chal = proc[w].chal
  PROVE  LeaseHasWorker'
BY DEF LeaseHasWorker
-----------------------------------------------------------------------------
(* The steps.                                                              *)

Inv == TypeOK /\ SlotsNotFreedTwice /\ LeaseHasWorker

LEMMA InvParts == Inv <=> /\ life \in [Challenges -> Lifecycles]
                          /\ lease \in [Challenges -> Workers \cup {None}]
                          /\ ProcOK /\ SlotsOK /\ LeaseHasWorker
                          /\ stopped \subseteq Challenges /\ tick \in Tick
                          /\ draining \subseteq Challenges /\ inflight \subseteq Challenges
BY DEF Inv, TypeOK, ProcOK, SlotsOK

(* The catch of the tick: a slot less, and on with the loop. *)
LEMMA CatchSlotKeeps ==
  ASSUME Inv, NEW c, CatchSlot(c)
  PROVE  tick' \in Tick /\ SlotsOK'
<1>1. SlotsOK /\ tick \in Tick
  BY InvParts
<1>2. tick.plan \in SUBSET Challenges /\ held \ {c} \in SUBSET Challenges
  BY <1>1 DEF Tick, SlotsOK
<1>3. LET t == IF c \in held THEN taken - 1 ELSE taken
      IN  t \in 0..Slots /\ Cardinality(held \ {c}) <= t
  BY <1>1, Removed
<1>4. QED BY <1>2, <1>3, AdvanceKeeps DEF CatchSlot

LEMMA TickStartKeeps == ASSUME Inv, TickStart PROVE Inv'
<1>1. PICK plan \in SUBSET {c \in Challenges : life[c] = "QUEUED"} : Advance(plan, held, taken)
  BY DEF TickStart
<1>2. SlotsOK
  BY InvParts
<1>3. tick' \in Tick /\ SlotsOK'
  BY <1>1, <1>2, AdvanceKeeps DEF SlotsOK, SlotsNotFreedTwice
<1>4. LeaseHasWorker'
  BY InvParts DEF TickStart, LeaseHasWorker
<1>5. QED BY <1>3, <1>4 DEF Inv, TypeOK, TickStart, SlotsOK

LEMMA StartFailsKeeps == ASSUME Inv, StartFails PROVE Inv'
<1>1. tick' \in Tick /\ SlotsOK'
  BY CatchSlotKeeps DEF StartFails
<1>2. life' \in [Challenges -> Lifecycles]
  BY TargetInLifecycles DEF StartFails, Inv, TypeOK, Events
<1>3. LeaseHasWorker'
  BY DEF StartFails, Inv, LeaseHasWorker
<1>4. QED BY <1>1, <1>2, <1>3 DEF Inv, TypeOK, StartFails, SlotsOK

LEMMA StartForksKeeps == ASSUME Inv, NEW w \in Workers, StartForks(w) PROVE Inv'
<1>1. ProcOK /\ tick \in Tick
  BY InvParts
<1>2. tick.chal \in Challenges \cup {None}
  BY <1>1 DEF Tick
<1>3. /\ ProcOK'
      /\ proc[w].state = "none"
      /\ \A v \in Workers \ {w} : proc'[v] = proc[v]
  BY <1>1, <1>2, ForkKeeps DEF StartForks
<1>4. tick' \in Tick
  BY <1>1 DEF StartForks, Tick
<1>5. life' \in [Challenges -> Lifecycles]
  BY TargetInLifecycles DEF StartForks, Inv, TypeOK, Events
<1>6. LeaseHasWorker'
  BY <1>3, LeaseKept DEF StartForks, Inv, TypeOK
<1>7. QED BY <1>3, <1>4, <1>5, <1>6 DEF Inv, TypeOK, StartForks, ProcOK, SlotsNotFreedTwice

LEMMA HandoffForksKeeps ==
  ASSUME Inv, NEW c \in Challenges, NEW w \in Workers, HandoffForks(c, w)
  PROVE  Inv'
<1>1. ProcOK
  BY InvParts
<1>2. /\ ProcOK'
      /\ proc[w].state = "none"
      /\ \A v \in Workers \ {w} : proc'[v] = proc[v]
  BY <1>1, ForkKeeps DEF HandoffForks
<1>3. LeaseHasWorker'
  BY <1>2, LeaseKept DEF HandoffForks, Inv, TypeOK
<1>4. QED BY <1>2, <1>3 DEF Inv, TypeOK, HandoffForks, ProcOK, SlotsNotFreedTwice

(* A worker that gets ready while somebody awaits it holds the lease of its *)
(* challenge from then on, whoever held it before.                          *)
LEMMA ReadyKeeps == ASSUME Inv, NEW w \in Workers, Ready(w) PROVE Inv'
<1>1. /\ proc' \in [Workers -> Process]
      /\ proc'[w].state = "running" /\ proc'[w].chal = proc[w].chal
      /\ \A v \in Workers \ {w} : proc'[v] = proc[v]
  BY DEF Ready, Inv, TypeOK, Process
<1>2. lease' \in [Challenges -> Workers \cup {None}]
  BY DEF Ready, Inv, TypeOK
<1>3. tick' \in Tick /\ SlotsOK'
  <2>1. CASE proc[w].awaited = "tick"
    <3>1. SlotsOK /\ tick.plan \in SUBSET Challenges
      BY InvParts DEF Tick
    <3>2. QED BY <2>1, <3>1, AdvanceKeeps DEF Ready, SlotsOK, SlotsNotFreedTwice
  <2>2. CASE proc[w].awaited # "tick"
    <3>1. UNCHANGED <<tick, held, taken>>
      BY <2>2 DEF Ready
    <3>2. QED BY <3>1, InvParts DEF SlotsOK, SlotsNotFreedTwice
  <2>3. QED BY <2>1, <2>2
<1>4. LeaseHasWorker'
  <2>1. CASE UNCHANGED lease
    BY <1>1, <2>1, LeaseKept DEF Inv, TypeOK
  <2>2. CASE lease' = [lease EXCEPT ![proc[w].chal] = w]
    <3>1. SUFFICES ASSUME NEW c \in Challenges, lease'[c] # None
                   PROVE  proc'[lease'[c]].state = "running" /\ proc'[lease'[c]].chal = c
      BY DEF LeaseHasWorker
    <3>2. CASE c = proc[w].chal
      BY <1>1, <2>2, <3>2 DEF Inv, TypeOK
    <3>3. CASE c # proc[w].chal
      <4>1. lease'[c] = lease[c] /\ lease[c] \in Workers
        BY <2>2, <3>1, <3>3 DEF Inv, TypeOK
      <4>2. proc[lease[c]].state = "running" /\ proc[lease[c]].chal = c
        BY <3>1, <4>1 DEF Inv, LeaseHasWorker
      <4>3. QED BY <1>1, <3>3, <4>1, <4>2
    <3>4. QED BY <3>2, <3>3
  <2>3. QED BY <2>1, <2>2 DEF Ready
<1>5. QED BY <1>1, <1>2, <1>3, <1>4 DEF Inv, TypeOK, Ready, SlotsOK

(* The timer of a start kills the process, which keeps whatever lease it    *)
(* has until its exit; the timer of one that is gone finds no lease of it.  *)
LEMMA StartTimeoutKeeps == ASSUME Inv, NEW w \in Workers, StartTimeout(w) PROVE Inv'
<1>1. /\ proc' \in [Workers -> Process]
      /\ \A v \in Workers \ {w} : proc'[v] = proc[v]
      /\ proc[w].state # "none" => proc'[w].state = proc[w].state /\ proc'[w].chal = proc[w].chal
  <2>1. CASE proc[w].state = "none"
    BY <2>1 DEF StartTimeout, Inv, TypeOK, Process, NoProcess
  <2>2. CASE proc[w].state # "none"
    BY <2>2 DEF StartTimeout, Inv, TypeOK, Process
  <2>3. QED BY <2>1, <2>2
<1>2. handle' \in [Challenges -> Workers \cup {None}]
  BY DEF StartTimeout, Inv, TypeOK
<1>3. life' \in [Challenges -> Lifecycles]
  BY TargetInLifecycles DEF StartTimeout, Inv, TypeOK, Events
<1>4. tick' \in Tick /\ SlotsOK'
  <2>1. CASE proc[w].awaited = "tick"
    BY <2>1, CatchSlotKeeps DEF StartTimeout
  <2>2. CASE proc[w].awaited # "tick"
    <3>1. UNCHANGED <<tick, held, taken>>
      BY <2>2 DEF StartTimeout
    <3>2. QED BY <3>1, InvParts DEF SlotsOK, SlotsNotFreedTwice
  <2>3. QED BY <2>1, <2>2
<1>5. LeaseHasWorker'
  BY <1>1, LeaseKept DEF StartTimeout, Inv, TypeOK
<1>6. QED BY <1>1, <1>2, <1>3, <1>4, <1>5 DEF Inv, TypeOK, StartTimeout, SlotsOK

LEMMA RequeueKeeps ==
  ASSUME life \in [Challenges -> Lifecycles], NEW c, Requeue(c)
  PROVE  life' \in [Challenges -> Lifecycles]
BY TargetInLifecycles DEF Requeue, Events

(* With a worker its challenge's lease goes, so every other lease names a   *)
(* worker of another challenge.                                             *)
LEMMA ExitKeeps == ASSUME Inv, NEW w \in Workers, Exit(w) PROVE Inv'
<1>1. /\ proc' \in [Workers -> Process]
      /\ \A v \in Workers \ {w} : proc'[v] = proc[v]
  <2>1. Forget(w) \in Process
    BY DEF Forget, NoProcess, Inv, TypeOK, Process
  <2>2. QED BY <2>1 DEF Exit, Inv, TypeOK
<1>2. /\ handle' \in [Challenges -> Workers \cup {None}]
      /\ lease' \in [Challenges -> Workers \cup {None}]
  BY DEF Exit, DropLease, Inv, TypeOK
<1>3. life' \in [Challenges -> Lifecycles]
  BY RequeueKeeps DEF Exit, Inv, TypeOK
<1>4. SlotsOK'
  BY InvParts, ReleaseSlotKeeps DEF Exit
<1>5. LeaseHasWorker'
  <2>1. SUFFICES ASSUME NEW c \in Challenges, lease'[c] # None
                 PROVE  proc'[lease'[c]].state = "running" /\ proc'[lease'[c]].chal = c
    BY DEF LeaseHasWorker
  <2>2. c # proc[w].chal /\ lease'[c] = lease[c]
    BY <2>1 DEF Exit, DropLease, Inv, TypeOK
  <2>3. lease[c] \in Workers /\ proc[lease[c]].state = "running" /\ proc[lease[c]].chal = c
    BY <2>1, <2>2 DEF Inv, TypeOK, LeaseHasWorker
  <2>4. QED BY <1>1, <2>2, <2>3
<1>6. QED BY <1>1, <1>2, <1>3, <1>4, <1>5 DEF Inv, TypeOK, Exit, SlotsOK

LEMMA LostKeeps == ASSUME Inv, NEW c \in Challenges, Lost(c) PROVE Inv'
<1>1. handle[c] \in Workers
  BY DEF Lost, Inv, TypeOK
<1>2. /\ proc' \in [Workers -> Process]
      /\ \A v \in Workers : proc'[v].state = proc[v].state /\ proc'[v].chal = proc[v].chal
  BY <1>1 DEF Lost, Inv, TypeOK, Process
<1>3. /\ handle' \in [Challenges -> Workers \cup {None}]
      /\ lease' \in [Challenges -> Workers \cup {None}]
  BY DEF Lost, DropLease, Inv, TypeOK
<1>4. life' \in [Challenges -> Lifecycles]
  BY RequeueKeeps DEF Lost, Inv, TypeOK
<1>5. SlotsOK'
  BY InvParts, ReleaseSlotKeeps DEF Lost
<1>6. LeaseHasWorker'
  <2>1. SUFFICES ASSUME NEW d \in Challenges, lease'[d] # None
                 PROVE  proc'[lease'[d]].state = "running" /\ proc'[lease'[d]].chal = d
    BY DEF LeaseHasWorker
  <2>2. lease'[d] = lease[d] /\ lease[d] \in Workers
    BY <2>1 DEF Lost, DropLease, Inv, TypeOK
  <2>3. QED BY <1>2, <2>1, <2>2 DEF Inv, LeaseHasWorker
<1>7. QED BY <1>2, <1>3, <1>4, <1>5, <1>6 DEF Inv, TypeOK, Lost, SlotsOK

LEMMA HandoffKeeps ==
  ASSUME Inv, NEW c \in Challenges, Handoff(c) \/ HandoffFails(c)
  PROVE  Inv'
<1>1. /\ proc' \in [Workers -> Process]
      /\ \A w \in Workers : proc'[w].state = proc[w].state /\ proc'[w].chal = proc[w].chal
  BY InvParts, TellKeeps DEF Handoff, HandoffFails
<1>2. LeaseHasWorker'
  BY <1>1, LeaseKept DEF Handoff, HandoffFails, Inv, TypeOK
<1>3. CASE Handoff(c)
  BY <1>1, <1>2, <1>3 DEF Inv, TypeOK, Handoff, SlotsNotFreedTwice
<1>4. CASE HandoffFails(c)
  BY <1>1, <1>2, <1>4 DEF Inv, TypeOK, HandoffFails, SlotsNotFreedTwice
<1>5. QED BY <1>3, <1>4

LEMMA StopWorkerKeeps ==
  ASSUME Inv, NEW c \in Challenges, NEW order \in {"abort", "kill"}, StopWorker(c, order),
         UNCHANGED <<lease, handle, tick, draining>>,
         life' \in [Challenges -> Lifecycles], inflight' \subseteq Challenges
  PROVE  Inv'
<1>1. /\ proc' \in [Workers -> Process]
      /\ \A w \in Workers : proc'[w].state = proc[w].state /\ proc'[w].chal = proc[w].chal
  BY InvParts, TellKeeps DEF StopWorker
<1>2. SlotsOK'
  BY InvParts, ReleaseSlotKeeps DEF StopWorker
<1>3. LeaseHasWorker'
  BY <1>1, LeaseKept DEF Inv, TypeOK
<1>4. QED BY <1>1, <1>2, <1>3 DEF Inv, TypeOK, StopWorker, SlotsOK

LEMMA LifeKeeps ==
  ASSUME Inv, UNCHANGED <<lease, handle, proc, held, taken, stopped, tick, draining>>,
         life' \in [Challenges -> Lifecycles], inflight' \subseteq Challenges
  PROVE  Inv'
BY DEF Inv, TypeOK, LeaseHasWorker, SlotsNotFreedTwice

LEMMA HumanKeeps ==
  ASSUME Inv, NEW c \in Challenges,
         \/ Pause(c) \/ Resume(c) \/ Park(c) \/ Unpark(c) \/ RestartSolver(c)
         \/ FlagFound(c) \/ Wrong(c) \/ Correct(c) \/ Unknown(c) \/ Accept(c)
         \/ Reject(c) \/ ResumeSolving(c)
  PROVE  Inv'
<1> life \in [Challenges -> Lifecycles] /\ inflight \subseteq Challenges
  BY DEF Inv, TypeOK
<1>1. CASE Pause(c)
  BY <1>1, TargetInLifecycles, StopWorkerKeeps DEF Pause, Events
<1>2. CASE Resume(c)
  BY <1>2, TargetInLifecycles, LifeKeeps DEF Resume, Events
<1>3. CASE Park(c)
  BY <1>3, TargetInLifecycles, StopWorkerKeeps DEF Park, Events
<1>4. CASE Unpark(c)
  BY <1>4, TargetInLifecycles, LifeKeeps DEF Unpark, Events
<1>5. CASE RestartSolver(c)
  BY <1>5, TargetInLifecycles, StopWorkerKeeps DEF RestartSolver, Events
<1>6. CASE FlagFound(c)
  BY <1>6, SubmittedInLifecycles, LifeKeeps DEF FlagFound
<1>7. CASE Wrong(c)
  BY <1>7, TargetInLifecycles, LifeKeeps DEF Wrong, Events
<1>8. CASE Correct(c)
  BY <1>8, TargetInLifecycles, StopWorkerKeeps DEF Correct, Events
<1>9. CASE Unknown(c)
  BY <1>9, LifeKeeps DEF Unknown
<1>10. CASE Accept(c)
  BY <1>10, StopWorkerKeeps DEF Accept, Lifecycles
<1>11. CASE Reject(c)
  BY <1>11, AfterRejectInLifecycles, LifeKeeps DEF Reject
<1>12. CASE ResumeSolving(c)
  BY <1>12, TargetInLifecycles, LifeKeeps DEF ResumeSolving, Events
<1>13. QED
  BY <1>1, <1>2, <1>3, <1>4, <1>5, <1>6, <1>7, <1>8, <1>9, <1>10, <1>11, <1>12
-----------------------------------------------------------------------------
LEMMA Initially == Init => Inv
<1>1. SUFFICES ASSUME Init PROVE Inv
  OBVIOUS
<1>2. Slots \in Nat
  BY WorkersAssumption
<1>3. TypeOK
  BY <1>1, <1>2 DEF Init, TypeOK, Lifecycles, NoProcess, Process, Idle, Tick
<1>4. SlotsNotFreedTwice
  BY <1>1, FS_EmptySet DEF Init, SlotsNotFreedTwice
<1>5. LeaseHasWorker
  BY <1>1 DEF Init, LeaseHasWorker
<1>6. QED BY <1>3, <1>4, <1>5 DEF Inv

LEMMA Invariance == Spec => []Inv
<1>1. Inv /\ [Next]_vars => Inv'
  <2>1. SUFFICES ASSUME Inv, [Next]_vars PROVE Inv'
    OBVIOUS
  <2>2. CASE TickStart
    BY <2>1, <2>2, TickStartKeeps
  <2>3. CASE StartFails
    BY <2>1, <2>3, StartFailsKeeps
  <2>4. CASE WorkerSteps
    BY <2>1, <2>4, StartForksKeeps, ReadyKeeps, StartTimeoutKeeps, ExitKeeps, HandoffForksKeeps
    DEF WorkerSteps
  <2>5. CASE ChallengeSteps
    BY <2>1, <2>5, LostKeeps, HandoffKeeps, HumanKeeps DEF ChallengeSteps
  <2>6. CASE UNCHANGED vars
    BY <2>1, <2>6 DEF vars, Inv, TypeOK, SlotsNotFreedTwice, LeaseHasWorker
  <2>7. QED BY <2>1, <2>2, <2>3, <2>4, <2>5, <2>6 DEF Next
<1>2. QED BY <1>1, Initially, PTL DEF Spec

(* Every variable keeps its type, and the semaphore never hands out more    *)
(* LLM slots than there are, nor gets back more than it gave.               *)
THEOREM WorkersType == Spec => []TypeOK
BY Invariance, PTL DEF Inv

(* No row of worker_leases outlives its worker, and none names a worker of  *)
(* another challenge: neither a late exit event nor the startup timeout nor *)
(* a handoff leaves one behind.                                             *)
THEOREM LeasesHaveWorkers == Spec => []LeaseHasWorker
BY Invariance, PTL DEF Inv

(* However the exit of a worker, its loss, the human and the catch of the   *)
(* scheduler tick follow each other, a slot is given back once.             *)
THEOREM SlotsAreReleasedOnce == Spec => []SlotsNotFreedTwice
BY Invariance, PTL DEF Inv

(* The pool stays sound: types, leases and slots together.                  *)
THEOREM WorkersAreSound == Spec => []WorkersInv
BY Invariance, PTL DEF Inv, WorkersInv
-----------------------------------------------------------------------------
(* The pool of workers, when they may crash at any moment but are neither  *)
(* slow, nor lost, nor handed off. A live process is the one its challenge  *)
(* has a handle of; only the tick awaits, and only one.                     *)

ProcessesFit ==
  /\ \A w \in Workers : proc[w].state # "none" =>
       proc[w].chal \in Challenges /\ handle[proc[w].chal] = w
  /\ \A c \in Challenges : handle[c] # None =>
       proc[handle[c]].state # "none" /\ proc[handle[c]].chal = c

AwaitedFit ==
  \A w \in Workers : proc[w].awaited # "no" =>
    /\ proc[w].awaited = "tick" /\ tick.at = "ready" /\ proc[w].chal = tick.chal
    /\ proc[w].state = "none" => handle[tick.chal] = None
    /\ \A v \in Workers : proc[v].awaited # "no" => v = w

TickFits ==
  /\ tick.at = "idle" => tick = Idle
  /\ tick.at # "idle" => tick.chal \in Challenges \ tick.plan

Placed(h) == {c \in Challenges : h[c] # None}

(* The places that are taken, or that the tick will take. *)
Bound(h, t) == Cardinality(Placed(h)) + Cardinality(t.plan) + (IF t.at = "ensure" THEN 1 ELSE 0)

RoomFits == Bound(handle, tick) <= Concurrency

Pool == ProcessesFit /\ AwaitedFit /\ TickFits /\ RoomFits /\ draining = {}

OnlyCrashes == Faults \subseteq {"crash"}

LEMMA PlacedFinite ==
  \A h : /\ IsFiniteSet(Placed(h)) /\ Cardinality(Placed(h)) \in Nat
         /\ \A g : Placed(g) \subseteq Placed(h) => Cardinality(Placed(g)) <= Cardinality(Placed(h))
<1>1. TAKE h
<1>2. IsFiniteSet(Placed(h)) /\ Cardinality(Placed(h)) \in Nat
  BY FS_Subset, FS_CardinalityType, WorkersAssumption DEF Placed
<1>3. QED  BY <1>2, FS_Subset

LEMMA PlanFinite ==
  ASSUME NEW plan \in SUBSET Challenges
  PROVE  IsFiniteSet(plan) /\ Cardinality(plan) \in Nat
BY FS_Subset, FS_CardinalityType, WorkersAssumption

(* The loop of the tick takes no more places than its list has. *)
LEMMA AdvanceFits ==
  ASSUME NEW rest \in SUBSET Challenges, NEW h, NEW t, Advance(rest, h, t)
  PROVE  /\ TickFits' /\ tick'.at # "ready" /\ tick'.plan \in SUBSET Challenges
         /\ Cardinality(tick'.plan) + (IF tick'.at = "ensure" THEN 1 ELSE 0) <= Cardinality(rest)
<1>1. IsFiniteSet(rest) /\ Cardinality(rest) \in Nat  BY PlanFinite
<1>2. CASE tick' = Idle
  <2>1. tick'.at = "idle" /\ tick'.plan = {} /\ Cardinality(tick'.plan) = 0
    BY <1>2, FS_EmptySet DEF Idle
  <2>2. QED  BY <1>1, <1>2, <2>1 DEF TickFits
<1>3. CASE \E c \in rest : tick' = [at |-> "ensure", chal |-> c, plan |-> rest \ {c}]
  <2>1. PICK c \in rest : tick' = [at |-> "ensure", chal |-> c, plan |-> rest \ {c}]  BY <1>3
  <2>2. tick'.at = "ensure" /\ tick'.chal = c /\ tick'.plan = rest \ {c}  BY <2>1
  <2>3. Cardinality(rest \ {c}) = Cardinality(rest) - 1  BY <1>1, FS_RemoveElement
  <2>4. QED  BY <1>1, <2>2, <2>3 DEF TickFits
<1>4. QED  BY <1>2, <1>3 DEF Advance

(* Giving orders touches nothing of this. *)
LEMMA PoolStays ==
  ASSUME Pool, UNCHANGED <<handle, tick, draining>>,
         \A w \in Workers : /\ proc'[w].state = proc[w].state /\ proc'[w].chal = proc[w].chal
                            /\ proc'[w].awaited = proc[w].awaited,
         handle \in [Challenges -> Workers \cup {None}]
  PROVE  Pool'
<1>1. ProcessesFit'  BY DEF Pool, ProcessesFit
<1>2. AwaitedFit'  BY DEF Pool, AwaitedFit
<1>3. TickFits' /\ RoomFits'  BY DEF Pool, TickFits, RoomFits
<1>4. QED  BY <1>1, <1>2, <1>3 DEF Pool

LEMMA TellAwaits ==
  ASSUME ProcOK, NEW c \in Challenges, NEW order \in {"abort", "kill"}, Tell(c, order)
  PROVE  \A w \in Workers : /\ proc'[w].state = proc[w].state /\ proc'[w].chal = proc[w].chal
                            /\ proc'[w].awaited = proc[w].awaited
<1>1. CASE handle[c] = None  BY <1>1 DEF Tell
<1>2. CASE handle[c] # None
  <2>1. PICK o : proc' = [proc EXCEPT ![handle[c]].order = o]  BY <1>2 DEF Tell
  <2>2. QED  BY <2>1 DEF ProcOK, Process
<1>3. QED  BY <1>1, <1>2

(* The loop moves on, and nobody is awaited. *)
LEMMA PoolAdvances ==
  ASSUME Inv, Pool, UNCHANGED draining,
         handle' \in [Challenges -> Workers \cup {None}], Placed(handle') \subseteq Placed(handle),
         ProcessesFit', \A w \in Workers : proc'[w].awaited = "no",
         NEW h, NEW t, Advance(tick.plan, h, t)
  PROVE  Pool'
<1>1. tick.plan \in SUBSET Challenges  BY InvParts DEF Tick
<1>2. /\ TickFits' /\ tick'.plan \in SUBSET Challenges
      /\ Cardinality(tick'.plan) + (IF tick'.at = "ensure" THEN 1 ELSE 0) <= Cardinality(tick.plan)
  BY <1>1, AdvanceFits
<1>3. RoomFits'
  <2>1. Cardinality(Placed(handle')) \in Nat /\ Cardinality(Placed(handle)) \in Nat
        /\ Cardinality(Placed(handle')) <= Cardinality(Placed(handle))
    BY PlacedFinite
  <2>2. Cardinality(tick.plan) \in Nat /\ Cardinality(tick'.plan) \in Nat  BY <1>1, <1>2, PlanFinite
  <2>3. Bound(handle, tick) <= Concurrency  BY DEF Pool, RoomFits
  <2>4. Concurrency \in Nat  BY WorkersAssumption
  <2>5. Bound(handle', tick') <= Concurrency  BY <1>2, <2>1, <2>2, <2>3, <2>4 DEF Bound
  <2>6. QED  BY <2>5 DEF RoomFits
<1>4. AwaitedFit'  BY DEF AwaitedFit
<1>5. QED  BY <1>2, <1>3, <1>4 DEF Pool

(* Nobody is awaited while the tick awaits the contest, or is idle. *)
LEMMA NobodyAwaited ==
  ASSUME Inv, Pool, tick.at # "ready", NEW w \in Workers
  PROVE  proc[w].awaited = "no"
BY DEF Pool, AwaitedFit

LEMMA PoolTickStart == ASSUME Inv, Pool, TickStart PROVE Pool'
<1>1. PICK plan \in SUBSET {c \in Challenges : life[c] = "QUEUED"} :
        Cardinality(plan) <= Room /\ Advance(plan, held, taken)
  BY DEF TickStart
<1>2. plan \in SUBSET Challenges  BY <1>1
<1>3. /\ TickFits' /\ tick'.plan \in SUBSET Challenges /\ tick'.at # "ready"
      /\ Cardinality(tick'.plan) + (IF tick'.at = "ensure" THEN 1 ELSE 0) <= Cardinality(plan)
  BY <1>1, <1>2, AdvanceFits
<1>4. UNCHANGED <<handle, proc, draining>> /\ tick.at = "idle"  BY DEF TickStart, Idle
<1>5. RoomFits'
  <2>1. Cardinality(Placed(handle)) \in Nat  BY PlacedFinite
  <2>2. Cardinality(plan) \in Nat /\ Cardinality(tick'.plan) \in Nat  BY <1>2, <1>3, PlanFinite
  <2>3. Cardinality(plan) <= Concurrency - Cardinality(Placed(handle))
    BY <1>1 DEF Room, HandleCount, Placed
  <2>4. Concurrency \in Nat  BY WorkersAssumption
  <2>5. Bound(handle', tick') <= Concurrency  BY <1>3, <1>4, <2>1, <2>2, <2>3, <2>4 DEF Bound
  <2>6. QED  BY <2>5 DEF RoomFits
<1>6. ProcessesFit'  BY <1>4 DEF Pool, ProcessesFit
<1>7. AwaitedFit'  BY <1>4, NobodyAwaited DEF AwaitedFit
<1>8. QED  BY <1>3, <1>4, <1>5, <1>6, <1>7 DEF Pool

LEMMA PoolStartFails == ASSUME Inv, Pool, StartFails PROVE Pool'
<1>1. UNCHANGED <<handle, proc, draining>> /\ tick.at = "ensure"  BY DEF StartFails
<1>2. PICK h, t : Advance(tick.plan, h, t)  BY DEF StartFails, CatchSlot
<1>3. ProcessesFit'  BY <1>1 DEF Pool, ProcessesFit
<1>4. \A w \in Workers : proc'[w].awaited = "no"  BY <1>1, NobodyAwaited
<1>5. handle' \in [Challenges -> Workers \cup {None}]  BY <1>1, InvParts DEF ProcOK
<1>6. QED  BY <1>1, <1>2, <1>3, <1>4, <1>5, PoolAdvances

LEMMA PoolStartForks == ASSUME Inv, Pool, NEW w \in Workers, StartForks(w) PROVE Pool'
<1>1. PICK c \in Challenges : c = tick.chal /\ c \notin tick.plan
  BY DEF StartForks, Pool, TickFits
<1>2. /\ tick.at = "ensure" /\ handle[c] = None /\ tick' = [tick EXCEPT !.at = "ready"]
      /\ Fork(c, w, "tick") /\ UNCHANGED draining
  BY <1>1 DEF StartForks
<1>3. tick \in Tick /\ ProcOK  BY InvParts
<1>4. tick'.at = "ready" /\ tick'.chal = c /\ tick'.plan = tick.plan  BY <1>1, <1>2, <1>3 DEF Tick
<1>5. /\ proc[w] = NoProcess
      /\ proc'[w] = [state |-> "starting", chal |-> c, order |-> "none", awaited |-> "tick"]
      /\ \A v \in Workers \ {w} : proc'[v] = proc[v]
  BY <1>2, <1>3 DEF Fork, ProcOK
<1>6. /\ proc'[w].state = "starting" /\ proc'[w].chal = c /\ proc'[w].awaited = "tick"
      /\ proc[w].state = "none"
  BY <1>5 DEF NoProcess
<1>7. handle'[c] = w /\ \A d \in Challenges \ {c} : handle'[d] = handle[d]
  BY <1>2, <1>3 DEF Fork, ProcOK
<1>8. None \notin Workers /\ None \notin Challenges  BY WorkersAssumption
<1>9. ProcessesFit'
  <2>1. ASSUME NEW v \in Workers, proc'[v].state # "none"
        PROVE  proc'[v].chal \in Challenges /\ handle'[proc'[v].chal] = v
    <3>1. CASE v = w  BY <1>6, <1>7, <3>1
    <3>2. CASE v # w
      <4>1. proc[v].chal \in Challenges /\ handle[proc[v].chal] = v
        BY <1>5, <2>1, <3>2 DEF Pool, ProcessesFit
      <4>2. proc[v].chal # c  BY <1>2, <1>8, <4>1
      <4>3. QED  BY <1>5, <1>7, <3>2, <4>1, <4>2
    <3>3. QED  BY <3>1, <3>2
  <2>2. ASSUME NEW d \in Challenges, handle'[d] # None
        PROVE  proc'[handle'[d]].state # "none" /\ proc'[handle'[d]].chal = d
    <3>1. CASE d = c  BY <1>6, <1>7, <3>1
    <3>2. CASE d # c
      <4>1. /\ handle'[d] = handle[d] /\ handle[d] \in Workers
            /\ proc[handle[d]].state # "none" /\ proc[handle[d]].chal = d
        BY <1>3, <1>7, <2>2, <3>2 DEF Pool, ProcessesFit, ProcOK
      <4>2. handle[d] # w  BY <1>6, <4>1
      <4>3. QED  BY <1>5, <4>1, <4>2
    <3>3. QED  BY <3>1, <3>2
  <2>3. QED  BY <2>1, <2>2 DEF ProcessesFit
<1>10. AwaitedFit'
  <2>1. \A v \in Workers \ {w} : proc'[v].awaited = "no"  BY <1>2, <1>5, NobodyAwaited
  <2>2. QED  BY <1>4, <1>6, <2>1 DEF AwaitedFit
<1>11. RoomFits'
  <2>1. Placed(handle') = Placed(handle) \cup {c}  BY <1>7, <1>8, <1>3 DEF Placed, ProcOK
  <2>2. c \notin Placed(handle)  BY <1>2 DEF Placed
  <2>3. IsFiniteSet(Placed(handle)) /\ Cardinality(Placed(handle)) \in Nat  BY PlacedFinite
  <2>4. Cardinality(Placed(handle')) = Cardinality(Placed(handle)) + 1
    BY <2>1, <2>2, <2>3, FS_AddElement
  <2>5. Cardinality(tick.plan) \in Nat  BY <1>3, PlanFinite DEF Tick
  <2>6. Bound(handle, tick) <= Concurrency  BY DEF Pool, RoomFits
  <2>7. Concurrency \in Nat  BY WorkersAssumption
  <2>8. Bound(handle', tick') <= Concurrency  BY <1>2, <1>4, <2>3, <2>4, <2>5, <2>6, <2>7 DEF Bound
  <2>9. QED  BY <2>8 DEF RoomFits
<1>12. TickFits'  BY <1>1, <1>4 DEF TickFits
<1>13. QED  BY <1>2, <1>9, <1>10, <1>11, <1>12 DEF Pool

LEMMA PoolReady == ASSUME Inv, Pool, NEW w \in Workers, Ready(w) PROVE Pool'
<1>1. ProcOK  BY InvParts
<1>2. /\ proc'[w].state = "running" /\ proc'[w].chal = proc[w].chal /\ proc'[w].awaited = "no"
      /\ proc[w].state = "starting"
      /\ \A v \in Workers \ {w} : proc'[v] = proc[v]
      /\ UNCHANGED <<handle, draining>>
  BY <1>1 DEF Ready, ProcOK, Process
<1>3. ProcessesFit'
  <2>1. \A v \in Workers : proc'[v].chal = proc[v].chal /\ (proc'[v].state # "none" <=> proc[v].state # "none")
    BY <1>2
  <2>2. QED  BY <1>1, <1>2, <2>1 DEF Pool, ProcessesFit, ProcOK
<1>4. handle' \in [Challenges -> Workers \cup {None}]  BY <1>1, <1>2 DEF ProcOK
<1>5. CASE proc[w].awaited = "no"
  <2>1. tick' = tick  BY <1>5 DEF Ready
  <2>2. \A v \in Workers : /\ proc'[v].chal = proc[v].chal /\ proc'[v].awaited = proc[v].awaited
                           /\ proc'[v].state = "none" => proc[v].state = "none"
    BY <1>2, <1>5
  <2>3. AwaitedFit'  BY <1>2, <2>1, <2>2 DEF Pool, AwaitedFit
  <2>4. TickFits' /\ RoomFits'  BY <1>2, <2>1 DEF Pool, TickFits, RoomFits
  <2>5. QED  BY <1>2, <1>3, <2>3, <2>4 DEF Pool
<1>6. CASE proc[w].awaited # "no"
  <2>1. proc[w].awaited = "tick" /\ \A v \in Workers : proc[v].awaited # "no" => v = w
    BY <1>6 DEF Pool, AwaitedFit
  <2>2. Advance(tick.plan, held, taken)  BY <1>6, <2>1 DEF Ready
  <2>3. \A v \in Workers : proc'[v].awaited = "no"  BY <1>2, <2>1
  <2>4. QED  BY <1>2, <1>3, <1>4, <2>2, <2>3, PoolAdvances
<1>7. QED  BY <1>5, <1>6

(* A handle that goes, whoever it stands for. *)
LEMMA PlacedLess ==
  ASSUME NEW c, handle' = [handle EXCEPT ![c] = None], handle \in [Challenges -> Workers \cup {None}]
  PROVE  Placed(handle') \subseteq Placed(handle) /\ handle' \in [Challenges -> Workers \cup {None}]
BY DEF Placed

(* The timer of a start: without slow workers, of one that is gone, whose   *)
(* challenge the tick still waits for and has no handle for.               *)
LEMMA PoolTimeout ==
  ASSUME OnlyCrashes, Inv, Pool, NEW w \in Workers, StartTimeout(w)
  PROVE  Pool' /\ proc[w].awaited = "tick" /\ proc[w].chal = tick.chal /\ tick.at = "ready"
         /\ handle[tick.chal] = None /\ proc[w].state = "none" /\ proc'[w] = NoProcess
         /\ \A v \in Workers \ {w} : proc'[v] = proc[v]
<1>1. ProcOK  BY InvParts
<1>2. proc[w].awaited # "no" /\ proc[w].state = "none"
  BY DEF StartTimeout, OnlyCrashes
<1>3. PICK c : c = proc[w].chal  OBVIOUS
<1>4. proc[w].awaited = "tick" /\ tick.at = "ready" /\ tick.chal = c
      /\ \A v \in Workers : proc[v].awaited # "no" => v = w
  BY <1>2, <1>3 DEF Pool, AwaitedFit
<1>5. c \in Challenges  BY <1>4 DEF Pool, TickFits
<1>6. proc'[w] = NoProcess /\ \A v \in Workers \ {w} : proc'[v] = proc[v]
  BY <1>1, <1>2 DEF StartTimeout, ProcOK
<1>7. handle' = [handle EXCEPT ![c] = None] /\ UNCHANGED draining
      /\ CatchSlot(c)
  BY <1>3, <1>4 DEF StartTimeout
<1>8. /\ NoProcess.state = "none" /\ NoProcess.awaited = "no"  BY DEF NoProcess
<1>9. handle[c] = None  BY <1>2, <1>4 DEF Pool, AwaitedFit
<1>10. handle' = handle  BY <1>1, <1>5, <1>7, <1>9 DEF ProcOK
<1>11. ProcessesFit'
  <2>1. \A v \in Workers : proc'[v].state # "none" => v # w /\ proc'[v] = proc[v]  BY <1>6, <1>8
  <2>2. \A d \in Challenges : handle[d] # None => handle[d] \in Workers \ {w}
    BY <1>1, <1>2 DEF Pool, ProcessesFit, ProcOK
  <2>3. QED  BY <1>6, <1>10, <2>1, <2>2 DEF Pool, ProcessesFit
<1>12. \A v \in Workers : proc'[v].awaited = "no"  BY <1>4, <1>6, <1>8
<1>13. Pool'
  <2>1. PICK h, t : Advance(tick.plan, h, t)  BY <1>7 DEF CatchSlot
  <2>2. handle' \in [Challenges -> Workers \cup {None}]  BY <1>1, <1>10 DEF ProcOK
  <2>3. Placed(handle') \subseteq Placed(handle)  BY <1>10
  <2>4. QED  BY <1>7, <1>11, <1>12, <2>1, <2>2, <2>3, PoolAdvances
<1>14. QED  BY <1>2, <1>3, <1>4, <1>6, <1>9, <1>13

(* The exit of a worker drops its own handle: there is no other. *)
LEMMA PoolExit ==
  ASSUME Inv, Pool, NEW w \in Workers, Exit(w)
  PROVE  /\ Pool' /\ proc[w].chal \in Challenges /\ handle[proc[w].chal] = w
         /\ proc'[w].state = "none" /\ \A v \in Workers \ {w} : proc'[v] = proc[v]
<1>1. ProcOK  BY InvParts
<1>2. PICK c : c = proc[w].chal  OBVIOUS
<1>3. proc[w].state # "none" /\ c \in Challenges /\ handle[c] = w
  BY <1>2 DEF Exit, Pool, ProcessesFit
<1>4. /\ proc'[w] = Forget(w) /\ \A v \in Workers \ {w} : proc'[v] = proc[v]
      /\ handle' = [handle EXCEPT ![c] = None] /\ UNCHANGED <<tick, draining>>
  BY <1>1, <1>2 DEF Exit, ProcOK
<1>5. /\ proc'[w].state = "none"
      /\ proc[w].awaited = "no" => proc'[w].awaited = "no"
      /\ proc[w].awaited # "no" => proc'[w].awaited = proc[w].awaited /\ proc'[w].chal = c
  <2>1. CASE proc[w].awaited = "no"  BY <1>4, <2>1 DEF Forget, NoProcess
  <2>2. CASE proc[w].awaited # "no"
    <3>1. Forget(w) = [proc[w] EXCEPT !.state = "none"]  BY <2>2 DEF Forget
    <3>2. QED  BY <1>1, <1>2, <1>4, <2>2, <3>1 DEF ProcOK, Process
  <2>3. QED  BY <2>1, <2>2
<1>6. handle'[c] = None /\ \A d \in Challenges \ {c} : handle'[d] = handle[d]
  BY <1>1, <1>3, <1>4 DEF ProcOK
<1>7. ProcessesFit'
  <2>1. ASSUME NEW v \in Workers, proc'[v].state # "none"
        PROVE  proc'[v].chal \in Challenges /\ handle'[proc'[v].chal] = v
    <3>1. v # w /\ proc'[v] = proc[v]  BY <1>4, <1>5, <2>1
    <3>2. proc[v].chal \in Challenges /\ handle[proc[v].chal] = v
      BY <2>1, <3>1 DEF Pool, ProcessesFit
    <3>3. proc[v].chal # c  BY <1>3, <3>1, <3>2
    <3>4. QED  BY <1>6, <3>1, <3>2, <3>3
  <2>2. ASSUME NEW d \in Challenges, handle'[d] # None
        PROVE  proc'[handle'[d]].state # "none" /\ proc'[handle'[d]].chal = d
    <3>1. d # c /\ handle'[d] = handle[d] /\ handle[d] \in Workers  BY <1>1, <1>6, <2>2 DEF ProcOK
    <3>2. proc[handle[d]].state # "none" /\ proc[handle[d]].chal = d
      BY <2>2, <3>1 DEF Pool, ProcessesFit
    <3>3. handle[d] # w  BY <1>2, <3>1, <3>2
    <3>4. QED  BY <1>4, <3>1, <3>2, <3>3
  <2>3. QED  BY <2>1, <2>2 DEF ProcessesFit
<1>8. AwaitedFit'
  <2>1. SUFFICES ASSUME NEW v \in Workers, proc'[v].awaited # "no"
                 PROVE  /\ proc'[v].awaited = "tick" /\ tick.at = "ready" /\ proc'[v].chal = tick.chal
                        /\ proc'[v].state = "none" => handle'[tick.chal] = None
                        /\ \A u \in Workers : proc'[u].awaited # "no" => u = v
    BY <1>4 DEF AwaitedFit
  <2>2. proc[v].awaited # "no" /\ proc'[v].awaited = proc[v].awaited /\ proc'[v].chal = proc[v].chal
    BY <1>2, <1>4, <1>5, <2>1
  <2>3. /\ proc[v].awaited = "tick" /\ tick.at = "ready" /\ proc[v].chal = tick.chal
        /\ proc[v].state = "none" => handle[tick.chal] = None
        /\ \A u \in Workers : proc[u].awaited # "no" => u = v
    BY <2>2 DEF Pool, AwaitedFit
  <2>4. proc'[v].state = "none" => handle'[tick.chal] = None
    <3>1. CASE v = w  BY <1>2, <1>6, <2>3, <3>1
    <3>2. CASE v # w
      <4>1. tick.chal \in Challenges  BY <2>3 DEF Pool, TickFits
      <4>2. QED  BY <1>4, <1>6, <2>3, <3>2, <4>1
    <3>3. QED  BY <3>1, <3>2
  <2>5. \A u \in Workers : proc'[u].awaited # "no" => u = v  BY <1>4, <1>5, <2>3
  <2>6. QED  BY <2>2, <2>3, <2>4, <2>5
<1>9. TickFits' /\ RoomFits'
  <2>1. Placed(handle') \subseteq Placed(handle)  BY <1>1, <1>4, PlacedLess DEF ProcOK
  <2>2. Cardinality(Placed(handle')) \in Nat /\ Cardinality(Placed(handle)) \in Nat
        /\ Cardinality(Placed(handle')) <= Cardinality(Placed(handle))
    BY <2>1, PlacedFinite
  <2>3. Cardinality(tick.plan) \in Nat
    <3>1. tick.plan \in SUBSET Challenges  BY InvParts DEF Tick
    <3>2. QED  BY <3>1, PlanFinite
  <2>4. Bound(handle, tick) <= Concurrency  BY DEF Pool, RoomFits
  <2>5. Concurrency \in Nat  BY WorkersAssumption
  <2>6. Bound(handle', tick) <= Concurrency  BY <2>2, <2>3, <2>4, <2>5 DEF Bound
  <2>7. QED  BY <1>4, <2>6 DEF Pool, TickFits, RoomFits
<1>10. QED  BY <1>2, <1>3, <1>4, <1>5, <1>7, <1>8, <1>9 DEF Pool

(* The human and the judge give orders, and nothing more. *)
LEMMA PoolHuman ==
  ASSUME Inv, Pool, NEW c \in Challenges,
         \/ Pause(c) \/ Resume(c) \/ Park(c) \/ Unpark(c) \/ RestartSolver(c)
         \/ FlagFound(c) \/ Wrong(c) \/ Correct(c) \/ Unknown(c) \/ Accept(c)
         \/ Reject(c) \/ ResumeSolving(c)
  PROVE  Pool'
<1>1. ProcOK /\ handle \in [Challenges -> Workers \cup {None}]  BY InvParts DEF ProcOK
<1>2. UNCHANGED <<handle, tick, draining>>
  BY DEF Pause, Resume, Park, Unpark, RestartSolver, FlagFound, Wrong, Correct, Unknown, Accept,
         Reject, ResumeSolving
<1>3. proc' = proc \/ Tell(c, "abort") \/ Tell(c, "kill")
  BY DEF Pause, Resume, Park, Unpark, RestartSolver, FlagFound, Wrong, Correct, Unknown, Accept,
         Reject, ResumeSolving, StopWorker
<1>4. \A w \in Workers : /\ proc'[w].state = proc[w].state /\ proc'[w].chal = proc[w].chal
                         /\ proc'[w].awaited = proc[w].awaited
  BY <1>1, <1>3, TellAwaits
<1>5. QED  BY <1>1, <1>2, <1>4, PoolStays

LEMMA PoolInit == Init => Pool
<1>1. SUFFICES ASSUME Init PROVE Pool  OBVIOUS
<1>2. /\ \A c \in Challenges : handle[c] = None
      /\ \A w \in Workers : proc[w].state = "none" /\ proc[w].awaited = "no"
      /\ tick = Idle /\ tick.at = "idle" /\ tick.plan = {} /\ draining = {}
  BY <1>1 DEF Init, NoProcess, Idle
<1>3. Cardinality(Placed(handle)) = 0 /\ Cardinality(tick.plan) = 0
  <2>1. Placed(handle) = {}  BY <1>2 DEF Placed
  <2>2. QED  BY <1>2, <2>1, FS_EmptySet
<1>4. RoomFits  BY <1>2, <1>3, WorkersAssumption DEF RoomFits, Bound
<1>5. QED  BY <1>2, <1>4 DEF Pool, ProcessesFit, AwaitedFit, TickFits

(* Without slow, lost or handed-off workers, these do not happen. *)
LEMMA CalmSteps ==
  ASSUME OnlyCrashes, Pool, NEW c \in Challenges, NEW w \in Workers
  PROVE  ~Lost(c) /\ ~Handoff(c) /\ ~HandoffFails(c) /\ ~HandoffForks(c, w)
BY DEF OnlyCrashes, Pool, Lost, Handoff, HandoffFails, HandoffForks

LEMMA PoolStep == OnlyCrashes /\ Inv /\ Pool /\ [Next]_vars => Pool'
<1>1. SUFFICES ASSUME OnlyCrashes, Inv, Pool, [Next]_vars PROVE Pool'  OBVIOUS
<1>2. CASE TickStart  BY <1>1, <1>2, PoolTickStart
<1>3. CASE StartFails  BY <1>1, <1>3, PoolStartFails
<1>4. ASSUME NEW w \in Workers, StartForks(w) \/ Ready(w) \/ StartTimeout(w) \/ Exit(w)
      PROVE  Pool'
  BY <1>1, <1>4, PoolStartForks, PoolReady, PoolTimeout, PoolExit
<1>5. CASE WorkerSteps
  BY <1>1, <1>4, <1>5, CalmSteps DEF WorkerSteps
<1>6. CASE ChallengeSteps
  <2>1. PICK c \in Challenges :
          \/ Lost(c) \/ Handoff(c) \/ HandoffFails(c)
          \/ Pause(c) \/ Resume(c) \/ Park(c) \/ Unpark(c) \/ RestartSolver(c)
          \/ FlagFound(c) \/ Wrong(c) \/ Correct(c) \/ Unknown(c) \/ Accept(c)
          \/ Reject(c) \/ ResumeSolving(c)
    BY <1>6 DEF ChallengeSteps
  <2>2. ~Lost(c) /\ ~Handoff(c) /\ ~HandoffFails(c)
    BY <1>1 DEF OnlyCrashes, Pool, Lost, Handoff, HandoffFails
  <2>3. QED  BY <1>1, <2>1, <2>2, PoolHuman
<1>7. CASE UNCHANGED vars
  <2>1. UNCHANGED <<handle, proc, tick, draining>>  BY <1>7 DEF vars
  <2>2. handle \in [Challenges -> Workers \cup {None}]  BY <1>1, InvParts DEF ProcOK
  <2>3. QED  BY <1>1, <2>1, <2>2, PoolStays
<1>8. QED  BY <1>1, <1>2, <1>3, <1>5, <1>6, <1>7 DEF Next

LEMMA PoolAlways == ASSUME OnlyCrashes PROVE Spec => []Pool
<1>1. Inv /\ Pool /\ [Next]_vars => Pool'  BY PoolStep
<1>2. QED  BY <1>1, PoolInit, Invariance, PTL DEF Spec

(* README's hard constraint, one solver worker a challenge, for any number  *)
(* of challenges and processes and whatever the human does, as long as      *)
(* workers only crash: it takes a slow start, a lost heartbeat or a handoff *)
(* to break it (the run double_worker).                                    *)
THEOREM OneWorkerUnlessLost == ASSUME OnlyCrashes PROVE Spec => []OneWorker
<1>1. ASSUME ProcessesFit PROVE OneWorker
  <2>1. SUFFICES ASSUME NEW c \in Challenges PROVE Cardinality(Running(c)) <= 1
    BY DEF OneWorker
  <2>2. \A v, w \in Running(c) : v = w  BY <1>1 DEF ProcessesFit, Running
  <2>3. CASE Running(c) = {}  BY <2>3, FS_EmptySet
  <2>4. CASE \E w \in Running(c) : TRUE
    <3>1. PICK w \in Running(c) : TRUE  BY <2>4
    <3>2. Running(c) = {w}  BY <2>2, <3>1
    <3>3. QED  BY <3>2, FS_Singleton
  <2>5. QED  BY <2>3, <2>4
<1>2. QED  BY <1>1, PoolAlways, PTL DEF Pool
-----------------------------------------------------------------------------
(* The events of the table in the statuses of this module. *)
LEMMA Targets ==
  ASSUME NEW s \in Lifecycles
  PROVE  /\ \A e \in {"SOLVER_ERROR", "RECOVER_ACTIVE", "SOLVER_STOPPED", "RESTART_SOLVER"} :
              Target(s, e) = IF s = "ACTIVE" THEN "QUEUED"
                             ELSE IF s = "SUBMITTING" THEN Target(s, e) ELSE s
         /\ Target(s, "PAUSE") = IF s \in {"QUEUED", "ACTIVE", "SUBMITTING"} THEN "PAUSED" ELSE s
         /\ Target(s, "PARK") = IF s \in {"QUEUED", "ACTIVE", "PAUSED"} THEN "PARKED" ELSE s
         /\ Target(s, "RESUME") = IF s = "PAUSED" THEN "QUEUED" ELSE s
         /\ Target(s, "UNPARK") = IF s = "PARKED" THEN "QUEUED" ELSE s
         /\ Target(s, "REOPEN") = IF s = "SOLVED" THEN "QUEUED" ELSE s
         /\ Target(s, "SUBMIT_WRONG") = IF s = "SUBMITTING" THEN "ACTIVE" ELSE s
         /\ Target(s, "SUBMIT_CORRECT") = IF s = "SUBMITTING" THEN "SOLVED" ELSE s
         /\ Target(s, "RECOVER_SUBMITTING") = IF s = "SUBMITTING" THEN "QUEUED" ELSE s
         /\ Target(s, "SCHEDULE") = IF s = "QUEUED" THEN "ACTIVE" ELSE s
<1>1. CASE s = "QUEUED"     BY <1>1 DEF Target, Allowed, T, Lifecycles
<1>2. CASE s = "ACTIVE"     BY <1>2 DEF Target, Allowed, T, Lifecycles
<1>3. CASE s = "SUBMITTING" BY <1>3 DEF Target, Allowed, T, Lifecycles
<1>4. CASE s = "PAUSED"     BY <1>4 DEF Target, Allowed, T, Lifecycles
<1>5. CASE s = "PARKED"     BY <1>5 DEF Target, Allowed, T, Lifecycles
<1>6. CASE s = "SOLVED"     BY <1>6 DEF Target, Allowed, T, Lifecycles
<1>7. QED BY <1>1, <1>2, <1>3, <1>4, <1>5, <1>6 DEF Lifecycles

(* The events of a submission that is judged leave SUBMITTING alone here.   *)
LEMMA SubmittingTargets ==
  \A e \in {"SOLVER_ERROR", "RECOVER_ACTIVE", "SOLVER_STOPPED", "RESTART_SOLVER"} :
    Target("SUBMITTING", e) = "SUBMITTING"
BY DEF Target, Allowed, T

LEMMA Leaves ==
  ASSUME NEW s \in Lifecycles, NEW e \in {"SOLVER_ERROR", "RECOVER_ACTIVE", "SOLVER_STOPPED", "RESTART_SOLVER"}
  PROVE  Target(s, e) = IF s = "ACTIVE" THEN "QUEUED" ELSE s
BY Targets, SubmittingTargets

LEMMA Allows ==
  ASSUME NEW s \in Lifecycles
  PROVE  /\ Allowed(s, "SCHEDULE") => s = "QUEUED"
         /\ Allowed(s, "RECOVER_SUBMITTING") => s = "SUBMITTING"
         /\ Allowed(s, "CANDIDATE_FOUND") =>
              s \in {"QUEUED", "ACTIVE"} /\ Target(Target(s, "CANDIDATE_FOUND"), "VERIFY_OK") = "SUBMITTING"
<1>1. CASE s = "QUEUED"     BY <1>1 DEF Target, Allowed, T, Lifecycles
<1>2. CASE s = "ACTIVE"     BY <1>2 DEF Target, Allowed, T, Lifecycles
<1>3. CASE s = "SUBMITTING" BY <1>3 DEF Allowed, T, Lifecycles
<1>4. CASE s = "PAUSED"     BY <1>4 DEF Allowed, T, Lifecycles
<1>5. CASE s = "PARKED"     BY <1>5 DEF Allowed, T, Lifecycles
<1>6. CASE s = "SOLVED"     BY <1>6 DEF Allowed, T, Lifecycles
<1>7. QED BY <1>1, <1>2, <1>3, <1>4, <1>5, <1>6 DEF Lifecycles

LEMMA Rejects ==
  ASSUME NEW s \in Lifecycles
  PROVE  /\ AfterReject(s) = IF s \in {"SOLVED", "PAUSED"} THEN "QUEUED"
                             ELSE IF s = "SUBMITTING" THEN "ACTIVE" ELSE s
         /\ Target(AfterReject(s), "SOLVER_STOPPED") =
              IF s \in {"SOLVED", "PAUSED", "SUBMITTING", "ACTIVE"} THEN "QUEUED" ELSE s
<1>1. AfterReject(s) = IF s \in {"SOLVED", "PAUSED"} THEN "QUEUED"
                       ELSE IF s = "SUBMITTING" THEN "ACTIVE" ELSE s
  BY Targets DEF AfterReject
<1>2. AfterReject(s) \in Lifecycles  BY <1>1 DEF Lifecycles
<1>3. QED  BY <1>1, <1>2, Leaves
-----------------------------------------------------------------------------
(* Who is stopped was told so. *)

Stopped == {"PAUSED", "PARKED", "SOLVED"}

Told(c) == \A w \in Workers : proc[w].chal = c /\ proc[w].state # "none" => proc[w].order # "none"

(* No process comes to a stopped challenge, and no order is taken back.     *)
LEMMA ToldStays ==
  ASSUME StoppedIsTold, NEW c,
         \A d \in Challenges : d # c => life'[d] = life[d],
         life'[c] \in Stopped => life[c] \in Stopped,
         \A w \in Workers : proc'[w].state # "none" =>
           \/ proc[w].state # "none" /\ proc'[w].chal = proc[w].chal
                /\ (proc'[w].order = "none" => proc[w].order = "none")
           \/ proc'[w].chal = c /\ life'[c] \notin Stopped
  PROVE  StoppedIsTold'
<1>1. SUFFICES ASSUME NEW d \in Challenges, life'[d] \in Stopped, NEW w \in Workers,
                      proc'[w].chal = d, proc'[w].state # "none"
               PROVE  proc'[w].order # "none"
  BY DEF StoppedIsTold, Stopped
<1>2. proc[w].state # "none" /\ proc[w].chal = d /\ (proc'[w].order = "none" => proc[w].order = "none")
  BY <1>1
<1>3. life[d] \in Stopped  BY <1>1
<1>4. QED  BY <1>1, <1>2, <1>3 DEF StoppedIsTold, Stopped

(* An order reaches the worker of the challenge: it has no other.           *)
LEMMA TellTells ==
  ASSUME Inv, Pool, NEW c \in Challenges, NEW order \in {"abort", "kill"}, Tell(c, order)
  PROVE  \A w \in Workers :
           /\ proc'[w].state = proc[w].state /\ proc'[w].chal = proc[w].chal
           /\ proc'[w].order = "none" => proc[w].order = "none" /\ (proc[w].state # "none" => proc[w].chal # c)
<1>1. ProcOK  BY InvParts
<1>2. TAKE w \in Workers
<1>3. proc'[w].state = proc[w].state /\ proc'[w].chal = proc[w].chal  BY <1>1, TellAwaits
<1>4. proc[w].state # "none" /\ proc[w].chal = c => handle[c] = w  BY DEF Pool, ProcessesFit
<1>5. None \notin Workers  BY WorkersAssumption
<1>6. CASE handle[c] # w
  <2>1. proc'[w].order = proc[w].order
    <3>1. CASE handle[c] = None  BY <3>1 DEF Tell
    <3>2. CASE handle[c] # None
      <4>1. PICK o : proc' = [proc EXCEPT ![handle[c]].order = o]  BY <3>2 DEF Tell
      <4>2. QED  BY <1>1, <1>6, <4>1 DEF ProcOK
    <3>3. QED  BY <3>1, <3>2
  <2>2. QED  BY <1>3, <1>4, <1>6, <2>1
<1>7. CASE handle[c] = w
  <2>1. PICK o : o # "none" /\ proc' = [proc EXCEPT ![w].order = o]  BY <1>5, <1>7 DEF Tell
  <2>2. proc'[w].order = o  BY <1>1, <2>1 DEF ProcOK, Process
  <2>3. QED  BY <1>3, <2>1, <2>2
<1>8. QED  BY <1>6, <1>7

LEMMA ToldByOrder ==
  ASSUME Inv, Pool, StoppedIsTold, NEW c \in Challenges, NEW order \in {"abort", "kill"}, Tell(c, order),
         \A d \in Challenges : d # c => life'[d] = life[d]
  PROVE  StoppedIsTold'
<1>1. SUFFICES ASSUME NEW d \in Challenges, life'[d] \in Stopped, NEW w \in Workers,
                      proc'[w].chal = d, proc'[w].state # "none", proc'[w].order = "none"
               PROVE  FALSE
  BY DEF StoppedIsTold, Stopped
<1>2. /\ proc[w].state # "none" /\ proc[w].chal = d /\ proc[w].order = "none" /\ proc[w].chal # c
  BY <1>1, TellTells
<1>3. life[d] \in Stopped  BY <1>1, <1>2
<1>4. QED  BY <1>2, <1>3 DEF StoppedIsTold, Stopped

(* What the human decides without stopping a worker sets nobody aside.      *)
LEMMA SpokenFor ==
  ASSUME Inv, NEW c \in Challenges,
         Resume(c) \/ Unpark(c) \/ FlagFound(c) \/ Wrong(c) \/ Unknown(c) \/ Reject(c) \/ ResumeSolving(c)
  PROVE  \E s : life' = [life EXCEPT ![c] = s] /\ (s \in Stopped => life[c] \in Stopped)
<1>0. life \in [Challenges -> Lifecycles]  BY InvParts
<1>1. CASE Resume(c)  BY <1>0, <1>1, Targets DEF Resume, Stopped
<1>2. CASE Unpark(c)  BY <1>0, <1>2, Targets DEF Unpark, Stopped
<1>3. CASE FlagFound(c)  BY <1>0, <1>3, Allows DEF FlagFound, Stopped
<1>4. CASE Wrong(c)
  <2>1. life' = [life EXCEPT ![c] = Target(life[c], "SUBMIT_WRONG")]  BY <1>4 DEF Wrong
  <2>2. Target(life[c], "SUBMIT_WRONG") = IF life[c] = "SUBMITTING" THEN "ACTIVE" ELSE life[c]
    BY <1>0, Targets
  <2>3. QED  BY <2>1, <2>2 DEF Stopped
<1>5. CASE Unknown(c)
  <2>1. life' = [life EXCEPT ![c] = life[c]]  BY <1>0, <1>5 DEF Unknown
  <2>2. QED  BY <2>1
<1>6. CASE Reject(c)  BY <1>0, <1>6, Rejects DEF Reject, Stopped
<1>7. CASE ResumeSolving(c)
  <2>1. life' = [life EXCEPT ![c] = Target(life[c], "RECOVER_SUBMITTING")]  BY <1>7 DEF ResumeSolving
  <2>2. Target(life[c], "RECOVER_SUBMITTING") = IF life[c] = "SUBMITTING" THEN "QUEUED" ELSE life[c]
    BY <1>0, Targets
  <2>3. QED  BY <2>1, <2>2 DEF Stopped
<1>8. QED  BY <1>1, <1>2, <1>3, <1>4, <1>5, <1>6, <1>7

LEMMA ToldStep == OnlyCrashes /\ Inv /\ Pool /\ StoppedIsTold /\ [Next]_vars => StoppedIsTold'
<1>1. SUFFICES ASSUME OnlyCrashes, Inv, Pool, StoppedIsTold, [Next]_vars PROVE StoppedIsTold'  OBVIOUS
<1>2. life \in [Challenges -> Lifecycles] /\ ProcOK  BY <1>1, InvParts
<1>3. ASSUME UNCHANGED <<life, proc>> PROVE StoppedIsTold'  BY <1>1, <1>3 DEF StoppedIsTold
<1>4. ASSUME NEW c, UNCHANGED proc, \A d \in Challenges : d # c => life'[d] = life[d],
             life'[c] \in Stopped => life[c] \in Stopped
      PROVE  StoppedIsTold'
  BY <1>1, <1>4, ToldStays
<1>5. CASE TickStart  BY <1>3, <1>5 DEF TickStart
<1>6. CASE StartFails
  <2>1. tick.chal \in Challenges  BY <1>1, <1>6 DEF StartFails, Pool, TickFits
  <2>2. life' = [life EXCEPT ![tick.chal] = Target(life[tick.chal], "SOLVER_ERROR")] /\ UNCHANGED proc
    BY <1>6 DEF StartFails
  <2>3. QED  BY <1>2, <1>4, <2>1, <2>2, Leaves DEF Stopped
<1>7. ASSUME NEW w \in Workers, StartForks(w)  PROVE StoppedIsTold'
  <2>1. PICK c \in Challenges : c = tick.chal  BY <1>1, <1>7 DEF StartForks, Pool, TickFits
  <2>2. /\ life' = [life EXCEPT ![c] = Target(life[c], "SCHEDULE")] /\ Allowed(life[c], "SCHEDULE")
        /\ Fork(c, w, "tick")
    BY <1>7, <2>1 DEF StartForks
  <2>3. life'[c] = "ACTIVE" /\ \A d \in Challenges : d # c => life'[d] = life[d]
    BY <1>2, <2>2, Allows, Targets
  <2>4. proc'[w].chal = c /\ \A v \in Workers \ {w} : proc'[v] = proc[v]
    BY <1>2, <2>2 DEF Fork, ProcOK
  <2>5. life'[c] \notin Stopped  BY <2>3 DEF Stopped
  <2>6. QED  BY <1>1, <2>3, <2>4, <2>5, ToldStays
<1>8. ASSUME NEW w \in Workers, Ready(w)  PROVE StoppedIsTold'
  <2>1. /\ \A v \in Workers : proc'[v].chal = proc[v].chal /\ proc'[v].order = proc[v].order
                              /\ (proc'[v].state # "none" => proc[v].state # "none")
        /\ UNCHANGED life
    BY <1>2, <1>8 DEF Ready, ProcOK, Process
  <2>2. QED  BY <1>1, <2>1 DEF StoppedIsTold
<1>9. ASSUME NEW w \in Workers, StartTimeout(w)  PROVE StoppedIsTold'
  <2>1. PICK c \in Challenges : c = proc[w].chal
    BY <1>1, <1>9, PoolTimeout DEF Pool, TickFits
  <2>2. proc[w].awaited = "tick" /\ proc'[w] = NoProcess /\ \A v \in Workers \ {w} : proc'[v] = proc[v]
    BY <1>1, <1>9, PoolTimeout
  <2>3. life' = [life EXCEPT ![c] = Target(life[c], "SOLVER_ERROR")]  BY <1>9, <2>1, <2>2 DEF StartTimeout
  <2>4. \A d \in Challenges : d # c => life'[d] = life[d]  BY <1>2, <2>3
  <2>5. life'[c] \in Stopped => life[c] \in Stopped  BY <1>2, <2>3, Leaves DEF Stopped
  <2>6. NoProcess.state = "none"  BY DEF NoProcess
  <2>7. QED  BY <1>1, <2>2, <2>4, <2>5, <2>6, ToldStays
<1>10. ASSUME NEW w \in Workers, Exit(w)  PROVE StoppedIsTold'
  <2>1. PICK c \in Challenges : c = proc[w].chal  BY <1>1, <1>10, PoolExit
  <2>2. proc'[w].state = "none" /\ \A v \in Workers \ {w} : proc'[v] = proc[v]
    BY <1>1, <1>10, PoolExit
  <2>3. life' = life \/ life' = [life EXCEPT ![c] = Target(life[c], "RECOVER_ACTIVE")]
    BY <1>10, <2>1 DEF Exit, Requeue
  <2>4. \A d \in Challenges : d # c => life'[d] = life[d]  BY <1>2, <2>3
  <2>5. life'[c] \in Stopped => life[c] \in Stopped  BY <1>2, <2>3, Leaves DEF Stopped
  <2>6. QED  BY <1>1, <2>2, <2>4, <2>5, ToldStays
<1>11. ASSUME NEW c \in Challenges, Pause(c) \/ Park(c) \/ RestartSolver(c) \/ Correct(c) \/ Accept(c)
       PROVE  StoppedIsTold'
  <2>1. Tell(c, "abort") \/ Tell(c, "kill")
    BY <1>11 DEF Pause, Park, RestartSolver, Correct, Accept, StopWorker
  <2>2. PICK s : life' = [life EXCEPT ![c] = s]
    BY <1>11 DEF Pause, Park, RestartSolver, Correct, Accept
  <2>3. \A d \in Challenges : d # c => life'[d] = life[d]  BY <1>2, <2>2
  <2>4. QED  BY <1>1, <2>1, <2>3, ToldByOrder
<1>12. ASSUME NEW c \in Challenges,
              Resume(c) \/ Unpark(c) \/ FlagFound(c) \/ Wrong(c) \/ Unknown(c) \/ Reject(c) \/ ResumeSolving(c)
       PROVE  StoppedIsTold'
  <2>1. UNCHANGED proc
    BY <1>12 DEF Resume, Unpark, FlagFound, Wrong, Unknown, Reject, ResumeSolving
  <2>2. PICK s : life' = [life EXCEPT ![c] = s] /\ (s \in Stopped => life[c] \in Stopped)
    BY <1>1, <1>12, SpokenFor
  <2>3. \A d \in Challenges : d # c => life'[d] = life[d]  BY <1>2, <2>2
  <2>4. life'[c] \in Stopped => life[c] \in Stopped  BY <1>2, <2>2
  <2>5. QED  BY <1>4, <2>1, <2>3, <2>4
<1>13. CASE UNCHANGED vars  BY <1>3, <1>13 DEF vars
<1>14. \A c \in Challenges : ~Lost(c) /\ ~Handoff(c) /\ ~HandoffFails(c)
  BY <1>1 DEF OnlyCrashes, Pool, Lost, Handoff, HandoffFails
<1>15. QED
  BY <1>1, <1>5, <1>6, <1>7, <1>8, <1>9, <1>10, <1>11, <1>12, <1>13, <1>14, CalmSteps
     DEF Next, WorkerSteps, ChallengeSteps

(* Whatever the human does, and as long as workers only crash, a challenge  *)
(* that is paused, parked or solved has no worker that was not told.        *)
THEOREM StoppedAreTold == ASSUME OnlyCrashes PROVE Spec => []StoppedIsTold
<1>1. Init => StoppedIsTold  BY DEF Init, StoppedIsTold
<1>2. Inv /\ Pool /\ StoppedIsTold /\ [Next]_vars => StoppedIsTold'  BY ToldStep
<1>3. QED  BY <1>1, <1>2, Invariance, PoolAlways, PTL DEF Spec
-----------------------------------------------------------------------------
(* The slots that are kept are exactly those handed out, each for a worker  *)
(* or for the start the tick is at. The status matters: a challenge that    *)
(* keeps a slot must not be queued, or the tick would take a second one.    *)

Worked == {"ACTIVE", "SUBMITTING"}

SlotsFit ==
  /\ \A c \in held : \/ tick.at = "ensure" /\ tick.chal = c
                     \/ life[c] \in Worked /\ handle[c] # None
  /\ tick.plan \cap held = {}
  /\ taken = Cardinality(held)

LEMMA HeldFinite ==
  ASSUME Inv
  PROVE  /\ IsFiniteSet(held) /\ Cardinality(held) \in Nat
         /\ \A c : Cardinality(held \ {c}) = IF c \in held THEN Cardinality(held) - 1 ELSE Cardinality(held)
<1>1. held \subseteq Challenges  BY InvParts DEF SlotsOK
<1>2. IsFiniteSet(held)  BY <1>1, FS_Subset, WorkersAssumption
<1>3. QED  BY <1>2, FS_CardinalityType, FS_RemoveElement

LEMMA SlotsAdvance ==
  ASSUME NEW rest \in SUBSET Challenges, NEW h, IsFiniteSet(h), rest \cap h = {},
         NEW t, t = Cardinality(h), Advance(rest, h, t),
         \A c \in h : life'[c] \in Worked /\ handle'[c] # None
  PROVE  SlotsFit'
<1>1. CASE tick' = Idle /\ held' = h /\ taken' = t  BY <1>1 DEF SlotsFit, Idle
<1>2. CASE \E c \in rest : /\ tick' = [at |-> "ensure", chal |-> c, plan |-> rest \ {c}]
                          /\ held' = h \cup {c} /\ taken' = t + 1
  <2>1. PICK c \in rest : /\ tick' = [at |-> "ensure", chal |-> c, plan |-> rest \ {c}]
                          /\ held' = h \cup {c} /\ taken' = t + 1
    BY <1>2
  <2>2. tick'.at = "ensure" /\ tick'.chal = c /\ tick'.plan = rest \ {c}  BY <2>1
  <2>3. Cardinality(h \cup {c}) = t + 1  BY FS_AddElement
  <2>4. QED  BY <2>1, <2>2, <2>3 DEF SlotsFit
<1>3. QED  BY <1>1, <1>2 DEF Advance

(* A challenge gives its slot back, with or without its worker. *)
LEMMA SlotsRelease ==
  ASSUME Inv, SlotsFit, NEW c, ReleaseSlot(c), UNCHANGED tick,
         \A d \in Challenges : d # c => life'[d] = life[d] /\ handle'[d] = handle[d]
  PROVE  SlotsFit'
<1>1. held \subseteq Challenges  BY InvParts DEF SlotsOK
<1>2. taken' = Cardinality(held')  BY HeldFinite DEF ReleaseSlot, SlotsFit
<1>3. held' = held \ {c}  BY DEF ReleaseSlot
<1>4. \A d \in held' : \/ tick'.at = "ensure" /\ tick'.chal = d
                       \/ life'[d] \in Worked /\ handle'[d] # None
  BY <1>1, <1>3 DEF SlotsFit
<1>5. QED  BY <1>2, <1>3, <1>4 DEF SlotsFit

LEMMA SlotsStay ==
  ASSUME Inv, SlotsFit, UNCHANGED <<held, taken, tick, handle>>,
         \A d \in Challenges : life[d] \in Worked /\ handle[d] # None => life'[d] \in Worked
  PROVE  SlotsFit'
<1>1. held \subseteq Challenges  BY InvParts DEF SlotsOK
<1>2. QED  BY <1>1 DEF SlotsFit

(* While nothing of the tick is at the contest, every slot has its worker.  *)
LEMMA HeldAreWorked ==
  ASSUME SlotsFit, NEW c \in held, tick.at # "ensure" \/ tick.chal # c
  PROVE  life[c] \in Worked /\ handle[c] # None
BY DEF SlotsFit

LEMMA SlotsTickStart == ASSUME Inv, Pool, SlotsFit, TickStart PROVE SlotsFit'
<1>1. PICK plan \in SUBSET {c \in Challenges : life[c] = "QUEUED"} : Advance(plan, held, taken)
  BY DEF TickStart
<1>2. tick.at = "idle" /\ UNCHANGED <<life, handle>>  BY DEF TickStart, Idle
<1>3. \A c \in held : life'[c] \in Worked /\ handle'[c] # None  BY <1>2, HeldAreWorked
<1>4. plan \cap held = {}  BY <1>2, <1>3 DEF Worked
<1>5. taken = Cardinality(held)  BY DEF SlotsFit
<1>6. plan \in SUBSET Challenges  BY <1>1
<1>7. QED  BY <1>1, <1>3, <1>4, <1>5, <1>6, HeldFinite, SlotsAdvance

LEMMA SlotsCatch ==
  ASSUME Inv, Pool, SlotsFit, CatchSlot(tick.chal),
         \A d \in Challenges : d # tick.chal => life'[d] = life[d] /\ handle'[d] = handle[d]
  PROVE  SlotsFit'
<1>1. held \subseteq Challenges /\ tick.plan \in SUBSET Challenges
  BY InvParts DEF SlotsOK, Tick
<1>2. PICK c : c = tick.chal  OBVIOUS
<1>3. PICK h, t : h = held \ {c} /\ t = IF c \in held THEN taken - 1 ELSE taken  OBVIOUS
<1>4. Advance(tick.plan, h, t)  BY <1>2, <1>3 DEF CatchSlot
<1>5. t = Cardinality(h)  BY <1>3, HeldFinite DEF SlotsFit
<1>6. IsFiniteSet(h) /\ tick.plan \cap h = {}
  BY <1>3, HeldFinite, FS_Subset DEF SlotsFit
<1>7. \A d \in h : life'[d] \in Worked /\ handle'[d] # None
  BY <1>1, <1>2, <1>3, HeldAreWorked
<1>8. QED  BY <1>1, <1>4, <1>5, <1>6, <1>7, SlotsAdvance

LEMMA SlotsStartForks == ASSUME Inv, Pool, SlotsFit, NEW w \in Workers, StartForks(w) PROVE SlotsFit'
<1>1. PICK c \in Challenges : c = tick.chal  BY DEF StartForks, Pool, TickFits
<1>2. /\ life' = [life EXCEPT ![c] = Target(life[c], "SCHEDULE")] /\ Allowed(life[c], "SCHEDULE")
      /\ handle' = [handle EXCEPT ![c] = w] /\ tick' = [tick EXCEPT !.at = "ready"]
      /\ UNCHANGED <<held, taken>>
  BY <1>1 DEF StartForks, Fork
<1>3. /\ life \in [Challenges -> Lifecycles] /\ handle \in [Challenges -> Workers \cup {None}]
      /\ held \subseteq Challenges /\ tick \in Tick
  BY InvParts DEF ProcOK, SlotsOK
<1>4. life'[c] = "ACTIVE" /\ \A d \in Challenges : d # c => life'[d] = life[d]
  BY <1>2, <1>3, Allows, Targets
<1>5. handle'[c] # None /\ \A d \in Challenges : d # c => handle'[d] = handle[d]
  BY <1>2, <1>3, WorkersAssumption
<1>6. tick'.plan = tick.plan  BY <1>2, <1>3 DEF Tick
<1>7. \A d \in held : life'[d] \in Worked /\ handle'[d] # None
  BY <1>1, <1>3, <1>4, <1>5, HeldAreWorked DEF Worked
<1>8. QED  BY <1>2, <1>6, <1>7 DEF SlotsFit

LEMMA SlotsReady == ASSUME Inv, Pool, SlotsFit, NEW w \in Workers, Ready(w) PROVE SlotsFit'
<1>1. UNCHANGED <<life, handle>>  BY DEF Ready
<1>2. CASE proc[w].awaited = "no"
  <2>1. UNCHANGED <<tick, held, taken>>  BY <1>2 DEF Ready
  <2>2. QED  BY <1>1, <2>1, SlotsStay
<1>3. CASE proc[w].awaited # "no"
  <2>1. proc[w].awaited = "tick" /\ tick.at = "ready"  BY <1>3 DEF Pool, AwaitedFit
  <2>2. Advance(tick.plan, held, taken)  BY <2>1 DEF Ready
  <2>3. \A c \in held : life'[c] \in Worked /\ handle'[c] # None  BY <1>1, <2>1, HeldAreWorked
  <2>4. tick.plan \in SUBSET Challenges  BY InvParts DEF Tick
  <2>5. tick.plan \cap held = {} /\ taken = Cardinality(held)  BY DEF SlotsFit
  <2>6. QED  BY <2>2, <2>3, <2>4, <2>5, HeldFinite, SlotsAdvance
<1>4. QED  BY <1>2, <1>3

LEMMA SlotsStep ==
  OnlyCrashes /\ "resumeSolving" \notin Operator /\ Inv /\ Pool /\ SlotsFit /\ [Next]_vars => SlotsFit'
<1>1. SUFFICES ASSUME OnlyCrashes, "resumeSolving" \notin Operator, Inv, Pool, SlotsFit, [Next]_vars
               PROVE  SlotsFit'
  OBVIOUS
<1>2. life \in [Challenges -> Lifecycles] /\ handle \in [Challenges -> Workers \cup {None}]
  BY <1>1, InvParts DEF ProcOK
<1>3. CASE TickStart  BY <1>1, <1>3, SlotsTickStart
<1>4. CASE StartFails
  <2>1. /\ life' = [life EXCEPT ![tick.chal] = Target(life[tick.chal], "SOLVER_ERROR")]
        /\ CatchSlot(tick.chal) /\ UNCHANGED handle
    BY <1>4 DEF StartFails
  <2>2. \A d \in Challenges : d # tick.chal => life'[d] = life[d] /\ handle'[d] = handle[d]
    BY <1>2, <2>1
  <2>3. QED  BY <1>1, <2>1, <2>2, SlotsCatch
<1>5. ASSUME NEW w \in Workers, StartForks(w) PROVE SlotsFit'  BY <1>1, <1>5, SlotsStartForks
<1>6. ASSUME NEW w \in Workers, Ready(w) PROVE SlotsFit'  BY <1>1, <1>6, SlotsReady
<1>7. ASSUME NEW w \in Workers, StartTimeout(w) PROVE SlotsFit'
  <2>1. proc[w].awaited = "tick" /\ proc[w].chal = tick.chal  BY <1>1, <1>7, PoolTimeout
  <2>2. /\ life' = [life EXCEPT ![tick.chal] = Target(life[tick.chal], "SOLVER_ERROR")]
        /\ handle' = [handle EXCEPT ![tick.chal] = None] /\ CatchSlot(tick.chal)
    BY <1>7, <2>1 DEF StartTimeout
  <2>3. \A d \in Challenges : d # tick.chal => life'[d] = life[d] /\ handle'[d] = handle[d]
    BY <1>2, <2>2
  <2>4. QED  BY <1>1, <2>2, <2>3, SlotsCatch
<1>8. ASSUME NEW w \in Workers, Exit(w) PROVE SlotsFit'
  <2>1. PICK c \in Challenges : c = proc[w].chal  BY <1>1, <1>8, PoolExit
  <2>2. /\ life' = life \/ life' = [life EXCEPT ![c] = Target(life[c], "RECOVER_ACTIVE")]
        /\ handle' = [handle EXCEPT ![c] = None] /\ ReleaseSlot(c) /\ UNCHANGED tick
    BY <1>8, <2>1 DEF Exit, Requeue
  <2>3. \A d \in Challenges : d # c => life'[d] = life[d] /\ handle'[d] = handle[d]
    BY <1>2, <2>2
  <2>4. QED  BY <1>1, <2>2, <2>3, SlotsRelease
<1>9. ASSUME NEW c \in Challenges, Pause(c) \/ Park(c) \/ RestartSolver(c) \/ Correct(c) \/ Accept(c)
      PROVE  SlotsFit'
  <2>1. ReleaseSlot(c) /\ UNCHANGED <<handle, tick>>
    BY <1>9 DEF Pause, Park, RestartSolver, Correct, Accept, StopWorker
  <2>2. PICK s : life' = [life EXCEPT ![c] = s]
    BY <1>9 DEF Pause, Park, RestartSolver, Correct, Accept
  <2>3. \A d \in Challenges : d # c => life'[d] = life[d] /\ handle'[d] = handle[d]
    BY <1>2, <2>1, <2>2
  <2>4. QED  BY <1>1, <2>1, <2>3, SlotsRelease
<1>10. ASSUME NEW c \in Challenges,
              Resume(c) \/ Unpark(c) \/ FlagFound(c) \/ Wrong(c) \/ Unknown(c) \/ Reject(c)
       PROVE  SlotsFit'
  <2>1. UNCHANGED <<held, taken, tick, handle>>
    BY <1>10 DEF Resume, Unpark, FlagFound, Wrong, Unknown, Reject
  <2>2. PICK s : life' = [life EXCEPT ![c] = s] /\ (life[c] \in Worked /\ handle[c] # None => s \in Worked)
    <3>1. CASE Resume(c)  BY <1>2, <3>1, Targets DEF Resume, Worked
    <3>2. CASE Unpark(c)  BY <1>2, <3>2, Targets DEF Unpark, Worked
    <3>3. CASE FlagFound(c)  BY <1>2, <3>3, Allows DEF FlagFound, Worked
    <3>4. CASE Wrong(c)
      <4>1. life' = [life EXCEPT ![c] = Target(life[c], "SUBMIT_WRONG")]  BY <3>4 DEF Wrong
      <4>2. Target(life[c], "SUBMIT_WRONG") = IF life[c] = "SUBMITTING" THEN "ACTIVE" ELSE life[c]
        BY <1>2, Targets
      <4>3. QED  BY <4>1, <4>2 DEF Worked
    <3>5. CASE Unknown(c)
      <4>1. life' = [life EXCEPT ![c] = life[c]]  BY <1>2, <3>5 DEF Unknown
      <4>2. QED  BY <4>1
    <3>6. CASE Reject(c)
      <4>1. /\ handle[c] # None => life' = [life EXCEPT ![c] = AfterReject(life[c])]
            /\ handle[c] = None => life' = [life EXCEPT ![c] = Target(AfterReject(life[c]), "SOLVER_STOPPED")]
        BY <3>6 DEF Reject
      <4>2. life[c] \in Worked => AfterReject(life[c]) \in Worked  BY <1>2, Rejects DEF Worked
      <4>3. QED  BY <4>1, <4>2
    <3>7. QED  BY <1>10, <3>1, <3>2, <3>3, <3>4, <3>5, <3>6
  <2>3. \A d \in Challenges : life[d] \in Worked /\ handle[d] # None => life'[d] \in Worked
    BY <1>2, <2>2
  <2>4. QED  BY <1>1, <2>1, <2>3, SlotsStay
<1>11. CASE UNCHANGED vars  BY <1>1, <1>11 DEF vars, SlotsFit
<1>12. \A c \in Challenges : ~Lost(c) /\ ~Handoff(c) /\ ~HandoffFails(c) /\ ~ResumeSolving(c)
  BY <1>1 DEF OnlyCrashes, Pool, Lost, Handoff, HandoffFails, ResumeSolving
<1>13. QED
  BY <1>1, <1>3, <1>4, <1>5, <1>6, <1>7, <1>8, <1>9, <1>10, <1>11, <1>12, CalmSteps
     DEF Next, WorkerSteps, ChallengeSteps

(* Neither solverConcurrency nor the LLM slots are exceeded, and none is    *)
(* lost, whatever the human does and whenever workers crash, except that    *)
(* "resume solving" queues a challenge whose worker still runs.             *)
THEOREM PlacesAreKeptUnlessResumed ==
  ASSUME OnlyCrashes, "resumeSolving" \notin Operator
  PROVE  Spec => []PlacesAreKept
<1>1. Init => SlotsFit
  <2>1. SUFFICES ASSUME Init PROVE SlotsFit  OBVIOUS
  <2>2. held = {} /\ taken = 0 /\ tick.plan = {}  BY <2>1 DEF Init, Idle
  <2>3. QED  BY <2>2, FS_EmptySet DEF SlotsFit
<1>2. Inv /\ Pool /\ SlotsFit /\ [Next]_vars => SlotsFit'  BY SlotsStep
<1>3. Inv /\ Pool /\ SlotsFit => PlacesAreKept
  <2>1. SUFFICES ASSUME Inv, Pool, SlotsFit PROVE PlacesAreKept  OBVIOUS
  <2>2. Capacity
    <3>1. Cardinality(Placed(handle)) \in Nat  BY PlacedFinite
    <3>2. Cardinality(tick.plan) \in Nat
      <4>1. tick.plan \in SUBSET Challenges  BY <2>1, InvParts DEF Tick
      <4>2. QED  BY <4>1, PlanFinite
    <3>3. Bound(handle, tick) <= Concurrency  BY <2>1 DEF Pool, RoomFits
    <3>4. Concurrency \in Nat  BY WorkersAssumption
    <3>5. Cardinality(Placed(handle)) <= Concurrency  BY <3>1, <3>2, <3>3, <3>4 DEF Bound
    <3>6. QED  BY <3>5 DEF Capacity, HandleCount, Placed
  <2>3. NoSlotLeaks  BY <2>1, HeldFinite DEF SlotsFit, NoSlotLeaks
  <2>4. QED  BY <2>2, <2>3 DEF PlacesAreKept
<1>4. QED  BY <1>1, <1>2, <1>3, Invariance, PoolAlways, PTL DEF Spec
-----------------------------------------------------------------------------
(* Who is ACTIVE has a worker. A stop of a challenge that has no worker     *)
(* would be remembered until its next worker exits, and that one would then *)
(* not be put back: hence a careful human. Neither may a challenge leave    *)
(* SUBMITTING for ACTIVE or the queue while its worker is gone or runs on:  *)
(* hence no flags here.                                                     *)

Calm == Careful /\ "flag" \notin Operator

LivesFit ==
  /\ \A c \in Challenges : life[c] = "ACTIVE" => handle[c] # None
  /\ \A c \in Challenges : life[c] # "SUBMITTING"
  /\ \A c \in stopped : handle[c] # None /\ life[c] # "ACTIVE"
  /\ inflight = {}

(* One challenge changes, to a status s and with a handle h.               *)
LEMMA LivesChange ==
  ASSUME Inv, LivesFit, NEW c \in Challenges, UNCHANGED inflight,
         \A d \in Challenges : d # c => life'[d] = life[d] /\ handle'[d] = handle[d],
         stopped' \in {stopped, stopped \cup {c}, stopped \ {c}},
         life'[c] # "SUBMITTING",
         life'[c] = "ACTIVE" => handle'[c] # None,
         c \in stopped' => handle'[c] # None /\ life'[c] # "ACTIVE"
  PROVE  LivesFit'
<1>1. stopped \subseteq Challenges  BY InvParts
<1>2. QED  BY <1>1 DEF LivesFit

LEMMA LivesStep == OnlyCrashes /\ Calm /\ Inv /\ Pool /\ LivesFit /\ [Next]_vars => LivesFit'
<1>1. SUFFICES ASSUME OnlyCrashes, Calm, Inv, Pool, LivesFit, [Next]_vars PROVE LivesFit'  OBVIOUS
<1>2. /\ life \in [Challenges -> Lifecycles] /\ handle \in [Challenges -> Workers \cup {None}]
      /\ stopped \subseteq Challenges
  BY <1>1, InvParts DEF ProcOK
<1>3. ASSUME UNCHANGED <<life, handle, stopped, inflight>> PROVE LivesFit'  BY <1>1, <1>3 DEF LivesFit
<1>4. CASE TickStart  BY <1>3, <1>4 DEF TickStart
<1>5. CASE StartFails
  <2>1. PICK c \in Challenges : c = tick.chal  BY <1>1, <1>5 DEF StartFails, Pool, TickFits
  <2>2. /\ life' = [life EXCEPT ![c] = Target(life[c], "SOLVER_ERROR")]
        /\ UNCHANGED <<handle, stopped, inflight>>
    BY <1>5, <2>1 DEF StartFails
  <2>3. /\ life[c] # "SUBMITTING" /\ (c \in stopped => handle[c] # None /\ life[c] # "ACTIVE")
    BY <1>1 DEF LivesFit
  <2>4. life'[c] = IF life[c] = "ACTIVE" THEN "QUEUED" ELSE life[c]  BY <1>2, <2>2, Leaves
  <2>5. \A d \in Challenges : d # c => life'[d] = life[d]  BY <1>2, <2>2
  <2>6. QED  BY <1>1, <2>2, <2>3, <2>4, <2>5, LivesChange
<1>6. ASSUME NEW w \in Workers, StartForks(w) PROVE LivesFit'
  <2>1. PICK c \in Challenges : c = tick.chal  BY <1>1, <1>6 DEF StartForks, Pool, TickFits
  <2>2. /\ life' = [life EXCEPT ![c] = Target(life[c], "SCHEDULE")] /\ Allowed(life[c], "SCHEDULE")
        /\ handle' = [handle EXCEPT ![c] = w] /\ handle[c] = None /\ UNCHANGED <<stopped, inflight>>
    BY <1>6, <2>1 DEF StartForks, Fork
  <2>3. life'[c] = "ACTIVE" /\ \A d \in Challenges : d # c => life'[d] = life[d]
    BY <1>2, <2>2, Allows, Targets
  <2>4. handle'[c] # None /\ \A d \in Challenges : d # c => handle'[d] = handle[d]
    BY <1>2, <2>2, WorkersAssumption
  <2>5. c \notin stopped  BY <1>1, <2>2 DEF LivesFit
  <2>6. QED  BY <1>1, <2>2, <2>3, <2>4, <2>5, LivesChange
<1>7. ASSUME NEW w \in Workers, Ready(w) PROVE LivesFit'  BY <1>3, <1>7 DEF Ready
<1>8. ASSUME NEW w \in Workers, StartTimeout(w) PROVE LivesFit'
  <2>1. PICK c \in Challenges : c = tick.chal
    BY <1>1, <1>8, PoolTimeout DEF Pool, TickFits
  <2>2. proc[w].awaited = "tick" /\ proc[w].chal = c /\ handle[c] = None
    BY <1>1, <1>8, <2>1, PoolTimeout
  <2>3. /\ life' = [life EXCEPT ![c] = Target(life[c], "SOLVER_ERROR")]
        /\ handle' = [handle EXCEPT ![c] = None] /\ UNCHANGED <<stopped, inflight>>
    BY <1>8, <2>2 DEF StartTimeout
  <2>4. life[c] # "SUBMITTING" /\ c \notin stopped  BY <1>1, <2>2 DEF LivesFit
  <2>5. life'[c] = IF life[c] = "ACTIVE" THEN "QUEUED" ELSE life[c]  BY <1>2, <2>3, Leaves
  <2>6. \A d \in Challenges : d # c => life'[d] = life[d] /\ handle'[d] = handle[d]  BY <1>2, <2>3
  <2>7. QED  BY <1>1, <2>3, <2>4, <2>5, <2>6, LivesChange
<1>9. ASSUME NEW w \in Workers, Exit(w) PROVE LivesFit'
  <2>1. PICK c \in Challenges : c = proc[w].chal  BY <1>1, <1>9, PoolExit
  <2>2. /\ handle' = [handle EXCEPT ![c] = None] /\ stopped' = stopped \ {c} /\ UNCHANGED inflight
        /\ IF c \in stopped THEN life' = life ELSE Requeue(c)
    BY <1>9, <2>1 DEF Exit
  <2>3. life[c] # "SUBMITTING" /\ (c \in stopped => life[c] # "ACTIVE")  BY <1>1 DEF LivesFit
  <2>4. /\ life'[c] # "ACTIVE" /\ life'[c] # "SUBMITTING"
        /\ \A d \in Challenges : d # c => life'[d] = life[d]
    <3>1. CASE life' = life /\ life[c] # "ACTIVE"  BY <2>3, <3>1
    <3>2. CASE life' = [life EXCEPT ![c] = Target(life[c], "RECOVER_ACTIVE")]
      BY <1>2, <2>3, <3>2, Leaves
    <3>3. QED  BY <2>2, <2>3, <3>1, <3>2 DEF Requeue
  <2>5. \A d \in Challenges : d # c => handle'[d] = handle[d]  BY <1>2, <2>2
  <2>6. QED  BY <1>1, <2>2, <2>4, <2>5, LivesChange
<1>10. ASSUME NEW c \in Challenges, Pause(c) \/ Park(c) \/ RestartSolver(c) \/ Accept(c)
       PROVE  LivesFit'
  <2>1. handle[c] # None /\ stopped' = stopped \cup {c} /\ UNCHANGED <<handle, inflight>>
    BY <1>1, <1>10 DEF Pause, Park, RestartSolver, Accept, StopWorker, MayStop, Calm
  <2>2. life[c] \in Lifecycles /\ life[c] # "SUBMITTING"  BY <1>1, <1>2 DEF LivesFit
  <2>3. PICK s : life' = [life EXCEPT ![c] = s] /\ s # "SUBMITTING" /\ s # "ACTIVE"
    <3>1. CASE Pause(c)
      <4>1. life' = [life EXCEPT ![c] = Target(life[c], "PAUSE")]  BY <3>1 DEF Pause
      <4>2. Target(life[c], "PAUSE") = IF life[c] \in {"QUEUED", "ACTIVE", "SUBMITTING"} THEN "PAUSED" ELSE life[c]
        BY <2>2, Targets
      <4>3. QED  BY <2>2, <4>1, <4>2
    <3>2. CASE Park(c)
      <4>1. life' = [life EXCEPT ![c] = Target(life[c], "PARK")]  BY <3>2 DEF Park
      <4>2. Target(life[c], "PARK") = IF life[c] \in {"QUEUED", "ACTIVE", "PAUSED"} THEN "PARKED" ELSE life[c]
        BY <2>2, Targets
      <4>3. QED  BY <2>2, <4>1, <4>2
    <3>3. CASE RestartSolver(c)
      <4>1. life' = [life EXCEPT ![c] = Target(life[c], "RESTART_SOLVER")]  BY <3>3 DEF RestartSolver
      <4>2. QED  BY <2>2, <4>1, Leaves
    <3>4. CASE Accept(c)  BY <3>4 DEF Accept
    <3>5. QED  BY <1>10, <3>1, <3>2, <3>3, <3>4
  <2>4. life'[c] = s /\ \A d \in Challenges : d # c => life'[d] = life[d]  BY <1>2, <2>3
  <2>5. QED  BY <1>1, <2>1, <2>3, <2>4, LivesChange
<1>11. ASSUME NEW c \in Challenges, Resume(c) \/ Unpark(c) \/ Reject(c)  PROVE LivesFit'
  <2>1. UNCHANGED <<handle, stopped, inflight>>  BY <1>11 DEF Resume, Unpark, Reject
  <2>2. /\ life[c] \in Lifecycles /\ life[c] # "SUBMITTING"
        /\ life[c] = "ACTIVE" => handle[c] # None
        /\ c \in stopped => handle[c] # None /\ life[c] # "ACTIVE"
    BY <1>1, <1>2 DEF LivesFit
  <2>3. PICK s : /\ life' = [life EXCEPT ![c] = s] /\ s # "SUBMITTING"
                 /\ s = "ACTIVE" => life[c] = "ACTIVE"
    <3>1. CASE Resume(c)
      <4>1. life' = [life EXCEPT ![c] = Target(life[c], "RESUME")]  BY <3>1 DEF Resume
      <4>2. Target(life[c], "RESUME") = IF life[c] = "PAUSED" THEN "QUEUED" ELSE life[c]
        BY <2>2, Targets
      <4>3. QED  BY <2>2, <4>1, <4>2
    <3>2. CASE Unpark(c)
      <4>1. life' = [life EXCEPT ![c] = Target(life[c], "UNPARK")]  BY <3>2 DEF Unpark
      <4>2. Target(life[c], "UNPARK") = IF life[c] = "PARKED" THEN "QUEUED" ELSE life[c]
        BY <2>2, Targets
      <4>3. QED  BY <2>2, <4>1, <4>2
    <3>3. CASE Reject(c)
      <4>1. \/ life' = [life EXCEPT ![c] = AfterReject(life[c])]
            \/ life' = [life EXCEPT ![c] = Target(AfterReject(life[c]), "SOLVER_STOPPED")]
        BY <3>3 DEF Reject
      <4>2. QED  BY <2>2, <4>1, Rejects
    <3>4. QED  BY <1>11, <3>1, <3>2, <3>3
  <2>4. life'[c] = s /\ \A d \in Challenges : d # c => life'[d] = life[d]  BY <1>2, <2>3
  <2>5. QED  BY <1>1, <2>1, <2>2, <2>3, <2>4, LivesChange
<1>12. CASE UNCHANGED vars  BY <1>3, <1>12 DEF vars
<1>13. \A c \in Challenges :
         /\ ~Lost(c) /\ ~Handoff(c) /\ ~HandoffFails(c) /\ ~ResumeSolving(c)
         /\ ~FlagFound(c) /\ ~Wrong(c) /\ ~Correct(c) /\ ~Unknown(c)
  <2>1. TAKE c \in Challenges
  <2>2. ~Lost(c) /\ ~Handoff(c) /\ ~HandoffFails(c)
    BY <1>1 DEF OnlyCrashes, Pool, Lost, Handoff, HandoffFails
  <2>3. ~ResumeSolving(c)  BY <1>1, <1>2, Allows DEF LivesFit, ResumeSolving
  <2>4. ~FlagFound(c) /\ ~Wrong(c) /\ ~Correct(c) /\ ~Unknown(c)
    BY <1>1 DEF Calm, LivesFit, FlagFound, Wrong, Correct, Unknown
  <2>5. QED  BY <2>2, <2>3, <2>4
<1>14. QED
  BY <1>1, <1>4, <1>5, <1>6, <1>7, <1>8, <1>9, <1>10, <1>11, <1>12, <1>13, CalmSteps
     DEF Next, WorkerSteps, ChallengeSteps

(* The processes follow the status, when workers only crash and the human   *)
(* stops only what runs: who is stopped was told so, and who is ACTIVE has  *)
(* a worker.                                                                *)
THEOREM WorkFollowsWhenCalm ==
  ASSUME OnlyCrashes, Calm
  PROVE  Spec => []WorkFollowsStatus
<1>1. Init => LivesFit
  <2>1. SUFFICES ASSUME Init PROVE LivesFit  OBVIOUS
  <2>2. /\ \A c \in Challenges : life[c] = "QUEUED"
        /\ stopped = {} /\ inflight = {}
    BY <2>1 DEF Init
  <2>3. QED  BY <2>2 DEF LivesFit
<1>2. Inv /\ Pool /\ LivesFit /\ [Next]_vars => LivesFit'  BY LivesStep
<1>3. LivesFit => ActiveIsWorked  BY DEF LivesFit, ActiveIsWorked
<1>4. Spec => []LivesFit  BY <1>1, <1>2, Invariance, PoolAlways, PTL DEF Spec
<1>5. QED  BY <1>3, <1>4, StoppedAreTold, PTL DEF WorkFollowsStatus
-----------------------------------------------------------------------------
(* The pool keeps the promise of Crew.                                     *)

LEMMA WhoIsPresent ==
  ASSUME Inv, Pool
  PROVE  /\ \A c \in Challenges : handle[c] = None => Present[c] = {}
         /\ \A c \in Challenges : handle[c] # None => Present[c] = {handle[c]}
         /\ Promised!Manned = Placed(handle)
<1>1. handle \in [Challenges -> Workers \cup {None}] /\ None \notin Workers
  BY InvParts, WorkersAssumption DEF ProcOK
<1>2. ASSUME NEW c \in Challenges, handle[c] = None PROVE Present[c] = {}
  BY <1>1, <1>2 DEF Present, Pool, ProcessesFit
<1>3. ASSUME NEW c \in Challenges, handle[c] # None PROVE Present[c] = {handle[c]}
  <2>1. handle[c] \in Workers /\ proc[handle[c]].state # "none" /\ proc[handle[c]].chal = c
    BY <1>1, <1>3 DEF Pool, ProcessesFit
  <2>2. \A w \in Workers : proc[w].chal = c /\ proc[w].state # "none" => w = handle[c]
    BY DEF Pool, ProcessesFit
  <2>3. QED  BY <2>1, <2>2 DEF Present
<1>4. Promised!Manned = Placed(handle)
  BY <1>2, <1>3 DEF Promised!Manned, Placed
<1>5. QED  BY <1>2, <1>3, <1>4

(* A change of one status that sets nobody aside.                           *)
LEMMA CrewGoesBack ==
  ASSUME NEW c \in Challenges, UNCHANGED <<Present, ToldToStop>>,
         \A d \in Challenges : d # c => life'[d] = life[d],
         life'[c] \in Stopped => life[c] \in Stopped
  PROVE  [Promised!Next]_(Promised!cvars)
<1>1. Aside' = Aside \/ Aside' = Aside \ {c}
  BY DEF Aside, Stopped
<1>2. CASE Aside' = Aside  BY <1>2 DEF Promised!cvars
<1>3. CASE Aside' = Aside \ {c}
  <2>1. Promised!Back(c)  BY <1>3 DEF Promised!Back
  <2>2. QED  BY <2>1, Zenon DEF Promised!Next
<1>4. QED  BY <1>1, <1>2, <1>3

(* An order goes to whom the handle stands for, and it is the one present.  *)
LEMMA CrewIsTold ==
  ASSUME Inv, Pool, NEW c \in Challenges, NEW order \in {"abort", "kill"}, Tell(c, order),
         \A d \in Challenges : d # c => life'[d] = life[d],
         life[c] \in Stopped => life'[c] \in Stopped
  PROVE  [Promised!Next]_(Promised!cvars)
<1>1. ProcOK /\ None \notin Workers  BY InvParts, WorkersAssumption
<1>2. \A w \in Workers :
        /\ proc'[w].state = proc[w].state /\ proc'[w].chal = proc[w].chal
        /\ proc'[w].order = "none" => proc[w].order = "none" /\ (proc[w].state # "none" => proc[w].chal # c)
  BY TellTells
<1>3. Present' = Present  BY <1>2 DEF Present
<1>4. ASSUME NEW w \in Workers, w \notin Present[c] PROVE proc'[w].order = proc[w].order
  <2>1. CASE handle[c] = None  BY <2>1 DEF Tell
  <2>2. CASE handle[c] # None
    <3>1. PICK o : proc' = [proc EXCEPT ![handle[c]].order = o]  BY <2>2 DEF Tell
    <3>2. w # handle[c]  BY <1>4, <2>2, WhoIsPresent
    <3>3. QED  BY <1>1, <3>1, <3>2 DEF ProcOK
  <2>3. QED  BY <2>1, <2>2
<1>5. \A w \in Workers : w \in Present[c] <=> proc[w].chal = c /\ proc[w].state # "none"
  BY DEF Present
<1>6. Present[c] \subseteq Workers  BY DEF Present
<1>7. ToldToStop' = ToldToStop \cup Present[c]
  BY <1>2, <1>4, <1>5, <1>6 DEF ToldToStop
<1>8. Aside' \in {Aside, Aside \cup {c}}
  BY DEF Aside, Stopped
<1>9. Promised!Stop(c)  BY <1>3, <1>7, <1>8 DEF Promised!Stop
<1>10. QED  BY <1>9, Zenon DEF Promised!Next

LEMMA CrewStarts ==
  ASSUME Inv, Pool, NEW w \in Workers, StartForks(w)
  PROVE  [Promised!Next]_(Promised!cvars)
<1>1. PICK c \in Challenges : c = tick.chal  BY DEF StartForks, Pool, TickFits
<1>2. /\ life' = [life EXCEPT ![c] = Target(life[c], "SCHEDULE")] /\ Allowed(life[c], "SCHEDULE")
      /\ Fork(c, w, "tick") /\ tick.at = "ensure" /\ handle[c] = None
  BY <1>1 DEF StartForks
<1>3. life \in [Challenges -> Lifecycles] /\ ProcOK /\ tick \in Tick /\ None \notin Workers
  BY InvParts, WorkersAssumption
<1>4. life[c] = "QUEUED" /\ life'[c] = "ACTIVE" /\ \A d \in Challenges : d # c => life'[d] = life[d]
  BY <1>2, <1>3, Allows, Targets
<1>5. Aside' = Aside /\ c \notin Aside
  BY <1>4 DEF Aside
<1>6. /\ proc[w] = NoProcess
      /\ proc'[w] = [state |-> "starting", chal |-> c, order |-> "none", awaited |-> "tick"]
      /\ \A v \in Workers \ {w} : proc'[v] = proc[v]
  BY <1>2, <1>3 DEF Fork, ProcOK
<1>7. /\ proc[w].state = "none" /\ proc'[w].state = "starting" /\ proc'[w].chal = c
      /\ proc'[w].order = "none"
  BY <1>6 DEF NoProcess
<1>8. ToldToStop' = ToldToStop  BY <1>6, <1>7 DEF ToldToStop
<1>9. Present[c] = {} /\ \A d \in Challenges : w \notin Present[d]
  BY <1>2, <1>7, WhoIsPresent DEF Present
<1>10. Present' = [Present EXCEPT ![c] = {w}]
  <2>1. ASSUME NEW d \in Challenges, d # c PROVE Present'[d] = Present[d]
    BY <1>6, <1>7, <2>1 DEF Present
  <2>2. Present'[c] = {w}
    <3>1. \A v \in Workers : proc[v].chal = c => proc[v].state = "none"  BY <1>9 DEF Present
    <3>2. QED  BY <1>6, <1>7, <3>1 DEF Present
  <2>3. QED  BY <2>1, <2>2 DEF Present
<1>11. Cardinality(Promised!Manned) < Concurrency
  <2>1. Cardinality(Placed(handle)) \in Nat  BY PlacedFinite
  <2>2. Cardinality(tick.plan) \in Nat  BY <1>3, PlanFinite DEF Tick
  <2>3. Bound(handle, tick) <= Concurrency  BY DEF Pool, RoomFits
  <2>4. Concurrency \in Nat  BY WorkersAssumption
  <2>5. Cardinality(Placed(handle)) < Concurrency  BY <1>2, <2>1, <2>2, <2>3, <2>4 DEF Bound
  <2>6. QED  BY <2>5, WhoIsPresent
<1>12. Promised!Cardinality(Promised!Manned) = Cardinality(Promised!Manned)
  BY Zenon DEF Promised!Cardinality, Cardinality
<1>13. Promised!Start(c, w)
  BY <1>5, <1>8, <1>9, <1>10, <1>11, <1>12 DEF Promised!Start
<1>14. QED  BY <1>13, Zenon DEF Promised!Next

LEMMA CrewLeaves ==
  ASSUME Inv, Pool, NEW w \in Workers, Exit(w)
  PROVE  [Promised!Next]_(Promised!cvars)
<1>1. PICK c \in Challenges : c = proc[w].chal  BY PoolExit
<1>2. handle[c] = w /\ proc'[w].state = "none" /\ \A v \in Workers \ {w} : proc'[v] = proc[v]
  BY <1>1, PoolExit
<1>3. life \in [Challenges -> Lifecycles] /\ None \notin Workers  BY InvParts, WorkersAssumption
<1>4. life' = life \/ life' = [life EXCEPT ![c] = Target(life[c], "RECOVER_ACTIVE")]
  BY <1>1 DEF Exit, Requeue
<1>5. /\ \A d \in Challenges : d # c => life'[d] = life[d]
      /\ life'[c] \in Stopped <=> life[c] \in Stopped
  BY <1>3, <1>4, Leaves DEF Stopped
<1>6. Aside' = Aside  BY <1>5 DEF Aside, Stopped
<1>7. Present[c] = {w}  BY <1>2, <1>3, WhoIsPresent
<1>8. Present' = [Present EXCEPT ![c] = {}]
  <2>1. ASSUME NEW d \in Challenges, d # c PROVE Present'[d] = Present[d]
    <3>1. proc[w].chal # d  BY <1>1, <2>1
    <3>2. QED  BY <1>2, <3>1 DEF Present
  <2>2. Present'[c] = {}
    <3>1. \A v \in Workers \ {w} : proc[v].chal = c => proc[v].state = "none"  BY <1>7 DEF Present
    <3>2. QED  BY <1>2, <3>1 DEF Present
  <2>3. QED  BY <2>1, <2>2 DEF Present
<1>9. ToldToStop' = ToldToStop \ {w}  BY <1>2 DEF ToldToStop
<1>10. Promised!Gone(c, w)  BY <1>6, <1>7, <1>8, <1>9 DEF Promised!Gone
<1>11. QED  BY <1>10, Zenon DEF Promised!Next

LEMMA CrewStep ==
  ASSUME OnlyCrashes, Inv, Pool, [Next]_vars
  PROVE  [Promised!Next]_(Promised!cvars)
<1>1. life \in [Challenges -> Lifecycles] /\ ProcOK  BY InvParts
<1>2. ASSUME UNCHANGED <<life, proc>> PROVE [Promised!Next]_(Promised!cvars)
  BY <1>2 DEF Promised!cvars, Present, ToldToStop, Aside
<1>3. ASSUME NEW c \in Challenges, UNCHANGED proc,
             \E s : life' = [life EXCEPT ![c] = s] /\ (s \in Stopped => life[c] \in Stopped)
      PROVE  [Promised!Next]_(Promised!cvars)
  <2>1. UNCHANGED <<Present, ToldToStop>>  BY <1>3 DEF Present, ToldToStop
  <2>2. PICK s : life' = [life EXCEPT ![c] = s] /\ (s \in Stopped => life[c] \in Stopped)  BY <1>3
  <2>3. \A d \in Challenges : d # c => life'[d] = life[d]  BY <1>1, <2>2
  <2>4. life'[c] \in Stopped => life[c] \in Stopped  BY <1>1, <2>2
  <2>5. QED  BY <2>1, <2>3, <2>4, CrewGoesBack
<1>4. CASE TickStart  BY <1>2, <1>4 DEF TickStart
<1>5. CASE StartFails
  <2>1. tick.chal \in Challenges  BY <1>5 DEF StartFails, Pool, TickFits
  <2>2. life' = [life EXCEPT ![tick.chal] = Target(life[tick.chal], "SOLVER_ERROR")] /\ UNCHANGED proc
    BY <1>5 DEF StartFails
  <2>3. Target(life[tick.chal], "SOLVER_ERROR") \in Stopped => life[tick.chal] \in Stopped
    BY <1>1, <2>1, Leaves DEF Stopped
  <2>4. QED  BY <1>3, <2>1, <2>2, <2>3
<1>6. ASSUME NEW w \in Workers, Ready(w)  PROVE [Promised!Next]_(Promised!cvars)
  <2>1. /\ \A v \in Workers : proc'[v].chal = proc[v].chal /\ proc'[v].order = proc[v].order
                              /\ (proc'[v].state # "none" <=> proc[v].state # "none")
        /\ UNCHANGED life
    BY <1>1, <1>6 DEF Ready, ProcOK, Process
  <2>2. QED  BY <2>1 DEF Promised!cvars, Present, ToldToStop, Aside
<1>7. ASSUME NEW w \in Workers, StartTimeout(w)  PROVE [Promised!Next]_(Promised!cvars)
  <2>1. /\ proc[w].awaited = "tick" /\ proc[w].chal = tick.chal /\ proc[w].state = "none"
        /\ proc'[w] = NoProcess /\ \A v \in Workers \ {w} : proc'[v] = proc[v]
    BY <1>7, PoolTimeout
  <2>2. PICK c \in Challenges : c = proc[w].chal
    BY <1>7, PoolTimeout DEF Pool, TickFits
  <2>3. life' = [life EXCEPT ![c] = Target(life[c], "SOLVER_ERROR")]  BY <1>7, <2>1, <2>2 DEF StartTimeout
  <2>4. \A d \in Challenges : d # c => life'[d] = life[d]  BY <1>1, <2>3
  <2>5. life'[c] \in Stopped => life[c] \in Stopped  BY <1>1, <2>3, Leaves DEF Stopped
  <2>6. NoProcess.state = "none"  BY DEF NoProcess
  <2>7. Present' = Present /\ ToldToStop' = ToldToStop  BY <2>1, <2>6 DEF Present, ToldToStop
  <2>8. QED  BY <2>4, <2>5, <2>7, CrewGoesBack
<1>8. ASSUME NEW c \in Challenges, Pause(c) \/ Park(c) \/ RestartSolver(c) \/ Correct(c) \/ Accept(c)
      PROVE  [Promised!Next]_(Promised!cvars)
  <2>1. Tell(c, "abort") \/ Tell(c, "kill")
    BY <1>8 DEF Pause, Park, RestartSolver, Correct, Accept, StopWorker
  <2>2. PICK s : life' = [life EXCEPT ![c] = s] /\ (life[c] \in Stopped => s \in Stopped)
    <3>1. CASE Pause(c)  BY <1>1, <3>1, Targets DEF Pause, Stopped
    <3>2. CASE Park(c)  BY <1>1, <3>2, Targets DEF Park, Stopped
    <3>3. CASE RestartSolver(c)
      <4>1. life' = [life EXCEPT ![c] = Target(life[c], "RESTART_SOLVER")]  BY <3>3 DEF RestartSolver
      <4>2. Target(life[c], "RESTART_SOLVER") = IF life[c] = "ACTIVE" THEN "QUEUED" ELSE life[c]
        BY <1>1, Leaves
      <4>3. QED  BY <4>1, <4>2 DEF Stopped
    <3>4. CASE Correct(c)
      <4>1. life' = [life EXCEPT ![c] = Target(life[c], "SUBMIT_CORRECT")]  BY <3>4 DEF Correct
      <4>2. Target(life[c], "SUBMIT_CORRECT") = IF life[c] = "SUBMITTING" THEN "SOLVED" ELSE life[c]
        BY <1>1, Targets
      <4>3. QED  BY <4>1, <4>2 DEF Stopped
    <3>5. CASE Accept(c)  BY <1>1, <3>5 DEF Accept, Stopped
    <3>6. QED  BY <1>8, <3>1, <3>2, <3>3, <3>4, <3>5
  <2>3. \A d \in Challenges : d # c => life'[d] = life[d]  BY <1>1, <2>2
  <2>4. life[c] \in Stopped => life'[c] \in Stopped  BY <1>1, <2>2
  <2>5. QED  BY <2>1, <2>3, <2>4, CrewIsTold
<1>9. ASSUME NEW c \in Challenges,
             Resume(c) \/ Unpark(c) \/ FlagFound(c) \/ Wrong(c) \/ Unknown(c) \/ Reject(c) \/ ResumeSolving(c)
      PROVE  [Promised!Next]_(Promised!cvars)
  <2>1. UNCHANGED proc
    BY <1>9 DEF Resume, Unpark, FlagFound, Wrong, Unknown, Reject, ResumeSolving
  <2>2. \E s : life' = [life EXCEPT ![c] = s] /\ (s \in Stopped => life[c] \in Stopped)
    BY <1>1, <1>9, SpokenFor
  <2>3. QED  BY <1>3, <2>1, <2>2
<1>10. CASE UNCHANGED vars  BY <1>2, <1>10 DEF vars
<1>11. \A c \in Challenges : ~Lost(c) /\ ~Handoff(c) /\ ~HandoffFails(c)
  BY DEF OnlyCrashes, Pool, Lost, Handoff, HandoffFails
<1>12. QED
  BY <1>4, <1>5, <1>6, <1>7, <1>8, <1>9, <1>10, <1>11, CalmSteps, CrewStarts, CrewLeaves
     DEF Next, WorkerSteps, ChallengeSteps

(* While a crash is the only fault, the pool implements Crew, for any       *)
(* number of challenges and processes and whatever the human does: each of  *)
(* its steps - ticks that await, exits heard late, orders to processes that *)
(* have not started, verdicts after a pause - is one that Crew allows.      *)
THEOREM PoolKeepsPromise == ASSUME OnlyCrashes PROVE Spec => CrewSpec
<1>1. Init => Promised!Init
  <2>1. SUFFICES ASSUME Init PROVE Promised!Init  OBVIOUS
  <2>2. \A w \in Workers : proc[w].state = "none"  BY <2>1 DEF Init, NoProcess
  <2>3. Present = [c \in Challenges |-> {}] /\ ToldToStop = {}  BY <2>2 DEF Present, ToldToStop
  <2>4. Aside = {}  BY <2>1 DEF Init, Aside
  <2>5. QED  BY <2>3, <2>4 DEF Promised!Init
<1>2. Inv /\ Pool /\ [Next]_vars => [Promised!Next]_(Promised!cvars)  BY CrewStep
<1>3. QED  BY <1>1, <1>2, Invariance, PoolAlways, PTL DEF Spec, CrewSpec, Promised!Spec
================================================================================
