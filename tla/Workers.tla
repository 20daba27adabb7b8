------------------------------- MODULE Workers -------------------------------
(***************************************************************************)
(* Who works on which challenge: the start of workers by the scheduler     *)
(* tick, WorkerPool (apps/server/src/control/worker-pool.ts), the LLM      *)
(* slots, and what the control plane does when a worker exits, is lost, or *)
(* is stopped by the human, by a verdict or by a handoff.                  *)
(*                                                                         *)
(* The control plane is a single thread; a handler is one action up to its *)
(* next await. #startSolver awaits the contest (startService.ensure) and   *)
(* then the worker's "ready"; handoff awaits 800 ms and then "ready". A    *)
(* worker is a process of its own: that it exits and that its pool hears   *)
(* of it is one action, as late as it may come.                            *)
(***************************************************************************)
EXTENDS Integers, FiniteSets, LifecycleTable

CONSTANTS
  Challenges,
  Workers,       \* the processes alive at the same time (bound)
  None,          \* no challenge, no worker
  Concurrency,   \* config workers.solverConcurrency
  Slots,         \* config resources.llm
  Operator,      \* what the human does, and whether flags are found
  Faults,        \* "crash": a worker exits by itself, "slow": 60 s without "ready",
                 \* "lost": no pong for leaseTtlMs, "handoff": a solver asks for another
  Careful        \* does the human stop a challenge only while it has a worker?

ASSUME WorkersAssumption ==
  /\ IsFiniteSet(Challenges) /\ IsFiniteSet(Workers)
  /\ None \notin Challenges \cup Workers
  /\ Concurrency \in Nat \ {0}
  /\ Slots \in Nat \ {0}
  /\ Operator \subseteq {"pause", "park", "restart", "accept", "reject", "flag", "resumeSolving"}
  /\ Faults \subseteq {"crash", "slow", "lost", "handoff"}
  /\ Careful \in BOOLEAN

VARIABLES
  life,     \* challenges.lifecycle_status
  lease,    \* challenge -> worker of its row in worker_leases
  handle,   \* WorkerPool.workers: challenge -> worker
  proc,     \* the processes
  held,     \* llmHeld: the challenges a slot is kept for
  taken,    \* LLM slots handed out by the semaphore
  stopped,  \* intentionallyStopped
  tick,     \* where the running scheduler tick stands
  draining, \* the challenges whose handoff waits for the old worker
  inflight  \* the challenges with a submission under way at the judge

vars == <<life, lease, handle, proc, held, taken, stopped, tick, draining, inflight>>

Lifecycles == {"QUEUED", "ACTIVE", "SUBMITTING", "PAUSED", "PARKED", "SOLVED"}

NoProcess == [state |-> "none", chal |-> None, order |-> "none", awaited |-> "no"]

(* A process: not there, forked, or ready; whose it is; what it was told    *)
(* ("abort" message or SIGKILL); and who awaits its "ready".                *)
Process == [state : {"none", "starting", "running"}, chal : Challenges \cup {None},
            order : {"none", "abort", "kill"}, awaited : {"no", "tick", "handoff"}]

Idle == [at |-> "idle", chal |-> None, plan |-> {}]

Tick == [at : {"idle", "ensure", "ready"}, chal : Challenges \cup {None}, plan : SUBSET Challenges]

HandleCount == Cardinality({c \in Challenges : handle[c] # None})

Init ==
  /\ life = [c \in Challenges |-> "QUEUED"]
  /\ lease = [c \in Challenges |-> None]
  /\ handle = [c \in Challenges |-> None]
  /\ proc = [w \in Workers |-> NoProcess]
  /\ held = {}
  /\ taken = 0
  /\ stopped = {}
  /\ tick = Idle
  /\ draining = {}
  /\ inflight = {}
-----------------------------------------------------------------------------

(* releaseLlmSlot. *)
ReleaseSlot(c) ==
  /\ held' = held \ {c}
  /\ taken' = IF c \in held THEN taken - 1 ELSE taken

(* Mutant of DropLease: the row is left to expire. *)
KeepLease(c) == lease' = lease

(* leases.release. *)
DropLease(c) == lease' = [lease EXCEPT ![c] = None]

(* A challenge whose worker went by itself. *)
Requeue(c) == life' = IF life[c] = "ACTIVE" THEN [life EXCEPT ![c] = Target(@, "RECOVER_ACTIVE")] ELSE life

(* Mutant of Tell: "abort" sent before the worker runs is forgotten. *)
TellRunning(c, order) ==
  IF handle[c] = None \/ (order = "abort" /\ proc[handle[c]].state # "running")
  THEN UNCHANGED proc
  ELSE proc' = [proc EXCEPT ![handle[c]].order = IF @ = "kill" THEN @ ELSE order]

(* WorkerPool.abort and kill reach whatever process the handle stands for.  *)
Tell(c, order) ==
  IF handle[c] = None
  THEN UNCHANGED proc
  ELSE proc' = [proc EXCEPT ![handle[c]].order = IF @ = "kill" THEN @ ELSE order]

Fork(c, w, caller) ==
  /\ proc[w] = NoProcess
  /\ proc' = [proc EXCEPT ![w] = [state |-> "starting", chal |-> c, order |-> "none", awaited |-> caller]]
  /\ handle' = [handle EXCEPT ![c] = w]

(* The process table without w, whose identity may be used again once       *)
(* nobody awaits it.                                                        *)
Forget(w) == IF proc[w].awaited = "no" THEN NoProcess ELSE [proc[w] EXCEPT !.state = "none"]
-----------------------------------------------------------------------------
(* The scheduler tick.                                                     *)

(* The loop over the admitted challenges from one await to the next: h and  *)
(* t are the slots kept and handed out so far.                              *)
Advance(rest, h, t) ==
  \/ /\ rest = {} \/ t = Slots
     /\ tick' = Idle
     /\ held' = h /\ taken' = t
  \/ /\ t < Slots
     /\ \E c \in rest :
          /\ tick' = [at |-> "ensure", chal |-> c, plan |-> rest \ {c}]
          /\ held' = h \cup {c} /\ taken' = t + 1

(* How many solvers may still be started. *)
Room == Concurrency - HandleCount

(* The ranked list of admitted challenges, cut to the capacity. Ranking and *)
(* admission are left open.                                                 *)
TickStart ==
  /\ tick = Idle
  /\ \E plan \in SUBSET {c \in Challenges : life[c] = "QUEUED"} :
       /\ plan # {}
       /\ Cardinality(plan) <= Room
       /\ Advance(plan, held, taken)
  /\ UNCHANGED <<life, lease, handle, proc, stopped, draining, inflight>>

(* Mutant of CatchSlot: the slot is only dropped from llmHeld. *)
CatchKeepsSlot(c) == Advance(tick.plan, held \ {c}, taken)

(* The catch of the tick gives its slot back, unless somebody did, and the  *)
(* loop goes on.                                                            *)
CatchSlot(c) == Advance(tick.plan, held \ {c}, IF c \in held THEN taken - 1 ELSE taken)

(* startService.ensure, SCHEDULE or startWorker refuses: SOLVER_ERROR,      *)
(* whatever the challenge has become in the meantime.                       *)
StartFails ==
  /\ tick.at = "ensure"
  /\ life' = [life EXCEPT ![tick.chal] = Target(@, "SOLVER_ERROR")]
  /\ CatchSlot(tick.chal)
  /\ UNCHANGED <<lease, handle, proc, stopped, draining, inflight>>

(* Mutant of StartForks: startWorker does not look for a running worker. *)
StartForksAnyway(w) ==
  LET c == tick.chal IN
  /\ tick.at = "ensure"
  /\ Allowed(life[c], "SCHEDULE")
  /\ life' = [life EXCEPT ![c] = Target(@, "SCHEDULE")]
  /\ Fork(c, w, "tick")
  /\ tick' = [tick EXCEPT !.at = "ready"]
  /\ UNCHANGED <<lease, held, taken, stopped, draining, inflight>>

StartForks(w) ==
  LET c == tick.chal IN
  /\ tick.at = "ensure"
  /\ Allowed(life[c], "SCHEDULE")
  /\ handle[c] = None
  /\ life' = [life EXCEPT ![c] = Target(@, "SCHEDULE")]
  /\ Fork(c, w, "tick")
  /\ tick' = [tick EXCEPT !.at = "ready"]
  /\ UNCHANGED <<lease, held, taken, stopped, draining, inflight>>

(* "ready" arrives: the lease is taken, the tick or the handoff goes on. A  *)
(* worker answers "start" before it looks at "abort".                       *)
Ready(w) ==
  /\ proc[w].state = "starting"
  /\ proc' = [proc EXCEPT ![w].state = "running", ![w].awaited = "no"]
  /\ IF proc[w].awaited = "no"
     THEN UNCHANGED <<lease, tick, held, taken>>
     ELSE /\ lease' = [lease EXCEPT ![proc[w].chal] = w]
          /\ IF proc[w].awaited = "tick"
             THEN Advance(tick.plan, held, taken)
             ELSE UNCHANGED <<tick, held, taken>>
  /\ UNCHANGED <<life, handle, stopped, draining, inflight>>

(* Mutant of StartTimeout: the exit of the process clears the timer. *)
StartTimeoutIfAlive(w) ==
  LET c == proc[w].chal IN
  /\ proc[w].awaited # "no"
  /\ proc[w].state # "none"
  /\ "slow" \in Faults
  /\ handle' = [handle EXCEPT ![c] = None]
  /\ proc' = [proc EXCEPT ![w].awaited = "no", ![w].order = "kill"]
  /\ life' = IF proc[w].awaited = "tick" THEN [life EXCEPT ![c] = Target(@, "SOLVER_ERROR")] ELSE life
  /\ IF proc[w].awaited = "tick" THEN CatchSlot(c) ELSE UNCHANGED <<tick, held, taken>>
  /\ UNCHANGED <<lease, stopped, draining, inflight>>

(* 60 s without "ready", also when the process is long gone: whatever the   *)
(* challenge has for a handle is dropped.                                   *)
StartTimeout(w) ==
  LET c == proc[w].chal IN
  /\ proc[w].awaited # "no"
  /\ proc[w].state = "none" \/ "slow" \in Faults
  /\ handle' = [handle EXCEPT ![c] = None]
  /\ proc' = [proc EXCEPT ![w] = IF @.state = "none"
                                 THEN NoProcess
                                 ELSE [@ EXCEPT !.awaited = "no", !.order = "kill"]]
  /\ life' = IF proc[w].awaited = "tick" THEN [life EXCEPT ![c] = Target(@, "SOLVER_ERROR")] ELSE life
  /\ IF proc[w].awaited = "tick" THEN CatchSlot(c) ELSE UNCHANGED <<tick, held, taken>>
  /\ UNCHANGED <<lease, stopped, draining, inflight>>
-----------------------------------------------------------------------------
(* Workers that go.                                                        *)

(* The exit event of w. The handle, the lease and the slot that go are the  *)
(* challenge's, whoever they belong to by now.                              *)
Exit(w) ==
  LET c == proc[w].chal IN
  /\ proc[w].state # "none"
  /\ \/ "crash" \in Faults
     \/ proc[w].order = "kill"
     \/ proc[w].order = "abort" /\ proc[w].state = "running"
  /\ proc' = [proc EXCEPT ![w] = Forget(w)]
  /\ handle' = [handle EXCEPT ![c] = None]
  /\ DropLease(c)
  /\ ReleaseSlot(c)
  /\ stopped' = stopped \ {c}
  /\ IF c \in stopped THEN life' = life ELSE Requeue(c)
  /\ UNCHANGED <<tick, draining, inflight>>

(* #markLost and onWorkerLost. The startup grace is longer than the wait    *)
(* for "ready".                                                             *)
Lost(c) ==
  /\ "lost" \in Faults
  /\ handle[c] # None
  /\ proc[handle[c]].state = "running"
  /\ proc' = [proc EXCEPT ![handle[c]].order = "kill"]
  /\ handle' = [handle EXCEPT ![c] = None]
  /\ DropLease(c)
  /\ ReleaseSlot(c)
  /\ Requeue(c)
  /\ UNCHANGED <<stopped, tick, draining, inflight>>

(* A solver asks for one of the other kind; one handoff of a challenge at a *)
(* time (bound).                                                            *)
Handoff(c) ==
  /\ "handoff" \in Faults
  /\ c \notin draining
  /\ \E w \in Workers : proc[w].chal = c /\ proc[w].state = "running"
  /\ life[c] = "ACTIVE"
  /\ stopped' = stopped \cup {c}
  /\ Tell(c, "abort")
  /\ draining' = draining \cup {c}
  /\ UNCHANGED <<life, lease, handle, held, taken, tick, inflight>>

(* 800 ms later: the old worker is killed if it is still there, and then    *)
(* startWorker refuses.                                                     *)
HandoffFails(c) ==
  /\ c \in draining
  /\ handle[c] # None
  /\ Tell(c, "kill")
  /\ draining' = draining \ {c}
  /\ UNCHANGED <<life, lease, handle, held, taken, stopped, tick, inflight>>

HandoffForks(c, w) ==
  /\ c \in draining
  /\ handle[c] = None
  /\ Fork(c, w, "handoff")
  /\ draining' = draining \ {c}
  /\ UNCHANGED <<life, lease, held, taken, stopped, tick, inflight>>
-----------------------------------------------------------------------------
(* The human and the judge.                                                *)

(* What pause, park, restart and handleSubmissionCorrect begin with,        *)
(* whether or not the transition is allowed.                                *)
StopWorker(c, order) ==
  /\ stopped' = stopped \cup {c}
  /\ Tell(c, order)
  /\ ReleaseSlot(c)

MayStop(c) == Careful => handle[c] # None

Pause(c) ==
  /\ "pause" \in Operator
  /\ MayStop(c)
  /\ life[c] # "PAUSED"
  /\ StopWorker(c, "abort")
  /\ life' = [life EXCEPT ![c] = Target(@, "PAUSE")]
  /\ UNCHANGED <<lease, handle, tick, draining, inflight>>

Resume(c) ==
  /\ Allowed(life[c], "RESUME")
  /\ life' = [life EXCEPT ![c] = Target(@, "RESUME")]
  /\ UNCHANGED <<lease, handle, proc, held, taken, stopped, tick, draining, inflight>>

Park(c) ==
  /\ "park" \in Operator
  /\ MayStop(c)
  /\ life[c] # "PARKED"
  /\ StopWorker(c, "abort")
  /\ life' = [life EXCEPT ![c] = Target(@, "PARK")]
  /\ UNCHANGED <<lease, handle, tick, draining, inflight>>

Unpark(c) ==
  /\ Allowed(life[c], "UNPARK")
  /\ life' = [life EXCEPT ![c] = Target(@, "UNPARK")]
  /\ UNCHANGED <<lease, handle, proc, held, taken, stopped, tick, draining, inflight>>

RestartSolver(c) ==
  /\ "restart" \in Operator
  /\ MayStop(c)
  /\ StopWorker(c, "abort")
  /\ life' = [life EXCEPT ![c] = Target(@, "RESTART_SOLVER")]
  /\ UNCHANGED <<lease, handle, tick, draining, inflight>>

(* A flag is found, by the worker or by the human, and sent to the judge;   *)
(* one flag of a challenge at a time (bound).                               *)
FlagFound(c) ==
  /\ "flag" \in Operator
  /\ c \notin inflight
  /\ Allowed(life[c], "CANDIDATE_FOUND")
  /\ life' = [life EXCEPT ![c] = Target(Target(@, "CANDIDATE_FOUND"), "VERIFY_OK")]
  /\ inflight' = inflight \cup {c}
  /\ UNCHANGED <<lease, handle, proc, held, taken, stopped, tick, draining>>

(* The verdicts come whatever has happened to the challenge since. *)
Wrong(c) ==
  /\ c \in inflight
  /\ life' = [life EXCEPT ![c] = Target(@, "SUBMIT_WRONG")]
  /\ inflight' = inflight \ {c}
  /\ UNCHANGED <<lease, handle, proc, held, taken, stopped, tick, draining>>

Correct(c) ==
  /\ c \in inflight
  /\ StopWorker(c, "kill")
  /\ life' = [life EXCEPT ![c] = Target(@, "SUBMIT_CORRECT")]
  /\ inflight' = inflight \ {c}
  /\ UNCHANGED <<lease, handle, tick, draining>>

(* The submission stays UNKNOWN. *)
Unknown(c) ==
  /\ c \in inflight
  /\ inflight' = inflight \ {c}
  /\ UNCHANGED <<life, lease, handle, proc, held, taken, stopped, tick, draining>>

(* acceptCandidate, from any status, and handleSubmissionCorrect. *)
Accept(c) ==
  /\ "accept" \in Operator
  /\ MayStop(c)
  /\ StopWorker(c, "kill")
  /\ life' = [life EXCEPT ![c] = "SOLVED"]
  /\ UNCHANGED <<lease, handle, tick, draining, inflight>>

AfterReject(s) ==
  CASE s = "SOLVED"     -> Target(s, "REOPEN")
    [] s = "SUBMITTING" -> Target(s, "SUBMIT_WRONG")
    [] s = "PAUSED"     -> Target(s, "RESUME")
    [] OTHER            -> s

(* rejectCandidate; without a worker to tell, the challenge is queued.      *)
Reject(c) ==
  /\ "reject" \in Operator
  /\ life' = [life EXCEPT ![c] = IF handle[c] # None
                                 THEN AfterReject(@)
                                 ELSE Target(AfterReject(@), "SOLVER_STOPPED")]
  /\ UNCHANGED <<lease, handle, proc, held, taken, stopped, tick, draining, inflight>>

ResumeSolving(c) ==
  /\ "resumeSolving" \in Operator
  /\ Allowed(life[c], "RECOVER_SUBMITTING")
  /\ life' = [life EXCEPT ![c] = Target(@, "RECOVER_SUBMITTING")]
  /\ UNCHANGED <<lease, handle, proc, held, taken, stopped, tick, draining, inflight>>
-----------------------------------------------------------------------------
WorkerSteps ==
  \E w \in Workers :
    \/ StartForks(w) \/ Ready(w) \/ StartTimeout(w) \/ Exit(w)
    \/ \E c \in Challenges : HandoffForks(c, w)

ChallengeSteps ==
  \E c \in Challenges :
    \/ Lost(c) \/ Handoff(c) \/ HandoffFails(c)
    \/ Pause(c) \/ Resume(c) \/ Park(c) \/ Unpark(c) \/ RestartSolver(c)
    \/ FlagFound(c) \/ Wrong(c) \/ Correct(c) \/ Unknown(c) \/ Accept(c)
    \/ Reject(c) \/ ResumeSolving(c)

Next == TickStart \/ StartFails \/ WorkerSteps \/ ChallengeSteps

Spec == Init /\ [][Next]_vars
-----------------------------------------------------------------------------
TypeOK ==
  /\ life \in [Challenges -> Lifecycles]
  /\ lease \in [Challenges -> Workers \cup {None}]
  /\ handle \in [Challenges -> Workers \cup {None}]
  /\ proc \in [Workers -> Process]
  /\ held \subseteq Challenges
  /\ taken \in 0..Slots
  /\ stopped \subseteq Challenges
  /\ tick \in Tick
  /\ draining \subseteq Challenges
  /\ inflight \subseteq Challenges

(* Whatever fails, a lease names a live worker of its challenge: the rows   *)
(* of worker_leases outlive neither the exit nor the loss of the worker.    *)
LeaseHasWorker ==
  \A c \in Challenges : lease[c] # None =>
    proc[lease[c]].state = "running" /\ proc[lease[c]].chal = c

(* An LLM slot is never given back twice, though the exit of the worker,    *)
(* the human and the catch of the tick all try to: the semaphore has handed *)
(* out at least as many as are kept.                                        *)
SlotsNotFreedTwice == Cardinality(held) <= taken

(* README: a challenge has at most one solver worker; those that were       *)
(* killed and have not gone yet are not counted.                            *)
Running(c) == {w \in Workers : proc[w].chal = c /\ proc[w].state # "none" /\ proc[w].order # "kill"}

OneWorker == \A c \in Challenges : Cardinality(Running(c)) <= 1

(* No more solvers than solverConcurrency.                                  *)
Capacity == HandleCount <= Concurrency

(* A challenge that is paused, parked or solved has no worker that goes on: *)
(* every one was told to stop, even one that was just starting.             *)
StoppedIsTold ==
  \A c \in Challenges : life[c] \in {"PAUSED", "PARKED", "SOLVED"} =>
    \A w \in Workers : proc[w].chal = c /\ proc[w].state # "none" => proc[w].order # "none"

(* An ACTIVE challenge has a worker, and so somebody whose exit puts it     *)
(* back into the queue; or the timeout of a worker that went while it was   *)
(* starting will.                                                           *)
ActiveIsWorked ==
  \A c \in Challenges : life[c] = "ACTIVE" =>
    handle[c] # None \/ \E w \in Workers : proc[w].chal = c /\ proc[w].awaited # "no"

(* No LLM slot leaks: no more are handed out than are kept, and one is only *)
(* kept for a challenge that has a worker or is being started.              *)
NoSlotLeaks ==
  /\ taken <= Cardinality(held)
  /\ \A c \in held : handle[c] # None \/ tick.chal = c

(* The two awaits of #startSolver end: the contest answers or fetch gives   *)
(* up (after minutes, the code sets no limit of its own), and the timer of  *)
(* "ready" fires after 60 s. Nothing is assumed about the processes.        *)
Fairness == WF_vars(StartFails) /\ \A w \in Workers : WF_vars(StartTimeout(w))

FairSpec == Spec /\ Fairness

(* schedulerRunning is always reset: no sequence of crashes, timeouts and   *)
(* orders during a start leaves the tick waiting forever.                   *)
TickEnds == tick.at # "idle" ~> tick.at = "idle"

(* What holds of leases and slots whatever goes wrong: a lease has the      *)
(* worker it names, and no LLM slot is given back twice.                    *)
WorkersInv == TypeOK /\ LeaseHasWorker /\ SlotsNotFreedTwice

(* The places and the LLM slots are neither exceeded nor lost, though       *)
(* exits, timeouts, the human and the catch of the tick all give them back. *)
PlacesAreKept == Capacity /\ NoSlotLeaks

(* What there is to see of the pool, whatever handles, leases and slots     *)
(* say: the processes, who was told to stop, which challenges are set aside.*)
Present == [c \in Challenges |-> {w \in Workers : proc[w].chal = c /\ proc[w].state # "none"}]

ToldToStop == {w \in Workers : proc[w].state # "none" /\ proc[w].order # "none"}

Aside == {c \in Challenges : life[c] \in {"PAUSED", "PARKED", "SOLVED"}}

Promised == INSTANCE Crew WITH works <- Present, told <- ToldToStop, aside <- Aside

(* README.md:244 and what pause, park and a solved challenge promise, step  *)
(* by step: never a second process of a challenge, not even while the first *)
(* is dying, none beyond solverConcurrency, none for a challenge that is    *)
(* set aside, and whoever is set aside has its process told at once.        *)
CrewSpec == Promised!Spec

(* The processes follow the status: who is stopped was told so, and who is  *)
(* ACTIVE is worked on.                                                     *)
WorkFollowsStatus == StoppedIsTold /\ ActiveIsWorked
=============================================================================
