-------------------------- MODULE SubmissionProofs --------------------------
(***************************************************************************)
(* Proofs about Submission, for every number of flags and every judge.     *)
(* Whatever the human does: types, and that a challenge SUBMITTING shows   *)
(* in the panel or is driven (SubmittingIsSeen); unless the process dies   *)
(* between two writes of one answer, that a flag is not sent more often    *)
(* than it was granted; without reconsidering, that nothing is sent by     *)
(* itself where there is no judge; while no human intervenes, that one     *)
(* call drives a challenge, the cap on wrong flags holds and the judge     *)
(* sees the docket of Docket; and that an outcome is final though the      *)
(* human stops and goes on.                                                *)
(***************************************************************************)
EXTENDS Submission, FiniteSetTheorems, TLAPS

(* The events of the table that occur in Submission. *)
Events == {"QUEUE", "SCHEDULE", "RECOVER_ACTIVE", "CANDIDATE_FOUND", "VERIFY_OK", "VERIFY_FAIL",
           "SUBMIT_CORRECT", "SUBMIT_WRONG", "PAUSE", "RESUME", "PARK", "UNPARK", "REOPEN",
           "SOLVER_STOPPED", "RECOVER_SUBMITTING", "RECOVER_VERIFYING"}

(* Once prepared, a challenge stays among the statuses of Lifecycles. *)
LEMMA TargetInLifecycles ==
  ASSUME NEW s \in Lifecycles, NEW e \in Events
  PROVE  Target(s, e) \in Lifecycles
<1>1. CASE s = "READY"      BY <1>1 DEF Target, Allowed, T, Lifecycles, Events
<1>2. CASE s = "QUEUED"     BY <1>2 DEF Target, Allowed, T, Lifecycles, Events
<1>3. CASE s = "ACTIVE"     BY <1>3 DEF Target, Allowed, T, Lifecycles, Events
<1>4. CASE s = "VERIFYING"  BY <1>4 DEF Target, Allowed, T, Lifecycles, Events
<1>5. CASE s = "SUBMITTING" BY <1>5 DEF Target, Allowed, T, Lifecycles, Events
<1>6. CASE s = "PAUSED"     BY <1>6 DEF Target, Allowed, T, Lifecycles, Events
<1>7. CASE s = "PARKED"     BY <1>7 DEF Target, Allowed, T, Lifecycles, Events
<1>8. CASE s = "SOLVED"     BY <1>8 DEF Target, Allowed, T, Lifecycles, Events
<1>9. QED BY <1>1, <1>2, <1>3, <1>4, <1>5, <1>6, <1>7, <1>8 DEF Lifecycles

(* The call of f that waits for the limiter, and the step that moves a call *)
(* on to the judge.                                                         *)
Waiting(f, caller) == [flag |-> f, stage |-> "limiter", caller |-> caller]

LEMMA CallShape ==
  /\ \A f \in Flags, b \in {"loop", "handler"} : Waiting(f, b) \in Call
  /\ \A f, g \in Flags, b, d \in {"loop", "handler"} : Waiting(f, b) = Waiting(g, d) => f = g /\ b = d
  /\ \A f \in Flags, b \in {"loop", "handler"} : Waiting(f, b).flag = f /\ Waiting(f, b).stage = "limiter"
BY DEF Waiting, Call

(* What the first half of #submitNow does to the calls and timers: one more *)
(* call of f or its timer, and nothing else.                                *)
LEMMA SubmitNowEffect ==
  ASSUME TypeOK, NEW f \in Flags, NEW last, NEW caller \in {"loop", "handler"}, NEW timers, timers \subseteq Flags,
         SubmitNow(f, last, caller, timers)
  PROVE  /\ calls' \in [Call -> Nat]
         /\ timer' \subseteq Flags
         /\ \A c \in Call : c.flag # f => calls'[c] = calls[c]
         /\ \/ timer' = timers \cup {f} /\ calls' = calls
            \/ /\ timer' = timers
               /\ calls'[Waiting(f, caller)] = calls[Waiting(f, caller)] + 1
               /\ \A c \in Call : c # Waiting(f, caller) => calls'[c] = calls[c]
<1> USE CallShape DEF TypeOK
<1>1. CASE last # f /\ last \in cooling
  BY <1>1 DEF SubmitNow
<1>2. CASE ~(last # f /\ last \in cooling)
  <2>1. /\ timer' = timers
        /\ calls' = [calls EXCEPT ![Waiting(f, caller)] = @ + 1]
    BY <1>2 DEF SubmitNow, Waiting
  <2>2. QED BY <2>1
<1>3. QED BY <1>1, <1>2

LEMMA CreateOrGetType ==
  ASSUME TypeOK, NEW f \in Flags, CreateOrGet(f, "QUEUED")
  PROVE  /\ sub' \in [Flags -> SubmissionStatus]
         /\ newest' \in Flags \cup {NoFlag}
         /\ \A g \in Flags \ {f} : sub'[g] = sub[g]
         /\ sub'[f] # "NONE"
         /\ sub[f] # "NONE" => sub'[f] = sub[f]
         /\ sub[f] = "NONE" => sub'[f] = "QUEUED"
BY DEF TypeOK, CreateOrGet, SubmissionStatus

LEMMA SubmitCandidateType ==
  ASSUME TypeOK, NEW f \in Flags, NEW s \in Lifecycles, NEW caller \in {"loop", "handler"},
         SubmitCandidate(f, s, caller)
  PROVE  /\ life' \in Lifecycles
         /\ sub' \in [Flags -> SubmissionStatus]
         /\ newest' \in Flags \cup {NoFlag}
         /\ calls' \in [Call -> Nat]
         /\ timer' \subseteq Flags
<1>1. /\ CreateOrGet(f, "QUEUED")
      /\ life' = Target(s, "VERIFY_OK")
  BY DEF SubmitCandidate
<1>2. life' \in Lifecycles
  BY <1>1, TargetInLifecycles DEF Events
<1>3. CASE Allowed(s, "VERIFY_OK")
  <2>1. SubmitNow(f, newest', caller, timer)
    BY <1>3 DEF SubmitCandidate
  <2>2. timer \subseteq Flags
    BY DEF TypeOK
  <2>3. QED BY <1>1, <1>2, <2>1, <2>2, CreateOrGetType, SubmitNowEffect
<1>4. CASE ~Allowed(s, "VERIFY_OK")
  <2>1. calls' = calls /\ timer' = timer
    BY <1>4 DEF SubmitCandidate
  <2>2. QED BY <1>1, <1>2, <2>1, CreateOrGetType DEF TypeOK
<1>5. QED BY <1>3, <1>4
-----------------------------------------------------------------------------
(* Type correctness, one step of the proof per action. *)

LEMMA AfterRejectType ==
  ASSUME TypeOK
  PROVE  /\ AfterReject \in Lifecycles
         /\ Target(AfterReject, "SOLVER_STOPPED") \in Lifecycles
<1>1. AfterReject \in Lifecycles
  BY TargetInLifecycles DEF TypeOK, AfterReject, Events
<1>2. QED BY <1>1, TargetInLifecycles DEF Events

LEMMA SchedulingType ==
  ASSUME TypeOK,
         \/ Queue \/ Schedule \/ RuntimeUnavailable \/ WorkerGone
         \/ \E f \in Flags : CooldownEnds(f)
  PROVE  TypeOK'
<1> USE TargetInLifecycles DEF TypeOK, Events, memory
<1>1. CASE Queue                          BY <1>1 DEF Queue
<1>2. CASE Schedule                       BY <1>2 DEF Schedule
<1>3. CASE RuntimeUnavailable             BY <1>3 DEF RuntimeUnavailable, Blocks
<1>4. CASE WorkerGone                     BY <1>4 DEF WorkerGone
<1>5. CASE \E f \in Flags : CooldownEnds(f) BY <1>5 DEF CooldownEnds
<1>6. QED BY <1>1, <1>2, <1>3, <1>4, <1>5

LEMMA CandidateType ==
  ASSUME TypeOK, NEW f \in Flags, OnCandidate(f)
  PROVE  TypeOK'
<1>1. CASE RejectLocally(f)
  BY <1>1 DEF RejectLocally, TypeOK, memory, CandidateStatus
<1>2. CASE HoldForHuman(f)
  BY <1>2 DEF HoldForHuman, TypeOK, memory, CandidateStatus
<1>3. CASE AutoSubmitCandidate(f)
  <2>1. Target(life, "CANDIDATE_FOUND") \in Lifecycles
    BY TargetInLifecycles DEF TypeOK, Events
  <2>2. SubmitCandidate(f, Target(life, "CANDIDATE_FOUND"), "handler")
    BY <1>3 DEF AutoSubmitCandidate
  <2>3. QED
    BY <1>3, <2>1, <2>2, SubmitCandidateType
    DEF AutoSubmitCandidate, TypeOK, CandidateStatus
<1>4. QED BY <1>1, <1>2, <1>3 DEF OnCandidate

LEMMA ReconsiderType ==
  ASSUME TypeOK, Reconsider \/ \E f \in todo : ReconsiderNext(f)
  PROVE  TypeOK'
<1>1. CASE Reconsider
  BY <1>1 DEF Reconsider, TypeOK, rows
<1>2. ASSUME NEW f \in todo, ReconsiderNext(f)
      PROVE  TypeOK'
  <2>1. /\ f \in Flags
        /\ todo' = todo \ {f}
        /\ UNCHANGED <<blocked, cooling, up, todoAuto, credit>>
    BY <1>2 DEF ReconsiderNext, TypeOK
  <2>2. CASE UNCHANGED <<life, cand, sub, newest, calls, timer>>
    BY <2>1, <2>2 DEF TypeOK
  <2>3. CASE /\ cand' = [cand EXCEPT ![f] = "PENDING"]
             /\ UNCHANGED <<life, sub, newest, calls, timer>>
    BY <2>1, <2>3 DEF TypeOK, CandidateStatus
  <2>4. CASE /\ cand' = [cand EXCEPT ![f] = "VERIFIED"]
             /\ IF life # "SOLVED" /\ Allowed(life, "CANDIDATE_FOUND")
                THEN SubmitCandidate(f, Target(life, "CANDIDATE_FOUND"), "loop")
                ELSE UNCHANGED <<life, sub, newest, calls, timer>>
    <3>1. Target(life, "CANDIDATE_FOUND") \in Lifecycles
      BY TargetInLifecycles DEF TypeOK, Events
    <3>2. CASE SubmitCandidate(f, Target(life, "CANDIDATE_FOUND"), "loop")
      BY <2>1, <2>4, <3>1, <3>2, SubmitCandidateType DEF TypeOK, CandidateStatus
    <3>3. CASE UNCHANGED <<life, sub, newest, calls, timer>>
      BY <2>1, <2>4, <3>3 DEF TypeOK, CandidateStatus
    <3>4. QED BY <2>4, <3>2, <3>3
  <2>5. QED BY <1>2, <2>2, <2>3, <2>4 DEF ReconsiderNext
<1>3. QED BY <1>1, <1>2

(* The case distinctions of an answer stay within the types. *)
LEMMA AnswerType ==
  ASSUME TypeOK, NEW f \in Flags, NEW r \in Possible(f)
  PROVE  /\ Verdict(r) \in {"CORRECT", "WRONG", "RATE_LIMITED", "UNKNOWN", "REVIEW"}
         /\ SubmissionAfter(Verdict(r)) \in SubmissionStatus
         /\ CandidateAfter(Verdict(r)) \in CandidateStatus
         /\ LifeAfter(Verdict(r)) \in Lifecycles
         /\ \A s : BlockedAfter(Verdict(r), s) \in Blocks
<1>1. Verdict(r) \in {"CORRECT", "WRONG", "RATE_LIMITED", "UNKNOWN", "REVIEW"}
  BY DEF Possible, Verdict
<1>2. SubmissionAfter(Verdict(r)) \in SubmissionStatus
  BY <1>1 DEF SubmissionAfter, SubmissionStatus
<1>3. CandidateAfter(Verdict(r)) \in CandidateStatus
  BY <1>1 DEF CandidateAfter, CandidateStatus
<1>4. LifeAfter(Verdict(r)) \in Lifecycles
  BY TargetInLifecycles DEF LifeAfter, Events, TypeOK
<1>5. \A s : BlockedAfter(Verdict(r), s) \in Blocks
  BY DEF BlockedAfter, Blocks, TypeOK
<1>6. QED BY <1>1, <1>2, <1>3, <1>4, <1>5

LEMMA JudgeType ==
  ASSUME TypeOK,
         \/ \E c \in Call : Send(c) \/ \E r \in Possible(c.flag) : Answer(c, r)
         \/ \E f \in Flags : TimerFires(f)
  PROVE  TypeOK'
<1>1. ASSUME NEW c \in Call, Send(c)
      PROVE  TypeOK'
  <2>1. c.flag \in Flags /\ [c EXCEPT !.stage = "judge"] \in Call
    BY DEF Call
  <2>2. c # [c EXCEPT !.stage = "judge"]
    BY <1>1 DEF Send, Call
  <2>3. calls' \in [Call -> Nat]
    BY <1>1, <2>1, <2>2 DEF Send, TypeOK
  <2>4. QED BY <1>1, <2>1, <2>3 DEF Send, TypeOK, SubmissionStatus
<1>2. ASSUME NEW c \in Call, NEW r \in Possible(c.flag), Answer(c, r)
      PROVE  TypeOK'
  <2>1. c.flag \in Flags
    BY DEF Call
  <2>2. calls' \in [Call -> Nat]
    BY <1>2 DEF Answer, TypeOK
  <2>3. credit' \in [Flags -> Int] /\ timer' \subseteq Flags
    BY <1>2, <2>1 DEF Answer, TypeOK
  <2>4. QED BY <1>2, <2>1, <2>2, <2>3, AnswerType DEF Answer, TypeOK
<1>3. ASSUME NEW f \in Flags, TimerFires(f)
      PROVE  TypeOK'
  <2>1. timer \ {f} \subseteq Flags
    BY DEF TypeOK
  <2>2. timer' \subseteq Flags /\ calls' \in [Call -> Nat]
    <3>1. CASE SubmitNow(f, newest, "handler", timer \ {f})
      BY <2>1, <3>1, SubmitNowEffect
    <3>2. CASE timer' = timer \ {f} /\ calls' = calls
      BY <2>1, <3>2 DEF TypeOK
    <3>3. QED BY <1>3, <3>1, <3>2 DEF TimerFires
  <2>3. QED BY <1>3, <2>2 DEF TimerFires, TypeOK, rows
<1>4. QED BY <1>1, <1>2, <1>3

LEMMA HumanType ==
  ASSUME TypeOK, Human
  PROVE  TypeOK'
<1> USE TargetInLifecycles DEF TypeOK, Events, memory
<1>1. CASE Pause          BY <1>1 DEF Pause
<1>2. CASE Resume         BY <1>2 DEF Resume
<1>3. CASE Park           BY <1>3 DEF Park
<1>4. CASE Unpark         BY <1>4 DEF Unpark
<1>5. CASE ResumeSolving  BY <1>5 DEF ResumeSolving, Blocks
<1>6. CASE Reconsider     BY <1>6, ReconsiderType
<1>7. ASSUME NEW f \in Flags, Reject(f)
      PROVE  TypeOK'
  <2>1. life' \in Lifecycles
    BY <1>7, AfterRejectType DEF Reject
  <2>2. QED BY <1>7, <2>1 DEF Reject, CandidateStatus, SubmissionStatus
<1>8. ASSUME NEW f \in Flags, Accept(f)
      PROVE  TypeOK'
  BY <1>8 DEF Accept, Lifecycles, CandidateStatus, SubmissionStatus
<1>9. ASSUME NEW f \in Flags, ManualSubmit(f)
      PROVE  TypeOK'
  <2>1. Target(life, "CANDIDATE_FOUND") \in Lifecycles
    OBVIOUS
  <2>2. SubmitCandidate(f, Target(life, "CANDIDATE_FOUND"), "handler")
    BY <1>9 DEF ManualSubmit
  <2>3. /\ life' \in Lifecycles
        /\ sub' \in [Flags -> SubmissionStatus]
        /\ newest' \in Flags \cup {NoFlag}
        /\ calls' \in [Call -> Nat]
        /\ timer' \subseteq Flags
    BY <2>1, <2>2, SubmitCandidateType
  <2>4. cand' \in [Flags -> CandidateStatus] /\ credit' \in [Flags -> Int]
    BY <1>9 DEF ManualSubmit, CandidateStatus
  <2>5. UNCHANGED <<blocked, cooling, up, todo, todoAuto>>
    BY <1>9 DEF ManualSubmit
  <2>6. QED BY <2>3, <2>4, <2>5
<1>10. ASSUME NEW f \in Flags, RetrySubmission(f)
       PROVE  TypeOK'
  <2>1. SubmitNow(f, newest, "handler", timer) /\ timer \subseteq Flags
    BY <1>10 DEF RetrySubmission
  <2>2. calls' \in [Call -> Nat] /\ timer' \subseteq Flags
    BY <2>1, SubmitNowEffect
  <2>3. QED BY <1>10, <2>2 DEF RetrySubmission, Lifecycles, Blocks, SubmissionStatus
<1>11. QED BY <1>1, <1>2, <1>3, <1>4, <1>5, <1>6, <1>7, <1>8, <1>9, <1>10 DEF Human

LEMMA DieType ==
  ASSUME TypeOK, Die
  PROVE  /\ up' \in BOOLEAN
         /\ calls' \in [Call -> Nat]
         /\ timer' \subseteq Flags
         /\ todo' \subseteq Flags
         /\ todoAuto' \in BOOLEAN
         /\ credit' \in [Flags -> Int]
BY DEF TypeOK, Die

LEMMA CrashType ==
  ASSUME TypeOK,
         \/ Crash
         \/ \E f \in Flags : CrashInCandidate(f)
         \/ \E c \in Call : \E r \in Possible(c.flag) : CrashInAnswer(c, r)
  PROVE  TypeOK'
<1>1. CASE Crash
  BY <1>1, DieType DEF Crash, rows, TypeOK
<1>2. ASSUME NEW f \in Flags, CrashInCandidate(f)
      PROVE  TypeOK'
  <2>1. Die /\ UNCHANGED <<blocked, cooling>>
    BY <1>2 DEF CrashInCandidate
  <2>2. life' \in Lifecycles
    BY <1>2, TargetInLifecycles DEF CrashInCandidate, TypeOK, Events
  <2>3. cand' \in [Flags -> CandidateStatus]
    BY <1>2 DEF CrashInCandidate, TypeOK, CandidateStatus
  <2>4. sub' \in [Flags -> SubmissionStatus] /\ newest' \in Flags \cup {NoFlag}
    <3>1. CreateOrGet(f, "QUEUED") \/ UNCHANGED <<sub, newest>>
      BY <1>2 DEF CrashInCandidate
    <3>2. QED BY <3>1, CreateOrGetType DEF TypeOK
  <2>5. QED BY <2>1, <2>2, <2>3, <2>4, DieType DEF TypeOK
<1>3. ASSUME NEW c \in Call, NEW r \in Possible(c.flag), CrashInAnswer(c, r)
      PROVE  TypeOK'
  <2>1. c.flag \in Flags
    BY DEF Call
  <2>2. Die /\ UNCHANGED <<blocked, newest>> /\ cooling' = cooling \cup {c.flag}
    BY <1>3 DEF CrashInAnswer
  <2>3. /\ sub' \in [Flags -> SubmissionStatus]
        /\ cand' \in [Flags -> CandidateStatus]
        /\ life' \in Lifecycles
    BY <1>3, <2>1, AnswerType DEF CrashInAnswer, TypeOK
  <2>4. QED BY <2>1, <2>2, <2>3, DieType DEF TypeOK
<1>4. QED BY <1>1, <1>2, <1>3

(* What recovery may change. *)
RecoveredType ==
  /\ life \in Lifecycles
  /\ blocked \in Blocks
  /\ cand \in [Flags -> CandidateStatus]
  /\ sub \in [Flags -> SubmissionStatus]
  /\ newest \in Flags \cup {NoFlag}
  /\ cooling \subseteq Flags
  /\ calls \in [Call -> Nat]
  /\ timer \subseteq Flags

LEMMA RecoverSubmittingType ==
  ASSUME TypeOK, RecoverSubmitting
  PROVE  RecoveredType'
<1> USE TargetInLifecycles DEF TypeOK, Events, RecoveredType
<1>1. CASE HoldForReview
  <2>1. Target("SUBMITTING", "SUBMIT_WRONG") \in Lifecycles
    BY DEF Lifecycles
  <2>2. QED BY <1>1, <2>1 DEF HoldForReview
<1>2. CASE LeaveUnknown
  BY <1>2 DEF LeaveUnknown, Blocks, Lifecycles
<1>3. CASE NothingPending
  <2>1. Target("SUBMITTING", "RECOVER_SUBMITTING") \in Lifecycles
    BY DEF Lifecycles
  <2>2. QED BY <1>3, <2>1 DEF NothingPending
<1>4. ASSUME NEW f \in Flags, MarkInterrupted(f)
      PROVE  RecoveredType'
  BY <1>4 DEF MarkInterrupted, Blocks, CandidateStatus, SubmissionStatus, Lifecycles
<1>5. ASSUME NEW f \in Flags, DriveQueued(f)
      PROVE  RecoveredType'
  <2>1. SubmitNow(f, newest, "handler", timer) /\ timer \subseteq Flags
    BY <1>5 DEF DriveQueued
  <2>2. calls' \in [Call -> Nat] /\ timer' \subseteq Flags
    BY <2>1, SubmitNowEffect
  <2>3. QED BY <1>5, <2>2 DEF DriveQueued, Lifecycles
<1>6. ASSUME NEW f \in Flags, SubmitPreserved(f)
      PROVE  RecoveredType'
  <2>1. sub' \in [Flags -> SubmissionStatus] /\ newest' \in Flags \cup {NoFlag}
    BY <1>6, CreateOrGetType DEF SubmitPreserved
  <2>2. QED BY <1>6, <2>1 DEF SubmitPreserved, CandidateStatus, Lifecycles
<1>7. QED BY <1>1, <1>2, <1>3, <1>4, <1>5, <1>6 DEF RecoverSubmitting

LEMMA RecoverType ==
  ASSUME TypeOK, Recover
  PROVE  TypeOK'
<1>1. RecoveredType'
  <2>1. CASE life = "ACTIVE" /\ life' = Target(life, "RECOVER_ACTIVE")
             /\ UNCHANGED <<blocked, cand, sub, newest, cooling, calls, timer>>
    BY <2>1, TargetInLifecycles DEF TypeOK, RecoveredType, Events
  <2>2. CASE life = "VERIFYING" /\ life' = Target(life, "RECOVER_VERIFYING")
             /\ UNCHANGED <<blocked, cand, sub, newest, cooling, calls, timer>>
    BY <2>2, TargetInLifecycles DEF TypeOK, RecoveredType, Events
  <2>3. CASE RecoverSubmitting
    BY <2>3, RecoverSubmittingType
  <2>4. CASE UNCHANGED <<rows, calls, timer>>
    BY <2>4 DEF TypeOK, RecoveredType, rows
  <2>5. QED BY <2>1, <2>2, <2>3, <2>4 DEF Recover, RecoverLife
<1>2. QED BY <1>1 DEF Recover, RecoveredType, TypeOK

LEMMA TypeStep ==
  ASSUME TypeOK, [Next]_vars
  PROVE  TypeOK'
<1>1. ASSUME NEW f \in todo, ReconsiderNext(f)
      PROVE  TypeOK'
  BY <1>1, ReconsiderType
<1>2. CASE Handlers
  <2>1. CASE Queue \/ Schedule \/ RuntimeUnavailable \/ WorkerGone
             \/ \E f \in Flags : CooldownEnds(f)
    BY <2>1, SchedulingType
  <2>2. CASE Human
    BY <2>2, HumanType
  <2>3. ASSUME NEW f \in Flags, OnCandidate(f)
        PROVE  TypeOK'
    BY <2>3, CandidateType
  <2>4. CASE \/ \E c \in Call : Send(c) \/ \E r \in Possible(c.flag) : Answer(c, r)
             \/ \E f \in Flags : TimerFires(f)
    BY <2>4, JudgeType
  <2>5. CASE \/ Crash
             \/ \E f \in Flags : CrashInCandidate(f)
             \/ \E c \in Call : \E r \in Possible(c.flag) : CrashInAnswer(c, r)
    BY <2>5, CrashType
  <2>6. QED BY <1>2, <2>1, <2>2, <2>3, <2>4, <2>5 DEF Handlers
<1>3. CASE Recover
  BY <1>3, RecoverType
<1>4. CASE UNCHANGED vars
  BY <1>4 DEF vars, TypeOK
<1>5. QED BY <1>1, <1>2, <1>3, <1>4 DEF Next

LEMMA TypeInit ==
  ASSUME Init
  PROVE  TypeOK
<1>1. calls \in [Call -> Nat] /\ credit \in [Flags -> Int]
  BY DEF Init
<1>2. cand \in [Flags -> CandidateStatus] /\ sub \in [Flags -> SubmissionStatus]
  BY DEF Init, CandidateStatus, SubmissionStatus
<1>3. QED BY <1>1, <1>2 DEF Init, TypeOK, Lifecycles, Blocks

(* Every row and every piece of memory keeps its type: in particular a      *)
(* prepared challenge never leaves Lifecycles, and a suspended call is      *)
(* never continued twice (its count stays natural).                         *)
THEOREM TypeCorrect == Spec => []TypeOK
<1>1. Init => TypeOK
  BY TypeInit
<1>2. TypeOK /\ [Next]_vars => TypeOK'
  BY TypeStep
<1>3. QED BY <1>1, <1>2, PTL DEF Spec
-----------------------------------------------------------------------------
(* The budget. The invariant is about one flag at a time, and a step is     *)
(* about at most one flag.                                                  *)

Covered(f) == Pending(f) <= credit[f] /\ (Dormant(f) => 1 <= credit[f])

Fresh(f) ==
  cand[f] \in {"NONE", "REJECTED_LOCAL"} =>
    /\ sub[f] = "NONE"
    /\ f \notin timer
    /\ \A c \in Call : c.flag = f => calls[c] = 0
    /\ cand[f] = "NONE" => f \notin todo

FlagInv(f) == Covered(f) /\ Fresh(f)

LEMMA BudgetPerFlag ==
  BudgetInv <=> TypeOK /\ (\A f \in Flags : FlagInv(f)) /\ DownIsEmpty
BY DEF BudgetInv, CreditCovers, FreshIsUntouched, FlagInv, Covered, Fresh

LEMMA PendingNat ==
  ASSUME TypeOK, NEW f \in Flags
  PROVE  /\ Limiter(f, "loop") \in Nat
         /\ Limiter(f, "handler") \in Nat
         /\ Pending(f) \in Nat
         /\ credit[f] \in Int
<1>1. Limiter(f, "loop") = calls[Waiting(f, "loop")] /\ Limiter(f, "handler") = calls[Waiting(f, "handler")]
  BY DEF Limiter, Waiting
<1>2. Limiter(f, "loop") \in Nat /\ Limiter(f, "handler") \in Nat
  BY <1>1, CallShape DEF TypeOK
<1>3. QED BY <1>2 DEF Pending, TypeOK

(* Nothing that matters to flag g changes, except that it may lose its      *)
(* timer or its place in the list of the reconsideration loop.              *)
Same(g) ==
  /\ cand'[g] = cand[g]
  /\ sub'[g] = sub[g]
  /\ credit'[g] = credit[g]
  /\ g \in timer' => g \in timer
  /\ g \in todo' => g \in todo
  /\ \A c \in Call : c.flag = g => calls'[c] = calls[c]

LEMMA Untouched ==
  ASSUME TypeOK, NEW g \in Flags, FlagInv(g), Same(g)
  PROVE  FlagInv(g)'
<1>1. Fresh(g)'
  BY DEF FlagInv, Fresh, Same
<1>2. Limiter(g, "loop")' = Limiter(g, "loop") /\ Limiter(g, "handler")' = Limiter(g, "handler")
  BY CallShape DEF Same, Limiter, Waiting
<1>3. Pending(g)' <= Pending(g)
  BY <1>2, PendingNat DEF Pending, Same
<1>4. Dormant(g)' <=> Dormant(g)
  BY DEF Dormant, Same
<1>5. Pending(g) \in Nat /\ Pending(g)' \in Int /\ credit[g] \in Int /\ credit'[g] = credit[g]
  BY <1>2, PendingNat DEF Pending, Same
<1>6. QED BY <1>1, <1>3, <1>4, <1>5 DEF FlagInv, Covered

(* A flag nobody has submitted has nothing under way and its first attempt. *)
LEMMA Unstarted ==
  ASSUME TypeOK, NEW f \in Flags, FlagInv(f), cand[f] \in {"NONE", "REJECTED_LOCAL"}
  PROVE  /\ sub[f] = "NONE"
         /\ Limiter(f, "loop") = 0 /\ Limiter(f, "handler") = 0
         /\ f \notin timer
         /\ 1 <= credit[f]
<1>1. sub[f] = "NONE" /\ f \notin timer
  BY DEF FlagInv, Fresh
<1>2. calls[Waiting(f, "loop")] = 0 /\ calls[Waiting(f, "handler")] = 0
  BY CallShape DEF FlagInv, Fresh
<1>3. QED BY <1>1, <1>2 DEF FlagInv, Covered, Dormant, Limiter, Waiting

(* #submitNow adds at most one to what is pending for f.                    *)
LEMMA SubmitNowPending ==
  ASSUME TypeOK, NEW f \in Flags, NEW last, NEW caller \in {"loop", "handler"}, NEW timers, timers \subseteq Flags,
         SubmitNow(f, last, caller, timers)
  PROVE  /\ Limiter(f, "loop")' \in Nat
         /\ Limiter(f, "handler")' \in Nat
         /\ Limiter(f, "loop")' + Limiter(f, "handler")' + (IF f \in timer' THEN 1 ELSE 0)
              <= Limiter(f, "loop") + Limiter(f, "handler") + (IF f \in timers THEN 1 ELSE 0) + 1
<1> DEFINE w(b) == calls[Waiting(f, b)]
<1>1. /\ Limiter(f, "loop") = w("loop") /\ Limiter(f, "handler") = w("handler")
      /\ Limiter(f, "loop")' = w("loop")' /\ Limiter(f, "handler")' = w("handler")'
  BY DEF Limiter, Waiting
<1>2. w("loop") \in Nat /\ w("handler") \in Nat
  BY CallShape DEF TypeOK
<1>3. \/ timer' = timers \cup {f} /\ calls' = calls
      \/ /\ timer' = timers
         /\ calls'[Waiting(f, caller)] = calls[Waiting(f, caller)] + 1
         /\ \A c \in Call : c # Waiting(f, caller) => calls'[c] = calls[c]
  BY SubmitNowEffect
<1>4. CASE timer' = timers \cup {f} /\ calls' = calls
  BY <1>1, <1>2, <1>4
<1>5. CASE /\ timer' = timers
           /\ calls'[Waiting(f, caller)] = calls[Waiting(f, caller)] + 1
           /\ \A c \in Call : c # Waiting(f, caller) => calls'[c] = calls[c]
  <2>1. CASE caller = "loop"
    <3>1. w("loop")' = w("loop") + 1 /\ w("handler")' = w("handler")
      BY <1>5, <2>1, CallShape
    <3>2. QED BY <1>1, <1>2, <1>5, <3>1
  <2>2. CASE caller = "handler"
    <3>1. w("handler")' = w("handler") + 1 /\ w("loop")' = w("loop")
      BY <1>5, <2>2, CallShape
    <3>2. QED BY <1>1, <1>2, <1>5, <3>1
  <2>3. QED BY <2>1, <2>2
<1>6. QED BY <1>3, <1>4, <1>5

LEMMA SubmitCandidatePending ==
  ASSUME TypeOK, NEW f \in Flags, NEW s \in Lifecycles, NEW caller \in {"loop", "handler"},
         SubmitCandidate(f, s, caller)
  PROVE  /\ Limiter(f, "loop")' \in Nat
         /\ Limiter(f, "handler")' \in Nat
         /\ Limiter(f, "loop")' + Limiter(f, "handler")' + (IF f \in timer' THEN 1 ELSE 0)
              <= Limiter(f, "loop") + Limiter(f, "handler") + (IF f \in timer THEN 1 ELSE 0) + 1
         /\ \A g \in Flags \ {f} : /\ sub'[g] = sub[g]
                                   /\ g \in timer' => g \in timer
         /\ \A c \in Call : c.flag # f => calls'[c] = calls[c]
         /\ sub'[f] # "NONE"
<1>1. CreateOrGet(f, "QUEUED") /\ timer \subseteq Flags
  BY DEF SubmitCandidate, TypeOK
<1>2. sub'[f] # "NONE" /\ \A g \in Flags \ {f} : sub'[g] = sub[g]
  BY <1>1, CreateOrGetType
<1>3. CASE SubmitNow(f, newest', caller, timer)
  <2>1. /\ Limiter(f, "loop")' \in Nat
        /\ Limiter(f, "handler")' \in Nat
        /\ Limiter(f, "loop")' + Limiter(f, "handler")' + (IF f \in timer' THEN 1 ELSE 0)
             <= Limiter(f, "loop") + Limiter(f, "handler") + (IF f \in timer THEN 1 ELSE 0) + 1
    BY <1>1, <1>3, SubmitNowPending
  <2>2. \A c \in Call : c.flag # f => calls'[c] = calls[c]
    BY <1>1, <1>3, SubmitNowEffect
  <2>3. timer' = timer \/ timer' = timer \cup {f}
    BY <1>3 DEF SubmitNow
  <2>4. \A g \in Flags \ {f} : g \in timer' => g \in timer
    BY <2>3
  <2>5. QED BY <1>2, <2>1, <2>2, <2>4
<1>4. CASE UNCHANGED <<calls, timer>>
  <2>1. Limiter(f, "loop")' = Limiter(f, "loop") /\ Limiter(f, "handler")' = Limiter(f, "handler")
    BY <1>4 DEF Limiter
  <2>2. QED BY <1>2, <1>4, <2>1, PendingNat
<1>5. QED BY <1>3, <1>4 DEF SubmitCandidate

AllFlags == \A f \in Flags : FlagInv(f)

LEMMA Quiet ==
  ASSUME TypeOK, AllFlags, UNCHANGED <<cand, sub, calls, timer, todo, credit>>
  PROVE  AllFlags'
<1>1. \A g \in Flags : Same(g)
  BY DEF Same
<1>2. QED BY <1>1, Untouched DEF AllFlags

LEMMA OneFlag ==
  ASSUME TypeOK, AllFlags, NEW f \in Flags, FlagInv(f)',
         \A g \in Flags \ {f} : Same(g)
  PROVE  AllFlags'
<1>1. \A g \in Flags \ {f} : FlagInv(g)'
  BY Untouched DEF AllFlags
<1>2. QED BY <1>1 DEF AllFlags

LEMMA CandidateBudget ==
  ASSUME TypeOK, AllFlags, NEW f \in Flags, OnCandidate(f)
  PROVE  AllFlags'
<1>1. FlagInv(f) /\ cand[f] = "NONE" /\ cand[f] \in {"NONE", "REJECTED_LOCAL"}
  BY DEF AllFlags, OnCandidate, RejectLocally, HoldForHuman, AutoSubmitCandidate
<1>2. /\ sub[f] = "NONE"
      /\ Limiter(f, "loop") = 0 /\ Limiter(f, "handler") = 0
      /\ f \notin timer
      /\ 1 <= credit[f]
  BY <1>1, Unstarted
<1>3. f \notin todo
  BY <1>1 DEF FlagInv, Fresh
<1>4. CASE RejectLocally(f) \/ HoldForHuman(f)
  <2>1. UNCHANGED <<sub, calls, timer, todo, credit>> /\ \A g \in Flags \ {f} : cand'[g] = cand[g]
    BY <1>4 DEF RejectLocally, HoldForHuman, TypeOK, memory
  <2>2. cand'[f] # "NONE"
    BY <1>4 DEF RejectLocally, HoldForHuman, TypeOK
  <2>3. \A g \in Flags \ {f} : Same(g)
    BY <2>1 DEF Same
  <2>4. Fresh(f)'
    BY <1>1, <2>1, <2>2 DEF Fresh, FlagInv
  <2>5. Pending(f)' = 0 /\ credit'[f] = credit[f]
    BY <1>2, <1>3, <2>1 DEF Pending, Limiter
  <2>6. FlagInv(f)'
    BY <1>2, <2>4, <2>5, PendingNat DEF FlagInv, Covered
  <2>7. QED BY <2>3, <2>6, OneFlag
<1>5. CASE AutoSubmitCandidate(f)
  <2>1. Target(life, "CANDIDATE_FOUND") \in Lifecycles
    BY TargetInLifecycles DEF TypeOK, Events
  <2>2. SubmitCandidate(f, Target(life, "CANDIDATE_FOUND"), "handler")
    BY <1>5 DEF AutoSubmitCandidate
  <2>3. /\ Limiter(f, "loop")' \in Nat
        /\ Limiter(f, "handler")' \in Nat
        /\ Limiter(f, "loop")' + Limiter(f, "handler")' + (IF f \in timer' THEN 1 ELSE 0)
             <= Limiter(f, "loop") + Limiter(f, "handler") + (IF f \in timer THEN 1 ELSE 0) + 1
        /\ \A g \in Flags \ {f} : /\ sub'[g] = sub[g]
                                  /\ g \in timer' => g \in timer
        /\ \A c \in Call : c.flag # f => calls'[c] = calls[c]
    BY <2>1, <2>2, SubmitCandidatePending
  <2>4. /\ UNCHANGED <<todo, credit>>
        /\ cand'[f] = "VERIFIED"
        /\ \A g \in Flags \ {f} : cand'[g] = cand[g]
    BY <1>5 DEF AutoSubmitCandidate, TypeOK
  <2>5. \A g \in Flags \ {f} : Same(g)
    BY <2>3, <2>4 DEF Same
  <2>6. Fresh(f)'
    BY <2>4 DEF Fresh
  <2>7. Pending(f)' <= 1
    BY <1>2, <1>3, <2>3, <2>4 DEF Pending
  <2>8. Pending(f)' \in Int
    BY <2>3 DEF Pending
  <2>9. FlagInv(f)'
    BY <1>2, <2>4, <2>6, <2>7, <2>8, PendingNat DEF FlagInv, Covered
  <2>10. QED BY <2>5, <2>9, OneFlag
<1>6. QED BY <1>4, <1>5 DEF OnCandidate

LEMMA ReconsiderBudget ==
  ASSUME TypeOK, AllFlags, Reconsider
  PROVE  AllFlags'
<1>1. /\ UNCHANGED <<cand, sub, calls, timer, credit>>
      /\ todo = {}
      /\ todo' = {f \in Flags : cand[f] = "REJECTED_LOCAL"}
  BY DEF Reconsider, rows
<1>2. ASSUME NEW f \in Flags, cand[f] = "REJECTED_LOCAL"
      PROVE  FlagInv(f)'
  <2>1. /\ FlagInv(f)
        /\ cand[f] \in {"NONE", "REJECTED_LOCAL"}
        /\ cand[f] # "NONE"
    BY <1>2 DEF AllFlags
  <2>2. /\ Limiter(f, "loop") = 0 /\ Limiter(f, "handler") = 0
        /\ f \notin timer
        /\ 1 <= credit[f]
    BY <2>1, Unstarted
  <2>3. Pending(f)' = 1 /\ credit'[f] = credit[f]
    BY <1>1, <1>2, <2>2 DEF Pending, Limiter
  <2>4. Fresh(f)'
    BY <1>1, <2>1 DEF FlagInv, Fresh
  <2>5. QED BY <2>2, <2>3, <2>4, PendingNat DEF FlagInv, Covered
<1>3. ASSUME NEW f \in Flags, cand[f] # "REJECTED_LOCAL"
      PROVE  FlagInv(f)'
  <2>1. Same(f)
    BY <1>1, <1>3 DEF Same
  <2>2. QED BY <2>1, Untouched DEF AllFlags
<1>4. QED BY <1>2, <1>3 DEF AllFlags

LEMMA ReconsiderNextBudget ==
  ASSUME TypeOK, AllFlags, NEW f \in todo, ReconsiderNext(f)
  PROVE  AllFlags'
<1>1. /\ f \in Flags
      /\ FlagInv(f)
      /\ todo' = todo \ {f}
      /\ credit' = credit
  BY DEF TypeOK, AllFlags, ReconsiderNext
<1>2. /\ Limiter(f, "loop") \in Nat
      /\ Limiter(f, "handler") \in Nat
      /\ Pending(f) \in Nat
      /\ credit[f] \in Int
  BY <1>1, PendingNat
<1>3. 1 <= credit[f]
      /\ Limiter(f, "loop") + Limiter(f, "handler") + (IF f \in timer THEN 1 ELSE 0) + 1 <= credit[f]
  BY <1>1, <1>2 DEF FlagInv, Covered, Pending
<1>4. cand[f] # "NONE"
  BY <1>1 DEF FlagInv, Fresh
<1>5. CASE UNCHANGED <<life, cand, sub, newest, calls, timer>>
  <2>1. \A g \in Flags : Same(g)
    BY <1>1, <1>5 DEF Same
  <2>2. QED BY <2>1, Untouched DEF AllFlags
<1>6. CASE /\ cand' = [cand EXCEPT ![f] = "PENDING"]
           /\ UNCHANGED <<life, sub, newest, calls, timer>>
  <2>1. \A g \in Flags \ {f} : Same(g)
    BY <1>1, <1>6 DEF Same, TypeOK
  <2>2. cand'[f] = "PENDING"
    BY <1>1, <1>6 DEF TypeOK
  <2>3. Fresh(f)'
    BY <2>2 DEF Fresh
  <2>4. Pending(f)' <= credit'[f] /\ 1 <= credit'[f]
    BY <1>1, <1>2, <1>3, <1>6 DEF Pending, Limiter
  <2>5. FlagInv(f)'
    BY <2>3, <2>4 DEF FlagInv, Covered
  <2>6. QED BY <1>1, <2>1, <2>5, OneFlag
<1>7. CASE /\ cand' = [cand EXCEPT ![f] = "VERIFIED"]
           /\ UNCHANGED <<life, sub, newest, calls, timer>>
  <2>1. \A g \in Flags \ {f} : Same(g)
    BY <1>1, <1>7 DEF Same, TypeOK
  <2>2. cand'[f] = "VERIFIED"
    BY <1>1, <1>7 DEF TypeOK
  <2>3. Fresh(f)'
    BY <2>2 DEF Fresh
  <2>4. Pending(f)' <= credit'[f] /\ 1 <= credit'[f]
    BY <1>1, <1>2, <1>3, <1>7 DEF Pending, Limiter
  <2>5. FlagInv(f)'
    BY <2>3, <2>4 DEF FlagInv, Covered
  <2>6. QED BY <1>1, <2>1, <2>5, OneFlag
<1>8. CASE /\ cand' = [cand EXCEPT ![f] = "VERIFIED"]
           /\ SubmitCandidate(f, Target(life, "CANDIDATE_FOUND"), "loop")
  <2>1. Target(life, "CANDIDATE_FOUND") \in Lifecycles
    BY TargetInLifecycles DEF TypeOK, Events
  <2>2. /\ Limiter(f, "loop")' \in Nat
        /\ Limiter(f, "handler")' \in Nat
        /\ Limiter(f, "loop")' + Limiter(f, "handler")' + (IF f \in timer' THEN 1 ELSE 0)
             <= Limiter(f, "loop") + Limiter(f, "handler") + (IF f \in timer THEN 1 ELSE 0) + 1
        /\ \A g \in Flags \ {f} : /\ sub'[g] = sub[g]
                                  /\ g \in timer' => g \in timer
        /\ \A c \in Call : c.flag # f => calls'[c] = calls[c]
    BY <1>1, <1>8, <2>1, SubmitCandidatePending
  <2>3. \A g \in Flags \ {f} : Same(g)
    BY <1>1, <1>8, <2>2 DEF Same, TypeOK
  <2>4. cand'[f] = "VERIFIED"
    BY <1>1, <1>8 DEF TypeOK
  <2>5. Fresh(f)'
    BY <2>4 DEF Fresh
  <2>6. f \notin todo'
    BY <1>1
  <2>7. Pending(f)' <= credit'[f] /\ 1 <= credit'[f]
    BY <1>1, <1>2, <1>3, <2>2, <2>6 DEF Pending
  <2>8. FlagInv(f)'
    BY <2>5, <2>7 DEF FlagInv, Covered
  <2>9. QED BY <1>1, <2>3, <2>8, OneFlag
<1>9. QED BY <1>5, <1>6, <1>7, <1>8 DEF ReconsiderNext

LEMMA SendBudgetStep ==
  ASSUME TypeOK, AllFlags, NEW c \in Call, Send(c)
  PROVE  AllFlags'
<1> DEFINE f == c.flag
           d == [c EXCEPT !.stage = "judge"]
<1>1. /\ f \in Flags /\ c.caller \in {"loop", "handler"} /\ d \in Call
      /\ c = Waiting(f, c.caller) /\ d.flag = f /\ d.stage = "judge"
  BY DEF Call, Send, Waiting
<1>2. /\ calls' = [calls EXCEPT ![c] = @ - 1, ![d] = @ + 1]
      /\ sub' = [sub EXCEPT ![f] = "SENDING"]
      /\ credit' = [credit EXCEPT ![f] = @ - 1]
      /\ UNCHANGED <<cand, timer, todo>>
      /\ calls[c] > 0
  BY DEF Send
<1>3. calls'[c] = calls[c] - 1 /\ \A e \in Call \ {c, d} : calls'[e] = calls[e]
  BY <1>1, <1>2, CallShape DEF TypeOK
<1>4. \A g \in Flags \ {f} : Same(g)
  BY <1>1, <1>2, <1>3 DEF Same, TypeOK
<1>5. Limiter(f, "loop")' + Limiter(f, "handler")' = Limiter(f, "loop") + Limiter(f, "handler") - 1
  <2>1. CASE c.caller = "loop"
    BY <1>1, <1>3, <2>1, CallShape DEF Limiter, Waiting, TypeOK
  <2>2. CASE c.caller = "handler"
    BY <1>1, <1>3, <2>2, CallShape DEF Limiter, Waiting, TypeOK
  <2>3. QED BY <1>1, <2>1, <2>2
<1>6. Pending(f)' = Pending(f) - 1
  BY <1>1, <1>2, <1>5, PendingNat DEF Pending
<1>7. credit'[f] = credit[f] - 1
  BY <1>1, <1>2 DEF TypeOK
<1>8. ~Dormant(f)'
  BY <1>1, <1>2 DEF Dormant, TypeOK
<1>9. cand[f] \notin {"NONE", "REJECTED_LOCAL"}
  BY <1>1, <1>2 DEF AllFlags, FlagInv, Fresh
<1>10. Fresh(f)'
  BY <1>2, <1>9 DEF Fresh
<1>11. Pending(f) <= credit[f]
  BY <1>1 DEF AllFlags, FlagInv, Covered
<1>12. FlagInv(f)'
  BY <1>1, <1>6, <1>7, <1>8, <1>10, <1>11, PendingNat DEF FlagInv, Covered
<1>13. QED BY <1>1, <1>4, <1>12, OneFlag

(* An answer settles the row: only a rate-limited flag stays pending, with  *)
(* the attempt it gets back, and no settled flag is dormant.                *)
LEMMA AnswerBudget ==
  ASSUME TypeOK, AllFlags, NEW c \in Call, NEW r \in Possible(c.flag), Answer(c, r)
  PROVE  AllFlags'
<1> DEFINE f == c.flag
           v == Verdict(r)
<1>1. f \in Flags /\ c.stage = "judge" /\ calls[c] > 0
  BY DEF Call, Answer
<1>2. /\ calls' = [calls EXCEPT ![c] = @ - 1]
      /\ sub' = [sub EXCEPT ![f] = SubmissionAfter(v)]
      /\ cand' = [cand EXCEPT ![f] = CandidateAfter(v)]
      /\ UNCHANGED todo
  BY DEF Answer
<1>3. /\ \/ /\ v = "RATE_LIMITED"
            /\ timer' = timer \cup {f}
            /\ credit' = [credit EXCEPT ![f] = @ + 1]
         \/ v # "RATE_LIMITED" /\ UNCHANGED <<timer, credit>>
  BY DEF Answer
<1>4. v \in {"CORRECT", "WRONG", "RATE_LIMITED", "UNKNOWN", "REVIEW"}
  BY <1>1, AnswerType
<1>5. \A g \in Flags \ {f} : Same(g)
  BY <1>1, <1>2, <1>3 DEF Same, TypeOK
<1>6. Limiter(f, "loop")' = Limiter(f, "loop") /\ Limiter(f, "handler")' = Limiter(f, "handler")
  BY <1>1, <1>2, CallShape DEF Limiter, Waiting, TypeOK
<1>7. /\ sub'[f] = SubmissionAfter(v)
      /\ cand'[f] = CandidateAfter(v)
  BY <1>1, <1>2 DEF TypeOK
<1>8. ~Dormant(f)'
  BY <1>4, <1>7 DEF Dormant, SubmissionAfter, CandidateAfter
<1>9. Fresh(f)'
  BY <1>4, <1>7 DEF Fresh, CandidateAfter
<1>10. /\ Limiter(f, "loop") \in Nat /\ Limiter(f, "handler") \in Nat
       /\ credit[f] \in Int
       /\ Pending(f) <= credit[f]
  BY <1>1, PendingNat DEF AllFlags, FlagInv, Covered
<1>11. Pending(f)' <= credit'[f]
  <2>1. CASE timer' = timer \cup {f} /\ credit' = [credit EXCEPT ![f] = @ + 1]
    <3>1. credit'[f] = credit[f] + 1
      BY <1>1, <2>1 DEF TypeOK
    <3>2. QED BY <1>2, <1>6, <1>10, <2>1, <3>1 DEF Pending
  <2>2. CASE UNCHANGED <<timer, credit>>
    BY <1>2, <1>6, <1>10, <2>2 DEF Pending
  <2>3. QED BY <1>3, <2>1, <2>2
<1>12. FlagInv(f)'
  BY <1>8, <1>9, <1>11 DEF FlagInv, Covered
<1>13. QED BY <1>1, <1>5, <1>12, OneFlag

LEMMA TimerBudget ==
  ASSUME TypeOK, AllFlags, NEW f \in Flags, TimerFires(f)
  PROVE  AllFlags'
<1>1. /\ f \in timer
      /\ UNCHANGED <<cand, sub, todo, credit>>
      /\ \/ SubmitNow(f, newest, "handler", timer \ {f})
         \/ timer' = timer \ {f} /\ calls' = calls
  BY DEF TimerFires, rows
<1>2. timer \ {f} \subseteq Flags
  BY DEF TypeOK
<1>3. CASE timer' = timer \ {f} /\ calls' = calls
  <2>1. \A g \in Flags : Same(g)
    BY <1>1, <1>3 DEF Same
  <2>2. QED BY <2>1, Untouched DEF AllFlags
<1>4. CASE SubmitNow(f, newest, "handler", timer \ {f})
  <2>1. /\ Limiter(f, "loop")' \in Nat
        /\ Limiter(f, "handler")' \in Nat
        /\ Limiter(f, "loop")' + Limiter(f, "handler")' + (IF f \in timer' THEN 1 ELSE 0)
             <= Limiter(f, "loop") + Limiter(f, "handler") + (IF f \in timer \ {f} THEN 1 ELSE 0) + 1
    BY <1>2, <1>4, SubmitNowPending
  <2>2. \A e \in Call : e.flag # f => calls'[e] = calls[e]
    BY <1>2, <1>4, SubmitNowEffect
  <2>3. timer' \subseteq timer
    BY <1>1, <1>4 DEF SubmitNow
  <2>4. \A g \in Flags \ {f} : Same(g)
    BY <1>1, <2>2, <2>3 DEF Same
  <2>5. Pending(f)' <= Pending(f)
    BY <1>1, <2>1, PendingNat DEF Pending
  <2>6. Fresh(f)'
    BY <1>1 DEF AllFlags, FlagInv, Fresh
  <2>7. Dormant(f)' <=> Dormant(f)
    BY <1>1 DEF Dormant
  <2>8. Pending(f)' \in Int
    BY <2>1 DEF Pending
  <2>9. FlagInv(f)'
    BY <1>1, <2>5, <2>6, <2>7, <2>8, PendingNat DEF AllFlags, FlagInv, Covered
  <2>10. QED BY <2>4, <2>9, OneFlag
<1>5. QED BY <1>1, <1>3, <1>4

(* A human decision leaves the flag with an outcome; what is pending stays  *)
(* covered.                                                                 *)
LEMMA DecisionBudget ==
  ASSUME TypeOK, AllFlags, NEW f \in Flags, Reject(f) \/ Accept(f)
  PROVE  AllFlags'
<1>1. UNCHANGED <<calls, timer, todo, credit>>
  BY DEF Reject, Accept, memory
<1>2. CASE UNCHANGED <<cand, sub>>
  BY <1>1, <1>2, Quiet
<1>3. ASSUME NEW o \in {"WRONG", "CORRECT"},
             cand' = [cand EXCEPT ![f] = o], sub' = [sub EXCEPT ![f] = o]
      PROVE  AllFlags'
  <2>1. cand'[f] = o /\ sub'[f] = o
    BY <1>3 DEF TypeOK
  <2>2. ~Dormant(f)' /\ Fresh(f)'
    BY <2>1 DEF Dormant, Fresh
  <2>3. Pending(f)' <= credit'[f]
    BY <1>1 DEF AllFlags, FlagInv, Covered, Pending, Limiter
  <2>4. \A g \in Flags \ {f} : Same(g)
    BY <1>1, <1>3 DEF Same, TypeOK
  <2>5. QED BY <2>2, <2>3, <2>4, OneFlag DEF FlagInv, Covered
<1>4. \/ UNCHANGED <<cand, sub>>
      \/ cand' = [cand EXCEPT ![f] = "WRONG"] /\ sub' = [sub EXCEPT ![f] = "WRONG"]
      \/ cand' = [cand EXCEPT ![f] = "CORRECT"] /\ sub' = [sub EXCEPT ![f] = "CORRECT"]
  BY DEF Reject, Accept
<1>5. QED BY <1>2, <1>3, <1>4

(* Asking again grants the attempt that #submitNow then may use.            *)
LEMMA AskAgainBudget ==
  ASSUME TypeOK, AllFlags, NEW f \in Flags, ManualSubmit(f) \/ RetrySubmission(f)
  PROVE  AllFlags'
<1>1. /\ credit'[f] = credit[f] + 1
      /\ \A g \in Flags \ {f} : credit'[g] = credit[g]
      /\ todo' = todo
      /\ \A g \in Flags \ {f} : cand'[g] = cand[g]
  BY DEF ManualSubmit, RetrySubmission, TypeOK
<1>2. timer \subseteq Flags /\ Target(life, "CANDIDATE_FOUND") \in Lifecycles
  BY TargetInLifecycles DEF TypeOK, Events
<1>3. /\ Limiter(f, "loop")' \in Nat
      /\ Limiter(f, "handler")' \in Nat
      /\ Limiter(f, "loop")' + Limiter(f, "handler")' + (IF f \in timer' THEN 1 ELSE 0)
           <= Limiter(f, "loop") + Limiter(f, "handler") + (IF f \in timer THEN 1 ELSE 0) + 1
      /\ \A e \in Call : e.flag # f => calls'[e] = calls[e]
  <2>1. CASE ManualSubmit(f)
    BY <1>2, <2>1, SubmitCandidatePending DEF ManualSubmit
  <2>2. CASE RetrySubmission(f)
    BY <1>2, <2>2, SubmitNowPending, SubmitNowEffect DEF RetrySubmission
  <2>3. QED BY <2>1, <2>2
<1>4. \A g \in Flags \ {f} : sub'[g] = sub[g] /\ (g \in timer' => g \in timer)
  <2>1. CASE ManualSubmit(f)
    BY <1>2, <2>1, SubmitCandidatePending DEF ManualSubmit
  <2>2. CASE RetrySubmission(f)
    BY <2>2 DEF RetrySubmission, SubmitNow, TypeOK
  <2>3. QED BY <2>1, <2>2
<1>5. \A g \in Flags \ {f} : Same(g)
  BY <1>1, <1>3, <1>4 DEF Same
<1>6. cand'[f] \notin {"NONE", "REJECTED_LOCAL"}
  <2>1. CASE ManualSubmit(f)
    BY <2>1 DEF ManualSubmit, TypeOK
  <2>2. CASE RetrySubmission(f)
    <3>1. sub[f] # "NONE"
      BY <2>2, ConfigAssumption DEF RetrySubmission
    <3>2. cand[f] \notin {"NONE", "REJECTED_LOCAL"}
      BY <3>1 DEF AllFlags, FlagInv, Fresh
    <3>3. QED BY <2>2, <3>2 DEF RetrySubmission
  <2>3. QED BY <2>1, <2>2
<1>7. Fresh(f)'
  BY <1>6 DEF Fresh
<1>8. Pending(f) \in Nat /\ Pending(f) <= credit[f] /\ credit[f] \in Int
  BY PendingNat DEF AllFlags, FlagInv, Covered
<1>9. Pending(f)' <= Pending(f) + 1
  BY <1>1, <1>3, PendingNat DEF Pending
<1>10. Pending(f)' \in Int
  BY <1>3 DEF Pending
<1>11. FlagInv(f)'
  BY <1>1, <1>7, <1>8, <1>9, <1>10 DEF FlagInv, Covered
<1>12. QED BY <1>5, <1>11, OneFlag

LEMMA HumanBudget ==
  ASSUME TypeOK, AllFlags, Human
  PROVE  AllFlags'
<1>1. CASE Pause \/ Resume \/ Park \/ Unpark \/ ResumeSolving
  <2>1. UNCHANGED <<cand, sub, calls, timer, todo, credit>>
    BY <1>1 DEF Pause, Resume, Park, Unpark, ResumeSolving, memory
  <2>2. QED BY <2>1, Quiet
<1>2. CASE Reconsider
  BY <1>2, ReconsiderBudget
<1>3. ASSUME NEW f \in Flags, Reject(f) \/ Accept(f)
      PROVE  AllFlags'
  BY <1>3, DecisionBudget
<1>4. ASSUME NEW f \in Flags, ManualSubmit(f) \/ RetrySubmission(f)
      PROVE  AllFlags'
  BY <1>4, AskAgainBudget
<1>5. QED BY <1>1, <1>2, <1>3, <1>4 DEF Human

(* A process that holds nothing in memory has nothing pending.              *)
Empty ==
  /\ timer = {}
  /\ todo = {}
  /\ \A c \in Call : calls[c] = 0

LEMMA EmptyPending ==
  ASSUME Empty, NEW f \in Flags
  PROVE  Pending(f) = 0
<1>1. Limiter(f, "loop") = 0 /\ Limiter(f, "handler") = 0
  BY CallShape DEF Empty, Limiter, Waiting
<1>2. QED BY <1>1 DEF Empty, Pending

LEMMA DieEmpties ==
  ASSUME Die
  PROVE  Empty' /\ ~up' /\ credit' = credit
BY DEF Die, Empty

(* Dying cannot overdraw anything: what a crash leaves behind in the rows   *)
(* is dormant at most once, and had an attempt left.                        *)
LEMMA CrashBudget ==
  ASSUME TypeOK, AllFlags, Crash \/ \E f \in Flags : CrashInCandidate(f)
  PROVE  AllFlags'
<1>1. Empty' /\ credit' = credit
  BY DieEmpties DEF Crash, CrashInCandidate
<1>2. \A g \in Flags : Pending(g)' = 0
  <2>1. ASSUME NEW g \in Flags PROVE Pending(g)' = 0
    <3>1. Limiter(g, "loop")' = 0 /\ Limiter(g, "handler")' = 0
      BY <1>1, CallShape DEF Empty, Limiter, Waiting
    <3>2. QED BY <1>1, <3>1 DEF Empty, Pending
  <2>2. QED BY <2>1
<1>3. \A g \in Flags : credit[g] \in Int /\ 0 <= credit[g]
  BY PendingNat DEF AllFlags, FlagInv, Covered
<1>4. ASSUME NEW g \in Flags, cand'[g] = cand[g], sub'[g] = sub[g]
      PROVE  FlagInv(g)'
  <2>1. Fresh(g)'
    BY <1>1, <1>4 DEF AllFlags, FlagInv, Fresh, Empty
  <2>2. Dormant(g)' <=> Dormant(g)
    BY <1>4 DEF Dormant
  <2>3. QED BY <1>1, <1>2, <1>3, <2>1, <2>2 DEF AllFlags, FlagInv, Covered
<1>5. CASE Crash
  BY <1>4, <1>5 DEF Crash, rows, AllFlags
<1>6. ASSUME NEW f \in Flags, CrashInCandidate(f)
      PROVE  AllFlags'
  <2>1. cand[f] = "NONE" /\ 1 <= credit[f]
    <3>1. cand[f] = "NONE"
      BY <1>6 DEF CrashInCandidate
    <3>2. FlagInv(f) /\ cand[f] \in {"NONE", "REJECTED_LOCAL"}
      BY <3>1 DEF AllFlags
    <3>3. QED BY <3>1, <3>2, Unstarted
  <2>2. cand'[f] \in {"PENDING", "VERIFIED"} /\ \A g \in Flags \ {f} : cand'[g] = cand[g]
    BY <1>6 DEF CrashInCandidate, TypeOK
  <2>3. \A g \in Flags \ {f} : sub'[g] = sub[g]
    <3>1. CreateOrGet(f, "QUEUED") \/ UNCHANGED <<sub, newest>>
      BY <1>6 DEF CrashInCandidate
    <3>2. QED BY <3>1, CreateOrGetType
  <2>4. Fresh(f)'
    BY <2>2 DEF Fresh
  <2>5. FlagInv(f)'
    BY <1>1, <1>2, <1>3, <2>1, <2>4 DEF FlagInv, Covered
  <2>6. QED BY <1>4, <2>2, <2>3, <2>5 DEF AllFlags
<1>7. QED BY <1>5, <1>6

(* Recovery picks up rows of a process that held nothing: at most one flag, *)
(* and only one that is dormant.                                            *)
LEMMA RecoverSubmittingBudget ==
  ASSUME TypeOK, AllFlags, Empty, RecoverSubmitting, UNCHANGED <<todo, credit>>
  PROVE  AllFlags'
<1>1. CASE HoldForReview \/ LeaveUnknown \/ NothingPending
  <2>1. UNCHANGED <<cand, sub, calls, timer>>
    BY <1>1 DEF HoldForReview, LeaveUnknown, NothingPending
  <2>2. QED BY <2>1, Quiet
<1>2. ASSUME NEW f \in Flags, MarkInterrupted(f)
      PROVE  AllFlags'
  <2>1. UNCHANGED <<calls, timer>> /\ \A g \in Flags \ {f} : cand'[g] = cand[g] /\ sub'[g] = sub[g]
    BY <1>2 DEF MarkInterrupted, TypeOK
  <2>2. \A g \in Flags \ {f} : Same(g)
    BY <2>1 DEF Same
  <2>3. sub'[f] = "UNKNOWN" /\ cand'[f] = "SUBMISSION_UNKNOWN"
    BY <1>2 DEF MarkInterrupted, TypeOK
  <2>4. ~Dormant(f)' /\ Fresh(f)'
    BY <2>3 DEF Dormant, Fresh
  <2>5. Pending(f)' <= credit'[f]
    BY <2>1 DEF AllFlags, FlagInv, Covered, Pending, Limiter
  <2>6. QED BY <2>2, <2>4, <2>5, OneFlag DEF FlagInv, Covered
<1>3. ASSUME NEW f \in Flags, DriveQueued(f)
      PROVE  AllFlags'
  <2>1. /\ SubmitNow(f, newest, "handler", timer)
        /\ timer \subseteq Flags
        /\ UNCHANGED <<cand, sub>>
        /\ sub[f] = "QUEUED"
    BY <1>3 DEF DriveQueued, Rows, TypeOK
  <2>2. /\ Limiter(f, "loop")' \in Nat
        /\ Limiter(f, "handler")' \in Nat
        /\ Limiter(f, "loop")' + Limiter(f, "handler")' + (IF f \in timer' THEN 1 ELSE 0)
             <= Limiter(f, "loop") + Limiter(f, "handler") + (IF f \in timer THEN 1 ELSE 0) + 1
    BY <2>1, SubmitNowPending
  <2>3. \A e \in Call : e.flag # f => calls'[e] = calls[e]
    BY <2>1, SubmitNowEffect
  <2>4. timer' \subseteq timer \cup {f}
    BY <2>1 DEF SubmitNow
  <2>5. \A g \in Flags \ {f} : Same(g)
    BY <2>1, <2>3, <2>4 DEF Same
  <2>6. Pending(f) = 0
    BY EmptyPending
  <2>7. Pending(f)' <= Pending(f) + 1 /\ Pending(f)' \in Int
    BY <2>2, PendingNat DEF Pending
  <2>8. 1 <= credit[f] /\ credit[f] \in Int
    BY <2>1, PendingNat DEF AllFlags, FlagInv, Covered, Dormant
  <2>9. cand[f] \notin {"NONE", "REJECTED_LOCAL"}
    BY <2>1 DEF AllFlags, FlagInv, Fresh
  <2>10. Fresh(f)'
    BY <2>1, <2>9 DEF Fresh
  <2>11. FlagInv(f)'
    BY <2>6, <2>7, <2>8, <2>10 DEF FlagInv, Covered
  <2>12. QED BY <2>5, <2>11, OneFlag
<1>4. ASSUME NEW f \in Flags, SubmitPreserved(f)
      PROVE  AllFlags'
  <2>1. /\ cand[f] \in {"VERIFIED", "PENDING"}
        /\ sub[f] \notin {"SENDING", "UNKNOWN"}
        /\ timer' = timer \cup {f}
        /\ calls' = calls
        /\ cand'[f] = "VERIFIED"
        /\ \A g \in Flags \ {f} : cand'[g] = cand[g]
    BY <1>4 DEF SubmitPreserved, Rows, Unsent, TypeOK
  <2>2. \A g \in Flags \ {f} : sub'[g] = sub[g]
    BY <1>4, CreateOrGetType DEF SubmitPreserved
  <2>3. \A g \in Flags \ {f} : Same(g)
    BY <2>1, <2>2 DEF Same
  <2>4. Pending(f) = 0
    BY EmptyPending
  <2>5. Pending(f)' <= 1
    BY <2>1, <2>4, PendingNat DEF Pending, Limiter
  <2>6. 1 <= credit[f] /\ credit[f] \in Int
    BY <2>1, PendingNat DEF AllFlags, FlagInv, Covered, Dormant
  <2>7. Fresh(f)'
    BY <2>1 DEF Fresh
  <2>8. Pending(f)' \in Int
    BY <2>1, PendingNat DEF Pending, Limiter
  <2>9. FlagInv(f)'
    BY <2>5, <2>6, <2>7, <2>8 DEF FlagInv, Covered
  <2>10. QED BY <2>3, <2>9, OneFlag
<1>5. QED BY <1>1, <1>2, <1>3, <1>4 DEF RecoverSubmitting

LEMMA RecoverBudget ==
  ASSUME TypeOK, AllFlags, DownIsEmpty, Recover
  PROVE  AllFlags'
<1>1. Empty /\ UNCHANGED <<todo, credit>>
  BY DEF DownIsEmpty, Empty, Recover
<1>2. CASE RecoverSubmitting
  BY <1>1, <1>2, RecoverSubmittingBudget
<1>3. CASE UNCHANGED <<cand, sub, calls, timer>>
  BY <1>1, <1>3, Quiet
<1>4. QED BY <1>2, <1>3 DEF Recover, RecoverLife, rows

LEMMA UpStays ==
  ASSUME Handlers, ~(\/ Crash
                     \/ \E f \in Flags : CrashInCandidate(f)
                     \/ \E c \in Call : \E r \in Possible(c.flag) : CrashInAnswer(c, r))
  PROVE  up' = up
<1>1. CASE Queue \/ Schedule \/ RuntimeUnavailable \/ WorkerGone \/ \E f \in Flags : CooldownEnds(f)
  BY <1>1 DEF Queue, Schedule, RuntimeUnavailable, WorkerGone, CooldownEnds, memory
<1>2. CASE Human
  BY <1>2 DEF Human, Pause, Resume, Park, Unpark, ResumeSolving, Reconsider, Reject, Accept,
              ManualSubmit, RetrySubmission, memory
<1>3. CASE \E f \in Flags : OnCandidate(f) \/ TimerFires(f)
  BY <1>3 DEF OnCandidate, RejectLocally, HoldForHuman, AutoSubmitCandidate, TimerFires, memory
<1>4. CASE \E c \in Call : Send(c) \/ \E r \in Possible(c.flag) : Answer(c, r)
  BY <1>4 DEF Send, Answer
<1>5. QED BY <1>1, <1>2, <1>3, <1>4 DEF Handlers

LEMMA UpOrEmpty ==
  ASSUME up' \/ Empty'
  PROVE  DownIsEmpty'
BY Zenon DEF DownIsEmpty, Empty

LEMMA BudgetStep ==
  ASSUME ~TornAnswers, BudgetInv, [Next]_vars
  PROVE  BudgetInv'
<1>1. TypeOK /\ AllFlags /\ DownIsEmpty
  BY BudgetPerFlag DEF AllFlags
<1>2. TypeOK'
  BY <1>1, TypeStep
<1>. SUFFICES AllFlags' /\ DownIsEmpty'
  BY <1>2
  DEF BudgetInv, AllFlags, FlagInv, Covered, Fresh, CreditCovers, FreshIsUntouched
<1>3. ASSUME up, NEW f \in todo, ReconsiderNext(f)
      PROVE  AllFlags' /\ DownIsEmpty'
  <2>1. AllFlags'
    BY <1>1, <1>3, ReconsiderNextBudget
  <2>2. up'
    BY <1>3 DEF ReconsiderNext
  <2>3. QED BY <2>1, <2>2, UpOrEmpty
<1>4. CASE up /\ Handlers
  <2>1. \A c \in Call : \A r \in Possible(c.flag) : ~CrashInAnswer(c, r)
    BY DEF CrashInAnswer
  <2>2. CASE Crash \/ \E f \in Flags : CrashInCandidate(f)
    <3>1. AllFlags'
      BY <1>1, <2>2, CrashBudget
    <3>2. Empty'
      BY <2>2, DieEmpties DEF Crash, CrashInCandidate
    <3>3. QED BY <3>1, <3>2, UpOrEmpty
  <2>3. CASE ~(Crash \/ \E f \in Flags : CrashInCandidate(f))
    <3>1. up'
      BY <1>4, <2>1, <2>3, UpStays
    <3>2. CASE Queue \/ Schedule \/ RuntimeUnavailable \/ WorkerGone
               \/ \E f \in Flags : CooldownEnds(f)
      <4>1. UNCHANGED <<cand, sub, calls, timer, todo, credit>>
        BY <3>2 DEF Queue, Schedule, RuntimeUnavailable, WorkerGone, CooldownEnds, memory
      <4>2. QED BY <1>1, <3>1, <4>1, Quiet, UpOrEmpty
    <3>3. CASE Human
      BY <1>1, <3>1, <3>3, HumanBudget, UpOrEmpty
    <3>4. CASE \E f \in Flags : OnCandidate(f) \/ TimerFires(f)
      BY <1>1, <3>1, <3>4, CandidateBudget, TimerBudget, UpOrEmpty
    <3>5. CASE \E c \in Call : Send(c) \/ \E r \in Possible(c.flag) : Answer(c, r)
      BY <1>1, <3>1, <3>5, SendBudgetStep, AnswerBudget, UpOrEmpty
    <3>6. QED BY <1>4, <2>1, <2>3, <3>2, <3>3, <3>4, <3>5 DEF Handlers
  <2>4. QED BY <2>2, <2>3
<1>5. CASE Recover
  <2>1. AllFlags'
    BY <1>1, <1>5, RecoverBudget
  <2>2. up'
    BY <1>5 DEF Recover
  <2>3. QED BY <2>1, <2>2, UpOrEmpty
<1>6. CASE UNCHANGED vars
  <2>1. UNCHANGED <<cand, sub, calls, timer, todo, credit, up>>
    BY <1>6 DEF vars
  <2>2. AllFlags'
    BY <1>1, <2>1, Quiet
  <2>3. QED BY <1>1, <2>1, <2>2 DEF DownIsEmpty
<1>7. QED BY <1>3, <1>4, <1>5, <1>6 DEF Next

LEMMA BudgetInit ==
  ASSUME Init
  PROVE  BudgetInv
<1>1. TypeOK
  BY TypeInit
<1>2. Empty /\ up
  BY DEF Init, Empty
<1>3. \A f \in Flags : Pending(f) = 0 /\ credit[f] = 1
  BY <1>2, EmptyPending DEF Init
<1>4. FreshIsUntouched
  BY <1>2 DEF Init, Empty, FreshIsUntouched
<1>5. QED BY <1>1, <1>2, <1>3, <1>4 DEF BudgetInv, CreditCovers, DownIsEmpty

(* No blind resubmission, for any set of flags and any use of the           *)
(* operations: while the writes of one answer are not torn apart by a       *)
(* crash, a flag is never sent more often than it was granted attempts.     *)
THEOREM NoBlindResubmission ==
  ASSUME ~TornAnswers
  PROVE  Spec => []SendBudget
<1>1. Init => BudgetInv
  BY BudgetInit
<1>2. BudgetInv /\ [Next]_vars => BudgetInv'
  BY BudgetStep
<1>3. BudgetInv => SendBudget
  <2>1. ASSUME BudgetInv, NEW f \in Flags
        PROVE  credit[f] >= 0
    <3>1. TypeOK /\ Pending(f) <= credit[f]
      BY <2>1 DEF BudgetInv, CreditCovers
    <3>2. QED BY <3>1, PendingNat
  <2>2. QED BY <2>1 DEF SendBudget
<1>4. QED BY <1>1, <1>2, <1>3, PTL DEF Spec
(* The budget of attempts of every flag is kept, in all its parts: the      *)
(* ledger of grants and sends covers what is pending, so that no flag is    *)
(* sent more often than it was granted attempts.                            *)
THEOREM BudgetIsKept ==
  ASSUME ~TornAnswers
  PROVE  Spec => []BudgetKept
<1>1. Init => BudgetInv
  BY BudgetInit
<1>2. BudgetInv /\ [Next]_vars => BudgetInv'
  BY BudgetStep
<1>3. BudgetInv => TypeOK
  BY DEF BudgetInv
<1>4. Spec => []SendBudget
  BY NoBlindResubmission
<1>5. QED BY <1>1, <1>2, <1>3, <1>4, PTL DEF Spec, BudgetKept
-----------------------------------------------------------------------------
(* The rows of the table that a submission meets.                          *)
LEMMA Targets ==
  ASSUME NEW s \in Lifecycles
  PROVE  /\ Target(s, "CANDIDATE_FOUND") = IF s \in {"READY", "QUEUED", "ACTIVE"} THEN "VERIFYING" ELSE s
         /\ Target(s, "VERIFY_OK") = IF s = "VERIFYING" THEN "SUBMITTING" ELSE s
         /\ Allowed(s, "VERIFY_OK") <=> s = "VERIFYING"
         /\ Allowed(s, "CANDIDATE_FOUND") <=> s \in {"READY", "QUEUED", "ACTIVE"}
         /\ Target(s, "SUBMIT_CORRECT") = IF s = "SUBMITTING" THEN "SOLVED" ELSE s
         /\ Target(s, "SUBMIT_WRONG") = IF s = "SUBMITTING" THEN "ACTIVE" ELSE s
         /\ Target(s, "RECOVER_SUBMITTING") = IF s = "SUBMITTING" THEN "QUEUED" ELSE s
         /\ Target(s, "RECOVER_ACTIVE") = IF s = "ACTIVE" THEN "QUEUED" ELSE s
         /\ Target(s, "RECOVER_VERIFYING") = IF s = "VERIFYING" THEN "QUEUED" ELSE s
<1>1. CASE s = "READY"      BY <1>1 DEF Target, Allowed, T, Lifecycles
<1>2. CASE s = "QUEUED"     BY <1>2 DEF Target, Allowed, T, Lifecycles
<1>3. CASE s = "ACTIVE"     BY <1>3 DEF Target, Allowed, T, Lifecycles
<1>4. CASE s = "VERIFYING"  BY <1>4 DEF Target, Allowed, T, Lifecycles
<1>5. CASE s = "SUBMITTING" BY <1>5 DEF Target, Allowed, T, Lifecycles
<1>6. CASE s = "PAUSED"     BY <1>6 DEF Target, Allowed, T, Lifecycles
<1>7. CASE s = "PARKED"     BY <1>7 DEF Target, Allowed, T, Lifecycles
<1>8. CASE s = "SOLVED"     BY <1>8 DEF Target, Allowed, T, Lifecycles
<1>9. QED BY <1>1, <1>2, <1>3, <1>4, <1>5, <1>6, <1>7, <1>8 DEF Lifecycles

(* Only VERIFY_OK leads to SUBMITTING.                                     *)
LEMMA OthersDoNotSubmit ==
  ASSUME NEW s \in Lifecycles \ {"SUBMITTING"},
         NEW e \in {"QUEUE", "SCHEDULE", "PAUSE", "RESUME", "PARK", "UNPARK", "REOPEN", "VERIFY_FAIL",
                    "SOLVER_STOPPED", "SUBMIT_WRONG", "SUBMIT_CORRECT", "RECOVER_ACTIVE",
                    "RECOVER_SUBMITTING", "RECOVER_VERIFYING"}
  PROVE  Target(s, e) # "SUBMITTING"
<1>1. CASE s = "READY"      BY <1>1 DEF Target, Allowed, T, Lifecycles
<1>2. CASE s = "QUEUED"     BY <1>2 DEF Target, Allowed, T, Lifecycles
<1>3. CASE s = "ACTIVE"     BY <1>3 DEF Target, Allowed, T, Lifecycles
<1>4. CASE s = "VERIFYING"  BY <1>4 DEF Target, Allowed, T, Lifecycles
<1>5. CASE s = "PAUSED"     BY <1>5 DEF Target, Allowed, T, Lifecycles
<1>6. CASE s = "PARKED"     BY <1>6 DEF Target, Allowed, T, Lifecycles
<1>7. CASE s = "SOLVED"     BY <1>7 DEF Target, Allowed, T, Lifecycles
<1>8. QED BY <1>1, <1>2, <1>3, <1>4, <1>5, <1>6, <1>7 DEF Lifecycles

(* A rejected or paused challenge is not SUBMITTING.                       *)
LEMMA RejectedDoesNotSubmit ==
  ASSUME TypeOK
  PROVE  /\ AfterReject # "SUBMITTING" /\ Target(AfterReject, "SOLVER_STOPPED") # "SUBMITTING"
         /\ Allowed(life, "PAUSE") => Target(life, "PAUSE") # "SUBMITTING"
         /\ Allowed(life, "PARK") => Target(life, "PARK") # "SUBMITTING"
         /\ Allowed(life, "RESUME") => Target(life, "RESUME") # "SUBMITTING"
         /\ Allowed(life, "UNPARK") => Target(life, "UNPARK") # "SUBMITTING"
<1>1. life \in Lifecycles  BY DEF TypeOK
<1>2. AfterReject # "SUBMITTING"
  <2>1. CASE life = "SUBMITTING"  BY <1>1, <2>1, Targets DEF AfterReject
  <2>2. CASE life # "SUBMITTING"  BY <1>1, <2>2, OthersDoNotSubmit DEF AfterReject
  <2>3. QED  BY <2>1, <2>2
<1>3. Target(AfterReject, "SOLVER_STOPPED") # "SUBMITTING"
  BY <1>2, AfterRejectType, OthersDoNotSubmit
<1>4. Target("SUBMITTING", "PAUSE") # "SUBMITTING" /\ ~Allowed("SUBMITTING", "PARK")
      /\ ~Allowed("SUBMITTING", "RESUME") /\ ~Allowed("SUBMITTING", "UNPARK")
  BY DEF Target, Allowed, T
<1>5. CASE life = "SUBMITTING"  BY <1>2, <1>3, <1>4, <1>5
<1>6. CASE life # "SUBMITTING"  BY <1>1, <1>2, <1>3, <1>6, OthersDoNotSubmit
<1>7. QED  BY <1>5, <1>6
-----------------------------------------------------------------------------
(* A SUBMITTING challenge shows a way out. The candidate's status, the last *)
(* part of PanelShown, is not needed: the row says it all.                  *)

Way ==
  \/ blocked = "SUBMISSION_OUTCOME_UNKNOWN"
  \/ \E f \in Flags : sub[f] \in {"UNKNOWN", "SENDING"} \/ Driven(f)

Seen == up /\ life = "SUBMITTING" => Way

(* Rows are at most created.                                               *)
Created == \A g \in Flags : sub'[g] = sub[g] \/ (sub[g] = "NONE" /\ sub'[g] = "QUEUED")

LEMMA WayStays ==
  ASSUME Way, UNCHANGED <<blocked, calls, timer>>, Created
  PROVE  Way'
<1>1. CASE blocked = "SUBMISSION_OUTCOME_UNKNOWN"  BY <1>1 DEF Way
<1>2. ASSUME NEW f \in Flags, sub[f] \in {"UNKNOWN", "SENDING"}  PROVE Way'
  <2>1. sub'[f] = sub[f]  BY <1>2 DEF Created
  <2>2. QED  BY <1>2, <2>1 DEF Way
<1>3. ASSUME NEW f \in Flags, Driven(f)  PROVE Way'
  <2>1. CallsOf(f)' = CallsOf(f)  BY DEF CallsOf
  <2>2. sub[f] # "UNKNOWN" => sub'[f] # "UNKNOWN"  BY DEF Created
  <2>3. Driven(f)'  BY <1>3, <2>1, <2>2 DEF Driven
  <2>4. QED  BY <2>3 DEF Way
<1>4. QED  BY <1>1, <1>2, <1>3 DEF Way

(* #submitNow drives, or arms the timer of a row that shows itself.        *)
LEMMA SubmitNowShows ==
  ASSUME TypeOK, NEW f \in Flags, NEW last, NEW caller \in {"loop", "handler"},
         NEW timers, timers \subseteq Flags, SubmitNow(f, last, caller, timers)
  PROVE  Way'
<1>1. CASE f \in timer'  BY <1>1 DEF Way, Driven
<1>2. CASE calls'[Waiting(f, caller)] = calls[Waiting(f, caller)] + 1
  <2>1. Waiting(f, caller) \in Call /\ Waiting(f, caller).flag = f  BY CallShape
  <2>2. calls[Waiting(f, caller)] \in Nat  BY <2>1 DEF TypeOK
  <2>3. calls'[Waiting(f, caller)] > 0  BY <1>2, <2>2
  <2>4. CallsOf(f)' # {}  BY <2>1, <2>3 DEF CallsOf
  <2>5. QED  BY <2>4 DEF Way, Driven
<1>3. QED  BY <1>1, <1>2, SubmitNowEffect

LEMMA CreateOrGetCreates ==
  ASSUME TypeOK, NEW f \in Flags, CreateOrGet(f, "QUEUED")
  PROVE  Created
BY DEF CreateOrGet, Created, TypeOK

LEMMA SubmitCandidateShows ==
  ASSUME TypeOK, Seen, up, UNCHANGED blocked, NEW f \in Flags, NEW caller \in {"loop", "handler"},
         SubmitCandidate(f, Target(life, "CANDIDATE_FOUND"), caller)
  PROVE  Seen'
<1>1. PICK s \in Lifecycles : s = Target(life, "CANDIDATE_FOUND") /\ (s = "SUBMITTING" => life = "SUBMITTING")
  <2>1. life \in Lifecycles  BY DEF TypeOK
  <2>2. Target(life, "CANDIDATE_FOUND") \in Lifecycles  BY <2>1, TargetInLifecycles DEF Events
  <2>3. Target(life, "CANDIDATE_FOUND") = "SUBMITTING" => life = "SUBMITTING"  BY <2>1, Targets
  <2>4. QED  BY <2>2, <2>3
<1>2. SubmitCandidate(f, s, caller)  BY <1>1
<1>3. CASE Allowed(s, "VERIFY_OK")
  <2>1. SubmitNow(f, newest', caller, timer)  BY <1>2, <1>3 DEF SubmitCandidate
  <2>2. timer \subseteq Flags  BY DEF TypeOK
  <2>3. QED  BY <2>1, <2>2, SubmitNowShows DEF Seen
<1>4. CASE ~Allowed(s, "VERIFY_OK")
  <2>1. UNCHANGED <<calls, timer>> /\ life' = s /\ CreateOrGet(f, "QUEUED")
    BY <1>2, <1>4 DEF SubmitCandidate, Target
  <2>2. Created  BY <2>1, CreateOrGetCreates
  <2>3. QED  BY <1>1, <2>1, <2>2, WayStays DEF Seen
<1>5. QED  BY <1>3, <1>4

LEMMA SeenScheduling ==
  ASSUME TypeOK, Seen, up,
         \/ Queue \/ Schedule \/ RuntimeUnavailable \/ WorkerGone \/ \E f \in Flags : CooldownEnds(f)
  PROVE  Seen'
<1>1. life \in Lifecycles  BY DEF TypeOK
<1>2. CASE \E f \in Flags : CooldownEnds(f)
  <2>1. UNCHANGED <<blocked, calls, timer, sub, life>>  BY <1>2 DEF CooldownEnds, memory
  <2>2. Created  BY <2>1 DEF Created
  <2>3. QED  BY <2>1, <2>2, WayStays DEF Seen
<1>3. CASE Queue \/ Schedule \/ RuntimeUnavailable \/ WorkerGone
  <2>1. life' # "SUBMITTING"
    BY <1>1, <1>3, OthersDoNotSubmit DEF Queue, Schedule, RuntimeUnavailable, WorkerGone
  <2>2. QED  BY <2>1 DEF Seen
<1>4. QED  BY <1>2, <1>3

LEMMA SeenCandidate ==
  ASSUME TypeOK, Seen, up, NEW f \in Flags, OnCandidate(f)
  PROVE  Seen'
<1>1. CASE RejectLocally(f) \/ HoldForHuman(f)
  <2>1. UNCHANGED <<blocked, calls, timer, sub, life>>  BY <1>1 DEF RejectLocally, HoldForHuman, memory
  <2>2. Created  BY <2>1 DEF Created
  <2>3. QED  BY <2>1, <2>2, WayStays DEF Seen
<1>2. CASE AutoSubmitCandidate(f)
  BY <1>2, SubmitCandidateShows DEF AutoSubmitCandidate
<1>3. QED  BY <1>1, <1>2 DEF OnCandidate

LEMMA SeenReconsider ==
  ASSUME TypeOK, Seen, up, NEW f \in todo, ReconsiderNext(f)
  PROVE  Seen'
<1>1. f \in Flags /\ UNCHANGED blocked  BY DEF TypeOK, ReconsiderNext
<1>2. CASE UNCHANGED <<life, sub, calls, timer>>
  <2>1. Created  BY <1>2 DEF Created
  <2>2. QED  BY <1>1, <1>2, <2>1, WayStays DEF Seen
<1>3. CASE SubmitCandidate(f, Target(life, "CANDIDATE_FOUND"), "loop")
  BY <1>1, <1>3, SubmitCandidateShows
<1>4. QED  BY <1>2, <1>3 DEF ReconsiderNext

LEMMA SeenSend ==
  ASSUME TypeOK, NEW c \in Call, Send(c)
  PROVE  Seen'
<1>1. c.flag \in Flags  BY DEF Call
<1>2. sub'[c.flag] = "SENDING"  BY <1>1 DEF Send, TypeOK
<1>3. QED  BY <1>1, <1>2 DEF Seen, Way

LEMMA SeenAnswer ==
  ASSUME TypeOK, NEW c \in Call, NEW r \in Possible(c.flag), Answer(c, r)
  PROVE  Seen'
<1>1. PICK f \in Flags : f = c.flag  BY DEF Call
<1>2. PICK v : v = Verdict(r)  OBVIOUS
<1>3. v \in {"CORRECT", "WRONG", "RATE_LIMITED", "UNKNOWN", "REVIEW"}  BY <1>1, <1>2, AnswerType
<1>4. sub' = [sub EXCEPT ![f] = SubmissionAfter(v)] /\ life' = LifeAfter(v)
      /\ (v = "RATE_LIMITED" => timer' = timer \cup {f})
  BY <1>1, <1>2 DEF Answer
<1>5. CASE v = "RATE_LIMITED"
  <2>1. f \in timer'  BY <1>4, <1>5
  <2>2. QED  BY <2>1 DEF Seen, Way, Driven
<1>6. CASE v = "UNKNOWN"
  <2>1. sub'[f] = "UNKNOWN"  BY <1>4, <1>6 DEF SubmissionAfter, TypeOK
  <2>2. QED  BY <2>1 DEF Seen, Way
<1>7. CASE v \in {"CORRECT", "WRONG", "REVIEW"}
  <2>1. life \in Lifecycles  BY DEF TypeOK
  <2>2. life' = Target(life, "SUBMIT_CORRECT") \/ life' = Target(life, "SUBMIT_WRONG")
    BY <1>4, <1>7 DEF LifeAfter
  <2>3. life' # "SUBMITTING"  BY <2>1, <2>2, Targets
  <2>4. QED  BY <2>3 DEF Seen
<1>8. QED  BY <1>3, <1>5, <1>6, <1>7

LEMMA SeenTimer ==
  ASSUME TypeOK, NEW f \in Flags, TimerFires(f), up, Seen
  PROVE  Seen'
<1>1. UNCHANGED <<life, sub, blocked>> /\ timer \ {f} \subseteq Flags  BY DEF TimerFires, rows, TypeOK
<1>2. CASE life = "SUBMITTING" /\ sub[f] # "UNKNOWN"
  <2>1. SubmitNow(f, newest, "handler", timer \ {f})  BY <1>2 DEF TimerFires
  <2>2. QED  BY <1>1, <2>1, SubmitNowShows DEF Seen
<1>3. CASE life # "SUBMITTING"  BY <1>1, <1>3 DEF Seen
<1>4. CASE sub[f] = "UNKNOWN"  BY <1>1, <1>4 DEF Seen, Way
<1>5. QED  BY <1>2, <1>3, <1>4

LEMMA SeenHuman ==
  ASSUME TypeOK, Seen, up, Human
  PROVE  Seen'
<1>1. life \in Lifecycles  BY DEF TypeOK
<1>2. CASE Pause \/ Resume \/ Park \/ Unpark
  <2>1. life' # "SUBMITTING"  BY <1>2, RejectedDoesNotSubmit DEF Pause, Resume, Park, Unpark
  <2>2. QED  BY <2>1 DEF Seen
<1>3. CASE ResumeSolving
  <2>1. life' = Target(life, "RECOVER_SUBMITTING") \/ life' = Target(life, "SUBMIT_WRONG")
    BY <1>3 DEF ResumeSolving
  <2>2. life' # "SUBMITTING"  BY <1>1, <2>1, Targets
  <2>3. QED  BY <2>2 DEF Seen
<1>4. CASE Reconsider
  <2>1. UNCHANGED <<blocked, calls, timer, sub, life>>  BY <1>4 DEF Reconsider, rows
  <2>2. Created  BY <2>1 DEF Created
  <2>3. QED  BY <2>1, <2>2, WayStays DEF Seen
<1>5. ASSUME NEW f \in Flags, Reject(f) \/ Accept(f)  PROVE Seen'
  <2>1. life' # "SUBMITTING"  BY <1>5, RejectedDoesNotSubmit DEF Reject, Accept
  <2>2. QED  BY <2>1 DEF Seen
<1>6. ASSUME NEW f \in Flags, ManualSubmit(f)  PROVE Seen'
  BY <1>6, SubmitCandidateShows DEF ManualSubmit
<1>7. ASSUME NEW f \in Flags, RetrySubmission(f)  PROVE Seen'
  <2>1. SubmitNow(f, newest, "handler", timer) /\ timer \subseteq Flags
    BY <1>7 DEF RetrySubmission, TypeOK
  <2>2. QED  BY <2>1, SubmitNowShows DEF Seen
<1>8. QED  BY <1>2, <1>3, <1>4, <1>5, <1>6, <1>7 DEF Human

LEMMA SeenRecover ==
  ASSUME TypeOK, Recover
  PROVE  Seen'
<1>1. life \in Lifecycles  BY DEF TypeOK
<1>2. CASE RecoverSubmitting
  <2>1. CASE HoldForReview \/ NothingPending
    <3>1. "SUBMITTING" \in Lifecycles  BY DEF Lifecycles
    <3>2. life' # "SUBMITTING"  BY <2>1, <3>1, Targets DEF HoldForReview, NothingPending
    <3>3. QED  BY <3>2 DEF Seen
  <2>2. CASE LeaveUnknown \/ \E f \in Flags : MarkInterrupted(f)
    BY <2>2 DEF LeaveUnknown, MarkInterrupted, Seen, Way
  <2>3. ASSUME NEW f \in Flags, DriveQueued(f)  PROVE Seen'
    <3>1. SubmitNow(f, newest, "handler", timer) /\ timer \subseteq Flags
      BY <2>3 DEF DriveQueued, TypeOK
    <3>2. QED  BY <3>1, SubmitNowShows DEF Seen
  <2>4. ASSUME NEW f \in Flags, SubmitPreserved(f)  PROVE Seen'
    <3>1. f \in timer'  BY <2>4 DEF SubmitPreserved
    <3>2. QED  BY <3>1 DEF Seen, Way, Driven
  <2>5. QED  BY <1>2, <2>1, <2>2, <2>3, <2>4 DEF RecoverSubmitting
<1>3. CASE life' # "SUBMITTING"  BY <1>3 DEF Seen
<1>4. QED  BY <1>1, <1>2, <1>3, Targets DEF Recover, RecoverLife, rows

LEMMA SeenStep == TypeOK /\ Seen /\ [Next]_vars => Seen'
<1>1. SUFFICES ASSUME TypeOK, Seen, [Next]_vars PROVE Seen'  OBVIOUS
<1>2. ASSUME up, NEW f \in todo, ReconsiderNext(f) PROVE Seen'  BY <1>1, <1>2, SeenReconsider
<1>3. CASE up /\ Handlers
  <2>1. CASE \/ Crash \/ \E f \in Flags : CrashInCandidate(f)
             \/ \E c \in Call : \E r \in Possible(c.flag) : CrashInAnswer(c, r)
    <3>1. ~up'  BY <2>1 DEF Crash, CrashInCandidate, CrashInAnswer, Die
    <3>2. QED  BY <3>1 DEF Seen
  <2>2. CASE Queue \/ Schedule \/ RuntimeUnavailable \/ WorkerGone \/ \E f \in Flags : CooldownEnds(f)
    BY <1>1, <1>3, <2>2, SeenScheduling
  <2>3. CASE Human  BY <1>1, <1>3, <2>3, SeenHuman
  <2>4. CASE \E f \in Flags : OnCandidate(f) \/ TimerFires(f)
    BY <1>1, <1>3, <2>4, SeenCandidate, SeenTimer
  <2>5. CASE \E c \in Call : Send(c) \/ \E r \in Possible(c.flag) : Answer(c, r)
    BY <1>1, <2>5, SeenSend, SeenAnswer
  <2>6. QED  BY <1>3, <2>1, <2>2, <2>3, <2>4, <2>5 DEF Handlers
<1>4. CASE Recover  BY <1>1, <1>4, SeenRecover
<1>5. CASE UNCHANGED vars
  <2>1. UNCHANGED <<blocked, calls, timer, sub, life, up>>  BY <1>5 DEF vars
  <2>2. Created  BY <2>1 DEF Created
  <2>3. QED  BY <1>1, <2>1, <2>2, WayStays DEF Seen
<1>6. QED  BY <1>1, <1>2, <1>3, <1>4, <1>5 DEF Next

(* Whatever the human retries, submits, rejects or resumes, in whatever     *)
(* order, and wherever the process dies, even between two writes of one     *)
(* answer: a SUBMITTING challenge is driven, or the panel shows it.         *)
THEOREM SubmittingIsSeen == Spec => []NothingHangsUnseen
<1>1. Init => Seen  BY DEF Init, Seen
<1>2. TypeOK /\ Seen /\ [Next]_vars => Seen'  BY SeenStep
<1>3. Seen => NothingHangsUnseen  BY DEF Seen, Way, NothingHangsUnseen, PanelShown
<1>4. QED  BY <1>1, <1>2, <1>3, TypeCorrect, PTL DEF Spec
-----------------------------------------------------------------------------
(* Without an official judge every attempt that is pending was granted by   *)
(* the human, so that the one a flag starts with stays.                     *)

NoLoop == "reconsider" \notin Operator

Granted(f) == Pending(f) + 1 <= credit[f]

Reserved == /\ todo = {}
            /\ blocked # "SUBMISSION_OUTCOME_UNKNOWN"
            /\ \A f \in Flags : Granted(f)

(* Nothing becomes pending of g. *)
Still(g) ==
  /\ credit'[g] = credit[g]
  /\ g \in timer' => g \in timer
  /\ g \in todo' => g \in todo
  /\ \A c \in Call : c.flag = g => calls'[c] = calls[c]

LEMMA StillGranted ==
  ASSUME TypeOK, NEW g \in Flags, Granted(g), Still(g)
  PROVE  Granted(g)'
<1>1. Limiter(g, "loop")' = Limiter(g, "loop") /\ Limiter(g, "handler")' = Limiter(g, "handler")
  BY CallShape DEF Still, Limiter, Waiting
<1>2. Pending(g)' <= Pending(g) /\ Pending(g)' \in Int
  BY <1>1, PendingNat DEF Pending, Still
<1>3. QED  BY <1>2, PendingNat DEF Granted, Still

LEMMA AllStill ==
  ASSUME TypeOK, Reserved, UNCHANGED <<calls, timer, todo, credit>>,
         blocked' # "SUBMISSION_OUTCOME_UNKNOWN"
  PROVE  Reserved'
<1>1. \A g \in Flags : Still(g)  BY DEF Still
<1>2. QED  BY <1>1, StillGranted DEF Reserved

LEMMA OneGranted ==
  ASSUME TypeOK, Reserved, NEW f \in Flags, Granted(f)', \A g \in Flags \ {f} : Still(g),
         todo' = {}, blocked' # "SUBMISSION_OUTCOME_UNKNOWN"
  PROVE  Reserved'
BY StillGranted DEF Reserved

(* The human grants the attempt he asks for. *)
LEMMA AskedIsGranted ==
  ASSUME TypeOK, NEW f \in Flags, Granted(f), UNCHANGED todo,
         credit' = [credit EXCEPT ![f] = @ + 1],
         Limiter(f, "loop")' \in Nat, Limiter(f, "handler")' \in Nat,
         Limiter(f, "loop")' + Limiter(f, "handler")' + (IF f \in timer' THEN 1 ELSE 0)
           <= Limiter(f, "loop") + Limiter(f, "handler") + (IF f \in timer THEN 1 ELSE 0) + 1
  PROVE  Granted(f)'
<1>1. credit'[f] = credit[f] + 1 /\ credit[f] \in Int  BY PendingNat DEF TypeOK
<1>2. Pending(f)' <= Pending(f) + 1 /\ Pending(f)' \in Int /\ Pending(f) \in Int
  BY PendingNat DEF Pending
<1>3. QED  BY <1>1, <1>2 DEF Granted

LEMMA ReservedAsk ==
  ASSUME TypeOK, Reserved, NEW f \in Flags, ManualSubmit(f) \/ RetrySubmission(f)
  PROVE  Reserved'
<1>1. /\ Granted(f) /\ UNCHANGED todo /\ credit' = [credit EXCEPT ![f] = @ + 1]
      /\ todo' = {} /\ blocked' # "SUBMISSION_OUTCOME_UNKNOWN"
  BY DEF Reserved, ManualSubmit, RetrySubmission
<1>2. timer \subseteq Flags /\ credit \in [Flags -> Int]  BY DEF TypeOK
<1>3. /\ Limiter(f, "loop")' \in Nat /\ Limiter(f, "handler")' \in Nat
      /\ Limiter(f, "loop")' + Limiter(f, "handler")' + (IF f \in timer' THEN 1 ELSE 0)
           <= Limiter(f, "loop") + Limiter(f, "handler") + (IF f \in timer THEN 1 ELSE 0) + 1
      /\ \A c \in Call : c.flag # f => calls'[c] = calls[c]
      /\ \A g \in Flags \ {f} : g \in timer' => g \in timer
  <2>1. CASE ManualSubmit(f)
    <3>1. SubmitCandidate(f, Target(life, "CANDIDATE_FOUND"), "handler")  BY <2>1 DEF ManualSubmit
    <3>2. Target(life, "CANDIDATE_FOUND") \in Lifecycles  BY TargetInLifecycles DEF TypeOK, Events
    <3>3. QED  BY <3>1, <3>2, SubmitCandidatePending
  <2>2. CASE RetrySubmission(f)
    <3>1. SubmitNow(f, newest, "handler", timer)  BY <2>2 DEF RetrySubmission
    <3>2. timer' = timer \/ timer' = timer \cup {f}  BY <3>1 DEF SubmitNow
    <3>3. QED  BY <1>2, <3>1, <3>2, SubmitNowPending, SubmitNowEffect
  <2>3. QED  BY <2>1, <2>2
<1>4. Granted(f)'  BY <1>1, <1>3, AskedIsGranted
<1>5. \A g \in Flags \ {f} : Still(g)  BY <1>1, <1>2, <1>3 DEF Still
<1>6. QED  BY <1>1, <1>4, <1>5, OneGranted

LEMMA ReservedSend ==
  ASSUME TypeOK, Reserved, NEW c \in Call, Send(c)
  PROVE  Reserved'
<1> DEFINE f == c.flag
           d == [c EXCEPT !.stage = "judge"]
<1>1. /\ f \in Flags /\ c.caller \in {"loop", "handler"} /\ d \in Call
      /\ c = Waiting(f, c.caller) /\ d.flag = f /\ d.stage = "judge"
  BY DEF Call, Send, Waiting
<1>2. /\ calls' = [calls EXCEPT ![c] = @ - 1, ![d] = @ + 1]
      /\ credit' = [credit EXCEPT ![f] = @ - 1]
      /\ UNCHANGED <<blocked, timer, todo>> /\ calls[c] > 0
  BY DEF Send
<1>3. calls'[c] = calls[c] - 1 /\ \A e \in Call \ {c, d} : calls'[e] = calls[e]
  BY <1>1, <1>2, CallShape DEF TypeOK
<1>4. \A g \in Flags \ {f} : Still(g)
  BY <1>1, <1>2, <1>3 DEF Still, TypeOK
<1>5. Limiter(f, "loop")' + Limiter(f, "handler")' = Limiter(f, "loop") + Limiter(f, "handler") - 1
  <2>1. CASE c.caller = "loop"
    BY <1>1, <1>3, <2>1, CallShape DEF Limiter, Waiting, TypeOK
  <2>2. CASE c.caller = "handler"
    BY <1>1, <1>3, <2>2, CallShape DEF Limiter, Waiting, TypeOK
  <2>3. QED BY <1>1, <2>1, <2>2
<1>6. Pending(f)' = Pending(f) - 1
  BY <1>1, <1>2, <1>5, PendingNat DEF Pending
<1>7. credit'[f] = credit[f] - 1
  BY <1>1, <1>2 DEF TypeOK
<1>8. Granted(f)
  BY <1>1 DEF Reserved
<1>9. Granted(f)'
  BY <1>1, <1>6, <1>7, <1>8, PendingNat DEF Granted
<1>10. QED  BY <1>1, <1>2, <1>4, <1>9, OneGranted DEF Reserved

LEMMA ReservedAnswer ==
  ASSUME ~Judged, TypeOK, Reserved, NEW c \in Call, NEW r \in Possible(c.flag), Answer(c, r)
  PROVE  Reserved'
<1> DEFINE f == c.flag
           v == Verdict(r)
<1>1. f \in Flags /\ c.stage = "judge" /\ calls[c] > 0
  BY DEF Call, Answer
<1>2. calls' = [calls EXCEPT ![c] = @ - 1] /\ UNCHANGED todo /\ blocked' = BlockedAfter(v, sub')
  BY DEF Answer
<1>3. \/ /\ timer' = timer \cup {f}
         /\ credit' = [credit EXCEPT ![f] = @ + 1]
      \/ UNCHANGED <<timer, credit>>
  BY DEF Answer
<1>4. \A g \in Flags \ {f} : Still(g)
  BY <1>1, <1>2, <1>3 DEF Still, TypeOK
<1>5. Limiter(f, "loop")' = Limiter(f, "loop") /\ Limiter(f, "handler")' = Limiter(f, "handler")
  BY <1>1, <1>2, CallShape DEF Limiter, Waiting, TypeOK
<1>6. /\ Limiter(f, "loop") \in Nat /\ Limiter(f, "handler") \in Nat
      /\ credit[f] \in Int /\ Pending(f) + 1 <= credit[f]
  BY <1>1, PendingNat DEF Reserved, Granted
<1>7. Granted(f)'
  <2>1. CASE timer' = timer \cup {f} /\ credit' = [credit EXCEPT ![f] = @ + 1]
    <3>1. credit'[f] = credit[f] + 1
      BY <1>1, <2>1 DEF TypeOK
    <3>2. QED BY <1>2, <1>5, <1>6, <2>1, <3>1 DEF Granted, Pending
  <2>2. CASE UNCHANGED <<timer, credit>>
    BY <1>2, <1>5, <1>6, <2>2 DEF Granted, Pending
  <2>3. QED BY <1>3, <2>1, <2>2
<1>8. v # "UNKNOWN"
  BY DEF Verdict
<1>9. blocked' # "SUBMISSION_OUTCOME_UNKNOWN"
  BY <1>2, <1>8 DEF BlockedAfter, Reserved
<1>10. QED  BY <1>1, <1>2, <1>4, <1>7, <1>9, OneGranted DEF Reserved

LEMMA ReservedTimer ==
  ASSUME TypeOK, Reserved, NEW f \in Flags, TimerFires(f)
  PROVE  Reserved'
<1>1. /\ f \in timer
      /\ UNCHANGED <<blocked, todo, credit>>
      /\ \/ SubmitNow(f, newest, "handler", timer \ {f})
         \/ timer' = timer \ {f} /\ calls' = calls
  BY DEF TimerFires, rows
<1>2. timer \ {f} \subseteq Flags
  BY DEF TypeOK
<1>3. CASE timer' = timer \ {f} /\ calls' = calls
  <2>1. \A g \in Flags : Still(g)
    BY <1>1, <1>3 DEF Still
  <2>2. QED BY <1>1, <2>1, StillGranted DEF Reserved
<1>4. CASE SubmitNow(f, newest, "handler", timer \ {f})
  <2>1. /\ Limiter(f, "loop")' \in Nat
        /\ Limiter(f, "handler")' \in Nat
        /\ Limiter(f, "loop")' + Limiter(f, "handler")' + (IF f \in timer' THEN 1 ELSE 0)
             <= Limiter(f, "loop") + Limiter(f, "handler") + (IF f \in timer \ {f} THEN 1 ELSE 0) + 1
    BY <1>2, <1>4, SubmitNowPending
  <2>2. \A e \in Call : e.flag # f => calls'[e] = calls[e]
    BY <1>2, <1>4, SubmitNowEffect
  <2>3. timer' \subseteq timer
    BY <1>1, <1>4 DEF SubmitNow
  <2>4. \A g \in Flags \ {f} : Still(g)
    BY <1>1, <2>2, <2>3 DEF Still
  <2>5. Pending(f)' <= Pending(f) /\ Pending(f)' \in Int
    BY <1>1, <2>1, PendingNat DEF Pending
  <2>6. Granted(f)'
    BY <1>1, <2>5, PendingNat DEF Granted, Reserved
  <2>7. QED BY <1>1, <2>4, <2>6, OneGranted DEF Reserved
<1>5. QED BY <1>1, <1>3, <1>4

LEMMA ReservedDie ==
  ASSUME TypeOK, Reserved, Die, UNCHANGED blocked
  PROVE  Reserved'
<1>1. Empty' /\ credit' = credit
  BY DieEmpties
<1>2. ASSUME NEW g \in Flags PROVE Granted(g)'
  <2>1. Limiter(g, "loop")' = 0 /\ Limiter(g, "handler")' = 0
    BY <1>1, CallShape DEF Empty, Limiter, Waiting
  <2>2. Pending(g)' = 0
    BY <1>1, <2>1 DEF Empty, Pending
  <2>3. QED  BY <1>1, <2>2, PendingNat DEF Granted, Reserved
<1>3. QED  BY <1>1, <1>2 DEF Empty, Reserved

LEMMA ReservedStep == ~Judged /\ NoLoop /\ TypeOK /\ Reserved /\ [Next]_vars => Reserved'
<1>1. SUFFICES ASSUME ~Judged, NoLoop, TypeOK, Reserved, [Next]_vars PROVE Reserved'  OBVIOUS
<1>2. blocked # "SUBMISSION_OUTCOME_UNKNOWN" /\ todo = {}  BY <1>1 DEF Reserved
<1>3. CASE Handlers
  <2>1. CASE \/ Queue \/ Schedule \/ RuntimeUnavailable \/ WorkerGone
             \/ \E f \in Flags : CooldownEnds(f) \/ OnCandidate(f)
    <3>1. UNCHANGED <<calls, timer, todo, credit>> /\ blocked' \in {blocked, "MODEL_RUNTIME_UNAVAILABLE"}
      BY <1>1, <2>1 DEF Queue, Schedule, RuntimeUnavailable, WorkerGone, CooldownEnds, OnCandidate,
         RejectLocally, HoldForHuman, AutoSubmitCandidate, memory
    <3>2. QED  BY <1>1, <1>2, <3>1, AllStill
  <2>2. CASE Human
    <3>1. CASE Pause \/ Resume \/ Park \/ Unpark \/ ResumeSolving \/ \E f \in Flags : Reject(f) \/ Accept(f)
      <4>1. UNCHANGED <<calls, timer, todo, credit>> /\ blocked' \in {blocked, "none"}
        BY <3>1 DEF Pause, Resume, Park, Unpark, ResumeSolving, Reject, Accept, memory
      <4>2. QED  BY <1>1, <1>2, <4>1, AllStill
    <3>2. ~Reconsider  BY <1>1 DEF NoLoop, Reconsider
    <3>3. QED  BY <1>1, <2>2, <3>1, <3>2, ReservedAsk DEF Human
  <2>3. ASSUME NEW f \in Flags, TimerFires(f)  PROVE Reserved'
    BY <1>1, <2>3, ReservedTimer
  <2>4. CASE \E c \in Call : Send(c) \/ \E r \in Possible(c.flag) : Answer(c, r)
    BY <1>1, <2>4, ReservedSend, ReservedAnswer
  <2>5. CASE \/ Crash \/ \E f \in Flags : CrashInCandidate(f)
             \/ \E c \in Call : \E r \in Possible(c.flag) : CrashInAnswer(c, r)
    <3>1. Die /\ UNCHANGED blocked  BY <2>5 DEF Crash, CrashInCandidate, CrashInAnswer, rows
    <3>2. QED  BY <1>1, <3>1, ReservedDie
  <2>6. QED  BY <1>3, <2>1, <2>2, <2>3, <2>4, <2>5 DEF Handlers
<1>4. CASE Recover
  <2>1. RecoverSubmitting => HoldForReview
    BY <1>1 DEF RecoverSubmitting, LeaveUnknown, NothingPending, MarkInterrupted, DriveQueued, SubmitPreserved
  <2>2. UNCHANGED <<calls, timer, blocked>>
    BY <1>4, <2>1 DEF Recover, RecoverLife, HoldForReview, rows
  <2>3. UNCHANGED <<todo, credit>>  BY <1>4 DEF Recover
  <2>4. QED  BY <1>1, <1>2, <2>2, <2>3, AllStill
<1>5. CASE UNCHANGED vars
  BY <1>1, <1>2, <1>5, AllStill DEF vars
<1>6. QED  BY <1>1, <1>2, <1>3, <1>4, <1>5 DEF Next

LEMMA ReservedInit == Init => Reserved
<1>1. SUFFICES ASSUME Init PROVE Reserved  OBVIOUS
<1>2. Empty  BY <1>1 DEF Init, Empty
<1>3. \A f \in Flags : Pending(f) = 0 /\ credit[f] = 1  BY <1>1, <1>2, EmptyPending DEF Init
<1>4. QED  BY <1>1, <1>2, <1>3 DEF Init, Empty, Reserved, Granted

(* Without an official judge nothing leaves the process by itself and no    *)
(* outcome blocks the challenge, for any number of flags, whatever else the *)
(* human does and wherever the process dies. Reconsideration is excluded:   *)
(* the code's loop submits without asking for a judge.                      *)
THEOREM NothingLeavesByItself == ASSUME NoLoop PROVE Spec => []OnlyTheHumanActs
<1>1. TypeOK /\ Reserved => OnlyTheHumanActs
  <2>1. SUFFICES ASSUME TypeOK, Reserved PROVE OnlyTheHumanActs  OBVIOUS
  <2>2. \A f \in Flags : credit[f] >= 1  BY <2>1, PendingNat DEF Reserved, Granted
  <2>3. QED  BY <2>1, <2>2 DEF OnlyTheHumanActs, NoJudgeNoAutoSend, NoJudgeNoBlock, Reserved
<1>2. CASE Judged
  <2>1. OnlyTheHumanActs  BY <1>2 DEF OnlyTheHumanActs, NoJudgeNoAutoSend, NoJudgeNoBlock
  <2>2. QED  BY <2>1, PTL
<1>3. CASE ~Judged
  <2>1. TypeOK /\ Reserved /\ [Next]_vars => Reserved'  BY <1>3, ReservedStep
  <2>2. QED  BY <1>1, <2>1, ReservedInit, TypeCorrect, PTL DEF Spec
<1>4. QED  BY <1>2, <1>3
-----------------------------------------------------------------------------
(* While no human intervenes. One call or one timer is behind a SUBMITTING  *)
(* challenge, for a row that fits, and there is none otherwise; candidates  *)
(* that recovery would submit have no outcome; and the last wrong flag that *)
(* is allowed leaves the challenge held for review.                         *)

Waits == {"QUEUED", "RATE_LIMITED"}

CallsFit ==
  \A c \in Call : calls[c] > 0 =>
    /\ calls[c] = 1 /\ life = "SUBMITTING" /\ timer = {}
    /\ c.stage = "limiter" => sub[c.flag] \in Waits
    /\ c.stage = "judge" => sub[c.flag] = "SENDING"
    /\ \A d \in Call : calls[d] > 0 => d = c

TimersFit == \A f \in timer : life = "SUBMITTING" /\ sub[f] \in Waits /\ timer = {f}

CandidatesFit ==
  \A f \in Flags : cand[f] \in {"PENDING", "VERIFIED"} => sub[f] \notin {"CORRECT", "WRONG", "RATE_LIMITED"}

Held == blocked = "MANUAL_REVIEW_REQUIRED" /\ life \notin {"SUBMITTING", "VERIFYING"}

CapFits == CountWrong(sub) <= MaxWrong /\ (CountWrong(sub) = MaxWrong => Held)

Alone ==
  /\ todo = {}
  /\ CallsFit /\ TimersFit /\ CandidatesFit /\ CapFits
  /\ CorrectIsSolved /\ SubmittingIsDriven

NoCalls == \A c \in Call : calls[c] = 0

LEMMA WrongNat ==
  ASSUME NEW s
  PROVE  IsFiniteSet({f \in Flags : s[f] = "WRONG"}) /\ CountWrong(s) \in Nat
<1>1. IsFiniteSet({f \in Flags : s[f] = "WRONG"})  BY FlagsAssumption, FS_Subset
<1>2. QED  BY <1>1, FS_CardinalityType DEF CountWrong

LEMMA WrongSame ==
  ASSUME NEW s, NEW t, \A f \in Flags : s[f] = "WRONG" <=> t[f] = "WRONG"
  PROVE  CountWrong(s) = CountWrong(t)
<1>1. {f \in Flags : s[f] = "WRONG"} = {f \in Flags : t[f] = "WRONG"}  OBVIOUS
<1>2. QED  BY <1>1 DEF CountWrong

LEMMA WrongMore ==
  ASSUME NEW s, NEW t, NEW f \in Flags, s[f] # "WRONG", t[f] = "WRONG",
         \A g \in Flags \ {f} : s[g] = t[g]
  PROVE  CountWrong(t) = CountWrong(s) + 1
<1>1. {g \in Flags : t[g] = "WRONG"} = {g \in Flags : s[g] = "WRONG"} \cup {f}  OBVIOUS
<1>2. f \notin {g \in Flags : s[g] = "WRONG"}  OBVIOUS
<1>3. QED  BY <1>1, <1>2, WrongNat, FS_AddElement DEF CountWrong

(* The cap holds on as long as the wrong rows are the same.                 *)
LEMMA CapStays ==
  ASSUME CapFits, \A f \in Flags : sub'[f] = "WRONG" <=> sub[f] = "WRONG",
         Held => Held'
  PROVE  CapFits'
<1>1. CountWrong(sub') = CountWrong(sub)  BY WrongSame
<1>2. QED  BY <1>1 DEF CapFits

(* Nothing is under way of a challenge that is not SUBMITTING.              *)
LEMMA NothingElsewhere ==
  ASSUME TypeOK, Alone, life # "SUBMITTING"
  PROVE  Empty /\ NoCalls
<1>1. \A c \in Call : calls[c] \in Nat /\ ~(calls[c] > 0)  BY DEF TypeOK, Alone, CallsFit
<1>2. NoCalls  BY <1>1 DEF NoCalls
<1>3. QED  BY <1>2 DEF Alone, TimersFit, Empty, NoCalls

(* #submitNow of the only flag: one call, or its timer.                     *)
LEMMA Starts ==
  ASSUME TypeOK, NoCalls, NEW f \in Flags, NEW last, NEW timers, timers = {}, timers \subseteq Flags,
         SubmitNow(f, last, "handler", timers), life' = "SUBMITTING", sub'[f] \in Waits
  PROVE  CallsFit' /\ TimersFit' /\ SubmittingIsDriven'
<1>1. Waiting(f, "handler") \in Call /\ Waiting(f, "handler").flag = f
      /\ Waiting(f, "handler").stage = "limiter"
  BY CallShape
<1>2. CASE timer' = {} \cup {f} /\ calls' = calls
  <2>1. \A c \in Call : ~(calls'[c] > 0)  BY <1>2 DEF NoCalls
  <2>2. Driven(f)'  BY <1>2 DEF Driven, Waits
  <2>3. QED  BY <1>2, <2>1, <2>2 DEF CallsFit, TimersFit, SubmittingIsDriven
<1>3. CASE /\ timer' = {}
           /\ calls'[Waiting(f, "handler")] = calls[Waiting(f, "handler")] + 1
           /\ \A c \in Call : c # Waiting(f, "handler") => calls'[c] = calls[c]
  <2>1. /\ calls'[Waiting(f, "handler")] = 1
        /\ \A c \in Call : calls'[c] > 0 => c = Waiting(f, "handler")
    BY <1>1, <1>3 DEF NoCalls
  <2>2. CallsOf(f)' # {}  BY <1>1, <2>1 DEF CallsOf
  <2>3. Driven(f)'  BY <2>2 DEF Driven
  <2>4. CallsFit'  BY <1>1, <1>3, <2>1 DEF CallsFit
  <2>5. QED  BY <1>3, <2>3, <2>4 DEF TimersFit, SubmittingIsDriven
<1>4. \/ timer' = timers \cup {f} /\ calls' = calls
      \/ /\ timer' = timers
         /\ calls'[Waiting(f, "handler")] = calls[Waiting(f, "handler")] + 1
         /\ \A c \in Call : c # Waiting(f, "handler") => calls'[c] = calls[c]
  BY SubmitNowEffect
<1>5. QED  BY <1>2, <1>3, <1>4

(* Nothing under way in the next state either. *)
LEMMA StaysEmpty ==
  ASSUME Empty', up' => life' # "SUBMITTING" \/ blocked' = "SUBMISSION_OUTCOME_UNKNOWN"
  PROVE  todo' = {} /\ CallsFit' /\ TimersFit' /\ SubmittingIsDriven'
<1>1. \A c \in Call : ~(calls'[c] > 0)  BY DEF Empty
<1>2. QED  BY <1>1 DEF Empty, CallsFit, TimersFit, SubmittingIsDriven

(* Rows are at most created, and candidates without a row may be written.   *)
LEMMA AloneStays ==
  ASSUME TypeOK, Alone, UNCHANGED <<life, blocked, up, todo, calls, timer>>, Created,
         \A g \in Flags : cand'[g] = cand[g] \/ sub[g] = "NONE"
  PROVE  Alone'
<1>1. CallsFit'
  <2>1. \A c \in Call : c.flag \in Flags  BY DEF Call
  <2>2. \A g \in Flags : sub[g] # "NONE" => sub'[g] = sub[g]  BY DEF Created
  <2>3. QED  BY <2>1, <2>2 DEF Alone, CallsFit, Waits
<1>2. TimersFit'  BY DEF Alone, TimersFit, Created, Waits, TypeOK
<1>3. CandidatesFit'  BY DEF Alone, CandidatesFit, Created
<1>4. CapFits'
  <2>1. \A f \in Flags : sub'[f] = "WRONG" <=> sub[f] = "WRONG"  BY DEF Created
  <2>2. QED  BY <2>1, CapStays DEF Alone, Held
<1>5. CorrectIsSolved'  BY DEF Alone, CorrectIsSolved, Created
<1>6. SubmittingIsDriven'
  <2>1. ASSUME NEW f \in Flags, Driven(f)  PROVE Driven(f)'
    <3>1. CallsOf(f)' = CallsOf(f)  BY DEF CallsOf
    <3>2. QED  BY <2>1, <3>1 DEF Driven, Created
  <2>2. QED  BY <2>1 DEF Alone, SubmittingIsDriven
<1>7. QED  BY <1>1, <1>2, <1>3, <1>4, <1>5, <1>6 DEF Alone, Created

LEMMA AloneScheduling ==
  ASSUME TypeOK, Alone,
         \/ Queue \/ Schedule \/ RuntimeUnavailable \/ WorkerGone \/ \E f \in Flags : CooldownEnds(f)
  PROVE  Alone'
<1>1. CASE \E f \in Flags : CooldownEnds(f)
  <2>1. UNCHANGED <<life, blocked, up, todo, calls, timer, sub, cand>>  BY <1>1 DEF CooldownEnds, memory
  <2>2. Created  BY <2>1 DEF Created
  <2>3. QED  BY <2>1, <2>2, AloneStays
<1>2. CASE Queue \/ Schedule \/ RuntimeUnavailable \/ WorkerGone
  <2>1. /\ life \in {"READY", "QUEUED", "ACTIVE"} /\ life' \in {"QUEUED", "ACTIVE"}
        /\ UNCHANGED <<up, todo, calls, timer, sub, cand>>
        /\ blocked' = blocked \/ blocked # "MANUAL_REVIEW_REQUIRED"
    <3>1. Target("READY", "QUEUE") = "QUEUED" /\ Target("QUEUED", "SCHEDULE") = "ACTIVE"
          /\ Target("ACTIVE", "RECOVER_ACTIVE") = "QUEUED"
      BY DEF Target, Allowed, T
    <3>2. QED  BY <1>2, <3>1 DEF Queue, Schedule, RuntimeUnavailable, WorkerGone, memory
  <2>2. Empty  BY <2>1, NothingElsewhere
  <2>3. Empty'  BY <2>1, <2>2 DEF Empty
  <2>4. todo' = {} /\ CallsFit' /\ TimersFit' /\ SubmittingIsDriven'  BY <2>1, <2>3, StaysEmpty
  <2>5. CapFits'  BY <2>1, CapStays DEF Alone, Held
  <2>6. CandidatesFit' /\ CorrectIsSolved'  BY <2>1 DEF Alone, CandidatesFit, CorrectIsSolved
  <2>7. QED  BY <2>1, <2>4, <2>5, <2>6 DEF Alone
<1>3. QED  BY <1>1, <1>2

LEMMA AloneCandidate ==
  ASSUME TypeOK, AllFlags, Alone, NEW f \in Flags, OnCandidate(f)
  PROVE  Alone'
<1>1. cand[f] = "NONE" /\ life # "SOLVED"
  BY DEF OnCandidate, RejectLocally, HoldForHuman, AutoSubmitCandidate
<1>2. sub[f] = "NONE"  BY <1>1 DEF AllFlags, FlagInv, Fresh
<1>3. CASE RejectLocally(f) \/ HoldForHuman(f)
  <2>1. /\ UNCHANGED <<life, blocked, up, todo, calls, timer, sub>>
        /\ \A g \in Flags : cand'[g] = cand[g] \/ sub[g] = "NONE"
    BY <1>2, <1>3 DEF RejectLocally, HoldForHuman, memory, TypeOK
  <2>2. Created  BY <2>1 DEF Created
  <2>3. QED  BY <2>1, <2>2, AloneStays
<1>4. CASE AutoSubmitCandidate(f)
  <2>1. PICK s \in Lifecycles : s = Target(life, "CANDIDATE_FOUND")
    BY TargetInLifecycles DEF TypeOK, Events
  <2>2. /\ SubmitCandidate(f, s, "handler") /\ cand' = [cand EXCEPT ![f] = "VERIFIED"]
        /\ blocked # "MANUAL_REVIEW_REQUIRED" /\ UNCHANGED <<blocked, up, todo>>
    BY <1>4, <2>1 DEF AutoSubmitCandidate, WillAutoSubmit
  <2>3. CreateOrGet(f, "QUEUED") /\ Created /\ life' = Target(s, "VERIFY_OK")
    BY <2>2, CreateOrGetCreates DEF SubmitCandidate
  <2>4. sub'[f] = "QUEUED" /\ \A g \in Flags \ {f} : sub'[g] = sub[g]
    BY <1>2, <2>3, CreateOrGetType
  <2>5. \A g \in Flags : cand'[g] = cand[g] \/ sub[g] = "NONE"  BY <1>2, <2>2 DEF TypeOK
  <2>6. life \in Lifecycles  BY DEF TypeOK
  <2>7. CASE s = "VERIFYING"
    <3>1. life # "SUBMITTING"  BY <2>1, <2>6, <2>7, Targets
    <3>2. Empty /\ NoCalls  BY <3>1, NothingElsewhere
    <3>3. Allowed(s, "VERIFY_OK") /\ life' = "SUBMITTING"  BY <2>3, <2>7, Targets
    <3>4. SubmitNow(f, newest', "handler", {})  BY <2>2, <3>2, <3>3 DEF SubmitCandidate, Empty
    <3>5. CallsFit' /\ TimersFit' /\ SubmittingIsDriven'  BY <2>4, <3>2, <3>3, <3>4, Starts DEF Waits
    <3>6. CandidatesFit'  BY <2>4, <2>5, <1>2 DEF Alone, CandidatesFit
    <3>7. CapFits'
      <4>1. \A g \in Flags : sub'[g] = "WRONG" <=> sub[g] = "WRONG"  BY <2>3 DEF Created
      <4>2. QED  BY <2>2, <4>1, CapStays DEF Alone, Held
    <3>8. CorrectIsSolved'  BY <1>1, <2>3 DEF Alone, CorrectIsSolved, Created
    <3>9. QED  BY <2>2, <2>3, <3>2, <3>5, <3>6, <3>7, <3>8 DEF Alone, Created, Empty
  <2>8. CASE s # "VERIFYING"
    <3>1. ~Allowed(s, "VERIFY_OK") /\ life' = s  BY <2>3, <2>8, Targets
    <3>2. UNCHANGED <<calls, timer>>  BY <2>2, <3>1 DEF SubmitCandidate
    <3>3. life' = life  BY <2>1, <2>6, <2>8, <3>1, Targets
    <3>4. QED  BY <2>2, <2>3, <2>5, <3>2, <3>3, AloneStays
  <2>9. QED  BY <2>7, <2>8
<1>5. QED  BY <1>3, <1>4 DEF OnCandidate

LEMMA AloneSend ==
  ASSUME TypeOK, Alone, NEW c \in Call, Send(c)
  PROVE  Alone'
<1>1. PICK d \in Call : d = [c EXCEPT !.stage = "judge"]  BY DEF Call
<1>2. PICK f \in Flags : f = c.flag  BY DEF Call
<1>3. d.flag = f /\ d.stage = "judge" /\ d # c /\ c.stage = "limiter" /\ calls[c] > 0
  BY <1>1, <1>2 DEF Call, Send
<1>4. /\ calls' = [calls EXCEPT ![c] = @ - 1, ![d] = @ + 1]
      /\ sub' = [sub EXCEPT ![f] = "SENDING"]
      /\ UNCHANGED <<life, blocked, cand, up, timer, todo>>
  BY <1>1, <1>2 DEF Send
<1>5. /\ calls[c] = 1 /\ life = "SUBMITTING" /\ timer = {} /\ sub[f] \in Waits
      /\ \A e \in Call : e # c => calls[e] = 0
  <2>1. /\ calls[c] = 1 /\ life = "SUBMITTING" /\ timer = {} /\ sub[f] \in Waits
        /\ \A e \in Call : calls[e] > 0 => e = c
    BY <1>2, <1>3 DEF Alone, CallsFit
  <2>2. \A e \in Call : calls[e] \in Nat  BY DEF TypeOK
  <2>3. QED  BY <2>1, <2>2
<1>6. calls'[d] = 1 /\ \A e \in Call : e # d => calls'[e] = 0
  BY <1>3, <1>4, <1>5 DEF TypeOK
<1>7. sub'[f] = "SENDING" /\ \A g \in Flags \ {f} : sub'[g] = sub[g]  BY <1>4 DEF TypeOK
<1>8. CallsFit'
  <2>1. SUFFICES ASSUME NEW e \in Call, calls'[e] > 0
                 PROVE  /\ calls'[e] = 1 /\ life' = "SUBMITTING" /\ timer' = {}
                        /\ e.stage = "limiter" => sub'[e.flag] \in Waits
                        /\ e.stage = "judge" => sub'[e.flag] = "SENDING"
                        /\ \A k \in Call : calls'[k] > 0 => k = e
    BY DEF CallsFit
  <2>2. \A k \in Call : calls'[k] > 0 => k = d  BY <1>6
  <2>3. e = d  BY <2>1, <2>2
  <2>4. QED  BY <1>3, <1>4, <1>5, <1>6, <1>7, <2>2, <2>3
<1>9. SubmittingIsDriven'
  <2>1. CallsOf(f)' # {}  BY <1>3, <1>6 DEF CallsOf
  <2>2. QED  BY <2>1 DEF SubmittingIsDriven, Driven
<1>10. CapFits'
  <2>1. \A g \in Flags : sub'[g] = "WRONG" <=> sub[g] = "WRONG"  BY <1>5, <1>7 DEF Waits
  <2>2. QED  BY <1>4, <2>1, CapStays DEF Alone, Held
<1>11. CandidatesFit' /\ CorrectIsSolved' /\ TimersFit'
  BY <1>4, <1>5, <1>7 DEF Alone, CandidatesFit, CorrectIsSolved, TimersFit
<1>12. QED  BY <1>4, <1>8, <1>9, <1>10, <1>11 DEF Alone

LEMMA AloneAnswer ==
  ASSUME TypeOK, Alone, NEW c \in Call, NEW r \in Possible(c.flag), Answer(c, r)
  PROVE  Alone'
<1>1. PICK f \in Flags : f = c.flag  BY DEF Call
<1>2. PICK v : v = Verdict(r)  OBVIOUS
<1>3. v \in {"CORRECT", "WRONG", "RATE_LIMITED", "UNKNOWN", "REVIEW"}  BY <1>1, <1>2, AnswerType
<1>4. /\ calls' = [calls EXCEPT ![c] = @ - 1] /\ calls[c] > 0 /\ c.stage = "judge"
      /\ sub' = [sub EXCEPT ![f] = SubmissionAfter(v)] /\ cand' = [cand EXCEPT ![f] = CandidateAfter(v)]
      /\ life' = LifeAfter(v) /\ blocked' = BlockedAfter(v, sub')
      /\ v = "RATE_LIMITED" => timer' = timer \cup {f}
      /\ v # "RATE_LIMITED" => timer' = timer
      /\ UNCHANGED <<up, todo>>
  BY <1>1, <1>2 DEF Answer
<1>5. /\ calls[c] = 1 /\ life = "SUBMITTING" /\ timer = {} /\ sub[f] = "SENDING"
      /\ \A e \in Call : e # c => calls[e] = 0
  <2>1. /\ calls[c] = 1 /\ life = "SUBMITTING" /\ timer = {} /\ sub[f] = "SENDING"
        /\ \A e \in Call : calls[e] > 0 => e = c
    BY <1>1, <1>4 DEF Alone, CallsFit
  <2>2. \A e \in Call : calls[e] \in Nat  BY DEF TypeOK
  <2>3. QED  BY <2>1, <2>2
<1>6. \A e \in Call : calls'[e] = 0  BY <1>4, <1>5 DEF TypeOK
<1>7. /\ sub'[f] = SubmissionAfter(v) /\ \A g \in Flags \ {f} : sub'[g] = sub[g]
      /\ cand'[f] = CandidateAfter(v) /\ \A g \in Flags \ {f} : cand'[g] = cand[g]
  BY <1>4 DEF TypeOK
<1>8. CountWrong(sub) < MaxWrong /\ CountWrong(sub) \in Nat /\ MaxWrong \in Nat
  <2>1. ~Held  BY <1>5 DEF Held
  <2>2. CountWrong(sub) \in Nat  BY WrongNat
  <2>3. MaxWrong \in Nat  BY ConfigAssumption
  <2>4. CountWrong(sub) <= MaxWrong /\ CountWrong(sub) # MaxWrong  BY <2>1 DEF Alone, CapFits
  <2>5. QED  BY <2>2, <2>3, <2>4
<1>9. \A g \in Flags : sub[g] # "CORRECT"  BY <1>5 DEF Alone, CorrectIsSolved
<1>10. todo' = {}  BY <1>4 DEF Alone
<1>12. CASE v = "WRONG"
  <2>1. life' = "ACTIVE"
    <3>1. "SUBMITTING" \in Lifecycles  BY DEF Lifecycles
    <3>2. QED  BY <1>4, <1>5, <1>12, <3>1, Targets DEF LifeAfter
  <2>2. sub'[f] = "WRONG" /\ cand'[f] = "WRONG"  BY <1>7, <1>12 DEF SubmissionAfter, CandidateAfter
  <2>3. CountWrong(sub') = CountWrong(sub) + 1  BY <1>5, <1>7, <2>2, WrongMore
  <2>4. CountWrong(sub') = MaxWrong => blocked' = "MANUAL_REVIEW_REQUIRED"
    BY <1>4, <1>8, <1>12, <2>3 DEF BlockedAfter
  <2>5. CapFits'  BY <1>8, <2>1, <2>3, <2>4 DEF CapFits, Held
  <2>6. timer' = {}  BY <1>4, <1>5, <1>12
  <2>7. CandidatesFit' /\ CorrectIsSolved'  BY <1>7, <1>9, <2>2 DEF Alone, CandidatesFit, CorrectIsSolved
  <2>8. CallsFit' /\ TimersFit' /\ SubmittingIsDriven'
    BY <1>6, <2>1, <2>6 DEF CallsFit, TimersFit, SubmittingIsDriven
  <2>9. QED  BY <1>10, <2>5, <2>7, <2>8 DEF Alone
<1>13. CASE v # "WRONG"
  <2>1. CapFits'
    <3>1. \A g \in Flags : sub'[g] = "WRONG" <=> sub[g] = "WRONG"
      BY <1>3, <1>5, <1>7, <1>13 DEF SubmissionAfter
    <3>2. CountWrong(sub') = CountWrong(sub)  BY <3>1, WrongSame
    <3>3. QED  BY <1>8, <3>2 DEF CapFits
  <2>2. CandidatesFit'
    BY <1>3, <1>7, <1>13 DEF Alone, CandidatesFit, SubmissionAfter, CandidateAfter
  <2>3. CASE v = "CORRECT" \/ v = "REVIEW"
    <3>1. "SUBMITTING" \in Lifecycles  BY DEF Lifecycles
    <3>2. life' = IF v = "CORRECT" THEN "SOLVED" ELSE "ACTIVE"
      BY <1>4, <1>5, <2>3, <3>1, Targets DEF LifeAfter
    <3>3. timer' = {}  BY <1>4, <1>5, <2>3
    <3>4. CallsFit' /\ TimersFit' /\ SubmittingIsDriven'
      BY <1>6, <3>2, <3>3 DEF CallsFit, TimersFit, SubmittingIsDriven
    <3>5. CorrectIsSolved'  BY <1>7, <1>9, <2>3, <3>2 DEF CorrectIsSolved, SubmissionAfter
    <3>6. QED  BY <1>10, <2>1, <2>2, <3>4, <3>5 DEF Alone
  <2>4. CASE v = "RATE_LIMITED"
    <3>1. life' = "SUBMITTING" /\ timer' = {f} /\ sub'[f] = "RATE_LIMITED"
      BY <1>4, <1>5, <1>7, <2>4 DEF LifeAfter, SubmissionAfter
    <3>2. Driven(f)'  BY <3>1 DEF Driven
    <3>3. CallsFit' /\ TimersFit' /\ SubmittingIsDriven'
      BY <1>6, <3>1, <3>2 DEF CallsFit, TimersFit, SubmittingIsDriven, Waits
    <3>4. CorrectIsSolved'  BY <1>7, <1>9, <3>1 DEF CorrectIsSolved
    <3>5. QED  BY <1>10, <2>1, <2>2, <3>3, <3>4 DEF Alone
  <2>5. CASE v = "UNKNOWN"
    <3>1. blocked' = "SUBMISSION_OUTCOME_UNKNOWN" /\ timer' = {} /\ sub'[f] = "UNKNOWN"
      BY <1>4, <1>5, <1>7, <2>5 DEF BlockedAfter, SubmissionAfter
    <3>2. CallsFit' /\ TimersFit' /\ SubmittingIsDriven'
      BY <1>6, <3>1 DEF CallsFit, TimersFit, SubmittingIsDriven
    <3>3. CorrectIsSolved'  BY <1>7, <1>9, <3>1 DEF CorrectIsSolved
    <3>4. QED  BY <1>10, <2>1, <2>2, <3>2, <3>3 DEF Alone
  <2>6. QED  BY <1>3, <1>13, <2>3, <2>4, <2>5
<1>14. QED  BY <1>12, <1>13

LEMMA AloneTimer ==
  ASSUME TypeOK, Alone, NEW f \in Flags, TimerFires(f)
  PROVE  Alone'
<1>1. f \in timer /\ UNCHANGED <<life, blocked, cand, sub, up, todo>>  BY DEF TimerFires, rows
<1>2. life = "SUBMITTING" /\ sub[f] \in Waits /\ timer = {f}  BY <1>1 DEF Alone, TimersFit
<1>3. NoCalls
  <2>1. \A c \in Call : calls[c] \in Nat /\ ~(calls[c] > 0)  BY <1>1 DEF TypeOK, Alone, CallsFit
  <2>2. QED  BY <2>1 DEF NoCalls
<1>4. SubmitNow(f, newest, "handler", timer \ {f})  BY <1>2 DEF TimerFires, Waits
<1>5. timer \ {f} = {}  BY <1>2
<1>6. SubmitNow(f, newest, "handler", {})  BY <1>4, <1>5
<1>7. CallsFit' /\ TimersFit' /\ SubmittingIsDriven'  BY <1>1, <1>2, <1>3, <1>6, Starts
<1>8. CapFits'  BY <1>1, CapStays DEF Alone, Held
<1>9. QED  BY <1>1, <1>7, <1>8 DEF Alone, CandidatesFit, CorrectIsSolved

LEMMA AloneCrash ==
  ASSUME TypeOK, AllFlags, Alone, Crash \/ \E f \in Flags : CrashInCandidate(f)
  PROVE  Alone'
<1>1. Empty' /\ ~up'  BY DieEmpties DEF Crash, CrashInCandidate
<1>2. todo' = {} /\ CallsFit' /\ TimersFit' /\ SubmittingIsDriven'  BY <1>1, StaysEmpty
<1>3. CASE Crash
  <2>1. UNCHANGED <<life, blocked, cand, sub>>  BY <1>3 DEF Crash, rows
  <2>2. CapFits'  BY <2>1, CapStays DEF Alone, Held
  <2>3. QED  BY <1>2, <2>1, <2>2 DEF Alone, CandidatesFit, CorrectIsSolved
<1>4. ASSUME NEW f \in Flags, CrashInCandidate(f)  PROVE Alone'
  <2>1. cand[f] = "NONE" /\ life # "SOLVED" /\ UNCHANGED blocked  BY <1>4 DEF CrashInCandidate
  <2>2. sub[f] = "NONE"  BY <2>1 DEF AllFlags, FlagInv, Fresh
  <2>3. Created
    <3>1. CreateOrGet(f, "QUEUED") \/ UNCHANGED sub  BY <1>4 DEF CrashInCandidate
    <3>2. QED  BY <3>1, CreateOrGetCreates DEF Created
  <2>4. \A g \in Flags : cand'[g] = cand[g] \/ sub[g] = "NONE"
    BY <1>4, <2>2 DEF CrashInCandidate, TypeOK
  <2>5. life' = life \/ blocked # "MANUAL_REVIEW_REQUIRED"
    BY <1>4 DEF CrashInCandidate, WillAutoSubmit
  <2>6. CapFits'
    <3>1. \A g \in Flags : sub'[g] = "WRONG" <=> sub[g] = "WRONG"  BY <2>3 DEF Created
    <3>2. QED  BY <2>1, <2>5, <3>1, CapStays DEF Alone, Held
  <2>7. CandidatesFit'  BY <2>3, <2>4 DEF Alone, CandidatesFit, Created
  <2>8. CorrectIsSolved'  BY <2>1, <2>3 DEF Alone, CorrectIsSolved, Created
  <2>9. QED  BY <1>2, <2>3, <2>6, <2>7, <2>8 DEF Alone, Created
<1>5. QED  BY <1>3, <1>4

LEMMA AloneRecover ==
  ASSUME TypeOK, Alone, DownIsEmpty, Recover
  PROVE  Alone'
<1>1. Empty /\ NoCalls /\ UNCHANGED todo  BY DEF Recover, DownIsEmpty, Empty, NoCalls
<1>2. life \in Lifecycles /\ sub \in [Flags -> SubmissionStatus]  BY DEF TypeOK
<1>3. CASE RecoverSubmitting /\ life \in {"VERIFYING", "SUBMITTING"}
  <2>1. \A g \in Flags : sub[g] # "CORRECT"  BY <1>3 DEF Alone, CorrectIsSolved
  <2>2. ~Held  BY <1>3 DEF Held
  <2>3. CASE HoldForReview \/ NothingPending \/ LeaveUnknown
    <3>1. UNCHANGED <<cand, sub, calls, timer>>  BY <2>3 DEF HoldForReview, NothingPending, LeaveUnknown
    <3>2. life' # "SUBMITTING" \/ blocked' = "SUBMISSION_OUTCOME_UNKNOWN"
      <4>1. "SUBMITTING" \in Lifecycles  BY DEF Lifecycles
      <4>2. QED  BY <2>3, <4>1, Targets DEF HoldForReview, NothingPending, LeaveUnknown
    <3>3. Empty'  BY <1>1, <3>1 DEF Empty
    <3>4. todo' = {} /\ CallsFit' /\ TimersFit' /\ SubmittingIsDriven'  BY <3>2, <3>3, StaysEmpty
    <3>5. CapFits'  BY <2>2, <3>1, CapStays DEF Alone
    <3>6. QED  BY <2>1, <3>1, <3>4, <3>5 DEF Alone, CandidatesFit, CorrectIsSolved
  <2>4. ASSUME NEW f \in Flags, MarkInterrupted(f)  PROVE Alone'
    <3>1. /\ sub[f] = "SENDING" /\ sub' = [sub EXCEPT ![f] = "UNKNOWN"]
          /\ cand' = [cand EXCEPT ![f] = "SUBMISSION_UNKNOWN"]
          /\ blocked' = "SUBMISSION_OUTCOME_UNKNOWN" /\ UNCHANGED <<calls, timer>>
      BY <2>4 DEF MarkInterrupted, Rows
    <3>2. sub'[f] = "UNKNOWN" /\ \A g \in Flags \ {f} : sub'[g] = sub[g] /\ cand'[g] = cand[g]
      BY <3>1 DEF TypeOK
    <3>3. Empty'  BY <1>1, <3>1 DEF Empty
    <3>4. todo' = {} /\ CallsFit' /\ TimersFit' /\ SubmittingIsDriven'  BY <3>1, <3>3, StaysEmpty
    <3>5. CapFits'
      <4>1. \A g \in Flags : sub'[g] = "WRONG" <=> sub[g] = "WRONG"  BY <3>1, <3>2
      <4>2. QED  BY <2>2, <4>1, CapStays DEF Alone
    <3>6. CandidatesFit' /\ CorrectIsSolved'
      BY <2>1, <3>1, <3>2 DEF Alone, CandidatesFit, CorrectIsSolved
    <3>7. QED  BY <3>4, <3>5, <3>6 DEF Alone
  <2>5. ASSUME NEW f \in Flags, DriveQueued(f)  PROVE Alone'
    <3>1. /\ sub[f] = "QUEUED" /\ SubmitNow(f, newest, "handler", timer) /\ life' = "SUBMITTING"
          /\ UNCHANGED <<blocked, cand, sub>>
      BY <2>5 DEF DriveQueued, Rows
    <3>2. SubmitNow(f, newest, "handler", {})  BY <1>1, <3>1 DEF Empty
    <3>3. CallsFit' /\ TimersFit' /\ SubmittingIsDriven'  BY <1>1, <3>1, <3>2, Starts DEF Waits
    <3>4. CapFits'  BY <2>2, <3>1, CapStays DEF Alone
    <3>5. QED
      BY <1>1, <2>1, <3>1, <3>3, <3>4 DEF Alone, Empty, CandidatesFit, CorrectIsSolved
  <2>6. ASSUME NEW f \in Flags, SubmitPreserved(f)  PROVE Alone'
    <3>1. /\ CreateOrGet(f, "QUEUED") /\ timer' = timer \cup {f} /\ life' = "SUBMITTING"
          /\ cand' = [cand EXCEPT ![f] = "VERIFIED"] /\ UNCHANGED <<blocked, calls>>
          /\ cand[f] \in {"VERIFIED", "PENDING"} /\ sub[f] \notin {"SENDING", "UNKNOWN", "QUEUED"}
      BY <2>6 DEF SubmitPreserved, Rows, Unsent
    <3>2. sub[f] = "NONE"  BY <1>2, <3>1 DEF Alone, CandidatesFit, SubmissionStatus
    <3>3. sub'[f] = "QUEUED" /\ \A g \in Flags \ {f} : sub'[g] = sub[g] /\ cand'[g] = cand[g]
      BY <3>1, <3>2, CreateOrGetType DEF TypeOK
    <3>4. timer' = {f} /\ \A c \in Call : ~(calls'[c] > 0)  BY <1>1, <3>1 DEF Empty, NoCalls
    <3>5. Driven(f)'  BY <3>3, <3>4 DEF Driven
    <3>6. CallsFit' /\ TimersFit' /\ SubmittingIsDriven'
      BY <3>1, <3>3, <3>4, <3>5 DEF CallsFit, TimersFit, SubmittingIsDriven, Waits
    <3>7. CapFits'
      <4>1. \A g \in Flags : sub'[g] = "WRONG" <=> sub[g] = "WRONG"  BY <3>2, <3>3
      <4>2. QED  BY <2>2, <4>1, CapStays DEF Alone
    <3>8. CandidatesFit' /\ CorrectIsSolved'
      BY <2>1, <3>2, <3>3 DEF Alone, CandidatesFit, CorrectIsSolved
    <3>9. QED  BY <1>1, <3>6, <3>7, <3>8 DEF Alone, Empty
  <2>7. QED  BY <1>3, <2>3, <2>4, <2>5, <2>6 DEF RecoverSubmitting
<1>4. CASE /\ life' # "SUBMITTING" /\ UNCHANGED <<blocked, cand, sub, calls, timer>>
           /\ (Held => Held') /\ (life = "SOLVED" => life' = "SOLVED")
  <2>1. Empty'  BY <1>1, <1>4 DEF Empty
  <2>2. todo' = {} /\ CallsFit' /\ TimersFit' /\ SubmittingIsDriven'  BY <1>4, <2>1, StaysEmpty
  <2>3. CapFits'  BY <1>4, CapStays DEF Alone
  <2>4. QED  BY <1>4, <2>2, <2>3 DEF Alone, CandidatesFit, CorrectIsSolved
<1>5. QED
  <2>1. CASE life = "ACTIVE"
    <3>1. life' = "QUEUED" /\ UNCHANGED <<blocked, cand, sub, calls, timer>>
      BY <1>2, <2>1, Targets DEF Recover, RecoverLife
    <3>2. QED  BY <1>4, <2>1, <3>1 DEF Held
  <2>2. CASE life = "VERIFYING" /\ ~RecoverSubmitting
    <3>1. life' = "QUEUED" /\ UNCHANGED <<blocked, cand, sub, calls, timer>>
      BY <1>2, <2>2, Targets DEF Recover, RecoverLife
    <3>2. QED  BY <1>4, <2>2, <3>1 DEF Held
  <2>3. CASE life \notin {"ACTIVE", "VERIFYING", "SUBMITTING"}
    <3>1. UNCHANGED <<life, blocked, cand, sub, calls, timer>>  BY <2>3 DEF Recover, RecoverLife, rows
    <3>2. QED  BY <1>4, <2>3, <3>1 DEF Held
  <2>4. CASE life \in {"VERIFYING", "SUBMITTING"} /\ RecoverSubmitting  BY <1>3, <2>4
  <2>5. life = "SUBMITTING" => RecoverSubmitting  BY DEF Recover, RecoverLife
  <2>6. QED  BY <2>1, <2>2, <2>3, <2>4, <2>5

Unattended == Operator = {} /\ ~TornAnswers

LEMMA AloneStep == Unattended /\ BudgetInv /\ Alone /\ [Next]_vars => Alone'
<1>1. SUFFICES ASSUME Unattended, BudgetInv, Alone, [Next]_vars PROVE Alone'  OBVIOUS
<1>2. TypeOK /\ AllFlags /\ DownIsEmpty  BY <1>1, BudgetPerFlag DEF AllFlags
<1>3. \A f \in todo : ~ReconsiderNext(f)  BY <1>1 DEF Alone
<1>4. CASE Handlers
  <2>1. ~Human
    BY <1>1 DEF Unattended, Human, Pause, Resume, Park, Unpark, ResumeSolving, Reconsider, Reject, Accept,
       ManualSubmit, RetrySubmission
  <2>2. \A c \in Call : \A r \in Possible(c.flag) : ~CrashInAnswer(c, r)
    BY <1>1 DEF Unattended, CrashInAnswer
  <2>3. CASE Queue \/ Schedule \/ RuntimeUnavailable \/ WorkerGone \/ \E f \in Flags : CooldownEnds(f)
    BY <1>1, <1>2, <2>3, AloneScheduling
  <2>4. CASE \E f \in Flags : OnCandidate(f) \/ TimerFires(f)
    BY <1>1, <1>2, <2>4, AloneCandidate, AloneTimer
  <2>5. CASE Crash \/ \E f \in Flags : CrashInCandidate(f)
    BY <1>1, <1>2, <2>5, AloneCrash
  <2>6. CASE \E c \in Call : Send(c) \/ \E r \in Possible(c.flag) : Answer(c, r)
    BY <1>1, <1>2, <2>6, AloneSend, AloneAnswer
  <2>7. QED  BY <1>4, <2>1, <2>2, <2>3, <2>4, <2>5, <2>6 DEF Handlers
<1>5. CASE Recover  BY <1>1, <1>2, <1>5, AloneRecover
<1>6. CASE UNCHANGED vars
  <2>1. UNCHANGED <<life, blocked, up, todo, calls, timer, cand, sub>>  BY <1>6 DEF vars
  <2>2. Created  BY <2>1 DEF Created
  <2>3. QED  BY <1>1, <1>2, <2>1, <2>2, AloneStays
<1>7. QED  BY <1>1, <1>3, <1>4, <1>5, <1>6 DEF Next

LEMMA AloneInit == Init => Alone
<1>1. SUFFICES ASSUME Init PROVE Alone  OBVIOUS
<1>2. /\ \A f \in Flags : sub[f] = "NONE" /\ cand[f] = "NONE"
      /\ life = "READY" /\ timer = {} /\ todo = {} /\ \A c \in Call : ~(calls[c] > 0)
  BY <1>1 DEF Init
<1>3. CountWrong(sub) = 0
  <2>1. {f \in Flags : sub[f] = "WRONG"} = {}  BY <1>2
  <2>2. QED  BY <2>1, FS_EmptySet DEF CountWrong
<1>4. CapFits  BY <1>3, ConfigAssumption DEF CapFits
<1>5. QED
  BY <1>2, <1>4 DEF Alone, CallsFit, TimersFit, CandidatesFit, CorrectIsSolved, SubmittingIsDriven

LEMMA AloneAlways == ASSUME Unattended PROVE Spec => []Alone
<1>1. BudgetInv /\ [Next]_vars => BudgetInv'  BY BudgetStep DEF Unattended
<1>2. BudgetInv /\ Alone /\ [Next]_vars => Alone'  BY AloneStep
<1>3. Init => BudgetInv  BY BudgetInit
<1>4. QED  BY <1>1, <1>2, <1>3, AloneInit, PTL DEF Spec

LEMMA IdleElsewhere ==
  ASSUME Alone, NEW f \in Flags, ~Idle(f)
  PROVE  /\ life = "SUBMITTING" /\ (f \in timer => CallsOf(f) = {})
         /\ \A g \in Flags : ~Idle(g) => f = g
<1>1. CASE f \in timer
  <2>1. life = "SUBMITTING" /\ timer = {f}  BY <1>1 DEF Alone, TimersFit
  <2>2. \A g \in Flags : CallsOf(g) = {}  BY <1>1 DEF Alone, CallsFit, CallsOf
  <2>3. QED  BY <2>1, <2>2 DEF Idle
<1>2. CASE f \notin timer
  <2>1. PICK c \in Call : c.flag = f /\ calls[c] > 0  BY <1>2 DEF Idle, CallsOf
  <2>2. life = "SUBMITTING" /\ timer = {} /\ \A d \in Call : calls[d] > 0 => d = c
    BY <2>1 DEF Alone, CallsFit
  <2>3. QED  BY <1>2, <2>1, <2>2 DEF Idle, CallsOf
<1>3. QED  BY <1>1, <1>2

(* The judge is not asked for more than localMaxWrong wrong flags, and then *)
(* the challenge is held for review with nothing under way.                 *)
THEOREM WrongFlagsAreCapped == ASSUME Unattended PROVE Spec => []WrongCap
<1>1. Alone => WrongCap
  <2>1. SUFFICES ASSUME Alone PROVE WrongCap  OBVIOUS
  <2>2. CountWrong(sub) <= MaxWrong  BY <2>1 DEF Alone, CapFits
  <2>3. ASSUME CountWrong(sub) = MaxWrong, NEW f \in Flags  PROVE Idle(f)
    <3>1. life # "SUBMITTING"  BY <2>1, <2>3 DEF Alone, CapFits, Held
    <3>2. QED  BY <2>1, <3>1, IdleElsewhere
  <2>4. CountWrong(sub) = MaxWrong => Held  BY <2>1 DEF Alone, CapFits
  <2>5. QED  BY <2>2, <2>3, <2>4 DEF WrongCap, Held
<1>2. QED  BY <1>1, AloneAlways, PTL

(* While no human intervenes, with any number of flags and any judge, and   *)
(* through crashes: at most one call or timer is behind the challenge, only *)
(* while it is SUBMITTING, always while it is and its outcome is not        *)
(* unknown; so a CORRECT solves it, and after the last wrong flag it is     *)
(* held for review and there is none.                                       *)
THEOREM OneDriver == ASSUME Unattended PROVE Spec => []DrivenOnce
<1>1. Alone => SingleDriver
  <2>1. SUFFICES ASSUME Alone PROVE SingleDriver  OBVIOUS
  <2>2. \A c, d \in Call : calls[c] > 0 /\ calls[d] > 0 => c = d /\ calls[c] = 1
    BY <2>1 DEF Alone, CallsFit
  <2>3. QED  BY <2>1, <2>2, IdleElsewhere DEF SingleDriver
<1>2. Alone => SubmittingIsDriven /\ CorrectIsSolved  BY DEF Alone
<1>3. QED  BY <1>1, <1>2, AloneAlways, WrongFlagsAreCapped, PTL DEF DrivenOnce
-----------------------------------------------------------------------------
(* What the judge sees of the rows while no human intervenes. One flag at   *)
(* most is at the judge, and then nothing but its call is under way;        *)
(* nothing is under way of a challenge that is held for a human, or that    *)
(* has no judge; and a block shows in the status.                           *)

NothingUnderWay == timer = {} /\ NoCalls

OneAsked ==
  \A f \in Flags : sub[f] = "SENDING" =>
    /\ life = "SUBMITTING" /\ timer = {}
    /\ \A c \in Call : calls[c] > 0 => c.stage = "judge"
    /\ \A g \in Flags : sub[g] = "SENDING" => g = f

BlocksShow ==
  /\ blocked = "SUBMISSION_OUTCOME_UNKNOWN" => life = "SUBMITTING" /\ \E f \in Flags : sub[f] = "UNKNOWN"
  /\ blocked = "MANUAL_REVIEW_REQUIRED" => life \notin {"SUBMITTING", "VERIFYING"}

Docketed ==
  /\ OneAsked /\ BlocksShow
  /\ HeldForHuman => NothingUnderWay
  /\ ~Judged => NothingUnderWay /\ \A f \in Flags : sub[f] \notin {"SENDING", "UNKNOWN"}

LEMMA WrongOfTheDocket == Judge!Cardinality(Judge!Wrong) = CountWrong(sub)
<1>1. Judge!Wrong = {f \in Flags : sub[f] = "WRONG"}  BY DEF Judge!Wrong, Outcome
<1>2. \A S : Judge!Cardinality(S) = Cardinality(S)  BY Zenon DEF Judge!Cardinality, Cardinality
<1>3. QED  BY <1>1, <1>2 DEF CountWrong

(* The judge sees nothing of a step that at most creates rows.              *)
LEMMA Unseen ==
  ASSUME Created, life' = "SOLVED" <=> life = "SOLVED", HeldForHuman' <=> HeldForHuman
  PROVE  UNCHANGED Judge!dvars
<1>1. Asked' = Asked /\ Outcome' = Outcome  BY DEF Created, Asked, Outcome
<1>2. (life = "SOLVED")' = (life = "SOLVED")  OBVIOUS
<1>3. HeldForHuman' = HeldForHuman  BY DEF HeldForHuman
<1>4. QED  BY <1>1, <1>2, <1>3 DEF Judge!dvars

(* Nor of one that leaves what is under way as it is, or less of it.        *)
LEMMA DocketStays ==
  ASSUME Docketed, Created, UNCHANGED <<life, blocked>>,
         timer' = timer \/ timer' = {}, calls' = calls \/ \A c \in Call : calls'[c] = 0
  PROVE  Docketed' /\ UNCHANGED Judge!dvars
<1>1. \A f \in Flags : /\ sub'[f] = "SENDING" <=> sub[f] = "SENDING"
                       /\ sub'[f] = "UNKNOWN" <=> sub[f] = "UNKNOWN"
  BY DEF Created
<1>2. \A c \in Call : calls'[c] > 0 => calls[c] > 0  OBVIOUS
<1>3. NothingUnderWay => NothingUnderWay'  BY DEF NothingUnderWay, NoCalls
<1>4. OneAsked' /\ BlocksShow'  BY <1>1, <1>2 DEF Docketed, OneAsked, BlocksShow
<1>5. Docketed'  BY <1>1, <1>3, <1>4 DEF Docketed, HeldForHuman
<1>6. QED  BY <1>5, Unseen DEF HeldForHuman

LEMMA DocketScheduling ==
  ASSUME TypeOK, Alone, Docketed,
         \/ Queue \/ Schedule \/ RuntimeUnavailable \/ WorkerGone \/ \E f \in Flags : CooldownEnds(f)
  PROVE  Docketed' /\ UNCHANGED Judge!dvars
<1>1. CASE \E f \in Flags : CooldownEnds(f)
  <2>1. UNCHANGED <<life, blocked, calls, timer, sub>>  BY <1>1 DEF CooldownEnds, memory
  <2>2. Created  BY <2>1 DEF Created
  <2>3. QED  BY <2>1, <2>2, DocketStays
<1>2. CASE Queue \/ Schedule \/ RuntimeUnavailable \/ WorkerGone
  <2>1. /\ life \in {"READY", "QUEUED", "ACTIVE"} /\ life' \in {"QUEUED", "ACTIVE"}
        /\ UNCHANGED <<calls, timer, sub>>
        /\ blocked' = blocked \/ (blocked # "MANUAL_REVIEW_REQUIRED" /\ blocked' = "MODEL_RUNTIME_UNAVAILABLE")
    <3>1. Target("READY", "QUEUE") = "QUEUED" /\ Target("QUEUED", "SCHEDULE") = "ACTIVE"
          /\ Target("ACTIVE", "RECOVER_ACTIVE") = "QUEUED"
      BY DEF Target, Allowed, T
    <3>2. QED  BY <1>2, <3>1 DEF Queue, Schedule, RuntimeUnavailable, WorkerGone, memory
  <2>2. NothingUnderWay /\ NothingUnderWay'
    <3>1. Empty /\ NoCalls  BY <2>1, NothingElsewhere
    <3>2. QED  BY <2>1, <3>1 DEF NothingUnderWay, Empty, NoCalls
  <2>3. \A f \in Flags : sub'[f] # "SENDING"  BY <2>1 DEF Docketed, OneAsked
  <2>4. blocked # "SUBMISSION_OUTCOME_UNKNOWN"  BY <2>1 DEF Docketed, BlocksShow
  <2>5. Docketed'  BY <2>1, <2>2, <2>3, <2>4 DEF Docketed, OneAsked, BlocksShow
  <2>6. HeldForHuman' <=> HeldForHuman  BY <2>1, <2>4 DEF HeldForHuman
  <2>7. Created  BY <2>1 DEF Created
  <2>8. QED  BY <2>1, <2>5, <2>6, <2>7, Unseen
<1>3. QED  BY <1>1, <1>2

LEMMA DocketCandidate ==
  ASSUME TypeOK, AllFlags, Alone, Docketed, NEW f \in Flags, OnCandidate(f)
  PROVE  Docketed' /\ UNCHANGED Judge!dvars
<1>1. cand[f] = "NONE" /\ life # "SOLVED"
  BY DEF OnCandidate, RejectLocally, HoldForHuman, AutoSubmitCandidate
<1>2. sub[f] = "NONE"  BY <1>1 DEF AllFlags, FlagInv, Fresh
<1>3. CASE RejectLocally(f) \/ HoldForHuman(f)
  <2>1. UNCHANGED <<life, blocked, calls, timer, sub>>  BY <1>3 DEF RejectLocally, HoldForHuman, memory
  <2>2. Created  BY <2>1 DEF Created
  <2>3. QED  BY <2>1, <2>2, DocketStays
<1>4. CASE AutoSubmitCandidate(f)
  <2>1. PICK s \in Lifecycles : s = Target(life, "CANDIDATE_FOUND")
    BY TargetInLifecycles DEF TypeOK, Events
  <2>2. /\ SubmitCandidate(f, s, "handler") /\ Judged
        /\ blocked # "MANUAL_REVIEW_REQUIRED" /\ UNCHANGED blocked
    BY <1>4, <2>1 DEF AutoSubmitCandidate, WillAutoSubmit
  <2>3. CreateOrGet(f, "QUEUED") /\ Created /\ life' = Target(s, "VERIFY_OK")
    BY <2>2, CreateOrGetCreates DEF SubmitCandidate
  <2>4. life \in Lifecycles  BY DEF TypeOK
  <2>5. CASE s = "VERIFYING"
    <3>1. life # "SUBMITTING" /\ life' = "SUBMITTING"  BY <2>1, <2>3, <2>4, <2>5, Targets
    <3>2. blocked # "SUBMISSION_OUTCOME_UNKNOWN"  BY <3>1 DEF Docketed, BlocksShow
    <3>3. \A g \in Flags : sub'[g] # "SENDING"  BY <2>3, <3>1 DEF Docketed, OneAsked, Created
    <3>4. Docketed'  BY <2>2, <3>2, <3>3 DEF Docketed, OneAsked, BlocksShow, HeldForHuman
    <3>5. QED  BY <1>1, <2>2, <2>3, <3>1, <3>4, Unseen DEF HeldForHuman
  <2>6. CASE s # "VERIFYING"
    <3>1. ~Allowed(s, "VERIFY_OK") /\ life' = s  BY <2>3, <2>6, Targets
    <3>2. UNCHANGED <<calls, timer>>  BY <2>2, <3>1 DEF SubmitCandidate
    <3>3. life' = life  BY <2>1, <2>4, <2>6, <3>1, Targets
    <3>4. QED  BY <2>2, <2>3, <3>2, <3>3, DocketStays
  <2>7. QED  BY <2>5, <2>6
<1>5. QED  BY <1>3, <1>4 DEF OnCandidate

LEMMA DocketSend ==
  ASSUME TypeOK, Alone, Docketed, NEW c \in Call, Send(c)
  PROVE  Docketed' /\ \E f \in Flags : Judge!Ask(f)
<1>1. PICK f \in Flags : f = c.flag  BY DEF Call
<1>2. PICK d \in Call : d = [c EXCEPT !.stage = "judge"]  BY DEF Call
<1>3. /\ c.stage = "limiter" /\ calls[c] > 0 /\ d.stage = "judge" /\ d # c
      /\ calls' = [calls EXCEPT ![c] = @ - 1, ![d] = @ + 1]
      /\ sub' = [sub EXCEPT ![f] = "SENDING"] /\ UNCHANGED <<life, blocked, timer>>
  BY <1>1, <1>2 DEF Call, Send
<1>4. /\ life = "SUBMITTING" /\ timer = {} /\ sub[f] \in Waits /\ calls[c] = 1
      /\ \A e \in Call : calls[e] > 0 => e = c
  BY <1>1, <1>3 DEF Alone, CallsFit
<1>5. \A g \in Flags : sub[g] # "SENDING"  BY <1>3 DEF Docketed, OneAsked
<1>6. ~HeldForHuman /\ Judged  BY <1>3 DEF Docketed, NothingUnderWay, NoCalls
<1>7. \A e \in Call : calls'[e] > 0 => e.stage = "judge"  BY <1>3, <1>4 DEF TypeOK
<1>8. sub'[f] = "SENDING" /\ \A g \in Flags \ {f} : sub'[g] = sub[g]  BY <1>3 DEF TypeOK
<1>9. Docketed'
  <2>1. OneAsked'  BY <1>3, <1>4, <1>5, <1>7, <1>8 DEF OneAsked
  <2>2. ~HeldForHuman'  BY <1>3, <1>6 DEF HeldForHuman
  <2>3. QED  BY <1>6, <2>1, <2>2 DEF Docketed, BlocksShow, HeldForHuman
<1>10. Asked = {} /\ Asked' = {f}  BY <1>5, <1>8 DEF Asked
<1>11. Outcome[f] = "open" /\ Outcome' = Outcome  BY <1>4, <1>8 DEF Outcome, Waits
<1>12. Judge!Cardinality(Judge!Wrong) < MaxWrong
  <2>1. CountWrong(sub) <= MaxWrong /\ CountWrong(sub) # MaxWrong  BY <1>4 DEF Alone, CapFits, Held
  <2>2. CountWrong(sub) \in Nat  BY WrongNat
  <2>3. MaxWrong \in Nat  BY ConfigAssumption
  <2>4. CountWrong(sub) < MaxWrong  BY <2>1, <2>2, <2>3
  <2>5. QED  BY <2>4, WrongOfTheDocket
<1>13. Judge!Ask(f)
  <2>1. (life = "SOLVED")' = (life = "SOLVED") /\ HeldForHuman' = HeldForHuman /\ life # "SOLVED"
    BY <1>3, <1>4 DEF HeldForHuman
  <2>2. QED  BY <1>6, <1>10, <1>11, <1>12, <2>1 DEF Judge!Ask
<1>14. QED  BY <1>9, <1>13

LEMMA DocketAnswer ==
  ASSUME TypeOK, Alone, Docketed, NEW c \in Call, NEW r \in Possible(c.flag), Answer(c, r)
  PROVE  Docketed' /\ Judge!Next
<1>1. PICK f \in Flags : f = c.flag  BY DEF Call
<1>2. PICK v : v = Verdict(r)  OBVIOUS
<1>3. v \in {"CORRECT", "WRONG", "RATE_LIMITED", "UNKNOWN", "REVIEW"}  BY <1>1, <1>2, AnswerType
<1>4. /\ calls' = [calls EXCEPT ![c] = @ - 1] /\ calls[c] > 0 /\ c.stage = "judge"
      /\ sub' = [sub EXCEPT ![f] = SubmissionAfter(v)]
      /\ life' = LifeAfter(v) /\ blocked' = BlockedAfter(v, sub')
      /\ v = "RATE_LIMITED" => timer' = timer \cup {f}
      /\ v # "RATE_LIMITED" => timer' = timer
  BY <1>1, <1>2 DEF Answer
<1>5. /\ calls[c] = 1 /\ life = "SUBMITTING" /\ timer = {} /\ sub[f] = "SENDING"
      /\ \A e \in Call : e # c => calls[e] = 0
  <2>1. /\ calls[c] = 1 /\ life = "SUBMITTING" /\ timer = {} /\ sub[f] = "SENDING"
        /\ \A e \in Call : calls[e] > 0 => e = c
    BY <1>1, <1>4 DEF Alone, CallsFit
  <2>2. \A e \in Call : calls[e] \in Nat  BY DEF TypeOK
  <2>3. QED  BY <2>1, <2>2
<1>6. NoCalls'  BY <1>4, <1>5 DEF TypeOK, NoCalls
<1>7. /\ sub'[f] = SubmissionAfter(v) /\ \A g \in Flags \ {f} : sub'[g] = sub[g]
      /\ \A g \in Flags \ {f} : sub[g] # "SENDING"
  BY <1>4, <1>5 DEF TypeOK, Docketed, OneAsked
<1>8. ~HeldForHuman /\ Judged  BY <1>4 DEF Docketed, NothingUnderWay, NoCalls
<1>9. CountWrong(sub) < MaxWrong /\ CountWrong(sub) \in Nat /\ MaxWrong \in Nat
  <2>1. CountWrong(sub) <= MaxWrong /\ CountWrong(sub) # MaxWrong  BY <1>5 DEF Alone, CapFits, Held
  <2>2. CountWrong(sub) \in Nat  BY WrongNat
  <2>3. MaxWrong \in Nat  BY ConfigAssumption
  <2>4. QED  BY <2>1, <2>2, <2>3
<1>10. SubmissionAfter(v) \in SubmissionStatus \ {"SENDING"}  BY <1>3 DEF SubmissionAfter, SubmissionStatus
<1>11. Asked = {f} /\ Asked' = {}  BY <1>5, <1>7, <1>10 DEF Asked
<1>12. \A g \in Flags : sub'[g] # "SENDING"  BY <1>7, <1>10
<1>13. life' = CASE v = "CORRECT" -> "SOLVED" [] v \in {"WRONG", "REVIEW"} -> "ACTIVE" [] OTHER -> "SUBMITTING"
  <2>1. "SUBMITTING" \in Lifecycles  BY DEF Lifecycles
  <2>2. QED  BY <1>3, <1>4, <1>5, <2>1, Targets DEF LifeAfter
<1>14. CASE v = "RATE_LIMITED"
  <2>1. UNCHANGED <<life, blocked>> /\ sub'[f] = "RATE_LIMITED"
    BY <1>4, <1>7, <1>14 DEF LifeAfter, BlockedAfter, SubmissionAfter
  <2>2. ~HeldForHuman'  BY <1>8, <2>1 DEF HeldForHuman
  <2>3. Docketed'  BY <1>8, <1>12, <2>2 DEF Docketed, OneAsked, BlocksShow, HeldForHuman
  <2>4. Outcome' = Outcome  BY <1>5, <1>7, <2>1 DEF Outcome
  <2>5. (life = "SOLVED")' = (life = "SOLVED") /\ HeldForHuman' = HeldForHuman  BY <2>1 DEF HeldForHuman
  <2>6. Judge!Refuse(f)  BY <1>11, <2>4, <2>5 DEF Judge!Refuse
  <2>7. QED  BY <2>3, <2>6 DEF Judge!Next
<1>15. CASE v # "RATE_LIMITED"
  <2>1. PICK w \in {"CORRECT", "WRONG", "UNKNOWN"} : w = SubmissionAfter(v)
    BY <1>3, <1>15 DEF SubmissionAfter
  <2>2. NothingUnderWay'  BY <1>4, <1>5, <1>6, <1>15 DEF NothingUnderWay
  <2>3. blocked' = CASE v = "WRONG" /\ CountWrong(sub) + 1 = MaxWrong -> "MANUAL_REVIEW_REQUIRED"
                     [] v = "UNKNOWN" -> "SUBMISSION_OUTCOME_UNKNOWN" [] OTHER -> blocked
    <3>1. v = "WRONG" => CountWrong(sub') = CountWrong(sub) + 1
      BY <1>5, <1>7, WrongMore DEF SubmissionAfter
    <3>2. v = "WRONG" => (CountWrong(sub') >= MaxWrong <=> CountWrong(sub) + 1 = MaxWrong)  BY <1>9, <3>1
    <3>3. QED  BY <1>4, <3>2 DEF BlockedAfter
  <2>4. BlocksShow'
    <3>1. v = "UNKNOWN" => sub'[f] = "UNKNOWN"  BY <1>7 DEF SubmissionAfter
    <3>2. blocked \notin {"MANUAL_REVIEW_REQUIRED", "SUBMISSION_OUTCOME_UNKNOWN"}  BY <1>8 DEF HeldForHuman
    <3>3. QED  BY <1>13, <2>3, <3>1, <3>2 DEF BlocksShow
  <2>5. Docketed'  BY <1>8, <1>12, <2>2, <2>4 DEF Docketed, OneAsked
  <2>6. Outcome' = [Outcome EXCEPT ![f] = w]  BY <1>5, <1>7, <2>1 DEF Outcome
  <2>7. (life = "SOLVED")' = (w = "CORRECT")  BY <1>3, <1>13, <2>1 DEF SubmissionAfter
  <2>8. HeldForHuman' = (v = "UNKNOWN" \/ (v = "WRONG" /\ CountWrong(sub) + 1 = MaxWrong))
    BY <1>8, <2>3 DEF HeldForHuman
  <2>9. /\ w = "CORRECT" => v = "CORRECT"
        /\ w = "WRONG" <=> v = "WRONG"
    BY <1>3, <2>1 DEF SubmissionAfter
  <2>10. /\ HeldForHuman' \in {HeldForHuman, TRUE}
         /\ w = "CORRECT" => HeldForHuman' = HeldForHuman
         /\ w = "WRONG" => HeldForHuman' = (HeldForHuman \/ Judge!Cardinality(Judge!Wrong) + 1 = MaxWrong)
    <3>1. w = "WRONG" => HeldForHuman' = (CountWrong(sub) + 1 = MaxWrong)  BY <2>8, <2>9, Zenon
    <3>2. w = "CORRECT" => HeldForHuman' = FALSE  BY <2>8, <2>9, Zenon
    <3>3. HeldForHuman = FALSE /\ HeldForHuman' \in BOOLEAN  BY <1>8 DEF HeldForHuman
    <3>4. w = "WRONG" => HeldForHuman' = (HeldForHuman \/ Judge!Cardinality(Judge!Wrong) + 1 = MaxWrong)
      BY <3>1, <3>3, WrongOfTheDocket, Zenon
    <3>5. QED  BY <3>2, <3>3, <3>4, Zenon
  <2>11. Judge!Decide(f, w)  BY <1>11, <2>6, <2>7, <2>10 DEF Judge!Decide
  <2>12. QED  BY <2>5, <2>11 DEF Judge!Next
<1>16. QED  BY <1>14, <1>15

LEMMA DocketTimer ==
  ASSUME TypeOK, Alone, Docketed, NEW f \in Flags, TimerFires(f)
  PROVE  Docketed' /\ UNCHANGED Judge!dvars
<1>1. f \in timer /\ UNCHANGED <<life, blocked, sub>>  BY DEF TimerFires, rows
<1>2. ~HeldForHuman /\ Judged /\ \A g \in Flags : sub[g] # "SENDING"
  BY <1>1 DEF Docketed, NothingUnderWay, OneAsked
<1>3. Docketed'  BY <1>1, <1>2 DEF Docketed, OneAsked, BlocksShow, HeldForHuman
<1>4. Created  BY <1>1 DEF Created
<1>5. QED  BY <1>1, <1>3, <1>4, Unseen DEF HeldForHuman

LEMMA DocketCrash ==
  ASSUME TypeOK, AllFlags, Alone, Docketed, Crash \/ \E f \in Flags : CrashInCandidate(f)
  PROVE  Docketed' /\ UNCHANGED Judge!dvars
<1>1. timer' = {} /\ \A c \in Call : calls'[c] = 0  BY DieEmpties DEF Crash, CrashInCandidate, Empty
<1>2. CASE Crash
  <2>1. UNCHANGED <<life, blocked, sub>>  BY <1>2 DEF Crash, rows
  <2>2. Created  BY <2>1 DEF Created
  <2>3. QED  BY <1>1, <2>1, <2>2, DocketStays
<1>3. ASSUME NEW f \in Flags, CrashInCandidate(f)  PROVE Docketed' /\ UNCHANGED Judge!dvars
  <2>1. Created /\ UNCHANGED blocked
    <3>1. CreateOrGet(f, "QUEUED") \/ UNCHANGED sub  BY <1>3 DEF CrashInCandidate
    <3>2. QED  BY <1>3, <3>1, CreateOrGetCreates DEF CrashInCandidate, Created
  <2>2. CASE life' = life  BY <1>1, <2>1, <2>2, DocketStays
  <2>3. CASE life' # life
    <3>1. /\ life' = Target(life, "CANDIDATE_FOUND") /\ Allowed(life, "CANDIDATE_FOUND") /\ Judged
          /\ blocked # "MANUAL_REVIEW_REQUIRED"
      BY <1>3, <2>3 DEF CrashInCandidate, WillAutoSubmit
    <3>2. life \in {"READY", "QUEUED", "ACTIVE"} /\ life' = "VERIFYING"  BY <3>1, Targets DEF TypeOK
    <3>3. \A g \in Flags : sub'[g] # "SENDING"  BY <2>1, <3>2 DEF Docketed, OneAsked, Created
    <3>4. blocked # "SUBMISSION_OUTCOME_UNKNOWN"  BY <3>2 DEF Docketed, BlocksShow
    <3>5. Docketed'  BY <2>1, <3>1, <3>3, <3>4 DEF Docketed, OneAsked, BlocksShow, HeldForHuman
    <3>6. QED  BY <2>1, <3>2, <3>5, Unseen DEF HeldForHuman
  <2>4. QED  BY <2>2, <2>3
<1>4. QED  BY <1>2, <1>3

(* A restart decides what became of an interrupted flag, or asks for the    *)
(* human because an outcome was lost before; the rest of it is not seen.    *)
LEMMA DocketRecoverSubmitting ==
  ASSUME TypeOK, Alone, Docketed, DownIsEmpty, ~up, life \in {"VERIFYING", "SUBMITTING"}, RecoverSubmitting
  PROVE  Docketed' /\ [Judge!Next]_(Judge!dvars)
<1>1. timer = {} /\ \A c \in Call : calls[c] = 0  BY DEF DownIsEmpty
<1>2. "SUBMITTING" \in Lifecycles  BY DEF Lifecycles
<1>3. blocked # "MANUAL_REVIEW_REQUIRED"  BY DEF Docketed, BlocksShow
<1>4. CASE LeaveUnknown
  <2>1. /\ UNCHANGED <<sub, calls, timer>> /\ Judged /\ life' = "SUBMITTING"
        /\ blocked' = "SUBMISSION_OUTCOME_UNKNOWN"
        /\ \A g \in Flags : sub[g] # "SENDING"
    BY <1>4 DEF LeaveUnknown, Rows
  <2>2. PICK f \in Flags : sub[f] = "UNKNOWN"  BY <1>4 DEF LeaveUnknown, Rows
  <2>3. Docketed'
    BY <1>1, <2>1, <2>2 DEF Docketed, OneAsked, BlocksShow, HeldForHuman, NothingUnderWay, NoCalls
  <2>4. Outcome[f] = "UNKNOWN" /\ Outcome' = Outcome /\ Asked' = Asked  BY <2>1, <2>2 DEF Outcome, Asked
  <2>5. (life = "SOLVED")' = (life = "SOLVED") /\ HeldForHuman' = TRUE  BY <2>1 DEF HeldForHuman
  <2>6. Judge!Hold  BY <2>4, <2>5 DEF Judge!Hold
  <2>7. QED  BY <2>3, <2>6 DEF Judge!Next
<1>5. ASSUME NEW f \in Flags, MarkInterrupted(f)  PROVE Docketed' /\ Judge!Next
  <2>1. /\ sub[f] = "SENDING" /\ sub' = [sub EXCEPT ![f] = "UNKNOWN"] /\ Judged /\ life' = "SUBMITTING"
        /\ blocked' = "SUBMISSION_OUTCOME_UNKNOWN" /\ UNCHANGED <<calls, timer>>
    BY <1>5 DEF MarkInterrupted, Rows
  <2>2. /\ sub'[f] = "UNKNOWN" /\ \A g \in Flags \ {f} : sub'[g] = sub[g]
        /\ \A g \in Flags \ {f} : sub[g] # "SENDING"
    BY <2>1 DEF TypeOK, Docketed, OneAsked
  <2>3. Docketed'
    BY <1>1, <2>1, <2>2 DEF Docketed, OneAsked, BlocksShow, HeldForHuman, NothingUnderWay, NoCalls
  <2>4. Asked = {f} /\ Asked' = {}  BY <2>1, <2>2 DEF Asked
  <2>5. Outcome' = [Outcome EXCEPT ![f] = "UNKNOWN"]  BY <2>1, <2>2 DEF Outcome
  <2>6. (life = "SOLVED")' = FALSE /\ HeldForHuman' = TRUE  BY <2>1 DEF HeldForHuman
  <2>7. Judge!Decide(f, "UNKNOWN")  BY <2>4, <2>5, <2>6 DEF Judge!Decide
  <2>8. QED  BY <2>3, <2>7 DEF Judge!Next
<1>6. CASE HoldForReview \/ NothingPending \/ \E f \in Flags : DriveQueued(f) \/ SubmitPreserved(f)
  <2>1. /\ Created /\ UNCHANGED blocked /\ life' \in {"ACTIVE", "QUEUED", "SUBMITTING"}
        /\ ~Judged => UNCHANGED <<calls, timer, sub>> /\ life' = "ACTIVE"
        /\ Judged => \A g \in Flags : sub[g] \notin {"SENDING", "UNKNOWN"}
    <3>1. CASE HoldForReview \/ NothingPending
      BY <1>2, <3>1, Targets DEF HoldForReview, NothingPending, Rows, Created
    <3>2. ASSUME NEW f \in Flags, DriveQueued(f)
          PROVE  /\ Created /\ UNCHANGED blocked /\ life' = "SUBMITTING" /\ Judged
                 /\ \A g \in Flags : sub[g] \notin {"SENDING", "UNKNOWN"}
      BY <3>2 DEF DriveQueued, Rows, Created
    <3>3. ASSUME NEW f \in Flags, SubmitPreserved(f)
          PROVE  /\ Created /\ UNCHANGED blocked /\ life' = "SUBMITTING" /\ Judged
                 /\ \A g \in Flags : sub[g] \notin {"SENDING", "UNKNOWN"}
      BY <3>3, CreateOrGetCreates DEF SubmitPreserved, Rows
    <3>4. QED  BY <1>6, <3>1, <3>2, <3>3
  <2>2. \A g \in Flags : sub[g] # "SENDING" /\ sub'[g] # "SENDING"  BY <2>1 DEF Docketed, Created
  <2>3. blocked # "SUBMISSION_OUTCOME_UNKNOWN"  BY <2>1 DEF Docketed, BlocksShow
  <2>4. ~HeldForHuman /\ ~HeldForHuman'  BY <1>3, <2>1, <2>3 DEF HeldForHuman
  <2>5. ~Judged => NothingUnderWay'  BY <1>1, <2>1 DEF NothingUnderWay, NoCalls
  <2>6. Docketed'  BY <2>1, <2>2, <2>4, <2>5 DEF Docketed, OneAsked, BlocksShow, HeldForHuman
  <2>7. QED  BY <2>1, <2>4, <2>6, Unseen
<1>7. QED  BY <1>4, <1>5, <1>6 DEF RecoverSubmitting

LEMMA DocketRecover ==
  ASSUME TypeOK, Alone, Docketed, DownIsEmpty, Recover
  PROVE  Docketed' /\ [Judge!Next]_(Judge!dvars)
<1>1. ~up /\ RecoverLife  BY DEF Recover
<1>2. CASE life \in {"VERIFYING", "SUBMITTING"} /\ RecoverSubmitting
  BY <1>1, <1>2, DocketRecoverSubmitting
<1>3. CASE ~(life \in {"VERIFYING", "SUBMITTING"} /\ RecoverSubmitting)
  <2>1. UNCHANGED <<blocked, sub, calls, timer>>  BY <1>1, <1>3 DEF RecoverLife, rows
  <2>2. Created  BY <2>1 DEF Created
  <2>3. CASE life' = life  BY <2>1, <2>2, <2>3, DocketStays
  <2>4. CASE life' # life
    <3>1. life \in {"ACTIVE", "VERIFYING"} /\ life' = "QUEUED"
      <4>1. "ACTIVE" \in Lifecycles /\ "VERIFYING" \in Lifecycles  BY DEF Lifecycles
      <4>2. QED  BY <1>1, <1>3, <2>4, <4>1, Targets DEF RecoverLife, rows
    <3>2. timer = {} /\ \A c \in Call : calls[c] = 0  BY <1>1 DEF DownIsEmpty
    <3>3. \A g \in Flags : sub'[g] # "SENDING"  BY <2>1, <3>1 DEF Docketed, OneAsked
    <3>4. blocked # "SUBMISSION_OUTCOME_UNKNOWN"  BY <3>1 DEF Docketed, BlocksShow
    <3>5. NothingUnderWay'  BY <2>1, <3>2 DEF NothingUnderWay, NoCalls
    <3>6. Docketed'  BY <2>1, <3>1, <3>3, <3>4, <3>5 DEF Docketed, OneAsked, BlocksShow
    <3>7. QED  BY <2>1, <2>2, <3>1, <3>6, Unseen DEF HeldForHuman
  <2>5. QED  BY <2>3, <2>4
<1>4. QED  BY <1>2, <1>3

LEMMA DocketStep ==
  Unattended /\ BudgetInv /\ Alone /\ Docketed /\ [Next]_vars => Docketed' /\ [Judge!Next]_(Judge!dvars)
<1>1. SUFFICES ASSUME Unattended, BudgetInv, Alone, Docketed, [Next]_vars
               PROVE  Docketed' /\ [Judge!Next]_(Judge!dvars)
  OBVIOUS
<1>2. TypeOK /\ AllFlags /\ DownIsEmpty  BY <1>1, BudgetPerFlag DEF AllFlags
<1>3. \A f \in todo : ~ReconsiderNext(f)  BY <1>1 DEF Alone
<1>4. CASE Handlers
  <2>1. ~Human
    BY <1>1 DEF Unattended, Human, Pause, Resume, Park, Unpark, ResumeSolving, Reconsider, Reject, Accept,
       ManualSubmit, RetrySubmission
  <2>2. \A c \in Call : \A r \in Possible(c.flag) : ~CrashInAnswer(c, r)
    BY <1>1 DEF Unattended, CrashInAnswer
  <2>3. CASE Queue \/ Schedule \/ RuntimeUnavailable \/ WorkerGone \/ \E f \in Flags : CooldownEnds(f)
    BY <1>1, <1>2, <2>3, DocketScheduling
  <2>4. CASE \E f \in Flags : OnCandidate(f) \/ TimerFires(f)
    BY <1>1, <1>2, <2>4, DocketCandidate, DocketTimer
  <2>5. CASE Crash \/ \E f \in Flags : CrashInCandidate(f)
    BY <1>1, <1>2, <2>5, DocketCrash
  <2>6. CASE \E c \in Call : Send(c) \/ \E r \in Possible(c.flag) : Answer(c, r)
    <3>1. ASSUME NEW c \in Call, Send(c)  PROVE Docketed' /\ Judge!Next
      BY <1>1, <1>2, <3>1, DocketSend DEF Judge!Next
    <3>2. QED  BY <1>1, <1>2, <2>6, <3>1, DocketAnswer
  <2>7. QED  BY <1>4, <2>1, <2>2, <2>3, <2>4, <2>5, <2>6 DEF Handlers
<1>5. CASE Recover  BY <1>1, <1>2, <1>5, DocketRecover
<1>6. CASE UNCHANGED vars
  <2>1. UNCHANGED <<life, blocked, calls, timer, sub>>  BY <1>6 DEF vars
  <2>2. Created  BY <2>1 DEF Created
  <2>3. QED  BY <1>1, <2>1, <2>2, DocketStays
<1>7. QED  BY <1>1, <1>3, <1>4, <1>5, <1>6 DEF Next

LEMMA DocketInit == Init => Docketed /\ Judge!Init
<1>1. SUFFICES ASSUME Init PROVE Docketed /\ Judge!Init  OBVIOUS
<1>2. /\ \A f \in Flags : sub[f] = "NONE"
      /\ life = "READY" /\ blocked = "none" /\ timer = {} /\ \A c \in Call : calls[c] = 0
  BY <1>1 DEF Init
<1>3. Docketed
  BY <1>2 DEF Docketed, OneAsked, BlocksShow, HeldForHuman, NothingUnderWay, NoCalls
<1>4. Asked = {} /\ Outcome = [f \in Flags |-> "open"]  BY <1>2 DEF Asked, Outcome
<1>5. (life = "SOLVED") = FALSE /\ HeldForHuman = FALSE  BY <1>2 DEF HeldForHuman
<1>6. QED  BY <1>3, <1>4, <1>5 DEF Judge!Init

(* While no human intervenes, what the judge sees is the docket: it is      *)
(* asked one flag at a time, never one that has an outcome, none after a    *)
(* correct one, none after the last wrong one and none past a block, for    *)
(* any flags and any judge, however often the process dies between two      *)
(* handlers.                                                                *)
THEOREM JudgeSeesADocket == ASSUME Unattended PROVE Spec => DocketSpec
<1>1. Init => BudgetInv /\ Alone /\ Docketed /\ Judge!Init  BY BudgetInit, AloneInit, DocketInit
<1>2. BudgetInv /\ [Next]_vars => BudgetInv'  BY BudgetStep DEF Unattended
<1>3. BudgetInv /\ Alone /\ [Next]_vars => Alone'  BY AloneStep
<1>4. BudgetInv /\ Alone /\ Docketed /\ [Next]_vars => Docketed' /\ [Judge!Next]_(Judge!dvars)
  BY DocketStep
<1>5. QED  BY <1>1, <1>2, <1>3, <1>4, PTL DEF Spec, DocketSpec, Judge!Spec
-----------------------------------------------------------------------------
(* While the human only stops and goes on. Several flags may then be under  *)
(* way at once, but of each one there is one call or one timer at most, for *)
(* a row that fits.                                                         *)

Onlooking == Operator \subseteq {"pause", "park", "resumeSolving"} /\ ~TornAnswers

Mine(f) ==
  /\ \A c \in Call : c.flag = f /\ calls[c] > 0 =>
       /\ calls[c] = 1 /\ f \notin timer
       /\ c.stage = "limiter" => sub[f] \in Waits
       /\ c.stage = "judge" => sub[f] = "SENDING"
       /\ \A d \in Call : d.flag = f /\ calls[d] > 0 => d = c
  /\ f \in timer => sub[f] \in Waits
  /\ cand[f] \in {"PENDING", "VERIFIED"} => sub[f] \notin {"CORRECT", "WRONG", "RATE_LIMITED"}

Own == todo = {} /\ \A f \in Flags : Mine(f)

(* What OutcomeIsFinal says of a step. *)
Final == \A f \in Flags : sub[f] \in {"UNKNOWN", "CORRECT", "WRONG"} => sub'[f] = sub[f]

(* A step leaves a flag alone. *)
Leaves(f) ==
  /\ sub'[f] = sub[f] /\ cand'[f] = cand[f] /\ (f \in timer' <=> f \in timer)
  /\ \A c \in Call : c.flag = f => calls'[c] = calls[c]

LEMMA MineStays ==
  ASSUME NEW f \in Flags, Mine(f), Leaves(f)
  PROVE  Mine(f)'
BY DEF Mine, Leaves

LEMMA MineStill ==
  ASSUME NEW f \in Flags, f \notin timer', \A c \in Call : c.flag = f => calls'[c] = 0,
         cand'[f] \in {"PENDING", "VERIFIED"} => sub'[f] \notin {"CORRECT", "WRONG", "RATE_LIMITED"}
  PROVE  Mine(f)'
<1>1. \A c \in Call : c.flag = f => ~(calls'[c] > 0)  OBVIOUS
<1>2. QED  BY <1>1 DEF Mine

(* #submitNow of a flag of which nothing is under way. *)
LEMMA MineStarts ==
  ASSUME TypeOK, NEW f \in Flags, NEW timers, timers \subseteq Flags, f \notin timers,
         \A c \in Call : c.flag = f => calls[c] = 0,
         NEW last, SubmitNow(f, last, "handler", timers), sub'[f] \in Waits,
         cand'[f] \in {"PENDING", "VERIFIED"} => sub'[f] # "RATE_LIMITED"
  PROVE  /\ Mine(f)'
         /\ \A g \in Flags \ {f} : /\ g \in timer' <=> g \in timers
                                   /\ \A c \in Call : c.flag = g => calls'[c] = calls[c]
<1>1. Waiting(f, "handler") \in Call /\ Waiting(f, "handler").flag = f
      /\ Waiting(f, "handler").stage = "limiter"
  BY CallShape
<1>2. /\ \A c \in Call : c.flag # f => calls'[c] = calls[c]
      /\ \/ timer' = timers \cup {f} /\ calls' = calls
         \/ /\ timer' = timers
            /\ calls'[Waiting(f, "handler")] = calls[Waiting(f, "handler")] + 1
            /\ \A c \in Call : c # Waiting(f, "handler") => calls'[c] = calls[c]
  BY SubmitNowEffect
<1>3. CASE timer' = timers \cup {f} /\ calls' = calls
  <2>1. \A c \in Call : c.flag = f => ~(calls'[c] > 0)  BY <1>3
  <2>2. Mine(f)'  BY <1>3, <2>1 DEF Mine, Waits
  <2>3. QED  BY <1>2, <1>3, <2>2
<1>4. CASE /\ timer' = timers
           /\ calls'[Waiting(f, "handler")] = calls[Waiting(f, "handler")] + 1
           /\ \A c \in Call : c # Waiting(f, "handler") => calls'[c] = calls[c]
  <2>1. /\ calls'[Waiting(f, "handler")] = 1
        /\ \A c \in Call : c.flag = f /\ calls'[c] > 0 => c = Waiting(f, "handler")
    BY <1>1, <1>4
  <2>2. Mine(f)'  BY <1>1, <1>4, <2>1 DEF Mine, Waits
  <2>3. QED  BY <1>2, <1>4, <2>2
<1>5. QED  BY <1>2, <1>3, <1>4

(* A step that touches at most one flag. *)
LEMMA OwnStays ==
  ASSUME Own, NEW f \in Flags, Mine(f)', UNCHANGED todo, \A g \in Flags \ {f} : Leaves(g)
  PROVE  Own'
<1>1. \A g \in Flags \ {f} : Mine(g)'  BY MineStays DEF Own
<1>2. QED  BY <1>1 DEF Own

LEMMA OwnQuiet ==
  ASSUME Own, UNCHANGED <<todo, calls, timer, sub, cand>>
  PROVE  Own' /\ Final
<1>1. \A g \in Flags : Mine(g)'  BY MineStays DEF Own, Leaves
<1>2. QED  BY <1>1 DEF Own, Final

LEMMA OwnCandidate ==
  ASSUME TypeOK, AllFlags, Own, NEW f \in Flags, OnCandidate(f)
  PROVE  Own' /\ Final
<1>1. cand[f] = "NONE"  BY DEF OnCandidate, RejectLocally, HoldForHuman, AutoSubmitCandidate
<1>2. sub[f] = "NONE" /\ f \notin timer /\ \A c \in Call : c.flag = f => calls[c] = 0
  BY <1>1 DEF AllFlags, FlagInv, Fresh
<1>3. CASE RejectLocally(f) \/ HoldForHuman(f)
  <2>1. /\ UNCHANGED <<todo, calls, timer, sub>>
        /\ \A g \in Flags \ {f} : cand'[g] = cand[g]
    BY <1>3 DEF RejectLocally, HoldForHuman, memory, TypeOK
  <2>2. Mine(f)'  BY <1>2, <2>1, MineStill
  <2>3. Own'  BY <2>1, <2>2, OwnStays DEF Leaves
  <2>4. QED  BY <2>1, <2>3 DEF Final
<1>4. CASE AutoSubmitCandidate(f)
  <2>1. PICK s \in Lifecycles : s = Target(life, "CANDIDATE_FOUND")
    BY TargetInLifecycles DEF TypeOK, Events
  <2>2. SubmitCandidate(f, s, "handler") /\ cand' = [cand EXCEPT ![f] = "VERIFIED"] /\ UNCHANGED todo
    BY <1>4, <2>1 DEF AutoSubmitCandidate
  <2>3. CreateOrGet(f, "QUEUED")  BY <2>2 DEF SubmitCandidate
  <2>4. sub'[f] = "QUEUED" /\ \A g \in Flags \ {f} : sub'[g] = sub[g] /\ cand'[g] = cand[g]
    BY <1>2, <2>2, <2>3, CreateOrGetType DEF TypeOK
  <2>5. Mine(f)' /\ \A g \in Flags \ {f} : Leaves(g)
    <3>1. CASE Allowed(s, "VERIFY_OK")
      <4>1. SubmitNow(f, newest', "handler", timer) /\ timer \subseteq Flags
        BY <2>2, <3>1 DEF SubmitCandidate, TypeOK
      <4>2. sub'[f] \in Waits  BY <2>4 DEF Waits
      <4>3. /\ Mine(f)'
            /\ \A g \in Flags \ {f} : /\ g \in timer' <=> g \in timer
                                      /\ \A c \in Call : c.flag = g => calls'[c] = calls[c]
        BY <1>2, <2>4, <4>1, <4>2, MineStarts
      <4>4. QED  BY <2>4, <4>3 DEF Leaves
    <3>2. CASE ~Allowed(s, "VERIFY_OK")
      <4>1. UNCHANGED <<calls, timer>>  BY <2>2, <3>2 DEF SubmitCandidate
      <4>2. Mine(f)'  BY <1>2, <2>4, <4>1, MineStill
      <4>3. QED  BY <2>4, <4>1, <4>2 DEF Leaves
    <3>3. QED  BY <3>1, <3>2
  <2>6. Own'  BY <2>2, <2>5, OwnStays
  <2>7. QED  BY <1>2, <2>4, <2>6 DEF Final
<1>5. QED  BY <1>3, <1>4 DEF OnCandidate

LEMMA OwnSend ==
  ASSUME TypeOK, Own, NEW c \in Call, Send(c)
  PROVE  Own' /\ Final
<1>1. PICK d \in Call : d = [c EXCEPT !.stage = "judge"]  BY DEF Call
<1>2. PICK f \in Flags : f = c.flag  BY DEF Call
<1>3. d.flag = f /\ d.stage = "judge" /\ d # c /\ c.stage = "limiter" /\ calls[c] > 0
  BY <1>1, <1>2 DEF Call, Send
<1>4. /\ calls' = [calls EXCEPT ![c] = @ - 1, ![d] = @ + 1]
      /\ sub' = [sub EXCEPT ![f] = "SENDING"]
      /\ UNCHANGED <<cand, timer, todo>>
  BY <1>1, <1>2 DEF Send
<1>5. /\ calls[c] = 1 /\ f \notin timer /\ sub[f] \in Waits
      /\ \A e \in Call : e.flag = f /\ e # c => calls[e] = 0
  <2>1. /\ calls[c] = 1 /\ f \notin timer /\ sub[f] \in Waits
        /\ \A e \in Call : e.flag = f /\ calls[e] > 0 => e = c
    BY <1>2, <1>3 DEF Own, Mine
  <2>2. \A e \in Call : calls[e] \in Nat  BY DEF TypeOK
  <2>3. QED  BY <2>1, <2>2
<1>6. /\ calls'[d] = 1 /\ \A e \in Call : e.flag = f /\ e # d => calls'[e] = 0
      /\ \A e \in Call : e.flag # f => calls'[e] = calls[e]
  BY <1>2, <1>3, <1>4, <1>5 DEF TypeOK
<1>7. sub'[f] = "SENDING" /\ \A g \in Flags \ {f} : sub'[g] = sub[g]  BY <1>4 DEF TypeOK
<1>8. Mine(f)'
  <2>1. \A e \in Call : e.flag = f /\ calls'[e] > 0 => e = d  BY <1>6
  <2>2. QED  BY <1>3, <1>4, <1>5, <1>6, <1>7, <2>1 DEF Mine
<1>9. Own'  BY <1>4, <1>6, <1>7, <1>8, OwnStays DEF Leaves
<1>10. QED  BY <1>5, <1>7, <1>9 DEF Final, Waits

LEMMA OwnAnswer ==
  ASSUME TypeOK, Own, NEW c \in Call, NEW r \in Possible(c.flag), Answer(c, r)
  PROVE  Own' /\ Final
<1>1. PICK f \in Flags : f = c.flag  BY DEF Call
<1>2. PICK v : v = Verdict(r)  OBVIOUS
<1>3. v \in {"CORRECT", "WRONG", "RATE_LIMITED", "UNKNOWN", "REVIEW"}  BY <1>1, <1>2, AnswerType
<1>4. /\ calls' = [calls EXCEPT ![c] = @ - 1] /\ calls[c] > 0 /\ c.stage = "judge"
      /\ sub' = [sub EXCEPT ![f] = SubmissionAfter(v)] /\ cand' = [cand EXCEPT ![f] = CandidateAfter(v)]
      /\ v = "RATE_LIMITED" => timer' = timer \cup {f}
      /\ v # "RATE_LIMITED" => timer' = timer
      /\ UNCHANGED todo
  BY <1>1, <1>2 DEF Answer
<1>5. /\ calls[c] = 1 /\ f \notin timer /\ sub[f] = "SENDING"
      /\ \A e \in Call : e.flag = f /\ e # c => calls[e] = 0
  <2>1. /\ calls[c] = 1 /\ f \notin timer /\ sub[f] = "SENDING"
        /\ \A e \in Call : e.flag = f /\ calls[e] > 0 => e = c
    BY <1>1, <1>4 DEF Own, Mine
  <2>2. \A e \in Call : calls[e] \in Nat  BY DEF TypeOK
  <2>3. QED  BY <2>1, <2>2
<1>6. /\ \A e \in Call : e.flag = f => calls'[e] = 0
      /\ \A e \in Call : e.flag # f => calls'[e] = calls[e]
  BY <1>1, <1>4, <1>5 DEF TypeOK
<1>7. /\ sub'[f] = SubmissionAfter(v) /\ cand'[f] = CandidateAfter(v)
      /\ \A g \in Flags \ {f} : sub'[g] = sub[g] /\ cand'[g] = cand[g] /\ (g \in timer' <=> g \in timer)
  BY <1>4 DEF TypeOK
<1>8. Mine(f)'
  <2>1. CASE v = "RATE_LIMITED"
    <3>1. sub'[f] = "RATE_LIMITED" /\ cand'[f] = "SUBMITTED"
      BY <1>7, <2>1 DEF SubmissionAfter, CandidateAfter
    <3>2. \A e \in Call : e.flag = f => ~(calls'[e] > 0)  BY <1>6
    <3>3. QED  BY <3>1, <3>2 DEF Mine, Waits
  <2>2. CASE v # "RATE_LIMITED"
    <3>1. cand'[f] \in {"PENDING", "VERIFIED"} => sub'[f] \notin {"CORRECT", "WRONG", "RATE_LIMITED"}
      BY <1>3, <1>7, <2>2 DEF SubmissionAfter, CandidateAfter
    <3>2. f \notin timer'  BY <1>4, <1>5, <2>2
    <3>3. QED  BY <1>6, <3>1, <3>2, MineStill
  <2>3. QED  BY <2>1, <2>2
<1>9. Own'  BY <1>4, <1>6, <1>7, <1>8, OwnStays DEF Leaves
<1>10. QED  BY <1>5, <1>7, <1>9 DEF Final

LEMMA OwnTimer ==
  ASSUME TypeOK, Own, NEW f \in Flags, TimerFires(f)
  PROVE  Own' /\ Final
<1>1. f \in timer /\ UNCHANGED <<cand, sub, todo>>  BY DEF TimerFires, rows
<1>2. sub[f] \in Waits /\ \A c \in Call : c.flag = f => calls[c] = 0
  <2>1. \A c \in Call : calls[c] \in Nat /\ (c.flag = f => ~(calls[c] > 0))
    BY <1>1 DEF TypeOK, Own, Mine
  <2>2. QED  BY <1>1, <2>1 DEF Own, Mine
<1>3. Mine(f)' /\ \A g \in Flags \ {f} : Leaves(g)
  <2>1. CASE timer' = timer \ {f} /\ calls' = calls
    <3>1. Mine(f)'  BY <1>1, <1>2, <2>1, MineStill DEF Own, Mine
    <3>2. QED  BY <1>1, <2>1, <3>1 DEF Leaves
  <2>2. CASE SubmitNow(f, newest, "handler", timer \ {f})
    <3>1. PICK timers : timers = timer \ {f}  OBVIOUS
    <3>2. timers \subseteq Flags /\ f \notin timers /\ \A g \in Flags \ {f} : g \in timers <=> g \in timer
      BY <3>1 DEF TypeOK
    <3>3. SubmitNow(f, newest, "handler", timers)  BY <2>2, <3>1
    <3>4. sub'[f] \in Waits /\ (cand'[f] \in {"PENDING", "VERIFIED"} => sub'[f] # "RATE_LIMITED")
      BY <1>1, <1>2 DEF Own, Mine
    <3>5. PICK last : last = newest  OBVIOUS
    <3>6. SubmitNow(f, last, "handler", timers)  BY <3>3, <3>5
    <3>7. /\ Mine(f)'
          /\ \A g \in Flags \ {f} : /\ g \in timer' <=> g \in timers
                                    /\ \A c \in Call : c.flag = g => calls'[c] = calls[c]
      BY <1>2, <3>2, <3>4, <3>6, MineStarts
    <3>8. QED  BY <1>1, <3>2, <3>7 DEF Leaves
  <2>3. QED  BY <2>1, <2>2 DEF TimerFires
<1>4. Own'  BY <1>1, <1>3, OwnStays
<1>5. QED  BY <1>1, <1>4 DEF Final

LEMMA OwnCrash ==
  ASSUME TypeOK, AllFlags, Own, Crash \/ \E f \in Flags : CrashInCandidate(f)
  PROVE  Own' /\ Final
<1>1. Empty'  BY DieEmpties DEF Crash, CrashInCandidate
<1>2. /\ Created
      /\ \A g \in Flags : cand'[g] = cand[g] \/ sub[g] = "NONE"
  <2>1. CASE Crash  BY <2>1 DEF Crash, rows, Created
  <2>2. ASSUME NEW f \in Flags, CrashInCandidate(f)
        PROVE  Created /\ \A g \in Flags : cand'[g] = cand[g] \/ sub[g] = "NONE"
    <3>1. sub[f] = "NONE"  BY <2>2 DEF CrashInCandidate, AllFlags, FlagInv, Fresh
    <3>2. CreateOrGet(f, "QUEUED") \/ UNCHANGED sub  BY <2>2 DEF CrashInCandidate
    <3>3. Created  BY <3>2, CreateOrGetCreates DEF Created
    <3>4. QED  BY <2>2, <3>1, <3>3 DEF CrashInCandidate, TypeOK
  <2>3. QED  BY <2>1, <2>2
<1>3. \A g \in Flags : Mine(g)'
  <2>1. TAKE g \in Flags
  <2>2. cand'[g] \in {"PENDING", "VERIFIED"} => sub'[g] \notin {"CORRECT", "WRONG", "RATE_LIMITED"}
    BY <1>2 DEF Own, Mine, Created
  <2>3. QED  BY <1>1, <2>2, MineStill DEF Empty
<1>4. QED  BY <1>1, <1>2, <1>3 DEF Own, Empty, Final, Created

LEMMA OwnRecover ==
  ASSUME TypeOK, Own, DownIsEmpty, Recover
  PROVE  Own' /\ Final
<1>1. /\ timer = {} /\ UNCHANGED todo /\ \A c \in Call : calls[c] = 0
  BY DEF Recover, DownIsEmpty
<1>2. CASE UNCHANGED <<cand, sub, calls, timer>>  BY <1>1, <1>2, OwnQuiet
<1>3. ASSUME NEW f \in Flags, MarkInterrupted(f)  PROVE Own' /\ Final
  <2>1. /\ sub[f] = "SENDING" /\ sub' = [sub EXCEPT ![f] = "UNKNOWN"]
        /\ cand' = [cand EXCEPT ![f] = "SUBMISSION_UNKNOWN"] /\ UNCHANGED <<calls, timer>>
    BY <1>3 DEF MarkInterrupted, Rows
  <2>2. /\ sub'[f] = "UNKNOWN" /\ cand'[f] = "SUBMISSION_UNKNOWN"
        /\ \A g \in Flags \ {f} : sub'[g] = sub[g] /\ cand'[g] = cand[g]
    BY <2>1 DEF TypeOK
  <2>3. Mine(f)'  BY <1>1, <2>1, <2>2, MineStill
  <2>4. Own'  BY <1>1, <2>1, <2>2, <2>3, OwnStays DEF Leaves
  <2>5. QED  BY <2>1, <2>2, <2>4 DEF Final
<1>4. ASSUME NEW f \in Flags, DriveQueued(f)  PROVE Own' /\ Final
  <2>1. /\ sub[f] = "QUEUED" /\ SubmitNow(f, newest, "handler", timer) /\ UNCHANGED <<cand, sub>>
    BY <1>4 DEF DriveQueued, Rows
  <2>2. PICK last : last = newest  OBVIOUS
  <2>3. /\ SubmitNow(f, last, "handler", timer) /\ timer \subseteq Flags /\ f \notin timer
        /\ sub'[f] \in Waits /\ sub'[f] # "RATE_LIMITED"
    BY <1>1, <2>1, <2>2 DEF Waits
  <2>4. /\ Mine(f)'
        /\ \A g \in Flags \ {f} : /\ g \in timer' <=> g \in timer
                                  /\ \A c \in Call : c.flag = g => calls'[c] = calls[c]
    BY <1>1, <2>3, MineStarts
  <2>5. Own'  BY <1>1, <2>1, <2>4, OwnStays DEF Leaves
  <2>6. QED  BY <2>1, <2>5 DEF Final
<1>5. ASSUME NEW f \in Flags, SubmitPreserved(f)  PROVE Own' /\ Final
  <2>1. /\ CreateOrGet(f, "QUEUED") /\ timer' = timer \cup {f} /\ UNCHANGED calls
        /\ cand' = [cand EXCEPT ![f] = "VERIFIED"]
        /\ cand[f] \in {"VERIFIED", "PENDING"} /\ sub[f] \notin {"SENDING", "UNKNOWN", "QUEUED"}
    BY <1>5 DEF SubmitPreserved, Rows, Unsent
  <2>2. sub[f] = "NONE"
    <3>1. sub[f] \in SubmissionStatus  BY DEF TypeOK
    <3>2. QED  BY <2>1, <3>1 DEF Own, Mine, SubmissionStatus
  <2>3. sub'[f] = "QUEUED" /\ \A g \in Flags \ {f} : sub'[g] = sub[g] /\ cand'[g] = cand[g]
    BY <2>1, <2>2, CreateOrGetType DEF TypeOK
  <2>4. Mine(f)'
    <3>1. \A c \in Call : ~(calls'[c] > 0)  BY <1>1, <2>1
    <3>2. QED  BY <2>3, <3>1 DEF Mine, Waits
  <2>5. Own'  BY <1>1, <2>1, <2>3, <2>4, OwnStays DEF Leaves
  <2>6. QED  BY <2>2, <2>3, <2>5 DEF Final
<1>6. QED
  BY <1>2, <1>3, <1>4, <1>5
     DEF Recover, RecoverLife, RecoverSubmitting, HoldForReview, LeaveUnknown, NothingPending, rows

LEMMA OwnStep == Onlooking /\ BudgetInv /\ Own /\ [Next]_vars => Own' /\ Final
<1>1. SUFFICES ASSUME Onlooking, BudgetInv, Own, [Next]_vars PROVE Own' /\ Final  OBVIOUS
<1>2. TypeOK /\ AllFlags /\ DownIsEmpty  BY <1>1, BudgetPerFlag DEF AllFlags
<1>3. \A f \in todo : ~ReconsiderNext(f)  BY <1>1 DEF Own
<1>4. CASE Handlers
  <2>1. ~Reconsider /\ \A f \in Flags : ~Reject(f) /\ ~Accept(f) /\ ~ManualSubmit(f) /\ ~RetrySubmission(f)
    BY <1>1 DEF Onlooking, Reconsider, Reject, Accept, ManualSubmit, RetrySubmission
  <2>2. \A c \in Call : \A r \in Possible(c.flag) : ~CrashInAnswer(c, r)
    BY <1>1 DEF Onlooking, CrashInAnswer
  <2>3. CASE \/ Queue \/ Schedule \/ RuntimeUnavailable \/ WorkerGone \/ \E f \in Flags : CooldownEnds(f)
             \/ Pause \/ Resume \/ Park \/ Unpark \/ ResumeSolving
    <3>1. UNCHANGED <<todo, calls, timer, sub, cand>>
      BY <2>3 DEF Queue, Schedule, RuntimeUnavailable, WorkerGone, CooldownEnds, Pause, Resume, Park, Unpark,
         ResumeSolving, memory
    <3>2. QED  BY <1>1, <3>1, OwnQuiet
  <2>4. CASE \E f \in Flags : OnCandidate(f) \/ TimerFires(f)
    BY <1>1, <1>2, <2>4, OwnCandidate, OwnTimer
  <2>5. CASE Crash \/ \E f \in Flags : CrashInCandidate(f)
    BY <1>1, <1>2, <2>5, OwnCrash
  <2>6. CASE \E c \in Call : Send(c) \/ \E r \in Possible(c.flag) : Answer(c, r)
    BY <1>1, <1>2, <2>6, OwnSend, OwnAnswer
  <2>7. QED  BY <1>4, <2>1, <2>2, <2>3, <2>4, <2>5, <2>6 DEF Handlers, Human
<1>5. CASE Recover  BY <1>1, <1>2, <1>5, OwnRecover
<1>6. CASE UNCHANGED vars
  <2>1. UNCHANGED <<todo, calls, timer, sub, cand>>  BY <1>6 DEF vars
  <2>2. QED  BY <1>1, <2>1, OwnQuiet
<1>7. QED  BY <1>1, <1>3, <1>4, <1>5, <1>6 DEF Next

(* No timer, recovery or late call brings back a submission with an         *)
(* outcome, the unknown one included, though the human pauses, parks and    *)
(* resumes at any moment of it; what he accepts, rejects or retries, he     *)
(* decides himself.                                                         *)
THEOREM OutcomesAreFinal == ASSUME Onlooking PROVE Spec => OutcomeIsFinal
<1>1. BudgetInv /\ [Next]_vars => BudgetInv'  BY BudgetStep DEF Onlooking
<1>2. BudgetInv /\ Own /\ [Next]_vars => Own' /\ Final  BY OwnStep
<1>3. Init => Own
  <2>1. SUFFICES ASSUME Init PROVE Own  OBVIOUS
  <2>2. /\ \A f \in Flags : cand[f] = "NONE" /\ f \notin timer
        /\ todo = {} /\ \A c \in Call : ~(calls[c] > 0)
    BY <2>1 DEF Init
  <2>3. QED  BY <2>2 DEF Own, Mine
<1>4. BudgetInv /\ Own /\ [Next]_vars =>
        [\A f \in Flags : sub[f] \in {"UNKNOWN", "CORRECT", "WRONG"} => sub'[f] = sub[f]]_vars
  BY <1>2 DEF Final
<1>5. QED  BY <1>1, <1>2, <1>3, <1>4, BudgetInit, PTL DEF Spec, OutcomeIsFinal
=============================================================================
