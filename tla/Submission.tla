----------------------------- MODULE Submission -----------------------------
(***************************************************************************)
(* The submission of flags for one challenge: SubmissionManager            *)
(* (apps/server/src/control/submission.ts), the human operations of the    *)
(* control plane that touch the same rows, the part of the scheduler that  *)
(* moves the challenge, and RecoveryManager after a crash.                 *)
(*                                                                         *)
(* A candidate and a submission row are both unique per challenge and flag *)
(* value, so each is a function of the flag. The process is a single       *)
(* JavaScript thread: a handler runs without interruption up to its next   *)
(* await, and that stretch is one action. #submitNow awaits twice, for the *)
(* rate limiter and for the judge; a call suspended there is counted in    *)
(* calls.                                                                  *)
(***************************************************************************)
EXTENDS Integers, FiniteSets, LifecycleTable

CONSTANTS
  Flags,          \* flag values (normalised by trim)
  NoFlag,         \* "no submission row yet"
  Good,           \* the flags the judge accepts
  Strong,         \* the flags found with confidence >= confidenceThreshold
  Judged,         \* hasOfficialJudge: CTFd and mock, not URL and idle
  AutoSubmit,     \* config submission.autoSubmit
  MaxWrong,       \* config submission.localMaxWrong
  Operator,       \* the operations the human uses in this instance
  Retryable,      \* submission statuses the human asks to retry
  TornAnswers,    \* can the process die between two writes of an answer?
  MaxCredit,      \* bound: attempts granted and not yet used, per flag
  MaxInFlight     \* bound: #submitNow calls of one flag at the same time

Operations == {"pause", "park", "reject", "accept", "retry", "resumeSolving",
               "manualSubmit", "reconsider"}

CandidateStatus == {"NONE", "PENDING", "VERIFIED", "REJECTED_LOCAL", "SUBMITTED",
                    "SUBMISSION_UNKNOWN", "CORRECT", "WRONG"}

SubmissionStatus == {"NONE", "QUEUED", "SENDING", "RATE_LIMITED", "UNKNOWN", "CORRECT", "WRONG"}

Blocks == {"none", "MANUAL_REVIEW_REQUIRED", "SUBMISSION_OUTCOME_UNKNOWN",
           "MODEL_RUNTIME_UNAVAILABLE"}

Lifecycles == {"READY", "QUEUED", "ACTIVE", "VERIFYING", "SUBMITTING", "PAUSED", "PARKED", "SOLVED"}

(* A suspended #submitNow: which flag, whether it waits for the limiter or  *)
(* for the judge, and whether the loop of reconsiderRejectedLocal awaits it *)
(* or some handler that ends with it.                                       *)
Call == [flag : Flags, stage : {"limiter", "judge"}, caller : {"loop", "handler"}]

ASSUME FlagsAssumption ==
  /\ IsFiniteSet(Flags)
  /\ NoFlag \notin Flags
  /\ Good \subseteq Flags
  /\ Strong \subseteq Flags

ASSUME ConfigAssumption ==
  /\ Judged \in BOOLEAN
  /\ AutoSubmit \in BOOLEAN
  /\ TornAnswers \in BOOLEAN
  /\ MaxWrong \in Nat \ {0}
  /\ MaxCredit \in Nat \ {0}
  /\ MaxInFlight \in Nat \ {0}
  /\ Operator \subseteq Operations
  /\ Retryable \subseteq SubmissionStatus \ {"NONE"}

VARIABLES
  \* rows of the database: they survive a crash
  life,      \* challenges.lifecycle_status
  blocked,   \* challenges.blocked_reason
  cand,      \* flag -> status of its candidate
  sub,       \* flag -> status of its submission
  newest,    \* the flag whose submission row was created last (lastByChallenge)
  cooling,   \* flags submitted less than defaultCooldownMs ago
  \* memory of the process
  up,        \* the process runs and has recovered
  calls,     \* Call -> how many such calls are suspended
  timer,     \* flags with an armed retry timer (retryTimers)
  todo,      \* candidates reconsiderRejectedLocal has still to look at
  todoAuto,  \* what it read about MANUAL_REVIEW_REQUIRED when it began
  \* history
  credit     \* attempts at the judge a flag has been granted and not yet used

rows   == <<life, blocked, cand, sub, newest, cooling>>
memory == <<up, calls, timer, todo, todoAuto>>
vars   == <<life, blocked, cand, sub, newest, cooling, up, calls, timer, todo, todoAuto, credit>>

CountWrong(s) == Cardinality({f \in Flags : s[f] = "WRONG"})

CallsOf(f) == {c \in Call : c.flag = f /\ calls[c] > 0}
Idle(f)    == CallsOf(f) = {} /\ f \notin timer

(* Room for one more #submitNow of f, and for one more attempt: bounds.     *)
RoomFor(f) ==
  /\ credit[f] < MaxCredit
  /\ \A c \in Call : c.flag = f => calls[c] < MaxInFlight

(* createOrGet: the row of (challenge, flag hash) is created at most once.  *)
CreateOrGet(f, status) ==
  /\ sub' = IF sub[f] = "NONE" THEN [sub EXCEPT ![f] = status] ELSE sub
  /\ newest' = IF sub[f] = "NONE" THEN f ELSE newest

(* #submitNow up to its first await, for the flag whose row was created     *)
(* last being `last`: either the cooldown of that row defers it to a retry  *)
(* timer, or it starts to wait for a token of the SUBMIT bucket.            *)
SubmitNow(f, last, caller, timers) ==
  IF last # f /\ last \in cooling
  THEN timer' = timers \cup {f} /\ calls' = calls
  ELSE /\ timer' = timers
       /\ calls' = [calls EXCEPT ![[flag |-> f, stage |-> "limiter", caller |-> caller]] = @ + 1]

(* Mutant of SubmitCandidate: a refused VERIFY_OK is not looked at. *)
SubmitCandidateUnchecked(f, s, caller) ==
  /\ CreateOrGet(f, "QUEUED")
  /\ life' = Target(s, "VERIFY_OK")
  /\ SubmitNow(f, newest', caller, timer)

(* submitCandidate from status s; refused transitions leave a QUEUED row    *)
(* behind and nothing that drives it.                                       *)
SubmitCandidate(f, s, caller) ==
  /\ CreateOrGet(f, "QUEUED")
  /\ life' = Target(s, "VERIFY_OK")
  /\ IF Allowed(s, "VERIFY_OK")
     THEN SubmitNow(f, newest', caller, timer)
     ELSE UNCHANGED <<calls, timer>>

WillAutoSubmit(f, notDisabled) == AutoSubmit /\ f \in Strong /\ notDisabled

Init ==
  /\ life = "READY"
  /\ blocked = "none"
  /\ cand = [f \in Flags |-> "NONE"]
  /\ sub = [f \in Flags |-> "NONE"]
  /\ newest = NoFlag
  /\ cooling = {}
  /\ up = TRUE
  /\ calls = [c \in Call |-> 0]
  /\ timer = {}
  /\ todo = {}
  /\ todoAuto = FALSE
  /\ credit = [f \in Flags |-> 1]
-----------------------------------------------------------------------------
(* Scheduling.                                                             *)

(* schedulerTick: READY is queued at once, a QUEUED challenge gets a solver *)
(* unless it waits for manual review.                                       *)
Queue ==
  /\ life = "READY"
  /\ life' = Target(life, "QUEUE")
  /\ UNCHANGED <<blocked, cand, sub, newest, cooling, memory, credit>>

Schedule ==
  /\ life = "QUEUED"
  /\ blocked # "MANUAL_REVIEW_REQUIRED"
  /\ life' = Target(life, "SCHEDULE")
  /\ UNCHANGED <<blocked, cand, sub, newest, cooling, memory, credit>>

(* The same tick when no model can be used. *)
RuntimeUnavailable ==
  /\ life = "QUEUED"
  /\ blocked # "MANUAL_REVIEW_REQUIRED"
  /\ blocked' = "MODEL_RUNTIME_UNAVAILABLE"
  /\ UNCHANGED <<life, cand, sub, newest, cooling, memory, credit>>

(* The worker exits, is lost, or fails to start (RECOVER_ACTIVE and         *)
(* SOLVER_ERROR lead to the same status).                                   *)
WorkerGone ==
  /\ life = "ACTIVE"
  /\ life' = Target(life, "RECOVER_ACTIVE")
  /\ UNCHANGED <<blocked, cand, sub, newest, cooling, memory, credit>>

(* submittedAt + defaultCooldownMs passes. *)
CooldownEnds(f) ==
  /\ f \in cooling
  /\ cooling' = cooling \ {f}
  /\ UNCHANGED <<life, blocked, cand, sub, newest, memory, credit>>
-----------------------------------------------------------------------------
(* Candidates.                                                             *)

(* onCandidate for a value not seen before: from a worker, at any moment of *)
(* its life, from the dashboard or from a visual review. verifyLocal reads  *)
(* texts that change, so its verdict is open.                               *)
RejectLocally(f) ==
  /\ life # "SOLVED"
  /\ cand[f] = "NONE"
  /\ cand' = [cand EXCEPT ![f] = "REJECTED_LOCAL"]
  /\ UNCHANGED <<life, blocked, sub, newest, cooling, memory, credit>>

HoldForHuman(f) ==
  /\ life # "SOLVED"
  /\ cand[f] = "NONE"
  /\ ~Judged \/ ~WillAutoSubmit(f, blocked # "MANUAL_REVIEW_REQUIRED")
  /\ cand' = [cand EXCEPT ![f] = IF Judged THEN "PENDING" ELSE "VERIFIED"]
  /\ UNCHANGED <<life, blocked, sub, newest, cooling, memory, credit>>

(* Mutant of AutoSubmitCandidate: hasOfficialJudge is not consulted. *)
AutoSubmitWithoutJudge(f) ==
  /\ life # "SOLVED"
  /\ cand[f] = "NONE"
  /\ WillAutoSubmit(f, blocked # "MANUAL_REVIEW_REQUIRED")
  /\ cand' = [cand EXCEPT ![f] = "VERIFIED"]
  /\ SubmitCandidate(f, Target(life, "CANDIDATE_FOUND"), "handler")
  /\ UNCHANGED <<blocked, cooling, up, todo, todoAuto, credit>>

AutoSubmitCandidate(f) ==
  /\ life # "SOLVED"
  /\ cand[f] = "NONE"
  /\ Judged
  /\ WillAutoSubmit(f, blocked # "MANUAL_REVIEW_REQUIRED")
  /\ cand' = [cand EXCEPT ![f] = "VERIFIED"]
  /\ SubmitCandidate(f, Target(life, "CANDIDATE_FOUND"), "handler")
  /\ UNCHANGED <<blocked, cooling, up, todo, todoAuto, credit>>

OnCandidate(f) == RejectLocally(f) \/ HoldForHuman(f) \/ AutoSubmitCandidate(f)

(* reconsiderRejectedLocal takes its list, and what it knows about the      *)
(* block, once; one such loop at a time (bound).                            *)
Reconsider ==
  /\ "reconsider" \in Operator
  /\ life # "SOLVED"
  /\ todo = {}
  /\ \A c \in Call : c.caller = "loop" => calls[c] = 0
  /\ todo' = {f \in Flags : cand[f] = "REJECTED_LOCAL"}
  /\ todo' # {}
  /\ todoAuto' = (blocked # "MANUAL_REVIEW_REQUIRED")
  /\ UNCHANGED <<rows, up, calls, timer, credit>>

(* The loop stands between two candidates, not at an await. *)
LoopRuns == todo # {} /\ \A c \in Call : c.caller = "loop" => calls[c] = 0

(* One turn of the loop. It writes the candidate without looking at what    *)
(* became of it since the list was taken.                                   *)
ReconsiderNext(f) ==
  /\ f \in todo
  /\ todo' = todo \ {f}
  /\ \/ UNCHANGED <<life, cand, sub, newest, calls, timer>>  \* verifyLocal refuses again
     \/ /\ ~WillAutoSubmit(f, todoAuto)
        /\ cand' = [cand EXCEPT ![f] = "PENDING"]
        /\ UNCHANGED <<life, sub, newest, calls, timer>>
     \/ /\ WillAutoSubmit(f, todoAuto)
        /\ cand' = [cand EXCEPT ![f] = "VERIFIED"]
        /\ IF life # "SOLVED" /\ Allowed(life, "CANDIDATE_FOUND")
           THEN SubmitCandidate(f, Target(life, "CANDIDATE_FOUND"), "loop")
           ELSE UNCHANGED <<life, sub, newest, calls, timer>>
  /\ UNCHANGED <<blocked, cooling, up, todoAuto, credit>>
-----------------------------------------------------------------------------
(* Talking to the judge.                                                   *)

(* The limiter hands out a token: the row becomes SENDING and the request   *)
(* leaves. Nothing is read again after the wait. The bound on credit only   *)
(* matters where attempts are overdrawn, with TornAnswers.                  *)
Send(c) ==
  /\ c.stage = "limiter"
  /\ calls[c] > 0
  /\ credit[c.flag] > -MaxCredit
  /\ calls[[c EXCEPT !.stage = "judge"]] < MaxInFlight
  /\ calls' = [calls EXCEPT ![c] = @ - 1, ![[c EXCEPT !.stage = "judge"]] = @ + 1]
  /\ sub' = [sub EXCEPT ![c.flag] = "SENDING"]
  /\ credit' = [credit EXCEPT ![c.flag] = @ - 1]
  /\ UNCHANGED <<life, blocked, cand, newest, cooling, up, timer, todo, todoAuto>>

(* What the rest of #submitNow can be told. UNKNOWN stands for a timeout, a *)
(* transport error and an answer that is no verdict; REVIEW for an adapter  *)
(* that has nothing to compare the flag with.                               *)
Possible(f) == {IF f \in Good THEN "CORRECT" ELSE "WRONG", "RATE_LIMITED", "UNKNOWN", "REVIEW"}

Verdict(r) == IF r = "UNKNOWN" /\ ~Judged THEN "REVIEW" ELSE r

SubmissionAfter(v) == IF v = "REVIEW" THEN "UNKNOWN" ELSE v

CandidateAfter(v) ==
  CASE v = "RATE_LIMITED" -> "SUBMITTED"
    [] v = "UNKNOWN"      -> "SUBMISSION_UNKNOWN"
    [] v = "REVIEW"       -> "VERIFIED"
    [] OTHER              -> v

LifeAfter(v) ==
  CASE v = "CORRECT"             -> Target(life, "SUBMIT_CORRECT")
    [] v \in {"WRONG", "REVIEW"} -> Target(life, "SUBMIT_WRONG")
    [] OTHER                     -> life

(* Mutants of BlockedAfter: one wrong flag too many; UNKNOWN does not block. *)
BlockedOneLate(v, s) ==
  CASE v = "WRONG" /\ CountWrong(s) > MaxWrong -> "MANUAL_REVIEW_REQUIRED"
    [] v = "UNKNOWN"                           -> "SUBMISSION_OUTCOME_UNKNOWN"
    [] OTHER                                   -> blocked

BlockedByWrongOnly(v, s) ==
  IF v = "WRONG" /\ CountWrong(s) >= MaxWrong THEN "MANUAL_REVIEW_REQUIRED" ELSE blocked

BlockedAfter(v, s) ==
  CASE v = "WRONG" /\ CountWrong(s) >= MaxWrong -> "MANUAL_REVIEW_REQUIRED"
    [] v = "UNKNOWN"                            -> "SUBMISSION_OUTCOME_UNKNOWN"
    [] OTHER                                    -> blocked

(* #submitNow from the judge's answer to its end. *)
Answer(c, r) ==
  LET f == c.flag
      v == Verdict(r)
  IN /\ c.stage = "judge"
     /\ calls[c] > 0
     /\ r \in Possible(f)
     /\ calls' = [calls EXCEPT ![c] = @ - 1]
     /\ sub' = [sub EXCEPT ![f] = SubmissionAfter(v)]
     /\ cooling' = cooling \cup {f}
     /\ cand' = [cand EXCEPT ![f] = CandidateAfter(v)]
     /\ life' = LifeAfter(v)
     /\ blocked' = BlockedAfter(v, sub')
     /\ IF v = "RATE_LIMITED"
        THEN /\ credit[f] < MaxCredit
             /\ timer' = timer \cup {f}
             /\ credit' = [credit EXCEPT ![f] = @ + 1]
        ELSE UNCHANGED <<timer, credit>>
     /\ UNCHANGED <<newest, up, todo, todoAuto>>

(* Mutant of TimerFires: only a QUEUED row is retried. *)
TimerFiresIfQueued(f) ==
  /\ f \in timer
  /\ IF life = "SUBMITTING" /\ sub[f] = "QUEUED"
     THEN SubmitNow(f, newest, "handler", timer \ {f})
     ELSE timer' = timer \ {f} /\ calls' = calls
  /\ UNCHANGED <<rows, up, todo, todoAuto, credit>>

(* The callback of scheduleRetry. *)
TimerFires(f) ==
  /\ f \in timer
  /\ IF life = "SUBMITTING" /\ sub[f] # "UNKNOWN"
     THEN SubmitNow(f, newest, "handler", timer \ {f})
     ELSE timer' = timer \ {f} /\ calls' = calls
  /\ UNCHANGED <<rows, up, todo, todoAuto, credit>>
-----------------------------------------------------------------------------
(* The human.                                                              *)

Pause ==
  /\ "pause" \in Operator
  /\ Allowed(life, "PAUSE")
  /\ life' = Target(life, "PAUSE")
  /\ UNCHANGED <<blocked, cand, sub, newest, cooling, memory, credit>>

Resume ==
  /\ "pause" \in Operator
  /\ Allowed(life, "RESUME")
  /\ life' = Target(life, "RESUME")
  /\ UNCHANGED <<blocked, cand, sub, newest, cooling, memory, credit>>

Park ==
  /\ "park" \in Operator
  /\ Allowed(life, "PARK")
  /\ life' = Target(life, "PARK")
  /\ UNCHANGED <<blocked, cand, sub, newest, cooling, memory, credit>>

Unpark ==
  /\ "park" \in Operator
  /\ Allowed(life, "UNPARK")
  /\ life' = Target(life, "UNPARK")
  /\ UNCHANGED <<blocked, cand, sub, newest, cooling, memory, credit>>

(* rejectCandidate: the status a rejection leaves, then the requeue when no *)
(* worker takes the feedback.                                               *)
AfterReject ==
  CASE life = "SOLVED"     -> Target(life, "REOPEN")
    [] life = "SUBMITTING" -> Target(life, "SUBMIT_WRONG")
    [] life = "VERIFYING"  -> Target(life, "VERIFY_FAIL")
    [] life = "PAUSED"     -> Target(life, "RESUME")
    [] OTHER               -> life

Reject(f) ==
  /\ "reject" \in Operator
  /\ cand[f] # "NONE"
  /\ IF cand[f] = "WRONG"
     THEN UNCHANGED <<cand, sub, newest, cooling>>
     ELSE /\ cand' = [cand EXCEPT ![f] = "WRONG"]
          /\ sub' = [sub EXCEPT ![f] = "WRONG"]
          /\ newest' = IF sub[f] = "NONE" THEN f ELSE newest
          /\ cooling' = IF sub[f] \in {"NONE", "WRONG"} THEN cooling ELSE cooling \cup {f}
  /\ \E injected \in BOOLEAN :
       life' = IF injected THEN AfterReject ELSE Target(AfterReject, "SOLVER_STOPPED")
  /\ UNCHANGED <<blocked, memory, credit>>

(* acceptCandidate: acceptIntoSolved drives every status of Lifecycles to   *)
(* SOLVED.                                                                  *)
Accept(f) ==
  /\ "accept" \in Operator
  /\ cand[f] # "NONE"
  /\ life' = "SOLVED"
  /\ cand' = [cand EXCEPT ![f] = "CORRECT"]
  /\ sub' = [sub EXCEPT ![f] = "CORRECT"]
  /\ newest' = IF sub[f] = "NONE" THEN f ELSE newest
  /\ cooling' = IF sub[f] \in {"NONE", "CORRECT"} THEN cooling ELSE cooling \cup {f}
  /\ UNCHANGED <<blocked, memory, credit>>

(* manualSubmit goes on to submitCandidate whether or not CANDIDATE_FOUND   *)
(* was allowed.                                                             *)
ManualSubmit(f) ==
  /\ "manualSubmit" \in Operator
  /\ RoomFor(f)
  /\ cand[f] \notin {"NONE", "SUBMITTED", "CORRECT", "WRONG"}
  /\ cand' = [cand EXCEPT ![f] = "VERIFIED"]
  /\ SubmitCandidate(f, Target(life, "CANDIDATE_FOUND"), "handler")
  /\ credit' = [credit EXCEPT ![f] = @ + 1]
  /\ UNCHANGED <<blocked, cooling, up, todo, todoAuto>>

(* retrySubmission; the code takes any row, Retryable says which ones the   *)
(* human picks.                                                             *)
RetrySubmission(f) ==
  /\ "retry" \in Operator
  /\ RoomFor(f)
  /\ sub[f] \in Retryable
  /\ blocked' = "none"
  /\ life' = IF Allowed(life, "CANDIDATE_FOUND") THEN "SUBMITTING" ELSE life
  /\ sub' = [sub EXCEPT ![f] = "QUEUED"]
  /\ SubmitNow(f, newest, "handler", timer)
  /\ credit' = [credit EXCEPT ![f] = @ + 1]
  /\ UNCHANGED <<cand, newest, cooling, up, todo, todoAuto>>

(* resumeSolvingAfterUnknown. *)
ResumeSolving ==
  /\ "resumeSolving" \in Operator
  /\ blocked' = "none"
  /\ life' = IF Allowed(life, "RECOVER_SUBMITTING")
             THEN Target(life, "RECOVER_SUBMITTING")
             ELSE Target(life, "SUBMIT_WRONG")
  /\ UNCHANGED <<cand, sub, newest, cooling, memory, credit>>

Human ==
  \/ Pause \/ Resume \/ Park \/ Unpark \/ ResumeSolving \/ Reconsider
  \/ \E f \in Flags : Reject(f) \/ Accept(f) \/ ManualSubmit(f) \/ RetrySubmission(f)
-----------------------------------------------------------------------------
(* Crash and restart.                                                      *)

Die ==
  /\ up' = FALSE
  /\ calls' = [c \in Call |-> 0]
  /\ timer' = {}
  /\ todo' = {}
  /\ todoAuto' = FALSE
  /\ UNCHANGED credit

(* At an await, or between two handlers. *)
Crash == Die /\ UNCHANGED rows

(* Inside onCandidate, after n more of its writes: candidate created,       *)
(* VERIFIED, CANDIDATE_FOUND, submission row.                               *)
CrashInCandidate(f) ==
  /\ life # "SOLVED"
  /\ cand[f] = "NONE"
  /\ \E n \in 0..3 :
       /\ n > 0 => Judged /\ WillAutoSubmit(f, blocked # "MANUAL_REVIEW_REQUIRED")
       /\ n > 1 => Allowed(life, "CANDIDATE_FOUND")
       /\ cand' = [cand EXCEPT ![f] = IF n = 0 THEN "PENDING" ELSE "VERIFIED"]
       /\ life' = IF n > 1 THEN Target(life, "CANDIDATE_FOUND") ELSE life
       /\ IF n = 3 THEN CreateOrGet(f, "QUEUED") ELSE UNCHANGED <<sub, newest>>
  /\ Die
  /\ UNCHANGED <<blocked, cooling>>

(* Inside #submitNow, after the first n writes of an answer: submission,    *)
(* candidate, transition (the block comes last).                            *)
CrashInAnswer(c, r) ==
  /\ TornAnswers
  /\ c.stage = "judge"
  /\ calls[c] > 0
  /\ r \in Possible(c.flag)
  /\ \E n \in 1..3 :
       /\ sub' = [sub EXCEPT ![c.flag] = SubmissionAfter(Verdict(r))]
       /\ cand' = IF n > 1 THEN [cand EXCEPT ![c.flag] = CandidateAfter(Verdict(r))] ELSE cand
       /\ life' = IF n > 2 THEN LifeAfter(Verdict(r)) ELSE life
  /\ cooling' = cooling \cup {c.flag}
  /\ Die
  /\ UNCHANGED <<blocked, newest>>

Rows(s)   == {f \in Flags : sub[f] = s}
Unsent    == {f \in Flags : cand[f] \in {"VERIFIED", "PENDING"}}

(* recoverSubmitting from status s; find() takes the oldest row, rows of    *)
(* one millisecond in either order.                                         *)
HoldForReview ==
  /\ ~Judged
  /\ life' = Target("SUBMITTING", "SUBMIT_WRONG")
  /\ UNCHANGED <<blocked, cand, sub, newest, cooling, calls, timer>>

MarkInterrupted(f) ==
  /\ Judged
  /\ f \in Rows("SENDING")
  /\ sub' = [sub EXCEPT ![f] = "UNKNOWN"]
  /\ cand' = [cand EXCEPT ![f] = "SUBMISSION_UNKNOWN"]
  /\ blocked' = "SUBMISSION_OUTCOME_UNKNOWN"
  /\ cooling' \in {cooling, cooling \cup {f}}  \* an older submittedAt is kept
  /\ life' = "SUBMITTING"
  /\ UNCHANGED <<newest, calls, timer>>

(* Mutant of LeaveUnknown: the unknown submission is driven again. *)
DriveUnknown ==
  /\ Judged
  /\ \E f \in Rows("UNKNOWN") : SubmitNow(f, newest, "handler", timer)
  /\ life' = "SUBMITTING"
  /\ UNCHANGED <<blocked, cand, sub, newest, cooling>>

LeaveUnknown ==
  /\ Judged
  /\ Rows("SENDING") = {} /\ Rows("UNKNOWN") # {}
  /\ blocked' = "SUBMISSION_OUTCOME_UNKNOWN"
  /\ life' = "SUBMITTING"
  /\ UNCHANGED <<cand, sub, newest, cooling, calls, timer>>

(* Mutant of DriveQueued: an interrupted submission is driven too. *)
DriveInterrupted(f) ==
  /\ Judged
  /\ f \in Rows("QUEUED") \cup Rows("SENDING")
  /\ SubmitNow(f, newest, "handler", timer)
  /\ life' = "SUBMITTING"
  /\ UNCHANGED <<blocked, cand, sub, newest, cooling>>

DriveQueued(f) ==
  /\ Judged
  /\ Rows("SENDING") = {} /\ Rows("UNKNOWN") = {}
  /\ f \in Rows("QUEUED")
  /\ SubmitNow(f, newest, "handler", timer)
  /\ life' = "SUBMITTING"
  /\ UNCHANGED <<blocked, cand, sub, newest, cooling>>

SubmitPreserved(f) ==
  /\ Judged
  /\ Rows("SENDING") = {} /\ Rows("UNKNOWN") = {} /\ Rows("QUEUED") = {}
  /\ f \in Unsent
  /\ cand' = [cand EXCEPT ![f] = "VERIFIED"]
  /\ CreateOrGet(f, "QUEUED")
  /\ timer' = timer \cup {f}
  /\ life' = "SUBMITTING"
  /\ UNCHANGED <<blocked, cooling, calls>>

NothingPending ==
  /\ Judged
  /\ Rows("SENDING") = {} /\ Rows("UNKNOWN") = {} /\ Rows("QUEUED") = {} /\ Unsent = {}
  /\ life' = Target("SUBMITTING", "RECOVER_SUBMITTING")
  /\ UNCHANGED <<blocked, cand, sub, newest, cooling, calls, timer>>

RecoverSubmitting ==
  \/ HoldForReview
  \/ LeaveUnknown
  \/ NothingPending
  \/ \E f \in Flags : MarkInterrupted(f) \/ DriveQueued(f) \/ SubmitPreserved(f)

(* RecoveryManager.start for this challenge. *)
RecoverLife ==
  \/ /\ life = "ACTIVE"
     /\ life' = Target(life, "RECOVER_ACTIVE")
     /\ UNCHANGED <<blocked, cand, sub, newest, cooling, calls, timer>>
  \/ /\ life = "VERIFYING"
     /\ \A f \in Flags : cand[f] # "VERIFIED"
     /\ life' = Target(life, "RECOVER_VERIFYING")
     /\ UNCHANGED <<blocked, cand, sub, newest, cooling, calls, timer>>
  \/ /\ life = "VERIFYING"
     /\ \E f \in Flags : cand[f] = "VERIFIED"
     /\ RecoverSubmitting
  \/ /\ life = "SUBMITTING"
     /\ RecoverSubmitting
  \/ /\ life \notin {"ACTIVE", "VERIFYING", "SUBMITTING"}
     /\ UNCHANGED <<rows, calls, timer>>

Recover ==
  /\ ~up
  /\ up' = TRUE
  /\ RecoverLife
  /\ UNCHANGED <<todo, todoAuto, credit>>
-----------------------------------------------------------------------------
(* The event loop of a running process; a loop that does not stand at an    *)
(* await runs before anything else.                                         *)
Handlers ==
  \/ Queue \/ Schedule \/ RuntimeUnavailable \/ WorkerGone
  \/ Human
  \/ Crash
  \/ \E f \in Flags : CooldownEnds(f) \/ OnCandidate(f) \/ TimerFires(f) \/ CrashInCandidate(f)
  \/ \E c \in Call : Send(c) \/ \E r \in Possible(c.flag) : Answer(c, r) \/ CrashInAnswer(c, r)

Next ==
  \/ up /\ LoopRuns /\ \E f \in todo : ReconsiderNext(f)
  \/ up /\ ~LoopRuns /\ Handlers
  \/ Recover

Spec == Init /\ [][Next]_vars
-----------------------------------------------------------------------------
(* Properties.                                                             *)

TypeOK ==
  /\ life \in Lifecycles
  /\ blocked \in Blocks
  /\ cand \in [Flags -> CandidateStatus]
  /\ sub \in [Flags -> SubmissionStatus]
  /\ newest \in Flags \cup {NoFlag}
  /\ cooling \subseteq Flags
  /\ up \in BOOLEAN
  /\ calls \in [Call -> Nat]
  /\ timer \subseteq Flags
  /\ todo \subseteq Flags
  /\ todoAuto \in BOOLEAN
  /\ credit \in [Flags -> Int]

Limiter(f, caller) == calls[[flag |-> f, stage |-> "limiter", caller |-> caller]]

(* What may still send f without anybody asking again: calls waiting for    *)
(* the limiter, the retry timer, the reconsideration loop.                  *)
Pending(f) ==
  Limiter(f, "loop") + Limiter(f, "handler")
    + (IF f \in timer THEN 1 ELSE 0) + (IF f \in todo THEN 1 ELSE 0)

(* f can still be picked up although nothing is pending: by onCandidate, by *)
(* reconsiderRejectedLocal, or by recovery from its row or its candidate.   *)
Dormant(f) ==
  \/ sub[f] \in {"NONE", "QUEUED"}
  \/ cand[f] \in {"PENDING", "VERIFIED"} /\ sub[f] \notin {"SENDING", "UNKNOWN"}

CreditCovers ==
  \A f \in Flags : Pending(f) <= credit[f] /\ (Dormant(f) => 1 <= credit[f])

(* A flag that onCandidate or reconsiderRejectedLocal may still submit for  *)
(* the first time has no row and nothing under way.                         *)
FreshIsUntouched ==
  \A f \in Flags :
    cand[f] \in {"NONE", "REJECTED_LOCAL"} =>
      /\ sub[f] = "NONE"
      /\ f \notin timer
      /\ \A c \in Call : c.flag = f => calls[c] = 0
      /\ cand[f] = "NONE" => f \notin todo

(* A process that is down holds nothing in memory. *)
DownIsEmpty ==
  ~up => /\ timer = {}
         /\ todo = {}
         /\ \A c \in Call : calls[c] = 0

(* The inductive invariant behind SendBudget: what may still send a flag is *)
(* covered by attempts it has left, through every handler, crash and        *)
(* recovery.                                                                *)
BudgetInv == TypeOK /\ CreditCovers /\ FreshIsUntouched /\ DownIsEmpty

(* No blind resubmission. A flag is granted one attempt when it is first    *)
(* seen, one for each time the judge refuses it as rate limited, and one    *)
(* for each time the human submits or retries it; over any interleaving of  *)
(* timers, the limiter, reconsideration, crashes and recovery the process   *)
(* never sends a flag more often than that.                                 *)
SendBudget == \A f \in Flags : credit[f] >= 0

(* A SUBMITTING challenge is never orphaned: scheduleRetry, #submitNow or   *)
(* the human is always still going to move it, because a call is in flight, *)
(* a timer that will act is armed, or it is shown as blocked on an unknown  *)
(* outcome.                                                                 *)
Driven(f) == CallsOf(f) # {} \/ (f \in timer /\ sub[f] # "UNKNOWN")

SubmittingIsDriven ==
  up /\ life = "SUBMITTING" =>
    blocked = "SUBMISSION_OUTCOME_UNKNOWN" \/ \E f \in Flags : Driven(f)

(* When the dashboard shows the panel "outcome unknown", from which the     *)
(* human retries the submission or resumes solving.                         *)
PanelShown ==
  \/ blocked = "SUBMISSION_OUTCOME_UNKNOWN"
  \/ \E f \in Flags : sub[f] \in {"UNKNOWN", "SENDING"} \/ cand[f] = "SUBMISSION_UNKNOWN"

(* Nor does the human orphan it silently. manualSubmit and retrySubmission  *)
(* can clear the block, or defer a row to a timer that will not act because *)
(* the row is UNKNOWN; but then the panel still offers a way out.           *)
NothingHangsUnseen ==
  up /\ life = "SUBMITTING" => PanelShown \/ \E f \in Flags : Driven(f)

(* What a run without any human operation guarantees.                      *)

(* There is one attempt under way at a time and the challenge shows it: a   *)
(* suspended #submitNow or an armed timer means SUBMITTING, so no answer    *)
(* can find the challenge in a status that refuses it.                      *)
SingleDriver ==
  /\ \A c, d \in Call : calls[c] > 0 /\ calls[d] > 0 => c = d /\ calls[c] = 1
  /\ \A f, g \in Flags : ~Idle(f) /\ ~Idle(g) => f = g
  /\ \A f \in Flags : ~Idle(f) => life = "SUBMITTING" /\ (f \in timer => CallsOf(f) = {})

(* README, "CORRECT -> SOLVED": once a flag is known to be correct the      *)
(* challenge is solved.                                                     *)
CorrectIsSolved == \A f \in Flags : sub[f] = "CORRECT" => life = "SOLVED"

(* The judge is not asked for more than localMaxWrong wrong flags, and once *)
(* it has rejected that many the challenge is held for review and nothing   *)
(* of it is under way (AUTO_SUBMIT_DISABLED).                               *)
WrongCap ==
  /\ CountWrong(sub) <= MaxWrong
  /\ CountWrong(sub) = MaxWrong =>
       /\ blocked = "MANUAL_REVIEW_REQUIRED"
       /\ life \notin {"VERIFYING", "SUBMITTING"}
       /\ \A f \in Flags : Idle(f)

(* An outcome, the unknown one included, is final: no timer, recovery or    *)
(* late call brings the submission back (the same flag is never sent again, *)
(* an UNKNOWN submission never automatically).                              *)
OutcomeIsFinal ==
  [][\A f \in Flags : sub[f] \in {"UNKNOWN", "CORRECT", "WRONG"} => sub'[f] = sub[f]]_vars

(* What the judge sees of these rows while no human intervenes is a docket: *)
(* one flag at a time, none twice after an outcome, none after a correct    *)
(* one or after the last wrong one, none past a block; through the rate     *)
(* limiter, retries, crashes and recovery.                                  *)
Asked == {f \in Flags : sub[f] = "SENDING"}

Outcome ==
  [f \in Flags |-> IF sub[f] \in {"CORRECT", "WRONG", "UNKNOWN"} THEN sub[f] ELSE "open"]

HeldForHuman == blocked \in {"MANUAL_REVIEW_REQUIRED", "SUBMISSION_OUTCOME_UNKNOWN"}

Judge == INSTANCE Docket
           WITH asked <- Asked, outcome <- Outcome, over <- (life = "SOLVED"), held <- HeldForHuman

DocketSpec == Judge!Spec

(* Without a judge nothing leaves the process on its own account: the       *)
(* attempt every flag starts with is never used, and no outcome blocks the  *)
(* challenge.                                                               *)
NoJudgeNoAutoSend == ~Judged => \A f \in Flags : credit[f] >= 1
NoJudgeNoBlock    == ~Judged => blocked # "SUBMISSION_OUTCOME_UNKNOWN"

(* What documents and comments say and some instance refutes.              *)

(* "UNKNOWN must not auto-retry": a row leaves UNKNOWN for SENDING only by  *)
(* way of QUEUED, that is by retrySubmission.                               *)
UnknownNotResent ==
  [][\A f \in Flags : sub[f] = "UNKNOWN" => sub'[f] # "SENDING"]_vars

(* A row that waits to be sent has something that sends it, unless the      *)
(* challenge is SUBMITTING another one, the human stopped it or it is over. *)
NoStrandedRow ==
  \A f \in Flags :
    up /\ sub[f] = "QUEUED" /\ life \in {"QUEUED", "ACTIVE"} => ~Idle(f)
-----------------------------------------------------------------------------
(* Liveness. A token is refilled, a request is answered or times out, a     *)
(* timer fires, time passes, a restarted process recovers; and the judge    *)
(* does not answer every attempt with "rate limited".                       *)
Step(A) == up /\ ~LoopRuns /\ A

Decided(c) == \E r \in Possible(c.flag) \ {"RATE_LIMITED"} : Answer(c, r)

Fairness ==
  /\ WF_vars(Recover)
  /\ WF_vars(up /\ LoopRuns /\ \E f \in todo : ReconsiderNext(f))
  /\ \A f \in Flags : WF_vars(Step(TimerFires(f))) /\ WF_vars(Step(CooldownEnds(f)))
  /\ \A c \in Call : WF_vars(Step(Send(c))) /\ SF_vars(Step(Decided(c)))

FairSpec == Spec /\ Fairness

(* If the process does not crash forever, a SUBMITTING challenge moves on   *)
(* or asks for the human: a submission never hangs.                         *)
SubmittingResolves ==
  <>[]up => (life = "SUBMITTING" ~> life # "SUBMITTING" \/ blocked = "SUBMISSION_OUTCOME_UNKNOWN")

(* Whatever the human does and wherever the process dies between handlers,  *)
(* a flag is sent no more often than attempts were granted for it: by       *)
(* #submitNow's callers, by the retry timers and by the recovery together.  *)
BudgetKept == TypeOK /\ BudgetInv /\ SendBudget

(* While no human intervenes, exactly one call, timer or loop is behind a   *)
(* SUBMITTING challenge, crashes included, and so the CORRECT of its answer *)
(* always finds it SUBMITTING and solves it; after the last wrong flag that *)
(* is allowed it is held for review and there is none.                      *)
DrivenOnce == SingleDriver /\ SubmittingIsDriven /\ CorrectIsSolved /\ WrongCap

(* Without an official judge (hasOfficialJudge) nothing leaves the process  *)
(* by itself, and no outcome blocks the challenge.                          *)
OnlyTheHumanActs == NoJudgeNoAutoSend /\ NoJudgeNoBlock
=============================================================================
