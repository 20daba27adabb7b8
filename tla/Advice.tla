-------------------------------- MODULE Advice --------------------------------
(***************************************************************************)
(* What reaches a solver besides its own work: the reviews of              *)
(* ReflectionExecutor (reflection/reflection-service.ts) and the official  *)
(* hints of HintManager (hints.ts), for one challenge, and how they get to *)
(* its worker: injected while it runs, or with the message it starts with. *)
(*                                                                         *)
(* A step of the control plane runs up to its next await. What makes two   *)
(* moments look alike to the reflections (the fingerprint: progress,       *)
(* experiments, wrong flags, hypotheses, number of hints) is a counter.    *)
(***************************************************************************)
EXTENDS Integers, FiniteSets

CONSTANTS
  MaxReviews,  \* rows of reflection_runs besides the skipped ones (bound)
  MaxNews,     \* steps of the solver that change the fingerprint (bound)
  Room,        \* config reflection.maxConcurrent
  Modes,       \* OFF, HEURISTIC, LLM, HYBRID: the modes considered
  Ticks,       \* the hint ticks that may run at a time (bound)
  Scenes,      \* which of the two is switched on
  Policies,    \* config hint: fetched "never" (autoFetch off), if "stalled" (the default), or "always"
  Faults,      \* "llm", "contest", "crash", "start"
  MaxFaults    \* bound on their number

ASSUME AdviceAssumption ==
  /\ MaxReviews \in Nat \ {0} /\ MaxNews \in Nat /\ Room \in Nat \ {0}
  /\ Modes \subseteq {"OFF", "HEURISTIC", "LLM", "HYBRID"}
  /\ IsFiniteSet(Ticks) /\ "human" \notin Ticks
  /\ Scenes \subseteq {"reviews", "hints"}
  /\ Policies \subseteq {"never", "stalled", "always"}
  /\ Faults \subseteq {"llm", "contest", "crash", "start"}
  /\ MaxFaults \in Nat

VARIABLES
  scene,   \* are reflections switched on, or the fetching of hints?
  mode,    \* resolveReflectionMode, which the human may override
  worker,  \* no worker, one without a session yet, one that listens
  mail,    \* the reviews in the message the starting worker got
  told,    \* review -> how often it was injected, or put into the message of a start
  heard,   \* the reviews in the conversation of the solver
  news,    \* what the fingerprint sees
  review,  \* reflection_runs, in the order of creation
  newest,  \* the latest row: a review, or 0 for a skipped one
  cooling, \* is the latest row completed, and that less than cooldownMs ago?
  slots,   \* ReflectionSemaphore.used
  others,  \* the slots the other challenges hold
  hint,    \* challenges.hint_status
  stored,  \* is there a row in hints?
  eligible,\* eligibleAfterStartMs have passed
  backoff, \* is there a hintRetry whose time has not come?
  policy,  \* when a hint is fetched without the human
  silent,  \* has there been no meaningful progress for stallThresholdMs?
  marked,  \* is challenges.progress_status STALLED?
  fetch,   \* the hint ticks and the human: where each stands, what it read
  faults, crashes

reviewVars == <<mode, mail, told, heard, news, review, newest, cooling, slots, others>>
stallVars  == <<policy, silent, marked>>
hintVars   == <<hint, stored, eligible, backoff, fetch, stallVars>>
vars       == <<scene, worker, reviewVars, hintVars, faults, crashes>>

Reviews == 1..MaxReviews

Fetchers == Ticks \cup {"human"}

NoReview == [status |-> "NONE", print |-> 0, delivered |-> FALSE, parses |-> TRUE]

ReviewStatus == {"NONE", "PENDING", "RUNNING", "COMPLETED", "FALLBACK", "FAILED", "SKIPPED"}

HintStatus == {"LOCKED", "ELIGIBLE", "FETCHING", "FETCHED", "DECLINED"}

Away == [at |-> "no", seen |-> "LOCKED", slack |-> FALSE]

Init ==
  /\ scene \in Scenes
  /\ mode \in Modes
  /\ worker = "none" /\ mail = {}
  /\ told = [r \in Reviews |-> 0] /\ heard = {}
  /\ news = 0
  /\ review = [r \in Reviews |-> NoReview] /\ newest = 0 /\ cooling = FALSE
  /\ slots = 0 /\ others = 0
  /\ hint = "LOCKED" /\ stored = FALSE /\ eligible = FALSE /\ backoff = FALSE
  /\ fetch = [f \in Fetchers |-> Away]
  /\ policy \in (IF scene = "hints" THEN Policies ELSE {"never"}) /\ silent = FALSE /\ marked = FALSE
  /\ faults = 0 /\ crashes = 0

Fault(kind) == kind \in Faults /\ faults < MaxFaults /\ faults' = faults + 1

Used == {r \in Reviews : review[r].status # "NONE"}

(* The row the next review gets. *)
Fresh == Cardinality(Used) + 1
-----------------------------------------------------------------------------
(* The worker.                                                             *)

(* A review that is there and nobody was told of. *)
Open(r) == review[r].status \in {"COMPLETED", "FALLBACK"} /\ ~review[r].delivered

(* pendingMessage: latestCompletedUndelivered, the latest one only, and     *)
(* nothing if its stored result does not parse.                             *)
Pending ==
  LET open == {r \in Used : Open(r)}
  IN {r \in open : review[r].parses /\ \A s \in open : s <= r}

(* Mutant of Posted: markDelivered for every open review, though only the   *)
(* latest is in the message.                                                *)
PostedAll ==
  review' = [r \in Reviews |-> IF review[r].status \in {"COMPLETED", "FALLBACK"}
                               THEN [review[r] EXCEPT !.delivered = TRUE] ELSE review[r]]

(* markDelivered, when the message for a start is built. *)
Posted == review' = [r \in Reviews |-> IF r \in Pending THEN [review[r] EXCEPT !.delivered = TRUE] ELSE review[r]]

Told(rs) == told' = [r \in Reviews |-> IF r \in rs THEN told[r] + 1 ELSE told[r]]

(* #startSolver up to the await of startWorker: the message is built, by    *)
(* #kickoff or #resumeMessage, and the worker forked, if there is a runtime *)
(* for it: without one #agentRuntime throws, with the review marked.        *)
(* (Both messages hold the stored hints.)                                   *)
StartWorker ==
  /\ worker = "none"
  /\ Told(Pending) /\ Posted
  /\ \/ worker' = "opening" /\ mail' = Pending /\ UNCHANGED faults
     \/ Fault("start") /\ UNCHANGED <<worker, mail>>
  /\ UNCHANGED <<scene, mode, heard, news, newest, cooling, slots, others, hintVars, crashes>>

(* The worker has its session; with Pi, after the first prompt. *)
SessionOpens ==
  /\ worker = "opening"
  /\ worker' = "listening"
  /\ heard' = heard \cup mail /\ mail' = {}
  /\ UNCHANGED <<scene, mode, told, news, review, newest, cooling, slots, others, hintVars, faults, crashes>>

(* The worker fails before it has a session; or it goes later, as it does   *)
(* whenever it is stopped, handed over or fails.                            *)
WorkerGoes ==
  /\ worker # "none"
  /\ IF worker = "opening" THEN Fault("start") ELSE UNCHANGED faults
  /\ worker' = "none" /\ mail' = {}
  /\ UNCHANGED <<scene, mode, told, heard, news, review, newest, cooling, slots, others, hintVars, crashes>>

(* Something happens to the solver's state that reflections look at. *)
Progress ==
  /\ worker = "listening" /\ news < MaxNews /\ scene = "reviews"
  /\ news' = news + 1
  /\ UNCHANGED <<scene, worker, mode, mail, told, heard, review, newest, cooling, slots, others, hintVars,
                 faults, crashes>>

(* WorkerPool.inject succeeds for every worker that is there. The worker    *)
(* drops the message while it has no session.                               *)
Injected == worker # "none"

Hears(r) == heard' = IF worker = "listening" THEN heard \cup {r} ELSE heard
-----------------------------------------------------------------------------
(* Reflections.                                                            *)

(* Mutant of Duplicate: only a finished review counts. *)
DuplicateOfFinished(print) ==
  \E r \in Used : review[r].print = print /\ review[r].status \in {"COMPLETED", "FALLBACK"}

(* findByFingerprint: is there a review of this state that is not failed    *)
(* or skipped?                                                              *)
Duplicate(print) ==
  \E r \in Used : review[r].print = print /\ review[r].status \in {"COMPLETED", "FALLBACK", "RUNNING", "PENDING"}

(* An auto reflection gets past the switches and the material check, which  *)
(* may say no at any time; not past the duplicate and the cooldown.         *)
MayReflect(auto, bypass) ==
  /\ scene = "reviews"
  /\ auto => mode # "OFF" /\ (cooling => bypass)

(* A duplicate is recorded as a skipped run, which starts the cooldown.     *)
SkipDuplicate ==
  /\ scene = "reviews" /\ Duplicate(news)
  /\ newest' = 0 /\ cooling' = TRUE
  /\ UNCHANGED <<scene, worker, mode, mail, told, heard, news, review, slots, others, hintVars, faults, crashes>>

(* Review r is there: it is injected, and delivered if that was possible.   *)
(* What is stored has been checked against llmReflectionResultSchema if it  *)
(* is the model's. The heuristic's is not, and does not parse if the hints  *)
(* it repeats in one step are longer than a step may be.                    *)
Complete(r, status, parses) ==
  /\ review' = [review EXCEPT ![r] = [status |-> status, print |-> IF @.status = "NONE" THEN news ELSE @.print,
                                      delivered |-> Injected, parses |-> parses]]
  /\ Told(IF Injected THEN {r} ELSE {})
  /\ Hears(r)

Row(r, status) ==
  review' = [review EXCEPT ![r] = [status |-> status, print |-> news, delivered |-> FALSE, parses |-> TRUE]]

(* run with source "auto" (with a trigger that bypasses the cooldown or     *)
(* not) or "manual", for a state nobody has reviewed. "OFF", which only the *)
(* human gets past, counts as HEURISTIC. Without a slot an automatic run is *)
(* skipped and a manual one waits.                                          *)
Reflect(auto, bypass) ==
  /\ MayReflect(auto, bypass)
  /\ ~Duplicate(news) /\ Fresh \in Reviews
  /\ newest' = Fresh
  /\ IF mode \in {"OFF", "HEURISTIC"}
     THEN (\E parses \in BOOLEAN : Complete(Fresh, "COMPLETED", parses)) /\ cooling' = TRUE /\ UNCHANGED slots
     ELSE /\ UNCHANGED <<told, heard>>
          /\ IF slots < Room
             THEN Row(Fresh, "RUNNING") /\ slots' = slots + 1 /\ cooling' = FALSE
             ELSE Row(Fresh, IF auto THEN "SKIPPED" ELSE "PENDING") /\ cooling' = auto /\ UNCHANGED slots
  /\ UNCHANGED <<scene, worker, mode, mail, news, others, hintVars, faults, crashes>>

(* A manual run looks for a slot every 25 ms, and gives up after 5 s.       *)
GetSlot(r) ==
  /\ review[r].status = "PENDING" /\ slots < Room
  /\ review' = [review EXCEPT ![r].status = "RUNNING"] /\ slots' = slots + 1
  /\ UNCHANGED <<scene, worker, mode, mail, told, heard, news, newest, cooling, others, hintVars, faults, crashes>>

GiveUp(r) ==
  /\ review[r].status = "PENDING" /\ slots >= Room
  /\ review' = [review EXCEPT ![r].status = "SKIPPED"]
  /\ cooling' = (cooling \/ newest = r)
  /\ UNCHANGED <<scene, worker, mode, mail, told, heard, news, newest, slots, others, hintVars, faults, crashes>>

(* Mutant of ReleaseSlot: only a call that succeeds gives its slot back. *)
ReleaseIfDone(r) == slots' = IF review'[r].status = "COMPLETED" THEN slots - 1 ELSE slots

(* The finally of run. *)
ReleaseSlot(r) == slots' = slots - 1

(* The model answers, or the call fails: HYBRID falls back to the           *)
(* heuristic. Which of the two modes the run had is not kept here.          *)
ReviewEnds(r) ==
  /\ review[r].status = "RUNNING"
  /\ \/ Complete(r, "COMPLETED", TRUE) /\ UNCHANGED faults
     \/ Fault("llm") /\ \E parses \in BOOLEAN : Complete(r, "FALLBACK", parses)
     \/ /\ Fault("llm")
        /\ review' = [review EXCEPT ![r].status = "FAILED"]
        /\ UNCHANGED <<told, heard>>
  /\ ReleaseSlot(r)
  /\ cooling' = (cooling \/ newest = r)
  /\ UNCHANGED <<scene, worker, mode, mail, news, newest, others, hintVars, crashes>>

Cools ==
  /\ cooling /\ cooling' = FALSE
  /\ UNCHANGED <<scene, worker, mode, mail, told, heard, news, review, newest, slots, others, hintVars, faults, crashes>>

(* The other challenges use the same slots. *)
Elsewhere ==
  /\ scene = "reviews"
  /\ \/ slots < Room /\ others' = others + 1 /\ slots' = slots + 1
     \/ others > 0 /\ others' = others - 1 /\ slots' = slots - 1
  /\ UNCHANGED <<scene, worker, mode, mail, told, heard, news, review, newest, cooling, hintVars, faults, crashes>>

SetReflectionMode ==
  /\ scene = "reviews"
  /\ mode' \in Modes \ {mode}
  /\ UNCHANGED <<scene, worker, mail, told, heard, news, review, newest, cooling, slots, others, hintVars, faults, crashes>>
-----------------------------------------------------------------------------
(* Hints.                                                                  *)

EligibleNow ==
  /\ scene = "hints" /\ ~eligible
  /\ eligible' = TRUE
  /\ UNCHANGED <<scene, worker, reviewVars, hint, stored, backoff, fetch, stallVars, faults, crashes>>

BackoffOver ==
  /\ backoff /\ backoff' = FALSE
  /\ UNCHANGED <<scene, worker, reviewVars, hint, stored, eligible, fetch, stallVars, faults, crashes>>

(* Time passes without progress (which only the policy "stalled" looks at). *)
Silence ==
  /\ policy = "stalled" /\ ~silent
  /\ silent' = TRUE
  /\ UNCHANGED <<scene, worker, reviewVars, hint, stored, eligible, backoff, fetch, policy, marked, faults, crashes>>

(* The solver reports progress, of any level, and whether it is stalled; or *)
(* the watchdog finds it idle and marks it (Silence is not undone by that). *)
Report ==
  /\ policy = "stalled" /\ worker = "listening"
  /\ marked' \in BOOLEAN /\ silent' \in BOOLEAN
  /\ UNCHANGED <<scene, worker, reviewVars, hint, stored, eligible, backoff, fetch, policy, faults, crashes>>

(* A tick reads the challenges and the time and goes through them; while it *)
(* waits for the hint of another one, it holds what it read of this one. If *)
(* it is too early, or there is nothing to fetch, it will leave this alone. *)
HintTick(t) ==
  /\ scene = "hints" /\ fetch[t] = Away
  /\ eligible /\ hint \in {"LOCKED", "ELIGIBLE"}
  /\ fetch' = [fetch EXCEPT ![t] = [at |-> "list", seen |-> hint, slack |-> marked]]
  /\ UNCHANGED <<scene, worker, reviewVars, hint, stored, eligible, backoff, stallVars, faults, crashes>>

(* fetchHint up to its await, with the status now in the row. *)
Fetch(f, now) ==
  IF now = "FETCHED" /\ stored
  THEN hint' = now /\ fetch' = [fetch EXCEPT ![f] = Away]
  ELSE hint' = "FETCHING" /\ fetch' = [fetch EXCEPT ![f] = [Away EXCEPT !.at = "call"]]

(* autoFetch, and isStalledForHint where requireStalled asks for it: the    *)
(* mark as the tick read it, the latest progress as it is.                  *)
Wanted(t) == policy = "always" \/ (policy = "stalled" /\ (fetch[t].slack \/ silent))

(* #tickOne: the challenge is as the tick read it, but for the row that     *)
(* fetchHint reads. That it is ACTIVE or VERIFYING is that it has a worker. *)
TickOne(t) ==
  /\ fetch[t].at = "list"
  /\ LET now == IF fetch[t].seen = "LOCKED" THEN "ELIGIBLE" ELSE hint
     IN IF worker = "none" \/ backoff \/ ~Wanted(t)
        THEN hint' = now /\ fetch' = [fetch EXCEPT ![t] = Away]
        ELSE Fetch(t, now)
  /\ UNCHANGED <<scene, worker, reviewVars, stored, eligible, backoff, stallVars, faults, crashes>>

(* forceHint of the human. *)
ForceHint ==
  /\ scene = "hints" /\ fetch["human"] = Away
  /\ Fetch("human", hint)
  /\ UNCHANGED <<scene, worker, reviewVars, stored, eligible, backoff, stallVars, faults, crashes>>

(* Mutant of Thrown: the exception of getHint is not caught. *)
ThrownOn == UNCHANGED <<hint, backoff>>

(* The catch around getHint. *)
Thrown == hint' = "ELIGIBLE" /\ backoff' = TRUE

(* The contest answers: with the hint, that there is none yet, that there   *)
(* will be none (DECLINED), or not at all.                                  *)
HintComes(f) ==
  /\ fetch[f].at = "call"
  /\ fetch' = [fetch EXCEPT ![f] = Away]
  /\ \/ /\ stored' = TRUE /\ hint' = "FETCHED" /\ backoff' = FALSE
        /\ UNCHANGED faults
     \/ Fault("contest") /\ hint' \in {"LOCKED", "DECLINED"} /\ UNCHANGED <<stored, backoff>>
     \/ Fault("contest") /\ Thrown /\ UNCHANGED stored
  /\ UNCHANGED <<scene, worker, reviewVars, eligible, stallVars, crashes>>
-----------------------------------------------------------------------------
(* The process dies and comes back: the rows stay, running reviews are      *)
(* failed (failRunning), and the retry times are forgotten.                 *)
Restart ==
  /\ Fault("crash") /\ crashes' = crashes + 1
  /\ worker' = "none" /\ mail' = {}
  /\ review' = [r \in Reviews |-> IF review[r].status \in {"PENDING", "RUNNING"}
                                  THEN [review[r] EXCEPT !.status = "FAILED"] ELSE review[r]]
  /\ cooling' = (cooling \/ (newest # 0 /\ review[newest].status \in {"PENDING", "RUNNING"}))
  /\ slots' = 0 /\ others' = 0
  /\ backoff' = FALSE /\ fetch' = [f \in Fetchers |-> Away]
  /\ UNCHANGED <<scene, mode, told, heard, news, newest, hint, stored, eligible, stallVars>>

Next ==
  \/ StartWorker \/ SessionOpens \/ WorkerGoes \/ Progress
  \/ SkipDuplicate
  \/ \E auto, bypass \in BOOLEAN : Reflect(auto, bypass)
  \/ \E r \in Reviews : GetSlot(r) \/ GiveUp(r) \/ ReviewEnds(r)
  \/ Cools \/ Elsewhere \/ SetReflectionMode
  \/ EligibleNow \/ BackoffOver \/ Silence \/ Report
  \/ \E t \in Ticks : HintTick(t) \/ TickOne(t)
  \/ ForceHint \/ \E f \in Fetchers : HintComes(f)
  \/ Restart

Spec == Init /\ [][Next]_vars

(* The scheduler starts a worker again, time passes, calls end (they have   *)
(* timeouts), and the hint timer fires.                                     *)
Fairness ==
  /\ WF_vars(StartWorker) /\ WF_vars(SessionOpens)
  /\ WF_vars(EligibleNow) /\ WF_vars(BackoffOver)
  /\ \A t \in Ticks : WF_vars(HintTick(t)) /\ WF_vars(TickOne(t))
  /\ \A f \in Fetchers : WF_vars(HintComes(f))
  /\ \A r \in Reviews : WF_vars(ReviewEnds(r)) /\ WF_vars(GetSlot(r) \/ GiveUp(r))

FairSpec == Spec /\ Fairness
-----------------------------------------------------------------------------
TypeOK ==
  /\ scene \in Scenes /\ mode \in Modes
  /\ worker \in {"none", "opening", "listening"}
  /\ mail \subseteq Reviews /\ heard \subseteq Reviews
  /\ told \in [Reviews -> Nat] /\ news \in 0..MaxNews
  /\ review \in [Reviews -> [status : ReviewStatus, print : 0..MaxNews, delivered : BOOLEAN, parses : BOOLEAN]]
  /\ newest \in 0..MaxReviews /\ cooling \in BOOLEAN
  /\ slots \in 0..Room /\ others \in 0..Room
  /\ hint \in HintStatus /\ stored \in BOOLEAN
  /\ eligible \in BOOLEAN /\ backoff \in BOOLEAN
  /\ policy \in Policies \cup {"never"} /\ silent \in BOOLEAN /\ marked \in BOOLEAN
  /\ fetch \in [Fetchers -> [at : {"no", "list", "call"}, seen : HintStatus, slack : BOOLEAN]]
  /\ faults \in 0..MaxFaults /\ crashes \in 0..MaxFaults

(* A state of the solver is reviewed once, whoever asks and however long    *)
(* the first review takes; only a failed or skipped one is tried again.     *)
OncePerState ==
  \A r, s \in Used :
    /\ r # s /\ review[r].print = review[s].print
    => review[r].status \in {"FAILED", "SKIPPED"} \/ review[s].status \in {"FAILED", "SKIPPED"}

(* No slot is lost or given back twice, through failures, fallbacks, runs   *)
(* that gave up and restarts.                                               *)
SlotsBalance == slots = others + Cardinality({r \in Reviews : review[r].status = "RUNNING"})

(* No worker, and no later worker, is handed a review a second time.        *)
ToldOnce == \A r \in Reviews : told[r] <= 1

(* A review nobody could be told of is not forgotten: if the solver is      *)
(* started again and again, it is in the message of one of the starts, if   *)
(* neither it nor a later one that waits too is one that does not parse.    *)
ReviewsArrive ==
  \A r \in Reviews :
    []<><<StartWorker>>_vars =>
      (Open(r) ~> told[r] > 0 \/ \E s \in r..MaxReviews : Open(s) /\ ~review[s].parses)

(* "If the worker is not online, it is sent with the next start or resume"  *)
(* (README.md), of every review: not of one whose stored result does not    *)
(* parse, nor of those before it, which it hides at every start.            *)
EveryReviewArrives ==
  \A r \in Reviews : []<><<StartWorker>>_vars => (Open(r) ~> told[r] > 0)

(* The fetching of the hint is over: it is there or refused for good, or    *)
(* the process died (after which a fetch under way is not resumed), or      *)
(* nobody works on the challenge.                                           *)
HintSettled == stored \/ hint = "DECLINED" \/ crashes > 0 \/ worker = "none"

(* A challenge that is worked on gets its hint, whatever calls fail on the  *)
(* way and whoever else asks, if the hints are fetched at all: one whose    *)
(* solver makes no progress, or stays marked as stalled, where that is      *)
(* asked for, and else every one.                                           *)
HintArrives ==
  \A stuck \in {"silent", "marked"} :
    scene = "hints" ~>
      \/ HintSettled \/ policy = "never"
      \/ policy = "stalled" /\ IF stuck = "silent" THEN ~silent ELSE ~marked

(* "the result is injected into the same solver; if the worker is not       *)
(* online, it is sent at the next start or resume" (README.md): a review    *)
(* marked delivered is one the solver has, or is being started with.        *)
DeliveredIsHeard ==
  \A r \in Reviews : review[r].delivered => r \in heard \cup mail

(* The slots of the reviews are accounted for, and a review is told once,   *)
(* over all workers of the challenge.                                       *)
AdviceInv == TypeOK /\ SlotsBalance /\ ToldOnce
=============================================================================
