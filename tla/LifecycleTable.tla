--------------------------- MODULE LifecycleTable ---------------------------
(***************************************************************************)
(* The transition table of a challenge (the constant T of                  *)
(* apps/server/src/state-machine.ts): T[s][e] is the status that event e   *)
(* leads to from status s; an event missing from T[s] is refused and       *)
(* leaves the challenge where it is.                                       *)
(***************************************************************************)

T == [DISCOVERED |-> [PREPARE_START |-> "PREPARING",
                      UNSUPPORTED |-> "UNSUPPORTED",
                      PREPARE_FAILED |-> "ERROR"],
      PREPARING  |-> [PREPARE_DONE |-> "READY",
                      PREPARE_FAILED |-> "ERROR",
                      PREPARE_RETRY |-> "DISCOVERED",
                      UNSUPPORTED |-> "UNSUPPORTED",
                      RECOVER_PREPARING |-> "DISCOVERED"],
      READY      |-> [QUEUE |-> "QUEUED",
                      PAUSE |-> "PAUSED",
                      UNSUPPORTED |-> "UNSUPPORTED",
                      CANDIDATE_FOUND |-> "VERIFYING"],
      QUEUED     |-> [SCHEDULE |-> "ACTIVE",
                      PAUSE |-> "PAUSED",
                      PARK |-> "PARKED",
                      UNSUPPORTED |-> "UNSUPPORTED",
                      SOLVER_ERROR |-> "QUEUED",
                      CANDIDATE_FOUND |-> "VERIFYING"],
      ACTIVE     |-> [PAUSE |-> "PAUSED",
                      PARK |-> "PARKED",
                      CANDIDATE_FOUND |-> "VERIFYING",
                      SUBMIT_WRONG |-> "ACTIVE",
                      SOLVER_ERROR |-> "QUEUED",
                      SOLVER_STOPPED |-> "QUEUED",
                      RESTART_SOLVER |-> "QUEUED",
                      RECOVER_ACTIVE |-> "QUEUED"],
      VERIFYING  |-> [VERIFY_FAIL |-> "ACTIVE",
                      VERIFY_OK |-> "SUBMITTING",
                      PAUSE |-> "PAUSED",
                      SOLVER_ERROR |-> "QUEUED",
                      RECOVER_VERIFYING |-> "QUEUED"],
      SUBMITTING |-> [SUBMIT_CORRECT |-> "SOLVED",
                      SUBMIT_WRONG |-> "ACTIVE",
                      SUBMIT_RATE_LIMIT |-> "SUBMITTING",
                      PAUSE |-> "PAUSED",
                      RECOVER_SUBMITTING |-> "QUEUED"],
      PAUSED     |-> [RESUME |-> "QUEUED",
                      PARK |-> "PARKED"],
      PARKED     |-> [UNPARK |-> "QUEUED"],
      SOLVED     |-> [REOPEN |-> "QUEUED"],
      ERROR      |-> [RETRY_PREPARE |-> "DISCOVERED"]]

(* UNSUPPORTED has no row in T: nothing leaves it. *)
Status == DOMAIN T \cup {"UNSUPPORTED"}

Event == UNION {DOMAIN T[s] : s \in DOMAIN T}

Allowed(s, e) == s \in DOMAIN T /\ e \in DOMAIN T[s]

(* Mutant of Target: a failed challenge cannot be prepared again. *)
TargetWithoutRetry(s, e) == IF Allowed(s, e) /\ e # "RETRY_PREPARE" THEN T[s][e] ELSE s

(* The status after event e in status s, a refused event included. *)
Target(s, e) == IF Allowed(s, e) THEN T[s][e] ELSE s
=============================================================================
