-------------------------------- MODULE Docket --------------------------------
(***************************************************************************)
(* What the judge of a contest sees of a challenge that no human touches:  *)
(* one flag at a time, each flag until it has an outcome and never after,  *)
(* no flag after one was correct, none after localMaxWrong were wrong, and *)
(* none once a human has to look, which is never taken back. Candidates,   *)
(* timers, the rate limiter, the cooldown and the restarts of the process  *)
(* are left out.                                                           *)
(***************************************************************************)
EXTENDS Naturals, FiniteSets

CONSTANTS Flags, MaxWrong

VARIABLES
  asked,   \* the flags that are at the judge
  outcome, \* flag -> "open", or what came of it
  over,    \* the challenge is solved
  held     \* a human has to look

dvars == <<asked, outcome, over, held>>

Init ==
  /\ asked = {}
  /\ outcome = [f \in Flags |-> "open"]
  /\ over = FALSE
  /\ held = FALSE

Wrong == {f \in Flags : outcome[f] = "WRONG"}

Ask(f) ==
  /\ asked = {} /\ ~over /\ ~held
  /\ outcome[f] = "open"
  /\ Cardinality(Wrong) < MaxWrong
  /\ asked' = {f}
  /\ UNCHANGED <<outcome, over, held>>

(* "Too fast": the flag may be sent again. *)
Refuse(f) ==
  /\ f \in asked
  /\ asked' = {}
  /\ UNCHANGED <<outcome, over, held>>

(* The verdict; the last wrong flag that is allowed is for a human, and so  *)
(* may an outcome be that was lost.                                         *)
Decide(f, v) ==
  /\ f \in asked
  /\ asked' = {}
  /\ outcome' = [outcome EXCEPT ![f] = v]
  /\ over' = (v = "CORRECT")
  /\ held' \in {held, TRUE}
  /\ v = "CORRECT" => held' = held
  /\ v = "WRONG" => held' = (held \/ Cardinality(Wrong) + 1 = MaxWrong)

(* A restart finds an outcome that was lost. *)
Hold ==
  /\ \E f \in Flags : outcome[f] = "UNKNOWN"
  /\ held' = TRUE
  /\ UNCHANGED <<asked, outcome, over>>

Next ==
  \/ Hold
  \/ \E f \in Flags :
       \/ Ask(f) \/ Refuse(f)
       \/ \E v \in {"CORRECT", "WRONG", "UNKNOWN"} : Decide(f, v)

Spec == Init /\ [][Next]_dvars
===============================================================================
