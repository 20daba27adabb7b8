-------------------------------- MODULE Replan --------------------------------
(***************************************************************************)
(* What the manager's coordinator promises to whoever asks for a new plan: *)
(* one planning run at a time; a request that comes while a run is under   *)
(* way is kept for a run of its own; and while the manager is on, no       *)
(* request waits forever.                                                  *)
(***************************************************************************)
VARIABLES
  wanted, \* a plan was asked for since the last run began
  busy,   \* a planning run is under way
  on      \* is the manager switched on?

pvars == <<wanted, busy, on>>

Init == wanted \in BOOLEAN /\ busy = FALSE /\ on \in BOOLEAN

Ask == wanted' = TRUE /\ UNCHANGED busy

(* A run begins, asked for before or by this very step. *)
Begin == ~busy /\ wanted' = FALSE /\ busy' = TRUE

(* A run that has nothing to plan, or may not plan, is over at once. *)
Dismiss == ~busy /\ wanted' = FALSE /\ UNCHANGED busy

End == busy /\ busy' = FALSE /\ UNCHANGED <<wanted, on>>

(* A restart forgets the run and wants a plan. *)
Restart == busy' = FALSE /\ wanted' = TRUE /\ UNCHANGED on

(* The switch may be thrown on its own or by what asks for the plan. *)
Next ==
  \/ (Ask \/ Begin \/ Dismiss \/ UNCHANGED <<wanted, busy>>) /\ on' \in BOOLEAN
  \/ End \/ Restart

Serve == on /\ wanted /\ (Begin \/ Dismiss) /\ on' \in BOOLEAN

Spec == Init /\ [][Next]_pvars

FairSpec == Spec /\ WF_pvars(End) /\ WF_pvars(Serve)
=============================================================================
