------------------------------ MODULE MCManager ------------------------------
(* Instances of Manager for TLC. *)
EXTENDS Manager, TLC

CONSTANTS c1, c2

TwoChallenges == {c1, c2}
OnlyFirst     == {c1}

(* c1 was found first, c2 is worth more. *)
Scores     == (c1 :> 1) @@ (c2 :> 2)
FoundTimes == (c1 :> 1) @@ (c2 :> 2)

StartOrHold == {"START", "HOLD"}
AllActions  == {"START", "HOLD", "CONTINUE"}
AllModes    == {"OFF", "SHADOW", "ACTIVE"}
OnlyActive  == {"ACTIVE"}
OnOff       == {"OFF", "ACTIVE"}
=============================================================================
