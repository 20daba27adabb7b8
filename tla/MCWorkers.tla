------------------------------ MODULE MCWorkers ------------------------------
(* Instances of Workers for TLC. *)
EXTENDS Workers, TLC

CONSTANTS c1, c2, c3, w1, w2, w3

OneChallenge    == {c1}
TwoChallenges   == {c1, c2}
ThreeChallenges == {c1, c2, c3}
TwoWorkers      == {w1, w2}
ThreeWorkers    == {w1, w2, w3}

AnyOperation    == {"pause", "park", "restart", "accept", "reject", "flag", "resumeSolving"}
SomeOperations  == {"pause", "park", "restart", "accept", "reject"}
NoOperation     == {}
OnlyPause       == {"pause"}

AnyFault        == {"crash", "slow", "lost", "handoff"}
OnlyCrash       == {"crash"}
OnlyLost        == {"lost"}

Symmetric == Permutations(ThreeChallenges) \cup Permutations(ThreeWorkers)
=============================================================================
