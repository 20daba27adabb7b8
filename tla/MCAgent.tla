------------------------------- MODULE MCAgent --------------------------------
(* Bounded instance of Agent: two models of two providers. *)
EXTENDS Agent

CONSTANTS m1, m2, p1, p2

MCOrder == <<m1, m2>>
MCProviderOf == [m \in {m1, m2} |-> IF m = m1 THEN p1 ELSE p2]
MCName == [m \in {m1, m2} |-> m]
=============================================================================
