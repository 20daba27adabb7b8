------------------------------- MODULE MCIntake -------------------------------
(* Instances of Intake for TLC. *)
EXTENDS Intake

CONSTANTS c1, c2, r1, r2

OneChallenge  == {c1}
TwoChallenges == {c1, c2}
Second        == {c2}
OneReload     == {r1}
TwoReloads    == {r1, r2}
NoChallenge   == {}

AnyPolicy == {"ON_DISCOVERY", "ON_PREPARATION", "ON_SOLVER_ASSIGNMENT"}
ThePolicy == {"ON_SOLVER_ASSIGNMENT"}
AnyFault  == {"transient", "fatal", "short", "disk", "crash"}
NoFault   == {}
Both      == BOOLEAN

\* A mock contest, and two kinds of DASCTF or CTFd.
Mock     == [listsFiles |-> TRUE, change |-> {"size"}]
SameSize == [listsFiles |-> FALSE, change |-> {"url"}]
NewSize  == [listsFiles |-> FALSE, change |-> {"url", "size"}]
Any      == {Mock, SameSize, NewSize}
Never     == {FALSE}
PlaceOf   == [c \in Challenges |-> IF c = c1 THEN 0 ELSE 1]
=============================================================================
