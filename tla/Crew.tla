--------------------------------- MODULE Crew ---------------------------------
(***************************************************************************)
(* What the pool of workers promises to the control plane and to the       *)
(* human, leases, slots and handles aside: a challenge has one process at  *)
(* most, and there are no more than the configured solvers; who is set     *)
(* aside (paused, parked or solved) gets none, and in the very step that   *)
(* sets it aside its process is told to stop; that is never taken back,    *)
(* and a successor starts when the one before has gone.                    *)
(***************************************************************************)
EXTENDS Naturals, FiniteSets

CONSTANTS Challenges, Workers, Concurrency

VARIABLES
  works, \* challenge -> the processes that are there for it
  told,  \* the processes that were told to stop
  aside  \* the challenges nobody is to work on

cvars == <<works, told, aside>>

Init ==
  /\ works = [c \in Challenges |-> {}]
  /\ told = {}
  /\ aside = {}

Manned == {c \in Challenges : works[c] # {}}

(* A process that is nobody else's, in a free place. *)
Start(c, w) ==
  /\ c \notin aside
  /\ works[c] = {}
  /\ \A d \in Challenges : w \notin works[d]
  /\ Cardinality(Manned) < Concurrency
  /\ works' = [works EXCEPT ![c] = {w}]
  /\ UNCHANGED <<told, aside>>

(* The process is told to stop, be the challenge set aside or not. *)
Stop(c) ==
  /\ told' = told \cup works[c]
  /\ aside' \in {aside, aside \cup {c}}
  /\ UNCHANGED works

Back(c) ==
  /\ aside' = aside \ {c}
  /\ UNCHANGED <<works, told>>

Gone(c, w) ==
  /\ works[c] = {w}
  /\ works' = [works EXCEPT ![c] = {}]
  /\ told' = told \ {w}
  /\ UNCHANGED aside

Next ==
  \E c \in Challenges :
    \/ Stop(c) \/ Back(c)
    \/ \E w \in Workers : Start(c, w) \/ Gone(c, w)

Spec == Init /\ [][Next]_cvars
===============================================================================
