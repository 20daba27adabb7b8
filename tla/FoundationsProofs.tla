-------------------------- MODULE FoundationsProofs --------------------------
(***************************************************************************)
(* Proofs about the parts without concurrency: Lifecycle, for any number   *)
(* of restarts, and the answers of Archives and Platforms, for all that    *)
(* can be asked (Probes).                                                  *)
(***************************************************************************)
EXTENDS Lifecycle, Probes, FiniteSetTheorems, WellFoundedInduction, TLAPS
-----------------------------------------------------------------------------
(* Lifecycle: what the transition table and the columns patched along with *)
(* it guarantee together.                                                  *)

(* The statuses in which no solver has a session. *)
WithoutSession == {"DISCOVERED", "PREPARING", "READY", "SOLVED", "ERROR"}

(* What the table says of one allowed event: it leads to a status; it       *)
(* pauses or parks where its name says so; a stopped challenge goes on only *)
(* by RESUME or UNPARK; SCHEDULE starts work; work ends only by             *)
(* SUBMIT_CORRECT.                                                          *)
TableFacts(s, e) ==
  /\ Target(s, e) \in Status
  /\ e = "PAUSE" => Target(s, e) = "PAUSED"
  /\ e = "PARK" => Target(s, e) = "PARKED"
  /\ e = "SCHEDULE" => Target(s, e) = "ACTIVE"
  /\ s \in {"PAUSED", "PARKED"} =>
       Target(s, e) \in {"PAUSED", "PARKED"} \/ e \in {"RESUME", "UNPARK"}
  /\ s \notin WithoutSession => Target(s, e) \notin WithoutSession \/ e = "SUBMIT_CORRECT"

LEMMA Table ==
  ASSUME NEW s, NEW e, Allowed(s, e)
  PROVE  TableFacts(s, e)
<1> USE DEF TableFacts, Target, Allowed, T, Status, WithoutSession
<1>1. CASE s = "DISCOVERED" BY <1>1
<1>2. CASE s = "PREPARING"  BY <1>2
<1>3. CASE s = "READY"      BY <1>3
<1>4. CASE s = "QUEUED"     BY <1>4
<1>5. CASE s = "ACTIVE"     BY <1>5
<1>6. CASE s = "VERIFYING"  BY <1>6
<1>7. CASE s = "SUBMITTING" BY <1>7
<1>8. CASE s = "PAUSED"     BY <1>8
<1>9. CASE s = "PARKED"     BY <1>9
<1>10. CASE s = "SOLVED"    BY <1>10
<1>11. CASE s = "ERROR"     BY <1>11
<1>12. s \in {"DISCOVERED", "PREPARING", "READY", "QUEUED", "ACTIVE", "VERIFYING",
              "SUBMITTING", "PAUSED", "PARKED", "SOLVED", "ERROR"}
  OBVIOUS
<1>13. QED
  BY <1>1, <1>2, <1>3, <1>4, <1>5, <1>6, <1>7, <1>8, <1>9, <1>10, <1>11, <1>12

LEMMA TransitionFacts ==
  ASSUME NEW e, Transition(e)
  PROVE  TableFacts(status, e) /\ status' = Target(status, e)
BY Table DEF Transition

(* The status a transition writes is always one of the table's, and the     *)
(* columns it patches keep their types.                                     *)
THEOREM LifecycleType == Spec => []TypeOK
<1>1. Init => TypeOK
  <2>1. "DISCOVERED" \in Status
    BY DEF Status, T
  <2>2. 0 \in 0..MaxRestarts
    BY MaxRestartsAssumption
  <2>3. QED BY <2>1, <2>2 DEF Init, TypeOK
<1>2. TypeOK /\ [Next]_vars => TypeOK'
  <2>1. ASSUME TypeOK, NEW e \in Event, Transition(e)
        PROVE  TypeOK'
    <3>1. status' \in Status
      BY <2>1, TransitionFacts DEF TableFacts
    <3>2. /\ session' \in BOOLEAN
          /\ solverStarted' \in BOOLEAN
          /\ pausedReason' \in BOOLEAN
          /\ parkedReason' \in BOOLEAN
      BY <2>1, Zenon DEF Transition
    <3>3. restarts' \in 0..MaxRestarts
      BY <2>1, MaxRestartsAssumption DEF Transition, TypeOK
    <3>4. QED BY <3>1, <3>2, <3>3 DEF TypeOK
  <2>2. CASE UNCHANGED vars
    BY <2>2 DEF vars, TypeOK
  <2>3. QED BY <2>1, <2>2 DEF Next
<1>3. QED BY <1>1, <1>2, PTL DEF Spec

(* A challenge that is neither paused nor parked carries no reason to be    *)
(* passed over by the scheduler, whatever way it took through PAUSED and    *)
(* PARKED.                                                                  *)
THEOREM ReasonsAreCleared == Spec => []NoStaleReason
<1>1. Init => NoStaleReason
  BY Zenon DEF Init, NoStaleReason
<1>2. NoStaleReason /\ [Next]_vars => NoStaleReason'
  <2>1. ASSUME NoStaleReason, NEW e \in Event, Transition(e)
        PROVE  NoStaleReason'
    <3>1. ASSUME status' \notin {"PAUSED", "PARKED"}
          PROVE  ~pausedReason' /\ ~parkedReason'
      <4>1. e \notin {"PAUSE", "PARK"}
        BY <2>1, <3>1, TransitionFacts DEF TableFacts
      <4>2. status \notin {"PAUSED", "PARKED"} \/ ClearsReasons(e)
        BY <2>1, <3>1, TransitionFacts DEF TableFacts, ClearsReasons
      <4>3. QED BY <2>1, <4>1, <4>2, Zenon DEF Transition, NoStaleReason
    <3>2. QED BY <3>1, Zenon DEF NoStaleReason
  <2>2. CASE UNCHANGED vars
    BY <2>2, Zenon DEF vars, NoStaleReason
  <2>3. QED BY <2>1, <2>2 DEF Next
<1>3. QED BY <1>1, <1>2, PTL DEF Spec

(* Only a challenge a solver was started for holds a session, and a solved  *)
(* or failed one never does.                                                *)
THEOREM SessionsFollowSolvers == Spec => []SessionFollowsSolver
<1>1. Init => SessionFollowsSolver
  BY Zenon DEF Init, SessionFollowsSolver
<1>2. SessionFollowsSolver /\ [Next]_vars => SessionFollowsSolver'
  <2>1. ASSUME SessionFollowsSolver, NEW e \in Event, Transition(e), session'
        PROVE  solverStarted' /\ status' \notin WithoutSession
    <3>1. e # "SUBMIT_CORRECT" /\ (session \/ e = "SCHEDULE")
      BY <2>1, Zenon DEF Transition, DropsSession
    <3>2. solverStarted'
      BY <2>1, <3>1, Zenon DEF Transition, SessionFollowsSolver
    <3>3. session => status \notin WithoutSession
      BY <2>1, Zenon DEF SessionFollowsSolver, WithoutSession
    <3>4. e = "SCHEDULE" \/ status \notin WithoutSession
      BY <3>1, <3>3
    <3>5. status' \notin WithoutSession
      BY <2>1, <3>1, <3>4, TransitionFacts DEF TableFacts, WithoutSession
    <3>6. QED BY <3>2, <3>5
  <2>2. CASE UNCHANGED vars
    BY <2>2, Zenon DEF vars, SessionFollowsSolver
  <2>3. QED BY <2>1, <2>2, Zenon DEF Next, SessionFollowsSolver, WithoutSession
<1>3. QED BY <1>1, <1>2, PTL DEF Spec

(* The columns of a challenge go with its status: they have their types, no *)
(* reason outlives its status, and a session goes with the solver.          *)
THEOREM ColumnsFollowTheStatus == Spec => []ColumnsFollow
BY LifecycleType, ReasonsAreCleared, SessionsFollowSolvers, PTL DEF ColumnsFollow
-----------------------------------------------------------------------------
(* One event of each status that is not the last leads nearer to SOLVED. *)
LEMMA LeadsOn ==
  /\ Target("SUBMITTING", "SUBMIT_CORRECT") = "SOLVED"
  /\ Target("VERIFYING", "VERIFY_OK") = "SUBMITTING"
  /\ Target("ACTIVE", "CANDIDATE_FOUND") = "VERIFYING"
  /\ Target("QUEUED", "SCHEDULE") = "ACTIVE"
  /\ Target("READY", "QUEUE") = "QUEUED"
  /\ Target("PAUSED", "RESUME") = "QUEUED"
  /\ Target("PARKED", "UNPARK") = "QUEUED"
  /\ Target("PREPARING", "PREPARE_DONE") = "READY"
  /\ Target("DISCOVERED", "PREPARE_START") = "PREPARING"
  /\ Target("ERROR", "RETRY_PREPARE") = "DISCOVERED"
BY DEF Target, Allowed, T

(* These are events of the table. *)
LEMMA Events ==
  {"SUBMIT_CORRECT", "VERIFY_OK", "CANDIDATE_FOUND", "SCHEDULE", "QUEUE", "RESUME", "UNPARK",
   "PREPARE_DONE", "PREPARE_START", "RETRY_PREPARE"} \subseteq Event
<1>1. /\ {"SUBMITTING", "VERIFYING", "ACTIVE", "QUEUED", "READY", "PAUSED", "PARKED", "PREPARING",
           "DISCOVERED", "ERROR"} \subseteq DOMAIN T
      /\ "SUBMIT_CORRECT" \in DOMAIN T["SUBMITTING"] /\ "VERIFY_OK" \in DOMAIN T["VERIFYING"]
      /\ "CANDIDATE_FOUND" \in DOMAIN T["ACTIVE"] /\ "SCHEDULE" \in DOMAIN T["QUEUED"]
      /\ "QUEUE" \in DOMAIN T["READY"] /\ "RESUME" \in DOMAIN T["PAUSED"]
      /\ "UNPARK" \in DOMAIN T["PARKED"] /\ "PREPARE_DONE" \in DOMAIN T["PREPARING"]
      /\ "PREPARE_START" \in DOMAIN T["DISCOVERED"] /\ "RETRY_PREPARE" \in DOMAIN T["ERROR"]
  BY DEF T
<1>2. \A s \in DOMAIN T : DOMAIN T[s] \subseteq Event  BY DEF Event
<1>3. QED  BY <1>1, <1>2

LEMMA OnlyUnsupportedIsDead == \A s \in Status : s # "UNSUPPORTED" => s \in NotDead
<1>1. SUFFICES ASSUME NEW s \in Status, s # "UNSUPPORTED", NEW S \in SUBSET Status, Closed(S)
               PROVE  s \in S
  BY DEF NotDead
<1>2. Status = {"DISCOVERED", "PREPARING", "READY", "QUEUED", "ACTIVE", "VERIFYING", "SUBMITTING",
                "PAUSED", "PARKED", "SOLVED", "ERROR", "UNSUPPORTED"}
  BY DEF Status, T
<1>3. ASSUME NEW r \in Status, NEW e \in Event, Target(r, e) \in S  PROVE r \in S
  BY <1>1, <1>3 DEF Closed
<1>4. "SOLVED" \in S  BY <1>1 DEF Closed
<1>5. "SUBMITTING" \in S  BY <1>2, <1>3, <1>4, LeadsOn, Events
<1>6. "VERIFYING" \in S  BY <1>2, <1>3, <1>5, LeadsOn, Events
<1>7. "ACTIVE" \in S  BY <1>2, <1>3, <1>6, LeadsOn, Events
<1>8. "QUEUED" \in S  BY <1>2, <1>3, <1>7, LeadsOn, Events
<1>9. "READY" \in S /\ "PAUSED" \in S /\ "PARKED" \in S  BY <1>2, <1>3, <1>8, LeadsOn, Events
<1>10. "PREPARING" \in S  BY <1>2, <1>3, <1>9, LeadsOn, Events
<1>11. "DISCOVERED" \in S  BY <1>2, <1>3, <1>10, LeadsOn, Events
<1>12. "ERROR" \in S  BY <1>2, <1>3, <1>11, LeadsOn, Events
<1>13. QED  BY <1>1, <1>2, <1>4, <1>5, <1>6, <1>7, <1>8, <1>9, <1>10, <1>11, <1>12

(* From every status a challenge reaches but UNSUPPORTED, some sequence of  *)
(* events of the table, however long, leads to SOLVED.                     *)
THEOREM NoDeadEnd == Spec => []CanStillBeSolved
<1>1. TypeOK => CanStillBeSolved  BY OnlyUnsupportedIsDead DEF TypeOK, CanStillBeSolved
<1>2. QED  BY <1>1, LifecycleType, PTL
-----------------------------------------------------------------------------
(* Induction, and what folds compute.                                      *)

(* A set of natural numbers has a least member. *)
LEMMA HasLeast ==
  ASSUME NEW S \in SUBSET Nat, S # {}
  PROVE  Min(S) \in S /\ \A y \in S : Min(S) <= y
<1> DEFINE Less == {ss \in Nat \X Nat : ss[1] < ss[2]}
<1>1. \E x \in S : \A y \in S : <<y, x>> \notin Less
  <2>1. IsWellFoundedOn(Less, Nat)  BY NatLessThanWellFounded, Zenon DEF OpToRel
  <2> HIDE DEF Less
  <2>2. QED  BY <2>1, WFMin, Zenon
<1>2. \A x, y \in S : <<y, x>> \in Less <=> y < x  OBVIOUS
<1> HIDE DEF Less
<1>3. PICK x \in S : \A y \in S : ~(y < x)  BY <1>1, <1>2, Zenon
<1>4. \A y \in S : x <= y  BY <1>3
<1>5. QED  BY <1>4 DEF Min

LEMMA Induction ==
  ASSUME NEW S \in SUBSET Nat, 0 \in S, \A n \in S : n + 1 \in S
  PROVE  S = Nat
<1> SUFFICES ASSUME Nat \ S # {} PROVE FALSE  OBVIOUS
<1>1. PICK m \in Nat \ S : \A k \in Nat \ S : m <= k  BY HasLeast
<1>2. m # 0 /\ m - 1 \in Nat /\ m - 1 \in S  BY <1>1
<1>3. QED  BY <1>1, <1>2

(* The last of the first n. *)
LEMMA LastOf ==
  ASSUME NEW n \in Nat
  PROVE  /\ Max(1..(n + 1)) = n + 1
         /\ (1..(n + 1)) \ {n + 1} = 1..n
<1>1. n + 1 \in 1..(n + 1) /\ \A y \in 1..(n + 1) : n + 1 >= y  OBVIOUS
<1>2. \A x \in 1..(n + 1) : (\A y \in 1..(n + 1) : x >= y) => x = n + 1  OBVIOUS
<1>3. QED  BY <1>1, <1>2 DEF Max

(* A fold with base and step G can be computed over the indices 1..n: there *)
(* is a function on sets of indices that takes the last one each time.      *)
CanFold(n, States, base, G) ==
  \E it \in [SUBSET (1..n) -> States] :
    \A s \in SUBSET (1..n) :
      it[s] = IF s = {} THEN base ELSE G[<<it[s \ {Max(s)}], Max(s)>>]

(* Every step that is a function can be folded.                             *)
LEMMA Recursion ==
  ASSUME NEW n \in Nat, NEW States, NEW base \in States, NEW G \in [States \X (1..n) -> States]
  PROVE  CanFold(n, States, base, G)
<1> DEFINE Computes(it, k) ==
             \A s \in SUBSET (1..k) : it[s] = IF s = {} THEN base ELSE G[<<it[s \ {Max(s)}], Max(s)>>]
           Done == {k \in Nat : k <= n => \E it \in [SUBSET (1..k) -> States] : Computes(it, k)}
<1>1. 0 \in Done
  <2>1. SUBSET (1..0) = {{}}  OBVIOUS
  <2>2. [s \in SUBSET (1..0) |-> base] \in [SUBSET (1..0) -> States]  OBVIOUS
  <2>3. Computes([s \in SUBSET (1..0) |-> base], 0)  BY <2>1
  <2> HIDE DEF Computes
  <2>4. QED  BY <2>2, <2>3
<1>2. ASSUME NEW k \in Done PROVE k + 1 \in Done
  <2> HIDE DEF Computes
  <2>1. SUFFICES k + 1 <= n => \E it \in [SUBSET (1..(k + 1)) -> States] : Computes(it, k + 1)
    <3>1. k + 1 \in Nat  OBVIOUS
    <3> HIDE DEF Computes
    <3>2. QED  BY <3>1
  <2> HAVE k + 1 <= n
  <2>2. PICK old \in [SUBSET (1..k) -> States] : Computes(old, k)
    <3>1. k <= n  OBVIOUS
    <3>2. QED  BY <3>1
  <2> DEFINE new == [s \in SUBSET (1..(k + 1)) |->
                       IF k + 1 \in s THEN G[<<old[s \ {k + 1}], k + 1>>] ELSE old[s]]
  <2>3. new \in [SUBSET (1..(k + 1)) -> States]
    <3>1. SUFFICES ASSUME NEW s \in SUBSET (1..(k + 1)) PROVE new[s] \in States  OBVIOUS
    <3>2. s \ {k + 1} \in SUBSET (1..k)  BY <3>1
    <3>3. k + 1 \in 1..n  OBVIOUS
    <3>4. QED  BY <3>1, <3>2, <3>3
  <2>4. ASSUME NEW s \in SUBSET (1..(k + 1))
        PROVE  new[s] = IF s = {} THEN base ELSE G[<<new[s \ {Max(s)}], Max(s)>>]
    <3>1. CASE k + 1 \in s
      <4>1. Max(s) = k + 1
        <5>1. \A y \in s : k + 1 >= y  OBVIOUS
        <5>2. \A x \in s : (\A y \in s : x >= y) => x = k + 1  BY <3>1
        <5>3. QED  BY <3>1, <5>1, <5>2 DEF Max
      <4>2. s \ {k + 1} \in SUBSET (1..(k + 1)) /\ k + 1 \notin s \ {k + 1}  OBVIOUS
      <4>3. new[s \ {k + 1}] = old[s \ {k + 1}]  BY <4>2
      <4>4. QED  BY <3>1, <4>1, <4>3
    <3>2. CASE k + 1 \notin s
      <4>1. s \in SUBSET (1..k)  BY <3>2
      <4>2. s \ {Max(s)} \in SUBSET (1..(k + 1)) /\ k + 1 \notin s \ {Max(s)}  BY <3>2
      <4>3. new[s] = old[s] /\ new[s \ {Max(s)}] = old[s \ {Max(s)}]  BY <3>2, <4>2
      <4>4. old[s] = IF s = {} THEN base ELSE G[<<old[s \ {Max(s)}], Max(s)>>]  BY <2>2, <4>1 DEF Computes
      <4>5. QED  BY <4>3, <4>4
    <3>3. QED  BY <3>1, <3>2
  <2>5. Computes(new, k + 1)
    <3> HIDE DEF new
    <3>1. QED  BY <2>4 DEF Computes
  <2> HIDE DEF new
  <2>6. QED  BY <2>3, <2>5
<1>3. Done = Nat
  <2>1. Done \in SUBSET Nat  OBVIOUS
  <2> HIDE DEF Done
  <2>2. QED  BY <1>1, <1>2, <2>1, Induction
<1>4. \E it \in [SUBSET (1..n) -> States] : Computes(it, n)
  <2> HIDE DEF Computes
  <2>1. n \in Done  BY <1>3, Zenon
  <2>2. n <= n  OBVIOUS
  <2>3. QED  BY <2>1, <2>2
<1>5. QED  BY <1>4 DEF CanFold

(* The least of two, and the greatest of some of the first n.               *)
LEMMA LeastOfTwo ==
  ASSUME NEW a \in Nat, NEW b \in Nat
  PROVE  Min({a, b}) = IF a <= b THEN a ELSE b
<1>1. Min({a, b}) \in {a, b} /\ Min({a, b}) <= a /\ Min({a, b}) <= b
  <2>1. {a, b} \in SUBSET Nat /\ {a, b} # {}  OBVIOUS
  <2>2. QED  BY <2>1, HasLeast
<1>2. QED  BY <1>1

LEMMA HasGreatest ==
  ASSUME NEW n \in Nat, NEW s \in SUBSET (1..n), s # {}
  PROVE  Max(s) \in s
<1> DEFINE above == {m \in Nat : \A y \in s : m >= y}
<1>1. above \in SUBSET Nat /\ n \in above  OBVIOUS
<1>2. Min(above) \in above /\ \A m \in above : Min(above) <= m
  <2> HIDE DEF above
  <2>1. QED  BY <1>1, HasLeast
<1> DEFINE x == Min(above)
<1>3. x \in Nat /\ \A y \in s : x >= y  BY <1>2
<1>4. x \in s
  <2>1. SUFFICES ASSUME x \notin s PROVE FALSE  OBVIOUS
  <2>2. PICK z \in s : TRUE  OBVIOUS
  <2>3. x - 1 \in Nat /\ \A y \in s : x - 1 >= y
    <3> HIDE DEF x
    <3>1. QED  BY <1>3, <2>1, <2>2
  <2>4. x - 1 \in above  BY <2>3
  <2>5. x <= x - 1
    <3> HIDE DEF above
    <3>1. QED  BY <1>2, <2>4
  <2> HIDE DEF x
  <2>6. QED  BY <1>3, <2>5
<1> HIDE DEF x
<1>5. QED  BY <1>3, <1>4 DEF Max
-----------------------------------------------------------------------------
(* Archives.                                                               *)

(* The paths that entries can have, and what an extraction has done so far. *)
Paths == {EntryPath(e) : e \in ZipEntry}

Extracting(o) ==
  {s \in [ok : BOOLEAN, total : Nat, files : SUBSET [path : Paths, size : Nat]] :
     s.total <= o.maxExpandedBytes}

(* What an entry brings to the disk fits in what is left. *)
LEMMA InflateFits ==
  ASSUME NEW e \in ZipEntry, NEW remaining \in Nat
  PROVE  LET r == InflateEntryToFile(e, remaining)
         IN  r.ok \in BOOLEAN /\ r.written \in Nat /\ r.written <= remaining
<1>1. e.real \in Nat /\ e.packed \in Nat /\ e.method \in {0, 8, 9}  BY DEF ZipEntry
<1>2. QED  BY <1>1 DEF InflateEntryToFile

LEMMA ExtractStepFits ==
  ASSUME NEW o \in ExtractOptions, NEW s \in Extracting(o), NEW e \in ZipEntry
  PROVE  LET next == ExtractStep(o, s, e)
         IN  /\ next \in Extracting(o)
             /\ \/ /\ next.files = s.files
                   /\ next.ok => s.ok /\ (e.isDirectory \/ EntryPath(e) = <<>>)
                \/ \E size \in 0..o.maxSingleFile :
                     /\ next.files = Overwritten(s.files, EntryPath(e), size)
                     /\ s.ok /\ SafeEntry(e) /\ EntryPath(e) # <<>>
<1> DEFINE path == EntryPath(e)
           remaining == Min({o.maxSingleFile, o.maxExpandedBytes - s.total})
           r == InflateEntryToFile(e, remaining)
           refused == ~SafeEntry(e) \/ (~e.isDirectory /\ path # <<>> /\ Collides(s.files, path))
           next == ExtractStep(o, s, e)
<1>1. /\ s.ok \in BOOLEAN /\ s.total \in Nat /\ s.total <= o.maxExpandedBytes
      /\ s.files \subseteq [path : Paths, size : Nat]
      /\ s = [ok |-> s.ok, total |-> s.total, files |-> s.files]
  BY DEF Extracting
<1>2. o.maxSingleFile \in Nat /\ o.maxExpandedBytes - s.total \in Nat /\ o.maxExpandedBytes \in Nat
  BY <1>1 DEF ExtractOptions
<1>3. remaining \in Nat /\ remaining <= o.maxSingleFile /\ remaining <= o.maxExpandedBytes - s.total
  BY <1>2, LeastOfTwo
<1>4. r.ok \in BOOLEAN /\ r.written \in Nat /\ r.written <= remaining
  <2> HIDE DEF remaining
  <2>1. QED  BY <1>3, InflateFits
<1>5. path \in Paths  BY DEF Paths
<1>6. next = CASE ~s.ok -> s
               [] s.ok /\ refused -> [s EXCEPT !.ok = FALSE]
               [] s.ok /\ SafeEntry(e) /\ ~(~e.isDirectory /\ path # <<>>) -> s
               [] OTHER -> [ok |-> r.ok, total |-> s.total + r.written,
                            files |-> Overwritten(s.files, path, r.written)]
  BY Zenon DEF ExtractStep
<1> HIDE DEF next, r, remaining
<1>7. CASE ~s.ok \/ (~refused /\ (e.isDirectory \/ path = <<>>))
  <2>1. next = s  BY <1>6, <1>7
  <2>2. QED  BY <2>1, <1>7 DEF next
<1>8. CASE s.ok /\ refused
  <2>1. next = [s EXCEPT !.ok = FALSE]  BY <1>6, <1>8
  <2>2. next = [ok |-> FALSE, total |-> s.total, files |-> s.files]  BY <2>1, <1>1
  <2>3. next \in Extracting(o) /\ ~next.ok /\ next.files = s.files  BY <2>2, <1>1 DEF Extracting
  <2>4. QED  BY <2>3 DEF next
<1>9. CASE s.ok /\ ~refused /\ ~e.isDirectory /\ path # <<>>
  <2>1. next = [ok |-> r.ok, total |-> s.total + r.written, files |-> Overwritten(s.files, path, r.written)]
    BY <1>6, <1>9
  <2>2. Overwritten(s.files, path, r.written) \subseteq [path : Paths, size : Nat]
    BY <1>1, <1>4, <1>5 DEF Overwritten
  <2>3. s.total + r.written \in Nat /\ s.total + r.written <= o.maxExpandedBytes
    BY <1>1, <1>2, <1>3, <1>4
  <2>4. next \in Extracting(o)  BY <2>1, <2>2, <2>3, <1>4 DEF Extracting
  <2>5. r.written \in 0..o.maxSingleFile  BY <1>2, <1>3, <1>4
  <2>6. next.files = Overwritten(s.files, path, r.written)  BY <2>1
  <2>7. SafeEntry(e)  BY <1>9
  <2>8. QED  BY <2>4, <2>5, <2>6, <2>7, <1>9 DEF next
<1>10. QED  BY <1>7, <1>8, <1>9

(* The extraction goes through the entries from the first to the last.      *)
LEMMA ExtractFold ==
  ASSUME NEW o \in ExtractOptions, NEW entries \in Seq(ZipEntry)
  PROVE  \E f : /\ f[0] = [ok |-> AssertZipBudget(entries, o), total |-> 0, files |-> {}]
                /\ \A i \in 1..Len(entries) : f[i] = ExtractStep(o, f[i - 1], entries[i])
                /\ ExtractZipFromFile(entries, o) = f[Len(entries)]
<1> DEFINE n == Len(entries)
           none == [ok |-> AssertZipBudget(entries, o), total |-> 0, files |-> {}]
           G == [p \in Extracting(o) \X (1..n) |-> ExtractStep(o, p[1], entries[p[2]])]
           Computes(it) == it = [s \in SUBSET DOMAIN entries |->
                                   IF s = {} THEN none
                                   ELSE ExtractStep(o, it[s \ {Max(s)}], entries[Max(s)])]
           iter == CHOOSE it : Computes(it)
<1>1. n \in Nat /\ DOMAIN entries = 1..n /\ \A i \in 1..n : entries[i] \in ZipEntry  OBVIOUS
<1>2. ExtractZipFromFile(entries, o) = iter[DOMAIN entries]
  BY Zenon DEF ExtractZipFromFile, FoldLeft, MapThenFoldSet
<1>3. none \in Extracting(o)
  <2>1. AssertZipBudget(entries, o) \in BOOLEAN  BY DEF AssertZipBudget
  <2>2. 0 \in Nat /\ 0 <= o.maxExpandedBytes  BY DEF ExtractOptions
  <2>3. QED  BY <2>1, <2>2 DEF Extracting
<1> HIDE DEF none, n
<1>4. G \in [Extracting(o) \X (1..n) -> Extracting(o)]  BY <1>1, ExtractStepFits
<1>5. \E it : Computes(it)
  <2>1. PICK it \in [SUBSET (1..n) -> Extracting(o)] :
               \A s \in SUBSET (1..n) :
                 it[s] = IF s = {} THEN none ELSE G[<<it[s \ {Max(s)}], Max(s)>>]
    <3>1. n \in Nat  BY <1>1
    <3> HIDE DEF G
    <3>2. CanFold(n, Extracting(o), none, G)  BY <3>1, <1>3, <1>4, Recursion
    <3>3. QED  BY <3>2, Zenon DEF CanFold
  <2>2. ASSUME NEW s \in SUBSET (1..n), s # {}
        PROVE  it[s] = ExtractStep(o, it[s \ {Max(s)}], entries[Max(s)])
    <3>1. Max(s) \in 1..n  BY <1>1, <2>2, HasGreatest
    <3>2. it[s \ {Max(s)}] \in Extracting(o)  OBVIOUS
    <3>3. G[<<it[s \ {Max(s)}], Max(s)>>] = ExtractStep(o, it[s \ {Max(s)}], entries[Max(s)])
      BY <3>1, <3>2
    <3> HIDE DEF G
    <3>4. QED  BY <2>1, <2>2, <3>3
  <2>3. it[{}] = none  BY <2>1
  <2> HIDE DEF G
  <2>4. it = [s \in SUBSET (1..n) |-> it[s]]  OBVIOUS
  <2>5. \A s \in SUBSET (1..n) : it[s] = IF s = {} THEN none
                                         ELSE ExtractStep(o, it[s \ {Max(s)}], entries[Max(s)])
    BY <2>2, <2>3
  <2>6. Computes(it)  BY <2>4, <2>5, <1>1
  <2>7. QED  BY <2>6
<1> HIDE DEF G
<1>6. Computes(iter)
  <2> HIDE DEF Computes
  <2>1. QED  BY <1>5
<1> HIDE DEF iter
<1> DEFINE f == [i \in 0..n |-> iter[1..i]]
<1>7. f[0] = none
  <2>1. 1..0 = {} /\ {} \in SUBSET (1..n)  OBVIOUS
  <2>2. iter[{}] = none  BY <1>1, <1>6, <2>1
  <2>3. QED  BY <1>1, <2>1, <2>2
<1>8. ASSUME NEW i \in 1..n PROVE f[i] = ExtractStep(o, f[i - 1], entries[i])
  <2>1. i - 1 \in Nat /\ i - 1 \in 0..n /\ i \in 0..n /\ i = (i - 1) + 1  BY <1>1
  <2>2. Max(1..i) = i /\ (1..i) \ {i} = 1..(i - 1)  BY <2>1, LastOf
  <2>3. 1..i \in SUBSET (1..n) /\ 1..i # {}
    <3>1. i \in 1..i  BY <2>1
    <3>2. \A j \in 1..i : j \in 1..n  BY <1>1
    <3>3. QED  BY <3>1, <3>2
  <2>4. iter[1..i] = ExtractStep(o, iter[(1..i) \ {Max(1..i)}], entries[Max(1..i)])
    BY <1>1, <1>6, <2>3
  <2>5. QED  BY <2>1, <2>2, <2>4
<1>9. ExtractZipFromFile(entries, o) = f[n]  BY <1>1, <1>2
<1> HIDE DEF f
<1>10. QED  BY <1>7, <1>8, <1>9 DEF n, none

(* What is on disk is small enough, has a name and stays inside.            *)
Safe(files, o) ==
  \A f \in files : f.size <= o.maxSingleFile /\ Outside \cap Range(f.path) = {} /\ f.path # <<>>

(* An entry has a file of its path, if it is to have one.                   *)
Covered(e, files) ==
  e.isDirectory \/ EntryPath(e) = <<>> \/ \E f \in files : f.path = EntryPath(e)

LEMMA OverwrittenKeeps ==
  ASSUME NEW o, NEW files, NEW e, NEW size
  PROVE  LET more == Overwritten(files, EntryPath(e), size)
         IN  /\ Safe(files, o) /\ SafeEntry(e) /\ EntryPath(e) # <<>> /\ size <= o.maxSingleFile
                => Safe(more, o)
             /\ Covered(e, more)
             /\ \A d : Covered(d, files) => Covered(d, more)
<1> DEFINE file == [path |-> EntryPath(e), size |-> size]
           more == Overwritten(files, EntryPath(e), size)
<1>1. file.path = EntryPath(e) /\ file.size = size  OBVIOUS
<1>2. more = {f \in files : f.path # EntryPath(e)} \cup {file}  BY DEF Overwritten
<1> HIDE DEF more, file
<1>3. ASSUME Safe(files, o), SafeEntry(e), EntryPath(e) # <<>>, size <= o.maxSingleFile
      PROVE  Safe(more, o)
  BY <1>1, <1>2, <1>3 DEF Safe, SafeEntry
<1>4. Covered(e, more)  BY <1>1, <1>2 DEF Covered
<1>5. ASSUME NEW d, Covered(d, files) PROVE Covered(d, more)
  <2>1. CASE EntryPath(d) = EntryPath(e)  BY <1>1, <1>2, <2>1 DEF Covered
  <2>2. CASE EntryPath(d) # EntryPath(e)  BY <1>2, <1>5, <2>2 DEF Covered
  <2>3. QED  BY <2>1, <2>2
<1>6. QED  BY <1>3, <1>4, <1>5 DEF more

(* For every archive and every budget, what an extraction puts on disk fits *)
(* in it and stays inside, and one that succeeds leaves no path out.        *)
THEOREM ExtractionIsSafe ==
  ASSUME NEW q \in FileQuestion.extract
  PROVE  Extracted(q, ExtractZipFromFile(q.entries, q.o))
<1> DEFINE o == q.o
           entries == q.entries
           n == Len(entries)
<1>1. o \in ExtractOptions /\ entries \in Seq(ZipEntry)  BY DEF FileQuestion
<1>2. n \in Nat /\ DOMAIN entries = 1..n /\ \A i \in 1..n : entries[i] \in ZipEntry  BY <1>1
<1> HIDE DEF o, entries, n
<1>3. PICK f : /\ f[0] = [ok |-> AssertZipBudget(entries, o), total |-> 0, files |-> {}]
               /\ \A i \in 1..n : f[i] = ExtractStep(o, f[i - 1], entries[i])
               /\ ExtractZipFromFile(entries, o) = f[n]
  BY <1>1, ExtractFold DEF n
<1> DEFINE Good(i) ==
             /\ f[i] \in Extracting(o)
             /\ Safe(f[i].files, o)
             /\ f[i].ok => \A j \in 1..i : Covered(entries[j], f[i].files)
           Done == {i \in Nat : i <= n => Good(i)}
<1>4. 0 \in Done
  <2>1. AssertZipBudget(entries, o) \in BOOLEAN  BY DEF AssertZipBudget
  <2>2. 0 \in Nat /\ 0 <= o.maxExpandedBytes  BY <1>1 DEF ExtractOptions
  <2>3. f[0] \in Extracting(o)  BY <1>3, <2>1, <2>2 DEF Extracting
  <2>4. f[0].files = {}  BY <1>3
  <2>5. Safe({}, o)  BY DEF Safe
  <2>6. 1..0 = {}  OBVIOUS
  <2>7. Good(0)  BY <2>3, <2>4, <2>5, <2>6
  <2> HIDE DEF Good
  <2>8. QED  BY <2>7
<1>5. ASSUME NEW i \in Done PROVE i + 1 \in Done
  <2>1. ASSUME i + 1 <= n, Good(i) PROVE Good(i + 1)
    <3> DEFINE s == f[i]
               e == entries[i + 1]
               next == ExtractStep(o, s, e)
    <3>1. i + 1 \in 1..n /\ (i + 1) - 1 = i  BY <2>1, <1>2
    <3>2. f[i + 1] = next  BY <3>1, <1>3
    <3>3. e \in ZipEntry /\ s \in Extracting(o)  BY <3>1, <1>2, <2>1
    <3>4. /\ next \in Extracting(o)
          /\ \/ /\ next.files = s.files
                /\ next.ok => s.ok /\ (e.isDirectory \/ EntryPath(e) = <<>>)
             \/ \E size \in 0..o.maxSingleFile :
                  /\ next.files = Overwritten(s.files, EntryPath(e), size)
                  /\ s.ok /\ SafeEntry(e) /\ EntryPath(e) # <<>>
      BY <1>1, <3>3, ExtractStepFits
    <3> HIDE DEF next
    <3>5. Safe(s.files, o)  BY <2>1
    <3>6. \A j \in 1..(i + 1) : j = i + 1 \/ j \in 1..i  OBVIOUS
    <3>7. s.ok => \A k \in 1..i : Covered(entries[k], s.files)  BY <2>1
    <3>8. ASSUME NEW size \in 0..o.maxSingleFile,
                 next.files = Overwritten(s.files, EntryPath(e), size),
                 s.ok, SafeEntry(e), EntryPath(e) # <<>>
          PROVE  Safe(next.files, o) /\ \A j \in 1..(i + 1) : Covered(entries[j], next.files)
      <4>1. size <= o.maxSingleFile  BY <1>1 DEF ExtractOptions
      <4> HIDE DEF s
      <4>2. /\ Safe(next.files, o) /\ Covered(e, next.files)
            /\ \A d : Covered(d, s.files) => Covered(d, next.files)
        <5> HIDE DEF e
        <5>1. QED  BY <3>5, <3>8, <4>1, OverwrittenKeeps
      <4>3. QED  BY <3>6, <3>7, <3>8, <4>2
    <3>9. ASSUME next.files = s.files, next.ok => s.ok /\ (e.isDirectory \/ EntryPath(e) = <<>>)
          PROVE  /\ Safe(next.files, o)
                 /\ next.ok => \A j \in 1..(i + 1) : Covered(entries[j], next.files)
      <4>1. next.ok => Covered(e, next.files)  BY <3>9 DEF Covered
      <4>2. QED  BY <3>5, <3>6, <3>7, <3>9, <4>1
    <3>10. QED  BY <3>2, <3>4, <3>8, <3>9
  <2> HIDE DEF Good
  <2>2. i \in Nat /\ (i + 1 <= n => i <= n)  BY <1>2
  <2>3. QED  BY <2>1, <2>2
<1>6. Good(n)
  <2>1. Done = Nat
    <3>1. Done \in SUBSET Nat  OBVIOUS
    <3> HIDE DEF Done
    <3>2. QED  BY <1>4, <1>5, <3>1, Induction
  <2> HIDE DEF Good
  <2>2. n \in Done /\ n <= n  BY <2>1, <1>2
  <2>3. QED  BY <2>2
<1>7. QED
  <2> DEFINE r == ExtractZipFromFile(entries, o)
  <2>1. /\ r \in Extracting(o) /\ Safe(r.files, o)
        /\ r.ok => \A j \in DOMAIN entries : Covered(entries[j], r.files)
    BY <1>2, <1>3, <1>6
  <2>2. r.total <= o.maxExpandedBytes  BY <2>1 DEF Extracting
  <2> HIDE DEF r
  <2>3. QED  BY <2>1, <2>2 DEF Extracted, Safe, Covered, r, o, entries

(* For every size of a file and of the window, an inspection that calls     *)
(* itself complete has seen every byte, and one that has is not partial.    *)
THEOREM SamplesAreHonest ==
  ASSUME NEW size \in Nat, NEW window \in Nat \ {0}
  PROVE  LET r == SampleFileWindows(size, window) IN r.partial = (r.seen # 0..size - 1)
<1> DEFINE head == Window(0, window, size)
           from == (size \div 2) - (window \div 2)
           mid == IF size > 2 * window THEN Window(from, window, size) ELSE {}
           tail == IF size > window THEN Window(size - window, window, size) ELSE {}
           seen == head \cup mid \cup tail
           partial == size > Cardinality(head) + Cardinality(mid) + Cardinality(tail)
<1>1. SampleFileWindows(size, window) = [seen |-> seen, partial |-> partial]
  BY DEF SampleFileWindows
<1>2. \A a, b \in Int : Cardinality(a..b) = IF a > b THEN 0 ELSE b - a + 1  BY FS_Interval
<1>3. Cardinality({}) = 0  BY FS_EmptySet
<1>4. partial \in BOOLEAN /\ (partial <=> seen # 0..size - 1)
  <2> partial \in BOOLEAN  OBVIOUS
  <2>1. CASE size <= window
    <3>1. head = 0..size - 1 /\ mid = {} /\ tail = {}
      BY <2>1, LeastOfTwo DEF Window
    <3>2. Cardinality(head) = size  BY <1>2, <3>1
    <3>3. seen = 0..size - 1  BY <3>1
    <3>4. Cardinality(mid) = 0 /\ Cardinality(tail) = 0  BY <3>1, <1>3
    <3> HIDE DEF head, mid, tail
    <3>5. ~partial  BY <3>2, <3>4
    <3> HIDE DEF seen, partial
    <3>6. QED  BY <3>3, <3>5
  <2>2. CASE window < size /\ size <= 2 * window
    <3>1. head = 0..window - 1 /\ mid = {} /\ tail = (size - window)..(size - 1)
      BY <2>2, LeastOfTwo DEF Window
    <3>2. Cardinality(head) = window /\ Cardinality(tail) = window  BY <1>2, <2>2, <3>1
    <3>3. seen = 0..size - 1  BY <2>2, <3>1
    <3>4. QED  BY <2>2, <3>1, <3>2, <3>3, <1>3
  <2>3. CASE 2 * window < size
    <3>1. from \in Nat /\ from + window <= size
      BY <2>3
    <3>2. head = 0..window - 1 /\ mid = from..(from + window - 1) /\ tail = (size - window)..(size - 1)
      <4> HIDE DEF from
      <4>1. QED  BY <2>3, <3>1, LeastOfTwo DEF Window
    <3>3. Cardinality(head) = window /\ Cardinality(tail) = window /\ Cardinality(mid) = window
      <4> HIDE DEF from
      <4>1. QED  BY <1>2, <2>3, <3>1, <3>2
    <3>4. CASE size <= 3 * window
      <4>1. from <= window /\ size - window <= from + window  BY <2>3, <3>4
      <4>2. seen = 0..size - 1
        <5> HIDE DEF from
        <5>1. QED  BY <2>3, <3>1, <3>2, <4>1
      <4>3. QED  BY <3>3, <3>4, <4>2
    <3>5. CASE 3 * window < size
      <4>1. \/ window < from
            \/ from + window < size - window
        BY <2>3, <3>5
      <4>2. \E x \in 0..size - 1 : x \notin seen
        <5> HIDE DEF from
        <5>1. CASE window < from
          <6>1. window \in 0..size - 1 /\ window \notin seen  BY <5>1, <2>3, <3>1, <3>2
          <6>2. QED  BY <6>1
        <5>2. CASE ~(window < from)
          <6>1. from + window \in 0..size - 1 /\ from + window \notin seen
            BY <5>2, <4>1, <2>3, <3>1, <3>2
          <6>2. QED  BY <6>1
        <5>3. QED  BY <5>1, <5>2
      <4>3. QED  BY <3>3, <3>5, <4>2
    <3>6. QED  BY <3>4, <3>5
  <2>4. QED  BY <2>1, <2>2, <2>3
<1> HIDE DEF seen, partial
<1>5. QED  BY <1>1, <1>4

(* A name for a file is one that no other file has, in capitals or not.     *)
LEMMA UniqueName ==
  ASSUME NEW name \in DiskName, NEW used \in SUBSET DiskName, IsFiniteSet(used)
  PROVE  LET given == UniqueAttachmentFilename(name, used)
         IN  given \in DiskName /\ Lower(given) \in DiskName /\ Lower(given) \notin used
<1>1. name.marks \in Seq(Nat)  BY DEF DiskName
<1>2. ASSUME NEW d \in DiskName PROVE Lower(d) \in DiskName /\ Lower(d).marks = d.marks
  BY DEF DiskName, Lower
<1>3. ASSUME NEW n \in Nat
      PROVE  /\ Numbered(name, n) \in DiskName
             /\ Lower(Numbered(name, n)) \in DiskName
             /\ Lower(Numbered(name, n)).marks = Append(name.marks, n)
  <2>1. Append(name.marks, n) \in Seq(Nat)  BY <1>1
  <2>2. Numbered(name, n) \in DiskName /\ Numbered(name, n).marks = Append(name.marks, n)
    BY <2>1 DEF DiskName, Numbered
  <2>3. QED  BY <1>2, <2>2
<1> DEFINE c == Cardinality(used)
           tries == 2..(c + 2)
           free == {n \in tries : Lower(Numbered(name, n)) \notin used}
<1>4. c \in Nat  BY FS_CardinalityType
<1>5. tries \in SUBSET Nat /\ IsFiniteSet(tries) /\ Cardinality(tries) = c + 1  BY <1>4, FS_Interval
<1>6. free # {}
  <2>1. SUFFICES ASSUME free = {} PROVE FALSE  OBVIOUS
  <2> DEFINE put == [n \in tries |-> Lower(Numbered(name, n))]
  <2>2. put \in [tries -> used]  BY <2>1
  <2>3. \A m, n \in tries : put[m] = put[n] => m = n
    <3> SUFFICES ASSUME NEW m \in tries, NEW n \in tries, put[m] = put[n] PROVE m = n
      OBVIOUS
    <3>1. Append(name.marks, m) = Append(name.marks, n)  BY <1>3, <1>5
    <3>2. QED  BY <3>1, <1>1, <1>5
  <2>4. put \in Injection(tries, used)  BY <2>2, <2>3 DEF Injection, IsInjective
  <2>5. Cardinality(tries) <= c  BY <2>4, <1>5, FS_Injection
  <2>6. QED  BY <2>5, <1>4, <1>5
<1>7. Min(free) \in free
  <2>1. free \in SUBSET Nat  BY <1>5
  <2> HIDE DEF free
  <2>2. QED  BY <1>6, <2>1, HasLeast
<1>8. CASE Lower(name) \notin used  BY <1>2, <1>8 DEF UniqueAttachmentFilename
<1>9. CASE Lower(name) \in used
  <2>1. UniqueAttachmentFilename(name, used) = Numbered(name, Min(free))
    BY <1>9 DEF UniqueAttachmentFilename
  <2>2. Min(free) \in Nat /\ Lower(Numbered(name, Min(free))) \notin used  BY <1>5, <1>7
  <2>3. QED  BY <2>1, <2>2, <1>3
<1>10. QED  BY <1>8, <1>9

(* The names given so far, and their spellings in small letters.            *)
Naming ==
  {s \in [given : Seq(DiskName), used : SUBSET DiskName] :
     s.used = {Lower(s.given[k]) : k \in DOMAIN s.given} /\ IsFiniteSet(s.used)}

Distinct(given) == \A j, k \in DOMAIN given : j # k => Lower(given[j]) # Lower(given[k])

LEMMA GiveNameKeeps ==
  ASSUME NEW s \in Naming, NEW name \in DiskName
  PROVE  /\ GiveName(s, name) \in Naming
         /\ Len(GiveName(s, name).given) = Len(s.given) + 1
         /\ Distinct(s.given) => Distinct(GiveName(s, name).given)
<1> DEFINE x == UniqueAttachmentFilename(name, s.used)
           more == Append(s.given, x)
           used == s.used \cup {Lower(x)}
<1>1. /\ s.given \in Seq(DiskName) /\ s.used \in SUBSET DiskName /\ IsFiniteSet(s.used)
      /\ s.used = {Lower(s.given[k]) : k \in DOMAIN s.given}
  BY DEF Naming
<1>2. x \in DiskName /\ Lower(x) \in DiskName /\ Lower(x) \notin s.used
  BY <1>1, UniqueName
<1>3. GiveName(s, name) = [given |-> more, used |-> used]  BY DEF GiveName
<1> HIDE DEF x
<1>4. /\ more \in Seq(DiskName) /\ Len(more) = Len(s.given) + 1
      /\ DOMAIN more = 1..(Len(s.given) + 1) /\ DOMAIN s.given = 1..Len(s.given)
      /\ \A k \in DOMAIN s.given : more[k] = s.given[k]
      /\ more[Len(s.given) + 1] = x
      /\ Len(s.given) \in Nat
  BY <1>1, <1>2
<1> HIDE DEF more
<1>5. DOMAIN more = DOMAIN s.given \cup {Len(s.given) + 1}  BY <1>4
<1>6. used = {Lower(more[k]) : k \in DOMAIN more}  BY <1>1, <1>4, <1>5
<1>7. used \in SUBSET DiskName /\ IsFiniteSet(used)  BY <1>1, <1>2, FS_AddElement
<1>8. ASSUME Distinct(s.given) PROVE Distinct(more)
  <2>1. \A k \in DOMAIN s.given : Lower(more[k]) \in s.used /\ Lower(more[k]) = Lower(s.given[k])
    BY <1>1, <1>4
  <2>2. QED  BY <2>1, <1>2, <1>4, <1>5, <1>8 DEF Distinct
<1> HIDE DEF used
<1>9. [given |-> more, used |-> used] \in Naming  BY <1>4, <1>6, <1>7 DEF Naming
<1>10. QED  BY <1>3, <1>4, <1>8, <1>9

LEMMA NoNames == [given |-> <<>>, used |-> {}] \in Naming
<1>1. <<>> \in Seq(DiskName) /\ DOMAIN <<>> = {}  OBVIOUS
<1>2. {} = {Lower(<<>>[k]) : k \in DOMAIN <<>>} /\ IsFiniteSet({})  BY <1>1, FS_EmptySet
<1>3. QED  BY <1>1, <1>2 DEF Naming

(* The names are given one after the other.                                 *)
LEMMA NamesFold ==
  ASSUME NEW names \in Seq(DiskName)
  PROVE  \E f : /\ f[0] = [given |-> <<>>, used |-> {}]
                /\ \A i \in 1..Len(names) : f[i] = GiveName(f[i - 1], names[i])
                /\ DiskNames(names) = f[Len(names)].given
<1> DEFINE n == Len(names)
           none == [given |-> <<>>, used |-> {}]
           G == [p \in Naming \X (1..n) |-> GiveName(p[1], names[p[2]])]
           Computes(it) == it = [s \in SUBSET DOMAIN names |->
                                   IF s = {} THEN none ELSE GiveName(it[s \ {Max(s)}], names[Max(s)])]
           iter == CHOOSE it : Computes(it)
<1>1. n \in Nat /\ DOMAIN names = 1..n /\ \A i \in 1..n : names[i] \in DiskName  OBVIOUS
<1>2. DiskNames(names) = iter[DOMAIN names].given
  BY Zenon DEF DiskNames, FoldLeft, MapThenFoldSet
<1>3. none \in Naming  BY NoNames
<1> HIDE DEF none, n
<1>4. G \in [Naming \X (1..n) -> Naming]  BY <1>1, GiveNameKeeps
<1>5. \E it : Computes(it)
  <2>1. PICK it \in [SUBSET (1..n) -> Naming] :
               \A s \in SUBSET (1..n) :
                 it[s] = IF s = {} THEN none ELSE G[<<it[s \ {Max(s)}], Max(s)>>]
    <3>1. n \in Nat  BY <1>1
    <3> HIDE DEF G
    <3>2. CanFold(n, Naming, none, G)  BY <3>1, <1>3, <1>4, Recursion
    <3>3. QED  BY <3>2, Zenon DEF CanFold
  <2>2. ASSUME NEW s \in SUBSET (1..n), s # {}
        PROVE  it[s] = GiveName(it[s \ {Max(s)}], names[Max(s)])
    <3>1. Max(s) \in 1..n  BY <1>1, <2>2, HasGreatest
    <3>2. it[s \ {Max(s)}] \in Naming  OBVIOUS
    <3>3. G[<<it[s \ {Max(s)}], Max(s)>>] = GiveName(it[s \ {Max(s)}], names[Max(s)])
      BY <3>1, <3>2
    <3> HIDE DEF G
    <3>4. QED  BY <2>1, <2>2, <3>3
  <2>3. it[{}] = none  BY <2>1
  <2> HIDE DEF G
  <2>4. it = [s \in SUBSET (1..n) |-> it[s]]  OBVIOUS
  <2>5. \A s \in SUBSET (1..n) : it[s] = IF s = {} THEN none
                                         ELSE GiveName(it[s \ {Max(s)}], names[Max(s)])
    BY <2>2, <2>3
  <2>6. Computes(it)  BY <2>4, <2>5, <1>1
  <2>7. QED  BY <2>6
<1> HIDE DEF G
<1>6. Computes(iter)
  <2> HIDE DEF Computes
  <2>1. QED  BY <1>5
<1> HIDE DEF iter
<1> DEFINE f == [i \in 0..n |-> iter[1..i]]
<1>7. f[0] = none
  <2>1. 1..0 = {} /\ {} \in SUBSET (1..n)  OBVIOUS
  <2>2. iter[{}] = none  BY <1>1, <1>6, <2>1
  <2>3. QED  BY <1>1, <2>1, <2>2
<1>8. ASSUME NEW i \in 1..n PROVE f[i] = GiveName(f[i - 1], names[i])
  <2>1. i - 1 \in Nat /\ i - 1 \in 0..n /\ i \in 0..n /\ i = (i - 1) + 1  BY <1>1
  <2>2. Max(1..i) = i /\ (1..i) \ {i} = 1..(i - 1)  BY <2>1, LastOf
  <2>3. 1..i \in SUBSET (1..n) /\ 1..i # {}
    <3>1. i \in 1..i  BY <2>1
    <3>2. \A j \in 1..i : j \in 1..n  BY <1>1
    <3>3. QED  BY <3>1, <3>2
  <2>4. iter[1..i] = GiveName(iter[(1..i) \ {Max(1..i)}], names[Max(1..i)])
    BY <1>1, <1>6, <2>3
  <2>5. QED  BY <2>1, <2>2, <2>4
<1>9. DiskNames(names) = f[n].given  BY <1>1, <1>2
<1> HIDE DEF f
<1>10. QED  BY <1>7, <1>8, <1>9 DEF n, none

(* For any number of attachments, each gets a name, and no two get one name *)
(* on a disk that ignores case.                                             *)
THEOREM NamesAreDistinct ==
  ASSUME NEW names \in Seq(DiskName)
  PROVE  DOMAIN DiskNames(names) = DOMAIN names /\ Distinct(DiskNames(names))
<1> DEFINE n == Len(names)
<1>1. n \in Nat /\ DOMAIN names = 1..n /\ \A i \in 1..n : names[i] \in DiskName  OBVIOUS
<1>2. PICK f : /\ f[0] = [given |-> <<>>, used |-> {}]
               /\ \A i \in 1..n : f[i] = GiveName(f[i - 1], names[i])
               /\ DiskNames(names) = f[n].given
  BY NamesFold
<1> HIDE DEF n
<1> DEFINE Good(i) == f[i] \in Naming /\ Len(f[i].given) = i /\ Distinct(f[i].given)
           Done == {i \in Nat : i <= n => Good(i)}
<1>3. 0 \in Done
  <2>1. <<>> \in Seq(DiskName) /\ DOMAIN <<>> = {} /\ Len(<<>>) = 0  OBVIOUS
  <2>2. f[0] \in Naming  BY <1>2, NoNames, Zenon
  <2>3. Good(0)  BY <1>2, <2>1, <2>2 DEF Distinct
  <2> HIDE DEF Good
  <2>4. QED  BY <2>3
<1>4. ASSUME NEW i \in Done PROVE i + 1 \in Done
  <2>1. ASSUME i + 1 <= n, Good(i) PROVE Good(i + 1)
    <3>1. i + 1 \in 1..n /\ (i + 1) - 1 = i  BY <2>1, <1>1
    <3>2. f[i + 1] = GiveName(f[i], names[i + 1])  BY <3>1, <1>2
    <3>3. names[i + 1] \in DiskName  BY <3>1, <1>1
    <3>4. QED  BY <2>1, <3>2, <3>3, GiveNameKeeps
  <2> HIDE DEF Good
  <2>2. i \in Nat /\ (i + 1 <= n => i <= n)  BY <1>1
  <2>3. QED  BY <2>1, <2>2
<1>5. Good(n)
  <2>1. Done = Nat
    <3>1. Done \in SUBSET Nat  OBVIOUS
    <3> HIDE DEF Done
    <3>2. QED  BY <1>3, <1>4, <3>1, Induction
  <2> HIDE DEF Good
  <2>2. n \in Done /\ n <= n  BY <2>1, <1>1
  <2>3. QED  BY <2>2
<1>6. f[n].given \in Seq(DiskName)  BY <1>5 DEF Naming
<1>7. QED  BY <1>1, <1>2, <1>5, <1>6
-----------------------------------------------------------------------------
(* Platforms.                                                              *)

LEMMA RequestEnds ==
  ASSUME NEW replies \in Replies
  PROVE  LET r == Request(replies)
         IN  /\ r.sent \in 1..MaxRounds
             /\ r.got = replies[r.sent] \/ (r.got = "throws" /\ replies[r.sent] # "json")
<1> DEFINE last == {i \in DOMAIN replies : i <= MaxRounds /\ ~Followed(replies, i)}
           r == Request(replies)
<1>1. /\ replies \in Seq(Reply) /\ DOMAIN replies = 1..Len(replies) /\ Len(replies) \in Nat
      /\ Len(replies) >= MaxRounds \/ (replies # <<>> /\ replies[Len(replies)] \notin {"redirect", "limit"})
  BY DEF Replies
<1>2. last \in SUBSET Nat /\ \A i \in last : i \in 1..MaxRounds
  BY <1>1 DEF MaxRounds
<1>3. CASE last = {}
  <2>1. r = [sent |-> MaxRounds, got |-> "throws"]  BY <1>3 DEF Request
  <2>2. CASE MaxRounds \in DOMAIN replies
    <3>1. Followed(replies, MaxRounds)
      <4>1. MaxRounds <= MaxRounds  BY DEF MaxRounds
      <4>2. QED  BY <1>3, <2>2, <4>1, Zenon
    <3>2. replies[MaxRounds] # "json"  BY <3>1 DEF Followed
    <3>3. QED  BY <2>1, <3>2 DEF MaxRounds
  <2>3. CASE MaxRounds \notin DOMAIN replies
    <3>1. Len(replies) \in DOMAIN replies /\ Len(replies) <= MaxRounds /\ replies[Len(replies)] \notin {"redirect", "limit"}
      BY <1>1, <2>3 DEF MaxRounds
    <3>2. Len(replies) \in last  BY <3>1 DEF Followed
    <3>3. QED  BY <1>3, <3>2
  <2>4. QED  BY <2>2, <2>3
<1>4. CASE last # {}
  <2>1. r = [sent |-> Min(last), got |-> replies[Min(last)]]  BY <1>4 DEF Request
  <2> HIDE DEF last
  <2>2. Min(last) \in last  BY <1>2, <1>4, HasLeast
  <2>3. r.sent = Min(last) /\ r.got = replies[Min(last)]  BY <2>1
  <2>4. QED  BY <1>2, <2>2, <2>3, Zenon
<1>5. QED  BY <1>3, <1>4

LEMMA CtfdRequestEnds ==
  ASSUME NEW replies \in Replies
  PROVE  LET r == CtfdRequest(replies)
         IN  /\ r.sent \in 1..MaxRounds
             /\ r.got = replies[r.sent] \/ (r.got = "throws" /\ replies[r.sent] # "json")
<1> DEFINE last == {i \in DOMAIN replies : i <= CtfdRounds /\ replies[i] # "redirect"}
           r == CtfdRequest(replies)
<1>1. /\ replies \in Seq(Reply) /\ DOMAIN replies = 1..Len(replies) /\ Len(replies) \in Nat
      /\ Len(replies) >= MaxRounds \/ (replies # <<>> /\ replies[Len(replies)] \notin {"redirect", "limit"})
  BY DEF Replies
<1>2. last \in SUBSET Nat /\ \A i \in last : i \in 1..MaxRounds
  BY <1>1 DEF MaxRounds, CtfdRounds
<1>3. CASE last = {}
  <2>1. r = [sent |-> CtfdRounds, got |-> "throws"]  BY <1>3 DEF CtfdRequest
  <2>2. CASE CtfdRounds \in DOMAIN replies
    <3>1. replies[CtfdRounds] = "redirect"
      <4>1. CtfdRounds <= CtfdRounds  BY DEF CtfdRounds
      <4>2. QED  BY <1>3, <2>2, <4>1, Zenon
    <3>2. replies[CtfdRounds] # "json"  BY <3>1
    <3>3. QED  BY <2>1, <3>2 DEF MaxRounds, CtfdRounds
  <2>3. CASE CtfdRounds \notin DOMAIN replies
    <3>1. Len(replies) \in DOMAIN replies /\ Len(replies) <= CtfdRounds /\ replies[Len(replies)] \notin {"redirect", "limit"}
      BY <1>1, <2>3 DEF MaxRounds, CtfdRounds
    <3>2. Len(replies) \in last  BY <3>1
    <3>3. QED  BY <1>3, <3>2
  <2>4. QED  BY <2>2, <2>3
<1>4. CASE last # {}
  <2>1. r = [sent |-> Min(last), got |-> replies[Min(last)]]  BY <1>4 DEF CtfdRequest
  <2> HIDE DEF last
  <2>2. Min(last) \in last  BY <1>2, <1>4, HasLeast
  <2>3. r.sent = Min(last) /\ r.got = replies[Min(last)]  BY <2>1
  <2>4. QED  BY <1>2, <2>2, <2>3, Zenon
<1>5. QED  BY <1>3, <1>4

(* What a verdict says of the last reply.                                   *)
Says(result, got, json) ==
  LET right == got = "json" /\ json.code = "00000" /\ json.isCorrect
  IN  /\ result.status = "CORRECT" <=> right
      /\ result.status = "WRONG" => got = "json" /\ ~right /\ (json.code = "00000" \/ "limit" \notin json.says)
      /\ result.ok <=> result.status \in {"CORRECT", "WRONG"}

LEMMA VerdictSays ==
  ASSUME NEW got, NEW json \in Envelope
  PROVE  Says(DasctfSubmitFlag(got, json), got, json)
<1> DEFINE result == DasctfSubmitFlag(got, json)
<1> HIDE DEF result
<1>1. CASE got # "json" \/ (json.code = "40001" /\ "limit" \in json.says)
  <2>1. result = Result(FALSE, "UNKNOWN")  BY <1>1 DEF result, DasctfSubmitFlag, Thrown
  <2> HIDE DEF result
  <2>2. result.status = "UNKNOWN" /\ result.ok = FALSE  BY <2>1 DEF Result
  <2>3. ~(got = "json" /\ json.code = "00000" /\ json.isCorrect)  BY <1>1
  <2>4. QED  BY <2>2, <2>3 DEF Says, result
<1>2. CASE got = "json" /\ ~(json.code = "40001" /\ "limit" \in json.says)
  <2>1. result = MapDasctfSubmit(json)  BY <1>2 DEF result, DasctfSubmitFlag
  <2>2. CASE json.code = "00000" /\ json.isCorrect
    <3>1. result = Result(TRUE, "CORRECT")  BY <2>1, <2>2 DEF MapDasctfSubmit
    <3>2. QED  BY <3>1, <2>2, <1>2 DEF Result, Says, result
  <2>3. CASE json.code = "00000" /\ ~json.isCorrect
    <3>1. result = Result(TRUE, "WRONG")  BY <2>1, <2>3 DEF MapDasctfSubmit
    <3>2. QED  BY <3>1, <2>3, <1>2 DEF Result, Says, result
  <2>4. CASE json.code # "00000" /\ "limit" \in json.says
    <3>1. result = Result(FALSE, "RATE_LIMITED")  BY <2>1, <2>4 DEF MapDasctfSubmit
    <3>2. result.status = "RATE_LIMITED" /\ result.ok = FALSE  BY <3>1 DEF Result
    <3>3. QED  BY <3>2, <2>4 DEF Says, result
  <2>5. CASE json.code # "00000" /\ "limit" \notin json.says /\ ("wrong" \in json.says \/ json.code # "none")
    <3>1. result = Result(TRUE, "WRONG")  BY <2>1, <2>5 DEF MapDasctfSubmit
    <3>2. QED  BY <3>1, <2>5, <1>2 DEF Result, Says, result
  <2>6. CASE json.code # "00000" /\ "limit" \notin json.says /\ ~("wrong" \in json.says \/ json.code # "none")
    <3>1. result = Result(FALSE, "UNKNOWN")  BY <2>1, <2>6 DEF MapDasctfSubmit
    <3>2. result.status = "UNKNOWN" /\ result.ok = FALSE  BY <3>1 DEF Result
    <3>3. QED  BY <3>2, <2>6 DEF Says, result
  <2>7. QED  BY <2>2, <2>3, <2>4, <2>5, <2>6
<1>3. QED  BY <1>1, <1>2 DEF result

(* For whatever the platform answers, and however often: CORRECT is what    *)
(* the last reply says, and nothing that is not an envelope, that says it   *)
(* or that speaks of a limit is WRONG.                                      *)
THEOREM VerdictsAreBelieved ==
  ASSUME NEW q \in PlatformQuestion.submit
  PROVE  Believed(q, Judged(q))
<1> DEFINE r == Request(q.replies)
           result == DasctfSubmitFlag(r.got, q.json)
<1>1. q.of = "submit" /\ q.replies \in Replies /\ q.json \in Envelope
  BY DEF PlatformQuestion
<1>2. Judged(q) = [sent |-> r.sent, result |-> result]  BY <1>1 DEF Judged
<1>3. /\ r.sent \in 1..MaxRounds
      /\ r.got = q.replies[r.sent] \/ (r.got = "throws" /\ q.replies[r.sent] # "json")
  BY <1>1, RequestEnds
<1> HIDE DEF r
<1>4. Says(result, r.got, q.json)  BY <1>1, VerdictSays
<1> HIDE DEF result
<1>5. QED  BY <1>2, <1>3, <1>4 DEF Believed, Says

(* A stream that ends well brought what was said. *)
Brought(r, bytes, broken, length, exact) ==
  /\ r.ok => ~broken /\ length # Garbled /\ (length = Unsaid \/ bytes = length)
  /\ r.ok => r.bytes = bytes /\ (r.exact <=> exact)
  /\ broken => r.retryable \/ length = Garbled
  /\ ~r.threw

LEMMA StreamEnds ==
  ASSUME NEW bytes, NEW broken \in BOOLEAN, NEW length, NEW exact \in BOOLEAN
  PROVE  Brought(StreamResponseToSink(bytes, broken, length, exact), bytes, broken, length, exact)
BY DEF StreamResponseToSink, Streamed, Refused, Brought

(* For any response, a download that succeeds is a whole body of a 2xx, and *)
(* has its bytes if it was not converted from what is no UTF-8.             *)
THEOREM DownloadsAreWhole ==
  ASSUME NEW q \in PlatformQuestion.download
  PROVE  Downloaded(q, Judged(q))
<1> DEFINE r == Judged(q)
           converted == q.platform = "dasctf" /\ ShouldProbe(q)
           stream == StreamResponseToSink(Arrived(q.body), q.broken, q.length, TRUE)
           size == TextBytes(q)
           copy == StreamResponseToSink(size, FALSE, size, Textual(q))
           refused == Refused(q.status = 429 \/ q.status >= 500)
<1>1. /\ q.of = "download" /\ q.platform \in {"dasctf", "ctfd"} /\ q.status \in Nat
      /\ q.from \in {"url", "nowhere", "memory"} /\ q.type \in {"binary", "text", "odd"}
      /\ q.broken \in BOOLEAN /\ q.business \in BOOLEAN /\ q.marked \in BOOLEAN /\ q.foreign \in Nat
  BY DEF PlatformQuestion, Responses
<1>2. q.status \in Successful => q.status # NoResponse /\ q.status # 429 /\ ~(q.status >= 500)
  BY <1>1 DEF Successful, NoResponse
<1>3. /\ stream.ok => ~q.broken /\ q.length # Garbled /\ (q.length = Unsaid \/ Arrived(q.body) = q.length)
      /\ stream.ok => stream.bytes = Arrived(q.body) /\ stream.exact
      /\ q.broken => stream.retryable \/ q.length = Garbled
      /\ ~stream.threw
  <2>1. TRUE \in BOOLEAN /\ q.broken \in BOOLEAN  BY <1>1
  <2>2. Brought(stream, Arrived(q.body), q.broken, q.length, TRUE)  BY <2>1, StreamEnds
  <2> HIDE DEF stream
  <2>3. QED  BY <2>2 DEF Brought
<1>4. r = IF q.platform = "dasctf" THEN DasctfDownload(q) ELSE CtfdDownload(q)
  BY <1>1, Zenon DEF Judged
<1>5. CASE q.from = "memory" /\ q.platform = "ctfd"
  <2>1. r = Streamed(TRUE, Arrived(q.body), TRUE, FALSE)  BY <1>4, <1>5 DEF CtfdDownload
  <2> HIDE DEF r
  <2>2. r.ok /\ r.exact /\ r.bytes = Arrived(q.body) /\ ~r.threw  BY <2>1 DEF Streamed
  <2>3. ~converted  BY <1>5
  <2>4. QED  BY <1>5, <2>2, <2>3 DEF Downloaded, r
<1>6. CASE q.from = "nowhere" \/ (q.from = "memory" /\ q.platform = "dasctf")
  <2>1. r = Refused(FALSE)  BY <1>1, <1>4, <1>6 DEF CtfdDownload, DasctfDownload
  <2> HIDE DEF r
  <2>2. ~r.ok  BY <2>1 DEF Refused, Streamed
  <2>3. QED  BY <1>6, <2>2 DEF Downloaded, r
<1>7. CASE q.from = "url" /\ q.status \notin Successful
  <2>1. CASE q.status = NoResponse
    <3>1. r = Threw  BY <1>1, <1>4, <1>7, <2>1 DEF CtfdDownload, DasctfDownload
    <3> HIDE DEF r
    <3>2. ~r.ok  BY <3>1 DEF Threw, Refused, Streamed
    <3>3. ~(q.status = 429 \/ q.status >= 500)  BY <2>1 DEF NoResponse
    <3>4. QED  BY <1>7, <3>2, <3>3 DEF Downloaded, r
  <2>2. CASE q.status # NoResponse
    <3>1. r = refused  BY <1>1, <1>4, <1>7, <2>2 DEF CtfdDownload, DasctfDownload
    <3> HIDE DEF r
    <3>2. ~r.ok /\ (q.status = 429 \/ q.status >= 500 => r.retryable)  BY <3>1 DEF Refused, Streamed
    <3>3. QED  BY <1>7, <3>2 DEF Downloaded, r
  <2>3. QED  BY <2>1, <2>2
<1>8. CASE q.from = "url" /\ q.status \in Successful /\ ~converted
  <2>1. r = stream  BY <1>1, <1>2, <1>4, <1>8 DEF CtfdDownload, DasctfDownload
  <2> HIDE DEF r, stream, converted
  <2>2. QED  BY <1>2, <1>3, <1>8, <2>1 DEF Downloaded, r, converted
<1>9. CASE q.from = "url" /\ q.status \in Successful /\ converted
  <2>1. r = IF q.broken THEN Threw ELSE IF q.business THEN Refused(FALSE) ELSE copy
    BY <1>1, <1>2, <1>4, <1>9 DEF DasctfDownload
  <2> HIDE DEF r
  <2>2. CASE q.broken
    <3>1. ~r.ok /\ r.threw  BY <2>1, <2>2 DEF Threw, Refused, Streamed
    <3>2. QED  BY <1>2, <1>9, <3>1 DEF Downloaded, r
  <2>3. CASE ~q.broken /\ q.business
    <3>1. ~r.ok  BY <2>1, <2>3 DEF Refused, Streamed
    <3>2. QED  BY <1>2, <1>9, <2>3, <3>1 DEF Downloaded, r
  <2>4. CASE ~q.broken /\ ~q.business
    <3>1. r = copy  BY <2>1, <2>4
    <3>2. (r.ok => r.bytes = size /\ (r.exact <=> Textual(q))) /\ ~r.threw
      <4>1. FALSE \in BOOLEAN /\ Textual(q) \in BOOLEAN  BY DEF Textual
      <4>2. Brought(copy, size, FALSE, size, Textual(q))
        <5> HIDE DEF size
        <5>1. QED  BY <4>1, StreamEnds
      <4>3. Brought(r, size, FALSE, size, Textual(q))  BY <3>1, <4>2
      <4>4. QED  BY <4>3 DEF Brought
    <3>3. ASSUME q.foreign = 0, ~q.marked PROVE Textual(q) /\ size = Arrived(q.body)
      BY <3>3 DEF Textual, TextBytes
    <3>4. QED  BY <1>2, <1>9, <2>4, <3>2, <3>3 DEF Downloaded, r
  <2>5. QED  BY <2>2, <2>3, <2>4
<1>10. QED  BY <1>1, <1>5, <1>6, <1>7, <1>8, <1>9

(* An environment that is said to be ready was found so, and nothing is     *)
(* built that did not ask for it.                                           *)
LEMMA StartsAreBelieved ==
  ASSUME NEW q \in PlatformQuestion.start
  PROVE  PlatformHolds(q, Judged(q))
<1> DEFINE told == {i \in DOMAIN q.polls : q.polls[i] # "preparing"}
           r == Judged(q)
<1>1. /\ q.of = "start" /\ q.init \in BOOLEAN /\ q.check \in BOOLEAN
      /\ q.breaks \in {"none", "detail", "build"}
      /\ q.polls \in Seq(EnvPoll) /\ DOMAIN q.polls = 1..Len(q.polls) /\ Len(q.polls) \in Nat
      /\ \A i \in DOMAIN q.polls : q.polls[i] \in EnvPoll
  BY DEF PlatformQuestion
<1>2. r = StartChallenge([init |-> q.init, check |-> q.check], q.breaks, q.polls)
  BY <1>1, Zenon DEF Judged
<1>3. StartedAsTold(q, r)
  <2>1. CASE q.breaks = "detail" \/ (q.breaks = "build" /\ q.init)
    <3>1. r = StartThrew(FALSE, 0)  BY <1>1, <1>2, <2>1 DEF StartChallenge
    <3> HIDE DEF r
    <3>2. ~r.ok /\ r.built = FALSE  BY <3>1 DEF StartThrew, Started
    <3>3. QED  BY <3>2 DEF StartedAsTold
  <2>2. CASE q.breaks # "detail" /\ ~q.init /\ ~q.check
    <3>1. r = Started(TRUE, FALSE, 0)  BY <1>2, <2>2 DEF StartChallenge
    <3> HIDE DEF r
    <3>2. ~r.threw /\ r.built = FALSE  BY <3>1 DEF Started
    <3>3. QED  BY <2>2, <3>2 DEF StartedAsTold
  <2>3. CASE q.breaks # "detail" /\ (q.init \/ q.check) /\ ~(q.breaks = "build" /\ q.init)
    <3>1. r = IF told = {} THEN Started(FALSE, q.init, Len(q.polls))
              ELSE IF q.polls[Min(told)] = "throws" THEN StartThrew(q.init, Min(told))
              ELSE Started(TRUE, q.init, Min(told))
      BY <1>2, <2>3 DEF StartChallenge
    <3> HIDE DEF r
    <3>2. CASE told = {}
      <4>1. ~r.ok /\ r.built = q.init  BY <3>1, <3>2 DEF Started
      <4>2. QED  BY <4>1 DEF StartedAsTold
    <3>3. CASE told # {}
      <4>1. told \in SUBSET Nat  BY <1>1
      <4>2. Min(told) \in told /\ \A i \in told : Min(told) <= i
        <5> HIDE DEF told
        <5>1. QED  BY <3>3, <4>1, HasLeast
      <4>3. ASSUME NEW i \in DOMAIN q.polls, i < Min(told) PROVE q.polls[i] = "preparing"
        <5>1. i \in Nat /\ Min(told) \in Nat  BY <1>1, <4>1, <4>2
        <5>2. i \notin told  BY <4>2, <4>3, <5>1
        <5>3. QED  BY <5>2
      <4>4. CASE q.polls[Min(told)] = "throws"
        <5>1. ~r.ok /\ r.built = q.init  BY <3>1, <3>3, <4>4 DEF StartThrew, Started
        <5>2. QED  BY <5>1 DEF StartedAsTold
      <4>5. CASE q.polls[Min(told)] # "throws"
        <5>1. r.ok /\ r.built = q.init /\ r.polls = Min(told) /\ ~r.threw
          BY <3>1, <3>3, <4>5 DEF Started
        <5>2. r.polls \in DOMAIN q.polls /\ q.polls[r.polls] = "ready"
          BY <1>1, <4>2, <4>5, <5>1 DEF EnvPoll
        <5>3. QED  BY <2>3, <4>3, <5>1, <5>2 DEF StartedAsTold
      <4>6. QED  BY <4>4, <4>5
    <3>4. QED  BY <3>2, <3>3
  <2>4. QED  BY <1>1, <2>1, <2>2, <2>3
<1> HIDE DEF r
<1>4. QED  BY <1>1, <1>3, Zenon DEF PlatformHolds, r

LEMMA VerdictsOfCtfd ==
  ASSUME NEW q \in PlatformQuestion.ctfd
  PROVE  PlatformHolds(q, Judged(q))
<1> DEFINE r == CtfdRequest(q.replies)
           result == CtfdSubmitFlag(q.injected, r.got, q.status)
<1>1. q.of = "ctfd" /\ q.injected \in BOOLEAN /\ q.replies \in Replies  BY DEF PlatformQuestion
<1>2. Judged(q) = [sent |-> r.sent, result |-> result]  BY <1>1, Zenon DEF Judged
<1>3. r.got = "json" => q.replies[r.sent] = "json"  BY <1>1, CtfdRequestEnds
<1> HIDE DEF r
<1>4. /\ result.status = "WRONG" => ~q.injected /\ r.got = "json" /\ q.status \in {"incorrect", "wrong"}
      /\ result.status = "CORRECT" => ~q.injected /\ r.got = "json" /\ q.status \in {"correct", "already_solved"}
      /\ result.ok <=> result.status \in {"CORRECT", "WRONG"}
  BY <1>1 DEF CtfdSubmitFlag, MapCtfdSubmitStatus, Result, Thrown
<1> HIDE DEF result
<1>5. BelievedOfCtfd(q, Judged(q))  BY <1>2, <1>3, <1>4 DEF BelievedOfCtfd
<1>6. QED  BY <1>1, <1>5, Zenon DEF PlatformHolds

(* One try more costs more than the minutes bring that a challenge waits    *)
(* less than two ranks of age longer.                                       *)
LEMMA TwinScoresLess ==
  ASSUME NEW q \in PlatformQuestion.rank, 2 * (q.older \div 10 + 1) < 5
  PROVE  Score(q.c) \in Int /\ Score(Twin(q)) \in Int /\ Score(Twin(q)) < Score(q.c)
<1> DEFINE c == q.c
           t == Twin(q)
<1>1. c \in Candidate /\ q.older \in Nat  BY DEF PlatformQuestion
<1>2. /\ c.attempts \in Nat /\ c.age \in Nat /\ c.score \in Nat /\ c.manual \in Int
      /\ t.attempts = c.attempts + 1 /\ t.age = c.age + q.older
      /\ t.manual = c.manual /\ t.difficulty = c.difficulty /\ t.score = c.score
      /\ t.progress = c.progress /\ t.class = c.class
  BY <1>1 DEF Candidate, ManualPriority, Twin
<1> HIDE DEF c, t
<1>3. EasyBonus(c.difficulty) \in Int  BY <1>1 DEF EasyBonus, c, Candidate
<1>4. ScoreBonus(c.score) \in Int
  <2>1. (2 * c.score * 20 + 500) \div 1000 \in Nat  BY <1>2
  <2>2. QED  BY <2>1, LeastOfTwo DEF ScoreBonus
<1>5. ProgressBonus(c.progress) \in Int /\ ClassBonus(c.class) \in Int
  BY DEF ProgressBonus, ClassBonus
<1>6. /\ AgeBonus(c.age) \in Int /\ AgeBonus(t.age) \in Int
      /\ AgeBonus(t.age) < AgeBonus(c.age) + 5
  <2> DEFINE x == (c.age \div 10) * 2
             y == ((c.age + q.older) \div 10) * 2
  <2>1. x \in Nat /\ y \in Nat /\ y < x + 5  BY <1>1, <1>2
  <2>2. AgeBonus(c.age) = Min({20, x}) /\ AgeBonus(t.age) = Min({20, y})  BY <1>2 DEF AgeBonus
  <2> HIDE DEF x, y
  <2>3. QED  BY <2>1, <2>2, LeastOfTwo
<1>7. /\ Score(c) = c.manual + (IF c.attempts = 0 THEN 50 ELSE 0) + EasyBonus(c.difficulty)
                      + ScoreBonus(c.score) + AgeBonus(c.age) + ProgressBonus(c.progress)
                      + ClassBonus(c.class) - 5 * c.attempts
      /\ Score(t) = c.manual + 0 + EasyBonus(c.difficulty)
                      + ScoreBonus(c.score) + AgeBonus(t.age) + ProgressBonus(c.progress)
                      + ClassBonus(c.class) - 5 * (c.attempts + 1)
  <2>1. t.attempts # 0  BY <1>2
  <2>2. QED  BY <2>1, <1>2 DEF Score
<1>8. Score(c) \in Int /\ Score(t) \in Int /\ Score(t) < Score(c)
  <2> DEFINE first == IF c.attempts = 0 THEN 50 ELSE 0
  <2>1. first \in Nat /\ c.manual \in Int /\ c.attempts \in Nat  BY <1>2
  <2> DEFINE m == c.manual
             e == EasyBonus(c.difficulty)
             s == ScoreBonus(c.score)
             x == AgeBonus(c.age)
             y == AgeBonus(t.age)
             p == ProgressBonus(c.progress)
             k == ClassBonus(c.class)
             n == c.attempts
  <2>2. /\ m \in Int /\ e \in Int /\ s \in Int /\ x \in Int /\ y \in Int /\ p \in Int /\ k \in Int
        /\ n \in Int /\ y < x + 5
    BY <1>3, <1>4, <1>5, <1>6, <2>1
  <2>3. /\ Score(c) = m + first + e + s + x + p + k - 5 * n
        /\ Score(t) = m + 0 + e + s + y + p + k - 5 * (n + 1)
    BY <1>7
  <2> HIDE DEF first, m, e, s, x, y, p, k, n
  <2>4. QED  BY <2>1, <2>2, <2>3
<1>9. QED  BY <1>8 DEF c, t

(* A challenge that was tried once more than its equal comes after it.      *)
LEMMA TwinsAreRanked ==
  ASSUME NEW q \in PlatformQuestion.rank
  PROVE  PlatformHolds(q, Judged(q))
<1> DEFINE queue == <<Twin(q), q.c>>
           Earlier(j) == {i \in DOMAIN queue : Before(queue, i, j)}
<1>1. q.of = "rank"  BY DEF PlatformQuestion
<1>2. Judged(q) = ScoreAndRankQueued(queue)  BY <1>1, Zenon DEF Judged
<1>3. SUFFICES ASSUME 2 * (q.older \div 10 + 1) < 5 PROVE ScoreAndRankQueued(queue) = <<q.c, Twin(q)>>
  BY <1>1, <1>2, Zenon DEF PlatformHolds
<1>4. Score(q.c) \in Int /\ Score(Twin(q)) \in Int /\ Score(Twin(q)) < Score(q.c)
  BY <1>3, TwinScoresLess
<1>5. DOMAIN queue = {1, 2} /\ queue[1] = Twin(q) /\ queue[2] = q.c  OBVIOUS
<1> DEFINE age == q.c.age
           older == Twin(q).age
<1>6. age \in Nat /\ older \in Nat
  BY DEF PlatformQuestion, Candidate, Twin
<1> HIDE DEF queue
<1>7. /\ ~Before(queue, 1, 1) /\ Before(queue, 2, 1)
      /\ ~Before(queue, 1, 2) /\ ~Before(queue, 2, 2)
  <2>1. ~Before(queue, 1, 1)  BY <1>4, <1>5, <1>6 DEF Before
  <2>2. Before(queue, 2, 1)   BY <1>4, <1>5 DEF Before
  <2>3. ~Before(queue, 1, 2)  BY <1>4, <1>5 DEF Before
  <2>4. ~Before(queue, 2, 2)  BY <1>4, <1>5, <1>6 DEF Before
  <2>5. QED  BY <2>1, <2>2, <2>3, <2>4
<1>8. Earlier(1) = {2} /\ Earlier(2) = {}  BY <1>5, <1>7
<1>9. Rank(queue, 1) = 2 /\ Rank(queue, 2) = 1
  <2>1. Cardinality({2}) = 1 /\ Cardinality({}) = 0  BY FS_EmptySet, FS_Singleton
  <2>2. QED  BY <2>1, <1>8 DEF Rank
<1>10. /\ (CHOOSE j \in DOMAIN queue : Rank(queue, j) = 1) = 2
      /\ (CHOOSE j \in DOMAIN queue : Rank(queue, j) = 2) = 1
  BY <1>5, <1>9
<1>11. ScoreAndRankQueued(queue) = [k \in {1, 2} |-> IF k = 1 THEN q.c ELSE Twin(q)]
  <2> DEFINE at(k) == CHOOSE j \in DOMAIN queue : Rank(queue, j) = k
  <2>1. ScoreAndRankQueued(queue) = [k \in DOMAIN queue |-> queue[at(k)]]
    BY DEF ScoreAndRankQueued
  <2>2. queue[at(1)] = q.c /\ queue[at(2)] = Twin(q)  BY <1>5, <1>10
  <2> HIDE DEF at
  <2>3. QED  BY <2>1, <2>2, <1>5
<1>12. QED  BY <1>11
-----------------------------------------------------------------------------
(* Probes.                                                                 *)

(* A question is of its kind, and of one kind. *)
LEMMA KindsOfQuestions ==
  /\ \A kind \in FileKinds : \A q \in FileQuestion[kind] : q.of = kind
  /\ \A kind \in PlatformKinds : \A q \in PlatformQuestion[kind] : q.of = kind
  /\ \A kind \in ModelKinds : \A q \in ModelQuestion[kind] : q.of = kind
  /\ \A kind \in CatalogKinds : \A q \in CatalogQuestion[kind] : q.of = kind
<1>1. \A kind \in FileKinds : \A q \in FileQuestion[kind] : q.of = kind
  <2>1. /\ \A q \in FileQuestion["extract"] : q.of = "extract"
        /\ \A q \in FileQuestion["sample"] : q.of = "sample"
        /\ \A q \in FileQuestion["names"] : q.of = "names"
    BY DEF FileQuestion
  <2>2. QED  BY <2>1 DEF FileKinds
<1>2. \A kind \in PlatformKinds : \A q \in PlatformQuestion[kind] : q.of = kind
  <2>1. /\ \A q \in PlatformQuestion["submit"] : q.of = "submit"
        /\ \A q \in PlatformQuestion["ctfd"] : q.of = "ctfd"
        /\ \A q \in PlatformQuestion["download"] : q.of = "download"
        /\ \A q \in PlatformQuestion["start"] : q.of = "start"
        /\ \A q \in PlatformQuestion["rank"] : q.of = "rank"
    BY DEF PlatformQuestion, Responses
  <2>2. QED  BY <2>1 DEF PlatformKinds
<1>3. \A kind \in ModelKinds : \A q \in ModelQuestion[kind] : q.of = kind
  <2>1. /\ \A q \in ModelQuestion["remove"] : q.of = "remove"
        /\ \A q \in ModelQuestion["close"] : q.of = "close"
        /\ \A q \in ModelQuestion["vision"] : q.of = "vision"
        /\ \A q \in ModelQuestion["advise"] : q.of = "advise"
    BY DEF ModelQuestion
  <2>2. QED  BY <2>1 DEF ModelKinds
<1>4. \A kind \in CatalogKinds : \A q \in CatalogQuestion[kind] : q.of = kind
  <2>1. /\ \A q \in CatalogQuestion["tool"] : q.of = "tool"
        /\ \A q \in CatalogQuestion["hints"] : q.of = "hints"
        /\ \A q \in CatalogQuestion["rsa"] : q.of = "rsa"
    BY DEF CatalogQuestion
  <2>2. QED  BY <2>1 DEF CatalogKinds
<1>5. QED  BY <1>1, <1>2, <1>3, <1>4

LEMMA KindsDiffer ==
  /\ FileKinds \cap (PlatformKinds \cup ModelKinds \cup CatalogKinds) = {}
  /\ PlatformKinds \cap (ModelKinds \cup CatalogKinds) = {}
BY DEF FileKinds, PlatformKinds, ModelKinds, CatalogKinds

(* What is asked is a question that makes sense, and the answer is the      *)
(* code's.                                                                  *)
Faithful ==
  /\ ask.of \in FileKinds => ask \in FileQuestion[ask.of] /\ (answer = <<>> \/ answer = <<Handled(ask)>>)
  /\ ask.of \in PlatformKinds =>
       ask \in PlatformQuestion[ask.of] /\ (answer = <<>> \/ answer = <<Judged(ask)>>)

LEMMA ProbesAreFaithful == ProbeSpec => []Faithful
<1>1. ProbeInit => Faithful
  <2> SUFFICES ASSUME ProbeInit PROVE Faithful  OBVIOUS
  <2>1. answer = <<>>  BY DEF ProbeInit
  <2>2. CASE Asked(FileKinds)
    <3>1. PICK kind \in FileKinds : ask \in FileQuestion[kind]
      BY <2>2, InquiriesAssumption DEF Asked
    <3>2. ask.of = kind  BY <3>1, KindsOfQuestions
    <3>3. ask.of \notin PlatformKinds  BY <3>1, <3>2, KindsDiffer
    <3>4. QED  BY <2>1, <3>1, <3>2, <3>3 DEF Faithful
  <2>3. CASE Asked(PlatformKinds)
    <3>1. PICK kind \in PlatformKinds : ask \in PlatformQuestion[kind]
      BY <2>3, InquiriesAssumption DEF Asked
    <3>2. ask.of = kind  BY <3>1, KindsOfQuestions
    <3>3. ask.of \notin FileKinds  BY <3>1, <3>2, KindsDiffer
    <3>4. QED  BY <2>1, <3>1, <3>2, <3>3 DEF Faithful
  <2>4. CASE Asked(ModelKinds) \/ Asked(CatalogKinds)
    <3>1. PICK kind \in ModelKinds \cup CatalogKinds :
                 \/ ask \in ModelQuestion[kind] /\ kind \in ModelKinds
                 \/ ask \in CatalogQuestion[kind] /\ kind \in CatalogKinds
      BY <2>4, InquiriesAssumption DEF Asked
    <3>2. ask.of = kind  BY <3>1, KindsOfQuestions
    <3>3. ask.of \notin FileKinds /\ ask.of \notin PlatformKinds  BY <3>1, <3>2, KindsDiffer
    <3>4. QED  BY <3>3 DEF Faithful
  <2>5. QED  BY <2>2, <2>3, <2>4 DEF ProbeInit
<1>2. Faithful /\ [ProbeNext]_probe => Faithful'
  <2> SUFFICES ASSUME Faithful, [ProbeNext]_probe PROVE Faithful'  OBVIOUS
  <2>1. CASE HandleFile
    <3>1. ask.of \in FileKinds /\ ask.of \notin PlatformKinds /\ ask' = ask /\ answer' = <<Handled(ask)>>
      BY <2>1, KindsDiffer DEF HandleFile, Answering
    <3>2. QED  BY <3>1 DEF Faithful
  <2>2. CASE AskThePlatform
    <3>1. ask.of \in PlatformKinds /\ ask.of \notin FileKinds /\ ask' = ask /\ answer' = <<Judged(ask)>>
      BY <2>2, KindsDiffer DEF AskThePlatform, Answering
    <3>2. QED  BY <3>1 DEF Faithful
  <2>3. CASE ChooseModel \/ ConsultCatalog
    <3>1. ask.of \notin FileKinds /\ ask.of \notin PlatformKinds /\ ask' = ask
      BY <2>3, KindsDiffer DEF ChooseModel, ConsultCatalog, Answering
    <3>2. QED  BY <3>1 DEF Faithful
  <2>4. CASE UNCHANGED probe  BY <2>4 DEF probe, Faithful
  <2>5. QED  BY <2>1, <2>2, <2>3, <2>4 DEF ProbeNext
<1>3. QED  BY <1>1, <1>2, PTL DEF ProbeSpec

(* Whatever files the tools are given (any number of entries, sizes and     *)
(* names): an archive stays within its budget and its directory, an         *)
(* inspection knows what it has not seen, and names stay apart.             *)
THEOREM FilesStayWhole == ProbeSpec => []FilesAreWhole
<1>1. Faithful => FilesAreWhole
  <2>1. SUFFICES ASSUME Faithful, ask.of \in FileKinds, answer # <<>> PROVE FilesHold(ask, answer[1])
    BY DEF FilesAreWhole
  <2>2. ask \in FileQuestion[ask.of] /\ answer[1] = Handled(ask)  BY <2>1 DEF Faithful
  <2>3. CASE ask.of = "extract"
    <3>1. ask \in FileQuestion.extract  BY <2>2, <2>3
    <3>2. Handled(ask) = ExtractZipFromFile(ask.entries, ask.o)  BY <2>3, Zenon DEF Handled
    <3>3. Extracted(ask, answer[1])  BY <2>2, <3>1, <3>2, ExtractionIsSafe
    <3>4. QED  BY <2>3, <3>3, Zenon DEF FilesHold
  <2>4. CASE ask.of = "sample"
    <3>1. ask.size \in Nat /\ ask.window \in Nat \ {0}  BY <2>2, <2>4 DEF FileQuestion
    <3>2. Handled(ask) = SampleFileWindows(ask.size, ask.window)  BY <2>4 DEF Handled
    <3>3. answer[1].partial <=> answer[1].seen # 0..ask.size - 1
      BY <2>2, <3>1, <3>2, SamplesAreHonest
    <3>4. QED  BY <2>4, <3>3 DEF FilesHold
  <2>5. CASE ask.of = "names"
    <3>1. ask.names \in Seq(DiskName)  BY <2>2, <2>5 DEF FileQuestion
    <3>2. Handled(ask) = DiskNames(ask.names)  BY <2>5 DEF Handled
    <3>3. DOMAIN answer[1] = DOMAIN ask.names /\ Distinct(answer[1])
      BY <2>2, <3>1, <3>2, NamesAreDistinct
    <3>4. QED  BY <2>5, <3>3 DEF FilesHold, Distinct
  <2>6. QED  BY <2>1, <2>3, <2>4, <2>5 DEF FileKinds
<1>2. QED  BY <1>1, ProbesAreFaithful, PTL

(* Whatever a platform answers, in whatever order and with whatever body,   *)
(* what PlatformsAreBelieved says of verdicts, downloads, starts and the    *)
(* ranking holds.                                                           *)
THEOREM PlatformsStayBelieved == ProbeSpec => []PlatformsAreBelieved
<1>1. Faithful => PlatformsAreBelieved
  <2>1. SUFFICES ASSUME Faithful, ask.of \in PlatformKinds, answer # <<>> PROVE PlatformHolds(ask, answer[1])
    BY DEF PlatformsAreBelieved
  <2>2. ask \in PlatformQuestion[ask.of] /\ answer[1] = Judged(ask)  BY <2>1 DEF Faithful
  <2>3. CASE ask.of = "submit"
    <3>1. ask \in PlatformQuestion.submit  BY <2>2, <2>3
    <3>2. QED  BY <2>2, <2>3, <3>1, VerdictsAreBelieved, Zenon DEF PlatformHolds
  <2>4. CASE ask.of = "download"
    <3>1. ask \in PlatformQuestion.download  BY <2>2, <2>4
    <3>2. QED  BY <2>2, <2>4, <3>1, DownloadsAreWhole, Zenon DEF PlatformHolds
  <2>5. CASE ask.of = "ctfd"
    <3>1. ask \in PlatformQuestion.ctfd  BY <2>2, <2>5
    <3>2. QED  BY <2>2, <3>1, VerdictsOfCtfd
  <2>6. CASE ask.of = "start"
    <3>1. ask \in PlatformQuestion.start  BY <2>2, <2>6
    <3>2. QED  BY <2>2, <3>1, StartsAreBelieved
  <2>7. CASE ask.of = "rank"
    <3>1. ask \in PlatformQuestion.rank  BY <2>2, <2>7
    <3>2. QED  BY <2>2, <3>1, TwinsAreRanked
  <2>8. QED  BY <2>1, <2>3, <2>4, <2>5, <2>6, <2>7 DEF PlatformKinds
<1>2. QED  BY <1>1, ProbesAreFaithful, PTL
=============================================================================
