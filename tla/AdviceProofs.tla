----------------------------- MODULE AdviceProofs -----------------------------
(***************************************************************************)
(* Proofs about Advice, for any number of reviews, slots and hint ticks    *)
(* and any faults: a state of the solver is reviewed once, a review is     *)
(* handed over once, and the slots of the reviews are accounted for.       *)
(***************************************************************************)
EXTENDS Advice, FiniteSetTheorems, TLAPS

Rows == [status : ReviewStatus, print : 0..MaxNews, delivered : BOOLEAN, parses : BOOLEAN]

Finished == {"COMPLETED", "FALLBACK"}

Running == {r \in Reviews : review[r].status = "RUNNING"}

(* The rows are used in order. *)
Consecutive == \E n \in 0..MaxReviews : Used = 1..n

(* A review that was told is marked, and only a finished one is marked.     *)
Ledger ==
  \A r \in Reviews :
    /\ told[r] <= 1
    /\ told[r] > 0 => review[r].delivered
    /\ review[r].delivered => review[r].status \in Finished

(* AdviceInv and OncePerState are not inductive: that a review is told once *)
(* rests on the mark in its row, that the next row is free on the order of  *)
(* the rows, and that crashes have a bound on the bound of the faults.      *)
IInv ==
  /\ TypeOK
  /\ Consecutive
  /\ OncePerState
  /\ SlotsBalance
  /\ Ledger
  /\ crashes <= faults

LEMMA Bounds ==
  /\ MaxReviews \in Nat \ {0} /\ MaxNews \in Nat /\ Room \in Nat \ {0} /\ MaxFaults \in Nat
  /\ Reviews = 1..MaxReviews
BY AdviceAssumption DEF Reviews

(* Running is finite, and grows and shrinks by one. *)
LEMMA RunningCount ==
  ASSUME NEW r
  PROVE  /\ IsFiniteSet(Running) /\ Cardinality(Running) \in Nat
         /\ Cardinality(Running \cup {r}) = IF r \in Running THEN Cardinality(Running) ELSE Cardinality(Running) + 1
         /\ Cardinality(Running \ {r}) = IF r \in Running THEN Cardinality(Running) - 1 ELSE Cardinality(Running)
<1>1. IsFiniteSet(Reviews)
  BY Bounds, FS_Interval
<1>2. Running \in SUBSET Reviews
  BY DEF Running
<1>3. IsFiniteSet(Running)
  BY <1>1, <1>2, FS_Subset
<1>4. QED BY <1>3, FS_CardinalityType, FS_AddElement, FS_RemoveElement

(* The row for the next review is free. *)
LEMMA FreshRow ==
  ASSUME IInv, Fresh \in Reviews
  PROVE  /\ Used \cup {Fresh} = 1..Fresh /\ Fresh \in 1..MaxReviews
         /\ Fresh \notin Used /\ review[Fresh].status = "NONE"
<1>1. PICK n \in 0..MaxReviews : Used = 1..n
  BY DEF IInv, Consecutive
<1>2. Cardinality(Used) = n
  BY <1>1, Bounds, FS_Interval
<1>3. Fresh = n + 1
  BY <1>2 DEF Fresh
<1>4. Used \cup {Fresh} = 1..Fresh
  BY <1>1, <1>3
<1>5. Fresh \notin Used
  BY <1>1, <1>3
<1>6. QED BY <1>4, <1>5, Bounds DEF Used

(* Writing one row. *)
LEMMA OneRow ==
  ASSUME TypeOK, NEW r \in Reviews, NEW row \in Rows, row.status # "NONE",
         review' = [review EXCEPT ![r] = row]
  PROVE  /\ review' \in [Reviews -> Rows]
         /\ review'[r] = row
         /\ \A q \in Reviews \ {r} : review'[q] = review[q]
         /\ Used' = Used \cup {r}
         /\ Running' = IF row.status = "RUNNING" THEN Running \cup {r} ELSE Running \ {r}
<1>1. review \in [Reviews -> Rows]
  BY DEF TypeOK, Rows
<1>2. /\ review' \in [Reviews -> Rows]
      /\ review'[r] = row
      /\ \A q \in Reviews \ {r} : review'[q] = review[q]
  BY <1>1
<1>3. Used' = Used \cup {r}
  BY <1>2 DEF Used
<1>4. Running' = IF row.status = "RUNNING" THEN Running \cup {r} ELSE Running \ {r}
  <2>1. CASE row.status = "RUNNING"
    BY <1>2, <2>1 DEF Running
  <2>2. CASE row.status # "RUNNING"
    BY <1>2, <2>2 DEF Running
  <2>3. QED BY <2>1, <2>2
<1>5. QED BY <1>2, <1>3, <1>4

(* A row that goes on, with its print: the states stay reviewed once.       *)
LEMMA SamePrintOnce ==
  ASSUME IInv, NEW r \in Used, NEW row \in Rows,
         review' \in [Reviews -> Rows], review'[r] = row,
         \A q \in Reviews \ {r} : review'[q] = review[q],
         Used' = Used,
         row.print = review[r].print,
         review[r].status \in {"FAILED", "SKIPPED"} => row.status \in {"FAILED", "SKIPPED"}
  PROVE  OncePerState' /\ Consecutive'
<1>1. Used \subseteq Reviews
  BY DEF Used
<1>2. ASSUME NEW p \in Used, NEW q \in Used, p # q, review'[p].print = review'[q].print
      PROVE  review'[p].status \in {"FAILED", "SKIPPED"} \/ review'[q].status \in {"FAILED", "SKIPPED"}
  <2>1. review[p].print = review[q].print
    BY <1>1, <1>2
  <2>2. review[p].status \in {"FAILED", "SKIPPED"} \/ review[q].status \in {"FAILED", "SKIPPED"}
    BY <1>2, <2>1 DEF IInv, OncePerState
  <2>3. QED BY <1>1, <2>2
<1>3. OncePerState'
  BY <1>2 DEF OncePerState
<1>4. QED BY <1>3 DEF IInv, Consecutive

(* A new row, for a state that nobody has reviewed. *)
LEMMA NewPrintOnce ==
  ASSUME IInv, NEW r \in Reviews, r \notin Used, ~Duplicate(news),
         review' \in [Reviews -> Rows], review'[r].print = news,
         \A q \in Reviews \ {r} : review'[q] = review[q],
         Used' = Used \cup {r}
  PROVE  OncePerState'
<1>1. Used \subseteq Reviews
  BY DEF Used
<1>2. \A q \in Used : review[q].print = news => review[q].status \in {"FAILED", "SKIPPED"}
  BY <1>1 DEF Duplicate, IInv, TypeOK, ReviewStatus, Used
<1>3. ASSUME NEW p \in Used', NEW q \in Used', p # q, review'[p].print = review'[q].print
      PROVE  review'[p].status \in {"FAILED", "SKIPPED"} \/ review'[q].status \in {"FAILED", "SKIPPED"}
  <2>1. CASE p = r
    BY <1>1, <1>2, <1>3, <2>1
  <2>2. CASE q = r
    BY <1>1, <1>2, <1>3, <2>2
  <2>3. CASE p # r /\ q # r
    <3>1. p \in Used /\ q \in Used /\ review'[p] = review[p] /\ review'[q] = review[q]
      BY <1>1, <1>3, <2>3
    <3>2. QED BY <1>3, <3>1 DEF IInv, OncePerState
  <2>4. QED BY <2>1, <2>2, <2>3
<1>4. QED BY <1>3 DEF OncePerState
-----------------------------------------------------------------------------
LEMMA AdviceInit ==
  ASSUME Init
  PROVE  IInv
<1>1. TypeOK
  <2>1. NoReview \in Rows
    BY Bounds DEF NoReview, Rows, ReviewStatus
  <2>2. Away \in [at : {"no", "list", "call"}, seen : HintStatus, slack : BOOLEAN]
    BY DEF Away, HintStatus
  <2>3. 0 \in Nat /\ 0 \in 0..MaxNews /\ 0 \in 0..MaxReviews /\ 0 \in 0..Room /\ 0 \in 0..MaxFaults
    BY Bounds
  <2>4. QED BY <2>1, <2>2, <2>3, Zenon DEF Init, TypeOK, Rows, HintStatus
<1>2. Used = {} /\ Running = {}
  BY DEF Init, Used, Running, NoReview
<1>3. Consecutive
  <2>1. Used = 1..0 /\ 0 \in 0..MaxReviews
    BY <1>2, Bounds
  <2>2. QED BY <2>1 DEF Consecutive
<1>4. OncePerState
  BY <1>2 DEF OncePerState
<1>5. SlotsBalance
  BY <1>2, FS_EmptySet DEF Init, SlotsBalance, Running
<1>6. Ledger
  BY DEF Init, Ledger, NoReview
<1>7. crashes <= faults
  BY DEF Init
<1>8. QED BY <1>1, <1>3, <1>4, <1>5, <1>6, <1>7 DEF IInv

(* Steps that leave the reviews and their slots alone. *)
LEMMA RowsAlone ==
  ASSUME IInv, TypeOK', UNCHANGED <<review, told, slots, others>>, crashes' <= faults'
  PROVE  IInv'
BY DEF IInv, Consecutive, Used, OncePerState, SlotsBalance, Ledger

LEMMA StartWorkerKeeps ==
  ASSUME IInv, StartWorker
  PROVE  IInv'
<1>1. Pending \subseteq Reviews /\ \A r \in Pending : review[r].status \in Finished /\ ~review[r].delivered
  BY DEF Pending, Open, Used, Finished
<1>2. review \in [Reviews -> Rows] /\ told \in [Reviews -> Nat]
  BY DEF IInv, TypeOK, Rows
<1>3. \A r \in Reviews :
        /\ review'[r] = IF r \in Pending THEN [review[r] EXCEPT !.delivered = TRUE] ELSE review[r]
        /\ told'[r] = IF r \in Pending THEN told[r] + 1 ELSE told[r]
  BY DEF StartWorker, Posted, Told
<1>4. \A r \in Reviews : /\ review'[r] \in Rows
                         /\ review'[r].status = review[r].status
                         /\ review'[r].print = review[r].print
                         /\ r \in Pending => review'[r].delivered
                         /\ r \notin Pending => review'[r].delivered = review[r].delivered
  BY <1>2, <1>3 DEF Rows
<1>5. review' \in [Reviews -> Rows] /\ told' \in [Reviews -> Nat]
  <2>1. review' = [r \in Reviews |-> review'[r]] /\ told' = [r \in Reviews |-> told'[r]]
    BY DEF StartWorker, Posted, Told
  <2>2. ASSUME NEW r \in Reviews
        PROVE  told'[r] \in Nat
    <3>1. told'[r] = told[r] + 1 \/ told'[r] = told[r]
      BY <1>3
    <3>2. QED BY <1>2, <3>1
  <2>3. QED BY <1>4, <2>1, <2>2
<1>6. Used' = Used
  BY <1>4 DEF Used
<1>7. Consecutive' /\ OncePerState' /\ SlotsBalance'
  <2>1. Running' = Running
    BY <1>4 DEF Running
  <2>2. SlotsBalance'
    BY <2>1 DEF IInv, SlotsBalance, Running, StartWorker
  <2>3. OncePerState'
    BY <1>4, <1>6 DEF IInv, OncePerState, Used
  <2>4. QED BY <1>6, <2>2, <2>3 DEF IInv, Consecutive
<1>8. Ledger'
  <2>1. ASSUME NEW r \in Reviews
        PROVE  /\ told'[r] <= 1
               /\ told'[r] > 0 => review'[r].delivered
               /\ review'[r].delivered => review'[r].status \in Finished
    <3>1. CASE r \in Pending
      <4>1. ~review[r].delivered /\ review[r].status \in Finished
        BY <1>1, <3>1
      <4>2. told[r] = 0
        BY <1>2, <4>1 DEF IInv, Ledger
      <4>3. told'[r] = 1
        <5>1. told'[r] = told[r] + 1
          BY <1>3, <3>1
        <5>2. QED BY <4>2, <5>1
      <4>4. QED BY <1>4, <3>1, <4>1, <4>3
    <3>2. CASE r \notin Pending
      BY <1>3, <1>4, <3>2 DEF IInv, Ledger
    <3>3. QED BY <3>1, <3>2
  <2>2. QED BY <2>1 DEF Ledger
<1>9. faults' \in 0..MaxFaults /\ faults' >= faults
  <2>1. faults' = faults \/ (faults < MaxFaults /\ faults' = faults + 1)
    BY DEF StartWorker, Fault
  <2>2. QED BY <2>1, Bounds DEF IInv, TypeOK
<1>10. TypeOK'
  <2>1. mail' \subseteq Reviews /\ worker' \in {"none", "opening", "listening"}
    BY <1>1 DEF StartWorker, IInv, TypeOK
  <2>2. QED BY <1>5, <1>9, <2>1 DEF IInv, TypeOK, StartWorker, hintVars, stallVars, Rows
<1>11. crashes' <= faults'
  BY <1>9 DEF StartWorker, IInv, TypeOK
<1>12. QED BY <1>7, <1>8, <1>10, <1>11 DEF IInv

(* A review that is finished now, handed to the worker that is there.       *)
LEMMA CompleteFacts ==
  ASSUME IInv, NEW r \in Reviews, NEW status \in Finished, NEW parses \in BOOLEAN, Complete(r, status, parses),
         review[r].status \notin Finished
  PROVE  /\ \E row \in Rows :
              /\ review' = [review EXCEPT ![r] = row]
              /\ row.status = status
              /\ row.print = IF review[r].status = "NONE" THEN news ELSE review[r].print
         /\ told' \in [Reviews -> Nat] /\ heard' \subseteq Reviews
         /\ Ledger'
<1> DEFINE row == [status |-> status,
                   print |-> IF review[r].status = "NONE" THEN news ELSE review[r].print,
                   delivered |-> Injected, parses |-> parses]
<1>1. review' = [review EXCEPT ![r] = row]
  BY DEF Complete
<1>2. review \in [Reviews -> Rows] /\ told \in [Reviews -> Nat] /\ news \in 0..MaxNews
  BY DEF IInv, TypeOK, Rows
<1>3. Injected \in BOOLEAN
  BY DEF Injected
<1>4. row \in Rows
  BY <1>2, <1>3 DEF Rows, ReviewStatus, Finished
<1>5. ~review[r].delivered /\ told[r] = 0
  BY <1>2 DEF IInv, Ledger
<1>6. \A q \in Reviews : told'[q] = IF q = r /\ Injected THEN told[q] + 1 ELSE told[q]
  BY DEF Complete, Told
<1>7. told' \in [Reviews -> Nat]
  <2>1. told' = [q \in Reviews |-> told'[q]]
    BY DEF Complete, Told
  <2>2. ASSUME NEW q \in Reviews
        PROVE  told'[q] \in Nat
    <3>1. told'[q] = told[q] + 1 \/ told'[q] = told[q]
      BY <1>6
    <3>2. QED BY <1>2, <3>1
  <2>3. QED BY <2>1, <2>2
<1>8. heard' \subseteq Reviews
  BY DEF Complete, Hears, IInv, TypeOK
<1>9. Ledger'
  <2>1. ASSUME NEW q \in Reviews
        PROVE  /\ told'[q] <= 1
               /\ told'[q] > 0 => review'[q].delivered
               /\ review'[q].delivered => review'[q].status \in Finished
    <3>1. CASE q = r
      <4>1. review'[q] = row
        BY <1>1, <1>2, <3>1
      <4>2. CASE Injected
        <5>1. told'[q] = 1
          BY <1>5, <1>6, <3>1, <4>2
        <5>2. QED BY <4>1, <4>2, <5>1
      <4>3. CASE ~Injected
        <5>1. told'[q] = 0
          BY <1>5, <1>6, <3>1, <4>3
        <5>2. QED BY <4>1, <4>3, <5>1
      <4>4. QED BY <4>2, <4>3
    <3>2. CASE q # r
      <4>1. review'[q] = review[q] /\ told'[q] = told[q]
        BY <1>1, <1>2, <1>6, <3>2
      <4>2. QED BY <4>1 DEF IInv, Ledger
    <3>3. QED BY <3>1, <3>2
  <2>2. QED BY <2>1 DEF Ledger
<1>10. QED BY <1>1, <1>4, <1>7, <1>8, <1>9

(* A row whose review is not finished and stays so: nobody is told.         *)
LEMMA OtherLedger ==
  ASSUME IInv, NEW r \in Reviews, NEW row \in Rows, review' = [review EXCEPT ![r] = row],
         row.delivered => row.status \in Finished,
         row.delivered = review[r].delivered,
         UNCHANGED told
  PROVE  Ledger'
<1>1. review \in [Reviews -> Rows]
  BY DEF IInv, TypeOK, Rows
<1>2. ASSUME NEW q \in Reviews
      PROVE  /\ told'[q] <= 1
             /\ told'[q] > 0 => review'[q].delivered
             /\ review'[q].delivered => review'[q].status \in Finished
  <2>1. CASE q = r
    BY <1>1, <2>1 DEF IInv, Ledger
  <2>2. CASE q # r
    BY <1>1, <2>2 DEF IInv, Ledger
  <2>3. QED BY <2>1, <2>2
<1>3. QED BY <1>2 DEF Ledger

LEMMA ReflectKeeps ==
  ASSUME IInv, NEW auto \in BOOLEAN, NEW bypass \in BOOLEAN, Reflect(auto, bypass)
  PROVE  IInv'
<1> DEFINE r == Fresh
<1>1. r \in Reviews /\ ~Duplicate(news)
  BY DEF Reflect
<1>2. /\ Used \cup {r} = 1..r /\ r \in 1..MaxReviews
      /\ r \notin Used /\ review[r].status = "NONE"
  BY <1>1, FreshRow
<1>3. review[r].status \notin Finished /\ ~review[r].delivered /\ r \notin Running
  BY <1>1, <1>2 DEF IInv, Ledger, TypeOK, Finished, Running
<1> HIDE DEF r
<1>4. \E row \in Rows :
        /\ review' = [review EXCEPT ![r] = row]
        /\ row.status # "NONE" /\ row.print = news
        /\ slots' = IF row.status = "RUNNING" THEN slots + 1 ELSE slots
        /\ slots' \in 0..Room
        /\ told' \in [Reviews -> Nat] /\ heard' \subseteq Reviews
        /\ Ledger'
  <2>1. CASE mode \in {"OFF", "HEURISTIC"}
    <3>1. (\E parses \in BOOLEAN : Complete(r, "COMPLETED", parses)) /\ slots' = slots
      BY <2>1 DEF Reflect, r
    <3>2. PICK row \in Rows : /\ review' = [review EXCEPT ![r] = row]
                              /\ row.status = "COMPLETED" /\ row.print = news
      BY <1>1, <1>2, <1>3, <3>1, CompleteFacts DEF Finished
    <3>3. told' \in [Reviews -> Nat] /\ heard' \subseteq Reviews /\ Ledger'
      BY <1>1, <1>3, <3>1, CompleteFacts DEF Finished
    <3>4. slots' \in 0..Room
      BY <3>1 DEF IInv, TypeOK
    <3>5. QED BY <3>1, <3>2, <3>3, <3>4
  <2>2. CASE mode \notin {"OFF", "HEURISTIC"}
    <3>1. \E status \in {"RUNNING", "SKIPPED", "PENDING"} :
            /\ Row(r, status)
            /\ slots' = IF status = "RUNNING" THEN slots + 1 ELSE slots
            /\ status = "RUNNING" => slots < Room
      BY <2>2 DEF Reflect, r
    <3>2. PICK status \in {"RUNNING", "SKIPPED", "PENDING"} :
            /\ Row(r, status)
            /\ slots' = IF status = "RUNNING" THEN slots + 1 ELSE slots
            /\ status = "RUNNING" => slots < Room
      BY <3>1
    <3> DEFINE row == [status |-> status, print |-> news, delivered |-> FALSE, parses |-> TRUE]
    <3>3. row \in Rows
      BY DEF Rows, ReviewStatus, IInv, TypeOK
    <3>4. review' = [review EXCEPT ![r] = row]
      BY <3>2 DEF Row
    <3>5. told' = told /\ heard' = heard
      BY <2>2 DEF Reflect
    <3>6. Ledger'
      BY <1>1, <1>3, <3>3, <3>4, <3>5, OtherLedger DEF IInv, TypeOK
    <3>7. slots' \in 0..Room
      BY <3>2, Bounds DEF IInv, TypeOK
    <3>8. told' \in [Reviews -> Nat] /\ heard' \subseteq Reviews
      BY <3>5 DEF IInv, TypeOK
    <3>9. QED BY <3>2, <3>3, <3>4, <3>6, <3>7, <3>8
  <2>3. QED BY <2>1, <2>2
<1>5. PICK row \in Rows :
        /\ review' = [review EXCEPT ![r] = row]
        /\ row.status # "NONE" /\ row.print = news
        /\ slots' = IF row.status = "RUNNING" THEN slots + 1 ELSE slots
        /\ slots' \in 0..Room
        /\ told' \in [Reviews -> Nat] /\ heard' \subseteq Reviews
        /\ Ledger'
  BY <1>4
<1>6. /\ review' \in [Reviews -> Rows] /\ review'[r] = row
      /\ \A q \in Reviews \ {r} : review'[q] = review[q]
      /\ Used' = Used \cup {r}
      /\ Running' = IF row.status = "RUNNING" THEN Running \cup {r} ELSE Running \ {r}
  BY <1>1, <1>5, OneRow DEF IInv
<1>7. OncePerState'
  BY <1>1, <1>2, <1>5, <1>6, NewPrintOnce
<1>8. Consecutive'
  BY <1>2, <1>6, Bounds DEF Consecutive
<1>9. SlotsBalance'
  <2>1. slots = others + Cardinality(Running) /\ others \in Nat /\ others' = others
    BY DEF IInv, SlotsBalance, Running, TypeOK, Reflect
  <2>2. CASE row.status = "RUNNING"
    <3>1. Cardinality(Running') = Cardinality(Running) + 1 /\ Cardinality(Running) \in Nat
      BY <1>3, <1>6, <2>2, RunningCount
    <3>2. slots' = slots + 1
      BY <1>5, <2>2
    <3>3. slots' = others' + Cardinality(Running')
      BY <2>1, <3>1, <3>2
    <3>4. QED BY <3>3 DEF SlotsBalance, Running
  <2>3. CASE row.status # "RUNNING"
    <3>1. Running' = Running
      BY <1>3, <1>6, <2>3
    <3>2. slots' = others' + Cardinality(Running')
      BY <1>5, <2>1, <2>3, <3>1
    <3>3. QED BY <3>2 DEF SlotsBalance, Running
  <2>4. QED BY <2>2, <2>3
<1>10. TypeOK'
  <2>1. newest' \in 0..MaxReviews
    BY <1>2, Bounds DEF Reflect, r
  <2>2. cooling' \in BOOLEAN
    BY DEF Reflect
  <2>3. QED BY <1>5, <1>6, <2>1, <2>2 DEF IInv, TypeOK, Reflect, hintVars, stallVars, Rows
<1>11. QED BY <1>5, <1>7, <1>8, <1>9, <1>10 DEF IInv, Reflect

(* A review that goes on: its row, and with it at most one slot.            *)
LEMMA RowGoesOn ==
  ASSUME IInv, TypeOK', NEW r \in Reviews, NEW row \in Rows,
         review' = [review EXCEPT ![r] = row],
         review[r].status \in {"PENDING", "RUNNING"}, row.status # "NONE",
         row.print = review[r].print,
         slots' = IF row.status = "RUNNING"
                  THEN (IF review[r].status = "RUNNING" THEN slots ELSE slots + 1)
                  ELSE (IF review[r].status = "RUNNING" THEN slots - 1 ELSE slots),
         others' = others, Ledger', crashes' <= faults'
  PROVE  IInv'
<1>1. r \in Used
  BY DEF Used
<1>2. /\ review' \in [Reviews -> Rows] /\ review'[r] = row
      /\ \A q \in Reviews \ {r} : review'[q] = review[q]
      /\ Used' = Used \cup {r}
      /\ Running' = IF row.status = "RUNNING" THEN Running \cup {r} ELSE Running \ {r}
  BY OneRow DEF IInv
<1>3. Used' = Used
  BY <1>1, <1>2
<1>4. OncePerState' /\ Consecutive'
  BY <1>1, <1>2, <1>3, SamePrintOnce
<1>5. SlotsBalance'
  <2>1. slots = others + Cardinality(Running) /\ others \in Nat
    BY DEF IInv, SlotsBalance, Running, TypeOK
  <2>2. r \in Running <=> review[r].status = "RUNNING"
    BY DEF Running
  <2>3. Cardinality(Running) \in Nat
    BY RunningCount
  <2>4. CASE row.status = "RUNNING"
    <3>1. Cardinality(Running') = IF r \in Running THEN Cardinality(Running) ELSE Cardinality(Running) + 1
      BY <1>2, <2>4, RunningCount
    <3>2. slots' = IF r \in Running THEN slots ELSE slots + 1
      BY <2>2, <2>4
    <3>3. slots' = others' + Cardinality(Running')
      BY <2>1, <2>3, <3>1, <3>2
    <3>4. QED BY <3>3 DEF SlotsBalance, Running
  <2>5. CASE row.status # "RUNNING"
    <3>1. Cardinality(Running') = IF r \in Running THEN Cardinality(Running) - 1 ELSE Cardinality(Running)
      BY <1>2, <2>5, RunningCount
    <3>2. slots' = IF r \in Running THEN slots - 1 ELSE slots
      BY <2>2, <2>5
    <3>3. slots' = others' + Cardinality(Running')
      BY <2>1, <2>3, <3>1, <3>2
    <3>4. QED BY <3>3 DEF SlotsBalance, Running
  <2>6. QED BY <2>4, <2>5
<1>6. QED BY <1>4, <1>5 DEF IInv

(* A running review holds a slot. *)
LEMMA SlotHeld ==
  ASSUME IInv, NEW r \in Reviews, review[r].status = "RUNNING"
  PROVE  slots \in 1..Room
<1>1. r \in Running
  BY DEF Running
<1>2. IsFiniteSet(Running) /\ Cardinality(Running) \in Nat
  BY RunningCount
<1>3. Cardinality(Running) # 0
  BY <1>1, <1>2, FS_EmptySet
<1>4. slots = others + Cardinality(Running) /\ others \in Nat /\ slots \in 0..Room
  BY Bounds DEF IInv, SlotsBalance, Running, TypeOK
<1>5. QED BY <1>2, <1>3, <1>4, Bounds

LEMMA GetSlotKeeps ==
  ASSUME IInv, NEW r \in Reviews, GetSlot(r)
  PROVE  IInv'
<1> DEFINE row == [review[r] EXCEPT !.status = "RUNNING"]
<1>1. review \in [Reviews -> Rows]
  BY DEF IInv, TypeOK, Rows
<1>2. row \in Rows /\ row.status = "RUNNING" /\ row.print = review[r].print
      /\ row.delivered = review[r].delivered
  BY <1>1 DEF Rows, ReviewStatus
<1>3. review' = [review EXCEPT ![r] = row] /\ UNCHANGED <<told, others>>
  BY DEF GetSlot
<1>4. ~review[r].delivered
  BY DEF GetSlot, IInv, Ledger, Finished
<1>5. Ledger'
  BY <1>2, <1>3, <1>4, OtherLedger
<1>6. TypeOK'
  <2>1. review' \in [Reviews -> Rows]
    BY <1>1, <1>2, <1>3
  <2>2. slots' \in 0..Room
    BY Bounds DEF GetSlot, IInv, TypeOK
  <2>3. QED BY <2>1, <2>2 DEF IInv, TypeOK, GetSlot, hintVars, stallVars, Rows
<1>7. QED BY <1>2, <1>3, <1>5, <1>6, RowGoesOn DEF GetSlot, IInv

LEMMA GiveUpKeeps ==
  ASSUME IInv, NEW r \in Reviews, GiveUp(r)
  PROVE  IInv'
<1> DEFINE row == [review[r] EXCEPT !.status = "SKIPPED"]
<1>1. review \in [Reviews -> Rows]
  BY DEF IInv, TypeOK, Rows
<1>2. row \in Rows /\ row.status = "SKIPPED" /\ row.print = review[r].print
      /\ row.delivered = review[r].delivered
  BY <1>1 DEF Rows, ReviewStatus
<1>3. review' = [review EXCEPT ![r] = row] /\ UNCHANGED <<told, others, slots>>
  BY DEF GiveUp
<1>4. ~review[r].delivered
  BY DEF GiveUp, IInv, Ledger, Finished
<1>5. Ledger'
  BY <1>2, <1>3, <1>4, OtherLedger
<1>6. TypeOK'
  <2>1. review' \in [Reviews -> Rows]
    BY <1>1, <1>2, <1>3
  <2>2. cooling' \in BOOLEAN
    BY DEF GiveUp
  <2>3. QED BY <2>1, <2>2 DEF IInv, TypeOK, GiveUp, hintVars, stallVars, Rows
<1>7. QED BY <1>2, <1>3, <1>5, <1>6, RowGoesOn DEF GiveUp, IInv

LEMMA ReviewEndsKeeps ==
  ASSUME IInv, NEW r \in Reviews, ReviewEnds(r)
  PROVE  IInv'
<1>1. review \in [Reviews -> Rows] /\ review[r].status = "RUNNING"
  BY DEF IInv, TypeOK, Rows, ReviewEnds
<1>2. review[r].status \notin Finished /\ ~review[r].delivered
  BY <1>1 DEF IInv, Ledger, Finished
<1>3. slots' = slots - 1 /\ slots' \in 0..Room
  <2>1. slots \in 1..Room
    BY <1>1, SlotHeld
  <2>2. QED BY <2>1, Bounds DEF ReviewEnds, ReleaseSlot
<1>4. faults' \in 0..MaxFaults /\ faults' >= faults
  <2>1. faults' = faults \/ (faults < MaxFaults /\ faults' = faults + 1)
    BY DEF ReviewEnds, Fault
  <2>2. QED BY <2>1, Bounds DEF IInv, TypeOK
<1>5. \E row \in Rows :
        /\ review' = [review EXCEPT ![r] = row]
        /\ row.status \in {"COMPLETED", "FALLBACK", "FAILED"} /\ row.print = review[r].print
        /\ told' \in [Reviews -> Nat] /\ heard' \subseteq Reviews
        /\ Ledger'
  <2>1. ASSUME NEW status \in Finished, NEW parses \in BOOLEAN, Complete(r, status, parses)
        PROVE  \E row \in Rows :
                 /\ review' = [review EXCEPT ![r] = row]
                 /\ row.status \in {"COMPLETED", "FALLBACK", "FAILED"} /\ row.print = review[r].print
                 /\ told' \in [Reviews -> Nat] /\ heard' \subseteq Reviews
                 /\ Ledger'
    BY <1>1, <1>2, <2>1, CompleteFacts DEF Finished
  <2>2. ASSUME review' = [review EXCEPT ![r].status = "FAILED"], UNCHANGED <<told, heard>>
        PROVE  \E row \in Rows :
                 /\ review' = [review EXCEPT ![r] = row]
                 /\ row.status \in {"COMPLETED", "FALLBACK", "FAILED"} /\ row.print = review[r].print
                 /\ told' \in [Reviews -> Nat] /\ heard' \subseteq Reviews
                 /\ Ledger'
    <3> DEFINE row == [review[r] EXCEPT !.status = "FAILED"]
    <3>1. row \in Rows /\ row.status = "FAILED" /\ row.print = review[r].print /\ row.delivered = review[r].delivered
      BY <1>1 DEF Rows, ReviewStatus
    <3>2. review' = [review EXCEPT ![r] = row]
      BY <2>2
    <3>3. Ledger'
      BY <1>2, <2>2, <3>1, <3>2, OtherLedger
    <3>4. told' \in [Reviews -> Nat] /\ heard' \subseteq Reviews
      BY <2>2 DEF IInv, TypeOK
    <3>5. QED BY <3>1, <3>2, <3>3, <3>4
  <2>3. \/ \E status \in Finished, parses \in BOOLEAN : Complete(r, status, parses)
        \/ review' = [review EXCEPT ![r].status = "FAILED"] /\ UNCHANGED <<told, heard>>
    BY DEF ReviewEnds, Finished
  <2>4. QED BY <2>1, <2>2, <2>3
<1>6. PICK row \in Rows :
        /\ review' = [review EXCEPT ![r] = row]
        /\ row.status \in {"COMPLETED", "FALLBACK", "FAILED"} /\ row.print = review[r].print
        /\ told' \in [Reviews -> Nat] /\ heard' \subseteq Reviews
        /\ Ledger'
  BY <1>5
<1>7. TypeOK'
  <2>1. review' \in [Reviews -> Rows]
    BY <1>1, <1>6
  <2>2. cooling' \in BOOLEAN
    BY DEF ReviewEnds
  <2>3. QED BY <1>3, <1>4, <1>6, <2>1, <2>2 DEF IInv, TypeOK, ReviewEnds, hintVars, stallVars, Rows
<1>8. crashes' <= faults'
  BY <1>4 DEF ReviewEnds, IInv, TypeOK
<1>9. QED BY <1>1, <1>3, <1>6, <1>7, <1>8, RowGoesOn DEF ReviewEnds

LEMMA ElsewhereKeeps ==
  ASSUME IInv, Elsewhere
  PROVE  IInv'
<1>1. slots = others + Cardinality(Running) /\ Cardinality(Running) \in Nat
      /\ others \in 0..Room /\ slots \in 0..Room
  BY RunningCount DEF IInv, SlotsBalance, Running, TypeOK
<1>2. \/ slots < Room /\ others' = others + 1 /\ slots' = slots + 1
      \/ others > 0 /\ others' = others - 1 /\ slots' = slots - 1
  BY DEF Elsewhere
<1>3. slots' = others' + Cardinality(Running) /\ others' \in 0..Room /\ slots' \in 0..Room
  BY <1>1, <1>2, Bounds
<1>4. TypeOK'
  BY <1>3 DEF IInv, TypeOK, Elsewhere, hintVars, stallVars
<1>5. SlotsBalance'
  BY <1>3 DEF SlotsBalance, Running, Elsewhere
<1>6. QED BY <1>4, <1>5 DEF IInv, Elsewhere, Consecutive, Used, OncePerState, Ledger

LEMMA RestartKeeps ==
  ASSUME IInv, Restart
  PROVE  IInv'
<1>1. review \in [Reviews -> Rows]
  BY DEF IInv, TypeOK, Rows
<1>2. \A r \in Reviews :
        review'[r] = IF review[r].status \in {"PENDING", "RUNNING"}
                     THEN [review[r] EXCEPT !.status = "FAILED"] ELSE review[r]
  BY DEF Restart
<1>3. \A r \in Reviews : /\ review'[r] \in Rows
                         /\ review'[r].print = review[r].print
                         /\ review'[r].delivered = review[r].delivered
                         /\ review'[r].status = IF review[r].status \in {"PENDING", "RUNNING"}
                                                THEN "FAILED" ELSE review[r].status
  BY <1>1, <1>2 DEF Rows, ReviewStatus
<1>4. review' \in [Reviews -> Rows]
  <2>1. review' = [r \in Reviews |-> review'[r]]
    BY DEF Restart
  <2>2. QED BY <1>3, <2>1
<1>5. Used' = Used /\ Running' = {}
  BY <1>3 DEF Used, Running
<1>6. OncePerState'
  BY <1>3, <1>5 DEF IInv, OncePerState, Used
<1>7. Consecutive'
  BY <1>5 DEF IInv, Consecutive
<1>8. SlotsBalance'
  <2>1. slots' = others' + Cardinality(Running')
    BY <1>5, FS_EmptySet DEF Restart
  <2>2. QED BY <2>1 DEF SlotsBalance, Running
<1>9. Ledger'
  BY <1>3 DEF IInv, Ledger, Restart, Finished
<1>10. faults' \in 0..MaxFaults /\ crashes' \in 0..MaxFaults /\ crashes' <= faults'
  BY Bounds DEF Restart, Fault, IInv, TypeOK
<1>11. TypeOK'
  <2>1. Away \in [at : {"no", "list", "call"}, seen : HintStatus, slack : BOOLEAN]
    BY DEF Away, HintStatus
  <2>2. cooling' \in BOOLEAN /\ fetch' \in [Fetchers -> [at : {"no", "list", "call"}, seen : HintStatus, slack : BOOLEAN]]
    BY <2>1 DEF Restart
  <2>3. 0 \in 0..Room
    BY Bounds
  <2>4. QED BY <1>4, <1>10, <2>2, <2>3 DEF IInv, TypeOK, Restart, stallVars, Rows
<1>12. QED BY <1>6, <1>7, <1>8, <1>9, <1>10, <1>11 DEF IInv
-----------------------------------------------------------------------------
(* The worker's other steps, time, the switch and the hints.                *)
LEMMA QuietKeeps ==
  ASSUME IInv,
         \/ SessionOpens \/ WorkerGoes \/ Progress \/ SkipDuplicate
         \/ Cools \/ SetReflectionMode \/ EligibleNow \/ BackoffOver \/ Silence \/ Report
  PROVE  IInv'
<1>1. UNCHANGED <<review, told, slots, others, crashes>>
  BY DEF SessionOpens, WorkerGoes, Progress, SkipDuplicate, Cools, SetReflectionMode,
         EligibleNow, BackoffOver, Silence, Report, reviewVars
<1>2. faults' \in 0..MaxFaults /\ faults' >= faults
  BY Bounds DEF SessionOpens, WorkerGoes, Progress, SkipDuplicate, Cools, SetReflectionMode,
         EligibleNow, BackoffOver, Silence, Report, Fault, IInv, TypeOK
<1>3. crashes' <= faults'
  BY <1>1, <1>2 DEF IInv, TypeOK
<1>4. CASE SessionOpens \/ WorkerGoes \/ SkipDuplicate \/ Cools \/ SetReflectionMode
  <2>1. mail' \subseteq Reviews /\ heard' \subseteq Reviews /\ worker' \in {"none", "opening", "listening"}
    BY <1>4 DEF SessionOpens, WorkerGoes, SkipDuplicate, Cools, SetReflectionMode, IInv, TypeOK
  <2>2. mode' \in Modes /\ newest' \in 0..MaxReviews /\ cooling' \in BOOLEAN
    <3>1. mode \in Modes /\ newest \in 0..MaxReviews /\ cooling \in BOOLEAN /\ 0 \in 0..MaxReviews
      BY Bounds DEF IInv, TypeOK
    <3>2. CASE SkipDuplicate
      BY <3>1, <3>2 DEF SkipDuplicate
    <3>3. CASE ~SkipDuplicate
      BY <1>4, <3>1, <3>3 DEF SessionOpens, WorkerGoes, Cools, SetReflectionMode
    <3>4. QED BY <3>2, <3>3
  <2>3. UNCHANGED <<scene, news, hintVars, stallVars>>
    BY <1>4 DEF SessionOpens, WorkerGoes, SkipDuplicate, Cools, SetReflectionMode, hintVars, stallVars
  <2>4. TypeOK'
    BY <1>1, <1>2, <2>1, <2>2, <2>3 DEF hintVars, stallVars, IInv, TypeOK
  <2>5. QED BY <1>1, <1>3, <2>4, RowsAlone
<1>5. CASE Progress
  <2>1. news' \in 0..MaxNews
    BY <1>5, Bounds DEF Progress, IInv, TypeOK
  <2>2. TypeOK'
    BY <1>1, <1>2, <1>5, <2>1 DEF Progress, hintVars, stallVars, IInv, TypeOK
  <2>3. QED BY <1>1, <1>3, <2>2, RowsAlone
<1>6. CASE EligibleNow \/ BackoffOver \/ Silence \/ Report
  <2>1. TypeOK'
    BY <1>1, <1>2, <1>6 DEF EligibleNow, BackoffOver, Silence, Report, stallVars, reviewVars, IInv, TypeOK
  <2>2. QED BY <1>1, <1>3, <2>1, RowsAlone
<1>7. QED BY <1>4, <1>5, <1>6

LEMMA HintsKeep ==
  ASSUME IInv, NEW f \in Fetchers,
         (f \in Ticks /\ (HintTick(f) \/ TickOne(f))) \/ (f = "human" /\ ForceHint) \/ HintComes(f)
  PROVE  IInv'
<1> DEFINE Place == [at : {"no", "list", "call"}, seen : HintStatus, slack : BOOLEAN]
<1>1. UNCHANGED <<review, told, slots, others, crashes>>
  BY DEF HintTick, TickOne, ForceHint, HintComes, reviewVars
<1>2. faults' \in 0..MaxFaults /\ faults' >= faults
  BY Bounds DEF HintTick, TickOne, ForceHint, HintComes, Fault, IInv, TypeOK
<1>3. crashes' <= faults'
  BY <1>1, <1>2 DEF IInv, TypeOK
<1>4. fetch \in [Fetchers -> Place] /\ hint \in HintStatus /\ stored \in BOOLEAN /\ backoff \in BOOLEAN
  BY DEF IInv, TypeOK
<1>5. Away \in Place
  BY DEF Away, HintStatus
<1>6. \A now \in HintStatus : Fetch(f, now) => hint' \in HintStatus /\ fetch' \in [Fetchers -> Place]
  BY <1>4, <1>5 DEF Fetch, HintStatus
<1>7. /\ hint' \in HintStatus /\ fetch' \in [Fetchers -> Place]
      /\ stored' \in BOOLEAN /\ backoff' \in BOOLEAN
  <2>1. CASE HintTick(f)
    <3>1. [at |-> "list", seen |-> hint, slack |-> marked] \in Place
      BY <1>4 DEF IInv, TypeOK
    <3>2. QED BY <1>4, <2>1, <3>1 DEF HintTick
  <2>2. CASE TickOne(f)
    <3> DEFINE now == IF fetch[f].seen = "LOCKED" THEN "ELIGIBLE" ELSE hint
    <3>1. now \in HintStatus
      BY <1>4 DEF HintStatus
    <3>2. \/ hint' \in {hint, now} /\ fetch' = [fetch EXCEPT ![f] = Away]
          \/ Fetch(f, now)
      BY <2>2 DEF TickOne
    <3> HIDE DEF now
    <3>3. hint' \in HintStatus /\ fetch' \in [Fetchers -> Place]
      BY <1>4, <1>5, <1>6, <3>1, <3>2
    <3>4. QED BY <1>4, <2>2, <3>3 DEF TickOne
  <2>3. CASE ForceHint /\ f = "human"
    BY <1>4, <1>6, <2>3 DEF ForceHint
  <2>4. CASE HintComes(f)
    <3>1. hint' \in HintStatus /\ stored' \in BOOLEAN /\ backoff' \in BOOLEAN
      BY <1>4, <2>4 DEF HintComes, Thrown, HintStatus
    <3>2. fetch' \in [Fetchers -> Place]
      BY <1>4, <1>5, <2>4 DEF HintComes
    <3>3. QED BY <3>1, <3>2
  <2>5. QED BY <2>1, <2>2, <2>3, <2>4
<1>8. TypeOK'
  BY <1>1, <1>2, <1>7 DEF HintTick, TickOne, ForceHint, HintComes, reviewVars, stallVars, IInv, TypeOK
<1>9. QED BY <1>1, <1>3, <1>8, RowsAlone

LEMMA AdviceStep ==
  ASSUME IInv, [Next]_vars
  PROVE  IInv'
<1>1. CASE UNCHANGED vars
  BY <1>1 DEF vars, reviewVars, hintVars, stallVars, IInv, TypeOK, Consecutive, Used, OncePerState, SlotsBalance, Ledger
<1>2. ASSUME NEW t \in Ticks, HintTick(t) \/ TickOne(t)
      PROVE  IInv'
  BY <1>2, HintsKeep DEF Fetchers
<1>3. CASE ForceHint
  BY <1>3, HintsKeep DEF Fetchers
<1>4. ASSUME NEW f \in Fetchers, HintComes(f)
      PROVE  IInv'
  BY <1>4, HintsKeep
<1>5. QED
  BY <1>1, <1>2, <1>3, <1>4, QuietKeeps, StartWorkerKeeps, ReflectKeeps, GetSlotKeeps, GiveUpKeeps,
     ReviewEndsKeeps, ElsewhereKeeps, RestartKeeps DEF Next

LEMMA AdviceInvariance == Spec => []IInv
<1>1. Init => IInv
  BY AdviceInit
<1>2. IInv /\ [Next]_vars => IInv'
  BY AdviceStep
<1>3. QED BY <1>1, <1>2, PTL DEF Spec

(* The slots of the reviews are accounted for through failures, fallbacks,  *)
(* runs that gave up and restarts, and no review is handed to a worker of   *)
(* the challenge a second time.                                             *)
THEOREM AdviceIsSound == Spec => []AdviceInv
<1>1. IInv => AdviceInv
  BY DEF IInv, AdviceInv, Ledger, ToldOnce
<1>2. QED BY <1>1, AdviceInvariance, PTL

(* Whoever asks, and however long a review waits or takes, one state of the *)
(* solver is reviewed once, unless the review failed or was skipped.        *)
THEOREM StatesAreReviewedOnce == Spec => []OncePerState
<1>1. IInv => OncePerState
  BY DEF IInv
<1>2. QED BY <1>1, AdviceInvariance, PTL
=============================================================================
