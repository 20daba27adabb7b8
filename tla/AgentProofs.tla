------------------------------ MODULE AgentProofs ------------------------------
(***************************************************************************)
(* Proofs about Models and Agent: a role is given to a model that can be   *)
(* used, the sessions of a solver, its worker and its conversations agree, *)
(* the vision model is not called more often than configured, a kept       *)
(* conversation is continued, and the questions of Probes about models are *)
(* answered well for every registry.                                       *)
(***************************************************************************)
EXTENDS Agent, Probes, WellFoundedInduction, TLAPS
-----------------------------------------------------------------------------
(* The choices of Models.                                                  *)

(* A set of natural numbers has a least member. *)
LEMMA HasLeast ==
  ASSUME NEW S \in SUBSET Nat, S # {}
  PROVE  \E x \in S : \A y \in S : x <= y
<1> DEFINE Less == OpToRel(<, Nat)
<1>1. PICK x \in S : \A y \in S : ~ (<<y, x>> \in Less)
  <2> HIDE DEF Less
  <2>1. IsWellFoundedOn(Less, Nat)  BY NatLessThanWellFounded DEF Less
  <2>2. QED  BY <2>1, WFMin
<1>2. \A y \in S : ~(y < x)  BY <1>1 DEF OpToRel
<1>3. x \in Nat /\ S \subseteq Nat  OBVIOUS
<1> HIDE DEF Less
<1>4. ASSUME NEW y \in S PROVE x <= y
  <2>1. y \in Nat  BY <1>3
  <2>2. QED  BY <1>2, <1>3, <2>1
<1>5. QED  BY <1>4

(* The first of a list is one of the list. *)
LEMMA FirstOfList ==
  ASSUME NEW list \in SUBSET Models
  PROVE  /\ list # {} => FirstOf(list) \in list
         /\ list = {} => FirstOf(list) = None
         /\ FirstOf(list) \in list \cup {None}
         /\ FirstOf(list) \in Models \cup {None}
<1>1. ASSUME list # {} PROVE FirstOf(list) \in list
  <2> DEFINE S == {i \in 1..Len(Order) : Order[i] \in list}
  <2>1. Order \in Seq(Models) /\ DOMAIN Order = 1..Len(Order)
    BY ModelsAssumption
  <2>2. PICK m \in list : TRUE  BY <1>1
  <2>3. m \in Range(Order)  BY <2>2 DEF Models
  <2>4. \E i \in 1..Len(Order) : Order[i] = m  BY <2>1, <2>3 DEF Range
  <2>5. S # {} /\ S \subseteq Nat  BY <2>2, <2>4
  <2>6. PICK i \in S : \A j \in S : i <= j  BY <2>5, HasLeast
  <2>7. \A j \in 1..(i - 1) : Order[j] \notin list
    <3>1. i \in 1..Len(Order) /\ Len(Order) \in Nat  BY <2>1, <2>6
    <3>2. SUFFICES ASSUME NEW j \in 1..(i - 1), Order[j] \in list PROVE FALSE  OBVIOUS
    <3>3. j \in 1..Len(Order)  BY <3>1
    <3>4. i <= j  BY <2>6, <3>2, <3>3
    <3>5. QED  BY <3>1, <3>4
  <2>8. \E k \in 1..Len(Order) : IsFirst(k, list)  BY <2>6, <2>7 DEF IsFirst
  <2>9. QED  BY <1>1, <2>8 DEF FirstOf, IsFirst
<1>2. list = {} => FirstOf(list) = None  BY DEF FirstOf
<1>3. QED  BY <1>1, <1>2

Usable(r) == {m \in Models : IsModelUsable(r, m)}

LEMMA AnyIsUsable ==
  ASSUME NEW r \in Registry
  PROVE  /\ AnyUsable(r) \subseteq Usable(r) \cup {None}
         /\ None \in AnyUsable(r) => Usable(r) = {}
<1>1. Primaries(r) \subseteq Usable(r)
  BY DEF Primaries, Usable, Registry, IsModelUsable
<1>2. ListEnabled(r) = Usable(r)  BY DEF ListEnabled, Usable
<1>3. Usable(r) \in SUBSET Models  BY DEF Usable
<1>4. None \notin Usable(r)  BY ModelsAssumption DEF Usable
<1>5. /\ Usable(r) # {} => FirstOf(Usable(r)) \in Usable(r)
      /\ Usable(r) = {} => FirstOf(Usable(r)) = None
  BY <1>3, FirstOfList
<1>6. QED  BY <1>1, <1>2, <1>4, <1>5 DEF AnyUsable

LEMMA AssignedIsUsable ==
  ASSUME NEW r \in Registry, NEW s \in Slots, Assigned(r, s)
  PROVE  r.slots[s] \in Usable(r)
<1>1. r.slots[s] \in Models \cup {None}  BY DEF Registry
<1>2. QED  BY <1>1 DEF Assigned, Usable

(* For every registry, a role is given to a model that can be used, and to  *)
(* none only where there is none: no usable model at all, or, for pictures, *)
(* no usable one that sees (resolveAssignedModel, resolveAdvisoryModel).    *)
THEOREM RolesGoToUsable ==
  ASSUME NEW r \in Registry, NEW s \in Slots
  PROVE  /\ ResolveAssigned(r, s) \subseteq Usable(r) \cup {None}
         /\ None \in ResolveAssigned(r, s) =>
              IF s = "vision" THEN Usable(r) \cap Sees = {} ELSE Usable(r) = {}
         /\ ResolveAdvisory(r, s) \subseteq Usable(r) \cup {None}
         /\ None \in ResolveAdvisory(r, s) => Usable(r) = {}
<1>1. None \notin Usable(r)  BY ModelsAssumption DEF Usable
<1>2. ListEnabled(r) = Usable(r)  BY DEF ListEnabled, Usable
<1>3. Usable(r) \cap Sees \in SUBSET Models  BY DEF Usable
<1>4. /\ Usable(r) \cap Sees # {} => FirstOf(Usable(r) \cap Sees) \in Usable(r) \cap Sees
      /\ Usable(r) \cap Sees = {} => FirstOf(Usable(r) \cap Sees) = None
  BY <1>3, FirstOfList
<1>5. "primarySolver" \in Slots  BY DEF Slots
<1>6. /\ ResolveAssigned(r, s) \subseteq Usable(r) \cup {None}
      /\ None \in ResolveAssigned(r, s) =>
           IF s = "vision" THEN Usable(r) \cap Sees = {} ELSE Usable(r) = {}
  <2>1. CASE Assigned(r, s)  BY <2>1, <1>1, AssignedIsUsable DEF ResolveAssigned
  <2>2. CASE ~Assigned(r, s) /\ s = "vision"
    BY <2>2, <1>1, <1>2, <1>4 DEF ResolveAssigned
  <2>3. CASE ~Assigned(r, s) /\ s # "vision"
    BY <2>3, AnyIsUsable DEF ResolveAssigned
  <2>4. QED  BY <2>1, <2>2, <2>3
<1>7. /\ ResolveAdvisory(r, s) \subseteq Usable(r) \cup {None}
      /\ None \in ResolveAdvisory(r, s) => Usable(r) = {}
  <2>1. CASE Assigned(r, s)  BY <2>1, <1>1, AssignedIsUsable DEF ResolveAdvisory
  <2>2. CASE ~Assigned(r, s) /\ Assigned(r, "primarySolver")
    BY <2>2, <1>1, <1>5, AssignedIsUsable DEF ResolveAdvisory
  <2>3. CASE ~Assigned(r, s) /\ ~Assigned(r, "primarySolver")
    BY <2>3, AnyIsUsable DEF ResolveAdvisory
  <2>4. QED  BY <2>1, <2>2, <2>3
<1>8. QED  BY <1>6, <1>7

(* For every list of models a worker is given, pictures go to a model of    *)
(* the list that sees them, never to one of another name than the one that  *)
(* was asked for while the list has that name, and a solver that hears why  *)
(* there is no such model gets none (resolveVisionProvider).                *)
THEOREM PicturesGoToSeeing ==
  ASSUME NEW list \in SUBSET Models, NEW name \in Range(Name) \cup {None}
  PROVE  LET got == ResolveVision(list, name) IN
         /\ got.model \in (list \cap Sees) \cup {None}
         /\ (got.model # None /\ OfName(list, name) # {}) => Name[got.model] = name
         /\ got.told => got.model = None
<1> DEFINE named == IF name = None THEN None ELSE FirstOf(OfName(list, name))
           got == ResolveVision(list, name)
           sees == FirstOf(list \cap Sees)
<1>1. OfName(list, name) \in SUBSET Models /\ list \cap Sees \in SUBSET Models
  BY DEF OfName
<1>2. \A m \in OfName(list, name) : m \in list /\ Name[m] = name /\ m # None
  BY ModelsAssumption DEF OfName
<1>3. named = None \/ named \in OfName(list, name)
  BY <1>1, FirstOfList
<1>4. OfName(list, name) # {} => named # None
  <2>1. OfName(list, name) # {} => name # None
    BY ModelsAssumption DEF OfName, Range
  <2>2. OfName(list, name) # {} => FirstOf(OfName(list, name)) \in OfName(list, name)
    BY <1>1, FirstOfList
  <2>3. QED  BY <1>2, <2>1, <2>2
<1>5. sees \in (list \cap Sees) \cup {None}  BY <1>1, FirstOfList
<1>6. got = IF named # None /\ named \notin Sees THEN [model |-> None, told |-> TRUE]
            ELSE [model |-> IF named # None THEN named ELSE sees, told |-> FALSE]
  BY DEF ResolveVision
<1> HIDE DEF named, got, sees
<1>7. CASE named # None /\ named \notin Sees
  <2>1. got.model = None  BY <1>6, <1>7
  <2>2. QED  BY <2>1 DEF got
<1>8. CASE named # None /\ named \in Sees
  <2>1. got.model = named /\ got.told = FALSE  BY <1>6, <1>8
  <2>2. QED  BY <1>2, <1>3, <1>8, <2>1 DEF got
<1>9. CASE named = None
  <2>1. got.model = sees /\ got.told = FALSE  BY <1>6, <1>9
  <2>2. OfName(list, name) = {}  BY <1>4, <1>9
  <2>3. QED  BY <1>5, <2>1, <2>2 DEF got
<1>10. QED  BY <1>7, <1>8, <1>9
-----------------------------------------------------------------------------
(* A change of the registry leaves a registry, and in its slots only models *)
(* that can be used.                                                        *)

SlotsUsable(r) == \A s \in Slots : r.slots[s] # None => IsModelUsable(r, r.slots[s])

LEMMA SavedIsRegistry ==
  ASSUME NEW r \in Registry, NEW slots \in [Slots -> Models \cup {None}]
  PROVE  Saved(r, slots) \in Registry /\ SlotsUsable(Saved(r, slots))
<1>1. Sanitize(r, slots) \in [Slots -> Models \cup {None}]
  BY DEF Sanitize
<1>2. Saved(r, slots) \in Registry  BY <1>1 DEF Saved, Registry
<1>3. /\ Saved(r, slots).slots = Sanitize(r, slots)
      /\ Saved(r, slots).enabled = r.enabled
      /\ Saved(r, slots).open = r.open
  BY DEF Saved, Registry
<1>4. SlotsUsable(Saved(r, slots))
  BY <1>3 DEF SlotsUsable, Sanitize, IsModelUsable
<1>5. QED  BY <1>2, <1>4

LEMMA EditsKeepRegistry ==
  ASSUME NEW r \in Registry, SlotsUsable(r)
  PROVE  /\ \A m \in Models : WithoutModel(r, m) \in Registry /\ SlotsUsable(WithoutModel(r, m))
         /\ \A m \in Models : WithModel(r, m) \in Registry /\ SlotsUsable(WithModel(r, m))
         /\ \A m \in Models : Promoted(r, m) \in Registry /\ SlotsUsable(Promoted(r, m))
         /\ \A p \in Providers : /\ WithoutProvider(r, p) \in Registry
                                 /\ SlotsUsable(WithoutProvider(r, p))
         /\ \A p \in Providers : WithoutKey(r, p) \in Registry /\ SlotsUsable(WithoutKey(r, p))
         /\ \A p \in Providers : /\ [r EXCEPT !.keys = @ \cup {p}] \in Registry
                                 /\ SlotsUsable([r EXCEPT !.keys = @ \cup {p}])
<1>1. r.slots \in [Slots -> Models \cup {None}]  BY DEF Registry
<1>2. ASSUME NEW m \in Models
      PROVE  WithoutModel(r, m) \in Registry /\ SlotsUsable(WithoutModel(r, m))
  <2> DEFINE off == [r EXCEPT !.enabled = @ \ {m}]
  <2>1. off \in Registry /\ off.slots = r.slots  BY DEF Registry
  <2>2. WithoutModel(r, m) = Saved(off, off.slots)  BY DEF WithoutModel
  <2> HIDE DEF off
  <2>3. QED  BY <1>1, <2>1, <2>2, SavedIsRegistry
<1>3. ASSUME NEW m \in Models
      PROVE  WithModel(r, m) \in Registry /\ SlotsUsable(WithModel(r, m))
  BY <1>3 DEF WithModel, Registry, SlotsUsable, IsModelUsable
<1>4. ASSUME NEW m \in Models
      PROVE  Promoted(r, m) \in Registry /\ SlotsUsable(Promoted(r, m))
  <2> DEFINE one == [r EXCEPT !.chief = {o \in @ : ProviderOf[o] # ProviderOf[m]} \cup {m}]
             slots == [one.slots EXCEPT !["primarySolver"] = m]
  <2>1. one \in Registry /\ one.slots = r.slots  BY DEF Registry
  <2>2. slots \in [Slots -> Models \cup {None}]  BY <1>1, <2>1
  <2>3. Promoted(r, m) = Saved(one, slots)  BY DEF Promoted
  <2> HIDE DEF one, slots
  <2>4. QED  BY <2>1, <2>2, <2>3, SavedIsRegistry
<1>5. ASSUME NEW p \in Providers
      PROVE  WithoutProvider(r, p) \in Registry /\ SlotsUsable(WithoutProvider(r, p))
  <2> DEFINE off == [r EXCEPT !.open = @ \ {p}]
  <2>1. off \in Registry /\ off.slots = r.slots  BY DEF Registry
  <2>2. WithoutProvider(r, p) = Saved(off, off.slots)  BY DEF WithoutProvider
  <2> HIDE DEF off
  <2>3. QED  BY <1>1, <2>1, <2>2, SavedIsRegistry
<1>6. ASSUME NEW p \in Providers
      PROVE  /\ WithoutKey(r, p) \in Registry
             /\ SlotsUsable(WithoutKey(r, p))
             /\ [r EXCEPT !.keys = @ \cup {p}] \in Registry
             /\ SlotsUsable([r EXCEPT !.keys = @ \cup {p}])
  BY <1>6 DEF WithoutKey, Registry, SlotsUsable, IsModelUsable
<1>7. QED  BY <1>2, <1>3, <1>4, <1>5, <1>6

LEMMA HealthKeepsRegistry ==
  ASSUME NEW r \in Registry, SlotsUsable(r), NEW p \in Providers
  PROVE  /\ Succeeded(r, p) \in Registry /\ SlotsUsable(Succeeded(r, p))
         /\ Failed(r, p) \in Registry /\ SlotsUsable(Failed(r, p))
<1>1. [r.fails EXCEPT ![p] = 0] \in [Providers -> Nat]  BY DEF Registry
<1>2. [r.fails EXCEPT ![p] = @ + 1] \in [Providers -> Nat]  BY DEF Registry
<1>3. Succeeded(r, p) = [r EXCEPT !.fails = [r.fails EXCEPT ![p] = 0]]
  BY DEF Succeeded, Registry
<1>4. Failed(r, p) = [r EXCEPT !.fails = [r.fails EXCEPT ![p] = @ + 1]]
  BY DEF Failed, Registry
<1>5. ASSUME NEW f \in [Providers -> Nat]
      PROVE  [r EXCEPT !.fails = f] \in Registry /\ SlotsUsable([r EXCEPT !.fails = f])
  BY <1>5 DEF Registry, SlotsUsable, IsModelUsable
<1>6. QED  BY <1>1, <1>2, <1>3, <1>4, <1>5

(* The model a worker takes. *)
LEMMA SelectedModel ==
  ASSUME NEW list \in SUBSET Models, NEW name \in Range(Name) \cup {None}
  PROVE  /\ SelectPi(list, name) \in Models \cup {None}
         /\ (SelectPi(list, name) # None /\ name # None) => Name[SelectPi(list, name)] = name
<1>1. OfName(list, name) \in SUBSET Models  BY DEF OfName
<1>2. FirstOf(OfName(list, name)) \in OfName(list, name) \cup {None}
  BY <1>1, FirstOfList
<1>3. FirstOf(list) \in Models \cup {None}  BY FirstOfList
<1>4. QED  BY <1>1, <1>2, <1>3 DEF SelectPi, OfName
-----------------------------------------------------------------------------
(* Types. A message about a session names a row there is; the worker and    *)
(* the row that is ACTIVE are those of the latest row.                      *)

Entry == [row : Nat, said : SUBSET {"kickoff", "resume", "note"}]

Report == [type : {"session_persisted", "idle", "error"}, row : Nat, file : Nat,
           kind : {"none", "pi", "mock"}]

Command == [type : {"switch_model", "inject", "abort"}, name : Range(Name) \cup {None}]

Lives == {"QUEUED", "ACTIVE", "SUBMITTING", "PAUSED", "SOLVED"}

Types ==
  /\ reg \in Registry /\ SlotsUsable(reg)
  /\ leaving \subseteq Providers
  /\ fallback \in BOOLEAN
  /\ anew \in Causes
  /\ life \in Lives
  /\ stopped \in BOOLEAN
  /\ rows \in Seq(Row)
  /\ proc \in Process
  /\ story \in Seq(Entry)
  /\ up \in Seq(Report)
  /\ down \in Seq(Command)
  /\ vision \in [saved : Nat, calls : Nat, cached : SUBSET Questions]
  /\ Len(rows) <= MaxRows
  /\ proc.at # "none" => proc.row = Len(rows) /\ Len(rows) > 0
  /\ \A k \in 1..Len(up) : up[k].row \in 1..Len(rows)
  /\ \A k \in 1..Len(rows) : rows[k].status = "ACTIVE" => k = Len(rows)

LEMMA TypesImply == Types => TypeOK
<1> SUFFICES ASSUME Types PROVE TypeOK  OBVIOUS
<1>1. \A i \in 1..Len(story) : story[i].said \subseteq {"kickoff", "resume", "note"}
  <2>1. \A i \in 1..Len(story) : story[i] \in Entry  BY DEF Types
  <2>2. QED  BY <2>1 DEF Entry
<1>2. vision.saved \in Nat /\ vision.calls \in Nat /\ vision.cached \subseteq Questions
  BY DEF Types
<1>3. QED  BY <1>1, <1>2 DEF Types, TypeOK, Lives

LEMMA TargetsHere ==
  /\ \A s \in Lives : /\ Target(s, "SCHEDULE") \in Lives
                     /\ Target(s, "SOLVER_ERROR") \in Lives
                     /\ Target(s, "RECOVER_ACTIVE") \in Lives
                     /\ Target(s, "RECOVER_SUBMITTING") \in Lives
                     /\ Target(s, "PAUSE") \in Lives
                     /\ Target(s, "RESUME") \in Lives
                     /\ Target(s, "REOPEN") \in Lives
                     /\ Target(s, "RESTART_SOLVER") \in Lives
                     /\ Target(s, "SOLVER_STOPPED") \in Lives
                     /\ Target(s, "SUBMIT_WRONG") \in Lives
                     /\ Target(s, "SUBMIT_CORRECT") \in Lives
  /\ \A s \in {"QUEUED", "ACTIVE"} : Target(Target(s, "CANDIDATE_FOUND"), "VERIFY_OK") = "SUBMITTING"
BY DEF Target, Allowed, T, Lives

LEMMA AppendFacts ==
  ASSUME NEW S, NEW s \in Seq(S), NEW e \in S
  PROVE  /\ Append(s, e) \in Seq(S)
         /\ Len(Append(s, e)) = Len(s) + 1
         /\ \A k \in 1..Len(s) : Append(s, e)[k] = s[k]
         /\ Append(s, e)[Len(s) + 1] = e
         /\ Len(s) \in Nat
OBVIOUS

LEMMA TailFacts ==
  ASSUME NEW S, NEW s \in Seq(S), s # <<>>
  PROVE  /\ Tail(s) \in Seq(S)
         /\ Len(s) \in Nat /\ Len(s) > 0
         /\ Len(Tail(s)) = Len(s) - 1
         /\ \A k \in 1..Len(Tail(s)) : k + 1 \in 1..Len(s) /\ Tail(s)[k] = s[k + 1]
         /\ 1 \in 1..Len(s) /\ Head(s) = s[1] /\ Head(s) \in S
OBVIOUS

LEMMA SetFacts ==
  ASSUME NEW S, NEW s \in Seq(S), NEW i \in 1..Len(s), NEW e \in S
  PROVE  /\ [s EXCEPT ![i] = e] \in Seq(S)
         /\ Len([s EXCEPT ![i] = e]) = Len(s)
         /\ Len(s) \in Nat
         /\ \A k \in 1..Len(s) : [s EXCEPT ![i] = e][k] = IF k = i THEN e ELSE s[k]
OBVIOUS

LEMMA MapFacts ==
  ASSUME NEW S, NEW n \in Nat, NEW f, f = [k \in 1..n |-> f[k]],
         \A k \in 1..n : f[k] \in S
  PROVE  f \in Seq(S) /\ Len(f) = n
OBVIOUS

(* What a worker sends is behind what it sent before. *)
LEMMA SentFacts ==
  ASSUME NEW S, NEW s \in Seq(S), NEW t \in Seq(S)
  PROVE  /\ s \o t \in Seq(S)
         /\ Len(s \o t) = Len(s) + Len(t)
         /\ \A k \in 1..Len(s \o t) :
              \/ k \in 1..Len(s) /\ (s \o t)[k] = s[k]
              \/ \E j \in 1..Len(t) : (s \o t)[k] = t[j]
<1>1. Len(s) \in Nat /\ Len(t) \in Nat  OBVIOUS
<1>2. s \o t \in Seq(S) /\ Len(s \o t) = Len(s) + Len(t)  OBVIOUS
<1>3. ASSUME NEW k \in 1..Len(s \o t), k \notin 1..Len(s)
      PROVE  \E j \in 1..Len(t) : (s \o t)[k] = t[j]
  <2>1. k - Len(s) \in 1..Len(t)  BY <1>1, <1>2, <1>3
  <2>2. (s \o t)[k] = t[k - Len(s)]  BY <1>1, <1>2, <1>3
  <2>3. QED  BY <2>1, <2>2
<1>4. \A k \in 1..Len(s) : (s \o t)[k] = s[k]  OBVIOUS
<1>5. QED  BY <1>2, <1>3, <1>4

LEMMA TypesInit == Init => Types
<1> SUFFICES ASSUME Init PROVE Types  OBVIOUS
<1>1. reg \in Registry /\ SlotsUsable(reg)
  <2>1. PICK on \in SUBSET Models, keys \in SUBSET Providers :
        \E m \in on \cup {None} :
          reg = [enabled |-> on, open |-> Providers, keys |-> keys, chief |-> on \cap {Head(Order)},
                 slots |-> [s \in Slots |-> IF s = "primarySolver" THEN m ELSE None],
                 fails |-> [p \in Providers |-> 0]]
    <3>1. PICK on \in {{}, Models \cap {Head(Order)}, Models},
               keys \in {Providers, Providers \ {ProviderOf[m] : m \in Models \cap {Head(Order)}}} :
          \E m \in on \cup {None} :
            reg = [enabled |-> on, open |-> Providers, keys |-> keys, chief |-> on \cap {Head(Order)},
                   slots |-> [s \in Slots |-> IF s = "primarySolver" THEN m ELSE None],
                   fails |-> [p \in Providers |-> 0]]
      BY DEF Init
    <3>2. on \in SUBSET Models /\ keys \in SUBSET Providers  OBVIOUS
    <3>3. QED  BY <3>1, <3>2
  <2>2. PICK m \in on \cup {None} :
          reg = [enabled |-> on, open |-> Providers, keys |-> keys, chief |-> on \cap {Head(Order)},
                 slots |-> [s \in Slots |-> IF s = "primarySolver" THEN m ELSE None],
                 fails |-> [p \in Providers |-> 0]]
    BY <2>1
  <2>3. on \subseteq Models  OBVIOUS
  <2>4. reg \in Registry  BY <2>2, <2>3 DEF Registry
  <2>5. \A o \in on : IsModelUsable(reg, o)
    BY <2>2, <2>3, ModelsAssumption DEF IsModelUsable
  <2>6. \A s \in Slots : reg.slots[s] = IF s = "primarySolver" THEN m ELSE None
    BY <2>2
  <2>7. QED  BY <2>4, <2>5, <2>6 DEF SlotsUsable
<1>2. proc \in Process /\ proc.at = "none"
  BY AgentAssumption DEF Init, NoProcess, Process, Stages
<1>3. vision \in [saved : Nat, calls : Nat, cached : SUBSET Questions]  BY DEF Init
<1>4. QED
  <2>1. rows = <<>> /\ up = <<>> /\ MaxRows \in Nat  BY AgentAssumption DEF Init
  <2>2. Len(rows) = 0 /\ Len(up) = 0 /\ rows \in Seq(Row) /\ up \in Seq(Report)  BY <2>1
  <2>3. story \in Seq(Entry) /\ down \in Seq(Command)  BY DEF Init
  <2>4. leaving \subseteq Providers /\ life \in Lives /\ stopped \in BOOLEAN
        /\ fallback \in BOOLEAN /\ anew \in Causes
    BY AgentAssumption DEF Init, Lives, Causes
  <2>5. /\ Len(rows) <= MaxRows
        /\ \A k \in 1..Len(up) : up[k].row \in 1..Len(rows)
        /\ \A k \in 1..Len(rows) : rows[k].status = "ACTIVE" => k = Len(rows)
    BY <2>1, <2>2
  <2>6. QED  BY <1>1, <1>2, <1>3, <2>2, <2>3, <2>4, <2>5 DEF Types

LEMMA MsgIsReport ==
  ASSUME Types, NEW t \in {"session_persisted", "idle", "error"}, proc.at # "none"
  PROVE  /\ Msg(t) \in Seq(Report) /\ Len(Msg(t)) = 1
         /\ Msg(t)[1].row = Len(rows) /\ Msg(t)[1].type = t
         /\ Msg(t)[1].file = proc.file /\ Msg(t)[1].kind = proc.runtime
         /\ Msg(t)[1] \in Report
BY DEF Types, Process, Msg, Report

(* What is sent now is about the latest row. *)
LEMMA SendsTyped ==
  ASSUME Types, NEW t, t \in Seq(Report), \A j \in 1..Len(t) : t[j].row = Len(rows),
         Len(rows) > 0, Sends(t), Len(rows') = Len(rows)
  PROVE  up' \in Seq(Report) /\ \A k \in 1..Len(up') : up'[k].row \in 1..Len(rows')
<1>1. up \in Seq(Report) /\ Len(rows) \in Nat /\ up' = up \o t  BY DEF Types, Sends
<1>2. /\ up' \in Seq(Report)
      /\ \A k \in 1..Len(up') : \/ k \in 1..Len(up) /\ up'[k] = up[k]
                               \/ \E j \in 1..Len(t) : up'[k] = t[j]
  BY <1>1, SentFacts
<1>3. \A k \in 1..Len(up) : up[k].row \in 1..Len(rows)  BY DEF Types
<1>4. QED  BY <1>1, <1>2, <1>3

(* The three ways to start: continue the latest row, take the one that is   *)
(* ACTIVE, or write a new one.                                              *)
Begins(i, resume, session) ==
  \/ /\ Latest > 0 /\ Resumable(rows[Latest])
     /\ i = Latest /\ resume = TRUE
     /\ session = [rows EXCEPT ![Latest].status = "ACTIVE"]
  \/ /\ ~(Latest > 0 /\ Resumable(rows[Latest]))
     /\ i \in ActiveRows /\ resume = FALSE
     /\ session = rows
  \/ /\ ~(Latest > 0 /\ Resumable(rows[Latest])) /\ ActiveRows = {}
     /\ Latest < MaxRows
     /\ i = Latest + 1 /\ resume = FALSE
     /\ session = Append(rows, [status |-> "ACTIVE", file |-> 0, kind |-> "none", model |-> None])

LEMMA StartShape ==
  ASSUME StartSolver
  PROVE  /\ life = "QUEUED" /\ proc.at = "none" /\ up = <<>>
         /\ \E m \in ResolveAssigned(reg, "primarySolver") : \E i, resume, session :
              Begins(i, resume, session) /\ Start(i, resume, m, session)
<1> DEFINE again == [rows EXCEPT ![Latest].status = "ACTIVE"]
           fresh == Append(rows, [status |-> "ACTIVE", file |-> 0, kind |-> "none", model |-> None])
<1>1. life = "QUEUED" /\ proc.at = "none" /\ up = <<>>  BY DEF StartSolver
<1>2. PICK m \in ResolveAssigned(reg, "primarySolver") :
        IF Latest > 0 /\ Resumable(rows[Latest]) THEN Start(Latest, TRUE, m, again)
        ELSE IF ActiveRows # {} THEN \E i \in ActiveRows : Start(i, FALSE, m, rows)
        ELSE Latest < MaxRows /\ Start(Latest + 1, FALSE, m, fresh)
  BY DEF StartSolver
<1>3. CASE Latest > 0 /\ Resumable(rows[Latest])
  <2>1. Begins(Latest, TRUE, again)  BY <1>3 DEF Begins
  <2>2. QED  BY <1>1, <1>2, <1>3, <2>1
<1>4. CASE ~(Latest > 0 /\ Resumable(rows[Latest])) /\ ActiveRows # {}
  <2>1. PICK i \in ActiveRows : Start(i, FALSE, m, rows)  BY <1>2, <1>4
  <2>2. Begins(i, FALSE, rows)  BY <1>4 DEF Begins
  <2>3. QED  BY <1>1, <2>1, <2>2
<1>5. CASE ~(Latest > 0 /\ Resumable(rows[Latest])) /\ ActiveRows = {}
  <2>1. Latest < MaxRows /\ Start(Latest + 1, FALSE, m, fresh)  BY <1>2, <1>5
  <2>2. Begins(Latest + 1, FALSE, fresh)  BY <1>5, <2>1 DEF Begins
  <2>3. QED  BY <1>1, <2>1, <2>2
<1>6. QED  BY <1>3, <1>4, <1>5

(* The rows of the session a start takes: the last one is ACTIVE, the       *)
(* others are what they were, and a new one knows of no conversation.       *)
LEMMA BeginsFacts ==
  ASSUME Types, NEW i, NEW resume, NEW session, Begins(i, resume, session)
  PROVE  /\ session \in Seq(Row) /\ Len(session) \in 1..MaxRows /\ i = Len(session)
         /\ Len(rows) \in Nat /\ Len(rows) <= Len(session)
         /\ resume \in BOOLEAN /\ session[i].status = "ACTIVE"
         /\ \A k \in 1..Len(session) : session[k].status = "ACTIVE" => k = Len(session)
         /\ \A k \in 1..Len(rows) : session[k].file = rows[k].file /\ session[k].kind = rows[k].kind
         /\ \A k \in 1..Len(session) :
              k \in 1..Len(rows) \/ (session[k].file = 0 /\ session[k].kind = "none")
         /\ resume => i = Len(rows) /\ Resumable(rows[i]) /\ i \in 1..Len(rows)
<1>1. /\ rows \in Seq(Row) /\ Len(rows) \in Nat /\ Len(rows) <= MaxRows /\ MaxRows \in Nat
      /\ Latest = Len(rows)
      /\ \A k \in 1..Len(rows) : rows[k].status = "ACTIVE" => k = Len(rows)
      /\ \A k \in 1..Len(rows) : rows[k] \in Row
  BY AgentAssumption DEF Types, Latest
<1>2. CASE /\ Latest > 0 /\ Resumable(rows[Latest])
           /\ i = Latest /\ resume = TRUE
           /\ session = [rows EXCEPT ![Latest].status = "ACTIVE"]
  <2> DEFINE row == [rows[Latest] EXCEPT !.status = "ACTIVE"]
  <2>1. i \in 1..Len(rows) /\ rows[i] \in Row  BY <1>1, <1>2
  <2>2. /\ row \in Row /\ row.status = "ACTIVE" /\ row.file = rows[i].file /\ row.kind = rows[i].kind
    BY <1>2, <2>1 DEF Row
  <2>3. session = [rows EXCEPT ![i] = row]  BY <1>2
  <2> HIDE DEF row
  <2>4. /\ session \in Seq(Row) /\ Len(session) = Len(rows)
        /\ \A k \in 1..Len(rows) : session[k] = IF k = i THEN row ELSE rows[k]
    BY <1>1, <2>1, <2>2, <2>3, SetFacts
  <2>5. QED  BY <1>1, <1>2, <2>1, <2>2, <2>4
<1>3. CASE i \in ActiveRows /\ resume = FALSE /\ session = rows
  <2>1. i \in 1..Len(rows) /\ rows[i].status = "ACTIVE"  BY <1>3 DEF ActiveRows
  <2>2. i = Len(rows) /\ Len(session) \in 1..MaxRows /\ session = rows  BY <1>1, <1>3, <2>1
  <2>3. resume \in BOOLEAN /\ ~resume  BY <1>3
  <2>4. QED  BY <1>1, <2>1, <2>2, <2>3
<1>4. CASE /\ ActiveRows = {} /\ Latest < MaxRows
           /\ i = Latest + 1 /\ resume = FALSE
           /\ session = Append(rows, [status |-> "ACTIVE", file |-> 0, kind |-> "none", model |-> None])
  <2> DEFINE row == [status |-> "ACTIVE", file |-> 0, kind |-> "none", model |-> None]
  <2>1. row \in Row /\ row.status = "ACTIVE" /\ row.file = 0 /\ row.kind = "none"  BY DEF Row
  <2>2. session = Append(rows, row)  BY <1>4
  <2> HIDE DEF row
  <2>3. /\ session \in Seq(Row) /\ Len(session) = Len(rows) + 1
        /\ \A k \in 1..Len(rows) : session[k] = rows[k]
        /\ session[Len(rows) + 1] = row
    BY <1>1, <2>1, <2>2, AppendFacts
  <2>4. \A k \in 1..Len(session) : k \in 1..Len(rows) \/ k = Len(rows) + 1  BY <1>1, <2>3
  <2>5. \A k \in 1..Len(rows) : rows[k].status # "ACTIVE"  BY <1>4 DEF ActiveRows
  <2>6. /\ Len(session) \in 1..MaxRows /\ i = Len(session) /\ i = Len(rows) + 1
        /\ session[i] = row
    BY <1>1, <1>4, <2>3
  <2>7. \A k \in 1..Len(session) : session[k].status = "ACTIVE" => k = Len(session)
    BY <2>3, <2>4, <2>5, <2>6
  <2>8. \A k \in 1..Len(session) :
          k \in 1..Len(rows) \/ (session[k].file = 0 /\ session[k].kind = "none")
    BY <2>1, <2>4, <2>6
  <2>9. resume \in BOOLEAN /\ ~resume  BY <1>4
  <2>10. QED  BY <1>1, <2>1, <2>3, <2>6, <2>7, <2>8, <2>9
<1>5. QED  BY <1>2, <1>3, <1>4 DEF Begins

LEMMA LaunchShape ==
  ASSUME NEW i, NEW resume, NEW m, NEW session, Launch(i, resume, m, session)
  PROVE  /\ rows' = session /\ life' = Target(life, "SCHEDULE") /\ down' = <<>>
         /\ proc'.at = "forked" /\ proc'.row = i /\ proc'.resume = resume
         /\ proc'.runtime = "none" /\ proc'.model = m /\ proc'.missed = FALSE
         /\ proc'.asked = IF m = None THEN None ELSE Name[m]
         /\ proc'.file = IF resume THEN session[i].file ELSE 0
         /\ UNCHANGED <<fallback, reg, leaving, stopped, up, story, vision, count>>
<1> DEFINE asked == IF m = None THEN None ELSE Name[m]
           file == IF resume THEN session[i].file ELSE 0
           pref == AgentRuntime(reg, Env, fallback)
<1>1. proc' = [at |-> "forked", row |-> i, list |-> PiProviders(reg), asked |-> asked,
               pref |-> pref, resume |-> resume, file |-> file, runtime |-> "none", model |-> m,
               missed |-> FALSE, used |-> 0, looks |-> {}]
  BY DEF Launch, NoProcess
<1>2. /\ rows' = session /\ life' = Target(life, "SCHEDULE") /\ down' = <<>>
      /\ UNCHANGED <<fallback, reg, leaving, stopped, up, story, vision, count>>
  BY DEF Launch
<1> HIDE DEF asked, file, pref
<1>3. /\ proc'.at = "forked" /\ proc'.row = i /\ proc'.resume = resume
      /\ proc'.runtime = "none" /\ proc'.model = m /\ proc'.missed = FALSE
      /\ proc'.asked = asked /\ proc'.file = file
  BY <1>1
<1>4. QED  BY <1>2, <1>3 DEF asked, file

LEMMA LaunchTyped ==
  ASSUME Types, NEW session \in Seq(Row), NEW i, i = Len(session), NEW resume \in BOOLEAN,
         NEW m \in Models \cup {None}, Len(session) \in 1..MaxRows, Len(rows) <= Len(session),
         \A k \in 1..Len(session) : session[k].status = "ACTIVE" => k = Len(session),
         Launch(i, resume, m, session)
  PROVE  Types'
<1>1. AgentRuntime(reg, Env, fallback) \in {"pi", "mock"}
  BY DEF Launch, AgentRuntime
<1>2. PiProviders(reg) \in SUBSET Models  BY DEF PiProviders, ListEnabled
<1>3. session[i] \in Row  OBVIOUS
<1>4. (IF m = None THEN None ELSE Name[m]) \in Range(Name) \cup {None}
  BY ModelsAssumption DEF Range
<1> DEFINE asked == IF m = None THEN None ELSE Name[m]
           file == IF resume THEN session[i].file ELSE 0
           pref == AgentRuntime(reg, Env, fallback)
<1>11. proc' = [at |-> "forked", row |-> i, list |-> PiProviders(reg), asked |-> asked,
                pref |-> pref, resume |-> resume, file |-> file, runtime |-> "none", model |-> m,
                missed |-> FALSE, used |-> 0, looks |-> {}]
  BY DEF Launch, NoProcess
<1>12. file \in Nat  BY <1>3 DEF Row
<1>13. i \in 0..MaxRows /\ MaxRows \in Nat  BY AgentAssumption
<1> HIDE DEF asked, file, pref
<1>5. proc' \in Process /\ proc'.row = i /\ MaxRows \in Nat
  BY <1>1, <1>2, <1>4, <1>11, <1>12, <1>13 DEF Process, Stages, asked, pref
<1>6. life' \in Lives /\ anew' \in Causes  BY TargetsHere DEF Launch, Types, Causes
<1>7. down' \in Seq(Command)  BY DEF Launch
<1>8. Len(rows) \in Nat  BY DEF Types
<1>9. \A k \in 1..Len(up') : up'[k].row \in 1..Len(rows')
  BY <1>8 DEF Types, Launch
<1>10. QED  BY <1>5, <1>6, <1>7, <1>9 DEF Types, Launch

LEMMA StartTyped == Types /\ StartSolver => Types'
<1> SUFFICES ASSUME Types, StartSolver PROVE Types'  OBVIOUS
<1>10. PICK m \in ResolveAssigned(reg, "primarySolver") :
         \E i, resume, session : Begins(i, resume, session) /\ Start(i, resume, m, session)
  BY StartShape
<1>1. PICK i, resume, session : Begins(i, resume, session) /\ Start(i, resume, m, session)
  BY <1>10
<1>2. m \in Models \cup {None}
  <2>1. reg \in Registry /\ "primarySolver" \in Slots  BY DEF Types, Slots
  <2>2. QED  BY <2>1, RolesGoToUsable DEF Usable
<1>3. /\ session \in Seq(Row) /\ Len(session) \in 1..MaxRows /\ i = Len(session)
      /\ Len(rows) \in Nat /\ Len(rows) <= Len(session) /\ resume \in BOOLEAN
      /\ \A k \in 1..Len(session) : session[k].status = "ACTIVE" => k = Len(session)
  BY <1>1, BeginsFacts
<1>4. CASE Launch(i, resume, m, session)  BY <1>2, <1>3, <1>4, LaunchTyped
<1>5. CASE LaunchThrows(session)
  <2>1. /\ rows' = session /\ anew' = "failed"
        /\ UNCHANGED <<fallback, reg, leaving, stopped, proc, down, up, story, vision>>
    BY <1>5 DEF LaunchThrows
  <2>2. life' \in Lives /\ anew' \in Causes
    BY <1>5, <2>1, TargetsHere DEF LaunchThrows, Types, Causes
  <2>3. proc.at = "none"  BY StartShape
  <2>4. \A k \in 1..Len(up) : up[k].row \in 1..Len(session)  BY <1>3 DEF Types
  <2>5. Len(rows') <= MaxRows  BY <1>3, <2>1, AgentAssumption
  <2>6. QED  BY <1>3, <2>1, <2>2, <2>3, <2>4, <2>5 DEF Types
<1>6. QED  BY <1>1, <1>4, <1>5 DEF Start

(* The rows when the session that is ACTIVE has become something else.      *)
LEMMA BecomeFacts ==
  ASSUME Types, NEW new \in {"INTERRUPTED", "PAUSED", "ENDED"}
  PROVE  /\ Become(new) \in Seq(Row) /\ Len(Become(new)) = Len(rows)
         /\ \A k \in 1..Len(rows) : /\ Become(new)[k].status # "ACTIVE"
                                    /\ Become(new)[k].file = rows[k].file
                                    /\ Become(new)[k].kind = rows[k].kind
<1>1. rows \in Seq(Row) /\ Len(rows) \in Nat /\ \A k \in 1..Len(rows) : rows[k] \in Row
  BY DEF Types
<1>2. \A k \in 1..Len(rows) : /\ Become(new)[k] \in Row
                              /\ Become(new)[k].status # "ACTIVE"
                              /\ Become(new)[k].file = rows[k].file
                              /\ Become(new)[k].kind = rows[k].kind
  BY <1>1 DEF Become, Row
<1>3. Become(new) = [k \in 1..Len(rows) |-> Become(new)[k]]  BY DEF Become
<1>4. Become(new) \in Seq(Row) /\ Len(Become(new)) = Len(rows)  BY <1>1, <1>2, <1>3, MapFacts
<1>5. QED  BY <1>2, <1>4

(* A step that leaves the rows, and what was sent about them, alone.        *)
LEMMA QuietTyped ==
  ASSUME Types, rows' = rows, up' = up, reg' = reg, leaving' = leaving,
         fallback' = fallback, anew' \in Causes,
         stopped' \in BOOLEAN, life' \in Lives,
         proc' \in Process, proc'.at # "none" => proc.at # "none" /\ proc'.row = proc.row,
         story' \in Seq(Entry), down' \in Seq(Command),
         vision' \in [saved : Nat, calls : Nat, cached : SUBSET Questions]
  PROVE  Types'
BY DEF Types

LEMMA WorkTyped ==
  ASSUME Types, Begin \/ OpenSession \/ OpenFails \/ FirstDone \/ FirstFails \/ LoopDone \/ PromptDone
  PROVE  Types'
<1>1. /\ rows \in Seq(Row) /\ proc \in Process /\ story \in Seq(Entry) /\ down \in Seq(Command)
      /\ vision \in [saved : Nat, calls : Nat, cached : SUBSET Questions]
      /\ Len(rows) \in Nat /\ Len(story) \in Nat
  BY DEF Types
<1>2. proc.at # "none" => proc.row = Len(rows) /\ Len(rows) > 0 /\ proc.row \in 1..Len(rows)
  BY <1>1 DEF Types
<1>3. CASE Begin
  <2>1. proc.at = "forked" /\ proc.row \in 1..Len(rows)  BY <1>2, <1>3 DEF Begin
  <2> DEFINE row == rows[proc.row]
  <2>10. row \in Row /\ proc.model \in Models \cup {None}  BY <1>1, <2>1 DEF Process
  <2>2. [row EXCEPT !.model = proc.model] \in Row /\ [row EXCEPT !.model = proc.model].status = row.status
    BY <2>10 DEF Row
  <2>3. /\ rows' \in Seq(Row) /\ Len(rows') = Len(rows)
        /\ \A k \in 1..Len(rows) : rows'[k] =
             IF k = proc.row THEN [row EXCEPT !.model = proc.model] ELSE rows[k]
    BY <1>1, <1>3, <2>1, <2>2, SetFacts DEF Begin
  <2>4. \A k \in 1..Len(rows) : rows'[k].status = rows[k].status
    BY <1>1, <2>1, <2>2, <2>3
  <2>5. proc' \in Process /\ proc'.row = proc.row
    BY <1>1, <1>3 DEF Begin, Process, Stages
  <2>6. QED  BY <1>3, <2>1, <2>3, <2>4, <2>5 DEF Begin, Types
<1>4. CASE OpenSession
  <2> DEFINE pi == Runtime = "pi"
             keep == proc.resume /\ pi
             n == IF keep THEN proc.file ELSE Len(story) + 1
             said == IF pi THEN {FirstWords} ELSE {}
             note == [type |-> "session_persisted", row |-> proc.row, file |-> n, kind |-> "mock"]
  <2>1. proc.at = "choosing" /\ proc.row \in 1..Len(rows) /\ proc.row \in Nat
    BY <1>1, <1>2, <1>4 DEF OpenSession
  <2>2. n \in Nat /\ Runtime \in {"pi", "mock"}  BY <1>1 DEF Process, Runtime
  <2>3. Readable \in SUBSET Models  BY <1>1 DEF Process, Readable, WithKeys
  <2>4. Chosen \in Models \cup {None}
    BY <1>1, <2>3, SelectedModel DEF Chosen, Process
  <2>5. proc' = [proc EXCEPT !.at = IF pi THEN "first" ELSE "loop", !.runtime = Runtime,
                             !.list = Readable, !.model = IF pi THEN Chosen ELSE None, !.file = n]
    BY <1>4 DEF OpenSession
  <2>6. story' = IF keep THEN [story EXCEPT ![n].said = @ \cup {FirstWords}]
                 ELSE Append(story, [row |-> proc.row, said |-> said])
    BY <1>4 DEF OpenSession
  <2>7. IF pi THEN UNCHANGED up ELSE up' = Append(up, note)  BY <1>4 DEF OpenSession
  <2>8. proc' \in Process /\ proc'.row = proc.row
    BY <1>1, <2>2, <2>3, <2>4, <2>5 DEF Process, Stages
  <2>9. story' \in Seq(Entry)
    <3>1. FirstWords \in {"kickoff", "resume"}  BY DEF FirstWords
    <3>2. CASE keep
      <4>1. story' = [story EXCEPT ![n].said = @ \cup {FirstWords}]  BY <2>6, <3>2
      <4>2. \A k \in 1..Len(story) : [story[k] EXCEPT !.said = @ \cup {FirstWords}] \in Entry
        <5>1. \A k \in 1..Len(story) : story[k] \in Entry  BY <1>1
        <5>2. QED  BY <3>1, <5>1 DEF Entry
      <4> HIDE DEF n, keep
      <4>3. CASE n \in 1..Len(story)  BY <1>1, <4>1, <4>2, <4>3, SetFacts
      <4>4. CASE n \notin 1..Len(story)
        <5>1. story' = story  BY <1>1, <4>1, <4>4
        <5>2. QED  BY <1>1, <5>1
      <4>5. QED  BY <4>3, <4>4
    <3>3. CASE ~keep
      <4>1. [row |-> proc.row, said |-> said] \in Entry  BY <2>1, <3>1 DEF Entry
      <4> HIDE DEF keep, said
      <4>2. QED  BY <1>1, <2>6, <3>3, <4>1, AppendFacts
    <3>4. QED  BY <3>2, <3>3
  <2>10. note \in Report /\ note.row = proc.row  BY <2>1, <2>2 DEF Report
  <2>11. up' \in Seq(Report) /\ \A k \in 1..Len(up') : up'[k].row \in 1..Len(rows)
    <3>1. up \in Seq(Report) /\ \A k \in 1..Len(up) : up[k].row \in 1..Len(rows)  BY DEF Types
    <3> HIDE DEF note, pi
    <3>2. CASE pi  BY <2>7, <3>1, <3>2
    <3>3. CASE ~pi
      <4>1. /\ up' \in Seq(Report) /\ Len(up') = Len(up) + 1 /\ Len(up) \in Nat
            /\ \A k \in 1..Len(up) : up'[k] = up[k]
            /\ up'[Len(up) + 1] = note
        BY <2>7, <2>10, <3>1, <3>3, AppendFacts
      <4>2. QED  BY <2>1, <2>10, <3>1, <4>1
    <3>4. QED  BY <3>2, <3>3
  <2>12. /\ rows' = rows /\ reg' = reg /\ leaving' = leaving /\ stopped' = stopped
         /\ fallback' = fallback /\ anew' = anew
         /\ life' = life /\ down' = down /\ vision' = vision
    BY <1>4 DEF OpenSession
  <2> HIDE DEF n, keep, pi, said, note
  <2>13. QED  BY <1>2, <2>1, <2>8, <2>9, <2>11, <2>12 DEF Types
<1>5. CASE OpenFails \/ FirstFails
  <2>1. proc.at \notin {"none", "gone"} /\ proc' = [proc EXCEPT !.at = "gone"]
    BY <1>5 DEF OpenFails, FirstFails
  <2>2. UNCHANGED up \/ Sends(Msg("error"))  BY <1>5 DEF OpenFails, FirstFails
  <2>3. /\ rows' = rows /\ reg' = reg /\ leaving' = leaving /\ stopped' = stopped
        /\ fallback' = fallback /\ anew' = anew
        /\ life' = life /\ down' = down /\ vision' = vision /\ story' = story
    BY <1>5 DEF OpenFails, FirstFails
  <2>4. proc' \in Process /\ proc'.row = proc.row  BY <1>1, <2>1 DEF Process, Stages
  <2>5. up' \in Seq(Report) /\ \A k \in 1..Len(up') : up'[k].row \in 1..Len(rows)
    <3>1. CASE UNCHANGED up  BY <3>1 DEF Types
    <3>2. CASE Sends(Msg("error"))
      <4>1. /\ Msg("error") \in Seq(Report)
            /\ \A j \in 1..Len(Msg("error")) : Msg("error")[j].row = Len(rows)
        BY <2>1, MsgIsReport
      <4>2. QED  BY <1>2, <2>1, <2>3, <3>2, <4>1, SendsTyped
    <3>3. QED  BY <2>2, <3>1, <3>2
  <2>6. QED  BY <1>2, <2>1, <2>3, <2>4, <2>5 DEF Types
<1>6. CASE FirstDone \/ LoopDone \/ PromptDone
  <2>1. proc.at \notin {"none", "gone"} /\ proc' = [proc EXCEPT !.at = "idle"]
    BY <1>6 DEF FirstDone, LoopDone, PromptDone
  <2>2. \/ UNCHANGED up
        \/ Sends(Msg("idle"))
        \/ Sends(Msg("session_persisted") \o Msg("idle"))
    BY <1>6 DEF FirstDone, LoopDone, PromptDone
  <2>3. /\ rows' = rows /\ reg' = reg /\ leaving' = leaving /\ stopped' = stopped
        /\ fallback' = fallback /\ anew' = anew
        /\ life' = life /\ down' = down /\ vision' = vision /\ story' = story
    BY <1>6 DEF FirstDone, LoopDone, PromptDone
  <2>4. proc' \in Process /\ proc'.row = proc.row  BY <1>1, <2>1 DEF Process, Stages
  <2>5. up' \in Seq(Report) /\ \A k \in 1..Len(up') : up'[k].row \in 1..Len(rows)
    <3> DEFINE a == Msg("session_persisted")
               b == Msg("idle")
    <3>1. /\ a \in Seq(Report) /\ \A j \in 1..Len(a) : a[j].row = Len(rows)
          /\ b \in Seq(Report) /\ \A j \in 1..Len(b) : b[j].row = Len(rows)
      BY <2>1, MsgIsReport
    <3> HIDE DEF a, b
    <3>2. CASE UNCHANGED up  BY <3>2 DEF Types
    <3>3. CASE Sends(b)  BY <1>2, <2>1, <2>3, <3>1, <3>3, SendsTyped
    <3>4. CASE Sends(a \o b)
      <4>1. a \o b \in Seq(Report) /\ \A j \in 1..Len(a \o b) : (a \o b)[j].row = Len(rows)
        BY <3>1, SentFacts
      <4> DEFINE ab == a \o b
      <4> HIDE DEF ab
      <4>2. QED  BY <1>2, <2>1, <2>3, <3>4, <4>1, SendsTyped DEF ab
    <3>5. QED  BY <2>2, <3>2, <3>3, <3>4 DEF a, b
  <2>6. QED  BY <1>2, <2>1, <2>3, <2>4, <2>5 DEF Types
<1>7. QED  BY <1>3, <1>4, <1>5, <1>6

LEMMA TakesTyped ==
  ASSUME Types, Takes
  PROVE  Types'
<1>1. /\ proc \in Process /\ story \in Seq(Entry) /\ down \in Seq(Command) /\ rows \in Seq(Row)
      /\ Len(rows) \in Nat /\ up \in Seq(Report)
      /\ vision \in [saved : Nat, calls : Nat, cached : SUBSET Questions]
      /\ stopped \in BOOLEAN /\ life \in Lives /\ anew \in Causes
  BY DEF Types
<1>2. proc.at \in {"choosing", "first", "loop", "busy", "idle"} /\ down # <<>> /\ down' = Tail(down)
  BY DEF Takes, Inject, SwitchModel, Abort, Receives
<1>3. down' \in Seq(Command)  BY <1>1, <1>2, TailFacts
<1>4. CASE Inject
  <2>1. proc' \in Process /\ proc'.row = proc.row /\ story' \in Seq(Entry)
    <3>1. CASE proc.at = "idle" /\ proc.runtime # "mock"
      <4>1. proc' \in Process /\ proc'.row = proc.row
        <5>1. proc' = [proc EXCEPT !.at = "busy"]  BY <1>4, <3>1 DEF Inject
        <5>2. QED  BY <1>1, <5>1 DEF Process, Stages
      <4>2. story' = [story EXCEPT ![proc.file].said = @ \cup {"note"}]
        BY <1>4, <3>1 DEF Inject
      <4>3. CASE proc.file \in 1..Len(story)
        <5>1. story[proc.file] \in Entry  BY <1>1, <4>3
        <5>2. [story[proc.file] EXCEPT !.said = @ \cup {"note"}] \in Entry
          BY <5>1 DEF Entry
        <5>3. QED  BY <1>1, <4>1, <4>2, <4>3, <5>2, SetFacts
      <4>4. CASE proc.file \notin 1..Len(story)
        <5>1. story' = story  BY <1>1, <4>2, <4>4
        <5>2. QED  BY <1>1, <4>1, <5>1
      <4>5. QED  BY <4>3, <4>4
    <3>2. CASE proc.at = "idle" /\ proc.runtime = "mock"
      <4>1. proc' = [proc EXCEPT !.at = "busy"] /\ story' = story  BY <1>4, <3>2 DEF Inject
      <4>2. QED  BY <1>1, <4>1 DEF Process, Stages
    <3>3. CASE proc.at # "idle"
      BY <1>1, <1>4, <3>3 DEF Inject
    <3>4. QED  BY <3>1, <3>2, <3>3
  <2>2. UNCHANGED <<fallback, anew, reg, leaving, life, stopped, rows, up, vision>>  BY <1>4 DEF Inject
  <2>3. QED  BY <1>1, <1>2, <1>3, <2>1, <2>2, QuietTyped
<1>5. CASE SwitchModel
  <2> DEFINE m == SwitchedTo(Head(down).name)
  <2>10. Head(down) \in Command  BY <1>1, <1>2, TailFacts
  <2>1. Head(down).name \in Range(Name) \cup {None}  BY <2>10 DEF Command
  <2>2. m \in Models \cup {None}
    BY <1>1, <2>1, SelectedModel DEF SwitchedTo, Process
  <2>3. \/ m # None /\ proc' = [proc EXCEPT !.model = m]
        \/ proc' = [proc EXCEPT !.missed = TRUE]
    BY <1>5 DEF SwitchModel
  <2>4. UNCHANGED up \/ Sends(Msg("error"))  BY <1>5 DEF SwitchModel
  <2> HIDE DEF m
  <2>5. proc' \in Process /\ proc'.row = proc.row /\ proc'.at = proc.at
    BY <1>1, <2>2, <2>3 DEF Process
  <2>6. UNCHANGED <<fallback, anew, reg, leaving, life, stopped, rows, story, vision>>  BY <1>5 DEF SwitchModel
  <2>7. up' \in Seq(Report) /\ \A k \in 1..Len(up') : up'[k].row \in 1..Len(rows)
    <3>1. CASE UNCHANGED up  BY <3>1 DEF Types
    <3>2. CASE Sends(Msg("error"))
      <4>1. /\ Msg("error") \in Seq(Report)
            /\ \A j \in 1..Len(Msg("error")) : Msg("error")[j].row = Len(rows)
        BY <1>2, MsgIsReport
      <4>2. Len(rows) > 0  BY <1>2 DEF Types
      <4>3. QED  BY <2>6, <3>2, <4>1, <4>2, SendsTyped
    <3>3. QED  BY <2>4, <3>1, <3>2
  <2>8. QED  BY <1>3, <2>5, <2>6, <2>7 DEF Types
<1>6. CASE Abort
  <2>1. proc' = [proc EXCEPT !.at = IF HasHandle THEN "ending" ELSE "gone"]
        /\ UNCHANGED <<fallback, anew, reg, leaving, life, stopped, rows, up, story, vision>>
    BY <1>6 DEF Abort
  <2>2. proc' \in Process /\ proc'.row = proc.row  BY <1>1, <2>1 DEF Process, Stages
  <2>3. QED  BY <1>1, <1>2, <1>3, <2>1, <2>2, QuietTyped
<1>7. QED  BY <1>4, <1>5, <1>6 DEF Takes

LEMMA EndsTyped ==
  ASSUME Types, Crash \/ StartTimeout \/ AbortEnds
  PROVE  Types'
<1>1. /\ proc \in Process /\ story \in Seq(Entry) /\ down \in Seq(Command)
      /\ vision \in [saved : Nat, calls : Nat, cached : SUBSET Questions]
      /\ stopped \in BOOLEAN /\ life \in Lives /\ anew \in Causes
  BY DEF Types
<1>2. NoProcess \in Process /\ NoProcess.at = "none"
  BY AgentAssumption DEF NoProcess, Process, Stages
<1>3. CASE Crash
  <2>1. /\ proc.at \notin {"none", "gone"} /\ proc' = [proc EXCEPT !.at = "gone"]
        /\ UNCHANGED <<fallback, anew, reg, leaving, life, stopped, rows, down, up, story, vision>>
    BY <1>3 DEF Crash, Alive
  <2>2. proc' \in Process /\ proc'.row = proc.row  BY <1>1, <2>1 DEF Process, Stages
  <2>3. QED  BY <1>1, <2>1, <2>2, QuietTyped
<1>4. CASE StartTimeout
  <2>1. /\ proc' = NoProcess /\ down' = <<>> /\ life' = Target(life, "SOLVER_ERROR")
        /\ anew' = "failed"
        /\ UNCHANGED <<fallback, reg, leaving, stopped, rows, up, story, vision>>
    BY <1>4 DEF StartTimeout
  <2>2. life' \in Lives /\ down' \in Seq(Command) /\ anew' \in Causes
    BY <1>1, <2>1, TargetsHere DEF Causes
  <2>3. QED  BY <1>1, <1>2, <2>1, <2>2, QuietTyped
<1>5. CASE AbortEnds
  <2>1. /\ proc.at = "ending" /\ proc' = [proc EXCEPT !.at = "gone"]
        /\ UNCHANGED up \/ Sends(Msg("idle"))
        /\ UNCHANGED <<fallback, anew, reg, leaving, life, stopped, rows, down, story, vision>>
    BY <1>5 DEF AbortEnds
  <2>2. proc' \in Process /\ proc'.row = proc.row  BY <1>1, <2>1 DEF Process, Stages
  <2>3. Len(rows) > 0  BY <2>1 DEF Types
  <2>4. up' \in Seq(Report) /\ \A k \in 1..Len(up') : up'[k].row \in 1..Len(rows)
    <3>1. CASE UNCHANGED up  BY <3>1 DEF Types
    <3>2. CASE Sends(Msg("idle"))
      <4>1. /\ Msg("idle") \in Seq(Report)
            /\ \A j \in 1..Len(Msg("idle")) : Msg("idle")[j].row = Len(rows)
        BY <2>1, MsgIsReport
      <4>2. QED  BY <2>1, <2>3, <3>2, <4>1, SendsTyped
    <3>3. QED  BY <2>1, <3>1, <3>2
  <2>5. QED  BY <2>1, <2>2, <2>4 DEF Types
<1>6. QED  BY <1>3, <1>4, <1>5

LEMMA LookTyped ==
  ASSUME Types, NEW q \in Questions, Look(q) \/ LookDone(q)
  PROVE  Types'
<1>1. /\ proc \in Process /\ story \in Seq(Entry) /\ down \in Seq(Command)
      /\ vision \in [saved : Nat, calls : Nat, cached : SUBSET Questions]
      /\ stopped \in BOOLEAN /\ life \in Lives /\ anew \in Causes
  BY DEF Types
<1>2. /\ proc.at # "none"
      /\ UNCHANGED <<fallback, anew, reg, leaving, life, stopped, rows, down, up, story>>
  BY DEF Look, LookDone, CanLook
<1>3. proc' \in Process /\ proc'.row = proc.row
  <2>1. \/ proc' = [proc EXCEPT !.used = proc.used + 1, !.looks = proc.looks \cup {q}]
        \/ proc' = [proc EXCEPT !.looks = proc.looks \ {q}]
    BY <1>1 DEF Look, LookDone, Process
  <2>2. proc.used + 1 \in Nat /\ proc.looks \cup {q} \in SUBSET Questions
        /\ proc.looks \ {q} \in SUBSET Questions
    BY <1>1 DEF Process
  <2>3. \A n \in Nat, looks \in SUBSET Questions :
          /\ [proc EXCEPT !.used = n, !.looks = looks] \in Process
          /\ [proc EXCEPT !.looks = looks] \in Process
          /\ [proc EXCEPT !.used = n, !.looks = looks].row = proc.row
          /\ [proc EXCEPT !.looks = looks].row = proc.row
    BY <1>1 DEF Process
  <2>4. CASE proc' = [proc EXCEPT !.used = proc.used + 1, !.looks = proc.looks \cup {q}]
    BY <2>2, <2>3, <2>4
  <2>5. CASE proc' = [proc EXCEPT !.looks = proc.looks \ {q}]
    BY <2>2, <2>3, <2>5
  <2>6. QED  BY <2>1, <2>4, <2>5
<1>4. vision' \in [saved : Nat, calls : Nat, cached : SUBSET Questions]
  <2>1. CASE Look(q)
    <3>1. proc.used + 1 \in Nat  BY <1>1 DEF Process
    <3>2. vision' = [saved |-> proc.used + 1, calls |-> vision.calls + 1, cached |-> vision.cached]
      BY <1>1, <2>1 DEF Look, Take
    <3>3. vision.calls + 1 \in Nat /\ vision.cached \in SUBSET Questions  BY <1>1
    <3>4. QED  BY <3>1, <3>2, <3>3
  <2>2. CASE LookDone(q)  BY <1>1, <2>2 DEF LookDone
  <2>3. QED  BY <2>1, <2>2
<1>5. QED  BY <1>1, <1>2, <1>3, <1>4, QuietTyped

LEMMA HearingTyped ==
  ASSUME Types, Hearing
  PROVE  Types'
<1>1. /\ proc \in Process /\ story \in Seq(Entry) /\ down \in Seq(Command) /\ rows \in Seq(Row)
      /\ up \in Seq(Report) /\ Len(rows) \in Nat /\ reg \in Registry /\ SlotsUsable(reg)
      /\ \A k \in 1..Len(up) : up[k].row \in 1..Len(rows)
      /\ stopped \in BOOLEAN /\ life \in Lives /\ anew \in Causes
  BY DEF Types
<1>2. ASSUME up # <<>>
      PROVE  /\ Tail(up) \in Seq(Report) /\ Head(up) \in Report
             /\ Head(up).row \in 1..Len(rows)
             /\ \A k \in 1..Len(Tail(up)) : Tail(up)[k].row \in 1..Len(rows)
  BY <1>1, <1>2, TailFacts
<1>3. CASE HearPersisted
  <2> DEFINE i == Head(up).row
             row == [rows[i] EXCEPT !.file = Head(up).file, !.kind = Head(up).kind]
  <2>1. up # <<>> /\ up' = Tail(up)  BY <1>3 DEF HearPersisted, Hears
  <2>2. i \in 1..Len(rows) /\ rows[i] \in Row  BY <1>1, <1>2, <2>1
  <2>3. row \in Row /\ row.status = rows[i].status
    BY <1>2, <2>1, <2>2 DEF Row, Report
  <2>4. rows' = [rows EXCEPT ![i] = row]  BY <1>3 DEF HearPersisted, RowOf
  <2> HIDE DEF i, row
  <2>5. /\ rows' \in Seq(Row) /\ Len(rows') = Len(rows)
        /\ \A k \in 1..Len(rows) : rows'[k] = IF k = i THEN row ELSE rows[k]
    BY <1>1, <2>2, <2>3, <2>4, SetFacts
  <2>6. \A k \in 1..Len(rows) : rows'[k].status = rows[k].status  BY <2>3, <2>5
  <2>7. UNCHANGED <<fallback, anew, reg, leaving, life, stopped, proc, down, story, vision>>
    BY <1>3 DEF HearPersisted
  <2>8. QED  BY <1>2, <2>1, <2>5, <2>6, <2>7 DEF Types
<1>4. CASE HearIdle \/ HearError
  <2>1. up # <<>> /\ up' = Tail(up)  BY <1>4 DEF HearIdle, HearError, Hears
  <2>2. UNCHANGED <<fallback, anew, leaving, life, stopped, rows, proc, down, story, vision>>
    BY <1>4 DEF HearIdle, HearError
  <2>3. reg' \in Registry /\ SlotsUsable(reg')
    <3> DEFINE b == Booked(Head(up).row)
    <3>1. b \subseteq Providers
      <4>1. rows[Head(up).row] \in Row  BY <1>1, <1>2, <2>1
      <4>2. Primaries(reg) \subseteq Models  BY <1>1 DEF Primaries, Registry
      <4>3. rows[Head(up).row].model # None => rows[Head(up).row].model \in Models
        BY <4>1 DEF Row
      <4>4. QED  BY <4>2, <4>3, ModelsAssumption DEF Booked
    <3>2. reg' = reg \/ \E p \in b : reg' = Succeeded(reg, p) \/ reg' = Failed(reg, p)
      BY <1>4 DEF HearIdle, HearError
    <3> HIDE DEF b
    <3>3. QED  BY <1>1, <3>1, <3>2, HealthKeepsRegistry
  <2>4. QED  BY <1>2, <2>1, <2>2, <2>3 DEF Types
<1>5. CASE HearExit
  <2>1. /\ proc' = NoProcess /\ down' = <<>> /\ stopped' = FALSE
        /\ UNCHANGED <<fallback, reg, leaving, up, story, vision>>
        /\ anew' = anew \/ anew' = "unheeded"
        /\ \/ rows' = Interrupted /\ life' = Target(life, "RECOVER_ACTIVE")
           \/ UNCHANGED <<rows, life>>
    BY <1>5 DEF HearExit
  <2>2. NoProcess \in Process /\ NoProcess.at = "none"
    BY AgentAssumption DEF NoProcess, Process, Stages
  <2>3. life' \in Lives /\ down' \in Seq(Command) /\ anew' \in Causes
    BY <1>1, <2>1, TargetsHere DEF Types, Causes
  <2>4. /\ rows' \in Seq(Row) /\ Len(rows') = Len(rows)
        /\ \A k \in 1..Len(rows) : rows'[k].status = "ACTIVE" => rows[k].status = "ACTIVE"
    <3>1. CASE rows' = Interrupted  BY <3>1, BecomeFacts DEF Interrupted
    <3>2. CASE rows' = rows  BY <1>1, <3>2
    <3>3. QED  BY <2>1, <3>1, <3>2
  <2>5. QED  BY <2>1, <2>2, <2>3, <2>4 DEF Types
<1>6. QED  BY <1>3, <1>4, <1>5 DEF Hearing

LEMMA HumanTyped ==
  ASSUME Types,
         \/ \E m \in Models : Switch(m)
         \/ Hint \/ Pause \/ Resume \/ Restart \/ Edit
         \/ \E p \in Providers : ProviderLeaves(p)
  PROVE  Types'
<1>1. /\ proc \in Process /\ story \in Seq(Entry) /\ down \in Seq(Command) /\ rows \in Seq(Row)
      /\ up \in Seq(Report) /\ Len(rows) \in Nat /\ reg \in Registry /\ SlotsUsable(reg)
      /\ vision \in [saved : Nat, calls : Nat, cached : SUBSET Questions]
      /\ stopped \in BOOLEAN /\ life \in Lives /\ anew \in Causes
  BY DEF Types
<1>2. ASSUME NEW msg \in Command, Told(msg) PROVE down' \in Seq(Command)
  BY <1>1, <1>2, AppendFacts DEF Told
<1>3. /\ [type |-> "inject", name |-> None] \in Command
      /\ [type |-> "abort", name |-> None] \in Command
      /\ \A m \in Models : [type |-> "switch_model", name |-> Name[m]] \in Command
  <2>1. \A m \in Models : Name[m] \in Range(Name)  BY ModelsAssumption DEF Range
  <2>2. QED  BY <2>1 DEF Command
<1>4. ASSUME NEW m \in Models, Switch(m) PROVE Types'
  <2> DEFINE i == CHOOSE k \in ActiveRows : TRUE
             row == [rows[i] EXCEPT !.model = m]
  <2>1. down' \in Seq(Command)  BY <1>2, <1>3, <1>4 DEF Switch
  <2>2. UNCHANGED <<fallback, anew, reg, leaving, life, stopped, proc, up, story, vision>>  BY <1>4 DEF Switch
  <2>3. CASE ActiveRows = {}
    <3>1. rows' = rows  BY <1>4, <2>3 DEF Switch
    <3>2. QED  BY <1>1, <2>1, <2>2, <3>1, QuietTyped
  <2>4. CASE ActiveRows # {}
    <3>1. i \in 1..Len(rows) /\ rows[i] \in Row  BY <1>1, <2>4 DEF ActiveRows
    <3>2. row \in Row /\ row.status = rows[i].status  BY <3>1 DEF Row
    <3>3. rows' = [rows EXCEPT ![i] = row]  BY <1>4, <2>4 DEF Switch
    <3> HIDE DEF i, row
    <3>4. /\ rows' \in Seq(Row) /\ Len(rows') = Len(rows)
          /\ \A k \in 1..Len(rows) : rows'[k] = IF k = i THEN row ELSE rows[k]
      BY <1>1, <3>1, <3>2, <3>3, SetFacts
    <3>5. \A k \in 1..Len(rows) : rows'[k].status = rows[k].status  BY <3>2, <3>4
    <3>6. QED  BY <2>1, <2>2, <3>4, <3>5 DEF Types
  <2>5. QED  BY <2>3, <2>4
<1>5. ASSUME Hint PROVE Types'
  <2>1. down' \in Seq(Command)  BY <1>2, <1>3, <1>5 DEF Hint
  <2>2. UNCHANGED <<fallback, anew, reg, leaving, life, stopped, rows, proc, up, story, vision>>  BY <1>5 DEF Hint
  <2>3. QED  BY <1>1, <2>1, <2>2, QuietTyped
<1>6. ASSUME Pause PROVE Types'
  <2>1. down' \in Seq(Command)  BY <1>2, <1>3, <1>6 DEF Pause
  <2>2. /\ UNCHANGED <<fallback, anew, reg, leaving, proc, up, story, vision>>
        /\ stopped' = TRUE /\ life' = Target(life, "PAUSE") /\ rows' = Become("PAUSED")
    BY <1>6 DEF Pause
  <2>3. life' \in Lives  BY <1>1, <2>2, TargetsHere
  <2>4. /\ rows' \in Seq(Row) /\ Len(rows') = Len(rows)
        /\ \A k \in 1..Len(rows) : rows'[k].status # "ACTIVE"
    BY <2>2, BecomeFacts
  <2>5. QED  BY <2>1, <2>2, <2>3, <2>4 DEF Types
<1>7. ASSUME Resume PROVE Types'
  <2>1. /\ life' \in Lives
        /\ UNCHANGED <<fallback, anew, reg, leaving, stopped, rows, proc, down, up, story, vision>>
    BY <1>1, <1>7, TargetsHere DEF Resume
  <2>2. QED  BY <1>1, <2>1, QuietTyped
<1>8. ASSUME Restart PROVE Types'
  <2>1. down' \in Seq(Command)  BY <1>2, <1>3, <1>8 DEF Restart
  <2>2. /\ UNCHANGED <<fallback, reg, leaving, rows, proc, up, story, vision>>
        /\ stopped' = TRUE /\ life' \in Lives /\ anew' \in Causes
    BY <1>1, <1>8, TargetsHere DEF Restart, Causes
  <2>3. QED  BY <1>1, <2>1, <2>2, QuietTyped
<1>9. ASSUME Edit \/ \E p \in Providers : ProviderLeaves(p) PROVE Types'
  <2>1. UNCHANGED <<fallback, anew, life, stopped, rows, proc, down, up, story, vision>>
    BY <1>9 DEF Edit, ProviderLeaves
  <2>2. leaving' \subseteq Providers /\ leaving \subseteq Providers
    BY <1>1, <1>9 DEF Types, Registry, Edit, ProviderLeaves
  <2>3. \/ \E m \in Models : reg' \in {WithoutModel(reg, m), WithModel(reg, m), Promoted(reg, m)}
        \/ \E p \in Providers : reg' \in {[reg EXCEPT !.keys = @ \cup {p}], WithoutKey(reg, p),
                                         WithoutProvider(reg, p)}
    <3>1. reg.enabled \subseteq Models /\ reg.open \subseteq Providers  BY <1>1 DEF Registry
    <3>2. QED  BY <1>9, <3>1 DEF Edit, ProviderLeaves
  <2>4. reg' \in Registry /\ SlotsUsable(reg')  BY <1>1, <2>3, EditsKeepRegistry
  <2>5. QED  BY <2>1, <2>2, <2>4 DEF Types
<1>10. QED  BY <1>4, <1>5, <1>6, <1>7, <1>8, <1>9

LEMMA StoppedTyped ==
  ASSUME Types, Stopped, life' \in Lives
  PROVE  Types'
<1>1. /\ proc \in Process
      /\ UNCHANGED <<fallback, anew, reg, leaving, down, up, story, vision>>
      /\ stopped' = TRUE /\ rows' = Become("ENDED")
      /\ proc' = IF proc.at = "none" THEN proc ELSE [proc EXCEPT !.at = "gone"]
  BY DEF Types, Stopped
<1>2. /\ rows' \in Seq(Row) /\ Len(rows') = Len(rows)
      /\ \A k \in 1..Len(rows) : rows'[k].status # "ACTIVE"
  BY <1>1, BecomeFacts
<1>3. proc' \in Process /\ proc'.row = proc.row /\ (proc'.at # "none" => proc.at # "none")
  BY <1>1 DEF Process, Stages
<1>4. QED  BY <1>1, <1>2, <1>3 DEF Types

LEMMA FlagsTyped ==
  ASSUME Types, Flags
  PROVE  Types'
<1>1. proc \in Process /\ story \in Seq(Entry) /\ down \in Seq(Command) /\ stopped \in BOOLEAN
      /\ vision \in [saved : Nat, calls : Nat, cached : SUBSET Questions]
      /\ life \in Lives /\ anew \in Causes
  BY DEF Types
<1>2. Feedback \in Command  BY DEF Feedback, Command
<1>3. CASE FlagCorrect \/ Accept
  <2>1. Stopped /\ life' \in Lives
    BY <1>1, <1>3, TargetsHere DEF FlagCorrect, Accept, Lives
  <2>2. QED  BY <2>1, StoppedTyped
<1>4. CASE FlagFound \/ FlagWrong \/ Reject \/ ResumeSolving
  <2>1. UNCHANGED <<fallback, reg, leaving, stopped, rows, proc, up, story, vision, anew>>
    BY <1>4 DEF FlagFound, FlagWrong, Reject, ResumeSolving
  <2>2. down' \in Seq(Command)
    <3>1. down' = down \/ Told(Feedback)  BY <1>4 DEF FlagFound, FlagWrong, Reject, ResumeSolving
    <3>2. down' = down \/ down' = Append(down, Feedback)  BY <3>1 DEF Told
    <3>3. QED  BY <1>1, <1>2, <3>2, AppendFacts
  <2>3. life' \in Lives
    <3>1. CASE FlagFound  BY <3>1, TargetsHere DEF FlagFound, Lives
    <3>2. CASE FlagWrong \/ ResumeSolving  BY <1>1, <3>2, TargetsHere DEF FlagWrong, ResumeSolving
    <3>3. CASE Reject
      <4>1. Reopened(life) \in Lives  BY <1>1, TargetsHere DEF Reopened
      <4>2. QED  BY <3>3, <4>1, TargetsHere DEF Reject
    <3>4. QED  BY <1>4, <3>1, <3>2, <3>3
  <2>4. QED  BY <1>1, <2>1, <2>2, <2>3, QuietTyped
<1>5. QED  BY <1>3, <1>4 DEF Flags

LEMMA TypesStep == Types /\ [Next]_vars => Types'
<1> SUFFICES ASSUME Types, [Next]_vars PROVE Types'  OBVIOUS
<1>1. CASE StartSolver  BY <1>1, StartTyped
<1>2. CASE Works \/ FirstFails  BY <1>2, WorkTyped, LookTyped DEF Works
<1>3. CASE Takes  BY <1>3, TakesTyped
<1>4. CASE Crash \/ StartTimeout \/ AbortEnds  BY <1>4, EndsTyped
<1>5. CASE \E q \in Questions : Look(q)  BY <1>5, LookTyped
<1>6. CASE Hearing  BY <1>6, HearingTyped
<1>7. CASE \/ \E m \in Models : Switch(m)
           \/ Hint \/ Pause \/ Resume \/ Restart \/ Edit
           \/ \E p \in Providers : ProviderLeaves(p)
  BY <1>7, HumanTyped
<1>8. CASE UNCHANGED vars  BY <1>8 DEF vars, Types
<1>9. CASE Flags  BY <1>9, FlagsTyped
<1>10. QED  BY <1>1, <1>2, <1>3, <1>4, <1>5, <1>6, <1>7, <1>8, <1>9 DEF Next

LEMMA TypesAlways == Spec => []Types
BY TypesInit, TypesStep, PTL DEF Spec

(* Whatever models and providers come and go, the slots the human assigned  *)
(* name only models that can be used (pruneUnusableAssignments).            *)
THEOREM SlotsStayUsable == Spec => []SlotsUsable(reg)
<1>1. Types => SlotsUsable(reg)  BY DEF Types
<1>2. QED  BY <1>1, TypesAlways, PTL
-----------------------------------------------------------------------------
(* The budget of the pictures: the file counts what was called, and a       *)
(* worker that reads its messages counts with the file.                     *)

Reading == {"choosing", "first", "loop", "busy", "idle"}

Budget ==
  /\ vision.calls = vision.saved
  /\ vision.calls <= MaxVision
  /\ proc.at \in Reading => proc.used = vision.saved

(* A step that calls nobody, of a worker that stays the one it was.         *)
LEMMA NoCall ==
  ASSUME Types, Budget, vision' = vision,
         proc'.at \in Reading => proc.at \in Reading /\ proc'.used = proc.used
  PROVE  Budget'
BY DEF Budget

LEMMA BudgetStep == Types /\ Budget /\ [Next]_vars => Budget'
<1> SUFFICES ASSUME Types, Budget, [Next]_vars PROVE Budget'  OBVIOUS
<1>1. /\ proc \in Process
      /\ vision \in [saved : Nat, calls : Nat, cached : SUBSET Questions]
  BY DEF Types
<1>2. CASE StartSolver
  <2>1. PICK i, resume, m, session : Start(i, resume, m, session)  BY <1>2, StartShape
  <2>2. CASE Launch(i, resume, m, session)
    <3>1. vision' = vision /\ proc'.at = "forked"  BY <2>2, LaunchShape
    <3>2. QED  BY <3>1, NoCall DEF Reading
  <2>3. CASE LaunchThrows(session)  BY <2>3, NoCall DEF LaunchThrows
  <2>4. QED  BY <2>1, <2>2, <2>3 DEF Start
<1>3. CASE StartTimeout \/ HearExit
  <2>1. vision' = vision /\ proc'.at = "none"
    BY <1>3 DEF StartTimeout, HearExit, NoProcess
  <2>2. QED  BY <2>1, NoCall DEF Reading
<1>4. CASE Begin
  <2>1. vision' = vision /\ proc'.used = vision.saved  BY <1>1, <1>4 DEF Begin, Process
  <2>2. QED  BY <2>1 DEF Budget
<1>5. CASE OpenSession
  <2>1. vision' = vision /\ proc'.used = proc.used /\ proc.at = "choosing"
    BY <1>1, <1>5 DEF OpenSession, Process
  <2>2. QED  BY <2>1, NoCall DEF Reading
<1>6. CASE OpenFails \/ FirstFails \/ Abort \/ AbortEnds \/ Crash
  <2>1. vision' = vision /\ proc'.at \in {"ending", "gone"}
    BY <1>1, <1>6 DEF OpenFails, FirstFails, Abort, AbortEnds, Crash, Process
  <2>2. QED  BY <2>1, NoCall DEF Reading
<1>7. CASE FirstDone \/ LoopDone \/ PromptDone
  <2>1. vision' = vision /\ proc'.used = proc.used /\ proc.at \in {"first", "loop", "busy"}
    BY <1>1, <1>7 DEF FirstDone, LoopDone, PromptDone, Process
  <2>2. QED  BY <2>1, NoCall DEF Reading
<1>8. CASE Inject \/ SwitchModel
  <2>1. vision' = vision /\ proc.at \in Reading
    BY <1>8 DEF Inject, SwitchModel, Receives, Reading
  <2>2. proc'.used = proc.used
    <3>1. \/ proc' = proc
          \/ proc' = [proc EXCEPT !.at = "busy"]
          \/ proc' = [proc EXCEPT !.missed = TRUE]
          \/ \E m : proc' = [proc EXCEPT !.model = m]
      BY <1>8 DEF Inject, SwitchModel
    <3>2. QED  BY <1>1, <3>1 DEF Process
  <2>3. QED  BY <2>1, <2>2, NoCall
<1>9. ASSUME NEW q \in Questions, Look(q) PROVE Budget'
  <2>1. proc.at \in Reading /\ proc.used < MaxVision /\ proc.used \in Nat /\ MaxVision \in Nat
    BY <1>1, <1>9, AgentAssumption DEF Look, CanLook, Reading, Process
  <2>2. vision'.saved = proc.used + 1 /\ vision'.calls = vision.calls + 1
    BY <1>1, <1>9 DEF Look, Take
  <2>3. proc'.used = proc.used + 1  BY <1>1, <1>9 DEF Look, Process
  <2>4. QED  BY <1>1, <2>1, <2>2, <2>3 DEF Budget
<1>10. ASSUME NEW q \in Questions, LookDone(q) PROVE Budget'
  <2>1. proc.at \in Reading /\ proc'.used = proc.used
    BY <1>1, <1>10 DEF LookDone, Reading, Process
  <2>2. vision'.saved = vision.saved /\ vision'.calls = vision.calls
    BY <1>1, <1>10 DEF LookDone
  <2>3. QED  BY <2>1, <2>2 DEF Budget
<1>11. CASE \/ HearPersisted \/ HearIdle \/ HearError
            \/ \E m \in Models : Switch(m)
            \/ Hint \/ Pause \/ Resume \/ Restart \/ Edit
            \/ \E p \in Providers : ProviderLeaves(p)
            \/ FlagFound \/ FlagWrong \/ Reject \/ ResumeSolving
            \/ UNCHANGED vars
  <2>1. vision' = vision /\ proc' = proc
    BY <1>11 DEF HearPersisted, HearIdle, HearError, Switch, Hint, Pause, Resume, Restart, Edit,
                 ProviderLeaves, FlagFound, FlagWrong, Reject, ResumeSolving, vars
  <2>2. QED  BY <2>1, NoCall
<1>12. CASE FlagCorrect \/ Accept
  <2>1. vision' = vision /\ proc'.at \in {"none", "gone"}
    BY <1>1, <1>12 DEF FlagCorrect, Accept, Stopped, Process
  <2>2. QED  BY <2>1, NoCall DEF Reading
<1>13. QED
  BY <1>2, <1>3, <1>4, <1>5, <1>6, <1>7, <1>8, <1>9, <1>10, <1>11, <1>12
     DEF Next, Works, Takes, Hearing, Flags

(* However often workers die, a vision model is not called more often for a *)
(* challenge than configured, for any number of questions and faults        *)
(* (VisionCallBudget.take, loadFileBudget).                                 *)
THEOREM VisionStaysWithinBudget == Spec => []VisionWithinBudget
<1>1. Init => Budget
  BY AgentAssumption DEF Init, Budget, NoProcess, Reading
<1>2. Types /\ Budget => VisionWithinBudget
  BY DEF Types, Budget, VisionWithinBudget
<1>3. QED  BY <1>1, <1>2, BudgetStep, TypesAlways, PTL DEF Spec
-----------------------------------------------------------------------------
(* Sessions and conversations.                                             *)

Owned(st, n, i) == n \in 1..Len(st) /\ st[n].row = i

Begun(st, n, i) == Owned(st, n, i) /\ "kickoff" \in st[n].said

(* What a row, a message and a worker say of a file: it is a conversation   *)
(* of that row, and one of Pi that has begun with the challenge.            *)
RowsRight ==
  \A k \in 1..Len(rows) : /\ rows[k].file # 0 => Owned(story, rows[k].file, k)
                          /\ rows[k].kind = "pi" => Begun(story, rows[k].file, k)

ReportsRight ==
  \A k \in 1..Len(up) : up[k].type = "session_persisted" =>
    /\ Owned(story, up[k].file, up[k].row)
    /\ up[k].kind = "pi" => Begun(story, up[k].file, up[k].row)

WorkerRight ==
  /\ proc.at = "none" => ~proc.resume
  /\ proc.at \in {"forked", "choosing"} => proc.runtime = "none"
  /\ proc.at = "first" => proc.runtime = "pi"
  /\ (proc.resume /\ proc.runtime # "mock") => Begun(story, proc.file, proc.row)
  /\ proc.at \in {"first", "loop", "busy", "idle"} =>
       /\ Owned(story, proc.file, proc.row)
       /\ proc.runtime = "pi" => Begun(story, proc.file, proc.row)

Sessions == RowsRight /\ ReportsRight /\ WorkerRight

(* No step takes a conversation away, or what was said in it. *)
LEMMA StoriesGrow ==
  ASSUME Types, [Next]_vars
  PROVE  \A n, i : (Owned(story, n, i) => Owned(story', n, i)) /\ (Begun(story, n, i) => Begun(story', n, i))
<1>1. story \in Seq(Entry) /\ Len(story) \in Nat  BY DEF Types
<1>2. ASSUME story' = story
      PROVE  \A n, i : (Owned(story, n, i) => Owned(story', n, i)) /\ (Begun(story, n, i) => Begun(story', n, i))
  BY <1>2 DEF Owned, Begun
<1>3. ASSUME NEW e, story' = Append(story, e)
      PROVE  \A n, i : (Owned(story, n, i) => Owned(story', n, i)) /\ (Begun(story, n, i) => Begun(story', n, i))
  <2>1. Len(story') = Len(story) + 1 /\ \A n \in 1..Len(story) : story'[n] = story[n]
    BY <1>1, <1>3
  <2>2. QED  BY <1>1, <2>1 DEF Owned, Begun
<1>4. ASSUME NEW k, NEW w, story' = [story EXCEPT ![k].said = @ \cup {w}]
      PROVE  \A n, i : (Owned(story, n, i) => Owned(story', n, i)) /\ (Begun(story, n, i) => Begun(story', n, i))
  <2>1. Len(story') = Len(story)  BY <1>1, <1>4
  <2>2. ASSUME NEW n \in 1..Len(story)
        PROVE  story'[n].row = story[n].row /\ story[n].said \subseteq story'[n].said
    <3>1. story[n] \in Entry  BY <1>1
    <3>2. CASE n = k
      <4> DEFINE entry == [story[k] EXCEPT !.said = @ \cup {w}]
      <4>1. story' = [story EXCEPT ![k] = entry]  BY <1>4
      <4>2. entry.row = story[n].row /\ story[n].said \subseteq entry.said
        BY <3>1, <3>2 DEF Entry
      <4> HIDE DEF entry
      <4>3. story'[n] = entry  BY <1>1, <3>2, <4>1
      <4>4. QED  BY <4>2, <4>3
    <3>3. CASE n # k
      <4>1. story'[n] = story[n]  BY <1>1, <1>4, <3>3
      <4>2. QED  BY <4>1
    <3>4. QED  BY <3>2, <3>3
  <2>3. QED  BY <1>1, <2>1, <2>2 DEF Owned, Begun
<1>5. CASE OpenSession
  <2>1. (\E e : story' = Append(story, e)) \/ \E k, w : story' = [story EXCEPT ![k].said = @ \cup {w}]
    BY <1>5 DEF OpenSession
  <2>2. QED  BY <1>3, <1>4, <2>1
<1>6. CASE Inject
  <2>1. story' = story \/ \E k, w : story' = [story EXCEPT ![k].said = @ \cup {w}]
    BY <1>6 DEF Inject
  <2>2. QED  BY <1>2, <1>4, <2>1
<1>7. CASE StartSolver
  <2>1. story' = story
    <3>1. PICK i, resume, m, session : Start(i, resume, m, session)  BY <1>7, StartShape
    <3>2. QED  BY <3>1, LaunchShape DEF Start, LaunchThrows
  <2>2. QED  BY <1>2, <2>1
<1>8. CASE ~OpenSession /\ ~Inject /\ ~StartSolver
  <2>1. story' = story
    <3>1. CASE Works \/ FirstFails \/ AbortEnds \/ Crash \/ StartTimeout
      BY <1>8, <3>1 DEF Works, Begin, OpenFails, FirstDone, LoopDone, PromptDone, LookDone, FirstFails,
                        AbortEnds, Crash, StartTimeout
    <3>2. CASE Takes \/ Hearing \/ \E q \in Questions : Look(q)
      BY <1>8, <3>2 DEF Takes, SwitchModel, Abort, Hearing, HearPersisted, HearIdle, HearError,
                        HearExit, Look
    <3>3. CASE \/ \E m \in Models : Switch(m)
               \/ Hint \/ Pause \/ Resume \/ Restart \/ Edit
               \/ \E p \in Providers : ProviderLeaves(p)
      BY <3>3 DEF Switch, Hint, Pause, Resume, Restart, Edit, ProviderLeaves
    <3>4. CASE UNCHANGED vars  BY <3>4 DEF vars
    <3>5. CASE Flags
      BY <3>5 DEF Flags, FlagFound, FlagWrong, FlagCorrect, Accept, Reject, ResumeSolving, Stopped
    <3>6. QED  BY <1>8, <3>1, <3>2, <3>3, <3>4, <3>5 DEF Next
  <2>2. QED  BY <1>2, <2>1
<1>9. QED  BY <1>5, <1>6, <1>7, <1>8

LEMMA SessionsImply == Types /\ Sessions => ResumedKnowsTask /\ StoryOfItsRow
<1> SUFFICES ASSUME Types, Sessions PROVE ResumedKnowsTask /\ StoryOfItsRow  OBVIOUS
<1>1. ResumedKnowsTask  BY DEF Sessions, WorkerRight, ResumedKnowsTask, Begun, Owned
<1>2. StoryOfItsRow  BY DEF Sessions, RowsRight, StoryOfItsRow, Owned
<1>3. QED  BY <1>1, <1>2

LEMMA RowsStay ==
  ASSUME Types, Sessions, [Next]_vars,
         Len(rows') = Len(rows),
         \A k \in 1..Len(rows) : rows'[k].file = rows[k].file /\ rows'[k].kind = rows[k].kind
  PROVE  RowsRight'
BY StoriesGrow DEF Sessions, RowsRight

LEMMA ReportsStay ==
  ASSUME Types, Sessions, [Next]_vars, up' = up \/ (up # <<>> /\ up' = Tail(up))
  PROVE  ReportsRight'
<1>1. up \in Seq(Report)  BY DEF Types
<1>2. ASSUME NEW k \in 1..Len(up') PROVE \E j \in 1..Len(up) : up'[k] = up[j]
  BY <1>1, TailFacts
<1>3. QED  BY <1>2, StoriesGrow DEF Sessions, ReportsRight

(* A worker sends what it is; only a session tells of its file. *)
LEMMA ReportsSent ==
  ASSUME Types, Sessions, [Next]_vars, NEW t \in Seq(Report), Sends(t),
         \A j \in 1..Len(t) : t[j].type = "session_persisted" =>
           /\ Owned(story', t[j].file, t[j].row)
           /\ t[j].kind = "pi" => Begun(story', t[j].file, t[j].row)
  PROVE  ReportsRight'
<1>1. up \in Seq(Report) /\ up' = up \o t  BY DEF Types, Sends
<1>2. \A k \in 1..Len(up') : \/ k \in 1..Len(up) /\ up'[k] = up[k]
                             \/ \E j \in 1..Len(t) : up'[k] = t[j]
  BY <1>1, SentFacts
<1>3. QED  BY <1>2, StoriesGrow DEF Sessions, ReportsRight

LEMMA WorkerStays ==
  ASSUME Types, Sessions, [Next]_vars,
         proc'.resume = proc.resume, proc'.file = proc.file, proc'.runtime = proc.runtime,
         proc'.row = proc.row,
         \/ proc'.at = proc.at
         \/ proc'.at \in {"ending", "gone"}
         \/ proc.at = "forked" /\ proc'.at = "choosing"
         \/ proc.at \in {"first", "loop", "busy", "idle"} /\ proc'.at \in {"busy", "idle"}
  PROVE  WorkerRight'
BY StoriesGrow DEF Sessions, WorkerRight

LEMMA NoWorker ==
  ASSUME proc' = NoProcess
  PROVE  WorkerRight'
BY DEF WorkerRight, NoProcess

LEMMA SessionsStart ==
  ASSUME Types, Sessions, StartSolver
  PROVE  Sessions'
<1>1. [Next]_vars  BY DEF Next
<1>2. PICK m, i, resume, session : Begins(i, resume, session) /\ Start(i, resume, m, session)
  BY StartShape
<1>3. rows' = session /\ up' = up  BY <1>2, LaunchShape DEF Start, LaunchThrows
<1>4. /\ Len(rows) \in Nat /\ Len(rows) <= Len(rows') /\ i = Len(rows') /\ resume \in BOOLEAN
      /\ \A k \in 1..Len(rows) : rows'[k].file = rows[k].file /\ rows'[k].kind = rows[k].kind
      /\ \A k \in 1..Len(rows') :
           k \in 1..Len(rows) \/ (rows'[k].file = 0 /\ rows'[k].kind = "none")
      /\ resume => Resumable(rows[i]) /\ i \in 1..Len(rows)
  BY <1>2, <1>3, BeginsFacts
<1>5. RowsRight'  BY <1>1, <1>4, StoriesGrow DEF Sessions, RowsRight
<1>6. ReportsRight'  BY <1>1, <1>3, ReportsStay
<1>7. WorkerRight'
  <2>1. CASE LaunchThrows(session)
    <3>1. UNCHANGED <<proc, story>>  BY <2>1 DEF LaunchThrows
    <3>2. QED  BY <3>1 DEF Sessions, WorkerRight
  <2>2. CASE Launch(i, resume, m, session)
    <3>1. /\ proc'.at = "forked" /\ proc'.runtime = "none" /\ proc'.row = i
          /\ proc'.resume = resume /\ (resume => proc'.file = rows'[i].file)
      <4>1. /\ proc'.at = "forked" /\ proc'.runtime = "none" /\ proc'.row = i
            /\ proc'.resume = resume /\ rows' = session
            /\ proc'.file = IF resume THEN session[i].file ELSE 0
        BY <2>2, LaunchShape
      <4>2. ASSUME resume PROVE proc'.file = rows'[i].file  BY <4>1, <4>2
      <4>3. QED  BY <4>1, <4>2
    <3>2. resume => Begun(story', rows'[i].file, i)
      <4>1. resume => rows'[i].kind = "pi" /\ i \in 1..Len(rows')  BY <1>4 DEF Resumable
      <4>2. QED  BY <1>5, <4>1 DEF RowsRight
    <3>3. QED  BY <3>1, <3>2 DEF WorkerRight
  <2>3. QED  BY <1>2, <2>1, <2>2 DEF Start
<1>8. QED  BY <1>5, <1>6, <1>7 DEF Sessions

LEMMA SessionsOpen ==
  ASSUME Types, Sessions, OpenSession
  PROVE  Sessions'
<1>1. [Next]_vars  BY DEF Next, Works
<1>2. story \in Seq(Entry) /\ Len(story) \in Nat /\ proc \in Process /\ up \in Seq(Report)
  BY DEF Types
<1> DEFINE pi == Runtime = "pi"
           keep == proc.resume /\ pi
           n == IF keep THEN proc.file ELSE Len(story) + 1
           said == IF pi THEN {FirstWords} ELSE {}
           note == [type |-> "session_persisted", row |-> proc.row, file |-> n, kind |-> "mock"]
<1>3. /\ proc.at = "choosing"
      /\ story' = IF keep THEN [story EXCEPT ![n].said = @ \cup {FirstWords}]
                  ELSE Append(story, [row |-> proc.row, said |-> said])
      /\ IF pi THEN UNCHANGED up ELSE up' = Append(up, note)
      /\ rows' = rows
  BY DEF OpenSession
<1>4. proc' = [proc EXCEPT !.at = IF pi THEN "first" ELSE "loop", !.runtime = Runtime,
                           !.list = Readable, !.model = IF pi THEN Chosen ELSE None, !.file = n]
  BY DEF OpenSession
<1>5. /\ proc'.at = IF pi THEN "first" ELSE "loop"
      /\ proc'.runtime = Runtime /\ proc'.file = n /\ proc'.row = proc.row
      /\ proc'.resume = proc.resume
  BY <1>2, <1>4 DEF Process
<1>6. Runtime \in {"pi", "mock"}  BY <1>2 DEF Process, Runtime
<1>7. RowsRight'  BY <1>1, <1>3, RowsStay
<1>8. Owned(story', n, proc.row) /\ (pi => Begun(story', n, proc.row))
  <2>1. CASE keep
    <3>1. Begun(story, n, proc.row)  BY <1>3, <2>1 DEF Sessions, WorkerRight
    <3> HIDE DEF n
    <3>2. Begun(story', n, proc.row)  BY <1>1, <3>1, StoriesGrow
    <3>3. QED  BY <3>2 DEF Begun
  <2>2. CASE ~keep
    <3>1. story' = Append(story, [row |-> proc.row, said |-> said]) /\ n = Len(story) + 1
      BY <1>3, <2>2
    <3>2. story'[n] = [row |-> proc.row, said |-> said] /\ n \in 1..Len(story')
      BY <1>2, <3>1
    <3>3. pi => "kickoff" \in said  BY <2>2 DEF FirstWords
    <3>4. story'[n].row = proc.row /\ story'[n].said = said  BY <3>2
    <3>5. QED  BY <3>2, <3>3, <3>4 DEF Owned, Begun
  <2>3. QED  BY <2>1, <2>2
<1> HIDE DEF n, keep, said
<1>9. WorkerRight'
  <2>1. proc.resume /\ Runtime # "mock" => pi  BY <1>6
  <2>2. QED  BY <1>5, <1>8, <2>1 DEF WorkerRight
<1>10. ReportsRight'
  <2>1. CASE pi  BY <1>1, <1>3, <2>1, ReportsStay
  <2>2. CASE ~pi
    <3>1. note \in Report /\ note.file = n /\ note.row = proc.row /\ note.kind = "mock"
      BY <1>2, <1>5, WorkTyped DEF Report, Types, Process
    <3> HIDE DEF note, pi
    <3>2. /\ Len(up') = Len(up) + 1 /\ Len(up) \in Nat
          /\ \A k \in 1..Len(up) : up'[k] = up[k]
          /\ up'[Len(up) + 1] = note
      BY <1>2, <1>3, <2>2, <3>1, AppendFacts
    <3>3. \A k \in 1..Len(up') : k \in 1..Len(up) \/ k = Len(up) + 1  BY <3>2
    <3>4. QED  BY <1>1, <1>8, <3>1, <3>2, <3>3, StoriesGrow DEF Sessions, ReportsRight
  <2>3. QED  BY <2>1, <2>2
<1>11. QED  BY <1>7, <1>9, <1>10 DEF Sessions

LEMMA SessionsStep == Types /\ Sessions /\ [Next]_vars => Sessions'
<1> SUFFICES ASSUME Types, Sessions, [Next]_vars PROVE Sessions'  OBVIOUS
<1>1. /\ proc \in Process /\ rows \in Seq(Row) /\ up \in Seq(Report) /\ Len(rows) \in Nat
      /\ \A k \in 1..Len(up) : up[k].row \in 1..Len(rows)
  BY DEF Types
<1>2. CASE StartSolver  BY <1>2, SessionsStart
<1>3. CASE OpenSession  BY <1>3, SessionsOpen
<1>4. CASE Begin
  <2>1. proc.at = "forked" /\ proc.row \in 1..Len(rows)  BY <1>1, <1>4 DEF Begin, Types
  <2> DEFINE row == [rows[proc.row] EXCEPT !.model = proc.model]
  <2>2. row \in Row /\ row.file = rows[proc.row].file /\ row.kind = rows[proc.row].kind
    <3>1. rows[proc.row] \in Row /\ proc.model \in Models \cup {None}
      BY <1>1, <2>1 DEF Process
    <3>2. QED  BY <3>1 DEF Row
  <2>3. rows' = [rows EXCEPT ![proc.row] = row] /\ up' = up  BY <1>4 DEF Begin
  <2> HIDE DEF row
  <2>4. /\ Len(rows') = Len(rows)
        /\ \A k \in 1..Len(rows) : rows'[k] = IF k = proc.row THEN row ELSE rows[k]
    BY <1>1, <2>1, <2>2, <2>3, SetFacts
  <2>5. RowsRight'  BY <2>2, <2>4, RowsStay
  <2>6. /\ proc'.resume = proc.resume /\ proc'.file = proc.file /\ proc'.runtime = proc.runtime
        /\ proc'.row = proc.row /\ proc'.at = "choosing"
    BY <1>1, <1>4 DEF Begin, Process
  <2>7. WorkerRight'  BY <2>1, <2>6, WorkerStays
  <2>8. QED  BY <2>3, <2>5, <2>7, ReportsStay DEF Sessions
<1>5. CASE OpenFails \/ FirstFails \/ Crash \/ Abort \/ AbortEnds
  <2>1. /\ \E at \in {"ending", "gone"} : proc' = [proc EXCEPT !.at = at]
        /\ rows' = rows /\ proc.at # "none"
        /\ \/ UNCHANGED up
           \/ \E type \in {"error", "idle"} : Sends(Msg(type))
    BY <1>5 DEF OpenFails, FirstFails, Crash, Abort, AbortEnds, Alive, Receives
  <2>2. /\ proc'.resume = proc.resume /\ proc'.file = proc.file /\ proc'.runtime = proc.runtime
        /\ proc'.row = proc.row /\ proc'.at \in {"ending", "gone"}
    BY <1>1, <2>1 DEF Process
  <2>3. ReportsRight'
    <3>1. CASE UNCHANGED up  BY <3>1, ReportsStay
    <3>2. ASSUME NEW type \in {"error", "idle"}, Sends(Msg(type)) PROVE ReportsRight'
      <4>1. /\ Msg(type) \in Seq(Report)
            /\ \A j \in 1..Len(Msg(type)) : Msg(type)[j].type = type
        BY <2>1, MsgIsReport
      <4>2. QED  BY <3>2, <4>1, ReportsSent
    <3>3. QED  BY <2>1, <3>1, <3>2
  <2>4. WorkerRight'  BY <2>2, WorkerStays
  <2>5. QED  BY <2>1, <2>3, <2>4, RowsStay DEF Sessions
<1>6. CASE FirstDone \/ LoopDone \/ PromptDone
  <2>1. /\ proc' = [proc EXCEPT !.at = "idle"] /\ rows' = rows /\ proc.at \in {"first", "loop", "busy"}
        /\ story' = story
        /\ \/ UNCHANGED up
           \/ Sends(Msg("idle"))
           \/ Sends(Msg("session_persisted") \o Msg("idle"))
    BY <1>6 DEF FirstDone, LoopDone, PromptDone
  <2>2. /\ proc'.resume = proc.resume /\ proc'.file = proc.file /\ proc'.runtime = proc.runtime
        /\ proc'.row = proc.row /\ proc'.at = "idle"
    BY <1>1, <2>1 DEF Process
  <2>3. ReportsRight'
    <3> DEFINE a == Msg("session_persisted")
               b == Msg("idle")
    <3>1. /\ a \in Seq(Report) /\ b \in Seq(Report)
          /\ \A j \in 1..Len(b) : b[j].type = "idle"
          /\ \A j \in 1..Len(a) : /\ a[j].row = proc.row /\ a[j].file = proc.file
                                  /\ a[j].kind = proc.runtime
      BY <2>1, MsgIsReport DEF Types
    <3>2. /\ Owned(story', proc.file, proc.row)
          /\ proc.runtime = "pi" => Begun(story', proc.file, proc.row)
      BY <2>1 DEF Sessions, WorkerRight
    <3> HIDE DEF a, b
    <3>3. CASE UNCHANGED up  BY <3>3, ReportsStay
    <3>4. CASE Sends(b)  BY <3>1, <3>4, ReportsSent
    <3>5. CASE Sends(a \o b)
      <4> DEFINE t == a \o b
      <4>1. t \in Seq(Report) /\ \A k \in 1..Len(t) : \/ \E j \in 1..Len(a) : t[k] = a[j]
                                                     \/ \E j \in 1..Len(b) : t[k] = b[j]
        <5>1. /\ t \in Seq(Report)
              /\ \A k \in 1..Len(t) : \/ k \in 1..Len(a) /\ t[k] = a[k]
                                      \/ \E j \in 1..Len(b) : t[k] = b[j]
          BY <3>1, SentFacts
        <5> HIDE DEF t
        <5>2. QED  BY <5>1
      <4> HIDE DEF t
      <4>2. \A k \in 1..Len(t) : t[k].type = "session_persisted" =>
              /\ Owned(story', t[k].file, t[k].row)
              /\ t[k].kind = "pi" => Begun(story', t[k].file, t[k].row)
        BY <3>1, <3>2, <4>1
      <4>3. Sends(t)  BY <3>5 DEF t
      <4>4. QED  BY <4>1, <4>2, <4>3, ReportsSent
    <3>6. QED  BY <2>1, <3>3, <3>4, <3>5 DEF a, b
  <2>4. WorkerRight'  BY <2>1, <2>2, WorkerStays
  <2>5. QED  BY <2>1, <2>3, <2>4, RowsStay DEF Sessions
<1>7. CASE Inject \/ SwitchModel
  <2>1. rows' = rows /\ (UNCHANGED up \/ Sends(Msg("error"))) /\ proc.at # "none"
    BY <1>7 DEF Inject, SwitchModel, Receives
  <2>2. \/ proc' = proc
        \/ proc.at = "idle" /\ proc' = [proc EXCEPT !.at = "busy"]
        \/ proc' = [proc EXCEPT !.missed = TRUE]
        \/ \E m : proc' = [proc EXCEPT !.model = m]
    BY <1>7 DEF Inject, SwitchModel
  <2>3. /\ proc'.resume = proc.resume /\ proc'.file = proc.file /\ proc'.runtime = proc.runtime
        /\ proc'.row = proc.row
        /\ proc'.at = proc.at \/ (proc.at = "idle" /\ proc'.at = "busy")
    BY <1>1, <2>2 DEF Process
  <2>4. ReportsRight'
    <3>1. CASE UNCHANGED up  BY <3>1, ReportsStay
    <3>2. CASE Sends(Msg("error"))
      <4>1. /\ Msg("error") \in Seq(Report)
            /\ \A j \in 1..Len(Msg("error")) : Msg("error")[j].type = "error"
        BY <2>1, MsgIsReport
      <4>2. QED  BY <3>2, <4>1, ReportsSent
    <3>3. QED  BY <2>1, <3>1, <3>2
  <2>5. WorkerRight'  BY <2>3, WorkerStays
  <2>6. QED  BY <2>1, <2>4, <2>5, RowsStay DEF Sessions
<1>8. ASSUME NEW q \in Questions, Look(q) \/ LookDone(q) PROVE Sessions'
  <2>1. rows' = rows /\ up' = up  BY <1>8 DEF Look, LookDone
  <2>2. /\ proc'.resume = proc.resume /\ proc'.file = proc.file /\ proc'.runtime = proc.runtime
        /\ proc'.row = proc.row /\ proc'.at = proc.at
    BY <1>1, <1>8 DEF Look, LookDone, Process
  <2>3. WorkerRight'  BY <2>2, WorkerStays
  <2>4. QED  BY <2>1, <2>3, RowsStay, ReportsStay DEF Sessions
<1>9. CASE HearPersisted
  <2> DEFINE i == Head(up).row
             row == [rows[i] EXCEPT !.file = Head(up).file, !.kind = Head(up).kind]
  <2>1. up # <<>> /\ up' = Tail(up) /\ proc' = proc /\ story' = story
        /\ Head(up).type = "session_persisted"
    BY <1>9 DEF HearPersisted, Hears
  <2>2. Head(up) \in Report /\ i \in 1..Len(rows) /\ Head(up) = up[1] /\ 1 \in 1..Len(up)
    BY <1>1, <2>1, TailFacts
  <2>3. rows[i] \in Row  BY <1>1, <2>2
  <2>4. row \in Row /\ row.file = Head(up).file /\ row.kind = Head(up).kind
    BY <2>2, <2>3 DEF Row, Report
  <2>5. /\ Owned(story', Head(up).file, i)
        /\ Head(up).kind = "pi" => Begun(story', Head(up).file, i)
    BY <2>1, <2>2 DEF Sessions, ReportsRight
  <2>6. rows' = [rows EXCEPT ![i] = row]  BY <1>9 DEF HearPersisted, RowOf
  <2> HIDE DEF i, row
  <2>7. /\ Len(rows') = Len(rows)
        /\ \A k \in 1..Len(rows) : rows'[k] = IF k = i THEN row ELSE rows[k]
    BY <1>1, <2>2, <2>4, <2>6, SetFacts
  <2>8. RowsRight'  BY <2>1, <2>4, <2>5, <2>7 DEF Sessions, RowsRight
  <2>9. WorkerRight'  BY <2>1, WorkerStays
  <2>10. QED  BY <2>1, <2>8, <2>9, ReportsStay DEF Sessions
<1>10. CASE HearExit \/ StartTimeout
  <2>1. proc' = NoProcess /\ up' = up /\ (rows' = rows \/ rows' = Interrupted)
    BY <1>10 DEF HearExit, StartTimeout
  <2>2. /\ Len(rows') = Len(rows)
        /\ \A k \in 1..Len(rows) : rows'[k].file = rows[k].file /\ rows'[k].kind = rows[k].kind
    <3>1. CASE rows' = Interrupted  BY <3>1, BecomeFacts DEF Interrupted
    <3>2. CASE rows' = rows  BY <3>2
    <3>3. QED  BY <2>1, <3>1, <3>2
  <2>3. QED  BY <2>1, <2>2, RowsStay, ReportsStay, NoWorker DEF Sessions
<1>11. CASE HearIdle \/ HearError
  <2>1. up # <<>> /\ up' = Tail(up) /\ proc' = proc /\ rows' = rows
    BY <1>11 DEF HearIdle, HearError, Hears
  <2>2. WorkerRight'  BY <2>1, WorkerStays
  <2>3. QED  BY <2>1, <2>2, RowsStay, ReportsStay DEF Sessions
<1>12. CASE \/ \E m \in Models : Switch(m)
            \/ Hint \/ Pause \/ Resume \/ Restart \/ Edit
            \/ \E p \in Providers : ProviderLeaves(p)
            \/ FlagFound \/ FlagWrong \/ Reject \/ ResumeSolving
            \/ UNCHANGED vars
  <2>1. up' = up /\ proc' = proc
    BY <1>12 DEF Switch, Hint, Pause, Resume, Restart, Edit, ProviderLeaves, FlagFound, FlagWrong,
                 Reject, ResumeSolving, vars
  <2>2. /\ Len(rows') = Len(rows)
        /\ \A k \in 1..Len(rows) : rows'[k].file = rows[k].file /\ rows'[k].kind = rows[k].kind
    <3>1. \A k \in 1..Len(rows) : rows[k] \in Row  BY <1>1
    <3>2. ASSUME NEW m \in Models, Switch(m), rows' # rows
          PROVE  /\ Len(rows') = Len(rows)
                 /\ \A k \in 1..Len(rows) : /\ rows'[k].file = rows[k].file
                                            /\ rows'[k].kind = rows[k].kind
      <4> DEFINE i == CHOOSE k \in ActiveRows : TRUE
                 row == [rows[i] EXCEPT !.model = m]
      <4>1. ActiveRows # {} /\ rows' = [rows EXCEPT ![i] = row]  BY <3>2 DEF Switch
      <4>2. i \in 1..Len(rows)  BY <4>1 DEF ActiveRows
      <4>3. row \in Row /\ row.file = rows[i].file /\ row.kind = rows[i].kind
        BY <3>1, <4>2 DEF Row
      <4> HIDE DEF i, row
      <4>4. /\ Len(rows') = Len(rows)
            /\ \A k \in 1..Len(rows) : rows'[k] = IF k = i THEN row ELSE rows[k]
        BY <1>1, <4>1, <4>2, <4>3, SetFacts
      <4>5. QED  BY <4>3, <4>4
    <3>3. CASE Pause  BY <3>3, BecomeFacts DEF Pause
    <3>4. CASE rows' = rows  BY <3>4
    <3>5. QED
      BY <1>12, <3>2, <3>3, <3>4 DEF Hint, Resume, Restart, Edit, ProviderLeaves, FlagFound, FlagWrong,
                                     Reject, ResumeSolving, vars
  <2>3. WorkerRight'  BY <2>1, WorkerStays
  <2>4. QED  BY <2>1, <2>2, <2>3, RowsStay, ReportsStay DEF Sessions
<1>13. CASE FlagCorrect \/ Accept
  <2>1. /\ up' = up /\ rows' = Become("ENDED")
        /\ proc' = IF proc.at = "none" THEN proc ELSE [proc EXCEPT !.at = "gone"]
    BY <1>13 DEF FlagCorrect, Accept, Stopped
  <2>2. /\ proc'.resume = proc.resume /\ proc'.file = proc.file /\ proc'.runtime = proc.runtime
        /\ proc'.row = proc.row /\ (proc'.at = proc.at \/ proc'.at = "gone")
    BY <1>1, <2>1 DEF Process
  <2>3. RowsRight'  BY <2>1, BecomeFacts, RowsStay
  <2>4. QED  BY <2>1, <2>2, <2>3, ReportsStay, WorkerStays DEF Sessions
<1>14. QED
  BY <1>2, <1>3, <1>4, <1>5, <1>6, <1>7, <1>8, <1>9, <1>10, <1>11, <1>12, <1>13
     DEF Next, Works, Takes, Hearing, Flags

LEMMA SessionsInit == Init => Sessions
<1> SUFFICES ASSUME Init PROVE Sessions  OBVIOUS
<1>1. Len(rows) = 0 /\ Len(up) = 0 /\ proc = NoProcess  BY DEF Init
<1>2. RowsRight /\ ReportsRight  BY <1>1 DEF RowsRight, ReportsRight
<1>3. WorkerRight  BY <1>1 DEF WorkerRight, NoProcess
<1>4. QED  BY <1>2, <1>3 DEF Sessions

LEMMA SessionsAlways == Spec => []Sessions
BY SessionsInit, SessionsStep, TypesAlways, PTL DEF Spec
-----------------------------------------------------------------------------
(* A conversation that was kept is continued. Until the human restarts the  *)
(* solver, a start fails or a worker dies unheeded, a row is only ACTIVE    *)
(* while its worker is there.                                               *)
Attended ==
  anew = "none" => \A k \in 1..Len(rows) : rows[k].status = "ACTIVE" => proc.at # "none"

LEMMA AttendedStays ==
  ASSUME Types, Attended, anew' = anew,
         proc'.at = "none" => proc.at = "none",
         Len(rows') = Len(rows),
         \A k \in 1..Len(rows) : rows'[k].status = "ACTIVE" => rows[k].status = "ACTIVE"
  PROVE  Attended'
BY DEF Attended

LEMMA AttendedStep == Types /\ Attended /\ [Next]_vars => Attended'
<1> SUFFICES ASSUME Types, Attended, [Next]_vars PROVE Attended'  OBVIOUS
<1>1. /\ proc \in Process /\ rows \in Seq(Row) /\ up \in Seq(Report) /\ Len(rows) \in Nat
      /\ \A k \in 1..Len(up) : up[k].row \in 1..Len(rows)
      /\ \A k \in 1..Len(rows) : rows[k] \in Row
  BY DEF Types
<1>2. CASE StartSolver
  <2>1. PICK m, i, resume, session : Start(i, resume, m, session)  BY <1>2, StartShape
  <2>2. proc'.at = "forked" \/ anew' = "failed"
    BY <2>1, LaunchShape DEF Start, LaunchThrows
  <2>3. QED  BY <2>2 DEF Attended
<1>3. CASE StartTimeout \/ Restart
  <2>1. anew' # "none"  BY <1>3 DEF StartTimeout, Restart
  <2>2. QED  BY <2>1 DEF Attended
<1>4. CASE HearExit
  <2>1. CASE ~stopped /\ life = "ACTIVE"
    <3>1. rows' = Become("INTERRUPTED")  BY <1>4, <2>1 DEF HearExit, Interrupted
    <3>2. QED  BY <3>1, BecomeFacts DEF Attended
  <2>2. CASE ~(~stopped /\ life = "ACTIVE")
    <3>1. /\ rows' = rows
          /\ anew' = IF ActiveRows # {} /\ anew = "none" THEN "unheeded" ELSE anew
      BY <1>4, <2>2 DEF HearExit
    <3>2. anew' = "none" => ActiveRows = {}  BY <3>1
    <3>3. QED  BY <3>1, <3>2 DEF Attended, ActiveRows
  <2>3. QED  BY <2>1, <2>2
<1>5. CASE Pause \/ FlagCorrect \/ Accept
  <2>1. PICK new \in {"PAUSED", "ENDED"} : rows' = Become(new)
    BY <1>5 DEF Pause, FlagCorrect, Accept, Stopped
  <2>2. QED  BY <2>1, BecomeFacts DEF Attended
<1>8. CASE Begin
  <2>1. proc.at = "forked" /\ proc.row \in 1..Len(rows)  BY <1>1, <1>8 DEF Begin, Types
  <2> DEFINE row == [rows[proc.row] EXCEPT !.model = proc.model]
  <2>2. row \in Row /\ row.status = rows[proc.row].status
    <3>1. rows[proc.row] \in Row /\ proc.model \in Models \cup {None}
      BY <1>1, <2>1 DEF Process
    <3>2. QED  BY <3>1 DEF Row
  <2>3. rows' = [rows EXCEPT ![proc.row] = row]  BY <1>8 DEF Begin
  <2> HIDE DEF row
  <2>4. /\ Len(rows') = Len(rows)
        /\ \A k \in 1..Len(rows) : rows'[k] = IF k = proc.row THEN row ELSE rows[k]
    BY <1>1, <2>1, <2>2, <2>3, SetFacts
  <2>5. proc'.at = "choosing" /\ anew' = anew
    BY <1>1, <1>8 DEF Begin, Process
  <2>6. QED  BY <2>2, <2>4, <2>5, AttendedStays
<1>9. CASE HearPersisted
  <2> DEFINE i == Head(up).row
             row == [rows[i] EXCEPT !.file = Head(up).file, !.kind = Head(up).kind]
  <2>1. up # <<>> /\ UNCHANGED <<proc, anew>>
    BY <1>9 DEF HearPersisted, Hears
  <2>2. Head(up) \in Report /\ i \in 1..Len(rows)  BY <1>1, <2>1, TailFacts
  <2>3. row \in Row /\ row.status = rows[i].status  BY <1>1, <2>2 DEF Row, Report
  <2>4. rows' = [rows EXCEPT ![i] = row]  BY <1>9 DEF HearPersisted, RowOf
  <2> HIDE DEF i, row
  <2>5. /\ Len(rows') = Len(rows)
        /\ \A k \in 1..Len(rows) : rows'[k] = IF k = i THEN row ELSE rows[k]
    BY <1>1, <2>2, <2>3, <2>4, SetFacts
  <2>6. QED  BY <2>1, <2>3, <2>5, AttendedStays
<1>10. ASSUME NEW m \in Models, Switch(m) PROVE Attended'
  <2>1. UNCHANGED <<proc, anew>>  BY <1>10 DEF Switch
  <2>2. CASE rows' = rows  BY <2>1, <2>2, AttendedStays
  <2>3. CASE rows' # rows
    <3> DEFINE i == CHOOSE k \in ActiveRows : TRUE
               row == [rows[i] EXCEPT !.model = m]
    <3>1. ActiveRows # {} /\ rows' = [rows EXCEPT ![i] = row]  BY <1>10, <2>3 DEF Switch
    <3>2. i \in 1..Len(rows)  BY <3>1 DEF ActiveRows
    <3>3. row \in Row /\ row.status = rows[i].status  BY <1>1, <3>2 DEF Row
    <3> HIDE DEF i, row
    <3>4. /\ Len(rows') = Len(rows)
          /\ \A k \in 1..Len(rows) : rows'[k] = IF k = i THEN row ELSE rows[k]
      BY <1>1, <3>1, <3>2, <3>3, SetFacts
    <3>5. QED  BY <2>1, <3>3, <3>4, AttendedStays
  <2>4. QED  BY <2>2, <2>3
<1>11. CASE \/ OpenSession \/ OpenFails \/ FirstDone \/ FirstFails \/ LoopDone \/ PromptDone \/ Takes
            \/ AbortEnds \/ Crash
            \/ \E q \in Questions : Look(q) \/ LookDone(q)
  <2>1. UNCHANGED <<rows, anew>>
    BY <1>11 DEF OpenSession, OpenFails, FirstDone, FirstFails, LoopDone, PromptDone, Takes, Inject,
                 SwitchModel, Abort, AbortEnds, Crash, Look, LookDone
  <2>2. proc.at # "none"
    BY <1>11 DEF OpenSession, OpenFails, FirstDone, FirstFails, LoopDone, PromptDone, Takes, Inject,
                 SwitchModel, Abort, AbortEnds, Crash, Look, LookDone, CanLook, Receives, Alive
  <2>3. proc'.at # "none"
    <3>1. CASE OpenFails \/ FirstDone \/ FirstFails \/ LoopDone \/ PromptDone \/ Abort \/ AbortEnds \/ Crash
      <4>1. \E at \in {"idle", "ending", "gone"} : proc' = [proc EXCEPT !.at = at]
        BY <3>1 DEF OpenFails, FirstDone, FirstFails, LoopDone, PromptDone, Abort, AbortEnds, Crash
      <4>2. QED  BY <1>1, <4>1 DEF Process
    <3>2. CASE OpenSession
      <4> DEFINE pi == Runtime = "pi"
                 n == IF proc.resume /\ pi THEN proc.file ELSE Len(story) + 1
                 m == IF pi THEN Chosen ELSE None
      <4>1. proc' = [proc EXCEPT !.at = IF pi THEN "first" ELSE "loop", !.runtime = Runtime,
                                 !.list = Readable, !.model = m, !.file = n]
        BY <3>2 DEF OpenSession
      <4> HIDE DEF pi, n, m
      <4>2. QED  BY <1>1, <4>1 DEF Process
    <3>3. CASE Inject \/ SwitchModel
      <4>1. \/ proc' = proc
            \/ proc' = [proc EXCEPT !.at = "busy"]
            \/ proc' = [proc EXCEPT !.missed = TRUE]
            \/ \E m : proc' = [proc EXCEPT !.model = m]
        BY <3>3 DEF Inject, SwitchModel
      <4>2. QED  BY <1>1, <2>2, <4>1 DEF Process
    <3>4. CASE \E q \in Questions : Look(q) \/ LookDone(q)
      BY <1>1, <2>2, <3>4 DEF Look, LookDone, Process
    <3>5. QED  BY <1>11, <3>1, <3>2, <3>3, <3>4 DEF Takes
  <2>4. QED  BY <2>1, <2>3 DEF Attended
<1>12. CASE \/ HearIdle \/ HearError \/ Hint \/ Edit
            \/ \E p \in Providers : ProviderLeaves(p)
            \/ Resume \/ FlagFound \/ FlagWrong \/ Reject \/ ResumeSolving
            \/ UNCHANGED vars
  <2>1. UNCHANGED <<proc, rows, anew>>
    BY <1>12 DEF HearIdle, HearError, Hint, Edit, ProviderLeaves, Resume, FlagFound, FlagWrong, Reject,
                 ResumeSolving, vars
  <2>2. QED  BY <2>1, AttendedStays
<1>13. QED
  BY <1>2, <1>3, <1>4, <1>5, <1>8, <1>9, <1>10, <1>11, <1>12 DEF Next, Works, Hearing, Flags

(* Once its conversation was kept, the solver does not start over: the next *)
(* worker of a session with a file of Pi continues that file, unless the    *)
(* challenge was solved, the human restarted the solver, a start failed, or *)
(* onWorkerExit only logged the end of the worker before                    *)
(* (isResumableSession).                                                    *)
THEOREM StoryIsKept == Spec => KeepsStory
<1>1. Init => Attended
  <2>1. SUFFICES ASSUME Init PROVE Attended  OBVIOUS
  <2>2. Len(rows) = 0  BY <2>1 DEF Init
  <2>3. QED  BY <2>2 DEF Attended
<1>2. ASSUME Types, Sessions, Attended, [Next]_vars,
             Succeeds, anew = "none", rows[Latest].status # "ENDED"
      PROVE  Continues
  <2>10. proc.at = "none" /\ proc'.at = "forked" /\ Latest > 0 /\ rows[Latest].kind = "pi"
    BY <1>2 DEF Succeeds
  <2>1. StartSolver
    <3>1. proc' # proc /\ proc' # NoProcess  BY <2>10 DEF NoProcess
    <3>2. ~Begin /\ ~OpenSession /\ ~OpenFails /\ ~FirstDone /\ ~FirstFails /\ ~LoopDone /\ ~PromptDone
          /\ ~Takes /\ ~AbortEnds /\ ~Crash /\ ~StartTimeout /\ ~HearExit
          /\ \A q \in Questions : ~Look(q) /\ ~LookDone(q)
      BY <2>10 DEF Begin, OpenSession, OpenFails, FirstDone, FirstFails, LoopDone, PromptDone, Takes,
                   Inject, SwitchModel, Abort, AbortEnds, Receives, Crash, Alive, StartTimeout, HearExit,
                   Look, LookDone, CanLook
    <3>3. ~HearPersisted /\ ~HearIdle /\ ~HearError /\ ~Hint /\ ~Pause /\ ~Resume /\ ~Restart /\ ~Edit
          /\ (\A m \in Models : ~Switch(m)) /\ (\A p \in Providers : ~ProviderLeaves(p))
          /\ ~UNCHANGED vars
      BY <3>1 DEF HearPersisted, HearIdle, HearError, Hint, Pause, Resume, Restart, Edit, Switch,
                  ProviderLeaves, vars
    <3>4. ~Flags
      BY <2>10, <3>1 DEF Flags, FlagFound, FlagWrong, FlagCorrect, Accept, Reject, ResumeSolving, Stopped
    <3>5. QED  BY <1>2, <3>2, <3>3, <3>4 DEF Next, Works, Hearing
  <2>2. Latest \in 1..Len(rows) /\ rows[Latest] \in Row
    <3>1. rows \in Seq(Row)  BY <1>2 DEF Types
    <3>2. QED  BY <2>10, <3>1 DEF Latest
  <2>3. ActiveRows = {}  BY <1>2, <2>10 DEF Attended, ActiveRows
  <2>4. rows[Latest].status \in {"INTERRUPTED", "PAUSED"}
    BY <1>2, <2>2, <2>3 DEF Row, ActiveRows
  <2>5. rows[Latest].file # 0
    <3>1. Begun(story, rows[Latest].file, Latest)  BY <1>2, <2>2, <2>10 DEF Sessions, RowsRight
    <3>2. QED  BY <3>1 DEF Begun, Owned
  <2>6. Resumable(rows[Latest])  BY <2>4, <2>5, <2>10 DEF Resumable
  <2>7. PICK m, i, resume, session : Begins(i, resume, session) /\ Start(i, resume, m, session)
    BY <2>1, StartShape
  <2>8. i = Latest /\ resume = TRUE  BY <2>6, <2>7, <2>10 DEF Begins
  <2>9. Launch(i, resume, m, session)
    <3>1. ~LaunchThrows(session)  BY <2>10 DEF LaunchThrows
    <3>2. QED  BY <2>7, <3>1 DEF Start
  <2>11. proc'.resume = TRUE /\ proc'.file = session[i].file  BY <2>8, <2>9, LaunchShape
  <2>12. session[i].file = rows[i].file  BY <1>2, <2>2, <2>7, <2>8, BeginsFacts DEF Latest
  <2>13. QED  BY <2>8, <2>11, <2>12 DEF Continues
<1>3. Types /\ Sessions /\ Attended /\ [Next]_vars =>
        [(Succeeds /\ anew = "none" /\ rows[Latest].status # "ENDED") => Continues]_vars
  BY <1>2
<1>4. QED  BY <1>1, <1>3, AttendedStep, TypesAlways, SessionsAlways, PTL DEF Spec, KeepsStory
-----------------------------------------------------------------------------
(* The model of a session. What the row means, and what the worker will     *)
(* have made of it once it has read its messages.                           *)

Meant == rows[Len(rows)].model

Aborted(d) == \E i \in 1..Len(d) : d[i].type = "abort"

NoSwitch(d) == \A i \in 1..Len(d) : d[i].type # "switch_model"

LastSwitch(d, i) ==
  d[i].type = "switch_model" /\ \A j \in 1..Len(d) : d[j].type = "switch_model" => j <= i

(* The worker has taken, or will take, a model of the name its row means.   *)
Carries ==
  IF proc.at = "choosing" THEN proc.asked = Name[Meant]
  ELSE proc.runtime = "pi" => proc.model # None /\ Name[proc.model] = Name[Meant]

Sent == \A i \in 1..Len(down) : LastSwitch(down, i) => Meant # None /\ down[i].name = Name[Meant]

Attending == proc.at \in Reading \cup {"forked"} /\ ~Aborted(down)

Follows ==
  /\ (proc.at = "forked" /\ proc.model # None) => proc.asked = Name[proc.model]
  /\ Attending => rows[Len(rows)].status = "ACTIVE"
  /\ (proc.at \in Reading /\ ~proc.missed /\ ~Aborted(down)) =>
       Sent /\ ((NoSwitch(down) /\ Meant # None) => Carries)

LEMMA FollowsImplies == Types /\ Follows => RowTellsModel
<1> SUFFICES ASSUME Types, Follows, HasHandle, proc.runtime = "pi", ~proc.missed, down = <<>>,
                    rows[proc.row].model # None
             PROVE  proc.model # None /\ Name[proc.model] = Name[rows[proc.row].model]
  BY DEF RowTellsModel
<1>1. proc.at \in {"loop", "busy", "idle"} /\ proc.row = Len(rows)  BY DEF HasHandle, Types
<1>2. ~Aborted(down) /\ NoSwitch(down)  BY DEF Aborted, NoSwitch
<1>3. Carries  BY <1>1, <1>2 DEF Follows, Reading, Meant
<1>4. QED  BY <1>1, <1>3 DEF Carries, Meant

(* A worker that has gone, or is not there, follows nobody. *)
LEMMA GoneFollows ==
  ASSUME proc'.at \in {"none", "ending", "gone"}
  PROVE  Follows'
BY DEF Follows, Attending, Reading

(* So does one that was told to end. *)
LEMMA AbortedFollows ==
  ASSUME Types, Aborted(down)', proc'.at # "forked"
  PROVE  Follows'
BY DEF Follows, Attending

(* The worker reads a message that switches nothing. *)
LEMMA TailFollows ==
  ASSUME Types, down # <<>>, down' = Tail(down), Head(down).type # "abort"
  PROVE  /\ Aborted(down) => Aborted(down)'
         /\ Head(down).type # "switch_model" => (NoSwitch(down)' => NoSwitch(down))
         /\ \A i \in 1..Len(down') : LastSwitch(down', i) =>
              /\ i + 1 \in 1..Len(down)
              /\ LastSwitch(down, i + 1) /\ down'[i] = down[i + 1]
         /\ (Head(down).type = "switch_model" /\ NoSwitch(down)') =>
              1 \in 1..Len(down) /\ LastSwitch(down, 1) /\ Head(down) = down[1]
<1>1. /\ Len(down) \in Nat /\ Len(down) > 0 /\ Len(down') = Len(down) - 1
      /\ \A k \in 1..Len(down') : k + 1 \in 1..Len(down) /\ down'[k] = down[k + 1]
      /\ 1 \in 1..Len(down) /\ Head(down) = down[1]
  <2>1. down \in Seq(Command)  BY DEF Types
  <2>2. QED  BY <2>1, TailFacts
<1>2. \A j \in 1..Len(down) : j = 1 \/ (j - 1 \in 1..Len(down') /\ down[j] = down'[j - 1])
  <2>1. SUFFICES ASSUME NEW j \in 1..Len(down), j # 1
                 PROVE  j - 1 \in 1..Len(down') /\ down[j] = down'[j - 1]
    OBVIOUS
  <2>2. j - 1 \in 1..Len(down') /\ (j - 1) + 1 = j  BY <1>1, <2>1
  <2>3. QED  BY <1>1, <2>2
<1>3. Aborted(down) => Aborted(down)'  BY <1>1, <1>2 DEF Aborted
<1>4. Head(down).type # "switch_model" => (NoSwitch(down)' => NoSwitch(down))
  BY <1>1, <1>2 DEF NoSwitch
<1>5. ASSUME NEW i \in 1..Len(down'), LastSwitch(down', i)
      PROVE  i + 1 \in 1..Len(down) /\ LastSwitch(down, i + 1) /\ down'[i] = down[i + 1]
  <2>1. i + 1 \in 1..Len(down) /\ down'[i] = down[i + 1]  BY <1>1
  <2>2. ASSUME NEW j \in 1..Len(down), down[j].type = "switch_model" PROVE j <= i + 1
    <3>1. CASE j = 1  BY <1>1, <3>1
    <3>2. CASE j # 1
      <4>1. j - 1 \in 1..Len(down') /\ down[j] = down'[j - 1]  BY <1>2, <3>2
      <4>2. j - 1 <= i  BY <1>5, <2>2, <4>1 DEF LastSwitch
      <4>3. QED  BY <1>1, <4>1, <4>2
    <3>3. QED  BY <3>1, <3>2
  <2>3. QED  BY <1>5, <2>1, <2>2 DEF LastSwitch
<1>6. ASSUME Head(down).type = "switch_model", NoSwitch(down)'
      PROVE  LastSwitch(down, 1)
  BY <1>1, <1>2, <1>6 DEF LastSwitch, NoSwitch
<1>7. QED  BY <1>1, <1>3, <1>4, <1>5, <1>6

(* A message behind the others. *)
LEMMA ToldFollows ==
  ASSUME Types, NEW msg \in Command, down' = Append(down, msg)
  PROVE  /\ Aborted(down) => Aborted(down)'
         /\ msg.type = "abort" => Aborted(down)'
         /\ NoSwitch(down)' => NoSwitch(down)
         /\ msg.type = "switch_model" => ~NoSwitch(down)'
         /\ \A i \in 1..Len(down') : LastSwitch(down', i) =>
              IF msg.type = "switch_model" THEN down'[i] = msg
              ELSE i \in 1..Len(down) /\ LastSwitch(down, i) /\ down'[i] = down[i]
<1>1. /\ Len(down) \in Nat /\ Len(down') = Len(down) + 1
      /\ \A k \in 1..Len(down) : down'[k] = down[k]
      /\ down'[Len(down) + 1] = msg
  <2>1. down \in Seq(Command)  BY DEF Types
  <2>2. QED  BY <2>1, AppendFacts
<1>2. \A k \in 1..Len(down) : k \in 1..Len(down') /\ down'[k] = down[k]  BY <1>1
<1>3. Len(down) + 1 \in 1..Len(down')  BY <1>1
<1>4. (Aborted(down) => Aborted(down)') /\ (NoSwitch(down)' => NoSwitch(down))
  BY <1>2 DEF Aborted, NoSwitch
<1>5. (msg.type = "abort" => Aborted(down)') /\ (msg.type = "switch_model" => ~NoSwitch(down)')
  BY <1>1, <1>3 DEF Aborted, NoSwitch
<1>6. ASSUME NEW i \in 1..Len(down'), LastSwitch(down', i)
      PROVE  IF msg.type = "switch_model" THEN down'[i] = msg
             ELSE i \in 1..Len(down) /\ LastSwitch(down, i) /\ down'[i] = down[i]
  <2>1. CASE msg.type = "switch_model"
    <3>1. Len(down) + 1 <= i  BY <1>1, <1>3, <1>6, <2>1 DEF LastSwitch
    <3>2. i = Len(down) + 1  BY <1>1, <3>1
    <3>3. QED  BY <1>1, <2>1, <3>2
  <2>2. CASE msg.type # "switch_model"
    <3>1. i # Len(down) + 1  BY <1>1, <1>6, <2>2 DEF LastSwitch
    <3>2. i \in 1..Len(down) /\ down'[i] = down[i]  BY <1>1, <3>1
    <3>3. LastSwitch(down, i)  BY <1>2, <1>6, <3>2 DEF LastSwitch
    <3>4. QED  BY <2>2, <3>2, <3>3
  <2>3. QED  BY <2>1, <2>2
<1>7. QED  BY <1>4, <1>5, <1>6

(* The rows after a step that keeps the model and the status of the latest. *)
SameRow == /\ Len(rows') = Len(rows)
           /\ rows'[Len(rows)].model = rows[Len(rows)].model
           /\ rows'[Len(rows)].status = rows[Len(rows)].status

(* A step that leaves the worker's model, its row and its messages alone.   *)
LEMMA FollowsStays ==
  ASSUME Types, Follows, down' = down, SameRow,
         proc.at \in Reading, proc'.at \in Reading, proc'.at = "choosing" <=> proc.at = "choosing",
         proc'.missed = proc.missed, proc'.asked = proc.asked, proc'.model = proc.model,
         proc'.runtime = proc.runtime
  PROVE  Follows'
<1>1. Meant' = Meant  BY DEF Meant, SameRow
<1>2. Aborted(down)' = Aborted(down) /\ NoSwitch(down)' = NoSwitch(down) /\ Sent' = Sent
  <2>1. \A i : LastSwitch(down, i)' = LastSwitch(down, i)  OBVIOUS
  <2>2. QED  BY <1>1, <2>1 DEF Sent
<1>3. proc'.at # "choosing" => proc.at # "choosing"  OBVIOUS
<1>4. Carries' = Carries  BY <1>1, <1>3 DEF Carries
<1>5. QED  BY <1>1, <1>2, <1>4 DEF Follows, Attending, Reading, SameRow

LEMMA FollowsStart ==
  ASSUME Types, StartSolver
  PROVE  Follows'
<1>1. PICK m, i, resume, session : Begins(i, resume, session) /\ Start(i, resume, m, session)
  BY StartShape
<1>2. CASE LaunchThrows(session)
  <2>1. proc'.at = "none"  BY <1>2, StartShape DEF LaunchThrows
  <2>2. QED  BY <2>1, GoneFollows
<1>3. CASE Launch(i, resume, m, session)
  <2>1. /\ proc'.at = "forked" /\ (proc'.model # None => proc'.asked = Name[proc'.model])
        /\ rows' = session
    BY <1>3, LaunchShape
  <2>2. rows'[Len(rows')].status = "ACTIVE"  BY <1>1, <2>1, BeginsFacts
  <2>3. QED  BY <2>1, <2>2 DEF Follows, Reading
<1>4. QED  BY <1>1, <1>2, <1>3 DEF Start

LEMMA FollowsBegin ==
  ASSUME Types, Follows, Begin
  PROVE  Follows'
<1>1. /\ proc \in Process /\ rows \in Seq(Row) /\ Len(rows) \in Nat /\ proc.at = "forked"
      /\ Len(rows) > 0 /\ proc.row = Len(rows)
  BY DEF Types, Begin
<1> DEFINE row == [rows[Len(rows)] EXCEPT !.model = proc.model]
<1>2. row \in Row /\ row.status = rows[Len(rows)].status /\ row.model = proc.model
  <2>1. rows[Len(rows)] \in Row /\ proc.model \in Models \cup {None}  BY <1>1 DEF Process
  <2>2. QED  BY <2>1 DEF Row
<1>3. rows' = [rows EXCEPT ![Len(rows)] = row] /\ down' = down  BY <1>1 DEF Begin
<1> HIDE DEF row
<1>4. Len(rows') = Len(rows) /\ rows'[Len(rows)] = row
  <2>1. Len(rows) \in 1..Len(rows)  BY <1>1
  <2>2. QED  BY <1>1, <1>2, <1>3, <2>1, SetFacts
<1>5. /\ proc'.at = "choosing" /\ proc'.asked = proc.asked
      /\ proc'.missed = \E i \in 1..Len(down) : down[i].type = "switch_model"
  BY <1>1 DEF Begin, Process
<1>6. Meant' = proc.model /\ rows'[Len(rows')].status = rows[Len(rows)].status
  BY <1>2, <1>4 DEF Meant
<1>7. ~proc'.missed => NoSwitch(down)' /\ Sent'
  BY <1>3, <1>5 DEF NoSwitch, Sent, LastSwitch
<1>8. Meant' # None => Carries'  BY <1>1, <1>5, <1>6 DEF Carries, Follows
<1>9. Attending' => Attending  BY <1>1, <1>3 DEF Attending
<1>10. QED  BY <1>5, <1>6, <1>7, <1>8, <1>9 DEF Follows

LEMMA FollowsOpen ==
  ASSUME Types, Follows, Sessions, OpenSession
  PROVE  Follows'
<1>1. /\ proc \in Process /\ proc.at = "choosing" /\ rows' = rows /\ down' = down
  BY DEF Types, OpenSession
<1> DEFINE pi == Runtime = "pi"
           n == IF proc.resume /\ pi THEN proc.file ELSE Len(story) + 1
           m == IF pi THEN Chosen ELSE None
<1>2. proc' = [proc EXCEPT !.at = IF pi THEN "first" ELSE "loop", !.runtime = Runtime,
                           !.list = Readable, !.model = m, !.file = n]
  BY DEF OpenSession
<1>3. pi => Chosen # None  BY DEF OpenSession
<1> HIDE DEF n
<1>4. /\ proc'.at \in {"first", "loop"} /\ proc'.runtime = Runtime /\ proc'.missed = proc.missed
      /\ proc'.model = m
  BY <1>1, <1>2 DEF Process
<1>5. Meant' = Meant  BY <1>1 DEF Meant
<1>6. ASSUME Meant # None, Carries PROVE Carries'
  <2>1. proc.asked = Name[Meant]  BY <1>1, <1>6 DEF Carries
  <2>2. proc.asked # None
    <3>1. Meant \in Models
      <4>1. Len(rows) > 0 /\ rows \in Seq(Row)  BY <1>1 DEF Types
      <4>2. rows[Len(rows)] \in Row  BY <4>1
      <4>3. QED  BY <1>6, <4>2 DEF Meant, Row
    <3>2. QED  BY <2>1, <3>1, ModelsAssumption DEF Range
  <2>3. Readable \in SUBSET Models /\ proc.asked \in Range(Name) \cup {None}
    BY <1>1 DEF Process, Readable, WithKeys
  <2>4. pi => Chosen # None /\ Name[Chosen] = proc.asked
    BY <1>3, <2>2, <2>3, SelectedModel DEF Chosen
  <2>5. QED  BY <1>4, <1>5, <2>1, <2>4 DEF Carries
<1>7. Aborted(down)' = Aborted(down) /\ NoSwitch(down)' = NoSwitch(down) /\ Sent' = Sent
  <2>1. \A i : LastSwitch(down, i)' = LastSwitch(down, i)  BY <1>1
  <2>2. QED  BY <1>1, <1>5, <2>1 DEF Sent
<1>8. rows'[Len(rows')].status = rows[Len(rows)].status  BY <1>1
<1>9. QED  BY <1>1, <1>4, <1>5, <1>6, <1>7, <1>8 DEF Follows, Attending, Reading

LEMMA FollowsTakes ==
  ASSUME Types, Follows, Inject \/ SwitchModel
  PROVE  Follows'
<1>1. /\ proc \in Process /\ proc.at \in Reading /\ rows' = rows /\ down # <<>> /\ down' = Tail(down)
      /\ Head(down).type # "abort"
  BY DEF Types, Inject, SwitchModel, Receives, Reading
<1>2. Meant' = Meant  BY <1>1 DEF Meant
<1>3. Aborted(down) => Aborted(down)'  BY <1>1, TailFollows
<1>4. ASSUME Sent PROVE Sent'
  BY <1>1, <1>2, <1>4, TailFollows DEF Sent
<1>5. CASE Inject
  <2>1. \/ proc' = proc
        \/ proc.at = "idle" /\ proc' = [proc EXCEPT !.at = "busy"]
    BY <1>5 DEF Inject
  <2>2. /\ proc'.at \in Reading /\ (proc'.at = "choosing" <=> proc.at = "choosing")
        /\ proc'.missed = proc.missed /\ proc'.asked = proc.asked /\ proc'.model = proc.model
        /\ proc'.runtime = proc.runtime
    BY <1>1, <2>1 DEF Process, Reading
  <2>3. NoSwitch(down)' => NoSwitch(down)
    <3>1. Head(down).type = "inject"  BY <1>5 DEF Inject, Receives
    <3>2. QED  BY <1>1, <3>1, TailFollows
  <2>4. Carries' = Carries  BY <1>2, <2>2 DEF Carries
  <2>5. QED  BY <1>1, <1>2, <1>3, <1>4, <2>2, <2>3, <2>4 DEF Follows, Attending, Reading
<1>6. CASE SwitchModel
  <2> DEFINE m == SwitchedTo(Head(down).name)
  <2>1. \/ HasHandle /\ proc.runtime = "pi" /\ m # None /\ proc' = [proc EXCEPT !.model = m]
        \/ proc' = [proc EXCEPT !.missed = TRUE]
    BY <1>6 DEF SwitchModel
  <2>2. Head(down).type = "switch_model"  BY <1>6 DEF SwitchModel, Receives
  <2>3. CASE proc' = [proc EXCEPT !.missed = TRUE]
    <3>1. proc'.missed = TRUE /\ proc'.at = proc.at  BY <1>1, <2>3 DEF Process
    <3>2. QED  BY <1>1, <1>3, <3>1 DEF Follows, Attending, Reading
  <2>4. CASE HasHandle /\ proc.runtime = "pi" /\ m # None /\ proc' = [proc EXCEPT !.model = m]
    <3>1. /\ proc'.model = m /\ proc'.at = proc.at /\ proc'.missed = proc.missed
          /\ proc.at \in {"loop", "busy", "idle"}
      BY <1>1, <2>4 DEF Process, HasHandle
    <3>2. ASSUME Sent, NoSwitch(down)' PROVE Carries'
      <4>1. 1 \in 1..Len(down) /\ LastSwitch(down, 1) /\ Head(down) = down[1]
        BY <1>1, <2>2, <3>2, TailFollows
      <4>2. Meant # None /\ Head(down).name = Name[Meant]  BY <3>2, <4>1 DEF Sent
      <4>3. Head(down).name # None
        <5>1. Meant \in Models
          <6>1. Len(rows) > 0 /\ rows \in Seq(Row)  BY <1>1 DEF Types, Reading
          <6>2. rows[Len(rows)] \in Row  BY <6>1
          <6>3. QED  BY <4>2, <6>2 DEF Meant, Row
        <5>2. QED  BY <4>2, <5>1, ModelsAssumption DEF Range
      <4>4. proc.list \in SUBSET Models /\ Head(down).name \in Range(Name) \cup {None}
        <5>1. Head(down) \in Command  BY <1>1, TailFacts DEF Types
        <5>2. QED  BY <1>1, <5>1 DEF Process, Command
      <4>5. Name[m] = Head(down).name  BY <2>4, <4>3, <4>4, SelectedModel DEF SwitchedTo
      <4> HIDE DEF m
      <4>6. QED  BY <1>2, <2>4, <3>1, <4>2, <4>5 DEF Carries
    <3>3. QED  BY <1>1, <1>2, <1>3, <1>4, <3>1, <3>2 DEF Follows, Attending, Reading
  <2>5. QED  BY <2>1, <2>3, <2>4
<1>7. QED  BY <1>5, <1>6

LEMMA FollowsSwitch ==
  ASSUME Types, Follows, NEW m \in Models, Switch(m)
  PROVE  Follows'
<1> DEFINE msg == [type |-> "switch_model", name |-> Name[m]]
<1>1. /\ proc' = proc /\ Told(msg) /\ rows \in Seq(Row) /\ Len(rows) \in Nat /\ m # None
      /\ rows' = IF ActiveRows = {} THEN rows
                 ELSE [rows EXCEPT ![CHOOSE i \in ActiveRows : TRUE].model = m]
  BY ModelsAssumption DEF Types, Switch
<1>2. CASE proc.at \in {"none", "ending", "gone"}  BY <1>1, <1>2, GoneFollows
<1>3. CASE proc.at \notin {"none", "ending", "gone"}
  <2>1. msg \in Command /\ msg.type = "switch_model" /\ msg.name = Name[m]
    BY ModelsAssumption DEF Command, Range
  <2>2. down' = Append(down, msg) /\ proc.at \in Reading \cup {"forked"} /\ Len(rows) > 0
    BY <1>1, <1>3 DEF Told, Types, Process, Stages, Reading
  <2> HIDE DEF msg
  <2>3. /\ Aborted(down) => Aborted(down)'
        /\ ~NoSwitch(down)'
        /\ \A i \in 1..Len(down') : LastSwitch(down', i) => down'[i] = msg
    BY <2>1, <2>2, ToldFollows
  <2>4. ASSUME ~Aborted(down)'
        PROVE  Meant' = m /\ rows'[Len(rows')].status = "ACTIVE"
    <3>1. rows[Len(rows)].status = "ACTIVE"  BY <2>2, <2>3, <2>4 DEF Follows, Attending
    <3>2. ActiveRows = {Len(rows)}
      <4>1. \A i \in ActiveRows : i = Len(rows)  BY DEF ActiveRows, Types
      <4>2. Len(rows) \in ActiveRows  BY <1>1, <2>2, <3>1 DEF ActiveRows
      <4>3. QED  BY <4>1, <4>2
    <3> DEFINE row == [rows[Len(rows)] EXCEPT !.model = m]
    <3>3. rows' = [rows EXCEPT ![Len(rows)] = row]
      <4>1. (CHOOSE i \in ActiveRows : TRUE) = Len(rows)  BY <3>2
      <4>2. QED  BY <1>1, <3>2, <4>1
    <3>4. row \in Row /\ row.model = m /\ row.status = "ACTIVE"
      <4>1. rows[Len(rows)] \in Row  BY <1>1, <2>2
      <4>2. QED  BY <3>1, <4>1 DEF Row
    <3> HIDE DEF row
    <3>5. Len(rows') = Len(rows) /\ rows'[Len(rows)] = row
      <4>1. Len(rows) \in 1..Len(rows) /\ rows \in Seq(Row)  BY <1>1, <2>2
      <4>2. QED  BY <3>3, <3>4, <4>1, SetFacts
    <3>6. QED  BY <3>4, <3>5 DEF Meant
  <2>5. ~Aborted(down)' => Sent'
    BY <1>1, <2>1, <2>3, <2>4 DEF Sent
  <2>6. QED  BY <1>1, <2>3, <2>4, <2>5 DEF Follows, Attending
<1>4. QED  BY <1>2, <1>3

LEMMA FollowsTold ==
  ASSUME Types, Follows, Hint \/ FlagWrong \/ Reject \/ Pause \/ Restart, proc.at # "none"
  PROVE  Follows'
<1>1. proc' = proc /\ proc.at # "none" /\ rows \in Seq(Row) /\ Len(rows) \in Nat
  BY DEF Types, Hint, FlagWrong, Reject, Pause, Restart
<1>2. CASE Hint \/ FlagWrong \/ Reject
  <2> DEFINE msg == [type |-> "inject", name |-> None]
  <2>1. msg \in Command /\ msg.type = "inject"  BY DEF Command
  <2>2. down' = Append(down, msg) /\ rows' = rows
    BY <1>1, <1>2 DEF Hint, FlagWrong, Reject, Feedback, Told
  <2> HIDE DEF msg
  <2>3. /\ Aborted(down) => Aborted(down)'
        /\ NoSwitch(down)' => NoSwitch(down)
        /\ \A i \in 1..Len(down') : LastSwitch(down', i) =>
             i \in 1..Len(down) /\ LastSwitch(down, i) /\ down'[i] = down[i]
    BY <2>1, <2>2, ToldFollows
  <2>4. Meant' = Meant  BY <2>2 DEF Meant
  <2>5. Sent => Sent'  BY <2>3, <2>4 DEF Sent
  <2>6. Carries' = Carries  BY <1>1, <2>4 DEF Carries
  <2>7. QED  BY <1>1, <2>2, <2>3, <2>4, <2>5, <2>6 DEF Follows, Attending
<1>3. CASE Pause \/ Restart
  <2> DEFINE msg == [type |-> "abort", name |-> None]
  <2>1. msg \in Command /\ msg.type = "abort"  BY DEF Command
  <2>2. down' = Append(down, msg) /\ proc.at # "forked"  BY <1>1, <1>3 DEF Pause, Restart, Told
  <2> HIDE DEF msg
  <2>3. Aborted(down)'  BY <2>1, <2>2, ToldFollows
  <2>4. QED  BY <1>1, <2>2, <2>3, AbortedFollows
<1>4. QED  BY <1>2, <1>3

LEMMA FollowsStep == Types /\ Sessions /\ Follows /\ [Next]_vars => Follows'
<1> SUFFICES ASSUME Types, Sessions, Follows, [Next]_vars PROVE Follows'  OBVIOUS
<1>1. /\ proc \in Process /\ rows \in Seq(Row) /\ up \in Seq(Report) /\ Len(rows) \in Nat
      /\ \A k \in 1..Len(rows) : rows[k] \in Row
      /\ proc.at # "none" => Len(rows) \in 1..Len(rows)
  BY DEF Types
<1>2. CASE StartSolver  BY <1>2, FollowsStart
<1>3. CASE Begin  BY <1>3, FollowsBegin
<1>4. CASE OpenSession  BY <1>4, FollowsOpen
<1>5. CASE \/ StartTimeout \/ HearExit \/ OpenFails \/ FirstFails \/ Crash \/ Abort \/ AbortEnds
           \/ FlagCorrect \/ Accept
  <2>1. proc'.at \in {"none", "ending", "gone"}
    <3>1. \/ proc' = NoProcess
          \/ \E at \in {"ending", "gone"} : proc' = [proc EXCEPT !.at = at]
          \/ proc.at = "none" /\ proc' = proc
      BY <1>5 DEF StartTimeout, HearExit, OpenFails, FirstFails, Crash, Abort, AbortEnds, FlagCorrect,
                  Accept, Stopped
    <3>2. QED  BY <1>1, <3>1 DEF Process, NoProcess
  <2>2. QED  BY <2>1, GoneFollows
<1>6. CASE FirstDone \/ LoopDone \/ PromptDone
  <2>1. /\ proc' = [proc EXCEPT !.at = "idle"] /\ rows' = rows /\ down' = down
        /\ proc.at \in {"first", "loop", "busy"}
    BY <1>6 DEF FirstDone, LoopDone, PromptDone
  <2>2. /\ proc'.at = "idle" /\ proc'.missed = proc.missed /\ proc'.asked = proc.asked
        /\ proc'.model = proc.model /\ proc'.runtime = proc.runtime
    BY <1>1, <2>1 DEF Process
  <2>3. QED  BY <2>1, <2>2, FollowsStays DEF Reading, SameRow
<1>7. CASE Inject \/ SwitchModel  BY <1>7, FollowsTakes
<1>8. ASSUME NEW q \in Questions, Look(q) \/ LookDone(q) PROVE Follows'
  <2>1. rows' = rows /\ down' = down /\ proc.at \in {"first", "loop", "busy"}
    BY <1>8 DEF Look, LookDone, CanLook
  <2>2. /\ proc'.at = proc.at /\ proc'.missed = proc.missed /\ proc'.asked = proc.asked
        /\ proc'.model = proc.model /\ proc'.runtime = proc.runtime
    BY <1>1, <1>8 DEF Look, LookDone, Process
  <2>3. QED  BY <2>1, <2>2, FollowsStays DEF Reading, SameRow
<1>9. ASSUME NEW m \in Models, Switch(m) PROVE Follows'  BY <1>9, FollowsSwitch
<1>10. CASE Hint \/ FlagWrong \/ Reject \/ Pause \/ Restart
  <2>1. CASE proc.at = "none"
    <3>1. proc' = proc  BY <1>10 DEF Hint, FlagWrong, Reject, Pause, Restart
    <3>2. QED  BY <2>1, <3>1, GoneFollows
  <2>2. CASE proc.at # "none"  BY <1>10, <2>2, FollowsTold
  <2>3. QED  BY <2>1, <2>2
<1>11. CASE \/ HearPersisted \/ HearIdle \/ HearError \/ Resume \/ Edit \/ FlagFound \/ ResumeSolving
            \/ \E p \in Providers : ProviderLeaves(p)
            \/ UNCHANGED vars
  <2>1. proc' = proc /\ down' = down
    BY <1>11 DEF HearPersisted, HearIdle, HearError, Resume, Edit, FlagFound, ResumeSolving,
                 ProviderLeaves, vars
  <2>2. CASE proc.at \in {"none", "ending", "gone"}  BY <2>1, <2>2, GoneFollows
  <2>3. CASE proc.at \notin {"none", "ending", "gone"}
    <3>1. SameRow
      <4>1. CASE HearPersisted
        <5> DEFINE i == Head(up).row
                   row == [rows[i] EXCEPT !.file = Head(up).file, !.kind = Head(up).kind]
        <5>1. up # <<>>  BY <4>1 DEF HearPersisted, Hears
        <5>2. Head(up) \in Report /\ i \in 1..Len(rows)
          BY <1>1, <5>1, TailFacts DEF Types
        <5>3. row \in Row /\ row.status = rows[i].status /\ row.model = rows[i].model
          BY <1>1, <5>2 DEF Row, Report
        <5>4. rows' = [rows EXCEPT ![i] = row]  BY <4>1 DEF HearPersisted, RowOf
        <5> HIDE DEF i, row
        <5>5. /\ Len(rows') = Len(rows)
              /\ \A k \in 1..Len(rows) : rows'[k] = IF k = i THEN row ELSE rows[k]
          BY <1>1, <5>2, <5>3, <5>4, SetFacts
        <5>6. QED  BY <1>1, <2>3, <5>3, <5>5 DEF SameRow
      <4>2. CASE rows' = rows  BY <4>2 DEF SameRow
      <4>3. QED
        BY <1>11, <4>1, <4>2 DEF HearIdle, HearError, Resume, Edit, FlagFound, ResumeSolving,
                                 ProviderLeaves, vars
    <3>2. CASE proc.at = "forked"
      BY <2>1, <3>1, <3>2 DEF SameRow, Follows, Attending, Reading
    <3>3. CASE proc.at \in Reading  BY <2>1, <3>1, <3>3, FollowsStays
    <3>4. QED  BY <1>1, <2>3, <3>2, <3>3 DEF Process, Stages, Reading
  <2>4. QED  BY <2>2, <2>3
<1>12. QED
  BY <1>2, <1>3, <1>4, <1>5, <1>6, <1>7, <1>8, <1>9, <1>10, <1>11
     DEF Next, Works, Takes, Hearing, Flags

(* What the sessions say of their workers and the workers of their          *)
(* conversations holds for any models, providers, numbers of rows, orders   *)
(* and faults: a resumed solver has the conversation that began with the    *)
(* challenge, a row only points to its own conversation, and a session runs *)
(* a model of the name its row says unless a switch was missed.             *)
THEOREM SessionsAgree == Spec => []SessionsInv
<1>1. Init => Follows
  <2>1. SUFFICES ASSUME Init PROVE Follows  OBVIOUS
  <2>2. proc.at = "none"  BY <2>1 DEF Init, NoProcess
  <2>3. QED  BY <2>2 DEF Follows, Attending, Reading
<1>2. Types /\ Sessions /\ Follows => SessionsInv
  BY TypesImply, SessionsImply, FollowsImplies DEF SessionsInv
<1>3. QED  BY <1>1, <1>2, FollowsStep, TypesAlways, SessionsAlways, PTL DEF Spec
-----------------------------------------------------------------------------
(* The questions of Probes about models.                                   *)

LEMMA UsableInIsUsable ==
  ASSUME NEW r \in Registry
  PROVE  UsableIn(r) = Usable(r) /\ (SlotsUsable(r) <=> SlotsUsableIn(r))
<1>1. UsableIn(r) = Usable(r)  BY DEF UsableIn, Usable, IsModelUsable, Registry
<1>2. \A s \in Slots : r.slots[s] \in Models \cup {None}  BY DEF Registry
<1>3. ASSUME NEW s \in Slots
      PROVE  (r.slots[s] # None => IsModelUsable(r, r.slots[s])) <=> r.slots[s] \in Usable(r) \cup {None}
  BY <1>2, ModelsAssumption DEF Usable
<1>4. QED  BY <1>1, <1>3 DEF SlotsUsable, SlotsUsableIn

(* The three roles of a registry whose slots can be used.                   *)
LEMMA RolesOfUsable ==
  ASSUME NEW r \in Registry, SlotsUsable(r), NEW a, a.reg = r, a.roles = Roles(r)
  PROVE  RolesHold(a)
<1>1. UsableIn(r) = Usable(r) /\ SlotsUsableIn(r)  BY UsableInIsUsable
<1>2. /\ a.roles.solver = ResolveAssigned(r, "primarySolver")
      /\ a.roles.vision = ResolveAssigned(r, "vision")
      /\ a.roles.manager = ResolveAdvisory(r, "manager")
      /\ DOMAIN a.roles = {"solver", "vision", "manager"}
  BY DEF Roles
<1>3. "primarySolver" \in Slots /\ "vision" \in Slots /\ "manager" \in Slots  BY DEF Slots
<1>4. /\ a.roles.solver \subseteq Usable(r) \cup {None}
      /\ None \in a.roles.solver => Usable(r) = {}
  BY <1>2, <1>3, RolesGoToUsable
<1>5. /\ a.roles.vision \subseteq Usable(r) \cup {None}
      /\ None \in a.roles.vision => Usable(r) \cap Sees = {}
  BY <1>2, <1>3, RolesGoToUsable
<1>6. /\ a.roles.manager \subseteq Usable(r) \cup {None}
      /\ None \in a.roles.manager => Usable(r) = {}
  BY <1>2, <1>3, RolesGoToUsable
<1>7. QED  BY <1>1, <1>2, <1>4, <1>5, <1>6 DEF RolesHold

(* What a call asks for twice at most, and what it passes on.               *)
LEMMA CallsAreRead ==
  ASSUME NEW q \in ModelQuestion.advise
  PROVE  LET r == RunStructured(q.m, q.key, q.first, q.second) IN
         /\ r.calls <= 2
         /\ r.got = "plan" <=>
              (q.m # None /\ q.key /\ (q.first = "plan" \/ (q.first = "garbage" /\ q.second = "plan")))
         /\ r.got # "garbage"
<1> DEFINE r == RunStructured(q.m, q.key, q.first, q.second)
<1>1. q.key \in BOOLEAN /\ q.first \in Answers /\ q.second \in Answers  BY DEF ModelQuestion
<1>2. \A f : CodeOf(f) \notin {"plan", "garbage"}  BY DEF CodeOf
<1>3. "plan" \notin CallFailures /\ "garbage" \notin CallFailures  BY DEF CallFailures
<1>4. CASE q.m = None \/ ~q.key
  BY <1>4 DEF RunStructured, Advised
<1>5. CASE ~(q.m = None \/ ~q.key) /\ q.first \in CallFailures
  BY <1>2, <1>3, <1>5 DEF RunStructured, Advised
<1>6. CASE ~(q.m = None \/ ~q.key) /\ q.first = "plan"
  BY <1>3, <1>6 DEF RunStructured, Advised
<1>7. CASE ~(q.m = None \/ ~q.key) /\ q.first = "garbage"
  BY <1>1, <1>2, <1>3, <1>7 DEF RunStructured, Advised, Answers
<1>8. QED  BY <1>1, <1>4, <1>5, <1>6, <1>7 DEF Answers

LEMMA KindsOfQuestions ==
  /\ \A kind \in FileKinds : \A q \in FileQuestion[kind] : q.of \notin ModelKinds
  /\ \A kind \in PlatformKinds : \A q \in PlatformQuestion[kind] : q.of \notin ModelKinds
  /\ \A kind \in ModelKinds : \A q \in ModelQuestion[kind] : q.of = kind
  /\ \A kind \in CatalogKinds : \A q \in CatalogQuestion[kind] : q.of \notin ModelKinds
<1>1. \A kind \in FileKinds : \A q \in FileQuestion[kind] : q.of \notin ModelKinds
  <2>1. /\ \A q \in FileQuestion["extract"] : q.of = "extract"
        /\ \A q \in FileQuestion["sample"] : q.of = "sample"
        /\ \A q \in FileQuestion["names"] : q.of = "names"
    BY DEF FileQuestion
  <2>2. QED  BY <2>1 DEF FileKinds, ModelKinds
<1>2. \A kind \in PlatformKinds : \A q \in PlatformQuestion[kind] : q.of \notin ModelKinds
  <2>1. /\ \A q \in PlatformQuestion["submit"] : q.of = "submit"
        /\ \A q \in PlatformQuestion["ctfd"] : q.of = "ctfd"
        /\ \A q \in PlatformQuestion["download"] : q.of = "download"
        /\ \A q \in PlatformQuestion["start"] : q.of = "start"
        /\ \A q \in PlatformQuestion["rank"] : q.of = "rank"
    BY DEF PlatformQuestion, Responses
  <2>2. QED  BY <2>1 DEF PlatformKinds, ModelKinds
<1>3. \A kind \in ModelKinds : \A q \in ModelQuestion[kind] : q.of = kind
  <2>1. /\ \A q \in ModelQuestion["remove"] : q.of = "remove"
        /\ \A q \in ModelQuestion["close"] : q.of = "close"
        /\ \A q \in ModelQuestion["vision"] : q.of = "vision"
        /\ \A q \in ModelQuestion["advise"] : q.of = "advise"
    BY DEF ModelQuestion
  <2>2. QED  BY <2>1 DEF ModelKinds
<1>4. \A kind \in CatalogKinds : \A q \in CatalogQuestion[kind] : q.of \notin ModelKinds
  <2>1. /\ \A q \in CatalogQuestion["tool"] : q.of = "tool"
        /\ \A q \in CatalogQuestion["hints"] : q.of = "hints"
        /\ \A q \in CatalogQuestion["rsa"] : q.of = "rsa"
    BY DEF CatalogQuestion
  <2>2. QED  BY <2>1 DEF CatalogKinds, ModelKinds
<1>5. QED  BY <1>1, <1>2, <1>3, <1>4

(* A question about models makes sense, and the answer is the code's.       *)
Resolving ==
  ask.of \in ModelKinds => ask \in ModelQuestion[ask.of] /\ (answer = <<>> \/ answer = <<Resolved(ask)>>)

LEMMA ProbesAreResolving == ProbeSpec => []Resolving
<1>1. ProbeInit => Resolving
  <2> SUFFICES ASSUME ProbeInit PROVE Resolving  OBVIOUS
  <2>1. answer = <<>>  BY DEF ProbeInit
  <2>2. CASE Asked(ModelKinds)
    <3>1. PICK kind \in ModelKinds : ask \in ModelQuestion[kind]
      BY <2>2, InquiriesAssumption DEF Asked
    <3>2. QED  BY <2>1, <3>1, KindsOfQuestions DEF Resolving
  <2>3. CASE Asked(FileKinds)
    <3>1. PICK kind \in FileKinds : ask \in FileQuestion[kind]
      BY <2>3, InquiriesAssumption DEF Asked
    <3>2. QED  BY <3>1, KindsOfQuestions DEF Resolving
  <2>4. CASE Asked(PlatformKinds)
    <3>1. PICK kind \in PlatformKinds : ask \in PlatformQuestion[kind]
      BY <2>4, InquiriesAssumption DEF Asked
    <3>2. QED  BY <3>1, KindsOfQuestions DEF Resolving
  <2>5. CASE Asked(CatalogKinds)
    <3>1. PICK kind \in CatalogKinds : ask \in CatalogQuestion[kind]
      BY <2>5, InquiriesAssumption DEF Asked
    <3>2. QED  BY <3>1, KindsOfQuestions DEF Resolving
  <2>6. QED  BY <2>2, <2>3, <2>4, <2>5 DEF ProbeInit
<1>2. Resolving /\ [ProbeNext]_probe => Resolving'
  <2> SUFFICES ASSUME Resolving, [ProbeNext]_probe PROVE Resolving'  OBVIOUS
  <2>1. CASE ChooseModel
    <3>1. ask' = ask /\ answer' = <<Resolved(ask)>>  BY <2>1 DEF ChooseModel, Answering
    <3>2. QED  BY <3>1 DEF Resolving
  <2>2. CASE HandleFile \/ AskThePlatform \/ ConsultCatalog
    <3>1. ask.of \notin ModelKinds /\ ask' = ask
      BY <2>2 DEF HandleFile, AskThePlatform, ConsultCatalog, Answering,
                  FileKinds, PlatformKinds, ModelKinds, CatalogKinds
    <3>2. QED  BY <3>1 DEF Resolving
  <2>3. CASE UNCHANGED probe  BY <2>3 DEF probe, Resolving
  <2>4. QED  BY <2>1, <2>2, <2>3 DEF ProbeNext
<1>3. QED  BY <1>1, <1>2, PTL DEF ProbeSpec

(* For every registry whose slots can be used, every list of models and     *)
(* every pair of answers: what is left after a removal serves each role     *)
(* with a model that can be used, pictures go to a model that sees them,    *)
(* and an advisory call asks twice at most and passes on what it could read *)
(* (model-assignments.ts, resolveVisionProvider, runStructured).            *)
THEOREM ModelsKeepServing == ProbeSpec => []ModelsServe
<1>1. Resolving => ModelsServe
  <2>1. SUFFICES ASSUME Resolving, ask.of \in ModelKinds, answer # <<>> PROVE ModelsHold(ask, answer[1])
    BY DEF ModelsServe
  <2>2. ask \in ModelQuestion[ask.of] /\ answer[1] = Resolved(ask)  BY <2>1 DEF Resolving
  <2>3. ASSUME NEW r \in Running PROVE r \in Registry /\ SlotsUsable(r)
    BY UsableInIsUsable DEF Running
  <2>4. CASE ask.of = "remove"
    <3>1. ask.reg \in Running /\ ask.m \in Models  BY <2>2, <2>4 DEF ModelQuestion
    <3>2. WithoutModel(ask.reg, ask.m) \in Registry /\ SlotsUsable(WithoutModel(ask.reg, ask.m))
      BY <2>3, <3>1, EditsKeepRegistry
    <3>3. Resolved(ask) = [reg |-> WithoutModel(ask.reg, ask.m), roles |-> Roles(WithoutModel(ask.reg, ask.m))]
      BY <2>4, Zenon DEF Resolved
    <3>4. RolesHold(answer[1])  BY <2>2, <3>2, <3>3, RolesOfUsable
    <3>5. QED  BY <2>4, <3>4, Zenon DEF ModelsHold
  <2>5. CASE ask.of = "close"
    <3>1. ask.reg \in Running /\ ask.p \in Providers  BY <2>2, <2>5 DEF ModelQuestion
    <3>2. WithoutProvider(ask.reg, ask.p) \in Registry /\ SlotsUsable(WithoutProvider(ask.reg, ask.p))
      BY <2>3, <3>1, EditsKeepRegistry
    <3>3. Resolved(ask) =
            [reg |-> WithoutProvider(ask.reg, ask.p), roles |-> Roles(WithoutProvider(ask.reg, ask.p))]
      BY <2>5, Zenon DEF Resolved
    <3>4. RolesHold(answer[1])  BY <2>2, <3>2, <3>3, RolesOfUsable
    <3>5. QED  BY <2>5, <3>4, Zenon DEF ModelsHold
  <2>6. CASE ask.of = "vision"
    <3> DEFINE name == IF ask.m = None THEN None ELSE Name[ask.m]
    <3>1. ask.list \in SUBSET Models /\ ask.m \in Models \cup {None}  BY <2>2, <2>6 DEF ModelQuestion
    <3>2. name \in Range(Name) \cup {None}  BY <3>1, ModelsAssumption DEF Range
    <3>3. answer[1] = ResolveVision(ask.list, name)  BY <2>2, <2>6 DEF Resolved
    <3> HIDE DEF name
    <3>4. /\ answer[1].model \in (ask.list \cap Sees) \cup {None}
          /\ (answer[1].model # None /\ OfName(ask.list, name) # {}) => Name[answer[1].model] = name
          /\ answer[1].told => answer[1].model = None
      BY <3>1, <3>2, <3>3, PicturesGoToSeeing
    <3>5. ASSUME answer[1].model # None, ask.m # None, \E o \in ask.list : Name[o] = Name[ask.m]
          PROVE  Name[answer[1].model] = Name[ask.m]
      <4>1. name = Name[ask.m]  BY <3>5 DEF name
      <4>2. OfName(ask.list, name) # {}  BY <3>5, <4>1 DEF OfName
      <4>3. QED  BY <3>4, <3>5, <4>1, <4>2
    <3>6. QED  BY <2>6, <3>4, <3>5 DEF ModelsHold
  <2>7. CASE ask.of = "advise"
    <3>1. ask \in ModelQuestion.advise  BY <2>2, <2>7
    <3>2. answer[1] = RunStructured(ask.m, ask.key, ask.first, ask.second)
      BY <2>2, <2>7 DEF Resolved
    <3>3. QED  BY <2>7, <3>1, <3>2, CallsAreRead DEF ModelsHold
  <2>8. QED  BY <2>1, <2>4, <2>5, <2>6, <2>7 DEF ModelKinds
<1>2. QED  BY <1>1, ProbesAreResolving, PTL
================================================================================
