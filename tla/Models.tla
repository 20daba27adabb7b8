-------------------------------- MODULE Models --------------------------------
(***************************************************************************)
(* Which language model does what: the registry of providers and models    *)
(* (packages/database/src/repos/lease.ts), the slots the human assigns     *)
(* (apps/server/src/control/model-assignments.ts), the choice of a runtime *)
(* and of a model for a solver, for an advisory call and for pictures, and *)
(* the health of a provider (registry.ts).                                 *)
(*                                                                         *)
(* A registry is a record; "primary()" has no ORDER BY, so what it gives   *)
(* is one of a set. A worker knows a model by its name, which two          *)
(* providers may share.                                                    *)
(***************************************************************************)
EXTENDS Naturals, Sequences, Functions

CONSTANTS
  Order,       \* the models, in the order they were created
  Providers,
  None,        \* no model
  ProviderOf,  \* model -> its provider
  Name,        \* model -> modelName
  Sees         \* the models with capabilities.vision

Models == Range(Order)

ASSUME ModelsAssumption ==
  /\ Order \in Seq(Models)
  /\ None \notin Models
  /\ ProviderOf \in [Models -> Providers]
  /\ DOMAIN Name = Models
  /\ None \notin Range(Name)
  /\ Sees \subseteq Models

(* The slots of ModelAssignments. *)
Slots == {"primarySolver", "reflection", "vision", "triage", "manager"}

(* keys: the providers whose secret is stored and can be read. fails:       *)
(* consecutive_failures.                                                    *)
Registry ==
  [enabled : SUBSET Models, open : SUBSET Providers, keys : SUBSET Providers,
   chief : SUBSET Models, slots : [Slots -> Models \cup {None}], fails : [Providers -> Nat]]

IsModelUsable(reg, m) == m \in reg.enabled /\ ProviderOf[m] \in reg.open

(* A list of models has the order they were created in (created_at ASC), so *)
(* that the set of its members says it all.                                 *)
ListEnabled(reg) == {m \in Models : IsModelUsable(reg, m)}

(* The rows primary() may give: role PRIMARY, enabled, of an open provider. *)
Primaries(reg) == {m \in reg.chief : IsModelUsable(reg, m)}

(* The place in Order of the member of a list that was created first.       *)
IsFirst(i, list) == Order[i] \in list /\ \A j \in 1..(i - 1) : Order[j] \notin list

FirstOf(list) == IF list = {} THEN None ELSE Order[CHOOSE i \in 1..Len(Order) : IsFirst(i, list)]

(* The last resort of every choice: the primary model, or the first one.    *)
AnyUsable(reg) == IF Primaries(reg) # {} THEN Primaries(reg) ELSE {FirstOf(ListEnabled(reg))}

Assigned(reg, slot) == reg.slots[slot] # None /\ IsModelUsable(reg, reg.slots[slot])

(* resolveAssignedModel: what it may give. *)
ResolveAssigned(reg, slot) ==
  IF Assigned(reg, slot) THEN {reg.slots[slot]}
  ELSE IF slot = "vision" THEN {FirstOf(ListEnabled(reg) \cap Sees)}
  ELSE AnyUsable(reg)

(* resolveAdvisoryModel, for the slot "manager" or "reflection".            *)
ResolveAdvisory(reg, slot) ==
  IF Assigned(reg, slot) THEN {reg.slots[slot]}
  ELSE IF Assigned(reg, "primarySolver") THEN {reg.slots["primarySolver"]}
  ELSE AnyUsable(reg)

(* sanitizeModelAssignments and saveModelAssignments. *)
Sanitize(reg, slots) ==
  [s \in Slots |-> IF slots[s] # None /\ IsModelUsable(reg, slots[s]) THEN slots[s] ELSE None]

Saved(reg, slots) == [reg EXCEPT !.slots = Sanitize(reg, slots)]

(* Mutant of WithoutModel: the slots keep what is gone. *)
WithoutModelOnly(reg, m) == [reg EXCEPT !.enabled = @ \ {m}]

(* DELETE /api/models/:id, pruneUnusableAssignments included.               *)
WithoutModel(reg, m) ==
  LET off == [reg EXCEPT !.enabled = @ \ {m}] IN Saved(off, off.slots)

(* POST /api/models, or its enabled flag set again. *)
WithModel(reg, m) == [reg EXCEPT !.enabled = @ \cup {m}]

(* DELETE /api/providers/:id: the secret goes first, across an await.       *)
WithoutKey(reg, p) == [reg EXCEPT !.keys = @ \ {p}]

WithoutProvider(reg, p) ==
  LET off == [reg EXCEPT !.open = @ \ {p}] IN Saved(off, off.slots)

(* POST /api/models/:id/role with PRIMARY: one of each provider.            *)
Promoted(reg, m) ==
  LET one == [reg EXCEPT !.chief = {o \in @ : ProviderOf[o] # ProviderOf[m]} \cup {m}]
  IN  Saved(one, [one.slots EXCEPT !["primarySolver"] = m])

(* recordModelFailure and recordModelSuccess, and the health they leave.    *)
Failed(reg, p) == [reg EXCEPT !.fails[p] = @ + 1]

Succeeded(reg, p) == [reg EXCEPT !.fails[p] = 0]

Health(n) == CASE n >= 5 -> "DOWN" [] n >= 3 /\ n < 5 -> "DEGRADED" [] OTHER -> "HEALTHY"

(* resolveAgentRuntime; env is RIO_AGENT_RUNTIME. *)
AgentRuntime(reg, env, allowMock) ==
  CASE env = "pi" -> "pi"
    [] env = "mock" -> IF allowMock THEN "mock" ELSE "unavailable"
    [] OTHER -> IF ListEnabled(reg) # {} THEN "pi" ELSE IF allowMock THEN "mock" ELSE "unavailable"

(* What a worker is told of the registry: #piWorkerConfig; then the ones    *)
(* whose secret it can read.                                                *)
PiProviders(reg) == ListEnabled(reg)

WithKeys(list, reg) == {m \in list : ProviderOf[m] \in reg.keys}

OfName(list, name) == {m \in list : Name[m] = name}

(* selectPiProvider: the first of that name, the first of all without one,  *)
(* None where it throws.                                                    *)
SelectPi(list, name) ==
  IF name = None THEN FirstOf(list) ELSE FirstOf(OfName(list, name))

(* resolveVisionProvider; told: the solver hears why there is none.         *)
ResolveVision(list, name) ==
  LET named == IF name = None THEN None ELSE FirstOf(OfName(list, name))
  IN  IF named # None /\ named \notin Sees THEN [model |-> None, told |-> TRUE]
      ELSE [model |-> IF named # None THEN named
                      ELSE FirstOf(list \cap Sees),
            told |-> FALSE]

(* HttpAdvisoryRuntime.runStructured: what one or two answers of the model  *)
(* give. An answer is a value, "garbage", or the way the call failed.       *)
CallFailures == {"timeout", "http", "other"}

CodeOf(failure) ==
  CASE failure = "timeout" -> "ADVISORY_TIMEOUT"
    [] failure = "http" -> "ADVISORY_PROVIDER_ERROR"
    [] OTHER -> "ADVISORY_CALL_FAILED"

Advised(calls, got) == [calls |-> calls, got |-> got]

RunStructured(m, hasKey, first, second) ==
  IF m = None \/ ~hasKey THEN Advised(0, "MODEL_UNAVAILABLE")
  ELSE IF first \in CallFailures THEN Advised(1, CodeOf(first))
  ELSE IF first # "garbage" THEN Advised(1, first)
  ELSE IF second \in CallFailures THEN Advised(2, CodeOf(second))
  ELSE IF second # "garbage" THEN Advised(2, second) ELSE Advised(2, "ADVISORY_OUTPUT_INVALID")
=============================================================================
