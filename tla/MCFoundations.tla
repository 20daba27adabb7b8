---------------------------- MODULE MCFoundations -----------------------------
(* Bounded instance of Lifecycle, Probes and Algorithms: a behaviour either *)
(* walks a challenge row through the state machine or answers one question  *)
(* about a pure function. Three models of two providers, two of one name,   *)
(* one that sees.                                                           *)
EXTENDS Lifecycle, Algorithms

CONSTANTS m1, m2, m3, p1, p2

MCOrder == <<m1, m2, m3>>
MCProviderOf == [m \in {m1, m2, m3} |-> IF m = m3 THEN p2 ELSE p1]
MCName == [m \in {m1, m2, m3} |-> IF m = m2 THEN m2 ELSE m1]
-----------------------------------------------------------------------------
(* The questions. *)
Upto(n, S) == UNION {[1..k -> S] : k \in 0..n}

Packed(path, method, packed, declared, real) ==
  [parts |-> path, isDirectory |-> FALSE, encrypted |-> FALSE, method |-> method,
   packed |-> packed, declared |-> declared, real |-> real]

Entries == {
  Packed(<<"a">>, 0, 3, 3, 3),
  Packed(<<"a">>, 8, 1, 2, 6),             \* expands to more than it says
  Packed(<<"d", "", ".", "b">>, 8, 2, 4, 4),
  Packed(<<"d", "b", "h">>, 8, 1, 1, 1),   \* under a file
  Packed(<<"..", "c">>, 8, 1, 1, 1),
  Packed(<<"c:", "c">>, 8, 1, 1, 1),
  Packed(<<"e">>, 0, 0, 0, 0),
  Packed(<<"", ".">>, 8, 1, 1, 1),
  Packed(<<"f">>, 9, 1, 1, 1),
  [Packed(<<"d", "">>, 0, 0, 0, 0) EXCEPT !.isDirectory = TRUE],
  [Packed(<<"g">>, 8, 1, 1, 1) EXCEPT !.encrypted = TRUE]}

Budgets == {[maxFiles |-> 2, maxExpandedBytes |-> t, maxSingleFile |-> s] : t \in {4, 7}, s \in {3, 5}}

OnDisk(stem, capital, marks) == [stem |-> stem, capital |-> capital, marks |-> marks]
AttachmentNames == {OnDisk("f", FALSE, <<>>), OnDisk("f", TRUE, <<>>), OnDisk("f", FALSE, <<2>>),
                    OnDisk("f", TRUE, <<2>>), OnDisk("f", FALSE, <<2, 2>>), OnDisk("g", FALSE, <<>>)}

(* Redirects and refusals, in this order and in the other. *)
Heard ==
  {[i \in 1..a |-> first] \o [i \in 1..b |-> second] \o <<last>> :
     a, b \in 0..7, <<first, second>> \in {<<"redirect", "limit">>, <<"limit", "redirect">>},
     last \in {"json", "denied", "broken"}}

Downloads ==
  LET of == [of : {"download"}, platform : {"dasctf", "ctfd"}, from : {"url"},
             status : {NoResponse, 200, 206, 404, 429, 503},
             type : {"binary", "text", "odd"}, named : BOOLEAN, business : BOOLEAN, broken : BOOLEAN,
             body : Upto(2, {0, 2, 3}), foreign : {0, 2}, marked : BOOLEAN,
             length : {Unsaid, Garbled, 0, 3, 5}]
      plain == {q \in of : q.platform = "ctfd" \/ q.status \notin Successful
                           => q.type = "binary" /\ ~q.named /\ ~q.business /\ q.foreign = 0 /\ ~q.marked}
  IN  {q \in plain : q.foreign + MarkBytes(q) <= Arrived(q.body)}
      \cup {[q EXCEPT !.from = f] : q \in {p \in plain : p.status = 404}, f \in {"nowhere", "memory"}}

Candidates ==
  [manual : ManualPriority, attempts : 0..3, difficulty : {0, 1, 4}, score : {0, 120, 900},
   age : {0, 15, 200}, progress : {"ACTIVE", "STALLED", "NONE"}, class : {"HEAVY", "LIGHT"}]

NoSlots == [s \in Slots |-> None]

Registries ==
  {[enabled |-> e, open |-> o, keys |-> Providers, chief |-> c, fails |-> [p \in Providers |-> 0],
    slots |-> [NoSlots EXCEPT !["primarySolver"] = a, !["vision"] = v, !["manager"] = g]] :
     e \in SUBSET Models, o \in SUBSET Providers, c \in {S \in SUBSET Models : Cardinality(S) < 2},
     a, v, g \in Models \cup {None}}

Kept == {Saved(r, r.slots) : r \in Registries}

MCInquiries ==
  [extract |-> [of : {"extract"}, entries : Upto(3, Entries), o : Budgets],
   sample |-> [of : {"sample"}, size : 0..24, window : 1..7],
   names |-> [of : {"names"}, names : [1..4 -> AttachmentNames]],
   submit |-> [of : {"submit"}, replies : Heard, json : Envelope],
   ctfd |-> [of : {"ctfd"}, replies : Heard, injected : BOOLEAN,
             status : {"correct", "already_solved", "incorrect", "wrong", "ratelimited", "paused",
                       "authentication_required"}],
   download |-> Downloads,
   start |-> [of : {"start"}, init : BOOLEAN, check : BOOLEAN, breaks : {"none", "detail", "build"},
              polls : Upto(3, EnvPoll)],
   rank |-> [of : {"rank"}, c : Candidates, older : {0, 5, 30}],
   remove |-> [of : {"remove"}, reg : Kept, m : Models],
   close |-> [of : {"close"}, reg : Kept, p : Providers],
   vision |-> ModelQuestion.vision,
   advise |-> ModelQuestion.advise,
   tool |-> CatalogQuestion.tool,
   hints |-> CatalogQuestion.hints,
   rsa |-> CatalogQuestion.rsa]
-----------------------------------------------------------------------------
Walking == [of |-> "lifecycle"]

MCInit ==
  /\ Init
  /\ \/ ask = Walking /\ answer = <<>>
     \/ ProbeInit
     \/ AlgorithmInit

MCNext ==
  \/ ask = Walking /\ Next /\ UNCHANGED probe
  \/ (ProbeNext \/ AlgorithmNext) /\ UNCHANGED vars

MCSpec == MCInit /\ [][MCNext]_<<vars, probe>>
=============================================================================
