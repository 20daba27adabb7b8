----------------------------- MODULE Algorithms ------------------------------
(***************************************************************************)
(* Probes of what the code computes in loops that are recursive operators  *)
(* here: number theory, the attacks built on it, and the search of a large *)
(* file. The sets of questions are the bounds.                             *)
(***************************************************************************)
EXTENDS Numbers, Search, Probes

Numbers1 == 0..12
Primes == {2, 3, 5, 7, 11, 13, 17}

(* math.ts and solve_linear_congruence *)
CalculationKinds == {"egcd", "inverse", "crt", "root", "factor", "congruence"}

AskCalculation ==
  \/ \E a, b \in Numbers1 : ask = [of |-> "egcd", a |-> a, b |-> b]
  \/ \E a \in Numbers1, m \in 1..12 : ask = [of |-> "inverse", a |-> a, m |-> m]
  \/ \E a, b \in 0..3, m1, m2 \in 2..6 :
       ask = [of |-> "crt", rs |-> <<[a |-> a, m |-> m1], [a |-> b, m |-> m2]>>]
  \/ \E n \in 0..130, k \in 1..3 : ask = [of |-> "root", n |-> n, k |-> k]
  \/ \E n \in 2..400 : ask = [of |-> "factor", n |-> n]
  \/ \E a, b \in 0..7, m \in 1..8 : ask = [of |-> "congruence", a |-> a, b |-> b, m |-> m]

Calculated(q) ==
  CASE q.of = "egcd" -> [gcd |-> GcdOf(q.a, q.b), ext |-> Egcd(q.a, q.b)]
    [] q.of = "inverse" -> ModInverse(q.a, q.m)
    [] q.of = "crt" -> Crt(q.rs)
    [] q.of = "root" -> IntegerRoot(q.n, q.k)
    [] q.of = "factor" -> FactorInteger(q.n)
    [] q.of = "congruence" -> Congruence(q.a, q.b, q.m)

CommonDivisors(a, b) == {d \in 1..(a + b + 1) : a % d = 0 /\ b % d = 0}
Coprime(a, b) == CommonDivisors(a, b) = {1}
ProductOf(s) == FoldLeft(LAMBDA acc, x : acc * x, 1, s)
IsPrime(n) == n > 1 /\ \A d \in 2..n - 1 : n % d # 0

CalculationHolds(q, r) ==
  CASE q.of = "egcd" ->
         /\ q.a + q.b > 0 => r.gcd = Max(CommonDivisors(q.a, q.b))
         /\ r.ext.g = r.gcd
         /\ r.ext.g = q.a * r.ext.x + q.b * r.ext.y
    [] q.of = "inverse" ->
         IF Coprime(q.a, q.m) THEN r \in 0..q.m - 1 /\ (q.a * r) % q.m = 1 % q.m ELSE r = Null
    [] q.of = "crt" ->
         IF Coprime(q.rs[1].m, q.rs[2].m)
         THEN \A i \in 1..2 : r % q.rs[i].m = q.rs[i].a % q.rs[i].m ELSE r = Null
    [] q.of = "root" ->
         /\ r.root^q.k <= q.n
         /\ q.n < (r.root + 1)^q.k
         /\ r.exact = (r.root^q.k = q.n)
    [] q.of = "factor" ->
         /\ ProductOf(r) = q.n
         /\ \A i \in DOMAIN r : r[i] < TrialBound^2 => IsPrime(r[i])
    [] q.of = "congruence" ->
         {x \in 0..q.m - 1 : (q.a * x) % q.m = q.b % q.m}
         = IF r = <<>> THEN {} ELSE {x \in 0..q.m - 1 : x % r[2] = r[1]}

(* egcd, modInverse, crt, integerRoot, factorInteger and                    *)
(* solve_linear_congruence give what their names say, for every small       *)
(* input, 0, 1 and moduli with a common factor included. Only factors above *)
(* the square of the trial bound may be composite.                          *)
NumbersAgree == (ask.of \in CalculationKinds /\ answer # <<>>) => CalculationHolds(ask, answer[1])
-----------------------------------------------------------------------------
(* rsa.ts, dlog.ts, prng.ts, xor.ts: a secret and what the attacker sees.   *)
AttackKinds ==
  {"decrypt", "small", "fermat", "wiener", "common", "hastad", "dlog", "lcg", "xor", "caesar"}

Moduli == {<<p, q>> \in (Primes \ {2}) \X Primes : p < q}
BigPrimes == {83, 89, 97, 101}
Texts == UNION {[1..n -> {0, 4, 25}] : n \in 1..3}
Plain == UNION {[1..n -> SUBSET {0, 1}] : n \in 0..3}

AskAttack ==
  \/ \E f \in Moduli, e \in {3, 5, 7}, m \in {0, 1, 2, 14} :
       ask = [of |-> "decrypt", p |-> f[1], q |-> f[2], e |-> e, m |-> m]
  \/ \E e \in {2, 3}, m \in 1..9, n \in {15, 21, 35} : ask = [of |-> "small", n |-> n, e |-> e, m |-> m]
  \/ \E k \in 4..112 : ask = [of |-> "fermat", n |-> 2 * k + 1]
  \/ \E p, q \in BigPrimes, d \in {3, 5, 7} :
       p < q /\ Coprime(d, (p - 1) * (q - 1)) /\ ask = [of |-> "wiener", p |-> p, q |-> q, d |-> d]
  \/ \E f \in Moduli, e1, e2 \in 2..5, m \in {0, 1, 2, 14} :
       ask = [of |-> "common", p |-> f[1], q |-> f[2], e1 |-> e1, e2 |-> e2, m |-> m]
  \/ \E n1, n2 \in {10, 15, 21, 22}, m \in 0..9 : ask = [of |-> "hastad", ns |-> <<n1, n2>>, m |-> m]
  \/ \E m \in 1..13, g, h \in 0..12 : ask = [of |-> "dlog", g |-> g, h |-> h, m |-> m]
  \/ \E a, c, x \in 0..DefaultModulus - 1, noise \in {0, 1} :
       ask = [of |-> "lcg", a |-> a, c |-> c, x |-> x, noise |-> noise]
  \/ \E t \in Plain, k \in [1..2 -> SUBSET {0, 1}] : ask = [of |-> "xor", text |-> t, key |-> k]
  \/ \E t \in Texts, s \in {0, 1, 22, 25} : ask = [of |-> "caesar", text |-> t, shift |-> s]

Modulus(q) == q.p * q.q
Phi(q) == (q.p - 1) * (q.q - 1)
PublicOf(q) == CHOOSE e \in 1..Phi(q) - 1 : (e * q.d) % Phi(q) = 1

LcgFrom(q) ==
  LET f[i \in 0..3] == IF i = 0 THEN q.x ELSE (q.a * f[i - 1] + q.c) % DefaultModulus
  IN  <<f[0], f[1], f[2], (f[3] + q.noise) % DefaultModulus>>

Attacked(q) ==
  CASE q.of = "decrypt" -> RsaBasicDecrypt(Modulus(q), q.e, ModPow(q.m, q.e, Modulus(q)))
    [] q.of = "small" -> RsaSmallE(ModPow(q.m, q.e, q.n), q.e, q.n)
    [] q.of = "fermat" -> RsaFermat(q.n)
    [] q.of = "wiener" -> RsaWiener(Modulus(q), PublicOf(q))
    [] q.of = "common" ->
         RsaCommonModulus(Modulus(q), q.e1, ModPow(q.m, q.e1, Modulus(q)), q.e2, ModPow(q.m, q.e2, Modulus(q)))
    [] q.of = "hastad" -> RsaHastad(2, [i \in 1..2 |-> [c |-> (q.m * q.m) % q.ns[i], n |-> q.ns[i]]])
    [] q.of = "dlog" -> DiscreteLogSmall(q.g, q.h, q.m)
    [] q.of = "lcg" -> LcgRecover(LcgFrom(q))
    [] q.of = "xor" -> [back |-> RepeatingXor(RepeatingXor(q.text, q.key), q.key),
                        stream |-> XorKnownPlaintext(RepeatingXor(q.text, q.key), q.text)]
    [] q.of = "caesar" -> [back |-> Caesar(Caesar(q.text, q.shift), -q.shift),
                           shift |-> LikelyCaesar(Caesar(q.text, q.shift))]

Often(text, letter) == Cardinality({i \in DOMAIN text : text[i] = letter})

AttackHolds(q, r) ==
  CASE q.of = "decrypt" ->
         IF Coprime(q.e, Phi(q)) /\ q.p < TrialBound THEN r = q.m ELSE r = Null
    [] q.of = "small" ->
         /\ q.m^q.e < SmallESteps * q.n => r # Null
         /\ r # Null => ModPow(r, q.e, q.n) = ModPow(q.m, q.e, q.n)
    [] q.of = "fermat" -> r[1] * r[2] = q.n /\ (~IsPrime(q.n) => r[1] > 1)
    [] q.of = "wiener" ->
         /\ 81 * q.d^4 < Modulus(q) => r # Null
         /\ r # Null => \A m \in {2, 3, 70} : ModPow(ModPow(m, PublicOf(q), Modulus(q)), r, Modulus(q)) = m
    [] q.of = "common" ->
         /\ r # Null => r = q.m % Modulus(q)
         /\ Coprime(q.e1, q.e2) /\ Coprime(q.m, Modulus(q)) => r # Null
    [] q.of = "hastad" ->
         /\ r # Null => \A i \in 1..2 : (r * r) % q.ns[i] = (q.m * q.m) % q.ns[i]
         /\ Coprime(q.ns[1], q.ns[2]) => r = q.m
    [] q.of = "dlog" ->
         /\ r # Null => ModPow(q.g, r, q.m) = q.h % q.m
         /\ IsPrime(q.m) /\ (\E x \in 0..LogBound - 1 : ModPow(q.g, x, q.m) = q.h % q.m) => r # Null
    [] q.of = "lcg" ->
         LET odd == (LcgFrom(q)[2] - LcgFrom(q)[1]) % 2 = 1
         IN  r = IF odd /\ q.noise = 0 THEN <<q.a, q.c>> ELSE <<>>
    [] q.of = "xor" ->
         r.back = q.text /\ \A i \in DOMAIN q.text : r.stream[i] = q.key[((i - 1) % 2) + 1]
    [] q.of = "caesar" ->
         /\ r.back = q.text
         /\ (\A l \in {0, 25} : Often(q.text, l) < Often(q.text, 4))
            => Caesar(Caesar(q.text, q.shift), r.shift) = q.text

(* Every attack finds what it is meant to find, where its conditions hold,  *)
(* and never reports a secret that does not explain what was given: a wrong *)
(* one would be recorded as a fact and the attack as a success.             *)
AttacksRecover == (ask.of \in AttackKinds /\ answer # <<>>) => AttackHolds(ask, answer[1])
-----------------------------------------------------------------------------
(* searchFileStream: a text cut in two at any place. *)
TextOf(n) == UNION {[1..k -> {"a", "b", "n"}] : k \in 0..n}

AskSearch ==
  \E t \in TextOf(5), cut \in 0..5, w \in {<<"a">>, <<"a", "b">>}, most \in {1, 9}, line \in {3, 9} :
    cut <= Len(t) /\ ask = [of |-> "search", text |-> t, cut |-> cut, query |-> w, most |-> most, line |-> line]

Searched(q) ==
  SearchFileStream(<<SubSeq(q.text, 1, q.cut), SubSeq(q.text, q.cut + 1, Len(q.text))>>,
                   q.query, q.most, q.line)

(* The lines of a text, from and to their ends. *)
LinesOf(text) ==
  LET ends == {0, Len(text) + 1} \cup {i \in DOMAIN text : text[i] = "n"}
  IN  {<<i, j>> \in ends \X ends : i < j /\ \A k \in ends : ~(i < k /\ k < j)}

NumberOf(text, l) == 1 + Cardinality({i \in 1..l[1] : text[i] = "n"})
Hits(q) == {l \in LinesOf(q.text) : Occurs(SubSeq(q.text, l[1] + 1, l[2] - 1), q.query)}

SearchHolds(q, r) ==
  /\ (r # <<>>) = (Hits(q) # {})
  /\ (\A l \in LinesOf(q.text) : l[2] - l[1] <= q.line + 1)
     => Range(r) = {NumberOf(q.text, l) : l \in
                     {h \in Hits(q) : Cardinality({x \in Hits(q) : x[1] < h[1]}) < q.most}}

(* A search finds what is there, however the stream is cut and however long *)
(* the lines are; where no line is too long, in the lines it names and up   *)
(* to the most it may name.                                                 *)
SearchFinds == (ask.of = "search" /\ answer # <<>>) => SearchHolds(ask, answer[1])

(* The number theory agrees with its definitions, the attacks built on it   *)
(* with what they promise (crypto-runtime), and a search with a look at the *)
(* whole text (stream-io.ts).                                               *)
AlgorithmsAreRight == NumbersAgree /\ AttacksRecover /\ SearchFinds
-----------------------------------------------------------------------------
AlgorithmInit ==
  /\ answer = <<>>
  /\ AskCalculation \/ AskAttack \/ AskSearch

Calculate == Answering(CalculationKinds, Calculated(ask))

Attack == Answering(AttackKinds, Attacked(ask))

SearchFile == Answering({"search"}, Searched(ask))

AlgorithmNext == Calculate \/ Attack \/ SearchFile
=============================================================================
