------------------------------- MODULE Numbers -------------------------------
(***************************************************************************)
(* The number theory behind the crypto tools: packages/crypto-runtime/src  *)
(* math.ts, rsa.ts, dlog.ts, prng.ts and xor.ts, and what rsaAttackTool    *)
(* (packages/tool-runtime/src/semantic-tools.ts) makes of a result.        *)
(*                                                                         *)
(* BigInts are integers. BigInt division truncates and % keeps the sign:   *)
(* the code adds the modulus back wherever a number may be negative, which *)
(* is what % does here. The bounds of the code's loops are constants.      *)
(***************************************************************************)
EXTENDS Integers, Sequences, SequencesExt, FiniteSets, FiniteSetsExt

CONSTANTS
  TrialBound,   \* factorInteger divides by numbers below 10000
  SmallPrimes,  \* the primes isProbablePrime looks at: 2 .. 23
  SmallESteps,  \* rsaSmallE tries 4096 multiples of n
  FermatSteps,  \* rsaFermat takes 2000000 steps
  LogBound,     \* discreteLogSmall finds exponents below 2^22
  DefaultModulus \* lcgRecover: 2^32

ASSUME NumbersAssumption ==
  {TrialBound, SmallESteps, FermatSteps, LogBound, DefaultModulus} \subseteq Nat \ {0}

Null == -1     \* null: every number the code returns is 0 or more

RECURSIVE GcdOf(_, _)
GcdOf(a, b) == IF b = 0 THEN a ELSE GcdOf(b, a % b)

RECURSIVE Egcd(_, _)
Egcd(a, b) ==
  IF b = 0 THEN [g |-> a, x |-> 1, y |-> 0]
  ELSE LET r == Egcd(b, a % b) IN [g |-> r.g, x |-> r.y, y |-> r.x - (a \div b) * r.y]

ModInverse(a, m) ==
  LET r == Egcd(a % m, m) IN IF r.g # 1 THEN Null ELSE r.x % m

(* residues: a sequence of [a, m].                                          *)
Crt(residues) ==
  LET M == FoldLeft(LAMBDA acc, r : acc * r.m, 1, residues)
      Inv(r) == ModInverse(M \div r.m, r.m)
  IN  IF \E i \in DOMAIN residues : Inv(residues[i]) = Null THEN Null
      ELSE FoldLeft(LAMBDA acc, r : acc + r.a * (M \div r.m) * Inv(r), 0, residues) % M

Root(root, exact) == [root |-> root, exact |-> exact]

(* b^k, or cap + 1 where it is more than cap: all that the search compares.  *)
PowUpTo(b, k, cap) ==
  FoldLeft(LAMBDA acc, i : IF acc > cap \div b THEN cap + 1 ELSE acc * b, 1, [i \in 1..k |-> i])

RECURSIVE BisectRoot(_, _, _, _)
BisectRoot(n, k, lo, hi) ==
  LET mid == (lo + hi) \div 2
      p == PowUpTo(mid, k, n)
  IN  CASE lo >= hi -> IF PowUpTo(lo, k, n) = n THEN Root(lo, TRUE)
                       ELSE Root(lo - 1, (lo - 1)^k = n)
        [] lo < hi /\ p = n -> Root(mid, TRUE)
        [] lo < hi /\ p < n -> BisectRoot(n, k, mid + 1, hi)
        [] OTHER -> BisectRoot(n, k, lo, mid)

IntegerRoot(n, k) == IF n < 2 THEN Root(n, TRUE) ELSE BisectRoot(n, k, 1, n)

Isqrt(n) == IntegerRoot(n, 2).root

RECURSIVE ModPow(_, _, _)
ModPow(base, exp, mod) ==
  IF exp = 0 THEN 1
  ELSE LET rest == ModPow((base * base) % mod, exp \div 2, mod)
       IN  IF exp % 2 = 1 THEN ((base % mod) * rest) % mod ELSE rest
-----------------------------------------------------------------------------
(* pollardRho: Floyd's cycle from one seed, then the next.                  *)
RECURSIVE RhoWalk(_, _, _, _, _)
RhoWalk(n, c, x, y, steps) ==
  LET F(v) == (v * v + c) % n
      a == F(x)
      b == F(F(y))
      d == GcdOf(IF a < b THEN b - a ELSE a - b, n)
  IN  IF d # 1 \/ steps = 1 THEN d ELSE RhoWalk(n, c, a, b, steps - 1)

RhoSteps == 200    \* 100000 in the code

RECURSIVE Rho(_, _)
Rho(n, seed) ==
  IF seed = 20 THEN Null
  ELSE LET d == RhoWalk(n, seed, seed, seed, RhoSteps)
       IN  IF d # 1 /\ d # n THEN d ELSE Rho(n, seed + 1)

PollardRho(n) == IF n % 2 = 0 THEN 2 ELSE Rho(n, 2)

IsProbablePrime(n) == n >= 2 /\ (n \in SmallPrimes \/ \A p \in SmallPrimes : n % p # 0)

(* The factors p, p + 2, ... below TrialBound, and what is left of n.       *)
RECURSIVE TrialDivision(_, _, _)
TrialDivision(n, p, out) ==
  CASE p = 2 -> IF n % 2 = 0 THEN TrialDivision(n \div 2, 2, Append(out, 2))
                ELSE TrialDivision(n, 3, out)
    [] p > 2 /\ p * p <= n /\ p < TrialBound ->
         IF n % p = 0 THEN TrialDivision(n \div p, p, Append(out, p))
         ELSE TrialDivision(n, p + 2, out)
    [] OTHER -> [left |-> n, out |-> out]

RECURSIVE FactorInteger(_)
FactorInteger(n) ==
  IF n < 2 THEN <<>>
  ELSE LET t == TrialDivision(n, 2, <<>>)
           d == PollardRho(t.left)
       IN  CASE t.left = 1 -> t.out
             [] t.left # 1 /\ IsProbablePrime(t.left) -> Append(t.out, t.left)
             [] t.left # 1 /\ ~IsProbablePrime(t.left) /\ d # Null ->
                  t.out \o FactorInteger(d) \o FactorInteger(t.left \div d)
             [] OTHER -> Append(t.out, t.left)
-----------------------------------------------------------------------------
(* rsaBasicDecrypt without p and q.                                         *)
RsaBasicDecrypt(n, e, c) ==
  LET fac == FactorInteger(n)
      p == fac[1]
      d == ModInverse(e, (p - 1) * (n \div p - 1))
  IN  IF Len(fac) < 2 THEN Null ELSE IF d \in {Null, 0} THEN Null ELSE ModPow(c, d, n)

RsaSmallE(c, e, n) ==
  LET Try(k) == IntegerRoot(k * n + c, e)
      hits == {k \in 0..SmallESteps - 1 : Try(k).exact /\ Try(k).root > 0}
  IN  IF hits = {} THEN Null ELSE Try(Min(hits)).root

(* Mutant of RsaFermat: the first a is the floor of the root. *)
FermatFromBelow(n) ==
  LET hits == {a \in Isqrt(n) + 1..Isqrt(n) + FermatSteps : IntegerRoot(a * a - n, 2).exact}
      a == Min(hits)
  IN  IF hits = {} THEN <<>> ELSE <<a - Isqrt(a * a - n), a + Isqrt(a * a - n)>>

RsaFermat(n) ==
  LET start == IF Isqrt(n)^2 < n THEN Isqrt(n) + 1 ELSE Isqrt(n)
      hits == {a \in start..start + FermatSteps - 1 : IntegerRoot(a * a - n, 2).exact}
      a == Min(hits)
  IN  IF hits = {} THEN <<>> ELSE <<a - Isqrt(a * a - n), a + Isqrt(a * a - n)>>

(* The quotients of the continued fraction of e / n, 200 at most.           *)
RECURSIVE Quotients(_, _, _)
Quotients(a, b, room) ==
  IF b = 0 \/ room = 0 THEN <<>> ELSE <<a \div b>> \o Quotients(b, a % b, room - 1)

Convergents(e, n) ==
  FoldLeft(LAMBDA s, q : [out |-> Append(s.out, [k |-> q * s.n1 + s.n0, d |-> q * s.d1 + s.d0]),
                          n0 |-> s.n1, n1 |-> q * s.n1 + s.n0,
                          d0 |-> s.d1, d1 |-> q * s.d1 + s.d0],
           [out |-> <<>>, n0 |-> 0, n1 |-> 1, d0 |-> 1, d1 |-> 0], Quotients(e, n, 200)).out

(* phi = (e * d - 1) / k gives the sum of the primes, which gives them.     *)
WienerAccepts(n, e, k, d) ==
  /\ k # 0
  /\ (e * d - 1) % k = 0
  /\ LET s == n - (e * d - 1) \div k + 1
         disc == s * s - 4 * n
     IN  disc >= 0 /\ IntegerRoot(disc, 2).exact /\ (s - Isqrt(disc)) % 2 = 0

RsaWiener(n, e) ==
  LET good == SelectSeq(Convergents(e, n), LAMBDA c : WienerAccepts(n, e, c.k, c.d))
  IN  IF good = <<>> THEN Null ELSE good[1].d

RsaCommonModulus(n, e1, c1, e2, c2) ==
  LET r == Egcd(e1, e2)
      Base(x, c) == IF x < 0 THEN ModInverse(c, n) ELSE c
      Abs(x) == IF x < 0 THEN -x ELSE x
  IN  IF GcdOf(e1, e2) # 1 \/ {Base(r.x, c1), Base(r.y, c2)} \cap {Null, 0} # {} THEN Null
      ELSE (ModPow(Base(r.x, c1), Abs(r.x), n) * ModPow(Base(r.y, c2), Abs(r.y), n)) % n

(* pairs: a sequence of [c, n]. *)
RsaHastad(e, pairs) ==
  LET c == Crt([i \in 1..e |-> [a |-> pairs[i].c, m |-> pairs[i].n]])
  IN  IF Len(pairs) < e THEN Null
      ELSE IF c = Null \/ ~IntegerRoot(c, e).exact THEN Null ELSE IntegerRoot(c, e).root

(* solve_linear_congruence: <<x, modulus>>, or <<>>.                        *)
Congruence(a, b, m) ==
  LET g == GcdOf(a, m) IN
    IF b % g # 0 THEN <<>>
    ELSE <<(ModInverse(a \div g, m \div g) * (b \div g)) % (m \div g), m \div g>>
-----------------------------------------------------------------------------
RECURSIVE PowerOfTwoRoot(_, _)
PowerOfTwoRoot(n, step) == IF step * step < n THEN PowerOfTwoRoot(n, 2 * step) ELSE step

LeastIn(set) == IF set = {} THEN Null ELSE Min(set)

(* discreteLogSmall: baby steps j, giant steps i.                           *)
DiscreteLogSmall(g0, h0, modulus) ==
  LET g == g0 % modulus
      h == h0 % modulus
      n == Min({LogBound, modulus - 1})
      step == PowerOfTwoRoot(n, 1)
      Baby(v) == LeastIn({j \in 0..step - 1 : ModPow(g, j, modulus) = v})
      factor == ModPow(g, modulus - 1 - (step % (modulus - 1)), modulus)
      Gamma(i) == (h * ModPow(factor, i, modulus)) % modulus
      hits == {i \in 0..(n + step - 1) \div step - 1 :
                 Baby(Gamma(i)) # Null /\ ModPow(g, i * step + Baby(Gamma(i)), modulus) = h}
  IN  CASE modulus <= 1 -> Null
        [] modulus > 1 /\ h = 1 -> 0
        [] modulus > 1 /\ h # 1 /\ g = 0 -> IF h = 0 THEN 1 ELSE Null
        [] OTHER -> IF hits = {} THEN Null ELSE Min(hits) * step + Baby(Gamma(Min(hits)))

(* lcgRecover: <<a, c>>, or <<>>.                                           *)
LcgRecover(samples) ==
  LET m == DefaultModulus
      inv == ModInverse((samples[2] - samples[1]) % m, m)
      a == (((samples[3] - samples[2]) % m) * inv) % m
      c == (samples[2] - a * samples[1]) % m
  IN  IF Len(samples) < 3 THEN <<>>
      ELSE IF inv \in {Null, 0} THEN <<>>
      ELSE IF Len(samples) > 3 /\ (a * samples[3] + c) % m # (samples[4] % m) THEN <<>>
      ELSE <<a, c>>
-----------------------------------------------------------------------------
(* A byte or a word is the set of its bits that are 1. *)
Xor(a, b) == (a \ b) \cup (b \ a)

(* xorBytes of two sequences of bytes; a missing byte counts as 0.          *)
ByteOr0(s, i) == IF i \in DOMAIN s THEN s[i] ELSE {}

XorBytes(a, b) ==
  [i \in 1..(IF Len(a) > Len(b) THEN Len(a) ELSE Len(b)) |->
     Xor(ByteOr0(a, i), IF b = <<>> THEN {} ELSE b[((i - 1) % Len(b)) + 1])]

XorKnownPlaintext(cipher, plain) ==
  XorBytes(SubSeq(cipher, 1, Min({Len(cipher), Len(plain)})), plain)

RepeatingXor(cipher, key) == [i \in DOMAIN cipher |-> Xor(cipher[i], key[((i - 1) % Len(key)) + 1])]

(* Letters are 0..25 in either case. *)
Letters == 0..25
Caesar(text, shift) == [i \in DOMAIN text |-> (text[i] + shift) % 26]

LikelyCaesar(text) ==
  LET Count(s) == Cardinality({i \in DOMAIN text : text[i] = ((4 + s) % 26)})
      most == Max({Count(s) : s \in Letters})
  IN  (26 - Min({s \in Letters : Count(s) = most})) % 26
=============================================================================
