---------------------------- MODULE NumbersProofs ----------------------------
(***************************************************************************)
(* The arithmetic of Numbers for a word of any width.                       *)
(*                                                                         *)
(* A recursive function is a CHOOSE, so that Euclid's loop has a value at   *)
(* all is the first result: the functions that solve it below a bound       *)
(* exist and agree with each other (LoopsExists, LoopsAgree), and Euclid is *)
(* what they are together (EuclidLoops).  It answers a greatest common      *)
(* divisor (EuclidIsGcd), from which lowest terms follow (Reduced) and that *)
(* equal fractions in lowest terms have the same parts (LowestUnique).      *)
(*                                                                         *)
(* The inductive invariant Inv says more than TypeOK: no operand and no     *)
(* result is a fraction over 0.  Sums are the hard case, because gcd        *)
(* truncates their parts (DenominatorsNotHalf, SumPacked).  On top of it    *)
(* there is one lemma per primitive, then one theorem per property.         *)
(***************************************************************************)
EXTENDS Numbers, WellFoundedInduction, TLAPS

------------------------------------------------------------------------------
(* Division.                                                                *)

(* Quotient and remainder by a positive number.                             *)
LEMMA DivMod ==
  ASSUME NEW a \in Int, NEW b \in Nat \ {0}
  PROVE  /\ a \div b \in Int /\ a % b \in 0 .. b - 1
         /\ a = b * (a \div b) + (a % b)
         /\ a \in Nat => a \div b \in Nat
OBVIOUS

(* An exact quotient.                                                       *)
LEMMA DivExact ==
  ASSUME NEW q \in Int, NEW b \in Nat \ {0}
  PROVE  (b * q) \div b = q /\ (b * q) % b = 0
OBVIOUS

\* g divides a.
Divides(g, a) == \E q \in Int : a = g * q

(* Divisors as remainders.                                                  *)
LEMMA DividesMod ==
  ASSUME NEW a \in Int, NEW g \in Nat \ {0}
  PROVE  Divides(g, a) <=> a % g = 0
<1>1. ASSUME a % g = 0 PROVE Divides(g, a)
  <2>1. a = g * (a \div g) + (a % g) /\ a \div g \in Int
    BY DivMod
  <2>2. a = g * (a \div g)
    BY <1>1, <2>1
  <2> QED BY <2>1, <2>2 DEF Divides
<1>2. ASSUME Divides(g, a) PROVE a % g = 0
  BY <1>2, DivExact DEF Divides
<1> QED BY <1>1, <1>2

(* A divisor of a positive number is not greater.                           *)
LEMMA DividesLeq ==
  ASSUME NEW a \in Int, a # 0, NEW g \in Int, Divides(g, a)
  PROVE  g # 0 /\ Abs(g) <= Abs(a)
<1>1. PICK q \in Int : a = g * q
  BY DEF Divides
<1>2. q # 0 /\ g # 0
  BY <1>1
<1>3. Abs(a) = Abs(g) * Abs(q) /\ Abs(g) \in Nat /\ Abs(q) \in Nat \ {0}
  BY <1>1, <1>2 DEF Abs
<1>4. \A x1 \in Nat : \A y1 \in Nat \ {0} : x1 <= x1 * y1
  OBVIOUS
<1>5. Abs(g) <= Abs(g) * Abs(q)
  BY <1>3, <1>4
<1> QED BY <1>2, <1>3, <1>5

(* C's remainder: smaller than the divisor, of the dividend's sign.         *)
LEMMA Remainder ==
  ASSUME NEW a \in Int, NEW b \in Int \ {0}
  PROVE  /\ CRem(a, b) \in Int
         /\ Abs(CRem(a, b)) < Abs(b) /\ Abs(b) \in Nat /\ Abs(CRem(a, b)) \in Nat
         /\ \E q \in Int : a = b * q + CRem(a, b)
         /\ a >= 0 => CRem(a, b) >= 0
         /\ a <= 0 => CRem(a, b) <= 0
         /\ Abs(CRem(a, b)) <= Abs(a)
<1>1. Abs(b) \in Nat \ {0} /\ Abs(a) \in Nat
  BY DEF Abs
<1> DEFINE r1 == Abs(a) % Abs(b)
           q1 == Abs(a) \div Abs(b)
<1>2. r1 \in 0 .. Abs(b) - 1 /\ q1 \in Nat /\ Abs(a) = Abs(b) * q1 + r1
  <2> DEFINE A == Abs(a)
             B == Abs(b)
  <2>1. A \in Int /\ B \in Nat \ {0} /\ A \in Nat
    BY <1>1
  <2> HIDE DEF A, B
  <2>2. A % B \in 0 .. B - 1 /\ A \div B \in Nat /\ A = B * (A \div B) + (A % B)
    BY <2>1, DivMod
  <2> QED BY <2>2 DEF A, B
<1>3. CRem(a, b) = IF a < 0 THEN -r1 ELSE r1
  BY DEF CRem, Abs
<1>4. r1 <= Abs(a)
  <2>1. Abs(b) * q1 \in Nat
    BY <1>1, <1>2
  <2> HIDE DEF q1, r1
  <2> QED BY <2>1, <1>1, <1>2
<1> HIDE DEF r1, q1
<1>5. \E q \in Int : a = b * q + CRem(a, b)
  <2>1. CASE a >= 0 /\ b > 0
    BY <1>2, <1>3, <2>1 DEF Abs
  <2>2. CASE a >= 0 /\ b < 0
    <3>1. a = b * (-q1) + r1 /\ -q1 \in Int
      BY <1>2, <2>2 DEF Abs
    <3> QED BY <3>1, <1>3, <2>2
  <2>3. CASE a < 0 /\ b > 0
    <3>1. a = b * (-q1) - r1 /\ -q1 \in Int
      BY <1>2, <2>3 DEF Abs
    <3> QED BY <3>1, <1>2, <1>3, <2>3
  <2>4. CASE a < 0 /\ b < 0
    <3>1. a = b * q1 - r1
      BY <1>2, <2>4 DEF Abs
    <3>2. a = b * q1 + CRem(a, b)
      BY <3>1, <1>2, <1>3, <2>4
    <3>3. q1 \in Int
      BY <1>2
    <3> QED BY <3>2, <3>3, Zenon
  <2> QED BY <2>1, <2>2, <2>3, <2>4
<1>6. /\ CRem(a, b) \in Int /\ Abs(CRem(a, b)) = r1 /\ r1 \in Nat /\ r1 < Abs(b)
      /\ a >= 0 => CRem(a, b) >= 0
      /\ a <= 0 => CRem(a, b) <= 0
  <2>1. r1 \in Int /\ 0 <= r1 /\ r1 < Abs(b)
    BY <1>1, <1>2
  <2>2. a = 0 => r1 = 0
    BY <2>1, <1>4 DEF Abs
  <2> QED BY <2>1, <2>2, <1>3 DEF Abs
<1> QED BY <1>1, <1>4, <1>5, <1>6

------------------------------------------------------------------------------
(* Euclid's algorithm ends, and what it returns is a greatest common        *)
(* divisor.                                                                 *)

Pairs == Int \X (Int \ {0})

\* One turn of the loop.
First(p) == CRem(p[1], p[2])
Second(p) == CRem(p[2], First(p))
Turn(p) == <<First(p), Second(p)>>
Last(p) == First(p) = 0 \/ Second(p) = 0
Outcome(p) == IF First(p) = 0 THEN p[2] ELSE First(p)

\* f does what the loop does, for pairs whose second part is at most n.
Small(n) == {p \in Pairs : Abs(p[2]) <= n}
Loops(f, D) == f = [p \in D |-> IF Last(p) THEN Outcome(p) ELSE f[Turn(p)]]

(* The loop goes on with a smaller pair.                                    *)
LEMMA TurnSmaller ==
  ASSUME NEW p \in Pairs, ~Last(p)
  PROVE  /\ Turn(p) \in Pairs /\ Abs(p[2]) \in Nat
         /\ Turn(p)[1] = First(p) /\ Turn(p)[2] = Second(p)
         /\ Abs(Turn(p)[2]) \in Nat /\ Abs(Turn(p)[2]) < Abs(p[2])
<1>1. p[1] \in Int /\ p[2] \in Int \ {0}
  BY DEF Pairs
<1>2. First(p) \in Int \ {0} /\ Abs(First(p)) < Abs(p[2]) /\ Abs(p[2]) \in Nat
  BY <1>1, Remainder DEF First, Last
<1>3. Second(p) \in Int \ {0} /\ Abs(Second(p)) < Abs(First(p)) /\ Abs(First(p)) \in Nat
      /\ Abs(Second(p)) \in Nat
  BY <1>1, <1>2, Remainder DEF Second, Last
<1> QED BY <1>2, <1>3 DEF Turn, Pairs

LEMMA NatOrder == IsWellFoundedOn({ss \in Nat \X Nat : ss[1] < ss[2]}, Nat)
BY NatLessThanWellFounded DEF OpToRel

(* Induction, for a set.                                                    *)
LEMMA Induction ==
  ASSUME NEW S, \A n \in Nat : (\A m \in 0 .. n - 1 : m \in S) => n \in S
  PROVE  \A n \in Nat : n \in S
<1> DEFINE Bad == {n \in Nat : n \notin S}
           Less == {ss \in Nat \X Nat : ss[1] < ss[2]}
<1> SUFFICES ASSUME Bad # {} PROVE FALSE
  OBVIOUS
<1>1. PICK m \in Bad : \A n \in Bad : ~(<<n, m>> \in Less)
  <2> HIDE DEF Bad
  <2>1. Bad \in SUBSET Nat
    BY DEF Bad
  <2> QED BY <2>1, NatOrder, WFMin
<1>2. ASSUME NEW k \in 0 .. m - 1 PROVE k \in S
  <2>1. <<k, m>> \in Less
    BY <1>1
  <2> QED BY <1>1, <2>1
<1> QED BY <1>1, <1>2

(* Two functions that do what the loop does agree where both are defined.   *)
LEMMA LoopsAgree ==
  ASSUME NEW m \in Nat, NEW n \in Nat, NEW f, NEW g, Loops(f, Small(m)), Loops(g, Small(n)),
         NEW p \in Small(m) \cap Small(n)
  PROVE  f[p] = g[p]
<1> DEFINE S == {k \in Nat : \A q \in Small(m) \cap Small(n) : Abs(q[2]) = k => f[q] = g[q]}
<1>1. ASSUME NEW k \in Nat, \A l \in 0 .. k - 1 : l \in S PROVE k \in S
  <2> SUFFICES ASSUME NEW q \in Small(m) \cap Small(n), Abs(q[2]) = k PROVE f[q] = g[q]
    OBVIOUS
  <2>1. /\ f[q] = IF Last(q) THEN Outcome(q) ELSE f[Turn(q)]
        /\ g[q] = IF Last(q) THEN Outcome(q) ELSE g[Turn(q)]
    BY Zenon DEF Loops
  <2>2. CASE Last(q)
    BY <2>1, <2>2
  <2>3. CASE ~Last(q)
    <3>1. /\ Turn(q) \in Pairs /\ Abs(Turn(q)[2]) \in Nat /\ Abs(Turn(q)[2]) < k
      BY <2>3, TurnSmaller DEF Small
    <3>2. Turn(q) \in Small(m) \cap Small(n)
      BY <3>1 DEF Small
    <3>3. Abs(Turn(q)[2]) \in S
      BY <3>1, <1>1
    <3> QED BY <2>1, <2>3, <3>2, <3>3
  <2> QED BY <2>2, <2>3
<1>2. \A k \in Nat : k \in S
  <2> HIDE DEF S
  <2> QED BY <1>1, Induction
<1>3. Abs(p[2]) \in Nat
  BY DEF Small, Pairs, Abs
<1> QED BY <1>2, <1>3

(* There is one for every bound,                                            *)
LEMMA LoopsExists ==
  ASSUME NEW n \in Nat
  PROVE  \E f : Loops(f, Small(n))
<1> DEFINE S == {k \in Nat : \E f : Loops(f, Small(k))}
<1>1. ASSUME NEW k \in Nat, \A l \in 0 .. k - 1 : l \in S PROVE k \in S
  <2>1. CASE k = 0
    <3>1. Small(0) = {}
      BY DEF Small, Pairs, Abs
    <3>2. Loops([p \in {} |-> 0], {})
      BY DEF Loops
    <3> QED BY <2>1, <3>1, <3>2
  <2>2. CASE k # 0
    <3>1. k - 1 \in 0 .. k - 1 /\ k - 1 \in Nat
      BY <2>2
    <3>2. PICK g : Loops(g, Small(k - 1))
      BY <1>1, <3>1
    <3> DEFINE f == [p \in Small(k) |-> IF Last(p) THEN Outcome(p) ELSE g[Turn(p)]]
    <3>3. ASSUME NEW p \in Small(k), ~Last(p) PROVE Turn(p) \in Small(k - 1)
      <4>1. p \in Pairs /\ Abs(p[2]) <= k
        BY DEF Small
      <4>2. Turn(p) \in Pairs /\ Abs(Turn(p)[2]) <= k - 1
        BY <4>1, <3>3, TurnSmaller
      <4> QED BY <4>2 DEF Small
    <3>4. ASSUME NEW p \in Small(k - 1) PROVE p \in Small(k) /\ f[p] = g[p]
      <4>1. p \in Small(k)
        BY <3>1 DEF Small, Pairs, Abs
      <4>2. g[p] = IF Last(p) THEN Outcome(p) ELSE g[Turn(p)]
        BY <3>2, Zenon DEF Loops
      <4> QED BY <4>1, <4>2
    <3>5. ASSUME NEW p \in Small(k) PROVE f[p] = IF Last(p) THEN Outcome(p) ELSE f[Turn(p)]
      BY <3>3, <3>4
    <3>6. f = [p \in Small(k) |-> f[p]]
      OBVIOUS
    <3> HIDE DEF f
    <3>7. Loops(f, Small(k))
      BY <3>5, <3>6 DEF Loops
    <3> QED BY <3>7
  <2> QED BY <2>1, <2>2
<1>2. \A k \in Nat : k \in S
  <2> HIDE DEF S
  <2> QED BY <1>1, Induction
<1> QED BY <1>2

(* so Euclid is the loop.                                                   *)
LEMMA EuclidLoops == Loops(Euclid, Pairs)
<1> DEFINE H(n) == CHOOSE f : Loops(f, Small(n))
           f == [p \in Pairs |-> H(Abs(p[2]))[p]]
<1>1. ASSUME NEW n \in Nat PROVE Loops(H(n), Small(n))
  BY LoopsExists
<1>2. ASSUME NEW p \in Pairs PROVE Abs(p[2]) \in Nat /\ p \in Small(Abs(p[2]))
  BY DEF Pairs, Small, Abs
<1> HIDE DEF H
<1>3. ASSUME NEW p \in Pairs PROVE f[p] = IF Last(p) THEN Outcome(p) ELSE f[Turn(p)]
  <2> DEFINE n == Abs(p[2])
  <2>1. Loops(H(n), Small(n)) /\ p \in Small(n) /\ n \in Nat
    BY <1>1, <1>2
  <2>2. f[p] = H(n)[p]
    OBVIOUS
  <2>3. H(n)[p] = IF Last(p) THEN Outcome(p) ELSE H(n)[Turn(p)]
    BY <2>1, Zenon DEF Loops
  <2>4. CASE Last(p)
    BY <2>2, <2>3, <2>4
  <2>5. CASE ~Last(p)
    <3> DEFINE q == Turn(p)
               m == Abs(q[2])
    <3>1. q \in Pairs /\ m \in Nat /\ m < n
      BY <2>5, TurnSmaller
    <3>2. q \in Small(m) /\ q \in Small(n) /\ Loops(H(m), Small(m))
      BY <3>1, <2>1, <1>1, <1>2 DEF Small
    <3>3. f[q] = H(m)[q]
      BY <3>1
    <3> HIDE DEF f, q, m, n
    <3>4. H(m)[q] = H(n)[q]
      BY <3>1, <3>2, <2>1, LoopsAgree
    <3> QED BY <2>2, <2>3, <2>5, <3>3, <3>4 DEF q
  <2> QED BY <2>4, <2>5
<1>4. f = [p \in Pairs |-> f[p]]
  OBVIOUS
<1> HIDE DEF f
<1>5. Loops(f, Pairs)
  BY <1>3, <1>4 DEF Loops
<1>6. \E h : h = [p \in Pairs |-> IF First(p) = 0 THEN p[2] ELSE IF Second(p) = 0 THEN First(p)
                                  ELSE h[<<First(p), Second(p)>>]]
  <2>1. \A p \in Pairs : (IF Last(p) THEN Outcome(p) ELSE f[Turn(p)])
                          = IF First(p) = 0 THEN p[2] ELSE IF Second(p) = 0 THEN First(p)
                            ELSE f[<<First(p), Second(p)>>]
    BY DEF Last, Outcome, Turn
  <2> QED BY <1>5, <2>1 DEF Loops
<1>7. Euclid = [p \in Pairs |-> IF First(p) = 0 THEN p[2] ELSE IF Second(p) = 0 THEN First(p)
                                ELSE Euclid[<<First(p), Second(p)>>]]
  BY <1>6 DEF Euclid, First, Second, Pairs
<1>8. \A p \in Pairs : (IF Last(p) THEN Outcome(p) ELSE Euclid[Turn(p)])
                        = IF First(p) = 0 THEN p[2] ELSE IF Second(p) = 0 THEN First(p)
                          ELSE Euclid[<<First(p), Second(p)>>]
  BY DEF Last, Outcome, Turn
<1> QED BY <1>7, <1>8 DEF Loops

\* g divides u and v and is a combination of them, hence a multiple of every
\* common divisor.
Bezout(g, u, v) == \E s, t \in Int : g = s * u + t * v
IsGcd(g, u, v) == g \in Int /\ Divides(g, u) /\ Divides(g, v) /\ Bezout(g, u, v)

(* Subtracting a multiple of the one from the other changes no divisor.     *)
LEMMA GcdShift ==
  ASSUME NEW u \in Int, NEW v \in Int, NEW q \in Int, NEW w \in Int, u = v * q + w, NEW g,
         IsGcd(g, w, v)
  PROVE  IsGcd(g, u, v)
<1>1. PICK a \in Int, b \in Int, s \in Int, t \in Int :
        w = g * a /\ v = g * b /\ g = s * w + t * v
  BY DEF IsGcd, Divides, Bezout
<1>2. g \in Int
  BY DEF IsGcd
<1>3. u = g * (b * q + a) /\ b * q + a \in Int
  <2>1. u = (g * b) * q + g * a
    BY <1>1
  <2> QED BY <2>1, <1>2
<1>4. g = s * u + (t - s * q) * v /\ t - s * q \in Int
  <2>1. s * u = s * (v * q) + s * w
    <3>1. v * q \in Int
      OBVIOUS
    <3> QED BY <3>1
  <2>2. (t - s * q) * v = t * v - (s * q) * v
    <3>1. s * q \in Int
      OBVIOUS
    <3> QED BY <3>1
  <2>3. s * (v * q) = (s * q) * v
    OBVIOUS
  <2> QED BY <1>1, <1>2, <2>1, <2>2, <2>3
<1> QED BY <1>1, <1>2, <1>3, <1>4 DEF IsGcd, Divides, Bezout

LEMMA GcdSwap ==
  ASSUME NEW u \in Int, NEW v \in Int, NEW g, IsGcd(g, u, v)
  PROVE  IsGcd(g, v, u)
<1>1. PICK s \in Int, t \in Int : g = s * u + t * v
  BY DEF IsGcd, Bezout
<1>2. g = t * v + s * u
  BY <1>1
<1> QED BY <1>2 DEF IsGcd, Bezout

LEMMA GcdZero ==
  ASSUME NEW v \in Int
  PROVE  IsGcd(v, 0, v)
<1>1. 0 = v * 0 /\ v = v * 1 /\ v = 0 * 0 + 1 * v
  OBVIOUS
<1> QED BY <1>1 DEF IsGcd, Divides, Bezout

(* Euclid's outcome, and its sign for the arguments that are not negative.  *)
LEMMA EuclidIsGcd ==
  ASSUME NEW u \in Int, NEW v \in Int, v # 0
  PROVE  /\ IsGcd(Euclid[<<u, v>>], u, v)
         /\ u >= 0 /\ v > 0 => Euclid[<<u, v>>] > 0
<1> DEFINE Good(p) == /\ IsGcd(Euclid[p], p[1], p[2])
                      /\ p[1] >= 0 /\ p[2] > 0 => Euclid[p] > 0
           S == {k \in Nat : \A p \in Pairs : Abs(p[2]) = k => Good(p)}
<1>1. ASSUME NEW k \in Nat, \A l \in 0 .. k - 1 : l \in S PROVE k \in S
  <2> SUFFICES ASSUME NEW p \in Pairs, Abs(p[2]) = k PROVE Good(p)
    OBVIOUS
  <2>1. p[1] \in Int /\ p[2] \in Int /\ p[2] # 0
    BY DEF Pairs
  <2>2. Euclid[p] = IF Last(p) THEN Outcome(p) ELSE Euclid[Turn(p)]
    BY EuclidLoops, Zenon DEF Loops
  <2>3. First(p) \in Int /\ (p[1] >= 0 => First(p) >= 0)
    BY <2>1, Remainder DEF First
  <2>4. PICK q \in Int : p[1] = p[2] * q + First(p)
    BY <2>1, Remainder DEF First
  <2>5. SUFFICES /\ IsGcd(Euclid[p], First(p), p[2])
                 /\ p[1] >= 0 /\ p[2] > 0 => Euclid[p] > 0
    BY <2>1, <2>3, <2>4, GcdShift
  <2>6. CASE First(p) = 0
    <3>1. Euclid[p] = p[2]
      BY <2>2, <2>6 DEF Last, Outcome
    <3> QED BY <3>1, <2>1, <2>6, GcdZero
  <2>7. CASE First(p) # 0
    <3>1. Second(p) \in Int /\ (p[2] >= 0 => Second(p) >= 0)
      BY <2>1, <2>3, <2>7, Remainder DEF Second
    <3>2. PICK t \in Int : p[2] = First(p) * t + Second(p)
      BY <2>1, <2>3, <2>7, Remainder DEF Second
    <3>3. SUFFICES /\ IsGcd(Euclid[p], First(p), Second(p))
                   /\ p[1] >= 0 /\ p[2] > 0 => Euclid[p] > 0
      <4>1. ASSUME IsGcd(Euclid[p], First(p), Second(p)) PROVE IsGcd(Euclid[p], p[2], First(p))
        BY <4>1, <2>1, <2>3, <3>1, <3>2, GcdShift, GcdSwap
      <4> QED BY <4>1, <2>1, <2>3, GcdSwap
    <3>4. CASE Second(p) = 0
      <4>1. Euclid[p] = First(p)
        BY <2>2, <2>7, <3>4 DEF Last, Outcome
      <4>2. IsGcd(First(p), First(p), 0)
        BY <2>3, GcdZero, GcdSwap
      <4> QED BY <4>1, <4>2, <2>3, <2>7, <3>4
    <3>5. CASE Second(p) # 0
      <4>1. Euclid[p] = Euclid[Turn(p)] /\ ~Last(p)
        BY <2>2, <2>7, <3>5 DEF Last
      <4>2. /\ Turn(p) \in Pairs /\ Turn(p)[1] = First(p) /\ Turn(p)[2] = Second(p)
            /\ Abs(Turn(p)[2]) \in 0 .. k - 1
        BY <4>1, TurnSmaller
      <4>3. Good(Turn(p))
        BY <4>2, <1>1
      <4>4. /\ IsGcd(Euclid[Turn(p)], First(p), Second(p))
            /\ First(p) >= 0 /\ Second(p) > 0 => Euclid[Turn(p)] > 0
        BY <4>2, <4>3
      <4>5. p[1] >= 0 /\ p[2] > 0 => First(p) >= 0 /\ Second(p) > 0
        BY <2>1, <2>3, <3>1, <3>5
      <4> QED BY <4>1, <4>4, <4>5
    <3> QED BY <3>4, <3>5
  <2> QED BY <2>6, <2>7
<1>2. \A k \in Nat : k \in S
  <2> HIDE DEF S
  <2> QED BY <1>1, Induction
<1>3. <<u, v>> \in Pairs /\ Abs(v) \in Nat /\ <<u, v>>[1] = u /\ <<u, v>>[2] = v
  BY DEF Pairs, Abs
<1>4. Good(<<u, v>>)
  BY <1>2, <1>3
<1> QED BY <1>3, <1>4

------------------------------------------------------------------------------
(* Lowest terms.                                                            *)

(* What is left of two numbers after a division by their greatest common    *)
(* divisor has no divisor in common.                                        *)
LEMMA Reduced ==
  ASSUME NEW u \in Nat, NEW v \in Nat \ {0}, NEW g, g = Euclid[<<u, v>>]
  PROVE  /\ g \in Nat \ {0}
         /\ u \div g \in Nat /\ v \div g \in Nat \ {0}
         /\ u = g * (u \div g) /\ v = g * (v \div g)
         /\ LowestTerms(v \div g, u \div g) /\ LowestTerms(u \div g, v \div g)
<1>1. IsGcd(g, u, v) /\ g > 0
  BY EuclidIsGcd
<1>2. g \in Nat \ {0}
  BY <1>1 DEF IsGcd
<1>3. PICK a \in Int, b \in Int, s \in Int, t \in Int :
        u = g * a /\ v = g * b /\ g = s * u + t * v
  BY <1>1 DEF IsGcd, Divides, Bezout
<1>4. a = u \div g /\ b = v \div g
  BY <1>2, <1>3, DivExact
<1>5. a \in Nat /\ b \in Nat \ {0}
  <2>1. \A c \in Int : g * c >= 0 => c >= 0
    <3>1. \A c \in Int : c < 0 => g * c < 0
      BY <1>2
    <3>2. \A c \in Int : g * c \in Int
      BY <1>2
    <3> QED BY <3>1, <3>2
  <2>2. a \in Nat /\ b \in Nat
    <3>1. g * a >= 0 /\ g * b >= 0
      BY <1>3
    <3> QED BY <2>1, <3>1
  <2>3. b # 0
    BY <1>2, <1>3
  <2> QED BY <2>2, <2>3
<1>6. s * a + t * b = 1
  <2>1. g * 1 = g * (s * a + t * b)
    <3>1. s * (g * a) = g * (s * a) /\ t * (g * b) = g * (t * b)
      BY <1>2
    <3>2. s * a \in Int /\ t * b \in Int
      OBVIOUS
    <3>3. g = g * (s * a) + g * (t * b)
      BY <3>1, <1>3
    <3> QED BY <3>2, <3>3, <1>2
  <2>2. \A c, e \in Int : g * c = g * e => c = e
    BY <1>2
  <2>3. s * a + t * b \in Int
    OBVIOUS
  <2> QED BY <2>1, <2>2, <2>3
<1>7. ASSUME NEW k \in 2 .. PartMax, a % k = 0, b % k = 0 PROVE FALSE
  <2>1. k \in Nat \ {0}
    BY <1>7 DEF PartMax
  <2>2. PICK c \in Int, e \in Int : a = k * c /\ b = k * e
    BY <1>7, <1>5, <2>1, DividesMod DEF Divides
  <2>3. s * (k * c) + t * (k * e) = k * (s * c + t * e)
    <3>1. s * (k * c) = k * (s * c) /\ t * (k * e) = k * (t * e)
      BY <2>1
    <3>2. s * c \in Int /\ t * e \in Int
      OBVIOUS
    <3> QED BY <3>1, <3>2, <2>1
  <2>4. 1 = k * (s * c + t * e)
    BY <2>2, <2>3, <1>6
  <2>5. s * c + t * e \in Int
    OBVIOUS
  <2>6. Divides(k, 1)
    BY <2>4, <2>5 DEF Divides
  <2>7. Abs(k) <= Abs(1)
    BY <2>6, <2>1, DividesLeq
  <2> QED BY <2>7, <2>1, <1>7 DEF Abs
<1> QED BY <1>2, <1>3, <1>4, <1>5, <1>7 DEF LowestTerms

(* Equal fractions in lowest terms have equal parts.                        *)
LEMMA CoprimeDivides ==
  ASSUME NEW a \in Nat \ {0}, NEW b \in 1 .. PartMax, PartMax \in Nat, LowestTerms(a, b),
         NEW c \in Nat \ {0}, NEW d \in Nat \ {0}, a * d = c * b
  PROVE  Divides(b, d)
<1>1. b \in Nat \ {0}
  OBVIOUS
<1> DEFINE g == Euclid[<<a, b>>]
<1>2. IsGcd(g, a, b) /\ g > 0
  BY <1>1, EuclidIsGcd
<1> HIDE DEF g
<1>3. g \in Nat \ {0} /\ a % g = 0 /\ b % g = 0 /\ g <= b
  <2>1. g \in Nat \ {0}
    BY <1>2 DEF IsGcd
  <2>2. g <= b
    BY <1>1, <1>2, <2>1, DividesLeq DEF IsGcd, Abs
  <2> QED BY <1>1, <1>2, <2>1, <2>2, DividesMod DEF IsGcd
<1>4. g = 1
  <2>1. g \notin 2 .. PartMax
    BY <1>3 DEF LowestTerms
  <2> QED BY <2>1, <1>3
<1>5. PICK s \in Int, t \in Int : 1 = s * a + t * b
  BY <1>2, <1>4 DEF IsGcd, Bezout
<1>6. d = b * (s * c + t * d)
  <2>1. d = (s * a) * d + (t * b) * d
    <3>1. s * a \in Int /\ t * b \in Int
      BY <1>1
    <3>2. \A e, f \in Int : 1 = e + f => d = e * d + f * d
      OBVIOUS
    <3> QED BY <3>1, <3>2, <1>5
  <2>2. (s * a) * d = s * (c * b) /\ (t * b) * d = b * (t * d)
    <3>1. (s * a) * d = s * (a * d)
      OBVIOUS
    <3> QED BY <3>1
  <2>3. s * (c * b) = b * (s * c)
    OBVIOUS
  <2>4. s * c \in Int /\ t * d \in Int
    OBVIOUS
  <2> QED BY <2>1, <2>2, <2>3, <2>4, <1>1
<1>7. s * c + t * d \in Int
  OBVIOUS
<1> QED BY <1>6, <1>7 DEF Divides

LEMMA LowestUnique ==
  ASSUME NEW a \in Nat \ {0}, NEW b \in 1 .. PartMax, PartMax \in Nat, LowestTerms(a, b),
         NEW c \in Nat \ {0}, NEW d \in 1 .. PartMax, LowestTerms(c, d), a * d = c * b
  PROVE  a = c /\ b = d
<1>1. b \in Nat \ {0} /\ d \in Nat \ {0}
  OBVIOUS
<1>2. Divides(b, d)
  BY <1>1, CoprimeDivides
<1>3. Divides(d, b)
  <2>1. c * b = a * d
    OBVIOUS
  <2> QED BY <2>1, <1>1, CoprimeDivides
<1>4. b = d
  BY <1>1, <1>2, <1>3, DividesLeq DEF Abs
<1>5. \A e, f \in Int : e * d = f * d => e = f
  BY <1>1
<1> QED BY <1>4, <1>5

------------------------------------------------------------------------------
(* The word.                                                                *)

(* Its size and that of its parts are even.                                 *)
LEMMA Widths ==
  /\ PARTS \in Nat /\ PARTS >= 4
  /\ PARTS = 2 * (PARTS \div 2) /\ PARTS \div 2 \in Nat /\ PARTS \div 2 >= 2
  /\ Word \in Nat /\ Word = 2 * (Word \div 2) /\ Word \div 2 \in Nat
  /\ Word \div 2 = PARTS * (PARTS \div 2)
  /\ PARTS <= Word \div 2 - 1
  /\ MinInt = -(Word \div 2) /\ MaxInt = Word \div 2 - 1
  /\ PartMax = PARTS - 1 /\ PartMax \in Nat
<1>1. PARTS \in Nat /\ PARTS > 2 /\ Word = PARTS * PARTS /\ Word \in Nat
  BY NumbersAssumption DEF Word
<1>2. PARTS <= Word
  BY <1>1
<1>3. Word % PARTS = 0
  BY <1>1, DivExact
<1>4. PARTS % 2 = 0
  BY <1>1, <1>2, <1>3, NumbersAssumption
<1>5. PARTS = 2 * (PARTS \div 2) /\ PARTS \div 2 \in Nat
  BY <1>1, <1>4
<1> DEFINE h == PARTS \div 2
<1>6. h \in Nat /\ PARTS = 2 * h /\ h >= 2
  BY <1>1, <1>5
<1> HIDE DEF h
<1>7. Word = 2 * (PARTS * h) /\ PARTS * h \in Nat
  BY <1>1, <1>6
<1>8. Word \div 2 = PARTS * h
  BY <1>7, DivExact
<1>9. PARTS <= PARTS * h - 1
  <2>1. PARTS * h >= PARTS * 2
    BY <1>1, <1>6
  <2> QED BY <2>1, <1>1, <1>7
<1>10. PARTS \div 2 = h
  BY DEF h
<1> QED BY <1>1, <1>6, <1>7, <1>8, <1>9, <1>10 DEF PartMax, MinInt, MaxInt

------------------------------------------------------------------------------
(* Number objects.                                                          *)

ExactShape(v) ==
  \/ v.type = "imm_int" /\ v.num \in IntRange /\ v.den = 1 /\ v = Fixnum(v.num)
  \/ /\ v.type \in Fractions /\ v.num \in 0 .. PartMax /\ v.den \in 0 .. PartMax
     /\ v = [type |-> v.type, num |-> v.num, den |-> v.den]

LEMMA Shapes ==
  ASSUME NEW v
  PROVE  v \in ExactNumbers <=> ExactShape(v)
<1>1. ASSUME v \in ExactNumbers PROVE ExactShape(v)
  BY <1>1 DEF ExactNumbers, ExactShape, Fixnum, Rational, Fractions
<1>2. ASSUME v.type = "imm_int", v.num \in IntRange, v = Fixnum(v.num) PROVE v \in ExactNumbers
  BY <1>2 DEF ExactNumbers
<1>3. ASSUME v.type \in Fractions, v.num \in 0 .. PartMax, v.den \in 0 .. PartMax,
             v = [type |-> v.type, num |-> v.num, den |-> v.den]
      PROVE  v \in ExactNumbers
  <2>1. v = Rational(1, v.num, v.den) \/ v = Rational(-1, v.num, v.den)
    BY <1>3 DEF Rational, Fractions
  <2> QED BY <2>1, <1>3 DEF ExactNumbers
<1> QED BY <1>1, <1>2, <1>3 DEF ExactShape

\* An operand: no fraction over zero.
WellFormed(v) == v = RealNum \/ (v \in ExactNumbers /\ v.den > 0)

(* The parts of an exact operand.                                           *)
LEMMA ExactFacts ==
  ASSUME NEW v, WellFormed(v), IsExact(v)
  PROVE  /\ v \in ExactNumbers /\ v # RealNum /\ ~IsReal(v)
         /\ v.den \in 1 .. PartMax /\ v.den \in Nat \ {0}
         /\ v.num \in Int /\ Abs(v.num) \in Nat
         /\ Signum(v) \in {1, -1} /\ Signed(v) \in Int
         /\ Signed(v) = Signum(v) * Abs(v.num)
         /\ Abs(Signed(v)) = Abs(v.num)
         /\ IsInt(v) => v.den = 1 /\ Signed(v) = v.num /\ v.num \in IntRange /\ v = Fixnum(v.num)
         /\ IsFraction(v) => v.num \in 0 .. PartMax /\ Abs(v.num) = v.num
         /\ Abs(v.num) <= Word \div 2
<1>1. v # RealNum
  BY DEF IsExact, IsInt, IsFraction, RealNum, Fractions
<1>2. v \in ExactNumbers /\ v.den > 0 /\ ExactShape(v)
  BY <1>1, Shapes DEF WellFormed
<1>3. v.num \in Int /\ v.den \in 1 .. PartMax /\ v.den \in Nat \ {0}
  BY <1>2, Widths DEF ExactShape, IntRange
<1>4. Abs(v.num) \in Nat /\ (v.num >= 0 => Abs(v.num) = v.num) /\ Abs(v.num) <= Word \div 2
  BY <1>2, <1>3, Widths DEF Abs, ExactShape, IntRange
<1>5. Signum(v) \in {1, -1}
  BY DEF Signum
<1>6. Signed(v) = Signum(v) * Abs(v.num) /\ Signed(v) \in Int /\ Abs(Signed(v)) = Abs(v.num)
  BY <1>4, <1>5 DEF Signed, Abs
<1>7. IsInt(v) => v.den = 1 /\ Signed(v) = v.num /\ v.num \in IntRange /\ v = Fixnum(v.num)
  <2> SUFFICES ASSUME IsInt(v) PROVE v.den = 1 /\ Signed(v) = v.num /\ v.num \in IntRange /\ v = Fixnum(v.num)
    OBVIOUS
  <2>1. Signum(v) = IF v.num > 0 THEN 1 ELSE -1
    BY DEF Signum
  <2>2. Signed(v) = v.num
    BY <2>1, <1>3, <1>6 DEF Abs
  <2> QED BY <2>2, <1>2 DEF ExactShape, IsInt, Fractions
<1>8. IsFraction(v) => v.num \in 0 .. PartMax /\ Abs(v.num) = v.num
  BY <1>2, <1>3, <1>4, Widths DEF ExactShape, IsFraction, Fractions
<1>9. ~IsReal(v)
  BY <1>2 DEF ExactShape, IsReal, Fractions
<1> QED BY <1>1, <1>2, <1>3, <1>4, <1>5, <1>6, <1>7, <1>8, <1>9

(* The value of an integer, and of a fraction.                              *)
LEMMA SignedFixnum ==
  ASSUME NEW i \in Int
  PROVE  /\ Signed(Fixnum(i)) = i /\ Fixnum(i).num = i /\ Fixnum(i).den = 1
         /\ IsInt(Fixnum(i)) /\ IsExact(Fixnum(i)) /\ ~IsFraction(Fixnum(i))
<1>1. /\ Fixnum(i).num = i /\ Fixnum(i).den = 1 /\ Fixnum(i).type = "imm_int"
      /\ IsInt(Fixnum(i)) /\ IsExact(Fixnum(i)) /\ ~IsFraction(Fixnum(i))
  BY DEF Fixnum, IsInt, IsExact, IsFraction, Fractions
<1>2. Signum(Fixnum(i)) = IF i > 0 THEN 1 ELSE -1
  BY <1>1 DEF Signum
<1> QED BY <1>1, <1>2 DEF Signed, Abs

LEMMA SignedRational ==
  ASSUME NEW s \in {1, -1}, NEW n \in Nat, NEW d
  PROVE  LET z == Rational(s, n, d)
         IN  /\ Signed(z) = s * n /\ z.num = n /\ z.den = d /\ Signum(z) = s
             /\ IsFraction(z) /\ IsExact(z) /\ ~IsInt(z)
<1> DEFINE z == Rational(s, n, d)
<1>1. /\ z.num = n /\ z.den = d /\ z.type = (IF s > 0 THEN "rational_pos" ELSE "rational_neg")
  BY DEF Rational
<1>2. IsFraction(z) /\ IsExact(z) /\ ~IsInt(z)
  BY <1>1 DEF IsExact, IsInt, IsFraction, Fractions
<1>3. Signum(z) = s
  BY <1>1 DEF Signum, IsInt
<1> QED BY <1>1, <1>2, <1>3 DEF Signed, Abs

(* A fixnum and a fraction that are operands.                               *)
LEMMA FixnumWellFormed ==
  ASSUME NEW i \in IntRange
  PROVE  WellFormed(Fixnum(i))
BY SignedFixnum DEF WellFormed, ExactNumbers, IntRange, Fixnum

LEMMA RationalWellFormed ==
  ASSUME NEW s \in {1, -1}, NEW n \in 0 .. PartMax, NEW d \in 1 .. PartMax
  PROVE  WellFormed(Rational(s, n, d))
<1>1. d \in 0 .. PartMax /\ d > 0
  BY Widths
<1>2. Rational(s, n, d) \in ExactNumbers
  BY <1>1 DEF ExactNumbers
<1> QED BY <1>1, <1>2 DEF WellFormed, Rational

(* Neither a stop nor an answer is a number.                                *)
LEMMA NotNumbers ==
  ASSUME NEW z, z \in Stops \cup Unknown \cup {Nothing}
  PROVE  ~IsNumber(z)
<1>1. ASSUME z \in Stops PROVE z.type \notin {"imm_int", "rational_pos", "rational_neg", "real"}
  BY <1>1 DEF Stops, Stop
<1>2. ASSUME z \in Unknown \cup {Nothing}
      PROVE  z.type \notin {"imm_int", "rational_pos", "rational_neg", "real"}
  BY <1>2 DEF Unknown, Bool, Nothing
<1> QED BY <1>1, <1>2 DEF IsNumber, IsExact, IsInt, IsFraction, IsReal, Fractions

------------------------------------------------------------------------------
(* Packing a result.                                                        *)

\* z is a number equal to n/d, in lowest terms.
ValueOf(z, n, d) == /\ Signed(z) * d = n * z.den
                    /\ IsFraction(z) => z.den > 1 /\ LowestTerms(z.num, z.den)

(* Parts that fit are packed as they are.                                   *)
LEMMA PackFits ==
  ASSUME NEW s \in {1, -1}, NEW n \in 0 .. PartMax, NEW d \in 1 .. PartMax
  PROVE  /\ WellFormed(Pack(s, n, d))
         /\ LowestTerms(n, d) => ValueOf(Pack(s, n, d), s * n, d)
<1>1. n % PARTS = n /\ d % PARTS = d /\ ~(d < 0) /\ n \in Nat /\ d \in Nat
  BY Widths
<1>2. Pack(s, n, d) = IF d = 1 THEN Fixnum(s * n) ELSE Rational(s, n, d)
  BY <1>1 DEF Pack
<1>3. CASE d = 1
  <2>1. s * n \in IntRange /\ s * n \in Int
    BY Widths DEF IntRange
  <2> QED BY <1>2, <1>3, <2>1, FixnumWellFormed, SignedFixnum DEF ValueOf
<1>4. CASE d # 1
  <2>1. Signed(Rational(s, n, d)) = s * n /\ Rational(s, n, d).num = n /\ Rational(s, n, d).den = d
    BY <1>1, SignedRational
  <2> QED BY <1>1, <1>2, <1>4, <2>1, RationalWellFormed DEF ValueOf
<1> QED BY <1>3, <1>4

(* A quotient reduced by Euclid's divisor is the exact one or does not fit. *)
LEMMA SimplifyExact ==
  ASSUME NEW s \in {1, -1}, NEW n \in Nat, NEW d \in Nat \ {0}, NEW g \in CommonDivisors(d, n)
  PROVE  LET z == Simplify(s, n, d, g)
         IN  /\ WellFormed(z) \/ z = Stop("trap")
             /\ IsExact(z) => ValueOf(z, s * n, d)
<1> DEFINE z == Simplify(s, n, d, g)
<1> SUFFICES /\ WellFormed(z) \/ z = Stop("trap")
             /\ IsExact(z) => ValueOf(z, s * n, d)
  OBVIOUS
<1>1. CASE g = 0
  <2>1. z = Stop("trap")
    BY <1>1 DEF Simplify
  <2>2. ~IsExact(Stop("trap"))
    BY DEF Stop, IsExact, IsInt, IsFraction, Fractions
  <2> QED BY <2>1, <2>2
<1>2. ASSUME NEW n1 \in Nat, NEW d1 \in Nat \ {0}, LowestTerms(n1, d1),
             n * d1 = n1 * d, CDiv(n, g) = n1, CDiv(d, g) = d1, g # 0
      PROVE  /\ WellFormed(z) \/ z = Stop("trap")
             /\ IsExact(z) => ValueOf(z, s * n, d)
  <2>1. CASE n1 \in 0 .. PartMax /\ d1 \in 1 .. PartMax
    <3>1. z = Pack(s, n1, d1)
      BY <1>2, <2>1, Widths DEF Simplify, only_16_bit_signed
    <3>2. WellFormed(z) /\ ValueOf(z, s * n1, d1)
      BY <1>2, <2>1, <3>1, PackFits
    <3>3. ASSUME IsExact(z) PROVE ValueOf(z, s * n, d)
      <4>1. Signed(z) \in Int /\ z.den \in Int
        BY <3>2, <3>3, ExactFacts
      <4> DEFINE S == Signed(z)
                 e == z.den
      <4>2. S * d1 = (s * n1) * e /\ S \in Int /\ e \in Int
        BY <4>1, <3>2 DEF ValueOf
      <4> HIDE DEF S, e, z
      <4>3. (S * d) * d1 = ((s * n) * e) * d1
        <5>1. (S * d) * d1 = (S * d1) * d
          BY <4>2
        <5>2. ((s * n1) * e) * d = (s * e) * (n1 * d)
          BY <4>2
        <5>3. (s * e) * (n * d1) = ((s * n) * e) * d1
          BY <4>2
        <5> QED BY <5>1, <5>2, <5>3, <4>2, <1>2
      <4>4. \A a, b \in Int : a * d1 = b * d1 => a = b
        BY <1>2
      <4>5. S * d \in Int /\ (s * n) * e \in Int
        BY <4>2
      <4>6. S * d = (s * n) * e
        BY <4>3, <4>4, <4>5
      <4> QED BY <3>2, <4>6 DEF ValueOf, S, e
    <3> QED BY <3>2, <3>3
  <2>2. CASE ~(n1 \in 0 .. PartMax /\ d1 \in 1 .. PartMax)
    <3>1. z = RealNum
      BY <1>2, <2>2, Widths DEF Simplify, only_16_bit_signed
    <3>2. ~IsExact(RealNum) /\ WellFormed(RealNum)
      BY DEF RealNum, IsExact, IsInt, IsFraction, Fractions, WellFormed
    <3> QED BY <3>1, <3>2
  <2> QED BY <2>1, <2>2
<1>3. CASE g # 0 /\ n = 0
  <2>1. g = d
    BY <1>3 DEF CommonDivisors
  <2>2. CDiv(n, g) = 0 /\ CDiv(d, g) = 1
    BY <2>1, <1>3 DEF CDiv, Abs
  <2>3. LowestTerms(0, 1)
    BY Widths DEF LowestTerms
  <2>4. n * 1 = 0 * d
    BY <1>3
  <2> HIDE DEF z
  <2> QED BY <1>2, <1>3, <2>2, <2>3, <2>4
<1>4. CASE g # 0 /\ n # 0
  <2>1. g = Euclid[<<d, n>>]
    BY <1>4 DEF CommonDivisors
  <2> DEFINE n1 == n \div g
             d1 == d \div g
  <2>2. /\ g \in Nat \ {0} /\ d1 \in Nat /\ n1 \in Nat \ {0} /\ d = g * d1 /\ n = g * n1
        /\ LowestTerms(n1, d1)
    BY <1>4, <2>1, Reduced
  <2>3. CDiv(n, g) = n1 /\ CDiv(d, g) = d1
    BY <2>2, <1>4 DEF CDiv, Abs
  <2> HIDE DEF n1, d1, z
  <2>4. n * d1 = n1 * d
    <3>1. (g * n1) * d1 = n1 * (g * d1)
      BY <2>2
    <3> QED BY <3>1, <2>2
  <2>5. d1 # 0
    BY <2>2
  <2> QED BY <1>2, <1>4, <2>2, <2>3, <2>4, <2>5
<1> QED BY <1>1, <1>3, <1>4

------------------------------------------------------------------------------
(* The sum of two fractions: gcd takes its arguments as imm_int_t.          *)

(* An integer that fits is kept; another loses a multiple of a word.        *)
LEMMA WrapFits ==
  ASSUME NEW i \in IntRange
  PROVE  Wrap(i) = i
<1> DEFINE W == Word
           M == Word \div 2
<1>1. W \in Nat /\ M \in Nat /\ W = 2 * M /\ MinInt = -M /\ MaxInt = M - 1
  BY Widths
<1> HIDE DEF W, M
<1>2. i \in Int /\ i + M \in 0 .. W - 1
  BY <1>1 DEF IntRange
<1>3. (i + M) % W = i + M
  BY <1>1, <1>2
<1>4. i - MinInt = i + M
  BY <1>1, <1>2
<1>5. Wrap(i) = ((i - MinInt) % W) + MinInt
  BY DEF Wrap, W
<1> QED BY <1>1, <1>2, <1>3, <1>4, <1>5

LEMMA WrapShift ==
  ASSUME NEW i \in Int
  PROVE  Wrap(i) \in IntRange /\ Divides(Word, i - Wrap(i))
<1> DEFINE W == Word
           M == Word \div 2
<1>1. W \in Nat \ {0} /\ M \in Nat /\ W = 2 * M /\ MinInt = -M /\ MaxInt = M - 1
  BY Widths
<1> HIDE DEF W, M
<1>2. i - MinInt \in Int /\ i - MinInt = i + M
  BY <1>1
<1> DEFINE j == i - MinInt
           m == j % W
           q == j \div W
<1>3. q \in Int /\ m \in 0 .. W - 1 /\ j = W * q + m
  BY <1>1, <1>2, DivMod
<1>4. Wrap(i) = m + MinInt
  BY DEF Wrap, W
<1> HIDE DEF q, m
<1>5. Wrap(i) \in IntRange
  BY <1>1, <1>3, <1>4 DEF IntRange
<1>6. W * q \in Int
  BY <1>1, <1>3
<1>7. i - Wrap(i) = W * q
  BY <1>1, <1>2, <1>3, <1>4, <1>6
<1> QED BY <1>3, <1>5, <1>7 DEF Divides, W

(* gcd's argument.                                                          *)
Argument(i) == Wrap(Abs(Wrap(i)))

LEMMA ArgumentFacts ==
  ASSUME NEW i \in Nat
  PROVE  LET M == Word \div 2
         IN  /\ Argument(i) = i \/ i >= M
             /\ Argument(i) \in -M .. M - 1
             /\ Argument(i) < 0 => Argument(i) = -M
             /\ Divides(Word, i - Argument(i)) \/ Divides(Word, i + Argument(i))
             /\ i < Word => Abs(Argument(i)) <= i
             /\ i < Word /\ i # 0 => Argument(i) # 0
             /\ i < Word /\ Argument(i) < 0 => i = M
<1> DEFINE M == Word \div 2
           w == Wrap(i)
           A == Argument(i)
<1>1. M \in Nat /\ Word = 2 * M /\ MinInt = -M /\ MaxInt = M - 1 /\ M > 0
  BY Widths
<1>2. w \in -M .. M - 1 /\ Divides(Word, i - w)
  BY <1>1, WrapShift DEF IntRange
<1>3. i < M => w = i
  BY <1>1, WrapFits DEF IntRange
<1>4. A = IF w = -M THEN -M ELSE Abs(w)
  <2>1. CASE w = -M
    <3>1. Abs(w) = M
      BY <1>1, <2>1 DEF Abs
    <3>2. Wrap(M) \in -M .. M - 1 /\ Divides(2 * M, M - Wrap(M))
      BY <1>1, WrapShift DEF IntRange
    <3> HIDE DEF M
    <3>3. PICK q \in Int : M - Wrap(M) = (2 * M) * q
      BY <3>2 DEF Divides
    <3>4. (2 * M) * q \in 1 .. 2 * M
      BY <1>1, <3>2, <3>3
    <3>5. q = 1
      <4>1. q > 0
        <5>1. q <= 0 => (2 * M) * q <= 0
          BY <1>1
        <5> QED BY <5>1, <3>4, <1>1
      <4>2. q >= 2 => (2 * M) * q >= (2 * M) * 2
        BY <1>1
      <4> QED BY <4>1, <4>2, <3>4, <1>1
    <3>6. Wrap(M) = -M
      BY <1>1, <3>2, <3>3, <3>5
    <3> QED BY <2>1, <3>1, <3>6 DEF Argument
  <2>2. CASE w # -M
    <3>1. Abs(w) \in IntRange
      BY <1>1, <1>2, <2>2 DEF Abs, IntRange
    <3> QED BY <2>2, <3>1, WrapFits DEF Argument
  <2> QED BY <2>1, <2>2
<1>5. A \in -M .. M - 1 /\ (A < 0 => A = -M) /\ (A = w \/ A = -w)
  BY <1>1, <1>2, <1>4 DEF Abs
<1>6. A = i \/ i >= M
  BY <1>3, <1>4, <1>1 DEF Abs
<1>7. Divides(Word, i - A) \/ Divides(Word, i + A)
  <2>1. i - w = IF A = w THEN i - A ELSE i + A
    BY <1>5, <1>2, <1>1
  <2> QED BY <1>2, <2>1
<1> HIDE DEF A, w
<1>8. ASSUME i < Word PROVE w = i \/ w = i - 2 * M
  <2>1. PICK q \in Int : i - w = (2 * M) * q
    BY <1>1, <1>2 DEF Divides
  <2> HIDE DEF M
  <2>2. (2 * M) * q \in -(M - 1) .. 3 * M - 1
    BY <1>1, <1>2, <1>8, <2>1
  <2>3. q \in {0, 1}
    <3>1. q <= -1 => (2 * M) * q <= -(2 * M)
      BY <1>1
    <3>2. q >= 2 => (2 * M) * q >= (2 * M) * 2
      BY <1>1
    <3> QED BY <3>1, <3>2, <2>2, <1>1
  <2> QED BY <1>1, <1>2, <2>1, <2>3
<1>9. ASSUME i < Word PROVE Abs(A) <= i /\ (i # 0 => A # 0) /\ (A < 0 => i = M)
  <2>1. Abs(A) = Abs(w)
    BY <1>1, <1>2, <1>5 DEF Abs
  <2>2. CASE w = i
    BY <2>1, <2>2, <1>1, <1>4, <1>2, <1>9 DEF Abs
  <2>3. CASE w # i /\ w = i - 2 * M
    <3>1. i >= M
      BY <1>1, <1>3, <2>3
    <3> HIDE DEF M
    <3>2. Abs(w) = 2 * M - i
      BY <1>1, <1>2, <1>9, <2>3 DEF Abs
    <3>3. A = IF i = M THEN -M ELSE 2 * M - i
      BY <1>1, <1>2, <1>4, <2>3, <3>1, <3>2
    <3> QED BY <1>1, <1>9, <2>1, <3>1, <3>2, <3>3
  <2> QED BY <1>8, <1>9, <2>2, <2>3
<1> QED BY <1>5, <1>6, <1>7, <1>9 DEF A

(* A word and a part are powers of two: their divisors are even, or 1, and  *)
(* the smaller one of two such numbers divides the other.                   *)
Even(a) == \A k \in Nat : k >= 2 /\ Divides(k, a) => Divides(2, k)

LEMMA DividesTrans ==
  ASSUME NEW a \in Int, NEW b \in Int, NEW c \in Int, Divides(a, b), Divides(b, c)
  PROVE  Divides(a, c)
<1>1. PICK q \in Int, t \in Int : b = a * q /\ c = b * t
  BY DEF Divides
<1>2. c = a * (q * t) /\ q * t \in Int
  BY <1>1
<1> QED BY <1>2 DEF Divides

LEMMA WordEven ==
  /\ Even(Word) /\ Divides(PARTS, Word) /\ Divides(Word \div 2, Word)
<1>1. Word \in Nat /\ Word = PARTS * PARTS /\ PARTS \in Nat \ {0} /\ Word # 0
  BY Widths, NumbersAssumption DEF Word
<1>2. ASSUME NEW k \in Nat, k >= 2, Divides(k, Word) PROVE Divides(2, k)
  <2>1. k <= Word
    BY <1>1, <1>2, DividesLeq DEF Abs
  <2>2. Word % k = 0
    BY <1>1, <1>2, DividesMod
  <2>3. k % 2 = 0
    BY <1>1, <1>2, <2>1, <2>2, NumbersAssumption
  <2> QED BY <2>3, DividesMod
<1>3. Divides(Word \div 2, Word)
  <2>1. Word = (Word \div 2) * 2
    BY Widths
  <2> QED BY <2>1 DEF Divides
<1> QED BY <1>1, <1>2, <1>3 DEF Even, Divides

LEMMA EvenDivisor ==
  ASSUME NEW a \in Nat, Divides(a, Word)
  PROVE  Even(a)
<1>1. Word \in Int
  BY Widths
<1>2. ASSUME NEW k \in Nat, k >= 2, Divides(k, a) PROVE Divides(2, k)
  <2>1. Divides(k, Word)
    BY <1>1, <1>2, DividesTrans
  <2> QED BY <1>2, <2>1, WordEven DEF Even
<1> QED BY <1>2 DEF Even

LEMMA EvenHalf ==
  ASSUME NEW a \in Nat, a >= 2, Even(a)
  PROVE  \E h \in Nat \ {0} : a = 2 * h /\ h < a /\ Even(h)
<1>1. Divides(a, a)
  <2>1. a = a * 1
    OBVIOUS
  <2> QED BY <2>1 DEF Divides
<1>2. PICK h \in Int : a = 2 * h
  BY <1>1 DEF Even, Divides
<1>3. h \in Nat \ {0} /\ h < a
  BY <1>2
<1>4. Divides(h, a)
  <2>1. a = h * 2
    BY <1>2
  <2> QED BY <2>1 DEF Divides
<1>5. Even(h)
  BY <1>3, <1>4, DividesTrans DEF Even
<1> QED BY <1>2, <1>3, <1>5

LEMMA EvenDivides ==
  ASSUME NEW a \in Nat \ {0}, NEW b \in Nat \ {0}, Even(a), Even(b), a <= b
  PROVE  Divides(a, b)
<1> DEFINE S == {k \in Nat : \A c \in Nat \ {0} : k # 0 /\ Even(k) /\ Even(c) /\ k <= c => Divides(k, c)}
<1>1. ASSUME NEW k \in Nat, \A l \in 0 .. k - 1 : l \in S PROVE k \in S
  <2> SUFFICES ASSUME NEW c \in Nat \ {0}, k # 0, Even(k), Even(c), k <= c PROVE Divides(k, c)
    OBVIOUS
  <2>1. CASE k = 1
    <3>1. c = 1 * c
      OBVIOUS
    <3> QED BY <2>1, <3>1 DEF Divides
  <2>2. CASE k >= 2
    <3>1. PICK h \in Nat \ {0} : k = 2 * h /\ h < k /\ Even(h)
      BY <2>2, EvenHalf
    <3>2. PICK e \in Nat \ {0} : c = 2 * e /\ Even(e)
      BY <2>2, EvenHalf
    <3>3. h \in S /\ h <= e
      BY <1>1, <3>1, <3>2
    <3>4. PICK q \in Int : e = h * q
      BY <3>1, <3>2, <3>3 DEF Divides
    <3>5. c = k * q
      <4>1. 2 * (h * q) = (2 * h) * q
        OBVIOUS
      <4> QED BY <4>1, <3>1, <3>2, <3>4
    <3> QED BY <3>5 DEF Divides
  <2> QED BY <2>1, <2>2
<1>2. \A k \in Nat : k \in S
  <2> HIDE DEF S
  <2> QED BY <1>1, Induction
<1> QED BY <1>2

(* A divisor of a word is a part, or at most half of one.                   *)
LEMMA WordDivisor ==
  ASSUME NEW a \in 1 .. PartMax, Divides(a, Word)
  PROVE  2 * a <= PARTS
<1>1. a \in Nat \ {0} /\ PARTS \in Nat \ {0} /\ a < PARTS
  BY Widths
<1>2. Even(a) /\ Even(PARTS)
  BY <1>1, EvenDivisor, WordEven
<1>3. Divides(a, PARTS)
  BY <1>1, <1>2, EvenDivides
<1>4. PICK q \in Int : PARTS = a * q
  BY <1>3 DEF Divides
<1>5. q >= 2
  <2>1. q <= 0 => a * q <= 0
    BY <1>1
  <2>2. q = 1 => a * q = a
    BY <1>1
  <2> QED BY <2>1, <2>2, <1>1, <1>4
<1>6. a * 2 <= a * q
  BY <1>1, <1>5
<1> QED BY <1>1, <1>4, <1>6

(* so no product of two denominators is half a word.                        *)
LEMMA DenominatorsNotHalf ==
  ASSUME NEW a \in 1 .. PartMax, NEW b \in 1 .. PartMax
  PROVE  a * b # Word \div 2 /\ a * b \in Nat \ {0} /\ a * b < Word
<1> DEFINE P == PARTS
           h == PARTS \div 2
           M == Word \div 2
<1>1. P \in Nat /\ P = 2 * h /\ h \in Nat /\ h >= 2 /\ M = P * h /\ Word = P * P /\ PartMax = P - 1
  BY Widths, NumbersAssumption DEF Word
<1> HIDE DEF P, h, M
<1>2. a \in Nat \ {0} /\ b \in Nat \ {0} /\ a <= P - 1 /\ b <= P - 1
  BY <1>1
<1>3. a * b \in Nat \ {0}
  BY <1>2
<1>4. a * b < P * P
  <2>1. a * b <= a * P
    BY <1>1, <1>2
  <2>2. a * P < P * P
    BY <1>1, <1>2
  <2> QED BY <2>1, <2>2, <1>1, <1>2
<1>5. ASSUME a * b = M PROVE FALSE
  <2>1. Word = a * (b * 2) /\ Word = b * (a * 2)
    <3>1. Word = M * 2
      BY Widths DEF M
    <3>2. (a * b) * 2 = a * (b * 2) /\ (a * b) * 2 = b * (a * 2)
      BY <1>2
    <3> QED BY <3>1, <3>2, <1>5
  <2>2. Divides(a, Word) /\ Divides(b, Word)
    BY <2>1, <1>2 DEF Divides
  <2>3. 2 * a <= P /\ 2 * b <= P
    BY <2>2, WordDivisor DEF P
  <2>4. a <= h /\ b <= h
    BY <2>3, <1>1, <1>2
  <2>5. a * b <= a * h /\ a * h <= h * h
    BY <2>4, <1>1, <1>2
  <2>6. h * h < P * h
    BY <1>1
  <2>7. a * b \in Int /\ a * h \in Int /\ h * h \in Int /\ P * h \in Int
    BY <1>1, <1>2
  <2> QED BY <2>5, <2>6, <2>7, <1>1, <1>5
<1> QED BY <1>1, <1>3, <1>4, <1>5 DEF M

(* A packed pair is an operand unless the bits of its denominator are 0.    *)
LEMMA PackWellFormed ==
  ASSUME NEW s \in {1, -1}, NEW n \in Int, NEW d \in -(PARTS) .. PartMax, d # 0, d # -(PARTS)
  PROVE  WellFormed(Pack(s, n, d))
<1>1. PARTS \in Nat \ {0} /\ PartMax = PARTS - 1
  BY Widths
<1> DEFINE num == IF d < 0 THEN PartMax ELSE n % PARTS
           den == d % PARTS
<1>2. num \in 0 .. PartMax
  <2>1. n % PARTS \in 0 .. PARTS - 1
    BY <1>1
  <2> QED BY <2>1, <1>1
<1>3. den \in 1 .. PartMax
  <2>1. CASE d > 0
    BY <2>1, <1>1
  <2>2. CASE d < 0
    <3>1. d + PARTS \in 1 .. PARTS - 1
      BY <2>2, <1>1
    <3>2. d % PARTS = d + PARTS
      BY <3>1, <1>1
    <3> QED BY <3>1, <3>2, <1>1
  <2> QED BY <2>1, <2>2
<1>4. Pack(s, n, d) = IF den = 1 THEN Fixnum(s * num) ELSE Rational(s, num, den)
  BY DEF Pack
<1> HIDE DEF num, den
<1>5. s * num \in IntRange
  BY <1>2, Widths DEF IntRange
<1> QED BY <1>2, <1>3, <1>4, <1>5, FixnumWellFormed, RationalWellFormed

(* C's quotient of a natural number.                                        *)
LEMMA CDivNat ==
  ASSUME NEW a \in Nat, NEW g \in Int \ {0}
  PROVE  /\ CDiv(a, g) = IF g > 0 THEN a \div Abs(g) ELSE -(a \div Abs(g))
         /\ a \div Abs(g) \in Nat /\ Abs(g) \in Nat \ {0}
<1>1. Abs(g) \in Nat \ {0} /\ Abs(a) = a
  BY DEF Abs
<1>2. a \div Abs(g) \in Nat
  <2> DEFINE G == Abs(g)
  <2> HIDE DEF G
  <2>1. a \div G \in Nat
    BY <1>1, DivMod DEF G
  <2> QED BY <2>1 DEF G
<1>3. (a < 0) = FALSE
  OBVIOUS
<1>4. CDiv(a, g) = IF g > 0 THEN a \div Abs(g) ELSE -(a \div Abs(g))
  BY <1>1, <1>2, <1>3 DEF CDiv
<1> QED BY <1>1, <1>2, <1>4

(* g divides the argument that stands for i, hence i, when it divides a     *)
(* word.                                                                    *)
LEMMA ArgumentDivisor ==
  ASSUME NEW i \in Nat, NEW g \in Nat \ {0}, Divides(g, Word), Divides(g, Argument(i))
  PROVE  Divides(g, i)
<1> DEFINE A == Argument(i)
<1>1. A \in Int /\ (Divides(Word, i - A) \/ Divides(Word, i + A)) /\ Word \in Int
  BY ArgumentFacts, Widths
<1> HIDE DEF A
<1>2. PICK a \in Int : A = g * a
  BY DEF Divides, A
<1>3. CASE Divides(Word, i - A)
  <2>1. PICK t \in Int : i - A = g * t
    <3>1. Divides(g, i - A)
      BY <1>1, <1>3, DividesTrans
    <3> QED BY <3>1 DEF Divides
  <2>2. i = g * (a + t) /\ a + t \in Int
    BY <1>1, <1>2, <2>1
  <2> QED BY <2>2 DEF Divides
<1>4. CASE Divides(Word, i + A)
  <2>1. PICK t \in Int : i + A = g * t
    <3>1. Divides(g, i + A)
      BY <1>1, <1>4, DividesTrans
    <3> QED BY <3>1 DEF Divides
  <2>2. i = g * (t - a) /\ t - a \in Int
    BY <1>1, <1>2, <2>1
  <2> QED BY <2>2 DEF Divides
<1> QED BY <1>1, <1>3, <1>4

(* No sum of fractions is packed with the denominator 0.                    *)
LEMMA SumPacked ==
  ASSUME NEW s \in {1, -1}, NEW a \in 1 .. PartMax, NEW b \in 1 .. PartMax, NEW n \in Nat,
         NEW d, d = a * b, NEW g \in gcd(d, n)
  PROVE  WellFormed(Simplify(s, n, d, g)) \/ Simplify(s, n, d, g) = Stop("trap")
<1> DEFINE M == Word \div 2
           U == Argument(d)
           V == Argument(n)
           G == Abs(g)
<1>1. d \in Nat \ {0} /\ d < Word /\ d # M /\ M \in Nat /\ Word = 2 * M
  BY DenominatorsNotHalf, Widths
<1>2. U \in 1 .. d
  <2>1. U # 0 /\ Abs(U) <= d /\ U \in Int /\ ~(U < 0)
    BY <1>1, ArgumentFacts
  <2> HIDE DEF U
  <2> QED BY <2>1, <1>1 DEF Abs
<1>3. V \in Int /\ (V < 0 => V = -M) /\ (V < 0 => n >= M)
  <2>1. V = n \/ n >= M
    BY ArgumentFacts
  <2>2. V \in -M .. M - 1 /\ (V < 0 => V = -M)
    BY ArgumentFacts
  <2> HIDE DEF V
  <2> QED BY <2>1, <2>2, <1>1
<1>4. g \in CommonDivisors(U, V)
  BY DEF gcd, Argument
<1> HIDE DEF U, V
<1>5. CASE g = 0
  BY <1>5 DEF Simplify
<1>6. CASE g # 0
  <2>1. g \in Int /\ Divides(g, U) /\ (V # 0 => Divides(g, V)) /\ (V >= 0 => g > 0)
    <3>1. CASE V = 0
      <4>1. g = U /\ U = U * 1
        BY <1>2, <1>4, <1>6, <3>1 DEF CommonDivisors
      <4> QED BY <4>1, <1>1, <1>2, <3>1 DEF Divides
    <3>2. CASE V # 0
      <4>1. g = Euclid[<<U, V>>]
        BY <1>4, <3>2 DEF CommonDivisors
      <4>2. IsGcd(g, U, V) /\ (U >= 0 /\ V > 0 => g > 0)
        BY <4>1, <1>1, <1>2, <1>3, <3>2, EuclidIsGcd
      <4> QED BY <4>2, <1>1, <1>2, <1>3, <3>2 DEF IsGcd
    <3> QED BY <3>1, <3>2
  <2> DEFINE d1 == d \div G
             n1 == n \div G
  <2>2. /\ G \in Nat \ {0} /\ d1 \in Nat /\ n1 \in Nat
        /\ CDiv(d, g) = (IF g > 0 THEN d1 ELSE -d1) /\ CDiv(n, g) = (IF g > 0 THEN n1 ELSE -n1)
    BY <1>1, <1>6, <2>1, CDivNat
  <2>3. G <= d
    <3>1. U \in Int /\ U # 0 /\ Abs(U) <= d
      BY <1>1, <1>2 DEF Abs
    <3>2. G <= Abs(U) /\ Abs(U) \in Int
      BY <2>1, <3>1, DividesLeq DEF Abs
    <3> HIDE DEF G
    <3> QED BY <3>1, <3>2, <2>2, <1>1
  <2>4. Divides(G, U) /\ (V # 0 => Divides(G, V))
    <3>1. \A c \in Int : Divides(g, c) => Divides(G, c)
      <4> SUFFICES ASSUME NEW c \in Int, NEW q \in Int, c = g * q PROVE Divides(G, c)
        BY DEF Divides
      <4>1. c = G * q \/ (c = G * (-q) /\ -q \in Int)
        BY <2>1 DEF Abs
      <4> QED BY <4>1 DEF Divides
    <3> QED BY <3>1, <2>1, <1>1, <1>2, <1>3
  <2>5. /\ d1 = d \div G /\ n1 = n \div G
        /\ d = G * d1 + (d % G) /\ d % G \in 0 .. G - 1
        /\ n = G * n1 + (n % G)
    <3> HIDE DEF G
    <3>1. G \in Nat \ {0} /\ d \in Int /\ n \in Int
      BY <2>2, <1>1
    <3>2. d = G * (d \div G) + (d % G) /\ d % G \in 0 .. G - 1
      BY <3>1, DivMod
    <3>3. n = G * (n \div G) + (n % G)
      BY <3>1, DivMod
    <3> QED BY <3>2, <3>3
  <2> HIDE DEF d1, n1, G
  <2>6. d1 # 0
    BY <2>2, <2>3, <2>5, <1>1
  <2>7. ASSUME only_16_bit_signed(CDiv(n, g)), only_16_bit_signed(CDiv(d, g))
        PROVE  CDiv(d, g) # -(PARTS)
    <3> SUFFICES ASSUME CDiv(d, g) = -(PARTS) PROVE FALSE
      OBVIOUS
    <3>0. g < 0 /\ d1 = PARTS
      <4>1. PARTS \in Nat \ {0}
        BY Widths
      <4>2. ~(g > 0)
        BY <4>1, <2>2
      <4>3. -d1 = -(PARTS)
        BY <4>2, <2>2
      <4> QED BY <4>1, <4>2, <4>3, <2>1, <2>2, <1>6
    <3>1. V = -M /\ n >= M /\ V # 0
      BY <3>0, <2>1, <1>3, <1>1
    <3>2. Divides(G, Word)
      <4>1. Word = V * (-2)
        BY <3>1, <1>1
      <4>2. Divides(V, Word)
        BY <4>1 DEF Divides
      <4> QED BY <4>2, <2>2, <2>4, <3>1, <1>3, <1>1, DividesTrans
    <3>3. d = G * PARTS /\ n = G * n1
      <4>1. Divides(G, d) /\ Divides(G, n)
        <5>1. /\ G \in Nat \ {0} /\ d \in Nat /\ n \in Nat
              /\ Divides(G, Argument(d)) /\ Divides(G, Argument(n))
          BY <2>2, <2>4, <3>1, <1>1 DEF U, V
        <5> QED BY <5>1, <3>2, ArgumentDivisor
      <4>2. d % G = 0 /\ n % G = 0
        BY <4>1, <2>2, <1>1, DividesMod
      <4>3. G * d1 \in Int /\ G * n1 \in Int
        BY <2>2
      <4> QED BY <4>2, <4>3, <2>2, <2>5, <3>0
    <3>4. n1 <= PARTS
      BY <3>0, <2>7, <2>2, Widths DEF only_16_bit_signed
    <3>5. G * n1 <= G * PARTS
      BY <3>4, <2>2, Widths
    <3>6. G < PARTS
      <4>1. d < PARTS * PARTS
        BY <1>1 DEF Word
      <4>2. G >= PARTS => G * PARTS >= PARTS * PARTS
        BY <2>2, Widths
      <4>3. G * PARTS \in Int /\ PARTS * PARTS \in Int
        BY <2>2, Widths
      <4> QED BY <4>1, <4>2, <4>3, <3>3, <2>2, Widths
    <3>7. 2 * G <= PARTS
      <4>1. G \in 1 .. PartMax
        BY <2>2, <3>6, Widths
      <4> QED BY <4>1, <3>2, WordDivisor
    <3>8. G * PARTS <= M
      <4>1. G <= PARTS \div 2 /\ PARTS \div 2 \in Nat /\ PARTS \in Nat /\ M = PARTS * (PARTS \div 2)
        BY <3>7, <2>2, Widths
      <4> DEFINE h == PARTS \div 2
      <4> HIDE DEF h, M
      <4>2. G <= h /\ h \in Nat /\ PARTS \in Nat /\ M = PARTS * h
        BY <4>1 DEF h
      <4>3. G * PARTS <= h * PARTS
        BY <4>2, <2>2
      <4> QED BY <4>2, <4>3
    <3>9. G * PARTS \in Int /\ G * n1 \in Int
      BY <2>2, Widths
    <3> HIDE DEF M
    <3>10. d = M
      BY <3>1, <3>3, <3>5, <3>8, <3>9, <1>1
    <3> QED BY <3>10, <1>1
  <2>8. CASE only_16_bit_signed(CDiv(n, g)) /\ only_16_bit_signed(CDiv(d, g))
    <3>1. Simplify(s, n, d, g) = Pack(s, CDiv(n, g), CDiv(d, g))
      BY <1>6, <2>8 DEF Simplify
    <3>2. CDiv(n, g) \in Int /\ CDiv(d, g) \in -(PARTS) .. PartMax /\ CDiv(d, g) # 0
      BY <2>2, <2>6, <2>8 DEF only_16_bit_signed
    <3> QED BY <3>1, <3>2, <2>7, <2>8, PackWellFormed
  <2>9. CASE ~(only_16_bit_signed(CDiv(n, g)) /\ only_16_bit_signed(CDiv(d, g)))
    BY <1>6, <2>9 DEF Simplify, WellFormed
  <2> QED BY <2>8, <2>9
<1> QED BY <1>5, <1>6

------------------------------------------------------------------------------
(* What a primitive leaves for operands that are well formed.               *)

Result(z) == WellFormed(z) \/ z \in Unknown \cup Stops

(* A number a primitive leaves is an operand again.                         *)
LEMMA ResultNumber ==
  ASSUME NEW z, Result(z)
  PROVE  /\ IsNumber(z) => WellFormed(z)
         /\ z \in ExactNumbers \cup {RealNum} \cup Unknown \cup Stops
BY NotNumbers DEF Result, WellFormed

LEMMA OperandKinds ==
  ASSUME NEW v, WellFormed(v)
  PROVE  \/ v = RealNum /\ IsReal(v) /\ ~IsExact(v)
         \/ v \in ExactNumbers /\ ~IsReal(v) /\ IsExact(v)
<1>1. CASE v = RealNum
  BY <1>1 DEF RealNum, IsReal, IsExact, IsInt, IsFraction, Fractions
<1>2. CASE v # RealNum
  <2>1. v \in ExactNumbers /\ ExactShape(v)
    BY <1>2, Shapes DEF WellFormed
  <2> QED BY <2>1 DEF ExactShape, IsReal, IsExact, IsInt, IsFraction, Fractions
<1> QED BY <1>1, <1>2

(* Results that are no number.                                              *)
LEMMA StopResults ==
  /\ \A w \in {"trap", "type", "out_of_range", "div_by_0", "shall_not_reach",
               "equal_rationals", "not_an_integer", "not_implemented"} :
       Result(Stop(w)) /\ ~IsExact(Stop(w)) /\ ~IsInt(Stop(w)) /\ Stop(w) \notin Unknown
  /\ Result(RealNum) /\ ~IsExact(RealNum) /\ ~IsInt(RealNum)
<1>1. ASSUME NEW w \in {"trap", "type", "out_of_range", "div_by_0", "shall_not_reach",
                        "equal_rationals", "not_an_integer", "not_implemented"}
      PROVE  Result(Stop(w)) /\ ~IsExact(Stop(w)) /\ ~IsInt(Stop(w)) /\ Stop(w) \notin Unknown
  <2>1. Stop(w) \in Stops
    BY DEF Stops
  <2>2. ~IsExact(Stop(w)) /\ ~IsInt(Stop(w))
    BY <2>1, NotNumbers DEF IsNumber, IsExact
  <2>3. Stop(w).den = 0 /\ \A z \in Unknown : z.den = 1
    BY DEF Stop, Unknown, Bool
  <2>4. Stop(w) \notin Unknown
    BY <2>3
  <2> QED BY <2>1, <2>2, <2>4 DEF Result
<1>2. Result(RealNum) /\ ~IsExact(RealNum) /\ ~IsInt(RealNum)
  BY DEF RealNum, Result, WellFormed, IsExact, IsInt, IsFraction, Fractions
<1> QED BY <1>1, <1>2

LEMMA IntOrRealFacts ==
  ASSUME NEW i \in Int
  PROVE  LET z == IntOrReal(i) IN WellFormed(z) /\ (IsExact(z) => z = Fixnum(i) /\ ValueOf(z, i, 1))
<1>1. CASE i \in IntRange
  <2>1. IntOrReal(i) = Fixnum(i)
    BY <1>1 DEF IntOrReal
  <2>2. ValueOf(Fixnum(i), i, 1)
    BY SignedFixnum DEF ValueOf
  <2> QED BY <1>1, <2>1, <2>2, FixnumWellFormed
<1>2. CASE i \notin IntRange
  <2>1. IntOrReal(i) = RealNum
    BY <1>2 DEF IntOrReal
  <2> QED BY <2>1, StopResults DEF WellFormed
<1> QED BY <1>1, <1>2

(* The sign and the magnitude of an integer.                                *)
LEMMA SignAndAbs ==
  ASSUME NEW n \in Int
  PROVE  /\ Abs(n) \in Nat /\ (IF n > 0 THEN 1 ELSE -1) \in {1, -1}
         /\ (IF n > 0 THEN 1 ELSE -1) * Abs(n) = n
BY DEF Abs

LEMMA AddFacts ==
  ASSUME NEW u, NEW v, WellFormed(u), WellFormed(v), NEW z \in _int_add(u, v)
  PROVE  /\ Result(z)
         /\ LET n == Signed(u) * v.den + Signed(v) * u.den
                d == u.den * v.den
            IN  IsExact(u) /\ IsExact(v) /\ IsExact(z) /\ {n, d} \subseteq (MinInt + 1) .. MaxInt
                => ValueOf(z, n, d)
<1>1. CASE IsReal(u) \/ IsReal(v)
  <2>1. z = RealNum
    BY <1>1 DEF _int_add
  <2> QED BY <2>1, StopResults
<1>2. CASE ~IsReal(u) /\ ~IsReal(v) /\ IsInt(u) /\ IsInt(v)
  <2>1. /\ u.num \in Int /\ v.num \in Int /\ u.den = 1 /\ v.den = 1
        /\ Signed(u) = u.num /\ Signed(v) = v.num
    BY <1>2, ExactFacts DEF IsExact
  <2>2. z = IntOrReal(u.num + v.num)
    BY <1>2 DEF _int_add
  <2>3. /\ Signed(u) * v.den + Signed(v) * u.den = u.num + v.num /\ u.den * v.den = 1
        /\ u.num + v.num \in Int
    BY <2>1
  <2> QED BY <2>2, <2>3, IntOrRealFacts DEF Result
<1>3. CASE ~IsReal(u) /\ ~IsReal(v) /\ ~(IsInt(u) /\ IsInt(v))
  <2>1. IsExact(u) /\ IsExact(v)
    BY <1>3, OperandKinds
  <2> DEFINE n == Signed(u) * v.den + Signed(v) * u.den
             d == u.den * v.den
             s == IF n > 0 THEN 1 ELSE -1
  <2>2. PICK g \in gcd(d, Abs(n)) : z = Simplify(s, Abs(n), d, g)
    BY <1>3 DEF _int_add
  <2>3. u.den \in 1 .. PartMax /\ v.den \in 1 .. PartMax /\ n \in Int
    <3>1. /\ u.den \in 1 .. PartMax /\ v.den \in 1 .. PartMax /\ Signed(u) \in Int /\ Signed(v) \in Int
          /\ u.den \in Int /\ v.den \in Int
      BY <2>1, ExactFacts
    <3> QED BY <3>1
  <2> HIDE DEF n
  <2>4. s \in {1, -1} /\ Abs(n) \in Nat /\ s * Abs(n) = n
    BY <2>3, SignAndAbs
  <2> HIDE DEF s
  <2>5. Result(z)
    BY <2>2, <2>3, <2>4, SumPacked, StopResults DEF Result
  <2>6. ASSUME {n, d} \subseteq (MinInt + 1) .. MaxInt, IsExact(z) PROVE ValueOf(z, n, d)
    <3>1. d \in Nat \ {0} /\ d \in IntRange
      BY <2>3, <2>6, DenominatorsNotHalf, Widths DEF IntRange
    <3> HIDE DEF d
    <3>2. Abs(n) \in IntRange
      BY <2>3, <2>6, Widths DEF Abs, IntRange
    <3>3. Abs(d) = d /\ Abs(Abs(n)) = Abs(n)
      BY <3>1, <2>4 DEF Abs
    <3>4. g \in CommonDivisors(d, Abs(n))
      BY <3>1, <3>2, <3>3, WrapFits DEF gcd
    <3>5. ValueOf(z, s * Abs(n), d)
      BY <2>2, <2>4, <2>6, <3>1, <3>4, SimplifyExact
    <3> QED BY <3>5, <2>4
  <2> QED BY <2>5, <2>6 DEF n
<1> QED BY <1>1, <1>2, <1>3

LEMMA OppositeFacts ==
  ASSUME NEW v, WellFormed(v)
  PROVE  /\ WellFormed(Opposite(v))
         /\ IsExact(Opposite(v)) => /\ IsExact(v) /\ Opposite(v).den = v.den
                                    /\ Signed(Opposite(v)) = -Signed(v)
<1>1. CASE IsReal(v) \/ v.num = MinInt
  <2>1. Opposite(v) = RealNum
    BY <1>1 DEF Opposite
  <2> QED BY <2>1, StopResults DEF WellFormed
<1>2. CASE ~(IsReal(v) \/ v.num = MinInt)
  <2>1. IsExact(v)
    BY <1>2, OperandKinds
  <2>2. CASE IsInt(v)
    <3>1. v.num \in IntRange /\ Signed(v) = v.num /\ v.den = 1
      BY <2>1, <2>2, ExactFacts
    <3>2. -v.num \in IntRange /\ v.num \in Int
      BY <3>1, <1>2, Widths DEF IntRange
    <3>3. Opposite(v) = Fixnum(-v.num)
      BY <1>2, <2>2 DEF Opposite
    <3>4. -v.num \in Int
      BY <3>2
    <3> HIDE DEF IntRange
    <3> QED BY <2>1, <3>1, <3>2, <3>3, <3>4, FixnumWellFormed, SignedFixnum
  <2>3. CASE ~IsInt(v)
    <3>1. /\ v.num \in 0 .. PartMax /\ v.den \in 1 .. PartMax /\ Signum(v) \in {1, -1}
          /\ Signed(v) = Signum(v) * v.num /\ v.num \in Nat
      BY <2>1, <2>3, ExactFacts, Widths DEF IsExact
    <3>2. Opposite(v) = Rational(-Signum(v), v.num, v.den)
      BY <1>2, <2>3 DEF Opposite
    <3>3. -Signum(v) \in {1, -1}
      BY <3>1
    <3>4. WellFormed(Opposite(v))
      BY <3>1, <3>2, <3>3, RationalWellFormed
    <3>5. Signed(Opposite(v)) = (-Signum(v)) * v.num /\ Opposite(v).den = v.den
      BY <3>1, <3>2, <3>3, SignedRational
    <3>6. (-Signum(v)) * v.num = -(Signum(v) * v.num)
      BY <3>1
    <3> QED BY <2>1, <3>1, <3>4, <3>5, <3>6
  <2> QED BY <2>2, <2>3
<1> QED BY <1>1, <1>2

LEMMA SubFacts ==
  ASSUME NEW u, NEW v, WellFormed(u), WellFormed(v), NEW z \in _int_sub(u, v)
  PROVE  /\ Result(z)
         /\ LET n == Signed(u) * v.den + -1 * Signed(v) * u.den
                d == u.den * v.den
            IN  IsExact(u) /\ IsExact(v) /\ IsExact(z) /\ {n, d} \subseteq (MinInt + 1) .. MaxInt
                => ValueOf(z, n, d)
<1> DEFINE w == Opposite(v)
<1>1. z \in _int_add(u, w)
  BY DEF _int_sub
<1>2. WellFormed(w)
  BY OppositeFacts
<1>3. Result(z)
  BY <1>1, <1>2, AddFacts
<1>4. CASE ~IsExact(w)
  <2>1. IsReal(w)
    BY <1>2, <1>4, OperandKinds
  <2>2. z = RealNum
    BY <1>1, <2>1 DEF _int_add
  <2> QED BY <1>3, <2>2, StopResults
<1>5. CASE IsExact(w) /\ IsExact(u)
  <2>1. w.den = v.den /\ Signed(w) = -Signed(v) /\ IsExact(v)
    BY <1>5, OppositeFacts
  <2>2. Signed(u) \in Int /\ Signed(v) \in Int /\ u.den \in Int /\ v.den \in Int
    BY <1>5, <2>1, ExactFacts
  <2>3. Signed(u) * v.den + -1 * Signed(v) * u.den = Signed(u) * w.den + Signed(w) * u.den
    <3>1. -1 * Signed(v) * u.den = (-Signed(v)) * u.den
      BY <2>2
    <3> QED BY <2>1, <3>1
  <2> HIDE DEF w
  <2> QED BY <1>1, <1>2, <1>3, <1>5, <2>1, <2>3, AddFacts
<1> QED BY <1>3, <1>4, <1>5

LEMMA MulFacts ==
  ASSUME NEW u, NEW v, WellFormed(u), WellFormed(v), NEW z \in _int_mul(u, v)
  PROVE  /\ Result(z)
         /\ IsExact(u) /\ IsExact(v) /\ IsExact(z)
            => ValueOf(z, Signed(u) * Signed(v), u.den * v.den)
<1>1. CASE IsReal(u) \/ IsReal(v)
  <2>1. z = RealNum
    BY <1>1 DEF _int_mul
  <2> QED BY <2>1, StopResults
<1>2. CASE ~IsReal(u) /\ ~IsReal(v) /\ IsInt(u) /\ IsInt(v)
  <2>1. /\ u.num \in Int /\ v.num \in Int /\ u.den = 1 /\ v.den = 1
        /\ Signed(u) = u.num /\ Signed(v) = v.num
    BY <1>2, ExactFacts DEF IsExact
  <2>2. z = IntOrReal(u.num * v.num)
    BY <1>2 DEF _int_mul
  <2>3. u.den * v.den = 1 /\ u.num * v.num \in Int
    BY <2>1
  <2> QED BY <2>1, <2>2, <2>3, IntOrRealFacts DEF Result
<1>3. CASE ~IsReal(u) /\ ~IsReal(v) /\ ~(IsInt(u) /\ IsInt(v))
  <2>1. IsExact(u) /\ IsExact(v)
    BY <1>3, OperandKinds
  <2> DEFINE n == Abs(u.num) * Abs(v.num)
             d == u.den * v.den
             s == Signum(u) * Signum(v)
  <2>2. PICK g \in gcd64(d, n) : z = Simplify(s, n, d, g)
    BY <1>3 DEF _int_mul
  <2>3. /\ u.den \in 1 .. PartMax /\ v.den \in 1 .. PartMax
        /\ Abs(u.num) \in Nat /\ Abs(v.num) \in Nat /\ Signum(u) \in {1, -1} /\ Signum(v) \in {1, -1}
        /\ Signed(u) = Signum(u) * Abs(u.num) /\ Signed(v) = Signum(v) * Abs(v.num)
    BY <2>1, ExactFacts
  <2>4. d \in Nat \ {0} /\ n \in Nat /\ s \in {1, -1}
    BY <2>3, DenominatorsNotHalf
  <2>5. Signed(u) * Signed(v) = s * n
    <3>1. \A a, b \in Nat : \A e, f \in {1, -1} : (e * a) * (f * b) = (e * f) * (a * b)
      OBVIOUS
    <3> QED BY <3>1, <2>3
  <2> HIDE DEF n, d, s
  <2>6. g \in CommonDivisors(d, n)
    BY <2>2, <2>4 DEF gcd64, Abs
  <2>7. /\ WellFormed(z) \/ z = Stop("trap")
        /\ IsExact(z) => ValueOf(z, s * n, d)
    BY <2>2, <2>4, <2>6, SimplifyExact
  <2> QED BY <2>5, <2>7, StopResults DEF Result, d
<1> QED BY <1>1, <1>2, <1>3

LEMMA RealQuotientFacts ==
  ASSUME NEW v, NEW z \in RealQuotient(v)
  PROVE  Result(z) /\ ~IsExact(z)
BY StopResults DEF RealQuotient, DivBy0

LEMMA DivFacts ==
  ASSUME NEW u, NEW v, WellFormed(u), WellFormed(v), NEW z \in _int_div(u, v)
  PROVE  /\ Result(z)
         /\ IsExact(u) /\ IsExact(v) /\ IsExact(z)
            /\ {Abs(u.num) * v.den, Abs(v.num) * u.den} \subseteq IntRange
            => /\ v.num # 0
               /\ Signed(z) * u.den * Signed(v) = Signed(u) * v.den * z.den
               /\ IsFraction(z) => z.den > 1 /\ LowestTerms(z.num, z.den)
<1>1. CASE IsReal(u) \/ IsReal(v) \/ MinInt \in {u.num, v.num}
  BY <1>1, RealQuotientFacts DEF _int_div
<1>2. CASE IsInt(u) /\ v = Fixnum(0) /\ ~(IsReal(u) \/ IsReal(v) \/ MinInt \in {u.num, v.num})
  <2>1. z = DivBy0
    BY <1>2 DEF _int_div
  <2> QED BY <2>1, StopResults DEF DivBy0
<1>3. CASE ~(IsInt(u) /\ v = Fixnum(0)) /\ ~(IsReal(u) \/ IsReal(v) \/ MinInt \in {u.num, v.num})
  <2>1. IsExact(u) /\ IsExact(v)
    BY <1>3, OperandKinds
  <2> DEFINE nn == Wrap(Abs(u.num) * v.den)
             dd == Wrap(u.den * Abs(v.num))
             Part(a) == a \in -PartMax .. PartMax
             Quotient(g) ==
               IF g = 0 THEN {Stop("trap")}
               ELSE IF dd = 0 THEN {DivBy0}
               ELSE IF Part(Abs(nn) \div g) /\ Part(Abs(dd) \div g)
               THEN {Pack(DivSign(u) * DivSign(v), Abs(nn) \div g, Abs(dd) \div g)}
               ELSE RealQuotient(v)
  <2>2. /\ u.den \in 1 .. PartMax /\ v.den \in 1 .. PartMax /\ u.den \in Nat \ {0} /\ v.den \in Nat \ {0}
        /\ u.num \in Int /\ v.num \in Int /\ Signed(u) \in Int /\ Signed(v) \in Int
        /\ Abs(u.num) \in Nat /\ Abs(v.num) \in Nat /\ Signum(u) \in {1, -1} /\ Signum(v) \in {1, -1}
        /\ Signed(u) = Signum(u) * Abs(u.num) /\ Signed(v) = Signum(v) * Abs(v.num)
    BY <2>1, ExactFacts
  <2> DEFINE s == DivSign(u) * DivSign(v)
  <2>3. /\ DivSign(u) \in {1, -1} /\ DivSign(v) \in {1, -1} /\ s \in {1, -1}
        /\ Signed(u) = DivSign(u) * Abs(u.num) /\ Signed(v) = DivSign(v) * Abs(v.num)
    BY <2>2 DEF DivSign, Abs
  <2>4. Abs(u.num) * v.den \in Nat /\ u.den * Abs(v.num) \in Nat
    BY <2>2
  <2>5. nn \in Int /\ dd \in Int /\ Abs(nn) \in Nat /\ Abs(dd) \in Nat
    <3>1. nn \in IntRange /\ dd \in IntRange
      BY <2>4, WrapShift
    <3> QED BY <3>1, Widths DEF IntRange, Abs
  <2>6. CASE MinInt \in {nn, dd}
    <3>1. z = Stop("out_of_range")
      BY <1>3, <2>6 DEF _int_div
    <3> QED BY <3>1, StopResults
  <2>7. CASE MinInt \notin {nn, dd}
    <3>1. PICK g \in gcd64(nn, dd) : z \in Quotient(g)
      <4>1. _int_div(u, v) = UNION {Quotient(g) : g \in gcd64(nn, dd)}
        BY <1>3, <2>7 DEF _int_div
      <4> HIDE DEF Quotient, nn, dd
      <4> QED BY <4>1
    <3>2. CASE g = 0 \/ dd = 0
      <4>1. z = Stop("trap") \/ z = DivBy0
        BY <3>1, <3>2
      <4> QED BY <4>1, StopResults DEF DivBy0
    <3>3. CASE g # 0 /\ dd # 0
      <4> DEFINE n1 == Abs(nn) \div g
                 d1 == Abs(dd) \div g
      <4>1. Abs(dd) \in Nat \ {0}
        BY <2>5, <3>3 DEF Abs
      <4>2. g = Euclid[<<Abs(nn), Abs(dd)>>]
        BY <3>1, <4>1 DEF gcd64, CommonDivisors
      <4>3. /\ g \in Nat \ {0} /\ n1 \in Nat /\ d1 \in Nat \ {0}
            /\ Abs(nn) = g * n1 /\ Abs(dd) = g * d1 /\ LowestTerms(n1, d1)
        <5> HIDE DEF nn, dd
        <5> QED BY <2>5, <4>1, <4>2, Reduced
      <4>4. CASE ~(n1 \in 0 .. PartMax /\ d1 \in 1 .. PartMax)
        <5>1. z \in RealQuotient(v)
          BY <3>1, <3>3, <4>3, <4>4, Widths
        <5> QED BY <5>1, RealQuotientFacts
      <4>5. CASE n1 \in 0 .. PartMax /\ d1 \in 1 .. PartMax
        <5>1. n1 \in -PartMax .. PartMax /\ d1 \in -PartMax .. PartMax
          BY <4>5, Widths
        <5>2. z = Pack(s, n1, d1)
          BY <3>1, <3>3, <5>1
        <5> HIDE DEF n1, d1, s
        <5>3. WellFormed(z) /\ ValueOf(z, s * n1, d1)
          BY <2>3, <4>3, <4>5, <5>2, PackFits
        <5>4. ASSUME {Abs(u.num) * v.den, Abs(v.num) * u.den} \subseteq IntRange, IsExact(z)
              PROVE  /\ v.num # 0
                     /\ Signed(z) * u.den * Signed(v) = Signed(u) * v.den * z.den
                     /\ IsFraction(z) => z.den > 1 /\ LowestTerms(z.num, z.den)
          <6>1. u.den * Abs(v.num) = Abs(v.num) * u.den
            BY <2>2
          <6>2. nn = Abs(u.num) * v.den /\ dd = u.den * Abs(v.num)
            BY <5>4, <6>1, WrapFits
          <6>3. Abs(nn) = nn /\ Abs(dd) = dd
            BY <6>2, <2>4 DEF Abs
          <6>4. v.num # 0
            BY <3>3, <6>2, <2>2 DEF Abs
          <6>5. Signed(z) \in Int /\ z.den \in Int
            BY <5>3, <5>4, ExactFacts
          <6> DEFINE Z == Signed(z)
                     e == z.den
                     a == Abs(u.num)
                     b == Abs(v.num)
                     su == DivSign(u)
                     sv == DivSign(v)
          <6>6. /\ Z \in Int /\ e \in Int /\ a \in Nat /\ b \in Nat /\ su \in {1, -1} /\ sv \in {1, -1}
                /\ Signed(u) = su * a /\ Signed(v) = sv * b /\ s = su * sv
                /\ Z * d1 = (s * n1) * e /\ a * v.den = g * n1 /\ u.den * b = g * d1
            BY <6>5, <5>3, <2>2, <2>3, <4>3, <6>2, <6>3 DEF ValueOf, s
          <6> HIDE DEF Z, e, a, b, su, sv, nn, dd
          <6>7. Z * u.den * Signed(v) = Signed(u) * v.den * e
            <7>1. Z * u.den * (sv * b) = sv * (Z * (u.den * b))
              BY <6>6, <2>2
            <7>2. Z * (g * d1) = g * (Z * d1)
              BY <6>6, <4>3
            <7>3. sv * (g * (((su * sv) * n1) * e)) = (sv * sv) * (su * ((g * n1) * e))
              BY <6>6, <4>3
            <7>4. (sv * sv) * (su * ((g * n1) * e)) = su * ((g * n1) * e)
              <8>1. sv * sv = 1
                BY <6>6
              <8>2. su * ((g * n1) * e) \in Int
                BY <6>6, <4>3
              <8> QED BY <8>1, <8>2
            <7>5. su * ((a * v.den) * e) = (su * a) * v.den * e
              BY <6>6, <2>2
            <7> QED BY <7>1, <7>2, <7>3, <7>4, <7>5, <6>6
          <6> QED BY <6>4, <6>7, <5>3 DEF Z, e, ValueOf
        <5> QED BY <5>3, <5>4 DEF Result
      <4> QED BY <4>4, <4>5
    <3> QED BY <3>2, <3>3
  <2> QED BY <2>6, <2>7
<1> QED BY <1>1, <1>2, <1>3

\* r1 is a - b * q, smaller than b, of the sign of c.
Residue(r1, a, b, c) == /\ (a - r1) % Abs(b) = 0 /\ Abs(r1) < Abs(b)
                        /\ IF c < 0 THEN r1 <= 0 ELSE r1 >= 0

LEMMA ResidueIs ==
  ASSUME NEW a \in Int, NEW b \in Int \ {0}, NEW c, NEW r1 \in Int, NEW q \in Int,
         a = b * q + r1, Abs(r1) < Abs(b), IF c < 0 THEN r1 <= 0 ELSE r1 >= 0
  PROVE  Residue(r1, a, b, c)
<1>1. Abs(b) \in Nat \ {0}
  BY DEF Abs
<1>2. a - r1 = Abs(b) * q \/ a - r1 = Abs(b) * (-q)
  <2>1. b * q \in Int
    OBVIOUS
  <2>2. a - r1 = b * q
    BY <2>1
  <2> QED BY <2>2 DEF Abs
<1>3. Divides(Abs(b), a - r1)
  BY <1>2 DEF Divides
<1>4. (a - r1) % Abs(b) = 0
  BY <1>1, <1>3, DividesMod
<1> QED BY <1>4 DEF Residue

LEMMA RemainderFacts ==
  ASSUME NEW u, NEW v, WellFormed(u), WellFormed(v), NEW z \in _int_remainder(u, v)
  PROVE  /\ Result(z)
         /\ IsInt(z) /\ v.num # 0 => Residue(z.num, u.num, v.num, u.num)
<1>1. CASE ~(IsInt(u) /\ IsInt(v))
  <2>1. z = Stop("type")
    BY <1>1 DEF _int_remainder, BothInt
  <2> QED BY <2>1, StopResults
<1>2. CASE IsInt(u) /\ IsInt(v)
  <2> DEFINE a == u.num
             b == v.num
  <2>1. a \in IntRange /\ b \in IntRange /\ a \in Int /\ b \in Int
    BY <1>2, ExactFacts DEF IsExact
  <2>2. z = Stop("trap") \/ \E m \in Remainders(a, b) : z = Fixnum(m)
    BY <1>2 DEF _int_remainder, BothInt, Traps
  <2>3. CASE z = Stop("trap")
    BY <2>3, StopResults
  <2>4. ASSUME NEW m \in Remainders(a, b), z = Fixnum(m)
        PROVE  /\ Result(z)
               /\ IsInt(z) /\ b # 0 => Residue(z.num, a, b, a)
    <3>1. CASE b = 0
      <4>1. m = a
        BY <3>1 DEF Remainders
      <4> QED BY <2>1, <2>4, <3>1, <4>1, FixnumWellFormed DEF Result
    <3>2. CASE b # 0
      <4>1. m = CRem(a, b)
        BY <3>2 DEF Remainders
      <4> HIDE DEF a, b
      <4>2. /\ m \in Int /\ Abs(m) < Abs(b) /\ \E q \in Int : a = b * q + m
            /\ (a >= 0 => m >= 0) /\ (a <= 0 => m <= 0) /\ Abs(m) <= Abs(a)
        BY <2>1, <3>2, <4>1, Remainder
      <4>3. m \in IntRange
        BY <4>2, <2>1, Widths DEF IntRange, Abs
      <4>4. Residue(m, a, b, a)
        <5>1. PICK q \in Int : a = b * q + m
          BY <4>2
        <5>2. IF a < 0 THEN m <= 0 ELSE m >= 0
          BY <2>1, <4>2
        <5> QED BY <2>1, <3>2, <4>2, <5>1, <5>2, ResidueIs
      <4> QED BY <2>4, <4>2, <4>3, <4>4, FixnumWellFormed, SignedFixnum DEF Result
    <3> QED BY <3>1, <3>2
  <2> QED BY <2>2, <2>3, <2>4
<1> QED BY <1>1, <1>2

LEMMA ModuloFacts ==
  ASSUME NEW u, NEW v, WellFormed(u), WellFormed(v), NEW z \in _int_modulo(u, v)
  PROVE  /\ Result(z)
         /\ IsInt(z) /\ v.num # 0 => Residue(z.num, u.num, v.num, v.num)
<1>1. CASE ~(IsInt(u) /\ IsInt(v))
  <2>1. z = Stop("type")
    BY <1>1 DEF _int_modulo, BothInt
  <2> QED BY <2>1, StopResults
<1>2. CASE IsInt(u) /\ IsInt(v)
  <2> DEFINE a == u.num
             b == v.num
             Adjust(m) == IF b < 0 THEN IF m <= 0 THEN m ELSE m + b
                          ELSE IF m >= 0 THEN m ELSE m + b
  <2>1. a \in IntRange /\ b \in IntRange /\ a \in Int /\ b \in Int
    BY <1>2, ExactFacts DEF IsExact
  <2>2. z = Stop("trap") \/ \E m \in Remainders(a, b) : z = Fixnum(Adjust(m))
    BY <1>2 DEF _int_modulo, BothInt, Traps
  <2>3. CASE z = Stop("trap")
    BY <2>3, StopResults
  <2>4. ASSUME NEW m \in Remainders(a, b), z = Fixnum(Adjust(m))
        PROVE  /\ Result(z)
               /\ IsInt(z) /\ b # 0 => Residue(z.num, a, b, b)
    <3>1. CASE b = 0
      <4>1. m = a
        BY <3>1 DEF Remainders
      <4>2. Adjust(m) = a
        BY <2>1, <3>1, <4>1
      <4> QED BY <2>1, <2>4, <3>1, <4>2, FixnumWellFormed DEF Result
    <3>2. CASE b # 0
      <4>1. m = CRem(a, b)
        BY <3>2 DEF Remainders
      <4> HIDE DEF a, b
      <4>2. m \in Int /\ Abs(m) < Abs(b) /\ Abs(m) <= Abs(a)
        BY <2>1, <3>2, <4>1, Remainder
      <4>3. PICK q \in Int : a = b * q + m
        BY <2>1, <3>2, <4>1, Remainder
      <4> DEFINE t == Adjust(m)
      <4>4. /\ t \in Int /\ Abs(t) < Abs(b) /\ (IF b < 0 THEN t <= 0 ELSE t >= 0)
            /\ t = m \/ t = m + b
        BY <2>1, <3>2, <4>2 DEF Abs
      <4>5. t \in IntRange
        <5>1. t = m \/ Abs(t) <= Abs(b)
          BY <4>4, <2>1 DEF Abs
        <5> HIDE DEF t
        <5> QED BY <4>2, <4>4, <5>1, <2>1, Widths DEF IntRange, Abs
      <4> HIDE DEF t
      <4>6. \E p \in Int : a = b * p + t
        <5>1. CASE t = m
          BY <4>3, <5>1
        <5>2. CASE t = m + b
          <6>1. a = b * (q - 1) + t /\ q - 1 \in Int
            BY <2>1, <4>2, <4>3, <5>2
          <6> QED BY <6>1
        <5> QED BY <4>4, <5>1, <5>2
      <4>7. Residue(t, a, b, b)
        BY <2>1, <3>2, <4>4, <4>6, ResidueIs
      <4>8. z = Fixnum(t)
        BY <2>4 DEF t
      <4> QED BY <4>4, <4>5, <4>7, <4>8, FixnumWellFormed, SignedFixnum DEF Result
    <3> QED BY <3>1, <3>2
  <2> QED BY <2>2, <2>3, <2>4
<1> QED BY <1>1, <1>2

------------------------------------------------------------------------------
(* Comparisons.                                                             *)

(* Two answers are one when they say the same.                              *)
LEMMA Answers ==
  ASSUME NEW a \in BOOLEAN, NEW b \in BOOLEAN
  PROVE  /\ Bool(a) \in Unknown /\ Result(Bool(a))
         /\ (Bool(a).num = 0) = ~a /\ (Bool(a) = Bool(b)) = (a = b)
<1>1. Bool(a).num = (IF a THEN 1 ELSE 0) /\ Bool(b).num = (IF b THEN 1 ELSE 0)
  BY DEF Bool
<1>2. Bool(a) \in Unknown
  BY DEF Unknown
<1> QED BY <1>1, <1>2 DEF Result

(* An exact operand as a fraction, with its sign.                           *)
LEMMA CastFacts ==
  ASSUME NEW v, WellFormed(v), IsExact(v)
  PROVE  LET a == cast_imm_int_to_rational(v)
         IN  \/ a = Stop("out_of_range") /\ ~IsFraction(a)
             \/ /\ IsFraction(a) /\ a.num = Abs(v.num) /\ a.den = v.den
                /\ Signum(a) = Signum(v) /\ Signum(a) * a.num = Signed(v)
                /\ IsFraction(v) => a = v
<1>1. /\ v.num \in Int /\ Abs(v.num) \in Nat /\ Signum(v) \in {1, -1}
      /\ Signed(v) = Signum(v) * Abs(v.num)
  BY ExactFacts
<1>2. CASE IsFraction(v)
  <2>1. Abs(v.num) = v.num
    BY <1>2, ExactFacts
  <2> QED BY <1>1, <1>2, <2>1 DEF cast_imm_int_to_rational
<1>3. CASE ~IsFraction(v) /\ Abs(v.num) > PartMax
  <2>1. ~IsFraction(Stop("out_of_range"))
    BY StopResults DEF IsExact
  <2> QED BY <1>3, <2>1 DEF cast_imm_int_to_rational
<1>4. CASE ~IsFraction(v) /\ ~(Abs(v.num) > PartMax)
  <2>1. IsInt(v) /\ v.den = 1
    BY <1>4, ExactFacts DEF IsExact
  <2>2. Signum(v) = IF v.num > 0 THEN 1 ELSE -1
    BY <2>1 DEF Signum
  <2> DEFINE a == Rational(v.num, Abs(v.num), 1)
  <2>3. a = Rational(Signum(v), Abs(v.num), 1)
    BY <2>2, <1>1 DEF Rational
  <2>4. /\ IsFraction(a) /\ a.num = Abs(v.num) /\ a.den = 1 /\ Signum(a) = Signum(v)
        /\ Signed(a) = Signum(v) * Abs(v.num)
    BY <1>1, <2>3, SignedRational
  <2>5. cast_imm_int_to_rational(v) = a
    BY <1>4 DEF cast_imm_int_to_rational
  <2> HIDE DEF a
  <2> QED BY <1>1, <1>4, <2>1, <2>4, <2>5
<1> QED BY <1>2, <1>3, <1>4

Left(u, v) == Signed(u) * v.den
Right(u, v) == Signed(v) * u.den

LEMMA GtFacts ==
  ASSUME NEW u, NEW v, WellFormed(u), WellFormed(v), NEW z \in _int_gt(u, v)
  PROVE  /\ z \in Unknown \/ z = Stop("out_of_range")
         /\ IsExact(u) /\ IsExact(v) /\ z \in Unknown => z = Bool(Left(u, v) > Right(u, v))
<1>1. CASE IsReal(u) \/ IsReal(v)
  BY <1>1, OperandKinds DEF _int_gt
<1>2. CASE ~IsReal(u) /\ ~IsReal(v) /\ IsInt(u) /\ IsInt(v)
  <2>1. /\ u.num \in Int /\ v.num \in Int /\ u.den = 1 /\ v.den = 1
        /\ Signed(u) = u.num /\ Signed(v) = v.num
    BY <1>2, ExactFacts DEF IsExact
  <2>2. z = Bool(u.num > v.num) /\ (u.num > v.num) \in BOOLEAN
    BY <1>2, <2>1 DEF _int_gt
  <2>3. Left(u, v) = u.num /\ Right(u, v) = v.num
    BY <2>1 DEF Left, Right
  <2> QED BY <2>2, <2>3, Answers
<1>3. CASE ~IsReal(u) /\ ~IsReal(v) /\ ~(IsInt(u) /\ IsInt(v))
  <2>1. IsExact(u) /\ IsExact(v)
    BY <1>3, OperandKinds
  <2> DEFINE a == cast_imm_int_to_rational(u)
             b == cast_imm_int_to_rational(v)
  <2>2. z \in IF ~IsFraction(a) THEN {a} ELSE IF ~IsFraction(b) THEN {b}
              ELSE {Bool(Signum(a) * a.num * b.den > Signum(b) * b.num * a.den)}
    BY <1>3 DEF _int_gt
  <2>3. CASE ~IsFraction(a) \/ ~IsFraction(b)
    <3>1. z = Stop("out_of_range")
      BY <2>1, <2>2, <2>3, CastFacts
    <3> QED BY <3>1, StopResults
  <2>4. CASE IsFraction(a) /\ IsFraction(b)
    <3>1. /\ a.den = u.den /\ b.den = v.den /\ Signum(a) * a.num = Signed(u)
          /\ Signum(b) * b.num = Signed(v)
      BY <2>1, <2>4, CastFacts
    <3>2. z = Bool(Left(u, v) > Right(u, v))
      BY <2>2, <2>4, <3>1 DEF Left, Right
    <3>3. (Left(u, v) > Right(u, v)) \in BOOLEAN
      OBVIOUS
    <3> QED BY <3>2, <3>3, Answers
  <2> QED BY <2>3, <2>4
<1> QED BY <1>1, <1>2, <1>3

(* Two canonical numbers of one value are one object.                       *)
LEMMA CanonicalUnique ==
  ASSUME NEW u, NEW v, WellFormed(u), WellFormed(v), Canonical(u), Canonical(v),
         Left(u, v) = Right(u, v), IsFraction(u) \/ IsFraction(v)
  PROVE  u.num = v.num /\ u.den = v.den /\ IsFraction(u) /\ IsFraction(v)
<1> DEFINE a == Abs(u.num)
           b == u.den
           c == Abs(v.num)
           d == v.den
<1>1. /\ a \in Nat /\ b \in 1 .. PartMax /\ c \in Nat /\ d \in 1 .. PartMax
      /\ b \in Nat \ {0} /\ d \in Nat \ {0} /\ PartMax \in Nat
      /\ Signum(u) \in {1, -1} /\ Signum(v) \in {1, -1}
      /\ Signed(u) = Signum(u) * a /\ Signed(v) = Signum(v) * c
      /\ u.num \in Int /\ v.num \in Int
      /\ IsExact(u) /\ IsExact(v)
  BY ExactFacts, Widths DEF Canonical
<1>2. /\ IsFraction(u) => a = u.num /\ a > 0 /\ b > 1 /\ LowestTerms(a, b)
      /\ ~IsFraction(u) => b = 1
      /\ IsFraction(v) => c = v.num /\ c > 0 /\ d > 1 /\ LowestTerms(c, d)
      /\ ~IsFraction(v) => d = 1
  <2>1. \A w \in {u, v} : /\ IsFraction(w) => /\ Abs(w.num) = w.num /\ w.num > 0 /\ w.den > 1
                                              /\ LowestTerms(w.num, w.den)
                          /\ ~IsFraction(w) => w.den = 1
    BY <1>1, ExactFacts DEF Canonical, IsExact
  <2> QED BY <2>1
<1>3. a * d = c * b
  <2>1. (Signum(u) * a) * d = (Signum(v) * c) * b
    BY <1>1 DEF Left, Right
  <2> HIDE DEF a, b, c, d
  <2>2. (Signum(u) * a) * d = Signum(u) * (a * d) /\ (Signum(v) * c) * b = Signum(v) * (c * b)
    BY <1>1
  <2>3. a * d \in Nat /\ c * b \in Nat
    BY <1>1
  <2>4. \A e, f \in Nat : \A s, t \in {1, -1} : s * e = t * f => e = f
    OBVIOUS
  <2> QED BY <2>1, <2>2, <2>3, <2>4, <1>1
<1>4. LowestTerms(a, b) /\ LowestTerms(c, d)
  <2>1. ASSUME NEW n PROVE LowestTerms(n, 1)
    <3>1. \A k \in 2 .. PartMax : 1 % k = 1
      BY <1>1
    <3> QED BY <3>1 DEF LowestTerms
  <2> QED BY <2>1, <1>2
<1> HIDE DEF a, b, c, d
<1>5. a # 0 /\ c # 0
  <2>1. a > 0 => a * d > 0
    BY <1>1
  <2>2. c > 0 => c * b > 0
    BY <1>1
  <2>3. a = 0 => a * d = 0
    BY <1>1
  <2>4. c = 0 => c * b = 0
    BY <1>1
  <2> QED BY <2>1, <2>2, <2>3, <2>4, <1>1, <1>2, <1>3
<1>6. a = c /\ b = d
  BY <1>1, <1>3, <1>4, <1>5, LowestUnique
<1>7. IsFraction(u) /\ IsFraction(v)
  BY <1>2, <1>6
<1> QED BY <1>2, <1>6, <1>7 DEF b, d

LEMMA EqFacts ==
  ASSUME NEW u, NEW v, WellFormed(u), WellFormed(v), NEW z \in _int_eq(u, v)
  PROVE  /\ Result(z)
         /\ Canonical(u) /\ Canonical(v) /\ z \in Unknown => z = Bool(Left(u, v) = Right(u, v))
<1>1. CASE IsReal(u) \/ IsReal(v)
  BY <1>1, OperandKinds DEF _int_eq, Result, Canonical
<1>2. CASE ~IsReal(u) /\ ~IsReal(v) /\ IsInt(u) /\ IsInt(v)
  <2>1. /\ u.num \in Int /\ v.num \in Int /\ u.den = 1 /\ v.den = 1
        /\ Signed(u) = u.num /\ Signed(v) = v.num
    BY <1>2, ExactFacts DEF IsExact
  <2>2. z = Bool(u.num = v.num) /\ (u.num = v.num) \in BOOLEAN
    BY <1>2, <2>1 DEF _int_eq
  <2>3. Left(u, v) = u.num /\ Right(u, v) = v.num
    BY <2>1 DEF Left, Right
  <2> QED BY <2>2, <2>3, Answers
<1>3. CASE ~IsReal(u) /\ ~IsReal(v) /\ ~(IsInt(u) /\ IsInt(v))
  <2>1. IsExact(u) /\ IsExact(v) /\ (IsFraction(u) \/ IsFraction(v))
    BY <1>3, OperandKinds DEF IsExact
  <2> DEFINE a == cast_imm_int_to_rational(u)
             b == cast_imm_int_to_rational(v)
  <2>2. z \in IF ~IsFraction(b) THEN {b} ELSE IF ~IsFraction(a) THEN {a}
              ELSE IF a.type # b.type THEN {Stop("shall_not_reach")}
              ELSE IF a = b THEN {Stop("equal_rationals")}
              ELSE {Bool(FALSE)}
    BY <1>3 DEF _int_eq
  <2>3. CASE ~IsFraction(a) \/ ~IsFraction(b)
    <3>1. z = Stop("out_of_range")
      BY <2>1, <2>2, <2>3, CastFacts
    <3> QED BY <3>1, StopResults
  <2>4. CASE IsFraction(a) /\ IsFraction(b)
    <3>1. z \in {Stop("shall_not_reach"), Stop("equal_rationals"), Bool(FALSE)}
      BY <2>2, <2>4
    <3>2. Result(z)
      BY <3>1, StopResults, Answers
    <3>3. ASSUME Canonical(u), Canonical(v), z \in Unknown PROVE z = Bool(Left(u, v) = Right(u, v))
      <4>1. z = Bool(FALSE) /\ a.type = b.type /\ a # b
        BY <2>2, <2>4, <3>3, StopResults
      <4>2. ASSUME Left(u, v) = Right(u, v) PROVE FALSE
        <5>1. u.num = v.num /\ u.den = v.den /\ IsFraction(u) /\ IsFraction(v)
          BY <2>1, <3>3, <4>2, CanonicalUnique
        <5>2. a = u /\ b = v
          BY <5>1 DEF cast_imm_int_to_rational
        <5>3. ExactShape(u) /\ ExactShape(v)
          BY <2>1, ExactFacts, Shapes
        <5>4. u = [type |-> u.type, num |-> u.num, den |-> u.den]
              /\ v = [type |-> v.type, num |-> v.num, den |-> v.den]
          BY <5>1, <5>3 DEF ExactShape, IsFraction, Fractions
        <5> HIDE DEF a, b
        <5> QED BY <5>1, <5>2, <5>4, <4>1
      <4>3. (Left(u, v) = Right(u, v)) = FALSE
        BY <4>2
      <4> QED BY <4>1, <4>3
    <3> QED BY <3>2, <3>3
  <2> QED BY <2>3, <2>4
<1> QED BY <1>1, <1>2, <1>3

(* The negation of an answer.                                               *)
LEMMA NegatedFacts ==
  ASSUME NEW S, NEW z \in Negated(S)
  PROVE  \E f \in S : \/ f \notin Unknown /\ z = f
                      \/ /\ f \in Unknown /\ z \in Unknown
                         /\ \A b \in BOOLEAN : f = Bool(b) => z = Bool(~b)
<1>1. PICK f \in S : z = IF f \in Unknown THEN Bool(f.num = 0) ELSE f
  BY DEF Negated
<1>2. CASE f \in Unknown
  <2>1. z = Bool(f.num = 0) /\ (f.num = 0) \in BOOLEAN
    BY <1>1, <1>2
  <2>2. \A b \in BOOLEAN : f = Bool(b) => z = Bool(~b)
    BY <2>1, Answers
  <2>3. z \in Unknown
    BY <2>1, Answers
  <2> QED BY <1>2, <2>2, <2>3
<1> QED BY <1>1, <1>2

LEMMA AndThenFacts ==
  ASSUME NEW S, NEW go, NEW T, NEW z \in AndThen(S, go, T)
  PROVE  \E f \in S : IF f = Bool(go) THEN z \in T ELSE z = f
<1>1. PICK f \in S : z \in (IF f = Bool(go) THEN T ELSE {f})
  BY DEF AndThen
<1> QED BY <1>1

LEMMA LtFacts ==
  ASSUME NEW u, NEW v, WellFormed(u), WellFormed(v), NEW z \in _int_lt(u, v)
  PROVE  /\ Result(z)
         /\ Canonical(u) /\ Canonical(v) /\ z \in Unknown => z = Bool(Left(u, v) < Right(u, v))
<1> DEFINE E == _int_eq(u, v)
           T == _int_gt(u, v)
<1>1. PICK f \in Negated(E) : IF f = Bool(TRUE) THEN z \in Negated(T) ELSE z = f
  BY AndThenFacts, Zenon DEF _int_lt
<1>2. PICK e \in E : \/ e \notin Unknown /\ f = e
                     \/ /\ e \in Unknown /\ f \in Unknown
                        /\ \A b \in BOOLEAN : e = Bool(b) => f = Bool(~b)
  BY NegatedFacts
<1>3. Result(e) /\ (Canonical(u) /\ Canonical(v) /\ e \in Unknown => e = Bool(Left(u, v) = Right(u, v)))
  BY EqFacts
<1> HIDE DEF E
<1>4. ASSUME Canonical(u), Canonical(v)
      PROVE  /\ Left(u, v) \in Int /\ Right(u, v) \in Int /\ IsExact(u) /\ IsExact(v)
             /\ e \in Unknown => f = Bool(~(Left(u, v) = Right(u, v)))
  <2>1. /\ Signed(u) \in Int /\ Signed(v) \in Int /\ u.den \in Int /\ v.den \in Int
        /\ IsExact(u) /\ IsExact(v)
    BY <1>4, ExactFacts DEF Canonical
  <2>2. (Left(u, v) = Right(u, v)) \in BOOLEAN
    OBVIOUS
  <2>3. e \in Unknown => f = Bool(~(Left(u, v) = Right(u, v)))
    BY <2>2, <1>2, <1>3, <1>4
  <2>4. Left(u, v) \in Int /\ Right(u, v) \in Int
    BY <2>1 DEF Left, Right
  <2> QED BY <2>1, <2>3, <2>4
<1>5. CASE f # Bool(TRUE)
  <2>1. z = f
    BY <1>1, <1>5
  <2>2. Result(z)
    BY <2>1, <1>2, <1>3 DEF Result
  <2>3. ASSUME Canonical(u), Canonical(v), z \in Unknown PROVE z = Bool(Left(u, v) < Right(u, v))
    <3>1. z = Bool(~(Left(u, v) = Right(u, v)))
      BY <1>2, <1>4, <2>1, <2>3
    <3>2. Left(u, v) = Right(u, v)
      BY <3>1, <2>1, <1>5
    <3>3. (~(Left(u, v) = Right(u, v))) = FALSE
      BY <3>2
    <3>4. (Left(u, v) < Right(u, v)) = FALSE
      BY <3>2, <1>4, <2>3
    <3> QED BY <3>1, <3>3, <3>4
  <2> QED BY <2>2, <2>3
<1>6. CASE f = Bool(TRUE)
  <2>1. PICK t \in T : \/ t \notin Unknown /\ z = t
                       \/ /\ t \in Unknown /\ z \in Unknown
                          /\ \A b \in BOOLEAN : t = Bool(b) => z = Bool(~b)
    BY <1>1, <1>6, NegatedFacts
  <2>2. /\ t \in Unknown \/ t = Stop("out_of_range")
        /\ IsExact(u) /\ IsExact(v) /\ t \in Unknown => t = Bool(Left(u, v) > Right(u, v))
    BY GtFacts
  <2> HIDE DEF T
  <2>3. Result(z)
    BY <2>1, <2>2, StopResults DEF Result
  <2>4. ASSUME Canonical(u), Canonical(v), z \in Unknown PROVE z = Bool(Left(u, v) < Right(u, v))
    <3>1. e \in Unknown
      BY <1>2, <1>6, Answers
    <3>2. ~(Left(u, v) = Right(u, v))
      <4>1. f = Bool(~(Left(u, v) = Right(u, v)))
        BY <1>4, <2>4, <3>1
      <4>2. (~(Left(u, v) = Right(u, v))) \in BOOLEAN
        OBVIOUS
      <4> QED BY <4>1, <4>2, <1>6, Answers
    <3>3. z = Bool(~(Left(u, v) > Right(u, v)))
      <4>1. (Left(u, v) > Right(u, v)) \in BOOLEAN
        OBVIOUS
      <4> QED BY <4>1, <1>4, <2>1, <2>2, <2>4
    <3>4. (~(Left(u, v) > Right(u, v))) = (Left(u, v) < Right(u, v))
      BY <1>4, <2>4, <3>2
    <3> QED BY <3>3, <3>4
  <2> QED BY <2>3, <2>4
<1> QED BY <1>5, <1>6

LEMMA LeFacts ==
  ASSUME NEW u, NEW v, WellFormed(u), WellFormed(v), NEW z \in _int_le(u, v)
  PROVE  /\ Result(z)
         /\ Canonical(u) /\ Canonical(v) /\ z \in Unknown => z = Bool(Left(u, v) <= Right(u, v))
<1>1. CASE ~(IsInt(u) /\ IsInt(v))
  <2>1. z = Stop("type")
    BY <1>1 DEF _int_le, BothInt
  <2> QED BY <2>1, StopResults
<1>2. CASE IsInt(u) /\ IsInt(v)
  <2>1. PICK t \in _int_gt(u, v) : \/ t \notin Unknown /\ z = t
                                   \/ /\ t \in Unknown /\ z \in Unknown
                                      /\ \A b \in BOOLEAN : t = Bool(b) => z = Bool(~b)
    BY <1>2, NegatedFacts DEF _int_le, BothInt
  <2>2. /\ t \in Unknown \/ t = Stop("out_of_range")
        /\ t \in Unknown => t = Bool(Left(u, v) > Right(u, v))
    BY <1>2, GtFacts DEF IsExact
  <2>3. Signed(u) \in Int /\ Signed(v) \in Int /\ u.den \in Int /\ v.den \in Int
    BY <1>2, ExactFacts DEF IsExact
  <2>4. (~(Left(u, v) > Right(u, v))) = (Left(u, v) <= Right(u, v))
        /\ (Left(u, v) > Right(u, v)) \in BOOLEAN
    BY <2>3 DEF Left, Right
  <2> QED BY <2>1, <2>2, <2>4, StopResults DEF Result
<1> QED BY <1>1, <1>2

LEMMA GeFacts ==
  ASSUME NEW u, NEW v, WellFormed(u), WellFormed(v), NEW z \in _int_ge(u, v)
  PROVE  /\ Result(z)
         /\ Canonical(u) /\ Canonical(v) /\ z \in Unknown => z = Bool(Left(u, v) >= Right(u, v))
<1>1. CASE ~(IsInt(u) /\ IsInt(v))
  <2>1. z = Stop("type")
    BY <1>1 DEF _int_ge, BothInt
  <2> QED BY <2>1, StopResults
<1>2. CASE IsInt(u) /\ IsInt(v)
  <2>1. z \in AndThen(_int_eq(u, v), FALSE, _int_gt(u, v))
    BY <1>2 DEF _int_ge, BothInt
  <2>2. PICK e \in _int_eq(u, v) : IF e = Bool(FALSE) THEN z \in _int_gt(u, v) ELSE z = e
    BY <2>1, AndThenFacts
  <2>3. Result(e) /\ (Canonical(u) /\ Canonical(v) /\ e \in Unknown => e = Bool(Left(u, v) = Right(u, v)))
    BY EqFacts
  <2>4. /\ Signed(u) \in Int /\ Signed(v) \in Int /\ u.den \in Int /\ v.den \in Int
        /\ IsExact(u) /\ IsExact(v)
    BY <1>2, ExactFacts DEF IsExact
  <2>5. Left(u, v) \in Int /\ Right(u, v) \in Int
    BY <2>4 DEF Left, Right
  <2>6. CASE e = Bool(FALSE)
    <3>1. z \in _int_gt(u, v)
      BY <2>2, <2>6
    <3>2. (z \in Unknown \/ z = Stop("out_of_range")) /\ (z \in Unknown => z = Bool(Left(u, v) > Right(u, v)))
      BY <3>1, <2>4, GtFacts
    <3>3. ASSUME Canonical(u), Canonical(v) PROVE ~(Left(u, v) = Right(u, v))
      <4>1. Bool(FALSE) = Bool(Left(u, v) = Right(u, v)) /\ (Left(u, v) = Right(u, v)) \in BOOLEAN
        BY <2>3, <2>6, <3>3, Answers
      <4> QED BY <4>1, Answers
    <3>4. ~(Left(u, v) = Right(u, v)) => (Left(u, v) > Right(u, v)) = (Left(u, v) >= Right(u, v))
      BY <2>5
    <3> QED BY <3>2, <3>3, <3>4, StopResults DEF Result
  <2>7. CASE e # Bool(FALSE)
    <3>1. z = e
      BY <2>2, <2>7
    <3>2. ASSUME Canonical(u), Canonical(v), z \in Unknown PROVE z = Bool(Left(u, v) >= Right(u, v))
      <4>1. z = Bool(Left(u, v) = Right(u, v)) /\ (Left(u, v) = Right(u, v)) \in BOOLEAN
        BY <2>3, <3>1, <3>2
      <4>2. Left(u, v) = Right(u, v)
        BY <4>1, <3>1, <2>7
      <4>3. (Left(u, v) = Right(u, v)) = (Left(u, v) >= Right(u, v))
        BY <4>2, <2>5
      <4> QED BY <4>1, <4>3
    <3> QED BY <2>3, <3>1, <3>2
  <2> QED BY <2>6, <2>7
<1> QED BY <1>1, <1>2

LEMMA EqvFacts ==
  ASSUME NEW u, NEW v, WellFormed(u), WellFormed(v), NEW z \in _eqv(u, v)
  PROVE  Result(z)
<1>1. z = Bool(FALSE) \/ z = Stop("type") \/ z \in _int_eq(u, v)
  BY DEF _eqv
<1> QED BY <1>1, EqFacts, StopResults, Answers

------------------------------------------------------------------------------
(* Rounding.                                                                *)

LEMMA ZeroOperand == WellFormed(Fixnum(0)) /\ Canonical(Fixnum(0))
                     /\ Signed(Fixnum(0)) = 0 /\ Fixnum(0).den = 1
<1>1. 0 \in IntRange
  BY Widths DEF IntRange
<1> QED BY <1>1, FixnumWellFormed, SignedFixnum DEF Canonical

(* A quotient by a denominator is not greater than its dividend.            *)
LEMMA FloorFits ==
  ASSUME NEW n \in -(PartMax) .. PartMax, NEW d \in Nat \ {0}
  PROVE  /\ n \div d \in Int /\ n - (n \div d) * d \in 0 .. d - 1
         /\ n \div d \in -(PartMax) .. PartMax
<1> DEFINE q == n \div d
           m == n % d
<1>1. n \in Int /\ PartMax \in Nat
  BY Widths
<1>2. q \in Int /\ m \in 0 .. d - 1 /\ n = d * q + m
  BY <1>1, DivMod
<1> HIDE DEF q, m
<1>3. n - q * d = m
  <2>1. d * q = q * d /\ d * q \in Int
    BY <1>2
  <2> QED BY <2>1, <1>1, <1>2
<1>4. q >= -(PartMax)
  <2>1. q < -(PartMax) => d * q <= d * (-(PartMax) - 1)
    BY <1>1, <1>2
  <2>2. d * (-(PartMax) - 1) = -(d * PartMax) - d /\ d * PartMax >= PartMax /\ d * PartMax \in Int
    BY <1>1
  <2>3. d * q \in Int
    BY <1>2
  <2> QED BY <2>1, <2>2, <2>3, <1>1, <1>2
<1>5. q <= PartMax
  <2>1. q > PartMax => d * q >= d * (PartMax + 1)
    BY <1>1, <1>2
  <2>2. d * (PartMax + 1) >= PartMax + 1
    BY <1>1
  <2>3. d * q \in Int /\ d * (PartMax + 1) \in Int
    BY <1>1, <1>2
  <2> QED BY <2>1, <2>2, <2>3, <1>1, <1>2
<1> QED BY <1>2, <1>3, <1>4, <1>5 DEF q

\* What Rounded leaves of a fraction is i.
LEMMA RoundedFacts ==
  ASSUME NEW v, WellFormed(v), NEW i, IsFraction(v) => i \in IntRange, NEW z \in Rounded(v, i)
  PROVE  /\ Result(z)
         /\ IsFraction(v) => z = Fixnum(i)
<1>1. CASE ~IsFraction(v)
  BY <1>1 DEF Rounded, Result
<1>2. CASE IsFraction(v)
  <2>1. v.den # 0
    BY <1>2, ExactFacts DEF IsExact
  <2>2. z = Fixnum(i)
    BY <1>2, <2>1 DEF Rounded
  <2> QED BY <1>2, <2>2, FixnumWellFormed DEF Result
<1> QED BY <1>1, <1>2

LEMMA FractionFacts ==
  ASSUME NEW v, WellFormed(v), IsFraction(v)
  PROVE  /\ v.num \in 0 .. PartMax /\ Abs(v.num) = v.num /\ v.den \in 1 .. PartMax /\ v.den \in Nat \ {0}
         /\ Signum(v) \in {1, -1} /\ Signed(v) = Signum(v) * v.num /\ IsExact(v)
         /\ Signed(v) \in -(PartMax) .. PartMax /\ -Signed(v) \in -(PartMax) .. PartMax
<1>1. /\ v.num \in 0 .. PartMax /\ Abs(v.num) = v.num /\ v.den \in 1 .. PartMax /\ v.den \in Nat \ {0}
      /\ Signum(v) \in {1, -1} /\ Signed(v) = Signum(v) * Abs(v.num) /\ IsExact(v)
  BY ExactFacts DEF IsExact
<1> QED BY <1>1, Widths

\* What is left of v, times its denominator.
Less(v, z) == Signed(v) - z.num * v.den

LEMMA FloorFacts ==
  ASSUME NEW v, WellFormed(v), NEW z \in _floor(v)
  PROVE  /\ Result(z)
         /\ IsFraction(v) => IsInt(z) /\ Less(v, z) \in 0 .. v.den - 1
<1> DEFINE i == Signed(v) \div v.den
<1>1. ASSUME IsFraction(v)
      PROVE  i \in IntRange /\ i \in Int /\ Signed(v) - i * v.den \in 0 .. v.den - 1
  <2>1. /\ i \in Int /\ Signed(v) - i * v.den \in 0 .. v.den - 1 /\ i \in -(PartMax) .. PartMax
    BY <1>1, FractionFacts, FloorFits
  <2> HIDE DEF i
  <2> QED BY <2>1, Widths DEF IntRange
<1> HIDE DEF i
<1>2. z \in Rounded(v, i)
  BY DEF _floor, i
<1>3. Result(z) /\ (IsFraction(v) => z = Fixnum(i))
  BY <1>1, <1>2, RoundedFacts
<1> QED BY <1>1, <1>3, SignedFixnum DEF Less

LEMMA CeilingFacts ==
  ASSUME NEW v, WellFormed(v), NEW z \in _ceiling(v)
  PROVE  /\ Result(z)
         /\ IsFraction(v) => IsInt(z) /\ -Less(v, z) \in 0 .. v.den - 1
<1> DEFINE j == (-Signed(v)) \div v.den
           i == -j
<1>1. ASSUME IsFraction(v)
      PROVE  i \in IntRange /\ i \in Int /\ -(Signed(v) - i * v.den) \in 0 .. v.den - 1
  <2>1. /\ j \in Int /\ -Signed(v) - j * v.den \in 0 .. v.den - 1 /\ j \in -(PartMax) .. PartMax
    BY <1>1, FractionFacts, FloorFits
  <2> HIDE DEF j
  <2>2. Signed(v) \in Int /\ v.den \in Int
    BY <1>1, FractionFacts, Widths
  <2>3. -(Signed(v) - (-j) * v.den) = -Signed(v) - j * v.den
    BY <2>1, <2>2
  <2>4. -j \in -(PartMax) .. PartMax /\ -j \in Int
    BY <2>1, Widths
  <2>5. -j \in IntRange
    BY <2>4, Widths DEF IntRange
  <2> QED BY <2>1, <2>3, <2>4, <2>5
<1> HIDE DEF i, j
<1>2. z \in Rounded(v, i)
  BY DEF _ceiling, i, j
<1>3. Result(z) /\ (IsFraction(v) => z = Fixnum(i))
  BY <1>1, <1>2, RoundedFacts
<1> QED BY <1>1, <1>3, SignedFixnum DEF Less

LEMMA TruncateFacts ==
  ASSUME NEW v, WellFormed(v), NEW z \in _truncate(v)
  PROVE  /\ Result(z)
         /\ IsFraction(v) => IsInt(z) /\ Signum(v) * Less(v, z) \in 0 .. v.den - 1
<1>1. PICK f \in _int_gt(v, Fixnum(0)) :
        z \in (IF f = Bool(TRUE) THEN _floor(v) ELSE IF f = Bool(FALSE) THEN _ceiling(v) ELSE {f})
  BY DEF _truncate
<1>2. /\ f \in Unknown \/ f = Stop("out_of_range")
      /\ IsExact(v) /\ f \in Unknown => f = Bool(Signed(v) > 0)
  <2>1. IsExact(Fixnum(0))
    BY ZeroOperand DEF Canonical
  <2>2. IsExact(v) => Left(v, Fixnum(0)) = Signed(v) /\ Right(v, Fixnum(0)) = 0
    BY ZeroOperand, ExactFacts DEF Left, Right
  <2> QED BY <2>1, <2>2, ZeroOperand, GtFacts
<1>3. CASE f = Stop("out_of_range")
  <2>1. z = f
    BY <1>1, <1>3, StopResults, Answers
  <2>2. ASSUME IsFraction(v) PROVE FALSE
    <3> DEFINE a == cast_imm_int_to_rational(v)
               b == cast_imm_int_to_rational(Fixnum(0))
    <3>1. IsFraction(a)
      BY <2>2 DEF cast_imm_int_to_rational
    <3>2. IsFraction(b)
      <4>1. ~IsFraction(Fixnum(0)) /\ Fixnum(0).num = 0 /\ ~(Abs(0) > PartMax)
        BY SignedFixnum, Widths DEF Abs
      <4>2. b = Rational(0, Abs(0), 1)
        BY <4>1 DEF cast_imm_int_to_rational
      <4> QED BY <4>2 DEF Rational, IsFraction, Fractions
    <3>3. ~IsReal(v) /\ ~IsReal(Fixnum(0)) /\ ~IsInt(v)
      BY <2>2 DEF IsReal, IsFraction, IsInt, Fractions, Fixnum
    <3>4. f = Bool(Signum(a) * a.num * b.den > Signum(b) * b.num * a.den)
      BY <3>1, <3>2, <3>3 DEF _int_gt
    <3>5. f.den = 1 /\ Stop("out_of_range").den = 0
      BY <3>4 DEF Bool, Stop
    <3> QED BY <3>5, <1>3
  <2> QED BY <2>1, <2>2, <1>3, StopResults
<1>4. CASE f = Bool(TRUE)
  <2>1. z \in _floor(v)
    BY <1>1, <1>4
  <2>2. Result(z) /\ (IsFraction(v) => IsInt(z) /\ Less(v, z) \in 0 .. v.den - 1)
    BY <2>1, FloorFacts
  <2>3. ASSUME IsFraction(v) PROVE Signum(v) = 1
    <3>1. /\ v.num \in Nat /\ Signum(v) \in {1, -1} /\ Signed(v) = Signum(v) * v.num /\ IsExact(v)
      BY <2>3, FractionFacts, Widths
    <3>2. Signed(v) > 0
      <4>1. f \in Unknown
        BY <1>4, Answers
      <4>2. (Signed(v) > 0) \in BOOLEAN
        OBVIOUS
      <4> QED BY <4>1, <4>2, <1>2, <1>4, <3>1, Answers
    <3> QED BY <3>1, <3>2
  <2>4. ASSUME IsFraction(v) PROVE Signum(v) * Less(v, z) \in 0 .. v.den - 1
    <3>1. Less(v, z) \in Int /\ Signum(v) = 1
      BY <2>2, <2>3, <2>4
    <3>2. Signum(v) * Less(v, z) = Less(v, z)
      BY <3>1
    <3> QED BY <3>2, <2>2, <2>4
  <2> QED BY <2>2, <2>4
<1>5. CASE f = Bool(FALSE)
  <2>1. z \in _ceiling(v)
    BY <1>1, <1>5, Answers
  <2>2. Result(z) /\ (IsFraction(v) => IsInt(z) /\ -Less(v, z) \in 0 .. v.den - 1)
    BY <2>1, CeilingFacts
  <2>3. ASSUME IsFraction(v) PROVE Signum(v) * Less(v, z) \in 0 .. v.den - 1
    <3>1. /\ v.num \in Nat /\ Signum(v) \in {1, -1} /\ Signed(v) = Signum(v) * v.num /\ IsExact(v)
          /\ v.den \in Nat \ {0}
      BY <2>3, FractionFacts, Widths
    <3>2. ~(Signed(v) > 0)
      <4>1. f \in Unknown
        BY <1>5, Answers
      <4>2. (Signed(v) > 0) \in BOOLEAN
        OBVIOUS
      <4> QED BY <4>1, <4>2, <1>2, <1>5, <3>1, Answers
    <3>3. CASE Signum(v) = -1
      <4>1. \A e : -e \in 0 .. v.den - 1 /\ e \in Int => (-1) * e \in 0 .. v.den - 1
        BY <3>1
      <4>2. Less(v, z) \in Int
        <5>1. z.num \in Int
          BY <2>2, <2>3, ResultNumber, ExactFacts DEF IsNumber, IsExact
        <5> QED BY <5>1, <3>1 DEF Less
      <4> QED BY <4>1, <4>2, <3>3, <2>2, <2>3
    <3>4. CASE Signum(v) = 1
      <4>1. Signed(v) = 0
        BY <3>1, <3>2, <3>4
      <4>2. z.num \in Int
        BY <2>2, <2>3, ResultNumber, ExactFacts DEF IsNumber, IsExact
      <4>3. Less(v, z) = -(z.num * v.den) /\ z.num * v.den \in Int
        BY <4>1, <4>2, <3>1 DEF Less
      <4>4. z.num * v.den \in 0 .. v.den - 1
        <5>1. -(-(z.num * v.den)) = z.num * v.den
          BY <4>3
        <5> QED BY <5>1, <4>3, <2>2, <2>3
      <4>5. z.num = 0
        <5> DEFINE k == z.num
                   d == v.den
        <5>0. k * d \in 0 .. d - 1 /\ k \in Int /\ d \in Nat \ {0}
          BY <4>2, <4>4, <3>1
        <5> HIDE DEF k, d
        <5>1. k >= 1 => k * d >= d
          BY <5>0
        <5>2. k <= -1 => k * d <= -d
          BY <5>0
        <5>3. k = 0
          BY <5>0, <5>1, <5>2
        <5> QED BY <5>3 DEF k
      <4>6. Less(v, z) = 0
        BY <4>3, <4>5, <3>1
      <4> QED BY <4>6, <3>1, <3>4
    <3> QED BY <3>1, <3>3, <3>4
  <2> QED BY <2>2, <2>3
<1> QED BY <1>2, <1>3, <1>4, <1>5 DEF Unknown

LEMMA RoundFacts ==
  ASSUME NEW v, WellFormed(v), NEW z \in _round(v)
  PROVE  /\ Result(z)
         /\ IsFraction(v) => /\ IsInt(z) /\ 2 * Abs(Less(v, z)) <= v.den
                             /\ Signum(v) * Less(v, z) * 2 < v.den
<1> DEFINE n == Abs(v.num)
           d == v.den
           a == 2 * n + d
           b == 2 * d
           q == a \div b
           i == Signum(v) * q
<1>1. ASSUME IsFraction(v)
      PROVE  /\ i \in IntRange /\ i \in Int
             /\ 2 * Abs(Signed(v) - i * d) <= d /\ Signum(v) * (Signed(v) - i * d) * 2 < d
  <2>1. /\ n \in 0 .. PartMax /\ n \in Nat /\ d \in Nat \ {0} /\ d <= PartMax /\ Signum(v) \in {1, -1}
        /\ Signed(v) = Signum(v) * n
    BY <1>1, FractionFacts, Widths
  <2> HIDE DEF n, d
  <2>2. a \in Nat /\ b \in Nat \ {0}
    BY <2>1
  <2>3. q \in Nat /\ a = b * q + (a % b) /\ a % b \in 0 .. b - 1
    <3> HIDE DEF a, b
    <3>1. a \in Int /\ a \in Nat /\ b \in Nat \ {0}
      BY <2>2
    <3>2. a \div b \in Nat
      BY <3>1, DivMod
    <3>3. a = b * (a \div b) + (a % b)
      BY <3>1, DivMod
    <3>4. a % b \in 0 .. b - 1
      BY <3>1, DivMod
    <3> QED BY <3>2, <3>3, <3>4
  <2> DEFINE e == n - q * d
  <2>4. 2 * e \in -d .. d - 1 /\ e \in Int
    <3>1. b * q = 2 * (q * d) /\ q * d \in Int
      <4> HIDE DEF q
      <4>1. q * d \in Int
        BY <2>1, <2>3
      <4>2. (2 * d) * q = 2 * (q * d)
        BY <2>1, <2>3
      <4> QED BY <4>1, <4>2
    <3> DEFINE m == a % b
    <3> HIDE DEF m, q
    <3>2. 2 * n + d = 2 * (q * d) + m /\ m \in 0 .. 2 * d - 1
      BY <2>3, <3>1 DEF m
    <3> QED BY <3>1, <3>2, <2>1
  <2>5. q <= PartMax + 1
    <3>1. q > PartMax + 1 => d * q >= d * (PartMax + 2)
      BY <2>1, <2>3, Widths
    <3>2. d * (PartMax + 2) >= PartMax + 2 * d
      <4>1. d * (PartMax + 2) = d * PartMax + 2 * d /\ d * PartMax >= PartMax
        BY <2>1, Widths
      <4>2. d * PartMax \in Int /\ PartMax \in Int /\ d * (PartMax + 2) \in Int
        BY <2>1, Widths
      <4> QED BY <4>1, <4>2, <2>1
    <3>3. q * d = d * q /\ d * q \in Int /\ d * (PartMax + 2) \in Int /\ PartMax \in Nat
      BY <2>1, <2>3, Widths
    <3>4. q * d <= n + d
      <4> HIDE DEF q
      <4> QED BY <2>1, <2>3, <2>4, <3>3
    <3> HIDE DEF q, a, b
    <3> QED BY <2>1, <2>3, <3>1, <3>2, <3>3, <3>4
  <2> HIDE DEF q
  <2>6. i \in IntRange /\ i \in Int
    BY <2>1, <2>3, <2>5, Widths DEF IntRange
  <2>7. Signed(v) - i * d = Signum(v) * e
    <3>1. q * d \in Int /\ n \in Int
      BY <2>1, <2>3
    <3>2. (Signum(v) * q) * d = Signum(v) * (q * d)
      BY <2>1, <2>3
    <3> QED BY <3>1, <3>2, <2>1
  <2> HIDE DEF e, i
  <2>8. Abs(Signum(v) * e) = Abs(e) /\ Signum(v) * (Signum(v) * e) = e
    BY <2>1, <2>4 DEF Abs
  <2>9. 2 * Abs(e) <= d /\ e * 2 < d
    BY <2>1, <2>4 DEF Abs
  <2> QED BY <2>6, <2>7, <2>8, <2>9
<1> HIDE DEF i, d
<1>2. z \in Rounded(v, i)
  BY DEF _round, i, q, a, b, n, d
<1>3. Result(z) /\ (IsFraction(v) => z = Fixnum(i))
  BY <1>1, <1>2, RoundedFacts
<1> QED BY <1>1, <1>3, SignedFixnum DEF Less, d

------------------------------------------------------------------------------
(* Predicates.                                                              *)

LEMMA ZeroFacts ==
  ASSUME NEW v, WellFormed(v), NEW z \in _is_zero(v)
  PROVE  /\ Result(z)
         /\ Canonical(v) /\ z \in Unknown => z = Bool(Signed(v) = 0)
<1>1. CASE IsFraction(v)
  <2>1. z = Bool(v.num = 0) /\ (v.num = 0) \in BOOLEAN
    BY <1>1 DEF _is_zero
  <2>2. v.num \in Nat /\ Signum(v) \in {1, -1} /\ Signed(v) = Signum(v) * v.num
    BY <1>1, FractionFacts, Widths
  <2>3. (v.num = 0) = (Signed(v) = 0)
    BY <2>2
  <2> QED BY <2>1, <2>3, Answers
<1>2. CASE ~IsFraction(v)
  <2>1. z \in _int_eq(Fixnum(0), v)
    BY <1>2 DEF _is_zero
  <2>2. Result(z) /\ (Canonical(v) /\ z \in Unknown => z = Bool(Left(Fixnum(0), v) = Right(Fixnum(0), v)))
    BY <2>1, ZeroOperand, EqFacts
  <2>3. ASSUME Canonical(v) PROVE (Left(Fixnum(0), v) = Right(Fixnum(0), v)) = (Signed(v) = 0)
    <3>1. Signed(v) \in Int /\ v.den \in Int
      BY <2>3, ExactFacts DEF Canonical
    <3>2. Left(Fixnum(0), v) = 0 /\ Right(Fixnum(0), v) = Signed(v)
      BY <3>1, ZeroOperand DEF Left, Right
    <3> QED BY <3>1, <3>2
  <2> QED BY <2>2, <2>3
<1> QED BY <1>1, <1>2

LEMMA SignFacts ==
  ASSUME NEW v, WellFormed(v)
  PROVE  /\ \A z \in _is_positive(v) : /\ Result(z)
                                       /\ Canonical(v) /\ z \in Unknown => z = Bool(Signed(v) > 0)
         /\ \A z \in _is_negative(v) : /\ Result(z)
                                       /\ Canonical(v) /\ z \in Unknown => z = Bool(Signed(v) < 0)
<1>1. IsExact(Fixnum(0)) /\ (Canonical(v) => IsExact(v))
  BY ZeroOperand DEF Canonical
<1>2. IsExact(v) => Left(v, Fixnum(0)) = Signed(v) /\ Right(v, Fixnum(0)) = 0
  BY ZeroOperand, ExactFacts DEF Left, Right
<1>3. ASSUME NEW z \in _is_positive(v)
      PROVE  Result(z) /\ (Canonical(v) /\ z \in Unknown => z = Bool(Signed(v) > 0))
  <2>1. /\ z \in Unknown \/ z = Stop("out_of_range")
        /\ IsExact(v) /\ z \in Unknown => z = Bool(Left(v, Fixnum(0)) > Right(v, Fixnum(0)))
    BY <1>1, ZeroOperand, GtFacts DEF _is_positive
  <2> QED BY <2>1, <1>1, <1>2, StopResults DEF Result
<1>4. ASSUME NEW z \in _is_negative(v)
      PROVE  Result(z) /\ (Canonical(v) /\ z \in Unknown => z = Bool(Signed(v) < 0))
  <2>1. /\ Result(z)
        /\ Canonical(v) /\ z \in Unknown => z = Bool(Left(v, Fixnum(0)) < Right(v, Fixnum(0)))
    BY ZeroOperand, LtFacts DEF _is_negative
  <2> QED BY <2>1, <1>1, <1>2
<1> QED BY <1>3, <1>4

LEMMA ParityFacts ==
  ASSUME NEW v, WellFormed(v), NEW odd \in BOOLEAN, NEW z \in Parity(v, odd)
  PROVE  Result(z)
<1>1. \/ z = Bool((v.num % 2 = 1) = odd)
      \/ z \in Unknown \/ z = Stop("not_an_integer") \/ z = Stop("not_implemented")
  BY DEF Parity
<1> QED BY <1>1, StopResults, Answers DEF Result

LEMMA KindFacts ==
  ASSUME NEW v, NEW z, z \in prim_integer_p(v) \/ z \in prim_rational_p(v)
  PROVE  Result(z)
<1>1. z \in Unknown \/ z = Bool(IsInt(v)) \/ z = Bool(IsFraction(v))
  BY DEF prim_integer_p, prim_rational_p
<1>2. IsInt(v) \in BOOLEAN /\ IsFraction(v) \in BOOLEAN
  BY DEF IsInt, IsFraction
<1> QED BY <1>1, <1>2, Answers DEF Result

------------------------------------------------------------------------------
(* The machine.                                                             *)

LEMMA BinaryResult ==
  ASSUME NEW p \in Arithmetic \cup Comparison, NEW u, NEW v, WellFormed(u), WellFormed(v),
         NEW z \in Binary(p, u, v)
  PROVE  Result(z)
<1>1. CASE p = "+"
  BY <1>1, AddFacts DEF Binary
<1>2. CASE p = "-"
  BY <1>2, SubFacts DEF Binary
<1>3. CASE p = "*"
  BY <1>3, MulFacts DEF Binary
<1>4. CASE p = "/"
  BY <1>4, DivFacts DEF Binary
<1>5. CASE p = "modulo"
  BY <1>5, ModuloFacts DEF Binary
<1>6. CASE p = "remainder"
  BY <1>6, RemainderFacts DEF Binary
<1>7. CASE p = "="
  BY <1>7, EqFacts DEF Binary
<1>8. CASE p = "<"
  BY <1>8, LtFacts DEF Binary
<1>9. CASE p = ">"
  BY <1>9, GtFacts, StopResults DEF Binary, Result
<1>10. CASE p = "<="
  BY <1>10, LeFacts DEF Binary
<1>11. CASE p = ">="
  BY <1>11, GeFacts DEF Binary
<1>12. CASE p = "eqv?"
  BY <1>12, EqvFacts DEF Binary
<1> QED BY <1>1, <1>2, <1>3, <1>4, <1>5, <1>6, <1>7, <1>8, <1>9, <1>10, <1>11, <1>12
        DEF Arithmetic, Comparison

LEMMA UnaryResult ==
  ASSUME NEW p \in Rounding \cup Predicate, NEW v, WellFormed(v), NEW z \in Unary(p, v)
  PROVE  Result(z)
<1>1. CASE p = "floor"
  BY <1>1, FloorFacts DEF Unary
<1>2. CASE p = "ceiling"
  BY <1>2, CeilingFacts DEF Unary
<1>3. CASE p = "truncate"
  BY <1>3, TruncateFacts DEF Unary
<1>4. CASE p = "round"
  BY <1>4, RoundFacts DEF Unary
<1>5. CASE p = "zero?"
  BY <1>5, ZeroFacts DEF Unary
<1>6. CASE p = "positive?"
  BY <1>6, SignFacts DEF Unary
<1>7. CASE p = "negative?"
  BY <1>7, SignFacts DEF Unary
<1>8. CASE p = "odd?"
  BY <1>8, ParityFacts DEF Unary, _is_odd
<1>9. CASE p = "even?"
  BY <1>9, ParityFacts DEF Unary, _is_even
<1>10. CASE p = "integer?"
  BY <1>10, KindFacts DEF Unary
<1>11. CASE p = "rational?"
  BY <1>11, KindFacts DEF Unary
<1> QED BY <1>1, <1>2, <1>3, <1>4, <1>5, <1>6, <1>7, <1>8, <1>9, <1>10, <1>11
        DEF Rounding, Predicate

\* The operands are numbers and r is what the primitive leaves for them.
Inv == /\ WellFormed(x) /\ WellFormed(y)
       /\ op \in {"none"} \cup Arithmetic \cup Comparison \cup Rounding \cup Predicate
       /\ op = "none" => r = Nothing
       /\ op \in Arithmetic \cup Comparison => r \in Binary(op, x, y)
       /\ op \in Rounding \cup Predicate => r \in Unary(op, x)

LEMMA Kinds ==
  /\ "none" \notin Arithmetic \cup Comparison \cup Rounding \cup Predicate
  /\ (Arithmetic \cup Comparison) \cap (Rounding \cup Predicate) = {}
BY DEF Arithmetic, Comparison, Rounding, Predicate

LEMMA InvResult ==
  ASSUME Inv
  PROVE  r = Nothing \/ Result(r)
BY BinaryResult, UnaryResult DEF Inv

(* Every reachable state: no result is a fraction over 0, so none makes the *)
(* next primitive divide by it.                                             *)
LEMMA Invariance == Spec => []Inv
<1>1. Init => Inv
  <2> SUFFICES ASSUME Init PROVE Inv
    OBVIOUS
  <2>1. \A v \in Literals : WellFormed(v)
    BY NumbersAssumption DEF WellFormed
  <2> QED BY <2>1, Kinds DEF Init, Inv
<1>2. Inv /\ [Next]_vars => Inv'
  <2> SUFFICES ASSUME Inv, [Next]_vars PROVE Inv'
    OBVIOUS
  <2>1. ASSUME NEW p \in Arithmetic \cup Comparison, CallBinary(p) PROVE Inv'
    BY <2>1, Kinds DEF CallBinary, Inv
  <2>2. ASSUME NEW p \in Rounding \cup Predicate, CallUnary(p) PROVE Inv'
    BY <2>2, Kinds DEF CallUnary, Inv
  <2>3. CASE Operand
    <3>1. WellFormed(r)
      <4>1. ~IsNumber(Nothing)
        BY NotNumbers
      <4> QED BY <2>3, <4>1, InvResult, ResultNumber DEF Operand
    <3> QED BY <2>3, <3>1, Kinds DEF Operand, Inv
  <2>4. CASE UNCHANGED vars
    BY <2>4 DEF vars, Inv
  <2> QED BY <2>1, <2>2, <2>3, <2>4 DEF Next
<1> QED BY <1>1, <1>2, PTL DEF Spec

(* The operands and the results are number objects of one word (_int_add,   *)
(* _int_mul, _int_div and the conversions of type_cast.c).                  *)
THEOREM TypeCorrect == Spec => []TypeOK
<1>1. Inv => TypeOK
  <2> SUFFICES ASSUME Inv PROVE TypeOK
    OBVIOUS
  <2>1. r \in ExactNumbers \cup {RealNum, Nothing} \cup Unknown \cup Stops
    BY InvResult, ResultNumber
  <2> QED BY <2>1 DEF Inv, TypeOK, WellFormed
<1> QED BY <1>1, Invariance, PTL

(* No arithmetic leaves a fraction over zero, not even where gcd was misled *)
(* by a truncated argument (Pack's callers, _floor and the others that      *)
(* divide by the denominator).                                              *)
THEOREM NoZeroDenominator == Spec => [](IsFraction(r) => r.den > 0)
<1>1. Inv => (IsFraction(r) => r.den > 0)
  <2> SUFFICES ASSUME Inv, IsFraction(r) PROVE r.den > 0
    OBVIOUS
  <2>1. IsNumber(r)
    BY DEF IsNumber, IsExact
  <2>2. r # Nothing
    BY <2>1, NotNumbers
  <2>3. WellFormed(r)
    BY <2>1, <2>2, InvResult, ResultNumber
  <2> QED BY <2>3, ExactFacts DEF IsExact
<1> QED BY <1>1, Invariance, PTL

(* A sum that is an exact number is the exact one, as long as its unreduced *)
(* parts fit the type that gcd takes (_int_add, _int_sub).                  *)
THEOREM Sums == Spec => []SumExactInRange
<1>1. Inv => SumExactInRange
  <2> SUFFICES ASSUME Inv, op \in {"+", "-"}, ExactOperands, IsExact(r),
                      {SumNum, SumDen} \subseteq (MinInt + 1) .. MaxInt
               PROVE  IsValue(SumNum, SumDen)
    BY DEF SumExactInRange
  <2>1. IsExact(x) /\ IsExact(y) /\ WellFormed(x) /\ WellFormed(y) /\ r \in Binary(op, x, y)
    BY DEF ExactOperands, Inv, Arithmetic
  <2>2. /\ Signed(x) \in Int /\ Signed(y) \in Int /\ x.den \in Int /\ y.den \in Int
    BY <2>1, ExactFacts
  <2>3. CASE op = "+"
    <3>1. r \in _int_add(x, y)
      BY <2>1, <2>3 DEF Binary
    <3>2. SumNum = Signed(x) * y.den + Signed(y) * x.den
      BY <2>2, <2>3 DEF SumNum
    <3>3. ValueOf(r, SumNum, SumDen)
      BY <2>1, <3>1, <3>2, AddFacts DEF SumDen
    <3> QED BY <3>3 DEF ValueOf, IsValue
  <2>4. CASE op = "-"
    <3>1. r \in _int_sub(x, y)
      BY <2>1, <2>4 DEF Binary
    <3>2. SumNum = Signed(x) * y.den + -1 * Signed(y) * x.den
      BY <2>2, <2>4 DEF SumNum
    <3>3. ValueOf(r, SumNum, SumDen)
      BY <2>1, <3>1, <3>2, SubFacts DEF SumDen
    <3> QED BY <3>3 DEF ValueOf, IsValue
  <2> QED BY <2>3, <2>4
<1> QED BY <1>1, Invariance, PTL

(* A product that is an exact number is the exact product (_int_mul).       *)
THEOREM Products == Spec => []ProductExact
<1>1. Inv => ProductExact
  <2> SUFFICES ASSUME Inv, op = "*", ExactOperands, IsExact(r)
               PROVE  IsValue(Signed(x) * Signed(y), x.den * y.den)
    BY DEF ProductExact
  <2>1. IsExact(x) /\ IsExact(y) /\ WellFormed(x) /\ WellFormed(y) /\ r \in Binary(op, x, y)
    BY DEF ExactOperands, Inv, Arithmetic
  <2>2. r \in _int_mul(x, y)
    BY <2>1 DEF Binary
  <2> QED BY <2>1, <2>2, MulFacts DEF ValueOf, IsValue
<1> QED BY <1>1, Invariance, PTL

(* A quotient that is an exact number is the exact one, as long as nx * dy  *)
(* and dx * ny fit an imm_int_t (_int_div).                                 *)
THEOREM Quotients == Spec => []QuotientExactInRange
<1>1. Inv => QuotientExactInRange
  <2> SUFFICES ASSUME Inv, op = "/", ExactOperands, IsExact(r),
                      {Abs(x.num) * y.den, Abs(y.num) * x.den} \subseteq IntRange
               PROVE  /\ y.num # 0
                      /\ Signed(r) * x.den * Signed(y) = Signed(x) * y.den * r.den
                      /\ IsFraction(r) => r.den > 1 /\ LowestTerms(r.num, r.den)
    BY DEF QuotientExactInRange
  <2>1. IsExact(x) /\ IsExact(y) /\ WellFormed(x) /\ WellFormed(y) /\ r \in Binary(op, x, y)
    BY DEF ExactOperands, Inv, Arithmetic
  <2>2. r \in _int_div(x, y)
    BY <2>1 DEF Binary
  <2> QED BY <2>1, <2>2, DivFacts
<1> QED BY <1>1, Invariance, PTL

(* A comparison of canonical numbers that answers gives the order of their  *)
(* values (_int_eq and the comparisons made of it and of _int_gt).          *)
THEOREM Order == Spec => []OrderExact
<1>1. Inv => OrderExact
  <2> SUFFICES ASSUME Inv, Canonical(x), r \in Unknown
               PROVE  /\ Canonical(y) =>
                           /\ op = "=" => r = Bool(Left(x, y) = Right(x, y))
                           /\ op = "<" => r = Bool(Left(x, y) < Right(x, y))
                           /\ op = ">" => r = Bool(Left(x, y) > Right(x, y))
                           /\ op = "<=" => r = Bool(Left(x, y) <= Right(x, y))
                           /\ op = ">=" => r = Bool(Left(x, y) >= Right(x, y))
                      /\ op = "zero?" => r = Bool(Signed(x) = 0)
                      /\ op = "positive?" => r = Bool(Signed(x) > 0)
                      /\ op = "negative?" => r = Bool(Signed(x) < 0)
    BY DEF OrderExact, Left, Right
  <2>1. /\ WellFormed(x) /\ WellFormed(y)
        /\ op \in Comparison => r \in Binary(op, x, y)
        /\ op \in Predicate => r \in Unary(op, x)
    BY DEF Inv
  <2>2. ASSUME op = "=", Canonical(y) PROVE r = Bool(Left(x, y) = Right(x, y))
    <3>1. r \in _int_eq(x, y)
      BY <2>1, <2>2 DEF Binary, Comparison
    <3> QED BY <2>1, <2>2, <3>1, EqFacts
  <2>3. ASSUME op = "<", Canonical(y) PROVE r = Bool(Left(x, y) < Right(x, y))
    <3>1. r \in _int_lt(x, y)
      BY <2>1, <2>3 DEF Binary, Comparison
    <3> QED BY <2>1, <2>3, <3>1, LtFacts
  <2>4. ASSUME op = ">", Canonical(y) PROVE r = Bool(Left(x, y) > Right(x, y))
    <3>1. r \in _int_gt(x, y)
      BY <2>1, <2>4 DEF Binary, Comparison
    <3> QED BY <2>1, <2>4, <3>1, GtFacts DEF Canonical
  <2>5. ASSUME op = "<=", Canonical(y) PROVE r = Bool(Left(x, y) <= Right(x, y))
    <3>1. r \in _int_le(x, y)
      BY <2>1, <2>5 DEF Binary, Comparison
    <3> QED BY <2>1, <2>5, <3>1, LeFacts
  <2>6. ASSUME op = ">=", Canonical(y) PROVE r = Bool(Left(x, y) >= Right(x, y))
    <3>1. r \in _int_ge(x, y)
      BY <2>1, <2>6 DEF Binary, Comparison
    <3> QED BY <2>1, <2>6, <3>1, GeFacts
  <2>7. ASSUME op = "zero?" PROVE r = Bool(Signed(x) = 0)
    <3>1. r \in _is_zero(x)
      BY <2>1, <2>7 DEF Unary, Predicate
    <3> QED BY <2>1, <3>1, ZeroFacts
  <2>8. ASSUME op = "positive?" PROVE r = Bool(Signed(x) > 0)
    <3>1. r \in _is_positive(x)
      BY <2>1, <2>8 DEF Unary, Predicate
    <3> QED BY <2>1, <3>1, SignFacts
  <2>9. ASSUME op = "negative?" PROVE r = Bool(Signed(x) < 0)
    <3>1. r \in _is_negative(x)
      BY <2>1, <2>9 DEF Unary, Predicate
    <3> QED BY <2>1, <3>1, SignFacts
  <2> QED BY <2>2, <2>3, <2>4, <2>5, <2>6, <2>7, <2>8, <2>9
<1> QED BY <1>1, Invariance, PTL

(* modulo has the sign of the divisor, remainder that of the dividend, and  *)
(* each differs from the dividend by a multiple of the divisor.             *)
THEOREM Moduli == Spec => []ModuloSound
<1>1. Inv => ModuloSound
  <2> SUFFICES ASSUME Inv, op \in {"modulo", "remainder"}, IsInt(r), y.num # 0
               PROVE  Residue(r.num, x.num, y.num, IF op = "modulo" THEN y.num ELSE x.num)
    BY DEF ModuloSound, Residue
  <2>1. WellFormed(x) /\ WellFormed(y) /\ r \in Binary(op, x, y)
    BY DEF Inv, Arithmetic
  <2>2. CASE op = "modulo"
    <3>1. r \in _int_modulo(x, y)
      BY <2>1, <2>2 DEF Binary
    <3> QED BY <2>1, <2>2, <3>1, ModuloFacts
  <2>3. CASE op = "remainder"
    <3>1. r \in _int_remainder(x, y)
      BY <2>1, <2>3 DEF Binary
    <3> QED BY <2>1, <2>3, <3>1, RemainderFacts
  <2> QED BY <2>2, <2>3
<1> QED BY <1>1, Invariance, PTL

(* A rounded fraction is the integer its primitive names (_floor, _ceiling, *)
(* _truncate, _round).                                                      *)
THEOREM Roundings == Spec => []RoundingSound
<1>1. Inv => RoundingSound
  <2> SUFFICES ASSUME Inv, op \in Rounding, IsFraction(x)
               PROVE  /\ IsInt(r)
                      /\ op = "floor" => Less(x, r) \in 0 .. x.den - 1
                      /\ op = "ceiling" => -Less(x, r) \in 0 .. x.den - 1
                      /\ op = "truncate" => Signum(x) * Less(x, r) \in 0 .. x.den - 1
                      /\ op = "round" => /\ 2 * Abs(Less(x, r)) <= x.den
                                        /\ Signum(x) * Less(x, r) * 2 < x.den
    BY DEF RoundingSound, Less
  <2>1. WellFormed(x) /\ r \in Unary(op, x)
    BY DEF Inv
  <2>2. CASE op = "floor"
    <3>1. r \in _floor(x)
      BY <2>1, <2>2 DEF Unary
    <3> QED BY <2>1, <2>2, <3>1, FloorFacts
  <2>3. CASE op = "ceiling"
    <3>1. r \in _ceiling(x)
      BY <2>1, <2>3 DEF Unary
    <3> QED BY <2>1, <2>3, <3>1, CeilingFacts
  <2>4. CASE op = "truncate"
    <3>1. r \in _truncate(x)
      BY <2>1, <2>4 DEF Unary
    <3> QED BY <2>1, <2>4, <3>1, TruncateFacts
  <2>5. CASE op = "round"
    <3>1. r \in _round(x)
      BY <2>1, <2>5 DEF Unary
    <3> QED BY <2>1, <2>5, <3>1, RoundFacts
  <2> QED BY <2>2, <2>3, <2>4, <2>5 DEF Rounding
<1> QED BY <1>1, Invariance, PTL
=============================================================================
