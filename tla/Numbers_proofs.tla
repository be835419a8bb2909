---------------------------- MODULE Numbers_proofs ----------------------------
(* Induction and recursion on numbers, and the arithmetic of shifts and masks. *)
EXTENDS Numbers, WellFoundedInduction, TLAPS

-----------------------------------------------------------------------------
(* Induction and recursion on numbers, in first-order form.                    *)

LEMMA LeastNumber ==
  ASSUME NEW T \in SUBSET Nat, T # {}
  PROVE  \E m \in T : \A k \in T : m <= k
<1>1. T \subseteq Nat
  OBVIOUS
<1>2. PICK x \in T : \A y \in T : ~(<<y, x>> \in OpToRel(<, Nat))
  BY <1>1, WFMin, NatLessThanWellFounded
<1>3. ASSUME NEW y \in T, y < x PROVE FALSE
  <2>1. <<y, x>> \in OpToRel(<, Nat)
    BY <1>3 DEF OpToRel
  <2> QED BY <1>2, <2>1
<1>4. \A k \in T : x <= k
  BY <1>3
<1> QED BY <1>2, <1>4

(* A set of numbers with 0 and with the successor of each of its members below *)
(* n holds every number up to n.                                               *)
LEMMA Upward ==
  ASSUME NEW n \in Nat, NEW G, 0 \in G, \A k \in 1 .. n : k - 1 \in G => k \in G
  PROVE  \A k \in 0 .. n : k \in G
<1> DEFINE T == {k \in 0 .. n : k \notin G}
<1>1. SUFFICES ASSUME T # {} PROVE FALSE
  OBVIOUS
<1>2. T \in SUBSET Nat
  OBVIOUS
<1>3. PICK m \in T : \A k \in T : m <= k
  <2> HIDE DEF T
  <2> QED BY <1>1, <1>2, LeastNumber
<1>4. m \in 1 .. n /\ m - 1 \in 0 .. n /\ m - 1 \notin T
  BY <1>3
<1> QED BY <1>3, <1>4

(* n steps, each a function of the set S to itself, can be iterated.           *)
Steps(n, S) == [1 .. n -> [S -> S]]
Iterations(n, S, base, step) ==
  {f \in [0 .. n -> S] : f[0] = base /\ \A k \in 1 .. n : f[k] = step[k][f[k - 1]]}

LEMMA Iterates ==
  ASSUME NEW n \in Nat, NEW S, NEW base \in S, NEW step \in Steps(n, S)
  PROVE  Iterations(n, S, base, step) # {}
<1> DEFINE Good(m) == \E f \in [0 .. m -> S] :
                         f[0] = base /\ \A k \in 1 .. m : f[k] = step[k][f[k - 1]]
           G == {m \in 0 .. n : Good(m)}
<1>1. Good(0)
  <2> DEFINE f == [k \in 0 .. 0 |-> base]
  <2>1. f \in [0 .. 0 -> S] /\ f[0] = base /\ \A k \in 1 .. 0 : f[k] = step[k][f[k - 1]]
    OBVIOUS
  <2> HIDE DEF f
  <2> QED BY <2>1
<1>2. ASSUME NEW m \in 1 .. n, Good(m - 1) PROVE Good(m)
  <2>1. PICK f \in [0 .. m - 1 -> S] :
               f[0] = base /\ \A k \in 1 .. m - 1 : f[k] = step[k][f[k - 1]]
    BY <1>2
  <2> DEFINE g == [k \in 0 .. m |-> IF k < m THEN f[k] ELSE step[m][f[m - 1]]]
  <2>2. g \in [0 .. m -> S]
    <3>1. step[m] \in [S -> S] /\ f[m - 1] \in S
      BY <2>1 DEF Steps
    <3> QED BY <3>1
  <2>3. g[0] = base /\ \A k \in 1 .. m : g[k] = step[k][g[k - 1]]
    BY <2>1
  <2> HIDE DEF g
  <2> QED BY <2>2, <2>3
<1> HIDE DEF Good
<1>3. 0 \in G /\ \A k \in 1 .. n : k - 1 \in G => k \in G
  BY <1>1, <1>2
<1> HIDE DEF G
<1>4. \A k \in 0 .. n : k \in G
  BY <1>3, Upward
<1>5. n \in G
  BY <1>4
<1> QED BY <1>5 DEF G, Good, Iterations

-----------------------------------------------------------------------------
(* Powers of two, remainders and bits                                          *)

Doubling(w, p) == /\ p \in [0 .. w -> Nat] /\ p[0] = 1
                  /\ \A k \in 1 .. w : p[k] = 2 * p[k - 1]

LEMMA Powers ==
  ASSUME NEW w \in Nat
  PROVE  \E p : Doubling(w, p) /\ Pow2(w) = p[w]
<1> DEFINE step == [k \in 1 .. w |-> [x \in Nat |-> 2 * x]]
           Def(q) == [k \in 0 .. w |-> IF k = 0 THEN 1 ELSE 2 * q[k - 1]]
           p == CHOOSE q : q = Def(q)
<1>1. step \in Steps(w, Nat)
  BY DEF Steps
<1>2. PICK q \in [0 .. w -> Nat] : q[0] = 1 /\ \A k \in 1 .. w : q[k] = step[k][q[k - 1]]
  <2> HIDE DEF step
  <2>1. Iterations(w, Nat, 1, step) # {}
    BY <1>1, Iterates
  <2> QED BY <2>1 DEF Iterations
<1>3. \A k \in 1 .. w : q[k] = 2 * q[k - 1]
  <2> TAKE k \in 1 .. w
  <2>1. q[k - 1] \in Nat
    BY <1>2
  <2>2. step[k][q[k - 1]] = 2 * q[k - 1]
    BY <2>1
  <2> QED BY <1>2, <2>2
<1>4. q = Def(q)
  BY <1>2, <1>3
<1>5. p = Def(p)
  <2> HIDE DEF Def
  <2> QED BY <1>4
<1>6. Pow2(w) = p[w]
  BY DEF Pow2
<1> HIDE DEF p
<1>7. DOMAIN p = 0 .. w /\ p[0] = 1 /\ \A k \in 1 .. w : p[k] = 2 * p[k - 1]
  BY <1>5
<1> DEFINE G == {k \in 0 .. w : p[k] \in Nat}
<1>8. \A k \in 0 .. w : k \in G
  <2>1. 0 \in G /\ \A k \in 1 .. w : k - 1 \in G => k \in G
    BY <1>7
  <2> HIDE DEF G
  <2> QED BY <2>1, Upward
<1>9. p \in [0 .. w -> Nat]
  <2>1. p = [k \in 0 .. w |-> p[k]]
    BY <1>5, <1>7
  <2> QED BY <1>8, <2>1
<1> QED BY <1>6, <1>7, <1>9 DEF Doubling

LEMMA PowersAgree ==
  ASSUME NEW v \in Nat, NEW w \in Nat, NEW p, NEW q, Doubling(v, p), Doubling(w, q), v <= w
  PROVE  p[v] = q[v]
<1> DEFINE G == {k \in 0 .. v : p[k] = q[k]}
<1>1. 0 \in G /\ \A k \in 1 .. v : k - 1 \in G => k \in G
  <2>1. \A k \in 1 .. v : p[k] = 2 * p[k - 1]
    BY DEF Doubling
  <2>2. \A k \in 1 .. v : q[k] = 2 * q[k - 1]
    BY DEF Doubling
  <2>3. p[0] = q[0]
    BY DEF Doubling
  <2> QED BY <2>1, <2>2, <2>3
<1> HIDE DEF G
<1>2. v \in G
  BY <1>1, Upward
<1> QED BY <1>2 DEF G

LEMMA PowZero == Pow2(0) = 1
<1>1. PICK p : Doubling(0, p) /\ Pow2(0) = p[0]
  BY Powers
<1> QED BY <1>1 DEF Doubling

LEMMA PowNext == ASSUME NEW w \in Nat PROVE Pow2(w + 1) = 2 * Pow2(w)
<1>1. PICK p : Doubling(w, p) /\ Pow2(w) = p[w]
  BY Powers
<1>2. PICK q : Doubling(w + 1, q) /\ Pow2(w + 1) = q[w + 1]
  BY Powers
<1>3. q[w + 1] = 2 * q[w]
  BY <1>2 DEF Doubling
<1>4. p[w] = q[w]
  BY <1>1, <1>2, PowersAgree
<1> QED BY <1>1, <1>2, <1>3, <1>4

LEMMA PowPositive == \A w \in Nat : Pow2(w) \in Nat \ {0}
<1> SUFFICES ASSUME NEW w \in Nat PROVE Pow2(w) \in Nat \ {0}
  OBVIOUS
<1> DEFINE G == {k \in 0 .. w : Pow2(k) \in Nat \ {0}}
<1>1. ASSUME NEW k \in 1 .. w, Pow2(k - 1) \in Nat \ {0} PROVE Pow2(k) \in Nat \ {0}
  <2>1. Pow2((k - 1) + 1) = 2 * Pow2(k - 1)
    BY PowNext
  <2>2. (k - 1) + 1 = k
    OBVIOUS
  <2> QED BY <1>1, <2>1, <2>2
<1>2. 0 \in G /\ \A k \in 1 .. w : k - 1 \in G => k \in G
  BY <1>1, PowZero
<1> HIDE DEF G
<1>3. w \in G
  BY <1>2, Upward
<1> QED BY <1>3 DEF G

LEMMA PowSum == ASSUME NEW v \in Nat, NEW w \in Nat PROVE Pow2(v + w) = Pow2(v) * Pow2(w)
<1> DEFINE G == {k \in 0 .. w : Pow2(v + k) = Pow2(v) * Pow2(k)}
<1>1. ASSUME NEW k \in 1 .. w, Pow2(v + (k - 1)) = Pow2(v) * Pow2(k - 1)
      PROVE  Pow2(v + k) = Pow2(v) * Pow2(k)
  <2>1. Pow2((k - 1) + 1) = 2 * Pow2(k - 1) /\ Pow2((v + (k - 1)) + 1) = 2 * Pow2(v + (k - 1))
    BY PowNext
  <2>2. (k - 1) + 1 = k /\ (v + (k - 1)) + 1 = v + k
    OBVIOUS
  <2>3. Pow2(v) \in Nat /\ Pow2(k - 1) \in Nat
    BY PowPositive
  <2>4. 2 * (Pow2(v) * Pow2(k - 1)) = Pow2(v) * (2 * Pow2(k - 1))
    BY <2>3
  <2> QED BY <1>1, <2>1, <2>2, <2>4
<1>2. 0 \in G
  BY PowZero, PowPositive
<1>3. \A k \in 1 .. w : k - 1 \in G => k \in G
  BY <1>1
<1> HIDE DEF G
<1>4. w \in G
  BY <1>2, <1>3, Upward
<1> QED BY <1>4 DEF G

LEMMA Remainder ==
  ASSUME NEW v \in Int, NEW m \in Nat \ {0}
  PROVE  v % m \in 0 .. m - 1
  OBVIOUS

LEMMA Quotient ==
  ASSUME NEW v \in Nat, NEW m \in Nat \ {0}
  PROVE  v \div m \in Nat /\ v \div m <= v
  OBVIOUS

LEMMA Concatenated ==
  ASSUME NEW x \in Nat, NEW y \in Nat, NEW p \in Nat, NEW q \in Nat, x <= p - 1, y <= q - 1
  PROVE  x * q + y \in 0 .. p * q - 1
  OBVIOUS

LEMMA HalfOf ==
  ASSUME NEW v \in Nat, NEW b \in 0 .. 1, NEW m \in Nat \ {0}
  PROVE  (2 * v + b) \div (2 * m) = v \div m /\ (2 * v + b) % 2 = b
  OBVIOUS

LEMMA QuotientIs ==
  ASSUME NEW v \in Nat, NEW m \in Nat \ {0}, NEW q \in Nat, NEW r \in 0 .. m - 1, v = q * m + r
  PROVE  v \div m = q /\ v % m = r
  OBVIOUS

LEMMA DivMod ==
  ASSUME NEW v \in Nat, NEW m \in Nat \ {0}
  PROVE  v \div m \in Nat /\ v % m \in 0 .. m - 1 /\ v = (v \div m) * m + (v % m)
  OBVIOUS

(* Two right shifts are one.                                                   *)
LEMMA DivDiv ==
  ASSUME NEW v \in Nat, NEW m \in Nat \ {0}, NEW n \in Nat \ {0}
  PROVE  (v \div m) \div n = v \div (m * n)
<1> DEFINE a == v \div m
           r == v % m
           q == a \div n
           s == a % n
<1>0. m \in Nat /\ n \in Nat /\ m > 0 /\ n > 0
  OBVIOUS
<1>1. a \in Nat /\ r \in 0 .. m - 1 /\ v = a * m + r
  BY DivMod
<1>2. q \in Nat /\ s \in 0 .. n - 1 /\ a = q * n + s
  BY <1>1, DivMod
<1>3. m * n \in Nat \ {0}
  OBVIOUS
<1> HIDE DEF a, r, q, s
<1>4. s * m + r \in 0 .. m * n - 1
  BY <1>1, <1>2
<1>5. (q * n + s) * m = q * (m * n) + s * m
  BY <1>2
<1>6. v = q * (m * n) + (s * m + r)
  BY <1>1, <1>2, <1>5
<1>7. v \div (m * n) = q
  BY <1>2, <1>3, <1>4, <1>6, QuotientIs
<1> QED BY <1>7 DEF q, a

(* The bits from s up are those from s + n up, then n more.                    *)
LEMMA Split ==
  ASSUME NEW v \in Nat, NEW s \in Nat, NEW n \in Nat
  PROVE  /\ (v \div Pow2(s)) \div Pow2(n) = v \div Pow2(s + n)
         /\ v \div Pow2(s) = (v \div Pow2(s + n)) * Pow2(n) + ((v \div Pow2(s)) % Pow2(n))
<1>1. Pow2(s) \in Nat \ {0} /\ Pow2(n) \in Nat \ {0}
  BY PowPositive
<1>2. (v \div Pow2(s)) \div Pow2(n) = v \div Pow2(s + n)
  <2>1. Pow2(s + n) = Pow2(s) * Pow2(n)
    BY PowSum
  <2> QED BY <1>1, <2>1, DivDiv
<1>3. v \div Pow2(s) \in Nat
  BY <1>1, DivMod
<1> QED BY <1>1, <1>2, <1>3, DivMod
=============================================================================
