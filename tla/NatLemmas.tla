----------------------------- MODULE NatLemmas ------------------------------
(***************************************************************************)
(* What the proofs of several components need of natural numbers.          *)
(***************************************************************************)
EXTENDS Integers, FiniteSetTheorems, WellFoundedInduction, TLAPS

(* A set of naturals that is not empty has a least element: stands in for  *)
(* induction wherever a CHOOSE of a first index must be shown to exist.    *)
LEMMA LeastExists ==
  ASSUME NEW T \in SUBSET Nat, T # {}
  PROVE  \E x \in T : \A y \in T : x <= y
<1> DEFINE R == OpToRel(<, Nat)
<1>1. R = {xx \in Nat \X Nat : xx[1] < xx[2]}
  BY DEF OpToRel
<1>2. IsWellFoundedOn(R, Nat)
  BY NatLessThanWellFounded
<1> HIDE DEF R
<1>3. PICK x \in T : \A y \in T : ~ (<<y, x>> \in R)
  BY <1>2, WFMin
<1>4. \A y \in T : <<y, x>> \in Nat \X Nat /\ <<y, x>>[1] = y /\ <<y, x>>[2] = x
  OBVIOUS
<1>5. \A y \in T : ~(y < x)
  BY <1>1, <1>3, <1>4
<1> QED
  BY <1>5

(* A bounded one has a greatest element. *)
LEMMA GreatestExists ==
  ASSUME NEW T \in SUBSET Nat, T # {}, NEW b \in Nat, \A x \in T : x <= b
  PROVE  \E x \in T : \A y \in T : y <= x
<1> DEFINE U == {b - x : x \in T}
<1>1. U \in SUBSET Nat /\ U # {}
  <2>1. \A x \in T : b - x \in Nat
    OBVIOUS
  <2> QED
    BY <2>1
<1>2. PICK u \in U : \A v \in U : u <= v
  BY <1>1, LeastExists
<1>3. PICK x \in T : u = b - x
  OBVIOUS
<1>4. \A y \in T : b - x <= b - y
  BY <1>2, <1>3
<1> QED
  BY <1>4

(* Induction, for the set of the naturals of which a statement holds. *)
LEMMA AllNaturals ==
  ASSUME NEW T \in SUBSET Nat, 0 \in T, \A k \in T : k + 1 \in T
  PROVE  T = Nat
<1> SUFFICES ASSUME Nat \ T # {} PROVE FALSE
  OBVIOUS
<1>1. PICK x \in Nat \ T : \A y \in Nat \ T : x <= y
  BY LeastExists
<1>2. x - 1 \in Nat /\ x - 1 \in T
  BY <1>1
<1> QED
  BY <1>1, <1>2

(* A function may be defined by what it is at 0 and what F makes of it     *)
(* from there on.                                                          *)
Follows(f, a, F, n) == /\ f[0] = a
                       /\ \A k \in Nat : k < n => f[k + 1] = F[f[k]]

LEMMA SameStart ==
  ASSUME NEW a, NEW F, NEW n \in Nat, NEW f, NEW g, Follows(f, a, F, n), Follows(g, a, F, n)
  PROVE  \A k \in Nat : k <= n => f[k] = g[k]
<1> DEFINE T == {k \in Nat : k <= n => f[k] = g[k]}
<1>1. 0 \in T
  BY DEF Follows
<1>2. \A k \in T : k + 1 \in T
  <2> SUFFICES ASSUME NEW k \in T, k + 1 <= n PROVE f[k + 1] = g[k + 1]
    OBVIOUS
  <2>1. k \in Nat /\ k < n /\ f[k] = g[k]
    OBVIOUS
  <2> QED
    BY <2>1 DEF Follows
<1>3. T = Nat
  <2> HIDE DEF T
  <2>1. T \in SUBSET Nat
    BY DEF T
  <2> QED
    BY <1>1, <1>2, <2>1, AllNaturals
<1> QED
  BY <1>3

LEMMA DefinedTo ==
  ASSUME NEW S, NEW a \in S, NEW F \in [S -> S], NEW n \in Nat
  PROVE  \E f \in [Nat -> S] : Follows(f, a, F, n)
<1> DEFINE T == {m \in Nat : \E f \in [Nat -> S] : Follows(f, a, F, m)}
<1>1. 0 \in T
  <2> DEFINE f == [k \in Nat |-> a]
  <2>1. f \in [Nat -> S] /\ f[0] = a
    OBVIOUS
  <2> HIDE DEF f
  <2>2. Follows(f, a, F, 0)
    BY <2>1 DEF Follows
  <2> QED
    BY <2>1, <2>2
<1>2. \A m \in T : m + 1 \in T
  <2> SUFFICES ASSUME NEW m \in T PROVE \E g \in [Nat -> S] : Follows(g, a, F, m + 1)
    OBVIOUS
  <2>1. PICK f \in [Nat -> S] : Follows(f, a, F, m)
    OBVIOUS
  <2> DEFINE g == [k \in Nat |-> IF k <= m THEN f[k] ELSE F[f[m]]]
  <2>2. m \in Nat /\ f[m] \in S /\ F[f[m]] \in S
    OBVIOUS
  <2>3. g \in [Nat -> S] /\ \A k \in Nat : g[k] = IF k <= m THEN f[k] ELSE F[f[m]]
    BY <2>2
  <2> HIDE DEF g
  <2>4. Follows(g, a, F, m + 1)
    BY <2>1, <2>2, <2>3 DEF Follows
  <2> QED
    BY <2>3, <2>4
<1>3. T = Nat
  <2> HIDE DEF T
  <2>1. T \in SUBSET Nat
    BY DEF T
  <2> QED
    BY <1>1, <1>2, <2>1, AllNaturals
<1> QED
  BY <1>3

LEMMA DefinedOnward ==
  ASSUME NEW S, NEW a \in S, NEW F \in [S -> S]
  PROVE  \E f \in [Nat -> S] : f[0] = a /\ \A k \in Nat : f[k + 1] = F[f[k]]
<1> DEFINE Upto(n) == CHOOSE f \in [Nat -> S] : Follows(f, a, F, n)
<1>1. \A n \in Nat : Upto(n) \in [Nat -> S] /\ Follows(Upto(n), a, F, n)
  BY DefinedTo
<1> DEFINE h == [k \in Nat |-> Upto(k)[k]]
<1> HIDE DEF Upto
<1>2. h \in [Nat -> S]
  BY <1>1
<1>3. h[0] = a
  BY <1>1 DEF Follows
<1>4. ASSUME NEW k \in Nat PROVE h[k + 1] = F[h[k]]
  <2>1. k + 1 \in Nat /\ h[k + 1] = Upto(k + 1)[k + 1] /\ h[k] = Upto(k)[k]
    OBVIOUS
  <2>2. Follows(Upto(k + 1), a, F, k + 1) /\ Follows(Upto(k), a, F, k)
    BY <1>1, <2>1
  <2>3. Follows(Upto(k + 1), a, F, k)
    BY <2>2 DEF Follows
  <2>4. Upto(k + 1)[k] = Upto(k)[k]
    BY <2>2, <2>3, SameStart
  <2>5. Upto(k + 1)[k + 1] = F[Upto(k + 1)[k]]
    BY <2>2 DEF Follows
  <2> QED
    BY <2>1, <2>4, <2>5
<1> QED
  BY <1>2, <1>3, <1>4

(* Such sequences exist, and so do those where what is made of a value may *)
(* depend on the place.                                                    *)
Iterates(S, a, F) == \E f \in [Nat -> S] : f[0] = a /\ \A k \in Nat : f[k + 1] = F[f[k]]

LEMMA IteratesExist ==
  ASSUME NEW S, NEW a \in S, NEW F \in [S -> S]
  PROVE  Iterates(S, a, F)
BY DefinedOnward DEF Iterates

Makes(S) == [Nat -> [S -> S]]
Stepwise(S, a, F) == \E f \in [Nat -> S] : f[0] = a /\ \A k \in Nat : f[k + 1] = F[k][f[k]]

LEMMA DefinedStepwise ==
  ASSUME NEW S, NEW a \in S, NEW F \in Makes(S)
  PROVE  Stepwise(S, a, F)
<1> DEFINE P == [at : Nat, val : S]
           G == [p \in P |-> [at |-> p.at + 1, val |-> F[p.at][p.val]]]
           start == [at |-> 0, val |-> a]
<1>1. G \in [P -> P]
  <2>1. \A p \in P : p.at + 1 \in Nat /\ F[p.at][p.val] \in S
    BY DEF Makes
  <2> QED
    BY <2>1
<1>2. start \in P
  OBVIOUS
<1>3. PICK g \in [Nat -> P] : g[0] = start /\ \A k \in Nat : g[k + 1] = G[g[k]]
  <2> HIDE DEF G, P, start
  <2>1. Iterates(P, start, G)
    BY <1>1, <1>2, IteratesExist
  <2> QED
    BY <2>1 DEF Iterates
<1>4. \A k \in Nat : g[k] \in P /\ g[k + 1] = [at |-> g[k].at + 1, val |-> F[g[k].at][g[k].val]]
  BY <1>3
<1> HIDE DEF P, G
<1> DEFINE T == {k \in Nat : g[k].at = k}
<1>5. T = Nat
  <2>1. 0 \in T
    BY <1>3
  <2>2. \A k \in T : k + 1 \in T
    <3> SUFFICES ASSUME NEW k \in T PROVE g[k + 1].at = k + 1
      OBVIOUS
    <3>1. k \in Nat /\ g[k].at = k
      OBVIOUS
    <3>2. g[k + 1] = [at |-> g[k].at + 1, val |-> F[g[k].at][g[k].val]]
      BY <1>4, <3>1
    <3> HIDE DEF T
    <3> QED
      BY <3>1, <3>2
  <2> HIDE DEF T
  <2>3. T \in SUBSET Nat
    BY DEF T
  <2> QED
    BY <2>1, <2>2, <2>3, AllNaturals
<1> DEFINE f == [k \in Nat |-> g[k].val]
<1>6. f \in [Nat -> S]
  BY <1>4 DEF P
<1>7. f[0] = a
  BY <1>3
<1>8. \A k \in Nat : f[k + 1] = F[k][f[k]]
  <2> TAKE k \in Nat
  <2>1. g[k].at = k
    BY <1>5
  <2>2. g[k + 1] = [at |-> g[k].at + 1, val |-> F[g[k].at][g[k].val]]
    BY <1>4
  <2>3. f[k + 1] = g[k + 1].val /\ f[k] = g[k].val
    OBVIOUS
  <2> HIDE DEF f
  <2> QED
    BY <2>1, <2>2, <2>3
<1> QED
  BY <1>6, <1>7, <1>8 DEF Stepwise

(* Multiples of d differ by d, or more. *)
LEMMA MultiplesApart ==
  ASSUME NEW d \in Nat \ {0}, NEW a \in Nat, NEW b \in Nat, a % d = 0, b % d = 0,
         a <= b, b < a + d
  PROVE  a = b
<1>1. a = d * (a \div d) /\ b = d * (b \div d)
  OBVIOUS
<1> DEFINE p == a \div d
           q == b \div d
<1>2. p \in Nat /\ q \in Nat
  OBVIOUS
<1>3. a = d * p /\ b = d * q
  BY <1>1
<1> HIDE DEF p, q
<1>4. ~(q < p)
  <2> SUFFICES ASSUME q < p PROVE d * p < d * p
    BY <1>2
  <2>1. d * (q + 1) <= d * p /\ d * (q + 1) = d * q + d
    BY <1>2
  <2> QED
    BY <1>2, <1>3, <2>1
<1>5. ~(p < q)
  <2> SUFFICES ASSUME p < q PROVE d * q < d * q
    BY <1>2
  <2>1. d * (p + 1) <= d * q /\ d * (p + 1) = d * p + d
    BY <1>2
  <2> QED
    BY <1>2, <1>3, <2>1
<1> QED
  BY <1>2, <1>3, <1>4, <1>5

LEMMA NextMultiple ==
  ASSUME NEW d \in Nat \ {0}, NEW a \in Nat, a % d = 0 PROVE (a + d) % d = 0
<1>1. a = d * (a \div d) /\ a \div d \in Nat
  OBVIOUS
<1>2. PICK p \in Nat : a = d * p
  BY <1>1
<1>3. a + d = d * (p + 1) /\ p + 1 \in Nat
  BY <1>2
<1>4. \A q \in Nat : (d * q) % d = 0
  OBVIOUS
<1> QED
  BY <1>3, <1>4
=============================================================================
