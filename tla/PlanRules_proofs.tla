--------------------------- MODULE PlanRules_proofs ---------------------------
(***************************************************************************)
(* What the operators of PlanRules do, for every forest, snapshot and      *)
(* plan: ancestor chains are found within their bound, snapshots hold      *)
(* nothing that Drive does not, and an operation is accepted only for      *)
(* what validate_plan proved of it.  The lemmas on chains are inductions,  *)
(* by the least counterexample: the natural numbers are well founded.      *)
(***************************************************************************)
EXTENDS PlanRules, FiniteSetTheorems, WellFoundedInduction, TLAPS

-----------------------------------------------------------------------------
(* Numbers. *)

Less == {p \in Nat \X Nat : p[1] < p[2]}

(* Less is the order of the naturals as a relation, hence well founded. *)
LEMMA LessIsWellFounded == IsWellFoundedOn(Less, Nat)
<1>1. Less = OpToRel(<, Nat)
  BY DEF OpToRel, Less
<1>2. QED
  BY <1>1, NatLessThanWellFounded, Zenon

(* Every set of numbers that is not empty has a least member. *)
LEMMA LeastNumber ==
  ASSUME NEW T, T \subseteq Nat, T # {}
  PROVE  \E m \in T : \A k \in T : m <= k
<1>1. PICK m \in T : \A y \in T : ~ (<<y, m>> \in Less)
  BY LessIsWellFounded, WFMin
<1>2. ASSUME NEW k \in T PROVE m <= k
  <2>1. <<k, m>> \in Nat \X Nat /\ <<k, m>>[1] = k /\ <<k, m>>[2] = m
    OBVIOUS
  <2>2. ~ (k < m)
    BY <1>1, <2>1 DEF Less
  <2>3. QED
    BY <2>2
<1>3. QED
  BY <1>2

(* Induction: a set that has 0, and with every number the next, has them all. *)
LEMMA Induction ==
  ASSUME NEW S, 0 \in S, \A n \in Nat : n \in S => n + 1 \in S
  PROVE  Nat \subseteq S
<1> SUFFICES ASSUME Nat \ S # {} PROVE FALSE
  OBVIOUS
<1>1. PICK m \in Nat \ S : \A k \in Nat \ S : m <= k
  BY LeastNumber
<1>2. m # 0 /\ m - 1 \in Nat /\ m - 1 \in S
  BY <1>1
<1>3. QED
  BY <1>1, <1>2

(* A finite set has a number of members. *)
LEMMA CardinalityIsNat ==
  ASSUME NEW S, IsFiniteSet(S)
  PROVE  Cardinality(S) \in Nat
  BY FS_CardinalityType

(* m different values taken from a finite set: it has m members at least. *)
LEMMA Pigeonhole ==
  ASSUME NEW S, IsFiniteSet(S), NEW m \in Nat, NEW g \in [0 .. m - 1 -> S],
         \A i, j \in 0 .. m - 1 : g[i] = g[j] => i = j
  PROVE  m <= Cardinality(S)
<1>1. IsFiniteSet(0 .. m - 1) /\ Cardinality(0 .. m - 1) = m
  <2>1. 0 \in Int /\ m - 1 \in Int
    OBVIOUS
  <2>2. IsFiniteSet(0 .. m - 1) /\ Cardinality(0 .. m - 1) = IF 0 > m - 1 THEN 0 ELSE (m - 1) - 0 + 1
    BY <2>1, FS_Interval
  <2>3. QED
    BY <2>2
<1>2. g \in Injection(0 .. m - 1, S)
  BY DEF Injection, IsInjective
<1>3. QED
  BY <1>1, <1>2, FS_Injection

-----------------------------------------------------------------------------
(* Chains of parents. *)

IsUp(g, f, n, t) == g = [i \in 0 .. n |-> IF i = 0 THEN f ELSE Above(g[i - 1], t)]

(* A function that climbs for n steps exists ... *)
LEMMA ClimbExists ==
  ASSUME NEW f, NEW t, NEW n \in Nat
  PROVE  \E g : IsUp(g, f, n, t)
<1> DEFINE S == {k \in Nat : \E g : IsUp(g, f, k, t)}
<1>1. 0 \in S
  <2>1. IsUp([i \in 0 .. 0 |-> f], f, 0, t)
    BY DEF IsUp
  <2>2. QED
    BY <2>1
<1>2. ASSUME NEW k \in Nat, k \in S PROVE k + 1 \in S
  <2>1. PICK g : IsUp(g, f, k, t)
    BY <1>2
  <2> DEFINE h == [i \in 0 .. k + 1 |-> IF i = k + 1 THEN Above(g[k], t) ELSE g[i]]
  <2>2. ASSUME NEW i \in 0 .. k + 1
        PROVE  h[i] = IF i = 0 THEN f ELSE Above(h[i - 1], t)
    <3>1. CASE i = k + 1
      BY <3>1
    <3>2. CASE i # k + 1
      <4>1. i \in 0 .. k /\ h[i] = g[i] /\ (i # 0 => h[i - 1] = g[i - 1])
        BY <3>2
      <4>2. g[i] = IF i = 0 THEN f ELSE Above(g[i - 1], t)
        BY <2>1, <4>1 DEF IsUp
      <4>3. QED
        BY <4>1, <4>2
    <3>3. QED
      BY <3>1, <3>2
  <2>3. h = [i \in 0 .. k + 1 |-> IF i = 0 THEN f ELSE Above(h[i - 1], t)]
    BY <2>2
  <2>4. IsUp(h, f, k + 1, t)
    BY <2>3 DEF IsUp
  <2>5. QED
    BY <2>4
<1>3. Nat \subseteq S
  BY <1>1, <1>2, Induction
<1>4. QED
  BY <1>3

(* ... and any two of them agree where both are defined. *)
LEMMA ClimbIsUnique ==
  ASSUME NEW f, NEW t, NEW m \in Nat, NEW n \in Nat, NEW g, NEW h,
         IsUp(g, f, m, t), IsUp(h, f, n, t), NEW k \in 0 .. m, k <= n
  PROVE  g[k] = h[k]
<1> DEFINE S == {i \in Nat : i <= m /\ i <= n => g[i] = h[i]}
<1>1. 0 \in S
  BY DEF IsUp
<1>2. ASSUME NEW i \in Nat, i \in S PROVE i + 1 \in S
  <2> SUFFICES ASSUME i + 1 <= m, i + 1 <= n PROVE g[i + 1] = h[i + 1]
    OBVIOUS
  <2>1. g[i] = h[i]
    BY <1>2
  <2>2. i + 1 \in 0 .. m /\ i + 1 \in 0 .. n /\ i + 1 # 0 /\ (i + 1) - 1 = i
    OBVIOUS
  <2>3. g[i + 1] = Above(g[i], t)
    BY <2>2 DEF IsUp
  <2>4. h[i + 1] = Above(h[i], t)
    BY <2>2 DEF IsUp
  <2>5. QED
    BY <2>1, <2>3, <2>4
<1>3. Nat \subseteq S
  BY <1>1, <1>2, Induction
<1>4. QED
  BY <1>3

(* Up is where such a function arrives. *)
LEMMA UpIsClimb ==
  ASSUME NEW f, NEW t, NEW n \in Nat
  PROVE  \E g : IsUp(g, f, n, t) /\ Up(f, n, t) = g[n]
<1>1. PICK h : IsUp(h, f, n, t)
  BY ClimbExists
<1>2. IsUp(CHOOSE g : IsUp(g, f, n, t), f, n, t)
  BY <1>1
<1>3. Up(f, n, t) = (CHOOSE g : IsUp(g, f, n, t))[n]
  BY <1>1 DEF Up, IsUp
<1>4. QED
  BY <1>2, <1>3

(* The recursion equations of Up. *)
LEMMA UpZero ==
  ASSUME NEW f, NEW t
  PROVE  Up(f, 0, t) = f
<1>1. PICK g : IsUp(g, f, 0, t) /\ Up(f, 0, t) = g[0]
  BY UpIsClimb
<1>2. QED
  BY <1>1 DEF IsUp

LEMMA UpNext ==
  ASSUME NEW f, NEW t, NEW n \in Nat
  PROVE  Up(f, n + 1, t) = Above(Up(f, n, t), t)
<1>1. PICK g : IsUp(g, f, n + 1, t) /\ Up(f, n + 1, t) = g[n + 1]
  BY UpIsClimb
<1>2. PICK h : IsUp(h, f, n, t) /\ Up(f, n, t) = h[n]
  BY UpIsClimb
<1>3. g[n] = h[n]
  <2>1. n \in 0 .. n + 1 /\ n <= n /\ n + 1 \in Nat
    OBVIOUS
  <2>2. QED
    BY <1>1, <1>2, <2>1, ClimbIsUnique
<1>4. g[n + 1] = Above(g[n], t)
  <2>1. n + 1 \in 0 .. n + 1 /\ n + 1 # 0 /\ (n + 1) - 1 = n
    OBVIOUS
  <2>2. QED
    BY <1>1, <2>1 DEF IsUp
<1>5. QED
  BY <1>1, <1>2, <1>3, <1>4

(* Climbing m + n steps is climbing m, then n. *)
LEMMA UpSum ==
  ASSUME NEW f, NEW t, NEW m \in Nat, NEW n \in Nat
  PROVE  Up(f, m + n, t) = Up(Up(f, m, t), n, t)
<1> DEFINE S == {k \in Nat : Up(f, m + k, t) = Up(Up(f, m, t), k, t)}
<1>1. 0 \in S
  BY UpZero
<1>2. ASSUME NEW k \in Nat, k \in S PROVE k + 1 \in S
  <2>1. m + (k + 1) = (m + k) + 1 /\ m + k \in Nat
    OBVIOUS
  <2>2. Up(f, m + (k + 1), t) = Above(Up(f, m + k, t), t)
    BY <2>1, UpNext
  <2>3. Up(Up(f, m, t), k + 1, t) = Above(Up(Up(f, m, t), k, t), t)
    BY UpNext
  <2>4. QED
    BY <1>2, <2>2, <2>3
<1>3. Nat \subseteq S
  BY <1>1, <1>2, Induction
<1>4. QED
  BY <1>3

(* Nothing is above None. *)
LEMMA NothingAboveNone ==
  ASSUME NEW t, None \notin DOMAIN t, NEW n \in Nat
  PROVE  Up(None, n, t) = None
<1> DEFINE S == {k \in Nat : Up(None, k, t) = None}
<1>1. 0 \in S
  BY UpZero
<1>2. ASSUME NEW k \in Nat, k \in S PROVE k + 1 \in S
  BY <1>2, UpNext DEF Above
<1>3. Nat \subseteq S
  BY <1>1, <1>2, Induction
<1>4. QED
  BY <1>3

(* A chain leaves the forest only for good. *)
LEMMA ChainStaysInside ==
  ASSUME NEW t, None \notin DOMAIN t, NEW f, NEW n \in Nat, Up(f, n, t) # None,
         NEW k \in Nat, k < n
  PROVE  Up(f, k, t) \in DOMAIN t
<1> SUFFICES ASSUME Up(f, k, t) \notin DOMAIN t PROVE FALSE
  OBVIOUS
<1>1. Up(f, k + 1, t) = None
  BY UpNext DEF Above
<1>2. n = (k + 1) + (n - (k + 1)) /\ k + 1 \in Nat /\ n - (k + 1) \in Nat
  OBVIOUS
<1>3. Up(f, n, t) = Up(None, n - (k + 1), t)
  BY <1>1, <1>2, UpSum
<1>4. QED
  BY <1>2, <1>3, NothingAboveNone

(* Two forests with the same parents along a chain have the same chain. *)
LEMMA SameChain ==
  ASSUME NEW t, NEW u, NEW f, NEW n \in Nat,
         \A k \in Nat : k < n => Above(Up(f, k, t), u) = Above(Up(f, k, t), t),
         NEW i \in 0 .. n
  PROVE  Up(f, i, u) = Up(f, i, t)
<1> DEFINE S == {k \in Nat : k <= n => Up(f, k, u) = Up(f, k, t)}
<1>1. 0 \in S
  BY UpZero
<1>2. ASSUME NEW k \in Nat, k \in S PROVE k + 1 \in S
  <2> SUFFICES ASSUME k + 1 <= n PROVE Up(f, k + 1, u) = Up(f, k + 1, t)
    OBVIOUS
  <2>1. Up(f, k, u) = Up(f, k, t) /\ k < n
    BY <1>2
  <2>2. QED
    BY <2>1, UpNext
<1>3. Nat \subseteq S
  BY <1>1, <1>2, Induction
<1>4. QED
  BY <1>3

-----------------------------------------------------------------------------
(* What is above what, with no bound on the way. *)

Beneath(f, g, t) == \E n \in Nat : n # 0 /\ Up(f, n, t) = g

LEMMA BeneathStep ==
  ASSUME NEW f, NEW g, NEW t
  PROVE  Beneath(f, g, t) <=> Above(f, t) = g \/ Beneath(Above(f, t), g, t)
<1>1. Up(f, 1, t) = Above(f, t)
  <2>1. 0 \in Nat /\ 0 + 1 = 1
    OBVIOUS
  <2>2. QED
    BY <2>1, UpNext, UpZero
<1>2. ASSUME Above(f, t) = g PROVE Beneath(f, g, t)
  BY <1>1, <1>2 DEF Beneath
<1>3. ASSUME NEW n \in Nat, Up(Above(f, t), n, t) = g PROVE Beneath(f, g, t)
  <2>1. Up(f, 1 + n, t) = Up(Up(f, 1, t), n, t)
    BY UpSum
  <2>2. 1 + n \in Nat /\ 1 + n # 0
    OBVIOUS
  <2>3. QED
    BY <1>1, <1>3, <2>1, <2>2 DEF Beneath
<1>4. ASSUME Beneath(f, g, t) PROVE Above(f, t) = g \/ Beneath(Above(f, t), g, t)
  <2>1. PICK n \in Nat : n # 0 /\ Up(f, n, t) = g
    BY <1>4 DEF Beneath
  <2>2. n - 1 \in Nat /\ n = 1 + (n - 1) /\ 1 \in Nat
    BY <2>1
  <2>3. Up(f, n, t) = Up(Above(f, t), n - 1, t)
    BY <1>1, <2>2, UpSum
  <2>4. CASE n = 1
    BY <1>1, <2>1, <2>4
  <2>5. CASE n # 1
    <3>1. n - 1 # 0
      BY <2>5
    <3>2. QED
      BY <2>1, <2>2, <2>3, <3>1 DEF Beneath
  <2>6. QED
    BY <2>4, <2>5
<1>5. QED
  BY <1>2, <1>3, <1>4 DEF Beneath

LEMMA BeneathIsTransitive ==
  ASSUME NEW f, NEW g, NEW h, NEW t, Beneath(f, g, t), Beneath(g, h, t)
  PROVE  Beneath(f, h, t)
<1>1. PICK m \in Nat : m # 0 /\ Up(f, m, t) = g
  BY DEF Beneath
<1>2. PICK n \in Nat : n # 0 /\ Up(g, n, t) = h
  BY DEF Beneath
<1>3. m + n \in Nat /\ m + n # 0
  BY <1>1
<1>4. Up(f, m + n, t) = h
  BY <1>1, <1>2, UpSum
<1>5. QED
  BY <1>3, <1>4 DEF Beneath

(* What is beneath something is in the forest. *)
LEMMA BeneathIsInside ==
  ASSUME NEW f, NEW g, NEW t, None \notin DOMAIN t, g # None, Beneath(f, g, t)
  PROVE  f \in DOMAIN t
<1>1. PICK n \in Nat : n # 0 /\ Up(f, n, t) = g
  BY DEF Beneath
<1>2. 0 \in Nat /\ 0 < n
  BY <1>1
<1>3. QED
  BY <1>1, <1>2, ChainStaysInside, UpZero

(* The bound of the searches in PlanRules is enough: the shortest way from  *)
(* f up to g passes no file twice, so it has no more steps than there are    *)
(* files.  All it passes is in the forest, and g is not among it.            *)
LEMMA ShortestChain ==
  ASSUME NEW t, IsFiniteSet(DOMAIN t), None \notin DOMAIN t,
         NEW f, NEW g, g # None, Beneath(f, g, t)
  PROVE  \E m \in 1 .. Cardinality(DOMAIN t) :
           /\ Up(f, m, t) = g
           /\ \A k \in 0 .. m - 1 : Up(f, k, t) \in DOMAIN t
           /\ \A k \in 1 .. m - 1 : Up(f, k, t) # g
<1> DEFINE T == {n \in Nat : n # 0 /\ Up(f, n, t) = g}
<1>1. T # {}
  BY DEF Beneath
<1>2. PICK m \in T : \A n \in T : m <= n
  BY <1>1, LeastNumber
<1>3. m \in Nat /\ m # 0 /\ Up(f, m, t) = g
  BY <1>2
<1>4. ASSUME NEW k \in 0 .. m - 1 PROVE Up(f, k, t) \in DOMAIN t
  <2>1. k \in Nat /\ k < m
    BY <1>3
  <2>2. QED
    BY <1>3, <2>1, ChainStaysInside
<1>5. ASSUME NEW k \in 1 .. m - 1 PROVE Up(f, k, t) # g
  <2>1. k \in Nat /\ k # 0 /\ ~ (m <= k)
    BY <1>3
  <2>2. k \notin T
    BY <1>2, <2>1
  <2>3. QED
    BY <2>1, <2>2
<1>6. ASSUME NEW i \in 0 .. m - 1, NEW j \in 0 .. m - 1, Up(f, i, t) = Up(f, j, t), i < j
      PROVE  FALSE
  <2>1. i \in Nat /\ j \in Nat /\ m - j \in Nat /\ m = j + (m - j)
    BY <1>3
  <2>2. i + (m - j) \in Nat /\ i + (m - j) # 0 /\ ~ (m <= i + (m - j))
    BY <1>3, <1>6, <2>1
  <2>3. Up(f, i + (m - j), t) = Up(Up(f, i, t), m - j, t)
    BY <2>1, UpSum
  <2>4. Up(f, j + (m - j), t) = Up(Up(f, j, t), m - j, t)
    BY <2>1, UpSum
  <2>5. Up(f, i + (m - j), t) = g
    BY <1>3, <1>6, <2>1, <2>3, <2>4
  <2>6. i + (m - j) \in T
    BY <2>2, <2>5
  <2>7. QED
    BY <1>2, <2>2, <2>6
<1>7. m <= Cardinality(DOMAIN t)
  <2> DEFINE path == [k \in 0 .. m - 1 |-> Up(f, k, t)]
  <2>1. path \in [0 .. m - 1 -> DOMAIN t]
    BY <1>4
  <2>2. \A i, j \in 0 .. m - 1 : path[i] = path[j] => i = j
    <3>1. TAKE i, j \in 0 .. m - 1
    <3>2. HAVE path[i] = path[j]
    <3>3. Up(f, i, t) = Up(f, j, t)
      BY <3>2
    <3>4. ~ (i < j) /\ ~ (j < i)
      BY <1>6, <3>3
    <3>5. i \in Int /\ j \in Int
      BY <1>3
    <3>6. QED
      BY <3>4, <3>5
  <2> HIDE DEF path
  <2>3. QED
    BY <1>3, <2>1, <2>2, Pigeonhole
<1>8. Cardinality(DOMAIN t) \in Nat
  BY CardinalityIsNat
<1>9. m \in 1 .. Cardinality(DOMAIN t)
  BY <1>3, <1>7, <1>8
<1>10. QED
  BY <1>3, <1>4, <1>5, <1>9

(* So a search that is bounded by the number of files finds all there is. *)
LEMMA BoundedSearch ==
  ASSUME NEW t, IsFiniteSet(DOMAIN t), None \notin DOMAIN t, NEW f, NEW g, g # None
  PROVE  Beneath(f, g, t) <=> \E n \in 1 .. Cardinality(DOMAIN t) : Up(f, n, t) = g
<1>1. Cardinality(DOMAIN t) \in Nat
  BY CardinalityIsNat
<1>2. \A n \in 1 .. Cardinality(DOMAIN t) : n \in Nat /\ n # 0
  BY <1>1
<1>3. QED
  BY <1>2, ShortestChain DEF Beneath

(* Between two forests whose parents differ for the files in M alone, a      *)
(* chain of the one is a chain of the other, at least up to a file in M.     *)
LEMMA ChainUpToChange ==
  ASSUME NEW t, NEW u, NEW M, \A g : g \notin M => Above(g, u) = Above(g, t),
         NEW x, NEW y, Beneath(x, y, t)
  PROVE  \/ Beneath(x, y, u)
         \/ x \in M
         \/ \E g \in M : Beneath(x, g, t) /\ Beneath(x, g, u) /\ Beneath(g, y, t)
<1>1. PICK n \in Nat : n # 0 /\ Up(x, n, t) = y
  BY DEF Beneath
<1> DEFINE T == {k \in Nat : k < n /\ Up(x, k, t) \in M}
<1>2. CASE T = {}
  <2>1. \A k \in Nat : k < n => Above(Up(x, k, t), u) = Above(Up(x, k, t), t)
    BY <1>2
  <2>2. n \in 0 .. n
    OBVIOUS
  <2>3. Up(x, n, u) = y
    BY <1>1, <2>1, <2>2, SameChain
  <2>4. QED
    BY <1>1, <2>3 DEF Beneath
<1>3. CASE T # {}
  <2>1. PICK m \in T : \A k \in T : m <= k
    BY <1>3, LeastNumber
  <2>2. m \in Nat /\ m < n /\ m \in 0 .. m /\ n - m \in Nat /\ n - m # 0 /\ n = m + (n - m)
    BY <1>1, <2>1
  <2>3. ASSUME NEW k \in Nat, k < m PROVE Above(Up(x, k, t), u) = Above(Up(x, k, t), t)
    <3>1. k \notin T /\ k < n
      BY <2>1, <2>2, <2>3
    <3>2. QED
      BY <3>1
  <2>4. Up(x, m, u) = Up(x, m, t)
    BY <2>2, <2>3, SameChain
  <2>5. Up(x, m, t) \in M
    BY <2>1
  <2>6. CASE m = 0
    BY <2>5, <2>6, UpZero
  <2>7. CASE m # 0
    <3>1. Beneath(x, Up(x, m, t), t) /\ Beneath(x, Up(x, m, t), u)
      BY <2>2, <2>4, <2>7 DEF Beneath
    <3>2. Up(Up(x, m, t), n - m, t) = y
      BY <1>1, <2>2, UpSum
    <3>3. Beneath(Up(x, m, t), y, t)
      BY <2>2, <3>2 DEF Beneath
    <3>4. QED
      BY <2>5, <3>1, <3>3
  <2>8. QED
    BY <2>6, <2>7
<1>4. QED
  BY <1>2, <1>3

(* The same, if the parent of one file alone differs. *)
LEMMA ChainUpToFile ==
  ASSUME NEW t, NEW u, NEW f, \A g : g # f => Above(g, u) = Above(g, t),
         NEW x, NEW y, Beneath(x, y, t)
  PROVE  \/ Beneath(x, y, u)
         \/ x = f
         \/ Beneath(x, f, t) /\ Beneath(x, f, u) /\ Beneath(f, y, t)
<1>1. PICK M : M = {f}
  OBVIOUS
<1>2. \A g : g \notin M => Above(g, u) = Above(g, t)
  BY <1>1
<1>3. \/ Beneath(x, y, u)
      \/ x \in M
      \/ \E g \in M : Beneath(x, g, t) /\ Beneath(x, g, u) /\ Beneath(g, y, t)
  BY <1>2, ChainUpToChange
<1>4. QED
  BY <1>1, <1>3

(* Nothing comes above the root when a file is moved to where it is not above. *)
LEMMA MovingMakesNoLoop ==
  ASSUME NEW t, ~ Beneath(Root, Root, t), NEW f, f # Root, NEW d, d # f, ~ Beneath(d, f, t)
  PROVE  ~ Beneath(Root, Root, [t EXCEPT ![f] = d])
<1>1. PICK u : u = [t EXCEPT ![f] = d]
  OBVIOUS
<1> SUFFICES ASSUME Beneath(Root, Root, u) PROVE FALSE
  BY <1>1
<1>2. \A g : g # f => Above(g, u) = Above(g, t) /\ Above(g, t) = Above(g, u)
  BY <1>1 DEF Above
<1>3. CASE f \notin DOMAIN t
  <2>1. \A g : Above(g, t) = Above(g, u)
    BY <1>1, <1>3 DEF Above
  <2>2. PICK n \in Nat : n # 0 /\ Up(Root, n, u) = Root
    BY DEF Beneath
  <2>3. n \in 0 .. n
    OBVIOUS
  <2>4. \A k \in Nat : k < n => Above(Up(Root, k, u), t) = Above(Up(Root, k, u), u)
    BY <2>1
  <2>5. Up(Root, n, t) = Up(Root, n, u)
    BY <2>3, <2>4, SameChain
  <2>6. QED
    BY <2>2, <2>5 DEF Beneath
<1>4. CASE f \in DOMAIN t
  <2>1. Above(f, u) = d
    BY <1>1, <1>4 DEF Above
  <2>2. Beneath(Root, f, t) /\ Beneath(f, Root, u)
    BY <1>2, ChainUpToFile
  <2>3. d = Root \/ Beneath(d, Root, u)
    BY <2>1, <2>2, BeneathStep
  <2>4. CASE d = Root
    BY <2>2, <2>4
  <2>5. CASE Beneath(d, Root, u)
    <3>1. Beneath(d, Root, t) \/ Beneath(d, f, t)
      BY <1>2, <2>5, ChainUpToFile
    <3>2. QED
      BY <2>2, <3>1, BeneathIsTransitive
  <2>6. QED
    BY <2>3, <2>4, <2>5
<1>5. QED
  BY <1>3, <1>4

-----------------------------------------------------------------------------
(* Parts of a forest: what a snapshot is of Drive. *)

PartOf(u, t) == DOMAIN u \subseteq DOMAIN t /\ \A f \in DOMAIN u : u[f] = t[f]

(* A chain of a part is a chain of the whole. *)
LEMMA PartKeepsChain ==
  ASSUME NEW t, NEW u, PartOf(u, t), None \notin DOMAIN u,
         NEW f, NEW n \in Nat, Up(f, n, u) # None, NEW i \in 0 .. n
  PROVE  Up(f, i, t) = Up(f, i, u)
<1>1. ASSUME NEW k \in Nat, k < n PROVE Above(Up(f, k, u), t) = Above(Up(f, k, u), u)
  <2>1. Up(f, k, u) \in DOMAIN u
    BY <1>1, ChainStaysInside
  <2>2. QED
    BY <2>1 DEF PartOf, Above
<1>2. QED
  BY <1>1, SameChain

LEMMA PartKeepsBeneath ==
  ASSUME NEW t, NEW u, PartOf(u, t), None \notin DOMAIN u,
         NEW f, NEW g, g # None, Beneath(f, g, u)
  PROVE  Beneath(f, g, t)
<1>1. PICK n \in Nat : n # 0 /\ Up(f, n, u) = g
  BY DEF Beneath
<1>2. n \in 0 .. n
  OBVIOUS
<1>3. Up(f, n, t) = g
  BY <1>1, <1>2, PartKeepsChain
<1>4. QED
  BY <1>1, <1>3 DEF Beneath

(* Conversely, the chain up to g is in the part if all it passes is. *)
LEMMA PartHasChain ==
  ASSUME NEW t, NEW u, PartOf(u, t), NEW f, NEW n \in Nat, n # 0,
         \A k \in 0 .. n - 1 : Up(f, k, t) \in DOMAIN u
  PROVE  Beneath(f, Up(f, n, t), u)
<1>1. ASSUME NEW k \in Nat, k < n PROVE Above(Up(f, k, t), u) = Above(Up(f, k, t), t)
  <2>1. Up(f, k, t) \in DOMAIN u
    BY <1>1
  <2>2. QED
    BY <2>1 DEF PartOf, Above
<1>2. n \in 0 .. n
  OBVIOUS
<1>3. Up(f, n, u) = Up(f, n, t)
  BY <1>1, <1>2, SameChain
<1>4. QED
  BY <1>3 DEF Beneath

(* A snapshot is a part of what Drive shows, and has what was looked for. *)
LEMMA SnapshotIsPart ==
  ASSUME NEW t, NEW visible, visible \subseteq DOMAIN t, NEW found, found \subseteq visible
  PROVE  LET known == SnapshotOf(found, t, visible) IN
         /\ PartOf(known, t)
         /\ DOMAIN known \subseteq visible
         /\ found \subseteq DOMAIN known
         /\ Root \in visible => Root \in DOMAIN known
<1> DEFINE known == SnapshotOf(found, t, visible)
           climb(f) == {Up(f, n, t) : n \in
                          {m \in 1 .. Cardinality(DOMAIN t) :
                             /\ \A k \in 1 .. m : Up(f, k, t) \in visible
                             /\ \A k \in 1 .. (m - 1) : Up(f, k, t) # Root}}
           ids == found \cup ({Root} \cap visible) \cup UNION {climb(f) : f \in found}
<1>1. known = [f \in ids |-> t[f]]
  BY DEF SnapshotOf
<1>2. ASSUME NEW f \in found PROVE climb(f) \subseteq visible
  <2> SUFFICES ASSUME NEW n \in 1 .. Cardinality(DOMAIN t),
                      \A k \in 1 .. n : Up(f, k, t) \in visible
               PROVE  Up(f, n, t) \in visible
    OBVIOUS
  <2>1. n \in 1 .. n
    OBVIOUS
  <2>2. QED
    BY <2>1
<1>3. ids \subseteq visible
  BY <1>2
<1> HIDE DEF ids
<1>4. DOMAIN known = ids /\ \A f \in ids : known[f] = t[f]
  BY <1>1
<1>5. found \subseteq ids /\ (Root \in visible => Root \in ids)
  BY DEF ids
<1>6. QED
  BY <1>3, <1>4, <1>5 DEF PartOf

(* It also has every file on the way up that is visible as far as there. *)
LEMMA SnapshotClimbs ==
  ASSUME NEW t, NEW visible, NEW found, NEW f \in found,
         NEW n \in 1 .. Cardinality(DOMAIN t),
         \A k \in 1 .. n : Up(f, k, t) \in visible,
         \A k \in 1 .. n - 1 : Up(f, k, t) # Root
  PROVE  Up(f, n, t) \in DOMAIN SnapshotOf(found, t, visible)
<1> DEFINE climb(g) == {Up(g, m, t) : m \in
                          {m \in 1 .. Cardinality(DOMAIN t) :
                             /\ \A k \in 1 .. m : Up(g, k, t) \in visible
                             /\ \A k \in 1 .. (m - 1) : Up(g, k, t) # Root}}
           ids == found \cup ({Root} \cap visible) \cup UNION {climb(g) : g \in found}
<1>1. Up(f, n, t) \in climb(f)
  OBVIOUS
<1>2. Up(f, n, t) \in ids
  BY <1>1
<1>3. SnapshotOf(found, t, visible) = [g \in ids |-> t[g]]
  BY DEF SnapshotOf
<1> HIDE DEF ids
<1>4. QED
  BY <1>2, <1>3

-----------------------------------------------------------------------------
(* What the checks of one operation prove. *)

(* _ancestor_chain finds what is above a file in the snapshot, itself apart. *)
LEMMA AncestorsAreAbove ==
  ASSUME NEW known, IsFiniteSet(DOMAIN known), None \notin DOMAIN known, NEW f, NEW a
  PROVE  a \in Ancestors(f, known) <=> a # f /\ a # None /\ Beneath(f, a, known)
<1>1. a \in Ancestors(f, known) <=>
        /\ a # f /\ a # None
        /\ \E n \in 1 .. Cardinality(DOMAIN known) : Up(f, n, known) = a
  BY DEF Ancestors
<1>2. QED
  BY <1>1, BoundedSearch

InWorkspace(f, t) == f = Root \/ Beneath(f, Root, t)

LEMMA ContainmentIsProved ==
  ASSUME NEW known, IsFiniteSet(DOMAIN known), None \notin DOMAIN known, NEW f
  PROVE  CheckContainment(f, known) = "ok" <=> InWorkspace(f, known)
<1>1. CheckContainment(f, known) = "ok" <=> f = Root \/ Root \in Ancestors(f, known)
  BY DEF CheckContainment
<1>2. Root # None
  BY RulesAssumption
<1>3. Root \in Ancestors(f, known) <=> Root # f /\ Beneath(f, Root, known)
  BY <1>2, AncestorsAreAbove
<1>4. QED
  BY <1>1, <1>3 DEF InWorkspace

LEMMA SourceIsProved ==
  ASSUME NEW known, IsFiniteSet(DOMAIN known), None \notin DOMAIN known, NEW f, NEW granted
  PROVE  CheckSource(f, known, granted) = "ok" <=>
           /\ f # Root
           /\ f \in DOMAIN known
           /\ f \in granted
           /\ Beneath(f, Root, known)
<1>1. CheckSource(f, known, granted) = "ok" <=>
        f # Root /\ f \in DOMAIN known /\ f \in granted /\ CheckContainment(f, known) = "ok"
  BY DEF CheckSource
<1>2. QED
  BY <1>1, ContainmentIsProved DEF InWorkspace

(* A folder that exists, as a destination. *)
RealDestination(d, known) ==
  d \in DOMAIN known /\ IsFolder(d) /\ InWorkspace(d, known)

LEMMA DestinationIsProved ==
  ASSUME NEW known, IsFiniteSet(DOMAIN known), None \notin DOMAIN known,
         NEW d, NEW granted, NEW refs
  PROVE  CheckDestination(d, known, granted, refs) = "ok" <=>
           IF d \in Refs THEN refs[d] # None
           ELSE d \in granted /\ RealDestination(d, known)
<1>1. CASE d \in Refs
  BY <1>1 DEF CheckDestination
<1>2. CASE d \notin Refs
  <2>1. CheckDestination(d, known, granted, refs) = "ok" <=>
          d \in DOMAIN known /\ d \in granted /\ IsFolder(d) /\ CheckContainment(d, known) = "ok"
    BY <1>2 DEF CheckDestination
  <2>2. QED
    BY <1>2, <2>1, ContainmentIsProved DEF RealDestination
<1>3. QED
  BY <1>1, <1>2

(* The folder that a chain of declared refs hangs from is found, ... *)
LEMMA AnchorIsFound ==
  ASSUME NEW refs, DOMAIN refs = Refs, NEW d, NEW a, a \notin Refs, a # None,
         d = a \/ Beneath(d, a, refs)
  PROVE  RealAnchor(d, refs) = a
<1> DEFINE real == {Up(d, n, refs) : n \in 0 .. Cardinality(Refs)} \ (Refs \cup {None})
<1>1. None \notin DOMAIN refs /\ IsFiniteSet(DOMAIN refs)
  BY RulesAssumption
<1>2. Cardinality(Refs) \in Nat
  BY <1>1, CardinalityIsNat
<1>3. \E n \in 0 .. Cardinality(Refs) : Up(d, n, refs) = a
  <2>1. CASE d = a
    BY <1>2, <2>1, UpZero
  <2>2. CASE Beneath(d, a, refs)
    <3>1. PICK m \in 1 .. Cardinality(Refs) : Up(d, m, refs) = a
      BY <1>1, <2>2, BoundedSearch
    <3>2. m \in 0 .. Cardinality(Refs)
      BY <1>2
    <3>3. QED
      BY <3>1, <3>2
  <2>3. QED
    BY <2>1, <2>2
<1>4. PICK n \in 0 .. Cardinality(Refs) : Up(d, n, refs) = a
  BY <1>3
<1>5. a \in real
  BY <1>4
<1>6. ASSUME NEW e \in real PROVE e = a
  <2>1. PICK m \in 0 .. Cardinality(Refs) : e = Up(d, m, refs)
    OBVIOUS
  <2>2. m \in Nat /\ n \in Nat
    BY <1>2
  <2>3. e \notin Refs /\ e # None
    OBVIOUS
  <2>4. ~ (m < n)
    <3>1. Up(d, n, refs) # None
      BY <1>4
    <3>2. m < n => Up(d, m, refs) \in Refs
      BY <1>1, <2>2, <3>1, ChainStaysInside
    <3>3. QED
      BY <2>1, <2>3, <3>2
  <2>5. ~ (n < m)
    <3>1. Up(d, m, refs) # None
      BY <2>1, <2>3
    <3>2. n < m => Up(d, n, refs) \in Refs
      BY <1>1, <2>2, <3>1, ChainStaysInside
    <3>3. QED
      BY <1>4, <3>2
  <2>6. m = n
    BY <2>2, <2>4, <2>5
  <2>7. QED
    BY <1>4, <2>1, <2>6
<1>7. real = {a}
  BY <1>5, <1>6
<1>8. RealAnchor(d, refs) = IF real = {} THEN None ELSE CHOOSE e \in real : TRUE
  BY DEF RealAnchor
<1> HIDE DEF real
<1>9. (CHOOSE e \in {a} : TRUE) = a
  OBVIOUS
<1>10. QED
  BY <1>7, <1>8, <1>9

LEMMA NoCycleIsProved ==
  ASSUME NEW known, IsFiniteSet(DOMAIN known), None \notin DOMAIN known,
         NEW refs, DOMAIN refs = Refs, NEW f, f # None, NEW d,
         NEW a, a \notin Refs, a # None, d = a \/ Beneath(d, a, refs)
  PROVE  CheckNoCycle(f, d, known, refs) = "ok" <=>
           (IsFolder(f) => a # f /\ ~ Beneath(a, f, known))
<1>1. RealAnchor(d, refs) = a
  BY AnchorIsFound
<1>2. CheckNoCycle(f, d, known, refs) = "ok" <=>
        ~ (IsFolder(f) /\ (a = f \/ f \in Ancestors(a, known)))
  BY <1>1 DEF CheckNoCycle
<1>3. f \in Ancestors(a, known) <=> f # a /\ Beneath(a, f, known)
  BY AncestorsAreAbove
<1>4. QED
  BY <1>2, <1>3

(* An operation is accepted when no check has anything against it. *)
LEMMA NoProblem ==
  ASSUME NEW a, NEW b, NEW c
  PROVE  FirstProblem(<<a, b, c>>) = "ok" <=> a = "ok" /\ b = "ok" /\ c = "ok"
<1> DEFINE p == <<a, b, c>>
           first(i) == p[i] # "ok" /\ \A j \in 1 .. (i - 1) : p[j] = "ok"
<1>1. DOMAIN p = 1 .. 3 /\ p[1] = a /\ p[2] = b /\ p[3] = c
  OBVIOUS
<1>2. CASE a = "ok" /\ b = "ok" /\ c = "ok"
  <2>1. ~ \E i \in DOMAIN p : p[i] # "ok"
    BY <1>2
  <2>2. QED
    BY <1>2, <2>1 DEF FirstProblem
<1>3. CASE ~ (a = "ok" /\ b = "ok" /\ c = "ok")
  <2>1. \E i \in DOMAIN p : p[i] # "ok"
    BY <1>1, <1>3
  <2>2. FirstProblem(p) = p[CHOOSE i \in DOMAIN p : first(i)]
    BY <2>1 DEF FirstProblem
  <2>3. \E i \in DOMAIN p : first(i)
    <3>1. CASE a # "ok"
      BY <1>1, <3>1
    <3>2. CASE a = "ok" /\ b # "ok"
      BY <1>1, <3>2
    <3>3. CASE a = "ok" /\ b = "ok"
      BY <1>1, <1>3, <3>3
    <3>4. QED
      BY <3>1, <3>2, <3>3
  <2>4. first(CHOOSE i \in DOMAIN p : first(i))
    BY <2>3
  <2>5. QED
    BY <1>3, <2>2, <2>4
<1>4. QED
  BY <1>2, <1>3

-----------------------------------------------------------------------------
(* The loop of validate_plan. *)

Turn(s, op, ctx) == IF CheckOp(op, ctx, s) = "ok" THEN Accept(s, op) ELSE s

IsUpTo(g, ops, n, ctx) ==
  g = [i \in 0 .. n |-> IF i = 0 THEN Nothing
                        ELSE IF CheckOp(ops[i], ctx, g[i - 1]) = "ok"
                        THEN Accept(g[i - 1], ops[i]) ELSE g[i - 1]]

LEMMA LoopExists ==
  ASSUME NEW ops, NEW ctx, NEW n \in Nat
  PROVE  \E g : IsUpTo(g, ops, n, ctx)
<1> DEFINE S == {k \in Nat : \E g : IsUpTo(g, ops, k, ctx)}
<1>1. 0 \in S
  <2>1. IsUpTo([i \in 0 .. 0 |-> Nothing], ops, 0, ctx)
    BY DEF IsUpTo
  <2>2. QED
    BY <2>1
<1>2. ASSUME NEW k \in Nat, k \in S PROVE k + 1 \in S
  <2>1. PICK g : IsUpTo(g, ops, k, ctx)
    BY <1>2
  <2> DEFINE h == [i \in 0 .. k + 1 |-> IF i = k + 1 THEN Turn(g[k], ops[k + 1], ctx) ELSE g[i]]
  <2>2. ASSUME NEW i \in 0 .. k + 1
        PROVE  h[i] = IF i = 0 THEN Nothing ELSE Turn(h[i - 1], ops[i], ctx)
    <3>1. CASE i = k + 1
      BY <3>1
    <3>2. CASE i # k + 1
      <4>1. i \in 0 .. k /\ h[i] = g[i] /\ (i # 0 => h[i - 1] = g[i - 1])
        BY <3>2
      <4>2. g[i] = IF i = 0 THEN Nothing ELSE Turn(g[i - 1], ops[i], ctx)
        BY <2>1, <4>1 DEF IsUpTo, Turn
      <4>3. QED
        BY <4>1, <4>2
    <3>3. QED
      BY <3>1, <3>2
  <2>3. h = [i \in 0 .. k + 1 |-> IF i = 0 THEN Nothing ELSE Turn(h[i - 1], ops[i], ctx)]
    BY <2>2
  <2>4. IsUpTo(h, ops, k + 1, ctx)
    BY <2>3 DEF IsUpTo, Turn
  <2>5. QED
    BY <2>4
<1>3. Nat \subseteq S
  BY <1>1, <1>2, Induction
<1>4. QED
  BY <1>3

LEMMA LoopIsUnique ==
  ASSUME NEW ops, NEW ctx, NEW m \in Nat, NEW n \in Nat, NEW g, NEW h,
         IsUpTo(g, ops, m, ctx), IsUpTo(h, ops, n, ctx), NEW k \in 0 .. m, k <= n
  PROVE  g[k] = h[k]
<1> DEFINE S == {i \in Nat : i <= m /\ i <= n => g[i] = h[i]}
<1>1. 0 \in S
  BY DEF IsUpTo
<1>2. ASSUME NEW i \in Nat, i \in S PROVE i + 1 \in S
  <2> SUFFICES ASSUME i + 1 <= m, i + 1 <= n PROVE g[i + 1] = h[i + 1]
    OBVIOUS
  <2>1. g[i] = h[i]
    BY <1>2
  <2>2. i + 1 \in 0 .. m /\ i + 1 \in 0 .. n /\ i + 1 # 0 /\ (i + 1) - 1 = i
    OBVIOUS
  <2>3. g[i + 1] = Turn(g[i], ops[i + 1], ctx)
    BY <2>2 DEF IsUpTo, Turn
  <2>4. h[i + 1] = Turn(h[i], ops[i + 1], ctx)
    BY <2>2 DEF IsUpTo, Turn
  <2>5. QED
    BY <2>1, <2>3, <2>4
<1>3. Nat \subseteq S
  BY <1>1, <1>2, Induction
<1>4. QED
  BY <1>3

LEMMA UpToIsLoop ==
  ASSUME NEW ops, NEW ctx, NEW n \in Nat
  PROVE  \E g : IsUpTo(g, ops, n, ctx) /\ UpTo(ops, n, ctx) = g[n]
<1>1. PICK h : IsUpTo(h, ops, n, ctx)
  BY LoopExists
<1>2. IsUpTo(CHOOSE g : IsUpTo(g, ops, n, ctx), ops, n, ctx)
  BY <1>1
<1>3. UpTo(ops, n, ctx) = (CHOOSE g : IsUpTo(g, ops, n, ctx))[n]
  BY <1>1 DEF UpTo, IsUpTo
<1>4. QED
  BY <1>2, <1>3

(* The recursion equations of UpTo. *)
LEMMA UpToZero ==
  ASSUME NEW ops, NEW ctx
  PROVE  UpTo(ops, 0, ctx) = Nothing
<1>1. PICK g : IsUpTo(g, ops, 0, ctx) /\ UpTo(ops, 0, ctx) = g[0]
  BY UpToIsLoop
<1>2. QED
  BY <1>1 DEF IsUpTo

LEMMA UpToNext ==
  ASSUME NEW ops, NEW ctx, NEW n \in Nat
  PROVE  UpTo(ops, n + 1, ctx) = Turn(UpTo(ops, n, ctx), ops[n + 1], ctx)
<1>1. PICK g : IsUpTo(g, ops, n + 1, ctx) /\ UpTo(ops, n + 1, ctx) = g[n + 1]
  BY UpToIsLoop
<1>2. PICK h : IsUpTo(h, ops, n, ctx) /\ UpTo(ops, n, ctx) = h[n]
  BY UpToIsLoop
<1>3. g[n] = h[n]
  <2>1. n \in 0 .. n + 1 /\ n <= n /\ n + 1 \in Nat
    OBVIOUS
  <2>2. QED
    BY <1>1, <1>2, <2>1, LoopIsUnique
<1>4. g[n + 1] = Turn(g[n], ops[n + 1], ctx)
  <2>1. n + 1 \in 0 .. n + 1 /\ n + 1 # 0 /\ (n + 1) - 1 = n
    OBVIOUS
  <2>2. QED
    BY <1>1, <2>1 DEF IsUpTo, Turn
<1>5. QED
  BY <1>1, <1>2, <1>3, <1>4

-----------------------------------------------------------------------------
(* What is true of an accepted plan. *)

IsOperation(op) ==
  /\ op.op \in {"create_folder", "rename", "move"}
  /\ op.op = "create_folder" => op.ref \in Refs

Creates(op)  == op.op = "create_folder"
Moves(op)    == op.op = "move"
Touches(op)  == op.op \in {"rename", "move"}
DestinationOf(op) == IF Creates(op) THEN op.parent_id ELSE op.new_parent_id

(* Real files, which a plan can only call by their ids. *)
IsKnown(known) ==
  IsFiniteSet(DOMAIN known) /\ DOMAIN known \cap (Refs \cup {None}) = {}

LEMMA CheckCreate ==
  ASSUME NEW op, Creates(op), NEW ctx, NEW s
  PROVE  CheckOp(op, ctx, s) = "ok" <=>
           /\ s.refs[op.ref] = None
           /\ op.safe
           /\ CheckDestination(op.parent_id, ctx.known, ctx.granted, s.refs) = "ok"
<1>1. op.op = "create_folder"
  BY DEF Creates
<1>2. CheckOp(op, ctx, s) =
        IF s.refs[op.ref] # None THEN "duplicate_ref"
        ELSE IF ~op.safe THEN "invalid_name"
        ELSE CheckDestination(op.parent_id, ctx.known, ctx.granted, s.refs)
  BY <1>1 DEF CheckOp
<1>3. QED
  BY <1>2

LEMMA CheckRename ==
  ASSUME NEW op, op.op = "rename", NEW ctx, NEW s
  PROVE  CheckOp(op, ctx, s) = "ok" <=>
           /\ <<"rename", op.file_id>> \notin s.touched
           /\ op.safe
           /\ CheckSource(op.file_id, ctx.known, ctx.granted) = "ok"
<1>1. CheckOp(op, ctx, s) =
        IF <<"rename", op.file_id>> \in s.touched THEN "duplicate_target"
        ELSE IF ~op.safe THEN "invalid_name"
        ELSE CheckSource(op.file_id, ctx.known, ctx.granted)
  BY DEF CheckOp
<1>2. QED
  BY <1>1

LEMMA CheckMove ==
  ASSUME NEW op, Moves(op), NEW ctx, NEW s
  PROVE  CheckOp(op, ctx, s) = "ok" <=>
           /\ <<"move", op.file_id>> \notin s.touched
           /\ CheckSource(op.file_id, ctx.known, ctx.granted) = "ok"
           /\ CheckDestination(op.new_parent_id, ctx.known, ctx.granted, s.refs) = "ok"
           /\ CheckNoCycle(op.file_id, op.new_parent_id, ctx.known, s.refs) = "ok"
<1>1. op.op = "move"
  BY DEF Moves
<1> DEFINE a == CheckSource(op.file_id, ctx.known, ctx.granted)
           b == CheckDestination(op.new_parent_id, ctx.known, ctx.granted, s.refs)
           c == CheckNoCycle(op.file_id, op.new_parent_id, ctx.known, s.refs)
<1>2. CheckOp(op, ctx, s) =
        IF <<"move", op.file_id>> \in s.touched THEN "duplicate_target"
        ELSE FirstProblem(<<a, b, c>>)
  BY <1>1 DEF CheckOp
<1>3. FirstProblem(<<a, b, c>>) = "ok" <=> a = "ok" /\ b = "ok" /\ c = "ok"
  BY NoProblem
<1>4. QED
  BY <1>2, <1>3

LEMMA Appended ==
  ASSUME NEW O, NEW p \in Seq(O), NEW op \in O
  PROVE  /\ Append(p, op) \in Seq(O)
         /\ Len(Append(p, op)) = Len(p) + 1
         /\ Len(p) \in Nat /\ DOMAIN p = 1 .. Len(p)
         /\ DOMAIN Append(p, op) = 1 .. Len(p) + 1
         /\ \A i \in DOMAIN p : Append(p, op)[i] = p[i]
         /\ Append(p, op)[Len(p) + 1] = op
  OBVIOUS

(* A chain of refs stays as it is when another ref is declared. *)
LEMMA DeclaringKeepsChains ==
  ASSUME NEW refs, DOMAIN refs = Refs, NEW r \in Refs, refs[r] = None, NEW x,
         NEW d, NEW a, a # None, Beneath(d, a, refs)
  PROVE  Beneath(d, a, [refs EXCEPT ![r] = x])
<1> DEFINE more == [refs EXCEPT ![r] = x]
<1>1. None \notin DOMAIN refs
  BY RulesAssumption
<1>2. PICK n \in Nat : n # 0 /\ Up(d, n, refs) = a
  BY DEF Beneath
<1>3. ASSUME NEW k \in Nat, k < n PROVE Above(Up(d, k, refs), more) = Above(Up(d, k, refs), refs)
  <2>1. Up(d, k, refs) \in Refs
    BY <1>1, <1>2, <1>3, ChainStaysInside
  <2>2. Up(d, k + 1, refs) = refs[Up(d, k, refs)]
    BY <2>1, UpNext DEF Above
  <2>3. Up(d, k + 1, refs) # None
    <3>1. CASE k + 1 = n
      BY <1>2, <3>1
    <3>2. CASE k + 1 # n
      <4>1. k + 1 \in Nat /\ k + 1 < n
        BY <1>3, <3>2
      <4>2. QED
        BY <1>1, <1>2, <4>1, ChainStaysInside
    <3>3. QED
      BY <3>1, <3>2
  <2>4. Up(d, k, refs) # r
    BY <2>2, <2>3
  <2>5. QED
    BY <2>1, <2>4 DEF Above
<1>4. n \in 0 .. n
  OBVIOUS
<1>5. Up(d, n, more) = a
  BY <1>2, <1>3, <1>4, SameChain
<1>6. QED
  BY <1>2, <1>5 DEF Beneath

(* The ref table is what the accepted operations declare. *)
RefsAreDeclared(s) ==
  /\ DOMAIN s.refs = Refs
  /\ \A i \in DOMAIN s.accepted : Creates(s.accepted[i]) =>
       /\ s.refs[s.accepted[i].ref] = s.accepted[i].parent_id
       /\ s.accepted[i].parent_id # None
  /\ \A r \in Refs : s.refs[r] # None =>
       \E i \in DOMAIN s.accepted : Creates(s.accepted[i]) /\ s.accepted[i].ref = r

FilesAreTouched(s) ==
  \A i \in DOMAIN s.accepted : Touches(s.accepted[i]) =>
    <<s.accepted[i].op, s.accepted[i].file_id>> \in s.touched

(* A ref is declared once, and before it is used; no file is renamed, or    *)
(* moved, twice.                                                            *)
InOrder(p) ==
  /\ \A i, j \in DOMAIN p : i < j =>
       /\ Creates(p[i]) /\ Creates(p[j]) => p[i].ref # p[j].ref
       /\ Touches(p[i]) /\ p[i].op = p[j].op => p[i].file_id # p[j].file_id
  /\ \A j \in DOMAIN p : ~ (p[j].op = "rename") /\ DestinationOf(p[j]) \in Refs =>
       \E i \in DOMAIN p : i < j /\ Creates(p[i]) /\ p[i].ref = DestinationOf(p[j])

(* What is changed is below the root, and so is where it is put. *)
InPlace(p, known) ==
  \A i \in DOMAIN p :
    /\ Touches(p[i]) =>
         /\ p[i].file_id # Root
         /\ p[i].file_id \in DOMAIN known
         /\ Beneath(p[i].file_id, Root, known)
    /\ ~ (p[i].op = "rename") /\ DestinationOf(p[i]) \notin Refs =>
         RealDestination(DestinationOf(p[i]), known)

(* A destination is, or hangs from, a real one. *)
Anchors(d, a, refs, known) ==
  /\ a \notin Refs
  /\ RealDestination(a, known)
  /\ d = a \/ Beneath(d, a, refs)

RefsLead(refs, known) ==
  \A r \in Refs : refs[r] # None => \E a : Anchors(r, a, refs, known)

(* No folder is put below itself, as the snapshot has it. *)
NoCycles(p, refs, known) ==
  \A i \in DOMAIN p : Moves(p[i]) =>
    \E a : /\ Anchors(p[i].new_parent_id, a, refs, known)
           /\ IsFolder(p[i].file_id) =>
                a # p[i].file_id /\ ~ Beneath(a, p[i].file_id, known)

Sound(s, known) ==
  /\ RefsAreDeclared(s)
  /\ FilesAreTouched(s)
  /\ InOrder(s.accepted)
  /\ InPlace(s.accepted, known)
  /\ RefsLead(s.refs, known)
  /\ NoCycles(s.accepted, s.refs, known)

(* The destination that CheckDestination lets through has an anchor. *)
LEMMA DestinationHasAnchor ==
  ASSUME NEW known, IsKnown(known), NEW granted, NEW refs, RefsLead(refs, known),
         NEW d, CheckDestination(d, known, granted, refs) = "ok"
  PROVE  /\ \E a : Anchors(d, a, refs, known)
         /\ d \notin Refs => RealDestination(d, known)
         /\ d # None
<1>1. IsFiniteSet(DOMAIN known) /\ None \notin DOMAIN known
  BY DEF IsKnown
<1>2. IF d \in Refs THEN refs[d] # None ELSE RealDestination(d, known)
  BY <1>1, DestinationIsProved
<1>3. CASE d \in Refs
  <2>1. d # None
    BY <1>3, RulesAssumption
  <2>2. QED
    BY <1>2, <1>3, <2>1 DEF RefsLead
<1>4. CASE d \notin Refs
  <2>1. RealDestination(d, known)
    BY <1>2, <1>4
  <2>2. d # None
    BY <1>1, <2>1 DEF RealDestination
  <2>3. QED
    BY <1>4, <2>1, <2>2 DEF Anchors
<1>5. QED
  BY <1>3, <1>4

(* Anchors stay when another ref is declared. *)
LEMMA DeclaringKeepsAnchors ==
  ASSUME NEW known, IsKnown(known), NEW refs, DOMAIN refs = Refs,
         NEW r \in Refs, refs[r] = None, NEW x, NEW d, NEW a, Anchors(d, a, refs, known)
  PROVE  Anchors(d, a, [refs EXCEPT ![r] = x], known)
<1>1. a # None
  BY DEF Anchors, RealDestination, IsKnown
<1>2. CASE d = a
  BY <1>2 DEF Anchors
<1>3. CASE Beneath(d, a, refs)
  <2>1. Beneath(d, a, [refs EXCEPT ![r] = x])
    BY <1>1, <1>3, DeclaringKeepsChains
  <2>2. QED
    BY <2>1 DEF Anchors
<1>4. QED
  BY <1>2, <1>3 DEF Anchors

LEMMA NothingIsSound ==
  ASSUME NEW known
  PROVE  Sound(Nothing, known)
<1>1. Nothing.accepted = <<>> /\ Nothing.refs = [r \in Refs |-> None]
  BY DEF Nothing
<1>2. DOMAIN Nothing.accepted = {}
  BY <1>1
<1>3. DOMAIN Nothing.refs = Refs /\ \A r \in Refs : Nothing.refs[r] = None
  BY <1>1
<1>4. RefsAreDeclared(Nothing)
  BY <1>2, <1>3 DEF RefsAreDeclared
<1>5. RefsLead(Nothing.refs, known)
  BY <1>3 DEF RefsLead
<1>6. QED
  BY <1>2, <1>4, <1>5 DEF Sound, FilesAreTouched, InOrder, InPlace, NoCycles

(* A folder to be created. *)
LEMMA CreateIsSound ==
  ASSUME NEW O, NEW ctx, IsKnown(ctx.known), NEW s, s.accepted \in Seq(O), NEW op \in O,
         Sound(s, ctx.known), Creates(op), op.ref \in Refs, CheckOp(op, ctx, s) = "ok"
  PROVE  Sound(Accept(s, op), ctx.known)
<1> DEFINE z == Accept(s, op)
           n == Len(s.accepted)
<1>1. op.op = "create_folder" /\ ~ Touches(op) /\ ~ Moves(op) /\ DestinationOf(op) = op.parent_id
  BY DEF Creates, Touches, Moves, DestinationOf
<1>2. /\ z.accepted = Append(s.accepted, op)
      /\ z.refs = [s.refs EXCEPT ![op.ref] = op.parent_id]
      /\ z.touched = s.touched
  BY <1>1 DEF Accept
<1>3. /\ DOMAIN s.accepted = 1 .. n /\ n \in Nat
      /\ DOMAIN z.accepted = 1 .. n + 1
      /\ \A i \in DOMAIN s.accepted : z.accepted[i] = s.accepted[i]
      /\ z.accepted[n + 1] = op
  BY <1>2, Appended
<1> HIDE DEF z, n
<1>4. /\ s.refs[op.ref] = None
      /\ CheckDestination(op.parent_id, ctx.known, ctx.granted, s.refs) = "ok"
  BY CheckCreate
<1>5. DOMAIN s.refs = Refs /\ RefsLead(s.refs, ctx.known)
  BY DEF Sound, RefsAreDeclared
<1>6. PICK b : Anchors(op.parent_id, b, s.refs, ctx.known)
  BY <1>4, <1>5, DestinationHasAnchor
<1>7. op.parent_id # None /\ (op.parent_id \notin Refs => RealDestination(op.parent_id, ctx.known))
  BY <1>4, <1>5, DestinationHasAnchor
<1>8. /\ DOMAIN z.refs = Refs
      /\ z.refs[op.ref] = op.parent_id
      /\ \A r \in Refs \ {op.ref} : z.refs[r] = s.refs[r]
  BY <1>2, <1>5
<1>9. \A i \in DOMAIN z.accepted : i \in DOMAIN s.accepted \/ (i = n + 1 /\ z.accepted[i] = op)
  BY <1>3
<1>10. \A i \in DOMAIN s.accepted : Creates(s.accepted[i]) => s.accepted[i].ref # op.ref
  BY <1>4 DEF Sound, RefsAreDeclared
<1>11. RefsAreDeclared(z)
  <2>1. ASSUME NEW i \in DOMAIN z.accepted, Creates(z.accepted[i])
        PROVE  z.refs[z.accepted[i].ref] = z.accepted[i].parent_id /\ z.accepted[i].parent_id # None
    <3>1. CASE i \in DOMAIN s.accepted
      <4>1. z.accepted[i] = s.accepted[i] /\ Creates(s.accepted[i])
        BY <1>3, <2>1, <3>1
      <4>2. s.refs[s.accepted[i].ref] = s.accepted[i].parent_id /\ s.accepted[i].parent_id # None
        BY <3>1, <4>1 DEF Sound, RefsAreDeclared
      <4>3. s.accepted[i].ref # op.ref
        BY <1>10, <3>1, <4>1
      <4>4. z.refs[s.accepted[i].ref] = s.refs[s.accepted[i].ref]
        BY <1>2, <1>5, <4>3
      <4>5. QED
        BY <4>1, <4>2, <4>4
    <3>2. CASE i = n + 1 /\ z.accepted[i] = op
      BY <1>7, <1>8, <3>2
    <3>3. QED
      BY <1>9, <3>1, <3>2
  <2>2. ASSUME NEW r \in Refs, z.refs[r] # None
        PROVE  \E i \in DOMAIN z.accepted : Creates(z.accepted[i]) /\ z.accepted[i].ref = r
    <3>1. CASE r = op.ref
      BY <1>3, <3>1
    <3>2. CASE r # op.ref
      <4>1. PICK i \in DOMAIN s.accepted : Creates(s.accepted[i]) /\ s.accepted[i].ref = r
        BY <1>8, <2>2, <3>2 DEF Sound, RefsAreDeclared
      <4>2. i \in DOMAIN z.accepted
        BY <1>3
      <4>3. QED
        BY <1>3, <4>1, <4>2
    <3>3. QED
      BY <3>1, <3>2
  <2>3. QED
    BY <1>8, <2>1, <2>2 DEF RefsAreDeclared
<1>12. FilesAreTouched(z)
  BY <1>1, <1>2, <1>3, <1>9 DEF Sound, FilesAreTouched
<1>13. InOrder(z.accepted)
  <2>1. ASSUME NEW i \in DOMAIN z.accepted, NEW j \in DOMAIN z.accepted, i < j
        PROVE  /\ Creates(z.accepted[i]) /\ Creates(z.accepted[j]) =>
                    z.accepted[i].ref # z.accepted[j].ref
               /\ Touches(z.accepted[i]) /\ z.accepted[i].op = z.accepted[j].op =>
                    z.accepted[i].file_id # z.accepted[j].file_id
    <3>1. i \in DOMAIN s.accepted
      BY <1>3, <2>1
    <3>2. CASE j \in DOMAIN s.accepted
      BY <1>3, <2>1, <3>1, <3>2 DEF Sound, InOrder
    <3>3. CASE j = n + 1 /\ z.accepted[j] = op
      <4>1. Touches(z.accepted[i]) => z.accepted[i].op # z.accepted[j].op
        BY <1>1, <3>3 DEF Touches
      <4>2. QED
        BY <1>3, <1>10, <3>1, <3>3, <4>1
    <3>4. QED
      BY <1>9, <3>2, <3>3
  <2>2. ASSUME NEW j \in DOMAIN z.accepted, ~ (z.accepted[j].op = "rename"),
               DestinationOf(z.accepted[j]) \in Refs
        PROVE  \E i \in DOMAIN z.accepted :
                 i < j /\ Creates(z.accepted[i]) /\ z.accepted[i].ref = DestinationOf(z.accepted[j])
    <3>1. CASE j \in DOMAIN s.accepted
      <4>1. z.accepted[j] = s.accepted[j]
        BY <1>3, <3>1
      <4>2. PICK i \in DOMAIN s.accepted :
              i < j /\ Creates(s.accepted[i]) /\ s.accepted[i].ref = DestinationOf(s.accepted[j])
        BY <2>2, <3>1, <4>1 DEF Sound, InOrder
      <4>3. i \in DOMAIN z.accepted
        BY <1>3
      <4>4. QED
        BY <1>3, <4>1, <4>2, <4>3
    <3>2. CASE j = n + 1 /\ z.accepted[j] = op
      <4>1. op.parent_id \in Refs
        BY <1>1, <2>2, <3>2
      <4>2. s.refs[op.parent_id] # None
        BY <1>4, <4>1 DEF CheckDestination
      <4>3. PICK i \in DOMAIN s.accepted : Creates(s.accepted[i]) /\ s.accepted[i].ref = op.parent_id
        BY <4>1, <4>2 DEF Sound, RefsAreDeclared
      <4>4. i \in DOMAIN z.accepted /\ i < j
        BY <1>3, <3>2
      <4>5. QED
        BY <1>1, <1>3, <3>2, <4>3, <4>4
    <3>3. QED
      BY <1>9, <3>1, <3>2
  <2>3. QED
    BY <2>1, <2>2 DEF InOrder
<1>14. InPlace(z.accepted, ctx.known)
  BY <1>1, <1>3, <1>7, <1>9 DEF Sound, InPlace
<1>15. ASSUME NEW d, NEW a, Anchors(d, a, s.refs, ctx.known) PROVE Anchors(d, a, z.refs, ctx.known)
  <2>1. Anchors(d, a, [s.refs EXCEPT ![op.ref] = op.parent_id], ctx.known)
    BY <1>4, <1>5, <1>15, DeclaringKeepsAnchors
  <2>2. QED
    BY <1>2, <2>1
<1>16. RefsLead(z.refs, ctx.known)
  <2>1. ASSUME NEW r \in Refs, z.refs[r] # None PROVE \E a : Anchors(r, a, z.refs, ctx.known)
    <3>1. CASE r = op.ref
      <4>1. Anchors(op.parent_id, b, z.refs, ctx.known)
        BY <1>6, <1>15
      <4>2. Above(r, z.refs) = op.parent_id
        BY <1>8, <3>1 DEF Above
      <4>3. Beneath(r, b, z.refs)
        BY <4>1, <4>2, BeneathStep DEF Anchors
      <4>4. QED
        BY <4>1, <4>3 DEF Anchors
    <3>2. CASE r # op.ref
      BY <1>5, <1>8, <1>15, <2>1, <3>2 DEF RefsLead
    <3>3. QED
      BY <3>1, <3>2
  <2>2. QED
    BY <2>1 DEF RefsLead
<1>17. NoCycles(z.accepted, z.refs, ctx.known)
  <2>1. ASSUME NEW i \in DOMAIN z.accepted, Moves(z.accepted[i])
        PROVE  \E a : /\ Anchors(z.accepted[i].new_parent_id, a, z.refs, ctx.known)
                      /\ IsFolder(z.accepted[i].file_id) =>
                           a # z.accepted[i].file_id /\ ~ Beneath(a, z.accepted[i].file_id, ctx.known)
    <3>1. i \in DOMAIN s.accepted /\ z.accepted[i] = s.accepted[i]
      BY <1>1, <1>3, <1>9, <2>1
    <3>2. PICK a : /\ Anchors(s.accepted[i].new_parent_id, a, s.refs, ctx.known)
                   /\ IsFolder(s.accepted[i].file_id) =>
                        a # s.accepted[i].file_id /\ ~ Beneath(a, s.accepted[i].file_id, ctx.known)
      BY <2>1, <3>1 DEF Sound, NoCycles
    <3>3. Anchors(s.accepted[i].new_parent_id, a, z.refs, ctx.known)
      BY <1>15, <3>2
    <3>4. QED
      BY <3>1, <3>2, <3>3
  <2>2. QED
    BY <2>1 DEF NoCycles
<1>18. Sound(z, ctx.known)
  BY <1>11, <1>12, <1>13, <1>14, <1>16, <1>17 DEF Sound
<1>19. QED
  BY <1>18 DEF z

(* A file to be renamed or moved. *)
LEMMA TouchIsSound ==
  ASSUME NEW O, NEW ctx, IsKnown(ctx.known), NEW s, s.accepted \in Seq(O), NEW op \in O,
         Sound(s, ctx.known), Touches(op), CheckOp(op, ctx, s) = "ok"
  PROVE  Sound(Accept(s, op), ctx.known)
<1> DEFINE z == Accept(s, op)
           n == Len(s.accepted)
<1>1. op.op # "create_folder" /\ ~ Creates(op) /\ (op.op = "rename" \/ Moves(op))
  BY DEF Creates, Touches, Moves
<1>2. /\ z.accepted = Append(s.accepted, op)
      /\ z.refs = s.refs
      /\ z.touched = s.touched \cup {<<op.op, op.file_id>>}
  BY <1>1 DEF Accept
<1>3. /\ DOMAIN s.accepted = 1 .. n /\ n \in Nat
      /\ DOMAIN z.accepted = 1 .. n + 1
      /\ \A i \in DOMAIN s.accepted : z.accepted[i] = s.accepted[i]
      /\ z.accepted[n + 1] = op
  BY <1>2, Appended
<1> HIDE DEF z, n
<1>4. /\ <<op.op, op.file_id>> \notin s.touched
      /\ CheckSource(op.file_id, ctx.known, ctx.granted) = "ok"
      /\ Moves(op) => /\ CheckDestination(op.new_parent_id, ctx.known, ctx.granted, s.refs) = "ok"
                      /\ CheckNoCycle(op.file_id, op.new_parent_id, ctx.known, s.refs) = "ok"
  <2>1. CASE op.op = "rename"
    <3>1. ~ Moves(op)
      BY <2>1 DEF Moves
    <3>2. QED
      BY <2>1, <3>1, CheckRename
  <2>2. CASE Moves(op)
    <3>1. op.op = "move"
      BY <2>2 DEF Moves
    <3>2. QED
      BY <2>2, <3>1, CheckMove
  <2>3. QED
    BY <1>1, <2>1, <2>2
<1>5. DOMAIN s.refs = Refs /\ RefsLead(s.refs, ctx.known)
  BY DEF Sound, RefsAreDeclared
<1>6. IsFiniteSet(DOMAIN ctx.known) /\ None \notin DOMAIN ctx.known
  BY DEF IsKnown
<1>7. /\ op.file_id # Root
      /\ op.file_id \in DOMAIN ctx.known
      /\ Beneath(op.file_id, Root, ctx.known)
  BY <1>4, <1>6, SourceIsProved
<1>8. \A i \in DOMAIN z.accepted : i \in DOMAIN s.accepted \/ (i = n + 1 /\ z.accepted[i] = op)
  BY <1>3
<1>9. RefsAreDeclared(z)
  <2>1. ASSUME NEW i \in DOMAIN z.accepted, Creates(z.accepted[i])
        PROVE  i \in DOMAIN s.accepted /\ z.accepted[i] = s.accepted[i]
    BY <1>1, <1>3, <1>8, <2>1
  <2>2. ASSUME NEW r \in Refs, z.refs[r] # None
        PROVE  \E i \in DOMAIN z.accepted : Creates(z.accepted[i]) /\ z.accepted[i].ref = r
    <3>1. PICK i \in DOMAIN s.accepted : Creates(s.accepted[i]) /\ s.accepted[i].ref = r
      BY <1>2, <2>2 DEF Sound, RefsAreDeclared
    <3>2. i \in DOMAIN z.accepted
      BY <1>3
    <3>3. QED
      BY <1>3, <3>1, <3>2
  <2>3. QED
    BY <1>2, <2>1, <2>2 DEF Sound, RefsAreDeclared
<1>10. FilesAreTouched(z)
  <2>1. ASSUME NEW i \in DOMAIN z.accepted, Touches(z.accepted[i])
        PROVE  <<z.accepted[i].op, z.accepted[i].file_id>> \in z.touched
    <3>1. CASE i \in DOMAIN s.accepted
      BY <1>2, <1>3, <2>1, <3>1 DEF Sound, FilesAreTouched
    <3>2. CASE i = n + 1 /\ z.accepted[i] = op
      BY <1>2, <3>2
    <3>3. QED
      BY <1>8, <3>1, <3>2
  <2>2. QED
    BY <2>1 DEF FilesAreTouched
<1>11. InOrder(z.accepted)
  <2>1. ASSUME NEW i \in DOMAIN z.accepted, NEW j \in DOMAIN z.accepted, i < j
        PROVE  /\ Creates(z.accepted[i]) /\ Creates(z.accepted[j]) =>
                    z.accepted[i].ref # z.accepted[j].ref
               /\ Touches(z.accepted[i]) /\ z.accepted[i].op = z.accepted[j].op =>
                    z.accepted[i].file_id # z.accepted[j].file_id
    <3>1. i \in DOMAIN s.accepted
      BY <1>3, <2>1
    <3>2. CASE j \in DOMAIN s.accepted
      BY <1>3, <2>1, <3>1, <3>2 DEF Sound, InOrder
    <3>3. CASE j = n + 1 /\ z.accepted[j] = op
      <4>1. ASSUME Touches(z.accepted[i]), z.accepted[i].op = op.op
            PROVE  z.accepted[i].file_id # op.file_id
        <5>1. <<op.op, z.accepted[i].file_id>> \in s.touched
          BY <1>3, <3>1, <4>1 DEF Sound, FilesAreTouched
        <5>2. QED
          BY <1>4, <5>1
      <4>2. QED
        BY <1>1, <3>3, <4>1
    <3>4. QED
      BY <1>8, <3>2, <3>3
  <2>2. ASSUME NEW j \in DOMAIN z.accepted, ~ (z.accepted[j].op = "rename"),
               DestinationOf(z.accepted[j]) \in Refs
        PROVE  \E i \in DOMAIN z.accepted :
                 i < j /\ Creates(z.accepted[i]) /\ z.accepted[i].ref = DestinationOf(z.accepted[j])
    <3>1. CASE j \in DOMAIN s.accepted
      <4>1. z.accepted[j] = s.accepted[j]
        BY <1>3, <3>1
      <4>2. PICK i \in DOMAIN s.accepted :
              i < j /\ Creates(s.accepted[i]) /\ s.accepted[i].ref = DestinationOf(s.accepted[j])
        BY <2>2, <3>1, <4>1 DEF Sound, InOrder
      <4>3. i \in DOMAIN z.accepted
        BY <1>3
      <4>4. QED
        BY <1>3, <4>1, <4>2, <4>3
    <3>2. CASE j = n + 1 /\ z.accepted[j] = op
      <4>1. Moves(op) /\ DestinationOf(op) = op.new_parent_id /\ op.new_parent_id \in Refs
        BY <1>1, <2>2, <3>2 DEF DestinationOf
      <4>2. s.refs[op.new_parent_id] # None
        BY <1>4, <4>1 DEF CheckDestination
      <4>3. PICK i \in DOMAIN s.accepted :
              Creates(s.accepted[i]) /\ s.accepted[i].ref = op.new_parent_id
        BY <4>1, <4>2 DEF Sound, RefsAreDeclared
      <4>4. i \in DOMAIN z.accepted /\ i < j
        BY <1>3, <3>2
      <4>5. QED
        BY <1>3, <3>2, <4>1, <4>3, <4>4
    <3>3. QED
      BY <1>8, <3>1, <3>2
  <2>3. QED
    BY <2>1, <2>2 DEF InOrder
<1>12. Moves(op) =>
         /\ \E a : Anchors(op.new_parent_id, a, s.refs, ctx.known)
         /\ op.new_parent_id \notin Refs => RealDestination(op.new_parent_id, ctx.known)
  BY <1>4, <1>5, DestinationHasAnchor
<1>13. InPlace(z.accepted, ctx.known)
  <2>1. ~ (op.op = "rename") /\ DestinationOf(op) \notin Refs => RealDestination(DestinationOf(op), ctx.known)
    BY <1>1, <1>12 DEF DestinationOf
  <2>2. QED
    BY <1>3, <1>7, <1>8, <2>1 DEF Sound, InPlace
<1>14. ASSUME Moves(op)
       PROVE  \E a : /\ Anchors(op.new_parent_id, a, s.refs, ctx.known)
                     /\ IsFolder(op.file_id) => a # op.file_id /\ ~ Beneath(a, op.file_id, ctx.known)
  <2>1. PICK a : Anchors(op.new_parent_id, a, s.refs, ctx.known)
    BY <1>12, <1>14
  <2>2. a \notin Refs /\ a # None
    BY <1>6, <2>1 DEF Anchors, RealDestination
  <2>3. op.file_id # None
    BY <1>6, <1>7
  <2>4. IsFolder(op.file_id) => a # op.file_id /\ ~ Beneath(a, op.file_id, ctx.known)
    BY <1>4, <1>5, <1>6, <1>14, <2>1, <2>2, <2>3, NoCycleIsProved DEF Anchors
  <2>5. QED
    BY <2>1, <2>4
<1>15. NoCycles(z.accepted, z.refs, ctx.known)
  <2>1. ASSUME NEW i \in DOMAIN z.accepted, Moves(z.accepted[i])
        PROVE  \E a : /\ Anchors(z.accepted[i].new_parent_id, a, z.refs, ctx.known)
                      /\ IsFolder(z.accepted[i].file_id) =>
                           a # z.accepted[i].file_id /\ ~ Beneath(a, z.accepted[i].file_id, ctx.known)
    <3>1. CASE i \in DOMAIN s.accepted
      BY <1>2, <1>3, <2>1, <3>1 DEF Sound, NoCycles
    <3>2. CASE i = n + 1 /\ z.accepted[i] = op
      BY <1>2, <1>14, <2>1, <3>2
    <3>3. QED
      BY <1>8, <3>1, <3>2
  <2>2. QED
    BY <2>1 DEF NoCycles
<1>16. RefsLead(z.refs, ctx.known)
  BY <1>2, <1>5
<1>17. Sound(z, ctx.known)
  BY <1>9, <1>10, <1>11, <1>13, <1>15, <1>16 DEF Sound
<1>18. QED
  BY <1>17 DEF z

(* Whatever has been accepted after n operations is sound. *)
LEMMA LoopIsSound ==
  ASSUME NEW O, \A op \in O : IsOperation(op), NEW ops \in Seq(O),
         NEW ctx, IsKnown(ctx.known), NEW n \in 0 .. Len(ops)
  PROVE  /\ UpTo(ops, n, ctx).accepted \in Seq(O)
         /\ Len(UpTo(ops, n, ctx).accepted) <= n
         /\ Sound(UpTo(ops, n, ctx), ctx.known)
<1> DEFINE P(k) == /\ UpTo(ops, k, ctx).accepted \in Seq(O)
                   /\ Len(UpTo(ops, k, ctx).accepted) <= k
                   /\ Sound(UpTo(ops, k, ctx), ctx.known)
           S == {k \in Nat : k <= Len(ops) => P(k)}
<1>1. P(0)
  <2>1. UpTo(ops, 0, ctx) = Nothing /\ Nothing.accepted = <<>>
    BY UpToZero DEF Nothing
  <2>2. <<>> \in Seq(O) /\ Len(<<>>) <= 0
    OBVIOUS
  <2>3. Sound(UpTo(ops, 0, ctx), ctx.known)
    BY <2>1, NothingIsSound
  <2>4. QED
    BY <2>1, <2>2, <2>3
<1>2. ASSUME NEW k \in Nat, k < Len(ops), P(k) PROVE P(k + 1)
  <2> DEFINE s == UpTo(ops, k, ctx)
             op == ops[k + 1]
  <2>1. op \in O /\ IsOperation(op)
    BY <1>2
  <2>2. UpTo(ops, k + 1, ctx) = Turn(s, op, ctx)
    BY UpToNext
  <2>3. s.accepted \in Seq(O) /\ Len(s.accepted) <= k /\ Sound(s, ctx.known)
    BY <1>2
  <2> HIDE DEF s, op
  <2>4. CASE CheckOp(op, ctx, s) = "ok"
    <3>1. UpTo(ops, k + 1, ctx) = Accept(s, op)
      BY <2>2, <2>4 DEF Turn
    <3>2. Accept(s, op).accepted = Append(s.accepted, op)
      BY DEF Accept
    <3>3. Accept(s, op).accepted \in Seq(O) /\ Len(Accept(s, op).accepted) <= k + 1
      BY <2>1, <2>3, <3>2, Appended
    <3>4. Sound(Accept(s, op), ctx.known)
      <4>1. CASE Creates(op)
        BY <2>1, <2>3, <2>4, <4>1, CreateIsSound DEF IsOperation, Creates
      <4>2. CASE Touches(op)
        BY <2>1, <2>3, <2>4, <4>2, TouchIsSound
      <4>3. QED
        BY <2>1, <4>1, <4>2 DEF IsOperation, Creates, Touches
    <3>5. QED
      BY <3>1, <3>3, <3>4
  <2>5. CASE CheckOp(op, ctx, s) # "ok"
    <3>1. UpTo(ops, k + 1, ctx) = s
      BY <2>2, <2>5 DEF Turn
    <3>2. Len(s.accepted) <= k + 1
      BY <2>3
    <3>3. QED
      BY <2>3, <3>1, <3>2
  <2>6. QED
    BY <2>4, <2>5
<1> HIDE DEF P
<1>3. 0 \in S
  BY <1>1
<1>4. ASSUME NEW k \in Nat, k \in S PROVE k + 1 \in S
  <2>1. Len(ops) \in Nat
    OBVIOUS
  <2>2. CASE k + 1 <= Len(ops)
    BY <1>2, <1>4, <2>1, <2>2
  <2>3. CASE ~ (k + 1 <= Len(ops))
    BY <2>3
  <2>4. QED
    BY <2>2, <2>3
<1>5. Nat \subseteq S
  BY <1>3, <1>4, Induction
<1>6. P(n)
  BY <1>5
<1>7. QED
  BY <1>6 DEF P

(* k more operations leave what was accepted as it was and add k at most. *)
LEMMA LoopExtends ==
  ASSUME NEW O, \A op \in O : IsOperation(op), NEW ops \in Seq(O),
         NEW ctx, IsKnown(ctx.known), NEW m \in Nat, NEW n \in m .. Len(ops)
  PROVE  LET before == UpTo(ops, m, ctx).accepted
             after  == UpTo(ops, n, ctx).accepted
         IN /\ Len(before) <= Len(after)
            /\ Len(after) <= Len(before) + (n - m)
            /\ \A i \in 1 .. Len(before) : after[i] = before[i]
<1> DEFINE a(k) == UpTo(ops, k, ctx).accepted
           P(k) == /\ Len(a(m)) <= Len(a(m + k))
                   /\ Len(a(m + k)) <= Len(a(m)) + k
                   /\ \A i \in 1 .. Len(a(m)) : a(m + k)[i] = a(m)[i]
           S == {k \in Nat : m + k <= Len(ops) => P(k)}
<1>0. Len(ops) \in Nat
  OBVIOUS
<1>1. \A k \in 0 .. Len(ops) : a(k) \in Seq(O) /\ Len(a(k)) \in Nat
  <2>1. TAKE k \in 0 .. Len(ops)
  <2>2. a(k) \in Seq(O)
    BY LoopIsSound
  <2>3. Len(a(k)) \in Nat
    BY <2>2
  <2>4. QED
    BY <2>2, <2>3
<1>2. ASSUME m <= Len(ops) PROVE P(0)
  <2>1. m + 0 = m /\ m \in 0 .. Len(ops)
    BY <1>2
  <2>2. Len(a(m)) \in Nat
    BY <1>1, <2>1
  <2> HIDE DEF a
  <2>3. QED
    BY <2>1, <2>2
<1>3. ASSUME NEW k \in Nat, m + k < Len(ops), P(k) PROVE P(k + 1)
  <2>1. m + (k + 1) = (m + k) + 1 /\ m + k \in 0 .. Len(ops) /\ m + (k + 1) \in 0 .. Len(ops) /\ m \in 0 .. Len(ops)
    BY <1>0, <1>3
  <2> DEFINE s == UpTo(ops, m + k, ctx)
             op == ops[(m + k) + 1]
  <2>2. UpTo(ops, m + (k + 1), ctx) = Turn(s, op, ctx)
    BY <2>1, UpToNext
  <2>3. op \in O
    BY <1>0, <1>3
  <2>4. a(m + k) = s.accepted /\ a(m + k) \in Seq(O) /\ Len(a(m)) \in Nat /\ Len(a(m + k)) \in Nat
    BY <1>1, <2>1
  <2>5. CASE CheckOp(op, ctx, s) = "ok"
    <3>1. a(m + (k + 1)) = Append(a(m + k), op)
      BY <2>2, <2>4, <2>5 DEF Turn, Accept
    <3> HIDE DEF a, s, op
    <3>2. Len(a(m + (k + 1))) = Len(a(m + k)) + 1 /\ \A i \in 1 .. Len(a(m + k)) : a(m + (k + 1))[i] = a(m + k)[i]
      BY <2>3, <2>4, <3>1, Appended
    <3>3. \A i \in 1 .. Len(a(m)) : i \in 1 .. Len(a(m + k))
      BY <1>3, <2>4
    <3>4. Len(a(m)) <= Len(a(m + k)) /\ Len(a(m + k)) <= Len(a(m)) + k
      BY <1>3
    <3>5. Len(a(m)) <= Len(a(m + (k + 1))) /\ Len(a(m + (k + 1))) <= Len(a(m)) + (k + 1)
      BY <2>4, <3>2, <3>4
    <3>6. \A i \in 1 .. Len(a(m)) : a(m + (k + 1))[i] = a(m)[i]
      BY <1>3, <3>2, <3>3
    <3>7. QED
      BY <3>5, <3>6
  <2>6. CASE CheckOp(op, ctx, s) # "ok"
    <3>1. a(m + (k + 1)) = a(m + k)
      BY <2>2, <2>4, <2>6 DEF Turn
    <3> HIDE DEF a, s, op
    <3>2. QED
      BY <1>3, <2>4, <3>1
  <2>7. QED
    BY <2>5, <2>6
<1> HIDE DEF P, a
<1>4. 0 \in S
  BY <1>0, <1>2
<1>5. ASSUME NEW k \in Nat, k \in S PROVE k + 1 \in S
  <2>1. CASE m + (k + 1) <= Len(ops)
    <3>1. m + k < Len(ops) /\ m + k <= Len(ops)
      BY <1>0, <2>1
    <3>2. QED
      BY <1>3, <1>5, <3>1
  <2>2. CASE ~ (m + (k + 1) <= Len(ops))
    BY <2>2
  <2>3. QED
    BY <2>1, <2>2
<1>6. Nat \subseteq S
  BY <1>4, <1>5, Induction
<1>7. n - m \in Nat /\ m + (n - m) = n /\ n <= Len(ops)
  BY <1>0
<1>8. P(n - m)
  BY <1>6, <1>7
<1>9. QED
  BY <1>7, <1>8 DEF P, a

(* If as many operations are accepted as were submitted, they are the ones. *)
LEMMA AllAccepted ==
  ASSUME NEW O, \A op \in O : IsOperation(op), NEW ops \in Seq(O),
         NEW ctx, IsKnown(ctx.known), Len(Accepted(ops, ctx)) = Len(ops)
  PROVE  Accepted(ops, ctx) = ops
<1> DEFINE a(k) == UpTo(ops, k, ctx).accepted
           S == {k \in Nat : k <= Len(ops) => \A i \in 1 .. k : a(k)[i] = ops[i]}
<1>0. Len(ops) \in Nat /\ Accepted(ops, ctx) = a(Len(ops))
  BY DEF Accepted
<1>1. ASSUME NEW k \in 0 .. Len(ops) PROVE a(k) \in Seq(O) /\ Len(a(k)) = k
  <2>1. a(k) \in Seq(O) /\ Len(a(k)) <= k
    BY LoopIsSound
  <2>2. Len(a(Len(ops))) <= Len(a(k)) + (Len(ops) - k)
    <3>1. k \in Nat /\ Len(ops) \in k .. Len(ops)
      BY <1>0
    <3>2. QED
      BY <3>1, LoopExtends
  <2>3. Len(a(k)) \in Nat
    BY <2>1
  <2> HIDE DEF a
  <2>4. QED
    BY <1>0, <2>1, <2>2, <2>3
<1>2. ASSUME NEW k \in Nat, k < Len(ops), \A i \in 1 .. k : a(k)[i] = ops[i]
      PROVE  \A i \in 1 .. k + 1 : a(k + 1)[i] = ops[i]
  <2> DEFINE s == UpTo(ops, k, ctx)
             op == ops[k + 1]
  <2>1. UpTo(ops, k + 1, ctx) = Turn(s, op, ctx)
    BY UpToNext
  <2>2. k \in 0 .. Len(ops) /\ k + 1 \in 0 .. Len(ops) /\ op \in O
    BY <1>0, <1>2
  <2>3. a(k) \in Seq(O) /\ Len(a(k)) = k /\ Len(a(k + 1)) = k + 1
    BY <1>1, <2>2
  <2>4. CheckOp(op, ctx, s) = "ok"
    <3> SUFFICES ASSUME CheckOp(op, ctx, s) # "ok" PROVE FALSE
      OBVIOUS
    <3>1. a(k + 1) = a(k)
      BY <2>1 DEF Turn
    <3> HIDE DEF a, s, op
    <3>2. QED
      BY <2>3, <3>1
  <2>5. a(k + 1) = Append(a(k), op)
    BY <2>1, <2>4 DEF Turn, Accept
  <2> HIDE DEF a, s
  <2>6. \A i \in 1 .. k : a(k + 1)[i] = a(k)[i]
    BY <2>2, <2>3, <2>5, Appended
  <2>7. a(k + 1)[k + 1] = ops[k + 1]
    BY <2>2, <2>3, <2>5, Appended
  <2>8. \A i \in 1 .. k + 1 : i \in 1 .. k \/ i = k + 1
    OBVIOUS
  <2>9. QED
    BY <1>2, <2>6, <2>7, <2>8
<1> HIDE DEF a
<1>3. 0 \in S
  OBVIOUS
<1>4. ASSUME NEW k \in Nat, k \in S PROVE k + 1 \in S
  <2>1. CASE k + 1 <= Len(ops)
    <3>1. k < Len(ops) /\ k <= Len(ops)
      BY <1>0, <2>1
    <3>2. QED
      BY <1>2, <1>4, <3>1
  <2>2. CASE ~ (k + 1 <= Len(ops))
    BY <2>2
  <2>3. QED
    BY <2>1, <2>2
<1>5. Nat \subseteq S
  BY <1>3, <1>4, Induction
<1>6. \A i \in 1 .. Len(ops) : a(Len(ops))[i] = ops[i]
  BY <1>0, <1>5
<1>7. a(Len(ops)) \in Seq(O) /\ Len(a(Len(ops))) = Len(ops)
  BY <1>0, <1>1
<1>8. QED
  BY <1>0, <1>6, <1>7

-----------------------------------------------------------------------------
(* The validator's guarantee: with the refs they declare, the operations    *)
(* that validate_plan accepts are in order, change only what is proved to   *)
(* be below the root, put it there, and put no folder below itself.         *)
THEOREM AcceptedPlanIsSound ==
  ASSUME NEW O, \A op \in O : IsOperation(op), NEW ops \in Seq(O),
         NEW ctx, IsKnown(ctx.known)
  PROVE  /\ Accepted(ops, ctx) \in Seq(O)
         /\ Len(Accepted(ops, ctx)) <= Len(ops)
         /\ \E refs : /\ DOMAIN refs = Refs
                      /\ InOrder(Accepted(ops, ctx))
                      /\ InPlace(Accepted(ops, ctx), ctx.known)
                      /\ RefsLead(refs, ctx.known)
                      /\ NoCycles(Accepted(ops, ctx), refs, ctx.known)
                      /\ \A i \in DOMAIN Accepted(ops, ctx) : Creates(Accepted(ops, ctx)[i]) =>
                           refs[Accepted(ops, ctx)[i].ref] = Accepted(ops, ctx)[i].parent_id
<1> DEFINE s == UpTo(ops, Len(ops), ctx)
<1>1. Len(ops) \in 0 .. Len(ops)
  OBVIOUS
<1>2. s.accepted \in Seq(O) /\ Len(s.accepted) <= Len(ops) /\ Sound(s, ctx.known)
  BY <1>1, LoopIsSound
<1>3. Accepted(ops, ctx) = s.accepted
  BY DEF Accepted
<1> HIDE DEF s
<1>4. DOMAIN s.refs = Refs /\ \A i \in DOMAIN s.accepted : Creates(s.accepted[i]) =>
                                s.refs[s.accepted[i].ref] = s.accepted[i].parent_id
  BY <1>2 DEF Sound, RefsAreDeclared
<1>5. QED
  BY <1>2, <1>3, <1>4 DEF Sound

-----------------------------------------------------------------------------
(* Looking again at the same Drive. *)

(* A part of a finite forest is finite and no larger. *)
LEMMA PartIsKnown ==
  ASSUME NEW t, IsKnown(t), NEW u, PartOf(u, t)
  PROVE  IsKnown(u) /\ Cardinality(DOMAIN u) <= Cardinality(DOMAIN t)
<1>1. IsFiniteSet(DOMAIN t) /\ DOMAIN u \subseteq DOMAIN t
  BY DEF IsKnown, PartOf
<1>2. IsFiniteSet(DOMAIN u) /\ Cardinality(DOMAIN u) <= Cardinality(DOMAIN t)
  BY <1>1, FS_Subset
<1>3. QED
  BY <1>1, <1>2 DEF IsKnown

(* A snapshot that looks for f has the whole chain by which another snapshot *)
(* of the same Drive proved that f is below the root.                        *)
LEMMA ChainIsFetchedAgain ==
  ASSUME NEW t, IsKnown(t), NEW visible, visible \subseteq DOMAIN t,
         NEW known, PartOf(known, t), DOMAIN known \subseteq visible,
         NEW found, found \subseteq visible, NEW f \in found, Beneath(f, Root, known)
  PROVE  Beneath(f, Root, SnapshotOf(found, t, visible))
<1> DEFINE again == SnapshotOf(found, t, visible)
<1>1. IsKnown(known) /\ Cardinality(DOMAIN known) <= Cardinality(DOMAIN t)
  BY PartIsKnown
<1>2. IsFiniteSet(DOMAIN known) /\ None \notin DOMAIN known /\ Root # None
  BY <1>1, RulesAssumption DEF IsKnown
<1>3. PICK m \in 1 .. Cardinality(DOMAIN known) :
        /\ Up(f, m, known) = Root
        /\ \A k \in 0 .. m - 1 : Up(f, k, known) \in DOMAIN known
        /\ \A k \in 1 .. m - 1 : Up(f, k, known) # Root
  BY <1>2, ShortestChain
<1>4. Cardinality(DOMAIN known) \in Nat /\ Cardinality(DOMAIN t) \in Nat
  BY <1>2, CardinalityIsNat DEF IsKnown
<1>5. m \in Nat /\ m # 0 /\ m <= Cardinality(DOMAIN t)
  BY <1>1, <1>4
<1>6. \A i \in 0 .. m : Up(f, i, t) = Up(f, i, known)
  BY <1>2, <1>3, <1>5, PartKeepsChain
<1>7. PartOf(again, t) /\ found \subseteq DOMAIN again
  BY SnapshotIsPart
<1>8. ASSUME NEW k \in 0 .. m - 1 PROVE Up(f, k, t) \in DOMAIN again
  <2>1. CASE k = 0
    BY <1>7, <2>1, UpZero
  <2>2. CASE k # 0
    <3>1. k \in 1 .. Cardinality(DOMAIN t)
      BY <1>4, <1>5, <2>2
    <3>2. \A i \in 1 .. k : i \in 0 .. m /\ i \in 0 .. m - 1
      BY <1>5
    <3>3. \A i \in 1 .. k : Up(f, i, t) \in visible
      BY <1>3, <1>6, <3>2
    <3>4. \A i \in 1 .. k - 1 : i \in 0 .. m /\ i \in 1 .. m - 1
      BY <1>5
    <3>5. \A i \in 1 .. k - 1 : Up(f, i, t) # Root
      BY <1>3, <1>6, <3>4
    <3>6. QED
      BY <3>1, <3>3, <3>5, SnapshotClimbs
  <2>3. QED
    BY <2>1, <2>2
<1>9. m \in 0 .. m
  BY <1>5
<1>10. Up(f, m, t) = Root
  BY <1>3, <1>6, <1>9
<1> HIDE DEF again
<1>11. Beneath(f, Up(f, m, t), again)
  BY <1>5, <1>7, <1>8, PartHasChain
<1>12. Beneath(f, Root, again)
  BY <1>10, <1>11
<1>13. QED
  BY <1>12 DEF again

(* What is above a proved destination on Drive and is itself below the root *)
(* is above it in the snapshot, for there is nothing above the root.        *)
LEMMA AboveIsFetched ==
  ASSUME NEW t, IsKnown(t), ~ Beneath(Root, Root, t), NEW known, PartOf(known, t),
         NEW a, InWorkspace(a, known), NEW f, f # None, Beneath(f, Root, t), Beneath(a, f, t)
  PROVE  Beneath(a, f, known)
<1>1. ~ Beneath(Root, f, t)
  BY BeneathIsTransitive
<1>2. Beneath(a, Root, known)
  BY <1>1 DEF InWorkspace
<1>3. PICK m \in Nat : m # 0 /\ Up(a, m, known) = Root
  BY <1>2 DEF Beneath
<1>4. PICK n \in Nat : n # 0 /\ Up(a, n, t) = f
  BY DEF Beneath
<1>5. None \notin DOMAIN known /\ Root # None
  BY PartIsKnown, RulesAssumption DEF IsKnown
<1>6. \A i \in 0 .. m : Up(a, i, t) = Up(a, i, known)
  BY <1>3, <1>5, PartKeepsChain
<1>7. CASE n <= m
  <2>1. n \in 0 .. m
    BY <1>7
  <2>2. QED
    BY <1>4, <1>6, <2>1 DEF Beneath
<1>8. CASE m < n
  <2>1. m \in 0 .. m /\ n - m \in Nat /\ n - m # 0 /\ n = m + (n - m)
    BY <1>8
  <2>2. Up(a, m, t) = Root
    BY <1>3, <1>6, <2>1
  <2>3. Up(a, n, t) = Up(Root, n - m, t)
    BY <2>1, <2>2, UpSum
  <2>4. Beneath(Root, f, t)
    BY <1>4, <2>1, <2>3 DEF Beneath
  <2>5. QED
    BY <1>1, <2>4
<1>9. QED
  BY <1>7, <1>8

(* The files an operation names, refs apart, are among these. *)
Covers(found, op, visible) ==
  /\ Touches(op) /\ op.file_id \in visible => op.file_id \in found
  /\ ~ (op.op = "rename") /\ DestinationOf(op) \in visible \ Refs => DestinationOf(op) \in found

(* An operation that one snapshot lets through passes again on another one  *)
(* of the same Drive which has what the operation names.                    *)
LEMMA CheckedAgain ==
  ASSUME NEW t, IsKnown(t), ~ Beneath(Root, Root, t), NEW visible, visible \subseteq DOMAIN t,
         NEW ctx, PartOf(ctx.known, t), DOMAIN ctx.known \subseteq visible,
         NEW found, found \subseteq visible,
         NEW new, new.known = SnapshotOf(found, t, visible), DOMAIN new.known \subseteq new.granted,
         NEW op, IsOperation(op), Covers(found, op, visible),
         NEW s, Sound(s, ctx.known), CheckOp(op, ctx, s) = "ok"
  PROVE  CheckOp(op, new, s) = "ok"
<1>1. IsKnown(ctx.known)
  BY PartIsKnown
<1>2. PartOf(new.known, t) /\ found \subseteq DOMAIN new.known
  <2>1. PartOf(SnapshotOf(found, t, visible), t) /\ found \subseteq DOMAIN SnapshotOf(found, t, visible)
    BY SnapshotIsPart
  <2>2. QED
    BY <2>1
<1>3. IsKnown(new.known)
  BY <1>2, PartIsKnown
<1>4. /\ IsFiniteSet(DOMAIN ctx.known) /\ None \notin DOMAIN ctx.known
      /\ IsFiniteSet(DOMAIN new.known) /\ None \notin DOMAIN new.known
      /\ None \notin DOMAIN t /\ DOMAIN ctx.known \cap Refs = {}
  BY <1>1, <1>3 DEF IsKnown
<1>5. ASSUME NEW f \in found, Beneath(f, Root, ctx.known) PROVE Beneath(f, Root, new.known)
  BY <1>5, ChainIsFetchedAgain
<1>6. ASSUME Touches(op), CheckSource(op.file_id, ctx.known, ctx.granted) = "ok"
      PROVE  CheckSource(op.file_id, new.known, new.granted) = "ok"
  <2>1. /\ op.file_id # Root /\ op.file_id \in DOMAIN ctx.known
        /\ Beneath(op.file_id, Root, ctx.known)
    BY <1>4, <1>6, SourceIsProved
  <2>2. op.file_id \in found
    BY <1>6, <2>1 DEF Covers
  <2>3. Beneath(op.file_id, Root, new.known)
    BY <1>5, <2>1, <2>2
  <2>4. op.file_id \in DOMAIN new.known /\ op.file_id \in new.granted
    BY <1>2, <2>2
  <2>5. QED
    BY <1>4, <2>1, <2>3, <2>4, SourceIsProved
<1>7. ASSUME ~ (op.op = "rename"), NEW d, d = DestinationOf(op),
             CheckDestination(d, ctx.known, ctx.granted, s.refs) = "ok"
      PROVE  CheckDestination(d, new.known, new.granted, s.refs) = "ok"
  <2>1. CASE d \in Refs
    BY <1>4, <1>7, <2>1, DestinationIsProved
  <2>2. CASE d \notin Refs
    <3>1. RealDestination(d, ctx.known)
      BY <1>4, <1>7, <2>2, DestinationIsProved
    <3>2. d \in found
      BY <1>7, <2>2, <3>1 DEF Covers, RealDestination
    <3>3. InWorkspace(d, new.known)
      BY <1>5, <3>1, <3>2 DEF RealDestination, InWorkspace
    <3>4. RealDestination(d, new.known) /\ d \in new.granted
      BY <1>2, <3>1, <3>2, <3>3 DEF RealDestination
    <3>5. QED
      BY <1>4, <2>2, <3>4, DestinationIsProved
  <2>3. QED
    BY <2>1, <2>2
<1>8. CASE Creates(op)
  <2>1. op.op # "rename" /\ DestinationOf(op) = op.parent_id
    BY <1>8 DEF Creates, DestinationOf
  <2>2. QED
    BY <1>7, <1>8, <2>1, CheckCreate
<1>9. CASE op.op = "rename"
  <2>1. Touches(op)
    BY <1>9 DEF Touches
  <2>2. QED
    BY <1>6, <1>9, <2>1, CheckRename
<1>10. CASE Moves(op)
  <2>1. Touches(op) /\ op.op # "rename" /\ DestinationOf(op) = op.new_parent_id
    BY <1>10 DEF Moves, Touches, DestinationOf, Creates
  <2> DEFINE f == op.file_id
             d == op.new_parent_id
  <2>2. /\ <<"move", f>> \notin s.touched
        /\ CheckSource(f, ctx.known, ctx.granted) = "ok"
        /\ CheckDestination(d, ctx.known, ctx.granted, s.refs) = "ok"
        /\ CheckNoCycle(f, d, ctx.known, s.refs) = "ok"
    BY <1>10, CheckMove
  <2>3. DOMAIN s.refs = Refs /\ RefsLead(s.refs, ctx.known)
    BY DEF Sound, RefsAreDeclared
  <2>4. PICK a : Anchors(d, a, s.refs, ctx.known)
    BY <1>1, <2>2, <2>3, DestinationHasAnchor
  <2>5. a \notin Refs /\ a # None /\ InWorkspace(a, ctx.known)
    BY <1>4, <2>4 DEF Anchors, RealDestination
  <2>6. f # None /\ Beneath(f, Root, ctx.known)
    BY <1>4, <2>2, SourceIsProved
  <2>7. Root # None
    BY RulesAssumption
  <2>8. Beneath(f, Root, t)
    BY <1>4, <2>6, <2>7, PartKeepsBeneath
  <2>9. d = a \/ Beneath(d, a, s.refs)
    BY <2>4 DEF Anchors
  <2>10. IsFolder(f) => a # f /\ ~ Beneath(a, f, ctx.known)
    BY <1>4, <2>2, <2>3, <2>5, <2>6, <2>9, NoCycleIsProved
  <2>11. ASSUME Beneath(a, f, new.known) PROVE Beneath(a, f, ctx.known)
    <3>1. Beneath(a, f, t)
      BY <1>2, <1>4, <2>6, <2>11, PartKeepsBeneath
    <3>2. QED
      BY <2>5, <2>6, <2>8, <3>1, AboveIsFetched
  <2>12. IsFolder(f) => a # f /\ ~ Beneath(a, f, new.known)
    BY <2>10, <2>11
  <2>13. CheckNoCycle(f, d, new.known, s.refs) = "ok"
    <3>1. CheckNoCycle(f, d, new.known, s.refs) = "ok"
            <=> (IsFolder(f) => a # f /\ ~ Beneath(a, f, new.known))
      BY <1>4, <2>3, <2>5, <2>6, <2>9, NoCycleIsProved
    <3>2. QED
      BY <2>12, <3>1
  <2>14. CheckSource(f, new.known, new.granted) = "ok"
    BY <1>6, <2>1, <2>2
  <2>15. CheckDestination(d, new.known, new.granted, s.refs) = "ok"
    BY <1>7, <2>1, <2>2
  <2>16. QED
    BY <1>10, <2>2, <2>13, <2>14, <2>15, CheckMove
<1>11. QED
  BY <1>8, <1>9, <1>10 DEF IsOperation, Creates, Moves

(* What was accepted of a plan is accepted as a whole when it is validated  *)
(* by itself, with what it names fetched again from the same Drive.         *)
THEOREM AcceptedIsAcceptedAgain ==
  ASSUME NEW O, \A op \in O : IsOperation(op), NEW plan \in Seq(O),
         NEW t, IsKnown(t), ~ Beneath(Root, Root, t), NEW visible, visible \subseteq DOMAIN t,
         NEW ctx, PartOf(ctx.known, t), DOMAIN ctx.known \subseteq visible,
         NEW found, found \subseteq visible,
         NEW new, new.known = SnapshotOf(found, t, visible), DOMAIN new.known \subseteq new.granted,
         \A i \in DOMAIN Accepted(plan, ctx) : Covers(found, Accepted(plan, ctx)[i], visible)
  PROVE  Accepted(Accepted(plan, ctx), new) = Accepted(plan, ctx)
<1> DEFINE A == Accepted(plan, ctx)
           s(k) == UpTo(plan, k, ctx)
           P(k) == UpTo(A, Len(s(k).accepted), new) = s(k)
           S == {k \in Nat : k <= Len(plan) => P(k)}
<1>1. IsKnown(ctx.known)
  BY PartIsKnown
<1>2. Len(plan) \in Nat /\ A = s(Len(plan)).accepted
  BY DEF Accepted
<1>3. P(0)
  <2>1. s(0) = Nothing /\ Nothing.accepted = <<>>
    BY UpToZero DEF Nothing
  <2>2. Len(s(0).accepted) = 0
    BY <2>1
  <2> HIDE DEF A, s
  <2>3. QED
    BY <2>1, <2>2, UpToZero
<1>4. ASSUME NEW k \in Nat, k < Len(plan), P(k) PROVE P(k + 1)
  <2> DEFINE op == plan[k + 1]
             n == Len(s(k).accepted)
  <2>1. k \in 0 .. Len(plan) /\ k + 1 \in Nat /\ Len(plan) \in k + 1 .. Len(plan) /\ k + 1 \in 0 .. Len(plan)
    BY <1>2, <1>4
  <2>2. s(k + 1) = Turn(s(k), op, ctx)
    BY UpToNext
  <2>3. s(k).accepted \in Seq(O) /\ Sound(s(k), ctx.known) /\ s(k + 1).accepted \in Seq(O) /\ A \in Seq(O)
    BY <1>1, <1>2, <2>1, LoopIsSound
  <2>4. op \in O /\ n \in Nat
    BY <1>4, <2>3
  <2>5. /\ Len(s(k + 1).accepted) <= Len(A)
        /\ \A i \in 1 .. Len(s(k + 1).accepted) : A[i] = s(k + 1).accepted[i]
    BY <1>1, <1>2, <2>1, LoopExtends
  <2>6. UpTo(A, n, new) = s(k)
    BY <1>4
  <2>7. CASE CheckOp(op, ctx, s(k)) = "ok"
    <3>1. s(k + 1) = Accept(s(k), op)
      BY <2>2, <2>7 DEF Turn
    <3>2. s(k + 1).accepted = Append(s(k).accepted, op)
      BY <3>1 DEF Accept
    <3> HIDE DEF A, s, op
    <3>3. Len(s(k + 1).accepted) = n + 1 /\ s(k + 1).accepted[n + 1] = op
      BY <2>3, <2>4, <3>2, Appended
    <3> HIDE DEF n
    <3>4. A[n + 1] = op /\ n + 1 \in DOMAIN A
      BY <2>3, <2>4, <2>5, <3>3
    <3>5. Covers(found, op, visible)
      BY <3>4 DEF A
    <3>6. CheckOp(op, new, s(k)) = "ok"
      BY <2>3, <2>4, <2>7, <3>5, CheckedAgain
    <3>7. UpTo(A, n + 1, new) = Turn(s(k), op, new)
      BY <2>4, <2>6, <3>4, UpToNext
    <3>8. UpTo(A, n + 1, new) = s(k + 1)
      BY <3>1, <3>6, <3>7 DEF Turn
    <3>9. QED
      BY <3>3, <3>8
  <2>8. CASE CheckOp(op, ctx, s(k)) # "ok"
    <3>1. s(k + 1) = s(k)
      BY <2>2, <2>8 DEF Turn
    <3> HIDE DEF A, s
    <3>2. QED
      BY <2>6, <3>1
  <2>9. QED
    BY <2>7, <2>8
<1> HIDE DEF P
<1>5. 0 \in S
  BY <1>3
<1>6. ASSUME NEW k \in Nat, k \in S PROVE k + 1 \in S
  <2>1. CASE k + 1 <= Len(plan)
    <3>1. k < Len(plan) /\ k <= Len(plan)
      BY <1>2, <2>1
    <3>2. QED
      BY <1>4, <1>6, <3>1
  <2>2. CASE ~ (k + 1 <= Len(plan))
    BY <2>2
  <2>3. QED
    BY <2>1, <2>2
<1>7. Nat \subseteq S
  BY <1>5, <1>6, Induction
<1>8. P(Len(plan))
  BY <1>2, <1>7
<1>9. UpTo(A, Len(A), new) = s(Len(plan))
  BY <1>2, <1>8 DEF P
<1>10. Accepted(A, new) = s(Len(plan)).accepted
  BY <1>9 DEF Accepted
<1>11. QED
  BY <1>2, <1>10
=============================================================================
