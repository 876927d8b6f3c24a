------------------------- MODULE FindDuplicates_proofs -------------------------
(***************************************************************************)
(* What find_duplicates reports, for every Drive, whatever its files look  *)
(* like and in whatever order they are listed.  The invariant, DupInv,     *)
(* says that the report is what the rules make of the listing; the rest is *)
(* about the rules.  A list sorted by distinct keys is the same however it *)
(* was arranged before, since each key has a place among the others: so    *)
(* the report forgets the order (ReportForgetsTheOrder).  A bucket holds   *)
(* files of one key, sorted by time (GroupsHoldOnlyTwins).  One pass over  *)
(* a name takes off at least what one more mark has put on, and never what *)
(* the author wrote, so that after four passes copies have the title of    *)
(* what they were copied from, and meet in a bucket (CopiesAreFound).      *)
(***************************************************************************)
EXTENDS FindDuplicates, ListFolder_proofs, SequenceTheorems

-----------------------------------------------------------------------------
(* Below is a strict total order of the sequences of numbers. *)

Lower(m, a, n, b) ==
  \/ m < n /\ \A i \in 1..m : a[i] = b[i]
  \/ \E i \in 1..m : i <= n /\ a[i] < b[i] /\ \A j \in 1..(i - 1) : a[j] = b[j]

LEMMA SequenceOfNumbers ==
  ASSUME NEW s \in Seq(Nat)
  PROVE  Len(s) \in Nat /\ DOMAIN s = 1..Len(s) /\ \A i \in 1..Len(s) : s[i] \in Nat
  OBVIOUS

LEMMA BelowIsLower ==
  ASSUME NEW a \in Seq(Nat), NEW b \in Seq(Nat)
  PROVE  Below(a, b) <=> Lower(Len(a), a, Len(b), b)
<1>1. Len(a) \in Nat /\ DOMAIN a = 1..Len(a) /\ Len(b) \in Nat /\ DOMAIN b = 1..Len(b)
  BY SequenceOfNumbers
<1>2. \A i : i \in DOMAIN a \cap DOMAIN b <=> i \in 1..Len(a) /\ i <= Len(b)
  BY <1>1
<1>3. QED
  BY <1>1, <1>2 DEF Below, Lower

LEMMA LowerIsTransitive ==
  ASSUME NEW m \in Nat, NEW n \in Nat, NEW l \in Nat, NEW a, NEW b, NEW c,
         \A i \in 1..m : a[i] \in Nat, \A i \in 1..n : b[i] \in Nat, \A i \in 1..l : c[i] \in Nat,
         Lower(m, a, n, b), Lower(n, b, l, c)
  PROVE  Lower(m, a, l, c)
<1> USE DEF Lower
<1>1. CASE m < n /\ \A i \in 1..m : a[i] = b[i]
  <2>1. CASE n < l /\ \A i \in 1..n : b[i] = c[i]
    BY <1>1, <2>1
  <2>2. ASSUME NEW i \in 1..n, i <= l, b[i] < c[i], \A j \in 1..(i - 1) : b[j] = c[j]
        PROVE  Lower(m, a, l, c)
    <3>1. CASE i <= m
      <4>1. i \in 1..m /\ a[i] < c[i] /\ \A j \in 1..(i - 1) : a[j] = c[j]
        BY <1>1, <2>2, <3>1
      <4>2. QED
        BY <2>2, <4>1
    <3>2. CASE m < i
      BY <1>1, <2>2, <3>2
    <3>3. QED
      BY <3>1, <3>2
  <2>3. QED
    BY <2>1, <2>2
<1>2. ASSUME NEW i \in 1..m, i <= n, a[i] < b[i], \A j \in 1..(i - 1) : a[j] = b[j]
      PROVE  Lower(m, a, l, c)
  <2>1. CASE n < l /\ \A k \in 1..n : b[k] = c[k]
    <3>1. i <= l /\ a[i] < c[i] /\ \A j \in 1..(i - 1) : a[j] = c[j]
      BY <1>2, <2>1
    <3>2. QED
      BY <3>1
  <2>2. ASSUME NEW k \in 1..n, k <= l, b[k] < c[k], \A j \in 1..(k - 1) : b[j] = c[j]
        PROVE  Lower(m, a, l, c)
    <3>1. CASE i <= k
      <4>1. i \in 1..n /\ i \in 1..l
        BY <1>2, <2>2, <3>1
      <4>2. b[i] <= c[i]
        BY <2>2, <3>1, <4>1
      <4>3. a[i] < c[i]
        BY <1>2, <4>1, <4>2
      <4>4. \A j \in 1..(i - 1) : a[j] = c[j]
        BY <1>2, <2>2, <3>1
      <4>5. QED
        BY <4>1, <4>3, <4>4
    <3>2. CASE k < i
      <4>1. k \in 1..m /\ a[k] = b[k]
        BY <1>2, <2>2, <3>2
      <4>2. \A j \in 1..(k - 1) : a[j] = c[j]
        BY <1>2, <2>2, <3>2
      <4>3. QED
        BY <2>2, <4>1, <4>2
    <3>3. QED
      BY <3>1, <3>2
  <2>3. QED
    BY <2>1, <2>2
<1>3. QED
  BY <1>1, <1>2

LEMMA LowerIsTotal ==
  ASSUME NEW m \in Nat, NEW n \in Nat, NEW a, NEW b,
         \A i \in 1..m : a[i] \in Nat, \A i \in 1..n : b[i] \in Nat,
         m # n \/ \E i \in 1..m : a[i] # b[i]
  PROVE  Lower(m, a, n, b) \/ Lower(n, b, m, a)
<1> DEFINE T == {i \in 1..m : i <= n /\ a[i] # b[i]}
<1>1. CASE T = {}
  BY <1>1 DEF Lower
<1>2. CASE T # {}
  <2>1. T \subseteq Nat
    OBVIOUS
  <2>2. PICK i \in T : \A k \in T : i <= k
    BY <1>2, <2>1, LeastNumber
  <2>3. \A j \in 1..(i - 1) : j \in 1..m /\ j <= n /\ j \notin T
    BY <2>2
  <2>4. \A j \in 1..(i - 1) : a[j] = b[j]
    BY <2>3
  <2>5. a[i] < b[i] \/ b[i] < a[i]
    BY <2>2
  <2>6. QED
    BY <2>2, <2>4, <2>5 DEF Lower
<1>3. QED
  BY <1>1, <1>2

LEMMA BelowIsIrreflexive ==
  ASSUME NEW a \in Seq(Nat)
  PROVE  ~ Below(a, a)
<1>1. Len(a) \in Nat /\ \A i \in 1..Len(a) : a[i] \in Nat
  BY SequenceOfNumbers
<1>2. ~ Lower(Len(a), a, Len(a), a)
  BY <1>1 DEF Lower
<1>3. QED
  BY <1>2, BelowIsLower

LEMMA BelowIsTransitive ==
  ASSUME NEW a \in Seq(Nat), NEW b \in Seq(Nat), NEW c \in Seq(Nat), Below(a, b), Below(b, c)
  PROVE  Below(a, c)
<1>1. Lower(Len(a), a, Len(b), b) /\ Lower(Len(b), b, Len(c), c)
  BY BelowIsLower
<1>2. Lower(Len(a), a, Len(c), c)
  BY <1>1, LowerIsTransitive, SequenceOfNumbers
<1>3. QED
  BY <1>2, BelowIsLower

LEMMA BelowIsTotal ==
  ASSUME NEW a \in Seq(Nat), NEW b \in Seq(Nat), a # b
  PROVE  Below(a, b) \/ Below(b, a)
<1>1. Len(a) # Len(b) \/ \E i \in 1..Len(a) : a[i] # b[i]
  OBVIOUS
<1>2. Lower(Len(a), a, Len(b), b) \/ Lower(Len(b), b, Len(a), a)
  BY <1>1, LowerIsTotal, SequenceOfNumbers
<1>3. QED
  BY <1>2, BelowIsLower

-----------------------------------------------------------------------------
(* Sorting. *)

(* In a finite set with a strict total order, given by what is before what, *)
(* there is for every number one member that has so many before it.         *)
LEMMA EachHasItsPlace ==
  ASSUME NEW S, IsFiniteSet(S), NEW B \in [S -> SUBSET S],
         \A x \in S : x \notin B[x],
         \A x \in S : \A y \in B[x] : B[y] \subseteq B[x],
         \A x \in S, y \in S : x # y => x \in B[y] \/ y \in B[x]
  PROVE  /\ \A x \in S : Cardinality(B[x]) \in 0..(Cardinality(S) - 1)
         /\ \A x \in S, y \in S : Cardinality(B[x]) = Cardinality(B[y]) => x = y
         /\ \A n \in 1..Cardinality(S) : \E x \in S : Cardinality(B[x]) = n - 1
<1>1. Cardinality(S) \in Nat
  BY CardinalityIsNat
<1>2. \A x \in S : /\ IsFiniteSet(B[x]) /\ Cardinality(B[x]) \in Nat
                   /\ Cardinality(B[x]) < Cardinality(S)
  <2> SUFFICES ASSUME NEW x \in S
               PROVE  /\ IsFiniteSet(B[x]) /\ Cardinality(B[x]) \in Nat
                      /\ Cardinality(B[x]) < Cardinality(S)
    OBVIOUS
  <2>1. B[x] \in SUBSET S /\ B[x] # S
    OBVIOUS
  <2>2. IsFiniteSet(B[x]) /\ Cardinality(B[x]) <= Cardinality(S) /\ Cardinality(B[x]) # Cardinality(S)
    BY <2>1, FS_Subset
  <2>3. Cardinality(B[x]) \in Nat
    BY <2>2, CardinalityIsNat
  <2>4. QED
    BY <1>1, <2>2, <2>3
<1>3. ASSUME NEW x \in S, NEW y \in S, x \in B[y]
      PROVE  Cardinality(B[x]) # Cardinality(B[y])
  <2>1. B[x] \in SUBSET B[y] /\ B[x] # B[y]
    BY <1>3
  <2>2. QED
    BY <1>2, <2>1, FS_Subset
<1>4. \A x \in S, y \in S : Cardinality(B[x]) = Cardinality(B[y]) => x = y
  BY <1>3
<1> DEFINE place == [x \in S |-> Cardinality(B[x])]
           Places == 0..(Cardinality(S) - 1)
<1>5. \A x \in S : Cardinality(B[x]) \in Places
  BY <1>1, <1>2
<1>6. place \in Injection(S, Places)
  <2>1. place \in [S -> Places] /\ \A x \in S : place[x] = Cardinality(B[x])
    BY <1>5
  <2>2. \A x \in S, y \in S : place[x] = place[y] => x = y
    BY <1>4, <2>1
  <2> HIDE DEF place, Places
  <2>3. QED
    BY <2>1, <2>2 DEF Injection, IsInjective
<1>7. IsFiniteSet(Places) /\ Cardinality(Places) = Cardinality(S)
  <2>1. 0 \in Int /\ Cardinality(S) - 1 \in Int
    BY <1>1
  <2>2. IsFiniteSet(Places) /\ Cardinality(Places) = IF 0 > Cardinality(S) - 1 THEN 0 ELSE (Cardinality(S) - 1) - 0 + 1
    BY <2>1, FS_Interval
  <2>3. QED
    BY <1>1, <2>2
<1>8. place \in Surjection(S, Places)
  BY <1>6, <1>7, FS_Injection
<1>9. ASSUME NEW n \in 1..Cardinality(S)
      PROVE  \E x \in S : Cardinality(B[x]) = n - 1
  <2>1. n - 1 \in Places
    BY <1>1
  <2>2. QED
    BY <1>8, <2>1 DEF Surjection
<1>10. QED
  BY <1>4, <1>5, <1>9

(* What precedes a position in the stable order of the keys, and the        *)
(* position that comes n-th.                                                *)
Before(key, i) == {j \in DOMAIN key : Below(key[j], key[i]) \/ (key[j] = key[i] /\ j < i)}

At(key, n) == CHOOSE i \in DOMAIN key : Cardinality(Before(key, i)) = n - 1

LEMMA OrderedIsAt ==
  ASSUME NEW files, NEW key
  PROVE  Ordered(files, key) = [n \in 1..Cardinality(DOMAIN key) |-> files[At(key, n)]]
  BY DEF Ordered, At, Before

(* Keys that are sequences of numbers, on finitely many positions. *)
Keys(key) ==
  /\ key = [i \in DOMAIN key |-> key[i]] /\ IsFiniteSet(DOMAIN key) /\ DOMAIN key \subseteq Nat
  /\ \A i \in DOMAIN key : key[i] \in Seq(Nat)

(* A stable sort puts every position in one place. *)
LEMMA OnePlaceEach ==
  ASSUME NEW key, Keys(key)
  PROVE  /\ \A i \in DOMAIN key : Cardinality(Before(key, i)) \in 0..(Cardinality(DOMAIN key) - 1)
         /\ \A i \in DOMAIN key, j \in DOMAIN key :
              Cardinality(Before(key, i)) = Cardinality(Before(key, j)) => i = j
         /\ \A n \in 1..Cardinality(DOMAIN key) :
              \E i \in DOMAIN key : Cardinality(Before(key, i)) = n - 1
<1> DEFINE S == DOMAIN key
           B == [i \in S |-> Before(key, i)]
<1>1. B \in [S -> SUBSET S] /\ \A i \in S : B[i] = Before(key, i)
  BY DEF Before
<1>2. IsFiniteSet(S) /\ S \subseteq Nat
  BY DEF Keys
<1>3. \A i \in S, j \in S : j \in Before(key, i) <=> Below(key[j], key[i]) \/ (key[j] = key[i] /\ j < i)
  BY DEF Before
<1>4. \A i \in S : i \notin B[i]
  BY <1>1, <1>2, <1>3, BelowIsIrreflexive DEF Keys
<1>5. ASSUME NEW i \in S, NEW j \in B[i] PROVE B[j] \subseteq B[i]
  <2> SUFFICES ASSUME NEW k \in B[j] PROVE k \in B[i]
    OBVIOUS
  <2>1. j \in S /\ k \in S /\ key[i] \in Seq(Nat) /\ key[j] \in Seq(Nat) /\ key[k] \in Seq(Nat)
    BY <1>1 DEF Keys
  <2>2. Below(key[j], key[i]) \/ (key[j] = key[i] /\ j < i)
    BY <1>1, <1>3, <2>1
  <2>3. Below(key[k], key[j]) \/ (key[k] = key[j] /\ k < j)
    BY <1>1, <1>3, <2>1
  <2>4. Below(key[k], key[j]) /\ Below(key[j], key[i]) => Below(key[k], key[i])
    BY <2>1, BelowIsTransitive
  <2>5. k < j /\ j < i => k < i
    BY <1>2, <2>1
  <2>6. Below(key[k], key[i]) \/ (key[k] = key[i] /\ k < i)
    BY <2>2, <2>3, <2>4, <2>5
  <2>7. QED
    BY <1>1, <1>3, <2>1, <2>6
<1>6. ASSUME NEW i \in S, NEW j \in S, i # j PROVE i \in B[j] \/ j \in B[i]
  <2>1. key[i] \in Seq(Nat) /\ key[j] \in Seq(Nat)
    BY DEF Keys
  <2>2. key[i] = key[j] \/ Below(key[i], key[j]) \/ Below(key[j], key[i])
    BY <2>1, BelowIsTotal
  <2>3. i < j \/ j < i
    BY <1>2, <1>6
  <2>4. QED
    BY <1>1, <1>3, <2>2, <2>3
<1> HIDE DEF B, S
<1>7. /\ \A i \in S : Cardinality(B[i]) \in 0..(Cardinality(S) - 1)
      /\ \A i \in S, j \in S : Cardinality(B[i]) = Cardinality(B[j]) => i = j
      /\ \A n \in 1..Cardinality(S) : \E i \in S : Cardinality(B[i]) = n - 1
  <2>1. B \in [S -> SUBSET S] /\ IsFiniteSet(S)
    BY <1>1, <1>2
  <2>2. /\ \A i \in S : i \notin B[i]
        /\ \A i \in S : \A j \in B[i] : B[j] \subseteq B[i]
        /\ \A i \in S, j \in S : i # j => i \in B[j] \/ j \in B[i]
    BY <1>4, <1>5, <1>6
  <2>3. QED
    BY <2>1, <2>2, EachHasItsPlace
<1>8. QED
  <2>1. /\ \A i \in S : Cardinality(Before(key, i)) \in 0..(Cardinality(S) - 1)
        /\ \A i \in S, j \in S : Cardinality(Before(key, i)) = Cardinality(Before(key, j)) => i = j
        /\ \A n \in 1..Cardinality(S) : \E i \in S : Cardinality(Before(key, i)) = n - 1
    BY <1>1, <1>7
  <2>2. QED
    BY <2>1 DEF S

LEMMA AtFacts ==
  ASSUME NEW key, Keys(key)
  PROVE  /\ Cardinality(DOMAIN key) \in Nat
         /\ \A n \in 1..Cardinality(DOMAIN key) :
              At(key, n) \in DOMAIN key /\ Cardinality(Before(key, At(key, n))) = n - 1
         /\ \A i \in DOMAIN key : \E n \in 1..Cardinality(DOMAIN key) : i = At(key, n)
<1>1. Cardinality(DOMAIN key) \in Nat
  BY CardinalityIsNat DEF Keys
<1>2. ASSUME NEW n \in 1..Cardinality(DOMAIN key)
      PROVE  At(key, n) \in DOMAIN key /\ Cardinality(Before(key, At(key, n))) = n - 1
  <2>1. \E i \in DOMAIN key : Cardinality(Before(key, i)) = n - 1
    BY OnePlaceEach
  <2>2. QED
    BY <2>1 DEF At
<1>3. ASSUME NEW i \in DOMAIN key
      PROVE  \E n \in 1..Cardinality(DOMAIN key) : i = At(key, n)
  <2>1. Cardinality(Before(key, i)) \in 0..(Cardinality(DOMAIN key) - 1)
    BY OnePlaceEach
  <2>2. PICK n \in 1..Cardinality(DOMAIN key) : n = Cardinality(Before(key, i)) + 1
    BY <1>1, <2>1
  <2>3. Cardinality(Before(key, At(key, n))) = Cardinality(Before(key, i)) /\ At(key, n) \in DOMAIN key
    BY <1>2, <2>1, <2>2
  <2>4. QED
    BY <2>3, OnePlaceEach
<1>4. QED
  BY <1>1, <1>2, <1>3

(* One to one, and onto. *)
OneToOne(p, S, T) ==
  /\ p \in [S -> T]
  /\ \A i \in S, j \in S : p[i] = p[j] => i = j
  /\ \A i \in T : \E j \in S : p[j] = i

LEMMA CarriedSets ==
  ASSUME NEW S, NEW T, NEW p, OneToOne(p, S, T), NEW U, U \subseteq T, IsFiniteSet(T)
  PROVE  LET C == {j \in S : p[j] \in U} IN IsFiniteSet(C) /\ Cardinality(C) = Cardinality(U)
<1> DEFINE C == {j \in S : p[j] \in U}
           q == [j \in C |-> p[j]]
<1>1. q \in [C -> U] /\ \A j \in C : q[j] = p[j]
  BY DEF OneToOne
<1>2. \A i \in C, j \in C : q[i] = q[j] => i = j
  BY <1>1 DEF OneToOne
<1>3. \A i \in U : \E j \in C : q[j] = i
  <2> SUFFICES ASSUME NEW i \in U PROVE \E j \in C : q[j] = i
    OBVIOUS
  <2>1. PICK j \in S : p[j] = i
    BY DEF OneToOne
  <2>2. j \in C /\ q[j] = i
    BY <1>1, <2>1
  <2>3. QED
    BY <2>2
<1>4. IsFiniteSet(U)
  BY FS_Subset
<1> HIDE DEF C, q
<1>5. q \in Injection(C, U)
  BY <1>1, <1>2 DEF Injection, IsInjective
<1>6. q \in Surjection(C, U)
  BY <1>1, <1>3 DEF Surjection
<1>7. IsFiniteSet(C) /\ Cardinality(C) = Cardinality(U)
  BY <1>4, <1>5, <1>6, FS_Injection
<1>8. QED
  BY <1>7 DEF C

LEMMA OneToOneCounts ==
  ASSUME NEW S, NEW T, NEW p, OneToOne(p, S, T), IsFiniteSet(T)
  PROVE  IsFiniteSet(S) /\ Cardinality(S) = Cardinality(T)
<1>1. {j \in S : p[j] \in T} = S
  BY DEF OneToOne
<1>2. QED
  BY <1>1, CarriedSets

(* The positions with a lower key, and those with no higher one. *)
LowerThan(key, v) == {j \in DOMAIN key : Below(key[j], v)}
UpToKey(key, v) == {j \in DOMAIN key : Below(key[j], v) \/ key[j] = v}

LEMMA CountsTellThePlace ==
  ASSUME NEW key, Keys(key), NEW n \in 1..Cardinality(DOMAIN key)
  PROVE  /\ Cardinality(LowerThan(key, key[At(key, n)])) <= n - 1
         /\ Cardinality(UpToKey(key, key[At(key, n)])) >= n
<1> DEFINE i == At(key, n)
           low == LowerThan(key, key[i])
           up == UpToKey(key, key[i])
<1>1. i \in DOMAIN key /\ Cardinality(Before(key, i)) = n - 1 /\ i \in Nat
  BY AtFacts DEF Keys
<1>2. IsFiniteSet(DOMAIN key)
  BY DEF Keys
<1>3. low \subseteq Before(key, i) /\ Before(key, i) \subseteq DOMAIN key
  BY DEF LowerThan, Before
<1>4. IsFiniteSet(Before(key, i))
  BY <1>2, <1>3, FS_Subset
<1>5. Cardinality(low) <= n - 1
  BY <1>1, <1>3, <1>4, FS_Subset
<1>6. i \notin Before(key, i)
  <2>1. ~ Below(key[i], key[i])
    BY <1>1, BelowIsIrreflexive DEF Keys
  <2>2. QED
    BY <1>1, <2>1 DEF Before
<1>7. Before(key, i) \cup {i} \subseteq up /\ up \subseteq DOMAIN key
  BY <1>1 DEF UpToKey, Before
<1>8. Cardinality(Before(key, i) \cup {i}) = n
  <2>1. Cardinality(Before(key, i) \cup {i}) = Cardinality(Before(key, i)) + 1
    BY <1>4, <1>6, FS_AddElement
  <2>2. QED
    BY <1>1, <2>1
<1>9. IsFiniteSet(up)
  BY <1>2, <1>7, FS_Subset
<1>10. Cardinality(up) >= n
  <2>1. Cardinality(Before(key, i) \cup {i}) <= Cardinality(up)
    BY <1>7, <1>9, FS_Subset
  <2>2. Cardinality(up) \in Nat
    BY <1>9, CardinalityIsNat
  <2>3. QED
    BY <1>8, <2>1, <2>2
<1>11. QED
  BY <1>5, <1>10

LEMMA CountsOrderKeys ==
  ASSUME NEW key, Keys(key), NEW v \in Seq(Nat), NEW w \in Seq(Nat), Below(v, w)
  PROVE  Cardinality(UpToKey(key, v)) <= Cardinality(LowerThan(key, w))
<1>1. UpToKey(key, v) \subseteq LowerThan(key, w)
  <2> SUFFICES ASSUME NEW j \in UpToKey(key, v) PROVE j \in LowerThan(key, w)
    OBVIOUS
  <2>1. j \in DOMAIN key /\ (Below(key[j], v) \/ key[j] = v) /\ key[j] \in Seq(Nat)
    BY DEF UpToKey, Keys
  <2>2. Below(key[j], w)
    BY <2>1, BelowIsTransitive
  <2>3. QED
    BY <2>1, <2>2 DEF LowerThan
<1>2. IsFiniteSet(LowerThan(key, w))
  <2>1. LowerThan(key, w) \subseteq DOMAIN key
    BY DEF LowerThan
  <2>2. QED
    BY <2>1, FS_Subset DEF Keys
<1>3. QED
  BY <1>1, <1>2, FS_Subset

(* The same keys in another order sort the same, if a key tells the file.   *)
LEMMA SortedTheSame ==
  ASSUME NEW files, NEW key, NEW files2, NEW key2, NEW p, Keys(key), Keys(key2),
         OneToOne(p, DOMAIN key2, DOMAIN key),
         \A j \in DOMAIN key2 : files2[j] = files[p[j]] /\ key2[j] = key[p[j]],
         \A i \in DOMAIN key, j \in DOMAIN key : key[i] = key[j] => files[i] = files[j]
  PROVE  Ordered(files, key) = Ordered(files2, key2)
<1>1. Cardinality(DOMAIN key) = Cardinality(DOMAIN key2)
  BY OneToOneCounts DEF Keys
<1>2. \A v : /\ Cardinality(LowerThan(key2, v)) = Cardinality(LowerThan(key, v))
             /\ Cardinality(UpToKey(key2, v)) = Cardinality(UpToKey(key, v))
  <2> SUFFICES ASSUME NEW v
               PROVE  /\ Cardinality(LowerThan(key2, v)) = Cardinality(LowerThan(key, v))
                      /\ Cardinality(UpToKey(key2, v)) = Cardinality(UpToKey(key, v))
    OBVIOUS
  <2>1. \A j \in DOMAIN key2 : p[j] \in DOMAIN key
    BY DEF OneToOne
  <2>2. LowerThan(key2, v) = {j \in DOMAIN key2 : p[j] \in LowerThan(key, v)}
    BY <2>1 DEF LowerThan
  <2>3. UpToKey(key2, v) = {j \in DOMAIN key2 : p[j] \in UpToKey(key, v)}
    BY <2>1 DEF UpToKey
  <2>4. LowerThan(key, v) \subseteq DOMAIN key /\ UpToKey(key, v) \subseteq DOMAIN key
    BY DEF LowerThan, UpToKey
  <2>5. IsFiniteSet(DOMAIN key)
    BY DEF Keys
  <2>6. \A U : U \subseteq DOMAIN key => Cardinality({j \in DOMAIN key2 : p[j] \in U}) = Cardinality(U)
    BY <2>5, CarriedSets
  <2>7. QED
    BY <2>2, <2>3, <2>4, <2>6
<1>3. ASSUME NEW n \in 1..Cardinality(DOMAIN key)
      PROVE  files[At(key, n)] = files2[At(key2, n)]
  <2> DEFINE v == key[At(key, n)]
             w == key2[At(key2, n)]
  <2>1. n \in Nat
    BY CardinalityIsNat DEF Keys
  <2>2. At(key, n) \in DOMAIN key /\ At(key2, n) \in DOMAIN key2
    BY <1>1, AtFacts
  <2>3. v \in Seq(Nat) /\ w \in Seq(Nat)
    BY <2>2 DEF Keys
  <2>4. /\ Cardinality(LowerThan(key, v)) <= n - 1 /\ Cardinality(UpToKey(key, v)) >= n
        /\ Cardinality(LowerThan(key2, w)) <= n - 1 /\ Cardinality(UpToKey(key2, w)) >= n
    BY <1>1, CountsTellThePlace
  <2>5. /\ Cardinality(LowerThan(key, w)) <= n - 1 /\ Cardinality(UpToKey(key, w)) >= n
    BY <1>2, <2>4
  <2>6. \A u : /\ Cardinality(LowerThan(key, u)) \in Nat /\ Cardinality(UpToKey(key, u)) \in Nat
    <3> SUFFICES ASSUME NEW u
                 PROVE  Cardinality(LowerThan(key, u)) \in Nat /\ Cardinality(UpToKey(key, u)) \in Nat
      OBVIOUS
    <3>1. LowerThan(key, u) \subseteq DOMAIN key /\ UpToKey(key, u) \subseteq DOMAIN key
      BY DEF LowerThan, UpToKey
    <3>2. IsFiniteSet(LowerThan(key, u)) /\ IsFiniteSet(UpToKey(key, u))
      BY <3>1, FS_Subset DEF Keys
    <3>3. QED
      BY <3>2, CardinalityIsNat
  <2> HIDE DEF v, w
  <2>7. ~ Below(v, w)
    <3>1. Below(v, w) => Cardinality(UpToKey(key, v)) <= Cardinality(LowerThan(key, w))
      BY <2>3, CountsOrderKeys
    <3>2. QED
      BY <2>1, <2>4, <2>5, <2>6, <3>1
  <2>8. ~ Below(w, v)
    <3>1. Below(w, v) => Cardinality(UpToKey(key, w)) <= Cardinality(LowerThan(key, v))
      BY <2>3, CountsOrderKeys
    <3>2. QED
      BY <2>1, <2>4, <2>5, <2>6, <3>1
  <2>9. v = w
    BY <2>3, <2>7, <2>8, BelowIsTotal
  <2>10. p[At(key2, n)] \in DOMAIN key /\ key[p[At(key2, n)]] = key[At(key, n)]
    BY <2>2, <2>9 DEF OneToOne, v, w
  <2>11. QED
    BY <2>2, <2>10
<1>4. Ordered(files, key) = [n \in 1..Cardinality(DOMAIN key) |-> files[At(key, n)]]
  BY OrderedIsAt
<1>5. Ordered(files2, key2) = [n \in 1..Cardinality(DOMAIN key) |-> files2[At(key2, n)]]
  BY <1>1, OrderedIsAt
<1>6. QED
  BY <1>3, <1>4, <1>5

-----------------------------------------------------------------------------
(* Titles.  The two cuts, given by where they end. *)

LEMMA CutRightIs ==
  ASSUME NEW T, NEW s \in Seq(T), NEW X, NEW n \in 0..Len(s),
         \A i \in (n + 1)..Len(s) : s[i] \in X, n = 0 \/ s[n] \notin X
  PROVE  CutRight(s, X) = SubSeq(s, 1, n)
<1> DEFINE Ends(m) == (\A i \in (m + 1)..Len(s) : s[i] \in X) /\ (m = 0 \/ s[m] \notin X)
<1>1. Len(s) \in Nat
  OBVIOUS
<1>2. \A m \in 0..Len(s) : Ends(m) => m = n
  <2> SUFFICES ASSUME NEW m \in 0..Len(s), Ends(m) PROVE m = n
    OBVIOUS
  <2>1. CASE m < n
    <3>1. n \in (m + 1)..Len(s)
      BY <1>1, <2>1
    <3>2. QED
      BY <2>1, <3>1
  <2>2. CASE n < m
    <3>1. m \in (n + 1)..Len(s)
      BY <1>1, <2>2
    <3>2. QED
      BY <2>2, <3>1
  <2>3. QED
    BY <1>1, <2>1, <2>2
<1>3. Ends(n)
  OBVIOUS
<1>4. (CHOOSE m \in 0..Len(s) : Ends(m)) = n
  <2> HIDE DEF Ends
  <2>1. QED
    BY <1>2, <1>3
<1>5. QED
  BY <1>4 DEF CutRight

LEMMA CutRightEnds ==
  ASSUME NEW T, NEW s \in Seq(T), NEW X
  PROVE  \E n \in 0..Len(s) : (\A i \in (n + 1)..Len(s) : s[i] \in X) /\ (n = 0 \/ s[n] \notin X)
<1> DEFINE N == {n \in 0..Len(s) : \A i \in (n + 1)..Len(s) : s[i] \in X}
<1>1. Len(s) \in Nat /\ N \subseteq Nat
  OBVIOUS
<1>2. Len(s) \in N
  BY <1>1
<1>3. PICK n \in N : \A m \in N : n <= m
  BY <1>1, <1>2, LeastNumber
<1>4. CASE n # 0 /\ s[n] \in X
  <2>1. n - 1 \in 0..Len(s) /\ \A i \in ((n - 1) + 1)..Len(s) : i = n \/ i \in (n + 1)..Len(s)
    BY <1>1, <1>4
  <2>2. n - 1 \in N
    BY <1>4, <2>1
  <2>3. n <= n - 1 /\ n \in Nat
    BY <1>1, <1>3, <2>2
  <2>4. QED
    BY <2>3
<1>5. QED
  BY <1>3, <1>4

LEMMA CutRightTyped ==
  ASSUME NEW T, NEW s \in Seq(T), NEW X
  PROVE  CutRight(s, X) \in Seq(T)
<1>1. PICK n \in 0..Len(s) : (\A i \in (n + 1)..Len(s) : s[i] \in X) /\ (n = 0 \/ s[n] \notin X)
  BY CutRightEnds
<1>2. CutRight(s, X) = SubSeq(s, 1, n)
  BY <1>1, CutRightIs
<1>3. n \in Int /\ 1 \in Int /\ \A i \in 1..n : s[i] \in T
  OBVIOUS
<1>4. QED
  BY <1>2, <1>3, SubSeqProperties

LEMMA CutLeftIs ==
  ASSUME NEW T, NEW s \in Seq(T), NEW X, NEW n \in 1..(Len(s) + 1),
         \A i \in 1..(n - 1) : s[i] \in X, n = Len(s) + 1 \/ s[n] \notin X
  PROVE  CutLeft(s, X) = SubSeq(s, n, Len(s))
<1> DEFINE Begins(m) == (\A i \in 1..(m - 1) : s[i] \in X) /\ (m = Len(s) + 1 \/ s[m] \notin X)
<1>1. Len(s) \in Nat
  OBVIOUS
<1>2. \A m \in 1..(Len(s) + 1) : Begins(m) => m = n
  <2> SUFFICES ASSUME NEW m \in 1..(Len(s) + 1), Begins(m) PROVE m = n
    OBVIOUS
  <2>1. CASE m < n
    <3>1. m \in 1..(n - 1) /\ m # Len(s) + 1
      BY <1>1, <2>1
    <3>2. QED
      BY <3>1
  <2>2. CASE n < m
    <3>1. n \in 1..(m - 1) /\ n # Len(s) + 1
      BY <1>1, <2>2
    <3>2. QED
      BY <3>1
  <2>3. QED
    BY <1>1, <2>1, <2>2
<1>3. Begins(n)
  OBVIOUS
<1>4. (CHOOSE m \in 1..(Len(s) + 1) : Begins(m)) = n
  <2> HIDE DEF Begins
  <2>1. QED
    BY <1>2, <1>3
<1>5. QED
  BY <1>4 DEF CutLeft

LEMMA CutLeftBegins ==
  ASSUME NEW T, NEW s \in Seq(T), NEW X
  PROVE  \E n \in 1..(Len(s) + 1) : (\A i \in 1..(n - 1) : s[i] \in X) /\ (n = Len(s) + 1 \/ s[n] \notin X)
<1> DEFINE N == {n \in 1..(Len(s) + 1) : n = Len(s) + 1 \/ s[n] \notin X}
<1>1. Len(s) \in Nat /\ N \subseteq Nat
  OBVIOUS
<1>2. Len(s) + 1 \in N
  BY <1>1
<1>3. PICK n \in N : \A m \in N : n <= m
  BY <1>1, <1>2, LeastNumber
<1>4. \A i \in 1..(n - 1) : i \notin N /\ i \in 1..(Len(s) + 1) /\ i # Len(s) + 1
  BY <1>1, <1>3
<1>5. QED
  BY <1>4

LEMMA CutLeftTyped ==
  ASSUME NEW T, NEW s \in Seq(T), NEW X
  PROVE  CutLeft(s, X) \in Seq(T)
<1>1. PICK n \in 1..(Len(s) + 1) : (\A i \in 1..(n - 1) : s[i] \in X) /\ (n = Len(s) + 1 \/ s[n] \notin X)
  BY CutLeftBegins
<1>2. CutLeft(s, X) = SubSeq(s, n, Len(s))
  BY <1>1, CutLeftIs
<1>3. n \in Int /\ Len(s) \in Int /\ \A i \in n..Len(s) : s[i] \in T
  OBVIOUS
<1>4. QED
  BY <1>2, <1>3, SubSeqProperties

LEMMA FrontTyped ==
  ASSUME NEW T, NEW s \in Seq(T)
  PROVE  Front(s) \in Seq(T)
<1>1. 1 \in Int /\ Len(s) - 1 \in Int /\ \A i \in 1..(Len(s) - 1) : s[i] \in T
  OBVIOUS
<1>2. QED
  BY <1>1, SubSeqProperties DEF Front

LEMMA PassTyped ==
  ASSUME NEW T, NEW s \in Seq(T)
  PROVE  /\ Strip(s) \in Seq(T) /\ WithoutNumber(s) \in Seq(T) /\ WithoutCopy(s) \in Seq(T)
         /\ WithoutCopyOf(s) \in Seq(T) /\ WithoutNumberedCopy(s) \in Seq(T)
<1>1. \A t \in Seq(T) : WithoutDash(t) \in Seq(T)
  BY CutRightTyped, FrontTyped DEF WithoutDash
<1>2. Strip(s) \in Seq(T)
  BY CutRightTyped, CutLeftTyped DEF Strip
<1>3. WithoutNumber(s) \in Seq(T)
  BY CutRightTyped, FrontTyped DEF WithoutNumber
<1>4. WithoutCopy(s) \in Seq(T)
  BY <1>1, CutRightTyped, FrontTyped DEF WithoutCopy
<1>5. WithoutCopyOf(s) \in Seq(T)
  <2> DEFINE t == CutLeft(s, Blank)
             u == CutLeft(Tail(t), Blank)
  <2>1. t \in Seq(T)
    BY CutLeftTyped
  <2>2. Len(t) > 1 => Tail(t) \in Seq(T)
    BY <2>1
  <2>3. Len(t) > 1 => u \in Seq(T)
    BY <2>2, CutLeftTyped
  <2>4. Len(t) > 1 /\ Len(u) > 1 => Tail(u) \in Seq(T)
    BY <2>3
  <2>5. Len(t) > 1 /\ Len(u) > 1 => CutLeft(Tail(u), Blank) \in Seq(T)
    BY <2>4, CutLeftTyped
  <2>6. QED
    BY <2>5 DEF WithoutCopyOf
<1>6. WithoutNumberedCopy(s) \in Seq(T)
  <2>1. CutRight(s, Blank) \in Seq(T)
    BY CutRightTyped
  <2>2. CutRight(Front(CutRight(s, Blank)), Blank) \in Seq(T)
    BY <2>1, CutRightTyped, FrontTyped
  <2>3. CutRight(Front(CutRight(Front(CutRight(s, Blank)), Blank)), Blank) \in Seq(T)
    BY <2>2, CutRightTyped, FrontTyped
  <2>4. QED
    BY <1>1, <2>3 DEF WithoutNumberedCopy
<1>7. QED
  BY <1>2, <1>3, <1>4, <1>5, <1>6

(* A recursion along 0..n, by steps that stay in a set. *)
IsRun(g, V, a, n, F) == g \in [0..n -> V] /\ g[0] = a /\ \A k \in 1..n : g[k] = F[k][g[k - 1]]

LEMMA RecursionExists ==
  ASSUME NEW V, NEW a, NEW n, NEW F, F \in [1..n -> [V -> V]] /\ n \in Nat /\ a \in V
  PROVE  \E g : IsRun(g, V, a, n, F)
<1> DEFINE Runs(g, m) == g \in [0..m -> V] /\ g[0] = a /\ \A k \in 1..m : g[k] = F[k][g[k - 1]]
           S == {m \in Nat : m <= n => \E g : Runs(g, m)}
<1>1. 0 \in S
  <2>1. Runs([k \in 0..0 |-> a], 0)
    OBVIOUS
  <2>2. QED
    BY <2>1
<1>2. ASSUME NEW m \in Nat, m \in S PROVE m + 1 \in S
  <2> SUFFICES ASSUME m + 1 <= n PROVE \E g : Runs(g, m + 1)
    OBVIOUS
  <2>1. PICK g : Runs(g, m)
    BY <1>2
  <2> DEFINE h == [k \in 0..(m + 1) |-> IF k = m + 1 THEN F[m + 1][g[m]] ELSE g[k]]
  <2>2. m + 1 \in 1..n /\ g[m] \in V
    BY <2>1
  <2>3. F[m + 1][g[m]] \in V
    BY <2>2
  <2>4. \A k \in 0..m : h[k] = g[k] /\ h[k] \in V
    BY <2>1
  <2>5. h \in [0..(m + 1) -> V] /\ h[m + 1] = F[m + 1][g[m]]
    <3>1. m + 1 \in 0..(m + 1) /\ \A k \in 0..(m + 1) : k = m + 1 \/ k \in 0..m
      OBVIOUS
    <3>2. h[m + 1] = F[m + 1][g[m]]
      BY <3>1
    <3>3. \A k \in 0..(m + 1) : h[k] \in V
      BY <2>3, <2>4, <3>1, <3>2
    <3>4. QED
      BY <3>2, <3>3
  <2>6. ASSUME NEW k \in 1..(m + 1) PROVE h[k] = F[k][h[k - 1]]
    <3>1. CASE k = m + 1
      BY <2>4, <2>5, <3>1
    <3>2. CASE k # m + 1
      <4>1. k \in 1..m /\ k \in 0..m /\ k - 1 \in 0..m
        BY <3>2
      <4>2. QED
        BY <2>1, <2>4, <4>1
    <3>3. QED
      BY <3>1, <3>2
  <2>7. h[0] = a
    BY <2>1, <2>4
  <2> HIDE DEF h
  <2>8. Runs(h, m + 1)
    BY <2>5, <2>6, <2>7
  <2>9. QED
    BY <2>8
<1> HIDE DEF S
<1>3. Nat \subseteq S
  BY <1>1, <1>2, Induction
<1>4. QED
  BY <1>3 DEF S, IsRun

(* What holds at 0, and goes over from each number to the next, holds along *)
(* 0..n.                                                                    *)
LEMMA RecursionStays ==
  ASSUME NEW V, NEW n \in Nat, NEW g, g[0] \in V, \A k \in 1..n : g[k - 1] \in V => g[k] \in V
  PROVE  \A k \in 0..n : g[k] \in V
<1> DEFINE S == {k \in Nat : k <= n => g[k] \in V}
<1>1. 0 \in S
  OBVIOUS
<1>2. ASSUME NEW k \in Nat, k \in S PROVE k + 1 \in S
  <2> SUFFICES ASSUME k + 1 <= n PROVE g[k + 1] \in V
    OBVIOUS
  <2>1. k + 1 \in 1..n /\ g[(k + 1) - 1] \in V
    BY <1>2
  <2>2. QED
    BY <2>1
<1>3. Nat \subseteq S
  <2> HIDE DEF S
  <2>1. QED
    BY <1>1, <1>2, Induction
<1>4. QED
  BY <1>3

LEMMA FourPasses ==
  ASSUME NEW stem
  PROVE  StripCopyMarkers(stem) = Pass(Pass(Pass(Pass(stem))))
<1> DEFINE q == <<stem, Pass(stem), Pass(Pass(stem)), Pass(Pass(Pass(stem))), Pass(Pass(Pass(Pass(stem))))>>
           g == [k \in 0..MaxRounds |-> q[k + 1]]
           Is(h) == h = [k \in 0..MaxRounds |-> IF k = 0 THEN stem ELSE Pass(h[k - 1])]
           after == CHOOSE h : Is(h)
<1>1. \A k \in 0..MaxRounds : k = 0 \/ k = 1 \/ k = 2 \/ k = 3 \/ k = 4
  BY DEF MaxRounds
<1>2. q[1] = stem /\ q[2] = Pass(q[1]) /\ q[3] = Pass(q[2]) /\ q[4] = Pass(q[3]) /\ q[5] = Pass(q[4])
  OBVIOUS
<1>3. \A k \in 0..MaxRounds : g[k] = IF k = 0 THEN stem ELSE Pass(g[k - 1])
  <2> HIDE DEF q
  <2>1. QED
    BY <1>1, <1>2 DEF MaxRounds
<1>4. Is(g)
  <2> HIDE DEF q
  <2>1. QED
    BY <1>3
<1> HIDE DEF g
<1>5. Is(after)
  <2> HIDE DEF Is
  <2>1. QED
    BY <1>4
<1>6. StripCopyMarkers(stem) = after[4]
  BY DEF StripCopyMarkers, MaxRounds
<1> HIDE DEF after
<1>7. after[0] = stem /\ after[1] = Pass(after[0]) /\ after[2] = Pass(after[1])
      /\ after[3] = Pass(after[2]) /\ after[4] = Pass(after[3])
  <2>1. 0 \in 0..MaxRounds /\ 1 \in 0..MaxRounds /\ 2 \in 0..MaxRounds /\ 3 \in 0..MaxRounds /\ 4 \in 0..MaxRounds
    BY DEF MaxRounds
  <2>2. \A k \in 0..MaxRounds : after[k] = IF k = 0 THEN stem ELSE Pass(after[k - 1])
    BY <1>5
  <2>3. QED
    BY <2>1, <2>2
<1>8. QED
  BY <1>6, <1>7

LEMMA StripCopyMarkersTyped ==
  ASSUME NEW T, NEW s \in Seq(T)
  PROVE  StripCopyMarkers(s) \in Seq(T)
<1>1. \A t \in Seq(T) : Pass(t) \in Seq(T)
  BY PassTyped DEF Pass
<1>2. QED
  BY <1>1, FourPasses

LEMMA SqueezedTyped ==
  ASSUME NEW s \in Seq(Tokens)
  PROVE  Squeezed(s) \in Seq(Tokens)
<1> DEFINE n == Len(s)
           V == Seq(Tokens)
           Step(k, v) == IF s[k] \notin Gap THEN Append(v, s[k])
                         ELSE IF k > 1 /\ s[k - 1] \in Gap THEN v ELSE Append(v, " ")
           F == [k \in 1..n |-> [v \in V |-> Step(k, v)]]
           Is(g) == g = [k \in 0..n |-> IF k = 0 THEN <<>> ELSE
                                        IF s[k] \notin Gap THEN Append(g[k - 1], s[k])
                                        ELSE IF k > 1 /\ s[k - 1] \in Gap THEN g[k - 1]
                                        ELSE Append(g[k - 1], " ")]
           squeezed == CHOOSE g : Is(g)
<1>1. n \in Nat /\ <<>> \in V /\ \A k \in 1..n : s[k] \in Tokens
  OBVIOUS
<1>2. \A k \in 1..n, v \in V : Step(k, v) \in V
  <2>1. " " \in Tokens
    BY DEF Tokens
  <2>2. \A v \in V, x \in Tokens : Append(v, x) \in V
    OBVIOUS
  <2> HIDE DEF V
  <2>3. QED
    BY <1>1, <2>1, <2>2
<1> HIDE DEF V, n
<1>3. F \in [1..n -> [V -> V]] /\ \A k \in 1..n, v \in V : F[k][v] = Step(k, v)
  <2> HIDE DEF Step
  <2>1. QED
    BY <1>2
<1>4. PICK g \in [0..n -> V] : g[0] = <<>> /\ \A k \in 1..n : g[k] = F[k][g[k - 1]]
  <2> HIDE DEF F
  <2>1. F \in [1..n -> [V -> V]] /\ n \in Nat /\ <<>> \in V
    BY <1>1, <1>3
  <2>2. PICK W, a, m, G : W = V /\ a = <<>> /\ m = n /\ G = F
    OBVIOUS
  <2>3. G \in [1..m -> [W -> W]] /\ m \in Nat /\ a \in W
    BY <2>1, <2>2
  <2>4. PICK g : IsRun(g, W, a, m, G)
    BY <2>3, RecursionExists
  <2>5. QED
    BY <2>2, <2>4 DEF IsRun
<1>5. \A k \in 1..n : g[k] = Step(k, g[k - 1])
  <2> HIDE DEF F, Step
  <2>1. \A k \in 1..n : g[k - 1] \in V
    BY <1>1, <1>4
  <2>2. QED
    BY <1>3, <1>4, <2>1
<1>6. Is(g)
  <2>1. \A k \in 0..n : k = 0 \/ k \in 1..n
    BY <1>1
  <2>2. QED
    BY <1>4, <1>5, <2>1
<1>7. Is(squeezed)
  <2> HIDE DEF Is
  <2>1. QED
    BY <1>6
<1> HIDE DEF squeezed
<1>8. squeezed[0] = <<>> /\ \A k \in 1..n : squeezed[k] = Step(k, squeezed[k - 1])
  <2>1. 0 \in 0..n /\ \A k \in 1..n : k \in 0..n /\ k # 0
    BY <1>1
  <2>2. QED
    BY <1>7, <2>1
<1>9. \A k \in 1..n : squeezed[k - 1] \in V => squeezed[k] \in V
  <2> HIDE DEF Step
  <2>1. QED
    BY <1>2, <1>8
<1>10. squeezed[0] \in V
  BY <1>1, <1>8
<1>11. squeezed[n] \in V
  <2>1. PICK W, g0, m : W = V /\ g0 = squeezed /\ m = n
    OBVIOUS
  <2>2. m \in Nat /\ g0[0] \in W /\ \A k \in 1..m : g0[k - 1] \in W => g0[k] \in W
    BY <1>1, <1>9, <1>10, <2>1
  <2>3. \A k \in 0..m : g0[k] \in W
    BY ONLY <2>2, RecursionStays
  <2>4. QED
    BY <1>1, <2>1, <2>3
<1>12. Squeezed(s) = Strip(squeezed[n])
  BY DEF Squeezed, squeezed, n
<1>13. QED
  BY <1>11, <1>12, PassTyped DEF V

LEMMA ShortSequences ==
  ASSUME NEW T, NEW a \in T, NEW b \in T, NEW c \in T, NEW d \in T, NEW e \in T, NEW f \in T
  PROVE  /\ <<a, b>> \in Seq(T) /\ <<a, b, c, d>> \in Seq(T) /\ <<a, b, c, d, e, f>> \in Seq(T)
<1>1. <<a, b>> \in Seq(T)
  OBVIOUS
<1>2. <<a, b, c, d>> \in Seq(T)
  OBVIOUS
<1>3. <<a, b, c, d, e, f>> \in Seq(T)
  OBVIOUS
<1>4. QED
  BY <1>1, <1>2, <1>3

LEMMA EndingsAreTokens ==
  /\ CopyOf \in Seq(Tokens)
  /\ \A e \in Endings : e \in Seq(Tokens)
<1>1. /\ " " \in Tokens /\ "-" \in Tokens /\ "copy" \in Tokens /\ "of" \in Tokens
      /\ \A n \in Numbers : n \in Tokens
  BY NamingAssumption DEF Tokens
<1>2. CopyOf \in Seq(Tokens)
  BY <1>1, ShortSequences DEF CopyOf
<1>3. /\ \A n \in Numbers : <<" ", n>> \in Seq(Tokens) /\ <<" ", "-", " ", "copy", " ", n>> \in Seq(Tokens)
      /\ <<" ", "copy">> \in Seq(Tokens) /\ <<" ", "-", " ", "copy">> \in Seq(Tokens)
  BY <1>1, ShortSequences
<1>4. QED
  BY <1>2, <1>3 DEF Endings

LEMMA CopiedByMarks ==
  ASSUME NEW stem \in Seq(Tokens), NEW history \in Seq({CopyOf} \cup Endings)
  PROVE  \E name : /\ name[0] = stem /\ name[Len(history)] = Copied(stem, history)
                   /\ \A k \in 1..Len(history) : /\ history[k] \in {CopyOf} \cup Endings
                                                 /\ name[k] = Marked(name[k - 1], history[k])
                   /\ \A k \in 0..Len(history) : name[k] \in Seq(Tokens)
<1> DEFINE n == Len(history)
           V == Seq(Tokens)
           F == [k \in 1..n |-> [v \in V |-> Marked(v, history[k])]]
           Is(g) == g = [k \in 0..n |-> IF k = 0 THEN stem ELSE Marked(g[k - 1], history[k])]
           name == CHOOSE g : Is(g)
<1>1. n \in Nat /\ stem \in V /\ \A k \in 1..n : history[k] \in {CopyOf} \cup Endings
  OBVIOUS
<1>2. \A k \in 1..n, v \in V : Marked(v, history[k]) \in V
  BY <1>1, EndingsAreTokens DEF Marked
<1> HIDE DEF V, n
<1>3. F \in [1..n -> [V -> V]] /\ \A k \in 1..n, v \in V : F[k][v] = Marked(v, history[k])
  BY <1>2
<1> HIDE DEF F
<1>4. PICK g \in [0..n -> V] : g[0] = stem /\ \A k \in 1..n : g[k] = F[k][g[k - 1]]
  <2>1. PICK W, a, m, G : W = V /\ a = stem /\ m = n /\ G = F
    OBVIOUS
  <2>2. G \in [1..m -> [W -> W]] /\ m \in Nat /\ a \in W
    BY <1>1, <1>3, <2>1
  <2>3. PICK g : IsRun(g, W, a, m, G)
    BY <2>2, RecursionExists
  <2>4. QED
    BY <2>1, <2>3 DEF IsRun
<1>5. \A k \in 0..n : g[k] = IF k = 0 THEN stem ELSE Marked(g[k - 1], history[k])
  <2>1. \A k \in 0..n : k = 0 \/ (k \in 1..n /\ k - 1 \in 0..n)
    BY <1>1
  <2>2. QED
    BY <1>3, <1>4, <2>1
<1>6. Is(g)
  BY <1>4, <1>5
<1>7. Is(name)
  <2> HIDE DEF Is
  <2>1. QED
    BY <1>6
<1>8. Copied(stem, history) = name[n]
  BY DEF Copied, n, name
<1> HIDE DEF name
<1>9. name[0] = stem /\ \A k \in 1..n : name[k] = Marked(name[k - 1], history[k])
  <2>1. 0 \in 0..n /\ \A k \in 1..n : k \in 0..n /\ k # 0
    BY <1>1
  <2>2. QED
    BY <1>7, <2>1
<1>10. \A k \in 0..n : name[k] \in V
  <2>1. PICK W, g0, m : W = V /\ g0 = name /\ m = n
    OBVIOUS
  <2>2. m \in Nat /\ g0[0] \in W /\ \A k \in 1..m : g0[k - 1] \in W => g0[k] \in W
    BY <1>1, <1>2, <1>9, <2>1
  <2>3. \A k \in 0..m : g0[k] \in W
    BY ONLY <2>2, RecursionStays
  <2>4. QED
    BY <2>1, <2>3
<1>11. QED
  BY <1>1, <1>8, <1>9, <1>10 DEF n, V

LEMMA CopiedTyped ==
  ASSUME NEW stem \in Seq(Tokens), NEW history \in Seq({CopyOf} \cup Endings)
  PROVE  Copied(stem, history) \in Seq(Tokens)
<1>1. PICK name : /\ name[Len(history)] = Copied(stem, history)
                  /\ \A k \in 0..Len(history) : name[k] \in Seq(Tokens)
  BY CopiedByMarks
<1>2. Len(history) \in 0..Len(history)
  OBVIOUS
<1>3. QED
  BY <1>1, <1>2

LEMMA GreatestNumber ==
  ASSUME NEW n \in Nat, NEW D, D \subseteq 1..n, D # {}
  PROVE  \E d \in D : \A e \in D : e <= d
<1> DEFINE T == {k \in 0..n : n - k \in D}
<1>1. T \subseteq Nat /\ T # {}
  <2>1. PICK d \in D : TRUE
    OBVIOUS
  <2>2. n - d \in 0..n /\ n - (n - d) = d
    BY <2>1
  <2>3. n - d \in T
    BY <2>2
  <2>4. QED
    BY <2>3
<1>2. PICK k \in T : \A l \in T : k <= l
  BY <1>1, LeastNumber
<1>3. ASSUME NEW e \in D PROVE e <= n - k
  <2>1. n - e \in 0..n /\ n - (n - e) = e
    OBVIOUS
  <2>2. k <= n - e
    BY <1>2, <2>1
  <2>3. QED
    BY <1>1, <2>2
<1>4. QED
  BY <1>2, <1>3

(* Where the last dot is. *)
LEMMA DotIsLast ==
  ASSUME NEW name \in Seq(Tokens), ExtensionDot(name) # 0
  PROVE  ExtensionDot(name) \in 1..Len(name)
<1> DEFINE dots == {i \in DOMAIN name : name[i] = "."}
           dot  == CHOOSE i \in dots : \A j \in dots : j <= i
<1>1. dots # {} /\ ExtensionDot(name) = dot
  BY DEF ExtensionDot
<1>2. dots \subseteq 1..Len(name) /\ Len(name) \in Nat
  OBVIOUS
<1>3. \E i \in dots : \A j \in dots : j <= i
  <2> HIDE DEF dots
  <2>1. QED
    BY <1>1, <1>2, GreatestNumber
<1>4. dot \in dots
  BY <1>3
<1>5. QED
  BY <1>1, <1>2, <1>4

LEMMA NormalizeTitleTyped ==
  ASSUME NEW name \in Seq(Tokens)
  PROVE  NormalizeTitle(name) \in Seq(Tokens)
<1> DEFINE dot  == ExtensionDot(name)
           stem == IF dot = 0 THEN name ELSE SubSeq(name, 1, dot - 1)
           ext  == IF dot = 0 THEN <<>> ELSE SubSeq(name, dot, Len(name))
<1>1. dot = 0 \/ dot \in 1..Len(name)
  BY DotIsLast
<1>2. stem \in Seq(Tokens)
  <2>1. CASE dot \in 1..Len(name)
    <3>1. 1 \in Int /\ dot - 1 \in Int /\ \A i \in 1..(dot - 1) : name[i] \in Tokens
      BY <2>1
    <3>2. QED
      BY <3>1, SubSeqProperties
  <2>2. QED
    BY <1>1, <2>1
<1>3. ext \in Seq(Tokens)
  <2>1. CASE dot \in 1..Len(name)
    <3>1. dot \in Int /\ Len(name) \in Int /\ \A i \in dot..Len(name) : name[i] \in Tokens
      BY <2>1
    <3>2. QED
      BY <3>1, SubSeqProperties
  <2>2. QED
    BY <1>1, <2>1
<1> HIDE DEF stem, ext, dot
<1>4. Squeezed(StripCopyMarkers(stem)) \in Seq(Tokens)
  BY <1>2, StripCopyMarkersTyped, SqueezedTyped
<1>5. QED
  BY <1>3, <1>4 DEF NormalizeTitle, stem, ext, dot

-----------------------------------------------------------------------------
(* Marks on names, and what a pass takes off. *)

LEMMA TokensDiffer ==
  /\ {" ", "-", ".", "copy", "of"} \cup Numbers \subseteq Tokens
  /\ \A n \in Numbers : n \notin {" ", "-", ".", "copy", "of"}
  /\ "." \notin Words
BY NamingAssumption DEF Tokens

LEMMA CutBlanks ==
  ASSUME NEW T, NEW b \in T, Blank = {b}, NEW s \in Seq(T), s # <<>>
  PROVE  /\ Last(s) # b => CutRight(s, Blank) = s /\ CutRight(Append(s, b), Blank) = s
         /\ s[1] # b => CutLeft(s, Blank) = s /\ CutLeft(<<b>> \o s, Blank) = s
<1>1. Len(s) \in Nat /\ Len(s) > 0 /\ Last(s) = s[Len(s)]
  BY EmptySeq DEF Last
<1>2. PICK z, r, l : z = <<b>> /\ r = s \o z /\ l = z \o s
  OBVIOUS
<1>3. z \in Seq(T) /\ Len(z) = 1 /\ z[1] = b
  BY <1>2
<1>4. r = Append(s, b) /\ r \in Seq(T) /\ Len(r) = Len(s) + 1 /\ r[Len(s) + 1] = b /\ \A i \in 1..Len(s) : r[i] = s[i]
  BY <1>1, <1>2, <1>3, ConcatProperties, AppendIsConcat
<1>5. l \in Seq(T) /\ Len(l) = Len(s) + 1 /\ l[1] = b /\ \A i \in 1..Len(s) : l[i + 1] = s[i]
  <2>1. /\ l \in Seq(T) /\ Len(l) = 1 + Len(s)
        /\ \A i \in 1..(1 + Len(s)) : l[i] = IF i <= 1 THEN z[i] ELSE s[i - 1]
    BY <1>2, <1>3, ConcatProperties
  <2>2. 1 \in 1..(1 + Len(s)) /\ \A i \in 1..Len(s) : i + 1 \in 1..(1 + Len(s)) /\ (i + 1) - 1 = i /\ ~ (i + 1 <= 1)
    BY <1>1
  <2>3. QED
    BY <1>1, <1>3, <2>1, <2>2
<1>6. SubSeq(s, 1, Len(s)) = s /\ SubSeq(r, 1, Len(s)) = s /\ SubSeq(l, 2, Len(l)) = s
  <2>1. SubSeq(s, 1, Len(s)) = s
    BY SubSeqFull
  <2>2. SubSeq(r, 1, Len(s)) = s
    <3>1. 1 \in 1..Len(s) /\ Len(s) \in 1..Len(s)
      BY <1>1
    <3>2. QED
      BY <1>2, <1>3, <2>1, <3>1, SubSeqOfConcat1
  <2>3. SubSeq(l, 2, Len(l)) = s
    <3>1. 2 \in Len(z) + 1..Len(z) + Len(s) /\ Len(l) \in Len(z) + 1..Len(z) + Len(s)
      BY <1>1, <1>3, <1>5
    <3>2. SubSeq(z \o s, 2, Len(l)) = SubSeq(s, 2 - Len(z), Len(l) - Len(z))
      BY <1>3, <3>1, SubSeqOfConcat2
    <3>3. 2 - Len(z) = 1 /\ Len(l) - Len(z) = Len(s)
      BY <1>1, <1>3, <1>5
    <3>4. QED
      BY <1>2, <2>1, <3>2, <3>3
  <2>4. QED
    BY <2>1, <2>2, <2>3
<1>7. ASSUME Last(s) # b PROVE CutRight(s, Blank) = s /\ CutRight(r, Blank) = s
  <2>1. /\ Len(s) \in 0..Len(s) /\ Len(s) \in 0..Len(r)
        /\ \A i \in (Len(s) + 1)..Len(s) : s[i] \in Blank
        /\ \A i \in (Len(s) + 1)..Len(r) : r[i] \in Blank
        /\ s[Len(s)] \notin Blank /\ r[Len(s)] \notin Blank
    BY <1>1, <1>4, <1>7
  <2>2. CutRight(s, Blank) = SubSeq(s, 1, Len(s))
    BY <2>1, CutRightIs
  <2>3. CutRight(r, Blank) = SubSeq(r, 1, Len(s))
    BY <1>4, <2>1, CutRightIs
  <2>4. QED
    BY <1>6, <2>2, <2>3
<1>8. ASSUME s[1] # b PROVE CutLeft(s, Blank) = s /\ CutLeft(l, Blank) = s
  <2>1. /\ 1 \in 1..(Len(s) + 1) /\ 2 \in 1..(Len(l) + 1)
        /\ \A i \in 1..(1 - 1) : s[i] \in Blank
        /\ \A i \in 1..(2 - 1) : l[i] \in Blank
        /\ s[1] \notin Blank /\ l[2] \notin Blank
    BY <1>1, <1>5, <1>8
  <2>2. CutLeft(s, Blank) = SubSeq(s, 1, Len(s))
    BY <2>1, CutLeftIs
  <2>3. CutLeft(l, Blank) = SubSeq(l, 2, Len(l))
    BY <1>5, <2>1, CutLeftIs
  <2>4. QED
    BY <1>6, <2>2, <2>3
<1>9. QED
  BY <1>2, <1>4, <1>7, <1>8

LEMMA OneMore ==
  ASSUME NEW T, NEW s \in Seq(T), NEW x \in T
  PROVE  /\ Append(s, x) \in Seq(T) /\ Append(s, x) # <<>> /\ Last(Append(s, x)) = x /\ Front(Append(s, x)) = s
         /\ s # <<>> => Append(s, x)[1] = s[1]
<1>1. PICK r : r = Append(s, x)
  OBVIOUS
<1>2. Len(s) \in Nat
  OBVIOUS
<1>3. r \in Seq(T) /\ r # <<>> /\ Len(r) = Len(s) + 1 /\ r[Len(s) + 1] = x /\ \A i \in 1..Len(s) : r[i] = s[i]
  BY <1>1, AppendProperties
<1>4. SubSeq(r, 1, Len(r) - 1) = s
  <2>1. 1 \in Int /\ Len(r) - 1 = Len(s) /\ Len(s) \in Int /\ \A i \in 1..Len(s) : r[i] \in T /\ (1 + i) - 1 = i
    BY <1>2, <1>3
  <2>2. PICK q : q = SubSeq(r, 1, Len(s))
    OBVIOUS
  <2>3. /\ q \in Seq(T) /\ Len(q) = IF 1 <= Len(s) THEN Len(s) - 1 + 1 ELSE 0
        /\ \A i \in 1..(Len(s) - 1 + 1) : q[i] = r[1 + i - 1]
    BY <2>1, <2>2, SubSeqProperties
  <2>4. Len(q) = Len(s) /\ \A i \in 1..Len(q) : q[i] = s[i]
    BY <1>2, <1>3, <2>3
  <2>5. QED
    BY <2>1, <2>2, <2>3, <2>4, SeqEqual
<1>5. s # <<>> => r[1] = s[1]
  BY <1>3, EmptySeq
<1>6. QED
  BY <1>1, <1>2, <1>3, <1>4, <1>5 DEF Last, Front

(* The endings, token by token. *)
LEMMA EndingsByTokens ==
  ASSUME NEW T, NEW s \in Seq(T), NEW a \in T, NEW b \in T, NEW c \in T, NEW d \in T, NEW n \in T
  PROVE  /\ s \o <<a, b>> = Append(Append(s, a), b)
         /\ s \o <<a, b, c, d>> = Append(Append(Append(Append(s, a), b), c), d)
         /\ s \o <<a, b, c, d, a, n>> = Append(Append(Append(Append(Append(Append(s, a), b), c), d), a), n)
<1>1. \A q \in Seq(T), x \in T : s \o Append(q, x) = Append(s \o q, x)
  <2> SUFFICES ASSUME NEW q \in Seq(T), NEW x \in T PROVE s \o Append(q, x) = Append(s \o q, x)
    OBVIOUS
  <2>1. PICK z : z = <<x>>
    OBVIOUS
  <2>2. z \in Seq(T) /\ s \o q \in Seq(T)
    BY <2>1
  <2>3. Append(q, x) = q \o z /\ Append(s \o q, x) = (s \o q) \o z
    BY <2>1, <2>2, AppendIsConcat
  <2>4. (s \o q) \o z = s \o (q \o z)
    BY <2>2, ConcatAssociative
  <2>5. QED
    BY <2>3, <2>4
<1>2. s \o <<a>> = Append(s, a)
  BY AppendIsConcat
<1>3. <<a, b>> = Append(<<a>>, b) /\ <<a>> \in Seq(T) /\ <<a, b>> \in Seq(T)
  OBVIOUS
<1>4. <<a, b, c>> = Append(<<a, b>>, c) /\ <<a, b, c>> \in Seq(T)
  OBVIOUS
<1>5. <<a, b, c, d>> = Append(<<a, b, c>>, d) /\ <<a, b, c, d>> \in Seq(T)
  OBVIOUS
<1>6. <<a, b, c, d, a>> = Append(<<a, b, c, d>>, a) /\ <<a, b, c, d, a>> \in Seq(T)
  OBVIOUS
<1>7. <<a, b, c, d, a, n>> = Append(<<a, b, c, d, a>>, n)
  OBVIOUS
<1>8. s \o <<a, b>> = Append(Append(s, a), b)
  BY <1>1, <1>2, <1>3
<1>9. s \o <<a, b, c, d>> = Append(Append(s \o <<a, b>>, c), d)
  BY <1>1, <1>3, <1>4, <1>5
<1>10. s \o <<a, b, c, d, a, n>> = Append(Append(s \o <<a, b, c, d>>, a), n)
  BY <1>1, <1>5, <1>6, <1>7
<1>11. QED
  BY <1>8, <1>9, <1>10

(* What each pattern takes off a name u that ends in neither a blank nor a  *)
(* dash, and that it leaves other names alone.                              *)
LEMMA NumberGoes ==
  ASSUME NEW T, NEW b \in T, Blank = {b}, NEW u \in Seq(T), u # <<>>, Last(u) # b
  PROVE  /\ Last(u) \notin Numbers => WithoutNumber(u) = u
         /\ \A n \in T \cap Numbers : n # b => WithoutNumber(Append(Append(u, b), n)) = u
<1>1. CutRight(u, Blank) = u /\ CutRight(Append(u, b), Blank) = u
  BY CutBlanks
<1>2. Last(u) \notin Numbers => WithoutNumber(u) = u
  BY <1>1 DEF WithoutNumber, EndsWith
<1>3. ASSUME NEW n \in T \cap Numbers, n # b PROVE WithoutNumber(Append(Append(u, b), n)) = u
  <2>1. PICK v, w : v = Append(u, b) /\ w = Append(v, n)
    OBVIOUS
  <2>2. v \in Seq(T) /\ w \in Seq(T) /\ w # <<>> /\ Last(w) = n /\ Front(w) = v
    BY <2>1, OneMore
  <2>3. CutRight(w, Blank) = w
    BY <1>3, <2>2, CutBlanks
  <2>4. WithoutNumber(w) = CutRight(v, Blank)
    BY <2>2, <2>3 DEF WithoutNumber, EndsWith
  <2>5. QED
    BY <1>1, <2>1, <2>4
<1>4. QED
  BY <1>2, <1>3

LEMMA DashGoes ==
  ASSUME NEW T, NEW b \in T, Blank = {b}, NEW h \in T, h = "-", h # b,
         NEW u \in Seq(T), u # <<>>, Last(u) \notin {b, h}
  PROVE  /\ WithoutDash(u) = u /\ WithoutDash(Append(u, b)) = u
         /\ CutRight(Append(Append(Append(u, b), h), b), Blank) = Append(Append(u, b), h)
         /\ EndsWith(Append(Append(u, b), h), {"-"})
         /\ WithoutDash(Append(Append(u, b), h)) = u
         /\ WithoutDash(Append(Append(Append(u, b), h), b)) = u
<1>1. CutRight(u, Blank) = u /\ CutRight(Append(u, b), Blank) = u
  BY CutBlanks
<1>2. ~ EndsWith(u, {"-"})
  BY DEF EndsWith
<1>3. WithoutDash(u) = u /\ WithoutDash(Append(u, b)) = u
  BY <1>1, <1>2 DEF WithoutDash
<1>4. PICK v, w : v = Append(u, b) /\ w = Append(v, h)
  OBVIOUS
<1>5. v \in Seq(T) /\ w \in Seq(T) /\ w # <<>> /\ Last(w) = h /\ Front(w) = v
  BY <1>4, OneMore
<1>6. CutRight(w, Blank) = w /\ CutRight(Append(w, b), Blank) = w
  BY <1>5, CutBlanks
<1>7. EndsWith(w, {"-"})
  BY <1>5 DEF EndsWith
<1>8. WithoutDash(w) = u /\ WithoutDash(Append(w, b)) = u
  BY <1>1, <1>4, <1>5, <1>6, <1>7 DEF WithoutDash
<1>9. QED
  BY <1>3, <1>4, <1>6, <1>7, <1>8

LEMMA CopyGoes ==
  ASSUME NEW T, NEW b \in T, Blank = {b}, NEW h \in T, h = "-", h # b, NEW c \in T, c = "copy", c # b,
         NEW u \in Seq(T), u # <<>>, Last(u) \notin {b, h}
  PROVE  /\ Last(u) # c => WithoutCopy(u) = u
         /\ WithoutCopy(Append(Append(u, b), c)) = u
         /\ WithoutCopy(Append(Append(Append(Append(u, b), h), b), c)) = u
<1>1. CutRight(u, Blank) = u
  BY CutBlanks
<1>2. Last(u) # c => WithoutCopy(u) = u
  BY <1>1 DEF WithoutCopy, EndsWith
<1>3. ASSUME NEW v \in Seq(T) PROVE WithoutCopy(Append(v, c)) = WithoutDash(v)
  <2>1. PICK w : w = Append(v, c)
    OBVIOUS
  <2>2. w \in Seq(T) /\ w # <<>> /\ Last(w) = c /\ Front(w) = v
    BY <2>1, OneMore
  <2>3. CutRight(w, Blank) = w
    <3>1. w \in Seq(T) /\ w # <<>> /\ Last(w) # b
      BY <2>2
    <3>2. QED
      BY <3>1, CutBlanks
  <2>4. WithoutCopy(w) = WithoutDash(v)
    BY <2>2, <2>3 DEF WithoutCopy, EndsWith
  <2>5. QED
    BY <2>1, <2>4
<1>4. PICK v, w : v = Append(u, b) /\ w = Append(Append(v, h), b)
  OBVIOUS
<1>5. v \in Seq(T) /\ w \in Seq(T)
  BY <1>4, OneMore
<1>6. WithoutDash(v) = u /\ WithoutDash(w) = u
  BY <1>4, DashGoes
<1>7. QED
  BY <1>2, <1>3, <1>4, <1>5, <1>6

LEMMA NumberedCopyGoes ==
  ASSUME NEW T, NEW b \in T, Blank = {b}, NEW h \in T, h = "-", h # b, NEW c \in T, c = "copy", c # b,
         NEW u \in Seq(T), u # <<>>, Last(u) \notin {b, h}
  PROVE  /\ Last(u) \notin Numbers => WithoutNumberedCopy(u) = u
         /\ \A n \in T \cap Numbers : n # b =>
              /\ Last(u) # c => WithoutNumberedCopy(Append(Append(u, b), n)) = Append(Append(u, b), n)
              /\ LET v == Append(Append(Append(Append(u, b), c), b), n) IN WithoutNumberedCopy(v) = v
              /\ WithoutNumberedCopy(Append(Append(Append(Append(Append(Append(u, b), h), b), c), b), n)) = u
<1>1. CutRight(u, Blank) = u /\ CutRight(Append(u, b), Blank) = u
  BY CutBlanks
<1>2. Last(u) \notin Numbers => WithoutNumberedCopy(u) = u
  BY <1>1 DEF WithoutNumberedCopy, EndsWith
<1>3. ASSUME NEW n \in T \cap Numbers, n # b, NEW v \in Seq(T), v # <<>>, Last(v) # b
      PROVE  LET s == Append(Append(v, b), n)
                 w == CutRight(Front(v), Blank)
             IN WithoutNumberedCopy(s) =
                  IF EndsWith(v, {"copy"}) /\ EndsWith(w, {"-"}) THEN WithoutDash(w) ELSE s
  <2>1. PICK r, s : r = Append(v, b) /\ s = Append(r, n)
    OBVIOUS
  <2>2. r \in Seq(T) /\ s \in Seq(T) /\ s # <<>> /\ Last(s) = n /\ Front(s) = r
    <3>1. \A q \in Seq(T), x \in T : /\ Append(q, x) \in Seq(T) /\ Append(q, x) # <<>>
                                     /\ Last(Append(q, x)) = x /\ Front(Append(q, x)) = q
      BY OneMore
    <3>2. r \in Seq(T) /\ n \in T
      BY <2>1, <3>1
    <3>3. QED
      BY <2>1, <3>1, <3>2
  <2>3. CutRight(s, Blank) = s
    BY <1>3, <2>2, CutBlanks
  <2>4. CutRight(r, Blank) = v
    BY <1>3, <2>1, CutBlanks
  <2>5. EndsWith(s, Numbers)
    BY <2>2 DEF EndsWith
  <2>6. PICK w : w = CutRight(Front(v), Blank)
    OBVIOUS
  <2>7. WithoutNumberedCopy(s) =
          IF EndsWith(v, {"copy"}) /\ EndsWith(w, {"-"}) THEN WithoutDash(w) ELSE s
    BY <2>2, <2>3, <2>4, <2>5, <2>6 DEF WithoutNumberedCopy
  <2>8. QED
    BY <2>1, <2>6, <2>7
<1>4. ASSUME NEW n \in T \cap Numbers, n # b, Last(u) # c
      PROVE  WithoutNumberedCopy(Append(Append(u, b), n)) = Append(Append(u, b), n)
  <2>1. ~ EndsWith(u, {"copy"})
    BY <1>4 DEF EndsWith
  <2>2. QED
    BY <1>3, <1>4, <2>1
<1>5. ASSUME NEW n \in T \cap Numbers, n # b
      PROVE  LET v == Append(Append(Append(Append(u, b), c), b), n) IN WithoutNumberedCopy(v) = v
  <2>1. PICK r, v : r = Append(u, b) /\ v = Append(r, c)
    OBVIOUS
  <2>2. r \in Seq(T) /\ v \in Seq(T) /\ v # <<>> /\ Last(v) = c /\ Front(v) = r
    BY <2>1, OneMore
  <2>3. CutRight(Front(v), Blank) = u /\ ~ EndsWith(u, {"-"})
    BY <1>1, <2>1, <2>2 DEF EndsWith
  <2>4. WithoutNumberedCopy(Append(Append(v, b), n)) = Append(Append(v, b), n)
    BY <1>3, <1>5, <2>2, <2>3
  <2>5. QED
    BY <2>1, <2>4
<1>6. ASSUME NEW n \in T \cap Numbers, n # b
      PROVE  WithoutNumberedCopy(Append(Append(Append(Append(Append(Append(u, b), h), b), c), b), n)) = u
  <2>1. PICK w, r, v : w = Append(Append(u, b), h) /\ r = Append(w, b) /\ v = Append(r, c)
    OBVIOUS
  <2>2. w \in Seq(T) /\ r \in Seq(T)
    <3>1. \A q \in Seq(T), x \in T : Append(q, x) \in Seq(T)
      BY OneMore
    <3>2. QED
      BY <2>1, <3>1
  <2>3. v \in Seq(T) /\ v # <<>> /\ Last(v) = c /\ Front(v) = r
    <3>1. v = Append(r, c)
      BY <2>1
    <3>2. QED
      BY <2>2, <3>1, OneMore
  <2>4. CutRight(r, Blank) = w /\ EndsWith(w, {"-"}) /\ WithoutDash(w) = u
    <3>1. /\ CutRight(Append(Append(Append(u, b), h), b), Blank) = Append(Append(u, b), h)
          /\ EndsWith(Append(Append(u, b), h), {"-"})
          /\ WithoutDash(Append(Append(u, b), h)) = u
      BY DashGoes
    <3>2. QED
      BY <2>1, <3>1
  <2>5. EndsWith(v, {"copy"})
    BY <2>3 DEF EndsWith
  <2>6. WithoutNumberedCopy(Append(Append(v, b), n)) = u
    BY <1>3, <1>6, <2>3, <2>4, <2>5
  <2>7. QED
    BY <2>1, <2>6
<1>7. QED
  BY <1>2, <1>4, <1>5, <1>6

LEMMA OneBefore ==
  ASSUME NEW T, NEW s \in Seq(T), NEW x \in T
  PROVE  /\ <<x>> \o s \in Seq(T) /\ <<x>> \o s # <<>> /\ Len(<<x>> \o s) = Len(s) + 1
         /\ (<<x>> \o s)[1] = x /\ Tail(<<x>> \o s) = s
         /\ s # <<>> => (<<x>> \o s)[2] = s[1] /\ Last(<<x>> \o s) = Last(s) /\ Len(s) >= 1
<1>1. PICK z, r : z = <<x>> /\ r = z \o s
  OBVIOUS
<1>2. z \in Seq(T) /\ Len(z) = 1 /\ z[1] = x /\ Len(s) \in Nat
  BY <1>1
<1>3. /\ r \in Seq(T) /\ Len(r) = 1 + Len(s)
      /\ \A i \in 1..(1 + Len(s)) : r[i] = IF i <= 1 THEN z[i] ELSE s[i - 1]
  BY <1>1, <1>2, ConcatProperties
<1>4. r # <<>> /\ Len(r) = Len(s) + 1 /\ r[1] = x
  BY <1>2, <1>3
<1>5. s # <<>> => r[2] = s[1] /\ r[Len(r)] = s[Len(s)] /\ Len(s) >= 1
  <2> SUFFICES ASSUME s # <<>> PROVE r[2] = s[1] /\ r[Len(r)] = s[Len(s)] /\ Len(s) >= 1
    OBVIOUS
  <2>1. Len(s) >= 1
    BY <1>2, EmptySeq
  <2>2. 2 \in 1..(1 + Len(s)) /\ Len(r) \in 1..(1 + Len(s)) /\ ~ (Len(r) <= 1) /\ Len(r) - 1 = Len(s)
    BY <1>2, <1>4, <2>1
  <2>3. QED
    BY <1>3, <2>1, <2>2
<1>6. Tail(r) = s
  <2>1. /\ Tail(r) \in Seq(T) /\ Len(Tail(r)) = Len(r) - 1
        /\ \A i \in 1..Len(Tail(r)) : Tail(r)[i] = r[i + 1]
    BY <1>3, <1>4, HeadTailProperties
  <2>2. Len(Tail(r)) = Len(s)
    BY <1>2, <1>4, <2>1
  <2>3. \A i \in 1..Len(s) : r[i + 1] = s[i]
    BY <1>2, <1>3
  <2>4. \A i \in 1..Len(Tail(r)) : Tail(r)[i] = s[i]
    BY <2>1, <2>2, <2>3
  <2>5. QED
    BY <2>1, <2>2, <2>4, SeqEqual
<1>7. QED
  BY <1>1, <1>3, <1>4, <1>5, <1>6 DEF Last

LEMMA FourBefore ==
  ASSUME NEW T, NEW s \in Seq(T), NEW a \in T, NEW b \in T, NEW c \in T, NEW d \in T,
         NEW p, p = <<a, b, c, d>>
  PROVE  p \o s = <<a>> \o (<<b>> \o (<<c>> \o (<<d>> \o s)))
<1>1. PICK pa, pb, pt, pd : pa = <<a>> /\ pb = <<b>> /\ pt = <<c>> /\ pd = <<d>>
  OBVIOUS
<1>2. pa \in Seq(T) /\ pb \in Seq(T) /\ pt \in Seq(T) /\ pd \in Seq(T)
  BY <1>1
<1>3. /\ pa \o <<b, c, d>> = <<a, b, c, d>> /\ <<b, c, d>> \in Seq(T)
      /\ pb \o <<c, d>> = <<b, c, d>> /\ <<c, d>> \in Seq(T)
      /\ pt \o pd = <<c, d>>
  <2>1. pt \o pd = <<c, d>> /\ <<c, d>> \in Seq(T)
    <3>1. <<c, d>> = Append(pt, d)
      BY <1>1
    <3>2. Append(pt, d) = pt \o <<d>>
      BY <1>2, AppendIsConcat
    <3>3. <<c, d>> \in Seq(T)
      OBVIOUS
    <3>4. QED
      BY <1>1, <3>1, <3>2, <3>3
  <2>2. pb \o <<c, d>> = <<b, c, d>> /\ <<b, c, d>> \in Seq(T)
    <3>1. <<b, c, d>> = Append(Append(pb, c), d)
      BY <1>1
    <3>2. Append(Append(pb, c), d) = pb \o <<c, d>>
      BY <1>2, EndingsByTokens
    <3>3. <<b, c, d>> \in Seq(T)
      OBVIOUS
    <3>4. QED
      BY <3>1, <3>2, <3>3
  <2>3. pa \o <<b, c, d>> = <<a, b, c, d>>
    <3>1. PICK q : q = <<b, c>>
      OBVIOUS
    <3>2. <<b, c, d>> = Append(<<b, c>>, d) /\ <<b, c>> \in Seq(T) /\ <<a, b, c>> = Append(Append(pa, b), c)
      BY <1>1
    <3>3. pa \o <<b, c>> = Append(Append(pa, b), c)
      BY <1>2, EndingsByTokens
    <3>4. <<a, b, c, d>> = Append(<<a, b, c>>, d) /\ <<a, b, c>> \in Seq(T)
      OBVIOUS
    <3>5. q \in Seq(T) /\ pa \o q = <<a, b, c>> /\ pa \o q \in Seq(T) /\ <<b, c, d>> = Append(q, d)
      BY <3>1, <3>2, <3>3, <3>4
    <3>6. Append(q, d) = q \o pd /\ Append(pa \o q, d) = (pa \o q) \o pd
      BY <1>1, <3>5, AppendIsConcat
    <3>7. (pa \o q) \o pd = pa \o (q \o pd)
      <4>1. \A t \in Seq(T), r \in Seq(T), z \in Seq(T) : (t \o r) \o z = t \o (r \o z)
        BY ConcatAssociative
      <4>2. q \in Seq(T)
        BY <3>5
      <4>3. QED
        BY <1>2, <4>1, <4>2
    <3>8. QED
      BY <3>4, <3>5, <3>6, <3>7
  <2>4. QED
    BY <2>1, <2>2, <2>3
<1>4. \A q \in Seq(T), r \in Seq(T) : (q \o r) \o s = q \o (r \o s)
  BY ConcatAssociative
<1>5. (pt \o pd) \o s = pt \o (pd \o s) /\ (pb \o <<c, d>>) \o s = pb \o (<<c, d>> \o s)
  BY <1>2, <1>3, <1>4
<1>6. (pa \o <<b, c, d>>) \o s = pa \o (<<b, c, d>> \o s)
  BY <1>2, <1>3, <1>4
<1>7. QED
  BY <1>1, <1>3, <1>5, <1>6

LEMMA CopyOfGoes ==
  ASSUME NEW T, NEW b \in T, Blank = {b}, NEW c \in T, c = "copy", c # b, NEW o \in T, o = "of", o # b,
         NEW u \in Seq(T), u # <<>>, u[1] # b
  PROVE  /\ u[1] # c => WithoutCopyOf(u) = u
         /\ WithoutCopyOf(<<c>> \o (<<b>> \o (<<o>> \o (<<b>> \o u)))) = u
<1>0. b = " "
  BY Zenon DEF Blank
<1>1. \A s : WithoutCopyOf(s) =
        LET t == CutLeft(s, Blank)
            v == CutLeft(Tail(t), Blank)
        IN IF /\ Len(t) > 1 /\ t[1] = c /\ t[2] = b
              /\ Len(v) > 1 /\ v[1] = o /\ v[2] = b
           THEN CutLeft(Tail(v), Blank)
           ELSE s
  BY <1>0, Zenon DEF WithoutCopyOf
<1>2. CutLeft(u, Blank) = u /\ CutLeft(<<b>> \o u, Blank) = u
  BY CutBlanks
<1>3. u[1] # c => WithoutCopyOf(u) = u
  BY <1>1, <1>2
<1>4. PICK v, w, x, y : v = <<b>> \o u /\ w = <<o>> \o v /\ x = <<b>> \o w /\ y = <<c>> \o x
  OBVIOUS
<1>5. v \in Seq(T) /\ v # <<>> /\ v[1] = b
  BY <1>4, OneBefore
<1>6. w \in Seq(T) /\ w # <<>> /\ w[1] = o /\ w[2] = b /\ Tail(w) = v /\ Len(w) > 1
  <2>1. Len(v) >= 1 /\ Len(v) \in Nat
    BY <1>5, EmptySeq
  <2>2. w \in Seq(T) /\ w # <<>> /\ w[1] = o /\ w[2] = v[1] /\ Tail(w) = v /\ Len(w) = Len(v) + 1
    BY <1>4, <1>5, OneBefore
  <2>3. QED
    BY <1>5, <2>1, <2>2
<1>7. x \in Seq(T) /\ x # <<>> /\ x[1] = b
  BY <1>4, <1>6, OneBefore
<1>8. y \in Seq(T) /\ y # <<>> /\ y[1] = c /\ y[2] = b /\ Tail(y) = x /\ Len(y) > 1
  <2>1. Len(x) >= 1 /\ Len(x) \in Nat
    BY <1>7, EmptySeq
  <2>2. y \in Seq(T) /\ y # <<>> /\ y[1] = c /\ y[2] = x[1] /\ Tail(y) = x /\ Len(y) = Len(x) + 1
    BY <1>4, <1>7, OneBefore
  <2>3. QED
    BY <1>7, <2>1, <2>2
<1>9. CutLeft(y, Blank) = y
  <2>1. y \in Seq(T) /\ y # <<>> /\ y[1] # b
    BY <1>8
  <2>2. QED
    BY <2>1, CutBlanks
<1>10. CutLeft(x, Blank) = w
  BY <1>4, <1>6, CutBlanks
<1>11. WithoutCopyOf(y) = CutLeft(v, Blank)
  BY <1>1, <1>6, <1>8, <1>9, <1>10
<1>12. QED
  BY <1>2, <1>3, <1>4, <1>11

(* The tokens that marks are made of. *)
Letters(b, h, c, o) ==
  /\ b \in Tokens /\ h \in Tokens /\ c \in Tokens /\ o \in Tokens /\ Numbers \subseteq Tokens
  /\ b # h /\ b # c /\ b # o /\ h # c /\ \A n \in Numbers : n \notin {b, h, c}
  /\ Blank = {b} /\ h = "-" /\ c = "copy" /\ o = "of"
  /\ CopyOf = <<c, b, o, b>>
  /\ Endings = {<<b, n>> : n \in Numbers} \cup {<<b, c>>, <<b, h, b, c>>} \cup
               {<<b, h, b, c, b, n>> : n \in Numbers}

LEMMA LettersExist == \E b, h, c, o : Letters(b, h, c, o)
<1>1. PICK b, h, c, o : b = " " /\ h = "-" /\ c = "copy" /\ o = "of"
  OBVIOUS
<1>2. b # h /\ b # c /\ b # o /\ h # c
  BY <1>1, Zenon
<1>3. b \in Tokens /\ h \in Tokens /\ c \in Tokens /\ o \in Tokens /\ Numbers \subseteq Tokens
  BY <1>1, TokensDiffer, Zenon
<1>4. \A n \in Numbers : n \notin {b, h, c}
  BY <1>1, TokensDiffer, Zenon
<1>5. Blank = {b} /\ CopyOf = <<c, b, o, b>>
  BY <1>1, Zenon DEF Blank, CopyOf
<1>6. Endings = {<<b, n>> : n \in Numbers} \cup {<<b, c>>, <<b, h, b, c>>} \cup
                {<<b, h, b, c, b, n>> : n \in Numbers}
  BY <1>1, Zenon DEF Endings
<1>7. h = "-" /\ c = "copy" /\ o = "of"
  BY <1>1
<1>8. Letters(b, h, c, o)
  BY <1>2, <1>3, <1>4, <1>5, <1>6, <1>7, Zenon DEF Letters
<1>9. QED
  BY <1>8

LEMMA EndsIn ==
  ASSUME NEW b, NEW h, NEW c, NEW o, Letters(b, h, c, o), NEW v \in Seq(Tokens), NEW e \in Endings
  PROVE  \/ v \o e = Append(Append(v, b), c)
         \/ v \o e = Append(Append(Append(Append(v, b), h), b), c)
         \/ \E n \in Numbers : v \o e = Append(Append(v, b), n)
         \/ \E n \in Numbers :
              v \o e = Append(Append(Append(Append(Append(Append(v, b), h), b), c), b), n)
<1>1. PICK T : T = Tokens
  OBVIOUS
<1>2. v \in Seq(T) /\ b \in T /\ h \in T /\ c \in T /\ \A n \in Numbers : n \in T
  BY <1>1 DEF Letters
<1>3. /\ v \o <<b, c>> = Append(Append(v, b), c)
      /\ v \o <<b, h, b, c>> = Append(Append(Append(Append(v, b), h), b), c)
      /\ \A n \in Numbers :
           /\ v \o <<b, n>> = Append(Append(v, b), n)
           /\ v \o <<b, h, b, c, b, n>> = Append(Append(Append(Append(Append(Append(v, b), h), b), c), b), n)
  <2>1. \A n \in T :
          /\ v \o <<b, n>> = Append(Append(v, b), n)
          /\ v \o <<b, h, b, c>> = Append(Append(Append(Append(v, b), h), b), c)
          /\ v \o <<b, h, b, c, b, n>> = Append(Append(Append(Append(Append(Append(v, b), h), b), c), b), n)
    <3> SUFFICES ASSUME NEW n \in T
                 PROVE  /\ v \o <<b, n>> = Append(Append(v, b), n)
                        /\ v \o <<b, h, b, c>> = Append(Append(Append(Append(v, b), h), b), c)
                        /\ v \o <<b, h, b, c, b, n>> =
                             Append(Append(Append(Append(Append(Append(v, b), h), b), c), b), n)
      OBVIOUS
    <3>1. v \o <<b, n>> = Append(Append(v, b), n)
      BY <1>2, EndingsByTokens
    <3>2. /\ v \o <<b, h, b, c>> = Append(Append(Append(Append(v, b), h), b), c)
          /\ v \o <<b, h, b, c, b, n>> = Append(Append(Append(Append(Append(Append(v, b), h), b), c), b), n)
      BY <1>2, EndingsByTokens
    <3>3. QED
      BY <3>1, <3>2
  <2>2. QED
    BY <1>2, <2>1
<1>4. e = <<b, c>> \/ e = <<b, h, b, c>> \/ \E n \in Numbers : e = <<b, n>> \/ e = <<b, h, b, c, b, n>>
  BY Zenon DEF Letters
<1>5. QED
  BY <1>3, <1>4, Zenon

LEMMA TwoMore ==
  ASSUME NEW T, NEW s \in Seq(T), s # <<>>, NEW a \in T, NEW x \in T
  PROVE  /\ Append(Append(s, a), x) \in Seq(T) /\ Append(Append(s, a), x) # <<>>
         /\ Append(Append(s, a), x)[1] = s[1] /\ Last(Append(Append(s, a), x)) = x
<1>1. PICK r : r = Append(s, a)
  OBVIOUS
<1>2. r \in Seq(T) /\ r # <<>> /\ r[1] = s[1]
  BY <1>1, OneMore
<1>3. Append(r, x) \in Seq(T) /\ Append(r, x) # <<>> /\ Append(r, x)[1] = r[1] /\ Last(Append(r, x)) = x
  BY <1>2, OneMore
<1>4. QED
  BY <1>1, <1>2, <1>3

(* What a name with an ending begins and ends with. *)
LEMMA EndingKeeps ==
  ASSUME NEW b, NEW h, NEW c, NEW o, Letters(b, h, c, o),
         NEW v \in Seq(Tokens), v # <<>>, NEW e \in Endings
  PROVE  /\ v \o e \in Seq(Tokens) /\ v \o e # <<>> /\ (v \o e)[1] = v[1]
         /\ Last(v \o e) \in Numbers \cup {c}
<1>1. PICK T : T = Tokens
  OBVIOUS
<1>2. v \in Seq(T) /\ b \in T /\ h \in T /\ c \in T /\ \A n \in Numbers : n \in T
  BY <1>1 DEF Letters
<1>3. \A s \in Seq(T), a \in T, x \in T : s # <<>> =>
        /\ Append(Append(s, a), x) \in Seq(T) /\ Append(Append(s, a), x) # <<>>
        /\ Append(Append(s, a), x)[1] = s[1] /\ Last(Append(Append(s, a), x)) = x
  BY TwoMore
<1>4. PICK q, w : q = Append(Append(v, b), h) /\ w = Append(Append(q, b), c)
  OBVIOUS
<1>5. q \in Seq(T) /\ q # <<>> /\ q[1] = v[1]
  BY <1>2, <1>3, <1>4
<1>6. w \in Seq(T) /\ w # <<>> /\ w[1] = v[1] /\ Last(w) = c
  BY <1>2, <1>3, <1>4, <1>5
<1>7. \/ v \o e = Append(Append(v, b), c)
      \/ v \o e = Append(Append(Append(Append(v, b), h), b), c)
      \/ \E n \in Numbers : v \o e = Append(Append(v, b), n)
      \/ \E n \in Numbers :
           v \o e = Append(Append(Append(Append(Append(Append(v, b), h), b), c), b), n)
  BY EndsIn
<1>8. CASE v \o e = Append(Append(v, b), c)
  BY <1>1, <1>2, <1>3, <1>8
<1>9. CASE v \o e = Append(Append(Append(Append(v, b), h), b), c)
  BY <1>1, <1>4, <1>6, <1>9
<1>10. ASSUME NEW n \in Numbers, v \o e = Append(Append(v, b), n)
       PROVE  v \o e \in Seq(T) /\ v \o e # <<>> /\ (v \o e)[1] = v[1] /\ Last(v \o e) = n
  BY <1>2, <1>3, <1>10
<1>11. ASSUME NEW n \in Numbers,
              v \o e = Append(Append(Append(Append(Append(Append(v, b), h), b), c), b), n)
       PROVE  v \o e \in Seq(T) /\ v \o e # <<>> /\ (v \o e)[1] = v[1] /\ Last(v \o e) = n
  <2>1. v \o e = Append(Append(w, b), n)
    BY <1>4, <1>11
  <2>2. QED
    BY <1>2, <1>3, <1>6, <2>1
<1>12. QED
  BY <1>1, <1>7, <1>8, <1>9, <1>10, <1>11

(* Names that have been marked once more, and names each of which is in the *)
(* set with its marks taken off.                                            *)
Ended(X) == X \cup {x \o e : x \in X, e \in Endings}

Prefixed(X) == X \cup {CopyOf \o x : x \in X}

Grown(X) == Prefixed(Ended(X))

Chain(X) ==
  /\ X \subseteq Seq(Tokens)
  /\ \A u \in X :
       /\ u # <<>> /\ u[1] \notin Blank /\ Last(u) \notin Blank \cup {"-"}
       /\ Last(u) \in Numbers \cup {"copy"} => \E v \in X, e \in Endings : u = v \o e
       /\ u[1] = "copy" => \E v \in X : u = CopyOf \o v

LEMMA PrefixKeeps ==
  ASSUME NEW b, NEW h, NEW c, NEW o, Letters(b, h, c, o), NEW v \in Seq(Tokens), v # <<>>
  PROVE  /\ CopyOf = <<c, b, o, b>> /\ CopyOf \in Seq(Tokens)
         /\ CopyOf \o v = <<c>> \o (<<b>> \o (<<o>> \o (<<b>> \o v)))
         /\ CopyOf \o v \in Seq(Tokens) /\ CopyOf \o v # <<>> /\ (CopyOf \o v)[1] = c
         /\ Last(CopyOf \o v) = Last(v)
<1>1. PICK T : T = Tokens
  OBVIOUS
<1>2. v \in Seq(T) /\ b \in T /\ c \in T /\ o \in T /\ CopyOf = <<c, b, o, b>>
  BY <1>1 DEF Letters
<1>3. CopyOf \o v = <<c>> \o (<<b>> \o (<<o>> \o (<<b>> \o v)))
  BY <1>2, FourBefore
<1>4. \A x \in T, q \in Seq(T) : q # <<>> =>
        /\ <<x>> \o q \in Seq(T) /\ <<x>> \o q # <<>> /\ (<<x>> \o q)[1] = x /\ Last(<<x>> \o q) = Last(q)
  BY OneBefore
<1>5. PICK p, q, r : p = <<b>> \o v /\ q = <<o>> \o p /\ r = <<b>> \o q
  OBVIOUS
<1>6. p \in Seq(T) /\ p # <<>> /\ Last(p) = Last(v)
  BY <1>2, <1>4, <1>5
<1>7. q \in Seq(T) /\ q # <<>> /\ Last(q) = Last(v)
  BY <1>2, <1>4, <1>5, <1>6
<1>8. r \in Seq(T) /\ r # <<>> /\ Last(r) = Last(v)
  BY <1>2, <1>4, <1>5, <1>7
<1>9. <<c>> \o r \in Seq(T) /\ <<c>> \o r # <<>> /\ (<<c>> \o r)[1] = c /\ Last(<<c>> \o r) = Last(v)
  BY <1>2, <1>4, <1>8
<1>10. CopyOf \in Seq(T)
  <2>1. <<c, b, o, b>> \in Seq(T)
    BY <1>2, ShortSequences
  <2>2. QED
    BY <1>2, <2>1
<1>11. QED
  BY <1>1, <1>2, <1>3, <1>5, <1>9, <1>10

LEMMA MarksAssociate ==
  ASSUME NEW v \in Seq(Tokens), NEW e \in Endings
  PROVE  (CopyOf \o v) \o e = CopyOf \o (v \o e)
<1>1. PICK T, p, q : T = Tokens /\ p = CopyOf /\ q = e
  OBVIOUS
<1>2. p \in Seq(T) /\ v \in Seq(T) /\ q \in Seq(T)
  BY <1>1, EndingsAreTokens
<1>3. (p \o v) \o q = p \o (v \o q)
  BY <1>2, ConcatAssociative
<1>4. QED
  BY <1>1, <1>3

LEMMA EndedIsChain ==
  ASSUME NEW X, Chain(X)
  PROVE  Chain(Ended(X))
<1>1. PICK b, h, c, o : Letters(b, h, c, o)
  BY LettersExist
<1>2. c = "copy" /\ h = "-" /\ Blank = {b} /\ b # c /\ h # c /\ \A n \in Numbers : n # b /\ n # h
  BY <1>1 DEF Letters
<1>3. ASSUME NEW v \in X, NEW e \in Endings
      PROVE  /\ v \o e \in Seq(Tokens) /\ v \o e # <<>> /\ (v \o e)[1] = v[1]
             /\ Last(v \o e) \notin Blank \cup {"-"}
  <2>1. v \in Seq(Tokens) /\ v # <<>>
    BY DEF Chain
  <2>2. /\ v \o e \in Seq(Tokens) /\ v \o e # <<>> /\ (v \o e)[1] = v[1]
        /\ Last(v \o e) \in Numbers \cup {c}
    BY <1>1, <2>1, EndingKeeps
  <2>3. QED
    BY <1>2, <2>2
<1>4. ASSUME NEW u \in Ended(X)
      PROVE  /\ u \in Seq(Tokens)
             /\ u # <<>> /\ u[1] \notin Blank /\ Last(u) \notin Blank \cup {"-"}
             /\ Last(u) \in Numbers \cup {"copy"} => \E v \in Ended(X), e \in Endings : u = v \o e
             /\ u[1] = "copy" => \E v \in Ended(X) : u = CopyOf \o v
  <2>1. CASE u \in X
    <3>1. /\ u \in Seq(Tokens)
          /\ u # <<>> /\ u[1] \notin Blank /\ Last(u) \notin Blank \cup {"-"}
          /\ Last(u) \in Numbers \cup {"copy"} => \E v \in X, e \in Endings : u = v \o e
          /\ u[1] = "copy" => \E v \in X : u = CopyOf \o v
      BY <2>1 DEF Chain
    <3>2. X \subseteq Ended(X)
      BY DEF Ended
    <3>3. QED
      BY <3>1, <3>2
  <2>2. ASSUME NEW v \in X, NEW e \in Endings, u = v \o e
        PROVE  /\ u \in Seq(Tokens)
               /\ u # <<>> /\ u[1] \notin Blank /\ Last(u) \notin Blank \cup {"-"}
               /\ Last(u) \in Numbers \cup {"copy"} => \E w \in Ended(X), f \in Endings : u = w \o f
               /\ u[1] = "copy" => \E w \in Ended(X) : u = CopyOf \o w
    <3>1. u \in Seq(Tokens) /\ u # <<>> /\ u[1] = v[1] /\ Last(u) \notin Blank \cup {"-"}
      BY <1>3, <2>2
    <3>2. v[1] \notin Blank
      BY DEF Chain
    <3>3. v \in Ended(X)
      BY DEF Ended
    <3>4. ASSUME u[1] = "copy" PROVE \E w \in Ended(X) : u = CopyOf \o w
      <4>1. PICK w \in X : v = CopyOf \o w
        BY <3>1, <3>4 DEF Chain
      <4>2. w \in Seq(Tokens)
        BY DEF Chain
      <4>3. u = CopyOf \o (w \o e)
        BY <2>2, <4>1, <4>2, MarksAssociate
      <4>4. w \o e \in Ended(X)
        BY DEF Ended
      <4>5. QED
        BY <4>3, <4>4
    <3>5. QED
      BY <2>2, <3>1, <3>2, <3>3, <3>4
  <2>3. u \in X \/ \E v \in X, e \in Endings : u = v \o e
    BY DEF Ended
  <2>4. QED
    BY <2>1, <2>2, <2>3
<1>5. QED
  BY <1>4 DEF Chain

LEMMA PrefixedIsChain ==
  ASSUME NEW X, Chain(X)
  PROVE  Chain(Prefixed(X))
<1>1. PICK b, h, c, o : Letters(b, h, c, o)
  BY LettersExist
<1>2. c = "copy" /\ Blank = {b} /\ b # c
  BY <1>1 DEF Letters
<1>3. \A v \in X : v \in Seq(Tokens) /\ v # <<>>
  BY DEF Chain
<1>4. \A v \in X : /\ CopyOf \o v \in Seq(Tokens) /\ CopyOf \o v # <<>> /\ (CopyOf \o v)[1] = c
                   /\ Last(CopyOf \o v) = Last(v)
  BY <1>1, <1>3, PrefixKeeps
<1>5. ASSUME NEW u \in Prefixed(X)
      PROVE  /\ u \in Seq(Tokens)
             /\ u # <<>> /\ u[1] \notin Blank /\ Last(u) \notin Blank \cup {"-"}
             /\ Last(u) \in Numbers \cup {"copy"} => \E v \in Prefixed(X), e \in Endings : u = v \o e
             /\ u[1] = "copy" => \E v \in Prefixed(X) : u = CopyOf \o v
  <2>1. CASE u \in X
    BY <2>1 DEF Chain, Prefixed
  <2>2. ASSUME NEW v \in X, u = CopyOf \o v
        PROVE  /\ u \in Seq(Tokens)
               /\ u # <<>> /\ u[1] \notin Blank /\ Last(u) \notin Blank \cup {"-"}
               /\ Last(u) \in Numbers \cup {"copy"} => \E w \in Prefixed(X), e \in Endings : u = w \o e
               /\ u[1] = "copy" => \E w \in Prefixed(X) : u = CopyOf \o w
    <3>1. u \in Seq(Tokens) /\ u # <<>> /\ u[1] \notin Blank /\ Last(u) = Last(v)
      BY <1>2, <1>4, <2>2
    <3>2. Last(v) \notin Blank \cup {"-"}
      BY DEF Chain
    <3>3. ASSUME Last(u) \in Numbers \cup {"copy"}
          PROVE  \E w \in Prefixed(X), e \in Endings : u = w \o e
      <4>1. PICK w \in X, e \in Endings : v = w \o e
        BY <3>1, <3>3 DEF Chain
      <4>2. u = (CopyOf \o w) \o e
        BY <1>3, <2>2, <4>1, MarksAssociate
      <4>3. CopyOf \o w \in Prefixed(X)
        BY DEF Prefixed
      <4>4. QED
        BY <4>2, <4>3
    <3>4. v \in Prefixed(X)
      BY DEF Prefixed
    <3>5. QED
      BY <2>2, <3>1, <3>2, <3>3, <3>4
  <2>3. QED
    BY <2>1, <2>2 DEF Prefixed
<1>6. QED
  BY <1>5 DEF Chain

(* One pass takes off what one more mark has put on, and never too much.    *)
LEMMA EndingsGo ==
  ASSUME NEW X, Chain(X), NEW b, NEW h, NEW c, NEW o, Letters(b, h, c, o)
  PROVE  /\ \A u \in X : WithoutCopy(u) \in X /\ WithoutNumberedCopy(u) \in X
         /\ \A u \in Ended(X) : WithoutCopy(WithoutNumber(u)) \in X
<1>1. PICK T : T = Tokens
  OBVIOUS
<1>2. /\ b \in T /\ h \in T /\ c \in T /\ Blank = {b} /\ h = "-" /\ c = "copy" /\ h # b /\ c # b /\ h # c
      /\ \A n \in Numbers : n \in T /\ n # b /\ n # h /\ n # c
  BY <1>1 DEF Letters
<1>3. \A u \in X : u \in Seq(T) /\ u # <<>> /\ Last(u) \notin {b, h}
  BY <1>1, <1>2 DEF Chain
<1>4. ASSUME NEW u \in X
      PROVE  /\ Last(u) \notin Numbers => WithoutNumber(u) = u /\ WithoutNumberedCopy(u) = u
             /\ Last(u) # c => WithoutCopy(u) = u
             /\ WithoutCopy(Append(Append(u, b), c)) = u
             /\ WithoutCopy(Append(Append(Append(Append(u, b), h), b), c)) = u
             /\ \A n \in Numbers : WithoutNumber(Append(Append(u, b), n)) = u
  <2>1. u \in Seq(T) /\ u # <<>> /\ Last(u) # b /\ Last(u) \notin {b, h}
    BY <1>3
  <2>2. /\ Last(u) \notin Numbers => WithoutNumber(u) = u
        /\ \A n \in T \cap Numbers : n # b => WithoutNumber(Append(Append(u, b), n)) = u
    BY <1>2, <2>1, NumberGoes
  <2>3. /\ Last(u) # c => WithoutCopy(u) = u
        /\ WithoutCopy(Append(Append(u, b), c)) = u
        /\ WithoutCopy(Append(Append(Append(Append(u, b), h), b), c)) = u
    BY <1>2, <2>1, CopyGoes
  <2>4. Last(u) \notin Numbers => WithoutNumberedCopy(u) = u
    BY <1>2, <2>1, NumberedCopyGoes
  <2>5. QED
    BY <1>2, <2>2, <2>3, <2>4
<1>5. ASSUME NEW u \in X, NEW n \in Numbers
      PROVE  /\ Last(u) # c => WithoutNumberedCopy(Append(Append(u, b), n)) = Append(Append(u, b), n)
             /\ WithoutNumberedCopy(Append(Append(Append(Append(u, b), c), b), n)) =
                  Append(Append(Append(Append(u, b), c), b), n)
             /\ WithoutNumberedCopy(Append(Append(Append(Append(Append(Append(u, b), h), b), c), b), n)) = u
  <2>1. u \in Seq(T) /\ u # <<>> /\ Last(u) \notin {b, h} /\ n \in T \cap Numbers /\ n # b
    BY <1>2, <1>3
  <2>2. \A m \in T \cap Numbers : m # b =>
              /\ Last(u) # c => WithoutNumberedCopy(Append(Append(u, b), m)) = Append(Append(u, b), m)
              /\ LET v == Append(Append(Append(Append(u, b), c), b), m) IN WithoutNumberedCopy(v) = v
              /\ WithoutNumberedCopy(Append(Append(Append(Append(Append(Append(u, b), h), b), c), b), m)) = u
    BY <1>2, <2>1, NumberedCopyGoes
  <2>3. QED
    BY <2>1, <2>2
<1>6. ASSUME NEW v \in X, NEW e \in Endings
      PROVE  \/ v \o e = Append(Append(v, b), c)
             \/ v \o e = Append(Append(Append(Append(v, b), h), b), c)
             \/ \E n \in Numbers : v \o e = Append(Append(v, b), n)
             \/ \E n \in Numbers :
                  v \o e = Append(Append(Append(Append(Append(Append(v, b), h), b), c), b), n)
  <2>1. v \in Seq(Tokens)
    BY DEF Chain
  <2>2. QED
    BY <2>1, EndsIn
<1>7. \A s \in Seq(T), x \in T : Append(s, x) \in Seq(T) /\ Append(s, x) # <<>> /\ Last(Append(s, x)) = x
  BY OneMore
<1>8. ASSUME NEW v \in X
      PROVE  LET w == Append(Append(Append(Append(v, b), h), b), c)
             IN /\ w \in Seq(T) /\ w # <<>> /\ Last(w) = c
                /\ \A n \in Numbers : WithoutNumber(Append(Append(w, b), n)) = w
  <2>1. PICK q, w : q = Append(Append(Append(v, b), h), b) /\ w = Append(q, c)
    OBVIOUS
  <2>2. q \in Seq(T)
    BY <1>2, <1>3, <1>7, <2>1
  <2>3. w \in Seq(T) /\ w # <<>> /\ Last(w) = c /\ Last(w) # b
    BY <1>2, <1>7, <2>1, <2>2
  <2>4. \A n \in T \cap Numbers : n # b => WithoutNumber(Append(Append(w, b), n)) = w
    BY <1>2, <2>3, NumberGoes
  <2>5. QED
    BY <1>2, <2>1, <2>3, <2>4
<1>9. ASSUME NEW u \in X, Last(u) = c
      PROVE  \E v \in X : u = Append(Append(v, b), c) \/ u = Append(Append(Append(Append(v, b), h), b), c)
  <2>1. PICK v \in X, e \in Endings : u = v \o e
    BY <1>2, <1>9 DEF Chain
  <2>2. \A s \in Seq(T), n \in Numbers : Last(Append(s, n)) # c
    BY <1>2, <1>7
  <2>3. \A n \in Numbers : /\ u # Append(Append(v, b), n)
                           /\ u # Append(Append(Append(Append(Append(Append(v, b), h), b), c), b), n)
    <3>1. PICK q, r : q = Append(v, b) /\ r = Append(Append(Append(Append(q, h), b), c), b)
      OBVIOUS
    <3>2. q \in Seq(T) /\ r \in Seq(T)
      BY <1>2, <1>3, <1>7, <3>1
    <3>3. QED
      BY <1>9, <2>2, <3>1, <3>2
  <2>4. QED
    BY <1>6, <2>1, <2>3
<1>10. ASSUME NEW u \in X PROVE WithoutCopy(u) \in X
  <2>1. CASE Last(u) # c
    BY <1>4, <2>1
  <2>2. CASE Last(u) = c
    BY <1>4, <1>9, <2>2
  <2>3. QED
    BY <2>1, <2>2
<1>11. ASSUME NEW u \in X PROVE WithoutNumberedCopy(u) \in X
  <2>1. CASE Last(u) \notin Numbers
    BY <1>4, <2>1
  <2>2. CASE Last(u) \in Numbers
    <3>1. PICK v \in X, e \in Endings : u = v \o e
      BY <2>2 DEF Chain
    <3>2. u # Append(Append(v, b), c) /\ u # Append(Append(Append(Append(v, b), h), b), c)
      <4>1. PICK q : q = Append(v, b)
        OBVIOUS
      <4>2. q \in Seq(T)
        BY <1>2, <1>3, <1>7, <4>1
      <4>3. Last(Append(q, c)) = c
        BY <1>2, <1>7, <4>2
      <4>4. QED
        BY <1>2, <1>8, <2>2, <4>1, <4>3
    <3>3. ASSUME NEW n \in Numbers, u = Append(Append(v, b), n) PROVE WithoutNumberedCopy(u) \in X
      <4>1. CASE Last(v) # c
        BY <1>5, <3>3, <4>1
      <4>2. CASE Last(v) = c
        <5>1. PICK w \in X : v = Append(Append(w, b), c) \/ v = Append(Append(Append(Append(w, b), h), b), c)
          BY <1>9, <4>2
        <5>2. QED
          BY <1>5, <3>3, <5>1
      <4>3. QED
        BY <4>1, <4>2
    <3>4. ASSUME NEW n \in Numbers,
                 u = Append(Append(Append(Append(Append(Append(v, b), h), b), c), b), n)
          PROVE  WithoutNumberedCopy(u) \in X
      BY <1>5, <3>4
    <3>5. QED
      BY <1>6, <3>1, <3>2, <3>3, <3>4
  <2>3. QED
    BY <2>1, <2>2
<1>12. ASSUME NEW u \in X, NEW e \in Endings PROVE WithoutCopy(WithoutNumber(u \o e)) \in X
  <2>1. PICK p, w : p = Append(Append(u, b), c) /\ w = Append(Append(Append(Append(u, b), h), b), c)
    OBVIOUS
  <2>2. p \in Seq(T) /\ p # <<>> /\ Last(p) = c /\ w \in Seq(T) /\ w # <<>> /\ Last(w) = c
    <3>1. Append(u, b) \in Seq(T)
      BY <1>2, <1>3, <1>7
    <3>2. p \in Seq(T) /\ p # <<>> /\ Last(p) = c
      BY <1>2, <1>7, <2>1, <3>1
    <3>3. QED
      BY <1>8, <2>1, <3>2
  <2>3. WithoutNumber(p) = p /\ WithoutNumber(w) = w
    <3>1. Last(p) \notin Numbers /\ Last(p) # b /\ Last(w) \notin Numbers /\ Last(w) # b
      BY <1>2, <2>2
    <3>2. WithoutNumber(p) = p
      BY <1>2, <2>2, <3>1, NumberGoes
    <3>3. WithoutNumber(w) = w
      BY <1>2, <2>2, <3>1, NumberGoes
    <3>4. QED
      BY <3>2, <3>3
  <2>4. WithoutCopy(p) = u /\ WithoutCopy(w) = u
    BY <1>4, <2>1
  <2>5. \A n \in Numbers : WithoutNumber(Append(Append(w, b), n)) = w
    BY <1>8, <2>1
  <2>6. \A n \in Numbers : WithoutNumber(Append(Append(u, b), n)) = u
    BY <1>4
  <2>7. \/ u \o e = p \/ u \o e = w
        \/ \E n \in Numbers : u \o e = Append(Append(u, b), n)
        \/ \E n \in Numbers : u \o e = Append(Append(w, b), n)
    BY <1>6, <2>1
  <2>8. QED
    BY <1>10, <2>3, <2>4, <2>5, <2>6, <2>7
<1>13. ASSUME NEW u \in X PROVE WithoutCopy(WithoutNumber(u)) \in X
  <2>1. CASE Last(u) \notin Numbers
    BY <1>4, <1>10, <2>1
  <2>2. CASE Last(u) \in Numbers
    <3>1. PICK v \in X, e \in Endings : u = v \o e
      BY <2>2 DEF Chain
    <3>2. QED
      BY <1>12, <3>1
  <2>3. QED
    BY <2>1, <2>2
<1>14. \A u \in Ended(X) : WithoutCopy(WithoutNumber(u)) \in X
  <2> SUFFICES ASSUME NEW u \in Ended(X) PROVE WithoutCopy(WithoutNumber(u)) \in X
    OBVIOUS
  <2>1. u \in X \/ \E v \in X, e \in Endings : u = v \o e
    BY DEF Ended
  <2>2. QED
    BY <1>12, <1>13, <2>1
<1>15. QED
  BY <1>10, <1>11, <1>14

LEMMA PrefixGoes ==
  ASSUME NEW X, Chain(X)
  PROVE  \A u \in Prefixed(X) : WithoutCopyOf(u) \in X
<1>1. PICK b, h, c, o : Letters(b, h, c, o)
  BY LettersExist
<1>2. PICK T : T = Tokens
  OBVIOUS
<1>3. b \in T /\ c \in T /\ o \in T /\ Blank = {b} /\ c = "copy" /\ o = "of" /\ c # b /\ o # b
  BY <1>1, <1>2 DEF Letters
<1>4. ASSUME NEW v \in X
      PROVE  (v[1] # c => WithoutCopyOf(v) = v) /\ WithoutCopyOf(CopyOf \o v) = v
  <2>1. v \in Seq(T) /\ v # <<>> /\ v[1] # b
    BY <1>2, <1>3 DEF Chain
  <2>2. /\ v[1] # c => WithoutCopyOf(v) = v
        /\ WithoutCopyOf(<<c>> \o (<<b>> \o (<<o>> \o (<<b>> \o v)))) = v
    BY <1>3, <2>1, CopyOfGoes
  <2>3. CopyOf \o v = <<c>> \o (<<b>> \o (<<o>> \o (<<b>> \o v)))
    BY <1>1, <1>2, <2>1, PrefixKeeps
  <2>4. QED
    BY <2>2, <2>3
<1>5. ASSUME NEW u \in X PROVE WithoutCopyOf(u) \in X
  <2>1. CASE u[1] # c
    BY <1>4, <2>1
  <2>2. CASE u[1] = c
    <3>1. PICK v \in X : u = CopyOf \o v
      BY <1>3, <2>2 DEF Chain
    <3>2. QED
      BY <1>4, <3>1
  <2>3. QED
    BY <2>1, <2>2
<1>6. ASSUME NEW u \in Prefixed(X) PROVE WithoutCopyOf(u) \in X
  <2>1. u \in X \/ \E v \in X : u = CopyOf \o v
    BY DEF Prefixed
  <2>2. QED
    BY <1>4, <1>5, <2>1
<1>7. QED
  BY <1>6

LEMMA GrownIsChain ==
  ASSUME NEW X, Chain(X)
  PROVE  Chain(Grown(X)) /\ X \subseteq Grown(X)
<1>1. Chain(Ended(X))
  BY EndedIsChain
<1>2. Chain(Prefixed(Ended(X)))
  BY <1>1, PrefixedIsChain
<1>3. QED
  BY <1>2 DEF Grown, Prefixed, Ended

LEMMA PassTakesOff ==
  ASSUME NEW X, Chain(X)
  PROVE  \A x \in Grown(X) : Pass(x) \in X
<1>1. PICK b, h, c, o : Letters(b, h, c, o)
  BY LettersExist
<1>2. SUFFICES ASSUME NEW x \in Grown(X) PROVE Pass(x) \in X
  OBVIOUS
<1>3. Chain(Prefixed(X))
  BY PrefixedIsChain
<1>4. x \in Ended(Prefixed(X))
  <2>1. \A v \in X, e \in Endings : CopyOf \o (v \o e) = (CopyOf \o v) \o e
    <3> SUFFICES ASSUME NEW v \in X, NEW e \in Endings PROVE CopyOf \o (v \o e) = (CopyOf \o v) \o e
      OBVIOUS
    <3>1. v \in Seq(Tokens)
      BY DEF Chain
    <3>2. QED
      BY <3>1, MarksAssociate
  <2>2. Ended(X) \subseteq Ended(Prefixed(X))
    BY DEF Ended, Prefixed
  <2>3. ASSUME NEW z \in Ended(X) PROVE CopyOf \o z \in Ended(Prefixed(X))
    <3>1. z \in X \/ \E v \in X, e \in Endings : z = v \o e
      BY DEF Ended
    <3>2. CASE z \in X
      BY <3>2 DEF Ended, Prefixed
    <3>3. ASSUME NEW v \in X, NEW e \in Endings, z = v \o e PROVE CopyOf \o z \in Ended(Prefixed(X))
      <4>1. CopyOf \o z = (CopyOf \o v) \o e
        BY <2>1, <3>3
      <4>2. CopyOf \o v \in Prefixed(X)
        BY DEF Prefixed
      <4>3. \A y \in Prefixed(X) : y \o e \in Ended(Prefixed(X))
        BY DEF Ended
      <4>4. QED
        BY <4>1, <4>2, <4>3
    <3>4. QED
      BY <3>1, <3>2, <3>3
  <2>4. x \in Ended(X) \/ \E z \in Ended(X) : x = CopyOf \o z
    BY DEF Grown, Prefixed
  <2>5. QED
    BY <2>2, <2>3, <2>4
<1>5. PICK u, v, w : u = WithoutCopy(WithoutNumber(x)) /\ v = WithoutCopyOf(u) /\ w = WithoutNumberedCopy(v)
  OBVIOUS
<1>6. u \in Prefixed(X)
  BY <1>1, <1>3, <1>4, <1>5, EndingsGo
<1>7. v \in X
  BY <1>5, <1>6, PrefixGoes
<1>8. w \in X
  BY <1>1, <1>5, <1>7, EndingsGo
<1>9. Strip(w) = w
  <2>1. PICK T : T = Tokens
    OBVIOUS
  <2>2. b \in T /\ Blank = {b}
    BY <1>1, <2>1 DEF Letters
  <2>3. w \in Seq(T) /\ w # <<>> /\ w[1] # b /\ Last(w) # b
    BY <1>8, <2>1, <2>2 DEF Chain
  <2>4. CutRight(w, Blank) = w /\ CutLeft(w, Blank) = w
    BY <2>2, <2>3, CutBlanks
  <2>5. QED
    BY <2>4 DEF Strip
<1>10. Pass(x) = Strip(w)
  BY <1>5 DEF Pass
<1>11. QED
  BY <1>8, <1>9, <1>10

(* Four marks, and four passes: what was copied is found again.             *)
LEMMA MarksComeOff ==
  ASSUME NEW stem \in Seq(Tokens), Unmarked(stem),
         NEW history \in Seq({CopyOf} \cup Endings), Len(history) <= MaxRounds
  PROVE  StripCopyMarkers(Copied(stem, history)) = stem
<1> DEFINE G0 == {stem}
           G1 == Grown(G0)
           G2 == Grown(G1)
           G3 == Grown(G2)
           G4 == Grown(G3)
<1>1. Chain(G0)
  <2>1. PICK b, h, c, o : Letters(b, h, c, o)
    BY LettersExist
  <2>2. stem # <<>> /\ stem[1] \notin Blank /\ stem[1] # "copy"
    BY Zenon DEF Unmarked, Blank
  <2>3. Last(stem) \notin Blank \cup {"-"} /\ Last(stem) \notin Numbers \cup {"copy"}
    BY Zenon DEF Unmarked, Blank
  <2>4. QED
    BY <2>2, <2>3, Zenon DEF Chain
<1>2. \A X : Chain(X) => Chain(Grown(X)) /\ X \subseteq Grown(X)
  BY GrownIsChain
<1>3. \A X : Chain(X) => \A x \in Grown(X) : Pass(x) \in X
  BY PassTakesOff
<1>4. \A X : \A v \in X, mark \in {CopyOf} \cup Endings : Marked(v, mark) \in Grown(X)
  <2> SUFFICES ASSUME NEW X, NEW v \in X, NEW mark \in {CopyOf} \cup Endings
               PROVE  Marked(v, mark) \in Grown(X)
    OBVIOUS
  <2>1. X \subseteq Ended(X)
    BY DEF Ended
  <2>2. \A Y : Y \subseteq Prefixed(Y) /\ \A z \in Y : CopyOf \o z \in Prefixed(Y)
    BY DEF Prefixed
  <2>3. Ended(X) \subseteq Grown(X) /\ \A z \in Ended(X) : CopyOf \o z \in Grown(X)
    BY <2>2 DEF Grown
  <2>4. \A e \in Endings : v \o e \in Ended(X)
    BY DEF Ended
  <2>5. QED
    BY <2>1, <2>3, <2>4 DEF Marked
<1>5. PICK name : /\ name[0] = stem /\ name[Len(history)] = Copied(stem, history)
                  /\ \A k \in 1..Len(history) : /\ history[k] \in {CopyOf} \cup Endings
                                                /\ name[k] = Marked(name[k - 1], history[k])
                  /\ \A k \in 0..Len(history) : name[k] \in Seq(Tokens)
  BY CopiedByMarks
<1> HIDE DEF G0
<1>6. Chain(G1) /\ G0 \subseteq G1
  BY <1>1, <1>2
<1> HIDE DEF G1
<1>7. Chain(G2) /\ G1 \subseteq G2
  BY <1>2, <1>6
<1> HIDE DEF G2
<1>8. Chain(G3) /\ G2 \subseteq G3
  BY <1>2, <1>7
<1> HIDE DEF G3
<1>9. G3 \subseteq G4
  BY <1>2, <1>8
<1> HIDE DEF G4
<1>10. Len(history) \in {0, 1, 2, 3, 4}
  <2>1. Len(history) \in Nat
    OBVIOUS
  <2>2. PICK n : n = Len(history)
    OBVIOUS
  <2>3. n \in Nat /\ n <= 4
    BY <2>1, <2>2 DEF MaxRounds
  <2>4. n \in {0, 1, 2, 3, 4}
    BY <2>3
  <2>5. QED
    BY <2>2, <2>4
<1>11. ASSUME NEW k \in 1..Len(history), NEW X, name[k - 1] \in X PROVE name[k] \in Grown(X)
  <2>1. name[k] = Marked(name[k - 1], history[k]) /\ history[k] \in {CopyOf} \cup Endings
    BY <1>5
  <2>2. QED
    BY <1>4, <1>11, <2>1
<1>12. name[0] \in G0
  BY <1>5 DEF G0
<1>13. Len(history) >= 1 => name[1] \in G1
  BY <1>10, <1>11, <1>12 DEF G1
<1>14. Len(history) >= 2 => name[2] \in G2
  BY <1>10, <1>11, <1>13 DEF G2
<1>15. Len(history) >= 3 => name[3] \in G3
  BY <1>10, <1>11, <1>14 DEF G3
<1>16. Len(history) >= 4 => name[4] \in G4
  BY <1>10, <1>11, <1>15 DEF G4
<1>17. PICK x : x = Copied(stem, history)
  OBVIOUS
<1>18. x \in G4
  BY <1>5, <1>6, <1>7, <1>8, <1>9, <1>10, <1>12, <1>13, <1>14, <1>15, <1>16, <1>17
<1>19. Pass(x) \in G3
  BY <1>3, <1>8, <1>18 DEF G4
<1>20. Pass(Pass(x)) \in G2
  BY <1>3, <1>7, <1>19 DEF G3
<1>21. Pass(Pass(Pass(x))) \in G1
  BY <1>3, <1>6, <1>20 DEF G2
<1>22. Pass(Pass(Pass(Pass(x)))) \in G0
  BY <1>1, <1>3, <1>21 DEF G1
<1>23. QED
  BY <1>17, <1>22, FourPasses DEF G0

(* The extension is found where it was put on. *)
LEMMA TitleOf ==
  ASSUME NEW x \in Seq(Tokens), x # <<>>, NEW ext \in Seq(Tokens), WithExtension(x, ext)
  PROVE  NormalizeTitle(x \o ext) = Squeezed(StripCopyMarkers(x)) \o ext
<1>1. PICK T : T = Tokens
  OBVIOUS
<1>2. x \in Seq(T) /\ ext \in Seq(T) /\ Len(x) \in Nat /\ Len(ext) \in Nat /\ Len(x) >= 1
  BY <1>1, EmptySeq
<1>3. CASE ext = <<>>
  <2>1. x \o ext = x
    BY <1>2, <1>3, ConcatEmptySeq
  <2>2. {i \in DOMAIN x : x[i] = "."} = {}
    BY <1>3 DEF WithExtension
  <2>3. ExtensionDot(x) = 0
    BY <2>2 DEF ExtensionDot
  <2>4. NormalizeTitle(x) = Squeezed(StripCopyMarkers(x)) \o <<>>
    BY <2>3 DEF NormalizeTitle
  <2>5. QED
    BY <1>3, <2>1, <2>4
<1>4. CASE ext # <<>>
  <2>1. ext[1] = "." /\ IsExtension(Tail(ext))
    BY <1>4 DEF WithExtension
  <2>2. \A i \in DOMAIN Tail(ext) : Tail(ext)[i] \in Words
    BY <2>1, Zenon DEF IsExtension
  <2>3. PICK name : name = x \o ext
    OBVIOUS
  <2>4. /\ name \in Seq(T) /\ Len(name) = Len(x) + Len(ext)
        /\ \A i \in 1..(Len(x) + Len(ext)) : name[i] = IF i <= Len(x) THEN x[i] ELSE ext[i - Len(x)]
    BY <1>2, <2>3, ConcatProperties
  <2>5. Len(ext) >= 1
    BY <1>2, <1>4, EmptySeq
  <2>6. PICK d : d = Len(x) + 1
    OBVIOUS
  <2>7. d \in 1..Len(name) /\ d # 1 /\ name[d] = "."
    BY <1>2, <2>1, <2>4, <2>5, <2>6
  <2>8. ASSUME NEW i \in 1..Len(name), i > d PROVE name[i] # "."
    <3>1. /\ Tail(ext) \in Seq(T) /\ Len(Tail(ext)) = Len(ext) - 1
          /\ \A j \in 1..Len(Tail(ext)) : Tail(ext)[j] = ext[j + 1]
      BY <1>2, <1>4, HeadTailProperties
    <3>2. PICK j : j = i - d
      OBVIOUS
    <3>3. j \in 1..Len(Tail(ext)) /\ j + 1 = i - Len(x) /\ ~ (i <= Len(x))
      BY <1>2, <2>4, <2>6, <2>8, <3>1, <3>2
    <3>4. name[i] = Tail(ext)[j]
      BY <2>4, <3>1, <3>3
    <3>5. j \in DOMAIN Tail(ext)
      BY <3>1, <3>3
    <3>6. QED
      BY <2>2, <3>4, <3>5, TokensDiffer
  <2> DEFINE dots == {i \in DOMAIN name : name[i] = "."}
             dot  == CHOOSE i \in dots : \A j \in dots : j <= i
  <2>9. d \in dots /\ dots \subseteq 1..Len(name) /\ \A j \in dots : j <= d
    BY <2>4, <2>7, <2>8
  <2>10. dot = d
    <3>1. dot \in dots /\ \A j \in dots : j <= dot
      <4> HIDE DEF dots
      <4>1. QED
        BY <2>9
    <3> HIDE DEF dots, dot
    <3>2. dot \in Nat /\ d \in Nat
      BY <2>4, <2>9, <3>1
    <3>3. QED
      BY <2>9, <3>1, <3>2
  <2>11. dots \ {1} # {}
    BY <2>7, <2>9
  <2>12. SubSeq(name, d + 1, Len(name)) = Tail(ext)
    <3>1. Tail(ext) = SubSeq(ext, 2, Len(ext))
      BY <1>2, <1>4, TailIsSubSeq
    <3>2. CASE Len(ext) = 1
      <4>1. Tail(ext) = <<>>
        BY <1>2, <3>1, <3>2, SubSeqEmpty
      <4>2. QED
        BY <2>1, <4>1, Zenon DEF IsExtension
    <3>3. CASE Len(ext) # 1
      <4>1. d + 1 \in (Len(x) + 1)..(Len(x) + Len(ext)) /\ Len(name) \in (Len(x) + 1)..(Len(x) + Len(ext))
        <5>1. PICK l, m, n : l = Len(x) /\ m = Len(ext) /\ n = Len(name)
          OBVIOUS
        <5>2. l \in Nat /\ m \in Nat /\ m >= 1 /\ m # 1 /\ n = l + m /\ d = l + 1
          BY <1>2, <2>4, <2>5, <2>6, <3>3, <5>1
        <5>3. d + 1 \in (l + 1)..(l + m) /\ n \in (l + 1)..(l + m)
          BY <5>2
        <5>4. QED
          BY <5>1, <5>3
      <4>2. SubSeq(x \o ext, d + 1, Len(name)) = SubSeq(ext, (d + 1) - Len(x), Len(name) - Len(x))
        BY <1>2, <4>1, SubSeqOfConcat2
      <4>3. (d + 1) - Len(x) = 2 /\ Len(name) - Len(x) = Len(ext)
        BY <1>2, <2>4, <2>6
      <4>4. QED
        BY <2>3, <3>1, <4>2, <4>3
    <3>4. QED
      BY <3>2, <3>3
  <2>13. ExtensionDot(name) = d
    BY <2>1, <2>10, <2>11, <2>12 DEF ExtensionDot
  <2>14. SubSeq(name, 1, d - 1) = x
    <3>1. 1 \in 1..Len(x) /\ Len(x) \in 1..Len(x) /\ d - 1 = Len(x)
      BY <1>2, <2>6
    <3>2. SubSeq(x \o ext, 1, Len(x)) = SubSeq(x, 1, Len(x))
      BY <1>2, <3>1, SubSeqOfConcat1
    <3>3. SubSeq(x, 1, Len(x)) = x
      BY <1>2, SubSeqFull
    <3>4. QED
      BY <2>3, <3>1, <3>2, <3>3
  <2>15. SubSeq(name, d, Len(name)) = ext
    <3>1. d \in (Len(x) + 1)..(Len(x) + Len(ext)) /\ Len(name) \in (Len(x) + 1)..(Len(x) + Len(ext))
      BY <1>2, <2>4, <2>5, <2>6
    <3>2. SubSeq(x \o ext, d, Len(name)) = SubSeq(ext, d - Len(x), Len(name) - Len(x))
      BY <1>2, <3>1, SubSeqOfConcat2
    <3>3. d - Len(x) = 1 /\ Len(name) - Len(x) = Len(ext)
      BY <1>2, <2>4, <2>6
    <3>4. SubSeq(ext, 1, Len(ext)) = ext
      BY <1>2, SubSeqFull
    <3>5. QED
      BY <2>3, <3>2, <3>3, <3>4
  <2>16. d # 0
    BY <2>7, <2>4
  <2>17. NormalizeTitle(name) = Squeezed(StripCopyMarkers(x)) \o ext
    BY <2>13, <2>14, <2>15, <2>16 DEF NormalizeTitle
  <2>18. QED
    BY <2>3, <2>17
<1>5. QED
  BY <1>3, <1>4

LEMMA CopiedStays ==
  ASSUME NEW T, CopyOf \in Seq(T), \A e \in Endings : e \in Seq(T),
         NEW stem \in Seq(Tokens), stem \in Seq(T), stem # <<>>,
         NEW history \in Seq({CopyOf} \cup Endings)
  PROVE  Copied(stem, history) \in Seq(T) /\ Copied(stem, history) # <<>>
<1> DEFINE V == Seq(T) \ {<<>>}
<1>1. PICK name : /\ name[0] = stem /\ name[Len(history)] = Copied(stem, history)
                  /\ \A k \in 1..Len(history) : /\ history[k] \in {CopyOf} \cup Endings
                                                /\ name[k] = Marked(name[k - 1], history[k])
  BY CopiedByMarks
<1>2. \A v \in Seq(T), w \in Seq(T) : v \o w \in Seq(T) /\ (v \o w = <<>> => v = <<>> /\ w = <<>>)
  BY ConcatProperties, ConcatEqualIffEmpty
<1>3. ASSUME NEW v \in V, NEW mark \in {CopyOf} \cup Endings PROVE Marked(v, mark) \in V
  <2>1. mark \in Seq(T) /\ v \in Seq(T) /\ v # <<>>
    OBVIOUS
  <2>2. v \o mark \in V /\ CopyOf \o v \in V
    BY <1>2, <2>1
  <2>3. QED
    BY <2>2 DEF Marked
<1>4. PICK W, n : W = V /\ n = Len(history)
  OBVIOUS
<1>5. n \in Nat /\ name[0] \in W
  <2>1. Len(history) \in Nat
    BY LenProperties
  <2>2. QED
    BY <1>1, <1>4, <2>1
<1>6. \A k \in 1..n : name[k - 1] \in W => name[k] \in W
  <2> HIDE DEF V
  <2>1. QED
    BY <1>1, <1>3, <1>4
<1>7. \A k \in 0..n : name[k] \in W
  BY <1>5, <1>6, RecursionStays
<1>8. name[Len(history)] \in V
  BY <1>4, <1>5, <1>7
<1>9. QED
  BY <1>1, <1>8

LEMMA MarksHaveNoDots ==
  /\ CopyOf \in Seq(Tokens \ {"."})
  /\ \A e \in Endings : e \in Seq(Tokens \ {"."})
<1>1. PICK b, h, c, o : Letters(b, h, c, o) /\ b # "." /\ h # "." /\ c # "." /\ o # "."
  <2>1. PICK b, h, c, o : Letters(b, h, c, o)
    BY LettersExist
  <2>2. b # "." /\ h # "." /\ c # "." /\ o # "."
    <3>1. Blank = {b} /\ h = "-" /\ c = "copy" /\ o = "of"
      BY <2>1 DEF Letters
    <3>2. b = " "
      BY <3>1, Zenon DEF Blank
    <3>3. QED
      BY <3>1, <3>2, Zenon
  <2>3. QED
    BY <2>1, <2>2
<1>2. PICK T : T = Tokens \ {"."}
  OBVIOUS
<1>3. b \in T /\ h \in T /\ c \in T /\ o \in T /\ \A n \in Numbers : n \in T
  <2>1. b \in Tokens /\ h \in Tokens /\ c \in Tokens /\ o \in Tokens /\ Numbers \subseteq Tokens
    BY <1>1 DEF Letters
  <2>2. \A n \in Numbers : n # "."
    BY TokensDiffer, Zenon
  <2>3. QED
    BY <1>1, <1>2, <2>1, <2>2
<1>4. <<c, b, o, b>> \in Seq(T) /\ <<b, h, b, c>> \in Seq(T)
  BY <1>3, ShortSequences
<1>5. <<b, c>> \in Seq(T)
  BY <1>3, ShortSequences
<1>6. \A n \in Numbers : <<b, n>> \in Seq(T) /\ <<b, h, b, c, b, n>> \in Seq(T)
  BY <1>3, ShortSequences
<1>7. \A e \in Endings :
        e = <<b, c>> \/ e = <<b, h, b, c>> \/ \E n \in Numbers : e = <<b, n>> \/ e = <<b, h, b, c, b, n>>
  BY <1>1, Zenon DEF Letters
<1>8. CopyOf = <<c, b, o, b>>
  BY <1>1 DEF Letters
<1>9. QED
  BY <1>2, <1>4, <1>5, <1>6, <1>7, <1>8, Zenon

(* However a document was copied, up to four times, its title is its own.   *)
LEMMA CopiesShareTheirTitle ==
  ASSUME NEW stem \in Seq(Tokens), NEW ext \in Seq(Tokens), Unmarked(stem), WithExtension(stem, ext),
         NEW history \in Seq({CopyOf} \cup Endings), Len(history) <= MaxRounds
  PROVE  NormalizeTitle(Copied(stem, history) \o ext) = Squeezed(stem) \o ext
<1>1. PICK x : x = Copied(stem, history)
  OBVIOUS
<1>2. stem # <<>>
  BY Zenon DEF Unmarked
<1>3. x \in Seq(Tokens) /\ x # <<>>
  BY <1>1, <1>2, CopiedStays, EndingsAreTokens
<1>4. WithExtension(x, ext)
  <2>1. CASE ext = <<>>
    <3>1. PICK T : T = Tokens \ {"."}
      OBVIOUS
    <3>2. \A i \in DOMAIN stem : stem[i] # "."
      BY <2>1 DEF WithExtension
    <3>3. stem \in Seq(T)
      <4>1. stem \in [1..Len(stem) -> Tokens] /\ Len(stem) \in Nat /\ DOMAIN stem = 1..Len(stem)
        BY LenProperties
      <4>2. stem \in [1..Len(stem) -> T]
        BY <3>1, <3>2, <4>1
      <4>3. QED
        BY <4>1, <4>2
    <3>4. CopyOf \in Seq(T) /\ \A e \in Endings : e \in Seq(T)
      BY <3>1, MarksHaveNoDots
    <3>5. x \in Seq(T)
      BY <1>1, <1>2, <3>3, <3>4, CopiedStays
    <3>6. \A i \in DOMAIN x : x[i] # "."
      BY <3>1, <3>5, LenProperties
    <3>7. QED
      BY <2>1, <3>6 DEF WithExtension
  <2>2. CASE ext # <<>>
    BY <2>2 DEF WithExtension
  <2>3. QED
    BY <2>1, <2>2
<1>5. NormalizeTitle(x \o ext) = Squeezed(StripCopyMarkers(x)) \o ext
  BY <1>3, <1>4, TitleOf
<1>6. StripCopyMarkers(x) = stem
  BY <1>1, MarksComeOff
<1>7. QED
  BY <1>1, <1>5, <1>6

-----------------------------------------------------------------------------
(* The report, by the positions of the files. *)

DrivesLook == look \in Looks /\ strategy \in {"checksum", "metadata"}

LEMMA KeyTyped ==
  ASSUME DrivesLook, NEW f \in DOMAIN look
  PROVE  /\ look[f] \in Look
         /\ Name(f) \in Seq(Tokens) /\ SortableTitle(f) \in Seq(Nat) /\ Key(f) \in Seq(Nat)
<1>1. look[f] \in Look
  BY DuplicatesAssumption DEF DrivesLook
<1>2. PICK l : l = look[f]
  OBVIOUS
<1>3. /\ l.md5 \in Nat /\ l.size \in Nat /\ l.mime \in Nat
      /\ l.stem \in Seq(Tokens) /\ l.history \in Seq({CopyOf} \cup Endings) /\ l.ext \in Seq(Tokens)
  BY <1>1, <1>2 DEF Look
<1>4. Name(f) \in Seq(Tokens)
  <2>1. Copied(l.stem, l.history) \in Seq(Tokens)
    BY <1>3, CopiedTyped
  <2>2. PICK C, T : C = Copied(l.stem, l.history) /\ T = Tokens
    OBVIOUS
  <2>3. C \in Seq(T) /\ l.ext \in Seq(T)
    BY <1>3, <2>1, <2>2
  <2>4. C \o l.ext \in Seq(T)
    BY <2>3
  <2>5. QED
    BY <1>2, <2>2, <2>4 DEF Name
<1>5. PICK title : title = NormalizeTitle(Name(f))
  OBVIOUS
<1>6. title \in Seq(Tokens)
  BY <1>4, <1>5, NormalizeTitleTyped
<1> DEFINE ranks == [i \in DOMAIN title |-> Rank(title[i])]
<1>7. ranks \in Seq(Nat)
  <2>1. /\ Len(title) \in Nat /\ DOMAIN title = 1..Len(title)
        /\ \A i \in 1..Len(title) : title[i] \in Tokens
    BY <1>6
  <2>2. \A i \in 1..Len(title) : Rank(title[i]) \in Nat
    BY <2>1, DuplicatesAssumption
  <2>3. ranks = [i \in 1..Len(title) |-> Rank(title[i])]
    BY <2>1
  <2>4. ranks \in [1..Len(title) -> Nat]
    BY <2>2, <2>3
  <2>5. QED
    BY <2>1, <2>4
<1>8. SortableTitle(f) \in Seq(Nat)
  <2>1. Rank("|") \in Nat
    BY DuplicatesAssumption
  <2>2. PICK r, q : r = ranks /\ q = Rank("|")
    OBVIOUS
  <2>3. r \o <<q>> \in Seq(Nat)
    BY <1>7, <2>1, <2>2
  <2>4. QED
    BY <1>5, <2>2, <2>3 DEF SortableTitle
<1>9. Key(f) \in Seq(Nat)
  <2>1. CASE strategy = "checksum"
    <3>1. <<l.md5, l.size>> \in Seq(Nat)
      BY <1>3
    <3>2. QED
      BY <1>2, <2>1, <3>1 DEF Key
  <2>2. CASE strategy # "checksum"
    <3>1. PICK r : r = SortableTitle(f)
      OBVIOUS
    <3>2. r \o <<l.mime, l.size>> \in Seq(Nat)
      BY <1>3, <1>8, <3>1
    <3>3. QED
      BY <1>2, <2>2, <3>1, <3>2 DEF Key
  <2>3. QED
    BY <2>1, <2>2
<1>10. QED
  BY <1>1, <1>4, <1>8, <1>9

(* A list of files that Drive knows. *)
Listed(files) ==
  /\ files \in Seq(DOMAIN Id)
  /\ \A i \in DOMAIN files : files[i] \notin Folders => files[i] \in DOMAIN look

DocumentsOf(files) == {i \in DOMAIN files : files[i] \notin Folders}

ScannedOf(files) == {i \in DocumentsOf(files) : Scannable(files[i])}

MembersOf(files, k) == {i \in ScannedOf(files) : Key(files[i]) = k}

GroupKeys(files) ==
  {k \in {Key(files[i]) : i \in ScannedOf(files)} : Cardinality(MembersOf(files, k)) > 1}

KeysBelow(files, k) == {l \in GroupKeys(files) : Below(l, k)}

GroupKey(files, n) == CHOOSE k \in GroupKeys(files) : Cardinality(KeysBelow(files, k)) = n - 1

LEMMA DuplicatesAre ==
  ASSUME NEW files
  PROVE  Duplicates(files) =
           [groups |-> [n \in 1..Cardinality(GroupKeys(files)) |->
                          OldestFirst(files, MembersOf(files, GroupKey(files, n)))],
            unscannable |-> ById(files, DocumentsOf(files) \ ScannedOf(files))]
<1> DEFINE scanned == ScannedOf(files)
           key == [i \in scanned |-> Key(files[i])]
           members(k) == {i \in scanned : key[i] = k}
           keys == {k \in {key[i] : i \in scanned} : Cardinality(members(k)) > 1}
           below(k) == {l \in keys : Below(l, k)}
<1>1. \A i \in scanned : key[i] = Key(files[i])
  OBVIOUS
<1>2. \A k : members(k) = MembersOf(files, k)
  BY <1>1 DEF MembersOf
<1>3. {key[i] : i \in scanned} = {Key(files[i]) : i \in scanned}
  BY <1>1
<1>4. keys = GroupKeys(files)
  <2> HIDE DEF key, members
  <2>1. QED
    BY <1>2, <1>3 DEF GroupKeys
<1>5. \A k : below(k) = KeysBelow(files, k)
  <2> HIDE DEF keys
  <2>1. QED
    BY <1>4 DEF KeysBelow
<1> DEFINE choice(n) == CHOOSE k \in keys : Cardinality(below(k)) = n - 1
<1>6. Duplicates(files) =
        [groups |-> [n \in 1..Cardinality(keys) |-> OldestFirst(files, members(choice(n)))],
         unscannable |-> ById(files, DocumentsOf(files) \ ScannedOf(files))]
  BY DEF Duplicates, ScannedOf, DocumentsOf
<1>7. \A n : choice(n) = GroupKey(files, n)
  <2> HIDE DEF keys, below
  <2>1. QED
    BY <1>4, <1>5 DEF GroupKey
<1> HIDE DEF members, keys, choice
<1>8. \A n : members(choice(n)) = MembersOf(files, GroupKey(files, n))
  BY <1>2, <1>7
<1>9. [n \in 1..Cardinality(keys) |-> OldestFirst(files, members(choice(n)))]
        = [n \in 1..Cardinality(GroupKeys(files)) |-> OldestFirst(files, MembersOf(files, GroupKey(files, n)))]
  BY <1>4, <1>8
<1>10. QED
  BY <1>6, <1>9

LEMMA PositionsAreNumbers ==
  ASSUME NEW files \in Seq(DOMAIN Id), NEW U, U \subseteq DOMAIN files
  PROVE  IsFiniteSet(U) /\ U \subseteq Nat
<1>1. DOMAIN files = 1..Len(files) /\ Len(files) \in Nat
  OBVIOUS
<1>2. IsFiniteSet(1..Len(files))
  BY <1>1, FS_Interval
<1>3. QED
  BY <1>1, <1>2, FS_Subset

(* One key per position, and different keys for different files. *)
LEMMA OldestFirstKeys ==
  ASSUME DrivesLook, NEW files, Listed(files), NEW U, U \subseteq DocumentsOf(files), NEW key,
         key = [i \in U |-> <<look[files[i]].time, Id[files[i]]>>]
  PROVE  /\ Keys(key) /\ DOMAIN key = U
         /\ \A i \in U, j \in U : key[i] = key[j] => files[i] = files[j]
<1>1. U \subseteq DOMAIN files /\ files \in Seq(DOMAIN Id)
  BY DEF Listed, DocumentsOf
<1>2. IsFiniteSet(U) /\ U \subseteq Nat
  BY <1>1, PositionsAreNumbers
<1>3. \A i \in U : files[i] \in DOMAIN Id /\ files[i] \in DOMAIN look
  BY <1>1 DEF Listed, DocumentsOf
<1>4. \A i \in U : look[files[i]].time \in Nat /\ Id[files[i]] \in Nat
  BY <1>3, KeyTyped, DuplicatesAssumption DEF Look
<1>5. \A i \in U : key[i] = <<look[files[i]].time, Id[files[i]]>> /\ key[i] \in Seq(Nat)
  BY <1>4
<1>6. \A i \in U, j \in U : key[i] = key[j] => Id[files[i]] = Id[files[j]]
  BY <1>5
<1>7. \A i \in U, j \in U : key[i] = key[j] => files[i] = files[j]
  BY <1>3, <1>6, DuplicatesAssumption
<1>8. Keys(key)
  BY <1>2, <1>5 DEF Keys
<1>9. QED
  BY <1>7, <1>8

LEMMA ByIdKeys ==
  ASSUME NEW files \in Seq(DOMAIN Id), NEW U, U \subseteq DOMAIN files, NEW key,
         key = [i \in U |-> <<Id[files[i]]>>]
  PROVE  /\ Keys(key) /\ DOMAIN key = U
         /\ \A i \in U, j \in U : key[i] = key[j] => files[i] = files[j]
<1>2. IsFiniteSet(U) /\ U \subseteq Nat
  BY PositionsAreNumbers
<1>3. \A i \in U : files[i] \in DOMAIN Id /\ Id[files[i]] \in Nat
  BY DuplicatesAssumption
<1>5. \A i \in U : key[i] = <<Id[files[i]]>> /\ key[i] \in Seq(Nat)
  BY <1>3
<1>6. \A i \in U, j \in U : key[i] = key[j] => Id[files[i]] = Id[files[j]]
  BY <1>5
<1>7. \A i \in U, j \in U : key[i] = key[j] => files[i] = files[j]
  BY <1>3, <1>6, DuplicatesAssumption
<1>8. Keys(key)
  BY <1>2, <1>5 DEF Keys
<1>9. QED
  BY <1>7, <1>8

LEMMA OneToOnePart ==
  ASSUME NEW S, NEW T, NEW p, OneToOne(p, S, T), NEW U, U \subseteq T, NEW W, W = {j \in S : p[j] \in U}
  PROVE  LET q == [j \in W |-> p[j]] IN OneToOne(q, W, U)
<1> DEFINE q == [j \in W |-> p[j]]
<1>1. q \in [W -> U] /\ \A j \in W : q[j] = p[j] /\ j \in S
  BY DEF OneToOne
<1>2. \A i \in W, j \in W : q[i] = q[j] => i = j
  BY <1>1 DEF OneToOne
<1>3. ASSUME NEW i \in U PROVE \E j \in W : q[j] = i
  <2>1. PICK j \in S : p[j] = i
    BY DEF OneToOne
  <2>2. j \in W /\ q[j] = i
    BY <1>1, <2>1
  <2>3. QED
    BY <2>2
<1> HIDE DEF q
<1>4. OneToOne(q, W, U)
  BY <1>1, <1>2, <1>3 DEF OneToOne
<1>5. QED
  BY <1>4 DEF q

(* The same files in another order. *)
SameFiles(s, t, p) ==
  OneToOne(p, DOMAIN t, DOMAIN s) /\ \A j \in DOMAIN t : t[j] = s[p[j]]

LEMMA ByIdTheSame ==
  ASSUME NEW s \in Seq(DOMAIN Id), NEW t \in Seq(DOMAIN Id), NEW p, SameFiles(s, t, p),
         NEW U, U \subseteq DOMAIN s, NEW W, W = {j \in DOMAIN t : p[j] \in U}
  PROVE  ById(s, U) = ById(t, W)
<1> DEFINE key == [i \in U |-> <<Id[s[i]]>>]
           key2 == [j \in W |-> <<Id[t[j]]>>]
           q == [j \in W |-> p[j]]
<1>1. /\ Keys(key) /\ DOMAIN key = U
      /\ \A i \in U, j \in U : key[i] = key[j] => s[i] = s[j]
  BY ByIdKeys
<1>2. Keys(key2) /\ DOMAIN key2 = W
  <2>1. W \subseteq DOMAIN t
    OBVIOUS
  <2>2. QED
    BY <2>1, ByIdKeys
<1>3. OneToOne(q, W, U)
  BY OneToOnePart DEF SameFiles
<1>4. \A j \in W : t[j] = s[q[j]] /\ key2[j] = key[q[j]]
  BY DEF SameFiles
<1>5. ById(s, U) = Ordered(s, key) /\ ById(t, W) = Ordered(t, key2)
  BY DEF ById
<1> HIDE DEF key, key2, q
<1>6. Ordered(s, key) = Ordered(t, key2)
  BY <1>1, <1>2, <1>3, <1>4, SortedTheSame
<1>7. QED
  BY <1>5, <1>6

LEMMA OldestFirstTheSame ==
  ASSUME DrivesLook, NEW s, NEW t, Listed(s), Listed(t), NEW p, SameFiles(s, t, p),
         NEW U, U \subseteq DocumentsOf(s), NEW W, W = {j \in DOMAIN t : p[j] \in U}
  PROVE  OldestFirst(s, U) = OldestFirst(t, W)
<1> DEFINE key == [i \in U |-> <<look[s[i]].time, Id[s[i]]>>]
           key2 == [j \in W |-> <<look[t[j]].time, Id[t[j]]>>]
           q == [j \in W |-> p[j]]
<1>1. /\ Keys(key) /\ DOMAIN key = U
      /\ \A i \in U, j \in U : key[i] = key[j] => s[i] = s[j]
  <2>1. PICK k : k = key
    OBVIOUS
  <2>2. QED
    BY <2>1, OldestFirstKeys
<1>2. Keys(key2) /\ DOMAIN key2 = W
  <2>1. W \subseteq DocumentsOf(t)
    BY DEF SameFiles, DocumentsOf
  <2>2. PICK k : k = key2
    OBVIOUS
  <2>3. QED
    BY <2>1, <2>2, OldestFirstKeys
<1>3. OneToOne(q, W, U)
  <2>1. U \subseteq DOMAIN s
    BY DEF DocumentsOf
  <2>2. QED
    BY <2>1, OneToOnePart DEF SameFiles
<1>4. \A j \in W : t[j] = s[q[j]] /\ key2[j] = key[q[j]]
  BY DEF SameFiles
<1>5. PICK k, k2 : k = key /\ k2 = key2
  OBVIOUS
<1>6. OldestFirst(s, U) = Ordered(s, k) /\ OldestFirst(t, W) = Ordered(t, k2)
  BY <1>5 DEF OldestFirst
<1> HIDE DEF key, key2, q
<1>7. Ordered(s, k) = Ordered(t, k2)
  BY <1>1, <1>2, <1>3, <1>4, <1>5, SortedTheSame
<1>8. QED
  BY <1>6, <1>7

LEMMA DuplicatesTheSame ==
  ASSUME DrivesLook, NEW s, NEW t, Listed(s), Listed(t), NEW p, SameFiles(s, t, p)
  PROVE  Duplicates(s) = Duplicates(t)
<1>1. \A j \in DOMAIN t : p[j] \in DOMAIN s /\ t[j] = s[p[j]]
  BY DEF SameFiles, OneToOne
<1>2. \A i \in DOMAIN s : \E j \in DOMAIN t : p[j] = i
  BY DEF SameFiles, OneToOne
<1>3. DocumentsOf(t) = {j \in DOMAIN t : p[j] \in DocumentsOf(s)}
  BY <1>1 DEF DocumentsOf
<1>4. \A j \in DOMAIN t : j \in ScannedOf(t) <=> p[j] \in ScannedOf(s)
  BY <1>1, <1>3 DEF ScannedOf
<1>5. ScannedOf(t) \subseteq DOMAIN t /\ ScannedOf(s) \subseteq DOMAIN s
  BY DEF ScannedOf, DocumentsOf
<1>6. \A k : MembersOf(t, k) = {j \in DOMAIN t : p[j] \in MembersOf(s, k)}
  BY <1>1, <1>4, <1>5 DEF MembersOf
<1>7. \A k : MembersOf(s, k) \subseteq DocumentsOf(s) /\ DocumentsOf(s) \subseteq DOMAIN s
  BY DEF MembersOf, ScannedOf, DocumentsOf
<1>8. \A k : Cardinality(MembersOf(t, k)) = Cardinality(MembersOf(s, k))
  <2>1. IsFiniteSet(DOMAIN s)
    BY PositionsAreNumbers DEF Listed
  <2>2. \A U : U \subseteq DOMAIN s => Cardinality({j \in DOMAIN t : p[j] \in U}) = Cardinality(U)
    BY <2>1, CarriedSets DEF SameFiles
  <2>3. QED
    BY <1>6, <1>7, <2>2
<1>9. {Key(t[j]) : j \in ScannedOf(t)} = {Key(s[i]) : i \in ScannedOf(s)}
  <2>1. ASSUME NEW j \in ScannedOf(t) PROVE \E i \in ScannedOf(s) : Key(t[j]) = Key(s[i])
    BY <1>1, <1>4, <1>5
  <2>2. ASSUME NEW i \in ScannedOf(s) PROVE \E j \in ScannedOf(t) : Key(t[j]) = Key(s[i])
    <3>1. PICK j \in DOMAIN t : p[j] = i
      BY <1>2, <1>5
    <3>2. QED
      BY <1>1, <1>4, <3>1
  <2>3. QED
    BY <2>1, <2>2
<1>10. GroupKeys(t) = GroupKeys(s)
  BY <1>8, <1>9 DEF GroupKeys
<1>11. \A n : GroupKey(t, n) = GroupKey(s, n)
  BY <1>10 DEF GroupKey, KeysBelow
<1>12. \A k : OldestFirst(s, MembersOf(s, k)) = OldestFirst(t, MembersOf(t, k))
  <2> SUFFICES ASSUME NEW k PROVE OldestFirst(s, MembersOf(s, k)) = OldestFirst(t, MembersOf(t, k))
    OBVIOUS
  <2>1. PICK U, W : U = MembersOf(s, k) /\ W = MembersOf(t, k)
    OBVIOUS
  <2>2. U \subseteq DocumentsOf(s) /\ W = {j \in DOMAIN t : p[j] \in U}
    BY <1>6, <1>7, <2>1
  <2>3. QED
    BY <2>1, <2>2, OldestFirstTheSame
<1>13. ById(s, DocumentsOf(s) \ ScannedOf(s)) = ById(t, DocumentsOf(t) \ ScannedOf(t))
  <2>1. PICK U, W : U = DocumentsOf(s) \ ScannedOf(s) /\ W = DocumentsOf(t) \ ScannedOf(t)
    OBVIOUS
  <2>2. U \subseteq DOMAIN s /\ W = {j \in DOMAIN t : p[j] \in U}
    BY <1>3, <1>4, <1>7, <2>1
  <2>3. QED
    BY <2>1, <2>2, ByIdTheSame DEF Listed
<1>14. [n \in 1..Cardinality(GroupKeys(s)) |-> OldestFirst(s, MembersOf(s, GroupKey(s, n)))]
         = [n \in 1..Cardinality(GroupKeys(t)) |-> OldestFirst(t, MembersOf(t, GroupKey(t, n)))]
  BY <1>10, <1>11, <1>12
<1>15. QED
  BY <1>13, <1>14, DuplicatesAre

-----------------------------------------------------------------------------
(* The tool's steps. *)

(* What find_duplicates computes, the looks and the argument made explicit. *)
TitleIn(l, f) ==
  LET title == NormalizeTitle(Copied(l[f].stem, l[f].history) \o l[f].ext)
  IN [i \in DOMAIN title |-> Rank(title[i])] \o <<Rank("|")>>

KeyIn(l, st, f) ==
  IF st = "checksum" THEN <<l[f].md5, l[f].size>> ELSE TitleIn(l, f) \o <<l[f].mime, l[f].size>>

DuplicatesIn(l, st, files) ==
  LET documents == {i \in DOMAIN files : files[i] \notin Folders}
      scanned == {i \in documents : st = "metadata" \/ l[files[i]].md5 # 0}
      key == [i \in scanned |-> KeyIn(l, st, files[i])]
      members(k) == {i \in scanned : key[i] = k}
      keys == {k \in {key[i] : i \in scanned} : Cardinality(members(k)) > 1}
      below(k) == {m \in keys : Below(m, k)}
      oldest(U) == Ordered(files, [i \in U |-> <<l[files[i]].time, Id[files[i]]>>])
  IN [groups |-> [n \in 1..Cardinality(keys) |->
                    oldest(members(CHOOSE k \in keys : Cardinality(below(k)) = n - 1))],
      unscannable |-> Ordered(files, [i \in documents \ scanned |-> <<Id[files[i]]>>])]

LEMMA DuplicatesAreIn == Duplicates(collected) = DuplicatesIn(look, strategy, collected)
  BY DEF Duplicates, DuplicatesIn, OldestFirst, ById, Scannable, Key, KeyIn, SortableTitle, TitleIn, Name

DupInv ==
  /\ DrivesLook
  /\ \E t \in Trees : DOMAIN tree = DOMAIN t
  /\ report = None \/ (pc = "done" /\ report = Duplicates(collected))

LEMMA DupInitHolds ==
  ASSUME DupInit
  PROVE  DupInv
  BY DEF DupInit, Init, DupInv, DrivesLook

LEMMA DupStepKeeps ==
  ASSUME DupInv, [DupNext]_allVars
  PROVE  DupInv'
<1>1. UNCHANGED <<look, strategy>>
  BY DEF DupNext, Answer, allVars
<1>2. DOMAIN tree' = DOMAIN tree
  <2>1. CASE Next
    <3>1. ASSUME NEW f \in DOMAIN tree, NEW to \in {{}} \cup {{d} : d \in Folders}, MoveByHand(f, to)
          PROVE  DOMAIN tree' = DOMAIN tree
      BY <3>1 DEF MoveByHand
    <3>2. CASE Page \/ Visit \/ Fail \/ Return
      BY <3>2 DEF Page, Visit, Fail, Return
    <3>3. QED
      BY <2>1, <3>1, <3>2 DEF Next
  <2>2. CASE UNCHANGED vars
    BY <2>2 DEF vars
  <2>3. QED
    BY <2>1, <2>2 DEF DupNext, Answer, allVars
<1>3. Duplicates(collected)' = DuplicatesIn(look', strategy', collected')
  BY DEF Duplicates, DuplicatesIn, OldestFirst, ById, Scannable, Key, KeyIn, SortableTitle, TitleIn, Name
<1>4. CASE Answer
  <2>1. pc' = "done" /\ collected' = collected /\ report' = Duplicates(collected)
    BY <1>4 DEF Answer, vars
  <2>2. report' = Duplicates(collected)'
    BY <1>1, <1>3, <2>1, DuplicatesAreIn
  <2>3. QED
    BY <1>1, <1>2, <2>1, <2>2 DEF DupInv, DrivesLook
<1>5. CASE Next /\ UNCHANGED <<look, strategy, report>>
  <2>1. pc = "walk"
    BY <1>5 DEF Next, Page, Visit, Fail, Return, MoveByHand
  <2>2. report = None
    BY <2>1 DEF DupInv
  <2>3. QED
    BY <1>1, <1>2, <1>5, <2>2 DEF DupInv, DrivesLook
<1>6. CASE UNCHANGED allVars
  <2>1. collected' = collected /\ pc' = pc /\ report' = report
    BY <1>6 DEF allVars, vars
  <2>2. Duplicates(collected)' = Duplicates(collected)
    BY <1>1, <1>3, <2>1, DuplicatesAreIn
  <2>3. QED
    BY <1>1, <1>2, <2>1, <2>2 DEF DupInv, DrivesLook
<1>7. QED
  BY <1>4, <1>5, <1>6 DEF DupNext

LEMMA DupSteps == DupInv /\ [DupNext]_allVars => DupInv'
  BY DupStepKeeps

(* The report is what find_duplicates makes of what was collected. *)
THEOREM DupInductive == DupSpec => []DupInv
<1>1. DupInit => DupInv
  BY DupInitHolds
<1>2. QED
  BY <1>1, DupSteps, PTL DEF DupSpec

(* To the listing, the tool is nothing but a listing. *)
THEOREM ToolLists == DupSpec => Spec
<1>1. DupInit => Init
  BY DEF DupInit
<1>2. [DupNext]_allVars => [Next]_vars
  BY DEF DupNext, Answer, allVars
<1>3. QED
  BY <1>1, <1>2, PTL DEF DupSpec, Spec

LEMMA CollectedIsListed ==
  ASSUME DupInv, TypeOK
  PROVE  Listed(collected)
<1>1. PICK t \in Trees : DOMAIN tree = DOMAIN t
  BY DEF DupInv
<1>2. DOMAIN tree \subseteq DOMAIN Id /\ DOMAIN tree \ Folders \subseteq DOMAIN look
  BY <1>1, DuplicatesAssumption DEF DupInv, DrivesLook
<1>3. collected \in Seq(DOMAIN tree)
  BY DEF TypeOK
<1>4. PICK s, D, I : s = collected /\ D = DOMAIN tree /\ I = DOMAIN Id
  OBVIOUS
<1>5. s \in Seq(I) /\ \A i \in DOMAIN s : s[i] \in D
  BY <1>2, <1>3, <1>4
<1>6. QED
  BY <1>2, <1>4, <1>5 DEF Listed

(* The files of a list, in the order of their ids, are the same files. *)
LEMMA ByIdRearranges ==
  ASSUME NEW s, Listed(s)
  PROVE  \E t, p : t = ById(s, DOMAIN s) /\ Listed(t) /\ SameFiles(s, t, p)
<1> DEFINE key == [i \in DOMAIN s |-> <<Id[s[i]]>>]
           N == Cardinality(DOMAIN key)
           t == [n \in 1..N |-> s[At(key, n)]]
           p == [n \in 1..N |-> At(key, n)]
<1>1. Keys(key) /\ DOMAIN key = DOMAIN s
  BY ByIdKeys DEF Listed
<1>2. t = ById(s, DOMAIN s)
  BY OrderedIsAt DEF ById
<1> HIDE DEF key
<1>3. /\ N \in Nat
      /\ \A n \in 1..N : At(key, n) \in DOMAIN s /\ Cardinality(Before(key, At(key, n))) = n - 1
      /\ \A i \in DOMAIN s : \E n \in 1..N : i = At(key, n)
  BY <1>1, AtFacts
<1> HIDE DEF N
<1>4. DOMAIN t = 1..N /\ \A n \in 1..N : t[n] = s[At(key, n)] /\ p[n] = At(key, n)
  OBVIOUS
<1>5. OneToOne(p, 1..N, DOMAIN s)
  <2>1. p \in [1..N -> DOMAIN s]
    BY <1>3
  <2>2. ASSUME NEW m \in 1..N, NEW n \in 1..N, p[m] = p[n] PROVE m = n
    <3>1. m - 1 = n - 1
      BY <1>3, <1>4, <2>2
    <3>2. QED
      BY <1>3, <3>1
  <2>3. \A i \in DOMAIN s : \E n \in 1..N : p[n] = i
    BY <1>3, <1>4
  <2> HIDE DEF p
  <2>4. QED
    BY <2>1, <2>2, <2>3 DEF OneToOne
<1>6. \A n \in 1..N : t[n] \in DOMAIN Id /\ (t[n] \notin Folders => t[n] \in DOMAIN look)
  BY <1>3, <1>4 DEF Listed
<1>7. t \in Seq(DOMAIN Id)
  <2>1. t \in [1..N -> DOMAIN Id]
    BY <1>6
  <2>2. QED
    BY <1>3, <2>1
<1>8. Listed(t) /\ SameFiles(s, t, p)
  <2> HIDE DEF t, p
  <2>1. QED
    BY <1>4, <1>5, <1>6, <1>7 DEF Listed, SameFiles
<1>9. QED
  BY <1>2, <1>8

LEMMA OrderIsForgotten ==
  ASSUME DupInv, TypeOK, report # None
  PROVE  report = Duplicates(ById(collected, DOMAIN collected))
<1>1. PICK s : s = collected
  OBVIOUS
<1>2. Listed(s) /\ DrivesLook /\ report = Duplicates(s)
  BY <1>1, CollectedIsListed DEF DupInv
<1>3. PICK t, p : t = ById(s, DOMAIN s) /\ Listed(t) /\ SameFiles(s, t, p)
  BY <1>2, ByIdRearranges
<1>4. Duplicates(s) = Duplicates(t)
  BY <1>2, <1>3, DuplicatesTheSame
<1>5. QED
  BY <1>1, <1>2, <1>3, <1>4

LEMMA WalksAreTyped == Spec => []TypeOK
<1>1. Init => TypeOK
  BY InitIsTyped
<1>2. TypeOK /\ [Next]_vars => TypeOK'
  BY StepKeepsTypes
<1>3. QED
  BY <1>1, <1>2, PTL DEF Spec

(* The report is a function of the files, whatever order Drive pages them   *)
(* in: also when the owner moved files meanwhile, or the cap cut some off.  *)
THEOREM ReportForgetsTheOrder == DupSpec => []PageOrderDoesNotMatter
<1>1. DupInv /\ TypeOK => PageOrderDoesNotMatter
  BY OrderIsForgotten DEF PageOrderDoesNotMatter
<1>2. QED
  BY <1>1, DupInductive, ToolLists, WalksAreTyped, PTL

-----------------------------------------------------------------------------
(* What a group holds, and what is in one. *)

(* Each number has its group, and each key of several files its number.     *)
LEMMA GroupKeyFacts ==
  ASSUME DrivesLook, NEW s, Listed(s)
  PROVE  /\ Cardinality(GroupKeys(s)) \in Nat
         /\ \A n \in 1..Cardinality(GroupKeys(s)) : GroupKey(s, n) \in GroupKeys(s)
         /\ \A k \in GroupKeys(s) : \E n \in 1..Cardinality(GroupKeys(s)) : GroupKey(s, n) = k
<1> DEFINE G == GroupKeys(s)
           scanned == ScannedOf(s)
           B == [k \in G |-> KeysBelow(s, k)]
<1>1. scanned \subseteq DOMAIN s /\ \A i \in scanned : s[i] \in DOMAIN look
  BY DEF ScannedOf, DocumentsOf, Listed
<1>2. IsFiniteSet(scanned)
  BY <1>1, PositionsAreNumbers DEF Listed
<1>3. \A k \in G : k \in Seq(Nat)
  BY <1>1, KeyTyped DEF GroupKeys
<1>4. IsFiniteSet(G)
  <2> DEFINE keyOf == [i \in scanned |-> Key(s[i])]
             R == {keyOf[i] : i \in scanned}
  <2>1. \A i \in scanned : keyOf[i] = Key(s[i])
    OBVIOUS
  <2> HIDE DEF keyOf
  <2>2. keyOf \in [scanned -> R] /\ \A r \in R : \E i \in scanned : keyOf[i] = r
    <3>1. keyOf = [i \in scanned |-> keyOf[i]]
      BY DEF keyOf
    <3>2. QED
      BY <3>1
  <2> HIDE DEF R
  <2>3. keyOf \in Surjection(scanned, R)
    BY <2>2 DEF Surjection
  <2>4. IsFiniteSet(R)
    BY <1>2, <2>3, FS_Surjection
  <2>5. G \subseteq R
    BY <2>1 DEF GroupKeys, R
  <2>6. QED
    BY <2>4, <2>5, FS_Subset
<1>5. B \in [G -> SUBSET G] /\ \A k \in G : B[k] = KeysBelow(s, k)
  BY DEF KeysBelow
<1> HIDE DEF G, B
<1>6. \A k \in G, l \in G : l \in B[k] <=> Below(l, k)
  BY <1>5 DEF KeysBelow, G
<1>7. \A k \in G : k \notin B[k]
  BY <1>3, <1>6, BelowIsIrreflexive
<1>8. ASSUME NEW k \in G, NEW l \in B[k] PROVE B[l] \subseteq B[k]
  <2> SUFFICES ASSUME NEW m \in B[l] PROVE m \in B[k]
    OBVIOUS
  <2>1. l \in G /\ m \in G
    BY <1>5
  <2>2. Below(l, k) /\ Below(m, l)
    BY <1>6, <2>1
  <2>3. Below(m, k)
    BY <1>3, <2>1, <2>2, BelowIsTransitive
  <2>4. QED
    BY <1>6, <2>1, <2>3
<1>9. \A k \in G, l \in G : k # l => k \in B[l] \/ l \in B[k]
  BY <1>3, <1>6, BelowIsTotal
<1>10. /\ \A k \in G : Cardinality(B[k]) \in 0..(Cardinality(G) - 1)
       /\ \A k \in G, l \in G : Cardinality(B[k]) = Cardinality(B[l]) => k = l
       /\ \A n \in 1..Cardinality(G) : \E k \in G : Cardinality(B[k]) = n - 1
  <2>1. /\ \A k \in G : k \notin B[k]
        /\ \A k \in G : \A l \in B[k] : B[l] \subseteq B[k]
        /\ \A k \in G, l \in G : k # l => k \in B[l] \/ l \in B[k]
    BY <1>7, <1>8, <1>9
  <2>2. QED
    BY <1>4, <1>5, <2>1, EachHasItsPlace
<1>11. Cardinality(G) \in Nat
  BY <1>4, CardinalityIsNat
<1>12. \A n : GroupKey(s, n) = CHOOSE k \in G : Cardinality(KeysBelow(s, k)) = n - 1
  BY DEF GroupKey, G
<1>13. ASSUME NEW n \in 1..Cardinality(G)
       PROVE  GroupKey(s, n) \in G /\ Cardinality(B[GroupKey(s, n)]) = n - 1
  <2>1. \E k \in G : Cardinality(KeysBelow(s, k)) = n - 1
    BY <1>5, <1>10
  <2>2. GroupKey(s, n) \in G /\ Cardinality(KeysBelow(s, GroupKey(s, n))) = n - 1
    BY <1>12, <2>1
  <2>3. QED
    BY <1>5, <2>2
<1>14. ASSUME NEW k \in G PROVE \E n \in 1..Cardinality(G) : GroupKey(s, n) = k
  <2>1. Cardinality(B[k]) \in 0..(Cardinality(G) - 1)
    BY <1>10
  <2>2. PICK n \in 1..Cardinality(G) : n - 1 = Cardinality(B[k])
    <3>1. Cardinality(B[k]) + 1 \in 1..Cardinality(G) /\ (Cardinality(B[k]) + 1) - 1 = Cardinality(B[k])
      BY <1>11, <2>1
    <3>2. QED
      BY <3>1
  <2>3. GroupKey(s, n) \in G /\ Cardinality(B[GroupKey(s, n)]) = Cardinality(B[k])
    BY <1>13, <2>2
  <2>4. QED
    BY <1>10, <2>3
<1>15. QED
  BY <1>11, <1>13, <1>14 DEF G

(* A sorted list: its length, what it holds, and what its first comes from. *)
Sorts(o, files, key) ==
  /\ DOMAIN o = 1..Cardinality(DOMAIN key) /\ Cardinality(DOMAIN key) \in Nat
  /\ o = [n \in 1..Cardinality(DOMAIN key) |-> o[n]]
  /\ \A n \in 1..Cardinality(DOMAIN key) : \E i \in DOMAIN key : o[n] = files[i]
  /\ \A i \in DOMAIN key : \E n \in 1..Cardinality(DOMAIN key) : o[n] = files[i]
  /\ \A n \in 1..Cardinality(DOMAIN key) : \E i \in DOMAIN key, j \in DOMAIN key :
       o[1] = files[i] /\ o[n] = files[j] /\ ~ Below(key[j], key[i])

LEMMA SortedLists ==
  ASSUME NEW files, NEW key, Keys(key)
  PROVE  Sorts(Ordered(files, key), files, key)
<1>1. Ordered(files, key) = [n \in 1..Cardinality(DOMAIN key) |-> files[At(key, n)]]
  BY OrderedIsAt
<1>2. /\ Cardinality(DOMAIN key) \in Nat
      /\ \A n \in 1..Cardinality(DOMAIN key) :
           At(key, n) \in DOMAIN key /\ Cardinality(Before(key, At(key, n))) = n - 1
      /\ \A i \in DOMAIN key : \E n \in 1..Cardinality(DOMAIN key) : i = At(key, n)
  BY AtFacts
<1>3. \A n \in 1..Cardinality(DOMAIN key) : Ordered(files, key)[n] = files[At(key, n)]
  BY <1>1
<1>4. ASSUME NEW n \in 1..Cardinality(DOMAIN key)
      PROVE  ~ Below(key[At(key, n)], key[At(key, 1)])
  <2>1. 1 \in 1..Cardinality(DOMAIN key)
    BY <1>2
  <2>2. At(key, 1) \in DOMAIN key /\ Cardinality(Before(key, At(key, 1))) = 0
    BY <1>2, <2>1
  <2>3. IsFiniteSet(Before(key, At(key, 1)))
    <3>1. Before(key, At(key, 1)) \subseteq DOMAIN key
      BY DEF Before
    <3>2. QED
      BY <3>1, FS_Subset DEF Keys
  <2>4. Before(key, At(key, 1)) = {}
    BY <2>2, <2>3, FS_EmptySet
  <2>5. QED
    BY <1>2, <2>4 DEF Before
<1>5. \A n \in 1..Cardinality(DOMAIN key) : 1 \in 1..Cardinality(DOMAIN key)
  BY <1>2
<1> DEFINE o == Ordered(files, key)
<1>6. /\ DOMAIN o = 1..Cardinality(DOMAIN key)
      /\ o = [n \in 1..Cardinality(DOMAIN key) |-> o[n]]
      /\ \A n \in 1..Cardinality(DOMAIN key) : \E i \in DOMAIN key : o[n] = files[i]
      /\ \A i \in DOMAIN key : \E n \in 1..Cardinality(DOMAIN key) : o[n] = files[i]
  BY <1>1, <1>2, <1>3
<1>7. \A n \in 1..Cardinality(DOMAIN key) : \E i \in DOMAIN key, j \in DOMAIN key :
        o[1] = files[i] /\ o[n] = files[j] /\ ~ Below(key[j], key[i])
  BY <1>2, <1>3, <1>4, <1>5
<1>8. QED
  BY <1>2, <1>6, <1>7 DEF Sorts

LEMMA MembersAreTwins ==
  ASSUME DrivesLook, NEW s, Listed(s), NEW k \in GroupKeys(s), NEW g, g = OldestFirst(s, MembersOf(s, k))
  PROVE  /\ Len(g) \in Nat /\ Len(g) > 1
         /\ \A i \in 2..Len(g) : (g[i] = g[1] \/ Twins(g[1], g[i])) /\ look[g[1]].time <= look[g[i]].time
         /\ \A i \in MembersOf(s, k) : \E m \in DOMAIN g : g[m] = s[i]
<1> DEFINE U == MembersOf(s, k)
<1>1. PICK key : key = [i \in U |-> <<look[s[i]].time, Id[s[i]]>>]
  OBVIOUS
<1>2. U \subseteq DocumentsOf(s) /\ U \subseteq ScannedOf(s)
  BY DEF MembersOf, ScannedOf
<1>3. Keys(key) /\ DOMAIN key = U
  <2>1. PICK W : W = U
    OBVIOUS
  <2>2. QED
    BY <1>1, <1>2, <2>1, OldestFirstKeys
<1>4. g = Ordered(s, key)
  BY <1>1 DEF OldestFirst
<1>5. Cardinality(U) > 1 /\ \A i \in U : Key(s[i]) = k
  BY DEF GroupKeys, MembersOf
<1> HIDE DEF U
<1>6. /\ DOMAIN g = 1..Cardinality(U) /\ Cardinality(U) \in Nat
      /\ g = [n \in 1..Cardinality(U) |-> g[n]]
      /\ \A i \in U : \E n \in 1..Cardinality(U) : g[n] = s[i]
      /\ \A n \in 1..Cardinality(U) : \E i \in U, j \in U :
           g[1] = s[i] /\ g[n] = s[j] /\ ~ Below(key[j], key[i])
  <2>1. PICK o : o = Ordered(s, key)
    OBVIOUS
  <2>2. Sorts(o, s, key)
    BY <1>3, <2>1, SortedLists
  <2>3. g = o /\ DOMAIN key = U
    BY <1>3, <1>4, <2>1
  <2>4. QED
    BY <2>2, <2>3 DEF Sorts
<1>7. Len(g) = Cardinality(U)
  BY <1>6
<1>8. ASSUME NEW n \in 2..Len(g)
      PROVE  (g[n] = g[1] \/ Twins(g[1], g[n])) /\ look[g[1]].time <= look[g[n]].time
  <2>1. n \in 1..Cardinality(U)
    BY <1>6, <1>7
  <2>2. PICK i \in U, j \in U : g[1] = s[i] /\ g[n] = s[j] /\ ~ Below(key[j], key[i])
    BY <1>6, <2>1
  <2>3. s[i] \in DOMAIN look /\ s[j] \in DOMAIN look /\ Key(s[i]) = Key(s[j])
    BY <1>2, <1>5 DEF Listed, DocumentsOf
  <2>4. look[s[i]] \in Look /\ look[s[j]] \in Look
    BY <2>3, KeyTyped
  <2>5. look[s[i]].size = look[s[j]].size
    <3>1. CASE strategy = "checksum"
      <4>1. <<look[s[i]].md5, look[s[i]].size>> = <<look[s[j]].md5, look[s[j]].size>>
        BY <2>3, <3>1 DEF Key
      <4>2. QED
        BY <4>1
    <3>2. CASE strategy # "checksum"
      <4>1. PICK q, r : q = SortableTitle(s[i]) /\ r = SortableTitle(s[j])
        OBVIOUS
      <4>2. PICK a, b : a = look[s[i]] /\ b = look[s[j]]
        OBVIOUS
      <4>3. q \o <<a.mime, a.size>> = r \o <<b.mime, b.size>>
        BY <2>3, <3>2, <4>1, <4>2 DEF Key
      <4>4. q \in Seq(Nat) /\ r \in Seq(Nat)
        BY <2>3, <4>1, KeyTyped
      <4>5. a.mime \in Nat /\ a.size \in Nat /\ b.mime \in Nat /\ b.size \in Nat
        BY <2>4, <4>2 DEF Look
      <4>6. a.size = b.size
        <5>1. PICK am, as, bm, bs : am = a.mime /\ as = a.size /\ bm = b.mime /\ bs = b.size
          OBVIOUS
        <5>2. Len(q \o <<am, as>>) = Len(q) + 2 /\ Len(r \o <<bm, bs>>) = Len(r) + 2
          BY <4>4, <4>5, <5>1
        <5>3. (q \o <<am, as>>)[Len(q) + 2] = as /\ (r \o <<bm, bs>>)[Len(r) + 2] = bs
          BY <4>4, <4>5, <5>1
        <5>4. Len(q) = Len(r)
          BY <4>3, <4>4, <5>1, <5>2
        <5>5. QED
          BY <4>3, <5>1, <5>3, <5>4
      <4>7. QED
        BY <4>2, <4>6
    <3>3. QED
      BY <3>1, <3>2
  <2>6. look[s[i]].time <= look[s[j]].time
    <3>1. PICK a, b, c, d : /\ a = look[s[j]].time /\ b = Id[s[j]]
                            /\ c = look[s[i]].time /\ d = Id[s[i]]
      OBVIOUS
    <3>2. key[j] = <<a, b>> /\ key[i] = <<c, d>>
      BY <1>1, <3>1
    <3>3. a \in Nat /\ c \in Nat
      BY <2>4, <3>1 DEF Look
    <3>4. a < c => Below(<<a, b>>, <<c, d>>)
      BY DEF Below
    <3>5. QED
      BY <2>2, <3>1, <3>2, <3>3, <3>4
  <2>7. QED
    BY <2>2, <2>3, <2>5, <2>6 DEF Twins
<1>9. QED
  BY <1>5, <1>6, <1>7, <1>8 DEF U

LEMMA GroupsHoldTwins ==
  ASSUME DupInv, TypeOK, report # None
  PROVE  GroupsAreTwins
<1>1. PICK s : s = collected
  OBVIOUS
<1>2. Listed(s) /\ DrivesLook /\ report = Duplicates(s)
  BY <1>1, CollectedIsListed DEF DupInv
<1>3. report.groups = [n \in 1..Cardinality(GroupKeys(s)) |-> OldestFirst(s, MembersOf(s, GroupKey(s, n)))]
  BY <1>2, DuplicatesAre
<1>4. ASSUME NEW n \in DOMAIN report.groups, NEW g, g = report.groups[n]
      PROVE  /\ Len(g) > 1
             /\ \A i \in 2..Len(g) : (g[i] = g[1] \/ Twins(g[1], g[i])) /\ look[g[1]].time <= look[g[i]].time
  <2>1. n \in 1..Cardinality(GroupKeys(s)) /\ g = OldestFirst(s, MembersOf(s, GroupKey(s, n)))
    BY <1>3, <1>4
  <2>2. PICK k : k = GroupKey(s, n)
    OBVIOUS
  <2>3. k \in GroupKeys(s)
    BY <1>2, <2>1, <2>2, GroupKeyFacts
  <2>4. QED
    BY <1>2, <2>1, <2>2, <2>3, MembersAreTwins
<1>5. QED
  BY <1>4 DEF GroupsAreTwins

(* What a group holds falls into one bucket, and its first is the oldest.   *)
THEOREM GroupsHoldOnlyTwins == DupSpec => []GroupsAreTwins
<1>1. DupInv /\ TypeOK => GroupsAreTwins
  BY GroupsHoldTwins DEF GroupsAreTwins
<1>2. QED
  BY <1>1, DupInductive, ToolLists, WalksAreTyped, PTL

-----------------------------------------------------------------------------
(* Nothing passes for unique that is not. *)

LEMMA SameDocumentsMeet ==
  ASSUME DrivesLook, NEW f \in DOMAIN look, NEW g \in DOMAIN look, SameDocument(f, g)
  PROVE  Key(f) = Key(g) /\ (Scannable(f) => Scannable(g))
<1>1. CASE strategy = "checksum"
  BY <1>1 DEF SameDocument, Key, Scannable
<1>2. CASE strategy # "checksum"
  <2>1. strategy = "metadata"
    BY <1>2 DEF DrivesLook
  <2>2. PICK l, m : l = look[f] /\ m = look[g]
    OBVIOUS
  <2>3. l.mime = m.mime /\ l.stem = m.stem /\ l.ext = m.ext /\ l.size = m.size
    BY <1>2, <2>2 DEF SameDocument
  <2>4. /\ l.stem \in Seq(Tokens) /\ l.ext \in Seq(Tokens)
        /\ l.history \in Seq({CopyOf} \cup Endings) /\ m.history \in Seq({CopyOf} \cup Endings)
    <3>1. l \in Look /\ m \in Look
      BY <2>2, KeyTyped
    <3>2. QED
      BY <3>1 DEF Look
  <2>5. /\ Len(l.history) <= MaxRounds /\ Len(m.history) <= MaxRounds
        /\ l.history # <<>> \/ m.history # <<>> => Unmarked(l.stem) /\ WithExtension(l.stem, l.ext)
    BY <2>2, <2>3, CopiesAssumption DEF DrivesLook
  <2>6. Name(f) = Copied(l.stem, l.history) \o l.ext /\ Name(g) = Copied(l.stem, m.history) \o l.ext
    BY <2>2, <2>3 DEF Name
  <2>7. NormalizeTitle(Name(f)) = NormalizeTitle(Name(g))
    <3>1. CASE l.history = m.history
      BY <2>6, <3>1
    <3>2. CASE l.history # m.history
      <4>1. Unmarked(l.stem) /\ WithExtension(l.stem, l.ext)
        BY <2>5, <3>2
      <4>2. NormalizeTitle(Copied(l.stem, l.history) \o l.ext) = Squeezed(l.stem) \o l.ext
        BY <2>4, <2>5, <4>1, CopiesShareTheirTitle
      <4>3. NormalizeTitle(Copied(l.stem, m.history) \o l.ext) = Squeezed(l.stem) \o l.ext
        BY <2>4, <2>5, <4>1, CopiesShareTheirTitle
      <4>4. QED
        BY <2>6, <4>2, <4>3
    <3>3. QED
      BY <3>1, <3>2
  <2>8. SortableTitle(f) = SortableTitle(g)
    BY <2>7, Zenon DEF SortableTitle
  <2>9. Key(f) = Key(g)
    <3>1. Key(f) = SortableTitle(f) \o <<l.mime, l.size>> /\ Key(g) = SortableTitle(g) \o <<m.mime, m.size>>
      BY <1>2, <2>2 DEF Key
    <3>2. QED
      BY <2>3, <2>8, <3>1
  <2>10. QED
    BY <2>1, <2>9 DEF Scannable
<1>3. QED
  BY <1>1, <1>2

LEMMA NothingGetsLost ==
  ASSUME DupInv, TypeOK, CompleteBelowTheCap
  PROVE  NothingIsSilentlyUnique
<1>1. SUFFICES ASSUME Complete, NEW f \in Documents
               PROVE  \/ Grouped(f)
                      \/ \E i \in DOMAIN report.unscannable : report.unscannable[i] = f
                      \/ \A g \in Documents : ~SameDocument(f, g)
  BY DEF NothingIsSilentlyUnique
<1>2. PICK s : s = collected
  OBVIOUS
<1>3. Listed(s) /\ DrivesLook /\ report = Duplicates(s)
  BY <1>1, <1>2, CollectedIsListed DEF DupInv, Complete
<1>4. Collected = Reachable
  BY <1>1 DEF DupInv, Complete, CompleteBelowTheCap
<1>5. \A g \in Documents : \E i \in DocumentsOf(s) : s[i] = g
  BY <1>2, <1>4 DEF Documents, Collected, DocumentsOf
<1>6. \A i \in DocumentsOf(s) : i \in DOMAIN s /\ s[i] \in DOMAIN look
  BY <1>3 DEF DocumentsOf, Listed
<1>7. PICK i \in DocumentsOf(s) : s[i] = f
  BY <1>5
<1>8. /\ report.groups = [n \in 1..Cardinality(GroupKeys(s)) |-> OldestFirst(s, MembersOf(s, GroupKey(s, n)))]
      /\ report.unscannable = ById(s, DocumentsOf(s) \ ScannedOf(s))
  BY <1>3, DuplicatesAre
<1>9. CASE ~ Scannable(f)
  <2>1. PICK U : U = DocumentsOf(s) \ ScannedOf(s)
    OBVIOUS
  <2>2. i \in U /\ U \subseteq DOMAIN s
    BY <1>6, <1>7, <1>9, <2>1 DEF ScannedOf
  <2>3. PICK key : key = [j \in U |-> <<Id[s[j]]>>]
    OBVIOUS
  <2>4. Keys(key) /\ DOMAIN key = U
    BY <1>3, <2>2, <2>3, ByIdKeys DEF Listed
  <2>5. PICK o : o = Ordered(s, key)
    OBVIOUS
  <2>6. Sorts(o, s, key)
    BY <2>4, <2>5, SortedLists
  <2>7. report.unscannable = o
    BY <1>8, <2>1, <2>3, <2>5 DEF ById
  <2>8. \E n \in DOMAIN o : o[n] = s[i]
    BY <2>2, <2>4, <2>6 DEF Sorts
  <2>9. QED
    BY <1>7, <2>7, <2>8
<1>10. CASE Scannable(f)
  <2>1. PICK k, M : k = Key(f) /\ M = MembersOf(s, k)
    OBVIOUS
  <2>2. i \in ScannedOf(s) /\ i \in M
    BY <1>7, <1>10, <2>1 DEF ScannedOf, MembersOf
  <2>3. CASE Cardinality(M) > 1
    <3>1. k \in GroupKeys(s)
      BY <1>7, <2>1, <2>2, <2>3 DEF GroupKeys
    <3>2. PICK n \in 1..Cardinality(GroupKeys(s)) : GroupKey(s, n) = k
      BY <1>3, <3>1, GroupKeyFacts
    <3>3. PICK g : g = OldestFirst(s, MembersOf(s, k))
      OBVIOUS
    <3>4. \E m \in DOMAIN g : g[m] = f
      BY <1>3, <1>7, <2>1, <2>2, <3>1, <3>3, MembersAreTwins
    <3>5. n \in DOMAIN report.groups /\ report.groups[n] = g
      BY <1>8, <3>2, <3>3
    <3>6. QED
      BY <3>4, <3>5 DEF Grouped
  <2>4. CASE ~ (Cardinality(M) > 1)
    <3>1. SUFFICES ASSUME NEW g \in Documents, SameDocument(f, g) PROVE FALSE
      OBVIOUS
    <3>2. PICK j \in DocumentsOf(s) : s[j] = g
      BY <1>5
    <3>3. Key(g) = k /\ Scannable(g)
      BY <1>3, <1>6, <1>7, <1>10, <2>1, <3>1, <3>2, SameDocumentsMeet
    <3>4. j \in M
      BY <2>1, <3>2, <3>3 DEF ScannedOf, MembersOf
    <3>5. i # j
      BY <1>7, <3>1, <3>2 DEF SameDocument
    <3>6. IsFiniteSet(M) /\ Cardinality(M) \in Nat
      <4>1. M \subseteq DOMAIN s
        BY <2>1 DEF MembersOf, ScannedOf, DocumentsOf
      <4>2. IsFiniteSet(M)
        BY <1>3, <4>1, PositionsAreNumbers DEF Listed
      <4>3. QED
        BY <4>2, FS_CardinalityType
    <3>7. Cardinality({i, j}) = 2
      <4>1. IsFiniteSet({i}) /\ Cardinality({i}) = 1
        BY FS_Singleton
      <4>2. Cardinality({i} \cup {j}) = Cardinality({i}) + 1
        BY <3>5, <4>1, FS_AddElement
      <4>3. {i, j} = {i} \cup {j}
        OBVIOUS
      <4>4. QED
        BY <4>1, <4>2, <4>3
    <3>8. Cardinality({i, j}) <= Cardinality(M)
      BY <2>2, <3>4, <3>6, FS_Subset
    <3>9. QED
      BY <2>4, <3>6, <3>7, <3>8
  <2>5. QED
    BY <2>3, <2>4
<1>11. QED
  BY <1>9, <1>10

(* Every document of a folder that fits under the cap is unique, or in a    *)
(* group, or listed as one that nothing can be said about: in any Drive, by *)
(* either strategy, and with copies marked in any order up to four times.   *)
THEOREM CopiesAreFound == DupSpec => []NothingIsSilentlyUnique
<1>1. DupInv /\ TypeOK /\ CompleteBelowTheCap => NothingIsSilentlyUnique
  BY NothingGetsLost
<1>2. QED
  BY <1>1, DupInductive, ToolLists, WalksAreTyped, ShortListingsAreComplete, PTL
=============================================================================
