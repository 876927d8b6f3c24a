--------------------------- MODULE ListFolder_proofs ---------------------------
(***************************************************************************)
(* What a listing holds, for every Drive, cap and depth limit, whatever    *)
(* order Drive answers in: after a move (OneMoveIsHarmless, from ListInv), *)
(* and when it stopped short of the cap, was cut off, or is read from the  *)
(* top (from QuietInv).  What is below a folder is a least fixed point and *)
(* its levels a recursion; that both functions exist, and what they are,   *)
(* is proved by induction over the natural numbers.                        *)
(***************************************************************************)
EXTENDS ListFolder, FiniteSetTheorems, WellFoundedInduction, TLAPS

-----------------------------------------------------------------------------
(* Numbers. *)

Less == {p \in Nat \X Nat : p[1] < p[2]}

(* Less is the order of the naturals as a relation, hence well founded. *)
LEMMA LessIsWellFounded == IsWellFoundedOn(Less, Nat)
<1>1. Less = OpToRel(<, Nat)
  BY DEF OpToRel, Less
<1>2. QED
  BY <1>1, NatLessThanWellFounded, Zenon

(* Every set of numbers that is not empty has a least member. *)
LEMMA LeastNumber ==
  ASSUME NEW T, T \subseteq Nat, T # {}
  PROVE  \E m \in T : \A k \in T : m <= k
<1>1. PICK m \in T : \A y \in T : ~ (<<y, m>> \in Less)
  BY LessIsWellFounded, WFMin
<1>2. ASSUME NEW k \in T PROVE m <= k
  <2>1. <<k, m>> \in Nat \X Nat /\ <<k, m>>[1] = k /\ <<k, m>>[2] = m
    OBVIOUS
  <2>2. ~ (k < m)
    BY <1>1, <2>1 DEF Less
  <2>3. QED
    BY <2>2
<1>3. QED
  BY <1>2

(* Induction: a set that has 0, and with every number the next, has them    *)
(* all.                                                                     *)
LEMMA Induction ==
  ASSUME NEW S, 0 \in S, \A n \in Nat : n \in S => n + 1 \in S
  PROVE  Nat \subseteq S
<1> SUFFICES ASSUME Nat \ S # {} PROVE FALSE
  OBVIOUS
<1>1. PICK m \in Nat \ S : \A k \in Nat \ S : m <= k
  BY LeastNumber
<1>2. m # 0 /\ m - 1 \in Nat /\ m - 1 \in S
  BY <1>1
<1>3. QED
  BY <1>1, <1>2

(* A finite set has a number of members. *)
LEMMA CardinalityIsNat ==
  ASSUME NEW S, IsFiniteSet(S)
  PROVE  Cardinality(S) \in Nat
  BY FS_CardinalityType

(* m different values taken from a finite set: it has m members at least. *)
LEMMA Pigeonhole ==
  ASSUME NEW S, IsFiniteSet(S), NEW m \in Nat, NEW g \in [1 .. m -> S],
         \A i, j \in 1 .. m : g[i] = g[j] => i = j
  PROVE  m <= Cardinality(S)
<1>1. Cardinality(1 .. m) = m
  <2>1. 1 \in Int /\ m \in Int
    OBVIOUS
  <2>2. Cardinality(1 .. m) = IF 1 > m THEN 0 ELSE m - 1 + 1
    BY <2>1, FS_Interval
  <2>3. QED
    BY <2>2
<1>2. g \in Injection(1 .. m, S)
  BY DEF Injection, IsInjective
<1>3. QED
  BY <1>1, <1>2, FS_Injection

-----------------------------------------------------------------------------
(* What lies below a folder. *)

Forest(t) == IsFiniteSet(DOMAIN t) /\ t \in [DOMAIN t -> SUBSET Folders]

Kids(d, t) == {x \in DOMAIN t : d \in t[x]}

(* With its folders, s holds what is in them. *)
IsClosed(s, top, t) == \A x \in DOMAIN t : \A d \in t[x] : d \in {top} \cup s => x \in s

Round(s, top, t) == UNION {Kids(d, t) : d \in {top} \cup (s \cap Folders)}

IsRounds(g, n, top, t) == g = [k \in 0 .. n |-> IF k = 0 THEN {} ELSE Round(g[k - 1], top, t)]

(* A function that gathers for n rounds exists ... *)
LEMMA RoundsExist ==
  ASSUME NEW top, NEW t, NEW n \in Nat
  PROVE  \E g : IsRounds(g, n, top, t)
<1> DEFINE S == {k \in Nat : \E g : IsRounds(g, k, top, t)}
<1>1. 0 \in S
  <2>1. IsRounds([i \in 0 .. 0 |-> {}], 0, top, t)
    BY DEF IsRounds
  <2>2. QED
    BY <2>1
<1>2. ASSUME NEW k \in Nat, k \in S PROVE k + 1 \in S
  <2>1. PICK g : IsRounds(g, k, top, t)
    BY <1>2
  <2> DEFINE h == [i \in 0 .. k + 1 |-> IF i = k + 1 THEN Round(g[k], top, t) ELSE g[i]]
  <2>2. ASSUME NEW i \in 0 .. k + 1
        PROVE  h[i] = IF i = 0 THEN {} ELSE Round(h[i - 1], top, t)
    <3>1. CASE i = k + 1
      BY <3>1
    <3>2. CASE i # k + 1
      <4>1. i \in 0 .. k /\ h[i] = g[i] /\ (i # 0 => h[i - 1] = g[i - 1])
        BY <3>2
      <4>2. g[i] = IF i = 0 THEN {} ELSE Round(g[i - 1], top, t)
        BY <2>1, <4>1 DEF IsRounds
      <4>3. QED
        BY <4>1, <4>2
    <3>3. QED
      BY <3>1, <3>2
  <2>3. h = [i \in 0 .. k + 1 |-> IF i = 0 THEN {} ELSE Round(h[i - 1], top, t)]
    BY <2>2
  <2>4. IsRounds(h, k + 1, top, t)
    BY <2>3 DEF IsRounds
  <2>5. QED
    BY <2>4
<1>3. Nat \subseteq S
  BY <1>1, <1>2, Induction
<1>4. QED
  BY <1>3

(* ... and Under is where one arrives. *)
UnderOf(top, t) ==
  LET under[n \in 0..Cardinality(DOMAIN t)] ==
        IF n = 0 THEN {} ELSE UNION {Kids(f, t) : f \in {top} \cup (under[n - 1] \cap Folders)}
  IN under[Cardinality(DOMAIN t)]

LEMMA UnderIsUnderOf == \A d : Under(d) = UnderOf(d, tree)
  BY DEF Under, UnderOf, ChildrenOf, Kids

LEMMA UnderByRounds ==
  ASSUME NEW top, NEW t, IsFiniteSet(DOMAIN t)
  PROVE  \E g : /\ g[0] = {}
                /\ \A k \in 1 .. Cardinality(DOMAIN t) : g[k] = Round(g[k - 1], top, t)
                /\ UnderOf(top, t) = g[Cardinality(DOMAIN t)]
<1> DEFINE N == Cardinality(DOMAIN t)
<1>1. N \in Nat
  BY CardinalityIsNat
<1> HIDE DEF N
<1>2. PICK h : IsRounds(h, N, top, t)
  BY <1>1, RoundsExist
<1> DEFINE g == CHOOSE g : IsRounds(g, N, top, t)
<1>3. IsRounds(g, N, top, t)
  BY <1>2
<1>4. UnderOf(top, t) = g[N]
  BY DEF UnderOf, IsRounds, Round, N
<1> HIDE DEF g
<1>5. g[0] = {} /\ \A k \in 1 .. N : g[k] = Round(g[k - 1], top, t)
  <2>1. \A k \in 0 .. N : g[k] = IF k = 0 THEN {} ELSE Round(g[k - 1], top, t)
    BY <1>3 DEF IsRounds
  <2>2. QED
    BY <1>1, <2>1
<1>6. QED
  BY <1>4, <1>5 DEF N

(* Rounds gather, and end with all there is: each that is not the last      *)
(* finds a file that the one before had not.                                *)
LEMMA UnderIsClosed ==
  ASSUME NEW top, NEW t, Forest(t)
  PROVE  UnderOf(top, t) \subseteq DOMAIN t /\ IsClosed(UnderOf(top, t), top, t)
<1> DEFINE N == Cardinality(DOMAIN t)
<1>0. IsFiniteSet(DOMAIN t) /\ t \in [DOMAIN t -> SUBSET Folders]
  BY DEF Forest
<1>1. N \in Nat
  BY <1>0, CardinalityIsNat
<1>2. PICK g : /\ g[0] = {}
               /\ \A k \in 1 .. N : g[k] = Round(g[k - 1], top, t)
               /\ UnderOf(top, t) = g[N]
  BY <1>0, UnderByRounds
<1> HIDE DEF N
<1>3. ASSUME NEW k \in 0 .. N, k # N PROVE k + 1 \in 1 .. N /\ g[k + 1] = Round(g[k], top, t)
  <2>1. k + 1 \in 1 .. N /\ (k + 1) - 1 = k
    BY <1>1, <1>3
  <2>2. QED
    BY <1>2, <2>1
<1> DEFINE P(k) == /\ g[k] \subseteq DOMAIN t
                   /\ k # N => g[k] \subseteq g[k + 1]
                   /\ IsClosed(g[k], top, t) \/ k <= Cardinality(g[k])
           S == {k \in Nat : k <= N => P(k)}
<1>4. 0 \in S
  BY <1>2, CardinalityIsNat, FS_EmptySet
<1>5. ASSUME NEW k \in Nat, k \in S PROVE k + 1 \in S
  <2> SUFFICES ASSUME k + 1 <= N PROVE P(k + 1)
    OBVIOUS
  <2>1. k \in 0 .. N /\ k # N /\ k + 1 \in 1 .. N
    BY <1>1
  <2>2. g[k] \subseteq DOMAIN t /\ g[k] \subseteq g[k + 1]
    BY <1>1, <1>5, <2>1
  <2>3. g[k + 1] = Round(g[k], top, t)
    BY <1>3, <2>1
  <2>4. g[k + 1] \subseteq DOMAIN t
    BY <2>3 DEF Round, Kids
  <2>5. ASSUME k + 1 # N PROVE g[k + 1] \subseteq g[k + 2]
    <3>1. g[k + 2] = Round(g[k + 1], top, t)
      <4>1. k + 1 \in 0 .. N /\ (k + 1) + 1 = k + 2
        BY <2>1
      <4>2. QED
        BY <1>3, <2>5, <4>1
    <3>2. QED
      BY <2>2, <2>3, <3>1 DEF Round
  <2>6. IsClosed(g[k + 1], top, t) \/ k + 1 <= Cardinality(g[k + 1])
    <3>1. CASE IsClosed(g[k], top, t)
      <4>1. g[k + 1] \subseteq g[k]
        BY <2>3, <3>1, <1>0 DEF Round, Kids, IsClosed
      <4>2. g[k + 1] = g[k]
        BY <2>2, <4>1
      <4>3. QED
        BY <3>1, <4>2
    <3>2. CASE ~ IsClosed(g[k], top, t)
      <4>1. PICK x \in DOMAIN t : \E d \in t[x] : d \in {top} \cup g[k] /\ x \notin g[k]
        BY <3>2 DEF IsClosed
      <4>2. PICK d \in t[x] : d \in {top} \cup g[k] /\ x \notin g[k]
        BY <4>1
      <4>3. d \in Folders
        BY <1>0
      <4>4. x \in g[k + 1]
        BY <2>3, <4>2, <4>3 DEF Round, Kids
      <4>5. k <= Cardinality(g[k])
        BY <1>1, <1>5, <2>1, <3>2
      <4>6. IsFiniteSet(g[k]) /\ IsFiniteSet(g[k + 1])
        BY <1>0, <2>2, <2>4, FS_Subset
      <4>7. /\ Cardinality(g[k]) <= Cardinality(g[k + 1])
            /\ Cardinality(g[k + 1]) # Cardinality(g[k])
        BY <2>2, <4>2, <4>4, <4>6, FS_Subset
      <4>8. Cardinality(g[k]) \in Nat /\ Cardinality(g[k + 1]) \in Nat
        BY <4>6, CardinalityIsNat
      <4>9. QED
        BY <4>5, <4>7, <4>8
    <3>3. QED
      BY <3>1, <3>2
  <2>7. QED
    BY <2>4, <2>5, <2>6
<1>6. Nat \subseteq S
  <2> HIDE DEF S
  <2>1. QED
    BY <1>4, <1>5, Induction
<1>7. P(N)
  BY <1>1, <1>6
<1>8. g[N] \subseteq DOMAIN t
  BY <1>7
<1>9. ASSUME ~ IsClosed(g[N], top, t) PROVE FALSE
  <2>1. N <= Cardinality(g[N])
    BY <1>7, <1>9
  <2>2. Cardinality(g[N]) <= N /\ IsFiniteSet(g[N]) /\ (Cardinality(g[N]) = N => g[N] = DOMAIN t)
    BY <1>0, <1>8, FS_Subset DEF N
  <2>3. g[N] = DOMAIN t
    BY <1>1, <2>1, <2>2, CardinalityIsNat
  <2>4. QED
    BY <1>9, <2>3 DEF IsClosed
<1>10. QED
  BY <1>2, <1>8, <1>9

(* Whatever is closed holds it. *)
LEMMA UnderIsLeast ==
  ASSUME NEW top, NEW t, IsFiniteSet(DOMAIN t), NEW s, IsClosed(s, top, t)
  PROVE  UnderOf(top, t) \subseteq s
<1> DEFINE N == Cardinality(DOMAIN t)
<1>1. N \in Nat
  BY CardinalityIsNat
<1>2. PICK g : /\ g[0] = {}
               /\ \A k \in 1 .. N : g[k] = Round(g[k - 1], top, t)
               /\ UnderOf(top, t) = g[N]
  BY UnderByRounds
<1> HIDE DEF N
<1> DEFINE S == {k \in Nat : k <= N => g[k] \subseteq s}
<1>3. 0 \in S
  BY <1>2
<1>4. ASSUME NEW k \in Nat, k \in S PROVE k + 1 \in S
  <2> SUFFICES ASSUME k + 1 <= N PROVE g[k + 1] \subseteq s
    OBVIOUS
  <2>1. k + 1 \in 1 .. N /\ (k + 1) - 1 = k /\ g[k] \subseteq s
    BY <1>1, <1>4
  <2>2. g[k + 1] = Round(g[k], top, t)
    BY <1>2, <2>1
  <2>3. QED
    BY <2>1, <2>2 DEF Round, Kids, IsClosed
<1>5. Nat \subseteq S
  BY <1>3, <1>4, Induction
<1>6. QED
  BY <1>1, <1>2, <1>5

(* What an owner moves takes along what is in it, and leaves the rest.      *)
LEMMA MoveLosesASubtree ==
  ASSUME NEW top, NEW t, Forest(t), NEW u, Forest(u), DOMAIN u = DOMAIN t,
         NEW f, \A x \in DOMAIN t : x # f => u[x] = t[x]
  PROVE  UnderOf(top, t) \subseteq UnderOf(top, u) \cup {f} \cup UnderOf(f, t)
<1> DEFINE s == UnderOf(top, u) \cup {f} \cup UnderOf(f, t)
<1>1. IsClosed(UnderOf(top, u), top, u)
  BY UnderIsClosed
<1>2. IsClosed(UnderOf(f, t), f, t)
  BY UnderIsClosed
<1>3. IsClosed(s, top, t)
  BY <1>1, <1>2 DEF IsClosed
<1>4. QED
  <2> HIDE DEF s
  <2>1. UnderOf(top, t) \subseteq s
    BY <1>3, UnderIsLeast DEF Forest
  <2>2. QED
    BY <2>1 DEF s

-----------------------------------------------------------------------------
(* One turn of the loop. *)

(* Two sequences, one behind the other. *)
LEMMA Joined ==
  ASSUME NEW D, NEW a \in Seq(D), NEW b \in Seq(D)
  PROVE  /\ a \o b \in Seq(D) /\ Len(a \o b) = Len(a) + Len(b)
         /\ \A i \in 1 .. Len(a) : (a \o b)[i] = a[i]
         /\ \A i \in 1 .. Len(b) : (a \o b)[Len(a) + i] = b[i]
  OBVIOUS

(* What the pages have brought so far: of the files that stayed, children   *)
(* of the folder that is walked, each once.                                 *)
ListedOnce ==
  /\ listed \in Seq(DOMAIN tree) /\ Len(listed) <= cap
  /\ \A i, j \in 1 .. Len(listed) : i # j => listed[i] # listed[j]
  /\ \A i \in 1 .. Len(listed) : listed[i] \in moved \cup ChildrenOf(Head(queue).folder)
  /\ shifted \subseteq moved

(* A page and those before it, when what is new is a child.                 *)
WithPage(s, f) ==
  /\ s \in Seq(DOMAIN tree) /\ Len(s) \in Nat /\ Len(s) <= cap
  /\ \A i, j \in 1 .. Len(s) : i # j => s[i] # s[j]
  /\ \A i \in 1 .. Len(s) : (i \in 1 .. Len(listed) /\ s[i] = listed[i]) \/ s[i] \in ChildrenOf(f)

(* Together they have each file once, and no more than are asked for.       *)
LEMMA PagesExtend ==
  ASSUME ListedOnce, cap \in Nat, NEW f, NEW page \in Pages(f)
  PROVE  WithPage(listed \o page, f)
<1>0. /\ listed \in Seq(DOMAIN tree) /\ Len(listed) <= cap
      /\ \A i, j \in 1 .. Len(listed) : i # j => listed[i] # listed[j]
  BY DEF ListedOnce
<1> SUFFICES ASSUME NEW s, s = listed \o page PROVE WithPage(s, f)
  OBVIOUS
<1> DEFINE old == {listed[i] : i \in DOMAIN listed}
           left == ChildrenOf(f) \ old
           r == Least(cap - Len(listed), PageSize)
<1>1. Len(listed) \in Nat /\ DOMAIN listed = 1 .. Len(listed) /\ r \in Nat /\ r <= cap - Len(listed)
  BY <1>0, ListAssumption DEF Least
<1>2. PICK n \in 0 .. r : page \in [1 .. n -> left]
  BY DEF Pages
<1>3. \A i, j \in DOMAIN page : i # j => page[i] # page[j]
  BY DEF Pages
<1> HIDE DEF r, left
<1>4. n \in Nat /\ n <= cap - Len(listed) /\ page \in Seq(left) /\ Len(page) = n /\ DOMAIN page = 1 .. n
  BY <1>1, <1>2
<1>5. left \subseteq DOMAIN tree /\ left \subseteq ChildrenOf(f)
  BY DEF left, ChildrenOf
<1>6. page \in Seq(DOMAIN tree)
  BY <1>4, <1>5
<1>7. /\ s \in Seq(DOMAIN tree) /\ Len(s) = Len(listed) + n
      /\ \A i \in 1 .. Len(listed) : s[i] = listed[i]
      /\ \A i \in 1 .. n : s[Len(listed) + i] = page[i]
  <2>1. listed \o page \in Seq(DOMAIN tree) /\ Len(listed \o page) = Len(listed) + Len(page)
    BY <1>0, <1>6, Joined
  <2>2. /\ \A i \in 1 .. Len(listed) : (listed \o page)[i] = listed[i]
        /\ \A i \in 1 .. Len(page) : (listed \o page)[Len(listed) + i] = page[i]
    BY <1>0, <1>6, Joined
  <2>3. QED
    BY <1>4, <2>1, <2>2
<1>8. ASSUME NEW i \in 1 .. Len(s)
      PROVE  \/ i \in 1 .. Len(listed) /\ s[i] = listed[i]
             \/ i - Len(listed) \in 1 .. n /\ s[i] = page[i - Len(listed)] /\ s[i] \in left
  <2>1. CASE i <= Len(listed)
    BY <1>1, <1>7, <2>1
  <2>2. CASE i > Len(listed)
    <3>1. i - Len(listed) \in 1 .. n /\ Len(listed) + (i - Len(listed)) = i
      BY <1>1, <1>4, <1>7, <2>2
    <3>2. s[Len(listed) + (i - Len(listed))] = page[i - Len(listed)]
      BY <1>7, <3>1
    <3>3. QED
      BY <1>2, <3>1, <3>2
  <2>3. QED
    BY <1>1, <1>4, <1>7, <2>1, <2>2
<1>9. ASSUME NEW i \in 1 .. Len(listed) PROVE listed[i] \notin left
  BY <1>1 DEF left
<1>10. ASSUME NEW i \in 1 .. Len(s), NEW j \in 1 .. Len(s), i # j PROVE s[i] # s[j]
  <2>1. CASE i \in 1 .. Len(listed) /\ s[i] = listed[i]
    <3>1. CASE j \in 1 .. Len(listed) /\ s[j] = listed[j]
      BY <1>0, <1>10, <2>1, <3>1
    <3>2. CASE s[j] \in left
      BY <1>9, <2>1, <3>2
    <3>3. QED
      BY <1>8, <3>1, <3>2
  <2>2. CASE i - Len(listed) \in 1 .. n /\ s[i] = page[i - Len(listed)] /\ s[i] \in left
    <3>1. CASE j \in 1 .. Len(listed) /\ s[j] = listed[j]
      BY <1>9, <2>2, <3>1
    <3>2. CASE j - Len(listed) \in 1 .. n /\ s[j] = page[j - Len(listed)]
      <4>1. i - Len(listed) # j - Len(listed)
        BY <1>1, <1>4, <1>7, <1>10
      <4>2. QED
        BY <1>3, <1>4, <2>2, <3>2, <4>1
    <3>3. QED
      BY <1>8, <3>1, <3>2
  <2>3. QED
    BY <1>8, <2>1, <2>2
<1>11. QED
  <2>1. \A i \in 1 .. Len(s) : (i \in 1 .. Len(listed) /\ s[i] = listed[i]) \/ s[i] \in ChildrenOf(f)
    BY <1>5, <1>8
  <2>2. Len(s) \in Nat /\ Len(s) <= cap
    BY <1>1, <1>4, <1>7
  <2>3. QED
    BY <1>7, <1>10, <2>1, <2>2 DEF WithPage

Entry == [folder : Folders, depth : Nat]

(* The loop over what was found, as a function. *)
IsQueued(g, n, rest, found, depth) ==
  g = [k \in 0 .. n |->
         IF k = 0 THEN rest
         ELSE IF Descends(found[k], depth)
              THEN Append(g[k - 1], [folder |-> found[k], depth |-> depth + 1])
              ELSE g[k - 1]]

LEMMA QueuedExists ==
  ASSUME NEW rest, NEW found, NEW depth, NEW n \in Nat
  PROVE  \E g : IsQueued(g, n, rest, found, depth)
<1> DEFINE Then(q, k) == IF Descends(found[k], depth)
                         THEN Append(q, [folder |-> found[k], depth |-> depth + 1])
                         ELSE q
           S == {k \in Nat : \E g : IsQueued(g, k, rest, found, depth)}
<1>1. \A g, k : IsQueued(g, k, rest, found, depth)
        <=> g = [i \in 0 .. k |-> IF i = 0 THEN rest ELSE Then(g[i - 1], i)]
  BY DEF IsQueued
<1> HIDE DEF Then
<1>2. 0 \in S
  <2>1. [i \in 0 .. 0 |-> rest] = [i \in 0 .. 0 |-> IF i = 0 THEN rest ELSE Then([j \in 0 .. 0 |-> rest][i - 1], i)]
    OBVIOUS
  <2>2. QED
    BY <1>1, <2>1
<1>3. ASSUME NEW k \in Nat, k \in S PROVE k + 1 \in S
  <2>1. PICK g : g = [i \in 0 .. k |-> IF i = 0 THEN rest ELSE Then(g[i - 1], i)]
    BY <1>1, <1>3
  <2> DEFINE h == [i \in 0 .. k + 1 |-> IF i = k + 1 THEN Then(g[k], k + 1) ELSE g[i]]
  <2>2. ASSUME NEW i \in 0 .. k + 1
        PROVE  h[i] = IF i = 0 THEN rest ELSE Then(h[i - 1], i)
    <3>1. CASE i = k + 1
      BY <3>1
    <3>2. CASE i # k + 1
      <4>1. i \in 0 .. k /\ h[i] = g[i] /\ (i # 0 => h[i - 1] = g[i - 1])
        BY <3>2
      <4>2. g[i] = IF i = 0 THEN rest ELSE Then(g[i - 1], i)
        BY <2>1, <4>1
      <4>3. QED
        BY <4>1, <4>2
    <3>3. QED
      BY <3>1, <3>2
  <2>3. h = [i \in 0 .. k + 1 |-> IF i = 0 THEN rest ELSE Then(h[i - 1], i)]
    BY <2>2
  <2>4. IsQueued(h, k + 1, rest, found, depth)
    BY <1>1, <2>3
  <2>5. QED
    BY <2>4
<1>4. Nat \subseteq S
  BY <1>2, <1>3, Induction
<1>5. QED
  BY <1>4

(* The new end of a queue: the folders among the found that are walked, and *)
(* all of them, each once, a level further down.                            *)
Lengthens(q, rest, found, n, depth) ==
  /\ q \in Seq(Entry) /\ Len(rest) <= Len(q)
  /\ \A i \in 1 .. Len(rest) : q[i] = rest[i]
  /\ \A i \in Len(rest) + 1 .. Len(q) :
       q[i].depth = depth + 1 /\ \E j \in 1 .. n : q[i].folder = found[j] /\ Descends(found[j], depth)
  /\ \A j \in 1 .. n : Descends(found[j], depth) => \E i \in Len(rest) + 1 .. Len(q) : q[i].folder = found[j]
  /\ \A i, j \in Len(rest) + 1 .. Len(q) : q[i].folder = q[j].folder => i = j

LEMMA QueueLengthens ==
  ASSUME NEW rest \in Seq(Entry), NEW C, NEW found \in Seq(C), NEW depth \in Nat,
         \A i, j \in 1 .. Len(found) : i # j => found[i] # found[j]
  PROVE  Lengthens(Enqueued(rest, found, depth), rest, found, Len(found), depth)
<1> DEFINE N == Len(found)
           g == CHOOSE g : IsQueued(g, N, rest, found, depth)
<1>1. N \in Nat
  OBVIOUS
<1>2. IsQueued(g, N, rest, found, depth)
  BY <1>1, QueuedExists
<1>3. Enqueued(rest, found, depth) = g[N]
  BY DEF Enqueued, IsQueued
<1> HIDE DEF g
<1>4. \A k \in 0 .. N :
        g[k] = IF k = 0 THEN rest
               ELSE IF Descends(found[k], depth)
                    THEN Append(g[k - 1], [folder |-> found[k], depth |-> depth + 1])
                    ELSE g[k - 1]
  BY <1>2 DEF IsQueued
<1> DEFINE S == {k \in Nat : k <= N => Lengthens(g[k], rest, found, k, depth)}
<1>5. 0 \in S
  <2>1. 0 \in 0 .. N
    BY <1>1
  <2>2. g[0] = rest
    BY <1>4, <2>1
  <2>3. QED
    BY <2>2 DEF Lengthens
<1>6. ASSUME NEW k \in Nat, k \in S PROVE k + 1 \in S
  <2> SUFFICES ASSUME k + 1 <= N PROVE Lengthens(g[k + 1], rest, found, k + 1, depth)
    OBVIOUS
  <2>1. k \in 0 .. N /\ k + 1 \in 0 .. N /\ (k + 1) - 1 = k /\ k + 1 # 0
    BY <1>1
  <2>2. Lengthens(g[k], rest, found, k, depth)
    BY <1>1, <1>6, <2>1
  <2>3. CASE ~ Descends(found[k + 1], depth)
    <3>1. g[k + 1] = g[k]
      BY <1>4, <2>1, <2>3
    <3>2. QED
      BY <2>2, <2>3, <3>1 DEF Lengthens
  <2>4. CASE Descends(found[k + 1], depth)
    <3> DEFINE e == [folder |-> found[k + 1], depth |-> depth + 1]
    <3>1. g[k + 1] = Append(g[k], e)
      BY <1>4, <2>1, <2>4
    <3>2. e \in Entry /\ e.folder = found[k + 1] /\ e.depth = depth + 1
      BY <2>4 DEF Entry, Descends
    <3>3. g[k] \in Seq(Entry) /\ Len(rest) <= Len(g[k]) /\ Len(rest) \in Nat
      BY <2>2 DEF Lengthens
    <3> DEFINE q == g[k + 1]
               m == Len(g[k])
    <3> HIDE DEF e
    <3>4. /\ m \in Nat /\ q \in Seq(Entry) /\ Len(q) = m + 1 /\ q[m + 1] = e
          /\ \A i \in 1 .. m : q[i] = g[k][i]
      BY <3>1, <3>2, <3>3
    <3>5. \A i \in 1 .. Len(rest) : q[i] = rest[i]
      BY <2>2, <3>3, <3>4 DEF Lengthens
    <3>6. ASSUME NEW i \in Len(rest) + 1 .. m + 1
          PROVE  /\ q[i].depth = depth + 1
                 /\ \E j \in 1 .. k + 1 : q[i].folder = found[j] /\ Descends(found[j], depth)
      <4>1. CASE i = m + 1
        BY <2>4, <3>2, <3>4, <4>1
      <4>2. CASE i # m + 1
        <5>1. i \in Len(rest) + 1 .. m /\ q[i] = g[k][i]
          BY <3>3, <3>4, <4>2
        <5>2. QED
          BY <2>2, <5>1 DEF Lengthens
      <4>3. QED
        BY <4>1, <4>2
    <3>7. ASSUME NEW j \in 1 .. k + 1, Descends(found[j], depth)
          PROVE  \E i \in Len(rest) + 1 .. m + 1 : q[i].folder = found[j]
      <4>1. CASE j = k + 1
        <5>1. m + 1 \in Len(rest) + 1 .. m + 1
          BY <3>3, <3>4
        <5>2. QED
          BY <3>2, <3>4, <4>1, <5>1
      <4>2. CASE j # k + 1
        <5>1. PICK i \in Len(rest) + 1 .. m : g[k][i].folder = found[j]
          BY <2>2, <3>7, <4>2 DEF Lengthens
        <5>2. i \in Len(rest) + 1 .. m + 1 /\ i \in 1 .. m
          BY <3>3, <3>4
        <5>3. QED
          BY <3>4, <5>1, <5>2
      <4>3. QED
        BY <4>1, <4>2
    <3>8. ASSUME NEW i \in Len(rest) + 1 .. m PROVE q[i].folder # found[k + 1]
      <4>1. PICK j \in 1 .. k : g[k][i].folder = found[j]
        BY <2>2 DEF Lengthens
      <4>2. j \in 1 .. N /\ k + 1 \in 1 .. N /\ j # k + 1
        BY <1>1, <2>1
      <4>3. i \in 1 .. m
        BY <3>3, <3>4
      <4>4. QED
        BY <3>4, <4>1, <4>2, <4>3
    <3>9. ASSUME NEW i \in Len(rest) + 1 .. m + 1, NEW j \in Len(rest) + 1 .. m + 1, q[i].folder = q[j].folder
          PROVE  i = j
      <4>1. CASE i = m + 1 \/ j = m + 1
        <5>1. i = m + 1 => j = m + 1
          BY <3>2, <3>3, <3>4, <3>8, <3>9
        <5>2. j = m + 1 => i = m + 1
          BY <3>2, <3>3, <3>4, <3>8, <3>9
        <5>3. QED
          BY <4>1, <5>1, <5>2
      <4>2. CASE i # m + 1 /\ j # m + 1
        <5>1. i \in Len(rest) + 1 .. m /\ j \in Len(rest) + 1 .. m /\ i \in 1 .. m /\ j \in 1 .. m
          BY <3>3, <3>4, <4>2
        <5>2. q[i] = g[k][i] /\ q[j] = g[k][j]
          BY <3>4, <5>1
        <5>3. QED
          BY <2>2, <3>9, <5>1, <5>2 DEF Lengthens
      <4>3. QED
        BY <4>1, <4>2
    <3>10. QED
      BY <3>3, <3>4, <3>5, <3>6, <3>7, <3>9 DEF Lengthens
  <2>5. QED
    BY <2>3, <2>4
<1>7. Nat \subseteq S
  <2> HIDE DEF S
  <2>1. QED
    BY <1>5, <1>6, Induction
<1>8. QED
  BY <1>1, <1>3, <1>7

-----------------------------------------------------------------------------
(* The walk, and what it may have seen. *)

TypeOK ==
  /\ Forest(tree)
  /\ recursive \in BOOLEAN /\ cap \in Nat
  /\ queue \in Seq(Entry)
  /\ collected \in Seq(DOMAIN tree) /\ Len(collected) <= cap
  /\ seen \subseteq Folders
  /\ truncated \in BOOLEAN
  /\ pc \in {"walk", "done", "failed"}
  /\ moves \in Nat
  /\ moved \subseteq DOMAIN tree /\ ever \subseteq DOMAIN tree
  /\ ListedOnce

(* One turn: Drive's answers, and as much of them as there is room for. *)
Turn(children, found) ==
  LET room == cap - Len(collected)
  IN /\ pc = "walk" /\ queue # <<>>
     /\ \E page \in Pages(Head(queue).folder) : children = listed \o page
     /\ Len(children) = cap \/ LastPage(children)
     /\ found = SubSeq(children, 1, Least(room, Len(children)))
     /\ collected' = collected \o found
     /\ queue' = Enqueued(Tail(queue), found, Head(queue).depth)
     /\ seen' = seen \cup {queue'[i].folder : i \in DOMAIN queue'}
     /\ truncated' = Overflows(Len(children), room)
     /\ pc' = IF truncated' THEN "done" ELSE "walk"
     /\ listed' = <<>> /\ shifted' = {}
     /\ UNCHANGED <<tree, recursive, cap, owner>>

LEMMA VisitIsTurn ==
  ASSUME Visit
  PROVE  \E children, found : Turn(children, found)
  BY DEF Visit, Turn

LEMMA TurnFacts ==
  ASSUME TypeOK, NEW children, NEW found, Turn(children, found)
  PROVE  /\ Head(queue) = queue[1] /\ queue[1] \in Entry /\ 1 \in DOMAIN queue
         /\ Tail(queue) \in Seq(Entry) /\ Len(queue) \in Nat /\ Len(Tail(queue)) = Len(queue) - 1
         /\ \A i \in 1 .. Len(queue) - 1 : Tail(queue)[i] = queue[i + 1]
         /\ children \in Seq(DOMAIN tree) /\ Len(children) \in Nat /\ Len(children) <= cap
         /\ \A i, j \in 1 .. Len(children) : i # j => children[i] # children[j]
         /\ \A i \in 1 .. Len(children) :
              children[i] \in {listed[j] : j \in 1 .. Len(listed)} \cup ChildrenOf(queue[1].folder)
         /\ \A i \in 1 .. Len(children) : children[i] \in moved \cup ChildrenOf(queue[1].folder)
         /\ \/ Len(children) = cap
            \/ \A x \in ChildrenOf(queue[1].folder) \ moved : \E j \in 1 .. Len(children) : children[j] = x
         /\ found \in Seq(DOMAIN tree)
         /\ Len(found) = Least(cap - Len(collected), Len(children))
         /\ \A i \in 1 .. Len(found) : i \in 1 .. Len(children) /\ found[i] = children[i]
         /\ \A i, j \in 1 .. Len(found) : i # j => found[i] # found[j]
         /\ Lengthens(queue', Tail(queue), found, Len(found), queue[1].depth)
<1> DEFINE C == ChildrenOf(queue[1].folder)
           r == cap - Len(collected)
<1>1. queue \in Seq(Entry) /\ queue # <<>> /\ cap \in Nat /\ r \in Nat
  BY DEF TypeOK, Turn
<1>2. /\ Head(queue) = queue[1] /\ queue[1] \in Entry /\ 1 \in DOMAIN queue
      /\ Tail(queue) \in Seq(Entry) /\ Len(queue) \in Nat /\ Len(Tail(queue)) = Len(queue) - 1
      /\ \A i \in 1 .. Len(queue) - 1 : Tail(queue)[i] = queue[i + 1]
  BY <1>1
<1>3. PICK page \in Pages(queue[1].folder) : children = listed \o page
  BY <1>2 DEF Turn
<1>4. /\ children \in Seq(DOMAIN tree) /\ Len(children) \in Nat /\ Len(children) <= cap
      /\ \A i, j \in 1 .. Len(children) : i # j => children[i] # children[j]
      /\ \A i \in 1 .. Len(children) :
           (i \in 1 .. Len(listed) /\ children[i] = listed[i]) \/ children[i] \in ChildrenOf(queue[1].folder)
  <2>1. WithPage(children, queue[1].folder)
    BY <1>1, <1>3, PagesExtend DEF TypeOK
  <2>2. QED
    BY <2>1 DEF WithPage
<1>5. \A i \in 1 .. Len(listed) : listed[i] \in moved \cup C
  BY <1>2 DEF TypeOK, ListedOnce
<1>6. /\ \A i \in 1 .. Len(children) : children[i] \in {listed[j] : j \in 1 .. Len(listed)} \cup C
      /\ \A i \in 1 .. Len(children) : children[i] \in moved \cup C
  BY <1>4, <1>5
<1>7. Len(children) = cap \/ \A x \in C \ moved : \E j \in 1 .. Len(children) : children[j] = x
  <2>1. DOMAIN children = 1 .. Len(children) /\ shifted \subseteq moved
    BY <1>4 DEF TypeOK, ListedOnce
  <2>2. Len(children) = cap \/ LastPage(children)
    BY DEF Turn
  <2>3. LastPage(children) => C \ shifted \subseteq {children[i] : i \in DOMAIN children}
    BY <1>2 DEF LastPage
  <2> HIDE DEF C
  <2>4. QED
    BY <2>1, <2>2, <2>3
<1>8. Least(r, Len(children)) \in 0 .. Len(children)
  BY <1>1, <1>4 DEF Least
<1>9. found = SubSeq(children, 1, Least(r, Len(children)))
  BY DEF Turn
<1> HIDE DEF C, r
<1>10. /\ found \in Seq(DOMAIN tree) /\ Len(found) = Least(r, Len(children))
       /\ \A i \in 1 .. Len(found) : i \in 1 .. Len(children) /\ found[i] = children[i]
  BY <1>4, <1>8, <1>9
<1>11. \A i, j \in 1 .. Len(found) : i # j => found[i] # found[j]
  BY <1>4, <1>8, <1>10
<1>12. queue[1].depth \in Nat
  BY <1>2 DEF Entry
<1>13. queue' = Enqueued(Tail(queue), found, queue[1].depth)
  BY <1>2 DEF Turn
<1>14. Lengthens(queue', Tail(queue), found, Len(found), queue[1].depth)
  <2>1. Lengthens(Enqueued(Tail(queue), found, queue[1].depth), Tail(queue), found, Len(found), queue[1].depth)
    BY <1>2, <1>10, <1>11, <1>12, QueueLengthens
  <2>2. QED
    BY <1>13, <2>1
<1>15. QED
  BY <1>2, <1>4, <1>6, <1>7, <1>10, <1>11, <1>14 DEF C, r

(* Whatever is queued after a turn was queued before, or was found. *)
LEMMA QueuedFolders ==
  ASSUME NEW q, NEW rest \in Seq(Entry), NEW found, NEW n \in Nat, NEW depth, Lengthens(q, rest, found, n, depth),
         NEW i \in DOMAIN q
  PROVE  \/ i \in DOMAIN rest /\ q[i] = rest[i]
         \/ /\ i \in Len(rest) + 1 .. Len(q) /\ q[i].depth = depth + 1
            /\ \E j \in 1 .. n : q[i].folder = found[j] /\ Descends(found[j], depth)
<1>1. q \in Seq(Entry)
  BY DEF Lengthens
<1>2. i \in 1 .. Len(q) /\ Len(rest) \in Nat /\ DOMAIN rest = 1 .. Len(rest)
  BY <1>1
<1>3. CASE i <= Len(rest)
  BY <1>2, <1>3 DEF Lengthens
<1>4. CASE i > Len(rest)
  <2>1. i \in Len(rest) + 1 .. Len(q)
    BY <1>1, <1>2, <1>4
  <2>2. QED
    BY <2>1 DEF Lengthens
<1>5. QED
  BY <1>2, <1>3, <1>4

LEMMA InitIsTyped ==
  ASSUME Init
  PROVE  TypeOK
<1>1. Forest(tree) /\ cap \in Nat /\ recursive \in BOOLEAN
  BY ListAssumption DEF Init, Forest
<1>2. [folder |-> Top, depth |-> 0] \in Entry
  BY ListAssumption DEF Entry
<1>3. queue \in Seq(Entry)
  BY <1>2 DEF Init
<1>4. ever \subseteq DOMAIN tree
  BY <1>1, UnderIsClosed, UnderIsUnderOf DEF Init
<1>5. collected \in Seq(DOMAIN tree) /\ Len(collected) <= cap
  BY <1>1 DEF Init
<1>6. ListedOnce
  BY <1>1 DEF Init, ListedOnce
<1>7. QED
  BY <1>1, <1>3, <1>4, <1>5, <1>6, ListAssumption DEF Init, TypeOK

LEMMA StepKeepsTypes ==
  ASSUME TypeOK, [Next]_vars
  PROVE  TypeOK'
<1>1. CASE Visit
  <2>1. PICK children, found : Turn(children, found)
    BY <1>1, VisitIsTurn
  <2>2. /\ UNCHANGED <<tree, recursive, cap, patience, moves, moved, ever>>
        /\ truncated' \in BOOLEAN /\ pc' \in {"walk", "done", "failed"}
    BY <2>1 DEF Turn, owner, Overflows
  <2>3. queue' \in Seq(Entry)
    BY <2>1, TurnFacts DEF Lengthens
  <2>4. seen' \subseteq Folders
    <3>1. \A i \in DOMAIN queue' : queue'[i].folder \in Folders
      <4>1. \A i \in DOMAIN queue' : queue'[i] \in Entry
        BY <2>3
      <4>2. QED
        BY <4>1 DEF Entry
    <3>2. QED
      BY <2>1, <3>1 DEF TypeOK, Turn
  <2>5. collected' \in Seq(DOMAIN tree) /\ Len(collected') <= cap
    <3>1. found \in Seq(DOMAIN tree)
      BY <2>1, TurnFacts
    <3>2. Len(found) <= cap - Len(collected)
      <4>1. Len(found) = Least(cap - Len(collected), Len(children)) /\ Len(children) \in Nat
        BY <2>1, TurnFacts
      <4>2. QED
        BY <4>1 DEF Least, TypeOK
    <3>3. QED
      <4>1. collected' = collected \o found /\ collected \in Seq(DOMAIN tree) /\ cap \in Nat
        BY <2>1 DEF Turn, TypeOK
      <4>2. collected' \in Seq(DOMAIN tree) /\ Len(collected') = Len(collected) + Len(found)
        BY <3>1, <4>1, Joined
      <4>3. Len(collected) \in Nat /\ Len(found) \in Nat
        BY <3>1, <4>1
      <4>4. QED
        BY <3>2, <4>1, <4>2, <4>3
  <2>6. ListedOnce'
    BY <2>1, <2>2 DEF Turn, ListedOnce, TypeOK
  <2>7. QED
    BY <2>2, <2>3, <2>4, <2>5, <2>6 DEF TypeOK
<1>2. ASSUME UNCHANGED <<tree, queue, listed, shifted, cap, moved>> PROVE ListedOnce'
  BY <1>2 DEF ListedOnce, TypeOK, ChildrenOf
<1>3. CASE Fail \/ Return \/ UNCHANGED vars
  <2>1. ListedOnce'
    BY <1>2, <1>3 DEF Fail, Return, owner, query, vars
  <2>2. QED
    BY <1>3, <2>1 DEF Fail, Return, owner, vars, TypeOK
<1>4. CASE Page
  <2>1. UNCHANGED <<tree, recursive, cap, queue, shifted, collected, seen, truncated, pc, moves, moved, ever>>
    BY <1>4 DEF Page, owner
  <2>2. PICK page \in Pages(Head(queue).folder) : listed' = listed \o page
    BY <1>4 DEF Page
  <2>3. /\ cap \in Nat /\ listed \in Seq(DOMAIN tree) /\ Len(listed) <= cap
        /\ \A i, j \in 1 .. Len(listed) : i # j => listed[i] # listed[j]
        /\ \A i \in 1 .. Len(listed) : listed[i] \in moved \cup ChildrenOf(Head(queue).folder)
        /\ shifted \subseteq moved
    BY DEF TypeOK, ListedOnce
  <2>4. /\ listed' \in Seq(DOMAIN tree) /\ Len(listed') <= cap
        /\ \A i, j \in 1 .. Len(listed') : i # j => listed'[i] # listed'[j]
        /\ \A i \in 1 .. Len(listed') :
             (i \in 1 .. Len(listed) /\ listed'[i] = listed[i]) \/ listed'[i] \in ChildrenOf(Head(queue).folder)
    <3>1. WithPage(listed', Head(queue).folder)
      BY <2>2, PagesExtend DEF TypeOK
    <3>2. QED
      BY <3>1 DEF WithPage
  <2>5. \A i \in 1 .. Len(listed') : listed'[i] \in moved \cup ChildrenOf(Head(queue).folder)
    BY <2>3, <2>4
  <2>6. \A d : ChildrenOf(d)' = ChildrenOf(d)
    BY <2>1 DEF ChildrenOf
  <2>7. ListedOnce'
    BY <2>1, <2>3, <2>4, <2>5, <2>6 DEF ListedOnce
  <2>8. QED
    BY <2>1, <2>7 DEF TypeOK
<1>5. ASSUME NEW f \in DOMAIN tree, NEW to \in {{}} \cup {{d} : d \in Folders}, MoveByHand(f, to)
      PROVE  TypeOK'
  <2>1. tree' = [tree EXCEPT ![f] = to] /\ to \subseteq Folders
    BY <1>5 DEF MoveByHand
  <2>2. Forest(tree') /\ DOMAIN tree' = DOMAIN tree
    BY <2>1 DEF TypeOK, Forest
  <2>3. ever' \subseteq DOMAIN tree
    <3>1. Under(Top)' = UnderOf(Top, tree')
      BY DEF Under, UnderOf, ChildrenOf, Kids
    <3>2. UnderOf(Top, tree') \subseteq DOMAIN tree
      BY <2>2, UnderIsClosed
    <3>3. QED
      BY <1>5, <3>1, <3>2 DEF MoveByHand, TypeOK
  <2>4. ListedOnce'
    <3>1. /\ UNCHANGED <<cap, queue, listed>> /\ moved' = moved \cup {f}
          /\ shifted' \in {shifted, shifted \cup {f}}
      BY <1>5 DEF MoveByHand
    <3>2. ASSUME NEW d, NEW x \in ChildrenOf(d), x # f PROVE x \in ChildrenOf(d)'
      BY <2>1, <2>2, <3>2 DEF ChildrenOf
    <3>3. \A i \in 1 .. Len(listed) : listed[i] \in moved' \cup ChildrenOf(Head(queue).folder)'
      BY <3>1, <3>2 DEF TypeOK, ListedOnce
    <3>4. QED
      BY <2>2, <3>1, <3>3 DEF TypeOK, ListedOnce
  <2>5. QED
    BY <1>5, <2>2, <2>3, <2>4 DEF MoveByHand, TypeOK
<1>6. QED
  BY <1>1, <1>3, <1>4, <1>5 DEF Next

-----------------------------------------------------------------------------
(* With one move the files that were below Top at some time hold, with      *)
(* every folder among them, what is in it now: what was moved out went with *)
(* all that is below it, and what was moved in is below Top now.            *)
EverIsClosed == moves <= 1 => IsClosed(ever, Top, tree)

EverIsWhatIs == moves = 0 => ever = Under(Top)

WalksInEver ==
  moves <= 1 => /\ \A i \in DOMAIN queue : queue[i].folder \in {Top} \cup ever
                /\ Collected \cup {listed[i] : i \in 1 .. Len(listed)} \subseteq ever

ListInv == TypeOK /\ EverIsClosed /\ EverIsWhatIs /\ WalksInEver

LEMMA InitIsInEver ==
  ASSUME Init
  PROVE  ListInv
<1>1. TypeOK
  BY InitIsTyped
<1>2. ever = UnderOf(Top, tree) /\ Under(Top) = UnderOf(Top, tree)
  BY UnderIsUnderOf DEF Init
<1>3. IsClosed(ever, Top, tree)
  BY <1>1, <1>2, UnderIsClosed DEF TypeOK
<1>4. WalksInEver
  <2>1. Collected = {} /\ {listed[i] : i \in 1 .. Len(listed)} = {}
    BY DEF Init, Collected
  <2>2. QED
    BY <2>1 DEF Init, WalksInEver
<1>5. QED
  BY <1>1, <1>2, <1>3, <1>4 DEF ListInv, EverIsClosed, EverIsWhatIs

LEMMA VisitStaysInEver ==
  ASSUME ListInv, Visit
  PROVE  EverIsClosed' /\ EverIsWhatIs' /\ WalksInEver'
<1>1. PICK children, found : Turn(children, found)
  BY VisitIsTurn
<1>2. UNCHANGED <<tree, moves, ever>> /\ collected' = collected \o found /\ listed' = <<>>
  BY <1>1 DEF Turn, owner
<1>3. EverIsClosed' /\ EverIsWhatIs'
  <2>1. Under(Top)' = Under(Top)
    BY <1>2 DEF Under, ChildrenOf
  <2>2. QED
    BY <1>2, <2>1 DEF EverIsClosed, EverIsWhatIs, ListInv
<1>4. ASSUME moves <= 1
      PROVE  /\ \A i \in DOMAIN queue' : queue'[i].folder \in {Top} \cup ever
             /\ Collected' \subseteq ever
  <2>1. /\ 1 \in DOMAIN queue /\ found \in Seq(DOMAIN tree)
        /\ \A i \in 1 .. Len(children) :
             children[i] \in {listed[j] : j \in 1 .. Len(listed)} \cup ChildrenOf(queue[1].folder)
        /\ \A i \in 1 .. Len(found) : i \in 1 .. Len(children) /\ found[i] = children[i]
        /\ Tail(queue) \in Seq(Entry) /\ Len(queue) \in Nat /\ Len(Tail(queue)) = Len(queue) - 1
        /\ \A i \in 1 .. Len(queue) - 1 : Tail(queue)[i] = queue[i + 1]
        /\ Lengthens(queue', Tail(queue), found, Len(found), queue[1].depth)
    BY <1>1, TurnFacts DEF ListInv
  <2>2. ChildrenOf(queue[1].folder) \subseteq ever
    <3>1. queue[1].folder \in {Top} \cup ever
      BY <1>4, <2>1 DEF ListInv, WalksInEver
    <3>2. QED
      BY <1>4, <3>1 DEF ListInv, EverIsClosed, IsClosed, ChildrenOf
  <2>3. found \in Seq(ever) /\ Len(found) \in Nat /\ \A j \in 1 .. Len(found) : found[j] \in ever
    <3>1. {listed[j] : j \in 1 .. Len(listed)} \subseteq ever
      BY <1>4 DEF ListInv, WalksInEver
    <3>2. \A j \in 1 .. Len(found) : found[j] \in ever
      BY <2>1, <2>2, <3>1
    <3>3. QED
      BY <2>1, <3>2
  <2>4. ASSUME NEW i \in DOMAIN queue' PROVE queue'[i].folder \in {Top} \cup ever
    <3>1. PICK q : q = queue'
      OBVIOUS
    <3>2. \/ i \in DOMAIN Tail(queue) /\ q[i] = Tail(queue)[i]
          \/ \E j \in 1 .. Len(found) : q[i].folder = found[j]
      <4>1. PICK rest, n, depth : rest = Tail(queue) /\ n = Len(found) /\ depth = queue[1].depth
        OBVIOUS
      <4>2. rest \in Seq(Entry) /\ n \in Nat /\ Lengthens(q, rest, found, n, depth) /\ i \in DOMAIN q
        BY <2>1, <2>3, <2>4, <3>1, <4>1
      <4>3. \/ i \in DOMAIN rest /\ q[i] = rest[i]
            \/ \E j \in 1 .. n : q[i].folder = found[j]
        BY <4>2, QueuedFolders
      <4>4. QED
        BY <4>1, <4>3
    <3>3. CASE i \in DOMAIN Tail(queue) /\ q[i] = Tail(queue)[i]
      <4>1. i \in 1 .. Len(queue) - 1 /\ i + 1 \in DOMAIN queue
        BY <2>1, <3>3
      <4>2. q[i] = queue[i + 1]
        BY <2>1, <3>3, <4>1
      <4>3. QED
        BY <1>4, <3>1, <4>1, <4>2 DEF ListInv, WalksInEver
    <3>4. CASE \E j \in 1 .. Len(found) : q[i].folder = found[j]
      BY <2>3, <3>1, <3>4
    <3>5. QED
      BY <3>2, <3>3, <3>4
  <2>5. Collected' \subseteq ever
    <3>1. PICK c : c = collected \o found
      OBVIOUS
    <3>2. collected \in Seq(ever)
      <4>1. \A i \in DOMAIN collected : collected[i] \in ever
        BY <1>4 DEF ListInv, WalksInEver, Collected
      <4>2. collected \in Seq(DOMAIN tree)
        BY DEF ListInv, TypeOK
      <4>3. QED
        BY <4>1, <4>2
    <3>3. c \in Seq(ever)
      BY <2>3, <3>1, <3>2
    <3>4. collected' = c
      BY <1>2, <3>1
    <3>5. QED
      BY <3>3, <3>4 DEF Collected
  <2>6. QED
    BY <2>4, <2>5
<1>5. WalksInEver'
  <2>1. {listed'[i] : i \in 1 .. Len(listed')} = {}
    BY <1>2
  <2>2. QED
    BY <1>2, <1>4, <2>1 DEF WalksInEver
<1>6. QED
  BY <1>3, <1>5

LEMMA PageStaysInEver ==
  ASSUME ListInv, Page
  PROVE  EverIsClosed' /\ EverIsWhatIs' /\ WalksInEver'
<1>1. UNCHANGED <<tree, queue, collected, moves, ever>> /\ queue # <<>> /\ queue \in Seq(Entry)
  BY DEF Page, owner, ListInv, TypeOK
<1>2. EverIsClosed' /\ EverIsWhatIs'
  <2>1. Under(Top)' = Under(Top)
    BY <1>1 DEF Under, ChildrenOf
  <2>2. QED
    BY <1>1, <2>1 DEF EverIsClosed, EverIsWhatIs, ListInv
<1>3. PICK page \in Pages(queue[1].folder) : listed' = listed \o page
  <2>1. Head(queue) = queue[1]
    BY <1>1
  <2>2. QED
    BY <2>1 DEF Page
<1>4. \A i \in 1 .. Len(listed') :
        (i \in 1 .. Len(listed) /\ listed'[i] = listed[i]) \/ listed'[i] \in ChildrenOf(queue[1].folder)
  <2>1. WithPage(listed', queue[1].folder)
    BY <1>3, PagesExtend DEF ListInv, TypeOK
  <2>2. QED
    BY <2>1 DEF WithPage
<1>5. ASSUME moves <= 1 PROVE ChildrenOf(queue[1].folder) \subseteq ever
  <2>1. 1 \in DOMAIN queue
    BY <1>1
  <2>2. queue[1].folder \in {Top} \cup ever
    BY <1>5, <2>1 DEF ListInv, WalksInEver
  <2>3. QED
    BY <1>5, <2>2 DEF ListInv, EverIsClosed, IsClosed, ChildrenOf
<1>6. WalksInEver'
  <2>1. Collected' = Collected
    BY <1>1 DEF Collected
  <2>2. ASSUME moves <= 1, NEW i \in 1 .. Len(listed') PROVE listed'[i] \in ever
    BY <1>4, <1>5, <2>2 DEF ListInv, WalksInEver
  <2>3. moves <= 1 => {listed'[i] : i \in 1 .. Len(listed')} \subseteq ever
    BY <2>2
  <2>4. QED
    BY <1>1, <2>1, <2>3 DEF ListInv, WalksInEver
<1>7. QED
  BY <1>2, <1>6

LEMMA MoveStaysInEver ==
  ASSUME ListInv, NEW f \in DOMAIN tree, NEW to \in {{}} \cup {{d} : d \in Folders}, MoveByHand(f, to)
  PROVE  EverIsClosed' /\ EverIsWhatIs' /\ WalksInEver'
<1>1. /\ tree' = [tree EXCEPT ![f] = to] /\ moves' = moves + 1 /\ UNCHANGED <<queue, listed, collected>>
      /\ ever' = ever \cup UnderOf(Top, tree') /\ moves \in Nat
  <2>1. Under(Top)' = UnderOf(Top, tree')
    BY DEF Under, UnderOf, ChildrenOf, Kids
  <2>2. QED
    BY <2>1 DEF MoveByHand, ListInv, TypeOK
<1> DEFINE u == [tree EXCEPT ![f] = to]
           U == UnderOf(Top, tree)
           V == UnderOf(Top, u)
<1>2. Forest(tree) /\ Forest(u) /\ DOMAIN u = DOMAIN tree /\ u[f] = to
      /\ \A x \in DOMAIN tree : x # f => u[x] = tree[x]
  BY ListAssumption DEF ListInv, TypeOK, Forest
<1>3. EverIsWhatIs' /\ ~ (moves' = 0)
  BY <1>1 DEF EverIsWhatIs
<1>4. ASSUME moves = 0 PROVE ever = U /\ IsClosed(U \cup V, Top, u)
  <2>1. ever = U
    BY <1>4, UnderIsUnderOf DEF ListInv, EverIsWhatIs
  <2>2. IsClosed(U, Top, tree) /\ IsClosed(V, Top, u)
    BY <1>2, UnderIsClosed
  <2>3. U \subseteq V \cup {f} \cup UnderOf(f, tree)
    <3> HIDE DEF u
    <3>1. QED
      BY <1>2, MoveLosesASubtree
  <2>4. \A d \in to : d # f /\ d \notin UnderOf(f, tree)
    BY UnderIsUnderOf DEF MoveByHand
  <2> HIDE DEF U, V
  <2>5. ASSUME NEW x \in DOMAIN u, NEW d \in u[x], d \in {Top} \cup U \cup V PROVE x \in U \cup V
    <3>1. CASE d \in {Top} \cup V
      BY <2>2, <2>5, <3>1 DEF IsClosed
    <3>2. CASE d \in U /\ x # f
      <4>1. x \in DOMAIN tree /\ d \in tree[x]
        BY <1>2, <2>5, <3>2
      <4>2. QED
        BY <2>2, <3>2, <4>1 DEF IsClosed
    <3>3. CASE d \in U /\ x = f
      <4>1. d \in to
        BY <1>2, <2>5, <3>3
      <4>2. d \in V
        BY <2>3, <2>4, <3>3, <4>1
      <4>3. QED
        BY <3>1, <4>2
    <3>4. QED
      BY <2>5, <3>1, <3>2, <3>3
  <2>6. QED
    BY <2>1, <2>5 DEF IsClosed
<1>5. EverIsClosed'
  <2>1. SUFFICES ASSUME moves' <= 1 PROVE IsClosed(ever', Top, tree')
    BY DEF EverIsClosed
  <2>2. moves = 0
    BY <1>1, <2>1
  <2>3. ever' = U \cup V /\ tree' = u
    BY <1>1, <1>4, <2>2
  <2>4. QED
    BY <1>4, <2>2, <2>3
<1>6. WalksInEver'
  BY <1>1 DEF WalksInEver, ListInv, Collected
<1>7. QED
  BY <1>3, <1>5, <1>6

LEMMA StepStaysInEver ==
  ASSUME ListInv, [Next]_vars
  PROVE  ListInv'
<1>1. TypeOK'
  BY StepKeepsTypes DEF ListInv
<1>2. ASSUME UNCHANGED <<tree, queue, listed, collected, moves, ever>> PROVE EverIsClosed' /\ EverIsWhatIs' /\ WalksInEver'
  <2>1. Under(Top)' = Under(Top)
    BY <1>2 DEF Under, ChildrenOf
  <2>2. QED
    BY <1>2, <2>1 DEF ListInv, EverIsClosed, EverIsWhatIs, WalksInEver, Collected
<1>3. EverIsClosed' /\ EverIsWhatIs' /\ WalksInEver'
  <2>1. CASE Visit
    BY <2>1, VisitStaysInEver
  <2>2. CASE Fail \/ Return \/ UNCHANGED vars
    BY <1>2, <2>2 DEF Fail, Return, vars, owner, query
  <2>3. CASE \E f \in DOMAIN tree, to \in {{}} \cup {{d} : d \in Folders} : MoveByHand(f, to)
    BY <2>3, MoveStaysInEver
  <2>4. CASE Page
    BY <2>4, PageStaysInEver
  <2>5. QED
    BY <2>1, <2>2, <2>3, <2>4 DEF Next
<1>4. QED
  BY <1>1, <1>3 DEF ListInv

(* With at most one file moved while it is under way, a listing has nothing *)
(* that was not below the folder at some time: whatever folders Drive has,  *)
(* whatever order it answers in, however many requests the walk takes.      *)
THEOREM OneMoveIsHarmless == Spec => []OneMoveListsNothingForeign
<1>1. Init => ListInv
  BY InitIsInEver
<1>2. ListInv /\ [Next]_vars => ListInv'
  BY StepStaysInEver
<1>3. ListInv => OneMoveListsNothingForeign
  BY DEF ListInv, WalksInEver, OneMoveListsNothingForeign
<1>4. QED
  BY <1>1, <1>2, <1>3, PTL DEF Spec

-----------------------------------------------------------------------------
(* Levels. *)

OneDown(s, files, t) == UNION {Kids(f, t) \cap files : f \in s \cap Folders}

IsLevels(g, n, top, files, t) ==
  g = [k \in 0 .. n |-> IF k = 0 THEN {top} ELSE OneDown(g[k - 1], files, t)]

LEMMA LevelsExist ==
  ASSUME NEW top, NEW files, NEW t, NEW n \in Nat
  PROVE  \E g : IsLevels(g, n, top, files, t)
<1> DEFINE S == {k \in Nat : \E g : IsLevels(g, k, top, files, t)}
<1>1. 0 \in S
  <2>1. IsLevels([i \in 0 .. 0 |-> {top}], 0, top, files, t)
    BY DEF IsLevels
  <2>2. QED
    BY <2>1
<1>2. ASSUME NEW k \in Nat, k \in S PROVE k + 1 \in S
  <2>1. PICK g : IsLevels(g, k, top, files, t)
    BY <1>2
  <2> DEFINE h == [i \in 0 .. k + 1 |-> IF i = k + 1 THEN OneDown(g[k], files, t) ELSE g[i]]
  <2>2. ASSUME NEW i \in 0 .. k + 1
        PROVE  h[i] = IF i = 0 THEN {top} ELSE OneDown(h[i - 1], files, t)
    <3>1. CASE i = k + 1
      BY <3>1
    <3>2. CASE i # k + 1
      <4>1. i \in 0 .. k /\ h[i] = g[i] /\ (i # 0 => h[i - 1] = g[i - 1])
        BY <3>2
      <4>2. g[i] = IF i = 0 THEN {top} ELSE OneDown(g[i - 1], files, t)
        BY <2>1, <4>1 DEF IsLevels
      <4>3. QED
        BY <4>1, <4>2
    <3>3. QED
      BY <3>1, <3>2
  <2>3. h = [i \in 0 .. k + 1 |-> IF i = 0 THEN {top} ELSE OneDown(h[i - 1], files, t)]
    BY <2>2
  <2>4. IsLevels(h, k + 1, top, files, t)
    BY <2>3 DEF IsLevels
  <2>5. QED
    BY <2>4
<1>3. Nat \subseteq S
  BY <1>1, <1>2, Induction
<1>4. QED
  BY <1>3

LEMMA LevelsAreUnique ==
  ASSUME NEW top, NEW files, NEW t, NEW m \in Nat, NEW n \in Nat, NEW g, NEW h,
         IsLevels(g, m, top, files, t), IsLevels(h, n, top, files, t), NEW k \in 0 .. m, k <= n
  PROVE  g[k] = h[k]
<1> DEFINE S == {i \in Nat : i <= m /\ i <= n => g[i] = h[i]}
<1>1. 0 \in S
  BY DEF IsLevels
<1>2. ASSUME NEW i \in Nat, i \in S PROVE i + 1 \in S
  <2> SUFFICES ASSUME i + 1 <= m, i + 1 <= n PROVE g[i + 1] = h[i + 1]
    OBVIOUS
  <2>1. g[i] = h[i]
    BY <1>2
  <2>2. i + 1 \in 0 .. m /\ i + 1 \in 0 .. n /\ i + 1 # 0 /\ (i + 1) - 1 = i
    OBVIOUS
  <2>3. g[i + 1] = OneDown(g[i], files, t)
    BY <2>2 DEF IsLevels
  <2>4. h[i + 1] = OneDown(h[i], files, t)
    BY <2>2 DEF IsLevels
  <2>5. QED
    BY <2>1, <2>3, <2>4
<1>3. Nat \subseteq S
  BY <1>1, <1>2, Induction
<1>4. QED
  BY <1>3

(* The n-th level below a folder. *)
LevelOf(top, n, files, t) ==
  LET level[k \in 0..n] ==
        IF k = 0 THEN {top} ELSE UNION {Kids(f, t) \cap files : f \in level[k - 1] \cap Folders}
  IN level[n]

LEMMA LevelIsLevelOf == \A top, n, files : Level(top, n, files) = LevelOf(top, n, files, tree)
  BY DEF Level, LevelOf, ChildrenOf, Kids

LEMMA LevelByLevels ==
  ASSUME NEW top, NEW files, NEW t, NEW n \in Nat
  PROVE  \E g : IsLevels(g, n, top, files, t) /\ LevelOf(top, n, files, t) = g[n]
<1>1. PICK h : IsLevels(h, n, top, files, t)
  BY LevelsExist
<1>2. IsLevels(CHOOSE g : IsLevels(g, n, top, files, t), n, top, files, t)
  BY <1>1
<1>3. LevelOf(top, n, files, t) = (CHOOSE g : IsLevels(g, n, top, files, t))[n]
  BY DEF LevelOf, IsLevels, OneDown
<1>4. QED
  BY <1>2, <1>3

LEMMA LevelZero ==
  ASSUME NEW top, NEW files, NEW t
  PROVE  LevelOf(top, 0, files, t) = {top}
<1>1. PICK g : IsLevels(g, 0, top, files, t) /\ LevelOf(top, 0, files, t) = g[0]
  BY LevelByLevels
<1>2. QED
  BY <1>1 DEF IsLevels

(* A file is on the next level if one of its folders is on this one. *)
LEMMA LevelNext ==
  ASSUME NEW top, NEW files, NEW t, NEW n \in Nat, t \in [DOMAIN t -> SUBSET Folders], NEW x
  PROVE  x \in LevelOf(top, n + 1, files, t)
           <=> x \in DOMAIN t \cap files /\ \E d \in t[x] : d \in LevelOf(top, n, files, t)
<1>1. PICK g : IsLevels(g, n + 1, top, files, t) /\ LevelOf(top, n + 1, files, t) = g[n + 1]
  BY LevelByLevels
<1>2. PICK h : IsLevels(h, n, top, files, t) /\ LevelOf(top, n, files, t) = h[n]
  BY LevelByLevels
<1>3. g[n] = h[n]
  <2>1. n \in 0 .. n + 1 /\ n <= n /\ n + 1 \in Nat
    OBVIOUS
  <2>2. QED
    BY <1>1, <1>2, <2>1, LevelsAreUnique
<1>4. g[n + 1] = OneDown(g[n], files, t)
  <2>1. n + 1 \in 0 .. n + 1 /\ n + 1 # 0 /\ (n + 1) - 1 = n
    OBVIOUS
  <2>2. QED
    BY <1>1, <2>1 DEF IsLevels
<1>5. QED
  BY <1>1, <1>2, <1>3, <1>4 DEF OneDown, Kids

(* Fewer files, and the same parents among them: no more on any level. *)
LEMMA LevelsShrink ==
  ASSUME NEW top, NEW t, NEW u, NEW files, NEW less, less \subseteq files,
         Forest(t), Forest(u), DOMAIN u = DOMAIN t, \A x \in less \cap DOMAIN t : u[x] = t[x],
         NEW n \in Nat
  PROVE  LevelOf(top, n, less, u) \subseteq LevelOf(top, n, files, t)
<1> DEFINE S == {k \in Nat : LevelOf(top, k, less, u) \subseteq LevelOf(top, k, files, t)}
<1>1. 0 \in S
  BY LevelZero
<1>2. ASSUME NEW k \in Nat, k \in S PROVE k + 1 \in S
  <2>1. ASSUME NEW x, x \in LevelOf(top, k + 1, less, u) PROVE x \in LevelOf(top, k + 1, files, t)
    <3>1. x \in DOMAIN u \cap less /\ \E d \in u[x] : d \in LevelOf(top, k, less, u)
      BY <2>1, LevelNext DEF Forest
    <3>2. x \in DOMAIN t \cap files /\ \E d \in t[x] : d \in LevelOf(top, k, files, t)
      BY <1>2, <3>1
    <3>3. QED
      BY <3>2, LevelNext DEF Forest
  <2>2. QED
    BY <2>1
<1>3. Nat \subseteq S
  BY <1>1, <1>2, Induction
<1>4. QED
  BY <1>3

-----------------------------------------------------------------------------
(* The queue: folders that were seen, each once, sorted by their depth, of  *)
(* two depths at most.  And when the walk ends.                             *)

Queued == {queue[i].folder : i \in DOMAIN queue}

Walked == seen \ Queued

QueueIsSorted ==
  /\ \A i \in DOMAIN queue : queue[i].depth < Limit
  /\ \A i, j \in DOMAIN queue : i <= j => queue[i].depth <= queue[j].depth
  /\ \A i, j \in DOMAIN queue : queue[j].depth <= queue[i].depth + 1

QueuedOnce ==
  /\ \A i, j \in DOMAIN queue : queue[i].folder = queue[j].folder => i = j
  /\ Queued \subseteq seen /\ Top \in seen

Stops ==
  /\ pc = "done" /\ ~ truncated => queue = <<>>
  /\ truncated => pc = "done" /\ Len(collected) = cap
  /\ moves = 0 => moved = {}

QueueInv == TypeOK /\ QueueIsSorted /\ QueuedOnce /\ Stops

LEMMA LimitIsPositive ==
  ASSUME TypeOK
  PROVE  Limit \in Nat /\ Limit # 0
  BY ListAssumption DEF TypeOK, Limit

LEMMA InitIsQueued ==
  ASSUME Init
  PROVE  QueueInv
<1>1. TypeOK
  BY InitIsTyped
<1>2. queue = <<[folder |-> Top, depth |-> 0]>>
  BY DEF Init
<1>3. DOMAIN queue = {1} /\ queue[1].folder = Top /\ queue[1].depth = 0
  BY <1>2
<1>4. QueueIsSorted
  BY <1>1, <1>3, LimitIsPositive DEF QueueIsSorted
<1>5. QueuedOnce
  BY <1>3 DEF QueuedOnce, Queued, Init
<1>6. Stops
  BY DEF Stops, Init
<1>7. QED
  BY <1>1, <1>4, <1>5, <1>6 DEF QueueInv

(* What a turn leaves in the queue: the rest of it, and new folders, a      *)
(* level further down.                                                      *)
LEMMA QueueAfterTurn ==
  ASSUME QueueInv, NEW children, NEW found, Turn(children, found), NEW q, q = queue'
  PROVE  /\ q \in Seq(Entry) /\ Len(queue) - 1 <= Len(q)
         /\ \A i \in DOMAIN q :
              \/ i \in 1 .. Len(queue) - 1 /\ i + 1 \in DOMAIN queue /\ q[i] = queue[i + 1]
              \/ /\ i \in Len(queue) .. Len(q) /\ q[i].depth = queue[1].depth + 1
                 /\ \E j \in 1 .. Len(found) : /\ q[i].folder = found[j]
                                               /\ Descends(found[j], queue[1].depth)
         /\ \A i \in 1 .. Len(queue) - 1 : i \in DOMAIN q /\ q[i] = queue[i + 1]
         /\ \A j \in 1 .. Len(found) :
              Descends(found[j], queue[1].depth) => \E i \in DOMAIN q : q[i].folder = found[j]
         /\ \A i, j \in Len(queue) .. Len(q) : q[i].folder = q[j].folder => i = j
<1>1. /\ Tail(queue) \in Seq(Entry) /\ Len(queue) \in Nat /\ Len(Tail(queue)) = Len(queue) - 1
      /\ \A i \in 1 .. Len(queue) - 1 : Tail(queue)[i] = queue[i + 1]
      /\ Lengthens(q, Tail(queue), found, Len(found), queue[1].depth)
  BY TurnFacts DEF QueueInv
<1>2. PICK rest, n, d : rest = Tail(queue) /\ n = Len(found) /\ d = queue[1].depth
  OBVIOUS
<1>3. /\ rest \in Seq(Entry) /\ Len(rest) = Len(queue) - 1
      /\ \A i \in 1 .. Len(queue) - 1 : rest[i] = queue[i + 1]
      /\ Lengthens(q, rest, found, n, d)
  BY <1>1, <1>2
<1>4. /\ q \in Seq(Entry) /\ Len(rest) <= Len(q)
      /\ \A i \in 1 .. Len(rest) : q[i] = rest[i]
      /\ \A i \in Len(rest) + 1 .. Len(q) :
           q[i].depth = d + 1 /\ \E j \in 1 .. n : q[i].folder = found[j] /\ Descends(found[j], d)
      /\ \A j \in 1 .. n : Descends(found[j], d) => \E i \in Len(rest) + 1 .. Len(q) : q[i].folder = found[j]
      /\ \A i, j \in Len(rest) + 1 .. Len(q) : q[i].folder = q[j].folder => i = j
  BY <1>3 DEF Lengthens
<1>5. Len(rest) + 1 = Len(queue) /\ DOMAIN q = 1 .. Len(q) /\ Len(q) \in Nat /\ DOMAIN queue = 1 .. Len(queue)
  BY <1>1, <1>3, <1>4 DEF QueueInv, TypeOK
<1>6. \A i \in 1 .. Len(queue) - 1 : i \in DOMAIN q /\ q[i] = queue[i + 1] /\ i + 1 \in DOMAIN queue
  BY <1>1, <1>3, <1>4, <1>5
<1>7. ASSUME NEW i \in DOMAIN q
      PROVE  \/ i \in 1 .. Len(queue) - 1
             \/ i \in Len(queue) .. Len(q)
  BY <1>1, <1>5, <1>7
<1>8. \A j \in 1 .. n : Descends(found[j], d) => \E i \in DOMAIN q : q[i].folder = found[j]
  BY <1>1, <1>4, <1>5
<1>9. QED
  BY <1>2, <1>3, <1>4, <1>5, <1>6, <1>7, <1>8

LEMMA TurnSets ==
  ASSUME QueueInv, NEW children, NEW found, Turn(children, found)
  PROVE  /\ Walked' = Walked \cup {queue[1].folder}
         /\ queue[1].folder \in seen \ Walked
         /\ seen \subseteq seen'
         /\ \A j \in 1 .. Len(found) : Descends(found[j], queue[1].depth) => found[j] \in seen'
         /\ \A x \in seen' \ seen : \E j \in 1 .. Len(found) : x = found[j] /\ Descends(x, queue[1].depth)
<1>1. PICK q : q = queue'
  OBVIOUS
<1> DEFINE Q == {q[i].folder : i \in DOMAIN q}
           h == queue[1].folder
<1>2. seen' = seen \cup Q /\ Queued' = Q
  BY <1>1 DEF Turn, Queued
<1>3. /\ \A i \in DOMAIN q :
              \/ i \in 1 .. Len(queue) - 1 /\ i + 1 \in DOMAIN queue /\ q[i] = queue[i + 1]
              \/ \E j \in 1 .. Len(found) : q[i].folder = found[j] /\ Descends(found[j], queue[1].depth)
      /\ \A i \in 1 .. Len(queue) - 1 : i \in DOMAIN q /\ q[i] = queue[i + 1]
      /\ \A j \in 1 .. Len(found) :
           Descends(found[j], queue[1].depth) => \E i \in DOMAIN q : q[i].folder = found[j]
  BY <1>1, QueueAfterTurn
<1>4. 1 \in DOMAIN queue /\ Len(queue) \in Nat /\ DOMAIN queue = 1 .. Len(queue)
  BY TurnFacts DEF QueueInv, TypeOK
<1>5. h \in Queued /\ h \in seen /\ Queued \subseteq seen
  BY <1>4 DEF QueueInv, QueuedOnce, Queued
<1>6. ASSUME NEW x \in Q, x \notin Queued
      PROVE  x \notin seen /\ \E j \in 1 .. Len(found) : x = found[j] /\ Descends(x, queue[1].depth)
  <2>1. PICK i \in DOMAIN q : x = q[i].folder
    OBVIOUS
  <2>2. ~ (i + 1 \in DOMAIN queue /\ q[i] = queue[i + 1])
    BY <1>6, <2>1 DEF Queued
  <2>3. QED
    BY <1>3, <2>1, <2>2 DEF Descends
<1>7. h \notin Q
  <2>1. SUFFICES ASSUME NEW i \in DOMAIN q, h = q[i].folder PROVE FALSE
    OBVIOUS
  <2>2. ~ \E j \in 1 .. Len(found) : q[i].folder = found[j] /\ Descends(found[j], queue[1].depth)
    BY <1>5, <2>1 DEF Descends
  <2>3. i + 1 \in DOMAIN queue /\ queue[i + 1].folder = h /\ i \in 1 .. Len(queue) - 1
    BY <1>3, <2>1, <2>2
  <2>4. i + 1 = 1
    BY <1>4, <2>3 DEF QueueInv, QueuedOnce
  <2>5. QED
    BY <1>4, <2>3, <2>4
<1>8. ASSUME NEW x \in Queued, x # h PROVE x \in Q
  <2>1. PICK i \in DOMAIN queue : x = queue[i].folder
    BY DEF Queued
  <2>2. i # 1
    BY <1>8, <2>1
  <2>3. i - 1 \in 1 .. Len(queue) - 1 /\ (i - 1) + 1 = i
    BY <1>4, <2>2
  <2>4. i - 1 \in DOMAIN q /\ q[i - 1] = queue[i]
    BY <1>3, <2>3
  <2>5. QED
    BY <2>1, <2>4
<1>9. Walked' = (seen \cup Q) \ Q
  BY <1>2 DEF Walked
<1>10. \A j \in 1 .. Len(found) : Descends(found[j], queue[1].depth) => found[j] \in Q
  BY <1>3
<1> HIDE DEF Q
<1>11. Walked' = Walked \cup {h} /\ h \notin Walked
  BY <1>5, <1>6, <1>7, <1>8, <1>9 DEF Walked
<1>12. QED
  BY <1>2, <1>5, <1>6, <1>10, <1>11

LEMMA VisitKeepsQueue ==
  ASSUME QueueInv, Visit
  PROVE  QueueInv'
<1>1. PICK children, found : Turn(children, found)
  BY VisitIsTurn
<1>2. PICK q : q = queue'
  OBVIOUS
<1>3. TypeOK'
  BY StepKeepsTypes DEF QueueInv, Next
<1>4. /\ q \in Seq(Entry) /\ Len(queue) - 1 <= Len(q)
      /\ \A i \in DOMAIN q :
           \/ i \in 1 .. Len(queue) - 1 /\ i + 1 \in DOMAIN queue /\ q[i] = queue[i + 1]
           \/ /\ i \in Len(queue) .. Len(q) /\ q[i].depth = queue[1].depth + 1
              /\ \E j \in 1 .. Len(found) : /\ q[i].folder = found[j]
                                            /\ Descends(found[j], queue[1].depth)
      /\ \A i, j \in Len(queue) .. Len(q) : q[i].folder = q[j].folder => i = j
  BY <1>1, <1>2, QueueAfterTurn
<1>5. 1 \in DOMAIN queue /\ Len(queue) \in Nat /\ DOMAIN queue = 1 .. Len(queue)
  BY <1>1, TurnFacts DEF QueueInv, TypeOK
<1>6. \A i \in DOMAIN queue : queue[i].depth \in Nat
  <2>1. \A i \in DOMAIN queue : queue[i] \in Entry
    BY DEF QueueInv, TypeOK
  <2>2. QED
    BY <2>1 DEF Entry
<1>7. \A i \in DOMAIN q : q[i].depth \in Nat
  <2>1. \A i \in DOMAIN q : q[i] \in Entry
    BY <1>4
  <2>2. QED
    BY <2>1 DEF Entry
<1>8. UNCHANGED <<recursive, cap, moves, moved>> /\ Limit' = Limit
  BY <1>1 DEF Turn, owner, Limit
<1>9. ASSUME NEW i \in DOMAIN q
      PROVE  \/ i \in 1 .. Len(queue) - 1 /\ i + 1 \in DOMAIN queue /\ q[i] = queue[i + 1]
             \/ i \in Len(queue) .. Len(q) /\ q[i].depth = queue[1].depth + 1
  BY <1>4, <1>9
<1>10. QueueIsSorted'
  <2>0. /\ \A i \in DOMAIN queue : queue[i].depth < Limit
        /\ \A i, j \in DOMAIN queue : i <= j => queue[i].depth <= queue[j].depth
        /\ \A i, j \in DOMAIN queue : queue[j].depth <= queue[i].depth + 1
    BY DEF QueueInv, QueueIsSorted
  <2>1. ASSUME NEW i \in DOMAIN q PROVE q[i].depth < Limit
    <3>1. CASE i + 1 \in DOMAIN queue /\ q[i] = queue[i + 1]
      BY <2>0, <3>1
    <3>2. CASE \E j \in 1 .. Len(found) : Descends(found[j], queue[1].depth) /\ q[i].depth = queue[1].depth + 1
      BY <3>2 DEF Descends, Limit
    <3>3. QED
      BY <1>4, <3>1, <3>2
  <2>2. \A i \in DOMAIN q : queue[1].depth <= q[i].depth /\ q[i].depth <= queue[1].depth + 1
    <3>1. SUFFICES ASSUME NEW i \in DOMAIN q
                   PROVE queue[1].depth <= q[i].depth /\ q[i].depth <= queue[1].depth + 1
      OBVIOUS
    <3>2. CASE i \in 1 .. Len(queue) - 1 /\ i + 1 \in DOMAIN queue /\ q[i] = queue[i + 1]
      BY <1>5, <2>0, <3>2
    <3>3. CASE q[i].depth = queue[1].depth + 1
      BY <1>5, <1>6, <3>3
    <3>4. QED
      BY <1>9, <3>2, <3>3
  <2>3. ASSUME NEW i \in DOMAIN q, NEW j \in DOMAIN q, i <= j PROVE q[i].depth <= q[j].depth
    <3>1. CASE j \in Len(queue) .. Len(q) /\ q[j].depth = queue[1].depth + 1
      BY <2>2, <3>1
    <3>2. CASE j \in 1 .. Len(queue) - 1 /\ j + 1 \in DOMAIN queue /\ q[j] = queue[j + 1]
      <4>1. i \in 1 .. Len(queue) - 1 /\ i + 1 <= j + 1
        BY <1>4, <1>5, <2>3, <3>2
      <4>2. i + 1 \in DOMAIN queue /\ q[i] = queue[i + 1]
        BY <1>5, <1>9, <4>1
      <4>3. QED
        BY <2>0, <3>2, <4>1, <4>2
    <3>3. QED
      BY <1>9, <3>1, <3>2
  <2>4. ASSUME NEW i \in DOMAIN q, NEW j \in DOMAIN q PROVE q[j].depth <= q[i].depth + 1
    BY <1>5, <1>6, <1>7, <2>2
  <2>5. QED
    BY <1>2, <1>8, <2>1, <2>3, <2>4 DEF QueueIsSorted
<1>11. QueuedOnce'
  <2>1. ASSUME NEW i \in DOMAIN q, i \in Len(queue) .. Len(q), NEW j \in DOMAIN q, j \in 1 .. Len(queue) - 1
        PROVE  q[i].folder # q[j].folder
    <3>1. j + 1 \in DOMAIN queue /\ q[j] = queue[j + 1]
      BY <1>5, <1>9, <2>1
    <3>2. ~ (i \in 1 .. Len(queue) - 1)
      BY <1>5, <2>1
    <3>3. q[i].folder \notin seen
      BY <1>4, <3>2 DEF Descends
    <3>4. queue[j + 1].folder \in seen
      BY <3>1 DEF QueueInv, QueuedOnce, Queued
    <3>5. QED
      BY <3>1, <3>3, <3>4
  <2>2. ASSUME NEW i \in DOMAIN q, NEW j \in DOMAIN q, q[i].folder = q[j].folder PROVE i = j
    <3>1. CASE i \in Len(queue) .. Len(q) /\ j \in Len(queue) .. Len(q)
      BY <1>4, <2>2, <3>1
    <3>2. CASE i \in 1 .. Len(queue) - 1 /\ j \in 1 .. Len(queue) - 1
      <4>1. /\ i + 1 \in DOMAIN queue /\ q[i] = queue[i + 1]
            /\ j + 1 \in DOMAIN queue /\ q[j] = queue[j + 1]
        BY <1>5, <1>9, <3>2
      <4>2. i + 1 = j + 1
        BY <2>2, <4>1 DEF QueueInv, QueuedOnce
      <4>3. QED
        BY <3>2, <4>2
    <3>3. QED
      BY <1>9, <2>1, <2>2, <3>1, <3>2
  <2>3. Queued' \subseteq seen' /\ Top \in seen'
    BY <1>1 DEF Turn, Queued, QueueInv, QueuedOnce
  <2>4. QED
    BY <1>2, <2>2, <2>3 DEF QueuedOnce
<1>12. Stops'
  <2>1. /\ pc = "walk" /\ truncated' = Overflows(Len(children), cap - Len(collected))
        /\ pc' = IF truncated' THEN "done" ELSE "walk"
    BY <1>1 DEF Turn
  <2>2. ASSUME truncated' PROVE Len(collected') = cap
    <3>1. /\ found \in Seq(DOMAIN tree) /\ Len(children) \in Nat
          /\ Len(found) = Least(cap - Len(collected), Len(children))
      BY <1>1, TurnFacts DEF QueueInv
    <3>2. Len(children) > cap - Len(collected)
      BY <2>1, <2>2 DEF Overflows
    <3>3. collected \in Seq(DOMAIN tree) /\ cap \in Nat /\ collected' = collected \o found
      BY <1>1 DEF QueueInv, TypeOK, Turn
    <3>4. Len(found) = cap - Len(collected)
      BY <3>1, <3>2, <3>3 DEF Least
    <3>5. Len(collected \o found) = Len(collected) + Len(found)
      BY <3>1, <3>3, Joined
    <3>6. QED
      BY <3>3, <3>4, <3>5
  <2>3. QED
    BY <1>8, <2>1, <2>2 DEF Stops, QueueInv
<1>13. QED
  BY <1>3, <1>10, <1>11, <1>12 DEF QueueInv

LEMMA StepKeepsQueue ==
  ASSUME QueueInv, [Next]_vars
  PROVE  QueueInv'
<1>1. TypeOK'
  BY StepKeepsTypes DEF QueueInv
<1>2. ASSUME UNCHANGED <<recursive, queue, seen>> PROVE QueueIsSorted' /\ QueuedOnce'
  BY <1>2 DEF QueueInv, QueueIsSorted, QueuedOnce, Queued, Limit
<1>3. CASE Visit
  BY <1>3, VisitKeepsQueue
<1>4. CASE Fail
  <2>1. Stops'
    BY <1>4 DEF Fail, owner, QueueInv, Stops
  <2>2. QED
    BY <1>1, <1>2, <1>4, <2>1 DEF Fail, QueueInv
<1>5. CASE Return
  <2>1. Stops'
    BY <1>5 DEF Return, owner, QueueInv, Stops
  <2>2. QED
    BY <1>1, <1>2, <1>5, <2>1 DEF Return, QueueInv
<1>6. CASE UNCHANGED vars
  <2>1. Stops'
    BY <1>6 DEF vars, owner, QueueInv, Stops
  <2>2. QED
    BY <1>1, <1>2, <1>6, <2>1 DEF vars, QueueInv
<1>7. ASSUME NEW f \in DOMAIN tree, NEW to \in {{}} \cup {{d} : d \in Folders}, MoveByHand(f, to)
      PROVE  QueueInv'
  <2>1. Stops'
    BY <1>7 DEF MoveByHand, QueueInv, Stops, TypeOK
  <2>2. QED
    BY <1>1, <1>2, <1>7, <2>1 DEF MoveByHand, QueueInv
<1>8. CASE Page
  <2>1. Stops'
    BY <1>8 DEF Page, owner, QueueInv, Stops
  <2>2. QED
    BY <1>1, <1>2, <1>8, <2>1 DEF Page, QueueInv
<1>9. QED
  BY <1>3, <1>4, <1>5, <1>6, <1>7, <1>8 DEF Next

-----------------------------------------------------------------------------
(* Completeness.  As long as the list is not full nothing has been cut off  *)
(* it.  Of the files that stayed, what is in a folder that was walked has   *)
(* been listed; and no folder waits further down than it might have been    *)
(* found, so whatever is above the depth of the queue has been walked.      *)

Stay == DOMAIN tree \ moved

Lev(n) == LevelOf(Top, n, Stay, tree)

QueueIsDeep ==
  Len(collected) < cap =>
    \A n \in Nat : \A i \in DOMAIN queue : queue[i].folder \in Lev(n) => queue[i].depth <= n

WalkedAreListed ==
  Len(collected) < cap =>
    \A n \in Nat : n < Limit =>
      \A x \in Stay : \A d \in tree[x] : d \in Lev(n) /\ d \in Walked =>
        x \in Collected /\ (x \in Folders /\ n + 1 < Limit => x \in seen)

CompleteInv == QueueInv /\ QueueIsDeep /\ WalkedAreListed

LEMMA LevFacts ==
  ASSUME TypeOK
  PROVE  /\ Lev(0) = {Top}
         /\ \A n \in Nat : \A x : x \in Lev(n + 1) <=> x \in Stay /\ \E d \in tree[x] : d \in Lev(n)
         /\ \A x \in Stay : x \in DOMAIN tree /\ tree[x] \subseteq Folders
<1>1. Lev(0) = {Top}
  BY LevelZero DEF Lev
<1>2. tree \in [DOMAIN tree -> SUBSET Folders]
  BY DEF TypeOK, Forest
<1>3. ASSUME NEW n \in Nat, NEW x
      PROVE  x \in Lev(n + 1) <=> x \in Stay /\ \E d \in tree[x] : d \in Lev(n)
  <2>1. x \in LevelOf(Top, n + 1, Stay, tree)
          <=> x \in DOMAIN tree \cap Stay /\ \E d \in tree[x] : d \in LevelOf(Top, n, Stay, tree)
    <3>1. PICK s, t : s = Stay /\ t = tree
      OBVIOUS
    <3>2. x \in LevelOf(Top, n + 1, s, t)
            <=> x \in DOMAIN t \cap s /\ \E d \in t[x] : d \in LevelOf(Top, n, s, t)
      BY <1>2, <3>1, LevelNext
    <3>3. QED
      BY <3>1, <3>2
  <2>2. QED
    BY <2>1 DEF Lev, Stay
<1>4. QED
  BY <1>1, <1>2, <1>3 DEF Stay

(* Above the queue all folders have been walked. *)
LEMMA SeenAboveTheQueue ==
  ASSUME CompleteInv, Len(collected) < cap,
         NEW k \in Nat, k <= Limit, \A i \in DOMAIN queue : k <= queue[i].depth,
         NEW n \in Nat, n <= k, n < Limit
  PROVE  \A d \in Lev(n) \cap Folders : d \in seen /\ (n < k => d \in Walked)
<1>1. TypeOK /\ Limit \in Nat /\ Top \in seen
  BY LimitIsPositive DEF CompleteInv, QueueInv, QueuedOnce
<1>2. /\ Lev(0) = {Top}
      /\ \A m \in Nat : \A x : x \in Lev(m + 1) <=> x \in Stay /\ \E d \in tree[x] : d \in Lev(m)
      /\ \A x \in Stay : x \in DOMAIN tree /\ tree[x] \subseteq Folders
  BY <1>1, LevFacts
<1>3. \A i \in DOMAIN queue : queue[i].depth \in Nat
  <2>1. \A i \in DOMAIN queue : queue[i] \in Entry
    BY <1>1 DEF TypeOK
  <2>2. QED
    BY <2>1 DEF Entry
<1>4. ASSUME NEW m \in Nat, m < k, NEW d \in Lev(m), d \in seen PROVE d \in Walked
  <2>1. SUFFICES ASSUME NEW i \in DOMAIN queue, d = queue[i].folder PROVE FALSE
    BY <1>4 DEF Walked, Queued
  <2>2. queue[i].depth <= m /\ k <= queue[i].depth /\ queue[i].depth \in Nat
    BY <1>3, <1>4, <2>1 DEF CompleteInv, QueueIsDeep
  <2>3. QED
    BY <1>4, <2>2
<1> DEFINE S == {m \in Nat : m <= k /\ m < Limit => Lev(m) \cap Folders \subseteq seen}
<1>5. 0 \in S
  BY <1>1, <1>2
<1>6. ASSUME NEW m \in Nat, m \in S PROVE m + 1 \in S
  <2> SUFFICES ASSUME m + 1 <= k, m + 1 < Limit, NEW x \in Lev(m + 1), x \in Folders PROVE x \in seen
    OBVIOUS
  <2>1. m < k /\ m <= k /\ m < Limit
    BY <1>1
  <2>2. PICK d \in tree[x] : d \in Lev(m)
    BY <1>2
  <2>3. x \in Stay /\ d \in Folders
    BY <1>2, <2>2
  <2>4. d \in seen
    BY <1>6, <2>1, <2>2, <2>3
  <2>5. d \in Walked
    BY <1>4, <2>1, <2>2, <2>4
  <2>6. QED
    BY <2>1, <2>2, <2>3, <2>5 DEF CompleteInv, WalkedAreListed
<1>7. Nat \subseteq S
  <2> HIDE DEF S
  <2>1. QED
    BY <1>5, <1>6, Induction
<1>8. n \in S
  BY <1>7
<1>9. QED
  BY <1>4, <1>8

(* And what is in them has been listed. *)
LEMMA ListedAboveTheQueue ==
  ASSUME CompleteInv, Len(collected) < cap,
         NEW k \in Nat, k <= Limit, \A i \in DOMAIN queue : k <= queue[i].depth,
         NEW n \in Nat, n < k
  PROVE  Lev(n + 1) \subseteq Collected
<1>1. TypeOK /\ Limit \in Nat
  BY LimitIsPositive DEF CompleteInv, QueueInv
<1>2. SUFFICES ASSUME NEW x \in Lev(n + 1) PROVE x \in Collected
  OBVIOUS
<1>3. PICK d \in tree[x] : x \in Stay /\ d \in Lev(n) /\ d \in Folders
  BY <1>1, <1>2, LevFacts
<1>4. n <= k /\ n < Limit
  BY <1>1
<1>5. d \in Walked
  BY <1>3, <1>4, SeenAboveTheQueue
<1>6. QED
  BY <1>3, <1>4, <1>5 DEF CompleteInv, WalkedAreListed

(* A turn that leaves room has found all that stayed in the folder, and     *)
(* without a move nothing else.                                             *)
LEMMA TurnFindsAll ==
  ASSUME TypeOK, NEW children, NEW found, Turn(children, found), Len(collected') < cap
  PROVE  /\ Len(collected) < cap
         /\ \A x \in ChildrenOf(queue[1].folder) \ moved : \E j \in 1 .. Len(found) : found[j] = x
         /\ moved = {} => Len(found) = Cardinality(ChildrenOf(queue[1].folder))
<1>1. PICK C : C = ChildrenOf(queue[1].folder)
  OBVIOUS
<1>2. /\ children \in Seq(DOMAIN tree) /\ Len(children) \in Nat
      /\ \A i \in 1 .. Len(children) : children[i] \in moved \cup C
      /\ Len(children) = cap \/ \A x \in C \ moved : \E j \in 1 .. Len(children) : children[j] = x
      /\ found \in Seq(DOMAIN tree) /\ Len(found) = Least(cap - Len(collected), Len(children))
      /\ \A i \in 1 .. Len(found) : i \in 1 .. Len(children) /\ found[i] = children[i]
      /\ \A i, j \in 1 .. Len(found) : i # j => found[i] # found[j]
  BY <1>1, TurnFacts
<1>3. cap \in Nat /\ collected \in Seq(DOMAIN tree) /\ Len(collected) \in Nat /\ collected' = collected \o found
  BY DEF TypeOK, Turn
<1>4. Len(collected') = Len(collected) + Len(found) /\ Len(found) \in Nat
  <2>1. PICK D : collected \in Seq(D) /\ found \in Seq(D)
    BY <1>2, <1>3
  <2>2. Len(collected \o found) = Len(collected) + Len(found)
    BY <2>1, Joined
  <2>3. QED
    BY <1>2, <1>3, <2>2
<1>5. Len(found) = Len(children) /\ Len(children) < cap
  BY <1>2, <1>3, <1>4 DEF Least
<1>6. \A x \in C \ moved : \E j \in 1 .. Len(found) : found[j] = x
  BY <1>2, <1>5
<1>7. ASSUME moved = {} PROVE Len(found) = Cardinality(C)
  <2>1. /\ found \in [1 .. Len(found) -> C]
        /\ \A i, j \in 1 .. Len(found) : found[i] = found[j] => i = j
        /\ \A x \in C : \E j \in 1 .. Len(found) : found[j] = x
    BY <1>2, <1>6, <1>7
  <2>2. found \in Bijection(1 .. Len(found), C)
    BY <2>1 DEF Bijection, Injection, Surjection, IsInjective
  <2>3. IsFiniteSet(1 .. Len(found)) /\ Cardinality(1 .. Len(found)) = Len(found)
    <3>1. 1 \in Int /\ Len(found) \in Int
      BY <1>4
    <3>2. /\ IsFiniteSet(1 .. Len(found))
          /\ Cardinality(1 .. Len(found)) = IF 1 > Len(found) THEN 0 ELSE Len(found) - 1 + 1
      BY <3>1, FS_Interval
    <3>3. QED
      BY <1>4, <3>2
  <2>4. ExistsBijection(1 .. Len(found), C)
    BY <2>2 DEF ExistsBijection
  <2>5. Cardinality(C) = Cardinality(1 .. Len(found))
    BY <2>3, <2>4, FS_Bijection
  <2>6. QED
    BY <2>3, <2>5
<1>8. QED
  BY <1>1, <1>3, <1>4, <1>5, <1>6, <1>7

LEMMA InitIsComplete ==
  ASSUME Init
  PROVE  CompleteInv
<1>1. QueueInv
  BY InitIsQueued
<1>2. queue = <<[folder |-> Top, depth |-> 0]>> /\ seen = {Top}
  BY DEF Init
<1>3. DOMAIN queue = {1} /\ queue[1].folder = Top /\ queue[1].depth = 0
  BY <1>2
<1>4. Walked = {}
  BY <1>2, <1>3 DEF Walked, Queued
<1>5. QED
  BY <1>1, <1>3, <1>4 DEF CompleteInv, QueueIsDeep, WalkedAreListed

(* What was listed stays so, and the rest of a turn is listed behind it. *)
LEMMA CollectedAfterTurn ==
  ASSUME TypeOK, NEW children, NEW found, Turn(children, found)
  PROVE  /\ Collected' = Collected \cup {found[j] : j \in 1 .. Len(found)}
         /\ Len(collected') = Len(collected) + Len(found) /\ Len(found) \in Nat /\ Len(collected) \in Nat
         /\ \A i \in 1 .. Len(collected) : collected'[i] = collected[i]
         /\ \A j \in 1 .. Len(found) : collected'[Len(collected) + j] = found[j]
<1>1. found \in Seq(DOMAIN tree) /\ collected \in Seq(DOMAIN tree) /\ collected' = collected \o found
  BY TurnFacts DEF TypeOK, Turn
<1>2. PICK C, D : found \in Seq(C) /\ collected \in Seq(D)
  BY <1>1
<1>3. PICK c : c = collected \o found
  OBVIOUS
<1>4. /\ Len(c) = Len(collected) + Len(found) /\ Len(found) \in Nat /\ Len(collected) \in Nat
      /\ DOMAIN c = 1 .. Len(collected) + Len(found)
      /\ \A i \in 1 .. Len(collected) : c[i] = collected[i]
      /\ \A j \in 1 .. Len(found) : c[Len(collected) + j] = found[j]
  BY <1>2, <1>3
<1>5. DOMAIN collected = 1 .. Len(collected)
  BY <1>2
<1>6. ASSUME NEW x
      PROVE  (\E i \in DOMAIN c : x = c[i])
               <=> (\E i \in DOMAIN collected : x = collected[i]) \/ \E j \in 1 .. Len(found) : x = found[j]
  <2>1. ASSUME NEW i \in DOMAIN c, x = c[i]
        PROVE  (\E l \in DOMAIN collected : x = collected[l]) \/ \E j \in 1 .. Len(found) : x = found[j]
    <3>1. CASE i <= Len(collected)
      BY <1>4, <1>5, <2>1, <3>1
    <3>2. CASE i > Len(collected)
      <4>1. i - Len(collected) \in 1 .. Len(found) /\ i = Len(collected) + (i - Len(collected))
        BY <1>4, <3>2
      <4>2. QED
        BY <1>4, <2>1, <4>1
    <3>3. QED
      BY <1>4, <3>1, <3>2
  <2>2. ASSUME NEW l \in DOMAIN collected, x = collected[l] PROVE \E i \in DOMAIN c : x = c[i]
    BY <1>4, <1>5, <2>2
  <2>3. ASSUME NEW j \in 1 .. Len(found), x = found[j] PROVE \E i \in DOMAIN c : x = c[i]
    <3>1. Len(collected) + j \in DOMAIN c
      BY <1>4
    <3>2. QED
      BY <1>4, <2>3, <3>1
  <2>4. QED
    BY <2>1, <2>2, <2>3
<1>7. collected' = c
  BY <1>1, <1>3
<1>8. Collected' = {c[i] : i \in DOMAIN c}
  BY <1>7 DEF Collected
<1>9. Collected' = Collected \cup {found[j] : j \in 1 .. Len(found)}
  BY <1>6, <1>8 DEF Collected
<1>10. QED
  BY <1>4, <1>7, <1>9

LEMMA VisitKeepsComplete ==
  ASSUME CompleteInv, Visit
  PROVE  QueueIsDeep' /\ WalkedAreListed'
<1>1. PICK children, found : Turn(children, found)
  BY VisitIsTurn
<1>2. TypeOK /\ QueueInv
  BY DEF CompleteInv, QueueInv
<1>3. UNCHANGED <<tree, recursive, cap, moved>> /\ Limit' = Limit /\ Stay' = Stay
  BY <1>1 DEF Turn, owner, Limit, Stay
<1>4. \A n : Lev(n)' = Lev(n)
  BY <1>3 DEF Lev
<1>5. SUFFICES ASSUME Len(collected') < cap PROVE QueueIsDeep' /\ WalkedAreListed'
  BY <1>3 DEF QueueIsDeep, WalkedAreListed
<1> DEFINE h == queue[1].folder
           k == queue[1].depth
<1>6. /\ Len(collected) < cap
      /\ \A x \in ChildrenOf(h) \ moved : \E j \in 1 .. Len(found) : found[j] = x
  BY <1>1, <1>2, <1>5, TurnFindsAll
<1>7. 1 \in DOMAIN queue /\ queue[1] \in Entry /\ DOMAIN queue = 1 .. Len(queue) /\ Len(queue) \in Nat
  BY <1>1, <1>2, TurnFacts DEF TypeOK
<1>8. k \in Nat /\ h \in Folders /\ k < Limit /\ Limit \in Nat /\ \A i \in DOMAIN queue : k <= queue[i].depth
  BY <1>2, <1>7, LimitIsPositive DEF Entry, QueueInv, QueueIsSorted
<1>9. /\ Walked' = Walked \cup {h} /\ seen \subseteq seen' /\ h \in seen
      /\ \A j \in 1 .. Len(found) : Descends(found[j], k) => found[j] \in seen'
  BY <1>1, <1>2, TurnSets
<1>10. Collected' = Collected \cup {found[j] : j \in 1 .. Len(found)}
  BY <1>1, <1>2, CollectedAfterTurn
<1>11. \A n \in Nat : h \in Lev(n) => k <= n
  BY <1>6, <1>7 DEF CompleteInv, QueueIsDeep
<1>12. WalkedAreListed'
  <2>1. ASSUME NEW n \in Nat, n < Limit, NEW x \in Stay, NEW d \in tree[x], d \in Lev(n), d \in Walked \cup {h}
        PROVE  x \in Collected' /\ (x \in Folders /\ n + 1 < Limit => x \in seen')
    <3>1. CASE d \in Walked
      BY <1>6, <1>9, <1>10, <2>1, <3>1 DEF CompleteInv, WalkedAreListed
    <3>2. CASE d = h
      <4>1. x \in ChildrenOf(h) \ moved
        BY <2>1, <3>2 DEF ChildrenOf, Stay
      <4>2. PICK j \in 1 .. Len(found) : found[j] = x
        BY <1>6, <4>1
      <4>3. x \in Collected'
        BY <1>10, <4>2
      <4>4. ASSUME x \in Folders, n + 1 < Limit, x \notin seen PROVE Descends(x, k)
        <5>1. k <= n /\ k + 1 < Limit
          BY <1>8, <1>11, <2>1, <3>2, <4>4
        <5>2. recursive
          BY <1>8, <5>1 DEF Limit
        <5>3. QED
          BY <4>4, <5>1, <5>2 DEF Descends, Limit
      <4>5. QED
        BY <1>9, <4>2, <4>3, <4>4
    <3>3. QED
      BY <2>1, <3>1, <3>2
  <2>2. QED
    BY <1>3, <1>4, <1>9, <2>1 DEF WalkedAreListed
<1>13. QueueIsDeep'
  <2>1. PICK q : q = queue'
    OBVIOUS
  <2>2. \A i \in DOMAIN q :
          \/ i + 1 \in DOMAIN queue /\ q[i] = queue[i + 1]
          \/ /\ q[i].depth = k + 1
             /\ \E j \in 1 .. Len(found) : q[i].folder = found[j] /\ Descends(found[j], k)
    BY <1>1, <1>2, <2>1, QueueAfterTurn
  <2>3. ASSUME NEW n \in Nat, NEW i \in DOMAIN q, q[i].folder \in Lev(n) PROVE q[i].depth <= n
    <3>1. CASE i + 1 \in DOMAIN queue /\ q[i] = queue[i + 1]
      BY <1>6, <2>3, <3>1 DEF CompleteInv, QueueIsDeep
    <3>2. CASE q[i].depth = k + 1 /\ q[i].folder \in Folders /\ q[i].folder \notin seen
      <4>1. SUFFICES ASSUME n <= k PROVE FALSE
        BY <1>8, <3>2
      <4>2. n < Limit /\ k <= Limit
        BY <1>8, <4>1
      <4>3. q[i].folder \in seen
        BY <1>6, <1>8, <2>3, <3>2, <4>1, <4>2, SeenAboveTheQueue
      <4>4. QED
        BY <3>2, <4>3
    <3>3. QED
      BY <2>2, <3>1, <3>2 DEF Descends
  <2>4. QED
    BY <1>4, <2>1, <2>3 DEF QueueIsDeep
<1>14. QED
  BY <1>12, <1>13

LEMMA MoveKeepsComplete ==
  ASSUME CompleteInv, NEW f \in DOMAIN tree, NEW to \in {{}} \cup {{d} : d \in Folders}, MoveByHand(f, to)
  PROVE  QueueIsDeep' /\ WalkedAreListed'
<1>1. /\ tree' = [tree EXCEPT ![f] = to] /\ moved' = moved \cup {f}
      /\ UNCHANGED <<recursive, cap, queue, collected, seen>>
      /\ Forest(tree)
  BY DEF MoveByHand, CompleteInv, QueueInv, TypeOK
<1> DEFINE u == [tree EXCEPT ![f] = to]
           less == DOMAIN u \ (moved \cup {f})
<1>2. Forest(u) /\ DOMAIN u = DOMAIN tree /\ \A x \in DOMAIN tree : x # f => u[x] = tree[x]
  BY <1>1 DEF Forest
<1>3. less \subseteq Stay /\ \A x \in less : x \in DOMAIN tree /\ u[x] = tree[x]
  BY <1>2 DEF Stay
<1>4. ASSUME NEW n \in Nat PROVE LevelOf(Top, n, less, u) \subseteq Lev(n)
  <2> HIDE DEF u, less
  <2>1. PICK s, t : s = Stay /\ t = tree
    OBVIOUS
  <2>2. LevelOf(Top, n, less, u) \subseteq LevelOf(Top, n, s, t)
    BY <1>1, <1>2, <1>3, <2>1, LevelsShrink
  <2>3. QED
    BY <2>1, <2>2 DEF Lev
<1>5. Stay' = less /\ tree' = u /\ \A n : Lev(n)' = LevelOf(Top, n, less, u)
  BY <1>1 DEF Stay, Lev
<1>6. Limit' = Limit /\ Walked' = Walked /\ Collected' = Collected
  BY <1>1 DEF Limit, Walked, Queued, Collected
<1> HIDE DEF u, less
<1>7. QueueIsDeep'
  BY <1>1, <1>4, <1>5 DEF QueueIsDeep, CompleteInv
<1>8. WalkedAreListed'
  <2>1. ASSUME Len(collected) < cap, NEW n \in Nat, n < Limit, NEW x \in less, NEW d \in u[x],
               d \in LevelOf(Top, n, less, u), d \in Walked
        PROVE  x \in Collected /\ (x \in Folders /\ n + 1 < Limit => x \in seen)
    <3>1. x \in Stay /\ d \in tree[x] /\ d \in Lev(n)
      BY <1>3, <1>4, <2>1
    <3>2. QED
      BY <2>1, <3>1 DEF CompleteInv, WalkedAreListed
  <2>2. QED
    BY <1>1, <1>5, <1>6, <2>1 DEF WalkedAreListed
<1>9. QED
  BY <1>7, <1>8

LEMMA StepKeepsComplete ==
  ASSUME CompleteInv, [Next]_vars
  PROVE  CompleteInv'
<1>1. QueueInv'
  BY StepKeepsQueue DEF CompleteInv
<1>2. ASSUME UNCHANGED <<tree, recursive, cap, queue, collected, seen, moved>>
      PROVE  QueueIsDeep' /\ WalkedAreListed'
  <2>1. \A n : Lev(n)' = Lev(n)
    BY <1>2 DEF Lev, Stay
  <2>2. Stay' = Stay /\ Limit' = Limit /\ Walked' = Walked /\ Collected' = Collected
    BY <1>2 DEF Stay, Limit, Walked, Queued, Collected
  <2>3. QED
    BY <1>2, <2>1, <2>2 DEF CompleteInv, QueueIsDeep, WalkedAreListed
<1>3. QueueIsDeep' /\ WalkedAreListed'
  <2>1. CASE Visit
    BY <2>1, VisitKeepsComplete
  <2>2. CASE Fail \/ Return \/ UNCHANGED vars
    BY <1>2, <2>2 DEF Fail, Return, vars, owner, query
  <2>3. CASE \E f \in DOMAIN tree, to \in {{}} \cup {{d} : d \in Folders} : MoveByHand(f, to)
    BY <2>3, MoveKeepsComplete
  <2>4. CASE Page
    BY <1>2, <2>4 DEF Page, owner
  <2>5. QED
    BY <2>1, <2>2, <2>3, <2>4 DEF Next
<1>4. QED
  BY <1>1, <1>3 DEF CompleteInv

-----------------------------------------------------------------------------
(* While nothing is moved: queued folders are on the level of their depth,  *)
(* seen ones within the limit; a file is listed for every folder it is in;  *)
(* and what has been listed is no further down than what is still to come.  *)

Pairs(s) == {e \in s \X DOMAIN tree : e[1] \in tree[e[2]]}

QueueAtItsDepth ==
  moves = 0 => /\ \A i \in DOMAIN queue : queue[i].folder \in Lev(queue[i].depth)
               /\ \A d \in seen : \E n \in Nat : n < Limit /\ d \in Lev(n)

ListedByFolder ==
  moves = 0 => /\ Len(collected) <= Cardinality(Pairs(Walked))
               /\ Len(collected) < cap => Len(collected) = Cardinality(Pairs(Walked))
               /\ truncated => Len(collected) < Cardinality(Pairs(Walked))

ListedAboveNext ==
  moves = 0 =>
    \A x \in Collected :
      /\ \E n \in 1 .. Limit : x \in Lev(n)
      /\ \A i \in DOMAIN queue : \E n \in 1 .. queue[i].depth + 1 : x \in Lev(n)

LevelByLevel ==
  moves = 0 =>
    \A i, j \in DOMAIN collected :
      i < j /\ (\A k \in 1 .. j - 1 : collected[k] # collected[j]) =>
        \A n \in Nat : n # 0 /\ collected[j] \in Lev(n) => \E m \in 1 .. n : collected[i] \in Lev(m)

QuietInv == CompleteInv /\ QueueAtItsDepth /\ ListedByFolder /\ ListedAboveNext /\ LevelByLevel

LEMMA InitIsQuiet ==
  ASSUME Init
  PROVE  QuietInv
<1>1. CompleteInv /\ TypeOK
  BY InitIsComplete, InitIsTyped
<1>2. queue = <<[folder |-> Top, depth |-> 0]>> /\ seen = {Top} /\ collected = <<>> /\ truncated = FALSE
  BY DEF Init
<1>3. DOMAIN queue = {1} /\ queue[1].folder = Top /\ queue[1].depth = 0
  BY <1>2
<1>4. Lev(0) = {Top} /\ Limit \in Nat /\ Limit # 0
  BY <1>1, LevFacts, LimitIsPositive
<1>5. QueueAtItsDepth
  <2>1. 0 \in Nat /\ 0 < Limit
    BY <1>4
  <2>2. QED
    BY <1>2, <1>3, <1>4, <2>1 DEF QueueAtItsDepth
<1>6. ListedByFolder
  <2>1. Walked = {}
    BY <1>2, <1>3 DEF Walked, Queued
  <2>2. Pairs(Walked) = {}
    BY <2>1 DEF Pairs
  <2>3. Cardinality(Pairs(Walked)) = 0
    BY <2>2, FS_EmptySet
  <2>4. QED
    BY <1>2, <2>3 DEF ListedByFolder
<1>7. ListedAboveNext /\ LevelByLevel
  BY <1>2 DEF ListedAboveNext, LevelByLevel, Collected
<1>8. QED
  BY <1>1, <1>5, <1>6, <1>7 DEF QuietInv

(* Entries for one more folder. *)
LEMMA PairsGrow ==
  ASSUME TypeOK, NEW s, IsFiniteSet(s), NEW h, h \notin s
  PROVE  /\ IsFiniteSet(Pairs(s)) /\ IsFiniteSet(Pairs(s \cup {h}))
         /\ Cardinality(Pairs(s \cup {h})) = Cardinality(Pairs(s)) + Cardinality(ChildrenOf(h))
         /\ Cardinality(Pairs(s)) \in Nat /\ Cardinality(ChildrenOf(h)) \in Nat
<1> DEFINE C == ChildrenOf(h)
           one == {e \in {h} \X DOMAIN tree : e[1] \in tree[e[2]]}
<1>1. IsFiniteSet(DOMAIN tree)
  BY DEF TypeOK, Forest
<1>2. IsFiniteSet(s \X DOMAIN tree) /\ Pairs(s) \in SUBSET (s \X DOMAIN tree)
  BY <1>1, FS_Product DEF Pairs
<1>3. IsFiniteSet(Pairs(s))
  BY <1>2, FS_Subset
<1>4. IsFiniteSet(C)
  <2>1. C \in SUBSET DOMAIN tree
    BY DEF ChildrenOf
  <2>2. QED
    BY <1>1, <2>1, FS_Subset
<1>5. IsFiniteSet(one) /\ Cardinality(one) = Cardinality(C)
  <2> DEFINE b == [x \in C |-> <<h, x>>]
  <2>1. \A x \in C : <<h, x>> \in one
    BY DEF ChildrenOf
  <2>2. \A x, y \in C : <<h, x>> = <<h, y>> => x = y
    OBVIOUS
  <2>3. b \in Injection(C, one)
    <3>1. b \in [C -> one]
      BY <2>1
    <3>2. \A x, y \in DOMAIN b : b[x] = b[y] => x = y
      BY <2>2
    <3>3. QED
      BY <3>1, <3>2 DEF Injection, IsInjective
  <2>4. \A e \in one : \E x \in C : b[x] = e
    BY DEF ChildrenOf
  <2>5. b \in Surjection(C, one)
    BY <2>3, <2>4 DEF Surjection, Injection
  <2>6. ExistsBijection(C, one)
    BY <2>3, <2>5 DEF ExistsBijection, Bijection
  <2> HIDE DEF C, one
  <2>7. QED
    BY <1>4, <2>6, FS_Bijection
<1>6. Pairs(s \cup {h}) = Pairs(s) \cup one
  BY DEF Pairs
<1>7. Pairs(s) \cap one = {}
  BY DEF Pairs
<1> HIDE DEF C, one
<1>8. /\ IsFiniteSet(Pairs(s) \cup one)
      /\ Cardinality(Pairs(s) \cup one) = Cardinality(Pairs(s)) + Cardinality(one) - Cardinality(Pairs(s) \cap one)
  BY <1>3, <1>5, FS_Union
<1>9. Cardinality({}) = 0 /\ Cardinality(Pairs(s)) \in Nat /\ Cardinality(C) \in Nat
  BY <1>3, <1>4, FS_EmptySet, CardinalityIsNat
<1>10. QED
  BY <1>3, <1>5, <1>6, <1>7, <1>8, <1>9 DEF C

(* The levels are made of Top and files of the Drive. *)
LEMMA LevelsAreOfFiles ==
  ASSUME TypeOK, NEW n \in Nat
  PROVE  Lev(n) \subseteq {Top} \cup DOMAIN tree
<1>1. CASE n = 0
  BY <1>1, LevFacts
<1>2. CASE n # 0
  <2>1. n - 1 \in Nat /\ (n - 1) + 1 = n
    BY <1>2
  <2>2. \A x : x \in Lev((n - 1) + 1) => x \in Stay
    BY <2>1, LevFacts
  <2>3. QED
    BY <2>1, <2>2 DEF Stay
<1>3. QED
  BY <1>1, <1>2

LEMMA SeenIsFinite ==
  ASSUME QuietInv, moves = 0
  PROVE  IsFiniteSet(seen) /\ IsFiniteSet(Walked)
<1>1. TypeOK
  BY DEF QuietInv, CompleteInv, QueueInv
<1>2. IsFiniteSet({Top} \cup DOMAIN tree)
  <2>1. IsFiniteSet(DOMAIN tree)
    BY <1>1 DEF TypeOK, Forest
  <2>2. IsFiniteSet(DOMAIN tree \cup {Top})
    BY <2>1, FS_AddElement
  <2>3. DOMAIN tree \cup {Top} = {Top} \cup DOMAIN tree
    OBVIOUS
  <2>4. QED
    BY <2>2, <2>3
<1>3. seen \in SUBSET ({Top} \cup DOMAIN tree)
  BY <1>1, LevelsAreOfFiles DEF QuietInv, QueueAtItsDepth
<1>4. IsFiniteSet(seen)
  BY <1>2, <1>3, FS_Subset
<1>5. Walked \in SUBSET seen
  BY DEF Walked
<1>6. QED
  BY <1>4, <1>5, FS_Subset

LEMMA VisitStaysQuiet ==
  ASSUME QuietInv, Visit
  PROVE  QueueAtItsDepth' /\ ListedByFolder' /\ ListedAboveNext' /\ LevelByLevel'
<1>1. PICK children, found : Turn(children, found)
  BY VisitIsTurn
<1>2. TypeOK /\ QueueInv /\ CompleteInv
  BY DEF QuietInv, CompleteInv, QueueInv
<1>3. /\ UNCHANGED <<tree, recursive, cap, moves, moved>>
      /\ Limit' = Limit /\ Stay' = Stay /\ pc = "walk"
      /\ truncated' = Overflows(Len(children), cap - Len(collected))
  BY <1>1 DEF Turn, owner, Limit, Stay
<1>4. \A n : Lev(n)' = Lev(n)
  BY <1>3 DEF Lev
<1>5. SUFFICES ASSUME moves = 0
               PROVE QueueAtItsDepth' /\ ListedByFolder' /\ ListedAboveNext' /\ LevelByLevel'
  BY <1>3 DEF QueueAtItsDepth, ListedByFolder, ListedAboveNext, LevelByLevel
<1> DEFINE h == queue[1].folder
           k == queue[1].depth
<1>6. /\ \A i \in DOMAIN queue : queue[i].folder \in Lev(queue[i].depth)
      /\ \A d \in seen : \E n \in Nat : n < Limit /\ d \in Lev(n)
      /\ \A x \in Collected :
           /\ \E n \in 1 .. Limit : x \in Lev(n)
           /\ \A i \in DOMAIN queue : \E n \in 1 .. queue[i].depth + 1 : x \in Lev(n)
  BY <1>5 DEF QuietInv, QueueAtItsDepth, ListedAboveNext
<1>7. 1 \in DOMAIN queue /\ queue[1] \in Entry /\ DOMAIN queue = 1 .. Len(queue) /\ Len(queue) \in Nat
  BY <1>1, <1>2, TurnFacts DEF TypeOK
<1>8. k \in Nat /\ h \in Folders /\ k < Limit /\ Limit \in Nat /\ \A i \in DOMAIN queue : k <= queue[i].depth
  BY <1>2, <1>7, LimitIsPositive DEF Entry, QueueInv, QueueIsSorted
<1>9. /\ Walked' = Walked \cup {h} /\ h \notin Walked
      /\ \A x \in seen' \ seen : \E j \in 1 .. Len(found) : x = found[j] /\ Descends(x, k)
  BY <1>1, <1>2, TurnSets
<1>10. /\ Collected' = Collected \cup {found[j] : j \in 1 .. Len(found)}
       /\ Len(collected') = Len(collected) + Len(found) /\ Len(found) \in Nat /\ Len(collected) \in Nat
       /\ \A i \in 1 .. Len(collected) : collected'[i] = collected[i]
       /\ \A j \in 1 .. Len(found) : collected'[Len(collected) + j] = found[j]
  BY <1>1, <1>2, CollectedAfterTurn
<1>11. ASSUME NEW j \in 1 .. Len(found) PROVE found[j] \in ChildrenOf(h) /\ found[j] \in Lev(k + 1)
  <2>1. found[j] \in moved \cup ChildrenOf(h)
    BY <1>1, <1>2, <1>11, TurnFacts
  <2>2. moved = {} /\ h \in Lev(k) /\ found[j] \in ChildrenOf(h)
    BY <1>2, <1>5, <1>6, <1>7, <2>1 DEF QueueInv, Stops
  <2>3. found[j] \in Stay /\ h \in tree[found[j]]
    BY <2>2 DEF ChildrenOf, Stay
  <2>4. QED
    BY <1>2, <1>8, <2>2, <2>3, LevFacts
<1>12. PICK q : q = queue'
  OBVIOUS
<1>13. \A i \in DOMAIN q :
         \/ i + 1 \in DOMAIN queue /\ q[i] = queue[i + 1]
         \/ /\ q[i].depth = k + 1
            /\ \E j \in 1 .. Len(found) : q[i].folder = found[j] /\ Descends(found[j], k)
  BY <1>1, <1>2, <1>12, QueueAfterTurn
<1>14. QueueAtItsDepth'
  <2>1. \A i \in DOMAIN q : q[i].folder \in Lev(q[i].depth)
    BY <1>6, <1>11, <1>13
  <2>2. ASSUME NEW d \in seen' PROVE \E n \in Nat : n < Limit /\ d \in Lev(n)
    <3>1. CASE d \in seen
      BY <1>6, <3>1
    <3>2. CASE d \notin seen
      <4>1. PICK j \in 1 .. Len(found) : d = found[j] /\ Descends(d, k)
        BY <1>9, <3>2
      <4>2. k + 1 < Limit /\ k + 1 \in Nat
        BY <1>8, <4>1 DEF Descends, Limit
      <4>3. QED
        BY <1>11, <4>1, <4>2
    <3>3. QED
      BY <3>1, <3>2
  <2>3. QED
    BY <1>4, <1>3, <1>12, <2>1, <2>2 DEF QueueAtItsDepth
<1>15. ListedByFolder'
  <2>1. /\ Cardinality(Pairs(Walked \cup {h})) = Cardinality(Pairs(Walked)) + Cardinality(ChildrenOf(h))
        /\ Cardinality(Pairs(Walked)) \in Nat /\ Cardinality(ChildrenOf(h)) \in Nat
    BY <1>2, <1>5, <1>9, SeenIsFinite, PairsGrow
  <2>2. /\ Len(collected) <= Cardinality(Pairs(Walked))
        /\ Len(collected) < cap => Len(collected) = Cardinality(Pairs(Walked))
    BY <1>5 DEF QuietInv, ListedByFolder
  <2>3. /\ Len(children) \in Nat /\ cap \in Nat
        /\ Len(found) = Least(cap - Len(collected), Len(children))
    BY <1>1, <1>2, TurnFacts DEF TypeOK
  <2>4. Len(found) <= Len(children) /\ Len(children) <= Cardinality(ChildrenOf(h))
    <3>1. moved = {}
      BY <1>2, <1>5 DEF QueueInv, Stops
    <3>2. /\ children \in Seq(DOMAIN tree)
          /\ \A i \in 1 .. Len(children) : children[i] \in ChildrenOf(h)
          /\ \A i, j \in 1 .. Len(children) : children[i] = children[j] => i = j
      BY <1>1, <1>2, <3>1, TurnFacts
    <3>3. children \in [1 .. Len(children) -> ChildrenOf(h)]
      BY <3>2
    <3>4. IsFiniteSet(ChildrenOf(h))
      <4>1. ChildrenOf(h) \in SUBSET DOMAIN tree
        BY DEF ChildrenOf
      <4>2. QED
        BY <1>2, <4>1, FS_Subset DEF TypeOK, Forest
    <3>5. Len(children) <= Cardinality(ChildrenOf(h))
      BY <2>3, <3>2, <3>3, <3>4, Pigeonhole
    <3>6. QED
      BY <1>10, <2>3, <3>5 DEF Least
  <2>5. Len(collected') < cap => Len(collected) < cap /\ Len(found) = Cardinality(ChildrenOf(h))
    <3>1. moved = {}
      BY <1>2, <1>5 DEF QueueInv, Stops
    <3>2. QED
      BY <1>1, <1>2, <3>1, TurnFindsAll
  <2>6. truncated' => Len(collected') = cap /\ Len(children) > cap - Len(collected)
    <3>1. QueueInv'
      BY <1>2, VisitKeepsQueue
    <3>2. QED
      BY <1>3, <3>1 DEF QueueInv, Stops, Overflows
  <2>7. Pairs(Walked)' = Pairs(Walked \cup {h})
    BY <1>3, <1>9 DEF Pairs
  <2>8. PICK p, c, m, n, l : /\ p = Cardinality(Pairs(Walked)) /\ c = Cardinality(ChildrenOf(h))
                             /\ m = Len(collected) /\ n = Len(found) /\ l = Len(children)
    OBVIOUS
  <2>9. /\ Cardinality(Pairs(Walked))' = p + c
         /\ Len(collected') = m + n
    BY <1>10, <2>1, <2>7, <2>8
  <2>10. /\ m + n <= p + c
         /\ m + n < cap => m + n = p + c
         /\ truncated' => m + n < p + c
    BY <1>10, <2>1, <2>2, <2>3, <2>4, <2>5, <2>6, <2>8
  <2>11. QED
    BY <1>3, <2>9, <2>10 DEF ListedByFolder
<1>16. ListedAboveNext'
  <2>1. ASSUME NEW x \in Collected' PROVE \E n \in 1 .. Limit : x \in Lev(n)
    <3>1. k + 1 \in 1 .. Limit
      BY <1>8
    <3>2. QED
      BY <1>6, <1>10, <1>11, <2>1, <3>1
  <2>2. ASSUME NEW i \in DOMAIN q PROVE k <= q[i].depth /\ q[i].depth \in Nat
    <3>1. CASE i + 1 \in DOMAIN queue /\ q[i] = queue[i + 1]
      <4>1. queue[i + 1] \in Entry
        BY <1>2, <3>1 DEF TypeOK
      <4>2. QED
        BY <1>8, <3>1, <4>1 DEF Entry
    <3>2. CASE q[i].depth = k + 1
      BY <1>8, <3>2
    <3>3. QED
      BY <1>13, <3>1, <3>2
  <2>3. ASSUME NEW x \in Collected', NEW i \in DOMAIN q
        PROVE  \E n \in 1 .. q[i].depth + 1 : x \in Lev(n)
    <3>1. PICK n \in 1 .. k + 1 : x \in Lev(n)
      <4>1. CASE x \in Collected
        BY <1>6, <1>7, <4>1
      <4>2. CASE x \notin Collected
        <5>1. k + 1 \in 1 .. k + 1
          BY <1>8
        <5>2. QED
          BY <1>10, <1>11, <2>3, <4>2, <5>1
      <4>3. QED
        BY <4>1, <4>2
    <3>2. n \in 1 .. q[i].depth + 1
      BY <1>8, <2>2
    <3>3. QED
      BY <3>1, <3>2
  <2>4. QED
    BY <1>3, <1>4, <1>12, <2>1, <2>3 DEF ListedAboveNext
<1>17. LevelByLevel'
  <2>1. PICK c, l : c = collected' /\ l = Len(collected)
    OBVIOUS
  <2>2. /\ DOMAIN c = 1 .. l + Len(found) /\ l \in Nat /\ DOMAIN collected = 1 .. l
        /\ \A i \in 1 .. l : c[i] = collected[i]
        /\ \A i \in l + 1 .. l + Len(found) : i - l \in 1 .. Len(found) /\ c[i] = found[i - l]
    <3>1. TypeOK'
      BY <1>2, StepKeepsTypes DEF Next
    <3>2. c \in Seq(DOMAIN tree) /\ Len(c) = l + Len(found) /\ collected \in Seq(DOMAIN tree)
      BY <1>2, <1>3, <1>10, <2>1, <3>1 DEF TypeOK
    <3>3. ASSUME NEW i \in l + 1 .. l + Len(found) PROVE i - l \in 1 .. Len(found) /\ c[i] = found[i - l]
      <4>1. i - l \in 1 .. Len(found) /\ l + (i - l) = i
        BY <1>10, <2>1
      <4>2. c[l + (i - l)] = found[i - l]
        BY <1>10, <2>1, <4>1
      <4>3. QED
        BY <4>1, <4>2
    <3>4. QED
      BY <1>10, <2>1, <3>2, <3>3
  <2>3. ASSUME NEW i \in DOMAIN c, NEW j \in DOMAIN c, i < j, \A m \in 1 .. j - 1 : c[m] # c[j],
               NEW n \in Nat, n # 0, c[j] \in Lev(n)
        PROVE  \E m \in 1 .. n : c[i] \in Lev(m)
    <3>1. CASE j <= l
      <4>1. i \in 1 .. l /\ j \in 1 .. l /\ c[i] = collected[i] /\ c[j] = collected[j]
        BY <2>2, <2>3, <3>1
      <4>2. \A m \in 1 .. j - 1 : collected[m] # collected[j]
        BY <2>2, <2>3, <4>1
      <4>3. QED
        BY <1>5, <2>2, <2>3, <4>1, <4>2 DEF QuietInv, LevelByLevel
    <3>2. CASE j > l
      <4>1. j \in l + 1 .. l + Len(found) /\ Len(found) > 0
        BY <1>10, <2>2, <3>2
      <4>2. Len(collected) < cap
        <5>1. TypeOK'
          BY <1>2, StepKeepsTypes DEF Next
        <5>2. Len(collected') <= cap /\ cap \in Nat
          BY <1>3, <5>1 DEF TypeOK
        <5>3. QED
          BY <1>10, <4>1, <5>2
      <4>3. c[j] \notin Collected
        <5>1. SUFFICES ASSUME NEW m \in DOMAIN collected, c[j] = collected[m] PROVE FALSE
          BY DEF Collected
        <5>2. m \in 1 .. j - 1 /\ c[m] = collected[m]
          BY <2>2, <4>1, <5>1
        <5>3. QED
          BY <2>3, <5>1, <5>2
      <4>4. k + 1 <= n
        <5>1. SUFFICES ASSUME n - 1 < k PROVE FALSE
          BY <1>8, <2>3
        <5>2. n - 1 \in Nat /\ (n - 1) + 1 = n /\ k <= Limit
          BY <1>8, <2>3
        <5>3. Lev((n - 1) + 1) \subseteq Collected
          BY <1>2, <1>8, <4>2, <5>1, <5>2, ListedAboveTheQueue
        <5>4. QED
          BY <2>3, <4>3, <5>2, <5>3
      <4>5. PICK m \in 1 .. k + 1 : c[i] \in Lev(m)
        <5>1. CASE i <= l
          <6>1. i \in DOMAIN collected /\ c[i] = collected[i]
            BY <2>2, <2>3, <5>1
          <6>2. c[i] \in Collected
            BY <6>1 DEF Collected
          <6>3. QED
            BY <1>6, <1>7, <6>2
        <5>2. CASE i > l
          <6>1. i \in l + 1 .. l + Len(found)
            BY <1>10, <2>2, <5>2
          <6>2. c[i] \in Lev(k + 1) /\ k + 1 \in 1 .. k + 1
            BY <1>8, <1>11, <2>2, <6>1
          <6>3. QED
            BY <6>2
        <5>3. QED
          BY <2>2, <5>1, <5>2
      <4>6. m \in 1 .. n
        BY <1>8, <4>4
      <4>7. QED
        BY <4>5, <4>6
    <3>3. QED
      BY <2>2, <3>1, <3>2
  <2>4. QED
    BY <1>4, <2>1, <2>3 DEF LevelByLevel
<1>18. QED
  BY <1>14, <1>15, <1>16, <1>17

LEMMA StepStaysQuiet ==
  ASSUME QuietInv, [Next]_vars
  PROVE  QuietInv'
<1>1. CompleteInv'
  BY StepKeepsComplete DEF QuietInv
<1>2. ASSUME UNCHANGED <<tree, recursive, cap, queue, collected, seen, truncated, moves, moved>>
      PROVE  QueueAtItsDepth' /\ ListedByFolder' /\ ListedAboveNext' /\ LevelByLevel'
  <2>1. \A n : Lev(n)' = Lev(n)
    BY <1>2 DEF Lev, Stay
  <2>2. Limit' = Limit /\ Walked' = Walked /\ Collected' = Collected /\ Pairs(Walked)' = Pairs(Walked)
    BY <1>2 DEF Limit, Walked, Queued, Collected, Pairs
  <2>3. QED
    BY <1>2, <2>1, <2>2 DEF QuietInv, QueueAtItsDepth, ListedByFolder, ListedAboveNext, LevelByLevel
<1>3. QueueAtItsDepth' /\ ListedByFolder' /\ ListedAboveNext' /\ LevelByLevel'
  <2>1. CASE Visit
    BY <2>1, VisitStaysQuiet
  <2>2. CASE Fail \/ Return \/ UNCHANGED vars
    BY <1>2, <2>2 DEF Fail, Return, vars, owner, query
  <2>3. CASE \E f \in DOMAIN tree, to \in {{}} \cup {{d} : d \in Folders} : MoveByHand(f, to)
    <3>1. moves' = moves + 1 /\ moves \in Nat
      BY <2>3 DEF MoveByHand, QuietInv, CompleteInv, QueueInv, TypeOK
    <3>2. ~ (moves' = 0)
      BY <3>1
    <3>3. QED
      BY <3>2 DEF QueueAtItsDepth, ListedByFolder, ListedAboveNext, LevelByLevel
  <2>4. CASE Page
    BY <1>2, <2>4 DEF Page, owner
  <2>5. QED
    BY <2>1, <2>2, <2>3, <2>4 DEF Next
<1>4. QED
  BY <1>1, <1>3 DEF QuietInv

-----------------------------------------------------------------------------
(* What a listing holds. *)

(* The inductive invariant of a walk: the shape of the queue, what the      *)
(* walked folders account for, and what lies above the queue.               *)
THEOREM ListInductive == Spec => []QuietInv
<1>1. Init => QuietInv
  BY InitIsQuiet
<1>2. QuietInv /\ [Next]_vars => QuietInv'
  BY StepStaysQuiet
<1>3. QED
  BY <1>1, <1>2, PTL DEF Spec

LEMMA WithinIsLevels ==
  ASSUME NEW files
  PROVE  Within(files) = UNION {LevelOf(Top, n, files, tree) : n \in 1 .. Limit}
  BY LevelIsLevelOf DEF Within

LEMMA StayWithin ==
  Within(DOMAIN tree \ moved) = UNION {Lev(n) : n \in 1 .. Limit}
<1>1. Within(Stay) = UNION {LevelOf(Top, n, Stay, tree) : n \in 1 .. Limit}
  BY WithinIsLevels
<1>2. QED
  BY <1>1 DEF Lev, Stay

(* What a listing that stopped short of the cap holds. *)
LEMMA ShortListing ==
  ASSUME CompleteInv, pc = "done", Len(collected) < cap
  PROVE  /\ queue = <<>> /\ Walked = seen
         /\ \A n \in Nat : n < Limit => Lev(n + 1) \subseteq Collected /\ Lev(n) \cap Folders \subseteq seen
<1>1. TypeOK /\ queue = <<>> /\ DOMAIN queue = {}
  BY DEF CompleteInv, QueueInv, TypeOK, Stops
<1>2. Limit \in Nat /\ Limit <= Limit
  BY <1>1, LimitIsPositive
<1>3. Walked = seen
  BY <1>1 DEF Walked, Queued
<1>4. ASSUME NEW n \in Nat, n < Limit PROVE Lev(n + 1) \subseteq Collected
  BY <1>1, <1>2, <1>4, ListedAboveTheQueue
<1>5. ASSUME NEW n \in Nat, n < Limit PROVE Lev(n) \cap Folders \subseteq seen
  <2>1. n <= Limit
    BY <1>2, <1>5
  <2>2. QED
    BY <1>1, <1>2, <1>5, <2>1, SeenAboveTheQueue
<1>6. QED
  BY <1>1, <1>3, <1>4, <1>5

LEMMA QuietLevels ==
  ASSUME TypeOK, moved = {}
  PROVE  /\ Stay = DOMAIN tree
         /\ \A n : Level(Top, n, DOMAIN tree) = Lev(n)
         /\ Reachable = UNION {Lev(n) : n \in 1 .. Limit}
<1>1. Stay = DOMAIN tree /\ DOMAIN tree \ moved = DOMAIN tree
  BY DEF Stay
<1>2. \A n : Level(Top, n, DOMAIN tree) = Lev(n)
  BY <1>1, LevelIsLevelOf DEF Lev
<1>3. QED
  BY <1>1, <1>2, StayWithin DEF Reachable

(* The entries of a complete listing. *)
LEMMA EntriesAre ==
  ASSUME TypeOK, moved = {}
  PROVE  /\ IsFiniteSet(Entries)
         /\ \A d, x : <<d, x>> \in Entries
                        <=> /\ x \in DOMAIN tree /\ d \in tree[x]
                            /\ \E n \in Nat : n < Limit /\ d \in Lev(n)
<1>1. /\ Stay = DOMAIN tree /\ \A n : Level(Top, n, DOMAIN tree) = Lev(n)
      /\ Reachable = UNION {Lev(n) : n \in 1 .. Limit} /\ Limit \in Nat
      /\ Entries = {e \in Folders \X Reachable :
                      e[1] \in tree[e[2]] /\ \E n \in 0 .. (Limit - 1) : e[1] \in Lev(n)}
  <2>1. /\ Stay = DOMAIN tree /\ \A n : Level(Top, n, DOMAIN tree) = Lev(n)
        /\ Reachable = UNION {Lev(n) : n \in 1 .. Limit}
    BY QuietLevels
  <2>2. QED
    BY <2>1, LimitIsPositive DEF Entries
<1>2. \A n \in Nat : \A x : x \in Lev(n + 1) <=> x \in Stay /\ \E d \in tree[x] : d \in Lev(n)
  BY LevFacts
<1>3. \A x \in Stay : tree[x] \subseteq Folders
  BY LevFacts
<1>4. \A n \in Nat : n < Limit <=> n \in 0 .. Limit - 1
  BY <1>1
<1>5. Reachable \subseteq DOMAIN tree
  <2>1. SUFFICES ASSUME NEW n \in 1 .. Limit, NEW x \in Lev(n) PROVE x \in DOMAIN tree
    BY <1>1
  <2>2. n - 1 \in Nat /\ (n - 1) + 1 = n
    BY <1>1
  <2>3. x \in Lev((n - 1) + 1)
    BY <2>2
  <2>4. QED
    BY <1>1, <1>2, <2>2, <2>3
<1>6. ASSUME NEW x \in DOMAIN tree, NEW d \in tree[x], NEW n \in Nat, n < Limit, d \in Lev(n)
      PROVE  x \in Reachable /\ d \in Folders
  <2>1. x \in Lev(n + 1)
    BY <1>1, <1>2, <1>6
  <2>2. n + 1 \in 1 .. Limit
    BY <1>1, <1>6
  <2>3. QED
    BY <1>1, <1>3, <2>1, <2>2
<1>7. ASSUME NEW d, NEW x
      PROVE  <<d, x>> \in Entries
               <=> /\ x \in DOMAIN tree /\ d \in tree[x]
                   /\ \E n \in Nat : n < Limit /\ d \in Lev(n)
  <2>1. <<d, x>> \in Entries
          <=> d \in Folders /\ x \in Reachable /\ d \in tree[x] /\ \E n \in 0 .. Limit - 1 : d \in Lev(n)
    BY <1>1
  <2>2. QED
    BY <1>4, <1>5, <1>6, <2>1
<1>8. IsFiniteSet(Entries)
  <2>1. IsFiniteSet(DOMAIN tree)
    BY DEF TypeOK, Forest
  <2>2. IsFiniteSet({Top} \cup DOMAIN tree)
    <3>1. IsFiniteSet(DOMAIN tree \cup {Top}) /\ DOMAIN tree \cup {Top} = {Top} \cup DOMAIN tree
      BY <2>1, FS_AddElement
    <3>2. QED
      BY <3>1
  <2>3. IsFiniteSet(({Top} \cup DOMAIN tree) \X DOMAIN tree)
    BY <2>1, <2>2, FS_Product
  <2>4. Entries \in SUBSET (({Top} \cup DOMAIN tree) \X DOMAIN tree)
    <3>1. SUFFICES ASSUME NEW e \in Entries PROVE e \in ({Top} \cup DOMAIN tree) \X DOMAIN tree
      OBVIOUS
    <3>2. e \in Folders \X Reachable /\ \E n \in 0 .. (Limit - 1) : e[1] \in Lev(n)
      BY <1>1, <3>1
    <3>3. e[1] \in {Top} \cup DOMAIN tree
      BY <1>4, <3>2, LevelsAreOfFiles
    <3>4. e = <<e[1], e[2]>> /\ e[2] \in DOMAIN tree
      BY <1>5, <3>2
    <3>5. QED
      BY <3>3, <3>4
  <2>5. QED
    BY <2>3, <2>4, FS_Subset
<1>9. QED
  BY <1>7, <1>8

(* Entries that were listed are entries of a complete listing. *)
LEMMA WalkedPairsAreEntries ==
  ASSUME QuietInv, moves = 0
  PROVE  /\ Pairs(Walked) \subseteq Entries /\ Cardinality(Pairs(Walked)) <= Cardinality(Entries)
         /\ Cardinality(Entries) \in Nat /\ Cardinality(Pairs(Walked)) \in Nat
<1>1. TypeOK /\ moved = {}
  BY DEF QuietInv, CompleteInv, QueueInv, Stops
<1>2. ASSUME NEW e \in Pairs(Walked) PROVE e \in Entries
  <2>1. e = <<e[1], e[2]>> /\ e[2] \in DOMAIN tree /\ e[1] \in tree[e[2]] /\ e[1] \in seen
    BY <1>2 DEF Pairs, Walked
  <2>2. \E n \in Nat : n < Limit /\ e[1] \in Lev(n)
    BY <2>1 DEF QuietInv, QueueAtItsDepth
  <2>3. <<e[1], e[2]>> \in Entries
    BY <1>1, <2>1, <2>2, EntriesAre
  <2>4. QED
    BY <2>1, <2>3
<1>3. IsFiniteSet(Entries)
  BY <1>1, EntriesAre
<1>4. Pairs(Walked) \in SUBSET Entries
  BY <1>2
<1>5. QED
  BY <1>3, <1>4, FS_Subset, CardinalityIsNat

LEMMA QuietIsComplete ==
  ASSUME QuietInv
  PROVE  CompleteBelowTheCap /\ TruncatedLacksSomething
<1>1. CompleteInv /\ TypeOK /\ Limit \in Nat
  BY LimitIsPositive DEF QuietInv, CompleteInv, QueueInv
<1>2. ASSUME pc = "done", Len(collected) < cap
      PROVE  Within(DOMAIN tree \ moved) \subseteq Collected
  <2>1. SUFFICES ASSUME NEW n \in 1 .. Limit PROVE Lev(n) \subseteq Collected
    BY StayWithin
  <2>2. n - 1 \in Nat /\ n - 1 < Limit /\ (n - 1) + 1 = n
    BY <1>1
  <2>3. Lev((n - 1) + 1) \subseteq Collected
    BY <1>1, <1>2, <2>2, ShortListing
  <2>4. QED
    BY <2>2, <2>3
<1>3. ASSUME pc = "done", Len(collected) < cap, moves = 0
      PROVE  Collected = Reachable /\ Len(collected) = Cardinality(Entries)
  <2>1. moved = {}
    BY <1>3 DEF QuietInv, CompleteInv, QueueInv, Stops
  <2>2. Reachable = UNION {Lev(n) : n \in 1 .. Limit}
    BY <1>1, <2>1, QuietLevels
  <2>3. Reachable \subseteq Collected
    BY <1>2, <1>3, <2>2, StayWithin
  <2>4. Collected \subseteq Reachable
    BY <1>3, <2>2 DEF QuietInv, ListedAboveNext
  <2>5. Walked = seen /\ \A n \in Nat : n < Limit => Lev(n) \cap Folders \subseteq seen
    BY <1>1, <1>3, ShortListing
  <2>6. Entries \subseteq Pairs(Walked)
    <3>1. SUFFICES ASSUME NEW e \in Entries PROVE e \in Pairs(Walked)
      OBVIOUS
    <3>2. e \in Folders \X Reachable
      BY <3>1 DEF Entries
    <3>3. e = <<e[1], e[2]>> /\ e[1] \in Folders
      BY <3>2
    <3>4. e[2] \in DOMAIN tree /\ e[1] \in tree[e[2]] /\ \E n \in Nat : n < Limit /\ e[1] \in Lev(n)
      BY <1>1, <2>1, <3>1, <3>3, EntriesAre
    <3>5. e[1] \in Walked
      BY <2>5, <3>3, <3>4
    <3>6. QED
      BY <3>3, <3>4, <3>5 DEF Pairs
  <2>7. Entries = Pairs(Walked)
    BY <1>3, <2>6, WalkedPairsAreEntries
  <2>8. QED
    BY <1>3, <2>3, <2>4, <2>7 DEF QuietInv, ListedByFolder
<1>4. TruncatedLacksSomething
  <2>1. SUFFICES ASSUME moves = 0, truncated PROVE Len(collected) < Cardinality(Entries)
    BY DEF TruncatedLacksSomething
  <2>2. Len(collected) < Cardinality(Pairs(Walked)) /\ Len(collected) \in Nat
    BY <1>1, <2>1 DEF QuietInv, ListedByFolder, TypeOK
  <2>3. QED
    BY <2>1, <2>2, WalkedPairsAreEntries
<1>5. QED
  BY <1>2, <1>3, <1>4 DEF CompleteBelowTheCap

-----------------------------------------------------------------------------
(* The order of a listing. *)

Fresh(n, x) == x \in Lev(n) /\ \A m \in 1 .. n - 1 : x \notin Lev(m)

(* A shortest path has as many different files as it has levels, so a file  *)
(* that is below Top is so within as many levels as there are files.        *)
LEMMA DepthIsLeast ==
  ASSUME TypeOK, moved = {}, NEW n \in Nat, n # 0, NEW x \in Lev(n)
  PROVE  /\ Depth(x) \in 1 .. n /\ x \in Lev(Depth(x))
         /\ \A m \in Nat : m # 0 /\ x \in Lev(m) => Depth(x) <= m
<1> DEFINE T == {m \in Nat : m # 0 /\ x \in Lev(m)}
           N == Cardinality(DOMAIN tree)
<1>1. PICK m \in T : \A l \in T : m <= l
  <2>1. T # {} /\ T \subseteq Nat
    OBVIOUS
  <2> HIDE DEF T
  <2>2. QED
    BY <2>1, LeastNumber
<1>2. /\ \A l \in Nat : \A y : y \in Lev(l + 1) <=> y \in Stay /\ \E d \in tree[y] : d \in Lev(l)
      /\ Stay = DOMAIN tree /\ \A l : Level(Top, l, DOMAIN tree) = Lev(l)
  BY LevFacts, QuietLevels
<1>3. IsFiniteSet(DOMAIN tree) /\ N \in Nat
  BY CardinalityIsNat DEF TypeOK, Forest
<1> HIDE DEF N
<1>4. m \in Nat /\ m # 0 /\ m <= n /\ Fresh(m, x)
  BY <1>1 DEF Fresh
<1> DEFINE S == {r \in Nat : r < m => \E y : Fresh(m - r, y)}
<1>5. 0 \in S
  <2>1. m - 0 = m
    BY <1>4
  <2>2. QED
    BY <1>4, <2>1
<1>6. ASSUME NEW r \in Nat, r \in S PROVE r + 1 \in S
  <2> SUFFICES ASSUME r + 1 < m PROVE \E y : Fresh(m - (r + 1), y)
    OBVIOUS
  <2>1. PICK i : i = m - (r + 1)
    OBVIOUS
  <2>2. i \in Nat /\ i # 0 /\ i + 1 = m - r /\ r < m
    BY <1>4, <2>1
  <2>3. PICK y : Fresh(i + 1, y)
    BY <1>6, <2>2
  <2>4. PICK d \in tree[y] : d \in Lev(i) /\ y \in Stay
    BY <1>2, <2>2, <2>3 DEF Fresh
  <2>5. ASSUME NEW l \in 1 .. i - 1, d \in Lev(l) PROVE FALSE
    <3>1. l \in Nat /\ l + 1 \in 1 .. (i + 1) - 1
      BY <2>2
    <3>2. y \in Lev(l + 1)
      BY <1>2, <2>4, <2>5, <3>1
    <3>3. QED
      BY <2>3, <3>1, <3>2 DEF Fresh
  <2>6. Fresh(i, d)
    BY <2>4, <2>5 DEF Fresh
  <2>7. QED
    BY <2>1, <2>6
<1>7. Nat \subseteq S
  <2> HIDE DEF S
  <2>1. QED
    BY <1>5, <1>6, Induction
<1>8. ASSUME NEW i \in 1 .. m PROVE \E y : Fresh(i, y)
  <2>1. m - i \in Nat /\ m - i < m /\ m - (m - i) = i
    BY <1>4
  <2>2. QED
    BY <1>7, <2>1
<1> DEFINE g == [i \in 1 .. m |-> CHOOSE y : Fresh(i, y)]
<1>9. ASSUME NEW i \in 1 .. m PROVE Fresh(i, g[i])
  BY <1>8
<1> HIDE DEF g
<1>10. ASSUME NEW i \in 1 .. m PROVE g[i] \in DOMAIN tree
  <2>1. i - 1 \in Nat /\ (i - 1) + 1 = i
    BY <1>4
  <2>2. g[i] \in Lev((i - 1) + 1)
    BY <1>9, <2>1 DEF Fresh
  <2>3. QED
    BY <1>2, <2>1, <2>2
<1>11. ASSUME NEW i \in 1 .. m, NEW j \in 1 .. m, g[i] = g[j], i < j PROVE FALSE
  <2>1. i \in 1 .. j - 1
    BY <1>4, <1>11
  <2>2. g[i] \in Lev(i) /\ g[j] \notin Lev(i)
    BY <1>9, <2>1 DEF Fresh
  <2>3. QED
    BY <1>11, <2>2
<1>12. m <= N
  <2>1. g \in [1 .. m -> DOMAIN tree]
    BY <1>10 DEF g
  <2>2. \A i, j \in 1 .. m : g[i] = g[j] => i = j
    <3>1. SUFFICES ASSUME NEW i \in 1 .. m, NEW j \in 1 .. m, g[i] = g[j], i # j PROVE FALSE
      OBVIOUS
    <3>2. i < j \/ j < i
      BY <1>4, <3>1
    <3>3. QED
      BY <1>11, <3>1, <3>2
  <2>3. QED
    BY <1>3, <1>4, <2>1, <2>2, Pigeonhole DEF N
<1> DEFINE IsDepth(k) == x \in Level(Top, k, DOMAIN tree) /\ \A l \in 1 .. (k - 1) : x \notin Level(Top, l, DOMAIN tree)
<1>13. m \in 1 .. N /\ IsDepth(m)
  BY <1>2, <1>3, <1>4, <1>12 DEF Fresh
<1>14. Depth(x) = CHOOSE k \in 1 .. N : IsDepth(k)
  BY DEF Depth, N
<1> HIDE DEF IsDepth
<1>15. Depth(x) \in 1 .. N /\ IsDepth(Depth(x))
  BY <1>13, <1>14
<1>16. PICK k : k = Depth(x)
  OBVIOUS
<1>17. k \in Nat /\ k # 0 /\ x \in Lev(k) /\ \A l \in 1 .. (k - 1) : x \notin Lev(l)
  BY <1>2, <1>3, <1>15, <1>16 DEF IsDepth
<1>18. k <= m
  <2>1. ~ (m \in 1 .. (k - 1))
    BY <1>4, <1>17 DEF Fresh
  <2>2. QED
    BY <1>4, <1>17, <2>1
<1>19. m <= k
  BY <1>1, <1>17
<1>20. k = m
  BY <1>4, <1>17, <1>18, <1>19
<1>21. k \in 1 .. n /\ x \in Lev(k) /\ \A l \in Nat : l # 0 /\ x \in Lev(l) => k <= l
  BY <1>1, <1>4, <1>17, <1>20
<1>22. QED
  BY <1>16, <1>21

LEMMA QuietIsBreadthFirst ==
  ASSUME QuietInv
  PROVE  BreadthFirst
<1>1. SUFFICES ASSUME moves = 0, NEW i \in DOMAIN collected, NEW j \in DOMAIN collected,
                      i < j, \A k \in 1 .. (j - 1) : collected[k] # collected[j]
               PROVE  Depth(collected[i]) <= Depth(collected[j])
  BY DEF BreadthFirst
<1>2. TypeOK /\ moved = {} /\ Limit \in Nat
  BY <1>1, LimitIsPositive DEF QuietInv, CompleteInv, QueueInv, Stops
<1>3. PICK x, y : x = collected[i] /\ y = collected[j]
  OBVIOUS
<1>4. x \in Collected /\ y \in Collected
  BY <1>3 DEF Collected
<1>5. PICK n \in 1 .. Limit : y \in Lev(n)
  BY <1>1, <1>4 DEF QuietInv, ListedAboveNext
<1>6. n \in Nat /\ n # 0
  BY <1>2
<1>7. PICK d : d = Depth(y)
  OBVIOUS
<1>8. d \in Nat /\ d # 0 /\ y \in Lev(d)
  BY <1>2, <1>5, <1>6, <1>7, DepthIsLeast
<1>9. PICK m \in 1 .. d : x \in Lev(m)
  BY <1>1, <1>3, <1>8 DEF QuietInv, LevelByLevel
<1>10. m \in Nat /\ m # 0 /\ m <= d
  BY <1>8
<1>11. PICK e : e = Depth(x)
  OBVIOUS
<1>12. e \in 1 .. m
  BY <1>2, <1>9, <1>10, <1>11, DepthIsLeast
<1>13. e <= d
  BY <1>8, <1>10, <1>12
<1>14. QED
  BY <1>3, <1>7, <1>11, <1>13

(* A listing shorter than the cap holds whatever stayed below the folder    *)
(* while it was made, on a path that stayed; and undisturbed it is all      *)
(* there is, each file once for every folder it is in.                      *)
THEOREM ShortListingsAreComplete == Spec => []CompleteBelowTheCap
<1>1. QuietInv => CompleteBelowTheCap
  BY QuietIsComplete
<1>2. QED
  BY <1>1, ListInductive, PTL

(* A listing marked truncated lacks an entry. *)
THEOREM TruncatedMeansMore == Spec => []TruncatedLacksSomething
<1>1. QuietInv => TruncatedLacksSomething
  BY QuietIsComplete
<1>2. QED
  BY <1>1, ListInductive, PTL

(* Files are listed level by level, by their shortest paths. *)
THEOREM ListingIsBreadthFirst == Spec => []BreadthFirst
<1>1. QuietInv => BreadthFirst
  BY QuietIsBreadthFirst
<1>2. QED
  BY <1>1, ListInductive, PTL
=============================================================================
