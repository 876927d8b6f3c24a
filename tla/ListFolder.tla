------------------------------ MODULE ListFolder ------------------------------
(***************************************************************************)
(* Workspace.list_folder: the children of a folder, or with "recursive" of *)
(* the folders below it too, level by level, until "cap" files are         *)
(* collected.  Drive returns the children of a folder in an order of its   *)
(* own, a page at a time, and no more of them than asked for; a file may   *)
(* have more than one parent and is then a child of each.  Each page is a  *)
(* request, and the owner may move files between any two of them.          *)
(***************************************************************************)
EXTENDS Integers, Sequences, FiniteSets

CONSTANTS
  Trees,      \* the Drives: file -> its parents
  Folders,    \* the files that are folders
  Top,        \* the folder that is listed
  Caps,       \* the values min(limit, max_files) may have
  PageSize,   \* the most files one request asks for
  MaxDepth,   \* MAX_RECURSION_DEPTH
  MaxMoves    \* bound: files moved while the folder is listed

ASSUME ListAssumption ==
  /\ Top \in Folders
  /\ Caps \subseteq Nat /\ MaxMoves \in Nat
  /\ MaxDepth \in Nat \ {0} /\ PageSize \in Nat \ {0}
  /\ \A t \in Trees : IsFiniteSet(DOMAIN t) /\ t \in [DOMAIN t -> SUBSET Folders]

VARIABLES
  tree, recursive, cap,   \* Drive and the arguments
  queue,       \* folders to visit, with their depth
  listed,      \* the children of the first of them, as far as the pages have come
  more,        \* a page came with a token: there may be more
  shifted,     \* what the owner moved since the first page
  collected,   \* the files found
  seen,        \* the folders that have been queued
  truncated,
  pc,
  patience,    \* how often the owner moves a file at most
  moves,       \* history: how often the owner moved a file
  moved,       \* history: the files that were moved
  ever         \* history: the files that were below Top at some time

owner == <<patience, moves, moved, ever>>
query == <<listed, more, shifted>>
vars == <<tree, recursive, cap, queue, query, collected, seen, truncated, pc, owner>>

ChildrenOf(f) == {x \in DOMAIN tree : f \in tree[x]}

(* The files n levels below a folder, by some path through these files. *)
Level(top, n, files) ==
  LET level[k \in 0..n] ==
        IF k = 0 THEN {top} ELSE UNION {ChildrenOf(f) \cap files : f \in level[k - 1] \cap Folders}
  IN level[n]

Under(top) ==
  LET under[n \in 0..Cardinality(DOMAIN tree)] ==
        IF n = 0 THEN {} ELSE UNION {ChildrenOf(f) : f \in {top} \cup (under[n - 1] \cap Folders)}
  IN under[Cardinality(DOMAIN tree)]

Init ==
  /\ tree \in Trees
  /\ recursive \in BOOLEAN
  /\ cap \in Caps
  /\ queue = <<[folder |-> Top, depth |-> 0]>>
  /\ listed = <<>> /\ more = FALSE /\ shifted = {}
  /\ collected = <<>>
  /\ seen = {Top}
  /\ truncated = FALSE
  /\ pc = "walk"
  /\ patience \in 0..MaxMoves
  /\ moves = 0 /\ moved = {} /\ ever = Under(Top)

Least(a, b) == IF a < b THEN a ELSE b

(* Mutant: the query does not name the folder. *)
Pages_OfAll(f) ==
  LET left == DOMAIN tree \ {listed[i] : i \in DOMAIN listed}
  IN {s \in UNION {[1..n -> left] : n \in 0..Least(cap - Len(listed), PageSize)} :
        \A i, j \in DOMAIN s : i # j => s[i] # s[j]}

(* What one request may bring: children the pages before did not have, in   *)
(* any order, and no more than are asked for.                               *)
Pages(f) ==
  LET left == ChildrenOf(f) \ {listed[i] : i \in DOMAIN listed}
  IN {s \in UNION {[1..n -> left] : n \in 0..Least(cap - Len(listed), PageSize)} :
        \A i, j \in DOMAIN s : i # j => s[i] # s[j]}

(* A page comes with a token, and list_children asks for the next.          *)
Page ==
  /\ pc = "walk" /\ queue # <<>>
  /\ \E page \in Pages(Head(queue).folder) : listed' = listed \o page
  /\ Len(listed') < cap
  /\ more' = TRUE
  /\ UNCHANGED <<tree, recursive, cap, queue, shifted, collected, seen, truncated, pc, owner>>

(* Mutant: a folder at the last depth is walked as well. *)
Descends_TooDeep(f, depth) == recursive /\ f \in Folders /\ f \notin seen /\ depth < MaxDepth

Descends(f, depth) == recursive /\ f \in Folders /\ f \notin seen /\ depth + 1 < MaxDepth

(* Mutant: folders are walked as soon as they are found. *)
Enqueued_First(rest, found, depth) ==
  LET queued[n \in 0..Len(found)] ==
        IF n = 0 THEN rest
        ELSE IF Descends(found[n], depth)
             THEN <<[folder |-> found[n], depth |-> depth + 1]>> \o queued[n - 1]
             ELSE queued[n - 1]
  IN queued[Len(found)]

(* The queue with the folders that were found behind it. *)
Enqueued(rest, found, depth) ==
  LET queued[n \in 0..Len(found)] ==
        IF n = 0 THEN rest
        ELSE IF Descends(found[n], depth)
             THEN Append(queued[n - 1], [folder |-> found[n], depth |-> depth + 1])
             ELSE queued[n - 1]
  IN queued[Len(found)]

(* Mutant: a full list is a truncated one. *)
Overflows_WhenFull(n, room) == n >= room

(* A child was met when cap files had been collected. *)
Overflows(n, room) == n > room

(* Nothing is left for another page; what is moved while Drive answers may  *)
(* never come.                                                              *)
LastPage(children) == ChildrenOf(Head(queue).folder) \ shifted \subseteq {children[i] : i \in DOMAIN children}

(* The last page arrives, and with it the while loop has its turn. *)
Visit ==
  /\ pc = "walk" /\ queue # <<>>
  /\ \E page \in Pages(Head(queue).folder) :
       LET children == listed \o page
           room  == cap - Len(collected)
           found == SubSeq(children, 1, Least(room, Len(children)))
       IN /\ Len(children) = cap \/ LastPage(children)
          /\ collected' = collected \o found
          /\ queue' = Enqueued(Tail(queue), found, Head(queue).depth)
          /\ seen' = seen \cup {queue'[i].folder : i \in DOMAIN queue'}
          /\ truncated' = Overflows(Len(children), room)
          /\ pc' = IF truncated' THEN "done" ELSE "walk"
  /\ listed' = <<>> /\ more' = FALSE /\ shifted' = {}
  /\ UNCHANGED <<tree, recursive, cap, owner>>

(* list_children raises: the tool fails, and nothing is recorded. *)
Fail ==
  /\ pc = "walk" /\ queue # <<>>
  /\ pc' = "failed"
  /\ UNCHANGED <<tree, recursive, cap, queue, query, collected, seen, truncated, owner>>

Return ==
  /\ pc = "walk" /\ queue = <<>>
  /\ pc' = "done"
  /\ UNCHANGED <<tree, recursive, cap, queue, query, collected, seen, truncated, owner>>

(* The owner moves a file into another folder, or to where no folder below  *)
(* Top is; Drive never lets it make a cycle.                                *)
MoveByHand(f, to) ==
  /\ pc = "walk" /\ moves < patience
  /\ tree[f] # to /\ \A d \in to : d # f /\ d \notin Under(f)
  /\ tree' = [tree EXCEPT ![f] = to]
  /\ moves' = moves + 1
  /\ moved' = moved \cup {f}
  /\ ever' = ever \cup Under(Top)'
  /\ shifted' = IF more THEN shifted \cup {f} ELSE shifted
  /\ UNCHANGED <<recursive, cap, queue, listed, more, collected, seen, truncated, pc, patience>>

Next ==
  \/ Page \/ Visit \/ Fail \/ Return
  \/ \E f \in DOMAIN tree, to \in {{}} \cup {{d} : d \in Folders} : MoveByHand(f, to)

Spec == Init /\ [][Next]_vars

-----------------------------------------------------------------------------
Collected == {collected[i] : i \in DOMAIN collected}

Limit == IF recursive THEN MaxDepth ELSE 1

(* What lies below Top by a path of these files, down to the depth limit. *)
Within(files) == UNION {Level(Top, n, files) : n \in 1..Limit}

Reachable == Within(DOMAIN tree)

(* How far below Top a file is, by the shortest path. *)
Depth(f) ==
  CHOOSE n \in 1..Cardinality(DOMAIN tree) :
    /\ f \in Level(Top, n, DOMAIN tree)
    /\ \A m \in 1..(n - 1) : f \notin Level(Top, m, DOMAIN tree)

(* What a complete listing is made of: a file is an entry of each of its    *)
(* folders.                                                                 *)
Entries ==
  {e \in Folders \X Reachable :
     e[1] \in tree[e[2]] /\ \E n \in 0..(Limit - 1) : e[1] \in Level(Top, n, DOMAIN tree)}

(* A listing shorter than the cap is the whole of what lies below the       *)
(* folder, down to the depth limit, each folder walked once although two    *)
(* paths may lead to it (workspace.py:58).  Files may get lost while others *)
(* are moved, but none that stayed where it was, with a path of folders     *)
(* above it that stayed as well.                                            *)
CompleteBelowTheCap ==
  pc = "done" /\ Len(collected) < cap =>
    /\ Within(DOMAIN tree \ moved) \subseteq Collected
    /\ moves = 0 => Collected = Reachable /\ Len(collected) = Cardinality(Entries)

(* The requests of a walk see Drive at different times.  With one file      *)
(* moved meanwhile, whatever is listed was below the folder at some time    *)
(* (workspace.py:58); with two moves that is no longer so: a folder that is *)
(* still to be walked is moved out, and a file into it.                     *)
OneMoveListsNothingForeign == moves <= 1 => Collected \subseteq ever

(* Files come level by level, so what the cap cuts off is never above what  *)
(* is there (workspace.py:59).                                              *)
BreadthFirst ==
  moves = 0 => \A i, j \in DOMAIN collected :
    i < j /\ (\A k \in 1..(j - 1) : collected[k] # collected[j])
      => Depth(collected[i]) <= Depth(collected[j])

(* A listing marked truncated does lack an entry (workspace.py:62).         *)
TruncatedLacksSomething == moves = 0 /\ truncated => Len(collected) < Cardinality(Entries)

(* workspace.py:51: the second result says whether the first was truncated. *)
UntruncatedIsComplete == pc = "done" /\ ~truncated /\ moves = 0 => Collected = Reachable
=============================================================================
