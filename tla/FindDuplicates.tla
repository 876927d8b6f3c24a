---------------------------- MODULE FindDuplicates ----------------------------
(***************************************************************************)
(* The tool find_duplicates: what list_folder collected, complete or not,  *)
(* is grouped by rules/duplicates.py.  A file is abstracted to what the    *)
(* two strategies compare: its name, and its checksum, size, type and      *)
(* time, each a number in the order of the strings the code sorts by, and  *)
(* 0 where Drive reports none.  A name is given by its history: the stem   *)
(* that its author gave it, the marks that copying it has left on that     *)
(* one after the other, and the extension.  Listings never hold trashed    *)
(* files, so that filter has nothing to do here.                           *)
(***************************************************************************)
EXTENDS ListFolder, Naming

CONSTANTS
  Looks,   \* what the documents of the Drive may look like: file -> record
  Id,      \* the order of the file ids
  Rank(_), \* the order of the tokens names are made of, and of "|"
  None

VARIABLES
  look,      \* the documents on Drive
  strategy,  \* the argument
  report     \* the groups and the unscannable files, None before the answer

allVars == <<vars, look, strategy, report>>

(* What Drive and the desktops do to the stem of a copy: a prefix, or       *)
(* one of these endings.                                                    *)
CopyOf == <<"copy", " ", "of", " ">>

Endings ==
  {<<" ", n>> : n \in Numbers} \cup {<<" ", "copy">>, <<" ", "-", " ", "copy">>} \cup
  {<<" ", "-", " ", "copy", " ", n>> : n \in Numbers}

Marked(stem, mark) == IF mark = CopyOf THEN CopyOf \o stem ELSE stem \o mark

Copied(stem, history) ==
  LET name[n \in 0..Len(history)] == IF n = 0 THEN stem ELSE Marked(name[n - 1], history[n])
  IN name[Len(history)]

(* What was copied bore no mark itself, nor a part of one, so that it can   *)
(* be told where its own name ends.                                         *)
Unmarked(stem) ==
  stem # <<>> /\ stem[1] \notin {" ", "copy"} /\ Last(stem) \notin Numbers \cup {" ", "-", "copy"}

(* What split_extension takes for one; without one, the name has no dot. *)
WithExtension(stem, ext) ==
  IF ext = <<>> THEN \A i \in DOMAIN stem : stem[i] # "."
  ELSE ext[1] = "." /\ IsExtension(Tail(ext))

Look ==
  [md5 : Nat, size : Nat, mime : Nat, time : Nat,
   stem : Seq(Tokens), history : Seq({CopyOf} \cup Endings), ext : Seq(Tokens)]

ASSUME DuplicatesAssumption ==
  /\ \A token \in Tokens \cup {"|"} : Rank(token) \in Nat
  /\ \A f \in DOMAIN Id : Id[f] \in Nat /\ \A g \in DOMAIN Id : Id[f] = Id[g] => f = g
  /\ \A t \in Trees : DOMAIN t \subseteq DOMAIN Id /\ \A l \in Looks : DOMAIN t \ Folders \subseteq DOMAIN l
  /\ \A l \in Looks : l \in [DOMAIN l -> Look]

(* What is copied up to four times, as often as the code looks.             *)
ASSUME CopiesAssumption ==
  \A l \in Looks : \A f \in DOMAIN l :
    /\ Len(l[f].history) <= MaxRounds
    /\ l[f].history # <<>> => Unmarked(l[f].stem) /\ WithExtension(l[f].stem, l[f].ext)

DupInit ==
  /\ Init
  /\ look \in Looks
  /\ strategy \in {"checksum", "metadata"}
  /\ report = None

Name(f) == Copied(look[f].stem, look[f].history) \o look[f].ext

(* The title as the strings are sorted, the separator behind it. *)
SortableTitle(f) ==
  LET title == NormalizeTitle(Name(f)) IN [i \in DOMAIN title |-> Rank(title[i])] \o <<Rank("|")>>

(* Mutant: the size is left out. *)
Key_ChecksumAlone(f) ==
  IF strategy = "checksum" THEN <<look[f].md5>>
  ELSE SortableTitle(f) \o <<look[f].mime, look[f].size>>

(* The bucket a file falls into. *)
Key(f) ==
  IF strategy = "checksum" THEN <<look[f].md5, look[f].size>>
  ELSE SortableTitle(f) \o <<look[f].mime, look[f].size>>

(* Python compares tuples, and strings, from the left; what goes on is      *)
(* greater than what ends.                                                  *)
Below(a, b) ==
  \/ Len(a) < Len(b) /\ \A i \in DOMAIN a : a[i] = b[i]
  \/ \E i \in DOMAIN a \cap DOMAIN b : a[i] < b[i] /\ \A j \in 1..(i - 1) : a[j] = b[j]

(* sorted() is stable: the files at the positions that have a key, in the   *)
(* order of the keys, and of the positions where two keys are the same.     *)
Ordered(files, key) ==
  LET before(i) == {j \in DOMAIN key : Below(key[j], key[i]) \/ (key[j] = key[i] /\ j < i)}
  IN [n \in 1..Cardinality(DOMAIN key) |->
        files[CHOOSE i \in DOMAIN key : Cardinality(before(i)) = n - 1]]

(* Mutant: files of the same time stay in the order they came in. *)
OldestFirst_ByTimeAlone(files, members) ==
  Ordered(files, [i \in members |-> <<look[files[i]].time>>])

(* _sorted: oldest first, a file without a time before all others. *)
OldestFirst(files, members) ==
  Ordered(files, [i \in members |-> <<look[files[i]].time, Id[files[i]]>>])

ById(files, positions) == Ordered(files, [i \in positions |-> <<Id[files[i]]>>])

Scannable(f) == strategy = "metadata" \/ look[f].md5 # 0

(* find_duplicates: groups in the order of their keys, then the files the   *)
(* checksum strategy can say nothing about, in the order of their ids.      *)
Duplicates(files) ==
  LET documents == {i \in DOMAIN files : files[i] \notin Folders}
      scanned == {i \in documents : Scannable(files[i])}
      key == [i \in scanned |-> Key(files[i])]
      members(k) == {i \in scanned : key[i] = k}
      keys == {k \in {key[i] : i \in scanned} : Cardinality(members(k)) > 1}
      below(k) == {l \in keys : Below(l, k)}
  IN [groups |-> [n \in 1..Cardinality(keys) |->
                    OldestFirst(files, members(CHOOSE k \in keys : Cardinality(below(k)) = n - 1))],
      unscannable |-> ById(files, documents \ scanned)]

(* list_folder goes its way; then the tool answers. *)
Answer ==
  /\ pc = "done" /\ report = None
  /\ report' = Duplicates(collected)
  /\ UNCHANGED <<vars, look, strategy>>

DupNext == (Next /\ UNCHANGED <<look, strategy, report>>) \/ Answer

DupSpec == DupInit /\ [][DupNext]_allVars

-----------------------------------------------------------------------------
Complete == report # None /\ Len(collected) < cap /\ moves = 0

Documents == Reachable \ Folders

Twins(f, g) == f # g /\ Key(f) = Key(g) /\ look[f].size = look[g].size

Grouped(f) == \E n \in DOMAIN report.groups : f \in {report.groups[n][i] : i \in DOMAIN report.groups[n]}

(* duplicates.py:64: the report is a function of the files that were        *)
(* listed, whatever order the pages came in: the same files listed in the   *)
(* order of their ids give the same, also when the listing was cut off.     *)
PageOrderDoesNotMatter ==
  report # None => report = Duplicates(ById(collected, DOMAIN collected))

(* What a person would call the same document: the same content, or as far  *)
(* as metadata tell a copy, or a copy of a copy, with the name that Drive   *)
(* or the desktop gives it.                                                 *)
SameDocument(f, g) ==
  /\ f # g /\ look[f].size = look[g].size
  /\ IF strategy = "checksum" THEN look[f].md5 = look[g].md5
     ELSE look[f].mime = look[g].mime /\ look[f].stem = look[g].stem /\ look[f].ext = look[g].ext

(* No document of a folder that fits under the cap passes for unique        *)
(* unless it is: it has no copy there, however the copies are named and     *)
(* copied again, up to four times (naming.py:89), or is in a group, or is   *)
(* listed as one nothing can be said about (duplicates.py:48).              *)
NothingIsSilentlyUnique ==
  Complete => \A f \in Documents :
    \/ Grouped(f)
    \/ \E i \in DOMAIN report.unscannable : report.unscannable[i] = f
    \/ \A g \in Documents : ~SameDocument(f, g)

(* What a group holds are twins, and the first of them, the one to keep, is *)
(* the oldest: also in a listing that was cut off (duplicates.py:87).  A    *)
(* document listed once in each of two folders makes a group with itself.   *)
GroupsAreTwins ==
  report # None => \A n \in DOMAIN report.groups :
    LET g == report.groups[n] IN
    /\ Len(g) > 1
    /\ \A i \in 2..Len(g) : (g[i] = g[1] \/ Twins(g[1], g[i])) /\ look[g[1]].time <= look[g[i]].time
=============================================================================
