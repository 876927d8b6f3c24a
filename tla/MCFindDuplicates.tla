--------------------------- MODULE MCFindDuplicates ---------------------------
(* Three folders and two documents below Top, or beside it, some of them in *)
(* two folders at once.                                                     *)
EXTENDS FindDuplicates, TLC

CONSTANTS A, B, C, X, Y

AllFolders == {Top, A, B, C}

UpToTwo(s) == {{a, b} : a, b \in s}

AllTrees ==
  {A :> {Top} @@ B :> b @@ C :> c @@ X :> x @@ Y :> y :
     b \in UpToTwo({Top, A}), c \in {{}, {Top}, {B}}, x \in UpToTwo({A, B}), y \in UpToTwo({Top, C})}

Alphabet == <<" ", "(1)", "(2)", "-", ".", "_", "copy", "of", "pdf", "photo", "report", "|">>
Order(token) == CHOOSE i \in DOMAIN Alphabet : Alphabet[i] = token
Numerals     == {"(1)", "(2)"}
SomeWords    == {"copy", "of", "pdf", "photo", "report"}
Letters(w)   == CASE w = "of" -> 2 [] w = "pdf" -> 3 [] w = "copy" -> 4 [] w = "photo" -> 5 [] w = "report" -> 6

(* Copies of copies of copies: two marks in turn, four in all. *)
Marks     == {CopyOf, <<" ", "copy">>, <<" ", "-", " ", "copy">>, <<" ", "(1)">>, <<" ", "-", " ", "copy", " ", "(2)">>}
Histories == {<<>>} \cup {<<v, w, v, w>> : v, w \in Marks}

Report == <<"report">>
Photo  == <<"_", "photo", " ", " ", "of", "_", "report">>

SomeLook(m, s, name, marks, k, t) ==
  [md5 |-> m, size |-> s, stem |-> name, history |-> marks, ext |-> <<".", "pdf">>, mime |-> k, time |-> t]

(* A document next to every kind of copy of it. *)
Copies == {X :> SomeLook(1, 1, Photo, <<>>, 1, 1) @@ Y :> SomeLook(2, 1, Photo, h, 1, 2) : h \in Histories}

(* Documents that agree in all, in the checksum alone, in the title alone,  *)
(* and documents of Google's own types, without checksum and size.          *)
SomeLooks ==
  Copies \cup
  [{X, Y} -> {SomeLook(1, 1, Report, <<>>, 1, 1), SomeLook(1, 1, Photo, <<>>, 1, 0),
              SomeLook(1, 2, Report, <<<<" ", "copy">>>>, 1, 1), SomeLook(0, 0, Report, <<>>, 2, 1),
              SomeLook(0, 0, Report, <<<<" ", "(1)">>>>, 3, 2)}]

OneLook == {[f \in {X, Y} |-> SomeLook(1, 1, Report, <<>>, 1, 1)]}

(* Copies are looked for in complete listings; and since looks matter to no *)
(* listing, only files of one look are listed without the folders below, or *)
(* moved by the owner.                                                      *)
MCInit ==
  /\ DupInit
  /\ recursive \/ look \in OneLook
  /\ look \in Copies => strategy = "metadata" /\ \A n \in Caps : n <= cap
  /\ patience = IF look \in OneLook /\ strategy = "checksum" THEN MaxMoves ELSE 0

MCSpec == MCInit /\ [][DupNext]_allVars

Ids == A :> 3 @@ B :> 4 @@ C :> 5 @@ X :> 1 @@ Y :> 2
=============================================================================
