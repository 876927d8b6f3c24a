------------------------------ MODULE MCPlanRun ------------------------------
(* A workspace with two folders and a file, a folder and a file outside it, *)
(* and the plans that can be made of them.  The folders a plan creates are  *)
(* numbered from 1.                                                         *)
EXTENDS PlanRun, TLC

CONSTANTS A, B, X, Out, Y, Z, r1, r2

Create(r, p, s)   == [op |-> "create_folder", ref |-> r, parent_id |-> p, safe |-> s]
RenameTo(f, s)    == [op |-> "rename", file_id |-> f, safe |-> s]
MoveTo(f, d, e)   == [op |-> "move", file_id |-> f, new_parent_id |-> d, expected |-> e]

AllIds == {Root, A, B, X, Out, Y, Z, r1, r2}

AllFolders == {Root, A, B, Out, 1, 2}

Siblings == Root :> None @@ A :> Root @@ B :> Root @@ X :> A @@ Out :> None @@ Y :> Out
Nested   == Root :> None @@ A :> Root @@ B :> A @@ X :> B @@ Out :> None @@ Y :> Out
Below    == Root :> Out @@ A :> Root @@ B :> A @@ X :> Root @@ Out :> None @@ Y :> Out

AllTrees == {Siblings, Nested, Below}

Pairs(s) == {<<a>> : a \in s} \cup {<<a, b>> : a, b \in s}

(* Every operation the checks of the validator tell apart. *)
ManyOps ==
  {Create(r1, p, TRUE) : p \in {Root, A, Out, X, r1, r2}}
  \cup {Create(r2, p, TRUE) : p \in {Root, r1}} \cup {Create(r2, B, FALSE)}
  \cup {RenameTo(f, TRUE) : f \in {Root, X, Y}} \cup {RenameTo(X, FALSE)}
  \cup {MoveTo(f, d, None) : f \in {Root, A, B, X, Y}, d \in {Root, A, B, Out, r1}}
  \cup {MoveTo(X, d, A) : d \in {Root, B, r1}}

ManyPlans == Pairs(ManyOps) \cup
  {<<Create(r1, A, TRUE), Create(r2, r1, TRUE), MoveTo(f, r2, None)>> : f \in {A, B, X}}
  \cup {<<MoveTo(Y, Root, None), MoveTo(X, B, None), MoveTo(X, A, None), RenameTo(X, TRUE)>>}

(* Fewer, in the runs of which the owner interferes. *)
FewOps ==
  {Create(r1, p, TRUE) : p \in {A, Out}}
  \cup {RenameTo(f, TRUE) : f \in {X, Y}}
  \cup {MoveTo(X, d, e) : d \in {B, r1}, e \in {None, A}}
  \cup {MoveTo(A, B, None), MoveTo(B, r1, None), MoveTo(Y, A, None)}

FewPlans == Pairs(FewOps)

TwoFolderMoves == {<<MoveTo(A, B, None), MoveTo(B, A, None)>>, <<MoveTo(X, B, None)>>}

NoPlans == {}

(* What the model may answer, sensible and not: refs declared twice, unsafe *)
(* names, files it was not shown, folders, the root, no such file.          *)
Folder(r, s)   == [ref |-> r, safe |-> s]
Assign(f, r)   == [file_id |-> f, folder_ref |-> r]
UpToTwo(s)     == {<<>>} \cup Pairs(s)

SomeDrafts ==
  [folders : UpToTwo({Folder(r1, TRUE), Folder(r1, FALSE), Folder(r2, TRUE)}),
   assignments : UpToTwo({Assign(f, r1) : f \in {X, A, Y, Root}}
                            \cup {Assign(X, r2), Assign(B, r2), Assign(Z, r1)})]

FolderDrafts ==
  {[folders |-> <<Folder(r1, TRUE)>>, assignments |-> <<Assign(f, r1), Assign(B, r1)>>] :
     f \in {A, Y}}

AllDrafts == SomeDrafts \cup FolderDrafts

(* The owner interferes with some of the plans: those of few operations,    *)
(* and what is drafted for the folder B.                                    *)
MeddledPlan ==
  \/ kind = "manual" /\ ops \in FewPlans
  \/ kind = "organization" /\ B \in MovedFiles

(* Next, but for the other plans; that the proposal comes first is asked    *)
(* before the many proposals are enumerated.                                *)
MCNext ==
  \/ phase = "start" /\ \E plan \in Plans : Propose(plan)
  \/ phase = "start" /\ \E folder \in Files, draft \in Drafts : Organize(folder, draft)
  \/ Approve \/ Revalidate \/ Execute
  \/ MeddledPlan /\ Meddle

MCSpec == Init /\ [][MCNext]_vars
=============================================================================
