--------------------------- MODULE MCWorkspaceView ---------------------------
(* A file in a folder outside the workspace, with a second parent inside,   *)
(* and the two provisioning commands.                                       *)
EXTENDS WorkspaceView, TLC

CONSTANTS A, B, X, Out, init, seed, MyDrive

(* init creates a folder, seed creates documents. *)
AllFolders == {Root, A, B, Out, MyDrive, File(init, 1), File(init, 2)}

OneDrive == {Root :> <<>> @@ A :> <<Root>> @@ X :> <<B, A>> @@ Out :> <<>> @@ B :> <<Out>>}

SomeAsked == {{X}, {A, File(seed, 1)}}

Quotas  == init :> 1 @@ seed :> 2
Targets == init :> MyDrive @@ seed :> Root
=============================================================================
