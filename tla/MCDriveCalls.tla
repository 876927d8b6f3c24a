----------------------------- MODULE MCDriveCalls -----------------------------
(* Plans of two operations on two files, one of which has two       *)
(* parents, and a folder the owner may move them to.                        *)
EXTENDS DriveCalls, TLC

CONSTANTS one, two, A, B, D, X, Y, r1

Create(h)       == [op |-> "create_folder", ref |-> h, parent_id |-> D]
RenameIt(f)     == [op |-> "rename", file_id |-> f]
MoveTo(f, d, e) == [op |-> "move", file_id |-> f, new_parent_id |-> d, expected |-> e]

TwoPlans == one :> <<Create(r1), MoveTo(X, r1, A)>>
              @@ two :> <<MoveTo(Y, D, None), RenameIt(X)>>

TwoFiles == X :> {A, B} @@ Y :> {A}
=============================================================================
