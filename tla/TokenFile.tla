------------------------------ MODULE TokenFile ------------------------------
(***************************************************************************)
(* The token file: load_credentials (drive/auth.py), as every start of the *)
(* server or of a cwops command runs it on the Google backend, not         *)
(* interactive (drive/client.py), and as cwops auth runs it, interactive.  *)
(* They are processes of their own, and the file is all they share: it is  *)
(* truncated and written in place, in two system calls, by whoever         *)
(* refreshed the token in it or was given a new one.                       *)
(*                                                                         *)
(* A token is abstracted to the authorization it belongs to, numbered in   *)
(* the order of the consents, and to the length of its JSON.  Google is    *)
(* external: an authorization dies after days or when it is revoked.  A    *)
(* token may turn out to be expired whenever it is read.  All carry the    *)
(* scope they are asked for, so _assert_least_privilege stops none.        *)
(***************************************************************************)
EXTENDS Integers, FiniteSets

CONSTANTS
  Starts,      \* starts of the server, and commands, that load the token
  Auths,       \* runs of cwops auth
  Lengths,     \* the lengths of a stored token
  MaxDeletes   \* bound: how often the operator deletes the file

ASSUME TokenAssumption ==
  /\ Starts \cap Auths = {}
  /\ Lengths \subseteq Nat \ {0} /\ MaxDeletes \in Nat

VARIABLES
  file,      \* the token file
  issued,    \* Google: how many authorizations were given
  alive,     \* Google: those whose refresh token still works
  pc,        \* each process: its step, or how it ended
  cred,      \* each process: the authorization it holds, 0 for none
  linked,    \* the writers whose open file is still the token file
  crashed,   \* history: a process died between opening and writing
  overlap,   \* history: two processes had the file open for writing at once
  deletes,   \* history: how often the file was deleted
  together,  \* history: two processes were at work at once
  newest     \* history: the latest authorization that was saved

google  == <<issued, alive>>
history == <<crashed, overlap, deletes, together, newest>>
vars    == <<file, google, pc, cred, linked, history>>

Processes == Starts \cup Auths

(* What the file holds: nothing, since it is not there; a token; or text    *)
(* that is none, empty or with the end of a longer token behind a shorter.  *)
Absent      == [what |-> "absent", auth |-> 0, len |-> 0]
Junk(n)     == [what |-> "junk", auth |-> 0, len |-> n]
Token(a, n) == [what |-> "token", auth |-> a, len |-> n]

Init ==
  /\ file = Absent
  /\ issued = 0 /\ alive = {}
  /\ pc = [p \in Processes |-> "load"]
  /\ cred = [p \in Processes |-> 0]
  /\ linked = {}
  /\ crashed = FALSE /\ overlap = FALSE /\ deletes = 0
  /\ together = FALSE /\ newest = 0

AtWork == {p \in Processes : pc[p] \in {"refresh", "consent", "open", "write"}}

Goto(p, l) == pc' = [pc EXCEPT ![p] = l]

(* A process has looked at the file and knows what to do. *)
Decide(p, l) ==
  /\ Goto(p, l)
  /\ together' = (together \/ AtWork # {})
  /\ UNCHANGED <<file, google, linked, crashed, overlap, deletes, newest>>

(* There is a token: it is used as it is, or refreshed when it has expired. *)
LoadToken(p) ==
  /\ pc[p] = "load" /\ file.what = "token"
  /\ \E l \in {"done", "refresh"} : Decide(p, l)
  /\ cred' = [cred EXCEPT ![p] = file.auth]

(* The file is not a token: ConfigurationError, "delete it and re-run". *)
LoadJunk(p) ==
  /\ pc[p] = "load" /\ file.what = "junk"
  /\ Decide(p, "unreadable")
  /\ UNCHANGED cred

(* There is no file: cwops auth asks for consent, all others give up. *)
LoadNothing(p) ==
  /\ pc[p] = "load" /\ file.what = "absent"
  /\ Decide(p, IF p \in Auths THEN "consent" ELSE "unusable")
  /\ UNCHANGED cred

(* credentials.refresh: Google gives another token of the authorization; or *)
(* it is dead, or the network is, and the exception goes through to the top.*)
Refresh(p) ==
  /\ pc[p] = "refresh"
  /\ \/ cred[p] \in alive /\ Goto(p, "open")
     \/ Goto(p, "raised")
  /\ UNCHANGED <<file, google, cred, linked, history>>

(* run_local_server: the operator consents, or does not. *)
Consent(p) ==
  /\ pc[p] = "consent"
  /\ \/ /\ issued' = issued + 1
        /\ alive' = alive \cup {issued'}
        /\ cred' = [cred EXCEPT ![p] = issued']
        /\ Goto(p, "open")
     \/ Goto(p, "raised") /\ UNCHANGED <<google, cred>>
  /\ UNCHANGED <<file, linked, history>>

(* Mutant: the file is opened without being truncated. *)
Open_Keeps(p) ==
  /\ pc[p] = "open"
  /\ file' = IF file = Absent THEN Junk(0) ELSE file
  /\ linked' = linked \cup {p}
  /\ overlap' = (overlap \/ linked # {})
  /\ Goto(p, "write")
  /\ UNCHANGED <<google, cred, crashed, deletes, together, newest>>

(* _save, write_text: the file is opened, created or truncated. *)
Open(p) ==
  /\ pc[p] = "open"
  /\ file' = Junk(0)
  /\ linked' = linked \cup {p}
  /\ overlap' = (overlap \/ linked # {})
  /\ Goto(p, "write")
  /\ UNCHANGED <<google, cred, crashed, deletes, together, newest>>

(* _save, write_text: the token is written from the start of the file, over *)
(* what another wrote since; a longer text keeps its end.                   *)
Write(p) ==
  /\ pc[p] = "write"
  /\ \E n \in Lengths :
       file' = IF p \notin linked THEN file
               ELSE IF n >= file.len THEN Token(cred[p], n) ELSE Junk(file.len)
  /\ linked' = linked \ {p}
  /\ newest' = IF cred[p] > newest THEN cred[p] ELSE newest
  /\ Goto(p, "done")
  /\ UNCHANGED <<google, cred, crashed, overlap, deletes, together>>

(* The process is killed, or the write fails. *)
Crash(p) ==
  /\ p \in AtWork
  /\ Goto(p, "crashed")
  /\ crashed' = (crashed \/ p \in linked)
  /\ linked' = linked \ {p}
  /\ UNCHANGED <<file, google, cred, overlap, deletes, together, newest>>

(* The operator deletes the file; who has it open writes to the deleted one. *)
Delete ==
  /\ deletes < MaxDeletes /\ file # Absent
  /\ file' = Absent
  /\ linked' = {}
  /\ deletes' = deletes + 1
  /\ UNCHANGED <<google, pc, cred, crashed, overlap, together, newest>>

(* Google: a refresh token dies. *)
Die(a) ==
  /\ alive' = alive \ {a}
  /\ UNCHANGED <<file, issued, pc, cred, linked, history>>

Next ==
  \/ \E p \in Processes :
       \/ LoadToken(p) \/ LoadJunk(p) \/ LoadNothing(p)
       \/ Refresh(p) \/ Consent(p) \/ Open(p) \/ Write(p) \/ Crash(p)
  \/ \E a \in alive : Die(a)
  \/ Delete

Spec == Init /\ [][Next]_vars

-----------------------------------------------------------------------------
(* Nobody finds the file damaged for good unless a save was cut short, or   *)
(* two saves overlapped: while one is under way it is empty, and a process  *)
(* that starts just then is told to delete it (auth.py:47).                 *)
DamageNeedsACrashOrAnOverlap ==
  file.what = "junk" => linked # {} \/ crashed \/ overlap

(* Processes that run one after the other lose nothing: what the last save  *)
(* left is a token of the newest authorization ever saved, unless the file  *)
(* was deleted.  A server that starts while cwops auth runs may put the     *)
(* authorization back that cwops auth has just replaced (auth.py:76).       *)
SoloRunsKeepTheNewest ==
  ~together /\ ~crashed /\ AtWork = {} =>
    file = Absent \/ (file.what = "token" /\ file.auth = newest)
=============================================================================
