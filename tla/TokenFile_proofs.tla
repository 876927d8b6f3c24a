--------------------------- MODULE TokenFile_proofs ---------------------------
(***************************************************************************)
(* Theorems about TokenFile, for any number of processes and tokens of any *)
(* length.                                                                 *)
(***************************************************************************)
EXTENDS TokenFile, TLAPS

Types ==
  /\ file \in [what : {"absent", "junk", "token"}, auth : Nat, len : Nat]
  /\ file.what = "token" => file.auth <= issued
  /\ file.what = "absent" => file = Absent
  /\ issued \in Nat /\ newest \in Nat /\ newest <= issued
  /\ pc \in [Processes -> {"load", "refresh", "consent", "open", "write", "done",
                           "unreadable", "unusable", "raised", "crashed"}]
  /\ cred \in [Processes -> 0..issued]
  /\ linked \subseteq {p \in Processes : pc[p] = "write"}
  /\ crashed \in BOOLEAN /\ overlap \in BOOLEAN /\ together \in BOOLEAN

(* Saves that did not overlap: one writer at most has the file open, it is  *)
(* empty as long, and a token once the writer is through.                   *)
OneWriter ==
  ~overlap =>
    /\ \A p, q \in linked : p = q
    /\ linked # {} => file.len = 0
    /\ file.what = "junk" => linked # {} \/ crashed

(* Absent, or a token of the newest authorization. *)
Good == file.what = "absent" \/ (file.what = "token" /\ file.auth = newest)

(* Processes that never met: what the only one at work knows at each step.  *)
OneAtWork ==
  ~together /\ ~crashed =>
    /\ \A p, q \in AtWork : p = q
    /\ \A p \in Processes :
         /\ pc[p] \in {"refresh", "open", "write"} => cred[p] >= newest
         /\ pc[p] \in {"refresh", "consent", "open"} => Good
         /\ pc[p] = "write" => file.what = "absent" \/ (p \in linked /\ file.len = 0)
    /\ AtWork = {} => Good

TokenInv == Types /\ OneWriter /\ OneAtWork

-----------------------------------------------------------------------------
(* The steps of one process. *)
Step(p) == \/ LoadToken(p) \/ LoadJunk(p) \/ LoadNothing(p)
           \/ Refresh(p) \/ Consent(p) \/ Open(p) \/ Write(p) \/ Crash(p)

LEMMA NextIsASteps ==
  Next => (\E p \in Processes : Step(p)) \/ (\E a \in alive : Die(a)) \/ Delete
BY DEF Next, Step

(* What may be put into the file has the type of the variable. *)
LEMMA Contents ==
  /\ Absent \in [what : {"absent", "junk", "token"}, auth : Nat, len : Nat]
  /\ \A n \in Nat : Junk(n) \in [what : {"absent", "junk", "token"}, auth : Nat, len : Nat]
  /\ \A a, n \in Nat : Token(a, n) \in [what : {"absent", "junk", "token"}, auth : Nat, len : Nat]
BY DEF Absent, Junk, Token

LEMMA TypesStep == Types /\ [Next]_vars => Types'
<1> SUFFICES ASSUME Types, [Next]_vars PROVE Types'
  OBVIOUS
<1> USE DEF Types
<1>1. CASE \E p \in Processes : Step(p)
  <2> PICK p \in Processes : Step(p)
    BY <1>1
  <2>1. CASE LoadToken(p)
    BY <2>1 DEF LoadToken, Decide, Goto, google
  <2>2. CASE LoadJunk(p)
    BY <2>2 DEF LoadJunk, Decide, Goto, google
  <2>3. CASE LoadNothing(p)
    BY <2>3 DEF LoadNothing, Decide, Goto, google
  <2>4. CASE Refresh(p)
    BY <2>4 DEF Refresh, Goto, google, history
  <2>5. CASE Consent(p)
    <3>1. CASE UNCHANGED <<google, cred>>
      BY <2>5, <3>1 DEF Consent, Goto, google, history
    <3>2. CASE issued' = issued + 1 /\ cred' = [cred EXCEPT ![p] = issued']
      <4>1. issued' \in Nat /\ issued <= issued'
        BY <3>2
      <4>2. 0..issued \subseteq 0..issued' /\ issued' \in 0..issued'
        BY <4>1
      <4>3. cred' \in [Processes -> 0..issued']
        BY <3>2, <4>2
      <4> QED BY <2>5, <4>1, <4>3 DEF Consent, Goto, history
    <3> QED BY <2>5, <3>1, <3>2 DEF Consent
  <2>6. CASE Open(p)
    <3>1. file' = Junk(0) /\ file' \in [what : {"absent", "junk", "token"}, auth : Nat, len : Nat]
      BY <2>6, Contents DEF Open
    <3>2. file'.what = "junk"
      BY <3>1 DEF Junk
    <3>3. pc' = [pc EXCEPT ![p] = "write"] /\ linked' = linked \cup {p}
      BY <2>6 DEF Open, Goto
    <3>4. overlap' \in BOOLEAN
      BY <2>6 DEF Open
    <3> QED BY <2>6, <3>1, <3>2, <3>3, <3>4 DEF Open, google
  <2>7. CASE Write(p)
    <3> PICK n \in Lengths : file' = IF p \notin linked THEN file
                            ELSE IF n >= file.len THEN Token(cred[p], n) ELSE Junk(file.len)
      BY <2>7 DEF Write
    <3>1. n \in Nat BY TokenAssumption
    <3>2. cred[p] \in Nat /\ cred[p] <= issued OBVIOUS
    <3>3. /\ file' \in [what : {"absent", "junk", "token"}, auth : Nat, len : Nat]
          /\ file'.what = "token" => file'.auth <= issued
          /\ file'.what = "absent" => file' = Absent
      BY <3>1, <3>2, Contents DEF Token, Junk
    <3> QED BY <2>7, <3>2, <3>3 DEF Write, Goto, google
  <2>8. CASE Crash(p)
    BY <2>8 DEF Crash, Goto, google
  <2> QED BY <2>1, <2>2, <2>3, <2>4, <2>5, <2>6, <2>7, <2>8 DEF Step
<1>2. CASE \E a \in alive : Die(a)
  BY <1>2 DEF Die, history
<1>3. CASE Delete
  BY <1>3, Contents DEF Delete, google, Absent
<1>4. CASE UNCHANGED vars
  BY <1>4 DEF vars, google, history
<1> QED BY <1>1, <1>2, <1>3, <1>4, NextIsASteps

LEMMA OneWriterStep == Types /\ OneWriter /\ [Next]_vars => OneWriter'
<1> SUFFICES ASSUME Types, OneWriter, [Next]_vars PROVE OneWriter'
  OBVIOUS
<1>1. CASE UNCHANGED <<file, linked, crashed, overlap>>
  BY <1>1 DEF OneWriter
<1>2. CASE \E p \in Processes : Step(p)
  <2> PICK p \in Processes : Step(p)
    BY <1>2
  <2>1. CASE LoadToken(p) \/ LoadJunk(p) \/ LoadNothing(p) \/ Refresh(p) \/ Consent(p)
    BY <1>1, <2>1 DEF LoadToken, LoadJunk, LoadNothing, Decide, Refresh, Consent, history
  <2>2. CASE Open(p)
    BY <2>2 DEF Open, Junk, OneWriter, Types
  <2>3. CASE Write(p)
    <3> SUFFICES ASSUME ~overlap, p \in linked PROVE OneWriter'
      BY <1>1, <2>3 DEF Write, OneWriter
    <3>1. linked' = {}
      BY <2>3 DEF Write, OneWriter
    <3>2. file.len = 0
      BY DEF OneWriter
    <3>3. file'.what = "token"
      BY <2>3, <3>2, TokenAssumption DEF Write, Token
    <3> QED BY <3>1, <3>3 DEF OneWriter
  <2>4. CASE Crash(p)
    BY <2>4 DEF Crash, OneWriter, Types
  <2> QED BY <2>1, <2>2, <2>3, <2>4 DEF Step
<1>3. CASE \E a \in alive : Die(a)
  BY <1>1, <1>3 DEF Die, history
<1>4. CASE Delete
  BY <1>4 DEF Delete, OneWriter, Absent
<1> QED BY <1>1, <1>2, <1>3, <1>4, NextIsASteps DEF vars, history

Steps == {"refresh", "consent", "open", "write"}

(* While only p is at work, its step leaves no other at work. *)
LEMMA NobodyElse ==
  ASSUME Types, NEW p \in Processes, NEW l, Goto(p, l), AtWork \subseteq {p}
  PROVE  /\ pc'[p] = l
         /\ \A q \in Processes \ {p} : pc'[q] = pc[q] /\ pc'[q] \notin Steps
         /\ l \in Steps => AtWork' = {p}
         /\ l \notin Steps => AtWork' = {}
BY DEF Types, Goto, AtWork, Steps

LEMMA OneAtWorkStep == Types /\ OneAtWork /\ [Next]_vars => OneAtWork'
<1> SUFFICES ASSUME Types, OneAtWork, [Next]_vars, ~together', ~crashed' PROVE OneAtWork'
  BY DEF OneAtWork
<1>1. CASE UNCHANGED <<file, pc, cred, linked, crashed, together, newest>>
  BY <1>1 DEF OneAtWork, Good, AtWork
<1>2. CASE \E p \in Processes : Step(p)
  <2> PICK p \in Processes : Step(p)
    BY <1>2
  <2>0. ~together /\ ~crashed
    BY DEF Step, LoadToken, LoadJunk, LoadNothing, Decide, Refresh, Consent, Open, Write, Crash,
           history, Types
  <2>1. (\A q \in AtWork : q = p) \/ AtWork = {} => AtWork \subseteq {p}
    OBVIOUS
  <2>2. ASSUME NEW l, Goto(p, l), AtWork \subseteq {p},
               l \in {"refresh", "open", "write"} => cred'[p] >= newest',
               l \in {"refresh", "consent", "open"} => Good',
               l = "write" => file'.what = "absent" \/ (p \in linked' /\ file'.len = 0),
               l \notin Steps => Good'
        PROVE  OneAtWork'
    BY <2>2, NobodyElse DEF OneAtWork, Steps
  <2>3. ASSUME NEW l, Decide(p, l)
        PROVE  AtWork = {} /\ Good' /\ Goto(p, l) /\ newest' = newest
    BY <2>0, <2>3 DEF Decide, OneAtWork, Good
  <2>4. pc[p] \in Steps => AtWork = {p}
    BY <2>0 DEF OneAtWork, AtWork, Steps
  <2>5. CASE LoadToken(p)
    <3> PICK l \in {"done", "refresh"} : Decide(p, l)
      BY <2>5 DEF LoadToken
    <3>1. AtWork = {} /\ Good' /\ Goto(p, l) /\ newest' = newest
      BY <2>3
    <3>2. cred'[p] = newest
      BY <2>0, <2>5, <3>1 DEF LoadToken, Types, OneAtWork, Good
    <3> QED BY <2>2, <3>1, <3>2 DEF Types
  <2>6. CASE LoadJunk(p) \/ LoadNothing(p)
    <3> PICK l \in {"unreadable", "consent", "unusable"} : Decide(p, l)
      BY <2>6 DEF LoadJunk, LoadNothing
    <3> QED BY <2>2, <2>3
  <2>7. CASE Refresh(p)
    <3>1. AtWork = {p} /\ cred'[p] >= newest' /\ Good'
      BY <2>0, <2>4, <2>7 DEF Refresh, Steps, history, OneAtWork, Good
    <3>2. Goto(p, "open") \/ Goto(p, "raised")
      BY <2>7 DEF Refresh
    <3> QED BY <2>2, <3>1, <3>2
  <2>8. CASE Consent(p)
    <3>1. AtWork = {p} /\ Good' /\ newest' = newest
      BY <2>0, <2>4, <2>8 DEF Consent, Steps, history, OneAtWork, Good
    <3>2. CASE Goto(p, "raised")
      BY <2>2, <3>1, <3>2 DEF Steps
    <3>3. CASE Goto(p, "open") /\ issued' = issued + 1 /\ cred' = [cred EXCEPT ![p] = issued']
      <4>1. cred'[p] >= newest'
        BY <3>1, <3>3 DEF Types
      <4> QED BY <2>2, <3>1, <3>3, <4>1
    <3> QED BY <2>8, <3>2, <3>3 DEF Consent
  <2>9. CASE Open(p)
    <3>1. AtWork = {p} /\ cred'[p] >= newest' /\ Goto(p, "write")
      BY <2>0, <2>4, <2>9 DEF Open, Steps, OneAtWork
    <3>2. p \in linked' /\ file'.len = 0
      BY <2>9 DEF Open, Junk
    <3> QED BY <2>2, <3>1, <3>2 DEF Steps
  <2>10. CASE Write(p)
    <3>1. AtWork = {p} /\ cred[p] >= newest /\ Goto(p, "done")
      BY <2>0, <2>4, <2>10 DEF Write, Steps, OneAtWork
    <3>2. newest' = cred[p]
      BY <2>10, <3>1 DEF Write, Types
    <3>3. ASSUME p \in linked PROVE Good'
      <4>1. file.len = 0
        BY <2>0, <2>10 DEF Write, OneAtWork, Types, Absent
      <4>2. PICK n \in Lengths : file' = IF n >= file.len THEN Token(cred[p], n) ELSE Junk(file.len)
        BY <2>10, <3>3 DEF Write
      <4>3. file' = Token(cred[p], n)
        BY <4>1, <4>2, TokenAssumption
      <4>4. file'.what = "token" /\ file'.auth = cred[p]
        BY <4>3 DEF Token
      <4> QED BY <3>2, <4>4 DEF Good
    <3>4. ASSUME p \notin linked PROVE Good'
      <4>1. file' = file /\ pc[p] = "write"
        BY <2>10, <3>4 DEF Write
      <4>2. file.what = "absent"
        BY <2>0, <3>4, <4>1 DEF OneAtWork
      <4> QED BY <4>1, <4>2 DEF Good
    <3>5. Good'
      BY <3>3, <3>4
    <3> QED BY <2>2, <3>1, <3>5
  <2>11. CASE Crash(p)
    <3>1. AtWork = {p} /\ Goto(p, "crashed") /\ p \notin linked
      BY <2>0, <2>4, <2>11 DEF Crash, AtWork, Steps
    <3>2. Good'
      BY <2>0, <2>11, <3>1 DEF Crash, AtWork, OneAtWork, Good
    <3> QED BY <2>2, <3>1, <3>2 DEF Steps
  <2> QED BY <2>5, <2>6, <2>7, <2>8, <2>9, <2>10, <2>11 DEF Step
<1>3. CASE \E a \in alive : Die(a)
  BY <1>1, <1>3 DEF Die, history
<1>4. CASE Delete
  BY <1>4 DEF Delete, OneAtWork, Good, AtWork, Absent
<1> QED BY <1>1, <1>2, <1>3, <1>4, NextIsASteps DEF vars, history

-----------------------------------------------------------------------------
(* The inductive invariant of the module holds in every reachable state. *)
THEOREM TokenInductive == Spec => []TokenInv
<1>1. Init => TokenInv
  <2> SUFFICES ASSUME Init PROVE TokenInv
    OBVIOUS
  <2>1. Types
    <3>1. file = Absent /\ file.what = "absent"
      BY DEF Init, Absent
    <3>2. cred \in [Processes -> 0..issued]
      BY DEF Init
    <3>3. /\ file \in [what : {"absent", "junk", "token"}, auth : Nat, len : Nat]
          /\ file.what = "token" => file.auth <= issued
      BY <3>1, Contents
    <3>4. /\ issued = 0 /\ newest = 0 /\ linked = {} /\ pc = [p \in Processes |-> "load"]
          /\ crashed = FALSE /\ overlap = FALSE /\ together = FALSE
      BY DEF Init
    <3>5. /\ issued \in Nat /\ newest \in Nat /\ newest <= issued
          /\ linked \subseteq {p \in Processes : pc[p] = "write"}
          /\ pc \in [Processes -> {"load", "refresh", "consent", "open", "write", "done",
                                   "unreadable", "unusable", "raised", "crashed"}]
      BY <3>4
    <3>6. crashed \in BOOLEAN /\ overlap \in BOOLEAN /\ together \in BOOLEAN
      BY <3>4
    <3> HIDE DEF Init
    <3> QED BY <3>1, <3>2, <3>3, <3>5, <3>6, Zenon DEF Types
  <2>2. OneWriter /\ OneAtWork
    BY DEF Init, OneWriter, OneAtWork, Good, AtWork, Absent
  <2> QED BY <2>1, <2>2 DEF TokenInv
<1>2. TokenInv /\ [Next]_vars => TokenInv'
  BY TypesStep, OneWriterStep, OneAtWorkStep DEF TokenInv
<1> QED BY <1>1, <1>2, PTL DEF Spec

(* A token file that stays damaged was cut short by a crash, or written by  *)
(* two processes at once.                                                   *)
THEOREM DamageIsExplained == Spec => []DamageNeedsACrashOrAnOverlap
<1>1. TokenInv => DamageNeedsACrashOrAnOverlap
  BY DEF TokenInv, OneWriter, DamageNeedsACrashOrAnOverlap
<1> QED BY <1>1, TokenInductive, PTL

(* Processes that never were at work together leave the newest token.      *)
THEOREM SoloRunsAreSafe == Spec => []SoloRunsKeepTheNewest
<1>1. TokenInv => SoloRunsKeepTheNewest
  BY DEF TokenInv, Types, OneAtWork, Good, SoloRunsKeepTheNewest
<1> QED BY <1>1, TokenInductive, PTL
=============================================================================
