-------------------------------- MODULE Naming --------------------------------
(***************************************************************************)
(* The titles that rules/naming.py compares.  A name is a sequence of      *)
(* tokens: a word, one blank, one underscore, a dash, a dot, or a number   *)
(* in parentheses.  Words touch when no blank is between them, and stand   *)
(* for what is left of them without case and diacritics, which every step  *)
(* below ignores or removes.                                               *)
(***************************************************************************)
EXTENDS Integers, SequencesExt

CONSTANTS
  Words,      \* the words a name may be made of, with "copy" and "of"
  Numbers,    \* the tokens (1), (2), ...
  Length(_)   \* how many characters a word has

(* The dashes are one token. *)
Tokens == Words \cup Numbers \cup {" ", "_", "-", "."}

ASSUME NamingAssumption ==
  /\ {"copy", "of"} \subseteq Words
  /\ Words \cap Numbers = {} /\ (Words \cup Numbers) \cap {" ", "_", "-", "."} = {}

MaxRounds    == 4   \* "for _ in range(4)"
MaxExtension == 8   \* _KNOWN_EXTENSIONS_MAX_LEN

EndsWith(s, tokens) == s # <<>> /\ Last(s) \in tokens

(* What is left of s when everything is cut off from its end, or from its   *)
(* beginning, that is made of these tokens.                                 *)
CutRight(s, tokens) ==
  SubSeq(s, 1, CHOOSE n \in 0..Len(s) :
                 /\ \A i \in (n + 1)..Len(s) : s[i] \in tokens
                 /\ n = 0 \/ s[n] \notin tokens)

CutLeft(s, tokens) ==
  SubSeq(s, CHOOSE n \in 1..(Len(s) + 1) :
              /\ \A i \in 1..(n - 1) : s[i] \in tokens
              /\ n = Len(s) + 1 \/ s[n] \notin tokens,
         Len(s))

Blank == {" "}

Strip(s) == CutLeft(CutRight(s, Blank), Blank)

(* Pattern 1: a number at the end. *)
WithoutNumber(s) ==
  LET t == CutRight(s, Blank)
  IN IF EndsWith(t, Numbers) THEN CutRight(Front(t), Blank) ELSE s

(* A dash at the end is cut off together with the blanks around it. *)
WithoutDash(s) ==
  LET t == CutRight(s, Blank)
  IN IF EndsWith(t, {"-"}) THEN CutRight(Front(t), Blank) ELSE t

(* Pattern 2: "copy" at the end, after a dash or not, touching or not. *)
WithoutCopy(s) ==
  LET t == CutRight(s, Blank)
  IN IF EndsWith(t, {"copy"}) THEN WithoutDash(Front(t)) ELSE s

(* Pattern 3: "copy of" at the beginning, each with a blank behind it. *)
WithoutCopyOf(s) ==
  LET t == CutLeft(s, Blank)
      u == CutLeft(Tail(t), Blank)
  IN IF /\ Len(t) > 1 /\ t[1] = "copy" /\ t[2] = " "
        /\ Len(u) > 1 /\ u[1] = "of" /\ u[2] = " "
     THEN CutLeft(Tail(u), Blank)
     ELSE s

(* Pattern 4: a dash, "copy" and a number at the end. *)
WithoutNumberedCopy(s) ==
  LET t == CutRight(s, Blank)
      u == CutRight(Front(t), Blank)
      v == CutRight(Front(u), Blank)
  IN IF EndsWith(t, Numbers) /\ EndsWith(u, {"copy"}) /\ EndsWith(v, {"-"})
     THEN WithoutDash(v)
     ELSE s

(* One turn of the loop.  It ends early when a turn changes nothing, and so *)
(* do the turns that would follow.                                          *)
Pass(s) == Strip(WithoutNumberedCopy(WithoutCopyOf(WithoutCopy(WithoutNumber(s)))))

(* Mutant: one turn for all markers. *)
StripCopyMarkers_Once(stem) == Pass(stem)

(* strip_copy_markers *)
StripCopyMarkers(stem) ==
  LET after[n \in 0..MaxRounds] == IF n = 0 THEN stem ELSE Pass(after[n - 1])
  IN after[MaxRounds]

IsExtension(ext) ==
  /\ ext # <<>> /\ \A i \in DOMAIN ext : ext[i] \in Words
  /\ FoldSeq(LAMBDA w, n : n + Length(w), 0, ext) <= MaxExtension

(* Where the extension begins: the last dot, not counting one in front,     *)
(* with a short word behind it; 0 if there is none.  Two words that touch   *)
(* are one to the code.                                                     *)
ExtensionDot(name) ==
  LET dots == {i \in DOMAIN name : name[i] = "."}
      dot  == CHOOSE i \in dots : \A j \in dots : j <= i
  IN IF dots \ {1} # {} /\ IsExtension(SubSeq(name, dot + 1, Len(name))) THEN dot ELSE 0

Gap == {" ", "_"}

(* "[\s_]+" becomes one blank, none at either end. *)
Squeezed(s) ==
  LET squeezed[n \in 0..Len(s)] ==
        IF n = 0 THEN <<>>
        ELSE IF s[n] \notin Gap THEN Append(squeezed[n - 1], s[n])
        ELSE IF n > 1 /\ s[n - 1] \in Gap THEN squeezed[n - 1]
        ELSE Append(squeezed[n - 1], " ")
  IN Strip(squeezed[Len(s)])

(* normalize_title *)
NormalizeTitle(name) ==
  LET dot  == ExtensionDot(name)
      stem == IF dot = 0 THEN name ELSE SubSeq(name, 1, dot - 1)
      ext  == IF dot = 0 THEN <<>> ELSE SubSeq(name, dot, Len(name))
  IN Squeezed(StripCopyMarkers(stem)) \o ext
=============================================================================
