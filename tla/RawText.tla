------------------------------- MODULE RawText -------------------------------
(***************************************************************************)
(* Text as a caller, an image or a configuration file gives it.  All the   *)
(* code tells apart is what is left once strings.TrimSpace has run, and    *)
(* whether blanks surround it; nothing but blanks leaves "".               *)
(***************************************************************************)
EXTENDS Sequences

CONSTANT Text  \* what may be left: never empty

ASSUME RawTextAssumption == "" \notin Text

Raw == [text : Text \cup {""}, padded : BOOLEAN]

Plain(t) == [text |-> t, padded |-> FALSE]
Padded(t) == [text |-> t, padded |-> TRUE]

\* a field that is left out, or given as ""
Omitted == Plain("")

TrimSpace(x) == Plain(x.text)
IsBlank(x) == x.text = ""

NoneBlank(s) == \A i \in DOMAIN s : ~IsBlank(s[i])
TrimAll(s) == [i \in DOMAIN s |-> TrimSpace(s[i])]

=============================================================================
