----------------------------- MODULE KeyRotation -----------------------------
(***************************************************************************)
(* The rotation of an API key as README.md describes it (add the new key,  *)
(* switch the callers, delete the old key), carried out on instances that  *)
(* read the file at their start only and may stop and start at any time.   *)
(* The operator writes an edit, then has every instance started from it,   *)
(* and may add the new key with a blank around it by mistake; meanwhile    *)
(* the rest of the file is edited at will.                                 *)
(***************************************************************************)
EXTENDS Service

CONSTANTS
    Callers,
    OldKey, NewKey,  \* texts
    KeyLists         \* lists of keys an edit may leave behind

ASSUME KeyRotationAssumption ==
    /\ {OldKey, NewKey} \subseteq Text
    /\ OldKey # NewKey
    /\ KeyLists \subseteq Seq(Raw)
    /\ \A f \in Files, keys \in KeyLists : [f EXCEPT !.keys = keys] \in Files
    /\ Instances # {}

VARIABLES
    phase,  \* "old", "both" or "new": the edit made last
    fresh,  \* the instances started since then
    held    \* held[c]: the key caller c sends

rotation == <<phase, fresh, held>>
allVars == <<vars, rotation>>

Elements(s) == {s[i] : i \in DOMAIN s}

RotationInit ==
    /\ Init
    /\ Plain(OldKey) \in Elements(file.keys) /\ Plain(NewKey) \notin Elements(file.keys)
    /\ phase = "old"
    /\ fresh = {}
    /\ held = [c \in Callers |-> OldKey]

\* the file gets a list, in any order, of exactly these keys
EditKeys(keys) ==
    /\ \E list \in KeyLists : Elements(list) = keys /\ file' = [file EXCEPT !.keys = list]
    /\ fresh' = {}
    /\ UNCHANGED <<live, held>>

AddKey ==
    /\ phase = "old"
    /\ phase' = "both"
    /\ \E k \in {Plain(NewKey), Padded(NewKey)} : EditKeys(Elements(file.keys) \cup {k})

\* the server does not start: the operator mends the file
MendKey ==
    /\ phase = "both"
    /\ ~Starts(file)
    /\ EditKeys((Elements(file.keys) \ {Padded(NewKey)}) \cup {Plain(NewKey)})
    /\ UNCHANGED phase

\* once every instance has been started from the file with both keys
SwitchCaller(c) ==
    /\ phase = "both"
    /\ fresh = Instances
    /\ held' = [held EXCEPT ![c] = NewKey]
    /\ UNCHANGED <<vars, phase, fresh>>

DeleteKey ==
    /\ phase = "both"
    /\ \A c \in Callers : held[c] = NewKey
    /\ phase' = "new"
    /\ EditKeys(Elements(file.keys) \ {Plain(OldKey)})

\* somebody edits anything else, rightly or wrongly
EditRest(f) ==
    /\ f.keys = file.keys
    /\ Edit(f)
    /\ UNCHANGED rotation

StartInstance(i) == Start(i) /\ fresh' = fresh \cup {i} /\ UNCHANGED <<phase, held>>
StopInstance(i) == Stop(i) /\ fresh' = fresh \ {i} /\ UNCHANGED <<phase, held>>

RotationNext ==
    \/ AddKey \/ MendKey \/ DeleteKey
    \/ \E f \in Files : EditRest(f)
    \/ \E c \in Callers : SwitchCaller(c)
    \/ \E i \in Instances : StartInstance(i) \/ StopInstance(i)

RotationSpec == RotationInit /\ [][RotationNext]_allVars

--------------------------------------------------------------------------------
(* Properties.                                                             *)

(* No caller is ever refused for its key while the key is rotated, by no   *)
(* instance that serves, whichever have been restarted and when.           *)
RotationIsSmooth ==
    \A c \in Callers, i \in DOMAIN live : Handle(live[i], Plain(held[c]))

==============================================================================
