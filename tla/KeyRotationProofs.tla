-------------------------- MODULE KeyRotationProofs --------------------------
(***************************************************************************)
(* Proofs about Service and KeyRotation.  Everything follows from Loaded:  *)
(* a serving instance has what Load made of a file that starts.            *)
(***************************************************************************)
EXTENDS KeyRotation, TLAPS

IsLoaded(c) == \E f \in Files : Starts(f) /\ c = Load(f)

Loaded ==
    /\ file \in Files
    /\ DOMAIN live \subseteq Instances
    /\ \A i \in DOMAIN live : IsLoaded(live[i])

LEMMA StartLoaded == \A i \in Instances : Loaded /\ Start(i) => Loaded'
  BY DEF Loaded, Start, IsLoaded

LEMMA StopLoaded == \A i \in Instances : Loaded /\ Stop(i) => Loaded'
  BY DEF Loaded, Stop, IsLoaded

LEMMA InitLoaded == Init => Loaded
  BY DEF Init, Loaded

LEMMA NextLoaded == Loaded /\ [Next]_vars => Loaded'
<1>1. Loaded /\ UNCHANGED vars => Loaded'
  BY DEF Loaded, vars, IsLoaded
<1>2. \A f \in Files : Loaded /\ Edit(f) => Loaded'
  BY DEF Loaded, Edit, IsLoaded
<1> QED
  BY <1>1, <1>2, StartLoaded, StopLoaded DEF Next

(* A serving instance keeps the config of the file it was started from,    *)
(* whatever is written to the file since: the inductive invariant.         *)
THEOREM ServingIsLoaded == Spec => []Loaded
  BY InitLoaded, NextLoaded, PTL DEF Spec

--------------------------------------------------------------------------------
(* What Load makes of a file that starts.                                  *)

\* Load fills in every field
LEMMA LoadType ==
  ASSUME NEW f \in Files
  PROVE  /\ Load(f).keys = f.keys /\ Load(f).images = f.images
         /\ Load(f).keys \in Seq(Raw) /\ Load(f).images \in Seq(Raw)
         /\ Load(f).texts \in [TextFields -> Raw]
         /\ Load(f).numbers \in [NumberFields -> Int]
<1>1. IsFile(f)
  BY ServiceAssumption
<1>2. \A x \in TextFields : DefaultTexts[x] \in Raw
  <2>1. \A t \in Text \cup {""} : Plain(t) \in Raw
    BY DEF Plain, Raw
  <2>2. {Omitted, Plain("ap-shanghai"), Plain("ags"), Plain("http://sync")} \subseteq Raw
    BY <2>1, ServiceAssumption DEF Omitted
  <2> QED
    BY <2>2 DEF DefaultTexts, TextFields
<1>3. \A x \in NumberFields : DefaultNumbers[x] \in Int
  BY DEF DefaultNumbers, NumberFields, Timeouts
<1> QED
  BY <1>1, <1>2, <1>3 DEF Load, IsFile

LEMMA ValidIsValid ==
  ASSUME NEW c, IsLoaded(c)
  PROVE  /\ c.keys \in Seq(Raw) /\ c.images \in Seq(Raw)
         /\ c.texts \in [TextFields -> Raw]
         /\ c.numbers \in [NumberFields -> Nat]
         /\ \A t \in Timeouts : c.numbers[t] \in Nat \ {0}
         /\ c.numbers["MaxAttempts"] \in 1 .. 10
         /\ c.numbers["MaxResponseBytes"] > 0 /\ c.numbers["RetryInterval"] >= 0
         /\ \A x \in TextFields : ~IsBlank(c.texts[x])
         /\ Trimmed(c.keys) /\ Trimmed(c.images)
         /\ \A i \in DOMAIN c.images : c.images[i].text \notin TooLong["image"]
<1> PICK f \in Files : Starts(f) /\ c = Load(f)
  BY DEF IsLoaded
<1>1. validateConfig(c) /\ NewImageSyncClient(c) /\ NewRegistryClient(c)
  BY DEF Starts, NewServiceContext
<1>2. /\ c.keys \in Seq(Raw) /\ c.images \in Seq(Raw)
      /\ c.texts \in [TextFields -> Raw] /\ c.numbers \in [NumberFields -> Int]
  BY LoadType
<1>3. \A t \in Timeouts : c.numbers[t] \in Nat \ {0}
  BY <1>1, <1>2 DEF validateConfig, NumberFields
<1>4. c.numbers["MaxAttempts"] \in 1 .. 10
  BY DEF Starts, InRange, Load, NumberFields, DefaultNumbers
<1>5. c.numbers["MaxResponseBytes"] > 0 /\ c.numbers["RetryInterval"] >= 0
  BY <1>1 DEF NewImageSyncClient
<1>6. c.numbers \in [NumberFields -> Nat]
  BY <1>2, <1>3, <1>4, <1>5 DEF NumberFields
<1>7. \A x \in TextFields : ~IsBlank(c.texts[x])
  BY <1>1, RawTextAssumption, ServiceAssumption DEF validateConfig, NewImageSyncClient, IsBlank
<1> QED
  BY <1>1, <1>2, <1>3, <1>4, <1>5, <1>6, <1>7 DEF validateConfig

\* Every variable of Service keeps its type.
THEOREM TypeCorrect == Spec => []TypeOK
<1>1. Loaded => TypeOK
  BY ValidIsValid DEF Loaded, TypeOK
<1> QED
  BY <1>1, ServingIsLoaded, PTL

\* What serves obeys the assumptions of the endpoints' modules.
THEOREM ValidHolds == Spec => []ServingIsValid
<1>1. Loaded => ServingIsValid
  BY ValidIsValid DEF Loaded, ServingIsValid
<1> QED
  BY <1>1, ServingIsLoaded, PTL

--------------------------------------------------------------------------------
(* The middleware and the allow list.                                      *)

\* an entry without blanks equals a trimmed text when their texts are equal
LEMMA TrimmedMatch ==
  ASSUME NEW s \in Seq(Raw), Trimmed(s), NEW x \in Raw, NEW n \in DOMAIN s
  PROVE  s[n] = TrimSpace(x) <=> s[n].text = x.text
<1>1. s[n] = [text |-> s[n].text, padded |-> FALSE]
  BY DEF Trimmed, TrimSpace, Plain
<1>2. TrimSpace(x) = [text |-> x.text, padded |-> FALSE]
  BY DEF TrimSpace, Plain
<1>3. TrimSpace(x).text = x.text
  BY <1>2
<1> QED
  BY <1>1, <1>2, <1>3

LEMMA KeysMatch ==
  ASSUME NEW c, IsLoaded(c), NEW h \in Raw
  PROVE  Handle(c, h) <=> h.text # "" /\ \E n \in DOMAIN c.keys : c.keys[n].text = h.text
<1>1. c.keys \in Seq(Raw) /\ Trimmed(c.keys)
  BY ValidIsValid
<1>2. \A n \in DOMAIN c.keys : c.keys[n].text # ""
  BY <1>1 DEF Trimmed, IsBlank
<1> QED
  BY <1>1, <1>2, TrimmedMatch DEF Handle

\* The keys listed at the start open the API, and nothing else does.
THEOREM KeysHold == Spec => []KeysAreExact
<1>1. ASSUME Loaded PROVE KeysAreExact
  <2> SUFFICES ASSUME NEW i \in DOMAIN live, NEW h \in Headers, NEW r \in Guarded, NEW p \in SyncCalls
               PROVE  Answer(live[i], r, h, p) # "UNAUTHORIZED" <=>
                        h.text # "" /\ \E n \in DOMAIN live[i].keys : live[i].keys[n].text = h.text
    BY DEF KeysAreExact
  <2>1. Answer(live[i], r, h, p) # "UNAUTHORIZED" <=> Handle(live[i], h)
    BY DEF Answer, SyncImage
  <2> QED
    BY <1>1, <2>1, KeysMatch, ServiceAssumption DEF Loaded
<1> QED
  BY <1>1, ServingIsLoaded, PTL

\* The image names listed at the start can be synchronised, and no others.
THEOREM AllowListHolds == Spec => []AllowListIsExact
<1>1. ASSUME Loaded PROVE AllowListIsExact
  <2> SUFFICES ASSUME NEW i \in DOMAIN live, NEW p \in SyncCalls,
                      \A f \in SyncFields \ {"image"} : p[f].text \notin TooLong[f] \cup {""}
               PROVE  SyncImage(live[i], p) = "admitted" <=>
                        p["image"].text # ""
                        /\ \E n \in DOMAIN live[i].images : live[i].images[n].text = p["image"].text
    BY DEF AllowListIsExact
  <2> DEFINE c == live[i]
  <2>1. /\ c.images \in Seq(Raw) /\ Trimmed(c.images)
        /\ \A n \in DOMAIN c.images : c.images[n].text \notin TooLong["image"]
    BY <1>1, ValidIsValid DEF Loaded
  <2>2. p["image"] \in Raw
    BY ServiceAssumption DEF SyncType, SyncFields
  <2>3. isAllowedImageName(c, p) <=>
          \E n \in DOMAIN c.images : c.images[n].text = p["image"].text
    BY <2>1, <2>2, TrimmedMatch DEF isAllowedImageName
  <2>4. isAllowedImageName(c, p) =>
          p["image"].text # "" /\ p["image"].text \notin TooLong["image"]
    BY <2>1, <2>3 DEF Trimmed, IsBlank
  <2>5. isAllowedImageName(c, p) =>
          buildSyncImageRequest(p) /\ Omitted \notin {p[f] : f \in SyncFields}
    <3> SUFFICES ASSUME isAllowedImageName(c, p)
                 PROVE  buildSyncImageRequest(p) /\ Omitted \notin {p[f] : f \in SyncFields}
      OBVIOUS
    <3>1. \A f \in SyncFields : p[f].text # "" /\ p[f].text \notin TooLong[f]
      BY <2>4
    <3>2. Omitted.text = ""
      BY DEF Omitted, Plain
    <3>3. buildSyncImageRequest(p)
      BY <3>1 DEF buildSyncImageRequest, IsBlank
    <3> QED
      BY <3>1, <3>2, <3>3
  <2>6. SyncImage(c, p) = "admitted" <=> isAllowedImageName(c, p)
    BY <2>5 DEF SyncImage
  <2> QED
    BY <2>3, <2>4, <2>6
<1> QED
  BY <1>1, ServingIsLoaded, PTL

--------------------------------------------------------------------------------
(* The rotation.                                                           *)

Knows(keys, k) == Plain(k) \in Elements(keys)
AllKnow(k) == Knows(file.keys, k) /\ \A i \in DOMAIN live : Knows(live[i].keys, k)

(* The rotation is one of the things an operator may do with Service, so   *)
(* what holds there holds here.                                            *)
THEOREM RotationIsService == RotationSpec => Spec
<1>1. RotationInit => Init
  BY DEF RotationInit
<1>2. Init => file \in Files
  BY DEF Init
<1>3. file \in Files /\ [RotationNext]_allVars => [Next]_vars /\ (file \in Files)'
  <2> SUFFICES ASSUME file \in Files, [RotationNext]_allVars
               PROVE  [Next]_vars /\ file' \in Files
    OBVIOUS
  <2>1. ASSUME NEW keys, EditKeys(keys) PROVE [Next]_vars /\ file' \in Files
    <3>1. file' \in Files /\ live' = live
      BY <2>1, KeyRotationAssumption DEF EditKeys
    <3> QED
      BY <3>1 DEF Next, Edit, vars
  <2>2. CASE AddKey \/ MendKey \/ DeleteKey
    BY <2>1, <2>2 DEF AddKey, MendKey, DeleteKey
  <2>3. CASE \E i \in Instances : StartInstance(i) \/ StopInstance(i)
    BY <2>3 DEF StartInstance, StopInstance, Start, Stop, Next
  <2>4. CASE \E f \in Files : EditRest(f)
    BY <2>4 DEF EditRest, Edit, Next
  <2>5. CASE (\E c \in Callers : SwitchCaller(c)) \/ UNCHANGED allVars
    BY <2>5 DEF SwitchCaller, allVars, vars
  <2> QED
    BY <2>2, <2>3, <2>4, <2>5 DEF RotationNext
<1> QED
  BY <1>1, <1>2, <1>3, PTL DEF RotationSpec, Spec

(* Before the callers switch, all that serve know the old key; a caller    *)
(* has switched only where the file and all that serve know the new one.   *)
RotationInv ==
    /\ Loaded
    /\ phase \in {"old", "both", "new"}
    /\ held \in [Callers -> {OldKey, NewKey}]
    /\ fresh \subseteq DOMAIN live
    /\ \A i \in fresh : live[i].keys = file.keys
    /\ phase = "old" => \A c \in Callers : held[c] = OldKey
    /\ phase = "new" => \A c \in Callers : held[c] = NewKey
    /\ phase # "new" => AllKnow(OldKey)
    /\ phase = "both" => {Plain(NewKey), Padded(NewKey)} \cap Elements(file.keys) # {}
    /\ (\E c \in Callers : held[c] = NewKey) => AllKnow(NewKey)

LEMMA InitRotation == RotationInit => RotationInv
<1> SUFFICES ASSUME RotationInit PROVE RotationInv
  OBVIOUS
<1>1. Loaded /\ DOMAIN live = {}
  BY DEF RotationInit, Init, Loaded
<1>2. AllKnow(OldKey)
  BY <1>1 DEF RotationInit, AllKnow, Knows
<1>3. \A c \in Callers : held[c] = OldKey
  BY DEF RotationInit
<1> QED
  BY <1>1, <1>2, <1>3, KeyRotationAssumption DEF RotationInit, RotationInv

LEMMA EditLoads ==
  ASSUME RotationInv, NEW keys, EditKeys(keys)
  PROVE  /\ Loaded' /\ Elements(file'.keys) = keys
         /\ fresh' = {} /\ live' = live /\ held' = held
<1> PICK list \in KeyLists : Elements(list) = keys /\ file' = [file EXCEPT !.keys = list]
  BY DEF EditKeys
<1>1. file \in Files /\ IsFile(file)
  BY ServiceAssumption DEF RotationInv, Loaded
<1>2. file'.keys = list
  BY <1>1 DEF IsFile
<1>3. file' \in Files
  BY <1>1, KeyRotationAssumption
<1> QED
  BY <1>2, <1>3 DEF EditKeys, RotationInv, Loaded

LEMMA Unlike ==
  /\ Plain(OldKey) # Plain(NewKey) /\ Plain(OldKey) # Padded(NewKey)
  /\ Plain(NewKey) # Padded(NewKey)
<1>1. Plain(OldKey).text # Plain(NewKey).text
  BY KeyRotationAssumption DEF Plain
<1>2. Padded(NewKey).padded /\ ~Plain(OldKey).padded /\ ~Plain(NewKey).padded
  BY DEF Plain, Padded
<1> QED
  BY <1>1, <1>2

LEMMA AddRotation == RotationInv /\ AddKey => RotationInv'
<1> SUFFICES ASSUME RotationInv, AddKey PROVE RotationInv'
  OBVIOUS
<1> PICK k \in {Plain(NewKey), Padded(NewKey)} : EditKeys(Elements(file.keys) \cup {k})
  BY DEF AddKey
<1>1. /\ Loaded' /\ Elements(file'.keys) = Elements(file.keys) \cup {k}
      /\ fresh' = {} /\ live' = live /\ held' = held
  BY EditLoads
<1>2. phase = "old" /\ phase' = "both"
  BY DEF AddKey
<1> QED
  BY <1>1, <1>2, KeyRotationAssumption DEF RotationInv, AllKnow, Knows

LEMMA MendRotation == RotationInv /\ MendKey => RotationInv'
<1> SUFFICES ASSUME RotationInv, MendKey PROVE RotationInv'
  OBVIOUS
<1>1. /\ Loaded'
      /\ Elements(file'.keys) = (Elements(file.keys) \ {Padded(NewKey)}) \cup {Plain(NewKey)}
      /\ fresh' = {} /\ live' = live /\ held' = held
  BY EditLoads DEF MendKey
<1>2. phase = "both" /\ phase' = "both"
  BY DEF MendKey
<1> QED
  BY <1>1, <1>2, Unlike DEF RotationInv, AllKnow, Knows

LEMMA DeleteRotation == RotationInv /\ DeleteKey => RotationInv'
<1> SUFFICES ASSUME RotationInv, DeleteKey PROVE RotationInv'
  OBVIOUS
<1>1. /\ Loaded' /\ Elements(file'.keys) = Elements(file.keys) \ {Plain(OldKey)}
      /\ fresh' = {} /\ live' = live /\ held' = held
  BY EditLoads DEF DeleteKey
<1>2. phase' = "new" /\ \A c \in Callers : held[c] = NewKey
  BY DEF DeleteKey
<1> QED
  BY <1>1, <1>2, Unlike DEF RotationInv, AllKnow, Knows

(* Every instance runs the file, so the file starts, so its new key has no *)
(* blank around it, so every instance that serves knows it.                *)
LEMMA SwitchRotation == \A c \in Callers : RotationInv /\ SwitchCaller(c) => RotationInv'
<1> SUFFICES ASSUME NEW c \in Callers, RotationInv, SwitchCaller(c) PROVE RotationInv'
  OBVIOUS
<1>1. \A i \in DOMAIN live : live[i].keys = file.keys
  BY DEF RotationInv, SwitchCaller, Loaded
<1>2. PICK i \in DOMAIN live : IsLoaded(live[i])
  BY KeyRotationAssumption DEF RotationInv, SwitchCaller, Loaded
<1>3. Trimmed(file.keys)
  BY <1>1, <1>2, ValidIsValid
<1>4. \A x \in Elements(file.keys) : TrimSpace(x) = x
  BY <1>3 DEF Trimmed, Elements
<1>5. TrimSpace(Padded(NewKey)) # Padded(NewKey)
  BY Unlike DEF TrimSpace, Plain, Padded
<1>6. Knows(file.keys, NewKey)
  BY <1>4, <1>5 DEF RotationInv, SwitchCaller, Knows
<1>7. AllKnow(NewKey)
  BY <1>1, <1>6 DEF AllKnow, Knows
<1>8. UNCHANGED <<file, live, phase, fresh>>
  BY DEF SwitchCaller, vars
<1>9. held' \in [Callers -> {OldKey, NewKey}] /\ phase = "both"
  BY DEF SwitchCaller, RotationInv
<1> QED
  BY <1>7, <1>8, <1>9 DEF RotationInv, AllKnow, Knows, Loaded, IsLoaded

\* the keys stay as they are, in the file and where it is loaded
LEMMA RestRotation == \A f \in Files : RotationInv /\ EditRest(f) => RotationInv'
  BY DEF EditRest, Edit, rotation, RotationInv, Loaded, IsLoaded, AllKnow, Knows

LEMMA StartRotation == \A i \in Instances : RotationInv /\ StartInstance(i) => RotationInv'
<1> SUFFICES ASSUME NEW i \in Instances, RotationInv, StartInstance(i) PROVE RotationInv'
  OBVIOUS
<1>1. Start(i) /\ fresh' = fresh \cup {i} /\ UNCHANGED <<phase, held>> /\ file' = file
  BY DEF StartInstance, Start
<1>2. Loaded'
  BY <1>1, StartLoaded DEF RotationInv
<1>3. Load(file).keys = file.keys
  BY LoadType DEF RotationInv, Loaded
<1>4. DOMAIN live' = DOMAIN live \cup {i} /\ i \notin DOMAIN live
  BY <1>1 DEF Start
<1>5. \A j \in DOMAIN live' : live'[j] = IF j = i THEN Load(file) ELSE live[j]
  BY <1>1 DEF Start
<1>6. \A k : AllKnow(k) => AllKnow(k)'
  BY <1>1, <1>3, <1>4, <1>5 DEF AllKnow, Knows
<1>7. \A j \in fresh' : live'[j].keys = file'.keys
  BY <1>1, <1>3, <1>4, <1>5 DEF RotationInv
<1> QED
  BY <1>1, <1>2, <1>4, <1>6, <1>7 DEF RotationInv

LEMMA StopRotation == \A i \in Instances : RotationInv /\ StopInstance(i) => RotationInv'
<1> SUFFICES ASSUME NEW i \in Instances, RotationInv, StopInstance(i) PROVE RotationInv'
  OBVIOUS
<1>1. Stop(i) /\ fresh' = fresh \ {i} /\ UNCHANGED <<phase, held>> /\ file' = file
  BY DEF StopInstance, Stop
<1>2. Loaded'
  BY <1>1, StopLoaded DEF RotationInv
<1>3. DOMAIN live' = DOMAIN live \ {i} /\ \A j \in DOMAIN live' : live'[j] = live[j]
  BY <1>1 DEF Stop
<1>4. \A k : AllKnow(k) => AllKnow(k)'
  BY <1>1, <1>3 DEF AllKnow, Knows
<1> QED
  BY <1>1, <1>2, <1>3, <1>4 DEF RotationInv

LEMMA NextRotation == RotationInv /\ [RotationNext]_allVars => RotationInv'
<1>1. RotationInv /\ UNCHANGED allVars => RotationInv'
  BY DEF RotationInv, allVars, vars, rotation, Loaded, IsLoaded, AllKnow, Knows
<1> QED
  BY <1>1, AddRotation, MendRotation, DeleteRotation, RestRotation, SwitchRotation,
     StartRotation, StopRotation DEF RotationNext

\* A caller that has a key of a list all instances know is let in by each.
THEOREM RotationHolds == RotationSpec => []RotationIsSmooth
<1>1. ASSUME RotationInv PROVE RotationIsSmooth
  <2> SUFFICES ASSUME NEW c \in Callers, NEW i \in DOMAIN live
               PROVE  Handle(live[i], Plain(held[c]))
    BY DEF RotationIsSmooth
  <2>1. Knows(live[i].keys, held[c])
    BY <1>1 DEF RotationInv, AllKnow
  <2>2. TrimSpace(Plain(held[c])) = Plain(held[c])
    BY DEF TrimSpace, Plain
  <2> QED
    BY <2>1, <2>2 DEF Knows, Elements, Handle
<1> QED
  BY <1>1, InitRotation, NextRotation, PTL DEF RotationSpec

=============================================================================
