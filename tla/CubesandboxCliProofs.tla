------------------------ MODULE CubesandboxCliProofs ------------------------
(* Proofs about CubesandboxCli.                                            *)
EXTENDS CubesandboxCli, SequenceTheorems, WellFoundedInduction, TLAPS

(* Past its start, redo has been through its guard and build has been      *)
(* confirmed; watch submits nothing; jobs were taken with the body this    *)
(* command line has.                                                       *)
Guarded ==
    /\ cmd.verb \in Verbs
    /\ at \notin {"start", "exited"} =>
          /\ cmd.verb = "redo" => RedoIsTargeted
          /\ cmd.verb = "build" => cmd.confirmed
    /\ at \in {"listing", "submitting"} => cmd.verb # "watch"
    /\ NoUnaskedRebuild

LEMMA GuardedInit == Init => Guarded
BY CubesandboxCliAssumption DEF Init, Guarded, NoUnaskedRebuild, CommandType

(* A body that passed the guards asks for a full rebuild only in build.    *)
LEMMA BodyIsMeant ==
    ASSUME cmd.verb \in Verbs \ {"watch"},
           cmd.verb = "redo" => RedoIsTargeted,
           cmd.verb = "build" => cmd.confirmed,
           Body = {}
    PROVE  cmd.verb = "build" /\ cmd.confirmed
<1>1. CASE cmd.verb \in {"create", "sync-node"}
  <2>1. "image" \in Body \/ "distribution_scope" \in Body
    BY <1>1 DEF Body
  <2> QED BY <2>1
<1>2. CASE cmd.verb = "redo"
  <2>1. Body = (IF cmd.nodes THEN {"distribution_scope"} ELSE {})
               \cup (IF cmd.failedOnly THEN {"failed_only"} ELSE {})
    BY <1>2 DEF Body
  <2>2. ~cmd.nodes /\ ~cmd.failedOnly
    BY <2>1
  <2> QED BY <1>2, <2>2 DEF RedoIsTargeted
<1> QED BY <1>1, <1>2 DEF Verbs

LEMMA JobIsMeant ==
    ASSUME Guarded, at = "submitting", NEW t, TakeJob(t), UNCHANGED cmd
    PROVE  NoUnaskedRebuild'
<1> SUFFICES ASSUME NEW j \in jobs', j.body = {}
             PROVE  cmd.verb = "build" /\ cmd.confirmed
  BY DEF NoUnaskedRebuild
<1>1. CASE j \in jobs
  BY <1>1 DEF Guarded, NoUnaskedRebuild
<1>2. CASE j = [template |-> t, body |-> Body]
  BY <1>2, BodyIsMeant DEF Guarded
<1> QED BY <1>1, <1>2 DEF TakeJob

(* Done never leads back to the start.                                     *)
LEMMA DoneLeavesStart ==
    ASSUME NEW code, Done(code)
    PROVE  /\ at' \in {"summary", "submitting", "exited"}
           /\ at' = "submitting" => cmd.verb = "sync-node"
BY DEF Done, Exit

LEMMA GuardedNext == Guarded /\ [Next]_vars => Guarded'
<1> SUFFICES ASSUME Guarded, [Next]_vars PROVE Guarded'
  OBVIOUS
<1> USE DEF RedoIsTargeted
<1>1. CASE StartRefused
  BY <1>1 DEF StartRefused, Guarded, NoUnaskedRebuild, Exit
<1>2. CASE Start
  BY <1>2 DEF Start, Guarded, NoUnaskedRebuild
<1>3. CASE ListFails \/ GetList \/ Summary
  <2>1. UNCHANGED <<cmd, jobs>> /\ at \in {"listing", "summary"}
    BY <1>3 DEF ListFails, GetList, Summary
  <2>2. at' = "exited" \/ (at' = "submitting" /\ at = "listing")
    BY <1>3 DEF ListFails, GetList, Summary, Exit
  <2> QED BY <2>1, <2>2 DEF Guarded, NoUnaskedRebuild
<1>4. CASE Submit
  <2>1. NoUnaskedRebuild'
    BY <1>4, JobIsMeant DEF Submit
  <2>2. UNCHANGED cmd /\ at = "submitting"
    BY <1>4 DEF Submit
  <2>3. at' \in {"listing", "submitting"} => cmd.verb = "sync-node"
    BY <1>4, DoneLeavesStart DEF Submit
  <2> QED BY <2>1, <2>2, <2>3 DEF Guarded
<1>5. CASE SubmitFails
  <2>1. NoUnaskedRebuild'
    <3>1. CASE TakeJob(Head(todo))
      BY <1>5, <3>1, JobIsMeant DEF SubmitFails
    <3>2. CASE UNCHANGED <<jobs, build>>
      BY <1>5, <3>2 DEF SubmitFails, Guarded, NoUnaskedRebuild
    <3> QED BY <1>5, <3>1, <3>2 DEF SubmitFails
  <2>2. UNCHANGED cmd /\ at = "submitting"
    BY <1>5 DEF SubmitFails
  <2>3. at' \in {"listing", "submitting"} => cmd.verb = "sync-node"
    BY <1>5, DoneLeavesStart DEF SubmitFails
  <2> QED BY <2>1, <2>2, <2>3 DEF Guarded
<1>6. CASE PollFails \/ PollAnswered \/ WatchTimesOut
  <2>1. UNCHANGED <<cmd, jobs>> /\ at = "watching"
    BY <1>6 DEF PollFails, PollAnswered, WatchTimesOut
  <2>2. at' \in {"listing", "submitting"} => cmd.verb = "sync-node"
    BY <1>6, DoneLeavesStart DEF PollFails, PollAnswered, WatchTimesOut, SleepOn, Exit
  <2> QED BY <2>1, <2>2 DEF Guarded, NoUnaskedRebuild
<1>7. CASE \E t \in Templates : BuildEnds(t)
  BY <1>7 DEF BuildEnds, script, Guarded, NoUnaskedRebuild
<1>8. CASE UNCHANGED vars
  BY <1>8 DEF vars, script, Guarded, NoUnaskedRebuild
<1> QED BY <1>1, <1>2, <1>3, <1>4, <1>5, <1>6, <1>7, <1>8 DEF Next

(* No command line but a confirmed build ever makes CubeMaster rebuild on  *)
(* every node.                                                             *)
THEOREM RebuildIsAskedFor == Spec => []NoUnaskedRebuild
<1>1. Guarded => NoUnaskedRebuild
  BY DEF Guarded
<1> QED BY <1>1, GuardedInit, GuardedNext, PTL DEF Spec

--------------------------------------------------------------------------------
(* The time a watch takes.                                                 *)

(* Every poll of a running watch has been paid with a sleep, and besides   *)
(* the sleeps only the calls take time.                                    *)
WatchPaid ==
    /\ polls \in Nat /\ elapsed \in Nat /\ clock \in Nat
    /\ at = "start" => polls = 0 /\ elapsed = 0 /\ clock = 0
    /\ at = "watching" => polls * PollInterval = elapsed
    /\ polls > 0 => (polls - 1) * PollInterval < WatchTimeout
    /\ elapsed < WatchTimeout + PollInterval
    /\ clock <= elapsed + polls * MaxCall

\* a poll, whether the script sleeps after it or not
LEMMA PollPaid ==
    ASSUME WatchPaid, at = "watching", elapsed < WatchTimeout, polls' = polls + 1, Spend,
           \/ elapsed' = elapsed + PollInterval
           \/ elapsed' = elapsed /\ at' \in {"summary", "submitting", "exited"},
           at' \in {"watching", "summary", "submitting", "exited"}
    PROVE  WatchPaid'
<1> USE CubesandboxCliAssumption
<1>1. PICK d \in 0 .. MaxCall : clock' = clock + d + (elapsed' - elapsed)
  BY DEF Spend
<1>2. /\ polls' * PollInterval = polls * PollInterval + PollInterval
      /\ (polls' - 1) * PollInterval = polls * PollInterval
      /\ polls' * MaxCall = polls * MaxCall + MaxCall
  BY DEF WatchPaid
<1>3. /\ polls \in Nat /\ elapsed \in Nat /\ clock \in Nat
      /\ polls * PollInterval = elapsed
      /\ polls * MaxCall \in Nat
      /\ clock <= elapsed + polls * MaxCall
  BY DEF WatchPaid
<1>4. polls' \in Nat /\ elapsed' \in Nat /\ elapsed' < WatchTimeout + PollInterval
  BY <1>3
<1>5. clock' \in Nat /\ clock' <= elapsed' + polls' * MaxCall
  <2>1. PICK s \in {0, PollInterval} : elapsed' = elapsed + s
    BY <1>3
  <2>2. clock' = clock + d + s
    BY <1>1, <1>3, <2>1
  <2>3. clock + d + s <= (elapsed + polls * MaxCall) + MaxCall + s
    BY <1>3, <2>1
  <2> QED
    BY <1>2, <1>3, <2>1, <2>2, <2>3
<1>6. (polls' - 1) * PollInterval < WatchTimeout
  BY <1>2, <1>3
<1>7. at' = "watching" => polls' * PollInterval = elapsed'
  BY <1>2, <1>3
<1> QED
  BY <1>4, <1>5, <1>6, <1>7 DEF WatchPaid

LEMMA NextWatchPaid == WatchPaid /\ [Next]_vars => WatchPaid'
<1> SUFFICES ASSUME WatchPaid, [Next]_vars PROVE WatchPaid'
  OBVIOUS
<1> USE CubesandboxCliAssumption
<1>1. CASE Start
  <2>1. /\ polls = 0 /\ elapsed = 0 /\ clock = 0
        /\ UNCHANGED <<polls, elapsed, clock>>
    BY <1>1 DEF Start, WatchPaid
  <2> QED
    BY <2>1 DEF WatchPaid
<1>2. CASE Submit
  <2>1. polls' = 0 /\ elapsed' = 0 /\ clock' = 0
    BY <1>2 DEF Submit
  <2> QED
    BY <2>1 DEF WatchPaid
<1>3. CASE PollFails
  BY <1>3, PollPaid DEF PollFails, SleepOn
<1>4. CASE PollAnswered
  <2>1. \/ elapsed' = elapsed + PollInterval /\ at' = at
        \/ elapsed' = elapsed /\ at' \in {"summary", "submitting", "exited"}
    BY <1>4, DoneLeavesStart DEF PollAnswered, SleepOn, Exit
  <2> QED
    BY <1>4, <2>1, PollPaid DEF PollAnswered
<1>5. CASE /\ UNCHANGED <<polls, elapsed, clock>>
           /\ at' \in {"start", "watching"} => at' = at
  BY <1>5 DEF WatchPaid
<1>6. CASE StartRefused \/ ListFails \/ GetList \/ Summary
  BY <1>5, <1>6 DEF StartRefused, ListFails, GetList, Summary, Exit
<1>7. CASE SubmitFails \/ WatchTimesOut
  BY <1>5, <1>7, DoneLeavesStart DEF SubmitFails, WatchTimesOut
<1>8. CASE UNCHANGED script
  BY <1>5, <1>8 DEF script
<1> QED
  BY <1>1, <1>2, <1>3, <1>4, <1>6, <1>7, <1>8 DEF Next, BuildEnds, vars

(* The timeout bounds the number of polls, and the time but for what the   *)
(* calls themselves took.                                                  *)
THEOREM WatchHolds == Spec => []WatchIsBounded
<1>1. Init => WatchPaid
  BY CubesandboxCliAssumption DEF Init, WatchPaid
<1>2. WatchPaid => WatchIsBounded
  <2> SUFFICES ASSUME WatchPaid PROVE WatchIsBounded
    OBVIOUS
  <2>1. polls * MaxCall \in Nat
    BY CubesandboxCliAssumption DEF WatchPaid
  <2> QED
    BY <2>1, CubesandboxCliAssumption DEF WatchPaid, WatchIsBounded
<1> QED
  BY <1>1, <1>2, NextWatchPaid, PTL DEF Spec

--------------------------------------------------------------------------------
(* What sync-node makes of a list.                                         *)

(* Induction, with a set for the predicate: the library's own theorems for *)
(* it are about operators, but the least element of a set of numbers is    *)
(* within reach.                                                           *)
LEMMA SetInduction ==
    ASSUME NEW S, 0 \in S, \A n \in Nat : n \in S => n + 1 \in S
    PROVE  Nat \subseteq S
<1> DEFINE R == OpToRel(<, Nat)
<1>1. IsWellFoundedOn(R, Nat)
  BY NatLessThanWellFounded
<1>2. \A x, y \in Nat : x < y => <<x, y>> \in R
  BY DEF OpToRel
<1>3. SUFFICES ASSUME Nat \ S # {} PROVE FALSE
  OBVIOUS
<1> HIDE DEF R
<1>4. PICK x \in Nat \ S : \A y \in Nat \ S : ~(<<y, x>> \in R)
  BY <1>1, <1>3, WFMin
<1>5. x - 1 \in Nat /\ x = (x - 1) + 1 /\ x - 1 < x
  BY <1>4
<1>6. x - 1 \notin S
  BY <1>4, <1>5
<1> QED BY <1>2, <1>4, <1>5, <1>6

Entry == [id : Templates, ready : BOOLEAN]

(* ReadyOnes is what its recursion says, and a list of templates that were *)
(* ready.                                                                  *)
LEMMA ReadyOnesAreReady ==
    ASSUME NEW s \in Seq(Entry)
    PROVE  /\ ReadyOnes(s) \in Seq(Templates)
           /\ \A t \in Elements(ReadyOnes(s)) : \E i \in DOMAIN s : s[i].id = t /\ s[i].ready
<1> DEFINE N == Len(s)
           next(q, n) == IF s[n].ready THEN Append(q, s[n].id) ELSE q
           step(g, n) == IF n = 0 THEN <<>> ELSE next(g[n - 1], n)
           OK(q) == /\ q \in Seq(Templates)
                    /\ \A k \in 1 .. Len(q) : \E i \in DOMAIN s : s[i].id = q[k] /\ s[i].ready
<1>1. N \in Nat /\ DOMAIN s = 1 .. N /\ \A i \in 1 .. N : s[i] \in Entry
  OBVIOUS
<1>2. \A n \in 1 .. N : \A q : OK(q) => OK(next(q, n))
  <2> SUFFICES ASSUME NEW n \in 1 .. N, NEW q, OK(q), s[n].ready
               PROVE  OK(Append(q, s[n].id))
    OBVIOUS
  <2>1. s[n].id \in Templates
    BY <1>1 DEF Entry
  <2>2. /\ Append(q, s[n].id) \in Seq(Templates) /\ Len(Append(q, s[n].id)) = Len(q) + 1
        /\ \A k \in 1 .. Len(q) : Append(q, s[n].id)[k] = q[k]
        /\ Append(q, s[n].id)[Len(q) + 1] = s[n].id
    BY <2>1
  <2>3. \A k \in 1 .. Len(q) + 1 : k \in 1 .. Len(q) \/ k = Len(q) + 1
    BY <2>2
  <2> QED BY <1>1, <2>2, <2>3
<1>3. OK(<<>>)
  OBVIOUS
<1> HIDE DEF OK, next
<1>4. \E g : g = [n \in 0 .. N |-> step(g, n)]
  <2> DEFINE P == {m \in Nat : \E g : g = [n \in 0 .. m |-> step(g, n)]}
  <2>1. 0 \in P
    <3>1. [n \in 0 .. 0 |-> <<>>] = [n \in 0 .. 0 |-> step([j \in 0 .. 0 |-> <<>>], n)]
      OBVIOUS
    <3> QED BY <3>1
  <2>2. ASSUME NEW m \in Nat, m \in P PROVE m + 1 \in P
    <3>1. PICK g : g = [n \in 0 .. m |-> step(g, n)]
      BY <2>2
    <3> DEFINE h == [n \in 0 .. m + 1 |-> IF n <= m THEN g[n] ELSE next(g[m], n)]
    <3>2. \A n \in 0 .. m : h[n] = g[n]
      OBVIOUS
    <3>3. ASSUME NEW n \in 0 .. m + 1 PROVE h[n] = step(h, n)
      <4>1. CASE n = 0
        BY <3>1, <3>2, <4>1
      <4>2. CASE n # 0 /\ n <= m
        <5>1. n \in 0 .. m /\ n - 1 \in 0 .. m
          BY <4>2
        <5>2. g[n] = next(g[n - 1], n)
          BY <3>1, <4>2, <5>1
        <5> QED BY <3>2, <4>2, <5>1, <5>2
      <4>3. CASE n = m + 1
        <5>1. h[n] = next(g[m], n) /\ n - 1 = m /\ h[m] = g[m] /\ n # 0
          BY <3>2, <4>3
        <5> HIDE DEF h
        <5> QED BY <5>1
      <4> QED BY <4>1, <4>2, <4>3
    <3>4. h = [n \in 0 .. m + 1 |-> step(h, n)]
      BY <3>3
    <3> HIDE DEF h, step
    <3>5. \E k : k = [n \in 0 .. m + 1 |-> step(k, n)]
      BY <3>4
    <3> QED BY <3>5
  <2> HIDE DEF P
  <2>3. N \in P
    BY <1>1, <2>1, <2>2, SetInduction
  <2> QED BY <2>3 DEF P
<1> DEFINE kept == CHOOSE g : g = [n \in 0 .. N |-> step(g, n)]
<1>5. kept = [n \in 0 .. N |-> step(kept, n)]
  BY <1>4
<1>6. ReadyOnes(s) = kept[N]
  BY DEF ReadyOnes, next
<1> HIDE DEF kept
<1>7. OK(kept[N])
  <2> DEFINE P == {m \in Nat : m <= N => OK(kept[m])}
  <2>1. 0 \in P
    BY <1>1, <1>3, <1>5
  <2>2. ASSUME NEW m \in Nat, m \in P PROVE m + 1 \in P
    <3> SUFFICES ASSUME m + 1 <= N PROVE OK(kept[m + 1])
      OBVIOUS
    <3>1. OK(kept[m]) /\ m + 1 \in 1 .. N
      BY <1>1, <2>2
    <3>2. kept[m + 1] = next(kept[m], m + 1)
      <4>1. m + 1 \in 0 .. N /\ m + 1 # 0 /\ (m + 1) - 1 = m
        BY <1>1
      <4> QED BY <1>5, <4>1
    <3> QED BY <1>2, <3>1, <3>2
  <2> HIDE DEF P
  <2>3. N \in P
    BY <1>1, <2>1, <2>2, SetInduction
  <2> QED BY <1>1, <2>3 DEF P
<1> QED BY <1>6, <1>7 DEF OK, Elements

--------------------------------------------------------------------------------
(* What the script says of its templates.                                  *)

\* CubeMaster has the job of t, and its build is ready if it is watched
Realised(t) ==
    /\ cmd.verb # "watch" => t \in Submitted
    /\ cmd.watch => build[t] = "ready"

Builds == [Templates -> {"none", "building", "ready", "error"}]

(* Of what was chosen, each template is still to do, noted as failed, or   *)
(* counted and real; a watched template has been submitted; the exit code  *)
(* waits for the end.                                                      *)
Accounted ==
    /\ cmd \in Commands /\ build \in Builds /\ good \in Nat
    /\ chosen \in Seq(Templates) /\ todo \in Seq(Templates) /\ failed \in Seq(Templates)
    /\ at \in {"submitting", "watching"} => todo # <<>>
    /\ at \in {"start", "listing"} => chosen = <<>> /\ todo = <<>> /\ failed = <<>> /\ good = 0
    /\ at # "exited" => exit = None
    /\ at = "watching" /\ cmd.verb # "watch" => Head(todo) \in Submitted
    /\ Elements(failed) \cup Elements(todo) \subseteq Elements(chosen)
    /\ cmd.verb # "sync-node" =>
          /\ at \notin {"listing", "summary"}
          /\ at \in {"submitting", "watching"} => chosen = todo /\ Len(todo) = 1
          /\ exit = 0 => \A t \in Elements(chosen) \ Elements(failed) : Realised(t)
    /\ cmd.verb = "sync-node" =>
          /\ good + Len(failed) + Len(todo) = Len(chosen)
          /\ at \in {"summary", "exited"} => todo = <<>>
          /\ at = "exited" /\ chosen # <<>> => (exit = 0 <=> failed = <<>>)
          /\ \A t \in Elements(chosen) \ (Elements(failed) \cup Elements(todo)) : Realised(t)

(* What Done makes of the two lists: the head of one goes to the end of    *)
(* the other, or nowhere.                                                  *)
LEMMA HeadMoves ==
    ASSUME NEW s \in Seq(Templates), s # <<>>, NEW f \in Seq(Templates)
    PROVE  /\ Head(s) \in Templates
           /\ Tail(s) \in Seq(Templates) /\ Append(f, Head(s)) \in Seq(Templates)
           /\ Len(s) \in Nat \ {0} /\ Len(f) \in Nat
           /\ Len(Tail(s)) = Len(s) - 1 /\ Len(Append(f, Head(s))) = Len(f) + 1
           /\ Elements(s) = {Head(s)} \cup Elements(Tail(s))
           /\ Elements(Append(f, Head(s))) = Elements(f) \cup {Head(s)}
           /\ Append(f, Head(s)) # <<>>
           /\ Len(s) = 1 => Tail(s) = <<>>
           /\ Len(s) # 1 => Tail(s) # <<>>
<1>1. /\ Head(s) \in Templates /\ Tail(s) \in Seq(Templates)
      /\ Len(s) \in Nat \ {0} /\ Len(f) \in Nat /\ Len(Tail(s)) = Len(s) - 1
      /\ Head(s) = s[1]
      /\ \A i \in 1 .. Len(Tail(s)) : Tail(s)[i] = s[i + 1]
  BY HeadTailProperties, EmptySeq
<1>2. /\ Append(f, Head(s)) \in Seq(Templates)
      /\ Len(Append(f, Head(s))) = Len(f) + 1
      /\ \A i \in 1 .. Len(f) : Append(f, Head(s))[i] = f[i]
      /\ Append(f, Head(s))[Len(f) + 1] = Head(s)
  BY <1>1
<1>3. Elements(s) = {Head(s)} \cup Elements(Tail(s))
  <2>1. /\ Elements(s) = {s[i] : i \in 1 .. Len(s)}
        /\ Elements(Tail(s)) = {Tail(s)[i] : i \in 1 .. Len(s) - 1}
    <3>1. DOMAIN s = 1 .. Len(s) /\ DOMAIN Tail(s) = 1 .. Len(s) - 1
      BY <1>1, LenProperties
    <3> QED BY <3>1, Zenon DEF Elements
  <2>2. ASSUME NEW i \in 1 .. Len(s) PROVE s[i] \in {Head(s)} \cup Elements(Tail(s))
    <3>1. CASE i # 1
      <4>1. i - 1 \in 1 .. Len(Tail(s)) /\ (i - 1) + 1 = i
        BY <1>1, <3>1
      <4>2. Tail(s)[i - 1] = s[i]
        BY <1>1, <4>1
      <4> QED BY <1>1, <2>1, <4>1, <4>2
    <3> QED BY <1>1, <3>1
  <2>3. ASSUME NEW i \in 1 .. Len(s) - 1 PROVE Tail(s)[i] \in Elements(s)
    <3>1. i + 1 \in 1 .. Len(s) /\ Tail(s)[i] = s[i + 1]
      BY <1>1
    <3> QED BY <2>1, <3>1
  <2>4. Head(s) \in Elements(s)
    <3>1. 1 \in 1 .. Len(s)
      BY <1>1
    <3> QED BY <1>1, <2>1, <3>1
  <2> QED BY <2>1, <2>2, <2>3, <2>4
<1>4. Elements(Append(f, Head(s))) = Elements(f) \cup {Head(s)}
  <2> DEFINE g == Append(f, Head(s))
  <2>1. /\ Elements(f) = {f[i] : i \in 1 .. Len(f)}
        /\ Elements(g) = {g[i] : i \in 1 .. Len(f) + 1}
    BY <1>2 DEF Elements
  <2>2. /\ \A i \in 1 .. Len(f) + 1 : i \in 1 .. Len(f) \/ i = Len(f) + 1
        /\ 1 .. Len(f) \subseteq 1 .. Len(f) + 1
        /\ Len(f) + 1 \in 1 .. Len(f) + 1
    BY <1>1
  <2>3. /\ \A i \in 1 .. Len(f) : g[i] = f[i]
        /\ g[Len(f) + 1] = Head(s)
    BY <1>2
  <2> HIDE DEF g
  <2>4. \A t \in Elements(g) : t \in Elements(f) \cup {Head(s)}
    BY <2>1, <2>2, <2>3
  <2>5. \A t \in Elements(f) \cup {Head(s)} : t \in Elements(g)
    BY <2>1, <2>2, <2>3
  <2>6. Elements(g) = Elements(f) \cup {Head(s)}
    BY <2>4, <2>5
  <2> QED BY <2>6 DEF g
<1>5. Append(f, Head(s)) # <<>>
  BY <1>1, <1>2
<1>6. Len(s) = 1 <=> Tail(s) = <<>>
  BY <1>1, EmptySeq
<1> QED BY <1>1, <1>2, <1>3, <1>4, <1>5, <1>6

LEMMA NoElements == Elements(<<>>) = {} /\ Len(<<>>) = 0
BY DEF Elements

LEMMA AccountedInit == Init => Accounted
<1> SUFFICES ASSUME Init PROVE Accounted
  OBVIOUS
<1>1. build \in Builds
  BY DEF Init, Builds
<1>2. 0 # None
  BY CubesandboxCliAssumption
<1>3. <<>> \in Seq(Templates)
  OBVIOUS
<1> QED BY <1>1, <1>2, <1>3, NoElements DEF Init, Accounted

(* What a job taken for t, or none, changes of the builds.                 *)
LEMMA JobTaken ==
    ASSUME build \in Builds, NEW t \in Templates, UNCHANGED cmd,
           TakeJob(t) \/ UNCHANGED <<jobs, build>>
    PROVE  /\ build' \in Builds
           /\ Submitted \subseteq Submitted' /\ Submitted' \subseteq Submitted \cup {t}
           /\ TakeJob(t) => t \in Submitted'
           /\ \A u \in Templates \ {t} : Realised(u) => Realised(u)'
<1>1. CASE TakeJob(t)
  <2>1. build' \in Builds /\ \A u \in Templates \ {t} : build'[u] = build[u]
    BY <1>1 DEF TakeJob, Builds
  <2>2. jobs' = jobs \cup {[template |-> t, body |-> Body]}
    BY <1>1 DEF TakeJob
  <2>3. Submitted' = Submitted \cup {t}
    <3> DEFINE new == [template |-> t, body |-> Body]
    <3>1. new.template = t
      OBVIOUS
    <3>2. jobs' = jobs \cup {new}
      BY <2>2
    <3> HIDE DEF new
    <3> QED BY <3>1, <3>2 DEF Submitted
  <2> QED BY <2>1, <2>3 DEF Realised
<1>2. CASE UNCHANGED <<jobs, build>> /\ ~TakeJob(t)
  BY <1>2 DEF Submitted, Realised
<1> QED BY <1>1, <1>2

(* Done keeps the accounts: a code of 0 must be true of the template it is *)
(* about, and of the others nothing may have been taken back.              *)
LEMMA DoneAccounted ==
    ASSUME Accounted, at \in {"submitting", "watching"}, NEW code \in {0, 1}, Done(code),
           UNCHANGED <<cmd, chosen>>, build' \in Builds,
           \A t \in Templates \ {Head(todo)} : Realised(t) => Realised(t)',
           code = 0 => \A t \in Templates : t = Head(todo) => Realised(t)'
    PROVE  Accounted'
<1> DEFINE x == Head(todo)
<1>1. /\ todo \in Seq(Templates) /\ todo # <<>> /\ failed \in Seq(Templates)
      /\ chosen \in Seq(Templates) /\ good \in Nat /\ cmd \in Commands
      /\ Elements(failed) \cup Elements(todo) \subseteq Elements(chosen)
      /\ exit = None
  BY DEF Accounted
<1>2. /\ x \in Templates
      /\ Tail(todo) \in Seq(Templates) /\ Append(failed, x) \in Seq(Templates)
      /\ Len(todo) \in Nat \ {0} /\ Len(failed) \in Nat
      /\ Len(Tail(todo)) = Len(todo) - 1 /\ Len(Append(failed, x)) = Len(failed) + 1
      /\ Elements(todo) = {x} \cup Elements(Tail(todo))
      /\ Elements(Append(failed, x)) = Elements(failed) \cup {x}
      /\ Append(failed, x) # <<>>
      /\ Len(todo) = 1 => Tail(todo) = <<>>
      /\ Len(todo) # 1 => Tail(todo) # <<>>
  BY <1>1, HeadMoves
<1>3. 0 # None /\ 1 # None
  BY CubesandboxCliAssumption
<1>6. Elements(chosen) \subseteq Templates
  BY <1>1 DEF Elements
<1>4. CASE cmd.verb = "sync-node"
  <2>1. /\ good + Len(failed) + Len(todo) = Len(chosen)
        /\ \A t \in Elements(chosen) \ (Elements(failed) \cup Elements(todo)) : Realised(t)
    BY <1>4 DEF Accounted
  <2>2. /\ todo' = Tail(todo) /\ exit' = exit
        /\ at' = IF Len(todo) = 1 THEN "summary" ELSE "submitting"
    BY <1>4 DEF Done
  <2>3. /\ good' \in Nat /\ failed' \in Seq(Templates)
        /\ good' + Len(failed') + Len(todo') = Len(chosen)
        /\ Elements(failed') \cup Elements(todo') \subseteq Elements(chosen)
        /\ \A t \in Elements(chosen) \ (Elements(failed') \cup Elements(todo')) : Realised(t)'
    <3>1. CASE code = 0
      <4>1. good' = good + 1 /\ failed' = failed
        BY <1>4, <3>1 DEF Done
      <4>2. good' \in Nat /\ good' + Len(failed') + Len(todo') = Len(chosen)
        BY <1>1, <1>2, <2>1, <2>2, <4>1
      <4>3. ASSUME NEW t \in Elements(chosen) \ (Elements(failed) \cup Elements(Tail(todo)))
            PROVE  Realised(t)'
        <5>1. CASE t = x
          BY <1>2, <3>1, <5>1
        <5>2. CASE t # x
          BY <1>2, <1>6, <2>1, <5>2
        <5> QED BY <5>1, <5>2
      <4> HIDE DEF x
      <4> QED BY <1>1, <1>2, <2>2, <4>1, <4>2, <4>3
    <3>2. CASE code = 1
      <4>1. good' = good /\ failed' = Append(failed, x)
        BY <1>4, <3>2 DEF Done
      <4>2. good' + Len(failed') + Len(todo') = Len(chosen)
        BY <1>1, <1>2, <2>1, <2>2, <4>1
      <4> QED BY <1>1, <1>2, <1>6, <2>1, <2>2, <4>1, <4>2
    <3> QED BY <3>1, <3>2
  <2> HIDE DEF x
  <2> QED BY <1>1, <1>2, <1>3, <1>4, <2>2, <2>3 DEF Accounted
<1>5. CASE cmd.verb # "sync-node"
  <2>1. chosen = todo /\ Len(todo) = 1
    BY <1>5 DEF Accounted
  <2>2. at' = "exited" /\ exit' = code /\ UNCHANGED <<good, failed, todo>>
    BY <1>5 DEF Done, Exit
  <2>3. Elements(chosen) = {x}
    BY <1>2, <2>1, NoElements
  <2> QED BY <1>1, <1>5, <2>2, <2>3 DEF Accounted
<1> QED BY <1>4, <1>5

(* A step that leaves the script's books alone, and moves it, if at all,   *)
(* from one call for the current template to the next.                     *)
LEMMA BooksKept ==
    ASSUME Accounted, UNCHANGED <<cmd, chosen, todo, good, failed, exit>>, build' \in Builds,
           \/ /\ at' = at
              /\ Submitted \subseteq Submitted'
              /\ \A t \in Templates : Realised(t) => Realised(t)'
           \/ /\ at \in {"submitting", "watching"} /\ at' = "watching"
              /\ Head(todo) \in Submitted'
              /\ \A t \in Templates \ {Head(todo)} : Realised(t) => Realised(t)'
    PROVE  Accounted'
<1>1. Elements(chosen) \subseteq Templates
  BY DEF Accounted, Elements
<1>2. 0 # None
  BY CubesandboxCliAssumption
<1>3. CASE /\ at' = at
           /\ Submitted \subseteq Submitted'
           /\ \A t \in Templates : Realised(t) => Realised(t)'
  BY <1>1, <1>3 DEF Accounted
<1>4. CASE /\ at \in {"submitting", "watching"} /\ at' = "watching"
           /\ Head(todo) \in Submitted'
           /\ \A t \in Templates \ {Head(todo)} : Realised(t) => Realised(t)'
  <2>1. Head(todo) \in Elements(todo)
    BY <1>4, HeadMoves DEF Accounted
  <2> QED BY <1>1, <1>2, <1>4, <2>1 DEF Accounted
<1> QED BY <1>3, <1>4

\* the templates GetList chooses from an answer, and whether one was ready in it
Picked(entries, layout) ==
    Limited(IF cmd.nonReady THEN Ids(entries) ELSE ReadyIds(entries, layout))

ReadyIn(entries, t) == \E i \in DOMAIN entries : entries[i].id = t /\ entries[i].ready

LEMMA LimitedIsPrefix ==
    ASSUME cmd \in Commands, NEW ids \in Seq(Templates)
    PROVE  Limited(ids) \in Seq(Templates) /\ Elements(Limited(ids)) \subseteq Elements(ids)
<1>1. CASE cmd.limit = None \/ cmd.limit > Len(ids)
  BY <1>1 DEF Limited
<1>2. CASE ~(cmd.limit = None \/ cmd.limit > Len(ids))
  <2> DEFINE l == cmd.limit
  <2>1. l \in Nat /\ l <= Len(ids)
    <3>1. cmd.limit \in Nat \cup {None}
      BY CubesandboxCliAssumption DEF CommandType
    <3>2. Len(ids) \in Nat
      OBVIOUS
    <3> QED BY <1>2, <3>1, <3>2
  <2>2. Limited(ids) = SubSeq(ids, 1, l)
    BY <1>2 DEF Limited
  <2> HIDE DEF l
  <2>3. \A i \in 1 .. l : ids[i] \in Templates /\ i \in DOMAIN ids
    BY <2>1
  <2>4. /\ SubSeq(ids, 1, l) \in Seq(Templates)
        /\ Len(SubSeq(ids, 1, l)) = IF 1 <= l THEN l - 1 + 1 ELSE 0
        /\ \A i \in 1 .. l - 1 + 1 : SubSeq(ids, 1, l)[i] = ids[1 + i - 1]
    BY <2>1, <2>3, SubSeqProperties
  <2>5. /\ DOMAIN SubSeq(ids, 1, l) = 1 .. l
        /\ \A i \in 1 .. l : SubSeq(ids, 1, l)[i] = ids[i]
    BY <2>1, <2>4
  <2>6. Elements(SubSeq(ids, 1, l)) \subseteq Elements(ids)
    BY <2>3, <2>5, Zenon DEF Elements
  <2> QED BY <2>2, <2>4, <2>6
<1> QED BY <1>1, <1>2

LEMMA PickedAreTemplates ==
    ASSUME cmd \in Commands, NEW entries \in Lists, NEW layout
    PROVE  /\ Picked(entries, layout) \in Seq(Templates)
           /\ layout = "compact" /\ ~cmd.nonReady =>
                 \A t \in Elements(Picked(entries, layout)) : ReadyIn(entries, t)
<1>1. entries \in Seq(Entry)
  BY CubesandboxCliAssumption DEF Entry
<1>2. Ids(entries) \in Seq(Templates)
  <2>1. \A i \in 1 .. Len(entries) : entries[i] \in Entry
    BY <1>1
  <2>2. \A i \in 1 .. Len(entries) : entries[i].id \in Templates
    BY <2>1 DEF Entry
  <2> QED BY <1>1, <2>2 DEF Ids
<1>3. /\ ReadyOnes(entries) \in Seq(Templates)
      /\ \A t \in Elements(ReadyOnes(entries)) : ReadyIn(entries, t)
  BY <1>1, ReadyOnesAreReady DEF ReadyIn
<1>4. ReadyIds(entries, layout) \in Seq(Templates)
  BY <1>2, <1>3 DEF ReadyIds
<1>5. Picked(entries, layout) \in Seq(Templates)
  BY <1>2, <1>4, LimitedIsPrefix DEF Picked
<1>6. ASSUME layout = "compact", ~cmd.nonReady
      PROVE  \A t \in Elements(Picked(entries, layout)) : ReadyIn(entries, t)
  <2>1. Picked(entries, layout) = Limited(ReadyOnes(entries))
    BY <1>6 DEF Picked, ReadyIds
  <2> QED BY <1>3, <2>1, LimitedIsPrefix
<1> QED BY <1>5, <1>6

LEMMA AccountedNext == Accounted /\ [Next]_vars => Accounted'
<1> SUFFICES ASSUME Accounted, [Next]_vars PROVE Accounted'
  OBVIOUS
<1>1. 0 # None /\ 1 # None
  BY CubesandboxCliAssumption
<1>2. build \in Builds /\ cmd \in Commands
  BY DEF Accounted
<1>3. CASE StartRefused
  BY <1>1, <1>3, NoElements DEF StartRefused, Exit, Accounted, Submitted, Realised
<1>4. CASE Start
  <2>1. cmd.template \in Templates /\ cmd.verb \in Verbs
    BY <1>2, CubesandboxCliAssumption DEF CommandType
  <2>2. CASE cmd.verb = "sync-node"
    BY <1>1, <1>4, <2>2, NoElements DEF Start, Accounted
  <2>3. CASE cmd.verb # "sync-node"
    <3> DEFINE one == <<cmd.template>>
    <3>1. one \in Seq(Templates) /\ Len(one) = 1 /\ one # <<>>
      BY <2>1
    <3>2. chosen' = one /\ todo' = one /\ UNCHANGED <<cmd, failed, good, exit, jobs, build>>
      BY <1>4, <2>3 DEF Start
    <3>3. /\ at' = "watching" => cmd.verb = "watch"
          /\ at' \in {"submitting", "watching"}
      BY <1>4, <2>1, <2>3 DEF Start, Verbs
    <3>4. failed = <<>> /\ good = 0 /\ exit = None
      BY <1>4 DEF Start, Accounted
    <3> HIDE DEF one
    <3> QED BY <1>1, <1>2, <2>3, <3>1, <3>2, <3>3, <3>4, NoElements DEF Accounted
  <2> QED BY <2>2, <2>3
<1>5. CASE ListFails
  BY <1>1, <1>5, NoElements DEF ListFails, Exit, Accounted
<1>6. CASE GetList
  <2>1. PICK entries \in Lists, layout \in Layouts :
           LET ids == Picked(entries, layout) IN
           /\ chosen' = ids /\ todo' = ids
           /\ IF ids = <<>> THEN Exit(0) ELSE at' = "submitting" /\ UNCHANGED exit
    BY <1>6 DEF GetList, Picked
  <2> DEFINE ids == Picked(entries, layout)
  <2>2. ids \in Seq(Templates)
    BY <1>2, PickedAreTemplates
  <2>3. UNCHANGED <<cmd, failed, good, jobs, build>> /\ at = "listing"
    BY <1>6 DEF GetList
  <2>4. /\ cmd.verb = "sync-node" /\ failed = <<>> /\ good = 0 /\ exit = None
    BY <2>3 DEF Accounted
  <2>5. /\ chosen' = ids /\ todo' = ids
        /\ ids = <<>> => at' = "exited" /\ exit' = 0
        /\ ids # <<>> => at' = "submitting" /\ exit' = exit
    BY <2>1 DEF Exit
  <2> HIDE DEF ids
  <2>6. 0 + 0 + Len(ids) = Len(ids)
    BY <2>2
  <2> QED BY <1>1, <1>2, <2>2, <2>3, <2>4, <2>5, <2>6, NoElements DEF Accounted
<1>7. CASE Summary
  <2>1. /\ at = "summary" /\ at' = "exited" /\ exit' = IF failed = <<>> THEN 0 ELSE 1
        /\ UNCHANGED <<cmd, chosen, todo, good, failed, jobs, build>>
    BY <1>7 DEF Summary, Exit
  <2>2. cmd.verb = "sync-node" /\ todo = <<>>
    BY <2>1 DEF Accounted
  <2> QED BY <1>1, <2>1, <2>2 DEF Accounted, Realised, Submitted
<1>8. CASE Submit
  <2>1. /\ at = "submitting" /\ UNCHANGED <<cmd, chosen>> /\ TakeJob(Head(todo))
    BY <1>8 DEF Submit
  <2>2. Head(todo) \in Templates
    BY <2>1, HeadMoves DEF Accounted
  <2>3. /\ build' \in Builds /\ Head(todo) \in Submitted'
        /\ \A t \in Templates \ {Head(todo)} : Realised(t) => Realised(t)'
    BY <1>2, <2>1, <2>2, JobTaken
  <2>4. CASE cmd.watch
    BY <1>8, <2>1, <2>3, <2>4, BooksKept DEF Submit
  <2>5. CASE ~cmd.watch
    <3>1. \A t \in Templates : t = Head(todo) => Realised(t)'
      BY <2>1, <2>3, <2>5 DEF Realised
    <3>2. Done(0)
      BY <1>8, <2>5 DEF Submit
    <3> QED BY <2>1, <2>3, <3>1, <3>2, DoneAccounted
  <2> QED BY <2>4, <2>5
<1>9. CASE SubmitFails
  <2>1. /\ at = "submitting" /\ UNCHANGED <<cmd, chosen>> /\ Done(1)
        /\ TakeJob(Head(todo)) \/ UNCHANGED <<jobs, build>>
    BY <1>9 DEF SubmitFails
  <2>2. Head(todo) \in Templates
    BY <2>1, HeadMoves DEF Accounted
  <2>3. /\ build' \in Builds
        /\ \A t \in Templates \ {Head(todo)} : Realised(t) => Realised(t)'
    BY <1>2, <2>1, <2>2, JobTaken
  <2> QED BY <2>1, <2>3, DoneAccounted
<1>10. ASSUME UNCHANGED <<cmd, jobs, build>>
       PROVE  build' \in Builds /\ Submitted' = Submitted /\ \A t : Realised(t)' <=> Realised(t)
  BY <1>2, <1>10 DEF Submitted, Realised
<1>11. CASE PollFails
  BY <1>10, <1>11, BooksKept DEF PollFails, SleepOn
<1>12. CASE PollAnswered
  <2>1. at = "watching" /\ UNCHANGED <<cmd, chosen, jobs, build>>
    BY <1>12 DEF PollAnswered
  <2>2. PICK present \in SUBSET Fields :
           \/ Errexit /\ Exit(1) /\ UNCHANGED <<good, failed, todo>>
           \/ "status" \in present /\ build[Head(todo)] = "ready" /\ Done(0)
           \/ Done(1)
           \/ SleepOn
    BY <1>12 DEF PollAnswered
  <2>3. CASE Errexit /\ Exit(1) /\ UNCHANGED <<good, failed, todo>>
    <3>1. /\ cmd.verb # "sync-node" /\ at' = "exited" /\ exit' = 1
      BY <2>3 DEF Errexit, Exit
    <3> QED BY <1>1, <2>1, <2>3, <3>1 DEF Accounted
  <2>4. CASE build[Head(todo)] = "ready" /\ Done(0)
    <3>1. cmd.verb # "watch" => Head(todo) \in Submitted
      BY <2>1 DEF Accounted
    <3>2. \A t \in Templates : t = Head(todo) => Realised(t)'
      BY <1>10, <2>1, <2>4, <3>1 DEF Realised
    <3> QED BY <1>10, <2>1, <2>4, <3>2, DoneAccounted
  <2>5. CASE Done(1)
    BY <1>10, <2>1, <2>5, DoneAccounted
  <2>6. CASE SleepOn
    BY <1>10, <2>1, <2>6, BooksKept DEF SleepOn
  <2> QED BY <2>2, <2>3, <2>4, <2>5, <2>6
<1>13. CASE WatchTimesOut
  <2>1. at = "watching" /\ UNCHANGED <<cmd, chosen, jobs, build>> /\ Done(1)
    BY <1>13 DEF WatchTimesOut
  <2> QED BY <1>10, <2>1, DoneAccounted
<1>14. CASE \E t \in Templates : BuildEnds(t)
  <2>1. PICK t \in Templates : BuildEnds(t)
    BY <1>14
  <2>2. /\ build' \in Builds /\ UNCHANGED <<cmd, script, jobs>>
        /\ \A u \in Templates : build[u] = "ready" => build'[u] = "ready"
    BY <1>2, <2>1 DEF BuildEnds, Builds
  <2>3. Submitted' = Submitted /\ \A u \in Templates : Realised(u) => Realised(u)'
    BY <2>2 DEF Submitted, Realised
  <2> QED BY <2>2, <2>3, BooksKept DEF script
<1>15. CASE UNCHANGED vars
  BY <1>10, <1>15, BooksKept DEF vars, script
<1> QED
  BY <1>3, <1>4, <1>5, <1>6, <1>7, <1>8, <1>9, <1>11, <1>12, <1>13, <1>14, <1>15 DEF Next

(* The counts and the names sync-node ends with add up to what it chose,   *)
(* and its exit code says whether any template failed.                     *)
THEOREM SyncNodeAddsUp == Spec => []SummaryAddsUp
<1>1. Accounted => SummaryAddsUp
  <2> SUFFICES ASSUME Accounted, at = "exited", cmd.verb = "sync-node", chosen # <<>>
               PROVE  /\ good + Len(failed) = Len(chosen)
                      /\ Elements(failed) \subseteq Elements(chosen)
                      /\ exit = 0 <=> failed = <<>>
    BY DEF SummaryAddsUp
  <2>1. /\ good \in Nat /\ Len(failed) \in Nat /\ Len(todo) = 0
        /\ good + Len(failed) + Len(todo) = Len(chosen)
    BY NoElements DEF Accounted
  <2> QED BY <2>1 DEF Accounted
<1> QED BY <1>1, AccountedInit, AccountedNext, PTL DEF Spec

(* What the script reports as a success, CubeMaster has accepted, and has  *)
(* built if the script watched it.                                         *)
THEOREM SuccessHolds == Spec => []SuccessIsReal
<1>1. Accounted => SuccessIsReal
  <2> SUFFICES ASSUME Accounted, exit = 0 \/ at = "summary",
                      NEW t \in Elements(chosen) \ Elements(failed)
               PROVE  Realised(t)
    BY DEF SuccessIsReal, Realised
  <2>1. 0 # None
    BY CubesandboxCliAssumption
  <2>2. at \in {"summary", "exited"}
    BY <2>1 DEF Accounted
  <2> QED BY <2>2, NoElements DEF Accounted
<1> QED BY <1>1, AccountedInit, AccountedNext, PTL DEF Spec

(* sync-node submits what it chose, and what it chose of a compact list    *)
(* was ready in it.                                                        *)
ReadyChosen ==
    cmd.verb = "sync-node" =>
        /\ Submitted \subseteq Elements(chosen)
        /\ ~cmd.nonReady /\ listed.layout = "compact" =>
              \A t \in Elements(chosen) : ReadyIn(listed.entries, t)

LEMMA ReadyChosenNext == Accounted /\ ReadyChosen /\ [Next]_vars => ReadyChosen'
<1> SUFFICES ASSUME Accounted, ReadyChosen, [Next]_vars, cmd.verb = "sync-node"
             PROVE  ReadyChosen'
  BY DEF ReadyChosen, Next, vars, StartRefused, Start, ListFails, GetList, Summary, Submit,
         SubmitFails, PollFails, PollAnswered, WatchTimesOut, BuildEnds
<1>1. ASSUME UNCHANGED <<cmd, listed, chosen, jobs>>
      PROVE  ReadyChosen'
  BY <1>1 DEF ReadyChosen, Submitted, ReadyIn
<1>2. CASE GetList
  <2>1. PICK entries \in Lists, layout \in Layouts :
           /\ listed' = [entries |-> entries, layout |-> layout]
           /\ chosen' = Picked(entries, layout)
    BY <1>2 DEF GetList, Picked
  <2>2. UNCHANGED <<cmd, jobs>> /\ at = "listing" /\ cmd \in Commands
    BY <1>2 DEF GetList, Accounted
  <2>3. Submitted' = {}
    BY <2>2, NoElements DEF Accounted, ReadyChosen, Submitted
  <2>4. listed'.entries = entries /\ listed'.layout = layout
    BY <2>1
  <2>5. ASSUME layout = "compact", ~cmd.nonReady
        PROVE  \A t \in Elements(chosen') : ReadyIn(entries, t)
    BY <2>1, <2>2, <2>5, PickedAreTemplates
  <2> QED BY <2>2, <2>3, <2>4, <2>5 DEF ReadyChosen, ReadyIn, Elements
<1>3. CASE Submit \/ SubmitFails
  <2>1. /\ at = "submitting" /\ UNCHANGED <<cmd, listed, chosen>>
        /\ TakeJob(Head(todo)) \/ UNCHANGED <<jobs, build>>
    BY <1>3 DEF Submit, SubmitFails
  <2>2. Head(todo) \in Templates /\ Head(todo) \in Elements(chosen)
    BY <2>1, HeadMoves DEF Accounted
  <2>3. Submitted' \subseteq Submitted \cup {Head(todo)}
    BY <2>1, <2>2, JobTaken DEF Accounted
  <2> QED BY <2>1, <2>2, <2>3 DEF ReadyChosen, ReadyIn, Elements
<1>4. CASE Start
  BY <1>1, <1>4 DEF Start
<1>5. CASE StartRefused \/ ListFails \/ Summary \/ PollFails \/ PollAnswered \/ WatchTimesOut
  BY <1>1, <1>5 DEF StartRefused, ListFails, Summary, PollFails, PollAnswered, WatchTimesOut
<1>6. CASE (\E t \in Templates : BuildEnds(t)) \/ UNCHANGED vars
  BY <1>1, <1>6 DEF BuildEnds, script, vars
<1> QED BY <1>2, <1>3, <1>4, <1>5, <1>6 DEF Next

(* Where CubeMaster writes its list without blanks, sync-node keeps the    *)
(* promise of its help text: only templates that were READY are submitted. *)
THEOREM CompactListIsFiltered == Spec => [](listed.layout = "compact" => OnlyReadyIsSynced)
<1>1. Init => ReadyChosen
  BY NoElements DEF Init, ReadyChosen, Submitted
<1>2. ReadyChosen => (listed.layout = "compact" => OnlyReadyIsSynced)
  BY DEF ReadyChosen, OnlyReadyIsSynced, ReadyIn
<1> QED BY <1>1, <1>2, AccountedInit, AccountedNext, ReadyChosenNext, PTL DEF Spec

--------------------------------------------------------------------------------
(* What is made of a build that is ready: where errexit is off, as it is   *)
(* in sync-node, a watch that is told so counts a success, whatever fields *)
(* the answer lacks.  The run cli_watch shows that a watch in the other    *)
(* subcommands may fail on such an answer.                                 *)
THEOREM SyncNodeReportsReady ==
    Spec => [][(/\ cmd.verb = "sync-node" /\ at = "watching"
                /\ told # "ready" /\ told' = "ready") => good' = good + 1]_vars
<1>1. [Next]_vars =>
        [(/\ cmd.verb = "sync-node" /\ at = "watching"
          /\ told # "ready" /\ told' = "ready") => good' = good + 1]_vars
  <2> SUFFICES ASSUME Next, cmd.verb = "sync-node", at = "watching",
                      told # "ready", told' = "ready"
               PROVE  good' = good + 1
    BY DEF vars
  <2>1. PollAnswered
    BY DEF Next, StartRefused, Start, ListFails, GetList, Summary, Submit, SubmitFails,
           PollFails, WatchTimesOut, BuildEnds, script
  <2>2. Done(0)
    BY <2>1 DEF PollAnswered, Errexit
  <2> QED BY <2>2 DEF Done
<1> QED BY <1>1, PTL DEF Spec

=============================================================================
