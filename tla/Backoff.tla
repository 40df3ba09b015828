------------------------------- MODULE Backoff -------------------------------
(***************************************************************************)
(* The waiting times of the image-sync client: retryDelay doubles the      *)
(* configured interval once per attempt already made while it is below a   *)
(* ceiling, then clamps it.  Durations are naturals in a unit of choice.   *)
(***************************************************************************)
EXTENDS Integers, FiniteSetTheorems, FunctionTheorems, TLAPS

CONSTANTS
    MaxDelay,     \* the ceiling, five seconds in the code
    MaxInterval,  \* bound: the longest configured interval considered
    MaxAttempt    \* bound: the last attempt considered

ASSUME BackoffAssumption ==
    MaxDelay \in Nat \ {0} /\ MaxInterval \in Nat /\ MaxAttempt \in Nat \ {0}

VARIABLES interval, attempt, i, delay

vars == <<interval, attempt, i, delay>>

\* retryDelay's body: its loop variable, its running delay, and the result
Init ==
    /\ interval \in 0 .. MaxInterval
    /\ attempt \in 1 .. MaxAttempt
    /\ i = 1
    /\ delay = interval

\* mutants of Looping: once too often; without the ceiling
Looping_OnceMore  == i <= attempt /\ delay < MaxDelay
Looping_NoCeiling == i < attempt

Looping == i < attempt /\ delay < MaxDelay

Loop ==
    /\ Looping
    /\ delay' = delay * 2
    /\ i' = i + 1
    /\ UNCHANGED <<interval, attempt>>

Next == Loop
Spec == Init /\ [][Next]_vars

\* the value returned once the loop is left
retryDelay == IF delay > MaxDelay THEN MaxDelay ELSE delay

--------------------------------------------------------------------------------
(* Every variable keeps its type, and the loop variable its range.         *)
TypeOK ==
    /\ interval \in Nat
    /\ attempt \in Nat \ {0}
    /\ i \in 1 .. attempt
    /\ delay \in Nat

(* The wait after attempt n is interval * 2^(n-1), or the ceiling: what    *)
(* the early exit and the clamp make of it is the exponential backoff.     *)
DelayIsExponential ==
    ~Looping => LET pure == interval * 2^(attempt - 1) IN
                retryDelay = IF pure > MaxDelay THEN MaxDelay ELSE pure

(* No product of the loop overflows, for any number of attempts: it stays  *)
(* below twice the ceiling unless the interval itself is longer.           *)
DelayFits == delay = interval \/ delay < 2 * MaxDelay

LEMMA InitInv == Init => TypeOK /\ DelayFits
BY BackoffAssumption DEF Init, TypeOK, DelayFits

LEMMA NextInv == TypeOK /\ DelayFits /\ [Next]_vars => TypeOK' /\ DelayFits'
<1> SUFFICES ASSUME TypeOK, DelayFits, [Next]_vars PROVE TypeOK' /\ DelayFits'
  OBVIOUS
<1>1. CASE Loop
  BY <1>1, BackoffAssumption DEF TypeOK, DelayFits, Loop, Looping
<1>2. CASE UNCHANGED vars
  BY <1>2 DEF TypeOK, DelayFits, vars
<1> QED BY <1>1, <1>2 DEF Next

(* No overflow in retryDelay, for every interval, ceiling and attempt.     *)
THEOREM NoOverflow == Spec => []DelayFits
BY InitInv, NextInv, PTL DEF Spec

(* The wait is never longer than the ceiling.                              *)
THEOREM CeilingHolds == Spec => [](retryDelay \in 0 .. MaxDelay)
<1>1. TypeOK => retryDelay \in 0 .. MaxDelay
  BY BackoffAssumption DEF TypeOK, retryDelay
<1> QED BY <1>1, InitInv, NextInv, PTL DEF Spec

--------------------------------------------------------------------------------
(* Powers of two.  The provers know none of their laws; the library has    *)
(* one of them, that a set of n elements has 2^n subsets, and the others   *)
(* follow by counting the subsets of 1 .. n.                               *)

LEMMA Subsets ==
    ASSUME NEW n \in Nat
    PROVE  /\ IsFiniteSet(SUBSET (1 .. n)) /\ Cardinality(SUBSET (1 .. n)) = 2^n
           /\ 2^n \in Nat
<1>1. IsFiniteSet(1 .. n) /\ Cardinality(1 .. n) = n
  BY FS_Interval
<1>2. IsFiniteSet(SUBSET (1 .. n)) /\ Cardinality(SUBSET (1 .. n)) = 2^n
  BY <1>1, FS_SUBSET
<1> QED BY <1>2, FS_CardinalityType

\* the subsets of 1 .. m are subsets of 1 .. n
LEMMA PowersGrow ==
    ASSUME NEW m \in Nat, NEW n \in Nat, m <= n
    PROVE  2^m <= 2^n
<1>1. SUBSET (1 .. m) \in SUBSET (SUBSET (1 .. n))
  <2>1. 1 .. m \subseteq 1 .. n
    OBVIOUS
  <2> QED BY <2>1
<1>2. IsFiniteSet(SUBSET (1 .. n))
  BY Subsets
<1>3. Cardinality(SUBSET (1 .. m)) <= Cardinality(SUBSET (1 .. n))
  BY <1>1, <1>2, FS_Subset, Zenon
<1>4. Cardinality(SUBSET (1 .. m)) = 2^m /\ Cardinality(SUBSET (1 .. n)) = 2^n
  BY Subsets
<1> QED BY <1>3, <1>4, Zenon

\* half of the subsets of 1 .. n + 1 are without n + 1, the others with it
LEMMA PowersDouble ==
    ASSUME NEW n \in Nat
    PROVE  2^(n + 1) = 2 * 2^n
<1> DEFINE without == SUBSET (1 .. n)
           with == {T \cup {n + 1} : T \in without}
           f == [T \in without |-> T \cup {n + 1}]
<1>1. n + 1 \notin 1 .. n /\ 1 .. n + 1 = (1 .. n) \cup {n + 1}
  OBVIOUS
<1>2. without \cap with = {}
  BY <1>1
<1>3. SUBSET (1 .. n + 1) = without \cup with
  <2>1. ASSUME NEW T \in SUBSET (1 .. n + 1), n + 1 \in T PROVE T \in with
    <3>1. T \ {n + 1} \in without /\ T = (T \ {n + 1}) \cup {n + 1}
      BY <1>1, <2>1
    <3> QED BY <3>1
  <2>2. ASSUME NEW T \in SUBSET (1 .. n + 1), n + 1 \notin T PROVE T \in without
    BY <1>1, <2>2
  <2>3. without \cup with \subseteq SUBSET (1 .. n + 1)
    BY <1>1
  <2> QED BY <2>1, <2>2, <2>3
<1>4. f \in Bijection(without, with)
  <2>1. f \in [without -> with]
    OBVIOUS
  <2>2. ASSUME NEW S \in without, NEW T \in without, f[S] = f[T] PROVE S = T
    <3>1. S \cup {n + 1} = T \cup {n + 1}
      BY <2>2
    <3>2. n + 1 \notin S /\ n + 1 \notin T
      BY <1>1
    <3> QED BY <3>1, <3>2
  <2>3. \A U \in with : \E T \in without : f[T] = U
    OBVIOUS
  <2> QED BY <2>1, <2>2, <2>3, Fun_IsBij
<1>5. IsFiniteSet(without) /\ Cardinality(without) = 2^n /\ 2^n \in Nat
  BY Subsets
<1>6. IsFiniteSet(with) /\ Cardinality(with) = 2^n
  BY <1>4, <1>5, FS_Bijection DEF ExistsBijection
<1>7. Cardinality(SUBSET (1 .. n + 1)) = 2^(n + 1)
  BY Subsets
<1> HIDE DEF without, with, f
<1>8. Cardinality(without \cup with) = Cardinality(without) + Cardinality(with)
  <2>1. Cardinality(without \cup with) =
            Cardinality(without) + Cardinality(with) - Cardinality(without \cap with)
    BY <1>5, <1>6, FS_Union
  <2>2. Cardinality(without \cap with) = 0
    BY <1>2, FS_EmptySet, Zenon
  <2>3. Cardinality(without) \in Nat /\ Cardinality(with) \in Nat
    BY <1>5, <1>6
  <2> QED BY <2>1, <2>2, <2>3
<1>9. 2^(n + 1) = 2^n + 2^n
  BY <1>3, <1>5, <1>6, <1>7, <1>8, Zenon
<1>10. \A k \in Nat : k + k = 2 * k
  OBVIOUS
<1> QED BY <1>5, <1>9, <1>10, Zenon

\* inductive: the loop has doubled the interval i - 1 times
Doubled == delay = interval * 2^(i - 1)

LEMMA InitDoubled == Init => Doubled
<1> SUFFICES ASSUME Init PROVE Doubled
  OBVIOUS
<1>1. i = 1 /\ delay = interval /\ interval \in Nat
  BY BackoffAssumption DEF Init
<1>2. i - 1 = 0
  BY <1>1
<1>3. 2^0 = 1
  BY SMT
<1>4. interval * 1 = interval
  BY <1>1
<1>5. interval * 2^(i - 1) = interval
  BY <1>2, <1>3, <1>4, Zenon
<1> QED BY <1>1, <1>5 DEF Doubled

LEMMA NextDoubled == TypeOK /\ Doubled /\ [Next]_vars => Doubled'
<1> SUFFICES ASSUME TypeOK, Doubled, [Next]_vars PROVE Doubled'
  OBVIOUS
<1>1. CASE Loop
  <2>1. /\ i - 1 \in Nat /\ i' - 1 = (i - 1) + 1 /\ interval' = interval /\ interval \in Nat
        /\ delay' = delay * 2
    BY <1>1 DEF Loop, TypeOK
  <2>2. 2^((i - 1) + 1) = 2 * 2^(i - 1) /\ 2^(i - 1) \in Nat
    BY <2>1, PowersDouble, Subsets
  <2>3. \A a, b \in Nat : (a * b) * 2 = a * (2 * b)
    OBVIOUS
  <2>4. delay * 2 = interval * (2 * 2^(i - 1))
    BY <2>1, <2>2, <2>3, Zenon DEF Doubled
  <2>5. delay' = interval' * 2^(i' - 1)
    BY <2>1, <2>2, <2>4, Zenon
  <2> QED BY <2>5 DEF Doubled
<1>2. CASE UNCHANGED vars
  BY <1>2 DEF Doubled, vars
<1> QED BY <1>1, <1>2 DEF Next

(* For every interval, ceiling and attempt the loop returns the interval   *)
(* times 2^(n-1), or the ceiling: leaving it early changes nothing, for    *)
(* what it would go on to double has reached the ceiling already.          *)
THEOREM BackoffIsExponential == Spec => []DelayIsExponential
<1>1. TypeOK /\ Doubled => DelayIsExponential
  <2> DEFINE pure == interval * 2^(attempt - 1)
  <2> SUFFICES ASSUME TypeOK, Doubled, ~Looping
               PROVE  retryDelay = IF pure > MaxDelay THEN MaxDelay ELSE pure
    BY DEF DelayIsExponential
  <2>1. CASE i = attempt
    <3>1. delay = pure
      BY <2>1 DEF Doubled
    <3> QED BY <3>1 DEF retryDelay
  <2>2. CASE i # attempt
    <3>1. /\ i - 1 \in Nat /\ attempt - 1 \in Nat /\ i - 1 <= attempt - 1
          /\ interval \in Nat /\ delay \in Nat /\ delay >= MaxDelay
      BY <2>2, BackoffAssumption DEF TypeOK, Looping
    <3>2. 2^(i - 1) \in Nat /\ 2^(attempt - 1) \in Nat /\ 2^(i - 1) <= 2^(attempt - 1)
      BY <3>1, Subsets, PowersGrow
    <3>3. \A a, b, c \in Nat : b <= c => a * b <= a * c /\ a * c \in Nat
      OBVIOUS
    <3>4. delay <= pure /\ pure \in Nat
      BY <3>1, <3>2, <3>3, Zenon DEF Doubled
    <3> HIDE DEF pure
    <3> QED BY <3>1, <3>4, BackoffAssumption DEF retryDelay
  <2> QED BY <2>1, <2>2
<1>2. Spec => [](TypeOK /\ Doubled)
  <2>1. Init => TypeOK /\ Doubled
    BY InitInv, InitDoubled
  <2>2. TypeOK /\ Doubled /\ DelayFits /\ [Next]_vars => (TypeOK /\ Doubled)'
    BY NextInv, NextDoubled
  <2> QED BY <2>1, <2>2, NoOverflow, PTL DEF Spec
<1> QED BY <1>1, <1>2, PTL

==============================================================================
