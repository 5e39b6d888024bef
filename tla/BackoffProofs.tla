---------------------------- MODULE BackoffProofs ----------------------------
(***************************************************************************)
(* Proofs about Backoff for every width of the integers, every resolution  *)
(* of the clock and all settings, the 64 bits of the code among them.      *)
(***************************************************************************)
EXTENDS Backoff, TLAPS

\* A remainder is smaller than the divisor.
LEMMA ModBound ==
    ASSUME NEW a \in Nat, NEW b \in Nat \ {0}
    PROVE  a % b \in 0..(b - 1)
OBVIOUS

\* The span is the true number of delays, except that it wraps to zero when
\* the bounds are the whole range of integers apart.
LEMMA SpanExact ==
    ASSUME TypeOK
    PROVE  /\ Lo \in 0..MaxU /\ Hi \in 0..MaxU /\ Lo <= Hi
           /\ Hi - Lo < MaxU => Span = Hi - Lo + 1
           /\ Hi - Lo = MaxU => Span = 0
<1> USE BackoffAssumption
<1>1. /\ min \in 0..MaxU /\ max \in 0..MaxU BY DEF TypeOK
<1>2. Lo \in 0..MaxU /\ Hi \in 0..MaxU /\ Lo <= Hi BY <1>1 DEF Lo, Hi
<1>3. ASSUME Hi - Lo < MaxU PROVE Span = Hi - Lo + 1
  <2>1. Hi - Lo + 1 \in 0..MaxU BY <1>2, <1>3
  <2>2. QED BY <2>1 DEF Span
<1>4. ASSUME Hi - Lo = MaxU PROVE Span = 0
  <2>1. Hi - Lo + 1 = MaxU + 1 BY <1>2, <1>4
  <2>2. (MaxU + 1) % (MaxU + 1) = 0 OBVIOUS
  <2>3. QED BY <2>1, <2>2 DEF Span
<1>5. QED BY <1>2, <1>3, <1>4

\* A delay is computed without overflow and lies between the sorted bounds.
LEMMA DelayBetween ==
    ASSUME TypeOK, NEW now \in 0..MaxSubsec, Lo = Hi \/ Span # 0
    PROVE  DelayAt(now) \in Lo..Hi
<1> USE BackoffAssumption
<1>1. CASE Lo = Hi BY <1>1, SpanExact DEF DelayAt
<1>2. CASE Lo # Hi
  <2>1. Hi - Lo < MaxU BY <1>2, SpanExact
  <2>2. Span = Hi - Lo + 1 /\ Span \in Nat \ {0} BY <2>1, SpanExact
  <2>3. now \in Nat OBVIOUS
  <2>4. now % Span \in 0..(Span - 1) BY <2>2, <2>3, ModBound, Zenon
  <2>5. DelayAt(now) = Lo + (now % Span) BY <1>2 DEF DelayAt
  <2>6. QED BY <2>2, <2>4, <2>5, SpanExact
<1>3. QED BY <1>1, <1>2

\* A number below the divisor is its own remainder.
LEMMA ModSmall ==
    ASSUME NEW a \in Nat, NEW b \in Nat, a < b
    PROVE  a % b = a
OBVIOUS

\* The jitter reaches every delay of a range exactly if the range is no wider
\* than the jitter itself.
LEMMA CoversIs ==
    ASSUME TypeOK, Lo = Hi \/ Span # 0
    PROVE  Covers <=> Hi - Lo <= MaxSubsec
<1> USE BackoffAssumption
<1>1. CASE Lo = Hi
  <2>1. 0 \in 0..MaxSubsec /\ DelayAt(0) = Lo BY <1>1 DEF DelayAt
  <2>2. Lo..Hi = {Lo} BY <1>1, SpanExact
  <2>3. Covers BY <2>1, <2>2 DEF Covers
  <2>4. QED BY <1>1, <2>3, SpanExact
<1>2. CASE Lo # Hi
  <2>1. Hi - Lo < MaxU BY <1>2, SpanExact
  <2>2. Span = Hi - Lo + 1 /\ Lo \in Nat /\ Hi \in Nat BY <2>1, SpanExact
  <2>3. \A now : DelayAt(now) = Lo + (now % Span) BY <1>2 DEF DelayAt
  <2>4. ASSUME Hi - Lo <= MaxSubsec, NEW d \in Lo..Hi
        PROVE  d - Lo \in 0..MaxSubsec /\ DelayAt(d - Lo) = d
    <3>1. d - Lo \in Nat /\ d - Lo < Span BY <2>2
    <3>2. (d - Lo) % Span = d - Lo BY <2>2, <3>1, ModSmall
    <3>3. QED BY <2>2, <2>3, <2>4, <3>1, <3>2
  <2>5. ASSUME MaxSubsec < Hi - Lo, NEW now \in 0..MaxSubsec
        PROVE  DelayAt(now) # Hi
    <3>1. now \in Nat /\ now < Span BY <2>2, <2>5
    <3>2. now % Span = now BY <2>2, <3>1, ModSmall
    <3>3. QED BY <2>2, <2>3, <2>5, <3>2
  <2>6. Hi \in Lo..Hi BY <2>2, SpanExact
  <2>7. CASE Hi - Lo <= MaxSubsec BY <2>4, <2>7 DEF Covers
  <2>8. CASE MaxSubsec < Hi - Lo BY <2>2, <2>5, <2>6, <2>8 DEF Covers
  <2>9. QED BY <2>2, <2>7, <2>8
<1>3. QED BY <1>1, <1>2

\* What a computed delay and a panic say about the setting.
BackoffInv ==
    /\ TypeOK /\ DelayInBounds /\ PanicsOnWholeRangeOnly
    /\ pc = "sleeping" => Lo = Hi \/ Span # 0

LEMMA BackoffStep == BackoffInv /\ [Next]_vars => BackoffInv'
<1> SUFFICES ASSUME BackoffInv, [Next]_vars PROVE BackoffInv' OBVIOUS
<1> USE BackoffAssumption DEF BackoffInv
<1>0. UNCHANGED <<min, max>> => Lo' = Lo /\ Hi' = Hi /\ Span' = Span
  BY DEF Lo, Hi, Span
<1>1. ASSUME NEW now \in 0..MaxSubsec, BackOff(now) PROVE BackoffInv'
  <2>1. CASE Lo # Hi /\ Span = 0
    <3>1. Hi - Lo = MaxU BY <2>1, SpanExact
    <3>2. {min, max} = {0, MaxU} BY <3>1, SpanExact DEF Lo, Hi, TypeOK
    <3>3. QED
      BY <1>0, <1>1, <2>1, <3>2 DEF BackOff, TypeOK, DelayInBounds, PanicsOnWholeRangeOnly
  <2>2. CASE Lo = Hi \/ Span # 0
    <3>1. DelayAt(now) \in Lo..Hi BY <2>2, DelayBetween
    <3>2. pc' = "sleeping" /\ delay' \in Lo..Hi /\ UNCHANGED <<min, max>>
      BY <1>1, <2>2, <3>1 DEF BackOff
    <3>3. TypeOK' /\ DelayInBounds' /\ PanicsOnWholeRangeOnly'
      BY <3>2, SpanExact DEF Lo, Hi, TypeOK, DelayInBounds, PanicsOnWholeRangeOnly
    <3>4. QED BY <1>0, <2>2, <3>2, <3>3
  <2>3. QED BY <2>1, <2>2
<1>2. CASE Wake
  BY <1>0, <1>2 DEF Wake, TypeOK, DelayInBounds, PanicsOnWholeRangeOnly
<1>3. CASE UNCHANGED vars
  BY <1>0, <1>3 DEF vars, TypeOK, DelayInBounds, PanicsOnWholeRangeOnly
<1>4. QED BY <1>1, <1>2, <1>3 DEF Next

LEMMA BackoffInvariance == Spec => []BackoffInv
<1>1. Init => BackoffInv
  <2> SUFFICES ASSUME Init PROVE BackoffInv OBVIOUS
  <2>1. PICK s \in Settings : min = s[1] /\ max = s[2] BY DEF Init
  <2>2. s = <<s[1], s[2]>> BY BackoffAssumption, <2>1
  <2>3. <<min, max>> \in Settings BY <2>1, <2>2
  <2>4. QED
    BY <2>3, BackoffAssumption
    DEF Init, BackoffInv, TypeOK, DelayInBounds, PanicsOnWholeRangeOnly
<1>2. QED BY <1>1, BackoffStep, PTL DEF Spec

\* For all settings, in either order, the pause lies between the two bounds.
THEOREM DelayBounded == Spec => []DelayInBounds
<1>1. BackoffInv => DelayInBounds BY DEF BackoffInv
<1>2. QED BY <1>1, BackoffInvariance, PTL

\* The addition that may overflow does so for one setting only.
THEOREM PanicsRarely == Spec => []PanicsOnWholeRangeOnly
<1>1. BackoffInv => PanicsOnWholeRangeOnly BY DEF BackoffInv
<1>2. QED BY <1>1, BackoffInvariance, PTL

\* The two bounds stay as configured, and no pause is wider than a u64 (the
\* arithmetic of jittered_delay_ms).
THEOREM BackoffTyped == Spec => []TypeOK
<1>1. BackoffInv => TypeOK BY DEF BackoffInv
<1>2. QED BY <1>1, BackoffInvariance, PTL

\* A range no wider than the sub-second part of the clock is covered to its
\* upper bound.
THEOREM NarrowCovered == Spec => []NarrowRangeCovered
<1>1. BackoffInv => NarrowRangeCovered BY CoversIs DEF BackoffInv, NarrowRangeCovered
<1>2. QED BY <1>1, BackoffInvariance, PTL

\* No wider range is: "Uniform delay in `[min, max]`", the doc comment of
\* jittered_delay_ms, is wrong of every setting with more than MaxSubsec
\* milliseconds between its bounds, and of no other.
THEOREM CoveredExactly == Spec => [](pc = "sleeping" => (Covers <=> Hi - Lo <= MaxSubsec))
<1>1. BackoffInv => (pc = "sleeping" => (Covers <=> Hi - Lo <= MaxSubsec))
  BY CoversIs DEF BackoffInv
<1>2. QED BY <1>1, BackoffInvariance, PTL
=============================================================================
