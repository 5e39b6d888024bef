------------------------------- MODULE Backoff -------------------------------
(***************************************************************************)
(* node-host/src/host.rs, `jittered_delay_ms`: the pause between two polls *)
(* of the DMS, between the configured POLL_BACKOFF_MS_MIN and _MAX, which  *)
(* config.rs accepts as any two u64, in any order.  The jitter is the      *)
(* sub-second part of the clock, so it takes at most MaxSubsec + 1 values. *)
(***************************************************************************)
EXTENDS Integers

CONSTANTS
    MaxU,       \* the largest u64; arithmetic is modulo MaxU + 1
    MaxSubsec,  \* the largest value of subsec_millis
    Settings    \* the pairs of minimum and maximum under consideration

ASSUME BackoffAssumption ==
    /\ MaxU \in Nat
    /\ MaxSubsec \in 0..MaxU
    /\ Settings \subseteq (0..MaxU) \X (0..MaxU)

VARIABLES
    min, max,  \* the configured bounds
    pc,        \* "polling", "sleeping" or "panicked"
    delay      \* the pause last computed

vars == <<min, max, pc, delay>>

TypeOK ==
    /\ <<min, max>> \in Settings
    /\ pc \in {"polling", "sleeping", "panicked"}
    /\ delay \in 0..MaxU

Lo == IF min <= max THEN min ELSE max
Hi == IF min <= max THEN max ELSE min

\* Mutant: the bounds are taken as configured.
Span_Unsorted == (max - min + 1) % (MaxU + 1)

\* Mutant: the upper bound is excluded.
Span_Exclusive == (Hi - Lo) % (MaxU + 1)

\* The number of delays between the bounds, as u64 arithmetic computes it.
Span == (Hi - Lo + 1) % (MaxU + 1)

\* Mutant: the jitter is not reduced to the range.
DelayAt_Unreduced(now) == (Lo + now) % (MaxU + 1)

\* The delay computed when the clock shows `now` milliseconds of a second.
DelayAt(now) == IF Lo = Hi THEN Lo ELSE Lo + (now % Span)

Init ==
    /\ \E s \in Settings : min = s[1] /\ max = s[2]
    /\ pc = "polling"
    /\ delay = 0

\* The remainder by a span that has wrapped to zero panics.
BackOff(now) ==
    /\ pc = "polling"
    /\ IF Lo # Hi /\ Span = 0
       THEN pc' = "panicked" /\ UNCHANGED delay
       ELSE pc' = "sleeping" /\ delay' = DelayAt(now)
    /\ UNCHANGED <<min, max>>

Wake ==
    /\ pc = "sleeping"
    /\ pc' = "polling"
    /\ UNCHANGED <<min, max, delay>>

Next == (\E now \in 0..MaxSubsec : BackOff(now)) \/ Wake

Spec == Init /\ [][Next]_vars

-----------------------------------------------------------------------------
(* Properties.                                                             *)

\* Every pause lies between the two bounds, whichever of them is the larger.
DelayInBounds ==
    pc = "sleeping" => (min <= delay /\ delay <= max) \/ (max <= delay /\ delay <= min)

\* The computation panics for one setting only: the whole range of u64.
PanicsOnWholeRangeOnly == pc = "panicked" => {min, max} = {0, MaxU}

Covers == \A d \in Lo..Hi : \E now \in 0..MaxSubsec : DelayAt(now) = d

\* A range no wider than a second is covered: every delay in it, the upper
\* bound included, is chosen at some instant.
NarrowRangeCovered ==
    pc = "sleeping" /\ Hi - Lo <= MaxSubsec => Covers

\* What the doc comment says of every range: "Uniform delay in `[min, max]`".
DelayCoversRange == pc = "sleeping" => Covers
=============================================================================
