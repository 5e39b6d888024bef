--------------------------- MODULE HostLoopProofs ---------------------------
(***************************************************************************)
(* Proofs about HostLoop for every set of leases and every number of       *)
(* signals: the inductive invariant, the safety properties that follow     *)
(* from it, and the refinement of NodePromise.                             *)
(***************************************************************************)
EXTENDS HostLoop, FiniteSetTheorems, TLAPS

\* One more member makes a finite set larger by one at the most.
LEMMA OneMore ==
    ASSUME NEW S, IsFiniteSet(S), NEW x
    PROVE  /\ IsFiniteSet(S \cup {x})
           /\ Cardinality(S) \in Nat /\ Cardinality(S \cup {x}) \in Nat
           /\ Cardinality(S \cup {x}) <= Cardinality(S) + 1
<1>1. Cardinality(S) \in Nat BY FS_CardinalityType
<1>2. /\ IsFiniteSet(S \cup {x})
      /\ Cardinality(S \cup {x}) = Cardinality(S) \/ Cardinality(S \cup {x}) = Cardinality(S) + 1
  BY FS_AddElement
<1>3. QED BY <1>1, <1>2

\* No step lets the given-up requests be granted more leases than there are
\* such requests.
LEMMA LostStep ==
    ASSUME TypeOK, LostInv, [Next]_vars PROVE LostInv'
<1>0. IsFiniteSet(unheard) /\ unanswered \in Nat
  BY HostAssumption, FS_Subset DEF TypeOK
<1>1. CASE \E l \in Leases : GrantUnheard(l)
  <2>1. PICK l \in Leases : GrantUnheard(l) BY <1>1
  <2>2. /\ unheard' = unheard \cup {l} /\ unanswered' = unanswered
        /\ Cardinality(unheard) < unanswered
    BY <2>1 DEF GrantUnheard
  <2>3. /\ Cardinality(unheard) \in Nat /\ Cardinality(unheard') \in Nat
        /\ Cardinality(unheard') <= Cardinality(unheard) + 1
    BY <1>0, <2>2, OneMore
  <2>4. QED BY <1>0, <2>2, <2>3 DEF LostInv
<1>2. CASE AnswerLost
  <2>1. unheard' = unheard /\ unanswered' = unanswered + 1 BY <1>2 DEF AnswerLost
  <2>2. Cardinality(unheard) \in Nat BY <1>0, FS_CardinalityType
  <2>3. QED BY <1>0, <2>1, <2>2 DEF LostInv
<1>3. CASE ~AnswerLost /\ ~\E l \in Leases : GrantUnheard(l)
  <2>1. UNCHANGED lostVars
    BY <1>3 DEF Next, Watcher, ClaimLoop, Dms, SendSignal, Arm, ArmFails, CancelToken, AbortStart,
         StartResolves, CheckTokens, PollPending, PollLease, PollNoLease, Settle, BackoffEnds,
         Close, DmsGrants, DmsDeclines, TaskEnds, Interrupt, claimVars, lostVars, vars
  <2>2. QED BY <2>1 DEF lostVars, LostInv
<1>4. QED BY <1>1, <1>2, <1>3

\* IInv holds initially and every step of watcher, loop, DMS and operator
\* preserves it.
LEMMA Inductive ==
    /\ Init => IInv
    /\ IInv /\ [Next]_vars => IInv'
<1> USE HostAssumption
<1> USE DEF Ended, Answers, Outcomes, Shutdown, Leave, watchVars, taskVars, claimVars, lostVars
<1>1. ASSUME Init PROVE IInv
  <2> USE <1>1 DEF Init
  <2>1. TypeOK
    <3>1. installed \in BOOLEAN /\ graceful \in BOOLEAN /\ forced \in BOOLEAN
      BY Zenon
    <3>2. signals \in 0..MaxSignals /\ unanswered \in 0..MaxLost OBVIOUS
    <3>3. QED BY <3>1, <3>2, Zenon DEF TypeOK
  <2>2. WatcherInv BY DEF WatcherInv
  <2>3. LeaseInv BY DEF LeaseInv
  <2>4. LateInv BY DEF LateInv
  <2>5. ResultInv BY DEF ResultInv
  <2>6. LostInv BY FS_EmptySet DEF LostInv
  <2>7. QED BY <2>1, <2>2, <2>3, <2>4, <2>5, <2>6 DEF IInv
<1>2. ASSUME IInv, [Next]_vars PROVE IInv'
  <2> USE <1>2 DEF IInv
  <2>0. LostInv' BY LostStep DEF LostInv
  <2>1. CASE SendSignal
    <3>1. TypeOK' BY <2>1 DEF SendSignal, TypeOK
    <3>2. WatcherInv' BY <2>1 DEF SendSignal, TypeOK, WatcherInv
    <3>3. LeaseInv' BY <2>1 DEF SendSignal, TypeOK, LeaseInv
    <3>4. LateInv' BY <2>1 DEF SendSignal, TypeOK, LateInv
    <3>5. ResultInv' BY <2>1 DEF SendSignal, TypeOK, ResultInv
    <3>6. QED BY <2>0, <3>1, <3>2, <3>3, <3>4, <3>5
  <2>2. CASE Watcher
    <3>1. TypeOK'
      <4>1. ear' \in {"deaf", "armed", "heard"} /\ watcher' \in {"graceful", "forced", "gone"}
        BY <2>2 DEF Watcher, Arm, ArmFails, CancelToken, TypeOK
      <4>2. installed' \in BOOLEAN /\ graceful' \in BOOLEAN /\ forced' \in BOOLEAN
        BY <2>2, Zenon DEF Watcher, Arm, ArmFails, CancelToken, TypeOK
      <4>3. UNCHANGED <<signals, loop, result, claim, granted, unheard, unanswered,
                        lease, outcome, started, late, interrupted>>
        BY <2>2 DEF Watcher, Arm, ArmFails, CancelToken
      <4>4. QED BY <4>1, <4>2, <4>3, Zenon DEF TypeOK
    <3>2. WatcherInv'
      <4>1. CASE Arm
        BY <4>1 DEF Arm, TypeOK, WatcherInv
      <4>2. CASE ArmFails
        BY <4>2 DEF ArmFails, TypeOK, WatcherInv
      <4>3. CASE CancelToken
        BY <4>3 DEF CancelToken, TypeOK, WatcherInv
      <4> QED BY <2>2, <4>1, <4>2, <4>3 DEF Watcher
    <3>3. LeaseInv'
      BY <2>2 DEF Watcher, Arm, ArmFails, CancelToken, TypeOK, LeaseInv
    <3>4. LateInv'
      BY <2>2 DEF Watcher, Arm, ArmFails, CancelToken, TypeOK, LateInv
    <3>5. ResultInv'
      BY <2>2 DEF Watcher, Arm, ArmFails, CancelToken, TypeOK, ResultInv
    <3>6. QED BY <2>0, <3>1, <3>2, <3>3, <3>4, <3>5
  <2>3. CASE AbortStart \/ StartResolves \/ CheckTokens \/ BackoffEnds \/ Close
    <3> USE <2>3 DEF AbortStart, StartResolves, CheckTokens, BackoffEnds, Close
    <3>1. TypeOK' BY DEF TypeOK
    <3>2. WatcherInv' BY DEF TypeOK, WatcherInv
    <3>3. LeaseInv' BY DEF TypeOK, WatcherInv, LeaseInv
    <3>4. LateInv' BY DEF TypeOK, LateInv
    <3>5. ResultInv' BY DEF TypeOK, WatcherInv, ResultInv
    <3>6. QED BY <2>0, <3>1, <3>2, <3>3, <3>4, <3>5
  <2>4. CASE PollPending \/ PollNoLease
    <3> USE <2>4 DEF PollPending, PollNoLease
    <3>1. TypeOK' BY DEF TypeOK
    <3>2. WatcherInv' BY DEF TypeOK, WatcherInv
    <3>3. LeaseInv' BY DEF TypeOK, LeaseInv
    <3>4. LateInv' BY DEF TypeOK, LateInv
    <3>5. ResultInv' BY DEF TypeOK, ResultInv
    <3>6. QED BY <2>0, <3>1, <3>2, <3>3, <3>4, <3>5
  <2>5. CASE PollLease
    <3>1. TypeOK' BY <2>5 DEF PollLease, TypeOK, LeaseInv
    <3>2. WatcherInv' BY <2>5 DEF PollLease, TypeOK, WatcherInv
    <3>3. LeaseInv' BY <2>5 DEF PollLease, TypeOK, LeaseInv
    <3>4. LateInv' BY <2>5 DEF PollLease, TypeOK, LateInv
    <3>5. ResultInv' BY <2>5 DEF PollLease, TypeOK, ResultInv
    <3>6. QED BY <2>0, <3>1, <3>2, <3>3, <3>4, <3>5
  <2>6. CASE Dms \/ \E l \in Leases : GrantUnheard(l)
    <3> USE <2>6 DEF Dms, DmsGrants, DmsDeclines, AnswerLost, GrantUnheard
    <3>1. TypeOK' BY DEF TypeOK
    <3>2. WatcherInv' BY DEF TypeOK, WatcherInv
    <3>3. LeaseInv' BY DEF TypeOK, LeaseInv
    <3>4. LateInv' BY DEF TypeOK, LateInv
    <3>5. ResultInv' BY DEF TypeOK, ResultInv
    <3>6. QED BY <2>0, <3>1, <3>2, <3>3, <3>4, <3>5
  <2>7. CASE TaskEnds \/ Interrupt
    <3> USE <2>7 DEF TaskEnds, Interrupt
    <3>1. TypeOK' BY DEF TypeOK, LeaseInv
    <3>2. WatcherInv' BY DEF TypeOK, WatcherInv
    <3>3. LeaseInv' BY DEF TypeOK, LeaseInv
    <3>4. LateInv' BY DEF TypeOK, LateInv
    <3>5. ResultInv' BY DEF TypeOK, ResultInv
    <3>6. QED BY <2>0, <3>1, <3>2, <3>3, <3>4, <3>5
  <2>8. CASE Settle
    <3> USE <2>8 DEF Settle
    <3>1. TypeOK' BY DEF TypeOK
    <3>2. WatcherInv' BY DEF TypeOK, WatcherInv
    <3>3. LeaseInv' BY DEF TypeOK, LeaseInv
    <3>4. LateInv' BY DEF TypeOK, LateInv
    <3>5. ResultInv' BY DEF TypeOK, WatcherInv, ResultInv
    <3>6. QED BY <2>0, <3>1, <3>2, <3>3, <3>4, <3>5
  <2>9. CASE UNCHANGED vars
    BY <2>0, <2>9 DEF vars, TypeOK, WatcherInv, LeaseInv, LateInv, ResultInv
  <2>10. QED
    BY <2>1, <2>2, <2>3, <2>4, <2>5, <2>6, <2>7, <2>8, <2>9
       DEF Next, ClaimLoop
<1>3. QED BY <1>1, <1>2

\* Every reachable state of the host satisfies IInv.
THEOREM Invariance == Spec => []IInv
BY Inductive, PTL DEF Spec

\* Every variable of the host keeps its type.
THEOREM TypeCorrect == Spec => []TypeOK
<1>1. IInv => TypeOK BY DEF IInv
<1>2. QED BY <1>1, Invariance, PTL

\* A set whose members are all equal has at most one.
LEMMA AllEqual ==
    ASSUME NEW S, \A x, y \in S : x = y
    PROVE  Cardinality(S) <= 1
<1>1. CASE S = {}
  BY <1>1, FS_EmptySet
<1>2. CASE S # {}
  <2>1. PICK x : S = {x} BY <1>2
  <2>2. QED BY <2>1, FS_Singleton
<1>3. QED BY <1>1, <1>2

\* However signals, claims and tasks interleave, shutdown lets at most one more
\* task start.
THEOREM LateLease == Spec => []AtMostOneLateLease
<1>1. IInv => AtMostOneLateLease
  BY AllEqual DEF IInv, LateInv, AtMostOneLateLease
<1>2. QED BY <1>1, Invariance, PTL

\* The host never cuts a task short on one signal.
THEOREM OneSignal == Spec => []OneSignalLetsTaskFinish
<1>1. IInv => OneSignalLetsTaskFinish
  BY DEF IInv, LateInv, WatcherInv, OneSignalLetsTaskFinish
<1>2. QED BY <1>1, Invariance, PTL

\* Success is reported only after a requested shutdown.
THEOREM OkOnShutdown == Spec => []OkOnlyOnShutdown
<1>1. IInv => OkOnlyOnShutdown
  BY DEF IInv, ResultInv, OkOnlyOnShutdown
<1>2. QED BY <1>1, Invariance, PTL

\* For any number of leases and lost answers, the node has forgotten at most
\* one lease per claim that failed without an answer, besides the one at hand.
THEOREM LeasesCounted == Spec => []ForgottenLeasesCounted
<1>1. ASSUME IInv PROVE ForgottenLeasesCounted
  <2>1. IsFiniteSet(unheard) /\ unanswered \in Nat /\ Cardinality(unheard) <= unanswered
    BY <1>1, HostAssumption, FS_Subset DEF IInv, TypeOK, LostInv
  <2>2. CASE claim = "lease"
    <3>1. granted \ started \subseteq unheard \cup {lease}
      BY <1>1 DEF IInv, LeaseInv
    <3>2. /\ IsFiniteSet(unheard \cup {lease})
          /\ Cardinality(unheard) \in Nat /\ Cardinality(unheard \cup {lease}) \in Nat
          /\ Cardinality(unheard \cup {lease}) <= Cardinality(unheard) + 1
      BY <2>1, OneMore
    <3>3. /\ Cardinality(granted \ started) \in Nat
          /\ Cardinality(granted \ started) <= Cardinality(unheard \cup {lease})
      BY <3>1, <3>2, FS_Subset, FS_CardinalityType
    <3>4. Cardinality(granted \ started) <= unanswered + 1 BY <2>1, <3>2, <3>3
    <3>5. QED BY <2>2, <3>4 DEF ForgottenLeasesCounted
  <2>3. CASE claim # "lease"
    <3>1. granted \ started \subseteq unheard
      BY <1>1, <2>3 DEF IInv, LeaseInv
    <3>2. /\ Cardinality(granted \ started) \in Nat /\ Cardinality(unheard) \in Nat
          /\ Cardinality(granted \ started) <= Cardinality(unheard)
      BY <2>1, <3>1, FS_Subset, FS_CardinalityType
    <3>3. Cardinality(granted \ started) <= unanswered + 0 BY <2>1, <3>2
    <3>4. QED BY <2>3, <3>3 DEF ForgottenLeasesCounted
  <2>4. QED BY <2>2, <2>3
<1>2. QED BY <1>1, Invariance, PTL

\* Every behaviour of the host is one the abstract node allows.
THEOREM Refinement == Spec => ImplementsPromise
<1> USE HostAssumption
<1>1. Init => Promise!Init
  BY DEF Init, Promise!Init
<1>2. ASSUME IInv, IInv', [Next]_vars PROVE [Promise!Next]_Promise!vars
  <2> USE DEF IInv, TypeOK, Ended, Answers, Outcomes, Shutdown, Leave,
              watchVars, taskVars, claimVars, lostVars, Promise!vars
  <2>1. CASE SendSignal
    <3>1. CASE installed BY <1>2, <2>1, <3>1 DEF SendSignal
    <3>2. CASE ~installed
      <4>1. Promise!Die
        BY <1>2, <2>1, <3>2 DEF SendSignal, WatcherInv, ResultInv, Promise!Die
      <4>2. QED BY <4>1 DEF Promise!Next
    <3>3. QED BY <1>2, <3>1, <3>2
  <2>2. CASE CancelToken
    <3>1. Promise!Drain \/ UNCHANGED Promise!vars
      BY <1>2, <2>2 DEF CancelToken, Promise!Drain
    <3>2. QED BY <3>1 DEF Promise!Next
  <2>3. CASE PollLease
    <3>1. Promise!Take(lease)
      BY <1>2, <2>3 DEF PollLease, LeaseInv, LateInv, Promise!Take
    <3>2. lease \in Leases BY <1>2, <2>3 DEF PollLease, LeaseInv
    <3>3. QED BY <3>1, <3>2 DEF Promise!Next
  <2>4. CASE TaskEnds \/ Interrupt
    <3>1. Promise!Finish
      BY <1>2, <2>4 DEF TaskEnds, Interrupt, LeaseInv, Promise!Finish
    <3>2. QED BY <3>1 DEF Promise!Next
  <2>5. CASE Close
    <3>1. result' \in {"ok", "err"} /\ Promise!Stop(result')
      BY <1>2, <2>5 DEF Close, ResultInv, Promise!Stop
    <3>2. QED BY <3>1 DEF Promise!Next
  <2>6. CASE \/ Arm \/ ArmFails \/ AbortStart \/ StartResolves \/ CheckTokens
             \/ PollPending \/ PollNoLease \/ Settle \/ BackoffEnds \/ Dms
             \/ \E l \in Leases : GrantUnheard(l)
    <3>1. UNCHANGED <<graceful, started, late>>
      BY <2>6 DEF Arm, ArmFails, AbortStart, StartResolves, CheckTokens, PollPending,
           PollNoLease, Settle, BackoffEnds, Dms, DmsGrants, DmsDeclines,
           AnswerLost, GrantUnheard
    <3>2. /\ loop # "executing" \/ UNCHANGED <<loop, lease>>
          /\ loop' # "executing" \/ UNCHANGED <<loop, lease>>
      BY <1>2, <2>6 DEF Arm, ArmFails, AbortStart, StartResolves, CheckTokens, PollPending,
           PollNoLease, Settle, BackoffEnds, Dms, DmsGrants, DmsDeclines,
           AnswerLost, GrantUnheard, LeaseInv
    <3>3. loop \in Ended \/ loop' \in Ended => UNCHANGED <<loop, result>>
      BY <1>2, <2>6 DEF Arm, ArmFails, AbortStart, StartResolves, CheckTokens, PollPending,
           PollNoLease, Settle, BackoffEnds, Dms, DmsGrants, DmsDeclines,
           AnswerLost, GrantUnheard
    <3>4. QED BY <3>1, <3>2, <3>3
  <2>7. CASE UNCHANGED vars BY <2>7 DEF vars
  <2>8. QED
    BY <1>2, <2>1, <2>2, <2>3, <2>4, <2>5, <2>6, <2>7 DEF Next, Watcher, ClaimLoop
<1>3. QED
  BY <1>1, <1>2, Invariance, PTL DEF Spec, ImplementsPromise, Promise!Spec
=============================================================================
