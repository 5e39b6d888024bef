------------------------------ MODULE HostLoop ------------------------------
(***************************************************************************)
(* node-host/src/host.rs: `run`, `run_with_shutdown`, `claim_loop` and     *)
(* `watch_signals`, two tokio tasks on a multi-threaded runtime that share *)
(* the cancellation tokens `graceful` and `forced`.                        *)
(*                                                                         *)
(* A biased `select!` looks at the tokens and only then polls the claim,   *)
(* and the watcher may cancel a token between the two, so the select is    *)
(* two steps here: CheckTokens and PollClaim.  The DMS, its SDK and the    *)
(* operating system are external: their answers are chosen freely.         *)
(***************************************************************************)
EXTENDS Naturals, FiniteSets

CONSTANTS
    Leases,      \* the leases the DMS may grant to this node
    NoLease,     \* no lease in hand
    MaxSignals,  \* bound: how many SIGINT/SIGTERM the operator sends
    MaxLost      \* bound: how many claims fail without an answer

ASSUME HostAssumption ==
    /\ NoLease \notin Leases
    /\ MaxSignals \in Nat /\ MaxLost \in Nat
    /\ IsFiniteSet(Leases)

VARIABLES
    \* watch_signals
    watcher,     \* the token it is about to cancel, or "gone" once it returned
    ear,         \* its listener: "deaf" (not registered), "armed" or "heard"
    installed,   \* has a process-wide handler replaced the default action?
    signals,     \* how many signals were sent
    \* the shared tokens
    graceful,
    forced,
    \* claim_loop and run_with_shutdown
    loop,        \* where the host is
    claim,       \* the claim request and its answer
    lease,       \* the lease in hand
    outcome,     \* what lease.execute returned
    result,      \* what the host is going to return
    \* history
    granted,     \* leases the DMS granted to this node
    unheard,     \* those granted to a request whose answer was lost
    unanswered,  \* how many requests failed without an answer
    started,     \* leases whose handler was started
    late,        \* those started although graceful was already cancelled
    interrupted  \* leases whose handler the host itself cut short

watchVars == <<watcher, ear, installed, signals, graceful, forced>>
taskVars  == <<lease, outcome, started, late, interrupted>>
lostVars == <<unheard, unanswered>>
claimVars == <<claim, granted, lostVars>>
vars == <<watcher, ear, installed, signals, graceful, forced, loop, claim,
          lease, outcome, result, granted, unheard, unanswered, started, late,
          interrupted>>

Ended  == {"returned", "killed"}
Answers  == {"empty", "transient", "fatal"}
Outcomes == {"handled", "cancelled", "fatal", "other"}

TypeOK ==
    /\ watcher \in {"graceful", "forced", "gone"}
    /\ ear \in {"deaf", "armed", "heard"}
    /\ installed \in BOOLEAN
    /\ signals \in 0..MaxSignals
    /\ graceful \in BOOLEAN
    /\ forced \in BOOLEAN
    /\ loop \in {"starting", "select", "poll", "executing", "settling",
                 "backoff", "closing"} \cup Ended
    /\ claim \in {"none", "asked", "lease"} \cup Answers
    /\ lease \in Leases \cup {NoLease}
    /\ outcome \in {"none"} \cup Outcomes
    /\ result \in {"none", "ok", "err"}
    /\ granted \subseteq Leases
    /\ unheard \subseteq Leases
    /\ unanswered \in 0..MaxLost
    /\ started \subseteq Leases
    /\ late \subseteq Leases
    /\ interrupted \subseteq Leases

Init ==
    /\ watcher = "graceful" /\ ear = "deaf" /\ installed = FALSE
    /\ signals = 0
    /\ graceful = FALSE /\ forced = FALSE
    /\ loop = "starting"
    /\ claim = "none" /\ lease = NoLease /\ outcome = "none"
    /\ result = "none"
    /\ granted = {} /\ unheard = {} /\ unanswered = 0
    /\ started = {} /\ late = {} /\ interrupted = {}

-----------------------------------------------------------------------------
(* The operator and watch_signals.                                         *)

\* A signal arrives.  Without a handler it kills the process; a registered
\* listener coalesces it with what it already heard; otherwise it is lost.
SendSignal ==
    /\ loop \notin Ended
    /\ signals < MaxSignals
    /\ signals' = signals + 1
    /\ loop' = IF installed THEN loop ELSE "killed"
    /\ ear' = IF ear = "armed" THEN "heard" ELSE ear
    /\ UNCHANGED <<watcher, installed, graceful, forced, result>>
    /\ UNCHANGED <<claimVars, taskVars>>

\* wait_for_signal registers a listener for the current token.
Arm ==
    /\ loop \notin Ended
    /\ watcher # "gone" /\ ear = "deaf"
    /\ ear' = "armed"
    /\ installed' = TRUE
    /\ UNCHANGED <<watcher, signals, graceful, forced, loop, result>>
    /\ UNCHANGED <<claimVars, taskVars>>

\* Registration fails and watch_signals returns.
ArmFails ==
    /\ loop \notin Ended
    /\ watcher # "gone" /\ ear = "deaf"
    /\ watcher' = "gone"
    /\ UNCHANGED <<ear, installed, signals, graceful, forced, loop, result>>
    /\ UNCHANGED <<claimVars, taskVars>>

\* The listener's signal is taken: cancel the token and go on to the next.
CancelToken ==
    /\ loop \notin Ended
    /\ ear = "heard"
    /\ graceful' = (graceful \/ watcher = "graceful")
    /\ forced' = (forced \/ watcher = "forced")
    /\ watcher' = IF watcher = "graceful" THEN "forced" ELSE "gone"
    /\ ear' = "deaf"
    /\ UNCHANGED <<installed, signals, loop, result>>
    /\ UNCHANGED <<claimVars, taskVars>>

Watcher == Arm \/ ArmFails \/ CancelToken

-----------------------------------------------------------------------------
(* claim_loop: the start, and the select between shutdown and a claim.     *)

Shutdown == graceful \/ forced

\* Entering run_with_shutdown's epilogue with the claim loop's result.
Leave(r) == loop' = "closing" /\ result' = r

\* Shutdown while tasks.start is pending.
AbortStart ==
    /\ loop = "starting" /\ Shutdown
    /\ Leave("ok")
    /\ UNCHANGED <<watchVars, claimVars, taskVars>>

\* tasks.start resolves; a token cancelled since the select looked at it is
\* seen by the next one.
StartResolves ==
    /\ loop = "starting"
    /\ \/ loop' = "select" /\ UNCHANGED result
       \/ Leave("err")
    /\ UNCHANGED <<watchVars, claimVars, taskVars>>

\* Mutant: a select that is not biased may poll the claim first.
CheckTokens_Unbiased ==
    /\ loop = "select"
    /\ \/ Shutdown /\ Leave("ok")
       \/ loop' = "poll" /\ UNCHANGED result
    /\ UNCHANGED <<watchVars, claimVars, taskVars>>

\* Mutant: the first arms of the select are missing.
CheckTokens_Ignored ==
    /\ loop = "select"
    /\ loop' = "poll" /\ UNCHANGED result
    /\ UNCHANGED <<watchVars, claimVars, taskVars>>

\* The biased arms of the select: break on either token.
CheckTokens ==
    /\ loop = "select"
    /\ IF Shutdown THEN Leave("ok") ELSE loop' = "poll" /\ UNCHANGED result
    /\ UNCHANGED <<watchVars, claimVars, taskVars>>

\* Polling claim_any sends the request, and finds the answer pending.  When
\* the select breaks later on, the request is dropped but not recalled.
PollPending ==
    /\ loop = "poll" /\ claim \in {"none", "asked"}
    /\ claim' = "asked"
    /\ loop' = "select"
    /\ UNCHANGED <<granted, lostVars, result>>
    /\ UNCHANGED <<watchVars, taskVars>>

\* Mutant: an empty answer is taken for a lease.
PollLease_Unchecked ==
    /\ loop = "poll" /\ claim \in {"lease", "empty"}
    /\ loop' = "executing"
    /\ claim' = "none"
    /\ started' = started \cup {lease}
    /\ late' = IF graceful THEN late \cup {lease} ELSE late
    /\ UNCHANGED <<lease, outcome, interrupted, granted, lostVars, result>>
    /\ UNCHANGED watchVars

\* The claim is answered with a lease: execute it.
PollLease ==
    /\ loop = "poll" /\ claim = "lease"
    /\ loop' = "executing"
    /\ claim' = "none"
    /\ started' = started \cup {lease}
    /\ late' = IF graceful THEN late \cup {lease} ELSE late
    /\ UNCHANGED <<lease, outcome, interrupted, granted, lostVars, result>>
    /\ UNCHANGED watchVars

\* Mutant: a lease is taken for an answer that warrants backing off.
PollNoLease_DropsLease ==
    /\ loop = "poll" /\ claim \in Answers \cup {"lease"}
    /\ claim' = "none"
    /\ IF claim = "fatal" THEN Leave("err") ELSE loop' = "backoff" /\ UNCHANGED result
    /\ UNCHANGED <<granted, lostVars>>
    /\ UNCHANGED <<watchVars, taskVars>>

\* The claim is answered without a lease: give up on a fatal error, back off
\* on any other answer.
PollNoLease ==
    /\ loop = "poll" /\ claim \in Answers
    /\ claim' = "none"
    /\ IF claim = "fatal" THEN Leave("err") ELSE loop' = "backoff" /\ UNCHANGED result
    /\ UNCHANGED <<granted, lostVars>>
    /\ UNCHANGED <<watchVars, taskVars>>

\* External: the DMS answers a request it has received, even one whose future
\* the host has dropped, and the answer arrives in time.
DmsGrants(l) ==
    /\ claim = "asked"
    /\ l \notin granted
    /\ claim' = "lease"
    /\ granted' = granted \cup {l}
    /\ lease' = l
    /\ UNCHANGED <<outcome, started, late, interrupted, lostVars, loop, result>>
    /\ UNCHANGED watchVars

DmsDeclines ==
    /\ claim = "asked"
    /\ claim' \in Answers
    /\ UNCHANGED <<granted, lostVars, loop, result>>
    /\ UNCHANGED <<watchVars, taskVars>>

\* External: the request times out or its connection breaks; the host reads an
\* error that warrants backing off, whatever becomes of the request.
AnswerLost ==
    /\ claim = "asked" /\ unanswered < MaxLost
    /\ claim' = "transient"
    /\ unanswered' = unanswered + 1
    /\ UNCHANGED <<granted, unheard, loop, result>>
    /\ UNCHANGED <<watchVars, taskVars>>

\* External: the DMS grants a lease to a request that the SDK has given up, be
\* it before or long after the timeout.
GrantUnheard(l) ==
    /\ Cardinality(unheard) < unanswered
    /\ l \notin granted
    /\ granted' = granted \cup {l}
    /\ unheard' = unheard \cup {l}
    /\ UNCHANGED <<claim, unanswered, loop, result>>
    /\ UNCHANGED <<watchVars, taskVars>>

-----------------------------------------------------------------------------
(* claim_loop: the execution of a lease and what its outcome means.        *)

\* External: the handler ends by itself, or the DMS cancels or loses the lease.
TaskEnds ==
    /\ loop = "executing"
    /\ loop' = "settling"
    /\ outcome' \in Outcomes
    /\ UNCHANGED <<lease, started, late, interrupted, result>>
    /\ UNCHANGED <<watchVars, claimVars>>

\* Mutant: lease.execute is given the graceful token.
Interrupt_OnGraceful ==
    /\ loop = "executing" /\ graceful
    /\ loop' = "settling"
    /\ outcome' = "cancelled"
    /\ interrupted' = interrupted \cup {lease}
    /\ UNCHANGED <<lease, started, late, result>>
    /\ UNCHANGED <<watchVars, claimVars>>

\* Mutant: lease.execute is given a token that is never cancelled.
Interrupt_Never == FALSE /\ UNCHANGED vars

\* lease.execute(router, forced): the SDK returns Cancelled once forced is.
Interrupt ==
    /\ loop = "executing" /\ forced
    /\ loop' = "settling"
    /\ outcome' = "cancelled"
    /\ interrupted' = interrupted \cup {lease}
    /\ UNCHANGED <<lease, started, late, result>>
    /\ UNCHANGED <<watchVars, claimVars>>

\* The match on the outcome.  `forced` is read only now, after execute
\* returned, so it may have been cancelled since.
Settle ==
    /\ loop = "settling"
    /\ outcome' = "none" /\ lease' = NoLease
    /\ \/ /\ outcome = "handled" \/ (outcome = "cancelled" /\ ~forced)
          /\ loop' = "select" /\ UNCHANGED result
       \/ outcome = "cancelled" /\ forced /\ Leave("ok")
       \/ outcome = "fatal" /\ Leave("err")
       \/ outcome = "other" /\ loop' = "backoff" /\ UNCHANGED result
    /\ UNCHANGED <<started, late, interrupted>>
    /\ UNCHANGED <<watchVars, claimVars>>

-----------------------------------------------------------------------------
(* claim_loop: the back-off, and run_with_shutdown's epilogue.             *)

\* Mutant: the sleep never ends.
BackoffEnds_OnlyOnShutdown ==
    /\ loop = "backoff"
    /\ Shutdown /\ Leave("ok")
    /\ UNCHANGED <<watchVars, claimVars, taskVars>>

\* A select that is not biased: when both are ready either arm may win.
BackoffEnds ==
    /\ loop = "backoff"
    /\ \/ Shutdown /\ Leave("ok")
       \/ loop' = "select" /\ UNCHANGED result
    /\ UNCHANGED <<watchVars, claimVars, taskVars>>

\* Mutant: the loop's result is dropped, only the clean-up's is reported.
Close_ForgetsResult ==
    /\ loop = "closing"
    /\ loop' = "returned"
    /\ result' \in {"ok", "err"}
    /\ UNCHANGED <<watchVars, claimVars, taskVars>>

\* tasks.close and credential.close; a clean-up error replaces the result.
Close ==
    /\ loop = "closing"
    /\ loop' = "returned"
    /\ result' \in {result, "err"}
    /\ UNCHANGED <<watchVars, claimVars, taskVars>>

-----------------------------------------------------------------------------
ClaimLoop ==
    \/ AbortStart \/ StartResolves
    \/ CheckTokens \/ PollPending \/ PollLease \/ PollNoLease
    \/ Settle \/ BackoffEnds \/ Close

\* What the request under way comes to.
Dms == (\E l \in Leases : DmsGrants(l)) \/ DmsDeclines \/ AnswerLost

Next ==
    \/ SendSignal \/ Watcher \/ ClaimLoop \/ Dms \/ TaskEnds \/ Interrupt
    \/ \E l \in Leases : GrantUnheard(l)

Spec == Init /\ [][Next]_vars

\* The tokio scheduler runs a ready task, the SDK bounds every request by the
\* request timeout, and execute reacts to the forced token.  Nothing makes the
\* operator send a signal or the task end.
Fairness ==
    /\ WF_vars(Watcher)
    /\ WF_vars(ClaimLoop)
    /\ WF_vars(Dms)
    /\ WF_vars(Interrupt)

FairSpec == Spec /\ Fairness

-----------------------------------------------------------------------------
(* Properties.                                                             *)

\* Once shutdown was requested the node starts at most one more task: the one
\* whose claim was answered between the token check and the poll of the same
\* select (host.rs, "The first signal stops claiming").
AtMostOneLateLease == Cardinality(late) <= 1

\* A running task is cut short by the host only after the operator asked
\* twice: one signal lets it finish.
OneSignalLetsTaskFinish == interrupted # {} => signals >= 2

\* The process reports success only if it was asked to stop: every other way
\* out of the claim loop is an error the supervisor sees.
OkOnlyOnShutdown == loop = "returned" /\ result = "ok" => graceful

\* The leases that the DMS believes to be with this node and that the node
\* never ran are at most one per claim that failed without an answer, however
\* late it was granted (host.rs 101, "Task claim failed; backing off"), and the
\* one of the last claim: about to be taken, or dropped by the shutdown that
\* broke the select.  No answer is thrown away and no second request is sent
\* while one is under way.
ForgottenLeasesCounted ==
    Cardinality(granted \ started) <= unanswered + (IF claim = "lease" THEN 1 ELSE 0)

\* Every task ends sooner or later.
TasksEnd == []<>(loop # "executing")

\* With tasks that end, a requested shutdown completes.
ShutdownCompletes == TasksEnd => (graceful ~> loop \in Ended)

\* The second token ends the node even if the task never does.
ForcedShutdownCompletes == forced ~> loop \in Ended

\* With tasks that end, a node nobody stops keeps sending new claims, whatever answers and outcomes
\* it meets, unless one of them is fatal.
KeepsClaiming ==
    TasksEnd => []<>(loop = "poll" /\ claim = "none") \/ <>(graceful \/ loop \in Ended)

-----------------------------------------------------------------------------
(* The inductive invariant behind the safety properties.                   *)

\* What the watcher has done so far is what the signals entitled it to.
WatcherInv ==
    /\ ~installed => watcher # "forced" /\ ear = "deaf" /\ ~graceful
    /\ watcher = "graceful" => ~graceful /\ ~forced
    /\ watcher = "forced" => graceful
    /\ watcher = "gone" => ear = "deaf"
    /\ ear = "heard" => signals >= 1
    /\ ear = "heard" /\ watcher = "forced" => signals >= 2
    /\ graceful => signals >= 1
    /\ forced => graceful /\ signals >= 2

\* The request, the lease in hand and the history agree.
LeaseInv ==
    /\ started \subseteq granted
    /\ claim # "none" => loop \in {"select", "poll", "closing"} \cup Ended
    /\ claim = "lease" => lease \in granted \ started
    /\ loop = "executing" => lease \in started
    /\ \A l \in granted \ started : l \in unheard \/ (claim = "lease" /\ lease = l)

\* A request that was given up is granted at most one lease.
LostInv == Cardinality(unheard) <= unanswered

\* A poll follows a token check that found nothing, so the first late lease
\* is also the last.
LateInv ==
    /\ loop = "poll" => late = {}
    /\ late # {} => graceful
    /\ \A l, m \in late : l = m
    /\ interrupted # {} => forced

ResultInv ==
    /\ loop \in {"closing", "returned"} => result # "none"
    /\ result # "none" => loop \in {"closing"} \cup Ended
    /\ result = "ok" => graceful

IInv == TypeOK /\ WatcherInv /\ LeaseInv /\ LostInv /\ LateInv /\ ResultInv

-----------------------------------------------------------------------------
\* The host implements what a node promises.
Promise == INSTANCE NodePromise WITH
    mode    <- IF loop = "killed" THEN "dead"
               ELSE IF loop = "returned" THEN "down"
               ELSE IF graceful THEN "draining" ELSE "serving",
    active  <- IF loop = "executing" THEN lease ELSE NoLease,
    taken   <- started,
    credit  <- late = {},
    verdict <- IF loop = "returned" THEN result ELSE "none"

ImplementsPromise == Promise!Spec

\* What the doc comment of `run` says of a running task: "a second signal
\* interrupts it", here provided that no registration fails.
SecondSignalInterrupts ==
    [](watcher = "gone" => forced) => (signals >= 2 ~> (forced \/ loop \in Ended))
=============================================================================
