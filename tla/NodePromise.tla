----------------------------- MODULE NodePromise -----------------------------
(***************************************************************************)
(* What a compute node promises the operator and the DMS, with no word on  *)
(* tokens, selects or back-off: it runs one lease at a time and none       *)
(* twice; once asked to drain it takes at most one more lease; it comes    *)
(* down with nothing running, and reports success only when it was asked   *)
(* to.  HostLoop implements this specification.                            *)
(***************************************************************************)
CONSTANTS Leases, NoLease

VARIABLES
    mode,     \* "serving", "draining", "down" or "dead"
    active,   \* the lease being run, or NoLease
    taken,    \* the leases ever run
    credit,   \* may one more lease still slip in while draining?
    verdict   \* what the node reported on its way down

vars == <<mode, active, taken, credit, verdict>>

TypeOK ==
    /\ mode \in {"serving", "draining", "down", "dead"}
    /\ active \in Leases \cup {NoLease}
    /\ taken \subseteq Leases
    /\ credit \in BOOLEAN
    /\ verdict \in {"none", "ok", "err"}

Init ==
    /\ mode = "serving"
    /\ active = NoLease
    /\ taken = {}
    /\ credit = TRUE
    /\ verdict = "none"

\* The operator asks the node to stop taking work.
Drain ==
    /\ mode = "serving"
    /\ mode' = "draining"
    /\ UNCHANGED <<active, taken, credit, verdict>>

\* A lease is taken up; while draining this uses up the only credit.
Take(l) ==
    /\ active = NoLease
    /\ l \notin taken
    /\ \/ mode = "serving" /\ UNCHANGED credit
       \/ mode = "draining" /\ credit /\ credit' = FALSE
    /\ active' = l
    /\ taken' = taken \cup {l}
    /\ UNCHANGED <<mode, verdict>>

\* The active lease ends, whatever its outcome.
Finish ==
    /\ active # NoLease
    /\ active' = NoLease
    /\ UNCHANGED <<mode, taken, credit, verdict>>

\* The node comes down in good order.
Stop(v) ==
    /\ mode \in {"serving", "draining"}
    /\ active = NoLease
    /\ v = "ok" => mode = "draining"
    /\ mode' = "down"
    /\ verdict' = v
    /\ UNCHANGED <<active, taken, credit>>

\* A signal that finds no handler installed kills the process.
Die ==
    /\ mode = "serving"
    /\ mode' = "dead"
    /\ active' = NoLease
    /\ UNCHANGED <<taken, credit, verdict>>

Next ==
    \/ Drain
    \/ \E l \in Leases : Take(l)
    \/ Finish
    \/ \E v \in {"ok", "err"} : Stop(v)
    \/ Die

Spec == Init /\ [][Next]_vars
=============================================================================
