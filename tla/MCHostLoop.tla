----------------------------- MODULE MCHostLoop -----------------------------
(***************************************************************************)
(* The instance of HostLoop that TLC checks: three leases, so that a late  *)
(* lease can follow one run in good time and be followed by another, and   *)
(* three signals, one more than the watcher has tokens for.                *)
(***************************************************************************)
EXTENDS HostLoop

CONSTANTS l1, l2, l3

MCLeases == {l1, l2, l3}
=============================================================================
