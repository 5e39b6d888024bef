---------------------------- MODULE PythonPromise ----------------------------
(***************************************************************************)
(* What the runner may rely on when it runs the pipeline as a job, with no *)
(* word on pipes, signals or single processes: a job has one end and one   *)
(* verdict; a cancellation is a verdict only if it was asked for, and      *)
(* nothing of the job is at large behind it; run.py never outlives the     *)
(* job, and a verdict of its own means that it ended by itself.  Helpers   *)
(* may be at large behind any other end.  PythonJob implements this.       *)
(***************************************************************************)
VARIABLES
    phase,    \* "running" or "ended"
    verdict,  \* how the job ended
    asked,    \* was it asked to stop?
    loose,    \* is a process of the job at large: running, and not being killed?
    led       \* is run.py?

vars == <<phase, verdict, asked, loose, led>>

Init ==
    /\ phase = "running" /\ verdict = "none" /\ asked = FALSE
    /\ loose = TRUE /\ led = TRUE

Ask ==
    /\ phase = "running" /\ asked' = TRUE
    /\ UNCHANGED <<phase, verdict, loose, led>>

\* What is not at large, or being killed, does not get away again.
Calm ==
    /\ loose' => loose
    /\ led' => led

\* Processes end, or are killed, by and by.
Settle ==
    /\ Calm
    /\ UNCHANGED <<phase, verdict, asked>>

\* The job ends.
End(v) ==
    /\ phase = "running" /\ phase' = "ended" /\ verdict' = v
    /\ Calm /\ ~led'
    /\ v = "cancelled" => asked /\ ~loose'
    /\ v \in {"succeeded", "failed"} => ~led
    /\ UNCHANGED asked

Next ==
    \/ Ask \/ Settle
    \/ \E v \in {"succeeded", "failed", "cancelled", "dropped"} : End(v)

Spec == Init /\ [][Next]_vars
=============================================================================
