------------------------------ MODULE PythonJob ------------------------------
(***************************************************************************)
(* The python pipeline as a process group: the part of runner/src/lib.rs   *)
(* that spawns run.py, reads its output and waits for it, and              *)
(* node-host/src/process.rs, which stops it.  The group's leader is run.py *)
(* itself; its helpers (ns-train, COLMAP and their workers) are born while *)
(* it runs, may or may not inherit its two pipes, may ignore SIGTERM, and  *)
(* keep the GPU busy for as long as they run.                              *)
(*                                                                         *)
(* A pipe is the number of unread lines in it; a write to a full pipe      *)
(* blocks.  The processes and the kernel are external to the code.         *)
(***************************************************************************)
EXTENDS Naturals, FiniteSets

CONSTANTS
    Leader,        \* run.py
    Helpers,       \* what it may start
    PipeCapacity,  \* lines a pipe holds before its writers block
    ReadErrors     \* may a line fail to be read (say, for not being UTF-8)?

Procs == Helpers \cup {Leader}
Streams == {"stdout", "stderr"}
Idle == "idle"

ASSUME JobAssumption ==
    /\ Leader \notin Helpers
    /\ PipeCapacity \in Nat \ {0}
    /\ ReadErrors \in BOOLEAN

VARIABLES
    \* the runner
    pc,         \* where it is, from the spawn on
    done,       \* the streams it reads no further
    cancelled,  \* the task's cancellation token
    outcome,    \* how the job ended
    \* the kernel
    pipe,       \* unread lines per stream
    \* the process group
    proc,       \* "unborn", "running", "zombie" (dead, not reaped) or "gone"
    holds,      \* the processes that hold the pipes' write ends
    writing,    \* the stream a process is in a write to, or Idle
    status,     \* the leader's exit status
    termed,     \* the processes SIGTERM was sent to
    killed,     \* the processes SIGKILL was sent to
    \* history
    lost        \* streams given up on because of a read error

runnerVars == <<pc, done, outcome>>
groupVars  == <<proc, holds, writing, status>>
signalVars == <<termed, killed>>
vars == <<pc, done, cancelled, outcome, pipe, proc, holds, writing, status,
          termed, killed, lost>>

Running == {p \in Procs : proc[p] = "running"}
Writers == holds \cap Running

TypeOK ==
    /\ pc \in {"reading", "terminating", "sweeping", "killing", "waiting", "returned"}
    /\ done \subseteq Streams
    /\ cancelled \in BOOLEAN
    /\ outcome \in {"none", "succeeded", "failed", "cancelled", "dropped"}
    /\ pipe \in [Streams -> 0..PipeCapacity]
    /\ proc \in [Procs -> {"unborn", "running", "zombie", "gone"}]
    /\ holds \subseteq Procs
    /\ writing \in [Procs -> Streams \cup {Idle}]
    /\ status \in {"none", "ok", "failed"}
    /\ termed \subseteq Procs
    /\ killed \subseteq Procs
    /\ lost \subseteq Streams

\* The spawn: a new process group (process::isolate), both ends of both pipes.
Init ==
    /\ pc = "reading" /\ done = {} /\ cancelled = FALSE /\ outcome = "none"
    /\ pipe = [s \in Streams |-> 0]
    /\ proc = [p \in Procs |-> IF p = Leader THEN "running" ELSE "unborn"]
    /\ holds = {Leader}
    /\ writing = [p \in Procs |-> Idle]
    /\ status = "none"
    /\ termed = {} /\ killed = {} /\ lost = {}

-----------------------------------------------------------------------------
(* The runner's loop over the two streams and the cancellation token.      *)

\* Mutant: stderr is not read before stdout is at its end.
Open_InTurn(s) == pc = "reading" /\ s \notin done /\ (s = "stderr" => "stdout" \in done)

\* The select's branch of a stream is on until the stream is done.
Open(s) == pc = "reading" /\ s \notin done

\* Mutant: the loop ends with the first stream instead of the last.
StreamDone_First(s) ==
    /\ done' = done \cup {s}
    /\ pc' = "waiting"

\* A stream is done; the loop ends with the last of the two.
StreamDone(s) ==
    /\ done' = done \cup {s}
    /\ pc' = IF done' = Streams THEN "waiting" ELSE pc

\* Mutant: a line is counted whether or not there was one.
ReadLine_Unguarded(s) ==
    /\ Open(s)
    /\ pipe' = [pipe EXCEPT ![s] = @ - 1]
    /\ UNCHANGED <<cancelled, lost, runnerVars, groupVars, signalVars>>

\* next_line returns a line.
ReadLine(s) ==
    /\ Open(s)
    /\ pipe[s] > 0
    /\ pipe' = [pipe EXCEPT ![s] = @ - 1]
    /\ UNCHANGED <<cancelled, lost, runnerVars, groupVars, signalVars>>

\* next_line fails: the stream counts as done, but its pipe stays open.
ReadError(s) ==
    /\ ReadErrors
    /\ Open(s)
    /\ pipe[s] > 0
    /\ pipe' = [pipe EXCEPT ![s] = @ - 1]
    /\ lost' = lost \cup {s}
    /\ StreamDone(s)
    /\ UNCHANGED <<cancelled, outcome, groupVars, signalVars>>

\* next_line finds the pipe empty and nobody left who could write to it.
ReadEof(s) ==
    /\ Open(s)
    /\ pipe[s] = 0 /\ Writers = {}
    /\ StreamDone(s)
    /\ UNCHANGED <<pipe, cancelled, outcome, lost, groupVars, signalVars>>

\* The loop sees the token: terminate_group sends SIGTERM to the group.
SeeCancel ==
    /\ pc = "reading" /\ cancelled
    /\ pc' = "terminating"
    /\ termed' = termed \cup Running
    /\ UNCHANGED <<done, outcome, cancelled, pipe, lost, killed, groupVars>>

-----------------------------------------------------------------------------
(* process::terminate_group, after its SIGTERM.                            *)

Return(o) == pc' = "returned" /\ outcome' = o

ReapLeader == proc[Leader] = "zombie" /\ proc' = [proc EXCEPT ![Leader] = "gone"]

\* The leader exits within the grace period.
LeaderReaped ==
    /\ pc = "terminating"
    /\ ReapLeader
    /\ pc' = "sweeping"
    /\ UNCHANGED <<done, outcome, cancelled, pipe, lost, holds, writing, status>>
    /\ UNCHANGED signalVars

\* Mutant: a leader that obeyed SIGTERM is taken to speak for its group.
Sweep_LeavesStragglers ==
    /\ pc = "sweeping"
    /\ Return("cancelled")
    /\ UNCHANGED <<done, cancelled, pipe, lost, killed, termed, groupVars>>

\* SIGKILL for the stragglers, and terminate_group returns.
Sweep ==
    /\ pc = "sweeping"
    /\ killed' = killed \cup Running
    /\ Return("cancelled")
    /\ UNCHANGED <<done, cancelled, pipe, lost, termed, groupVars>>

\* Mutant: only the direct child is killed after the grace period.
GraceExpires_LeaderOnly ==
    /\ pc = "terminating"
    /\ killed' = killed \cup (Running \cap {Leader})
    /\ pc' = "killing"
    /\ UNCHANGED <<done, outcome, cancelled, pipe, lost, termed, groupVars>>

\* Mutant: the wait for the leader has no time limit.
GraceExpires_Never == FALSE /\ UNCHANGED vars

\* The grace period is over: SIGKILL to the group.
GraceExpires ==
    /\ pc = "terminating"
    /\ killed' = killed \cup Running
    /\ pc' = "killing"
    /\ UNCHANGED <<done, outcome, cancelled, pipe, lost, termed, groupVars>>

\* The second wait of terminate_group.
ReapKilled ==
    /\ pc = "killing"
    /\ ReapLeader
    /\ Return("cancelled")
    /\ UNCHANGED <<done, cancelled, pipe, lost, holds, writing, status, signalVars>>

-----------------------------------------------------------------------------
(* The ways out that are not a cancellation.                               *)

\* child.wait, which nothing interrupts, and the verdict on the exit status.
WaitLeader ==
    /\ pc = "waiting"
    /\ ReapLeader
    /\ Return(IF status = "ok" THEN "succeeded" ELSE "failed")
    /\ UNCHANGED <<done, cancelled, pipe, lost, holds, writing, status, signalVars>>

\* Mutant: the child is spawned without kill_on_drop.
Drop_KeepsChild ==
    /\ pc # "returned"
    /\ Return("dropped")
    /\ UNCHANGED <<done, cancelled, pipe, lost, termed, killed, groupVars>>

\* The runner's future is dropped wherever it waits; kill_on_drop sends
\* SIGKILL to the leader, and to the leader only.
Drop ==
    /\ pc # "returned"
    /\ killed' = killed \cup (Running \cap {Leader})
    /\ Return("dropped")
    /\ UNCHANGED <<done, cancelled, pipe, lost, termed, groupVars>>

\* tokio reaps the child of a dropped handle in the background.
ReapOrphan ==
    /\ outcome = "dropped"
    /\ ReapLeader
    /\ UNCHANGED <<pipe, cancelled, lost, holds, writing, status>>
    /\ UNCHANGED <<runnerVars, signalVars>>

\* External: the DMS or the operator cancels the task.
Cancel ==
    /\ ~cancelled
    /\ pc # "returned"
    /\ cancelled' = TRUE
    /\ UNCHANGED <<pipe, lost, runnerVars, groupVars, signalVars>>

-----------------------------------------------------------------------------
(* External: the processes and the kernel.                                 *)

StartWrite(p, s) ==
    /\ p \in Writers \ killed
    /\ writing[p] = Idle
    /\ writing' = [writing EXCEPT ![p] = s]
    /\ UNCHANGED <<pipe, proc, holds, status, cancelled, lost, runnerVars, signalVars>>

\* A write ends when there is room, or when the runner has closed its end.
Write(p, s) ==
    /\ p \in Running
    /\ writing[p] = s
    /\ \/ pipe[s] < PipeCapacity /\ pipe' = [pipe EXCEPT ![s] = @ + 1]
       \/ pc = "returned" /\ UNCHANGED pipe
    /\ writing' = [writing EXCEPT ![p] = Idle]
    /\ UNCHANGED <<proc, holds, status, cancelled, lost, runnerVars, signalVars>>

Remains(p) == IF p = Leader THEN "zombie" ELSE "gone"

\* A process ends by itself.
Exit(p, st) ==
    /\ p \in Running
    /\ writing[p] = Idle
    /\ proc' = [proc EXCEPT ![p] = Remains(p)]
    /\ status' = IF p = Leader THEN st ELSE status
    /\ UNCHANGED <<pipe, holds, writing, cancelled, lost, runnerVars, signalVars>>

\* A signal ends a process, in the middle of a write if need be.  SIGTERM
\* may be ignored, SIGKILL not.
Die(p) ==
    /\ p \in Running \cap (termed \cup killed)
    /\ proc' = [proc EXCEPT ![p] = Remains(p)]
    /\ writing' = [writing EXCEPT ![p] = Idle]
    /\ status' = IF p = Leader THEN "failed" ELSE status
    /\ UNCHANGED <<pipe, holds, cancelled, lost, runnerVars, signalVars>>

\* A process starts another, with or without its own pipes.
Fork(p, h) ==
    /\ p \in Running \ killed
    /\ writing[p] = Idle
    /\ proc[h] = "unborn"
    /\ proc' = [proc EXCEPT ![h] = "running"]
    /\ holds' \in {holds} \cup (IF p \in holds THEN {holds \cup {h}} ELSE {})
    /\ UNCHANGED <<pipe, writing, status, cancelled, lost, runnerVars, signalVars>>

-----------------------------------------------------------------------------
Read == \E s \in Streams : ReadLine(s) \/ ReadError(s) \/ ReadEof(s)

Runner ==
    \/ Read \/ SeeCancel
    \/ LeaderReaped \/ Sweep \/ GraceExpires \/ ReapKilled
    \/ WaitLeader

Group ==
    \E p \in Procs :
        \/ \E s \in Streams : StartWrite(p, s) \/ Write(p, s)
        \/ \E st \in {"ok", "failed"} : Exit(p, st)
        \/ Die(p)
        \/ \E h \in Helpers : Fork(p, h)

Next == Runner \/ Drop \/ ReapOrphan \/ Cancel \/ Group

Spec == Init /\ [][Next]_vars

\* The select polls its ready branches in random order, so that each of them
\* has its turn; the kernel delivers SIGKILL and serves blocked writers.
\* Nothing makes a process exit, obey SIGTERM or the task be cancelled.
Fairness ==
    /\ \A s \in Streams : WF_vars(ReadLine(s) \/ ReadError(s) \/ ReadEof(s))
    /\ WF_vars(SeeCancel)
    /\ WF_vars(LeaderReaped \/ GraceExpires \/ Sweep \/ ReapKilled \/ WaitLeader)
    /\ \A p \in Procs :
          /\ WF_vars(p \in killed /\ Die(p))
          /\ SF_vars(\E s \in Streams : Write(p, s))

FairSpec == Spec /\ Fairness

-----------------------------------------------------------------------------
(* Properties.                                                             *)

\* When a cancelled job returns, no member of its group can go on working:
\* each one is dead or has SIGKILL pending, also those forked between the
\* SIGTERM and the end of the grace period (process.rs, "Killing only the
\* direct child orphans them").
NoStragglerSurvivesCancel == outcome = "cancelled" => Running \subseteq killed

\* The verdict is given on the whole output: unless a read failed, the runner
\* has read every line anyone wrote to the pipes, and nobody can write more.
VerdictSeesAllOutput ==
    outcome \in {"succeeded", "failed"} /\ lost = {} =>
        /\ Writers = {}
        /\ \A s \in Streams : pipe[s] = 0

\* However the runner returns, run.py does not outlive it.
LeaderDiesWithJob ==
    pc = "returned" => proc[Leader] # "running" \/ Leader \in killed

\* A cancelled job ends, whatever its processes do and whether or not they
\* obey SIGTERM, and its group stops running.  Once the reading of both streams
\* was given up, though, it waits for run.py and looks at the token no more
\* (lib.rs 571).
CancelStopsJob ==
    cancelled /\ lost # Streams ~> pc = "returned" \/ lost = Streams
CancelFreesGpu == outcome = "cancelled" ~> Running = {}

\* No process of the group stays blocked in a write for ever: the runner
\* reads both streams, or the group is stopped (lib.rs, "Read both streams
\* concurrently to avoid deadlocks").
WriterNeverStuck == \A p \in Procs : writing[p] # Idle ~> writing[p] = Idle

\* What is true of it: a process stays blocked only on a stream whose reading
\* was given up.
BlockedOnLostOnly ==
    \A p \in Procs : writing[p] # Idle ~> writing[p] \in lost \cup {Idle}

\* When every process exits if it can and no line is unreadable, the job ends.
JobEnds ==
    (\A p \in Procs : SF_vars(\E st \in {"ok", "failed"} : Exit(p, st)))
        => <>(pc = "returned" \/ lost # {})

-----------------------------------------------------------------------------
(* The inductive invariant behind the safety properties.                   *)

\* A stream read to its end stays at its end: nobody is left to write to it.
OutputInv ==
    /\ \A p \in holds : proc[p] # "unborn"
    /\ \A p \in Procs : writing[p] # Idle => p \in Writers
    /\ \A s \in done \ lost : Writers = {} /\ pipe[s] = 0
    /\ pc = "waiting" \/ outcome \in {"succeeded", "failed"} => done = Streams

\* The group is stopped only if that was asked for, and from the second SIGKILL
\* on, every running process has it pending.
CancelInv ==
    /\ pc = "returned" <=> outcome # "none"
    /\ pc \in {"terminating", "sweeping", "killing"} \/ outcome = "cancelled" => cancelled
    /\ pc = "killing" \/ outcome = "cancelled" => Running \subseteq killed

\* The leader is reaped exactly where the runner waits for it.
LeaderInv ==
    /\ pc \notin {"sweeping", "returned"} => proc[Leader] \in {"running", "zombie"}
    /\ pc = "sweeping" => proc[Leader] = "gone"
    /\ pc = "returned" =>
          proc[Leader] = "gone" \/ (outcome = "dropped" /\ LeaderDiesWithJob)

IInv == TypeOK /\ OutputInv /\ CancelInv /\ LeaderInv

-----------------------------------------------------------------------------
\* The job keeps what the runner relies on: a process is at large while it runs
\* and has no SIGKILL pending.
Promise == INSTANCE PythonPromise WITH
    phase   <- IF pc = "returned" THEN "ended" ELSE "running",
    verdict <- outcome,
    asked   <- cancelled,
    loose   <- Running \ killed # {},
    led     <- Leader \in Running \ killed

ImplementsPromise == Promise!Spec
=============================================================================
