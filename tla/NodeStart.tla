------------------------------ MODULE NodeStart ------------------------------
(***************************************************************************)
(* bin/src/main.rs and the life of a task's workspace: node processes that *)
(* start, sweep TASKS_ROOT, bind their port, read their configuration and  *)
(* serve, and the attempts at one task, whose pipelines share a workspace. *)
(* A process may be started while another one serves from the same         *)
(* TASKS_ROOT.                                                             *)
(***************************************************************************)
EXTENDS Pipeline

CONSTANTS
    Nodes,     \* processes of the node
    MaxStarts, \* bound: starts of a process
    Leftovers  \* bound: what a removal that fails may leave behind

ASSUME NodeAssumption == None \notin Nodes \cup Runs /\ MaxStarts \in Nat
                  /\ {} \in Leftovers /\ Leftovers \subseteq SUBSET Files

VARIABLES
    node,      \* process -> "off", "sweeping", "binding", "configuring" or "serving"
    starts,    \* how many there were
    job,       \* the run in the hands of the serving process, or None
    step,      \* what that does: "python", "upload" or "cleanup"
    uploaded   \* run -> the splat it uploaded, or Absent

nodeVars == <<node, starts, job, step, uploaded>>
vars == <<pipeVars, nodeVars>>

TypeOK ==
    /\ PipeTypes
    /\ node \in [Nodes -> {"off", "sweeping", "binding", "configuring", "serving"}]
    /\ starts \in 0..MaxStarts
    /\ job \in Runs \cup {None} /\ step \in {"python", "upload", "cleanup"}
    /\ causes \subseteq {"abandoned", "unwritten", "dropped", "orphaned", "unswept", "left", "swept"}
    /\ uploaded \in [Runs -> Contents]
    /\ \A r \in Runs : uploaded[r] # Absent => script[r] = "ok"

Init ==
    /\ PipeInit
    /\ node = [n \in Nodes |-> "off"] /\ starts = 0
    /\ job = None /\ step = "python" /\ uploaded = [r \in Runs |-> Absent]

-----------------------------------------------------------------------------
(* main.                                                                   *)

Start(n) ==
    /\ node[n] = "off" /\ starts < MaxStarts
    /\ node' = [node EXCEPT ![n] = "sweeping"] /\ starts' = starts + 1
    /\ UNCHANGED <<pipeVars, job, step, uploaded>>

\* remove_dir_all of the workspace, of which a part may stay.
Remove(more) ==
    \E some \in Leftovers :
        /\ files' = [k \in Files |-> IF k \in some THEN files[k] ELSE Absent]
        /\ causes' = causes \cup more
                \cup (IF \E k \in some : Exists(files[k]) THEN {"left"} ELSE {})

\* Mutant: the workspaces are left to the runner.
Sweep_Skipped(n) ==
    /\ node[n] = "sweeping" /\ node' = [node EXCEPT ![n] = "binding"]
    /\ UNCHANGED <<pipeVars, starts, job, step, uploaded>>

\* Every workspace goes, without a look at who uses it.
Sweep(n) ==
    /\ node[n] = "sweeping" /\ node' = [node EXCEPT ![n] = "binding"]
    /\ Remove(IF job # None THEN {"swept"} ELSE {})
    /\ UNCHANGED <<kind, runVars, starts, job, step, uploaded>>

Bound == {n \in Nodes : node[n] \in {"configuring", "serving"}}

\* Only then is the port asked for; a process that does not get it exits.
Bind(n) ==
    /\ node[n] = "binding"
    /\ node' = [node EXCEPT ![n] = IF Bound = {} THEN "configuring" ELSE "off"]
    /\ UNCHANGED <<pipeVars, starts, job, step, uploaded>>

\* HostConfig::from_env accepts the environment, or the process exits.
Configure(n) ==
    /\ node[n] = "configuring"
    /\ node' \in {[node EXCEPT ![n] = s] : s \in {"serving", "off"}}
    /\ UNCHANGED <<pipeVars, starts, job, step, uploaded>>

-----------------------------------------------------------------------------
(* The runs of a serving process, one at a time.                           *)

Serving == \E n \in Nodes : node[n] = "serving"

\* An attempt has its datasets in the workspace and spawns run.py.
BeginJob(r) ==
    /\ Serving /\ job = None /\ script[r] = "none"
    /\ job' = r
    /\ files' = [files EXCEPT ![0] = File(@.by \cup {r}, Datasets, @.whole)]
    /\ script' = [script EXCEPT ![r] = "running"]
    /\ UNCHANGED <<kind, at, todo, scan, busy, took, causes, node, starts, step, uploaded>>

\* Mutant: the exit status is logged only.
PythonEnds_AnyStatus ==
    /\ job # None /\ step = "python" /\ script[job] \in {"ok", "failed"}
    /\ step' = IF Exists(files[6]) THEN "upload" ELSE "cleanup"
    /\ UNCHANGED <<pipeVars, node, starts, job, uploaded>>

\* run.py exits; without a splat there is nothing to upload.
PythonEnds ==
    /\ job # None /\ step = "python" /\ script[job] \in {"ok", "failed"}
    /\ step' = IF script[job] = "ok" /\ Exists(files[6]) THEN "upload" ELSE "cleanup"
    /\ UNCHANGED <<pipeVars, node, starts, job, uploaded>>

\* The splat is read and sent, or that fails.
Upload ==
    /\ job # None /\ step = "upload" /\ step' = "cleanup"
    /\ \/ Exists(files[6]) /\ uploaded' = [uploaded EXCEPT ![job] = files[6]]
       \/ UNCHANGED uploaded
    /\ UNCHANGED <<pipeVars, node, starts, job>>

\* Mutant: only the script itself is killed.
CancelJob_LeaderOnly ==
    /\ job # None /\ step = "python" /\ script[job] = "running"
    /\ Exit(job, "dead") /\ step' = "cleanup"
    /\ UNCHANGED <<kind, files, scan, busy, took, causes, node, starts, job, uploaded>>

\* terminate_group.
CancelJob ==
    /\ job # None /\ step = "python" /\ script[job] = "running"
    /\ Kill({job}) /\ step' = "cleanup"
    /\ UNCHANGED <<kind, causes, node, starts, job, uploaded>>

Cleanup ==
    /\ job # None /\ step = "cleanup" /\ job' = None /\ step' = "python"
    /\ Remove({})
    /\ UNCHANGED <<kind, runVars, node, starts, uploaded>>

\* The lease is lost: the run is dropped, run.py killed, its stage not.
Drop ==
    /\ job # None /\ job' = None /\ step' = "python"
    /\ IF script[job] = "running" THEN Exit(job, "dead") ELSE UNCHANGED <<script, at, todo>>
    /\ causes' = causes \cup {"dropped"}
    /\ UNCHANGED <<kind, files, scan, busy, took, node, starts, uploaded>>

\* A process dies while another one is behind its sweep already.
Unswept(n) ==
    IF job # None /\ \E o \in Nodes \ {n} : node[o] = "binding" THEN {"unswept"} ELSE {}

\* A process dies.  If it is alone in a container, everything in that dies with
\* it; otherwise run.py and its stages live on.
Crash(n) ==
    /\ node[n] # "off" /\ node' = [node EXCEPT ![n] = "off"]
    /\ IF node[n] # "serving" THEN UNCHANGED <<pipeVars, job, step>>
       ELSE /\ job' = None /\ step' = "python"
            /\ \/ Kill(Runs) /\ causes' = causes \cup Unswept(n) /\ UNCHANGED kind
               \/ /\ job # None /\ causes' = causes \cup Unswept(n) \cup {"orphaned"}
                  /\ UNCHANGED <<kind, files, runVars>>
    /\ UNCHANGED <<starts, uploaded>>

Main == \E n \in Nodes : Start(n) \/ Sweep(n) \/ Bind(n) \/ Configure(n) \/ Crash(n)
Jobs == (\E r \in Runs : BeginJob(r)) \/ PythonEnds \/ Upload \/ CancelJob \/ Cleanup \/ Drop
Scripts == (\E r \in Runs : Script(r)) /\ UNCHANGED nodeVars

Next == Main \/ Jobs \/ Scripts

Spec == Init /\ [][Next]_vars

-----------------------------------------------------------------------------
(* Properties.                                                             *)

AtWork(r) == script[r] = "running" \/ busy[r]

\* While nothing went wrong that the code cannot put right, the workspace of a
\* run holds what this run put there and nothing of an earlier one, and no other
\* run has a process at work beside it: the clean-up at the end of a run, the
\* one at start-up and terminate_group see to it (main.rs 26-45, lib.rs 693-697,
\* process.rs 19-37).  Failures, cancellations and the death of a process with
\* its container do not count as such; what does is named by `causes`: a lost
\* lease, a process that dies and leaves its run or dies while another one is
\* behind its sweep, a sweep beside a run, a removal that fails, a stage that
\* run_cmd leaves behind, a frame that is not written.
AloneInWorkspace ==
    job # None /\ causes = {} =>
        /\ \A k \in Files : files[k].by \subseteq {job}
        /\ \A r \in Runs \ {job} : ~AtWork(r)

Sound == {d \in Datasets : kind[d] = "whole"}
Own(r) == File({r}, Sound, TRUE)

\* A splat that is uploaded is then made by this run alone, from the results of
\* stages that came to their end, and from every dataset whose video is sound,
\* although a dataset without a readable video goes unnoticed (run.py 149-205,
\* extract_mp4.py 20-45).
SplatIsOwn ==
    causes = {} =>
        \A r \in Runs : uploaded[r] # Absent =>
            uploaded[r] = Own(r)

\* Even in a workspace that was not removed, a run that succeeds uploads no old
\* splat: it had a hand in it (every exit code is looked at, run.py 153-205).
NoOldSplat ==
    causes \subseteq {"left", "unwritten"} =>
        \A r \in Runs : uploaded[r] # Absent => r \in uploaded[r].by

-----------------------------------------------------------------------------
(* The inductive invariant behind them.                                    *)

\* A process of a stage belongs to a place in the script.
PlaceInv ==
    \A r \in Runs :
        /\ IF busy[r] THEN at[r] \in Stages /\ (at[r] = 1 => scan[r] # None)
           ELSE scan[r] = None /\ took[r] = Absent
        /\ script[r] = "none" => at[r] = 0

\* One process has the port, and only a serving one has a run.
PortInv ==
    /\ \A m, n \in Bound : m = n
    /\ job # None => Serving
    /\ job = None => step = "python"

\* A run goes on to the upload if it ended well, and to its clean-up when it ended.
StepInv ==
    /\ step # "python" => script[job] # "running"
    /\ step = "upload" => script[job] = "ok"

\* Only the run in hand has a process at work, and its script waits for it.
WorkInv ==
    causes \subseteq {"left", "unwritten"} =>
        \A r \in Runs : AtWork(r) => r = job /\ script[r] = "running"

\* From a sweep on, no file is of another run.
Swept == \E n \in Nodes : node[n] \in {"binding", "configuring", "serving"}
SweptInv ==
    causes = {} =>
        /\ Swept => \A k \in Files : files[k].by \subseteq {job}
        /\ \A r \in Runs : took[r].by \subseteq {r}

\* What the script is at has what it needs, if it has anything.
InputOf(r) ==
    /\ files[0] = File({r}, Datasets, TRUE)
    /\ at[r] = 0 => files[1] = Absent
    /\ at[r] = 1 => /\ files[1].of = Sound \ (todo[r] \cup {scan[r]})
                    /\ files[1].whole = TRUE
                    /\ scan[r] \notin todo[r]
    /\ at[r] > 1 => files[at[r] - 1] \in {Absent, Own(r)}
    /\ busy[r] => took[r] = files[at[r] - 1]

OwnInv ==
    causes = {} =>
        /\ \A r \in Runs : uploaded[r] \in {Absent, Own(r)}
        /\ \A k \in Files : files[k].by = {} => files[k] = Absent
        /\ \A r \in Runs :
             /\ script[r] = "running" => InputOf(r)
             /\ r = job /\ script[r] = "ok" /\ step # "cleanup" => files[6] \in {Absent, Own(r)}

\* Behind the second stage every output has the script's hand in it.
HandInv ==
    causes \subseteq {"left", "unwritten"} =>
        /\ \A r \in Runs : uploaded[r] # Absent => r \in uploaded[r].by
        /\ \A r \in Runs : script[r] = "running" /\ at[r] > 2 => r \in files[at[r] - 1].by
        /\ job # None /\ script[job] = "ok" /\ step # "cleanup" => job \in files[6].by

IInv ==
    /\ TypeOK /\ PlaceInv /\ PortInv /\ StepInv /\ WorkInv
    /\ SweptInv /\ OwnInv /\ HandInv
=============================================================================
