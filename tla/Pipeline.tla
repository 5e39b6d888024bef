------------------------------- MODULE Pipeline -------------------------------
(***************************************************************************)
(* run.py: the stages between the datasets of a workspace and its splat.   *)
(* Every stage is a process of its own that reads what the one before it   *)
(* wrote.  Several instances of the script may be at work in one workspace *)
(* if one was left behind; NodeStart says when that can be.                *)
(*                                                                         *)
(* Stage 1 is extract_mp4.py, once per dataset; 2 to 6 are ns-process-data,*)
(* ns-train and ns-export of nerfstudio, and then rotate_ply.py and        *)
(* convert_ply2splat.py of this repository, which like the others read one *)
(* file and write another.  A file (or directory) is what is known of its  *)
(* origin.                                                                 *)
(***************************************************************************)
EXTENDS Naturals, FiniteSets

CONSTANTS
    Runs,      \* instances of run.py
    Datasets,  \* the folders under datasets/
    None

ASSUME PipelineAssumption == None \notin Datasets

Stages == 1..6
Files == 0..6     \* 0: the datasets, k: the output of stage k

VARIABLES
    kind,     \* dataset -> its Frames.mp4: "whole", "broken" (not to its end) or "none"
    files,    \* file -> runs that had a hand in it, datasets in it, is it whole
    script,   \* run -> "none", "running", "ok", "failed" or "dead"
    at,       \* run -> the stage it is at, 0 before the first and 7 behind the last
    todo,     \* run -> datasets to extract
    scan,     \* run -> the dataset being extracted
    busy,     \* run -> is the process of its stage running?
    took,     \* run -> the input its stage began with
    causes    \* history: what may have brought runs into each other's way, or
              \* lost frames

runVars == <<script, at, todo, scan, busy, took>>
pipeVars == <<kind, files, runVars, causes>>

File(runs, datasets, whole) == [by |-> runs, of |-> datasets, whole |-> whole]
Absent == File({}, {}, TRUE)
Exists(file) == file.by # {}

Contents == [by : SUBSET Runs, of : SUBSET Datasets, whole : BOOLEAN]

PipeTypes ==
    /\ kind \in [Datasets -> {"whole", "broken", "none"}]
    /\ files \in [Files -> Contents]
    /\ script \in [Runs -> {"none", "running", "ok", "failed", "dead"}]
    /\ at \in [Runs -> 0..7]
    /\ todo \in [Runs -> SUBSET Datasets]
    /\ scan \in [Runs -> Datasets \cup {None}]
    /\ busy \in [Runs -> BOOLEAN]
    /\ took \in [Runs -> Contents]

PipeInit ==
    /\ kind \in [Datasets -> {"whole", "broken", "none"}]
    /\ files = [k \in Files |-> Absent]
    /\ script = [r \in Runs |-> "none"] /\ at = [r \in Runs |-> 0]
    /\ todo = [r \in Runs |-> {}] /\ scan = [r \in Runs |-> None]
    /\ busy = [r \in Runs |-> FALSE] /\ took = [r \in Runs |-> Absent]
    /\ causes = {}

\* The script of r is gone, and with it its place.
Exit(r, verdict) ==
    /\ script' = [script EXCEPT ![r] = verdict]
    /\ at' = (IF busy[r] THEN at ELSE [at EXCEPT ![r] = 0])
    /\ todo' = [todo EXCEPT ![r] = {}]

-----------------------------------------------------------------------------
(* The script.                                                             *)

\* The datasets are listed; if there is no such directory, the script fails.
ListDatasets(r) ==
    /\ script[r] = "running" /\ at[r] = 0
    /\ IF Exists(files[0])
       THEN /\ todo' = [todo EXCEPT ![r] = files[0].of] /\ at' = [at EXCEPT ![r] = 1]
            /\ UNCHANGED script
       ELSE Exit(r, "failed")
    /\ UNCHANGED <<kind, files, scan, busy, took, causes>>

\* The next process is started on what is there now.
StartStage(r) ==
    /\ script[r] = "running" /\ ~busy[r] /\ at[r] \in Stages
    /\ IF at[r] = 1 /\ todo[r] # {}
       THEN \E d \in todo[r] : /\ scan' = [scan EXCEPT ![r] = d]
                               /\ todo' = [todo EXCEPT ![r] = @ \ {d}]
       ELSE at[r] # 1 /\ UNCHANGED <<scan, todo>>
    /\ took' = [took EXCEPT ![r] = files[at[r] - 1]]
    /\ busy' = [busy EXCEPT ![r] = TRUE]
    /\ UNCHANGED <<kind, files, script, at, causes>>

AllExtracted(r) ==
    /\ script[r] = "running" /\ ~busy[r] /\ at[r] = 1 /\ todo[r] = {}
    /\ at' = [at EXCEPT ![r] = 2]
    /\ UNCHANGED <<kind, files, script, todo, scan, busy, took, causes>>

\* A process cannot be started: run_cmd returns 1.
NoProcess(r) ==
    /\ script[r] = "running" /\ ~busy[r] /\ at[r] \in Stages
    /\ Exit(r, "failed")
    /\ UNCHANGED <<kind, files, scan, busy, took, causes>>

\* An exception while the stage's output is read, as of a line that is not
\* UTF-8: run_cmd returns 1, and the process goes on.
Abandon(r) ==
    /\ script[r] = "running" /\ busy[r]
    /\ Exit(r, "failed")
    /\ causes' = causes \cup {"abandoned"}
    /\ UNCHANGED <<kind, files, scan, busy, took>>

\* The stage's process is gone.
Reap(r) ==
    /\ busy' = [busy EXCEPT ![r] = FALSE]
    /\ took' = [took EXCEPT ![r] = Absent] /\ scan' = [scan EXCEPT ![r] = None]

Advance(r) ==
    /\ at' = (IF at[r] > 1 THEN [at EXCEPT ![r] = @ + 1] ELSE at)
    /\ UNCHANGED <<script, todo>>

\* Mutant: the exit code of a stage is logged and the script goes on.
Returns_Ignored(r, ok) ==
    /\ Reap(r)
    /\ IF script[r] = "running" THEN Advance(r)
       ELSE at' = [at EXCEPT ![r] = 0] /\ UNCHANGED <<script, todo>>

\* If the script still waits for it, it goes on or exits, according to the
\* exit code.
Returns(r, ok) ==
    /\ Reap(r)
    /\ \/ script[r] = "running" /\ ok /\ Advance(r)
       \/ /\ ~(script[r] = "running" /\ ok)
          /\ script' = (IF script[r] = "running" THEN [script EXCEPT ![r] = "failed"] ELSE script)
          /\ at' = [at EXCEPT ![r] = 0] /\ todo' = [todo EXCEPT ![r] = {}]

Finish(r) ==
    /\ script[r] = "running" /\ at[r] = 7
    /\ Exit(r, "ok")
    /\ UNCHANGED <<kind, files, scan, busy, took, causes>>

-----------------------------------------------------------------------------
(* The stages.                                                             *)

Write(k, file) == files' = [files EXCEPT ![k] = file]

\* What the file holds when the runs in rs wrote a part of it.
Torn(k, rs) ==
    IF rs = {} THEN files[k] ELSE File(files[k].by \cup rs, files[k].of, FALSE)

\* extract_mp4.py with a video: what frames are there are kept, the others are
\* written as far as the video decodes.
Extract(r) ==
    /\ busy[r] /\ at[r] = 1 /\ kind[scan[r]] # "none" /\ Exists(took[r])
    /\ LET frames(more) ==
               File(files[1].by \cup took[r].by \cup {r}, files[1].of \cup more, files[1].whole)
       IN \/ /\ Write(1, frames(IF kind[scan[r]] = "whole" THEN {scan[r]} ELSE {}))
             /\ UNCHANGED causes
          \/ \* imwrite fails, which only its result says
             Write(1, frames({})) /\ causes' = causes \cup {"unwritten"}
    /\ Returns(r, TRUE)
    /\ UNCHANGED kind

\* Without one it counts the frames that are there, and fails if there is no
\* directory for them.
NoVideo(r) ==
    /\ busy[r] /\ at[r] = 1 /\ (kind[scan[r]] = "none" \/ ~Exists(took[r]))
    /\ Returns(r, Exists(files[1]))
    /\ UNCHANGED <<kind, files, causes>>

\* Another stage makes its output of its input, as rotate_ply.py does.
StageSucceeds(r) ==
    /\ busy[r] /\ at[r] > 1 /\ Exists(took[r])
    /\ Write(at[r], File(took[r].by \cup {r}, took[r].of, took[r].whole))
    /\ Returns(r, TRUE)
    /\ UNCHANGED <<kind, causes>>

\* A stage fails, with or without a part of its output: the scripts of the
\* repository catch nothing, so that any exception is their exit code.
StageFails(r) ==
    /\ busy[r]
    /\ files' \in {files, [files EXCEPT ![at[r]] = Torn(at[r], {r})]}
    /\ Returns(r, FALSE)
    /\ UNCHANGED <<kind, causes>>

Script(r) ==
    \/ ListDatasets(r) \/ StartStage(r) \/ AllExtracted(r) \/ NoProcess(r) \/ Abandon(r) \/ Finish(r)
    \/ Extract(r) \/ NoVideo(r) \/ StageSucceeds(r) \/ StageFails(r)

\* The processes of the runs in rs are killed: some were writing, and what they
\* wrote stays in half.
Kill(rs) ==
    /\ script' = [r \in Runs |-> IF r \in rs /\ script[r] = "running" THEN "dead" ELSE script[r]]
    /\ busy' = [r \in Runs |-> busy[r] /\ r \notin rs]
    /\ at' = [r \in Runs |-> IF r \in rs THEN 0 ELSE at[r]]
    /\ todo' = [r \in Runs |-> IF r \in rs THEN {} ELSE todo[r]]
    /\ took' = [r \in Runs |-> IF r \in rs THEN Absent ELSE took[r]]
    /\ scan' = [r \in Runs |-> IF r \in rs THEN None ELSE scan[r]]
    /\ \E writers \in SUBSET {r \in rs : busy[r]} :
         files' = [k \in Files |-> Torn(k, {r \in writers : at[r] = k})]
=============================================================================
