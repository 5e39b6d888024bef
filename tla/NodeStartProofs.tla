--------------------------- MODULE NodeStartProofs ---------------------------
(***************************************************************************)
(* Proofs about NodeStart, and the Pipeline it extends.  One lemma per     *)
(* conjunct of IInv says that a step keeps it.  Those about the files rest *)
(* on frame lemmas that say what a script's step, a kill and a removal do  *)
(* to them.                                                                *)
(***************************************************************************)
EXTENDS NodeStart, TLAPS

USE NodeAssumption, PipelineAssumption

\* The fields of a file are what it was made of.
LEMMA FileFields ==
    ASSUME NEW b, NEW o, NEW w
    PROVE File(b, o, w).by = b /\ File(b, o, w).of = o /\ File(b, o, w).whole = w
  BY DEF File

\* A file made of runs, datasets and a truth value is one of the contents.
LEMMA FileType ==
    ASSUME NEW b \in SUBSET Runs, NEW o \in SUBSET Datasets, NEW w \in BOOLEAN
    PROVE File(b, o, w) \in Contents
  BY DEF File, Contents

\* The contents of a file have the types of their parts, and are made of them.
LEMMA Parts ==
    ASSUME NEW f \in Contents
    PROVE /\ f.by \subseteq Runs /\ f.of \subseteq Datasets /\ f.whole \in BOOLEAN
          /\ f = File(f.by, f.of, f.whole)
  BY DEF File, Contents

\* That a file is absent is one of the contents.
LEMMA AbsentType == Absent \in Contents
  BY FileType DEF Absent

\* A half-written file is one of the contents.
LEMMA TornType ==
    ASSUME files \in [Files -> Contents], NEW k \in Files, NEW rs \in SUBSET Runs
    PROVE Torn(k, rs) \in Contents
  <1>1. files[k].by \cup rs \in SUBSET Runs /\ files[k].of \in SUBSET Datasets
    BY Parts
  <1> QED
    BY <1>1, FileType DEF Torn

\* The exit of a script keeps the types of what it changes.
LEMMA ExitType ==
    ASSUME PipeTypes, NEW r \in Runs, NEW v \in {"ok", "failed", "dead"}, Exit(r, v)
    PROVE /\ script' \in [Runs -> {"none", "running", "ok", "failed", "dead"}]
          /\ at' \in [Runs -> 0..7] /\ todo' \in [Runs -> SUBSET Datasets]
  BY DEF PipeTypes, Exit

\* So does the end of a stage.
LEMMA ReturnsType ==
    ASSUME PipeTypes, PlaceInv, NEW r \in Runs, busy[r], NEW ok \in BOOLEAN, Returns(r, ok)
    PROVE /\ script' \in [Runs -> {"none", "running", "ok", "failed", "dead"}]
          /\ at' \in [Runs -> 0..7] /\ todo' \in [Runs -> SUBSET Datasets]
          /\ scan' \in [Runs -> Datasets \cup {None}] /\ busy' \in [Runs -> BOOLEAN]
          /\ took' \in [Runs -> Contents]
  <1>1. at[r] + 1 \in 0..7
    BY DEF PlaceInv, Stages, PipeTypes
  <1>2. took' \in [Runs -> Contents]
    BY AbsentType DEF PipeTypes, Returns, Reap
  <1>3. script' \in [Runs -> {"none", "running", "ok", "failed", "dead"}]
    BY DEF PipeTypes, Returns, Advance
  <1>4. at' \in [Runs -> 0..7]
    BY <1>1 DEF PipeTypes, Returns, Advance
  <1>5. todo' \in [Runs -> SUBSET Datasets]
    BY DEF PipeTypes, Returns, Advance
  <1>6. scan' \in [Runs -> Datasets \cup {None}] /\ busy' \in [Runs -> BOOLEAN]
    BY DEF PipeTypes, Returns, Reap
  <1> QED
    BY <1>2, <1>3, <1>4, <1>5, <1>6

\* A kill keeps the types of the pipeline's state.
LEMMA KillType ==
    ASSUME PipeTypes, NEW rs \in SUBSET Runs, Kill(rs), UNCHANGED kind
    PROVE PipeTypes'
  <1>1. files' \in [Files -> Contents]
    BY TornType DEF PipeTypes, Kill
  <1>2. took' \in [Runs -> Contents]
    BY AbsentType DEF PipeTypes, Kill
  <1>3. script' \in [Runs -> {"none", "running", "ok", "failed", "dead"}]
    BY DEF PipeTypes, Kill
  <1>4. at' \in [Runs -> 0..7] /\ todo' \in [Runs -> SUBSET Datasets]
    BY DEF PipeTypes, Kill
  <1>5. scan' \in [Runs -> Datasets \cup {None}] /\ busy' \in [Runs -> BOOLEAN]
    BY DEF PipeTypes, Kill
  <1> QED
    BY <1>1, <1>2, <1>3, <1>4, <1>5 DEF PipeTypes

\* A removal keeps the type of the files.
LEMMA RemoveType ==
    ASSUME PipeTypes, NEW more, Remove(more) PROVE files' \in [Files -> Contents]
  BY AbsentType DEF PipeTypes, Remove

\* A step of a script, or of its stage, keeps the types of the pipeline's state.
LEMMA ScriptPipe ==
    ASSUME PipeTypes, PlaceInv, NEW r \in Runs, Script(r) PROVE PipeTypes'
  <1>1. CASE ListDatasets(r)
    <2>1. files[0].of \subseteq Datasets /\ files[0] \in Contents
      BY Parts DEF PipeTypes, Files
    <2>2. CASE Exists(files[0])
      BY <1>1, <2>1, <2>2 DEF PipeTypes, ListDatasets
    <2>3. CASE ~Exists(files[0])
      BY <1>1, <2>3, ExitType DEF PipeTypes, ListDatasets
    <2> QED
      BY <2>2, <2>3
  <1>2. CASE StartStage(r)
    <2>1. files[at[r] - 1] \in Contents
      BY <1>2 DEF PipeTypes, StartStage, Stages, Files
    <2>2. took' \in [Runs -> Contents]
      BY <1>2, <2>1 DEF PipeTypes, StartStage
    <2>3. scan' \in [Runs -> Datasets \cup {None}]
      BY <1>2 DEF PipeTypes, StartStage
    <2>4. todo' \in [Runs -> SUBSET Datasets]
      BY <1>2 DEF PipeTypes, StartStage
    <2>5. busy' \in [Runs -> BOOLEAN]
      BY <1>2 DEF PipeTypes, StartStage
    <2> QED
      BY <1>2, <2>2, <2>3, <2>4, <2>5 DEF PipeTypes, StartStage
  <1>3. CASE AllExtracted(r)
    BY <1>3 DEF PipeTypes, AllExtracted
  <1>4. CASE NoProcess(r) \/ Abandon(r) \/ Finish(r)
    BY <1>4, ExitType DEF PipeTypes, NoProcess, Abandon, Finish
  <1>5. CASE Extract(r)
    <2> DEFINE frames(more) ==
               File(files[1].by \cup took[r].by \cup {r}, files[1].of \cup more, files[1].whole)
    <2>1. scan[r] \in Datasets
      BY <1>5 DEF Extract, PlaceInv, PipeTypes
    <2>2. files[1] \in Contents /\ took[r] \in Contents
      BY DEF PipeTypes, Files
    <2>3. frames({}) \in Contents /\ frames({scan[r]}) \in Contents
      BY <2>1, <2>2, Parts, FileType
    <2>4. files' = [files EXCEPT ![1] = frames({})] \/ files' = [files EXCEPT ![1] = frames({scan[r]})]
      BY <1>5 DEF Extract, Write
    <2>5. files' \in [Files -> Contents]
      BY <2>3, <2>4 DEF PipeTypes
    <2> QED
      BY <1>5, <2>5, ReturnsType DEF PipeTypes, Extract
  <1>6. CASE NoVideo(r)
    <2>1. Exists(files[1]) \in BOOLEAN
      BY DEF Exists
    <2> QED
      BY <1>6, <2>1, ReturnsType DEF PipeTypes, NoVideo
  <1>7. CASE StageSucceeds(r)
    <2>1. File(took[r].by \cup {r}, took[r].of, took[r].whole) \in Contents
      BY Parts, FileType DEF PipeTypes
    <2>2. files' \in [Files -> Contents]
      BY <1>7, <2>1 DEF PipeTypes, StageSucceeds, Write
    <2> QED
      BY <1>7, <2>2, ReturnsType DEF PipeTypes, StageSucceeds
  <1>8. CASE StageFails(r)
    <2>1. Torn(at[r], {r}) \in Contents
      BY <1>8, TornType DEF PipeTypes, PlaceInv, StageFails, Stages, Files
    <2>2. files' \in [Files -> Contents]
      BY <1>8, <2>1 DEF PipeTypes, StageFails
    <2> QED
      BY <1>8, <2>2, ReturnsType DEF PipeTypes, StageFails
  <1> QED
    BY <1>1, <1>2, <1>3, <1>4, <1>5, <1>6, <1>7, <1>8 DEF Script

\* What a step of run r leaves alone.
LEMMA ScriptFrame ==
    ASSUME PipeTypes, NEW r \in Runs, Script(r)
    PROVE /\ kind' = kind
          /\ \A q \in Runs \ {r} :
                /\ script'[q] = script[q] /\ at'[q] = at[q] /\ todo'[q] = todo[q]
                /\ scan'[q] = scan[q] /\ busy'[q] = busy[q] /\ took'[q] = took[q]
          /\ script[r] # "running" => script'[r] = script[r]
          /\ causes' \in {causes, causes \cup {"abandoned"}, causes \cup {"unwritten"}}
  <1> USE DEF PipeTypes, Returns, Reap, Advance, Exit
  <1>1. CASE ListDatasets(r) \/ StartStage(r) \/ AllExtracted(r)
    BY <1>1 DEF ListDatasets, StartStage, AllExtracted
  <1>2. CASE NoProcess(r) \/ Abandon(r) \/ Finish(r)
    BY <1>2 DEF NoProcess, Abandon, Finish
  <1>3. CASE Extract(r)
    BY <1>3 DEF Extract
  <1>4. CASE NoVideo(r) \/ StageSucceeds(r) \/ StageFails(r)
    BY <1>4 DEF NoVideo, StageSucceeds, StageFails
  <1> QED
    BY <1>1, <1>2, <1>3, <1>4 DEF Script

\* What a kill leaves alone.
LEMMA KillFrame ==
    ASSUME PipeTypes, NEW rs \in SUBSET Runs, Kill(rs)
    PROVE /\ \A q \in Runs \ rs :
                /\ script'[q] = script[q] /\ at'[q] = at[q] /\ todo'[q] = todo[q]
                /\ scan'[q] = scan[q] /\ busy'[q] = busy[q] /\ took'[q] = took[q]
          /\ \A q \in rs : /\ script'[q] # "running" /\ ~busy'[q]
                           /\ scan'[q] = None /\ took'[q] = Absent
          /\ \A q \in Runs : script[q] # "running" => script'[q] = script[q]
  BY DEF Kill, PipeTypes

Outcomes == {"none", "running", "ok", "failed", "dead"}

\* Every step keeps the types.
LEMMA TypeStep ==
    ASSUME TypeOK, PlaceInv, StepInv, Next PROVE TypeOK'
  <1> DEFINE Kept == \A q \in Runs : script[q] # "running" => script'[q] = script[q]
  <1>1. ASSUME NEW r \in Runs, Script(r), UNCHANGED nodeVars PROVE TypeOK'
    <2>1. PipeTypes'
      BY <1>1, ScriptPipe DEF TypeOK
    <2>2. Kept /\ causes' \in {causes, causes \cup {"abandoned"}, causes \cup {"unwritten"}}
      BY <1>1, ScriptFrame DEF TypeOK
    <2> QED
      BY <1>1, <2>1, <2>2 DEF TypeOK, nodeVars
  <1>2. ASSUME NEW n \in Nodes, Start(n) \/ Bind(n) \/ Configure(n) PROVE TypeOK'
    <2>1. PipeTypes' /\ UNCHANGED <<script, uploaded, job, step, causes>>
      BY <1>2 DEF TypeOK, PipeTypes, Start, Bind, Configure, pipeVars, runVars
    <2>2. /\ node' \in [Nodes -> {"off", "sweeping", "binding", "configuring", "serving"}]
          /\ starts' \in 0..MaxStarts
      BY <1>2 DEF TypeOK, Start, Bind, Configure
    <2> QED
      BY <2>1, <2>2 DEF TypeOK
  <1>3. ASSUME NEW n \in Nodes, Sweep(n) PROVE TypeOK'
    <2>1. files' \in [Files -> Contents]
      BY <1>3, RemoveType DEF TypeOK, Sweep
    <2>2. PipeTypes'
      BY <1>3, <2>1 DEF TypeOK, PipeTypes, Sweep, runVars
    <2> QED
      BY <1>3, <2>2 DEF TypeOK, Sweep, Remove, runVars
  <1>4. ASSUME NEW n \in Nodes, Crash(n) PROVE TypeOK'
    <2>1. PipeTypes' /\ Kept
      <3>1. CASE Kill(Runs) /\ UNCHANGED kind
        BY <3>1, KillType, KillFrame DEF TypeOK
      <3>2. CASE UNCHANGED <<kind, files, runVars>>
        BY <3>2 DEF TypeOK, PipeTypes, runVars
      <3> QED
        BY <1>4, <3>1, <3>2 DEF Crash, pipeVars
    <2>2. causes' \subseteq {"abandoned", "unwritten", "dropped", "orphaned", "unswept", "left", "swept"}
      BY <1>4 DEF TypeOK, Crash, Unswept, pipeVars
    <2> QED
      BY <1>4, <2>1, <2>2 DEF TypeOK, Crash
  <1>5. ASSUME NEW r \in Runs, BeginJob(r) PROVE TypeOK'
    <2>1. File(files[0].by \cup {r}, Datasets, files[0].whole) \in Contents
      BY Parts, FileType DEF TypeOK, PipeTypes, Files
    <2>2. files' \in [Files -> Contents]
      BY <1>5, <2>1 DEF TypeOK, PipeTypes, BeginJob
    <2>3. script' \in [Runs -> Outcomes]
      BY <1>5 DEF TypeOK, PipeTypes, BeginJob, Outcomes
    <2>4. PipeTypes'
      BY <1>5, <2>2, <2>3 DEF TypeOK, PipeTypes, BeginJob, Outcomes
    <2> QED
      BY <1>5, <2>4 DEF TypeOK, PipeTypes, BeginJob
  <1>6. CASE PythonEnds
    BY <1>6 DEF TypeOK, PipeTypes, PythonEnds, pipeVars, runVars
  <1>7. CASE Upload
    <2>1. PipeTypes'
      BY <1>7 DEF TypeOK, PipeTypes, Upload, pipeVars, runVars
    <2>2. files[6] \in Contents
      BY DEF TypeOK, PipeTypes, Files
    <2>3. job \in Runs /\ script[job] = "ok" /\ script' = script
      BY <1>7 DEF TypeOK, StepInv, Upload, pipeVars, runVars
    <2>4. uploaded' \in [Runs -> Contents]
      BY <1>7, <2>2, <2>3 DEF TypeOK, Upload
    <2>5. \A q \in Runs : uploaded'[q] # Absent => script'[q] = "ok"
      BY <1>7, <2>3 DEF TypeOK, Upload
    <2> QED
      BY <1>7, <2>1, <2>3, <2>4, <2>5 DEF TypeOK, Upload, pipeVars
  <1>8. CASE CancelJob
    <2>1. PipeTypes' /\ Kept
      BY <1>8, KillType, KillFrame DEF TypeOK, CancelJob
    <2> QED
      BY <1>8, <2>1 DEF TypeOK, CancelJob
  <1>9. CASE Cleanup
    <2>1. files' \in [Files -> Contents]
      BY <1>9, RemoveType DEF TypeOK, Cleanup
    <2>2. PipeTypes'
      BY <1>9, <2>1 DEF TypeOK, PipeTypes, Cleanup, runVars
    <2> QED
      BY <1>9, <2>2 DEF TypeOK, Cleanup, Remove, runVars
  <1>10. CASE Drop
    <2>1. PipeTypes'
      BY <1>10, ExitType DEF TypeOK, PipeTypes, Drop
    <2>2. Kept
      BY <1>10 DEF TypeOK, PipeTypes, Drop, Exit
    <2> QED
      BY <1>10, <2>1, <2>2 DEF TypeOK, Drop
  <1> QED
    BY <1>1, <1>2, <1>3, <1>4, <1>5, <1>6, <1>7, <1>8, <1>9, <1>10 DEF Next, Main, Jobs, Scripts

\* Every step keeps a stage's process in its place in the script.
LEMMA PlaceStep ==
    ASSUME TypeOK, PlaceInv, Next PROVE PlaceInv'
  <1> DEFINE Placed(q) == IF busy[q] THEN at[q] \in Stages /\ (at[q] = 1 => scan[q] # None)
                          ELSE scan[q] = None /\ took[q] = Absent
             Unborn(q) == script[q] = "none" => at[q] = 0
  <1>1. ASSUME NEW r \in Runs, Script(r) PROVE PlaceInv'
    <2>1. PipeTypes /\ at[r] \in 0..7 /\ busy[r] \in BOOLEAN
      BY DEF TypeOK, PipeTypes
    <2>2. Placed(r)'
      <3>1. CASE ListDatasets(r)
        BY <2>1, <3>1 DEF PipeTypes, ListDatasets, Exit, PlaceInv, Stages
      <3>2. CASE StartStage(r)
        BY <2>1, <3>2 DEF PipeTypes, StartStage, PlaceInv, Stages
      <3>3. CASE AllExtracted(r)
        BY <2>1, <3>3 DEF PipeTypes, AllExtracted, PlaceInv, Stages
      <3>4. CASE NoProcess(r)
        BY <2>1, <3>4 DEF PipeTypes, NoProcess, Exit, PlaceInv
      <3>5. CASE Abandon(r)
        BY <2>1, <3>5 DEF PipeTypes, Abandon, Exit, PlaceInv
      <3>6. CASE Finish(r)
        BY <2>1, <3>6 DEF PipeTypes, Finish, Exit, PlaceInv, Stages
      <3>7. CASE \E ok \in BOOLEAN : Returns(r, ok)
        BY <2>1, <3>7 DEF PipeTypes, Returns, Reap
      <3>8. Exists(files[1]) \in BOOLEAN
        BY DEF Exists
      <3> QED
        BY <1>1, <3>1, <3>2, <3>3, <3>4, <3>5, <3>6, <3>7, <3>8
           DEF Script, Extract, NoVideo, StageSucceeds, StageFails
    <2>3. script[r] # "none"
      <3>1. busy[r] => at[r] # 0
        BY <2>1 DEF PlaceInv, Stages
      <3> QED
        BY <1>1, <3>1 DEF PlaceInv, Script, ListDatasets, StartStage, AllExtracted, NoProcess,
              Abandon, Finish, Extract, NoVideo, StageSucceeds, StageFails
    <2>4. script'[r] # "none"
      BY <1>1, <2>1, <2>3 DEF PipeTypes, Script, ListDatasets, StartStage, AllExtracted, NoProcess,
            Abandon, Finish, Exit, Extract, NoVideo, StageSucceeds, StageFails, Returns, Advance
    <2>5. \A q \in Runs \ {r} : Placed(q)' /\ Unborn(q)'
      BY <1>1, <2>1, ScriptFrame DEF PlaceInv
    <2> QED
      BY <2>2, <2>4, <2>5 DEF PlaceInv
  <1>2. ASSUME NEW rs \in SUBSET Runs, Kill(rs) PROVE PlaceInv'
    <2>1. \A q \in rs : Placed(q)' /\ (Unborn(q) => Unborn(q)')
      BY <1>2, KillFrame DEF TypeOK, PipeTypes, Kill
    <2>2. \A q \in Runs \ rs : Placed(q)' /\ Unborn(q)'
      BY <1>2, KillFrame DEF TypeOK, PlaceInv
    <2> QED
      BY <2>1, <2>2 DEF PlaceInv
  <1>3. ASSUME UNCHANGED <<at, busy, scan, took>>, \A q \in Runs : script'[q] = "none" => script[q] = "none"
        PROVE PlaceInv'
    BY <1>3 DEF PlaceInv
  <1>4. CASE Drop
    <2>1. /\ at' = at \/ (~busy[job] /\ at' = [at EXCEPT ![job] = 0])
          /\ \A q \in Runs : script'[q] = "none" => script[q] = "none"
      BY <1>4 DEF Drop, Exit, TypeOK, PipeTypes
    <2> QED
      BY <1>4, <2>1 DEF Drop, PlaceInv, TypeOK, PipeTypes
  <1>5. CASE Main
    BY <1>2, <1>3, <1>5 DEF Main, Start, Sweep, Bind, Configure, Crash, pipeVars, runVars
  <1>6. ASSUME NEW r \in Runs, BeginJob(r) PROVE PlaceInv'
    BY <1>3, <1>6 DEF BeginJob, TypeOK, PipeTypes
  <1>7. CASE Jobs
    BY <1>2, <1>3, <1>4, <1>6, <1>7
       DEF Jobs, TypeOK, PythonEnds, Upload, CancelJob, Cleanup, pipeVars, runVars
  <1> QED
    BY <1>1, <1>5, <1>7 DEF Next, Scripts

\* Every step leaves the port with one process, and a run with a serving one.
LEMMA PortStep ==
    ASSUME TypeOK, PortInv, Next PROVE PortInv'
  <1> USE DEF TypeOK, PortInv, Bound, Serving
  <1>1. CASE Scripts
    BY <1>1 DEF Scripts, nodeVars
  <1>2. CASE Jobs
    BY <1>2 DEF Jobs, BeginJob, PythonEnds, Upload, CancelJob, Cleanup, Drop
  <1>3. ASSUME NEW n \in Nodes, Start(n) \/ Sweep(n) PROVE PortInv'
    BY <1>3 DEF Start, Sweep
  <1>4. ASSUME NEW n \in Nodes, Bind(n) PROVE PortInv'
    BY <1>4 DEF Bind
  <1>5. ASSUME NEW n \in Nodes, Configure(n) PROVE PortInv'
    BY <1>5 DEF Configure
  <1>6. ASSUME NEW n \in Nodes, Crash(n) PROVE PortInv'
    BY <1>6 DEF Crash
  <1> QED
    BY <1>1, <1>2, <1>3, <1>4, <1>5, <1>6 DEF Next, Main

\* A run goes on behind its script only when that ended (lib.rs 571-618).
LEMMA StepStep ==
    ASSUME TypeOK, PortInv, StepInv, Next PROVE StepInv'
  <1>1. ASSUME NEW r \in Runs, Script(r), UNCHANGED nodeVars PROVE StepInv'
    <2>1. step # "python" => job \in Runs
      BY DEF TypeOK, PortInv
    <2>2. \A q \in Runs : script[q] # "running" => script'[q] = script[q]
      BY <1>1, ScriptFrame DEF TypeOK
    <2> QED
      BY <1>1, <2>1, <2>2 DEF StepInv, nodeVars
  <1>2. CASE Main
    BY <1>2 DEF Main, Start, Sweep, Bind, Configure, Crash, StepInv, pipeVars, runVars
  <1>3. CASE CancelJob
    <2>1. job \in Runs /\ script'[job] # "running"
      BY <1>3, KillFrame DEF CancelJob, TypeOK
    <2> QED
      BY <1>3, <2>1 DEF CancelJob, StepInv
  <1>4. CASE Jobs /\ ~CancelJob
    BY <1>4 DEF Jobs, BeginJob, PythonEnds, Upload, Cleanup, Drop, StepInv, PortInv, pipeVars, runVars
  <1> QED
    BY <1>1, <1>2, <1>3, <1>4 DEF Next, Scripts

\* What went wrong is never taken back.
LEMMA CausesGrow ==
    ASSUME TypeOK, Next PROVE causes \subseteq causes'
  <1>1. CASE Main
    BY <1>1 DEF Main, Start, Sweep, Bind, Configure, Crash, Remove, pipeVars
  <1>2. CASE Jobs
    BY <1>2 DEF Jobs, BeginJob, PythonEnds, Upload, CancelJob, Cleanup, Drop, Remove, pipeVars
  <1>3. CASE Scripts
    BY <1>3, ScriptFrame DEF Scripts, TypeOK
  <1> QED
    BY <1>1, <1>2, <1>3 DEF Next

\* Only the run in hand has a process at work, after every step as before it:
\* terminate_group and a container's death take the stage along (process.rs 19-37).
LEMMA WorkStep ==
    ASSUME IInv, Next PROVE WorkInv'
  <1> DEFINE Quiet == causes \subseteq {"left", "unwritten"}
  <1> SUFFICES ASSUME Quiet' PROVE \A q \in Runs : AtWork(q)' => q = job' /\ script'[q] = "running"
    BY DEF WorkInv
  <1>1. \A q \in Runs : AtWork(q) => q = job /\ script[q] = "running"
    BY CausesGrow DEF IInv, WorkInv
  <1>2. ASSUME NEW r \in Runs, Script(r), UNCHANGED nodeVars
        PROVE \A q \in Runs : AtWork(q)' => q = job' /\ script'[q] = "running"
    <2>1. AtWork(r) /\ script[r] = "running" /\ r = job /\ job' = job
      BY <1>1, <1>2 DEF Script, ListDatasets, StartStage, AllExtracted, NoProcess, Abandon, Finish,
            Extract, NoVideo, StageSucceeds, StageFails, AtWork, nodeVars
    <2>2. busy'[r] => script'[r] = "running"
      <3> USE DEF IInv, TypeOK, PipeTypes
      <3>1. CASE ListDatasets(r) \/ NoProcess(r) \/ Finish(r)
        <4>1. ~busy[r] /\ busy' = busy
          BY <3>1 DEF ListDatasets, NoProcess, Finish, PlaceInv, Stages
        <4> QED
          BY <4>1
      <3>2. CASE StartStage(r) \/ AllExtracted(r)
        BY <2>1, <3>2 DEF StartStage, AllExtracted
      <3>3. CASE Extract(r) \/ NoVideo(r) \/ StageSucceeds(r) \/ StageFails(r)
        BY <3>3 DEF Extract, NoVideo, StageSucceeds, StageFails, Returns, Reap
      <3>4. CASE Abandon(r)
        BY <3>4 DEF Abandon
      <3> QED
        BY <1>2, <3>1, <3>2, <3>3, <3>4 DEF Script
    <2> QED
      BY <1>1, <1>2, <2>1, <2>2, ScriptFrame DEF AtWork, IInv, TypeOK
  <1>3. ASSUME NEW rs \in SUBSET Runs, Kill(rs), job \in rs \/ job = None
        PROVE \A q \in Runs : ~AtWork(q)'
    BY <1>1, <1>3, KillFrame DEF AtWork, IInv, TypeOK
  <1>4. CASE UNCHANGED <<script, busy, job>>
    BY <1>1, <1>4 DEF AtWork
  <1>5. CASE Main
    <2>1. ASSUME NEW n \in Nodes, Crash(n), ~UNCHANGED <<script, busy, job>>
          PROVE \A q \in Runs : ~AtWork(q)'
      BY <1>3, <2>1 DEF Crash, IInv, TypeOK, pipeVars, runVars
    <2> QED
      BY <1>4, <1>5, <2>1 DEF Main, Start, Sweep, Bind, Configure, pipeVars, runVars
  <1>6. ASSUME NEW r \in Runs, BeginJob(r)
        PROVE \A q \in Runs : AtWork(q)' => q = job' /\ script'[q] = "running"
    <2>1. \A q \in Runs : ~AtWork(q)
      BY <1>1, <1>6 DEF BeginJob
    <2> QED
      BY <1>6, <2>1 DEF BeginJob, AtWork, IInv, TypeOK, PipeTypes
  <1>7. CASE CancelJob
    BY <1>3, <1>7 DEF CancelJob, IInv, TypeOK
  <1>8. CASE Cleanup
    <2>1. \A q \in Runs : ~AtWork(q)
      BY <1>1, <1>8 DEF Cleanup, IInv, StepInv
    <2> QED
      BY <1>8, <2>1 DEF Cleanup, AtWork, runVars
  <1>9. CASE Drop
    BY <1>9 DEF Drop
  <1>10. CASE PythonEnds \/ Upload
    BY <1>4, <1>10 DEF PythonEnds, Upload, pipeVars, runVars
  <1> QED
    BY <1>2, <1>5, <1>6, <1>7, <1>8, <1>9, <1>10 DEF Next, Jobs, Scripts

\* A step of run r is taken by the run in hand, if nothing is amiss.
LEMMA ScriptIsJob ==
    ASSUME IInv, causes \subseteq {"left", "unwritten"}, NEW r \in Runs, Script(r)
    PROVE r = job /\ script[r] = "running"
  <1>1. AtWork(r)
    BY DEF Script, ListDatasets, StartStage, AllExtracted, NoProcess, Abandon, Finish,
           Extract, NoVideo, StageSucceeds, StageFails, AtWork
  <1> QED
    BY <1>1 DEF IInv, WorkInv

\* What a step of run r writes.
LEMMA ScriptFiles ==
    ASSUME TypeOK, PlaceInv, NEW r \in Runs, Script(r)
    PROVE /\ \A k \in Files : \/ files'[k] = files[k]
                              \/ /\ r \in files'[k].by
                                 /\ files'[k].by \subseteq files[k].by \cup took[r].by \cup {r}
          /\ \/ took'[r] \in {took[r], Absent}
             \/ \E k \in Files : took'[r] = files[k]
  <1> DEFINE Wrote(k) == \/ files'[k] = files[k]
                         \/ /\ r \in files'[k].by
                            /\ files'[k].by \subseteq files[k].by \cup took[r].by \cup {r}
  <1>1. CASE ListDatasets(r) \/ AllExtracted(r) \/ NoProcess(r) \/ Abandon(r) \/ Finish(r)
    BY <1>1 DEF ListDatasets, AllExtracted, NoProcess, Abandon, Finish
  <1>2. CASE StartStage(r)
    <2>1. at[r] - 1 \in Files /\ took'[r] = files[at[r] - 1] /\ files' = files
      BY <1>2 DEF StartStage, Stages, Files, TypeOK, PipeTypes
    <2> QED
      BY <2>1
  <1>3. ASSUME NEW k \in Files, NEW f,
               r \in f.by, f.by \subseteq files[k].by \cup took[r].by \cup {r},
               files' = [files EXCEPT ![k] = f]
        PROVE \A l \in Files : Wrote(l)
    <2>1. files'[k] = f
      BY <1>3 DEF TypeOK, PipeTypes
    <2>2. \A l \in Files \ {k} : files'[l] = files[l]
      BY <1>3 DEF TypeOK, PipeTypes
    <2> QED
      BY <1>3, <2>1, <2>2
  <1>4. CASE Extract(r) \/ NoVideo(r) \/ StageSucceeds(r) \/ StageFails(r)
    <2>1. took'[r] = Absent
      BY <1>4 DEF Extract, NoVideo, StageSucceeds, StageFails, Returns, Reap, TypeOK, PipeTypes
    <2>2. busy[r]
      BY <1>4 DEF Extract, NoVideo, StageSucceeds, StageFails
    <2>3. at[r] \in Files /\ 1 \in Files
      BY <2>2 DEF PlaceInv, Stages, Files
    <2>4. CASE Extract(r)
      <3> DEFINE f(more) == File(files[1].by \cup took[r].by \cup {r}, files[1].of \cup more,
                                 files[1].whole)
      <3>1. PICK more : files' = [files EXCEPT ![1] = f(more)]
        BY <2>4 DEF Extract, Write
      <3>2. f(more).by = files[1].by \cup took[r].by \cup {r}
        BY DEF File
      <3> HIDE DEF f
      <3> QED
        BY <1>3, <2>1, <2>3, <3>1, <3>2
    <2>5. CASE NoVideo(r)
      BY <2>1, <2>5 DEF NoVideo
    <2>6. CASE StageSucceeds(r)
      <3> DEFINE f == File(took[r].by \cup {r}, took[r].of, took[r].whole)
      <3>1. files' = [files EXCEPT ![at[r]] = f]
        BY <2>6 DEF StageSucceeds, Write
      <3>2. f.by = took[r].by \cup {r}
        BY DEF File
      <3> HIDE DEF f
      <3> QED
        BY <1>3, <2>1, <2>3, <3>1, <3>2
    <2>7. CASE StageFails(r)
      <3> DEFINE f == File(files[at[r]].by \cup {r}, files[at[r]].of, FALSE)
      <3>1. files' = files \/ files' = [files EXCEPT ![at[r]] = f]
        BY <2>7 DEF StageFails, Torn
      <3>2. f.by = files[at[r]].by \cup {r}
        BY DEF File
      <3> HIDE DEF f
      <3> QED
        BY <1>3, <2>1, <2>3, <3>1, <3>2
    <2> QED
      BY <1>4, <2>4, <2>5, <2>6, <2>7
  <1> QED
    BY <1>1, <1>2, <1>4 DEF Script

\* What a kill leaves in the files.
LEMMA KillFiles ==
    ASSUME TypeOK, NEW rs \in SUBSET Runs, Kill(rs)
    PROVE \A k \in Files : \/ files'[k] = files[k]
                           \/ /\ files'[k].by # {}
                              /\ files'[k].by \subseteq files[k].by \cup {r \in rs : busy[r]}
  <1>1. PICK writers \in SUBSET {r \in rs : busy[r]} :
          files' = [k \in Files |-> Torn(k, {r \in writers : at[r] = k})]
    BY DEF Kill
  <1>2. ASSUME NEW k \in Files
        PROVE \/ files'[k] = files[k]
              \/ /\ files'[k].by # {}
                 /\ files'[k].by \subseteq files[k].by \cup {r \in rs : busy[r]}
    <2> DEFINE here == {r \in writers : at[r] = k}
    <2>1. files'[k] = Torn(k, here) /\ here \subseteq {r \in rs : busy[r]}
      BY <1>1
    <2>2. CASE here = {}
      BY <2>1, <2>2 DEF Torn
    <2>3. CASE here # {}
      <3>1. files'[k] = File(files[k].by \cup here, files[k].of, FALSE)
        BY <2>1, <2>3 DEF Torn
      <3>2. files'[k].by = files[k].by \cup here
        BY <3>1 DEF File
      <3> QED
        BY <2>1, <2>3, <3>2
    <2> QED
      BY <2>2, <2>3
  <1> QED
    BY <1>2

\* A removal that brings no cause leaves nothing.
LEMMA RemoveAll ==
    ASSUME TypeOK, NEW more, Remove(more), causes' = {}
    PROVE more = {} /\ \A k \in Files : files'[k].by = {} /\ files'[k] \in {files[k], Absent}
  <1>1. Absent.by = {}
    BY FileFields DEF Absent
  <1> QED
    BY <1>1 DEF Remove, Exists

\* No step puts a file of another run into a workspace that was swept (main.rs
\* 35-45) and is removed after every run (lib.rs 693-697).
LEMMA SweptStep ==
    ASSUME IInv, Next PROVE SweptInv'
  <1> SUFFICES ASSUME causes' = {}
               PROVE /\ Swept' => \A k \in Files : files'[k].by \subseteq {job'}
                     /\ \A q \in Runs : took'[q].by \subseteq {q}
    BY DEF SweptInv
  <1>0. causes = {} /\ TypeOK
    BY CausesGrow DEF IInv
  <1>1. Swept => \A k \in Files : files[k].by \subseteq {job}
    BY <1>0 DEF IInv, SweptInv
  <1>2. \A q \in Runs : took[q].by \subseteq {q}
    BY <1>0 DEF IInv, SweptInv
  <1>3. Absent.by = {}
    BY FileFields DEF Absent
  <1>4. \A k \in Files : files[k].by \subseteq Runs
    BY <1>0, Parts DEF TypeOK, PipeTypes
  <1>5. job # None => Swept
    BY DEF IInv, PortInv, Serving, Swept
  <1>6. ASSUME NEW r \in Runs, Script(r), UNCHANGED nodeVars
        PROVE /\ Swept' => \A k \in Files : files'[k].by \subseteq {job'}
              /\ \A q \in Runs : took'[q].by \subseteq {q}
    <2>1. r = job /\ job' = job /\ Swept
      BY <1>0, <1>5, <1>6, ScriptIsJob DEF nodeVars, TypeOK
    <2>2. PlaceInv /\ PipeTypes
      BY DEF IInv, TypeOK
    <2>3. \A k \in Files : files'[k].by \subseteq {job'}
      BY <1>0, <1>1, <1>2, <1>6, <2>1, <2>2, ScriptFiles
    <2>4. took'[r].by \subseteq {r}
      BY <1>0, <1>1, <1>2, <1>3, <1>6, <2>1, <2>2, ScriptFiles
    <2> QED
      BY <1>2, <1>6, <2>2, <2>3, <2>4, ScriptFrame
  <1>7. ASSUME NEW rs \in SUBSET Runs, Kill(rs) PROVE \A q \in Runs : took'[q].by \subseteq {q}
    BY <1>0, <1>2, <1>3, <1>7, KillFrame DEF TypeOK
  <1>8. ASSUME UNCHANGED <<files, took, job>>, Swept' => Swept
        PROVE /\ Swept' => \A k \in Files : files'[k].by \subseteq {job'}
              /\ \A q \in Runs : took'[q].by \subseteq {q}
    BY <1>1, <1>2, <1>8
  <1>9. ASSUME NEW n \in Nodes, Start(n) \/ Bind(n) \/ Configure(n)
        PROVE UNCHANGED <<files, took, job>> /\ (Swept' => Swept)
    BY <1>0, <1>9 DEF Start, Bind, Configure, pipeVars, runVars, Swept, TypeOK
  <1>10. ASSUME NEW n \in Nodes, Sweep(n)
         PROVE /\ \A k \in Files : files'[k].by \subseteq {job'}
               /\ \A q \in Runs : took'[q].by \subseteq {q}
    BY <1>0, <1>2, <1>10, RemoveAll DEF Sweep, runVars
  <1>11. ASSUME NEW n \in Nodes, Crash(n)
         PROVE /\ Swept' => \A k \in Files : files'[k].by \subseteq {job'}
               /\ \A q \in Runs : took'[q].by \subseteq {q}
    <2>1. CASE node[n] # "serving"
      <3>1. UNCHANGED <<files, took, job>> /\ (Swept' => Swept)
        BY <1>0, <1>11, <2>1 DEF Crash, pipeVars, runVars, Swept, TypeOK
      <3> QED
        BY <1>8, <3>1
    <2>2. CASE node[n] = "serving"
      <3>1. Kill(Runs) /\ job' = None /\ Unswept(n) = {} /\ node' = [node EXCEPT ![n] = "off"]
        BY <1>11, <2>2 DEF Crash
      <3>2. CASE job = None
        <4>1. \A r \in Runs : ~busy[r]
          BY <1>0, <3>2 DEF IInv, WorkInv, AtWork
        <4>2. \A k \in Files : files'[k] = files[k]
          <5>1. PICK writers \in SUBSET {r \in Runs : busy[r]} :
                  files' = [k \in Files |-> Torn(k, {r \in writers : at[r] = k})]
            BY <3>1 DEF Kill
          <5>2. writers = {}
            BY <4>1
          <5>3. \A k \in Files : files'[k] = Torn(k, {})
            BY <5>1, <5>2
          <5> QED
            BY <5>3 DEF Torn
        <4>3. Swept
          BY <2>2 DEF Swept
        <4> QED
          BY <1>1, <1>7, <3>1, <3>2, <4>2, <4>3
      <3>3. CASE job # None
        <4>1. \A o \in Nodes \ {n} : node[o] # "binding"
          BY <3>1, <3>3 DEF Unswept
        <4>2. \A o \in Nodes \ {n} : node[o] \notin {"configuring", "serving"}
          BY <2>2 DEF IInv, PortInv, Bound
        <4>3. ~Swept'
          BY <1>0, <3>1, <4>1, <4>2 DEF Swept, TypeOK
        <4> QED
          BY <1>7, <3>1, <4>3
      <3> QED
        BY <3>2, <3>3
    <2> QED
      BY <2>1, <2>2
  <1>12. ASSUME NEW r \in Runs, BeginJob(r)
         PROVE /\ Swept' => \A k \in Files : files'[k].by \subseteq {job'}
               /\ \A q \in Runs : took'[q].by \subseteq {q}
    <2>1. Swept /\ job = None
      BY <1>12 DEF BeginJob, Serving, Swept
    <2>2. \A k \in Files : files[k].by = {}
      BY <1>1, <1>4, <2>1
    <2>3. files' = [files EXCEPT ![0] = File(files[0].by \cup {r}, Datasets, files[0].whole)]
      BY <1>12 DEF BeginJob
    <2>4. \A k \in Files : files'[k].by \subseteq {r}
      BY <1>0, <2>2, <2>3, FileFields DEF TypeOK, PipeTypes, Files
    <2> QED
      BY <1>2, <1>12, <2>4 DEF BeginJob
  <1>13. CASE PythonEnds \/ Upload
    BY <1>8, <1>13 DEF PythonEnds, Upload, pipeVars, runVars, Swept
  <1>14. CASE CancelJob
    <2>1. Kill({job}) /\ job \in Runs /\ job' = job /\ Swept
      BY <1>0, <1>5, <1>14 DEF CancelJob, TypeOK
    <2>2. \A k \in Files : files'[k].by \subseteq {job}
      BY <1>0, <1>1, <2>1, KillFiles
    <2> QED
      BY <1>7, <2>1, <2>2
  <1>15. CASE Cleanup
    BY <1>0, <1>2, <1>15, RemoveAll DEF Cleanup, runVars
  <1>16. CASE Drop
    BY <1>16 DEF Drop
  <1> QED
    BY <1>6, <1>8, <1>9, <1>10, <1>11, <1>12, <1>13, <1>14, <1>15, <1>16
       DEF Next, Main, Jobs, Scripts

\* No step touches a dataset's video, so what a run should make stays the same.
LEMMA KindKept ==
    ASSUME TypeOK, Next PROVE kind' = kind /\ \A r \in Runs : Own(r)' = Own(r)
  <1>1. kind' = kind
    <2>1. CASE Main
      BY <2>1 DEF Main, Start, Sweep, Bind, Configure, Crash, pipeVars
    <2>2. CASE Jobs
      BY <2>2 DEF Jobs, BeginJob, PythonEnds, Upload, CancelJob, Cleanup, Drop, pipeVars
    <2>3. CASE Scripts
      BY <2>3, ScriptFrame DEF Scripts, TypeOK
    <2> QED
      BY <2>1, <2>2, <2>3 DEF Next
  <1> QED
    BY <1>1 DEF Own, Sound, File

\* What run r is at keeps what it needs.
LEMMA ScriptOwn ==
    ASSUME IInv, Next, causes' = {}, NEW r \in Runs, Script(r), UNCHANGED nodeVars
    PROVE /\ script'[r] = "running" => InputOf(r)'
          /\ script'[r] = "ok" => files'[6] \in {Absent, Own(r)}
  <1>0. causes = {} /\ TypeOK /\ PipeTypes /\ PlaceInv
    BY CausesGrow DEF IInv, TypeOK
  <1>1. r = job /\ script[r] = "running" /\ kind' = kind /\ Own(r)' = Own(r)
    BY <1>0, ScriptIsJob, KindKept
  <1>2. InputOf(r)
    BY <1>0, <1>1 DEF IInv, OwnInv, TypeOK
  <1>3. None \notin Sound /\ Sound \subseteq Datasets /\ Sound' = Sound
    BY <1>1 DEF Sound
  <1>4. files[1] \in Contents /\ files[0] \in Contents /\ at[r] \in 0..7
    BY <1>0 DEF PipeTypes, Files
  <1>20. \A a \in 0..7 : a > 1 => a # 0 /\ a # 1 /\ a - 1 \in Files /\ a - 1 # 0
    BY DEF Files
  <1>21. ASSUME at'[r] = 1, files'[0] = File({r}, Datasets, TRUE), scan'[r] \notin todo'[r],
                files'[1].of = Sound \ (todo'[r] \cup {scan'[r]}), files'[1].whole = TRUE,
                busy'[r] => took'[r] = files'[0]
         PROVE InputOf(r)'
    <2>1. 1 # 0 /\ ~(1 > 1) /\ 1 - 1 = 0
      OBVIOUS
    <2> QED
      BY <1>3, <1>21, <2>1 DEF InputOf, File
  <1>22. ASSUME at'[r] > 1, at'[r] \in 0..7, files'[0] = File({r}, Datasets, TRUE),
                files'[at'[r] - 1] \in {Absent, Own(r)},
                busy'[r] => took'[r] = files'[at'[r] - 1]
         PROVE InputOf(r)'
    <2>1. at'[r] # 0 /\ at'[r] # 1
      BY <1>20, <1>22
    <2>2. Absent' = Absent
      BY DEF Absent, File
    <2> QED
      BY <1>1, <1>22, <2>1, <2>2 DEF InputOf, File
  <1>23. files[0] = File({r}, Datasets, TRUE)
    BY <1>2 DEF InputOf
  <1>24. at[r] = 1 => /\ files[1].of = Sound \ (todo[r] \cup {scan[r]}) /\ files[1].whole = TRUE
                      /\ scan[r] \notin todo[r]
    BY <1>2 DEF InputOf
  <1>25. at[r] > 1 => files[at[r] - 1] \in {Absent, Own(r)}
    BY <1>2 DEF InputOf
  <1>26. busy[r] => took[r] = files[at[r] - 1]
    BY <1>2 DEF InputOf
  <1>27. \A k \in Files : files[k].by \subseteq {r} /\ (files[k].by = {} => files[k] = Absent)
    BY <1>0, <1>1 DEF IInv, SweptInv, OwnInv, PortInv, Serving, Swept
  <1>28. /\ Own(r).by = {r} /\ Own(r).of = Sound /\ Own(r).whole = TRUE
         /\ Absent.by = {} /\ Absent.of = {} /\ Absent.whole = TRUE
         /\ files[0].by = {r} /\ files[0].of = Datasets
    <2>1. /\ File({r}, Datasets, TRUE).by = {r} /\ File({r}, Datasets, TRUE).of = Datasets
      BY DEF File
    <2>2. Own(r).by = {r} /\ Own(r).of = Sound /\ Own(r).whole = TRUE
      BY DEF File, Own
    <2>3. Absent.by = {} /\ Absent.of = {} /\ Absent.whole = TRUE
      BY DEF File, Absent
    <2> QED
      BY <1>23, <2>1, <2>2, <2>3
  <1>5. CASE ListDatasets(r)
    <2>1. CASE Exists(files[0])
      <3>1. ~busy[r] /\ scan[r] = None
        BY <1>0, <1>5 DEF PlaceInv, ListDatasets, Stages
      <3>3. todo'[r] = Datasets /\ at'[r] = 1 /\ scan'[r] = None /\ ~busy'[r] /\ files' = files
        BY <1>0, <1>5, <1>28, <2>1, <3>1 DEF ListDatasets, PipeTypes
      <3>4. files[1] = Absent
        BY <1>2, <1>5 DEF InputOf, ListDatasets
      <3>6. Sound \ (Datasets \cup {None}) = {} /\ None \notin Datasets
        BY <1>3, PipelineAssumption
      <3>7. InputOf(r)'
        BY <1>21, <1>23, <1>28, <3>3, <3>4, <3>6
      <3> QED
        BY <1>1, <1>5, <2>1, <3>7 DEF ListDatasets
    <2>2. CASE ~Exists(files[0])
      BY <1>0, <1>5, <2>2 DEF ListDatasets, Exit, PipeTypes
    <2> QED
      BY <2>1, <2>2
  <1>6. CASE StartStage(r)
    <2>1. files' = files /\ at' = at /\ script' = script /\ took'[r] = files[at[r] - 1] /\ at[r] \in Stages
      BY <1>0, <1>6 DEF StartStage, PipeTypes
    <2>2. CASE at[r] = 1
      <3>1. scan[r] = None /\ 1 - 1 = 0
        BY <1>0, <1>6 DEF PlaceInv, StartStage
      <3>2. PICK d \in todo[r] : scan'[r] = d /\ todo'[r] = todo[r] \ {d}
        BY <1>0, <1>6, <2>2 DEF StartStage, PipeTypes
      <3>3. Sound \ (todo'[r] \cup {scan'[r]}) = Sound \ (todo[r] \cup {scan[r]})
        BY <1>3, <3>1, <3>2
      <3>4. InputOf(r)'
        BY <1>21, <1>23, <1>24, <2>1, <2>2, <3>1, <3>2, <3>3
      <3> QED
        BY <1>1, <2>1, <3>4
    <2>3. CASE at[r] # 1
      <3>1. at'[r] > 1
        BY <2>1, <2>3 DEF Stages
      <3>2. InputOf(r)'
        BY <1>4, <1>22, <1>23, <1>25, <2>1, <3>1
      <3> QED
        BY <1>1, <2>1, <3>2
    <2> QED
      BY <2>2, <2>3
  <1>7. CASE AllExtracted(r)
    <2>1. /\ files' = files /\ at'[r] = 2 /\ script' = script /\ ~busy'[r]
          /\ ~busy[r] /\ at[r] = 1 /\ todo[r] = {}
      BY <1>0, <1>7 DEF AllExtracted, PipeTypes
    <2>2. scan[r] = None
      BY <1>0, <2>1 DEF PlaceInv
    <2>3. Sound \ ({} \cup {None}) = Sound
      BY <1>3
    <2>4. files[1].of = Sound /\ files[1].whole = TRUE
      BY <1>24, <2>1, <2>2, <2>3
    <2>5. files[1] \in {Absent, Own(r)}
      <3>1. files[1].by \subseteq {r} /\ (files[1].by = {} => files[1] = Absent)
        BY <1>27 DEF Files
      <3>2. CASE files[1].by = {r}
        BY <1>4, <2>4, <3>2, Parts DEF Own
      <3> QED
        BY <3>1, <3>2
    <2>6. 2 - 1 = 1 /\ 2 > 1 /\ 2 \in 0..7
      OBVIOUS
    <2>7. InputOf(r)'
      BY <1>22, <1>23, <2>1, <2>5, <2>6
    <2> QED
      BY <1>1, <2>1, <2>7
  <1>8. CASE NoProcess(r) \/ Abandon(r)
    BY <1>0, <1>8 DEF NoProcess, Abandon, Exit, PipeTypes
  <1>9. CASE Finish(r)
    <2>1. files' = files /\ script'[r] = "ok" /\ at[r] = 7
      BY <1>0, <1>9 DEF Finish, Exit, PipeTypes
    <2>2. 7 - 1 = 6 /\ 7 > 1
      OBVIOUS
    <2> QED
      BY <1>25, <2>1, <2>2
  <1>10. CASE Extract(r)
    <2>1. at[r] = 1 /\ busy[r] /\ Returns(r, TRUE)
      BY <1>10 DEF Extract
    <2>2. /\ at'[r] = 1 /\ script' = script /\ todo' = todo /\ scan'[r] = None /\ ~busy'[r]
      BY <1>0, <1>1, <2>1 DEF Returns, Advance, Reap, PipeTypes
    <2> DEFINE more == IF kind[scan[r]] = "whole" THEN {scan[r]} ELSE {}
               f == File(files[1].by \cup took[r].by \cup {r}, files[1].of \cup more, files[1].whole)
    <2>3. files' = [files EXCEPT ![1] = f]
      <3>1. causes' # causes \cup {"unwritten"}
        OBVIOUS
      <3> QED
        BY <1>10, <3>1 DEF Extract, Write
    <2>4. f.of = files[1].of \cup more /\ f.whole = files[1].whole
      BY FileFields
    <2> HIDE DEF f
    <2>5. files'[1] = f /\ files'[0] = files[0]
      BY <1>0, <2>3 DEF PipeTypes, Files
    <2>6. scan[r] \in Datasets
      BY <1>0, <2>1 DEF PlaceInv, PipeTypes
    <2>7. more = {scan[r]} \cap Sound
      BY <2>6 DEF Sound
    <2> HIDE DEF more
    <2>8. (Sound \ (todo[r] \cup {scan[r]})) \cup more = Sound \ (todo[r] \cup {None})
      BY <1>3, <1>24, <2>1, <2>7
    <2>9. None \notin todo[r]
      BY <1>0, PipelineAssumption DEF PipeTypes
    <2>10. InputOf(r)'
      BY <1>21, <1>23, <1>24, <2>1, <2>2, <2>4, <2>5, <2>8, <2>9
    <2> QED
      BY <1>1, <2>2, <2>10
  <1>11. CASE NoVideo(r)
    <2>1. at[r] = 1 /\ busy[r] /\ Returns(r, Exists(files[1])) /\ files' = files
      BY <1>11 DEF NoVideo
    <2>2. took[r] = files[0]
      BY <1>26, <2>1
    <2>3. Exists(took[r])
      BY <1>28, <2>2 DEF Exists
    <2>4. kind[scan[r]] = "none"
      BY <1>11, <2>3 DEF NoVideo
    <2>5. scan[r] \notin Sound
      BY <2>4 DEF Sound
    <2>6. CASE Exists(files[1])
      <3>1. /\ at'[r] = 1 /\ script' = script /\ todo' = todo /\ scan'[r] = None /\ ~busy'[r]
        BY <1>0, <1>1, <2>1, <2>6 DEF Returns, Advance, Reap, PipeTypes
      <3>2. Sound \ (todo[r] \cup {scan[r]}) = Sound \ (todo[r] \cup {None})
        BY <1>3, <2>5
      <3>3. None \notin todo[r]
        BY <1>0, PipelineAssumption DEF PipeTypes
      <3>4. InputOf(r)'
        BY <1>21, <1>23, <1>24, <2>1, <3>1, <3>2, <3>3
      <3> QED
        BY <1>1, <3>1, <3>4
    <2>7. CASE ~Exists(files[1])
      BY <1>0, <1>1, <2>1, <2>7 DEF Returns, PipeTypes
    <2> QED
      BY <2>6, <2>7
  <1>12. CASE StageSucceeds(r)
    <2>1. /\ at[r] > 1 /\ busy[r] /\ Returns(r, TRUE) /\ Exists(took[r])
          /\ files' = [files EXCEPT ![at[r]] = File(took[r].by \cup {r}, took[r].of, took[r].whole)]
      BY <1>12 DEF StageSucceeds, Write
    <2>2. at[r] \in Stages
      BY <1>0, <2>1 DEF PlaceInv
    <2>3. took[r] = Own(r)
      BY <1>25, <1>26, <1>28, <2>1 DEF Exists
    <2>4. File(took[r].by \cup {r}, took[r].of, took[r].whole) = Own(r)
      <3>1. took[r].by \cup {r} = {r} /\ took[r].of = Sound /\ took[r].whole = TRUE
        BY <1>28, <2>3
      <3> QED
        BY <3>1 DEF Own
    <2>5. at[r] \in Files /\ at[r] # 0 /\ at[r] + 1 > 1 /\ at[r] + 1 \in 0..7 /\ (at[r] + 1) - 1 = at[r]
      BY <2>1, <2>2 DEF Stages, Files
    <2>6. files'[at[r]] = Own(r) /\ files'[0] = files[0]
      BY <1>0, <2>1, <2>4, <2>5 DEF PipeTypes, Files
    <2>7. /\ at'[r] = at[r] + 1 /\ script' = script /\ ~busy'[r]
      BY <1>0, <1>1, <2>1 DEF Returns, Advance, Reap, PipeTypes
    <2>8. InputOf(r)'
      BY <1>22, <1>23, <2>5, <2>6, <2>7
    <2> QED
      BY <1>1, <2>7, <2>8
  <1>13. CASE StageFails(r)
    <2>1. Returns(r, FALSE)
      BY <1>13 DEF StageFails
    <2> QED
      BY <1>0, <1>1, <2>1 DEF Returns, PipeTypes
  <1> QED
    BY <1>5, <1>6, <1>7, <1>8, <1>9, <1>10, <1>11, <1>12, <1>13 DEF Script

\* Every step keeps the run's outputs its own, and what is uploaded is one of them.
LEMMA OwnStep ==
    ASSUME IInv, Next PROVE OwnInv'
  <1> DEFINE Uploads == \A r \in Runs : uploaded'[r] \in {Absent, Own(r)}
             Blank == \A k \in Files : files'[k].by = {} => files'[k] = Absent
             Input == \A r \in Runs : script'[r] = "running" => InputOf(r)'
             Splat == \A r \in Runs : r = job' /\ script'[r] = "ok" /\ step' # "cleanup"
                                         => files'[6] \in {Absent, Own(r)}
             Goal == Uploads /\ Blank /\ Input /\ Splat
  <1> SUFFICES ASSUME causes' = {} PROVE Goal
    <2>1. \A r \in Runs : Own(r)' = Own(r)
      BY KindKept DEF IInv
    <2> QED
      BY <2>1 DEF OwnInv
  <1>0. causes = {} /\ TypeOK /\ PipeTypes /\ PlaceInv
    BY CausesGrow DEF IInv, TypeOK
  <1>1. \A r \in Runs : uploaded[r] \in {Absent, Own(r)}
    BY <1>0 DEF IInv, OwnInv
  <1>2. \A k \in Files : files[k].by = {} => files[k] = Absent
    BY <1>0 DEF IInv, OwnInv
  <1>3. \A r \in Runs : script[r] = "running" => InputOf(r) /\ r = job
    BY <1>0 DEF IInv, OwnInv, WorkInv, AtWork
  <1>4. \A r \in Runs : r = job /\ script[r] = "ok" /\ step # "cleanup"
                          => files[6] \in {Absent, Own(r)}
    BY <1>0 DEF IInv, OwnInv
  <1>30. None \notin Runs
    OBVIOUS
  <1>5. kind' = kind /\ Sound' = Sound /\ \A r \in Runs : Own(r)' = Own(r)
    BY <1>0, KindKept DEF Sound
  <1>6. ASSUME NEW r \in Runs, Script(r), UNCHANGED nodeVars PROVE Goal
    <2>1. r = job /\ job' = job /\ job \in Runs /\ uploaded' = uploaded /\ step' = step
      BY <1>0, <1>6, ScriptIsJob DEF nodeVars
    <2>2. Blank
      BY <1>0, <1>2, <1>6, ScriptFiles
    <2>3. \A q \in Runs \ {r} : script'[q] = script[q]
      BY <1>0, <1>6, ScriptFrame
    <2>4. Input /\ Splat
      BY <1>3, <1>6, <2>1, <2>3, ScriptOwn
    <2> QED
      BY <1>1, <2>1, <2>2, <2>4
  <1>31. ASSUME UNCHANGED pipeVars PROVE Input
    BY <1>3, <1>5, <1>31 DEF pipeVars, runVars, InputOf
  <1>7. ASSUME UNCHANGED <<pipeVars, job, uploaded>>, step' = step PROVE Goal
    <2>1. UNCHANGED <<files, script>> /\ Input
      BY <1>7, <1>31 DEF pipeVars, runVars
    <2> QED
      BY <1>1, <1>2, <1>4, <1>7, <2>1
  <1>8. ASSUME NEW n \in Nodes, Start(n) \/ Bind(n) \/ Configure(n) PROVE Goal
    <2>1. UNCHANGED <<pipeVars, job, uploaded>> /\ step' = step
      BY <1>8 DEF Start, Bind, Configure
    <2> QED
      BY <1>7, <2>1
  <1>9. ASSUME NEW n \in Nodes, Sweep(n) PROVE Goal
    <2>1. Blank /\ job = None /\ job' = None /\ uploaded' = uploaded /\ script' = script
      BY <1>0, <1>2, <1>9, RemoveAll DEF Sweep, runVars
    <2> QED
      BY <1>1, <1>3, <1>30, <2>1
  <1>10. ASSUME NEW rs \in SUBSET Runs, Kill(rs) PROVE Blank
    BY <1>0, <1>2, <1>10, KillFiles
  <1>11. ASSUME NEW n \in Nodes, Crash(n) PROVE Goal
    <2>1. CASE node[n] # "serving"
      <3>1. UNCHANGED <<pipeVars, job, uploaded>> /\ step' = step
        BY <1>11, <2>1 DEF Crash
      <3> QED
        BY <1>7, <3>1
    <2>2. CASE node[n] = "serving"
      <3>1. Kill(Runs) /\ job' = None /\ uploaded' = uploaded
        BY <1>11, <2>2 DEF Crash
      <3>2. Blank
        BY <1>10, <3>1
      <3>3. \A r \in Runs : script'[r] # "running"
        BY <3>1 DEF Kill
      <3> QED
        BY <1>1, <1>30, <3>1, <3>2, <3>3
    <2> QED
      BY <2>1, <2>2
  <1>12. ASSUME NEW r \in Runs, BeginJob(r) PROVE Goal
    <2> DEFINE f == File(files[0].by \cup {r}, Datasets, files[0].whole)
    <2>1. /\ job = None /\ job' = r /\ r # None /\ script' = [script EXCEPT ![r] = "running"]
          /\ script[r] = "none" /\ files' = [files EXCEPT ![0] = f]
          /\ UNCHANGED <<at, todo, scan, busy, took, uploaded>>
      BY <1>12 DEF BeginJob
    <2>2. \A k \in Files : files[k] = Absent
      <3>1. \A k \in Files : files[k].by \subseteq {job}
        BY <1>0, <1>12 DEF IInv, SweptInv, Swept, BeginJob, Serving
      <3>2. \A k \in Files : files[k].by \subseteq Runs
        BY <1>0, Parts DEF PipeTypes
      <3>3. \A k \in Files : files[k].by = {}
        BY <2>1, <3>1, <3>2
      <3> QED
        BY <1>2, <3>3
    <2>3. 0 \in Files /\ 1 \in Files /\ 0 # 1 /\ ~(0 > 1)
      BY DEF Files
    <2>4. f = File({r}, Datasets, TRUE)
      <3>1. Absent.by = {} /\ Absent.whole = TRUE
        BY DEF Absent, File
      <3>2. files[0].by \cup {r} = {r} /\ files[0].whole = TRUE
        BY <2>2, <2>3, <3>1
      <3> QED
        BY <3>2
    <2>5. f.by = {r}
      BY <2>4 DEF File
    <2> HIDE DEF f
    <2>6. files'[0] = f /\ \A k \in Files \ {0} : files'[k] = files[k]
      BY <1>0, <2>1, <2>3 DEF PipeTypes
    <2>7. Blank
      BY <1>2, <2>5, <2>6
    <2>8. at'[r] = 0 /\ ~busy'[r]
      <3>1. ~busy[r]
        BY <1>0, <2>1 DEF IInv, WorkInv, AtWork
      <3> QED
        BY <1>0, <2>1, <3>1 DEF PlaceInv
    <2>9. files'[1] = Absent
      BY <2>2, <2>3, <2>6
    <2>10. InputOf(r)'
      BY <2>3, <2>4, <2>6, <2>8, <2>9 DEF InputOf, File, Absent
    <2>11. script'[r] = "running" /\ \A q \in Runs \ {r} : script'[q] = script[q]
      BY <1>0, <2>1 DEF PipeTypes
    <2>12. Input
      BY <1>3, <1>30, <2>1, <2>10, <2>11
    <2>13. Splat
      BY <2>1, <2>11
    <2> QED
      BY <1>1, <2>1, <2>7, <2>12, <2>13
  <1>13. CASE PythonEnds
    <2>1. UNCHANGED <<pipeVars, job, uploaded>> /\ step = "python"
      BY <1>13 DEF PythonEnds
    <2>2. Input
      BY <1>31, <2>1
    <2>3. Splat
      BY <1>4, <2>1 DEF pipeVars, runVars
    <2> QED
      BY <1>1, <1>2, <2>1, <2>2, <2>3 DEF pipeVars
  <1>14. CASE Upload
    <2>1. UNCHANGED <<pipeVars, job>> /\ step = "upload" /\ step' = "cleanup" /\ job # None
      BY <1>14 DEF Upload
    <2>2. script[job] = "ok" /\ job \in Runs
      BY <1>0, <2>1 DEF IInv, StepInv, TypeOK
    <2>3. files[6] \in {Absent, Own(job)}
      BY <1>4, <2>1, <2>2
    <2>4. uploaded' \in {uploaded, [uploaded EXCEPT ![job] = files[6]]}
      BY <1>14 DEF Upload
    <2>5. Uploads
      BY <1>0, <1>1, <2>2, <2>3, <2>4 DEF TypeOK
    <2>6. Input /\ Splat
      BY <1>31, <2>1
    <2> QED
      BY <1>2, <2>1, <2>5, <2>6 DEF pipeVars
  <1>15. CASE CancelJob
    <2>1. Kill({job}) /\ job \in Runs /\ job' = job /\ uploaded' = uploaded /\ script[job] = "running"
      BY <1>0, <1>15 DEF CancelJob, TypeOK
    <2>2. script'[job] = "dead" /\ \A r \in Runs \ {job} : script'[r] # "running"
      BY <1>3, <2>1 DEF Kill
    <2>3. Blank
      BY <1>10, <2>1
    <2> QED
      BY <1>1, <2>1, <2>2, <2>3
  <1>16. CASE Cleanup
    <2>1. /\ Blank /\ job # None /\ job' = None /\ uploaded' = uploaded /\ script' = script
          /\ step = "cleanup"
      BY <1>0, <1>2, <1>16, RemoveAll DEF Cleanup, runVars
    <2>2. \A r \in Runs : script[r] # "running"
      BY <1>3, <2>1 DEF IInv, StepInv
    <2> QED
      BY <1>1, <1>30, <2>1, <2>2
  <1>17. CASE Drop
    BY <1>17 DEF Drop
  <1> QED
    BY <1>6, <1>8, <1>9, <1>11, <1>12, <1>13, <1>14, <1>15, <1>16, <1>17
       DEF Next, Main, Jobs, Scripts

\* Behind the second stage, the input of run r stays of its making.
LEMMA ScriptHand ==
    ASSUME TypeOK, PipeTypes, PlaceInv, NEW r \in Runs, Script(r), script[r] = "running",
           at[r] > 2 => r \in files[at[r] - 1].by
    PROVE /\ script'[r] = "running" /\ at'[r] > 2 => r \in files'[at'[r] - 1].by
          /\ script'[r] = "ok" => r \in files'[6].by
  <1>1. CASE ListDatasets(r) \/ NoProcess(r) \/ Abandon(r)
    <2>1. script'[r] = "running" => at'[r] = 1
      BY <1>1 DEF ListDatasets, NoProcess, Abandon, Exit, PipeTypes
    <2>2. script'[r] # "ok" /\ ~(1 > 2)
      BY <1>1 DEF ListDatasets, NoProcess, Abandon, Exit, PipeTypes
    <2> QED
      BY <2>1, <2>2
  <1>2. CASE StartStage(r)
    BY <1>2 DEF StartStage
  <1>3. CASE AllExtracted(r)
    <2>1. at'[r] = 2 /\ ~(2 > 2) /\ script'[r] # "ok"
      BY <1>3 DEF AllExtracted, PipeTypes
    <2> QED
      BY <2>1
  <1>4. CASE Finish(r)
    <2>1. files' = files /\ script'[r] = "ok" /\ at[r] = 7
      BY <1>4 DEF Finish, Exit, PipeTypes
    <2>2. 7 - 1 = 6 /\ 7 > 2
      OBVIOUS
    <2> QED
      BY <2>1, <2>2
  <1>5. CASE Extract(r) \/ NoVideo(r)
    <2>1. at[r] = 1 /\ \E ok \in BOOLEAN : Returns(r, ok)
      BY <1>5 DEF Extract, NoVideo, Exists
    <2>2. script'[r] = "running" => at'[r] = 1
      BY <2>1 DEF Returns, Advance, PipeTypes
    <2>3. script'[r] # "ok" /\ ~(1 > 2)
      BY <2>1 DEF Returns, Advance, PipeTypes
    <2> QED
      BY <2>2, <2>3
  <1>6. CASE StageSucceeds(r)
    <2> DEFINE f == File(took[r].by \cup {r}, took[r].of, took[r].whole)
    <2>1. at[r] > 1 /\ busy[r] /\ Returns(r, TRUE) /\ files' = [files EXCEPT ![at[r]] = f]
      BY <1>6 DEF StageSucceeds, Write
    <2>2. f.by = took[r].by \cup {r}
      BY DEF File
    <2> HIDE DEF f
    <2>3. at[r] \in Stages
      BY <2>1 DEF PlaceInv
    <2>4. at[r] \in Files /\ (at[r] + 1) - 1 = at[r]
      BY <2>3 DEF Stages, Files
    <2>5. files'[at[r]] = f
      BY <2>1, <2>4 DEF PipeTypes
    <2>6. at'[r] = at[r] + 1 /\ script'[r] # "ok"
      BY <2>1 DEF Returns, Advance, PipeTypes
    <2> QED
      BY <2>2, <2>4, <2>5, <2>6
  <1>7. CASE StageFails(r)
    <2>1. Returns(r, FALSE)
      BY <1>7 DEF StageFails
    <2> QED
      BY <2>1 DEF Returns, PipeTypes
  <1> QED
    BY <1>1, <1>2, <1>3, <1>4, <1>5, <1>6, <1>7 DEF Script

\* Every step keeps the run's hand in what it uploads.
LEMMA HandStep ==
    ASSUME IInv, Next PROVE HandInv'
  <1> DEFINE Uploads == \A r \in Runs : uploaded'[r] # Absent => r \in uploaded'[r].by
             Behind == \A r \in Runs : script'[r] = "running" /\ at'[r] > 2
                                          => r \in files'[at'[r] - 1].by
             Splat == job' # None /\ script'[job'] = "ok" /\ step' # "cleanup"
                        => job' \in files'[6].by
             Goal == Uploads /\ Behind /\ Splat
  <1> SUFFICES ASSUME causes' \subseteq {"left", "unwritten"} PROVE Goal
    BY DEF HandInv
  <1>0. causes \subseteq {"left", "unwritten"} /\ TypeOK /\ PipeTypes /\ PlaceInv
    BY CausesGrow DEF IInv, TypeOK
  <1>1. \A r \in Runs : uploaded[r] # Absent => r \in uploaded[r].by
    BY <1>0 DEF IInv, HandInv
  <1>2. \A r \in Runs : script[r] = "running" /\ at[r] > 2 => r \in files[at[r] - 1].by
    BY <1>0 DEF IInv, HandInv
  <1>3. job # None /\ script[job] = "ok" /\ step # "cleanup" => job \in files[6].by
    BY <1>0 DEF IInv, HandInv
  <1>4. \A r \in Runs : script[r] = "running" => r = job
    BY <1>0 DEF IInv, WorkInv, AtWork
  <1>5. None \notin Runs
    OBVIOUS
  <1>6. ASSUME NEW r \in Runs, Script(r), UNCHANGED nodeVars PROVE Goal
    <2>1. r = job /\ job' = job /\ uploaded' = uploaded /\ step' = step /\ script[r] = "running"
      BY <1>0, <1>6, ScriptIsJob DEF nodeVars
    <2>2. /\ script'[r] = "running" /\ at'[r] > 2 => r \in files'[at'[r] - 1].by
          /\ script'[r] = "ok" => r \in files'[6].by
      BY <1>0, <1>2, <1>6, <2>1, ScriptHand
    <2>3. \A q \in Runs \ {r} : script'[q] = script[q]
      BY <1>0, <1>6, ScriptFrame
    <2> QED
      BY <1>1, <1>4, <2>1, <2>2, <2>3
  <1>7. ASSUME UNCHANGED <<pipeVars, job, uploaded>>, step' = step PROVE Goal
    BY <1>1, <1>2, <1>3, <1>7 DEF pipeVars, runVars
  <1>8. ASSUME NEW n \in Nodes, Start(n) \/ Bind(n) \/ Configure(n) PROVE Goal
    <2>1. UNCHANGED <<pipeVars, job, uploaded>> /\ step' = step
      BY <1>8 DEF Start, Bind, Configure
    <2> QED
      BY <1>7, <2>1
  <1>9. ASSUME NEW n \in Nodes, Sweep(n) PROVE Goal
    <2>1. job = None /\ job' = None /\ uploaded' = uploaded /\ script' = script
      BY <1>9 DEF Sweep, Remove, runVars
    <2> QED
      BY <1>1, <1>4, <1>5, <2>1
  <1>10. ASSUME NEW n \in Nodes, Crash(n) PROVE Goal
    <2>1. CASE node[n] # "serving"
      <3>1. UNCHANGED <<pipeVars, job, uploaded>> /\ step' = step
        BY <1>10, <2>1 DEF Crash
      <3> QED
        BY <1>7, <3>1
    <2>2. CASE node[n] = "serving"
      <3>1. Kill(Runs) /\ job' = None /\ uploaded' = uploaded
        BY <1>10, <2>2 DEF Crash
      <3>2. \A r \in Runs : script'[r] # "running"
        BY <3>1 DEF Kill
      <3> QED
        BY <1>1, <3>1, <3>2
    <2> QED
      BY <2>1, <2>2
  <1>11. ASSUME NEW r \in Runs, BeginJob(r) PROVE Goal
    <2>1. /\ job = None /\ job' = r /\ script' = [script EXCEPT ![r] = "running"]
          /\ script[r] = "none" /\ UNCHANGED <<at, uploaded>>
      BY <1>11 DEF BeginJob
    <2>2. at'[r] = 0 /\ ~(0 > 2)
      BY <1>0, <2>1 DEF PlaceInv
    <2>3. script'[r] = "running" /\ \A q \in Runs \ {r} : script'[q] # "running"
      BY <1>0, <1>4, <1>5, <2>1 DEF PipeTypes
    <2> QED
      BY <1>1, <2>1, <2>2, <2>3
  <1>12. CASE PythonEnds
    <2>1. UNCHANGED <<pipeVars, job, uploaded>> /\ step = "python"
      BY <1>12 DEF PythonEnds
    <2> QED
      BY <1>1, <1>2, <1>3, <2>1 DEF pipeVars, runVars
  <1>13. CASE Upload
    <2>1. UNCHANGED <<pipeVars, job>> /\ step = "upload" /\ step' = "cleanup" /\ job # None
      BY <1>13 DEF Upload
    <2>2. script[job] = "ok" /\ job \in Runs
      BY <1>0, <2>1 DEF IInv, StepInv, TypeOK
    <2>3. job \in files[6].by
      BY <1>3, <2>1, <2>2
    <2>4. uploaded' \in {uploaded, [uploaded EXCEPT ![job] = files[6]]}
      BY <1>13 DEF Upload
    <2>5. Uploads
      BY <1>0, <1>1, <2>2, <2>3, <2>4 DEF TypeOK
    <2> QED
      BY <1>2, <2>1, <2>2, <2>5 DEF pipeVars, runVars
  <1>14. CASE CancelJob
    <2>1. Kill({job}) /\ job \in Runs /\ job' = job /\ uploaded' = uploaded /\ script[job] = "running"
      BY <1>0, <1>14 DEF CancelJob, TypeOK
    <2>2. script'[job] = "dead" /\ \A q \in Runs \ {job} : script'[q] # "running"
      BY <1>4, <2>1 DEF Kill
    <2> QED
      BY <1>1, <2>1, <2>2
  <1>15. CASE Cleanup
    <2>1. /\ job # None /\ job' = None /\ uploaded' = uploaded /\ script' = script
          /\ step = "cleanup"
      BY <1>15 DEF Cleanup, runVars
    <2>2. \A r \in Runs : script[r] # "running"
      BY <1>4, <2>1 DEF IInv, StepInv
    <2> QED
      BY <1>1, <2>1, <2>2
  <1>16. CASE Drop
    BY <1>16 DEF Drop
  <1> QED
    BY <1>6, <1>8, <1>9, <1>10, <1>11, <1>12, <1>13, <1>14, <1>15, <1>16
       DEF Next, Main, Jobs, Scripts

\* The inductive invariant holds in every state, for any number of processes,
\* runs and datasets.
THEOREM Invariance == Spec => []IInv
  <1>1. Init => IInv
    <2> SUFFICES ASSUME Init PROVE IInv
      OBVIOUS
    <2>1. TypeOK
      BY AbsentType DEF Init, PipeInit, TypeOK, PipeTypes
    <2>2. PlaceInv /\ PortInv /\ StepInv
      BY DEF Init, PipeInit, PlaceInv, PortInv, StepInv, Bound
    <2>3. \A k \in Files : files[k] = Absent
      BY DEF Init, PipeInit
    <2>4. Absent.by = {}
      BY FileFields DEF Absent
    <2>5. WorkInv /\ SweptInv
      BY <2>3, <2>4 DEF Init, PipeInit, WorkInv, AtWork, SweptInv, Swept
    <2>6. OwnInv /\ HandInv
      BY <2>3 DEF Init, PipeInit, OwnInv, HandInv
    <2> QED
      BY <2>1, <2>2, <2>5, <2>6 DEF IInv
  <1>2. IInv /\ [Next]_vars => IInv'
    <2> SUFFICES ASSUME IInv, [Next]_vars PROVE IInv'
      OBVIOUS
    <2>1. CASE Next
      <3>1. TypeOK' /\ PlaceInv' /\ PortInv' /\ StepInv'
        BY <2>1, TypeStep, PlaceStep, PortStep, StepStep DEF IInv
      <3> QED
        BY <2>1, <3>1, WorkStep, SweptStep, OwnStep, HandStep DEF IInv
    <2>2. CASE UNCHANGED vars
      <3>1. TypeOK' /\ PlaceInv' /\ PortInv' /\ StepInv'
        BY <2>2 DEF vars, pipeVars, runVars, nodeVars, IInv, TypeOK, PipeTypes, PlaceInv, PortInv,
                    Bound, Serving, StepInv
      <3>2. WorkInv' /\ SweptInv'
        BY <2>2 DEF vars, pipeVars, runVars, nodeVars, IInv, WorkInv, AtWork, SweptInv, Swept
      <3>3. HandInv'
        BY <2>2 DEF vars, pipeVars, runVars, nodeVars, IInv, HandInv
      <3>4. /\ UNCHANGED <<files, at, todo, scan, busy, took, causes, script, job, step, uploaded>>
            /\ Sound' = Sound /\ \A r \in Runs : Own(r)' = Own(r)
        BY <2>2 DEF vars, pipeVars, runVars, nodeVars, Own, Sound, File
      <3>5. \A r \in Runs : InputOf(r)' = InputOf(r)
        BY <3>4 DEF InputOf
      <3>6. OwnInv'
        BY <3>4, <3>5 DEF IInv, OwnInv
      <3> QED
        BY <3>1, <3>2, <3>3, <3>6 DEF IInv
    <2> QED
      BY <2>1, <2>2
  <1> QED
    BY <1>1, <1>2, PTL DEF Spec

\* Every variable keeps its type, and only a run that ended well uploads a splat.
THEOREM Typed == Spec => []TypeOK
  <1>1. IInv => TypeOK
    BY DEF IInv
  <1> QED
    BY <1>1, Invariance, PTL

\* While nothing went wrong that the code cannot put right, the run in hand is
\* alone in its workspace, with its own files only (main.rs 26-45, lib.rs
\* 693-697, process.rs 19-37).
THEOREM Alone == Spec => []AloneInWorkspace
  <1>1. IInv => AloneInWorkspace
    BY DEF IInv, AloneInWorkspace, WorkInv, SweptInv, Swept, PortInv, Serving
  <1> QED
    BY <1>1, Invariance, PTL

\* A splat that is uploaded is then made by its run alone, of every dataset with
\* a sound video and of nothing half-written (run.py 149-205).
THEOREM Owned == Spec => []SplatIsOwn
  <1>1. IInv => SplatIsOwn
    BY DEF IInv, SplatIsOwn, OwnInv
  <1> QED
    BY <1>1, Invariance, PTL

\* And even in a workspace that was not removed, it is no old one (run.py 153-205).
THEOREM Fresh == Spec => []NoOldSplat
  <1>1. IInv => NoOldSplat
    BY DEF IInv, NoOldSplat, HandInv
  <1> QED
    BY <1>1, Invariance, PTL
=============================================================================
