# A TLA+ model of the splatter node

The node (`src/server/rust`) is a compute worker: it claims tasks from the task
service (DMS), fetches their inputs from a Domain, runs a Python pipeline that
turns recordings into a Gaussian splat, uploads the splat and reports the
outcome. These modules model its control logic, TLC checks them on small
instances, and TLAPS proves the safety properties for all instances.

## 1. Inventory

| Component | Source | State | Operations | Talks to |
|---|---|---|---|---|
| Host loop | `node-host/src/host.rs` | two cancellation tokens, the claim in flight, the lease in hand | `run`, `run_with_shutdown`, `claim_loop`, `watch_signals` | DMS through the SDK, the operating system's signals, `Router` |
| Back-off | `host.rs`, bounds from `config.rs` | the two bounds | `jittered_delay_ms` | the clock |
| Router, receipts | `node-host/src/router.rs` | capability table; per task a `TaskIo` | `Router::run`, `fail`, `truncate` | runner, DMS receipt |
| Domain access | `node-host/src/io.rs` | uploads recorded per logical path; a download root per `materialize` | `materialize` (`parse_cid`, `download`), `list`, `find`, `download_to`, `put_domain_artifact`, `put_bytes` | Domain server, temp directory |
| Runner | `runner/src/lib.rs` | workspace on disk, downloaded names, counters, progress | `HelloRunner::run` | `TaskIo`, Python job, DMS progress |
| Python job | `runner/src/lib.rs` 494-592, `node-host/src/process.rs` | child, two pipes, process group | spawn, read loop, `terminate_group`, drop | kernel, `run.py` and its stages |
| Pipeline | `run.py` and helper scripts | files in the workspace | six stages, each a subprocess of `run_cmd` | nerfstudio, COLMAP |
| Start-up | `bin/src/main.rs` | workspaces under `TASKS_ROOT`, the port | sweep of the workspaces, health endpoint, configuration | host loop, other processes on the same `TASKS_ROOT` |
| Configuration, telemetry, image, chart | `config.rs`, `telemetry.rs`, `Dockerfile`, `charts` | none after start | | |

Interactions: `watch_signals` and `claim_loop` are two tokio tasks that share
the tokens `graceful` and `forced`. `claim_loop` awaits one `lease.execute` at a
time, which calls `Router::run` and races it against `forced` and against the
loss of the lease. The runner sees a cancellation at its checkpoints, as the
error of a request, or in the read loop of the Python job. Attempts at the same
task share two things and nothing else: the Domain, and, on one node, the
workspace named after the task.

What is hard here: signals that arrive between two listeners; a token cancelled
between two looks at it; requests dropped by a `select!` but not recalled;
writes that land after their sender gave up; process groups that fork, ignore
SIGTERM and share pipes; partial files after a failure or a crash; processes of
one run at work in the workspace of another; names that are sanitized alike.
The list with lines is `hazards` in `PROJECT.json`.

What makes each component correct:

* host loop: no new task after a shutdown request but the one already coming
  in; one signal never interrupts; a granted lease is forgotten only if the
  answer to its claim was lost or the host goes down; every shutdown completes;
* Python job: a cancellation frees the GPU whatever the processes do; no
  deadlock over the pipes; the verdict takes all output into account;
* uploads: receipts name what was saved, and a success all of it; a retry
  replaces and does not clash;
* runner: the pipeline works on whole inputs, those it reported, and its own
  output is what gets uploaded; a cancelled run ends unless Python keeps it;
* Domain downloads: a CID leads to the items it names, and to those of no other
  Domain; what is read as the manifest is whole and the one reported; the temp
  directory is left clean;
* pipeline and start-up: a run works alone in its workspace, and the splat it
  uploads is made by its own stages from all its sound recordings;
* back-off: delays within the configured bounds, no panic.

## 2. Modules

| Module | Models |
|---|---|
| `NodePromise` | abstract: what a node promises the operator and the DMS |
| `HostLoop`, `MCHostLoop`, `HostLoopProofs` | host loop and signal watcher; implements `NodePromise` |
| `PythonPromise` | abstract: what the runner may rely on when it runs a job |
| `PythonJob`, `MCPythonJob`, `PythonJobProofs` | the read loop, `terminate_group`, the group's processes and pipes; implements `PythonPromise` |
| `ArtifactUpload`, `MCArtifactUpload`, `ArtifactUploadProofs` | attempts that put artifacts and report, the Domain, the network |
| `SplatterRun`, `MCSplatterRun`, `SplatterRunProofs` | `HelloRunner::run`, attempt after attempt, and the clean-up at start-up |
| `DomainInput`, `MCDomainInput`, `DomainInputProofs` | `materialize` with all it calls, and the runner's use of it |
| `Pipeline` | `run.py` with its stages over the files of a workspace |
| `NodeStart`, `MCNodeStart`, `NodeStartProofs` | extends `Pipeline`: processes that start on one `TASKS_ROOT`, and their runs in one workspace |
| `Backoff`, `MCBackoff`, `BackoffProofs` | `jittered_delay_ms` on integers of any width |

The `MC` modules only give constants their values.

### How state and actions correspond to the code

**HostLoop.** `graceful` and `forced` are the tokens; `watcher` and `ear` are
the position of `watch_signals` in its loop over them and its signal listener;
`loop` is the position in `claim_loop`; `claim` is the request inside
`claim_any`; `lease`, `outcome` and `result` are the code's values. A biased
`select!` looks at the tokens and then polls the claim while the watcher runs on
another thread, so it is two steps, `CheckTokens` and `Poll...`. `Settle` is the
`match` on the outcome of `execute`, `Close` the epilogue whose error replaces
the result. `granted`, `started`, `late` and `interrupted` are history. The DMS
is external: `DmsGrants` and `DmsDeclines` answer any request they received,
also one that was dropped. `AnswerLost` is a request that the host gives up
after the SDK's timeout or a broken connection, and `GrantUnheard` the lease
that the DMS grants to such a request, before or long after: nobody will run it
(`unheard`).

**PythonJob.** `pc` goes from the spawn over the read loop ("reading") to
`child.wait` ("waiting") or through `terminate_group` ("terminating" to
"sweeping" or "killing"). `pipe` counts unread lines, `holds` is who has the
write ends, `proc`, `termed` and `killed` are the processes and the signals
sent to them. `Drop` is `kill_on_drop`, which reaches the leader only.
`ReadError` is the branch that marks a stream as done after a failed read,
which `lost` records. A process keeps the pipes it has until it ends: one that
closes its output and lives on is not modelled. `PythonPromise` forgets pipes,
signals and single processes: a job has one end and one verdict, "cancelled" is
a verdict only after a request and leaves nothing at large, a verdict of the
leader's own means that it ended. `SplatterRun` (`Python...`) and `NodeStart`
(`PythonEnds`, `CancelJob`, `Drop`) use the job in the terms of that promise.

**ArtifactUpload.** Per attempt, `pc` follows `Router::run` and, within a put,
`put_domain_artifact`; `existing`, `uploads` and `receipt` are the code's
values. `flying` and `answer` are the network, `items` the Domain, which holds
at most one item per name and data type and assigns ids. `landed`, `deleted`
and `rivals` are history. `KeyOf` stands for the names chosen by the runner or
derived by `put_bytes`, which maps '/' and '_' to the same character, so it
need not be injective. `Cancelled` is an attempt that the DMS or the host
stops: the SDK sends no receipt for it (`router_flow.rs` 324-361), as it sends
none when `set_failure` is refused for another reason than its size; and a
receipt may get lost on its way. So there is no property that the DMS hears of
every attempt, and what a receipt says is the subject.

**SplatterRun.** The variables are the locals of `run` and the disk. A
recording's name is `<<scan, n>>` with n endings ".mp4": this is as much of the
strings as decides which folder a download goes to, which candidate names a
scan has and what `derive_scan_id` returns. Each await that touches the disk is
two steps (`FetchItem`, `ItemFetched`), so `Die` can leave half a file. A
cancellation checkpoint is the guard `~cancelled` of the step behind it and its
`Stopped` twin. `download_item` removes what a failed transfer leaves but looks
at neither result, so `FetchEnds` may leave half a file or an empty folder, which
`unremoved` records. Python is "python" while the read loop runs, which sees a
cancellation, and "waiting" in `child.wait`, which does not; `SplatWritten` is
the output's appearance at some time in between. `Python...` and `Upload` stand
for the two modules above with their outcomes. Reports of progress may fail
wherever the code passes their error on. `Die` drops the attempt anywhere; `Restart` is the clean-up in
`main`. `LoseLease` drops the attempt while the process lives on, so that no
clean-up comes before the next attempt. That, and a clean-up that is skipped or
fails, is recorded in `kept`: the properties of `runner` are about workspaces
for which it did not happen.
`output` and `uploaded` carry the number of the attempt they are from.

**DomainInput.** `cid` is an input taken apart as far as the code does: a URL is
its path segments and its query pairs. `Parse` is `parse_cid`, with
`parse_download_target` as the operators `Segments`, `DataId`, `DomainIn`,
`Value`, `ListedIds` and `Ids`; `List` to `Undo` are `download`, the loop over
the items with a step before and after each transfer, so that others can change
the Domain and the run can be dropped in between. `PathOf` is `download_path`,
with `Clean` for `sanitize_component`, which is not injective. `Take` and
`Discard` are the runner's. `left` records why a root stays behind.

**Pipeline.** A file (or a directory) is what is known of its origin: the runs
that had a hand in it, the datasets in it, and whether it is whole. Per run,
`script` and `at` are the place in `run.py`, `busy` says that the process of its
stage runs, and `took` what that began with. `Abandon` is the exception path of
`run_cmd`, which returns 1 and leaves the process running. `Extract` and
`NoVideo` are `extract_mp4.py`, whose result says nothing of a frame that was
not written or of a video that is missing; the other stages, three of
nerfstudio's and `rotate_ply.py` and `convert_ply2splat.py` of this repository,
make their output of their input, or fail with or without a part of it.
`Kill` is a signal to process groups, behind which half-written files remain.

**NodeStart.** `node` is where each process is in `main`: sweeping the
workspaces, asking for the port, reading its configuration, serving. `job` and
`step` are the run of the serving process from the spawn of `run.py` to the
removal of the workspace. All runs use one workspace, as attempts at one task
do. `Remove` is `remove_dir_all`, which may leave a part behind. The history
variable `causes` names what may bring runs into each other's way:

| Cause | What happened |
|---|---|
| `dropped` | the lease was lost: `run.py` is killed, its stage is not |
| `orphaned` | the process died and its run lives on |
| `unswept` | the process died while another one was already behind its sweep |
| `swept` | another process swept the workspace of a live run |
| `left` | a removal left a part behind |
| `abandoned` | `run_cmd` left a stage running |
| `unwritten` | `imwrite` failed, which nobody looks at |

The properties say what holds without these (`causes = {}`), or in spite of the
two that only concern files, and nothing of a workspace to which they happened. That each of them is needed was tried out: without
it the property fails. They are a list of what an operator has to keep in mind.

**Backoff.** Arithmetic is modulo `MaxU + 1`, as u64 arithmetic is in a release
build; a debug build panics on the overflow instead, for the same setting.

## 3. Runs

| Run | Shows |
|---|---|
| `host` | all interleavings of three signals, the watcher, the loop and three leases: at most one late lease, no interruption by a single signal, no lease forgotten but by a lost answer or the last claim, refinement of `NodePromise`; the forced token brings the host down even if the task never ends; with tasks that end, shutdown completes and an undisturbed host keeps claiming |
| `host_double_signal` | **violated**: "a second signal interrupts it" (host.rs 13-14) |
| `job` | run.py with two helpers, reads that may fail: the verdict sees all output, refinement of `PythonPromise`; a cancellation ends the job and its group; only a stream lost to a failed read blocks a writer for ever; when no process is kept from exiting, the job ends or a read failed |
| `job_read_error` | **violated**: "Read both streams concurrently to avoid deadlocks" (lib.rs 529) |
| `upload_safety` | two overlapping attempts with two puts each on three paths, two of them colliding, cancelled, crashing or unheard anywhere: receipts name what was saved and, if they report a success, leave nothing out; conflicts, deletions |
| `runner` | two attempts on one node, one of which may lose its lease: reported inputs match the disk, a whole dataset and no partial one but for a clean-up that failed, COLMAP files as a set, own output uploaded; a cancelled run reaches its clean-up if Python ends after its streams |
| `runner_leftovers` | **violated**: "Ensure at least one dataset is available" (lib.rs 420), after a transfer whose remains were not removed, or in a workspace that was not |
| `domain_input` | twenty CIDs over a Domain of three items that changes all the time: what is asked for is what a documented CID names, none of these is refused, the manifest is a whole item and the one reported, the temp directory is left clean |
| `node_start` | two processes on one `TASKS_ROOT`, two attempts at one task with two datasets, each stage, removal and process failing anywhere: a run is alone in its workspace, what it uploads is its own |
| `backoff_small` | every pair of 4-bit bounds: in range, panic on the whole range only, narrow ranges covered |
| `backoff_default` | **violated**: "Uniform delay in [min, max]" (host.rs 113) with the default bounds |

The inductive invariants are theorems. `IInv` of `NodeStart` was also checked by
TLC on the instance of `node_start`, as were those of the other modules on
theirs, and with that of `DomainInput` what the theorem `ManifestIsNamed` says;
no run repeats that.

Four runs find the code at odds with a comment:

1. The second signal is lost if it comes before its listener is registered.
2. After one unreadable line (not UTF-8, say) a pipe is kept open but not read;
   its writer blocks once the pipe is full, and the job hangs until cancelled.
3. The jitter has a thousand values, so 1000..30000 ms yields 1000..1999 ms.
4. Half a recording or an empty folder counts as the one dataset needed, if a
   failed transfer's removals failed too, which nobody looks at, or if a dead
   attempt left it in a workspace that was not removed.

Deadlock checking is off in every cfg: the programs modelled end, and bounds
stop the models.

### Bounds, and why they are enough

* `MaxSignals` 3: the watcher reacts to two, the third finds no listener.
  Three leases: one in good time, one late, one that must not follow.
  `MaxLost` 2: two claims without an answer, either of which may have been
  granted a lease.
* Two helpers: one can be forked by the other after the leader died. One line
  per pipe: the second write blocks.
* Two attempts: rivalry is between a put and one other; two puts: the second
  uses the id recorded by the first. Three paths, two with the same name.
* One scan with a recording under each of its two names: collisions of folders
  are between names of one scan. `ChunkSize` 2 with three ids: two chunks. Two
  COLMAP files: one found or fetched and one not. Two attempts: the second
  finds what the first left.
* Three items: two with names that are sanitized to one, and one to tell apart.
  The CIDs are all the documented forms with own, foreign and invalid ids, and
  several undocumented ones (`MCDomainInput` lists them).
* Two runs, processes and datasets: a run can only meet the leftovers of another
  one, a sweep another process's run, and a missing dataset needs one that is
  there. `MaxStarts` 2: a process beside a live one, or a restart.
  `Leftovers`: nothing, everything, the splat alone, the frames with what was
  made of them. Members of each of the three sets are treated alike, and all
  properties are invariants, so symmetry is sound. The constraint `Claimed`
  stops at states with causes of which no property speaks; causes only grow, so
  no state behind one of these is left out that a property is about.
* Four-bit integers with five clock values: ranges below, at and above the
  clock's, and the wrap-around.

### Fairness

* Host: a ready tokio task is scheduled, the SDK bounds every request by
  `request_timeout`, and `execute` reacts to `forced`: weak fairness of the
  watcher, the loop, the DMS's answers and `Interrupt`. The operator owes no
  signal and a task need not end; the properties that need tasks to end say so
  (`TasksEnd =>`).
* Job: a `select!` polls its ready branches in random order, so that each
  stream and the cancellation get their turns; the kernel delivers SIGKILL and
  serves blocked writers (strong fairness, as others may take the room). No
  process need exit or obey SIGTERM; `JobEnds` alone assumes that processes
  exit when they can, and excepts jobs in which a read failed.
* Runner: its own steps, each request ending, and the read loop's look at the
  cancellation. Python, the end of its streams, cancellation and crashes are not
  fair; `CancelEndsRun` assumes that Python does not stay for ever in
  `child.wait` (`PythonEnds =>`), where nothing looks at the cancellation.
* `ArtifactUpload`, `DomainInput` and `NodeStart` state safety only and assume
  no fairness.

## 4. Proofs

TLAPS proves these for all values of the constants under their assumptions
(`HostAssumption`, `JobAssumption`, `UploadAssumption`, `BackoffAssumption`,
`RunAssumption`, `InputAssumption`, `PipelineAssumption`, `NodeAssumption`).
Every invariant and every refinement that a passing run checks is among them.

* `HostLoopProofs`: `Inductive` shows `IInv` inductive, with one step per
  action. `AtMostOneLateLease` is not inductive: that no second late lease
  follows rests on `LateInv` (a poll follows a look at tokens that were clear,
  so at that moment no lease was late), which rests on `WatcherInv` (what the
  tokens say is what the signals entitled the watcher to) and `LeaseInv`
  (request, lease in hand and history agree). `TypeCorrect`, `LateLease`,
  `OneSignal` and `OkOnShutdown` follow. `LeaseInv` also says that a lease which
  was granted and not started is the last claim's or was granted unheard, and
  `LostInv` counts the latter; `LeasesCounted` adds the two up. `Refinement` shows that
  initial states map to initial states of `NodePromise` and that each action
  is one of its actions or a stutter, using `IInv` before and after.
* `PythonJobProofs`: `TypeOK`, then `OutputInv` (a stream read to its end has no
  writer left and cannot get one, as only a writer's child can inherit the
  pipe), `CancelInv` (from the second SIGKILL on, everything that runs has it
  pending and cannot fork) and `LeaderInv` (the leader is reaped where the
  runner waits for it). `NoStraggler`, `WholeOutput` and `LeaderDies` follow.
  `KeepsPromise` shows the refinement of `PythonPromise`: a SIGKILL that was
  sent goes into effect (`GoesEffect`), what is being killed does not fork
  (`StaysCalm`), and each of the runner's actions that ends the job is an `End`
  with its verdict (`Ends`), where `CancelInv` and `LeaderInv` say what is left.
* `ArtifactUploadProofs`: `Invariance` shows `IInv` inductive, with a lemma per
  conjunct. An id stands for one key until it is deleted (`IdStays`), so what
  landed keeps its name (`LandInv`), and with it what was recorded and reported
  (`RecordInv`, `ReceiptInv`): `ReceiptsNameSavedItems`. A write under way
  belongs to the put that waits for it or to an attempt that has failed
  (`FlyInv`); hence a put that went by name, after the look-up found none,
  conflicts only with a rival (`PutInv`, `StillFree`, `AnswerInv`):
  `ConflictsNeedRivals`, and an id that is gone was deleted:
  `NotFoundNeedsDelete`. The same fact keeps a late write of an attempt's own
  from replacing what a successful one has recorded (`ContentStays`,
  `RecordStep`): `SuccessReceiptsAreCurrent`. What has landed of an attempt is
  recorded or superseded, unless the attempt waits to hear of it or has failed
  (`CompleteInv`, `CompleteStep`; `NumberInv` keeps the order of puts):
  `SuccessReceiptsAreComplete`. Nothing is assumed of `KeyOf`, so
  all of it holds for runners whose names collide.
* `BackoffProofs`: `ModBound` and `SpanExact` about the arithmetic, then that
  a delay lies between the bounds (`DelayBounded`) and that the span wraps to
  zero for the whole range only (`PanicsRarely`), for integers of every width.
  `CoversIs` says which ranges the jitter reaches everywhere: those no wider than
  the jitter itself. From it follow `NarrowCovered` and, as its other half,
  `CoveredExactly`: the third of the runs' findings is no matter of the default
  bounds but true of every setting wider than that.
* `SplatterRunProofs`: `Invariant` shows `IInv` inductive. That the counter of
  datasets is the number of whole files on the disk (`CountInv`) needs that no
  download overwrites a whole recording: such a recording lies in the folder of
  its own name, or in that of a scan that is done with (`WholeInv`), and a scan
  is resolved only while neither of its names was downloaded (`PlaceInv`,
  `Unresolved`). A folder without a whole recording is always the one being
  fetched into or one whose clean-up failed (`HalfInv`), so the guard before the
  pipeline, which only looks for the presence of an entry, accepts whole ones or
  such remains, and nothing else (`PresentIsComplete`). `FilesInv` and
  `ColmapCounted` are the like for COLMAP, `OutputInv` for the output. The
  parts other than types and `PlaceInv` hold while no removal of the workspace
  was skipped or failed. `InputsAreOnDisk`, `NoPartialInput`, `DatasetIsThere`,
  `ColmapIsASet` and `UploadIsOwn` follow; steps that change nothing a lemma is
  about are covered by what they have in common (`GivesUpEffect`,
  `PipelineEffect`, `FetchedEffect`).

* `NodeStartProofs`: `Invariance` shows `IInv` inductive. That a run is alone
  rests on three facts: the port is with one process, and only a serving one has
  a run (`PortInv`); whoever is at work is the run in hand, its script waiting
  for the stage (`WorkInv`); behind a sweep no file is of another run
  (`SweptInv`). `SweptInv` has to speak of processes that are behind their sweep
  but not serving yet, and of the inputs stages took before: this is where
  `unswept` comes from. `Alone` follows. For `Owned`, `OwnInv` says stage by
  stage what the files hold while the script runs (`InputOf`): the frames are
  those of the sound datasets but the ones still to do, and every later output
  is the run's own or absent; half-written files are behind the script or make
  it fail. `HandInv` is the weaker form for workspaces that were not removed
  (`Fresh`). The frame lemmas `ScriptFiles`, `KillFiles`, `RemoveAll` say what a
  script's step, a kill and a removal do to the files; `ScriptOwn` and
  `ScriptHand` go through the steps of the script.
* `DomainInputProofs`: first what the code makes of a CID, then the steps.
  `Segments` is a recursive function over the path; that it keeps a path without
  empty segments as it is (`WholePath`) is shown by a least counterexample
  (`Least`, from the library's theorem on well-founded relations, stands in for
  induction, whose theorem takes an operator). A path that ends like a documented
  form has one place where the loop can stop (`Ending`), so `ItemPath` and
  `QueryPath` say which Domain and which id are read off it, and `ValueIs`,
  `ListedIs` and `SelectedIs` what is read off the query, for paths and queries of
  any length. `Asked` and `Accepted` put this together: the query matches what
  the CID names, and what names an item is not refused. `InputAssumption` says that
  the Domain's items are finitely many and have UUIDs for ids, that a UUID is
  neither empty nor one of the words `domains` and `data`, that a CID is malformed,
  an id or a URL, and that a URL's path and query are sequences whose pairs all
  have a value. Of the steps,
  `Invariance` shows `IInv` inductive: the query is the CID's (`QueryInv`), every
  item downloaded is whole on the disk, overwritten at most by a later one of its
  path, or torn while that one is written (`FilesInv`), and all of them match the
  query (`FoundInv`). `Asks`, `Accepts`, `Manifest` and `Cleaned` follow, and
  `ManifestIsNamed`, from one end to the other: the manifest the runner reads is
  an item that the CID names.

Only model-checked: the liveness properties, for which the prover has neither
fairness nor ENABLED. They are `ShutdownCompletes`, `ForcedShutdownCompletes` and
`KeepsClaiming` of the host, `CancelStopsJob`, `CancelFreesGpu`,
`BlockedOnLostOnly` and `JobEnds` of the job and `CancelEndsRun` of the runner. The safety side of some is proved:
`NoStraggler` says of `CancelFreesGpu` that nothing is left which SIGKILL has not
been sent to, `KeepsPromise` that a job has one end.

## 5. Not modelled

* The numerics of the two PLY scripts, of nerfstudio and COLMAP; telemetry, the
  container image and the chart: no control state.
* The DMS, Domain server, SDK and kernel beyond what the code relies on: the
  Domain's list is taken to find exactly the items that match all parts of a
  query, and a write by name to be refused if the name is taken. Whether the DMS
  hears of an attempt is the SDK's matter, and no property here.
* A stage that outlives its run and writes then: `SplatterRun` knows nothing of
  it, `NodeStart` has it for a cause it excludes (`abandoned`, `dropped`).
* The values in the environment, but for the back-off bounds: `from_env` accepts
  or refuses, and nothing changes afterwards.
* Processes that close their own output and live on.
* The characters of names and reasons: `sanitize_component` and the timestamp in
  a name are functions the instance chooses, `truncate` only shortens a reason.

Two more remarks that no run is about: main.rs 26-29 calls the workspaces it
removes stale, but looks at none for a process that uses it (the cause `swept`);
and `run_cmd`'s docstring promises the exit code of the subprocess, but it is 1
after an exception, while the subprocess goes on (the cause `abandoned`).

## 6. Plan

Done, in this order: host loop with its abstract specification and proofs,
Python job with its abstract specification and proofs, uploads with proofs,
back-off with proofs, runner with proofs, Domain downloads with proofs, pipeline,
start-up with proofs.

Next, to extend the model:

1. Pure algorithms against reference definitions: `truncate` at character
   boundaries, `apply_outputs_prefix` with `sanitize_artifact`.
2. `NodeTask`: the host loop composed with router, runner and receipts, for what
   the DMS hears of interrupted, cancelled and lost work.

Next, to prove: that `SplatterRun` and `NodeStart` use the Python job within
`PythonPromise`, as refinements of a job with the runner's steps around it; so far
this is by construction of their actions.
