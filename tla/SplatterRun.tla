----------------------------- MODULE SplatterRun -----------------------------
(***************************************************************************)
(* HelloRunner::run of runner/src/lib.rs and the cleanups around it: the   *)
(* attempts that one node makes at one task.  An attempt prepares the      *)
(* task's workspace, which is named after the task and not the attempt,    *)
(* fetches the inputs into it, runs the Python pipeline, uploads the splat *)
(* and removes the workspace.  The process may die at any await; the next  *)
(* one removes stale workspaces when it starts (bin/src/main.rs).  A run   *)
(* whose lease is lost is dropped too, but no clean-up follows.            *)
(*                                                                         *)
(* A recording is named dmt_recording_<scan>, possibly with ".mp4" behind  *)
(* it; <<s, n>> stands for that name with n such endings, and also for a   *)
(* scan id and for the folder called <scan>.  Of Python (PythonJob) and   *)
(* the upload (ArtifactUpload) there is only what the run sees of them.    *)
(***************************************************************************)
EXTENDS Naturals, FiniteSets, FiniteSetsExt, Sequences

CONSTANTS
    Items,            \* the data items of the Domain that a manifest can name
    NameOf,           \* item -> recording, or Other
    Scans,            \* scans
    Bins,             \* the files of a COLMAP reconstruction (expected_colmap)
    Manifests,        \* the task's possible inputs: sets of entries and `refined`
    ChunkSize,        \* ids per metadata request
    MaxAttempts       \* bound: attempts at the task

Other == <<>>
Recordings == Scans \X (0..2)
Url == [form |-> "url"]
Entries == [form : {"id"}, item : Items]
           \cup [form : {"scan", "recording"}, scan : Scans \X (0..1)] \cup {Url}

ASSUME RunAssumption ==
    /\ NameOf \in [Items -> Recordings \cup {Other}]
    /\ Manifests \subseteq [entries : SUBSET Entries, refined : BOOLEAN]
    /\ ChunkSize \in Nat \ {0} /\ MaxAttempts \in Nat
    /\ IsFiniteSet(Items) /\ IsFiniteSet(Scans) /\ IsFiniteSet(Bins)

VARIABLES
    pc, attempt, manifest,
    \* locals of run
    ids,         \* data ids whose metadata has not been asked for
    batch,       \* metadata received and not looked at
    scans,       \* unique scan ids not looked at
    scan,        \* the scan id being resolved
    tried,       \* how many of its candidate names were tried
    fetch,       \* the recording, or the COLMAP file, being downloaded
    bins,        \* the COLMAP files still to find, then to download
    missing,     \* COLMAP files not found
    downloaded,  \* downloaded_recordings
    counts,      \* datasets_downloaded, colmap_downloaded, colmap_failed
    progress,    \* the last percentage reported
    outcome,     \* "none", "ok", "cancelled" or "error"
    cancelled,   \* task.is_cancelled()
    \* the disk, with the attempt that made the output and the one uploaded
    folders,     \* datasets/<folder>: "absent", "empty", or holding a Frames.mp4
                 \* that is "partial" or "complete"
    colmap,      \* refined/global/refined_sfm_combined/<bin>
    output,      \* splat_rot.splat: the attempt it is from, 0 if absent
    uploaded,    \* the attempt whose output was uploaded last, 0 if none
    \* history
    unremoved,   \* folders whose failed transfer could not be cleaned up
    kept         \* the workspace was left: its removal was skipped, failed or
                 \* dropped with the run

inputVars  == <<ids, batch, scans, scan, tried>>
colmapVars == <<bins, missing>>
countVars  == <<downloaded, counts>>
fileVars   == <<folders, unremoved, colmap, output>>
jobVars    == <<attempt, manifest, cancelled, kept>>
vars == <<pc, progress, outcome, fetch, uploaded, inputVars,
          colmapVars, countVars, fileVars, jobVars>>

FileStates == {"absent", "empty", "partial", "complete"}
Running == {"prepare", "materialize", "chunks", "batch", "fetching item",
            "scans", "names", "fetching scan", "find", "get", "fetching bin",
            "check", "python", "waiting", "upload"}

ControlTypes ==
    /\ pc \in Running \cup {"cleanup", "idle", "down"}
    /\ manifest \in Manifests
    /\ progress \in {0, 5, 20, 35, 80, 90, 95, 100}
    /\ outcome \in {"none", "ok", "cancelled", "error"}

FlagTypes == cancelled \in BOOLEAN /\ kept \in BOOLEAN

LocalTypes ==
    /\ ids \subseteq Items /\ batch \subseteq Items
    /\ scans \subseteq Scans \X (0..1)
    /\ scan \in (Scans \X (0..1)) \cup {Other} /\ tried \in 0..2
    /\ fetch \in Recordings \cup Bins \cup {Other}
    /\ bins \subseteq Bins /\ missing \subseteq Bins
    /\ downloaded \subseteq Recordings

CountTypes == counts \in [datasets : Nat, colmap : Nat, colmapFailed : Nat]

DiskTypes ==
    /\ folders \in [Recordings -> FileStates] /\ unremoved \subseteq Recordings
    /\ colmap \in [Bins -> FileStates]

AttemptTypes ==
    /\ attempt \in 0..MaxAttempts
    /\ output \in 0..attempt /\ uploaded \in 0..attempt

TypeOK ==
    /\ ControlTypes /\ FlagTypes
    /\ LocalTypes /\ CountTypes /\ DiskTypes /\ AttemptTypes

NoCounts == [datasets |-> 0, colmap |-> 0, colmapFailed |-> 0]
NoFolders == [f \in Recordings |-> "absent"]
NoColmap == [b \in Bins |-> "absent"]

Init ==
    /\ pc = "idle" /\ attempt = 0 /\ manifest \in Manifests /\ cancelled = FALSE
    /\ kept = FALSE
    /\ ids = {} /\ batch = {} /\ scans = {} /\ scan = Other /\ tried = 0 /\ fetch = Other
    /\ bins = {} /\ missing = {} /\ downloaded = {} /\ counts = NoCounts
    /\ progress = 0 /\ outcome = "none" /\ uploaded = 0
    /\ folders = NoFolders /\ unremoved = {} /\ colmap = NoColmap /\ output = 0

-----------------------------------------------------------------------------
(* Workspaces.                                                             *)

WipeWorkspace ==
    /\ folders' = NoFolders /\ unremoved' = {}
    /\ colmap' = NoColmap /\ output' = 0

\* remove_dir_all on the task's workspace.  DISABLE_TASKS_CLEANUP skips it, and
\* its failure is only logged.
Remove ==
    \/ WipeWorkspace /\ UNCHANGED kept
    \/ kept' = TRUE /\ UNCHANGED fileVars

\* The block ends with a result; the cleanup behind it is next.
Conclude(o) == pc' = "cleanup" /\ outcome' = o

\* Between two runs their locals do not exist.
FreshLocals ==
    /\ ids' = {} /\ batch' = {} /\ scans' = {} /\ scan' = Other /\ tried' = 0 /\ fetch' = Other
    /\ bins' = {} /\ missing' = {} /\ downloaded' = {} /\ counts' = NoCounts
    /\ progress' = 0

\* A lease for the task: fresh locals, and create_dir_all, which keeps what is
\* there and whose failure returns at once.
Begin ==
    /\ pc = "idle" /\ attempt < MaxAttempts
    /\ attempt' = attempt + 1 /\ cancelled' = FALSE
    /\ FreshLocals
    /\ \/ pc' = "prepare" /\ outcome' = "none"
       \/ pc' = "idle" /\ outcome' = "error"
    /\ UNCHANGED <<manifest, kept, fileVars, uploaded>>

Cleanup ==
    /\ pc = "cleanup" /\ pc' = "idle"
    /\ Remove /\ FreshLocals
    /\ UNCHANGED <<outcome, uploaded, attempt, manifest, cancelled>>

\* The process dies, or is made to: the run is dropped where it stands.
Die ==
    /\ pc # "down" /\ pc' = "down"
    /\ FreshLocals
    /\ UNCHANGED <<outcome, uploaded, fileVars, jobVars>>

\* The lease is lost: the run is dropped, its clean-up with it, and the host
\* goes on to the next claim.
LoseLease ==
    /\ pc \in Running \cup {"cleanup"} /\ pc' = "idle"
    /\ kept' = TRUE /\ FreshLocals
    /\ UNCHANGED <<outcome, uploaded, fileVars, attempt, manifest, cancelled>>

\* Mutant: the next process leaves the workspaces it finds.
Restart_Keeps ==
    /\ pc = "down" /\ pc' = "idle"
    /\ UNCHANGED <<progress, outcome, fetch, uploaded, inputVars,
                   colmapVars, countVars, fileVars, jobVars>>

\* main removes every directory under TASKS_ROOT before it serves.
Restart ==
    /\ pc = "down" /\ pc' = "idle"
    /\ Remove
    /\ UNCHANGED <<progress, outcome, fetch, uploaded, inputVars,
                   colmapVars, countVars, attempt, manifest, cancelled>>

Cancel ==
    /\ pc \in Running /\ cancelled' = TRUE
    /\ UNCHANGED <<pc, progress, outcome, fetch, uploaded, inputVars,
                   colmapVars, countVars, fileVars, attempt, manifest, kept>>

-----------------------------------------------------------------------------
(* The manifest.                                                           *)

\* ensure_task_not_cancelled.
Stopped(place) ==
    /\ pc = place /\ cancelled
    /\ Conclude("cancelled")
    /\ UNCHANGED <<progress, fetch, uploaded, inputVars, colmapVars,
                   countVars, fileVars, jobVars>>

\* A step fails.  The SDK words the error of a cancelled request, so that the
\* runner may or may not find its own prefix in it.
Fails(place) ==
    /\ pc = place
    /\ \/ Conclude("error")
       \/ cancelled /\ place \in {"materialize", "upload"} /\ Conclude("cancelled")
    /\ UNCHANGED <<progress, fetch, uploaded, inputVars, colmapVars,
                   countVars, fileVars, jobVars>>

Prepare ==
    /\ pc = "prepare" /\ ~cancelled
    /\ progress' = 5 /\ pc' = "materialize"
    /\ UNCHANGED <<outcome, fetch, uploaded, inputVars, colmapVars,
                   countVars, fileVars, jobVars>>

\* derive_scan_id: ids and urls name no scan, a recording's name loses every
\* ".mp4", any other entry is kept as it is.
ScanIdOf(e) == IF e.form = "recording" THEN <<e.scan[1], 0>> ELSE e.scan

\* The manifest is downloaded to the temp dir, read and its dataIDs taken apart.
ReadManifest ==
    /\ pc = "materialize"
    /\ LET entries == manifest.entries IN
       /\ ids' = {e.item : e \in {d \in entries : d.form = "id"}}
       /\ scans' = {ScanIdOf(e) : e \in {d \in entries : d.form \in {"scan", "recording"}}}
       /\ pc' = IF entries = {} THEN "check" ELSE "chunks"
    /\ UNCHANGED <<progress, outcome, fetch, uploaded, batch, scan, tried,
                   colmapVars, countVars, fileVars, jobVars>>

-----------------------------------------------------------------------------
(* Recordings.                                                             *)

\* `list` for a chunk of the ids, which may fail or know only some of them.
ListChunk ==
    /\ pc = "chunks" /\ ids # {} /\ ~cancelled
    /\ \E chunk \in SUBSET ids :
          /\ Cardinality(chunk) = Min({ChunkSize, Cardinality(ids)})
          /\ ids' = ids \ chunk
          /\ batch' \in SUBSET chunk
    /\ pc' = IF batch' = {} THEN "chunks" ELSE "batch"
    /\ UNCHANGED <<progress, outcome, fetch, uploaded, scans, scan, tried,
                   colmapVars, countVars, fileVars, jobVars>>

ChunksDone ==
    /\ pc = "chunks" /\ ids = {} /\ pc' = "scans"
    /\ UNCHANGED <<progress, outcome, fetch, uploaded, inputVars, colmapVars,
                   countVars, fileVars, jobVars>>

Wanted(i) == NameOf[i] # Other /\ NameOf[i] \notin downloaded

SkipItem(i) ==
    /\ pc = "batch" /\ i \in batch /\ ~Wanted(i)
    /\ batch' = batch \ {i}
    /\ pc' = IF batch' = {} THEN "chunks" ELSE "batch"
    /\ UNCHANGED <<progress, outcome, fetch, uploaded, ids, scans, scan, tried,
                   colmapVars, countVars, fileVars, jobVars>>

\* download_item starts: the folder's Frames.mp4 is created, or truncated.
StartFetch(name, folder) ==
    /\ fetch' = name
    /\ folders' = [folders EXCEPT ![folder] = "partial"]
    /\ UNCHANGED unremoved

\* An item goes into the folder that its own name gives, an ".mp4" included.
FetchItem(i) ==
    /\ pc = "batch" /\ i \in batch /\ Wanted(i) /\ ~cancelled
    /\ batch' = batch \ {i}
    /\ StartFetch(NameOf[i], NameOf[i])
    /\ pc' = "fetching item"
    /\ UNCHANGED <<progress, outcome, uploaded, ids, scans, scan, tried,
                   colmapVars, countVars, colmap, output, jobVars>>

StoppedInBatch == (\E i \in batch : Wanted(i)) /\ Stopped("batch")

\* The folder a download is writing to.
Folder == IF pc = "fetching item" THEN fetch ELSE scan

Leaves(state) == folders' = [folders EXCEPT ![Folder] = state]

Tally(ok) ==
    /\ downloaded' = IF ok THEN downloaded \cup {fetch} ELSE downloaded
    /\ counts' = IF ok THEN [counts EXCEPT !.datasets = @ + 1] ELSE counts

\* Mutant: nothing is removed after a failed transfer.
FetchEnds_KeepsPartial(ok) ==
    /\ Tally(ok)
    /\ Leaves(IF ok THEN "complete" ELSE "partial") /\ UNCHANGED unremoved

\* Mutant: only the file is removed after a failed transfer.
FetchEnds_LeavesFolder(ok) ==
    /\ Tally(ok)
    /\ Leaves(IF ok THEN "complete" ELSE "empty") /\ UNCHANGED unremoved

\* download_item returns.  After a failed transfer it removes the file and then
\* its folder, and looks at the result of neither removal.
FetchEnds(ok) ==
    /\ Tally(ok)
    /\ \/ Leaves(IF ok THEN "complete" ELSE "absent") /\ unremoved' = unremoved \ {Folder}
       \/ /\ ~ok /\ \E left \in {"partial", "empty"} : Leaves(left)
          /\ unremoved' = unremoved \cup {Folder}

ItemFetched ==
    /\ pc = "fetching item"
    /\ \E ok \in BOOLEAN : FetchEnds(ok)
    /\ pc' = IF batch = {} THEN "chunks" ELSE "batch"
    /\ UNCHANGED <<progress, outcome, fetch, uploaded, inputVars, colmapVars,
                   colmap, output, jobVars>>

NextScan(s) ==
    /\ pc = "scans" /\ s \in scans
    /\ scans' = scans \ {s} /\ scan' = s /\ tried' = 0
    /\ pc' = "names"
    /\ UNCHANGED <<progress, outcome, fetch, uploaded, ids, batch, colmapVars,
                   countVars, fileVars, jobVars>>

\* The candidate name: the scan id's own, then with one more ".mp4".
Name == <<scan[1], scan[2] + tried>>

\* Mutant: a scan's recording is looked up even if it was downloaded by its id.
Resolved_NotAsked == tried = 2

\* Mutant: a third name is tried.
Resolved_OneTooMany == tried = 3 \/ Name \in downloaded

\* No name is left, or the recording goes by this one and is there.
Resolved == tried = 2 \/ Name \in downloaded

ScanDone ==
    /\ pc = "names" /\ Resolved /\ pc' = "scans"
    /\ UNCHANGED <<progress, outcome, fetch, uploaded, inputVars, colmapVars,
                   countVars, fileVars, jobVars>>

\* `find` returns nothing, or fails; it returns an item only if there is one.
NameNotFound ==
    /\ pc = "names" /\ ~Resolved /\ ~cancelled
    /\ tried' = tried + 1
    /\ UNCHANGED <<pc, progress, outcome, fetch, uploaded, ids, batch, scans, scan,
                   colmapVars, countVars, fileVars, jobVars>>

NameFound ==
    /\ pc = "names" /\ ~Resolved /\ ~cancelled
    /\ \E i \in Items : NameOf[i] = Name
    /\ StartFetch(Name, scan)
    /\ pc' = "fetching scan"
    /\ UNCHANGED <<progress, outcome, uploaded, inputVars, colmapVars, countVars,
                   colmap, output, jobVars>>

StoppedAtName == pc = "names" /\ ~Resolved /\ Stopped("names")

ScanFetched ==
    /\ pc = "fetching scan"
    /\ \E ok \in BOOLEAN :
          /\ FetchEnds(ok)
          /\ IF ok THEN pc' = "scans" /\ UNCHANGED tried
                   ELSE pc' = "names" /\ tried' = tried + 1
    /\ UNCHANGED <<progress, outcome, fetch, uploaded, ids, batch, scans, scan,
                   colmapVars, colmap, output, jobVars>>

ScansDone ==
    /\ pc = "scans" /\ scans = {}
    /\ IF manifest.refined THEN pc' = "find" /\ bins' = Bins
                           ELSE pc' = "check" /\ UNCHANGED bins
    /\ UNCHANGED <<progress, outcome, fetch, uploaded, missing, inputVars,
                   countVars, fileVars, jobVars>>

-----------------------------------------------------------------------------
(* The COLMAP reconstruction of a refined manifest.                        *)

FindBin(b) ==
    /\ pc = "find" /\ b \in bins /\ ~cancelled
    /\ bins' = bins \ {b}
    /\ missing' \in {missing, missing \cup {b}}
    /\ UNCHANGED <<pc, progress, outcome, fetch, uploaded, inputVars, countVars,
                   fileVars, jobVars>>

StoppedAtFind == bins # {} /\ Stopped("find")

\* Mutant: the files that were found are fetched although others are missing.
BinsFound_Some ==
    /\ pc = "find" /\ bins = {}
    /\ pc' = "get" /\ bins' = Bins \ missing
    /\ counts' = [counts EXCEPT !.colmapFailed = Cardinality(missing)]
    /\ UNCHANGED <<progress, outcome, fetch, uploaded, missing, inputVars,
                   downloaded, fileVars, jobVars>>

\* They are fetched only if none is missing, into a directory of their own.
BinsFound ==
    /\ pc = "find" /\ bins = {}
    /\ IF missing = {} THEN pc' = "get" /\ bins' = Bins
                       ELSE pc' = "check" /\ UNCHANGED bins
    /\ counts' = [counts EXCEPT !.colmapFailed = Cardinality(missing)]
    /\ UNCHANGED <<progress, outcome, fetch, uploaded, missing, inputVars,
                   downloaded, fileVars, jobVars>>

NoBinDirectory == bins = {} /\ missing = {} /\ Fails("find")

GetBin(b) ==
    /\ pc = "get" /\ b \in bins /\ ~cancelled
    /\ bins' = bins \ {b} /\ fetch' = b
    /\ colmap' = [colmap EXCEPT ![b] = "partial"]
    /\ pc' = "fetching bin"
    /\ UNCHANGED <<progress, outcome, uploaded, missing, inputVars, countVars,
                   folders, unremoved, output, jobVars>>

StoppedAtGet == bins # {} /\ Stopped("get")

\* download_to has no download_item around it here: a failed transfer stays.
BinFetched ==
    /\ pc = "fetching bin" /\ pc' = "get"
    /\ \/ /\ colmap' = [colmap EXCEPT ![fetch] = "complete"]
          /\ counts' = [counts EXCEPT !.colmap = @ + 1]
       \/ /\ colmap' \in {colmap, [colmap EXCEPT ![fetch] = "absent"]}
          /\ counts' = [counts EXCEPT !.colmapFailed = @ + 1]
    /\ UNCHANGED <<progress, outcome, fetch, uploaded, inputVars, colmapVars,
                   downloaded, folders, unremoved, output, jobVars>>

BinsDone ==
    /\ pc = "get" /\ bins = {} /\ pc' = "check"
    /\ UNCHANGED <<progress, outcome, fetch, uploaded, inputVars, colmapVars,
                   countVars, fileVars, jobVars>>

-----------------------------------------------------------------------------
(* The pipeline and the upload.                                            *)

\* A dataset was downloaded, or something lies in the datasets directory.
DatasetsPresent ==
    counts.datasets > 0 \/ \E f \in Recordings : folders[f] # "absent"

\* There is none, or the directory cannot be read.
NoDatasets == counts.datasets = 0 /\ Fails("check")

\* The inputs are reported; unless the task is cancelled, Python is spawned.
\* A report may fail, and so may the spawn.
StartPython ==
    /\ pc = "check" /\ DatasetsPresent
    /\ \/ progress' \in {progress, 20, 35} /\ Conclude("error")
       \/ cancelled /\ progress' = 20 /\ Conclude("cancelled")
       \/ ~cancelled /\ progress' = 35 /\ pc' = "python" /\ UNCHANGED outcome
    /\ UNCHANGED <<fetch, uploaded, inputVars, colmapVars, countVars, fileVars, jobVars>>

\* A process of the group writes the splat.
SplatWritten ==
    /\ pc \in {"python", "waiting"} /\ output' = attempt
    /\ UNCHANGED <<pc, progress, outcome, fetch, uploaded, inputVars, colmapVars,
                   countVars, folders, unremoved, colmap, jobVars>>

\* Mutant: the read loop does not watch the task's cancellation.
PythonCancelled_Never == FALSE

\* The read loop sees the cancellation and terminates the group.
PythonCancelled ==
    /\ pc = "python" /\ cancelled
    /\ Conclude("cancelled")
    /\ UNCHANGED <<progress, fetch, uploaded, inputVars, colmapVars, countVars,
                   fileVars, jobVars>>

\* Both streams are at their end, or could not be read on: Python is waited
\* for, and nothing else is.
StreamsEnd ==
    /\ pc = "python" /\ pc' = "waiting"
    /\ UNCHANGED <<progress, outcome, fetch, uploaded, inputVars, colmapVars,
                   countVars, fileVars, jobVars>>

\* Python ends without success.
PythonFails ==
    /\ pc = "waiting"
    /\ Conclude("error")
    /\ UNCHANGED <<progress, fetch, uploaded, inputVars, colmapVars, countVars,
                   fileVars, jobVars>>

\* Python succeeds: there must be a splat to upload.  Again a report may fail.
PythonSucceeds ==
    /\ pc = "waiting"
    /\ \/ progress' \in {progress, 80} /\ Conclude("error")
       \/ cancelled /\ progress' = 80 /\ Conclude("cancelled")
       \/ /\ ~cancelled /\ output # 0 /\ progress' = 90
          /\ pc' = "upload" /\ UNCHANGED outcome
    /\ UNCHANGED <<fetch, uploaded, inputVars, colmapVars, countVars, fileVars, jobVars>>

\* put_domain_artifact, which may land although it fails, and the last reports.
Upload ==
    /\ pc = "upload"
    /\ uploaded' = output
    /\ \/ progress' = 100 /\ Conclude("ok")
       \/ progress' \in {progress, 95} /\ Conclude("error")
       \/ UNCHANGED progress /\ cancelled /\ Conclude("cancelled")
    /\ UNCHANGED <<fetch, inputVars, colmapVars, countVars, fileVars, jobVars>>

-----------------------------------------------------------------------------

Checkpoint ==
    \/ Stopped("prepare") \/ (ids # {} /\ Stopped("chunks")) \/ StoppedInBatch
    \/ StoppedAtName \/ StoppedAtFind \/ StoppedAtGet

Fetch ==
    \/ Prepare \/ ReadManifest
    \/ ListChunk \/ ChunksDone \/ ItemFetched
    \/ \E i \in Items : SkipItem(i) \/ FetchItem(i)
    \/ \E s \in scans : NextScan(s)
    \/ ScanDone \/ NameNotFound \/ NameFound \/ ScanFetched \/ ScansDone
    \/ \E b \in Bins : FindBin(b) \/ GetBin(b)
    \/ BinsFound \/ BinFetched \/ BinsDone

\* A report that fails, no cid or no manifest behind it, no directory, no upload.
Failure ==
    Fails("prepare") \/ Fails("materialize") \/ NoBinDirectory \/ Fails("upload")

Finish == StartPython \/ NoDatasets \/ PythonCancelled \/ Upload \/ Cleanup

Next ==
    \/ Begin \/ Checkpoint \/ Fetch \/ Failure \/ Finish
    \/ SplatWritten \/ StreamsEnd \/ PythonFails \/ PythonSucceeds
    \/ Cancel \/ LoseLease \/ Die \/ Restart

Spec == Init /\ [][Next]_vars

\* The runner keeps running and every request it makes ends.  Nothing is
\* assumed of Python, of a cancellation or of a crash.
FairSpec == Spec /\ WF_vars(Checkpoint \/ Fetch \/ Failure \/ Finish)

-----------------------------------------------------------------------------
(* Properties.                                                             *)

\* The inputs are in the workspace, which began empty.
InputsReady == pc \in {"python", "waiting", "upload"} /\ ~kept
Complete(files) == {f \in DOMAIN files : files[f] = "complete"}

\* What the task reports as its inputs is what the pipeline finds: every
\* recording counted is a file of its own, none was overwritten by another
\* name of its scan or lost to a failed retry (lib.rs 226-333), and every
\* COLMAP file counted is there.
InputsMatchDisk ==
    InputsReady =>
        /\ counts.datasets = Cardinality(Complete(folders))
        /\ counts.datasets = Cardinality(downloaded)
        /\ counts.colmap = Cardinality(Complete(colmap))

\* Half a recording is read by the pipeline only if it was the clean-up of its
\* transfer that failed: "a failed transfer leaves no partial file behind" when
\* the removals do what they are asked (lib.rs 35-46), a retry replaces the file
\* (lib.rs 226-333), and one that was cut off by a crash is removed at the next
\* start (main.rs 26-45).
NoPartialDataset ==
    InputsReady => \A f \in Recordings : folders[f] = "partial" => f \in unremoved

\* The pipeline starts on at least one whole dataset, although the code looks
\* at the counter and then at the mere presence of a directory (lib.rs 421-428),
\* unless the clean-up of a failed transfer failed too.
DatasetAvailable == InputsReady => Complete(folders) # {} \/ unremoved # {}

\* COLMAP files are fetched as a set: if one was not found, none is there
\* (lib.rs 376-416).
ColmapOnlyAsASet == missing # {} /\ ~kept => \A b \in Bins : colmap[b] = "absent"

\* An attempt that succeeds has uploaded what its own pipeline made, not the
\* output an earlier attempt at the task left in the workspace (lib.rs 612-648).
\* A stage that outlives its run, and writes then, is NodeStart's.
UploadsOwnOutput == outcome = "ok" /\ ~kept => uploaded = attempt

\* What the comment says of every workspace: "Ensure at least one dataset is
\* available before running the pipeline" (lib.rs 420).
DatasetAlwaysAvailable == pc = "python" => Complete(folders) # {}

\* A cancelled task gives up and gets to its cleanup (the checkpoints, and
\* lib.rs 534-537), as long as Python ends once both of its streams are over:
\* the wait for it does not watch the cancellation (lib.rs 571).
PythonEnds == []<>(pc # "waiting")
CancelEndsRun == PythonEnds => ((pc \in Running /\ cancelled) ~> pc \notin Running)

-----------------------------------------------------------------------------
(* The inductive invariant behind the safety properties.                   *)

Fetching == pc \in {"fetching item", "fetching scan"}
Resolving == pc \in {"names", "fetching scan"}
Early == pc \in {"prepare", "materialize"}
BeforeColmap == Early \/ Fetching \/ pc \in {"chunks", "batch", "scans", "names", "find"}

\* What is being fetched is not there yet, and a scan is resolved only once.
PlaceInv ==
    /\ Fetching => fetch \in Recordings \ downloaded
    /\ pc = "fetching bin" => fetch \in Bins \ bins
    /\ Resolving => scan \in (Scans \X (0..1)) \ scans
    /\ Resolving /\ tried > 0 => scan \notin downloaded
    /\ pc = "fetching scan" => tried # 2 /\ fetch = Name
    /\ Early => downloaded = {} /\ counts = NoCounts
    /\ pc \in {"get", "fetching bin"} => missing = {}

\* A folder without a whole recording is the one being fetched into, or one
\* that could not be removed.
HalfInv ==
    pc # "down" => \A f \in Recordings :
        folders[f] \in {"partial", "empty"} <=> (Fetching /\ f = Folder) \/ f \in unremoved

\* A whole recording is in the folder of its own name, or in that of a scan
\* that is done with.
Settled(f) ==
    \/ f \in downloaded
    \/ /\ f \notin scans /\ ~(Resolving /\ f = scan)
       /\ pc \notin {"chunks", "batch", "fetching item"}

WholeInv ==
    pc \in Running =>
        \A f \in Recordings : folders[f] = "complete" => Settled(f)

\* A run starts in an empty workspace.
FreshInv == pc = "idle" \/ Early => folders = NoFolders

FolderInv == FreshInv /\ HalfInv /\ WholeInv

\* The counters count what is there.
CountInv ==
    pc \in Running =>
        /\ IsFiniteSet(Complete(folders)) /\ IsFiniteSet(downloaded)
        /\ counts.datasets = Cardinality(Complete(folders))
        /\ counts.datasets = Cardinality(downloaded)

\* COLMAP files are untouched until all are found, and each is fetched once.
FilesInv ==
    /\ pc = "idle" \/ BeforeColmap \/ missing # {} => colmap = NoColmap
    /\ pc \in {"get", "fetching bin"} => \A b \in bins : colmap[b] = "absent"
    /\ pc = "fetching bin" => colmap[fetch] = "partial"

ColmapCounted ==
    pc \in Running => /\ IsFiniteSet(Complete(colmap))
                      /\ counts.colmap = Cardinality(Complete(colmap))

ColmapInv == FilesInv /\ ColmapCounted

\* The output in the workspace is this attempt's.
OutputInv ==
    /\ pc = "idle" => output = 0
    /\ pc # "down" => output \in {0, attempt}
    /\ pc = "upload" => output = attempt
    /\ outcome = "ok" => uploaded = attempt

IInv ==
    /\ TypeOK /\ PlaceInv
    /\ ~kept => FolderInv /\ CountInv /\ ColmapInv /\ OutputInv
=============================================================================
