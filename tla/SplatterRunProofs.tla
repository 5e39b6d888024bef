-------------------------- MODULE SplatterRunProofs --------------------------
(***************************************************************************)
(* Proofs about SplatterRun: its invariant IInv is inductive for every set *)
(* of items, names, scans, COLMAP files and manifests and for any number   *)
(* of attempts, and it implies what the runner promises about the inputs,  *)
(* the reconstruction and the output of a run.                             *)
(***************************************************************************)
EXTENDS SplatterRun, FiniteSetTheorems, TLAPS

-----------------------------------------------------------------------------
(* The constants, and operators on them.                                   *)

\* The places of a run, one by one.
LEMMA Places ==
    /\ "prepare" \in Running /\ "materialize" \in Running /\ "chunks" \in Running
    /\ "batch" \in Running /\ "fetching item" \in Running /\ "scans" \in Running
    /\ "names" \in Running /\ "fetching scan" \in Running /\ "find" \in Running
    /\ "get" \in Running /\ "fetching bin" \in Running /\ "check" \in Running
    /\ "python" \in Running /\ "waiting" \in Running /\ "upload" \in Running
    /\ "cleanup" \notin Running /\ "idle" \notin Running /\ "down" \notin Running
BY DEF Running

LEMMA BoundIsNat == MaxAttempts \in Nat
BY RunAssumption

\* A manifest holds entries.
LEMMA ManifestTypes ==
    ASSUME NEW m \in Manifests
    PROVE  m.entries \subseteq Entries
<1>1. Manifests \subseteq [entries : SUBSET Entries, refined : BOOLEAN]
  BY RunAssumption
<1> QED BY <1>1

\* What an entry names is an item or a scan id.
LEMMA EntryTypes ==
    ASSUME NEW e \in Entries
    PROVE  /\ e.form = "id" => e.item \in Items
           /\ e.form \in {"scan", "recording"} => ScanIdOf(e) \in Scans \X (0..1)
BY DEF Entries, Url, ScanIdOf

\* An item is a recording or something else.
LEMMA NameOfTypes ==
    ASSUME NEW i \in Items, Wanted(i)
    PROVE  NameOf[i] \in Recordings \ downloaded
<1>1. NameOf \in [Items -> Recordings \cup {Other}]
  BY RunAssumption
<1> QED BY <1>1 DEF Wanted

\* A name that is looked for is a recording's; the first is the scan id itself.
LEMMA NameTypes ==
    ASSUME scan \in Scans \X (0..1), tried \in 0..1
    PROVE  /\ Name \in Recordings
           /\ tried = 0 => Name = scan
           /\ scan \in Recordings
<1>1. PICK s \in Scans, k \in 0..1 : scan = <<s, k>>
  OBVIOUS
<1>2. Name = <<s, k + tried>>
  BY <1>1 DEF Name
<1> QED BY <1>1, <1>2 DEF Recordings

\* A scan id is a folder's name too.
LEMMA ScanIsFolder == Scans \X (0..1) \subseteq Recordings
BY DEF Recordings

\* An empty workspace is a state of the disk.
LEMMA FreshTypes ==
    /\ NoFolders \in [Recordings -> FileStates]
    /\ NoColmap \in [Bins -> FileStates]
BY DEF NoFolders, NoColmap, FileStates

\* It holds nothing.
LEMMA NoFoldersAbsent == \A f \in Recordings : NoFolders[f] = "absent"
BY DEF NoFolders

LEMMA NoColmapAbsent == \A b \in Bins : NoColmap[b] = "absent"
BY DEF NoColmap

-----------------------------------------------------------------------------
(* Steps that end a run early.                                             *)

GivesUp == Checkpoint \/ Failure \/ NoDatasets

\* They conclude, between two transfers, and change nothing else.
LEMMA GivesUpEffect ==
    ASSUME GivesUp
    PROVE  /\ pc \in Running \ {"fetching item", "fetching scan", "fetching bin", "python", "waiting"}
           /\ pc' = "cleanup" /\ outcome' \in {"cancelled", "error"}
           /\ UNCHANGED <<progress, fetch, uploaded, ids, batch, scans, scan, tried,
                          bins, missing, downloaded, counts, folders, unremoved, colmap,
                          output, attempt, manifest, cancelled, kept>>
<1> USE DEF Conclude, Running, inputVars, colmapVars, countVars, fileVars, jobVars
<1>1. CASE Checkpoint
  BY <1>1 DEF Checkpoint, Stopped, StoppedInBatch, StoppedAtName, StoppedAtFind, StoppedAtGet
<1>2. CASE Failure
  BY <1>2 DEF Failure, Fails, NoBinDirectory
<1>3. CASE NoDatasets
  BY <1>3 DEF NoDatasets, Fails
<1> QED BY <1>1, <1>2, <1>3 DEF GivesUp

PipelineStep ==
    \/ StartPython \/ SplatWritten \/ PythonCancelled \/ StreamsEnd
    \/ PythonFails \/ PythonSucceeds \/ Upload

\* The pipeline and the upload leave the inputs alone.
LEMMA PipelineEffect ==
    ASSUME PipelineStep
    PROVE  /\ pc \in {"check", "python", "waiting", "upload"}
           /\ pc' \in {"python", "waiting", "upload", "cleanup"}
           /\ UNCHANGED <<fetch, ids, batch, scans, scan, tried, bins, missing, downloaded,
                          counts, folders, unremoved, colmap, attempt, manifest, cancelled,
                          kept>>
<1> USE DEF Conclude, inputVars, colmapVars, countVars, fileVars, jobVars
<1>1. CASE StartPython
  BY <1>1 DEF StartPython
<1>2. CASE SplatWritten \/ PythonCancelled \/ StreamsEnd \/ PythonFails
  BY <1>2 DEF SplatWritten, PythonCancelled, StreamsEnd, PythonFails
<1>3. CASE PythonSucceeds
  BY <1>3 DEF PythonSucceeds
<1>4. CASE Upload
  BY <1>4 DEF Upload
<1> QED BY <1>1, <1>2, <1>3, <1>4 DEF PipelineStep

\* A transfer ends in one of two ways.
Got ==
    /\ folders' = [folders EXCEPT ![Folder] = "complete"]
    /\ unremoved' = unremoved \ {Folder}
    /\ downloaded' = downloaded \cup {fetch}
    /\ counts' = [counts EXCEPT !.datasets = @ + 1]
    /\ tried' = tried /\ pc' # "names"

Lost ==
    /\ \/ folders' = [folders EXCEPT ![Folder] = "absent"] /\ unremoved' = unremoved \ {Folder}
       \/ /\ \/ folders' = [folders EXCEPT ![Folder] = "empty"]
             \/ folders' = [folders EXCEPT ![Folder] = "partial"]
          /\ unremoved' = unremoved \cup {Folder}
    /\ downloaded' = downloaded /\ counts' = counts
    /\ \/ pc = "fetching item" /\ tried' = tried
       \/ pc = "fetching scan" /\ tried' = tried + 1 /\ pc' = "names"

\* Either way the run goes on, and nothing else changes.
LEMMA FetchedEffect ==
    ASSUME ItemFetched \/ ScanFetched
    PROVE  /\ Got \/ Lost
           /\ \/ pc = "fetching item" /\ pc' \in {"chunks", "batch"}
              \/ pc = "fetching scan" /\ pc' \in {"scans", "names"}
           /\ UNCHANGED <<progress, outcome, fetch, uploaded, ids, batch, scans, scan,
                          bins, missing, colmap, output, attempt, manifest, cancelled,
                          kept>>
<1>1. CASE ItemFetched
  <2>1. PICK ok \in BOOLEAN : FetchEnds(ok)
    BY <1>1 DEF ItemFetched
  <2>2. pc = "fetching item" /\ pc' \in {"chunks", "batch"} /\ tried' = tried
    BY <1>1 DEF ItemFetched, inputVars
  <2>3. Got \/ Lost
    BY <2>1, <2>2 DEF Got, Lost, FetchEnds, Tally, Leaves
  <2> QED
    BY <1>1, <2>2, <2>3 DEF ItemFetched, inputVars, colmapVars, jobVars
<1>2. CASE ScanFetched
  <2>1. PICK ok \in BOOLEAN :
            /\ FetchEnds(ok)
            /\ IF ok THEN pc' = "scans" /\ UNCHANGED tried
                     ELSE pc' = "names" /\ tried' = tried + 1
    BY <1>2 DEF ScanFetched
  <2>2. pc = "fetching scan" /\ pc' \in {"scans", "names"}
    BY <1>2 DEF ScanFetched
  <2>3. Got \/ Lost
    BY <2>1, <2>2 DEF Got, Lost, FetchEnds, Tally, Leaves
  <2> QED
    BY <1>2, <2>2, <2>3 DEF ScanFetched, colmapVars, jobVars
<1> QED BY <1>1, <1>2

-----------------------------------------------------------------------------
(* Types.                                                                  *)

LEMMA InitType == Init => TypeOK
<1> SUFFICES ASSUME Init PROVE TypeOK
  OBVIOUS
<1> USE DEF Init
<1>1. ControlTypes
  BY DEF ControlTypes
<1>2. LocalTypes
  BY DEF LocalTypes
<1>3. CountTypes
  BY DEF CountTypes, NoCounts
<1>4. DiskTypes
  BY FreshTypes DEF DiskTypes
<1>5. AttemptTypes
  BY BoundIsNat DEF AttemptTypes
<1>6. FlagTypes
  BY DEF FlagTypes
<1> QED BY <1>1, <1>2, <1>3, <1>4, <1>5, <1>6 DEF TypeOK


\* No step leaves the places, results and percentages a run has.
LEMMA StepControl == ASSUME ControlTypes, Next PROVE ControlTypes'
<1> USE DEF ControlTypes, Conclude, jobVars
<1>1. CASE Begin
  BY <1>1, Places DEF FreshLocals, Begin
<1>2. CASE Cleanup
  BY <1>2, Places DEF FreshLocals, Cleanup, Remove, WipeWorkspace
<1>3. CASE Restart
  BY <1>3, Places DEF Restart, Remove, WipeWorkspace
<1>4. CASE Die \/ LoseLease
  <2>1. pc' \in {"idle", "down"} /\ progress' = 0 /\ UNCHANGED <<outcome, manifest>>
    BY <1>4 DEF FreshLocals, Die, LoseLease
  <2> QED BY <2>1
<1>5. CASE Cancel
  BY <1>5, Places DEF Cancel
<1>6. CASE GivesUp
  <2>1. /\ pc' = "cleanup" /\ outcome' \in {"cancelled", "error"}
        /\ progress' = progress /\ manifest' = manifest
    BY <1>6, GivesUpEffect
  <2> QED BY <2>1
<1>7. CASE PipelineStep
  <2>1. CASE StartPython
    <3>1. /\ progress' \in {progress, 20, 35} /\ manifest' = manifest
          /\ pc' \in {"cleanup", "python"} /\ outcome' \in {outcome, "error", "cancelled"}
      BY <2>1 DEF StartPython
    <3>2. progress' \in {0, 5, 20, 35, 80, 90, 95, 100}
      BY <3>1
    <3>3. outcome' \in {"none", "ok", "cancelled", "error"} /\ manifest' \in Manifests
      BY <3>1
    <3> QED BY <3>1, <3>2, <3>3, Places
  <2>2. CASE SplatWritten \/ PythonCancelled \/ StreamsEnd \/ PythonFails
    <3>1. /\ progress' = progress /\ manifest' = manifest
          /\ pc' \in {pc, "cleanup", "waiting"} /\ outcome' \in {outcome, "error", "cancelled"}
      BY <2>2 DEF SplatWritten, PythonCancelled, StreamsEnd, PythonFails
    <3>2. progress' \in {0, 5, 20, 35, 80, 90, 95, 100}
      BY <3>1
    <3>3. outcome' \in {"none", "ok", "cancelled", "error"} /\ manifest' \in Manifests
      BY <3>1
    <3>4. pc' \in Running \cup {"cleanup", "idle", "down"}
      BY <3>1, Places
    <3> QED BY <3>2, <3>3, <3>4
  <2>3. CASE PythonSucceeds
    <3>1. /\ progress' \in {progress, 80, 90} /\ manifest' = manifest
          /\ pc' \in {"cleanup", "upload"} /\ outcome' \in {outcome, "error", "cancelled"}
      BY <2>3 DEF PythonSucceeds
    <3>2. progress' \in {0, 5, 20, 35, 80, 90, 95, 100}
      BY <3>1
    <3>3. outcome' \in {"none", "ok", "cancelled", "error"} /\ manifest' \in Manifests
      BY <3>1
    <3> QED BY <3>1, <3>2, <3>3, Places
  <2>4. CASE Upload
    <3>1. /\ progress' \in {progress, 95, 100} /\ manifest' = manifest
          /\ pc' = "cleanup" /\ outcome' \in {"ok", "error", "cancelled"}
      BY <2>4 DEF Upload
    <3>2. progress' \in {0, 5, 20, 35, 80, 90, 95, 100}
      BY <3>1
    <3>3. outcome' \in {"none", "ok", "cancelled", "error"} /\ manifest' \in Manifests
      BY <3>1
    <3> QED BY <3>1, <3>2, <3>3, Places
  <2> QED BY <1>7, <2>1, <2>2, <2>3, <2>4 DEF PipelineStep
<1>8. CASE Prepare
  BY <1>8, Places DEF Prepare
<1>9. CASE ReadManifest
  BY <1>9, Places DEF ReadManifest
<1>10. CASE ListChunk
  BY <1>10, Places DEF ListChunk
<1>11. CASE ChunksDone
  BY <1>11, Places DEF ChunksDone
<1>12. ASSUME NEW i \in Items, SkipItem(i) PROVE ControlTypes'
  BY <1>12, Places DEF SkipItem
<1>13. ASSUME NEW i \in Items, FetchItem(i) PROVE ControlTypes'
  BY <1>13, Places DEF FetchItem
<1>14. CASE ItemFetched
  BY <1>14, Places DEF ItemFetched
<1>15. ASSUME NEW s \in scans, NextScan(s) PROVE ControlTypes'
  BY <1>15, Places DEF NextScan
<1>16. CASE ScanDone
  BY <1>16, Places DEF ScanDone
<1>17. CASE NameNotFound
  BY <1>17, Places DEF NameNotFound
<1>18. CASE NameFound
  BY <1>18, Places DEF NameFound
<1>19. CASE ScanFetched
  BY <1>19, Places DEF ScanFetched
<1>20. CASE ScansDone
  BY <1>20, Places DEF ScansDone
<1>21. ASSUME NEW b \in Bins, FindBin(b) PROVE ControlTypes'
  BY <1>21, Places DEF FindBin
<1>22. ASSUME NEW b \in Bins, GetBin(b) PROVE ControlTypes'
  BY <1>22, Places DEF GetBin
<1>23. CASE BinsFound
  BY <1>23, Places DEF BinsFound
<1>24. CASE BinFetched
  BY <1>24, Places DEF BinFetched
<1>25. CASE BinsDone
  BY <1>25, Places DEF BinsDone
<1> QED
  BY <1>1, <1>2, <1>3, <1>4, <1>5, <1>6, <1>7, <1>8, <1>9, <1>10, <1>11,
    <1>12, <1>13, <1>14, <1>15, <1>16, <1>17, <1>18, <1>19, <1>20, <1>21,
    <1>22, <1>23, <1>24, <1>25 DEF Next, Fetch, Finish, GivesUp, PipelineStep

\* The flags stay flags.
LEMMA StepFlags == ASSUME FlagTypes, Next PROVE FlagTypes'
<1> USE DEF FlagTypes, jobVars
<1>1. CASE Begin
  BY <1>1 DEF FreshLocals, Begin
<1>2. CASE Cleanup \/ Restart
  BY <1>2 DEF FreshLocals, Cleanup, Remove, Restart
<1>3. CASE Cancel
  BY <1>3 DEF Cancel
<1>4. CASE Die \/ LoseLease \/ GivesUp \/ PipelineStep \/ Prepare
  BY <1>4, GivesUpEffect, PipelineEffect DEF FreshLocals, Die, LoseLease, Prepare
<1>5. CASE ReadManifest \/ ListChunk \/ ChunksDone \/ ItemFetched
  BY <1>5 DEF ReadManifest, ListChunk, ChunksDone, ItemFetched
<1>6. CASE ScanDone \/ NameNotFound \/ NameFound \/ ScanFetched
  BY <1>6 DEF ScanDone, NameNotFound, NameFound, ScanFetched
<1>7. CASE ScansDone \/ BinsFound \/ BinFetched \/ BinsDone
  BY <1>7 DEF ScansDone, BinsFound, BinFetched, BinsDone
<1>8. ASSUME NEW i \in Items, SkipItem(i) \/ FetchItem(i) PROVE FlagTypes'
  BY <1>8 DEF SkipItem, FetchItem
<1>9. ASSUME NEW s \in scans, NextScan(s) PROVE FlagTypes'
  BY <1>9 DEF NextScan
<1>10. ASSUME NEW b \in Bins, FindBin(b) \/ GetBin(b) PROVE FlagTypes'
  BY <1>10 DEF FindBin, GetBin
<1> QED
  BY <1>1, <1>2, <1>3, <1>4, <1>5, <1>6, <1>7, <1>8, <1>9, <1>10 DEF Next,
    Fetch, Finish, GivesUp, PipelineStep

\* No step leaves the items, the scans and the files a run looks at.
LEMMA StepLocals == ASSUME TypeOK, PlaceInv, Next PROVE LocalTypes'
<1> USE DEF LocalTypes, inputVars, colmapVars, countVars
<1>t. LocalTypes /\ ControlTypes
  BY DEF TypeOK
<1>1. CASE ReadManifest
  <2>1. manifest.entries \subseteq Entries
    BY <1>t, ManifestTypes DEF ControlTypes
  <2>2. ids' \subseteq Items /\ scans' \subseteq Scans \X (0..1)
    BY <1>1, <2>1, EntryTypes DEF ReadManifest
  <2> QED BY <1>1, <1>t, <2>2 DEF ReadManifest
<1>2. ASSUME NEW i \in Items, FetchItem(i) PROVE LocalTypes'
  BY <1>2, <1>t, NameOfTypes DEF FetchItem, StartFetch
<1>3. CASE ItemFetched \/ ScanFetched
  <2>1. fetch \in Recordings /\ (pc = "fetching scan" => tried # 2)
    BY <1>3 DEF PlaceInv, Fetching, ItemFetched, ScanFetched
  <2>2. downloaded' \subseteq Recordings
    <3>1. downloaded' \in {downloaded, downloaded \cup {fetch}}
      BY <1>3, FetchedEffect DEF Got, Lost
    <3> QED BY <3>1, <2>1, <1>t
  <2>3. tried' = tried \/ (tried # 2 /\ tried' = tried + 1)
    BY <1>3, <2>1, FetchedEffect DEF Got, Lost
  <2>4. tried' \in 0..2
    BY <2>3, <1>t
  <2> QED BY <1>3, <1>t, <2>2, <2>4, FetchedEffect
<1>4. CASE NameFound
  <2>1. scan \in Scans \X (0..1) /\ tried \in 0..1
    <3>1. tried # 2 /\ scan \in Scans \X (0..1)
      BY <1>4 DEF NameFound, Resolved, PlaceInv, Resolving
    <3> QED BY <3>1, <1>t
  <2>2. fetch' \in Recordings
    BY <1>4, <2>1, NameTypes DEF NameFound, StartFetch
  <2> QED BY <1>4, <1>t, <2>2 DEF NameFound
<1>5. CASE NameNotFound
  BY <1>5, <1>t DEF NameNotFound, Resolved
<1>6. ASSUME NEW s \in scans, NextScan(s) PROVE LocalTypes'
  BY <1>6, <1>t DEF NextScan
<1>7. CASE ListChunk
  BY <1>7, <1>t DEF ListChunk
<1>8. CASE Begin \/ Cleanup \/ Restart \/ Die \/ LoseLease
  BY <1>8, <1>t DEF FreshLocals, Begin, Cleanup, Restart, Die, LoseLease
<1>9. CASE Cancel \/ GivesUp \/ PipelineStep \/ Prepare
  BY <1>9, <1>t, GivesUpEffect, PipelineEffect DEF Cancel, Prepare
<1>10. CASE ChunksDone \/ ScanDone \/ ScansDone \/ BinsFound
  BY <1>10, <1>t DEF ChunksDone, ScanDone, ScansDone, BinsFound
<1>11. CASE BinFetched \/ BinsDone
  BY <1>11, <1>t DEF BinFetched, BinsDone
<1>12. ASSUME NEW i \in Items, SkipItem(i) PROVE LocalTypes'
  BY <1>12, <1>t DEF SkipItem
<1>13. ASSUME NEW b \in Bins, FindBin(b) \/ GetBin(b) PROVE LocalTypes'
  BY <1>13, <1>t DEF FindBin, GetBin
<1> QED
  BY <1>1, <1>2, <1>3, <1>4, <1>5, <1>6, <1>7, <1>8, <1>9, <1>10, <1>11,
    <1>12, <1>13 DEF Next, Fetch, Finish, GivesUp, PipelineStep

\* The counters stay natural numbers.
LEMMA StepCounts == ASSUME TypeOK, Next PROVE CountTypes'
<1> USE DEF CountTypes, countVars
<1>t. CountTypes /\ LocalTypes
  BY DEF TypeOK
<1>1. CASE Begin
  BY <1>1, <1>t DEF FreshLocals, Begin, NoCounts
<1>2. CASE ItemFetched \/ ScanFetched
  <2>1. CASE Got
    BY <2>1, <1>t DEF Got
  <2>2. CASE Lost
    BY <2>2, <1>t DEF Lost
  <2> QED BY <1>2, <2>1, <2>2, FetchedEffect
<1>3. CASE BinsFound
  <2>1. Cardinality(missing) \in Nat
    BY <1>t, RunAssumption, FS_Subset, FS_CardinalityType DEF LocalTypes
  <2> QED BY <1>3, <1>t, <2>1 DEF BinsFound
<1>4. CASE BinFetched
  <2>1. counts' = [counts EXCEPT !.colmap = counts.colmap + 1]
        \/ counts' = [counts EXCEPT !.colmapFailed = counts.colmapFailed + 1]
    BY <1>4 DEF BinFetched
  <2> QED BY <2>1, <1>t
<1>5. CASE Cleanup \/ Restart \/ Die \/ LoseLease \/ Cancel
  BY <1>5, <1>t DEF FreshLocals, NoCounts, Cleanup, Restart, Die, LoseLease, Cancel
<1>6. CASE GivesUp \/ PipelineStep \/ Prepare \/ ReadManifest
  BY <1>6, <1>t, GivesUpEffect, PipelineEffect DEF Prepare, ReadManifest
<1>7. CASE ListChunk \/ ChunksDone \/ ScanDone \/ NameNotFound
  BY <1>7, <1>t DEF ListChunk, ChunksDone, ScanDone, NameNotFound
<1>8. CASE NameFound \/ ScansDone \/ BinsDone
  BY <1>8, <1>t DEF NameFound, ScansDone, BinsDone
<1>9. ASSUME NEW i \in Items, SkipItem(i) \/ FetchItem(i) PROVE CountTypes'
  BY <1>9, <1>t DEF SkipItem, FetchItem
<1>10. ASSUME NEW s \in scans, NextScan(s) PROVE CountTypes'
  BY <1>10, <1>t DEF NextScan
<1>11. ASSUME NEW b \in Bins, FindBin(b) \/ GetBin(b) PROVE CountTypes'
  BY <1>11, <1>t DEF FindBin, GetBin
<1> QED
  BY <1>1, <1>2, <1>3, <1>4, <1>5, <1>6, <1>7, <1>8, <1>9, <1>10, <1>11 DEF
    Next, Fetch, Finish, GivesUp, PipelineStep

\* What is on the disk stays typed.
LEMMA StepDisk == ASSUME TypeOK, PlaceInv, Next PROVE DiskTypes'
<1> USE DEF DiskTypes, fileVars
<1>t. DiskTypes
  BY DEF TypeOK
<1>1. CASE Cleanup
  BY <1>1, <1>t, FreshTypes DEF FreshLocals, Cleanup, Remove, WipeWorkspace
<1>2. CASE Restart
  BY <1>2, <1>t, FreshTypes DEF Restart, Remove, WipeWorkspace
<1>3. ASSUME NEW i \in Items, FetchItem(i) PROVE DiskTypes'
  BY <1>3, <1>t DEF FetchItem, StartFetch, FileStates
<1>4. CASE ItemFetched \/ ScanFetched
  <2>1. Folder \in Recordings
    BY <1>4, ScanIsFolder DEF PlaceInv, Fetching, Resolving, Folder, ItemFetched, ScanFetched
  <2>2. unremoved' \subseteq Recordings
    BY <1>4, <1>t, <2>1, FetchedEffect DEF Got, Lost
  <2>3. \E state \in FileStates : folders' = [folders EXCEPT ![Folder] = state]
    BY <1>4, FetchedEffect DEF Got, Lost, FileStates
  <2>4. folders' \in [Recordings -> FileStates] /\ colmap' = colmap
    BY <1>4, <1>t, <2>3, FetchedEffect
  <2> QED BY <1>t, <2>2, <2>4
<1>5. CASE NameFound
  BY <1>5, <1>t DEF NameFound, StartFetch, FileStates
<1>6. ASSUME NEW b \in Bins, GetBin(b) PROVE DiskTypes'
  BY <1>6, <1>t DEF GetBin, FileStates
<1>7. CASE BinFetched
  BY <1>7, <1>t DEF BinFetched, FileStates
<1>8. CASE Begin \/ Die \/ LoseLease \/ Cancel \/ GivesUp
  BY <1>8, <1>t, GivesUpEffect DEF FreshLocals, Begin, Die, LoseLease, Cancel
<1>9. CASE PipelineStep \/ Prepare \/ ReadManifest \/ ListChunk
  BY <1>9, <1>t, PipelineEffect DEF Prepare, ReadManifest, ListChunk
<1>10. CASE ChunksDone \/ ScanDone \/ NameNotFound \/ ScansDone
  BY <1>10, <1>t DEF ChunksDone, ScanDone, NameNotFound, ScansDone
<1>11. CASE BinsFound \/ BinsDone
  BY <1>11, <1>t DEF BinsFound, BinsDone
<1>12. ASSUME NEW i \in Items, SkipItem(i) PROVE DiskTypes'
  BY <1>12, <1>t DEF SkipItem
<1>13. ASSUME NEW s \in scans, NextScan(s) PROVE DiskTypes'
  BY <1>13, <1>t DEF NextScan
<1>14. ASSUME NEW b \in Bins, FindBin(b) PROVE DiskTypes'
  BY <1>14, <1>t DEF FindBin
<1> QED
  BY <1>1, <1>2, <1>3, <1>4, <1>5, <1>6, <1>7, <1>8, <1>9, <1>10, <1>11,
    <1>12, <1>13, <1>14 DEF Next, Fetch, Finish, GivesUp, PipelineStep

\* No output is from an attempt that was not made.
LEMMA StepAttempt == ASSUME TypeOK, Next PROVE AttemptTypes'
<1> USE DEF AttemptTypes, fileVars, jobVars
<1>t. AttemptTypes
  BY DEF TypeOK
<1>1. CASE Begin
  BY <1>1, <1>t, BoundIsNat DEF FreshLocals, Begin
<1>2. CASE Cleanup
  BY <1>2, <1>t, BoundIsNat DEF FreshLocals, Cleanup, Remove, WipeWorkspace
<1>3. CASE Restart
  BY <1>3, <1>t, BoundIsNat DEF Restart, Remove, WipeWorkspace
<1>4. CASE PipelineStep
  <2>1. attempt' = attempt /\ uploaded' \in {uploaded, output} /\ output' \in {output, attempt}
    BY <1>4 DEF PipelineStep, StartPython, SplatWritten, PythonCancelled, StreamsEnd, PythonFails,
      PythonSucceeds, Upload
  <2> QED BY <1>4, <1>t, BoundIsNat, <2>1
<1>5. CASE Die \/ LoseLease \/ Cancel \/ GivesUp \/ Prepare
  BY <1>5, <1>t, BoundIsNat, GivesUpEffect DEF FreshLocals, Die, LoseLease, Cancel, Prepare
<1>6. CASE ReadManifest \/ ListChunk \/ ChunksDone \/ ItemFetched
  BY <1>6, <1>t, BoundIsNat DEF ReadManifest, ListChunk, ChunksDone,
    ItemFetched
<1>7. CASE ScanDone \/ NameNotFound \/ NameFound \/ ScanFetched
  BY <1>7, <1>t, BoundIsNat DEF ScanDone, NameNotFound, NameFound, ScanFetched
<1>8. CASE ScansDone \/ BinsFound \/ BinFetched \/ BinsDone
  BY <1>8, <1>t, BoundIsNat DEF ScansDone, BinsFound, BinFetched, BinsDone
<1>9. ASSUME NEW i \in Items, SkipItem(i) \/ FetchItem(i) PROVE AttemptTypes'
  BY <1>9, <1>t, BoundIsNat DEF SkipItem, FetchItem
<1>10. ASSUME NEW s \in scans, NextScan(s) PROVE AttemptTypes'
  BY <1>10, <1>t, BoundIsNat DEF NextScan
<1>11. ASSUME NEW b \in Bins, FindBin(b) \/ GetBin(b) PROVE AttemptTypes'
  BY <1>11, <1>t, BoundIsNat DEF FindBin, GetBin
<1> QED
  BY <1>1, <1>2, <1>3, <1>4, <1>5, <1>6, <1>7, <1>8, <1>9, <1>10, <1>11 DEF
    Next, Fetch, Finish, GivesUp, PipelineStep

-----------------------------------------------------------------------------
(* What is being fetched, found or resolved.                               *)

\* A scan whose recording is looked for, and not there under this name, has
\* no recording under its first name either.
LEMMA Unresolved ==
    ASSUME TypeOK, PlaceInv, Resolving, tried # 2, Name \notin downloaded
    PROVE  Name \in Recordings /\ scan \in Recordings \ downloaded
<1>1. tried \in 0..2
  BY DEF TypeOK, LocalTypes
<1>2. tried \in 0..1
  BY <1>1
<1>3. scan \in Scans \X (0..1)
  BY DEF PlaceInv
<1>4. tried > 0 => scan \notin downloaded
  BY DEF PlaceInv
<1>5. tried = 0 => scan \notin downloaded
  BY <1>2, <1>3, NameTypes
<1> QED
  BY <1>2, <1>3, <1>4, <1>5, NameTypes

\* Nothing that is there is fetched again.
LEMMA StepPlace == ASSUME TypeOK, PlaceInv, Next PROVE PlaceInv'
<1> USE DEF PlaceInv, Fetching, Resolving, Early, inputVars, colmapVars,
  countVars
<1>t. scans \subseteq Scans \X (0..1) /\ tried \in 0..2
  BY DEF TypeOK, LocalTypes
<1>1. CASE Begin
  BY <1>1, <1>t DEF FreshLocals, Begin, NoCounts
<1>2. CASE Cleanup
  BY <1>2, <1>t DEF FreshLocals, Cleanup
<1>3. CASE Restart
  BY <1>3, <1>t DEF Restart
<1>4. CASE Die \/ LoseLease
  BY <1>4, <1>t DEF FreshLocals, Die, LoseLease
<1>5. CASE Cancel
  BY <1>5, <1>t DEF Cancel, Name
<1>6. CASE GivesUp
  BY <1>6, <1>t, GivesUpEffect
<1>7. CASE PipelineStep
  BY <1>7, <1>t, PipelineEffect
<1>8. CASE Prepare
  BY <1>8, <1>t DEF Prepare
<1>9. CASE ReadManifest
  BY <1>9, <1>t DEF ReadManifest
<1>10. CASE ListChunk
  BY <1>10, <1>t DEF ListChunk
<1>11. CASE ChunksDone
  BY <1>11, <1>t DEF ChunksDone
<1>12. ASSUME NEW i \in Items, SkipItem(i) PROVE PlaceInv'
  BY <1>12, <1>t DEF SkipItem
<1>13. ASSUME NEW i \in Items, FetchItem(i) PROVE PlaceInv'
  BY <1>13, NameOfTypes DEF FetchItem, StartFetch, countVars
<1>14. CASE ItemFetched
  BY <1>14, <1>t DEF ItemFetched
<1>15. ASSUME NEW s \in scans, NextScan(s) PROVE PlaceInv'
  BY <1>15, <1>t DEF NextScan
<1>16. CASE ScanDone
  BY <1>16, <1>t DEF ScanDone
<1>17. CASE NameNotFound
  <2>1. Resolving /\ tried # 2 /\ Name \notin downloaded
    BY <1>17 DEF NameNotFound, Resolved
  <2>2. scan \notin downloaded
    BY <2>1, Unresolved
  <2> QED BY <1>17, <2>2 DEF NameNotFound
<1>18. CASE NameFound
  <2>1. Resolving /\ tried # 2 /\ Name \notin downloaded
    BY <1>18 DEF NameFound, Resolved
  <2>2. Name \in Recordings /\ scan \in Recordings \ downloaded
    BY <2>1, Unresolved
  <2>3. fetch' = Name /\ Name' = Name /\ pc' = "fetching scan"
    BY <1>18 DEF NameFound, StartFetch, Name
  <2> QED BY <1>18, <2>1, <2>2, <2>3 DEF NameFound
<1>19. CASE ScanFetched
  <2>1. Resolving /\ tried # 2 /\ fetch = Name /\ fetch \notin downloaded
    BY <1>19 DEF ScanFetched
  <2>2. scan \notin downloaded
    BY <2>1, Unresolved
  <2>3. pc' \in {"scans", "names"} /\ UNCHANGED <<scans, scan>>
    BY <1>19, FetchedEffect DEF ScanFetched
  <2>4. pc' = "names" => downloaded' = downloaded
    BY <1>19, FetchedEffect DEF Got, Lost
  <2> QED BY <2>1, <2>2, <2>3, <2>4
<1>20. CASE ScansDone
  BY <1>20, <1>t DEF ScansDone
<1>21. ASSUME NEW b \in Bins, FindBin(b) PROVE PlaceInv'
  BY <1>21, <1>t DEF FindBin
<1>22. ASSUME NEW b \in Bins, GetBin(b) PROVE PlaceInv'
  BY <1>22, <1>t DEF GetBin
<1>23. CASE BinsFound
  BY <1>23, <1>t DEF BinsFound
<1>24. CASE BinFetched
  BY <1>24, <1>t DEF BinFetched
<1>25. CASE BinsDone
  BY <1>25, <1>t DEF BinsDone
<1> QED
  BY <1>1, <1>2, <1>3, <1>4, <1>5, <1>6, <1>7, <1>8, <1>9, <1>10, <1>11,
    <1>12, <1>13, <1>14, <1>15, <1>16, <1>17, <1>18, <1>19, <1>20, <1>21,
    <1>22, <1>23, <1>24, <1>25 DEF Next, Fetch, Finish, GivesUp, PipelineStep

\* A run starts in an empty workspace.
LEMMA StepFresh == ASSUME FreshInv, ~kept', Next PROVE FreshInv'
<1> USE DEF FreshInv, Early, fileVars
<1>1. CASE Begin
  BY <1>1 DEF FreshLocals, Begin
<1>2. CASE Cleanup \/ Restart
  BY <1>2 DEF FreshLocals, Cleanup, Remove, WipeWorkspace, Restart
<1>3. CASE Prepare
  BY <1>3 DEF Prepare
<1>4. CASE ReadManifest
  BY <1>4 DEF ReadManifest
<1>5. CASE Die \/ LoseLease \/ Cancel \/ GivesUp \/ PipelineStep
  BY <1>5, GivesUpEffect, PipelineEffect DEF FreshLocals, Die, LoseLease, Cancel
<1>6. CASE ListChunk \/ ChunksDone \/ ItemFetched \/ ScanDone
  BY <1>6 DEF ListChunk, ChunksDone, ItemFetched, ScanDone
<1>7. CASE NameNotFound \/ NameFound \/ ScanFetched \/ ScansDone
  BY <1>7 DEF NameNotFound, NameFound, ScanFetched, ScansDone
<1>8. CASE BinsFound \/ BinFetched \/ BinsDone
  BY <1>8 DEF BinsFound, BinFetched, BinsDone
<1>9. ASSUME NEW i \in Items, SkipItem(i) \/ FetchItem(i) PROVE FreshInv'
  BY <1>9 DEF SkipItem, FetchItem
<1>10. ASSUME NEW s \in scans, NextScan(s) PROVE FreshInv'
  BY <1>10 DEF NextScan
<1>11. ASSUME NEW b \in Bins, FindBin(b) \/ GetBin(b) PROVE FreshInv'
  BY <1>11 DEF FindBin, GetBin
<1> QED
  BY <1>1, <1>2, <1>3, <1>4, <1>5, <1>6, <1>7, <1>8, <1>9, <1>10, <1>11 DEF
    Next, Fetch, Finish, GivesUp, PipelineStep

\* A folder without a whole recording is being fetched into or was not removed.
LEMMA StepHalf == ASSUME TypeOK, PlaceInv, HalfInv, ~kept', Next PROVE HalfInv'
<1> USE DEF HalfInv, Fetching, Folder, inputVars, fileVars
<1>t. DiskTypes
  BY DEF TypeOK
<1>f. ASSUME ItemFetched \/ ScanFetched PROVE HalfInv'
  <2>1. pc # "down" /\ pc' # "down" /\ Fetching /\ ~Fetching'
    BY <1>f, FetchedEffect
  <2>2. Folder \in Recordings
    BY <2>1, ScanIsFolder DEF PlaceInv, Resolving
  <2>3. \A f \in Recordings \ {Folder} : folders[f] \in {"partial", "empty"} <=> f \in unremoved
    BY <2>1
  <2>4. CASE Got
    <3>1. /\ folders' = [folders EXCEPT ![Folder] = "complete"]
          /\ unremoved' = unremoved \ {Folder}
      BY <2>4 DEF Got
    <3>2. \A f \in Recordings : folders'[f] \in {"partial", "empty"} <=> f \in unremoved'
      BY <3>1, <2>2, <2>3, <1>t DEF DiskTypes
    <3> QED BY <3>2, <2>1
  <2>5. CASE Lost
    <3>1. \A f \in Recordings : folders'[f] \in {"partial", "empty"} <=> f \in unremoved'
      BY <2>5, <2>2, <2>3, <1>t DEF DiskTypes, Lost
    <3> QED BY <3>1, <2>1
  <2> QED BY <1>f, <2>4, <2>5, FetchedEffect
<1>1. CASE Begin
  BY <1>1, <1>t DEF FreshLocals, Begin
<1>2. CASE Cleanup
  BY <1>2, <1>t, NoFoldersAbsent DEF FreshLocals, Cleanup, Remove, WipeWorkspace
<1>3. CASE Restart
  BY <1>3, <1>t, NoFoldersAbsent DEF Restart, Remove, WipeWorkspace
<1>4. CASE Die \/ LoseLease
  BY <1>4, <1>t DEF FreshLocals, Die, LoseLease
<1>5. CASE Cancel
  BY <1>5, <1>t DEF Cancel
<1>6. CASE GivesUp
  BY <1>6, <1>t, Places, GivesUpEffect
<1>7. CASE PipelineStep
  BY <1>7, <1>t, PipelineEffect
<1>8. CASE Prepare
  BY <1>8, <1>t DEF Prepare
<1>9. CASE ReadManifest
  BY <1>9, <1>t DEF ReadManifest
<1>10. CASE ListChunk
  BY <1>10, <1>t DEF ListChunk
<1>11. CASE ChunksDone
  BY <1>11, <1>t DEF ChunksDone
<1>12. ASSUME NEW i \in Items, SkipItem(i) PROVE HalfInv'
  BY <1>12, <1>t DEF SkipItem
<1>13. ASSUME NEW i \in Items, FetchItem(i) PROVE HalfInv'
  BY <1>13, <1>t, NameOfTypes DEF FetchItem, StartFetch, DiskTypes
<1>14. CASE ItemFetched
  BY <1>14, <1>f
<1>15. ASSUME NEW s \in scans, NextScan(s) PROVE HalfInv'
  BY <1>15, <1>t DEF NextScan
<1>16. CASE ScanDone
  BY <1>16, <1>t DEF ScanDone
<1>17. CASE NameNotFound
  BY <1>17, <1>t DEF NameNotFound
<1>18. CASE NameFound
  BY <1>18, <1>t DEF NameFound, StartFetch, DiskTypes
<1>19. CASE ScanFetched
  BY <1>19, <1>f
<1>20. CASE ScansDone
  BY <1>20, <1>t DEF ScansDone
<1>21. ASSUME NEW b \in Bins, FindBin(b) PROVE HalfInv'
  BY <1>21, <1>t DEF FindBin
<1>22. ASSUME NEW b \in Bins, GetBin(b) PROVE HalfInv'
  BY <1>22, <1>t DEF GetBin
<1>23. CASE BinsFound
  BY <1>23, <1>t DEF BinsFound
<1>24. CASE BinFetched
  BY <1>24, <1>t DEF BinFetched
<1>25. CASE BinsDone
  BY <1>25, <1>t DEF BinsDone
<1> QED
  BY <1>1, <1>2, <1>3, <1>4, <1>5, <1>6, <1>7, <1>8, <1>9, <1>10, <1>11,
    <1>12, <1>13, <1>14, <1>15, <1>16, <1>17, <1>18, <1>19, <1>20, <1>21,
    <1>22, <1>23, <1>24, <1>25 DEF Next, Fetch, Finish, GivesUp, PipelineStep

\* A whole recording is where its name, or its scan, puts it.
LEMMA StepWhole == ASSUME TypeOK, PlaceInv, FolderInv, ~kept', Next PROVE WholeInv'
<1> USE DEF Settled, Resolving, inputVars, countVars, fileVars
<1> SUFFICES ASSUME pc' \in Running, NEW f \in Recordings, folders'[f] = "complete"
             PROVE  Settled(f)'
  BY DEF WholeInv
<1>t. pc \in Running /\ folders[f] = "complete" => Settled(f)
  BY DEF FolderInv, WholeInv
<1>d. folders \in [Recordings -> FileStates]
  BY DEF TypeOK, DiskTypes
<1>1. CASE Begin
  BY <1>1, NoFoldersAbsent DEF FreshLocals, Begin, FolderInv, FreshInv
<1>2. CASE Cleanup \/ Restart
  BY <1>2, <1>t, Places, NoFoldersAbsent, NoFoldersAbsent DEF FreshLocals, Cleanup, Remove,
    WipeWorkspace, Restart
<1>3. CASE Die \/ LoseLease
  BY <1>3, <1>t, Places DEF FreshLocals, Die, LoseLease
<1>4. CASE Cancel
  BY <1>4, <1>t, Places DEF Cancel
<1>5. CASE GivesUp
  BY <1>5, <1>t, Places, GivesUpEffect
<1>6. CASE PipelineStep
  BY <1>6, <1>t, Places, PipelineEffect
<1>7. CASE Prepare
  BY <1>7, <1>t, Places DEF Prepare
<1>8. CASE ReadManifest
  BY <1>8, NoFoldersAbsent DEF ReadManifest, FolderInv, FreshInv, Early
<1>9. CASE ListChunk \/ ChunksDone
  BY <1>9, <1>t, Places DEF ListChunk, ChunksDone
<1>10. ASSUME NEW i \in Items, SkipItem(i) PROVE Settled(f)'
  BY <1>10, <1>t, Places DEF SkipItem
<1>11. ASSUME NEW i \in Items, FetchItem(i) PROVE Settled(f)'
  BY <1>11, <1>d, <1>t, NameOfTypes, Places DEF FetchItem, StartFetch
<1>12. CASE ItemFetched \/ ScanFetched
  <2>1. pc \in Running /\ UNCHANGED <<scan, scans, fetch>>
    BY <1>12, FetchedEffect, Places
  <2>2. CASE Lost
    BY <2>1, <2>2, <1>d, <1>t, <1>12, FetchedEffect DEF Lost, Folder
  <2>3. CASE Got /\ pc = "fetching item"
    BY <2>1, <2>3, <1>d, <1>t, <1>12, FetchedEffect DEF Got, Folder
  <2>4. CASE Got /\ pc = "fetching scan"
    BY <2>1, <2>4, <1>d, <1>t, <1>12, FetchedEffect DEF Got, Folder, PlaceInv
  <2> QED BY <1>12, <2>2, <2>3, <2>4, FetchedEffect
<1>13. ASSUME NEW s \in scans, NextScan(s) PROVE Settled(f)'
  BY <1>13, <1>t, Places DEF NextScan
<1>14. CASE NameFound
  BY <1>14, <1>d, <1>t, Places DEF NameFound, StartFetch, PlaceInv
<1>15. ASSUME NEW b \in Bins, FindBin(b) \/ GetBin(b) PROVE Settled(f)'
  BY <1>15, <1>t, Places DEF FindBin, GetBin
<1>16. CASE ScanDone \/ NameNotFound
  BY <1>16, <1>t, Places DEF ScanDone, NameNotFound
<1>17. CASE ScansDone \/ BinsFound
  BY <1>17, <1>t, Places DEF ScansDone, BinsFound
<1>18. CASE BinFetched \/ BinsDone
  BY <1>18, <1>t, Places DEF BinFetched, BinsDone
<1> QED
  BY <1>1, <1>2, <1>3, <1>4, <1>5, <1>6, <1>7, <1>8, <1>9, <1>10, <1>11,
    <1>12, <1>13, <1>14, <1>15, <1>16, <1>17, <1>18 DEF Next, Fetch, Finish,
    GivesUp, PipelineStep

-----------------------------------------------------------------------------
(* What the counters count.                                                *)

\* One transfer adds one whole file, or none.
LEMMA CompleteOne ==
    ASSUME NEW S, NEW files \in [S -> FileStates], NEW x \in S, files[x] # "complete"
    PROVE  /\ Complete([files EXCEPT ![x] = "complete"]) = Complete(files) \cup {x}
           /\ x \notin Complete(files)
           /\ Complete([files EXCEPT ![x] = "partial"]) = Complete(files)
           /\ Complete([files EXCEPT ![x] = "absent"]) = Complete(files)
           /\ Complete([files EXCEPT ![x] = "empty"]) = Complete(files)
BY DEF Complete

\* An empty workspace has none.
LEMMA CompleteNone == Complete(NoFolders) = {} /\ Complete(NoColmap) = {}
BY DEF Complete, NoFolders, NoColmap

\* The dataset counter counts files and names alike.
LEMMA StepCount == ASSUME TypeOK, PlaceInv, FolderInv, CountInv, ~kept', Next PROVE CountInv'
<1> USE DEF countVars, fileVars
<1> DEFINE Counted == /\ IsFiniteSet(Complete(folders)) /\ IsFiniteSet(downloaded)
                      /\ counts.datasets = Cardinality(Complete(folders))
                      /\ counts.datasets = Cardinality(downloaded)
<1>t. pc \in Running => Counted
  BY DEF CountInv
<1>n. counts \in [datasets : Nat, colmap : Nat, colmapFailed : Nat]
  BY DEF TypeOK, CountTypes
<1>d. folders \in [Recordings -> FileStates]
  BY DEF TypeOK, DiskTypes
<1>e. CountInv' <=> (pc' \in Running => Counted')
  BY DEF CountInv
<1>u. pc \in Running /\ UNCHANGED <<folders, counts, downloaded>> => CountInv'
  BY <1>t, <1>e
<1>c. ASSUME pc \in Running, Complete(folders)' = Complete(folders),
             counts'.datasets = counts.datasets, downloaded' = downloaded
      PROVE  CountInv'
  BY <1>c, <1>t, <1>e
<1> HIDE DEF Counted
<1>1. CASE Begin
  <2>1. CASE pc' = "idle"
    BY <2>1, <1>e, Places
  <2>2. folders' = NoFolders /\ downloaded' = {} /\ counts'.datasets = 0
    BY <1>1 DEF FreshLocals, Begin, FolderInv, FreshInv, NoCounts
  <2>3. Counted'
    BY <2>2, CompleteNone, FS_EmptySet DEF Counted
  <2> QED BY <2>3, <1>e
<1>2. CASE Cleanup \/ Restart \/ Die \/ LoseLease
  BY <1>2, <1>e, Places DEF FreshLocals, Cleanup, Restart, Die, LoseLease
<1>3. CASE Cancel
  BY <1>3, <1>u DEF Cancel
<1>4. CASE GivesUp \/ PipelineStep
  BY <1>4, <1>u, GivesUpEffect, PipelineEffect, Places
<1>5. CASE Prepare \/ ReadManifest \/ ListChunk \/ ChunksDone
  BY <1>5, <1>u, Places DEF Prepare, ReadManifest, ListChunk, ChunksDone
<1>6. ASSUME NEW i \in Items, SkipItem(i) PROVE CountInv'
  BY <1>6, <1>u, Places DEF SkipItem
<1>7. ASSUME NEW i \in Items, FetchItem(i) PROVE CountInv'
  <2>1. NameOf[i] \in Recordings \ downloaded
    BY <1>7, NameOfTypes DEF FetchItem
  <2>2. folders[NameOf[i]] # "complete"
    BY <1>7, <2>1, Places DEF FetchItem, FolderInv, WholeInv, Settled
  <2>3. Complete(folders)' = Complete(folders)
    <3>1. folders' = [folders EXCEPT ![NameOf[i]] = "partial"]
      BY <1>7 DEF FetchItem, StartFetch
    <3> QED BY <3>1, <2>1, <2>2, <1>d, CompleteOne
  <2>4. pc \in Running /\ counts' = counts /\ downloaded' = downloaded
    BY <1>7, Places DEF FetchItem
  <2> QED BY <2>3, <2>4, <1>c
<1>8. CASE ItemFetched \/ ScanFetched
  <2>1. Fetching /\ pc \in Running
    BY <1>8, FetchedEffect, Places DEF Fetching
  <2>2. fetch \in Recordings \ downloaded /\ Folder \in Recordings
    BY <2>1, ScanIsFolder DEF PlaceInv, Fetching, Folder, Resolving
  <2>3. folders[Folder] \in {"partial", "empty"}
    BY <2>1, <2>2, Places DEF FolderInv, HalfInv
  <2>4. Counted
    BY <2>1, <1>t
  <2>5. CASE Got
    <3>1. Complete(folders)' = Complete(folders) \cup {Folder} /\ Folder \notin Complete(folders)
      <4>1. folders' = [folders EXCEPT ![Folder] = "complete"]
        BY <2>5 DEF Got
      <4>2. folders[Folder] # "complete"
        BY <2>3
      <4>3. Complete([folders EXCEPT ![Folder] = "complete"]) = Complete(folders) \cup {Folder}
        BY <2>2, <1>d DEF Complete
      <4>4. Folder \notin Complete(folders)
        BY <4>2 DEF Complete
      <4> QED BY <4>1, <4>3, <4>4
    <3>2. downloaded' = downloaded \cup {fetch} /\ fetch \notin downloaded
      BY <2>5, <2>2 DEF Got
    <3>3. counts'.datasets = counts.datasets + 1
      BY <2>5, <1>n DEF Got
    <3>4. /\ IsFiniteSet(Complete(folders)')
          /\ Cardinality(Complete(folders)') = Cardinality(Complete(folders)) + 1
      BY <3>1, <2>4, FS_AddElement DEF Counted
    <3>5. IsFiniteSet(downloaded') /\ Cardinality(downloaded') = Cardinality(downloaded) + 1
      BY <3>2, <2>4, FS_AddElement DEF Counted
    <3>6. Counted'
      BY <3>3, <3>4, <3>5, <2>4 DEF Counted
    <3> QED BY <3>6, <1>e
  <2>6. CASE Lost
    <3>1. Complete(folders)' = Complete(folders)
      <4>1. \/ folders' = [folders EXCEPT ![Folder] = "absent"]
            \/ folders' = [folders EXCEPT ![Folder] = "empty"]
            \/ folders' = [folders EXCEPT ![Folder] = "partial"]
        BY <2>6 DEF Lost
      <4>2. folders[Folder] # "complete"
        BY <2>3
      <4>3. /\ Complete([folders EXCEPT ![Folder] = "absent"]) = Complete(folders)
            /\ Complete([folders EXCEPT ![Folder] = "empty"]) = Complete(folders)
            /\ Complete([folders EXCEPT ![Folder] = "partial"]) = Complete(folders)
        BY <4>2, <2>2, <1>d DEF Complete
      <4> QED BY <4>1, <4>3
    <3>2. downloaded' = downloaded /\ counts' = counts
      BY <2>6 DEF Lost
    <3> QED BY <3>1, <3>2, <2>1, <1>c
  <2> QED BY <1>8, <2>5, <2>6, FetchedEffect
<1>9. ASSUME NEW s \in scans, NextScan(s) PROVE CountInv'
  BY <1>9, <1>u, Places DEF NextScan
<1>10. CASE NameFound
  <2>1. Resolving /\ tried # 2 /\ Name \notin downloaded
    BY <1>10 DEF NameFound, Resolved, Resolving
  <2>2. scan \in Recordings \ downloaded
    BY <2>1, Unresolved
  <2>3. folders[scan] # "complete"
    BY <1>10, <2>1, <2>2, Places DEF NameFound, FolderInv, WholeInv, Settled
  <2>4. Complete(folders)' = Complete(folders)
    <3>1. folders' = [folders EXCEPT ![scan] = "partial"]
      BY <1>10 DEF NameFound, StartFetch
    <3>2. scan \in Recordings
      BY <2>2
    <3> QED BY <3>1, <3>2, <2>3, <1>d DEF Complete
  <2>5. pc \in Running /\ counts' = counts /\ downloaded' = downloaded
    BY <1>10, Places DEF NameFound
  <2> QED BY <2>4, <2>5, <1>c
<1>11. ASSUME NEW b \in Bins, FindBin(b) \/ GetBin(b) PROVE CountInv'
  BY <1>11, <1>u, Places DEF FindBin, GetBin
<1>12. CASE ScanDone \/ NameNotFound \/ ScansDone \/ BinsDone
  BY <1>12, <1>u, Places DEF ScanDone, NameNotFound, ScansDone, BinsDone
<1>13. CASE BinsFound
  <2>1. counts'.datasets = counts.datasets
    BY <1>13, <1>n DEF BinsFound
  <2>2. Complete(folders)' = Complete(folders) /\ downloaded' = downloaded /\ pc \in Running
    BY <1>13, Places DEF BinsFound
  <2> QED BY <2>1, <2>2, <1>c
<1>14. CASE BinFetched
  <2>1. counts'.datasets = counts.datasets
    BY <1>14, <1>n DEF BinFetched
  <2>2. Complete(folders)' = Complete(folders) /\ downloaded' = downloaded /\ pc \in Running
    BY <1>14, Places DEF BinFetched
  <2> QED BY <2>1, <2>2, <1>c
<1> QED
  BY <1>1, <1>2, <1>3, <1>4, <1>5, <1>6, <1>7, <1>8, <1>9, <1>10, <1>11,
    <1>12, <1>13, <1>14 DEF Next, Fetch, Finish, GivesUp, PipelineStep

-----------------------------------------------------------------------------
(* The reconstruction and the output.                                      *)

\* COLMAP files are untouched until all are found, and each is fetched once.
LEMMA StepFiles == ASSUME TypeOK, PlaceInv, ColmapInv, ~kept', Next PROVE FilesInv'
<1> USE DEF FilesInv, BeforeColmap, Early, Fetching, colmapVars, fileVars
<1>t. FilesInv /\ colmap \in [Bins -> FileStates] /\ bins \subseteq Bins
  BY DEF ColmapInv, TypeOK, DiskTypes, LocalTypes
<1>1. CASE Begin
  BY <1>1, <1>t DEF FreshLocals, Begin
<1>2. CASE Cleanup
  BY <1>2, <1>t DEF FreshLocals, Cleanup, Remove, WipeWorkspace
<1>3. CASE Restart
  BY <1>3, <1>t DEF Restart, Remove, WipeWorkspace
<1>4. CASE Die \/ LoseLease
  BY <1>4, <1>t DEF FreshLocals, Die, LoseLease
<1>5. CASE Cancel
  BY <1>5, <1>t DEF Cancel
<1>6. CASE GivesUp
  BY <1>6, <1>t, GivesUpEffect
<1>7. CASE PipelineStep
  BY <1>7, <1>t, PipelineEffect
<1>8. CASE Prepare
  BY <1>8, <1>t DEF Prepare
<1>9. CASE ReadManifest
  BY <1>9, <1>t DEF ReadManifest
<1>10. CASE ListChunk
  BY <1>10, <1>t DEF ListChunk
<1>11. CASE ChunksDone
  BY <1>11, <1>t DEF ChunksDone
<1>12. ASSUME NEW i \in Items, SkipItem(i) PROVE FilesInv'
  BY <1>12, <1>t DEF SkipItem
<1>13. ASSUME NEW i \in Items, FetchItem(i) PROVE FilesInv'
  BY <1>13, <1>t DEF FetchItem
<1>14. CASE ItemFetched
  BY <1>14, <1>t, FetchedEffect
<1>15. ASSUME NEW s \in scans, NextScan(s) PROVE FilesInv'
  BY <1>15, <1>t DEF NextScan
<1>16. CASE ScanDone
  BY <1>16, <1>t DEF ScanDone
<1>17. CASE NameNotFound
  BY <1>17, <1>t DEF NameNotFound
<1>18. CASE NameFound
  BY <1>18, <1>t DEF NameFound
<1>19. CASE ScanFetched
  BY <1>19, <1>t, FetchedEffect
<1>20. CASE ScansDone
  BY <1>20, <1>t DEF ScansDone
<1>21. ASSUME NEW b \in Bins, FindBin(b) PROVE FilesInv'
  BY <1>21, <1>t DEF FindBin
<1>22. ASSUME NEW b \in Bins, GetBin(b) PROVE FilesInv'
  BY <1>22, <1>t DEF GetBin, PlaceInv
<1>23. CASE BinsFound
  BY <1>23, <1>t, NoColmapAbsent DEF BinsFound
<1>24. CASE BinFetched
  BY <1>24, <1>t DEF BinFetched, PlaceInv
<1>25. CASE BinsDone
  BY <1>25, <1>t DEF BinsDone
<1> QED
  BY <1>1, <1>2, <1>3, <1>4, <1>5, <1>6, <1>7, <1>8, <1>9, <1>10, <1>11,
    <1>12, <1>13, <1>14, <1>15, <1>16, <1>17, <1>18, <1>19, <1>20, <1>21,
    <1>22, <1>23, <1>24, <1>25 DEF Next, Fetch, Finish, GivesUp, PipelineStep

\* The COLMAP counter counts files.
LEMMA StepColmapCount == ASSUME TypeOK, PlaceInv, ColmapInv, ~kept', Next PROVE ColmapCounted'
<1> USE DEF countVars, fileVars
<1>t. pc \in Running =>
          IsFiniteSet(Complete(colmap)) /\ counts.colmap = Cardinality(Complete(colmap))
  BY DEF ColmapInv, ColmapCounted
<1>n. counts \in [datasets : Nat, colmap : Nat, colmapFailed : Nat]
  BY DEF TypeOK, CountTypes
<1>d. colmap \in [Bins -> FileStates] /\ bins \subseteq Bins
  BY DEF TypeOK, DiskTypes, LocalTypes
<1>e. ColmapCounted' <=> (pc' \in Running => /\ IsFiniteSet(Complete(colmap)')
                                            /\ counts'.colmap = Cardinality(Complete(colmap)'))
  BY DEF ColmapCounted
<1>c. ASSUME pc \in Running, Complete(colmap)' = Complete(colmap), counts'.colmap = counts.colmap
      PROVE  ColmapCounted'
  BY <1>c, <1>t, <1>e
<1>u. pc \in Running /\ UNCHANGED <<colmap, counts>> => ColmapCounted'
  BY <1>c
<1>1. CASE Begin
  <2>1. CASE pc' = "idle"
    BY <2>1, <1>e, Places
  <2>2. colmap' = NoColmap /\ counts'.colmap = 0
    BY <1>1 DEF FreshLocals, Begin, ColmapInv, FilesInv, NoCounts
  <2> QED BY <2>2, <1>e, CompleteNone, FS_EmptySet
<1>2. CASE Cleanup \/ Restart \/ Die \/ LoseLease
  BY <1>2, <1>e, Places DEF FreshLocals, Cleanup, Restart, Die, LoseLease
<1>3. CASE Cancel
  BY <1>3, <1>u DEF Cancel
<1>4. CASE GivesUp \/ PipelineStep
  BY <1>4, <1>u, GivesUpEffect, PipelineEffect, Places
<1>5. CASE Prepare \/ ReadManifest \/ ListChunk \/ ChunksDone
  BY <1>5, <1>u, Places DEF Prepare, ReadManifest, ListChunk, ChunksDone
<1>6. ASSUME NEW i \in Items, SkipItem(i) \/ FetchItem(i) PROVE ColmapCounted'
  BY <1>6, <1>u, Places DEF SkipItem, FetchItem
<1>7. CASE ItemFetched \/ ScanFetched
  <2>1. counts'.colmap = counts.colmap
    BY <1>7, <1>n, FetchedEffect DEF Got, Lost
  <2>2. Complete(colmap)' = Complete(colmap) /\ pc \in Running
    BY <1>7, Places, FetchedEffect
  <2> QED BY <2>1, <2>2, <1>c
<1>8. ASSUME NEW s \in scans, NextScan(s) PROVE ColmapCounted'
  BY <1>8, <1>u, Places DEF NextScan
<1>9. ASSUME NEW b \in Bins, FindBin(b) PROVE ColmapCounted'
  BY <1>9, <1>u, Places DEF FindBin
<1>10. ASSUME NEW b \in Bins, GetBin(b) PROVE ColmapCounted'
  <2>1. colmap[b] # "complete"
    BY <1>10 DEF GetBin, ColmapInv, FilesInv
  <2>2. Complete(colmap)' = Complete(colmap)
    <3>1. colmap' = [colmap EXCEPT ![b] = "partial"]
      BY <1>10 DEF GetBin
    <3>2. colmap \in [Bins -> FileStates]
      BY <1>d
    <3> QED BY <3>1, <3>2, <2>1 DEF Complete
  <2>3. pc \in Running /\ counts' = counts
    BY <1>10, Places DEF GetBin
  <2> QED BY <2>2, <2>3, <1>c
<1>11. CASE ScanDone \/ NameNotFound \/ NameFound \/ ScansDone \/ BinsDone
  BY <1>11, <1>u, Places DEF ScanDone, NameNotFound, NameFound, ScansDone, BinsDone
<1>12. CASE BinsFound
  <2>1. counts'.colmap = counts.colmap
    BY <1>12, <1>n DEF BinsFound
  <2>2. Complete(colmap)' = Complete(colmap) /\ pc \in Running
    BY <1>12, Places DEF BinsFound
  <2> QED BY <2>1, <2>2, <1>c
<1>13. CASE BinFetched
  <2>1. fetch \in Bins /\ colmap[fetch] = "partial" /\ pc \in Running
    BY <1>13, Places DEF BinFetched, PlaceInv, ColmapInv, FilesInv
  <2>2. CASE /\ colmap' = [colmap EXCEPT ![fetch] = "complete"]
             /\ counts' = [counts EXCEPT !.colmap = counts.colmap + 1]
    <3>1. colmap[fetch] # "complete" /\ fetch \notin Complete(colmap)
      BY <2>1 DEF Complete
    <3>2. Complete(colmap)' = Complete(colmap) \cup {fetch}
      <4>1. Complete([colmap EXCEPT ![fetch] = "complete"]) = Complete(colmap) \cup {fetch}
        BY <2>1, <1>d DEF Complete
      <4> QED BY <4>1, <2>2
    <3>3. counts'.colmap = counts.colmap + 1
      BY <2>2, <1>n
    <3>4. IsFiniteSet(Complete(colmap)) /\ counts.colmap = Cardinality(Complete(colmap))
      BY <2>1, <1>t
    <3> QED BY <3>1, <3>2, <3>3, <3>4, <1>e, FS_AddElement
  <2>3. CASE /\ colmap' \in {colmap, [colmap EXCEPT ![fetch] = "absent"]}
             /\ counts' = [counts EXCEPT !.colmapFailed = counts.colmapFailed + 1]
    <3>1. Complete([colmap EXCEPT ![fetch] = "absent"]) = Complete(colmap)
      <4>1. colmap[fetch] # "complete"
        BY <2>1
      <4> QED BY <4>1, <2>1, <1>d DEF Complete
    <3>2. Complete(colmap)' = Complete(colmap)
      BY <3>1, <2>3
    <3>3. counts'.colmap = counts.colmap
      BY <2>3, <1>n
    <3> QED BY <2>1, <3>2, <3>3, <1>c
  <2> QED BY <1>13, <2>2, <2>3 DEF BinFetched
<1> QED
  BY <1>1, <1>2, <1>3, <1>4, <1>5, <1>6, <1>7, <1>8, <1>9, <1>10, <1>11,
    <1>12, <1>13 DEF Next, Fetch, Finish, GivesUp, PipelineStep

\* The output in the workspace is this attempt's.
LEMMA StepOutput == ASSUME TypeOK, OutputInv, ~kept', Next PROVE OutputInv'
<1> USE DEF OutputInv, fileVars, jobVars
<1>t. attempt \in Nat
  BY BoundIsNat DEF TypeOK, AttemptTypes
<1>1. CASE Begin
  BY <1>1, <1>t DEF FreshLocals, Begin
<1>2. CASE Cleanup
  BY <1>2, <1>t DEF FreshLocals, Cleanup, Remove, WipeWorkspace
<1>3. CASE Restart
  BY <1>3, <1>t DEF Restart, Remove, WipeWorkspace
<1>4. CASE Die \/ LoseLease
  BY <1>4, <1>t DEF FreshLocals, Die, LoseLease
<1>5. CASE Cancel
  BY <1>5, <1>t DEF Cancel
<1>6. CASE GivesUp
  BY <1>6, <1>t, GivesUpEffect, Places
<1>7. CASE PipelineStep
  <2> USE DEF Conclude
  <2>1. CASE StartPython
    BY <2>1 DEF StartPython
  <2>2. CASE SplatWritten \/ PythonCancelled \/ StreamsEnd \/ PythonFails
    BY <2>2, Places DEF SplatWritten, PythonCancelled, StreamsEnd, PythonFails
  <2>3. CASE PythonSucceeds
    BY <2>3, <1>t DEF PythonSucceeds
  <2>4. CASE Upload
    BY <2>4 DEF Upload
  <2> QED BY <1>7, <2>1, <2>2, <2>3, <2>4 DEF PipelineStep
<1>8. CASE Prepare \/ ReadManifest \/ ListChunk
  BY <1>8, <1>t DEF Prepare, ReadManifest, ListChunk
<1>9. CASE ChunksDone \/ ItemFetched \/ ScanDone
  BY <1>9, <1>t DEF ChunksDone, ItemFetched, ScanDone
<1>10. CASE NameNotFound \/ NameFound \/ ScanFetched
  BY <1>10, <1>t DEF NameNotFound, NameFound, ScanFetched
<1>11. CASE ScansDone \/ BinsFound \/ BinFetched
  BY <1>11, <1>t DEF ScansDone, BinsFound, BinFetched
<1>12. CASE BinsDone
  BY <1>12, <1>t DEF BinsDone
<1>13. ASSUME NEW i \in Items, SkipItem(i) \/ FetchItem(i) PROVE OutputInv'
  BY <1>13, <1>t DEF SkipItem, FetchItem
<1>14. ASSUME NEW s \in scans, NextScan(s) PROVE OutputInv'
  BY <1>14, <1>t DEF NextScan
<1>15. ASSUME NEW b \in Bins, FindBin(b) \/ GetBin(b) PROVE OutputInv'
  BY <1>15, <1>t DEF FindBin, GetBin
<1> QED
  BY <1>1, <1>2, <1>3, <1>4, <1>5, <1>6, <1>7, <1>8, <1>9, <1>10, <1>11,
    <1>12, <1>13, <1>14, <1>15 DEF Next, Fetch, Finish, GivesUp, PipelineStep

-----------------------------------------------------------------------------
(* The theorems.                                                           *)

\* A workspace that was kept once stays under suspicion.
LEMMA StaysKept == ASSUME Next, ~kept' PROVE ~kept
<1> USE DEF fileVars, jobVars
<1>1. CASE GivesUp \/ PipelineStep
  BY <1>1, GivesUpEffect, PipelineEffect
<1>2. CASE ItemFetched \/ ScanFetched
  BY <1>2, FetchedEffect
<1>3. CASE Begin \/ Die \/ LoseLease \/ Cancel
  BY <1>3 DEF FreshLocals, Begin, Die, LoseLease, Cancel
<1>4. CASE Cleanup \/ Restart
  BY <1>4 DEF FreshLocals, Cleanup, Restart, Remove
<1>5. CASE Prepare \/ ReadManifest \/ ListChunk \/ ChunksDone
  BY <1>5 DEF Prepare, ReadManifest, ListChunk, ChunksDone
<1>6. ASSUME NEW i \in Items, SkipItem(i) \/ FetchItem(i) PROVE ~kept
  BY <1>6 DEF SkipItem, FetchItem
<1>7. ASSUME NEW s \in scans, NextScan(s) PROVE ~kept
  BY <1>7 DEF NextScan
<1>8. CASE ScanDone \/ NameNotFound \/ NameFound \/ ScansDone
  BY <1>8 DEF ScanDone, NameNotFound, NameFound, ScansDone
<1>9. ASSUME NEW b \in Bins, FindBin(b) \/ GetBin(b) PROVE ~kept
  BY <1>9 DEF FindBin, GetBin
<1>10. CASE BinsFound \/ BinFetched \/ BinsDone
  BY <1>10 DEF BinsFound, BinFetched, BinsDone
<1> QED
  BY <1>1, <1>2, <1>3, <1>4, <1>5, <1>6, <1>7, <1>8, <1>9, <1>10
  DEF Next, Fetch, Finish, GivesUp, PipelineStep

LEMMA InitInv == Init => IInv
<1> SUFFICES ASSUME Init PROVE IInv
  OBVIOUS
<1>1. TypeOK
  BY InitType
<1>2. PlaceInv
  BY DEF Init, PlaceInv, Fetching, Resolving, Early
<1>3. FolderInv
  BY NoFoldersAbsent DEF Init, FolderInv, FreshInv, HalfInv, WholeInv, Fetching, Running
<1>4. CountInv /\ ColmapCounted
  BY Places DEF Init, CountInv, ColmapCounted
<1>5. FilesInv /\ OutputInv
  BY DEF Init, FilesInv, OutputInv
<1> QED BY <1>1, <1>2, <1>3, <1>4, <1>5 DEF IInv, ColmapInv

LEMMA StepInv == ASSUME IInv, [Next]_vars PROVE IInv'
<1>1. CASE Next
  <2>1. TypeOK' /\ PlaceInv'
    BY <1>1, StepControl, StepFlags, StepLocals, StepCounts, StepDisk, StepAttempt, StepPlace
    DEF IInv, TypeOK
  <2>2. ASSUME ~kept' PROVE FolderInv' /\ CountInv' /\ ColmapInv' /\ OutputInv'
    <3>1. TypeOK /\ PlaceInv /\ FolderInv /\ CountInv /\ ColmapInv /\ OutputInv
      BY <1>1, <2>2, StaysKept DEF IInv
    <3>2. FolderInv'
      BY <1>1, <2>2, <3>1, StepFresh, StepHalf, StepWhole DEF FolderInv
    <3>3. CountInv'
      BY <1>1, <2>2, <3>1, StepCount
    <3>4. ColmapInv'
      BY <1>1, <2>2, <3>1, StepFiles, StepColmapCount DEF ColmapInv
    <3> QED BY <1>1, <2>2, <3>1, <3>2, <3>3, <3>4, StepOutput
  <2> QED BY <2>1, <2>2 DEF IInv
<1>2. CASE UNCHANGED vars
  <2> USE <1>2 DEF vars, inputVars, colmapVars, countVars, fileVars, jobVars
  <2>1. TypeOK => TypeOK'
    BY DEF TypeOK, ControlTypes, FlagTypes, LocalTypes, CountTypes, DiskTypes, AttemptTypes
  <2>2. PlaceInv => PlaceInv'
    BY DEF PlaceInv, Fetching, Resolving, Early, Name
  <2>3. FolderInv => FolderInv'
    BY DEF FolderInv, FreshInv, HalfInv, WholeInv, Settled, Fetching, Resolving, Early, Folder
  <2>4. CountInv => CountInv'
    BY DEF CountInv
  <2>5. ColmapInv => ColmapInv'
    BY DEF ColmapInv, FilesInv, ColmapCounted, BeforeColmap, Early, Fetching
  <2>6. OutputInv => OutputInv'
    BY DEF OutputInv
  <2> QED BY <2>1, <2>2, <2>3, <2>4, <2>5, <2>6 DEF IInv
<1> QED BY <1>1, <1>2

\* The invariant that the rest follows from holds in every run (HelloRunner::run).
THEOREM Invariant == Spec => []IInv
BY InitInv, StepInv, PTL DEF Spec

\* Every variable keeps its type.
THEOREM RunTypeCorrect == Spec => []TypeOK
<1>1. IInv => TypeOK
  BY DEF IInv
<1> QED BY <1>1, Invariant, PTL

\* What is reported as the inputs of a run is what the pipeline finds on the
\* disk: no recording overwrites another, none is counted and then lost.
THEOREM InputsAreOnDisk == Spec => []InputsMatchDisk
<1>1. IInv => InputsMatchDisk
  BY Places DEF IInv, InputsMatchDisk, InputsReady, CountInv, ColmapInv, ColmapCounted
<1> QED BY <1>1, Invariant, PTL

\* The pipeline starts on half a recording only if its transfer failed and its
\* file could not be removed.
THEOREM NoPartialInput == Spec => []NoPartialDataset
<1>1. IInv => NoPartialDataset
  BY DEF IInv, NoPartialDataset, InputsReady, FolderInv, HalfInv, Fetching
<1> QED BY <1>1, Invariant, PTL

\* COLMAP files are there as a set, or none is.
THEOREM ColmapIsASet == Spec => []ColmapOnlyAsASet
<1>1. IInv => ColmapOnlyAsASet
  BY NoColmapAbsent DEF IInv, ColmapOnlyAsASet, ColmapInv, FilesInv
<1> QED BY <1>1, Invariant, PTL

\* A successful attempt has uploaded its own output, not an older one's.
THEOREM UploadIsOwn == Spec => []UploadsOwnOutput
<1>1. IInv => UploadsOwnOutput
  BY DEF IInv, UploadsOwnOutput, OutputInv
<1> QED BY <1>1, Invariant, PTL

\* What the guard before the pipeline accepts holds a whole dataset, or the
\* remains of a transfer.
LEMMA PresentIsComplete ==
    ASSUME IInv, ~kept, pc = "check", DatasetsPresent
    PROVE  Complete(folders) # {} \/ unremoved # {}
<1>1. FolderInv /\ CountInv /\ folders \in [Recordings -> FileStates]
  BY DEF IInv, TypeOK, DiskTypes
<1>2. CASE counts.datasets > 0
  <2>1. counts.datasets = Cardinality(Complete(folders))
    BY <1>1, Places DEF CountInv
  <2> QED BY <1>2, <2>1, FS_EmptySet
<1>3. CASE \E f \in Recordings : folders[f] # "absent"
  <2>1. PICK f \in Recordings : folders[f] # "absent"
    BY <1>3
  <2>2. CASE folders[f] \in {"partial", "empty"}
    <3>1. f \in unremoved
      BY <1>1, <2>2 DEF FolderInv, HalfInv, Fetching
    <3> QED BY <3>1
  <2>3. CASE folders[f] = "complete"
    BY <1>1, <2>3 DEF Complete
  <2> QED BY <1>1, <2>1, <2>2, <2>3 DEF FileStates
<1> QED BY <1>2, <1>3 DEF DatasetsPresent

\* There is something whole to work on, or something was not removed.
Available == Complete(folders) # {} \/ unremoved # {}

LEMMA StepAvailable == ASSUME IInv, DatasetAvailable, Next PROVE DatasetAvailable'
<1> SUFFICES ASSUME ~kept', pc' \in {"python", "waiting", "upload"} PROVE Available'
  BY DEF DatasetAvailable, InputsReady, Available
<1>k. ~kept
  BY StaysKept
<1>t. pc \in {"python", "waiting", "upload"} => Available
  BY <1>k DEF DatasetAvailable, InputsReady, Available
<1>1. CASE PipelineStep
  <2>1. pc = "check" => DatasetsPresent
    BY <1>1 DEF PipelineStep, StartPython, SplatWritten, PythonCancelled, StreamsEnd, PythonFails,
      PythonSucceeds, Upload
  <2>2. /\ pc \in {"check", "python", "waiting", "upload"}
        /\ folders' = folders /\ unremoved' = unremoved
    BY <1>1, PipelineEffect
  <2> QED BY <1>k, <1>t, <2>1, <2>2, PresentIsComplete DEF Available
<1>2. CASE Cancel
  BY <1>2, <1>t DEF Cancel, fileVars, Available
<1>3. CASE GivesUp \/ ItemFetched \/ ScanFetched
  BY <1>3, GivesUpEffect, FetchedEffect
<1>4. CASE Begin \/ Cleanup \/ Restart \/ Die \/ LoseLease
  BY <1>4 DEF FreshLocals, Begin, Cleanup, Restart, Die, LoseLease
<1>5. CASE Prepare \/ ReadManifest \/ ListChunk \/ ChunksDone
  BY <1>5 DEF Prepare, ReadManifest, ListChunk, ChunksDone
<1>6. ASSUME NEW i \in Items, SkipItem(i) \/ FetchItem(i) PROVE Available'
  BY <1>6 DEF SkipItem, FetchItem
<1>7. ASSUME NEW s \in scans, NextScan(s) PROVE Available'
  BY <1>7 DEF NextScan
<1>8. CASE ScanDone \/ NameNotFound \/ NameFound \/ ScansDone
  BY <1>8 DEF ScanDone, NameNotFound, NameFound, ScansDone
<1>9. ASSUME NEW b \in Bins, FindBin(b) \/ GetBin(b) PROVE Available'
  BY <1>9 DEF FindBin, GetBin
<1>10. CASE BinsFound \/ BinFetched \/ BinsDone
  BY <1>10 DEF BinsFound, BinFetched, BinsDone
<1> QED
  BY <1>1, <1>2, <1>3, <1>4, <1>5, <1>6, <1>7, <1>8, <1>9, <1>10
  DEF Next, Fetch, Finish, GivesUp, PipelineStep

\* The pipeline starts on a whole dataset, although the guard before it looks
\* at a counter and at the mere presence of a file, unless a failed transfer
\* could not be cleaned up.
THEOREM DatasetIsThere == Spec => []DatasetAvailable
<1>1. Init => DatasetAvailable
  BY DEF Init, DatasetAvailable, InputsReady
<1>2. IInv /\ DatasetAvailable /\ [Next]_vars => DatasetAvailable'
  <2>1. IInv /\ DatasetAvailable /\ UNCHANGED vars => DatasetAvailable'
    BY DEF vars, jobVars, fileVars, DatasetAvailable, InputsReady
  <2> QED BY <2>1, StepAvailable
<1> QED BY <1>1, <1>2, Invariant, PTL DEF Spec

=============================================================================
