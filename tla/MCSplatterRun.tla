--------------------------- MODULE MCSplatterRun ---------------------------
(***************************************************************************)
(* The instances of SplatterRun that TLC checks: one scan with a recording *)
(* under each of its two names, an item that is no recording, and          *)
(* manifests that name them by id, by scan and by recording at once.  Two  *)
(* files stand for the five of a COLMAP reconstruction.                    *)
(***************************************************************************)
EXTENDS SplatterRun

CONSTANTS plain, mp4, notes, scan1, frames, points

MCItems == {plain, mp4, notes}
MCNameOf == [i \in MCItems |-> CASE i = plain -> <<scan1, 0>>
                                 [] i = mp4   -> <<scan1, 1>>
                                 [] i = notes -> Other]
MCScans == {scan1}
MCBins == {frames, points}

Id(i) == [form |-> "id", item |-> i]
Scan(n) == [form |-> "scan", scan |-> <<scan1, n>>]
Recording == [form |-> "recording", scan |-> <<scan1, 1>>]

\* An input without dataIDs, one without any that can be used, and mixtures of
\* the ways to name the scan, of a plain manifest and of refined ones.
MCManifests ==
    {[entries |-> {}, refined |-> TRUE],
     [entries |-> {Url}, refined |-> TRUE],
     [entries |-> {Id(plain), Id(mp4), Id(notes), Scan(0), Scan(1)}, refined |-> FALSE],
     [entries |-> {Id(mp4), Recording, Scan(1)}, refined |-> TRUE],
     [entries |-> {Scan(0), Scan(1)}, refined |-> FALSE]}

\* A plain input and a refined one.
SmallManifests ==
    {[entries |-> {Id(plain)}, refined |-> FALSE],
     [entries |-> {Id(mp4), Scan(0)}, refined |-> TRUE]}
=============================================================================
