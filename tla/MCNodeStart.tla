----------------------------- MODULE MCNodeStart -----------------------------
(***************************************************************************)
(* The instance of NodeStart that TLC checks: two processes on one         *)
(* TASKS_ROOT and two attempts at one task, so that whatever the first     *)
(* leaves behind can meet the second.                                      *)
(***************************************************************************)
EXTENDS NodeStart, TLC

CONSTANTS first, second, d1, d2, n1, n2

MCRuns == {first, second}
MCDatasets == {d1, d2}
MCNodes == {n1, n2}

\* Nothing, the frames and what was made of them, the splat, everything.
MCLeftovers == {{}, {1, 2}, {6}, Files}

\* The members of each set are treated alike.
Symmetry == Permutations(MCRuns) \cup Permutations(MCDatasets) \cup Permutations(MCNodes)

\* Of what follows another cause no property speaks.
Claimed == causes \subseteq {"left", "unwritten"}
=============================================================================
