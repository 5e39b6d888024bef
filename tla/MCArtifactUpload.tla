-------------------------- MODULE MCArtifactUpload --------------------------
(***************************************************************************)
(* The instances of ArtifactUpload that TLC checks: two attempts, which    *)
(* may overlap, with two puts each, so that a path can be put again under  *)
(* the id recorded for it.  Of the three paths two have colliding keys.    *)
(***************************************************************************)
EXTENDS ArtifactUpload, TLC

CONSTANTS a1, a2, splat, mesh, alias

MCAttempts == {a1, a2}
MCPaths == {splat, mesh, alias}
MCKeys == {splat, mesh}
MCKeyOf == [p \in MCPaths |-> IF p = alias THEN splat ELSE p]
AttemptSymmetry == Permutations(MCAttempts)
=============================================================================
