------------------------------ MODULE MCBackoff ------------------------------
(***************************************************************************)
(* Two instances of Backoff.  In the small one integers have four bits and *)
(* a second five instants, and every setting is tried, the whole range of  *)
(* integers included.  In the other the numbers are those of the code, and *)
(* the setting is the default of config.rs.                                *)
(***************************************************************************)
EXTENDS Backoff

CONSTANTS SmallMax

AllSettings == (0..SmallMax) \X (0..SmallMax)
DefaultSettings == {<<1000, 30000>>}
=============================================================================
