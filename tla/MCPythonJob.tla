---------------------------- MODULE MCPythonJob ----------------------------
(***************************************************************************)
(* The instance of PythonJob that TLC checks: run.py with two helpers, so  *)
(* that one can start the other after run.py is gone, and pipes of one     *)
(* line, so that the second unread line already blocks its writer.         *)
(***************************************************************************)
EXTENDS PythonJob

CONSTANTS run_py, train, colmap

MCHelpers == {train, colmap}
OneHelper == {train}
=============================================================================
