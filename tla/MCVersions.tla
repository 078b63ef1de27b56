------------------------------ MODULE MCVersions ------------------------------
(***************************************************************************)
(* Small instances of WorkflowVersions: two API processes, which are alike *)
(* and serve the same requests.                                            *)
(***************************************************************************)
EXTENDS WorkflowVersions, TLC

Alike == Permutations(Processes)
=============================================================================
