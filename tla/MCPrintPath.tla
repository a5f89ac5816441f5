---------------------------- MODULE MCPrintPath ----------------------------
(* Small instances of PrintPath for TLC. *)
EXTENDS PrintPath

CONSTANTS j1, j2

\* Two jobs are interchangeable: only one order of their sizes is of interest.
OrderedInit == PathInit /\ size[j1] <= size[j2]

OrderedSpec == OrderedInit /\ [][PathNext]_pathVars /\ PathFairness

=============================================================================
