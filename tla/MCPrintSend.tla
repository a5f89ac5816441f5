---------------------------- MODULE MCPrintSend ----------------------------
(* Small instances of PrintSend for TLC. *)
EXTENDS PrintSend, TLC

CONSTANTS j1, j2

\* Jobs, printers and file ids are interchangeable in the safety runs.
Interchangeable == Permutations(Job) \cup Permutations(Device) \cup Permutations(FileId)

\* With liveness TLC may not use this: there the jobs come in a fixed order.
OrderedSpec ==
  /\ Init
  /\ [][Next /\ (ctx'[j2].state # "unused" => ctx'[j1].state # "unused")]_vars
  /\ Fairness

=============================================================================
