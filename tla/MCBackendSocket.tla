-------------------------- MODULE MCBackendSocket --------------------------
(* Small instances of BackendSocket for TLC. *)
EXTENDS BackendSocket, TLC

=============================================================================
