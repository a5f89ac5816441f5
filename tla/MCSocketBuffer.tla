--------------------------- MODULE MCSocketBuffer ---------------------------
(* Small instances of SocketBuffer for TLC. *)
EXTENDS SocketBuffer, TLC

=============================================================================
