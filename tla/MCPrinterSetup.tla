--------------------------- MODULE MCPrinterSetup ---------------------------
(* Small instances of PrinterSetup for TLC. *)
EXTENDS PrinterSetup, TLC

=============================================================================
