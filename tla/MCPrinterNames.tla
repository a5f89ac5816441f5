--------------------------- MODULE MCPrinterNames ---------------------------
(* Small instances of PrinterNames for TLC. *)
EXTENDS PrinterNames

\* The ports PRN1 and PRN2 of the client.
Prn(n) == <<80, 82, 78, 48 + n>>

Message(dos, name) ==
  [dosName |-> dos, pnpName |-> <<80>>, driverName |-> <<68, 0>>,
   printerName |-> name, cached |-> <<7>>, cut |-> 0]

\* A printer without a name; "2_a" with a character outside ASCII and a zero in
\* it, "2:ab", of which MaxName leaves "2:a"; and a message that is cut off.
FewAnnouncements ==
  {Message(Prn(1), << >>),
   Message(Prn(2), <<50, 95, 252, 97, 0, 98>>),
   Message(Prn(2), <<50, 58, 97, 98>>),
   [Message(Prn(1), <<65, 66>>) EXCEPT !.cut = 1]}

=============================================================================
