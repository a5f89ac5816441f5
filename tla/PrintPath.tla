----------------------------- MODULE PrintPath -----------------------------
(***************************************************************************)
(* A print job from cupsd to the printer of the client: BackendSocket,     *)
(* whose devredir_printer_send_job is what JobDelivery calls the accepting *)
(* of a job.  PrintSend implements JobDelivery, so what holds here of the  *)
(* abstract send side holds of the one that exchanges IRPs.                *)
(*                                                                         *)
(* A job handed to the send side is named after the connection it came     *)
(* over: a backend sends one job, so no connection hands over two.         *)
(***************************************************************************)
EXTENDS BackendSocket

VARIABLES
  phase,   \* phase[c], length[c], printed[c]: see JobDelivery, for the job
  length,  \* that chansrv took over from connection c
  printed

delivery == <<phase, length, printed>>

Delivery == INSTANCE JobDelivery WITH Job <- Conn, MaxLen <- MaxPieces

PathInit == Init /\ Delivery!Init

\* The contexts of jobs that are being sent.
Sending == {c \in Conn : phase[c] = "held"}

\* Mutant: the send side is given what had been there before the last piece.
TakeOver_MissesLast(s) ==
  /\ Delivery!Accept(slots[s])
  /\ length'[slots[s]] = IF Len(buffer[s]) > 1 THEN Len(buffer[s]) - 1 ELSE 1

\* devredir_printer_send_job copies the data of slot s to a context of its own.
TakeOver(s) ==
  /\ Delivery!Accept(slots[s])
  /\ length'[slots[s]] = Len(buffer[s])

\* Mutant: the send side goes on with its jobs when the session is over.
EndSession_KeepsSending ==
  /\ Cleanup
  /\ UNCHANGED delivery

\* devredir_printer_cleanup closes the sockets and frees every send context.
EndSession ==
  /\ Cleanup
  /\ IF Sending = {} THEN UNCHANGED delivery ELSE Delivery!Release(Sending)

PathNext ==
  \/ SessionStep /\ handed' = handed /\ UNCHANGED delivery
  \/ \E s \in Slot : HandleEnd(s) /\ handed' # handed /\ TakeOver(s)
  \/ EndSession
  \/ UNCHANGED vars /\ \E c \in Conn : Delivery!PrintNext(c) \/ Delivery!Release({c})

pathVars == <<vars, delivery>>

PathSpec == PathInit /\ [][PathNext]_pathVars

(* The two sides of every connection run as in BackendSocket; nothing is   *)
(* assumed of the client, so nothing is of the sending.                    *)
PathFairness ==
  /\ \A j \in Job : WF_pathVars(BackendStep(j) /\ UNCHANGED delivery)
  /\ WF_pathVars(Accept /\ UNCHANGED delivery)
  /\ \A s \in Slot : WF_pathVars(\/ Handle(s) /\ handed' = handed /\ UNCHANGED delivery
                                 \/ HandleEnd(s) /\ handed' # handed /\ TakeOver(s))

PathFairSpec == PathSpec /\ PathFairness

-----------------------------------------------------------------------------

\* No page comes twice: over retries, cut connections and sessions the printer
\* gets at most one copy of a job from attempts that were not killed, and at most
\* one from each that was (the ACK of printer_socket_handle_data against the
\* retry of cupsd).
OneCopyPerKill ==
  /\ \A c \in Conn : printed[c] <= size[c[1]]
  /\ \A c, d \in Conn : c[1] = d[1] /\ printed[c] > 0 /\ printed[d] > 0 =>
        c = d \/ c \in killed \/ d \in killed

\* What cupsd drops was taken over for sending in full or was turned down, so a
\* job is never lost between the two halves of chansrv: its pages are on paper,
\* or its context is there to print them, or the session or the client let go.
DoneIsInSending ==
  \A j \in Job : backend[j] = "done" /\ size[j] > 0 =>
     \/ ConnOf(j) \in refused
     \/ phase[ConnOf(j)] # "new" /\ length[ConnOf(j)] = size[j]

\* Nothing is printed for a session that is over, also not for jobs taken over
\* just before (devredir_printer_cleanup).
NothingPrintedAfterEnd ==
  [][~initialized => printed' = printed]_pathVars

=============================================================================
