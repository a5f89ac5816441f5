--------------------------- MODULE BackendSocket ---------------------------
(***************************************************************************)
(* The way of a print job from CUPS into chansrv: cupsd runs one process   *)
(* of the backend (cups/xrdp-printer.c) per attempt at a job, and its      *)
(* connection is served from chansrv's event loop by printer_socket.c.     *)
(* Both ends of every connection run concurrently; a stream holds what the *)
(* backend has written and chansrv has not read.  A message header is one  *)
(* write, the payload of a DATA message another, so chansrv can find the   *)
(* one without the other.                                                  *)
(*                                                                         *)
(* A job is a number of pieces, one DATA message each.  cupsd repeats an   *)
(* attempt that ends with an error (ErrorPolicy retry-job).                *)
(***************************************************************************)
EXTENDS Naturals, Sequences, FiniteSets, Functions

CONSTANTS
  Job,          \* print jobs queued at cupsd
  None,         \* no connection in a slot
  MaxPieces,    \* bound: DATA messages of the longest job
  MaxConns,     \* MAX_BACKEND_CONNECTIONS
  MaxPending,   \* the backlog of listen()
  MaxBuffer,    \* the 256 MB limit of ensure_capacity, in pieces
  Faults,       \* the faults of the environment: see FaultKinds
  MaxAttempts,  \* bound: backend processes started, for all jobs together
  MaxSetups     \* bound: helpers chansrv ever hears a success of

FaultKinds == {"slow",      \* a payload comes more than 100 ms after its header
               "killed",    \* a backend process is killed
               "refused",   \* devredir_printer_send_job returns -1
               "accept",    \* accept() fails, other than for want of a connection
               "listen"}    \* printer_cups_init_listener fails

Slot == 1..MaxConns

\* A connection is named after the attempt that makes it.
Conn == Job \X (1..MaxAttempts)

ASSUME BackendSocketAssumption ==
  /\ None \notin Conn
  /\ MaxConns \in Nat \ {0}
  /\ {MaxPieces, MaxPending, MaxBuffer, MaxAttempts, MaxSetups} \subseteq Nat
  /\ Faults \subseteq FaultKinds

VARIABLES
  size,         \* size[j]: the pieces of job j
  backend,      \* backend[j]: what the backend of j does next; see BackendState
  attempt,      \* attempt[j]: the backends started for j so far
  starts,       \* the backends started so far, for all jobs (bounded)
  left,         \* left[j]: the pieces its backend has yet to send
  killed,       \* connections whose backend was killed
  open,         \* connections whose backend end is open
  stream,       \* stream[c]: what chansrv has yet to read from c
  acks,         \* connections with an unread JOB_ACK for the backend
  initialized,  \* g_initialized
  listening,    \* g_listener_fd >= 0
  backlog,      \* connections g_listener_fd has yet to accept
  stranded,     \* connections to a listener whose descriptor was overwritten
  stale,        \* the socket file still leads to such a listener
  slots,        \* slots[s]: the connection of g_conns[s], if active
  buffer,       \* buffer[s]: the data and data_len of g_conns[s]
  setups,       \* how often a listener was to be opened (bounded)
  handed,       \* handed[c]: what devredir_printer_send_job took over from c, in order
  refused       \* connections whose job devredir_printer_send_job turned down

cups == <<size, backend, attempt, starts, left, killed, open>>
chansrv == <<initialized, listening, backlog, stranded, stale, slots, buffer, setups>>
vars == <<cups, stream, acks, chansrv, handed, refused>>

-----------------------------------------------------------------------------

BackendState == {"queued",   \* no backend runs; cupsd may start one
                 "start", "data", "payload", "wait",
                 "done"}     \* the backend exited with 0: cupsd drops the job

Running(j) == backend[j] \notin {"queued", "done"}

\* The connection of the backend that runs for j.
ConnOf(j) == <<j, attempt[j]>>

\* chansrv's end of c is open: accepted or still to be accepted.
Alive(c) == c \in backlog \cup stranded \cup Range(slots)

\* The data of a job, and its first n pieces.
Pieces(n) == [i \in 1..n |-> i]

-----------------------------------------------------------------------------
(* xrdp-printer.c: main and process_job.                                   *)

\* cupsd starts the backend and it connects; without a socket file that leads to a
\* listener it would fail at once and the job stay queued.
Connect(j) ==
  /\ backend[j] = "queued"
  /\ starts < MaxAttempts
  /\ attempt' = [attempt EXCEPT ![j] = @ + 1]
  /\ starts' = starts + 1
  /\ backend' = [backend EXCEPT ![j] = "start"]
  /\ left' = [left EXCEPT ![j] = size[j]]
  /\ open' = open \cup {<<j, attempt'[j]>>}
  /\ \/ /\ listening
        /\ Cardinality(backlog) < MaxPending
        /\ backlog' = backlog \cup {<<j, attempt'[j]>>}
        /\ UNCHANGED stranded
     \/ /\ stale
        /\ stranded' = stranded \cup {<<j, attempt'[j]>>}
        /\ UNCHANGED backlog
  /\ UNCHANGED <<size, killed, stream, acks, initialized, listening, stale,
                 slots, buffer, setups, handed, refused>>

\* One write() of send_msg, after which the backend goes on in state next.
Write(j, token, next) ==
  /\ Alive(ConnOf(j))
  /\ stream' = [stream EXCEPT ![ConnOf(j)] = Append(@, token)]
  /\ backend' = [backend EXCEPT ![j] = next]
  /\ UNCHANGED <<size, attempt, starts, killed, open, acks, chansrv, handed, refused>>

SendStart(j) ==
  /\ backend[j] = "start"
  /\ Write(j, <<"START">>, "data")
  /\ UNCHANGED left

SendDataHeader(j) ==
  /\ backend[j] = "data" /\ left[j] > 0
  /\ Write(j, <<"DATA">>, "payload")
  /\ UNCHANGED left

\* Mutant: the backend counts the piece it sends as sent already.
SendPayload_Skips(j) ==
  /\ backend[j] = "payload"
  /\ Write(j, <<"payload", size[j] - left[j] + 2>>, "data")
  /\ left' = [left EXCEPT ![j] = @ - 1]

SendPayload(j) ==
  /\ backend[j] = "payload"
  /\ Write(j, <<"payload", size[j] - left[j] + 1>>, "data")
  /\ left' = [left EXCEPT ![j] = @ - 1]

\* Mutant: the last piece is taken for the end of the data.
SendEnd_Early(j) ==
  /\ backend[j] = "data" /\ left[j] <= 1
  /\ Write(j, <<"END">>, "wait")
  /\ UNCHANGED left

SendEnd(j) ==
  /\ backend[j] = "data" /\ left[j] = 0
  /\ Write(j, <<"END">>, "wait")
  /\ UNCHANGED left

\* The backend exits, with the job done or to be tried again.
Exit(j, next) ==
  /\ open' = open \ {ConnOf(j)}
  /\ acks' = acks \ {ConnOf(j)}
  /\ backend' = [backend EXCEPT ![j] = next]
  /\ left' = [left EXCEPT ![j] = 0]
  /\ UNCHANGED <<size, attempt, starts, stream, chansrv, handed, refused>>

ReadAck(j) ==
  /\ backend[j] = "wait" /\ ConnOf(j) \in acks
  /\ Exit(j, "done")
  /\ UNCHANGED killed

\* A write or the read of the acknowledgement fails: exit status 1.
Fail(j) ==
  /\ Running(j) /\ ~Alive(ConnOf(j)) /\ ConnOf(j) \notin acks
  /\ Exit(j, "queued")
  /\ UNCHANGED killed

Kill(j) ==
  /\ "killed" \in Faults
  /\ Running(j)
  /\ Exit(j, "queued")
  /\ killed' = killed \cup {ConnOf(j)}

BackendStep(j) == \/ SendStart(j) \/ SendDataHeader(j) \/ SendPayload(j) \/ SendEnd(j)
                  \/ ReadAck(j) \/ Fail(j)

-----------------------------------------------------------------------------
(* printer_socket.c, run from devredir_printer_check_wait_objs as long as  *)
(* there is a listener.                                                    *)

\* What is left unread on connections that chansrv closes is lost.
Discard(C) == stream' = [c \in Conn |-> IF c \in C THEN << >> ELSE stream[c]]

FreeSlots == {s \in Slot : slots[s] = None}

\* printer_socket_accept: the first free slot, or the connection is closed.
Accept ==
  /\ listening
  /\ \E c \in backlog :
        /\ backlog' = backlog \ {c}
        /\ IF FreeSlots = {}
             THEN Discard({c}) /\ UNCHANGED <<slots, buffer>>
             ELSE \E s \in FreeSlots :
                     /\ \A f \in FreeSlots : s <= f
                     /\ slots' = [slots EXCEPT ![s] = c]
                     /\ buffer' = [buffer EXCEPT ![s] = << >>]
                     /\ UNCHANGED stream
  /\ UNCHANGED <<cups, acks, initialized, listening, stranded, stale, setups, handed, refused>>

\* An error of accept() makes the event loop give the listener up.
AcceptFails ==
  /\ "accept" \in Faults
  /\ listening
  /\ listening' = FALSE
  /\ backlog' = {}
  /\ Discard(backlog)
  /\ UNCHANGED <<cups, acks, initialized, stranded, stale, slots, buffer, setups, handed, refused>>

\* close_conn
Close(s) ==
  /\ slots' = [slots EXCEPT ![s] = None]
  /\ buffer' = [buffer EXCEPT ![s] = << >>]
  /\ Discard({slots[s]})

\* The event loop finds the connection of slot s readable: the next token is t,
\* and "EOF" when the backend is gone and nothing is left to read.
Readable(s, t) ==
  /\ listening
  /\ slots[s] # None
  /\ LET c == slots[s]
     IN  IF stream[c] = << >> THEN t = "EOF" /\ c \notin open ELSE t = Head(stream[c])[1]
  /\ UNCHANGED <<cups, initialized, listening, backlog, stranded, stale, setups>>

\* Mutant: a job is acknowledged before all of it is there.
HandleStart_Acks(s) ==
  /\ Readable(s, "START")
  /\ stream' = [stream EXCEPT ![slots[s]] = Tail(@)]
  /\ buffer' = [buffer EXCEPT ![s] = << >>]
  /\ acks' = acks \cup {slots[s]}
  /\ UNCHANGED <<slots, handed, refused>>

\* printer_socket_handle_data, by the type of the message.
HandleStart(s) ==
  /\ Readable(s, "START")
  /\ stream' = [stream EXCEPT ![slots[s]] = Tail(@)]
  /\ buffer' = [buffer EXCEPT ![s] = << >>]
  /\ UNCHANGED <<slots, acks, handed, refused>>

\* Mutant: chansrv waits for a payload for ever, even from a dead backend.
HandleData_NoTimeout(s) ==
  /\ Readable(s, "DATA")
  /\ LET c == slots[s] IN
       IF Len(buffer[s]) + 1 > MaxBuffer
         THEN Close(s)
         ELSE /\ Len(stream[c]) > 1
              /\ buffer' = [buffer EXCEPT ![s] = Append(@, stream[c][2][2])]
              /\ stream' = [stream EXCEPT ![c] = Tail(Tail(@))]
              /\ UNCHANGED slots
  /\ UNCHANGED <<acks, handed, refused>>

\* The connection is closed when the job would outgrow the buffer and when the
\* payload does not come, because the backend is gone or too slow.
HandleData(s) ==
  /\ Readable(s, "DATA")
  /\ LET c == slots[s] IN
       IF Len(buffer[s]) + 1 > MaxBuffer
         THEN Close(s)
         ELSE \/ /\ Len(stream[c]) > 1
                 /\ buffer' = [buffer EXCEPT ![s] = Append(@, stream[c][2][2])]
                 /\ stream' = [stream EXCEPT ![c] = Tail(Tail(@))]
                 /\ UNCHANGED slots
              \/ /\ Len(stream[c]) = 1
                 /\ c \notin open \/ "slow" \in Faults
                 /\ Close(s)
  /\ UNCHANGED <<acks, handed, refused>>

\* Mutant: the connection is closed instead of acknowledged.
HandleEnd_NoAck(s) ==
  /\ Readable(s, "END")
  /\ LET c == slots[s] IN
       IF buffer[s] = << >>
         THEN UNCHANGED <<handed, refused>>
         ELSE /\ handed' = [handed EXCEPT ![c] = Append(@, buffer[s])]
              /\ UNCHANGED refused
  /\ Close(s)
  /\ UNCHANGED acks

\* Mutant: a job that was turned down is not acknowledged.
HandleEnd_AckOnSuccess(s) ==
  /\ Readable(s, "END")
  /\ LET c == slots[s] IN
         /\ \/ /\ buffer[s] # << >>
               /\ handed' = [handed EXCEPT ![c] = Append(@, buffer[s])]
               /\ acks' = IF c \in open THEN acks \cup {c} ELSE acks
               /\ UNCHANGED refused
            \/ /\ refused' = refused \cup {c}
               /\ UNCHANGED <<handed, acks>>
         /\ stream' = [stream EXCEPT ![c] = Tail(@)]
  /\ buffer' = [buffer EXCEPT ![s] = << >>]
  /\ UNCHANGED slots

\* A job with data goes to devredir_printer_send_job; whatever becomes of it,
\* the job is acknowledged, if there still is a backend to read it.
HandleEnd(s) ==
  /\ Readable(s, "END")
  /\ LET c == slots[s] IN
         /\ \/ /\ buffer[s] = << >>
               /\ UNCHANGED <<handed, refused>>
            \/ /\ buffer[s] # << >>
               /\ handed' = [handed EXCEPT ![c] = Append(@, buffer[s])]
               /\ UNCHANGED refused
            \/ /\ buffer[s] # << >>
               /\ "refused" \in Faults
               /\ refused' = refused \cup {c}
               /\ UNCHANGED handed
         /\ acks' = IF c \in open THEN acks \cup {c} ELSE acks
         /\ stream' = [stream EXCEPT ![c] = Tail(@)]
  /\ buffer' = [buffer EXCEPT ![s] = << >>]
  /\ UNCHANGED slots

HandleEof(s) ==
  /\ Readable(s, "EOF")
  /\ Close(s)
  /\ UNCHANGED <<acks, handed, refused>>

Handle(s) == HandleStart(s) \/ HandleData(s) \/ HandleEnd(s) \/ HandleEof(s)

-----------------------------------------------------------------------------
(* The life of the listener, as far as the connections see it.             *)

\* devredir_printer_init
Initialize ==
  /\ ~initialized
  /\ setups < MaxSetups
  /\ initialized' = TRUE
  /\ UNCHANGED <<cups, stream, acks, listening, backlog, stranded, stale, slots,
                 buffer, setups, handed, refused>>

\* handle_setup_complete opens a listener on the socket path, also when there is
\* one: the old one stays open, but nobody accepts from it any more.  When
\* printer_cups_init_listener fails it may not yet have removed the socket file.
SetupCompletes ==
  /\ initialized
  /\ setups < MaxSetups
  /\ setups' = setups + 1
  /\ \/ listening' = TRUE /\ stale' = FALSE
     \/ /\ "listen" \in Faults
        /\ listening' = FALSE
        /\ stale' \in {FALSE, stale \/ listening}
  /\ stranded' = stranded \cup backlog
  /\ backlog' = {}
  /\ UNCHANGED <<cups, stream, acks, initialized, slots, buffer, handed, refused>>

\* devredir_printer_cleanup, with printer_socket_cleanup.
Cleanup ==
  /\ initialized
  /\ initialized' = FALSE
  /\ listening' = FALSE
  /\ backlog' = {}
  /\ slots' = [s \in Slot |-> None]
  /\ buffer' = [s \in Slot |-> << >>]
  /\ Discard(backlog \cup Range(slots))
  /\ UNCHANGED <<cups, acks, stranded, stale, setups, handed, refused>>

-----------------------------------------------------------------------------

Init ==
  /\ size \in [Job -> 0..MaxPieces]
  /\ backend = [j \in Job |-> "queued"]
  /\ attempt = [j \in Job |-> 0]
  /\ left = [j \in Job |-> 0]
  /\ starts = 0
  /\ killed = {}
  /\ open = {}
  /\ stream = [c \in Conn |-> << >>]
  /\ acks = {}
  /\ initialized = FALSE
  /\ listening = FALSE
  /\ backlog = {}
  /\ stranded = {}
  /\ stale = FALSE
  /\ slots = [s \in Slot |-> None]
  /\ buffer = [s \in Slot |-> << >>]
  /\ setups = 0
  /\ handed = [c \in Conn |-> << >>]
  /\ refused = {}

\* Everything but the end of the session.
SessionStep ==
  \/ \E j \in Job : Connect(j) \/ BackendStep(j) \/ Kill(j)
  \/ Accept
  \/ AcceptFails
  \/ \E s \in Slot : Handle(s)
  \/ Initialize
  \/ SetupCompletes

Next == SessionStep \/ Cleanup

Spec == Init /\ [][Next]_vars

(* Backend processes run until they block, and chansrv's event loop gets   *)
(* to the listener and to every connection that stays readable.            *)
Fairness ==
  /\ \A j \in Job : WF_vars(BackendStep(j))
  /\ WF_vars(Accept)
  /\ \A s \in Slot : WF_vars(Handle(s))

FairSpec == Spec /\ Fairness

-----------------------------------------------------------------------------

TypeOK ==
  /\ size \in [Job -> 0..MaxPieces]
  /\ backend \in [Job -> BackendState]
  /\ attempt \in [Job -> 0..MaxAttempts]
  /\ left \in [Job -> 0..MaxPieces]
  /\ starts \in 0..MaxAttempts
  /\ killed \cup open \cup acks \cup backlog \cup stranded \cup refused \subseteq Conn
  /\ stream \in [Conn -> Seq({<<"START">>, <<"DATA">>, <<"END">>}
                             \cup ({"payload"} \X (1..MaxPieces)))]
  /\ initialized \in BOOLEAN /\ listening \in BOOLEAN /\ stale \in BOOLEAN
  /\ slots \in [Slot -> Conn \cup {None}]
  /\ buffer \in [Slot -> Seq(1..MaxPieces)]
  /\ \A s \in Slot : Len(buffer[s]) <= MaxBuffer
  /\ setups \in 0..MaxSetups
  /\ handed \in [Conn -> Seq(Seq(1..MaxPieces))]

\* Whatever is handed on for printing is the whole job, in order: a backend that
\* dies or stalls half-way, a connection cut by a cleanup or a slot taken over
\* from another job never puts part of a job on paper (printer_socket_handle_data).
HandedWhole ==
  \A c \in Conn : \A i \in 1..Len(handed[c]) : handed[c][i] = Pieces(size[c[1]])

\* When cupsd drops a job with data, devredir_printer_send_job has been asked to
\* print it by the very attempt that succeeded: the backend does not mistake
\* anything else for the acknowledgement, nor that of an earlier attempt.
DoneMeansAsked ==
  \A j \in Job : backend[j] = "done" /\ size[j] > 0 =>
     handed[ConnOf(j)] # << >> \/ ConnOf(j) \in refused

\* Retries print nothing twice: no attempt hands its job on more than once, and
\* of two attempts at a job that both did, the backend of one was killed.  What
\* is handed on is acknowledged in the same step, and the acknowledgement
\* survives a closing connection (printer_socket_handle_data).
DuplicatesOnlyAfterKill ==
  /\ \A c \in Conn : Len(handed[c]) <= 1
  /\ \A c, d \in Conn : c[1] = d[1] /\ handed[c] # << >> /\ handed[d] # << >> =>
        c = d \/ c \in killed \/ d \in killed

\* No backend hangs: every attempt ends, done or failed, also when all slots are
\* taken, the job is too large or chansrv cleans up in the middle of it.  What can
\* keep a backend waiting is a session without a listener, after accept() or
\* printer_cups_init_listener failed in it, or a connection to a listener that was
\* replaced before it accepted (printer_socket_check_all).
AttemptsEnd ==
  \A j \in Job : Running(j) ~> \/ ~Running(j) \/ ConnOf(j) \in stranded
                               \/ initialized /\ ~listening

\* A dead backend does not keep its slot as long as chansrv listens or when it
\* cleans up, whatever it left half-sent (printer_socket_check_all, close_conn).
SlotsFreed ==
  \A s \in Slot : (slots[s] # None /\ slots[s] \notin open) ~>
                     \/ slots[s] = None \/ slots[s] \in open
                     \/ initialized /\ ~listening

\* A job that cupsd drops as printed was taken over for sending: printer_socket.c
\* promises the JOB_ACK "after job is sent to client".
AckMeansSent ==
  \A j \in Job : backend[j] = "done" /\ size[j] > 0 => handed[ConnOf(j)] # << >>

=============================================================================
