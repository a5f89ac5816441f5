# Printer redirection for xrdp: models, checks and proofs

This directory holds TLA+ specifications of the printer redirection in `src/`,
the TLC configurations that check them on small instances, and TLAPS proofs.
`PROJECT.json` maps every definition to the lines it models. Paths below are
relative to the repository root, so `devredir_printer.c` is
`src/devredir_printer.c`.

## The system

A print job travels like this:

    application -> cupsd -> xrdp-printer (backend process, one per attempt)
        -> Unix socket -> printer_socket.c  (chansrv, event loop)
        -> devredir_printer_send_job -> CREATE, WRITE*, CLOSE IRPs -> RDP client

and the queue it is printed to came into being like this:

    RDP client announces a printer -> devredir_printer_device_announce
        -> check_wait_objs forks a helper -> cupsd started, lpadmin per printer
        -> one byte through a pipe -> handle_setup_complete -> listener opened

| Component | State | Operations | Hard parts |
|---|---|---|---|
| Send state machine (`devredir_printer.c`) | `g_send_list` of contexts, the IRP table of xrdp (`user_data` points to a context), `g_completion_id` | `send_job`, `irp_callback` for CREATE / WRITE / CLOSE, cleanup | several jobs in flight, answers in any order, partial writes, failures, IRPs that survive a disconnect |
| Backend process (`cups/xrdp-printer.c`) | where it is in the job, its socket | connect, START, DATA (header and payload are two writes), END, wait for the ACK | killed or stalled anywhere, run again by cupsd after an error |
| Backend sockets in chansrv (`printer/printer_socket.c`) | `g_conns` slots with a buffer each | accept, START / DATA / END, end of file, cleanup | payload later than the 100 ms of `read_exact`, no free slot, buffer limit, cleanup half-way |
| Setup (`devredir_printer.c`, `printer/printer.c`, `printer/printer_cups.c`) | printer list, `g_setup_state`, `g_setup_triggered`, pipe, listener, CUPS queues | init, announce, remove, launch helper, setup complete, cleanup | the helper works on a copy of the list, may be killed, may outlive the session; a command it ran may outlive it |
| Private cupsd (`printer/printer_cups_session.c`) | its process, socket and state directory | start, stop | started by one process, stopped from another |
| Names and URIs (`devredir_printer.c`, `printer/printer.c`, `printer/printer_cups.c`, `cups/xrdp-printer.c`) | the queues of a cupsd that several sessions may share | parse an announcement, sanitize, build and parse the device URI, find a session's queues again by name | one name space for all sessions, prefixes of prefixes, crashes that leave queues |
| `printer_job_*`, format detection, XPS conversion | - | - | nothing in the repository calls them |
| Scripts, packaging, service files | - | - | nothing concurrent |

Components meet in four places: `send_job` is called from the socket module;
chansrv and a backend share a socket; chansrv and a helper share a pipe and the
CUPS queues; everything in chansrv runs in one thread, so a callback or a
`check_wait_objs` is atomic towards the rest of chansrv, and only the client,
backends, helpers and cupsd interleave with it.

What makes each of them correct:

- send: a completion finds a live context that waits for it; WRITE and CLOSE go
  to the job's own port; the paper holds a prefix of the job, each byte once;
  every accepted job ends;
- sockets: what is handed on is a whole job; a job that cupsd drops was handed
  on; nothing is printed twice by a retry unless a backend was killed; no
  backend hangs and no slot leaks; a payload fits the buffer it is read into;
- setup: chansrv never waits for ever for a helper that was killed; no announced
  printer is forgotten; a printer marked as created has its queue; the socket file
  leads to the listener that is polled; a disconnect leaves nothing behind;
- names: a queue leads to the session and the printer it was made for, whatever
  other sessions create, remove and sweep; it is named after the client's
  printer; a session that was cleaned up has no queue left.

## Modules

| Module | What it is |
|---|---|
| `JobDelivery` | What the send side promises about a job: accepted, printed front to back, let go of. |
| `PrintSend` | The send state machine, the RDP client and the life of a connection. |
| `PrintSendProofs` | `IInv` is inductive; the safety properties follow. |
| `PrintSendDelivers` | `PrintSend` implements `JobDelivery`. |
| `PrintSendPorts` | `PortInv`, on top of `IInv`: no port of the client stays open. |
| `BackendSocket` | Backend processes and chansrv's side of their connections. |
| `BackendSocketProofs` | `SocketInv` is inductive; jobs are handed on whole, and once. |
| `PrintPath` | `BackendSocket` composed with `JobDelivery`: from cupsd to paper. |
| `PrintPathProofs` | A path is a behaviour of the sockets; `PathInv` is inductive. |
| `SocketBuffer` | The buffer of one connection, with the arithmetic of `ensure_capacity`. |
| `SocketBufferProofs` | `BufferInv` and `LimitInv` are inductive; when a payload fits the buffer, and no cut is early. |
| `PrinterSetup` | Printer list, helper processes, cupsd instances, queues, listener. |
| `PrinterSetupProofs` | `SetupInv` is inductive: pipes, listeners, queues. |
| `PrinterNames` | Announcements, queue names and URIs of several sessions. |
| `PrinterNamesProofs` | What the functions on characters compute; `IInv` is inductive: queues lead home. |
| `MC*` | Instances for TLC, with the symmetry sets. |

How they compose: `PrintSend` implements `JobDelivery` (proved), and `PrintPath`
puts `JobDelivery` in the place of `devredir_printer_send_job` in
`BackendSocket`, so what it checks of the whole path holds with the detailed send
side as well. `SocketBuffer` is the one number that `BackendSocket` abstracts to
"the buffer would pass its limit". `PrinterSetup` and `PrinterNames` look at the
same calls from two sides: there the processes interleave and names are given;
here a helper takes one step and the names are what the code computes.

### PrintSend

A member of `Job` is one call of `devredir_printer_send_job`; its context is
`ctx[j]`, and it is allocated as long as `j \in sendList`. `ctx` keeps the last
values of a freed context so that properties can talk about it; no action reads
them, which is what `CallbackFindsContext` makes sure of. `Send` stands for the
three `send_printer_*_request` functions with their early return when no IRP can
be allocated; each branch of `devredir_printer_irp_callback` is an action
(`CreateSucceeded`, `CreateFailed`, `WriteSucceeded`, `WriteFailed`,
`CloseDone`) that includes the request it sends next. `Connect` and `Disconnect`
are `devredir_printer_init` and `devredir_printer_cleanup`; `Disconnect` leaves
`irps` and `nextId` as they are, because the IRP table and `g_completion_id`
belong to xrdp and are not reset.

External: the IRP table, the requests and completions in transit and the client.
The client serves the requests of different jobs in any order, gives file ids of
closed ports to new ones, fails or truncates answers (`Faults`), takes any part
of a WRITE and never reports more bytes than it was sent, and drops the requests
of a printer it has removed. `spoiled` notes the jobs that had an answer cut
short or failed, `lost` those whose printer was removed.

### BackendSocket

A connection is named after the job and the attempt; `starts` bounds the attempts
of all jobs together. `Accept` takes the lowest free slot, as the code does.
`handed[c]` is what `devredir_printer_send_job` was called with for connection
`c`, `refused` are the connections whose job it turned down, and `killed` those
whose backend was killed: these three are history, which no guard reads. `stream[c]` holds what the
backend wrote and chansrv has not read, as tokens: START, DATA (the header), a
payload with its number, END. `HandleData` covers `read_exact`: the payload is
there, or it does not come in time because the backend is gone or slow, or the
buffer would pass its limit. `Close` discards what was unread. An
acknowledgement already written survives the close, as it does on a Unix socket.
`stranded` holds connections to a listener whose descriptor
`handle_setup_complete` overwrote; nobody accepts them. `SetupCompletes` may also
fail to open the new listener: then there is none, and if the socket file was not
yet removed it still leads to the old one (`stale`), which takes further backends
in. Everything but the cleanup is one disjunct
(`SessionStep`), so that `PrintPath` can add to it.

### PrintPath

`phase`, `length` and `printed` are the variables of `JobDelivery`, for jobs that
are named after the connection they came over. `TakeOver` joins the step in which
`HandleEnd` hands a job on with `Delivery!Accept`, for the pieces in the buffer;
`EndSession` joins `Cleanup` with the release of every context, as
`devredir_printer_cleanup` does. Printing and letting go are steps of their own.

### SocketBuffer

One connection, its jobs one after the other. `Double` is a round of the loop in
`ensure_capacity`, sums and doublings are taken modulo `Width`, and the limit is
compared after the doubling, as in the code. `Capacities` are the sizes that
doubling goes through, from the 64 KB of the first allocation to the 256 MB of the
limit (`CapacitiesAssumption`). `DataLen` are the lengths in the headers of
JOB_DATA messages. chansrv takes any `uint32_t` but 0, and so do the assumptions;
for lengths within 256 MB of 2^32 the sum of `ensure_capacity` may wrap around,
the payload is then taken to fit, and `overrun` notes the bytes that go past the
buffer. `received` counts the bytes of a job without a width and is what `dataLen`
is held against. A failed allocation, a payload that does not come and a
disconnect are all `Close`.

### PrinterSetup

A helper is a process with the list of printers it was forked with (`todo`);
chansrv's changes to its own list do not reach it. It walks through
`StartCupsd`, `AwaitCupsd` (or `UseSystemCupsd`), `CreateQueue` per printer and
`ReportSuccess`, and may be killed by its alarm between any two. Reporting into
a pipe that cleanup has closed kills it with SIGPIPE, whose handler it has reset.
The alarm kills the helper and not the command it runs at the time, which has the
write end of the pipe from it: such a helper is an `"orphan"` until the command
ends (`CommandEnds`, perhaps with the queue made after all), and as long as it does
not end chansrv sees neither a report nor the end of the pipe (`CommandHangs`).
A cupsd is named after its helper; a new one takes over the socket and some of
the queues its predecessor had saved. `Reached` says whether the commands that
chansrv itself runs get to the instance with the queues. `queues[n].late` notes
that the creating helper had been abandoned. `samePaths` says that `XDG_RUNTIME_DIR`
is not set: otherwise the helper's cupsd has its socket there and chansrv looks
for it under `/tmp`. `overlooked` and `missing` are history, which no guard reads:
printers announced while a helper ran and not part of a later one's list, and
names of queues that `lpadmin` failed for, that were removed, or that a new cupsd
did not find saved. A removal that reaches cupsd is
taken to succeed (the code tries twice, and cleanup sweeps again).

### PrinterNames

Strings are sequences of character codes here, as every property of the module is
about them. An announcement is four lengths and a block of data, of which the end
may be missing; `PrinterNameIn` goes through the offsets and conversions of
`devredir_printer_device_announce`; `SanitizeName`, `Uri`, `UriSession`,
`UriDevice` and `SweptNames` stand for the functions of the same purpose on both
sides of cupsd. `queues[c]` maps the queue names of cupsd `c` to URIs; `System` is
the one all sessions share. `private[s]` is what sesman.ini said when session `s`
was started. `printers[s][i].seen` tells the printers a helper has known of from
those announced while it ran. `HelperCreates(s, made)` makes the queues of the
printers in `made`: all of them, or some, as a failure of `lpadmin` is not one of
the helper, or the first ones before the helper ends. `samePaths[s]` is as in
`PrinterSetup`: after `CUPS_SERVER` is set, chansrv's own commands reach the private
cupsd only if it has its socket under `/tmp` (`FindsCupsd`, `Reaches`). A crash
leaves a session's queues where they are (`crashed`); a later session with the
same display number finds them. `excused` keeps the four cases that
`QueuesLeadHome` does not speak of, see below.

## Runs

| Run | Checks | Bounds |
|---|---|---|
| `send_safety` | `TypeOK`, `CallbackFindsContext`, `RequestHitsOwnPort`, `PrintsPrefix`, `NeverOverclaims`, refinement `DeliversJobs` | 2 jobs of up to 3 bytes in chunks of 2, one printer, 2 file ids, all faults, 2 sessions, one zero-byte write |
| `send_live` | `NoPortLeaked`, `JobsEnd` | 2 jobs of up to 2 bytes in chunks of 2, failing and truncated answers, one session, one zero-byte write |
| `send_complete` | `CompleteMeansPrinted`, violated | one job of one byte |
| `path_all` | `TypeOK`, `HandedWhole`, `DoneMeansAsked`, `DuplicatesOnlyAfterKill`, `OneCopyPerKill`, `DoneIsInSending`, `AttemptsEnd`, `SlotsFreed`, `NothingPrintedAfterEnd` | 2 jobs of up to 3 pieces, a buffer for 2, one slot, one pending connection, 2 backends in all, 2 listeners, all faults |
| `backend_ack` | `AckMeansSent`, violated | one job of one piece |
| `setup_all` | `TypeOK`, `WaitingHasPipe`, `QueuesLeftAreLate`, `ListenerReachable`, `SetupEnds`, `PrinterSettled` | 2 printers, 2 queue names, 2 announcements, 2 helpers, 2 sessions, all faults, both modes, with and without `XDG_RUNTIME_DIR` |
| `setup_flags` | `CreatedHasQueue`, violated | 2 printers, no fault |
| `setup_stop` | `PrivateCupsdStops`, violated | one printer, no fault |
| `setup_paths` | `DisconnectRemovesQueues`, violated | one printer, no fault |
| `buffer` | `TypeOK`, `FitsUnlessWrapped`, `LengthIsTrue`, `CutOnlyIfTooLarge`, `GrowthEnds` | 256 values, limit 64, first allocation 4 (capacities 4, 8, 16, 32, 64), messages of 1 to 4 bytes as the backend sends them, and of 191, 192, 252 and 255; jobs of up to 330 bytes |
| `names` | `TypeOK`, `QueuesLeadHome`, `NothingLeft`, `NamedByClient` | displays 1 and 12, 2 devices, 4 announcements, 2 printers a session, names of 3 characters, 2 starts, 3 announcements in all, failing helpers, failing `lpadmin` and crashes, one mode for all, with and without `XDG_RUNTIME_DIR` |
| `names_modes` | `SystemQueuesKept`, violated | two sessions with different modes, no fault |

Why the bounds are enough: two jobs are what it takes to mix up contexts, ports,
file ids, buffers and slots; three bytes in chunks of two give a full, a short and
a partial write in every combination; two sessions are needed for an IRP, a
listener or a helper of one to meet the next; with two pieces a job can be cut in
the middle, with three it does not fit the buffer. One slot makes two backends
compete for it; two backends are two jobs, or a job and its retry. In
`PrinterSetup` two announcements give a printer known to the helper, one announced
while it runs, one plugged in after it, and one of the next session beside a
helper of the first. The buffer's constants keep the proportions that matter: the
limit is a power of two times the first allocation and less than half the width.
The lengths lie on both sides of where a sum can wrap around: 191 is one less than
the width without the limit and never wraps, 192 does on a full buffer, 252 and
255 on one that has a few bytes in it. Displays 1 and 12 are one the beginning of
the other, in decimal; device 26 has two hexadecimal digits; the announcements
have an empty name, one with special characters, a zero and a character outside
ASCII, one with a colon that is also too long, and one message that is cut off.
Two starts are two sessions side by side, or one and its successor on the same
display. Bounds that are not in the code (`MaxLen`, `MaxZeroWrites`,
`MaxSessions`, `MaxPieces`, `MaxAttempts`, `MaxSetups`, `MaxHelpers`,
`MaxAnnounces`, `MaxStarts`, `MaxReceived`) only keep the state space finite.
`MaxBuffer`, `MaxConns`, `MaxPending`, `MaxPrinters`, `MaxName`, `Chunk` and the
constants of `SocketBuffer` are constants of the code, scaled down.

Symmetry is used in `send_safety` only (jobs, printers, file ids), which checks no
liveness. The runs with liveness take the two jobs in one order only
(`OrderedSpec`: by the time they are sent in `send_live`, by size in `path_all`),
as the other order is the same behaviour with the names swapped. Deadlock is not checked: a
client may stop printing, and the bounded counters run out.

### Fairness

`PrintSend`: every completion that arrives is dispatched (chansrv reads its
channel), and a client answers every request for a printer it still has; there
is no fairness for dropped requests. Zero-byte writes are bounded, as a client
that writes nothing for ever would keep a job for ever.
`BackendSocket`: a backend runs until it blocks; the event loop gets to the
listener and to every readable connection, because poll is level-triggered and
each pass accepts once and looks at every slot. No fairness makes a backend be
started, killed or slow.
`PrintPath`: the same for the two sides of a connection; nothing is assumed of
the client, so nothing is of the sending.
`SocketBuffer`: `ensure_capacity` runs on until it returns.
`PrinterNames` has safety properties only.
`PrinterSetup`: the loop launches a helper and reads its pipe, and a new cupsd gets
to listening. A helper gets on, or its alarm ends it after 30 s: one of the two
happens, and no more is assumed, so a helper that waits for a command for ever is
one that the alarm ends. Nothing ends the command. There is no fairness for
`CommandEnds`, and as the command keeps the pipe open, `SetupEnds` and
`PrinterSettled` have a case for the helper whose command hangs.

## What the checks found

Six statements of the repository do not hold of the code; each is a run that
ends in a violation and a finding in `PROJECT.json`:

- `send_complete`: a job whose WRITE failed is logged as "Print job complete".
- `backend_ack`: the ACK that is to say "job is sent to client" is sent as well
  when `devredir_printer_send_job` refused the job, and cupsd drops it.
- `setup_flags`: a printer announced while a helper runs is marked as created
  and has no queue; nothing creates one until the next announcement.
- `setup_stop`: the private cupsd does not stop on disconnect, since
  `g_session_cups_active` is set in the helper's memory only.
- `setup_paths`: with `XDG_RUNTIME_DIR` set, chansrv points `CUPS_SERVER` to a
  socket under `/tmp` that nobody serves, and the queues outlive the connection.
- `names_modes`: a private session that ends, or whose helper fails, before
  chansrv has set `CUPS_SERVER` sweeps `xrdp_` from the system's cupsd, and takes
  the queues of sessions that use that one along. It takes sessions of both modes
  on one machine, so sesman.ini must have been changed between their starts, and
  a user who may run `lpadmin`.

Conditions under which properties hold, met on the way:

- `NoPortLeaked` excepts a port whose CREATE answer was cut off: chansrv never
  learns its number.
- `JobsEnd` needs IRPs to be available: without one the context stays, and with
  it the port, until the session ends. It excepts jobs of a removed printer, and
  does not promise that a job with a failed answer is printed.
- `AttemptsEnd` excepts backends whose connection waits at a listener that was
  replaced, or that run in a session without one, because it could not be opened or
  `accept` failed. A backend that is there when the session is cleaned up ends.
- A payload fits its buffer unless `data_len` in its header is within 256 MB of
  2^32 and the sum of `ensure_capacity` wraps around (`FitsUnlessWrapped`). chansrv
  does not bound the field; the backend's messages have at most 64 KB, and with
  messages below 2^32 - 256 MB no byte goes past the buffer.
- `SetupEnds` excepts a helper that the alarm killed over a command that never
  ends: chansrv stays in `WAITING`, so that no queue is created and no listener
  opened, until the session ends.
- `PrinterSettled` says that an announced printer is marked as created, and that
  there is a queue of its name. It excepts, besides a helper that failed or
  whose command hangs, a printer that `lpadmin` failed for or whose queue was lost
  again (`missing`), and one that was announced while a helper ran and that no later
  helper was launched for (`overlooked`, the case of `setup_flags`). Leaving out any
  of these exceptions makes TLC find the case.
- `QueuesLeadHome` excepts printers of one session whose names become the same
  queue name, printers that `lpadmin` failed for, printers whose queue was swept
  because the helper of a later one failed, and printers announced while a helper
  ran (see `setup_flags`). The last three kinds are marked as created although they
  have no queue.
- `QueuesLeftAreLate` and `NothingLeft` hold of a private cupsd only if its socket
  is where chansrv looks for it, and chansrv knows of it: without `CUPS_SERVER`, or
  with `XDG_RUNTIME_DIR` set (see `setup_paths`), queues stay. In `PrinterSetup`
  every helper must also have been heard of, as one that still runs goes on to
  create queues.
- `NothingLeft` is about the end of a session. `printer_cups.h` says of the sweep
  that it is "called at startup to clean up queues left behind by crashes", but
  its callers are cleanup and `handle_setup_complete` after a failed helper: a
  session that follows a crashed one on its display keeps that one's queues until
  then, as in the model, where `Start` leaves `queues` alone.
- `CutOnlyIfTooLarge` needs a limit that is a power of two times the first
  allocation, as it is in the code.

## Proofs

Every theorem holds for all values of the constants that satisfy the module's
assumption: any sets of jobs, printers, file ids and names, any bounds, any
selection of faults. In each module the properties are not inductive by
themselves; an invariant that is (`IInv`, `SocketInv`, `SetupInv`, ...) is shown to
hold initially and to be kept by every action, one lemma per action, and the
properties follow. TLC has checked these invariants on the instances of the runs as
well, except `TypeInv` and `OwnedInv` of `PrinterNamesProofs`, which quantify over
all names there can be.

| Property | Theorem | Module |
|---|---|---|
| `TypeOK`, `CallbackFindsContext`, `RequestHitsOwnPort`, `PrintsPrefix`, `NeverOverclaims` | `TypeCorrect`, `CallbacksAreSafe`, `PortsAreOwn`, `PrintsArePrefixes`, `ReportsAreHonest` | `PrintSendProofs` |
| `DeliversJobs` | `Delivers` | `PrintSendDelivers` |
| `NoPortLeaked` | `PortsReturned` | `PrintSendPorts` |
| `TypeOK`, `HandedWhole`, `DoneMeansAsked`, `DuplicatesOnlyAfterKill` | `SocketTypes`, `JobsHandedWhole`, `DoneWasAsked`, `DuplicatesNeedKill` | `BackendSocketProofs` |
| `OneCopyPerKill`, `DoneIsInSending`, `NothingPrintedAfterEnd` | `PrintedOncePerKill`, `DoneIsHeld`, `SilentAfterEnd` | `PrintPathProofs` |
| `TypeOK`, `FitsUnlessWrapped`, `LengthIsTrue`, `CutOnlyIfTooLarge` | `LengthsBounded`, `PayloadsFit`, `LengthsTrue`, `CutsAreDue` | `SocketBufferProofs` |
| `TypeOK`, `WaitingHasPipe`, `ListenerReachable`, `QueuesLeftAreLate` | `SetupTypes`, `WaitsOnPipe`, `ListenersFound`, `SweepsAreComplete` | `PrinterSetupProofs` |
| `TypeOK`, `QueuesLeadHome`, `NothingLeft`, `NamedByClient` | `TypeCorrect`, `JobsComeHome`, `CleanupLeavesNothing`, `QueuesAreNamedByClient` | `PrinterNamesProofs` |

### The send side

The proofs assume `PrintSendAssumption` only: positive chunk size and job length,
natural bounds, `None` outside the other sets. Jobs, printers, file ids and
sessions are arbitrary sets and numbers, and any faults may occur.

The safety properties are not inductive: from an arbitrary state in which
callbacks are safe, a response could arrive for an IRP whose context has moved
on. `IInv` adds what ties the parts together: completion ids are never reused
(`IrpsUnique`); a request in transit is the one its context waits for, at the
offset where the paper ends, on the port the job opened (`RequestsCurrent`); the
same for responses, whose byte count accounts for the end of the paper
(`ResponsesCurrent`); an unused context has left no trace (`ContextsFresh`). It
covers the dangling IRPs of earlier sessions by saying nothing of an IRP without
a message: their messages are lost with the channel, and their ids never come
back.

`PrintSendProofs` proves that `Init` establishes `IInv` (`InitIInv`), that every
step keeps it (`StepIInv`, one lemma per action; `SendKeepsIInv` does the work
for all steps that send a request), and `Safety`. `TypeCorrect`,
`CallbacksAreSafe`, `PortsAreOwn`, `PrintsArePrefixes` and `ReportsAreHonest`
follow. `PrintSendDelivers` proves the refinement step by step, with `IInv`
as the invariant (`StepDelivers`), and `Delivers`: `Spec => DeliversJobs`.

`NoPortLeaked` takes knowing who knows of an open port. `PortInv` says that a job
has at most the port its context names, if it names one (`PortsOwned`); that it has
none as long as its CREATE is under way to the client (`NoPortYet`); and that a
successful answer to CREATE tells its only port, an answer to CLOSE finds none
left, and an answer that is neither has spoiled the job (`AnswersTell`). So when
the context goes, with the answer to CLOSE or with a failed CREATE, the port is
closed or the job is one of those `NoPortLeaked` excepts. The step lemmas use
`IInv` for what a message refers to.

### The sockets

`BackendSocketProofs` assumes `BackendSocketAssumption`: at least one slot, bounds
that are natural numbers, `None` no connection. `HandedWhole` is not inductive, as
it says nothing of jobs that are still on their way. In `SocketInv`,
`StreamsInOrder` says that for every connection what chansrv has read
(`HasRead`), what is in the stream and what the backend has yet to write, put
together, are the tokens of its job; that the buffer holds the pieces up to the
last one read; and, as long as the backend is there, that nothing is missing
between the end of the stream and where the backend is (`Written`). When END is read, the
buffer therefore holds all pieces. `OnePlace` and `OpenAreRunning` make sure that
two slots never serve one connection and that a connection is of the current
attempt.

That a job is handed on twice only after a kill is an argument about who may be
left without an acknowledgement: a backend that is not killed leaves its
connection only on an ACK or a failure, a job handed on in the same step as its ACK
is written (`HandedOnce`, `AcksAreDue`), and a connection without a backend
whose backend was not killed has nothing left to be read (`GoneAreKilled`). So a
backend whose job was handed on finds the ACK, is done, and is not run again.

### The path

`PathRunsSockets` is the refinement `PathSpec => Spec`: every step of the composed
system is one of `BackendSocket` or leaves its variables alone, so all of
`SocketInv` holds there. `PathInv` adds that the send side has a job exactly when
it was handed on, at its full length, and holds one only in a session
(`HeldAsHanded`). `PrintedOncePerKill`, `DoneIsHeld` and the action property
`SilentAfterEnd` follow. Together with `Delivers` this covers the way from cupsd to
the paper; what is not proved is one specification with both detailed halves in it.

### The buffer

`SocketBufferAssumption` is that twice the limit is less than the width, which
256 MB is for 32 bits; `data_len` is any number the width has, but 0. What makes
the invariant inductive is the state of the loop (`Growing`): while it runs, the
connection is active and `newCap` is positive and within the limit, so that the
doubling that passes the limit does not pass the width. `BufferInv` adds that the
length is within the allocation, that the sum of `ensure_capacity`, wrapped around
or not, is within it when the payload is read, and that the length is the number
of bytes that came if none went past the buffer. From there:

- `PayloadsFit` (`FitsUnlessWrapped`): the payload fits exactly when the sum did
  not wrap around, and it cannot wrap for a `data_len` below the width less the
  limit;
- `BackendsMessagesFit`: if all messages are below that, no byte ever goes past the
  buffer. This is the theorem for what `cups/xrdp-printer.c` sends;
- `LengthsBounded`, and `LengthsTrue` (`LengthIsTrue`): `data_len` is true as long as
  nothing went past the buffer, and never too large, whatever the headers say.

`CutsAreDue` also needs `CapacitiesAssumption`: the sizes reached by doubling end at
the limit, and none of them lies beyond it. That is true of 64 KB * 2^12 and is stated
with the set of these sizes instead of a power, which would need induction.
`LimitInv` adds to `BufferInv` that every capacity is one of them, so that a
doubling beyond the limit started from the limit.

### The setup

`PrinterSetupProofs` assumes `PrinterSetupAssumption`: `None` outside the other
sets, bounds that are natural numbers. The step from one session to the next is
what the parts of `SetupInv` are for: a pipe is open in a session only
(`PipeInSession`), so that a helper that outlives its session cannot be mistaken
for the one chansrv waits for; helpers are numbered in order (`LaunchedInOrder`),
which makes the pipe the one of the last; what was heard from a helper, chansrv
knows (`HeardIsKnown`). For `QueuesLeftAreLate` a cleanup must reach the cupsd
that has the queues: once every helper is past the start of its cupsd, its socket
is there (`SocketUp`), and without a helper there is no queue to miss
(`QueuesNeedHelper`). The lemmas about `RemoveAt` and `Cardinality` carry the list
of printers through an announcement and a removal.

### The names

`PrinterNamesProofs` assumes `PrinterNamesAssumption`: display numbers and device
ids are positive, announcements have fields of any length in whole code units,
names of at least one character are kept. `JobsComeHome` also assumes
`~MixedModes`; without that the property is false, as `names_modes` shows.

The functions on characters are recursive functions, and what they compute is
proved by induction. The library's induction theorems are schemes over
predicates; here a predicate is the set of the numbers it holds of, so that
`LessIsWellFounded` and `Least` (from `WFMin`) are enough for `StrongInduction`,
and `Recursion` and `PositionRecursion` show that the recursive functions exist.
From there on:

- `RoundTrip`: reading a printed number gives it back, in base 10 and 16; with
  `Marked`, which finds the slash, `UriIsRead`: the backend gets session and
  device of any URI as they were put into it.
- `NamesAreFound` and `PrefixesDiffer`: the sweep for a display number finds every
  name `printer_sanitize_name` makes for it and none for another number. If the
  digits of one number were the beginning of the other's, the underscore after
  them would have to be a digit.
- `AsciiOfName`, `NameInData` and `SanitizedShape`: the offsets lead to the
  printer's name, the conversion keeps printable characters of it only, and some
  if there are any, and each letter or digit in the queue name is one of them.

`IInv` adds to the properties who a queue belongs to (`OwnedInv`: each queue has
the name, the URI and the cupsd of one session), which names are shared
(`SharedInv`), and what `QueuesLeadHome` will say of printers that a helper has
made a queue for but chansrv has not yet heard of (`HomeOf`). `NamesApart` is why
a step of one session does not disturb another: either their cupsd differ, or
their prefixes do.

### Model-checked only

- Liveness (`JobsEnd`, `AttemptsEnd`, `SlotsFreed`, `GrowthEnds`, `SetupEnds`,
  `PrinterSettled`): fairness and ENABLED are out of the provers' reach.
- The six statements that do not hold, for which TLC shows a counterexample.

## Not modelled

- `printer_job_*` (the spool API), `printer_detect_format` and the XPS
  conversion: the library is built with them, and nothing in the repository calls
  them, so there is no behaviour of the system to be faithful to.
- Directories, configuration files and permissions of the private cupsd, and the
  forwarding of system printers.
- The length limit of queue names, and session number 0, for which the prefix of
  a shared cupsd is that of a private one.
- A helper that outlives its session is in `PrinterSetup`, where names are given,
  and not in `PrinterNames`.
- The time that blocking commands take in the event loop.
- What bytes that go past the end of a buffer do to the rest of the memory.
- Clients that report more bytes written than they were sent, or announce a
  printer with lengths that are not those of its fields: an announcement is what
  a client makes of a printer, whole or cut off, in whole UTF-16 code units.
- Output of `lpstat` in another language, in which the sweep finds no queue.

## Plan

1. Done: `JobDelivery`, `PrintSend`, `BackendSocket`, `PrintPath`, `SocketBuffer`,
   `PrinterSetup`, `PrinterNames`, with their runs.
2. Done: the proofs above; every safety property a run checks is a theorem.
3. Next: one specification of `BackendSocket` with `PrintSend` in the place of
   `JobDelivery`, and the proof that it implements `PrintPath`.
4. Next: an abstract specification of what a session may find in its cupsd, which
   `PrinterSetup` and `PrinterNames` both implement, in the place of the words
   that relate them above.
