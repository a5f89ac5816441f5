----------------------------- MODULE PrintSend -----------------------------
(***************************************************************************)
(* The send side of devredir_printer.c: every print job becomes a send     *)
(* context, and the context walks through IRP_MJ_CREATE, a number of       *)
(* IRP_MJ_WRITEs of at most one chunk and IRP_MJ_CLOSE, each step taken in *)
(* the callback of the previous request's completion.  Around it are the   *)
(* RDP client, which may answer the requests of different jobs in any      *)
(* order, fail them, print only a part of a chunk or vanish with its       *)
(* printer, and chansrv, which survives a disconnect and is initialised    *)
(* again for the next client with its IRP table as it was left.            *)
(*                                                                         *)
(* A member of Job stands for one call of devredir_printer_send_job and    *)
(* the context it allocates; byte i of its data is the pair <<j, i>>.      *)
(***************************************************************************)
EXTENDS Naturals, Sequences, FiniteSets

CONSTANTS
  Job,            \* calls of devredir_printer_send_job
  Device,         \* device ids of redirected printers
  FileId,         \* file ids the client's printer ports may have; reused
  None,           \* no job, no device or no file
  MaxLen,         \* bound: the longest job, in abstract bytes
  Chunk,          \* PRINTER_WRITE_CHUNK_SIZE, in abstract bytes
  Faults,         \* the faults of the environment: see FaultKinds
  MaxZeroWrites,  \* bound: successful writes of zero bytes
  MaxSessions     \* bound: connections of a client

FaultKinds == {"no_memory",     \* devredir_irp_new returns NULL
               "failure",       \* the client answers with an error status
               "truncated"}     \* ... or with success and too short a body

ASSUME PrintSendAssumption ==
  /\ None \notin Job \cup Device \cup FileId
  /\ MaxLen \in Nat \ {0}
  /\ Chunk \in Nat \ {0}
  /\ Faults \subseteq FaultKinds
  /\ MaxZeroWrites \in Nat
  /\ MaxSessions \in Nat

VARIABLES
  initialized,  \* g_initialized
  devices,      \* the device ids printer_dev_find finds in g_printer_mgr
  sendList,     \* the contexts on g_send_list; any other context is freed
  ctx,          \* ctx[j]: the fields of the context, as last written
  irps,         \* the IRP table of irp.c, with each IRP's user_data as job
  nextId,       \* g_completion_id, which outlives the sessions
  reported,     \* jobs logged as "Print job complete"
  requests,     \* DR_DEVICE_IOREQUESTs the client has yet to serve
  responses,    \* DR_DEVICE_IOCOMPLETIONs chansrv has yet to dispatch
  handles,      \* handles[f]: the job whose CREATE opened the port f
  paper,        \* paper[j]: the bytes printed on the port that j opened
  lost,         \* jobs of which the client dropped a request
  spoiled,      \* jobs of which a request failed or got a truncated answer
  zeroWrites,   \* how often the client has written zero bytes (bounded)
  sessions      \* how often a client has connected (bounded)

server == <<initialized, devices, sendList, ctx, irps, nextId, reported>>
client == <<handles, paper, lost, spoiled, zeroWrites, sessions>>
vars == <<server, requests, responses, client>>

-----------------------------------------------------------------------------

Kind == {"create", "write", "close"}

SendState == {"IDLE", "WAIT_CREATE", "WAIT_WRITE", "WAIT_CLOSE", "DONE", "ERROR"}

\* The state a context is in while its request of kind k is outstanding.
WaitState == [k \in Kind |-> CASE k = "create" -> "WAIT_CREATE"
                               [] k = "write"  -> "WAIT_WRITE"
                               [] k = "close"  -> "WAIT_CLOSE"]

Context == [state : SendState \cup {"unused"}, device : Device \cup {None},
            file : FileId \cup {None}, id : Nat, len : 0..MaxLen, offset : 0..MaxLen]

Irp == [id : Nat, kind : Kind, job : Job]

Request == [id : Nat, kind : Kind, job : Job, device : Device,
            file : FileId \cup {None}, offset : 0..MaxLen, len : 0..MaxLen]

Status == {"success", "failure", "truncated"}

\* value: the FileId of a DR_CREATE_RSP, the byte count of a DR_WRITE_RSP.
Response == [id : Nat, status : Status, value : FileId \cup {None} \cup 0..MaxLen]

\* The bytes a WRITE of n bytes at offset o of job j's data carries.
Bytes(j, o, n) == [i \in 1..n |-> <<j, o + i>>]

\* Mutant: every WRITE claims a full chunk, also the last one.
ChunkSize_AlwaysFull(c) == Chunk

\* send_printer_write_request: what is left, but no more than a chunk.
ChunkSize(c) == IF c.len - c.offset > Chunk THEN Chunk ELSE c.len - c.offset

-----------------------------------------------------------------------------
(* The three send_printer_*_request functions, which differ in the fields  *)
(* of the request only.  c is the context of job j as the caller left it   *)
(* and old the IRPs the caller deleted.  When no IRP can be allocated the  *)
(* function returns before it touches the context or the channel, and no   *)
(* caller but chansrv's looks at its result.                               *)

RequestOf(j, c, k) ==
  [id |-> nextId, kind |-> k, job |-> j, device |-> c.device,
   file   |-> IF k = "create" THEN None ELSE c.file,
   offset |-> IF k = "write" THEN c.offset ELSE 0,
   len    |-> IF k = "write" THEN ChunkSize(c) ELSE 0]

Send(j, c, k, old) ==
  \/ /\ ctx' = [ctx EXCEPT ![j] = [c EXCEPT !.state = WaitState[k], !.id = nextId]]
     /\ irps' = (irps \ old) \cup {[id |-> nextId, kind |-> k, job |-> j]}
     /\ nextId' = nextId + 1
     /\ requests' = requests \cup {RequestOf(j, c, k)}
  \/ /\ "no_memory" \in Faults
     /\ ctx' = [ctx EXCEPT ![j] = c]
     /\ irps' = irps \ old
     /\ UNCHANGED <<nextId, requests>>

\* devredir_printer_send_job, as called by the socket module.  The calls it
\* turns down (not initialised, no data, unknown device) change nothing.
SendJob(j, d, n) ==
  /\ ctx[j].state = "unused"
  /\ initialized
  /\ d \in devices
  /\ sendList' = sendList \cup {j}
  /\ Send(j, [ctx[j] EXCEPT !.state = "IDLE", !.device = d, !.len = n], "create", {})
  /\ UNCHANGED <<initialized, devices, reported, responses, client>>

-----------------------------------------------------------------------------
(* devredir_printer_irp_callback: the response r reached the IRP that      *)
(* devredir_irp_find returned for its CompletionId.                        *)

Dispatch(r, i) ==
  /\ i.id = r.id
  /\ responses' = responses \ {r}
  /\ UNCHANGED <<initialized, devices, client>>

\* Mutant: the file id of the response is not stored.
CreateSucceeded_NoFileId(r, i) ==
  /\ i.kind = "create" /\ r.status = "success"
  /\ Dispatch(r, i)
  /\ Send(i.job, ctx[i.job], "write", {i})
  /\ UNCHANGED <<sendList, reported>>

\* The port is open: note its file id and write the first chunk.
CreateSucceeded(r, i) ==
  /\ i.kind = "create" /\ r.status = "success"
  /\ Dispatch(r, i)
  /\ Send(i.job, [ctx[i.job] EXCEPT !.file = r.value], "write", {i})
  /\ UNCHANGED <<sendList, reported>>

\* An error status or a response without its FileId: the context goes.
CreateFailed(r, i) ==
  /\ i.kind = "create" /\ r.status # "success"
  /\ Dispatch(r, i)
  /\ ctx' = [ctx EXCEPT ![i.job].state = "ERROR"]
  /\ irps' = irps \ {i}
  /\ sendList' = sendList \ {i.job}
  /\ UNCHANGED <<nextId, reported, requests>>

\* Mutant: a WRITE is taken to have written all it asked for.
WriteSucceeded_CountsChunk(r, i) ==
  /\ i.kind = "write" /\ r.status = "success"
  /\ Dispatch(r, i)
  /\ LET c == [ctx[i.job] EXCEPT !.offset = @ + ChunkSize(ctx[i.job])]
     IN  Send(i.job, c, IF c.offset >= c.len THEN "close" ELSE "write", {i})
  /\ UNCHANGED <<sendList, reported>>

\* Mutant: a short write is taken for the end of the job.
WriteSucceeded_ShortIsLast(r, i) ==
  /\ i.kind = "write" /\ r.status = "success"
  /\ Dispatch(r, i)
  /\ LET c == [ctx[i.job] EXCEPT !.offset = @ + r.value]
     IN  Send(i.job, c, IF c.offset >= c.len \/ r.value < Chunk THEN "close" ELSE "write", {i})
  /\ UNCHANGED <<sendList, reported>>

\* Mutant: the context is dropped after the last WRITE, without a CLOSE.
WriteSucceeded_NoClose(r, i) ==
  /\ i.kind = "write" /\ r.status = "success"
  /\ Dispatch(r, i)
  /\ LET c == [ctx[i.job] EXCEPT !.offset = @ + r.value]
     IN  IF c.offset < c.len
           THEN Send(i.job, c, "write", {i}) /\ UNCHANGED sendList
           ELSE /\ ctx' = [ctx EXCEPT ![i.job] = [c EXCEPT !.state = "DONE"]]
                /\ irps' = irps \ {i}
                /\ sendList' = sendList \ {i.job}
                /\ UNCHANGED <<nextId, requests>>
  /\ UNCHANGED reported

\* The client took r.value bytes: go on with the next chunk or close.
WriteSucceeded(r, i) ==
  /\ i.kind = "write" /\ r.status = "success"
  /\ Dispatch(r, i)
  /\ LET c == [ctx[i.job] EXCEPT !.offset = @ + r.value]
     IN  Send(i.job, c, IF c.offset >= c.len THEN "close" ELSE "write", {i})
  /\ UNCHANGED <<sendList, reported>>

\* A failed write is not repeated; the port is closed all the same.
WriteFailed(r, i) ==
  /\ i.kind = "write" /\ r.status # "success"
  /\ Dispatch(r, i)
  /\ Send(i.job, [ctx[i.job] EXCEPT !.state = "ERROR"], "close", {i})
  /\ UNCHANGED <<sendList, reported>>

\* The job is over however CLOSE went; only its status decides on the log.
CloseDone(r, i) ==
  /\ i.kind = "close"
  /\ Dispatch(r, i)
  /\ reported' = IF r.status = "failure" THEN reported ELSE reported \cup {i.job}
  /\ ctx' = [ctx EXCEPT ![i.job].state = "DONE"]
  /\ irps' = irps \ {i}
  /\ sendList' = sendList \ {i.job}
  /\ UNCHANGED <<nextId, requests>>

IrpCallback(j) ==
  \E r \in responses, i \in irps :
     /\ i.job = j
     /\ \/ CreateSucceeded(r, i) \/ CreateFailed(r, i)
        \/ WriteSucceeded(r, i)  \/ WriteFailed(r, i)
        \/ CloseDone(r, i)

-----------------------------------------------------------------------------
(* Device list changes and the life of a connection.                       *)

\* devredir_printer_device_announce, as far as send_job sees it.
DeviceAnnounce(d) ==
  /\ initialized
  /\ d \notin devices
  /\ devices' = devices \cup {d}
  /\ UNCHANGED <<initialized, sendList, ctx, irps, nextId, reported,
                 requests, responses, client>>

\* Mutant: removing a device frees the contexts of its jobs in flight.
DeviceRemove_FreesJobs(d) ==
  /\ initialized
  /\ d \in devices
  /\ devices' = devices \ {d}
  /\ sendList' = {j \in sendList : ctx[j].device # d}
  /\ UNCHANGED <<initialized, ctx, irps, nextId, reported, requests, responses, client>>

\* devredir_printer_device_remove leaves the jobs of the device alone.
DeviceRemove(d) ==
  /\ initialized
  /\ d \in devices
  /\ devices' = devices \ {d}
  /\ UNCHANGED <<initialized, sendList, ctx, irps, nextId, reported,
                 requests, responses, client>>

\* devredir_printer_init for a new connection of a client.
Connect ==
  /\ ~initialized
  /\ sessions < MaxSessions
  /\ initialized' = TRUE
  /\ sessions' = sessions + 1
  /\ UNCHANGED <<devices, sendList, ctx, irps, nextId, reported,
                 requests, responses, handles, paper, lost, spoiled, zeroWrites>>

\* Mutant: every session numbers its IRPs from the start again.
Disconnect_RestartsIds ==
  /\ initialized
  /\ initialized' = FALSE
  /\ devices' = {}
  /\ sendList' = {}
  /\ requests' = {}
  /\ responses' = {}
  /\ handles' = [f \in FileId |-> None]
  /\ nextId' = 1
  /\ UNCHANGED <<ctx, irps, reported, paper, lost, spoiled, zeroWrites, sessions>>

\* The client is gone and devredir_deinit runs devredir_printer_cleanup: all
\* contexts are freed, the IRPs that point to them stay in the table.
Disconnect ==
  /\ initialized
  /\ initialized' = FALSE
  /\ devices' = {}
  /\ sendList' = {}
  /\ requests' = {}
  /\ responses' = {}
  /\ handles' = [f \in FileId |-> None]
  /\ UNCHANGED <<ctx, irps, nextId, reported, paper, lost, spoiled, zeroWrites, sessions>>

-----------------------------------------------------------------------------
(* The RDP client.  Requests of different jobs are independent and may be  *)
(* served in any order; a request is served once.                          *)

Reply(q, s, v) ==
  /\ s \in {"success"} \cup Faults
  /\ requests' = requests \ {q}
  /\ responses' = responses \cup {[id |-> q.id, status |-> s, value |-> v]}
  /\ spoiled' = IF s = "success" THEN spoiled ELSE spoiled \cup {q.job}
  /\ UNCHANGED server

\* The port opens unless the client reports an error; a truncated answer
\* fails to tell which port it is.
ClientCreate(q) ==
  /\ q.kind = "create"
  /\ UNCHANGED <<paper, lost, zeroWrites, sessions>>
  /\ \/ \E f \in FileId, s \in Status \ {"failure"} :
           /\ handles[f] = None
           /\ handles' = [handles EXCEPT ![f] = q.job]
           /\ Reply(q, s, IF s = "success" THEN f ELSE None)
     \/ /\ Reply(q, "failure", None)
        /\ UNCHANGED handles

\* The printer takes any part of the chunk, also before it fails.
ClientWrite(q) ==
  /\ q.kind = "write"
  /\ handles[q.file] # None
  /\ UNCHANGED <<handles, lost, sessions>>
  /\ \E n \in 0..q.len, s \in Status :
        /\ paper' = [paper EXCEPT ![handles[q.file]] = @ \o Bytes(q.job, q.offset, n)]
        /\ IF n = 0 /\ s = "success"
             THEN zeroWrites < MaxZeroWrites /\ zeroWrites' = zeroWrites + 1
             ELSE UNCHANGED zeroWrites
        /\ Reply(q, s, IF s = "success" THEN n ELSE None)

ClientClose(q) ==
  /\ q.kind = "close"
  /\ handles' = [handles EXCEPT ![q.file] = None]
  /\ UNCHANGED <<paper, lost, zeroWrites, sessions>>
  /\ \E s \in Status : Reply(q, s, None)

\* A request for a printer the client has removed is never answered.
ClientDrop(q) ==
  /\ q.device \notin devices
  /\ requests' = requests \ {q}
  /\ lost' = lost \cup {q.job}
  /\ UNCHANGED <<server, responses, handles, paper, spoiled, zeroWrites, sessions>>

ClientServes(j) ==
  \E q \in requests : q.job = j /\ (ClientCreate(q) \/ ClientWrite(q) \/ ClientClose(q))

-----------------------------------------------------------------------------

Init ==
  /\ initialized = FALSE
  /\ devices = {}
  /\ sendList = {}
  /\ ctx = [j \in Job |-> [state |-> "unused", device |-> None, file |-> None,
                           id |-> 0, len |-> 0, offset |-> 0]]
  /\ irps = {}
  /\ nextId = 1
  /\ reported = {}
  /\ requests = {}
  /\ responses = {}
  /\ handles = [f \in FileId |-> None]
  /\ paper = [j \in Job |-> << >>]
  /\ lost = {}
  /\ spoiled = {}
  /\ zeroWrites = 0
  /\ sessions = 0

Next ==
  \/ Connect
  \/ Disconnect
  \/ \E d \in Device : DeviceAnnounce(d) \/ DeviceRemove(d)
  \/ \E j \in Job, d \in Device, n \in 1..MaxLen : SendJob(j, d, n)
  \/ \E j \in Job : IrpCallback(j) \/ ClientServes(j)
  \/ \E q \in requests : ClientDrop(q)

Spec == Init /\ [][Next]_vars

(* chansrv's event loop dispatches every message that arrives, and a       *)
(* client serves every request for a printer it still has.                 *)
Fairness == \A j \in Job : WF_vars(IrpCallback(j)) /\ WF_vars(ClientServes(j))

FairSpec == Spec /\ Fairness

-----------------------------------------------------------------------------

TypeOK ==
  /\ initialized \in BOOLEAN
  /\ devices \subseteq Device
  /\ sendList \subseteq Job
  /\ ctx \in [Job -> Context]
  /\ irps \subseteq Irp
  /\ nextId \in Nat
  /\ reported \subseteq Job
  /\ requests \subseteq Request
  /\ responses \subseteq Response
  /\ handles \in [FileId -> Job \cup {None}]
  /\ paper \in [Job -> Seq(Job \X Nat)]
  /\ lost \subseteq Job
  /\ spoiled \subseteq Job
  /\ zeroWrites \in Nat
  /\ sessions \in Nat

\* A completion that can still arrive finds an IRP whose context has not been
\* freed and is waiting for exactly this completion, although cleanup frees the
\* contexts and leaves their IRPs in the table for the next session to step on
\* (devredir_printer_irp_callback uses irp->user_data unchecked).
CallbackFindsContext ==
  \A r \in responses, i \in irps : r.id = i.id =>
     /\ i.job \in sendList
     /\ ctx[i.job].state = WaitState[i.kind]
     /\ ctx[i.job].id = i.id

\* WRITE and CLOSE only ever go to a port that is open and that the CREATE of
\* the same job opened, although the client reuses file ids across jobs and
\* sessions (ctx->file_id).
RequestHitsOwnPort ==
  \A q \in requests : q.kind \in {"write", "close"} =>
     q.file \in FileId /\ handles[q.file] = q.job

\* What comes out of the printer for a job is its data from the first byte on,
\* each byte once and in order and none of another job's, over partial writes,
\* failures and interleaved jobs (data_offset of send_printer_write_request).
PrintsPrefix ==
  \A j \in Job :
     /\ Len(paper[j]) <= ctx[j].len
     /\ \A i \in 1..Len(paper[j]) : paper[j][i] = <<j, i>>

\* The "%u bytes sent" of the log never claims a byte that was not printed
\* (data_offset against the port's output).
NeverOverclaims ==
  \A j \in Job : ctx[j].offset <= Len(paper[j])

\* No port stays open on the client for a job the server has let go of
\* (devredir_printer_irp_callback closes what it opened), also after a failed
\* WRITE.  The exception is a job the client spoiled before the port was known:
\* a CREATE response too short to hold the file id.
NoPortLeaked ==
  \A f \in FileId : handles[f] # None =>
     \/ handles[f] \in sendList
     \/ handles[f] \in spoiled /\ ctx[handles[f]].file = None

-----------------------------------------------------------------------------
(* The inductive invariant behind the properties above.                    *)

\* Job j waits for the completion of its request of kind k with this id.
Waits(j, k, id) ==
  /\ j \in sendList
  /\ ctx[j].state = WaitState[k]
  /\ ctx[j].id = id

\* Completion ids are never reused, not even across sessions.
IrpsUnique ==
  /\ \A i \in irps : i.id < nextId
  /\ \A i1, i2 \in irps : i1.id = i2.id => i1 = i2

\* A request in transit is the one its context waits for.
RequestsCurrent ==
  /\ \A q \in requests :
        /\ [id |-> q.id, kind |-> q.kind, job |-> q.job] \in irps
        /\ Waits(q.job, q.kind, q.id)
        /\ \A r \in responses : r.id # q.id
        /\ q.kind \in {"create", "write"} => Len(paper[q.job]) = ctx[q.job].offset
        /\ q.kind = "write" => /\ q.offset = ctx[q.job].offset
                               /\ q.offset + q.len <= ctx[q.job].len
        /\ q.kind \in {"write", "close"} => /\ q.file = ctx[q.job].file
                                            /\ q.file \in FileId
                                            /\ handles[q.file] = q.job
  /\ \A q1, q2 \in requests : q1.id = q2.id => q1 = q2

\* So is a response, and a WRITE's response accounts for the last bytes printed.
ResponsesCurrent ==
  /\ \A r \in responses :
        /\ \E i \in irps : i.id = r.id
        /\ \A i \in irps : i.id = r.id =>
              /\ Waits(i.job, i.kind, i.id)
              /\ i.kind = "create" =>
                    /\ Len(paper[i.job]) = ctx[i.job].offset
                    /\ r.status = "success" => /\ r.value \in FileId
                                               /\ handles[r.value] = i.job
              /\ i.kind = "write" =>
                    /\ ctx[i.job].file \in FileId
                    /\ handles[ctx[i.job].file] = i.job
                    /\ r.status = "success" =>
                          /\ r.value \in Nat
                          /\ ctx[i.job].offset + r.value = Len(paper[i.job])
  /\ \A r1, r2 \in responses : r1.id = r2.id => r1 = r2

\* A context that was never allocated has left no trace; the others know their
\* device.
ContextsFresh ==
  \A j \in Job :
     /\ ctx[j].state = "unused" => j \notin sendList /\ paper[j] = << >>
     /\ j \in sendList => ctx[j].device \in Device

IInv ==
  /\ TypeOK
  /\ IrpsUnique
  /\ RequestsCurrent
  /\ ResponsesCurrent
  /\ ContextsFresh
  /\ PrintsPrefix
  /\ NeverOverclaims

-----------------------------------------------------------------------------

\* A job reported as complete was printed to its last byte: what the log line
\* "Print job complete" of devredir_printer_irp_callback says.
CompleteMeansPrinted ==
  \A j \in reported : Len(paper[j]) = ctx[j].len

\* Every accepted job leaves the send list, printed to its last byte if neither
\* the client fails a request of it nor the connection ends: no partial write,
\* failure or truncated answer leaves a context behind, and none of them loses a
\* part of another job.  The exception is a job whose printer disappears with a
\* request of it unanswered.
JobsEnd ==
  \A j \in Job :
     j \in sendList ~> \/ j \in lost
                      \/ /\ j \notin sendList
                         /\ Len(paper[j]) = ctx[j].len \/ j \in spoiled \/ ~initialized

\* The abstract job behind the contexts, the IRPs and the ports.
Delivery == INSTANCE JobDelivery WITH
  phase <- [j \in Job |-> IF j \in sendList THEN "held"
                          ELSE IF ctx[j].state = "unused" THEN "new" ELSE "over"],
  length <- [j \in Job |-> ctx[j].len],
  printed <- [j \in Job |-> Len(paper[j])]

\* The send side implements JobDelivery: jobs are printed front to back, each
\* byte once, and never after the server let go of them.
DeliversJobs == Delivery!Spec

=============================================================================
