--------------------------- MODULE PrintSendPorts ---------------------------
(***************************************************************************)
(* No port of the client stays open for a job that the server has let go   *)
(* of.  On top of IInv this takes knowing, for every open port, that the   *)
(* context, an answer under way or nobody but the client knows it.         *)
(***************************************************************************)
EXTENDS PrintSendProofs

\* A job has at most the port its context names, if it names one.
PortsOwned ==
  /\ \A f \in FileId : handles[f] # None =>
        /\ ctx[handles[f]].state # "unused"
        /\ ctx[handles[f]].file \in {None, f}
  /\ \A j \in Job : ctx[j].state = "unused" => ctx[j].file = None

\* A job whose CREATE the client has yet to serve has no port.
NoPortYet ==
  \A q \in requests : q.kind = "create" =>
     /\ ctx[q.job].file = None
     /\ \A f \in FileId : handles[f] # q.job

\* A successful CREATE tells the only port of its job, an answer to CLOSE finds
\* none, and any other answer makes the job a spoiled one.
AnswersTell ==
  \A r \in responses, i \in irps : i.id = r.id =>
     /\ i.kind = "create" =>
           /\ ctx[i.job].file = None
           /\ r.status = "success" => \A f \in FileId : handles[f] = i.job => f = r.value
     /\ i.kind = "close" => \A f \in FileId : handles[f] # i.job
     /\ r.status # "success" => i.job \in spoiled

PortInv == PortsOwned /\ NoPortYet /\ AnswersTell /\ NoPortLeaked

-----------------------------------------------------------------------------

\* Before the first client connects no port is open and no job has one.
LEMMA InitPortInv == Init => PortInv
BY DEF Init, PortInv, PortsOwned, NoPortYet, AnswersTell, NoPortLeaked

\* A send_printer_*_request for a job whose earlier IRP and messages are gone keeps
\* the invariant if its context names the port of the job, should it name one, and
\* the job has none before its CREATE.
LEMMA SendKeepsPorts ==
  ASSUME IInv, PortInv, NEW j \in Job, NEW c \in Context, NEW k \in Kind,
         NEW old \in SUBSET irps, Send(j, c, k, old), c.state # "unused",
         \A f \in FileId : handles[f] = j => k # "create" /\ c.file \in {None, f},
         k = "create" => c.file = None,
         \A q \in requests : q.job # j,
         responses' \subseteq responses,
         \A r \in responses', i \in irps : i.id = r.id => i.job # j,
         sendList' = sendList \cup {j}, UNCHANGED client
  PROVE  PortInv'
<1> DEFINE new == [c EXCEPT !.state = WaitState[k], !.id = nextId]
           fresh == [id |-> nextId, kind |-> k, job |-> j]
           req == RequestOf(j, c, k)
<1>1. /\ ctx \in [Job -> Context] /\ nextId \in Nat /\ irps \subseteq Irp
      /\ handles \in [FileId -> Job \cup {None}] /\ requests \subseteq Request
      /\ handles' = handles /\ spoiled' = spoiled
  BY DEF IInv, TypeOK, client
<1>2. new.state # "unused" /\ new.file = c.file
  BY <1>1 DEF Context, WaitState, Kind
<1>3. /\ fresh.id = nextId /\ \A i \in irps : i.id # nextId
      /\ req.kind = k /\ req.job = j
  BY <1>1 DEF IInv, IrpsUnique, Irp, RequestOf
<1>4. /\ ctx'[j] = new \/ ctx'[j] = c
      /\ \A l \in Job : l # j => ctx'[l] = ctx[l]
      /\ irps' \subseteq irps \cup {fresh}
      /\ requests' \subseteq requests \cup {req}
  BY <1>1 DEF Send
<1> HIDE DEF new, fresh, req
<1>5. ctx'[j].state # "unused" /\ ctx'[j].file = c.file
  BY <1>2, <1>4
<1>6. PortsOwned'
  BY <1>1, <1>4, <1>5, PrintSendAssumption DEF PortInv, PortsOwned
<1>7. NoPortYet'
  <2>1. ASSUME NEW q \in requests', q.kind = "create"
        PROVE  ctx'[q.job].file = None /\ \A f \in FileId : handles'[f] # q.job
    <3>1. CASE q = req
      BY <1>1, <1>3, <1>5, <2>1, <3>1
    <3>2. CASE q \in requests
      <4>1. q.job \in Job /\ q.job # j
        BY <1>1, <3>2 DEF Request
      <4> QED
        BY <1>1, <1>4, <2>1, <3>2, <4>1 DEF PortInv, NoPortYet
    <3> QED
      BY <1>4, <3>1, <3>2
  <2> QED
    BY <2>1 DEF NoPortYet
<1>8. AnswersTell'
  <2>1. ASSUME NEW r \in responses', NEW i \in irps', i.id = r.id
        PROVE  r \in responses /\ i \in irps /\ i.job \in Job /\ i.job # j
    <3>1. \E h \in irps : h.id = r.id
      BY DEF IInv, ResponsesCurrent
    <3>2. i # fresh
      BY <1>3, <2>1, <3>1
    <3> QED
      BY <1>1, <1>4, <2>1, <3>2 DEF Irp
  <2> QED
    BY <1>1, <1>4, <2>1 DEF PortInv, AnswersTell
<1>9. NoPortLeaked'
  BY <1>1, <1>4 DEF PortInv, NoPortLeaked
<1> QED
  BY <1>6, <1>7, <1>8, <1>9 DEF PortInv

\* A job may leave the send list if it has no port or the port is one that nobody
\* could have told the server of.
LEMMA EndKeepsPorts ==
  ASSUME IInv, PortInv, NEW r \in responses, NEW i \in irps, Dispatch(r, i),
         NEW s \in {"ERROR", "DONE"}, ctx' = [ctx EXCEPT ![i.job].state = s],
         irps' = irps \ {i}, sendList' = sendList \ {i.job}, UNCHANGED requests,
         \A f \in FileId : handles[f] = i.job => i.job \in spoiled /\ ctx[i.job].file = None
  PROVE  PortInv'
<1>1. /\ i.job \in Job
      /\ handles \in [FileId -> Job \cup {None}] /\ irps \subseteq Irp
      /\ requests \subseteq Request
      /\ handles' = handles /\ spoiled' = spoiled /\ responses' \subseteq responses
  BY DispatchedIsCurrent DEF IInv, TypeOK, Dispatch, client
<1>2. ctx \in [Job -> Context]
  BY DEF IInv, TypeOK
<1>3. /\ ctx'[i.job].state # "unused"
      /\ \A j \in Job : ctx'[j].file = ctx[j].file
      /\ \A j \in Job : j # i.job => ctx'[j] = ctx[j]
  BY <1>1, <1>2 DEF Context
<1>4. PortsOwned'
  BY <1>1, <1>3, PrintSendAssumption DEF PortInv, PortsOwned
<1>5. NoPortYet'
  <2>1. \A q \in requests : q.job \in Job
    BY <1>1 DEF Request
  <2> QED
    BY <1>1, <1>3, <2>1 DEF PortInv, NoPortYet
<1>6. AnswersTell'
  <2>1. \A h \in irps : h.job \in Job
    BY <1>1 DEF Irp
  <2> QED
    BY <1>1, <1>3, <2>1 DEF PortInv, AnswersTell
<1>7. NoPortLeaked'
  BY <1>1, <1>3 DEF PortInv, NoPortLeaked
<1> QED
  BY <1>4, <1>5, <1>6, <1>7 DEF PortInv

-----------------------------------------------------------------------------

\* devredir_printer_irp_callback keeps the invariant: what it lets go of has been
\* closed, or never told it of a port.
LEMMA IrpCallbackKeepsPorts ==
  ASSUME IInv, PortInv, NEW j \in Job, IrpCallback(j)
  PROVE  PortInv'
<1>1. PICK r \in responses, i \in irps :
         /\ i.job = j
         /\ \/ CreateSucceeded(r, i) \/ CreateFailed(r, i)
            \/ WriteSucceeded(r, i)  \/ WriteFailed(r, i)
            \/ CloseDone(r, i)
  BY DEF IrpCallback
<1>2. i.id = r.id /\ Dispatch(r, i)
  BY <1>1 DEF CreateSucceeded, CreateFailed, WriteSucceeded, WriteFailed, CloseDone, Dispatch
<1> DEFINE old == ctx[j]
<1>3. /\ Waits(j, i.kind, i.id)
      /\ old \in Context
      /\ \A q \in requests : q.job # j
      /\ \A s \in responses \ {r}, h \in irps : h.id = s.id => h.job # j
  BY <1>1, <1>2, DispatchedIsCurrent
<1>4. /\ responses' \subseteq responses /\ UNCHANGED client
      /\ \A s \in responses', h \in irps : h.id = s.id => h.job # j
  BY <1>2, <1>3 DEF Dispatch
<1>5. /\ i.kind \in Kind => old.state # "unused"
      /\ \A f \in FileId : handles[f] = j => old.file \in {None, f}
  BY <1>3, PrintSendAssumption DEF Waits, WaitState, Kind, PortInv, PortsOwned
<1>6. CASE CreateSucceeded(r, i)
  <2> DEFINE c == [old EXCEPT !.file = r.value]
  <2>1. /\ r.value \in FileId
        /\ \A f \in FileId : handles[f] = j => f = r.value
    BY <1>1, <1>2, <1>6 DEF CreateSucceeded, IInv, ResponsesCurrent, PortInv, AnswersTell
  <2>2. c \in Context /\ c.file = r.value /\ c.state = old.state
    BY <1>3, <2>1 DEF Context
  <2>3. c.state # "unused" /\ "write" \in Kind
    BY <1>5, <1>6, <2>2 DEF CreateSucceeded, Kind
  <2>4. /\ Send(j, c, "write", {i}) /\ {i} \in SUBSET irps
        /\ sendList' = sendList \cup {j}
    BY <1>1, <1>3, <1>6 DEF CreateSucceeded, Waits
  <2>5. \A f \in FileId : handles[f] = j => "write" # "create" /\ c.file \in {None, f}
    BY <2>1, <2>2
  <2> HIDE DEF c
  <2> QED
    BY <1>3, <1>4, <2>2, <2>3, <2>4, <2>5, SendKeepsPorts
<1>7. CASE CreateFailed(r, i)
  <2>1. \A f \in FileId : handles[f] = i.job => i.job \in spoiled /\ ctx[i.job].file = None
    BY <1>2, <1>7 DEF CreateFailed, PortInv, AnswersTell
  <2> QED
    BY <1>2, <1>7, <2>1, EndKeepsPorts DEF CreateFailed
<1>8. CASE WriteSucceeded(r, i)
  <2> DEFINE c == [old EXCEPT !.offset = @ + r.value]
             k == IF c.offset >= c.len THEN "close" ELSE "write"
  <2>1. r.value \in Nat /\ old.offset + r.value \in 0..MaxLen
    <3>1. r.value \in Nat /\ old.offset + r.value = Len(paper[j])
      BY <1>1, <1>2, <1>8 DEF WriteSucceeded, IInv, ResponsesCurrent
    <3>2. Len(paper[j]) \in Nat /\ Len(paper[j]) <= old.len
      BY <1>1, <1>2, DispatchedIsCurrent
    <3> QED
      BY <1>3, <3>1, <3>2, PrintSendAssumption DEF Context
  <2>2. c \in Context /\ c.file = old.file /\ c.state = old.state
    BY <1>3, <2>1 DEF Context
  <2>3. c.state # "unused" /\ k \in Kind /\ k # "create"
    BY <1>5, <1>8, <2>2 DEF WriteSucceeded, Kind
  <2>4. /\ Send(j, c, k, {i}) /\ {i} \in SUBSET irps
        /\ sendList' = sendList \cup {j}
    BY <1>1, <1>3, <1>8 DEF WriteSucceeded, Waits
  <2>5. \A f \in FileId : handles[f] = j => k # "create" /\ c.file \in {None, f}
    BY <1>5, <2>2, <2>3
  <2> HIDE DEF c, k
  <2> QED
    BY <1>3, <1>4, <2>2, <2>3, <2>4, <2>5, SendKeepsPorts
<1>9. CASE WriteFailed(r, i)
  <2> DEFINE c == [old EXCEPT !.state = "ERROR"]
  <2>1. c \in Context /\ c.file = old.file /\ c.state # "unused" /\ "close" \in Kind
    BY <1>3 DEF Context, SendState, Kind
  <2>2. /\ Send(j, c, "close", {i}) /\ {i} \in SUBSET irps
        /\ sendList' = sendList \cup {j}
    BY <1>1, <1>3, <1>9 DEF WriteFailed, Waits
  <2>3. \A f \in FileId : handles[f] = j => "close" # "create" /\ c.file \in {None, f}
    BY <1>5, <2>1
  <2> HIDE DEF c
  <2> QED
    BY <1>3, <1>4, <2>1, <2>2, <2>3, SendKeepsPorts
<1>10. CASE CloseDone(r, i)
  <2>1. \A f \in FileId : handles[f] # i.job
    BY <1>2, <1>10 DEF CloseDone, PortInv, AnswersTell
  <2> QED
    BY <1>2, <1>10, <2>1, EndKeepsPorts DEF CloseDone
<1> QED
  BY <1>1, <1>6, <1>7, <1>8, <1>9, <1>10

\* An accepted job asks for its port, having none.
LEMMA SendJobKeepsPorts ==
  ASSUME IInv, PortInv, NEW j \in Job, NEW d \in Device, NEW n \in 1..MaxLen, SendJob(j, d, n)
  PROVE  PortInv'
<1> DEFINE c == [ctx[j] EXCEPT !.state = "IDLE", !.device = d, !.len = n]
<1>1. ctx[j] \in Context /\ ctx[j].state = "unused" /\ j \notin sendList /\ j # None
  BY PrintSendAssumption DEF SendJob, IInv, TypeOK, ContextsFresh
<1>2. ctx[j].file = None /\ \A f \in FileId : handles[f] # j
  BY <1>1 DEF PortInv, PortsOwned
<1>3. c \in Context /\ c.state = "IDLE" /\ c.file = None
  <2>1. n \in 0..MaxLen /\ "IDLE" \in SendState \cup {"unused"} /\ d \in Device \cup {None}
    BY PrintSendAssumption DEF SendState
  <2> QED
    BY <1>1, <1>2, <2>1 DEF Context
<1>4. /\ Send(j, c, "create", {}) /\ sendList' = sendList \cup {j}
      /\ responses' \subseteq responses /\ UNCHANGED client
      /\ "create" \in Kind /\ {} \in SUBSET irps
  BY DEF SendJob, Kind
<1>5. \A q \in requests : q.job # j
  BY <1>1 DEF IInv, RequestsCurrent, Waits
<1>6. \A r \in responses', i \in irps : i.id = r.id => i.job # j
  BY <1>1, <1>4 DEF IInv, ResponsesCurrent, Waits
<1>7. c.state # "unused"
  BY <1>3
<1> HIDE DEF c
<1> QED
  BY <1>2, <1>3, <1>4, <1>5, <1>6, <1>7, SendKeepsPorts

-----------------------------------------------------------------------------

\* What the client's answer must say of the ports of the job it answers for; those
\* of other jobs stay as they are.
LEMMA ReplyKeepsPorts ==
  ASSUME IInv, PortInv, NEW q \in requests, NEW s, NEW v, Reply(q, s, v),
         handles' \in [FileId -> Job \cup {None}],
         \A f \in FileId : handles'[f] \in {handles[f], q.job, None},
         \A f \in FileId : handles'[f] = q.job => ctx[q.job].file \in {None, f},
         q.kind = "create" /\ s = "success" => \A f \in FileId : handles'[f] = q.job => f = v,
         q.kind = "close" => \A f \in FileId : handles'[f] # q.job
  PROVE  PortInv'
<1> DEFINE a == [id |-> q.id, status |-> s, value |-> v]
<1>1. /\ q.job \in Job /\ Waits(q.job, q.kind, q.id) /\ q.kind \in Kind
      /\ \A i \in irps : i.id = q.id => i.kind = q.kind /\ i.job = q.job
      /\ \A p \in requests \ {q} : p.job # q.job
      /\ \A r \in responses, i \in irps : i.id = r.id => i.job # q.job
  BY ServedIsCurrent DEF Request
<1>2. /\ requests' \subseteq requests \ {q} /\ responses' = responses \cup {a}
      /\ ctx' = ctx /\ irps' = irps /\ sendList' = sendList
      /\ spoiled \subseteq spoiled'
      /\ s # "success" => q.job \in spoiled'
      /\ a.id = q.id /\ a.status = s /\ a.value = v
  BY DEF Reply, server
<1> HIDE DEF a
<1>3. /\ irps \subseteq Irp /\ requests \subseteq Request /\ None \notin Job
      /\ handles \in [FileId -> Job \cup {None}]
  BY PrintSendAssumption DEF IInv, TypeOK
<1>4. \A j \in Job \ {q.job}, f \in FileId : handles'[f] = j => handles[f] = j
  BY <1>1, <1>3
<1>5. PortsOwned'
  <2>1. ctx[q.job].state # "unused"
    BY <1>1 DEF Waits, WaitState, Kind
  <2>2. ASSUME NEW f \in FileId, handles'[f] # None
        PROVE  /\ ctx[handles'[f]].state # "unused"
               /\ ctx[handles'[f]].file \in {None, f}
    <3>1. CASE handles'[f] = q.job
      BY <2>1, <3>1
    <3>2. CASE handles'[f] = handles[f]
      BY <2>2, <3>2 DEF PortInv, PortsOwned
    <3> QED
      BY <2>2, <3>1, <3>2
  <2> QED
    BY <1>2, <2>2 DEF PortInv, PortsOwned
<1>6. NoPortYet'
  <2>1. ASSUME NEW p \in requests', p.kind = "create"
        PROVE  ctx[p.job].file = None /\ \A f \in FileId : handles'[f] # p.job
    <3>1. p \in requests /\ p.job \in Job \ {q.job}
      BY <1>1, <1>2, <1>3 DEF Request
    <3> QED
      BY <1>4, <2>1, <3>1 DEF PortInv, NoPortYet
  <2> QED
    BY <1>2, <2>1 DEF NoPortYet
<1>7. AnswersTell'
  <2>1. ASSUME NEW r \in responses', NEW i \in irps, i.id = r.id
        PROVE  /\ i.kind = "create" =>
                    /\ ctx[i.job].file = None
                    /\ r.status = "success" => \A f \in FileId : handles'[f] = i.job => f = r.value
               /\ i.kind = "close" => \A f \in FileId : handles'[f] # i.job
               /\ r.status # "success" => i.job \in spoiled'
    <3>1. CASE r \in responses
      <4>1. i.job \in Job \ {q.job}
        BY <1>1, <1>3, <2>1, <3>1 DEF Irp
      <4> QED
        BY <1>2, <1>4, <2>1, <3>1, <4>1 DEF PortInv, AnswersTell
    <3>2. CASE r = a
      <4>1. i.job = q.job /\ i.kind = q.kind
        BY <1>1, <1>2, <2>1, <3>2
      <4>2. q.kind = "create" => ctx[q.job].file = None
        BY DEF PortInv, NoPortYet
      <4> QED
        BY <1>2, <3>2, <4>1, <4>2
    <3> QED
      BY <1>2, <3>1, <3>2
  <2> QED
    BY <1>2, <2>1 DEF AnswersTell
<1>8. NoPortLeaked'
  <2>1. ASSUME NEW f \in FileId, handles'[f] # None
        PROVE  \/ handles'[f] \in sendList
               \/ handles'[f] \in spoiled' /\ ctx[handles'[f]].file = None
    <3>1. CASE handles'[f] = q.job
      BY <1>1, <3>1 DEF Waits
    <3>2. CASE handles'[f] = handles[f]
      BY <1>2, <2>1, <3>2 DEF PortInv, NoPortLeaked
    <3> QED
      BY <2>1, <3>1, <3>2
  <2> QED
    BY <1>2, <2>1 DEF NoPortLeaked
<1> QED
  BY <1>5, <1>6, <1>7, <1>8 DEF PortInv

\* The client opens a port for the job, and says which or spoils the job.
LEMMA ClientCreateKeepsPorts ==
  ASSUME IInv, PortInv, NEW q \in requests, ClientCreate(q)
  PROVE  PortInv'
<1>1. /\ q.job \in Job /\ q.kind = "create"
      /\ handles \in [FileId -> Job \cup {None}] /\ None \notin Job
  BY ServedIsCurrent, PrintSendAssumption DEF ClientCreate, IInv, TypeOK
<1>2. ctx[q.job].file = None /\ \A f \in FileId : handles[f] # q.job
  BY <1>1 DEF PortInv, NoPortYet
<1>3. CASE \E f \in FileId, s \in Status \ {"failure"} :
             /\ handles[f] = None
             /\ handles' = [handles EXCEPT ![f] = q.job]
             /\ Reply(q, s, IF s = "success" THEN f ELSE None)
  <2>1. PICK f \in FileId, s \in Status \ {"failure"} :
             /\ handles[f] = None
             /\ handles' = [handles EXCEPT ![f] = q.job]
             /\ Reply(q, s, IF s = "success" THEN f ELSE None)
    BY <1>3
  <2> DEFINE v == IF s = "success" THEN f ELSE None
  <2>2. /\ handles' \in [FileId -> Job \cup {None}]
        /\ \A g \in FileId : handles'[g] \in {handles[g], q.job, None}
        /\ \A g \in FileId : handles'[g] = q.job => g = f /\ ctx[q.job].file \in {None, g}
    BY <1>1, <1>2, <2>1
  <2>3. s = "success" => v = f
    OBVIOUS
  <2>4. Reply(q, s, v)
    BY <2>1
  <2> HIDE DEF v
  <2> QED
    BY <1>1, <2>2, <2>3, <2>4, ReplyKeepsPorts
<1>4. CASE Reply(q, "failure", None) /\ UNCHANGED handles
  BY <1>1, <1>2, <1>4, ReplyKeepsPorts
<1> QED
  BY <1>3, <1>4 DEF ClientCreate

\* Printing opens and closes no port.
LEMMA ClientWriteKeepsPorts ==
  ASSUME IInv, PortInv, NEW q \in requests, ClientWrite(q)
  PROVE  PortInv'
<1>1. /\ q.job \in Job /\ q.kind = "write" /\ None \notin Job
      /\ handles' = handles /\ handles \in [FileId -> Job \cup {None}]
  BY ServedIsCurrent, PrintSendAssumption DEF ClientWrite, IInv, TypeOK
<1>2. PICK n \in 0..q.len, s \in Status : Reply(q, s, IF s = "success" THEN n ELSE None)
  BY DEF ClientWrite
<1>3. \A f \in FileId : handles'[f] = q.job => ctx[q.job].file \in {None, f}
  BY <1>1 DEF PortInv, PortsOwned
<1> QED
  BY <1>1, <1>2, <1>3, ReplyKeepsPorts

\* The port a CLOSE names is the only one of its job.
LEMMA ClientCloseKeepsPorts ==
  ASSUME IInv, PortInv, NEW q \in requests, ClientClose(q)
  PROVE  PortInv'
<1>1. /\ q.job \in Job /\ q.kind = "close" /\ None \notin Job \cup FileId
      /\ handles \in [FileId -> Job \cup {None}]
      /\ q.file \in FileId /\ q.file = ctx[q.job].file
      /\ handles' = [handles EXCEPT ![q.file] = None]
  BY ServedIsCurrent, PrintSendAssumption DEF ClientClose, IInv, TypeOK, RequestsCurrent
<1>2. PICK s \in Status : Reply(q, s, None)
  BY DEF ClientClose
<1>3. \A f \in FileId : handles[f] = q.job => f = q.file
  BY <1>1 DEF PortInv, PortsOwned
<1>4. /\ handles' \in [FileId -> Job \cup {None}]
      /\ \A f \in FileId : handles'[f] \in {handles[f], None} /\ handles'[f] # q.job
  BY <1>1, <1>3
<1> QED
  BY <1>1, <1>2, <1>4, ReplyKeepsPorts

\* The end of a connection closes every port, and the other steps concern none.
LEMMA OthersKeepPorts ==
  ASSUME IInv, PortInv,
         \/ Connect \/ Disconnect \/ UNCHANGED vars
         \/ \E d \in Device : DeviceAnnounce(d) \/ DeviceRemove(d)
         \/ \E q \in requests : ClientDrop(q)
  PROVE  PortInv'
<1> USE DEF PortInv, PortsOwned, NoPortYet, AnswersTell, NoPortLeaked
<1>1. CASE Disconnect
  BY <1>1 DEF Disconnect
<1>2. CASE \/ Connect \/ UNCHANGED vars
           \/ \E d \in Device : DeviceAnnounce(d) \/ DeviceRemove(d)
           \/ \E q \in requests : ClientDrop(q)
  <2>1. /\ UNCHANGED <<sendList, ctx, irps, responses, handles, spoiled>>
        /\ requests' \subseteq requests
    BY <1>2 DEF Connect, DeviceAnnounce, DeviceRemove, ClientDrop, vars, server, client
  <2> QED
    BY <2>1
<1> QED
  BY <1>1, <1>2

\* Every step of chansrv, the client and the connection keeps the invariant.
LEMMA StepPortInv == IInv /\ PortInv /\ [Next]_vars => PortInv'
<1> SUFFICES ASSUME IInv, PortInv, [Next]_vars PROVE PortInv'
  OBVIOUS
<1>1. CASE \/ Connect \/ Disconnect \/ UNCHANGED vars
           \/ \E d \in Device : DeviceAnnounce(d) \/ DeviceRemove(d)
           \/ \E q \in requests : ClientDrop(q)
  BY <1>1, OthersKeepPorts
<1>2. CASE \E j \in Job, d \in Device, n \in 1..MaxLen : SendJob(j, d, n)
  BY <1>2, SendJobKeepsPorts
<1>3. CASE \E j \in Job : IrpCallback(j)
  BY <1>3, IrpCallbackKeepsPorts
<1>4. CASE \E j \in Job : ClientServes(j)
  BY <1>4, ClientCreateKeepsPorts, ClientWriteKeepsPorts, ClientCloseKeepsPorts DEF ClientServes
<1> QED
  BY <1>1, <1>2, <1>3, <1>4 DEF Next

\* A job that has left the send list has no port open on the client, unless it was
\* spoiled before the server could learn which.
THEOREM PortsReturned == Spec => []NoPortLeaked
<1>1. Spec => []PortInv
  BY InitPortInv, StepPortInv, Safety, PTL DEF Spec
<1>2. PortInv => NoPortLeaked
  BY DEF PortInv
<1> QED
  BY <1>1, <1>2, PTL

=============================================================================
