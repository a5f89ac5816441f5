-------------------------- MODULE PrintSendProofs --------------------------
(***************************************************************************)
(* The safety of PrintSend for any number of jobs, printers and sessions,  *)
(* any chunk size and job length and any selection of faults: IInv is      *)
(* inductive, and the safety properties of the module follow from it.      *)
(***************************************************************************)
EXTENDS PrintSend, TLAPS

\* A chunk is never longer than what is left of the data.
LEMMA ChunkFits ==
  ASSUME NEW c \in Context, c.offset <= c.len
  PROVE  ChunkSize(c) \in 0..MaxLen /\ c.offset + ChunkSize(c) <= c.len
BY PrintSendAssumption DEF ChunkSize, Context

\* The bytes a WRITE carries continue the data at its offset.
LEMMA BytesType ==
  ASSUME NEW j \in Job, NEW o \in Nat, NEW n \in Nat
  PROVE  /\ Bytes(j, o, n) \in Seq(Job \X Nat)
         /\ Len(Bytes(j, o, n)) = n
         /\ \A i \in 1..n : Bytes(j, o, n)[i] = <<j, o + i>>
BY DEF Bytes

\* The concatenation of two sequences is one.
LEMMA ConcatType ==
  ASSUME NEW S, NEW s \in Seq(S), NEW t \in Seq(S)
  PROVE  s \o t \in Seq(S) /\ Len(s \o t) = Len(s) + Len(t)
OBVIOUS

\* Printing the bytes at the end of what was printed keeps the print a prefix.
LEMMA AppendKeepsPrefix ==
  ASSUME NEW j \in Job, NEW n \in Nat, NEW p \in Seq(Job \X Nat),
         \A i \in 1..Len(p) : p[i] = <<j, i>>
  PROVE  LET e == p \o Bytes(j, Len(p), n)
         IN  /\ e \in Seq(Job \X Nat)
             /\ Len(e) = Len(p) + n
             /\ \A i \in 1..Len(e) : e[i] = <<j, i>>
<1> DEFINE b == Bytes(j, Len(p), n)
           e == p \o b
<1>2. Len(p) \in Nat
  OBVIOUS
<1>1. b \in Seq(Job \X Nat) /\ Len(b) = n /\ \A i \in 1..n : b[i] = <<j, Len(p) + i>>
  BY <1>2, BytesType
<1> HIDE DEF b
<1>3. e \in Seq(Job \X Nat) /\ Len(e) = Len(p) + n
  <2>1. e \in Seq(Job \X Nat) /\ Len(e) = Len(p) + Len(b)
    BY <1>1, ConcatType, Zenon
  <2> QED
    BY <1>1, <2>1
<1>4. ASSUME NEW i \in 1..Len(e)
      PROVE  e[i] = <<j, i>>
  <2>1. CASE i <= Len(p)
    BY <1>1, <1>2, <2>1
  <2>2. CASE i > Len(p)
    <3>1. e[i] = b[i - Len(p)]
      BY <1>1, <1>2, <1>3, <2>2
    <3>2. i - Len(p) \in 1..n /\ Len(p) + (i - Len(p)) = i
      BY <1>2, <1>3, <2>2
    <3> QED
      BY <1>1, <3>1, <3>2
  <2> QED
    BY <2>1, <2>2, <1>2, <1>3
<1> QED
  BY <1>3, <1>4 DEF b

-----------------------------------------------------------------------------

\* Before the first client connects there is nothing in transit and no context.
THEOREM InitIInv == Init => IInv
<1> SUFFICES ASSUME Init PROVE IInv
  OBVIOUS
<1>1. TypeOK
  <2>1. ctx \in [Job -> Context]
    BY PrintSendAssumption DEF Init, Context, SendState
  <2>2. paper \in [Job -> Seq(Job \X Nat)]
    <3>1. << >> \in Seq(Job \X Nat)
      OBVIOUS
    <3> QED
      BY <3>1 DEF Init
  <2> QED
    BY <2>1, <2>2 DEF Init, TypeOK
<1>2. IrpsUnique /\ RequestsCurrent /\ ResponsesCurrent
  BY DEF Init, IrpsUnique, RequestsCurrent, ResponsesCurrent
<1>3. ContextsFresh
  BY DEF Init, ContextsFresh
<1>4. PrintsPrefix /\ NeverOverclaims
  BY DEF Init, PrintsPrefix, NeverOverclaims
<1> QED
  BY <1>1, <1>2, <1>3, <1>4 DEF IInv

-----------------------------------------------------------------------------
(* What one of the send_printer_*_request functions needs of its caller to *)
(* keep IInv: it is called for a context that waits for nothing else, in   *)
(* step with the print, and of an open port unless it is to open one.      *)

Ready(j, c, k) ==
  /\ j \in sendList'
  /\ c.state # "unused" /\ c.device \in Device
  /\ c.offset <= Len(paper[j]) /\ Len(paper[j]) <= c.len
  /\ k \in {"create", "write"} => Len(paper[j]) = c.offset
  /\ k \in {"write", "close"} => c.file \in FileId /\ handles[c.file] = j

\* A send_printer_*_request for a context whose earlier IRP and messages are gone
\* keeps the invariant, also when no IRP can be allocated.
LEMMA SendKeepsIInv ==
  ASSUME IInv, NEW j \in Job, NEW c \in Context, NEW k \in Kind, NEW old \in SUBSET irps,
         Send(j, c, k, old), Ready(j, c, k),
         \A q \in requests : q.job # j,
         responses' \subseteq responses,
         \A r \in responses', i \in irps : i.id = r.id => i.job # j /\ i \notin old,
         \A i \in old : i.job = j,
         sendList' = sendList \cup {j},
         UNCHANGED <<initialized, devices, reported, client>>
  PROVE  IInv'
<1> USE DEF IInv
<1> DEFINE new == [c EXCEPT !.state = WaitState[k], !.id = nextId]
           fresh == [id |-> nextId, kind |-> k, job |-> j]
           req == RequestOf(j, c, k)
<1>1. /\ ctx \in [Job -> Context] /\ nextId \in Nat /\ irps \subseteq Irp
      /\ requests \subseteq Request /\ responses \subseteq Response /\ sendList \subseteq Job
      /\ paper \in [Job -> Seq(Job \X Nat)]
  BY DEF TypeOK
<1>2. /\ new \in Context /\ new.state = WaitState[k] /\ new.state # "unused" /\ new.id = nextId
      /\ new.device = c.device /\ new.file = c.file
      /\ new.len = c.len /\ new.offset = c.offset
  BY <1>1 DEF Context, WaitState, Kind, SendState
<1>3. Len(paper[j]) \in Nat /\ c.offset \in 0..MaxLen /\ c.len \in 0..MaxLen /\ c.offset <= c.len
  BY <1>1, PrintSendAssumption DEF Context, Ready
<1>4. /\ req \in Request
      /\ req.id = nextId /\ req.kind = k /\ req.job = j
      /\ k \in {"write", "close"} => req.file = c.file
      /\ k = "write" => req.offset = c.offset /\ req.offset + req.len <= c.len
  <2>1. ChunkSize(c) \in 0..MaxLen /\ c.offset + ChunkSize(c) <= c.len
    BY <1>3, ChunkFits
  <2>2. c.offset \in 0..MaxLen /\ 0 \in 0..MaxLen /\ c.device \in Device /\ nextId \in Nat
    BY <1>1, <1>3, PrintSendAssumption DEF Ready
  <2>3. CASE k = "create"
    BY <2>2, <2>3 DEF RequestOf, Request
  <2>4. CASE k = "write"
    <3>1. c.file \in FileId
      BY <2>4 DEF Ready
    <3> QED
      BY <2>1, <2>2, <2>4, <3>1 DEF RequestOf, Request
  <2>5. CASE k = "close"
    <3>1. c.file \in FileId
      BY <2>5 DEF Ready
    <3> QED
      BY <2>2, <2>5, <3>1 DEF RequestOf, Request
  <2> QED
    BY <2>3, <2>4, <2>5 DEF Kind
<1>5. /\ fresh \in Irp /\ fresh.id = nextId /\ fresh.kind = k /\ fresh.job = j
      /\ \A i \in irps : i.id # nextId
  BY <1>1 DEF Irp, IrpsUnique
<1> HIDE DEF new, fresh, req
<1>6. CASE /\ ctx' = [ctx EXCEPT ![j] = new]
           /\ irps' = (irps \ old) \cup {fresh}
           /\ nextId' = nextId + 1
           /\ requests' = requests \cup {req}
  <2>1. /\ ctx'[j] = new
        /\ \A l \in Job : l # j => ctx'[l] = ctx[l]
    BY <1>1, <1>6
  <2>2. TypeOK'
    BY <1>1, <1>2, <1>4, <1>5, <1>6 DEF TypeOK, client
  <2>3. IrpsUnique'
    BY <1>1, <1>5, <1>6 DEF IrpsUnique, Irp
  <2>4. RequestsCurrent'
    <3>1. ASSUME NEW q \in requests'
          PROVE  /\ [id |-> q.id, kind |-> q.kind, job |-> q.job] \in irps'
                 /\ Waits(q.job, q.kind, q.id)'
                 /\ \A r \in responses' : r.id # q.id
                 /\ q.kind \in {"create", "write"} => Len(paper'[q.job]) = ctx'[q.job].offset
                 /\ q.kind = "write" => /\ q.offset = ctx'[q.job].offset
                                        /\ q.offset + q.len <= ctx'[q.job].len
                 /\ q.kind \in {"write", "close"} => /\ q.file = ctx'[q.job].file
                                                     /\ q.file \in FileId
                                                     /\ handles'[q.file] = q.job
      <4>1. CASE q = req
        <5>1. [id |-> q.id, kind |-> q.kind, job |-> q.job] \in irps'
          BY <1>4, <1>6, <4>1 DEF fresh
        <5>2. Waits(q.job, q.kind, q.id)'
          BY <1>2, <1>4, <2>1, <4>1 DEF Waits, Ready
        <5>3. \A r \in responses' : r.id # q.id
          BY <1>4, <1>5, <4>1 DEF ResponsesCurrent
        <5> QED
          BY <1>2, <1>4, <2>1, <4>1, <5>1, <5>2, <5>3 DEF Ready, client
      <4>2. CASE q \in requests
        <5>1. q.job \in Job /\ q.job # j
          BY <1>1, <4>2 DEF Request
        <5>2. [id |-> q.id, kind |-> q.kind, job |-> q.job] \in irps'
          BY <1>6, <4>2, <5>1 DEF RequestsCurrent
        <5> QED
          BY <2>1, <4>2, <5>1, <5>2 DEF RequestsCurrent, Waits, client
      <4> QED
        BY <1>6, <4>1, <4>2
    <3>2. \A q1, q2 \in requests' : q1.id = q2.id => q1 = q2
      <4>1. \A q \in requests : q.id # nextId
        BY <1>5 DEF RequestsCurrent
      <4> QED
        BY <1>4, <1>6, <4>1 DEF RequestsCurrent
    <3> QED
      BY <3>1, <3>2 DEF RequestsCurrent
  <2>5. ResponsesCurrent'
    <3>1. \A r \in responses' : \E i \in irps' : i.id = r.id
      BY <1>6 DEF ResponsesCurrent
    <3>2. ASSUME NEW r \in responses', NEW i \in irps', i.id = r.id
          PROVE  i \in irps /\ i.job \in Job /\ i.job # j /\ r \in responses
      <4>1. \E h \in irps : h.id = r.id
        BY DEF ResponsesCurrent
      <4>2. i # fresh
        BY <1>5, <3>2, <4>1
      <4> QED
        BY <1>1, <1>6, <3>2, <4>2 DEF Irp
    <3>3. \A r1, r2 \in responses' : r1.id = r2.id => r1 = r2
      BY DEF ResponsesCurrent
    <3> QED
      BY <2>1, <3>1, <3>2, <3>3 DEF ResponsesCurrent, Waits, client
  <2>6. ContextsFresh'
    BY <1>2, <2>1 DEF ContextsFresh, Ready, client
  <2>7. PrintsPrefix' /\ NeverOverclaims'
    BY <1>2, <2>1 DEF PrintsPrefix, NeverOverclaims, Ready, client
  <2> QED
    BY <2>2, <2>3, <2>4, <2>5, <2>6, <2>7
<1>7. CASE /\ ctx' = [ctx EXCEPT ![j] = c]
           /\ irps' = irps \ old
           /\ UNCHANGED <<nextId, requests>>
  <2>1. /\ ctx'[j] = c
        /\ \A l \in Job : l # j => ctx'[l] = ctx[l]
    BY <1>1, <1>7
  <2>2. TypeOK'
    BY <1>1, <1>7 DEF TypeOK, client
  <2>3. IrpsUnique'
    BY <1>7 DEF IrpsUnique
  <2>4. RequestsCurrent'
    <3>1. \A q \in requests : /\ q.job \in Job /\ q.job # j
                              /\ [id |-> q.id, kind |-> q.kind, job |-> q.job] \in irps'
      BY <1>1, <1>7 DEF RequestsCurrent, Request
    <3> QED
      BY <1>7, <2>1, <3>1 DEF RequestsCurrent, Waits, client
  <2>5. ResponsesCurrent'
    <3>1. \A r \in responses' : \E i \in irps' : i.id = r.id
      BY <1>7 DEF ResponsesCurrent
    <3>2. \A i \in irps' : i \in irps /\ i.job \in Job
      BY <1>1, <1>7 DEF Irp
    <3> QED
      BY <2>1, <3>1, <3>2 DEF ResponsesCurrent, Waits, client
  <2>6. ContextsFresh'
    BY <2>1 DEF ContextsFresh, Ready, client
  <2>7. PrintsPrefix' /\ NeverOverclaims'
    BY <2>1 DEF PrintsPrefix, NeverOverclaims, Ready, client
  <2> QED
    BY <2>2, <2>3, <2>4, <2>5, <2>6, <2>7
<1> QED
  BY <1>6, <1>7 DEF Send, new, fresh, req

-----------------------------------------------------------------------------
(* The callback of a completion: the steps of chansrv's event loop.        *)

\* The response r reached the IRP i: the context waits for it, nothing else is
\* in transit for the job, and no other response belongs to it.
LEMMA DispatchedIsCurrent ==
  ASSUME IInv, NEW r \in responses, NEW i \in irps, i.id = r.id
  PROVE  /\ i.job \in Job /\ i.kind \in Kind /\ i \in Irp /\ r \in Response
         /\ Waits(i.job, i.kind, i.id)
         /\ ctx[i.job] \in Context
         /\ ctx[i.job].device \in Device
         /\ Len(paper[i.job]) \in Nat
         /\ ctx[i.job].offset <= Len(paper[i.job])
         /\ Len(paper[i.job]) <= ctx[i.job].len
         /\ \A q \in requests : q.job # i.job
         /\ \A s \in responses \ {r}, h \in irps : h.id = s.id => h.job # i.job /\ h # i
<1> USE DEF IInv
<1>1. i.job \in Job /\ i.kind \in Kind /\ i \in Irp /\ r \in Response
  BY DEF TypeOK, Irp
<1>2. Waits(i.job, i.kind, i.id)
  BY DEF ResponsesCurrent
<1>3. ctx[i.job] \in Context /\ paper[i.job] \in Seq(Job \X Nat)
  BY <1>1 DEF TypeOK
<1>4. /\ ctx[i.job].device \in Device
      /\ ctx[i.job].offset <= Len(paper[i.job])
      /\ Len(paper[i.job]) <= ctx[i.job].len
  BY <1>1, <1>2 DEF ContextsFresh, NeverOverclaims, PrintsPrefix, Waits
<1>5. ASSUME NEW q \in requests PROVE q.job # i.job
  <2>1. Waits(q.job, q.kind, q.id) /\ r.id # q.id
    BY DEF RequestsCurrent
  <2> QED
    BY <1>2, <2>1 DEF Waits
<1>6. \A s \in responses \ {r}, h \in irps : h.id = s.id => h.job # i.job /\ h # i
  BY <1>2 DEF ResponsesCurrent, Waits
<1> QED
  BY <1>1, <1>2, <1>3, <1>4, <1>5, <1>6

\* What Dispatch leaves for SendKeepsIInv to ask, with only i deleted.
LEMMA DispatchedThenSent ==
  ASSUME IInv, NEW r \in responses, NEW i \in irps, Dispatch(r, i),
         UNCHANGED <<sendList, reported>>,
         NEW c \in Context, NEW k \in Kind, Ready(i.job, c, k), Send(i.job, c, k, {i})
  PROVE  IInv'
<1>1. i.job \in Job /\ i.job \in sendList /\ \A q \in requests : q.job # i.job
  BY DispatchedIsCurrent DEF Dispatch, Waits
<1>2. \A s \in responses', h \in irps : h.id = s.id => h.job # i.job /\ h \notin {i}
  BY DispatchedIsCurrent DEF Dispatch
<1>3. responses' \subseteq responses /\ sendList' = sendList \cup {i.job}
  BY <1>1 DEF Dispatch
<1>4. UNCHANGED <<initialized, devices, reported, client>>
  BY DEF Dispatch
<1>5. {i} \in SUBSET irps /\ \A h \in {i} : h.job = i.job
  OBVIOUS
<1> HIDE DEF Ready, Send, IInv
<1> QED
  BY <1>1, <1>2, <1>3, <1>4, <1>5, SendKeepsIInv

\* The context ends: its IRP is deleted and it leaves the send list.
LEMMA EndKeepsIInv ==
  ASSUME IInv, NEW r \in responses, NEW i \in irps, Dispatch(r, i),
         NEW s \in {"ERROR", "DONE"}, ctx' = [ctx EXCEPT ![i.job].state = s],
         irps' = irps \ {i}, sendList' = sendList \ {i.job},
         reported' \subseteq reported \cup {i.job}, UNCHANGED <<nextId, requests>>
  PROVE  IInv'
<1> USE DEF IInv
<1>1. /\ i.job \in Job
      /\ \A q \in requests : q.job # i.job
      /\ \A t \in responses \ {r}, h \in irps : h.id = t.id => h.job # i.job /\ h # i
  BY DispatchedIsCurrent DEF Dispatch
<1>2. /\ ctx \in [Job -> Context] /\ irps \subseteq Irp /\ requests \subseteq Request
  BY DEF TypeOK
<1>3. /\ ctx' \in [Job -> Context]
      /\ ctx'[i.job].state = s
      /\ ctx'[i.job].offset = ctx[i.job].offset /\ ctx'[i.job].len = ctx[i.job].len
      /\ \A l \in Job : l # i.job => ctx'[l] = ctx[l]
  BY <1>1, <1>2 DEF Context, SendState
<1>4. TypeOK'
  BY <1>1, <1>3 DEF TypeOK, Dispatch, client
<1>5. IrpsUnique'
  BY DEF IrpsUnique
<1>6. RequestsCurrent'
  <2>1. \A q \in requests : /\ q.job \in Job /\ q.job # i.job
                            /\ [id |-> q.id, kind |-> q.kind, job |-> q.job] \in irps'
    <3>1. TAKE q \in requests
    <3> DEFINE h == [id |-> q.id, kind |-> q.kind, job |-> q.job]
    <3>2. q.job \in Job /\ q.job # i.job /\ h.job = q.job
      BY <1>1, <1>2 DEF Request
    <3>3. h \in irps
      BY DEF RequestsCurrent
    <3> HIDE DEF h
    <3>4. h # i
      BY <3>2
    <3>5. h \in irps'
      BY <3>3, <3>4
    <3> QED
      BY <3>2, <3>5 DEF h
  <2> QED
    BY <1>3, <2>1 DEF RequestsCurrent, Waits, Dispatch, client
<1>7. ResponsesCurrent'
  <2>1. \A t \in responses' : \E h \in irps' : h.id = t.id
    BY <1>1 DEF ResponsesCurrent, Dispatch
  <2>2. \A t \in responses', h \in irps' : h.id = t.id =>
           h \in irps /\ h.job \in Job /\ h.job # i.job /\ t \in responses
    BY <1>1, <1>2 DEF Dispatch, Irp
  <2> QED
    BY <1>3, <2>1, <2>2 DEF ResponsesCurrent, Waits, Dispatch, client
<1>8. ContextsFresh'
  BY <1>3 DEF ContextsFresh, Dispatch, client
<1>9. PrintsPrefix' /\ NeverOverclaims'
  BY <1>3 DEF PrintsPrefix, NeverOverclaims, Dispatch, client
<1> QED
  BY <1>4, <1>5, <1>6, <1>7, <1>8, <1>9

\* devredir_printer_irp_callback keeps the invariant, one step per completion.
LEMMA IrpCallbackKeepsIInv ==
  ASSUME IInv, NEW j \in Job, IrpCallback(j)
  PROVE  IInv'
<1>1. PICK r \in responses, i \in irps :
         /\ i.job = j
         /\ \/ CreateSucceeded(r, i) \/ CreateFailed(r, i)
            \/ WriteSucceeded(r, i)  \/ WriteFailed(r, i)
            \/ CloseDone(r, i)
  BY DEF IrpCallback
<1>2. i.id = r.id /\ Dispatch(r, i)
  BY <1>1 DEF CreateSucceeded, CreateFailed, WriteSucceeded, WriteFailed, CloseDone, Dispatch
<1> DEFINE old == ctx[i.job]
<1>3. /\ i.job \in Job
      /\ Waits(i.job, i.kind, i.id)
      /\ old \in Context /\ old.device \in Device
      /\ Len(paper[i.job]) \in Nat
      /\ old.offset <= Len(paper[i.job]) /\ Len(paper[i.job]) <= old.len
  BY <1>2, DispatchedIsCurrent
<1>4. old.state = WaitState[i.kind] /\ old.offset \in Nat /\ old.len \in 0..MaxLen
  BY <1>3 DEF Waits, Context
<1>5. i.kind \in Kind => old.state # "unused"
  BY <1>4 DEF Kind, WaitState
<1>6. CASE CreateSucceeded(r, i)
  <2> DEFINE c == [old EXCEPT !.file = r.value]
  <2>1. r.value \in FileId /\ handles[r.value] = i.job /\ Len(paper[i.job]) = old.offset
    BY <1>2, <1>6 DEF CreateSucceeded, IInv, ResponsesCurrent
  <2>2. /\ c \in Context /\ c.file = r.value /\ c.state = old.state /\ c.device = old.device
        /\ c.offset = old.offset /\ c.len = old.len
    BY <1>3, <2>1 DEF Context
  <2>3. i.kind \in Kind /\ i.job \in sendList' /\ "write" \in Kind
    BY <1>3, <1>6 DEF CreateSucceeded, Kind, Waits
  <2>4. Ready(i.job, c, "write")
    BY <1>3, <1>5, <2>1, <2>2, <2>3 DEF Ready
  <2>5. Send(i.job, c, "write", {i}) /\ UNCHANGED <<sendList, reported>>
    BY <1>6 DEF CreateSucceeded
  <2> HIDE DEF c
  <2> QED
    BY <1>2, <2>2, <2>3, <2>4, <2>5, DispatchedThenSent
<1>7. CASE CreateFailed(r, i)
  BY <1>2, <1>7, EndKeepsIInv DEF CreateFailed
<1>8. CASE WriteSucceeded(r, i)
  <2> DEFINE c == [old EXCEPT !.offset = @ + r.value]
             k == IF c.offset >= c.len THEN "close" ELSE "write"
  <2>1. /\ old.file \in FileId /\ handles[old.file] = i.job
        /\ r.value \in Nat /\ old.offset + r.value = Len(paper[i.job])
    BY <1>2, <1>8 DEF WriteSucceeded, IInv, ResponsesCurrent
  <2>2. /\ c \in Context /\ c.file = old.file /\ c.state = old.state /\ c.device = old.device
        /\ c.offset = Len(paper[i.job]) /\ c.len = old.len
    BY <1>3, <1>4, <2>1, PrintSendAssumption DEF Context
  <2>3. i.kind \in Kind /\ i.job \in sendList' /\ k \in Kind
    BY <1>3, <1>8 DEF WriteSucceeded, Kind, Waits
  <2>4. Ready(i.job, c, k)
    BY <1>3, <1>5, <2>1, <2>2, <2>3 DEF Ready
  <2>5. Send(i.job, c, k, {i}) /\ UNCHANGED <<sendList, reported>>
    BY <1>8 DEF WriteSucceeded
  <2> HIDE DEF c, k
  <2> QED
    BY <1>2, <2>2, <2>3, <2>4, <2>5, DispatchedThenSent
<1>9. CASE WriteFailed(r, i)
  <2> DEFINE c == [old EXCEPT !.state = "ERROR"]
  <2>1. old.file \in FileId /\ handles[old.file] = i.job
    BY <1>2, <1>9 DEF WriteFailed, IInv, ResponsesCurrent
  <2>2. /\ c \in Context /\ c.file = old.file /\ c.state = "ERROR" /\ c.device = old.device
        /\ c.offset = old.offset /\ c.len = old.len
    BY <1>3 DEF Context, SendState
  <2>3. i.job \in sendList' /\ "close" \in Kind
    BY <1>3, <1>9 DEF WriteFailed, Kind, Waits
  <2>4. Ready(i.job, c, "close")
    BY <1>3, <2>1, <2>2, <2>3 DEF Ready
  <2>5. Send(i.job, c, "close", {i}) /\ UNCHANGED <<sendList, reported>>
    BY <1>9 DEF WriteFailed
  <2> HIDE DEF c
  <2> QED
    BY <1>2, <2>2, <2>3, <2>4, <2>5, DispatchedThenSent
<1>10. CASE CloseDone(r, i)
  <2>1. reported' \subseteq reported \cup {i.job}
    BY <1>10 DEF CloseDone
  <2> QED
    BY <1>2, <1>10, <2>1, EndKeepsIInv DEF CloseDone
<1> QED
  BY <1>1, <1>6, <1>7, <1>8, <1>9, <1>10

\* A job accepted by devredir_printer_send_job starts with a fresh IRP.
LEMMA SendJobKeepsIInv ==
  ASSUME IInv, NEW j \in Job, NEW d \in Device, NEW n \in 1..MaxLen, SendJob(j, d, n)
  PROVE  IInv'
<1> DEFINE c == [ctx[j] EXCEPT !.state = "IDLE", !.device = d, !.len = n]
<1>1. /\ ctx[j] \in Context /\ ctx[j].state = "unused"
      /\ j \notin sendList /\ paper[j] = << >>
  BY DEF SendJob, IInv, TypeOK, ContextsFresh
<1>2. ctx[j].offset = 0 /\ Len(paper[j]) = 0
  BY <1>1, PrintSendAssumption DEF IInv, NeverOverclaims, Context
<1>3. /\ c \in Context /\ c.state = "IDLE" /\ c.device = d
      /\ c.offset = ctx[j].offset /\ c.len = n
  <2>1. n \in 0..MaxLen /\ "IDLE" \in SendState \cup {"unused"} /\ d \in Device \cup {None}
    BY PrintSendAssumption DEF SendState
  <2> QED
    BY <1>1, <2>1 DEF Context
<1>4. /\ Send(j, c, "create", {}) /\ sendList' = sendList \cup {j}
      /\ UNCHANGED <<initialized, devices, reported, responses, client>>
  BY DEF SendJob
<1>5. Ready(j, c, "create")
  BY <1>2, <1>3, <1>4, PrintSendAssumption DEF Ready
<1>6. \A q \in requests : q.job # j
  BY <1>1 DEF IInv, RequestsCurrent, Waits
<1>7. \A r \in responses', i \in irps : i.id = r.id => i.job # j
  BY <1>1, <1>4 DEF IInv, ResponsesCurrent, Waits
<1>8. "create" \in Kind /\ {} \in SUBSET irps /\ responses' \subseteq responses
  BY <1>4 DEF Kind
<1> HIDE DEF c
<1> QED
  BY <1>3, <1>4, <1>5, <1>6, <1>7, <1>8, SendKeepsIInv

-----------------------------------------------------------------------------
(* The client serves a request of job j, which moves from requests to      *)
(* responses: no other request or response of j is in transit.             *)

\* A request in transit belongs to a waiting context, and is alone in that.
LEMMA ServedIsCurrent ==
  ASSUME IInv, NEW q \in requests
  PROVE  /\ q \in Request /\ q.job \in Job /\ q.id \in Nat
         /\ Waits(q.job, q.kind, q.id)
         /\ [id |-> q.id, kind |-> q.kind, job |-> q.job] \in irps
         /\ \A i \in irps : i.id = q.id => i.kind = q.kind /\ i.job = q.job
         /\ \A p \in requests \ {q} : p.job # q.job /\ p.id # q.id
         /\ \A r \in responses : r.id # q.id
         /\ \A r \in responses, i \in irps : i.id = r.id => i.job # q.job
<1> USE DEF IInv
<1>1. q \in Request /\ q.job \in Job /\ q.id \in Nat
  BY DEF TypeOK, Request
<1>2. /\ Waits(q.job, q.kind, q.id)
      /\ [id |-> q.id, kind |-> q.kind, job |-> q.job] \in irps
      /\ \A r \in responses : r.id # q.id
  BY DEF RequestsCurrent
<1>3. \A i \in irps : i.id = q.id => i.kind = q.kind /\ i.job = q.job
  <2> DEFINE h == [id |-> q.id, kind |-> q.kind, job |-> q.job]
  <2>1. h \in irps /\ h.id = q.id /\ h.kind = q.kind /\ h.job = q.job
    BY <1>2
  <2> HIDE DEF h
  <2> QED
    BY <2>1 DEF IrpsUnique
<1>4. ASSUME NEW p \in requests \ {q} PROVE p.job # q.job /\ p.id # q.id
  <2>1. p.id # q.id /\ Waits(p.job, p.kind, p.id)
    BY DEF RequestsCurrent
  <2> QED
    BY <1>2, <2>1 DEF Waits
<1>5. ASSUME NEW r \in responses, NEW i \in irps, i.id = r.id PROVE i.job # q.job
  <2>1. Waits(i.job, i.kind, i.id) /\ r.id # q.id
    BY <1>2, <1>5 DEF ResponsesCurrent
  <2> QED
    BY <1>2, <1>5, <2>1 DEF Waits
<1> QED
  BY <1>1, <1>2, <1>3, <1>4, <1>5

\* What the client's answer must say for IInv to hold after it: the context and
\* the IRPs are as they were, the ports and papers of other jobs too.
LEMMA ReplyKeepsIInv ==
  ASSUME IInv, NEW q \in requests, NEW s \in Status, NEW v \in FileId \cup {None} \cup 0..MaxLen,
         Reply(q, s, v), TypeOK',
         \A f \in FileId : handles[f] # None /\ handles[f] # q.job => handles'[f] = handles[f],
         \A j \in Job : j # q.job => paper'[j] = paper[j],
         q.kind = "create" =>
            /\ paper' = paper
            /\ s = "success" => v \in FileId /\ handles'[v] = q.job,
         q.kind = "write" =>
            /\ handles' = handles
            /\ s = "success" => v \in Nat /\ ctx[q.job].offset + v = Len(paper'[q.job]),
         PrintsPrefix', NeverOverclaims'
  PROVE  IInv'
<1> USE DEF IInv
<1> DEFINE a == [id |-> q.id, status |-> s, value |-> v]
<1>1. /\ q \in Request /\ q.job \in Job /\ q.id \in Nat
      /\ Waits(q.job, q.kind, q.id)
      /\ [id |-> q.id, kind |-> q.kind, job |-> q.job] \in irps
      /\ \A i \in irps : i.id = q.id => i.kind = q.kind /\ i.job = q.job
      /\ \A p \in requests \ {q} : p.job # q.job /\ p.id # q.id
      /\ \A r \in responses : r.id # q.id
      /\ \A r \in responses, i \in irps : i.id = r.id => i.job # q.job
  BY ServedIsCurrent
<1>2. /\ requests' = requests \ {q} /\ responses' = responses \cup {a}
      /\ UNCHANGED <<initialized, devices, sendList, ctx, irps, nextId, reported>>
      /\ a.id = q.id /\ a.status = s /\ a.value = v
  BY DEF Reply, server
<1>3. /\ irps \subseteq Irp /\ requests \subseteq Request
      /\ None \notin Job /\ handles \in [FileId -> Job \cup {None}]
  BY PrintSendAssumption DEF TypeOK
<1> HIDE DEF a
<1>4. IrpsUnique'
  BY <1>2 DEF IrpsUnique
<1>5. RequestsCurrent'
  <2>1. ASSUME NEW p \in requests'
        PROVE  /\ p \in requests /\ p.job \in Job /\ p.job # q.job /\ p.id # q.id
               /\ Waits(p.job, p.kind, p.id)'
               /\ paper'[p.job] = paper[p.job]
               /\ p.kind \in {"write", "close"} => handles'[p.file] = handles[p.file]
    <3>1. p \in requests /\ p.job \in Job /\ p.job # q.job /\ p.id # q.id
      BY <1>1, <1>2, <1>3 DEF Request
    <3>2. Waits(p.job, p.kind, p.id)'
      BY <1>2, <3>1 DEF RequestsCurrent, Waits
    <3>3. p.kind \in {"write", "close"} => p.file \in FileId /\ handles[p.file] = p.job
      BY <3>1 DEF RequestsCurrent
    <3> QED
      BY <1>3, <3>1, <3>2, <3>3
  <2>2. ASSUME NEW p \in requests' PROVE \A r \in responses' : r.id # p.id
    BY <1>2, <2>1 DEF RequestsCurrent
  <2>3. \A p \in requests' : [id |-> p.id, kind |-> p.kind, job |-> p.job] \in irps'
    BY <1>2, <2>1 DEF RequestsCurrent
  <2> QED
    BY <1>2, <2>1, <2>2, <2>3 DEF RequestsCurrent
<1>6. ResponsesCurrent'
  <2>1. \A r \in responses' : \E i \in irps' : i.id = r.id
    <3>1. \E i \in irps : i.id = q.id
      BY <1>1
    <3> QED
      BY <1>2, <3>1 DEF ResponsesCurrent
  <2>2. \A r1, r2 \in responses' : r1.id = r2.id => r1 = r2
    BY <1>1, <1>2 DEF ResponsesCurrent
  <2>3. ASSUME NEW r \in responses', NEW i \in irps', i.id = r.id
        PROVE  /\ Waits(i.job, i.kind, i.id)'
               /\ i.kind = "create" =>
                    /\ Len(paper'[i.job]) = ctx'[i.job].offset
                    /\ r.status = "success" => r.value \in FileId /\ handles'[r.value] = i.job
               /\ i.kind = "write" =>
                    /\ ctx'[i.job].file \in FileId
                    /\ handles'[ctx'[i.job].file] = i.job
                    /\ r.status = "success" =>
                          /\ r.value \in Nat
                          /\ ctx'[i.job].offset + r.value = Len(paper'[i.job])
    <3>1. CASE r \in responses
      <4>1. i \in irps /\ i.job \in Job /\ i.job # q.job
        BY <1>1, <1>2, <1>3, <2>3, <3>1 DEF Irp
      <4>2. /\ Waits(i.job, i.kind, i.id)
            /\ i.kind = "create" =>
                 /\ Len(paper[i.job]) = ctx[i.job].offset
                 /\ r.status = "success" => r.value \in FileId /\ handles[r.value] = i.job
            /\ i.kind = "write" =>
                 /\ ctx[i.job].file \in FileId
                 /\ handles[ctx[i.job].file] = i.job
                 /\ r.status = "success" =>
                       /\ r.value \in Nat
                       /\ ctx[i.job].offset + r.value = Len(paper[i.job])
        BY <2>3, <3>1, <4>1 DEF ResponsesCurrent
      <4>3. Waits(i.job, i.kind, i.id)'
        BY <1>2, <4>2 DEF Waits
      <4> QED
        BY <1>2, <1>3, <4>1, <4>2, <4>3
    <3>2. CASE r = a
      <4>1. i.job = q.job /\ i.kind = q.kind /\ i.id = q.id
        BY <1>1, <1>2, <2>3, <3>2
      <4>2. Waits(i.job, i.kind, i.id)'
        BY <1>1, <1>2, <4>1 DEF Waits
      <4>3. /\ q.kind = "create" => Len(paper[q.job]) = ctx[q.job].offset
            /\ q.kind = "write" => /\ ctx[q.job].file \in FileId
                                   /\ handles[ctx[q.job].file] = q.job
        BY DEF RequestsCurrent
      <4> QED
        BY <1>2, <3>2, <4>1, <4>2, <4>3
    <3> QED
      BY <1>2, <3>1, <3>2
  <2> QED
    BY <2>1, <2>2, <2>3 DEF ResponsesCurrent
<1>7. ContextsFresh'
  <2>1. ctx[q.job].state # "unused"
    <3>1. q.kind \in Kind
      BY <1>1 DEF Request
    <3> QED
      BY <1>1, <3>1 DEF Waits, WaitState, Kind
  <2> QED
    BY <1>2, <2>1 DEF ContextsFresh
<1> QED
  BY <1>4, <1>5, <1>6, <1>7

\* The client opens a free port for the job, or none.
LEMMA ClientCreateKeepsIInv ==
  ASSUME IInv, NEW q \in requests, ClientCreate(q)
  PROVE  IInv'
<1>1. /\ q \in Request /\ q.job \in Job /\ q.kind = "create" /\ paper' = paper
      /\ handles \in [FileId -> Job \cup {None}] /\ None \notin Job
  BY ServedIsCurrent, PrintSendAssumption DEF ClientCreate, IInv, TypeOK
<1>2. PICK s \in Status, v \in FileId \cup {None} :
         /\ Reply(q, s, v)
         /\ \/ /\ s # "success"
               /\ handles' = handles
            \/ \E f \in FileId : /\ handles[f] = None
                                 /\ handles' = [handles EXCEPT ![f] = q.job]
                                 /\ s = "success" => v = f
  <2>1. CASE Reply(q, "failure", None) /\ UNCHANGED handles
    BY <2>1 DEF Status
  <2>2. CASE \E f \in FileId, s \in Status \ {"failure"} :
                /\ handles[f] = None
                /\ handles' = [handles EXCEPT ![f] = q.job]
                /\ Reply(q, s, IF s = "success" THEN f ELSE None)
    <3>1. PICK f \in FileId, s \in Status \ {"failure"} :
                /\ handles[f] = None
                /\ handles' = [handles EXCEPT ![f] = q.job]
                /\ Reply(q, s, IF s = "success" THEN f ELSE None)
      BY <2>2
    <3> DEFINE v == IF s = "success" THEN f ELSE None
    <3>2. v \in FileId \cup {None} /\ (s = "success" => v = f) /\ Reply(q, s, v)
      BY <3>1
    <3> HIDE DEF v
    <3> QED
      BY <3>1, <3>2
  <2> QED
    BY <2>1, <2>2 DEF ClientCreate
<1>3. /\ handles' \in [FileId -> Job \cup {None}]
      /\ \A f \in FileId : handles[f] # None => handles'[f] = handles[f]
      /\ s = "success" => v \in FileId /\ handles'[v] = q.job
  <2>1. CASE s # "success" /\ handles' = handles
    BY <1>1, <2>1
  <2>2. CASE \E f \in FileId : /\ handles[f] = None
                               /\ handles' = [handles EXCEPT ![f] = q.job]
                               /\ s = "success" => v = f
    <3>1. PICK f \in FileId : /\ handles[f] = None
                              /\ handles' = [handles EXCEPT ![f] = q.job]
                              /\ s = "success" => v = f
      BY <2>2
    <3>2. handles' \in [FileId -> Job \cup {None}] /\ handles'[f] = q.job
      BY <1>1, <3>1
    <3>3. \A g \in FileId : handles[g] # None => handles'[g] = handles[g]
      BY <1>1, <3>1
    <3> QED
      BY <3>1, <3>2, <3>3
  <2> QED
    BY <1>2, <2>1, <2>2
<1>4. /\ requests' = requests \ {q}
      /\ responses' = responses \cup {[id |-> q.id, status |-> s, value |-> v]}
      /\ UNCHANGED <<initialized, devices, sendList, ctx, irps, nextId, reported>>
  BY <1>2 DEF Reply, server
<1>5. TypeOK'
  <2>1. [id |-> q.id, status |-> s, value |-> v] \in Response
    BY <1>1, <1>2 DEF Response, Request
  <2>2. spoiled' \subseteq Job
    BY <1>1, <1>2 DEF Reply, IInv, TypeOK
  <2> QED
    BY <1>3, <1>4, <2>1, <2>2 DEF IInv, TypeOK, ClientCreate
<1>6. PrintsPrefix' /\ NeverOverclaims'
  BY <1>1, <1>4 DEF IInv, PrintsPrefix, NeverOverclaims
<1> QED
  BY <1>1, <1>2, <1>3, <1>5, <1>6, ReplyKeepsIInv

\* The client prints where the job's print ended, in the job's own port.
LEMMA ClientWriteKeepsIInv ==
  ASSUME IInv, NEW q \in requests, ClientWrite(q)
  PROVE  IInv'
<1>1. /\ q \in Request /\ q.job \in Job /\ q.kind = "write" /\ handles' = handles
      /\ q.len \in 0..MaxLen /\ Waits(q.job, q.kind, q.id)
  BY ServedIsCurrent DEF ClientWrite, Request
<1>2. /\ handles[q.file] = q.job
      /\ q.offset = ctx[q.job].offset /\ q.offset = Len(paper[q.job])
      /\ q.offset + q.len <= ctx[q.job].len
  BY <1>1 DEF IInv, RequestsCurrent
<1>3. /\ paper \in [Job -> Seq(Job \X Nat)] /\ ctx \in [Job -> Context]
      /\ ctx[q.job].len \in Nat
  BY <1>1 DEF IInv, TypeOK, Context
<1>4. PICK n \in 0..q.len, s \in Status :
         /\ paper' = [paper EXCEPT ![handles[q.file]] = @ \o Bytes(q.job, q.offset, n)]
         /\ IF n = 0 /\ s = "success"
              THEN zeroWrites < MaxZeroWrites /\ zeroWrites' = zeroWrites + 1
              ELSE UNCHANGED zeroWrites
         /\ Reply(q, s, IF s = "success" THEN n ELSE None)
  BY DEF ClientWrite
<1> DEFINE v == IF s = "success" THEN n ELSE None
           e == paper[q.job] \o Bytes(q.job, Len(paper[q.job]), n)
<1>5. n \in Nat /\ n <= q.len /\ v \in FileId \cup {None} \cup 0..MaxLen
  BY <1>1, <1>4, PrintSendAssumption
<1>6. /\ e \in Seq(Job \X Nat)
      /\ Len(e) = Len(paper[q.job]) + n
      /\ \A i \in 1..Len(e) : e[i] = <<q.job, i>>
  <2>1. \A i \in 1..Len(paper[q.job]) : paper[q.job][i] = <<q.job, i>>
    BY <1>1 DEF IInv, PrintsPrefix
  <2>2. paper[q.job] \in Seq(Job \X Nat)
    BY <1>1, <1>3
  <2> QED
    BY <1>1, <1>5, <2>1, <2>2, AppendKeepsPrefix
<1>7. paper' = [paper EXCEPT ![q.job] = e]
  BY <1>2, <1>4
<1> HIDE DEF e
<1>8. /\ paper' \in [Job -> Seq(Job \X Nat)] /\ paper'[q.job] = e
      /\ \A j \in Job : j # q.job => paper'[j] = paper[j]
  BY <1>1, <1>3, <1>6, <1>7
<1>9. /\ requests' = requests \ {q}
      /\ responses' = responses \cup {[id |-> q.id, status |-> s, value |-> v]}
      /\ UNCHANGED <<initialized, devices, sendList, ctx, irps, nextId, reported>>
  BY <1>4 DEF Reply, server
<1>10. TypeOK'
  <2>1. [id |-> q.id, status |-> s, value |-> v] \in Response
    BY <1>1, <1>4, <1>5 DEF Response, Request
  <2>2. zeroWrites' \in Nat
    BY <1>4 DEF IInv, TypeOK
  <2>3. spoiled' \subseteq Job
    BY <1>1, <1>4 DEF Reply, IInv, TypeOK
  <2> QED
    BY <1>8, <1>9, <2>1, <2>2, <2>3 DEF IInv, TypeOK, ClientWrite
<1>11. PrintsPrefix'
  <2>1. Len(e) <= ctx[q.job].len
    BY <1>1, <1>2, <1>3, <1>5, <1>6
  <2> QED
    BY <1>6, <1>8, <1>9, <2>1 DEF IInv, PrintsPrefix
<1>12. NeverOverclaims'
  <2>1. ctx[q.job].offset <= Len(e)
    BY <1>2, <1>3, <1>5, <1>6
  <2> QED
    BY <1>8, <1>9, <2>1 DEF IInv, NeverOverclaims
<1>13. s = "success" => v \in Nat /\ ctx[q.job].offset + v = Len(paper'[q.job])
  BY <1>2, <1>5, <1>6, <1>8
<1>14. Reply(q, s, v)
  BY <1>4
<1> HIDE DEF v
<1> QED
  BY <1>1, <1>5, <1>8, <1>10, <1>11, <1>12, <1>13, <1>14, ReplyKeepsIInv

\* The client closes the port of a job that writes no more.
LEMMA ClientCloseKeepsIInv ==
  ASSUME IInv, NEW q \in requests, ClientClose(q)
  PROVE  IInv'
<1>1. PICK s \in Status : Reply(q, s, None)
  BY DEF ClientClose
<1>2. /\ q \in Request /\ q.job \in Job /\ q.kind = "close" /\ paper' = paper
      /\ handles \in [FileId -> Job \cup {None}]
      /\ q.file \in FileId /\ handles[q.file] = q.job
      /\ handles' = [handles EXCEPT ![q.file] = None]
  BY ServedIsCurrent DEF ClientClose, IInv, TypeOK, RequestsCurrent
<1>3. /\ requests' = requests \ {q}
      /\ responses' = responses \cup {[id |-> q.id, status |-> s, value |-> None]}
      /\ UNCHANGED <<initialized, devices, sendList, ctx, irps, nextId, reported>>
  BY <1>1 DEF Reply, server
<1>4. TypeOK'
  <2>1. [id |-> q.id, status |-> s, value |-> None] \in Response
    BY <1>2 DEF Response, Request
  <2>2. handles' \in [FileId -> Job \cup {None}]
    BY <1>2
  <2>3. spoiled' \subseteq Job
    BY <1>1, <1>2 DEF Reply, IInv, TypeOK
  <2> QED
    BY <1>3, <2>1, <2>2, <2>3 DEF IInv, TypeOK, ClientClose
<1>5. PrintsPrefix' /\ NeverOverclaims'
  BY <1>2, <1>3 DEF IInv, PrintsPrefix, NeverOverclaims
<1>6. \A f \in FileId : handles[f] # None /\ handles[f] # q.job => handles'[f] = handles[f]
  BY <1>2
<1> QED
  BY <1>1, <1>2, <1>4, <1>5, <1>6, ReplyKeepsIInv

\* A dropped request leaves its context waiting, which breaks nothing.
LEMMA ClientDropKeepsIInv ==
  ASSUME IInv, NEW q \in requests, ClientDrop(q)
  PROVE  IInv'
<1> USE DEF IInv, ClientDrop, server
<1>1. TypeOK'
  <2>1. q.job \in Job
    BY ServedIsCurrent
  <2> QED
    BY <2>1 DEF TypeOK
<1>2. IrpsUnique' /\ ContextsFresh' /\ PrintsPrefix' /\ NeverOverclaims'
  BY DEF IrpsUnique, ContextsFresh, PrintsPrefix, NeverOverclaims
<1>3. RequestsCurrent' /\ ResponsesCurrent'
  BY DEF RequestsCurrent, ResponsesCurrent, Waits
<1> QED
  BY <1>1, <1>2, <1>3

-----------------------------------------------------------------------------

\* A disconnect frees every context and leaves the IRPs, but it also ends the
\* channel their completions would have come through.
LEMMA DisconnectKeepsIInv ==
  ASSUME IInv, Disconnect
  PROVE  IInv'
<1> USE DEF IInv, Disconnect
<1>1. TypeOK'
  BY DEF TypeOK
<1>2. IrpsUnique' /\ ContextsFresh' /\ PrintsPrefix' /\ NeverOverclaims'
  BY DEF IrpsUnique, ContextsFresh, PrintsPrefix, NeverOverclaims
<1>3. RequestsCurrent' /\ ResponsesCurrent'
  BY DEF RequestsCurrent, ResponsesCurrent
<1> QED
  BY <1>1, <1>2, <1>3

\* Steps that touch neither jobs nor messages: a client connects, a printer is
\* announced or removed, or nothing happens.
LEMMA OthersKeepIInv ==
  ASSUME IInv, Connect \/ (\E d \in Device : DeviceAnnounce(d) \/ DeviceRemove(d)) \/ UNCHANGED vars
  PROVE  IInv'
<1>1. /\ UNCHANGED <<sendList, ctx, irps, nextId, reported, requests, responses>>
      /\ UNCHANGED <<handles, paper, lost, spoiled, zeroWrites>>
      /\ initialized' \in BOOLEAN /\ devices' \subseteq Device /\ sessions' \in Nat
  <2> USE DEF IInv, TypeOK, client
  <2>1. CASE Connect
    BY <2>1 DEF Connect
  <2>2. CASE \E d \in Device : DeviceAnnounce(d)
    BY <2>2 DEF DeviceAnnounce
  <2>3. CASE \E d \in Device : DeviceRemove(d)
    BY <2>3 DEF DeviceRemove
  <2>4. CASE UNCHANGED vars
    BY <2>4 DEF vars, server
  <2> QED
    BY <2>1, <2>2, <2>3, <2>4
<1>2. TypeOK'
  BY <1>1 DEF IInv, TypeOK
<1>3. IrpsUnique' /\ ContextsFresh' /\ PrintsPrefix' /\ NeverOverclaims'
  BY <1>1 DEF IInv, IrpsUnique, ContextsFresh, PrintsPrefix, NeverOverclaims
<1>4. RequestsCurrent' /\ ResponsesCurrent'
  BY <1>1 DEF IInv, RequestsCurrent, ResponsesCurrent, Waits
<1> QED
  BY <1>2, <1>3, <1>4 DEF IInv

\* Every step of chansrv, the client and the connection keeps the invariant.
THEOREM StepIInv == IInv /\ [Next]_vars => IInv'
<1> SUFFICES ASSUME IInv, [Next]_vars PROVE IInv'
  OBVIOUS
<1>1. CASE Connect \/ (\E d \in Device : DeviceAnnounce(d) \/ DeviceRemove(d)) \/ UNCHANGED vars
  BY <1>1, OthersKeepIInv
<1>2. CASE Disconnect
  BY <1>2, DisconnectKeepsIInv
<1>3. CASE \E j \in Job, d \in Device, n \in 1..MaxLen : SendJob(j, d, n)
  BY <1>3, SendJobKeepsIInv
<1>4. CASE \E j \in Job : IrpCallback(j)
  BY <1>4, IrpCallbackKeepsIInv
<1>5. CASE \E j \in Job : ClientServes(j)
  BY <1>5, ClientCreateKeepsIInv, ClientWriteKeepsIInv, ClientCloseKeepsIInv DEF ClientServes
<1>6. CASE \E q \in requests : ClientDrop(q)
  BY <1>6, ClientDropKeepsIInv
<1> QED
  BY <1>1, <1>2, <1>3, <1>4, <1>5, <1>6 DEF Next

\* IInv holds in every reachable state: the strengthening from which the
\* properties of PrintSend follow.
THEOREM Safety == Spec => []IInv
<1> QED
  BY InitIInv, StepIInv, PTL DEF Spec

\* The state of chansrv's send side and of the client is always well-formed.
THEOREM TypeCorrect == Spec => []TypeOK
<1>1. IInv => TypeOK
  BY DEF IInv
<1> QED
  BY <1>1, Safety, PTL

\* The callback never runs on a freed context or out of turn, across any
\* number of disconnects with IRPs left in the table.
THEOREM CallbacksAreSafe == Spec => []CallbackFindsContext
<1>1. IInv => CallbackFindsContext
  BY DEF IInv, CallbackFindsContext, ResponsesCurrent, Waits
<1> QED
  BY <1>1, Safety, PTL

\* WRITE and CLOSE reach the port of their own job only.
THEOREM PortsAreOwn == Spec => []RequestHitsOwnPort
<1>1. IInv => RequestHitsOwnPort
  BY DEF IInv, RequestHitsOwnPort, RequestsCurrent
<1> QED
  BY <1>1, Safety, PTL

\* Every print is a prefix of its job's data, byte for byte.
THEOREM PrintsArePrefixes == Spec => []PrintsPrefix
<1>1. IInv => PrintsPrefix
  BY DEF IInv
<1> QED
  BY <1>1, Safety, PTL

\* The byte count in the log is never more than what was printed.
THEOREM ReportsAreHonest == Spec => []NeverOverclaims
<1>1. IInv => NeverOverclaims
  BY DEF IInv
<1> QED
  BY <1>1, Safety, PTL

=============================================================================
