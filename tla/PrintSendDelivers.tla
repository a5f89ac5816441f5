------------------------- MODULE PrintSendDelivers -------------------------
(***************************************************************************)
(* PrintSend implements JobDelivery: under the mapping of Delivery every   *)
(* step of the send machine accepts a job, prints some of it, lets go of   *)
(* jobs, or is invisible.                                                  *)
(***************************************************************************)
EXTENDS PrintSendProofs

Phase == [j \in Job |-> IF j \in sendList THEN "held"
                        ELSE IF ctx[j].state = "unused" THEN "new" ELSE "over"]
Length == [j \in Job |-> ctx[j].len]
Printed == [j \in Job |-> Len(paper[j])]

\* Delivery is JobDelivery over these three functions.
LEMMA DeliveryUnfolded ==
  /\ UNCHANGED Delivery!vars <=> UNCHANGED <<Phase, Length, Printed>>
  /\ Delivery!Init <=> /\ Phase = [j \in Job |-> "new"]
                       /\ Length = [j \in Job |-> 0]
                       /\ Printed = [j \in Job |-> 0]
  /\ Delivery!Next <=>
       \/ \E j \in Job :
             \/ /\ Phase[j] = "new"
                /\ Phase' = [Phase EXCEPT ![j] = "held"]
                /\ \E n \in 1..MaxLen : Length' = [Length EXCEPT ![j] = n]
                /\ UNCHANGED Printed
             \/ /\ Phase[j] = "held"
                /\ \E n \in Printed[j]..Length[j] : Printed' = [Printed EXCEPT ![j] = n]
                /\ UNCHANGED <<Phase, Length>>
       \/ \E J \in SUBSET Job :
             /\ J # {}
             /\ \A j \in J : Phase[j] = "held"
             /\ Phase' = [j \in Job |-> IF j \in J THEN "over" ELSE Phase[j]]
             /\ UNCHANGED <<Length, Printed>>
<1>1. UNCHANGED Delivery!vars <=> UNCHANGED <<Phase, Length, Printed>>
  BY DEF Delivery!vars, Phase, Length, Printed
<1>2. Delivery!Init <=> /\ Phase = [j \in Job |-> "new"]
                        /\ Length = [j \in Job |-> 0]
                        /\ Printed = [j \in Job |-> 0]
  BY DEF Delivery!Init, Phase, Length, Printed
<1> QED
  BY <1>1, <1>2 DEF Delivery!Next, Delivery!Accept, Delivery!PrintNext, Delivery!Release, Phase, Length, Printed

\* A job in the send list was allocated, so it is over once it leaves the list.
LEMMA HeldIsAllocated ==
  ASSUME IInv, NEW j \in sendList
  PROVE  j \in Job /\ ctx[j].state # "unused"
BY DEF IInv, TypeOK, ContextsFresh

\* Accepting a job is the abstract Accept.
LEMMA SendJobAccepts ==
  ASSUME IInv, NEW j \in Job, NEW d \in Device, NEW n \in 1..MaxLen, SendJob(j, d, n)
  PROVE  Delivery!Next
<1> DEFINE c == [ctx[j] EXCEPT !.state = "IDLE", !.device = d, !.len = n]
<1>1. /\ ctx \in [Job -> Context] /\ ctx[j].state = "unused" /\ j \notin sendList
      /\ sendList' = sendList \cup {j} /\ paper' = paper
  BY DEF IInv, TypeOK, SendJob, ContextsFresh, client
<1>2. \/ ctx' = [ctx EXCEPT ![j] = [c EXCEPT !.state = WaitState["create"], !.id = nextId]]
      \/ ctx' = [ctx EXCEPT ![j] = c]
  BY DEF SendJob, Send
<1>3. c.len = n /\ [c EXCEPT !.state = WaitState["create"], !.id = nextId].len = n
  BY <1>1 DEF Context
<1> HIDE DEF c
<1>4. ctx'[j].len = n /\ \A l \in Job : l # j => ctx'[l] = ctx[l]
  BY <1>1, <1>2, <1>3
<1>5. Phase[j] = "new" /\ Phase' = [Phase EXCEPT ![j] = "held"]
  BY <1>1, <1>4 DEF Phase
<1>6. Length' = [Length EXCEPT ![j] = n] /\ UNCHANGED Printed
  BY <1>1, <1>4 DEF Length, Printed
<1> QED
  BY <1>5, <1>6, DeliveryUnfolded

\* A request for a context that stays in the list is invisible.
LEMMA SendIsInvisible ==
  ASSUME IInv, NEW j \in sendList, NEW c, NEW k \in Kind, NEW old,
         Send(j, c, k, old), c \in Context, c.len = ctx[j].len,
         UNCHANGED <<sendList, paper>>
  PROVE  UNCHANGED <<Phase, Length, Printed>>
<1> DEFINE new == [c EXCEPT !.state = WaitState[k], !.id = nextId]
<1>1. j \in Job /\ ctx \in [Job -> Context]
  BY HeldIsAllocated DEF IInv, TypeOK
<1>2. ctx' = [ctx EXCEPT ![j] = new] \/ ctx' = [ctx EXCEPT ![j] = c]
  BY DEF Send
<1>3. new.len = ctx[j].len
  BY DEF Context
<1> HIDE DEF new
<1>4. ctx'[j].len = ctx[j].len /\ \A l \in Job : l # j => ctx'[l] = ctx[l]
  BY <1>1, <1>2, <1>3
<1> QED
  BY <1>1, <1>4 DEF Phase, Length, Printed

\* A context that ends releases its job.
LEMMA EndReleases ==
  ASSUME IInv, NEW j \in sendList, NEW s \in {"ERROR", "DONE"},
         ctx' = [ctx EXCEPT ![j].state = s], sendList' = sendList \ {j}, UNCHANGED paper
  PROVE  Delivery!Next
<1>1. j \in Job /\ ctx \in [Job -> Context]
  BY HeldIsAllocated DEF IInv, TypeOK
<1>2. /\ ctx'[j].state = s /\ ctx'[j].len = ctx[j].len
      /\ \A l \in Job : l # j => ctx'[l] = ctx[l]
  BY <1>1 DEF Context
<1>3. \A l \in {j} : Phase[l] = "held"
  BY <1>1 DEF Phase
<1>4. Phase' = [l \in Job |-> IF l \in {j} THEN "over" ELSE Phase[l]]
  BY <1>1, <1>2 DEF Phase
<1>5. UNCHANGED <<Length, Printed>>
  BY <1>1, <1>2 DEF Length, Printed
<1> QED
  BY <1>1, <1>3, <1>4, <1>5, DeliveryUnfolded

\* A completion is invisible or releases the job.
LEMMA IrpCallbackDelivers ==
  ASSUME IInv, NEW j \in Job, IrpCallback(j)
  PROVE  [Delivery!Next]_Delivery!vars
<1>1. PICK r \in responses, i \in irps :
         \/ CreateSucceeded(r, i) \/ CreateFailed(r, i)
         \/ WriteSucceeded(r, i)  \/ WriteFailed(r, i)
         \/ CloseDone(r, i)
  BY DEF IrpCallback
<1>2. i.id = r.id /\ Dispatch(r, i) /\ UNCHANGED paper
  BY <1>1 DEF CreateSucceeded, CreateFailed, WriteSucceeded, WriteFailed, CloseDone, Dispatch, client
<1> DEFINE old == ctx[i.job]
<1>3. /\ i.job \in sendList /\ old \in Context
      /\ old.offset \in Nat /\ old.len \in 0..MaxLen /\ Len(paper[i.job]) <= old.len
  BY <1>2, DispatchedIsCurrent DEF Waits, Context
<1>4. CASE CreateSucceeded(r, i)
  <2> DEFINE c == [old EXCEPT !.file = r.value]
  <2>1. r.value \in FileId
    BY <1>2, <1>4 DEF CreateSucceeded, IInv, ResponsesCurrent
  <2>2. c \in Context /\ c.len = old.len /\ "write" \in Kind
    BY <1>3, <2>1 DEF Context, Kind
  <2>3. Send(i.job, c, "write", {i}) /\ UNCHANGED sendList
    BY <1>4 DEF CreateSucceeded
  <2> HIDE DEF c
  <2> QED
    BY <1>2, <1>3, <2>2, <2>3, SendIsInvisible, DeliveryUnfolded
<1>5. CASE CreateFailed(r, i)
  BY <1>2, <1>3, <1>5, EndReleases DEF CreateFailed
<1>6. CASE WriteSucceeded(r, i)
  <2> DEFINE c == [old EXCEPT !.offset = @ + r.value]
             k == IF c.offset >= c.len THEN "close" ELSE "write"
  <2>1. r.value \in Nat /\ old.offset + r.value = Len(paper[i.job])
    BY <1>2, <1>6 DEF WriteSucceeded, IInv, ResponsesCurrent
  <2>2. c \in Context /\ c.len = old.len /\ k \in Kind
    BY <1>3, <2>1, PrintSendAssumption DEF Context, Kind
  <2>3. Send(i.job, c, k, {i}) /\ UNCHANGED sendList
    BY <1>6 DEF WriteSucceeded
  <2> HIDE DEF c, k
  <2> QED
    BY <1>2, <1>3, <2>2, <2>3, SendIsInvisible, DeliveryUnfolded
<1>7. CASE WriteFailed(r, i)
  <2> DEFINE c == [old EXCEPT !.state = "ERROR"]
  <2>1. c \in Context /\ c.len = old.len /\ "close" \in Kind
    BY <1>3 DEF Context, SendState, Kind
  <2>2. Send(i.job, c, "close", {i}) /\ UNCHANGED sendList
    BY <1>7 DEF WriteFailed
  <2> HIDE DEF c
  <2> QED
    BY <1>2, <1>3, <2>1, <2>2, SendIsInvisible, DeliveryUnfolded
<1>8. CASE CloseDone(r, i)
  BY <1>2, <1>3, <1>8, EndReleases DEF CloseDone
<1> QED
  BY <1>1, <1>4, <1>5, <1>6, <1>7, <1>8

\* A print grows by the bytes that the client took.
LEMMA LengthOfPrint ==
  ASSUME NEW s \in Seq(Job \X Nat), NEW t \in Seq(Job \X Nat)
  PROVE  Len(s \o t) = Len(s) + Len(t)
OBVIOUS

\* A served WRITE prints the next bytes of a job still held, or nothing.
LEMMA ClientWritePrints ==
  ASSUME IInv, NEW q \in requests, ClientWrite(q)
  PROVE  Delivery!Next
<1>1. /\ q \in Request /\ q.job \in Job /\ q.job \in sendList /\ q.kind = "write"
      /\ UNCHANGED <<sendList, ctx>>
  BY ServedIsCurrent DEF ClientWrite, Waits, Reply, server
<1>2. /\ handles[q.file] = q.job /\ q.offset = Len(paper[q.job])
      /\ q.offset + q.len <= ctx[q.job].len
  BY <1>1 DEF IInv, RequestsCurrent
<1>3. PICK n \in 0..q.len :
         paper' = [paper EXCEPT ![handles[q.file]] = @ \o Bytes(q.job, q.offset, n)]
  BY DEF ClientWrite
<1>4. /\ q.len \in Nat /\ n \in Nat /\ n <= q.len /\ ctx[q.job].len \in Nat
      /\ paper \in [Job -> Seq(Job \X Nat)] /\ Len(paper[q.job]) \in Nat
      /\ q.offset \in Nat
  BY <1>1, <1>3 DEF IInv, TypeOK, Context, Request
<1> DEFINE b == Bytes(q.job, q.offset, n)
           m == Len(paper[q.job]) + n
<1>5. b \in Seq(Job \X Nat) /\ Len(b) = n
  BY <1>1, <1>4, BytesType
<1>6. paper' = [paper EXCEPT ![q.job] = @ \o b]
  BY <1>2, <1>3
<1> HIDE DEF b
<1>7. Len(paper'[q.job]) = m /\ \A j \in Job : j # q.job => paper'[j] = paper[j]
  <2>1. paper[q.job] \in Seq(Job \X Nat)
    BY <1>1, <1>4
  <2>2. Len(paper[q.job] \o b) = m
    BY <1>5, <2>1, LengthOfPrint
  <2>3. paper'[q.job] = paper[q.job] \o b /\ \A j \in Job : j # q.job => paper'[j] = paper[j]
    BY <1>1, <1>4, <1>6
  <2> QED
    BY <2>2, <2>3
<1>8. m \in Printed[q.job]..Length[q.job]
  BY <1>1, <1>2, <1>4 DEF Printed, Length
<1> HIDE DEF m
<1>9. Printed' = [Printed EXCEPT ![q.job] = m]
  BY <1>1, <1>7 DEF Printed
<1>10. Phase[q.job] = "held" /\ UNCHANGED <<Phase, Length>>
  BY <1>1 DEF Phase, Length
<1> QED
  BY <1>1, <1>8, <1>9, <1>10, DeliveryUnfolded

\* Cleanup releases every job in the send list at once.
LEMMA DisconnectReleases ==
  ASSUME IInv, Disconnect
  PROVE  [Delivery!Next]_Delivery!vars
<1>1. sendList \subseteq Job /\ sendList' = {} /\ UNCHANGED <<ctx, paper>>
  BY DEF IInv, TypeOK, Disconnect
<1>2. UNCHANGED <<Length, Printed>>
  BY <1>1 DEF Length, Printed
<1>3. \A j \in sendList : Phase[j] = "held"
  BY <1>1 DEF Phase
<1>4. Phase' = [j \in Job |-> IF j \in sendList THEN "over" ELSE Phase[j]]
  BY <1>1, HeldIsAllocated DEF Phase
<1>5. CASE sendList = {}
  <2>1. UNCHANGED Phase
    BY <1>1, <1>5 DEF Phase
  <2> QED
    BY <1>2, <2>1, DeliveryUnfolded
<1>6. CASE sendList # {}
  BY <1>1, <1>2, <1>3, <1>4, <1>6, DeliveryUnfolded
<1> QED
  BY <1>5, <1>6

\* Every step of the send side is a step of JobDelivery or changes nothing there.
THEOREM StepDelivers == IInv /\ [Next]_vars => [Delivery!Next]_Delivery!vars
<1> SUFFICES ASSUME IInv, [Next]_vars PROVE [Delivery!Next]_Delivery!vars
  OBVIOUS
<1>1. CASE \E j \in Job, d \in Device, n \in 1..MaxLen : SendJob(j, d, n)
  BY <1>1, SendJobAccepts
<1>2. CASE \E j \in Job : IrpCallback(j)
  BY <1>2, IrpCallbackDelivers
<1>3. CASE \E q \in requests : ClientWrite(q)
  BY <1>3, ClientWritePrints
<1>4. CASE Disconnect
  BY <1>4, DisconnectReleases
<1>5. ASSUME UNCHANGED <<sendList, ctx, paper>>
      PROVE  UNCHANGED Delivery!vars
  BY <1>5, DeliveryUnfolded DEF Phase, Length, Printed
<1>6. CASE Connect \/ \E d \in Device : DeviceAnnounce(d) \/ DeviceRemove(d)
  BY <1>5, <1>6 DEF Connect, DeviceAnnounce, DeviceRemove, client
<1>7. CASE \E q \in requests : ClientCreate(q) \/ ClientClose(q) \/ ClientDrop(q)
  BY <1>5, <1>7 DEF ClientCreate, ClientClose, ClientDrop, Reply, server
<1>8. CASE UNCHANGED vars
  BY <1>5, <1>8 DEF vars, server, client
<1> QED
  BY <1>1, <1>2, <1>3, <1>4, <1>6, <1>7, <1>8 DEF Next, ClientServes

\* The send machine implements the abstract job delivery: every accepted job is
\* printed front to back, each byte once, and never after it was let go of.
THEOREM Delivers == Spec => DeliversJobs
<1>1. Init => Delivery!Init
  BY DeliveryUnfolded DEF Init, Phase, Length, Printed
<1> QED
  BY <1>1, StepDelivers, Safety, PTL DEF Spec, DeliversJobs, Delivery!Spec

=============================================================================
