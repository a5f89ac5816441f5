-------------------------- MODULE PrintPathProofs --------------------------
(***************************************************************************)
(* The safety of a print job on its whole way, from what is proved of      *)
(* BackendSocket and from how a job that was handed over is held, for      *)
(* every number of jobs, attempts, slots and sessions and every fault.     *)
(***************************************************************************)
EXTENDS PrintPath, BackendSocketProofs

\* The send side holds a job exactly as it was handed over, in a session.
HeldAsHanded ==
  /\ phase \in [Conn -> {"new", "held", "over"}]
  /\ length \in [Conn -> 0..MaxPieces] /\ printed \in [Conn -> 0..MaxPieces]
  /\ \A c \in Conn :
        /\ handed[c] = << >> <=> phase[c] = "new"
        /\ phase[c] = "new" => length[c] = 0
        /\ phase[c] # "new" => length[c] = size[c[1]]
        /\ phase[c] = "held" => initialized
        /\ printed[c] <= length[c]

PathInv == SocketInv /\ HeldAsHanded

-----------------------------------------------------------------------------
(* The steps of the send side.                                             *)

LEMMA PathInitOK ==
  ASSUME PathInit
  PROVE  PathInv
<1>1. SocketInv
  BY InitOK DEF PathInit
<1>2. /\ phase = [c \in Conn |-> "new"] /\ length = [c \in Conn |-> 0]
      /\ printed = [c \in Conn |-> 0] /\ handed = [c \in Conn |-> << >>]
  BY DEF PathInit, Delivery!Init, Init
<1>3. 0 \in 0..MaxPieces
  BY BackendSocketAssumption
<1> QED BY <1>1, <1>2, <1>3 DEF PathInv, HeldAsHanded

\* No step but a cleanup ends a session, and no job changes its size.
LEMMA SessionStepKeeps ==
  ASSUME SessionStep
  PROVE  size' = size /\ (initialized => initialized')
<1>1. ASSUME NEW j \in Job, Connect(j) \/ BackendStep(j) \/ Kill(j)
      PROVE  size' = size /\ initialized' = initialized
  BY <1>1 DEF Connect, BackendStep, SendStart, SendDataHeader, SendPayload, SendEnd, Write,
              ReadAck, Fail, Kill, Exit, chansrv
<1>2. ASSUME NEW s \in Slot, Handle(s)
      PROVE  size' = size /\ initialized' = initialized
  BY <1>2 DEF Handle, HandleStart, HandleData, HandleEnd, HandleEof, Readable, cups
<1>3. CASE Accept \/ AcceptFails
  BY <1>3 DEF Accept, AcceptFails, cups
<1>4. CASE Initialize
  BY <1>4 DEF Initialize, cups
<1>5. CASE SetupCompletes
  <2>1. UNCHANGED <<cups, initialized>>
    BY <1>5, Zenon DEF SetupCompletes
  <2> QED BY <2>1 DEF cups
<1> QED BY <1>1, <1>2, <1>3, <1>4, <1>5 DEF SessionStep

LEMMA SizeIsFixed ==
  ASSUME [Next]_vars
  PROVE  size' = size
BY SessionStepKeeps DEF Next, Cleanup, cups, vars

\* Every step of a path is one of the sockets.
LEMMA PathIsSocket ==
  ASSUME [PathNext]_pathVars
  PROVE  [Next]_vars
<1>1. ASSUME NEW s \in Slot, HandleEnd(s) PROVE Next
  BY <1>1 DEF Next, SessionStep, Handle
<1> QED BY <1>1 DEF PathNext, pathVars, EndSession, Next

\* A job taken over is the whole job.
LEMMA TakeOverOK ==
  ASSUME PathInv, NEW s \in Slot, HandleEnd(s), handed' # handed, TakeOver(s),
         size' = size
  PROVE  HeldAsHanded'
<1> USE BackendSocketAssumption
<1>1. Readable(s, "END")
  BY DEF HandleEnd
<1>2. PICK c \in Conn, n \in 0..MaxPieces : slots[s] = c /\ n = size[c[1]] /\ Len(buffer[s]) = n
  BY <1>1, EndFindsWhole DEF PathInv
<1>3. initialized /\ initialized'
  BY <1>1 DEF Readable, PathInv, SocketInv, ListensInSession
<1>4. handed' = [handed EXCEPT ![c] = Append(handed[c], buffer[s])]
  BY <1>2 DEF HandleEnd
<1>5. handed \in [Conn -> Seq(Seq(1..MaxPieces))] /\ buffer[s] \in Seq(1..MaxPieces)
  BY DEF PathInv, SocketInv, TypeOK
<1>6. Append(handed[c], buffer[s]) # << >>
  <2>1. handed[c] \in Seq(Seq(1..MaxPieces))
    BY <1>5
  <2> QED BY <2>1, <1>5, AppendProperties
<1>7. handed'[c] # << >> /\ \A d \in Conn : d # c => handed'[d] = handed[d]
  BY <1>4, <1>5, <1>6
<1>8. PICK m \in 1..MaxPieces :
         /\ phase[c] = "new" /\ phase' = [phase EXCEPT ![c] = "held"]
         /\ length' = [length EXCEPT ![c] = m] /\ printed' = printed
  BY <1>2 DEF TakeOver, Delivery!Accept
<1>9. length'[c] = n
  BY <1>2 DEF TakeOver
<1>10. /\ phase \in [Conn -> {"new", "held", "over"}]
       /\ length \in [Conn -> 0..MaxPieces] /\ printed \in [Conn -> 0..MaxPieces]
       /\ printed[c] = 0
  BY <1>8 DEF PathInv, HeldAsHanded
<1>11. /\ phase' \in [Conn -> {"new", "held", "over"}]
       /\ length' \in [Conn -> 0..MaxPieces] /\ printed' \in [Conn -> 0..MaxPieces]
  BY <1>8, <1>10
<1> SUFFICES ASSUME NEW d \in Conn
             PROVE  /\ handed'[d] = << >> <=> phase'[d] = "new"
                    /\ phase'[d] = "new" => length'[d] = 0
                    /\ phase'[d] # "new" => length'[d] = size[d[1]]
                    /\ phase'[d] = "held" => initialized'
                    /\ printed'[d] <= length'[d]
  BY <1>11 DEF HeldAsHanded
<1>12. CASE d = c
  BY <1>2, <1>3, <1>7, <1>8, <1>9, <1>10, <1>12
<1>13. CASE d # c
  BY <1>3, <1>7, <1>8, <1>10, <1>13 DEF PathInv, HeldAsHanded
<1> QED BY <1>12, <1>13

\* Contexts are let go of, at the end of the session all of them.
LEMMA ReleaseOK ==
  ASSUME PathInv, NEW C \in SUBSET Conn, Delivery!Release(C), size' = size, handed' = handed,
         initialized' = initialized \/ \A c \in Conn : phase[c] = "held" => c \in C
  PROVE  HeldAsHanded'
<1>1. /\ phase' = [c \in Conn |-> IF c \in C THEN "over" ELSE phase[c]]
      /\ \A c \in C : phase[c] = "held"
      /\ length' = length /\ printed' = printed
  BY DEF Delivery!Release
<1> QED BY <1>1 DEF PathInv, HeldAsHanded

\* The printer takes more of a job that is held.
LEMMA PrintOK ==
  ASSUME PathInv, NEW c \in Conn, Delivery!PrintNext(c), UNCHANGED <<size, handed, initialized>>
  PROVE  HeldAsHanded'
<1>1. /\ phase \in [Conn -> {"new", "held", "over"}]
      /\ length \in [Conn -> 0..MaxPieces] /\ printed \in [Conn -> 0..MaxPieces]
  BY DEF PathInv, HeldAsHanded
<1>2. PICK n \in printed[c]..length[c] : printed' = [printed EXCEPT ![c] = n]
  BY DEF Delivery!PrintNext
<1>3. phase' = phase /\ length' = length
  BY DEF Delivery!PrintNext
<1>4. n \in 0..MaxPieces /\ n <= length[c]
  <2>1. printed[c] \in 0..MaxPieces /\ length[c] \in 0..MaxPieces
    BY <1>1
  <2> QED BY <2>1, BackendSocketAssumption
<1> QED BY <1>1, <1>2, <1>3, <1>4 DEF PathInv, HeldAsHanded

LEMMA PathNextOK ==
  ASSUME PathInv, [PathNext]_pathVars
  PROVE  PathInv'
<1>1. [Next]_vars
  BY PathIsSocket
<1>2. SocketInv' /\ size' = size
  BY <1>1, NextOK, SizeIsFixed DEF PathInv
<1>3. CASE SessionStep /\ handed' = handed /\ UNCHANGED delivery
  BY <1>2, <1>3, SessionStepKeeps DEF PathInv, HeldAsHanded, delivery
<1>4. ASSUME NEW s \in Slot, HandleEnd(s), handed' # handed, TakeOver(s)
      PROVE  HeldAsHanded'
  BY <1>2, <1>4, TakeOverOK
<1>5. ASSUME EndSession PROVE HeldAsHanded'
  <2>1. Cleanup /\ handed' = handed
    BY <1>5 DEF EndSession, Cleanup
  <2>2. CASE Sending = {} /\ UNCHANGED delivery
    BY <2>1, <2>2, <1>2 DEF Sending, PathInv, HeldAsHanded, delivery
  <2>3. CASE Delivery!Release(Sending)
    <3>1. Sending \in SUBSET Conn /\ \A c \in Conn : phase[c] = "held" => c \in Sending
      BY DEF Sending
    <3> QED BY <2>1, <2>3, <3>1, <1>2, ReleaseOK
  <2> QED BY <1>5, <2>2, <2>3 DEF EndSession
<1>6. ASSUME NEW c \in Conn, UNCHANGED vars, Delivery!PrintNext(c) \/ Delivery!Release({c})
      PROVE  HeldAsHanded'
  <2>1. UNCHANGED <<size, handed, initialized>>
    BY <1>6 DEF vars, cups, chansrv
  <2> QED BY <1>6, <2>1, PrintOK, ReleaseOK
<1>7. CASE UNCHANGED pathVars
  BY <1>7, <1>2 DEF pathVars, vars, delivery, cups, chansrv, PathInv, HeldAsHanded
<1> QED BY <1>2, <1>3, <1>4, <1>5, <1>6, <1>7 DEF PathNext, PathInv

-----------------------------------------------------------------------------

\* The inductive invariant of the whole way of a job.
THEOREM PathSafe == PathSpec => []PathInv
<1>1. PathInit => PathInv
  BY PathInitOK
<1>2. PathInv /\ [PathNext]_pathVars => PathInv'
  BY PathNextOK
<1> QED BY <1>1, <1>2, PTL DEF PathSpec

\* A path is a behaviour of the sockets: what is proved of BackendSocket holds of it.
THEOREM PathRunsSockets == PathSpec => Spec
<1>1. PathInit => Init
  BY DEF PathInit
<1>2. [PathNext]_pathVars => [Next]_vars
  BY PathIsSocket
<1> QED BY <1>1, <1>2, PTL DEF PathSpec, Spec

\* At most one copy of a job from attempts that were not killed, and one from each
\* that was: no retry of cupsd prints a page again.
THEOREM PrintedOncePerKill == PathSpec => []OneCopyPerKill
<1>1. PathInv => OneCopyPerKill
  <2> SUFFICES ASSUME PathInv PROVE OneCopyPerKill
    OBVIOUS
  <2>1. ASSUME NEW c \in Conn
        PROVE  printed[c] <= size[c[1]] /\ (printed[c] > 0 => handed[c] # << >>)
    <3>1. printed[c] \in 0..MaxPieces /\ length[c] \in 0..MaxPieces /\ size[c[1]] \in 0..MaxPieces
      BY ConnParts DEF PathInv, HeldAsHanded, SocketInv, TypeOK
    <3>2. /\ printed[c] <= length[c]
          /\ handed[c] = << >> => length[c] = 0
          /\ length[c] = 0 \/ length[c] = size[c[1]]
      BY DEF PathInv, HeldAsHanded
    <3> QED BY <3>1, <3>2, BackendSocketAssumption
  <2>2. ASSUME NEW c \in Conn, NEW d \in Conn, c[1] = d[1],
               handed[c] # << >>, handed[d] # << >>
        PROVE  c = d \/ c \in killed \/ d \in killed
    BY <2>2 DEF PathInv, SocketInv, HandedOnce
  <2> QED BY <2>1, <2>2 DEF OneCopyPerKill
<1> QED BY <1>1, PathSafe, PTL

\* What cupsd drops as printed was turned down or is with the send side, whole.
THEOREM DoneIsHeld == PathSpec => []DoneIsInSending
<1>1. PathInv => DoneIsInSending
  <2> SUFFICES ASSUME PathInv, NEW j \in Job, backend[j] = "done", size[j] > 0
               PROVE  \/ ConnOf(j) \in refused
                      \/ phase[ConnOf(j)] # "new" /\ length[ConnOf(j)] = size[j]
    BY DEF DoneIsInSending
  <2>1. handed[ConnOf(j)] # << >> \/ ConnOf(j) \in refused
    BY DEF PathInv, SocketInv, DoneMeansAsked
  <2>2. attempt[j] \in 1..MaxAttempts
    BY DEF PathInv, SocketInv, TypeOK, BackendsInOrder
  <2>3. ConnOf(j) \in Conn /\ ConnOf(j)[1] = j
    BY <2>2 DEF ConnOf, Conn
  <2> QED BY <2>1, <2>3 DEF PathInv, HeldAsHanded
<1> QED BY <1>1, PathSafe, PTL

\* Nothing comes out of the printer for a session that devredir_printer_cleanup ended.
THEOREM SilentAfterEnd == PathSpec => NothingPrintedAfterEnd
<1>1. PathInv /\ [PathNext]_pathVars => [~initialized => printed' = printed]_pathVars
  <2> SUFFICES ASSUME PathInv, [PathNext]_pathVars, ~initialized
               PROVE  printed' = printed
    OBVIOUS
  <2>1. ASSUME NEW c \in Conn, Delivery!PrintNext(c) PROVE FALSE
    BY <2>1 DEF Delivery!PrintNext, PathInv, HeldAsHanded
  <2> QED
    BY <2>1 DEF PathNext, pathVars, delivery, TakeOver, EndSession, Delivery!Accept, Delivery!Release
<1> QED BY <1>1, PathSafe, PTL DEF PathSpec, NothingPrintedAfterEnd

=============================================================================
