------------------------ MODULE BackendSocketProofs ------------------------
(***************************************************************************)
(* The safety of BackendSocket for any number of jobs, attempts, slots and *)
(* listeners, jobs and buffers of any size and any selection of faults.    *)
(* What makes it inductive: what chansrv has in a buffer, what is under    *)
(* way in the stream and what the backend has yet to send make up the job, *)
(* for every connection, wherever it is.                                   *)
(***************************************************************************)
EXTENDS BackendSocket, SequenceTheorems, TLAPS

\* t is the i-th token a backend writes for a job of n pieces.
TokenAt(n, i, t) ==
  \/ i = 1 /\ t = <<"START">>
  \/ \E k \in 1..n : i = 2 * k /\ t = <<"DATA">>
  \/ \E k \in 1..n : i = 2 * k + 1 /\ t = <<"payload", k>>
  \/ i = 2 * n + 2 /\ t = <<"END">>

Token == {<<"START">>, <<"DATA">>, <<"END">>} \cup ({"payload"} \X (1..MaxPieces))

\* How many tokens the backend of j has written.
Written(j) ==
  IF backend[j] = "start" THEN 0
  ELSE IF backend[j] = "data" THEN 2 * (size[j] - left[j]) + 1
  ELSE IF backend[j] = "payload" THEN 2 * (size[j] - left[j]) + 2
  ELSE 2 * size[j] + 2

\* The sequence q continues a job of n pieces after the first r tokens.
Continues(n, r, q) ==
  /\ r + Len(q) <= 2 * n + 2
  /\ \A i \in 1..Len(q) : TokenAt(n, r + i, q[i])

\* The stream of c continues its job after the first r tokens, as far as the
\* backend has got.
ContinuesAfter(c, r) ==
  /\ Continues(size[c[1]], r, stream[c])
  /\ c \in open => r + Len(stream[c]) = Written(c[1])

\* The tokens chansrv may have read from the connection of slot s: START and the
\* pieces in the buffer, or nothing yet, or everything.
HasRead(s) ==
  {2 * Len(buffer[s]) + 1} \cup
    IF buffer[s] = << >> THEN {0, 2 * size[slots[s][1]] + 2} ELSE {}

-----------------------------------------------------------------------------
(* The parts of the inductive invariant.                                   *)

\* Where a backend is in its job.
BackendsInOrder ==
  \A j \in Job :
     /\ attempt[j] <= starts
     /\ backend[j] = "start" => left[j] = size[j]
     /\ backend[j] = "data" => left[j] <= size[j]
     /\ backend[j] = "payload" => left[j] \in 1..size[j]
     /\ backend[j] = "done" => attempt[j] > 0

\* The open connections are those of the running backends.
OpenAreRunning ==
  /\ \A j \in Job : Running(j) => ConnOf(j) \in open
  /\ \A c \in open : Running(c[1]) /\ c = ConnOf(c[1])

\* A connection that is yet to be made has left no trace.
ConnsFresh ==
  \A c \in Conn : c[2] > attempt[c[1]] =>
     /\ ~Alive(c) /\ c \notin killed
     /\ handed[c] = << >>

\* chansrv has every connection in one place, and nothing of any other.
OnePlace ==
  /\ backlog \cap stranded = {}
  /\ \A s \in Slot : slots[s] \notin backlog \cup stranded
  /\ \A s, t \in Slot : slots[s] = slots[t] /\ slots[s] # None => s = t
  /\ \A c \in Conn : ~Alive(c) => stream[c] = << >>

\* Nothing of a job is lost, repeated or out of order on its way.
StreamsInOrder ==
  /\ \A c \in backlog \cup stranded : ContinuesAfter(c, 0)
  /\ \A s \in Slot : slots[s] # None =>
        /\ buffer[s] = Pieces(Len(buffer[s]))
        /\ \E r \in HasRead(s) : ContinuesAfter(slots[s], r)

\* Only a job that was read to its end is acknowledged.
AcksAreDue ==
  \A c \in acks :
     /\ c \in open /\ backend[c[1]] = "wait"
     /\ stream[c] = << >>
     /\ size[c[1]] > 0 => handed[c] # << >> \/ c \in refused

\* A backend that is gone was killed, or has left nothing to be read.
GoneAreKilled ==
  \A c \in Conn : Alive(c) /\ c \notin open => c \in killed \/ stream[c] = << >>

\* A job is handed on once, whole, and its backend will not try again unless it
\* is killed.
HandedOnce ==
  \A c \in Conn : handed[c] # << >> =>
     /\ handed[c] = <<Pieces(size[c[1]])>>
     /\ stream[c] = << >>
     /\ c \in open => c \in acks
     /\ c \in killed \/ (c = ConnOf(c[1]) /\ (c \in open \/ backend[c[1]] = "done"))

\* chansrv serves a listener only in a session.
ListensInSession == listening => initialized

SocketInv ==
  /\ TypeOK
  /\ BackendsInOrder
  /\ OpenAreRunning
  /\ ConnsFresh
  /\ OnePlace
  /\ StreamsInOrder
  /\ AcksAreDue
  /\ GoneAreKilled
  /\ HandedOnce
  /\ DoneMeansAsked
  /\ ListensInSession

-----------------------------------------------------------------------------
(* What the operators above do.                                            *)

\* A connection is made of a job and the number of an attempt.
LEMMA ConnParts ==
  ASSUME NEW c \in Conn
  PROVE  c[1] \in Job /\ c[2] \in 1..MaxAttempts /\ c = <<c[1], c[2]>>
  BY DEF Conn

LEMMA RangeOfSlots ==
  ASSUME NEW f \in [Slot -> Conn \cup {None}], NEW c
  PROVE  c \in Range(f) <=> \E s \in Slot : f[s] = c
  BY DEF Range

LEMMA TailOfOne ==
  ASSUME NEW T, NEW q \in Seq(T), Len(q) = 1
  PROVE  q # << >> /\ Tail(q) = << >>
<1>1. q # << >>
  BY EmptySeq
<1>2. Tail(q) \in Seq(T) /\ Len(Tail(q)) = 0
  BY <1>1, HeadTailProperties
<1> QED BY <1>1, <1>2, EmptySeq

LEMMA TailTwice ==
  ASSUME NEW T, NEW q \in Seq(T), Len(q) > 1
  PROVE  /\ Tail(q) \in Seq(T) /\ Tail(q) # << >> /\ Head(Tail(q)) = q[2]
         /\ Tail(Tail(q)) \in Seq(T) /\ Len(Tail(Tail(q))) = Len(q) - 2
<1>1. Tail(q) \in Seq(T) /\ Len(Tail(q)) = Len(q) - 1 /\ Len(q) \in Nat /\ q # << >>
  OBVIOUS
<1>2. Tail(q) # << >> /\ Tail(q)[1] = q[2]
  <2>1. 1 \in 1..Len(Tail(q))
    BY <1>1
  <2>2. Tail(q)[1] = q[1 + 1] /\ 1 + 1 = 2
    BY <1>1, <2>1, HeadTailProperties
  <2>3. Tail(q) # << >>
    <3>1. Len(Tail(q)) # 0
      BY <1>1
    <3>2. Len(<< >>) = 0
      BY EmptySeq
    <3> QED BY <3>1, <3>2
  <2> QED BY <2>2, <2>3
<1>3. Tail(Tail(q)) \in Seq(T) /\ Len(Tail(Tail(q))) = Len(Tail(q)) - 1
  BY <1>1, <1>2
<1> QED BY <1>1, <1>2, <1>3

\* Where a token can be in a job.
LEMMA TokenPlace ==
  ASSUME NEW n \in Nat, NEW i \in Nat, NEW t, TokenAt(n, i, t)
  PROVE  /\ t[1] = "START" => i = 1
         /\ t[1] = "DATA" => \E k \in 1..n : i = 2 * k
         /\ t[1] = "END" => i = 2 * n + 2
         /\ \A k \in 1..n : i = 2 * k + 1 => t = <<"payload", k>>
<1>1. CASE i = 1 /\ t = <<"START">>
  BY <1>1
<1>2. CASE \E k \in 1..n : i = 2 * k /\ t = <<"DATA">>
  BY <1>2
<1>3. CASE \E k \in 1..n : i = 2 * k + 1 /\ t = <<"payload", k>>
  BY <1>3
<1>4. CASE i = 2 * n + 2 /\ t = <<"END">>
  BY <1>4
<1> QED BY <1>1, <1>2, <1>3, <1>4 DEF TokenAt

\* Reading a token.
LEMMA ContinuesTail ==
  ASSUME NEW T, NEW n \in Nat, NEW r \in Nat, NEW q \in Seq(T), q # << >>,
         Continues(n, r, q)
  PROVE  TokenAt(n, r + 1, Head(q)) /\ Continues(n, r + 1, Tail(q))
<1>1. TokenAt(n, r + 1, Head(q))
  BY DEF Continues
<1>2. ASSUME NEW i \in 1..Len(Tail(q)) PROVE TokenAt(n, (r + 1) + i, Tail(q)[i])
  <2>1. i + 1 \in 1..Len(q) /\ Tail(q)[i] = q[i + 1] /\ (r + 1) + i = r + (i + 1)
    OBVIOUS
  <2> QED BY <2>1 DEF Continues
<1> QED BY <1>1, <1>2 DEF Continues

\* Writing a token.
LEMMA ContinuesAppend ==
  ASSUME NEW T, NEW n \in Nat, NEW r \in Nat, NEW q \in Seq(T), NEW t \in T,
         Continues(n, r, q), r + Len(q) + 1 <= 2 * n + 2,
         TokenAt(n, r + Len(q) + 1, t)
  PROVE  Continues(n, r, Append(q, t))
<1>1. ASSUME NEW i \in 1..Len(Append(q, t)) PROVE TokenAt(n, r + i, Append(q, t)[i])
  <2>1. CASE i \in 1..Len(q)
    BY <2>1 DEF Continues
  <2>2. CASE i = Len(q) + 1
    <3>1. Append(q, t)[i] = t /\ r + i = r + Len(q) + 1
      BY <2>2
    <3> QED BY <3>1
  <2> QED BY <2>1, <2>2
<1> QED BY <1>1 DEF Continues

\* What holds of a backend that runs.
LEMMA RunningConn ==
  ASSUME SocketInv, NEW j \in Job, Running(j)
  PROVE  ConnOf(j) \in open /\ ConnOf(j) \in Conn /\ ConnOf(j)[1] = j
  BY DEF SocketInv, OpenAreRunning, ConnOf, TypeOK

LEMMA HasReadNat ==
  ASSUME TypeOK, NEW s \in Slot, slots[s] # None
  PROVE  HasRead(s) \subseteq Nat
<1>1. slots[s] \in Conn /\ size[slots[s][1]] \in 0..MaxPieces
  BY ConnParts DEF TypeOK
<1>2. Len(buffer[s]) \in Nat
  BY DEF TypeOK
<1> QED BY <1>1, <1>2, BackendSocketAssumption DEF HasRead

\* Nothing is under way on a connection chansrv has closed.
LEMMA UnreadIsAlive ==
  ASSUME SocketInv, NEW c \in Conn, stream[c] # << >>
  PROVE  Alive(c)
  BY DEF SocketInv, OnePlace

-----------------------------------------------------------------------------
(* The invariant holds initially, and every step keeps it.                 *)

LEMMA InitOK ==
  ASSUME Init
  PROVE  SocketInv
<1> USE BackendSocketAssumption
<1>1. TypeOK
  <2>1. /\ size \in [Job -> 0..MaxPieces] /\ left \in [Job -> 0..MaxPieces]
        /\ backend \in [Job -> BackendState] /\ attempt \in [Job -> 0..MaxAttempts]
        /\ starts \in 0..MaxAttempts /\ setups \in 0..MaxSetups
    BY DEF Init, BackendState
  <2>2. /\ stream \in [Conn -> Seq(Token)] /\ slots \in [Slot -> Conn \cup {None}]
        /\ buffer \in [Slot -> Seq(1..MaxPieces)]
        /\ \A s \in Slot : Len(buffer[s]) <= MaxBuffer
        /\ handed \in [Conn -> Seq(Seq(1..MaxPieces))]
    BY DEF Init
  <2> QED BY <2>1, <2>2 DEF Init, TypeOK, Token
<1>2. \A c \in Conn : ~Alive(c)
  <2>1. slots \in [Slot -> Conn \cup {None}] /\ \A s \in Slot : slots[s] = None
    BY DEF Init
  <2> QED BY <2>1, RangeOfSlots DEF Init, Alive
<1>3. BackendsInOrder /\ OpenAreRunning /\ AcksAreDue /\ DoneMeansAsked
  BY DEF Init, BackendsInOrder, OpenAreRunning, AcksAreDue, DoneMeansAsked, Running
<1>4. ConnsFresh /\ OnePlace
  BY <1>2 DEF Init, ConnsFresh, OnePlace
<1>5. StreamsInOrder /\ ListensInSession
  BY DEF Init, StreamsInOrder, ListensInSession
<1>6. GoneAreKilled /\ HandedOnce
  BY <1>2 DEF Init, GoneAreKilled, HandedOnce
<1> QED BY <1>1, <1>3, <1>4, <1>5, <1>6 DEF SocketInv

\* A step that leaves what chansrv has in place.
LEMMA StreamsKept ==
  ASSUME SocketInv,
         UNCHANGED <<size, backlog, stranded, slots, buffer>>,
         \A c \in Conn : \A r \in Nat : ContinuesAfter(c, r) => ContinuesAfter(c, r)'
  PROVE  StreamsInOrder'
<1>1. \A c \in backlog \cup stranded : ContinuesAfter(c, 0)'
  BY DEF SocketInv, StreamsInOrder, TypeOK
<1>2. ASSUME NEW s \in Slot, slots[s] # None
      PROVE  \E r \in HasRead(s)' : ContinuesAfter(slots[s], r)'
  <2>1. PICK c \in Conn : c = slots[s]
    BY <1>2 DEF SocketInv, TypeOK
  <2>2. PICK r \in HasRead(s) : ContinuesAfter(c, r)
    BY <1>2, <2>1 DEF SocketInv, StreamsInOrder
  <2>3. r \in Nat /\ r \in HasRead(s)'
    BY <1>2, HasReadNat DEF SocketInv, HasRead
  <2>4. ContinuesAfter(c, r)'
    BY <2>2, <2>3
  <2> QED BY <2>1, <2>3, <2>4 DEF ContinuesAfter
<1> QED BY <1>1, <1>2 DEF SocketInv, StreamsInOrder

\* The write of the next token of a job.
LEMMA WriteOK ==
  ASSUME SocketInv, NEW j \in Job, NEW t \in Token, NEW next \in {"data", "payload", "wait"},
         backend[j] \in {"start", "data", "payload"},
         Write(j, t, next),
         left' \in [Job -> 0..MaxPieces],
         \A i \in Job : i # j => left'[i] = left[i],
         BackendsInOrder',
         Written(j)' = Written(j) + 1,
         Written(j) \in Nat, Written(j) + 1 <= 2 * size[j] + 2,
         TokenAt(size[j], Written(j) + 1, t)
  PROVE  SocketInv'
<1> USE BackendSocketAssumption
<1> DEFINE d == ConnOf(j)
<1>1. /\ Running(j) /\ d \in open /\ d \in Conn /\ d[1] = j
  BY RunningConn DEF Running
<1>2. /\ UNCHANGED <<size, attempt, starts, killed, open, acks, chansrv, handed, refused>>
      /\ UNCHANGED <<initialized, listening, backlog, stranded, stale, slots, buffer, setups>>
      /\ stream \in [Conn -> Seq(Token)]
      /\ backend \in [Job -> BackendState]
      /\ backend' = [backend EXCEPT ![j] = next]
      /\ stream' = [stream EXCEPT ![d] = Append(@, t)]
      /\ size \in [Job -> Nat]
  BY DEF Write, chansrv, SocketInv, TypeOK, Token
<1>3. \A i \in Job : ConnOf(i)' = ConnOf(i)
  BY <1>2 DEF ConnOf
<1>4. \A c : Alive(c)' <=> Alive(c)
  BY <1>2 DEF Alive
<1>5. \A i \in Job : i # j => backend'[i] = backend[i] /\ Written(i)' = Written(i)
  BY <1>2 DEF Written
<1>6. \A i \in Job : Running(i)' <=> Running(i)
  BY <1>1, <1>2, <1>5 DEF Running
<1>7. \A c \in Conn : c # d => stream'[c] = stream[c]
  BY <1>2
<1>8. stream'[d] = Append(stream[d], t) /\ stream[d] \in Seq(Token) /\ stream'[d] # << >>
  BY <1>1, <1>2
<1>9. d \notin acks
  BY <1>1 DEF SocketInv, AcksAreDue
<1>10. handed[d] = << >>
  BY <1>1, <1>9 DEF SocketInv, HandedOnce
<1>t. TypeOK'
  <2>1. stream' \in [Conn -> Seq(Token)]
    BY <1>1, <1>2
  <2>2. backend' \in [Job -> BackendState]
    BY <1>2 DEF BackendState
  <2> QED BY <2>1, <2>2, <1>2 DEF TypeOK, SocketInv, Token
<1>a. OpenAreRunning'
  BY <1>2, <1>3, <1>6, ConnParts DEF SocketInv, OpenAreRunning, TypeOK
<1>b. ConnsFresh'
  BY <1>2, <1>4 DEF SocketInv, ConnsFresh
<1>c. OnePlace'
  BY <1>2, <1>4, <1>7, <1>1 DEF SocketInv, OnePlace, Write
<1>d. ASSUME NEW c \in Conn, NEW r \in Nat, ContinuesAfter(c, r)
      PROVE  ContinuesAfter(c, r)'
  <2>1. CASE c = d
    <3>1. r + Len(stream[d]) = Written(j) /\ Continues(size[j], r, stream[d])
      BY <2>1, <1>d, <1>1 DEF ContinuesAfter
    <3>2. Continues(size[j], r, stream'[d])
      BY <3>1, <1>8, <1>2, ContinuesAppend
    <3>3. r + Len(stream'[d]) = Written(j)'
      BY <3>1, <1>8
    <3> QED BY <3>2, <3>3, <2>1, <1>1, <1>2 DEF ContinuesAfter
  <2>2. CASE c # d
    <3>1. stream'[c] = stream[c] /\ size' = size /\ open' = open
      BY <2>2, <1>7, <1>2
    <3>2. c \in open => c[1] # j
      BY <2>2 DEF SocketInv, OpenAreRunning
    <3>3. c \in open => Written(c[1])' = Written(c[1])
      BY <3>2, <1>5, ConnParts
    <3> QED BY <3>1, <3>3, <1>d DEF ContinuesAfter
  <2> QED BY <2>1, <2>2
<1>e. StreamsInOrder'
  BY <1>2, <1>d, StreamsKept
<1>f. AcksAreDue'
  <2>1. \A c \in acks : c # d /\ c \in Conn /\ c[1] # j
    BY <1>9, <1>2, ConnParts DEF SocketInv, AcksAreDue, OpenAreRunning, TypeOK
  <2> QED BY <2>1, <1>2, <1>5, <1>7, ConnParts DEF SocketInv, AcksAreDue
<1>g. GoneAreKilled'
  BY <1>1, <1>2, <1>4, <1>7 DEF SocketInv, GoneAreKilled
<1>h. HandedOnce'
  <2> SUFFICES ASSUME NEW c \in Conn, handed[c] # << >>
               PROVE  /\ handed[c] = <<Pieces(size[c[1]])>>
                      /\ stream'[c] = << >>
                      /\ c \in open => c \in acks
                      /\ \/ c \in killed
                         \/ c = ConnOf(c[1]) /\ (c \in open \/ backend'[c[1]] = "done")
    BY <1>2, <1>3, ConnParts DEF HandedOnce
  <2>1. c # d
    BY <1>10
  <2>2. c = ConnOf(c[1]) => c[1] # j
    BY <2>1
  <2> QED BY <2>1, <2>2, <1>5, <1>7, ConnParts DEF SocketInv, HandedOnce
<1>i. DoneMeansAsked'
  <2>1. \A i \in Job : backend'[i] = "done" => backend[i] = "done"
    BY <1>2
  <2> QED BY <2>1, <1>2, <1>3 DEF SocketInv, DoneMeansAsked
<1>j. ListensInSession'
  BY <1>2 DEF SocketInv, ListensInSession
<1> QED BY <1>t, <1>a, <1>b, <1>c, <1>e, <1>f, <1>g, <1>h, <1>i, <1>j DEF SocketInv

\* The end of a backend process: what it leaves, unless it was killed, was read.
LEMMA ExitOK ==
  ASSUME SocketInv, NEW j \in Job, NEW next \in {"done", "queued"},
         Running(j), Exit(j, next),
         killed' = killed \/ killed' = killed \cup {ConnOf(j)},
         ConnOf(j) \in killed' \/ ~Alive(ConnOf(j)) \/ ConnOf(j) \in acks,
         ConnOf(j) \in acks => next = "done" \/ ConnOf(j) \in killed',
         next = "done" => ConnOf(j) \in acks
  PROVE  SocketInv'
<1> USE BackendSocketAssumption
<1> DEFINE d == ConnOf(j)
<1>1. d \in open /\ d \in Conn /\ d[1] = j
  BY RunningConn
<1>2. /\ UNCHANGED <<size, attempt, starts, stream, chansrv, handed, refused>>
      /\ UNCHANGED <<initialized, listening, backlog, stranded, stale, slots, buffer, setups>>
      /\ open' = open \ {d} /\ acks' = acks \ {d}
      /\ backend \in [Job -> BackendState]
      /\ backend' = [backend EXCEPT ![j] = next]
      /\ left' = [left EXCEPT ![j] = 0]
      /\ size \in [Job -> Nat] /\ stream \in [Conn -> Seq(Token)]
      /\ killed' \subseteq killed \cup {d} /\ killed \subseteq killed'
  BY DEF Exit, chansrv, SocketInv, TypeOK, Token
<1>3. \A i \in Job : ConnOf(i)' = ConnOf(i)
  BY <1>2 DEF ConnOf
<1>4. \A c : Alive(c)' <=> Alive(c)
  BY <1>2 DEF Alive
<1>5. \A i \in Job : i # j => /\ backend'[i] = backend[i] /\ left'[i] = left[i]
                              /\ Written(i)' = Written(i)
  BY <1>2 DEF Written
<1>6. \A i \in Job : Running(i)' <=> Running(i) /\ i # j
  BY <1>1, <1>2, <1>5 DEF Running
<1>7. backend'[j] = next
  BY <1>2
<1>8. \A c \in open : c # d => c \in Conn /\ c[1] # j
  BY <1>1 DEF SocketInv, OpenAreRunning, TypeOK
<1>9. d \in acks => stream[d] = << >> /\ (size[j] > 0 => handed[d] # << >> \/ d \in refused)
  BY <1>1 DEF SocketInv, AcksAreDue
<1>10. handed[d] # << >> => d \in acks
  BY <1>1 DEF SocketInv, HandedOnce
<1>t. TypeOK'
  BY <1>1, <1>2, <1>7 DEF TypeOK, SocketInv, BackendState
<1>k. BackendsInOrder'
  <2>1. attempt[j] > 0
    BY <1>1, ConnParts DEF ConnOf, SocketInv, TypeOK
  <2> QED BY <2>1, <1>2, <1>5, <1>7 DEF SocketInv, BackendsInOrder
<1>a. OpenAreRunning'
  <2>1. ASSUME NEW i \in Job, Running(i)' PROVE ConnOf(i)' \in open'
    <3>1. Running(i) /\ i # j
      BY <2>1, <1>6
    <3> QED BY <3>1, RunningConn, <1>1, <1>2, <1>3
  <2>2. ASSUME NEW c \in open' PROVE Running(c[1])' /\ c = ConnOf(c[1])'
    <3>1. c \in open /\ c \in Conn /\ c[1] \in Job /\ c[1] # j
      BY <1>2, <1>8, ConnParts
    <3> QED BY <3>1, <1>3, <1>6 DEF SocketInv, OpenAreRunning
  <2> QED BY <2>1, <2>2 DEF OpenAreRunning
<1>b. ConnsFresh'
  <2>1. d[2] = attempt[j]
    BY DEF ConnOf
  <2>2. \A c \in Conn : c[2] > attempt[c[1]] => c # d
    BY <2>1, <1>1 DEF SocketInv, TypeOK
  <2> QED BY <2>2, <1>2, <1>4 DEF SocketInv, ConnsFresh
<1>c. OnePlace'
  BY <1>2, <1>4 DEF SocketInv, OnePlace
<1>d. ASSUME NEW c \in Conn, NEW r \in Nat, ContinuesAfter(c, r)
      PROVE  ContinuesAfter(c, r)'
  <2>1. c \in open' => c \in open /\ Written(c[1])' = Written(c[1])
    BY <1>2, <1>5, <1>8, ConnParts
  <2> QED BY <2>1, <1>2, <1>d DEF ContinuesAfter
<1>e. StreamsInOrder'
  BY <1>2, <1>d, StreamsKept DEF SocketInv
<1>f. AcksAreDue'
  <2>1. \A c \in acks' : c \in acks /\ c \in open /\ c # d /\ c \in Conn /\ c[1] # j
    BY <1>2, <1>8 DEF SocketInv, AcksAreDue
  <2> QED BY <2>1, <1>2, <1>5, ConnParts DEF SocketInv, AcksAreDue
<1>g. GoneAreKilled'
  <2> SUFFICES ASSUME NEW c \in Conn, Alive(c), c \notin open'
               PROVE  c \in killed' \/ stream[c] = << >>
    BY <1>2, <1>4 DEF GoneAreKilled
  <2>1. CASE c = d
    BY <2>1, <1>9
  <2>2. CASE c # d
    BY <2>2, <1>2 DEF SocketInv, GoneAreKilled
  <2> QED BY <2>1, <2>2
<1>h. HandedOnce'
  <2> SUFFICES ASSUME NEW c \in Conn, handed[c] # << >>
               PROVE  /\ handed[c] = <<Pieces(size[c[1]])>>
                      /\ stream[c] = << >>
                      /\ c \in open' => c \in acks'
                      /\ \/ c \in killed'
                         \/ c = ConnOf(c[1]) /\ (c \in open' \/ backend'[c[1]] = "done")
    BY <1>2, <1>3, ConnParts DEF HandedOnce
  <2>1. /\ handed[c] = <<Pieces(size[c[1]])>>
        /\ stream[c] = << >>
        /\ c \in open => c \in acks
        /\ c \in killed \/ (c = ConnOf(c[1]) /\ (c \in open \/ backend[c[1]] = "done"))
    BY DEF SocketInv, HandedOnce
  <2>2. CASE c = d
    BY <2>1, <2>2, <1>1, <1>2, <1>7, <1>10
  <2>3. CASE c # d
    <3>1. c = ConnOf(c[1]) => c[1] # j
      BY <2>3
    <3> QED BY <2>1, <2>3, <3>1, <1>2, <1>5, ConnParts
  <2> QED BY <2>2, <2>3
<1>i. DoneMeansAsked'
  <2> SUFFICES ASSUME NEW i \in Job, backend'[i] = "done", size[i] > 0
               PROVE  handed[ConnOf(i)] # << >> \/ ConnOf(i) \in refused
    BY <1>2, <1>3 DEF DoneMeansAsked
  <2>1. CASE i = j
    BY <2>1, <1>7, <1>9
  <2>2. CASE i # j
    BY <2>2, <1>5 DEF SocketInv, DoneMeansAsked
  <2> QED BY <2>1, <2>2
<1>j. ListensInSession'
  BY <1>2 DEF SocketInv, ListensInSession
<1> QED BY <1>t, <1>k, <1>a, <1>b, <1>c, <1>e, <1>f, <1>g, <1>h, <1>i, <1>j DEF SocketInv

\* Connections that chansrv gives up, with what is under way on them.
LEMMA DropOK ==
  ASSUME SocketInv, NEW D \in SUBSET Conn,
         UNCHANGED <<cups, acks, stranded, handed, refused>>,
         Discard(D),
         initialized' \in BOOLEAN, listening' \in BOOLEAN, stale' \in BOOLEAN, setups' \in 0..MaxSetups,
         listening' => initialized',
         backlog' = backlog \ D,
         slots' \in [Slot -> Conn \cup {None}],
         \A s \in Slot : slots'[s] = IF slots[s] \in D THEN None ELSE slots[s],
         buffer' \in [Slot -> Seq(1..MaxPieces)],
         \A s \in Slot : Len(buffer'[s]) <= MaxBuffer,
         \A s \in Slot : slots[s] \notin D \cup {None} => buffer'[s] = buffer[s],
         D \cap stranded = {}
  PROVE  SocketInv'
<1> USE BackendSocketAssumption
<1>1. /\ UNCHANGED <<size, backend, attempt, starts, left, killed, open>>
      /\ UNCHANGED <<acks, stranded, handed, refused>>
      /\ stream' = [c \in Conn |-> IF c \in D THEN << >> ELSE stream[c]]
      /\ stream \in [Conn -> Seq(Token)] /\ slots \in [Slot -> Conn \cup {None}]
      /\ size \in [Job -> Nat]
  BY DEF cups, Discard, SocketInv, TypeOK, Token
<1>2. \A i \in Job : ConnOf(i)' = ConnOf(i) /\ (Running(i)' <=> Running(i))
                     /\ Written(i)' = Written(i)
  BY <1>1 DEF ConnOf, Running, Written
<1>3. \A c \in Conn : Alive(c)' <=> Alive(c) /\ c \notin D
  <2> SUFFICES ASSUME NEW c \in Conn PROVE Alive(c)' <=> Alive(c) /\ c \notin D
    OBVIOUS
  <2>1. c \in Range(slots) <=> \E s \in Slot : slots[s] = c
    BY <1>1, RangeOfSlots
  <2>2. c \in Range(slots') <=> \E s \in Slot : slots'[s] = c
    BY RangeOfSlots
  <2>3. \A s \in Slot : slots'[s] = c <=> slots[s] = c /\ c \notin D
    OBVIOUS
  <2> QED BY <2>1, <2>2, <2>3, <1>1 DEF Alive
<1>4. \A c \in Conn : stream'[c] = stream[c] \/ stream'[c] = << >>
  BY <1>1
<1>t. TypeOK'
  <2>1. stream' \in [Conn -> Seq(Token)]
    BY <1>1
  <2> QED BY <2>1, <1>1 DEF TypeOK, SocketInv, Token
<1>k. BackendsInOrder' /\ OpenAreRunning' /\ DoneMeansAsked'
  BY <1>1, <1>2, ConnParts DEF SocketInv, TypeOK, BackendsInOrder, OpenAreRunning, DoneMeansAsked
<1>b. ConnsFresh'
  BY <1>1, <1>3 DEF SocketInv, ConnsFresh
<1>c. OnePlace'
  <2>1. \A s, t \in Slot : slots'[s] = slots'[t] /\ slots'[s] # None => s = t
    BY DEF SocketInv, OnePlace
  <2>2. \A s \in Slot : slots'[s] \notin backlog' \cup stranded'
    BY <1>1 DEF SocketInv, OnePlace, TypeOK
  <2>3. \A c \in Conn : ~Alive(c)' => stream'[c] = << >>
    BY <1>1, <1>3 DEF SocketInv, OnePlace
  <2> QED BY <2>1, <2>2, <2>3, <1>1 DEF SocketInv, OnePlace
<1>d. ASSUME NEW c \in Conn, NEW r \in Nat, ContinuesAfter(c, r), c \notin D
      PROVE  ContinuesAfter(c, r)'
  <2>1. stream'[c] = stream[c] /\ Written(c[1])' = Written(c[1])
    BY <1>d, <1>1, <1>2, ConnParts
  <2> QED BY <2>1, <1>1, <1>d DEF ContinuesAfter
<1>e. StreamsInOrder'
  <2>1. \A c \in backlog' \cup stranded' : ContinuesAfter(c, 0)'
    BY <1>d, <1>1 DEF SocketInv, StreamsInOrder, TypeOK
  <2>2. ASSUME NEW s \in Slot, slots'[s] # None
        PROVE  /\ buffer'[s] = Pieces(Len(buffer'[s]))
               /\ \E r \in HasRead(s)' : ContinuesAfter(slots[s], r)'
    <3>1. slots[s] \notin D /\ slots'[s] = slots[s] /\ buffer'[s] = buffer[s] /\ slots[s] # None
      BY <2>2
    <3>2. PICK r \in HasRead(s) : ContinuesAfter(slots[s], r)
      BY <3>1 DEF SocketInv, StreamsInOrder
    <3>3. r \in Nat
      BY <3>1, <3>2, HasReadNat DEF SocketInv
    <3>4. HasRead(s)' = HasRead(s)
      BY <3>1, <1>1 DEF HasRead
    <3>5. PICK c \in Conn : c = slots[s]
      BY <3>1, <1>1
    <3>6. ContinuesAfter(c, r)'
      BY <3>1, <3>2, <3>3, <3>5, <1>d
    <3>7. buffer[s] = Pieces(Len(buffer[s]))
      BY <3>1 DEF SocketInv, StreamsInOrder
    <3> QED BY <3>1, <3>2, <3>4, <3>5, <3>6, <3>7 DEF ContinuesAfter
  <2>3. \A s \in Slot : slots'[s] # None => slots'[s] = slots[s]
    OBVIOUS
  <2> QED BY <2>1, <2>2, <2>3 DEF StreamsInOrder, ContinuesAfter
<1>f. AcksAreDue'
  BY <1>1, <1>4 DEF SocketInv, AcksAreDue, TypeOK
<1>g. GoneAreKilled'
  BY <1>1, <1>3, <1>4 DEF SocketInv, GoneAreKilled
<1>h. HandedOnce'
  BY <1>1, <1>2, <1>4, ConnParts DEF SocketInv, HandedOnce
<1>j. ListensInSession'
  BY DEF ListensInSession
<1> QED BY <1>t, <1>k, <1>b, <1>c, <1>e, <1>f, <1>g, <1>h, <1>j DEF SocketInv

\* An attempt starts on a connection that has left no trace.
LEMMA ConnectOK ==
  ASSUME SocketInv, NEW j \in Job, Connect(j)
  PROVE  SocketInv'
<1> USE BackendSocketAssumption
<1>0. attempt[j] <= starts /\ starts < MaxAttempts /\ attempt[j] \in Nat /\ starts \in Nat
  BY DEF SocketInv, BackendsInOrder, Connect, TypeOK
<1>1. PICK d \in Conn : d = <<j, attempt[j] + 1>>
  <2>1. attempt[j] + 1 \in 1..MaxAttempts
    BY <1>0
  <2> QED BY <2>1 DEF Conn
<1>2. /\ UNCHANGED <<size, killed, stream, acks, initialized, listening, stale,
                     slots, buffer, setups, handed, refused>>
      /\ backend[j] = "queued" /\ starts < MaxAttempts
      /\ attempt' = [attempt EXCEPT ![j] = @ + 1] /\ starts' = starts + 1
      /\ attempt'[j] = attempt[j] + 1
      /\ backend' = [backend EXCEPT ![j] = "start"]
      /\ left' = [left EXCEPT ![j] = size[j]]
      /\ open' = open \cup {d}
      /\ \/ backlog' = backlog \cup {d} /\ stranded' = stranded
         \/ stranded' = stranded \cup {d} /\ backlog' = backlog
      /\ size \in [Job -> 0..MaxPieces] /\ left \in [Job -> 0..MaxPieces]
      /\ attempt \in [Job -> 0..MaxAttempts] /\ starts \in 0..MaxAttempts
      /\ backend \in [Job -> BackendState]
  BY <1>1 DEF Connect, SocketInv, TypeOK
<1>3. d[1] = j /\ d[2] = attempt[j] + 1 /\ d = ConnOf(j)'
  BY <1>1, <1>2 DEF ConnOf
<1>4. ~Alive(d) /\ d \notin killed /\ handed[d] = << >> /\ stream[d] = << >>
  BY <1>3, <1>2 DEF SocketInv, ConnsFresh, OnePlace
<1>5. \A i \in Job : i # j => /\ ConnOf(i)' = ConnOf(i) /\ backend'[i] = backend[i]
                              /\ left'[i] = left[i] /\ Written(i)' = Written(i)
  BY <1>2 DEF ConnOf, Written
<1>6. \A i \in Job : Running(i)' <=> Running(i) \/ i = j
  BY <1>2, <1>5 DEF Running
<1>7. \A c : Alive(c)' <=> Alive(c) \/ c = d
  BY <1>2 DEF Alive
<1>8. ~Running(j)
  BY <1>2 DEF Running
<1>9. \A c \in open : c \in Conn /\ c[1] # j /\ c # d
  BY <1>8, <1>3 DEF SocketInv, OpenAreRunning, TypeOK
<1>t. TypeOK'
  <2>1. backend' \in [Job -> BackendState]
    BY <1>2 DEF BackendState
  <2>2. attempt' \in [Job -> 0..MaxAttempts] /\ starts' \in 0..MaxAttempts
    BY <1>2, <1>0
  <2>3. left' \in [Job -> 0..MaxPieces]
    BY <1>2
  <2> QED BY <2>1, <2>2, <2>3, <1>2, <1>3 DEF TypeOK, SocketInv
<1>k. BackendsInOrder'
  <2> SUFFICES ASSUME NEW i \in Job
               PROVE  /\ attempt'[i] <= starts'
                      /\ backend'[i] = "start" => left'[i] = size[i]
                      /\ backend'[i] = "data" => left'[i] <= size[i]
                      /\ backend'[i] = "payload" => left'[i] \in 1..size[i]
                      /\ backend'[i] = "done" => attempt'[i] > 0
    BY <1>2 DEF BackendsInOrder
  <2>1. CASE i = j
    BY <2>1, <1>2, <1>0
  <2>2. CASE i # j
    BY <2>2, <1>2, <1>5 DEF SocketInv, BackendsInOrder
  <2> QED BY <2>1, <2>2
<1>a. OpenAreRunning'
  <2>1. ASSUME NEW i \in Job, Running(i)' PROVE ConnOf(i)' \in open'
    BY <2>1, <1>2, <1>3, <1>5, <1>6 DEF SocketInv, OpenAreRunning
  <2>2. ASSUME NEW c \in open' PROVE Running(c[1])' /\ c = ConnOf(c[1])'
    <3>1. CASE c = d
      BY <3>1, <1>3, <1>6
    <3>2. CASE c \in open
      BY <3>2, <1>5, <1>6, <1>9, ConnParts DEF SocketInv, OpenAreRunning
    <3> QED BY <3>1, <3>2, <1>2
  <2> QED BY <2>1, <2>2 DEF OpenAreRunning
<1>b. ConnsFresh'
  <2> SUFFICES ASSUME NEW c \in Conn, c[2] > attempt'[c[1]]
               PROVE  c # d /\ c[2] > attempt[c[1]]
    BY <1>2, <1>7 DEF SocketInv, ConnsFresh
  <2> QED BY <1>2, <1>0, <1>3, ConnParts
<1>c. OnePlace'
  <2>1. d \notin backlog \cup stranded /\ \A s \in Slot : slots[s] # d
    BY <1>4, RangeOfSlots DEF Alive, SocketInv, TypeOK
  <2> QED BY <2>1, <1>2, <1>7 DEF SocketInv, OnePlace
<1>d. ASSUME NEW c \in Conn, NEW r \in Nat, ContinuesAfter(c, r), c # d
      PROVE  ContinuesAfter(c, r)'
  <2>1. c \in open' => c \in open /\ Written(c[1])' = Written(c[1])
    BY <1>d, <1>2, <1>5, <1>9, ConnParts
  <2> QED BY <2>1, <1>2, <1>d DEF ContinuesAfter
<1>e. StreamsInOrder'
  <2>1. ContinuesAfter(d, 0)'
    <3>1. Continues(size[d[1]], 0, stream[d])
      BY <1>2, <1>3, <1>4 DEF Continues
    <3>2. Written(j)' = 0
      BY <1>2 DEF Written
    <3> QED BY <3>1, <3>2, <1>2, <1>3, <1>4 DEF ContinuesAfter
  <2>2. \A c \in backlog \cup stranded : ContinuesAfter(c, 0)'
    BY <2>1, <1>d DEF SocketInv, StreamsInOrder, TypeOK
  <2>3. ASSUME NEW s \in Slot, slots[s] # None
        PROVE  \E r \in HasRead(s)' : ContinuesAfter(slots[s], r)'
    <3>1. PICK c \in Conn : c = slots[s]
      BY <2>3 DEF SocketInv, TypeOK
    <3>2. PICK r \in HasRead(s) : ContinuesAfter(c, r)
      BY <2>3, <3>1 DEF SocketInv, StreamsInOrder
    <3>3. r \in Nat /\ r \in HasRead(s)'
      BY <2>3, <1>2, HasReadNat DEF SocketInv, HasRead
    <3>4. c # d
      BY <3>1, <1>4, RangeOfSlots DEF Alive, SocketInv, TypeOK
    <3>5. ContinuesAfter(c, r)'
      BY <3>2, <3>3, <3>4, <1>d
    <3> QED BY <3>1, <3>3, <3>5, <1>2 DEF ContinuesAfter
  <2> QED BY <2>1, <2>2, <2>3, <1>2 DEF SocketInv, StreamsInOrder
<1>f. AcksAreDue'
  BY <1>2, <1>5, <1>9, ConnParts DEF SocketInv, AcksAreDue
<1>g. GoneAreKilled'
  BY <1>2, <1>7 DEF SocketInv, GoneAreKilled
<1>h. HandedOnce'
  <2> SUFFICES ASSUME NEW c \in Conn, handed[c] # << >>
               PROVE  /\ handed[c] = <<Pieces(size[c[1]])>>
                      /\ stream[c] = << >>
                      /\ c \in open' => c \in acks
                      /\ \/ c \in killed
                         \/ /\ c = ConnOf(c[1])'
                            /\ c \in open' \/ backend'[c[1]] = "done"
    BY <1>2 DEF HandedOnce
  <2>1. /\ handed[c] = <<Pieces(size[c[1]])>>
        /\ stream[c] = << >>
        /\ c \in open => c \in acks
        /\ c \in killed \/ (c = ConnOf(c[1]) /\ (c \in open \/ backend[c[1]] = "done"))
    BY DEF SocketInv, HandedOnce
  <2>2. c # d
    BY <1>4
  <2>3. c[1] = j => c \in killed
    BY <2>1, <1>2, <1>9
  <2> QED BY <2>1, <2>2, <2>3, <1>2, <1>5, ConnParts
<1>i. DoneMeansAsked'
  <2>1. \A i \in Job : backend'[i] = "done" => i # j /\ backend[i] = "done"
    BY <1>2
  <2> QED BY <2>1, <1>2, <1>5 DEF SocketInv, DoneMeansAsked
<1>j. ListensInSession'
  BY <1>2 DEF SocketInv, ListensInSession
<1> QED BY <1>t, <1>k, <1>a, <1>b, <1>c, <1>e, <1>f, <1>g, <1>h, <1>i, <1>j DEF SocketInv

\* Steps of chansrv that neither read nor close a connection.
LEMMA ServerOK ==
  ASSUME SocketInv,
         UNCHANGED <<cups, stream, acks, handed, refused>>,
         initialized' \in BOOLEAN, listening' \in BOOLEAN, stale' \in BOOLEAN, setups' \in 0..MaxSetups,
         listening' => initialized',
         slots' \in [Slot -> Conn \cup {None}],
         buffer' \in [Slot -> Seq(1..MaxPieces)],
         \A s \in Slot : Len(buffer'[s]) <= MaxBuffer,
         OnePlace', StreamsInOrder',
         backlog' \cup stranded' \subseteq Conn,
         \A c \in Conn : Alive(c)' <=> Alive(c)
  PROVE  SocketInv'
<1> USE BackendSocketAssumption
<1>1. /\ UNCHANGED <<size, backend, attempt, starts, left, killed, open>>
      /\ UNCHANGED <<stream, acks, handed, refused>>
  BY DEF cups
<1>2. TypeOK'
  BY <1>1 DEF TypeOK, SocketInv
<1>3. BackendsInOrder' /\ OpenAreRunning' /\ DoneMeansAsked' /\ AcksAreDue' /\ HandedOnce'
  BY <1>1 DEF SocketInv, BackendsInOrder, OpenAreRunning, DoneMeansAsked, Running, ConnOf,
              AcksAreDue, HandedOnce
<1>4. ConnsFresh' /\ GoneAreKilled'
  BY <1>1 DEF SocketInv, ConnsFresh, GoneAreKilled
<1> QED BY <1>2, <1>3, <1>4 DEF SocketInv, ListensInSession

LEMMA AcceptOK ==
  ASSUME SocketInv, Accept
  PROVE  SocketInv'
<1> USE BackendSocketAssumption
<1>1. PICK c \in backlog : Accept!2!(c)
  BY DEF Accept
<1>2. /\ listening /\ c \in Conn /\ backlog' = backlog \ {c}
      /\ UNCHANGED <<cups, acks, initialized, listening, stranded, stale, setups, handed, refused>>
      /\ c \notin stranded /\ \A s \in Slot : slots[s] # c
      /\ slots \in [Slot -> Conn \cup {None}] /\ buffer \in [Slot -> Seq(1..MaxPieces)]
      /\ initialized \in BOOLEAN /\ listening \in BOOLEAN /\ setups \in 0..MaxSetups
      /\ stale \in BOOLEAN /\ (listening => initialized)
      /\ \A s \in Slot : Len(buffer[s]) <= MaxBuffer
  BY <1>1 DEF Accept, SocketInv, OnePlace, TypeOK, ListensInSession
<1>3. CASE FreeSlots = {}
  <2>1. Discard({c}) /\ UNCHANGED <<slots, buffer>>
    BY <1>1, <1>3
  <2> QED BY <2>1, <1>2, DropOK
<1>4. CASE FreeSlots # {}
  <2>1. PICK s \in FreeSlots : /\ slots' = [slots EXCEPT ![s] = c]
                               /\ buffer' = [buffer EXCEPT ![s] = << >>]
                               /\ UNCHANGED stream
    BY <1>1, <1>4
  <2>2. s \in Slot /\ slots[s] = None /\ slots'[s] = c /\ buffer'[s] = << >>
    BY <2>1, <1>2 DEF FreeSlots
  <2>3. slots' \in [Slot -> Conn \cup {None}] /\ buffer' \in [Slot -> Seq(1..MaxPieces)]
    BY <2>1, <2>2, <1>2
  <2>4. \A t \in Slot : Len(buffer'[t]) <= MaxBuffer
    BY <2>1, <2>2, <1>2
  <2>5. \A t \in Slot : t # s => slots'[t] = slots[t] /\ buffer'[t] = buffer[t]
    BY <2>1, <1>2
  <2>6. \A d \in Conn : Alive(d)' <=> Alive(d)
    <3> SUFFICES ASSUME NEW d \in Conn PROVE Alive(d)' <=> Alive(d)
      OBVIOUS
    <3>1. d \in Range(slots) <=> \E t \in Slot : slots[t] = d
      BY <1>2, RangeOfSlots
    <3>2. d \in Range(slots') <=> \E t \in Slot : slots'[t] = d
      BY <2>3, RangeOfSlots
    <3>3. (\E t \in Slot : slots'[t] = d) <=> d = c \/ \E t \in Slot : slots[t] = d
      BY <2>2, <2>5
    <3> QED BY <3>1, <3>2, <3>3, <1>2 DEF Alive
  <2>7. OnePlace'
    <3>1. \A t, u \in Slot : slots'[t] = slots'[u] /\ slots'[t] # None => t = u
      BY <2>2, <2>5, <1>2 DEF SocketInv, OnePlace
    <3>2. \A t \in Slot : slots'[t] \notin backlog' \cup stranded'
      BY <2>2, <2>5, <1>2 DEF SocketInv, OnePlace
    <3> QED BY <3>1, <3>2, <2>1, <2>6, <1>2 DEF SocketInv, OnePlace
  <2>8. /\ UNCHANGED <<size, backend, left, open, stream, stranded>>
    BY <2>1, <1>2 DEF cups
  <2>9. \A d \in Conn : \A r \in Nat : ContinuesAfter(d, r) => ContinuesAfter(d, r)'
    BY <2>8 DEF ContinuesAfter, Written
  <2>10. StreamsInOrder'
    <3>1. \A d \in backlog' \cup stranded' : ContinuesAfter(d, 0)'
      BY <2>9, <1>2 DEF SocketInv, StreamsInOrder, TypeOK
    <3>2. ASSUME NEW t \in Slot, slots'[t] # None
          PROVE  buffer'[t] = Pieces(Len(buffer'[t]))
                 /\ \E r \in HasRead(t)' : ContinuesAfter(slots[t], r)'
      <4>1. CASE t = s
        <5>1. ContinuesAfter(c, 0)'
          BY <2>9, <1>2 DEF SocketInv, StreamsInOrder
        <5>2. 0 \in HasRead(t)'
          BY <4>1, <2>2 DEF HasRead
        <5>3. Len(<< >>) = 0 /\ << >> = Pieces(0)
          BY DEF Pieces
        <5> QED BY <5>1, <5>2, <5>3, <4>1, <2>2 DEF ContinuesAfter
      <4>2. CASE t # s
        <5>1. slots[t] # None /\ slots'[t] = slots[t] /\ buffer'[t] = buffer[t]
          BY <4>2, <3>2, <2>5
        <5>2. PICK d \in Conn : d = slots[t]
          BY <5>1, <1>2
        <5>3. PICK r \in HasRead(t) : ContinuesAfter(d, r)
          BY <5>1, <5>2 DEF SocketInv, StreamsInOrder
        <5>4. r \in Nat /\ r \in HasRead(t)'
          BY <5>1, <2>8, HasReadNat DEF SocketInv, HasRead
        <5>5. ContinuesAfter(d, r)'
          BY <5>3, <5>4, <2>9
        <5>6. buffer[t] = Pieces(Len(buffer[t]))
          BY <5>1 DEF SocketInv, StreamsInOrder
        <5> QED BY <5>1, <5>2, <5>4, <5>5, <5>6 DEF ContinuesAfter
      <4> QED BY <4>1, <4>2
    <3> QED BY <3>1, <3>2 DEF StreamsInOrder
  <2> QED BY <2>1, <2>3, <2>4, <2>6, <2>7, <2>10, <1>2, ServerOK DEF SocketInv, TypeOK
<1> QED BY <1>3, <1>4

LEMMA AcceptFailsOK ==
  ASSUME SocketInv, AcceptFails
  PROVE  SocketInv'
<1>1. backlog \subseteq Conn /\ \A s \in Slot : slots[s] \notin backlog
  BY DEF SocketInv, TypeOK, OnePlace
<1> QED BY <1>1, DropOK DEF AcceptFails, SocketInv, TypeOK, OnePlace, ListensInSession

LEMMA CleanupOK ==
  ASSUME SocketInv, Cleanup
  PROVE  SocketInv'
<1> USE BackendSocketAssumption
<1> DEFINE D == backlog \cup (Range(slots) \cap Conn)
<1>1. slots \in [Slot -> Conn \cup {None}]
  BY DEF SocketInv, TypeOK
<1>2. \A s \in Slot : slots[s] \in D \cup {None}
  BY <1>1, RangeOfSlots
<1>3. D \in SUBSET Conn /\ D \cap stranded = {}
  <2>1. backlog \subseteq Conn /\ backlog \cap stranded = {}
    BY DEF SocketInv, TypeOK, OnePlace
  <2>2. \A c \in Range(slots) : c \notin stranded
    BY <1>1, RangeOfSlots DEF SocketInv, OnePlace
  <2> QED BY <2>1, <2>2
<1>4. Discard(D)
  BY DEF Cleanup, Discard
<1>5. buffer' \in [Slot -> Seq(1..MaxPieces)] /\ slots' \in [Slot -> Conn \cup {None}]
  BY DEF Cleanup
<1>6. \A s \in Slot : Len(buffer'[s]) <= MaxBuffer
  BY DEF Cleanup
<1>7. \A s \in Slot : slots'[s] = None
  BY DEF Cleanup
<1> HIDE DEF D
<1>8. backlog' = backlog \ D
  BY DEF Cleanup, D
<1> QED BY <1>2, <1>3, <1>4, <1>5, <1>6, <1>7, <1>8, DropOK DEF Cleanup, SocketInv, TypeOK

LEMMA CloseOK ==
  ASSUME SocketInv, NEW s \in Slot, slots[s] # None, Close(s),
         UNCHANGED <<cups, acks, initialized, listening, backlog, stranded, stale, setups,
                     handed, refused>>
  PROVE  SocketInv'
<1> USE BackendSocketAssumption
<1>1. slots \in [Slot -> Conn \cup {None}] /\ buffer \in [Slot -> Seq(1..MaxPieces)]
  BY DEF SocketInv, TypeOK
<1>2. PICK c \in Conn : c = slots[s]
  BY <1>1
<1>3. c \notin backlog \cup stranded /\ \A t \in Slot : slots[t] = c <=> t = s
  BY <1>2 DEF SocketInv, OnePlace
<1>4. /\ slots' = [slots EXCEPT ![s] = None] /\ buffer' = [buffer EXCEPT ![s] = << >>]
      /\ Discard({c})
  BY <1>2 DEF Close
<1>5. \A t \in Slot : slots'[t] = IF slots[t] \in {c} THEN None ELSE slots[t]
  BY <1>1, <1>3, <1>4
<1>6. slots' \in [Slot -> Conn \cup {None}] /\ buffer' \in [Slot -> Seq(1..MaxPieces)]
  BY <1>1, <1>4
<1>7. \A t \in Slot : slots[t] \notin {c} \cup {None} => buffer'[t] = buffer[t]
  BY <1>1, <1>2, <1>4
<1>8. \A t \in Slot : Len(buffer'[t]) <= MaxBuffer
  BY <1>1, <1>4 DEF SocketInv, TypeOK
<1>9. backlog' = backlog \ {c} /\ {c} \in SUBSET Conn /\ {c} \cap stranded = {}
  BY <1>3
<1>10. /\ initialized' \in BOOLEAN /\ listening' \in BOOLEAN /\ stale' \in BOOLEAN
       /\ setups' \in 0..MaxSetups /\ (listening' => initialized')
  BY DEF SocketInv, TypeOK, ListensInSession
<1> QED BY <1>4, <1>5, <1>6, <1>7, <1>8, <1>9, <1>10, DropOK

\* What a step of chansrv that reads from the connection of slot s leaves: q in
\* the stream, which begins after the r-th token of the job, and b in the buffer.
LEMMA ReadKeeps ==
  ASSUME SocketInv, NEW s \in Slot, NEW c \in Conn, slots[s] = c,
         NEW q \in Seq(Token), NEW b \in Seq(1..MaxPieces), NEW r \in Nat, NEW r0 \in Nat,
         UNCHANGED <<cups, initialized, listening, backlog, stranded, stale, slots, setups>>,
         stream[c] # << >>,
         stream' = [stream EXCEPT ![c] = q], buffer' = [buffer EXCEPT ![s] = b],
         ContinuesAfter(c, r0), Continues(size[c[1]], r, q),
         r + Len(q) = r0 + Len(stream[c]),
         b = Pieces(Len(b)), Len(b) <= MaxBuffer,
         r = 2 * Len(b) + 1 \/ (b = << >> /\ r = 2 * size[c[1]] + 2),
         acks' \subseteq Conn, refused' \subseteq Conn,
         handed' \in [Conn -> Seq(Seq(1..MaxPieces))]
  PROVE  /\ TypeOK' /\ BackendsInOrder' /\ OpenAreRunning' /\ OnePlace'
         /\ StreamsInOrder' /\ GoneAreKilled' /\ ListensInSession'
<1> USE BackendSocketAssumption
<1>1. /\ UNCHANGED <<size, backend, attempt, starts, left, killed, open>>
      /\ UNCHANGED <<initialized, listening, backlog, stranded, stale, slots, setups>>
      /\ stream \in [Conn -> Seq(Token)] /\ buffer \in [Slot -> Seq(1..MaxPieces)]
      /\ c # None /\ slots \in [Slot -> Conn \cup {None}]
  BY DEF cups, SocketInv, TypeOK, Token
<1>2. /\ \A d : Alive(d)' <=> Alive(d)
      /\ \A j \in Job : (Running(j)' <=> Running(j)) /\ ConnOf(j)' = ConnOf(j)
      /\ \A j \in Job : Written(j)' = Written(j)
  BY <1>1 DEF Alive, Running, ConnOf, Written
<1>3. stream'[c] = q /\ \A d \in Conn : d # c => stream'[d] = stream[d]
  BY <1>1
<1>4. buffer'[s] = b /\ \A t \in Slot : t # s => buffer'[t] = buffer[t]
  BY <1>1
<1>5. \A t \in Slot : t # s => slots[t] # c
  BY <1>1 DEF SocketInv, OnePlace
<1>6. c \notin backlog \cup stranded
  BY DEF SocketInv, OnePlace
<1>7. TypeOK'
  <2>1. stream' \in [Conn -> Seq(Token)] /\ buffer' \in [Slot -> Seq(1..MaxPieces)]
    BY <1>1
  <2>2. \A t \in Slot : Len(buffer'[t]) <= MaxBuffer
    BY <1>4 DEF SocketInv, TypeOK
  <2> QED BY <2>1, <2>2, <1>1 DEF TypeOK, SocketInv, Token
<1>8. BackendsInOrder' /\ OpenAreRunning' /\ ListensInSession'
  <2>1. BackendsInOrder' /\ ListensInSession'
    BY <1>1 DEF SocketInv, BackendsInOrder, ListensInSession
  <2>2. OpenAreRunning'
    <3>1. \A d \in open : d[1] \in Job
      BY ConnParts DEF SocketInv, TypeOK
    <3> QED BY <3>1, <1>1, <1>2 DEF SocketInv, OpenAreRunning
  <2> QED BY <2>1, <2>2
<1>9. OnePlace'
  <2>1. Alive(c)
    BY <1>1, RangeOfSlots DEF Alive
  <2> QED BY <2>1, <1>1, <1>2, <1>3 DEF SocketInv, OnePlace
<1>10. GoneAreKilled'
  BY <1>1, <1>2, <1>3 DEF SocketInv, GoneAreKilled
<1>11. ASSUME NEW d \in Conn, NEW k \in Nat, d # c, ContinuesAfter(d, k)
       PROVE  ContinuesAfter(d, k)'
  BY <1>11, <1>1, <1>2, <1>3, ConnParts DEF ContinuesAfter
<1>12. ContinuesAfter(c, r)'
  <2>1. c \in open => r + Len(q) = Written(c[1])
    BY DEF ContinuesAfter
  <2> QED BY <2>1, <1>1, <1>2, <1>3, ConnParts DEF ContinuesAfter
<1>13. StreamsInOrder'
  <2>1. \A d \in backlog \cup stranded : ContinuesAfter(d, 0)'
    BY <1>6, <1>11 DEF SocketInv, StreamsInOrder, TypeOK
  <2>2. ASSUME NEW t \in Slot, slots[t] # None
        PROVE  buffer'[t] = Pieces(Len(buffer'[t]))
               /\ \E k \in HasRead(t)' : ContinuesAfter(slots[t], k)'
    <3>1. CASE t = s
      <4>1. r \in HasRead(t)'
        BY <3>1, <1>1, <1>4 DEF HasRead
      <4> QED BY <4>1, <3>1, <1>1, <1>4, <1>12 DEF ContinuesAfter
    <3>2. CASE t # s
      <4>1. PICK d \in Conn : d = slots[t] /\ d # c
        BY <2>2, <3>2, <1>1, <1>5
      <4>2. PICK k \in HasRead(t) : ContinuesAfter(d, k)
        BY <2>2, <4>1 DEF SocketInv, StreamsInOrder
      <4>3. k \in Nat /\ k \in HasRead(t)'
        BY <2>2, <3>2, <1>1, <1>4, HasReadNat DEF SocketInv, HasRead
      <4>4. ContinuesAfter(d, k)'
        BY <4>1, <4>2, <4>3, <1>11
      <4>5. buffer[t] = Pieces(Len(buffer[t]))
        BY <2>2 DEF SocketInv, StreamsInOrder
      <4> QED BY <3>2, <4>1, <4>3, <4>4, <4>5, <1>1, <1>4 DEF ContinuesAfter
    <3> QED BY <3>1, <3>2
  <2> QED BY <2>1, <2>2, <1>1 DEF StreamsInOrder
<1> QED BY <1>7, <1>8, <1>9, <1>10, <1>13

\* The rest of the invariant when nothing is handed on or acknowledged.
LEMMA ReadOK ==
  ASSUME SocketInv, NEW c \in Conn,
         TypeOK', BackendsInOrder', OpenAreRunning', OnePlace', StreamsInOrder',
         GoneAreKilled', ListensInSession',
         UNCHANGED <<cups, backlog, stranded, slots, acks, handed, refused>>,
         stream[c] # << >>, \A d \in Conn : d # c => stream'[d] = stream[d]
  PROVE  SocketInv'
<1>1. /\ UNCHANGED <<size, backend, attempt, starts, left, killed, open>>
      /\ UNCHANGED <<backlog, stranded, slots, acks, handed, refused>>
      /\ acks \subseteq Conn
  BY DEF cups, SocketInv, TypeOK
<1>2. ConnsFresh' /\ DoneMeansAsked'
  BY <1>1 DEF SocketInv, ConnsFresh, DoneMeansAsked, Alive, ConnOf
<1>3. AcksAreDue'
  BY <1>1 DEF SocketInv, AcksAreDue
<1>4. HandedOnce'
  BY <1>1 DEF SocketInv, HandedOnce, ConnOf
<1> QED BY <1>2, <1>3, <1>4 DEF SocketInv

\* What there is to read in a slot: the next token of the job.
LEMMA ReadableConn ==
  ASSUME SocketInv, NEW s \in Slot, NEW t, t # "EOF", Readable(s, t)
  PROVE  \E c \in Conn, r \in Nat, n \in 0..MaxPieces, q \in Seq(Token) :
            /\ slots[s] = c /\ slots[s] # None
            /\ n = size[c[1]] /\ q = stream[c] /\ q # << >> /\ Head(q)[1] = t
            /\ r = 2 * Len(buffer[s]) + 1 \/ r = 0 \/ (r = 2 * n + 2 /\ buffer[s] = << >>)
            /\ ContinuesAfter(c, r)
            /\ r + Len(q) <= 2 * n + 2
            /\ TokenAt(n, r + 1, Head(q)) /\ Continues(n, r + 1, Tail(q))
<1>1. slots[s] # None
  BY DEF Readable
<1>2. PICK c \in Conn : c = slots[s]
  BY <1>1 DEF SocketInv, TypeOK
<1>3. PICK r \in HasRead(s) : ContinuesAfter(c, r)
  BY <1>1, <1>2 DEF SocketInv, StreamsInOrder
<1>4. r \in Nat
  BY <1>1, HasReadNat DEF SocketInv
<1>5. PICK q \in Seq(Token) : q = stream[c]
  BY DEF SocketInv, TypeOK, Token
<1>6. PICK n \in 0..MaxPieces : n = size[c[1]]
  BY ConnParts DEF SocketInv, TypeOK
<1>7. q # << >> /\ Head(q)[1] = t
  BY <1>2, <1>5 DEF Readable
<1>8. r = 2 * Len(buffer[s]) + 1 \/ r = 0 \/ (r = 2 * n + 2 /\ buffer[s] = << >>)
  BY <1>2, <1>6 DEF HasRead
<1>9. Continues(n, r, q) /\ n \in Nat
  BY <1>3, <1>5, <1>6, BackendSocketAssumption DEF ContinuesAfter
<1>10. TokenAt(n, r + 1, Head(q)) /\ Continues(n, r + 1, Tail(q)) /\ r + Len(q) <= 2 * n + 2
  <2>1. TokenAt(n, r + 1, Head(q)) /\ Continues(n, r + 1, Tail(q))
    BY <1>4, <1>7, <1>9, ContinuesTail
  <2> QED BY <2>1, <1>9 DEF Continues
<1> QED BY <1>1, <1>2, <1>3, <1>4, <1>5, <1>6, <1>7, <1>8, <1>10

LEMMA HandleStartOK ==
  ASSUME SocketInv, NEW s \in Slot, HandleStart(s)
  PROVE  SocketInv'
<1>0. Readable(s, "START")
  BY Zenon DEF HandleStart
<1>1. PICK c \in Conn, r \in Nat, n \in 0..MaxPieces, q \in Seq(Token) :
         /\ slots[s] = c /\ slots[s] # None
         /\ n = size[c[1]] /\ q = stream[c] /\ q # << >> /\ Head(q)[1] = "START"
         /\ r = 2 * Len(buffer[s]) + 1 \/ r = 0 \/ (r = 2 * n + 2 /\ buffer[s] = << >>)
         /\ ContinuesAfter(c, r)
         /\ r + Len(q) <= 2 * n + 2
         /\ TokenAt(n, r + 1, Head(q)) /\ Continues(n, r + 1, Tail(q))
  <2>1. "START" # "EOF"
    OBVIOUS
  <2> QED BY <1>0, <2>1, ReadableConn
<1> USE BackendSocketAssumption
<1>2. r = 0
  <2>1. r + 1 \in Nat /\ n \in Nat /\ Head(q)[1] = "START" /\ TokenAt(n, r + 1, Head(q))
    BY <1>1
  <2>2. r + 1 = 1
    BY <2>1, TokenPlace
  <2> QED BY <2>2
<1>3. Tail(q) \in Seq(Token) /\ 1 + Len(Tail(q)) = Len(q)
  BY <1>1
<1>4. << >> \in Seq(1..MaxPieces) /\ Len(<< >>) = 0 /\ << >> = Pieces(Len(<< >>))
  BY DEF Pieces
<1>5. /\ UNCHANGED <<cups, initialized, listening, backlog, stranded, stale, slots, setups,
                     acks, handed, refused>>
      /\ stream' = [stream EXCEPT ![c] = Tail(q)]
      /\ buffer' = [buffer EXCEPT ![s] = << >>]
      /\ acks \subseteq Conn /\ refused \subseteq Conn
      /\ handed \in [Conn -> Seq(Seq(1..MaxPieces))]
      /\ stream \in [Conn -> Seq(Token)]
  BY <1>1 DEF HandleStart, Readable, SocketInv, TypeOK, Token
<1>6. /\ TypeOK' /\ BackendsInOrder' /\ OpenAreRunning' /\ OnePlace'
      /\ StreamsInOrder' /\ GoneAreKilled' /\ ListensInSession'
  <2>1. 1 + Len(Tail(q)) = 0 + Len(stream[c]) /\ 1 = 2 * Len(<< >>) + 1
        /\ ContinuesAfter(c, 0) /\ Continues(size[c[1]], 1, Tail(q))
        /\ Len(<< >>) <= MaxBuffer
    BY <1>1, <1>2, <1>3, <1>4
  <2> QED BY <1>1, <1>3, <1>4, <1>5, <2>1, ReadKeeps
<1>7. \A d \in Conn : d # c => stream'[d] = stream[d]
  BY <1>5
<1> QED BY <1>1, <1>5, <1>6, <1>7, ReadOK

LEMMA HandleDataOK ==
  ASSUME SocketInv, NEW s \in Slot, HandleData(s)
  PROVE  SocketInv'
<1>0. Readable(s, "DATA")
  BY Zenon DEF HandleData
<1>1. PICK c \in Conn, r \in Nat, n \in 0..MaxPieces, q \in Seq(Token) :
         /\ slots[s] = c /\ slots[s] # None
         /\ n = size[c[1]] /\ q = stream[c] /\ q # << >> /\ Head(q)[1] = "DATA"
         /\ r = 2 * Len(buffer[s]) + 1 \/ r = 0 \/ (r = 2 * n + 2 /\ buffer[s] = << >>)
         /\ ContinuesAfter(c, r)
         /\ r + Len(q) <= 2 * n + 2
         /\ TokenAt(n, r + 1, Head(q)) /\ Continues(n, r + 1, Tail(q))
  <2>1. "DATA" # "EOF"
    OBVIOUS
  <2> QED BY <1>0, <2>1, ReadableConn
<1> USE BackendSocketAssumption
<1>2. PICK b \in Seq(1..MaxPieces) : b = buffer[s]
  BY DEF SocketInv, TypeOK
<1>3. /\ UNCHANGED <<cups, initialized, listening, backlog, stranded, stale, setups,
                     acks, handed, refused>>
      /\ acks \subseteq Conn /\ refused \subseteq Conn
      /\ handed \in [Conn -> Seq(Seq(1..MaxPieces))]
      /\ stream \in [Conn -> Seq(Token)]
  BY DEF HandleData, Readable, SocketInv, TypeOK, Token
<1>4. CASE Close(s)
  BY <1>1, <1>3, <1>4, CloseOK
<1>5. CASE /\ Len(b) + 1 <= MaxBuffer
           /\ Len(q) > 1
           /\ buffer' = [buffer EXCEPT ![s] = Append(b, q[2][2])]
           /\ stream' = [stream EXCEPT ![c] = Tail(Tail(q))]
           /\ UNCHANGED slots
  <2> DEFINE k == Len(b) + 1
  <2>1. Len(b) \in Nat /\ n \in Nat
    OBVIOUS
  <2>2. k \in 1..n /\ r = 2 * Len(b) + 1
    <3>1. PICK m \in 1..n : r + 1 = 2 * m
      <4>1. r + 1 \in Nat /\ Head(q)[1] = "DATA" /\ TokenAt(n, r + 1, Head(q))
        BY <1>1
      <4> QED BY <4>1, <2>1, TokenPlace
    <3>2. r = 2 * Len(b) + 1 \/ r = 0 \/ r = 2 * n + 2
      BY <1>1, <1>2
    <3> QED BY <2>1, <3>1, <3>2
  <2>3. Tail(q) \in Seq(Token) /\ Tail(q) # << >> /\ Head(Tail(q)) = q[2]
        /\ Len(Tail(Tail(q))) = Len(q) - 2 /\ Tail(Tail(q)) \in Seq(Token)
    BY <1>5, TailTwice
  <2>4. /\ TokenAt(n, r + 2, q[2])
        /\ Continues(n, r + 2, Tail(Tail(q)))
    <3>1. Continues(n, r + 1, Tail(q)) /\ r + 1 \in Nat /\ (r + 1) + 1 = r + 2
      BY <1>1
    <3> QED BY <3>1, <2>1, <2>3, ContinuesTail
  <2>5. q[2] = <<"payload", k>>
    <3>1. r + 2 = 2 * k + 1 /\ r + 2 \in Nat
      BY <2>1, <2>2
    <3> HIDE DEF k
    <3> QED BY <2>1, <2>2, <2>4, <3>1, TokenPlace
  <2>6. k \in 1..MaxPieces /\ q[2][2] = k
    BY <2>1, <2>2, <2>5
  <2>7. /\ buffer' = [buffer EXCEPT ![s] = Append(b, k)]
        /\ stream' = [stream EXCEPT ![c] = Tail(Tail(q))]
    BY <1>5, <2>6
  <2>8. Append(b, k) \in Seq(1..MaxPieces) /\ Len(Append(b, k)) = k
    BY <2>6
  <2>9. Append(b, k) = Pieces(k)
    <3>1. b = Pieces(Len(b))
      BY <1>1, <1>2 DEF SocketInv, StreamsInOrder
    <3>2. \A i \in 1..Len(b) : b[i] = i
      BY <3>1 DEF Pieces
    <3>3. \A i \in 1..k : Append(b, k)[i] = i
      BY <3>2, <2>1
    <3>4. Append(b, k) = [i \in 1..k |-> Append(b, k)[i]]
      BY <2>8
    <3> QED BY <3>3, <3>4 DEF Pieces
  <2>10. r + 2 \in Nat /\ (r + 2) + Len(Tail(Tail(q))) = r + Len(q)
         /\ r + 2 = 2 * k + 1 /\ k <= MaxBuffer
    <3>1. PICK l \in Nat : l = Len(q) /\ Len(Tail(Tail(q))) = l - 2
      BY <2>3
    <3>2. (r + 2) + (l - 2) = r + l
      OBVIOUS
    <3>3. r + 2 = 2 * k + 1 /\ k <= MaxBuffer
      BY <1>5, <2>1, <2>2
    <3>4. (r + 2) + Len(Tail(Tail(q))) = r + Len(q)
      BY <3>1, <3>2
    <3>5. r + 2 \in Nat
      OBVIOUS
    <3> QED BY <3>3, <3>4, <3>5
  <2> HIDE DEF k
  <2>11. /\ TypeOK' /\ BackendsInOrder' /\ OpenAreRunning' /\ OnePlace'
         /\ StreamsInOrder' /\ GoneAreKilled' /\ ListensInSession'
    <3>1. PICK r2 \in Nat : r2 = r + 2
      BY <2>10
    <3>2. PICK q2 \in Seq(Token) : q2 = Tail(Tail(q))
      BY <2>3
    <3>3. PICK b2 \in Seq(1..MaxPieces) : b2 = Append(b, k)
      BY <2>8
    <3>4. /\ UNCHANGED <<cups, initialized, listening, backlog, stranded, stale, slots, setups>>
          /\ stream[c] # << >> /\ slots[s] = c
          /\ stream' = [stream EXCEPT ![c] = q2] /\ buffer' = [buffer EXCEPT ![s] = b2]
          /\ ContinuesAfter(c, r) /\ Continues(size[c[1]], r2, q2)
          /\ b2 = Pieces(Len(b2)) /\ Len(b2) <= MaxBuffer /\ r2 = 2 * Len(b2) + 1
      BY <1>1, <1>3, <1>5, <2>4, <2>7, <2>8, <2>9, <2>10, <3>1, <3>2, <3>3
    <3>5. r2 + Len(q2) = r + Len(stream[c])
      BY <1>1, <2>10, <3>1, <3>2
    <3>6. /\ acks' \subseteq Conn /\ refused' \subseteq Conn
          /\ handed' \in [Conn -> Seq(Seq(1..MaxPieces))]
      BY <1>3
    <3> QED BY <3>4, <3>5, <3>6, ReadKeeps
  <2>12. \A d \in Conn : d # c => stream'[d] = stream[d]
    BY <1>3, <2>7
  <2> QED BY <1>1, <1>3, <1>5, <2>11, <2>12, ReadOK
<1>6. Close(s) \/ /\ Len(b) + 1 <= MaxBuffer
                  /\ Len(q) > 1
                  /\ buffer' = [buffer EXCEPT ![s] = Append(b, q[2][2])]
                  /\ stream' = [stream EXCEPT ![c] = Tail(Tail(q))]
                  /\ UNCHANGED slots
  <2>1. ~(Len(b) + 1 > MaxBuffer) => Len(b) + 1 <= MaxBuffer
    OBVIOUS
  <2>2. \/ Close(s)
        \/ /\ ~(Len(buffer[s]) + 1 > MaxBuffer)
           /\ Len(stream[c]) > 1
           /\ buffer' = [buffer EXCEPT ![s] = Append(buffer[s], stream[c][2][2])]
           /\ stream' = [stream EXCEPT ![c] = Tail(Tail(stream[c]))]
           /\ UNCHANGED slots
    BY <1>1, Zenon DEF HandleData
  <2> QED BY <1>1, <1>2, <2>1, <2>2
<1> QED BY <1>4, <1>5, <1>6

\* The END of a job finds all of it in the buffer.
LEMMA EndFindsWhole ==
  ASSUME SocketInv, NEW s \in Slot, Readable(s, "END")
  PROVE  \E c \in Conn, n \in 0..MaxPieces, q \in Seq(Token) :
            /\ slots[s] = c /\ slots[s] # None
            /\ n = size[c[1]] /\ q = stream[c] /\ Len(q) = 1
            /\ buffer[s] = Pieces(n) /\ Len(buffer[s]) = n
            /\ ContinuesAfter(c, 2 * n + 1)
            /\ c \in open => backend[c[1]] = "wait"
            /\ handed[c] = << >> /\ c \notin acks
            /\ c \in open \/ c \in killed
<1> USE BackendSocketAssumption
<1>1. PICK c \in Conn, r \in Nat, n \in 0..MaxPieces, q \in Seq(Token) :
         /\ slots[s] = c /\ slots[s] # None
         /\ n = size[c[1]] /\ q = stream[c] /\ q # << >> /\ Head(q)[1] = "END"
         /\ r = 2 * Len(buffer[s]) + 1 \/ r = 0 \/ (r = 2 * n + 2 /\ buffer[s] = << >>)
         /\ ContinuesAfter(c, r)
         /\ r + Len(q) <= 2 * n + 2
         /\ TokenAt(n, r + 1, Head(q)) /\ Continues(n, r + 1, Tail(q))
  BY ReadableConn
<1>2. PICK b \in Seq(1..MaxPieces) : b = buffer[s]
  BY DEF SocketInv, TypeOK
<1>3. r = 2 * n + 1
  <2>1. r + 1 \in Nat /\ n \in Nat /\ Head(q)[1] = "END" /\ TokenAt(n, r + 1, Head(q))
    BY <1>1
  <2>2. r + 1 = 2 * n + 2
    BY <2>1, TokenPlace
  <2> QED BY <2>1, <2>2
<1>4. b = Pieces(Len(b))
  BY <1>1, <1>2 DEF SocketInv, StreamsInOrder
<1>5. Len(b) = n
  <2>1. r = 2 * Len(b) + 1 \/ r = 0 \/ r = 2 * n + 2
    BY <1>1, <1>2
  <2>2. n \in Nat /\ Len(b) \in Nat
    OBVIOUS
  <2> QED BY <1>3, <2>1, <2>2
<1>7. Len(q) = 1
  <2>1. r + Len(q) <= 2 * n + 2 /\ q # << >>
    BY <1>1
  <2>2. PICK l \in Nat : l = Len(q) /\ l > 0
    BY <2>1, EmptySeq
  <2>3. (2 * n + 1) + l <= 2 * n + 2 /\ n \in Nat
    BY <2>1, <2>2, <1>3
  <2> QED BY <2>2, <2>3
<1>8. c \in open => backend[c[1]] = "wait"
  <2> SUFFICES ASSUME c \in open PROVE backend[c[1]] = "wait"
    OBVIOUS
  <2>1. PICK j \in Job : j = c[1]
    BY ConnParts
  <2>2. Running(j) /\ backend[j] \in BackendState
    BY <2>1 DEF SocketInv, OpenAreRunning, TypeOK
  <2>3. Written(j) = r + Len(q)
    BY <2>1, <1>1 DEF ContinuesAfter
  <2>4. Written(j) = 2 * n + 2 /\ size[j] = n
    BY <2>1, <2>3, <1>1, <1>3, <1>7
  <2>5. left[j] \in Nat
    BY DEF SocketInv, TypeOK
  <2>6. /\ backend[j] = "data" => left[j] <= n
        /\ backend[j] = "payload" => left[j] \in 1..n
    BY <2>4 DEF SocketInv, BackendsInOrder
  <2>7. backend[j] # "start" /\ backend[j] # "data" /\ backend[j] # "payload"
    BY <2>4, <2>5, <2>6 DEF Written
  <2> QED BY <2>1, <2>2, <2>7 DEF Running, BackendState
<1>9. Alive(c) /\ stream[c] # << >>
  BY <1>1, RangeOfSlots DEF Alive, SocketInv, TypeOK
<1>10. handed[c] = << >> /\ c \notin acks /\ (c \in open \/ c \in killed)
  BY <1>9 DEF SocketInv, HandedOnce, AcksAreDue, GoneAreKilled
<1> QED BY <1>1, <1>2, <1>3, <1>4, <1>5, <1>7, <1>8, <1>10

\* END is the only token after START and the pieces.
LEMMA LastToken ==
  ASSUME NEW n \in Nat, NEW l, l = 1
  PROVE  n \in Nat /\ 2 * n + 2 \in Nat /\ 2 * n + 1 \in Nat
         /\ (2 * n + 2) + 0 = (2 * n + 1) + l
  OBVIOUS

LEMMA HandleEndOK ==
  ASSUME SocketInv, NEW s \in Slot, HandleEnd(s)
  PROVE  SocketInv'
<1> USE BackendSocketAssumption
<1>1. PICK c \in Conn, n \in 0..MaxPieces, q \in Seq(Token) :
        /\ slots[s] = c /\ slots[s] # None
        /\ n = size[c[1]] /\ q = stream[c] /\ Len(q) = 1
        /\ buffer[s] = Pieces(n) /\ Len(buffer[s]) = n
        /\ ContinuesAfter(c, 2 * n + 1)
        /\ c \in open => backend[c[1]] = "wait"
        /\ handed[c] = << >> /\ c \notin acks
        /\ c \in open \/ c \in killed
  BY EndFindsWhole DEF HandleEnd
<1>2. /\ UNCHANGED <<cups, initialized, listening, backlog, stranded, stale, slots, setups>>
      /\ UNCHANGED <<size, backend, attempt, starts, left, killed, open>>
      /\ acks' = IF c \in open THEN acks \cup {c} ELSE acks
      /\ stream' = [stream EXCEPT ![c] = Tail(q)]
      /\ buffer' = [buffer EXCEPT ![s] = << >>]
      /\ acks \subseteq Conn /\ refused \subseteq Conn
      /\ handed \in [Conn -> Seq(Seq(1..MaxPieces))]
      /\ stream \in [Conn -> Seq(Token)] /\ buffer[s] \in Seq(1..MaxPieces)
  BY <1>1 DEF HandleEnd, Readable, cups, SocketInv, TypeOK, Token
<1>3. \/ buffer[s] = << >> /\ handed' = handed /\ refused' = refused
      \/ /\ buffer[s] # << >> /\ refused' = refused
         /\ handed' = [handed EXCEPT ![c] = Append(@, buffer[s])]
      \/ buffer[s] # << >> /\ refused' = refused \cup {c} /\ handed' = handed
  BY <1>1 DEF HandleEnd
<1>4. \/ n = 0 /\ handed' = handed /\ refused' = refused
      \/ handed' = [handed EXCEPT ![c] = <<Pieces(n)>>] /\ refused' = refused
      \/ refused' = refused \cup {c} /\ handed' = handed
  <2>1. Append(<< >>, Pieces(n)) = <<Pieces(n)>>
    BY <1>1, <1>2
  <2>2. buffer[s] = << >> => n = 0
    BY <1>1
  <2> QED BY <2>1, <2>2, <1>1, <1>2, <1>3
<1>5. /\ \A d \in Conn : d # c => handed'[d] = handed[d]
      /\ handed'[c] = << >> \/ handed'[c] = <<Pieces(n)>>
      /\ refused \subseteq refused' /\ refused' \subseteq Conn
      /\ n > 0 => handed'[c] # << >> \/ c \in refused'
  <2>1. <<Pieces(n)>> # << >> /\ ~(n = 0 /\ n > 0)
    OBVIOUS
  <2>2. handed[c] = << >>
    BY <1>1
  <2>3. CASE n = 0 /\ handed' = handed /\ refused' = refused
    BY <1>2, <2>1, <2>2, <2>3
  <2>4. CASE handed' = [handed EXCEPT ![c] = <<Pieces(n)>>] /\ refused' = refused
    BY <1>2, <2>1, <2>4
  <2>5. CASE refused' = refused \cup {c} /\ handed' = handed
    BY <1>2, <2>2, <2>5
  <2> QED BY <1>4, <2>3, <2>4, <2>5
<1>6. /\ \A d \in Conn : d # c => stream'[d] = stream[d]
      /\ stream'[c] = << >> /\ Tail(q) = << >>
      /\ acks' \subseteq Conn /\ (c \in acks' <=> c \in open)
      /\ \A d : d # c => (d \in acks' <=> d \in acks)
  <2>1. Tail(q) = << >>
    BY <1>1, TailOfOne
  <2>2. c \notin acks
    BY <1>1
  <2> QED BY <1>2, <2>1, <2>2
<1>7. handed' \in [Conn -> Seq(Seq(1..MaxPieces))]
  <2>1. Pieces(n) \in Seq(1..MaxPieces)
    BY <1>1, <1>2
  <2>2. <<Pieces(n)>> \in Seq(Seq(1..MaxPieces))
    BY <2>1
  <2> QED BY <2>2, <1>2, <1>4
<1>8. /\ TypeOK' /\ BackendsInOrder' /\ OpenAreRunning' /\ OnePlace'
      /\ StreamsInOrder' /\ GoneAreKilled' /\ ListensInSession'
  <2>1. n \in Nat /\ 2 * n + 2 \in Nat /\ 2 * n + 1 \in Nat
        /\ (2 * n + 2) + 0 = (2 * n + 1) + Len(q)
    <3>1. n \in Nat
      OBVIOUS
    <3>2. Len(q) = 1
      BY <1>1
    <3> QED BY <3>1, <3>2, LastToken
  <2>2. << >> \in Seq(Token) /\ Len(<< >>) = 0
    OBVIOUS
  <2>3. Continues(n, 2 * n + 2, << >>)
    BY <2>1 DEF Continues
  <2>4. << >> \in Seq(1..MaxPieces) /\ << >> = Pieces(Len(<< >>)) /\ Len(<< >>) <= MaxBuffer
    BY DEF Pieces
  <2>5. stream' = [stream EXCEPT ![c] = << >>] /\ stream[c] # << >>
    BY <1>1, <1>2, <1>6, TailOfOne
  <2>6. PICK r2 \in Nat : r2 = 2 * n + 2
    BY <2>1
  <2>7. PICK r0 \in Nat : r0 = 2 * n + 1
    BY <2>1
  <2>8. PICK e \in Seq(Token) : e = << >>
    BY <2>2
  <2>9. PICK b \in Seq(1..MaxPieces) : b = << >>
    BY <2>4
  <2>10. /\ UNCHANGED <<cups, initialized, listening, backlog, stranded, stale, slots, setups>>
         /\ stream[c] # << >> /\ slots[s] = c
         /\ stream' = [stream EXCEPT ![c] = e] /\ buffer' = [buffer EXCEPT ![s] = b]
         /\ ContinuesAfter(c, r0) /\ Continues(size[c[1]], r2, e)
         /\ b = Pieces(Len(b)) /\ Len(b) <= MaxBuffer
         /\ b = << >> /\ r2 = 2 * size[c[1]] + 2
    BY <1>1, <1>2, <2>3, <2>4, <2>5, <2>6, <2>7, <2>8, <2>9
  <2>11. r2 + Len(e) = r0 + Len(stream[c])
    BY <1>1, <2>1, <2>2, <2>6, <2>7, <2>8
  <2>12. /\ acks' \subseteq Conn /\ refused' \subseteq Conn
         /\ handed' \in [Conn -> Seq(Seq(1..MaxPieces))]
    BY <1>5, <1>6, <1>7
  <2> QED BY <2>10, <2>11, <2>12, ReadKeeps
<1>9. \A d : Alive(d)' <=> Alive(d)
  BY <1>2 DEF Alive
<1>10. Alive(c)
  BY <1>1, RangeOfSlots DEF Alive, SocketInv, TypeOK
<1>11. ConnsFresh'
  BY <1>2, <1>5, <1>9, <1>10 DEF SocketInv, ConnsFresh
<1>12. AcksAreDue'
  <2> SUFFICES ASSUME NEW d \in acks'
               PROVE  /\ d \in open /\ backend[d[1]] = "wait"
                      /\ stream'[d] = << >>
                      /\ size[d[1]] > 0 => handed'[d] # << >> \/ d \in refused'
    BY <1>2 DEF AcksAreDue
  <2>1. CASE d = c
    BY <2>1, <1>1, <1>5, <1>6
  <2>2. CASE d # c
    <3>1. d \in acks /\ d \in Conn /\ handed'[d] = handed[d] /\ stream'[d] = stream[d]
      BY <2>2, <1>2, <1>5, <1>6
    <3> QED BY <3>1, <1>5 DEF SocketInv, AcksAreDue
  <2> QED BY <2>1, <2>2
<1>13. HandedOnce'
  <2> SUFFICES ASSUME NEW d \in Conn, handed'[d] # << >>
               PROVE  /\ handed'[d] = <<Pieces(size[d[1]])>>
                      /\ stream'[d] = << >>
                      /\ d \in open => d \in acks'
                      /\ \/ d \in killed
                         \/ d = ConnOf(d[1]) /\ (d \in open \/ backend[d[1]] = "done")
    BY <1>2 DEF HandedOnce, ConnOf
  <2>1. CASE d = c
    <3>1. c \in open => c = ConnOf(c[1])
      BY DEF SocketInv, OpenAreRunning
    <3>2. c \in open \/ c \in killed
      BY <1>1
    <3>3. handed'[c] = <<Pieces(size[c[1]])>>
      BY <2>1, <1>1, <1>5
    <3> QED BY <2>1, <3>1, <3>2, <3>3, <1>6
  <2>2. CASE d # c
    <3>1. handed[d] # << >> /\ handed'[d] = handed[d]
      BY <2>2, <1>5
    <3> QED BY <2>2, <3>1, <1>6 DEF SocketInv, HandedOnce
  <2> QED BY <2>1, <2>2
<1>14. DoneMeansAsked'
  <2> SUFFICES ASSUME NEW j \in Job, backend[j] = "done", size[j] > 0
               PROVE  handed'[ConnOf(j)] # << >> \/ ConnOf(j) \in refused'
    BY <1>2 DEF DoneMeansAsked, ConnOf
  <2>1. handed[ConnOf(j)] # << >> \/ ConnOf(j) \in refused
    BY DEF SocketInv, DoneMeansAsked
  <2>2. attempt[j] \in 1..MaxAttempts
    BY DEF SocketInv, TypeOK, BackendsInOrder
  <2>3. ConnOf(j) \in Conn
    BY <2>2 DEF ConnOf, Conn
  <2> QED BY <2>1, <2>3, <1>1, <1>5
<1> QED BY <1>8, <1>11, <1>12, <1>13, <1>14 DEF SocketInv

LEMMA HandleEofOK ==
  ASSUME SocketInv, NEW s \in Slot, HandleEof(s)
  PROVE  SocketInv'
  BY CloseOK DEF HandleEof, Readable

LEMMA InitializeOK ==
  ASSUME SocketInv, Initialize
  PROVE  SocketInv'
<1>1. UNCHANGED <<size, backend, left, open, stream, backlog, stranded, slots, buffer>>
  BY DEF Initialize, cups
<1>2. \A c : Alive(c)' <=> Alive(c)
  BY <1>1 DEF Alive
<1>3. \A c \in Conn : \A r \in Nat : ContinuesAfter(c, r) => ContinuesAfter(c, r)'
  BY <1>1 DEF ContinuesAfter, Written
<1>4. StreamsInOrder'
  BY <1>1, <1>3, StreamsKept
<1>5. OnePlace'
  BY <1>1, <1>2 DEF SocketInv, OnePlace
<1> QED BY <1>1, <1>2, <1>4, <1>5, ServerOK DEF Initialize, SocketInv, TypeOK

LEMMA SetupCompletesOK ==
  ASSUME SocketInv, SetupCompletes
  PROVE  SocketInv'
<1>1. /\ UNCHANGED <<size, backend, left, open, stream, slots, buffer>>
      /\ stranded' = stranded \cup backlog /\ backlog' = {}
  BY DEF SetupCompletes, cups
<1>2. \A c : Alive(c)' <=> Alive(c)
  BY <1>1 DEF Alive
<1>3. \A c \in Conn : \A r \in Nat : ContinuesAfter(c, r) => ContinuesAfter(c, r)'
  BY <1>1 DEF ContinuesAfter, Written
<1>4. StreamsInOrder'
  <2>1. \A c \in backlog' \cup stranded' : ContinuesAfter(c, 0)'
    BY <1>1, <1>3 DEF SocketInv, StreamsInOrder, TypeOK
  <2>2. ASSUME NEW s \in Slot, slots[s] # None
        PROVE  \E r \in HasRead(s)' : ContinuesAfter(slots[s], r)'
    <3>1. PICK c \in Conn : c = slots[s]
      BY <2>2 DEF SocketInv, TypeOK
    <3>2. PICK r \in HasRead(s) : ContinuesAfter(c, r)
      BY <2>2, <3>1 DEF SocketInv, StreamsInOrder
    <3>3. r \in Nat /\ r \in HasRead(s)'
      BY <2>2, <1>1, HasReadNat DEF SocketInv, HasRead
    <3>4. ContinuesAfter(c, r)'
      BY <3>2, <3>3, <1>3
    <3> QED BY <3>1, <3>3, <3>4, <1>1 DEF ContinuesAfter
  <2> QED BY <2>1, <2>2, <1>1 DEF SocketInv, StreamsInOrder
<1>5. OnePlace'
  BY <1>1, <1>2 DEF SocketInv, OnePlace
<1>6. initialized' \in BOOLEAN /\ listening' \in BOOLEAN /\ stale' \in BOOLEAN
      /\ (listening' => initialized')
  <2>1. initialized' = initialized /\ initialized /\ stale \in BOOLEAN
    BY DEF SetupCompletes, SocketInv, TypeOK
  <2>2. \/ listening' = TRUE /\ stale' = FALSE
        \/ listening' = FALSE /\ stale' \in {FALSE, stale \/ listening}
    BY Zenon DEF SetupCompletes
  <2> QED BY <2>1, <2>2
<1>7. setups' \in 0..MaxSetups
  BY BackendSocketAssumption DEF SetupCompletes, SocketInv, TypeOK
<1> QED BY <1>1, <1>2, <1>4, <1>5, <1>6, <1>7, ServerOK DEF SetupCompletes, SocketInv, TypeOK

-----------------------------------------------------------------------------
(* The steps of a backend.                                                 *)

\* The state of a backend that is writing.
LEMMA WriterState ==
  ASSUME SocketInv, NEW j \in Job
  PROVE  \E n \in 0..MaxPieces, l \in 0..MaxPieces :
            /\ n = size[j] /\ l = left[j]
            /\ backend[j] = "start" => l = n
            /\ backend[j] = "data" => l <= n
            /\ backend[j] = "payload" => l \in 1..n
  BY DEF SocketInv, TypeOK, BackendsInOrder

\* What a write does not change, and what WriteOK asks of it otherwise.
LEMMA WriterMoves ==
  ASSUME SocketInv, NEW j \in Job, NEW n \in 0..MaxPieces, NEW l \in 0..MaxPieces,
         n = size[j], size' = size, attempt' = attempt, starts' = starts,
         NEW next \in {"data", "payload", "wait"},
         backend' = [backend EXCEPT ![j] = next],
         left' = [left EXCEPT ![j] = l],
         next = "data" => l <= n, next = "payload" => l \in 1..n
  PROVE  /\ left' \in [Job -> 0..MaxPieces] /\ left'[j] = l /\ backend'[j] = next
         /\ \A i \in Job : i # j => left'[i] = left[i]
         /\ BackendsInOrder'
<1>1. left \in [Job -> 0..MaxPieces] /\ backend \in [Job -> BackendState]
  BY DEF SocketInv, TypeOK
<1>2. /\ left'[j] = l /\ backend'[j] = next
      /\ \A i \in Job : i # j => left'[i] = left[i] /\ backend'[i] = backend[i]
  BY <1>1
<1>3. BackendsInOrder'
  <2> SUFFICES ASSUME NEW i \in Job
               PROVE  /\ attempt[i] <= starts
                      /\ backend'[i] = "start" => left'[i] = size[i]
                      /\ backend'[i] = "data" => left'[i] <= size[i]
                      /\ backend'[i] = "payload" => left'[i] \in 1..size[i]
                      /\ backend'[i] = "done" => attempt[i] > 0
    BY DEF BackendsInOrder
  <2>1. CASE i = j
    BY <2>1, <1>2 DEF SocketInv, BackendsInOrder
  <2>2. CASE i # j
    BY <2>2, <1>2 DEF SocketInv, BackendsInOrder
  <2> QED BY <2>1, <2>2
<1> QED BY <1>1, <1>2, <1>3

LEMMA SendStartOK ==
  ASSUME SocketInv, NEW j \in Job, SendStart(j)
  PROVE  SocketInv'
<1> USE BackendSocketAssumption
<1>1. PICK n \in 0..MaxPieces, l \in 0..MaxPieces :
         n = size[j] /\ l = left[j] /\ (backend[j] = "start" => l = n)
  BY WriterState
<1>2. /\ backend[j] = "start" /\ size' = size /\ attempt' = attempt /\ starts' = starts
      /\ backend' = [backend EXCEPT ![j] = "data"] /\ left' = [left EXCEPT ![j] = l]
      /\ Write(j, <<"START">>, "data")
  BY <1>1 DEF SendStart, Write, SocketInv, TypeOK
<1>3. l = n /\ l <= n /\ n \in Nat
  BY <1>1, <1>2
<1>4. /\ left' \in [Job -> 0..MaxPieces] /\ left'[j] = l /\ backend'[j] = "data"
      /\ \A i \in Job : i # j => left'[i] = left[i]
      /\ BackendsInOrder'
  <2>1. l <= n /\ "data" # "payload" /\ "data" \in {"data", "payload", "wait"}
    BY <1>3
  <2>2. n = size[j]
    BY <1>1
  <2> QED BY <1>2, <2>1, <2>2, WriterMoves
<1>5. Written(j) = 0 /\ Written(j)' = 1
  BY <1>1, <1>2, <1>3, <1>4 DEF Written
<1>6. TokenAt(n, 1, <<"START">>) /\ <<"START">> \in Token
  BY DEF TokenAt, Token
<1>7. 0 + 1 = 1 /\ 1 <= 2 * n + 2
  BY <1>3
<1> QED BY <1>1, <1>2, <1>4, <1>5, <1>6, <1>7, WriteOK

LEMMA SendDataHeaderOK ==
  ASSUME SocketInv, NEW j \in Job, SendDataHeader(j)
  PROVE  SocketInv'
<1> USE BackendSocketAssumption
<1>1. PICK n \in 0..MaxPieces, l \in 0..MaxPieces :
         n = size[j] /\ l = left[j] /\ (backend[j] = "data" => l <= n)
  BY WriterState
<1>2. /\ backend[j] = "data" /\ size' = size /\ attempt' = attempt /\ starts' = starts
      /\ backend' = [backend EXCEPT ![j] = "payload"] /\ left' = [left EXCEPT ![j] = l]
      /\ Write(j, <<"DATA">>, "payload") /\ l > 0
  BY <1>1 DEF SendDataHeader, Write, SocketInv, TypeOK
<1>3. l \in 1..n /\ n \in Nat
  BY <1>1, <1>2
<1>4. /\ left' \in [Job -> 0..MaxPieces] /\ left'[j] = l /\ backend'[j] = "payload"
      /\ \A i \in Job : i # j => left'[i] = left[i]
      /\ BackendsInOrder'
  BY <1>1, <1>2, <1>3, WriterMoves
<1>5. PICK w \in Nat : w = 2 * (n - l) + 1
  BY <1>3
<1>6. w + 1 = 2 * (n - l) + 2 /\ w + 1 = 2 * (n - l + 1) /\ w + 1 <= 2 * n + 2
      /\ n - l + 1 \in 1..n
  BY <1>3, <1>5
<1>7. Written(j) = w /\ Written(j)' = w + 1
  BY <1>1, <1>2, <1>4, <1>5, <1>6 DEF Written
<1>8. TokenAt(n, w + 1, <<"DATA">>) /\ <<"DATA">> \in Token
  BY <1>6 DEF TokenAt, Token
<1> QED BY <1>1, <1>2, <1>4, <1>6, <1>7, <1>8, WriteOK

LEMMA SendPayloadOK ==
  ASSUME SocketInv, NEW j \in Job, SendPayload(j)
  PROVE  SocketInv'
<1> USE BackendSocketAssumption
<1>1. PICK n \in 0..MaxPieces, l \in 0..MaxPieces :
         n = size[j] /\ l = left[j] /\ (backend[j] = "payload" => l \in 1..n)
  BY WriterState
<1>2. /\ backend[j] = "payload" /\ size' = size /\ attempt' = attempt /\ starts' = starts
      /\ backend' = [backend EXCEPT ![j] = "data"] /\ left' = [left EXCEPT ![j] = l - 1]
      /\ Write(j, <<"payload", n - l + 1>>, "data")
  BY <1>1 DEF SendPayload, Write
<1>3. l \in 1..n /\ n \in Nat /\ l - 1 \in 0..MaxPieces /\ l - 1 <= n
  BY <1>1, <1>2
<1>4. /\ left' \in [Job -> 0..MaxPieces] /\ left'[j] = l - 1 /\ backend'[j] = "data"
      /\ \A i \in Job : i # j => left'[i] = left[i]
      /\ BackendsInOrder'
  BY <1>1, <1>2, <1>3, WriterMoves
<1>5. PICK w \in Nat : w = 2 * (n - l) + 2
  BY <1>3
<1>6. PICK k \in 1..n : k = n - l + 1
  BY <1>3
<1>7. w + 1 = 2 * (n - (l - 1)) + 1 /\ w + 1 = 2 * k + 1 /\ w + 1 <= 2 * n + 2
      /\ k \in 1..MaxPieces
  BY <1>3, <1>5, <1>6
<1>8. Written(j) = w /\ Written(j)' = w + 1
  BY <1>1, <1>2, <1>4, <1>5, <1>7 DEF Written
<1>9. TokenAt(n, w + 1, <<"payload", k>>) /\ <<"payload", k>> \in Token
  BY <1>7 DEF TokenAt, Token
<1> QED BY <1>1, <1>2, <1>4, <1>6, <1>7, <1>8, <1>9, WriteOK

LEMMA SendEndOK ==
  ASSUME SocketInv, NEW j \in Job, SendEnd(j)
  PROVE  SocketInv'
<1> USE BackendSocketAssumption
<1>1. PICK n \in 0..MaxPieces, l \in 0..MaxPieces : n = size[j] /\ l = left[j]
  BY WriterState
<1>2. /\ backend[j] = "data" /\ size' = size /\ attempt' = attempt /\ starts' = starts
      /\ backend' = [backend EXCEPT ![j] = "wait"] /\ left' = [left EXCEPT ![j] = l]
      /\ Write(j, <<"END">>, "wait") /\ l = 0
  BY <1>1 DEF SendEnd, Write, SocketInv, TypeOK
<1>3. n \in Nat
  BY <1>1
<1>4. /\ left' \in [Job -> 0..MaxPieces] /\ left'[j] = l /\ backend'[j] = "wait"
      /\ \A i \in Job : i # j => left'[i] = left[i]
      /\ BackendsInOrder'
  BY <1>1, <1>2, WriterMoves
<1>5. PICK w \in Nat : w = 2 * (n - l) + 1 /\ w + 1 = 2 * n + 2
  BY <1>2, <1>3
<1>6. Written(j) = w /\ Written(j)' = w + 1
  BY <1>1, <1>2, <1>4, <1>5 DEF Written
<1>7. TokenAt(n, w + 1, <<"END">>) /\ <<"END">> \in Token /\ w + 1 <= 2 * n + 2
  BY <1>3, <1>5 DEF TokenAt, Token
<1> QED BY <1>1, <1>2, <1>4, <1>6, <1>7, WriteOK

LEMMA ReadAckOK ==
  ASSUME SocketInv, NEW j \in Job, ReadAck(j)
  PROVE  SocketInv'
  BY ExitOK DEF ReadAck, Running

LEMMA FailOK ==
  ASSUME SocketInv, NEW j \in Job, Fail(j)
  PROVE  SocketInv'
  BY ExitOK DEF Fail

LEMMA KillOK ==
  ASSUME SocketInv, NEW j \in Job, Kill(j)
  PROVE  SocketInv'
  BY ExitOK DEF Kill

-----------------------------------------------------------------------------

LEMMA StutterOK ==
  ASSUME SocketInv, UNCHANGED vars
  PROVE  SocketInv'
<1>1. UNCHANGED <<size, backend, attempt, starts, left, killed, open, stream, acks,
                  initialized, listening, backlog, stranded, stale, slots, buffer, setups,
                  handed, refused>>
  BY DEF vars, cups, chansrv
<1>2. TypeOK' /\ BackendsInOrder' /\ OpenAreRunning'
  BY <1>1 DEF SocketInv, TypeOK, BackendsInOrder, OpenAreRunning, Running, ConnOf
<1>3. ConnsFresh' /\ OnePlace' /\ GoneAreKilled'
  BY <1>1 DEF SocketInv, ConnsFresh, OnePlace, GoneAreKilled, Alive
<1>4. StreamsInOrder'
  BY <1>1, StreamsKept DEF ContinuesAfter, Written
<1>5. AcksAreDue' /\ HandedOnce' /\ DoneMeansAsked' /\ ListensInSession'
  BY <1>1 DEF SocketInv, AcksAreDue, HandedOnce, DoneMeansAsked, ListensInSession, ConnOf
<1> QED BY <1>2, <1>3, <1>4, <1>5 DEF SocketInv

\* The invariant is inductive.
LEMMA NextOK ==
  ASSUME SocketInv, [Next]_vars
  PROVE  SocketInv'
<1>1. ASSUME NEW j \in Job, Connect(j) \/ BackendStep(j) \/ Kill(j) PROVE SocketInv'
  BY <1>1, ConnectOK, SendStartOK, SendDataHeaderOK, SendPayloadOK, SendEndOK, ReadAckOK,
     FailOK, KillOK, Zenon DEF BackendStep
<1>2. ASSUME NEW s \in Slot, Handle(s) PROVE SocketInv'
  BY <1>2, HandleStartOK, HandleDataOK, HandleEndOK, HandleEofOK, Zenon DEF Handle
<1>3. CASE Accept \/ AcceptFails \/ Initialize \/ SetupCompletes \/ Cleanup
  BY <1>3, AcceptOK, AcceptFailsOK, InitializeOK, SetupCompletesOK, CleanupOK, Zenon
<1>4. CASE UNCHANGED vars
  BY <1>4, StutterOK
<1> QED BY <1>1, <1>2, <1>3, <1>4, Zenon DEF Next, SessionStep

\* The inductive invariant of the way from cupsd to devredir_printer_send_job.
THEOREM SocketSafe == Spec => []SocketInv
<1>1. Init => SocketInv
  BY InitOK
<1>2. SocketInv /\ [Next]_vars => SocketInv'
  BY NextOK
<1> QED BY <1>1, <1>2, PTL DEF Spec

\* Every variable of backends and connections keeps its type, and no buffer
\* outgrows the limit of ensure_capacity.
THEOREM SocketTypes == Spec => []TypeOK
<1>1. SocketInv => TypeOK
  BY DEF SocketInv
<1> QED BY <1>1, SocketSafe, PTL

\* printer_socket_handle_data hands on whole jobs only, whatever backends,
\* cleanups and slots taken over do to the connections.
THEOREM JobsHandedWhole == Spec => []HandedWhole
<1>1. SocketInv => HandedWhole
  <2> SUFFICES ASSUME SocketInv, NEW c \in Conn, NEW i \in 1..Len(handed[c])
               PROVE  handed[c][i] = Pieces(size[c[1]])
    BY DEF HandedWhole
  <2>1. handed[c] # << >>
    BY EmptySeq
  <2>2. handed[c] = <<Pieces(size[c[1]])>>
    BY <2>1 DEF SocketInv, HandedOnce
  <2>3. i = 1
    BY <2>2
  <2> QED BY <2>2, <2>3
<1> QED BY <1>1, SocketSafe, PTL

\* A job with data that cupsd drops was offered to devredir_printer_send_job by
\* the attempt that succeeded.
THEOREM DoneWasAsked == Spec => []DoneMeansAsked
<1>1. SocketInv => DoneMeansAsked
  BY DEF SocketInv
<1> QED BY <1>1, SocketSafe, PTL

\* Retries of cupsd hand a job on twice only when a backend was killed.
THEOREM DuplicatesNeedKill == Spec => []DuplicatesOnlyAfterKill
<1>1. SocketInv => DuplicatesOnlyAfterKill
  <2> SUFFICES ASSUME SocketInv PROVE DuplicatesOnlyAfterKill
    OBVIOUS
  <2>1. ASSUME NEW c \in Conn PROVE Len(handed[c]) <= 1
    <3>1. CASE handed[c] = << >>
      BY <3>1, EmptySeq
    <3>2. CASE handed[c] # << >>
      <4>1. handed[c] = <<Pieces(size[c[1]])>>
        BY <3>2 DEF SocketInv, HandedOnce
      <4> QED BY <4>1
    <3> QED BY <3>1, <3>2
  <2>2. ASSUME NEW c \in Conn, NEW d \in Conn, c[1] = d[1],
               handed[c] # << >>, handed[d] # << >>
        PROVE  c = d \/ c \in killed \/ d \in killed
    BY <2>2 DEF SocketInv, HandedOnce
  <2> QED BY <2>1, <2>2 DEF DuplicatesOnlyAfterKill
<1> QED BY <1>1, SocketSafe, PTL

=============================================================================
