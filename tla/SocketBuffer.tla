---------------------------- MODULE SocketBuffer ----------------------------
(***************************************************************************)
(* The buffer of one backend connection in printer_socket.c: how           *)
(* ensure_capacity grows it for the payload of every JOB_DATA message.     *)
(* Lengths and capacities are uint32_t; BackendSocket counts pieces.  The  *)
(* loop that doubles the capacity takes one step per round, and a message  *)
(* is handled to its end before the next.                                  *)
(*                                                                         *)
(* chansrv takes hdr.data_len as it comes, any uint32_t but 0, and the sum *)
(* of ensure_capacity is one of uint32_t values.  Bytes that go past the   *)
(* end of the buffer are noted in overrun; what they do to the rest of the *)
(* memory is not modelled.                                                 *)
(***************************************************************************)
EXTENDS Naturals

CONSTANTS
  Width,       \* 2^32, the number of values of a uint32_t
  Limit,       \* the 256 MB of ensure_capacity
  Start,       \* the 64 KB of a first allocation
  DataLen,     \* the values of hdr.data_len in JOB_DATA messages
  Capacities,  \* the sizes a buffer goes through: 64 KB, 128 KB, ..., 256 MB
  MaxReceived  \* bound: bytes of a job

ASSUME SocketBufferAssumption ==
  /\ Width \in Nat /\ Limit \in Nat
  /\ Start \in Nat \ {0}
  /\ Start <= Limit
  /\ 2 * Limit < Width
  /\ DataLen \subseteq 1..(Width - 1)
  /\ MaxReceived \in Nat

\* Doubling leads from the first allocation to the limit.
ASSUME CapacitiesAssumption ==
  /\ Capacities \subseteq 1..Limit
  /\ Start \in Capacities
  /\ \A n \in Capacities : n # Limit => 2 * n \in Capacities

VARIABLES
  active,     \* the connection has a slot
  dataLen,    \* conn->data_len
  capacity,   \* conn->data_capacity
  allocated,  \* the size of the block that conn->data points to
  step,       \* what is being done for a JOB_DATA message: see Steps
  message,    \* hdr.data_len of that message
  newCap,     \* new_cap of ensure_capacity
  received,   \* how many bytes of the job have come, however many these are
  overrun,    \* some of them, of this job or one before, went past the buffer
  tooLarge    \* the connection was closed for the size of its job

conn == <<active, dataLen, capacity, allocated>>
vars == <<conn, step, message, newCap, received, overrun, tooLarge>>

-----------------------------------------------------------------------------

Steps == {"idle",   \* between messages
          "grow",   \* in the loop of ensure_capacity
          "read"}   \* read_exact into the buffer

\* The sum of two values of a uint32_t, as a uint32_t.
Wrap(n) == IF n < Width THEN n ELSE n - Width

Needed == Wrap(dataLen + message)

\* printer_socket_accept: a slot that is set to zero.
Accept ==
  /\ ~active
  /\ active' = TRUE
  /\ dataLen' = 0 /\ capacity' = 0 /\ allocated' = 0
  /\ received' = 0
  /\ tooLarge' = FALSE
  /\ UNCHANGED <<step, message, newCap, overrun>>

\* close_conn, for any reason.
Close ==
  /\ active' = FALSE
  /\ dataLen' = 0 /\ capacity' = 0 /\ allocated' = 0
  /\ step' = "idle"
  /\ UNCHANGED <<message, newCap, received, overrun>>

\* Mutant: the data of a finished job stays in the buffer.
JobEnd_NoReset ==
  /\ active /\ step = "idle"
  /\ received' = 0
  /\ UNCHANGED <<conn, step, message, newCap, overrun, tooLarge>>

\* JOB_START and JOB_END both leave an empty buffer of the same capacity.
JobEnd ==
  /\ active /\ step = "idle"
  /\ dataLen' = 0
  /\ received' = 0
  /\ UNCHANGED <<active, capacity, allocated, step, message, newCap, overrun, tooLarge>>

\* Mutant: the message is compared with the capacity as if the buffer were empty.
JobData_ForgetsData(n) ==
  /\ active /\ step = "idle"
  /\ received + n <= MaxReceived
  /\ message' = n
  /\ IF n <= capacity
       THEN step' = "read" /\ UNCHANGED newCap
       ELSE step' = "grow" /\ newCap' = IF capacity = 0 THEN Start ELSE capacity
  /\ UNCHANGED <<conn, received, overrun, tooLarge>>

\* JOB_DATA: ensure_capacity up to its loop.
JobData(n) ==
  /\ active /\ step = "idle"
  /\ received + n <= MaxReceived
  /\ message' = n
  /\ IF Wrap(dataLen + n) <= capacity
       THEN step' = "read" /\ UNCHANGED newCap
       ELSE step' = "grow" /\ newCap' = IF capacity = 0 THEN Start ELSE capacity
  /\ UNCHANGED <<conn, received, overrun, tooLarge>>

\* Mutant: a buffer of half the limit does not grow any more.
Double_HalfLimit ==
  /\ step = "grow" /\ newCap < Needed
  /\ IF Wrap(2 * newCap) >= Limit
       THEN Close /\ tooLarge' = TRUE
       ELSE newCap' = Wrap(2 * newCap) /\ UNCHANGED <<conn, step, message, received, overrun, tooLarge>>

\* Mutant: there is no limit.
Double_NoLimit ==
  /\ step = "grow" /\ newCap < Needed
  /\ newCap' = Wrap(2 * newCap)
  /\ UNCHANGED <<conn, step, message, received, overrun, tooLarge>>

\* A round of the loop: the limit is looked at after the doubling.
Double ==
  /\ step = "grow" /\ newCap < Needed
  /\ IF Wrap(2 * newCap) > Limit
       THEN Close /\ tooLarge' = TRUE
       ELSE newCap' = Wrap(2 * newCap) /\ UNCHANGED <<conn, step, message, received, overrun, tooLarge>>

\* The loop is over; without memory the connection goes.
Reallocate ==
  /\ step = "grow" /\ newCap >= Needed
  /\ \/ /\ capacity' = newCap /\ allocated' = newCap
        /\ step' = "read"
        /\ UNCHANGED <<active, dataLen, message, newCap, received, overrun, tooLarge>>
     \/ Close /\ UNCHANGED tooLarge

\* The payload comes in whole behind the data, or the connection is closed.
ReadPayload ==
  /\ step = "read"
  /\ \/ /\ dataLen' = Wrap(dataLen + message)
        /\ received' = received + message
        /\ overrun' = (overrun \/ dataLen + message > allocated)
        /\ step' = "idle"
        /\ UNCHANGED <<active, capacity, allocated, message, newCap, tooLarge>>
     \/ Close /\ UNCHANGED tooLarge

\* Any other end of the connection.
Disconnect ==
  /\ active /\ step = "idle"
  /\ Close /\ UNCHANGED tooLarge

-----------------------------------------------------------------------------

Init ==
  /\ active = FALSE
  /\ dataLen = 0 /\ capacity = 0 /\ allocated = 0
  /\ step = "idle"
  /\ message = 0
  /\ newCap = 0
  /\ received = 0
  /\ overrun = FALSE
  /\ tooLarge = FALSE

Next ==
  \/ Accept
  \/ JobEnd
  \/ \E n \in DataLen : JobData(n)
  \/ Double
  \/ Reallocate
  \/ ReadPayload
  \/ Disconnect

Spec == Init /\ [][Next]_vars

\* ensure_capacity runs until it returns.
FairSpec == Spec /\ WF_vars(Double \/ Reallocate)

-----------------------------------------------------------------------------

TypeOK ==
  /\ active \in BOOLEAN
  /\ dataLen \in 0..Limit /\ capacity \in 0..Limit
  /\ allocated \in 0..Limit /\ newCap \in 0..Limit
  /\ step \in Steps
  /\ message \in DataLen \cup {0}
  /\ received \in Nat
  /\ overrun \in BOOLEAN
  /\ tooLarge \in BOOLEAN

\* A payload is read into memory that belongs to the buffer exactly when the sum
\* of ensure_capacity has not wrapped around, over any sequence of messages,
\* doublings, failed allocations and jobs on a connection: the growing itself
\* never leaves too small a buffer, and nothing but a data_len of less than
\* 256 MB below 2^32 could (the read_exact of JOB_DATA relies on ensure_capacity).
FitsUnlessWrapped ==
  step = "read" =>
     /\ dataLen + message <= allocated <=> dataLen + message < Width
     /\ message < Width - Limit => dataLen + message <= allocated

\* As long as every payload went into the buffer, data_len is the number of bytes
\* of the job that have come, and no byte of an earlier job on the connection is
\* counted.  It never says more than has come, nor more than the buffer holds.
LengthIsTrue ==
  active => /\ ~overrun => dataLen = received
            /\ dataLen <= received /\ dataLen <= allocated

\* A job is cut off for its size only if it is larger than the limit: the last
\* doubling before it is not one too early ("Job data exceeds 256MB limit").  For
\* this the limit must be a power of two times the first allocation, as it is
\* (CapacitiesAssumption).
CutOnlyIfTooLarge ==
  tooLarge => received + message > Limit

\* ensure_capacity returns, though a doubled uint32_t may become 0.
GrowthEnds ==
  step = "grow" ~> step # "grow"

=============================================================================
