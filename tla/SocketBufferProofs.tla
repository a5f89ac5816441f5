------------------------- MODULE SocketBufferProofs -------------------------
(***************************************************************************)
(* When the buffer of a connection is large enough, for every limit that a *)
(* uint32_t holds twice over and whatever data_len a message has.          *)
(***************************************************************************)
EXTENDS SocketBuffer, TLAPS

\* While a message is handled, the new capacity is no smaller than the old one, and
\* the sum, wrapped around or not, is within the buffer that is read into.
Growing ==
  /\ step \in {"grow", "read"} => active
  /\ step = "grow" => newCap > 0 /\ newCap >= capacity
  /\ step = "read" => Needed <= allocated
  /\ capacity = allocated

BufferInv == TypeOK /\ Growing /\ LengthIsTrue

-----------------------------------------------------------------------------

\* What the code computes of uint32_t values: a sum that may have wrapped around, and
\* a doubled capacity, which cannot.
LEMMA Sums ==
  ASSUME NEW x \in 0..Limit, NEW n \in DataLen \cup {0}
  PROVE  /\ n \in 0..(Width - 1)
         /\ Wrap(x + n) \in Nat /\ Wrap(x + n) <= x + n
         /\ x + n < Width => Wrap(x + n) = x + n
         /\ Wrap(2 * x) = 2 * x
BY SocketBufferAssumption DEF Wrap

LEMMA InitBufferInv == Init => BufferInv
<1> SUFFICES ASSUME Init PROVE BufferInv
  OBVIOUS
<1>1. /\ active \in BOOLEAN /\ ~active
      /\ tooLarge \in BOOLEAN /\ overrun \in BOOLEAN
  BY Zenon DEF Init
<1>2. /\ dataLen = 0 /\ capacity = 0 /\ allocated = 0
      /\ step = "idle" /\ message = 0 /\ newCap = 0 /\ received = 0
  BY DEF Init
<1> QED
  BY <1>1, <1>2, SocketBufferAssumption
  DEF BufferInv, TypeOK, Steps, Growing, LengthIsTrue

\* A closed connection satisfies the invariant whatever it was.
LEMMA CloseKeeps ==
  ASSUME TypeOK, Close, tooLarge' \in BOOLEAN
  PROVE  BufferInv'
<1>1. active' \in BOOLEAN /\ ~active'
  BY Zenon DEF Close
<1>2. /\ dataLen' = 0 /\ capacity' = 0 /\ allocated' = 0
      /\ step' = "idle"
      /\ UNCHANGED <<message, newCap, received, overrun>>
  BY DEF Close
<1> QED
  BY <1>1, <1>2, SocketBufferAssumption
  DEF BufferInv, TypeOK, Steps, Growing, LengthIsTrue

LEMMA StepBufferInv ==
  ASSUME BufferInv, [Next]_vars
  PROVE  BufferInv'
<1> USE SocketBufferAssumption
<1>t. TypeOK
  BY DEF BufferInv
<1>1. CASE Accept
  <2>1. /\ active' \in BOOLEAN /\ active'
        /\ tooLarge' \in BOOLEAN
    BY <1>1, Zenon DEF Accept
  <2>2. /\ dataLen' = 0 /\ capacity' = 0 /\ allocated' = 0 /\ received' = 0
        /\ UNCHANGED <<step, message, newCap, overrun>>
    BY <1>1 DEF Accept
  <2>3. step = "idle"
    BY <1>1 DEF Accept, BufferInv, TypeOK, Steps, Growing
  <2> QED
    BY <2>1, <2>2, <2>3
    DEF BufferInv, TypeOK, Steps, Growing, LengthIsTrue
<1>2. CASE JobEnd
  BY <1>2 DEF JobEnd, BufferInv, TypeOK, Steps, Growing, LengthIsTrue
<1>3. ASSUME NEW n \in DataLen, JobData(n)
      PROVE  BufferInv'
  <2>1. /\ message' = n /\ dataLen' = dataLen /\ allocated' = allocated
        /\ step' \in {"read", "grow"}
        /\ step' = "read" => Wrap(dataLen + n) <= capacity
        /\ step' = "grow" => newCap' = IF capacity = 0 THEN Start ELSE capacity
        /\ newCap' \in {newCap, IF capacity = 0 THEN Start ELSE capacity}
    BY <1>3 DEF JobData, conn
  <2>2. /\ active /\ active' = active /\ tooLarge' = tooLarge /\ overrun' = overrun
        /\ capacity' = capacity /\ received' = received
    BY <1>3, Zenon DEF JobData, conn
  <2>3. Needed' = Wrap(dataLen + n)
    BY <2>1 DEF Needed
  <2> QED
    BY <2>1, <2>2, <2>3 DEF BufferInv, TypeOK, Steps, Growing, LengthIsTrue
<1>4. CASE Double
  <2>1. newCap \in 0..Limit
    BY <1>t DEF TypeOK
  <2>2. Wrap(2 * newCap) = 2 * newCap
    BY <2>1, Sums
  <2>3. CASE Wrap(2 * newCap) > Limit
    BY <1>4, <1>t, <2>3, CloseKeeps DEF Double
  <2>4. CASE ~(Wrap(2 * newCap) > Limit)
    BY <1>4, <2>1, <2>2, <2>4
    DEF Double, conn, BufferInv, TypeOK, Steps, Growing, Needed, LengthIsTrue
  <2> QED
    BY <2>3, <2>4
<1>5. CASE Reallocate
  <2>1. CASE Close /\ UNCHANGED tooLarge
    BY <1>t, <2>1, CloseKeeps DEF TypeOK
  <2>2. CASE /\ step = "grow" /\ newCap >= Needed
             /\ capacity' = newCap /\ allocated' = newCap
             /\ step' = "read"
             /\ UNCHANGED <<active, dataLen, message, newCap, received, overrun, tooLarge>>
    <3>1. Needed' = Needed
      BY <2>2 DEF Needed
    <3>2. Needed \in Nat
      BY <1>t, Sums DEF Needed, TypeOK
    <3> QED
      BY <2>2, <3>1, <3>2
      DEF BufferInv, TypeOK, Steps, Growing, LengthIsTrue
  <2> QED
    BY <1>5, <2>1, <2>2 DEF Reallocate
<1>6. CASE ReadPayload
  <2>1. CASE Close /\ UNCHANGED tooLarge
    BY <1>t, <2>1, CloseKeeps DEF TypeOK
  <2>2. CASE /\ step = "read"
             /\ dataLen' = Wrap(dataLen + message)
             /\ received' = received + message
             /\ overrun' = (overrun \/ dataLen + message > allocated)
             /\ step' = "idle"
             /\ UNCHANGED <<active, capacity, allocated, message, newCap, tooLarge>>
    <3>1. /\ dataLen \in 0..Limit /\ message \in 0..(Width - 1)
          /\ Wrap(dataLen + message) \in Nat
          /\ Wrap(dataLen + message) <= dataLen + message
          /\ dataLen + message < Width => Wrap(dataLen + message) = dataLen + message
      BY <1>t, Sums DEF TypeOK
    <3>2. Wrap(dataLen + message) <= allocated /\ allocated \in 0..Limit /\ active
      BY <2>2 DEF BufferInv, Growing, Needed, TypeOK
    <3>3. received' \in Nat /\ dataLen' <= received' /\ dataLen' <= allocated'
      BY <2>2, <3>1, <3>2 DEF BufferInv, LengthIsTrue, TypeOK
    <3>4. ~overrun' => dataLen' = received'
      <4>1. ~overrun' => ~overrun /\ ~(dataLen + message > allocated)
        BY <2>2
      <4> QED
        BY <2>2, <3>1, <3>2, <4>1 DEF BufferInv, LengthIsTrue
    <3>5. overrun' \in BOOLEAN
      BY <2>2, <1>t DEF TypeOK
    <3> QED
      BY <2>2, <3>1, <3>2, <3>3, <3>4, <3>5
      DEF BufferInv, TypeOK, Steps, Growing, LengthIsTrue
  <2> QED
    BY <1>6, <2>1, <2>2 DEF ReadPayload
<1>7. CASE Disconnect
  BY <1>7, <1>t, CloseKeeps DEF Disconnect, TypeOK
<1>8. CASE UNCHANGED vars
  BY <1>8 DEF vars, conn, BufferInv, TypeOK, Steps, Growing, Needed, LengthIsTrue
<1> QED
  BY <1>1, <1>2, <1>3, <1>4, <1>5, <1>6, <1>7, <1>8 DEF Next

-----------------------------------------------------------------------------

\* The invariant holds for every Width, Limit, Start and set of messages allowed.
LEMMA BufferInvariant == Spec => []BufferInv
<1>1. BufferInv /\ [Next]_vars => BufferInv'
  BY StepBufferInv
<1> QED
  BY <1>1, InitBufferInv, PTL DEF Spec

\* Lengths and capacities stay below the limit (ensure_capacity).
THEOREM LengthsBounded == Spec => []TypeOK
<1>1. BufferInv => TypeOK
  BY DEF BufferInv
<1> QED
  BY <1>1, BufferInvariant, PTL

\* read_exact of a payload stays in the buffer exactly when the sum in
\* ensure_capacity did not wrap around, whatever data_len the message has, and it
\* cannot have if data_len is below 2^32 less the limit.
THEOREM PayloadsFit == Spec => []FitsUnlessWrapped
<1>1. BufferInv => FitsUnlessWrapped
  <2> SUFFICES ASSUME BufferInv, step = "read"
               PROVE  /\ dataLen + message <= allocated <=> dataLen + message < Width
                      /\ message < Width - Limit => dataLen + message <= allocated
    BY DEF FitsUnlessWrapped
  <2>1. dataLen \in 0..Limit /\ message \in 0..(Width - 1) /\ allocated \in 0..Limit
    BY Sums DEF BufferInv, TypeOK
  <2>2. Wrap(dataLen + message) <= allocated
    BY DEF BufferInv, Growing, Needed
  <2> QED
    BY <2>1, <2>2, SocketBufferAssumption DEF Wrap
<1> QED
  BY <1>1, BufferInvariant, PTL

\* Messages that stay as far below 2^32 as the limit is above 0, such as the 64 KB
\* that the backend reads at a time (MAX_READ_BUF), never make bytes go past the
\* buffer.
THEOREM BackendsMessagesFit == (\A n \in DataLen : n < Width - Limit) => (Spec => []~overrun)
<1> SUFFICES ASSUME \A n \in DataLen : n < Width - Limit
             PROVE  Spec => []~overrun
  OBVIOUS
<1>1. BufferInv /\ ~overrun /\ [Next]_vars => ~overrun'
  <2> SUFFICES ASSUME BufferInv, ~overrun, [Next]_vars, overrun'
               PROVE  FALSE
    OBVIOUS
  <2>1. step = "read" /\ dataLen + message > allocated
    BY DEF Next, vars, conn, Accept, JobEnd, JobData, Double, Reallocate, ReadPayload,
           Disconnect, Close
  <2>2. /\ dataLen \in 0..Limit /\ allocated \in 0..Limit
        /\ message \in DataLen \cup {0}
    BY DEF BufferInv, TypeOK
  <2>3. dataLen + message < Width
    BY <2>2, SocketBufferAssumption
  <2>4. Wrap(dataLen + message) <= allocated
    BY <2>1 DEF BufferInv, Growing, Needed
  <2> QED
    BY <2>1, <2>2, <2>3, <2>4, Sums
<1>2. Init => ~overrun
  BY DEF Init
<1> QED
  BY <1>1, <1>2, BufferInvariant, PTL DEF Spec

\* data_len is what has come of the current job, as long as no byte went past the
\* buffer.
THEOREM LengthsTrue == Spec => []LengthIsTrue
<1>1. BufferInv => LengthIsTrue
  BY DEF BufferInv
<1> QED
  BY <1>1, BufferInvariant, PTL

-----------------------------------------------------------------------------
(* The limit itself.                                                       *)

\* A buffer has one of the sizes that doubling leads to, and a connection that
\* was cut for its size is closed.
Doubled ==
  /\ capacity \in Capacities \cup {0}
  /\ step = "grow" => newCap \in Capacities
  /\ tooLarge => ~active
  /\ CutOnlyIfTooLarge

LimitInv == BufferInv /\ Doubled

LEMMA InitLimitInv == Init => LimitInv
<1> SUFFICES ASSUME Init PROVE LimitInv
  OBVIOUS
<1>1. ~tooLarge /\ capacity = 0 /\ step = "idle"
  BY Zenon DEF Init
<1> QED
  BY <1>1, InitBufferInv DEF LimitInv, Doubled, CutOnlyIfTooLarge

\* A connection closed for any other reason than the size of its job.
LEMMA CloseKeepsDoubled ==
  ASSUME LimitInv, Close, UNCHANGED tooLarge
  PROVE  Doubled'
BY DEF Close, LimitInv, Doubled, CutOnlyIfTooLarge

LEMMA StepLimitInv ==
  ASSUME LimitInv, [Next]_vars
  PROVE  LimitInv'
<1> USE SocketBufferAssumption, CapacitiesAssumption
<1>1. BufferInv /\ BufferInv'
  BY StepBufferInv DEF LimitInv
<1>2. /\ dataLen \in 0..Limit /\ message \in DataLen \cup {0} /\ newCap \in 0..Limit
      /\ received \in Nat
  BY <1>1 DEF BufferInv, TypeOK
<1>3. CASE Accept
  <2>1. ~tooLarge' /\ capacity' = 0 /\ step' = step /\ newCap' = newCap
    BY <1>3 DEF Accept
  <2> QED
    BY <1>1, <2>1 DEF LimitInv, Doubled, CutOnlyIfTooLarge
<1>4. CASE JobEnd
  BY <1>1, <1>4 DEF JobEnd, LimitInv, Doubled, CutOnlyIfTooLarge
<1>5. ASSUME NEW n \in DataLen, JobData(n)
      PROVE  Doubled'
  <2>1. active /\ ~tooLarge /\ tooLarge' = tooLarge /\ capacity' = capacity
    BY <1>5, Zenon DEF JobData, conn, LimitInv, Doubled
  <2>2. step' = "read" \/ newCap' = IF capacity = 0 THEN Start ELSE capacity
    BY <1>5 DEF JobData
  <2>3. step' = "grow" => newCap' \in Capacities
    BY <2>2 DEF LimitInv, Doubled
  <2> QED
    BY <2>1, <2>3 DEF LimitInv, Doubled, CutOnlyIfTooLarge
<1>6. CASE Double
  <2>1. Wrap(2 * newCap) = 2 * newCap
    BY <1>2, Sums
  <2>2. newCap \in Capacities /\ step = "grow" /\ active
    BY <1>6 DEF Double, LimitInv, Doubled, BufferInv, Growing
  <2>3. CASE 2 * newCap > Limit
    <3>1. Close /\ tooLarge'
      BY <1>6, <2>1, <2>3 DEF Double
    <3>2. newCap = Limit
      BY <2>2, <2>3
    <3>3. Needed \in Nat /\ Needed <= received + message /\ message \in Nat
      <4>1. /\ message \in 0..(Width - 1)
            /\ Needed \in Nat /\ Needed <= dataLen + message
        BY <1>2, Sums DEF Needed
      <4>2. dataLen <= received
        BY <1>1, <2>2 DEF BufferInv, LengthIsTrue
      <4> QED
        BY <4>1, <4>2, <1>2
    <3>4. received + message > Limit
      BY <1>6, <1>2, <3>2, <3>3 DEF Double
    <3> QED
      BY <1>1, <3>1, <3>4 DEF Close, LimitInv, Doubled, CutOnlyIfTooLarge
  <2>4. CASE ~(2 * newCap > Limit)
    <3>1. newCap' = 2 * newCap /\ UNCHANGED <<conn, step, message, received, overrun, tooLarge>>
      BY <1>6, <2>1, <2>4 DEF Double
    <3>2. newCap' \in Capacities
      BY <2>2, <2>4, <3>1
    <3> QED
      BY <1>1, <3>1, <3>2 DEF conn, LimitInv, Doubled, CutOnlyIfTooLarge
  <2> QED
    BY <2>3, <2>4
<1>7. CASE Reallocate
  BY <1>1, <1>7, CloseKeepsDoubled DEF Reallocate, LimitInv, Doubled, CutOnlyIfTooLarge
<1>8. CASE ReadPayload
  <2>1. CASE Close /\ UNCHANGED tooLarge
    BY <1>1, <2>1, CloseKeepsDoubled DEF LimitInv
  <2>2. CASE /\ step = "read" /\ step' = "idle"
             /\ UNCHANGED <<active, capacity, allocated, message, newCap, tooLarge>>
    <3>1. ~tooLarge
      BY <2>2 DEF LimitInv, Doubled, BufferInv, Growing
    <3> QED
      BY <1>1, <2>2, <3>1 DEF LimitInv, Doubled, CutOnlyIfTooLarge
  <2> QED
    BY <1>8, <2>1, <2>2 DEF ReadPayload
<1>9. CASE Disconnect
  BY <1>1, <1>9, CloseKeepsDoubled DEF Disconnect, LimitInv
<1>10. CASE UNCHANGED vars
  BY <1>1, <1>10 DEF vars, conn, LimitInv, Doubled, CutOnlyIfTooLarge
<1> QED
  BY <1>1, <1>3, <1>4, <1>5, <1>6, <1>7, <1>8, <1>9, <1>10 DEF Next, LimitInv

\* A connection is cut for the size of its job only when the job is above the
\* limit: no doubling of ensure_capacity passes the limit by.
THEOREM CutsAreDue == Spec => []CutOnlyIfTooLarge
<1>1. LimitInv /\ [Next]_vars => LimitInv'
  BY StepLimitInv
<1>2. LimitInv => CutOnlyIfTooLarge
  BY DEF LimitInv, Doubled
<1> QED
  BY <1>1, <1>2, InitLimitInv, PTL DEF Spec

=============================================================================
