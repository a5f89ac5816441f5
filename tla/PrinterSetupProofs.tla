------------------------- MODULE PrinterSetupProofs -------------------------
(***************************************************************************)
(* The safety of PrinterSetup for any number of printers, helpers and      *)
(* sessions, in both modes and with every fault: SetupInv is inductive,    *)
(* and what the module says of pipes, listeners and queues is part of it.  *)
(***************************************************************************)
EXTENDS PrinterSetup, FiniteSetTheorems, SequenceTheorems, TLAPS

\* Only a session has a pipe: cleanup closes it.
PipeInSession == pipe # None => initialized

\* Helpers are numbered as they are launched.
LaunchedInOrder == \E n \in 0..MaxHelpers : Launched = 1..n

\* A helper that was heard of has told chansrv of the private cupsd.
HeardIsKnown ==
  sessionCupsd => \A h \in Helper : helper[h].state = "heard" => cupsServer

\* When every helper has got past the start of its cupsd, the socket is there: each
\* start of one takes it away and each wait sees it come back.
SocketUp ==
  /\ sessionCupsd /\ Launched # {}
  /\ \A h \in Launched : helper[h].state \in {"create", "success", "heard"}
  => socketAt # None

\* Only helpers create queues.
QueuesNeedHelper == Launched = {} => queues = NoQueues

SetupInv ==
  /\ TypeOK
  /\ PipeInSession
  /\ LaunchedInOrder
  /\ WaitingHasPipe
  /\ ListenerReachable
  /\ HeardIsKnown
  /\ SocketUp
  /\ QueuesNeedHelper
  /\ QueuesLeftAreLate

-----------------------------------------------------------------------------
(* Facts about the operators.                                              *)

LEMMA NoneIsNothing ==
  /\ None \notin Helper /\ MaxHelpers \in Nat
  /\ \A h \in Helper : h \in Nat
BY PrinterSetupAssumption DEF Helper

\* The first n numbers are n.
LEMMA CountOfPrefix ==
  ASSUME NEW n \in Nat
  PROVE  Cardinality(1..n) = n
BY FS_Interval

\* Removing the printer at i moves those after it up.
LEMMA RemoveAtList ==
  ASSUME NEW S, NEW s \in Seq(S), NEW i \in DOMAIN s
  PROVE  /\ RemoveAt(s, i) \in Seq(S)
         /\ Len(RemoveAt(s, i)) = Len(s) - 1
         /\ \A k \in 1..Len(s) - 1 : RemoveAt(s, i)[k] = s[IF k < i THEN k ELSE k + 1]
<1> DEFINE a == SubSeq(s, 1, i - 1)
           b == SubSeq(s, i + 1, Len(s))
<1>1. Len(s) \in Nat /\ i \in 1..Len(s)
  OBVIOUS
<1>2. a \in Seq(S) /\ Len(a) = i - 1 /\ \A k \in 1..i - 1 : a[k] = s[k]
  BY <1>1
<1>3. b \in Seq(S) /\ Len(b) = Len(s) - i /\ \A k \in 1..Len(s) - i : b[k] = s[i + k]
  BY <1>1
<1> HIDE DEF a, b
<1> DEFINE c == a \o b
<1>4. /\ c \in Seq(S) /\ Len(c) = Len(a) + Len(b)
      /\ \A k \in 1..Len(a) + Len(b) : c[k] = IF k <= Len(a) THEN a[k] ELSE b[k - Len(a)]
  BY <1>2, <1>3, ConcatProperties
<1> HIDE DEF c
<1>5. /\ Len(c) = Len(s) - 1
      /\ \A k \in 1..Len(s) - 1 : c[k] = IF k <= i - 1 THEN a[k] ELSE b[k - (i - 1)]
  <2>1. Len(a) + Len(b) = Len(s) - 1
    BY <1>1, <1>2, <1>3
  <2>2. Len(a) = i - 1
    BY <1>2
  <2> QED
    BY <1>4, <2>1, <2>2
<1>6. ASSUME NEW k \in 1..Len(s) - 1
      PROVE  c[k] = s[IF k < i THEN k ELSE k + 1]
  <2>1. CASE k < i
    <3>1. k <= i - 1 /\ k \in 1..i - 1
      BY <1>1, <2>1
    <3> QED
      BY <1>2, <1>5, <2>1, <3>1
  <2>2. CASE ~(k < i)
    <3> DEFINE m == k - (i - 1)
    <3>1. ~(k <= i - 1) /\ m \in 1..Len(s) - i /\ i + m = k + 1
      BY <1>1, <2>2
    <3>2. c[k] = b[m]
      BY <1>5, <3>1
    <3> HIDE DEF m
    <3> QED
      BY <1>3, <2>2, <3>1, <3>2
  <2> QED
    BY <2>1, <2>2
<1>7. RemoveAt(s, i) = c
  BY DEF RemoveAt, a, b, c
<1> QED
  BY <1>4, <1>5, <1>6, <1>7

\* The list of printers stays one of distinct ids.
PrintersOK(list) ==
  /\ list \in Seq(Printer)
  /\ Len(list) <= MaxPrinters
  /\ \A i, k \in DOMAIN list : list[i].id = list[k].id => i = k

LEMMA AppendKeepsList ==
  ASSUME PrintersOK(printers), NEW d \in Device, NEW n \in Name,
         ~Announced(d), Len(printers) < MaxPrinters
  PROVE  PrintersOK(Append(printers, [id |-> d, name |-> n, created |-> FALSE]))
<1> DEFINE p == [id |-> d, name |-> n, created |-> FALSE]
           list == Append(printers, p)
<1>1. p \in Printer /\ p.id = d
  BY DEF Printer
<1> HIDE DEF p
<1>2. /\ list \in Seq(Printer) /\ Len(list) = Len(printers) + 1
      /\ \A i \in 1..Len(printers) : list[i] = printers[i]
      /\ list[Len(printers) + 1] = p
  BY <1>1 DEF PrintersOK
<1>3. /\ Len(printers) \in Nat /\ DOMAIN printers = 1..Len(printers)
      /\ DOMAIN list = 1..Len(printers) + 1
  BY <1>2 DEF PrintersOK
<1> HIDE DEF list
<1>4. ASSUME NEW i \in DOMAIN list, NEW k \in DOMAIN list, list[i].id = list[k].id
      PROVE  i = k
  <2>1. \A m \in 1..Len(printers) : list[m].id # d
    BY <1>2, <1>3 DEF Announced
  <2>2. CASE i \in 1..Len(printers) /\ k \in 1..Len(printers)
    BY <1>2, <1>3, <1>4, <2>2 DEF PrintersOK
  <2>3. CASE i = Len(printers) + 1 \/ k = Len(printers) + 1
    BY <1>1, <1>2, <1>3, <1>4, <2>1, <2>3
  <2> QED
    BY <1>3, <2>2, <2>3
<1>5. Len(list) <= MaxPrinters
  BY <1>2, <1>3, PrinterSetupAssumption
<1> QED
  BY <1>2, <1>4, <1>5 DEF PrintersOK, list, p

LEMMA RemoveAtKeepsList ==
  ASSUME PrintersOK(printers), NEW i \in DOMAIN printers
  PROVE  PrintersOK(RemoveAt(printers, i))
<1> DEFINE list == RemoveAt(printers, i)
           at(k) == IF k < i THEN k ELSE k + 1
<1>1. /\ printers \in Seq(Printer) /\ Len(printers) \in Nat
      /\ DOMAIN printers = 1..Len(printers) /\ i \in 1..Len(printers)
      /\ Len(printers) <= MaxPrinters /\ MaxPrinters \in Nat
  BY PrinterSetupAssumption DEF PrintersOK
<1>2. /\ list \in Seq(Printer) /\ Len(list) = Len(printers) - 1
      /\ \A k \in 1..Len(printers) - 1 : list[k] = printers[at(k)]
  BY <1>1, RemoveAtList
<1> HIDE DEF list
<1>3. DOMAIN list = 1..Len(printers) - 1 /\ Len(list) <= MaxPrinters
  BY <1>1, <1>2
<1>4. ASSUME NEW k \in DOMAIN list, NEW m \in DOMAIN list, list[k].id = list[m].id
      PROVE  k = m
  <2>1. at(k) \in DOMAIN printers /\ at(m) \in DOMAIN printers
    BY <1>1, <1>3
  <2>2. at(k) = at(m)
    BY <1>2, <1>3, <1>4, <2>1 DEF PrintersOK
  <2> QED
    BY <1>1, <1>3, <2>2
<1> QED
  BY <1>2, <1>3, <1>4 DEF PrintersOK, list

LEMMA MarkingKeepsList ==
  ASSUME PrintersOK(printers)
  PROVE  PrintersOK([i \in DOMAIN printers |-> [printers[i] EXCEPT !.created = TRUE]])
<1> DEFINE p(i) == [printers[i] EXCEPT !.created = TRUE]
           list == [i \in DOMAIN printers |-> p(i)]
<1>1. /\ Len(printers) \in Nat /\ DOMAIN printers = 1..Len(printers)
      /\ \A i \in DOMAIN printers : printers[i] \in Printer
  BY DEF PrintersOK
<1>2. \A i \in DOMAIN printers : p(i) \in Printer /\ p(i).id = printers[i].id
  BY <1>1 DEF Printer
<1> HIDE DEF p
<1>3. list \in Seq(Printer) /\ Len(list) = Len(printers) /\ DOMAIN list = DOMAIN printers
  BY <1>1, <1>2
<1>4. \A i \in DOMAIN list : list[i].id = printers[i].id
  BY <1>2
<1> QED
  BY <1>3, <1>4 DEF PrintersOK, p

-----------------------------------------------------------------------------

\* Before the first client connects no helper was launched.
LEMMA InitSetupInv == Init => SetupInv
<1> SUFFICES ASSUME Init PROVE SetupInv
  OBVIOUS
<1>1. Launched = {} /\ Cardinality(Launched) = 0
  BY FS_EmptySet DEF Init, Launched
<1>2. TypeOK
  <2>1. << >> \in Seq(Printer) /\ Len(<< >>) = 0
    BY EmptySeq
  <2>2. PrintersOK(printers)
    BY <2>1, PrinterSetupAssumption DEF Init, PrintersOK
  <2>3. /\ helper \in [Helper -> [state : HelperState, todo : Seq(Printer)]]
        /\ queues \in [Name -> Queue \cup {None}]
        /\ announces \in 0..MaxAnnounces /\ sessions \in 0..MaxSessions
    BY <2>1, PrinterSetupAssumption DEF Init, HelperState, NoQueues
  <2> QED
    BY <2>2, <2>3 DEF Init, TypeOK, PrintersOK, SetupState
<1>3. LaunchedInOrder
  <2>1. 0 \in 0..MaxHelpers /\ 1..0 = {}
    BY NoneIsNothing
  <2> QED
    BY <1>1, <2>1 DEF LaunchedInOrder
<1>4. WaitingHasPipe /\ PipeInSession /\ ListenerReachable /\ HeardIsKnown
  BY DEF Init, WaitingHasPipe, PipeInSession, ListenerReachable, HeardIsKnown
<1>5. SocketUp /\ QueuesNeedHelper /\ QueuesLeftAreLate
  BY <1>1 DEF Init, SocketUp, QueuesNeedHelper, QueuesLeftAreLate, NoQueues
<1> QED
  BY <1>2, <1>3, <1>4, <1>5 DEF SetupInv

-----------------------------------------------------------------------------
(* The steps of the processes.                                             *)

\* What a step of helper h or of its cupsd must say for SetupInv to hold after it:
\* the helper moves on only while it runs, and what it adds to the queues is late
\* if chansrv no longer has its pipe.
LEMMA ProcessKeeps ==
  ASSUME SetupInv, HelperUnchanged, NEW h \in Helper, helper[h].state # "none",
         helper' \in [Helper -> [state : HelperState, todo : Seq(Printer)]],
         cupsd' \in [Helper -> {"none", "forked", "up"}],
         socketAt' \in Helper \cup {None},
         queues' \in [Name -> Queue \cup {None}], missing' \subseteq Name,
         \A g \in Helper : g # h => helper'[g] = helper[g],
         \/ helper'[h].state = helper[h].state
         \/ helper'[h].state \in {"wait", "create", "success", "failure", "orphan", "killed"},
         \A n \in Name : queues'[n] # None => \/ queues'[n] = queues[n]
                                              \/ queues'[n].late = (pipe # h),
         SocketUp'
  PROVE  SetupInv'
<1>1. /\ UNCHANGED <<sessionCupsd, samePaths, initialized, printers, setup, triggered>>
      /\ UNCHANGED <<announces, sessions, pipe, cupsServer, listener, listening, socketFile>>
      /\ UNCHANGED overlooked
  BY DEF HelperUnchanged, config, manager, sockets
<1>2. Launched' = Launched /\ Launched # {}
  BY DEF Launched
<1>3. TypeOK'
  BY <1>1 DEF SetupInv, TypeOK
<1>4. PipeInSession' /\ LaunchedInOrder' /\ ListenerReachable' /\ QueuesNeedHelper'
  BY <1>1, <1>2 DEF SetupInv, PipeInSession, LaunchedInOrder, ListenerReachable, QueuesNeedHelper
<1>5. WaitingHasPipe'
  <2>1. pipe \in Helper \cup {None}
    BY DEF SetupInv, TypeOK
  <2> QED
    BY <1>1, <1>2, <2>1 DEF SetupInv, WaitingHasPipe
<1>6. \A g \in Helper : helper'[g].state = "heard" => helper[g].state = "heard"
  OBVIOUS
<1>7. HeardIsKnown'
  BY <1>1, <1>6 DEF SetupInv, HeardIsKnown
<1>8. QueuesLeftAreLate'
  <2>1. AllHeard' => AllHeard
    BY <1>2, <1>6 DEF AllHeard, Launched
  <2>2. ~initialized => pipe # h
    BY NoneIsNothing DEF SetupInv, PipeInSession
  <2> QED
    BY <1>1, <2>1, <2>2 DEF SetupInv, QueuesLeftAreLate
<1> QED
  BY <1>3, <1>4, <1>5, <1>7, <1>8 DEF SetupInv

\* The state and the list of one helper change.
LEMMA HelperType ==
  ASSUME TypeOK, NEW h \in Helper
  PROVE  /\ helper[h].state \in HelperState /\ helper[h].todo \in Seq(Printer)
         /\ \A s \in HelperState :
               LET new == [helper EXCEPT ![h].state = s]
               IN  /\ new \in [Helper -> [state : HelperState, todo : Seq(Printer)]]
                   /\ new[h].state = s
                   /\ \A g \in Helper : g # h => new[g] = helper[g]
BY DEF TypeOK

\* A helper's report is one of the two, or the death of a helper nobody hears.
LEMMA ReportMoves ==
  ASSUME TypeOK, NEW h \in Helper, NEW r \in {"success", "failure"}, Report(h, r)
  PROVE  /\ helper' \in [Helper -> [state : HelperState, todo : Seq(Printer)]]
         /\ helper'[h].state \in {r, "killed"}
         /\ \A g \in Helper : g # h => helper'[g] = helper[g]
<1> DEFINE s == IF pipe = h THEN r ELSE "killed"
<1>1. s \in {r, "killed"} /\ s \in HelperState /\ helper' = [helper EXCEPT ![h].state = s]
  BY DEF Report, HelperState
<1> HIDE DEF s
<1> QED
  BY <1>1, HelperType

\* The socket is gone while a cupsd starts, and no helper passes without one.
LEMMA StartKeeps ==
  ASSUME SetupInv, NEW h \in Helper, StartCupsd(h) \/ AwaitCupsd(h) \/ UseSystemCupsd(h)
  PROVE  SetupInv'
<1>1. /\ TypeOK /\ helper[h].state \in {"start", "wait"} /\ h \in Launched
      /\ HelperUnchanged /\ queues' = queues /\ missing' = missing
  BY DEF SetupInv, StartCupsd, AwaitCupsd, UseSystemCupsd, Launched
<1>2. /\ helper' \in [Helper -> [state : HelperState, todo : Seq(Printer)]]
      /\ helper'[h].state \in {"wait", "create", "failure", "killed"}
      /\ helper'[h].state = "create" => socketAt' # None \/ ~sessionCupsd
      /\ \A g \in Helper : g # h => helper'[g] = helper[g]
  <2>1. CASE Report(h, "failure")
    BY <1>1, <2>1, ReportMoves
  <2>2. CASE helper' = [helper EXCEPT ![h].state = "wait"]
    <3>1. "wait" \in HelperState
      BY DEF HelperState
    <3> QED
      BY <1>1, <2>2, <3>1, HelperType
  <2>3. CASE /\ helper' = [helper EXCEPT ![h].state = "create"]
             /\ socketAt' # None \/ ~sessionCupsd
    <3>1. "create" \in HelperState
      BY DEF HelperState
    <3> QED
      BY <1>1, <2>3, <3>1, HelperType
  <2> QED
    BY <2>1, <2>2, <2>3 DEF StartCupsd, AwaitCupsd, UseSystemCupsd
<1>3. /\ cupsd' \in [Helper -> {"none", "forked", "up"}]
      /\ socketAt' \in Helper \cup {None}
      /\ queues' \in [Name -> Queue \cup {None}] /\ missing' \subseteq Name
  BY <1>1 DEF TypeOK, StartCupsd, AwaitCupsd, UseSystemCupsd
<1>4. SocketUp'
  <2>1. sessionCupsd' = sessionCupsd /\ h \in Launched'
    BY <1>1, <1>2 DEF HelperUnchanged, config, Launched
  <2> QED
    BY <1>2, <2>1 DEF SocketUp
<1>5. helper[h].state # "none"
  BY <1>1
<1> QED
  BY <1>1, <1>2, <1>3, <1>4, <1>5, ProcessKeeps

\* A queue that is created by a helper chansrv no longer hears is a late one.
LEMMA LpadminMakes ==
  ASSUME TypeOK, NEW h \in Helper, helper[h].todo # << >>, Lpadmin(h)
  PROVE  /\ queues' \in [Name -> Queue \cup {None}] /\ missing' \subseteq Name
         /\ \A n \in Name : queues'[n] # None => \/ queues'[n] = queues[n]
                                                 \/ queues'[n].late = (pipe # h)
<1> DEFINE p == Head(helper[h].todo)
           q == [device |-> p.id, late |-> pipe # h]
<1>1. p \in Printer
  BY HelperType, HeadTailProperties
<1>2. p.name \in Name /\ q \in Queue /\ q.late = (pipe # h)
  BY <1>1 DEF Printer, Queue
<1>3. queues' = [queues EXCEPT ![p.name] = q] /\ missing' = missing \ {p.name}
  BY DEF Lpadmin
<1> HIDE DEF p, q
<1> QED
  BY <1>2, <1>3 DEF TypeOK

LEMMA CreateQueueKeeps ==
  ASSUME SetupInv, NEW h \in Helper, CreateQueue(h)
  PROVE  SetupInv'
<1>1. /\ TypeOK /\ helper[h].state = "create" /\ helper[h].todo # << >>
      /\ helper' = [helper EXCEPT ![h].todo = Tail(@)]
      /\ HelperUnchanged /\ UNCHANGED <<cupsd, socketAt>>
  BY DEF SetupInv, CreateQueue
<1>2. /\ helper[h].todo \in Seq(Printer)
      /\ Tail(helper[h].todo) \in Seq(Printer) /\ Head(helper[h].todo) \in Printer
  BY <1>1, HelperType, HeadTailProperties
<1>3. /\ helper' \in [Helper -> [state : HelperState, todo : Seq(Printer)]]
      /\ \A g \in Helper : helper'[g].state = helper[g].state
      /\ \A g \in Helper : g # h => helper'[g] = helper[g]
  BY <1>1, <1>2 DEF TypeOK
<1>4. /\ queues' \in [Name -> Queue \cup {None}] /\ missing' \subseteq Name
      /\ \A n \in Name : queues'[n] # None => \/ queues'[n] = queues[n]
                                              \/ queues'[n].late = (pipe # h)
  <2>1. CASE Lpadmin(h)
    BY <1>1, <2>1, LpadminMakes
  <2>2. CASE /\ missing' = missing \cup {Head(helper[h].todo).name}
             /\ UNCHANGED queues
    <3>1. Head(helper[h].todo).name \in Name
      BY <1>2 DEF Printer
    <3> QED
      BY <1>1, <2>2, <3>1 DEF TypeOK
  <2> QED
    BY <2>1, <2>2 DEF CreateQueue
<1>5. /\ cupsd' \in [Helper -> {"none", "forked", "up"}]
      /\ socketAt' \in Helper \cup {None}
  BY <1>1 DEF TypeOK
<1>6. SocketUp'
  BY <1>1, <1>3 DEF SetupInv, SocketUp, Launched, HelperUnchanged, config
<1>7. helper[h].state # "none" /\ helper'[h].state = helper[h].state
  BY <1>1, <1>3
<1> QED
  BY <1>1, <1>3, <1>4, <1>5, <1>6, <1>7, ProcessKeeps

\* A helper ends by its report or by the alarm, and a command it leaves on its own.
LEMMA HelperEndKeeps ==
  ASSUME SetupInv, NEW h \in Helper, ReportSuccess(h) \/ HelperKilled(h) \/ CommandEnds(h)
  PROVE  SetupInv'
<1>1. /\ TypeOK /\ helper[h].state \in {"start", "wait", "create", "orphan"}
      /\ h \in Launched /\ HelperUnchanged /\ UNCHANGED <<cupsd, socketAt>>
  BY DEF SetupInv, ReportSuccess, HelperKilled, Alive, CommandEnds, Launched
<1>2. /\ helper' \in [Helper -> [state : HelperState, todo : Seq(Printer)]]
      /\ helper'[h].state \in {"success", "orphan", "killed"}
      /\ helper'[h].state = "success" => helper[h].state = "create"
      /\ \A g \in Helper : g # h => helper'[g] = helper[g]
  <2>1. CASE ReportSuccess(h)
    BY <1>1, <2>1, ReportMoves DEF ReportSuccess
  <2>2. CASE helper' = [helper EXCEPT ![h].state = "killed"]
    <3>1. "killed" \in HelperState
      BY DEF HelperState
    <3> QED
      BY <1>1, <2>2, <3>1, HelperType
  <2>3. ASSUME NEW todo \in Seq(Printer),
               helper' = [helper EXCEPT ![h].state = "orphan", ![h].todo = todo]
        PROVE  /\ helper' \in [Helper -> [state : HelperState, todo : Seq(Printer)]]
               /\ helper'[h].state = "orphan"
               /\ \A g \in Helper : g # h => helper'[g] = helper[g]
    <3>1. "orphan" \in HelperState
      BY DEF HelperState
    <3> QED
      BY <1>1, <2>3, <3>1 DEF TypeOK
  <2>4. CASE HelperKilled(h)
    <3> DEFINE todo == IF helper[h].state = "create" THEN helper[h].todo ELSE << >>
    <3>1. todo \in Seq(Printer)
      BY <1>1, HelperType, EmptySeq
    <3>2. \/ helper' = [helper EXCEPT ![h].state = "killed"]
          \/ helper' = [helper EXCEPT ![h].state = "orphan", ![h].todo = todo]
      BY <2>4 DEF HelperKilled
    <3> HIDE DEF todo
    <3> QED
      BY <2>2, <2>3, <3>1, <3>2
  <2> QED
    BY <2>1, <2>2, <2>4 DEF CommandEnds
<1>3. /\ cupsd' \in [Helper -> {"none", "forked", "up"}]
      /\ socketAt' \in Helper \cup {None}
  BY <1>1 DEF TypeOK
<1>4. /\ queues' \in [Name -> Queue \cup {None}] /\ missing' \subseteq Name
      /\ \A n \in Name : queues'[n] # None => \/ queues'[n] = queues[n]
                                              \/ queues'[n].late = (pipe # h)
  <2>1. CASE UNCHANGED <<queues, missing>>
    BY <1>1, <2>1 DEF TypeOK
  <2>2. CASE helper[h].todo # << >> /\ Lpadmin(h)
    BY <1>1, <2>2, LpadminMakes
  <2> QED
    BY <2>1, <2>2 DEF ReportSuccess, HelperKilled, CommandEnds
<1>5. SocketUp'
  <2>1. sessionCupsd' = sessionCupsd /\ Launched' = Launched
    BY <1>1, <1>2 DEF HelperUnchanged, config, Launched
  <2>2. ASSUME \A g \in Launched : helper'[g].state \in {"create", "success", "heard"}
        PROVE  \A g \in Launched : helper[g].state \in {"create", "success", "heard"}
    BY <1>1, <1>2, <2>2 DEF Launched
  <2> QED
    BY <1>1, <2>1, <2>2 DEF SetupInv, SocketUp
<1>6. helper[h].state # "none"
  BY <1>1
<1> QED
  BY <1>1, <1>2, <1>3, <1>4, <1>5, <1>6, ProcessKeeps

\* A new cupsd has a socket and some of the queues there were.
LEMMA CupsdListensKeeps ==
  ASSUME SetupInv, NEW h \in Helper, CupsdListens(h)
  PROVE  SetupInv'
<1>1. /\ UNCHANGED <<sessionCupsd, samePaths, initialized, printers, setup, triggered>>
      /\ UNCHANGED <<announces, sessions, pipe, cupsServer, listener, listening, socketFile>>
      /\ UNCHANGED <<helper, overlooked>>
      /\ Launched' = Launched
  BY DEF CupsdListens, HelperUnchanged, config, manager, sockets, Launched
<1>2. /\ cupsd' \in [Helper -> {"none", "forked", "up"}] /\ socketAt' = h
      /\ queues' \in [Name -> Queue \cup {None}]
      /\ \A n \in Name : queues'[n] \in {queues[n], None}
      /\ missing' \subseteq Name
  BY DEF CupsdListens, SetupInv, TypeOK
<1>3. TypeOK'
  BY <1>1, <1>2 DEF SetupInv, TypeOK
<1>4. /\ PipeInSession' /\ LaunchedInOrder' /\ WaitingHasPipe'
      /\ ListenerReachable' /\ HeardIsKnown'
  BY <1>1 DEF SetupInv, PipeInSession, LaunchedInOrder, WaitingHasPipe, ListenerReachable,
              HeardIsKnown
<1>5. SocketUp'
  BY <1>2, NoneIsNothing DEF SocketUp
<1>6. QueuesNeedHelper'
  <2>1. queues = NoQueues => queues' = NoQueues
    BY <1>2 DEF NoQueues
  <2> QED
    BY <1>1, <2>1 DEF SetupInv, QueuesNeedHelper, NoQueues
<1>7. QueuesLeftAreLate'
  <2>1. AllHeard' <=> AllHeard
    BY <1>1 DEF AllHeard
  <2> QED
    BY <1>1, <1>2, <2>1 DEF SetupInv, QueuesLeftAreLate
<1> QED
  BY <1>3, <1>4, <1>5, <1>6, <1>7 DEF SetupInv

-----------------------------------------------------------------------------
(* The steps of chansrv.                                                   *)

\* Steps that leave the processes alone and let nobody wait who did not.
LEMMA ListStepKeeps ==
  ASSUME SetupInv, UNCHANGED <<config, pipe, cupsServer, processes, sockets>>,
         initialized', PrintersOK(printers'),
         setup' \in SetupState, triggered' \in BOOLEAN,
         announces' \in 0..MaxAnnounces, sessions' \in 0..MaxSessions,
         setup' = "WAITING" <=> pipe # None,
         queues' \in [Name -> Queue \cup {None}],
         \A n \in Name : queues'[n] \in {queues[n], None},
         overlooked' \subseteq Device, missing' \subseteq Name
  PROVE  SetupInv'
<1>1. /\ UNCHANGED <<sessionCupsd, samePaths, helper, cupsd, socketAt>>
      /\ UNCHANGED <<listener, listening, socketFile>>
      /\ Launched' = Launched
  BY DEF config, processes, sockets, Launched
<1>2. initialized' \in BOOLEAN
  OBVIOUS
<1>3. TypeOK'
  BY <1>1 DEF SetupInv, TypeOK, PrintersOK
<1>4. PipeInSession' /\ LaunchedInOrder' /\ ListenerReachable' /\ HeardIsKnown' /\ SocketUp'
  BY <1>1 DEF SetupInv, PipeInSession, LaunchedInOrder, ListenerReachable, HeardIsKnown, SocketUp
<1>5. WaitingHasPipe'
  BY <1>1 DEF SetupInv, WaitingHasPipe
<1>6. QueuesNeedHelper'
  <2>1. queues = NoQueues => queues' = NoQueues
    BY DEF NoQueues
  <2> QED
    BY <1>1, <2>1 DEF SetupInv, QueuesNeedHelper, NoQueues
<1>7. QueuesLeftAreLate'
  BY DEF QueuesLeftAreLate
<1> QED
  BY <1>3, <1>4, <1>5, <1>6, <1>7 DEF SetupInv

\* A new session starts without the pipe of the session before.
LEMMA InitializeKeeps ==
  ASSUME SetupInv, Initialize
  PROVE  SetupInv'
<1>1. /\ PrintersOK(printers') /\ "IDLE" \in SetupState
      /\ queues' \in [Name -> Queue \cup {None}]
      /\ announces' \in 0..MaxAnnounces /\ sessions' \in 0..MaxSessions
      /\ overlooked' \subseteq Device /\ missing' \subseteq Name
  BY PrinterSetupAssumption DEF SetupInv, TypeOK, Initialize, PrintersOK, SetupState, history
<1>2. pipe = None
  BY DEF SetupInv, PipeInSession, Initialize
<1> QED
  BY <1>1, <1>2, ListStepKeeps DEF Initialize

\* A hot-plugged printer only ends the rest after a finished setup.
LEMMA DeviceAnnounceKeeps ==
  ASSUME SetupInv, NEW d \in Device, NEW n \in Name, DeviceAnnounce(d, n)
  PROVE  SetupInv'
<1>1. PrintersOK(printers')
  <2>1. PrintersOK(printers)
    BY DEF SetupInv, TypeOK, PrintersOK
  <2> QED
    BY <2>1, AppendKeepsList DEF DeviceAnnounce
<1>2. /\ initialized' /\ queues' = queues /\ queues \in [Name -> Queue \cup {None}]
      /\ announces' \in 0..MaxAnnounces /\ sessions' \in 0..MaxSessions
      /\ overlooked' \subseteq Device /\ missing' \subseteq Name
  BY PrinterSetupAssumption DEF SetupInv, TypeOK, DeviceAnnounce, Overlook
<1>3. /\ setup' \in SetupState /\ triggered' \in BOOLEAN
      /\ setup' = "WAITING" <=> pipe # None
  BY DEF SetupInv, TypeOK, WaitingHasPipe, DeviceAnnounce, SetupState
<1> QED
  BY <1>1, <1>2, <1>3, ListStepKeeps DEF DeviceAnnounce

\* A removed printer takes its queue along.
LEMMA DeviceRemoveKeeps ==
  ASSUME SetupInv, NEW d \in Device, DeviceRemove(d)
  PROVE  SetupInv'
<1>1. PICK i \in DOMAIN printers :
         /\ printers' = RemoveAt(printers, i)
         /\ \/ /\ queues' = [queues EXCEPT ![printers[i].name] = None]
               /\ missing' = missing \cup {printers[i].name}
            \/ UNCHANGED <<queues, missing>>
  BY DEF DeviceRemove
<1>2. PrintersOK(printers')
  <2>1. PrintersOK(printers)
    BY DEF SetupInv, TypeOK, PrintersOK
  <2> QED
    BY <1>1, <2>1, RemoveAtKeepsList
<1>3. /\ queues' \in [Name -> Queue \cup {None}]
      /\ \A n \in Name : queues'[n] \in {queues[n], None}
      /\ overlooked' \subseteq Device /\ missing' \subseteq Name
  <2>1. /\ queues \in [Name -> Queue \cup {None}] /\ missing \subseteq Name
        /\ overlooked' = overlooked /\ overlooked \subseteq Device
    BY DEF SetupInv, TypeOK, DeviceRemove
  <2>2. printers[i].name \in Name
    <3>1. printers \in Seq(Printer)
      BY DEF SetupInv, TypeOK
    <3>2. printers[i] \in Printer
      BY <3>1
    <3> QED
      BY <3>2 DEF Printer
  <2> QED
    BY <1>1, <2>1, <2>2
<1>4. /\ initialized' /\ setup' = setup /\ triggered' = triggered
      /\ setup' \in SetupState /\ triggered' \in BOOLEAN
      /\ announces' \in 0..MaxAnnounces /\ sessions' \in 0..MaxSessions
      /\ setup' = "WAITING" <=> pipe # None
  BY DEF SetupInv, TypeOK, WaitingHasPipe, DeviceRemove
<1> QED
  BY <1>2, <1>3, <1>4, ListStepKeeps DEF DeviceRemove

\* The helper launched is the next one and the one chansrv waits for.
LEMMA LaunchHelperKeeps ==
  ASSUME SetupInv, NEW h \in Helper, LaunchHelper(h)
  PROVE  SetupInv'
<1>1. PICK n \in 0..MaxHelpers : Launched = 1..n
  BY DEF SetupInv, LaunchedInOrder
<1>2. /\ h = n + 1 /\ n \in Nat /\ n + 1 \in 0..MaxHelpers
  BY <1>1, CountOfPrefix, NoneIsNothing DEF LaunchHelper, Helper
<1>3. /\ UNCHANGED <<sessionCupsd, samePaths, cupsd, socketAt, queues, cupsServer>>
      /\ UNCHANGED <<listener, listening, socketFile, printers, announces, sessions>>
      /\ initialized /\ initialized' /\ initialized' \in BOOLEAN
      /\ pipe' = h /\ setup' = "WAITING" /\ triggered' = TRUE
      /\ overlooked' = {} /\ missing' = missing
  BY DEF LaunchHelper, config, sockets, SetupInv, TypeOK
<1>4. /\ helper' \in [Helper -> [state : HelperState, todo : Seq(Printer)]]
      /\ helper'[h].state = "start"
      /\ \A g \in Helper : g # h => helper'[g] = helper[g]
  BY DEF SetupInv, TypeOK, LaunchHelper, HelperState
<1>5. Launched' = 1..n + 1 /\ h \in Launched'
  <2>1. Launched' = Launched \cup {h}
    BY <1>4 DEF Launched
  <2> QED
    BY <1>1, <1>2, <2>1
<1>6. TypeOK'
  BY <1>3, <1>4 DEF SetupInv, TypeOK, SetupState
<1>7. LaunchedInOrder'
  BY <1>2, <1>5 DEF LaunchedInOrder
<1>8. WaitingHasPipe' /\ PipeInSession'
  <2>1. Cardinality(1..n + 1) = n + 1
    BY <1>2, CountOfPrefix
  <2>2. h = Cardinality(Launched')
    BY <1>2, <1>5, <2>1
  <2>3. h # None
    BY NoneIsNothing
  <2> QED
    BY <1>3, <1>4, <2>2, <2>3 DEF WaitingHasPipe, PipeInSession
<1>9. ListenerReachable' /\ SocketUp' /\ QueuesNeedHelper' /\ QueuesLeftAreLate'
  BY <1>3, <1>4, <1>5 DEF SetupInv, ListenerReachable, SocketUp, QueuesNeedHelper, QueuesLeftAreLate
<1>10. HeardIsKnown'
  BY <1>3, <1>4 DEF SetupInv, HeardIsKnown
<1> QED
  BY <1>6, <1>7, <1>8, <1>9, <1>10 DEF SetupInv

\* Hearing of a helper ends the wait; a success makes known what it was one of.
LEMMA SetupCompleteKeeps ==
  ASSUME SetupInv, SetupComplete
  PROVE  SetupInv'
<1>1. /\ pipe \in Helper /\ helper[pipe].state \in {"success", "failure", "killed"}
      /\ initialized /\ initialized' = initialized /\ initialized \in BOOLEAN
      /\ pipe' = None /\ setup' = "DONE"
      /\ UNCHANGED <<sessionCupsd, samePaths, triggered, announces, sessions, cupsd, socketAt>>
      /\ UNCHANGED <<overlooked, missing>>
  BY DEF SetupInv, TypeOK, SetupComplete, Exited, config, history
<1>2. PICK s \in {"heard", "unheard"} :
         /\ helper' = [helper EXCEPT ![pipe].state = s]
         /\ s = "heard" => /\ helper[pipe].state = "success"
                           /\ cupsServer' = (cupsServer \/ sessionCupsd)
         /\ s = "unheard" => cupsServer' = cupsServer
  BY DEF SetupComplete
<1>3. /\ helper' \in [Helper -> [state : HelperState, todo : Seq(Printer)]]
      /\ helper'[pipe].state = s
      /\ \A g \in Helper : g # pipe => helper'[g] = helper[g]
  <2>1. s \in HelperState /\ TypeOK
    BY DEF HelperState, SetupInv
  <2> QED
    BY <1>1, <1>2, <2>1, HelperType
<1>4. Launched' = Launched
  BY <1>1, <1>3 DEF Launched
<1>5. PrintersOK(printers')
  <2>1. PrintersOK(printers)
    BY DEF SetupInv, TypeOK, PrintersOK
  <2>2. \/ printers' = printers
        \/ printers' = [i \in DOMAIN printers |-> [printers[i] EXCEPT !.created = TRUE]]
    BY DEF SetupComplete
  <2> QED
    BY <2>1, <2>2, MarkingKeepsList
<1>6. /\ queues' \in {queues, NoQueues} /\ NoQueues \in [Name -> Queue \cup {None}]
      /\ queues \in [Name -> Queue \cup {None}]
  BY DEF SetupInv, TypeOK, SetupComplete, NoQueues
<1>7. /\ listener' \in Helper \cup {None} /\ listening' \subseteq Helper
      /\ socketFile' \in Helper \cup {None}
      /\ ListenerReachable'
  BY <1>1 DEF SetupInv, TypeOK, ListenerReachable, SetupComplete, InitListener, sockets
<1>8. cupsServer' \in BOOLEAN /\ (cupsServer => cupsServer')
  BY <1>2 DEF SetupInv, TypeOK
<1>9. TypeOK'
  BY <1>1, <1>3, <1>5, <1>6, <1>7, <1>8 DEF SetupInv, TypeOK, PrintersOK, SetupState
<1>10. PipeInSession' /\ WaitingHasPipe'
  BY <1>1 DEF PipeInSession, WaitingHasPipe
<1>11. LaunchedInOrder'
  BY <1>4 DEF SetupInv, LaunchedInOrder
<1>12. HeardIsKnown'
  BY <1>1, <1>2, <1>3, <1>8 DEF SetupInv, HeardIsKnown
<1>13. SocketUp'
  <2>1. ASSUME \A g \in Launched : helper'[g].state \in {"create", "success", "heard"}
        PROVE  \A g \in Launched : helper[g].state \in {"create", "success", "heard"}
    <3>1. pipe \in Launched
      BY <1>1 DEF Launched
    <3> QED
      BY <1>2, <1>3, <2>1, <3>1 DEF Launched
  <2> QED
    BY <1>1, <1>4, <2>1 DEF SetupInv, SocketUp
<1>14. QueuesNeedHelper' /\ QueuesLeftAreLate'
  BY <1>1, <1>4, <1>6 DEF SetupInv, QueuesNeedHelper, QueuesLeftAreLate, NoQueues
<1> QED
  BY <1>7, <1>9, <1>10, <1>11, <1>12, <1>13, <1>14 DEF SetupInv

\* Giving up a listener leaves none.
LEMMA AcceptFailsKeeps ==
  ASSUME SetupInv, AcceptFails
  PROVE  SetupInv'
<1>1. /\ UNCHANGED <<sessionCupsd, samePaths, initialized, printers, setup, triggered>>
      /\ UNCHANGED <<announces, sessions, pipe, cupsServer, helper, cupsd, socketAt, queues>>
      /\ listener' = None /\ listening' \subseteq listening /\ socketFile' = socketFile
      /\ Launched' = Launched /\ UNCHANGED <<overlooked, missing>>
  BY DEF AcceptFails, config, manager, processes, history, Launched
<1>2. TypeOK'
  BY <1>1 DEF SetupInv, TypeOK
<1>3. /\ PipeInSession' /\ LaunchedInOrder' /\ WaitingHasPipe' /\ HeardIsKnown'
      /\ SocketUp' /\ QueuesNeedHelper'
  BY <1>1 DEF SetupInv, PipeInSession, LaunchedInOrder, WaitingHasPipe, HeardIsKnown, SocketUp,
              QueuesNeedHelper, NoQueues
<1>4. ListenerReachable' /\ QueuesLeftAreLate'
  BY <1>1 DEF ListenerReachable, QueuesLeftAreLate, SetupInv, AllHeard, Launched
<1> QED
  BY <1>2, <1>3, <1>4 DEF SetupInv

\* The sweep gets to all queues if every helper was heard of: then chansrv knows of
\* the private cupsd, and its socket is there.
LEMMA CleanupKeeps ==
  ASSUME SetupInv, Cleanup
  PROVE  SetupInv'
<1>1. /\ UNCHANGED <<sessionCupsd, samePaths, setup, triggered, announces, sessions>>
      /\ UNCHANGED <<cupsServer, helper, cupsd, socketAt, socketFile>>
      /\ initialized' = FALSE /\ pipe' = None /\ listener' = None /\ printers' = << >>
      /\ listening' \subseteq listening
      /\ queues' = IF Reached THEN NoQueues ELSE queues
      /\ Launched' = Launched /\ UNCHANGED <<overlooked, missing>>
  BY DEF Cleanup, config, processes, history, Launched
<1>2. TypeOK'
  <2>1. PrintersOK(<< >>)
    BY EmptySeq, PrinterSetupAssumption DEF PrintersOK
  <2>2. queues' \in [Name -> Queue \cup {None}]
    BY <1>1 DEF SetupInv, TypeOK, NoQueues
  <2> QED
    BY <1>1, <2>1, <2>2 DEF SetupInv, TypeOK, PrintersOK
<1>3. /\ PipeInSession' /\ LaunchedInOrder' /\ WaitingHasPipe' /\ ListenerReachable'
      /\ HeardIsKnown' /\ SocketUp'
  BY <1>1 DEF SetupInv, PipeInSession, LaunchedInOrder, WaitingHasPipe, ListenerReachable,
              HeardIsKnown, SocketUp
<1>4. QueuesNeedHelper'
  BY <1>1 DEF SetupInv, QueuesNeedHelper, NoQueues
<1>5. QueuesLeftAreLate'
  <2>1. ASSUME sessionCupsd => samePaths /\ AllHeard
        PROVE  Reached \/ queues = NoQueues
    <3>1. CASE ~sessionCupsd
      BY <3>1 DEF Reached
    <3>2. CASE Launched = {}
      BY <3>2 DEF SetupInv, QueuesNeedHelper
    <3>3. CASE sessionCupsd /\ Launched # {}
      <4>1. cupsServer
        BY <2>1, <3>3 DEF SetupInv, HeardIsKnown, AllHeard, Launched
      <4>2. socketAt # None
        BY <2>1, <3>3 DEF SetupInv, SocketUp, AllHeard
      <4> QED
        BY <2>1, <3>3, <4>1, <4>2 DEF Reached
    <3> QED
      BY <3>1, <3>2, <3>3
  <2>2. ASSUME (sessionCupsd => samePaths /\ AllHeard)'
        PROVE  queues' = NoQueues
    <3>1. sessionCupsd => samePaths /\ AllHeard
      BY <1>1, <2>2 DEF AllHeard
    <3> QED
      BY <1>1, <2>1, <3>1
  <2> QED
    BY <2>2 DEF QueuesLeftAreLate, NoQueues
<1> QED
  BY <1>2, <1>3, <1>4, <1>5 DEF SetupInv

-----------------------------------------------------------------------------

\* Every step of chansrv, of a helper and of a cupsd keeps the invariant.
LEMMA StepSetupInv == SetupInv /\ [Next]_vars => SetupInv'
<1> SUFFICES ASSUME SetupInv, [Next]_vars PROVE SetupInv'
  OBVIOUS
<1>1. CASE Initialize
  BY <1>1, InitializeKeeps
<1>2. CASE \E d \in Device, n \in Name : DeviceAnnounce(d, n)
  BY <1>2, DeviceAnnounceKeeps
<1>3. CASE \E d \in Device : DeviceRemove(d)
  BY <1>3, DeviceRemoveKeeps
<1>4. CASE \E h \in Helper : LaunchHelper(h)
  BY <1>4, LaunchHelperKeeps
<1>5. CASE \E h \in Helper : HelperStep(h) \/ HelperKilled(h) \/ CommandEnds(h)
  BY <1>5, StartKeeps, CreateQueueKeeps, HelperEndKeeps DEF HelperStep
<1>6. CASE \E h \in Helper : CupsdListens(h)
  BY <1>6, CupsdListensKeeps
<1>7. CASE SetupComplete
  BY <1>7, SetupCompleteKeeps
<1>8. CASE AcceptFails
  BY <1>8, AcceptFailsKeeps
<1>9. CASE Cleanup
  BY <1>9, CleanupKeeps
<1>10. CASE UNCHANGED vars
  <2>1. /\ UNCHANGED <<sessionCupsd, samePaths, initialized, printers, setup, triggered>>
        /\ UNCHANGED <<announces, sessions, pipe, cupsServer, helper, cupsd, socketAt, queues>>
        /\ UNCHANGED <<listener, listening, socketFile, overlooked, missing, Launched>>
    BY <1>10 DEF vars, config, manager, processes, sockets, history, Launched
  <2> QED
    BY <2>1 DEF SetupInv, TypeOK, PipeInSession, LaunchedInOrder, WaitingHasPipe,
                ListenerReachable, HeardIsKnown, SocketUp, QueuesNeedHelper, QueuesLeftAreLate,
                AllHeard, NoQueues
<1> QED
  BY <1>1, <1>2, <1>3, <1>4, <1>5, <1>6, <1>7, <1>8, <1>9, <1>10 DEF Next

\* SetupInv holds in every reachable state.
THEOREM SetupSafe == Spec => []SetupInv
<1> QED
  BY InitSetupInv, StepSetupInv, PTL DEF Spec

\* The list of printers, the processes and the sockets are always well-formed; no
\* device id is in the list twice.
THEOREM SetupTypes == Spec => []TypeOK
<1>1. SetupInv => TypeOK
  BY DEF SetupInv
<1> QED
  BY <1>1, SetupSafe, PTL

\* chansrv waits exactly while it has the pipe of the last helper, of which it has
\* not heard yet, over any number of sessions that end while helpers run.
THEOREM WaitsOnPipe == Spec => []WaitingHasPipe
<1>1. SetupInv => WaitingHasPipe
  BY DEF SetupInv
<1> QED
  BY <1>1, SetupSafe, PTL

\* Backends that connect to the socket file get to the listener chansrv polls.
THEOREM ListenersFound == Spec => []ListenerReachable
<1>1. SetupInv => ListenerReachable
  BY DEF SetupInv
<1> QED
  BY <1>1, SetupSafe, PTL

\* A disconnect leaves no queues but those that an outliving helper adds, as long
\* as chansrv could know of the cupsd that has them.
THEOREM SweepsAreComplete == Spec => []QueuesLeftAreLate
<1>1. SetupInv => QueuesLeftAreLate
  BY DEF SetupInv
<1> QED
  BY <1>1, SetupSafe, PTL

=============================================================================
