---------------------------- MODULE PrinterNames ----------------------------
(***************************************************************************)
(* The names that tie a print job to its printer.  chansrv parses a        *)
(* printer's announcement, makes a CUPS queue name of the printer's name   *)
(* and creates the queue with a device URI that holds the session and the  *)
(* device id; the backend that cupsd starts takes both from the URI; and   *)
(* chansrv finds the queues of its session again by the beginning of their *)
(* names.  With the system's cupsd all this happens in one name space that *)
(* the sessions of all users share.                                        *)
(*                                                                         *)
(* Characters are numbers: code units of UTF-16 in an announcement, ASCII  *)
(* everywhere else.  How a helper runs is in PrinterSetup; here it takes a *)
(* step for its queues and one for its report, and is over before its      *)
(* session is.                                                             *)
(***************************************************************************)
EXTENDS Naturals, Sequences, SequencesExt

CONSTANTS
  Session,       \* display numbers
  Device,        \* device ids of redirected printers
  Announcement,  \* DEVICE_ANNOUNCEs clients send: see AnnouncementType
  MaxName,       \* PRINTER_MAX_NAME_LEN - 1
  MaxPrinters,   \* PRINTER_MAX_PRINTERS
  Faults,        \* the faults of the environment: see FaultKinds
  MixedModes,    \* sesman.ini may have changed between the starts of sessions
  MaxStarts,     \* bound: sessions started
  MaxAnnounces   \* bound: printers announced

FaultKinds == {"helper",  \* the helper ends without success
               "lpadmin", \* printer_cups_create_queue fails
               "crash"}   \* chansrv ends without devredir_printer_cleanup

Ascii == 1..127
CodeUnit == 0..65535

\* A name is empty or a sequence of code units; the cached data are one code
\* unit for two bytes; cut is how much of the message's end is missing.
AnnouncementType ==
  [dosName : Seq(Ascii), pnpName : Seq(CodeUnit), driverName : Seq(CodeUnit),
   printerName : Seq(CodeUnit), cached : Seq(CodeUnit), cut : Nat]

ASSUME PrinterNamesAssumption ==
  /\ Session \subseteq Nat \ {0}
  /\ Device \subseteq Nat \ {0}
  /\ Announcement \subseteq AnnouncementType
  /\ MaxName \in Nat \ {0}
  /\ {MaxPrinters, MaxStarts, MaxAnnounces} \subseteq Nat
  /\ Faults \subseteq FaultKinds
  /\ MixedModes \in BOOLEAN

\* The cupsd of the system; the private one of session s is called s.
System == 0
Instance == Session \cup {System}

VARIABLES
  private,     \* private[s]: g_use_session_cupsd, as sesman.ini had it for s
  samePaths,   \* samePaths[s]: XDG_RUNTIME_DIR is not set, so that a private cupsd
               \* has its socket where chansrv will look for it
  active,      \* sessions with g_initialized
  printers,    \* printers[s]: g_printer_mgr.printers of chansrv s; seen notes
               \* that a helper has had the printer in its copy of the list
  helper,      \* helper[s]: none to hear of ("idle" before one is launched,
               \* "done" after it), or how it ended, not yet heard of
  cupsServer,  \* sessions whose chansrv has CUPS_SERVER in its environment
  queues,      \* queues[c]: the device URIs of cupsd c, by queue name
  crashed,     \* sessions whose last chansrv crashed
  excused,     \* excused[s]: queue names two printers of s have had at a time, that
               \* lpadmin failed for, that were swept when a helper failed, or that a
               \* helper was launched too early for; until the next success
  starts,      \* how many sessions were started (bounded)
  announces    \* how often a printer was announced (bounded)

config == <<private, samePaths>>
vars == <<config, active, printers, helper, cupsServer, queues, crashed, excused, starts,
          announces>>

-----------------------------------------------------------------------------
(* Numbers and names as characters.                                        *)

Digit(n) == IF n < 10 THEN 48 + n ELSE 87 + n
DigitValue(c) == IF c < 58 THEN c - 48 ELSE c - 87

\* "%d" and "%x", and atoi and strtoul for what these print.
Printed(base, n) ==
  LET digits[m \in Nat] == IF m < base THEN <<Digit(m)>>
                            ELSE Append(digits[m \div base], Digit(m % base))
  IN  digits[n]

Scanned(base, s) ==
  LET value[i \in 0..Len(s)] == IF i = 0 THEN 0 ELSE base * value[i - 1] + DigitValue(s[i])
  IN  value[Len(s)]

Colon == 58
Slash == 47
Underscore == 95
Xrdp == <<120, 114, 100, 112, Underscore>>           \* "xrdp_"
PrinterWord == <<112, 114, 105, 110, 116, 101, 114>> \* "printer"

IsAlnum(c) == c \in 48..57 \cup 65..90 \cup 97..122

\* What comes before the first character c of s, all of s if there is none.
Before(s, c) ==
  LET hits == {i \in DOMAIN s : s[i] = c}
  IN  IF hits = {} THEN s ELSE SubSeq(s, 1, (CHOOSE i \in hits : \A k \in hits : i <= k) - 1)

After(s, c) == SubSeq(s, Len(Before(s, c)) + 2, Len(s))

\* printer_sanitize_name: session 0 stands for a private cupsd.
Prefix(session) ==
  IF session > 0 THEN Xrdp \o Append(Printed(10, session), Underscore) ELSE Xrdp

\* Mutant: punctuation is kept in queue names.
SanitizeName_KeepsPunctuation(name, session) ==
  Prefix(session) \o
    IF name = << >> THEN PrinterWord
    ELSE [i \in DOMAIN name |-> IF name[i] > 32 THEN name[i] ELSE Underscore]

SanitizeName(name, session) ==
  Prefix(session) \o
    IF name = << >> THEN PrinterWord
    ELSE [i \in DOMAIN name |-> IF IsAlnum(name[i]) \/ name[i] = 45 THEN name[i]
                                ELSE Underscore]

-----------------------------------------------------------------------------
(* The announcement: four lengths and one block of data.                   *)

Lengths(a) == [pnp |-> Len(a.pnpName), driver |-> Len(a.driverName),
               printer |-> Len(a.printerName), cached |-> Len(a.cached)]

Data(a) ==
  LET all == a.pnpName \o a.driverName \o a.printerName \o a.cached
  IN  SubSeq(all, 1, Len(all) - a.cut)

\* "Unicode LE to UTF-8 basic conversion": printable ASCII up to a zero.
ToAscii(units) ==
  LET text == Before(units, 0)
      ascii[i \in 0..Len(text)] ==
        IF i = 0 THEN << >>
        ELSE IF text[i] \in 32..126 /\ Len(ascii[i - 1]) < MaxName
          THEN Append(ascii[i - 1], text[i]) ELSE ascii[i - 1]
  IN  ascii[Len(text)]

Complete(a) ==
  LET l == Lengths(a) IN Len(Data(a)) >= l.pnp + l.driver + l.printer + l.cached

\* Mutant: the name of the driver is taken for the printer's.
PrinterNameIn_NoDriver(a) ==
  LET l == Lengths(a)
  IN  ToAscii(SubSeq(Data(a), l.pnp + 1, l.pnp + l.printer))

\* The printer's name in the data, and the DOS name if that is empty.
PrinterNameIn(a) ==
  LET l == Lengths(a)
      first == l.pnp + l.driver + 1
  IN  ToAscii(SubSeq(Data(a), first, first + l.printer - 1))

BaseName(a) == IF PrinterNameIn(a) # << >> THEN PrinterNameIn(a) ELSE a.dosName

-----------------------------------------------------------------------------
(* The queues.                                                             *)

\* What follows xrdp-printer:// in the URI of printer_cups_create_queue.
Uri(s, d) == Printed(10, s) \o <<Slash>> \o Printed(16, d)

\* parse_device_uri of the backend.
UriSession(uri) == Scanned(10, Before(uri, Slash))
UriDevice(uri) == Scanned(16, After(uri, Slash))

\* The number by which printer_dev_add and the sweep name the queues of s.
NameSession(s) == IF private[s] THEN 0 ELSE s

\* The cupsd that the helper of s uses, and the one that chansrv's commands go to.
HelpersCupsd(s) == IF private[s] THEN s ELSE System
ChansrvsCupsd(s) == IF private[s] /\ s \in cupsServer THEN s ELSE System

Without(map, names) == [q \in DOMAIN map \ names |-> map[q]]

\* Mutant: a queue belongs to s if its name begins with xrdp_<s>.
SweptNames_NoUnderscore(c, s) ==
  LET prefix == IF private[s] THEN Xrdp ELSE Xrdp \o Printed(10, s)
  IN  {q \in DOMAIN queues[c] : IsPrefix(prefix, Before(q, Colon))}

\* printer_cups_cleanup_stale_queues reads the names off the output of lpstat,
\* up to a colon, and removes the queues of these names.
SweptNames(c, s) ==
  {q \in {Before(n, Colon) : n \in DOMAIN queues[c]} : IsPrefix(Prefix(NameSession(s)), q)}

\* The commands of chansrv find a cupsd: CUPS_SERVER may name a socket in /tmp while
\* the private cupsd has its own in XDG_RUNTIME_DIR (handle_setup_complete against
\* get_session_base_dir).
FindsCupsd(s) == s \in cupsServer => samePaths[s]

\* They get to the cupsd that has the queues of s.
Reaches(s) == private[s] => s \in cupsServer /\ samePaths[s]

Swept(s) ==
  LET c == ChansrvsCupsd(s)
  IN  IF FindsCupsd(s) THEN [queues EXCEPT ![c] = Without(@, SweptNames(c, s))] ELSE queues

-----------------------------------------------------------------------------
(* The sessions.                                                           *)

\* Mutant: an announced device is not recognised.
Known_Never(s, d) == FALSE

\* printer_dev_find
Known(s, d) == \E i \in DOMAIN printers[s] : printers[s][i].id = d

QueueNames(list) == {list[i].queue : i \in DOMAIN list}

SharedNames(list) ==
  {n \in QueueNames(list) : \E i, k \in DOMAIN list :
                              i # k /\ list[i].queue = n /\ list[k].queue = n}

\* devredir_printer_init in a chansrv process of its own.
Start(s) ==
  /\ s \notin active
  /\ starts < MaxStarts
  /\ active' = active \cup {s}
  /\ printers' = [printers EXCEPT ![s] = << >>]
  /\ helper' = [helper EXCEPT ![s] = "idle"]
  /\ cupsServer' = cupsServer \ {s}
  /\ excused' = [excused EXCEPT ![s] = {}]
  /\ starts' = starts + 1
  /\ UNCHANGED <<config, queues, crashed, announces>>

\* devredir_printer_device_announce with printer_dev_add.
DeviceAnnounce(s, d, a) ==
  LET name == SanitizeName(BaseName(a), NameSession(s))
  IN  /\ s \in active
      /\ announces < MaxAnnounces
      /\ announces' = announces + 1
      /\ Complete(a)
      /\ Len(printers[s]) < MaxPrinters
      /\ ~Known(s, d)
      /\ printers' = [printers EXCEPT ![s] =
                        Append(@, [id |-> d, queue |-> name, from |-> a,
                                   seen |-> FALSE, created |-> FALSE])]
      /\ helper' = [helper EXCEPT ![s] = IF @ = "done" THEN "idle" ELSE @]
      /\ excused' = [excused EXCEPT ![s] = @ \cup SharedNames(printers'[s])]
      /\ UNCHANGED <<config, active, cupsServer, queues, crashed, starts>>

\* The queues of map and those that lpadmin makes for some printers of s: the last one
\* of a name stays.
WithQueues(map, s, made) ==
  LET named(q) == {i \in made : printers[s][i].queue = q}
  IN  [q \in DOMAIN map \cup {printers[s][i].queue : i \in made} |->
         IF named(q) = {} THEN map[q] ELSE Uri(s, printers[s][Max(named(q))].id)]

\* The helper runs lpadmin for all printers, or for the first ones if it ends before;
\* made are those whose queue is made.  A failure of lpadmin is no failure of the helper.
HelperCreates(s, made) ==
  /\ s \in active /\ helper[s] = "idle" /\ printers[s] # << >>
  /\ made \subseteq DOMAIN printers[s]
  /\ \/ /\ "lpadmin" \in Faults \/ made = DOMAIN printers[s]
        /\ helper' = [helper EXCEPT ![s] = "created"]
        /\ excused' = [excused EXCEPT ![s] =
                         SharedNames(printers[s]) \cup
                         {printers[s][i].queue : i \in DOMAIN printers[s] \ made}]
     \/ /\ "helper" \in Faults
        /\ "lpadmin" \in Faults \/ \E n \in 0..Len(printers[s]) : made = 1..n
        /\ helper' = [helper EXCEPT ![s] = "failed"]
        /\ UNCHANGED excused
  /\ printers' = [printers EXCEPT ![s] = [i \in DOMAIN @ |-> [@[i] EXCEPT !.seen = TRUE]]]
  /\ queues' = [queues EXCEPT ![HelpersCupsd(s)] = WithQueues(@, s, made)]
  /\ UNCHANGED <<config, active, cupsServer, crashed, starts, announces>>

\* handle_setup_complete
SetupComplete(s) ==
  /\ s \in active
  /\ \/ /\ helper[s] = "created"
        /\ printers' = [printers EXCEPT ![s] =
                          [i \in DOMAIN @ |-> [@[i] EXCEPT !.created = TRUE]]]
        /\ cupsServer' = IF private[s] THEN cupsServer \cup {s} ELSE cupsServer
        /\ excused' = [excused EXCEPT ![s] =
                         @ \cup {printers[s][i].queue :
                                 i \in {k \in DOMAIN printers[s] : ~printers[s][k].seen}}]
        /\ UNCHANGED queues
     \/ /\ helper[s] = "failed"
        /\ queues' = Swept(s)
        /\ excused' = [excused EXCEPT ![s] = @ \cup QueueNames(printers[s])]
        /\ UNCHANGED <<printers, cupsServer>>
  /\ helper' = [helper EXCEPT ![s] = "done"]
  /\ UNCHANGED <<config, active, crashed, starts, announces>>

\* devredir_printer_device_remove
DeviceRemove(s, d) ==
  /\ s \in active
  /\ \E i \in DOMAIN printers[s] :
        /\ printers[s][i].id = d
        /\ printers' = [printers EXCEPT ![s] = RemoveAt(@, i)]
        /\ queues' = IF printers[s][i].created /\ FindsCupsd(s)
                       THEN [queues EXCEPT ![ChansrvsCupsd(s)] =
                               Without(@, {printers[s][i].queue})]
                       ELSE queues
  /\ UNCHANGED <<config, active, helper, cupsServer, crashed, excused, starts, announces>>

\* devredir_printer_cleanup: the sweep takes the queues of the printers along,
\* if the commands get to the right cupsd.
Cleanup(s) ==
  /\ s \in active
  /\ active' = active \ {s}
  /\ queues' = Swept(s)
  /\ crashed' = crashed \ {s}
  /\ printers' = [printers EXCEPT ![s] = << >>]
  /\ UNCHANGED <<config, helper, cupsServer, excused, starts, announces>>

\* chansrv is killed; the queues stay until a session of that number sweeps.
Crash(s) ==
  /\ "crash" \in Faults
  /\ s \in active
  /\ active' = active \ {s}
  /\ crashed' = crashed \cup {s}
  /\ printers' = [printers EXCEPT ![s] = << >>]
  /\ UNCHANGED <<config, helper, cupsServer, queues, excused, starts, announces>>

-----------------------------------------------------------------------------

Init ==
  /\ private \in [Session -> BOOLEAN]
  /\ MixedModes \/ \A s, t \in Session : private[s] = private[t]
  /\ samePaths \in [Session -> BOOLEAN]
  /\ \A s \in Session : private[s] \/ samePaths[s]   \* the system's cupsd has one place
  /\ active = {}
  /\ printers = [s \in Session |-> << >>]
  /\ helper = [s \in Session |-> "idle"]
  /\ cupsServer = {}
  /\ queues = [c \in Instance |-> << >>]
  /\ crashed = {}
  /\ excused = [s \in Session |-> {}]
  /\ starts = 0
  /\ announces = 0

Next ==
  \E s \in Session :
     \/ Start(s)
     \/ \E d \in Device, a \in Announcement : DeviceAnnounce(s, d, a)
     \/ \E made \in SUBSET (1..MaxPrinters) : HelperCreates(s, made)
     \/ SetupComplete(s)
     \/ \E d \in Device : DeviceRemove(s, d)
     \/ Cleanup(s)
     \/ Crash(s)

Spec == Init /\ [][Next]_vars

-----------------------------------------------------------------------------

TypeOK ==
  /\ private \in [Session -> BOOLEAN] /\ samePaths \in [Session -> BOOLEAN]
  /\ active \subseteq Session
  /\ \A s \in Session : /\ Len(printers[s]) <= MaxPrinters
                        /\ IsInjective([i \in DOMAIN printers[s] |-> printers[s][i].id])
  /\ helper \in [Session -> {"idle", "created", "failed", "done"}]
  /\ cupsServer \subseteq {s \in Session : private[s]}
  /\ DOMAIN queues = Instance
  /\ crashed \subseteq Session
  /\ starts \in 0..MaxStarts
  /\ announces \in 0..MaxAnnounces

\* A printer of s that is marked as created has a queue in the cupsd of s, under
\* its name, whose URI takes the backend to this session and this printer.
LeadsHome(s, p) ==
  LET map == queues[HelpersCupsd(s)]
  IN  /\ p.queue \in DOMAIN map
      /\ UriSession(map[p.queue]) = s
      /\ UriDevice(map[p.queue]) = p.id

\* No session's queues, sweeps and removals disturb those of another, although
\* one display number may be the beginning of another one and names may begin
\* with digits: "to avoid conflicts between concurrent sessions"
\* (printer_sanitize_name).  The exceptions are printers of one session that
\* shared a queue name, as their names differ in special characters only, those
\* that lpadmin failed for, those whose queue was swept when a later helper failed,
\* and those announced while a helper ran that did not know of them.
QueuesLeadHome ==
  \A s \in active : \A i \in DOMAIN printers[s] :
     LET p == printers[s][i]
     IN  p.created /\ p.queue \notin excused[s] => LeadsHome(s, p)

\* Once a session has been cleaned up no queue leads to it, not even one that a
\* session of that number left behind when it crashed (the sweep finds them by
\* name: printer_cups_cleanup_stale_queues).  A private cupsd must be within reach:
\* chansrv knows of it once it has heard of a success, and if XDG_RUNTIME_DIR is set
\* it knows of a place where there is none.
NothingLeft ==
  \A s \in Session \ (active \cup crashed) : Reaches(s) =>
     \A c \in Instance : \A q \in DOMAIN queues[c] : UriSession(queues[c][q]) # s

\* What the user finds is named after the printer that the client announced: by
\* its own name, not that of the driver, by the port if it has no name in ASCII, or
\* "printer" if there is neither (the offsets and conversions of devredir_printer_device_announce).
NamedByClient ==
  \A s \in active : \A i \in DOMAIN printers[s] :
     LET a == printers[s][i].from
         tail == SubSeq(printers[s][i].queue, Len(Prefix(NameSession(s))) + 1,
                        Len(printers[s][i].queue))
         hasName == \E k \in DOMAIN a.printerName :
                       /\ a.printerName[k] \in 32..126
                       /\ \A m \in 1..k : a.printerName[m] # 0
     IN  /\ tail # << >>
         /\ \A k \in DOMAIN tail : IsAlnum(tail[k]) =>
               tail[k] \in Range(IF hasName THEN a.printerName
                                 ELSE IF a.dosName # << >> THEN a.dosName ELSE PrinterWord)

\* The sweep for "xrdp_" is made for a cupsd that "belongs to this session"
\* (printer_cups_cleanup_stale_queues): a session that uses the cupsd of the
\* system keeps its queues.
SystemQueuesKept ==
  \A s \in active : ~private[s] =>
     \A i \in DOMAIN printers[s] :
        LET p == printers[s][i]
        IN  p.created /\ p.queue \notin excused[s] => LeadsHome(s, p)

=============================================================================
