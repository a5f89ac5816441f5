---------------------------- MODULE PrinterSetup ----------------------------
(***************************************************************************)
(* How redirected printers get their CUPS queues.  chansrv keeps the list  *)
(* of announced printers and leaves everything that blocks to a forked     *)
(* helper: it starts a cupsd for the session if so configured, creates a   *)
(* queue for every printer its copy of the list has, and reports through a *)
(* pipe.  Printers come and go and clients connect and disconnect while a  *)
(* helper runs; a helper is not stopped by any of that, so helpers of one  *)
(* session meet chansrv and the helpers of the next.                       *)
(*                                                                         *)
(* Helpers, the cupsd a helper starts and the listener opened for a helper *)
(* are all named by the number of the helper.                              *)
(***************************************************************************)
EXTENDS Naturals, Sequences, FiniteSets, SequencesExt

CONSTANTS
  Device,       \* device ids of redirected printers
  Name,         \* CUPS queue names, what printer_sanitize_name makes of a name
  None,         \* no helper, no cupsd, no listener, no queue
  MaxPrinters,  \* PRINTER_MAX_PRINTERS
  Faults,       \* the faults of the environment: see FaultKinds
  MaxHelpers,   \* bound: helpers launched
  MaxAnnounces, \* bound: printers announced
  MaxSessions   \* bound: connections of a client

FaultKinds == {"cupsd",    \* printer_cups_session_start fails
               "lpadmin",  \* printer_cups_create_queue fails
               "alarm",    \* the alarm of 30 s kills a helper
               "listen",   \* printer_cups_init_listener fails
               "accept"}   \* accept() fails, other than for want of a connection

ASSUME PrinterSetupAssumption ==
  /\ None \notin Device \cup Name \cup Nat
  /\ {MaxPrinters, MaxHelpers, MaxAnnounces, MaxSessions} \subseteq Nat
  /\ Faults \subseteq FaultKinds

Helper == 1..MaxHelpers

VARIABLES
  sessionCupsd, \* g_use_session_cupsd
  samePaths,    \* XDG_RUNTIME_DIR is not set, so the helper's cupsd has its
                \* socket where chansrv will look for it
  initialized,  \* g_initialized
  printers,     \* g_printer_mgr.printers, up to printer_count
  setup,        \* g_setup_state
  triggered,    \* g_setup_triggered
  pipe,         \* g_setup_pipe_fd: the helper whose pipe chansrv holds
  listener,     \* g_listener_fd
  cupsServer,   \* chansrv's environment has CUPS_SERVER
  helper,       \* helper[h]: how far the process is and what it has to create
  cupsd,        \* cupsd[h]: the cupsd that helper h forked
  socketAt,     \* the cupsd that serves the socket of the private instance
  queues,       \* queues[n]: the queue n of the cupsd in use
  listening,    \* listener descriptors chansrv has open
  socketFile,   \* the listener the file /run/xrdp/sockdir/printer_<id> leads to
  announces,    \* how often a printer was announced (bounded)
  sessions,     \* how often a client has connected (bounded)
  overlooked,   \* history: printers announced while a helper ran, which no
                \* helper was launched for since
  missing       \* history: queues that could not be created, or are lost

config == <<sessionCupsd, samePaths>>
manager == <<initialized, printers, setup, triggered, announces, sessions>>
processes == <<helper, cupsd, socketAt>>
sockets == <<listener, listening, socketFile>>
history == <<overlooked, missing>>
vars == <<config, manager, pipe, cupsServer, processes, queues, sockets, history>>

-----------------------------------------------------------------------------

SetupState == {"IDLE", "WAITING", "DONE"}

HelperState == {"none",
                "start",              \* forked
                "wait",               \* for the socket of its cupsd
                "create",             \* queues, and then report
                "success", "failure", \* exited, its report in the pipe
                "orphan",             \* killed, but not the command it ran, which
                                      \* has the pipe open still
                "killed",             \* by a signal, without a report
                "heard", "unheard"}   \* chansrv read a success, or did not

Alive(h) == helper[h].state \in {"start", "wait", "create"}
Exited(h) == helper[h].state \in {"success", "failure", "killed"}

Printer == [id : Device, name : Name, created : BOOLEAN]

\* late: created by a helper whose pipe chansrv had closed before.
Queue == [device : Device, late : BOOLEAN]

Launched == {h \in Helper : helper[h].state # "none"}

\* The command that the helper was killed over does not end: chansrv sees no end of
\* the pipe.
CommandHangs == pipe # None /\ helper[pipe].state = "orphan"

Announced(d) == \E i \in DOMAIN printers : printers[i].id = d

Created(d) == \E i \in DOMAIN printers : printers[i].id = d /\ printers[i].created

\* There is a queue of the printer's name: its own or, if another printer has the
\* name as well, perhaps that one's.
NamesQueue(d) == \E i \in DOMAIN printers : /\ printers[i].id = d
                                            /\ queues[printers[i].name] # None

QueueMissing(d) == \E i \in DOMAIN printers : /\ printers[i].id = d
                                              /\ printers[i].name \in missing

NoQueues == [n \in Name |-> None]

\* Commands that chansrv runs itself get to the queues.  In private mode they
\* go to the system's cupsd until chansrv knows of its own, and nowhere if what
\* it knows is not where the helper's cupsd is.
Reached == sessionCupsd => cupsServer /\ samePaths /\ socketAt # None

-----------------------------------------------------------------------------
(* The calls of chansrv.                                                   *)

\* Mutant: the state of the setup survives from the session before.
Initialize_KeepsSetup ==
  /\ ~initialized
  /\ sessions < MaxSessions
  /\ initialized' = TRUE
  /\ sessions' = sessions + 1
  /\ UNCHANGED <<config, printers, setup, triggered, announces, pipe, cupsServer,
                 processes, queues, sockets, history>>

\* devredir_printer_init
Initialize ==
  /\ ~initialized
  /\ sessions < MaxSessions
  /\ initialized' = TRUE
  /\ sessions' = sessions + 1
  /\ setup' = "IDLE"
  /\ triggered' = FALSE
  /\ UNCHANGED <<config, printers, announces, pipe, cupsServer, processes,
                 queues, sockets, history>>

\* A helper that runs has a copy of the list without this printer.
Overlook(d) ==
  overlooked' = IF setup = "WAITING" THEN overlooked \cup {d} ELSE overlooked \ {d}

\* Mutant: a printer that is plugged in later starts no helper.
DeviceAnnounce_NoHotPlug(d, n) ==
  /\ initialized
  /\ ~Announced(d) /\ Len(printers) < MaxPrinters
  /\ announces < MaxAnnounces
  /\ announces' = announces + 1
  /\ printers' = Append(printers, [id |-> d, name |-> n, created |-> FALSE])
  /\ Overlook(d)
  /\ UNCHANGED <<config, initialized, setup, triggered, sessions, pipe, cupsServer,
                 processes, queues, sockets, missing>>

\* Mutant: a device id is taken a second time.
DeviceAnnounce_Duplicates(d, n) ==
  /\ initialized
  /\ Len(printers) < MaxPrinters
  /\ announces < MaxAnnounces
  /\ announces' = announces + 1
  /\ printers' = Append(printers, [id |-> d, name |-> n, created |-> FALSE])
  /\ Overlook(d)
  /\ UNCHANGED <<config, initialized, setup, triggered, sessions, pipe, cupsServer,
                 processes, queues, sockets, missing>>

\* devredir_printer_device_announce.  Announcements with bad data, of a known
\* id or of one printer too many change nothing.
DeviceAnnounce(d, n) ==
  /\ initialized
  /\ ~Announced(d) /\ Len(printers) < MaxPrinters
  /\ announces < MaxAnnounces
  /\ announces' = announces + 1
  /\ printers' = Append(printers, [id |-> d, name |-> n, created |-> FALSE])
  /\ IF setup = "DONE" /\ triggered
       THEN setup' = "IDLE" /\ triggered' = FALSE
       ELSE UNCHANGED <<setup, triggered>>
  /\ Overlook(d)
  /\ UNCHANGED <<config, initialized, sessions, pipe, cupsServer, processes,
                 queues, sockets, missing>>

\* devredir_printer_device_remove
DeviceRemove(d) ==
  /\ initialized
  /\ \E i \in DOMAIN printers :
        /\ printers[i].id = d
        /\ printers' = RemoveAt(printers, i)
        /\ IF printers[i].created /\ Reached
             THEN /\ queues' = [queues EXCEPT ![printers[i].name] = None]
                  /\ missing' = missing \cup {printers[i].name}
             ELSE UNCHANGED <<queues, missing>>
  /\ UNCHANGED <<config, initialized, setup, triggered, announces, sessions, pipe,
                 cupsServer, processes, sockets, overlooked>>

\* launch_setup_helper.  Without a pipe or a process for the helper nothing
\* changes, and check_wait_objs tries again.
LaunchHelper(h) ==
  /\ initialized
  /\ setup = "IDLE" /\ ~triggered /\ printers # << >>
  /\ h = Cardinality(Launched) + 1
  /\ helper' = [helper EXCEPT ![h] = [state |-> "start", todo |-> printers]]
  /\ pipe' = h
  /\ setup' = "WAITING"
  /\ triggered' = TRUE
  /\ overlooked' = {}
  /\ UNCHANGED <<config, initialized, printers, announces, sessions, cupsServer,
                 cupsd, socketAt, queues, sockets, missing>>

\* printer_cups_init_listener, which removes the socket file before it can fail.
InitListener(h) ==
  \/ /\ listener' = h
     /\ listening' = listening \cup {h}
     /\ socketFile' = h
  \/ /\ "listen" \in Faults
     /\ listener' = None
     /\ socketFile' \in {None, socketFile}
     /\ UNCHANGED listening

\* Mutant: chansrv goes on waiting when the helper ends without a report.
SetupComplete_ReportOnly ==
  /\ initialized /\ setup = "WAITING" /\ pipe # None
  /\ helper[pipe].state \in {"success", "failure"}
  /\ pipe' = None
  /\ setup' = "DONE"
  /\ IF helper[pipe].state = "success"
       THEN /\ helper' = [helper EXCEPT ![pipe].state = "heard"]
            /\ printers' = [i \in DOMAIN printers |-> [printers[i] EXCEPT !.created = TRUE]]
            /\ cupsServer' = (cupsServer \/ sessionCupsd)
            /\ InitListener(pipe)
            /\ UNCHANGED queues
       ELSE /\ helper' = [helper EXCEPT ![pipe].state = "unheard"]
            /\ queues' = IF Reached THEN NoQueues ELSE queues
            /\ UNCHANGED <<printers, cupsServer, sockets>>
  /\ UNCHANGED <<config, initialized, triggered, announces, sessions, cupsd, socketAt,
                 history>>

\* Mutant: an earlier listener is kept although its socket file was replaced.
SetupComplete_KeepsOld ==
  /\ initialized /\ setup = "WAITING" /\ pipe # None /\ Exited(pipe)
  /\ pipe' = None
  /\ setup' = "DONE"
  /\ IF helper[pipe].state = "success"
       THEN /\ helper' = [helper EXCEPT ![pipe].state = "heard"]
            /\ printers' = [i \in DOMAIN printers |-> [printers[i] EXCEPT !.created = TRUE]]
            /\ cupsServer' = (cupsServer \/ sessionCupsd)
            /\ listener' = IF listener = None THEN pipe ELSE listener
            /\ listening' = listening \cup {pipe}
            /\ socketFile' = pipe
            /\ UNCHANGED queues
       ELSE /\ helper' = [helper EXCEPT ![pipe].state = "unheard"]
            /\ queues' = IF Reached THEN NoQueues ELSE queues
            /\ UNCHANGED <<printers, cupsServer, sockets>>
  /\ UNCHANGED <<config, initialized, triggered, announces, sessions, cupsd, socketAt,
                 history>>

\* handle_setup_complete: the pipe of a helper that has exited is readable.  A
\* success is taken to hold for every printer in the list; after a failure, or
\* the end of the pipe without a report, the queues of the session are swept.
SetupComplete ==
  /\ initialized /\ setup = "WAITING" /\ pipe # None /\ Exited(pipe)
  /\ pipe' = None
  /\ setup' = "DONE"
  /\ IF helper[pipe].state = "success"
       THEN /\ helper' = [helper EXCEPT ![pipe].state = "heard"]
            /\ printers' = [i \in DOMAIN printers |-> [printers[i] EXCEPT !.created = TRUE]]
            /\ cupsServer' = (cupsServer \/ sessionCupsd)
            /\ InitListener(pipe)
            /\ UNCHANGED queues
       ELSE /\ helper' = [helper EXCEPT ![pipe].state = "unheard"]
            /\ queues' = IF Reached THEN NoQueues ELSE queues
            /\ UNCHANGED <<printers, cupsServer, sockets>>
  /\ UNCHANGED <<config, initialized, triggered, announces, sessions, cupsd, socketAt,
                 history>>

\* check_wait_objs gives up a listener whose accept() fails.
AcceptFails ==
  /\ "accept" \in Faults
  /\ initialized /\ listener # None
  /\ listener' = None
  /\ listening' = listening \ {listener}
  /\ UNCHANGED <<config, manager, pipe, cupsServer, processes, queues, socketFile,
                 history>>

\* Mutant: only the queues of printers known to have one are removed.
Cleanup_NoSweep ==
  /\ initialized
  /\ initialized' = FALSE
  /\ pipe' = None
  /\ listener' = None
  /\ listening' = listening \ {listener}
  /\ queues' = [n \in Name |->
                  IF Reached /\ \E i \in DOMAIN printers :
                                   printers[i].name = n /\ printers[i].created
                    THEN None ELSE queues[n]]
  /\ printers' = << >>
  /\ UNCHANGED <<config, setup, triggered, announces, sessions, cupsServer, processes,
                 socketFile, history>>

\* devredir_printer_cleanup.  The sweep takes the queues of the printers along.
\* The helper goes on, and so does cupsd: printer_cups_session_stop looks at
\* g_session_cups_active, which only the helper's copy has set.
Cleanup ==
  /\ initialized
  /\ initialized' = FALSE
  /\ pipe' = None
  /\ listener' = None
  /\ listening' = listening \ {listener}
  /\ queues' = IF Reached THEN NoQueues ELSE queues
  /\ printers' = << >>
  /\ UNCHANGED <<config, setup, triggered, announces, sessions, cupsServer, processes,
                 socketFile, history>>

-----------------------------------------------------------------------------
(* The helper process of launch_setup_helper.                              *)

\* Writing to a pipe that chansrv has closed kills the helper (SIGPIPE).
Report(h, r) ==
  helper' = [helper EXCEPT ![h].state = IF pipe = h THEN r ELSE "killed"]

\* The processes and their queues are all that changes.
HelperUnchanged == UNCHANGED <<config, manager, pipe, cupsServer, sockets, overlooked>>

\* printer_cups_session_start up to fork(), which first removes the socket of
\* whatever cupsd ran before.
StartCupsd(h) ==
  /\ helper[h].state = "start" /\ sessionCupsd
  /\ \/ /\ helper' = [helper EXCEPT ![h].state = "wait"]
        /\ cupsd' = [cupsd EXCEPT ![h] = "forked"]
        /\ socketAt' = None
     \/ /\ "cupsd" \in Faults
        /\ Report(h, "failure")
        /\ socketAt' \in {None, socketAt}
        /\ UNCHANGED cupsd
  /\ HelperUnchanged /\ UNCHANGED <<queues, missing>>

\* The rest of it: there is a socket, or the helper stops the cupsd it started.
AwaitCupsd(h) ==
  /\ helper[h].state = "wait"
  /\ \/ /\ socketAt # None
        /\ helper' = [helper EXCEPT ![h].state = "create"]
        /\ UNCHANGED <<cupsd, socketAt>>
     \/ /\ "cupsd" \in Faults
        /\ Report(h, "failure")
        /\ cupsd' = [cupsd EXCEPT ![h] = "none"]
        /\ socketAt' = IF socketAt = h THEN None ELSE socketAt
  /\ HelperUnchanged /\ UNCHANGED <<queues, missing>>

UseSystemCupsd(h) ==
  /\ helper[h].state = "start" /\ ~sessionCupsd
  /\ helper' = [helper EXCEPT ![h].state = "create"]
  /\ HelperUnchanged /\ UNCHANGED <<cupsd, socketAt, queues, missing>>

\* lpadmin makes the queue of the printer that the helper is at.
Lpadmin(h) ==
  /\ sessionCupsd => socketAt # None
  /\ LET p == Head(helper[h].todo)
     IN  /\ queues' = [queues EXCEPT ![p.name] = [device |-> p.id, late |-> pipe # h]]
         /\ missing' = missing \ {p.name}

\* printer_cups_create_queue for the next printer; a failure is not reported.
CreateQueue(h) ==
  /\ helper[h].state = "create" /\ helper[h].todo # << >>
  /\ helper' = [helper EXCEPT ![h].todo = Tail(@)]
  /\ \/ Lpadmin(h)
     \/ /\ "lpadmin" \in Faults \/ (sessionCupsd /\ socketAt = None)
        /\ missing' = missing \cup {Head(helper[h].todo).name}
        /\ UNCHANGED queues
  /\ HelperUnchanged /\ UNCHANGED <<cupsd, socketAt>>

ReportSuccess(h) ==
  /\ helper[h].state = "create" /\ helper[h].todo = << >>
  /\ Report(h, "success")
  /\ HelperUnchanged /\ UNCHANGED <<cupsd, socketAt, queues, missing>>

\* A command of the helper may be running: lpstat while it waits for its cupsd,
\* lpadmin and the script that forwards printers while it creates queues.
RunsCommand(h) ==
  helper[h].state = "create" \/ (helper[h].state = "wait" /\ socketAt # None)

\* The alarm ends the helper wherever it is, and leaves its cupsd running, and the
\* command that it runs, which has the write end of the pipe from it.
HelperKilled(h) ==
  /\ "alarm" \in Faults
  /\ Alive(h)
  /\ \/ helper' = [helper EXCEPT ![h].state = "killed"]
     \/ /\ RunsCommand(h)
        /\ helper' = [helper EXCEPT ![h].state = "orphan",
                                    ![h].todo = IF helper[h].state = "create" THEN @ ELSE << >>]
  /\ HelperUnchanged /\ UNCHANGED <<cupsd, socketAt, queues, missing>>

\* The command ends all the same, and may have been the lpadmin of a queue.
CommandEnds(h) ==
  /\ helper[h].state = "orphan"
  /\ helper' = [helper EXCEPT ![h].state = "killed"]
  /\ \/ helper[h].todo # << >> /\ Lpadmin(h)
     \/ UNCHANGED <<queues, missing>>
  /\ HelperUnchanged /\ UNCHANGED <<cupsd, socketAt>>

\* cupsd takes the socket over, with those queues of its predecessor that had
\* been saved to their common state directory.
CupsdListens(h) ==
  /\ cupsd[h] = "forked"
  /\ cupsd' = [cupsd EXCEPT ![h] = "up"]
  /\ socketAt' = h
  /\ \E saved \in SUBSET Name :
        /\ queues' = [n \in Name |-> IF n \in saved THEN queues[n] ELSE None]
        /\ missing' = missing \cup {n \in Name \ saved : queues[n] # None}
  /\ HelperUnchanged /\ UNCHANGED helper

HelperStep(h) == \/ StartCupsd(h) \/ AwaitCupsd(h) \/ UseSystemCupsd(h)
                 \/ CreateQueue(h) \/ ReportSuccess(h)

-----------------------------------------------------------------------------

Init ==
  /\ sessionCupsd \in BOOLEAN /\ samePaths \in BOOLEAN
  /\ sessionCupsd \/ samePaths   \* the system's cupsd has one place
  /\ initialized = FALSE
  /\ printers = << >>
  /\ setup = "IDLE"
  /\ triggered = FALSE
  /\ pipe = None
  /\ listener = None
  /\ cupsServer = FALSE
  /\ helper = [h \in Helper |-> [state |-> "none", todo |-> << >>]]
  /\ cupsd = [h \in Helper |-> "none"]
  /\ socketAt = None
  /\ queues = NoQueues
  /\ listening = {}
  /\ socketFile = None
  /\ announces = 0
  /\ sessions = 0
  /\ overlooked = {}
  /\ missing = {}

Next ==
  \/ Initialize
  \/ \E d \in Device, n \in Name : DeviceAnnounce(d, n)
  \/ \E d \in Device : DeviceRemove(d)
  \/ \E h \in Helper : \/ LaunchHelper(h) \/ HelperStep(h) \/ CupsdListens(h)
                       \/ HelperKilled(h) \/ CommandEnds(h)
  \/ SetupComplete
  \/ AcceptFails
  \/ Cleanup

Spec == Init /\ [][Next]_vars

(* The event loop launches a helper and reads its pipe, and the processes  *)
(* run.  A helper gets on or is ended by its alarm; nothing ends a command *)
(* that hangs, nor makes it let go of the pipe it was started with.        *)
Fairness ==
  /\ \A h \in Helper : /\ WF_vars(LaunchHelper(h))
                       /\ WF_vars(HelperStep(h) \/ HelperKilled(h))
                       /\ WF_vars(CupsdListens(h))
  /\ WF_vars(SetupComplete)

FairSpec == Spec /\ Fairness

-----------------------------------------------------------------------------

TypeOK ==
  /\ sessionCupsd \in BOOLEAN /\ samePaths \in BOOLEAN
  /\ initialized \in BOOLEAN
  /\ printers \in Seq(Printer)
  /\ Len(printers) <= MaxPrinters
  /\ \A i, k \in DOMAIN printers : printers[i].id = printers[k].id => i = k
  /\ setup \in SetupState
  /\ triggered \in BOOLEAN
  /\ pipe \in Helper \cup {None}
  /\ listener \in Helper \cup {None}
  /\ cupsServer \in BOOLEAN
  /\ helper \in [Helper -> [state : HelperState, todo : Seq(Printer)]]
  /\ cupsd \in [Helper -> {"none", "forked", "up"}]
  /\ socketAt \in Helper \cup {None}
  /\ queues \in [Name -> Queue \cup {None}]
  /\ listening \subseteq Helper
  /\ socketFile \in Helper \cup {None}
  /\ announces \in 0..MaxAnnounces
  /\ sessions \in 0..MaxSessions
  /\ overlooked \subseteq Device
  /\ missing \subseteq Name

\* chansrv never waits without a pipe to wait on, nor for a helper it has heard
\* of already, although cleanup closes the pipe of a running helper and leaves
\* g_setup_state as it is for the next session.
WaitingHasPipe ==
  /\ initialized => (setup = "WAITING" <=> pipe # None)
  /\ pipe # None => /\ helper[pipe].state \notin {"none", "heard", "unheard"}
                    /\ pipe = Cardinality(Launched)

\* Every helper that was launched has been heard of and was successful.
AllHeard == \A h \in Launched : helper[h].state = "heard"

\* Disconnecting leaves no queue behind, whatever state the setup was in, except
\* those that a helper which outlives its session goes on to create
\* (devredir_printer_cleanup's sweep).  A private cupsd is only swept once
\* chansrv knows of it, and where it expects it.
QueuesLeftAreLate ==
  ~initialized /\ (sessionCupsd => samePaths /\ AllHeard) =>
     \A n \in Name : queues[n] # None => queues[n].late

\* The socket file that backends connect to leads to the listener that chansrv
\* polls, over hot-plugged printers, failed listeners and new sessions
\* (printer_cups_init_listener).
ListenerReachable ==
  listener # None => listener \in listening /\ socketFile = listener

\* chansrv waits for no helper for ever: its end is noticed without a report too,
\* as when the alarm ends it (handle_setup_complete), but for a command that hangs.
SetupEnds ==
  setup = "WAITING" /\ initialized ~>
     setup # "WAITING" \/ ~initialized \/ []CommandHangs

\* The helper launched last failed, and chansrv knows.
LastFailed ==
  Launched # {} /\ helper[Cardinality(Launched)].state = "unheard"

\* The setup is over for the printer: its client is gone or it is, the helper failed,
\* or a command hangs and takes the pipe along.
GivenUp(d) ==
  ~initialized \/ ~Announced(d) \/ (setup = "DONE" /\ LastFailed) \/ []CommandHangs

\* No announced printer is forgotten, also when it was plugged in while a helper
\* ran or after the last one had finished.  It ends up marked as created; and there
\* is a queue of its name, unless its queue could not be created or was lost again,
\* or a helper had started without it and no printer that is announced later starts
\* another (devredir_printer_device_announce, launch_setup_helper).
PrinterSettled ==
  \A d \in Device :
     /\ initialized /\ Announced(d) ~> Created(d) \/ GivenUp(d)
     /\ initialized /\ Announced(d) /\ ~Created(d) ~>
           \/ NamesQueue(d) \/ GivenUp(d)
           \/ []QueueMissing(d)
           \/ [](d \in overlooked /\ setup = "DONE")

\* A printer whose queue is marked as created has that queue: "the helper will
\* create all queues" (devredir_printer_device_announce).
CreatedHasQueue ==
  \A i \in DOMAIN printers :
     printers[i].created => /\ queues[printers[i].name] # None
                            /\ queues[printers[i].name].device = printers[i].id

\* "On disconnect ... the private cupsd stops": at least one that a helper was
\* heard to have started.
PrivateCupsdStops ==
  ~initialized => \A h \in Helper : cupsd[h] # "none" => helper[h].state # "heard"

\* "On disconnect, all xrdp_* queues are removed": at least when all helpers were
\* successful and were heard of.
DisconnectRemovesQueues ==
  ~initialized /\ AllHeard => queues = NoQueues

=============================================================================
