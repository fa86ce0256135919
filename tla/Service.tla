------------------------------- MODULE Service -------------------------------
(***************************************************************************)
(* The processes of one machine and data directory that want to be the     *)
(* server: programs started at a prompt, and on Windows the processes the  *)
(* service manager starts.  single_instance_locker lets some of them into  *)
(* start_server (the life of which is DnsServer); the others end.  The     *)
(* service manager, pywin32, the mutex and the file lock are external.     *)
(*                                                                         *)
(* The mutex is one for each session of Windows, as its name has no        *)
(* "Global\" in front (single_instance.py:25); services run in a session   *)
(* of their own.                                                           *)
(*                                                                         *)
(* The manager hands a stop to a service that is RUNNING, which pywin32    *)
(* reports before it calls SvcDoRun, takes the reported status at its      *)
(* word, and lets the process of a service that has reported STOPPED exit  *)
(* whatever its threads are doing.                                         *)
(***************************************************************************)
EXTENDS Naturals

CONSTANTS
    Consoles,   \* processes started at a prompt
    Services,   \* bound: processes the service manager can start, one by one
    NoHost,     \* no process
    Sessions,   \* the sessions users may be logged on in, and the services'
    ServiceSession,
    Faults      \* whether start_server may raise or hang and processes be killed

ASSUME ProcsAssumption == Consoles \cap Services = {} /\ NoHost \notin Services
ASSUME SessionsAssumption == ServiceSession \in Sessions
ASSUME FaultsAssumption == Faults \in BOOLEAN

Procs == Consoles \cup Services

VARIABLES
    windows,     \* is_running_in_windows
    lockFile,    \* whether lock.lock exists in the data directory
    session,     \* the session each process runs in
    pc,          \* where each process is
    handles,     \* the processes that have the mutex, or lock.lock, open
    locked,      \* the processes that hold the lock on lock.lock
    is_running,  \* DnsServerWindowsService.is_running of each process
    status,      \* the status of the service, as the manager believes
    stopping,    \* whether a stop handler is between its two reports
    host,        \* the process the manager started last
    installed,   \* whether the manager knows the service
    command      \* the service command in progress, or that a restart was done

machine == <<windows, lockFile, session>>
locks == <<handles, locked>>
manager == <<status, stopping, host, installed, command>>
vars == <<machine, pc, locks, is_running, manager>>

\* The states of a process in which start_server runs.
Inside == {"starting", "serving", "leaving", "stuck"}

States ==
    {"off", "loaded", "entered", "pending", "prepared", "start", "opened", "closing", "ended"}
        \cup Inside

Alive(p) == pc[p] \notin {"off", "ended"}

\* The processes that open the same mutex.
Shares(p, q) == session[p] = session[q]

Init ==
    /\ windows \in BOOLEAN
    /\ lockFile \in IF windows THEN {TRUE} ELSE BOOLEAN
    /\ session \in [Procs -> Sessions]
    /\ \A p \in Procs : p \in Services \/ ~windows => session[p] = ServiceSession
    /\ pc = [p \in Procs |-> "off"]
    /\ handles = {}
    /\ locked = {}
    /\ is_running = [p \in Services |-> FALSE]
    /\ status = "STOPPED"
    /\ stopping = FALSE
    /\ host = NoHost
    /\ installed = FALSE
    /\ command = "none"

Goto(p, state) == pc' = [pc EXCEPT ![p] = state]

-----------------------------------------------------------------------------
(* The service commands: a user gives one after the other, and no more after *)
(* a restart                                                                 *)

\* StartService, as pywin32 calls it.
ManagerStarts(p) ==
    /\ installed
    /\ status = "STOPPED"
    /\ pc[p] = "off"
    /\ Goto(p, "loaded")
    /\ status' = "START_PENDING"
    /\ host' = p

\* SvcStop and SvcShutdown: the status is reported in two steps, with the other
\* thread, that of SvcDoRun, at work.
SvcStop ==
    /\ status = "RUNNING"
    /\ ~stopping
    /\ is_running' = [is_running EXCEPT ![host] = FALSE]
    /\ status' = "STOP_PENDING"
    /\ stopping' = TRUE

SvcStopped ==
    /\ stopping
    /\ status' = "STOPPED"
    /\ stopping' = FALSE
    /\ UNCHANGED <<machine, pc, locks, is_running, host, installed, command>>

InstallCommand ==
    /\ windows
    /\ command = "none"
    /\ installed' = TRUE
    /\ UNCHANGED <<machine, pc, locks, is_running, status, stopping, host, command>>

StartCommand ==
    /\ command = "none"
    /\ \E p \in Services : ManagerStarts(p)
    /\ UNCHANGED <<machine, locks, is_running, stopping, installed, command>>

\* "stop", or the machine shuts down.
StopCommand ==
    /\ command = "none"
    /\ SvcStop
    /\ UNCHANGED <<machine, pc, locks, host, installed, command>>

\* RestartService stops first; that the service is not active is no error to it.
RestartCommand ==
    /\ installed
    /\ command = "none"
    /\ command' = "restart"
    /\ \/ SvcStop
       \/ status = "STOPPED" /\ UNCHANGED <<is_running, status, stopping>>
    /\ UNCHANGED <<machine, pc, locks, host, installed>>

\* Then it tries to start the service, while that is said to be running.
RestartStarts ==
    /\ command = "restart"
    /\ command' = "restarted"
    /\ \E p \in Services : ManagerStarts(p)
    /\ UNCHANGED <<machine, locks, is_running, stopping, installed>>

\* An error of the stop is ignored: a service that starts stays.
RemoveCommand ==
    /\ installed
    /\ command = "none"
    /\ command' = "remove"
    /\ \/ SvcStop
       \/ status # "RUNNING" /\ UNCHANGED <<is_running, status, stopping>>
    /\ UNCHANGED <<machine, pc, locks, host, installed>>

RemoveService ==
    /\ command = "remove"
    /\ command' = "none"
    /\ installed' = FALSE
    /\ UNCHANGED <<machine, pc, locks, is_running, status, stopping, host>>

-----------------------------------------------------------------------------
(* A process before it asks for the lock *)

RunConsole(p) ==
    /\ p \in Consoles
    /\ pc[p] = "off"
    /\ Goto(p, "start")
    /\ UNCHANGED <<machine, locks, is_running, manager>>

\* What a service that has been reported STOPPED, or is no longer the one the
\* manager started last, reports is not heard.
Heard(p) == p = host /\ status # "STOPPED"

Report(p, state) ==
    /\ status' = IF Heard(p) THEN state ELSE status
    /\ UNCHANGED <<stopping, host, installed, command>>

\* The framework reports RUNNING and calls SvcDoRun.
SvcRun(p) ==
    /\ pc[p] = "loaded"
    /\ Goto(p, "entered")
    /\ Report(p, "RUNNING")
    /\ UNCHANGED <<machine, locks, is_running>>

SvcDoRun(p) ==
    /\ pc[p] = "entered"
    /\ Goto(p, "pending")
    /\ Report(p, "START_PENDING")
    /\ UNCHANGED <<machine, locks, is_running>>

SetRunning(p) ==
    /\ pc[p] = "pending"
    /\ Goto(p, "prepared")
    /\ is_running' = [is_running EXCEPT ![p] = TRUE]
    /\ UNCHANGED <<machine, locks, manager>>

ReportRunning(p) ==
    /\ pc[p] = "prepared"
    /\ Goto(p, "start")
    /\ Report(p, "RUNNING")
    /\ UNCHANGED <<machine, locks, is_running>>

\* Or it raises, before the try of SvcDoRun.
ReportFails(p) ==
    /\ pc[p] \in {"entered", "prepared"}
    /\ ~Heard(p)
    /\ Goto(p, "ended")
    /\ UNCHANGED <<machine, locks, is_running, manager>>

-----------------------------------------------------------------------------
(* single_instance_locker *)

\* Mutant of OpenMutex: a process that finds the mutex waits for it.
OpenMutexWaits(p) ==
    /\ windows
    /\ pc[p] = "start"
    /\ \A q \in handles : ~Shares(p, q)
    /\ handles' = handles \cup {p}
    /\ Goto(p, "starting")
    /\ UNCHANGED <<machine, locked, is_running, manager>>

\* CreateMutex opens the mutex of its session if that exists, and says so.
OpenMutex(p) ==
    /\ windows
    /\ pc[p] = "start"
    /\ handles' = handles \cup {p}
    /\ Goto(p, IF \E q \in handles : Shares(p, q) THEN "closing" ELSE "starting")
    /\ UNCHANGED <<machine, locked, is_running, manager>>

\* There is no O_CREAT: a missing file raises, and the exception ends the process.
OpenLockFile(p) ==
    /\ ~windows
    /\ pc[p] = "start"
    /\ IF lockFile
       THEN Goto(p, "opened") /\ handles' = handles \cup {p}
       ELSE Goto(p, "ended") /\ UNCHANGED handles
    /\ UNCHANGED <<machine, locked, is_running, manager>>

\* Mutant of LockFile: the IOError is swallowed.
LockFileAnyway(p) ==
    /\ pc[p] = "opened"
    /\ Goto(p, "starting")
    /\ locked' = locked \cup {p}
    /\ UNCHANGED <<machine, handles, is_running, manager>>

LockFile(p) ==
    /\ pc[p] = "opened"
    /\ IF locked = {}
       THEN Goto(p, "starting") /\ locked' = {p}
       ELSE Goto(p, "closing") /\ UNCHANGED locked
    /\ UNCHANGED <<machine, handles, is_running, manager>>

\* Mutant of CloseLock: the handle is not closed.
CloseLockForgotten(p) ==
    /\ pc[p] = "closing"
    /\ Goto(p, "ended")
    /\ UNCHANGED <<machine, locks, is_running, manager>>

CloseLock(p) ==
    /\ pc[p] = "closing"
    /\ Goto(p, "ended")
    /\ handles' = handles \ {p}
    /\ locked' = locked \ {p}
    /\ UNCHANGED <<machine, is_running, manager>>

-----------------------------------------------------------------------------
(* start_server and what runs inside it *)

\* Mutant of StartServer: is_running is set where the loop begins.
StartServerSetsRunning(p) ==
    /\ pc[p] = "starting"
    /\ Goto(p, "serving")
    /\ is_running' = [s \in Services |-> is_running[s] \/ s = p]
    /\ UNCHANGED <<machine, locks, manager>>

StartServer(p) ==
    /\ pc[p] = "starting"
    /\ Goto(p, "serving")
    /\ UNCHANGED <<machine, locks, is_running, manager>>

\* SvcDoRun, like the main program, reports the exception and goes on.
StartServerRaises(p) ==
    /\ Faults
    /\ pc[p] = "starting"
    /\ Goto(p, "closing")
    /\ UNCHANGED <<machine, locks, is_running, manager>>

\* The same with a log writer that died at its start and a log that a handler has
\* put: the exception waits for queue.join() for ever (dns_server.py:78).
StartServerHangs(p) ==
    /\ Faults
    /\ pc[p] = "starting"
    /\ Goto(p, "stuck")
    /\ UNCHANGED <<machine, locks, is_running, manager>>

\* query_input_loop ends.
InputEnds(p) ==
    /\ p \in Consoles
    /\ pc[p] = "serving"
    /\ Goto(p, "leaving")
    /\ UNCHANGED <<machine, locks, is_running, manager>>

\* The loop of the service looks at is_running once a second.
Poll(p) ==
    /\ p \in Services
    /\ pc[p] = "serving"
    /\ ~is_running[p]
    /\ Goto(p, "leaving")
    /\ UNCHANGED <<machine, locks, is_running, manager>>

LeaveServer(p) ==
    /\ pc[p] = "leaving"
    /\ Goto(p, "closing")
    /\ UNCHANGED <<machine, locks, is_running, manager>>

\* The log writer died at its start: leaving waits for it for ever (LeavingEnds
\* of DnsServer).
LeavingHangs(p) ==
    /\ Faults
    /\ pc[p] = "leaving"
    /\ Goto(p, "stuck")
    /\ UNCHANGED <<machine, locks, is_running, manager>>

-----------------------------------------------------------------------------
(* The end of a process *)

\* SvcDoRun has returned: the framework reports it.
ReportEnd ==
    /\ host \in Services
    /\ pc[host] = "ended"
    /\ status # "STOPPED"
    /\ status' = "STOPPED"
    /\ stopping' = FALSE
    /\ UNCHANGED <<machine, pc, locks, is_running, host, installed, command>>

Ends(p) ==
    /\ Alive(p)
    /\ Goto(p, "ended")
    /\ handles' = handles \ {p}
    /\ locked' = locked \ {p}
    /\ UNCHANGED <<machine, is_running, manager>>

\* StartServiceCtrlDispatcher returns when STOPPED is reported, and the process
\* exits with its threads where they are.
DispatcherReturns(p) ==
    /\ p \in Services
    /\ p = host => status = "STOPPED"
    /\ Ends(p)

Killed(p) == Faults /\ Ends(p)

-----------------------------------------------------------------------------

\* What a process does without anybody's leave.
Step(p) ==
    \/ SvcRun(p) \/ SvcDoRun(p) \/ SetRunning(p) \/ ReportRunning(p) \/ ReportFails(p)
    \/ OpenMutex(p) \/ OpenLockFile(p) \/ LockFile(p) \/ CloseLock(p)
    \/ StartServer(p) \/ StartServerRaises(p) \/ StartServerHangs(p)
    \/ Poll(p) \/ LeaveServer(p) \/ LeavingHangs(p)

Commands ==
    \/ InstallCommand \/ StartCommand \/ StopCommand
    \/ RestartCommand \/ RestartStarts \/ RemoveCommand \/ RemoveService

Next ==
    \/ Commands \/ SvcStopped \/ ReportEnd
    \/ \E p \in Procs : \/ Step(p) \/ RunConsole(p) \/ InputEnds(p)
                        \/ DispatcherReturns(p) \/ Killed(p)

\* Processes and the manager go on; users are not obliged to anything, but a
\* restart that was begun goes on too.
Fairness ==
    /\ \A p \in Procs : WF_vars(Step(p))
    /\ WF_vars(SvcStopped)
    /\ WF_vars(ReportEnd)
    /\ WF_vars(RestartStarts)

Spec == Init /\ [][Next]_vars /\ Fairness

-----------------------------------------------------------------------------
(* Properties *)

\* Every variable keeps to its type, and only a process that lives has the lock
\* open, which it does while it may be serving.
TypeOK ==
    /\ windows \in BOOLEAN
    /\ lockFile \in BOOLEAN
    /\ session \in [Procs -> Sessions]
    /\ pc \in [Procs -> States]
    /\ handles \in SUBSET Procs
    /\ locked \in SUBSET handles
    /\ \A p \in handles : pc[p] \in Inside \cup {"opened", "closing"}
    /\ \A p \in Procs : pc[p] \in Inside => p \in handles
    /\ is_running \in [Services -> BOOLEAN]
    /\ status \in {"STOPPED", "START_PENDING", "RUNNING", "STOP_PENDING"}
    /\ stopping \in BOOLEAN
    /\ stopping => status # "STOPPED"
    /\ host \in Services \cup {NoHost}
    /\ status # "STOPPED" => host \in Services
    /\ installed \in BOOLEAN
    /\ command \in {"none", "restart", "restarted", "remove"}

\* Whatever is started, stopped, restarted and killed, on either platform, at
\* most one of the processes that share a session (elsewhere than on Windows: of
\* all) is between entering and having left start_server (single_instance.py).
OneServesPerSession ==
    \A p, q \in Procs :
        pc[p] \in Inside /\ pc[q] \in Inside /\ Shares(p, q) => p = q

\* "make-sure-only-a-single-instance-of-a-program-is-running"
\* (single_instance.py:14): no two processes are inside, whoever started them.
AtMostOneServes ==
    \A p, q \in Procs : pc[p] \in Inside /\ pc[q] \in Inside => p = q

\* From where SvcDoRun has set is_running on, a service that was told to stop
\* leaves start_server and the lock, also if it was told so before it asked for
\* them, unless the log writer had died.
StopIsHeeded ==
    \A p \in Services :
        pc[p] \in {"prepared", "start"} \cup Inside /\ ~is_running[p] ~>
            pc[p] \in {"ended", "stuck"}

\* "service stopped" (windows_service.py:132): the loop of a service that has
\* reported STOPPED is going to end.
StopIsKept ==
    host \in Services /\ status = "STOPPED" /\ Alive(host) => ~is_running[host]

\* RUNNING is reported before the lock is had and the sockets are bound, but a
\* service does not stay RUNNING without serving, unless the log writer had died.
RunningServesOrStops ==
    \A p \in Services :
        host = p /\ status = "RUNNING" ~>
            pc[p] \in {"serving", "stuck"} \/ host # p \/ status # "RUNNING"

\* "service restarted" (windows_service.py:141): the process the restart has
\* brought comes to serve, also when the one that was told to stop has not yet seen
\* it, where nobody else starts the program.
RestartServes ==
    /\ command = "restarted"
    /\ \E p \in Services : p # host /\ pc[p] = "serving" /\ ~is_running[p]
    ~> host \in Services /\ pc[host] = "serving"

=============================================================================
