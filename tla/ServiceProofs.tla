---------------------------- MODULE ServiceProofs ----------------------------
(***************************************************************************)
(* At most one process of a session serves (elsewhere than on Windows: one *)
(* at all), for any number of programs, sessions and service processes,    *)
(* with every command, exception and kill.                                 *)
(*                                                                         *)
(* TypeOK and OneServesPerSession are not inductive: that nobody holds the *)
(* lock must mean that nobody is inside.  On Windows the open handles say  *)
(* so, which is in TypeOK; elsewhere the lock on the file does, which Held *)
(* adds.                                                                   *)
(***************************************************************************)
EXTENDS Service, TLAPS

\* Elsewhere than on Windows a process inside holds the lock on the file, and a
\* process that is about to ask for it has the file open.
Held ==
    /\ \A p \in Procs : pc[p] = "opened" => p \in handles /\ ~windows
    /\ ~windows => \A p \in Procs : pc[p] \in Inside => p \in locked

Inv == TypeOK /\ OneServesPerSession /\ Held

LEMMA InitInv == Init => Inv
BY SessionsAssumption DEF Init, Inv, TypeOK, OneServesPerSession, Held, Inside, States, Procs

\* Steps of the manager, of its users and of the framework move no process
\* except from "off" to "loaded".
LEMMA CommandInv ==
    ASSUME Inv, Commands \/ SvcStopped \/ ReportEnd
    PROVE  Inv'
<1> USE DEF Inv, machine, locks, Shares
<1>1. CASE InstallCommand
    BY <1>1 DEF InstallCommand, TypeOK, OneServesPerSession, Held
<1>2. CASE StartCommand
    BY <1>2 DEF StartCommand, ManagerStarts, Goto, TypeOK, OneServesPerSession, Held,
                Inside, States, Procs
<1>3. ASSUME SvcStop, UNCHANGED <<machine, pc, locks, host, installed>>,
             command' \in {"none", "restart", "remove"}
      PROVE  Inv'
    <2>1. status # "STOPPED" /\ status' = "STOP_PENDING" /\ stopping' = TRUE
        BY <1>3 DEF SvcStop
    <2>2. is_running' \in [Services -> BOOLEAN]
        BY <1>3 DEF SvcStop, TypeOK
    <2> QED BY <1>3, <2>1, <2>2 DEF TypeOK, OneServesPerSession, Held
<1>4. CASE StopCommand \/ RestartCommand \/ RemoveCommand
    <2>1. CASE SvcStop
        BY <1>3, <1>4, <2>1 DEF StopCommand, RestartCommand, RemoveCommand, TypeOK
    <2>2. CASE UNCHANGED <<is_running, status, stopping>>
        BY <1>4, <2>2 DEF StopCommand, RestartCommand, RemoveCommand,
                          TypeOK, OneServesPerSession, Held
    <2> QED BY <1>4, <2>1, <2>2 DEF StopCommand, RestartCommand, RemoveCommand
<1>5. CASE RestartStarts
    BY <1>5 DEF RestartStarts, ManagerStarts, Goto, TypeOK, OneServesPerSession, Held,
                Inside, States, Procs
<1>6. CASE RemoveService
    BY <1>6 DEF RemoveService, TypeOK, OneServesPerSession, Held
<1>7. CASE SvcStopped
    BY <1>7 DEF SvcStopped, TypeOK, OneServesPerSession, Held
<1>8. CASE ReportEnd
    BY <1>8 DEF ReportEnd, TypeOK, OneServesPerSession, Held
<1> QED BY <1>1, <1>2, <1>4, <1>5, <1>6, <1>7, <1>8 DEF Commands

\* The lock is had by one process at a time.
LEMMA LockInv ==
    ASSUME Inv, NEW p \in Procs,
           OpenMutex(p) \/ OpenLockFile(p) \/ LockFile(p) \/ CloseLock(p)
    PROVE  Inv'
<1> USE DEF Inv, machine, locks, manager, Goto, Inside, States, Shares
<1>1. CASE OpenMutex(p)
    BY <1>1 DEF OpenMutex, TypeOK, OneServesPerSession, Held
<1>2. CASE OpenLockFile(p)
    BY <1>2 DEF OpenLockFile, TypeOK, OneServesPerSession, Held
<1>3. CASE LockFile(p)
    BY <1>3 DEF LockFile, TypeOK, OneServesPerSession, Held
<1>4. CASE CloseLock(p)
    BY <1>4 DEF CloseLock, TypeOK, OneServesPerSession, Held
<1> QED BY <1>1, <1>2, <1>3, <1>4

\* Between having the lock and giving it back a process moves alone.
LEMMA ServeInv ==
    ASSUME Inv, NEW p \in Procs,
           \/ StartServer(p) \/ StartServerRaises(p) \/ StartServerHangs(p)
           \/ InputEnds(p) \/ Poll(p) \/ LeaveServer(p) \/ LeavingHangs(p)
    PROVE  Inv'
<1> USE DEF Inv, machine, locks, manager, Goto, Inside, States, Shares
<1>1. CASE StartServer(p)
    BY <1>1 DEF StartServer, TypeOK, OneServesPerSession, Held
<1>2. CASE StartServerRaises(p)
    BY <1>2 DEF StartServerRaises, TypeOK, OneServesPerSession, Held
<1>3. CASE InputEnds(p)
    BY <1>3 DEF InputEnds, TypeOK, OneServesPerSession, Held
<1>4. CASE Poll(p)
    BY <1>4 DEF Poll, TypeOK, OneServesPerSession, Held
<1>5. CASE LeaveServer(p)
    BY <1>5 DEF LeaveServer, TypeOK, OneServesPerSession, Held
<1>6. CASE LeavingHangs(p)
    BY <1>6 DEF LeavingHangs, TypeOK, OneServesPerSession, Held
<1>7. CASE StartServerHangs(p)
    BY <1>7 DEF StartServerHangs, TypeOK, OneServesPerSession, Held
<1> QED BY <1>1, <1>2, <1>3, <1>4, <1>5, <1>6, <1>7

\* A process that starts or ends takes no lock.
LEMMA ProcessInv ==
    ASSUME Inv, NEW p \in Procs,
           \/ RunConsole(p) \/ SvcRun(p) \/ SvcDoRun(p) \/ SetRunning(p)
           \/ ReportRunning(p) \/ ReportFails(p) \/ DispatcherReturns(p) \/ Killed(p)
    PROVE  Inv'
<1> USE DEF Inv, machine, locks, manager, Goto, Inside, States, Shares
<1>1. CASE RunConsole(p)
    BY <1>1 DEF RunConsole, TypeOK, OneServesPerSession, Held
<1>2. CASE SvcRun(p) \/ SvcDoRun(p) \/ ReportRunning(p)
    <2> USE DEF Report, Heard
    <2>1. CASE SvcRun(p)
        BY <2>1 DEF SvcRun, TypeOK, OneServesPerSession, Held
    <2>2. CASE SvcDoRun(p)
        BY <2>2 DEF SvcDoRun, TypeOK, OneServesPerSession, Held
    <2>3. CASE ReportRunning(p)
        BY <2>3 DEF ReportRunning, TypeOK, OneServesPerSession, Held
    <2> QED BY <1>2, <2>1, <2>2, <2>3
<1>3. CASE SetRunning(p)
    BY <1>3 DEF SetRunning, TypeOK, OneServesPerSession, Held
<1>4. CASE ReportFails(p)
    BY <1>4 DEF ReportFails, TypeOK, OneServesPerSession, Held
<1>5. CASE Ends(p)
    BY <1>5 DEF Ends, Alive, TypeOK, OneServesPerSession, Held
<1> QED BY <1>1, <1>2, <1>3, <1>4, <1>5 DEF DispatcherReturns, Killed

LEMMA NextInv == Inv /\ [Next]_vars => Inv'
<1> SUFFICES ASSUME Inv, [Next]_vars PROVE Inv'
    OBVIOUS
<1>1. CASE Next
    BY <1>1, CommandInv, LockInv, ServeInv, ProcessInv DEF Next, Step
<1>2. CASE UNCHANGED vars
    BY <1>2 DEF vars, machine, locks, manager, Shares, Inv, TypeOK, OneServesPerSession, Held
<1> QED BY <1>1, <1>2

\* The inductive invariant holds in every state of the service.
THEOREM Invariance == Spec => []Inv
BY InitInv, NextInv, PTL DEF Spec

\* Every variable keeps to its type, and who may serve has the lock open.
THEOREM TypeCorrect == Spec => []TypeOK
<1>1. Inv => TypeOK
    BY DEF Inv
<1> QED BY <1>1, Invariance, PTL

\* At most one of the processes that share a session is between entering and having
\* left start_server.
THEOREM MutualExclusion == Spec => []OneServesPerSession
<1>1. Inv => OneServesPerSession
    BY DEF Inv
<1> QED BY <1>1, Invariance, PTL

=============================================================================
