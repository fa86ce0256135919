------------------------------ MODULE DnsServer ------------------------------
(***************************************************************************)
(* The life of a server process: start_server enters its contexts one      *)
(* after another (the DoH client, the queue of logs, four socket servers), *)
(* yields, and leaves them in reverse order when the program stops or a    *)
(* socket cannot be bound.  Handler threads answer requests all the while; *)
(* they are daemons that nobody joins, and put their logs on the queue of  *)
(* RequestLog, whose writer and exit run inside this module's steps.       *)
(***************************************************************************)
EXTENDS RequestLog

CONSTANTS Handlers   \* the handler threads of a process

Servers == {"tcp4", "tcp6", "udp4", "udp6"}

\* Mutant of Contexts: the queue of logs is entered last, so it is left first.
ContextsLogLast == <<"doh", "tcp4", "tcp6", "udp4", "udp6", "log">>

Contexts == <<"doh", "log", "tcp4", "tcp6", "udp4", "udp6">>

VARIABLES
    phase,      \* where start_server is
    entered,    \* how many of the contexts are entered and not yet left
    server,     \* the state of each socket server
    doh,        \* the state of doh_client
    handler,    \* the state of each handler thread
    mine,       \* the logs each handler has put
    early       \* history: logs of requests answered while a server accepted

lifecycle == <<phase, entered, server, doh>>
threads == <<handler, mine, early>>
serverVars == <<vars, lifecycle, threads>>

\* The thread of serve_forever hands requests to handlers until it ends, which
\* may be one request after shutdown() has asked it to.
Accepting == {s \in Servers : server[s] \in {"serving", "stopping"}}

LogEntered == \E k \in 1..entered : Contexts[k] = "log"

ServerInit ==
    /\ Init
    /\ phase = "start"
    /\ entered = 0
    /\ server = [s \in Servers |-> "none"]
    /\ doh = "none"
    /\ handler = [h \in Handlers |-> "idle"]
    /\ mine = [h \in Handlers |-> {}]
    /\ early = {}

-----------------------------------------------------------------------------
(* Entering, by the main thread *)

ReadConfig ==
    /\ phase = "start"
    /\ phase' = "entering"
    /\ UNCHANGED <<vars, entered, server, doh, threads>>

\* config.json is faulty, or init_db raises: no context is entered.
ReadConfigFails ==
    /\ phase = "start"
    /\ phase' = "down"
    /\ UNCHANGED <<vars, entered, server, doh, threads>>

Entering(context) ==
    /\ phase = "entering"
    /\ Contexts[entered + 1] = context
    /\ entered' = entered + 1
    /\ phase' = IF entered' = Len(Contexts) THEN "up" ELSE "entering"
    /\ UNCHANGED <<vars, threads>>

EnterDoh == Entering("doh") /\ doh' = "open" /\ UNCHANGED server

EnterLog == Entering("log") /\ UNCHANGED <<server, doh>>

EnterServer ==
    \E s \in Servers :
        /\ Entering(s)
        /\ server' = [server EXCEPT ![s] = "serving"]
        /\ UNCHANGED doh

\* Mutant of BindFails: the contexts entered so far are not left.
BindFailsAtOnce ==
    /\ phase = "entering"
    /\ Contexts[entered + 1] \in Servers
    /\ phase' = "down"
    /\ UNCHANGED <<vars, entered, server, doh, threads>>

\* The constructor of a server raises: the exception leaves what is entered.
BindFails ==
    /\ phase = "entering"
    /\ Contexts[entered + 1] \in Servers
    /\ phase' = "leaving"
    /\ UNCHANGED <<vars, entered, server, doh, threads>>

\* The input loop or the service ends.
Stop ==
    /\ phase = "up"
    /\ phase' = "leaving"
    /\ UNCHANGED <<vars, entered, server, doh, threads>>

-----------------------------------------------------------------------------
(* Leaving, the context entered last first *)

Leaving(context) == phase = "leaving" /\ Contexts[entered] = context

Left ==
    /\ entered' = entered - 1
    /\ phase' = IF entered = 1 THEN "down" ELSE "leaving"

\* Mutant of Shutdown: the thread is joined and not asked to end.
ShutdownForgotten ==
    /\ \E s \in Servers : Leaving(s) /\ server[s] = "serving"
    /\ UNCHANGED serverVars

Shutdown ==
    /\ \E s \in Servers :
         /\ Leaving(s)
         /\ server[s] = "serving"
         /\ server' = [server EXCEPT ![s] = "stopping"]
    /\ UNCHANGED <<vars, phase, entered, doh, threads>>

\* The thread of serve_forever sees the request, within its 0.5 s poll.
ServeEnds ==
    /\ \E s \in Servers :
         /\ server[s] = "stopping"
         /\ server' = [server EXCEPT ![s] = "stopped"]
    /\ UNCHANGED <<vars, phase, entered, doh, threads>>

JoinServer ==
    /\ \E s \in Servers : Leaving(s) /\ server[s] = "stopped"
    /\ Left
    /\ UNCHANGED <<vars, server, doh, threads>>

LeaveLog == Leaving("log") /\ StartExit /\ UNCHANGED <<lifecycle, threads>>

\* Mutant of ExitLog: the queue is left without waiting for it.
ExitLogAtOnce ==
    /\ exit = "join"
    /\ exit' = "closed"
    /\ UNCHANGED <<queued, finished, joined, writer, item, rows, process>>
    /\ UNCHANGED <<lifecycle, threads>>

ExitLog == ExitStep /\ UNCHANGED <<lifecycle, threads>>

LogLeft ==
    /\ Leaving("log")
    /\ exit = "closed"
    /\ Left
    /\ UNCHANGED <<vars, server, doh, threads>>

CloseDoh ==
    /\ Leaving("doh")
    /\ doh' = "closed"
    /\ Left
    /\ UNCHANGED <<vars, server, threads>>

-----------------------------------------------------------------------------
(* The other threads, and the end of the process *)

Write == LogEntered /\ WriterStep /\ UNCHANGED <<lifecycle, threads>>

Accept(h) ==
    /\ handler[h] = "idle"
    /\ Accepting # {}
    /\ handler' = [handler EXCEPT ![h] = "working"]
    /\ UNCHANGED <<vars, lifecycle, mine, early>>

\* A local answer, or an attempt at an upstream that has succeeded or failed.
LogRequest(h) ==
    /\ handler[h] = "working"
    /\ Put
    /\ mine' = [mine EXCEPT ![h] = @ \cup {put'}]
    /\ UNCHANGED <<lifecycle, handler, early>>

\* The reply is sent after the logs were put.
Reply(h) ==
    /\ handler[h] = "working"
    /\ handler' = [handler EXCEPT ![h] = "done"]
    /\ early' = IF Accepting # {} THEN early \cup mine[h] ELSE early
    /\ UNCHANGED <<vars, lifecycle, mine>>

\* Mutant of Kill: the handlers outlive the process.
KillSpares ==
    /\ Restart
    /\ phase' = "start"
    /\ entered' = 0
    /\ server' = [s \in Servers |-> "none"]
    /\ doh' = "none"
    /\ UNCHANGED threads

\* All threads of the process end; the next one starts anew.
Kill ==
    /\ Restart
    /\ phase' = "start"
    /\ entered' = 0
    /\ server' = [s \in Servers |-> "none"]
    /\ doh' = "none"
    /\ handler' = [h \in Handlers |-> "idle"]
    /\ mine' = [h \in Handlers |-> {}]
    /\ early' = {}

MainStep ==
    \/ ReadConfig \/ ReadConfigFails \/ EnterDoh \/ EnterLog \/ EnterServer \/ BindFails
    \/ Shutdown \/ JoinServer \/ LeaveLog \/ ExitLog \/ LogLeft \/ CloseDoh

ServerNext ==
    \/ MainStep \/ Stop \/ ServeEnds \/ Write \/ Kill
    \/ \E h \in Handlers : Accept(h) \/ LogRequest(h) \/ Reply(h)

\* The main thread, the threads of serve_forever and the writer run whenever they
\* can.  Nothing obliges handlers to end or the program to stop.
ServerSpec ==
    /\ ServerInit
    /\ [][ServerNext]_serverVars
    /\ WF_serverVars(MainStep)
    /\ WF_serverVars(ServeEnds)
    /\ WF_serverVars(Write)

-----------------------------------------------------------------------------
(* Properties *)

\* Every variable keeps to its type, and a handler's logs are logs that were put.
ServerTypeOK ==
    /\ phase \in {"start", "entering", "up", "leaving", "down"}
    /\ entered \in 0..Len(Contexts)
    /\ server \in [Servers -> {"none", "serving", "stopping", "stopped"}]
    /\ doh \in {"none", "open", "closed"}
    /\ handler \in [Handlers -> {"idle", "working", "done"}]
    /\ mine \in [Handlers -> SUBSET ((base + 1)..put)]
    /\ early \subseteq UNION {mine[h] : h \in Handlers}

\* No server accepts a request outside the life of what its handler needs: the
\* DoH client is open and the queue of logs is served, from before the first
\* socket is bound until after the last one is shut down.
AcceptingInside ==
    Accepting # {} => doh = "open" /\ LogEntered /\ exit = "yield"

\* start_server yields with all four servers, or leaves nothing behind: when it
\* has ended, well or by a socket that could not be bound, no server accepts,
\* the DoH client is closed and the writer's thread has ended.
AllOrNothing ==
    /\ phase = "up" => \A s \in Servers : server[s] = "serving"
    /\ phase = "down" =>
         /\ Accepting = {}
         /\ doh # "open"
         /\ doh = "closed" => exit = "closed" /\ writer \in {"stopped", "dead"}

\* What a client was answered while the server was up is on record when it is
\* down: the logs of requests answered before the last server stopped accepting
\* are rows or were reported, whatever handlers were still at work.
AnsweredIsRecorded ==
    phase = "down" => early \subseteq Elements(table) \cup failed

\* Leaving comes to its end, after a failed start as after a stop, however many
\* handlers are at work, unless the writer died at its start or the process is
\* killed.
LeavingEnds == phase = "leaving" ~> phase \in {"down", "start"} \/ writer = "dead"

=============================================================================
