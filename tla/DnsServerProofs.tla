--------------------------- MODULE DnsServerProofs ---------------------------
(***************************************************************************)
(* What DnsServer promises, for any number of handlers, logs and restarts. *)
(* First, a server process does with the log queue only what RequestLog    *)
(* says, so that what RequestLogProofs proves holds here too.  Then where  *)
(* start_server is tells which servers accept, whether the DoH client is   *)
(* open and how far the queue has been left.                               *)
(***************************************************************************)
EXTENDS DnsServer, RequestLogProofs

\* No step of a server process is more than a step of its log.
LEMMA StepIsLogStep == ServerNext => [Next]_vars
<1> SUFFICES ASSUME ServerNext PROVE Next \/ UNCHANGED vars
    OBVIOUS
<1>1. CASE MainStep \/ Stop \/ ServeEnds
    BY <1>1 DEF MainStep, ReadConfig, ReadConfigFails, EnterDoh, EnterLog, EnterServer,
        Entering, BindFails, Shutdown, JoinServer, LeaveLog, ExitLog, LogLeft, CloseDoh,
        Stop, ServeEnds, Next
<1>2. CASE Write \/ Kill
    BY <1>2 DEF Write, Kill, Next
<1>3. CASE \E h \in Handlers : Accept(h) \/ LogRequest(h) \/ Reply(h)
    BY <1>3 DEF Accept, LogRequest, Reply, Next
<1> QED BY <1>1, <1>2, <1>3 DEF ServerNext

LEMMA StutterIsLogStutter == UNCHANGED serverVars => [Next]_vars
BY DEF serverVars

\* By the way DnsServer is built from the actions of RequestLog, what is proved of
\* those holds of a server process.
LEMMA LogRefinement == ServerSpec => Init /\ [][Next]_vars
<1>1. ServerInit => Init
    BY DEF ServerInit
<1>2. [ServerNext]_serverVars => [Next]_vars
    BY StepIsLogStep, StutterIsLogStutter
<1> QED BY <1>1, <1>2, PTL DEF ServerSpec

\* So the invariant of RequestLog holds here.
THEOREM LogInvariance == ServerSpec => []IInv
<1>1. Init => IInv
    BY InitIInv
<1>2. IInv /\ [Next]_vars => IInv'
    BY NextIInv
<1> QED BY <1>1, <1>2, LogRefinement, PTL

-----------------------------------------------------------------------------
(* Where start_server is *)

\* The place of a server among the contexts.
Rank == [tcp4 |-> 3, tcp6 |-> 4, udp4 |-> 5, udp6 |-> 6]

\* How far start_server is tells how many contexts are entered.
Depth ==
    /\ phase \in {"start", "down"} => entered = 0
    /\ phase = "up" => entered = 6
    /\ phase = "leaving" => entered >= 1
    /\ phase = "entering" => entered <= 5
    /\ doh = "open" <=> entered >= 1

\* How many contexts are entered tells which servers accept; the one being left
\* may be at any point of its shutdown.
Stands ==
    \A s \in Servers :
        /\ Rank[s] < entered => server[s] = "serving"
        /\ Rank[s] = entered => \/ server[s] = "serving"
                                \/ phase = "leaving" /\ server[s] # "none"
        /\ Rank[s] > entered => server[s] \in {"none", "stopped"}

\* The queue is left after the servers and before the DoH client.
Leave ==
    /\ exit # "yield" => \/ phase = "leaving" /\ entered = 2
                         \/ exit = "closed" /\ entered <= 1 /\ phase \in {"leaving", "down"}
    /\ phase = "leaving" /\ entered = 1 => exit = "closed"
    /\ entered = 0 /\ doh = "closed" => exit = "closed" /\ phase = "down"
    /\ exit = "closed" => writer \in {"stopped", "dead"}

\* When queue.join() has returned, everything answered early was put before.
Early ==
    /\ doh = "none" => early = {}
    /\ exit \in {"set", "thread_join", "closed"} => early \subseteq (base + 1)..joined

DInv == ServerTypeOK /\ Depth /\ Stands /\ Leave /\ Early

LEMMA ContextsFacts ==
    /\ Len(Contexts) = 6
    /\ \A k \in 1..6 : Contexts[k] = "doh" <=> k = 1
    /\ \A k \in 1..6 : Contexts[k] = "log" <=> k = 2
    /\ \A k \in 1..6 : Contexts[k] \in Servers <=> k >= 3
    /\ \A k \in 1..6, s \in Servers : Contexts[k] = s <=> k = Rank[s]
    /\ \A s \in Servers : Rank[s] \in 3..6
    /\ \A s, t \in Servers : Rank[s] = Rank[t] => s = t
BY DEF Contexts, Servers, Rank

LEMMA AcceptsEntered ==
    ASSUME DInv, Accepting # {}
    PROVE  entered >= 3 /\ exit = "yield" /\ doh = "open"
<1>1. PICK s \in Servers : server[s] \in {"serving", "stopping"}
    BY DEF Accepting
<1>2. Rank[s] \in 3..6 /\ entered \in 0..6
    BY ContextsFacts DEF DInv, ServerTypeOK
<1>3. Rank[s] <= entered
    BY <1>1, <1>2 DEF DInv, Stands
<1> QED BY <1>2, <1>3 DEF DInv, Depth, Leave

LEMMA InitDInv == ServerInit => DInv
<1> SUFFICES ASSUME ServerInit PROVE DInv
    OBVIOUS
<1>1. ServerTypeOK
    BY ContextsFacts DEF ServerInit, Init, ServerTypeOK
<1>2. Stands
    BY ContextsFacts DEF ServerInit, Stands
<1> QED BY <1>1, <1>2 DEF ServerInit, Init, DInv, Depth, Leave, Early

-----------------------------------------------------------------------------
(* Steps of the main thread and of serve_forever: the log is left alone *)

USE DEF lifecycle, threads, queued, rows, process, closing

\* What a step that leaves the log and the handlers alone leaves as it is.
Calm == UNCHANGED <<vars, threads>>

LEMMA CalmKeeps ==
    ASSUME ServerTypeOK, Calm,
           phase' \in {"start", "entering", "up", "leaving", "down"}, entered' \in 0..6,
           server' \in [Servers -> {"none", "serving", "stopping", "stopped"}],
           doh' \in {"none", "open", "closed"}
    PROVE  ServerTypeOK'
BY ContextsFacts DEF ServerTypeOK, Calm, vars

LEMMA CalmEarly == ASSUME Early, Calm, doh' = "none" => doh = "none" PROVE Early'
BY DEF Early, Calm, vars

LEMMA EnterStep ==
    ASSUME DInv, ReadConfig \/ ReadConfigFails \/ EnterDoh \/ EnterLog \/ EnterServer
    PROVE  DInv'
<1> DEFINE Begin == ReadConfig \/ ReadConfigFails
           More == EnterDoh \/ EnterLog \/ EnterServer
<1>1. Calm /\ entered \in 0..6
    BY ContextsFacts DEF ReadConfig, ReadConfigFails, EnterDoh, EnterLog, EnterServer, Entering,
        Calm, DInv, ServerTypeOK
<1>2. CASE Begin
    <2>1. UNCHANGED <<entered, server, doh>> /\ phase = "start" /\ phase' \in {"entering", "down"}
        BY <1>2 DEF ReadConfig, ReadConfigFails
    <2>2. entered = 0
        BY <2>1 DEF DInv, Depth
    <2>3. ServerTypeOK'
        BY <1>1, <2>1, CalmKeeps DEF DInv, ServerTypeOK
    <2>4. Stands'
        BY <2>1, <2>2, ContextsFacts DEF DInv, Stands
    <2>5. Depth'
        BY <2>1, <2>2 DEF DInv, Depth
    <2>6. Leave'
        BY <1>1, <2>1, <2>2 DEF DInv, Leave, Calm, vars
    <2>7. Early'
        BY <1>1, <2>1, CalmEarly DEF DInv
    <2> QED BY <2>3, <2>4, <2>5, <2>6, <2>7 DEF DInv
<1>3. CASE More
    <2>1. /\ phase = "entering" /\ entered' = entered + 1 /\ entered \in 0..5
          /\ phase' = IF entered' = 6 THEN "up" ELSE "entering"
        BY <1>1, <1>3, ContextsFacts DEF EnterDoh, EnterLog, EnterServer, Entering, DInv, Depth
    <2>2. /\ doh' = "open"
          /\ entered >= 1 => doh' = doh
        <3>1. entered = 0 => EnterDoh
            BY <1>3, <2>1, ContextsFacts DEF EnterLog, EnterServer, Entering
        <3>2. entered >= 1 => EnterLog \/ EnterServer
            BY <1>3, <2>1, ContextsFacts DEF EnterDoh, Entering
        <3> QED BY <2>1, <3>1, <3>2 DEF EnterDoh, EnterLog, EnterServer, DInv, Depth
    <2>3. /\ server' \in [Servers -> {"none", "serving", "stopping", "stopped"}]
          /\ \A s \in Servers : server'[s] = IF Rank[s] = entered' THEN "serving" ELSE server[s]
        <3>1. CASE EnterDoh \/ EnterLog
            <4>1. entered' \in {1, 2} /\ server' = server
                BY <2>1, <3>1, ContextsFacts DEF EnterDoh, EnterLog, Entering
            <4> QED BY <4>1, ContextsFacts DEF DInv, ServerTypeOK
        <3>2. CASE EnterServer
            <4>1. PICK s \in Servers : /\ Contexts[entered + 1] = s
                                       /\ server' = [server EXCEPT ![s] = "serving"]
                BY <3>2 DEF EnterServer, Entering
            <4>2. Rank[s] = entered'
                BY <2>1, <4>1, ContextsFacts
            <4> QED BY <4>1, <4>2, ContextsFacts DEF DInv, ServerTypeOK
        <3> QED BY <1>3, <3>1, <3>2
    <2>4. ServerTypeOK'
        BY <1>1, <2>1, <2>2, <2>3, CalmKeeps DEF DInv
    <2>5. Stands'
        BY <2>1, <2>3, ContextsFacts DEF DInv, Stands
    <2>6. Depth'
        BY <2>1, <2>2 DEF DInv, Depth
    <2>7. Leave'
        BY <1>1, <2>1, <2>2 DEF DInv, Leave, Calm, vars
    <2>8. Early'
        BY <1>1, <2>2, CalmEarly DEF DInv
    <2> QED BY <2>4, <2>5, <2>6, <2>7, <2>8 DEF DInv
<1> QED BY <1>2, <1>3

\* A socket that cannot be bound, and the end of the program, turn the main
\* thread round: it leaves what it entered.
LEMMA TurnStep == ASSUME DInv, BindFails \/ Stop PROVE DInv'
<1>1. /\ Calm /\ UNCHANGED <<entered, server, doh>> /\ entered \in 0..6
      /\ phase \in {"entering", "up"} /\ phase' = "leaving"
    BY ContextsFacts DEF BindFails, Stop, Calm, DInv, ServerTypeOK
<1>2. entered >= 2
    <2>1. CASE BindFails
        BY <1>1, <2>1, ContextsFacts DEF BindFails, DInv, Depth
    <2>2. CASE Stop
        BY <2>2 DEF Stop, DInv, Depth
    <2> QED BY <2>1, <2>2
<1>3. ServerTypeOK'
    BY <1>1, CalmKeeps DEF DInv, ServerTypeOK
<1>4. Stands'
    BY <1>1, ContextsFacts DEF DInv, Stands
<1>5. Depth'
    BY <1>1, <1>2 DEF DInv, Depth
<1>6. Leave'
    BY <1>1, <1>2 DEF DInv, Leave, Calm, vars
<1>7. Early'
    BY <1>1, CalmEarly DEF DInv
<1> QED BY <1>3, <1>4, <1>5, <1>6, <1>7 DEF DInv

\* A server stops in two steps, and only the one being left does.
LEMMA StopStep == ASSUME DInv, Shutdown \/ ServeEnds PROVE DInv'
<1>1. Calm /\ UNCHANGED <<phase, entered, doh>> /\ entered \in 0..6
    BY ContextsFacts DEF Shutdown, ServeEnds, Calm, DInv, ServerTypeOK
<1>2. PICK s \in Servers :
        /\ phase = "leaving" /\ Rank[s] = entered
        /\ server' = [server EXCEPT ![s] = IF Shutdown THEN "stopping" ELSE "stopped"]
    <2>1. CASE Shutdown
        <3>1. PICK s \in Servers : /\ Leaving(s)
                                   /\ server' = [server EXCEPT ![s] = "stopping"]
            BY <2>1 DEF Shutdown
        <3>2. phase = "leaving" /\ entered >= 1
            BY <3>1 DEF Leaving, DInv, Depth
        <3>3. Rank[s] = entered
            BY <1>1, <3>1, <3>2, ContextsFacts DEF Leaving
        <3> QED BY <2>1, <3>1, <3>2, <3>3
    <2>2. CASE ServeEnds /\ ~Shutdown
        <3>1. PICK s \in Servers : /\ server[s] = "stopping"
                                   /\ server' = [server EXCEPT ![s] = "stopped"]
            BY <2>2 DEF ServeEnds
        <3>2. Rank[s] \in 3..6
            BY ContextsFacts
        <3>3. phase = "leaving" /\ Rank[s] = entered
            BY <1>1, <3>1, <3>2 DEF DInv, Stands
        <3> QED BY <2>2, <3>1, <3>3
    <2> QED BY <2>1, <2>2
<1>3. ServerTypeOK'
    BY <1>1, <1>2, CalmKeeps DEF DInv, ServerTypeOK
<1>4. Stands'
    <2> SUFFICES ASSUME NEW t \in Servers PROVE Stands!(t)'
        BY DEF Stands
    <2>1. CASE t = s
        BY <1>1, <1>2, <2>1 DEF DInv, ServerTypeOK
    <2>2. CASE t # s
        BY <1>1, <1>2, <2>2 DEF DInv, Stands, ServerTypeOK
    <2> QED BY <2>1, <2>2
<1>5. Depth'
    BY <1>1 DEF DInv, Depth
<1>6. Leave'
    BY <1>1 DEF DInv, Leave, Calm, vars
<1>7. Early'
    BY <1>1, CalmEarly DEF DInv
<1> QED BY <1>3, <1>4, <1>5, <1>6, <1>7 DEF DInv

\* A context is left: the one entered last.
LEMMA LeftStep == ASSUME DInv, JoinServer \/ LogLeft \/ CloseDoh PROVE DInv'
<1>1. /\ Calm /\ UNCHANGED server /\ phase = "leaving" /\ entered \in 1..6
      /\ entered' = entered - 1
      /\ phase' = IF entered = 1 THEN "down" ELSE "leaving"
    BY ContextsFacts DEF JoinServer, LogLeft, CloseDoh, Leaving, Left, Calm, DInv, ServerTypeOK,
        Depth
<1>2. /\ entered >= 3 => \A s \in Servers : Rank[s] = entered => server[s] = "stopped"
      /\ entered = 2 => exit = "closed"
      /\ doh' = IF entered = 1 THEN "closed" ELSE doh
    <2>1. CASE JoinServer
        <3>1. PICK s \in Servers : Contexts[entered] = s /\ server[s] = "stopped"
            BY <2>1 DEF JoinServer, Leaving
        <3>2. entered >= 3 /\ Rank[s] = entered
            BY <1>1, <3>1, ContextsFacts
        <3> QED BY <2>1, <3>1, <3>2, ContextsFacts DEF JoinServer
    <2>2. CASE LogLeft
        <3>1. entered = 2
            BY <1>1, <2>2, ContextsFacts DEF LogLeft, Leaving
        <3> QED BY <2>2, <3>1 DEF LogLeft
    <2>3. CASE CloseDoh
        <3>1. entered = 1
            BY <1>1, <2>3, ContextsFacts DEF CloseDoh, Leaving
        <3> QED BY <2>3, <3>1 DEF CloseDoh
    <2> QED BY <2>1, <2>2, <2>3
<1>3. ServerTypeOK'
    BY <1>1, <1>2, CalmKeeps DEF DInv, ServerTypeOK
<1>4. Stands'
    BY <1>1, <1>2, ContextsFacts DEF DInv, Stands
<1>5. Depth'
    BY <1>1, <1>2 DEF DInv, Depth
<1>6. Leave'
    BY <1>1, <1>2 DEF DInv, Leave, Calm, vars
<1>7. Early'
    <2>1. doh # "none"
        BY <1>1 DEF DInv, Depth
    <2> QED BY <1>1, <1>2, <2>1, CalmEarly DEF DInv
<1> QED BY <1>3, <1>4, <1>5, <1>6, <1>7 DEF DInv

-----------------------------------------------------------------------------
(* Steps of the log, within the life of the process *)

\* The writer ends only when the queue has been left, and then for good.
LEMMA WriterKeeps ==
    ASSUME WriterStep
    PROVE  /\ UNCHANGED <<put, closing, process>>
           /\ writer \notin {"stopped", "dead"}
BY DEF WriterStep, WriterOpens, WriterOpenFails, Get, GetTimesOut, KeepPolling, StopPolling,
    Insert, InsertFails, Commit, TaskDone

LEMMA WriteStep == ASSUME DInv, Write PROVE DInv'
<1>1. /\ UNCHANGED <<put, closing, process, lifecycle, threads>>
      /\ writer \notin {"stopped", "dead"}
    BY WriterKeeps DEF Write
<1>2. ServerTypeOK'
    BY <1>1 DEF DInv, ServerTypeOK
<1>3. Depth' /\ Stands'
    BY <1>1 DEF DInv, Depth, Stands
<1>4. Leave' /\ Early'
    BY <1>1 DEF DInv, Leave, Early
<1> QED BY <1>2, <1>3, <1>4 DEF DInv

LEMMA ExitSteps == ASSUME TypeOK, DInv, LeaveLog \/ ExitLog PROVE DInv'
<1>1. /\ UNCHANGED <<put, base, writer, lifecycle, threads>>
      /\ \/ exit = "yield" /\ exit' = "join" /\ LeaveLog
         \/ exit = "join" /\ exit' = "set" /\ joined' = put
         \/ exit = "set" /\ exit' = "thread_join" /\ joined' = joined
         \/ /\ exit = "thread_join" /\ exit' = "closed" /\ joined' = joined
            /\ writer \in {"stopped", "dead"}
    BY DEF LeaveLog, StartExit, ExitLog, ExitStep, JoinReturns, SetFinished, WriterJoined
<1>2. ServerTypeOK'
    BY <1>1 DEF DInv, ServerTypeOK
<1>3. Depth' /\ Stands'
    BY <1>1 DEF DInv, Depth, Stands
<1>4. Leave'
    <2>1. phase = "leaving" /\ entered = 2
        <3>1. CASE LeaveLog
            <4>1. phase = "leaving" /\ Contexts[entered] = "log" /\ entered \in 0..6
                BY <3>1, ContextsFacts DEF LeaveLog, Leaving, DInv, ServerTypeOK
            <4> QED BY <4>1, ContextsFacts DEF DInv, Depth
        <3>2. CASE ~LeaveLog
            BY <1>1, <3>2 DEF DInv, Leave
        <3> QED BY <3>1, <3>2
    <2> QED BY <1>1, <2>1 DEF DInv, Leave
<1>5. Early'
    <2>1. early \subseteq (base + 1)..put
        BY DEF DInv, ServerTypeOK
    <2> QED BY <1>1, <2>1 DEF DInv, Early
<1> QED BY <1>2, <1>3, <1>4, <1>5 DEF DInv

-----------------------------------------------------------------------------
(* Handlers, and the end of the process *)

LEMMA HandlerStep ==
    ASSUME TypeOK, DInv, NEW h \in Handlers, Accept(h) \/ LogRequest(h) \/ Reply(h)
    PROVE  DInv'
<1>1. UNCHANGED <<base, writer, exit, joined, lifecycle>>
    BY DEF Accept, LogRequest, Reply, Put, vars
<1>2. /\ put' \in {put, put + 1}
      /\ handler' \in [Handlers -> {"idle", "working", "done"}]
      /\ mine' \in [Handlers -> SUBSET ((base + 1)..put')]
      /\ \A g \in Handlers : mine[g] \subseteq mine'[g]
      /\ early' \subseteq early \cup UNION {mine[g] : g \in Handlers}
      /\ early' # early => Accepting # {}
    <2>1. put \in Nat /\ base \in 0..put
        BY DEF TypeOK
    <2>2. CASE Accept(h)
        BY <2>1, <2>2 DEF Accept, vars, DInv, ServerTypeOK
    <2>3. CASE LogRequest(h)
        BY <2>1, <2>3 DEF LogRequest, Put, DInv, ServerTypeOK
    <2>4. CASE Reply(h)
        BY <2>1, <2>4 DEF Reply, vars, DInv, ServerTypeOK
    <2> QED BY <2>2, <2>3, <2>4
<1>3. ServerTypeOK'
    <2>1. early' \subseteq UNION {mine'[g] : g \in Handlers}
        BY <1>2 DEF DInv, ServerTypeOK
    <2> QED BY <1>1, <1>2, <2>1 DEF DInv, ServerTypeOK
<1>4. Depth' /\ Stands'
    BY <1>1 DEF DInv, Depth, Stands
<1>5. Leave'
    BY <1>1 DEF DInv, Leave
<1>6. Early'
    BY <1>1, <1>2, AcceptsEntered DEF DInv, Early
<1> QED BY <1>3, <1>4, <1>5, <1>6 DEF DInv

LEMMA KillStep == ASSUME TypeOK, DInv, Kill PROVE DInv'
<1>1. ServerTypeOK'
    BY ContextsFacts DEF Kill, ServerTypeOK
<1>2. Depth' /\ Stands'
    BY ContextsFacts DEF Kill, Depth, Stands
<1>3. Leave' /\ Early'
    BY DEF Kill, Restart, Leave, Early
<1> QED BY <1>1, <1>2, <1>3 DEF DInv

LEMMA StepDInv == ASSUME TypeOK, DInv, [ServerNext]_serverVars PROVE DInv'
<1>1. CASE MainStep
    BY <1>1, EnterStep, TurnStep, StopStep, LeftStep, ExitSteps DEF MainStep
<1>2. CASE Stop \/ ServeEnds
    BY <1>2, TurnStep, StopStep
<1>3. CASE Write \/ Kill
    BY <1>3, WriteStep, KillStep
<1>4. CASE \E h \in Handlers : Accept(h) \/ LogRequest(h) \/ Reply(h)
    BY <1>4, HandlerStep
<1>5. CASE UNCHANGED serverVars
    <2>1. Calm /\ UNCHANGED lifecycle
        BY <1>5 DEF serverVars, Calm
    <2>2. ServerTypeOK'
        BY <2>1, CalmKeeps, ContextsFacts DEF DInv, ServerTypeOK
    <2>3. Depth' /\ Stands'
        BY <2>1 DEF DInv, Depth, Stands
    <2>4. Leave' /\ Early'
        BY <2>1 DEF DInv, Leave, Early, Calm, vars
    <2> QED BY <2>2, <2>3, <2>4 DEF DInv
<1> QED BY <1>1, <1>2, <1>3, <1>4, <1>5 DEF ServerNext

-----------------------------------------------------------------------------
(* The theorems *)

\* Every reachable state satisfies the inductive invariant.
THEOREM ServerInvariance == ServerSpec => []DInv
<1>1. ServerInit => DInv
    BY InitDInv
<1>2. IInv /\ DInv /\ [ServerNext]_serverVars => DInv'
    BY StepDInv DEF IInv
<1> QED BY <1>1, <1>2, LogInvariance, PTL DEF ServerSpec

\* Type correctness: a handler's logs are logs that were put by this process.
THEOREM ServerTypeCorrect == ServerSpec => []ServerTypeOK
<1>1. DInv => ServerTypeOK
    BY DEF DInv
<1> QED BY <1>1, ServerInvariance, PTL

\* While a socket server accepts, the DoH client is open and the queue of logs is
\* served (the order of the contexts, dns_server.py:93-101).
THEOREM Nesting == ServerSpec => []AcceptingInside
<1>1. DInv => AcceptingInside
    <2> SUFFICES ASSUME DInv, Accepting # {} PROVE doh = "open" /\ LogEntered /\ exit = "yield"
        BY DEF AcceptingInside
    <2>1. entered >= 3 /\ entered \in 0..6 /\ exit = "yield" /\ doh = "open"
        BY AcceptsEntered, ContextsFacts DEF DInv, ServerTypeOK
    <2>2. LogEntered
        BY <2>1, ContextsFacts DEF LogEntered
    <2> QED BY <2>1, <2>2
<1> QED BY <1>1, ServerInvariance, PTL

\* start_server yields with all four servers or leaves nothing behind.
THEOREM Atomicity == ServerSpec => []AllOrNothing
<1>1. DInv => AllOrNothing
    <2> SUFFICES ASSUME DInv PROVE AllOrNothing
        OBVIOUS
    <2>1. phase = "up" => \A s \in Servers : server[s] = "serving"
        BY ContextsFacts DEF DInv, Depth, Stands
    <2>2. ASSUME phase = "down"
          PROVE  Accepting = {} /\ doh # "open"
                 /\ (doh = "closed" => exit = "closed" /\ writer \in {"stopped", "dead"})
        BY <2>2, AcceptsEntered DEF DInv, Depth, Leave
    <2> QED BY <2>1, <2>2 DEF AllOrNothing
<1> QED BY <1>1, ServerInvariance, PTL

\* What was answered while a server accepted is on record when all is down, though
\* nobody waits for the handlers: the servers are left before the queue is joined.
THEOREM OnRecord == ServerSpec => []AnsweredIsRecorded
<1>1. IInv /\ DInv => AnsweredIsRecorded
    <2> SUFFICES ASSUME IInv, DInv, phase = "down", NEW e \in early
                 PROVE  e \in Elements(table) \cup failed
        BY DEF AnsweredIsRecorded
    <2>1. exit = "closed"
        BY DEF DInv, Depth, Leave, Early, ServerTypeOK
    <2>2. e \in (base + 1)..joined
        BY <2>1 DEF DInv, Early
    <2> QED BY <2>1, <2>2 DEF IInv, HandledAtExit
<1> QED BY <1>1, LogInvariance, ServerInvariance, PTL

=============================================================================
