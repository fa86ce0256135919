-------------------------- MODULE RequestOrderProofs --------------------------
(***************************************************************************)
(* The order in which a request handler asks upstream servers, for all     *)
(* rules, requests and answers and every list of default servers, and the  *)
(* types of its variables.                                                 *)
(*                                                                         *)
(* The for loop is followed by its place in the list: how far it has come  *)
(* tells what is left to do, and every server before that place that can   *)
(* be reached was asked.                                                   *)
(***************************************************************************)
EXTENDS RequestHandlerProofs

USE DEF given, names, servers, history

-----------------------------------------------------------------------------
(* The loop over the servers *)

\* The servers of the loop.
All == Upstreams(asked)

\* Of the first k servers those that can be reached were asked, in their order;
\* at[i] is the place of the i-th one.
Placed(at, k) ==
    /\ at \in [1..Len(attempts) -> 1..k]
    /\ \A i \in 1..Len(attempts) : attempts[i].upstream = All[at[i]] /\ Reachable(All[at[i]])
    /\ \A i, j \in 1..Len(attempts) : i < j => at[i] < at[j]
    /\ \A m \in 1..k : Reachable(All[m]) => \E i \in 1..Len(attempts) : at[i] = m

\* The servers behind the first k are still to be tried.
LeftBehind(k) ==
    /\ \E S : todo \in Seq(S)
    /\ Len(todo) = Len(All) - k
    /\ \A i \in 1..Len(todo) : todo[i] = All[k + i]

Looping ==
    \E k \in 0..Len(All) : \E at :
        /\ Placed(at, k)
        /\ pc \in {"next", "waiting"} => LeftBehind(k)
        /\ pc = "finish" /\ LastReply = <<>> => k = Len(All)

\* Only the last server asked may have answered.
OthersFailed == \A i \in 1..Len(attempts) : i < Len(attempts) => attempts[i].reply = <<>>

Ordered == config \in Configs /\ Looping /\ OthersFailed

\* Whatever name is asked for, its servers are a list.
LEMMA ServersAreSeq ==
    ASSUME config \in Configs
    PROVE  \A name : \E S : Upstreams(name) \in Seq(S)
<1> SUFFICES ASSUME NEW name PROVE \E S : Upstreams(name) \in Seq(S)
    OBVIOUS
<1> DEFINE item == forwarding_rules(tables, name)
<1>1. CASE item = <<>>
    BY <1>1, ConfigsAssumption DEF Upstreams
<1>2. CASE item # <<>>
    <2>1. Upstreams(name) = <<item[1].group>>
        BY <1>2 DEF Upstreams
    <2>2. \A g : <<g>> \in Seq({g})
        OBVIOUS
    <2> QED BY <2>1, <2>2
<1> QED BY <1>1, <1>2

LEMMA LengthOfAll == ASSUME config \in Configs PROVE Len(All) \in Nat
<1>1. PICK S : All \in Seq(S)
    BY ServersAreSeq DEF All
<1> QED BY <1>1

\* Before the loop, whatever name will be asked for.
LEMMA NoneAsked ==
    ASSUME attempts = <<>>
    PROVE  \E at : Placed(at, 0)
<1>1. Len(attempts) = 0
    OBVIOUS
<1>2. Placed([i \in 1..0 |-> 0], 0)
    BY <1>1 DEF Placed
<1> QED BY <1>2

\* What was asked does not change where asked and attempts do not.
LEMMA PlacedStays ==
    ASSUME UNCHANGED <<config, tables, request, asked, attempts>>
    PROVE  /\ All' = All
           /\ \A at, k : Placed(at, k) => Placed(at, k)'
           /\ LastReply' = LastReply
           /\ OthersFailed => OthersFailed'
<1>1. All' = All
    BY DEF All, Upstreams
<1>2. \A u : Reachable(u)' <=> Reachable(u)
    BY DEF Reachable
<1> QED BY <1>1, <1>2 DEF Placed, LastReply, OthersFailed

LEMMA InitOrdered == Init => Ordered
<1> SUFFICES ASSUME Init PROVE Ordered
    OBVIOUS
<1>1. attempts = <<>> /\ pc = "open" /\ config \in Configs
    BY DEF Init
<1>2. 0 \in 0..Len(All)
    BY <1>1, LengthOfAll
<1>3. OthersFailed
    BY <1>1 DEF OthersFailed
<1> QED BY <1>1, <1>2, <1>3, NoneAsked DEF Ordered, Looping

Early == {"open", "receive", "check", "cloak", "check_cname", "route"}

\* Steps before the loop, with the one that begins it.
LEMMA BeforeLoop ==
    ASSUME Ordered, attempts = <<>>, UNCHANGED <<config, tables, request, attempts>>,
           \/ Route
           \/ pc' \in (Early \cup {"log", "reply", "done"})
    PROVE  Ordered'
<1>1. config' \in Configs
    BY DEF Ordered
<1>2. PICK S : All' \in Seq(S)
    <2>1. \A name : Upstreams(name)' = Upstreams(name)
        BY DEF Upstreams
    <2>2. PICK S : Upstreams(asked') \in Seq(S)
        BY ServersAreSeq DEF Ordered
    <2>3. All' = Upstreams(asked')
        BY DEF All, Upstreams
    <2> QED BY <2>2, <2>3
<1>3. OthersFailed' /\ Len(All') \in Nat /\ 0 \in 0..Len(All')
    BY <1>2 DEF OthersFailed
<1>4. PICK at : Placed(at, 0)'
    <2>1. Placed([i \in 1..0 |-> 0], 0)'
        BY DEF Placed
    <2> QED BY <2>1
<1>5. CASE Route
    <2>1. todo' = All' /\ pc' = "next"
        BY <1>5 DEF Route, All, Upstreams
    <2>2. LeftBehind(0)'
        BY <1>2, <2>1 DEF LeftBehind
    <2> QED BY <1>1, <1>3, <1>4, <2>1, <2>2 DEF Ordered, Looping
<1>6. CASE pc' \in (Early \cup {"log", "reply", "done"})
    BY <1>1, <1>3, <1>4, <1>6 DEF Ordered, Looping, Early
<1> QED BY <1>5, <1>6

\* Steps that leave the loop, or are behind it.
LEMMA BehindLoop ==
    ASSUME Ordered, UNCHANGED <<config, tables, request, asked, attempts>>,
           \/ Exhausted
           \/ pc' \in {"log", "reply", "done"}
           \/ UNCHANGED <<pc, todo>>
           \/ NoAnswer
    PROVE  Ordered'
<1>k. PICK k \in 0..Len(All) : \E at :
        /\ Placed(at, k)
        /\ pc \in {"next", "waiting"} => LeftBehind(k)
        /\ pc = "finish" /\ LastReply = <<>> => k = Len(All)
    BY DEF Ordered, Looping
<1>1. PICK at :
        /\ Placed(at, k)
        /\ pc \in {"next", "waiting"} => LeftBehind(k)
        /\ pc = "finish" /\ LastReply = <<>> => k = Len(All)
    BY <1>k
<1>2. All' = All /\ Placed(at, k)' /\ LastReply' = LastReply /\ OthersFailed' /\ config' \in Configs
    BY <1>1, PlacedStays DEF Ordered
<1>3. todo' = todo => (LeftBehind(k) => LeftBehind(k)')
    BY <1>2 DEF LeftBehind
<1>4. CASE Exhausted
    <2>1. pc = "next" /\ pc' = "finish" /\ todo = <<>>
        BY <1>4 DEF Exhausted, Respond
    <2>2. k = Len(All)
        <3>1. Len(todo) = 0 /\ Len(All) \in Nat
            BY <2>1, LengthOfAll DEF Ordered
        <3> QED BY <1>1, <2>1, <3>1 DEF LeftBehind
    <2> QED BY <1>1, <1>2, <2>1, <2>2 DEF Ordered, Looping
<1>5. CASE pc' \in {"log", "reply", "done"}
    BY <1>1, <1>2, <1>5 DEF Ordered, Looping
<1>6. CASE UNCHANGED <<pc, todo>>
    BY <1>1, <1>2, <1>3, <1>6 DEF Ordered, Looping
<1>7. CASE NoAnswer
    <2>1. pc = "waiting" /\ pc' = "next" /\ todo' = todo
        BY <1>7 DEF NoAnswer
    <2> QED BY <1>1, <1>2, <1>3, <2>1 DEF Ordered, Looping
<1> QED BY <1>4, <1>5, <1>6, <1>7

\* The head of what is left is the server behind the first k.
LEMMA NextServer ==
    ASSUME config \in Configs, NEW k \in 0..Len(All), LeftBehind(k), todo # <<>>,
           todo' = Tail(todo), All' = All
    PROVE  k + 1 \in 0..Len(All) /\ Head(todo) = All[k + 1] /\ LeftBehind(k + 1)'
<1>1. PICK S : todo \in Seq(S)
    BY DEF LeftBehind
<1>2. /\ Len(todo) \in Nat \ {0} /\ Head(todo) = todo[1] /\ todo' \in Seq(S)
      /\ Len(todo') = Len(todo) - 1
      /\ \A i \in 1..Len(todo') : todo'[i] = todo[i + 1]
    BY <1>1
<1>3. Len(All) \in Nat
    BY LengthOfAll
<1>4. /\ Len(todo) = Len(All) - k
      /\ \A i \in 1..Len(todo) : todo[i] = All[k + i]
    BY DEF LeftBehind
<1>5. Len(todo') = Len(All') - (k + 1)
    BY <1>2, <1>3, <1>4
<1>6. ASSUME NEW i \in 1..Len(todo') PROVE todo'[i] = All[(k + 1) + i]
    <2>1. i + 1 \in 1..Len(todo) /\ k + (i + 1) = (k + 1) + i
        BY <1>2, <1>3
    <2> QED BY <1>2, <1>4, <2>1
<1>7. LeftBehind(k + 1)'
    BY <1>2, <1>5, <1>6 DEF LeftBehind
<1> QED BY <1>2, <1>3, <1>4, <1>7

LEMMA SkipOrdered == ASSUME Ordered, SkipUpstream PROVE Ordered'
<1>1. /\ pc = "next" /\ pc' = "next" /\ todo # <<>> /\ todo' = Tail(todo)
      /\ ~Reachable(Head(todo))
      /\ UNCHANGED <<config, tables, request, asked, attempts>>
    BY DEF SkipUpstream
<1>k. PICK k \in 0..Len(All) : \E at : Placed(at, k) /\ LeftBehind(k)
    BY <1>1 DEF Ordered, Looping
<1>2. PICK at : Placed(at, k) /\ LeftBehind(k)
    BY <1>k
<1>3. All' = All /\ OthersFailed' /\ config' \in Configs
    BY <1>1, PlacedStays DEF Ordered
<1>4. k + 1 \in 0..Len(All) /\ Head(todo) = All[k + 1] /\ LeftBehind(k + 1)'
    BY <1>1, <1>2, <1>3, NextServer DEF Ordered
<1>5. Placed(at, k + 1)
    BY <1>1, <1>2, <1>4 DEF Placed
<1>6. Placed(at, k + 1)'
    BY <1>1, <1>5, PlacedStays
<1> QED BY <1>1, <1>3, <1>4, <1>6 DEF Ordered, Looping

LEMMA ContactOrdered ==
    ASSUME Ordered, IsAttempts, attempts # <<>> => LastReply = <<>>, Contact
    PROVE  Ordered'
<1>1. /\ pc = "next" /\ pc' = "waiting" /\ todo # <<>> /\ todo' = Tail(todo)
      /\ Reachable(Head(todo))
      /\ UNCHANGED <<config, tables, request, asked>>
    BY DEF Contact
<1>k. PICK k \in 0..Len(All) : \E at : Placed(at, k) /\ LeftBehind(k)
    BY <1>1 DEF Ordered, Looping
<1>2. PICK at : Placed(at, k) /\ LeftBehind(k)
    BY <1>k
<1>3. All' = All /\ config' \in Configs /\ \A u : Reachable(u)' <=> Reachable(u)
    BY <1>1 DEF All, Upstreams, Reachable, Ordered
<1>4. k + 1 \in 0..Len(All) /\ Head(todo) = All[k + 1] /\ LeftBehind(k + 1)'
    BY <1>1, <1>2, <1>3, NextServer DEF Ordered
<1>5. /\ Len(attempts) \in Nat
      /\ Len(attempts') = Len(attempts) + 1
      /\ \A i \in 1..Len(attempts) : attempts'[i] = attempts[i]
      /\ attempts'[Len(attempts')].upstream = Head(todo)
    BY ContactExtends
<1> DEFINE n == Len(attempts)
<1>6. PICK new : new = [i \in 1..(n + 1) |-> IF i = n + 1 THEN k + 1 ELSE at[i]]
    OBVIOUS
<1>7. Placed(new, k + 1)'
    <2>1. /\ at \in [1..Len(attempts) -> 1..k]
          /\ \A i \in 1..Len(attempts) :
               attempts[i].upstream = All[at[i]] /\ Reachable(All[at[i]])
          /\ \A i, j \in 1..Len(attempts) : i < j => at[i] < at[j]
          /\ \A m \in 1..k : Reachable(All[m]) => \E i \in 1..Len(attempts) : at[i] = m
        BY <1>2 DEF Placed
    <2>2. \A i \in 1..Len(attempts') : i \in 1..Len(attempts) \/ i = Len(attempts')
        BY <1>5
    <2>3. /\ new[Len(attempts')] = k + 1
          /\ \A i \in 1..Len(attempts) : new[i] = at[i] /\ at[i] \in 1..k /\ i < Len(attempts')
        <3>1. n \in Nat /\ Len(attempts') = n + 1 /\ n + 1 \in 1..(n + 1)
            BY <1>5
        <3>2. ASSUME NEW i \in 1..n PROVE i \in 1..(n + 1) /\ i # n + 1 /\ at[i] \in 1..k
            BY <2>1, <3>1
        <3> HIDE DEF n
        <3>3. new[n + 1] = k + 1 /\ \A i \in 1..n : new[i] = at[i]
            BY <1>6, <3>1, <3>2
        <3> QED BY <3>1, <3>2, <3>3 DEF n
    <2>4. new \in [1..Len(attempts') -> 1..(k + 1)]
        BY <1>5, <1>6, <2>1
    <2>5. \A i \in 1..Len(attempts') :
            attempts'[i].upstream = All[new[i]] /\ Reachable(All[new[i]])
        BY <1>1, <1>4, <1>5, <2>1, <2>2, <2>3
    <2>6. \A i, j \in 1..Len(attempts') : i < j => new[i] < new[j]
        BY <1>5, <2>1, <2>2, <2>3
    <2>7. \A m \in 1..(k + 1) : Reachable(All[m]) => \E i \in 1..Len(attempts') : new[i] = m
        <3>1. \A m \in 1..(k + 1) : m \in 1..k \/ m = k + 1
            OBVIOUS
        <3>2. Len(attempts') \in 1..Len(attempts') /\ 1..Len(attempts) \subseteq 1..Len(attempts')
            BY <1>5
        <3> QED BY <2>1, <2>3, <3>1, <3>2
    <2> QED BY <1>3, <2>4, <2>5, <2>6, <2>7 DEF Placed
<1>8. OthersFailed'
    <2>1. ASSUME NEW i \in 1..Len(attempts'), i < Len(attempts') PROVE attempts'[i].reply = <<>>
        <3>1. i \in 1..Len(attempts) /\ attempts'[i] = attempts[i]
            BY <1>5, <2>1
        <3>2. CASE i < Len(attempts)
            BY <3>1, <3>2 DEF Ordered, OthersFailed
        <3>3. CASE i = Len(attempts)
            <4>1. attempts # <<>>
                BY <3>1, EmptyAttempts
            <4> QED BY <3>1, <3>3, <4>1 DEF LastReply
        <3> QED BY <1>5, <3>1, <3>2, <3>3
    <2> QED BY <2>1 DEF OthersFailed
<1> QED BY <1>1, <1>3, <1>4, <1>7, <1>8 DEF Ordered, Looping

LEMMA AnswerOrdered ==
    ASSUME Ordered, IsAttempts, attempts # <<>>, Answer
    PROVE  Ordered'
<1>1. UNCHANGED <<config, tables, request, asked>> /\ pc' = "finish"
    BY DEF Answer
<1>k. PICK k \in 0..Len(All) : \E at : Placed(at, k)
    BY DEF Ordered, Looping
<1>2. PICK at : Placed(at, k)
    BY <1>k
<1>3. All' = All /\ config' \in Configs /\ \A u : Reachable(u)' <=> Reachable(u)
    BY <1>1 DEF All, Upstreams, Reachable, Ordered
<1>4. /\ IsAttempts'
      /\ Len(attempts) \in Nat \ {0}
      /\ Len(attempts') = Len(attempts)
      /\ \A i \in 1..Len(attempts) :
           /\ attempts'[i].upstream = attempts[i].upstream
           /\ i # Len(attempts) => attempts'[i].reply = attempts[i].reply
           /\ i = Len(attempts) => attempts'[i].reply # <<>>
    BY AnswerKeeps, EmptyAttempts
<1>5. Placed(at, k)'
    BY <1>2, <1>3, <1>4 DEF Placed
<1>6. OthersFailed'
    BY <1>4 DEF Ordered, OthersFailed
<1>7. LastReply' # <<>>
    <2>1. Len(attempts) \in 1..Len(attempts)
        BY <1>4
    <2>2. attempts'[Len(attempts')].reply # <<>> /\ attempts' # <<>>
        BY <1>4, <2>1, EmptyAttempts
    <2> QED BY <2>2 DEF LastReply
<1> QED BY <1>1, <1>2, <1>3, <1>5, <1>6, <1>7 DEF Ordered, Looping

\* What the invariants of the other modules say of the loop.
LEMMA LoopFacts ==
    ASSUME Telling, Answers
    PROVE  /\ IsAttempts
           /\ pc \in Early => attempts = <<>>
           /\ pc \in {"next", "waiting"} => LastReply = <<>>
           /\ pc = "waiting" => attempts # <<>>
<1>1. IsAttempts
    BY DEF Telling
<1>2. pc = "waiting" => attempts # <<>>
    <2>1. PICK S : logs \in Seq(S)
        BY DEF Telling, IsLogs
    <2>2. Len(logs) \in Nat
        BY <2>1
    <2> QED BY <1>1, <2>2, EmptyAttempts DEF Telling, OneToTell
<1> QED BY <1>1, <1>2 DEF Answers, Early

LEMMA NextOrdered == Telling /\ Answers /\ Ordered /\ [Next]_vars => Ordered'
<1> SUFFICES ASSUME Telling, Answers, Ordered, [Next]_vars PROVE Ordered'
    OBVIOUS
<1>1. /\ IsAttempts
      /\ pc \in Early => attempts = <<>>
      /\ pc \in {"next", "waiting"} => LastReply = <<>>
      /\ pc = "waiting" => attempts # <<>>
    BY LoopFacts
<1>2. CASE \/ OpenDb \/ OpenDbFails \/ NoRequest \/ RefuseIpv6 \/ NotAQuery \/ Query
           \/ RefuseName \/ PassName \/ AnswerLocally \/ NotCloaked \/ CloakByCname
           \/ RefuseCname \/ PassCname \/ Route
    <2>1. /\ pc \in Early /\ UNCHANGED <<config, tables, request, attempts>>
          /\ Route \/ pc' \in (Early \cup {"log", "reply", "done"})
        BY <1>2 DEF OpenDb, OpenDbFails, NoRequest, RefuseIpv6, NotAQuery, Query, RefuseName,
            PassName, AnswerLocally, NotCloaked, CloakByCname, RefuseCname, PassCname, Route,
            Goto, Respond, Early
    <2> QED BY <1>1, <2>1, BeforeLoop
<1>3. CASE \/ Break \/ Exhausted \/ NoAnswer \/ Finish \/ LogLocal \/ Send \/ SendFails
           \/ UNCHANGED vars
    <2>1. /\ UNCHANGED <<config, tables, request, asked, attempts>>
          /\ \/ Exhausted \/ pc' \in {"log", "reply", "done"}
             \/ UNCHANGED <<pc, todo>> \/ NoAnswer
        BY <1>3 DEF Break, Exhausted, NoAnswer, Finish, LogLocal, Send, SendFails, Goto,
            Respond, vars
    <2> QED BY <2>1, BehindLoop
<1>4. CASE SkipUpstream
    BY <1>4, SkipOrdered
<1>5. CASE Contact
    BY <1>1, <1>5, ContactOrdered DEF Contact
<1>6. CASE Answer
    BY <1>1, <1>6, AnswerOrdered DEF Answer
<1> QED BY <1>2, <1>3, <1>4, <1>5, <1>6 DEF Next

\* The inductive invariants hold in every state of a request.
THEOREM OrderInvariance == Spec => [](Telling /\ Answers /\ Ordered)
<1>1. Init => Telling /\ Answers /\ Ordered
    BY TellingInit, InitAnswers, InitOrdered
<1>2. Telling /\ Answers /\ Ordered /\ [Next]_vars => (Telling /\ Answers /\ Ordered)'
    BY TellingNext, NextAnswers, NextOrdered
<1> QED BY <1>1, <1>2, PTL DEF Spec

\* Servers are asked in the order of the list, none that can be reached is passed
\* over, and SERVFAIL for want of an answer means that all of them were asked: for
\* all rules, lists of servers, requests and answers.
THEOREM Failover == Spec => []FailoverInOrder
<1>1. Ordered => FailoverInOrder
    <2> SUFFICES ASSUME Ordered PROVE FailoverInOrder
        OBVIOUS
    <2> DEFINE item == forwarding_rules(tables, asked)
               all == IF item # <<>> THEN <<item[1].group>> ELSE config.default
               tried == 1..Len(attempts)
               reached(m) == request.family \in config.families[all[m]]
    <2>1. all = All /\ \A m : reached(m) <=> Reachable(All[m])
        BY DEF All, Upstreams, Reachable
    <2>k. PICK k \in 0..Len(All) : \E at :
            /\ Placed(at, k)
            /\ pc = "finish" /\ LastReply = <<>> => k = Len(All)
        BY DEF Ordered, Looping
    <2>2. PICK at :
            /\ Placed(at, k)
            /\ pc = "finish" /\ LastReply = <<>> => k = Len(All)
        BY <2>k
    <2>3. Len(All) \in Nat
        BY LengthOfAll DEF Ordered
    <2> HIDE DEF all, reached
    <2>4. at \in [tried -> 1..Len(all)]
        BY <2>1, <2>2, <2>3 DEF Placed
    <2>5. /\ \A i \in tried : attempts[i].upstream = all[at[i]] /\ reached(at[i])
          /\ \A i, j \in tried : i < j => at[i] < at[j]
        BY <2>1, <2>2 DEF Placed
    <2>6. ASSUME NEW m \in 1..Len(all), reached(m),
                 (\E i \in tried : m < at[i]) \/ (pc = "finish" /\ LastReply = <<>>)
          PROVE  \E i \in tried : at[i] = m
        <3>1. m \in 1..k
            BY <2>1, <2>2, <2>3, <2>6 DEF Placed
        <3> QED BY <2>1, <2>2, <2>6, <3>1 DEF Placed
    <2>7. \A i \in tried : i < Len(attempts) => attempts[i].reply = <<>>
        BY DEF Ordered, OthersFailed
    <2>8. /\ \E g \in [tried -> 1..Len(all)] :
               /\ \A i \in tried : attempts[i].upstream = all[g[i]] /\ reached(g[i])
               /\ \A i, j \in tried : i < j => g[i] < g[j]
               /\ \A m \in 1..Len(all) :
                    /\ reached(m)
                    /\ (\E i \in tried : m < g[i]) \/ (pc = "finish" /\ LastReply = <<>>)
                    => \E i \in tried : g[i] = m
          /\ \A i \in tried : i < Len(attempts) => attempts[i].reply = <<>>
        BY <2>4, <2>5, <2>6, <2>7
    <2> QED BY <2>8, Zenon DEF FailoverInOrder, all, reached
<1> QED BY <1>1, OrderInvariance, PTL

-----------------------------------------------------------------------------
(* Types *)

\* What servers answer are messages: dnspython has parsed them.
RepliesAreMessages == \A name, qtype : \A reply \in Replies(name, qtype) : IsMessage(reply)

AtMostOne(s) == s = <<>> \/ \E x : s = <<x>>

Typed ==
    /\ given \in Configs \X RuleTables \X Requests
    /\ pc \in Labels
    /\ AtMostOne(cname) /\ AtMostOne(used)
    /\ response = <<>> \/ \E m : IsMessage(m) /\ response = <<m>>
    /\ broken \in BOOLEAN
    /\ pc \in {"finish", "log", "reply"} => response # <<>>

LEMMA EmptyIsMessage ==
    ASSUME NEW rcode \in Rcodes, NEW qname
    PROVE  IsMessage(Message(rcode, qname))
BY DEF IsMessage, Message

\* Filtering leaves no rrset empty.
LEMMA FilteredIsMessage ==
    ASSUME NEW reply, IsMessage(reply)
    PROVE  IsMessage(Filtered(reply))
<1> DEFINE filled == {r \in {Kept(q) : q \in reply.answer} : r.data # {}}
           m == [Message(reply.rcode, reply.qname) EXCEPT !.answer = filled,
                                                          !.additional = reply.additional]
<1>1. Filtered(reply) \in {reply, Message("REFUSED", reply.qname), m}
    BY DEF Filtered, WithoutBlocked
<1>2. m.rcode = reply.rcode /\ m.answer = filled
    BY DEF Message
<1>3. \A r \in filled : r.data # {}
    OBVIOUS
<1> HIDE DEF m, filled
<1>4. IsMessage(m)
    BY <1>2, <1>3 DEF IsMessage
<1>5. IsMessage(Message("REFUSED", reply.qname))
    BY EmptyIsMessage DEF Rcodes
<1> QED BY <1>1, <1>4, <1>5

LEMMA UncloakedIsMessage ==
    ASSUME NEW reply, IsMessage(reply)
    PROVE  IsMessage(Uncloaked(reply))
<1>1. \A r \in OwnAnswer(reply.answer) : r.data # {}
    BY DEF OwnAnswer, RRset, IsMessage
<1> QED BY <1>1, UncloakedFacts DEF IsMessage, Rcodes

LEMMA InitTyped == Init => Typed
BY DEF Init, Typed, Labels, AtMostOne

\* Steps that make a response here, or none.
LEMMA LocalTyped ==
    ASSUME Typed,
           \/ OpenDb \/ OpenDbFails \/ NoRequest \/ RefuseIpv6 \/ NotAQuery \/ Query
           \/ Break \/ RefuseName \/ PassName \/ AnswerLocally \/ NotCloaked \/ CloakByCname
           \/ RefuseCname \/ PassCname \/ Route
    PROVE  Typed'
<1>1. UNCHANGED <<config, tables, request, used>>
    BY DEF OpenDb, OpenDbFails, NoRequest, RefuseIpv6, NotAQuery, Query, Break, RefuseName,
        PassName, AnswerLocally, NotCloaked, CloakByCname, RefuseCname, PassCname, Route,
        Goto, Respond
<1>2. CASE OpenDb \/ OpenDbFails \/ NoRequest \/ Query \/ PassName \/ NotCloaked \/ PassCname \/ Route
    BY <1>1, <1>2 DEF OpenDb, OpenDbFails, NoRequest, Query, PassName, NotCloaked, PassCname,
        Route, Goto, Typed, Labels, AtMostOne
<1>3. CASE RefuseIpv6 \/ NotAQuery \/ RefuseName \/ RefuseCname \/ Break
    <2>1. /\ \E name : \E rcode \in Rcodes : response' = <<Message(rcode, name)>>
          /\ pc' \in {"log", "reply"} /\ cname' = cname /\ broken' \in BOOLEAN
        BY <1>3 DEF RefuseIpv6, NotAQuery, RefuseName, RefuseCname, Break, Respond, Rcodes, Typed
    <2>2. \E m : IsMessage(m) /\ response' = <<m>>
        BY <2>1, EmptyIsMessage
    <2> QED BY <1>1, <2>1, <2>2 DEF Typed, Labels, AtMostOne
<1>4. CASE AnswerLocally
    <2> DEFINE m == [Message("NOERROR", request.qname) EXCEPT
                       !.answer = {RRset(request.qname, request.qtype, Records)}]
    <2>1. response' = <<m>> /\ pc' = "log" /\ UNCHANGED <<cname, broken>> /\ Records # {}
        BY <1>4 DEF AnswerLocally, Respond
    <2>2. IsMessage(m)
        BY <2>1 DEF IsMessage, Message, RRset, Rcodes
    <2> HIDE DEF m
    <2> QED BY <1>1, <2>1, <2>2 DEF Typed, Labels, AtMostOne
<1>5. CASE CloakByCname
    BY <1>1, <1>5 DEF CloakByCname, Typed, Labels, AtMostOne
<1> QED BY <1>2, <1>3, <1>4, <1>5

\* Steps of the loop and behind it.
LEMMA LoopTyped ==
    ASSUME RepliesAreMessages, Typed,
           \/ SkipUpstream \/ Contact \/ NoAnswer \/ Answer \/ Exhausted \/ Finish
           \/ LogLocal \/ Send \/ SendFails \/ UNCHANGED vars
    PROVE  Typed'
<1>1. UNCHANGED <<config, tables, request, cname, broken>>
    BY DEF SkipUpstream, Contact, NoAnswer, Answer, Exhausted, Finish, LogLocal, Send,
        SendFails, Goto, Respond, vars
<1>2. CASE SkipUpstream \/ Contact \/ NoAnswer \/ LogLocal \/ Send \/ SendFails \/ UNCHANGED vars
    BY <1>1, <1>2 DEF SkipUpstream, Contact, NoAnswer, LogLocal, Send, SendFails, Goto, vars,
        Typed, Labels, AtMostOne
<1>3. CASE Answer
    <2>1. PICK reply \in Replies(asked, request.qtype) : response' = <<Filtered(reply)>>
        BY <1>3 DEF Answer
    <2>2. IsMessage(Filtered(reply))
        BY FilteredIsMessage DEF RepliesAreMessages
    <2>3. pc' = "finish" /\ used' = used
        BY <1>3 DEF Answer
    <2> QED BY <1>1, <2>1, <2>2, <2>3 DEF Typed, Labels, AtMostOne
<1>4. CASE Exhausted
    <2>1. response' = <<Message("SERVFAIL", asked)>> /\ pc' = "finish" /\ used' = used
        BY <1>4 DEF Exhausted, Respond
    <2>2. IsMessage(Message("SERVFAIL", asked))
        BY EmptyIsMessage DEF Rcodes
    <2> QED BY <1>1, <2>1, <2>2 DEF Typed, Labels, AtMostOne
<1>5. CASE Finish
    <2>1. /\ pc = "finish" /\ pc' = "log" /\ used' = used
          /\ response' = IF cname = <<>> THEN response ELSE <<Uncloaked(response[1])>>
        BY <1>5 DEF Finish
    <2>2. PICK m : IsMessage(m) /\ response = <<m>>
        BY <2>1 DEF Typed
    <2>3. IsMessage(Uncloaked(m))
        BY <2>2, UncloakedIsMessage
    <2>4. \E n : IsMessage(n) /\ response' = <<n>>
        BY <2>1, <2>2, <2>3
    <2> QED BY <1>1, <2>1, <2>4 DEF Typed, Labels, AtMostOne
<1> QED BY <1>2, <1>3, <1>4, <1>5

\* Every variable keeps to its type, a handler that has to look at its response has
\* one, and it sends at most one reply, if what servers answer are messages.
THEOREM TypeCorrect == ASSUME RepliesAreMessages PROVE Spec => []TypeOK
<1>1. Typed /\ [Next]_vars => Typed'
    BY LocalTyped, LoopTyped DEF Next
<1>2. Typed /\ Telling /\ Answers => TypeOK
    <2> SUFFICES ASSUME Typed, Telling, Answers PROVE TypeOK
        OBVIOUS
    <2>1. \A s : AtMostOne(s) => Optional(s)
        BY DEF AtMostOne, Optional
    <2>2. AtMostOne(response) /\ AtMostOne(sent)
        BY DEF Typed, Answers, AtMostOne
    <2>3. pc = "waiting" => used # <<>> /\ used[1] = attempts[Len(attempts)].upstream
        BY DEF Telling, OneToTell
    <2>4. pc \in {"finish", "log", "reply"} => response # <<>> /\ IsMessage(response[1])
        BY DEF Typed
    <2> QED BY <2>1, <2>2, <2>3, <2>4 DEF Typed, TypeOK
<1> QED BY <1>1, <1>2, InitTyped, OrderInvariance, PTL DEF Spec

=============================================================================
