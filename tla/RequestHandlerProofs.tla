------------------------- MODULE RequestHandlerProofs -------------------------
(***************************************************************************)
(* What a request handler does whatever the rules, the configuration, the  *)
(* request and the answers of the upstream servers are: blocked names stay *)
(* home, the logs tell what was asked of whom, and what the client gets    *)
(* holds nothing that is blocked for it.  For the last of these each       *)
(* response is told by where it comes from: made here, or a reply of the   *)
(* last server asked, filtered, and uncloaked after a CNAME rule.          *)
(***************************************************************************)
EXTENDS RequestHandler, TLAPS

USE DEF given, names, servers, history

(***************************************************************************)
(* The steps of Next by what they do to attempts and logs.  Local steps    *)
(* touch neither.                                                          *)
(***************************************************************************)
LocalStep ==
    \/ OpenDb \/ OpenDbFails \/ NoRequest \/ RefuseIpv6 \/ NotAQuery \/ Query
    \/ Break \/ RefuseName \/ PassName
    \/ AnswerLocally \/ NotCloaked \/ CloakByCname \/ RefuseCname \/ PassCname
    \/ Route \/ SkipUpstream \/ Exhausted \/ Finish \/ Send \/ SendFails

LEMMA NextSteps ==
    Next <=> LocalStep \/ Contact \/ NoAnswer \/ Answer \/ LogLocal
  BY DEF Next, LocalStep

LEMMA LocalStepLeaves == LocalStep => UNCHANGED <<config, tables, request, attempts, logs>>
  BY DEF LocalStep, OpenDb, OpenDbFails, NoRequest, RefuseIpv6, NotAQuery, Query,
         Break, RefuseName, PassName, AnswerLocally, NotCloaked, CloakByCname,
         RefuseCname, PassCname, Route, SkipUpstream, Exhausted, Finish, Send,
         SendFails, Goto, Respond, given

-----------------------------------------------------------------------------
(* Attempts and logs as sequences *)

Attempt(S) == [upstream : S, name : S, reply : S]

IsAttempts == \E S : attempts \in Seq(Attempt(S))

LEMMA ContactExtends ==
    ASSUME IsAttempts, Contact
    PROVE  /\ IsAttempts'
           /\ Len(attempts) \in Nat
           /\ Len(attempts') = Len(attempts) + 1
           /\ \A i \in 1..Len(attempts) : attempts'[i] = attempts[i]
           /\ attempts'[Len(attempts')].upstream = Head(todo)
           /\ attempts'[Len(attempts')].name = asked
           /\ attempts'[Len(attempts')].reply = <<>>
<1> DEFINE e == [upstream |-> Head(todo), name |-> asked, reply |-> <<>>]
<1>1. PICK S : attempts \in Seq(Attempt(S))
  BY DEF IsAttempts
<1> DEFINE T == S \cup {Head(todo), asked, <<>>}
<1>2. attempts' = Append(attempts, e)
  BY DEF Contact
<1>3. Len(attempts) \in Nat /\ \A i \in 1..Len(attempts) : attempts[i] \in Attempt(S)
  BY <1>1
<1>4. Attempt(S) \subseteq Attempt(T) /\ e \in Attempt(T)
  BY DEF Attempt
<1>5. attempts \in Seq(Attempt(T))
  <2> HIDE DEF T
  <2>1. \A i \in 1..Len(attempts) : attempts[i] \in Attempt(T)
    BY <1>3, <1>4
  <2>2. attempts = [i \in 1..Len(attempts) |-> attempts[i]]
    BY <1>1
  <2>3. attempts \in [1..Len(attempts) -> Attempt(T)]
    BY <2>1, <2>2, Zenon
  <2> QED
    BY <1>3, <2>3
<1> HIDE DEF T
<1>6. attempts' \in Seq(Attempt(T))
  BY <1>2, <1>4, <1>5
<1>7. /\ Len(attempts') = Len(attempts) + 1
      /\ \A i \in 1..Len(attempts) : attempts'[i] = attempts[i]
      /\ attempts'[Len(attempts')] = e
  BY <1>2, <1>4, <1>5
<1>8. IsAttempts'
  BY <1>6, Zenon DEF IsAttempts
<1> QED
  BY <1>3, <1>7, <1>8

LEMMA AnswerKeeps ==
    ASSUME IsAttempts, Answer
    PROVE  /\ IsAttempts'
           /\ Len(attempts) \in Nat
           /\ Len(attempts') = Len(attempts)
           /\ \A i \in 1..Len(attempts) :
                /\ attempts'[i].upstream = attempts[i].upstream
                /\ attempts'[i].name = attempts[i].name
                /\ i # Len(attempts) => attempts'[i].reply = attempts[i].reply
                /\ i = Len(attempts) => attempts'[i].reply # <<>>
<1>1. PICK S : attempts \in Seq(Attempt(S))
  BY DEF IsAttempts
<1>2. PICK reply \in Replies(asked, request.qtype) :
        attempts' = [attempts EXCEPT ![Len(attempts)].reply = <<reply>>]
  BY DEF Answer
<1> DEFINE T == S \cup {<<reply>>}
<1>3. Len(attempts) \in Nat /\ \A i \in 1..Len(attempts) : attempts[i] \in Attempt(S)
  BY <1>1
<1>4. attempts' = [i \in 1..Len(attempts) |->
                     IF i = Len(attempts) THEN [attempts[i] EXCEPT !.reply = <<reply>>]
                     ELSE attempts[i]]
  <2>1. attempts = [i \in 1..Len(attempts) |-> attempts[i]]
    BY <1>1
  <2> QED
    BY <1>2, <1>3, <2>1
<1>5. ASSUME NEW i \in 1..Len(attempts)
      PROVE  /\ [attempts[i] EXCEPT !.reply = <<reply>>] \in Attempt(T)
             /\ [attempts[i] EXCEPT !.reply = <<reply>>].upstream = attempts[i].upstream
             /\ [attempts[i] EXCEPT !.reply = <<reply>>].name = attempts[i].name
             /\ [attempts[i] EXCEPT !.reply = <<reply>>].reply = <<reply>>
             /\ attempts[i] \in Attempt(T)
  BY <1>3 DEF Attempt
<1> HIDE DEF T
<1>6. \A i \in 1..Len(attempts) : attempts'[i] \in Attempt(T)
  BY <1>4, <1>5
<1>7. attempts' \in Seq(Attempt(T)) /\ Len(attempts') = Len(attempts)
  <2>1. attempts' \in [1..Len(attempts) -> Attempt(T)]
    BY <1>4, <1>6
  <2> QED
    BY <1>3, <2>1
<1>8. IsAttempts'
  BY <1>7, Zenon DEF IsAttempts
<1>9. <<reply>> # <<>>
  OBVIOUS
<1> QED
  BY <1>3, <1>4, <1>5, <1>7, <1>8, <1>9

IsLogs == \E S : logs \in Seq(S)

LEMMA LogExtends ==
    ASSUME IsLogs, NEW status, logs' = Log(status)
    PROVE  /\ IsLogs'
           /\ Len(logs) \in Nat
           /\ Len(logs') = Len(logs) + 1
           /\ \A i \in 1..Len(logs) : logs'[i] = logs[i]
           /\ logs'[Len(logs')].server = used
           /\ logs'[Len(logs')].status = status
<1> DEFINE e == [name |-> request.qname, cname |-> cname, server |-> used,
                 status |-> status]
<1>1. PICK S : logs \in Seq(S)
  BY DEF IsLogs
<1>2. logs' = Append(logs, e)
  BY DEF Log
<1>3. e.server = used /\ e.status = status
  OBVIOUS
<1> HIDE DEF e
<1>4. logs \in Seq(S \cup {e}) /\ e \in S \cup {e}
  BY <1>1
<1>5. logs' \in Seq(S \cup {e})
  BY <1>2, <1>4
<1>6. /\ Len(logs) \in Nat
      /\ Len(logs') = Len(logs) + 1
      /\ \A i \in 1..Len(logs) : logs'[i] = logs[i]
      /\ logs'[Len(logs')] = e
  BY <1>2, <1>4
<1>7. IsLogs'
  BY <1>5, Zenon DEF IsLogs
<1> QED
  BY <1>3, <1>6, <1>7

-----------------------------------------------------------------------------
(* Blocked names stay home *)

Settled == request.qtype \in Address => Records = {}

\* What the checks have established, at each place of handle().
Checked ==
    /\ IsAttempts
    /\ pc \in {"open", "receive", "check", "cloak", "check_cname", "route"}
         => attempts = <<>>
    /\ pc \in {"open", "receive", "check", "cloak"} => asked = request.qname
    /\ pc \in {"cloak", "check_cname"} => ~NameBlocked(request.qname)
    /\ pc = "check_cname" => Settled
    /\ pc \in {"route", "next", "waiting"} =>
         ~NameBlocked(request.qname) /\ ~NameBlocked(asked) /\ Settled
    /\ NamesStayHome

LEMMA GivenStays == [Next]_vars => UNCHANGED <<config, tables, request>>
  BY LocalStepLeaves, NextSteps
     DEF vars, given, Contact, NoAnswer, Answer, LogLocal

LEMMA ChecksStay ==
    ASSUME UNCHANGED <<config, tables, request>>
    PROVE  /\ NameBlocked(request.qname)' <=> NameBlocked(request.qname)
           /\ asked' = asked => (NameBlocked(asked)' <=> NameBlocked(asked))
           /\ Settled' <=> Settled
<1>1. Records' = Records
  BY DEF Records, CloakingItems
<1> QED
  BY <1>1 DEF NameBlocked, Settled

\* The names asked so far are not blocked: the same for the attempts after a step
\* that adds none, or adds one for the name checked last.
NamesAllowed == \A i \in 1..Len(attempts) : ~NameBlocked(attempts[i].name)

LEMMA HomeIs ==
    NamesStayHome <=> \/ attempts = <<>>
                      \/ ~NameBlocked(request.qname) /\ NamesAllowed /\ Settled
  BY DEF NamesStayHome, NamesAllowed, Settled

LEMMA CheckedInit == Init => Checked
<1> SUFFICES ASSUME Init PROVE Checked
  OBVIOUS
<1>1. attempts = <<>> /\ pc = "open" /\ asked = request.qname
  BY DEF Init
<1>2. IsAttempts
  <2>1. attempts \in Seq(Attempt({}))
    BY <1>1
  <2> QED
    BY <2>1, Zenon DEF IsAttempts
<1> QED
  BY <1>1, <1>2, HomeIs DEF Checked

\* A step that leaves the attempts alone keeps what was checked, if it keeps to
\* the order of the checks.
LEMMA CheckedLocal == Checked /\ LocalStep => Checked'
<1> SUFFICES ASSUME Checked, LocalStep PROVE Checked'
  OBVIOUS
<1>1. UNCHANGED <<config, tables, request, attempts>>
  BY LocalStepLeaves
<1>2. /\ NameBlocked(request.qname)' <=> NameBlocked(request.qname)
      /\ asked' = asked => (NameBlocked(asked)' <=> NameBlocked(asked))
      /\ Settled' <=> Settled
  BY <1>1, ChecksStay
<1>3. IsAttempts' /\ NamesStayHome'
  <2>1. NamesAllowed' <=> NamesAllowed
    BY <1>1 DEF NamesAllowed, NameBlocked
  <2>2. IsAttempts'
    BY <1>1 DEF Checked, IsAttempts
  <2>3. NamesStayHome' <=> \/ attempts' = <<>>
                           \/ /\ ~NameBlocked(request.qname)'
                              /\ NamesAllowed' /\ Settled'
    BY DEF NamesStayHome, NamesAllowed, Settled
  <2> QED
    BY <1>1, <1>2, <2>1, <2>2, <2>3, HomeIs DEF Checked
<1>4. CASE pc' \in {"finish", "log", "reply", "done"}
  BY <1>3, <1>4 DEF Checked
<1>5. CASE OpenDb \/ Query
  BY <1>1, <1>3, <1>5 DEF OpenDb, Query, Goto, Checked
<1>6. CASE PassName
  BY <1>1, <1>2, <1>3, <1>6 DEF PassName, Goto, Checked, Settled
<1>7. CASE NotCloaked
  BY <1>1, <1>2, <1>3, <1>7 DEF NotCloaked, Goto, Checked, Settled
<1>8. CASE CloakByCname
  BY <1>1, <1>2, <1>3, <1>8 DEF CloakByCname, Checked, Settled
<1>9. CASE PassCname
  BY <1>1, <1>2, <1>3, <1>9 DEF PassCname, Goto, Checked
<1>10. CASE Route \/ SkipUpstream
  BY <1>1, <1>2, <1>3, <1>10 DEF Route, SkipUpstream, Checked
<1> QED
  BY <1>4, <1>5, <1>6, <1>7, <1>8, <1>9, <1>10
     DEF LocalStep, OpenDbFails, NoRequest, RefuseIpv6, NotAQuery, Break,
         RefuseName, AnswerLocally, RefuseCname, Exhausted, Finish, Send,
         SendFails, Goto, Respond

\* Any step keeps what was checked; Contact asks for the name checked last.
LEMMA CheckedNext == Checked /\ [Next]_vars => Checked'
<1> SUFFICES ASSUME Checked, [Next]_vars PROVE Checked'
  OBVIOUS
<1>1. UNCHANGED <<config, tables, request>>
  BY GivenStays
<1>2. /\ NameBlocked(request.qname)' <=> NameBlocked(request.qname)
      /\ asked' = asked => (NameBlocked(asked)' <=> NameBlocked(asked))
      /\ Settled' <=> Settled
  BY <1>1, ChecksStay
<1>3. NamesStayHome' <=> \/ attempts' = <<>>
                         \/ /\ ~NameBlocked(request.qname)'
                            /\ NamesAllowed' /\ Settled'
  BY DEF NamesStayHome, NamesAllowed, Settled
<1>4. attempts = <<>> => NamesAllowed
  BY DEF NamesAllowed
<1>5. CASE LocalStep
  BY <1>5, CheckedLocal
<1>6. CASE Contact
  <2>1. /\ IsAttempts'
        /\ Len(attempts) \in Nat
        /\ Len(attempts') = Len(attempts) + 1
        /\ \A i \in 1..Len(attempts) : attempts'[i] = attempts[i]
        /\ attempts'[Len(attempts')].name = asked
    BY <1>6, ContactExtends DEF Checked
  <2>2. ~NameBlocked(request.qname) /\ ~NameBlocked(asked) /\ Settled
    BY <1>6 DEF Contact, Checked
  <2>3. NamesAllowed
    BY <1>4, HomeIs DEF Checked
  <2>4. NamesAllowed'
    <3> SUFFICES ASSUME NEW i \in 1..Len(attempts')
                 PROVE  ~NameBlocked(attempts[i].name)'
      BY DEF NamesAllowed
    <3>1. CASE i \in 1..Len(attempts)
      BY <1>1, <2>1, <2>3, <3>1 DEF NamesAllowed, NameBlocked
    <3>2. CASE i = Len(attempts')
      BY <1>1, <2>1, <2>2, <3>2 DEF NameBlocked
    <3> QED
      BY <2>1, <3>1, <3>2
  <2>5. asked' = asked /\ pc' = "waiting"
    BY <1>6 DEF Contact
  <2> QED
    BY <1>2, <1>3, <2>1, <2>2, <2>4, <2>5 DEF Checked
<1>7. CASE Answer
  <2>1. /\ IsAttempts'
        /\ Len(attempts) \in Nat
        /\ Len(attempts') = Len(attempts)
        /\ \A i \in 1..Len(attempts) : attempts'[i].name = attempts[i].name
    BY <1>7, AnswerKeeps DEF Checked
  <2>2. NamesAllowed
    BY <1>4, HomeIs DEF Checked
  <2>3. NamesAllowed'
    BY <1>1, <2>1, <2>2 DEF NamesAllowed, NameBlocked
  <2>4. ~NameBlocked(request.qname) /\ Settled /\ pc' = "finish"
    BY <1>7 DEF Answer, Checked
  <2> QED
    BY <1>2, <1>3, <2>1, <2>3, <2>4 DEF Checked
<1>8. CASE NoAnswer \/ LogLocal \/ UNCHANGED vars
  <2>1. /\ UNCHANGED <<attempts, asked>>
        /\ pc' \in {pc, "reply"} \/ (pc = "waiting" /\ pc' = "next")
    BY <1>8 DEF NoAnswer, LogLocal, vars
  <2>2. NamesAllowed' <=> NamesAllowed
    BY <1>1, <2>1 DEF NamesAllowed, NameBlocked
  <2>3. IsAttempts'
    BY <2>1 DEF Checked, IsAttempts
  <2>4. NamesStayHome'
    BY <1>2, <1>3, <2>1, <2>2, HomeIs DEF Checked
  <2> QED
    BY <1>1, <1>2, <2>1, <2>3, <2>4 DEF Checked
<1> QED
  BY <1>5, <1>6, <1>7, <1>8, NextSteps

\* A name this client may not ask for, or whose address the rules give, never
\* reaches an upstream server, not even as the target of a CNAME rule: for all
\* rules, configurations, requests and answers.
THEOREM StayHome == Spec => []NamesStayHome
<1>1. Checked => NamesStayHome
  BY DEF Checked
<1> QED
  BY <1>1, CheckedInit, CheckedNext, PTL DEF Spec

-----------------------------------------------------------------------------
(* The logs tell the attempts *)

Tells(i) ==
    /\ logs[i].server = <<attempts[i].upstream>>
    /\ logs[i].status = <<>> <=> attempts[i].reply = <<>>

Told ==
    /\ Len(logs) = Len(attempts)
    /\ \A i \in 1..Len(logs) : Tells(i)

\* While a server is waited for, its log is still to come.
OneToTell ==
    /\ Len(attempts) = Len(logs) + 1
    /\ \A i \in 1..Len(logs) : Tells(i)
    /\ attempts[Len(attempts)].reply = <<>>
    /\ used = <<attempts[Len(attempts)].upstream>>

\* What LogsTellAttempts promises of a request answered with rcode.
AllTold(rcode) ==
    IF attempts = <<>>
    THEN Len(logs) = 1 /\ logs[1].server = <<>> /\ logs[1].status = <<rcode>>
    ELSE Told

IsTold == ~broken /\ request.opcode = "QUERY" /\ ~Ipv6Off

Telling ==
    /\ IsAttempts
    /\ IsLogs
    /\ pc # "done" => sent = <<>>
    /\ pc \notin {"waiting", "reply", "done"} =>
         Told /\ (used = <<>> <=> attempts = <<>>)
    /\ pc = "waiting" => OneToTell
    /\ pc = "reply" /\ IsTold => AllTold(response[1].rcode)
    /\ pc = "done" /\ sent # <<>> /\ IsTold => AllTold(sent[1].rcode)

LEMMA EmptyAttempts == IsAttempts => (attempts = <<>> <=> Len(attempts) = 0)
<1> SUFFICES ASSUME IsAttempts PROVE attempts = <<>> <=> Len(attempts) = 0
  OBVIOUS
<1>1. PICK S : attempts \in Seq(Attempt(S))
  BY DEF IsAttempts
<1> QED
  BY <1>1

LEMMA TellingInit == Init => Telling
<1> SUFFICES ASSUME Init PROVE Telling
  OBVIOUS
<1>1. attempts = <<>> /\ logs = <<>> /\ used = <<>> /\ sent = <<>> /\ pc = "open"
  BY DEF Init
<1>2. IsAttempts /\ IsLogs
  <2>1. attempts \in Seq(Attempt({})) /\ logs \in Seq({})
    BY <1>1
  <2> QED
    BY <2>1, Zenon DEF IsAttempts, IsLogs
<1>3. Told
  BY <1>1 DEF Told
<1> QED
  BY <1>1, <1>2, <1>3 DEF Telling

\* A local step adds no log; those that lead to a reply past the local log are
\* the ones LogsTellAttempts does not speak of.
LEMMA TellingLocal == Telling /\ LocalStep => Telling'
<1> SUFFICES ASSUME Telling, LocalStep PROVE Telling'
  OBVIOUS
<1>1. UNCHANGED <<config, tables, request, attempts, logs>>
  BY LocalStepLeaves
<1>2. IsAttempts' /\ IsLogs'
  BY <1>1 DEF Telling, IsAttempts, IsLogs
<1>3. /\ Told' <=> Told
      /\ Ipv6Off' <=> Ipv6Off
  BY <1>1 DEF Told, Tells, Ipv6Off
<1>4. CASE Send
  <2>1. sent' = <<response[1]>>
    BY <1>4 DEF Send, Telling
  <2>2. AllTold(sent[1].rcode)' <=> AllTold(response[1].rcode)
    BY <1>1, <1>3, <2>1 DEF AllTold
  <2>3. IsTold' <=> IsTold
    BY <1>1, <1>3, <1>4 DEF Send, IsTold
  <2> QED
    BY <1>2, <1>4, <2>2, <2>3 DEF Send, Telling
<1>5. CASE OpenDbFails \/ NoRequest \/ SendFails
  BY <1>2, <1>5 DEF OpenDbFails, NoRequest, SendFails, Goto, Telling
<1>6. CASE RefuseIpv6 \/ NotAQuery \/ Break
  BY <1>1, <1>2, <1>3, <1>6
     DEF RefuseIpv6, NotAQuery, Break, Respond, Telling, IsTold
<1>7. CASE /\ pc \notin {"waiting", "reply", "done"}
           /\ pc' \notin {"waiting", "reply", "done"}
           /\ UNCHANGED <<used, sent>>
  BY <1>1, <1>2, <1>3, <1>7 DEF Telling
<1> QED
  BY <1>4, <1>5, <1>6, <1>7
     DEF LocalStep, OpenDb, Query, RefuseName, PassName, AnswerLocally,
         NotCloaked, CloakByCname, RefuseCname, PassCname, Route, SkipUpstream,
         Exhausted, Finish, Goto, Respond

\* A server is asked: its log is to come.
LEMMA TellingContact == Telling /\ Contact => Telling'
<1> SUFFICES ASSUME Telling, Contact PROVE Telling'
  OBVIOUS
<1>1. /\ IsAttempts'
      /\ Len(attempts) \in Nat
      /\ Len(attempts') = Len(attempts) + 1
      /\ \A i \in 1..Len(attempts) : attempts'[i] = attempts[i]
      /\ attempts'[Len(attempts')].upstream = Head(todo)
      /\ attempts'[Len(attempts')].reply = <<>>
  BY ContactExtends DEF Telling
<1>2. Told /\ logs' = logs /\ used' = <<Head(todo)>> /\ sent' = sent /\ sent = <<>>
  BY DEF Contact, Telling
<1>3. IsLogs'
  BY <1>2 DEF Telling, IsLogs
<1>4. OneToTell'
  BY <1>1, <1>2 DEF OneToTell, Told, Tells
<1> QED
  BY <1>1, <1>2, <1>3, <1>4 DEF Contact, Telling

\* The wait is over: the attempt gets its log, with a status if it was answered.
LEMMA TellingEnd == Telling /\ (NoAnswer \/ Answer) => Telling'
<1> SUFFICES ASSUME Telling, NoAnswer \/ Answer PROVE Telling'
  OBVIOUS
<1>1. /\ OneToTell /\ sent = <<>> /\ sent' = sent /\ used' = used
      /\ pc' \in {"next", "finish"}
  BY DEF NoAnswer, Answer, Telling
<1>2. PICK status : logs' = Log(status) /\ (status = <<>> <=> NoAnswer)
  <2>1. CASE NoAnswer
    BY <2>1 DEF NoAnswer
  <2>2. CASE Answer
    <3>1. PICK reply \in Replies(asked, request.qtype) :
            logs' = Log(<<Filtered(reply).rcode>>)
      BY <2>2 DEF Answer
    <3>2. ~NoAnswer
      BY <2>2 DEF Answer, NoAnswer
    <3>3. <<Filtered(reply).rcode>> # <<>>
      OBVIOUS
    <3> QED
      BY <3>1, <3>2, <3>3
  <2> QED
    BY <2>1, <2>2
<1>3. /\ IsLogs'
      /\ Len(logs) \in Nat
      /\ Len(logs') = Len(logs) + 1
      /\ \A i \in 1..Len(logs) : logs'[i] = logs[i]
      /\ logs'[Len(logs')].server = used
      /\ logs'[Len(logs')].status = status
  BY <1>2, LogExtends DEF Telling
<1>4. /\ IsAttempts'
      /\ Len(attempts') = Len(attempts)
      /\ \A i \in 1..Len(attempts) :
           /\ attempts'[i].upstream = attempts[i].upstream
           /\ i # Len(attempts) => attempts'[i].reply = attempts[i].reply
           /\ i = Len(attempts) => (attempts'[i].reply = <<>> <=> NoAnswer)
  <2>1. CASE Answer
    <3>1. ~NoAnswer
      BY <2>1 DEF Answer, NoAnswer
    <3> QED
      BY <2>1, <3>1, AnswerKeeps DEF Telling
  <2>2. CASE NoAnswer
    <3>1. attempts' = attempts
      BY <2>2 DEF NoAnswer
    <3>2. attempts[Len(attempts)].reply = <<>>
      BY <1>1 DEF OneToTell
    <3> QED
      BY <2>2, <3>1, <3>2 DEF Telling, IsAttempts
  <2> QED
    BY <2>1, <2>2
<1>5. Len(attempts) = Len(logs')
  BY <1>1, <1>3 DEF OneToTell
<1>6. Told'
  <2>1. ASSUME NEW i \in 1..Len(logs)
        PROVE  Tells(i)'
    <3>1. Tells(i)
      BY <1>1 DEF OneToTell
    <3>2. i \in 1..Len(attempts) /\ i # Len(attempts)
      BY <1>3, <1>5
    <3> QED
      BY <1>3, <1>4, <3>1, <3>2 DEF Tells
  <2>2. ASSUME NEW i \in 1..Len(logs'), i = Len(logs')
        PROVE  Tells(i)'
    <3>1. used = <<attempts[Len(attempts)].upstream>>
      BY <1>1 DEF OneToTell
    <3>2. i \in 1..Len(attempts) /\ i = Len(attempts)
      BY <1>5, <2>2
    <3> QED
      BY <1>2, <1>3, <1>4, <2>2, <3>1, <3>2 DEF Tells
  <2>3. \A i \in 1..Len(logs') : i \in 1..Len(logs) \/ i = Len(logs')
    BY <1>3
  <2> QED
    BY <1>4, <1>5, <2>1, <2>2, <2>3 DEF Told
<1>7. used # <<>> /\ attempts' # <<>>
  <2>1. used # <<>>
    BY <1>1 DEF OneToTell
  <2> QED
    BY <1>3, <1>4, <1>5, <2>1
<1> QED
  BY <1>1, <1>3, <1>4, <1>6, <1>7 DEF Telling

\* The local log is written when no server was asked.
LEMMA TellingLog == Telling /\ LogLocal => Telling'
<1> SUFFICES ASSUME Telling, LogLocal PROVE Telling'
  OBVIOUS
<1>1. /\ Told /\ (used = <<>> <=> attempts = <<>>) /\ sent = <<>> /\ sent' = sent
      /\ UNCHANGED <<attempts, response>> /\ pc' = "reply"
  BY DEF LogLocal, Telling
<1>2. IsAttempts'
  BY <1>1 DEF Telling, IsAttempts
<1>3. CASE used = <<>>
  <2>1. logs' = Log(<<response[1].rcode>>)
    BY <1>3 DEF LogLocal
  <2>2. /\ IsLogs'
        /\ Len(logs) \in Nat
        /\ Len(logs') = Len(logs) + 1
        /\ logs'[Len(logs')].server = <<>>
        /\ logs'[Len(logs')].status = <<response[1].rcode>>
    BY <1>3, <2>1, LogExtends DEF Telling
  <2>3. Len(logs) = 0
    BY <1>1, <1>3, EmptyAttempts DEF Told, Telling
  <2>4. AllTold(response[1].rcode)'
    BY <1>1, <1>3, <2>2, <2>3 DEF AllTold
  <2> QED
    BY <1>1, <1>2, <2>2, <2>4 DEF Telling
<1>4. CASE used # <<>>
  <2>1. logs' = logs
    BY <1>4 DEF LogLocal
  <2>2. IsLogs' /\ Told'
    BY <1>1, <2>1 DEF Telling, IsLogs, Told, Tells
  <2>3. AllTold(response[1].rcode)'
    BY <1>1, <1>4, <2>2 DEF AllTold
  <2> QED
    BY <1>1, <1>2, <2>2, <2>3 DEF Telling
<1> QED
  BY <1>3, <1>4

LEMMA TellingNext == Telling /\ [Next]_vars => Telling'
<1> SUFFICES ASSUME Telling, [Next]_vars PROVE Telling'
  OBVIOUS
<1>1. CASE UNCHANGED vars
  BY <1>1 DEF vars, Telling, IsAttempts, IsLogs, Told, Tells, OneToTell, AllTold,
              IsTold, Ipv6Off
<1> QED
  BY <1>1, TellingLocal, TellingContact, TellingEnd, TellingLog, NextSteps

\* A query that got its answer has one log for each server asked, telling whether
\* it answered, or else one local log with the status sent: for all rules,
\* configurations, requests and answers.
THEOREM LogsTell == Spec => []LogsTellAttempts
<1>1. Telling => LogsTellAttempts
  BY DEF Telling, LogsTellAttempts, AllTold, IsTold, Told, Tells
<1> QED
  BY <1>1, TellingInit, TellingNext, PTL DEF Spec

-----------------------------------------------------------------------------
(* Filtering and uncloaking *)

LEMMA MessageFields ==
    \A rcode, qname : /\ Message(rcode, qname).rcode = rcode
                      /\ Message(rcode, qname).qname = qname
                      /\ Message(rcode, qname).answer = {}
                      /\ Message(rcode, qname).additional = {}
BY DEF Message

LEMMA KeptFacts ==
    ASSUME NEW r
    PROVE  /\ r.type \in Address => Kept(r).data = {x \in r.data : ~Blocked(x)}
           /\ Kept(r).type = r.type
           /\ r.type \notin Address => Kept(r) = r
BY DEF Kept, RRset

\* No blocked address is left in what an address reply is filtered to.
LEMMA FilteredAllows ==
    ASSUME NEW reply, request.qtype \in Address, Filtered(reply).rcode = "NOERROR",
           NEW x \in Addresses(Filtered(reply))
    PROVE  ~Blocked(x)
<1> DEFINE filled == {r \in {Kept(q) : q \in reply.answer} : r.data # {}}
<1>1. reply.rcode = "NOERROR" /\ Filtered(reply) = WithoutBlocked(reply)
    BY DEF Filtered
<1>2. CASE \A y \in Addresses(reply) : ~Blocked(y)
    BY <1>1, <1>2 DEF WithoutBlocked
<1>3. CASE ~\A y \in Addresses(reply) : ~Blocked(y)
    <2>1. Filtered(reply).answer \in {{}, filled}
        BY <1>1, <1>3 DEF WithoutBlocked, Message
    <2>2. PICK r \in filled : r.type \in Address /\ x \in r.data
        BY <2>1 DEF Addresses
    <2>3. PICK q \in reply.answer : r = Kept(q)
        BY <2>2
    <2> QED BY <2>2, <2>3, KeptFacts
<1> QED BY <1>2, <1>3

\* When only CNAMEs would be left of a reply, it becomes an empty refusal.
LEMMA FilteredRefuses ==
    ASSUME NEW reply, request.qtype \in Address, reply.rcode = "NOERROR",
           Addresses(reply) # {}, \A x \in Addresses(reply) : Blocked(x),
           \A r \in reply.answer : r.type \in Address \cup {"CNAME"}
    PROVE  Filtered(reply) = Message("REFUSED", reply.qname)
<1> DEFINE filled == {r \in {Kept(q) : q \in reply.answer} : r.data # {}}
<1>1. \A q \in reply.answer : q.type \in Address => Kept(q).data = {}
    BY KeptFacts DEF Addresses
<1>2. OnlyCnames(filled)
    BY <1>1, KeptFacts DEF OnlyCnames
<1> QED BY <1>2 DEF Filtered, WithoutBlocked

\* Only a server's refusal and a blocked address make a refusal of a reply.
LEMMA RefusedFor ==
    ASSUME NEW reply, Filtered(reply).rcode = "REFUSED", reply.rcode # "REFUSED"
    PROVE  \E x \in Addresses(reply) : Blocked(x)
BY DEF Filtered, WithoutBlocked

\* Filtering keeps the name a reply is about.
LEMMA FilteredName == ASSUME NEW reply PROVE Filtered(reply).qname = reply.qname
BY DEF Filtered, WithoutBlocked, Message

\* What a client sees of a reply about the target of a CNAME rule.
LEMMA FilteredPositive ==
    ASSUME NEW reply, Filtered(reply).rcode = "NOERROR" PROVE reply.rcode = "NOERROR"
BY DEF Filtered

LEMMA UncloakedFacts ==
    ASSUME NEW n
    PROVE  /\ Uncloaked(n).qname = request.qname
           /\ Uncloaked(n).additional = {}
           /\ n.rcode # "NOERROR" => /\ Uncloaked(n).rcode = n.rcode
                                     /\ Uncloaked(n).answer = n.answer
           /\ n.rcode = "NOERROR" => /\ Uncloaked(n).rcode \in {"NOERROR", "NXDOMAIN"}
                                     /\ Uncloaked(n).answer = OwnAnswer(n.answer)
           /\ Uncloaked(n).rcode = "NOERROR" => Uncloaked(n).answer # {}
BY DEF Uncloaked, Message

LEMMA OwnFacts ==
    ASSUME NEW n, NEW r \in OwnAnswer(n.answer)
    PROVE  /\ r.type # "CNAME"
           /\ r.type \in Address => r.owner = request.qname /\ r.data \subseteq Addresses(n)
<1>1. PICK q \in n.answer :
        /\ q.type # "CNAME"
        /\ r = IF q.type \in Address THEN RRset(request.qname, q.type, q.data) ELSE q
    BY DEF OwnAnswer
<1>2. CASE q.type \in Address
    <2>1. r.owner = request.qname /\ r.type = q.type /\ r.data = q.data
        BY <1>1, <1>2 DEF RRset
    <2> QED BY <1>1, <1>2, <2>1 DEF Addresses
<1>3. CASE q.type \notin Address
    BY <1>1, <1>3
<1> QED BY <1>2, <1>3

-----------------------------------------------------------------------------
(* Where a response comes from *)

\* At the end of the loop over the servers.
Fetched(n) ==
    IF LastReply = <<>> THEN n = Message("SERVFAIL", asked)
    ELSE IsResponse(LastReply[1]) /\ n = Filtered(LastReply[1])

\* Made without asking a server.
Local(m) ==
    /\ attempts = <<>>
    /\ \/ m.rcode \in {"NOTIMP", "SERVFAIL"}
       \/ m.rcode = "REFUSED" /\ (NameBlocked(request.qname) \/ NameBlocked(asked))
       \/ m.rcode = "NOERROR" /\ cname = <<>> /\ m.qname = request.qname

Origin(m) ==
    \/ broken /\ m.rcode = "SERVFAIL"
    \/ Local(m)
    \/ \E n : Fetched(n) /\ m = IF cname = <<>> THEN n ELSE Uncloaked(n)

Answers ==
    /\ pc \in {"open", "receive", "check", "cloak", "check_cname", "route"} => attempts = <<>>
    /\ pc \in {"open", "receive", "check", "cloak"} => cname = <<>>
    /\ cname = <<>> => asked = request.qname
    /\ pc # "done" => sent = <<>>
    /\ pc \in {"next", "waiting"} => LastReply = <<>>
    /\ pc = "finish" => \E n : response = <<n>> /\ Fetched(n)
    /\ pc \in {"log", "reply"} => \E m : response = <<m>> /\ Origin(m)
    /\ sent # <<>> => \E m : sent = <<m>> /\ Origin(m)

\* A step that leaves what is given and asked alone leaves origins alone.
LEMMA OriginStays ==
    ASSUME UNCHANGED <<config, tables, request, attempts, cname, asked>>, broken => broken'
    PROVE  /\ LastReply' = LastReply
           /\ \A n : Fetched(n) => Fetched(n)'
           /\ \A m : Origin(m) => Origin(m)'
<1>1. LastReply' = LastReply
    BY DEF LastReply
<1>2. \A x : Blocked(x)' <=> Blocked(x)
    BY DEF Blocked
<1>3. \A n : Filtered(n)' = Filtered(n)
    <2>1. \A r : Kept(r)' = Kept(r)
        BY <1>2 DEF Kept
    <2>2. \A n : WithoutBlocked(n)' = WithoutBlocked(n)
        BY <1>2, <2>1 DEF WithoutBlocked
    <2> QED BY <2>2 DEF Filtered
<1>4. \A n : Uncloaked(n)' = Uncloaked(n)
    BY DEF Uncloaked, OwnAnswer
<1>5. \A n : Fetched(n) => Fetched(n)'
    BY <1>1, <1>3 DEF Fetched, IsResponse
<1>6. (NameBlocked(request.qname)' <=> NameBlocked(request.qname))
      /\ (NameBlocked(asked)' <=> NameBlocked(asked))
    BY DEF NameBlocked
<1>7. \A m : Local(m) => Local(m)'
    BY <1>6 DEF Local
<1> QED BY <1>1, <1>4, <1>5, <1>7 DEF Origin

LEMMA InitAnswers == Init => Answers
BY DEF Init, Answers, LastReply

\* Steps before the first server is chosen, which make a response or none.
LEMMA EarlyStep ==
    ASSUME Answers,
           \/ OpenDb \/ OpenDbFails \/ NoRequest \/ RefuseIpv6 \/ NotAQuery \/ Query
           \/ RefuseName \/ PassName \/ AnswerLocally \/ NotCloaked \/ RefuseCname \/ PassCname
           \/ Route
    PROVE  Answers'
<1>1. /\ UNCHANGED <<config, tables, request, attempts, cname, asked, broken, sent>>
      /\ attempts = <<>> /\ sent = <<>>
      /\ pc' \in {"receive", "check", "cloak", "route", "next", "log", "reply", "done"}
      /\ pc' \in {"check", "cloak"} => pc \in {"receive", "check"}
      /\ pc' \in {"next", "route", "receive"} => pc \notin {"finish", "log", "reply", "done"}
    BY DEF Answers, OpenDb, OpenDbFails, NoRequest, RefuseIpv6, NotAQuery, Query, RefuseName,
        PassName, AnswerLocally, NotCloaked, RefuseCname, PassCname, Route, Goto, Respond
<1>2. pc' = "receive" => pc = "open"
    BY DEF OpenDb, OpenDbFails, NoRequest, RefuseIpv6, NotAQuery, Query, RefuseName,
        PassName, AnswerLocally, NotCloaked, RefuseCname, PassCname, Route, Goto, Respond
<1>3. ASSUME pc' \in {"log", "reply"} PROVE \E m : response' = <<m>> /\ Local(m)
    <2>1. CASE RefuseIpv6 \/ NotAQuery
        <3>1. response' = <<Message("NOTIMP", request.qname)>>
            BY <2>1 DEF RefuseIpv6, NotAQuery, Respond
        <3> QED BY <1>1, <3>1, MessageFields DEF Local
    <2>2. CASE RefuseName
        <3>1. response' = <<Message("REFUSED", request.qname)>> /\ NameBlocked(request.qname)
            BY <2>2 DEF RefuseName, Respond
        <3> QED BY <1>1, <3>1, MessageFields DEF Local
    <2>3. CASE RefuseCname
        <3>1. response' = <<Message("REFUSED", asked)>> /\ NameBlocked(asked)
            BY <2>3 DEF RefuseCname, Respond
        <3> QED BY <1>1, <3>1, MessageFields DEF Local
    <2>4. CASE AnswerLocally
        <3> DEFINE m == [Message("NOERROR", request.qname) EXCEPT
                           !.answer = {RRset(request.qname, request.qtype, Records)}]
        <3>1. response' = <<m>> /\ cname = <<>>
            BY <2>4 DEF AnswerLocally, Respond, Answers
        <3>2. m.rcode = "NOERROR" /\ m.qname = request.qname
            BY DEF Message
        <3> QED BY <1>1, <3>1, <3>2 DEF Local
    <2> QED BY <1>3, <2>1, <2>2, <2>3, <2>4
            DEF OpenDb, OpenDbFails, NoRequest, Query, PassName, NotCloaked, PassCname, Route,
                Goto
<1>4. pc' \in {"log", "reply"} => \E m : response' = <<m>> /\ Origin(m)'
    BY <1>1, <1>3, OriginStays DEF Origin
<1>5. LastReply' = <<>>
    BY <1>1 DEF LastReply
<1> QED BY <1>1, <1>2, <1>4, <1>5 DEF Answers

LEMMA CloakStep == ASSUME Answers, CloakByCname PROVE Answers'
<1>1. /\ pc = "cloak" /\ pc' = "check_cname" /\ cname' # <<>>
      /\ UNCHANGED <<attempts, sent>>
    BY DEF CloakByCname
<1> QED BY <1>1 DEF Answers

\* Every exception becomes SERVFAIL.
LEMMA BreakStep == ASSUME Answers, Break PROVE Answers'
<1>1. /\ UNCHANGED <<cname, asked, request, sent>> /\ pc # "done" /\ pc' = "reply" /\ broken'
      /\ response' = <<Message("SERVFAIL", request.qname)>>
    BY DEF Break
<1>2. Origin(Message("SERVFAIL", request.qname))'
    BY <1>1, MessageFields DEF Origin
<1> QED BY <1>1, <1>2 DEF Answers

\* Steps of the loop over the servers that bring no answer.
LEMMA LoopStep == ASSUME IsAttempts, Answers, SkipUpstream \/ Contact \/ NoAnswer PROVE Answers'
<1>1. /\ UNCHANGED <<cname, asked, request, sent>>
      /\ pc \in {"next", "waiting"} /\ pc' \in {"next", "waiting"}
    BY DEF SkipUpstream, Contact, NoAnswer
<1>2. LastReply' = <<>>
    <2>1. CASE SkipUpstream \/ NoAnswer
        <3>1. attempts' = attempts
            BY <2>1 DEF SkipUpstream, NoAnswer
        <3> QED BY <1>1, <3>1 DEF Answers, LastReply
    <2>2. CASE Contact
        <3>1. attempts'[Len(attempts')].reply = <<>>
            BY <2>2, ContactExtends
        <3> QED BY <3>1 DEF LastReply
    <2> QED BY <2>1, <2>2
<1> QED BY <1>1, <1>2 DEF Answers

LEMMA AnswerStep ==
    ASSUME IsAttempts, Answers, Answer, attempts # <<>>
    PROVE  Answers'
<1>1. PICK reply \in Replies(asked, request.qtype) :
        /\ IsResponse(reply)
        /\ response' = <<Filtered(reply)>>
        /\ attempts' = [attempts EXCEPT ![Len(attempts)].reply = <<reply>>]
    BY DEF Answer
<1>2. UNCHANGED <<config, tables, request, cname, asked, sent>> /\ pc = "waiting" /\ pc' = "finish"
    BY DEF Answer
<1>3. LastReply' = <<reply>>
    <2>1. PICK S : attempts \in Seq(Attempt(S))
        BY DEF IsAttempts
    <2>2. Len(attempts) \in 1..Len(attempts) /\ Len(attempts') = Len(attempts)
        BY <2>1, AnswerKeeps
    <2>3. attempts[Len(attempts)] \in Attempt(S)
        BY <2>1, <2>2
    <2>4. attempts'[Len(attempts)] = [attempts[Len(attempts)] EXCEPT !.reply = <<reply>>]
        BY <1>1, <2>1, <2>2
    <2>5. attempts'[Len(attempts)].reply = <<reply>>
        BY <2>3, <2>4 DEF Attempt
    <2>6. attempts' # <<>>
        BY <2>2
    <2> QED BY <2>2, <2>5, <2>6 DEF LastReply
<1>4. Filtered(reply)' = Filtered(reply)
    <2>1. \A x : Blocked(x)' <=> Blocked(x)
        BY <1>2 DEF Blocked
    <2>2. \A r : Kept(r)' = Kept(r)
        BY <2>1 DEF Kept
    <2>3. WithoutBlocked(reply)' = WithoutBlocked(reply)
        BY <2>1, <2>2 DEF WithoutBlocked
    <2> QED BY <1>2, <2>3 DEF Filtered
<1>5. \E n : n = Filtered(reply) /\ Fetched(n)'
    BY <1>1, <1>2, <1>3, <1>4 DEF Fetched, IsResponse
<1> QED BY <1>1, <1>2, <1>5 DEF Answers

\* From the loop to the client.
LEMMA LateStep ==
    ASSUME Answers, Exhausted \/ Finish \/ LogLocal \/ Send \/ SendFails \/ UNCHANGED vars
    PROVE  Answers'
<1>1. UNCHANGED <<config, tables, request, attempts, cname, asked, broken>>
    BY DEF Exhausted, Finish, LogLocal, Send, SendFails, Goto, Respond, vars
<1>2. /\ LastReply' = LastReply
      /\ \A n : Fetched(n) => Fetched(n)'
      /\ \A m : Origin(m) => Origin(m)'
    BY <1>1, OriginStays
<1>3. CASE Exhausted
    <2>1. /\ pc = "next" /\ pc' = "finish" /\ sent' = sent
          /\ response' = <<Message("SERVFAIL", asked)>>
        BY <1>3 DEF Exhausted, Respond
    <2>2. Fetched(Message("SERVFAIL", asked))
        BY <2>1 DEF Fetched, Answers
    <2> QED BY <1>1, <1>2, <2>1, <2>2 DEF Answers
<1>4. CASE Finish
    <2>1. /\ pc = "finish" /\ pc' = "log" /\ sent' = sent
          /\ response' = IF cname = <<>> THEN response ELSE <<Uncloaked(response[1])>>
        BY <1>4 DEF Finish
    <2>2. PICK n : response = <<n>> /\ Fetched(n)
        BY <2>1 DEF Answers
    <2> DEFINE m == IF cname = <<>> THEN n ELSE Uncloaked(n)
    <2>3. response' = <<m>> /\ Origin(m)
        BY <2>1, <2>2 DEF Origin
    <2> HIDE DEF m
    <2> QED BY <1>1, <1>2, <2>1, <2>3 DEF Answers
<1>5. CASE LogLocal
    <2>1. pc = "log" /\ pc' = "reply" /\ UNCHANGED <<response, sent>>
        BY <1>5 DEF LogLocal
    <2> QED BY <1>1, <1>2, <2>1 DEF Answers
<1>6. CASE Send
    <2>1. pc = "reply" /\ pc' = "done" /\ sent' = Append(sent, response[1])
        BY <1>6 DEF Send
    <2>2. PICK m : response = <<m>> /\ Origin(m)
        BY <2>1 DEF Answers
    <2>3. sent' = <<m>>
        BY <2>1, <2>2 DEF Answers
    <2> QED BY <1>1, <1>2, <2>1, <2>2, <2>3 DEF Answers
<1>7. CASE SendFails
    BY <1>1, <1>7 DEF SendFails, Goto, Answers
<1>8. CASE UNCHANGED vars
    BY <1>1, <1>2, <1>8 DEF vars, Answers
<1> QED BY <1>3, <1>4, <1>5, <1>6, <1>7, <1>8

LEMMA NextAnswers == Telling /\ Answers /\ [Next]_vars => Answers'
<1> SUFFICES ASSUME Telling, Answers, [Next]_vars PROVE Answers'
    OBVIOUS
<1>1. IsAttempts /\ (pc = "waiting" => attempts # <<>>)
    <2>1. IsAttempts
        BY DEF Telling
    <2>2. IsLogs => Len(logs) \in Nat
        <3> SUFFICES ASSUME IsLogs PROVE Len(logs) \in Nat
            OBVIOUS
        <3>1. PICK S : logs \in Seq(S)
            BY DEF IsLogs
        <3> QED BY <3>1
    <2>3. pc = "waiting" => Len(attempts) = Len(logs) + 1 /\ Len(logs) \in Nat
        BY <2>2 DEF Telling, OneToTell
    <2> QED BY <2>1, <2>3, EmptyAttempts
<1>2. CASE Answer
    BY <1>1, <1>2, AnswerStep DEF Answer
<1>3. CASE SkipUpstream \/ Contact \/ NoAnswer
    BY <1>1, <1>3, LoopStep
<1>4. CASE Break \/ CloakByCname
    BY <1>4, BreakStep, CloakStep
<1> QED BY <1>2, <1>3, <1>4, EarlyStep, LateStep DEF Next

\* Every reachable state satisfies the inductive invariant.
THEOREM AnswersInvariance == Spec => []Answers
<1>1. Init => Telling /\ Answers
    BY TellingInit, InitAnswers
<1>2. Telling /\ Answers /\ [Next]_vars => Telling' /\ Answers'
    BY TellingNext, NextAnswers
<1> QED BY <1>1, <1>2, PTL DEF Spec

-----------------------------------------------------------------------------
(* The theorems *)

\* No address of a positive answer to an address question is one that is blocked
\* for the client, if the answer comes from a server.
THEOREM OnlyAllowedServed == Spec => []ServedAddressesAllowed
<1>1. Answers => ServedAddressesAllowed
    <2> SUFFICES ASSUME Answers, sent # <<>>, attempts # <<>>, request.qtype \in Address,
                        sent[1].rcode = "NOERROR", NEW x \in Addresses(sent[1])
                 PROVE  ~Blocked(x)
        BY DEF ServedAddressesAllowed
    <2>1. PICK m : sent = <<m>> /\ Origin(m)
        BY DEF Answers
    <2>2. PICK n : Fetched(n) /\ m = IF cname = <<>> THEN n ELSE Uncloaked(n)
        BY <2>1 DEF Origin, Local
    <2>3. n.rcode = "NOERROR" /\ x \in Addresses(n)
        <3>1. CASE cname = <<>>
            BY <2>1, <2>2, <3>1
        <3>2. CASE cname # <<>>
            <4>1. n.rcode = "NOERROR" /\ m.answer = OwnAnswer(n.answer)
                BY <2>1, <2>2, <3>2, UncloakedFacts
            <4>2. PICK r \in m.answer : r.type \in Address /\ x \in r.data
                BY <2>1 DEF Addresses
            <4> QED BY <4>1, <4>2, OwnFacts
        <3> QED BY <3>1, <3>2
    <2>4. n = Filtered(LastReply[1])
        BY <2>2, <2>3, MessageFields DEF Fetched
    <2> QED BY <2>3, <2>4, FilteredAllows
<1> QED BY <1>1, AnswersInvariance, PTL

\* A positive answer is about the name that was asked, CNAME rules or not.
THEOREM Named == Spec => []PositiveAnswersNamed
<1>1. Answers => PositiveAnswersNamed
    <2> SUFFICES ASSUME Answers, sent # <<>>, sent[1].rcode = "NOERROR"
                 PROVE  /\ sent[1].qname = request.qname
                        /\ cname # <<>> =>
                             /\ sent[1].answer # {} /\ sent[1].additional = {}
                             /\ \A r \in sent[1].answer :
                                  r.type # "CNAME"
                                  /\ (r.type \in Address => r.owner = request.qname)
        BY DEF PositiveAnswersNamed
    <2>1. PICK m : sent = <<m>> /\ Origin(m)
        BY DEF Answers
    <2>2. CASE Local(m)
        BY <2>1, <2>2 DEF Local
    <2>3. CASE ~Local(m)
        <3>1. PICK n : Fetched(n) /\ m = IF cname = <<>> THEN n ELSE Uncloaked(n)
            BY <2>1, <2>3 DEF Origin
        <3>2. CASE cname = <<>>
            <4>1. n.qname = asked
                BY <2>1, <3>1, <3>2, MessageFields, FilteredName, FilteredPositive
                   DEF Fetched, IsResponse
            <4> QED BY <2>1, <3>1, <3>2, <4>1 DEF Answers
        <3>3. CASE cname # <<>>
            <4>1. /\ m.qname = request.qname /\ m.additional = {} /\ m.answer # {}
                  /\ m.answer = OwnAnswer(n.answer)
                BY <2>1, <3>1, <3>3, UncloakedFacts
            <4> QED BY <2>1, <4>1, OwnFacts
        <3> QED BY <3>2, <3>3
    <2> QED BY <2>2, <2>3
<1> QED BY <1>1, AnswersInvariance, PTL

\* An answer emptied by the rules is a refusal, and a refusal has its reason in the
\* rules or with a server.
THEOREM RefusedRightly == Spec => []RefusedWhenEmptied
<1>1. Answers => RefusedWhenEmptied
    <2> SUFFICES ASSUME Answers, sent # <<>> PROVE RefusedWhenEmptied
        BY DEF RefusedWhenEmptied
    <2>1. PICK m : sent = <<m>> /\ Origin(m)
        BY DEF Answers
    <2>2. ASSUME LastReply # <<>>, LastReply[1].rcode = "NOERROR", request.qtype \in Address,
                 ~broken, Addresses(LastReply[1]) # {},
                 \A r \in LastReply[1].answer : r.type \in Address \cup {"CNAME"},
                 \A x \in Addresses(LastReply[1]) : Blocked(x)
          PROVE  m.rcode = "REFUSED" /\ m.answer = {} /\ m.additional = {}
        <3>1. attempts # <<>>
            BY <2>2 DEF LastReply
        <3>2. PICK n : Fetched(n) /\ m = IF cname = <<>> THEN n ELSE Uncloaked(n)
            BY <2>1, <2>2, <3>1 DEF Origin, Local
        <3>3. n = Message("REFUSED", LastReply[1].qname)
            BY <2>2, <3>2, FilteredRefuses DEF Fetched
        <3> QED BY <3>2, <3>3, MessageFields, UncloakedFacts
    <2>3. ASSUME m.rcode = "REFUSED"
          PROVE  \/ NameBlocked(request.qname)
                 \/ NameBlocked(asked)
                 \/ LastReply # <<>> /\ \/ LastReply[1].rcode = "REFUSED"
                                        \/ \E x \in Addresses(LastReply[1]) : Blocked(x)
        <3>1. CASE Local(m)
            BY <2>3, <3>1 DEF Local
        <3>2. CASE ~Local(m)
            <4>1. PICK n : Fetched(n) /\ m = IF cname = <<>> THEN n ELSE Uncloaked(n)
                BY <2>1, <2>3, <3>2 DEF Origin
            <4>2. n.rcode = "REFUSED"
                BY <2>3, <4>1, UncloakedFacts
            <4> QED BY <4>1, <4>2, MessageFields, RefusedFor DEF Fetched
        <3> QED BY <3>1, <3>2
    <2>4. sent[1] = m
        BY <2>1
    <2> QED BY <2>2, <2>3, <2>4 DEF RefusedWhenEmptied
<1> QED BY <1>1, AnswersInvariance, PTL

=============================================================================
