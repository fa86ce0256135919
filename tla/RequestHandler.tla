---------------------------- MODULE RequestHandler ----------------------------
(***************************************************************************)
(* One request, from the thread socketserver starts for it to the reply:   *)
(* DnsRequestHandler.  The handler checks the name against the block       *)
(* lists, cloaks it, or asks upstream servers one after another, removes   *)
(* blocked addresses from what they answer, logs each attempt and sends    *)
(* one reply.                                                              *)
(*                                                                         *)
(* A message is its rcode, the name in its question, the set of rrsets of  *)
(* its answer section and the addresses in its additional section.  An     *)
(* rrset has an owner, a type and a set of data; the data of A and AAAA    *)
(* rrsets are addresses.  Upstream servers are not part of the code: what  *)
(* they answer is any of Replies(name, type), or no answer.                *)
(***************************************************************************)
EXTENDS Rules

CONSTANTS
    Requests,      \* [client, family, opcode, qname, qtype]
    Configs,       \* [ipv6, default, families]
    RuleTables,    \* the rule tables a start may have made
    Replies(_, _)  \* what upstreams may answer to a name and a type

\* The default servers are servers of the configuration (Usability of
\* ConfigProofs).
ASSUME ConfigsAssumption == \A c \in Configs : c.default \in Seq(DOMAIN c.families)

NoName == <<"?!">>   \* the name of a message that has no question
Address == {"A", "AAAA"}

VARIABLES
    config,    \* DnsServerConfig: ipv6, default, and for each upstream the
               \* address families it has addresses of
    tables,    \* the rule tables, which do not change while requests are served
    request,   \* the request of this handler
    pc,        \* where handle() is
    cname,     \* request_domain_cname: no name or one
    asked,     \* the name of the message that goes upstream
    todo,      \* upstreams of the for loop still to be tried
    used,      \* upstream_server_used: no upstream or one
    response,  \* response_message: none or one
    logs,      \* what this handler has put on the queue of logs
    sent,      \* the replies sent to the client
    broken,    \* history: an exception was turned into SERVFAIL
    attempts   \* history: upstreams asked: [upstream, name, reply]

given == <<config, tables, request>>
names == <<cname, asked>>
servers == <<todo, used>>
history == <<broken, attempts>>
vars == <<given, pc, names, servers, response, logs, sent, history>>

Message(rcode, qname) ==
    [rcode |-> rcode, qname |-> qname, answer |-> {}, additional |-> {}]

RRset(owner, type, data) == [owner |-> owner, type |-> type, data |-> data]

Init ==
    /\ config \in Configs
    /\ tables \in RuleTables
    /\ request \in Requests
    /\ pc = "open"
    /\ cname = <<>>
    /\ asked = request.qname
    /\ todo = <<>>
    /\ used = <<>>
    /\ response = <<>>
    /\ logs = <<>>
    /\ sent = <<>>
    /\ broken = FALSE
    /\ attempts = <<>>

\* handle() goes on at another line, with or without a response.
Goto(label) ==
    /\ pc' = label
    /\ UNCHANGED <<given, names, servers, response, logs, sent, history>>

Respond(message, label) ==
    /\ response' = <<message>>
    /\ pc' = label
    /\ UNCHANGED <<given, names, servers, logs, sent, history>>

-----------------------------------------------------------------------------
(* Receiving *)

OpenDb == pc = "open" /\ Goto("receive")

\* TheDbJob(readonly=True) raises in the constructor: socketserver reports it
\* and closes the connection.
OpenDbFails == pc = "open" /\ Goto("done")

\* Too short, or not a DNS message.
NoRequest == pc = "receive" /\ Goto("done")

Ipv6Off == ~config.ipv6 /\ request.family = "ipv6"

RefuseIpv6 ==
    /\ pc = "receive"
    /\ Ipv6Off
    /\ Respond(Message("NOTIMP", request.qname), "reply")

NotAQuery ==
    /\ pc = "receive"
    /\ ~Ipv6Off
    /\ request.opcode # "QUERY"
    /\ Respond(Message("NOTIMP", request.qname), "reply")

Query ==
    /\ pc = "receive"
    /\ ~Ipv6Off
    /\ request.opcode = "QUERY"
    /\ request.qname # NoName
    /\ Goto("check")

(***************************************************************************)
(* An exception inside handle() becomes SERVFAIL, and no local log is      *)
(* written: a query without a question, sqlite failing in a lookup (the    *)
(* lookups of blocked addresses come after the upstream has answered, so   *)
(* that this attempt is not logged either), or an upstream's error without *)
(* a question, in which the client's name cannot be put back.              *)
(***************************************************************************)
NothingToRestore == cname # <<>> /\ response[1].qname = NoName

Break ==
    /\ \/ pc = "receive" /\ ~Ipv6Off /\ request.opcode = "QUERY" /\ request.qname = NoName
       \/ pc \in {"check", "cloak", "check_cname", "route"}
       \/ pc = "waiting" /\ request.qtype \in Address
       \/ pc = "finish" /\ NothingToRestore
    /\ response' = <<Message("SERVFAIL", request.qname)>>
    /\ broken' = TRUE
    /\ pc' = "reply"
    /\ UNCHANGED <<given, names, servers, logs, sent, attempts>>

-----------------------------------------------------------------------------
(* _blocked_names and _cloaking *)

NameBlocked(name) ==
    request.qtype = "ANY" \/ block_names_ex(tables, request.client, name) = "blocked"

RefuseName ==
    /\ pc = "check"
    /\ NameBlocked(request.qname)
    /\ Respond(Message("REFUSED", request.qname), "log")

PassName ==
    /\ pc = "check"
    /\ ~NameBlocked(request.qname)
    /\ Goto(IF request.qtype \in Address THEN "cloak" ELSE "route")

CloakingItems == cloaking_rules_ex(tables, request.qname)

\* The addresses of the question's type the rules give the name.
Records ==
    {CloakingItems[i].mapped[1] : i \in
        {j \in DOMAIN CloakingItems : CloakingItems[j].record_type = request.qtype}}

AnswerLocally ==
    /\ pc = "cloak"
    /\ Records # {}
    /\ Respond([Message("NOERROR", request.qname) EXCEPT
                  !.answer = {RRset(request.qname, request.qtype, Records)}], "log")

NotCloaked ==
    /\ pc = "cloak"
    /\ Records = {}
    /\ CnameOf(CloakingItems) = <<>>
    /\ Goto("route")

CloakByCname ==
    /\ pc = "cloak"
    /\ Records = {}
    /\ CnameOf(CloakingItems) # <<>>
    /\ cname' = <<CnameOf(CloakingItems)[1].mapped>>
    /\ asked' = CnameOf(CloakingItems)[1].mapped
    /\ pc' = "check_cname"
    /\ UNCHANGED <<given, servers, response, logs, sent, history>>

\* The refusal is made from the message that asks for the CNAME.
RefuseCname ==
    /\ pc = "check_cname"
    /\ NameBlocked(asked)
    /\ Respond(Message("REFUSED", asked), "log")

\* Mutant of PassCname: the name a CNAME rule leads to is not checked.
PassAnyCname ==
    /\ pc = "check_cname"
    /\ Goto("route")

PassCname ==
    /\ pc = "check_cname"
    /\ ~NameBlocked(asked)
    /\ Goto("route")

-----------------------------------------------------------------------------
(* _proxy_request and _dns_query_with_upstream *)

\* The servers to try: that of the forwarding rule, or the default ones.
Upstreams(name) ==
    LET item == forwarding_rules(tables, name)
    IN  IF item = <<>> THEN config.default ELSE <<item[1].group>>

Reachable(upstream) == request.family \in config.families[upstream]

Route ==
    /\ pc = "route"
    /\ todo' = Upstreams(asked)
    /\ pc' = "next"
    /\ UNCHANGED <<given, names, used, response, logs, sent, history>>

\* Mutant of SkipUpstream: the loop stays at a server it cannot reach.
SkipNothing ==
    /\ pc = "next"
    /\ todo # <<>>
    /\ ~Reachable(Head(todo))
    /\ UNCHANGED vars

\* No address of the family the request came by: a warning, and no log.
SkipUpstream ==
    /\ pc = "next"
    /\ todo # <<>>
    /\ ~Reachable(Head(todo))
    /\ todo' = Tail(todo)
    /\ UNCHANGED <<given, pc, names, used, response, logs, sent, history>>

Contact ==
    /\ pc = "next"
    /\ todo # <<>>
    /\ Reachable(Head(todo))
    /\ used' = <<Head(todo)>>
    /\ todo' = Tail(todo)
    /\ attempts' = Append(attempts, [upstream |-> Head(todo), name |-> asked,
                                     reply |-> <<>>])
    /\ pc' = "waiting"
    /\ UNCHANGED <<given, names, response, logs, sent, broken>>

\* _insert_request_log, with a response_status or without.
Log(status) == Append(logs, [name |-> request.qname, cname |-> cname,
                             server |-> used, status |-> status])

\* Mutant of NoAnswer: a failed attempt is not logged.
NoAnswerNoLog ==
    /\ pc = "waiting"
    /\ pc' = "next"
    /\ UNCHANGED <<given, names, servers, response, logs, sent, history>>

\* Timeout, refused connection, malformed answer...
NoAnswer ==
    /\ pc = "waiting"
    /\ logs' = Log(<<>>)
    /\ pc' = "next"
    /\ UNCHANGED <<given, names, servers, response, sent, history>>

Blocked(ip) == block_ips_ex(tables, request.client, ip) = "blocked"

\* The addresses in the answer section of a message.
Addresses(m) == UNION {r.data : r \in {q \in m.answer : q.type \in Address}}

OnlyCnames(answer) == \A r \in answer : r.type = "CNAME"

\* What is left of an rrset without its blocked addresses.
Kept(r) ==
    IF r.type \in Address THEN RRset(r.owner, r.type, {x \in r.data : ~Blocked(x)}) ELSE r

\* Mutants of WithoutBlocked: rrsets left empty stay in the reply; a reply left
\* without addresses is sent as it is.
WithoutBlockedKeepingEmpty(reply) ==
    [reply EXCEPT !.answer = {Kept(r) : r \in @}]

WithoutBlockedOrEmpty(reply) ==
    [reply EXCEPT !.answer = {r \in {Kept(q) : q \in @} : r.data # {}}]

\* _blocked_ips: what is left of a reply without the blocked addresses of its
\* answer section.  If any was removed and only CNAMEs are left, REFUSED is.
WithoutBlocked(reply) ==
    LET filled == {r \in {Kept(q) : q \in reply.answer} : r.data # {}}
    IN  IF \A x \in Addresses(reply) : ~Blocked(x) THEN reply
        ELSE IF OnlyCnames(filled) THEN Message("REFUSED", reply.qname)
        ELSE [Message(reply.rcode, reply.qname) EXCEPT !.answer = filled,
                                                       !.additional = reply.additional]

\* Mutant of Filtered: only A questions are looked at.
FilteredA(reply) ==
    IF request.qtype = "A" /\ reply.rcode = "NOERROR"
    THEN WithoutBlocked(reply) ELSE reply

\* What a reply to a question for addresses is filtered to, if it is positive.
Filtered(reply) ==
    IF request.qtype \in Address /\ reply.rcode = "NOERROR"
    THEN WithoutBlocked(reply) ELSE reply

\* Mutant of Answer: the loop goes on when the answer is not NOERROR.
AnswerIfPositive ==
    /\ pc = "waiting"
    /\ \E reply \in Replies(asked, request.qtype) :
         /\ response' = <<Filtered(reply)>>
         /\ attempts' = [attempts EXCEPT ![Len(attempts)].reply = <<reply>>]
         /\ logs' = Log(<<Filtered(reply).rcode>>)
         /\ pc' = IF reply.rcode = "NOERROR" THEN "finish" ELSE "next"
    /\ UNCHANGED <<given, names, servers, sent, broken>>

\* dnspython takes an answer to the question that was asked, and an error that
\* repeats no question at all.
IsResponse(reply) ==
    \/ reply.qname = asked
    \/ reply.qname = NoName /\ reply.rcode \in {"FORMERR", "SERVFAIL", "NOTIMP", "REFUSED"}

Answer ==
    /\ pc = "waiting"
    /\ \E reply \in Replies(asked, request.qtype) :
         /\ IsResponse(reply)
         /\ response' = <<Filtered(reply)>>
         /\ attempts' = [attempts EXCEPT ![Len(attempts)].reply = <<reply>>]
         /\ logs' = Log(<<Filtered(reply).rcode>>)
    /\ pc' = "finish"
    /\ UNCHANGED <<given, names, servers, sent, broken>>

\* Every server was skipped or failed.
Exhausted ==
    /\ pc = "next"
    /\ todo = <<>>
    /\ Respond(Message("SERVFAIL", asked), "finish")

\* The rrsets of an answer but its CNAMEs, the addresses under the client's name.
OwnAnswer(answer) ==
    {IF r.type \in Address THEN RRset(request.qname, r.type, r.data) ELSE r :
       r \in {q \in answer : q.type # "CNAME"}}

\* Mutant of Uncloaked: the reply is not looked at again once it is stripped.
UncloakedOrEmpty(reply) ==
    [Message(reply.rcode, request.qname) EXCEPT
       !.answer = IF reply.rcode = "NOERROR" THEN OwnAnswer(reply.answer) ELSE reply.answer]

\* What the client gets of a reply about the name a CNAME rule led to.
Uncloaked(reply) ==
    LET own == OwnAnswer(reply.answer)
    IN  IF reply.rcode # "NOERROR"
        THEN [Message(reply.rcode, request.qname) EXCEPT !.answer = reply.answer]
        ELSE [Message(IF own = {} THEN "NXDOMAIN" ELSE "NOERROR", request.qname)
                EXCEPT !.answer = own]

Finish ==
    /\ pc = "finish"
    /\ ~NothingToRestore
    /\ response' = IF cname = <<>> THEN response ELSE <<Uncloaked(response[1])>>
    /\ pc' = "log"
    /\ UNCHANGED <<given, names, servers, logs, sent, history>>

-----------------------------------------------------------------------------
(* The end of handle() *)

\* A request that no server was asked about gets its one log here.
LogLocal ==
    /\ pc = "log"
    /\ logs' = IF used = <<>> THEN Log(<<response[1].rcode>>) ELSE logs
    /\ pc' = "reply"
    /\ UNCHANGED <<given, names, servers, response, sent, history>>

Send ==
    /\ pc = "reply"
    /\ sent' = Append(sent, response[1])
    /\ pc' = "done"
    /\ UNCHANGED <<given, names, servers, response, logs, history>>

\* The client is gone.
SendFails == pc = "reply" /\ Goto("done")

Next ==
    \/ OpenDb \/ OpenDbFails \/ NoRequest \/ RefuseIpv6 \/ NotAQuery \/ Query
    \/ Break \/ RefuseName \/ PassName
    \/ AnswerLocally \/ NotCloaked \/ CloakByCname \/ RefuseCname \/ PassCname
    \/ Route \/ SkipUpstream \/ Contact \/ NoAnswer \/ Answer \/ Exhausted
    \/ Finish \/ LogLocal \/ Send \/ SendFails

\* The handler waits for nothing but servers, each with a timeout of 2 s.
Spec == Init /\ [][Next]_vars /\ WF_vars(Next)

-----------------------------------------------------------------------------
(* Properties *)

Labels == {"open", "receive", "check", "cloak", "check_cname", "route", "next",
           "waiting", "finish", "log", "reply", "done"}

Rcodes == {"NOERROR", "NXDOMAIN", "REFUSED", "SERVFAIL", "NOTIMP", "FORMERR"}

Optional(s) == Len(s) <= 1

IsMessage(m) ==
    /\ m.rcode \in Rcodes
    /\ \A r \in m.answer : r.data # {}

\* Every variable keeps to its type; a handler that still has to look at its
\* response has one, and it never sends two.
TypeOK ==
    /\ given \in Configs \X RuleTables \X Requests
    /\ pc \in Labels
    /\ Optional(cname) /\ Optional(used) /\ Optional(response) /\ Optional(sent)
    /\ broken \in BOOLEAN
    /\ pc \in {"finish", "log", "reply"} => response # <<>> /\ IsMessage(response[1])
    /\ pc = "waiting" => used # <<>> /\ used[1] = attempts[Len(attempts)].upstream

\* What the last server asked has answered, if it has.
LastReply == IF attempts = <<>> THEN <<>> ELSE attempts[Len(attempts)].reply

\* Servers are asked in the order of the configuration, each once, the next only
\* when the last one failed; a name with a forwarding rule goes to the server of
\* the rule and to no other, even when it fails; no server that can be reached is
\* passed over, and the client gets SERVFAIL for want of an answer only when every
\* one of them was asked.  (at[i] is the place in the list of the i-th one asked.)
FailoverInOrder ==
    LET item       == forwarding_rules(tables, asked)
        all        == IF item # <<>> THEN <<item[1].group>> ELSE config.default
        tried      == 1..Len(attempts)
        reached(k) == request.family \in config.families[all[k]]
    IN  /\ \E at \in [tried -> 1..Len(all)] :
             /\ \A i \in tried : attempts[i].upstream = all[at[i]] /\ reached(at[i])
             /\ \A i, j \in tried : i < j => at[i] < at[j]
             /\ \A k \in 1..Len(all) :
                  /\ reached(k)
                  /\ (\E i \in tried : k < at[i]) \/ (pc = "finish" /\ LastReply = <<>>)
                  => \E i \in tried : at[i] = k
        /\ \A i \in tried : i < Len(attempts) => attempts[i].reply = <<>>

\* A name the client may not ask for never leaves this server, neither as the
\* client asked it nor as the target of a CNAME rule; nor does a name whose
\* address the rules give.
NamesStayHome ==
    attempts # <<>> =>
        /\ ~NameBlocked(request.qname)
        /\ \A i \in 1..Len(attempts) : ~NameBlocked(attempts[i].name)
        /\ request.qtype \in Address => Records = {}

\* The answer to an address question that an upstream gave holds no address
\* blocked for this client, whatever CNAMEs it came through (readme.md:131).
ServedAddressesAllowed ==
    sent # <<>> /\ attempts # <<>> /\ request.qtype \in Address
        /\ sent[1].rcode = "NOERROR" =>
            \A x \in Addresses(sent[1]) : ~Blocked(x)

\* An answer of addresses and CNAMEs whose addresses are all blocked becomes an
\* empty REFUSED, and not an empty NOERROR; and a client is refused only what a
\* rule or a server refuses.
RefusedWhenEmptied ==
    sent # <<>> =>
        /\ LastReply # <<>> /\ LastReply[1].rcode = "NOERROR"
             /\ request.qtype \in Address /\ ~broken
             /\ Addresses(LastReply[1]) # {}
             /\ (\A r \in LastReply[1].answer : r.type \in Address \cup {"CNAME"})
             /\ (\A x \in Addresses(LastReply[1]) : Blocked(x)) =>
                  /\ sent[1].rcode = "REFUSED"
                  /\ sent[1].answer = {} /\ sent[1].additional = {}
        /\ sent[1].rcode = "REFUSED" =>
             \/ NameBlocked(request.qname)
             \/ NameBlocked(asked)
             \/ LastReply # <<>> /\ \/ LastReply[1].rcode = "REFUSED"
                                    \/ \E x \in Addresses(LastReply[1]) : Blocked(x)

\* A positive answer is about the name the client asked for, CNAME rules or not:
\* after a CNAME rule it is not empty, its addresses are those of that name, and
\* it shows no CNAME.
PositiveAnswersNamed ==
    sent # <<>> /\ sent[1].rcode = "NOERROR" =>
        /\ sent[1].qname = request.qname
        /\ cname # <<>> =>
             /\ sent[1].answer # {}
             /\ sent[1].additional = {}
             /\ \A r \in sent[1].answer :
                  /\ r.type # "CNAME"
                  /\ r.type \in Address => r.owner = request.qname

\* The logs tell what was done for a query: one for each server asked, failed or
\* not, or else one for the local answer with the status the client got.
LogsTellAttempts ==
    pc = "done" /\ sent # <<>> /\ ~broken /\ request.opcode = "QUERY" /\ ~Ipv6Off =>
        IF attempts = <<>>
        THEN Len(logs) = 1 /\ logs[1].server = <<>> /\ logs[1].status = <<sent[1].rcode>>
        ELSE /\ Len(logs) = Len(attempts)
             /\ \A i \in 1..Len(logs) :
                  /\ logs[i].server = <<attempts[i].upstream>>
                  /\ logs[i].status = <<>> <=> attempts[i].reply = <<>>

\* The thread of a request ends: the loop over the servers comes to its end.
RequestEnds == <>(pc = "done")

-----------------------------------------------------------------------------
(* What the documents and the code itself say, and the code does not do *)

\* The reply echoes the question, as the branch beside the refusal restores it
\* (threading_server.py:138) and as a client checks (dns_server.py:121).
EchoesQuestion == sent # <<>> => sent[1].qname = request.qname

\* "`blocked_ips` are removed from dns response" (readme.md:131).
BlockedIpsRemoved ==
    sent # <<>> /\ attempts # <<>> =>
        \A x \in Addresses(sent[1]) \cup sent[1].additional : ~Blocked(x)

=============================================================================
