# A TLA+ model of Local Dns Server

Local Dns Server is a DNS server for one machine or one home: it blocks names
and addresses by rule files, cloaks names, and forwards everything else to
upstream servers. This directory holds TLA+ modules that model its core, TLC
configurations that check them on small instances, and TLAPS proofs. Paths are
relative to `src/simple/` unless they say otherwise.

## Inventory

| Part | Source | State | Operations | Module |
|---|---|---|---|---|
| Request log queue and writer | `dns_server.py:48-80`, `db.py:333-344` | a process-wide `queue.Queue`, an event, the writer's sqlite transaction, the table `request_logs` | put, poll, insert, commit, task_done, drain at exit | `RequestLog`, `LogStore` |
| Rule database | `db.py:47-188`, `config.py:169-176` | six rule tables, `user_version` | `init_db` | `RuleDb` |
| Rule lookups | `db.py:190-331` | none | find a rule for an address or a name, follow CNAME rules | `Rules` |
| Request handler | `threading_server.py:37-337` | one request's fields, its message and reply | check, cloak, ask upstreams, filter, log, reply | `RequestHandler` |
| Server lifecycle | `dns_server.py:28-45, 83-102`, `threading_server.py:349-370` | four server threads, a DoH client, nested contexts | start, serve, shutdown | `DnsServer` |
| Configuration | `config.py`, `models.py` | none after the start | parse, validate, read rule files | `Config` |
| Rule file parsing | `parse_rules.py` | none | text to rows | `RuleFiles` |
| Single instance lock | `single_instance.py` | a file lock or a mutex | acquire, release | `Service` |
| Windows service | `windows_service.py` | `is_running`, the reported status | install, start, stop, shutdown, restart, remove | `Service` |
| Interactive client | `dns_server.py:105-146` | none | prompt, query, print | `Service` (start and end) |
| Data classes | `models.py` | none | an upstream's addresses by family | `Config` (partly) |
| Arguments, logging, stopwatch, build | `app_args.py`, `app_logging.py`, `stopwatch.py`, `__main__.py`, `__init__.py`, `build.py` | none | I/O and wiring | not modelled |

How they interact. `start_server` parses the configuration and rule files,
rebuilds the rule tables (`init_db`), starts the log writer and four socket
servers (TCP and UDP, IPv4 and IPv6), and yields until the prompt or the
service ends. Before that, `single_instance_locker` lets one process in and the
others end: one of a data directory, or on Windows one of a session. `socketserver` starts a daemon thread for each request; that
thread opens a read-only connection of its own, runs the handler, and puts logs
on the process-wide queue, from which one thread inserts them through the only
writing connection. The rule tables do not change while requests are served, so
handlers share nothing but the queue.

What is hard: the queue, the writer and the exiting context manager run
concurrently; sqlite may fail at any statement, and a failed commit is not
rolled back; the process may be killed at any step and start again on the same
file; upstream servers may be silent, wrong or partly blocked; names are
rewritten half way through a request when a CNAME rule applies; and which of
several matching rules decides depends on order, form, group and spelling.
The contexts of `start_server` must be left in reverse when the last of four
sockets cannot be bound, while daemon handlers that nobody joins still work. A
service is stopped by the manager's thread while its own thread starts or
polls, possibly before that has begun, and reports that it has stopped before
it has.
`PROJECT.json` lists each hazard at its line with the properties about it, or
says why no property covers it yet.

What makes each part correct: the log queue stores every log at most once and
in order, and drains before it stops; the rule database answers from the
current files whatever an earlier start left; lookups give the verdicts
`src/readme.md` describes; a handler leaks no blocked name, serves no blocked
address, tries servers in order, and logs what it did; a server accepts only
while what its handlers need is there, starts whole or not at all, and ends
with what it answered on record; a configuration that is accepted names only
servers that exist; a rule file's rows are the rules it says; of the
processes that share a lock one serves; and a stopped service stops.

## Modules

### LogStore and RequestLog

`LogStore` is what the request log promises: logs are submitted, some of them
become rows, each at most once, in the order of submission, and rows stay.

`RequestLog` is the code. A log is the number of its put. `writer` is where
`handle_it` is:

| `writer` | code | actions |
|---|---|---|
| `opening` | `dns_server.py:54` | `WriterOpens`, `WriterOpenFails` |
| `getting` | 57 | `Get`, `GetTimesOut` |
| `empty` | 59 | `KeepPolling`, `StopPolling` |
| `inserting`, `committing` | 63, `db.py:343`, `344` | `Insert`, `Commit`, `InsertFails` |
| `finishing` | 67 | `TaskDone` |
| `stopped`, `dead` | 60, 69 | |

`exit` is where the `finally` clause of the context manager is (`StartExit`,
`JoinReturns`, `SetFinished`, `WriterJoined`: lines 77 to 80). `unfinished` is
the counter of `queue.Queue` that `join()` waits for. `txn` is the open
transaction of the writer's connection: when `executemany` or `commit` raises,
nothing rolls back, and sqlite either keeps the transaction ("database is
locked") or drops it (a full disk), so `InsertFails` leaves both possible. A
row of a kept transaction is committed with the next log. `Restart` is a kill
at any step, followed by a start on the same file. `joined` and `base` are
history variables that only the properties read.

### Rules and RuleDb

`Rules` holds the lookups as operators on tables: the `where` clauses
(`NameMatches`, `ForClient`, `IpMatches`), the preference among the rows found
(`Exact`, `Spelled`, `OfOwnGroup`, `Longest`, then the first; `Rather` is one
`item if item is not None else next(...)`), the verdict, and the CNAME chain of
at most five hops (`Followed`, `Hops`). A table, and what a query finds in it, is
a function from ids to rows; `order by id` is the order of the ids, so that a
query restricts the function and `First` takes the least id that is left. The rows are selected by the name in lower
case but preferred by the name as the client spelled it (`Spelled`), as in
the code.

`RuleDb` is `init_db`: the journal mode, six drops, six creates, six inserts
with a commit each, and the version. Each statement of `executescript` commits
by itself. `Restart` ends the process at any step, by a kill or an exception,
and starts it with any rule files of `LaterRules`. A create of a table that
exists raises (`phase = "down"`).

### RequestHandler

One request, from the constructor of `DnsRequestHandler` to the reply; `pc` is
the place in `handle()`, each action is what happens between two decisions of
the code or two calls of the outside world (the database at the start, an
upstream, the client). The table of actions:

| Step | Code (`threading_server.py`) | Actions |
|---|---|---|
| open, receive | 38-46, 212-234 | `OpenDb`, `OpenDbFails`, `NoRequest`, `RefuseIpv6`, `NotAQuery`, `Query` |
| block list | 109-119, 235 | `RefuseName`, `PassName` |
| cloaking | 121-159 | `AnswerLocally`, `NotCloaked`, `CloakByCname`, `RefuseCname`, `PassCname`, `Finish` |
| upstreams | 275-337 | `Route`, `SkipUpstream`, `Contact`, `NoAnswer`, `Answer`, `Exhausted` |
| end | 242-258 | `LogLocal`, `Break`, `Send`, `SendFails` |

`Answer` includes the filtering of blocked addresses and the log, which the
code does in the `finally` clause of the attempt. What upstream servers answer
is the constant operator `Replies`: they are not part of the code. An answer is
a set of rrsets, each an owner, a type and a set of data; the order in which
dnspython keeps them is not represented, as no decision depends on it. `Answer`
takes only a reply to the question that was asked, or an error that repeats no
question, because dnspython raises for any other, which is then `NoAnswer`
(`IsResponse`). In an error without a question the client's name cannot be put
back after a CNAME rule: line 138 raises, and the client gets SERVFAIL (`Break`
at `NothingToRestore`). An rrset that holds no address stays in a
filtered answer, so that an answer whose addresses were all removed and that
keeps a signature (RRSIG) is sent as an empty NOERROR; only CNAMEs and nothing
else make it REFUSED (`OnlyCnames`). `attempts` and `broken` are history
variables.

### DnsServer

`DnsServer` extends `RequestLog`: the state of the queue and its writer is the
same, and every action below is a step of the log or leaves it alone.

| Step | Code | Actions |
|---|---|---|
| configuration, `init_db` | `dns_server.py:87-89` | `ReadConfig`, `ReadConfigFails` |
| entering the contexts | `dns_server.py:93-101`, `threading_server.py:349-370` | `EnterDoh`, `EnterLog`, `EnterServer`, `BindFails` |
| the end of the input loop or the service | `dns_server.py:102` | `Stop` |
| leaving a server | `dns_server.py:43-45` | `Shutdown`, `ServeEnds`, `JoinServer` |
| leaving the log | `dns_server.py:77-80` | `LeaveLog`, `ExitLog`, `LogLeft` |
| leaving the DoH client | `dns_server.py:93` | `CloseDoh` |
| handlers | `threading_server.py` | `Accept`, `LogRequest`, `Reply` |
| the writer, a kill | | `Write`, `Kill` |

`entered` counts the contexts entered and not left; their order is the constant
sequence `Contexts`. A handler is any number of puts between being accepted and
replying: what it does in between is `RequestHandler`. `early` is a history
variable: the logs of requests that were answered while some server accepted.
`ServeEnds` is a step of its own because `shutdown()` is seen by
`serve_forever` up to half a second later, and a request may come in between.
Whether a socket can be bound is nondeterministic for all four (on Linux the
bind of `::` may fail after that of `0.0.0.0`, depending on the machine).
`server_close()` is never called: a server that was shut down keeps its
listening socket until it is collected, and clients that connect then wait;
the model says of it that it accepts no request.

### Service

`Service` is about all the processes of one machine that share a data directory:
those started at a prompt (`Consoles`) and those the service manager starts
(`Services`).

| Step | Code | Actions |
|---|---|---|
| service commands | `windows_service.py:89-167` | `InstallCommand`, `StartCommand`, `StopCommand`, `RestartCommand`, `RestartStarts`, `RemoveCommand`, `RemoveService` |
| a stop, a shutdown of the machine | `windows_service.py:64-73` | `SvcStop`, `SvcStopped` |
| a process starts | `dns_server.py:131-142`, `windows_service.py:34-37` | `RunConsole`; `SvcRun`, `SvcDoRun`, `SetRunning`, `ReportRunning`, `ReportFails` |
| the lock | `single_instance.py` | `OpenMutex`, `OpenLockFile`, `LockFile`, `CloseLock` |
| `start_server` | `windows_service.py:53-61`, `dns_server.py:144-146` | `StartServer`, `StartServerRaises`, `StartServerHangs`, `InputEnds`, `Poll`, `LeaveServer`, `LeavingHangs` |
| the end | | `ReportEnd`, `DispatcherReturns`, `Killed` |

The name of the mutex has no `Global\` prefix (`single_instance.py:25`), so that
Windows keeps one for each session. `session` says in which session a process
runs: services in `ServiceSession`, programs at a prompt in any. A mutex exists
while any process of its session has it open, a refused one included until it
has closed its handle: `OpenMutex` lets a process in only when nobody it shares
the mutex with has (`Shares`). The
file lock is held by at most one process, but `lock.lock` is opened without
`O_CREAT`, so that a process in a data directory without it ends
(`OpenLockFile`). The life of `start_server` is `DnsServer`; here it is the
places `Inside`, with `stuck` for a process whose log writer has died and that
waits for ever in `queue.join()`, when it leaves (`LeavingHangs`) or when its
start has failed (`StartServerHangs`).

The service manager and pywin32 are external. `SvcRun` is pywin32's: it reports
RUNNING and then calls `SvcDoRun`, whose lines 35, 36 and 37 are `SvcDoRun`,
`SetRunning` and `ReportRunning`. A stop is handed to a service that is RUNNING,
so it may come before line 35 and between any two of these steps. Status reports
of a service that has reported STOPPED are not heard (`Heard`), or raise
(`ReportFails`); its process may exit wherever its threads are, because the
dispatcher of the main thread returns. Typing a
query with two colons at the prompt raises outside the `try` and ends the
program (`dns_server.py:119`): one of the ways of `InputEnds`.

### RuleFiles and Config

`RuleFiles` turns the text of a rule file into rows: `parse_line` (comments cut,
stripped, each line once), the parsers of names and addresses
(`NameRows`: lines of one word, in lower case) and of cloaking rules
(`CloakingRows`: two words, not equal, the second no pattern). `parse_line` is
the set the code collects, and `InOrder` its `list(sorted(result))`; the parsers
select lines before they are put in order, which gives what selecting from the
sorted lines gives. `Sorted` puts a set in the order in which each element has
those of `before` before it, and `Before` is the order of Python's strings. Names and
addresses are tokens; what is kept is what decides: white space, the comment
mark, `*`, spelling, order. A tab does not separate words, as in the code.
Sorting is by the spelling of the file, before lower-casing.

`Config` is `parse_config_from_object` stage by stage, each of which may raise
(`CheckSections`, `ReadUpstream`, `NoMoreUpstream`, `ReadDefault`, `ReadRules`,
`CheckForwarding`), then `read_dns_server_rules` table by table (`ReadTable`),
which fails when a file that is there cannot be read or decoded (`ReadFails`).
The object is what `json` makes of the file: sections, upstreams and rule files
in order, in each of the forms the code accepts and in faulty ones. The members
of "default" are tokens; `NoKey` is one that can be no key (a TypeError), and
stands alone for a "default" that is nothing to go through.

## Runs

| Run | States | Shows |
|---|---|---|
| `request_log` | 20,274 | `UnfinishedIsOutstanding`, `PipelineInOrder`, `NothingLost`, `HandledAtExit`; refinement of `LogStore` (`StoresInOrder`); `ExitCompletes`, `LogsGetHandled` |
| `rule_db` | 126,207 | `RulesAsConfigured`, `StartSucceeds`; `AllowedPrevails`, `OthersRulesAreInert`, `CaseBlind`, `MostSpecificRoute`, `ChainResolved` |
| `handler` | 88,158 | `FailoverInOrder`, `NamesStayHome`, `ServedAddressesAllowed`, `RefusedWhenEmptied`, `PositiveAnswersNamed`, `LogsTellAttempts`, `RequestEnds` |
| `dns_server` | 222,136 | `AcceptingInside`, `AllOrNothing`, `AnsweredIsRecorded`; `LeavingEnds` |
| `service` | 151,917 | `OneServesPerSession`, `StopIsHeeded`, `RunningServesOrStops` |
| `config` | 71,740 | `ConfigUsable`, `RowsAsWritten`, `LineOrderIsInert`, `SpellingIsInert`, `CloakingAsWritten` |
| `rule_prefix`, `handler_question`, `handler_removed`, `service_restart`, `service_session`, `service_stop` | | the six disagreements below |

Each passing run also checks the type invariant of its module.

Bounds. `request_log`: four logs and one kill (`MaxLogs`, `MaxRestarts`), so
that a kept transaction, a log in hand and a queue of two coexist, before and
after a kill. `rule_db`: the first start has at most one allowed and one blocked name rule, two
forwarding or three cloaking rules, of every form (exact, plain, glob before,
after or alone, `?`) and of three kinds of groups, asked about every name of up
to three labels over `a`, `b`, `A`; plus a chain of eight CNAME rules, longer
than the limit. Every preference of the code compares two rows, so two rows
show each of them. Up to two more starts have one of three rule files, so that
one may be cut short and another come after it. `handler`: one request (handlers share no state but the
queue), two clients, both address families, ten replies (one of them to another
question, one without a question, one with a signature), up to three default
servers of which one cannot be reached, rule tables that combine a name rule,
address rules and a forwarding rule. `dns_server`: two handlers, two
logs and one kill, so that one handler may be at work when the last server stops
while the other has answered, with one log each or both of one. `service`: two
service processes, the second one started when the first has reported its end,
and a program at a prompt in one of two sessions, so that one process may be
refused and still have the lock open when the next one asks; elsewhere than on
Windows, where there is no service, two programs at a prompt
(`SecondPromptElsewhere`, a constraint); exceptions, hangs and kills everywhere
(`Faults`). `service_restart` and `service_stop`: no other program and no faults,
so that nothing but the restart or the stop is to blame; `service_session`: one
program and no faults.
`config`: one good object with every form a value
may have, the default one, and one object for each fault; each file holds up to
two lines out of fourteen (two lines show every dependence on order, repetition
and spelling, which are relations of two lines), read both as names and as
cloaking rules. Each mutant in the modules (operators
named after the definition they change, marked "Mutant of") is a plausible bug
that the run of its property finds.

Fairness. `RequestLog`: weak fairness of the writer's steps and of the exit
steps, each a thread that runs whenever it can; the writer's `get` has a timeout
of 0.1 s. Nothing obliges handlers to put, the server to stop or the process to
die. `RuleDb`: weak fairness of `init_db`, straight-line code. `RequestHandler`:
weak fairness of the handler, whose every wait for a server has a timeout of
2 s; the wait for the request itself and for the client's socket is left out, so
`RequestEnds` is about a request that has arrived. `DnsServer`: weak fairness of
the main thread between start and end (`MainStep`, not `Stop`), of the threads
of `serve_forever` (`ServeEnds`, which poll every 0.5 s) and of the writer
(`Write`); handlers may stay at work for ever. `Service`: weak fairness of what
each process does by itself (`Step`; `Poll` is a loop with a sleep of a second),
of the second half of a stop (`SvcStopped`), of the framework's report
(`ReportEnd`), and of the start that a restart waits for (`RestartStarts`); users
are obliged to nothing. `Config` has no liveness property.

Deadlock checking is off in all runs, because these systems really stop: the
request is answered, the server is closed, `init_db` has returned, reading has
ended, all processes have ended.

Three limits of the claims. `ExitCompletes` and `LogsGetHandled` except a dead
writer: if `TheDbJob()` raises in the writer's thread, handlers still put logs,
`queue.join()` never returns and the server cannot be stopped, nor can a failed
start end. The models have this behaviour, and `LeavingEnds`, `StopIsHeeded` and
`RunningServesOrStops` except it too. Logs put
by handlers still running after `queue.join()` returned are lost when the
process ends: `AnsweredIsRecorded` is about requests answered before the last
server stopped accepting. And `StopIsHeeded` is about stops from
`windows_service.py:36` on; what comes earlier is the finding `service_stop`.

One behaviour of the model is neither claimed nor refuted: with the rules a ->
CNAME b and b -> an IPv4 address, an AAAA question for a takes the branch of names
that are not cloaked and goes upstream as a (`NotCloaked`,
`threading_server.py:129`). `src/readme.md:164` speaks of a CNAME that can not be
resolved in the rules, and does not say for which type.

## Findings

* `rule_prefix`: a plain rule is spliced into a `LIKE` pattern unescaped, so an
  `_` in it matches any character (`db.py:262`); `src/readme.md:116` says a
  plain rule matches itself and its subdomains. The run has the one rule `_.b`,
  which matches `a.a.b`.
* `handler_question`: the refusal for a blocked CNAME target carries the CNAME
  in its question (`threading_server.py:136`), which clients reject, the
  repository's own included (`dns_server.py:121`).
* `handler_removed`: blocked addresses are removed only from the answer section
  of positive replies to A and AAAA questions (`threading_server.py:179`,
  `308`); `src/readme.md:131` says they are removed from the response.
* `service_restart`: `SvcStop` reports STOPPED at once (`windows_service.py:67`)
  while the old process serves on for up to a second and then leaves
  `start_server`. The process that the restart starts finds the mutex of the old one
  (`single_instance.py:26`) and ends, after the user was told "service
  restarted" (`windows_service.py:141`).
* `service_session`: the mutex is one for each session of Windows
  (`single_instance.py:25`). The service and a program at a prompt, which run in
  different sessions, each make their own and both enter `start_server`; the
  function is there to "make-sure-only-a-single-instance-of-a-program-is-running"
  (`single_instance.py:14`).
  `init_db` comes before the sockets are bound, so that the second process
  rebuilds the tables the first one answers from, even if it then finds its port
  taken.
* `service_stop`: pywin32 reports RUNNING before it calls `SvcDoRun`, so that a
  stop may come before `windows_service.py:36`, which then overwrites it. The
  user was told "service stopped" (`windows_service.py:132`), and only the exit
  of the process keeps the service from running on.

## Proofs

`RequestLogProofs`, for every `MaxLogs` and `MaxRestarts` in Nat (the only
assumptions): `TypeCorrect`, `Accounting`, `Order`, `Conservation`, `Drained`
and `Refinement` are the five invariants of the run and the implementation of
`LogStore`. None of the invariants is inductive alone. `IInv` joins them and
adds what they leave unsaid: the logs anywhere are at most `put` (`Bounds`), and
the writer holds a log exactly in the states `Holding`, one that is being
committed is in its transaction, and one that is finished is a row or reported
(`InHand`). Then order follows a
log from the queue through the hand and the transaction to the table; nothing is
lost because the hand is emptied only by `TaskDone`, which comes after a row or a
report; and `unfinished = 0` at `JoinReturns` makes queue and hand empty, so
that what was put is a row or reported. The lemmas on `Append`, `Tail` and `\o`
turn sequences into sets of elements, and each action has its lemma. The
refinement needs `IInv` for one step: `Commit` is `Store` of `LogStore` because
the transaction is not empty, in order and behind the table.

`RequestHandlerProofs`, for all rules, configurations, requests and answers:
`StayHome` proves that no name the client may not ask for is ever sent upstream
and that names with local addresses are answered locally. Its invariant
(`Checked`) says of each place in `handle()` which checks have been passed there.
`LogsTell` proves that the logs are the attempts, in order, or else the one
local answer. Its invariant (`Telling`) ties the number of logs to the number of
attempts at each place. Steps that touch neither logs nor attempts are treated
together (`LocalStep`).

In the same module, `OnlyAllowedServed`, `Named` and `RefusedRightly` prove the three invariants about the reply itself. None of them
can be shown from the place in `handle()` alone: what the client gets was made
several steps before. The invariant `Answers` therefore tells the origin of each
response that exists: it was fetched (it is the last server's reply, filtered,
and dnspython took it), made here, or is the first brought under the client's
name. What filtering and uncloaking do to a reply is said by lemmas
(`FilteredAllows`, `FilteredRefuses`, `RefusedFor`, `UncloakedFacts`), which the
theorems join with the origin.

`RequestOrderProofs`, for the same and every list of default servers: `Failover`
is `FailoverInOrder`, and `TypeCorrect` the type invariant. The servers of a
request are known only when the name that is asked for is settled, and the loop
skips some of them, so that the attempts alone do not say how far it has come.
The invariant (`Looping`) says that there is a place in the list of which every
reachable server up to it was asked, in order (`Placed`), while those behind it
are what is left (`LeftBehind`); before the loop this place is 0. With it goes
that no server was asked after an answer (`OthersFailed`). Assumed are
`ConfigsAssumption`, that the default servers are a sequence of servers of the
configuration, which is what `Usability` of `ConfigProofs` shows of the parser,
and, for `TypeCorrect` alone, that what upstreams answer are messages
(`RepliesAreMessages`), as dnspython parses them.

`RuleDbProofs`, for all rule files, every bound on restarts and every place
where a start is cut short: `NoTableInTheWay` (no create meets a table),
`TypeCorrect`, and `Configured`, which is `RulesAsConfigured`. `DbInv` says which
tables are gone, there and filled at each statement (`Loading`), and that what is
in a table comes from some start's files (`Shape`). That a table holds each row
once and in order rests on what the recursive function inside `Deduplicated`
computes. `KeptExists` shows that this function exists and `DeduplicatedFacts`
what it returns. The assumption, besides `MaxRestarts` in Nat, is
`RulesAssumption`: rule files are sequences of rows.

The library's induction theorems take an operator as a parameter and cannot be
instantiated by the installed provers. Where a proof needs an induction (the
existence and the values of `kept`, of the hops of a CNAME chain, of the function
inside `FlattenSeq`, the least and the greatest element of a set of numbers), it
is done over a set of numbers: `LeastNumber`, from the well-foundedness of `<`,
gives `Induction`, both in `RulesProofs`.

`RulesProofs` has the lemmas about the lookups themselves, for all tables of
rows: a lookup finds something exactly when some row passes its `where` clause
(`FindNameFinds`, `FindIpFinds`, `MatchingFacts`), and what it prefers
(`PreferredFacts`, `LongestExists`); what the rows of a chain are after each hop
(`HopsExist`, `HopsFacts`, `HopsAreRules`), and what the limit of rows leaves of
them (`TakeFacts`, `TakeCname`).

On these rest the theorems of `RuleDbProofs` about what a running server
answers, for all rule files, clients, names and addresses: `Blocking` is
`AllowedPrevails`, `Inert` is `OthersRulesAreInert`, `Spelling` is `CaseBlind`,
`Routing` is `MostSpecificRoute`, `Chains` is `ChainResolved`. From the inductive
invariant they use that the rows of a table are rows of the files (`TablesRead`).
`Blocking` compares the queries with the manual: `MatchedIsCovered` shows that
`glob`, `glob '*.' ||` and `like '%.' ||` select the names that `Covered` says,
where a plain name and its subdomains are the suffixes equal to it. It has the
one hypothesis of these theorems, `LiteralRules`: no plain blocked or allowed
name holds an `_`. Without it the statement is false, which is the finding
`rule_prefix`; the rules of `rule_db` satisfy it. The other assumptions are
`FoldAssumption` (lower case of lower case is the same), `NamesAssumption` (names
are sequences of labels) and `RowsAssumption` (a rule's name is one too, and not
empty but for an exact rule, as `parse_line` leaves no empty line and only "=" is
an exact rule without a name).

`DnsServerProofs`, for any number of handlers, logs and kills. `DnsServer` is
built from the actions of `RequestLog`, so that by its form each of its steps is
one of those or leaves the log alone (`LogRefinement`, a lemma), and `IInv` holds
in it (`LogInvariance`). `ServerTypeCorrect`, `Nesting`,
`Atomicity` and `OnRecord` are the four invariants of the run. `DInv` joins how
many contexts are entered with the phase and the DoH client (`Depth`), with the
state of each server by its place among the contexts (`Stands`), with how far the
log is left (`Leave`), and with what was put when `queue.join()` returned
(`Early`). `OnRecord` then follows from `Drained`'s argument: what was answered
early was put before the join, and what was put before the join is a row or was
reported.

`ServiceProofs`, for any number of processes of both kinds and any sessions, on
either platform, with every command, exception and kill: `MutualExclusion` is
`OneServesPerSession`, `TypeCorrect` the type invariant. Inductive is their
conjunction with `Held`: that nobody of a session holds the lock means that
nobody of it is inside; on Windows the open
handles say so, elsewhere the lock on the file. It rests on `ProcsAssumption` (a
process is of one kind) and `SessionsAssumption` (the services have a session).

`ConfigProofs`, for all objects and texts: `Usability` is `ConfigUsable`, and
`TypeCorrect` the type invariant. The inductive invariant says which checks each
stage has behind it. The assumption (`ObjectsAssumption`) is that the entries of
"upstream" are a sequence, as the pairs of a JSON object are. The addresses of a
server are a set in the model, because a handler takes any of them.

The same module has the theorems about rule files, for all texts:

* `LineOrder` is `LineOrderIsInert`: `parse_line` of a text is a set that depends
  on the set of its lines only, and the rows depend on that set only.
* `FileSpelling` is `SpellingIsInert`. `Lower` commutes with cutting, stripping
  and splitting (`LowerLeft`, `LowerParse`), because no letter becomes a sign and
  no sign a letter (`CaseAssumption`); and rows that are sorted in another order
  are the same set of rows (`SortedFacts`, with `LinesAreOrdered`).
* `Writing` is `RowsAsWritten`. The property says what a line says by the
  positions between which it stands (`Said`); `EndsUnique`, `LeftOfLine` and
  `SaidFacts` show that cutting and stripping find these positions and no others.
  Its inductive invariant is `RowsRead` (theorem `Reading`): the tables read so
  far are `read_file1` of the groups that `ReadRules` left, and these are lists.
  `FlattenFacts` says what joining the rows of all files gives.

`SortedFacts` says of any finite set with a total order that its sorted sequence
holds its elements, each once; `BeforeTotal`, `BeforeIrreflexive` and
`BeforeTransitive` that strings are so ordered; `RowsAreOrdered` that cloaking
rows of one group are. The assumptions are about the vocabulary (`RankAssumption`:
tokens have different ranks; `AddressAssumption`: neither `*` nor `?` is an
address) and about the data: files are sequences of lines (`TextsAssumption`), and
groups and their files are listed in an order (`GroupsAssumption`).

Every invariant that a passing run checks is a theorem, but for
`CloakingAsWritten`. Only model-checked: that one, and liveness
(`ExitCompletes`, `LogsGetHandled`, `StartSucceeds`, `RequestEnds`,
`LeavingEnds`, `StopIsHeeded`, `RunningServesOrStops`), because TLAPS does not
reason about fairness here. What the theorems say of the lookups and the parsers
they say of the abstraction of names and globs told below.

## What is abstracted

* A label of a name is one character, and a glob has at most one `*`; bracket
  sets are left out. `LIKE`'s `_` stands for one label; that it matches a dot as
  well, which makes the finding worse, is not represented. `?` stands for a
  label and not for a dot.
* Addresses and groups are values; `Covers` says which addresses a group or an
  address rule stands for.
* The authority section, EDNS, ids and flags of messages, and the TCP length
  prefix are left out. A request arrives whole or not at all. `make_response`
  raising for a message with the QR flag counts as a request that gets no reply.
  That a message of one byte is dropped and a second query on one connection is
  never answered is TCP framing, and left out.
* The choice among several addresses of one upstream, the order of local
  records, the protocol, times, and the text of errors in logs are left out.
* An IPv6 address is a value; that blocked ones are compared as text, in the
  canonical form of both sides, is not represented.
* JSON is external: a text that is no object raises before `Config` begins. The
  sections of `config.json` that no other part reads are left out.
* The configuration a service is installed with, and what the prompt's queries
  print, are left out.
* `ipv6` of the configuration stands for "is not False".
* The journal mode and the table `request_logs` are not part of `RuleDb`: the
  one has no state the rules depend on, the other is created once and kept.

## Not modelled

`app_args.py`, `app_logging.py`, `stopwatch.py`, `__main__.py`, `__init__.py` and
`build.py` parse arguments, set up logging, measure time, start the program and
build it: they have no state that any property could be about. The dataclasses of
`models.py` without behaviour are the records of the models.

## Plan

Done: `LogStore`, `RequestLog`, `Rules`, `RuleDb`, `RequestHandler`, `DnsServer`
(which composes `RequestLog` with the server's life), `Service`, `RuleFiles`,
`Config`, and the proofs above.

Left to prove: `CloakingAsWritten`; and that what `ReadTable` reads satisfies the assumptions `RuleDb`
makes of rule files (`RulesAssumption`, `RowsAssumption`), so that the theorems
about reading, loading and looking up speak of one set of rows; for this the rows
of `RuleFiles` and those of `Rules`, which have the leading "=" of an exact rule
as a field, must be brought together.

## Running

    tlc -workers 2 -config MCRequestLog.cfg MCRequestLog
    tlc -workers 2 -config MCRuleDb.cfg MCRuleDb
    tlc -workers 2 -config MCRequestHandler.cfg MCRequestHandler
    tlc -workers 2 -config MCDnsServer.cfg MCDnsServer
    tlc -workers 2 -config MCService.cfg MCService
    tlc -workers 2 -config MCConfig.cfg MCConfig
    tlapm RequestLogProofs.tla
    tlapm RequestHandlerProofs.tla
    tlapm RequestOrderProofs.tla
    tlapm RulesProofs.tla
    tlapm RuleDbProofs.tla
    tlapm DnsServerProofs.tla
    tlapm ServiceProofs.tla
    tlapm ConfigProofs.tla

The runs that expect a violation are the six configurations
`MCRuleDb_prefix.cfg`, `MCRequestHandler_*.cfg`, `MCService_restart.cfg`,
`MCService_session.cfg` and `MCService_stop.cfg`.

`PROJECT.json` lists components, runs, mutants, findings, hazards, theorems, and
the source lines each definition stands for.
