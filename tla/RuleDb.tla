-------------------------------- MODULE RuleDb --------------------------------
(***************************************************************************)
(* The rule tables of data.sqlite3.  Every start of the server drops them, *)
(* creates them again and fills them from the rule files (init_db), each   *)
(* statement of executescript and each executemany with its commit being a *)
(* transaction of its own; the process may be killed, or stop, at any step *)
(* and start again with other rule files.  When init_db has returned, the  *)
(* lookups of Rules answer from these tables, which nothing changes until  *)
(* the next start.                                                         *)
(***************************************************************************)
EXTENDS Rules

CONSTANTS
    FirstRules,    \* the rules the rule files may hold at the first start
    LaterRules,    \* the rules they may hold at a later start
    MaxRestarts,   \* bound: times the process ends and is started again
    Clients, Ips, Names   \* the clients, addresses and names asked about

ASSUME MaxRestartsAssumption == MaxRestarts \in Nat

TableNames == <<"allowed_ips", "allowed_names", "blocked_ips", "blocked_names",
                "cloaking_rules", "forwarding_rules">>
TableSet == {TableNames[i] : i \in 1..Len(TableNames)}

Rows(s) == {s[i] : i \in 1..Len(s)}

ASSUME RulesAssumption ==
    \A r \in FirstRules \cup LaterRules : \A t \in TableSet : r[t] \in Seq(Rows(r[t]))

NameTables == TableSet \ {"allowed_ips", "blocked_ips"}

\* A rule has a name, but for the exact rule of a line that is only "=".
ASSUME RowsAssumption ==
    \A r \in FirstRules \cup LaterRules : \A t \in NameTables : \A row \in Rows(r[t]) :
        row.name \in Seq(DOMAIN Fold) /\ (row.name # <<>> \/ row.exact)

ASSUME NamesAssumption == \A n \in Names : n \in Seq(DOMAIN Fold)

UserVersion == 1   \* __pragma_user_version__

VARIABLES
    rules,         \* DnsServerRules, read from the files: the rows of a table
    created,       \* the rule tables that exist
    tables,        \* the committed rows of a rule table
    user_version,  \* pragma user_version
    phase,         \* the step init_db is at
    at,            \* the table this step is at
    restarts

vars == <<rules, created, tables, user_version, phase, at, restarts>>

Phases == {"pragma", "drop", "create", "insert", "upgrade", "ready", "down"}

Empty == [t \in TableSet |-> <<>>]

Init ==
    /\ rules \in FirstRules
    /\ created = {}
    /\ tables = Empty
    /\ user_version = 0
    /\ phase = "pragma"
    /\ at = 1
    /\ restarts = 0

\* The step at the next table, or the first table of the next step.
Advance(nextPhase) ==
    IF at < Len(TableNames)
    THEN at' = at + 1 /\ phase' = phase
    ELSE at' = 1 /\ phase' = nextPhase

SetJournalMode ==
    /\ phase = "pragma"
    /\ phase' = "drop"
    /\ UNCHANGED <<rules, created, tables, user_version, at, restarts>>

\* Mutant of DropTable: the last table is not dropped.
DropAllButLast ==
    /\ phase = "drop"
    /\ IF at < Len(TableNames)
       THEN /\ created' = created \ {TableNames[at]}
            /\ tables' = [tables EXCEPT ![TableNames[at]] = <<>>]
       ELSE UNCHANGED <<created, tables>>
    /\ Advance("create")
    /\ UNCHANGED <<rules, user_version, restarts>>

DropTable ==
    /\ phase = "drop"
    /\ created' = created \ {TableNames[at]}
    /\ tables' = [tables EXCEPT ![TableNames[at]] = <<>>]
    /\ Advance("create")
    /\ UNCHANGED <<rules, user_version, restarts>>

\* There is no "if not exists": creating a table that exists raises, and the
\* exception ends the process.
CreateTable ==
    /\ phase = "create"
    /\ IF TableNames[at] \in created
       THEN phase' = "down" /\ UNCHANGED <<created, at>>
       ELSE created' = created \cup {TableNames[at]} /\ Advance("insert")
    /\ UNCHANGED <<rules, tables, user_version, restarts>>

Member(s, e) == \E i \in 1..Len(s) : s[i] = e

\* Mutant of Deduplicated: no unique constraint.
Unconstrained(s) == s

\* "on conflict ignore": of equal rows the first stays.  The columns of a
\* unique constraint determine the row.
Deduplicated(s) ==
    LET kept[n \in 0..Len(s)] ==
          IF n = 0 THEN <<>>
          ELSE IF Member(kept[n - 1], s[n]) THEN kept[n - 1]
          ELSE Append(kept[n - 1], s[n])
    IN  kept[Len(s)]

\* Mutant of InsertRules: blocked_names is filled from rules.allowed_names.
InsertRulesOfOther ==
    /\ phase = "insert"
    /\ LET t == TableNames[at]
           source == IF t = "blocked_names" THEN "allowed_names" ELSE t
       IN  tables' = [tables EXCEPT ![t] = @ \o Deduplicated(rules[source])]
    /\ Advance("upgrade")
    /\ UNCHANGED <<rules, created, user_version, restarts>>

InsertRules ==
    /\ phase = "insert"
    /\ tables' = [tables EXCEPT ![TableNames[at]] =
                    @ \o Deduplicated(rules[TableNames[at]])]
    /\ Advance("upgrade")
    /\ UNCHANGED <<rules, created, user_version, restarts>>

Upgrade ==
    /\ phase = "upgrade"
    /\ user_version' = UserVersion
    /\ phase' = "ready"
    /\ UNCHANGED <<rules, created, tables, at, restarts>>

\* The process ends, at whatever step, and starts again: what was committed is
\* there, the rule files may have been edited.
Restart ==
    /\ restarts < MaxRestarts
    /\ restarts' = restarts + 1
    /\ rules' \in LaterRules
    /\ phase' = "pragma"
    /\ at' = 1
    /\ UNCHANGED <<created, tables, user_version>>

InitDb ==
    SetJournalMode \/ DropTable \/ CreateTable \/ InsertRules \/ Upgrade

Next == InitDb \/ Restart

Spec == Init /\ [][Next]_vars /\ WF_vars(InitDb)

-----------------------------------------------------------------------------
(* Properties of the tables *)

\* Every variable keeps to its type; a table that does not exist has no rows,
\* and no rule is in a table twice.
TypeOK ==
    /\ rules \in FirstRules \cup LaterRules
    /\ created \subseteq TableSet
    /\ DOMAIN tables = TableSet
    /\ \A t \in TableSet :
         /\ t \notin created => tables[t] = <<>>
         /\ \A i, j \in 1..Len(tables[t]) : i < j => tables[t][i] # tables[t][j]
    /\ user_version \in {0, UserVersion}
    /\ phase \in Phases
    /\ at \in 1..Len(TableNames)
    /\ restarts \in 0..MaxRestarts

FirstAt(s, e) ==
    CHOOSE i \in 1..Len(s) : s[i] = e /\ \A j \in 1..(i - 1) : s[j] # e

\* Wherever an earlier start was cut short, the lookups answer from the rules
\* of the current files: all of them, each once, in their order, and none that
\* an earlier start left behind.
RulesAsConfigured ==
    phase = "ready" => \A t \in TableSet :
        /\ t \in created
        /\ Rows(tables[t]) = Rows(rules[t])
        /\ \A i, j \in 1..Len(tables[t]) : i < j =>
             FirstAt(rules[t], tables[t][i]) < FirstAt(rules[t], tables[t][j])

\* A start succeeds whatever an earlier one left: no table is in the way, and
\* init_db returns unless it is cut short again.
StartSucceeds == phase = "pragma" ~> phase = "ready"

-----------------------------------------------------------------------------
(* Properties of the lookups, of every name and address asked about *)

\* What the manual says a rule covers: a pattern the names it matches and those
\* below them, a plain name itself and its subdomains, "=" that name alone.
Covered(rule, name) ==
    /\ name # <<>>
    /\ IF rule.exact
       THEN ~UsesGlob(rule.name) /\ rule.name = name
       ELSE \E k \in 1..Len(name) : Glob(SubSeq(name, k, Len(name)), rule.name)

\* A name or an address is blocked for a client when a blocked rule for this
\* client covers it and no allowed rule for this client does: allowed rules
\* have priority however specific the blocked rule is (readme.md:129, 133).
AllowedPrevails ==
    phase = "ready" => \A c \in Clients :
        /\ \A n \in Names :
             block_names_ex(tables, c, n) = "blocked" <=>
                 /\ \E r \in Rows(tables.blocked_names) :
                      ForClient(r, c) /\ Covered(r, Lower(n))
                 /\ ~\E r \in Rows(tables.allowed_names) :
                      ForClient(r, c) /\ Covered(r, Lower(n))
        /\ \A a \in Ips :
             block_ips_ex(tables, c, a) = "blocked" <=>
                 /\ \E r \in Rows(tables.blocked_ips) : ForClient(r, c) /\ IpMatches(r, a)
                 /\ ~\E r \in Rows(tables.allowed_ips) : ForClient(r, c) /\ IpMatches(r, a)

BlockTables == {"allowed_ips", "allowed_names", "blocked_ips", "blocked_names"}

\* A rule file of another client changes nothing for a client: no verdict
\* depends on the rows of groups that do not stand for it (readme.md:124-127).
OthersRulesAreInert ==
    phase = "ready" => \A c \in Clients :
        LET mine == [t \in BlockTables |->
                       Restrict(tables[t], {i \in DOMAIN tables[t] :
                                              \/ tables[t][i].group \in ForAllClients
                                              \/ c \in Covers[tables[t][i].group]})]
        IN  /\ \A n \in Names : block_names_ex(tables, c, n) = block_names_ex(mine, c, n)
            /\ \A a \in Ips : block_ips_ex(tables, c, a) = block_ips_ex(mine, c, a)

\* However a client spells a name, it gets the same verdict, and it is forwarded
\* or cloaked by some rule or by none.  (By which rule may depend on the
\* spelling: see Spelled.)
CaseBlind ==
    phase = "ready" => \A n \in Names :
        /\ \A c \in Clients :
             block_names_ex(tables, c, n) = block_names_ex(tables, c, Lower(n))
        /\ (forwarding_rules(tables, n) = <<>>)
             <=> (forwarding_rules(tables, Lower(n)) = <<>>)
        /\ (cloaking_rules(tables, n) = <<>>)
             <=> (cloaking_rules(tables, Lower(n)) = <<>>)

\* A name is forwarded by the most specific of its rules, whatever the order of
\* the files: the exact one, else its own, else the longest.
MostSpecificRoute ==
    phase = "ready" => \A n \in Names :
        LET found == Matching(tables.forwarding_rules, n)
            route == forwarding_rules(tables, n)
        IN  /\ route = <<>> <=> found = <<>>
            /\ route # <<>> =>
                 \A r \in Range(found) : route[1] # r =>
                     \/ route[1].exact
                     \/ ~r.exact /\ route[1].name = n
                     \/ ~r.exact /\ r.name # n /\ Len(route[1].name) >= Len(r.name)

\* Cloaking follows CNAME rules to their end: it answers with the rows of one
\* name, a name that is cloaked at all has an answer, and a CNAME among the rows
\* is one no rule resolves, unless the limit of 5 levels was reached or the rule
\* leads back to itself (readme.md:166).
ChainResolved ==
    phase = "ready" => \A n \in Names :
        LET rows == cloaking_rules_ex(tables, n)
        IN  /\ rows = <<>> <=> cloaking_rules(tables, n) = <<>>
            /\ \A r, q \in Range(rows) : r.exact = q.exact /\ r.name = q.name
            /\ CnameOf(rows) # <<>> =>
                 \/ cloaking_rules(tables, CnameOf(rows)[1].mapped) = <<>>
                 \/ Hops(tables, n)[MaxHops] # Hops(tables, n)[MaxHops - 1]
                 \/ cloaking_rules(tables, CnameOf(rows)[1].mapped) = Hops(tables, n)[MaxHops]

\* "`example.com` use prefix match, matches `example.com` and all its
\* subdomains, but not `1example.com`" (readme.md:116): a plain rule covers no
\* other names.
PlainRuleCoversItsSubdomains ==
    phase = "ready" => \A r \in Rows(tables.blocked_names), n \in Names :
        ~UsesGlob(r.name) =>
            (NameMatches(r, Lower(n)) <=> Covered(r, Lower(n)))

=============================================================================
