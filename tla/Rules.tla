-------------------------------- MODULE Rules --------------------------------
(***************************************************************************)
(* The rule lookups of TheDbJob: which rows of a rule table match a name   *)
(* or an address, which of the matching rows is preferred, and what the    *)
(* preferred rows decide.                                                  *)
(*                                                                         *)
(* A name is a sequence of labels, most specific first; a label stands for *)
(* a string of one character.  A rule's name may hold the labels "*" (at   *)
(* most once) and "?", which make it a GLOB pattern, and "_", which GLOB   *)
(* takes for itself and LIKE for any one character.  The leading "=" of an *)
(* exact rule is the field exact.  A table, and what a query finds in it,  *)
(* is a function from ids to rows; a sequence is one whose ids are 1 to n. *)
(*                                                                         *)
(* A client or an address is a value; Covers says which of them a group or *)
(* the ip of a rule stands for, as a glob or literally.                    *)
(***************************************************************************)
EXTENDS Integers, Sequences, FiniteSetsExt, Functions

CONSTANTS
    Fold,     \* str.lower(): a function from labels to labels
    Covers    \* a function from groups and ips of rules to sets of addresses

ASSUME FoldAssumption == \A l \in DOMAIN Fold : Fold[Fold[l]] = Fold[l]

Lower(name) == [i \in 1..Len(name) |-> Fold[name[i]]]

-----------------------------------------------------------------------------
(* Matching: the where clauses *)

UsesGlob(pattern) == \E i \in 1..Len(pattern) : pattern[i] \in {"*", "?"}

LabelGlob(label, p) == p \in {label, "?"}

\* name glob pattern.  A "*" between dots stands for one label or more.
Glob(name, pattern) ==
    LET stars == {i \in 1..Len(pattern) : pattern[i] = "*"}
    IN  \/ /\ stars = {}
           /\ Len(name) = Len(pattern)
           /\ \A i \in 1..Len(name) : LabelGlob(name[i], pattern[i])
        \/ \E k \in stars :
             /\ Len(name) >= Len(pattern)
             /\ \A i \in 1..(k - 1) : LabelGlob(name[i], pattern[i])
             /\ \A i \in (k + 1)..Len(pattern) :
                  LabelGlob(name[Len(name) - Len(pattern) + i], pattern[i])

\* name glob '*.' || pattern
GlobBelow(name, pattern) ==
    \E k \in 2..Len(name) : Glob(SubSeq(name, k, Len(name)), pattern)

\* name like '%.' || pattern
Like(name, pattern) ==
    /\ Len(name) > Len(pattern)
    /\ \A i \in 1..Len(pattern) :
         pattern[i] \in {name[Len(name) - Len(pattern) + i], "_"}

\* The condition on :name; an exact rule has no "*." form and "=" is never part
\* of a name, so that an exact rule with a glob matches nothing.
NameMatches(row, name) ==
    IF UsesGlob(row.name)
    THEN ~row.exact /\ (Glob(name, row.name) \/ GlobBelow(name, row.name))
    ELSE row.name = name \/ (~row.exact /\ Like(name, row.name))

ForAllClients == {"default", "temp"}

\* Mutant of ForClient: every group is for every client.
ForEveryClient(row, client) == TRUE

\* The condition on "group".
ForClient(row, client) ==
    row.group \in ForAllClients \/ client \in Covers[row.group]

IpMatches(row, ip) == ip \in Covers[row.ip]

-----------------------------------------------------------------------------
(* Preference: the first, by id, of the first set of rows that is not empty *)

First(rows, ids) == IF ids = {} THEN <<>> ELSE <<rows[Min(ids)]>>

Rather(ids, otherwise) == IF ids # {} THEN ids ELSE otherwise

Exact(rows) == {i \in DOMAIN rows : rows[i].exact}

\* row.name == name: compared with the name as the client spelled it.
Spelled(rows, name) == {i \in DOMAIN rows : ~rows[i].exact /\ rows[i].name = name}

OfOwnGroup(rows) == {i \in DOMAIN rows : rows[i].group \notin ForAllClients}

\* max(result, key=_max_len_by_name): the first of the longest.
Longest(rows) ==
    {i \in DOMAIN rows : \A j \in DOMAIN rows : Len(rows[j].name) <= Len(rows[i].name)}

-----------------------------------------------------------------------------
(* The lookups: at most one row, as a sequence, or the rows found *)

\* allowed_ips, blocked_ips
FindIp(rows, client, ip) ==
    LET found == Restrict(rows, {i \in DOMAIN rows : /\ ForClient(rows[i], client)
                                                     /\ IpMatches(rows[i], ip)})
        same  == {i \in DOMAIN found : found[i].ip = ip}
    IN  First(found, Rather(same, Rather(OfOwnGroup(found), DOMAIN found)))

\* Mutant of FindName: the name is not brought to lower case.
FindNameAsSpelled(rows, client, name) ==
    LET found == Restrict(rows, {i \in DOMAIN rows : /\ ForClient(rows[i], client)
                                                     /\ NameMatches(rows[i], name)})
    IN  First(found, Rather(Exact(found), Rather(Spelled(found, name),
                     Rather(OfOwnGroup(found), DOMAIN found))))

Matching(rows, name) ==
    Restrict(rows, {i \in DOMAIN rows : name # <<>> /\ NameMatches(rows[i], Lower(name))})

\* allowed_names, blocked_names
FindName(rows, client, name) ==
    LET match == Matching(rows, name)
        found == Restrict(match, {i \in DOMAIN match : ForClient(match[i], client)})
    IN  First(found, Rather(Exact(found), Rather(Spelled(found, name),
                     Rather(OfOwnGroup(found), DOMAIN found))))

\* Mutant of Verdict: the blocked rules first.
VerdictBlockedFirst(allowed, blocked) ==
    IF blocked # <<>> THEN "blocked" ELSE IF allowed # <<>> THEN "allowed" ELSE "none"

Verdict(allowed, blocked) ==
    IF allowed # <<>> THEN "allowed" ELSE IF blocked # <<>> THEN "blocked" ELSE "none"

block_ips_ex(tables, client, ip) ==
    Verdict(FindIp(tables.allowed_ips, client, ip),
            FindIp(tables.blocked_ips, client, ip))

block_names_ex(tables, client, name) ==
    Verdict(FindName(tables.allowed_names, client, name),
            FindName(tables.blocked_names, client, name))

\* Mutant of Preferred: the order of id decides.
PreferredFirst(found, name) == First(found, DOMAIN found)

\* The rule of all those that match: exact, or as spelled, or the longest.
Preferred(found, name) ==
    First(found, Rather(Exact(found), Rather(Spelled(found, name), Longest(found))))

forwarding_rules(tables, name) ==
    Preferred(Matching(tables.forwarding_rules, name), name)

\* Every row of the preferred rule's name, whatever its group.
cloaking_rules(tables, name) ==
    LET found == Matching(tables.cloaking_rules, name)
        rule  == Preferred(found, name)
    IN  Restrict(found, {i \in DOMAIN found : /\ found[i].exact = rule[1].exact
                                              /\ found[i].name = rule[1].name})

CnameOf(rows) == First(rows, {i \in DOMAIN rows : rows[i].record_type = "CNAME"})

MaxHops == 5
MaxRows == 5

Take(rows, n) ==
    Restrict(rows, {i \in DOMAIN rows : Cardinality({j \in DOMAIN rows : j <= i}) <= n})

\* The rows that the first CNAME among these leads to; a CNAME that no rule
\* resolves is not followed.
Followed(tables, rows) ==
    LET cname == CnameOf(rows)
        next  == IF cname = <<>> THEN <<>> ELSE cloaking_rules(tables, cname[1].mapped)
    IN  IF next = <<>> THEN rows ELSE next

\* The rows reached after following 0, 1, ... MaxHops CNAME rules from name.
Hops(tables, name) ==
    LET hop[k \in 0..MaxHops] ==
          IF k = 0 THEN cloaking_rules(tables, name) ELSE Followed(tables, hop[k - 1])
    IN  hop

\* Mutant of cloaking_rules_ex: the CNAME is followed once.
cloaking_rules_once(tables, name) == Take(Hops(tables, name)[1], MaxRows)

cloaking_rules_ex(tables, name) == Take(Hops(tables, name)[MaxHops], MaxRows)

=============================================================================
