------------------------------- MODULE Config -------------------------------
(***************************************************************************)
(* From config.json and the rule files to what the server works with:      *)
(* parse_config_from_object in its stages, each of which may raise, then   *)
(* read_dns_server_rules, table by table.  An object of the JSON text is   *)
(* a sequence of entries [key, value] with different keys, in their order. *)
(***************************************************************************)
EXTENDS RuleFiles

CONSTANTS
    Objects,     \* the objects config.json may hold
    Texts,       \* what the data directory may hold: functions from files to texts
    TxtFiles,    \* the file names that end with ".txt"
    Protocols    \* the values of DnsServerUpstreamProtocol

ASSUME ObjectsAssumption == \A o \in Objects : o.upstream \in Seq(ToSet(o.upstream))

ASSUME TextsAssumption ==
    \A t \in Texts : \A f \in DOMAIN t : t[f] \in Seq(Seq(DOMAIN Rank))

Tables == <<"allowed_ips", "allowed_names", "blocked_ips", "blocked_names",
            "cloaking_rules", "forwarding_rules">>
TableSet == ToSet(Tables)

VARIABLES
    object,    \* o
    texts,     \* the files of the data directory
    phase,     \* the stage
    at,        \* the entry or the table the stage is at
    upstream,  \* upstream_server: a function from keys
    default,   \* default_server_list
    rules,     \* dns_server_rules2: for a table the groups with their files
    rows,      \* DnsServerRules: the rows of a table
    error      \* the exception that ended it

given == <<object, texts>>
config == <<upstream, default, rules>>
vars == <<given, phase, at, config, rows, error>>

NoConfig == [key \in {} |-> {}]
NoRows == [t \in TableSet |-> <<>>]

Init ==
    /\ object \in Objects
    /\ texts \in Texts
    /\ phase = "sections"
    /\ at = 1
    /\ upstream = NoConfig
    /\ default = <<>>
    /\ rules = NoRows
    /\ rows = NoRows
    /\ error = "none"

\* Mutant of Raise: the exception is reported and the stage goes on.
RaiseReported(kind) ==
    /\ error' = kind
    /\ at' = at + 1
    /\ UNCHANGED <<phase, config, rows>>

Raise(kind) ==
    /\ error' = kind
    /\ phase' = "failed"
    /\ UNCHANGED <<at, config, rows>>

Goto(stage) == phase' = stage /\ at' = 1 /\ UNCHANGED error

-----------------------------------------------------------------------------
(* The upstream servers *)

\* "upstream" and "rules" are objects, or are not there and then empty ones.
CheckSections ==
    /\ phase = "sections"
    /\ IF object.sections = "wrong"
       THEN Raise("ValueError")
       ELSE Goto("upstream") /\ UNCHANGED <<config, rows>>
    /\ UNCHANGED given

\* The addresses of an entry, of which a handler takes any; an object without
\* "ip" has none to look at.
AddressesOf(value) == IF value.form = "other" THEN {} ELSE ToSet(value.ip)

Usable(value) ==
    /\ value.form \in {"list", "object"}
    /\ AddressesOf(value) # {}
    /\ AddressesOf(value) \subseteq Ipv4 \cup Ipv6
    /\ value.form = "object" => value.preferred_protocol \in Protocols \cup {"unset"}

NoIpKey(value) == value.form = "object" /\ value.ip = <<"no key">>

Server(value) ==
    [ipv4 |-> AddressesOf(value) \cap Ipv4, ipv6 |-> AddressesOf(value) \cap Ipv6,
     preferred_protocol |-> IF value.form = "object" THEN value.preferred_protocol
                                                      ELSE "unset"]

ReadUpstream ==
    /\ phase = "upstream"
    /\ at <= Len(object.upstream)
    /\ LET entry == object.upstream[at]
       IN  IF NoIpKey(entry.value) THEN Raise("KeyError")
           ELSE IF ~Usable(entry.value) THEN Raise("ValueError")
           ELSE /\ upstream' = [k \in DOMAIN upstream \cup {entry.key} |->
                                  IF k = entry.key THEN Server(entry.value)
                                                   ELSE upstream[k]]
                /\ at' = at + 1
                /\ UNCHANGED <<phase, default, rules, rows, error>>
    /\ UNCHANGED given

NoMoreUpstream ==
    /\ phase = "upstream"
    /\ at > Len(object.upstream)
    /\ IF upstream = NoConfig
       THEN Raise("ValueError")
       ELSE Goto("default") /\ UNCHANGED <<config, rows>>
    /\ UNCHANGED given

\* A member of "default" that can be no key, such as a list; alone, a "default" that
\* is no list, nor a string or an object, of which the members would be taken.
NoKey == "[]"

\* Mutant of ReadDefault: servers that do not exist are taken too.
ReadDefaultUnchecked ==
    /\ phase = "default"
    /\ IF object.default = <<>>
       THEN Raise("ValueError")
       ELSE default' = object.default /\ Goto("rules") /\ UNCHANGED <<upstream, rules, rows>>
    /\ UNCHANGED given

ReadDefault ==
    /\ phase = "default"
    /\ LET unknown == {i \in DOMAIN object.default : object.default[i] \notin DOMAIN upstream}
       IN  IF unknown # {}
           THEN Raise(IF object.default[Min(unknown)] = NoKey THEN "TypeError" ELSE "ValueError")
           ELSE IF object.default = <<>> THEN Raise("ValueError")
           ELSE default' = object.default /\ Goto("rules") /\ UNCHANGED <<upstream, rules, rows>>
    /\ UNCHANGED given

-----------------------------------------------------------------------------
(* The rule files and their groups *)

\* A name, a list of names, or an object of names and lists.
Groups(item) ==
    CASE item.form = "none"   -> <<>>
      [] item.form = "files"  -> <<[key |-> "default", value |-> item.files]>>
      [] item.form = "object" -> item.groups
      [] OTHER                -> <<[key |-> "", value |-> <<>>]>>

\* Entries and lists of files have an order.
Listed(groups) ==
    /\ groups \in Seq(ToSet(groups))
    /\ \A i \in DOMAIN groups : groups[i].value \in Seq(ToSet(groups[i].value))

ASSUME GroupsAssumption == \A o \in Objects : \A t \in TableSet : Listed(Groups(o.rules[t]))

WellFormed(groups) ==
    \A i \in DOMAIN groups :
        /\ groups[i].key # ""
        /\ groups[i].value # <<>>
        /\ ToSet(groups[i].value) \subseteq TxtFiles

ReadRules ==
    /\ phase = "rules"
    /\ at <= Len(Tables)
    /\ LET groups == Groups(object.rules[Tables[at]])
       IN  IF WellFormed(groups)
           THEN /\ rules' = [rules EXCEPT ![Tables[at]] = groups]
                /\ at' = at + 1
                /\ UNCHANGED <<phase, upstream, default, rows, error>>
           ELSE Raise("ValueError")
    /\ UNCHANGED given

\* Asked here and once more before the files are read, to the same effect.
CheckForwarding ==
    /\ phase = "rules"
    /\ at > Len(Tables)
    /\ IF \A i \in DOMAIN rules.forwarding_rules :
            rules.forwarding_rules[i].key \in DOMAIN upstream
       THEN Goto("read") /\ UNCHANGED <<config, rows>>
       ELSE Raise("ValueError")
    /\ UNCHANGED given

-----------------------------------------------------------------------------
(* Reading the files: a missing one is reported and has no rows *)

RowsOf(table, group, file) ==
    IF file \notin DOMAIN texts THEN <<>>
    ELSE IF table = "cloaking_rules" THEN CloakingRows(group, texts[file])
    ELSE NameRows(group, texts[file])

read_file1(table) ==
    FlattenSeq([i \in DOMAIN rules[table] |->
        LET group == rules[table][i]
        IN  FlattenSeq([k \in DOMAIN group.value |->
                          RowsOf(table, group.key, group.value[k])])])

ReadTable ==
    /\ phase = "read"
    /\ rows' = [rows EXCEPT ![Tables[at]] = read_file1(Tables[at])]
    /\ IF at < Len(Tables)
       THEN at' = at + 1 /\ UNCHANGED <<phase, error>>
       ELSE Goto("ready")
    /\ UNCHANGED <<given, config>>

\* A file that is there cannot be read, or is not the text of the locale's
\* encoding (a ValueError): what was read so far goes with the exception.
ReadFails ==
    /\ phase = "read"
    /\ \E i \in DOMAIN rules[Tables[at]] :
          ToSet(rules[Tables[at]][i].value) \cap DOMAIN texts # {}
    /\ phase' = "failed"
    /\ error' \in {"OSError", "ValueError"}
    /\ rows' = NoRows
    /\ UNCHANGED <<given, at, config>>

Next ==
    \/ CheckSections \/ ReadUpstream \/ NoMoreUpstream \/ ReadDefault
    \/ ReadRules \/ CheckForwarding \/ ReadTable \/ ReadFails

Spec == Init /\ [][Next]_vars

-----------------------------------------------------------------------------
(* Properties *)

Parsed == phase \in {"read", "ready"}

\* Every variable keeps to its type: what a stage has read is there, and it
\* ends with rows or with an exception and none.
TypeOK ==
    /\ object \in Objects
    /\ texts \in Texts
    /\ phase \in {"sections", "upstream", "default", "rules", "read", "ready", "failed"}
    /\ at \in 1..(Len(object.upstream) + Len(Tables) + 1)
    /\ DOMAIN upstream \subseteq {object.upstream[i].key : i \in DOMAIN object.upstream}
    /\ DOMAIN rules = TableSet
    /\ DOMAIN rows = TableSet
    /\ ~Parsed => rows = NoRows
    /\ error \in {"none", "ValueError", "KeyError", "TypeError", "OSError"}
    /\ phase = "failed" <=> error # "none"

DefaultsResolve == default # <<>> /\ ToSet(default) \subseteq DOMAIN upstream

ForwardingResolves ==
    \A i \in DOMAIN rules.forwarding_rules :
        rules.forwarding_rules[i].key \in DOMAIN upstream

ServersReachable == \A k \in DOMAIN upstream : upstream[k].ipv4 \cup upstream[k].ipv6 # {}

\* Whatever a handler looks up in the configuration is there: some default
\* server, a server for every default and every group of forwarding rules, and
\* an address of some family for every server (threading_server.py:276).
ConfigUsable ==
    Parsed =>
        /\ DefaultsResolve
        /\ ForwardingResolves
        /\ ServersReachable

NameTables == TableSet \ {"cloaking_rules"}

\* The lines of a table's files, with the group each is for.
LinesOf(table) ==
    UNION {UNION {{[group |-> rules[table][i].key, line |-> line] :
                     line \in IF f \in DOMAIN texts THEN ToSet(texts[f]) ELSE {}} :
                  f \in ToSet(rules[table][i].value)} :
           i \in DOMAIN rules[table]}

\* What a line says, if it says one word: there is white space around it, and
\* behind that nothing or a comment.
Said(line) ==
    {SubSeq(line, p[1], p[2]) : p \in
       {p \in (1..Len(line)) \X (1..Len(line)) :
          /\ p[1] <= p[2]
          /\ line[p[1]] \notin White /\ line[p[2]] \notin White
          /\ \A k \in p[1]..p[2] : line[k] \notin {Blank, "#"}
          /\ \A k \in 1..(p[1] - 1) : line[k] \in White
          /\ \E m \in (p[2] + 1)..(Len(line) + 1) :
               /\ m <= Len(line) => line[m] = "#"
               /\ \A k \in (p[2] + 1)..(m - 1) : line[k] \in White}}

\* Line for line, the name and address tables hold what the files say: a row for
\* each line that is one word but for its comment, in lower case and for the
\* group of its file, and no other row (readme.md:114-115).
RowsAsWritten ==
    phase = "ready" => \A t \in NameTables :
        {[group |-> r.group, name |-> r.name] : r \in ToSet(rows[t])}
          = UNION {{[group |-> l.group, name |-> Lower(w)] : w \in Said(l.line)} :
                   l \in LinesOf(t)}

Reordered(text) ==
    {[i \in DOMAIN text |-> text[p[i]]] : p \in Bijection(DOMAIN text, DOMAIN text)}

\* The order of the lines of a file and lines written twice change neither the
\* rows nor their order, by which lookups choose between rules.
LineOrderIsInert ==
    phase = "ready" => \A f \in DOMAIN texts :
        \A text \in Reordered(texts[f]) \cup {texts[f] \o texts[f]} :
            /\ NameRows("default", text) = NameRows("default", texts[f])
            /\ CloakingRows("default", text) = CloakingRows("default", texts[f])

\* Nor does it matter to the rules how a name is spelled in a file.  (To their
\* order it does: lines are sorted before they are brought to lower case.)
SpellingIsInert ==
    phase = "ready" => \A f \in DOMAIN texts :
        LET lower == [i \in DOMAIN texts[f] |-> Lower(texts[f][i])]
        IN  /\ ToSet(NameRows("default", lower)) = ToSet(NameRows("default", texts[f]))
            /\ CloakingRows("default", lower) = CloakingRows("default", texts[f])

\* What a line says, if it says two words: white space with a blank in it is
\* between them, and behind them nothing or a comment.
SaidTwo(line) ==
    {<<SubSeq(line, p[1], p[2]), SubSeq(line, p[3], p[4])>> : p \in
       {p \in [1..4 -> 1..Len(line)] :
          /\ p[1] <= p[2] /\ p[2] < p[3] /\ p[3] <= p[4]
          /\ \A i \in 1..4 : line[p[i]] \notin White
          /\ \A k \in (p[1]..p[2]) \cup (p[3]..p[4]) : line[k] \notin {Blank, "#"}
          /\ \A k \in (1..(p[1] - 1)) \cup ((p[2] + 1)..(p[3] - 1)) : line[k] \in White
          /\ \E k \in (p[2] + 1)..(p[3] - 1) : line[k] = Blank
          /\ \E m \in (p[4] + 1)..(Len(line) + 1) :
               /\ m <= Len(line) => line[m] = "#"
               /\ \A k \in (p[4] + 1)..(m - 1) : line[k] \in White}}

\* Line for line, the cloaking table holds what the files say: a row for each line
\* of two words that are not the same name and of which the second is no pattern,
\* in lower case and for the group of its file, and no other row.  (A name may
\* still come to be cloaked by itself: "=a a" and "a x.a" are two names.)
CloakingAsWritten ==
    phase = "ready" =>
        {[group |-> r.group, name |-> r.name, mapped |-> r.mapped] :
           r \in ToSet(rows.cloaking_rules)}
          = UNION {{[group |-> l.group, name |-> Lower(w[1]), mapped |-> Lower(w[2])] :
                      w \in {v \in SaidTwo(l.line) :
                               Lower(v[1]) # Lower(v[2]) /\ ~UsesGlob(v[2])}} :
                   l \in LinesOf("cloaking_rules")}

=============================================================================
