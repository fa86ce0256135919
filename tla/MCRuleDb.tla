------------------------------- MODULE MCRuleDb -------------------------------
(***************************************************************************)
(* RuleDb for TLC.  A first start with any of many rule files, to ask      *)
(* about every name of up to three labels when it is up; then up to two    *)
(* more starts with others, to cut init_db short anywhere.                 *)
(***************************************************************************)
EXTENDS RuleDb

MCFold == [l \in {"a", "b", "A", "_", "*", "?", "d1", "d2"} |->
             IF l = "A" THEN "a" ELSE l]

\* Clients c1 and c2, the pattern c* for both; addresses 10.x.
MCCovers ==
    [p \in {"c1", "c2", "c*", "i1", "i2", "i*"} |->
       CASE p = "c*" -> {"c1", "c2"} [] p = "i*" -> {"i1", "i2"} [] OTHER -> {p}]

MCClients == {"c1", "c2"}
MCIps == {"i1", "i2"}

Labels == {"a", "b", "A"}
MCNames == {<<>>} \cup {<<x>> : x \in Labels}
             \cup (Labels \X Labels) \cup (Labels \X Labels \X Labels)
             \cup {<<"d1">>, <<"d2">>}

NameRow(group, exact, name) == [group |-> group, exact |-> exact, name |-> name]
Cloak(exact, name, type, mapped) ==
    [group |-> "default", exact |-> exact, name |-> name,
     record_type |-> type, mapped |-> mapped]

\* No row, one row, or two different rows of a set, in either order.
UpTo1(S) == {<<>>} \cup {<<r>> : r \in S}
UpTo2(S) == UpTo1(S) \cup (S \X S)

-----------------------------------------------------------------------------
(* Rule files to look names up in *)

RuleNames == {<<"a">>, <<"b">>, <<"a", "b">>, <<"*">>, <<"*", "b">>,
              <<"a", "*">>, <<"?">>, <<"?", "b">>}

BlockRows ==
    {NameRow(g, FALSE, n) : g \in {"default", "c1", "c*"}, n \in RuleNames}
      \cup {NameRow("temp", TRUE, n) : n \in {<<"b">>, <<"a", "b">>, <<"*", "b">>}}

IpRows == {[group |-> g, ip |-> p] : g \in {"default", "c1", "c*"}, p \in {"i1", "i*"}}

BlockingRules ==
    {[Empty EXCEPT !.allowed_names = a, !.blocked_names = b] :
        a \in UpTo1(BlockRows), b \in UpTo1(BlockRows)}
      \cup {[Empty EXCEPT !.allowed_ips = a, !.blocked_ips = b] :
        a \in UpTo1(IpRows), b \in UpTo2(IpRows)}

ForwardRows ==
    {NameRow("g1", FALSE, n) : n \in RuleNames}
      \cup {NameRow("g2", FALSE, n) : n \in {<<"b">>, <<"a", "b">>, <<"?", "b">>}}
      \cup {NameRow("g2", TRUE, n) : n \in {<<"b">>, <<"a", "b">>}}

ForwardingRules ==
    {[Empty EXCEPT !.forwarding_rules = f] : f \in UpTo2(ForwardRows)}

CloakRows ==
    { Cloak(FALSE, <<"a">>, "CNAME", <<"b">>),
      Cloak(TRUE, <<"b">>, "A", <<"i1">>),
      Cloak(FALSE, <<"b">>, "CNAME", <<"a", "b">>),
      Cloak(FALSE, <<"*", "b">>, "AAAA", <<"i2">>),
      Cloak(FALSE, <<"b">>, "CNAME", <<"a">>) }

\* A chain of CNAMEs longer than the limit.
Long == [i \in 1..8 |-> Cloak(FALSE,
            CASE i = 1 -> <<"a">> [] i = 2 -> <<"b">> [] i = 3 -> <<"a", "a">>
              [] i = 4 -> <<"b", "a">> [] i = 5 -> <<"a", "b">> [] i = 6 -> <<"b", "b">>
              [] i = 7 -> <<"d1">> [] i = 8 -> <<"d2">>,
            IF i = 8 THEN "A" ELSE "CNAME",
            CASE i = 1 -> <<"b">> [] i = 2 -> <<"a", "a">> [] i = 3 -> <<"b", "a">>
              [] i = 4 -> <<"a", "b">> [] i = 5 -> <<"b", "b">> [] i = 6 -> <<"d1">>
              [] i = 7 -> <<"d2">> [] i = 8 -> <<"i1">>)]

CloakingRules ==
    {[Empty EXCEPT !.cloaking_rules = f] :
        f \in UpTo1(CloakRows) \cup (CloakRows \X CloakRows)
                \cup (CloakRows \X CloakRows \X CloakRows) \cup {Long}}

LookupRules == BlockingRules \cup ForwardingRules \cup CloakingRules

-----------------------------------------------------------------------------
(* Rule files to start again with *)

\* Rule files with a rule given twice, in one file or in two of a group.
StartRules ==
    { Empty,
      [Empty EXCEPT !.blocked_names = <<NameRow("default", FALSE, <<"a">>),
                                        NameRow("default", FALSE, <<"b">>),
                                        NameRow("default", FALSE, <<"a">>)>>,
                    !.allowed_names = <<NameRow("c1", FALSE, <<"b">>)>>,
                    !.forwarding_rules = <<NameRow("g1", FALSE, <<"b">>)>>],
      [Empty EXCEPT !.allowed_ips = <<[group |-> "default", ip |-> "i1"]>>,
                    !.cloaking_rules = <<Cloak(FALSE, <<"a">>, "CNAME", <<"b">>),
                                         Cloak(FALSE, <<"a">>, "CNAME", <<"b">>),
                                         Cloak(TRUE, <<"b">>, "A", <<"i1">>)>>] }

FirstFiles == LookupRules \cup StartRules

\* A rule with a label "_", as in _tcp or _dmarc.
UnderscoreRules ==
    {[Empty EXCEPT !.blocked_names = <<NameRow("default", FALSE, <<"_", "b">>)>>]}

=============================================================================
