--------------------------- MODULE MCRequestHandler ---------------------------
(***************************************************************************)
(* RequestHandler for TLC: every kind of request, configurations with one  *)
(* or two default servers of which some have no address of a family, rule  *)
(* tables that combine a rule about names, one about addresses and one     *)
(* about servers, and upstream answers with and without CNAMEs, blocked    *)
(* addresses, or an error, with the question or without.                   *)
(***************************************************************************)
EXTENDS RequestHandler

A == <<"a">>
B == <<"b">>

MCFold == [l \in {"a", "b", "?!"} |-> l]
MCCovers == [p \in {"c1", "i1", "i2"} |-> {p}]

MCRequests ==
    [client : {"c1", "c2"}, family : {"ipv4"}, opcode : {"QUERY"}, qname : {A},
     qtype : {"A", "AAAA", "MX", "ANY"}]
      \cup [client : {"c1"}, family : {"ipv6"}, opcode : {"QUERY", "OTHER"},
            qname : {A, NoName}, qtype : {"A"}]

\* u1 has only an IPv4 address, u3 only an IPv6 address.
Families == [u \in {"u1", "u2", "u3"} |->
               CASE u = "u1" -> {"ipv4"} [] u = "u2" -> {"ipv4", "ipv6"}
                 [] u = "u3" -> {"ipv6"}]

MCConfigs == [ipv6 : BOOLEAN, families : {Families},
              default : {<<"u3">>, <<"u1", "u2">>, <<"u3", "u2", "u1">>}]

Named(group, name) == [group |-> group, exact |-> FALSE, name |-> name]
Ip(group, ip) == [group |-> group, ip |-> ip]
Cloak(name, type, mapped) ==
    [group |-> "default", exact |-> FALSE, name |-> name, record_type |-> type,
     mapped |-> mapped]

NameRules ==
    { [allowed |-> <<>>, blocked |-> <<>>, cloak |-> <<>>],
      [allowed |-> <<>>, blocked |-> <<Named("c1", A)>>, cloak |-> <<>>],
      [allowed |-> <<>>, blocked |-> <<>>, cloak |-> <<Cloak(A, "CNAME", B)>>],
      [allowed |-> <<Named("c1", B)>>, blocked |-> <<Named("default", B)>>,
       cloak |-> <<Cloak(A, "CNAME", B)>>],
      [allowed |-> <<>>, blocked |-> <<Named("default", B)>>,
       cloak |-> <<Cloak(A, "CNAME", B), Cloak(B, "A", <<"i1">>), Cloak(B, "A", <<"i2">>)>>] }

IpRules ==
    { [allowed |-> <<>>, blocked |-> <<>>],
      [allowed |-> <<>>, blocked |-> <<Ip("default", "i1")>>],
      [allowed |-> <<Ip("c1", "i2")>>, blocked |-> <<Ip("temp", "i1"), Ip("default", "i2")>>] }

MCRuleTables ==
    { [allowed_names |-> n.allowed, blocked_names |-> n.blocked,
       cloaking_rules |-> n.cloak, allowed_ips |-> p.allowed,
       blocked_ips |-> p.blocked, forwarding_rules |-> f] :
        n \in NameRules, p \in IpRules,
        f \in {<<>>, <<Named("u2", A)>>, <<Named("u3", B)>>} }

Reply(name, rcode, answer, additional) ==
    [rcode |-> rcode, qname |-> name, answer |-> answer, additional |-> additional]

MCReplies(name, type) ==
    IF type = "MX"
    THEN { Reply(name, "NOERROR", {RRset(name, "MX", {"mail"})}, {"i1"}) }
    ELSE { Reply(name, "NXDOMAIN", {}, {}),
           Reply(name, "REFUSED", {}, {}),
           Reply(NoName, "FORMERR", {}, {}),
           Reply(name, "NOERROR", {}, {"i1"}),
           Reply(name, "NOERROR", {RRset(name, type, {"i1"})}, {}),
           Reply(name, "NOERROR", {RRset(name, type, {"i1"}), RRset(name, "RRSIG", {"s"})}, {}),
           Reply(name, "NOERROR", {RRset(name, type, {"i1", "i2"})}, {}),
           Reply(name, "NOERROR", {RRset(name, "CNAME", {"t"})}, {}),
           Reply(name, "NOERROR", {RRset(name, "CNAME", {"t"}),
                                   RRset(<<"t">>, type, {"i1"})}, {"i2"}),
           Reply(<<"t">>, "NOERROR", {RRset(<<"t">>, type, {"i2"})}, {}) }

=============================================================================
