------------------------------ MODULE MCConfig ------------------------------
(***************************************************************************)
(* Config for TLC: one good config.json with every form a value may have   *)
(* and the one used when there is none, each stage's faults, and every     *)
(* file of up to two lines out of fourteen, read as names and as cloaking  *)
(* rules.                                                                  *)
(***************************************************************************)
EXTENDS Config

\* "a" and "b" are names, "4" and "6" addresses.
Tokens == <<"\t", " ", "#", "*", "4", "6", "=", "A", "a", "b">>

MCRank == [t \in ToSet(Tokens) |-> CHOOSE i \in DOMAIN Tokens : Tokens[i] = t]
MCFold == [t \in ToSet(Tokens) |-> IF t = "A" THEN "a" ELSE t]
MCCovers == [t \in {} |-> {}]

-----------------------------------------------------------------------------
(* config.json *)

Entry(key, value) == [key |-> key, value |-> value]
List(ip) == [form |-> "list", ip |-> ip]
Object(ip, protocol) == [form |-> "object", ip |-> ip, preferred_protocol |-> protocol]
Files(files) == [form |-> "files", files |-> files]
Grouped(groups) == [form |-> "object", groups |-> groups]

NoRules == [t \in TableSet |-> [form |-> "none"]]

Good ==
    [sections |-> "right",
     default |-> <<"google", "quad9", "google">>,
     upstream |-> <<Entry("quad9", List(<<"4", "6">>)), Entry("google", Object(<<"6">>, "udp"))>>,
     rules |-> [NoRules EXCEPT
       !.allowed_ips = Files(<<"f1">>),
       !.blocked_names = Grouped(<<Entry("default", <<"f1">>), Entry("c1", <<"f2", "f1">>)>>),
       !.cloaking_rules = Files(<<"f2", "f1">>),
       !.forwarding_rules = Grouped(<<Entry("google", <<"f2">>)>>)]]

\* Of the forms __default_config_object__ has.
Default ==
    [Good EXCEPT !.default = <<"quad9">>, !.rules.forwarding_rules = Grouped(<<>>)]

Faulty ==
    {[Good EXCEPT !.sections = "wrong"], [Good EXCEPT !.upstream = <<>>],
     [Good EXCEPT !.default = <<>>], [Good EXCEPT !.default = <<"google", "cloudflare">>],
     [Good EXCEPT !.default = <<"google", NoKey>>], [Good EXCEPT !.default = <<"adguard", NoKey>>]}
      \cup {[Good EXCEPT !.upstream[2].value = v] :
              v \in {List(<<>>), List(<<"4", "a">>), Object(<<"no key">>, "udp"),
                     Object(<<>>, "udp"), Object(<<"4">>, "quic"), [form |-> "other"]}}
      \cup {[Good EXCEPT !.rules.blocked_names = i] :
              i \in {[form |-> "other"], Files(<<>>), Files(<<"f1", "notes">>),
                     Grouped(<<Entry("", <<"f1">>)>>)}}
      \cup {[Good EXCEPT !.rules.forwarding_rules = i] :
              i \in {Files(<<"f1">>), Grouped(<<Entry("google", <<"f1">>),
                                                Entry("adguard", <<"f2">>)>>)}}

MCObjects == {Good, Default} \cup Faulty
MCTxtFiles == {"f1", "f2"}
MCProtocols == {"udp", "tcp", "https", "tls"}
MCIpv4 == {"4"}
MCIpv6 == {"6"}

-----------------------------------------------------------------------------
(* The files *)

Lines ==
    {<<>>, <<"a">>, <<"A">>, <<" ", "b", "\t">>, <<"#", "a">>, <<"a", " ", "#", " ", "b">>,
     <<"*">>, <<"b", " ", "a">>, <<"a", " ", "A">>, <<"A", " ", " ", "4">>,
     <<"*", " ", "6", "#">>, <<"b", " ", "*">>, <<"a", "\t", "4">>,
     <<"=", "a", " ", "A">>}

UpTo2(S) == UNION {[1..n -> S] : n \in 0..2}

\* The second file holds two lines, or there is none.
MCTexts ==
    {[f \in {"f1", "f2"} |-> IF f = "f1" THEN text ELSE <<<<"A">>, <<"b", " ", "A">>>>] :
       text \in UpTo2(Lines)}
      \cup [{"f1"} -> UpTo2(Lines)]

=============================================================================
