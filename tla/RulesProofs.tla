----------------------------- MODULE RulesProofs -----------------------------
(***************************************************************************)
(* Lemmas about the rule lookups, for all tables of rules, clients, names  *)
(* and addresses: when a lookup finds a row and which one.                 *)
(*                                                                         *)
(* The library's induction theorems take an operator as a parameter.  The  *)
(* principles that are used here instead are about sets of numbers, and    *)
(* rest on the well-foundedness of <.                                      *)
(***************************************************************************)
EXTENDS Rules, FiniteSetTheorems, WellFoundedInduction, TLAPS

-----------------------------------------------------------------------------
(* Numbers *)

\* A set of numbers that is not empty has a least one.
LEMMA LeastNumber ==
    ASSUME NEW T, T \subseteq Nat, T # {}
    PROVE  \E n \in T : \A m \in T : n <= m
<1> DEFINE R == OpToRel(<, Nat)
<1>1. IsWellFoundedOn(R, Nat)
    BY NatLessThanWellFounded
<1>2. \A m, n \in Nat : m < n => <<m, n>> \in R
    BY DEF OpToRel
<1> HIDE DEF R
<1>3. PICK n \in T : \A m \in T : ~(<<m, n>> \in R)
    BY <1>1, WFMin
<1>4. \A m \in T : ~(m < n)
    BY <1>2, <1>3
<1> QED BY <1>4

\* Induction over a set of numbers.
LEMMA Induction ==
    ASSUME NEW P, 0 \in P, \A n \in Nat : n \in P => n + 1 \in P
    PROVE  \A n \in Nat : n \in P
<1> SUFFICES ASSUME Nat \ P # {} PROVE FALSE
    OBVIOUS
<1>1. PICK n \in Nat \ P : \A m \in Nat \ P : n <= m
    BY LeastNumber
<1>2. n - 1 \in Nat /\ n - 1 < n
    BY <1>1
<1>3. n - 1 \in P
    BY <1>1, <1>2
<1> QED BY <1>2, <1>3

LEMMA MinFacts ==
    ASSUME NEW T, T \subseteq Nat, T # {}
    PROVE  Min(T) \in T /\ \A m \in T : Min(T) <= m
<1>1. PICK n \in T : \A m \in T : n <= m
    BY LeastNumber
<1> QED BY <1>1 DEF Min

\* A bounded set of numbers that is not empty has a greatest one.
LEMMA GreatestNumber ==
    ASSUME NEW T, T \subseteq Nat, T # {}, NEW b \in Nat, \A m \in T : m <= b
    PROVE  \E n \in T : \A m \in T : m <= n
<1> DEFINE gaps == {b - m : m \in T}
<1>1. gaps \subseteq Nat /\ gaps # {}
    <2>1. \A m \in T : b - m \in Nat
        OBVIOUS
    <2> QED BY <2>1
<1>2. PICK g \in gaps : \A m \in gaps : g <= m
    BY <1>1, LeastNumber
<1>3. PICK n \in T : g = b - n
    BY <1>2
<1>4. \A m \in T : b - n <= b - m
    BY <1>2, <1>3
<1>5. n \in Nat /\ \A m \in T : m \in Nat
    OBVIOUS
<1> QED BY <1>4, <1>5

\* The numbers f gives to 1 to n have a bound.
LEMMA Bounded ==
    ASSUME NEW f, NEW n \in Nat, \A i \in 1..n : f[i] \in Nat
    PROVE  \E b \in Nat : \A i \in 1..n : f[i] <= b
<1> DEFINE P == {k \in Nat : k <= n => \E b \in Nat : \A i \in 1..k : f[i] <= b}
<1>1. 0 \in P
    OBVIOUS
<1>2. ASSUME NEW k \in Nat, k \in P PROVE k + 1 \in P
    <2> SUFFICES ASSUME k + 1 <= n PROVE \E b \in Nat : \A i \in 1..(k + 1) : f[i] <= b
        OBVIOUS
    <2>1. PICK b \in Nat : \A i \in 1..k : f[i] <= b
        BY <1>2
    <2>2. f[k + 1] \in Nat /\ \A i \in 1..(k + 1) : f[i] \in Nat /\ (i \in 1..k \/ i = k + 1)
        OBVIOUS
    <2>3. b + f[k + 1] \in Nat /\ \A i \in 1..(k + 1) : f[i] <= b + f[k + 1]
        BY <2>1, <2>2
    <2> QED BY <2>3
<1> HIDE DEF P
<1>3. n \in P
    BY <1>1, <1>2, Induction
<1> QED BY <1>3 DEF P

-----------------------------------------------------------------------------
(* Sequences *)

\* Sequences of the same elements are the same.
LEMMA SameSequence ==
    ASSUME NEW S, NEW s \in Seq(S), NEW T, NEW t \in Seq(T),
           Len(s) = Len(t), \A i \in 1..Len(s) : s[i] = t[i]
    PROVE  s = t
<1>1. s \in [1..Len(s) -> S] /\ t \in [1..Len(t) -> T]
    OBVIOUS
<1> QED BY <1>1

\* Only the empty sequence has no length.
LEMMA LengthFacts ==
    ASSUME NEW S, NEW s \in Seq(S)
    PROVE  Len(s) \in Nat /\ (Len(s) = 0 => s = <<>>)
OBVIOUS

\* The labels of a suffix.
LEMMA SuffixFacts ==
    ASSUME NEW S, NEW name \in Seq(S), NEW k \in 1..Len(name)
    PROVE  /\ SubSeq(name, k, Len(name)) \in Seq(S)
           /\ Len(SubSeq(name, k, Len(name))) = Len(name) - k + 1
           /\ \A i \in 1..(Len(name) - k + 1) :
                SubSeq(name, k, Len(name))[i] = name[k + i - 1]
<1>1. Len(name) \in Nat /\ k \in Int /\ k >= 1 /\ k <= Len(name)
    OBVIOUS
<1>2. SubSeq(name, k, Len(name)) = [i \in 1..(Len(name) - k + 1) |-> name[k + i - 1]]
    BY <1>1
<1>3. \A i \in 1..(Len(name) - k + 1) : k + i - 1 \in 1..Len(name) /\ name[k + i - 1] \in S
    BY <1>1
<1>4. Len(name) - k + 1 \in Nat
    BY <1>1
<1> QED BY <1>2, <1>3, <1>4

-----------------------------------------------------------------------------
(* Which row is the first *)

LEMMA FirstFacts ==
    ASSUME NEW rows, NEW ids, ids \subseteq Nat
    PROVE  /\ First(rows, ids) = <<>> <=> ids = {}
           /\ ids # {} => First(rows, ids) = <<rows[Min(ids)]>> /\ Min(ids) \in ids
<1>1. ids # {} => First(rows, ids) = <<rows[Min(ids)]>> /\ Min(ids) \in ids
    BY MinFacts DEF First
<1> QED BY <1>1 DEF First

LEMMA RestrictFacts ==
    ASSUME NEW rows, NEW ids
    PROVE  /\ DOMAIN Restrict(rows, ids) = ids
           /\ \A i \in ids : Restrict(rows, ids)[i] = rows[i]
           /\ Restrict(rows, ids) = <<>> <=> ids = {}
<1>1. DOMAIN Restrict(rows, ids) = ids /\ \A i \in ids : Restrict(rows, ids)[i] = rows[i]
    BY DEF Restrict
<1>2. Restrict(rows, {}) = <<>>
    BY DEF Restrict
<1>3. DOMAIN <<>> = {}
    OBVIOUS
<1> QED BY <1>1, <1>2, <1>3

-----------------------------------------------------------------------------
(* When a lookup finds something *)

IsTable(rows) == DOMAIN rows \subseteq Nat

LEMMA MatchingFacts ==
    ASSUME NEW rows, NEW name
    PROVE  /\ DOMAIN Matching(rows, name) =
                {i \in DOMAIN rows : name # <<>> /\ NameMatches(rows[i], Lower(name))}
           /\ \A i \in DOMAIN Matching(rows, name) : Matching(rows, name)[i] = rows[i]
           /\ Matching(rows, name) = <<>> <=> DOMAIN Matching(rows, name) = {}
BY RestrictFacts DEF Matching

\* A name has a rule for a client if one for this client matches it.
LEMMA FindNameFinds ==
    ASSUME NEW rows, IsTable(rows), NEW client, NEW name
    PROVE  FindName(rows, client, name) # <<>> <=>
             \E i \in DOMAIN rows : /\ name # <<>>
                                    /\ NameMatches(rows[i], Lower(name))
                                    /\ ForClient(rows[i], client)
<1> DEFINE match == Matching(rows, name)
           found == Restrict(match, {i \in DOMAIN match : ForClient(match[i], client)})
           ids   == Rather(Exact(found), Rather(Spelled(found, name),
                      Rather(OfOwnGroup(found), DOMAIN found)))
<1>1. FindName(rows, client, name) = First(found, ids)
    BY DEF FindName
<1>2. DOMAIN found = {i \in DOMAIN rows : /\ name # <<>>
                                         /\ NameMatches(rows[i], Lower(name))
                                         /\ ForClient(rows[i], client)}
    <2>1. /\ DOMAIN match = {i \in DOMAIN rows : name # <<>> /\ NameMatches(rows[i], Lower(name))}
          /\ \A i \in DOMAIN match : match[i] = rows[i]
        BY MatchingFacts
    <2> HIDE DEF match
    <2>2. DOMAIN found = {i \in DOMAIN match : ForClient(match[i], client)}
        BY RestrictFacts
    <2> HIDE DEF found
    <2> QED BY <2>1, <2>2
<1> HIDE DEF found, match
<1>3. ids \subseteq DOMAIN found /\ (ids = {} <=> DOMAIN found = {})
    BY DEF Rather, Exact, Spelled, OfOwnGroup
<1> HIDE DEF ids
<1>4. ids \subseteq Nat
    BY <1>2, <1>3 DEF IsTable
<1> QED BY <1>1, <1>2, <1>3, <1>4, FirstFacts

\* The same of an address.
LEMMA FindIpFinds ==
    ASSUME NEW rows, IsTable(rows), NEW client, NEW ip
    PROVE  FindIp(rows, client, ip) # <<>> <=>
             \E i \in DOMAIN rows : ForClient(rows[i], client) /\ IpMatches(rows[i], ip)
<1> DEFINE found == Restrict(rows, {i \in DOMAIN rows : /\ ForClient(rows[i], client)
                                                       /\ IpMatches(rows[i], ip)})
           same  == {i \in DOMAIN found : found[i].ip = ip}
           ids   == Rather(same, Rather(OfOwnGroup(found), DOMAIN found))
<1>1. FindIp(rows, client, ip) = First(found, ids)
    BY DEF FindIp
<1>2. DOMAIN found = {i \in DOMAIN rows : /\ ForClient(rows[i], client)
                                         /\ IpMatches(rows[i], ip)}
    BY RestrictFacts
<1> HIDE DEF found
<1>3. ids \subseteq DOMAIN found /\ (ids = {} <=> DOMAIN found = {})
    BY DEF Rather, OfOwnGroup
<1> HIDE DEF ids
<1>4. ids \subseteq Nat
    BY <1>2, <1>3 DEF IsTable
<1> QED BY <1>1, <1>2, <1>3, <1>4, FirstFacts

LEMMA VerdictFacts ==
    ASSUME NEW allowed, NEW blocked
    PROVE  Verdict(allowed, blocked) = "blocked" <=> blocked # <<>> /\ allowed = <<>>
BY DEF Verdict

\* Two pairs of answers of which the same are empty have the same verdict.
LEMMA SameVerdict ==
    ASSUME NEW a, NEW b, NEW c, NEW d, a = <<>> <=> c = <<>>, b = <<>> <=> d = <<>>
    PROVE  Verdict(a, b) = Verdict(c, d)
BY DEF Verdict

\* Among the rows that match, the one that is preferred: an exact one, else one
\* as spelled, else none is longer.
LEMMA PreferredFacts ==
    ASSUME NEW found, NEW name, IsTable(found),
           DOMAIN found # {} => Longest(found) # {}
    PROVE  /\ Preferred(found, name) = <<>> <=> DOMAIN found = {}
           /\ DOMAIN found # {} =>
                \E i \in DOMAIN found :
                    /\ Preferred(found, name) = <<found[i]>>
                    /\ \/ i \in Exact(found)
                       \/ Exact(found) = {} /\ i \in Spelled(found, name)
                       \/ /\ Exact(found) = {} /\ Spelled(found, name) = {}
                          /\ i \in Longest(found)
<1> DEFINE ids == Rather(Exact(found), Rather(Spelled(found, name), Longest(found)))
<1>1. Preferred(found, name) = First(found, ids)
    BY DEF Preferred
<1>2. /\ Exact(found) \subseteq DOMAIN found
      /\ Spelled(found, name) \subseteq DOMAIN found
      /\ Longest(found) \subseteq DOMAIN found
    BY DEF Exact, Spelled, Longest
<1>3. ids \subseteq DOMAIN found /\ (ids = {} <=> DOMAIN found = {})
    BY <1>2 DEF Rather
<1>4. \A i \in ids : \/ i \in Exact(found)
                     \/ Exact(found) = {} /\ i \in Spelled(found, name)
                     \/ /\ Exact(found) = {} /\ Spelled(found, name) = {}
                        /\ i \in Longest(found)
    BY DEF Rather
<1> HIDE DEF ids
<1>5. ids \subseteq Nat
    BY <1>3 DEF IsTable
<1> QED BY <1>1, <1>3, <1>4, <1>5, FirstFacts

\* Some row is a longest one.
LEMMA LongestExists ==
    ASSUME NEW n \in Nat, NEW found, DOMAIN found \subseteq 1..n, DOMAIN found # {},
           \A i \in DOMAIN found : Len(found[i].name) \in Nat
    PROVE  Longest(found) # {}
<1> DEFINE lengths == {Len(found[i].name) : i \in DOMAIN found}
           f == [i \in 1..n |-> IF i \in DOMAIN found THEN Len(found[i].name) ELSE 0]
<1>1. PICK b \in Nat : \A i \in 1..n : f[i] <= b
    BY Bounded
<1>2. lengths \subseteq Nat /\ lengths # {} /\ \A m \in lengths : m <= b
    BY <1>1
<1>3. PICK m \in lengths : \A k \in lengths : k <= m
    BY <1>2, GreatestNumber
<1>4. PICK i \in DOMAIN found : m = Len(found[i].name)
    BY <1>3
<1>5. i \in Longest(found)
    BY <1>3, <1>4 DEF Longest
<1> QED BY <1>5

-----------------------------------------------------------------------------
(* Cloaking and its CNAME chains *)

IsHops(f, tables, name, n) ==
    f = [k \in 0..n |-> IF k = 0 THEN cloaking_rules(tables, name)
                                ELSE Followed(tables, f[k - 1])]

LEMMA HopsExist ==
    ASSUME NEW tables, NEW name
    PROVE  \A n \in Nat : \E f : IsHops(f, tables, name, n)
<1> DEFINE P == {n \in Nat : \E f : IsHops(f, tables, name, n)}
<1>1. 0 \in P
    <2>1. IsHops([k \in 0..0 |-> cloaking_rules(tables, name)], tables, name, 0)
        BY DEF IsHops
    <2> QED BY <2>1
<1>2. ASSUME NEW n \in Nat, n \in P PROVE n + 1 \in P
    <2>1. PICK f : IsHops(f, tables, name, n)
        BY <1>2
    <2> DEFINE g == [k \in 0..(n + 1) |-> IF k <= n THEN f[k] ELSE Followed(tables, f[n])]
    <2>2. \A k \in 0..(n + 1) : g[k] = IF k = 0 THEN cloaking_rules(tables, name)
                                               ELSE Followed(tables, g[k - 1])
        BY <2>1 DEF IsHops
    <2>3. IsHops(g, tables, name, n + 1)
        BY <2>2 DEF IsHops
    <2> QED BY <2>3
<1> HIDE DEF P
<1>3. \A n \in Nat : n \in P
    BY <1>1, <1>2, Induction
<1> QED BY <1>3 DEF P

LEMMA HopsFacts ==
    ASSUME NEW tables, NEW name
    PROVE  /\ Hops(tables, name)[0] = cloaking_rules(tables, name)
           /\ \A k \in 1..MaxHops :
                Hops(tables, name)[k] = Followed(tables, Hops(tables, name)[k - 1])
<1>1. \E f : IsHops(f, tables, name, MaxHops)
    BY HopsExist DEF MaxHops
<1>2. IsHops(Hops(tables, name), tables, name, MaxHops)
    BY <1>1 DEF Hops, IsHops
<1> HIDE DEF Hops
<1> QED BY <1>2 DEF IsHops, MaxHops

\* What cloaking finds are rows of a table that have one name.
OfOneRule(rows, n) ==
    /\ DOMAIN rows \subseteq 1..n
    /\ DOMAIN rows = {} => rows = <<>>
    /\ \A i, j \in DOMAIN rows : rows[i].exact = rows[j].exact /\ rows[i].name = rows[j].name

LEMMA CloakingFacts ==
    ASSUME NEW tables, NEW n \in Nat, DOMAIN tables.cloaking_rules \subseteq 1..n, NEW name
    PROVE  OfOneRule(cloaking_rules(tables, name), n)
<1> DEFINE found == Matching(tables.cloaking_rules, name)
           rule  == Preferred(found, name)
           ids   == {i \in DOMAIN found : /\ found[i].exact = rule[1].exact
                                         /\ found[i].name = rule[1].name}
<1>1. cloaking_rules(tables, name) = Restrict(found, ids)
    BY DEF cloaking_rules
<1>2. DOMAIN found \subseteq 1..n
    BY MatchingFacts
<1> HIDE DEF found, rule
<1>3. ids \subseteq 1..n /\ \A i, j \in ids : /\ found[i].exact = found[j].exact
                                            /\ found[i].name = found[j].name
    BY <1>2
<1> HIDE DEF ids
<1> DEFINE r == Restrict(found, ids)
<1>4. /\ DOMAIN r = ids /\ \A i \in ids : r[i] = found[i]
      /\ r = <<>> <=> ids = {}
    BY RestrictFacts
<1> HIDE DEF r
<1>5. OfOneRule(r, n)
    BY <1>3, <1>4 DEF OfOneRule
<1> QED BY <1>1, <1>5 DEF r

\* Following CNAMEs leads from one rule's rows to one rule's rows, and from none
\* to none.
LEMMA FollowedFacts ==
    ASSUME NEW tables, NEW n \in Nat, DOMAIN tables.cloaking_rules \subseteq 1..n,
           NEW rows, OfOneRule(rows, n)
    PROVE  /\ OfOneRule(Followed(tables, rows), n)
           /\ Followed(tables, rows) = <<>> <=> rows = <<>>
<1>1. rows = <<>> => CnameOf(rows) = <<>>
    BY DEF CnameOf, First
<1>2. \A m : OfOneRule(cloaking_rules(tables, m), n)
    BY CloakingFacts
<1> QED BY <1>1, <1>2 DEF Followed

LEMMA HopsAreRules ==
    ASSUME NEW tables, NEW n \in Nat, DOMAIN tables.cloaking_rules \subseteq 1..n, NEW name
    PROVE  /\ OfOneRule(Hops(tables, name)[MaxHops], n)
           /\ Hops(tables, name)[MaxHops] = <<>> <=> cloaking_rules(tables, name) = <<>>
<1> DEFINE hop == Hops(tables, name)
           P == {k \in Nat : k <= MaxHops => /\ OfOneRule(hop[k], n)
                                             /\ hop[k] = <<>> <=> hop[0] = <<>>}
<1>1. hop[0] = cloaking_rules(tables, name)
    BY HopsFacts
<1>2. \A k \in 1..MaxHops : hop[k] = Followed(tables, hop[k - 1])
    BY HopsFacts
<1> HIDE DEF hop
<1>3. 0 \in P
    BY <1>1, CloakingFacts
<1>4. ASSUME NEW k \in Nat, k \in P PROVE k + 1 \in P
    <2> SUFFICES ASSUME k + 1 <= MaxHops
                 PROVE  OfOneRule(hop[k + 1], n) /\ (hop[k + 1] = <<>> <=> hop[0] = <<>>)
        OBVIOUS
    <2>1. k + 1 \in 1..MaxHops /\ (k + 1) - 1 = k /\ k <= MaxHops
        BY DEF MaxHops
    <2>2. hop[k + 1] = Followed(tables, hop[k])
        BY <1>2, <2>1
    <2>3. OfOneRule(hop[k], n) /\ (hop[k] = <<>> <=> hop[0] = <<>>)
        BY <1>4, <2>1
    <2>4. /\ OfOneRule(Followed(tables, hop[k]), n)
          /\ Followed(tables, hop[k]) = <<>> <=> hop[k] = <<>>
        BY <2>3, FollowedFacts
    <2> QED BY <2>2, <2>3, <2>4
<1> HIDE DEF P
<1>5. MaxHops \in P
    BY <1>3, <1>4, Induction DEF MaxHops
<1> QED BY <1>1, <1>5 DEF P, hop, MaxHops

\* The first rows by id: with a row there are all before it, and some row if
\* there is one.
LEMMA TakeFacts ==
    ASSUME NEW rows, NEW n \in Nat, DOMAIN rows \subseteq 1..n, NEW k \in Nat \ {0}
    PROVE  /\ DOMAIN Take(rows, k) \subseteq DOMAIN rows
           /\ \A i \in DOMAIN Take(rows, k) :
                /\ Take(rows, k)[i] = rows[i]
                /\ \A j \in DOMAIN rows : j <= i => j \in DOMAIN Take(rows, k)
           /\ Take(rows, k) = <<>> <=> DOMAIN rows = {}
<1> DEFINE D == DOMAIN rows
           upto(i) == {j \in D : j <= i}
           ids == {i \in D : Cardinality(upto(i)) <= k}
<1>1. Take(rows, k) = Restrict(rows, ids)
    BY DEF Take
<1>2. \A i : IsFiniteSet(upto(i)) /\ Cardinality(upto(i)) \in Nat
    <2>1. IsFiniteSet(1..n)
        BY FS_Interval
    <2>2. \A i : upto(i) \in SUBSET (1..n)
        OBVIOUS
    <2> QED BY <2>1, <2>2, FS_Subset, FS_CardinalityType
<1>3. ASSUME NEW i \in ids, NEW j \in D, j <= i PROVE j \in ids
    <2>1. upto(j) \in SUBSET upto(i)
        BY <1>3
    <2>2. Cardinality(upto(j)) <= Cardinality(upto(i))
        BY <1>2, <2>1, FS_Subset
    <2> HIDE DEF upto
    <2> QED BY <1>2, <2>2
<1>4. D # {} => ids # {}
    <2> SUFFICES ASSUME D # {} PROVE ids # {}
        OBVIOUS
    <2>1. Min(D) \in D /\ \A m \in D : Min(D) <= m
        BY MinFacts
    <2>2. upto(Min(D)) = {Min(D)}
        BY <2>1
    <2>3. Cardinality(upto(Min(D))) = 1
        BY <2>2, FS_Singleton
    <2> HIDE DEF upto
    <2> QED BY <2>1, <2>3
<1> HIDE DEF upto, ids
<1>5. ids \subseteq D
    BY DEF ids
<1> QED BY <1>1, <1>3, <1>4, <1>5, RestrictFacts

\* A CNAME among the first rows is the first of all rows.
LEMMA TakeCname ==
    ASSUME NEW rows, NEW n \in Nat, DOMAIN rows \subseteq 1..n, NEW k \in Nat \ {0},
           CnameOf(Take(rows, k)) # <<>>
    PROVE  CnameOf(Take(rows, k)) = CnameOf(rows)
<1> DEFINE some == Take(rows, k)
           ids(r) == {i \in DOMAIN r : r[i].record_type = "CNAME"}
<1>1. /\ DOMAIN some \subseteq DOMAIN rows
      /\ \A i \in DOMAIN some : /\ some[i] = rows[i]
                                 /\ \A j \in DOMAIN rows : j <= i => j \in DOMAIN some
    BY TakeFacts
<1> HIDE DEF some
<1>2. ids(some) \subseteq Nat /\ ids(rows) \subseteq Nat /\ ids(some) \subseteq ids(rows)
    BY <1>1
<1>3. \A r : CnameOf(r) = First(r, ids(r))
    BY DEF CnameOf
<1>4. ids(some) # {}
    BY <1>2, <1>3, FirstFacts DEF some
<1>5. /\ Min(ids(some)) \in ids(some) /\ \A i \in ids(some) : Min(ids(some)) <= i
      /\ Min(ids(rows)) \in ids(rows) /\ \A i \in ids(rows) : Min(ids(rows)) <= i
    BY <1>2, <1>4, MinFacts
<1>6. Min(ids(rows)) \in ids(some)
    BY <1>1, <1>2, <1>5
<1>7. Min(ids(some)) = Min(ids(rows))
    <2>1. Min(ids(some)) \in Nat /\ Min(ids(rows)) \in Nat
        BY <1>2, <1>5
    <2>2. Min(ids(some)) <= Min(ids(rows)) /\ Min(ids(rows)) <= Min(ids(some))
        BY <1>2, <1>5, <1>6
    <2> HIDE DEF ids
    <2> QED BY <2>1, <2>2
<1>8. some[Min(ids(some))] = rows[Min(ids(rows))]
    BY <1>1, <1>5, <1>7
<1> HIDE DEF ids
<1>9. First(some, ids(some)) = First(rows, ids(rows))
    BY <1>2, <1>4, <1>8, FirstFacts
<1> QED BY <1>3, <1>9 DEF some

=============================================================================
