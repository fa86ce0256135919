----------------------------- MODULE ConfigProofs -----------------------------
(***************************************************************************)
(* What reading the configuration guarantees, whatever config.json and the *)
(* rule files hold: every server that is named anywhere is there and has   *)
(* an address, and the rules are those the files say, in any order of      *)
(* their lines and however names are spelled in them.                      *)
(*                                                                         *)
(* What is left of a line is known by its ends: Ends(line, a, b) says that *)
(* it is what is from a to b.  Lines, rows and words are put in order by   *)
(* total orders, of which SortedFacts says what Sorted makes.              *)
(***************************************************************************)
EXTENDS Config, RulesProofs

USE DEF given, config

\* What the stages behind have checked.
Checked ==
    /\ phase \in {"sections", "upstream", "default", "rules", "read", "ready", "failed"}
    /\ phase \in {"rules", "read", "ready"} => DefaultsResolve
    /\ Parsed => ForwardingResolves
    /\ ServersReachable

LEMMA InitChecked == Init => Checked
BY DEF Init, Checked, Parsed, ServersReachable, NoConfig

LEMMA StepChecked == ASSUME Checked, Next PROVE Checked'
<1> USE DEF Checked, Parsed, DefaultsResolve, ForwardingResolves, ServersReachable,
            Raise, Goto
<1>1. CASE CheckSections
    BY <1>1 DEF CheckSections
<1>2. CASE ReadUpstream
    <2> DEFINE entry == object.upstream[at]
    <2>1. phase = "upstream" /\ phase' \in {"upstream", "failed"}
        BY <1>2 DEF ReadUpstream
    <2>2. \/ upstream' = upstream
          \/ /\ Usable(entry.value)
             /\ upstream' = [k \in DOMAIN upstream \cup {entry.key} |->
                               IF k = entry.key THEN Server(entry.value) ELSE upstream[k]]
        BY <1>2 DEF ReadUpstream
    <2>3. Usable(entry.value) =>
            Server(entry.value).ipv4 \cup Server(entry.value).ipv6 # {}
        BY DEF Usable, Server
    <2> HIDE DEF entry
    <2>4. ServersReachable'
        BY <2>2, <2>3
    <2> QED BY <2>1, <2>4
<1>3. CASE NoMoreUpstream
    <2>1. phase = "upstream" /\ phase' \in {"default", "failed"} /\ upstream' = upstream
        BY <1>3 DEF NoMoreUpstream
    <2> QED BY <2>1
<1>4. CASE ReadDefault
    <2>1. /\ phase = "default" /\ upstream' = upstream /\ rules' = rules
          /\ \/ phase' = "failed"
             \/ /\ phase' = "rules"
                /\ default' = object.default /\ default' # <<>>
                /\ \A i \in DOMAIN default' : default'[i] \in DOMAIN upstream
        BY <1>4 DEF ReadDefault
    <2> QED BY <2>1 DEF ToSet
<1>5. CASE ReadRules
    <2>1. /\ phase = "rules" /\ phase' \in {"rules", "failed"}
          /\ UNCHANGED <<upstream, default>>
        BY <1>5 DEF ReadRules
    <2> QED BY <2>1
<1>6. CASE CheckForwarding
    BY <1>6 DEF CheckForwarding
<1>7. CASE ReadTable
    BY <1>7 DEF ReadTable
<1>8. CASE ReadFails
    BY <1>8 DEF ReadFails
<1> QED BY <1>1, <1>2, <1>3, <1>4, <1>5, <1>6, <1>7, <1>8 DEF Next

\* A configuration that is read at all names some default server, and only
\* servers it defines, as defaults and as groups of forwarding rules, and each of
\* them has an address; reading the rule files does not change that.
THEOREM Usability == Spec => []ConfigUsable
<1>1. Checked /\ [Next]_vars => Checked'
    <2>1. ASSUME Checked, UNCHANGED vars PROVE Checked'
        BY <2>1 DEF vars, Checked, Parsed, DefaultsResolve, ForwardingResolves, ServersReachable
    <2> QED BY <2>1, StepChecked
<1>2. Checked => ConfigUsable
    BY DEF Checked, Parsed, ConfigUsable
<1> QED BY <1>1, <1>2, InitChecked, PTL DEF Spec

\* Every variable keeps to its type: a stage goes over its entries and no further,
\* and reading ends with rows or with an exception.
THEOREM TypeCorrect == Spec => []TypeOK
<1>1. Init => TypeOK
    <2> SUFFICES ASSUME Init PROVE TypeOK
        OBVIOUS
    <2>1. Len(object.upstream) \in Nat /\ Len(Tables) = 6
        BY ObjectsAssumption DEF Init, Tables
    <2>2. DOMAIN NoConfig = {} /\ DOMAIN NoRows = TableSet
        BY DEF NoConfig, NoRows
    <2> QED BY <2>1, <2>2 DEF Init, TypeOK
<1>2. TypeOK /\ [Next]_vars => TypeOK'
    <2> SUFFICES ASSUME TypeOK, [Next]_vars PROVE TypeOK'
        OBVIOUS
    <2>1. Len(object.upstream) \in Nat /\ Len(Tables) = 6
        BY ObjectsAssumption DEF TypeOK, Tables
    <2> USE <2>1 DEF TypeOK, Parsed, Raise, Goto
    <2>2. CASE CheckSections
        BY <2>2 DEF CheckSections
    <2>3. CASE ReadUpstream
        <3> DEFINE entry == object.upstream[at]
        <3>1. /\ UNCHANGED <<object, texts, default, rules, rows>>
              /\ phase = "upstream" /\ at \in 1..Len(object.upstream)
              /\ \/ /\ upstream' = upstream /\ at' = at
                    /\ phase' = "failed" /\ error' \in {"KeyError", "ValueError"}
                 \/ /\ DOMAIN upstream' = DOMAIN upstream \cup {entry.key}
                    /\ at' = at + 1 /\ UNCHANGED <<phase, error>>
            BY <2>3 DEF ReadUpstream
        <3>2. entry.key \in {object.upstream[i].key : i \in DOMAIN object.upstream}
            <4>1. DOMAIN object.upstream = 1..Len(object.upstream)
                BY ObjectsAssumption
            <4> QED BY <3>1, <4>1
        <3> HIDE DEF entry
        <3> QED BY <3>1, <3>2
    <2>4. CASE NoMoreUpstream
        BY <2>4 DEF NoMoreUpstream
    <2>5. CASE ReadDefault
        <3>1. /\ UNCHANGED <<object, texts, upstream, rules, rows>> /\ phase = "default"
              /\ \/ at' = at /\ phase' = "failed" /\ error' \in {"TypeError", "ValueError"}
                 \/ at' = 1 /\ phase' = "rules" /\ UNCHANGED error
            BY <2>5 DEF ReadDefault
        <3> QED BY <3>1
    <2>6. CASE ReadRules
        <3>1. /\ UNCHANGED <<object, texts, upstream, default, rows>>
              /\ phase = "rules" /\ at \in 1..6
              /\ \/ rules' = rules /\ at' = at /\ phase' = "failed" /\ error' = "ValueError"
                 \/ /\ DOMAIN rules' = DOMAIN rules
                    /\ at' = at + 1 /\ UNCHANGED <<phase, error>>
            BY <2>6 DEF ReadRules
        <3> QED BY <3>1
    <2>7. CASE CheckForwarding
        BY <2>7 DEF CheckForwarding
    <2>8. CASE ReadTable
        <3>1. /\ UNCHANGED <<object, texts, upstream, default, rules>>
              /\ phase = "read" /\ DOMAIN rows' = DOMAIN rows
              /\ \/ at < 6 /\ at' = at + 1 /\ UNCHANGED <<phase, error>>
                 \/ phase' = "ready" /\ at' = 1 /\ UNCHANGED error
            BY <2>8 DEF ReadTable
        <3> QED BY <3>1
    <2>9. CASE ReadFails
        <3>1. DOMAIN NoRows = TableSet
            BY DEF NoRows
        <3> QED BY <2>9, <3>1 DEF ReadFails
    <2>10. CASE UNCHANGED vars
        BY <2>10 DEF vars
    <2> QED BY <2>2, <2>3, <2>4, <2>5, <2>6, <2>7, <2>8, <2>9, <2>10 DEF Next
<1> QED BY <1>1, <1>2, PTL DEF Spec

-----------------------------------------------------------------------------
(* Order *)

\* What a set must be ordered by for the i-th of its elements to exist.
Orders(S, before) ==
    /\ \A x \in S : before[x] \subseteq S /\ x \notin before[x]
    /\ \A x, y \in S : x # y => x \in before[y] \/ y \in before[x]
    /\ \A x, y \in S : x \in before[y] => before[x] \subseteq before[y]

\* A sorted set holds what the set holds, each once.
LEMMA SortedFacts ==
    ASSUME NEW S, IsFiniteSet(S), NEW before, Orders(S, before)
    PROVE  /\ Sorted(S, before) \in Seq(S)
           /\ DOMAIN Sorted(S, before) = 1..Len(Sorted(S, before))
           /\ ToSet(Sorted(S, before)) = S
           /\ \A i, j \in DOMAIN Sorted(S, before) :
                i # j => Sorted(S, before)[i] # Sorted(S, before)[j]
<1> DEFINE n == Cardinality(S)
           rank == [x \in S |-> Cardinality(before[x])]
           s == Sorted(S, before)
<1>1. n \in Nat
    BY FS_CardinalityType
<1>2. \A x \in S : IsFiniteSet(before[x]) /\ Cardinality(before[x]) \in Nat
    BY FS_Subset, FS_CardinalityType DEF Orders
<1>3. ASSUME NEW x \in S PROVE rank[x] \in 0..(n - 1)
    <2>1. before[x] \in SUBSET (S \ {x})
        BY DEF Orders
    <2>2. IsFiniteSet(S \ {x}) /\ Cardinality(S \ {x}) = n - 1
        BY FS_RemoveElement
    <2>3. Cardinality(before[x]) <= n - 1
        BY <2>1, <2>2, FS_Subset
    <2> HIDE DEF n
    <2> QED BY <1>1, <1>2, <2>3
<1>4. ASSUME NEW x \in S, NEW y \in S, x \in before[y] PROVE rank[x] < rank[y]
    <2>1. x \notin before[x] /\ before[x] \cup {x} \in SUBSET before[y]
        BY <1>4 DEF Orders
    <2>2. Cardinality(before[x] \cup {x}) = Cardinality(before[x]) + 1
        BY <1>2, <2>1, FS_AddElement
    <2>3. Cardinality(before[x] \cup {x}) <= Cardinality(before[y])
        BY <1>2, <2>1, FS_Subset
    <2> QED BY <1>2, <2>2, <2>3
<1>5. \A x, y \in S : rank[x] = rank[y] => x = y
    <2>1. \A x \in S : rank[x] \in Nat
        BY <1>2
    <2> HIDE DEF rank
    <2> QED BY <1>4, <2>1 DEF Orders
<1>6. \A k \in 0..(n - 1) : \E x \in S : rank[x] = k
    <2>1. rank \in [S -> 0..(n - 1)]
        BY <1>3
    <2>2. rank \in Injection(S, 0..(n - 1))
        BY <1>5, <2>1 DEF Injection, IsInjective
    <2>3. IsFiniteSet(0..(n - 1)) /\ Cardinality(0..(n - 1)) = n
        <3> HIDE DEF n
        <3>1. IsFiniteSet(0..(n - 1)) /\ Cardinality(0..(n - 1)) = IF 0 > n - 1 THEN 0 ELSE n - 1 - 0 + 1
            BY <1>1, FS_Interval
        <3> QED BY <1>1, <3>1
    <2>4. rank \in Surjection(S, 0..(n - 1))
        <3> HIDE DEF rank
        <3> QED BY <2>2, <2>3, FS_Injection
    <2> HIDE DEF rank, n
    <2> QED BY <2>4 DEF Surjection
<1>7. s = [i \in 1..n |-> CHOOSE x \in S : rank[x] = i - 1]
    BY DEF Sorted
<1> HIDE DEF s, rank, n
<1>8. \A i \in 1..n : s[i] \in S /\ rank[s[i]] = i - 1
    <2> SUFFICES ASSUME NEW i \in 1..n PROVE s[i] \in S /\ rank[s[i]] = i - 1
        OBVIOUS
    <2>1. i - 1 \in 0..(n - 1)
        BY <1>1
    <2>2. \E x \in S : rank[x] = i - 1
        BY <1>6, <2>1
    <2>3. s[i] = CHOOSE x \in S : rank[x] = i - 1
        BY <1>7
    <2> QED BY <2>2, <2>3
<1>9. s \in Seq(S) /\ DOMAIN s = 1..n /\ Len(s) = n
    BY <1>1, <1>7, <1>8
<1>10. \A x \in S : \E i \in 1..n : s[i] = x
    <2> SUFFICES ASSUME NEW x \in S PROVE \E i \in 1..n : s[i] = x
        OBVIOUS
    <2>1. rank[x] \in 0..(n - 1)
        BY <1>3
    <2>2. rank[x] + 1 \in 1..n /\ (rank[x] + 1) - 1 = rank[x]
        BY <1>1, <2>1
    <2> QED BY <1>5, <1>8, <2>2
<1>11. \A i, j \in 1..n : i # j => s[i] # s[j]
    <2> SUFFICES ASSUME NEW i \in 1..n, NEW j \in 1..n, s[i] = s[j] PROVE i = j
        OBVIOUS
    <2>1. i - 1 = j - 1
        BY <1>8
    <2> QED BY <2>1
<1>12. ToSet(s) = S
    BY <1>8, <1>9, <1>10 DEF ToSet
<1> QED BY <1>9, <1>11, <1>12 DEF s

\* Two texts that differ differ first at some index.
LEMMA FirstDifference ==
    ASSUME NEW T, NEW s \in Seq(T), NEW t \in Seq(T), s # t
    PROVE  \E i \in Nat \ {0} :
             /\ i <= Len(s) + 1 /\ i <= Len(t) + 1
             /\ \A j \in 1..(i - 1) : s[j] = t[j]
             /\ i <= Len(s) \/ i <= Len(t)
             /\ i <= Len(s) /\ i <= Len(t) => s[i] # t[i]
<1> DEFINE m == Len(s)
           n == Len(t)
           D == {i \in Nat \ {0} : i = m + 1 \/ i = n + 1 \/ s[i] # t[i]}
<1>1. m \in Nat /\ n \in Nat /\ s \in [1..m -> T] /\ t \in [1..n -> T]
    OBVIOUS
<1>2. ~(m = n /\ \A i \in 1..m : s[i] = t[i])
    BY SameSequence
<1> HIDE DEF m, n
<1>3. m + 1 \in D /\ n + 1 \in D /\ D \subseteq Nat
    BY <1>1
<1>4. PICK i \in D : \A j \in D : i <= j
    BY <1>3, LeastNumber
<1>5. i \in Nat \ {0} /\ i <= m + 1 /\ i <= n + 1
    BY <1>3, <1>4
<1>6. \A j \in 1..(i - 1) : s[j] = t[j]
    <2> SUFFICES ASSUME NEW j \in 1..(i - 1), s[j] # t[j] PROVE FALSE
        OBVIOUS
    <2>1. j \in Nat \ {0} /\ j < i
        BY <1>5
    <2>2. j \in D
        BY <2>1
    <2> HIDE DEF D
    <2> QED BY <1>4, <1>5, <2>1, <2>2
<1>7. i <= m \/ i <= n
    <2> SUFFICES ASSUME ~(i <= m \/ i <= n) PROVE FALSE
        OBVIOUS
    <2>1. m = n /\ i - 1 = m
        BY <1>1, <1>5
    <2> QED BY <1>2, <1>6, <2>1
<1>8. i <= m /\ i <= n => s[i] # t[i]
    BY <1>1, <1>4, <1>5
<1> QED BY <1>5, <1>6, <1>7, <1>8 DEF m, n

\* Of two different strings one is before the other; none is before itself; and
\* what is before a string is before those behind it.
LEMMA BeforeTotal ==
    ASSUME NEW s \in Seq(DOMAIN Rank), NEW t \in Seq(DOMAIN Rank), s # t
    PROVE  Before(s, t) \/ Before(t, s)
<1>1. PICK i \in Nat \ {0} :
        /\ i <= Len(s) + 1 /\ i <= Len(t) + 1
        /\ \A j \in 1..(i - 1) : s[j] = t[j]
        /\ i <= Len(s) \/ i <= Len(t)
        /\ i <= Len(s) /\ i <= Len(t) => s[i] # t[i]
    BY FirstDifference
<1>2. Len(s) \in Nat /\ Len(t) \in Nat
    OBVIOUS
<1>3. CASE i <= Len(s) /\ i <= Len(t)
    <2>1. i \in 1..Len(s) /\ i \in 1..Len(t)
        BY <1>2, <1>3
    <2>2. s[i] \in DOMAIN Rank /\ t[i] \in DOMAIN Rank /\ s[i] # t[i]
        BY <1>1, <1>3, <2>1
    <2>3. Rank[s[i]] < Rank[t[i]] \/ Rank[t[i]] < Rank[s[i]]
        BY <2>2, RankAssumption
    <2> QED BY <1>1, <2>1, <2>3 DEF Before
<1>4. CASE ~(i <= Len(s))
    <2>1. i \in 1..Len(t)
        BY <1>1, <1>2, <1>4
    <2> QED BY <1>1, <1>4, <2>1 DEF Before
<1>5. CASE ~(i <= Len(t))
    <2>1. i \in 1..Len(s)
        BY <1>1, <1>2, <1>5
    <2> QED BY <1>1, <1>5, <2>1 DEF Before
<1> QED BY <1>3, <1>4, <1>5

LEMMA BeforeIrreflexive ==
    ASSUME NEW s \in Seq(DOMAIN Rank)
    PROVE  ~Before(s, s)
<1> SUFFICES ASSUME NEW i \in 1..Len(s), Rank[s[i]] < Rank[s[i]] PROVE FALSE
    BY DEF Before
<1>1. s[i] \in DOMAIN Rank
    OBVIOUS
<1> QED BY <1>1, RankAssumption

LEMMA BeforeTransitive ==
    ASSUME NEW s \in Seq(DOMAIN Rank), NEW t \in Seq(DOMAIN Rank), NEW u \in Seq(DOMAIN Rank),
           Before(s, t), Before(t, u)
    PROVE  Before(s, u)
<1> DEFINE l == Len(s)
           m == Len(t)
           n == Len(u)
<1>1. l \in Nat /\ m \in Nat /\ n \in Nat
    OBVIOUS
<1>2. PICK i \in 1..m : /\ i <= l + 1
                        /\ \A k \in 1..(i - 1) : s[k] = t[k]
                        /\ i <= l => Rank[s[i]] < Rank[t[i]]
    BY DEF Before
<1>3. PICK j \in 1..n : /\ j <= m + 1
                        /\ \A k \in 1..(j - 1) : t[k] = u[k]
                        /\ j <= m => Rank[t[j]] < Rank[u[j]]
    BY DEF Before
<1>4. /\ \A k \in 1..l : Rank[s[k]] \in Int
      /\ \A k \in 1..m : Rank[t[k]] \in Int
      /\ \A k \in 1..n : Rank[u[k]] \in Int
    BY RankAssumption
<1>5. Before(s, u) <=> \E k \in 1..n : /\ k <= l + 1
                                       /\ \A h \in 1..(k - 1) : s[h] = u[h]
                                       /\ k <= l => Rank[s[k]] < Rank[u[k]]
    BY DEF Before
<1> HIDE DEF l, m, n
<1>6. CASE i < j
    <2>1. i \in 1..n /\ i \in 1..(j - 1) /\ t[i] = u[i]
        BY <1>1, <1>3, <1>6
    <2>2. \A h \in 1..(i - 1) : s[h] = u[h]
        BY <1>1, <1>2, <1>3, <1>6
    <2> QED BY <1>2, <1>5, <2>1, <2>2
<1>7. CASE j < i
    <2>1. j \in 1..(i - 1) /\ s[j] = t[j] /\ j <= m /\ j <= l + 1
        BY <1>1, <1>2, <1>3, <1>7
    <2>2. \A h \in 1..(j - 1) : s[h] = u[h]
        BY <1>1, <1>2, <1>3, <1>7
    <2> QED BY <1>3, <1>5, <2>1, <2>2
<1>8. CASE i = j
    <2>1. \A h \in 1..(i - 1) : s[h] = u[h]
        BY <1>2, <1>3, <1>8
    <2>2. i <= l => Rank[s[i]] < Rank[u[i]]
        <3> SUFFICES ASSUME i <= l PROVE Rank[s[i]] < Rank[u[i]]
            OBVIOUS
        <3>1. Rank[s[i]] < Rank[t[i]] /\ Rank[t[i]] < Rank[u[i]]
            BY <1>1, <1>2, <1>3, <1>8
        <3>2. i \in 1..l /\ i \in 1..m /\ i \in 1..n
            BY <1>1, <1>2, <1>3, <1>8
        <3>3. Rank[s[i]] \in Int /\ Rank[t[i]] \in Int /\ Rank[u[i]] \in Int
            BY <1>4, <3>2
        <3> QED BY <3>1, <3>3
    <2> QED BY <1>2, <1>3, <1>5, <1>8, <2>1, <2>2
<1>9. i \in Int /\ j \in Int
    OBVIOUS
<1> QED BY <1>6, <1>7, <1>8, <1>9

\* Texts are ordered by Before.
LEMMA LinesAreOrdered ==
    ASSUME NEW lines, lines \subseteq Seq(DOMAIN Rank)
    PROVE  Orders(lines, [l \in lines |-> {m \in lines : Before(m, l)}])
<1> DEFINE before == [l \in lines |-> {m \in lines : Before(m, l)}]
<1>1. \A l, m \in lines : m \in before[l] <=> Before(m, l)
    OBVIOUS
<1>2. \A l \in lines : before[l] \subseteq lines
    OBVIOUS
<1> HIDE DEF before
<1>3. \A l \in lines : l \notin before[l]
    BY <1>1, BeforeIrreflexive
<1>4. \A l, m \in lines : l # m => l \in before[m] \/ m \in before[l]
    BY <1>1, BeforeTotal
<1>5. \A l, m \in lines : l \in before[m] => before[l] \subseteq before[m]
    BY <1>1, <1>2, BeforeTransitive
<1> QED BY <1>2, <1>3, <1>4, <1>5 DEF Orders, before

\* Rows with names that are texts, of which no two have the same name and the
\* same mapped, are ordered by RowBefore.
LEMMA RowsAreOrdered ==
    ASSUME NEW S,
           \A r \in S : r.name \in Seq(DOMAIN Rank) /\ r.mapped \in Seq(DOMAIN Rank),
           \A r, q \in S : r.name = q.name /\ r.mapped = q.mapped => r = q
    PROVE  Orders(S, [r \in S |-> {q \in S : RowBefore(q, r)}])
<1> DEFINE before == [r \in S |-> {q \in S : RowBefore(q, r)}]
<1>1. \A r, q \in S : q \in before[r] <=> RowBefore(q, r)
    OBVIOUS
<1>2. \A r \in S : before[r] \subseteq S
    OBVIOUS
<1> HIDE DEF before
<1>3. \A r \in S : r \notin before[r]
    BY <1>1, BeforeIrreflexive DEF RowBefore
<1>4. \A r, q \in S : r # q => r \in before[q] \/ q \in before[r]
    BY <1>1, BeforeTotal DEF RowBefore
<1>5. ASSUME NEW r \in S, NEW q \in S, NEW p \in S, RowBefore(r, q), RowBefore(q, p)
      PROVE  RowBefore(r, p)
    BY <1>5, BeforeTransitive DEF RowBefore
<1>6. \A r, q \in S : r \in before[q] => before[r] \subseteq before[q]
    BY <1>1, <1>2, <1>5
<1> QED BY <1>2, <1>3, <1>4, <1>6 DEF Orders, before

-----------------------------------------------------------------------------
(* Lines *)

\* A set of numbers that has a bound and is not empty has a greatest one.
LEMMA MaxFacts ==
    ASSUME NEW T, T \subseteq Nat, T # {}, NEW b \in Nat, \A m \in T : m <= b
    PROVE  Max(T) \in T /\ \A m \in T : m <= Max(T)
<1>1. PICK n \in T : \A m \in T : m <= n
    BY GreatestNumber
<1>2. \A m \in T : n >= m
    BY <1>1
<1>3. Max(T) \in T /\ \A m \in T : Max(T) >= m
    BY <1>2 DEF Max
<1> QED BY <1>3

\* What is between two ends of a text.
LEMMA BetweenFacts ==
    ASSUME NEW T, NEW s \in Seq(T), NEW a \in Nat \ {0}, NEW b \in Nat, b <= Len(s)
    PROVE  /\ SubSeq(s, a, b) \in Seq(T)
           /\ Len(SubSeq(s, a, b)) = IF a <= b THEN b - a + 1 ELSE 0
           /\ \A i \in 1..(b - a + 1) : SubSeq(s, a, b)[i] = s[a + i - 1]
<1>1. \A i \in a..b : s[i] \in T
    OBVIOUS
<1>2. SubSeq(s, a, b) = [i \in 1..(b - a + 1) |-> s[a + i - 1]]
    OBVIOUS
<1>3. \A i \in 1..(b - a + 1) : a + i - 1 \in a..b
    OBVIOUS
<1>4. CASE a <= b
    <2>1. b - a + 1 \in Nat
        BY <1>4
    <2> QED BY <1>1, <1>2, <1>3, <1>4, <2>1
<1>5. CASE ~(a <= b)
    <2>1. 1..(b - a + 1) = {}
        BY <1>5
    <2>2. SubSeq(s, a, b) = <<>>
        BY <1>2, <2>1
    <2> QED BY <1>5, <2>1, <2>2
<1> QED BY <1>4, <1>5

\* A line is cut before its first "#".
LEMMA CutFacts ==
    ASSUME NEW T, NEW line \in Seq(T)
    PROVE  /\ Cut(line) \in Seq(T)
           /\ Len(Cut(line)) <= Len(line)
           /\ \A i \in 1..Len(Cut(line)) : Cut(line)[i] = line[i] /\ line[i] # "#"
           /\ Len(Cut(line)) < Len(line) => line[Len(Cut(line)) + 1] = "#"
<1> DEFINE marks == {i \in DOMAIN line : line[i] = "#"}
           c == Min(marks) - 1
<1>1. Len(line) \in Nat /\ DOMAIN line = 1..Len(line)
    OBVIOUS
<1>2. CASE marks = {}
    BY <1>1, <1>2 DEF Cut
<1>3. CASE marks # {}
    <2>1. marks \subseteq Nat /\ \A i : i \in marks <=> i \in 1..Len(line) /\ line[i] = "#"
        BY <1>1
    <2>2. Min(marks) \in marks /\ \A m \in marks : Min(marks) <= m
        <3> HIDE DEF marks
        <3> QED BY <1>3, <2>1, MinFacts
    <2>3. c \in Nat /\ c < Len(line) /\ line[c + 1] = "#" /\ \A i \in 1..c : line[i] # "#"
        <3> HIDE DEF marks
        <3>1. Min(marks) \in 1..Len(line) /\ line[Min(marks)] = "#"
            BY <2>1, <2>2
        <3>2. c \in Nat /\ c < Len(line) /\ c + 1 = Min(marks)
            BY <1>1, <3>1
        <3> HIDE DEF c
        <3>3. \A i \in 1..c : i \in 1..Len(line) /\ i < Min(marks)
            BY <1>1, <3>2
        <3>4. \A i \in 1..c : i \notin marks
            BY <1>1, <2>2, <3>1, <3>3
        <3> QED BY <2>1, <3>1, <3>2, <3>3, <3>4
    <2>4. Cut(line) = SubSeq(line, 1, c)
        BY <1>3 DEF Cut
    <2> HIDE DEF c
    <2>5. /\ SubSeq(line, 1, c) \in Seq(T)
          /\ Len(SubSeq(line, 1, c)) = c
          /\ \A i \in 1..c : SubSeq(line, 1, c)[i] = line[i]
        <3>1. /\ SubSeq(line, 1, c) \in Seq(T)
              /\ Len(SubSeq(line, 1, c)) = IF 1 <= c THEN c - 1 + 1 ELSE 0
              /\ \A i \in 1..(c - 1 + 1) : SubSeq(line, 1, c)[i] = line[1 + i - 1]
            BY <1>1, <2>3, BetweenFacts
        <3>2. c - 1 + 1 = c /\ (~(1 <= c) => c = 0) /\ \A i \in 1..c : 1 + i - 1 = i
            BY <2>3
        <3> QED BY <3>1, <3>2
    <2> QED BY <2>3, <2>4, <2>5
<1> QED BY <1>2, <1>3

\* What is stripped is what is between the first and the last token that is not
\* white.
LEMMA StripFacts ==
    ASSUME NEW T, NEW s \in Seq(T)
    PROVE  /\ Strip(s) \in Seq(T)
           /\ (\A i \in 1..Len(s) : s[i] \in White) => Strip(s) = <<>>
           /\ ~(\A i \in 1..Len(s) : s[i] \in White) =>
                \E a \in 1..Len(s) : \E b \in a..Len(s) :
                    /\ Strip(s) = SubSeq(s, a, b)
                    /\ s[a] \notin White /\ s[b] \notin White
                    /\ \A i \in 1..(a - 1) : s[i] \in White
                    /\ \A i \in (b + 1)..Len(s) : s[i] \in White
<1> DEFINE ink == {i \in DOMAIN s : s[i] \notin White}
<1>1. Len(s) \in Nat /\ DOMAIN s = 1..Len(s)
    OBVIOUS
<1>2. CASE ink = {}
    BY <1>1, <1>2 DEF Strip
<1>3. CASE ink # {}
    <2>1. ink \subseteq Nat /\ \A i : i \in ink <=> i \in 1..Len(s) /\ s[i] \notin White
        BY <1>1
    <2>2. Strip(s) = SubSeq(s, Min(ink), Max(ink))
        BY <1>3 DEF Strip
    <2> HIDE DEF ink
    <2>3. \A m \in ink : m <= Len(s)
        BY <1>1, <2>1
    <2>4. Min(ink) \in ink /\ \A m \in ink : Min(ink) <= m
        BY <1>3, <2>1, MinFacts
    <2>5. Max(ink) \in ink /\ \A m \in ink : m <= Max(ink)
        BY <1>1, <1>3, <2>1, <2>3, MaxFacts
    <2>6. PICK a \in 1..Len(s) : a = Min(ink)
        BY <2>1, <2>4
    <2>7. PICK b \in a..Len(s) : b = Max(ink)
        BY <1>1, <2>1, <2>4, <2>5, <2>6
    <2>8. a \in ink /\ b \in ink /\ \A m \in ink : a <= m /\ m <= b
        BY <2>4, <2>5, <2>6, <2>7
    <2>9. /\ \A i \in 1..(a - 1) : i \in 1..Len(s) /\ ~(a <= i)
          /\ \A i \in (b + 1)..Len(s) : i \in 1..Len(s) /\ ~(i <= b)
        BY <1>1
    <2>10. Strip(s) \in Seq(T)
        BY <2>2, <2>6, <2>7, BetweenFacts
    <2> QED BY <2>1, <2>2, <2>6, <2>7, <2>8, <2>9, <2>10
<1> QED BY <1>2, <1>3

\* The ends of what is left of a line.
Ends(line, a, b) ==
    /\ line[a] \notin White /\ line[b] \notin White
    /\ \A k \in a..b : line[k] # "#"
    /\ \A k \in 1..(a - 1) : line[k] \in White
    /\ \E m \in (b + 1)..(Len(line) + 1) :
         /\ m <= Len(line) => line[m] = "#"
         /\ \A k \in (b + 1)..(m - 1) : line[k] \in White

\* What is left of a line has one beginning and one end.
LEMMA EndsUnique ==
    ASSUME NEW T, NEW line \in Seq(T), NEW a \in 1..Len(line), NEW b \in a..Len(line),
           NEW c \in 1..Len(line), NEW d \in c..Len(line), Ends(line, a, b), Ends(line, c, d)
    PROVE  a = c /\ b = d
<1> DEFINE n == Len(line)
<1>1. n \in Nat
    OBVIOUS
<1>2. "#" \notin White
    BY DEF White, Blank
<1>3. /\ a \in 1..n /\ b \in a..n /\ c \in 1..n /\ d \in c..n
      /\ line[a] \notin White /\ line[b] \notin White
      /\ line[c] \notin White /\ line[d] \notin White
      /\ \A k \in a..b : line[k] # "#"
      /\ \A k \in c..d : line[k] # "#"
      /\ \A k \in 1..(a - 1) : line[k] \in White
      /\ \A k \in 1..(c - 1) : line[k] \in White
    BY DEF Ends
<1>4. PICK m \in (b + 1)..(n + 1) : /\ m <= n => line[m] = "#"
                                    /\ \A k \in (b + 1)..(m - 1) : line[k] \in White
    BY DEF Ends
<1>5. PICK m2 \in (d + 1)..(n + 1) : /\ m2 <= n => line[m2] = "#"
                                     /\ \A k \in (d + 1)..(m2 - 1) : line[k] \in White
    BY DEF Ends
<1> HIDE DEF n
<1>6. a = c
    <2>1. ~(a < c) /\ ~(c < a)
        BY <1>1, <1>3
    <2> QED BY <1>1, <1>3, <2>1
<1>7. ~(b < d)
    <2> SUFFICES ASSUME b < d PROVE FALSE
        OBVIOUS
    <2>1. ~(d \in (b + 1)..(m - 1))
        BY <1>3, <1>4
    <2>2. m <= d
        BY <1>1, <1>3, <1>4, <2>1
    <2>3. m \in c..d /\ m <= n
        BY <1>1, <1>3, <1>4, <1>6, <2>2
    <2> QED BY <1>3, <1>4, <2>3
<1>8. ~(d < b)
    <2> SUFFICES ASSUME d < b PROVE FALSE
        OBVIOUS
    <2>1. ~(b \in (d + 1)..(m2 - 1))
        BY <1>3, <1>5
    <2>2. m2 <= b
        BY <1>1, <1>3, <1>5, <2>1
    <2>3. m2 \in a..b /\ m2 <= n
        BY <1>1, <1>3, <1>5, <1>6, <2>2
    <2> QED BY <1>3, <1>5, <2>3
<1>9. b \in Int /\ d \in Int
    BY <1>1, <1>3
<1> QED BY <1>6, <1>7, <1>8, <1>9

\* What is left of a line is what is between its ends, and nothing if it has none.
LEMMA LeftOfLine ==
    ASSUME NEW T, NEW line \in Seq(T)
    PROVE  /\ Strip(Cut(line)) \in Seq(T)
           /\ Strip(Cut(line)) # <<>> =>
                \E a \in 1..Len(line) : \E b \in a..Len(line) :
                    Ends(line, a, b) /\ Strip(Cut(line)) = SubSeq(line, a, b)
           /\ \A a \in 1..Len(line) : \A b \in a..Len(line) :
                Ends(line, a, b) => Strip(Cut(line)) = SubSeq(line, a, b)
<1> DEFINE n == Len(line)
           cut == Cut(line)
           c == Len(cut)
<1>1. /\ cut \in Seq(T) /\ c <= n
      /\ \A k \in 1..c : cut[k] = line[k] /\ line[k] # "#"
      /\ c < n => line[c + 1] = "#"
    BY CutFacts
<1>2. n \in Nat /\ c \in Nat
    BY <1>1, LengthFacts
<1>3. /\ Strip(cut) \in Seq(T)
      /\ (\A k \in 1..c : cut[k] \in White) => Strip(cut) = <<>>
      /\ ~(\A k \in 1..c : cut[k] \in White) =>
           \E a \in 1..c : \E b \in a..c :
               /\ Strip(cut) = SubSeq(cut, a, b)
               /\ cut[a] \notin White /\ cut[b] \notin White
               /\ \A k \in 1..(a - 1) : cut[k] \in White
               /\ \A k \in (b + 1)..c : cut[k] \in White
    BY <1>1, StripFacts
<1>4. ASSUME ~(\A k \in 1..c : cut[k] \in White)
      PROVE  \E a \in 1..n : \E b \in a..n :
                 Ends(line, a, b) /\ Strip(cut) = SubSeq(line, a, b)
    <2>1. PICK a \in 1..c : \E b \in a..c :
               /\ Strip(cut) = SubSeq(cut, a, b)
               /\ cut[a] \notin White /\ cut[b] \notin White
               /\ \A k \in 1..(a - 1) : cut[k] \in White
               /\ \A k \in (b + 1)..c : cut[k] \in White
        BY <1>3, <1>4
    <2>2. PICK b \in a..c :
               /\ Strip(cut) = SubSeq(cut, a, b)
               /\ cut[a] \notin White /\ cut[b] \notin White
               /\ \A k \in 1..(a - 1) : cut[k] \in White
               /\ \A k \in (b + 1)..c : cut[k] \in White
        BY <2>1
    <2> HIDE DEF cut, c, n
    <2>3. a \in 1..n /\ b \in a..n /\ a \in 1..c /\ b \in 1..c /\ a <= b
        BY <1>1, <1>2, <2>1, <2>2
    <2>4. line[a] \notin White /\ line[b] \notin White
        BY <1>1, <2>2, <2>3
    <2>5. \A k \in a..b : k \in 1..c /\ line[k] # "#"
        BY <1>1, <1>2, <2>3
    <2>6. \A k \in 1..(a - 1) : line[k] \in White
        <3>1. \A k \in 1..(a - 1) : k \in 1..c
            BY <1>2, <2>3
        <3> QED BY <1>1, <2>2, <3>1
    <2>7. \A k \in (b + 1)..c : line[k] \in White
        <3>1. \A k \in (b + 1)..c : k \in 1..c
            BY <1>2, <2>3
        <3> QED BY <1>1, <2>2, <3>1
    <2>8. c + 1 \in (b + 1)..(n + 1) /\ (c + 1 <= n => line[c + 1] = "#") /\ (c + 1) - 1 = c
        BY <1>1, <1>2, <2>3
    <2>9. Ends(line, a, b)
        BY <2>4, <2>5, <2>6, <2>7, <2>8 DEF Ends, n
    <2>10. SubSeq(cut, a, b) = SubSeq(line, a, b)
        <3>1. /\ SubSeq(cut, a, b) \in Seq(T)
              /\ Len(SubSeq(cut, a, b)) = b - a + 1
              /\ \A k \in 1..(b - a + 1) : SubSeq(cut, a, b)[k] = cut[a + k - 1]
            BY <1>1, <1>2, <2>3, BetweenFacts DEF c
        <3>2. /\ SubSeq(line, a, b) \in Seq(T)
              /\ Len(SubSeq(line, a, b)) = b - a + 1
              /\ \A k \in 1..(b - a + 1) : SubSeq(line, a, b)[k] = line[a + k - 1]
            BY <1>1, <1>2, <2>3, BetweenFacts DEF n
        <3>3. \A k \in 1..(b - a + 1) : a + k - 1 \in 1..c
            BY <1>2, <2>3
        <3>4. \A k \in 1..(b - a + 1) : SubSeq(cut, a, b)[k] = SubSeq(line, a, b)[k]
            BY <1>1, <3>1, <3>2, <3>3
        <3> QED BY <3>1, <3>2, <3>4, SameSequence
    <2> QED BY <2>2, <2>3, <2>9, <2>10
<1>5. ASSUME NEW a \in 1..n, NEW b \in a..n, Ends(line, a, b)
      PROVE  Strip(cut) = SubSeq(line, a, b)
    <2>1. \A k \in 1..(a - 1) : line[k] # "#"
        BY <1>5 DEF Ends, White, Blank
    <2>2. line[a] # "#" /\ line[a] \notin White
        BY <1>2, <1>5 DEF Ends
    <2> HIDE DEF cut, c
    <2>3. a <= c
        <3> SUFFICES ASSUME ~(a <= c) PROVE FALSE
            OBVIOUS
        <3>1. n \in Nat /\ a \in 1..n
            BY <1>2
        <3> HIDE DEF n
        <3>2. c < n /\ (c + 1 \in 1..(a - 1) \/ c + 1 = a)
            BY <1>2, <3>1
        <3> QED BY <1>1, <2>1, <2>2, <3>2
    <2>4. a \in 1..c /\ cut[a] \notin White
        BY <1>1, <1>2, <2>2, <2>3
    <2>5. PICK a2 \in 1..n : \E b2 \in a2..n :
              Ends(line, a2, b2) /\ Strip(cut) = SubSeq(line, a2, b2)
        BY <1>4, <2>4
    <2>6. PICK b2 \in a2..n : Ends(line, a2, b2) /\ Strip(cut) = SubSeq(line, a2, b2)
        BY <2>5
    <2>7. a = a2 /\ b = b2
        BY <1>5, <2>6, EndsUnique
    <2> QED BY <2>6, <2>7
<1> QED BY <1>3, <1>4, <1>5

\* A line says what is left of it, if that is one word.
LEMMA SaidFacts ==
    ASSUME NEW T, NEW line \in Seq(T)
    PROVE  Said(line) = {w \in {Strip(Cut(line))} : w # <<>> /\ Blank \notin ToSet(w)}
<1> DEFINE n == Len(line)
           left == Strip(Cut(line))
<1>1. n \in Nat
    OBVIOUS
<1>2. ASSUME NEW w
      PROVE  w \in Said(line) <=>
               \E a \in 1..n : \E b \in a..n :
                   /\ w = SubSeq(line, a, b) /\ Ends(line, a, b)
                   /\ \A k \in a..b : line[k] # Blank
    <2> DEFINE P(a, b) == /\ a <= b
                          /\ line[a] \notin White /\ line[b] \notin White
                          /\ \A k \in a..b : line[k] \notin {Blank, "#"}
                          /\ \A k \in 1..(a - 1) : line[k] \in White
                          /\ \E m \in (b + 1)..(n + 1) :
                               /\ m <= n => line[m] = "#"
                               /\ \A k \in (b + 1)..(m - 1) : line[k] \in White
    <2>1. w \in Said(line) <=>
            \E p \in (1..n) \X (1..n) : w = SubSeq(line, p[1], p[2]) /\ P(p[1], p[2])
        BY DEF Said
    <2>2. \A a, b : P(a, b) <=> a <= b /\ Ends(line, a, b) /\ \A k \in a..b : line[k] # Blank
        BY DEF Ends
    <2> HIDE DEF P
    <2>3. (\E p \in (1..n) \X (1..n) : w = SubSeq(line, p[1], p[2]) /\ P(p[1], p[2]))
            <=> \E a \in 1..n : \E b \in 1..n : w = SubSeq(line, a, b) /\ P(a, b)
        <3>1. \A p \in (1..n) \X (1..n) : p[1] \in 1..n /\ p[2] \in 1..n
            OBVIOUS
        <3>2. \A a \in 1..n : \A b \in 1..n :
                <<a, b>> \in (1..n) \X (1..n) /\ <<a, b>>[1] = a /\ <<a, b>>[2] = b
            OBVIOUS
        <3> QED BY <3>1, <3>2
    <2>4. \A a \in 1..n : \A b : b \in a..n <=> b \in 1..n /\ a <= b
        BY <1>1
    <2> QED BY <2>1, <2>2, <2>3, <2>4
<1>3. ASSUME NEW a \in 1..n, NEW b \in a..n
      PROVE  /\ SubSeq(line, a, b) # <<>>
             /\ Blank \notin ToSet(SubSeq(line, a, b)) <=> \A k \in a..b : line[k] # Blank
    <2> DEFINE w == SubSeq(line, a, b)
    <2>1. /\ w \in Seq(T) /\ Len(w) = b - a + 1
          /\ \A k \in 1..(b - a + 1) : w[k] = line[a + k - 1]
        BY <1>1, BetweenFacts
    <2> HIDE DEF w
    <2>2. DOMAIN w = 1..(b - a + 1) /\ b - a + 1 # 0
        BY <1>1, <2>1
    <2>3. w # <<>>
        BY <2>1, <2>2
    <2>4. \A k \in a..b : k - a + 1 \in 1..(b - a + 1) /\ a + (k - a + 1) - 1 = k
        BY <1>1
    <2>5. \A k \in 1..(b - a + 1) : a + k - 1 \in a..b
        BY <1>1
    <2>6. Blank \in ToSet(w) <=> \E k \in 1..(b - a + 1) : w[k] = Blank
        BY <2>2 DEF ToSet
    <2> QED BY <2>1, <2>3, <2>4, <2>5, <2>6 DEF w
<1>4. /\ left # <<>> => \E a \in 1..n : \E b \in a..n :
                          Ends(line, a, b) /\ left = SubSeq(line, a, b)
      /\ \A a \in 1..n : \A b \in a..n : Ends(line, a, b) => left = SubSeq(line, a, b)
    BY LeftOfLine
<1> HIDE DEF left, n
<1>5. ASSUME NEW w
      PROVE  w \in Said(line) <=> w = left /\ w # <<>> /\ Blank \notin ToSet(w)
    <2>1. ASSUME w \in Said(line) PROVE w = left /\ w # <<>> /\ Blank \notin ToSet(w)
        <3>1. PICK a \in 1..n : \E b \in a..n :
                  /\ w = SubSeq(line, a, b) /\ Ends(line, a, b)
                  /\ \A k \in a..b : line[k] # Blank
            BY <1>2, <2>1
        <3>2. PICK b \in a..n : /\ w = SubSeq(line, a, b) /\ Ends(line, a, b)
                                /\ \A k \in a..b : line[k] # Blank
            BY <3>1
        <3> QED BY <1>3, <1>4, <3>2
    <2>2. ASSUME w = left, w # <<>>, Blank \notin ToSet(w) PROVE w \in Said(line)
        <3>1. PICK a \in 1..n : \E b \in a..n : Ends(line, a, b) /\ w = SubSeq(line, a, b)
            BY <1>4, <2>2
        <3>2. PICK b \in a..n : Ends(line, a, b) /\ w = SubSeq(line, a, b)
            BY <3>1
        <3>3. \A k \in a..b : line[k] # Blank
            BY <1>3, <2>2, <3>2
        <3> QED BY <1>2, <3>2, <3>3
    <2> QED BY <2>1, <2>2
<1> QED BY <1>5 DEF left

-----------------------------------------------------------------------------
(* The rows of a text *)

\* What is made of the elements of a finite set is a finite set.
LEMMA FiniteImage ==
    ASSUME NEW S, IsFiniteSet(S), NEW f
    PROVE  IsFiniteSet({f[x] : x \in S})
<1> DEFINE g == [x \in S |-> f[x]]
<1>1. g \in Surjection(S, {f[x] : x \in S})
    BY DEF Surjection
<1> QED BY <1>1, FS_Surjection

\* The lines of a text are finitely many sequences of tokens, none of them empty.
LEMMA ParseFacts ==
    ASSUME NEW text \in Seq(Seq(DOMAIN Rank))
    PROVE  IsFiniteSet(parse_line(text)) /\ parse_line(text) \subseteq Seq(DOMAIN Rank)
<1> DEFINE n == Len(text)
           f == [i \in 1..n |-> Strip(Cut(text[i]))]
<1>1. n \in Nat /\ DOMAIN text = 1..n /\ \A i \in 1..n : text[i] \in Seq(DOMAIN Rank)
    OBVIOUS
<1>2. ToSet(text) = {text[i] : i \in 1..n}
    BY <1>1 DEF ToSet
<1>3. \A i \in 1..n : f[i] = Strip(Cut(text[i]))
    OBVIOUS
<1>4. parse_line(text) = {f[i] : i \in 1..n} \ {<<>>}
    <2> HIDE DEF n, f
    <2> QED BY <1>2, <1>3 DEF parse_line
<1>5. \A i \in 1..n : f[i] \in Seq(DOMAIN Rank)
    BY <1>1, <1>3, LeftOfLine
<1> HIDE DEF f, n
<1>6. IsFiniteSet(1..n)
    BY <1>1, FS_Interval
<1>7. IsFiniteSet({f[i] : i \in 1..n})
    BY <1>6, FiniteImage
<1>8. parse_line(text) \in SUBSET {f[i] : i \in 1..n}
    BY <1>4
<1>9. IsFiniteSet(parse_line(text))
    BY <1>7, <1>8, FS_Subset
<1> QED BY <1>4, <1>5, <1>9

\* The rows of a file of names: those of its lines of one word.
LEMMA NameRowsFacts ==
    ASSUME NEW group, NEW text \in Seq(Seq(DOMAIN Rank))
    PROVE  /\ NameRows(group, text) \in Seq(ToSet(NameRows(group, text)))
           /\ ToSet(NameRows(group, text)) =
                {NameRow(group, w) : w \in {l \in parse_line(text) : Blank \notin ToSet(l)}}
<1> DEFINE S == {l \in parse_line(text) : Blank \notin ToSet(l)}
           words == InOrder(S)
<1>1. IsFiniteSet(S) /\ S \subseteq Seq(DOMAIN Rank)
    <2>1. S \in SUBSET parse_line(text)
        OBVIOUS
    <2> QED BY <2>1, ParseFacts, FS_Subset
<1>2. NameRows(group, text) = [i \in DOMAIN words |-> NameRow(group, words[i])]
    BY DEF NameRows
<1> HIDE DEF S
<1>3. words \in Seq(S) /\ DOMAIN words = 1..Len(words) /\ ToSet(words) = S
    BY <1>1, LinesAreOrdered, SortedFacts DEF InOrder
<1> HIDE DEF words
<1> DEFINE n == Len(words)
           s == [i \in 1..n |-> NameRow(group, words[i])]
<1>4. n \in Nat /\ S = {words[i] : i \in 1..n}
    BY <1>3, LengthFacts DEF ToSet
<1> HIDE DEF n
<1>5. ToSet(s) = {NameRow(group, w) : w \in S}
    BY <1>4 DEF ToSet
<1>6. s \in Seq(ToSet(s))
    BY <1>4 DEF ToSet
<1>7. NameRows(group, text) = s
    BY <1>2, <1>3 DEF n
<1> QED BY <1>5, <1>6, <1>7 DEF S

\* The words of a line are sequences of tokens.
LEMMA WordsFacts ==
    ASSUME NEW T, NEW line \in Seq(T)
    PROVE  \A k \in 1..Len(Words(line)) : Words(line)[k] \in Seq(T)
<1> DEFINE last(i) == Min({j \in i..Len(line) : j = Len(line) \/ line[j + 1] = Blank})
           word(i) == Strip(SubSeq(line, i, last(i)))
           starts == {i \in DOMAIN line : /\ line[i] # Blank
                                          /\ i = 1 \/ line[i - 1] = Blank
                                          /\ word(i) # <<>>}
           before == [i \in starts |-> {j \in starts : j < i}]
           order == Sorted(starts, before)
<1>1. Words(line) = [k \in DOMAIN order |-> word(order[k])]
    BY DEF Words
<1>2. Len(line) \in Nat /\ starts \in SUBSET (1..Len(line))
    OBVIOUS
<1>3. ASSUME NEW i \in 1..Len(line) PROVE word(i) \in Seq(T)
    <2> DEFINE ends == {j \in i..Len(line) : j = Len(line) \/ line[j + 1] = Blank}
    <2>1. ends \subseteq Nat /\ Len(line) \in ends /\ \A j \in ends : j <= Len(line)
        BY <1>2
    <2>2. Min(ends) \in ends
        <3> HIDE DEF ends
        <3> QED BY <2>1, MinFacts
    <2>3. last(i) \in Nat /\ last(i) <= Len(line) /\ i \in Nat \ {0}
        BY <1>2, <2>1, <2>2
    <2> HIDE DEF last
    <2>4. SubSeq(line, i, last(i)) \in Seq(T)
        BY <2>3, BetweenFacts
    <2> QED BY <2>4, StripFacts
<1> HIDE DEF word, starts
<1>4. Orders(starts, before)
    <2>1. \A i \in starts : i \in Nat
        BY <1>2
    <2> QED BY <2>1 DEF Orders
<1>5. IsFiniteSet(starts)
    <2>1. IsFiniteSet(1..Len(line))
        BY <1>2, FS_Interval
    <2> QED BY <1>2, <2>1, FS_Subset
<1> HIDE DEF before
<1>6. order \in Seq(starts) /\ DOMAIN order = 1..Len(order)
    BY <1>4, <1>5, SortedFacts
<1> HIDE DEF order
<1> DEFINE n == Len(order)
<1>7. n \in Nat /\ \A k \in 1..n : order[k] \in 1..Len(line)
    <2>1. \A k \in 1..n : order[k] \in starts
        BY <1>6
    <2> QED BY <1>2, <1>6, <2>1, LengthFacts
<1> HIDE DEF n
<1> DEFINE w == [k \in 1..n |-> word(order[k])]
<1>8. Words(line) = w
    BY <1>1, <1>6 DEF n
<1>9. Len(w) = n /\ \A k \in 1..n : w[k] \in Seq(T)
    BY <1>3, <1>7
<1> QED BY <1>8, <1>9

\* Lower case keeps the signs of a text.
LEMMA LoweredFacts ==
    ASSUME NEW s \in Seq(DOMAIN Rank)
    PROVE  /\ Lower(s) \in Seq(DOMAIN Rank) /\ Len(Lower(s)) = Len(s)
           /\ \A i \in 1..Len(s) : Lower(s)[i] = Fold[s[i]]
           /\ \A i \in 1..Len(s) : \A c \in Signs : Lower(s)[i] = c <=> s[i] = c
           /\ Lower(Lower(s)) = Lower(s)
           /\ UsesGlob(Lower(s)) <=> UsesGlob(s)
           /\ Blank \in ToSet(Lower(s)) <=> Blank \in ToSet(s)
<1> DEFINE n == Len(s)
<1>1. n \in Nat /\ DOMAIN s = 1..n /\ \A i \in 1..n : s[i] \in DOMAIN Rank
    OBVIOUS
<1>2. \A i \in 1..n : Fold[s[i]] \in DOMAIN Rank /\ Fold[Fold[s[i]]] = Fold[s[i]]
    BY <1>1, CaseAssumption, FoldAssumption
<1>3. Lower(s) = [i \in 1..n |-> Fold[s[i]]]
    BY DEF Lower
<1> HIDE DEF n
<1>4. Lower(s) \in Seq(DOMAIN Rank) /\ Len(Lower(s)) = n /\ DOMAIN Lower(s) = 1..n
    BY <1>1, <1>2, <1>3
<1>5. \A i \in 1..n : Lower(s)[i] = Fold[s[i]]
    BY <1>3
<1>6. \A i \in 1..n : \A c \in Signs : Lower(s)[i] = c <=> s[i] = c
    BY <1>1, <1>5, CaseAssumption
<1>7. Lower(Lower(s)) = [i \in 1..n |-> Fold[Lower(s)[i]]]
    BY <1>4 DEF Lower
<1>8. Lower(Lower(s)) = Lower(s)
    <2>1. \A i \in 1..n : Fold[Lower(s)[i]] = Fold[s[i]]
        BY <1>2, <1>5
    <2> DEFINE f == [i \in 1..n |-> Fold[Lower(s)[i]]]
               g == [i \in 1..n |-> Fold[s[i]]]
    <2>2. f = g
        BY <2>1
    <2> HIDE DEF f, g
    <2> QED BY <1>3, <1>7, <2>2 DEF f, g
<1>9. UsesGlob(Lower(s)) <=> UsesGlob(s)
    <2>1. \A t : UsesGlob(t) <=> \E i \in 1..Len(t) : t[i] = "*" \/ t[i] = "?"
        BY DEF UsesGlob
    <2>2. "*" \in Signs /\ "?" \in Signs
        BY DEF Signs
    <2> QED BY <1>4, <1>6, <2>1, <2>2 DEF n
<1>10. Blank \in ToSet(Lower(s)) <=> Blank \in ToSet(s)
    <2>1. Blank \in Signs
        BY DEF Signs, White
    <2> QED BY <1>1, <1>4, <1>6, <2>1 DEF ToSet
<1> QED BY <1>4, <1>5, <1>6, <1>8, <1>9, <1>10 DEF n

\* The row of a word is the row of the word in lower case.
LEMMA SameNameRow ==
    ASSUME NEW s \in Seq(DOMAIN Rank), NEW group
    PROVE  NameRow(group, Lower(s)) = NameRow(group, s)
<1>1. \A t : UsesGlob(t) \in BOOLEAN
    BY DEF UsesGlob
<1>2. UsesGlob(Lower(s)) = UsesGlob(s)
    BY <1>1, LoweredFacts
<1>3. Lower(Lower(s)) = Lower(s)
    BY LoweredFacts
<1> QED BY <1>2, <1>3 DEF NameRow

\* What is left of a line in lower case is what is left of it, in lower case.
LEMMA LowerLeft ==
    ASSUME NEW line \in Seq(DOMAIN Rank)
    PROVE  Strip(Cut(Lower(line))) = Lower(Strip(Cut(line)))
<1> DEFINE n == Len(line)
           low == Lower(line)
<1>1. /\ low \in Seq(DOMAIN Rank) /\ Len(low) = n
      /\ \A i \in 1..n : low[i] = Fold[line[i]]
      /\ \A i \in 1..n : \A c \in Signs : low[i] = c <=> line[i] = c
    BY LoweredFacts
<1>2. n \in Nat
    OBVIOUS
<1>3. \A i \in 1..n : /\ low[i] \in White <=> line[i] \in White
                      /\ low[i] = "#" <=> line[i] = "#"
    <2>1. White \subseteq Signs /\ "#" \in Signs
        BY DEF Signs
    <2> QED BY <1>1, <2>1
<1> HIDE DEF low
<1>4. ASSUME NEW a \in 1..n, NEW b \in a..n PROVE Ends(low, a, b) <=> Ends(line, a, b)
    <2>1. a \in 1..n /\ b \in 1..n
        BY <1>2
    <2>2. \A k \in a..b : k \in 1..n
        BY <1>2
    <2>3. \A k \in 1..(a - 1) : k \in 1..n
        BY <1>2
    <2>4. \A m \in (b + 1)..(n + 1) : /\ m <= n => m \in 1..n
                                      /\ \A k \in (b + 1)..(m - 1) : k \in 1..n
        BY <1>2
    <2>5. (\E m \in (b + 1)..(n + 1) :
             /\ m <= n => low[m] = "#"
             /\ \A k \in (b + 1)..(m - 1) : low[k] \in White)
            <=> (\E m \in (b + 1)..(n + 1) :
                   /\ m <= n => line[m] = "#"
                   /\ \A k \in (b + 1)..(m - 1) : line[k] \in White)
        BY <1>3, <2>4
    <2> HIDE DEF n
    <2> QED BY <1>1, <1>3, <2>1, <2>2, <2>3, <2>5 DEF Ends, n
<1>5. ASSUME NEW a \in 1..n, NEW b \in a..n
      PROVE  SubSeq(low, a, b) = Lower(SubSeq(line, a, b)) /\ SubSeq(line, a, b) # <<>>
    <2>1. /\ SubSeq(line, a, b) \in Seq(DOMAIN Rank)
          /\ Len(SubSeq(line, a, b)) = b - a + 1
          /\ \A i \in 1..(b - a + 1) : SubSeq(line, a, b)[i] = line[a + i - 1]
        BY <1>2, BetweenFacts
    <2>2. /\ SubSeq(low, a, b) \in Seq(DOMAIN Rank)
          /\ Len(SubSeq(low, a, b)) = b - a + 1
          /\ \A i \in 1..(b - a + 1) : SubSeq(low, a, b)[i] = low[a + i - 1]
        BY <1>1, <1>2, BetweenFacts
    <2>3. /\ Lower(SubSeq(line, a, b)) \in Seq(DOMAIN Rank)
          /\ Len(Lower(SubSeq(line, a, b))) = b - a + 1
          /\ \A i \in 1..(b - a + 1) :
               Lower(SubSeq(line, a, b))[i] = Fold[SubSeq(line, a, b)[i]]
        BY <2>1, LoweredFacts
    <2>4. \A i \in 1..(b - a + 1) : a + i - 1 \in 1..n
        BY <1>2
    <2>5. \A i \in 1..(b - a + 1) : SubSeq(low, a, b)[i] = Lower(SubSeq(line, a, b))[i]
        <3> SUFFICES ASSUME NEW i \in 1..(b - a + 1)
                     PROVE  SubSeq(low, a, b)[i] = Lower(SubSeq(line, a, b))[i]
            OBVIOUS
        <3>1. SubSeq(low, a, b)[i] = low[a + i - 1]
            BY <2>2
        <3>2. low[a + i - 1] = Fold[line[a + i - 1]]
            BY <1>1, <2>4
        <3>3. Lower(SubSeq(line, a, b))[i] = Fold[line[a + i - 1]]
            BY <2>1, <2>3
        <3> QED BY <3>1, <3>2, <3>3
    <2>6. b - a + 1 # 0
        BY <1>2
    <2>7. SubSeq(line, a, b) # <<>>
        BY <2>1, <2>6
    <2> QED BY <2>2, <2>3, <2>5, <2>7, SameSequence
<1>6. CASE Strip(Cut(line)) # <<>>
    <2>1. PICK a \in 1..n : \E b \in a..n :
              Ends(line, a, b) /\ Strip(Cut(line)) = SubSeq(line, a, b)
        BY <1>6, LeftOfLine
    <2>2. PICK b \in a..n : Ends(line, a, b) /\ Strip(Cut(line)) = SubSeq(line, a, b)
        BY <2>1
    <2>3. Ends(low, a, b) /\ a \in 1..Len(low) /\ b \in a..Len(low)
        BY <1>1, <1>4, <2>2
    <2>4. Strip(Cut(low)) = SubSeq(low, a, b)
        BY <1>1, <2>3, LeftOfLine
    <2> QED BY <1>5, <2>2, <2>4 DEF low
<1>7. CASE Strip(Cut(line)) = <<>>
    <2>1. \A a \in 1..n : \A b \in a..n : ~Ends(line, a, b)
        BY <1>5, <1>7, LeftOfLine
    <2>2. \A a \in 1..Len(low) : \A b \in a..Len(low) : ~Ends(low, a, b)
        BY <1>1, <1>4, <2>1
    <2>3. Strip(Cut(low)) = <<>>
        BY <1>1, <2>2, LeftOfLine
    <2>4. Lower(<<>>) = <<>>
        BY DEF Lower
    <2> QED BY <1>7, <2>3, <2>4 DEF low
<1> QED BY <1>6, <1>7

LowerText(text) == [i \in DOMAIN text |-> Lower(text[i])]

\* A text in lower case has the lines of the text, in lower case.
LEMMA LowerParse ==
    ASSUME NEW text \in Seq(Seq(DOMAIN Rank))
    PROVE  /\ LowerText(text) \in Seq(Seq(DOMAIN Rank))
           /\ parse_line(LowerText(text)) = {Lower(l) : l \in parse_line(text)}
<1> DEFINE n == Len(text)
           low == LowerText(text)
<1>1. n \in Nat /\ DOMAIN text = 1..n /\ \A i \in 1..n : text[i] \in Seq(DOMAIN Rank)
    OBVIOUS
<1> HIDE DEF n
<1>2. low = [i \in 1..n |-> Lower(text[i])]
    BY <1>1 DEF LowerText
<1> HIDE DEF low
<1>3. \A i \in 1..n : low[i] = Lower(text[i]) /\ low[i] \in Seq(DOMAIN Rank)
    BY <1>1, <1>2, LoweredFacts
<1>4. low \in Seq(Seq(DOMAIN Rank)) /\ DOMAIN low = 1..n
    BY <1>1, <1>2, <1>3
<1>5. \A i \in 1..n : Strip(Cut(low[i])) = Lower(Strip(Cut(text[i])))
    BY <1>1, <1>3, LowerLeft
<1>6. \A i \in 1..n : Lower(Strip(Cut(text[i]))) = <<>> <=> Strip(Cut(text[i])) = <<>>
    <2> SUFFICES ASSUME NEW i \in 1..n
                 PROVE  Lower(Strip(Cut(text[i]))) = <<>> <=> Strip(Cut(text[i])) = <<>>
        OBVIOUS
    <2> DEFINE l == Strip(Cut(text[i]))
    <2>1. l \in Seq(DOMAIN Rank)
        BY <1>1, LeftOfLine
    <2> HIDE DEF l
    <2>2. Lower(l) \in Seq(DOMAIN Rank) /\ Len(Lower(l)) = Len(l)
        BY <2>1, LoweredFacts
    <2>3. (Lower(l) = <<>> <=> Len(Lower(l)) = 0) /\ (l = <<>> <=> Len(l) = 0)
        BY <2>1, <2>2, LengthFacts
    <2> QED BY <2>2, <2>3 DEF l
<1>7. parse_line(text) = {Strip(Cut(text[i])) : i \in 1..n} \ {<<>>}
    BY <1>1 DEF parse_line, ToSet
<1>8. parse_line(low) = {Strip(Cut(low[i])) : i \in 1..n} \ {<<>>}
    BY <1>4 DEF parse_line, ToSet
<1>9. parse_line(low) = {Lower(l) : l \in parse_line(text)}
    BY <1>5, <1>6, <1>7, <1>8
<1> QED BY <1>4, <1>9 DEF low

IsCloakingRow(r) == r.name \in Seq(DOMAIN Rank) /\ r.mapped \in Seq(DOMAIN Rank)

\* The row of a line that cloaks: two different words, of which the second is
\* no pattern.
LEMMA CloakingRowFacts ==
    ASSUME NEW group, NEW line \in Seq(DOMAIN Rank), Cloaks(line),
           NEW r, r = CloakingRow(group, line)
    PROVE  /\ r = [group |-> group, name |-> r.name, record_type |-> RecordType(r.mapped),
                   mapped |-> r.mapped, use_glob |-> UsesGlob(r.name)]
           /\ IsCloakingRow(r)
           /\ r.name # r.mapped
           /\ ~UsesGlob(r.mapped)
<1> DEFINE words == Words(Lower(line))
<1>1. Lower(line) \in Seq(DOMAIN Rank)
    BY LoweredFacts
<1>2. \A k \in 1..Len(words) : words[k] \in Seq(DOMAIN Rank)
    BY <1>1, WordsFacts
<1>3. /\ Len(words) = 2 /\ words[1] # words[2]
      /\ RecordType(words[2]) = "CNAME" => ~UsesGlob(words[2])
    BY DEF Cloaks
<1>4. r = [group |-> group, name |-> words[1], record_type |-> RecordType(words[2]),
           mapped |-> words[2], use_glob |-> UsesGlob(words[1])]
    BY DEF CloakingRow
<1> HIDE DEF words
<1>5. words[1] \in Seq(DOMAIN Rank) /\ words[2] \in Seq(DOMAIN Rank)
    BY <1>2, <1>3
<1>6. ASSUME RecordType(words[2]) # "CNAME" PROVE ~UsesGlob(words[2])
    <2>1. PICK a \in Ipv4 \cup Ipv6 : words[2] = <<a>>
        BY <1>6 DEF RecordType, IsAddress
    <2>2. a # "*" /\ a # "?"
        BY AddressAssumption
    <2>3. \A i \in 1..Len(<<a>>) : <<a>>[i] = a
        OBVIOUS
    <2> QED BY <2>1, <2>2, <2>3 DEF UsesGlob
<1>7. r.name = words[1] /\ r.mapped = words[2]
    BY <1>4
<1> QED BY <1>3, <1>4, <1>5, <1>6, <1>7 DEF IsCloakingRow

CloakingLines(text) == {l \in parse_line(text) : Cloaks(l)}

\* The rows of a file of cloaking rules: those of its lines that cloak, each
\* name and mapped once.
LEMMA CloakingRowsFacts ==
    ASSUME NEW group, NEW text \in Seq(Seq(DOMAIN Rank))
    PROVE  /\ CloakingRows(group, text) \in Seq(ToSet(CloakingRows(group, text)))
           /\ ToSet(CloakingRows(group, text)) =
                {CloakingRow(group, line) : line \in CloakingLines(text)}
           /\ \A i, j \in DOMAIN CloakingRows(group, text) : i # j =>
                \/ CloakingRows(group, text)[i].name # CloakingRows(group, text)[j].name
                \/ CloakingRows(group, text)[i].mapped # CloakingRows(group, text)[j].mapped
<1> DEFINE lines == CloakingLines(text)
           f == [l \in lines |-> CloakingRow(group, l)]
           S == {CloakingRow(group, line) : line \in lines}
           before == [r \in S |-> {q \in S : RowBefore(q, r)}]
           s == Sorted(S, before)
<1>1. CloakingRows(group, text) = s
    BY DEF CloakingRows, CloakingLines
<1>2. lines \in SUBSET parse_line(text) /\ \A l \in lines : Cloaks(l)
    BY DEF CloakingLines
<1>3. IsFiniteSet(lines) /\ lines \subseteq Seq(DOMAIN Rank)
    BY <1>2, ParseFacts, FS_Subset
<1> HIDE DEF lines
<1>4. IsFiniteSet(S)
    <2>1. S = {f[l] : l \in lines}
        OBVIOUS
    <2> HIDE DEF S, f
    <2> QED BY <1>3, <2>1, FiniteImage
<1>5. \A r \in S : \E l \in lines : r = CloakingRow(group, l)
    OBVIOUS
<1> HIDE DEF S
<1>6. \A r \in S :
        /\ IsCloakingRow(r)
        /\ r = [group |-> group, name |-> r.name, record_type |-> RecordType(r.mapped),
                mapped |-> r.mapped, use_glob |-> UsesGlob(r.name)]
    BY <1>2, <1>3, <1>5, CloakingRowFacts
<1>7. \A r, q \in S : r.name = q.name /\ r.mapped = q.mapped => r = q
    BY <1>6
<1>8. Orders(S, before)
    BY <1>6, <1>7, RowsAreOrdered DEF IsCloakingRow
<1> HIDE DEF before
<1>9. /\ s \in Seq(S) /\ DOMAIN s = 1..Len(s) /\ ToSet(s) = S
      /\ \A i, j \in DOMAIN s : i # j => s[i] # s[j]
    BY <1>4, <1>8, SortedFacts
<1> HIDE DEF s
<1>10. \A i \in DOMAIN s : s[i] \in S
    BY <1>9 DEF ToSet
<1>11. \A i, j \in DOMAIN s : i # j => s[i].name # s[j].name \/ s[i].mapped # s[j].mapped
    BY <1>7, <1>9, <1>10
<1>12. s \in Seq(ToSet(s))
    BY <1>9
<1>13. ToSet(s) = {CloakingRow(group, line) : line \in CloakingLines(text)}
    BY <1>9 DEF S, lines
<1> QED BY <1>1, <1>11, <1>12, <1>13

-----------------------------------------------------------------------------
(* The order of lines, and the spelling of names *)

\* Of a reachable state, a file is a sequence of lines.
LEMMA ReadTexts ==
    ASSUME TypeOK, NEW f \in DOMAIN texts
    PROVE  texts[f] \in Seq(Seq(DOMAIN Rank))
BY TextsAssumption DEF TypeOK

\* Texts of the same lines have the same rows.
LEMMA SameLines ==
    ASSUME NEW text, NEW other, ToSet(text) = ToSet(other), NEW group
    PROVE  /\ NameRows(group, text) = NameRows(group, other)
           /\ CloakingRows(group, text) = CloakingRows(group, other)
<1>1. parse_line(text) = parse_line(other)
    BY DEF parse_line
<1> QED BY <1>1 DEF NameRows, CloakingRows

\* The order of the lines of a file and lines written twice change neither the
\* rows nor their order, for all files.
THEOREM LineOrder == Spec => []LineOrderIsInert
<1>1. TypeOK => LineOrderIsInert
    <2> SUFFICES ASSUME TypeOK, NEW f \in DOMAIN texts,
                        NEW text \in Reordered(texts[f]) \cup {texts[f] \o texts[f]}
                 PROVE  /\ NameRows("default", text) = NameRows("default", texts[f])
                        /\ CloakingRows("default", text) = CloakingRows("default", texts[f])
        BY DEF LineOrderIsInert
    <2> DEFINE t == texts[f]
               D == DOMAIN t
               n == Len(t)
    <2>1. t \in Seq(Seq(DOMAIN Rank))
        BY ReadTexts
    <2> HIDE DEF t
    <2>2. n \in Nat /\ D = 1..n
        BY <2>1
    <2>3. CASE text \in Reordered(t)
        <3>1. PICK p \in Bijection(D, D) : text = [i \in D |-> t[p[i]]]
            BY <2>3 DEF Reordered
        <3>2. p \in [D -> D] /\ \A d \in D : \E i \in D : p[i] = d
            BY <3>1 DEF Bijection, Injection, Surjection
        <3>3. DOMAIN text = D /\ \A i \in D : text[i] = t[p[i]]
            BY <3>1
        <3> QED BY <3>2, <3>3, SameLines DEF ToSet, t
    <2>4. CASE text = t \o t
        <3>1. /\ DOMAIN text = 1..(n + n)
              /\ \A i \in 1..(n + n) : text[i] = IF i <= n THEN t[i] ELSE t[i - n]
            BY <2>1, <2>4
        <3> HIDE DEF n
        <3>2. /\ \A i \in 1..(n + n) : i <= n => i \in 1..n
              /\ \A i \in 1..(n + n) : ~(i <= n) => i - n \in 1..n
              /\ \A i \in 1..n : i \in 1..(n + n) /\ i <= n
            BY <2>2
        <3>3. ToSet(text) = ToSet(t)
            BY <2>2, <3>1, <3>2 DEF ToSet
        <3> QED BY <3>3, SameLines DEF t
    <2> QED BY <2>3, <2>4 DEF t
<1> QED BY <1>1, TypeCorrect, PTL

\* A cloaking rule is the same however it is spelled.
LEMMA SameCloaking ==
    ASSUME NEW l \in Seq(DOMAIN Rank), NEW group
    PROVE  /\ Cloaks(Lower(l)) <=> Cloaks(l)
           /\ CloakingRow(group, Lower(l)) = CloakingRow(group, l)
<1>1. Lower(Lower(l)) = Lower(l)
    BY LoweredFacts
<1> QED BY <1>1 DEF Cloaks, CloakingRow

\* However names are spelled in a file, it gives the same rules, for all files.
THEOREM FileSpelling == Spec => []SpellingIsInert
<1>1. TypeOK => SpellingIsInert
    <2> SUFFICES ASSUME TypeOK, NEW f \in DOMAIN texts
                 PROVE  LET lower == LowerText(texts[f])
                        IN  /\ ToSet(NameRows("default", lower))
                                 = ToSet(NameRows("default", texts[f]))
                            /\ CloakingRows("default", lower) = CloakingRows("default", texts[f])
        BY DEF SpellingIsInert, LowerText
    <2> DEFINE t == texts[f]
               low == LowerText(t)
               lines == parse_line(t)
    <2>1. t \in Seq(Seq(DOMAIN Rank))
        BY ReadTexts
    <2> HIDE DEF t
    <2>2. low \in Seq(Seq(DOMAIN Rank)) /\ parse_line(low) = {Lower(l) : l \in lines}
        BY <2>1, LowerParse
    <2>3. lines \subseteq Seq(DOMAIN Rank)
        BY <2>1, ParseFacts
    <2>4. \A text \in Seq(Seq(DOMAIN Rank)) :
            ToSet(NameRows("default", text)) =
              {NameRow("default", w) : w \in {l \in parse_line(text) : Blank \notin ToSet(l)}}
        BY NameRowsFacts
    <2>5. \A l \in lines : /\ Blank \in ToSet(Lower(l)) <=> Blank \in ToSet(l)
                           /\ NameRow("default", Lower(l)) = NameRow("default", l)
                           /\ Cloaks(Lower(l)) <=> Cloaks(l)
                           /\ CloakingRow("default", Lower(l)) = CloakingRow("default", l)
        BY <2>3, LoweredFacts, SameNameRow, SameCloaking
    <2> HIDE DEF lines, low
    <2>6. {NameRow("default", w) : w \in {l \in parse_line(low) : Blank \notin ToSet(l)}}
            = {NameRow("default", w) : w \in {l \in lines : Blank \notin ToSet(l)}}
        BY <2>2, <2>5
    <2>7. ToSet(NameRows("default", low)) = ToSet(NameRows("default", t))
        BY <2>1, <2>2, <2>4, <2>6 DEF lines
    <2>8. {CloakingRow("default", line) : line \in {l \in parse_line(low) : Cloaks(l)}}
            = {CloakingRow("default", line) : line \in {l \in lines : Cloaks(l)}}
        BY <2>2, <2>5
    <2>9. CloakingRows("default", low) = CloakingRows("default", t)
        BY <2>8 DEF CloakingRows, lines
    <2> QED BY <2>7, <2>9 DEF low, t
<1> QED BY <1>1, TypeCorrect, PTL

-----------------------------------------------------------------------------
(* The rows of all files *)

\* The elements of two sequences put together.
LEMMA ConcatFacts ==
    ASSUME NEW T, NEW s \in Seq(T), NEW t \in Seq(T)
    PROVE  s \o t \in Seq(T) /\ ToSet(s \o t) = ToSet(s) \cup ToSet(t)
<1> DEFINE m == Len(s)
           n == Len(t)
           u == s \o t
<1>1. m \in Nat /\ n \in Nat /\ DOMAIN s = 1..m /\ DOMAIN t = 1..n
    OBVIOUS
<1>2. /\ u \in Seq(T) /\ DOMAIN u = 1..(m + n)
      /\ \A i \in 1..(m + n) : u[i] = IF i <= m THEN s[i] ELSE t[i - m]
    OBVIOUS
<1> HIDE DEF m, n, u
<1>3. /\ \A i \in 1..(m + n) : (i <= m => i \in 1..m) /\ (~(i <= m) => i - m \in 1..n)
      /\ \A i \in 1..m : i \in 1..(m + n) /\ i <= m
      /\ \A i \in 1..n : i + m \in 1..(m + n) /\ ~(i + m <= m) /\ (i + m) - m = i
    BY <1>1
<1>4. \A i \in 1..m : u[i] = s[i]
    BY <1>2, <1>3
<1>5. \A i \in 1..n : u[i + m] = t[i]
    BY <1>2, <1>3
<1>6. ToSet(u) = ToSet(s) \cup ToSet(t)
    <2>1. \A x : x \in ToSet(u) <=> \E i \in 1..(m + n) : u[i] = x
        BY <1>2 DEF ToSet
    <2>2. \A x : x \in ToSet(s) <=> \E i \in 1..m : s[i] = x
        BY <1>1 DEF ToSet
    <2>3. \A x : x \in ToSet(t) <=> \E i \in 1..n : t[i] = x
        BY <1>1 DEF ToSet
    <2>4. ASSUME NEW x, x \in ToSet(u) PROVE x \in ToSet(s) \cup ToSet(t)
        BY <1>2, <1>3, <2>1, <2>2, <2>3, <2>4
    <2>5. ASSUME NEW x, x \in ToSet(s) \cup ToSet(t) PROVE x \in ToSet(u)
        BY <1>3, <1>4, <1>5, <2>1, <2>2, <2>3, <2>5
    <2> QED BY <2>4, <2>5
<1> QED BY <1>2, <1>6 DEF u

IsFlatten(f, seqs, n) ==
    f = [i \in 1..n |-> IF i = 1 THEN seqs[i] ELSE f[i - 1] \o seqs[i]]

\* The recursive function inside FlattenSeq exists for every number of sequences.
LEMMA FlattenExists ==
    ASSUME NEW seqs
    PROVE  \A n \in Nat : \E f : IsFlatten(f, seqs, n)
<1> DEFINE P == {n \in Nat : \E f : IsFlatten(f, seqs, n)}
<1>1. 0 \in P
    <2>1. IsFlatten(<<>>, seqs, 0)
        BY DEF IsFlatten
    <2> QED BY <2>1
<1>2. ASSUME NEW n \in Nat, n \in P PROVE n + 1 \in P
    <2>1. PICK f : IsFlatten(f, seqs, n)
        BY <1>2
    <2> DEFINE last == IF n + 1 = 1 THEN seqs[n + 1] ELSE f[n] \o seqs[n + 1]
               g == [i \in 1..(n + 1) |-> IF i <= n THEN f[i] ELSE last]
    <2>2. \A i \in 1..(n + 1) :
            g[i] = IF i = 1 THEN seqs[i] ELSE g[i - 1] \o seqs[i]
        <3>1. \A i \in 1..n : f[i] = IF i = 1 THEN seqs[i] ELSE f[i - 1] \o seqs[i]
            BY <2>1 DEF IsFlatten
        <3>2. ASSUME NEW i \in 1..n
              PROVE  g[i] = IF i = 1 THEN seqs[i] ELSE g[i - 1] \o seqs[i]
            <4>1. i # 1 => i - 1 \in 1..(n + 1) /\ i - 1 <= n
                OBVIOUS
            <4>2. i \in 1..(n + 1) /\ i <= n
                OBVIOUS
            <4>3. g[i] = f[i] /\ (i # 1 => g[i - 1] = f[i - 1])
                BY <4>1, <4>2
            <4> HIDE DEF g
            <4> QED BY <3>1, <4>3
        <3>3. g[n + 1] = IF n + 1 = 1 THEN seqs[n + 1] ELSE g[n] \o seqs[n + 1]
            <4>1. g[n + 1] = last
                OBVIOUS
            <4>2. n + 1 # 1 => g[n] = f[n]
                OBVIOUS
            <4> HIDE DEF g
            <4> QED BY <4>1, <4>2
        <3> HIDE DEF g
        <3>4. \A i \in 1..(n + 1) : i \in 1..n \/ i = n + 1
            OBVIOUS
        <3>5. (n + 1) - 1 = n
            OBVIOUS
        <3> QED BY <3>2, <3>3, <3>4, <3>5
    <2>3. IsFlatten(g, seqs, n + 1)
        BY <2>2 DEF IsFlatten
    <2> QED BY <2>3
<1> HIDE DEF P
<1>3. \A n \in Nat : n \in P
    BY <1>1, <1>2, Induction
<1> QED BY <1>3 DEF P

IsSequence(s) == s \in Seq(ToSet(s))

\* Sequences put end to end hold what each of them holds.
LEMMA FlattenFacts ==
    ASSUME NEW n \in Nat, NEW seqs, seqs = [i \in 1..n |-> seqs[i]],
           \A i \in 1..n : IsSequence(seqs[i])
    PROVE  /\ IsSequence(FlattenSeq(seqs))
           /\ ToSet(FlattenSeq(seqs)) = UNION {ToSet(seqs[i]) : i \in 1..n}
<1> DEFINE T == UNION {ToSet(seqs[i]) : i \in 1..n}
           upto(k) == UNION {ToSet(seqs[i]) : i \in 1..k}
<1>1. seqs \in Seq({seqs[i] : i \in 1..n}) /\ Len(seqs) = n
    OBVIOUS
<1>2. CASE n = 0
    <2>1. FlattenSeq(seqs) = seqs
        BY <1>1, <1>2 DEF FlattenSeq
    <2>2. seqs = <<>>
        BY <1>2
    <2>3. ToSet(<<>>) = {} /\ <<>> \in Seq({})
        BY DEF ToSet
    <2>4. T = {}
        BY <1>2
    <2> QED BY <2>1, <2>2, <2>3, <2>4 DEF IsSequence
<1>3. CASE n # 0
    <2>1. PICK f : IsFlatten(f, seqs, n) /\ FlattenSeq(seqs) = f[n]
        <3> DEFINE g == CHOOSE g : g = [i \in 1..n |-> IF i = 1 THEN seqs[i]
                                                     ELSE g[i - 1] \o seqs[i]]
        <3>1. \E g2 : g2 = [i \in 1..n |-> IF i = 1 THEN seqs[i] ELSE g2[i - 1] \o seqs[i]]
            BY FlattenExists DEF IsFlatten
        <3>2. g = [i \in 1..n |-> IF i = 1 THEN seqs[i] ELSE g[i - 1] \o seqs[i]]
            BY <3>1
        <3>3. FlattenSeq(seqs) = g[n]
            BY <1>1, <1>3 DEF FlattenSeq
        <3> HIDE DEF g
        <3> QED BY <3>2, <3>3 DEF IsFlatten
    <2>2. f[1] = seqs[1] /\ \A i \in 1..n : i # 1 => f[i] = f[i - 1] \o seqs[i]
        <3>1. \A i \in 1..n : f[i] = IF i = 1 THEN seqs[i] ELSE f[i - 1] \o seqs[i]
            BY <2>1 DEF IsFlatten
        <3>2. 1 \in 1..n
            BY <1>3
        <3> QED BY <3>1, <3>2
    <2>3. \A i \in 1..n : seqs[i] \in Seq(T)
        <3> SUFFICES ASSUME NEW i \in 1..n PROVE seqs[i] \in Seq(T)
            OBVIOUS
        <3>1. seqs[i] \in Seq(ToSet(seqs[i])) /\ ToSet(seqs[i]) \subseteq T
            BY DEF IsSequence
        <3> HIDE DEF T
        <3> QED BY <3>1
    <2> HIDE DEF T
    <2> DEFINE P == {k \in Nat : k + 1 <= n => f[k + 1] \in Seq(T) /\ ToSet(f[k + 1]) = upto(k + 1)}
    <2>4. 0 \in P
        <3>1. 1 \in 1..n /\ 0 + 1 = 1
            BY <1>3
        <3>2. upto(1) = ToSet(seqs[1])
            OBVIOUS
        <3> HIDE DEF upto
        <3> QED BY <2>2, <2>3, <3>1, <3>2
    <2>5. ASSUME NEW k \in Nat, k \in P PROVE k + 1 \in P
        <3> SUFFICES ASSUME k + 2 <= n
                     PROVE  f[k + 2] \in Seq(T) /\ ToSet(f[k + 2]) = upto(k + 2)
            <4>1. (k + 1) + 1 = k + 2 /\ k + 1 \in Nat
                OBVIOUS
            <4> HIDE DEF upto
            <4> QED BY <4>1
        <3>1. f[k + 1] \in Seq(T) /\ ToSet(f[k + 1]) = upto(k + 1)
            <4> HIDE DEF upto
            <4> QED BY <2>5
        <3>2. k + 2 \in 1..n /\ k + 2 # 1 /\ (k + 2) - 1 = k + 1
            OBVIOUS
        <3>3. f[k + 2] = f[k + 1] \o seqs[k + 2] /\ seqs[k + 2] \in Seq(T)
            BY <2>2, <2>3, <3>2
        <3>4. upto(k + 2) = upto(k + 1) \cup ToSet(seqs[k + 2])
            <4>1. \A i : i \in 1..(k + 2) <=> i \in 1..(k + 1) \/ i = k + 2
                OBVIOUS
            <4> QED BY <4>1
        <3> DEFINE s == f[k + 1]
                   t == seqs[k + 2]
        <3>5. s \o t \in Seq(T) /\ ToSet(s \o t) = ToSet(s) \cup ToSet(t)
            <4> HIDE DEF s, t
            <4>1. s \in Seq(T) /\ t \in Seq(T)
                BY <3>1, <3>3 DEF s, t
            <4> QED BY <4>1, ConcatFacts
        <3> HIDE DEF upto
        <3> QED BY <3>1, <3>3, <3>4, <3>5
    <2> HIDE DEF P
    <2>6. n - 1 \in P
        BY <1>3, <2>4, <2>5, Induction
    <2>7. n - 1 \in Nat /\ (n - 1) + 1 = n
        BY <1>3
    <2>8. f[n] \in Seq(T) /\ ToSet(f[n]) = upto(n)
        <3> HIDE DEF upto
        <3> QED BY <2>6, <2>7 DEF P
    <2> QED BY <2>1, <2>8 DEF T, IsSequence
<1> QED BY <1>2, <1>3

\* The six tables, by their places.
LEMMA TablesFacts ==
    /\ Len(Tables) = 6
    /\ \A i \in 1..6 : Tables[i] \in TableSet
    /\ \A t \in TableSet : \E i \in 1..6 : t = Tables[i]
    /\ "cloaking_rules" \in TableSet
<1>1. Len(Tables) = 6 /\ DOMAIN Tables = 1..6
    BY DEF Tables
<1>2. TableSet = {Tables[i] : i \in 1..6}
    BY <1>1 DEF TableSet, ToSet
<1>3. "cloaking_rules" = Tables[5] /\ 5 \in 1..6
    BY DEF Tables
<1> QED BY <1>1, <1>2, <1>3

\* The tables hold what has been read from the files they are read from.
RowsRead ==
    /\ \A t \in TableSet : Listed(rules[t])
    /\ phase = "read" =>
         /\ at \in 1..Len(Tables)
         /\ \A i \in 1..(at - 1) : rows[Tables[i]] = read_file1(Tables[i])
    /\ phase = "ready" => \A t \in TableSet : rows[t] = read_file1(t)

\* RowsRead is inductive.
LEMMA StepRowsRead == ASSUME TypeOK, RowsRead, Next PROVE RowsRead'
<1> USE DEF Raise, Goto
<1>1. CASE CheckSections \/ ReadUpstream \/ NoMoreUpstream \/ ReadDefault
    <2>1. /\ rules' = rules
          /\ phase' \in {"upstream", "default", "rules", "failed"}
        <3>1. CASE CheckSections
            BY <3>1 DEF CheckSections
        <3>2. CASE ReadUpstream
            BY <3>2 DEF ReadUpstream
        <3>3. CASE NoMoreUpstream
            BY <3>3 DEF NoMoreUpstream
        <3>4. CASE ReadDefault
            BY <3>4 DEF ReadDefault
        <3> QED BY <1>1, <3>1, <3>2, <3>3, <3>4
    <2> QED BY <2>1 DEF RowsRead
<1>2. CASE ReadRules
    <2>1. phase' \in {"rules", "failed"} /\ at \in 1..6 /\ phase = "rules"
        BY <1>2, TablesFacts DEF ReadRules, TypeOK
    <2>2. \/ rules' = rules
          \/ rules' = [rules EXCEPT ![Tables[at]] = Groups(object.rules[Tables[at]])]
        BY <1>2 DEF ReadRules
    <2>3. Listed(Groups(object.rules[Tables[at]]))
        BY <2>1, GroupsAssumption, TablesFacts DEF TypeOK
    <2>4. \A t \in TableSet : Listed(rules'[t])
        BY <2>2, <2>3 DEF RowsRead, TypeOK
    <2> QED BY <2>1, <2>4 DEF RowsRead
<1>3. CASE CheckForwarding
    <2>1. /\ rules' = rules
          /\ phase' = "failed" \/ (phase' = "read" /\ at' = 1)
        BY <1>3 DEF CheckForwarding
    <2>2. 1 \in 1..Len(Tables) /\ 1..(1 - 1) = {}
        BY TablesFacts
    <2> QED BY <2>1, <2>2 DEF RowsRead
<1>4. CASE ReadFails
    BY <1>4 DEF ReadFails, RowsRead
<1>5. CASE ReadTable
    <2>1. /\ rules' = rules /\ texts' = texts
          /\ phase = "read"
          /\ rows' = [rows EXCEPT ![Tables[at]] = read_file1(Tables[at])]
          /\ IF at < 6 THEN at' = at + 1 /\ phase' = phase ELSE phase' = "ready"
        BY <1>5, TablesFacts DEF ReadTable
    <2>2. /\ at \in 1..6
          /\ \A i \in 1..(at - 1) : rows[Tables[i]] = read_file1(Tables[i])
        BY <2>1, TablesFacts DEF RowsRead
    <2>3. \A t : read_file1(t)' = read_file1(t)
        BY <2>1 DEF read_file1, RowsOf
    <2>4. \A i \in 1..at : rows'[Tables[i]] = read_file1(Tables[i])
        <3> SUFFICES ASSUME NEW i \in 1..at PROVE rows'[Tables[i]] = read_file1(Tables[i])
            OBVIOUS
        <3>1. i \in 1..6 /\ Tables[i] \in DOMAIN rows
            BY <2>2, TablesFacts DEF TypeOK
        <3>2. CASE Tables[i] = Tables[at]
            BY <2>1, <3>1, <3>2
        <3>3. CASE Tables[i] # Tables[at]
            <4>1. i \in 1..(at - 1)
                BY <2>2, <3>3
            <4> QED BY <2>1, <2>2, <3>1, <3>3, <4>1
        <3> QED BY <3>2, <3>3
    <2>5. CASE at < 6
        <3>1. phase' = "read" /\ at' \in 1..6 /\ at' - 1 = at
            BY <2>1, <2>2, <2>5
        <3>2. \A i \in 1..(at' - 1) : rows'[Tables[i]] = read_file1(Tables[i])'
            BY <2>3, <2>4, <3>1
        <3> QED BY <2>1, <3>1, <3>2, TablesFacts DEF RowsRead
    <2>6. CASE ~(at < 6)
        <3>1. phase' = "ready" /\ at = 6
            BY <2>1, <2>2, <2>6
        <3>2. \A t \in TableSet : rows'[t] = read_file1(t)'
            BY <2>3, <2>4, <3>1, TablesFacts
        <3> QED BY <2>1, <3>1, <3>2 DEF RowsRead
    <2> QED BY <2>5, <2>6
<1> QED BY <1>1, <1>2, <1>3, <1>4, <1>5 DEF Next

\* Every reachable state satisfies the inductive invariant.
THEOREM Reading == Spec => []RowsRead
<1>1. Init => RowsRead
    <2>1. Listed(<<>>)
        BY DEF Listed, ToSet
    <2> QED BY <2>1 DEF Init, RowsRead, NoRows
<1>2. TypeOK /\ RowsRead /\ [Next]_vars => RowsRead'
    <2>1. ASSUME RowsRead, UNCHANGED vars PROVE RowsRead'
        <3>1. /\ UNCHANGED <<rules, rows, phase, at>>
              /\ \A t : read_file1(t)' = read_file1(t)
            BY <2>1 DEF vars, read_file1, RowsOf
        <3> QED BY <2>1, <3>1 DEF RowsRead
    <2> QED BY <2>1, StepRowsRead
<1> QED BY <1>1, <1>2, TypeCorrect, PTL DEF Spec

\* The rows of a file are a sequence, whatever the file and its table.
LEMMA RowsOfFacts ==
    ASSUME TypeOK, NEW t, NEW group, NEW f
    PROVE  IsSequence(RowsOf(t, group, f))
<1>1. IsSequence(<<>>)
    BY DEF IsSequence, ToSet
<1>2. ASSUME f \in DOMAIN texts
      PROVE  /\ IsSequence(CloakingRows(group, texts[f]))
             /\ IsSequence(NameRows(group, texts[f]))
    <2>1. texts[f] \in Seq(Seq(DOMAIN Rank))
        BY <1>2, ReadTexts
    <2> QED BY <2>1, CloakingRowsFacts, NameRowsFacts DEF IsSequence
<1> QED BY <1>1, <1>2 DEF RowsOf

\* A table holds the rows of its files.
LEMMA ReadFacts ==
    ASSUME TypeOK, NEW t, Listed(rules[t])
    PROVE  ToSet(read_file1(t)) =
             UNION {UNION {ToSet(RowsOf(t, rules[t][i].key, f)) : f \in ToSet(rules[t][i].value)} :
                    i \in DOMAIN rules[t]}
<1> DEFINE groups == rules[t]
           n == Len(groups)
           of(i) == UNION {ToSet(RowsOf(t, groups[i].key, f)) : f \in ToSet(groups[i].value)}
           rowsOf(i) == FlattenSeq([k \in DOMAIN groups[i].value |->
                                      RowsOf(t, groups[i].key, groups[i].value[k])])
           seqs == [i \in DOMAIN groups |-> rowsOf(i)]
<1>1. n \in Nat /\ DOMAIN groups = 1..n
    BY DEF Listed
<1>2. ASSUME NEW i \in 1..n PROVE IsSequence(rowsOf(i)) /\ ToSet(rowsOf(i)) = of(i)
    <2> DEFINE files == groups[i].value
               m == Len(files)
               s == [k \in 1..m |-> RowsOf(t, groups[i].key, files[k])]
    <2>1. files \in Seq(ToSet(files))
        BY <1>1 DEF Listed
    <2> HIDE DEF files
    <2>2. m \in Nat /\ DOMAIN files = 1..m
        BY <2>1
    <2>3. rowsOf(i) = FlattenSeq(s)
        BY <2>2 DEF files
    <2>4. \A k \in 1..m : s[k] = RowsOf(t, groups[i].key, files[k])
        OBVIOUS
    <2>5. s = [k \in 1..m |-> s[k]] /\ \A k \in 1..m : IsSequence(s[k])
        BY RowsOfFacts
    <2> HIDE DEF s, m, rowsOf, groups
    <2>6. /\ IsSequence(FlattenSeq(s))
          /\ ToSet(FlattenSeq(s)) = UNION {ToSet(s[k]) : k \in 1..m}
        BY <2>2, <2>5, FlattenFacts
    <2>7. UNION {ToSet(s[k]) : k \in 1..m}
            = UNION {ToSet(RowsOf(t, groups[i].key, f)) : f \in ToSet(files)}
        BY <2>2, <2>4 DEF ToSet
    <2> QED BY <2>3, <2>6, <2>7 DEF files
<1>3. read_file1(t) = FlattenSeq(seqs)
    BY DEF read_file1
<1> HIDE DEF rowsOf, of, groups
<1>4. seqs = [i \in 1..n |-> seqs[i]] /\ \A i \in 1..n : seqs[i] = rowsOf(i)
    BY <1>1
<1> HIDE DEF seqs, n
<1>5. \A i \in 1..n : IsSequence(seqs[i])
    BY <1>2, <1>4
<1>6. ToSet(FlattenSeq(seqs)) = UNION {ToSet(seqs[i]) : i \in 1..n}
    BY <1>1, <1>4, <1>5, FlattenFacts
<1>7. UNION {ToSet(seqs[i]) : i \in 1..n} = UNION {of(i) : i \in DOMAIN groups}
    BY <1>1, <1>2, <1>4
<1> QED BY <1>3, <1>6, <1>7 DEF of, groups

-----------------------------------------------------------------------------
(* What the tables say *)

Said1(group, w) == [group |-> group, name |-> Lower(w)]

\* The rows of a file of names are what its lines say.
LEMMA NamesAsWritten ==
    ASSUME TypeOK, NEW t \in NameTables, NEW group, NEW f
    PROVE  {[group |-> r.group, name |-> r.name] : r \in ToSet(RowsOf(t, group, f))} =
             UNION {{Said1(group, w) : w \in Said(line)} :
                    line \in IF f \in DOMAIN texts THEN ToSet(texts[f]) ELSE {}}
<1>1. CASE f \notin DOMAIN texts
    <2>1. ToSet(RowsOf(t, group, f)) = {}
        BY <1>1 DEF RowsOf, ToSet
    <2> QED BY <1>1, <2>1
<1>2. CASE f \in DOMAIN texts
    <2> DEFINE text == texts[f]
               words == {l \in parse_line(text) : Blank \notin ToSet(l)}
               lines == ToSet(text)
    <2>1. text \in Seq(Seq(DOMAIN Rank))
        BY <1>2, ReadTexts
    <2>2. RowsOf(t, group, f) = NameRows(group, text)
        BY <1>2 DEF RowsOf, NameTables
    <2> HIDE DEF text
    <2>3. ToSet(RowsOf(t, group, f)) = {NameRow(group, w) : w \in words}
        BY <2>1, <2>2, NameRowsFacts
    <2>4. \A w : NameRow(group, w).group = group /\ NameRow(group, w).name = Lower(w)
        BY DEF NameRow
    <2>5. {[group |-> r.group, name |-> r.name] : r \in ToSet(RowsOf(t, group, f))}
            = {Said1(group, w) : w \in words}
        <3> HIDE DEF words
        <3> QED BY <2>3, <2>4 DEF Said1
    <2>6. \A line \in lines : line \in Seq(DOMAIN Rank)
        BY <2>1 DEF ToSet
    <2>7. \A line \in lines :
            Said(line) = {w \in {Strip(Cut(line))} : w # <<>> /\ Blank \notin ToSet(w)}
        BY <2>6, SaidFacts
    <2>8. \A w : w \in words <=> \E line \in lines : w \in Said(line)
        <3> HIDE DEF lines
        <3>1. \A w : w \in words <=> /\ w # <<>> /\ Blank \notin ToSet(w)
                                     /\ \E line \in lines : w = Strip(Cut(line))
            BY DEF parse_line, lines
        <3> HIDE DEF words
        <3> QED BY <2>7, <3>1
    <2> HIDE DEF words, lines
    <2>9. {Said1(group, w) : w \in words}
            = UNION {{Said1(group, w) : w \in Said(line)} : line \in lines}
        BY <2>8
    <2> QED BY <1>2, <2>5, <2>9 DEF lines, text
<1> QED BY <1>1, <1>2

\* Line for line, the name and address tables hold what the files say and nothing
\* else, for all files and all ways they are grouped.
THEOREM Writing == Spec => []RowsAsWritten
<1>1. TypeOK /\ RowsRead => RowsAsWritten
    <2> DEFINE name(r) == [group |-> r.group, name |-> r.name]
    <2> SUFFICES ASSUME TypeOK, RowsRead, phase = "ready", NEW t \in NameTables
                 PROVE  {name(r) : r \in ToSet(rows[t])} =
                          UNION {{Said1(l.group, w) : w \in Said(l.line)} : l \in LinesOf(t)}
        BY DEF RowsAsWritten, Said1
    <2> DEFINE groups == rules[t]
               rowsOf(i, f) == ToSet(RowsOf(t, groups[i].key, f))
               linesOf(f) == IF f \in DOMAIN texts THEN ToSet(texts[f]) ELSE {}
               of(i) == ToSet(groups[i].value)
    <2>1. ToSet(rows[t]) = UNION {UNION {rowsOf(i, f) : f \in of(i)} : i \in DOMAIN groups}
        <3>1. t \in TableSet
            BY DEF NameTables
        <3>2. rows[t] = read_file1(t) /\ Listed(rules[t])
            BY <3>1 DEF RowsRead
        <3> QED BY <3>2, ReadFacts
    <2>2. LinesOf(t) = UNION {UNION {{[group |-> groups[i].key, line |-> line] :
                                        line \in linesOf(f)} : f \in of(i)} :
                              i \in DOMAIN groups}
        BY DEF LinesOf
    <2>3. \A i, f : {name(r) : r \in rowsOf(i, f)} =
                      UNION {{Said1(groups[i].key, w) : w \in Said(line)} : line \in linesOf(f)}
        BY NamesAsWritten
    <2> HIDE DEF rowsOf, linesOf, of, groups
    <2>4. \A x : x \in {name(r) : r \in ToSet(rows[t])} <=>
                   \E i \in DOMAIN groups : \E f \in of(i) : x \in {name(r) : r \in rowsOf(i, f)}
        <3> HIDE DEF name
        <3> QED BY <2>1
    <2>5. \A l : l \in LinesOf(t) <=>
                   \E i \in DOMAIN groups : \E f \in of(i) : \E line \in linesOf(f) :
                       l = [group |-> groups[i].key, line |-> line]
        BY <2>2
    <2> DEFINE said(l) == {Said1(l.group, w) : w \in Said(l.line)}
               saidOf(i, line) == {Said1(groups[i].key, w) : w \in Said(line)}
    <2>6. \A x : x \in UNION {said(l) : l \in LinesOf(t)} <=>
                   \E i \in DOMAIN groups : \E f \in of(i) : \E line \in linesOf(f) :
                       x \in saidOf(i, line)
        <3>1. \A i, line : said([group |-> groups[i].key, line |-> line]) = saidOf(i, line)
            OBVIOUS
        <3> HIDE DEF said, saidOf
        <3>2. ASSUME NEW x, NEW l \in LinesOf(t), x \in said(l)
              PROVE  \E i \in DOMAIN groups : \E f \in of(i) : \E line \in linesOf(f) :
                         x \in saidOf(i, line)
            BY <2>5, <3>1, <3>2
        <3>3. ASSUME NEW x, NEW i \in DOMAIN groups, NEW f \in of(i), NEW line \in linesOf(f),
                     x \in saidOf(i, line)
              PROVE  \E l \in LinesOf(t) : x \in said(l)
            <4> DEFINE l == [group |-> groups[i].key, line |-> line]
            <4>1. l \in LinesOf(t)
                BY <2>5
            <4>2. x \in said(l)
                BY <3>1, <3>3
            <4> HIDE DEF l
            <4> QED BY <4>1, <4>2
        <3> QED BY <3>2, <3>3
    <2>7. ASSUME NEW i, NEW f
          PROVE  {name(r) : r \in rowsOf(i, f)} = UNION {saidOf(i, line) : line \in linesOf(f)}
        BY <2>3
    <2> HIDE DEF saidOf
    <2> HIDE DEF name
    <2>8. \A x : x \in {name(r) : r \in ToSet(rows[t])} <=>
              x \in UNION {said(l) : l \in LinesOf(t)}
        <3> HIDE DEF said
        <3>1. \A x, i, f : x \in {name(r) : r \in rowsOf(i, f)} <=>
                             \E line \in linesOf(f) : x \in saidOf(i, line)
            BY <2>7
        <3> QED BY <2>4, <2>6, <3>1
    <2> QED BY <2>8
<1> QED BY <1>1, TypeCorrect, Reading, PTL

=============================================================================
