---------------------------- MODULE RuleDbProofs ----------------------------
(***************************************************************************)
(* TLAPS proofs about RuleDb, for every set of rule files, every bound on  *)
(* restarts and every cut of init_db: no table is ever in the way of a     *)
(* create, every variable keeps to its type, a start that ended left the   *)
(* rows of its own files, and the lookups then answer as they should.      *)
(*                                                                         *)
(* Deduplicated is computed by a function that is defined by recursion on  *)
(* the length of a list.  That this function exists and what it computes   *)
(* is shown by induction (see RulesProofs).                                *)
(***************************************************************************)
EXTENDS RuleDb, RulesProofs

-----------------------------------------------------------------------------
(* Deduplicated *)

Add(kept, e) == IF Member(kept, e) THEN kept ELSE Append(kept, e)

IsKept(f, s, n) == f = [i \in 0..n |-> IF i = 0 THEN <<>> ELSE Add(f[i - 1], s[i])]

\* The recursion has a solution.
LEMMA KeptExists == ASSUME NEW s PROVE \A n \in Nat : \E f : IsKept(f, s, n)
<1> DEFINE P == {n \in Nat : \E f : IsKept(f, s, n)}
<1>1. 0 \in P
    <2>1. IsKept([i \in 0..0 |-> <<>>], s, 0)
        BY DEF IsKept
    <2> QED BY <2>1
<1>2. ASSUME NEW n \in Nat, n \in P PROVE n + 1 \in P
    <2>1. PICK f : IsKept(f, s, n)
        BY <1>2
    <2> DEFINE g == [i \in 0..(n + 1) |-> IF i <= n THEN f[i] ELSE Add(f[n], s[n + 1])]
    <2>2. \A i \in 0..(n + 1) : g[i] = IF i = 0 THEN <<>> ELSE Add(g[i - 1], s[i])
        BY <2>1 DEF IsKept
    <2>3. IsKept(g, s, n + 1)
        BY <2>2 DEF IsKept
    <2> QED BY <2>3
<1> HIDE DEF P
<1>3. \A n \in Nat : n \in P
    BY <1>1, <1>2, Induction
<1> QED BY <1>3 DEF P

Kept(s) == CHOOSE f : IsKept(f, s, Len(s))

LEMMA DeduplicatedIsKept ==
    ASSUME NEW s, Len(s) \in Nat
    PROVE  IsKept(Kept(s), s, Len(s)) /\ Deduplicated(s) = Kept(s)[Len(s)]
<1>1. IsKept(Kept(s), s, Len(s))
    BY KeptExists DEF Kept
<1>2. Deduplicated(s) = Kept(s)[Len(s)]
    BY DEF Deduplicated, Kept, IsKept, Add
<1> QED BY <1>1, <1>2

LEMMA AppendFacts ==
    ASSUME NEW S, NEW q \in Seq(S), NEW e \in S
    PROVE  /\ Append(q, e) \in Seq(S)
           /\ Len(q) \in Nat
           /\ Len(Append(q, e)) = Len(q) + 1
           /\ \A i \in 1..Len(q) : Append(q, e)[i] = q[i]
           /\ Append(q, e)[Len(q) + 1] = e
           /\ Rows(Append(q, e)) = Rows(q) \cup {e}
<1>1. /\ Append(q, e) \in Seq(S)
      /\ Len(q) \in Nat
      /\ Len(Append(q, e)) = Len(q) + 1
      /\ \A i \in 1..Len(q) : Append(q, e)[i] = q[i]
      /\ Append(q, e)[Len(q) + 1] = e
    OBVIOUS
<1> DEFINE a == Append(q, e)
<1> HIDE DEF a
<1>2. ASSUME NEW x PROVE x \in Rows(a) <=> x \in Rows(q) \cup {e}
    BY <1>1 DEF Rows, a
<1> QED BY <1>1, <1>2 DEF a

\* Where an element stands first.
LEMMA FirstAtFacts ==
    ASSUME NEW S, NEW s \in Seq(S), NEW e \in Rows(s)
    PROVE  /\ FirstAt(s, e) \in 1..Len(s)
           /\ s[FirstAt(s, e)] = e
           /\ \A j \in 1..(FirstAt(s, e) - 1) : s[j] # e
<1> DEFINE T == {i \in 1..Len(s) : s[i] = e}
<1>1. T \subseteq Nat /\ T # {}
    BY DEF Rows
<1>2. PICK i \in T : \A m \in T : i <= m
    BY <1>1, LeastNumber
<1>3. i \in 1..Len(s) /\ s[i] = e /\ \A j \in 1..(i - 1) : s[j] # e
    BY <1>2
<1> QED BY <1>3 DEF FirstAt

InOrderOf(s, q) ==
    \A i, j \in 1..Len(q) : i < j => FirstAt(s, q[i]) < FirstAt(s, q[j])

\* After n elements each of them is kept once, in the order of first occurrence.
KeptUpTo(s, q, n) ==
    /\ q \in Seq(Rows(s))
    /\ Rows(q) = {s[i] : i \in 1..n}
    /\ \A i \in 1..Len(q) : FirstAt(s, q[i]) <= n
    /\ InOrderOf(s, q)

LEMMA AddStep ==
    ASSUME NEW s, s \in Seq(Rows(s)), NEW n \in 1..Len(s), NEW q, KeptUpTo(s, q, n - 1)
    PROVE  KeptUpTo(s, Add(q, s[n]), n)
<1> DEFINE e == s[n]
           a == Append(q, e)
<1>1. e \in Rows(s) /\ Len(s) \in Nat
    BY DEF Rows
<1>2. {s[i] : i \in 1..n} = {s[i] : i \in 1..(n - 1)} \cup {e}
    BY <1>1
<1>3. \A i \in 1..Len(q) : FirstAt(s, q[i]) \in Nat /\ FirstAt(s, q[i]) <= n - 1
    <2>1. \A i \in 1..Len(q) : q[i] \in Rows(s)
        BY DEF KeptUpTo
    <2>2. \A x \in Rows(s) : FirstAt(s, x) \in 1..Len(s)
        BY FirstAtFacts
    <2> QED BY <2>1, <2>2 DEF KeptUpTo
<1>4. CASE Member(q, e)
    <2>1. e \in Rows(q)
        BY <1>4 DEF Member, Rows
    <2>2. Rows(q) = {s[i] : i \in 1..n}
        BY <1>2, <2>1 DEF KeptUpTo
    <2>3. \A i \in 1..Len(q) : FirstAt(s, q[i]) <= n
        BY <1>3
    <2> QED BY <1>4, <2>2, <2>3 DEF KeptUpTo, Add
<1>5. CASE ~Member(q, e)
    <2>1. /\ a \in Seq(Rows(s)) /\ Len(q) \in Nat /\ Len(a) = Len(q) + 1
          /\ \A i \in 1..Len(q) : a[i] = q[i]
          /\ a[Len(q) + 1] = e
          /\ Rows(a) = Rows(q) \cup {e}
        BY <1>1, AppendFacts DEF KeptUpTo
    <2>2. \A j \in 1..(n - 1) : s[j] # e
        BY <1>5 DEF Member, KeptUpTo, Rows
    <2>3. FirstAt(s, e) = n
        <3>1. /\ FirstAt(s, e) \in 1..Len(s) /\ s[FirstAt(s, e)] = e
              /\ \A j \in 1..(FirstAt(s, e) - 1) : s[j] # e
            BY <1>1, FirstAtFacts
        <3> QED BY <1>1, <2>2, <3>1
    <2> HIDE DEF a, e
    <2>4. \A i \in 1..Len(a) : FirstAt(s, a[i]) <= n
        BY <1>3, <2>1, <2>3
    <2>5. InOrderOf(s, a)
        BY <1>3, <2>1, <2>3 DEF InOrderOf, KeptUpTo
    <2>6. Rows(a) = {s[i] : i \in 1..n}
        BY <1>2, <2>1 DEF KeptUpTo
    <2> QED BY <1>5, <2>1, <2>4, <2>5, <2>6 DEF KeptUpTo, Add, a, e
<1> QED BY <1>4, <1>5

\* Each row once, in the order of the first of its kind.
LEMMA DeduplicatedFacts ==
    ASSUME NEW s, s \in Seq(Rows(s))
    PROVE  /\ Deduplicated(s) \in Seq(Rows(s))
           /\ Rows(Deduplicated(s)) = Rows(s)
           /\ InOrderOf(s, Deduplicated(s))
<1>1. Len(s) \in Nat /\ IsKept(Kept(s), s, Len(s)) /\ Deduplicated(s) = Kept(s)[Len(s)]
    BY DeduplicatedIsKept
<1> DEFINE P == {n \in Nat : n <= Len(s) => KeptUpTo(s, Kept(s)[n], n)}
<1>2. 0 \in P
    <2>1. Kept(s)[0] = <<>>
        BY <1>1 DEF IsKept
    <2>2. KeptUpTo(s, <<>>, 0)
        BY DEF KeptUpTo, InOrderOf, Rows
    <2> QED BY <2>1, <2>2
<1>3. ASSUME NEW n \in Nat, n \in P PROVE n + 1 \in P
    <2> SUFFICES ASSUME n + 1 <= Len(s) PROVE KeptUpTo(s, Kept(s)[n + 1], n + 1)
        OBVIOUS
    <2>1. Kept(s)[n + 1] = Add(Kept(s)[n], s[n + 1])
        BY <1>1 DEF IsKept
    <2>2. n + 1 \in 1..Len(s) /\ (n + 1) - 1 = n /\ KeptUpTo(s, Kept(s)[n], n)
        BY <1>1, <1>3
    <2> QED BY <2>1, <2>2, AddStep
<1> HIDE DEF P
<1>4. \A n \in Nat : n \in P
    BY <1>2, <1>3, Induction
<1>5. KeptUpTo(s, Deduplicated(s), Len(s))
    BY <1>1, <1>4 DEF P
<1> QED BY <1>5 DEF KeptUpTo, Rows
-----------------------------------------------------------------------------
(* Where init_db is *)

\* What is in a table comes from some start's files.
FromFiles(t) ==
    t \in created /\ \E r \in FirstRules \cup LaterRules : tables[t] = Deduplicated(r[t])

Shape ==
    /\ rules \in FirstRules \cup LaterRules
    /\ created \subseteq TableSet
    /\ tables = [t \in TableSet |-> tables[t]]
    /\ \A t \in TableSet : tables[t] = <<>> \/ FromFiles(t)
    /\ user_version \in {0, UserVersion}
    /\ phase \in Phases \ {"down"}
    /\ at \in 1..6
    /\ restarts \in 0..MaxRestarts

\* The step init_db is at tells which tables are gone, there, and filled.
Loading ==
    /\ phase \in {"pragma", "upgrade", "ready"} => at = 1
    /\ phase = "drop" => \A i \in 1..6 : i < at => TableNames[i] \notin created
    /\ phase = "create" => \A i \in 1..6 : TableNames[i] \in created <=> i < at
    /\ phase \in {"insert", "upgrade", "ready"} => created = TableSet
    /\ phase = "create" => \A t \in TableSet : tables[t] = <<>>
    /\ phase = "insert" => \A i \in 1..6 :
         tables[TableNames[i]] = IF i < at THEN Deduplicated(rules[TableNames[i]]) ELSE <<>>
    /\ phase \in {"upgrade", "ready"} =>
         \A t \in TableSet : tables[t] = Deduplicated(rules[t])

DbInv == Shape /\ Loading

LEMMA TableFacts ==
    /\ Len(TableNames) = 6
    /\ \A i \in 1..6 : TableNames[i] \in TableSet
    /\ \A t \in TableSet : \E i \in 1..6 : t = TableNames[i]
    /\ \A i, j \in 1..6 : TableNames[i] = TableNames[j] => i = j
<1>1. Len(TableNames) = 6
    BY DEF TableNames
<1>2. \A i, j \in 1..6 : TableNames[i] = TableNames[j] => i = j
    BY DEF TableNames
<1> QED BY <1>1, <1>2 DEF TableSet

LEMMA InitDbInv == Init => DbInv
BY MaxRestartsAssumption DEF Init, DbInv, Shape, Loading, Empty, Phases

LEMMA DropStep == ASSUME DbInv, DropTable PROVE DbInv'
<1> USE TableFacts
<1> DEFINE d == TableNames[at]
<1>1. /\ d \in TableSet /\ phase = "drop" /\ at \in 1..6 /\ created' = created \ {d}
      /\ UNCHANGED <<rules, user_version, restarts>>
      /\ tables' = [tables EXCEPT ![d] = <<>>]
      /\ IF at < 6 THEN at' = at + 1 /\ phase' = "drop" ELSE at' = 1 /\ phase' = "create"
    BY DEF DropTable, Advance, DbInv, Shape
<1> HIDE DEF d
<1>2. tables' = [t \in TableSet |-> IF t = d THEN <<>> ELSE tables[t]]
    BY <1>1 DEF DbInv, Shape
<1>3. Shape'
    BY <1>1, <1>2 DEF DbInv, Shape, FromFiles, Phases
<1>4. \A i \in 1..6 : i <= at => TableNames[i] \notin created'
    BY <1>1 DEF DbInv, Loading, d
<1>5. phase' = "create" => created' = {} /\ \A t \in TableSet : tables'[t] = <<>>
    <2> SUFFICES ASSUME phase' = "create" PROVE created' = {}
        BY <1>3 DEF Shape, FromFiles
    <2>1. at = 6
        BY <1>1
    <2> QED BY <1>3, <1>4, <2>1 DEF Shape
<1>6. Loading'
    BY <1>1, <1>4, <1>5 DEF Loading
<1> QED BY <1>3, <1>6 DEF DbInv

LEMMA CreateStep == ASSUME DbInv, CreateTable PROVE DbInv'
<1> USE TableFacts
<1> DEFINE d == TableNames[at]
<1>1. phase = "create" /\ at \in 1..6 /\ d \notin created /\ d \in TableSet
    BY DEF CreateTable, DbInv, Shape, Loading
<1>2. /\ created' = created \cup {d}
      /\ UNCHANGED <<rules, tables, user_version, restarts>>
      /\ IF at < 6 THEN at' = at + 1 /\ phase' = "create" ELSE at' = 1 /\ phase' = "insert"
    BY <1>1 DEF CreateTable, Advance
<1> HIDE DEF d
<1>3. Shape'
    BY <1>1, <1>2 DEF DbInv, Shape, FromFiles, Phases
<1>4. \A i \in 1..6 : TableNames[i] \in created' <=> i <= at
    BY <1>1, <1>2 DEF DbInv, Loading, d
<1>5. phase' = "insert" => created' = TableSet
    <2> SUFFICES ASSUME phase' = "insert" PROVE TableSet \subseteq created'
        BY <1>3 DEF Shape
    <2>1. at = 6
        BY <1>1, <1>2
    <2> QED BY <1>4, <2>1
<1>6. \A t \in TableSet : tables'[t] = <<>>
    BY <1>1, <1>2 DEF DbInv, Loading
<1>7. Loading'
    BY <1>1, <1>2, <1>4, <1>5, <1>6 DEF Loading
<1> QED BY <1>3, <1>7 DEF DbInv

LEMMA InsertStep == ASSUME DbInv, InsertRules PROVE DbInv'
<1> USE TableFacts
<1> DEFINE d == TableNames[at]
           new == Deduplicated(rules[d])
<1>1. /\ phase = "insert" /\ at \in 1..6 /\ d \in TableSet
      /\ UNCHANGED <<rules, created, user_version, restarts>>
      /\ tables' = [tables EXCEPT ![d] = @ \o new]
      /\ IF at < 6 THEN at' = at + 1 /\ phase' = "insert" ELSE at' = 1 /\ phase' = "upgrade"
    BY DEF InsertRules, Advance, DbInv, Shape
<1>2. new \in Seq(Rows(rules[d])) /\ tables[d] = <<>> /\ created = TableSet
    <2>1. rules[d] \in Seq(Rows(rules[d]))
        BY <1>1, RulesAssumption DEF DbInv, Shape
    <2>2. tables[d] = <<>> /\ created = TableSet
        BY <1>1 DEF DbInv, Loading
    <2> QED BY <2>1, <2>2, DeduplicatedFacts
<1>3. tables[d] \o new = new
    <2> HIDE DEF new
    <2> QED BY <1>2
<1>4. tables' = [t \in TableSet |-> IF t = d THEN new ELSE tables[t]]
    BY <1>1, <1>3 DEF DbInv, Shape
<1>5. Shape'
    <2>1. \A t \in TableSet : tables'[t] = <<>> \/ FromFiles(t)'
        <3> SUFFICES ASSUME NEW t \in TableSet PROVE tables'[t] = <<>> \/ FromFiles(t)'
            OBVIOUS
        <3>1. CASE t = d
            <4>1. tables'[t] = Deduplicated(rules[t]) /\ t \in created'
                BY <1>1, <1>2, <1>4, <3>1
            <4>2. rules \in FirstRules \cup LaterRules
                BY DEF DbInv, Shape
            <4> QED BY <4>1, <4>2 DEF FromFiles
        <3>2. CASE t # d
            BY <1>1, <1>4, <3>2 DEF DbInv, Shape, FromFiles
        <3> QED BY <3>1, <3>2
    <2>2. tables' = [t \in TableSet |-> tables'[t]]
        BY <1>4
    <2>3. phase' \in Phases \ {"down"} /\ at' \in 1..6
        BY <1>1 DEF Phases
    <2> HIDE DEF new, d
    <2> QED BY <1>1, <2>1, <2>2, <2>3 DEF DbInv, Shape
<1>6. \A i \in 1..6 : tables'[TableNames[i]] =
                        IF i <= at THEN Deduplicated(rules'[TableNames[i]]) ELSE <<>>
    <2>1. \A i \in 1..6 : tables[TableNames[i]] =
                            IF i < at THEN Deduplicated(rules[TableNames[i]]) ELSE <<>>
        BY <1>1 DEF DbInv, Loading
    <2>2. \A i \in 1..6 : TableNames[i] = d <=> i = at
        BY <1>1
    <2>3. \A i \in 1..6 : tables'[TableNames[i]] =
                            IF i = at THEN Deduplicated(rules[TableNames[i]])
                                      ELSE tables[TableNames[i]]
        BY <1>4, <2>2
    <2>4. rules' = rules /\ at \in 1..6
        BY <1>1
    <2> HIDE DEF d, new
    <2> QED BY <2>1, <2>3, <2>4
<1>7. phase' = "upgrade" => \A t \in TableSet : tables'[t] = Deduplicated(rules'[t])
    BY <1>1, <1>6
<1> HIDE DEF d, new
<1>8. Loading'
    BY <1>1, <1>2, <1>6, <1>7 DEF Loading
<1> QED BY <1>5, <1>8 DEF DbInv

LEMMA OtherSteps ==
    ASSUME DbInv, SetJournalMode \/ Upgrade \/ Restart \/ UNCHANGED vars
    PROVE  DbInv'
<1>1. CASE SetJournalMode
    BY <1>1 DEF SetJournalMode, DbInv, Shape, Loading, FromFiles, Phases
<1>2. CASE Upgrade
    BY <1>2 DEF Upgrade, DbInv, Shape, Loading, FromFiles, Phases, UserVersion
<1>3. CASE Restart
    BY <1>3, MaxRestartsAssumption DEF Restart, DbInv, Shape, Loading, FromFiles, Phases
<1>4. CASE UNCHANGED vars
    BY <1>4 DEF vars, DbInv, Shape, Loading, FromFiles
<1> QED BY <1>1, <1>2, <1>3, <1>4

LEMMA NextDbInv == DbInv /\ [Next]_vars => DbInv'
BY DropStep, CreateStep, InsertStep, OtherSteps DEF Next, InitDb

-----------------------------------------------------------------------------
(* The theorems *)

\* Every reachable state satisfies the inductive invariant.
THEOREM Invariance == Spec => []DbInv
BY InitDbInv, NextDbInv, PTL DEF Spec

\* No start finds a table in the way: the drops of init_db come before its
\* creations, wherever earlier starts were cut short, however many there were.
THEOREM NoTableInTheWay == Spec => [](phase # "down")
<1>1. DbInv => phase # "down"
    BY DEF DbInv, Shape
<1> QED BY <1>1, Invariance, PTL

\* No row is in a table twice.
LEMMA NoRowTwice ==
    ASSUME Shape, NEW t \in TableSet, NEW i \in 1..Len(tables[t]), NEW j \in 1..Len(tables[t]),
           i < j
    PROVE  tables[t][i] # tables[t][j]
<1>1. CASE tables[t] = <<>>
    BY <1>1
<1>2. CASE FromFiles(t)
    <2>1. PICK r \in FirstRules \cup LaterRules : tables[t] = Deduplicated(r[t])
        BY <1>2 DEF FromFiles
    <2>2. r[t] \in Seq(Rows(r[t]))
        BY RulesAssumption
    <2>3. Deduplicated(r[t]) \in Seq(Rows(r[t])) /\ InOrderOf(r[t], Deduplicated(r[t]))
        BY <2>2, DeduplicatedFacts
    <2>4. FirstAt(r[t], tables[t][i]) < FirstAt(r[t], tables[t][j])
        BY <2>1, <2>3 DEF InOrderOf
    <2>5. FirstAt(r[t], tables[t][i]) \in 1..Len(r[t])
        BY <2>1, <2>2, <2>3, FirstAtFacts
    <2> QED BY <2>2, <2>4, <2>5
<1> QED BY <1>1, <1>2 DEF Shape

\* Type correctness, with it that no rule is in a table twice.
THEOREM TypeCorrect == Spec => []TypeOK
<1>1. DbInv => TypeOK
    <2> SUFFICES ASSUME DbInv PROVE TypeOK
        OBVIOUS
    <2>1. \A t \in TableSet : t \notin created => tables[t] = <<>>
        BY DEF DbInv, Shape, FromFiles
    <2>2. \A t \in TableSet : \A i, j \in 1..Len(tables[t]) :
            i < j => tables[t][i] # tables[t][j]
        BY NoRowTwice DEF DbInv
    <2>3. DOMAIN tables = TableSet
        BY DEF DbInv, Shape
    <2> QED BY <2>1, <2>2, <2>3, TableFacts DEF DbInv, Shape, TypeOK
<1> QED BY <1>1, Invariance, PTL

\* When init_db has returned, every table holds the rules of the current files,
\* each once, in their order, and nothing that an earlier start left.
THEOREM Configured == Spec => []RulesAsConfigured
<1>1. DbInv => RulesAsConfigured
    <2> SUFFICES ASSUME DbInv, phase = "ready", NEW t \in TableSet
                 PROVE  /\ t \in created
                        /\ Rows(tables[t]) = Rows(rules[t])
                        /\ InOrderOf(rules[t], tables[t])
        BY DEF RulesAsConfigured, InOrderOf
    <2>1. t \in created /\ tables[t] = Deduplicated(rules[t])
        BY DEF DbInv, Loading
    <2>2. rules[t] \in Seq(Rows(rules[t]))
        BY RulesAssumption DEF DbInv, Shape
    <2> QED BY <2>1, <2>2, DeduplicatedFacts
<1> QED BY <1>1, Invariance, PTL

-----------------------------------------------------------------------------
(* What is in the tables, for the lookups *)

TablesRead ==
    \A t \in TableSet :
        \E r \in FirstRules \cup LaterRules :
            tables[t] \in Seq(Rows(r[t])) /\ Rows(tables[t]) \subseteq Rows(r[t])

LEMMA ReadFromFiles == DbInv => TablesRead
<1> SUFFICES ASSUME DbInv, NEW t \in TableSet
             PROVE  \E r \in FirstRules \cup LaterRules :
                        tables[t] \in Seq(Rows(r[t])) /\ Rows(tables[t]) \subseteq Rows(r[t])
    BY DEF TablesRead
<1>1. CASE tables[t] = <<>>
    <2>1. rules \in FirstRules \cup LaterRules
        BY DEF DbInv, Shape
    <2>2. Rows(<<>>) = {}
        BY DEF Rows
    <2>3. \A S : <<>> \in Seq(S)
        OBVIOUS
    <2> QED BY <1>1, <2>1, <2>2, <2>3
<1>2. CASE FromFiles(t)
    <2>1. PICK r \in FirstRules \cup LaterRules : tables[t] = Deduplicated(r[t])
        BY <1>2 DEF FromFiles
    <2>2. r[t] \in Seq(Rows(r[t]))
        BY RulesAssumption
    <2> QED BY <2>1, <2>2, DeduplicatedFacts
<1> QED BY <1>1, <1>2 DEF DbInv, Shape

\* A table is a sequence; the rows are what it holds at its ids.
LEMMA TableIs ==
    ASSUME TablesRead, NEW t \in TableSet
    PROVE  /\ Len(tables[t]) \in Nat
           /\ DOMAIN tables[t] = 1..Len(tables[t])
           /\ IsTable(tables[t])
           /\ Rows(tables[t]) = {tables[t][i] : i \in DOMAIN tables[t]}
<1>1. PICK S : tables[t] \in Seq(S)
    BY DEF TablesRead
<1>2. Len(tables[t]) \in Nat /\ DOMAIN tables[t] = 1..Len(tables[t])
    BY <1>1
<1> QED BY <1>2 DEF IsTable, Rows

IsRule(row) == row.name \in Seq(DOMAIN Fold) /\ (row.name # <<>> \/ row.exact)

LEMMA RowsAreRules ==
    ASSUME TablesRead, NEW t \in NameTables, NEW row \in Rows(tables[t])
    PROVE  IsRule(row)
<1>1. t \in TableSet
    BY DEF NameTables
<1>2. PICK r \in FirstRules \cup LaterRules : row \in Rows(r[t])
    BY <1>1 DEF TablesRead
<1> QED BY <1>2, RowsAssumption DEF IsRule

LEMMA NameTableFacts ==
    /\ {"allowed_ips", "blocked_ips"} \subseteq TableSet
    /\ NameTables = {"allowed_names", "blocked_names", "cloaking_rules", "forwarding_rules"}
<1>1. TableSet = {"allowed_ips", "allowed_names", "blocked_ips", "blocked_names",
                  "cloaking_rules", "forwarding_rules"}
    <2>1. Len(TableNames) = 6
        BY DEF TableNames
    <2>2. \A i \in 1..6 : i \in {1, 2, 3, 4, 5, 6}
        OBVIOUS
    <2> QED BY <2>1, <2>2 DEF TableSet, TableNames
<1> QED BY <1>1 DEF NameTables

LEMMA LowerFacts ==
    ASSUME NEW n \in Seq(DOMAIN Fold)
    PROVE  /\ Len(Lower(n)) = Len(n)
           /\ \E S : Lower(n) \in Seq(S)
           /\ Lower(n) = <<>> <=> n = <<>>
           /\ Lower(Lower(n)) = Lower(n)
<1>1. Len(n) \in Nat /\ \A i \in 1..Len(n) : n[i] \in DOMAIN Fold
    OBVIOUS
<1>2. Lower(n) \in Seq({Fold[n[i]] : i \in 1..Len(n)}) /\ Len(Lower(n)) = Len(n)
    BY <1>1 DEF Lower
<1>3. \A i \in 1..Len(n) : Fold[Fold[n[i]]] = Fold[n[i]]
    BY <1>1, FoldAssumption
<1>4. Lower(Lower(n)) = Lower(n)
    BY <1>2, <1>3 DEF Lower
<1>5. Lower(n) = <<>> <=> n = <<>>
    BY <1>1, <1>2
<1> QED BY <1>2, <1>4, <1>5

-----------------------------------------------------------------------------
(* Block lists *)

\* LIKE takes a "_" for any character: what the manual says of a plain rule
\* holds for those without.
Literal(row) ==
    row.exact \/ UsesGlob(row.name) \/ \A i \in 1..Len(row.name) : row.name[i] # "_"

LiteralRules ==
    \A r \in FirstRules \cup LaterRules : \A t \in {"allowed_names", "blocked_names"} :
        \A row \in Rows(r[t]) : Literal(row)

\* Where a suffix of m labels of a name of n labels begins.
LEMMA SuffixStart ==
    ASSUME NEW n \in Nat, NEW m \in Nat \ {0}
    PROVE  /\ m <= n => \E k \in 1..n : m = n - k + 1
           /\ \A k \in 1..n : m = n - k + 1 =>
                /\ m <= n
                /\ m = n <=> k = 1
                /\ \A i \in 1..m : k + i - 1 = n - m + i
                /\ k = 1 => \A i \in 1..m : k + i - 1 = i
<1>1. ASSUME m <= n PROVE \E k \in 1..n : m = n - k + 1
    <2>1. n - m + 1 \in 1..n /\ m = n - (n - m + 1) + 1
        BY <1>1
    <2> QED BY <2>1
<1> QED BY <1>1

IsPlain(p) == p # <<>> /\ ~UsesGlob(p) /\ \A i \in 1..Len(p) : p[i] # "_"

\* A plain rule matches a suffix of the name, label for label.
LEMMA PlainMatches ==
    ASSUME NEW S, NEW name, name \in Seq(S), NEW T, NEW p, p \in Seq(T), IsPlain(p)
    PROVE  (p = name \/ Like(name, p))
             <=> \E k \in 1..Len(name) : Glob(SubSeq(name, k, Len(name)), p)
<1> DEFINE n == Len(name)
           m == Len(p)
           part(k) == SubSeq(name, k, n)
<1>1. n \in Nat /\ m \in Nat \ {0}
    <2>1. n \in Nat /\ m \in Nat
        BY LengthFacts
    <2>2. m = 0 => p = <<>>
        BY LengthFacts
    <2>3. p # <<>>
        BY DEF IsPlain
    <2> QED BY <2>1, <2>2, <2>3
<1>2. \A i \in 1..m : p[i] \notin {"*", "?"}
    BY DEF UsesGlob, IsPlain
<1>3. ASSUME NEW s
      PROVE  Glob(s, p) <=> Len(s) = m /\ \A i \in 1..Len(s) : s[i] = p[i]
    BY <1>2 DEF Glob, LabelGlob
<1>4. Like(name, p) <=> n > m /\ \A i \in 1..m : name[n - m + i] = p[i]
    BY DEF Like, IsPlain
<1>5. ASSUME NEW k \in 1..n
      PROVE  Glob(part(k), p) <=> m = n - k + 1 /\ \A i \in 1..m : name[k + i - 1] = p[i]
    <2>1. /\ Len(part(k)) = n - k + 1
          /\ \A i \in 1..(n - k + 1) : part(k)[i] = name[k + i - 1]
        BY SuffixFacts
    <2> HIDE DEF part
    <2>2. Glob(part(k), p) <=> /\ Len(part(k)) = m
                               /\ \A i \in 1..Len(part(k)) : part(k)[i] = p[i]
        BY <1>3
    <2> QED BY <2>1, <2>2
<1>6. p = name <=> m = n /\ \A i \in 1..m : p[i] = name[i]
    BY SameSequence
<1> HIDE DEF n, m, part
<1>7. ASSUME p = name \/ Like(name, p) PROVE \E k \in 1..n : Glob(part(k), p)
    <2>1. m <= n
        BY <1>1, <1>4, <1>6, <1>7
    <2>2. PICK k \in 1..n : m = n - k + 1
        BY <1>1, <2>1, SuffixStart
    <2>3. \A i \in 1..m : name[k + i - 1] = p[i]
        <3>1. CASE p = name
            <4>1. \A i \in 1..m : k + i - 1 = i
                BY <1>1, <1>6, <2>2, <3>1, SuffixStart
            <4> QED BY <1>6, <3>1, <4>1
        <3>2. CASE Like(name, p)
            <4>1. \A i \in 1..m : k + i - 1 = n - m + i
                BY <1>1, <2>2, SuffixStart
            <4> QED BY <1>4, <3>2, <4>1
        <3> QED BY <1>7, <3>1, <3>2
    <2> QED BY <1>5, <2>2, <2>3
<1>8. ASSUME NEW k \in 1..n, Glob(part(k), p) PROVE p = name \/ Like(name, p)
    <2>1. m = n - k + 1 /\ \A i \in 1..m : name[k + i - 1] = p[i]
        BY <1>5, <1>8
    <2>2. /\ m <= n /\ (m = n <=> k = 1)
          /\ \A i \in 1..m : k + i - 1 = n - m + i
          /\ k = 1 => \A i \in 1..m : k + i - 1 = i
        BY <1>1, <2>1, SuffixStart
    <2>3. CASE k = 1
        BY <1>6, <2>1, <2>2, <2>3
    <2>4. CASE k # 1
        <3>1. n > m
            BY <1>1, <2>2, <2>4
        <3>2. \A i \in 1..m : name[n - m + i] = p[i]
            BY <2>1, <2>2
        <3> QED BY <1>4, <3>1, <3>2
    <2> QED BY <2>3, <2>4
<1> QED BY <1>7, <1>8 DEF part, n

\* What the where clauses select is what the manual says a rule covers.
LEMMA MatchedIsCovered ==
    ASSUME NEW S, NEW name \in Seq(S), NEW row, IsRule(row), Literal(row)
    PROVE  (name # <<>> /\ NameMatches(row, name)) <=> Covered(row, name)
<1>1. CASE row.exact
    BY <1>1 DEF NameMatches, Covered
<1>2. CASE ~row.exact /\ ~UsesGlob(row.name)
    <2>1. row.name \in Seq(DOMAIN Fold) /\ row.name # <<>>
        BY <1>2 DEF IsRule
    <2>2. \A i \in 1..Len(row.name) : row.name[i] # "_"
        BY <1>2 DEF Literal
    <2>3. (row.name = name \/ Like(name, row.name))
            <=> \E k \in 1..Len(name) : Glob(SubSeq(name, k, Len(name)), row.name)
        BY <1>2, <2>1, <2>2, PlainMatches DEF IsPlain
    <2> QED BY <1>2, <2>3 DEF NameMatches, Covered
<1>3. CASE ~row.exact /\ UsesGlob(row.name)
    <2> SUFFICES ASSUME name # <<>>
                 PROVE  Glob(name, row.name) \/ GlobBelow(name, row.name)
                          <=> \E k \in 1..Len(name) :
                                Glob(SubSeq(name, k, Len(name)), row.name)
        BY <1>3 DEF NameMatches, Covered
    <2>1. Len(name) \in Nat \ {0}
        OBVIOUS
    <2>2. SubSeq(name, 1, Len(name)) = name
        OBVIOUS
    <2>3. \A k \in 1..Len(name) : k = 1 \/ k \in 2..Len(name)
        BY <2>1
    <2>4. 1 \in 1..Len(name) /\ 2..Len(name) \subseteq 1..Len(name)
        BY <2>1
    <2> QED BY <2>2, <2>3, <2>4 DEF GlobBelow
<1> QED BY <1>1, <1>2, <1>3

LEMMA NamesFound ==
    ASSUME TablesRead, LiteralRules, NEW t \in {"allowed_names", "blocked_names"},
           NEW client, NEW n \in Seq(DOMAIN Fold)
    PROVE  FindName(tables[t], client, n) # <<>> <=>
             \E r \in Rows(tables[t]) : ForClient(r, client) /\ Covered(r, Lower(n))
<1>1. t \in TableSet /\ t \in NameTables
    BY NameTableFacts DEF NameTables
<1>2. IsTable(tables[t]) /\ Rows(tables[t]) = {tables[t][i] : i \in DOMAIN tables[t]}
    BY <1>1, TableIs
<1>3. n = <<>> <=> Lower(n) = <<>>
    BY LowerFacts
<1>4. ASSUME NEW row \in Rows(tables[t])
      PROVE  (n # <<>> /\ NameMatches(row, Lower(n))) <=> Covered(row, Lower(n))
    <2>1. IsRule(row)
        BY <1>1, RowsAreRules
    <2>2. Literal(row)
        BY <1>1 DEF LiteralRules, TablesRead
    <2>3. \E S : Lower(n) \in Seq(S)
        BY LowerFacts
    <2> QED BY <1>3, <2>1, <2>2, <2>3, MatchedIsCovered
<1>5. FindName(tables[t], client, n) # <<>> <=>
        \E i \in DOMAIN tables[t] : /\ n # <<>>
                                    /\ NameMatches(tables[t][i], Lower(n))
                                    /\ ForClient(tables[t][i], client)
    BY <1>2, FindNameFinds
<1> QED BY <1>2, <1>4, <1>5

LEMMA IpsFound ==
    ASSUME TablesRead, NEW t \in {"allowed_ips", "blocked_ips"}, NEW client, NEW ip
    PROVE  FindIp(tables[t], client, ip) # <<>> <=>
             \E r \in Rows(tables[t]) : ForClient(r, client) /\ IpMatches(r, ip)
<1>1. t \in TableSet
    BY NameTableFacts
<1>2. IsTable(tables[t]) /\ Rows(tables[t]) = {tables[t][i] : i \in DOMAIN tables[t]}
    BY <1>1, TableIs
<1>3. FindIp(tables[t], client, ip) # <<>> <=>
        \E i \in DOMAIN tables[t] : /\ ForClient(tables[t][i], client)
                                    /\ IpMatches(tables[t][i], ip)
    BY <1>2, FindIpFinds
<1> QED BY <1>2, <1>3

\* A name or an address is blocked for a client exactly when a blocked rule
\* covers it and no allowed rule does, for all rule files whose plain rules hold
\* no "_".
THEOREM Blocking == ASSUME LiteralRules PROVE Spec => []AllowedPrevails
<1>1. DbInv => AllowedPrevails
    <2> SUFFICES ASSUME DbInv, NEW c \in Clients
                 PROVE  /\ \A n \in Names :
                            block_names_ex(tables, c, n) = "blocked" <=>
                                /\ \E r \in Rows(tables.blocked_names) :
                                     ForClient(r, c) /\ Covered(r, Lower(n))
                                /\ ~\E r \in Rows(tables.allowed_names) :
                                     ForClient(r, c) /\ Covered(r, Lower(n))
                        /\ \A a \in Ips :
                            block_ips_ex(tables, c, a) = "blocked" <=>
                                /\ \E r \in Rows(tables.blocked_ips) :
                                     ForClient(r, c) /\ IpMatches(r, a)
                                /\ ~\E r \in Rows(tables.allowed_ips) :
                                     ForClient(r, c) /\ IpMatches(r, a)
        BY DEF AllowedPrevails
    <2>1. TablesRead
        BY ReadFromFiles
    <2>2. \A n \in Names : n \in Seq(DOMAIN Fold)
        BY NamesAssumption
    <2> QED BY <2>1, <2>2, NamesFound, IpsFound, VerdictFacts
            DEF block_names_ex, block_ips_ex
<1> QED BY <1>1, Invariance, PTL

-----------------------------------------------------------------------------
(* The rules of other clients, and the spelling of a name *)

Own(rows, client) == Restrict(rows, {i \in DOMAIN rows : ForClient(rows[i], client)})

\* The rows for a client give it what the whole table gives it.
LEMMA OwnFinds ==
    ASSUME NEW rows, IsTable(rows), NEW client
    PROVE  /\ \A n : FindName(rows, client, n) = <<>> <=>
                     FindName(Own(rows, client), client, n) = <<>>
           /\ \A a : FindIp(rows, client, a) = <<>> <=>
                     FindIp(Own(rows, client), client, a) = <<>>
<1> DEFINE ids == {i \in DOMAIN rows : ForClient(rows[i], client)}
           own == Own(rows, client)
<1>1. DOMAIN own = ids /\ \A i \in ids : own[i] = rows[i]
    BY RestrictFacts DEF Own
<1> HIDE DEF own
<1>2. IsTable(own)
    BY <1>1 DEF IsTable
<1>3. ASSUME NEW n
      PROVE  FindName(rows, client, n) = <<>> <=> FindName(own, client, n) = <<>>
    <2>1. FindName(rows, client, n) # <<>> <=>
            \E i \in DOMAIN rows : /\ n # <<>>
                                   /\ NameMatches(rows[i], Lower(n))
                                   /\ ForClient(rows[i], client)
        BY FindNameFinds
    <2>2. FindName(own, client, n) # <<>> <=>
            \E i \in DOMAIN own : /\ n # <<>>
                                  /\ NameMatches(own[i], Lower(n))
                                  /\ ForClient(own[i], client)
        BY <1>2, FindNameFinds
    <2> QED BY <1>1, <2>1, <2>2
<1>4. ASSUME NEW a
      PROVE  FindIp(rows, client, a) = <<>> <=> FindIp(own, client, a) = <<>>
    <2>1. FindIp(rows, client, a) # <<>> <=>
            \E i \in DOMAIN rows : ForClient(rows[i], client) /\ IpMatches(rows[i], a)
        BY FindIpFinds
    <2>2. FindIp(own, client, a) # <<>> <=>
            \E i \in DOMAIN own : ForClient(own[i], client) /\ IpMatches(own[i], a)
        BY <1>2, FindIpFinds
    <2> QED BY <1>1, <2>1, <2>2
<1> QED BY <1>3, <1>4 DEF own

\* No verdict for a client depends on the rows of groups that do not stand for
\* it, for all rule files.
THEOREM Inert == Spec => []OthersRulesAreInert
<1>1. DbInv => OthersRulesAreInert
    <2> SUFFICES ASSUME DbInv PROVE OthersRulesAreInert
        OBVIOUS
    <2>1. BlockTables \subseteq TableSet
        BY NameTableFacts DEF BlockTables, NameTables
    <2>2. \A t \in BlockTables : IsTable(tables[t])
        BY <2>1, ReadFromFiles, TableIs
    <2> SUFFICES ASSUME NEW c \in Clients,
                        NEW mine, mine = [t \in BlockTables |-> Own(tables[t], c)]
                 PROVE  /\ \A n \in Names :
                             block_names_ex(tables, c, n) = block_names_ex(mine, c, n)
                        /\ \A a \in Ips :
                             block_ips_ex(tables, c, a) = block_ips_ex(mine, c, a)
        BY DEF OthersRulesAreInert, Own, ForClient
    <2>3. \A t \in BlockTables : mine[t] = Own(tables[t], c)
        OBVIOUS
    <2>4. \A t \in BlockTables :
            /\ \A n : FindName(tables[t], c, n) = <<>> <=> FindName(mine[t], c, n) = <<>>
            /\ \A a : FindIp(tables[t], c, a) = <<>> <=> FindIp(mine[t], c, a) = <<>>
        BY <2>2, <2>3, OwnFinds
    <2> QED BY <2>4, SameVerdict DEF block_names_ex, block_ips_ex, BlockTables
<1> QED BY <1>1, Invariance, PTL

\* What a name finds among the rows that match it.
LEMMA RouteFacts ==
    ASSUME TablesRead, NEW t \in NameTables, NEW n
    PROVE  LET found == Matching(tables[t], n)
           IN  /\ IsTable(found)
               /\ found = <<>> <=> DOMAIN found = {}
               /\ Preferred(found, n) = <<>> <=> DOMAIN found = {}
               /\ DOMAIN found # {} =>
                    \E i \in DOMAIN found :
                        /\ Preferred(found, n) = <<found[i]>>
                        /\ \/ i \in Exact(found)
                           \/ Exact(found) = {} /\ i \in Spelled(found, n)
                           \/ /\ Exact(found) = {} /\ Spelled(found, n) = {}
                              /\ i \in Longest(found)
<1> DEFINE found == Matching(tables[t], n)
<1>1. t \in TableSet
    BY DEF NameTables
<1>2. /\ Len(tables[t]) \in Nat
      /\ DOMAIN tables[t] = 1..Len(tables[t])
      /\ Rows(tables[t]) = {tables[t][i] : i \in DOMAIN tables[t]}
    BY <1>1, TableIs
<1>3. /\ DOMAIN found \subseteq DOMAIN tables[t]
      /\ \A i \in DOMAIN found : found[i] = tables[t][i]
      /\ found = <<>> <=> DOMAIN found = {}
    BY MatchingFacts
<1> HIDE DEF found
<1>4. \A i \in DOMAIN found : Len(found[i].name) \in Nat
    <2> SUFFICES ASSUME NEW i \in DOMAIN found PROVE Len(found[i].name) \in Nat
        OBVIOUS
    <2>1. found[i] \in Rows(tables[t])
        BY <1>2, <1>3
    <2>2. found[i].name \in Seq(DOMAIN Fold)
        BY <2>1, RowsAreRules DEF IsRule
    <2> QED BY <2>2, LengthFacts
<1>5. DOMAIN found # {} => Longest(found) # {}
    BY <1>2, <1>3, <1>4, LongestExists
<1>6. IsTable(found)
    BY <1>2, <1>3 DEF IsTable
<1> QED BY <1>3, <1>5, <1>6, PreferredFacts DEF found

\* A name is cloaked if a cloaking rule matches it.
LEMMA CloakingFinds ==
    ASSUME TablesRead, NEW n
    PROVE  cloaking_rules(tables, n) = <<>> <=>
             DOMAIN Matching(tables.cloaking_rules, n) = {}
<1> DEFINE found == Matching(tables.cloaking_rules, n)
           rule  == Preferred(found, n)
           ids   == {i \in DOMAIN found : /\ found[i].exact = rule[1].exact
                                         /\ found[i].name = rule[1].name}
<1>1. cloaking_rules(tables, n) = Restrict(found, ids)
    BY DEF cloaking_rules
<1>2. DOMAIN found # {} => \E i \in DOMAIN found : rule = <<found[i]>>
    <2>1. "cloaking_rules" \in NameTables
        BY NameTableFacts
    <2> QED BY <2>1, RouteFacts
<1> HIDE DEF found, rule
<1>3. ids = {} <=> DOMAIN found = {}
    BY <1>2
<1> HIDE DEF ids
<1> QED BY <1>1, <1>3, RestrictFacts DEF found

\* However a client spells a name, it gets the same verdict, and is forwarded or
\* cloaked by some rule or by none, for all rule files and all names.
THEOREM Spelling == Spec => []CaseBlind
<1>1. DbInv => CaseBlind
    <2> SUFFICES ASSUME DbInv, NEW n \in Names
                 PROVE  /\ \A c \in Clients :
                             block_names_ex(tables, c, n) = block_names_ex(tables, c, Lower(n))
                        /\ (forwarding_rules(tables, n) = <<>>)
                             <=> (forwarding_rules(tables, Lower(n)) = <<>>)
                        /\ (cloaking_rules(tables, n) = <<>>)
                             <=> (cloaking_rules(tables, Lower(n)) = <<>>)
        BY DEF CaseBlind
    <2>1. TablesRead
        BY ReadFromFiles
    <2>2. (n = <<>> <=> Lower(n) = <<>>) /\ Lower(Lower(n)) = Lower(n)
        BY NamesAssumption, LowerFacts
    <2>3. /\ NameTables = {"allowed_names", "blocked_names",
                           "cloaking_rules", "forwarding_rules"}
          /\ \A t \in NameTables : IsTable(tables[t])
        BY <2>1, NameTableFacts, TableIs DEF NameTables
    <2>4. ASSUME NEW c, NEW t \in NameTables
          PROVE  FindName(tables[t], c, n) = <<>> <=> FindName(tables[t], c, Lower(n)) = <<>>
        <3>1. \A m : FindName(tables[t], c, m) # <<>> <=>
                 \E i \in DOMAIN tables[t] : /\ m # <<>>
                                             /\ NameMatches(tables[t][i], Lower(m))
                                             /\ ForClient(tables[t][i], c)
            BY <2>3, FindNameFinds
        <3> QED BY <2>2, <3>1
    <2>5. ASSUME NEW t \in NameTables
          PROVE  DOMAIN Matching(tables[t], n) = DOMAIN Matching(tables[t], Lower(n))
        <3>1. \A m : DOMAIN Matching(tables[t], m) =
                 {i \in DOMAIN tables[t] : m # <<>> /\ NameMatches(tables[t][i], Lower(m))}
            BY MatchingFacts
        <3> QED BY <2>2, <3>1
    <2>6. \A c \in Clients :
            block_names_ex(tables, c, n) = block_names_ex(tables, c, Lower(n))
        BY <2>3, <2>4, SameVerdict DEF block_names_ex
    <2>7. (forwarding_rules(tables, n) = <<>>) <=> (forwarding_rules(tables, Lower(n)) = <<>>)
        <3>1. "forwarding_rules" \in NameTables
            BY <2>3
        <3>2. \A m : Preferred(Matching(tables.forwarding_rules, m), m) = <<>>
                       <=> DOMAIN Matching(tables.forwarding_rules, m) = {}
            BY <2>1, <3>1, RouteFacts
        <3> QED BY <2>5, <3>1, <3>2 DEF forwarding_rules
    <2>8. (cloaking_rules(tables, n) = <<>>) <=> (cloaking_rules(tables, Lower(n)) = <<>>)
        BY <2>1, <2>3, <2>5, CloakingFinds
    <2> QED BY <2>6, <2>7, <2>8
<1> QED BY <1>1, Invariance, PTL

-----------------------------------------------------------------------------
(* Forwarding and cloaking *)

\* A name is forwarded by the most specific of its rules, for all rule files and
\* all names.
THEOREM Routing == Spec => []MostSpecificRoute
<1>1. DbInv => MostSpecificRoute
    <2> SUFFICES ASSUME DbInv, NEW n \in Names
                 PROVE  LET found == Matching(tables.forwarding_rules, n)
                            route == forwarding_rules(tables, n)
                        IN  /\ route = <<>> <=> found = <<>>
                            /\ route # <<>> =>
                                 \A r \in Range(found) : route[1] # r =>
                                     \/ route[1].exact
                                     \/ ~r.exact /\ route[1].name = n
                                     \/ /\ ~r.exact /\ r.name # n
                                        /\ Len(route[1].name) >= Len(r.name)
        BY DEF MostSpecificRoute
    <2> DEFINE found == Matching(tables.forwarding_rules, n)
               route == Preferred(found, n)
    <2>1. "forwarding_rules" \in NameTables
        BY NameTableFacts
    <2>2. /\ found = <<>> <=> DOMAIN found = {}
          /\ route = <<>> <=> DOMAIN found = {}
          /\ DOMAIN found # {} =>
               \E i \in DOMAIN found :
                   /\ route = <<found[i]>>
                   /\ \/ i \in Exact(found)
                      \/ Exact(found) = {} /\ i \in Spelled(found, n)
                      \/ /\ Exact(found) = {} /\ Spelled(found, n) = {}
                         /\ i \in Longest(found)
        BY <2>1, ReadFromFiles, RouteFacts
    <2>3. forwarding_rules(tables, n) = route
        BY DEF forwarding_rules
    <2> HIDE DEF found, route
    <2>4. ASSUME route # <<>>, NEW r \in Range(found)
          PROVE  \/ route[1].exact
                 \/ ~r.exact /\ route[1].name = n
                 \/ ~r.exact /\ r.name # n /\ Len(route[1].name) >= Len(r.name)
        <3>1. PICK i \in DOMAIN found :
                /\ route = <<found[i]>>
                /\ \/ i \in Exact(found)
                   \/ Exact(found) = {} /\ i \in Spelled(found, n)
                   \/ /\ Exact(found) = {} /\ Spelled(found, n) = {}
                      /\ i \in Longest(found)
            BY <2>2, <2>4
        <3>2. PICK j \in DOMAIN found : r = found[j]
            BY <2>4 DEF Range
        <3>3. route[1] = found[i]
            BY <3>1
        <3>4. CASE i \in Exact(found)
            BY <3>3, <3>4 DEF Exact
        <3>5. CASE Exact(found) = {} /\ i \in Spelled(found, n)
            BY <3>2, <3>3, <3>5 DEF Exact, Spelled
        <3>6. CASE /\ Exact(found) = {} /\ Spelled(found, n) = {}
                   /\ i \in Longest(found)
            <4>1. ~r.exact /\ r.name # n
                BY <3>2, <3>6 DEF Exact, Spelled
            <4>2. Len(r.name) <= Len(found[i].name)
                BY <3>2, <3>6 DEF Longest
            <4>3. Len(found[i].name) >= Len(r.name)
                BY <4>2
            <4> QED BY <3>3, <4>1, <4>3
        <3> QED BY <3>1, <3>4, <3>5, <3>6
    <2> QED BY <2>2, <2>3, <2>4 DEF found
<1> QED BY <1>1, Invariance, PTL

\* Cloaking follows CNAME rules to their end, for all rule files and all names:
\* it answers with rows of one name, it has an answer for every name that is
\* cloaked, and a CNAME left among the rows is one no rule resolves, one that
\* leads back to itself, or one beyond the limit of levels.
THEOREM Chains == Spec => []ChainResolved
<1>1. DbInv => ChainResolved
    <2> SUFFICES ASSUME DbInv, NEW n \in Names
                 PROVE  LET rows == cloaking_rules_ex(tables, n)
                            end  == Hops(tables, n)[MaxHops]
                            next == cloaking_rules(tables, CnameOf(rows)[1].mapped)
                        IN  /\ rows = <<>> <=> cloaking_rules(tables, n) = <<>>
                            /\ \A r, q \in Range(rows) : r.exact = q.exact /\ r.name = q.name
                            /\ CnameOf(rows) # <<>> =>
                                 \/ next = <<>>
                                 \/ end # Hops(tables, n)[MaxHops - 1]
                                 \/ next = end
        BY DEF ChainResolved
    <2> DEFINE end  == Hops(tables, n)[MaxHops]
               rows == Take(end, MaxRows)
               len  == Len(tables.cloaking_rules)
               next == cloaking_rules(tables, CnameOf(rows)[1].mapped)
    <2>1. cloaking_rules_ex(tables, n) = rows
        BY DEF cloaking_rules_ex
    <2>2. len \in Nat /\ DOMAIN tables.cloaking_rules = 1..len
        <3>1. "cloaking_rules" \in TableSet
            BY NameTableFacts DEF NameTables
        <3> QED BY <3>1, ReadFromFiles, TableIs
    <2>3. OfOneRule(end, len) /\ (end = <<>> <=> cloaking_rules(tables, n) = <<>>)
        BY <2>2, HopsAreRules
    <2>4. end = Followed(tables, Hops(tables, n)[MaxHops - 1])
        BY HopsFacts DEF MaxHops
    <2> HIDE DEF end, len
    <2>5. DOMAIN end \subseteq 1..len /\ (DOMAIN end = {} <=> end = <<>>)
        BY <2>3 DEF OfOneRule
    <2>6. MaxRows \in Nat \ {0}
        BY DEF MaxRows
    <2>7. /\ DOMAIN rows \subseteq DOMAIN end
          /\ \A i \in DOMAIN rows : rows[i] = end[i]
          /\ rows = <<>> <=> DOMAIN end = {}
        BY <2>2, <2>5, <2>6, TakeFacts
    <2>8. CnameOf(rows) # <<>> => CnameOf(rows) = CnameOf(end)
        BY <2>2, <2>5, <2>6, TakeCname
    <2> HIDE DEF rows
    <2>9. \A r, q \in Range(rows) : r.exact = q.exact /\ r.name = q.name
        BY <2>3, <2>7 DEF OfOneRule, Range
    <2>10. ASSUME CnameOf(rows) # <<>>, end = Hops(tables, n)[MaxHops - 1]
           PROVE  next = <<>> \/ next = end
        BY <2>4, <2>8, <2>10 DEF Followed
    <2> QED BY <2>1, <2>3, <2>5, <2>7, <2>9, <2>10 DEF end
<1> QED BY <1>1, Invariance, PTL

=============================================================================
