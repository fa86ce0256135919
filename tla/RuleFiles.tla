------------------------------ MODULE RuleFiles ------------------------------
(***************************************************************************)
(* The text of a rule file and the rows read from it.  A text is a         *)
(* sequence of lines, a line a sequence of tokens: "#", a blank, a tab, or *)
(* a label of Rules, which here is a whole name or address of one          *)
(* character.  What is left of a line is a sequence of tokens too.  Only   *)
(* blanks separate words; a tab inside a line is a part of its word.       *)
(*                                                                         *)
(* A row has the fields the parsers give it; a name that begins with "="   *)
(* is an exact rule of Rules.                                              *)
(***************************************************************************)
EXTENDS Rules, SequencesExt

CONSTANTS
    Rank,         \* the order of the tokens in a sorted list of strings
    Ipv4, Ipv6    \* the tokens that ip_address accepts, by family

Blank == " "
White == {Blank, "\t"}
Signs == White \cup {"#", "*", "?"}

ASSUME RankAssumption ==
    /\ \A t \in DOMAIN Rank : Rank[t] \in Int
    /\ \A s, t \in DOMAIN Rank : Rank[s] = Rank[t] => s = t

\* Lower case is made of letters, of which none is a sign.
ASSUME CaseAssumption ==
    /\ DOMAIN Fold = DOMAIN Rank
    /\ \A t \in DOMAIN Fold :
         /\ Fold[t] \in DOMAIN Fold
         /\ Fold[t] # t => t \notin Signs /\ Fold[t] \notin Signs

ASSUME AddressAssumption == \A a \in Ipv4 \cup Ipv6 : a \notin {"*", "?"}

\* The order of Python's strings: where they first differ, s has ended or has
\* the lesser token.
Before(s, t) ==
    \E i \in 1..Len(t) :
        /\ i <= Len(s) + 1
        /\ \A j \in 1..(i - 1) : s[j] = t[j]
        /\ i <= Len(s) => Rank[s[i]] < Rank[t[i]]

\* A set in order: the i-th of its elements has i - 1 of them before it.
Sorted(S, before) ==
    [i \in 1..Cardinality(S) |-> CHOOSE x \in S : Cardinality(before[x]) = i - 1]

Cut(line) ==
    LET marks == {i \in DOMAIN line : line[i] = "#"}
    IN  IF marks = {} THEN line ELSE SubSeq(line, 1, Min(marks) - 1)

Strip(s) ==
    LET ink == {i \in DOMAIN s : s[i] \notin White}
    IN  IF ink = {} THEN <<>> ELSE SubSeq(s, Min(ink), Max(ink))

\* The lines without comments, each once.
parse_line(text) == {Strip(Cut(line)) : line \in ToSet(text)} \ {<<>>}

\* list(sorted(lines)).  What is selected of the sorted lines is what is
\* selected, sorted.
InOrder(lines) == Sorted(lines, [l \in lines |-> {m \in lines : Before(m, l)}])

-----------------------------------------------------------------------------
(* Names and addresses: the lines of one word *)

\* Mutant of NameRow: the word stays as it is spelled.
NameRowAsSpelled(group, word) ==
    [group |-> group, name |-> word, use_glob |-> UsesGlob(word)]

NameRow(group, word) ==
    [group |-> group, name |-> Lower(word), use_glob |-> UsesGlob(word)]

\* Mutant of NameRows: the lines stay in the order of the file.
NameRowsUnsorted(group, text) ==
    LET words == SelectSeq([i \in DOMAIN text |-> Strip(Cut(text[i]))],
                           LAMBDA l : l # <<>> /\ Blank \notin ToSet(l))
    IN  [i \in DOMAIN words |-> NameRow(group, words[i])]

\* Mutant of NameRows: a line of several words counts by its first one.
NameRowsOfFirstWords(group, text) ==
    LET lines == InOrder(parse_line(text))
        word(l) == SubSeq(l, 1, Min({i \in 1..Len(l) : i = Len(l) \/ l[i + 1] = Blank}))
    IN  [i \in DOMAIN lines |-> NameRow(group, word(lines[i]))]

\* Sorted as they were spelled, and brought to lower case after that.
NameRows(group, text) ==
    LET words == InOrder({l \in parse_line(text) : Blank \notin ToSet(l)})
    IN  [i \in DOMAIN words |-> NameRow(group, words[i])]

-----------------------------------------------------------------------------
(* Cloaking rules: the lines of two words *)

\* A word begins behind a blank and ends before one; those that are only tabs
\* are left out.
Words(line) ==
    LET last(i) == Min({j \in i..Len(line) : j = Len(line) \/ line[j + 1] = Blank})
        word(i) == Strip(SubSeq(line, i, last(i)))
        starts  == {i \in DOMAIN line : /\ line[i] # Blank
                                        /\ i = 1 \/ line[i - 1] = Blank
                                        /\ word(i) # <<>>}
        order   == Sorted(starts, [i \in starts |-> {j \in starts : j < i}])
    IN  [k \in DOMAIN order |-> word(order[k])]

IsAddress(word, family) == \E a \in family : word = <<a>>

RecordType(mapped) ==
    IF IsAddress(mapped, Ipv4) THEN "A"
    ELSE IF IsAddress(mapped, Ipv6) THEN "AAAA"
    ELSE "CNAME"

\* Mutant of Cloaks: the words are compared as they are spelled.
CloaksAsSpelled(line) ==
    /\ Len(Words(line)) = 2
    /\ Words(line)[1] # Words(line)[2]
    /\ RecordType(Words(line)[2]) = "CNAME" => ~UsesGlob(Words(line)[2])

\* The words are two different ones, and the second is no pattern.
Cloaks(line) ==
    LET words == Words(Lower(line))
    IN  /\ Len(words) = 2
        /\ words[1] # words[2]
        /\ RecordType(words[2]) = "CNAME" => ~UsesGlob(words[2])

CloakingRow(group, line) ==
    LET words == Words(Lower(line))
    IN  [group |-> group, name |-> words[1], record_type |-> RecordType(words[2]),
         mapped |-> words[2], use_glob |-> UsesGlob(words[1])]

RowBefore(r, q) == Before(r.name, q.name) \/ (r.name = q.name /\ Before(r.mapped, q.mapped))

\* Each row once, sorted by name and mapped (the group is one).
CloakingRows(group, text) ==
    LET rows == {CloakingRow(group, line) : line \in {l \in parse_line(text) : Cloaks(l)}}
    IN  Sorted(rows, [r \in rows |-> {q \in rows : RowBefore(q, r)}])

=============================================================================
