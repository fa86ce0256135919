--------------------------- MODULE RequestLogProofs ---------------------------
(***************************************************************************)
(* What RequestLog promises, for every number of logs and of restarts.     *)
(* The invariant is proved over the sets of elements of the queue, the     *)
(* transaction and the table; three lemmas say what Append, Tail and \o do *)
(* to these sets and to the order, and nothing else speaks of indices.     *)
(***************************************************************************)
EXTENDS RequestLog, TLAPS

-----------------------------------------------------------------------------
(* Sequences of logs *)

\* The empty sequence, which init, a commit, a lost connection and a kill leave.
LEMMA EmptyLemma == <<>> \in Seq(Nat) /\ Elements(<<>>) = {} /\ Ascending(<<>>)
<1>1. <<>> \in Seq(Nat) /\ Len(<<>>) = 0
  OBVIOUS
<1> QED
  BY <1>1 DEF Elements, Ascending

\* put_nowait and the insertion of a row add one element behind the others.
LEMMA AppendLemma ==
    ASSUME NEW s \in Seq(Nat), NEW e \in Nat
    PROVE  /\ Append(s, e) \in Seq(Nat)
           /\ Len(Append(s, e)) = Len(s) + 1
           /\ Elements(Append(s, e)) = Elements(s) \cup {e}
           /\ (Ascending(s) /\ \A x \in Elements(s) : x < e)
                => Ascending(Append(s, e))
<1> DEFINE a == Append(s, e)
<1>1. /\ a \in Seq(Nat)
      /\ Len(a) = Len(s) + 1
      /\ \A i \in 1..Len(s) : a[i] = s[i]
      /\ a[Len(s) + 1] = e
  OBVIOUS
<1>2. Elements(a) = Elements(s) \cup {e}
  <2>1. 1..Len(a) = (1..Len(s)) \cup {Len(s) + 1}
    BY <1>1
  <2> QED
    BY <1>1, <2>1, Zenon DEF Elements
<1>3. ASSUME Ascending(s), \A x \in Elements(s) : x < e
      PROVE  Ascending(a)
  <2>1. \A i \in 1..Len(s) : s[i] < e
    BY <1>3 DEF Elements
  <2> QED
    BY <1>1, <1>3, <2>1 DEF Ascending
<1> QED
  BY <1>1, <1>2, <1>3

\* get() removes the first element, which came before all that stay.
LEMMA TailLemma ==
    ASSUME NEW s \in Seq(Nat), s # <<>>
    PROVE  /\ Head(s) \in Nat
           /\ Tail(s) \in Seq(Nat)
           /\ Len(Tail(s)) = Len(s) - 1
           /\ Elements(s) = {Head(s)} \cup Elements(Tail(s))
           /\ Ascending(s) => /\ Ascending(Tail(s))
                              /\ \A x \in Elements(Tail(s)) : Head(s) < x
<1> DEFINE t == Tail(s)
<1>1. /\ Len(s) \in Nat
      /\ Len(s) > 0
      /\ Head(s) = s[1]
      /\ Head(s) \in Nat
      /\ t \in Seq(Nat)
      /\ Len(t) = Len(s) - 1
      /\ \A i \in 1..Len(t) : t[i] = s[i + 1]
  OBVIOUS
<1>2. Elements(s) = {Head(s)} \cup Elements(t)
  <2>1. ASSUME NEW x \in Elements(s)
        PROVE  x \in {Head(s)} \cup Elements(t)
    <3>1. PICK i \in 1..Len(s) : x = s[i]
      BY <2>1 DEF Elements
    <3>2. CASE i = 1
      BY <1>1, <3>1, <3>2
    <3>3. CASE i > 1
      <4>1. i - 1 \in 1..Len(t) /\ t[i - 1] = x
        BY <1>1, <3>1, <3>3
      <4> QED
        BY <4>1, Zenon DEF Elements
    <3> QED
      BY <3>1, <3>2, <3>3
  <2>2. ASSUME NEW x \in {Head(s)} \cup Elements(t)
        PROVE  x \in Elements(s)
    <3>1. CASE x = Head(s)
      BY <1>1, <3>1 DEF Elements
    <3>2. CASE x \in Elements(t)
      <4>1. PICK i \in 1..Len(t) : x = t[i]
        BY <3>2 DEF Elements
      <4>2. i + 1 \in 1..Len(s) /\ s[i + 1] = x
        BY <1>1, <4>1
      <4> QED
        BY <4>2, Zenon DEF Elements
    <3> QED
      BY <2>2, <3>1, <3>2
  <2> QED
    BY <2>1, <2>2
<1>3. ASSUME Ascending(s)
      PROVE  Ascending(t) /\ \A x \in Elements(t) : Head(s) < x
  BY <1>1, <1>3 DEF Ascending, Elements
<1> QED
  BY <1>1, <1>2, <1>3

\* commit() puts the transaction behind the table.
LEMMA ConcatLemma ==
    ASSUME NEW s \in Seq(Nat), NEW t \in Seq(Nat)
    PROVE  /\ s \o t \in Seq(Nat)
           /\ Len(s \o t) = Len(s) + Len(t)
           /\ \A i \in 1..Len(s) : (s \o t)[i] = s[i]
           /\ Elements(s \o t) = Elements(s) \cup Elements(t)
           /\ ( /\ Ascending(s)
                /\ Ascending(t)
                /\ \A x \in Elements(s), y \in Elements(t) : x < y )
                => Ascending(s \o t)
<1> DEFINE c == s \o t
<1>1. /\ c \in Seq(Nat)
      /\ Len(s) \in Nat /\ Len(t) \in Nat
      /\ Len(c) = Len(s) + Len(t)
      /\ \A i \in 1..Len(s) : c[i] = s[i]
      /\ \A i \in 1..Len(t) : c[Len(s) + i] = t[i]
  OBVIOUS
<1>2. ASSUME NEW i \in 1..Len(c), i > Len(s)
      PROVE  i - Len(s) \in 1..Len(t) /\ c[i] = t[i - Len(s)]
  <2>1. i - Len(s) \in 1..Len(t) /\ Len(s) + (i - Len(s)) = i
    BY <1>1, <1>2
  <2> QED
    BY <1>1, <2>1
<1>3. Elements(c) = Elements(s) \cup Elements(t)
  <2>1. ASSUME NEW x \in Elements(c)
        PROVE  x \in Elements(s) \cup Elements(t)
    <3>1. PICK i \in 1..Len(c) : x = c[i]
      BY <2>1 DEF Elements
    <3>2. CASE i > Len(s)
      BY <1>2, <3>1, <3>2 DEF Elements
    <3>3. CASE i \in 1..Len(s)
      BY <1>1, <3>1, <3>3 DEF Elements
    <3> QED
      BY <1>1, <3>1, <3>2, <3>3
  <2>2. ASSUME NEW x \in Elements(s)
        PROVE  x \in Elements(c)
    <3>1. PICK i \in 1..Len(s) : x = s[i]
      BY <2>2 DEF Elements
    <3>2. i \in 1..Len(c) /\ c[i] = x
      BY <1>1, <3>1
    <3> QED
      BY <3>2, Zenon DEF Elements
  <2>3. ASSUME NEW x \in Elements(t)
        PROVE  x \in Elements(c)
    <3>1. PICK i \in 1..Len(t) : x = t[i]
      BY <2>3 DEF Elements
    <3>2. Len(s) + i \in 1..Len(c) /\ c[Len(s) + i] = x
      BY <1>1, <3>1
    <3> QED
      BY <3>2, Zenon DEF Elements
  <2> QED
    BY <2>1, <2>2, <2>3
<1>4. ASSUME Ascending(s), Ascending(t),
             \A x \in Elements(s), y \in Elements(t) : x < y,
             NEW i \in 1..Len(c), NEW j \in 1..Len(c), i < j
      PROVE  c[i] < c[j]
  <2>1. CASE j <= Len(s)
    BY <1>1, <1>4, <2>1 DEF Ascending
  <2>2. CASE i <= Len(s) /\ j > Len(s)
    <3>1. c[i] \in Elements(s)
      BY <1>1, <2>2 DEF Elements
    <3>2. c[j] \in Elements(t)
      BY <1>2, <2>2 DEF Elements
    <3> QED
      BY <1>4, <3>1, <3>2
  <2>3. CASE i > Len(s)
    <3>1. /\ i - Len(s) \in 1..Len(t) /\ c[i] = t[i - Len(s)]
          /\ j - Len(s) \in 1..Len(t) /\ c[j] = t[j - Len(s)]
      BY <1>1, <1>2, <1>4, <2>3
    <3>2. i - Len(s) < j - Len(s)
      BY <1>1, <1>4
    <3> QED
      BY <1>4, <3>1, <3>2 DEF Ascending
  <2> QED
    BY <1>1, <2>1, <2>2, <2>3
<1> QED
  <2>1. ( /\ Ascending(s)
          /\ Ascending(t)
          /\ \A x \in Elements(s), y \in Elements(t) : x < y ) => Ascending(c)
    BY <1>4 DEF Ascending
  <2> QED
    BY <1>1, <1>3, <2>1

-----------------------------------------------------------------------------
(* The inductive invariant *)

\* The logs of this process are in the queue, the hand, the transaction, the
\* table or the reports; older ones only in the table.
Bounds ==
    /\ Elements(queue) \subseteq (base + 1)..put
    /\ Elements(txn) \subseteq (base + 1)..put
    /\ Elements(table) \subseteq 1..put
    /\ item # 0 => item > base

\* What the writer has done with the log in its hand.
InHand ==
    /\ writer \in Holding <=> item # 0
    /\ writer = "committing" => item \in Elements(txn)
    /\ writer = "finishing" => item \in Elements(table) \cup failed

IInv ==
    /\ TypeOK
    /\ Bounds
    /\ InHand
    /\ UnfinishedIsOutstanding
    /\ PipelineInOrder
    /\ NothingLost
    /\ HandledAtExit

USE MaxLogsAssumption, MaxRestartsAssumption DEF queued, rows, closing, process

LEMMA InitIInv == Init => IInv
<1> SUFFICES ASSUME Init PROVE IInv
  OBVIOUS
<1>1. <<>> \in Seq(Nat) /\ Elements(<<>>) = {} /\ Ascending(<<>>)
  BY EmptyLemma
<1>2. TypeOK
  <2>1. /\ put \in 0..MaxLogs /\ item \in 0..put /\ joined \in 0..put
        /\ base \in 0..put /\ restarts \in 0..MaxRestarts /\ unfinished \in Nat
    BY DEF Init
  <2>2. failed \in SUBSET Logs
    BY DEF Init
  <2>3. finished \in BOOLEAN /\ writer \in WriterStates /\ exit \in ExitStates
    BY DEF Init, WriterStates, ExitStates
  <2>4. queue \in Seq(Nat) /\ txn \in Seq(Nat) /\ table \in Seq(Nat)
    BY <1>1 DEF Init
  <2> QED
    BY <2>1, <2>2, <2>3, <2>4 DEF TypeOK
<1>3. Bounds /\ InHand /\ NothingLost /\ HandledAtExit
  BY <1>1 DEF Init, Bounds, InHand, Holding, NothingLost, HandledAtExit
<1>4. UnfinishedIsOutstanding
  BY DEF Init, UnfinishedIsOutstanding, Holding
<1>5. PipelineInOrder
  BY <1>1 DEF Init, PipelineInOrder
<1> QED
  BY <1>2, <1>3, <1>4, <1>5 DEF IInv

\* A handler logs a request: the new log is the greatest and waits in the queue.
LEMMA PutStep == IInv /\ Put => IInv'
<1> SUFFICES ASSUME IInv, Put PROVE IInv'
  OBVIOUS
<1> USE DEF IInv
<1>1. /\ put \in Nat /\ put + 1 \in Nat
      /\ queue \in Seq(Nat)
      /\ queue' = Append(queue, put + 1)
      /\ put' = put + 1
      /\ \A q \in Elements(queue) : q < put + 1
  BY DEF Put, TypeOK, Bounds
<1>2. /\ queue' \in Seq(Nat)
      /\ Len(queue') = Len(queue) + 1
      /\ Elements(queue') = Elements(queue) \cup {put + 1}
      /\ Ascending(queue) => Ascending(queue')
  BY <1>1, AppendLemma
<1>3. TypeOK'
  BY <1>1, <1>2 DEF Put, TypeOK, Logs
<1>4. Bounds' /\ InHand'
  BY <1>1, <1>2 DEF Put, TypeOK, Bounds, InHand, Logs
<1>5. UnfinishedIsOutstanding'
  BY <1>1, <1>2 DEF Put, TypeOK, UnfinishedIsOutstanding
<1>6. PipelineInOrder'
  <2>1. \A r \in Elements(table) \cup Elements(txn) : r < put + 1
    BY DEF Bounds, TypeOK
  <2>2. item < put + 1
    BY DEF TypeOK
  <2> QED
    BY <1>1, <1>2, <2>1, <2>2 DEF Put, PipelineInOrder
<1>7. NothingLost'
  BY <1>1, <1>2 DEF Put, TypeOK, NothingLost
<1>8. HandledAtExit'
  BY DEF Put, HandledAtExit
<1> QED
  BY <1>3, <1>4, <1>5, <1>6, <1>7, <1>8

\* The writer takes the first log: it is the least of those that wait.
LEMMA GetStep == IInv /\ Get => IInv'
<1> SUFFICES ASSUME IInv, Get PROVE IInv'
  OBVIOUS
<1> USE DEF IInv
<1>1. queue \in Seq(Nat) /\ queue # <<>> /\ item' = Head(queue) /\ queue' = Tail(queue)
  BY DEF Get, TypeOK
<1>2. /\ item' \in Nat
      /\ queue' \in Seq(Nat)
      /\ Len(queue') = Len(queue) - 1
      /\ Elements(queue) = {item'} \cup Elements(queue')
      /\ Ascending(queue) => /\ Ascending(queue')
                             /\ \A x \in Elements(queue') : item' < x
  BY <1>1, TailLemma
<1>3. item = 0 /\ item' # 0 /\ item' > base
  BY <1>2 DEF Get, InHand, Holding, Bounds, TypeOK
<1>4. TypeOK'
  <2>1. item' \in 0..put
    BY <1>2 DEF Bounds, TypeOK
  <2> QED
    BY <1>2, <2>1 DEF Get, TypeOK, WriterStates, Logs
<1>5. Bounds' /\ InHand'
  BY <1>2, <1>3 DEF Get, Bounds, InHand, Holding
<1>6. UnfinishedIsOutstanding'
  BY <1>2 DEF Get, TypeOK, UnfinishedIsOutstanding, Holding
<1>7. PipelineInOrder'
  BY <1>2, <1>3 DEF Get, PipelineInOrder
<1>8. NothingLost'
  BY <1>2, <1>3 DEF Get, TypeOK, NothingLost
<1>9. HandledAtExit'
  BY DEF Get, HandledAtExit
<1> QED
  BY <1>4, <1>5, <1>6, <1>7, <1>8, <1>9

\* The row goes behind those of the open transaction, whose logs are older.
LEMMA InsertStep == IInv /\ Insert => IInv'
<1> SUFFICES ASSUME IInv, Insert PROVE IInv'
  OBVIOUS
<1> USE DEF IInv
<1>1. txn \in Seq(Nat) /\ item \in Nat /\ txn' = Append(txn, item)
  BY DEF Insert, TypeOK
<1>2. /\ txn' \in Seq(Nat)
      /\ Elements(txn') = Elements(txn) \cup {item}
      /\ (Ascending(txn) /\ \A x \in Elements(txn) : x < item) => Ascending(txn')
  BY <1>1, AppendLemma
<1>3. item # 0
  BY DEF Insert, InHand, Holding
<1>4. TypeOK'
  BY <1>2 DEF Insert, TypeOK, WriterStates, Logs
<1>5. Bounds' /\ InHand'
  BY <1>2, <1>3 DEF Insert, TypeOK, Bounds, InHand, Holding
<1>6. UnfinishedIsOutstanding'
  BY DEF Insert, UnfinishedIsOutstanding, Holding
<1>7. PipelineInOrder'
  BY <1>2, <1>3 DEF Insert, PipelineInOrder
<1>8. NothingLost' /\ HandledAtExit'
  BY DEF Insert, NothingLost, HandledAtExit
<1> QED
  BY <1>4, <1>5, <1>6, <1>7, <1>8

\* The failed log is reported; the transaction stays or is dropped whole.
LEMMA InsertFailsStep == IInv /\ InsertFails => IInv'
<1> SUFFICES ASSUME IInv, InsertFails PROVE IInv'
  OBVIOUS
<1> USE DEF IInv
<1>1. txn' \in Seq(Nat) /\ Elements(txn') \subseteq Elements(txn)
  BY EmptyLemma DEF InsertFails, TypeOK
<1>2. item # 0 /\ item \in Logs
  BY DEF InsertFails, InHand, Holding, TypeOK, Logs
<1>3. Ascending(txn')
  BY EmptyLemma DEF InsertFails, PipelineInOrder
<1>4. TypeOK'
  BY <1>1, <1>2 DEF InsertFails, TypeOK, WriterStates, Logs
<1>5. Bounds' /\ InHand'
  BY <1>1, <1>2 DEF InsertFails, Bounds, InHand, Holding
<1>6. UnfinishedIsOutstanding'
  BY DEF InsertFails, UnfinishedIsOutstanding, Holding
<1>7. PipelineInOrder'
  BY <1>1, <1>3 DEF InsertFails, PipelineInOrder
<1>8. NothingLost' /\ HandledAtExit'
  BY DEF InsertFails, NothingLost, HandledAtExit
<1> QED
  BY <1>4, <1>5, <1>6, <1>7, <1>8

\* The transaction, the log in hand with it, becomes rows behind the others.
LEMMA CommitStep == IInv /\ Commit => IInv'
<1> SUFFICES ASSUME IInv, Commit PROVE IInv'
  OBVIOUS
<1> USE DEF IInv
<1>1. /\ table \in Seq(Nat) /\ txn \in Seq(Nat)
      /\ table' = table \o txn /\ txn' = <<>>
      /\ item \in Elements(txn)
  BY DEF Commit, TypeOK, InHand
<1>2. /\ table' \in Seq(Nat)
      /\ Elements(table') = Elements(table) \cup Elements(txn)
      /\ Ascending(table')
  BY <1>1, ConcatLemma DEF PipelineInOrder
<1>3. Elements(txn') = {} /\ Ascending(txn')
  BY <1>1, EmptyLemma
<1>4. TypeOK'
  BY <1>1, <1>2, EmptyLemma DEF Commit, TypeOK, WriterStates, Logs
<1>5. Bounds' /\ InHand'
  BY <1>1, <1>2, <1>3 DEF Commit, TypeOK, Bounds, InHand, Holding
<1>6. UnfinishedIsOutstanding'
  BY DEF Commit, UnfinishedIsOutstanding, Holding
<1>7. PipelineInOrder'
  BY <1>2, <1>3 DEF Commit, PipelineInOrder
<1>8. NothingLost' /\ HandledAtExit'
  BY <1>2 DEF Commit, NothingLost, HandledAtExit
<1> QED
  BY <1>4, <1>5, <1>6, <1>7, <1>8

\* The writer lets go of a log that is a row or a report.
LEMMA TaskDoneStep == IInv /\ TaskDone => IInv'
<1> SUFFICES ASSUME IInv, TaskDone PROVE IInv'
  OBVIOUS
<1> USE DEF IInv
<1>1. UnfinishedIsOutstanding' /\ unfinished' \in Nat
  BY DEF TaskDone, TypeOK, UnfinishedIsOutstanding, Holding
<1>2. TypeOK'
  BY <1>1 DEF TaskDone, TypeOK, WriterStates, Logs
<1>3. Bounds' /\ InHand'
  BY DEF TaskDone, Bounds, InHand, Holding
<1>4. PipelineInOrder'
  BY DEF TaskDone, PipelineInOrder
<1>5. NothingLost' /\ HandledAtExit'
  BY DEF TaskDone, InHand, NothingLost, HandledAtExit
<1> QED
  BY <1>1, <1>2, <1>3, <1>4, <1>5

\* queue.join() returns when nothing waits and nothing is in hand, so every log
\* put so far is a row or a report.
LEMMA JoinReturnsStep == IInv /\ JoinReturns => IInv'
<1> SUFFICES ASSUME IInv, JoinReturns PROVE IInv'
  OBVIOUS
<1> USE DEF IInv
<1>1. item = 0 /\ Len(queue) = 0
  BY DEF JoinReturns, UnfinishedIsOutstanding, InHand, TypeOK
<1>2. Elements(queue) = {}
  BY <1>1 DEF Elements, TypeOK
<1>3. \A t \in (base + 1)..put : t \in Elements(table) \cup failed
  BY <1>1, <1>2 DEF NothingLost, TypeOK
<1>4. TypeOK'
  BY DEF JoinReturns, TypeOK, ExitStates, Logs
<1>5. Bounds' /\ InHand' /\ UnfinishedIsOutstanding' /\ PipelineInOrder'
  BY DEF JoinReturns, Bounds, InHand, UnfinishedIsOutstanding, PipelineInOrder
<1>6. NothingLost' /\ HandledAtExit'
  BY <1>3 DEF JoinReturns, NothingLost, HandledAtExit
<1> QED
  BY <1>4, <1>5, <1>6

\* A kill empties everything but the table, and makes its logs old ones.
LEMMA RestartStep == IInv /\ Restart => IInv'
<1> SUFFICES ASSUME IInv, Restart PROVE IInv'
  OBVIOUS
<1> USE DEF IInv
<1>1. <<>> \in Seq(Nat) /\ Elements(<<>>) = {} /\ Ascending(<<>>)
  BY EmptyLemma
<1>2. TypeOK'
  <2>1. /\ put' \in 0..MaxLogs /\ item' \in 0..put' /\ joined' \in 0..put'
        /\ base' \in 0..put' /\ restarts' \in 0..MaxRestarts /\ unfinished' \in Nat
    BY DEF Restart, TypeOK
  <2>2. failed' \in SUBSET Logs'
    BY DEF Restart
  <2>3. finished' \in BOOLEAN /\ writer' \in WriterStates /\ exit' \in ExitStates
    BY DEF Restart, WriterStates, ExitStates
  <2>4. queue' \in Seq(Nat) /\ txn' \in Seq(Nat) /\ table' \in Seq(Nat)
    BY <1>1 DEF Restart, TypeOK
  <2> QED
    BY <2>1, <2>2, <2>3, <2>4 DEF TypeOK
<1>3. Bounds' /\ InHand' /\ HandledAtExit'
  BY <1>1 DEF Restart, Bounds, InHand, HandledAtExit, Holding
<1>4. UnfinishedIsOutstanding'
  BY DEF Restart, UnfinishedIsOutstanding, Holding
<1>5. PipelineInOrder'
  BY <1>1 DEF Restart, PipelineInOrder
<1>6. NothingLost'
  BY DEF Restart, NothingLost, TypeOK
<1> QED
  BY <1>2, <1>3, <1>4, <1>5, <1>6

\* The steps that move a thread and no log.
Moves ==
    \/ WriterOpens \/ WriterOpenFails
    \/ GetTimesOut \/ KeepPolling \/ StopPolling
    \/ StartExit \/ SetFinished \/ WriterJoined

LEMMA MovesStep == IInv /\ Moves => IInv'
<1> SUFFICES ASSUME IInv, Moves PROVE IInv'
  OBVIOUS
<1> USE DEF IInv
<1>1. /\ UNCHANGED <<put, queue, unfinished, item, table, failed, joined, base,
                     restarts>>
      /\ txn' \in {txn, <<>>}
      /\ writer' = writer \/ (writer \notin Holding /\ writer' \notin Holding)
      /\ writer' \in WriterStates /\ exit' \in ExitStates
      /\ finished' \in BOOLEAN
  BY DEF Moves, WriterOpens, WriterOpenFails, GetTimesOut, KeepPolling,
         StopPolling, StartExit, SetFinished, WriterJoined, TypeOK,
         WriterStates, ExitStates, Holding
<1>2. writer' = "committing" => UNCHANGED <<writer, txn>>
  BY DEF Moves, WriterOpens, WriterOpenFails, GetTimesOut, KeepPolling,
         StopPolling, StartExit, SetFinished, WriterJoined
<1>3. exit' \in {"set", "thread_join", "closed"}
        => exit \in {"set", "thread_join", "closed"}
  BY DEF Moves, WriterOpens, WriterOpenFails, GetTimesOut, KeepPolling,
         StopPolling, StartExit, SetFinished, WriterJoined
<1>4. /\ txn' \in Seq(Nat) /\ Ascending(txn')
      /\ Elements(txn') \subseteq Elements(txn)
  BY <1>1, EmptyLemma DEF TypeOK, PipelineInOrder
<1>5. TypeOK'
  BY <1>1, <1>4 DEF TypeOK, Logs
<1>6. Bounds'
  BY <1>1, <1>4 DEF Bounds
<1>7. InHand'
  BY <1>1, <1>2 DEF InHand, Holding
<1>8. UnfinishedIsOutstanding'
  BY <1>1 DEF UnfinishedIsOutstanding
<1>9. PipelineInOrder'
  BY <1>1, <1>4 DEF PipelineInOrder, Holding
<1>10. NothingLost' /\ HandledAtExit'
  BY <1>1, <1>3 DEF NothingLost, HandledAtExit
<1> QED
  BY <1>5, <1>6, <1>7, <1>8, <1>9, <1>10

LEMMA StutterStep == IInv /\ UNCHANGED vars => IInv'
  BY DEF IInv, vars, TypeOK, Logs, Bounds, InHand, UnfinishedIsOutstanding,
         PipelineInOrder, NothingLost, HandledAtExit

LEMMA NextIInv == IInv /\ [Next]_vars => IInv'
<1> SUFFICES ASSUME IInv, [Next]_vars PROVE IInv'
  OBVIOUS
<1>1. CASE Put
  BY <1>1, PutStep
<1>2. CASE Get
  BY <1>2, GetStep
<1>3. CASE Insert
  BY <1>3, InsertStep
<1>4. CASE InsertFails
  BY <1>4, InsertFailsStep
<1>5. CASE Commit
  BY <1>5, CommitStep
<1>6. CASE TaskDone
  BY <1>6, TaskDoneStep
<1>7. CASE JoinReturns
  BY <1>7, JoinReturnsStep
<1>8. CASE Restart
  BY <1>8, RestartStep
<1>9. CASE Moves
  BY <1>9, MovesStep
<1>10. CASE UNCHANGED vars
  BY <1>10, StutterStep
<1> QED
  BY <1>1, <1>2, <1>3, <1>4, <1>5, <1>6, <1>7, <1>8, <1>9, <1>10
     DEF Next, WriterStep, ExitStep, Moves

-----------------------------------------------------------------------------
(* The theorems *)

\* Every reachable state satisfies the inductive invariant.
THEOREM Invariance == Spec => []IInv
<1>1. Init => IInv
  BY InitIInv
<1>2. IInv /\ [Next]_vars => IInv'
  BY NextIInv
<1> QED
  BY <1>1, <1>2, PTL DEF Spec

\* Type correctness: queue, hand, transaction, table and reports hold only logs
\* that were put.
THEOREM TypeCorrect == Spec => []TypeOK
<1>1. IInv => TypeOK
  BY DEF IInv
<1> QED
  BY <1>1, Invariance, PTL

\* The counter queue.join() waits on is the work left (dns_server.py:62-67).
THEOREM Accounting == Spec => []UnfinishedIsOutstanding
<1>1. IInv => UnfinishedIsOutstanding
  BY DEF IInv
<1> QED
  BY <1>1, Invariance, PTL

\* No log is stored twice and none overtakes another.
THEOREM Order == Spec => []PipelineInOrder
<1>1. IInv => PipelineInOrder
  BY DEF IInv
<1> QED
  BY <1>1, Invariance, PTL

\* No log of the running process vanishes.
THEOREM Conservation == Spec => []NothingLost
<1>1. IInv => NothingLost
  BY DEF IInv
<1> QED
  BY <1>1, Invariance, PTL

\* What was put before queue.join() returned is a row or was reported.
THEOREM Drained == Spec => []HandledAtExit
<1>1. IInv => HandledAtExit
  BY DEF IInv
<1> QED
  BY <1>1, Invariance, PTL

-----------------------------------------------------------------------------
(* The table implements LogStore *)

\* A commit appends at least the log in hand, in order, and changes no old row.
LEMMA CommitStores == IInv /\ Commit => Store!Store
<1> SUFFICES ASSUME IInv, Commit PROVE Store!Store
  OBVIOUS
<1> USE DEF IInv
<1>1. /\ table \in Seq(Nat) /\ txn \in Seq(Nat)
      /\ table' = table \o txn
      /\ put' = put
      /\ item \in Elements(txn)
  BY DEF Commit, TypeOK, InHand
<1>2. /\ Len(table') = Len(table) + Len(txn)
      /\ \A i \in 1..Len(table) : table'[i] = table[i]
      /\ Elements(table') = Elements(table) \cup Elements(txn)
  BY <1>1, ConcatLemma
<1>3. Len(txn) > 0
  <2>1. PICK i \in 1..Len(txn) : item = txn[i]
    BY <1>1 DEF Elements
  <2> QED
    BY <1>1, <2>1
<1>4. Ascending(table')
  BY <1>1, ConcatLemma DEF PipelineInOrder
<1>5. \A i \in 1..Len(table') : table'[i] \in 1..put
  <2>1. \A i \in 1..Len(table') : table'[i] \in Elements(table')
    BY Zenon DEF Elements
  <2>2. Elements(table') \subseteq 1..put
    BY <1>2 DEF Bounds, TypeOK
  <2> QED
    BY <2>1, <2>2
<1> QED
  BY <1>1, <1>2, <1>3, <1>4, <1>5 DEF Store!Store, Store!Ascending, Ascending

\* The rows of request_logs are a faithful log of the puts: appended in order,
\* each once, never changed, whatever fails or restarts.
THEOREM Refinement == Spec => StoresInOrder
<1>1. Init => Store!Init
  BY DEF Init, Store!Init
<1>2. IInv /\ [Next]_vars => [Store!Next]_<<put, table>>
  <2> SUFFICES ASSUME IInv, [Next]_vars PROVE [Store!Next]_<<put, table>>
    OBVIOUS
  <2>1. CASE Put
    BY <2>1 DEF Put, Store!Next, Store!Submit
  <2>2. CASE Commit
    BY <2>2, CommitStores DEF Store!Next
  <2>3. CASE ~Put /\ ~Commit
    <3>1. UNCHANGED <<put, table>>
      BY <2>3 DEF Next, WriterStep, ExitStep, vars, WriterOpens,
         WriterOpenFails, Get, GetTimesOut, KeepPolling, StopPolling, Insert,
         InsertFails, TaskDone, StartExit, JoinReturns, SetFinished,
         WriterJoined, Restart
    <3> QED
      BY <3>1
  <2> QED
    BY <2>1, <2>2, <2>3
<1> QED
  BY <1>1, <1>2, Invariance, PTL DEF Spec, StoresInOrder

=============================================================================
