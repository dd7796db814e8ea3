-------------------------- MODULE ThreadPoolProofs ---------------------------
(***************************************************************************)
(* With one worker the queue and the pool keep their promises, for any     *)
(* producers, tasks and number of nodes.                                   *)
(***************************************************************************)
EXTENDS ThreadPool, SequenceTheorems, TLAPS

\* The queue is made for one consumer.
OneWorker == \E w : Consumer = {w}

\* A node is linked from the one before it, or a producer has yet to do so.
Unlinked(n) ==
    next[n - 1] = Null /\ \E p \in Producer : writer[p].pc = "link" /\ writer[p].node = n

ListInv ==
    /\ tail <= head
    /\ \A n \in 1..head : next[n - 1] = n \/ Unlinked(n)
    /\ \A n \in head..MaxNodes : next[n] = Null

\* What a producer has yet to link is its own node, behind the tail.
WriterInv ==
    /\ \A p \in Producer : writer[p].pc = "link" =>
          /\ writer[p].node \in (tail + 1)..head
          /\ writer[p].prev = writer[p].node - 1
          /\ next[writer[p].prev] = Null
    /\ \A p, q \in Producer :
          writer[p].pc = "link" /\ writer[q].pc = "link" /\ writer[p].node = writer[q].node
              => p = q

\* The consumer's locals agree with the list; only nodes before the tail are freed.
ReaderInv ==
    /\ freed \subseteq 0..(tail - 1)
    /\ \A c \in Consumer :
          /\ reader[c].pc \in {"next", "value", "move"} => reader[c].tail = tail
          /\ reader[c].pc \in {"value", "move"} =>
                tail < head /\ next[tail] = tail + 1 /\ reader[c].next = tail + 1
          /\ reader[c].pc = "move" => reader[c].item = value[tail + 1]
          /\ reader[c].pc = "free" =>
                /\ tail > 0 /\ reader[c].tail = tail - 1 /\ reader[c].next = tail
                /\ tail - 1 \notin freed

\* A task has not run while it waits, or while its worker is about to run it.
TaskInv ==
    /\ \A n \in Node : runs[n] <= 1 /\ (n > tail => runs[n] = 0)
    /\ \A c \in Consumer :
          /\ reader[c].pc # "idle" => worker[c] = "dequeue"
          /\ reader[c].pc = "free" => runs[tail] = 0
          /\ worker[c] = "run" =>
                reader[c].pc = "idle" /\ reader[c].next = tail /\ runs[tail] = 0

IInv == TypeOK /\ ListInv /\ WriterInv /\ ReaderInv /\ TaskInv

-----------------------------------------------------------------------------
(* The invariant *)

\* The invariant holds of a new pool.
LEMMA InitIInv == Init => IInv
<1> SUFFICES ASSUME Init PROVE IInv
  OBVIOUS
<1>1. 0 \in Node /\ AnyValue \in Value
  BY QueueAssumption DEF Node, AnyValue
<1>2. TypeOK
  BY <1>1 DEF Init, QueueInit, TypeOK, QueueTypeOK, Null
<1>3. ListInv
  BY <1>1, QueueAssumption DEF Init, QueueInit, ListInv, Node
<1>4. WriterInv /\ ReaderInv /\ TaskInv
  BY <1>1, QueueAssumption DEF Init, QueueInit, WriterInv, ReaderInv, TaskInv, Node
<1> QED
  BY <1>2, <1>3, <1>4 DEF IInv

\* A new node at the head waits for its producer's link.
LEMMA SubmitExchangeIInv ==
    ASSUME IInv, NEW p \in Producer, NEW v \in Value, SubmitExchange(p, v)
    PROVE  IInv'
<1>1. /\ writer[p].pc = "idle" /\ head < MaxNodes /\ head' = head + 1
      /\ value' = [value EXCEPT ![head + 1] = v]
      /\ writer' = [writer EXCEPT ![p] = [pc |-> "link", node |-> head + 1, prev |-> head]]
      /\ UNCHANGED <<tail, next, freed, reader, taken, running, client, worker, owner, runs>>
  BY DEF SubmitExchange, Exchange, poolVars
<1>2. /\ head \in Nat /\ tail \in Nat /\ MaxNodes \in Nat /\ tail <= head
      /\ head \in Node /\ head + 1 \in Node
  BY <1>1, QueueAssumption DEF IInv, TypeOK, QueueTypeOK, ListInv, Node
<1>3. TypeOK'
  BY <1>1, <1>2 DEF IInv, TypeOK, QueueTypeOK
<1>4. next[head] = Null
  <2>1. head \in head..MaxNodes
    BY <1>1, <1>2
  <2> QED
    BY <2>1 DEF IInv, ListInv
<1>5. \A n \in 1..head : Unlinked(n) => Unlinked(n)'
  BY <1>1 DEF IInv, TypeOK, QueueTypeOK, Unlinked
<1>6. \A n \in Node : n = head + 1 => Unlinked(n)'
  <2> SUFFICES ASSUME NEW n \in Node, n = head + 1
               PROVE  Unlinked(n)'
    OBVIOUS
  <2>1. writer'[p].pc = "link" /\ writer'[p].node = n
    BY <1>1 DEF IInv, TypeOK, QueueTypeOK
  <2>2. n - 1 = head
    BY <1>2
  <2> QED
    BY <1>1, <1>4, <2>1, <2>2 DEF Unlinked
<1>7. ListInv'
  <2>1. ASSUME NEW n \in 1..(head + 1)
        PROVE  next[n - 1] = n \/ Unlinked(n)'
    <3>1. CASE n = head + 1
      BY <3>1, <1>2, <1>6
    <3>2. CASE n \in 1..head
      BY <3>2, <1>5 DEF IInv, ListInv
    <3> QED
      BY <3>1, <3>2, <1>2
  <2>2. \A n \in (head + 1)..MaxNodes : next[n] = Null
    BY <1>2 DEF IInv, ListInv
  <2> QED
    BY <1>1, <1>2, <2>1, <2>2 DEF ListInv, Unlinked
<1>8. WriterInv'
  BY <1>1, <1>2, <1>4 DEF IInv, TypeOK, QueueTypeOK, WriterInv
<1>9. ReaderInv'
  BY <1>1, <1>2 DEF IInv, TypeOK, QueueTypeOK, ReaderInv, Node
<1>10. TaskInv'
  BY <1>1 DEF IInv, TaskInv
<1> QED
  BY <1>3, <1>7, <1>8, <1>9, <1>10 DEF IInv

\* Linking touches the producer's own node only.
LEMMA SubmitLinkIInv ==
    ASSUME IInv, NEW p \in Producer, SubmitLink(p)
    PROVE  IInv'
<1> DEFINE m == writer[p].node
<1>1. /\ writer[p].pc = "link"
      /\ next' = [next EXCEPT ![writer[p].prev] = m]
      /\ writer' = [writer EXCEPT ![p].pc = "idle"]
      /\ client' = [client EXCEPT ![p] = "idle"]
      /\ UNCHANGED <<head, tail, value, freed, reader, taken, running, worker, owner, runs>>
  BY DEF SubmitLink, Link
<1>2. /\ m \in Node /\ m \in (tail + 1)..head /\ writer[p].prev = m - 1 /\ m - 1 \in Node
      /\ next[m - 1] = Null
      /\ head \in Nat /\ tail \in Nat /\ MaxNodes \in Nat /\ head <= MaxNodes
  BY <1>1, QueueAssumption DEF IInv, TypeOK, QueueTypeOK, WriterInv, Node
<1>3. TypeOK'
  BY <1>1, <1>2 DEF IInv, TypeOK, QueueTypeOK
<1>4. \A n \in 0..MaxNodes : next'[n] = IF n = m - 1 THEN m ELSE next[n]
  BY <1>1, <1>2 DEF IInv, TypeOK, QueueTypeOK, Node
<1>5. \A n \in 1..head : n # m /\ Unlinked(n) => Unlinked(n)'
  BY <1>1, <1>2, <1>4 DEF IInv, TypeOK, QueueTypeOK, Unlinked
<1>6. ListInv'
  BY <1>1, <1>2, <1>4, <1>5 DEF IInv, ListInv
<1>7. WriterInv'
  <2>1. ASSUME NEW q \in Producer, writer'[q].pc = "link"
        PROVE  /\ q # p /\ writer[q].pc = "link" /\ writer'[q] = writer[q]
               /\ writer[q].node # m
    BY <1>1, <2>1 DEF IInv, TypeOK, QueueTypeOK, WriterInv
  <2>2. ASSUME NEW q \in Producer, writer'[q].pc = "link"
        PROVE  /\ writer'[q].node \in (tail + 1)..head
               /\ writer'[q].prev = writer'[q].node - 1
               /\ next'[writer'[q].prev] = Null
    BY <1>2, <1>4, <2>1, <2>2 DEF IInv, WriterInv
  <2> QED
    BY <1>1, <2>1, <2>2 DEF IInv, WriterInv
<1>8. ReaderInv'
  BY <1>1, <1>2, <1>4, QueueAssumption DEF IInv, TypeOK, QueueTypeOK, ReaderInv, Node, Null
<1>9. TaskInv'
  BY <1>1 DEF IInv, TaskInv
<1> QED
  BY <1>3, <1>6, <1>7, <1>8, <1>9 DEF IInv

\* The steps of dequeue that only read.
LEMMA ReadsIInv ==
    ASSUME IInv, NEW c \in Consumer, worker[c] = "dequeue",
           ReadTail(c) \/ ReadNext(c) \/ ReadValue(c), UNCHANGED poolVars
    PROVE  IInv'
<1>1. UNCHANGED <<head, tail, next, value, freed, writer, taken,
                  running, client, worker, owner, runs>>
  BY DEF ReadTail, ReadNext, ReadValue, poolVars
<1>2. TypeOK'
  <2>1. reader[c].tail \in Node /\ reader[c].next \in Node /\ tail \in Node
    BY DEF IInv, TypeOK, QueueTypeOK
  <2>2. ReadNext(c) => next[reader[c].tail] \in Node
    BY <2>1 DEF IInv, TypeOK, QueueTypeOK, ReadNext
  <2>3. value[reader[c].next] \in Value
    BY <2>1 DEF IInv, TypeOK, QueueTypeOK
  <2>4. reader' \in [Consumer -> [pc : {"idle", "next", "value", "move", "free"},
                                  tail : Node, next : Node, item : Value]]
    <3>1. CASE ReadTail(c)
      BY <3>1, <2>1 DEF IInv, TypeOK, QueueTypeOK, ReadTail
    <3>2. CASE ReadNext(c)
      BY <3>2, <2>2 DEF IInv, TypeOK, QueueTypeOK, ReadNext
    <3>3. CASE ReadValue(c)
      <4> DEFINE item == value[reader[c].next]
      <4>1. /\ item \in Value
            /\ reader' = [reader EXCEPT ![c] = [@ EXCEPT !.pc = "move", !.item = item]]
        BY <3>3, <2>3 DEF ReadValue
      <4> HIDE DEF item
      <4> QED
        BY <4>1 DEF IInv, TypeOK, QueueTypeOK
    <3> QED
      BY <3>1, <3>2, <3>3
  <2> QED
    BY <1>1, <2>4 DEF IInv, TypeOK, QueueTypeOK
<1>3. ListInv' /\ WriterInv'
  BY <1>1 DEF IInv, ListInv, WriterInv, Unlinked
<1>4. ReaderInv'
  <2>1. CASE ReadTail(c)
    BY <1>1, <2>1 DEF IInv, TypeOK, QueueTypeOK, ReaderInv, ReadTail
  <2>2. CASE ReadNext(c)
    <3>1. reader[c].pc = "next" /\ reader[c].tail = tail /\ next[tail] # Null
      BY <2>2 DEF IInv, ReaderInv, ReadNext
    <3>2. tail < head /\ next[tail] = tail + 1
      <4>1. tail \in Nat /\ head \in Nat /\ MaxNodes \in Nat /\ head <= MaxNodes /\ tail <= head
        BY QueueAssumption DEF IInv, TypeOK, QueueTypeOK, ListInv, Node
      <4>2. tail < head
        BY <3>1, <4>1 DEF IInv, ListInv
      <4>3. tail + 1 \in 1..head /\ (tail + 1) - 1 = tail
        BY <4>1, <4>2
      <4> QED
        BY <3>1, <4>2, <4>3 DEF IInv, ListInv, Unlinked
    <3> QED
      BY <1>1, <2>2, <3>1, <3>2 DEF IInv, TypeOK, QueueTypeOK, ReaderInv, ReadNext
  <2>3. CASE ReadValue(c)
    <3> DEFINE item == value[reader[c].next]
    <3>1. /\ reader[c].pc = "value"
          /\ reader' = [reader EXCEPT ![c] = [@ EXCEPT !.pc = "move", !.item = item]]
      BY <2>3 DEF ReadValue
    <3>2. item = value[tail + 1]
      BY <3>1 DEF IInv, ReaderInv
    <3> HIDE DEF item
    <3>3. /\ reader'[c].pc = "move" /\ reader'[c].item = item
          /\ reader'[c].tail = reader[c].tail /\ reader'[c].next = reader[c].next
          /\ \A d \in Consumer : d # c => reader'[d] = reader[d]
      BY <3>1 DEF IInv, TypeOK, QueueTypeOK
    <3>4. /\ reader[c].tail = tail /\ reader[c].next = tail + 1
          /\ tail < head /\ next[tail] = tail + 1
      BY <3>1 DEF IInv, ReaderInv
    <3>5. UNCHANGED <<head, tail, next, value, freed>>
      BY <1>1
    <3> QED
      BY <3>2, <3>3, <3>4, <3>5 DEF IInv, ReaderInv
  <2> QED
    BY <2>1, <2>2, <2>3
<1>5. TaskInv'
  <2>1. /\ reader'[c].pc \in {"next", "value", "move"}
        /\ \A d \in Consumer : d # c => reader'[d] = reader[d]
    <3> USE DEF IInv, TypeOK, QueueTypeOK
    <3>1. CASE ReadTail(c)
      BY <3>1 DEF ReadTail
    <3>2. CASE ReadNext(c)
      BY <3>2 DEF ReadNext
    <3>3. CASE ReadValue(c)
      BY <3>3 DEF ReadValue
    <3> QED
      BY <3>1, <3>2, <3>3
  <2> QED
    BY <1>1, <2>1 DEF IInv, TaskInv
<1> QED
  BY <1>2, <1>3, <1>4, <1>5 DEF IInv

\* Moving the tail: no other consumer is looking at it.
LEMMA MoveTailIInv ==
    ASSUME IInv, OneWorker, NEW c \in Consumer, worker[c] = "dequeue",
           MoveTail(c), UNCHANGED poolVars
    PROVE  IInv'
<1>1. /\ reader[c].pc = "move" /\ reader' = [reader EXCEPT ![c].pc = "free"]
      /\ tail' = reader[c].next /\ taken' = reader[c].item
      /\ UNCHANGED <<head, next, value, freed, writer, running, client, worker, owner, runs>>
  BY DEF MoveTail, poolVars
<1>2. Consumer = {c}
  BY DEF OneWorker
<1>3. /\ tail \in Nat /\ head \in Nat /\ tail' = tail + 1 /\ tail < head
      /\ reader[c].tail = tail /\ next[tail] = tail + 1 /\ tail + 1 \in Node
  BY <1>1, QueueAssumption DEF IInv, TypeOK, QueueTypeOK, ReaderInv, Node
<1>4. TypeOK'
  BY <1>1 DEF IInv, TypeOK, QueueTypeOK
<1>5. ListInv'
  BY <1>1, <1>3 DEF IInv, ListInv, Unlinked
<1>6. WriterInv'
  <2>1. ASSUME NEW p \in Producer, writer[p].pc = "link"
        PROVE  writer[p].node \in (tail + 2)..head
    <3>1. /\ writer[p].node \in (tail + 1)..head /\ next[writer[p].node - 1] = Null
      BY <2>1 DEF IInv, WriterInv
    <3>2. writer[p].node # tail + 1
      BY <1>3, <3>1 DEF Null
    <3> QED
      BY <1>3, <3>1, <3>2
  <2> QED
    BY <1>1, <1>3, <2>1 DEF IInv, WriterInv
<1>7. ReaderInv'
  BY <1>1, <1>2, <1>3 DEF IInv, TypeOK, QueueTypeOK, ReaderInv
<1>8. TaskInv'
  BY <1>1, <1>2, <1>3 DEF IInv, TypeOK, QueueTypeOK, TaskInv, Node
<1> QED
  BY <1>4, <1>5, <1>6, <1>7, <1>8 DEF IInv

\* Deleting the old tail, and going on to run the task.
LEMMA DequeuedIInv ==
    ASSUME IInv, OneWorker, NEW c \in Consumer, Dequeued(c)
    PROVE  IInv'
<1>1. /\ worker[c] = "dequeue" /\ worker' = [worker EXCEPT ![c] = "run"]
      /\ reader[c].pc = "free" /\ reader' = [reader EXCEPT ![c].pc = "idle"]
      /\ freed' = freed \union {reader[c].tail}
      /\ UNCHANGED <<head, tail, next, value, writer, taken, running, client, owner, runs>>
  BY DEF Dequeued, FreeTail
<1>2. Consumer = {c}
  BY DEF OneWorker
<1>3. TypeOK'
  BY <1>1 DEF IInv, TypeOK, QueueTypeOK
<1>4. ListInv' /\ WriterInv'
  BY <1>1 DEF IInv, ListInv, WriterInv, Unlinked
<1>5. ReaderInv'
  BY <1>1, <1>2 DEF IInv, TypeOK, QueueTypeOK, ReaderInv, Node
<1>6. TaskInv'
  BY <1>1, <1>2 DEF IInv, TypeOK, QueueTypeOK, ReaderInv, TaskInv
<1> QED
  BY <1>3, <1>4, <1>5, <1>6 DEF IInv

\* An empty queue.
LEMMA SleepEmptyIInv ==
    ASSUME IInv, NEW c \in Consumer, SleepEmpty(c)
    PROVE  IInv'
<1>1. /\ worker[c] = "dequeue" /\ worker' = [worker EXCEPT ![c] = "loop"]
      /\ reader[c].pc = "next" /\ reader' = [reader EXCEPT ![c].pc = "idle"]
      /\ UNCHANGED <<head, tail, next, value, freed, writer, taken,
                     running, client, owner, runs>>
  BY DEF SleepEmpty, ReadNextEmpty
<1>2. TypeOK'
  BY <1>1 DEF IInv, TypeOK, QueueTypeOK
<1>3. ListInv' /\ WriterInv'
  BY <1>1 DEF IInv, ListInv, WriterInv, Unlinked
<1>4. ReaderInv' /\ TaskInv'
  BY <1>1 DEF IInv, TypeOK, QueueTypeOK, ReaderInv, TaskInv
<1> QED
  BY <1>2, <1>3, <1>4 DEF IInv

\* The worker runs a task that has not run.
LEMMA RunTaskIInv ==
    ASSUME IInv, OneWorker, NEW c \in Consumer, RunTask(c)
    PROVE  IInv'
<1>1. /\ worker[c] = "run" /\ worker' = [worker EXCEPT ![c] = "loop"]
      /\ runs' = [runs EXCEPT ![reader[c].next] = @ + 1]
      /\ UNCHANGED <<head, tail, next, value, freed, writer, reader, taken,
                     running, client, owner>>
  BY DEF RunTask, queueVars
<1>2. Consumer = {c}
  BY DEF OneWorker
<1>3. /\ reader[c].pc = "idle" /\ reader[c].next = tail /\ runs[tail] = 0
      /\ tail \in Node /\ runs \in [Node -> Nat]
  BY <1>1 DEF IInv, TaskInv, TypeOK, QueueTypeOK
<1>4. runs' = [runs EXCEPT ![tail] = 1]
  BY <1>1, <1>3
<1>5. TypeOK'
  BY <1>1, <1>3, <1>4 DEF IInv, TypeOK, QueueTypeOK
<1>6. ListInv' /\ WriterInv' /\ ReaderInv'
  BY <1>1 DEF IInv, ListInv, WriterInv, ReaderInv, Unlinked
<1>7. TaskInv'
  BY <1>1, <1>2, <1>3, <1>4 DEF IInv, TypeOK, TaskInv, Node
<1> QED
  BY <1>5, <1>6, <1>7 DEF IInv

\* The steps that touch flags only.
LEMMA FlagsIInv ==
    ASSUME IInv,
           \/ \E p \in Producer : Submit(p)
           \/ \E c \in Consumer : CheckRunning(c)
           \/ Shutdown \/ JoinAll \/ UNCHANGED vars
    PROVE  IInv'
<1>1. UNCHANGED <<queueVars, runs>>
  BY DEF Submit, CheckRunning, Shutdown, JoinAll, vars, poolVars
<1>2. \A c \in Consumer : worker'[c] = worker[c] \/
          (worker[c] = "loop" /\ worker'[c] \in {"dequeue", "exited"})
  BY DEF IInv, TypeOK, Submit, CheckRunning, Shutdown, JoinAll, vars, poolVars
<1>3. TypeOK'
  BY <1>1 DEF IInv, TypeOK, QueueTypeOK, queueVars, Submit, CheckRunning, Shutdown, JoinAll,
              vars, poolVars
<1>4. ListInv' /\ WriterInv' /\ ReaderInv'
  BY <1>1 DEF IInv, ListInv, WriterInv, ReaderInv, Unlinked, queueVars
<1>5. TaskInv'
  BY <1>1, <1>2 DEF IInv, TaskInv, queueVars
<1> QED
  BY <1>3, <1>4, <1>5 DEF IInv

\* Every step of a pool with one worker keeps the invariant.
LEMMA NextIInv == OneWorker /\ IInv /\ [Next]_vars => IInv'
<1> SUFFICES ASSUME OneWorker, IInv, [Next]_vars PROVE IInv'
  OBVIOUS
<1>1. CASE \E p \in Producer, v \in Value : SubmitExchange(p, v)
  BY <1>1, SubmitExchangeIInv
<1>2. CASE \E p \in Producer : SubmitLink(p)
  BY <1>2, SubmitLinkIInv
<1>3. CASE \E c \in Consumer : Dequeue(c)
  BY <1>3, ReadsIInv, MoveTailIInv DEF Dequeue
<1>4. CASE \E c \in Consumer : SleepEmpty(c)
  BY <1>4, SleepEmptyIInv
<1>5. CASE \E c \in Consumer : Dequeued(c)
  BY <1>5, DequeuedIInv
<1>6. CASE \E c \in Consumer : RunTask(c)
  BY <1>6, RunTaskIInv
<1>7. CASE \/ \E p \in Producer : Submit(p)
           \/ \E c \in Consumer : CheckRunning(c)
           \/ Shutdown \/ JoinAll \/ UNCHANGED vars
  BY <1>7, FlagsIInv
<1> QED
  BY <1>1, <1>2, <1>3, <1>4, <1>5, <1>6, <1>7 DEF Next, SubmitGoesOn, Work

\* The inductive invariant of a pool with one worker: the list is linked up to
\* gaps that producers are about to fill, and the worker's locals agree with it.
THEOREM Invariant == OneWorker => (Spec => []IInv)
<1> SUFFICES ASSUME OneWorker PROVE Spec => []IInv
  OBVIOUS
<1>1. IInv /\ [Next]_vars => IInv'
  BY NextIInv
<1> QED
  BY <1>1, InitIInv, PTL DEF Spec

\* Types of the queue and the pool.
THEOREM TypeCorrect == OneWorker => (Spec => []TypeOK)
<1> SUFFICES ASSUME OneWorker PROVE Spec => []TypeOK
  OBVIOUS
<1>1. Spec => []IInv
  BY Invariant
<1>2. IInv => TypeOK
  BY DEF IInv
<1> QED
  BY <1>1, <1>2, PTL

\* With one worker, no task runs twice.
THEOREM RunsOnce == OneWorker => (Spec => []EachTaskOnce)
<1> SUFFICES ASSUME OneWorker PROVE Spec => []EachTaskOnce
  OBVIOUS
<1>1. Spec => []IInv
  BY Invariant
<1>2. IInv => EachTaskOnce
  BY DEF IInv, TaskInv, EachTaskOnce
<1> QED
  BY <1>1, <1>2, PTL

\* With one worker, no thread touches a node that was deleted.
THEOREM NodesLive == OneWorker => (Spec => []NoUseAfterFree)
<1> SUFFICES ASSUME OneWorker PROVE Spec => []NoUseAfterFree
  OBVIOUS
<1>1. Spec => []IInv
  BY Invariant
<1>2. IInv => NoUseAfterFree
  <2> SUFFICES ASSUME IInv PROVE NoUseAfterFree
    OBVIOUS
  <2>1. tail \in Nat /\ freed \subseteq 0..(tail - 1)
    BY QueueAssumption DEF IInv, TypeOK, QueueTypeOK, ReaderInv, Node
  <2>2. \A p \in Producer : writer[p].pc = "link" => writer[p].prev \notin freed
    BY <2>1 DEF IInv, WriterInv
  <2>3. ASSUME NEW c \in Consumer
        PROVE  /\ reader[c].pc # "idle" => reader[c].tail \notin freed
               /\ reader[c].pc = "value" => reader[c].next \notin freed
    BY <2>1 DEF IInv, TypeOK, QueueTypeOK, ReaderInv
  <2> QED
    BY <2>2, <2>3 DEF NoUseAfterFree
<1> QED
  BY <1>1, <1>2, PTL

\* With one worker, an empty dequeue means an empty queue, or a gap.
THEOREM EmptyTrue == OneWorker => (Spec => EmptyIsTrue)
<1> SUFFICES ASSUME OneWorker PROVE Spec => EmptyIsTrue
  OBVIOUS
<1>1. Spec => []IInv
  BY Invariant
<1> DEFINE A == \A c \in Consumer :
                   ReadNextEmpty(c) =>
                      \/ head = tail
                      \/ \E p \in Producer : writer[p].pc = "link" /\ writer[p].node = tail + 1
<1>2. IInv => A
  <2> SUFFICES ASSUME IInv, NEW c \in Consumer, ReadNextEmpty(c), head # tail
               PROVE  \E p \in Producer : writer[p].pc = "link" /\ writer[p].node = tail + 1
    OBVIOUS
  <2>1. next[tail] = Null
    BY DEF IInv, ReaderInv, ReadNextEmpty
  <2>2. tail \in Nat /\ head \in Nat /\ tail < head
    BY QueueAssumption DEF IInv, TypeOK, QueueTypeOK, ListInv, Node
  <2>3. tail + 1 \in 1..head /\ (tail + 1) - 1 = tail
    BY <2>2
  <2>4. next[tail] # tail + 1
    BY <2>1, <2>2 DEF Null
  <2> QED
    BY <2>3, <2>4 DEF IInv, ListInv, Unlinked
<1> QED
  BY <1>1, <1>2, PTL DEF EmptyIsTrue

-----------------------------------------------------------------------------
(* Refinement of the FIFO queue *)

\* What waits is a sequence.
LEMMA WaitingSeq ==
    ASSUME IInv
    PROVE  /\ head - tail \in Nat /\ head <= MaxNodes /\ head \in Nat /\ tail \in Nat
           /\ Waiting \in Seq(Value)
           /\ Len(Waiting) = head - tail
           /\ \A i \in 1..(head - tail) :
                 Waiting[i] = value[tail + i] /\ value[tail + i] \in Value
<1>1. head \in Nat /\ tail \in Nat /\ head - tail \in Nat /\ head <= MaxNodes
  BY QueueAssumption DEF IInv, TypeOK, QueueTypeOK, ListInv, Node
<1>2. \A i \in 1..(head - tail) : value[tail + i] \in Value
  BY <1>1, QueueAssumption DEF IInv, TypeOK, QueueTypeOK, Node
<1>3. Waiting \in [1..(head - tail) -> Value]
  BY <1>2 DEF Waiting
<1> QED
  BY <1>1, <1>2, <1>3 DEF Waiting

\* An exchange appends.
LEMMA ExchangePuts ==
    ASSUME IInv, NEW p \in Producer, NEW v \in Value, Exchange(p, v)
    PROVE  Len(Waiting) < MaxNodes /\ Waiting' = Append(Waiting, v) /\ UNCHANGED taken
<1> DEFINE n == head - tail
<1>1. /\ head < MaxNodes /\ head' = head + 1 /\ tail' = tail
      /\ value' = [value EXCEPT ![head + 1] = v] /\ taken' = taken
  BY DEF Exchange
<1>2. /\ n \in Nat /\ head \in Nat /\ tail \in Nat
      /\ Waiting \in Seq(Value) /\ Len(Waiting) = n
      /\ \A i \in 1..n : Waiting[i] = value[tail + i] /\ value[tail + i] \in Value
  BY WaitingSeq
<1>3. head + 1 \in Node /\ value \in [Node -> Value]
  BY <1>1, <1>2, QueueAssumption DEF IInv, TypeOK, QueueTypeOK, Node
<1>4. \A i \in 1..(n + 1) : value'[tail + i] = IF i = n + 1 THEN v ELSE Waiting[i]
  <2> SUFFICES ASSUME NEW i \in 1..(n + 1)
               PROVE  value'[tail + i] = IF i = n + 1 THEN v ELSE Waiting[i]
    OBVIOUS
  <2>1. CASE i = n + 1
    BY <1>1, <1>2, <1>3, <2>1
  <2>2. CASE i # n + 1
    <3>1. i \in 1..n /\ tail + i # head + 1 /\ tail + i \in Node
      BY <1>1, <1>2, <2>2, QueueAssumption DEF Node
    <3> QED
      BY <1>1, <1>2, <1>3, <2>2, <3>1
  <2> QED
    BY <2>1, <2>2
<1>5. Waiting' = [i \in 1..(n + 1) |-> value'[tail + i]]
  <2>1. head' - tail' = n + 1
    BY <1>1, <1>2
  <2> QED
    BY <1>1, <2>1 DEF Waiting
<1>6. /\ Waiting' \in Seq(Value) /\ Len(Waiting') = n + 1
      /\ \A i \in 1..(n + 1) : Waiting'[i] = IF i = n + 1 THEN v ELSE Waiting[i]
  <2>1. \A i \in 1..(n + 1) : i = n + 1 \/ i \in 1..n
    BY <1>2
  <2>2. \A i \in 1..(n + 1) : value'[tail + i] \in Value
    BY <1>2, <1>4, <2>1
  <2>3. Waiting' \in [1..(n + 1) -> Value]
    BY <1>5, <2>2
  <2>4. n + 1 \in Nat
    BY <1>2
  <2>5. Waiting' \in Seq(Value) /\ Len(Waiting') = n + 1
    BY <2>3, <2>4
  <2> QED
    BY <1>4, <1>5, <2>5
<1>7. /\ Append(Waiting, v) \in Seq(Value) /\ Len(Append(Waiting, v)) = n + 1
      /\ \A i \in 1..n : Append(Waiting, v)[i] = Waiting[i]
      /\ Append(Waiting, v)[n + 1] = v
  BY <1>2, AppendProperties
<1>8. \A i \in 1..Len(Waiting') : Waiting'[i] = Append(Waiting, v)[i]
  BY <1>2, <1>6, <1>7
<1>9. Waiting' = Append(Waiting, v)
  BY <1>6, <1>7, <1>8, SeqEqual
<1>10. Len(Waiting) < MaxNodes
  BY <1>1, <1>2, QueueAssumption
<1> QED
  BY <1>1, <1>9, <1>10

\* Moving the tail takes the first value.
LEMMA MoveTailTakes ==
    ASSUME IInv, NEW c \in Consumer, MoveTail(c)
    PROVE  Waiting # << >> /\ Waiting' = Tail(Waiting) /\ taken' = Head(Waiting)
<1> DEFINE n == head - tail
<1>1. /\ reader[c].pc = "move" /\ tail' = reader[c].next /\ taken' = reader[c].item
      /\ head' = head /\ value' = value
  BY DEF MoveTail
<1>2. /\ n \in Nat /\ head \in Nat /\ tail \in Nat
      /\ Waiting \in Seq(Value) /\ Len(Waiting) = n
      /\ \A i \in 1..n : Waiting[i] = value[tail + i] /\ value[tail + i] \in Value
  BY WaitingSeq
<1>3. tail < head /\ tail' = tail + 1 /\ taken' = value[tail + 1]
  BY <1>1 DEF IInv, ReaderInv
<1>4. n \in Nat \ {0} /\ Waiting # << >>
  BY <1>2, <1>3
<1>5. taken' = Head(Waiting)
  <2>1. 1 \in 1..n /\ Head(Waiting) = Waiting[1]
    BY <1>2, <1>4
  <2> QED
    BY <1>2, <1>3, <2>1
<1>6. Waiting' = [i \in 1..(n - 1) |-> value[(tail + 1) + i]]
  <2>1. head' - tail' = n - 1
    BY <1>1, <1>2, <1>3
  <2> QED
    BY <1>1, <1>3, <2>1 DEF Waiting
<1>7. \A i \in 1..(n - 1) : (tail + 1) + i = tail + (i + 1) /\ i + 1 \in 1..n
  BY <1>2, <1>4
<1>8. /\ Waiting' \in Seq(Value) /\ Len(Waiting') = n - 1
      /\ \A i \in 1..(n - 1) : Waiting'[i] = Waiting[i + 1]
  <2>1. \A i \in 1..(n - 1) :
           value[(tail + 1) + i] = Waiting[i + 1] /\ value[(tail + 1) + i] \in Value
    BY <1>2, <1>7
  <2>2. Waiting' \in [1..(n - 1) -> Value]
    BY <1>6, <2>1
  <2> QED
    BY <1>4, <1>6, <2>1, <2>2
<1>9. /\ Tail(Waiting) \in Seq(Value) /\ Len(Tail(Waiting)) = n - 1
      /\ \A i \in 1..(n - 1) : Tail(Waiting)[i] = Waiting[i + 1]
  BY <1>2, <1>4, HeadTailProperties
<1>10. Waiting' = Tail(Waiting)
  <2>1. \A i \in 1..Len(Waiting') : Waiting'[i] = Tail(Waiting)[i]
    BY <1>8, <1>9
  <2> QED
    BY <1>8, <1>9, <2>1, SeqEqual
<1> QED
  BY <1>4, <1>5, <1>10

\* The queue of a pool with one worker implements a FIFO queue: tasks are taken
\* once each, in the order of the exchanges.
THEOREM Refines == OneWorker => (Spec => IsFifo)
<1> SUFFICES ASSUME OneWorker PROVE Spec => IsFifo
  OBVIOUS
<1>1. Spec => []IInv
  BY Invariant
<1>2. Init => Fifo!Init
  <2> SUFFICES ASSUME Init PROVE Waiting = << >>
    BY DEF Fifo!Init
  <2>1. IInv /\ head - tail = 0
    BY InitIInv DEF Init, QueueInit
  <2> QED
    BY <2>1, WaitingSeq
<1>3. IInv /\ [Next]_vars => [Fifo!Next]_(Fifo!vars)
  <2> SUFFICES ASSUME IInv, [Next]_vars
               PROVE  Fifo!Next \/ UNCHANGED <<Waiting, taken>>
    BY DEF Fifo!vars
  <2>1. CASE \E p \in Producer, v \in Value : SubmitExchange(p, v)
    BY <2>1, ExchangePuts DEF SubmitExchange, Fifo!Next, Fifo!Put
  <2>2. CASE \E c \in Consumer : MoveTail(c)
    BY <2>2, MoveTailTakes DEF Fifo!Next, Fifo!Take
  <2>3. CASE UNCHANGED <<head, tail, value, taken>>
    BY <2>3 DEF Waiting
  <2>4. CASE \E p \in Producer : SubmitLink(p)
    BY <2>4, <2>3 DEF SubmitLink, Link
  <2>5. CASE \E c \in Consumer : Dequeue(c)
    BY <2>5, <2>2, <2>3 DEF Dequeue, ReadTail, ReadNext, ReadValue
  <2>6. CASE \E c \in Consumer : SleepEmpty(c) \/ Dequeued(c)
    BY <2>6, <2>3 DEF SleepEmpty, ReadNextEmpty, Dequeued, FreeTail
  <2>7. CASE \/ \E p \in Producer : Submit(p)
             \/ \E c \in Consumer : CheckRunning(c) \/ RunTask(c)
             \/ Shutdown \/ JoinAll \/ UNCHANGED vars
    BY <2>7, <2>3 DEF Submit, CheckRunning, RunTask, Shutdown, JoinAll, vars, queueVars
  <2> QED
    BY <2>1, <2>4, <2>5, <2>6, <2>7 DEF Next, SubmitGoesOn, Work
<1> QED
  BY <1>1, <1>2, <1>3, PTL DEF Spec, IsFifo, Fifo!Safety

-----------------------------------------------------------------------------
(* Shutdown, with any number of workers *)

\* Once shutdown has returned every worker_thread has ended, and none starts again.
DownInv ==
    /\ worker \in [Consumer -> {"loop", "dequeue", "run", "exited"}]
    /\ owner = "down" => \A c \in Consumer : worker[c] = "exited"

\* A worker that works has not exited.
LEMMA WorkDown == ASSUME DownInv, NEW c \in Consumer, Work(c) PROVE DownInv' /\ owner # "down"
<1>1. worker[c] # "exited" /\ owner' = owner
  BY DEF Work, CheckRunning, Dequeue, SleepEmpty, Dequeued, RunTask, poolVars
<1>2. owner # "down"
  BY <1>1 DEF DownInv
<1>3. worker' \in [Consumer -> {"loop", "dequeue", "run", "exited"}]
  BY DEF DownInv, Work, CheckRunning, Dequeue, SleepEmpty, Dequeued, RunTask, poolVars
<1> QED
  BY <1>1, <1>2, <1>3 DEF DownInv

\* The rest leaves the workers alone, and shutdown returns when they have ended.
LEMMA NextDown ==
    ASSUME DownInv, [Next]_vars
    PROVE  DownInv' /\ (owner = "down" => UNCHANGED runs)
<1>1. CASE \E p \in Producer : Submit(p) \/ SubmitGoesOn(p)
  <2>1. UNCHANGED <<worker, owner, runs>>
    BY <1>1 DEF Submit, SubmitGoesOn, SubmitLink, SubmitExchange, poolVars
  <2> QED
    BY <2>1 DEF DownInv
<1>2. CASE \E c \in Consumer : Work(c)
  BY <1>2, WorkDown
<1>3. CASE Shutdown
  BY <1>3 DEF Shutdown, DownInv
<1>4. CASE JoinAll
  BY <1>4 DEF JoinAll, DownInv
<1>5. CASE UNCHANGED vars
  BY <1>5 DEF vars, poolVars, DownInv
<1> QED
  BY <1>1, <1>2, <1>3, <1>4, <1>5 DEF Next

\* Once shutdown has returned no task runs, however many workers there were and
\* whatever was submitted meanwhile.
THEOREM QuietWhenDown == Spec => QuietAfterShutdown
<1>1. Init => DownInv
  BY DEF Init, DownInv
<1>2. DownInv /\ [Next]_vars => DownInv'
  BY NextDown
<1>3. DownInv /\ [Next]_vars => [owner = "down" => UNCHANGED runs]_vars
  BY NextDown
<1> QED
  BY <1>1, <1>2, <1>3, PTL DEF Spec, QuietAfterShutdown
=============================================================================
