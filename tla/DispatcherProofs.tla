-------------------------- MODULE DispatcherProofs --------------------------
(***************************************************************************)
(* The bus gives each event it takes up to each handler of its type once,  *)
(* and process, clear and stop leave nothing behind that could be reached  *)
(* when they were called, for any threads, events and subscriptions.       *)
(*                                                                         *)
(* The queue is made for one consumer and two threads call dequeue, so the *)
(* argument begins with who may: Main while there is no Async, and Async   *)
(* from start to stop.                                                     *)
(***************************************************************************)
EXTENDS EventDispatcher, Induction

\* A thread is in process_events.
Busy(c) == proc[c].pc \in {"dequeue", "lock", "dispatch", "handler"}

BusTypeOK ==
    /\ async \in BOOLEAN
    /\ proc \in [Consumer -> [pc   : {"idle", "join", "none", "check", "ended",
                                      "dequeue", "lock", "dispatch", "handler"},
                              mode : {"process", "clear", "loop", "final"},
                              left : Nat]]
    /\ mutex \in Consumer \cup {Nobody}
    /\ handlers \in [Value -> Nat]
    /\ called \in [Node -> Nat]
    /\ due \in Node

\* Nodes are linked from the ones before them or not at all.
LinkInv ==
    /\ \A n \in Node : next[n] \in {n + 1, Null}
    /\ \A p \in Producer : writer[p].pc = "link" => writer[p].node = writer[p].prev + 1

\* One thread processes events at a time; the dispatcher's own is on its last
\* drain only while Main waits for it.
ControlInv ==
    /\ Busy(Main) \/ proc[Main].pc \in {"idle", "join"}
    /\ Busy(Async) \/ proc[Async].pc \in {"none", "check", "ended"}
    /\ Busy(Main) => proc[Async].pc = "none"
    /\ proc[Async].pc # "none" => async \/ proc[Main].pc = "join"
    /\ proc[Async].pc = "ended" => proc[Main].pc = "join"
    /\ Busy(Async) /\ proc[Async].mode = "final" => proc[Main].pc = "join"
    /\ proc[Main].mode \in {"process", "clear"}
    /\ Busy(Async) => proc[Async].mode \in {"loop", "final"}

\* The locals of the thread that dequeues agree with the list, and what it took
\* off has not been to a handler.
ReaderInv ==
    \A c \in Consumer :
       /\ reader[c].pc # "idle" => proc[c].pc = "dequeue"
       /\ reader[c].pc \in {"next", "value", "move"} => reader[c].tail = tail
       /\ reader[c].pc \in {"value", "move"} => reader[c].next = tail + 1
       /\ reader[c].pc = "free" \/ proc[c].pc = "lock" => reader[c].next = tail /\ called[tail] = 0
       /\ InHand(c) => reader[c].next = tail /\ mutex = c

\* What waits has not been to a handler.
WaitingInv == \A n \in Node : n > tail => called[n] = 0

\* What could be reached can be reached still, and a drain that ended took it off.
DueInv == Reachable(due) /\ (proc[Async].pc = "ended" => tail >= due)

IInv ==
    /\ QueueTypeOK /\ BusTypeOK /\ LinkInv /\ ControlInv /\ ReaderInv
    /\ WaitingInv /\ DueInv /\ EachHandlerOnce

-----------------------------------------------------------------------------
(* Facts about one state *)

\* The two threads that may dequeue.
LEMMA TwoConsumers ==
    /\ Main \in Consumer /\ Async \in Consumer /\ Main # Async
    /\ \A c \in Consumer : c = Main \/ c = Async
    /\ Nobody \notin Consumer
BY DispatcherAssumption

\* They do not process at the same time.
LEMMA OneBusy ==
    ASSUME ControlInv, NEW c \in Consumer, NEW d \in Consumer, Busy(c), Busy(d)
    PROVE  c = d
BY TwoConsumers DEF ControlInv, Busy

\* Numbers and nodes.
LEMMA NodeNat == MaxNodes \in Nat /\ Node \subseteq Nat /\ 0 \in Node /\ Null \notin Node /\ Null \in Int
BY QueueAssumption DEF Node, Null

\* There is a last event that can be reached.
LEMMA LastReachableOK ==
    ASSUME head \in Nat
    PROVE  LastReachable \in 0..head /\ Reachable(LastReachable)
<1> DEFINE T == {k \in Nat : k < head /\ next[k] # k + 1}
           Last(n) == n \in 0..head /\ Reachable(n) /\ (n < head => ~Reachable(n + 1))
<1>1. \E n \in 0..head : Reachable(n) /\ (n < head => ~Reachable(n + 1))
  <2>1. CASE T = {}
    <3>1. \A i \in 1..head : i - 1 \in Nat /\ i - 1 < head /\ (i - 1) + 1 = i
      OBVIOUS
    <3>2. \A i \in 1..head : next[i - 1] = i
      BY <2>1, <3>1
    <3> QED
      BY <3>2 DEF Reachable
  <2>2. CASE T # {}
    <3>1. PICK m \in T : \A k \in T : m <= k
      BY <2>2, LeastNumber
    <3>2. m \in Nat /\ m < head /\ m \in 0..head /\ next[m] # m + 1
      OBVIOUS
    <3>3. \A i \in 1..m : next[i - 1] = i
      <4> TAKE i \in 1..m
      <4>1. i - 1 \in Nat /\ i - 1 < m /\ i - 1 < head /\ (i - 1) + 1 = i
        BY <3>2
      <4> QED
        BY <3>1, <4>1
    <3>4. ~Reachable(m + 1)
      <4>1. (m + 1) - 1 = m /\ m + 1 \in 1..(m + 1)
        BY <3>2
      <4> QED
        BY <3>2, <4>1 DEF Reachable
    <3> QED
      BY <3>2, <3>3, <3>4 DEF Reachable
  <2> QED
    BY <2>1, <2>2
<1> QED
  BY <1>1 DEF LastReachable

\* The invariant holds at the start.
LEMMA InitIInv == ASSUME Init PROVE IInv
<1>1. 0 \in Node /\ AnyValue \in Value
  BY QueueAssumption DEF Node, AnyValue
<1>2. QueueTypeOK
  BY <1>1 DEF Init, QueueInit, QueueTypeOK, Null
<1>3. BusTypeOK
  BY <1>1, TwoConsumers DEF Init, BusTypeOK
<1>4. LinkInv /\ WaitingInv
  BY DEF Init, QueueInit, LinkInv, WaitingInv
<1>5. ControlInv
  BY TwoConsumers DEF Init, ControlInv, Busy
<1>6. ReaderInv /\ EachHandlerOnce
  BY DEF Init, QueueInit, ReaderInv, EachHandlerOnce, InHand
<1>7. DueInv
  BY TwoConsumers DEF Init, DueInv, Reachable
<1> QED
  BY <1>2, <1>3, <1>4, <1>5, <1>6, <1>7 DEF IInv

-----------------------------------------------------------------------------
(* Steps *)

\* No event is in hand while a handler is added.
LEMMA SubscribeIInv ==
    ASSUME IInv, NEW p \in Producer, NEW t \in Value, Subscribe(p, t)
    PROVE  IInv'
<1>1. /\ mutex = Nobody /\ handlers' = [handlers EXCEPT ![t] = @ + 1]
      /\ UNCHANGED <<head, tail, next, value, freed, writer, reader, taken>>
      /\ UNCHANGED <<async, proc, mutex, called, due>>
  BY DEF Subscribe, queueVars
<1>2. \A c \in Consumer : ~InHand(c)
  BY <1>1, TwoConsumers DEF IInv, ReaderInv
<1>3. QueueTypeOK' /\ LinkInv' /\ WaitingInv'
  BY <1>1 DEF IInv, QueueTypeOK, LinkInv, WaitingInv
<1>4. BusTypeOK' /\ ControlInv'
  BY <1>1 DEF IInv, BusTypeOK, ControlInv, Busy
<1>5. ReaderInv' /\ DueInv' /\ EachHandlerOnce'
  BY <1>1, <1>2 DEF IInv, ReaderInv, DueInv, Reachable, EachHandlerOnce, InHand
<1> QED
  BY <1>3, <1>4, <1>5 DEF IInv

\* A step that only adds at the front of the list.
LEMMA FrontIInv ==
    ASSUME IInv, QueueTypeOK', LinkInv', UNCHANGED <<tail, reader>>, UNCHANGED busVars,
           \A n \in Node : next[n] = n + 1 => next'[n] = n + 1
    PROVE  IInv'
<1>1. UNCHANGED <<async, proc, mutex, handlers, called, due>>
  BY DEF busVars
<1>2. BusTypeOK' /\ ControlInv' /\ WaitingInv' /\ EachHandlerOnce' /\ ReaderInv'
  BY <1>1 DEF IInv, BusTypeOK, ControlInv, Busy, WaitingInv, EachHandlerOnce, InHand, ReaderInv
<1>3. \A i \in 1..due : i - 1 \in Node /\ (i - 1) + 1 = i
  BY NodeNat DEF IInv, BusTypeOK, Node
<1>4. Reachable(due)'
  BY <1>1, <1>3 DEF IInv, DueInv, Reachable
<1>5. DueInv'
  BY <1>1, <1>4 DEF IInv, DueInv
<1> QED
  BY <1>2, <1>5 DEF IInv

\* publish: the new node follows the old head.
LEMMA PublishIInv ==
    ASSUME IInv, NEW p \in Producer, NEW t \in Value, Publish(p, t)
    PROVE  IInv'
<1>1. /\ head < MaxNodes /\ head' = head + 1 /\ value' = [value EXCEPT ![head + 1] = t]
      /\ writer' = [writer EXCEPT ![p] = [pc |-> "link", node |-> head + 1, prev |-> head]]
      /\ UNCHANGED <<tail, next, freed, reader, taken>> /\ UNCHANGED busVars
  BY DEF Publish, Exchange
<1>2. head \in Node /\ head + 1 \in Node
  BY <1>1, NodeNat DEF IInv, QueueTypeOK, Node
<1>3. QueueTypeOK' /\ LinkInv'
  BY <1>1, <1>2 DEF IInv, QueueTypeOK, LinkInv
<1> QED
  BY <1>1, <1>3, FrontIInv

\* Its link joins two neighbours.
LEMMA PublishLinkIInv ==
    ASSUME IInv, NEW p \in Producer, PublishLink(p)
    PROVE  IInv'
<1> DEFINE w == writer[p]
<1>1. /\ w.pc = "link" /\ next' = [next EXCEPT ![w.prev] = w.node]
      /\ writer' = [writer EXCEPT ![p].pc = "idle"]
      /\ UNCHANGED <<head, tail, value, freed, reader, taken>> /\ UNCHANGED busVars
  BY DEF PublishLink, Link
<1>2. w.prev \in Node /\ w.node \in Node /\ w.node = w.prev + 1
  BY <1>1 DEF IInv, QueueTypeOK, LinkInv
<1>3. QueueTypeOK' /\ LinkInv'
  BY <1>1, <1>2 DEF IInv, QueueTypeOK, LinkInv
<1>4. \A n \in Node : next[n] = n + 1 => next'[n] = n + 1
  BY <1>1, <1>2 DEF IInv, QueueTypeOK
<1> QED
  BY <1>1, <1>3, <1>4, FrontIInv

\* A step of dequeue up to moving the tail: only its locals change.
LEMMA ReadIInv ==
    ASSUME IInv, NEW c \in Consumer, proc[c].pc = "dequeue",
           ReadTail(c) \/ ReadNext(c) \/ ReadValue(c), UNCHANGED busVars
    PROVE  IInv'
<1>1. /\ UNCHANGED <<head, tail, next, value, freed, writer, taken>>
      /\ UNCHANGED <<async, proc, mutex, handlers, called, due>>
  BY DEF ReadTail, ReadNext, ReadValue, busVars
<1>2. tail \in Node /\ reader[c].tail \in Node /\ reader[c].next \in Node
  BY DEF IInv, QueueTypeOK
<1>3. PICK r \in [pc : {"next", "value", "move"}, tail : Node, next : Node, item : Value] :
         /\ reader' = [reader EXCEPT ![c] = r]
         /\ r.tail = tail
         /\ r.pc \in {"value", "move"} => r.next = tail + 1
  <2> DEFINE R == [pc : {"next", "value", "move"}, tail : Node, next : Node, item : Value]
  <2>1. CASE ReadTail(c)
    <3> DEFINE s == [reader[c] EXCEPT !.pc = "next", !.tail = tail]
    <3>1. s \in R /\ s.tail = tail /\ s.pc = "next"
      BY <1>2 DEF IInv, QueueTypeOK
    <3>2. reader' = [reader EXCEPT ![c] = s]
      BY <2>1 DEF ReadTail
    <3> QED
      BY <3>1, <3>2
  <2>2. CASE ReadNext(c)
    <3> DEFINE s == [reader[c] EXCEPT !.pc = "value", !.next = next[reader[c].tail]]
    <3>1. reader[c].tail = tail /\ next[tail] = tail + 1 /\ next[tail] \in Node
      BY <2>2, <1>2 DEF ReadNext, IInv, QueueTypeOK, LinkInv, ReaderInv
    <3>2. s \in R /\ s.tail = tail /\ s.next = tail + 1
      BY <3>1, <1>2 DEF IInv, QueueTypeOK
    <3>3. reader' = [reader EXCEPT ![c] = s]
      BY <2>2 DEF ReadNext
    <3> QED
      BY <3>2, <3>3
  <2>3. CASE ReadValue(c)
    <3> DEFINE s == [reader[c] EXCEPT !.pc = "move", !.item = value[reader[c].next]]
    <3>1. reader[c].tail = tail /\ reader[c].next = tail + 1
      BY <2>3 DEF ReadValue, IInv, ReaderInv
    <3>2. s \in R /\ s.tail = tail /\ s.next = tail + 1
      BY <3>1, <1>2 DEF IInv, QueueTypeOK
    <3>3. reader' = [reader EXCEPT ![c] = s]
      BY <2>3 DEF ReadValue
    <3> QED
      BY <3>2, <3>3
  <2> QED
    BY <2>1, <2>2, <2>3
<1>4. /\ QueueTypeOK' /\ LinkInv' /\ WaitingInv'
  BY <1>1, <1>3 DEF IInv, QueueTypeOK, LinkInv, WaitingInv
<1>5. BusTypeOK' /\ ControlInv' /\ DueInv'
  BY <1>1 DEF IInv, BusTypeOK, ControlInv, Busy, DueInv, Reachable
<1>6. \A d \in Consumer : reader'[d] = IF d = c THEN r ELSE reader[d]
  BY <1>3 DEF IInv, QueueTypeOK
<1>7. ReaderInv' /\ EachHandlerOnce'
  BY <1>1, <1>3, <1>6 DEF IInv, ReaderInv, EachHandlerOnce, InHand
<1> QED
  BY <1>4, <1>5, <1>7 DEF IInv

\* Moving the tail takes an event that has been to no handler.
LEMMA MoveTailIInv ==
    ASSUME IInv, NEW c \in Consumer, proc[c].pc = "dequeue", MoveTail(c), UNCHANGED busVars
    PROVE  IInv'
<1>1. /\ UNCHANGED <<head, next, value, freed, writer>>
      /\ UNCHANGED <<async, proc, mutex, handlers, called, due>>
      /\ tail' = reader[c].next /\ taken' = reader[c].item
      /\ reader[c].pc = "move" /\ reader' = [reader EXCEPT ![c].pc = "free"]
  BY DEF MoveTail, busVars
<1>2. tail' \in Node /\ tail' = tail + 1 /\ tail \in Nat
  BY <1>1, NodeNat DEF IInv, QueueTypeOK, ReaderInv
<1>3. QueueTypeOK' /\ LinkInv'
  BY <1>1, <1>2 DEF IInv, QueueTypeOK, LinkInv
<1>4. \A n \in Node : n > tail' => n > tail
  BY <1>2, NodeNat
<1>5. WaitingInv' /\ called[tail'] = 0
  BY <1>1, <1>2, <1>4 DEF IInv, WaitingInv
<1>6. BusTypeOK' /\ ControlInv'
  BY <1>1 DEF IInv, BusTypeOK, ControlInv, Busy
<1>7. DueInv'
  BY <1>1, <1>2, NodeNat DEF IInv, DueInv, Reachable, BusTypeOK
<1>8. \A d \in Consumer : reader'[d] = IF d = c THEN [reader[c] EXCEPT !.pc = "free"] ELSE reader[d]
  BY <1>1 DEF IInv, QueueTypeOK
<1>9. \A d \in Consumer : d # c => ~Busy(d)
  BY OneBusy DEF IInv, Busy
<1>10. reader'[c].pc = "free" /\ reader'[c].next = tail' /\ reader'[c].item = reader[c].item
  BY <1>1, <1>8 DEF IInv, QueueTypeOK
<1>11. ASSUME NEW d \in Consumer, d # c
       PROVE  reader'[d].pc = "idle" /\ proc'[d].pc # "lock" /\ ~InHand(d)'
  BY <1>1, <1>8, <1>9, <1>11 DEF IInv, ReaderInv, Busy, InHand
<1>12. ReaderInv' /\ EachHandlerOnce'
  BY <1>1, <1>5, <1>10, <1>11 DEF IInv, ReaderInv, EachHandlerOnce, InHand
<1> QED
  BY <1>3, <1>5, <1>6, <1>7, <1>12 DEF IInv

\* dequeue returns an event: it is up for its handlers, or dropped.
LEMMA DequeuedIInv ==
    ASSUME IInv, NEW c \in Consumer, Dequeued(c)
    PROVE  IInv'
<1> DEFINE pc == IF proc[c].mode = "clear" THEN "dequeue" ELSE "lock"
<1>1. /\ proc[c].pc = "dequeue" /\ reader[c].pc = "free"
      /\ reader' = [reader EXCEPT ![c].pc = "idle"]
      /\ freed' = freed \union {reader[c].tail}
      /\ proc' = [proc EXCEPT ![c].pc = pc]
      /\ UNCHANGED <<head, tail, next, value, writer, taken, async, mutex, handlers, called, due>>
  BY DEF Dequeued, FreeTail
<1>2. /\ \A d \in Consumer : reader'[d] = IF d = c THEN [reader[c] EXCEPT !.pc = "idle"] ELSE reader[d]
      /\ \A d \in Consumer : proc'[d] = IF d = c THEN [proc[c] EXCEPT !.pc = pc] ELSE proc[d]
  BY <1>1 DEF IInv, QueueTypeOK, BusTypeOK
<1>3. /\ reader'[c].pc = "idle" /\ reader'[c].next = reader[c].next
      /\ proc'[c].pc = pc /\ proc'[c].mode = proc[c].mode
      /\ pc \in {"dequeue", "lock"}
  BY <1>2 DEF IInv, QueueTypeOK, BusTypeOK
<1> HIDE DEF pc
<1>4. QueueTypeOK' /\ LinkInv' /\ WaitingInv'
  BY <1>1 DEF IInv, QueueTypeOK, LinkInv, WaitingInv
<1>5. BusTypeOK'
  BY <1>1, <1>3 DEF IInv, BusTypeOK
<1>6. ControlInv' /\ DueInv'
  BY <1>1, <1>2, <1>3, TwoConsumers DEF IInv, ControlInv, Busy, DueInv, Reachable
<1>7. ReaderInv' /\ EachHandlerOnce'
  BY <1>1, <1>2, <1>3 DEF IInv, ReaderInv, EachHandlerOnce, InHand
<1> QED
  BY <1>4, <1>5, <1>6, <1>7 DEF IInv

\* dequeue returns nothing: there is no link behind the tail, so whatever could be
\* reached when the drain began is taken off.
LEMMA NothingLeft ==
    ASSUME IInv, NEW c \in Consumer, DequeuedNothing(c)
    PROVE  tail >= due
<1>1. reader[c].tail = tail /\ next[tail] = Null /\ tail \in Nat /\ due \in Nat
  BY NodeNat DEF DequeuedNothing, ReadNextEmpty, IInv, ReaderInv, QueueTypeOK, BusTypeOK
<1> SUFFICES ASSUME tail + 1 <= due PROVE FALSE
  BY <1>1
<1>2. tail + 1 \in 1..due /\ (tail + 1) - 1 = tail
  BY <1>1
<1>3. next[tail] = tail + 1
  BY <1>2 DEF IInv, DueInv, Reachable
<1> QED
  BY <1>1, <1>3 DEF Null

\* The call returns, the loop sleeps, or the last drain ends.
LEMMA DequeuedNothingIInv ==
    ASSUME IInv, NEW c \in Consumer, DequeuedNothing(c)
    PROVE  IInv'
<1> DEFINE pc == CASE proc[c].mode = "loop"  -> "check"
                   [] proc[c].mode = "final" -> "ended"
                   [] OTHER                  -> "idle"
<1>1. /\ proc[c].pc = "dequeue" /\ reader[c].pc = "next"
      /\ reader' = [reader EXCEPT ![c].pc = "idle"]
      /\ proc' = [proc EXCEPT ![c].pc = pc]
      /\ UNCHANGED <<head, tail, next, value, freed, writer, taken>>
      /\ UNCHANGED <<async, mutex, handlers, called, due>>
  BY DEF DequeuedNothing, ReadNextEmpty
<1>2. /\ \A d \in Consumer : reader'[d] = IF d = c THEN [reader[c] EXCEPT !.pc = "idle"] ELSE reader[d]
      /\ \A d \in Consumer : proc'[d] = IF d = c THEN [proc[c] EXCEPT !.pc = pc] ELSE proc[d]
  BY <1>1 DEF IInv, QueueTypeOK, BusTypeOK
<1>3. /\ reader'[c].pc = "idle" /\ proc'[c].pc = pc /\ proc'[c].mode = proc[c].mode
      /\ proc[c].mode \in {"process", "clear", "loop", "final"}
  BY <1>2 DEF IInv, QueueTypeOK, BusTypeOK
<1>4. /\ pc \in {"check", "ended", "idle"}
      /\ pc = "check" <=> proc[c].mode = "loop"
      /\ pc = "ended" <=> proc[c].mode = "final"
  BY <1>3
<1> HIDE DEF pc
<1>5. QueueTypeOK' /\ LinkInv' /\ WaitingInv'
  BY <1>1 DEF IInv, QueueTypeOK, LinkInv, WaitingInv
<1>6. BusTypeOK'
  BY <1>1, <1>4 DEF IInv, BusTypeOK
<1>7. ControlInv'
  <2>1. CASE c = Main
    BY <2>1, <1>1, <1>2, <1>3, <1>4, TwoConsumers DEF IInv, ControlInv, Busy
  <2>2. CASE c = Async
    BY <2>2, <1>1, <1>2, <1>3, <1>4, TwoConsumers DEF IInv, ControlInv, Busy
  <2> QED
    BY <2>1, <2>2, TwoConsumers
<1>8. DueInv'
  BY <1>1, NothingLeft DEF IInv, DueInv, Reachable
<1>9. ReaderInv' /\ EachHandlerOnce'
  BY <1>1, <1>2, <1>3, <1>4 DEF IInv, ReaderInv, EachHandlerOnce, InHand
<1> QED
  BY <1>5, <1>6, <1>7, <1>8, <1>9 DEF IInv

\* The mutex is taken: the event has all its handlers before it.
LEMMA LockIInv ==
    ASSUME IInv, NEW c \in Consumer, Lock(c)
    PROVE  IInv'
<1> DEFINE left == handlers[reader[c].item]
<1>1. /\ proc[c].pc = "lock" /\ mutex = Nobody /\ mutex' = c
      /\ proc' = [proc EXCEPT ![c].pc = "dispatch", ![c].left = left]
      /\ UNCHANGED <<head, tail, next, value, freed, writer, reader, taken>>
      /\ UNCHANGED <<async, handlers, called, due>>
  BY DEF Lock, queueVars
<1>2. left \in Nat /\ reader[c].next = tail /\ called[tail] = 0
  BY <1>1 DEF IInv, QueueTypeOK, BusTypeOK, ReaderInv
<1>3. \A d \in Consumer : proc'[d] = IF d = c THEN [proc[c] EXCEPT !.pc = "dispatch", !.left = left]
                                     ELSE proc[d]
  BY <1>1 DEF IInv, BusTypeOK
<1>4. proc'[c].pc = "dispatch" /\ proc'[c].left = left /\ proc'[c].mode = proc[c].mode
  BY <1>3 DEF IInv, BusTypeOK
<1>5. \A d \in Consumer : ~InHand(d)
  BY <1>1, TwoConsumers DEF IInv, ReaderInv
<1>6. QueueTypeOK' /\ LinkInv' /\ WaitingInv'
  BY <1>1 DEF IInv, QueueTypeOK, LinkInv, WaitingInv
<1>7. BusTypeOK'
  BY <1>1, <1>2 DEF IInv, BusTypeOK
<1>8. ControlInv' /\ DueInv'
  BY <1>1, <1>3, <1>4, TwoConsumers DEF IInv, ControlInv, Busy, DueInv, Reachable
<1>9. \A d \in Consumer : d # c => ~InHand(d)' /\ proc'[d] = proc[d]
  BY <1>3, <1>5 DEF InHand
<1>10. reader[c].pc = "idle"
  BY <1>1 DEF IInv, ReaderInv
<1> HIDE DEF left
<1>11. ReaderInv'
  BY <1>1, <1>2, <1>4, <1>9, <1>10 DEF IInv, ReaderInv
<1>12. called[tail] + left = handlers[reader[c].item]
  BY <1>2 DEF left
<1>13. EachHandlerOnce'
  BY <1>1, <1>2, <1>4, <1>9, <1>12 DEF EachHandlerOnce
<1> QED
  BY <1>6, <1>7, <1>8, <1>11, <1>13 DEF IInv

\* A handler called is one less to call: the mutex keeps others from adding any.
LEMMA CallHandlerIInv ==
    ASSUME IInv, NEW c \in Consumer, CallHandler(c)
    PROVE  IInv'
<1> DEFINE n == reader[c].next
<1>1. /\ proc[c].pc = "dispatch" /\ proc[c].left > 0
      /\ proc' = [proc EXCEPT ![c].pc = "handler", ![c].left = @ - 1]
      /\ called' = [called EXCEPT ![n] = @ + 1]
      /\ UNCHANGED <<head, tail, next, value, freed, writer, reader, taken>>
      /\ UNCHANGED <<async, mutex, handlers, due>>
  BY DEF CallHandler, queueVars
<1>2. /\ n = tail /\ n \in Node /\ mutex = c /\ called[n] + proc[c].left = handlers[reader[c].item]
      /\ called[n] \in Nat /\ proc[c].left \in Nat
  BY <1>1 DEF IInv, ReaderInv, InHand, QueueTypeOK, BusTypeOK, EachHandlerOnce
<1>3. \A d \in Consumer : d # c => proc'[d] = proc[d] /\ ~Busy(d)
  BY <1>1, OneBusy DEF IInv, BusTypeOK, Busy
<1>4. proc'[c].pc = "handler" /\ proc'[c].left = proc[c].left - 1 /\ proc'[c].mode = proc[c].mode
  BY <1>1 DEF IInv, BusTypeOK
<1>5. \A m \in Node : called'[m] = IF m = n THEN called[n] + 1 ELSE called[m]
  BY <1>1 DEF IInv, BusTypeOK
<1>6. reader[c].pc = "idle" /\ \A d \in Consumer : d # c => reader[d].pc = "idle"
  BY <1>1, <1>3 DEF IInv, ReaderInv, Busy
<1> HIDE DEF n
<1>7. QueueTypeOK' /\ LinkInv'
  BY <1>1 DEF IInv, QueueTypeOK, LinkInv
<1>8. WaitingInv'
  BY <1>1, <1>2, <1>5, NodeNat DEF IInv, WaitingInv
<1>9. BusTypeOK'
  <2>1. proc[c].left - 1 \in Nat /\ called[n] + 1 \in Nat
    BY <1>1, <1>2
  <2> QED
    BY <1>1, <1>2, <2>1 DEF IInv, BusTypeOK
<1>10. ControlInv' /\ DueInv'
  BY <1>1, <1>3, <1>4, TwoConsumers DEF IInv, ControlInv, Busy, DueInv, Reachable
<1>11. ReaderInv'
  <2>1. \A d \in Consumer : reader'[d].pc = "idle"
    BY <1>1, <1>6
  <2>2. \A d \in Consumer : d # c => proc'[d].pc # "lock" /\ ~InHand(d)'
    BY <1>3 DEF Busy, InHand
  <2>3. proc'[c].pc # "lock" /\ reader'[c].next = tail' /\ mutex' = c
    BY <1>1, <1>2, <1>4 DEF n
  <2> QED
    BY <2>1, <2>2, <2>3 DEF ReaderInv
<1>12. called'[n] + proc'[c].left = handlers[reader[c].item]
  BY <1>2, <1>4, <1>5
<1>13. EachHandlerOnce'
  BY <1>1, <1>3, <1>12 DEF EachHandlerOnce, Busy, InHand, n
<1> QED
  BY <1>7, <1>8, <1>9, <1>10, <1>11, <1>13 DEF IInv

\* A handler returns to the loop over its event's handlers.
LEMMA HandlerReturnsIInv ==
    ASSUME IInv, NEW c \in Consumer, HandlerReturns(c)
    PROVE  IInv'
<1>1. /\ proc[c].pc = "handler" /\ proc' = [proc EXCEPT ![c].pc = "dispatch"]
      /\ UNCHANGED <<head, tail, next, value, freed, writer, reader, taken>>
      /\ UNCHANGED <<async, mutex, handlers, called, due>>
  BY DEF HandlerReturns, queueVars
<1>2. \A d \in Consumer : d # c => proc'[d] = proc[d]
  BY <1>1 DEF IInv, BusTypeOK
<1>3. proc'[c].pc = "dispatch" /\ proc'[c].left = proc[c].left /\ proc'[c].mode = proc[c].mode
  BY <1>1 DEF IInv, BusTypeOK
<1>4. QueueTypeOK' /\ LinkInv' /\ WaitingInv'
  BY <1>1 DEF IInv, QueueTypeOK, LinkInv, WaitingInv
<1>5. BusTypeOK'
  BY <1>1 DEF IInv, BusTypeOK
<1>6. ControlInv' /\ DueInv'
  BY <1>1, <1>2, <1>3, TwoConsumers DEF IInv, ControlInv, Busy, DueInv, Reachable
<1>7. ReaderInv' /\ EachHandlerOnce'
  BY <1>1, <1>2, <1>3 DEF IInv, ReaderInv, EachHandlerOnce, InHand
<1> QED
  BY <1>4, <1>5, <1>6, <1>7 DEF IInv

\* With the last handler done the mutex is given back.
LEMMA UnlockIInv ==
    ASSUME IInv, NEW c \in Consumer, Unlock(c)
    PROVE  IInv'
<1>1. /\ proc[c].pc = "dispatch" /\ proc' = [proc EXCEPT ![c].pc = "dequeue"]
      /\ mutex' = Nobody
      /\ UNCHANGED <<head, tail, next, value, freed, writer, reader, taken>>
      /\ UNCHANGED <<async, handlers, called, due>>
  BY DEF Unlock, queueVars
<1>2. \A d \in Consumer : d # c => proc'[d] = proc[d] /\ ~Busy(d)
  BY <1>1, OneBusy DEF IInv, BusTypeOK, Busy
<1>3. proc'[c].pc = "dequeue" /\ proc'[c].left = proc[c].left /\ proc'[c].mode = proc[c].mode
  BY <1>1 DEF IInv, BusTypeOK
<1>4. QueueTypeOK' /\ LinkInv' /\ WaitingInv'
  BY <1>1 DEF IInv, QueueTypeOK, LinkInv, WaitingInv
<1>5. BusTypeOK'
  BY <1>1 DEF IInv, BusTypeOK
<1>6. ControlInv' /\ DueInv'
  BY <1>1, <1>2, <1>3, TwoConsumers DEF IInv, ControlInv, Busy, DueInv, Reachable
<1>7. \A d \in Consumer : ~InHand(d)'
  BY <1>2, <1>3 DEF InHand, Busy
<1>8. ReaderInv' /\ EachHandlerOnce'
  BY <1>1, <1>2, <1>3, <1>7 DEF IInv, ReaderInv, EachHandlerOnce
<1> QED
  BY <1>4, <1>5, <1>6, <1>8 DEF IInv

-----------------------------------------------------------------------------
(* Control *)

\* A step of control moves threads that do not process, between points where they
\* do not or to the start of a drain.
LEMMA ControlIInv ==
    ASSUME IInv, UNCHANGED queueVars, UNCHANGED <<mutex, handlers, called>>,
           BusTypeOK', ControlInv', DueInv',
           \A c \in Consumer :
              \/ proc'[c] = proc[c]
              \/ ~Busy(c) /\ proc'[c].pc \notin {"lock", "dispatch", "handler"}
    PROVE  IInv'
<1>1. UNCHANGED <<head, tail, next, value, freed, writer, reader, taken>>
  BY DEF queueVars
<1>2. QueueTypeOK' /\ LinkInv' /\ WaitingInv'
  BY <1>1 DEF IInv, QueueTypeOK, LinkInv, WaitingInv
<1>3. ASSUME NEW c \in Consumer, proc'[c] # proc[c]
      PROVE  reader[c].pc = "idle" /\ ~InHand(c)' /\ proc'[c].pc # "lock"
  BY <1>3 DEF IInv, ReaderInv, Busy, InHand
<1>4. ReaderInv' /\ EachHandlerOnce'
  BY <1>1, <1>3 DEF IInv, ReaderInv, EachHandlerOnce, InHand
<1> QED
  BY <1>2, <1>4 DEF IInv

\* process and clear: Main drains while there is no other thread that does.
LEMMA ProcessIInv ==
    ASSUME IInv, NEW mode \in {"process", "clear"}, Process(mode)
    PROVE  IInv'
<1>1. /\ proc[Main].pc = "idle" /\ proc[Async].pc = "none"
      /\ proc' = [proc EXCEPT ![Main] = [pc |-> "dequeue", mode |-> mode, left |-> 0]]
      /\ due' = LastReachable
      /\ UNCHANGED <<async, mutex, handlers, called>> /\ UNCHANGED queueVars
  BY DEF Process, Controls
<1>2. /\ LastReachable \in Node /\ Reachable(LastReachable)
  BY LastReachableOK, NodeNat DEF IInv, QueueTypeOK, Node
<1>3. proc'[Main].pc = "dequeue" /\ proc'[Main].mode = mode /\ proc'[Async] = proc[Async]
  BY <1>1, TwoConsumers DEF IInv, BusTypeOK
<1>4. BusTypeOK' /\ ControlInv'
  BY <1>1, <1>2, <1>3, TwoConsumers DEF IInv, BusTypeOK, ControlInv, Busy
<1>5. DueInv'
  BY <1>1, <1>2, <1>3 DEF DueInv, Reachable, queueVars
<1> QED
  BY <1>1, <1>3, <1>4, <1>5, TwoConsumers, ControlIInv DEF Busy

\* start_async_processing: there was no such thread.
LEMMA StartAsyncIInv == ASSUME IInv, StartAsync PROVE IInv'
<1>1. /\ proc[Main].pc = "idle" /\ ~async /\ async' = TRUE
      /\ proc' = [proc EXCEPT ![Async].pc = "check"]
      /\ UNCHANGED <<mutex, handlers, called, due>> /\ UNCHANGED queueVars
  BY DEF StartAsync, Controls
<1>2. proc[Async].pc = "none"
  BY <1>1 DEF IInv, ControlInv
<1>3. proc'[Async].pc = "check" /\ proc'[Main] = proc[Main]
  BY <1>1, TwoConsumers DEF IInv, BusTypeOK
<1>4. BusTypeOK' /\ ControlInv' /\ DueInv'
  BY <1>1, <1>2, <1>3, TwoConsumers DEF IInv, BusTypeOK, ControlInv, Busy, DueInv, Reachable, queueVars
<1> QED
  BY <1>1, <1>2, <1>3, <1>4, TwoConsumers, ControlIInv DEF Busy

\* The thread's loop, or its last drain once Main waits for it.
LEMMA CheckAsyncIInv == ASSUME IInv, CheckAsync PROVE IInv'
<1> DEFINE mode == IF async THEN "loop" ELSE "final"
<1>1. /\ proc[Async].pc = "check"
      /\ proc' = [proc EXCEPT ![Async].pc = "dequeue", ![Async].mode = mode]
      /\ UNCHANGED <<async, mutex, handlers, called, due>> /\ UNCHANGED queueVars
  BY DEF CheckAsync
<1>2. proc'[Async].pc = "dequeue" /\ proc'[Async].mode = mode /\ proc'[Main] = proc[Main]
  BY <1>1, TwoConsumers DEF IInv, BusTypeOK
<1>3. mode \in {"loop", "final"} /\ (mode = "final" => ~async)
  OBVIOUS
<1> HIDE DEF mode
<1>4. BusTypeOK' /\ ControlInv' /\ DueInv'
  BY <1>1, <1>2, <1>3, TwoConsumers DEF IInv, BusTypeOK, ControlInv, Busy, DueInv, Reachable, queueVars
<1> QED
  BY <1>1, <1>2, <1>4, TwoConsumers, ControlIInv DEF Busy

\* stop_async_processing: what can be reached now is due.
LEMMA StopAsyncIInv == ASSUME IInv, StopAsync PROVE IInv'
<1>1. /\ proc[Main].pc = "idle" /\ async' = FALSE
      /\ proc' = [proc EXCEPT ![Main].pc = "join"]
      /\ due' = LastReachable
      /\ UNCHANGED <<mutex, handlers, called>> /\ UNCHANGED queueVars
  BY DEF StopAsync, Controls
<1>2. /\ LastReachable \in Node /\ Reachable(LastReachable)
  BY LastReachableOK, NodeNat DEF IInv, QueueTypeOK, Node
<1>3. proc'[Main].pc = "join" /\ proc'[Main].mode = proc[Main].mode /\ proc'[Async] = proc[Async]
  BY <1>1, TwoConsumers DEF IInv, BusTypeOK
<1>4. BusTypeOK' /\ ControlInv'
  BY <1>1, <1>2, <1>3, TwoConsumers DEF IInv, BusTypeOK, ControlInv, Busy
<1>5. DueInv'
  BY <1>1, <1>2, <1>3 DEF IInv, ControlInv, DueInv, Reachable, queueVars
<1> QED
  BY <1>1, <1>3, <1>4, <1>5, TwoConsumers, ControlIInv DEF Busy

\* The join returns after the last drain.
LEMMA StopAsyncReturnsIInv == ASSUME IInv, StopAsyncReturns PROVE IInv'
<1>1. /\ proc[Main].pc = "join" /\ proc[Async].pc = "ended"
      /\ proc' = [proc EXCEPT ![Main].pc = "idle", ![Async].pc = "none"]
      /\ UNCHANGED <<async, mutex, handlers, called, due>> /\ UNCHANGED queueVars
  BY DEF StopAsyncReturns
<1>2. /\ proc'[Main].pc = "idle" /\ proc'[Main].mode = proc[Main].mode
      /\ proc'[Async].pc = "none"
  BY <1>1, TwoConsumers DEF IInv, BusTypeOK
<1>3. BusTypeOK' /\ ControlInv' /\ DueInv'
  BY <1>1, <1>2, TwoConsumers DEF IInv, BusTypeOK, ControlInv, Busy, DueInv, Reachable, queueVars
<1> QED
  BY <1>1, <1>2, <1>3, TwoConsumers, ControlIInv DEF Busy

\* Every step preserves the invariant.
LEMMA NextIInv == ASSUME IInv, [Next]_vars PROVE IInv'
<1>1. CASE \E p \in Producer, t \in Value : Subscribe(p, t) \/ Publish(p, t)
  BY <1>1, SubscribeIInv, PublishIInv
<1>2. CASE \E p \in Producer : PublishLink(p)
  BY <1>2, PublishLinkIInv
<1>3. CASE \E mode \in {"process", "clear"} : Process(mode)
  BY <1>3, ProcessIInv
<1>4. CASE \E c \in Consumer : Runs(c)
  <2> SUFFICES ASSUME NEW c \in Consumer, Runs(c) PROVE IInv'
    BY <1>4
  <2>1. CASE Dequeue(c)
    BY <2>1, ReadIInv, MoveTailIInv DEF Dequeue
  <2>2. CASE Dequeued(c) \/ DequeuedNothing(c)
    BY <2>2, DequeuedIInv, DequeuedNothingIInv
  <2>3. CASE Lock(c) \/ CallHandler(c) \/ HandlerReturns(c) \/ Unlock(c)
    BY <2>3, LockIInv, CallHandlerIInv, HandlerReturnsIInv, UnlockIInv
  <2> QED
    BY <2>1, <2>2, <2>3 DEF Runs
<1>5. CASE StartAsync \/ CheckAsync \/ StopAsync \/ StopAsyncReturns
  BY <1>5, StartAsyncIInv, CheckAsyncIInv, StopAsyncIInv, StopAsyncReturnsIInv
<1>6. CASE UNCHANGED vars
  <2>1. /\ UNCHANGED <<head, tail, next, value, freed, writer, reader, taken>>
        /\ UNCHANGED <<async, proc, mutex, handlers, called, due>>
    BY <1>6 DEF vars, queueVars, busVars
  <2>2. QueueTypeOK' /\ BusTypeOK' /\ LinkInv' /\ ControlInv'
    BY <2>1 DEF IInv, QueueTypeOK, BusTypeOK, LinkInv, ControlInv, Busy
  <2>3. ReaderInv' /\ WaitingInv' /\ DueInv' /\ EachHandlerOnce'
    BY <2>1 DEF IInv, ReaderInv, WaitingInv, DueInv, Reachable, EachHandlerOnce, InHand
  <2> QED
    BY <2>2, <2>3 DEF IInv
<1> QED
  BY <1>1, <1>2, <1>3, <1>4, <1>5, <1>6 DEF Next

-----------------------------------------------------------------------------
(* Theorems *)

\* The inductive invariant: who may dequeue, what its locals say of the list, and
\* that what can be reached can be reached until it is taken off.
THEOREM Invariant == Spec => []IInv
BY InitIInv, NextIInv, PTL DEF Spec

\* An event that is taken up goes to each handler that its type has, once,
\* whoever publishes and subscribes, and whichever thread processes.
THEOREM HandlersOnce == Spec => []EachHandlerOnce
<1>1. IInv => EachHandlerOnce
  BY DEF IInv
<1> QED
  BY <1>1, Invariant, PTL

\* process, clear and stop return when all that could be reached at their call is
\* done with.
THEOREM Drains == Spec => Drained
<1>1. ASSUME IInv, [Next]_vars, proc[Main].pc # "idle", proc'[Main].pc = "idle"
      PROVE  tail >= due
  <2>1. CASE \E c \in Consumer : DequeuedNothing(c)
    BY <1>1, <2>1, NothingLeft
  <2>2. CASE StopAsyncReturns
    BY <1>1, <2>2 DEF StopAsyncReturns, IInv, DueInv
  <2>3. CASE \E c \in Consumer : Dequeued(c) \/ Lock(c) \/ CallHandler(c) \/ HandlerReturns(c) \/ Unlock(c)
    <3> SUFFICES ASSUME NEW c \in Consumer,
                        Dequeued(c) \/ Lock(c) \/ CallHandler(c) \/ HandlerReturns(c) \/ Unlock(c)
                 PROVE  proc'[Main].pc = proc[Main].pc \/ proc'[Main].pc # "idle"
      BY <1>1, <2>3
    <3> QED
      BY <1>1, TwoConsumers DEF Dequeued, Lock, CallHandler, HandlerReturns, Unlock, IInv, BusTypeOK
  <2>4. CASE (\E mode \in {"process", "clear"} : Process(mode)) \/ StartAsync \/ CheckAsync \/ StopAsync
    BY <1>1, <2>4, TwoConsumers DEF Process, StartAsync, CheckAsync, StopAsync, Controls, IInv, BusTypeOK
  <2>5. CASE UNCHANGED proc
    BY <1>1, <2>5
  <2>6. CASE \/ \E p \in Producer, t \in Value : Subscribe(p, t) \/ Publish(p, t)
             \/ \E p \in Producer : PublishLink(p)
             \/ \E c \in Consumer : Dequeue(c)
             \/ UNCHANGED vars
    BY <2>5, <2>6 DEF Subscribe, Publish, PublishLink, Dequeue, vars, busVars
  <2> QED
    BY <1>1, <2>1, <2>2, <2>3, <2>4, <2>6 DEF Next, Runs
<1> QED
  BY <1>1, Invariant, PTL DEF Spec, Drained
=============================================================================
