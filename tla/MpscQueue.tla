------------------------------ MODULE MpscQueue ------------------------------
(***************************************************************************)
(* MPSCQueue (event_driven_core/lock_free_queue.hpp): a linked list that   *)
(* producers extend at head_ and a consumer shortens at tail_.             *)
(*                                                                         *)
(* Nodes are numbered in the order in which head_ received them.  Each     *)
(* access to a shared word is an action; filling the new node is part of   *)
(* the exchange that publishes it.  The modules that own a queue extend    *)
(* this one and say when a thread starts a call.                           *)
(***************************************************************************)
EXTENDS Integers, Sequences

CONSTANTS Producer,    \* threads that enqueue
          Consumer,    \* threads that dequeue: the queue is made for one
          Value,
          MaxNodes     \* bound: how many enqueues there are

ASSUME QueueAssumption == MaxNodes \in Nat /\ Value # {}

VARIABLES head,      \* head_
          tail,      \* tail_
          next,      \* the next of each node
          value,     \* the value of each node
          freed,     \* nodes deleted
          writer,    \* what each producer's enqueue has yet to link
          reader,    \* where each consumer's dequeue stands, and its locals
          taken      \* what dequeue took off last

queueVars == <<head, tail, next, value, freed, writer, reader, taken>>

Node == 0..MaxNodes
Null == -1

\* The constructor's dummy node holds a default value.
AnyValue == CHOOSE v \in Value : TRUE

QueueInit ==
    /\ head   = 0
    /\ tail   = 0
    /\ next   = [n \in Node |-> Null]
    /\ value  = [n \in Node |-> AnyValue]
    /\ freed  = {}
    /\ writer = [p \in Producer |-> [pc |-> "idle", node |-> 0, prev |-> 0]]
    /\ reader = [c \in Consumer |-> [pc |-> "idle", tail |-> 0, next |-> 0,
                                     item |-> AnyValue]]
    /\ taken  = AnyValue

-----------------------------------------------------------------------------
(* enqueue *)

\* A new node takes the place of the head.
Exchange(p, v) ==
    /\ writer[p].pc = "idle"
    /\ head < MaxNodes
    /\ head' = head + 1
    /\ value' = [value EXCEPT ![head + 1] = v]
    /\ writer' = [writer EXCEPT ![p] = [pc |-> "link", node |-> head + 1, prev |-> head]]
    /\ UNCHANGED <<tail, next, freed, reader, taken>>

\* Only now can the consumer reach the node.
Link(p) ==
    /\ writer[p].pc = "link"
    /\ next' = [next EXCEPT ![writer[p].prev] = writer[p].node]
    /\ writer' = [writer EXCEPT ![p].pc = "idle"]
    /\ UNCHANGED <<head, tail, value, freed, reader, taken>>

-----------------------------------------------------------------------------
(* dequeue *)

ReadTail(c) ==
    /\ reader[c].pc = "idle"
    /\ reader' = [reader EXCEPT ![c] = [@ EXCEPT !.pc = "next", !.tail = tail]]
    /\ UNCHANGED <<head, tail, next, value, freed, writer, taken>>

\* Without a next node the queue counts as empty and dequeue returns nothing.
ReadNextEmpty(c) ==
    /\ reader[c].pc = "next"
    /\ next[reader[c].tail] = Null
    /\ reader' = [reader EXCEPT ![c].pc = "idle"]
    /\ UNCHANGED <<head, tail, next, value, freed, writer, taken>>

ReadNext(c) ==
    /\ reader[c].pc = "next"
    /\ next[reader[c].tail] # Null
    /\ reader' = [reader EXCEPT ![c] =
                      [@ EXCEPT !.pc = "value", !.next = next[reader[c].tail]]]
    /\ UNCHANGED <<head, tail, next, value, freed, writer, taken>>

ReadOldValue(c) ==
    /\ reader[c].pc = "value"
    /\ reader' = [reader EXCEPT ![c] =
                      [@ EXCEPT !.pc = "move", !.item = value[reader[c].tail]]]
    /\ UNCHANGED <<head, tail, next, value, freed, writer, taken>>

ReadValue(c) ==
    /\ reader[c].pc = "value"
    /\ reader' = [reader EXCEPT ![c] =
                      [@ EXCEPT !.pc = "move", !.item = value[reader[c].next]]]
    /\ UNCHANGED <<head, tail, next, value, freed, writer, taken>>

MoveTailForgotten(c) ==
    /\ reader[c].pc = "move"
    /\ reader' = [reader EXCEPT ![c].pc = "free"]
    /\ taken' = reader[c].item
    /\ UNCHANGED <<head, tail, next, value, freed, writer>>

MoveTail(c) ==
    /\ reader[c].pc = "move"
    /\ reader' = [reader EXCEPT ![c].pc = "free"]
    /\ tail' = reader[c].next
    /\ taken' = reader[c].item
    /\ UNCHANGED <<head, next, value, freed, writer>>

FreeNewTail(c) ==
    /\ reader[c].pc = "free"
    /\ reader' = [reader EXCEPT ![c].pc = "idle"]
    /\ freed' = freed \union {reader[c].next}
    /\ UNCHANGED <<head, tail, next, value, writer, taken>>

\* The old tail is deleted, and dequeue returns the value.
FreeTail(c) ==
    /\ reader[c].pc = "free"
    /\ reader' = [reader EXCEPT ![c].pc = "idle"]
    /\ freed' = freed \union {reader[c].tail}
    /\ UNCHANGED <<head, tail, next, value, writer, taken>>

-----------------------------------------------------------------------------

QueueTypeOK ==
    /\ head \in Node
    /\ tail \in Node
    /\ next \in [Node -> Node \union {Null}]
    /\ value \in [Node -> Value]
    /\ freed \subseteq Node
    /\ writer \in [Producer -> [pc : {"idle", "link"}, node : Node, prev : Node]]
    /\ reader \in [Consumer -> [pc : {"idle", "next", "value", "move", "free"},
                                tail : Node, next : Node, item : Value]]
    /\ taken \in Value

\* No thread reads, writes or deletes a node that dequeue has deleted.
NoUseAfterFree ==
    /\ \A p \in Producer : writer[p].pc = "link" => writer[p].prev \notin freed
    /\ \A c \in Consumer :
          /\ reader[c].pc # "idle" => reader[c].tail \notin freed
          /\ reader[c].pc = "value" => reader[c].next \notin freed

\* dequeue returns nothing only if nothing waits, or if the enqueue of the oldest
\* value that waits has yet to link it.
EmptyIsTrue ==
    [][\A c \in Consumer :
         ReadNextEmpty(c) =>
            \/ head = tail
            \/ \E p \in Producer : writer[p].pc = "link" /\ writer[p].node = tail + 1
      ]_queueVars

\* What waits, in the order of the exchanges, linked or not.
Waiting == [i \in 1..(head - tail) |-> value[tail + i]]

Fifo == INSTANCE BoundedFifo WITH queue <- Waiting, Room <- MaxNodes

\* With one consumer, the list is a FIFO queue: each value once, in the order in
\* which the producers exchanged head_.
IsFifo == Fifo!Safety
=============================================================================
