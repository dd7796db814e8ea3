------------------------------ MODULE SpscQueue ------------------------------
(***************************************************************************)
(* SPSCQueue (event_driven_core/lock_free_queue.hpp): a ring that one      *)
(* producer thread and one consumer thread share without a lock.           *)
(*                                                                         *)
(* One action per access to shared memory.  A thread reads its own         *)
(* position as it is.  The other thread's position it may read as any      *)
(* value that it had since this thread last read it: an atomic load need   *)
(* not return the newest value, only never an older one than before.  The  *)
(* slots are read as they are: each was released by the store of the       *)
(* position that was acquired before the slot is touched.                  *)
(***************************************************************************)
EXTENDS Integers, Sequences

CONSTANTS Capacity,    \* slots of the ring
          Item

\* The constructor demands a power of 2; the masks below are then remainders.
ASSUME RingAssumption == Capacity \in Nat \ {0} /\ Item # {}

VARIABLES buffer,      \* slot -> value
          ready,       \* slot -> flag
          writePos,    \* write_pos_
          readPos,     \* read_pos_
          producer,    \* where enqueue stands, its value, the read_pos_ it saw
          consumer,    \* where dequeue stands, its value, the write_pos_ it saw
          dequeued        \* what dequeue returned last

ringVars == <<buffer, ready, writePos, readPos, producer, consumer, dequeued>>

Slot == 0..(Capacity - 1)

\* A slot that no enqueue wrote yet holds any value; it is never looked at.
AnyItem == CHOOSE v \in Item : TRUE

RingInit ==
    /\ buffer   = [s \in Slot |-> AnyItem]
    /\ ready    = [s \in Slot |-> FALSE]
    /\ writePos = 0
    /\ readPos  = 0
    /\ producer = [pc |-> "idle", item |-> AnyItem, seen |-> 0]
    /\ consumer = [pc |-> "idle", item |-> AnyItem, seen |-> 0]
    /\ dequeued    = AnyItem

\* (p + 1) & (capacity - 1)
After(p) == IF p + 1 = Capacity THEN 0 ELSE p + 1

\* (to - from) & (capacity - 1)
Distance(from, to) == IF from <= to THEN to - from ELSE to - from + Capacity

size == Distance(readPos, writePos)

\* What a load of a position may return that the thread last saw as `seen`.
Loads(seen, now) == {p \in Slot : Distance(seen, p) <= Distance(seen, now)}

-----------------------------------------------------------------------------
(* enqueue *)

EnqueueStartUnchecked(v, r) ==
    /\ producer.pc = "idle"
    /\ producer' = [pc |-> "value", item |-> v, seen |-> r]
    /\ UNCHANGED <<buffer, ready, writePos, readPos, consumer, dequeued>>

\* A full queue returns false.
EnqueueStart(v, r) ==
    /\ producer.pc = "idle"
    /\ producer' = IF After(writePos) = r
                   THEN [producer EXCEPT !.seen = r]
                   ELSE [pc |-> "value", item |-> v, seen |-> r]
    /\ UNCHANGED <<buffer, ready, writePos, readPos, consumer, dequeued>>

WriteValue ==
    /\ producer.pc = "value"
    /\ buffer' = [buffer EXCEPT ![writePos] = producer.item]
    /\ producer' = [producer EXCEPT !.pc = "flag"]
    /\ UNCHANGED <<ready, writePos, readPos, consumer, dequeued>>

SetReady ==
    /\ producer.pc = "flag"
    /\ ready' = [ready EXCEPT ![writePos] = TRUE]
    /\ producer' = [producer EXCEPT !.pc = "publish"]
    /\ UNCHANGED <<buffer, writePos, readPos, consumer, dequeued>>

Publish ==
    /\ producer.pc = "publish"
    /\ writePos' = After(writePos)
    /\ producer' = [producer EXCEPT !.pc = "idle"]
    /\ UNCHANGED <<buffer, ready, readPos, consumer, dequeued>>

-----------------------------------------------------------------------------
(* dequeue *)

DequeueStartBehind(w) ==
    /\ consumer.pc = "idle"
    /\ consumer' = [consumer EXCEPT
            !.pc = IF w \in {readPos, After(readPos)} THEN "idle" ELSE "check",
            !.seen = w]
    /\ UNCHANGED <<buffer, ready, writePos, readPos, producer, dequeued>>

\* An empty queue returns nothing.
DequeueStart(w) ==
    /\ consumer.pc = "idle"
    /\ consumer' = [consumer EXCEPT !.pc = IF readPos = w THEN "idle" ELSE "check",
                                    !.seen = w]
    /\ UNCHANGED <<buffer, ready, writePos, readPos, producer, dequeued>>

CheckReadyReleasing ==
    /\ consumer.pc = "check"
    /\ consumer' = [consumer EXCEPT !.pc = IF ready[readPos] THEN "take" ELSE "idle"]
    /\ readPos' = IF ready[readPos] THEN After(readPos) ELSE readPos
    /\ UNCHANGED <<buffer, ready, writePos, producer, dequeued>>

CheckReady ==
    /\ consumer.pc = "check"
    /\ consumer' = [consumer EXCEPT !.pc = IF ready[readPos] THEN "take" ELSE "idle"]
    /\ UNCHANGED <<buffer, ready, writePos, readPos, producer, dequeued>>

TakeValue ==
    /\ consumer.pc = "take"
    /\ consumer' = [consumer EXCEPT !.pc = "clear", !.item = buffer[readPos]]
    /\ UNCHANGED <<buffer, ready, writePos, readPos, producer, dequeued>>

ClearReady ==
    /\ consumer.pc = "clear"
    /\ ready' = [ready EXCEPT ![readPos] = FALSE]
    /\ consumer' = [consumer EXCEPT !.pc = "advance"]
    /\ UNCHANGED <<buffer, writePos, readPos, producer, dequeued>>

Advance ==
    /\ consumer.pc = "advance"
    /\ readPos' = After(readPos)
    /\ dequeued' = consumer.item
    /\ consumer' = [consumer EXCEPT !.pc = "idle"]
    /\ UNCHANGED <<buffer, ready, writePos, producer>>

-----------------------------------------------------------------------------

EnqueueGoesOn == WriteValue \/ SetReady \/ Publish
DequeueGoesOn == CheckReady \/ TakeValue \/ ClearReady \/ Advance

RingNext ==
    \/ \E v \in Item, r \in Loads(producer.seen, readPos) : EnqueueStart(v, r)
    \/ WriteValue \/ SetReady \/ Publish
    \/ \E w \in Loads(consumer.seen, writePos) : DequeueStart(w)
    \/ CheckReady \/ TakeValue \/ ClearReady \/ Advance

\* A thread in the middle of a call goes on; the consumer polls, and a store
\* becomes visible in the end.  Nobody has to enqueue.
RingFairness ==
    /\ WF_ringVars(EnqueueGoesOn)
    /\ WF_ringVars(DequeueStart(writePos) \/ DequeueGoesOn)

RingSpec == RingInit /\ [][RingNext]_ringVars /\ RingFairness

-----------------------------------------------------------------------------

ProducerPcs == {"idle", "value", "flag", "publish"}
ConsumerPcs == {"idle", "check", "take", "clear", "advance"}

\* Types of the members of SPSCQueue: positions stay within the ring.
RingTypeOK ==
    /\ buffer \in [Slot -> Item]
    /\ ready \in [Slot -> BOOLEAN]
    /\ writePos \in Slot
    /\ readPos \in Slot
    /\ producer \in [pc : ProducerPcs, item : Item, seen : Slot]
    /\ consumer \in [pc : ConsumerPcs, item : Item, seen : Slot]
    /\ dequeued \in Item

\* The value of a slot is a plain member: the threads never access one at once.
NoDataRace ==
    ~(producer.pc = "value" /\ consumer.pc = "take" /\ writePos = readPos)

\* Where the positions say that a value is there, its ready flag agrees: dequeue
\* never returns nothing on account of the flag.
ReadyWhenSeen == consumer.pc = "check" => ready[readPos]

\* The values between the positions, oldest first.
Position(i) == IF readPos + i - 1 < Capacity THEN readPos + i - 1
               ELSE readPos + i - 1 - Capacity
Contents == [i \in 1..size |-> buffer[Position(i)]]

RingFifo == INSTANCE BoundedFifo
                    WITH queue <- Contents, taken <- dequeued, Value <- Item, Room <- Capacity - 1

\* The ring is a FIFO queue of capacity - 1 values, whatever stale positions the
\* threads see.
RingIsFifo == RingFifo!Safety

\* What is enqueued comes out while the consumer polls.
Drains == RingFifo!Liveness
=============================================================================
