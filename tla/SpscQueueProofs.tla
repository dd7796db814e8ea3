--------------------------- MODULE SpscQueueProofs ---------------------------
(***************************************************************************)
(* The ring is a FIFO queue, for any capacity and any values.              *)
(***************************************************************************)
EXTENDS SpscQueue, SequenceTheorems, TLAPS

\* What each thread saw of the other's position lies behind what it is, in its
\* own part of the ring.
SeenInv ==
    /\ Distance(readPos, writePos) <= Distance(producer.seen, writePos)
    /\ Distance(readPos, consumer.seen) <= Distance(readPos, writePos)

\* A thread in the middle of a call has room, or a value, of its own.
OwnsSlot ==
    /\ producer.pc # "idle" => After(writePos) # producer.seen
    /\ consumer.pc # "idle" => readPos # consumer.seen
    /\ consumer.pc \in {"clear", "advance"} => consumer.item = buffer[readPos]
    /\ producer.pc \in {"flag", "publish"} => buffer[writePos] = producer.item

\* Every value between the positions is flagged, until the consumer is done.
FlagInv ==
    /\ \A s \in Slot :
          Distance(readPos, s) < Distance(readPos, writePos) =>
              ready[s] \/ (s = readPos /\ consumer.pc = "advance")
    /\ producer.pc = "publish" => ready[writePos]

IInv == RingTypeOK /\ SeenInv /\ OwnsSlot /\ FlagInv

-----------------------------------------------------------------------------
(* Arithmetic of the ring *)

\* Moving on by one slot, and distances, stay in the ring.
LEMMA RingArithmetic ==
    ASSUME NEW p \in Slot, NEW q \in Slot
    PROVE  /\ After(p) \in Slot
           /\ Distance(p, q) \in Slot
           /\ Distance(p, p) = 0
           /\ Distance(p, q) = 0 => p = q
           /\ After(p) = q <=> Distance(q, p) = Capacity - 1
           /\ After(q) # p => Distance(p, After(q)) = Distance(p, q) + 1
           /\ p # q => Distance(After(p), q) = Distance(p, q) - 1
BY RingAssumption, SMT DEF Slot, After, Distance

\* A position that lies between `seen` and `now` is as far behind as `now` at least.
LEMMA LoadsBehind ==
    ASSUME NEW seen \in Slot, NEW now \in Slot, NEW target \in Slot,
           NEW p \in Loads(seen, now)
    PROVE  /\ p \in Slot
           /\ Distance(now, target) <= Distance(seen, target)
                => Distance(now, target) <= Distance(p, target)
           /\ Distance(target, seen) <= Distance(target, now)
                => Distance(target, p) <= Distance(target, now)
BY RingAssumption, SMT DEF Slot, Loads, Distance

-----------------------------------------------------------------------------
(* The invariant *)

\* The invariant holds of an empty ring.
LEMMA InitIInv == RingInit => IInv
<1> SUFFICES ASSUME RingInit PROVE IInv
  OBVIOUS
<1>1. 0 \in Slot /\ AnyItem \in Item
  BY RingAssumption DEF Slot, AnyItem
<1>2. RingTypeOK
  BY <1>1 DEF RingInit, RingTypeOK, ProducerPcs, ConsumerPcs
<1>3. SeenInv /\ OwnsSlot
  BY <1>1 DEF RingInit, SeenInv, OwnsSlot, Distance
<1>4. FlagInv
  <2>1. Distance(readPos, writePos) = 0 /\ \A s \in Slot : Distance(readPos, s) >= 0
    BY <1>1, RingArithmetic DEF RingInit, Slot
  <2> QED
    BY <2>1, RingArithmetic, <1>1 DEF RingInit, FlagInv, Slot
<1> QED
  BY <1>2, <1>3, <1>4 DEF IInv

\* A call to enqueue, or a full queue, keeps it: a stale read_pos_ shows less
\* room than there is.
LEMMA EnqueueStartIInv ==
    ASSUME IInv, NEW v \in Item, NEW r \in Loads(producer.seen, readPos), EnqueueStart(v, r)
    PROVE  IInv'
<1>1. r \in Slot /\ Distance(readPos, writePos) <= Distance(r, writePos)
  BY LoadsBehind DEF IInv, RingTypeOK, SeenInv
<1>2. /\ producer' \in [pc : ProducerPcs, item : Item, seen : Slot]
      /\ producer'.seen = r
      /\ producer'.pc \in {"idle", "value"}
      /\ producer'.pc # "idle" => After(writePos) # r
  BY <1>1 DEF IInv, RingTypeOK, EnqueueStart, ProducerPcs
<1>3. UNCHANGED <<buffer, ready, writePos, readPos, consumer, dequeued>>
  BY DEF EnqueueStart
<1>4. RingTypeOK'
  BY <1>2, <1>3 DEF IInv, RingTypeOK
<1>5. SeenInv'
  BY <1>1, <1>2, <1>3 DEF IInv, SeenInv, Distance
<1>6. OwnsSlot'
  BY <1>2, <1>3 DEF IInv, OwnsSlot, After
<1>7. FlagInv'
  BY <1>2, <1>3 DEF IInv, FlagInv, Distance
<1> QED
  BY <1>4, <1>5, <1>6, <1>7 DEF IInv

\* Writing the value keeps it: the slot is not one that the consumer may read.
LEMMA WriteValueIInv ==
    ASSUME IInv, WriteValue
    PROVE  IInv'
<1>1. /\ producer' = [producer EXCEPT !.pc = "flag"]
      /\ buffer' = [buffer EXCEPT ![writePos] = producer.item]
      /\ UNCHANGED <<ready, writePos, readPos, consumer, dequeued>>
  BY DEF WriteValue
<1>2. RingTypeOK'
  BY <1>1 DEF IInv, RingTypeOK, ProducerPcs
<1>3. SeenInv' /\ FlagInv'
  BY <1>1 DEF IInv, RingTypeOK, SeenInv, FlagInv, Distance
<1>4. consumer.pc # "idle" => writePos # readPos
  BY RingArithmetic DEF IInv, RingTypeOK, SeenInv, OwnsSlot, Distance, Slot
<1>5. OwnsSlot'
  BY <1>1, <1>4 DEF IInv, RingTypeOK, OwnsSlot, After, WriteValue
<1> QED
  BY <1>2, <1>3, <1>5 DEF IInv

\* Flagging the value keeps it.
LEMMA SetReadyIInv ==
    ASSUME IInv, SetReady
    PROVE  IInv'
<1>1. /\ producer' = [producer EXCEPT !.pc = "publish"] /\ producer.pc = "flag"
      /\ ready' = [ready EXCEPT ![writePos] = TRUE]
      /\ UNCHANGED <<buffer, writePos, readPos, consumer, dequeued>>
  BY DEF SetReady
<1>2. RingTypeOK'
  BY <1>1 DEF IInv, RingTypeOK, ProducerPcs
<1>3. SeenInv' /\ OwnsSlot'
  BY <1>1 DEF IInv, RingTypeOK, SeenInv, OwnsSlot, Distance, After
<1>4. FlagInv'
  BY <1>1 DEF IInv, RingTypeOK, FlagInv, Distance
<1> QED
  BY <1>2, <1>3, <1>4 DEF IInv

\* Two positions equally far from a third are one.
LEMMA SameDistance ==
    ASSUME NEW p \in Slot, NEW q \in Slot, NEW r \in Slot, Distance(r, p) = Distance(r, q)
    PROVE  p = q
BY RingAssumption, SMT DEF Slot, Distance

\* What a thread in the middle of a call knows: there is room, or a value.
LEMMA RoomAndValue ==
    ASSUME IInv
    PROVE  /\ producer.pc # "idle" => After(writePos) # readPos
           /\ consumer.pc # "idle" => writePos # readPos
<1>1. /\ writePos \in Slot /\ readPos \in Slot
      /\ producer.seen \in Slot /\ consumer.seen \in Slot
  BY DEF IInv, RingTypeOK
<1>2. /\ After(writePos) = readPos <=> Distance(readPos, writePos) = Capacity - 1
      /\ After(writePos) = producer.seen <=> Distance(producer.seen, writePos) = Capacity - 1
      /\ Distance(producer.seen, writePos) \in Slot
      /\ Distance(readPos, readPos) = 0
      /\ Distance(readPos, consumer.seen) \in Slot
      /\ Distance(readPos, consumer.seen) = 0 => readPos = consumer.seen
  BY <1>1, RingArithmetic
<1> QED
  BY <1>1, <1>2, RingAssumption DEF IInv, SeenInv, OwnsSlot, Slot

\* Publishing keeps it: one more flagged value lies between the positions.
LEMMA PublishIInv ==
    ASSUME IInv, Publish
    PROVE  IInv'
<1>1. /\ producer' = [producer EXCEPT !.pc = "idle"] /\ producer.pc = "publish"
      /\ writePos' = After(writePos)
      /\ UNCHANGED <<buffer, ready, readPos, consumer, dequeued>>
  BY DEF Publish
<1>2. /\ writePos \in Slot /\ readPos \in Slot /\ producer.seen \in Slot
      /\ After(writePos) \in Slot
  BY RingArithmetic DEF IInv, RingTypeOK
<1>3. RingTypeOK'
  BY <1>1, <1>2 DEF IInv, RingTypeOK, ProducerPcs
<1>4. /\ Distance(readPos, After(writePos)) = Distance(readPos, writePos) + 1
      /\ Distance(producer.seen, After(writePos)) = Distance(producer.seen, writePos) + 1
  BY <1>1, <1>2, RoomAndValue, RingArithmetic DEF IInv, OwnsSlot
<1>5. /\ Distance(readPos, writePos) \in Slot /\ Distance(producer.seen, writePos) \in Slot
      /\ Distance(readPos, consumer.seen) \in Slot
      /\ \A s \in Slot : Distance(readPos, s) \in Slot
  BY <1>2, RingArithmetic DEF IInv, RingTypeOK
<1>6. SeenInv'
  <2>1. producer'.seen = producer.seen /\ consumer' = consumer /\ readPos' = readPos
    BY <1>1 DEF IInv, RingTypeOK
  <2>2. /\ Distance(readPos, After(writePos)) <= Distance(producer.seen, After(writePos))
        /\ Distance(readPos, consumer.seen) <= Distance(readPos, After(writePos))
    BY <1>4, <1>5 DEF IInv, SeenInv, Slot
  <2> QED
    BY <1>1, <2>1, <2>2 DEF SeenInv, Distance
<1>7. OwnsSlot'
  BY <1>1 DEF IInv, RingTypeOK, OwnsSlot
<1>8. FlagInv'
  <2> SUFFICES ASSUME NEW s \in Slot, Distance(readPos, s) < Distance(readPos, writePos) + 1
               PROVE  ready[s] \/ (s = readPos /\ consumer.pc = "advance")
    BY <1>1, <1>2, <1>4 DEF IInv, RingTypeOK, FlagInv, Distance
  <2>1. CASE Distance(readPos, s) = Distance(readPos, writePos)
    BY <1>1, <1>2, <2>1, SameDistance DEF IInv, FlagInv
  <2>2. CASE Distance(readPos, s) < Distance(readPos, writePos)
    BY <2>2 DEF IInv, FlagInv
  <2> QED
    BY <2>1, <2>2, <1>5 DEF Slot
<1> QED
  BY <1>3, <1>6, <1>7, <1>8 DEF IInv

\* A call to dequeue, or an empty queue, keeps it: a stale write_pos_ shows fewer
\* values than there are.
LEMMA DequeueStartIInv ==
    ASSUME IInv, NEW w \in Loads(consumer.seen, writePos), DequeueStart(w)
    PROVE  IInv'
<1>1. w \in Slot /\ Distance(readPos, w) <= Distance(readPos, writePos)
  BY LoadsBehind DEF IInv, RingTypeOK, SeenInv
<1>2. /\ consumer' \in [pc : ConsumerPcs, item : Item, seen : Slot]
      /\ consumer'.seen = w
      /\ consumer'.pc \in {"idle", "check"}
      /\ consumer'.pc # "idle" => readPos # w
      /\ consumer.pc = "idle"
  BY <1>1 DEF IInv, RingTypeOK, DequeueStart, ConsumerPcs
<1>3. UNCHANGED <<buffer, ready, writePos, readPos, producer, dequeued>>
  BY DEF DequeueStart
<1>4. RingTypeOK'
  BY <1>2, <1>3 DEF IInv, RingTypeOK
<1>5. SeenInv'
  BY <1>1, <1>2, <1>3 DEF IInv, SeenInv, Distance
<1>6. OwnsSlot'
  BY <1>2, <1>3 DEF IInv, OwnsSlot, After
<1>7. FlagInv'
  BY <1>2, <1>3 DEF IInv, FlagInv, Distance
<1> QED
  BY <1>4, <1>5, <1>6, <1>7 DEF IInv

\* Looking at the flag keeps it.
LEMMA CheckReadyIInv ==
    ASSUME IInv, CheckReady
    PROVE  IInv'
<1>1. /\ consumer.pc = "check"
      /\ consumer' \in [pc : ConsumerPcs, item : Item, seen : Slot]
      /\ consumer'.seen = consumer.seen
      /\ consumer'.pc \in {"idle", "take"}
      /\ UNCHANGED <<buffer, ready, writePos, readPos, producer, dequeued>>
  BY DEF IInv, RingTypeOK, CheckReady, ConsumerPcs
<1>2. RingTypeOK' /\ SeenInv'
  BY <1>1 DEF IInv, RingTypeOK, SeenInv, Distance
<1>3. OwnsSlot' /\ FlagInv'
  BY <1>1 DEF IInv, OwnsSlot, FlagInv, Distance, After
<1> QED
  BY <1>2, <1>3 DEF IInv

\* Copying the value keeps it.
LEMMA TakeValueIInv ==
    ASSUME IInv, TakeValue
    PROVE  IInv'
<1>1. /\ consumer.pc = "take" /\ consumer'.pc = "clear"
      /\ consumer' \in [pc : ConsumerPcs, item : Item, seen : Slot]
      /\ consumer'.seen = consumer.seen /\ consumer'.item = buffer[readPos]
      /\ UNCHANGED <<buffer, ready, writePos, readPos, producer, dequeued>>
  BY DEF IInv, RingTypeOK, TakeValue, ConsumerPcs
<1>2. RingTypeOK' /\ SeenInv'
  BY <1>1 DEF IInv, RingTypeOK, SeenInv, Distance
<1>3. OwnsSlot' /\ FlagInv'
  BY <1>1 DEF IInv, OwnsSlot, FlagInv, Distance, After
<1> QED
  BY <1>2, <1>3 DEF IInv

\* Clearing the flag keeps it: the producer's slot is another one.
LEMMA ClearReadyIInv ==
    ASSUME IInv, ClearReady
    PROVE  IInv'
<1>1. /\ consumer.pc = "clear" /\ consumer' = [consumer EXCEPT !.pc = "advance"]
      /\ ready' = [ready EXCEPT ![readPos] = FALSE]
      /\ UNCHANGED <<buffer, writePos, readPos, producer, dequeued>>
  BY DEF ClearReady
<1>2. writePos # readPos
  BY <1>1, RoomAndValue
<1>3. RingTypeOK'
  BY <1>1 DEF IInv, RingTypeOK, ConsumerPcs
<1>4. SeenInv' /\ OwnsSlot'
  BY <1>1 DEF IInv, RingTypeOK, SeenInv, OwnsSlot, Distance, After
<1>5. FlagInv'
  BY <1>1, <1>2 DEF IInv, RingTypeOK, FlagInv, Distance
<1> QED
  BY <1>3, <1>4, <1>5 DEF IInv

\* Giving the slot back keeps it.
LEMMA AdvanceIInv ==
    ASSUME IInv, Advance
    PROVE  IInv'
<1>1. /\ consumer' = [consumer EXCEPT !.pc = "idle"] /\ consumer.pc = "advance"
      /\ readPos' = After(readPos) /\ dequeued' = consumer.item
      /\ UNCHANGED <<buffer, ready, writePos, producer>>
  BY DEF Advance
<1>2. /\ writePos \in Slot /\ readPos \in Slot
      /\ consumer.seen \in Slot /\ producer.seen \in Slot
      /\ After(readPos) \in Slot
      /\ readPos # writePos /\ readPos # consumer.seen
  BY <1>1, RingArithmetic, RoomAndValue DEF IInv, RingTypeOK, OwnsSlot
<1>3. RingTypeOK'
  BY <1>1, <1>2 DEF IInv, RingTypeOK, ConsumerPcs
<1>4. /\ Distance(After(readPos), writePos) = Distance(readPos, writePos) - 1
      /\ Distance(After(readPos), consumer.seen) = Distance(readPos, consumer.seen) - 1
      /\ \A s \in Slot : s # readPos =>
            Distance(After(readPos), s) = Distance(readPos, s) - 1
      /\ Distance(After(readPos), readPos) = Capacity - 1
      /\ \A s \in Slot : Distance(readPos, s) \in Slot
      /\ Distance(producer.seen, writePos) \in Slot
  BY <1>2, RingArithmetic
<1>5. SeenInv'
  <2>1. /\ Distance(After(readPos), writePos) <= Distance(producer.seen, writePos)
        /\ Distance(After(readPos), consumer.seen) <= Distance(After(readPos), writePos)
    BY <1>2, <1>4, RingAssumption DEF IInv, SeenInv, Slot
  <2>2. consumer'.seen = consumer.seen
    BY <1>1 DEF IInv, RingTypeOK
  <2> QED
    BY <1>1, <2>1, <2>2 DEF SeenInv, Distance
<1>6. OwnsSlot'
  BY <1>1 DEF IInv, RingTypeOK, OwnsSlot, After
<1>7. FlagInv'
  <2>1. ASSUME NEW s \in Slot, Distance(After(readPos), s) < Distance(After(readPos), writePos)
        PROVE  ready[s]
    <3>1. s # readPos
      BY <1>2, <1>4, <2>1, RingAssumption DEF Slot
    <3>2. Distance(readPos, s) < Distance(readPos, writePos)
      BY <1>2, <1>4, <2>1, <3>1, RingAssumption DEF Slot
    <3> QED
      BY <3>1, <3>2 DEF IInv, FlagInv
  <2> QED
    BY <1>1, <2>1 DEF IInv, RingTypeOK, FlagInv, Distance
<1> QED
  BY <1>3, <1>5, <1>6, <1>7 DEF IInv

\* Every step keeps it.
LEMMA NextIInv == IInv /\ [RingNext]_ringVars => IInv'
<1> SUFFICES ASSUME IInv, [RingNext]_ringVars PROVE IInv'
  OBVIOUS
<1>1. CASE \E v \in Item, r \in Loads(producer.seen, readPos) : EnqueueStart(v, r)
  BY <1>1, EnqueueStartIInv
<1>2. CASE WriteValue
  BY <1>2, WriteValueIInv
<1>3. CASE SetReady
  BY <1>3, SetReadyIInv
<1>4. CASE Publish
  BY <1>4, PublishIInv
<1>5. CASE \E w \in Loads(consumer.seen, writePos) : DequeueStart(w)
  BY <1>5, DequeueStartIInv
<1>6. CASE CheckReady
  BY <1>6, CheckReadyIInv
<1>7. CASE TakeValue
  BY <1>7, TakeValueIInv
<1>8. CASE ClearReady
  BY <1>8, ClearReadyIInv
<1>9. CASE Advance
  BY <1>9, AdvanceIInv
<1>10. CASE UNCHANGED ringVars
  BY <1>10 DEF ringVars, IInv, RingTypeOK, SeenInv, OwnsSlot, FlagInv, Distance, After
<1> QED
  BY <1>1, <1>2, <1>3, <1>4, <1>5, <1>6, <1>7, <1>8, <1>9, <1>10 DEF RingNext

\* The inductive invariant: each thread's view of the other's position lags
\* behind it, and the flags agree with the positions.
THEOREM Invariant == RingSpec => []IInv
BY InitIInv, NextIInv, PTL DEF RingSpec

\* Positions stay within the ring.
THEOREM TypeCorrect == RingSpec => []RingTypeOK
<1>1. IInv => RingTypeOK
  BY DEF IInv
<1> QED
  BY <1>1, Invariant, PTL

\* The threads never access the value of one slot at the same time, whatever
\* stale positions they read.
THEOREM RaceFree == RingSpec => []NoDataRace
<1>1. IInv => NoDataRace
  BY RoomAndValue DEF NoDataRace
<1> QED
  BY <1>1, Invariant, PTL

\* dequeue never returns nothing because of a flag.
THEOREM AlwaysReady == RingSpec => []ReadyWhenSeen
<1>1. IInv => ReadyWhenSeen
  <2> SUFFICES ASSUME IInv, consumer.pc = "check" PROVE ready[readPos]
    BY DEF ReadyWhenSeen
  <2>1. /\ writePos \in Slot /\ readPos \in Slot /\ writePos # readPos
    BY RoomAndValue DEF IInv, RingTypeOK
  <2>2. Distance(readPos, readPos) < Distance(readPos, writePos)
    BY <2>1, RingArithmetic DEF Slot
  <2> QED
    BY <2>1, <2>2 DEF IInv, FlagInv
<1> QED
  BY <1>1, Invariant, PTL

-----------------------------------------------------------------------------
(* Refinement of the FIFO queue *)

\* The values between the positions form a sequence.
LEMMA ContentsSeq ==
    ASSUME IInv
    PROVE  /\ Contents \in Seq(Item)
           /\ Len(Contents) = Distance(readPos, writePos)
           /\ \A i \in 1..Distance(readPos, writePos) :
                 Contents[i] = buffer[Position(i)] /\ Position(i) \in Slot
<1> DEFINE n == Distance(readPos, writePos)
<1>1. /\ writePos \in Slot /\ readPos \in Slot /\ n \in Slot /\ n \in Nat /\ n < Capacity
  <2>1. writePos \in Slot /\ readPos \in Slot /\ n \in Slot
    BY RingArithmetic DEF IInv, RingTypeOK
  <2> QED
    BY <2>1, RingAssumption DEF Slot
<1>2. \A i \in 1..n : Position(i) \in Slot
  BY <1>1, RingAssumption DEF Position, Slot
<1>3. \A i \in 1..n : buffer[Position(i)] \in Item
  BY <1>2 DEF IInv, RingTypeOK
<1>4. Contents = [i \in 1..n |-> buffer[Position(i)]]
  BY DEF Contents, size
<1>5. Contents \in [1..n -> Item]
  BY <1>3, <1>4
<1>6. Contents \in Seq(Item) /\ Len(Contents) = n
  BY <1>1, <1>5
<1> QED
  BY <1>2, <1>4, <1>6

\* The distance of the i-th slot from the read position is i - 1.
LEMMA PositionDistance ==
    ASSUME IInv, NEW i \in 1..Capacity
    PROVE  Position(i) \in Slot /\ Distance(readPos, Position(i)) = i - 1
BY RingAssumption, SMT DEF IInv, RingTypeOK, Slot, Position, Distance

\* The sequence depends on the positions and on the slots between them only.
LEMMA SameContents ==
    ASSUME UNCHANGED <<readPos, writePos>>,
           \A i \in 1..Distance(readPos, writePos) :
               buffer'[Position(i)] = buffer[Position(i)]
    PROVE  Contents' = Contents
<1>1. \A i : Position(i)' = Position(i)
  BY DEF Position
<1> QED
  BY <1>1 DEF Contents, size, Distance

\* Publishing puts the producer's value at the end.
LEMMA PublishPuts ==
    ASSUME IInv, Publish
    PROVE  /\ Distance(readPos, writePos) < Capacity - 1
           /\ Contents' = Append(Contents, producer.item)
           /\ producer.item \in Item /\ UNCHANGED dequeued
<1> DEFINE n == Distance(readPos, writePos)
<1>1. /\ writePos' = After(writePos) /\ producer.pc = "publish"
      /\ UNCHANGED <<buffer, ready, readPos, consumer, dequeued>>
  BY DEF Publish
<1>2. /\ writePos \in Slot /\ readPos \in Slot /\ n \in Slot /\ producer.item \in Item
  BY RingArithmetic DEF IInv, RingTypeOK
<1>3. n # Capacity - 1 /\ Distance(readPos, After(writePos)) = n + 1
  BY <1>1, <1>2, RoomAndValue, RingArithmetic
<1>4. n \in Nat /\ n < Capacity - 1
  BY <1>2, <1>3, RingAssumption DEF Slot
<1>5. \A i : Position(i)' = Position(i)
  BY <1>1 DEF Position
<1>6. Distance(readPos, writePos)' = n + 1
  BY <1>1, <1>3 DEF Distance
<1>7. /\ Contents' \in Seq(Item) /\ Len(Contents') = n + 1
      /\ \A i \in 1..(n + 1) : Contents'[i] = buffer[Position(i)]
  <2>1. Contents' = [i \in 1..(n + 1) |-> buffer[Position(i)]]
    BY <1>1, <1>5, <1>6 DEF Contents, size
  <2>2. \A i \in 1..(n + 1) : buffer[Position(i)] \in Item
    <3>1. \A i \in 1..(n + 1) : i \in 1..Capacity
      BY <1>4, RingAssumption
    <3> QED
      BY <3>1, PositionDistance DEF IInv, RingTypeOK
  <2> QED
    BY <2>1, <2>2, <1>4
<1>8. /\ Contents \in Seq(Item) /\ Len(Contents) = n
      /\ \A i \in 1..n : Contents[i] = buffer[Position(i)]
  BY ContentsSeq
<1>9. buffer[Position(n + 1)] = producer.item
  <2>1. n + 1 \in 1..Capacity
    BY <1>4, RingAssumption
  <2>2. Position(n + 1) \in Slot /\ Distance(readPos, Position(n + 1)) = n
    BY <2>1, <1>4, PositionDistance
  <2>3. Position(n + 1) = writePos
    BY <2>2, <1>2, SameDistance
  <2> QED
    BY <2>3, <1>1 DEF IInv, OwnsSlot
<1>10. /\ Append(Contents, producer.item) \in Seq(Item)
       /\ Len(Append(Contents, producer.item)) = n + 1
       /\ \A i \in 1..n : Append(Contents, producer.item)[i] = Contents[i]
       /\ Append(Contents, producer.item)[n + 1] = producer.item
  BY <1>2, <1>8, AppendProperties
<1>11. \A i \in 1..Len(Contents') : Contents'[i] = Append(Contents, producer.item)[i]
  BY <1>4, <1>7, <1>8, <1>9, <1>10
<1>12. Contents' = Append(Contents, producer.item)
  BY <1>7, <1>10, <1>11, SeqEqual
<1> QED
  BY <1>1, <1>2, <1>4, <1>12

\* Giving the slot back takes the first value.
LEMMA AdvanceTakes ==
    ASSUME IInv, Advance
    PROVE  /\ Contents # << >>
           /\ Contents' = Tail(Contents)
           /\ dequeued' = Head(Contents)
<1> DEFINE n == Distance(readPos, writePos)
<1>1. /\ readPos' = After(readPos) /\ dequeued' = consumer.item /\ consumer.pc = "advance"
      /\ UNCHANGED <<buffer, ready, writePos, producer>>
  BY DEF Advance
<1>2. /\ writePos \in Slot /\ readPos \in Slot /\ n \in Slot /\ readPos # writePos
  BY <1>1, RoomAndValue, RingArithmetic DEF IInv, RingTypeOK
<1>3. n # 0 /\ Distance(After(readPos), writePos) = n - 1
  BY <1>2, RingArithmetic
<1>4. n \in Nat \ {0} /\ n < Capacity
  BY <1>2, <1>3, RingAssumption DEF Slot
<1>5. /\ Contents \in Seq(Item) /\ Len(Contents) = n
      /\ \A i \in 1..n : Contents[i] = buffer[Position(i)]
  BY ContentsSeq
<1>6. Contents # << >>
  BY <1>4, <1>5
<1>7. dequeued' = Head(Contents)
  <2>1. Position(1) = readPos
    BY <1>2, RingAssumption DEF Position, Slot
  <2>2. Head(Contents) = Contents[1]
    BY <1>5, <1>6
  <2> QED
    BY <2>1, <2>2, <1>1, <1>4, <1>5 DEF IInv, OwnsSlot
<1>8. Distance(readPos, writePos)' = n - 1
  BY <1>1, <1>3 DEF Distance
<1>9. \A i \in 1..(n - 1) : Position(i)' = Position(i + 1) /\ buffer[Position(i + 1)] \in Item
  <2>1. \A i \in 1..(n - 1) : i + 1 \in 1..Capacity
    BY <1>4, RingAssumption
  <2>2. \A i \in 1..(n - 1) : Position(i)' = Position(i + 1)
    BY <1>1, <1>2, <1>4, RingAssumption DEF Position, After, Slot
  <2> QED
    BY <2>1, <2>2, PositionDistance DEF IInv, RingTypeOK
<1>10. /\ Contents' \in Seq(Item) /\ Len(Contents') = n - 1
       /\ \A i \in 1..(n - 1) : Contents'[i] = buffer[Position(i + 1)]
  <2>1. Contents' = [i \in 1..(n - 1) |-> buffer[Position(i)']]
    BY <1>1, <1>8 DEF Contents, size
  <2> QED
    BY <2>1, <1>4, <1>9
<1>11. /\ Tail(Contents) \in Seq(Item) /\ Len(Tail(Contents)) = n - 1
       /\ \A i \in 1..(n - 1) : Tail(Contents)[i] = Contents[i + 1]
  BY <1>5, <1>6, HeadTailProperties
<1>12. \A i \in 1..Len(Contents') : Contents'[i] = Tail(Contents)[i]
  BY <1>4, <1>5, <1>10, <1>11
<1>13. Contents' = Tail(Contents)
  BY <1>10, <1>11, <1>12, SeqEqual
<1> QED
  BY <1>6, <1>7, <1>13

\* The value is written outside what the positions enclose.
LEMMA WriteValueStutters ==
    ASSUME IInv, WriteValue
    PROVE  Contents' = Contents
<1>1. /\ buffer' = [buffer EXCEPT ![writePos] = producer.item]
      /\ UNCHANGED <<readPos, writePos>>
  BY DEF WriteValue
<1>2. ASSUME NEW i \in 1..Distance(readPos, writePos)
      PROVE  buffer'[Position(i)] = buffer[Position(i)]
  <2>1. Distance(readPos, writePos) \in Slot /\ writePos \in Slot
    BY RingArithmetic DEF IInv, RingTypeOK
  <2>2. i \in 1..Capacity /\ i - 1 # Distance(readPos, writePos)
    BY <2>1, RingAssumption DEF Slot
  <2>3. Position(i) \in Slot /\ Position(i) # writePos
    BY <2>2, PositionDistance
  <2> QED
    BY <1>1, <2>1, <2>3 DEF IInv, RingTypeOK
<1> QED
  BY <1>1, <1>2, SameContents

\* The ring implements a FIFO queue of Capacity - 1 values: Publish puts, Advance
\* takes, and nothing else changes what waits.
THEOREM Refines == RingSpec => RingIsFifo
<1>1. RingInit => RingFifo!Init
  <2> SUFFICES ASSUME RingInit PROVE Contents = << >>
    BY DEF RingFifo!Init
  <2>1. IInv /\ Distance(readPos, writePos) = 0
    BY InitIInv DEF RingInit, Distance
  <2> QED
    BY <2>1, ContentsSeq
<1>2. IInv /\ [RingNext]_ringVars => [RingFifo!Next]_(RingFifo!vars)
  <2> SUFFICES ASSUME IInv, [RingNext]_ringVars
               PROVE  RingFifo!Next \/ UNCHANGED <<Contents, dequeued>>
    BY DEF RingFifo!vars
  <2>1. CASE Publish
    <3>1. Len(Contents) < Capacity - 1
      BY <2>1, PublishPuts, ContentsSeq
    <3> QED
      BY <2>1, <3>1, PublishPuts DEF RingFifo!Next, RingFifo!Put
  <2>2. CASE Advance
    BY <2>2, AdvanceTakes DEF RingFifo!Next, RingFifo!Take
  <2>3. CASE WriteValue
    BY <2>3, WriteValueStutters DEF WriteValue
  <2>4. CASE UNCHANGED <<buffer, readPos, writePos, dequeued>>
    BY <2>4, SameContents
  <2> QED
    BY <2>1, <2>2, <2>3, <2>4
    DEF RingNext, ringVars, EnqueueStart, SetReady, DequeueStart, CheckReady, TakeValue, ClearReady
<1> QED
  BY <1>1, <1>2, Invariant, PTL DEF RingSpec, RingIsFifo, RingFifo!Safety
=============================================================================
