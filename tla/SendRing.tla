------------------------------ MODULE SendRing ------------------------------
(***************************************************************************)
(* SpscRingBuffer (networking/tcp_feed.cpp): the ring between a thread     *)
(* that publishes to a TCP client and the server thread, which drains it.  *)
(* Frames are runs of cells, as in FrameParser.                            *)
(*                                                                         *)
(* One action per access to memory that the threads share.  A publisher    *)
(* may read tail_, and the server head_, as any value it had since that    *)
(* thread last read it.                                                    *)
(*                                                                         *)
(* tcp_feed.hpp:102 calls publish thread-safe, but the ring is made for    *)
(* one producer.  With two members of Publisher SendRingIsFifo is false:   *)
(* both load one head_ and the second copy goes over the first, or the     *)
(* later store of head_ brings it back, and old cells are read again.      *)
(* TcpFeed takes a publish by one thread as one step.                      *)
(***************************************************************************)
EXTENDS Integers, Sequences, FiniteSetsExt

CONSTANTS Publisher,    \* the threads that call publish
          RingSize,     \* data_.size(), in cells
          Width,        \* positions are size_t: they count modulo this
          Chunk,        \* what drain_send_rings reads at a time
          FrameSizes,
          MaxFrames     \* bound on the publishes

\* Both sizes are powers of 2.
ASSUME SendAssumption ==
    /\ {RingSize, Width, Chunk} \cup FrameSizes \subseteq Nat \ {0}
    /\ RingSize < Width /\ Width % RingSize = 0
    /\ MaxFrames \in Nat

Cells(no, length) == [i \in 1..length |-> [of |-> no, at |-> i]]

NoCell == [of |-> 0, at |-> 0]

VARIABLES cells,     \* data_
          filled,    \* head_
          drained,   \* tail_
          pub,       \* where a publisher stands in try_write
          con,       \* where the server thread stands in try_read
          frames,    \* the publishes so far
          accepted,  \* the cells that try_write says it took, in order
          out        \* the cells that were read

sendVars == <<cells, filled, drained, pub, con, frames, accepted, out>>

Place  == 0..(RingSize - 1)
Offset == 0..(Width - 1)

\* The difference of two size_t, and the position n cells after p.
Minus(from, to) == (to - from) % Width
Plus(p, n)      == (p + n) % Width
Masked(p)       == p % RingSize

\* What a load of a position may return that the thread last saw as `seen`.
Seen(seen, now) == {Plus(seen, k) : k \in 0..Minus(seen, now)}

SendInit ==
    /\ cells    = [s \in Place |-> NoCell]
    /\ filled   = 0
    /\ drained  = 0
    /\ pub      = [p \in Publisher |->
                     [pc |-> "idle", frame |-> <<>>, n |-> 0, h |-> 0, i |-> 0, seen |-> 0]]
    /\ con      = [pc |-> "idle", n |-> 0, i |-> 0, seen |-> 0]
    /\ frames   = 0
    /\ accepted = <<>>
    /\ out      = <<>>

-----------------------------------------------------------------------------
(* try_write *)

\* Mutant: data_.size() is taken for the room.
MeasureAll(p, length, t) ==
    LET n == Min({length, RingSize})
    IN  /\ pub[p].pc = "idle" /\ frames < MaxFrames
        /\ frames' = frames + 1
        /\ pub' = [pub EXCEPT ![p] =
               [@ EXCEPT !.pc = "load", !.frame = Cells(frames', length), !.n = n, !.seen = t]]
        /\ UNCHANGED <<cells, filled, drained, con, accepted, out>>

\* A publish measures the room and settles how much of its frame fits; when
\* nothing does it returns.  With head_ behind tail_ the room is a huge number.
Measure(p, length, t) ==
    LET n == Min({length, (RingSize - Minus(t, filled)) % Width})
    IN  /\ pub[p].pc = "idle" /\ frames < MaxFrames
        /\ frames' = frames + 1
        /\ pub' = [pub EXCEPT ![p] =
               [@ EXCEPT !.pc = IF n = 0 THEN "idle" ELSE "load",
                         !.frame = Cells(frames', length), !.n = n, !.seen = t]]
        /\ UNCHANGED <<cells, filled, drained, con, accepted, out>>

LoadHead(p) ==
    /\ pub[p].pc = "load"
    /\ pub' = [pub EXCEPT ![p] = [@ EXCEPT !.pc = "copy", !.h = filled, !.i = 0]]
    /\ UNCHANGED <<cells, filled, drained, con, frames, accepted, out>>

\* One cell of the two memcpy's.
CopyIn(p) ==
    LET me == pub[p]
    IN  /\ me.pc = "copy"
        /\ cells' = [cells EXCEPT ![Masked(Plus(me.h, me.i))] = me.frame[me.i + 1]]
        /\ pub'   = [pub EXCEPT ![p] =
                       [@ EXCEPT !.i = @ + 1, !.pc = IF me.i + 1 = me.n THEN "store" ELSE "copy"]]
        /\ UNCHANGED <<filled, drained, con, frames, accepted, out>>

StoreHead(p) ==
    /\ pub[p].pc = "store"
    /\ filled'   = Plus(pub[p].h, pub[p].n)
    /\ accepted' = accepted \o SubSeq(pub[p].frame, 1, pub[p].n)
    /\ pub'      = [pub EXCEPT ![p] = [@ EXCEPT !.pc = "idle"]]
    /\ UNCHANGED <<cells, drained, con, frames, out>>

-----------------------------------------------------------------------------
(* try_read, in the loop of drain_send_rings *)

Look(h) ==
    LET n == Min({Chunk, Minus(drained, h)})
    IN  /\ con.pc = "idle"
        /\ con' = [pc |-> IF n = 0 THEN "idle" ELSE "copy", n |-> n, i |-> 0, seen |-> h]
        /\ UNCHANGED <<cells, filled, drained, pub, frames, accepted, out>>

CopyOut ==
    /\ con.pc = "copy"
    /\ out' = Append(out, cells[Masked(Plus(drained, con.i))])
    /\ con' = [con EXCEPT !.i = @ + 1, !.pc = IF con.i + 1 = con.n THEN "store" ELSE "copy"]
    /\ UNCHANGED <<cells, filled, drained, pub, frames, accepted>>

StoreTail ==
    /\ con.pc = "store"
    /\ drained' = Plus(drained, con.n)
    /\ con'  = [con EXCEPT !.pc = "idle", !.i = 0]
    /\ UNCHANGED <<cells, filled, pub, frames, accepted, out>>

-----------------------------------------------------------------------------
SendNext ==
    \/ \E p \in Publisher, length \in FrameSizes :
           \E t \in Seen(pub[p].seen, drained) : Measure(p, length, t)
    \/ \E p \in Publisher : LoadHead(p) \/ CopyIn(p) \/ StoreHead(p)
    \/ \E h \in Seen(con.seen, filled) : Look(h)
    \/ CopyOut
    \/ StoreTail

SendSpec == SendInit /\ [][SendNext]_sendVars

-----------------------------------------------------------------------------
\* The cells in the ring that are still to be read.
Queued == LET from == Plus(drained, con.i)
          IN  [k \in 1..Minus(from, filled) |-> cells[Masked(Plus(from, k - 1))]]

(* What the server reads from a ring is what publish put into it, cell by  *)
(* cell in that order, nothing overwritten, lost or read twice: while the  *)
(* ring runs full and empties, its positions wrap, and each thread sees    *)
(* the other's position late (try_write and try_read).                     *)
SendRingIsFifo == out \o Queued = accepted
=============================================================================
