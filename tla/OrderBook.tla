------------------------------ MODULE OrderBook ------------------------------
(***************************************************************************)
(* The order book of one symbol (exchange/order_book.hpp and .cpp): a      *)
(* value, and the operators that the book's methods are.  The engine and   *)
(* the router keep one such value per symbol in a variable.                *)
(*                                                                         *)
(* A book has four parts.                                                  *)
(*   level   the two price maps: side -> price -> FIFO queue of order ids. *)
(*           A price that is not a key of the map is an empty queue here.  *)
(*   tag     order_side_: the side of every order that rests in a queue,   *)
(*           "None" for an id that is not a key.                           *)
(*   keys    the keys of orders_.                                          *)
(*   orders  the nodes of orders_.  An erased node keeps its contents:     *)
(*           that is what a dangling Order* reads until the allocator      *)
(*           hands the node out again.                                     *)
(***************************************************************************)
EXTENDS Integers, Sequences, FiniteSets, SequencesExt

CONSTANTS Symbols,     \* the instruments a client may name
          Prices,      \* the positive prices that occur
          MaxQty,      \* the largest quantity of one order
          MaxOrders    \* how many order ids are handed out (a bound)

ASSUME BookAssumption ==
    /\ Symbols # {}
    /\ Prices \subseteq Nat \ {0}
    /\ MaxQty \in Nat \ {0}
    /\ MaxOrders \in Nat \ {0}

OrderId  == 1..MaxOrders
AnyId    == 0..MaxOrders          \* with kInvalidOrderId
AnyPrice == Prices \cup {0}       \* 0 is "no price"
Sides    == {"Buy", "Sell"}
Types    == {"Market", "Limit", "Stop", "IOC", "FOK"}
Tif      == {"GTC", "IOC", "FOK"} \* DAY is the caller's business: as GTC
Status   == {"New", "PartiallyFilled", "Filled", "Cancelled", "Rejected",
             "Triggered"}

Order == [id : AnyId, sym : Symbols, side : Sides, type : Types, tif : Tif,
          limit : AnyPrice, stop : AnyPrice, qty : Nat, filled : Nat,
          status : Status]

\* `Order o{}`: what a node that was never written holds.
NoOrder == [id |-> 0, sym |-> CHOOSE s \in Symbols : TRUE, side |-> "Buy",
            type |-> "Market", tif |-> "GTC", limit |-> 0, stop |-> 0,
            qty |-> 0, filled |-> 0, status |-> "New"]

Leaves(o) == o.qty - o.filled
Contra(side) == IF side = "Buy" THEN "Sell" ELSE "Buy"

Book == [level  : [Sides -> [Prices -> Seq(OrderId)]],
         tag    : [OrderId -> Sides \cup {"None"}],
         keys   : SUBSET OrderId,
         orders : [OrderId -> Order]]

EmptyBook == [level  |-> [s \in Sides |-> [p \in Prices |-> << >>]],
              tag    |-> [i \in OrderId |-> "None"],
              keys   |-> {},
              orders |-> [i \in OrderId |-> NoOrder]]

-----------------------------------------------------------------------------
(* Queries *)

Resting(b, id) == b.tag[id] # "None"
Occupied(b, side) == {p \in Prices : b.level[side][p] # << >>}

\* The leaves of the orders of a queue that orders_ still knows.
Depth(b, queue) ==
    FoldLeft(LAMBDA sum, id : IF id \in b.keys THEN sum + Leaves(b.orders[id])
                              ELSE sum,
             0, queue)

\* shares_ahead: the leaves in front of an order that rests.
SharesAhead(b, id) ==
    LET o     == b.orders[id]
        queue == b.level[o.side][o.limit]
        place == CHOOSE i \in DOMAIN queue : queue[i] = id
    IN  Depth(b, SubSeq(queue, 1, place - 1))

\* The comparators of the two maps: p comes strictly before r on this side.
Better(side, p, r) == IF side = "Buy" THEN p > r ELSE p < r

CrossesStrictly(side, limit, p) ==
    limit = 0 \/ (side = "Buy" /\ p < limit) \/ (side = "Sell" /\ p > limit)

\* May an order of this side and limit (0: none) trade at a contra price?
Crosses(side, limit, p) ==
    \/ limit = 0
    \/ side = "Buy"  /\ p <= limit
    \/ side = "Sell" /\ p >= limit

\* The contra prices a sweep may still reach.  The code looks at the best one
\* and stops where it does not cross: no worse one crosses then either.
Reachable(b, side, limit) ==
    {p \in Occupied(b, Contra(side)) : Crosses(side, limit, p)}

AvailableAtAnyPrice(b, side, limit, need) ==
    LET depth == MapThenSumSet(LAMBDA p : Depth(b, b.level[Contra(side)][p]),
                               Occupied(b, Contra(side)))
    IN  IF depth < need THEN depth ELSE need

\* sweep_contra with check_only: what is there to fill `need` shares.
Available(b, side, limit, need) ==
    LET depth == MapThenSumSet(LAMBDA p : Depth(b, b.level[Contra(side)][p]),
                               Reachable(b, side, limit))
    IN  IF depth < need THEN depth ELSE need

-----------------------------------------------------------------------------
(* Updates *)

\* BookSide::remove_order
Removed(level, side, p, id) == [level EXCEPT ![side][p] = RemoveFirst(@, id)]

AddAtFront(b, o) ==
    [level  |-> [b.level EXCEPT ![o.side][o.limit] = <<o.id>> \o @],
     tag    |-> [b.tag EXCEPT ![o.id] = o.side],
     keys   |-> b.keys \cup {o.id},
     orders |-> [b.orders EXCEPT ![o.id] = o]]

\* add: to the back of the queue at its price, as a copy.  The queue_pos it is
\* given is Ahead, before.
Ahead(b, o) == Depth(b, b.level[o.side][o.limit])

Add(b, o) ==
    [level  |-> [b.level EXCEPT ![o.side][o.limit] = Append(@, o.id)],
     tag    |-> [b.tag EXCEPT ![o.id] = o.side],
     keys   |-> b.keys \cup {o.id},
     orders |-> [b.orders EXCEPT ![o.id] = o]]

\* cancel refuses an id that is not tagged, or not a key.
CanCancel(b, id) == Resting(b, id) /\ id \in b.keys

Cancelled(b, id) ==
    LET o == b.orders[id]
    IN  [level  |-> Removed(b.level, b.tag[id], o.limit, id),
         tag    |-> [b.tag EXCEPT ![id] = "None"],
         keys   |-> b.keys \ {id},
         orders |-> [b.orders EXCEPT ![id].status = "Cancelled"]]

\* Mutants of Reduced: the fill of a match is forgotten on a full fill; a full
\* fill keeps its tag, or is noticed one share late.
ReducedTo(b, id, filled, full, tag) ==
    IF id \notin b.keys THEN b
    ELSE LET o == b.orders[id]
         IN [level  |-> IF full THEN Removed(b.level, o.side, o.limit, id) ELSE b.level,
             tag    |-> [b.tag EXCEPT ![id] = IF full THEN tag ELSE @],
             keys   |-> b.keys,
             orders |-> [b.orders EXCEPT ![id].filled = filled,
                  ![id].status = IF full THEN "Filled" ELSE "PartiallyFilled"]]
Clamp(o, executed) ==
    IF o.filled + executed < o.qty THEN o.filled + executed ELSE o.qty
ReducedForgetting(b, id, executed) ==
    LET o == b.orders[id]
        full == o.filled + executed >= o.qty
    IN  ReducedTo(b, id, IF full THEN o.filled ELSE o.filled + executed, full, "None")
ReducedKeepingTag(b, id, executed) ==
    LET o == b.orders[id]
    IN  ReducedTo(b, id, Clamp(o, executed), o.filled + executed >= o.qty, b.tag[id])
ReducedLate(b, id, executed) ==
    LET o == b.orders[id]
    IN  ReducedTo(b, id, Clamp(o, executed), o.filled + executed > o.qty, "None")

\* reduce_qty.  A full fill leaves the queue and loses its tag; its node stays
\* a key of orders_.
Reduced(b, id, executed) ==
    LET o      == b.orders[id]
        sum    == o.filled + executed
        filled == IF sum < o.qty THEN sum ELSE o.qty
        node(status) == [o EXCEPT !.filled = filled, !.status = status]
    IN  IF id \notin b.keys
          THEN b
        ELSE IF filled >= o.qty
          THEN [level  |-> Removed(b.level, o.side, o.limit, id),
                tag    |-> [b.tag EXCEPT ![id] = "None"],
                keys   |-> b.keys,
                orders |-> [b.orders EXCEPT ![id] = node("Filled")]]
        ELSE [b EXCEPT !.orders[id] = node("PartiallyFilled")]

\* An order with another status; a write through the Order* of a node.
Marked(o, status) == [o EXCEPT !.status = status]
Written(b, id, o) == [b EXCEPT !.orders[id] = o]

-----------------------------------------------------------------------------
(* What makes a book consistent *)

\* Whatever is queued rests under its own side and price, is a key, is tagged
\* and has shares left; nothing is queued twice at a level.
QueuedIsResting(b) ==
    \A s \in Sides, p \in Prices : \A i \in DOMAIN b.level[s][p] :
        LET id == b.level[s][p][i]
        IN  /\ id \in b.keys
            /\ b.tag[id] = s
            /\ b.orders[id].limit = p
            /\ b.orders[id].filled < b.orders[id].qty
            /\ \A j \in DOMAIN b.level[s][p] : b.level[s][p][j] = id => i = j

\* Whatever is tagged is queued at the level of its side and price.
RestingIsQueued(b) ==
    \A id \in OrderId : Resting(b, id) =>
        /\ id \in b.keys
        /\ b.orders[id].side = b.tag[id]
        /\ b.orders[id].limit \in Prices
        /\ \E i \in DOMAIN b.level[b.tag[id]][b.orders[id].limit] :
              b.level[b.tag[id]][b.orders[id].limit][i] = id

\* No order is filled beyond its quantity in the book's own ledger.
FilledWithinQty(b) == \A id \in b.keys : b.orders[id].filled <= b.orders[id].qty

Sound(b) == QueuedIsResting(b) /\ RestingIsQueued(b) /\ FilledWithinQty(b)

\* No resting limit bid at or above a resting limit ask.
LimitsUncrossed(b) ==
    \A i, j \in OrderId :
        (/\ b.tag[i] = "Buy"  /\ b.orders[i].type = "Limit"
         /\ b.tag[j] = "Sell" /\ b.orders[j].type = "Limit")
        => b.orders[i].limit < b.orders[j].limit
=============================================================================
