------------------------------- MODULE Exchange -------------------------------
(***************************************************************************)
(* What the exchange (router, engines and books) owes its clients.         *)
(***************************************************************************)
EXTENDS OrderRouter

Quiet == stack = << >>
Accepted == {id \in OrderId : id < nextId}
Terminal == {"Filled", "Cancelled", "Rejected"}

\* Types of the variables (exchange/types.hpp); for queue_pos see NoQueueJumping.
TypeOK ==
    /\ book \in [Symbols -> Book]
    /\ stops \in [Symbols -> SUBSET OrderId]
    /\ stack \in Seq(Frame)
    /\ traded \in [OrderId -> Nat]
    /\ reported \in [OrderId -> Status \cup {"None"}]
    /\ registered \in SUBSET Symbols
    /\ nextId \in 1..(MaxOrders + 1)
    /\ symbolOf \in [OrderId -> Symbols \cup {NoSymbol}]
    /\ sent \in [OrderId -> Order]

\* The price queues, order_side_ and orders_ of every book agree in every state
\* a callback can see: sweep_contra never finds a queued id without its order
\* (its pop_front branch is dead) and never matches for 0 shares, whatever
\* clients do from their callbacks.
BooksSound == \A s \in Symbols : Sound(book[s])

\* Resting limit orders never cross: match_limit rests a residual only once no
\* contra price within its limit is left, also when callbacks called in.
Uncrossed == \A s \in Symbols : LimitsUncrossed(book[s])

\* Time priority: the shares ahead of a resting order never exceed the
\* queue_pos it was given when it came to rest (order_book.cpp add).
NoQueueJumping ==
    \A s \in Symbols, id \in OrderId :
        Resting(book[s], id) =>
            SharesAhead(book[s], id) <= queuePos[id]

\* Between calls, the ledger of every order a book knows is the sum of the
\* fills its client saw: filled_qty is the "cumulative quantity filled so far".
LedgerAgrees ==
    Quiet => \A s \in Symbols : \A id \in book[s].keys :
                 book[s].orders[id].filled = traded[id]

\* A FOK order fills in full or is rejected without a fill.
FokAllOrNothing ==
    Quiet => \A id \in Accepted : sent[id].type = "FOK" =>
                IF reported[id] = "Rejected" THEN traded[id] = 0
                                             ELSE traded[id] = sent[id].qty

\* Between calls, an accepted market, limit or FOK order either rests or its
\* last report is the end of it, and says truly whether it was filled.
NoOrderVanishes ==
    Quiet => \A id \in Accepted : sent[id].type \notin {"IOC", "Stop"} =>
                \/ Resting(book[sent[id].sym], id)
                \/ /\ reported[id] \in Terminal
                   /\ reported[id] = "Filled" <=> traded[id] = sent[id].qty

\* A trade is within the limits of both its orders.
WithinLimits ==
    \A i \in DOMAIN stack : stack[i].pc \in {"rest", "reduce"} =>
        \A id \in {stack[i].o.id, stack[i].rest} \ {0} :
            sent[id].type \in {"Limit", "IOC", "FOK"} =>
                Crosses(sent[id].side, sent[id].limit, stack[i].px)

\* Once the client was told that an order is over, nothing more happens to it.
\* Stop orders apart: see StopsWaitForTrigger.
TerminalIsFinal ==
    [][\A id \in Accepted : (sent[id].type # "Stop" /\ reported[id] \in Terminal) =>
          reported'[id] = reported[id] /\ traded'[id] = traded[id]]_vars

\* A stop order does not trade while it waits on the watch list.
StopsWaitForTrigger ==
    \A id \in Accepted : sent[id].type = "Stop" /\ id \in stops[sent[id].sym] =>
        traded[id] = 0

\* How far the innermost call is: a tick activates its stops one by one; an
\* activation sweeps, then settles; a sweep's matches use up the aggressor.
Phase(f) == CASE f.pc \in {"trigger", "activate"}      -> 2
              [] f.pc \in {"sweep", "rest", "reduce"}  -> 1
              [] f.pc = "settled"                      -> 0
Match(f) == CASE f.pc = "rest" -> 2 [] f.pc = "reduce" -> 1 [] OTHER -> 0

Advanced(f, g) ==
    \/ g.todo \subseteq f.todo /\ g.todo # f.todo
    \/ /\ g.todo = f.todo
       /\ \/ Phase(g) < Phase(f)
          \/ /\ Phase(g) = Phase(f)
             /\ \/ Leaves(g.o) < Leaves(f.o)
                \/ Leaves(g.o) = Leaves(f.o) /\ Match(g) < Match(f)

\* No sweep loops in place (a match for 0 shares would): every step of an engine
\* returns from the innermost call or brings it nearer to its return.
StepsProgress ==
    [][EngineStep => \/ stack' = Return
                     \/ /\ Len(stack') = Len(stack)
                        /\ Advanced(Top, stack'[Len(stack)])]_vars

\* Every call into the exchange returns, whatever callbacks call in turn.
CallsReturn == stack # << >> ~> stack = << >>
=============================================================================
