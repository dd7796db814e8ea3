--------------------------- MODULE MatchingEngine ---------------------------
(***************************************************************************)
(* The matching engines (exchange/matching_engine.cpp), one per symbol,    *)
(* each over its own book.                                                 *)
(*                                                                         *)
(* Everything is synchronous: on_fill and on_report call the client in the *)
(* middle of a sweep, and a client may submit, cancel or feed a tick from  *)
(* its callback.  A step therefore ends wherever the code calls out, and   *)
(* `stack` is the C++ call stack: one frame per engine call in progress.   *)
(*                                                                         *)
(* A frame has the symbol, the operation `op` ("Tick", or the type of the  *)
(* order as submitted), where it stands (`pc`), the aggressor `o`, and for *)
(* the match in progress the resting id, price and quantity read before    *)
(* the callbacks.  A tick's frame also has the stops still to activate.    *)
(*   sweep    at the head of sweep_contra's loop                           *)
(*   rest     in the callbacks of the aggressor's fill                     *)
(*   reduce   in the callbacks of the resting fill, before reduce_qty      *)
(*   trigger  at the head of on_tick's activation loop                     *)
(*   activate in the callback of the Triggered report                      *)
(*   settled  in the callback of the last report on an activated stop      *)
(*                                                                         *)
(* `traded` and `reported` are what the callbacks told the client: the     *)
(* fill quantity and the last status of each order id.                     *)
(***************************************************************************)
EXTENDS OrderBook

CONSTANT Garbage       \* what a freed Order may read as once its node is reused

ASSUME GarbageAssumption == Garbage \subseteq Order

VARIABLES book,        \* symbol -> its OrderBook
          stops,       \* stop_orders_: symbol -> ids on the watch list
          queuePos,    \* order id -> queue_pos, as its book's add set it
          stack,       \* engine calls in progress, innermost last
          traded,      \* order id -> quantity of its fills seen by on_fill
          reported     \* order id -> status of its last report, or "None"

engineVars == <<book, stops, queuePos, stack, traded, reported>>

Ops == {"Market", "Limit", "IOC", "FOK", "Tick"}
Pcs == {"sweep", "rest", "reduce", "trigger", "activate", "settled"}

Frame == [sym : Symbols, op : Ops, pc : Pcs, o : Order, rest : AnyId,
          px : AnyPrice, qty : Nat, todo : SUBSET OrderId]

Top == stack[Len(stack)]
SetTop(f) == [stack EXCEPT ![Len(stack)] = f]
Return == SubSeq(stack, 1, Len(stack) - 1)

NewFrame(sym, op, pc, o, todo) ==
    [sym |-> sym, op |-> op, pc |-> pc, o |-> o, rest |-> 0, px |-> 0,
     qty |-> 0, todo |-> todo]
Call(sym, op, pc, o, todo) == Append(stack, NewFrame(sym, op, pc, o, todo))

\* Where a frame goes: to a point of the code, there with another order, into
\* a match, on with the next triggered stop.
At(f, pc) == [f EXCEPT !.pc = pc]
With(f, pc, o) == [f EXCEPT !.pc = pc, !.o = o]
Matched(f, o, rest, px, qty) ==
    [f EXCEPT !.pc = "rest", !.o = o, !.rest = rest, !.px = px, !.qty = qty]
AfterMatch(f) == [f EXCEPT !.pc = "sweep", !.rest = 0, !.px = 0, !.qty = 0]
Without(f, id) == [f EXCEPT !.todo = @ \ {id}]

\* Client code runs when no engine call is in progress, or inside a callback.
InCallback == stack # << >> => Top.pc \in {"rest", "reduce", "activate", "settled"}

\* Reports and fills under an id that is not an order's change nothing here.
Report(id, status) ==
    reported' = [i \in OrderId |-> IF i = id THEN status ELSE reported[i]]
FillEvent(id, qty) ==
    traded' = [i \in OrderId |-> IF i = id THEN traded[i] + qty ELSE traded[i]]

\* A read through a dangling Order*: the node as it was left, or what its
\* memory holds after reuse.
DanglingRead(o) == {o} \cup Garbage

EngineInit ==
    /\ book     = [s \in Symbols |-> EmptyBook]
    /\ stops    = [s \in Symbols |-> {}]
    /\ queuePos = [i \in OrderId |-> 0]
    /\ stack    = << >>
    /\ traded   = [i \in OrderId |-> 0]
    /\ reported = [i \in OrderId |-> "None"]

-----------------------------------------------------------------------------
(* process: what a submitted order starts *)

\* The book's add of a resting order.
QueueUp(o) ==
    /\ book'     = [book EXCEPT ![o.sym] = Add(@, o)]
    /\ queuePos' = [queuePos EXCEPT ![o.id] = Ahead(book[o.sym], o)]

\* A Stop is copied into the book with its stop price as limit price, put on
\* the watch list and reported.
RegisterStop(o) ==
    /\ QueueUp([o EXCEPT !.limit = o.stop])
    /\ stops' = [stops EXCEPT ![o.sym] = @ \cup {o.id}]
    /\ Report(o.id, o.status)
    /\ UNCHANGED <<stack, traded>>

\* A FOK that cannot fill in full is rejected before it trades.
RejectFok(o) ==
    /\ Available(book[o.sym], o.side, o.limit, Leaves(o)) < o.qty
    /\ Report(o.id, "Rejected")
    /\ UNCHANGED <<book, stops, queuePos, stack, traded>>

FokFillable(o) == ~(Available(book[o.sym], o.side, o.limit, Leaves(o)) < o.qty)

StartSweep(o) ==
    /\ stack' = Call(o.sym, o.type, "sweep", o, {})
    /\ UNCHANGED <<book, stops, queuePos, traded, reported>>

Process(o) ==
    \/ o.type = "Stop" /\ RegisterStop(o)
    \/ o.type = "FOK"  /\ RejectFok(o)
    \/ o.type = "FOK"  /\ FokFillable(o) /\ StartSweep(o)
    \/ o.type \in {"Market", "Limit", "IOC"} /\ StartSweep(o)

-----------------------------------------------------------------------------
(* sweep_contra and emit_fill *)

PriceLimitNotForIoc(f) == IF f.op \in {"Market", "Tick", "IOC"} THEN 0 ELSE f.o.limit
\* A market sweep has no price limit.
PriceLimit(f) == IF f.op \in {"Market", "Tick"} THEN 0 ELSE f.o.limit

Matchable(f) ==
    IF Leaves(f.o) > 0
    THEN Reachable(book[f.sym], f.o.side, PriceLimit(f))
    ELSE {}

\* emit_fill on the order that trades.
Traded(o, qty) ==
    [o EXCEPT !.filled = @ + qty,
              !.status = IF o.filled + qty >= o.qty THEN "Filled"
                         ELSE "PartiallyFilled"]

Running(pc) == stack # << >> /\ Top.pc = pc

\* The aggressor's half of a match: against the front order of the best level.
AggressorFill ==
    /\ Running("sweep")
    /\ LET f == Top
           b == book[f.sym]
           c == Contra(f.o.side)
       IN  \E p \in Matchable(f) :
             /\ \A r \in Matchable(f) : ~Better(c, r, p)
             /\ LET rest == Head(b.level[c][p])
                    room == Leaves(b.orders[rest])
                    qty  == IF Leaves(f.o) < room THEN Leaves(f.o) ELSE room
                    o    == Traded(f.o, qty)
                IN  /\ stack' = SetTop(Matched(f, o, rest, p, qty))
                    /\ FillEvent(o.id, qty)
                    /\ Report(o.id, o.status)
                    /\ UNCHANGED <<book, stops, queuePos>>

\* The resting half.  The callbacks of the first half may have changed the
\* resting order, and a cancel from there freed it.
RestingFill ==
    /\ Running("rest")
    /\ LET f == Top
           b == book[f.sym]
           node == b.orders[f.rest]
       IN  \E r \in IF f.rest \in b.keys THEN {node} ELSE DanglingRead(node) :
             LET status == Traded(r, f.qty).status
             IN  /\ book' = [book EXCEPT ![f.sym] =
                               Written(@, f.rest, Marked(node, status))]
                 /\ FillEvent(r.id, f.qty)
                 /\ Report(r.id, status)
                 /\ stack' = SetTop(At(f, "reduce"))
                 /\ UNCHANGED <<stops, queuePos>>

ReduceResting ==
    /\ Running("reduce")
    /\ book' = [book EXCEPT ![Top.sym] = Reduced(@, Top.rest, Top.qty)]
    /\ stack' = SetTop(AfterMatch(Top))
    /\ UNCHANGED <<stops, queuePos, traded, reported>>

-----------------------------------------------------------------------------
(* What follows a sweep, by operation *)

SweepOver == Running("sweep") /\ Matchable(Top) = {}

\* match_market: the residual is cancelled; always a report.
FinishMarket ==
    /\ SweepOver
    /\ Top.op \in {"Market", "Tick"}
    /\ Report(Top.o.id, IF Leaves(Top.o) > 0 THEN "Cancelled" ELSE Top.o.status)
    /\ stack' = IF Top.op = "Market" THEN Return
                ELSE SetTop(At(Top, "settled"))
    /\ UNCHANGED <<book, stops, queuePos, traded>>

RestResidualDropped ==
    /\ SweepOver
    /\ Top.op = "Limit"
    /\ Leaves(Top.o) > 0
    /\ Report(Top.o.id, Top.o.status)
    /\ stack' = Return
    /\ UNCHANGED <<book, stops, queuePos, traded>>

\* match_limit, resting: the residual goes to the book and is reported.
RestResidual ==
    /\ SweepOver
    /\ Top.op = "Limit"
    /\ Leaves(Top.o) > 0
    /\ QueueUp(Top.o)
    /\ Report(Top.o.id, Top.o.status)
    /\ stack' = Return
    /\ UNCHANGED <<stops, traded>>

\* A filled limit order, and an IOC filled or not (its residual is cancelled),
\* is done: no report beyond those of its fills.
FinishSilently ==
    /\ SweepOver
    /\ Top.op = "IOC" \/ (Top.op = "Limit" /\ Leaves(Top.o) = 0)
    /\ stack' = Return
    /\ UNCHANGED <<book, stops, queuePos, traded, reported>>

FinishFok ==
    /\ SweepOver
    /\ Top.op = "FOK"
    /\ Report(Top.o.id, Top.o.status)
    /\ stack' = Return
    /\ UNCHANGED <<book, stops, queuePos, traded>>

-----------------------------------------------------------------------------
(* on_tick *)

\* The watched stops that a price reaches.  One that was cancelled is gone from
\* orders_; one that was filled in the book is not.
Triggered(sym, last) ==
    {id \in stops[sym] :
        LET o == book[sym].orders[id]
        IN  /\ id \in book[sym].keys
            /\ IF o.side = "Buy" THEN last >= o.stop ELSE last <= o.stop}

\* The price of a tick: its last trade, or its bid where there is none.
TickPrices == {IF last > 0 THEN last ELSE bid : last, bid \in AnyPrice}

Tick(sym, last) ==
    /\ Triggered(sym, last) # {}
    /\ stack' = Call(sym, "Tick", "trigger", NoOrder, Triggered(sym, last))
    /\ UNCHANGED <<book, stops, queuePos, traded, reported>>

\* The watch list is in order of registration, and so of ids.
NextTriggered(f, id) == id \in f.todo /\ \A i \in f.todo : id <= i

AsMarket(o) == [o EXCEPT !.type = "Market", !.status = "Triggered"]

AtTrigger == Running("trigger") \/ Running("settled")

TriggerStop ==
    /\ AtTrigger
    /\ \E id \in Top.todo :
         LET s == Top.sym
             o == AsMarket(book[s].orders[id])
             f == Without(Top, id)
         IN  /\ NextTriggered(Top, id)
             /\ stops' = [stops EXCEPT ![s] = @ \ {id}]
             /\ IF id \in book[s].keys
                THEN /\ book'  = [book EXCEPT ![s] = Written(@, id, o)]
                     /\ stack' = SetTop(With(f, "activate", o))
                     /\ Report(id, "Triggered")
                ELSE /\ stack' = SetTop(At(f, "trigger"))
                     /\ UNCHANGED <<book, reported>>
             /\ UNCHANGED <<queuePos, traded>>

\* Out of the book, then into a market sweep through the Order* found before.
\* A resting stop is erased by the cancel here, or was by one in the callback:
\* the sweep then works on freed memory.  A stop that the book had filled has
\* no tag, so the cancel refuses and the order is still a node.
ActivateStop ==
    /\ Running("activate")
    /\ LET f  == Top
           s  == f.sym
           id == f.o.id
           b  == IF CanCancel(book[s], id) THEN Cancelled(book[s], id) ELSE book[s]
           o  == Marked(b.orders[id], "New")
       IN  /\ book' = [book EXCEPT ![s] = Written(b, id, o)]
           /\ \E r \in IF id \in b.keys THEN {o} ELSE DanglingRead(o) :
                stack' = SetTop(With(f, "sweep", r))
           /\ UNCHANGED <<stops, queuePos, traded, reported>>

FinishTick ==
    /\ AtTrigger
    /\ Top.todo = {}
    /\ stack' = Return
    /\ UNCHANGED <<book, stops, queuePos, traded, reported>>

-----------------------------------------------------------------------------

EngineStep ==
    \/ AggressorFill \/ RestingFill \/ ReduceResting
    \/ FinishMarket \/ RestResidual \/ FinishSilently \/ FinishFok
    \/ TriggerStop \/ ActivateStop \/ FinishTick
=============================================================================
