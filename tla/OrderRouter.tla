----------------------------- MODULE OrderRouter -----------------------------
(***************************************************************************)
(* The front door of the exchange (exchange/order_router.cpp): it hands    *)
(* out order ids, checks orders, and routes submissions, cancels and ticks *)
(* to the engine of their symbol.  Clients call it when no call is in      *)
(* progress and, up to MaxDepth calls deep, from inside a callback.        *)
(***************************************************************************)
EXTENDS MatchingEngine

CONSTANTS MaxDepth,    \* 1: callbacks never call back in (a bound)
          OrderTypes,  \* the order types that clients of this instance use
          Tifs,        \* and their times in force
          NoSymbol     \* an id that order_symbol_map_ does not have

ASSUME RouterAssumption ==
    /\ MaxDepth \in Nat \ {0}
    /\ OrderTypes \subseteq Types
    /\ Tifs \subseteq Tif
    /\ NoSymbol \notin Symbols

VARIABLES registered,  \* symbols_
          nextId,      \* next_order_id_
          symbolOf,    \* order_symbol_map_
          sent         \* order id -> the order as it was accepted

routerVars == <<registered, nextId, symbolOf, sent>>
vars == <<book, stops, queuePos, stack, traded, reported, registered, nextId, symbolOf, sent>>

-----------------------------------------------------------------------------
(* The orders that the submit_* overloads build, valid or not *)

MarketOrder(s, d, q) ==
    [NoOrder EXCEPT !.sym = s, !.side = d, !.type = "Market", !.qty = q]
LimitOrder(s, d, p, q, tif) ==
    [NoOrder EXCEPT !.sym = s, !.side = d, !.type = "Limit", !.tif = tif,
                    !.limit = p, !.qty = q]
StopOrder(s, d, p, q) ==
    [NoOrder EXCEPT !.sym = s, !.side = d, !.type = "Stop", !.stop = p, !.qty = q]
IocOrder(s, d, p, q) ==
    [NoOrder EXCEPT !.sym = s, !.side = d, !.type = "IOC", !.tif = "IOC",
                    !.limit = p, !.qty = q]
FokOrder(s, d, p, q) ==
    [NoOrder EXCEPT !.sym = s, !.side = d, !.type = "FOK", !.tif = "FOK",
                    !.limit = p, !.qty = q]

Requests ==
    LET Qty == 0..MaxQty
    IN  {o \in {MarketOrder(s, d, q) : s \in Symbols, d \in Sides, q \in Qty}
               \cup {LimitOrder(s, d, p, q, tif) : s \in Symbols, d \in Sides,
                        p \in AnyPrice, q \in Qty, tif \in Tifs}
               \cup {StopOrder(s, d, p, q) : s \in Symbols, d \in Sides,
                        p \in AnyPrice, q \in Qty}
               \cup {IocOrder(s, d, p, q) : s \in Symbols, d \in Sides,
                        p \in AnyPrice, q \in Qty}
               \cup {FokOrder(s, d, p, q) : s \in Symbols, d \in Sides,
                        p \in AnyPrice, q \in Qty} :
            o.type \in OrderTypes}

-----------------------------------------------------------------------------

Init ==
    /\ EngineInit
    /\ registered = {}
    /\ nextId     = 1
    /\ symbolOf   = [i \in OrderId |-> NoSymbol]
    /\ sent       = [i \in OrderId |-> NoOrder]

MayCall == InCallback /\ Len(stack) < MaxDepth

\* register_symbol throws for a symbol it has, and changes nothing.
RegisterSymbol(s) ==
    /\ MayCall
    /\ s \notin registered
    /\ registered' = registered \cup {s}
    /\ UNCHANGED <<book, stops, queuePos, stack, traded, reported, nextId, symbolOf, sent>>

ValidWithoutQty(o) ==
    /\ o.sym \in registered
    /\ o.type \in {"Limit", "IOC", "FOK"} => o.limit > 0
    /\ o.type = "Stop" => o.stop > 0

Valid(o) ==
    /\ o.qty # 0
    /\ o.sym \in registered
    /\ o.type \in {"Limit", "IOC", "FOK"} => o.limit > 0
    /\ o.type = "Stop" => o.stop > 0

\* A rejected order is reported under kInvalidOrderId.
SubmitInvalid ==
    /\ MayCall
    /\ {o \in Requests : ~Valid(o)} # {}
    /\ Report(0, "Rejected")
    /\ UNCHANGED <<book, stops, queuePos, stack, traded, registered, nextId, symbolOf, sent>>

Submit(request) ==
    /\ MayCall
    /\ Valid(request)
    /\ nextId <= MaxOrders
    /\ LET o == [request EXCEPT !.id = nextId, !.status = "New"]
       IN  /\ nextId'   = nextId + 1
           /\ symbolOf' = [symbolOf EXCEPT ![o.id] = o.sym]
           /\ sent'     = [sent EXCEPT ![o.id] = o]
           /\ Process(o)
    /\ UNCHANGED registered

\* The map keeps the ids of orders that are done, except by a cancel.
CancelOrder(id) ==
    /\ MayCall
    /\ symbolOf[id] # NoSymbol
    /\ CanCancel(book[symbolOf[id]], id)
    /\ book'     = [book EXCEPT ![symbolOf[id]] = Cancelled(@, id)]
    /\ symbolOf' = [symbolOf EXCEPT ![id] = NoSymbol]
    /\ Report(id, "Cancelled")
    /\ UNCHANGED <<stops, queuePos, stack, traded, registered, nextId, sent>>

\* A tick of a symbol that is not registered, or that triggers no stop, returns
\* having done nothing.
FeedTick(s, last) ==
    /\ MayCall
    /\ s \in registered
    /\ Tick(s, last)
    /\ UNCHANGED routerVars

ClientStep ==
    \/ \E s \in Symbols : RegisterSymbol(s)
    \/ SubmitInvalid
    \/ \E o \in Requests : Submit(o)
    \/ \E id \in OrderId : CancelOrder(id)
    \/ \E s \in Symbols, last \in TickPrices : FeedTick(s, last)

\* The engine goes on; the router waits for its call to return.
Continue(EngineAction) == EngineAction /\ UNCHANGED routerVars

Next ==
    \/ ClientStep
    \/ Continue(AggressorFill) \/ Continue(RestingFill) \/ Continue(ReduceResting)
    \/ Continue(FinishMarket)  \/ Continue(RestResidual)
    \/ Continue(FinishSilently) \/ Continue(FinishFok)
    \/ Continue(TriggerStop) \/ Continue(ActivateStop) \/ Continue(FinishTick)

\* A call that has started runs to its return: it is ordinary synchronous code
\* on the caller's thread.  Nobody has to call.
Fairness == WF_vars(Continue(EngineStep))

Spec == Init /\ [][Next]_vars /\ Fairness
=============================================================================
