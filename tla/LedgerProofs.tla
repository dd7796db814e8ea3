---------------------------- MODULE LedgerProofs ----------------------------
(***************************************************************************)
(* Theorems about what clients of the exchange are owed.  First the terms: *)
(* an order trades within the limit it was sent with, however deep calls   *)
(* from callbacks go.  Then the ledger: what books, reports and fills say  *)
(* of an order agrees, where callbacks do not call back in.                *)
(*                                                                         *)
(* Neither is inductive as Exchange states it.  TermsInv relates the       *)
(* orders in books and calls to the orders as sent; LedgerInv says, for    *)
(* every order, what its book, the call that works on it and its client    *)
(* know of its fills, also in the middle of a match, and counts for a FOK  *)
(* sweep what the book still has for it.                                   *)
(***************************************************************************)
EXTENDS ExchangeProofs

\* A hypothesis on the environment: what a freed node reads as does not pass for
\* an order that was accepted (README, What is assumed).
CleanGarbage == \A o \in Garbage : o.id = 0

\* Every node of orders_ keeps its id, side, limit and quantity; none is added.
TermsKept(b, c) ==
    /\ c.keys \subseteq b.keys
    /\ \A id \in OrderId :
          /\ c.orders[id].id    = b.orders[id].id
          /\ c.orders[id].side  = b.orders[id].side
          /\ c.orders[id].limit = b.orders[id].limit
          /\ c.orders[id].qty   = b.orders[id].qty

\* The orders that a book knows are on the terms they were sent with.
BookTerms(s) ==
    /\ \A id \in OrderId : book[s].orders[id].id \in {0, id}
    /\ \A id \in book[s].keys :
          /\ sent[id].sym = s
          /\ sent[id].side = book[s].orders[id].side
          /\ sent[id].qty = book[s].orders[id].qty
          /\ sent[id].type \in {"Limit", "Stop"}
          /\ sent[id].type = "Limit" => sent[id].limit = book[s].orders[id].limit
    /\ \A id \in stops[s] : id < nextId /\ sent[id].type = "Stop"

\* The aggressor of a call is on the terms it was sent with.
OrderTerms(f) ==
    /\ f.o.id \in OrderId
    /\ f.o.id < nextId
    /\ sent[f.o.id].type = f.op
    /\ sent[f.o.id].side = f.o.side
    /\ sent[f.o.id].limit = f.o.limit
    /\ sent[f.o.id].qty = f.o.qty
    /\ sent[f.o.id].sym = f.sym

\* A tick is about stops.
TickTerms(f) == \A id \in f.todo \cup ({f.o.id} \ {0}) : id < nextId /\ sent[id].type = "Stop"

\* A match is at a price that both its orders allow.
MatchTerms(f) ==
    /\ Crosses(f.o.side, PriceLimit(f), f.px)
    /\ f.rest < nextId
    /\ sent[f.rest].type \in {"Limit", "Stop"}
    /\ sent[f.rest].type = "Limit" => sent[f.rest].limit = f.px

FrameTerms(f) ==
    /\ f.op # "Tick" => OrderTerms(f)
    /\ f.op = "Tick" => TickTerms(f)
    /\ f.pc \in {"rest", "reduce"} => MatchTerms(f)

BooksTerms == \A s \in Symbols : BookTerms(s)

TermsInv == BooksTerms /\ \A f \in FramesOf(stack) : FrameTerms(f)

-----------------------------------------------------------------------------
(* Updates of a book keep its terms *)

\* An update of nothing keeps the terms.
LEMMA TermsKeptRefl == ASSUME NEW b PROVE TermsKept(b, b)
BY DEF TermsKept

\* So do two updates in turn.
LEMMA TermsKeptTrans ==
    ASSUME NEW b, NEW c, NEW d, TermsKept(b, c), TermsKept(c, d)
    PROVE  TermsKept(b, d)
BY DEF TermsKept

\* So does a write through an Order* that leaves them alone.
LEMMA WrittenTerms ==
    ASSUME NEW b \in Book, NEW id \in OrderId, NEW n,
           n.id = b.orders[id].id, n.side = b.orders[id].side,
           n.limit = b.orders[id].limit, n.qty = b.orders[id].qty
    PROVE  TermsKept(b, Written(b, id, n))
BY DEF TermsKept, Written, Book

\* So does a cancel.
LEMMA CancelledTerms ==
    ASSUME NEW b \in Book, NEW id \in OrderId
    PROVE  TermsKept(b, Cancelled(b, id))
<1> DEFINE n == [b.orders[id] EXCEPT !.status = "Cancelled"]
<1>1. /\ n.id = b.orders[id].id /\ n.side = b.orders[id].side
      /\ n.limit = b.orders[id].limit /\ n.qty = b.orders[id].qty
  BY DEF Book, Order
<1>2. /\ Cancelled(b, id).keys = b.keys \ {id}
      /\ Cancelled(b, id).orders = [b.orders EXCEPT ![id] = n]
  BY DEF Cancelled
<1>3. b.orders \in [OrderId -> Order]
  BY DEF Book
<1> HIDE DEF n
<1> QED
  BY <1>1, <1>2, <1>3 DEF TermsKept

\* So does reduce_qty.
LEMMA ReducedTerms ==
    ASSUME NEW b \in Book, NEW id \in OrderId, NEW executed
    PROVE  TermsKept(b, Reduced(b, id, executed))
<1> DEFINE o == b.orders[id]
           sum == o.filled + executed
           filled == IF sum < o.qty THEN sum ELSE o.qty
           node(status) == [o EXCEPT !.filled = filled, !.status = status]
           c == Reduced(b, id, executed)
<1>1. b.orders \in [OrderId -> Order] /\ o \in Order
  BY DEF Book
<1>2. \A status : /\ node(status).id = o.id /\ node(status).side = o.side
                  /\ node(status).limit = o.limit /\ node(status).qty = o.qty
  BY <1>1 DEF Order
<1>3. c.keys = b.keys /\ \/ c.orders = b.orders
                         \/ c.orders = [b.orders EXCEPT ![id] = node("Filled")]
                         \/ c.orders = [b.orders EXCEPT ![id] = node("PartiallyFilled")]
  BY DEF Reduced, Book
<1> HIDE DEF node, c
<1> QED
  BY <1>1, <1>2, <1>3 DEF TermsKept, c

-----------------------------------------------------------------------------
(* Steps keep the terms *)

\* Between two states the ids handed out keep the orders they were sent with.
SentKept == nextId <= nextId' /\ \A id \in OrderId : id < nextId => sent'[id] = sent[id]

\* What the router leaves alone keeps what was sent.
LEMMA SentSame == ASSUME IInv, UNCHANGED routerVars PROVE SentKept
BY NextIdType DEF SentKept, IInv, routerVars

\* A call in progress keeps its terms.
LEMMA FrameTermsKept ==
    ASSUME IInv, IInv', SentKept, NEW f \in Frame, FrameOK(f), FrameTerms(f)
    PROVE  FrameTerms(f)'
<1>1. nextId \in Nat /\ nextId' \in Nat /\ nextId <= nextId' /\ OrderId \subseteq Nat
  BY BookAssumption DEF IInv, SentKept, OrderId, TypeOK
<1>2. \A id \in OrderId : id < nextId => id < nextId' /\ sent'[id] = sent[id]
  <2>1. \A id \in OrderId : id < nextId => id < nextId'
    BY <1>1
  <2> QED
    BY <2>1 DEF SentKept
<1>3. f.todo \cup ({f.o.id} \ {0}) \subseteq OrderId
  BY DEF Frame, Order, AnyId, OrderId
<1>4. (f.op # "Tick" => OrderTerms(f)) => (f.op # "Tick" => OrderTerms(f)')
  BY <1>2 DEF OrderTerms
<1>5. TickTerms(f) => TickTerms(f)'
  BY <1>2, <1>3 DEF TickTerms
<1>6. f.pc \in {"rest", "reduce"} /\ MatchTerms(f) => MatchTerms(f)'
  BY <1>2 DEF MatchTerms, FrameOK, PriceLimit
<1> QED
  BY <1>4, <1>5, <1>6 DEF FrameTerms

\* The terms are kept in a step that keeps those of the books and of new frames.
LEMMA TermsStep ==
    ASSUME IInv, IInv', TermsInv, SentKept, BooksTerms',
           \A f \in FramesOf(stack') : f \in FramesOf(stack) \/ FrameTerms(f)'
    PROVE  TermsInv'
<1>1. ASSUME NEW f \in FramesOf(stack) PROVE FrameTerms(f)'
  <2>1. f \in Frame /\ FrameOK(f) /\ FrameTerms(f)
    BY DEF IInv, TypeOK, StackInv, FramesOf, TermsInv
  <2> QED
    BY <2>1, FrameTermsKept
<1> QED
  BY <1>1 DEF TermsInv

\* The books keep their terms where updates keep them and watch lists only shrink.
LEMMA BooksTermsKept ==
    ASSUME IInv, TermsInv, SentKept, nextId' \in Nat,
           \A s \in Symbols : TermsKept(book[s], book'[s]) /\ stops'[s] \subseteq stops[s]
    PROVE  BooksTerms'
<1> SUFFICES ASSUME NEW s \in Symbols PROVE BookTerms(s)'
  BY DEF BooksTerms
<1>1. BookTerms(s) /\ TermsKept(book[s], book'[s]) /\ stops'[s] \subseteq stops[s]
  BY DEF TermsInv, BooksTerms
<1>2. nextId \in Nat /\ OrderId \subseteq Nat
  BY NextIdType, BookAssumption DEF IInv, OrderId
<1>3. /\ book[s].keys \subseteq OrderId /\ stops[s] \subseteq OrderId
      /\ \A id \in book[s].keys : id < nextId
  BY DEF IInv, BooksInv, BookOK, Book, TypeOK
<1>4. \A id \in OrderId : id < nextId => id < nextId' /\ sent'[id] = sent[id]
  BY <1>2 DEF SentKept
<1>5. \A id \in OrderId : book'[s].orders[id].id \in {0, id}
  BY <1>1 DEF BookTerms, TermsKept
<1>6. ASSUME NEW id \in book'[s].keys
      PROVE  /\ sent'[id].sym = s
             /\ sent'[id].side = book'[s].orders[id].side
             /\ sent'[id].qty = book'[s].orders[id].qty
             /\ sent'[id].type \in {"Limit", "Stop"}
             /\ sent'[id].type = "Limit" => sent'[id].limit = book'[s].orders[id].limit
  <2>1. id \in book[s].keys /\ id \in OrderId /\ sent'[id] = sent[id]
    BY <1>1, <1>3, <1>4 DEF TermsKept
  <2> QED
    BY <1>1, <2>1 DEF BookTerms, TermsKept
<1>7. \A id \in stops'[s] : id < nextId' /\ sent'[id].type = "Stop"
  BY <1>1, <1>3, <1>4 DEF BookTerms
<1> QED
  BY <1>5, <1>6, <1>7 DEF BookTerms

\* As above, where one book is replaced.
LEMMA OneBookTerms ==
    ASSUME IInv, IInv', TermsInv, SentKept, NEW s \in Symbols, NEW c, TermsKept(book[s], c),
           book' = [book EXCEPT ![s] = c], \A t \in Symbols : stops'[t] \subseteq stops[t]
    PROVE  BooksTerms'
<1>1. \A t \in Symbols : book'[t] = IF t = s THEN c ELSE book[t]
  BY DEF IInv, TypeOK
<1>2. \A t \in Symbols : TermsKept(book[t], book'[t])
  BY <1>1, TermsKeptRefl
<1>3. nextId' \in Nat
  BY BookAssumption DEF IInv, TypeOK
<1> QED
  BY <1>2, <1>3, BooksTermsKept

\* As above, where no book changes.
LEMMA SameBooksTerms ==
    ASSUME IInv, IInv', TermsInv, SentKept, book' = book,
           \A t \in Symbols : stops'[t] \subseteq stops[t]
    PROVE  BooksTerms'
<1>1. nextId' \in Nat
  BY BookAssumption DEF IInv, TypeOK
<1> QED
  BY <1>1, TermsKeptRefl, BooksTermsKept

\* The frames after the innermost call moves on.
LEMMA TopFrames ==
    ASSUME TypeOK, stack # << >>, NEW g, g \in Frame, stack' = SetTop(g)
    PROVE  FramesOf(stack') \subseteq FramesOf(stack) \cup {g}
BY SetTopType, TopType DEF FramesOf

\* The frames that are left by a return.
LEMMA ReturnFrames ==
    ASSUME TypeOK, stack # << >>, stack' = Return
    PROVE  FramesOf(stack') \subseteq FramesOf(stack)
<1>1. /\ Len(stack') = Len(stack) - 1 /\ Len(stack) \in Nat
      /\ \A i \in 1..Len(stack') : stack'[i] = stack[i]
  BY ReturnType, TopType
<1> QED
  BY <1>1 DEF FramesOf

\* The frames of a new call.
LEMMA CallFrames ==
    ASSUME TypeOK, NEW g \in Frame, stack' = Append(stack, g)
    PROVE  FramesOf(stack') \subseteq FramesOf(stack) \cup {g}
BY AppendProperties DEF TypeOK, FramesOf

\* What the terms say of the innermost call.
LEMMA TopTerms ==
    ASSUME IInv, TermsInv, stack # << >>
    PROVE  FrameTerms(Top) /\ Top \in FramesOf(stack) /\ BookTerms(Top.sym)
<1>1. Top \in Frame /\ Len(stack) \in Nat \ {0}
  BY TopType DEF IInv
<1>2. Top \in FramesOf(stack)
  BY <1>1 DEF Top, FramesOf
<1> QED
  BY <1>1, <1>2, TopOK DEF TermsInv, BooksTerms

-----------------------------------------------------------------------------
(* The engine's steps keep the terms *)

\* A step after which every book keeps its terms, in which the innermost call moves on.
LEMMA TermsSetTop ==
    ASSUME IInv, IInv', TermsInv, UNCHANGED routerVars, BooksTerms', stack # << >>,
           NEW g \in Frame, stack' = SetTop(g), FrameTerms(g)
    PROVE  TermsInv'
<1>1. SentKept
  BY SentSame
<1>2. \A f \in FramesOf(stack') : f \in FramesOf(stack) \/ f = g
  BY TopFrames DEF IInv
<1>3. FrameTerms(g)'
  <2>1. nextId' = nextId /\ sent' = sent
    BY DEF routerVars
  <2> QED
    BY <2>1 DEF FrameTerms, OrderTerms, TickTerms, MatchTerms
<1> QED
  BY <1>1, <1>2, <1>3, TermsStep

\* As above, where it returns.
LEMMA TermsReturn ==
    ASSUME IInv, IInv', TermsInv, UNCHANGED routerVars, BooksTerms', stack # << >>,
           stack' = Return
    PROVE  TermsInv'
<1>1. SentKept
  BY SentSame
<1>2. \A f \in FramesOf(stack') : f \in FramesOf(stack)
  BY ReturnFrames DEF IInv
<1> QED
  BY <1>1, <1>2, TermsStep

\* The front of a level: an order that the book knows, at that price.
LEMMA FrontTerms ==
    ASSUME IInv, TermsInv, NEW s \in Symbols, NEW side \in Sides, NEW p \in Occupied(book[s], side)
    PROVE  LET rest == Head(book[s].level[side][p])
           IN  /\ rest \in book[s].keys /\ rest \in OrderId /\ rest < nextId
               /\ Resting(book[s], rest)
               /\ book[s].orders[rest].limit = p
               /\ sent[rest].type \in {"Limit", "Stop"}
               /\ sent[rest].type = "Limit" => sent[rest].limit = p
<1> DEFINE b == book[s]
           q == b.level[side][p]
           rest == Head(q)
<1>1. BookOK(b) /\ BookTerms(s) /\ b \in Book
  BY DEF IInv, BooksInv, BookOK, TermsInv, BooksTerms
<1>2. p \in Prices /\ q \in Seq(OrderId) /\ q # << >>
  BY <1>1 DEF Occupied, Book
<1>3. 1 \in DOMAIN q /\ rest = q[1]
  BY <1>2
<1>4. /\ rest \in b.keys /\ b.tag[rest] = side /\ b.orders[rest].limit = p
  <2>1. Queued(Queue(b, side, p), rest)
    BY <1>3 DEF Queued, Queue
  <2> QED
    BY <1>1, <1>2, <2>1, SoundByQueues DEF BookOK, QueuesSound
<1>5. rest \in OrderId /\ rest < nextId
  BY <1>1, <1>4 DEF Book, IInv, BooksInv
<1>6. Resting(b, rest)
  BY <1>4 DEF Resting, Sides
<1> QED
  BY <1>1, <1>4, <1>5, <1>6 DEF BookTerms

\* The aggressor's half of a match keeps the terms: the price suits both.
LEMMA AggressorFillTerms ==
    ASSUME IInv, IInv', TermsInv, Continue(AggressorFill)
    PROVE  TermsInv'
<1> DEFINE f == Top
           b == book[f.sym]
           c == Contra(f.o.side)
           rest(p) == Head(b.level[c][p])
           room(p) == Leaves(b.orders[rest(p)])
           qty(p)  == IF Leaves(f.o) < room(p) THEN Leaves(f.o) ELSE room(p)
<1>1. /\ Running("sweep") /\ UNCHANGED <<book, stops, queuePos>> /\ UNCHANGED routerVars
      /\ \E p \in Matchable(f) :
            stack' = SetTop(Matched(f, Traded(f.o, qty(p)), rest(p), p, qty(p)))
  BY DEF Continue, AggressorFill
<1>2. stack # << >> /\ f.pc = "sweep"
  BY <1>1 DEF Running
<1>3. f \in Frame /\ f.o \in Order /\ f.sym \in Symbols /\ FrameTerms(f)
  BY <1>2, TopOK, TopTerms
<1>4. PICK p \in Matchable(f) :
          stack' = SetTop(Matched(f, Traded(f.o, qty(p)), rest(p), p, qty(p)))
  BY <1>1
<1>5. /\ p \in Occupied(b, c) /\ Crosses(f.o.side, PriceLimit(f), p) /\ c \in Sides
  BY <1>4 DEF Matchable, Reachable, Contra, Sides
<1>6. PICK r \in OrderId : r = rest(p)
  BY <1>3, <1>5, FrontTerms
<1>14. r < nextId
  BY <1>3, <1>5, <1>6, FrontTerms
<1>15. sent[r].type \in {"Limit", "Stop"} /\ (sent[r].type = "Limit" => sent[r].limit = p)
  BY <1>3, <1>5, <1>6, FrontTerms
<1>7. p \in Prices /\ room(p) \in Int /\ Leaves(f.o) \in Int /\ Leaves(f.o) > 0 /\ room(p) > 0
  BY <1>2, <1>3, <1>4, MatchableFront, OrderNumbers
<1> HIDE DEF room
<1>8. PICK q \in Nat : q = qty(p)
  BY <1>7
<1> HIDE DEF rest, qty
<1>9. PICK o \in Order : /\ o = Traded(f.o, q) /\ o.id = f.o.id /\ o.side = f.o.side
                         /\ o.limit = f.o.limit /\ o.qty = f.o.qty
  BY <1>3, TradedOK
<1>10. PICK g \in Frame : /\ g = Matched(f, o, r, p, q)
                          /\ g.o = o /\ g.rest = r /\ g.px = p
                          /\ g.op = f.op /\ g.sym = f.sym /\ g.todo = f.todo
  BY <1>3, <1>7, MatchedOK
<1>11. stack' = SetTop(g)
  <2>1. Matched(f, Traded(f.o, qty(p)), rest(p), p, qty(p)) = Matched(f, o, r, p, q)
    BY <1>6, <1>8, <1>9
  <2> QED
    BY <1>4, <1>10, <2>1
<1>12. FrameTerms(g)
  <2>1. g.op # "Tick" => OrderTerms(g)
    BY <1>3, <1>9, <1>10 DEF FrameTerms, OrderTerms
  <2>2. g.op = "Tick" => TickTerms(g)
    BY <1>3, <1>9, <1>10 DEF FrameTerms, TickTerms
  <2>3. MatchTerms(g)
    <3>1. PriceLimit(g) = PriceLimit(f)
      BY <1>9, <1>10 DEF PriceLimit
    <3>2. Crosses(g.o.side, PriceLimit(g), g.px)
      BY <1>5, <1>9, <1>10, <3>1
    <3> QED
      BY <1>10, <1>14, <1>15, <3>2 DEF MatchTerms
  <2> QED
    BY <2>1, <2>2, <2>3 DEF FrameTerms
<1>13. BooksTerms'
  BY <1>1, SentSame, SameBooksTerms
<1> QED
  BY <1>1, <1>2, <1>11, <1>12, <1>13, TermsSetTop

\* The resting half of a match keeps the terms.
LEMMA RestingFillTerms ==
    ASSUME IInv, IInv', TermsInv, Continue(RestingFill)
    PROVE  TermsInv'
<1> DEFINE f == Top
           b == book[f.sym]
           node == b.orders[f.rest]
<1>1. /\ Running("rest") /\ UNCHANGED <<stops, queuePos>> /\ UNCHANGED routerVars
      /\ stack' = SetTop(At(f, "reduce"))
      /\ \E r \in IF f.rest \in b.keys THEN {node} ELSE DanglingRead(node) :
            book' = [book EXCEPT ![f.sym] =
                        Written(@, f.rest, Marked(node, Traded(r, f.qty).status))]
  BY DEF Continue, RestingFill
<1>2. stack # << >> /\ f.pc = "rest"
  BY <1>1 DEF Running
<1>3. f \in Frame /\ f.o \in Order /\ f.sym \in Symbols /\ FrameTerms(f) /\ FrameOK(f) /\ BookOK(b)
  BY <1>2, TopOK, TopTerms
<1>4. f.rest \in OrderId /\ b \in Book /\ node \in Order
  BY <1>2, <1>3 DEF FrameOK, BookOK, Book
<1>5. PICK status : book' = [book EXCEPT ![f.sym] = Written(b, f.rest, Marked(node, status))]
  BY <1>1
<1> DEFINE n == Marked(node, status)
<1>6. n.id = node.id /\ n.side = node.side /\ n.limit = node.limit /\ n.qty = node.qty
  BY <1>4 DEF Marked, Order
<1> HIDE DEF n
<1>7. TermsKept(b, Written(b, f.rest, n))
  BY <1>4, <1>6, WrittenTerms
<1>8. BooksTerms'
  BY <1>1, <1>3, <1>5, <1>7, SentSame, OneBookTerms DEF n
<1>9. PICK g \in Frame : /\ g = At(f, "reduce")
                         /\ g.o = f.o /\ g.rest = f.rest /\ g.px = f.px
                         /\ g.op = f.op /\ g.sym = f.sym /\ g.todo = f.todo
  BY <1>3, AtOK DEF Pcs
<1>10. FrameTerms(g)
  <2>1. PriceLimit(g) = PriceLimit(f)
    BY <1>9 DEF PriceLimit
  <2> QED
    BY <1>2, <1>3, <1>9, <2>1 DEF FrameTerms, OrderTerms, TickTerms, MatchTerms
<1> QED
  BY <1>1, <1>2, <1>8, <1>9, <1>10, TermsSetTop

\* reduce_qty keeps the terms.
LEMMA ReduceRestingTerms ==
    ASSUME IInv, IInv', TermsInv, Continue(ReduceResting)
    PROVE  TermsInv'
<1> DEFINE f == Top
           b == book[f.sym]
<1>1. /\ Running("reduce") /\ UNCHANGED <<stops, queuePos, traded, reported>>
      /\ UNCHANGED routerVars
      /\ stack' = SetTop(AfterMatch(f))
      /\ book' = [book EXCEPT ![f.sym] = Reduced(b, f.rest, f.qty)]
  BY DEF Continue, ReduceResting
<1>2. stack # << >> /\ f.pc = "reduce"
  BY <1>1 DEF Running
<1>3. f \in Frame /\ f.sym \in Symbols /\ FrameTerms(f) /\ FrameOK(f) /\ BookOK(b)
  BY <1>2, TopOK, TopTerms
<1>4. TermsKept(b, Reduced(b, f.rest, f.qty))
  BY <1>2, <1>3, ReducedTerms DEF FrameOK, BookOK
<1>5. BooksTerms'
  BY <1>1, <1>3, <1>4, SentSame, OneBookTerms
<1>6. PICK g \in Frame : /\ g = AfterMatch(f) /\ g.pc = "sweep" /\ g.o = f.o
                         /\ g.op = f.op /\ g.sym = f.sym /\ g.todo = f.todo
  BY <1>3, AfterMatchOK
<1>7. FrameTerms(g)
  BY <1>3, <1>6 DEF FrameTerms, OrderTerms, TickTerms
<1> QED
  BY <1>1, <1>2, <1>5, <1>6, <1>7, TermsSetTop

\* So do the ends of a sweep that leave the books alone.
LEMMA FinishTerms ==
    ASSUME IInv, IInv', TermsInv,
           \/ Continue(FinishMarket) \/ Continue(FinishSilently)
           \/ Continue(FinishFok) \/ Continue(FinishTick)
    PROVE  TermsInv'
<1> DEFINE f == Top
<1>1. /\ UNCHANGED <<book, stops>> /\ UNCHANGED routerVars /\ stack # << >>
      /\ \/ stack' = Return
         \/ stack' = SetTop(At(f, "settled"))
  BY DEF Continue, FinishMarket, FinishSilently, FinishFok, FinishTick, SweepOver, AtTrigger, Running
<1>2. BooksTerms'
  BY <1>1, SentSame, SameBooksTerms
<1>3. CASE stack' = Return
  BY <1>1, <1>2, <1>3, TermsReturn
<1>4. CASE stack' = SetTop(At(f, "settled"))
  <2>1. f \in Frame /\ FrameTerms(f)
    BY <1>1, TopOK, TopTerms
  <2>2. PICK g \in Frame : /\ g = At(f, "settled") /\ g.pc = "settled" /\ g.o = f.o
                           /\ g.op = f.op /\ g.sym = f.sym /\ g.todo = f.todo
    BY <2>1, AtOK DEF Pcs
  <2>3. FrameTerms(g)
    BY <2>1, <2>2 DEF FrameTerms, OrderTerms, TickTerms
  <2> QED
    BY <1>1, <1>2, <1>4, <2>2, <2>3, TermsSetTop
<1> QED
  BY <1>1, <1>3, <1>4

\* Taking a stop off the watch list keeps the terms.
LEMMA TriggerStopTerms ==
    ASSUME IInv, IInv', TermsInv, Continue(TriggerStop)
    PROVE  TermsInv'
<1> DEFINE f == Top
           b == book[f.sym]
<1>1. PICK id \in f.todo :
          /\ stops' = [stops EXCEPT ![f.sym] = @ \ {id}]
          /\ IF id \in b.keys
             THEN /\ book'  = [book EXCEPT ![f.sym] = Written(@, id, AsMarket(b.orders[id]))]
                  /\ stack' = SetTop(With(Without(f, id), "activate", AsMarket(b.orders[id])))
             ELSE /\ stack' = SetTop(At(Without(f, id), "trigger"))
                  /\ UNCHANGED book
  BY DEF Continue, TriggerStop
<1>2. AtTrigger /\ UNCHANGED routerVars
  BY DEF Continue, TriggerStop
<1>3. stack # << >> /\ f.pc \in {"trigger", "settled"}
  BY <1>2 DEF AtTrigger, Running
<1>4. f \in Frame /\ FrameOK(f) /\ f.sym \in Symbols /\ BookOK(b) /\ FrameTerms(f)
  BY <1>3, TopOK, TopTerms
<1>5. id \in OrderId /\ f.op = "Tick" /\ b \in Book
  BY <1>3, <1>4 DEF FrameOK, Frame, BookOK
<1>6. TickTerms(f)
  BY <1>4, <1>5 DEF FrameTerms
<1>7. \A t \in Symbols : stops'[t] \subseteq stops[t]
  BY <1>1, <1>4 DEF IInv, TypeOK
<1>8. PICK h \in Frame : h = Without(f, id) /\ h.op = f.op /\ h.sym = f.sym /\ h.todo = f.todo \ {id}
                            /\ h.pc = f.pc /\ h.o = f.o
  BY <1>4, WithoutOK
<1>9. CASE id \in b.keys
  <2>1. b.orders[id] \in Order /\ b.orders[id].id = id
    BY <1>4, <1>5, <1>9 DEF BookOK, Book, KeysSound
  <2>2. PICK o \in Order : /\ o = AsMarket(b.orders[id]) /\ o.id = b.orders[id].id
                           /\ o.side = b.orders[id].side /\ o.limit = b.orders[id].limit
                           /\ o.qty = b.orders[id].qty
    BY <2>1, AsMarketOK
  <2>3. /\ book'  = [book EXCEPT ![f.sym] = Written(b, id, o)]
        /\ stack' = SetTop(With(h, "activate", o))
    BY <1>1, <1>8, <1>9, <2>2
  <2>4. TermsKept(b, Written(b, id, o))
    BY <1>5, <2>2, WrittenTerms
  <2>5. BooksTerms'
    BY <1>2, <1>4, <1>7, <2>3, <2>4, SentSame, OneBookTerms
  <2>6. PICK g \in Frame : g = With(h, "activate", o) /\ g.pc = "activate" /\ g.o = o
                              /\ g.op = h.op /\ g.todo = h.todo
    <3>1. "activate" \in Pcs
      BY DEF Pcs
    <3> QED
      BY <3>1, WithOK
  <2>7. FrameTerms(g)
    <3>1. g.op = "Tick" /\ g.pc = "activate"
      BY <1>5, <1>8, <2>6
    <3>2. g.todo \cup ({g.o.id} \ {0}) \subseteq f.todo \cup ({f.o.id} \ {0})
      BY <1>8, <2>1, <2>2, <2>6
    <3> QED
      BY <1>6, <3>1, <3>2 DEF FrameTerms, TickTerms
  <2> QED
    BY <1>2, <1>3, <2>3, <2>5, <2>6, <2>7, TermsSetTop
<1>10. CASE id \notin b.keys
  <2>1. stack' = SetTop(At(h, "trigger")) /\ book' = book
    BY <1>1, <1>8, <1>10
  <2>2. BooksTerms'
    BY <1>2, <1>7, <2>1, SentSame, SameBooksTerms
  <2>3. PICK g \in Frame : g = At(h, "trigger") /\ g.pc = "trigger" /\ g.op = h.op
                              /\ g.o = h.o /\ g.todo = h.todo
    BY <1>8, AtOK DEF Pcs
  <2>4. FrameTerms(g)
    <3>1. g.op = "Tick" /\ g.pc = "trigger"
      BY <1>5, <1>8, <2>3
    <3>2. g.todo \cup ({g.o.id} \ {0}) \subseteq f.todo \cup ({f.o.id} \ {0})
      BY <1>8, <2>3
    <3> QED
      BY <1>6, <3>1, <3>2 DEF FrameTerms, TickTerms
  <2> QED
    BY <1>2, <1>3, <2>1, <2>2, <2>3, <2>4, TermsSetTop
<1> QED
  BY <1>9, <1>10

\* So does taking a triggered stop out of the book.
LEMMA ActivateStopTerms ==
    ASSUME CleanGarbage, IInv, IInv', TermsInv, Continue(ActivateStop)
    PROVE  TermsInv'
<1> DEFINE f  == Top
           id == f.o.id
           a  == book[f.sym]
           b  == IF CanCancel(a, id) THEN Cancelled(a, id) ELSE a
           o  == Marked(b.orders[id], "New")
<1>1. /\ Running("activate") /\ UNCHANGED <<stops, queuePos, traded, reported>>
      /\ UNCHANGED routerVars
      /\ book' = [book EXCEPT ![f.sym] = Written(b, id, o)]
      /\ \E r \in IF id \in b.keys THEN {o} ELSE DanglingRead(o) :
            stack' = SetTop(With(f, "sweep", r))
  BY DEF Continue, ActivateStop
<1>2. stack # << >> /\ f.pc = "activate"
  BY <1>1 DEF Running
<1>3. f \in Frame /\ FrameOK(f) /\ f.sym \in Symbols /\ BookOK(a) /\ FrameTerms(f)
      /\ BookTerms(f.sym)
  BY <1>2, TopOK, TopTerms
<1>4. id \in OrderId /\ f.op = "Tick" /\ a \in Book /\ id # 0
  BY <1>2, <1>3, BookAssumption DEF FrameOK, BookOK, OrderId
<1>5. TickTerms(f)
  BY <1>3, <1>4 DEF FrameTerms
<1> HIDE DEF id, a
<1>6. b \in Book /\ TermsKept(a, b)
  <2>1. CASE CanCancel(a, id)
    BY <1>3, <1>4, <2>1, CancelledOK, CancelledTerms DEF BookOK
  <2>2. CASE ~CanCancel(a, id)
    BY <1>4, <2>2, TermsKeptRefl
  <2> QED
    BY <2>1, <2>2
<1> HIDE DEF b
<1>7. b.orders[id] \in Order /\ b.orders[id].id \in {0, id}
  <2>1. a.orders[id].id \in {0, id}
    BY <1>3, <1>4 DEF BookTerms, a
  <2> QED
    BY <1>4, <1>6, <2>1 DEF Book, TermsKept
<1>8. /\ o \in Order /\ o.id = b.orders[id].id /\ o.side = b.orders[id].side
      /\ o.limit = b.orders[id].limit /\ o.qty = b.orders[id].qty
  BY <1>7, MarkedOK DEF Status
<1>9. PICK r \in Order : stack' = SetTop(With(f, "sweep", r)) /\ r.id \in {0, id}
  BY <1>1, <1>7, <1>8, GarbageAssumption DEF DanglingRead, CleanGarbage
<1> HIDE DEF o
<1>10. TermsKept(a, Written(b, id, o))
  BY <1>4, <1>6, <1>8, WrittenTerms, TermsKeptTrans
<1>11. BooksTerms'
  BY <1>1, <1>3, <1>10, SentSame, OneBookTerms DEF a
<1>12. PICK g \in Frame : g = With(f, "sweep", r) /\ g.pc = "sweep" /\ g.op = f.op
                            /\ g.o = r /\ g.todo = f.todo
  BY <1>3, WithOK DEF Pcs
<1>13. FrameTerms(g)
  <2>1. g.todo \cup ({g.o.id} \ {0}) \subseteq f.todo \cup ({f.o.id} \ {0})
    BY <1>9, <1>12 DEF id
  <2>2. TickTerms(g)
    BY <1>5, <2>1 DEF TickTerms
  <2> QED
    BY <1>4, <1>12, <2>2 DEF FrameTerms
<1> QED
  BY <1>1, <1>2, <1>9, <1>11, <1>12, <1>13, TermsSetTop

-----------------------------------------------------------------------------
(* An order comes to rest on its terms *)

\* An order that is queued on the terms it was sent with keeps the terms of its book.
LEMMA AddTerms ==
    ASSUME IInv, IInv', TermsInv, SentKept,
           NEW o \in Order, o.id \in OrderId, QueueUp(o),
           sent'[o.id].sym = o.sym, sent'[o.id].side = o.side, sent'[o.id].qty = o.qty,
           sent'[o.id].type \in {"Limit", "Stop"},
           sent'[o.id].type = "Limit" => sent'[o.id].limit = o.limit,
           \A s \in Symbols : \A id \in stops'[s] :
               id \in stops[s] \/ (id < nextId' /\ sent'[id].type = "Stop")
    PROVE  BooksTerms'
<1> DEFINE c == Add(book[o.sym], o)
<1>1. book' = [book EXCEPT ![o.sym] = c] /\ o.sym \in Symbols
  BY DEF QueueUp, Order
<1>2. book \in [Symbols -> Book] /\ book[o.sym] \in Book
  BY <1>1 DEF IInv, TypeOK
<1>3. /\ c.keys = book[o.sym].keys \cup {o.id} /\ c.orders[o.id] = o
      /\ \A id \in OrderId : id # o.id => c.orders[id] = book[o.sym].orders[id]
  BY <1>2 DEF Add, Book
<1> HIDE DEF c
<1>4. book'[o.sym] = c /\ \A s \in Symbols : s # o.sym => book'[s] = book[s]
  BY <1>1, <1>2
<1>5. nextId \in Nat /\ nextId' \in Nat /\ OrderId \subseteq Nat
  BY BookAssumption DEF IInv, TypeOK, OrderId
<1>6. \A id \in OrderId : id < nextId => sent'[id] = sent[id]
  BY DEF SentKept
<1>7. \A id \in OrderId : id < nextId => id < nextId'
  BY <1>5 DEF SentKept
<1> SUFFICES ASSUME NEW s \in Symbols PROVE BookTerms(s)'
  BY DEF BooksTerms
<1>8. /\ BookTerms(s) /\ book[s].keys \subseteq OrderId /\ stops[s] \subseteq OrderId
      /\ \A id \in book[s].keys : id < nextId
  BY DEF TermsInv, BooksTerms, IInv, BooksInv, BookOK, Book, TypeOK
<1>9. \A id \in OrderId : book'[s].orders[id].id \in {0, id}
  <2> TAKE id \in OrderId
  <2>1. book[s].orders[id].id \in {0, id}
    BY <1>8 DEF BookTerms
  <2> QED
    BY <1>3, <1>4, <2>1
<1>10. ASSUME NEW id \in book'[s].keys
       PROVE  /\ sent'[id].sym = s
              /\ sent'[id].side = book'[s].orders[id].side
              /\ sent'[id].qty = book'[s].orders[id].qty
              /\ sent'[id].type \in {"Limit", "Stop"}
              /\ sent'[id].type = "Limit" => sent'[id].limit = book'[s].orders[id].limit
  <2>1. CASE s = o.sym /\ id = o.id
    BY <1>3, <1>4, <2>1
  <2>2. CASE ~(s = o.sym /\ id = o.id)
    <3>1. id \in book[s].keys
      BY <1>3, <1>4, <1>10, <2>2
    <3>2. id \in OrderId /\ book'[s].orders[id] = book[s].orders[id]
      BY <1>3, <1>4, <1>8, <2>2, <3>1
    <3>3. sent'[id] = sent[id]
      BY <1>6, <1>8, <3>1, <3>2
    <3> QED
      BY <1>8, <3>1, <3>2, <3>3 DEF BookTerms
  <2> QED
    BY <2>1, <2>2
<1>11. \A id \in stops'[s] : id < nextId' /\ sent'[id].type = "Stop"
  <2> TAKE id \in stops'[s]
  <2>1. CASE id \in stops[s]
    <3>1. id \in OrderId /\ id < nextId /\ sent[id].type = "Stop"
      BY <1>8, <2>1 DEF BookTerms
    <3> QED
      BY <1>6, <1>7, <3>1
  <2>2. CASE id \notin stops[s]
    BY <2>2
  <2> QED
    BY <2>1, <2>2
<1> QED
  BY <1>9, <1>10, <1>11 DEF BookTerms

\* The residual of a limit order rests on its terms.
LEMMA RestResidualTerms ==
    ASSUME IInv, IInv', TermsInv, Continue(RestResidual)
    PROVE  TermsInv'
<1> DEFINE f == Top
           o == f.o
<1>1. /\ Running("sweep") /\ f.op = "Limit" /\ QueueUp(o) /\ stack' = Return
      /\ UNCHANGED <<stops, traded>> /\ UNCHANGED routerVars
  BY DEF Continue, RestResidual, SweepOver
<1>2. stack # << >>
  BY <1>1 DEF Running
<1>3. f \in Frame /\ FrameOK(f) /\ o \in Order /\ FrameTerms(f)
  BY <1>2, TopOK, TopTerms
<1>4. LimitFrameOK(f) /\ OrderTerms(f)
  BY <1>1, <1>3 DEF FrameOK, FrameTerms
<1>5. SentKept /\ sent' = sent
  BY <1>1, SentSame DEF routerVars
<1>6. /\ o.id \in OrderId /\ sent'[o.id].sym = o.sym /\ sent'[o.id].side = o.side
      /\ sent'[o.id].qty = o.qty /\ sent'[o.id].type = "Limit" /\ sent'[o.id].limit = o.limit
  BY <1>1, <1>4, <1>5 DEF LimitFrameOK, OrderTerms
<1>7. BooksTerms'
  BY <1>1, <1>3, <1>5, <1>6, AddTerms
<1> QED
  BY <1>1, <1>2, <1>7, TermsReturn

-----------------------------------------------------------------------------
(* The client's steps keep the terms *)

\* A submission sets the terms of its order, and keeps those of others.
LEMMA SubmitTerms ==
    ASSUME IInv, IInv', TermsInv, NEW request \in Requests, Submit(request)
    PROVE  TermsInv'
<1> DEFINE o == [request EXCEPT !.id = nextId, !.status = "New"]
<1>1. /\ nextId <= MaxOrders
      /\ nextId' = nextId + 1
      /\ sent' = [sent EXCEPT ![o.id] = o]
      /\ Process(o)
  BY DEF Submit
<1>2. nextId \in OrderId /\ nextId \in Nat /\ OrderId \subseteq Nat
  BY <1>1, BookAssumption DEF IInv, TypeOK, OrderId
<1>3. o \in Order /\ o.id = nextId
  <2>1. nextId \in AnyId /\ "New" \in Status
    BY <1>2 DEF AnyId, OrderId, Status
  <2> QED
    BY <2>1, RequestType DEF Order
<1> HIDE DEF o
<1>4. /\ o.id \in OrderId /\ sent'[o.id] = o /\ SentKept /\ o.id < nextId'
  <2>1. sent'[o.id] = o
    BY <1>1, <1>2, <1>3 DEF IInv, TypeOK
  <2>2. \A id \in OrderId : id < nextId => id # nextId
    BY <1>2
  <2>3. \A id \in OrderId : id < nextId => sent'[id] = sent[id]
    BY <1>1, <1>3, <2>2 DEF IInv, TypeOK
  <2>4. nextId <= nextId' /\ nextId < nextId'
    BY <1>1, <1>2
  <2> QED
    BY <1>2, <1>3, <2>1, <2>3, <2>4 DEF SentKept
<1>5. CASE o.type = "Stop" /\ RegisterStop(o)
  <2> DEFINE r == [o EXCEPT !.limit = o.stop]
  <2>1. QueueUp(r) /\ stops' = [stops EXCEPT ![o.sym] = @ \cup {o.id}] /\ stack' = stack
    BY <1>5 DEF RegisterStop
  <2>2. /\ r \in Order /\ r.id = o.id /\ r.sym = o.sym /\ r.side = o.side /\ r.qty = o.qty
    BY <1>3 DEF Order
  <2> HIDE DEF r
  <2>3. \A s \in Symbols : \A id \in stops'[s] :
            id \in stops[s] \/ (id < nextId' /\ sent'[id].type = "Stop")
    BY <1>4, <1>5, <2>1 DEF IInv, TypeOK
  <2>4. BooksTerms'
    BY <1>4, <1>5, <2>1, <2>2, <2>3, AddTerms
  <2> QED
    BY <1>4, <2>1, <2>4, TermsStep
<1>6. CASE RejectFok(o)
  <2>1. book' = book /\ stops' = stops /\ stack' = stack
    BY <1>6 DEF RejectFok
  <2>2. BooksTerms'
    BY <1>4, <2>1, SameBooksTerms
  <2> QED
    BY <1>4, <2>1, <2>2, TermsStep
<1>7. CASE o.type \in {"Market", "Limit", "IOC", "FOK"} /\ StartSweep(o)
  <2>1. /\ book' = book /\ stops' = stops
        /\ stack' = Append(stack, NewFrame(o.sym, o.type, "sweep", o, {}))
    BY <1>7 DEF StartSweep, Call
  <2>2. o.sym \in Symbols /\ o.type \in Ops /\ "sweep" \in Pcs
    BY <1>3, <1>7 DEF Order, Ops, Pcs
  <2>3. PICK g \in Frame : /\ g = NewFrame(o.sym, o.type, "sweep", o, {}) /\ g.sym = o.sym
                           /\ g.op = o.type /\ g.pc = "sweep" /\ g.o = o
    BY <1>3, <2>2, NewFrameOK
  <2>4. BooksTerms'
    BY <1>4, <2>1, SameBooksTerms
  <2>5. \A f \in FramesOf(stack') : f \in FramesOf(stack) \/ f = g
    BY <2>1, <2>3, CallFrames DEF IInv
  <2>6. FrameTerms(g)'
    BY <1>4, <1>7, <2>3 DEF FrameTerms, OrderTerms
  <2> QED
    BY <1>4, <2>4, <2>5, <2>6, TermsStep
<1> QED
  BY <1>1, <1>5, <1>6, <1>7 DEF Process

\* So do the other calls of clients.
LEMMA ClientTerms ==
    ASSUME IInv, IInv', TermsInv, ClientStep
    PROVE  TermsInv'
<1>1. CASE \E o \in Requests : Submit(o)
  BY <1>1, SubmitTerms
<1>2. CASE (\E s \in Symbols : RegisterSymbol(s)) \/ SubmitInvalid
  <2>1. UNCHANGED <<book, stops, stack, nextId, sent>>
    BY <1>2 DEF RegisterSymbol, SubmitInvalid
  <2>2. SentKept
    BY <2>1, NextIdType DEF SentKept, IInv
  <2>3. BooksTerms'
    BY <2>1, <2>2, SameBooksTerms
  <2> QED
    BY <2>1, <2>2, <2>3, TermsStep
<1>3. CASE \E id \in OrderId : CancelOrder(id)
  <2>1. PICK id \in OrderId :
            /\ symbolOf[id] # NoSymbol
            /\ book' = [book EXCEPT ![symbolOf[id]] = Cancelled(@, id)]
            /\ UNCHANGED <<stops, stack, nextId, sent>>
    BY <1>3 DEF CancelOrder
  <2>2. PICK s \in Symbols : s = symbolOf[id]
    BY <2>1 DEF IInv, TypeOK
  <2>3. book' = [book EXCEPT ![s] = Cancelled(book[s], id)] /\ book[s] \in Book
    BY <2>1, <2>2 DEF IInv, TypeOK
  <2>4. TermsKept(book[s], Cancelled(book[s], id))
    BY <2>3, CancelledTerms
  <2>5. SentKept
    BY <2>1, NextIdType DEF SentKept, IInv
  <2>6. BooksTerms'
    BY <2>1, <2>3, <2>4, <2>5, OneBookTerms
  <2> QED
    BY <2>1, <2>5, <2>6, TermsStep
<1>4. CASE \E s \in Symbols, last \in TickPrices : FeedTick(s, last)
  <2>1. PICK s \in Symbols, last \in TickPrices :
            /\ stack' = Append(stack, NewFrame(s, "Tick", "trigger", NoOrder, Triggered(s, last)))
            /\ UNCHANGED <<book, stops>> /\ UNCHANGED routerVars
    BY <1>4 DEF FeedTick, Tick, Call
  <2>2. Triggered(s, last) \subseteq stops[s] /\ Triggered(s, last) \in SUBSET OrderId
    BY DEF Triggered, IInv, TypeOK
  <2>3. "Tick" \in Ops /\ "trigger" \in Pcs
    BY DEF Ops, Pcs
  <2>4. PICK g \in Frame :
            /\ g = NewFrame(s, "Tick", "trigger", NoOrder, Triggered(s, last))
            /\ g.op = "Tick" /\ g.pc = "trigger" /\ g.o = NoOrder /\ g.todo = Triggered(s, last)
    BY <2>2, <2>3, NewFrameOK, NoOrderType
  <2>5. SentKept /\ nextId' = nextId /\ sent' = sent
    BY <2>1, SentSame DEF routerVars
  <2>6. BooksTerms'
    BY <2>1, <2>5, SameBooksTerms
  <2>7. \A f \in FramesOf(stack') : f \in FramesOf(stack) \/ f = g
    BY <2>1, <2>4, CallFrames DEF IInv
  <2>8. TickTerms(g)
    <3>1. NoOrder.id = 0
      BY DEF NoOrder
    <3>2. g.todo \cup ({g.o.id} \ {0}) \subseteq stops[s]
      BY <2>2, <2>4, <3>1
    <3> QED
      BY <3>2 DEF TickTerms, TermsInv, BooksTerms, BookTerms
  <2>9. FrameTerms(g)'
    BY <2>4, <2>5, <2>8 DEF FrameTerms, TickTerms
  <2> QED
    BY <2>5, <2>6, <2>7, <2>9, TermsStep
<1> QED
  BY <1>1, <1>2, <1>3, <1>4 DEF ClientStep

-----------------------------------------------------------------------------
(* Trades are within limits *)

\* The terms hold before any call.
LEMMA InitTerms == Init => TermsInv
<1> SUFFICES ASSUME Init PROVE TermsInv
  OBVIOUS
<1>1. \A s \in Symbols : book[s] = EmptyBook /\ stops[s] = {}
  BY DEF Init, EngineInit
<1>2. EmptyBook.keys = {} /\ \A id \in OrderId : EmptyBook.orders[id].id = 0
  BY DEF EmptyBook, NoOrder
<1>3. BooksTerms
  BY <1>1, <1>2 DEF BooksTerms, BookTerms
<1>4. FramesOf(stack) = {}
  BY DEF Init, EngineInit, FramesOf
<1> QED
  BY <1>3, <1>4 DEF TermsInv

\* Every step keeps them.
LEMMA NextTerms ==
    ASSUME CleanGarbage, IInv, IInv', TermsInv, [Next]_vars
    PROVE  TermsInv'
<1>1. CASE ClientStep
  BY <1>1, ClientTerms
<1>2. CASE Continue(AggressorFill) \/ Continue(RestingFill) \/ Continue(ReduceResting)
  BY <1>2, AggressorFillTerms, RestingFillTerms, ReduceRestingTerms
<1>3. CASE \/ Continue(FinishMarket) \/ Continue(RestResidual) \/ Continue(FinishSilently)
           \/ Continue(FinishFok) \/ Continue(FinishTick)
  BY <1>3, FinishTerms, RestResidualTerms
<1>4. CASE Continue(TriggerStop) \/ Continue(ActivateStop)
  BY <1>4, TriggerStopTerms, ActivateStopTerms
<1>5. CASE UNCHANGED vars
  <2>1. UNCHANGED <<book, stops, stack, nextId, sent>>
    BY <1>5 DEF vars
  <2>2. SentKept
    BY <2>1, NextIdType DEF SentKept, IInv
  <2>3. BooksTerms'
    BY <2>1, <2>2, SameBooksTerms
  <2> QED
    BY <2>1, <2>2, <2>3, TermsStep
<1> QED
  BY <1>1, <1>2, <1>3, <1>4, <1>5 DEF Next

\* Prices are numbers.
LEMMA PricesAreNumbers == AnyPrice \subseteq Nat
BY BookAssumption DEF AnyPrice

\* An order that is matched on its terms is matched within its limit.
LEMMA TermsWithinLimits ==
    ASSUME IInv, TermsInv
    PROVE  WithinLimits
<1> SUFFICES ASSUME NEW i \in DOMAIN stack, stack[i].pc \in {"rest", "reduce"},
                    NEW id \in {stack[i].o.id, stack[i].rest} \ {0},
                    sent[id].type \in {"Limit", "IOC", "FOK"}
             PROVE  Crosses(sent[id].side, sent[id].limit, stack[i].px)
  BY DEF WithinLimits
<1> DEFINE f == stack[i]
<1>1. f \in Frame /\ FrameOK(f) /\ FrameTerms(f)
  <2>1. DOMAIN stack = 1..Len(stack)
    BY DEF IInv, TypeOK
  <2>2. f \in FramesOf(stack)
    BY <2>1 DEF FramesOf
  <2> QED
    BY <2>1, <2>2 DEF IInv, TypeOK, StackInv, TermsInv
<1> HIDE DEF f
<1>2. MatchTerms(f) /\ f.rest \in OrderId
  BY <1>1 DEF FrameTerms, FrameOK, f
<1>3. CASE id = f.o.id
  <2>1. CASE f.op = "Tick"
    <3>1. sent[id].type = "Stop"
      BY <1>1, <1>3, <2>1 DEF FrameTerms, TickTerms
    <3> QED
      BY <3>1
  <2>2. CASE f.op # "Tick"
    <3>1. sent[id].type = f.op /\ sent[id].side = f.o.side /\ sent[id].limit = f.o.limit
      BY <1>1, <1>3, <2>2 DEF FrameTerms, OrderTerms
    <3>2. PriceLimit(f) = f.o.limit
      BY <3>1 DEF PriceLimit
    <3> QED
      BY <1>2, <3>1, <3>2 DEF MatchTerms, f
  <2> QED
    BY <2>1, <2>2
<1>4. CASE id = f.rest
  <2>1. sent[id].limit = f.px
    BY <1>2, <1>4 DEF MatchTerms
  <2>2. sent[id].side \in Sides
    BY <1>2, <1>4 DEF IInv, TypeOK, Order
  <2>3. f.px \in Nat
    <3>1. f.px \in AnyPrice
      BY <1>1 DEF Frame
    <3> QED
      BY <3>1, PricesAreNumbers
  <2> QED
    BY <2>1, <2>2, <2>3 DEF Crosses, Sides, f
<1> QED
  BY <1>3, <1>4 DEF f

\* Orders keep the terms they were sent with, when freed memory does not read as
\* another order.
THEOREM Terms == ASSUME CleanGarbage PROVE Spec => []TermsInv
<1>1. Init => TermsInv
  BY InitTerms
<1>2. IInv /\ IInv' /\ TermsInv /\ [Next]_vars => TermsInv'
  BY NextTerms
<1> QED
  BY <1>1, <1>2, Invariant, PTL DEF Spec

\* A trade is within the limits of both its orders, however deep the calls from
\* callbacks go, when freed memory does not read as another order.
THEOREM LimitsKept == ASSUME CleanGarbage PROVE Spec => []WithinLimits
<1>1. IInv /\ TermsInv => WithinLimits
  BY TermsWithinLimits
<1> QED
  BY <1>1, Terms, Invariant, PTL

-----------------------------------------------------------------------------
(* The ledger *)

\* An engine is in the middle of taking what was matched off this order.
Reducing(s, id) == \E f \in FramesOf(stack) : f.pc = "reduce" /\ f.sym = s /\ f.rest = id

\* The submission of this order has not returned.
InFlight(id) == \E f \in FramesOf(stack) : f.op # "Tick" /\ f.o.id = id

\* The book's ledger of an order that it knows is what its client was told.
KnownOK(s, id) ==
    /\ ~Reducing(s, id) => book[s].orders[id].filled = traded[id]
    /\ ~Resting(book[s], id) => book[s].orders[id].filled = book[s].orders[id].qty
    /\ (Resting(book[s], id) /\ sent[id].type = "Limit" /\ ~Reducing(s, id)) =>
            reported[id] \notin Terminal

\* What a client can tell of an order whose submission has returned.
EndOK(id) ==
    /\ sent[id].type \notin {"IOC", "Stop"} =>
          \/ Resting(book[sent[id].sym], id)
          \/ /\ reported[id] \in Terminal
             /\ reported[id] = "Filled" <=> traded[id] = sent[id].qty
    /\ sent[id].type = "FOK" =>
          IF reported[id] = "Rejected" THEN traded[id] = 0 ELSE traded[id] = sent[id].qty

OrderOK(id) ==
    /\ \A s \in Symbols : id \in book[s].keys => KnownOK(s, id)
    /\ id < nextId /\ ~InFlight(id) => EndOK(id)
    /\ ~(id < nextId) => reported[id] = "None" /\ traded[id] = 0

\* The aggressor's own count is what its client was told.  It is in a book only
\* where a tick sweeps for a stop that the book had filled.
AggressorOK(f) ==
    /\ f.o.id # 0 => traded[f.o.id] = f.o.filled /\ f.o.filled <= f.o.qty
    /\ \A s \in Symbols : f.o.id \in book[s].keys => f.pc = "sweep" /\ Leaves(f.o) = 0
    /\ f.op # "Tick" =>
          IF Leaves(f.o) > 0
          THEN /\ reported[f.o.id] \in {"None", "PartiallyFilled"}
               /\ f.o.status \in {"New", "PartiallyFilled"}
          ELSE reported[f.o.id] = "Filled" /\ f.o.status = "Filled"

\* The order that is matched rests, with the shares that are to be taken off it.
MatchOK(f) ==
    LET node == book[f.sym].orders[f.rest]
    IN  /\ f.rest \in book[f.sym].keys
        /\ Resting(book[f.sym], f.rest)
        /\ 0 < f.qty
        /\ f.qty <= Leaves(node)
        /\ f.pc = "reduce" =>
              /\ traded[f.rest] = node.filled + f.qty
              /\ reported[f.rest] = IF f.qty = Leaves(node) THEN "Filled"
                                    ELSE "PartiallyFilled"

\* What was counted for a FOK order is still there: nobody else trades.
CoveredOK(f) ==
    Supply(book[f.sym], f.o.side, f.o.limit)
        >= Leaves(f.o) + (IF f.pc = "sweep" THEN 0 ELSE f.qty)

CallOK(f) ==
    /\ f.pc \in {"sweep", "rest", "reduce"} => AggressorOK(f)
    /\ f.pc \in {"rest", "reduce"} => MatchOK(f)
    /\ f.pc = "activate" => f.o.id \in book[f.sym].keys
    /\ f.op = "FOK" => CoveredOK(f)

LedgerInv ==
    /\ Len(stack) <= 1
    /\ \A id \in OrderId : OrderOK(id)
    /\ \A f \in FramesOf(stack) : CallOK(f)

-----------------------------------------------------------------------------
(* One call at a time *)

\* Calls do not nest.
LEMMA OneLong ==
    ASSUME IInv, LedgerInv, stack # << >>
    PROVE  Len(stack) = 1
<1>1. PICK n \in Nat \ {0} : n = Len(stack)
  BY TopType DEF IInv
<1>2. n <= 1
  BY <1>1 DEF LedgerInv
<1> QED
  BY <1>1, <1>2

\* A client that does not call from callbacks finds no call in progress.
LEMMA OneCallAtATime ==
    ASSUME MaxDepth = 1, IInv, MayCall
    PROVE  stack = << >>
<1>1. Len(stack) \in Nat /\ Len(stack) < 1
  BY DEF MayCall, IInv, TypeOK
<1>2. Len(stack) = 0
  BY <1>1
<1> QED
  BY <1>2 DEF IInv, TypeOK

\* The one frame that there is.
LEMMA OneFrame ==
    ASSUME IInv, LedgerInv, stack # << >>
    PROVE  FramesOf(stack) = {Top} /\ CallOK(Top)
<1>1. Len(stack) = 1
  BY OneLong
<1>2. FramesOf(stack) = {Top}
  BY <1>1 DEF FramesOf, Top
<1> QED
  BY <1>2 DEF LedgerInv

\* No frame between calls.
LEMMA NoFrame ==
    ASSUME stack = << >>
    PROVE  FramesOf(stack) = {} /\ ~(\E s, id : Reducing(s, id)) /\ ~(\E id : InFlight(id))
BY DEF FramesOf, Reducing, InFlight

\* The one frame after a step of the call.
LEMMA OneMoves ==
    ASSUME IInv, LedgerInv, stack # << >>, NEW g \in Frame, stack' = SetTop(g)
    PROVE  FramesOf(stack') = {g} /\ Len(stack') <= 1
<1>1. Len(stack) = 1
  BY OneLong
<1>2. Len(stack') = 1 /\ stack'[1] = g
  BY <1>1, SetTopType DEF IInv
<1> QED
  BY <1>2 DEF FramesOf

\* No frame is left by its return.
LEMMA OneReturns ==
    ASSUME IInv, LedgerInv, stack # << >>, stack' = Return
    PROVE  FramesOf(stack') = {} /\ Len(stack') <= 1
<1>1. Len(stack) = 1
  BY OneLong
<1>2. Len(stack') = 0
  BY <1>1, ReturnType DEF IInv
<1> QED
  BY <1>2 DEF FramesOf

\* The frame of a new call.
LEMMA OneCalls ==
    ASSUME IInv, stack = << >>, NEW g \in Frame, stack' = Append(stack, g)
    PROVE  FramesOf(stack') = {g} /\ Len(stack') <= 1
<1>1. Len(stack') = 1 /\ stack'[1] = g
  BY AppendProperties DEF IInv, TypeOK
<1> QED
  BY <1>1 DEF FramesOf

-----------------------------------------------------------------------------
(* Steps that are about one order *)

\* What is known of every order but x is as it was.
OthersKept(x) ==
    \A id \in OrderId : id # x =>
        /\ reported'[id] = reported[id]
        /\ traded'[id] = traded[id]
        /\ \A s \in Symbols :
              /\ book'[s].tag[id] = book[s].tag[id]
              /\ id \in book'[s].keys => id \in book[s].keys
              /\ book'[s].orders[id].filled = book[s].orders[id].filled
              /\ book'[s].orders[id].qty = book[s].orders[id].qty
              /\ ~Reducing(s, id) /\ ~Reducing(s, id)'
        /\ InFlight(id) => InFlight(id)'

\* An order that was reported to be over is left alone.
FinalOK(id) ==
    (id < nextId /\ sent[id].type # "Stop" /\ reported[id] \in Terminal) =>
        reported'[id] = reported[id] /\ traded'[id] = traded[id]

\* The ledger of an order that a step is not about is kept.
LEMMA OtherOrder ==
    ASSUME IInv, IInv', TermsInv, LedgerInv, SentKept, NEW x, OthersKept(x),
           nextId' = nextId \/ (x = nextId /\ nextId' = nextId + 1),
           NEW id \in OrderId, id # x
    PROVE  OrderOK(id)' /\ FinalOK(id)
<1>1. OrderOK(id)
  BY DEF LedgerInv
<1>2. id \in Nat /\ nextId \in Nat
  BY NextIdType, BookAssumption DEF IInv, OrderId
<1>3. id < nextId' <=> id < nextId
  BY <1>2
<1>4. id < nextId => sent'[id] = sent[id]
  BY DEF SentKept
<1>5. /\ reported'[id] = reported[id] /\ traded'[id] = traded[id]
      /\ InFlight(id) => InFlight(id)'
  BY DEF OthersKept
<1>6. ASSUME NEW s \in Symbols, id \in book'[s].keys
      PROVE  KnownOK(s, id)'
  <2>1. /\ book'[s].tag[id] = book[s].tag[id] /\ id \in book[s].keys
        /\ book'[s].orders[id].filled = book[s].orders[id].filled
        /\ book'[s].orders[id].qty = book[s].orders[id].qty
        /\ ~Reducing(s, id) /\ ~Reducing(s, id)'
    BY <1>6 DEF OthersKept
  <2>2. KnownOK(s, id) /\ id < nextId
    BY <1>1, <2>1 DEF OrderOK, IInv, BooksInv
  <2> QED
    BY <1>4, <1>5, <2>1, <2>2 DEF KnownOK, Resting
<1>7. ASSUME id < nextId', ~InFlight(id)' PROVE EndOK(id)'
  <2>1. id < nextId /\ EndOK(id) /\ sent'[id] = sent[id]
    BY <1>1, <1>3, <1>4, <1>5, <1>7 DEF OrderOK
  <2>2. sent[id].sym \in Symbols
    BY DEF IInv, TypeOK, Order
  <2>3. book'[sent[id].sym].tag[id] = book[sent[id].sym].tag[id]
    BY <2>2 DEF OthersKept
  <2> QED
    BY <1>5, <2>1, <2>3 DEF EndOK, Resting
<1>8. ~(id < nextId') => reported'[id] = "None" /\ traded'[id] = 0
  BY <1>1, <1>3, <1>5 DEF OrderOK
<1> QED
  BY <1>5, <1>6, <1>7, <1>8 DEF OrderOK, FinalOK

\* A step that is about one order keeps the ledger when it keeps that of this
\* order, and what a call in progress holds.
LEMMA LedgerStep ==
    ASSUME IInv, IInv', TermsInv, LedgerInv, SentKept, NEW x, OthersKept(x),
           nextId' = nextId \/ (x = nextId /\ nextId' = nextId + 1),
           x \in OrderId => OrderOK(x)' /\ FinalOK(x),
           Len(stack') <= 1, \A f \in FramesOf(stack') : CallOK(f)'
    PROVE  LedgerInv' /\ \A id \in OrderId : FinalOK(id)
<1>1. \A id \in OrderId : OrderOK(id)' /\ FinalOK(id)
  BY OtherOrder
<1> QED
  BY <1>1 DEF LedgerInv

\* Nothing else of a book changes than what it knows of x.
OthersIn(b, c, x) ==
    /\ c.keys \subseteq b.keys \cup {x}
    /\ \A id \in OrderId : id # x => c.tag[id] = b.tag[id] /\ c.orders[id] = b.orders[id]

\* What a step that is about x leaves alone.
LEMMA Others ==
    ASSUME NEW x, \A id \in OrderId : id # x => reported'[id] = reported[id] /\ traded'[id] = traded[id],
           \A s \in Symbols : OthersIn(book[s], book'[s], x),
           \A f \in FramesOf(stack) \cup FramesOf(stack') : f.pc = "reduce" => f.rest = x,
           \A f \in FramesOf(stack) : f.op # "Tick" /\ f.o.id # x =>
               \E g \in FramesOf(stack') : g.op # "Tick" /\ g.o.id = f.o.id
    PROVE  OthersKept(x)
<1> SUFFICES ASSUME NEW id \in OrderId, id # x
             PROVE  /\ \A s \in Symbols :
                          /\ book'[s].tag[id] = book[s].tag[id]
                          /\ id \in book'[s].keys => id \in book[s].keys
                          /\ book'[s].orders[id].filled = book[s].orders[id].filled
                          /\ book'[s].orders[id].qty = book[s].orders[id].qty
                          /\ ~Reducing(s, id) /\ ~Reducing(s, id)'
                    /\ InFlight(id) => InFlight(id)'
  BY DEF OthersKept
<1>1. \A s \in Symbols : ~Reducing(s, id) /\ ~Reducing(s, id)'
  BY DEF Reducing
<1>2. InFlight(id) => InFlight(id)'
  BY DEF InFlight
<1>3. \A s \in Symbols : /\ book'[s].tag[id] = book[s].tag[id]
                         /\ id \in book'[s].keys => id \in book[s].keys
                         /\ book'[s].orders[id] = book[s].orders[id]
  BY DEF OthersIn
<1> QED
  BY <1>1, <1>2, <1>3

\* A step that changes one book, and no other.
LEMMA OneBookOthers ==
    ASSUME IInv, NEW s \in Symbols, NEW c, NEW x, book' = [book EXCEPT ![s] = c],
           OthersIn(book[s], c, x)
    PROVE  \A t \in Symbols : OthersIn(book[t], book'[t], x)
<1>1. \A t \in Symbols : book'[t] = IF t = s THEN c ELSE book[t]
  BY DEF IInv, TypeOK
<1>2. \A b : OthersIn(b, b, x)
  BY DEF OthersIn
<1> QED
  BY <1>1, <1>2

\* What is known of the innermost call.
LEMMA CallFacts ==
    ASSUME IInv, TermsInv, LedgerInv, stack # << >>
    PROVE  /\ FramesOf(stack) = {Top} /\ CallOK(Top) /\ FrameTerms(Top)
           /\ Top \in Frame /\ FrameOK(Top) /\ Top.sym \in Symbols /\ Top.o \in Order
           /\ BookOK(book[Top.sym])
BY OneFrame, TopOK, TopTerms

\* Where a book knows an order, no other does.
LEMMA OneBook ==
    ASSUME IInv, TermsInv, NEW s \in Symbols, NEW id \in book[s].keys
    PROVE  /\ sent[id].sym = s /\ id \in OrderId /\ id < nextId
           /\ sent[id].qty = book[s].orders[id].qty
           /\ sent[id].type \in {"Limit", "Stop"}
           /\ book[s].orders[id].id = id
           /\ \A t \in Symbols : id \in book[t].keys => t = s
<1>1. BookTerms(s) /\ \A t \in Symbols : BookTerms(t)
  BY DEF TermsInv, BooksTerms
<1>2. id \in OrderId /\ id < nextId /\ book[s].orders[id].id = id
  BY DEF IInv, BooksInv, BookOK, KeysSound, Book
<1> QED
  BY <1>1, <1>2 DEF BookTerms

\* The aggressor's id was handed out; that of a tick is a stop's.
LEMMA AggressorId ==
    ASSUME IInv, TermsInv, LedgerInv, stack # << >>, Top.o.id \in OrderId
    PROVE  /\ Top.o.id < nextId
           /\ Top.op = "Tick" => sent[Top.o.id].type = "Stop"
           /\ Top.op # "Tick" => /\ sent[Top.o.id].type = Top.op
                                 /\ sent[Top.o.id].qty = Top.o.qty
                                 /\ sent[Top.o.id].sym = Top.sym
<1>1. FrameTerms(Top) /\ Top.o.id # 0
  BY TopTerms, BookAssumption DEF OrderId
<1>2. CASE Top.op = "Tick"
  <2>1. TickTerms(Top)
    BY <1>1, <1>2 DEF FrameTerms
  <2>2. Top.o.id \in Top.todo \cup ({Top.o.id} \ {0})
    BY <1>1
  <2> QED
    BY <1>2, <2>1, <2>2 DEF TickTerms
<1>3. CASE Top.op # "Tick"
  BY <1>1, <1>3 DEF FrameTerms, OrderTerms
<1> QED
  BY <1>2, <1>3

-----------------------------------------------------------------------------
(* A match *)

\* A stop, or an order whose call goes on, is not yet to have ended.
LEMMA NotEnded ==
    ASSUME NEW id, \/ sent'[id].type = "Stop"
                   \/ \E g \in FramesOf(stack') : g.op # "Tick" /\ g.o.id = id
    PROVE  ~InFlight(id)' => EndOK(id)'
BY DEF InFlight, EndOK

\* A fill of the aggressor is in its own ledger and in what its client is told.
LEMMA AggressorFillLedger ==
    ASSUME IInv, IInv', TermsInv, LedgerInv, Continue(AggressorFill)
    PROVE  LedgerInv' /\ \A id \in OrderId : FinalOK(id)
<1> DEFINE f == Top
           b == book[f.sym]
           c == Contra(f.o.side)
           rest(p) == Head(b.level[c][p])
           room(p) == Leaves(b.orders[rest(p)])
           qty(p)  == IF Leaves(f.o) < room(p) THEN Leaves(f.o) ELSE room(p)
<1>1. /\ Running("sweep") /\ UNCHANGED <<book, stops, queuePos>> /\ UNCHANGED routerVars
      /\ \E p \in Matchable(f) :
            /\ stack' = SetTop(Matched(f, Traded(f.o, qty(p)), rest(p), p, qty(p)))
            /\ FillEvent(Traded(f.o, qty(p)).id, qty(p))
            /\ Report(Traded(f.o, qty(p)).id, Traded(f.o, qty(p)).status)
  BY DEF Continue, AggressorFill
<1>2. stack # << >> /\ f.pc = "sweep"
  BY <1>1 DEF Running
<1>3. /\ FramesOf(stack) = {f} /\ CallOK(f) /\ FrameTerms(f)
      /\ f \in Frame /\ f.sym \in Symbols /\ f.o \in Order
  BY <1>2, CallFacts
<1>4. PICK p \in Matchable(f) :
            /\ stack' = SetTop(Matched(f, Traded(f.o, qty(p)), rest(p), p, qty(p)))
            /\ FillEvent(Traded(f.o, qty(p)).id, qty(p))
            /\ Report(Traded(f.o, qty(p)).id, Traded(f.o, qty(p)).status)
  BY <1>1
<1>5. p \in Occupied(b, c) /\ c \in Sides
  BY <1>4 DEF Matchable, Reachable, Contra, Sides
<1>6. PICK r \in OrderId : r = rest(p) /\ r \in b.keys /\ Resting(b, r)
  BY <1>3, <1>5, FrontTerms
<1>7. p \in Prices /\ room(p) \in Int /\ Leaves(f.o) \in Int /\ Leaves(f.o) > 0 /\ room(p) > 0
  BY <1>2, <1>3, <1>4, MatchableFront, OrderNumbers
<1>8. room(p) = Leaves(b.orders[r])
  BY <1>6
<1> HIDE DEF room
<1>9. PICK q \in Nat : q = qty(p) /\ 0 < q /\ q <= Leaves(b.orders[r]) /\ q <= Leaves(f.o)
  BY <1>7, <1>8
<1> HIDE DEF rest, qty
<1>10. PICK o, x : /\ o \in Order /\ o = Traded(f.o, q) /\ x = f.o.id /\ o.id = x /\ o.side = f.o.side
                  /\ o.limit = f.o.limit /\ o.qty = f.o.qty /\ o.filled = f.o.filled + q
                  /\ o.status = IF f.o.filled + q >= f.o.qty THEN "Filled"
                                ELSE "PartiallyFilled"
  BY <1>3, TradedOK
<1>11. PICK g \in Frame : /\ g = Matched(f, o, r, p, q) /\ g.pc = "rest"
                          /\ g.o = o /\ g.rest = r /\ g.qty = q
                          /\ g.op = f.op /\ g.sym = f.sym
  BY <1>3, <1>7, <1>10, MatchedOK
<1>12. stack' = SetTop(g) /\ FillEvent(x, q) /\ Report(x, o.status)
  <2>1. qty(p) = q /\ rest(p) = r
    BY <1>6, <1>9
  <2>2. Traded(f.o, qty(p)) = o
    BY <1>10, <2>1
  <2> QED
    BY <1>4, <1>10, <1>11, <2>1, <2>2
<1>13. FramesOf(stack') = {g} /\ Len(stack') <= 1
  BY <1>2, <1>12, OneMoves
<1>14. /\ f.o.qty \in Nat /\ f.o.filled \in Nat /\ Leaves(f.o) = f.o.qty - f.o.filled
       /\ Leaves(o) = Leaves(f.o) - q
  BY <1>3, <1>10 DEF Order, Leaves
<1>15. AggressorOK(f)
  BY <1>2, <1>3 DEF CallOK
<1>16. \A s \in Symbols : x \notin book[s].keys
  BY <1>7, <1>10, <1>15 DEF AggressorOK
<1>17. /\ \A id \in OrderId : reported'[id] = IF id = x THEN o.status ELSE reported[id]
       /\ \A id \in OrderId : traded'[id] = IF id = x THEN traded[id] + q ELSE traded[id]
  BY <1>12 DEF FillEvent, Report
<1>18. OthersKept(x)
  <2>1. \A s \in Symbols : OthersIn(book[s], book'[s], x)
    BY <1>1 DEF OthersIn
  <2>2. \A h \in FramesOf(stack) \cup FramesOf(stack') : h.pc = "reduce" => h.rest = x
    BY <1>2, <1>3, <1>11, <1>13
  <2>3. \A h \in FramesOf(stack) : h.op # "Tick" /\ h.o.id # x =>
            \E k \in FramesOf(stack') : k.op # "Tick" /\ k.o.id = h.o.id
    BY <1>3, <1>10
  <2> QED
    BY <1>17, <2>1, <2>2, <2>3, Others
<1>19. SentKept /\ sent' = sent /\ nextId' = nextId
  BY <1>1, SentSame DEF routerVars
<1>20. ASSUME x \in OrderId PROVE OrderOK(x)' /\ FinalOK(x)
  <2>1. /\ x < nextId /\ (f.op = "Tick" => sent[x].type = "Stop")
    BY <1>2, <1>10, <1>20, AggressorId
  <2>2. f.op # "Tick" => reported[x] \notin Terminal
    BY <1>7, <1>10, <1>15 DEF AggressorOK, Terminal
  <2>3. \A s \in Symbols : x \notin book'[s].keys
    BY <1>1, <1>16
  <2>4. ~InFlight(x)' => EndOK(x)'
    BY <1>10, <1>11, <1>13, <1>19, <2>1, NotEnded
  <2>5. FinalOK(x)
    BY <2>1, <2>2 DEF FinalOK
  <2> QED
    BY <1>19, <2>1, <2>3, <2>4, <2>5 DEF OrderOK
<1>21. CallOK(g)'
  <2>1. AggressorOK(g)'
    <3>1. x # 0 => traded'[x] = o.filled /\ o.filled <= o.qty
      <4>1. x # 0 => x \in OrderId
        BY <1>3, <1>10 DEF Order, AnyId, OrderId
      <4>2. x # 0 => traded'[x] = traded[x] + q /\ traded[x] = f.o.filled
        BY <1>10, <1>15, <1>17, <4>1 DEF AggressorOK
      <4>3. o.filled <= o.qty
        BY <1>9, <1>10, <1>14
      <4> QED
        BY <1>10, <4>2, <4>3
    <3>2. \A s \in Symbols : x \notin book'[s].keys
      BY <1>1, <1>16
    <3>3. f.op # "Tick" => reported'[x] = o.status
      <4>1. f.op # "Tick" => x \in OrderId
        BY <1>3, <1>10 DEF FrameTerms, OrderTerms
      <4> QED
        BY <1>17, <4>1
    <3>4. o.status = IF Leaves(o) > 0 THEN "PartiallyFilled" ELSE "Filled"
      BY <1>9, <1>10, <1>14
    <3> QED
      BY <1>10, <1>11, <3>1, <3>2, <3>3, <3>4 DEF AggressorOK
  <2>2. MatchOK(g)'
    BY <1>1, <1>6, <1>9, <1>11 DEF MatchOK
  <2>3. f.op = "FOK" => CoveredOK(g)'
    <3>1. f.op = "FOK" => Supply(b, f.o.side, f.o.limit) >= Leaves(f.o)
      BY <1>2, <1>3, <1>7 DEF CallOK, CoveredOK
    <3> QED
      BY <1>1, <1>9, <1>10, <1>11, <1>14, <3>1 DEF CoveredOK
  <2> QED
    BY <1>11, <2>1, <2>2, <2>3 DEF CallOK
<1> QED
  BY <1>13, <1>18, <1>19, <1>20, <1>21, LedgerStep

\* What is known of the order that is matched.
LEMMA MatchedOrder ==
    ASSUME IInv, TermsInv, LedgerInv, stack # << >>, Top.pc \in {"rest", "reduce"}
    PROVE  LET x == Top.rest
               b == book[Top.sym]
           IN  /\ MatchOK(Top) /\ AggressorOK(Top) /\ Top.o.id # x
               /\ \A s \in Symbols : Top.o.id \notin book[s].keys
               /\ x \in OrderId /\ x < nextId /\ x \in b.keys /\ Resting(b, x)
               /\ b \in Book /\ BookOK(b) /\ b.orders[x] \in Order
               /\ b.orders[x].id = x /\ KnownOK(Top.sym, x)
               /\ sent[x].type \in {"Limit", "Stop"} /\ sent[x].sym = Top.sym
               /\ sent[x].qty = b.orders[x].qty
               /\ \A s \in Symbols : x \in book[s].keys => s = Top.sym
<1>1. CallOK(Top) /\ Top.sym \in Symbols /\ BookOK(book[Top.sym])
  BY CallFacts
<1>2. MatchOK(Top) /\ AggressorOK(Top)
  BY <1>1 DEF CallOK
<1>3. \A s \in Symbols : Top.o.id \notin book[s].keys
  BY <1>2 DEF AggressorOK
<1>4. Top.rest \in book[Top.sym].keys /\ Resting(book[Top.sym], Top.rest)
  BY <1>2 DEF MatchOK
<1>5. /\ Top.rest \in OrderId /\ Top.rest < nextId
      /\ sent[Top.rest].type \in {"Limit", "Stop"} /\ sent[Top.rest].sym = Top.sym
      /\ sent[Top.rest].qty = book[Top.sym].orders[Top.rest].qty
      /\ book[Top.sym].orders[Top.rest].id = Top.rest
      /\ \A s \in Symbols : Top.rest \in book[s].keys => s = Top.sym
  BY <1>1, <1>4, OneBook
<1>6. KnownOK(Top.sym, Top.rest)
  BY <1>1, <1>4, <1>5 DEF LedgerInv, OrderOK
<1>7. book[Top.sym] \in Book /\ book[Top.sym].orders[Top.rest] \in Order
  BY <1>1, <1>5 DEF BookOK, Book
<1> QED
  BY <1>1, <1>2, <1>3, <1>4, <1>5, <1>6, <1>7

\* A fill of the resting order is in what its client is told, and pending in
\* the book.
LEMMA RestingFillLedger ==
    ASSUME IInv, IInv', TermsInv, LedgerInv, Continue(RestingFill)
    PROVE  LedgerInv' /\ \A id \in OrderId : FinalOK(id)
<1> DEFINE f == Top
           b == book[f.sym]
           node == b.orders[f.rest]
           status == Traded(node, f.qty).status
<1>1. /\ Running("rest") /\ UNCHANGED <<stops, queuePos>> /\ UNCHANGED routerVars
      /\ \E r \in IF f.rest \in b.keys THEN {node} ELSE DanglingRead(node) :
            /\ book' = [book EXCEPT ![f.sym] =
                        Written(@, f.rest, Marked(node, Traded(r, f.qty).status))]
            /\ FillEvent(r.id, f.qty)
            /\ Report(r.id, Traded(r, f.qty).status)
            /\ stack' = SetTop(At(f, "reduce"))
  BY DEF Continue, RestingFill
<1>2. stack # << >> /\ f.pc = "rest"
  BY <1>1 DEF Running
<1>3. /\ FramesOf(stack) = {f} /\ CallOK(f) /\ f \in Frame /\ f.sym \in Symbols /\ f.o \in Order
  BY <1>2, CallFacts
<1>4. PICK x \in OrderId, t \in Symbols :
          /\ x = f.rest /\ t = f.sym /\ MatchOK(f) /\ AggressorOK(f) /\ f.o.id # x
          /\ \A s \in Symbols : f.o.id \notin book[s].keys
          /\ x \in b.keys /\ Resting(b, x)
          /\ b \in Book /\ BookOK(b) /\ node \in Order /\ node.id = x /\ KnownOK(f.sym, x)
          /\ sent[x].type \in {"Limit", "Stop"} /\ sent[x].sym = f.sym
          /\ \A s \in Symbols : x \in book[s].keys => s = f.sym
  BY <1>2, <1>3, MatchedOrder
<1>5. x < nextId
  BY <1>2, <1>4, MatchedOrder
<1>6. /\ book' = [book EXCEPT ![f.sym] = Written(b, x, Marked(node, status))]
      /\ FillEvent(x, f.qty) /\ Report(x, status) /\ stack' = SetTop(At(f, "reduce"))
  BY <1>1, <1>4
<1>7. f.qty \in Nat /\ node.qty \in Nat /\ node.filled \in Nat
  BY <1>3, <1>4 DEF Frame, Order
<1>8. /\ status \in Status
      /\ status = IF node.filled + f.qty >= node.qty THEN "Filled" ELSE "PartiallyFilled"
  BY <1>4, <1>7, TradedOK DEF Status
<1>9. PICK n \in Order : /\ n = Marked(node, status) /\ n.filled = node.filled /\ n.qty = node.qty
  BY <1>4, <1>8, MarkedOK
<1> DEFINE c == Written(b, x, n)
<1>10. book' = [book EXCEPT ![f.sym] = c]
  BY <1>6, <1>9
<1>11. c.keys = b.keys /\ c.tag = b.tag /\ c.orders[x] = n
       /\ \A id \in OrderId : id # x => c.orders[id] = b.orders[id]
  BY <1>4 DEF Written, Book
<1>12. book'[f.sym] = c /\ BookOK(c) /\ \A s \in Symbols : s # f.sym => book'[s] = book[s]
  BY <1>3, <1>10 DEF IInv, TypeOK, BooksInv
<1> HIDE DEF c, status
<1>13. PICK g \in Frame : /\ g = At(f, "reduce") /\ g.pc = "reduce"
                          /\ g.o = f.o /\ g.rest = x /\ g.qty = f.qty
                          /\ g.op = f.op /\ g.sym = f.sym
  BY <1>3, <1>4, AtOK DEF Pcs
<1>14. FramesOf(stack') = {g} /\ Len(stack') <= 1
  BY <1>2, <1>6, <1>13, OneMoves
<1>15. /\ \A id \in OrderId : reported'[id] = IF id = x THEN status ELSE reported[id]
       /\ \A id \in OrderId : traded'[id] = IF id = x THEN traded[id] + f.qty ELSE traded[id]
  BY <1>6 DEF FillEvent, Report
<1>16. OthersKept(x)
  <2>1. OthersIn(b, c, x)
    BY <1>11 DEF OthersIn
  <2>2. \A s \in Symbols : OthersIn(book[s], book'[s], x)
    BY <1>3, <1>10, <2>1, OneBookOthers
  <2>3. \A h \in FramesOf(stack) \cup FramesOf(stack') : h.pc = "reduce" => h.rest = x
    BY <1>2, <1>3, <1>13, <1>14
  <2>4. \A h \in FramesOf(stack) : h.op # "Tick" /\ h.o.id # x =>
            \E k \in FramesOf(stack') : k.op # "Tick" /\ k.o.id = h.o.id
    BY <1>3, <1>13, <1>14
  <2> QED
    BY <1>15, <2>2, <2>3, <2>4, Others
<1>17. SentKept /\ sent' = sent /\ nextId' = nextId
  BY <1>1, SentSame DEF routerVars
<1>18. ~Reducing(t, x) /\ Reducing(t, x)'
  BY <1>2, <1>3, <1>4, <1>13, <1>14 DEF Reducing
<1>19. Resting(c, x) /\ Leaves(n) = Leaves(node)
  BY <1>4, <1>9, <1>11 DEF Resting, Leaves
<1>20. OrderOK(x)' /\ FinalOK(x)
  <2>1. \A s \in Symbols : x \in book'[s].keys => KnownOK(s, x)'
    <3> SUFFICES ASSUME NEW s \in Symbols, x \in book'[s].keys PROVE KnownOK(s, x)'
      OBVIOUS
    <3>1. s = t /\ book'[s] = c
      BY <1>4, <1>12
    <3> QED
      BY <1>18, <1>19, <3>1 DEF KnownOK
  <2>2. EndOK(x)'
    BY <1>4, <1>12, <1>17, <1>19 DEF EndOK
  <2>3. FinalOK(x)
    BY <1>4, <1>18 DEF FinalOK, KnownOK
  <2> QED
    BY <1>5, <1>17, <2>1, <2>2, <2>3 DEF OrderOK
<1>21. CallOK(g)'
  <2>1. AggressorOK(g)'
    <3>1. f.o.id # 0 => f.o.id \in OrderId
      BY <1>3 DEF Order, AnyId, OrderId
    <3>2. f.o.id # 0 => reported'[f.o.id] = reported[f.o.id] /\ traded'[f.o.id] = traded[f.o.id]
      BY <1>4, <1>15, <3>1
    <3>3. \A s \in Symbols : f.o.id \notin book'[s].keys
      BY <1>4, <1>11, <1>12
    <3>4. f.op # "Tick" => f.o.id # 0
      <4>1. FrameTerms(f)
        BY <1>2, TopTerms
      <4> QED
        BY <4>1, BookAssumption DEF FrameTerms, OrderTerms, OrderId
    <3> QED
      BY <1>4, <1>13, <3>2, <3>3, <3>4 DEF AggressorOK
  <2>2. MatchOK(g)'
    <3>1. 0 < f.qty /\ f.qty <= Leaves(node)
      BY <1>4 DEF MatchOK
    <3>2. traded'[x] = n.filled + f.qty
      BY <1>4, <1>9, <1>15, <1>18 DEF KnownOK
    <3>3. status = IF f.qty = Leaves(n) THEN "Filled" ELSE "PartiallyFilled"
      BY <1>7, <1>8, <1>19, <3>1 DEF Leaves
    <3> QED
      BY <1>4, <1>11, <1>12, <1>13, <1>15, <1>19, <3>1, <3>2, <3>3 DEF MatchOK
  <2>3. f.op = "FOK" => CoveredOK(g)'
    <3>1. f.o.side \in Sides
      BY <1>3 DEF Order
    <3>2. PICK a \in Int : a = Supply(b, f.o.side, f.o.limit)
      BY <1>4, <3>1, SupplyType
    <3>3. PICK e \in Int : e = Supply(c, f.o.side, f.o.limit)
      BY <1>12, <3>1, SupplyType
    <3>4. e >= a
      BY <1>4, <1>9, <1>12, <3>1, <3>2, <3>3, WrittenSupply DEF c
    <3>5. f.op = "FOK" => a >= Leaves(f.o) + f.qty
      BY <1>2, <1>3, <3>2 DEF CallOK, CoveredOK
    <3>6. Leaves(f.o) \in Int
      BY <1>3, OrderNumbers
    <3>7. f.op = "FOK" => e >= Leaves(f.o) + f.qty
      BY <1>7, <3>4, <3>5, <3>6
    <3> QED
      BY <1>12, <1>13, <3>3, <3>7 DEF CoveredOK
  <2> QED
    BY <1>13, <2>1, <2>2, <2>3 DEF CallOK
<1> QED
  BY <1>14, <1>16, <1>17, <1>20, <1>21, LedgerStep

\* reduce_qty brings the book's ledger up to what the client was told.
LEMMA ReduceRestingLedger ==
    ASSUME IInv, IInv', TermsInv, LedgerInv, Continue(ReduceResting)
    PROVE  LedgerInv' /\ \A id \in OrderId : FinalOK(id)
<1> DEFINE f == Top
           b == book[f.sym]
           node == b.orders[f.rest]
           c == Reduced(b, f.rest, f.qty)
<1>1. /\ Running("reduce") /\ UNCHANGED <<stops, queuePos, traded, reported>>
      /\ UNCHANGED routerVars
      /\ stack' = SetTop(AfterMatch(f))
      /\ book' = [book EXCEPT ![f.sym] = c]
  BY DEF Continue, ReduceResting
<1>2. stack # << >> /\ f.pc = "reduce"
  BY <1>1 DEF Running
<1>3. /\ FramesOf(stack) = {f} /\ CallOK(f) /\ f \in Frame /\ f.sym \in Symbols /\ f.o \in Order
  BY <1>2, CallFacts
<1>4. PICK x \in OrderId :
          /\ x = f.rest /\ MatchOK(f) /\ AggressorOK(f) /\ f.o.id # x
          /\ \A s \in Symbols : f.o.id \notin book[s].keys
          /\ x \in b.keys /\ Resting(b, x)
          /\ b \in Book /\ BookOK(b) /\ node \in Order
          /\ sent[x].type \in {"Limit", "Stop"} /\ sent[x].sym = f.sym
          /\ sent[x].qty = node.qty
          /\ \A s \in Symbols : x \in book[s].keys => s = f.sym
  BY <1>2, MatchedOrder
<1>5. x < nextId
  BY <1>2, <1>4, MatchedOrder
<1>6. f.qty \in Nat /\ node.qty \in Nat /\ node.filled \in Nat /\ Leaves(node) = node.qty - node.filled
  BY <1>3, <1>4 DEF Frame, Order, Leaves
<1>7. /\ 0 < f.qty /\ f.qty <= Leaves(node)
      /\ traded[x] = node.filled + f.qty
      /\ reported[x] = IF f.qty = Leaves(node) THEN "Filled" ELSE "PartiallyFilled"
  BY <1>2, <1>4 DEF MatchOK
<1>8. /\ c.keys = b.keys
      /\ c.orders[x].filled = node.filled + f.qty
      /\ c.orders[x].qty = node.qty
      /\ \A i \in OrderId : i # x => c.orders[i] = b.orders[i] /\ c.tag[i] = b.tag[i]
      /\ f.qty < Leaves(node) => c.tag = b.tag
      /\ f.qty = Leaves(node) => c.tag[x] = "None"
  <2>1. PICK q \in Nat : q = f.qty
    BY <1>6
  <2>2. q <= Leaves(b.orders[x]) /\ c = Reduced(b, x, q)
    BY <1>4, <1>7, <2>1
  <2> HIDE DEF c
  <2> QED
    BY <1>4, <2>1, <2>2, ReducedNode
<1>9. book'[f.sym] = c /\ BookOK(c) /\ \A s \in Symbols : s # f.sym => book'[s] = book[s]
  BY <1>1, <1>3 DEF IInv, TypeOK, BooksInv
<1>10. f.op = "FOK" => Supply(c, f.o.side, f.o.limit) >= Leaves(f.o)
  <2>1. f.o.side \in Sides
    BY <1>3 DEF Order
  <2>2. PICK a \in Int : a = Supply(b, f.o.side, f.o.limit)
    BY <1>4, <2>1, SupplyType
  <2>3. PICK e \in Int : e = Supply(c, f.o.side, f.o.limit)
    BY <1>9, <2>1, SupplyType
  <2>4. e >= a - f.qty
    BY <1>4, <1>6, <1>7, <2>1, <2>2, <2>3, ReducedSupply
  <2>5. f.op = "FOK" => a >= Leaves(f.o) + f.qty
    BY <1>2, <1>3, <2>2 DEF CallOK, CoveredOK
  <2>6. Leaves(f.o) \in Int
    BY <1>3, OrderNumbers
  <2> HIDE DEF c
  <2>7. f.op = "FOK" => e >= Leaves(f.o)
    BY <1>6, <2>4, <2>5, <2>6
  <2> QED
    BY <2>3, <2>7
<1> HIDE DEF c
<1>11. PICK g \in Frame : /\ g = AfterMatch(f) /\ g.pc = "sweep" /\ g.o = f.o
                          /\ g.op = f.op /\ g.sym = f.sym
  BY <1>3, AfterMatchOK
<1>12. FramesOf(stack') = {g} /\ Len(stack') <= 1
  BY <1>1, <1>2, <1>11, OneMoves
<1>13. OthersKept(x)
  <2>1. OthersIn(b, c, x)
    BY <1>8 DEF OthersIn
  <2>2. \A s \in Symbols : OthersIn(book[s], book'[s], x)
    BY <1>1, <1>3, <2>1, OneBookOthers
  <2>3. \A h \in FramesOf(stack) \cup FramesOf(stack') : h.pc = "reduce" => h.rest = x
    BY <1>3, <1>4, <1>11, <1>12
  <2>4. \A h \in FramesOf(stack) : h.op # "Tick" /\ h.o.id # x =>
            \E k \in FramesOf(stack') : k.op # "Tick" /\ k.o.id = h.o.id
    BY <1>3, <1>11, <1>12
  <2> QED
    BY <1>1, <2>2, <2>3, <2>4, Others
<1>14. SentKept /\ sent' = sent /\ nextId' = nextId
  BY <1>1, SentSame DEF routerVars
<1>15. f.qty < Leaves(node) \/ f.qty = Leaves(node)
  BY <1>6, <1>7
<1>16. /\ Resting(c, x) <=> f.qty < Leaves(node)
       /\ ~Resting(c, x) => /\ reported[x] = "Filled"
                            /\ traded[x] = node.qty /\ c.orders[x].filled = c.orders[x].qty
       /\ Resting(c, x) => reported[x] = "PartiallyFilled"
  <2>1. CASE f.qty < Leaves(node)
    BY <1>4, <1>6, <1>7, <1>8, <2>1 DEF Resting
  <2>2. CASE f.qty = Leaves(node)
    BY <1>6, <1>7, <1>8, <2>2 DEF Resting
  <2> QED
    BY <1>15, <2>1, <2>2
<1>17. OrderOK(x)' /\ FinalOK(x)
  <2>1. \A s \in Symbols : x \in book'[s].keys => KnownOK(s, x)'
    <3> SUFFICES ASSUME NEW s \in Symbols, x \in book'[s].keys PROVE KnownOK(s, x)'
      OBVIOUS
    <3>1. s = f.sym
      BY <1>4, <1>9
    <3>2. traded' = traded /\ reported' = reported
      BY <1>1
    <3>3. reported[x] \in Terminal => reported[x] = "Filled"
      BY <1>7 DEF Terminal
    <3> QED
      BY <1>7, <1>8, <1>9, <1>16, <3>1, <3>2, <3>3 DEF KnownOK
  <2>2. EndOK(x)'
    <3>1. traded' = traded /\ reported' = reported
      BY <1>1
    <3> QED
      BY <1>4, <1>9, <1>14, <1>16, <3>1 DEF EndOK, Terminal
  <2> QED
    BY <1>1, <1>5, <1>14, <2>1, <2>2 DEF OrderOK, FinalOK
<1>18. CallOK(g)'
  <2>1. AggressorOK(g)'
    <3>1. \A s \in Symbols : f.o.id \notin book'[s].keys
      BY <1>4, <1>8, <1>9
    <3> QED
      BY <1>1, <1>4, <1>11, <3>1 DEF AggressorOK
  <2>2. f.op = "FOK" => CoveredOK(g)'
    <3>1. Leaves(f.o) + 0 = Leaves(f.o)
      BY <1>3, OrderNumbers
    <3> QED
      BY <1>9, <1>10, <1>11, <3>1 DEF CoveredOK
  <2> QED
    BY <1>11, <2>1, <2>2 DEF CallOK
<1> QED
  BY <1>12, <1>13, <1>14, <1>17, <1>18, LedgerStep

-----------------------------------------------------------------------------
(* The end of a sweep *)

\* What is known of an order whose submission sweeps.
LEMMA SweepingOrder ==
    ASSUME IInv, TermsInv, LedgerInv, Running("sweep"), Top.op # "Tick"
    PROVE  LET o == Top.o
               x == Top.o.id
           IN  /\ o \in Order /\ x \in OrderId /\ x < nextId
               /\ sent[x].type = Top.op /\ sent[x].qty = o.qty /\ sent[x].sym = Top.sym
               /\ o.qty \in Nat /\ o.filled \in Nat /\ o.filled <= o.qty
               /\ Leaves(o) = o.qty - o.filled /\ traded[x] = o.filled
               /\ IF Leaves(o) > 0
                  THEN /\ reported[x] \in {"None", "PartiallyFilled"}
                       /\ o.status \in {"New", "PartiallyFilled"}
                  ELSE reported[x] = "Filled" /\ o.status = "Filled" /\ o.filled = o.qty
               /\ \A s \in Symbols : x \in book[s].keys =>
                     Leaves(o) = 0 /\ Top.op = "Limit" /\ KnownOK(s, x) /\ ~Reducing(s, x)
<1>1. stack # << >> /\ Top.pc = "sweep"
  BY DEF Running
<1>2. /\ CallOK(Top) /\ FrameTerms(Top) /\ Top.o \in Order /\ FramesOf(stack) = {Top}
  BY <1>1, CallFacts
<1>3. AggressorOK(Top)
  BY <1>1, <1>2 DEF CallOK
<1>4. Top.o.id \in OrderId
  BY <1>2 DEF FrameTerms, OrderTerms
<1>5. Top.o.id # 0
  BY <1>4, BookAssumption DEF OrderId
<1>6. /\ Top.o.id < nextId
      /\ sent[Top.o.id].type = Top.op /\ sent[Top.o.id].qty = Top.o.qty
      /\ sent[Top.o.id].sym = Top.sym
  BY <1>1, <1>4, AggressorId
<1>7. Top.o.qty \in Nat /\ Top.o.filled \in Nat /\ Leaves(Top.o) = Top.o.qty - Top.o.filled
  BY <1>2 DEF Order, Leaves
<1>8. traded[Top.o.id] = Top.o.filled /\ Top.o.filled <= Top.o.qty
  BY <1>3, <1>5 DEF AggressorOK
<1>9. IF Leaves(Top.o) > 0
      THEN /\ reported[Top.o.id] \in {"None", "PartiallyFilled"}
           /\ Top.o.status \in {"New", "PartiallyFilled"}
      ELSE reported[Top.o.id] = "Filled" /\ Top.o.status = "Filled" /\ Top.o.filled = Top.o.qty
  <2>1. ~(Leaves(Top.o) > 0) => Top.o.filled = Top.o.qty
    BY <1>7, <1>8
  <2> QED
    BY <1>3, <2>1 DEF AggressorOK
<1>10. ASSUME NEW s \in Symbols, Top.o.id \in book[s].keys
       PROVE  Leaves(Top.o) = 0 /\ Top.op = "Limit" /\ KnownOK(s, Top.o.id) /\ ~Reducing(s, Top.o.id)
  <2>1. Leaves(Top.o) = 0
    BY <1>3, <1>10 DEF AggressorOK
  <2>2. Top.op = "Limit"
    <3>1. sent[Top.o.id].type \in {"Limit", "Stop"}
      BY <1>10, OneBook
    <3>2. Top.op # "Stop"
      BY <1>1, <1>2, TopType DEF IInv, Frame, Ops
    <3> QED
      BY <1>6, <3>1, <3>2
  <2>3. KnownOK(s, Top.o.id)
    BY <1>4, <1>10 DEF LedgerInv, OrderOK
  <2> QED
    BY <1>1, <1>2, <2>1, <2>2, <2>3 DEF Reducing
<1> QED
  BY <1>2, <1>4, <1>6, <1>7, <1>8, <1>9, <1>10

\* The return of a call that swept.
LEMMA SweepReturns ==
    ASSUME IInv, IInv', TermsInv, LedgerInv, UNCHANGED routerVars,
           Running("sweep"), stack' = Return, NEW x \in OrderId, x = Top.o.id,
           \A id \in OrderId : id # x => reported'[id] = reported[id] /\ traded'[id] = traded[id],
           \A s \in Symbols : OthersIn(book[s], book'[s], x),
           \A s \in Symbols : x \in book'[s].keys => KnownOK(s, x)',
           x < nextId, EndOK(x)', FinalOK(x)
    PROVE  LedgerInv' /\ \A id \in OrderId : FinalOK(id)
<1>1. stack # << >> /\ Top.pc = "sweep" /\ FramesOf(stack) = {Top}
  BY OneFrame DEF Running
<1>2. FramesOf(stack') = {} /\ Len(stack') <= 1
  BY <1>1, OneReturns
<1>3. OthersKept(x)
  BY <1>1, <1>2, Others
<1>4. SentKept /\ nextId' = nextId
  BY SentSame DEF routerVars
<1>5. OrderOK(x)' /\ FinalOK(x)
  BY <1>4 DEF OrderOK
<1> QED
  BY <1>2, <1>3, <1>4, <1>5, LedgerStep

\* Where a book that is left alone knows the order, it still does.
LEMMA KnownKept ==
    ASSUME IInv, NEW s \in Symbols, NEW id, KnownOK(s, id), ~Reducing(s, id), ~Reducing(s, id)',
           book' = book, traded'[id] = traded[id], sent' = sent,
           reported'[id] = reported[id] \/ sent[id].type # "Limit"
    PROVE  KnownOK(s, id)'
BY DEF KnownOK

\* The end of a market order.
LEMMA FinishMarketLedger ==
    ASSUME IInv, IInv', TermsInv, LedgerInv, Continue(FinishMarket), Top.op = "Market"
    PROVE  LedgerInv' /\ \A id \in OrderId : FinalOK(id)
<1>1. PICK x, o : x = Top.o.id /\ o = Top.o
  OBVIOUS
<1>2. /\ Running("sweep") /\ UNCHANGED <<book, traded>> /\ UNCHANGED routerVars /\ stack' = Return
      /\ Report(x, IF Leaves(o) > 0 THEN "Cancelled" ELSE o.status)
  BY <1>1 DEF Continue, FinishMarket, SweepOver
<1>3. /\ x \in OrderId /\ x < nextId
      /\ sent[x].type = "Market" /\ sent[x].qty = o.qty
      /\ o.qty \in Nat /\ o.filled \in Nat /\ o.filled <= o.qty
      /\ Leaves(o) = o.qty - o.filled /\ traded[x] = o.filled
      /\ IF Leaves(o) > 0
         THEN reported[x] \in {"None", "PartiallyFilled"}
         ELSE reported[x] = "Filled" /\ o.status = "Filled" /\ o.filled = o.qty
      /\ \A s \in Symbols : x \notin book[s].keys
  BY <1>1, <1>2, SweepingOrder
<1>4. \A id \in OrderId :
          reported'[id] = IF id = x THEN IF Leaves(o) > 0 THEN "Cancelled" ELSE o.status
                          ELSE reported[id]
  BY <1>2 DEF Report
<1>5. EndOK(x)'
  <2>1. sent' = sent
    BY <1>2 DEF routerVars
  <2>2. reported'[x] \in Terminal /\ (reported'[x] = "Filled" <=> traded[x] = o.qty)
    BY <1>3, <1>4 DEF Terminal
  <2> QED
    BY <1>2, <1>3, <2>1, <2>2 DEF EndOK
<1>6. FinalOK(x)
  BY <1>2, <1>3, <1>4 DEF FinalOK, Terminal
<1>7. \A s \in Symbols : OthersIn(book[s], book'[s], x)
  BY <1>2 DEF OthersIn
<1>8. \A s \in Symbols : x \notin book'[s].keys
  BY <1>2, <1>3
<1> QED
  BY <1>1, <1>2, <1>3, <1>4, <1>5, <1>6, <1>7, <1>8, SweepReturns

\* The end of a limit order that was filled, and of an IOC.
LEMMA FinishSilentlyLedger ==
    ASSUME IInv, IInv', TermsInv, LedgerInv, Continue(FinishSilently)
    PROVE  LedgerInv' /\ \A id \in OrderId : FinalOK(id)
<1>1. PICK x, o : x = Top.o.id /\ o = Top.o
  OBVIOUS
<1>2. /\ Running("sweep") /\ UNCHANGED <<book, traded, reported>> /\ UNCHANGED routerVars
      /\ stack' = Return
      /\ Top.op = "IOC" \/ (Top.op = "Limit" /\ Leaves(o) = 0)
  BY <1>1 DEF Continue, FinishSilently, SweepOver
<1>3. /\ x \in OrderId /\ x < nextId
      /\ sent[x].type = Top.op /\ sent[x].qty = o.qty
      /\ o.qty \in Nat /\ o.filled \in Nat
      /\ Leaves(o) = o.qty - o.filled /\ traded[x] = o.filled
      /\ Leaves(o) = 0 => reported[x] = "Filled" /\ o.filled = o.qty
      /\ \A s \in Symbols : x \in book[s].keys => KnownOK(s, x) /\ ~Reducing(s, x)
  BY <1>1, <1>2, SweepingOrder
<1>4. sent' = sent
  BY <1>2 DEF routerVars
<1>5. EndOK(x)'
  BY <1>2, <1>3, <1>4 DEF EndOK, Terminal
<1>6. FinalOK(x)
  BY <1>2 DEF FinalOK
<1>7. \A s \in Symbols : OthersIn(book[s], book'[s], x)
  BY <1>2 DEF OthersIn
<1>8. ASSUME NEW s \in Symbols, x \in book'[s].keys PROVE KnownOK(s, x)'
  <2>1. ~Reducing(s, x)'
    BY <1>2, OneReturns DEF Running, Reducing
  <2> QED
    BY <1>2, <1>3, <1>4, <1>8, <2>1, KnownKept
<1> QED
  BY <1>1, <1>2, <1>3, <1>5, <1>6, <1>7, <1>8, SweepReturns

\* A FOK order that came to sweep was filled.
LEMMA FinishFokLedger ==
    ASSUME IInv, IInv', TermsInv, LedgerInv, Continue(FinishFok)
    PROVE  LedgerInv' /\ \A id \in OrderId : FinalOK(id)
<1>1. PICK x, o : x = Top.o.id /\ o = Top.o
  OBVIOUS
<1>2. /\ Running("sweep") /\ UNCHANGED <<book, traded>> /\ UNCHANGED routerVars
      /\ stack' = Return /\ Report(x, o.status) /\ Top.op = "FOK" /\ Matchable(Top) = {}
  BY <1>1 DEF Continue, FinishFok, SweepOver
<1>3. /\ o \in Order /\ x \in OrderId /\ x < nextId
      /\ sent[x].type = "FOK" /\ sent[x].qty = o.qty
      /\ o.qty \in Nat /\ o.filled \in Nat
      /\ Leaves(o) = o.qty - o.filled /\ traded[x] = o.filled
      /\ ~(Leaves(o) > 0) => reported[x] = "Filled" /\ o.status = "Filled" /\ o.filled = o.qty
      /\ \A s \in Symbols : x \notin book[s].keys
  BY <1>1, <1>2, SweepingOrder
<1>4. ~(Leaves(o) > 0)
  <2> SUFFICES ASSUME Leaves(o) > 0 PROVE FALSE
    OBVIOUS
  <2>1. Reachable(book[Top.sym], o.side, o.limit) = {}
    BY <1>1, <1>2 DEF Matchable, PriceLimit
  <2>2. BookOK(book[Top.sym]) /\ o.side \in Sides /\ CallOK(Top) /\ Top.pc = "sweep"
    BY <1>2, <1>3, CallFacts DEF Running, Order
  <2>3. Supply(book[Top.sym], o.side, o.limit) = 0
    BY <2>1, <2>2, SupplyEmpty
  <2>4. 0 >= Leaves(o) + 0
    BY <1>1, <1>2, <2>2, <2>3 DEF CallOK, CoveredOK
  <2> QED
    BY <1>3, <2>4
<1>5. \A id \in OrderId : reported'[id] = IF id = x THEN "Filled" ELSE reported[id]
  BY <1>2, <1>3, <1>4 DEF Report
<1>6. EndOK(x)'
  <2>1. sent' = sent
    BY <1>2 DEF routerVars
  <2> QED
    BY <1>2, <1>3, <1>4, <1>5, <2>1 DEF EndOK, Terminal
<1>7. FinalOK(x)
  BY <1>2, <1>3, <1>4, <1>5 DEF FinalOK
<1>8. \A s \in Symbols : OthersIn(book[s], book'[s], x)
  BY <1>2 DEF OthersIn
<1>9. \A s \in Symbols : x \notin book'[s].keys
  BY <1>2, <1>3
<1> QED
  BY <1>1, <1>2, <1>3, <1>5, <1>6, <1>7, <1>8, <1>9, SweepReturns

\* The residual of a limit order comes to rest with the ledger of its fills.
LEMMA RestResidualLedger ==
    ASSUME IInv, IInv', TermsInv, LedgerInv, Continue(RestResidual)
    PROVE  LedgerInv' /\ \A id \in OrderId : FinalOK(id)
<1>1. PICK x, o, t : x = Top.o.id /\ o = Top.o /\ t = Top.sym
  OBVIOUS
<1>2. /\ Running("sweep") /\ UNCHANGED traded /\ UNCHANGED routerVars
      /\ stack' = Return /\ Report(x, o.status) /\ QueueUp(o) /\ Top.op = "Limit" /\ Leaves(o) > 0
  BY <1>1 DEF Continue, RestResidual, SweepOver
<1>3. /\ o \in Order /\ x \in OrderId /\ x < nextId
      /\ sent[x].type = "Limit" /\ sent[x].sym = t
      /\ traded[x] = o.filled
      /\ reported[x] \in {"None", "PartiallyFilled"}
      /\ o.status \in {"New", "PartiallyFilled"}
      /\ \A s \in Symbols : x \notin book[s].keys
  <2>1. ~(Leaves(o) = 0)
    BY <1>2
  <2> QED
    BY <1>1, <1>2, <2>1, SweepingOrder
<1>4. FrameOK(Top) /\ t \in Symbols
  BY <1>1, <1>2, CallFacts DEF Running
<1>5. o.sym = t /\ o.id = x
  BY <1>1, <1>2, <1>4 DEF FrameOK, LimitFrameOK
<1> DEFINE c == Add(book[t], o)
<1>6. book' = [book EXCEPT ![t] = c] /\ book[t] \in Book /\ book'[t] = c
  BY <1>2, <1>4, <1>5 DEF QueueUp, IInv, TypeOK
<1>7. o.side \in Sides
  BY <1>3 DEF Order
<1>8. /\ c.keys = book[t].keys \cup {x} /\ c.orders[x] = o /\ c.tag[x] = o.side
      /\ \A id \in OrderId : id # x => /\ c.orders[id] = book[t].orders[id]
                                       /\ c.tag[id] = book[t].tag[id]
  BY <1>3, <1>5, <1>6 DEF Add, Book
<1> HIDE DEF c
<1>9. Resting(c, x)
  BY <1>7, <1>8 DEF Resting, Sides
<1>10. \A s \in Symbols : OthersIn(book[s], book'[s], x)
  <2>1. OthersIn(book[t], c, x)
    BY <1>8 DEF OthersIn
  <2> QED
    BY <1>4, <1>6, <2>1, OneBookOthers
<1>11. \A id \in OrderId : reported'[id] = IF id = x THEN o.status ELSE reported[id]
  BY <1>2 DEF Report
<1>12. sent' = sent
  BY <1>2 DEF routerVars
<1>13. ASSUME NEW s \in Symbols, x \in book'[s].keys PROVE KnownOK(s, x)'
  <2>1. s = t
    BY <1>3, <1>4, <1>6, <1>13 DEF IInv, TypeOK
  <2> QED
    BY <1>2, <1>3, <1>6, <1>8, <1>9, <1>11, <2>1 DEF KnownOK, Terminal
<1>14. EndOK(x)'
  BY <1>3, <1>6, <1>9, <1>12 DEF EndOK
<1>15. FinalOK(x)
  BY <1>3 DEF FinalOK, Terminal
<1> QED
  BY <1>1, <1>2, <1>3, <1>10, <1>11, <1>13, <1>14, <1>15, SweepReturns

-----------------------------------------------------------------------------
(* Ticks *)

\* A step of a tick is about one stop at most, of which clients are told
\* nothing that would have ended it.
LEMMA TickStep ==
    ASSUME IInv, IInv', TermsInv, LedgerInv, UNCHANGED routerVars,
           stack # << >>, Top.op = "Tick", Top.pc # "reduce",
           NEW g \in Frame, stack' = SetTop(g), g.pc # "reduce", CallOK(g)',
           NEW x, x \in OrderId => x < nextId /\ sent[x].type = "Stop",
           \A id \in OrderId : id # x => reported'[id] = reported[id] /\ traded'[id] = traded[id],
           \A s \in Symbols : OthersIn(book[s], book'[s], x),
           \A s \in Symbols : x \in book'[s].keys => KnownOK(s, x)'
    PROVE  LedgerInv' /\ \A id \in OrderId : FinalOK(id)
<1>1. FramesOf(stack) = {Top}
  BY OneFrame
<1>2. FramesOf(stack') = {g} /\ Len(stack') <= 1
  BY OneMoves
<1>3. OthersKept(x)
  BY <1>1, <1>2, Others
<1>4. SentKept /\ sent' = sent /\ nextId' = nextId
  BY SentSame DEF routerVars
<1>5. ASSUME x \in OrderId PROVE OrderOK(x)' /\ FinalOK(x)
  <2>1. x < nextId /\ sent'[x].type = "Stop"
    BY <1>4, <1>5
  <2>2. ~InFlight(x)' => EndOK(x)'
    BY <2>1, NotEnded
  <2> QED
    BY <1>4, <1>5, <2>1, <2>2 DEF OrderOK, FinalOK
<1> QED
  BY <1>2, <1>3, <1>4, <1>5, LedgerStep

\* A tick's sweep ends with a report on its stop, and goes on.
LEMMA SettleLedger ==
    ASSUME IInv, IInv', TermsInv, LedgerInv, Continue(FinishMarket), Top.op = "Tick"
    PROVE  LedgerInv' /\ \A id \in OrderId : FinalOK(id)
<1>1. PICK x, f : x = Top.o.id /\ f = Top
  OBVIOUS
<1>2. /\ Running("sweep") /\ UNCHANGED <<book, traded>> /\ UNCHANGED routerVars
      /\ stack' = SetTop(At(f, "settled"))
      /\ \A id \in OrderId : id # x => reported'[id] = reported[id]
  BY <1>1 DEF Continue, FinishMarket, SweepOver, Report
<1>3. stack # << >> /\ f.pc = "sweep" /\ f \in Frame /\ FramesOf(stack) = {f}
  BY <1>1, <1>2, CallFacts DEF Running
<1>4. PICK g \in Frame : g = At(f, "settled") /\ g.pc = "settled" /\ g.op = "Tick"
  BY <1>1, <1>3, AtOK DEF Pcs
<1>5. CallOK(g)'
  BY <1>4 DEF CallOK
<1>6. x \in OrderId => x < nextId /\ sent[x].type = "Stop"
  BY <1>1, <1>3, AggressorId
<1>7. FramesOf(stack') = {g}
  BY <1>2, <1>3, <1>4, OneMoves
<1>8. ASSUME NEW s \in Symbols, x \in book'[s].keys PROVE KnownOK(s, x)'
  <2>1. x \in book[s].keys /\ sent' = sent
    BY <1>2, <1>8 DEF routerVars
  <2>2. x \in OrderId /\ sent[x].type # "Limit"
    BY <1>6, <2>1, OneBook
  <2>3. KnownOK(s, x)
    BY <2>1, <2>2 DEF LedgerInv, OrderOK
  <2>4. ~Reducing(s, x) /\ ~Reducing(s, x)'
    BY <1>3, <1>4, <1>7 DEF Reducing
  <2> QED
    BY <1>2, <2>1, <2>2, <2>3, <2>4, KnownKept
<1>9. \A s \in Symbols : OthersIn(book[s], book'[s], x)
  BY <1>2 DEF OthersIn
<1> QED
  BY <1>1, <1>2, <1>3, <1>4, <1>5, <1>6, <1>8, <1>9, TickStep

\* So does the return of a tick, which changes nothing else.
LEMMA FinishTickLedger ==
    ASSUME IInv, IInv', TermsInv, LedgerInv, Continue(FinishTick)
    PROVE  LedgerInv' /\ \A id \in OrderId : FinalOK(id)
<1>1. /\ AtTrigger /\ UNCHANGED <<book, traded, reported>> /\ UNCHANGED routerVars
      /\ stack' = Return
  BY DEF Continue, FinishTick
<1>2. stack # << >> /\ Top.pc \in {"trigger", "settled"}
  BY <1>1 DEF AtTrigger, Running
<1>3. FramesOf(stack) = {Top} /\ FrameOK(Top)
  BY <1>2, CallFacts
<1>4. Top.op = "Tick"
  BY <1>2, <1>3 DEF FrameOK
<1>5. FramesOf(stack') = {} /\ Len(stack') <= 1
  BY <1>1, <1>2, OneReturns
<1>6. \A s \in Symbols : OthersIn(book[s], book'[s], 0)
  BY <1>1 DEF OthersIn
<1>7. OthersKept(0)
  BY <1>1, <1>2, <1>3, <1>4, <1>5, <1>6, Others
<1>8. SentKept /\ nextId' = nextId
  BY <1>1, SentSame DEF routerVars
<1>9. 0 \notin OrderId
  BY BookAssumption DEF OrderId
<1> QED
  BY <1>5, <1>7, <1>8, <1>9, LedgerStep

\* A triggered stop is reported, and keeps its ledger.
LEMMA TriggerStopLedger ==
    ASSUME IInv, IInv', TermsInv, LedgerInv, Continue(TriggerStop)
    PROVE  LedgerInv' /\ \A id \in OrderId : FinalOK(id)
<1>1. PICK f, t : f = Top /\ t = f.sym
  OBVIOUS
<1>2. PICK x \in f.todo :
          IF x \in book[t].keys
          THEN /\ book'  = [book EXCEPT ![t] = Written(book[t], x, AsMarket(book[t].orders[x]))]
               /\ stack' = SetTop(With(Without(f, x), "activate", AsMarket(book[t].orders[x])))
               /\ Report(x, "Triggered")
          ELSE /\ stack' = SetTop(At(Without(f, x), "trigger"))
               /\ UNCHANGED <<book, reported>>
  BY <1>1 DEF Continue, TriggerStop
<1>3. AtTrigger /\ UNCHANGED routerVars /\ traded' = traded
  BY DEF Continue, TriggerStop
<1>4. stack # << >> /\ f.pc \in {"trigger", "settled"}
  BY <1>1, <1>3 DEF AtTrigger, Running
<1>5. /\ f \in Frame /\ FrameOK(f) /\ t \in Symbols /\ BookOK(book[t]) /\ FrameTerms(f)
      /\ FramesOf(stack) = {f}
  BY <1>1, <1>4, CallFacts
<1>6. x \in OrderId /\ f.op = "Tick" /\ book[t] \in Book
  BY <1>4, <1>5 DEF FrameOK, Frame, BookOK
<1>7. x < nextId /\ sent[x].type = "Stop"
  BY <1>5, <1>6 DEF FrameTerms, TickTerms
<1>8. PICK h \in Frame : h = Without(f, x) /\ h.op = f.op /\ h.sym = f.sym
  BY <1>5, WithoutOK
<1>9. sent' = sent
  BY <1>3 DEF routerVars
<1>10. CASE x \in book[t].keys
  <2>1. book[t].orders[x] \in Order /\ book[t].orders[x].id = x
    BY <1>5, <1>6, <1>10 DEF BookOK, Book, KeysSound
  <2>2. PICK o \in Order : /\ o = AsMarket(book[t].orders[x]) /\ o.id = x
                           /\ o.filled = book[t].orders[x].filled /\ o.qty = book[t].orders[x].qty
    BY <2>1, AsMarketOK
  <2> DEFINE c == Written(book[t], x, o)
  <2>3. /\ book'  = [book EXCEPT ![t] = c]
        /\ stack' = SetTop(With(h, "activate", o)) /\ Report(x, "Triggered")
    BY <1>2, <1>8, <1>10, <2>2
  <2>4. /\ c.keys = book[t].keys /\ c.tag = book[t].tag /\ c.orders[x] = o
        /\ \A id \in OrderId : id # x => c.orders[id] = book[t].orders[id]
    BY <1>6 DEF Written, Book
  <2>5. \A s \in Symbols : book'[s] = IF s = t THEN c ELSE book[s]
    BY <1>5, <2>3 DEF IInv, TypeOK
  <2> HIDE DEF c
  <2>6. PICK g \in Frame : /\ g = With(h, "activate", o) /\ g.pc = "activate" /\ g.o = o
                           /\ g.op = h.op /\ g.sym = h.sym
    <3>1. "activate" \in Pcs
      BY DEF Pcs
    <3> QED
      BY <3>1, WithOK
  <2>7. g.op = "Tick" /\ g.sym = t
    BY <1>1, <1>6, <1>8, <2>6
  <2>8. CallOK(g)'
    BY <1>5, <1>10, <2>2, <2>4, <2>5, <2>6, <2>7 DEF CallOK
  <2>9. \A id \in OrderId : id # x => reported'[id] = reported[id] /\ traded'[id] = traded[id]
    BY <1>3, <2>3 DEF Report
  <2>10. \A s \in Symbols : OthersIn(book[s], book'[s], x)
    <3>1. OthersIn(book[t], c, x)
      BY <2>4 DEF OthersIn
    <3> QED
      BY <1>5, <2>3, <3>1, OneBookOthers
  <2>11. FramesOf(stack') = {g}
    BY <1>4, <2>3, <2>6, OneMoves
  <2>12. \A s \in Symbols : x \in book'[s].keys => KnownOK(s, x)'
    <3> SUFFICES ASSUME NEW s \in Symbols, x \in book'[s].keys PROVE KnownOK(s, x)'
      OBVIOUS
    <3>1. s = t
      BY <1>5, <1>10, <2>5, OneBook
    <3>2. KnownOK(t, x)
      BY <1>5, <1>6, <1>10 DEF LedgerInv, OrderOK
    <3>3. ~Reducing(t, x) /\ ~Reducing(t, x)'
      BY <1>4, <1>5, <2>6, <2>11 DEF Reducing
    <3>4. Resting(c, x) <=> Resting(book[t], x)
      BY <2>4 DEF Resting
    <3>5. c.orders[x].filled = book[t].orders[x].filled /\ c.orders[x].qty = book[t].orders[x].qty
      BY <2>2, <2>4
    <3>6. book'[t] = c
      BY <1>5, <2>5
    <3> QED
      BY <1>3, <1>7, <1>9, <3>1, <3>2, <3>3, <3>4, <3>5, <3>6 DEF KnownOK
  <2> QED
    BY <1>1, <1>3, <1>4, <1>6, <1>7, <2>3, <2>6, <2>7, <2>8, <2>9, <2>10, <2>12, TickStep
<1>11. CASE x \notin book[t].keys
  <2>1. stack' = SetTop(At(h, "trigger")) /\ book' = book /\ reported' = reported
    BY <1>2, <1>8, <1>11
  <2>2. PICK g \in Frame : g = At(h, "trigger") /\ g.pc = "trigger" /\ g.op = h.op
    BY <1>8, AtOK DEF Pcs
  <2>3. CallOK(g)' /\ g.op = "Tick"
    BY <1>6, <1>8, <2>2 DEF CallOK
  <2>4. FramesOf(stack') = {g}
    BY <1>4, <2>1, <2>2, OneMoves
  <2>5. \A s \in Symbols : x \in book'[s].keys => KnownOK(s, x)'
    <3> SUFFICES ASSUME NEW s \in Symbols, x \in book[s].keys PROVE KnownOK(s, x)'
      BY <2>1
    <3>1. KnownOK(s, x)
      BY <1>6 DEF LedgerInv, OrderOK
    <3>2. ~Reducing(s, x) /\ ~Reducing(s, x)'
      BY <1>4, <1>5, <2>2, <2>4 DEF Reducing
    <3> QED
      BY <1>3, <1>9, <2>1, <3>1, <3>2, KnownKept
  <2>6. \A s \in Symbols : OthersIn(book[s], book'[s], x)
    BY <2>1 DEF OthersIn
  <2> QED
    BY <1>1, <1>3, <1>4, <1>6, <1>7, <2>1, <2>2, <2>3, <2>5, <2>6, TickStep
<1> QED
  BY <1>10, <1>11

\* An activated stop sweeps with what is left of it: nothing, where the book had
\* filled it, and otherwise what it had left when the book forgot it.
LEMMA ActivateStopLedger ==
    ASSUME CleanGarbage, IInv, IInv', TermsInv, LedgerInv, Continue(ActivateStop)
    PROVE  LedgerInv' /\ \A id \in OrderId : FinalOK(id)
<1>1. PICK f, t, x : f = Top /\ t = f.sym /\ x = f.o.id
  OBVIOUS
<1> DEFINE a == book[t]
           b == IF CanCancel(a, x) THEN Cancelled(a, x) ELSE a
           n == Marked(b.orders[x], "New")
           c == Written(b, x, n)
<1>2. /\ Running("activate") /\ UNCHANGED <<traded, reported>> /\ UNCHANGED routerVars
      /\ book' = [book EXCEPT ![t] = c]
      /\ \E r \in IF x \in b.keys THEN {n} ELSE DanglingRead(n) :
            stack' = SetTop(With(f, "sweep", r))
  BY <1>1 DEF Continue, ActivateStop
<1>3. stack # << >> /\ f.pc = "activate"
  BY <1>1, <1>2 DEF Running
<1>4. /\ f \in Frame /\ FrameOK(f) /\ t \in Symbols /\ BookOK(a) /\ FrameTerms(f)
      /\ CallOK(f) /\ FramesOf(stack) = {f}
  BY <1>1, <1>3, CallFacts
<1>5. x \in OrderId /\ f.op = "Tick" /\ a \in Book /\ x # 0 /\ x \in a.keys
  BY <1>1, <1>3, <1>4, BookAssumption DEF FrameOK, BookOK, OrderId, CallOK
<1>6. x < nextId /\ sent[x].type = "Stop"
  BY <1>1, <1>4, <1>5 DEF FrameTerms, TickTerms
<1>7. /\ a.orders[x] \in Order /\ a.orders[x].id = x
      /\ a.orders[x].filled <= a.orders[x].qty
      /\ \A s \in Symbols : x \in book[s].keys => s = t
  BY <1>4, <1>5, OneBook, LedgerOfKey DEF Book
<1>8. KnownOK(t, x) /\ ~Reducing(t, x)
  BY <1>3, <1>4, <1>5 DEF LedgerInv, OrderOK, Reducing
<1>9. traded[x] = a.orders[x].filled
  BY <1>8 DEF KnownOK
<1> HIDE DEF a
<1>10. /\ b.keys = IF CanCancel(a, x) THEN a.keys \ {x} ELSE a.keys
       /\ b.orders[x] \in Order /\ b.orders[x].id = x /\ b.orders[x].filled = a.orders[x].filled
       /\ b.orders[x].qty = a.orders[x].qty
       /\ ~CanCancel(a, x) => b = a
       /\ \A id \in OrderId : id # x => b.orders[id] = a.orders[id] /\ b.tag[id] = a.tag[id]
       /\ b.orders \in [OrderId -> Order]
  <2>1. CASE CanCancel(a, x)
    BY <1>5, <1>7, <2>1 DEF Cancelled, Book, Order, Status
  <2>2. CASE ~CanCancel(a, x)
    BY <1>5, <1>7, <2>2 DEF Book
  <2> QED
    BY <2>1, <2>2
<1> HIDE DEF b
<1>11. /\ n \in Order /\ n.id = x /\ n.filled = a.orders[x].filled /\ n.qty = a.orders[x].qty
  BY <1>10, MarkedOK DEF Status
<1>12. PICK r \in Order : /\ stack' = SetTop(With(f, "sweep", r))
                          /\ r.id # 0 => r = n
                          /\ x \in b.keys => r = n
  BY <1>2, <1>11, GarbageAssumption DEF DanglingRead, CleanGarbage
<1> HIDE DEF n
<1>13. /\ c.keys = b.keys /\ c.tag = b.tag /\ c.orders[x] = n
       /\ \A id \in OrderId : id # x => c.orders[id] = a.orders[id] /\ c.tag[id] = a.tag[id]
  BY <1>5, <1>10 DEF Written
<1>14. \A s \in Symbols : book'[s] = IF s = t THEN c ELSE book[s]
  BY <1>2, <1>4 DEF IInv, TypeOK
<1> HIDE DEF c
<1>15. PICK g \in Frame : g = With(f, "sweep", r) /\ g.pc = "sweep" /\ g.op = "Tick" /\ g.o = r
  <2>1. "sweep" \in Pcs
    BY DEF Pcs
  <2> QED
    BY <1>4, <1>5, <2>1, WithOK
<1>16. \A s \in Symbols : x \in book'[s].keys => s = t /\ ~CanCancel(a, x)
  BY <1>4, <1>7, <1>10, <1>13, <1>14
<1>17. ~CanCancel(a, x) => /\ ~Resting(a, x) /\ a.orders[x].filled = a.orders[x].qty
                           /\ c.keys = a.keys /\ c.tag = a.tag
  BY <1>5, <1>8, <1>10, <1>13 DEF CanCancel, KnownOK, a
<1>18. CallOK(g)'
  <2>1. r.id # 0 => traded'[r.id] = r.filled /\ r.filled <= r.qty
    BY <1>2, <1>7, <1>9, <1>11, <1>12
  <2>2. ASSUME NEW s \in Symbols, r.id \in book'[s].keys PROVE Leaves(r) = 0
    <3>1. r.id \in OrderId
      BY <2>2 DEF IInv, BooksInv, BookOK, Book
    <3>2. r = n /\ r.id = x
      BY <1>11, <1>12, <3>1, BookAssumption DEF OrderId
    <3>3. n.filled = n.qty
      BY <1>11, <1>16, <1>17, <2>2, <3>2
    <3> QED
      BY <1>11, <3>2, <3>3 DEF Leaves, Order
  <2>3. AggressorOK(g)'
    BY <1>15, <2>1, <2>2 DEF AggressorOK
  <2> QED
    BY <1>15, <2>3 DEF CallOK
<1>19. \A s \in Symbols : OthersIn(book[s], book'[s], x)
  <2>1. OthersIn(a, c, x)
    BY <1>10, <1>13 DEF OthersIn
  <2> QED
    BY <1>2, <1>4, <2>1, OneBookOthers DEF a
<1>20. FramesOf(stack') = {g}
  BY <1>3, <1>12, <1>15, OneMoves
<1>21. ASSUME NEW s \in Symbols, x \in book'[s].keys PROVE KnownOK(s, x)'
  <2>1. s = t /\ ~CanCancel(a, x) /\ book'[t] = c
    BY <1>4, <1>14, <1>16, <1>21
  <2>2. ~Resting(c, x)
    BY <1>17, <2>1 DEF Resting
  <2>3. traded'[x] = n.filled /\ n.filled = n.qty
    BY <1>2, <1>9, <1>11, <1>17, <2>1
  <2> QED
    BY <1>13, <2>1, <2>2, <2>3 DEF KnownOK
<1> QED
  BY <1>1, <1>2, <1>3, <1>5, <1>6, <1>12, <1>15, <1>18, <1>19, <1>21, TickStep

-----------------------------------------------------------------------------
(* The calls of clients *)

\* A client's call is about one order at most, and may leave a call in progress.
LEMMA ClientLedgerStep ==
    ASSUME IInv, IInv', TermsInv, LedgerInv, SentKept, stack = << >>, NEW x,
           nextId' = nextId \/ (x = nextId /\ nextId' = nextId + 1),
           \A id \in OrderId : id # x => reported'[id] = reported[id] /\ traded'[id] = traded[id],
           \A s \in Symbols : OthersIn(book[s], book'[s], x),
           x \in OrderId => OrderOK(x)' /\ FinalOK(x),
           \/ stack' = stack
           \/ \E g \in Frame : stack' = Append(stack, g) /\ g.pc # "reduce" /\ CallOK(g)'
    PROVE  LedgerInv' /\ \A id \in OrderId : FinalOK(id)
<1>1. FramesOf(stack) = {}
  BY NoFrame
<1>2. /\ Len(stack') <= 1
      /\ \A f \in FramesOf(stack') : CallOK(f)' /\ f.pc # "reduce"
  <2>1. CASE stack' = stack
    BY <1>1, <2>1 DEF LedgerInv
  <2>2. CASE \E g \in Frame : stack' = Append(stack, g) /\ g.pc # "reduce" /\ CallOK(g)'
    <3>1. PICK g \in Frame : stack' = Append(stack, g) /\ g.pc # "reduce" /\ CallOK(g)'
      BY <2>2
    <3>2. FramesOf(stack') = {g} /\ Len(stack') <= 1
      BY <3>1, OneCalls
    <3> QED
      BY <3>1, <3>2
  <2> QED
    BY <2>1, <2>2
<1>3. OthersKept(x)
  BY <1>1, <1>2, Others
<1> QED
  BY <1>2, <1>3, LedgerStep

\* Registering a symbol, and the rejection of an invalid order, which is
\* reported under no order's id, are about no order.
LEMMA IdleLedger ==
    ASSUME MaxDepth = 1, IInv, IInv', TermsInv, LedgerInv,
           (\E s \in Symbols : RegisterSymbol(s)) \/ SubmitInvalid
    PROVE  LedgerInv' /\ \A id \in OrderId : FinalOK(id)
<1>1. 0 \notin OrderId
  BY BookAssumption DEF OrderId
<1>2. /\ MayCall /\ UNCHANGED <<book, stack, traded, nextId, sent>>
      /\ \A id \in OrderId : reported'[id] = reported[id]
  BY <1>1 DEF RegisterSymbol, SubmitInvalid, Report
<1>3. stack = << >>
  BY <1>2, OneCallAtATime
<1>4. SentKept
  BY <1>2, NextIdType DEF SentKept, IInv
<1>5. \A s \in Symbols : OthersIn(book[s], book'[s], 0)
  BY <1>2 DEF OthersIn
<1> QED
  BY <1>1, <1>2, <1>3, <1>4, <1>5, ClientLedgerStep

\* So is a tick, until it activates a stop.
LEMMA FeedTickLedger ==
    ASSUME MaxDepth = 1, IInv, IInv', TermsInv, LedgerInv, NEW s \in Symbols, NEW last,
           FeedTick(s, last)
    PROVE  LedgerInv' /\ \A id \in OrderId : FinalOK(id)
<1>1. /\ MayCall /\ UNCHANGED <<book, traded, reported>> /\ UNCHANGED routerVars
      /\ stack' = Append(stack, NewFrame(s, "Tick", "trigger", NoOrder, Triggered(s, last)))
  BY DEF FeedTick, Tick, Call
<1>2. stack = << >>
  BY <1>1, OneCallAtATime
<1>3. Triggered(s, last) \in SUBSET OrderId
  BY DEF Triggered, IInv, TypeOK
<1>4. "Tick" \in Ops /\ "trigger" \in Pcs
  BY DEF Ops, Pcs
<1>5. PICK g \in Frame :
          /\ g = NewFrame(s, "Tick", "trigger", NoOrder, Triggered(s, last))
          /\ g.op = "Tick" /\ g.pc = "trigger"
  BY <1>3, <1>4, NewFrameOK, NoOrderType
<1>6. CallOK(g)'
  BY <1>5 DEF CallOK
<1>7. stack' = Append(stack, g) /\ g.pc # "reduce"
  BY <1>1, <1>5
<1>8. \A t \in Symbols : OthersIn(book[t], book'[t], 0)
  BY <1>1 DEF OthersIn
<1>9. SentKept /\ nextId' = nextId /\ 0 \notin OrderId
  BY <1>1, SentSame, BookAssumption DEF OrderId, routerVars
<1> QED
  BY <1>1, <1>2, <1>6, <1>7, <1>8, <1>9, ClientLedgerStep

\* A cancel ends an order that rested, and so was not filled; no book knows it
\* any more.
LEMMA CancelOrderLedger ==
    ASSUME MaxDepth = 1, IInv, IInv', TermsInv, LedgerInv, NEW x \in OrderId, CancelOrder(x)
    PROVE  LedgerInv' /\ \A id \in OrderId : FinalOK(id)
<1>1. /\ MayCall /\ symbolOf[x] # NoSymbol /\ CanCancel(book[symbolOf[x]], x)
      /\ book' = [book EXCEPT ![symbolOf[x]] = Cancelled(@, x)]
      /\ Report(x, "Cancelled")
      /\ UNCHANGED <<stack, traded, nextId, sent>>
  BY DEF CancelOrder
<1>2. stack = << >>
  BY <1>1, OneCallAtATime
<1>3. PICK t \in Symbols : t = symbolOf[x]
  BY <1>1 DEF IInv, TypeOK
<1> DEFINE b == book[t]
           c == Cancelled(b, x)
<1>4. b \in Book /\ BookOK(b) /\ Resting(b, x) /\ x \in b.keys
  BY <1>1, <1>3 DEF IInv, TypeOK, BooksInv, CanCancel
<1>5. book' = [book EXCEPT ![t] = c] /\ \A s \in Symbols : book'[s] = IF s = t THEN c ELSE book[s]
  BY <1>1, <1>3 DEF IInv, TypeOK
<1>6. /\ c.keys = b.keys \ {x}
      /\ \A id \in OrderId : id # x => c.orders[id] = b.orders[id] /\ c.tag[id] = b.tag[id]
  BY <1>4 DEF Cancelled, Book
<1> HIDE DEF c
<1>7. /\ sent[x].sym = t /\ x < nextId /\ sent[x].qty = b.orders[x].qty
      /\ sent[x].type \in {"Limit", "Stop"}
      /\ \A s \in Symbols : x \in book[s].keys => s = t
  BY <1>4, OneBook
<1>8. KnownOK(t, x) /\ ~Reducing(t, x)
  BY <1>2, <1>4, NoFrame DEF LedgerInv, OrderOK
<1>9. traded[x] < sent[x].qty
  <2>1. b.orders[x].filled < b.orders[x].qty
    BY <1>4, LedgerOfKey
  <2> QED
    BY <1>7, <1>8, <2>1 DEF KnownOK
<1>10. traded[x] # sent[x].qty
  <2>1. traded[x] \in Nat
    BY DEF IInv, TypeOK
  <2> QED
    BY <1>9, <2>1
<1>11. \A id \in OrderId : reported'[id] = IF id = x THEN "Cancelled" ELSE reported[id]
  BY <1>1 DEF Report
<1>12. \A s \in Symbols : x \notin book'[s].keys
  BY <1>5, <1>6, <1>7
<1>13. EndOK(x)'
  BY <1>1, <1>7, <1>10, <1>11 DEF EndOK, Terminal
<1>14. FinalOK(x)
  BY <1>4, <1>7, <1>8 DEF FinalOK, KnownOK
<1>15. OrderOK(x)'
  BY <1>1, <1>7, <1>12, <1>13 DEF OrderOK
<1>16. \A s \in Symbols : OthersIn(book[s], book'[s], x)
  <2>1. OthersIn(b, c, x)
    BY <1>6 DEF OthersIn
  <2> QED
    BY <1>5, <2>1, OneBookOthers
<1>17. SentKept
  BY <1>1, NextIdType DEF SentKept, IInv
<1> QED
  BY <1>1, <1>2, <1>11, <1>14, <1>15, <1>16, <1>17, ClientLedgerStep

\* What a submission finds of its id: nobody was told of it, no book knows it.
LEMMA FreshOrder ==
    ASSUME IInv, LedgerInv, nextId \in OrderId
    PROVE  /\ reported[nextId] = "None" /\ traded[nextId] = 0
           /\ \A s \in Symbols : nextId \notin book[s].keys
<1>1. nextId \in Nat /\ ~(nextId < nextId)
  BY NextIdType DEF IInv
<1>2. OrderOK(nextId)
  BY DEF LedgerInv
<1> QED
  BY <1>1, <1>2 DEF OrderOK, IInv, BooksInv

\* A stop is in its book with the ledger of no fills.
LEMMA RegisterStopLedger ==
    ASSUME IInv, IInv', LedgerInv, stack = << >>, NEW o, Accepts(o), o.type = "Stop",
           RegisterStop(o), sent'[o.id] = o, nextId' = nextId + 1
    PROVE  /\ OrderOK(o.id)'
           /\ \A s \in Symbols : OthersIn(book[s], book'[s], o.id)
<1> DEFINE r == [o EXCEPT !.limit = o.stop]
<1>1. /\ QueueUp(r) /\ Report(o.id, o.status) /\ UNCHANGED <<stack, traded>>
  BY DEF RegisterStop
<1>2. /\ o \in Order /\ o.id \in OrderId /\ o.id = nextId /\ o.filled = 0 /\ o.qty \in Nat
      /\ o.qty > 0 /\ o.stop \in Prices
  BY DEF Accepts, Order
<1>3. /\ r \in Order /\ r.id = o.id /\ r.sym = o.sym /\ r.filled = 0 /\ r.qty = o.qty
      /\ r.side \in Sides
  BY <1>2 DEF Order, AnyPrice
<1> HIDE DEF r
<1>4. PICK x \in OrderId, t \in Symbols : x = o.id /\ t = o.sym
  BY <1>2 DEF Order
<1> DEFINE c == Add(book[t], r)
<1>5. book' = [book EXCEPT ![t] = c] /\ book[t] \in Book
      /\ \A s \in Symbols : book'[s] = IF s = t THEN c ELSE book[s]
  BY <1>1, <1>3, <1>4 DEF QueueUp, IInv, TypeOK
<1>6. /\ c.keys = book[t].keys \cup {x} /\ c.orders[x] = r /\ c.tag[x] = r.side
      /\ \A id \in OrderId : id # x => /\ c.orders[id] = book[t].orders[id]
                                       /\ c.tag[id] = book[t].tag[id]
  BY <1>3, <1>4, <1>5 DEF Add, Book
<1> HIDE DEF c
<1>7. traded[x] = 0 /\ traded' = traded /\ \A s \in Symbols : x \notin book[s].keys
  BY <1>1, <1>2, <1>4, FreshOrder
<1>8. Resting(c, x)
  BY <1>3, <1>6 DEF Resting, Sides
<1>9. sent'[x].type = "Stop"
  BY <1>4
<1>10. ASSUME NEW s \in Symbols, x \in book'[s].keys PROVE KnownOK(s, x)'
  <2>1. s = t
    BY <1>5, <1>7, <1>10
  <2> QED
    BY <1>3, <1>5, <1>6, <1>7, <1>8, <1>9, <2>1 DEF KnownOK
<1>11. EndOK(x)'
  BY <1>9 DEF EndOK
<1>12. nextId \in Nat /\ x < nextId'
  BY <1>2, <1>4, NextIdType DEF IInv
<1>13. \A s \in Symbols : OthersIn(book[s], book'[s], x)
  <2>1. OthersIn(book[t], c, x)
    BY <1>6 DEF OthersIn
  <2> QED
    BY <1>5, <2>1, OneBookOthers
<1> QED
  BY <1>4, <1>10, <1>11, <1>12, <1>13 DEF OrderOK

\* A FOK order that is rejected did not trade.
LEMMA RejectFokLedger ==
    ASSUME IInv, IInv', LedgerInv, NEW o, Accepts(o), o.type = "FOK", RejectFok(o),
           sent'[o.id] = o, nextId' = nextId + 1
    PROVE  OrderOK(o.id)'
<1>1. PICK x \in OrderId : x = o.id /\ x = nextId /\ o.qty # 0
  BY DEF Accepts, Order
<1>2. UNCHANGED <<book, traded>> /\ Report(x, "Rejected")
  BY <1>1 DEF RejectFok
<1>3. reported'[x] = "Rejected" /\ traded'[x] = 0 /\ \A s \in Symbols : x \notin book'[s].keys
  BY <1>1, <1>2, FreshOrder DEF Report
<1>4. EndOK(x)'
  BY <1>1, <1>3 DEF EndOK, Terminal
<1>5. nextId \in Nat /\ x < nextId'
  BY <1>1, NextIdType DEF IInv
<1> QED
  BY <1>1, <1>3, <1>4, <1>5 DEF OrderOK

\* A sweep starts with an aggressor that nobody was told of and, for a FOK
\* order, with enough to fill it.
LEMMA StartSweepLedger ==
    ASSUME IInv, IInv', LedgerInv, stack = << >>, NEW o, Accepts(o), StartSweep(o),
           o.type \in {"Market", "Limit", "IOC", "FOK"}, o.type = "FOK" => FokFillable(o),
           o.status = "New", sent'[o.id] = o, nextId' = nextId + 1
    PROVE  /\ OrderOK(o.id)'
           /\ \E g \in Frame : stack' = Append(stack, g) /\ g.pc # "reduce" /\ CallOK(g)'
<1>1. PICK x \in OrderId : x = o.id /\ x = nextId
  BY DEF Accepts
<1>2. /\ UNCHANGED <<book, traded, reported>>
      /\ stack' = Append(stack, NewFrame(o.sym, o.type, "sweep", o, {}))
  BY DEF StartSweep, Call
<1>3. o \in Order /\ o.filled = 0 /\ o.qty \in Nat /\ o.qty > 0 /\ o.side \in Sides
      /\ o.sym \in Symbols /\ o.type \in Ops /\ "sweep" \in Pcs
  BY DEF Accepts, Order, Ops, Pcs
<1>4. PICK g \in Frame : /\ g = NewFrame(o.sym, o.type, "sweep", o, {}) /\ g.sym = o.sym
                         /\ g.op = o.type /\ g.pc = "sweep" /\ g.o = o
  BY <1>3, NewFrameOK
<1>5. stack' = Append(stack, g) /\ FramesOf(stack') = {g}
  BY <1>2, <1>4, OneCalls
<1>6. reported'[x] = "None" /\ traded'[x] = 0 /\ \A s \in Symbols : x \notin book'[s].keys
  BY <1>1, <1>2, FreshOrder
<1>7. Leaves(o) = o.qty
  BY <1>3 DEF Leaves
<1>8. AggressorOK(g)'
  <2>1. Leaves(o) > 0 /\ o.filled <= o.qty
    BY <1>3, <1>7
  <2>2. o.status = "New" /\ reported'[o.id] = "None" /\ traded'[o.id] = o.filled
    BY <1>1, <1>3, <1>6
  <2> QED
    BY <1>1, <1>4, <1>6, <2>1, <2>2 DEF AggressorOK
<1>9. g.op = "FOK" => CoveredOK(g)'
  <2> SUFFICES ASSUME o.type = "FOK" PROVE CoveredOK(g)'
    BY <1>4
  <2>1. BookOK(book[o.sym])
    BY <1>3 DEF IInv, BooksInv
  <2>2. PICK n \in Int : n = Supply(book[o.sym], o.side, o.limit)
    BY <1>3, <2>1, SupplyType
  <2>3. ~((IF n < o.qty THEN n ELSE o.qty) < o.qty)
    BY <1>7, <2>2, AvailableOf DEF FokFillable
  <2>4. n >= o.qty + 0
    BY <1>3, <2>2, <2>3
  <2> QED
    BY <1>2, <1>4, <1>7, <2>2, <2>4 DEF CoveredOK
<1>10. CallOK(g)'
  BY <1>4, <1>8, <1>9 DEF CallOK
<1>11. InFlight(x)'
  <2>1. g.op # "Tick"
    BY <1>4
  <2> QED
    BY <1>1, <1>4, <1>5, <2>1 DEF InFlight
<1>12. nextId \in Nat /\ x < nextId'
  BY <1>1, NextIdType DEF IInv
<1>13. OrderOK(x)'
  BY <1>6, <1>11, <1>12 DEF OrderOK
<1> QED
  BY <1>1, <1>4, <1>5, <1>10, <1>13

\* A submission keeps the ledger.
LEMMA SubmitLedger ==
    ASSUME MaxDepth = 1, IInv, IInv', TermsInv, LedgerInv, NEW request \in Requests,
           Submit(request)
    PROVE  LedgerInv' /\ \A id \in OrderId : FinalOK(id)
<1> DEFINE order == [request EXCEPT !.id = nextId, !.status = "New"]
<1>0. PICK o : o = order
  OBVIOUS
<1>1. /\ MayCall /\ Valid(request) /\ nextId <= MaxOrders
      /\ nextId' = nextId + 1
      /\ sent' = [sent EXCEPT ![o.id] = o]
      /\ Process(o)
  BY <1>0 DEF Submit
<1>2. stack = << >>
  BY <1>1, OneCallAtATime
<1>3. nextId \in OrderId /\ nextId \in Nat /\ OrderId \subseteq Nat
  BY <1>1, BookAssumption DEF IInv, TypeOK, OrderId
<1>4. Accepts(o) /\ o.status = "New" /\ o.id = nextId
  <2>1. nextId \in AnyId /\ "New" \in Status
    BY <1>3 DEF AnyId, OrderId, Status
  <2>2. request \in Order /\ request.filled = 0
    BY RequestType
  <2>3. /\ o \in Order /\ o.id = nextId /\ o.filled = 0 /\ o.qty = request.qty
        /\ o.type = request.type /\ o.limit = request.limit /\ o.stop = request.stop
        /\ o.status = "New"
    BY <1>0, <2>1, <2>2 DEF Order
  <2>4. /\ o.qty \in Nat /\ o.qty # 0 /\ o.limit \in AnyPrice /\ o.stop \in AnyPrice
        /\ o.type \in {"Limit", "IOC", "FOK"} => o.limit > 0
        /\ o.type = "Stop" => o.stop > 0
    BY <1>1, <2>3 DEF Valid, Order
  <2>5. o.qty > 0
    BY <2>4
  <2> QED
    BY <1>3, <2>3, <2>4, <2>5, PositivePrice DEF Accepts
<1>5. sent'[o.id] = o /\ SentKept
  <2>1. \A id \in OrderId : id < nextId => id # nextId
    BY <1>3
  <2>2. \A id \in OrderId : id < nextId => sent'[id] = sent[id]
    BY <1>1, <1>4, <2>1 DEF IInv, TypeOK
  <2>3. nextId <= nextId'
    BY <1>1, <1>3
  <2> QED
    BY <1>1, <1>3, <1>4, <2>2, <2>3 DEF IInv, TypeOK, SentKept
<1>6. FinalOK(o.id)
  BY <1>3, <1>4 DEF FinalOK
<1>7. CASE o.type = "Stop" /\ RegisterStop(o)
  <2>1. OrderOK(o.id)' /\ \A s \in Symbols : OthersIn(book[s], book'[s], o.id)
    BY <1>1, <1>2, <1>4, <1>5, <1>7, RegisterStopLedger
  <2>2. /\ stack' = stack
        /\ \A id \in OrderId : id # o.id => reported'[id] = reported[id] /\ traded'[id] = traded[id]
    BY <1>7 DEF RegisterStop, Report
  <2> QED
    BY <1>1, <1>2, <1>4, <1>5, <1>6, <2>1, <2>2, ClientLedgerStep
<1>8. CASE o.type = "FOK" /\ RejectFok(o)
  <2>1. OrderOK(o.id)'
    BY <1>1, <1>4, <1>5, <1>8, RejectFokLedger
  <2>2. /\ stack' = stack /\ book' = book
        /\ \A id \in OrderId : id # o.id => reported'[id] = reported[id] /\ traded'[id] = traded[id]
    BY <1>8 DEF RejectFok, Report
  <2>3. \A s \in Symbols : OthersIn(book[s], book'[s], o.id)
    BY <2>2 DEF OthersIn
  <2> QED
    BY <1>1, <1>2, <1>4, <1>5, <1>6, <2>1, <2>2, <2>3, ClientLedgerStep
<1>9. CASE /\ o.type \in {"Market", "Limit", "IOC", "FOK"} /\ StartSweep(o)
           /\ o.type = "FOK" => FokFillable(o)
  <2>1. /\ OrderOK(o.id)'
        /\ \E g \in Frame : stack' = Append(stack, g) /\ g.pc # "reduce" /\ CallOK(g)'
    BY <1>1, <1>2, <1>4, <1>5, <1>9, StartSweepLedger
  <2>2. UNCHANGED <<book, traded, reported>>
    BY <1>9 DEF StartSweep
  <2>3. \A s \in Symbols : OthersIn(book[s], book'[s], o.id)
    BY <2>2 DEF OthersIn
  <2> QED
    BY <1>1, <1>2, <1>4, <1>5, <1>6, <2>1, <2>2, <2>3, ClientLedgerStep
<1> QED
  BY <1>1, <1>7, <1>8, <1>9 DEF Process

-----------------------------------------------------------------------------
(* Theorems *)

\* The ledger holds before any call.
LEMMA InitLedger == Init => LedgerInv
<1> SUFFICES ASSUME Init PROVE LedgerInv
  OBVIOUS
<1>1. \A s \in Symbols : book[s] = EmptyBook
  BY DEF Init, EngineInit
<1>2. EmptyBook.keys = {}
  BY DEF EmptyBook
<1>3. /\ stack = << >> /\ nextId = 1
      /\ \A id \in OrderId : reported[id] = "None" /\ traded[id] = 0
  BY DEF Init, EngineInit
<1>4. \A id \in OrderId : ~(id < nextId)
  BY <1>3, BookAssumption DEF OrderId
<1>5. Len(stack) <= 1 /\ FramesOf(stack) = {}
  BY <1>3, NoFrame
<1> QED
  BY <1>1, <1>2, <1>3, <1>4, <1>5 DEF LedgerInv, OrderOK

\* Every step keeps it, and leaves alone the orders that were reported over.
LEMMA NextLedger ==
    ASSUME CleanGarbage, MaxDepth = 1, IInv, IInv', TermsInv, LedgerInv, [Next]_vars
    PROVE  LedgerInv' /\ \A id \in OrderId : FinalOK(id)
<1>1. CASE ClientStep
  BY <1>1, IdleLedger, SubmitLedger, CancelOrderLedger, FeedTickLedger DEF ClientStep
<1>2. CASE Continue(AggressorFill) \/ Continue(RestingFill) \/ Continue(ReduceResting)
  BY <1>2, AggressorFillLedger, RestingFillLedger, ReduceRestingLedger
<1>3. CASE Continue(FinishMarket)
  <2>1. Top.op = "Market" \/ Top.op = "Tick"
    BY <1>3 DEF Continue, FinishMarket
  <2> QED
    BY <1>3, <2>1, FinishMarketLedger, SettleLedger
<1>4. CASE Continue(RestResidual) \/ Continue(FinishSilently) \/ Continue(FinishFok)
  BY <1>4, RestResidualLedger, FinishSilentlyLedger, FinishFokLedger
<1>5. CASE Continue(TriggerStop) \/ Continue(ActivateStop) \/ Continue(FinishTick)
  BY <1>5, TriggerStopLedger, ActivateStopLedger, FinishTickLedger
<1>6. CASE UNCHANGED vars
  BY <1>6 DEF vars, LedgerInv, FinalOK, OrderOK, KnownOK, EndOK, Reducing, InFlight, CallOK,
     AggressorOK, MatchOK, CoveredOK
<1> QED
  BY <1>1, <1>2, <1>3, <1>4, <1>5, <1>6 DEF Next

\* What a client may rely on, of the exchange that runs one call at a time: a
\* freed node does not read as another order, and callbacks do not call back in.
THEOREM Ledger == ASSUME CleanGarbage, MaxDepth = 1 PROVE Spec => []LedgerInv
<1>1. Init => LedgerInv
  BY InitLedger
<1>2. IInv /\ IInv' /\ TermsInv /\ LedgerInv /\ [Next]_vars => LedgerInv'
  BY NextLedger
<1> QED
  BY <1>1, <1>2, Invariant, Terms, PTL DEF Spec

\* Between calls, the filled_qty of every order that a book knows is what its
\* client was told of its fills.
THEOREM LedgersAgree == ASSUME CleanGarbage, MaxDepth = 1 PROVE Spec => []LedgerAgrees
<1>1. IInv /\ LedgerInv => LedgerAgrees
  <2> SUFFICES ASSUME IInv, LedgerInv, Quiet, NEW s \in Symbols, NEW id \in book[s].keys
               PROVE  book[s].orders[id].filled = traded[id]
    BY DEF LedgerAgrees
  <2>1. id \in OrderId /\ ~Reducing(s, id)
    BY NoFrame DEF Quiet, IInv, BooksInv, BookOK, Book
  <2> QED
    BY <2>1 DEF LedgerInv, OrderOK, KnownOK
<1> QED
  BY <1>1, Invariant, Ledger, PTL

\* A FOK order fills in full or is rejected without a fill: what the check
\* counted is still there when the sweep takes it.
THEOREM FokFills == ASSUME CleanGarbage, MaxDepth = 1 PROVE Spec => []FokAllOrNothing
<1>1. LedgerInv => FokAllOrNothing
  BY NoFrame DEF LedgerInv, FokAllOrNothing, Quiet, Accepted, OrderOK, EndOK
<1> QED
  BY <1>1, Ledger, PTL

\* An accepted market, limit or FOK order rests or is over between calls, and
\* its last report says truly whether it was filled.
THEOREM OrdersAccounted == ASSUME CleanGarbage, MaxDepth = 1 PROVE Spec => []NoOrderVanishes
<1>1. LedgerInv => NoOrderVanishes
  BY NoFrame DEF LedgerInv, NoOrderVanishes, Quiet, Accepted, OrderOK, EndOK
<1> QED
  BY <1>1, Ledger, PTL

\* After a report that an order is over, nothing more is reported or filled.
THEOREM OverIsOver == ASSUME CleanGarbage, MaxDepth = 1 PROVE Spec => TerminalIsFinal
<1>1. IInv /\ IInv' /\ TermsInv /\ LedgerInv /\ [Next]_vars =>
          \A id \in Accepted : (sent[id].type # "Stop" /\ reported[id] \in Terminal) =>
              reported'[id] = reported[id] /\ traded'[id] = traded[id]
  BY NextLedger DEF FinalOK, Accepted
<1> QED
  BY <1>1, Invariant, Terms, Ledger, PTL DEF Spec, TerminalIsFinal
=============================================================================
