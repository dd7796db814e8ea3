------------------------------ MODULE Portfolio -----------------------------
(***************************************************************************)
(* Portfolio and Position (portfolio/portfolio.cpp, position.cpp): signed  *)
(* quantities and cash, over whole numbers where the code has doubles.     *)
(* Average cost and realized P&L are left out: no decision reads them.     *)
(***************************************************************************)
EXTENDS Integers, Sequences, FiniteSetsExt, SequencesExt

CONSTANTS Symbol, initial_cash

ASSUME PortfolioAssumption == initial_cash \in Nat

VARIABLES positions,   \* positions_: the quantity of each symbol filled so far
          cash,
          traded       \* per symbol, the sum of the signed fills

portfolioVars == <<positions, cash, traded>>

PortfolioInit ==
    /\ positions = <<>>
    /\ cash      = initial_cash
    /\ traded    = [s \in Symbol |-> 0]

Abs(n) == IF n < 0 THEN -n ELSE n

Signed(side, qty) == IF side = "Buy" THEN qty ELSE -qty

-----------------------------------------------------------------------------
(* Position::on_fill *)

SameSide(q, d) == (q > 0 /\ d > 0) \/ (q < 0 /\ d < 0)

(* reduce: towards zero by close_qty.                                      *)
Lessened(q, close_qty) == IF q > 0 THEN q - close_qty ELSE q + close_qty

(* What the fill leaves is opened in its own direction.  The remainder is  *)
(* taken from the quantity that reduce has just changed.                   *)
Closed(q, d) ==
    LET reduced   == Lessened(q, Min({Abs(d), Abs(q)}))
        remainder == d + reduced
    IN  reduced + remainder

PositionAfter(q, d) == IF q = 0 \/ SameSide(q, d) THEN q + d ELSE Closed(q, d)

(* position(): 0 where there is none.                                      *)
Qty(sym) == IF sym \in DOMAIN positions THEN positions[sym] ELSE 0

Notional(f) == f.fill_price * f.fill_qty

(* Portfolio::on_fill                                                      *)
PortfolioOnFill(f) ==
    /\ positions' = [s \in DOMAIN positions \cup {f.sym} |->
                       IF s = f.sym THEN PositionAfter(Qty(s), Signed(f.side, f.fill_qty))
                                    ELSE positions[s]]
    /\ cash'   = cash - Signed(f.side, Notional(f)) - f.commission
    /\ traded' = [traded EXCEPT ![f.sym] = @ + Signed(f.side, f.fill_qty)]

-----------------------------------------------------------------------------
(* Valuations: symbols without a price do not count.                       *)

ValueOf(pos, prices) ==
    MapThenSumSet(LAMBDA s : pos[s] * prices[s], DOMAIN pos \cap DOMAIN prices)

net_exposure(prices)   == ValueOf(positions, prices)
gross_exposure(prices) == ValueOf([s \in DOMAIN positions |-> Abs(positions[s])], prices)
nav(prices)            == cash + net_exposure(prices)
=============================================================================
