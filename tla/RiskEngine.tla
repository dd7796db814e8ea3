----------------------------- MODULE RiskEngine -----------------------------
(***************************************************************************)
(* RiskEngine (risk/risk_engine.cpp) between a client and its portfolio.   *)
(* The client submits the orders check_order lets through, gives every     *)
(* fill to the portfolio and then to the engine, starts sessions with      *)
(* reset_daily_pnl, and sets the high-water mark before it trades, as      *)
(* risk_engine.hpp:5-8 and :105-109 describe.  Orders fill in any order,   *)
(* in parts, at any price, or never; the exchange and the price map are    *)
(* external.  Ratios are compared by multiplying out.                      *)
(***************************************************************************)
EXTENDS Portfolio

CONSTANTS PriceMaps,        \* the marks that callers pass
          FillPrices,
          OrderQtys,
          LimitPrices,      \* 0 for a market order
          Commissions,
          Limits,           \* the RiskLimits that set_limits may be given
          HighWaterMarks,   \* what set_hwm may be given
          MaxOrders,        \* bound: orders let through
          MaxFills          \* bound

ASSUME RiskAssumption ==
    /\ \A prices \in PriceMaps : \A s \in DOMAIN prices : prices[s] \in Int
    /\ FillPrices \subseteq Nat
    /\ OrderQtys \subseteq Nat \ {0}
    /\ Commissions \subseteq Int
    /\ HighWaterMarks \subseteq Int
    /\ {MaxOrders, MaxFills} \subseteq Nat

Order == [sym : Symbol, side : {"Buy", "Sell"}, qty : OrderQtys, limit_price : LimitPrices]

VARIABLES limits, daily_pnl, prev_nav, hwm,
          drawdown,      \* the last one, as a fraction <<part, whole>>
          outstanding,   \* orders let through and not filled, numbered
          accepted,      \* how many were let through
          navs,          \* the NAV at each fill
          session,       \* how many of these were before the last reset
          start_hwm      \* what set_hwm was given

riskVars   == <<limits, daily_pnl, prev_nav, hwm, drawdown>>
clientVars == <<outstanding, accepted, navs, session, start_hwm>>
tradingVars == <<portfolioVars, riskVars, clientVars>>

TradingInit ==
    /\ PortfolioInit
    /\ limits      \in Limits
    /\ daily_pnl   = 0
    /\ prev_nav    = 0
    /\ hwm         = 0
    /\ drawdown    = <<0, 1>>
    /\ outstanding = {}
    /\ accepted    = 0
    /\ navs        = <<>>
    /\ session     = 0
    /\ start_hwm   = 0

Exceeds(ratio, limit) == ratio[1] * limit[2] > limit[1] * ratio[2]

-----------------------------------------------------------------------------
(* check_order: one conjunct per check, in their order *)

OrderNotional(o, prices) ==
    IF o.limit_price > 0 THEN o.limit_price * o.qty
    ELSE IF o.sym \in DOMAIN prices THEN prices[o.sym] * o.qty ELSE 0

WithinPositionLimit(o) ==
    Abs(Qty(o.sym) + Signed(o.side, o.qty)) <= limits.max_position_qty

WithinExposure(o, prices) ==
    LET notional == OrderNotional(o, prices)
    IN  /\ gross_exposure(prices) + notional <= limits.max_gross_exposure
        /\ Abs(net_exposure(prices) + Signed(o.side, notional)) <= limits.max_net_exposure

\* Mutant: a loss stops trading once it is twice the limit.
WithinDailyLossTwice == daily_pnl >= -(2 * limits.max_daily_loss)

WithinDailyLoss == daily_pnl >= -limits.max_daily_loss

WithinDrawdown == ~Exceeds(drawdown, limits.max_drawdown_pct)

check_order(o, prices) ==
    /\ ~limits.kill_switch_enabled
    /\ o.qty <= limits.max_order_qty
    /\ OrderNotional(o, prices) <= limits.max_order_notional
    /\ WithinPositionLimit(o)
    /\ WithinExposure(o, prices)
    /\ WithinDailyLoss
    /\ WithinDrawdown

(* A refused order changes nothing.                                        *)
SubmitOrder(o, prices) ==
    /\ accepted < MaxOrders
    /\ check_order(o, prices)
    /\ accepted'    = accepted + 1
    /\ outstanding' = outstanding \cup {[no |-> accepted + 1, order |-> o]}
    /\ UNCHANGED <<portfolioVars, riskVars, navs, session, start_hwm>>

-----------------------------------------------------------------------------
(* on_fill *)

\* Mutant: only gains move the NAV that the next change is taken from.
RiskOnFillRatchet(current_nav) ==
    /\ hwm'       = Max({hwm, current_nav})
    /\ drawdown'  = IF hwm' > 0 THEN <<hwm' - current_nav, hwm'>> ELSE drawdown
    /\ daily_pnl' = IF prev_nav > 0 THEN daily_pnl + current_nav - prev_nav ELSE daily_pnl
    /\ prev_nav'  = Max({prev_nav, current_nav})
    /\ UNCHANGED limits

(* The breaches that are reported are left out: nothing remembers them,    *)
(* and each fill reports those that check_order then refuses for.          *)
RiskOnFill(current_nav) ==
    /\ hwm'       = Max({hwm, current_nav})
    /\ drawdown'  = IF hwm' > 0 THEN <<hwm' - current_nav, hwm'>> ELSE drawdown
    /\ daily_pnl' = IF prev_nav > 0 THEN daily_pnl + current_nav - prev_nav ELSE daily_pnl
    /\ prev_nav'  = current_nav
    /\ UNCHANGED limits

AfterFill(item, qty) ==
    IF qty = item.order.qty THEN outstanding \ {item}
    ELSE (outstanding \ {item}) \cup {[item EXCEPT !.order.qty = @ - qty]}

Fill(item, fill, prices) ==
    /\ Len(navs) < MaxFills
    /\ PortfolioOnFill(fill)
    /\ LET current_nav == cash' + ValueOf(positions', prices)
       IN  /\ RiskOnFill(current_nav)
           /\ navs' = Append(navs, current_nav)
    /\ outstanding' = AfterFill(item, fill.fill_qty)
    /\ UNCHANGED <<accepted, session, start_hwm>>

FillSome ==
    \E item \in outstanding, price \in FillPrices, fee \in Commissions, prices \in PriceMaps :
        \E qty \in 1..item.order.qty :
            Fill(item, [sym |-> item.order.sym, side |-> item.order.side, fill_qty |-> qty,
                        fill_price |-> price, commission |-> fee], prices)

-----------------------------------------------------------------------------
(* The other operations *)

reset_daily_pnl ==
    /\ daily_pnl' = 0
    /\ session'   = Len(navs)
    /\ UNCHANGED <<portfolioVars, limits, prev_nav, hwm, drawdown,
                   outstanding, accepted, navs, start_hwm>>

engage_kill_switch ==
    /\ limits' = [limits EXCEPT !.kill_switch_enabled = TRUE]
    /\ UNCHANGED <<portfolioVars, daily_pnl, prev_nav, hwm, drawdown, clientVars>>

(* New limits bring their own kill switch.                                 *)
set_limits(l) ==
    /\ limits' = l
    /\ UNCHANGED <<portfolioVars, daily_pnl, prev_nav, hwm, drawdown, clientVars>>

set_hwm(mark) ==
    /\ accepted = 0
    /\ hwm'       = mark
    /\ start_hwm' = mark
    /\ UNCHANGED <<portfolioVars, limits, daily_pnl, prev_nav, drawdown,
                   outstanding, accepted, navs, session>>

TradingNext ==
    \/ \E o \in Order, prices \in PriceMaps : SubmitOrder(o, prices)
    \/ FillSome
    \/ reset_daily_pnl
    \/ engage_kill_switch
    \/ \E l \in Limits : set_limits(l)
    \/ \E mark \in HighWaterMarks : set_hwm(mark)

TradingSpec == TradingInit /\ [][TradingNext]_tradingVars

TradingTypeOK ==
    /\ DOMAIN positions \subseteq Symbol
    /\ \A s \in DOMAIN positions : positions[s] \in Int
    /\ {cash, daily_pnl, prev_nav, hwm} \subseteq Int
    /\ drawdown[1] \in Nat /\ drawdown[2] \in Nat \ {0}
    /\ \A item \in outstanding : item.no \in 1..accepted /\ item.order.qty > 0
    /\ accepted \in 0..MaxOrders
    /\ session \in 0..Len(navs)

-----------------------------------------------------------------------------
(* The first NAV that counts for the session: that of the last fill before *)
(* it, or of the first fill of all.                                        *)
SessionStart == navs[Max({1, session})]

SessionChange == IF navs = <<>> THEN 0 ELSE Last(navs) - SessionStart

Peak == Max({start_hwm} \cup {navs[i] : i \in DOMAIN navs})

Solvent == \A i \in DOMAIN navs : navs[i] > 0

(* The daily P&L that on_fill sums up (risk_engine.cpp:66-70) is the       *)
(* change of the NAV over the session, wherever reset_daily_pnl fell       *)
(* between the fills, for a portfolio whose NAV stays positive (the engine *)
(* takes a NAV of 0 or less for none).                                     *)
DailyPnlIsNavChange == Solvent => daily_pnl = SessionChange

(* check_order (risk_engine.cpp:39-40) lets no order through while the NAV *)
(* of the last fill is further below its peak, or below the session's      *)
(* start, than the limits in force allow: whatever was filled in parts, at *)
(* which marks, and however often sessions and limits were changed.        *)
NoOrderAfterLoss ==
    [][accepted' # accepted /\ Solvent /\ navs # <<>> =>
          /\ ~Exceeds(<<Peak - Last(navs), Peak>>, limits.max_drawdown_pct)
          /\ SessionChange >= -limits.max_daily_loss]_tradingVars

(* test_portfolio.cpp:94 and :114 expect a position that is sold out to be *)
(* flat, and one that is oversold to hold the difference: the quantity is  *)
(* the sum of the signed fills.                                            *)
PositionIsSumOfFills == \A s \in DOMAIN positions : positions[s] = traded[s]
=============================================================================
