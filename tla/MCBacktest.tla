----------------------------- MODULE MCBacktest -----------------------------
(* Backtest for TLC: what the runs give its constants. *)
EXTENDS Backtest

CONSTANT s1

\* The mark of the one symbol.
Marks == {s1 :> 1, s1 :> 3}

TightLimits ==
    [max_position_qty |-> 4, max_gross_exposure |-> 12, max_net_exposure |-> 10,
     max_order_qty |-> 2, max_order_notional |-> 4, max_drawdown_pct |-> <<1, 2>>,
     max_daily_loss |-> 2, kill_switch_enabled |-> FALSE]

TwoLimits ==
    {TightLimits, [TightLimits EXCEPT !.max_daily_loss = 4, !.max_drawdown_pct = <<1, 4>>]}

\* Signal thresholds of the strategies.
Tenth == Frac(1, 10)
Half  == Frac(1, 2)
One   == Frac(1, 1)

Returns == {-2, -1, 1}

\* 1 - confidence, as a part of a whole.
TailParts == {<<1, 20>>, <<1, 2>>, <<1, 3>>, <<4, 5>>}

\* Equity curves of a fold: none, one point, a loss, a gain and a flat bar.
Point(t, n) == [timestamp |-> t, nav |-> <<n, 1>>]
Curves      == {<<>>, <<Point(4, 2)>>, <<Point(5, 3), Point(6, 2)>>,
                <<Point(7, 1), Point(9, 2), Point(10, 2)>>}
=============================================================================
