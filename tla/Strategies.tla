----------------------------- MODULE Strategies -----------------------------
(***************************************************************************)
(* The strategies of strategy/ (sma.cpp, momentum.cpp, mean_reversion.cpp) *)
(* as the automata they are: rolling windows and running sums, updated bar *)
(* by bar and cleared by reset(), from which each bar's signal is taken.   *)
(* All three get the same bars of their symbol; bars of other symbols      *)
(* change nothing.  A signal is its direction: the strength is left out.   *)
(*                                                                         *)
(* Averages and rates are exact fractions [n, d] where the code has        *)
(* doubles; the z-score is compared squared.                               *)
(***************************************************************************)
EXTENDS Integers, Sequences, SequencesExt

CONSTANTS Closes,                                       \* prices of bars
          fast_period, slow_period, signal_threshold,   \* SMAStrategy
          roc_lookback, roc_threshold, ema_alpha,       \* MomentumStrategy
          z_lookback, entry_z, exit_z,                  \* MeanReversionStrategy
          MaxBars                                       \* bound: bars between resets

ASSUME StrategyAssumption ==
    /\ Closes \subseteq Nat \ {0}
    /\ {fast_period, slow_period, roc_lookback, z_lookback} \subseteq Nat
    /\ fast_period >= 2 /\ slow_period > fast_period
    /\ roc_lookback >= 1
    /\ z_lookback >= 2

ASSUME ReversionAssumption ==
    /\ entry_z.n > 0 /\ exit_z.n >= 0
    /\ entry_z.n * exit_z.d > exit_z.n * entry_z.d

VARIABLES sma, momentum, reversion,
          closes,     \* the bars since the last reset
          signals     \* what each strategy emitted since then

strategyVars == <<sma, momentum, reversion, closes, signals>>

-----------------------------------------------------------------------------
(* Fractions with positive denominators, and windows *)

Frac(n, d)    == [n |-> n, d |-> d]
Less(a, b)    == a.n * b.d < b.n * a.d
Negative(a)   == Frac(-a.n, a.d)
Distance(a, b) == LET n == a.n * b.d - b.n * a.d
                  IN  Frac(IF n < 0 THEN -n ELSE n, a.d * b.d)

(* push_back, and pop_front beyond the size of the window.                 *)
Pushed(window, price, size) ==
    IF Len(window) < size THEN Append(window, price) ELSE Append(Tail(window), price)

Evicted(window, size) == IF Len(window) < size THEN 0 ELSE Head(window)

Average(window, sum) == IF window = <<>> THEN Frac(0, 1) ELSE Frac(sum, Len(window))

-----------------------------------------------------------------------------
(* SMAStrategy *)

SmaInit == [fast_window |-> <<>>, slow_window |-> <<>>, fast_sum |-> 0, slow_sum |-> 0,
            prev_fast |-> Frac(0, 1), prev_slow |-> Frac(0, 1)]

push(s, price) ==
    [s EXCEPT !.fast_window = Pushed(@, price, fast_period),
              !.fast_sum    = @ + price - Evicted(s.fast_window, fast_period),
              !.slow_window = Pushed(@, price, slow_period),
              !.slow_sum    = @ + price - Evicted(s.slow_window, slow_period)]

fast_sma(s) == Average(s.fast_window, s.fast_sum)
slow_sma(s) == Average(s.slow_window, s.slow_sum)

SmaWarm(s) == Len(s.fast_window) >= fast_period /\ Len(s.slow_window) >= slow_period

(* A cross whose averages are closer than the threshold is not signalled.  *)
Cross(was_above, fast, slow) ==
    LET is_above == Less(slow, fast)
        close    == Less(Frac(Distance(fast, slow).n * slow.d, Distance(fast, slow).d * slow.n),
                         signal_threshold)
    IN  CASE was_above = is_above \/ close -> "Flat"
          [] is_above /\ ~was_above /\ ~close -> "Long"
          [] was_above /\ ~is_above /\ ~close -> "Short"

SmaSignal(s, pushed) ==
    IF SmaWarm(pushed)
    THEN <<Cross(Less(s.prev_slow, s.prev_fast), fast_sma(pushed), slow_sma(pushed))>>
    ELSE <<>>

SmaAfter(pushed) ==
    [pushed EXCEPT !.prev_fast = fast_sma(pushed), !.prev_slow = slow_sma(pushed)]

-----------------------------------------------------------------------------
(* MomentumStrategy *)

MomentumInit == [close_history |-> <<>>, smoothed_roc |-> Frac(0, 1), ema_init |-> FALSE]

MomentumWarm(m) == Len(m.close_history) >= roc_lookback + 1

RocOf(close, ago) == Frac(close - ago, ago)

Smoothed(roc, old) ==
    Frac(ema_alpha.n * roc.n * old.d + (ema_alpha.d - ema_alpha.n) * old.n * roc.d,
         ema_alpha.d * roc.d * old.d)

(* A price of 0 has no rate.                                               *)
HasRate(m) == MomentumWarm(m) /\ Head(m.close_history) # 0

MomentumAfter(m, close) ==
    LET pushed == [m EXCEPT !.close_history = Pushed(@, close, roc_lookback + 1)]
        roc    == RocOf(close, Head(pushed.close_history))
    IN  IF ~HasRate(pushed) THEN pushed
        ELSE [pushed EXCEPT !.smoothed_roc = IF ema_alpha.n > 0 /\ m.ema_init
                                             THEN Smoothed(roc, @) ELSE roc,
                            !.ema_init = ema_alpha.n > 0]

RocSignal(roc) ==
    CASE Less(roc_threshold, roc)           -> "Long"
      [] Less(roc, Negative(roc_threshold)) -> "Short"
      [] OTHER                              -> "Flat"

MomentumSignal(m) == IF HasRate(m) THEN <<RocSignal(m.smoothed_roc)>> ELSE <<>>

-----------------------------------------------------------------------------
(* MeanReversionStrategy *)

ReversionInit == [window |-> <<>>, sum |-> 0, sum2 |-> 0]

update_stats(r, price) ==
    LET old == Evicted(r.window, z_lookback)
    IN  [window |-> Pushed(r.window, price, z_lookback),
         sum    |-> r.sum + price - old,
         sum2   |-> r.sum2 + price * price - old * old]

(* z = (price - mean) / stddev, with n * (price - mean) and n^2 * variance *)
(* in whole numbers; 0 where all prices are equal.  Between exit_z and     *)
(* entry_z nothing is emitted.                                             *)
ZSignal(price, n, sum, sum2) ==
    LET off        == n * price - sum
        spread     == n * sum2 - sum * sum
        Beyond(z)  == spread > 0 /\ off * off * z.d * z.d > z.n * z.n * spread
        Within(z)  == z.n > 0 /\ (spread = 0 \/ off * off * z.d * z.d < z.n * z.n * spread)
    IN  CASE Beyond(entry_z) /\ off > 0 -> <<"Short">>
          [] Beyond(entry_z) /\ off < 0 -> <<"Long">>
          [] Within(exit_z)             -> <<"Flat">>
          [] OTHER                      -> <<>>

ReversionSignal(r) ==
    IF Len(r.window) >= z_lookback THEN ZSignal(Last(r.window), Len(r.window), r.sum, r.sum2)
                                   ELSE <<>>

-----------------------------------------------------------------------------
StrategiesInit ==
    /\ sma       = SmaInit
    /\ momentum  = MomentumInit
    /\ reversion = ReversionInit
    /\ closes    = <<>>
    /\ signals   = [sma |-> <<>>, momentum |-> <<>>, reversion |-> <<>>]

on_bar(close) ==
    /\ Len(closes) < MaxBars
    /\ closes'    = Append(closes, close)
    /\ sma'       = SmaAfter(push(sma, close))
    /\ momentum'  = MomentumAfter(momentum, close)
    /\ reversion' = update_stats(reversion, close)
    /\ signals'   = [sma       |-> signals.sma \o SmaSignal(sma, push(sma, close)),
                     momentum  |-> signals.momentum \o MomentumSignal(momentum'),
                     reversion |-> signals.reversion \o ReversionSignal(reversion')]

\* Mutant: the crossing average keeps the sum of the old window.
resetKeepsSum ==
    /\ sma'       = [SmaInit EXCEPT !.slow_sum = sma.slow_sum]
    /\ momentum'  = MomentumInit
    /\ reversion' = ReversionInit
    /\ closes'    = <<>>
    /\ signals'   = [sma |-> <<>>, momentum |-> <<>>, reversion |-> <<>>]

(* reset() and reset_derived() of all three.                               *)
reset ==
    /\ sma'       = SmaInit
    /\ momentum'  = MomentumInit
    /\ reversion' = ReversionInit
    /\ closes'    = <<>>
    /\ signals'   = [sma |-> <<>>, momentum |-> <<>>, reversion |-> <<>>]

StrategiesNext == reset \/ \E close \in Closes : on_bar(close)

StrategiesSpec == StrategiesInit /\ [][StrategiesNext]_strategyVars

-----------------------------------------------------------------------------
(* What the signals should be, from the bars s since the last reset alone *)

Recent(s, i, n) == SubSeq(s, IF i > n THEN i - n + 1 ELSE 1, i)
SumOf(seq)      == FoldLeft(LAMBDA x, y : x + y, 0, seq)
Squares(seq)    == [i \in DOMAIN seq |-> seq[i] * seq[i]]
MeanAt(s, i, n) == Average(Recent(s, i, n), SumOf(Recent(s, i, n)))
Above(s, i)     == Less(MeanAt(s, i, slow_period), MeanAt(s, i, fast_period))

SmaExpected(s) ==
    [k \in 1..Len(s) - slow_period + 1 |->
        LET i == k + slow_period - 1
        IN  Cross(Above(s, i - 1), MeanAt(s, i, fast_period), MeanAt(s, i, slow_period))]

RateAt(s, k) == RocOf(s[k + roc_lookback], s[k])

SmoothedRates(s) ==
    LET smoothed[k \in 1..Len(s) - roc_lookback] ==
            IF k = 1 \/ ~(ema_alpha.n > 0) THEN RateAt(s, k)
                                            ELSE Smoothed(RateAt(s, k), smoothed[k - 1])
    IN  smoothed

MomentumExpected(s) ==
    LET smoothed == SmoothedRates(s)
    IN  [k \in 1..Len(s) - roc_lookback |-> RocSignal(smoothed[k])]

ReversionAt(s, i) ==
    LET w == Recent(s, i, z_lookback)
    IN  ZSignal(s[i], z_lookback, SumOf(w), SumOf(Squares(w)))

ReversionExpected(s) ==
    FlattenSeq([k \in 1..Len(s) - z_lookback + 1 |-> ReversionAt(s, k + z_lookback - 1)])

(* strategy_base.hpp:38 "Reset all state (e.g. for walk-forward            *)
(* re-initialisation)": after any bars and resets, what a strategy emitted *)
(* since the last reset is what the bars since then call for, computed     *)
(* from them alone.  No running sum, window, average or smoothed rate of   *)
(* an earlier run, or of a bar that left its window, is in a signal.       *)
SignalsFromScratch ==
    /\ signals.sma       = SmaExpected(closes)
    /\ signals.momentum  = MomentumExpected(closes)
    /\ signals.reversion = ReversionExpected(closes)
=============================================================================
