----------------------------- MODULE DataPortal -----------------------------
(***************************************************************************)
(* DataPortal (market_data/data_portal.cpp) with the store of one symbol:  *)
(* its clock, and what its queries return at a time.  Strategies advance   *)
(* the clock to the ticks of a replay.                                     *)
(*                                                                         *)
(* Bars are left with their window, prices and number of ticks: volume and *)
(* VWAP are sums that no query decides on.                                 *)
(***************************************************************************)
EXTENDS ReplayEngine

CONSTANTS BarDurations, BarCounts   \* what callers of history_bars ask for

ASSUME PortalAssumption ==
    /\ BarDurations \subseteq Nat \ {0}
    /\ BarCounts \subseteq Nat \ {0}

VARIABLE portal_ts      \* current_ts_ of the portal

portalVars == <<replayVars, portal_ts>>

(* The callback of a replay: advance_to, which never goes back.            *)
advance_to ==
    portal_ts' = Max({portal_ts} \cup {fired'[i].recv_ts : i \in DOMAIN fired'})

-----------------------------------------------------------------------------
(* Queries *)

current_tick(now) == last_at_or_before(view, now)

\* Mutant: the search ends before the ticks of this very moment.
historyOpen(now, lookback) ==
    SubSeq(view, lower_bound(view, 0, Len(view), now - lookback) + 1,
                 lower_bound(view, 0, Len(view), now))

history(now, lookback) ==
    SubSeq(view, lower_bound(view, 0, Len(view), now - lookback) + 1,
                 lower_bound(view, 0, Len(view), now + 1))

BarOpen(t, dur) == (t.recv_ts \div dur) * dur

NewBar(t, dur) ==
    [open_ts |-> BarOpen(t, dur), open |-> t.px, high |-> t.px, low |-> t.px,
     close |-> t.px, trade_count |-> 1]

AddedTo(bar, t) ==
    [bar EXCEPT !.high = Max({@, t.px}), !.low = Min({@, t.px}), !.close = t.px,
                !.trade_count = @ + 1]

(* Ticks up to the first one that is later than now; a tick at or after    *)
(* the end of the open bar begins another; the n most recent bars stay.    *)
Visible(ticks, now) ==
    SelectInSeq(ticks, LAMBDA t : t.recv_ts > now)

\* Mutant: a tick at the end of a bar is still part of it.
WithTickClosed(bars, t, dur) ==
    IF bars = <<>> \/ t.recv_ts > Last(bars).open_ts + dur
    THEN Append(bars, NewBar(t, dur))
    ELSE [bars EXCEPT ![Len(bars)] = AddedTo(@, t)]

WithTick(bars, t, dur) ==
    IF bars = <<>> \/ t.recv_ts >= Last(bars).open_ts + dur
    THEN Append(bars, NewBar(t, dur))
    ELSE [bars EXCEPT ![Len(bars)] = AddedTo(@, t)]

build_bars(ticks, now, dur, n) ==
    LET seen == IF Visible(ticks, now) = 0 THEN ticks ELSE SubSeq(ticks, 1, Visible(ticks, now) - 1)
        bars == FoldLeft(LAMBDA acc, t : WithTick(acc, t, dur), <<>>, seen)
    IN  SubSeq(bars, Max({1, Len(bars) - n + 1}), Len(bars))

history_bars(now, dur, n) == build_bars(history(now, (n + 1) * dur), now, dur, n)

-----------------------------------------------------------------------------
(* What the queries should return *)

Summary(ticks, dur) ==
    [open_ts |-> BarOpen(ticks[1], dur), open |-> ticks[1].px,
     high |-> Max({ticks[i].px : i \in DOMAIN ticks}),
     low  |-> Min({ticks[i].px : i \in DOMAIN ticks}),
     close |-> Last(ticks).px, trade_count |-> Len(ticks)]

Opens(ticks, dur) == {BarOpen(ticks[i], dur) : i \in DOMAIN ticks}

MostRecent(opens, n) == {w \in opens : Cardinality({v \in opens : v > w}) < n}

(* One bar for each of the windows, in order, of the ticks in it.          *)
BarsOf(bars, ticks, opens, dur) ==
    /\ \A i \in DOMAIN bars : \A j \in 1..(i - 1) : bars[j].open_ts < bars[i].open_ts
    /\ {bars[i].open_ts : i \in DOMAIN bars} = opens
    /\ \A i \in DOMAIN bars :
          bars[i] = Summary(Among(ticks, bars[i].open_ts, bars[i].open_ts + dur - 1), dur)

NeverAhead(now) ==
    \A i \in DOMAIN current_tick(now) : current_tick(now)[i].recv_ts <= now

LastKnown(now) ==
    LET known == Among(view, 0, now)
    IN  current_tick(now) = (IF known = <<>> THEN <<>> ELSE <<Last(known)>>)

HistoryExact(now, dur, n) ==
    history(now, (n + 1) * dur) = Among(view, now - (n + 1) * dur, now)

(* data_portal.hpp:5-6 "every query returns only data that was available   *)
(* at or before current_simulation_time()": current_tick never returns a   *)
(* later tick, not even from a file that a power failure left out of       *)
(* order; history may, against data_portal.hpp:83.  On a file in order the *)
(* queries return all of it too: the last tick, and the ticks of the       *)
(* lookback.                                                               *)
PointInTime ==
    opened =>
        /\ NeverAhead(portal_ts)
        /\ Sorted(view) =>
             /\ LastKnown(portal_ts)
             /\ \A dur \in BarDurations, n \in BarCounts : HistoryExact(portal_ts, dur, n)

(* history_bars asks for the ticks of the last n + 1 durations             *)
(* (data_portal.cpp:190-195) and makes bars of them (build_bars): those of *)
(* the n most recent windows with a tick among them, each of the ticks     *)
(* that are in it and among them, and of no other.  The last may be open   *)
(* still (see BarsClosedByClock in MarketData), and the first is without   *)
(* the ticks from before the lookback.                                     *)
BarsExact ==
    opened /\ Sorted(view) =>
        \A dur \in BarDurations, n \in BarCounts :
            LET ticks == Among(view, portal_ts - (n + 1) * dur, portal_ts)
            IN  BarsOf(history_bars(portal_ts, dur, n), ticks,
                       MostRecent(Opens(ticks, dur), n), dur)
=============================================================================
