----------------------------- MODULE MarketData -----------------------------
(***************************************************************************)
(* market_data/ put together as its tests do: a recorder fills a store,    *)
(* and a replay of the closed file drives the clock of a portal over the   *)
(* same file.                                                              *)
(***************************************************************************)
EXTENDS DataPortal

marketVars == <<storeVars, portalVars>>

MarketInit ==
    /\ StoreInit
    /\ ReplayInit
    /\ portal_ts = 0

(* The file is opened ReadOnly, which throws without the magic number.     *)
(* Recording is over then, and the model forgets the recorder: nothing     *)
(* that follows depends on more than the records.                          *)
OpenForReplay ==
    /\ writer.at = "none"
    /\ file.magic
    /\ \E start_ts \in StartTimes, end_ts \in EndTimes, loop \in BOOLEAN :
          /\ Open(Records, start_ts, end_ts, loop)
          /\ portal_ts' = start_ts
    /\ file'     = [magic |-> FALSE, slots |-> <<>>, record_count |-> 0]
    /\ appended' = <<>>
    /\ durable'  = [header |-> FALSE, records |-> <<>>]
    /\ failures' = 0
    /\ UNCHANGED writer

MarketNext ==
    \/ ~opened /\ StoreNext /\ UNCHANGED portalVars
    \/ OpenForReplay
    \/ ReplayNext /\ advance_to /\ UNCHANGED storeVars

MarketTypeOK ==
    /\ StoreTypeOK
    /\ ReplayTypeOK
    /\ portal_ts \in Nat

MarketSpec == MarketInit /\ [][MarketNext]_marketVars /\ ReplayFairness

-----------------------------------------------------------------------------
(* Four lines of market_data/ that the code does not keep *)

(* binary_store.hpp:8 "Writer path appends records with msync() for        *)
(* durability": the records of the replayed file, whose appends returned,  *)
(* are still there after a power failure.                                  *)
AppendsAreDurable == \A i \in DOMAIN view : view[i] # Zeroes

(* replay_engine.hpp:7-8 "step() returns the next tick in time order.  It  *)
(* NEVER returns a tick whose recv_ts is >= end_ts": the clock that the    *)
(* ticks advanced stays before the end of the window.                      *)
StepsStayBeforeEnd == cfg.start_ts < cfg.end_ts => portal_ts < cfg.end_ts

(* data_portal.hpp:86-87 "Build and return the last N bars of the given    *)
(* frequency, all with close_ts <= current_ts_."                           *)
BarsClosedByClock ==
    \A dur \in BarDurations, n \in BarCounts :
        LET bars == history_bars(portal_ts, dur, n)
        IN  \A i \in DOMAIN bars : bars[i].open_ts + dur - 1 <= portal_ts

(* replay_engine.hpp:42 "Wrap around when finished", of loop: a replay     *)
(* that loops goes on until it is stopped.                                 *)
LoopingReplayLives == thread # "crashed"

(* A replay of a file in order of time keeps at least one of the four.     *)
(* This is as weak as their disjunction can be, so that one behaviour that *)
(* violates it breaks them all: append() does not sync                     *)
(* (binary_store.cpp:147-160), step() looks for the end before it wraps    *)
(* around and not after it (replay_engine.cpp:73-82), build_bars returns   *)
(* the bar that is still open (data_portal.cpp:120-187), and run_loop      *)
(* calls itself for each round (replay_engine.cpp:170-173).                *)
SomePromiseKept ==
    opened /\ Sorted(view) =>
        \/ AppendsAreDurable
        \/ StepsStayBeforeEnd
        \/ BarsClosedByClock
        \/ LoopingReplayLives
=============================================================================
