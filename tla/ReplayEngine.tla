---------------------------- MODULE ReplayEngine ----------------------------
(***************************************************************************)
(* HistoricalReplayEngine (market_data/replay_engine.cpp) over the records *)
(* of a closed store: the stepping interface, and the thread that replays  *)
(* on its own.  Callers step, seek and rewind only when no such thread was *)
(* started or it was joined, as data_portal.hpp:11-13 asks of them; they   *)
(* may pause, resume and stop it at any time.                              *)
(*                                                                         *)
(* Pacing by the wall clock is left out: a thread sleeps for any time.     *)
(***************************************************************************)
EXTENDS BinaryStore

CONSTANTS StartTimes, EndTimes,  \* the windows [start_ts, end_ts)
          StackDepth             \* bound: calls of run_loop that fit a stack

ASSUME ReplayAssumption ==
    /\ StartTimes \subseteq Nat
    /\ EndTimes \subseteq Nat
    /\ StackDepth \in Nat \ {0}

NotOpen == [start_ts |-> 0, end_ts |-> 0, loop |-> FALSE]

VARIABLES view,         \* the records of the store, once it is opened
          cfg,
          cursor,
          current_ts,
          paused,
          thread,       \* replay_thread_, and where its loop stands
          depth,        \* the calls of run_loop on its stack
          stopping,     \* a caller is in stop()
          from,         \* the time the replay was last set to
          fired         \* the ticks given to the callbacks since then

replayVars == <<view, cfg, cursor, current_ts, paused, thread, depth, stopping,
                from, fired>>

ReplayInit ==
    /\ view       = <<>>
    /\ cfg        = NotOpen
    /\ cursor     = 0
    /\ current_ts = 0
    /\ paused     = FALSE
    /\ thread     = "none"
    /\ depth      = 0
    /\ stopping   = FALSE
    /\ from       = 0
    /\ fired      = <<>>

opened == cfg # NotOpen

begin_idx == lower_bound(view, 0, Len(view), cfg.start_ts)
end_idx   == lower_bound(view, 0, Len(view), cfg.end_ts)

\* Mutant: the end of the window belongs to it.
at_endLate == cursor > end_idx \/ cursor = Len(view)

at_end == cursor >= end_idx

(* The constructor: the indices of the window by binary search.            *)
Open(v, start_ts, end_ts, loop) ==
    /\ ~opened
    /\ view'       = v
    /\ cfg'        = [start_ts |-> start_ts, end_ts |-> end_ts, loop |-> loop]
    /\ cursor'     = lower_bound(v, 0, Len(v), start_ts)
    /\ current_ts' = start_ts
    /\ from'       = start_ts
    /\ UNCHANGED <<paused, thread, depth, stopping, fired>>

-----------------------------------------------------------------------------
(* What the operations are made of *)

(* The ticks from the cursor up to index n are fired, the last one sets    *)
(* the clock.                                                              *)
FireUpTo(n) ==
    /\ cursor'     = n
    /\ current_ts' = IF n > cursor THEN view[n].recv_ts ELSE current_ts
    /\ fired'      = fired \o SubSeq(view, cursor + 1, n)
    /\ UNCHANGED from

SetTo(idx, ts) ==
    /\ cursor'     = idx
    /\ current_ts' = ts
    /\ from'       = ts
    /\ fired'      = <<>>

Rewound == SetTo(begin_idx, cfg.start_ts)

-----------------------------------------------------------------------------
(* The stepping interface *)

Sequential == opened /\ thread = "none"

step ==
    /\ Sequential
    /\ ~at_end
    /\ FireUpTo(cursor + 1)
    /\ UNCHANGED <<view, cfg, paused, thread, depth, stopping>>

(* At the end: nothing, or with looping on the first tick again.  That one *)
(* is read without another look at the end: with an empty window it is the *)
(* tick behind the window (behind the whole view there is none to read,    *)
(* and the behaviour is undefined: left out).                              *)
stepAround ==
    /\ Sequential
    /\ at_end /\ cfg.loop
    /\ begin_idx < Len(view)
    /\ cursor'     = begin_idx + 1
    /\ current_ts' = view[begin_idx + 1].recv_ts
    /\ from'       = cfg.start_ts
    /\ fired'      = <<view[begin_idx + 1]>>
    /\ UNCHANGED <<view, cfg, paused, thread, depth, stopping>>

(* Ticks up to and including target, which is cut to the window.           *)
step_to(target_ts) ==
    LET target == Min({target_ts, cfg.end_ts - 1})
        late   == {i \in cursor..end_idx - 1 : view[i + 1].recv_ts > target}
    IN  /\ Sequential
        /\ ~at_end
        /\ FireUpTo(Min(late \cup {end_idx}))
        /\ UNCHANGED <<view, cfg, paused, thread, depth, stopping>>

seek(ts) ==
    /\ Sequential
    /\ cfg.start_ts <= ts /\ ts < cfg.end_ts
    /\ SetTo(lower_bound(view, begin_idx, end_idx, ts), ts)
    /\ UNCHANGED <<view, cfg, paused, thread, depth, stopping>>

rewind ==
    /\ Sequential
    /\ Rewound
    /\ UNCHANGED <<view, cfg, paused, thread, depth, stopping>>

-----------------------------------------------------------------------------
(* The replay thread, and its callers *)

(* With a thread that was not stopped, even an ended one, start throws.    *)
start ==
    /\ opened /\ thread = "none"
    /\ thread' = "check"
    /\ depth'  = 1
    /\ paused' = FALSE
    /\ UNCHANGED <<view, cfg, cursor, current_ts, stopping, from, fired>>

(* pause() and resume() store the flag; a callback may call them too.      *)
(* resume() also moves the origin of the pacing to the tick at the cursor, *)
(* without a lock against the thread that moves the cursor and reads the   *)
(* origin: of that the model keeps that a thread sleeps for any time.      *)
PauseOrResume ==
    /\ opened /\ thread # "crashed"
    /\ paused' \in BOOLEAN
    /\ UNCHANGED <<view, cfg, cursor, current_ts, thread, depth, stopping, from, fired>>

stop ==
    /\ thread \notin {"none", "crashed"} /\ ~stopping
    /\ stopping' = TRUE
    /\ UNCHANGED <<view, cfg, cursor, current_ts, paused, thread, depth, from, fired>>

join ==
    /\ stopping /\ thread = "ended"
    /\ thread'   = "none"
    /\ depth'    = 0
    /\ stopping' = FALSE
    /\ UNCHANGED <<view, cfg, cursor, current_ts, paused, from, fired>>

LoopEnds ==
    /\ thread = "check"
    /\ stopping \/ (at_end /\ ~cfg.loop)
    /\ thread' = "ended"
    /\ UNCHANGED <<view, cfg, cursor, current_ts, paused, depth, stopping, from, fired>>

LoopWraps == thread = "check" /\ ~stopping /\ at_end /\ cfg.loop

(* Every replay of the window is a call of run_loop from within the one    *)
(* before it, which waits on the stack with its copy of the stop token.    *)
LoopAgain ==
    /\ LoopWraps
    /\ depth < StackDepth
    /\ depth' = depth + 1
    /\ Rewound
    /\ UNCHANGED <<view, cfg, paused, thread, stopping>>

(* Past the end of its stack the thread dies, and the process with it.     *)
LoopOverflows ==
    /\ LoopWraps
    /\ depth = StackDepth
    /\ thread' = "crashed"
    /\ UNCHANGED <<view, cfg, cursor, current_ts, paused, depth, stopping, from, fired>>

\* Mutant: a paused replay waits without looking at the stop token.
LoopTakesDeaf ==
    /\ thread = "check" /\ ~stopping /\ ~at_end
    /\ thread' = IF paused THEN "deaf" ELSE "pace"
    /\ UNCHANGED <<view, cfg, cursor, current_ts, paused, depth, stopping, from, fired>>

(* A paused loop sleeps and looks again.  Otherwise it takes the tick at   *)
(* the cursor and sleeps until its time has come.                          *)
LoopTakes ==
    /\ thread = "check" /\ ~stopping /\ ~at_end
    /\ ~paused
    /\ thread' = "pace"
    /\ UNCHANGED <<view, cfg, cursor, current_ts, paused, depth, stopping, from, fired>>

Paced ==
    /\ thread = "pace"
    /\ IF stopping
       THEN /\ thread' = "ended"
            /\ UNCHANGED <<cursor, current_ts, from, fired>>
       ELSE /\ thread' = "check"
            /\ FireUpTo(cursor + 1)
    /\ UNCHANGED <<view, cfg, paused, depth, stopping>>

LoopStep == LoopEnds \/ LoopAgain \/ LoopOverflows \/ LoopTakes \/ Paced

ReplayNext ==
    \/ step \/ stepAround \/ rewind
    \/ \E ts \in TickTimes : step_to(ts) \/ seek(ts)
    \/ start \/ PauseOrResume \/ stop \/ join
    \/ LoopStep

(* The operating system runs the thread.                                   *)
ReplayFairness == WF_replayVars(LoopStep) /\ WF_replayVars(join)

ReplayTypeOK ==
    /\ view \in Seq(Record \cup {Zeroes})
    /\ cfg \in [start_ts : StartTimes, end_ts : EndTimes, loop : BOOLEAN] \cup {NotOpen}
    /\ cursor \in 0..Len(view)
    /\ current_ts \in Nat
    /\ paused \in BOOLEAN
    /\ thread \in {"none", "check", "pace", "ended", "crashed"}
    /\ depth \in 0..StackDepth
    /\ stopping \in BOOLEAN
    /\ from \in Nat
    /\ fired \in Seq(Record \cup {Zeroes})

-----------------------------------------------------------------------------
Sorted(v) == \A i \in 1..Len(v) - 1 : v[i].recv_ts <= v[i + 1].recv_ts

\* The ticks of a time span, both ends included.
Among(ticks, first_ts, last_ts) ==
    FoldLeft(LAMBDA acc, t : IF first_ts <= t.recv_ts /\ t.recv_ts <= last_ts
                             THEN Append(acc, t) ELSE acc, <<>>, ticks)

InWindow == Among(view, from, cfg.end_ts - 1)

(* However stepping, seeking, rewinding, looping and the thread are mixed  *)
(* (replay_engine.cpp:73-175), the callbacks get the ticks of the window   *)
(* from the time last set, each once and in order, and at the end they     *)
(* have had them all.  That is said of a file in order of time, which a    *)
(* power failure can break, and of a window that holds a tick: from one    *)
(* that holds none a looping step() takes the tick behind it, which        *)
(* StepsStayBeforeEnd is about.                                            *)
ReplayInOrder ==
    opened /\ Sorted(view) /\ begin_idx < end_idx =>
        /\ IsPrefix(fired, InWindow)
        /\ at_end => fired = InWindow

(* A call of stop() returns (replay_engine.cpp:185-190): from a paused, a  *)
(* pacing and a looping replay that still lives when it is called.  The    *)
(* loop looks at the stop token before it calls itself again, so that the  *)
(* stack does not end while stop() waits; whether it ended before is what  *)
(* LoopingReplayLives is about.                                            *)
ReplayStopReturns == stopping ~> ~stopping
=============================================================================
