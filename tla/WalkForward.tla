----------------------------- MODULE WalkForward ----------------------------
(***************************************************************************)
(* Walk-forward analysis (research/walk_forward.cpp): the windows of the   *)
(* folds, the runs over them, and the equity curve stitched together from  *)
(* the curves that the caller's test function returns, empty ones too.     *)
(* NAVs are exact fractions <<n, d>>.  Training has no effect of its own.  *)
(***************************************************************************)
EXTENDS Integers, Sequences, SequencesExt

CONSTANTS train_bars, test_bars, step_bars, total_bars,
          FoldCurves   \* the equity curves that test_fn may return

Positive == Nat \ {0}
Curve    == Seq([timestamp : Nat, nav : Positive \X Positive])

InTime(curve) == \A i \in 1..Len(curve) - 1 : curve[i].timestamp < curve[i + 1].timestamp

(* With step_bars = 0 make_windows never ends; a curve that starts at a    *)
(* NAV of 0 cannot be scaled.  Curves are in chronological order           *)
(* (performance.hpp:47).                                                   *)
ASSUME WalkForwardAssumption ==
    /\ {train_bars, test_bars, total_bars} \subseteq Nat
    /\ step_bars \in Nat \ {0}
    /\ \A c \in FoldCurves : c \in Curve /\ InTime(c)

VARIABLES windows, oos_results

foldVars == <<windows, oos_results>>

WalkInit == windows = <<>> /\ oos_results = <<>>

-----------------------------------------------------------------------------
Fits(start) == start + train_bars + test_bars <= total_bars

WindowAt(k) ==
    LET start == (k - 1) * step_bars
    IN  [train_start |-> start, train_end |-> start + train_bars,
         test_start |-> start + train_bars, test_end |-> start + train_bars + test_bars]

make_windows ==
    [k \in 1..Cardinality({n \in 0..total_bars : Fits(n * step_bars)}) |-> WindowAt(k)]

StartWalk ==
    /\ windows = <<>>
    /\ make_windows # <<>>
    /\ windows' = make_windows
    /\ UNCHANGED oos_results

(* The next fold: train_fn, test_fn, and its result is kept.               *)
RunFold(curve) ==
    /\ Len(oos_results) < Len(windows)
    /\ oos_results' = Append(oos_results, curve)
    /\ UNCHANGED windows

WalkNext == StartWalk \/ \E curve \in FoldCurves : RunFold(curve)

-----------------------------------------------------------------------------
(* stitched_equity *)

Times(a, b)   == <<a[1] * b[1], a[2] * b[2]>>
Ratio(a, b)   == <<a[1] * b[2], a[2] * b[1]>>
SameNav(a, b) == a[1] * b[2] = b[1] * a[2]

Shifted(curve, offset, scale) ==
    [i \in DOMAIN curve |->
        [timestamp |-> curve[i].timestamp - curve[1].timestamp + offset,
         nav       |-> Times(curve[i].nav, scale)]]

\* Mutant: a fold starts at the time the one before it ended.
StitchedSameTime(curve, fold) ==
    IF fold = <<>> THEN curve
    ELSE IF curve = <<>> THEN Shifted(fold, 0, <<1, 1>>)
    ELSE curve \o Shifted(fold, Last(curve).timestamp, Ratio(Last(curve).nav, fold[1].nav))

(* A fold without a curve is passed over; the others start one tick after  *)
(* what is there, at its last NAV.                                         *)
Stitched(curve, fold) ==
    IF fold = <<>> THEN curve
    ELSE IF curve = <<>> THEN Shifted(fold, 0, <<1, 1>>)
    ELSE curve \o Shifted(fold, Last(curve).timestamp + 1, Ratio(Last(curve).nav, fold[1].nav))

stitched_equity == FoldLeft(Stitched, <<>>, oos_results)

-----------------------------------------------------------------------------
(* A fold lies in the whole behind the first points, at its own changes,   *)
(* and without a jump from the point before it.                            *)
Joins(whole, first, fold) ==
    /\ \A i \in DOMAIN fold :
          SameNav(Ratio(whole[first + i].nav, whole[first + 1].nav),
                  Ratio(fold[i].nav, fold[1].nav))
    /\ first > 0 => SameNav(whole[first + 1].nav, whole[first].nav)

Before(k) == Len(FlattenSeq(SubSeq(oos_results, 1, k - 1)))

(* walk_forward.hpp "Concatenated OOS equity curve (stitched together)":   *)
(* whatever curves the folds return, empty ones among them, time strictly  *)
(* increases along the whole, every fold keeps its relative changes, and   *)
(* the NAV does not jump where two folds meet.                             *)
StitchedContinues ==
    LET whole == stitched_equity
    IN  /\ Len(whole) = Before(Len(oos_results) + 1)
        /\ InTime(whole)
        /\ \A k \in DOMAIN oos_results :
              oos_results[k] # <<>> => Joins(whole, Before(k), oos_results[k])

(* The folds are as many as the data holds, and each is tested on bars     *)
(* behind those it was trained on.                                         *)
WalkTypeOK ==
    /\ Len(oos_results) <= Len(windows)
    /\ \A k \in DOMAIN windows : windows[k].test_end <= total_bars
    /\ windows # <<>> => ~Fits(Len(windows) * step_bars)
=============================================================================
