------------------------------ MODULE VaREngine -----------------------------
(***************************************************************************)
(* VaREngine (risk/var_engine.cpp): a rolling window of returns, and the   *)
(* value at risk and expected shortfall read from its sorted copy.  Whole  *)
(* numbers stand for returns, a pair <<part, whole>> for 1 - confidence.   *)
(* The parametric VaR needs the normal quantile and is left out.           *)
(***************************************************************************)
EXTENDS Integers, Sequences, FiniteSetsExt, SequencesExt

CONSTANTS PeriodReturns, max_window, Tails,
          MaxUpdates   \* bound: updates between resets

ASSUME VarAssumption ==
    /\ PeriodReturns \subseteq Int
    /\ max_window \in Nat \ {0}
    /\ \A t \in Tails : t[1] \in Nat /\ t[2] \in Nat \ {0} /\ t[1] < t[2]
    /\ MaxUpdates \in Nat

VARIABLES returns,
          observed   \* every return since the last reset

varVars == <<returns, observed>>

VarInit == returns = <<>> /\ observed = <<>>

\* Mutant: the oldest return leaves when the window is over full.
updateLate(r) ==
    /\ Len(observed) < MaxUpdates
    /\ returns'  = Append(IF Len(returns) > max_window THEN Tail(returns) ELSE returns, r)
    /\ observed' = Append(observed, r)

update(r) ==
    /\ Len(observed) < MaxUpdates
    /\ returns'  = Append(IF Len(returns) >= max_window THEN Tail(returns) ELSE returns, r)
    /\ observed' = Append(observed, r)

VarReset == returns' = <<>> /\ observed' = <<>>

VarNext == VarReset \/ \E r \in PeriodReturns : update(r)

VarTypeOK == returns \in Seq(PeriodReturns) /\ observed \in Seq(PeriodReturns)

-----------------------------------------------------------------------------
(* Queries *)

Ascends(r, p, n) == \A i \in 1..n : \A j \in i..n : r[p[i]] <= r[p[j]]

(* A copy in order: the returns, taken in an order that does not decrease.  *)
sorted_returns ==
    LET n     == Len(returns)
        order == CHOOSE p \in Bijection(1..n, 1..n) : Ascends(returns, p, n)
    IN  [i \in 1..n |-> returns[order[i]]]

(* How many returns are the tail: alpha * n, cut to a whole number.  Where *)
(* that is one already, the product of doubles may come out below it.      *)
TailSizes(tail) ==
    LET whole == (tail[1] * Len(returns)) \div tail[2]
    IN  IF whole * tail[2] = tail[1] * Len(returns) /\ whole > 0
        THEN {whole - 1, whole} ELSE {whole}

historical_var(cut) ==
    IF returns = <<>> THEN 0
    ELSE -sorted_returns[Min({cut, Len(returns) - 1}) + 1]

Sum(seq) == FoldLeft(+, 0, seq)

(* The mean loss of the tail, times the size of the tail.                  *)
expected_shortfall(cut) ==
    IF returns = <<>> THEN 0
    ELSE IF cut = 0 THEN -sorted_returns[1]
    ELSE -Sum(SubSeq(sorted_returns, 1, cut))

-----------------------------------------------------------------------------
(* What they should be, from the returns in the order they came *)

LastReturns ==
    SubSeq(observed, Max({1, Len(observed) - max_window + 1}), Len(observed))

Worse(loss)    == Cardinality({i \in DOMAIN LastReturns : -LastReturns[i] > loss})
AtLeast(loss)  == Cardinality({i \in DOMAIN LastReturns : -LastReturns[i] >= loss})

LossOf(indices) == -MapThenSumSet(LAMBDA i : LastReturns[i], indices)

(* After any updates and resets, of the last max_window returns no more    *)
(* than the tail are worse than the VaR, and with those that equal it they *)
(* are more (historical_var takes the right order statistic of the right   *)
(* window); and no returns of that many lose more together than the        *)
(* shortfall, which some do lose.  A tail of exactly k returns may be cut  *)
(* to k - 1.                                                               *)
TailsExact ==
    observed # <<>> => \A tail \in Tails : \A cut \in TailSizes(tail) :
        LET loss == historical_var(cut)
            size == Max({1, cut})
            most == {LossOf(s) : s \in kSubset(size, DOMAIN LastReturns)}
        IN  /\ Worse(loss) <= cut /\ cut < AtLeast(loss)
            /\ expected_shortfall(cut) = Max(most)
=============================================================================
