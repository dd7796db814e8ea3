------------------------------ MODULE Backtest ------------------------------
(***************************************************************************)
(* What a backtest is made of: recorded market data and its replay, the    *)
(* portfolio with its risk engine, the strategies, the VaR engine and the  *)
(* walk-forward analysis.  No code in src/ joins them and they share no    *)
(* state (a caller carries ticks, orders, fills and returns from one to    *)
(* the other), so a behaviour exercises one of them.                       *)
(***************************************************************************)
EXTENDS MarketData, RiskEngine, Strategies, VaREngine, WalkForward

vars == <<marketVars, tradingVars, strategyVars, varVars, foldVars>>

Init == MarketInit /\ TradingInit /\ StrategiesInit /\ VarInit /\ WalkInit

Next ==
    \/ TradingInit /\ StrategiesInit /\ VarInit /\ WalkInit /\ MarketNext
       /\ UNCHANGED <<tradingVars, strategyVars, varVars, foldVars>>
    \/ MarketInit /\ StrategiesInit /\ VarInit /\ WalkInit /\ TradingNext
       /\ UNCHANGED <<marketVars, strategyVars, varVars, foldVars>>
    \/ MarketInit /\ TradingInit /\ VarInit /\ WalkInit /\ StrategiesNext
       /\ UNCHANGED <<marketVars, tradingVars, varVars, foldVars>>
    \/ MarketInit /\ TradingInit /\ StrategiesInit /\ WalkInit /\ VarNext
       /\ UNCHANGED <<marketVars, tradingVars, strategyVars, foldVars>>
    \/ MarketInit /\ TradingInit /\ StrategiesInit /\ VarInit /\ WalkNext
       /\ UNCHANGED <<marketVars, tradingVars, strategyVars, varVars>>

Spec == Init /\ [][Next]_vars /\ ReplayFairness

(* The variables of the parts keep their types; those of the strategies    *)
(* are what SignalsFromScratch is about.                                   *)
TypeOK == MarketTypeOK /\ TradingTypeOK /\ VarTypeOK /\ WalkTypeOK
=============================================================================
