---------------------------- MODULE MCLearningLoop ----------------------------
(* Constants of LearningLoop a cfg cannot write. *)
EXTENDS LearningLoop, TLC

CONSTANTS s1, s2, s3

\* Three signals of one strategy on one symbol, the third in another regime
\* and with a weaker technical score.
MCStrategyOf == [s \in Setups |-> "ema"]
MCRegimeOf   == [s \in Setups |-> IF s = s3 THEN "range" ELSE "trend"]
MCSymbolOf   == [s \in Setups |-> "btc"]
MCClientIdOf == [s \in Setups |-> s]
MCTaOf       == [s \in Setups |-> IF s = s3 THEN 60 ELSE 70]
MCPnls       == {0 - 2, 3}

\* The first two differ in nothing but their name.
Alike == Permutations({s1, s2})
=============================================================================
