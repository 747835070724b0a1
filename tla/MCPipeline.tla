----------------------------- MODULE MCPipeline -----------------------------
(* An instance of the pipeline for TLC: two setups of one symbol, each with  *)
(* its own client id, and a second symbol that only has ticks.               *)
EXTENDS PipelineProperties, TLC

CONSTANTS s1, s2, btc, eth, id1, id2

MCSymbolOf == (s1 :> btc) @@ (s2 :> btc)
MCClientIdOf == (s1 :> id1) @@ (s2 :> id2)

MCPnls == {-1, 1}
MCLoss == {-1}
=============================================================================
