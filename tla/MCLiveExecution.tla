--------------------------- MODULE MCLiveExecution ---------------------------
(* Constants of LiveExecution a cfg cannot write. *)
EXTENDS LiveExecution, TLC

CONSTANTS s1, s2, s3, btc

\* Two setups of one symbol, on either side; the second has no stop.
MCSymbolOf == [s \in Setups |-> btc]
MCSideOf   == s1 :> "Long" @@ s2 :> "Short" @@ s3 :> "Long"
MCSizeOf   == s1 :> 2 @@ s2 :> 5 @@ s3 :> 2
MCStopOf   == s1 :> 9990 @@ s2 :> 0 @@ s3 :> 10010
MCTargetOf == s1 :> 10010 @@ s2 :> 9980 @@ s3 :> 0
MCFairOf   == [s \in Setups |-> 10000]

\* A wide spread and a narrow one.
MCQuotes == {[bid |-> 9998, ask |-> 10002], [bid |-> 9999, ask |-> 10000]}
=============================================================================
