------------------------------ MODULE MCMarket ------------------------------
(* Market on small instances: a Regional and a Balanced bot on 1000 km, with   *)
(* the seeded configuration.                                                  *)
EXTENDS Market, TLC

CONSTANTS regional, balanced

MCPriceMult == regional :> 95 @@ balanced :> 118
MCSchedRatio == regional :> 72 @@ balanced :> 58
MCAdjustment == regional :> 97 @@ balanced :> 103
MCEvents == {[Calm EXCEPT !.fuel = 130], [Calm EXCEPT !.capacity = 50, !.demand = 120]}
MCCapacity == regional :> 72 @@ balanced :> 180
============================================================================
