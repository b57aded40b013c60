------------------------------ MODULE MCCatchUp ------------------------------
\* Pages of two trades, offsets up to three: a walk over four trades rolls its
\* window.  One of the timings has a second that the offsets cannot pass.
EXTENDS CatchUp

Spread == [t \in Trades |-> (t + 2) \div 2]
Crowded == [t \in Trades |-> IF t \in 2..4 THEN 2 ELSE t]
MCStamps == {Spread, Crowded}
=============================================================================
