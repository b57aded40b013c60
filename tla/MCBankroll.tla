----------------------------- MODULE MCBankroll -----------------------------
\* A stake of four stored units with orders of one to two units, a profit limit
\* of two units and a floor below the stake; odd amounts force rounding.
EXTENDS Bankroll

MCLimits == {0, 4}
MCFloors == {0, 6}
MCAmounts == {0, 3, 6}
MCAvgSlips == {-1, 0, 1}
=============================================================================
