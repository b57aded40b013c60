-------------------------- MODULE MCPaperExecution --------------------------
\* One wallet in one market: it enters, leaves and, in the safety instance,
\* enters again.
EXTENDS PaperExecution

CONSTANTS w1, m1

RoundTrip == 1..2
Reentry == 1..3
Entries == {1, 3}
OneWallet == [t \in Trades |-> w1]
OneMarket == [t \in Trades |-> m1]
=============================================================================
