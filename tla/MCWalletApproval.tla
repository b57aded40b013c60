-------------------------- MODULE MCWalletApproval --------------------------
\* Two wallets; the bot scores, and two requests to the API may.
EXTENDS WalletApproval, TLC

CONSTANTS w1, w2, bot, api1, api2

Symmetry == Permutations({w1, w2}) \union Permutations({bot, api1, api2})
=============================================================================
