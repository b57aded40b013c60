------------------------- MODULE MCHistoryBootstrap --------------------------
\* The bot and an API request, a wallet with three trades in two markets, two of
\* the trades in one second.
EXTENDS HistoryBootstrap, TLC

CONSTANTS bot, api, m1, m2

MCStamp == <<1, 1, 2>>
MCGamma == m1 :> "closed" @@ m2 :> "resolved"
MCMarketOf == <<m1, m2, m2>>
=============================================================================
