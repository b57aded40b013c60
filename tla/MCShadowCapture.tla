--------------------------- MODULE MCShadowCapture ---------------------------
\* Two writer processes, as the roster demands; one of them writes, in two
\* transactions one after the other, one or two rows in each.
EXTENDS ShadowCapture, TLC

CONSTANTS backend, bot, tail

MCProcess == tail :> bot
=============================================================================
