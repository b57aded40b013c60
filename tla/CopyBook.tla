------------------------------ MODULE CopyBook ------------------------------
(***************************************************************************)
(* What paper execution promises, without saying how: every trade of a     *)
(* followed wallet is decided once, copied or missed; copied trades move   *)
(* the holding they belong to, an exit never takes more than is held; and  *)
(* a resolved holding is paid out once and stays closed.                   *)
(***************************************************************************)
EXTENDS Integers

CONSTANTS
    Trades,     \* the trades of the source wallets
    Buys,       \* the subset of them that enters a holding; the others leave one
    Holdings,   \* what a trade enters or leaves
    HoldingOf   \* the holding of each trade, a function

VARIABLES
    decision,   \* per trade
    held,       \* shares per holding
    paid        \* the holdings paid out at resolution

bookVars == <<decision, held, paid>>

Init ==
    /\ decision = [t \in Trades |-> "open"]
    /\ held = [h \in Holdings |-> 0]
    /\ paid = {}

Miss(t) ==
    /\ decision[t] = "open"
    /\ decision' = [decision EXCEPT ![t] = "missed"]
    /\ UNCHANGED <<held, paid>>

Copy(t) ==
    LET h == HoldingOf[t] IN
    /\ decision[t] = "open"
    /\ decision' = [decision EXCEPT ![t] = "copied"]
    /\ IF t \in Buys THEN h \notin paid /\ held'[h] > held[h]
       ELSE held'[h] \in 0..held[h] - 1
    /\ held' = [held EXCEPT ![h] = held'[h]]
    /\ UNCHANGED paid

PayOut(S) ==
    /\ \A h \in S : h \notin paid /\ held[h] > 0
    /\ held' = [h \in Holdings |-> IF h \in S THEN 0 ELSE held[h]]
    /\ paid' = paid \union S
    /\ UNCHANGED decision

Next ==
    \/ \E t \in Trades : Miss(t) \/ Copy(t)
    \/ \E S \in SUBSET Holdings : PayOut(S)

Spec == Init /\ [][Next]_bookVars
=============================================================================
