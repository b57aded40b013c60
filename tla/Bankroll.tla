------------------------------ MODULE Bankroll ------------------------------
(***************************************************************************)
(* The paper bankroll: the singleton account row, its append-only ledger   *)
(* and the cost basis of the open positions, as the bot's execution cycle  *)
(* and the operator's settings request change them (bankroll.py, the money *)
(* side of execution/service.py, POST /bankroll/settings).                 *)
(*                                                                         *)
(* Money is counted in halves of the smallest stored amount, so a stored   *)
(* column holds even numbers only and an odd number is a tie that storing  *)
(* has to round.                                                           *)
(***************************************************************************)
EXTENDS Integers

CONSTANTS
    Starting,      \* starting_bankroll_usd
    OrderSize,     \* max_order_size_usd, the gross size of every BUY
    MaxExposure,   \* max_exposure_global_usd
    Limits,        \* profit limits an operator may set; 0 disables the sweep
    Floors,        \* stop-loss floors an operator may set; 0 disables the halt
    Amounts,       \* what a BUY costs, a SELL returns net of its fee, and a
                   \* settlement pays out
    AvgSlips,      \* cost-basis errors of storing avg_price with six decimals
    MaxPnl,        \* bound: realized P&L stays within -MaxPnl..MaxPnl
    MaxDust        \* bound: storage errors counted before the model stops trading

ASSUME MoneyAssumption ==
    /\ Starting \in Nat /\ Starting % 2 = 0
    /\ OrderSize \in Nat /\ MaxExposure \in Nat
    /\ Limits \subseteq Nat /\ Floors \subseteq Nat
    /\ Amounts \subseteq Nat /\ AvgSlips \subseteq Int
    /\ MaxPnl \in Nat /\ MaxDust \in Nat

VARIABLES
    db,         \* committed: the columns only the bot writes
    tx,         \* the bot session's view of them, db plus uncommitted writes
    limit,      \* committed account.profit_limit_usd
    floor,      \* committed account.stop_loss_floor_usd
    locked,     \* the bot's transaction holds the account row FOR UPDATE
    pc,         \* where the bot is in run_execution_cycle
    cashSeen,   \* cash read by the BUY in flight
    swept,      \* what sweep_profit_if_due returned this cycle
    crossed     \* history: the pile reached the limit since a sweep saw it empty

vars == <<db, tx, limit, floor, locked, pc, cashSeen, swept, crossed>>

(***************************************************************************)
(* The columns.  cost is sum(quantity * avg_price) over open positions;    *)
(* ledgerPnl and ledgerOut are the sums of the ledger's two entry types;   *)
(* dust counts the storage errors so far, in the unit of the model.        *)
(***************************************************************************)
Columns == [realized: Int, withdrawn: Int, pending: BOOLEAN, cost: Nat,
            ledgerPnl: Int, ledgerOut: Int, dust: Nat]

\* PostgreSQL's NUMERIC scale: to the nearest stored value, ties away from zero.
Stored(x) == IF x % 2 = 0 THEN x ELSE IF x > 0 THEN x + 1 ELSE x - 1
Err(x) == x % 2
Abs(x) == IF x < 0 THEN -x ELSE x
AtLeast0(x) == IF x < 0 THEN 0 ELSE x
Smaller(x, y) == IF x < y THEN x ELSE y

Balance(a) == Starting + a.realized - a.withdrawn
Cash(a) == Balance(a) - a.cost
\* Wrong variant of Pile: all profit ever made, withdrawn or not.
AllProfit(a) == AtLeast0(a.realized)
Pile(a) == AtLeast0(a.realized - a.withdrawn)
StopLossHit(a) == floor > 0 /\ Balance(a) <= floor

\* Wrong variant of Post: losses move the account but get no ledger entry.
PostProfitOnly(a, amount) ==
    [a EXCEPT !.realized = Stored(a.realized + amount),
              !.ledgerPnl = a.ledgerPnl + Stored(AtLeast0(amount)),
              !.dust = a.dust + Err(amount)]

\* post_realized_pnl: move the total and write the ledger entry, zero skipped.
Post(a, amount) ==
    [a EXCEPT !.realized = Stored(a.realized + amount),
              !.ledgerPnl = a.ledgerPnl + Stored(amount),
              !.dust = a.dust + Err(amount)]

\* The writing half of sweep_profit_if_due.
Withdraw(a, amount) ==
    [a EXCEPT !.withdrawn = Stored(a.withdrawn + amount),
              !.pending = amount < Pile(a),
              !.ledgerOut = a.ledgerOut + Stored(amount),
              !.dust = a.dust + Err(amount)]

InBounds(a) == Abs(a.realized) <= MaxPnl /\ a.dust <= MaxDust

-----------------------------------------------------------------------------
Init ==
    /\ db = [realized |-> 0, withdrawn |-> 0, pending |-> FALSE, cost |-> 0,
             ledgerPnl |-> 0, ledgerOut |-> 0, dust |-> 0]
    /\ tx = db
    /\ limit \in Limits /\ floor \in Floors
    /\ locked = FALSE
    /\ pc = "settle"
    /\ cashSeen = 0 /\ swept = 0
    /\ crossed = FALSE

\* A position is closed for what it holds at most.
\* Wrong variant: nothing caps an exit at the shares owned.
Uncapped(basis) == basis <= MaxExposure
Held(basis) == basis <= tx.cost

(***************************************************************************)
(* settle_paper_positions: every resolved position of the cycle is         *)
(* realized in one transaction, a step per position, then committed.       *)
(***************************************************************************)
SettleOne(basis, payout) ==
    /\ pc = "settle"
    /\ Held(basis)
    /\ tx' = Post([tx EXCEPT !.cost = @ - basis], payout - basis)
    /\ InBounds(tx')
    /\ locked' = (locked \/ payout # basis)
    /\ UNCHANGED <<db, limit, floor, pc, cashSeen, swept, crossed>>

SettleCommit ==
    /\ pc = "settle"
    /\ db' = tx
    /\ locked' = FALSE
    /\ pc' = "execute"
    /\ UNCHANGED <<tx, limit, floor, cashSeen, swept, crossed>>

(***************************************************************************)
(* A BUY: the exposure cap and the bankroll are read with the account row  *)
(* locked, the book and the fee are awaited with the lock held, and the    *)
(* exact cost is compared with the cash read before the wait.  Every miss  *)
(* and every error leaves the money as it was.                             *)
(***************************************************************************)
BuyGate ==
    /\ pc = "execute" /\ ~locked
    /\ db.cost + OrderSize <= MaxExposure
    /\ ~StopLossHit(db)
    /\ Cash(db) > 0
    /\ cashSeen' = Cash(db)
    /\ locked' = TRUE
    /\ pc' = "buying"
    /\ UNCHANGED <<db, tx, limit, floor, swept, crossed>>

\* The checks of the exact cost.  Wrong variants: the gross order size is
\* compared, not what the fill costs with its fee.
GrossFitsCap(spend) == tx.cost + OrderSize <= MaxExposure
FitsCap(spend) == tx.cost + spend <= MaxExposure
GrossFitsCash(spend) == OrderSize <= cashSeen
FitsCash(spend) == spend <= cashSeen

BuyFill(spend, slip) ==
    /\ pc = "buying"
    /\ FitsCap(spend)
    /\ FitsCash(spend)
    /\ tx.cost + spend + slip >= 0
    /\ tx' = [tx EXCEPT !.cost = tx.cost + spend + slip, !.dust = tx.dust + Abs(slip)]
    /\ InBounds(tx')
    /\ db' = tx'
    /\ locked' = FALSE
    /\ pc' = "execute"
    /\ UNCHANGED <<limit, floor, cashSeen, swept, crossed>>

BuyAbandoned ==
    /\ pc = "buying"
    /\ locked' = FALSE
    /\ pc' = "execute"
    /\ UNCHANGED <<db, tx, limit, floor, cashSeen, swept, crossed>>

\* A SELL of shares that cost basis, for proceeds net of the fee.
Sell(basis, proceeds) ==
    /\ pc = "execute" /\ ~locked
    /\ Held(basis)
    /\ tx' = Post([tx EXCEPT !.cost = @ - basis], proceeds - basis)
    /\ InBounds(tx')
    /\ db' = tx'
    /\ UNCHANGED <<limit, floor, locked, pc, cashSeen, swept, crossed>>

EndBatch ==
    /\ pc = "execute"
    /\ pc' = "sweep"
    /\ UNCHANGED <<db, tx, limit, floor, locked, cashSeen, swept, crossed>>

-----------------------------------------------------------------------------
\* What sweep_profit_if_due will move; 0 is one of its early returns.
SweepAmount(a) ==
    IF limit > 0 /\ (a.pending \/ Pile(a) >= limit)
    THEN Smaller(Pile(a), AtLeast0(Cash(a))) ELSE 0

\* Losses ate the pile: the flag is cleared and nothing is moved.
SweepEmpty(a) == limit > 0 /\ Pile(a) = 0

Sweep ==
    /\ pc = "sweep" /\ ~locked
    /\ locked' = TRUE
    /\ swept' = SweepAmount(db)
    /\ tx' = IF SweepEmpty(db) THEN [db EXCEPT !.pending = FALSE]
             ELSE IF swept' > 0 THEN Withdraw(db, swept') ELSE db
    /\ crossed' = IF SweepEmpty(db) THEN FALSE
                  ELSE crossed \/ (limit > 0 /\ Pile(db) >= limit)
    /\ InBounds(tx')
    /\ pc' = "close"
    /\ UNCHANGED <<db, limit, floor, cashSeen>>

\* run_execution_cycle commits the sweep only if it moved money; the session
\* is then closed, which rolls back whatever was not committed.
EndCycle ==
    /\ pc = "close"
    /\ db' = IF swept > 0 THEN tx ELSE db
    /\ tx' = db'
    /\ locked' = FALSE
    /\ pc' = "settle"
    /\ swept' = 0
    /\ UNCHANGED <<limit, floor, cashSeen, crossed>>

\* An exception that leaves the cycle, or the process dying: the transaction is
\* rolled back, its lock released, and the next cycle starts from the database.
Crash ==
    /\ tx' = db
    /\ locked' = FALSE
    /\ pc' = "settle"
    /\ swept' = 0
    /\ UNCHANGED <<db, limit, floor, cashSeen, crossed>>

\* Wrong variant: the request does not wait for the row lock.
UpdateSettingsUnlocked ==
    /\ limit' \in Limits
    /\ floor' \in Floors
    /\ UNCHANGED <<db, tx, locked, pc, cashSeen, swept, crossed>>

\* POST /bankroll/settings: waits for the row lock, then changes either knob.
UpdateSettings ==
    /\ ~locked
    /\ limit' \in Limits
    /\ floor' \in Floors
    /\ UNCHANGED <<db, tx, locked, pc, cashSeen, swept, crossed>>

-----------------------------------------------------------------------------
Next ==
    \/ \E basis \in 1..MaxExposure + MaxDust, payout \in Amounts : SettleOne(basis, payout)
    \/ SettleCommit
    \/ BuyGate
    \/ \E spend \in Amounts \ {0}, slip \in AvgSlips : BuyFill(spend, slip)
    \/ BuyAbandoned
    \/ \E basis \in 1..MaxExposure + MaxDust, proceeds \in Amounts : Sell(basis, proceeds)
    \/ EndBatch
    \/ Sweep
    \/ EndCycle
    \/ Crash
    \/ UpdateSettings

Spec == Init /\ [][Next]_vars

-----------------------------------------------------------------------------
TypeOK ==
    /\ db \in Columns /\ tx \in Columns
    /\ limit \in Limits /\ floor \in Floors
    /\ locked \in BOOLEAN
    /\ pc \in {"settle", "execute", "buying", "sweep", "close"}
    /\ cashSeen \in Int /\ swept \in Nat
    /\ crossed \in BOOLEAN

\* "Available cash can therefore never go negative" (bankroll.py, the sweep):
\* what is committed always covers the open positions, up to the errors made
\* by storing rounded amounts.
CashCovered == Cash(db) >= -db.dust

\* The append-only ledger explains the account: its entries add up to the
\* realized and withdrawn totals, up to one stored unit per rounded amount.
LedgerAgrees ==
    Abs(db.ledgerPnl - db.realized) + Abs(db.ledgerOut - db.withdrawn) <= 2 * db.dust

\* Deployed cost never outgrows the global exposure cap, whatever the order of
\* fills, exits, settlements and crashes.
ExposureCapped == db.cost <= MaxExposure + db.dust

\* "No amount is ever withdrawn twice": a withdrawal only ever reaches into
\* realized profit that no earlier withdrawal took, so the stake stays.
WithdrawalIsProfit ==
    [][db'.withdrawn # db.withdrawn =>
          db.withdrawn < db'.withdrawn /\ db'.withdrawn <= db'.realized]_vars

\* A position is never enlarged while the balance is at or below the stop-loss
\* floor in force at that moment, although the floor may be changed by a
\* request at any time, also while the BUY waits for its book.
BuysAboveFloor == [][db'.cost > db.cost => ~StopLossHit(db)]_vars

\* bankroll.py:178-179, "Losses ate any leftover pile -- the next sweep must
\* re-cross the limit from scratch": money is withdrawn only from a pile that
\* reached the limit since a sweep last found it empty.
SweepAfterCrossing == [][db'.withdrawn > db.withdrawn => crossed]_vars
=============================================================================
