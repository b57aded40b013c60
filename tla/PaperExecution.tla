--------------------------- MODULE PaperExecution ---------------------------
(***************************************************************************)
(* From a source wallet's trade to a paper position: page ingestion,       *)
(* signal detection, the bot's execution cycle and paper settlement        *)
(* (execution/service.py, with what it reads of ingestion, of approval and *)
(* of accounting/settlements.py).                                          *)
(*                                                                         *)
(* One bot process runs the cycle; approval requests, market resolution    *)
(* and the clock go on beside it, also while an order book is awaited.     *)
(* Prices and the money gates are abstracted to their verdict (see         *)
(* Bankroll), a position's outcome to its market.  kill_switch_deferrals,  *)
(* a counter only reports read, is left out.                               *)
(***************************************************************************)
EXTENDS Integers, FiniteSets

CONSTANTS
    Wallets, Markets,
    Trades,         \* numbers; a wallet makes its trades in this order
    WalletOf, MarketOf, Buys,
    MaxAge,         \* max_signal_execution_age_seconds
    ReviewDelay,    \* review_delay_seconds
    DetectLimit,    \* signal_detection_batch_size
    BatchSize,      \* execution_batch_size
    MaxFill,        \* shares one BUY can fill
    LastTrade,      \* bound: no source trade after this time
    LastPage,       \* bound: no page is ingested after this time
    MaxTime,        \* bound on the clock
    MaxCrashes      \* bound on crashes and restarts

ASSUME ExecutionAssumption ==
    /\ Trades \subseteq Nat /\ IsFiniteSet(Trades) /\ Buys \subseteq Trades
    /\ WalletOf \in [Trades -> Wallets] /\ MarketOf \in [Trades -> Markets]
    /\ MaxAge \in Nat /\ ReviewDelay \in Nat
    /\ DetectLimit \in Nat \ {0} /\ BatchSize \in Nat \ {0}
    /\ MaxFill \in Nat \ {0}
    /\ LastTrade \in Nat /\ LastPage \in Nat /\ MaxTime \in Nat
    /\ MaxCrashes \in Nat

VARIABLES
    now,
    madeAt,     \* t0 of each source trade; 0 while it is not made
    row,        \* place of each stored trade in the order of ingested_at; 0 if not stored
    seenAt,     \* t1, the clock's reading of its ingested_at
    approved,   \* wallets whose approval_state is "approved"
    approvedAt, \* approved_at; 0 is null
    market,     \* open; closed without a Settlement row; settled with one
    detected,   \* trades with a Signal row
    order,      \* the trade's PaperOrder: none, filled or missed
    shares,     \* positions.quantity
    settled,    \* positions with settled_at set
    pc,         \* where the bot is: poll, settle, select, batch, fetch
    batch,      \* the signals still to execute in this cycle
    killSwitch, \* order_kill_switch, read from the environment at startup
    crashes,
    copyable    \* history: made under the wallet's current approval

sourceVars == <<madeAt, row, seenAt>>
reviewVars == <<approved, approvedAt, copyable>>
bookVars == <<detected, order, shares, settled>>
botVars == <<pc, batch>>
processVars == <<killSwitch, crashes>>
vars == <<now, sourceVars, reviewVars, market, bookVars, botVars, processVars>>

Positions == Wallets \X Markets
PositionOf == [t \in Trades |-> <<WalletOf[t], MarketOf[t]>>]

\* ORDER BY ingested_at LIMIT n.
First(n, S) == {t \in S : Cardinality({s \in S : row[s] < row[t]}) < n}

OfWallet(w) == {t \in Trades : WalletOf[t] = w}

-----------------------------------------------------------------------------
Init ==
    /\ now = 1
    /\ madeAt = [t \in Trades |-> 0] /\ row = madeAt /\ seenAt = madeAt
    /\ approved \in SUBSET Wallets
    /\ approvedAt = [w \in Wallets |-> IF w \in approved THEN 1 ELSE 0]
    /\ market = [m \in Markets |-> "open"]
    /\ detected = {} /\ order = [t \in Trades |-> "none"]
    /\ shares = [p \in Positions |-> 0] /\ settled = {}
    /\ pc = "poll" /\ batch = {}
    /\ killSwitch \in BOOLEAN
    /\ crashes = 0
    /\ copyable = {}

(***************************************************************************)
(* The world outside the cycle.                                            *)
(***************************************************************************)
Tick ==
    /\ now < MaxTime
    /\ now' = now + 1
    /\ UNCHANGED <<sourceVars, reviewVars, market, bookVars, botVars, processVars>>

SourceTrade(t) ==
    /\ madeAt[t] = 0 /\ now <= LastTrade
    /\ \A s \in OfWallet(WalletOf[t]) : s < t => madeAt[s] > 0
    /\ madeAt' = [madeAt EXCEPT ![t] = now]
    /\ copyable' = IF WalletOf[t] \in approved THEN copyable \union {t} ELSE copyable
    /\ UNCHANGED <<now, row, seenAt, approved, approvedAt, market, bookVars,
                   botVars, processVars>>

\* An approval or a re-enable.  traded_at has whole seconds and approved_at has
\* not, so a trade of the second of the approval counts as made before it.
Approve(w) ==
    /\ w \notin approved
    /\ approved' = approved \union {w}
    /\ approvedAt' = [approvedAt EXCEPT ![w] = now + 1]
    /\ copyable' = copyable \ OfWallet(w)
    /\ UNCHANGED <<now, sourceVars, market, bookVars, botVars, processVars>>

\* A disable or a reject; approved_at keeps its value.
Disable(w) ==
    /\ w \in approved
    /\ approved' = approved \ {w}
    /\ copyable' = copyable \ OfWallet(w)
    /\ UNCHANGED <<now, sourceVars, approvedAt, market, bookVars, botVars, processVars>>

\* refresh_settlements, run by the bot or by a scoring request: a market found
\* closed without one winner is marked closed, a resolved one gets its
\* Settlement row in the same commit.
MarketEnds(m) ==
    /\ \/ market[m] = "open" /\ market' = [market EXCEPT ![m] = "closed"]
       \/ market[m] # "settled" /\ market' = [market EXCEPT ![m] = "settled"]
    /\ UNCHANGED <<now, sourceVars, reviewVars, bookVars, botVars, processVars>>

(***************************************************************************)
(* The cycle.  ingest_trade_rows stores a newest-first page row by row and *)
(* commits it; a row that fails is left for a later poll.                  *)
(***************************************************************************)
IngestPage(w, page) ==
    /\ pc = "poll" /\ now <= LastPage
    /\ page # {}
    /\ page \subseteq {t \in OfWallet(w) : madeAt[t] > 0 /\ row[t] = 0}
    /\ LET stored == {t \in Trades : row[t] > 0}
       IN row' = [t \in Trades |->
                     IF t \in page
                     THEN Cardinality(stored) + Cardinality({s \in page : s >= t})
                     ELSE row[t]]
    /\ seenAt' = [t \in Trades |-> IF t \in page THEN now ELSE seenAt[t]]
    /\ UNCHANGED <<now, madeAt, reviewVars, market, bookVars, botVars, processVars>>

\* Wrong variant: only the current state is checked, not the boundary.
ApprovedNow(t) == WalletOf[t] \in approved
WithinApproval(t) ==
    LET w == WalletOf[t] IN
    /\ w \in approved /\ approvedAt[w] # 0
    /\ madeAt[t] >= approvedAt[w]
    /\ seenAt[t] >= approvedAt[w]

\* detect_signals, at the end of the poll.
Detect ==
    /\ pc = "poll"
    /\ LET new == {t \in Trades \ detected : row[t] > 0 /\ WithinApproval(t)}
       IN detected' = detected \union First(DetectLimit, new)
    /\ pc' = "settle"
    /\ UNCHANGED <<now, sourceVars, reviewVars, market, order, shares, settled,
                   batch, processVars>>

\* settle_paper_positions: one transaction for every open position of a market
\* that has a Settlement row.
\* Wrong variant: the positions of a disabled wallet are left alone.
DueIfFollowed ==
    {p \in Positions : market[p[2]] = "settled" /\ shares[p] > 0 /\ p \notin settled
                        /\ p[1] \in approved}
Due == {p \in Positions : market[p[2]] = "settled" /\ shares[p] > 0 /\ p \notin settled}

Settle ==
    /\ pc = "settle"
    /\ shares' = [p \in Positions |-> IF p \in Due THEN 0 ELSE shares[p]]
    /\ settled' = settled \union Due
    /\ pc' = "select"
    /\ UNCHANGED <<now, sourceVars, reviewVars, market, detected, order, batch,
                   processVars>>

\* Wrong variant: decided signals are selected again.
SelectAll ==
    /\ pc = "select"
    /\ batch' = First(BatchSize, detected)
    /\ pc' = "batch"
    /\ UNCHANGED <<now, sourceVars, reviewVars, market, bookVars, processVars>>

\* The pending signals are taken in the order of t1, that of their rows.
Select ==
    /\ pc = "select"
    /\ batch' = First(BatchSize, {t \in detected : order[t] = "none"})
    /\ pc' = "batch"
    /\ UNCHANGED <<now, sourceVars, reviewVars, market, bookVars, processVars>>

Eligible(t) == now >= seenAt[t] + ReviewDelay
\* Wrong variant: the kill switch is looked at before the age.
StaleUnlessHalted(t) == ~killSwitch /\ now - madeAt[t] > MaxAge
Stale(t) == now - madeAt[t] > MaxAge

\* The signal whose turn it is, and the phase its turn is in.
\* Wrong variant: the order of the source, not that of ingestion.
FirstMade(t) == t \in batch /\ \A s \in batch : t <= s
Oldest(t) == t \in batch /\ \A s \in batch : row[t] <= row[s]
Executing(t) == pc = "batch" /\ Oldest(t)
Answered(t) == pc = "fetch" /\ Oldest(t)

\* "Once one is inside the review delay, all later (newer) ones are too".
StopEarly(t) ==
    /\ Executing(t)
    /\ ~Eligible(t) /\ ~killSwitch
    /\ batch' = {}
    /\ UNCHANGED <<now, sourceVars, reviewVars, market, bookVars, pc, processVars>>

\* Past the deferral gates: the signal gets its decision now.
Decidable(t) == ~Stale(t) /\ ~killSwitch /\ Eligible(t)
\* Wrong variant: an ended market is traded.
TradableAlways(t) == WithinApproval(t)
Tradable(t) == WithinApproval(t) /\ market[MarketOf[t]] = "open"
Exitable(t) == t \in Buys \/ shares[PositionOf[t]] > 0

Record(t, verdict) ==
    /\ order' = [order EXCEPT ![t] = verdict]
    /\ batch' = batch \ {t}
    /\ pc' = "batch"

\* The gates before the order book: stale_signal, also under the kill switch,
\* then wallet_not_approved, market_closed and no_position_to_sell.  The last
\* disjunct stands for the gates whose data is abstracted here: a missing token
\* and, for a BUY, the exposure caps and the bankroll.
SkipAtGate(t) ==
    /\ Executing(t)
    /\ Eligible(t) \/ killSwitch
    /\ \/ Stale(t)
       \/ Decidable(t) /\ ~WithinApproval(t)
       \/ Decidable(t) /\ WithinApproval(t) /\ market[MarketOf[t]] # "open"
       \/ Decidable(t) /\ Tradable(t) /\ ~Exitable(t)
       \/ Decidable(t) /\ Tradable(t) /\ Exitable(t)
    /\ Record(t, "missed")
    /\ UNCHANGED <<now, sourceVars, reviewVars, market, detected, shares, settled,
                   processVars>>

\* The kill switch leaves a fresh signal pending.
Defer(t) ==
    /\ Executing(t)
    /\ killSwitch /\ ~Stale(t)
    /\ batch' = batch \ {t}
    /\ UNCHANGED <<now, sourceVars, reviewVars, market, bookVars, pc, processVars>>

\* Every gate passed: the order book and the fee are awaited.
Fetch(t) ==
    /\ Executing(t)
    /\ Decidable(t) /\ Tradable(t) /\ Exitable(t)
    /\ pc' = "fetch"
    /\ UNCHANGED <<now, sourceVars, reviewVars, market, bookVars, batch, processVars>>

\* Wrong variant: a SELL walks the book for the order size.
FillUncapped(t) ==
    LET p == PositionOf[t] IN
    /\ Answered(t)
    /\ \E filled \in 1..MaxFill :
          shares' = [shares EXCEPT ![p] = IF t \in Buys THEN @ + filled ELSE @ - filled]
    /\ Record(t, "filled")
    /\ UNCHANGED <<now, sourceVars, reviewVars, market, detected, settled, processVars>>

\* A SELL walks the book for the shares owned at most; the fill may be partial.
Fill(t) ==
    LET p == PositionOf[t] IN
    /\ Answered(t)
    /\ \/ /\ t \in Buys
          /\ \E filled \in 1..MaxFill : shares' = [shares EXCEPT ![p] = @ + filled]
       \/ /\ t \notin Buys
          /\ \E filled \in 1..shares[p] : shares' = [shares EXCEPT ![p] = @ - filled]
    /\ Record(t, "filled")
    /\ UNCHANGED <<now, sourceVars, reviewVars, market, detected, settled, processVars>>

\* No depth, a price in the gated zone, or a cap or the cash on the exact cost.
SkipAtBook(t) ==
    /\ Answered(t)
    /\ Record(t, "missed")
    /\ UNCHANGED <<now, sourceVars, reviewVars, market, detected, shares, settled,
                   processVars>>

\* An exception rolls the signal's transaction back and the loop goes on.
FetchFails(t) ==
    /\ Answered(t)
    /\ batch' = batch \ {t}
    /\ pc' = "batch"
    /\ UNCHANGED <<now, sourceVars, reviewVars, market, bookVars, processVars>>

EndBatch ==
    /\ pc = "batch" /\ batch = {}
    /\ pc' = "poll"
    /\ UNCHANGED <<now, sourceVars, reviewVars, market, bookVars, batch, processVars>>

\* The process dies, or is restarted with another setting of the kill switch:
\* whatever was not committed is gone.
Crash ==
    /\ crashes < MaxCrashes
    /\ crashes' = crashes + 1
    /\ killSwitch' \in BOOLEAN
    /\ pc' = "poll" /\ batch' = {}
    /\ UNCHANGED <<now, sourceVars, reviewVars, market, bookVars>>

-----------------------------------------------------------------------------
World ==
    \/ Tick
    \/ \E t \in Trades : SourceTrade(t)
    \/ \E w \in Wallets : Approve(w) \/ Disable(w)
    \/ \E m \in Markets : MarketEnds(m)

Execute(t) ==
    \/ StopEarly(t)
    \/ SkipAtGate(t)
    \/ Defer(t)
    \/ Fetch(t)
    \/ Fill(t)
    \/ SkipAtBook(t)
    \/ FetchFails(t)

Cycle ==
    \/ Detect
    \/ Settle
    \/ Select
    \/ \E t \in Trades : Execute(t)
    \/ EndBatch

Next ==
    \/ World
    \/ \E w \in Wallets, page \in SUBSET Trades : IngestPage(w, page)
    \/ Cycle
    \/ Crash

Spec == Init /\ [][Next]_vars

\* The bot's loop never stops by itself and time passes.
FairSpec == Spec /\ WF_vars(Cycle) /\ WF_vars(Tick)

-----------------------------------------------------------------------------
TypeOK ==
    /\ now \in Nat \ {0}
    /\ madeAt \in [Trades -> Nat] /\ row \in [Trades -> Nat]
    /\ seenAt \in [Trades -> Nat]
    /\ approved \subseteq Wallets /\ approvedAt \in [Wallets -> Nat]
    /\ market \in [Markets -> {"open", "closed", "settled"}]
    /\ detected \subseteq Trades
    /\ order \in [Trades -> {"none", "filled", "missed"}]
    /\ shares \in [Positions -> Nat] /\ settled \subseteq Positions
    /\ pc \in {"poll", "settle", "select", "batch", "fetch"}
    /\ batch \subseteq Trades
    /\ killSwitch \in BOOLEAN /\ crashes \in Nat
    /\ copyable \subseteq Trades

\* "positions.settled_at is the idempotency marker" (paper-execution-model.md):
\* a paid position never comes back to life.  settle_paper_positions skips it
\* for ever, so shares bought after the payout would never be realized.
SettledStaysFlat == \A p \in settled : shares[p] = 0

\* A signal reaches the order book only if its trade was made under the approval
\* that is in force, without a disable and re-enable in between: the recheck of
\* execute_signal, against approvals that come and go during the review delay.
CopiedUnderItsApproval ==
    [][pc = "batch" /\ pc' = "fetch" => \A t \in batch : Oldest(t) => t \in copyable]_vars

\* The early end of the loop is sound: when the review delay of one signal ends
\* the batch, no signal behind it was due.
StopEarlyHidesNothing ==
    [][\A t \in Trades : StopEarly(t) => \A s \in batch : ~Eligible(s)]_vars

\* Paper execution keeps the promises of CopyBook: one final decision for each
\* trade, no exit beyond the holding, one payout for each holding.
Book == INSTANCE CopyBook WITH
    Holdings <- Positions, HoldingOf <- PositionOf,
    decision <- [t \in Trades |-> CASE order[t] = "none" -> "open"
                                    [] order[t] = "filled" -> "copied"
                                    [] OTHER -> "missed"],
    held <- shares, paid <- settled
ImplementsCopyBook == Book!Spec

\* Under fairness every signal is decided in the end, whatever the kill switch,
\* the failures of the order book and the crashes do.
EverySignalDecided ==
    \A t \in Trades : t \in detected ~> order[t] # "none"

\* "Paper P&L cannot depend on the source wallet sending a SELL": what is held in
\* a resolved market is realized, also if it was bought while the market resolved.
ResolvedIsPaid ==
    \A p \in Positions :
        market[p[2]] = "settled" /\ shares[p] > 0 ~> shares[p] = 0

\* "oldest first" (run_execution_cycle and paper-execution-model.md): the trades of
\* one position get their turns in the order in which the source made them.
OldestFirst ==
    \A t \in batch : Oldest(t) =>
        \A s \in batch : PositionOf[s] = PositionOf[t] => madeAt[t] <= madeAt[s]
=============================================================================
