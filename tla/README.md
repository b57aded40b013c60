# Poly2: a verification project

TLA+ models of the Polymarket paper-copying bot in `src/backend/src/polycopy`,
TLC configurations that check them on small instances, and TLAPS proofs of the
properties of the core for every value of the constants.

Paths below are relative to `src/backend/src/polycopy` unless they start with
`src/`.

## 1. The system

### Processes

| process | what it does |
| --- | --- |
| bot daemon (`bot/daemon.py`) | every 15 s: poll the trades of every tracked wallet, refresh settlements, run the execution cycle; hourly, in a session of its own, score the candidate wallets; heartbeats |
| API (`api/routes.py`) | wallet intake, approve / reject / disable / re-enable, bankroll settings, scoring on request, reports |
| watchdog (`watchdog.py`) | judges the heartbeats' timestamps |
| operator's commands (`shadow_controller.py`) | each a process of its own: close, recover, fence, freeze, drain and hand over a capture generation |
| PostgreSQL | all durable state, READ COMMITTED; sessions use `expire_on_commit=False`, so a loaded row object keeps what it held when it was read |
| Polymarket Data API, Gamma, CLOB | trades, markets, order books and fees; every request may fail or answer late |

There is one bot; everything else runs beside it. No call is made under a
process-wide lock: what protects a decision is a row lock (the bankroll account,
an updated wallet row), a condition in an UPDATE, a unique constraint, or nothing.
The journal of the shadow capture is the exception: a SQLite file that every
writer process and every command appends to under its write lock.

### Components

| component | state it keeps | operations | interacts with | what is hard |
| --- | --- | --- | --- | --- |
| bankroll (`bankroll.py`) | one account row, append-only ledger; deployed cost is computed from open positions | post realized P&L, sweep profit, change settings | called by execution and settlement; settings by the API | lock held over two awaits; rounding on storage; a sweep whose write is committed only sometimes |
| paper execution (`execution/service.py`) | signals, paper orders, positions | detect, gate, fill, record a miss, defer, settle, cycle | reads trades, approvals, markets; awaits the CLOB | approvals and resolutions during the awaits; ordering by ingestion; retries; crash |
| wallet approval (`scoring/service.py`, `api/routes.py`) | `wallets.approval_state`, `approval_queue` | scoring run, four human transitions, intake | scoring runs of two processes beside humans | row objects read minutes before they are written |
| settlement refresh (`accounting/settlements.py`) | per-market schedule and backoff, settlement rows, one shared throttle | select due markets, query Gamma, resolve | bot and scoring requests | read-modify-write by two processes |
| polling (`ingestion/service.py`) | raw trades, quarantine rows | store a page newest first, dedupe | bot | the order of storage decides the order of execution |
| catch-up and bootstrap (`ingestion/catchup.py`, `ingestion/service.py`) | checkpoints, windows, anchors, request budget | walk pages, roll windows, resume | bot and scoring run | offsets that shift, crash between page and checkpoint |
| wallet accounting (`accounting/pnl.py`) | none (pure) | average cost, realized P&L of a trade history | scoring | order and boundary cases |
| book walk, fees (`execution/bookwalk.py`, `fees.py`) | none (pure) | fill an amount from a book; taker fee | execution | rounding, thin books |
| score (`scoring/score.py`) | none (pure) | statistics to a verdict | scoring | floating point |
| shadow capture: fence and drain (`_shadow_protocol/`) | epoch, generation, admitted transactions, receipts | admit, prepare, commit, recover, close an epoch | hooks in database sessions | a death between PREPARE and the answer of the commit |
| shadow capture: observer, latch, controller (`shadow_*.py`) | per-transaction evidence, failure latch | observe begin / commit / rollback, invalidate | fence | missing events, failure while the fence is locked |
| watchdog, failure log throttle, evidence reports, configuration, schema, dashboard | little or none | | | |

`PROJECT.json` lists them with the status of each, and under `hazards` each
place in the code that is hard to test, at its line, with the properties that
would see it going wrong.

### What makes each component correct

* bankroll: no overspending, no double withdrawal, the stake is never withdrawn,
  the ledger explains the account, the exposure cap and the stop-loss floor hold.
* paper execution: each trade is decided once and in the end; nothing is copied
  outside the approval in force; no exit beyond the holding; each resolved
  holding is paid once and stays closed; oldest first.
* approval: human decisions stand; a wallet that waits for a human is in the
  queue, with one open entry.
* settlement refresh: only what Gamma has resolved is settled, and all of it is
  settled in the end.
* ingestion: every trade of an approval period is stored once; a checkpoint is
  never ahead of what is stored; a backfill keeps its budget and comes to an end.
* shadow capture: a generation is sealed only if each of its transactions has a
  proven outcome, over exactly the committed trades of its window; any failure
  denies it, and nothing else does.

## 2. Modules

| module | models | role |
| --- | --- | --- |
| `Bankroll` | `bankroll.py`, the money side of `execution/service.py`, `POST /bankroll/settings` | component |
| `MCBankroll` | | constants for TLC |
| `BankrollProofs` | | theorems about `Bankroll` |
| `CopyBook` | | what paper execution promises (abstract) |
| `PaperExecution` | `execution/service.py` with what it reads of ingestion, approval and settlement | component, implements `CopyBook` |
| `MCPaperExecution` | | constants for TLC |
| `PaperExecutionProofs` | | theorems about `PaperExecution`, the refinement among them |
| `WalletApproval` | `scoring/service.py` (`score_all_wallets`, `_apply_verdict`), `transition_wallet`, `add_wallet` | component |
| `MCWalletApproval` | | constants for TLC |
| `WalletApprovalProofs` | | theorems about `WalletApproval` |
| `CatchUp` | `ingestion/catchup.py`, the storing of pages and the wallet's turn in `ingestion/service.py` | component |
| `MCCatchUp` | | constants for TLC |
| `CatchUpProofs` | | theorems about `CatchUp` |
| `SettlementRefresh` | `accounting/settlements.py`, the Gamma side of `ingestion/client.py` | component, used by `HistoryBootstrap` |
| `HistoryBootstrap` | `bootstrap_wallet_history`, with the bot's cycle and the scoring runs around it | component, composed with `SettlementRefresh` |
| `MCHistoryBootstrap` | | constants for TLC |
| `HistoryBootstrapProofs` | | theorems about `HistoryBootstrap` with `SettlementRefresh` |
| `ComparisonFence` | the journal of the shadow capture and its replay (`poly2-comparison-fence.py`) | component |
| `ShadowObserver` | `shadow_observer.py`, `shadow_failure.py` and the source's transactions | component, over `ComparisonFence` |
| `CaptureEpoch` | | what a capture generation promises (abstract) |
| `ShadowCapture` | `shadow_capture.py`, `shadow_controller.py`, the drain | composes the two, implements `CaptureEpoch` |
| `MCShadowCapture` | | constants for TLC |
| `ShadowCaptureSound` | | the inductive invariant of `ShadowCapture`, and what the writers' starts, duplicates and controls keep of it |
| `ShadowCaptureSteps` | | every other step keeps it |
| `ShadowCaptureProofs` | | theorems about `ShadowCapture`, the refinement among them |

### Bankroll

`db` holds the committed columns only the bot writes: the account's realized and
withdrawn totals and its `sweep_pending` flag, the sums of the two kinds of
ledger entry, and `cost`, the sum of `quantity * avg_price` over open positions.
`tx` is the bot session's view of the same columns. `limit` and `floor` are the
two columns an operator sets. `locked` says that the bot's transaction holds the
account row `FOR UPDATE`; `pc` follows `run_execution_cycle`.

* Money is counted in halves of the smallest stored amount. A stored column is
  even; an odd number is a tie, which PostgreSQL's NUMERIC rounds away from zero
  (`Stored`). `dust` counts the errors made so far, and the bounds of the
  properties are stated with it. Averages are stored rounded too (`AvgSlips`).
* A BUY is three steps: `BuyGate` (caps, stop loss and cash are read, the row is
  locked), then the two awaits, then `BuyFill` or `BuyAbandoned`.
  `UpdateSettings` waits for the lock, so it can come before, between and after.
* `Sweep` writes in the session, `EndCycle` commits or drops it, as the code does.
* `SettleOne` realizes one position in the transaction that `SettleCommit` ends.
* `Crash` is any exception that leaves the cycle, and a death of the process.

Abstracted: which position an amount belongs to, and prices; the amounts of a
BUY, of a SELL and of a payout are any of `Amounts`. The bound on realized P&L
(`MaxPnl`) and on rounding errors (`MaxDust`) end the model's trading, not the
program's.

### PaperExecution

Trades are numbers in the order their wallet makes them. `row` is the place of a
stored trade in the order of `ingested_at`, `seenAt` the clock's reading of it
(t1). `detected`, `order`, `shares` and `settled` are the tables signals,
paper_orders and positions; `batch` the list of pending signals the cycle holds,
and `pc = "fetch"` the time in which the order book and fee are awaited, while
approvals, market ends and the clock go on. `killSwitch` is read at startup and
may differ after a restart (`Crash`).

* The gates of `execute_signal` are in the order of the code: age, kill switch,
  review delay, approval, market, then, for a SELL, the position. The gates that
  depend on prices or money are one nondeterministic verdict; `Bankroll` has them
  exactly. A fill may be partial.
* The outcome of a position is folded into its market.
* `traded_at` has whole seconds, `approved_at` has microseconds: a trade of the
  second of the approval counts as made before it, hence `now + 1` in `Approve`.
* `copyable` is history: the trades made under the approval in force.
* Left out: `kill_switch_deferrals`, a counter only reports read.

`CopyBook` states the promise in three actions: a trade is decided once (missed
or copied), a copied exit takes part of what is held, a resolved holding is paid
once. `ImplementsCopyBook` is the refinement.

### WalletApproval

`snapshot[s]` is the state the scoring process `s` read of each candidate when
its run started; the code never refreshes those objects. `at`, `to` and `found`
are its open transaction: the wallet, the state it writes (which locks the row)
and the open queue entries it read. `Human` is `transition_wallet`: a conditional
UPDATE that waits for the row. The verdict of a score is any verdict.

### CatchUp

One wallet, its trades numbered in the order of the source, which answers newest
first. `made` is how many exist, `stored` and `quarantined` what became of their
rows, `saved` the last `wallet_catch_up` entry of the decision log. `pc` follows
the wallet's turn: `Begin` reads the approval, `Tail` fetches and stores the latest
page, `NoGap` or `Recover` judges it, `OlderPage` and `Progress` walk, `Roll` shrinks
the window to its oldest second when the source's offsets end, `CaughtUp`,
`NextWindow`, `GiveUp` and `EndOfBudget` end the turn. Each commit of the code is a
step of its own, and `Fail` may come between any two of them.

* `window` has the fields of the checkpoint under short names: `anchor`
  (`anchor_id`), `end` (`end_timestamp`), `offset` (`next_offset`), `oldest`
  (`window_oldest`); 0 is None. `head` is `head_anchor`.
* `Page` counts an offset from the newest trade that the window includes at the
  time of the request, so a trade of the window's last second that is made during
  the walk shifts the pages. The source always gives the same order.
* Fetching, storing and committing one page is one step. A row that cannot be
  stored is any row (`MaxQuarantined` of them); rows without a valid identity have no
  key and are left out.
* `NewestStored` is any stored trade of the newest second: the code's order within a
  second is that of the rows' ids.
* A wallet that is not approved gets its latest page only. Its history before the
  first approval is not promised, and `since` says where the promise begins.

### SettlementRefresh

`gamma` is what Gamma has of each market, `settled` the settlement rows. `attempts`
and `wait` are the schedule columns of `markets`, counted down in cycles of the bot
(`Never` is NULL); `throttle` is the row of `api_throttles` that both processes
share, `cooldown` the private one of the bot's HTTP client. `refresh[p]` is a
refresh in progress: the markets left, the attempt counts as they were read, and
how many cycles ago it began, because every check writes the schedule from that
time (`Scheduled`).

* One answer of Gamma is any set of closed markets (`Answers`); the two lookups with
  their identity check are `Winners`. Leaving out the market asked for costs a
  mishap, so that Gamma cannot do so for ever.
* `SettledTwice` is the commit that loses on `uq_settlements_market`: it is not in
  the handler and ends the cycle or the scoring run (`Raises` in `HistoryBootstrap`).
* `LimitedFor` overwrites the shared throttle with this refresh's own deadline. The
  `max` in the code changes nothing, as a refresh starts only when the throttle it
  read has passed; two refreshes that are limited at once can therefore shorten
  it. A process of its own client is made for every scoring request, so only the
  bot's `cooldown` lasts.
* `Batches` sorts NULL last, as PostgreSQL does, although `models.py:89` calls such a
  market immediately due; the tests run on SQLite, which sorts it first. See the
  hazard at `accounting/settlements.py:199`.
* Abstracted: asking and committing the answer are one step; the metadata that an
  answer carries.

### HistoryBootstrap

One candidate wallet. `log` is the last `wallet_historical_bootstrap` entry of the
decision log, under short names, `run[p]` the bootstrap of each process with the
values it holds in memory; `stored` and `listing` are the trades here and at the
source. Each commit is a step: `Reserve` pays for a page before it is asked for,
`Fetch` stores it, `Progress` writes the checkpoint, `Reconcile` pays for the
settlements and starts a refresh, `RunChecks` and `Answered` finish it, `Finish`
writes the last entry. The bot's `Cycle` (poll and settlement batch) and scoring
requests to the API run in between; `Crash` and `Raises` may end anything.

* `first` and `spent` are history: what the source had when the first bootstrap
  began, and the requests made since. From the moment two bootstraps overlap,
  `spent` is not counted: both resume from one entry, and their sum is capped by
  nothing. `CheckpointCovered` is claimed for that case too.
* The poll's question for the metadata of a new market may be answered 429
  (`PollMetadata`), which starts a cooldown the shared throttle does not know.
* The wallet's score is whether it has one; what it is belongs to
  `WalletApproval`.

### ComparisonFence, ShadowObserver, ShadowCapture

The shadow capture records, beside the running source, exactly which trades were
committed in a window of time, so that another program may be compared with this
one. `fence` is the journal, kept as its replay (`Legal`, `Apply`); `session` and
`db` are the source's sessions and what the database does with their transactions,
`proc` the writer processes, `latched` the file `capture-failed.json`. `command` is
an operator's command between its two steps, `drain` the last frame of the drain's
journal, `decision` the initial decision about each trade.
`early` is history: a reader command came before its turn.

* Of an epoch: a transaction is admitted by its first flush with a trade
  (`BeforeFlush`), its rows are read back (`Insert`, with SAVEPOINTs released or
  undone), a witness row joins it before its COMMIT (`BeforeCommit`). A rollback
  before any COMMIT is recorded (`Rollback`); an error answer to a COMMIT proves
  nothing (`CommitRaises`), nor does a death (`Crash`), after which the database
  still decides (`DbDecides`). `Close` moves the epoch, each process acknowledges
  (`Control`), `Recover` resolves from witnesses, `Complete` writes the receipt,
  `Freeze` and `Frozen` the population, `DrainStep` follows the decisions, `Handoff`
  and `Archive` seal.
* Everything the observer does may fail. `Denials` names what a failure leaves: the
  signed ERROR with the latch, one of them, the latch without a look at the
  journal, or nothing (`lost`). Nothing at all is what
  `src/docs/shadow-capture-v1.md` claims nothing about; the properties exempt
  those transactions by `Accounted`.
* Some ends leave a transaction outstanding for ever, by design: no answer and no
  witness, a session closed without a rollback, a flush that raises inside
  `commit`. `Unprovable` names them in `EpochSealed`.
* `operate` denies the generation for every exception of a reader. One that finds a
  failure or loses its database is `CommandRaises`, a fault. A freeze without a
  receipt, a drain or a handoff without a frozen population, a handoff of a drain
  that is not complete is nobody's failure: `OutOfTurn` costs no fault, and `early`
  remembers it. `close`, `fence` and `recover` too early change nothing.
  `DenialNeedsCause` does not promise that commands may come in any order, since in
  the code they may not (`test_shadow_capture_native.py:578-581` asserts the denial);
  it promises that the documented order, with any interleaving of writers and
  database, is never taken for a failure.
* The freeze takes every trade of the cohort ingested in the window, whether the bot
  copies it or not. `Decide` has both outcomes: a decision, or `uncopied` for a
  trade of a wallet that is not approved or made before its approval, for which
  `detect_signals` never makes a signal. The drain has no end without a decision
  (`NO_INITIAL_DECISION_EXPECTED` is refused, `poly2-comparison-drain.py:91-92`) and
  stays `DRAINING`, without a denial, for ever.
* Two guards of `BeforeFlush` are bounds of the model: no flush begins after a failure
  is in the journal, nor without a row left for it.
* The third fallback of `invalidate` may store the latch after the ARCHIVE
  (hazard at `shadow_failure.py:50`); a latch stored after a handoff has opened the
  spool does not stop its ARCHIVE.
* Abstracted: time is before, inside or after the window; hashes, signatures and
  the chain of events; a session and its successor; a handoff whose own drain step
  completes the drain is `DrainStep` and then `Handoff`.

`CaptureEpoch` says in five actions what is left when all of that is forgotten:
trades are committed, a generation is fenced, frozen, sealed, or fails. `EpochSpec` is
the refinement.

## 3. Runs

| run | instance | result |
| --- | --- | --- |
| `bankroll` | stake 4, orders 1.5, cap 5.5 stored units; amounts 0, 1.5, 3; limits off / 2; floors off / 3 | pass, 0.8 million states |
| `bankroll_sweep` | the same | `SweepAfterCrossing` violated |
| `execution` | a wallet that enters, leaves and enters again, batches of two, one crash | pass, 2.4 million states |
| `execution_liveness` | a round trip, batches of one, failing requests, one crash | pass |
| `execution_order` | the same wallet as `execution` | `OldestFirst` violated |
| `approval` | two wallets, three scoring processes, symmetric | pass, 0.26 million states |
| `approval_override`, `approval_entries` | the same system | violated |
| `catch_up` | seven trades, pages of two, two pages per cycle, offsets up to three; two failures, one bad row; the wallet has a checkpoint | pass, 0.5 million states |
| `catch_up_first` | the same, but the wallet has no checkpoint yet | `NothingMissing` violated |
| `capture` | two writer processes, one of which makes two transactions of up to two rows; one fault or death, commands out of turn besides | pass, 0.65 million states |
| `bootstrap` | bot and one scoring request; three trades in two markets, pages of two, offsets up to two, three requests, batches of one market; one mishap | pass, 0.25 million states |

Why the bounds are enough to be interesting:

* `bankroll`: an order of 1.5 units rounds, two orders fit the stake and three do
  not, a full position fits the cap only if the exact cost does, a profit reaches
  the limit in one or in two steps, a loss reaches the floor; a sweep may be
  partial (cash is deployed) and is then continued after further profits or
  losses. `MaxPnl` = 3 units lets a position lose its cost twice.
* `execution`: three trades are the smallest history in which a position is
  opened, closed or settled, and opened again; an age limit of two ticks and a
  delay of one make each gate reachable on both sides; `LastTrade`, `LastPage`
  and `MaxTime` leave two ticks after the last page, so that a signal can leave
  its delay, and an early one go stale. Detection and execution limits of two are below the number of trades.
* `approval`: one open entry per scoring process is reached only if a human
  decides between the runs; three processes are one more than the code starts by
  itself (bot and one request), since a request may be sent twice.
* `catch_up`: a gap of four trades needs three pages, one more than the budget, and
  an offset beyond the limit, so a walk is resumed and its window rolled; seven
  trades leave enough for the head to move out of the latest page meanwhile and
  for a second window. One of the two timings has two trades per second, so that
  windows share their boundary second; the other has a second with as many trades
  as the offsets reach (`Wide`), where the walk stalls and stays visibly
  incomplete.

* `capture`: two processes are what the roster demands at least, so an
  acknowledgement can be missing; two transactions let one belong to the old epoch
  and one to the next, or both to either. One fault is enough for every kind of
  failure at every point, except for failures of two things at once; the same
  model with two (`MaxMishaps = 2`, safety only) has 1.7 million states and was
  checked by hand, without an error.
* `bootstrap`: three trades, two of them in one second, are enough for two pages, a
  rolled window that shares its second with the next and a trade that arrives
  during the walk; a batch of one market makes a settled one wait for one that never
  resolves, and with `MaxDelay = 2` the backoff leaves it a place (with delays of one
  cycle it does not: the property needs the backoff to grow beyond the backlog).
  That the history ends on a page boundary does not happen there; four trades, pages
  of two, four pages and offsets up to three (safety only, 3.2 million states) were
  checked by hand, without an error.

### Fairness

`FairSpec` asks two things: the cycle takes its next step (`WF_vars(Cycle)`), as
the daemon's loop catches every exception and polls again for ever, and time
passes (`WF_vars(Tick)`). Nothing is assumed of the environment: order book
requests may fail every time, approvals may flap, and the number of crashes is
bounded by `MaxCrashes` because a bot that dies for ever decides nothing.
`EverySignalDecided` then rests on the age limit, which is checked before the
kill switch; `MaxTime` exceeds `LastTrade` by more than `MaxAge`, so the model's
clock does reach it.

In `CatchUp` the wallet's turn goes on and comes again (`WF_vars(Turn)`), for the same
reason. Failures are bounded by `MaxFailures`, since a source that never answers
connects nothing. `EventuallyConnected` assumes what the code needs and cannot
ensure: the wallet stays approved, and no second holds more trades than the
offsets reach.

In `ShadowCapture` a process that is down is started again and its control loop runs
every 0.1 s (`WF_vars(Start(w))`, `WF_vars(Control(w))`); a session that has begun a
transaction ends it and the database decides. The operator follows the sequence
of `src/docs/shadow-capture-v1.md`: after `close` each command is given again while it
is due. `Close` itself is not asked for, nor a new transaction. The bot's cycles come
to every frozen trade (`WF_vars(Decide(r))`): a trade to be copied is decided in the
end, as `EverySignalDecided` says, and any other is `uncopied`. With that,
`EpochSealed` names the reasons for which a closed generation may not be sealed: it
is denied, by a fault or a command out of turn; a writer is missing or blind; a
transaction ended without proof; a hand changed the database; a frozen trade is not
copied, and the drain waits for it without a denial. Without the last one the run
fails, with that wait as its counterexample.

In `HistoryBootstrap` a process goes on with what it has begun, and the bot begins
cycles and scoring runs again and again: `SF_vars(Cycle)` and `SF_vars(StartScoring(Bot))`,
strong because each is disabled while the other runs, in the one loop that takes
both in turn. Nothing makes the API score, the source answer or Gamma resolve a
market; mishaps are bounded.

## 4. What the code does not do

The five runs that expect a violation each show the program doing something else
than its own documentation says:

1. `SweepAfterCrossing` (`bankroll.py:178-179`): when losses eat the pile, the
   sweep clears `sweep_pending` and returns 0, but the cycle commits only when money
   moved, so the clear is lost and a later profit below the limit is withdrawn.
2. `OldestFirst` (`execution/service.py:619-620`): a page is stored newest first
   and signals are taken in the order of storage; the exit of a quick round trip
   is judged before its entry.
3. `HumanDecisionKept` (`scoring/service.py:6-8`): a scoring run writes from the
   state it read at its start, over a decision made since.
4. `OneOpenEntry` (`scoring/service.py:9`): two overlapping runs add two open
   entries after a human decision closed the first.
5. `NothingMissing` before the first checkpoint (`ingestion/catchup.py:32-36`): the
   latest page is committed before anything records where the history was
   connected. A failure between that commit and the first checkpoint makes the
   next turn take the interrupted page as its anchor and declare the wallet
   caught up over the gap below. Once a checkpoint exists the promise holds, which
   is what `catch_up` shows.

## 5. What is proved

Every invariant and every safety action property that a passing run checks, and
both refinements, are also theorems, for all values of the constants that satisfy
the modules' ASSUMEs. Each rests on an inductive invariant, which TLC checked on the
run's instance before it was proved.

* `BankrollProofs`. The properties speak of committed columns, but a commit copies
  the session's view, so `Sound` asks the bounds of both (`Good(db)`, `Good(tx)`)
  and says what each phase remembers (`Phases`): during a BUY the row is locked,
  the view is the database and the cash read is still the cash, the floor still
  not reached; between the sweep's write and the end of the cycle the pending
  withdrawal is within the realized profit. `PostKeepsGood`, `BuyKeepsGood`,
  `WithdrawKeepsGood` and `ClearKeepsGood` carry the arithmetic: rounding moves an
  amount by its error (`StoredNear`), a stored total takes that error over
  (`EvenPlus`). Theorems: `TypeCorrect`, `CashNeverOverdrawn`,
  `LedgerExplainsAccount`, `ExposureNeverExceedsCap`, `WithdrawalsAreProfit`,
  `BuysStayAboveFloor`. They assume `MoneyAssumption` (amounts are not negative,
  the stake is a stored value).
* `PaperExecutionProofs`. `Sound` says that the order of storage is an order of
  the trades and agrees with the clock (`RowsOrdered`; `IngestKeepsOrder` counts
  the page that goes behind what is stored), that the batch holds undecided
  signals only, that settled positions belong to resolved markets and are flat,
  that the position of an awaited fill is not settled, since settling is another
  phase of the same process, and that what lies within the approval in force was
  made under it. Theorems: `TypeCorrect`, `SettledForGood`, `CopiesStayApproved`,
  `StoppingEarlyIsSound`, and `ExecutionImplementsCopyBook`, where a fill maps to
  `Copy`, a recorded miss to `Miss`, a settlement to one `PayOut` (an empty one,
  if nothing is due) and every other step to a stutter. They assume
  `ExecutionAssumption` (finitely many trades, a positive fill).
* `WalletApprovalProofs`. `Sound` adds to `PendingIsQueued` that a wallet's row has
  one holder and that the entries a holder found are still open: closing them
  needs the row. `QueueNeverOverflows` then counts the transactions about to add an
  entry. Theorems: `TypeCorrect`, `ReviewNeverForgotten`, `QueueNeverOverflows`.
  They assume `ApprovalAssumption` (finitely many scoring processes).

* `ShadowCaptureSound`, `ShadowCaptureSteps`, `ShadowCaptureProofs`. Nothing the
  operator's commands read says by itself that the population is exact; `Sound`
  says why. `JournalOrder`: the stages of the journal follow each other, and what
  is admitted before the close is not of the new epoch. `WitnessExact`: a witness
  names all the rows of its transaction. `SessionSound`: a session that observes
  has admitted its transaction and knows its rows unless its process failed since.
  `BlindDenied`: a process that stopped observing, or failed, has denied the
  generation. From these come `AdmittedOrDenied`, that a transaction with a row of
  the window was admitted or the generation cannot be fenced, and
  `LateAdmissions`, that those of the new epoch have no such row; `ResolutionIsProof`
  is a part of `Sound`. Theorems: `AlwaysSound`, `TypeCorrect`,
  `ResolutionsAreProofs`, `ReceiptCutsEpoch`, `SealIsExact`, `SealHasDecisions`,
  `DecisionsStand`, `DenialHasCause` (by contradiction: `Unprovoked`, a denial that
  nothing provoked, could only be a refusal, and each refusal needs a fault, a
  writer that is missing from the roster, or a command out of its turn, which
  `early` records), and `CaptureImplementsEpoch`, where a
  commit of an admitted transaction maps to `CaptureEpoch`'s commit, the receipt, the
  freeze, the archive and the first ERROR to its stages, and every other step to
  a stutter (`RestingRefines`). They assume `FenceAssumption` and
  `ObserverAssumption` (finitely many workers, each session in one).
* `CatchUpProofs`. `Walking` says how far a walk has come: a trade between the anchor
  and the head that is not kept yet is no newer than the window's end, has at
  least the offset at which the walk goes on (`Rank`), and is no newer than the
  oldest second seen (`Reaches`). It is claimed of the checkpoint and of the walk
  in memory apart, since a failure falls back from the second to the first. New
  trades only raise a rank (`ReachStays`); a page that reaches the anchor has left
  nothing behind it (`MetAnchor`). Theorems: `TypeCorrect`, `NothingIsMissing`,
  `AnchorMovesForward`. They assume `CatchUpAssumption`, the last two also
  `Checkpointed`: before the first checkpoint the property is false, which is
  what `catch_up_first` shows.
* `HistoryBootstrapProofs`. `SettledIsResolved` is inductive with the types.
  `BudgetHolds` is not: `Budgeted` counts what a run still owes of what its
  checkpoint says was paid (`Owed`: the one page of a fetch, two requests for each
  market a refresh has left), asks that one run goes on at a time until two
  overlap (`Single`), and ties the entry in the decision log to the run's copy.
  `CheckpointCovered` rests on `Covered`, which says of the entry and of each
  run's copy that what is missing lies behind the cursor and is no newer than the
  oldest second seen; a page at the cursor is an interval of trades
  (`PageIsInterval`), so a short one was the last. Both rest on `Started`: a run has
  a checkpoint in progress. `TypeCorrect` carries the limits on offsets, rows and
  requests and is long for that reason. Theorems: `TypeCorrect`,
  `SettledWasResolved`, `BudgetIsKept`, `CheckpointsCover`. They assume
  `BootstrapAssumption` and `RefreshAssumption` (trades in the order of their
  seconds, positive page sizes and limits).

Only model-checked: the liveness properties (`EverySignalDecided`, `ResolvedIsPaid`,
`EventuallyConnected`, `ResolvedIsSettled`, `EventuallyScored`, `EpochSealed`), as
liveness under fairness is out of the prover's reach, and the five violations.

The modules that are proved about update a record inside a function as
`[f EXCEPT ![p] = [@ EXCEPT !.a = x, !.b = y]]`. The shorter `![p].a = x,
![p].b = y` means the same, but version 1.4.5 of the prover translates two such
paths with one index wrongly for the SMT solver when a value is computed from the
old record's numbers: it can prove FALSE from them.

## 6. Plan

1. Named lemmas for what the proofs of `CatchUp` and `HistoryBootstrap` share: pages,
   ranks and the smallest member of a set of numbers are stated in both.
2. An abstract specification of a resumable backfill that both `CatchUp` and
   `HistoryBootstrap` implement: the set of kept trades grows, and a place in the
   history is recorded only over what is kept.
3. Pure algorithms against references: book walk and fee, wallet accounting, the
   watchdog's judgement of heartbeats.

## 7. Not modelled

* Retries inside one network request: it answers or fails.
* Of the shadow capture: the vendored `TransactionDriver`, source hook, session
  observer, `CheckpointProducer` and in-memory sealing, which the installed capture
  replaces or does not call; the journal's chain, signatures and files; two commands
  of the operator at the same time and the writes of a second process under a running one's name.
* Two processes that create the same market or the first throttle row at once (see
  the hazards).
* Trade identity (string canonicalisation), statistics in floating point, file
  formats, hashing and signing of the shadow protocol, reports, the dashboard,
  migrations, configuration parsing.
* The creation of the account row by two first requests (see the hazards).
* More than one bot process: the deployment starts one, and nothing in the code
  serializes two.
