-------------------------- MODULE HistoryBootstrap ---------------------------
(***************************************************************************)
(* The backfill of a candidate wallet's history and of the resolutions of  *)
(* its markets before it is scored (bootstrap_wallet_history in            *)
(* ingestion/service.py, called by score_all_wallets), run by the bot      *)
(* every hour and by the API on request, at the same time if it so         *)
(* happens, beside the polling and the settlement refresh of the bot's     *)
(* cycles.  A run resumes from the last checkpoint in the decision log.    *)
(*                                                                         *)
(* Trades are numbered in the order of the source, which answers newest    *)
(* first.  Rows that cannot be stored are left to CatchUp.                 *)
(***************************************************************************)
EXTENDS SettlementRefresh

CONSTANTS
    MaxTrades,      \* bound on the trades the source makes
    BatchSize,      \* ingestion_batch_size, of the polling
    Listing0,       \* how many of them it has at first
    Stamp,          \* their timestamps, in whole seconds
    MarketOf,
    PageSize,       \* bootstrap_page_size
    OffsetLimit,    \* the source refuses offsets from here on
    MaxPages, PagesPerRun, MaxRows, MaxRequests, MaxAsked,
                    \* bootstrap_max_pages, _pages_per_run, _max_trades,
                    \* _max_requests and _max_settlement_markets
    MinTrades, MinSettled, MatureStamp,
                    \* MIN_TRADES, MIN_SETTLED_MARKETS, MIN_ACCOUNT_AGE_DAYS
    MaxScorings     \* bound on the scoring runs that the API is asked for

Trades == 1..MaxTrades

ASSUME BootstrapAssumption ==
    /\ MaxTrades \in Nat /\ Listing0 \in 1..MaxTrades
    /\ Stamp \in [Trades -> Nat \ {0}] /\ MarketOf \in [Trades -> Markets]
    /\ \A s, t \in Trades : s <= t => Stamp[s] <= Stamp[t]
    /\ BatchSize \in Nat \ {0} /\ PageSize \in Nat \ {0} /\ OffsetLimit \in Nat \ {0}
    /\ MaxPages \in Nat \ {0} /\ PagesPerRun \in Nat \ {0}
    /\ MaxRows \in Nat \ {0} /\ MaxRequests \in Nat \ {0} /\ MaxAsked \in Nat /\ MaxScorings \in Nat

VARIABLES
    listing,    \* the source has the trades 1..listing
    stored,     \* rows of trades
    log,        \* the last wallet_historical_bootstrap entry
    run,        \* the bootstrap in progress of each process
    scored,     \* the wallet has a score
    scorings,   \* scoring requests so far
    first,      \* history: what the source had when the first bootstrap began
    spent       \* history: requests of the bootstraps, until two of them overlap

vars == <<settlementVars, listing, stored, log, run, scored, scorings, first, spent>>

Overlapped == -1

NoCheckpoint ==
    [reason |-> "none", offset |-> 0, end |-> 0, oldest |-> 0, pages |-> 0, rows |-> 0,
     requests |-> 0, checked |-> {}]

\* pc: idle, loop, fetch, progress, reconcile or settle; a bot that is idle with
\* markets to check is in its cycle.  The pages are those of this run.
NoRun == [pc |-> "idle", at |-> NoCheckpoint, pages |-> 0, short |-> FALSE,
          asked |-> {}, failed |-> FALSE]

Init ==
    /\ RefreshInit
    /\ listing = Listing0 /\ stored = {} /\ log = NoCheckpoint
    /\ run = [p \in Processes |-> NoRun]
    /\ scored = FALSE /\ scorings = 0 /\ first = 0 /\ spent = 0

-----------------------------------------------------------------------------
(* The source and what is stored of it. *)

SourceTrade ==
    /\ listing < MaxTrades /\ listing' = listing + 1
    /\ UNCHANGED <<settlementVars, stored, log, run, scored, scorings, first, spent>>

MarketResolves(m) ==
    Resolve(m) /\ UNCHANGED <<listing, stored, log, run, scored, scorings, first, spent>>

\* Trades up to a second; a page of them.
Until(end) == {t \in 1..listing : Stamp[t] <= end}
Page(end, offset, limit) ==
    LET n == Cardinality(Until(end))
    IN {t \in Until(end) : n - offset - limit < t /\ t <= n - offset}

Known == {MarketOf[t] : t \in stored}

Mature ==
    /\ Cardinality(stored) >= MinTrades /\ Cardinality(settled) >= MinSettled
    /\ \E t \in stored : Stamp[t] <= MatureStamp

-----------------------------------------------------------------------------
(* The bot's cycle, as far as this wallet and the settlements go. *)

Idle(p) == run[p].pc = "idle" /\ refresh[p].todo = {}

\* The poll stores the newest trades.
Cycle ==
    /\ Idle(Bot)
    /\ stored' = stored \union Page(Stamp[listing], 0, BatchSize)
    /\ LET known == {MarketOf[t] : t \in stored'}
       IN PollMetadata(known # Known) /\ CycleRefresh(known)
    /\ UNCHANGED <<listing, log, run, scored, scorings, first, spent>>

CycleChecks(m) ==
    /\ run[Bot].pc = "idle" /\ (Answer(Bot, m) \/ Error(Bot, m))
    /\ UNCHANGED <<listing, stored, log, run, scored, scorings, first, spent>>

-----------------------------------------------------------------------------
(* The bootstrap. *)

Bootstrapping(p) == run[p].pc # "idle"
Overlaps(p) == \E q \in Processes \ {p} : Bootstrapping(q)
Spends(n) ==
    spent' = IF spent = Overlapped THEN Overlapped ELSE Smaller(MaxRequests + 1, spent + n)

WithinBudget(at) == at.pages < MaxPages /\ at.rows < MaxRows /\ at.requests < MaxRequests

\* Only an entry about the maturity or the end of the history, or one of a
\* budget used up, is final.
Concluded ==
    \/ log.reason \in {"mature", "exhausted"}
    \/ log.reason = "limit" /\ ~WithinBudget(log)

Resumed == [IF log.reason = "none" THEN [NoCheckpoint EXCEPT !.end = Stamp[listing]] ELSE log
              EXCEPT !.reason = "in_progress"]

StartScoring(p) ==
    /\ Idle(p)
    /\ IF p = Bot THEN UNCHANGED scorings ELSE scorings < MaxScorings /\ scorings' = scorings + 1
    /\ IF Concluded \/ Mature
       THEN /\ log' = IF log.reason = "mature" \/ ~Mature THEN log
                      ELSE [NoCheckpoint EXCEPT !.reason = "mature", !.end = Stamp[listing]]
            /\ scored' = TRUE
            /\ UNCHANGED <<run, first, spent>>
       ELSE /\ run' = [run EXCEPT ![p] = [NoRun EXCEPT !.pc = "loop", !.at = Resumed]]
            /\ first' = IF first = 0 THEN listing ELSE first
            /\ spent' = IF Overlaps(p) THEN Overlapped ELSE spent
            /\ UNCHANGED <<log, scored>>
    /\ UNCHANGED <<settlementVars, listing, stored>>

\* persist_progress: the run goes on at pc with the checkpoint that it commits.
Persist(p, at, pc) ==
    /\ log' = at
    /\ run' = [run EXCEPT ![p] = [@ EXCEPT !.pc = pc, !.at = at]]

\* The run ends with its last entry, and with the score unless the history is not
\* conclusive; one that only used up the pages of a run is to be continued.
Finish(p, at, reason) ==
    LET pause == reason = "limit" /\ run[p].pages >= PagesPerRun /\ WithinBudget(at)
        result == IF pause THEN "in_progress" ELSE reason
    IN /\ log' = [at EXCEPT !.reason = result]
       /\ run' = [run EXCEPT ![p] = NoRun]
       /\ scored' = (scored \/ result \notin {"upstream", "in_progress"})

Goes(p, pc) == run[p].pc = pc
MorePages(p) == WithinBudget(run[p].at) /\ run[p].pages < PagesPerRun

\* Wrong variant: the seam between two windows is taken for done.
NextWindowPastSeam(at) == [at EXCEPT !.end = at.oldest - 1, !.offset = 0]
NextWindow(at) == [at EXCEPT !.end = at.oldest, !.offset = 0]

Roll(p) ==
    LET at == run[p].at
    IN /\ Goes(p, "loop") /\ MorePages(p) /\ at.offset >= OffsetLimit
       /\ IF at.oldest \in 1..(at.end - 1)
          THEN Persist(p, NextWindow(at), "loop") /\ UNCHANGED scored
          ELSE Finish(p, at, "limit")
       /\ UNCHANGED <<settlementVars, listing, stored, scorings, first, spent>>

\* The page and its request are paid for before they are asked.
\* Wrong variant: only the page is.
PaidPage(at) == [at EXCEPT !.pages = @ + 1]

\* Wrong variant: a request is paid for by the rows that it brings.
PaidInRows(at) == at
Paid(at) == [at EXCEPT !.pages = @ + 1, !.requests = @ + 1]

Reserve(p) ==
    LET at == Paid(run[p].at)
    IN /\ Goes(p, "loop") /\ MorePages(p) /\ run[p].at.offset < OffsetLimit
       /\ log' = at
       /\ run' = [run EXCEPT ![p] = [run[p] EXCEPT !.pc = "fetch", !.at = at,
                                                    !.pages = run[p].pages + 1]]
       /\ UNCHANGED <<settlementVars, listing, stored, scored, scorings, first, spent>>

NoMorePages(p) ==
    /\ Goes(p, "loop") /\ ~MorePages(p)
    /\ Finish(p, run[p].at, "limit")
    /\ UNCHANGED <<settlementVars, listing, stored, scorings, first, spent>>

\* Wrong variant: the last page takes more rows than are left to the wallet.
RequestedPastCap(at) == Smaller(PageSize, OffsetLimit - at.offset)
Requested(at) == Smaller(PageSize, Smaller(MaxRows - at.rows, OffsetLimit - at.offset))

Fetch(p) ==
    LET at == run[p].at
        limit == Requested(at)
        page == Page(at.end, at.offset, limit)
        size == Cardinality(page)
    IN /\ Goes(p, "fetch")
       /\ \/ Finish(p, at, "upstream") /\ UNCHANGED stored
          \/ page = {} /\ Finish(p, at, "exhausted") /\ UNCHANGED stored
          \/ /\ page # {}
             /\ stored' = stored \union page
             /\ run' = [run EXCEPT ![p] = [@ EXCEPT !.pc = "progress", !.short = size < limit,
                          !.at = [at EXCEPT !.rows = at.rows + size, !.offset = at.offset + size,
                              !.oldest = CHOOSE s \in {Stamp[t] : t \in page} :
                                            \A t \in page : s <= Stamp[t]]]]
             /\ UNCHANGED <<log, scored>>
       /\ Spends(1)
       /\ UNCHANGED <<settlementVars, listing, scorings, first>>

Progress(p) ==
    /\ Goes(p, "progress") /\ Persist(p, run[p].at, "reconcile")
    /\ UNCHANGED <<settlementVars, listing, stored, scored, scorings, first, spent>>

\* What a page, with the settlements looked for after it, leads to.
Judge(p, at) ==
    IF Mature THEN Finish(p, at, "mature")
    ELSE IF run[p].short THEN Finish(p, at, "exhausted")
    ELSE IF ~WithinBudget(at) THEN Finish(p, at, "limit")
    ELSE run' = [run EXCEPT ![p] = [@ EXCEPT !.pc = "loop", !.at = at, !.short = FALSE,
                                             !.asked = {}]]
         /\ UNCHANGED <<log, scored>>

\* Due markets of the wallet, those traded earliest first, two requests for each.
\* Whether one is due, and whether Gamma cools down, is judged by the time when
\* the run began: in the API cycles of the bot may have passed since.
Room(at) ==
    IF throttle > 0 \/ Cardinality(settled) >= MinSettled THEN 0
    ELSE Smaller(MaxAsked - Cardinality(at.checked), (MaxRequests - at.requests) \div 2)

TradedBefore(m, x) ==
    \E t \in stored : MarketOf[t] = m
                      /\ \A u \in stored : MarketOf[u] = x => Stamp[t] <= Stamp[u]

Candidates(p) ==
    LET due == {m \in Known \ run[p].at.checked : Due(m, wait)}
        notYet == {m \in due : wait[m] = 0}
    IN {due \ late : late \in IF p = Bot THEN {{}} ELSE SUBSET notYet}
           \union (IF p = Bot THEN {} ELSE {{}})

Reconcile(p) ==
    LET at == run[p].at
    IN /\ Goes(p, "reconcile")
       /\ \E due \in Candidates(p) : \E asked \in SUBSET due :
            /\ Cardinality(asked) = Smaller(Room(at), Cardinality(due))
            /\ \A m \in asked, x \in due \ asked : TradedBefore(m, x)
            /\ IF asked = {} THEN Judge(p, at) /\ UNCHANGED settlementVars
               ELSE LET paid == [at EXCEPT !.requests = @ + 2 * Cardinality(asked)]
                    IN /\ log' = paid
                       /\ run' = [run EXCEPT ![p] = [@ EXCEPT !.pc = "settle", !.at = paid,
                                                           !.asked = asked]]
                       /\ WalletRefresh(p, asked) /\ UNCHANGED scored
       /\ UNCHANGED <<listing, stored, scorings, first, spent>>

RunChecks(p, m) ==
    /\ Goes(p, "settle") /\ Spends(2)
    /\ \/ Answer(p, m) /\ UNCHANGED run
       \/ Error(p, m) /\ run' = [run EXCEPT ![p] = [@ EXCEPT !.failed = TRUE]]
    /\ UNCHANGED <<listing, stored, log, scored, scorings, first>>

Answered(p) ==
    LET at == run[p].at
    IN /\ Goes(p, "settle") /\ refresh[p].todo = {}
       /\ IF run[p].failed THEN Finish(p, at, "upstream")
          ELSE Judge(p, [at EXCEPT !.checked = @ \union run[p].asked])
       /\ UNCHANGED <<settlementVars, listing, stored, scorings, first, spent>>

-----------------------------------------------------------------------------
(* The ends that nobody planned. *)

\* The error of the losing commit ends the bot's cycle, or the scoring run.
Raises(p, m) ==
    /\ SettledTwice(p, m)
    /\ run' = [run EXCEPT ![p] = NoRun]
    /\ IF run[p].pc = "settle" THEN Spends(2) ELSE UNCHANGED spent
    /\ UNCHANGED <<listing, stored, log, scored, scorings, first>>

Crash(p) ==
    /\ ~Idle(p) /\ Mishap
    /\ run' = [run EXCEPT ![p] = NoRun]
    /\ refresh' = [refresh EXCEPT ![p] = NoRefresh]
    /\ cooldown' = IF p = Bot THEN 0 ELSE cooldown
    /\ UNCHANGED <<gamma, settled, attempts, wait, throttle>>
    /\ UNCHANGED <<listing, stored, log, scored, scorings, first, spent>>

-----------------------------------------------------------------------------
BootstrapStep(p) ==
    \/ Roll(p) \/ Reserve(p) \/ NoMorePages(p) \/ Fetch(p) \/ Progress(p) \/ Reconcile(p)
    \/ Answered(p)
    \/ \E m \in Markets : RunChecks(p, m) \/ Raises(p, m)

Proceeds(p) ==
    \/ BootstrapStep(p)
    \/ p = Bot /\ \E m \in Markets : CycleChecks(m)

Next ==
    \/ SourceTrade \/ \E m \in Markets : MarketResolves(m)
    \/ Cycle
    \/ \E p \in Processes : StartScoring(p) \/ Proceeds(p) \/ Crash(p)

Spec == Init /\ [][Next]_vars

\* The bot goes on: each pass of its loop begins a cycle, and from time to time a
\* scoring run.  What a process has begun it goes on with.
FairSpec ==
    /\ Spec
    /\ SF_vars(Cycle) /\ SF_vars(StartScoring(Bot))
    /\ \A p \in Processes : WF_vars(Proceeds(p))

-----------------------------------------------------------------------------
Checkpoints ==
    [reason : {"none", "in_progress", "upstream", "exhausted", "limit", "mature"},
     offset : 0..OffsetLimit, end : Nat, oldest : Nat, pages : 0..MaxPages,
     rows : 0..MaxRows, requests : 0..MaxRequests, checked : SUBSET Markets]

TypeOK ==
    /\ RefreshOK
    /\ listing \in 1..MaxTrades /\ stored \subseteq 1..listing /\ log \in Checkpoints
    /\ run \in [Processes -> [pc : {"idle", "loop", "fetch", "progress", "reconcile",
                                    "settle"},
                              at : Checkpoints, pages : 0..PagesPerRun, short : BOOLEAN,
                              asked : SUBSET Markets, failed : BOOLEAN]]
    /\ scored \in BOOLEAN /\ scorings \in 0..MaxScorings /\ first \in 0..MaxTrades
    /\ spent \in 0..(MaxRequests + 1) \union {Overlapped}

\* A checkpoint is never ahead of what is stored: of the trades that existed when
\* the backfill began, those newer than its cursor are all there, and all of them
\* if it says that the history ended, over rolled windows, interrupted pages,
\* trades made meanwhile and two runs that write checkpoints past each other.
CheckpointCovered ==
    /\ log.reason # "none" =>
           {t \in 1..first : t > Cardinality(Until(log.end)) - log.offset} \subseteq stored
    /\ log.reason = "exhausted" => 1..first \subseteq stored

\* The cap on the logical requests of a wallet holds over pages, runs, failures
\* and restarts, unless two bootstraps of the wallet overlapped.
BudgetHolds == spent <= MaxRequests

\* No result is invented: only markets that Gamma has resolved are settled,
\* whatever else it answers with (detect_winning_outcome, get_gamma_market).
SettledIsResolved == \A m \in settled : gamma[m] = "resolved"

\* A resolved market that the wallet has traded is settled in the end, over
\* mishaps, cooldowns, backoff, batches that leave it out, and commits lost to
\* another refresh.
ResolvedIsSettled == []<>(\A m \in Known : gamma[m] = "resolved" => m \in settled)

\* A candidate is scored in the end, even if the source never answers: pages that
\* fail are paid for too, and no two runs keep each other from a conclusion.
EventuallyScored == <>scored
=============================================================================
