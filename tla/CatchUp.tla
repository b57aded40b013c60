------------------------------- MODULE CatchUp -------------------------------
(***************************************************************************)
(* How the bot follows one wallet's trade history: the newest page each    *)
(* cycle, and, when that page no longer meets the last trade known to be   *)
(* connected, bounded walks through older pages, checkpointed so that they *)
(* survive failures and restarts (ingestion/catchup.py, with the polling   *)
(* of wallets that are not approved in ingestion/service.py).              *)
(*                                                                         *)
(* Trades are numbered in the order of the source, which answers newest    *)
(* first.  Fetching a page, storing it and committing it is one step: what *)
(* the source adds meanwhile is not in the page.  Rows without a valid     *)
(* identity have no key and are left out.                                  *)
(***************************************************************************)
EXTENDS Integers, FiniteSets

CONSTANTS
    MaxTrades,      \* bound on the trades the source makes
    Stamps,         \* the timestamps the trades may have, in whole seconds
    PageSize,       \* ingestion_batch_size
    PagesPerCycle,  \* catch_up_pages_per_cycle
    OffsetLimit,    \* the source refuses offsets from here on
    Checkpointed,   \* whether the wallet starts with a checkpoint
    MaxFailures,    \* bound on failed requests and restarts
    MaxQuarantined  \* bound on rows that cannot be stored

Trades == 1..MaxTrades

ASSUME CatchUpAssumption ==
    /\ MaxTrades \in Nat \ {0}
    /\ Stamps \subseteq [Trades -> Nat \ {0}]
    /\ \A f \in Stamps : \A s, t \in Trades : s <= t => f[s] <= f[t]
    /\ PageSize \in Nat \ {0} /\ PagesPerCycle \in Nat \ {0} /\ OffsetLimit \in Nat \ {0}
    /\ Checkpointed \in BOOLEAN
    /\ MaxFailures \in Nat /\ MaxQuarantined \in Nat

VARIABLES
    stamp,          \* the timestamp of each trade
    made,           \* the trades 1..made exist at the source
    approved,       \* approval_state is "approved"
    stored,         \* committed trades
    quarantined,    \* trades whose row failed, each recorded as quarantined
    saved,          \* the wallet's last wallet_catch_up entry
    pc,             \* idle, poll, tail, judge, page, fetch or record
    window,         \* state: the walk in progress, or the last anchor
    head,           \* head_anchor: what the pages of latest trades connect to
    top,            \* the newest trade of this cycle's latest page
    left,           \* pages left of this cycle's budget
    result,         \* of the last older page: connected, full or short
    failures,
    since           \* history: trades up to here were made before the wallet was
                    \* approved for the first time with history to connect to

sourceVars == <<stamp, made>>
storeVars == <<stored, quarantined>>
runVars == <<window, head, top, left, result>>
vars == <<sourceVars, approved, storeVars, saved, pc, runVars, failures, since>>

\* 0 stands for no trade and for no time.
NoWindow == [anchor |-> 0, end |-> 0, offset |-> 0, oldest |-> 0]
Connected(trade) == [NoWindow EXCEPT !.anchor = trade]
Checkpoint(w, h, open) == [known |-> TRUE, incomplete |-> open, head |-> h, window |-> w]
NoCheckpoint == [Checkpoint(NoWindow, 0, FALSE) EXCEPT !.known = FALSE]

\* client.get_trades: newest first, from an offset, up to a time.
Latest(newest) == {t \in Trades : newest - PageSize < t /\ t <= newest}
Page(end, offset, limit) ==
    LET rows == {t \in 1..made : stamp[t] <= end}
    IN {t \in rows : Cardinality({s \in rows : s > t}) \in offset..offset + limit - 1}

\* ORDER BY traded_at DESC: one of the newest second, if any is stored.
NewestStored(t) ==
    IF stored = {} THEN t = 0
    ELSE t \in stored /\ \A s \in stored : stamp[s] <= stamp[t]

\* ingest_trade_rows: each row on its own, known ones skipped; then the commit.
Store(rows) ==
    \E bad \in SUBSET (rows \ stored) :
        /\ Cardinality(quarantined \union bad) <= MaxQuarantined
        /\ stored' = stored \union (rows \ bad)
        /\ quarantined' = quarantined \union bad

-----------------------------------------------------------------------------
Init ==
    /\ stamp \in Stamps
    /\ made = 1 /\ stored = {1} /\ quarantined = {}
    /\ approved = TRUE
    /\ saved = IF Checkpointed THEN Checkpoint(Connected(1), 1, FALSE) ELSE NoCheckpoint
    /\ pc = "idle"
    /\ window = NoWindow /\ head = 0 /\ top = 0 /\ left = 0 /\ result = "none"
    /\ failures = 0
    /\ since = 1

SourceTrade ==
    /\ made < MaxTrades
    /\ made' = made + 1
    /\ UNCHANGED <<stamp, approved, storeVars, saved, pc, runVars, failures, since>>

Approve ==
    /\ ~approved
    /\ approved' = TRUE
    /\ since' = IF saved.known THEN since ELSE made
    /\ UNCHANGED <<sourceVars, storeVars, saved, pc, runVars, failures>>

Disable ==
    /\ approved
    /\ approved' = FALSE
    /\ UNCHANGED <<sourceVars, storeVars, saved, pc, runVars, failures, since>>

-----------------------------------------------------------------------------
\* The wallet's turn in run_ingestion_cycle, which goes by the approval as it was
\* when the cycle listed the wallets.
Begin ==
    /\ pc = "idle"
    /\ pc' = IF approved THEN "tail" ELSE "poll"
    /\ UNCHANGED <<sourceVars, approved, storeVars, saved, runVars, failures, since>>

\* A wallet that is not approved is polled for its latest page and nothing else.
Poll ==
    /\ pc = "poll"
    /\ Store(Latest(made))
    /\ pc' = "idle"
    /\ UNCHANGED <<sourceVars, approved, saved, runVars, failures, since>>

\* Wrong variant: the anchor is what is stored, not what was checkpointed.
AnchorFromStore(t) == NewestStored(t)
\* The anchor: the checkpoint's, else the newest trade of the stored history.
Anchor(t) == IF saved.window.anchor # 0 THEN t = saved.window.anchor ELSE NewestStored(t)

\* The checkpoint is read, the latest page fetched and stored.
Tail ==
    /\ pc = "tail"
    /\ \E t \in 0..MaxTrades :
          /\ Anchor(t)
          /\ window' = [saved.window EXCEPT !.anchor = t]
    /\ top' = made
    /\ Store(Latest(made))
    /\ pc' = "judge"
    /\ UNCHANGED <<sourceVars, approved, saved, head, left, result, failures, since>>

Idle ==
    /\ pc' = "idle"
    /\ window' = NoWindow /\ head' = 0 /\ top' = 0 /\ left' = 0 /\ result' = "none"

Gap == window.anchor # 0 /\ window.anchor \notin Latest(top)
LatestAnchor == IF top > 0 THEN top ELSE window.anchor

\* The latest page meets the anchor, or there was none: it is the new anchor.
NoGap ==
    /\ pc = "judge" /\ ~Gap
    /\ saved' = IF ~saved.known \/ LatestAnchor # window.anchor
                THEN Checkpoint(Connected(LatestAnchor), LatestAnchor, FALSE) ELSE saved
    /\ Idle
    /\ UNCHANGED <<sourceVars, approved, storeVars, failures, since>>

\* Wrong variant: the walk starts anew in every cycle.
ResumeFresh == [anchor |-> window.anchor, end |-> stamp[top], offset |-> 0, oldest |-> 0]
\* A walk in progress keeps its anchor and its cursor; a new one ends at the latest page.
Resume == IF saved.incomplete THEN window
          ELSE [anchor |-> window.anchor, end |-> stamp[top], offset |-> 0, oldest |-> 0]

Recover ==
    /\ pc = "judge" /\ Gap
    /\ window' = Resume
    /\ head' = IF ~saved.incomplete \/ saved.head \in Latest(top)
               THEN LatestAnchor ELSE saved.head
    /\ saved' = Checkpoint(window', head', TRUE)
    /\ left' = PagesPerCycle
    /\ pc' = "page"
    /\ UNCHANGED <<sourceVars, approved, storeVars, top, result, failures, since>>

\* The wallet was disabled since, or the window is one second wider than the
\* source's offsets: the cursor is kept.
AtLimit == window.offset >= OffsetLimit
Narrowable == window.oldest # 0 /\ window.oldest < window.end

GiveUp ==
    /\ pc = "page" /\ left > 0
    /\ ~approved \/ (AtLimit /\ ~Narrowable)
    /\ saved' = Checkpoint(window, head, TRUE)
    /\ Idle
    /\ UNCHANGED <<sourceVars, approved, storeVars, failures, since>>

\* The window is rolled to its oldest second, which both windows include.
Roll ==
    /\ pc = "page" /\ left > 0 /\ approved
    /\ AtLimit /\ Narrowable
    /\ window' = [window EXCEPT !.end = window.oldest, !.offset = 0]
    /\ saved' = Checkpoint(window', head, TRUE)
    /\ pc' = "fetch"
    /\ UNCHANGED <<sourceVars, approved, storeVars, head, top, left, result, failures, since>>

\* Wrong variant: a page may reach beyond the last offset.
FullPage == PageSize
PageLimit == IF PageSize <= OffsetLimit - window.offset THEN PageSize
             ELSE OffsetLimit - window.offset

OlderPage ==
    /\ pc = "fetch" \/ (pc = "page" /\ left > 0 /\ approved /\ ~AtLimit)
    /\ LET rows == Page(window.end, window.offset, PageLimit) IN
       /\ Store(rows)
       /\ window' = [window EXCEPT
             !.offset = window.offset + Cardinality(rows),
             !.oldest = IF rows = {} THEN window.oldest
                        ELSE stamp[CHOOSE t \in rows : \A s \in rows : t <= s]]
       /\ result' = IF window.anchor \in rows THEN "connected"
                    ELSE IF Cardinality(rows) < PageLimit THEN "short" ELSE "full"
    /\ pc' = "record"
    /\ UNCHANGED <<sourceVars, approved, saved, head, top, left, failures, since>>

\* The page did not meet the anchor: its place is checkpointed.
Progress ==
    /\ pc = "record" /\ result # "connected"
    /\ saved' = Checkpoint(window, head, TRUE)
    /\ left' = IF result = "short" THEN 0 ELSE left - 1
    /\ pc' = "page"
    /\ UNCHANGED <<sourceVars, approved, storeVars, window, head, top, result, failures, since>>

\* Wrong variant: newer trades that moved beyond the head are not looked for.
HeadConnectedAlways == TRUE
HeadConnected == head \in Latest(top)

\* The walk met its anchor: all is connected, or the gap above the head is next.
CaughtUp ==
    /\ pc = "record" /\ result = "connected"
    /\ HeadConnected
    /\ saved' = Checkpoint(Connected(LatestAnchor), head, FALSE)
    /\ Idle
    /\ UNCHANGED <<sourceVars, approved, storeVars, failures, since>>

NextWindow ==
    /\ pc = "record" /\ result = "connected"
    /\ ~HeadConnected
    /\ saved' = Checkpoint([anchor |-> head, end |-> stamp[top], offset |-> 0, oldest |-> 0],
                           LatestAnchor, TRUE)
    /\ Idle
    /\ UNCHANGED <<sourceVars, approved, storeVars, failures, since>>

EndOfBudget ==
    /\ pc = "page" /\ left = 0
    /\ Idle
    /\ UNCHANGED <<sourceVars, approved, storeVars, saved, failures, since>>

\* A request or a commit fails and the wallet's turn is rolled back, or the
\* process ends: what was committed stays.
Fail ==
    /\ pc # "idle" /\ failures < MaxFailures
    /\ failures' = failures + 1
    /\ Idle
    /\ UNCHANGED <<sourceVars, approved, storeVars, saved, since>>

-----------------------------------------------------------------------------
Turn ==
    \/ Begin \/ Poll \/ Tail
    \/ NoGap \/ Recover
    \/ GiveUp \/ Roll \/ OlderPage
    \/ Progress \/ CaughtUp \/ NextWindow \/ EndOfBudget

Next ==
    \/ SourceTrade \/ Approve \/ Disable
    \/ Turn
    \/ Fail

Spec == Init /\ [][Next]_vars

\* The bot polls for ever, and each turn goes on to its end.
FairSpec == Spec /\ WF_vars(Turn)

-----------------------------------------------------------------------------
Windows == [anchor: 0..MaxTrades, end: Nat, offset: 0..OffsetLimit, oldest: Nat]
Checkpoints == [known: BOOLEAN, incomplete: BOOLEAN, head: 0..MaxTrades, window: Windows]

TypeOK ==
    /\ stamp \in Stamps /\ made \in 0..MaxTrades
    /\ approved \in BOOLEAN
    /\ stored \subseteq Trades /\ quarantined \subseteq Trades
    /\ saved \in Checkpoints
    /\ pc \in {"idle", "poll", "tail", "judge", "page", "fetch", "record"}
    /\ window \in Windows /\ head \in 0..MaxTrades /\ top \in 0..MaxTrades
    /\ left \in 0..PagesPerCycle
    /\ result \in {"none", "connected", "full", "short"}
    /\ failures \in Nat
    /\ since \in 0..MaxTrades

Kept == stored \union quarantined

\* "An incomplete window is never declared caught up just because a later latest
\* page overlaps trades inserted by this recovery" (ingest_approved_wallet): when a
\* checkpoint says that the wallet is caught up, no trade since its approval is missing.
NothingMissing ==
    saved.known /\ ~saved.incomplete => since + 1..saved.window.anchor \subseteq Kept

\* The anchor moves forward only, and only over trades that are kept: neither
\* failures between a page and its checkpoint, nor trades made during the walk, nor
\* rolled windows, nor a disable and re-enable lose any.
AnchorMovesOverKept ==
    [][LET old == saved.window.anchor
           new == saved'.window.anchor
       IN saved.known /\ new # old => old < new /\ old..new \subseteq Kept']_vars

\* A wallet that stays approved is connected up to its newest trade in the end,
\* however the pages, failures and restarts fall, unless one second holds more
\* trades than the source's offsets reach.
Wide == \E t \in Trades : Cardinality({s \in Trades : stamp[s] = stamp[t]}) >= OffsetLimit
EventuallyConnected ==
    (<>[]approved /\ []~Wide) =>
        <>[](saved.known /\ ~saved.incomplete /\ saved.window.anchor = made)
=============================================================================
