-------------------------- MODULE SettlementRefresh --------------------------
(***************************************************************************)
(* How the resolution of markets is asked of Gamma and recorded            *)
(* (accounting/settlements.py, with the client's cooldown of               *)
(* ingestion/client.py).  The bot refreshes a bounded batch each cycle; a  *)
(* scoring run, in the bot or in the API, refreshes the markets of one     *)
(* wallet.  Each works through the list it read at its start and commits   *)
(* market by market; nothing keeps two of them apart but the unique        *)
(* constraint on settlements.                                              *)
(*                                                                         *)
(* Time is counted in cycles of the bot, one for each minute or less.      *)
(* Asking Gamma about a market and committing what it answers is one step. *)
(***************************************************************************)
EXTENDS Integers, FiniteSets

CONSTANTS
    Markets,
    Processes,
    Bot,            \* the one whose cycles are the clock
    MaxChecks,      \* settlement_max_checks_per_cycle
    MaxDelay,       \* the cap of the backoff
    RetryAfter,     \* the cooldowns Gamma may ask for
    Gamma0,         \* what Gamma has at first
    MaxMishaps      \* bound on failed requests, missed markets and deaths

ASSUME RefreshAssumption ==
    /\ Bot \in Processes /\ IsFiniteSet(Markets)
    /\ MaxChecks \in Nat \ {0} /\ MaxDelay \in Nat \ {0}
    /\ RetryAfter \subseteq 1..MaxDelay /\ MaxMishaps \in Nat
    /\ Gamma0 \in [Markets -> {"open", "closed", "resolved"}]

VARIABLES
    gamma,      \* what Gamma has: open, closed (with no winner yet) or resolved
    settled,    \* markets with a Settlement row, and with resolved_outcome
    attempts,   \* settlement_attempt_count, as far as the backoff grows
    wait,       \* cycles until settlement_next_check_at; of a settled market
                \* neither is ever read again, and neither is kept
    throttle,   \* cycles until the next_allowed_at of the Gamma family
    cooldown,   \* cycles until _gamma_backoff_until of the bot's client
    refresh,    \* the refresh in progress of each process
    mishaps

settlementVars == <<gamma, settled, attempts, wait, throttle, cooldown, refresh, mishaps>>

Never == -1     \* NULL, a market that was never checked: due

NoRefresh == [todo |-> {}, tries |-> [m \in Markets |-> 0], age |-> 0]

RefreshInit ==
    /\ gamma = Gamma0 /\ settled = {}
    /\ attempts = [m \in Markets |-> 0] /\ wait = [m \in Markets |-> Never]
    /\ throttle = 0 /\ cooldown = 0
    /\ refresh = [p \in Processes |-> NoRefresh]
    /\ mishaps = 0

\* Outside: a market closes, and is resolved in the end.
Resolve(m) ==
    /\ gamma[m] # "resolved"
    /\ gamma' = [gamma EXCEPT ![m] = IF @ = "open" THEN "closed" ELSE "resolved"]
    /\ UNCHANGED <<settled, attempts, wait, throttle, cooldown, refresh, mishaps>>

-----------------------------------------------------------------------------
Larger(a, b) == IF a > b THEN a ELSE b
Smaller(a, b) == IF a < b THEN a ELSE b
Earlier(n, cycles) == Larger(0, n - cycles)     \* what is left of a countdown

\* Wrong variant: a market is asked for once.
DueOnce(m, waits) == m \notin settled /\ waits[m] = Never
Due(m, waits) == m \notin settled /\ waits[m] \in {Never, 0}

\* The rows a refresh reads: due markets among some, a number of them at most.
\* NULL sorts last, so markets never checked come after all that are overdue.
Batches(among, limit, waits) ==
    LET due == {m \in among : Due(m, waits)}
    IN {b \in SUBSET due :
           /\ Cardinality(b) = Smaller(limit, Cardinality(due))
           /\ (\E m \in b : waits[m] = Never) => \A m \in due : waits[m] = 0 => m \in b}

\* What a refresh starts with.
Begin(batch) ==
    [NoRefresh EXCEPT !.todo = batch,
                      !.tries = [m \in Markets |-> IF m \in batch THEN attempts[m] ELSE 0]]

Mishap == mishaps < MaxMishaps /\ mishaps' = mishaps + 1

\* The client's own cooldown wears off; a 429 to the poll's question about the
\* metadata of a new market begins one that the shared throttle does not know.
PollMetadata(new) ==
    \/ cooldown' = Earlier(cooldown, 1) /\ UNCHANGED mishaps
    \/ new /\ cooldown <= 1 /\ Mishap /\ cooldown' \in RetryAfter

\* A cycle of the bot: it is later by one for every schedule and for the other
\* refreshes in progress, and the bot reads its batch, while throttled none.
CycleRefresh(known) ==
    LET later == [m \in Markets |-> IF wait[m] = Never THEN Never ELSE Earlier(wait[m], 1)]
    IN /\ wait' = later
       /\ throttle' = Earlier(throttle, 1)
       /\ \E batch \in Batches(known, MaxChecks, later) :
            refresh' = [p \in Processes |->
                IF p = Bot THEN IF throttle > 1 THEN NoRefresh ELSE Begin(batch)
                ELSE [refresh[p] EXCEPT !.age =
                         IF refresh[p].todo = {} THEN @ ELSE Smaller(MaxDelay, @ + 1)]]
       /\ UNCHANGED <<gamma, settled, attempts>>

\* A refresh of the markets that a bootstrap asks for, having seen that Gamma is
\* not throttled.
WalletRefresh(p, asked) ==
    /\ \E batch \in Batches(asked, Cardinality(asked), wait) :
         refresh' = [refresh EXCEPT ![p] = Begin(batch)]
    /\ UNCHANGED <<gamma, settled, attempts, wait, throttle, cooldown, mishaps>>

Delay(n) == Smaller(MaxDelay, 2 ^ (n - 1))

\* Every check counts an attempt, on the row as the refresh read it at its start,
\* and sets the next one from the time of that start.
Scheduled(p, m, cool) ==
    IF m \in settled THEN UNCHANGED <<attempts, wait>>
    ELSE LET n == Smaller(MaxDelay, refresh[p].tries[m] + 1)
         IN /\ attempts' = [attempts EXCEPT ![m] = n]
            /\ wait' = [wait EXCEPT ![m] = Earlier(Larger(Delay(n), cool), refresh[p].age)]

GoesOn(p, m) ==
    LET r == refresh[p]
    IN refresh' = [refresh EXCEPT ![p] =
                      IF r.todo = {m} THEN NoRefresh
                      ELSE [r EXCEPT !.todo = r.todo \ {m}, !.tries[m] = 0]]

CoolsDown(p) == p = Bot /\ cooldown > 0
Asked(p, m) == m \in refresh[p].todo /\ ~CoolsDown(p)

\* Gamma answers with some of its closed markets, asked by condition and then by
\* a traded token; only the object of this market, with a winner, settles it.
\* Wrong variant: a closed market is a resolved one.
HasWinnerOnceClosed(x) == gamma[x] \in {"closed", "resolved"}
HasWinner(x) == gamma[x] = "resolved"

Listed == {x \in Markets : gamma[x] # "open"}

\* Wrong variant: the first row of the answer is taken for the market.
AnyCondition(m, x) == TRUE
SameCondition(m, x) == x = m

Answers(m, rows) ==
    rows \subseteq Listed
        /\ IF m \in Listed \ rows THEN Mishap ELSE UNCHANGED mishaps

Winners(m, rows) == {x \in rows : SameCondition(m, x) /\ HasWinner(x)}

Unresolved(p, m) ==
    /\ Asked(p, m)
    /\ \E rows \in SUBSET Markets : Answers(m, rows) /\ Winners(m, rows) = {}
    /\ Scheduled(p, m, 0) /\ GoesOn(p, m)
    /\ UNCHANGED <<gamma, settled, throttle, cooldown>>

Settle(p, m) ==
    /\ Asked(p, m) /\ m \notin settled
    /\ \E rows \in SUBSET Markets : Answers(m, rows) /\ Winners(m, rows) # {}
    /\ settled' = settled \union {m}
    /\ attempts' = [attempts EXCEPT ![m] = 0] /\ wait' = [wait EXCEPT ![m] = Never]
    /\ GoesOn(p, m)
    /\ UNCHANGED <<gamma, throttle, cooldown>>

\* Another refresh has settled it since this one read its list: the commit
\* fails on uq_settlements_market and the error leaves refresh_settlements.
SettledTwice(p, m) ==
    /\ Asked(p, m) /\ m \in settled
    /\ \E rows \in SUBSET Markets : Answers(m, rows) /\ Winners(m, rows) # {}
    /\ refresh' = [refresh EXCEPT ![p] = NoRefresh]
    /\ UNCHANGED <<gamma, settled, attempts, wait, throttle, cooldown>>

\* A failed request; and an answer 429, which ends the refresh and, like a
\* cooldown that still holds, sets the shared throttle.
Fails(p, m) ==
    /\ Asked(p, m) /\ Mishap
    /\ Scheduled(p, m, 0) /\ GoesOn(p, m)
    /\ UNCHANGED <<gamma, settled, throttle, cooldown>>

LimitedFor(p, m, cycles) ==
    /\ Scheduled(p, m, cycles)
    /\ throttle' = Earlier(cycles, refresh[p].age)
    /\ refresh' = [refresh EXCEPT ![p] = NoRefresh]
    /\ UNCHANGED <<gamma, settled>>

Limited(p, m) ==
    \/ /\ Asked(p, m) /\ Mishap
       /\ \E cycles \in RetryAfter :
            LimitedFor(p, m, cycles) /\ cooldown' = IF p = Bot THEN cycles ELSE cooldown
    \/ /\ m \in refresh[p].todo /\ CoolsDown(p)
       /\ LimitedFor(p, m, cooldown) /\ UNCHANGED <<cooldown, mishaps>>

\* The checks that do not raise: with an answer, and with an error counted.
Answer(p, m) == Unresolved(p, m) \/ Settle(p, m)
Error(p, m) == Fails(p, m) \/ Limited(p, m)

RefreshOK ==
    /\ gamma \in [Markets -> {"open", "closed", "resolved"}] /\ settled \subseteq Markets
    /\ attempts \in [Markets -> 0..MaxDelay]
    /\ wait \in [Markets -> Nat \union {Never}]
    /\ throttle \in Nat /\ cooldown \in Nat /\ mishaps \in 0..MaxMishaps
    /\ refresh \in [Processes -> [todo : SUBSET Markets, tries : [Markets -> 0..MaxDelay],
                                  age : 0..MaxDelay]]
=============================================================================
