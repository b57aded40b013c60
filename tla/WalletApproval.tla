--------------------------- MODULE WalletApproval ---------------------------
(***************************************************************************)
(* The approval state of the tracked wallets and the review queue: scoring *)
(* runs (the bot's hourly one, POST /scoring/run) beside human decisions.  *)
(*                                                                         *)
(* A scoring run reads its candidates once and keeps those row objects to  *)
(* its end; neither a commit nor a later query refreshes them.  It writes  *)
(* a state only where it differs from the one it read, and that write      *)
(* holds the wallet's row until its commit.  Each human decision is one    *)
(* conditional UPDATE and the closing of the queue entry.                  *)
(***************************************************************************)
EXTENDS Integers, FiniteSets

CONSTANTS
    Wallets,
    Scorers,    \* the processes that run score_all_wallets
    Nobody      \* no wallet

ASSUME ApprovalAssumption == IsFiniteSet(Scorers) /\ Nobody \notin Wallets

VARIABLES
    state,      \* committed wallets.approval_state; absent before its intake
    entries,    \* committed approval_queue rows of the wallet still "pending"
    snapshot,   \* per run, the state it read of each wallet it has yet to score
    at,         \* per run, the wallet of its open transaction
    to,         \* the state that transaction writes; same if it writes none
    found       \* the open entries that transaction has read

vars == <<state, entries, snapshot, at, to, found>>
runVars == <<snapshot, at, to, found>>

Candidate == {"discovered", "pending_review"}
Decided == {"approved", "rejected", "disabled"}

\* Some run holds the wallet's row.
Locked(w) == \E s \in Scorers : at[s] = w /\ to[s] # "same"

-----------------------------------------------------------------------------
Init ==
    /\ state = [w \in Wallets |-> "absent"]
    /\ entries = [w \in Wallets |-> 0]
    /\ snapshot = [s \in Scorers |-> [w \in Wallets |-> "none"]]
    /\ at = [s \in Scorers |-> Nobody]
    /\ to = [s \in Scorers |-> "same"]
    /\ found = [s \in Scorers |-> 0]

\* POST /wallets, the only way in.
AddWallet(w) ==
    /\ state[w] = "absent"
    /\ state' = [state EXCEPT ![w] = "discovered"]
    /\ UNCHANGED <<entries, runVars>>

(***************************************************************************)
(* transition_wallet.  The UPDATE waits for the row and tests the state    *)
(* again; with two open entries the request fails and is rolled back.      *)
(***************************************************************************)
AllowedTransitions ==
    [approve  |-> <<"pending_review", "approved">>,
     reject   |-> <<"pending_review", "rejected">>,
     disable  |-> <<"approved", "disabled">>,
     reenable |-> <<"disabled", "approved">>]

Human(w, action) ==
    LET from == AllowedTransitions[action][1]
        target == AllowedTransitions[action][2] IN
    /\ ~Locked(w)
    /\ state[w] = from
    /\ entries[w] <= 1
    /\ state' = [state EXCEPT ![w] = target]
    /\ entries' = [entries EXCEPT ![w] = 0]
    /\ UNCHANGED runVars

-----------------------------------------------------------------------------
Idle(s) == at[s] = Nobody
Open(s, w, target) ==
    /\ at' = [at EXCEPT ![s] = w]
    /\ to' = [to EXCEPT ![s] = target]
    /\ found' = [found EXCEPT ![s] = entries[w]]
    /\ snapshot' = [snapshot EXCEPT ![s][w] = "none"]
    /\ UNCHANGED <<state, entries>>

\* score_all_wallets reads every candidate.
Scan(s) ==
    /\ Idle(s) /\ \A w \in Wallets : snapshot[s][w] = "none"
    /\ snapshot' = [snapshot EXCEPT ![s] =
          [w \in Wallets |-> IF state[w] \in Candidate THEN state[w] ELSE "none"]]
    /\ UNCHANGED <<state, entries, at, to, found>>

\* Wrong variant: the queue is read before the state is flushed.
QueueUnlocked(s, w) ==
    /\ Idle(s) /\ snapshot[s][w] # "none"
    /\ entries[w] <= 1
    /\ Open(s, w, IF snapshot[s][w] = "discovered" THEN "pending_review" ELSE "same")

\* _apply_verdict with the verdict pending_review: the state is flushed before
\* the queue is read, and an entry is added if none is open.
Queue(s, w) ==
    /\ Idle(s) /\ snapshot[s][w] # "none"
    /\ snapshot[s][w] = "discovered" => ~Locked(w)
    /\ entries[w] <= 1
    /\ Open(s, w, IF snapshot[s][w] = "discovered" THEN "pending_review" ELSE "same")

\* _apply_verdict with a lower verdict on a wallet read as pending_review.
Withdraw(s, w) ==
    /\ Idle(s) /\ snapshot[s][w] = "pending_review"
    /\ ~Locked(w)
    /\ Open(s, w, "discovered")

\* A lower verdict on a discovered wallet, or a bootstrap that is not complete.
LeaveAsIs(s, w) ==
    /\ Idle(s) /\ snapshot[s][w] # "none"
    /\ snapshot' = [snapshot EXCEPT ![s][w] = "none"]
    /\ UNCHANGED <<state, entries, at, to, found>>

Closed(s) ==
    /\ at' = [at EXCEPT ![s] = Nobody]
    /\ to' = [to EXCEPT ![s] = "same"]
    /\ found' = [found EXCEPT ![s] = 0]

\* Wrong variant: an entry is added whether or not one is open.
AddsAlways(s) == to[s] # "discovered"
Adds(s) == to[s] # "discovered" /\ found[s] = 0

\* Wrong variant: the newest entry is withdrawn, found or not.
CommitBlind(s) ==
    LET w == at[s] IN
    /\ ~Idle(s)
    /\ state' = IF to[s] = "same" THEN state ELSE [state EXCEPT ![w] = to[s]]
    /\ entries' = [entries EXCEPT ![w] =
          IF to[s] = "discovered" THEN @ - 1 ELSE IF Adds(s) THEN @ + 1 ELSE @]
    /\ Closed(s)
    /\ UNCHANGED snapshot

Commit(s) ==
    LET w == at[s] IN
    /\ ~Idle(s)
    /\ state' = IF to[s] = "same" THEN state ELSE [state EXCEPT ![w] = to[s]]
    /\ entries' = [entries EXCEPT ![w] =
          IF to[s] = "discovered" THEN @ - found[s] ELSE IF Adds(s) THEN @ + 1 ELSE @]
    /\ Closed(s)
    /\ UNCHANGED snapshot

\* An exception, a second open entry among its causes: the rollback expires the
\* row objects and reading wallet.address of one, in the handler, ends the run.
\* A process that dies leaves the same behind.
Abort(s) ==
    /\ ~Idle(s) \/ \E w \in Wallets : snapshot[s][w] # "none"
    /\ snapshot' = [snapshot EXCEPT ![s] = [w \in Wallets |-> "none"]]
    /\ Closed(s)
    /\ UNCHANGED <<state, entries>>

-----------------------------------------------------------------------------
Next ==
    \/ \E w \in Wallets :
          \/ AddWallet(w)
          \/ \E action \in DOMAIN AllowedTransitions : Human(w, action)
    \/ \E s \in Scorers :
          \/ Scan(s)
          \/ \E w \in Wallets : Queue(s, w) \/ Withdraw(s, w) \/ LeaveAsIs(s, w)
          \/ Commit(s)
          \/ Abort(s)

Spec == Init /\ [][Next]_vars

-----------------------------------------------------------------------------
TypeOK ==
    /\ state \in [Wallets -> Candidate \union Decided \union {"absent"}]
    /\ entries \in [Wallets -> Nat]
    /\ snapshot \in [Scorers -> [Wallets -> Candidate \union {"none"}]]
    /\ at \in [Scorers -> Wallets \union {Nobody}]
    /\ to \in [Scorers -> Candidate \union {"same"}]
    /\ found \in [Scorers -> Nat]

\* A wallet that waits for a human is in the queue, so it is not forgotten: the
\* write of the state and the reading of the queue hold the row together, and
\* nobody who might close the entry can come between them.
PendingIsQueued == \A w \in Wallets : state[w] = "pending_review" => entries[w] > 0

\* The queue of a wallet does not grow from run to run: its open entries, with
\* those about to be added, are at most one for each process that scores.
QueueBounded ==
    \A w \in Wallets :
        entries[w] + Cardinality({s \in Scorers : at[s] = w /\ Adds(s)})
            <= Cardinality(Scorers)

\* scoring/service.py:6-8, "Human decisions (approved / rejected / disabled) are
\* never overridden by the scorer": no human transition leads back to a state of
\* the scorer's, so a decided wallet stays decided.
HumanDecisionKept ==
    [][\A w \in Wallets : state[w] \in Decided => state'[w] \in Decided]_vars

\* scoring/service.py:9, "wallet state + one open ApprovalQueueEntry".
OneOpenEntry == \A w \in Wallets : entries[w] <= 1
=============================================================================
