--------------------------- MODULE ShadowObserver ----------------------------
(***************************************************************************)
(* The source sessions of the writer processes, what their database        *)
(* transactions do, and what the observer attached to each session records *)
(* of them: an ATTEMPT before the first INSERT of a trade, the rows as     *)
(* they were inserted, a witness row inside the same transaction before    *)
(* its COMMIT, ROLLED_BACK after a rollback that precedes any COMMIT       *)
(* (shadow_observer.py, shadow_failure.py).                                *)
(*                                                                         *)
(* Everything the observer does may fail; the source goes on regardless.   *)
(***************************************************************************)
EXTENDS ComparisonFence

CONSTANTS
    Sessions,   \* database sessions, one transaction at a time each
    Process,    \* the worker each session belongs to
    MaxMishaps  \* bound on the faults and deaths injected

ASSUME ObserverAssumption == Process \in [Sessions -> Workers] /\ MaxMishaps \in Nat

VARIABLES
    latched,    \* capture-failed.json exists
    unstored,   \* history: some failure has left nothing that lasts
    proc,       \* the writer processes
    session,
    db,         \* the transactions in the database, with their witness rows
    faults,
    crashes     \* deaths of writer processes and of the operator's commands

NoTx == 0

\* Of a transaction: its rows, and the rows that its witness names, if it has one.
NewTx == [status |-> "none", rows |-> {}, witnessed |-> FALSE, witness |-> {}]

\* Sessions stay: one that is closed and one made in its place are both idle,
\* and a session of a retired factory records as little as a plain one.
Idle == [phase |-> "idle", tx |-> NoTx, token |-> NoTx, facts |-> {}]
Down == [up |-> FALSE, retired |-> FALSE, localError |-> FALSE]

Status(t) == db[t].status
Rows(t) == db[t].rows
CommittedTx == {t \in Tx : Status(t) = "committed"}
CommittedRows == UNION {Rows(t) : t \in CommittedTx}

-----------------------------------------------------------------------------
(* Failure. *)

\* What is left of a failure: a signed ERROR and the latch; the ERROR alone,
\* when the latch cannot be stored; the latch alone, when the ERROR cannot be
\* appended; the latch without a look at the journal, when that cannot be read
\* either; nothing.  All but the first take a fault of the storage, which may
\* be the one (cost) that is being reported.
Denials == {"signed", "unlatched", "denied", "unlocked", "lost"}

Spend(n) ==
    /\ faults + crashes + n <= MaxMishaps
    /\ faults' = faults + n /\ UNCHANGED crashes

Dies == faults + crashes < MaxMishaps /\ crashes' = crashes + 1 /\ UNCHANGED faults

\* invalidate(): a failure that finds the ARCHIVE leaves everything alone.
Invalidate(how, cost) ==
    LET mutes == how = "unlocked" \/ ~fence.archive
    IN /\ Spend(IF how = "signed" THEN cost ELSE 1)
       /\ fence' = IF how \in {"signed", "unlatched"} /\ mutes
                   THEN Apply(fence, [kind |-> "ERROR"]) ELSE fence
       /\ latched' = (latched \/ (how \in {"signed", "denied", "unlocked"} /\ mutes))
       /\ unstored' = (unstored \/ how = "lost")

\* fence.local_error
SetsLocalError(how) == how \in {"unlocked", "lost"} \/ ~fence.archive

Fails(w, cost) ==
    \E how \in Denials :
        /\ Invalidate(how, cost)
        /\ proc' = [proc EXCEPT ![w].localError = @ \/ SetsLocalError(how)]

Quietly == UNCHANGED <<fence, latched, unstored, proc, faults, crashes>>
Records(e) == Append(e) /\ UNCHANGED <<latched, unstored, proc, faults, crashes>>

\* A callback that finds the ARCHIVE, or a retired observer, does nothing.
Observing(s) == ~proc[Process[s]].retired /\ ~fence.archive

\* An observation that the journal accepts, unless it cannot be stored.
Observes(s, e) ==
    \/ Records(e)
    \/ ~Legal(fence, e) /\ Fails(Process[s], 0)
    \/ Legal(fence, e) /\ Fails(Process[s], 1)

-----------------------------------------------------------------------------
(* One transaction. *)

NextTx(t) == Status(t) = "none" /\ \A u \in Tx : u < t => Status(u) # "none"
NextRow(r) == ingested[r] = "none" /\ \A q \in Trades : q < r => ingested[q] # "none"

\* before_flush: the first flush with a trade admits the transaction.  The
\* token is set even when the ATTEMPT is refused or cannot be stored.  Two guards
\* are bounds of the model, not of the code: no flush begins once a failure is in
\* the journal, which can no longer be sealed, nor without a row left for it.
BeforeFlush(s) ==
    /\ proc[Process[s]].up /\ session[s].phase = "idle"
    /\ clock # "pre" /\ ~fence.error
    /\ Cardinality({r \in Trades : ingested[r] = "none"}) >
           Cardinality({q \in Sessions : session[q].phase = "flush"})
    /\ \E t \in Tx :
        /\ IF session[s].tx = NoTx THEN NextTx(t) ELSE t = session[s].tx
        /\ db' = [db EXCEPT ![t].status = "open"]
        /\ IF Observing(s) /\ session[s].token = NoTx
           THEN /\ session' = [session EXCEPT ![s] =
                                    [@ EXCEPT !.phase = "flush", !.tx = t, !.token = t]]
                /\ Observes(s, [kind |-> "ATTEMPT", tx |-> t, worker |-> Process[s],
                                epoch |-> fence.epoch])
           ELSE /\ session' = [session EXCEPT ![s] = [@ EXCEPT !.phase = "flush", !.tx = t]]
                /\ Quietly
    /\ UNCHANGED <<clock, ingested>>

\* The INSERT in its row's SAVEPOINT and after_flush, which reads the row back.
\* The SAVEPOINT is released, and the facts with it belong to the outer
\* transaction; or it is rolled back, and they go as the row does.
Insert(s) ==
    /\ session[s].phase = "flush"
    /\ \E r \in Trades :
        /\ NextRow(r) /\ ingested' = [ingested EXCEPT ![r] = clock]
        /\ \E kept \in SUBSET {r} :
            /\ db' = [db EXCEPT ![session[s].tx].rows = @ \union kept]
            /\ \/ /\ session' = [session EXCEPT ![s] =
                          [@ EXCEPT !.phase = "idle",
                                    !.facts = IF Observing(s) THEN session[s].facts \union kept
                                              ELSE session[s].facts]]
                  /\ Quietly
               \/ /\ Observing(s)
                  /\ session' = [session EXCEPT ![s].phase = "idle"]
                  /\ Fails(Process[s], 1)
    /\ UNCHANGED clock

\* before_commit: the witness joins the transaction, unless this process or the
\* journal already knows of a failure.  Then the COMMIT is sent.
Witnesses(s) ==
    /\ Observing(s) /\ session[s].token # NoTx
    /\ ~proc[Process[s]].localError /\ ~fence.error

BeforeCommit(s) ==
    LET t == session[s].tx
        sent == [db EXCEPT ![t].status = "inflight"]
    IN /\ session[s].phase = "idle" /\ t # NoTx
       /\ session' = [session EXCEPT ![s].phase = "commit"]
       /\ \/ ~Witnesses(s) /\ db' = sent /\ Quietly
          \/ Witnesses(s) /\ db' = sent /\ Fails(Process[s], 1)
          \/ /\ Witnesses(s) /\ Quietly
             /\ db' = [db EXCEPT ![t] = [@ EXCEPT !.status = "inflight", !.witnessed = TRUE,
                                              !.witness = session[s].facts]]
       /\ UNCHANGED <<clock, ingested>>

Committed(s) ==
    /\ session[s].phase = "commit"
    /\ db' = [db EXCEPT ![session[s].tx].status = "committed"]
    /\ session' = [session EXCEPT ![s] = Idle]
    /\ Quietly /\ UNCHANGED <<clock, ingested>>

\* Wrong variant: a rollback after an error answer to COMMIT counts.
ProvesAnyRollback(s, commitStarted) == Observing(s) /\ session[s].token # NoTx
\* after_soft_rollback: a rollback before any COMMIT is recorded.
ProvesRollback(s, commitStarted) ==
    Observing(s) /\ session[s].token # NoTx /\ ~commitStarted

AfterRollback(s, commitStarted) ==
    /\ session' = [session EXCEPT ![s] = Idle]
    /\ IF ProvesRollback(s, commitStarted)
       THEN Observes(s, [kind |-> "ROLLED_BACK", tx |-> session[s].token])
       ELSE Quietly
    /\ UNCHANGED <<clock, ingested>>

\* The answer to the COMMIT is an error or never comes, and the caller rolls
\* back: this says nothing about the database, which decides in its own time.
CommitRaises(s) ==
    session[s].phase = "commit" /\ AfterRollback(s, TRUE) /\ UNCHANGED db

DbDecides(t) ==
    /\ Status(t) = "inflight" /\ \A s \in Sessions : session[s].tx # t
    /\ \E status \in {"committed", "aborted"} : db' = [db EXCEPT ![t].status = status]
    /\ Quietly /\ UNCHANGED <<clock, ingested, session>>

Aborted(s) ==
    /\ session[s].phase = "idle" /\ session[s].tx # NoTx
    /\ db' = [db EXCEPT ![session[s].tx].status = "aborted"]

\* A death between the database's rollback and its record leaves what a death
\* before both leaves.
Rollback(s) == Aborted(s) /\ AfterRollback(s, FALSE)

\* The flush that before_commit starts raises: no COMMIT is sent, but the
\* observer takes it for one.
FlushRaises(s) == Aborted(s) /\ AfterRollback(s, TRUE)

\* A session closed without a rollback: no callback that could say so runs.
CloseSession(s) ==
    /\ Aborted(s)
    /\ session' = [session EXCEPT ![s] = Idle]
    /\ Quietly /\ UNCHANGED <<clock, ingested>>

SessionEnds(s) ==
    \/ Insert(s) \/ BeforeCommit(s) \/ Committed(s) \/ CommitRaises(s)
    \/ Rollback(s) \/ FlushRaises(s) \/ CloseSession(s)

SessionStep(s) == BeforeFlush(s) \/ SessionEnds(s)

observerVars == <<clock, ingested, fence, latched, unstored, proc, session, db, faults, crashes>>
=============================================================================
