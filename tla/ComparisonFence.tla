--------------------------- MODULE ComparisonFence ---------------------------
(***************************************************************************)
(* The journal of one capture generation: a list of events that all the    *)
(* writer processes and the operator's controller append to, one at a time *)
(* under the journal's write lock, and that is replayed, each event        *)
(* against the state the earlier ones built (replay in the vendored        *)
(* poly2-comparison-fence.py).  The journal is kept as its replay; hashes, *)
(* signatures and the chain from event to event are left out.              *)
(***************************************************************************)
EXTENDS Naturals, FiniteSets

CONSTANTS
    Workers,    \* binding['expectedWorkers']
    MaxTx,      \* bound on the source transactions
    MaxTrades   \* bound on the rows inserted into trades

Tx == 1..MaxTx
Trades == 1..MaxTrades

ASSUME FenceAssumption == MaxTx \in Nat /\ MaxTrades \in Nat /\ IsFiniteSet(Workers)

VARIABLES
    clock,      \* before, inside or after the inclusive window of the run
    ingested,   \* when each trades row was inserted, "none" before
    fence       \* the replayed journal

\* Rows of the cohort's wallets; those of other wallets count as outside.
InWindow(rows) == {r \in rows : ingested[r] = "in"}

NoAttempt == [state |-> "NONE"]
\* Wrong variant: an attempt counts for the epoch after the current one.
AdmissionToNext(worker, epoch) ==
    [worker |-> worker, epoch |-> epoch + 1, state |-> "OUTSTANDING", facts |-> {}]
Admission(worker, epoch) ==
    [worker |-> worker, epoch |-> epoch, state |-> "OUTSTANDING", facts |-> {}]

Blank ==
    [armed |-> FALSE, epoch |-> 0, closed |-> FALSE, workers |-> {}, acks |-> {},
     attempts |-> [t \in Tx |-> NoAttempt], error |-> FALSE, receipt |-> FALSE,
     frozen |-> FALSE, facts |-> {}, archive |-> FALSE]

In(s, state) == {t \in Tx : s.attempts[t].state = state}

\* Wrong variant: a worker that has acknowledged owes nothing any more.
OutstandingUnacknowledged(s) ==
    {t \in In(s, "OUTSTANDING") : s.attempts[t].epoch = 0 /\ s.attempts[t].worker \notin s.acks}
\* receipt(): what the old generation still owes.
Outstanding(s) == {t \in In(s, "OUTSTANDING") : s.attempts[t].epoch = 0}

\* Wrong variant: rows of other times are not left out.
CommittedPopulationAnyTime(s) == UNION {s.attempts[t].facts : t \in In(s, "COMMITTED")}
CommittedPopulation(s) == InWindow(UNION {s.attempts[t].facts : t \in In(s, "COMMITTED")})

\* Wrong variant: no row may be too much, but some may be missing.
PopulationWithin(s, rows) == rows \subseteq CommittedPopulation(s)
\* What may be frozen.
PopulationProven(s, rows) == rows = CommittedPopulation(s)

\* Wrong variant: a failure after the freeze is not looked for.
SealableOnceFrozen(s) == s.frozen
Sealable(s) == s.frozen /\ ~s.error

\* Whether replay accepts the event e in the state s, at the present time.
Legal(s, e) ==
    /\ ~s.archive
    /\ s.armed <=> e.kind # "ARM"
    /\ CASE e.kind = "ARM" -> clock = "pre"
         [] e.kind = "ENROLL" -> /\ ~s.closed /\ clock = "pre"
                                 /\ e.worker \in Workers \ s.workers
         [] e.kind = "ATTEMPT" -> /\ s.workers = Workers
                                  /\ e.tx \in In(s, "NONE") /\ e.epoch = s.epoch
         [] e.kind = "CLOSE" -> ~s.closed /\ clock = "post"
         [] e.kind = "ACK" -> s.closed /\ e.worker \in s.workers
         [] e.kind = "COMMITTED" ->
                /\ e.tx \in In(s, "OUTSTANDING")
                /\ s.attempts[e.tx].epoch > 0 => \A r \in e.facts : ingested[r] = "post"
         [] e.kind = "ROLLED_BACK" -> e.tx \in In(s, "OUTSTANDING")
         [] e.kind = "ERROR" -> TRUE
         [] e.kind = "FENCE" -> /\ ~s.receipt /\ ~s.error /\ s.closed
                                /\ Outstanding(s) = {} /\ s.acks = Workers
         [] e.kind = "FREEZE" -> /\ s.receipt /\ ~s.frozen /\ ~s.error
                                 /\ PopulationProven(s, e.facts)
         [] e.kind = "ARCHIVE" -> Sealable(s)

\* The state after it.
Apply(s, e) ==
    CASE e.kind = "ARM" -> [s EXCEPT !.armed = TRUE]
      [] e.kind = "ENROLL" -> [s EXCEPT !.workers = @ \union {e.worker}]
      [] e.kind = "ATTEMPT" -> [s EXCEPT !.attempts[e.tx] = Admission(e.worker, e.epoch)]
      [] e.kind = "CLOSE" -> [s EXCEPT !.closed = TRUE, !.epoch = @ + 1]
      [] e.kind = "ACK" -> [s EXCEPT !.acks = @ \union {e.worker}]
      [] e.kind = "COMMITTED" ->
             [s EXCEPT !.attempts[e.tx] = [@ EXCEPT !.state = "COMMITTED", !.facts = e.facts]]
      [] e.kind = "ROLLED_BACK" -> [s EXCEPT !.attempts[e.tx].state = "ROLLED_BACK"]
      [] e.kind = "ERROR" -> [s EXCEPT !.error = TRUE]
      [] e.kind = "FENCE" -> [s EXCEPT !.receipt = TRUE]
      [] e.kind = "FREEZE" -> [s EXCEPT !.frozen = TRUE, !.facts = e.facts]
      [] e.kind = "ARCHIVE" -> [s EXCEPT !.archive = TRUE]

\* _append inside the journal's write transaction, whose COMMIT publishes it.
Append(e) == Legal(fence, e) /\ fence' = Apply(fence, e)

Journals ==
    [armed : BOOLEAN, epoch : {0, 1}, closed : BOOLEAN, workers : SUBSET Workers,
     acks : SUBSET Workers,
     attempts : [Tx -> {NoAttempt} \union
                       [worker : Workers, epoch : {0, 1}, facts : SUBSET Trades,
                        state : {"OUTSTANDING", "COMMITTED", "ROLLED_BACK"}]],
     error : BOOLEAN, receipt : BOOLEAN, frozen : BOOLEAN, facts : SUBSET Trades,
     archive : BOOLEAN]
=============================================================================
