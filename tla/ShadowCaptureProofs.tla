-------------------------- MODULE ShadowCaptureProofs --------------------------
(***************************************************************************)
(* What the shadow capture guarantees for every roster, any sessions,      *)
(* transactions and trades and any number of mishaps: the properties of    *)
(* ShadowCapture that the invariant Sound gives, the cause of each denial, *)
(* and that the generation implements CaptureEpoch.                        *)
(***************************************************************************)
EXTENDS ShadowCaptureSteps

-----------------------------------------------------------------------------
(* The invariants. *)

\* In every state the variables have their types.
THEOREM TypeCorrect == Spec => []TypeOK
  BY AlwaysSound, PTL DEF Sound

\* ROLLED_BACK and COMMITTED in the journal are what the database did.
THEOREM ResolutionsAreProofs == Spec => []ResolutionIsProof
  BY AlwaysSound, PTL DEF Sound, Stands

\* The receipt leaves no accounted transaction with a row of the window undecided.
LEMMA ReceiptCuts ==
    ASSUME Sound
    PROVE  FenceCutsEpoch
  <1>1. /\ TypeOK /\ fence \in Journals /\ JournalOrder /\ LateAdmissions /\ ResolutionIsProof
        /\ AdmittedOrDenied
    BY DEF Sound, Stands, TypeOK
  <1>2. SUFFICES ASSUME fence.receipt, NEW t \in Tx, Accounted(t), InWindow(Rows(t)) # {}
                 PROVE  Status(t) \in {"committed", "aborted"}
    BY DEF FenceCutsEpoch
  <1>3. fence.attempts[t] # NoAttempt
    BY <1>1, <1>2 DEF AdmittedOrDenied, Accounted
  <1>4. fence.attempts[t] \in Admitted
    BY <1>1, <1>3, AttemptCases
  <1>5. fence.attempts[t].epoch = 0
    BY <1>1, <1>2, <1>3, <1>4 DEF LateAdmissions, InWindow, Admitted
  <1>6. fence.attempts[t].state \in {"COMMITTED", "ROLLED_BACK"}
    BY <1>1, <1>2, <1>4, <1>5 DEF JournalOrder, Outstanding, In, Admitted
  <1> QED
    BY <1>1, <1>6 DEF ResolutionIsProof, In

\* The fence cuts the epoch: nothing of the window is left to decide.
THEOREM ReceiptCutsEpoch == Spec => []FenceCutsEpoch
  BY AlwaysSound, ReceiptCuts, PTL

\* The sealed population is exact.
THEOREM SealIsExact == Spec => []SealedPopulationExact
  <1>1. ASSUME Sound
        PROVE  SealedPopulationExact
    <2>1. TypeOK /\ Stands /\ JournalOrder /\ AdmittedOrDenied /\ PopulationStands
      BY <1>1 DEF Sound, Stands
    <2>2. SUFFICES ASSUME fence.archive
                   PROVE  /\ fence.facts \subseteq InWindow(CommittedRows)
                          /\ \A t \in CommittedTx :
                                 Accounted(t) => InWindow(Rows(t)) \subseteq fence.facts
      BY DEF SealedPopulationExact
    <2>3. fence.facts = AdmittedRows /\ fence.receipt
      BY <2>1, <2>2, FencedPopulation DEF JournalOrder, PopulationStands
    <2>4. fence.facts \subseteq InWindow(CommittedRows)
      BY <2>3 DEF AdmittedRows, InWindow, CommittedRows
    <2>5. ASSUME NEW t \in CommittedTx, Accounted(t), NEW r \in InWindow(Rows(t))
          PROVE  r \in fence.facts
      <3>1. t \in Tx /\ fence.attempts[t] # NoAttempt
        BY <2>1, <2>3, <2>5 DEF AdmittedOrDenied, Accounted, CommittedTx
      <3> QED
        BY <2>3, <2>5, <3>1 DEF AdmittedRows, InWindow
    <2> QED
      BY <2>4, <2>5
  <1> QED
    BY <1>1, AlwaysSound, PTL

\* Every frozen trade of a sealed generation has a recorded decision.
THEOREM SealHasDecisions == Spec => []SealedDecisions
  <1>1. ASSUME Sound
        PROVE  SealedDecisions
    <2>1. JournalOrder /\ DrainRecords
      BY <1>1 DEF Sound, Stands, Commands
    <2> QED
      BY <2>1 DEF JournalOrder, DrainRecords, SealedDecisions
  <1> QED
    BY <1>1, AlwaysSound, PTL

\* A recorded decision stands in every later frame.
THEOREM DecisionsStand == Spec => RecordedDecisionsStand
  <1> DEFINE A == \A r \in Trades : Recorded(r) => drain'.perId[r] = drain.perId[r]
  <1>1. ASSUME TypeOK, [Next]_vars
        PROVE  A
    <2>1. CASE drain' = drain
      BY <2>1
    <2>2. CASE DrainStep
      <3> DEFINE missing == fence.facts \intersect gone # {}
                 conflict == \E r \in fence.facts : Conflict(r)
      <3>1. drain' = drain \/ drain' = Frame(missing \/ conflict)
        BY <2>2 DEF DrainStep
      <3>2. ASSUME drain' = Frame(missing \/ conflict), NEW r \in Trades, Recorded(r)
            PROVE  drain'.perId[r] = drain.perId[r]
        <4>1. drain'.perId[r] = IF (missing \/ conflict) \/ r \notin fence.facts
                                THEN drain.perId[r] ELSE Visible(r)
          BY <3>2 DEF Frame
        <4>2. r \in fence.facts /\ ~conflict => Visible(r) = drain.perId[r]
          BY <3>2 DEF Conflict
        <4> QED
          BY <4>1, <4>2
      <3> QED
        BY <3>1, <3>2
    <2>3. ASSUME NEW w \in Workers, Worker(w)
          PROVE  drain' = drain
      BY <2>3 DEF Worker, Start, StartMisconfigured, StartDuplicate, Control, Crash, captureVars
    <2>4. CASE Operator
      BY <2>2, <2>4
      DEF Operator, Close, Complete, Freeze, Frozen, Handoff, Archive, OutOfTurn,
          CommandRaises, CommandDies, captureVars
    <2> QED
      BY <1>1, <2>1, <2>2, <2>3, <2>4
      DEF Next, Observer, Decided, Recover, Decide, Tamper, Tick, vars, captureVars
  <1>2. TypeOK /\ [Next]_vars => [A]_vars
    BY <1>1
  <1>3. Spec => [][A]_vars
    BY <1>2, TypeCorrect, PTL DEF Spec
  <1> QED
    BY <1>3 DEF RecordedDecisionsStand

-----------------------------------------------------------------------------
\* A first denial without a fault, with every writer on the roster and with every
\* command given in its turn; there is none.
Unprovoked ==
    /\ ~(fence.error \/ latched) /\ (fence.error \/ latched)'
    /\ ~(faults' > 0) /\ fence.workers = Workers /\ ~early'

Denying(cost) == \E how \in Denials : Invalidate(how, cost)

\* It would have to be a refusal, of a generation that nothing has denied so far.
LEMMA OnlyRefusals ==
    ASSUME Sound, Unprovoked, NEW cost \in {0, 1}, Denying(cost)
    PROVE  cost = 0 /\ ~fence.archive /\ ~Denied /\ gone = {} /\ ~(faults > 0)
  <1>1. TypeOK /\ Faultless
    BY DEF Sound, Commands
  <1>2. PICK how \in Denials : Invalidate(how, cost)
    BY DEF Denying
  <1>3. cost = 0 /\ how = "signed"
    BY <1>1, <1>2, Denial DEF Unprovoked
  <1>4. ~fence.archive
    BY <1>2, <1>3 DEF Invalidate, Unprovoked
  <1>5. ~(faults > 0)
    <2>1. faults' >= faults /\ faults \in Nat /\ faults' \in Nat
      BY <1>1, <1>2, Denial DEF TypeOK
    <2> QED
      BY <2>1 DEF Unprovoked
  <1>6. ~unstored /\ gone = {}
    BY <1>1, <1>5 DEF Faultless
  <1> QED
    BY <1>3, <1>4, <1>5, <1>6 DEF Denied, Unprovoked

\* No such denial comes from the processes: one that is refused its enrolment is
\* missing, and one that failed was denied.
LEMMA WorkersProvoked ==
    ASSUME Sound, Unprovoked, NEW w \in Workers, Worker(w)
    PROVE  FALSE
  <1>s. TypeOK /\ fence \in Journals /\ BlindDenied
    BY DEF Sound, TypeOK, Observers
  <1>u. ~fence.error /\ ~latched /\ (fence'.error \/ latched') /\ ~(faults' > 0)
        /\ fence.workers = Workers
    BY DEF Unprovoked
  <1>1. ~Denying(1)
    BY OnlyRefusals
  <1>2. CASE Start(w)
    <2> DEFINE armed == IF fence.armed THEN fence ELSE Apply(fence, [kind |-> "ARM"])
    <2>1. armed \in Journals /\ ~armed.error /\ w \in armed.workers
      BY <1>s, <1>u, ArmApplied
    <2>2. CASE StartRefused(w)
      BY <1>u, <2>2 DEF StartRefused
    <2>3. CASE StartObserved(w)
      <3>1. fence' = fence /\ latched' = latched
        BY <2>1, <2>3 DEF StartObserved
      <3> QED
        BY <1>u, <3>1
    <2> QED
      BY <1>2, <2>2, <2>3 DEF Start
  <1>3. CASE StartMisconfigured(w)
    <2>1. faults' = faults + 1 /\ faults \in Nat
      BY <1>s, <1>3 DEF StartMisconfigured, Spend, TypeOK
    <2> QED
      BY <1>u, <2>1
  <1>4. CASE StartDuplicate(w)
    BY <1>1, <1>4 DEF StartDuplicate, Denying
  <1>5. CASE Control(w)
    <2>1. CASE Unhealthy(w) /\ Denying(0)
      <3>1. ~Denied /\ proc[w].localError
        BY <1>u, <2>1, OnlyRefusals DEF Unhealthy
      <3> QED
        BY <1>s, <3>1 DEF BlindDenied
    <2>2. CASE Records([kind |-> "ACK", worker |-> w])
      <3>1. fence' = Apply(fence, [kind |-> "ACK", worker |-> w]) /\ latched' = latched
        BY <2>2 DEF Records, Append
      <3> QED
        BY <1>s, <1>u, <3>1, AckApplied
    <2> QED
      BY <1>1, <1>5, <1>u, <2>1, <2>2 DEF Control, Ack, Fails, Denying
  <1>6. CASE Crash(w)
    BY <1>u, <1>6 DEF Crash
  <1> QED
    BY <1>2, <1>3, <1>4, <1>5, <1>6 DEF Worker

\* None comes from the sessions: what they observe of each other's order is legal.
LEMMA SessionsProvoked ==
    ASSUME Sound, Unprovoked, NEW s \in Sessions, Observer(s)
    PROVE  FALSE
  <1>s. TypeOK /\ fence \in Journals /\ Observers /\ JournalOrder /\ SessionSound(s)
        /\ RowsIngested /\ Process[s] \in Workers
    BY ObserverAssumption DEF Sound, TypeOK, Observers, Stands
  <1>u. ~fence.error /\ ~latched /\ (fence'.error \/ latched') /\ ~(faults' > 0)
        /\ fence.workers = Workers
    BY DEF Unprovoked
  <1>1. ~Denying(1) /\ \A w \in Workers : ~Fails(w, 1)
    BY OnlyRefusals DEF Fails, Denying
  <1>2. ~Quietly
    BY <1>u DEF Quietly
  <1>a. fence.armed
    BY <1>s, <1>u DEF JournalOrder
  <1>3. CASE BeforeFlush(s)
    <2>1. PICK t \in Tx :
              /\ IF session[s].tx = NoTx THEN NextTx(t) ELSE t = session[s].tx
              /\ Observing(s) /\ session[s].token = NoTx
              /\ Observes(s, Attempting(t, Process[s], fence.epoch))
      BY <1>2, <1>3 DEF BeforeFlush, Attempting
    <2>2. Status(t) = "none" /\ ~fence.archive
      BY <1>s, <2>1 DEF SessionSound, NextTx, NoTx, Tx, Observing
    <2>3. fence.attempts[t].state = "NONE"
      BY <1>s, <2>2 DEF RowsIngested, NoAttempt
    <2>4. Legal(fence, Attempting(t, Process[s], fence.epoch))
      BY <1>a, <1>u, <2>2, <2>3 DEF Legal, Attempting, In
    <2>5. Records(Attempting(t, Process[s], fence.epoch))
      BY <1>1, <1>s, <2>1, <2>4 DEF Observes
    <2>6. fence' = Apply(fence, Attempting(t, Process[s], fence.epoch)) /\ latched' = latched
      BY <2>5 DEF Records, Append
    <2>7. fence.epoch \in {0, 1}
      BY <1>s, JournalFields
    <2>8. fence'.error = fence.error
      BY <1>s, <2>6, <2>7, AttemptApplied DEF SameStages
    <2> QED
      BY <1>u, <2>6, <2>8
  <1>4. CASE Rollback(s)
    <2>1. /\ Observing(s) /\ session[s].token # NoTx /\ session[s].tx # NoTx
          /\ Observes(s, RollingBack(session[s].token))
      BY <1>2, <1>4 DEF Rollback, Aborted, AfterRollback, ProvesRollback, RollingBack
    <2>2. PICK t \in Tx : t = session[s].token
      BY <1>s, <2>1, TxOfSession DEF SessionSound
    <2>3. fence.attempts[t].state = "OUTSTANDING" \/ Denied
      BY <1>s, <2>1, <2>2 DEF SessionSound
    <2>4. CASE Records(RollingBack(t))
      <3>1. Legal(fence, RollingBack(t)) /\ fence' = Apply(fence, RollingBack(t))
            /\ latched' = latched
        BY <2>4 DEF Records, Append
      <3>2. fence.attempts[t] # NoAttempt
        BY <3>1 DEF Legal, RollingBack, In, NoAttempt
      <3>3. fence'.error = fence.error
        BY <1>s, <3>1, <3>2, RolledBackApplied DEF SameStages
      <3> QED
        BY <1>u, <3>1, <3>3
    <2>5. CASE ~Legal(fence, RollingBack(t)) /\ Denying(0)
      <3>1. ~Denied /\ ~fence.archive
        BY <2>5, OnlyRefusals
      <3>2. Legal(fence, RollingBack(t))
        BY <1>a, <2>3, <3>1 DEF Legal, RollingBack, In
      <3> QED
        BY <2>5, <3>2
    <2> QED
      BY <1>1, <1>s, <2>1, <2>2, <2>4, <2>5 DEF Observes, Fails, Denying
  <1> QED
    BY <1>1, <1>2, <1>3, <1>4, <1>s DEF Observer, SessionStep, SessionEnds, Insert, BeforeCommit,
       Committed, CommitRaises, FlushRaises, CloseSession, AfterRollback, ProvesRollback

\* None comes from the operator: a command that is refused was given out of its
\* turn, or came after a fault.
LEMMA CommandsProvoked ==
    ASSUME Sound, Unprovoked, Operator \/ \E t \in Tx : Recover(t)
    PROVE  FALSE
  <1>s. TypeOK /\ fence \in Journals /\ JournalOrder /\ Faultless /\ DrainRecords
        /\ WitnessExact /\ LateAdmissions
    BY DEF Sound, TypeOK, Stands, Commands
  <1>u. ~fence.error /\ ~latched /\ (fence'.error \/ latched') /\ ~(faults' > 0)
    BY DEF Unprovoked
  <1>1. ~Denying(1) /\ ~Raises(1)
    BY OnlyRefusals DEF Raises, Denying
  <1>2. Raises(0) => Denying(0)
    BY DEF Raises, Denying
  <1>3. ASSUME NEW e, ByCommand(e)
        PROVE  Legal(fence, e) /\ fence' = Apply(fence, e) /\ latched' = latched
    BY <1>3 DEF ByCommand, Append
  <1>4. CASE Close
    <2>1. /\ fence' = Apply(fence, [kind |-> "CLOSE"]) /\ latched' = latched
          /\ Legal(fence, [kind |-> "CLOSE"])
      BY <1>4 DEF Close, ByCommand, Append
    <2>2. ~fence.closed
      BY <2>1 DEF Legal
    <2>3. fence.epoch = 0
      BY <1>s, <2>2, JournalFields DEF JournalOrder
    <2> QED
      BY <1>s, <1>u, <2>1, <2>3, CloseApplied
  <1>5. CASE Complete
    <2>1. fence' = Apply(fence, [kind |-> "FENCE"]) /\ latched' = latched
      BY <1>3, <1>5 DEF Complete
    <2> QED
      BY <1>s, <1>u, <2>1, ReceiptApplied
  <1>6. CASE Frozen
    <2>1. command.name = "freeze" /\ command.rows \in SUBSET Trades
      BY <1>s, <1>6 DEF Frozen, TypeOK
    <2>2. CASE ByCommand(Freezing(command.rows))
      <3>1. fence' = Apply(fence, Freezing(command.rows)) /\ latched' = latched
        BY <1>3, <2>2
      <3> QED
        BY <1>s, <1>u, <2>1, <3>1, FreezeApplied
    <2>3. CASE ~Legal(fence, Freezing(command.rows)) /\ Raises(0)
      <3>1. ~(faults > 0) /\ ~fence.archive
        BY <1>2, <2>3, OnlyRefusals
      <3>2. /\ fence.receipt /\ ~fence.frozen /\ fence.armed
            /\ command.rows = CommittedPopulation(fence)
        BY <1>s, <2>1, <3>1 DEF Faultless, JournalOrder
      <3>3. Legal(fence, Freezing(command.rows))
        BY <1>u, <3>1, <3>2 DEF Legal, Freezing, PopulationProven
      <3> QED
        BY <2>3, <3>3
    <2> QED
      BY <1>6, <2>2, <2>3 DEF Frozen, Freezing
  <1>7. CASE DrainStep
    <2>1. fence.facts \intersect gone # {} /\ Raises(0)
      BY <1>u, <1>7 DEF DrainStep, OutsideJournal
    <2> QED
      BY <1>2, <2>1, OnlyRefusals
  <1>8. CASE Archive
    <2>1. drain.state = "COMPLETE"
      BY <1>s, <1>8 DEF Archive, DrainRecords
    <2>2. fence.frozen /\ fence.armed
      BY <1>s, <2>1 DEF DrainRecords, JournalOrder
    <2>3. CASE ByCommand([kind |-> "ARCHIVE"])
      <3>1. fence' = Apply(fence, [kind |-> "ARCHIVE"]) /\ latched' = latched
        BY <1>3, <2>3
      <3> QED
        BY <1>s, <1>u, <3>1, ArchiveApplied
    <2>4. CASE ~Legal(fence, [kind |-> "ARCHIVE"]) /\ Raises(0)
      <3>1. ~fence.archive
        BY <1>2, <2>4, OnlyRefusals
      <3>2. Legal(fence, [kind |-> "ARCHIVE"])
        BY <1>u, <2>2, <3>1 DEF Legal, Sealable
      <3> QED
        BY <2>4, <3>2
    <2> QED
      BY <1>8, <2>3, <2>4 DEF Archive
  <1>9. ASSUME NEW t \in Tx, Recover(t)
        PROVE  FALSE
    <2>1. /\ fence.attempts[t].state = "OUTSTANDING" /\ fence.armed
          /\ db[t].witness = Rows(t) /\ Rows(t) \in SUBSET Trades
      BY <1>s, <1>9 DEF Recover, Opens, In, WitnessExact, Rows, TypeOK
    <2>2. fence.attempts[t] # NoAttempt /\ fence.attempts[t] \in Admitted
      BY <1>s, <2>1, AttemptCases DEF NoAttempt
    <2>3. CASE ByCommand(Committing(t, Rows(t)))
      <3>1. fence' = Apply(fence, Committing(t, Rows(t))) /\ latched' = latched
        BY <1>3, <2>3
      <3>2. fence'.error = fence.error
        BY <1>s, <2>1, <2>2, <3>1, CommittedApplied DEF SameStages
      <3> QED
        BY <1>u, <3>1, <3>2
    <2>4. CASE ~Legal(fence, Committing(t, Rows(t))) /\ Raises(0)
      <3>1. ~fence.archive
        BY <1>2, <2>4, OnlyRefusals
      <3>2. fence.attempts[t].epoch > 0 => \A r \in Rows(t) : ingested[r] = "post"
        BY <1>s, <2>2 DEF LateAdmissions, Admitted
      <3>3. Legal(fence, Committing(t, Rows(t)))
        BY <2>1, <3>1, <3>2 DEF Legal, Committing, In
      <3> QED
        BY <2>4, <3>3
    <2> QED
      BY <1>9, <2>1, <2>3, <2>4 DEF Recover, Committing
  <1>10. ~Freeze /\ ~Handoff /\ ~CommandDies /\ ~CommandRaises
    BY <1>1, <1>u DEF Freeze, Handoff, CommandDies, CommandRaises, OutsideJournal
  <1>11. ASSUME NEW name \in {"freeze", "drain", "handoff"}, OutOfTurn(name)
         PROVE  FALSE
    BY <1>11 DEF OutOfTurn, Unprovoked
  <1> QED
    BY <1>4, <1>5, <1>6, <1>7, <1>8, <1>9, <1>10, <1>11 DEF Operator

\* Observation does not fail by itself: a first denial has a fault, a missing
\* writer or a command out of its turn before it.
THEOREM DenialHasCause == Spec => DenialNeedsCause
  <1> DEFINE A == ~(fence.error \/ latched) /\ (fence.error \/ latched)'
                     => faults' > 0 \/ fence.workers # Workers \/ early'
  <1>1. ASSUME Sound, [Next]_vars
        PROVE  A
    <2>1. SUFFICES ASSUME Unprovoked
                   PROVE  FALSE
      BY DEF Unprovoked
    <2>2. fence' # fence \/ latched' # latched
      BY <2>1 DEF Unprovoked
    <2>3. \/ \E w \in Workers : Worker(w)
          \/ \E s \in Sessions : Observer(s)
          \/ Operator \/ \E t \in Tx : Recover(t)
      BY <1>1, <2>2 DEF Next, Decided, DbDecides, Quietly, Decide, Tamper, Tick, OutsideJournal,
         vars, observerVars
    <2> QED
      BY <1>1, <2>1, <2>3, WorkersProvoked, SessionsProvoked, CommandsProvoked
  <1>2. Sound /\ [Next]_vars => A
    BY <1>1
  <1>3. Spec => [][A]_vars
    BY <1>2, AlwaysSound, PTL DEF Spec
  <1> QED
    BY <1>3 DEF DenialNeedsCause

-----------------------------------------------------------------------------
(* The generation implements CaptureEpoch. *)

\* What a step leaves of the stages; a failure is recorded before the end only.
Resting ==
    /\ fence'.receipt = fence.receipt /\ fence'.frozen = fence.frozen
    /\ fence'.archive = fence.archive /\ fence'.facts = fence.facts
    /\ fence.error => fence'.error
    /\ fence'.error => fence.error \/ ~fence.archive

\* The transactions whose rows count, and their rows, stay as they are.
AdmittedKept ==
    \A t \in Tx :
        /\ (Status(t) = "committed" /\ fence.attempts[t] # NoAttempt)
               <=> (Status(t)' = "committed" /\ fence'.attempts[t] # NoAttempt)
        /\ Status(t) = "committed" =>
               Rows(t)' = Rows(t) /\ \A r \in Rows(t) : ingested'[r] = ingested[r]

\* Then the rows of the window stay the same.
LEMMA KeptRows ==
    ASSUME AdmittedKept
    PROVE  AdmittedRows' = AdmittedRows
  BY DEF AdmittedKept, AdmittedRows, InWindow, CommittedTx

\* Such a step stutters, or it is CaptureEpoch's failure.
LEMMA RestingRefines ==
    ASSUME TypeOK, TypeOK', Resting, AdmittedRows' = AdmittedRows
    PROVE  [Epoch!Next]_(Epoch!vars)
  <1>1. fence.error \in BOOLEAN /\ fence'.error \in BOOLEAN
    BY DEF TypeOK, Journals
  <1>2. CASE fence'.error = fence.error
    BY <1>2 DEF Resting, AdmittedRows, Epoch!vars
  <1>3. CASE fence'.error # fence.error
    <2>1. ~fence.error /\ fence'.error = TRUE /\ ~fence.archive
      BY <1>1, <1>3 DEF Resting
    <2>2. Epoch!Fail
      BY <2>1 DEF Resting, AdmittedRows, Epoch!Fail
    <2> QED
      BY <2>2 DEF Epoch!Next
  <1> QED
    BY <1>2, <1>3

\* A denial rests.
LEMMA DenialRests ==
    ASSUME TypeOK, NEW how \in Denials, NEW cost \in {0, 1}, Invalidate(how, cost)
    PROVE  Resting /\ fence'.attempts = fence.attempts
  <1>1. \/ fence' = fence
        \/ ~fence.archive /\ fence' = Apply(fence, [kind |-> "ERROR"])
    BY DEF Invalidate
  <1> QED
    BY <1>1, ErrorApplied DEF TypeOK, Resting, SameLedger

\* And so do a failure and a callback that does nothing.
LEMMA QuietRests ==
    ASSUME TypeOK,
           fence' = fence \/ \E cost \in {0, 1} :
               Raises(cost) \/ \E w \in Workers : Fails(w, cost)
    PROVE  Resting /\ fence'.attempts = fence.attempts
  <1>1. CASE fence' = fence
    BY <1>1 DEF Resting
  <1>2. CASE \E cost \in {0, 1} : Raises(cost) \/ \E w \in Workers : Fails(w, cost)
    <2>1. PICK cost \in {0, 1}, how \in Denials : Invalidate(how, cost)
      BY <1>2 DEF Raises, Fails
    <2> QED
      BY <2>1, DenialRests
  <1> QED
    BY <1>1, <1>2

\* The processes rest.
LEMMA WorkerRests ==
    ASSUME Sound, NEW w \in Workers, Worker(w)
    PROVE  Resting /\ AdmittedKept
  <1>s. TypeOK /\ fence \in Journals
    BY DEF Sound, TypeOK
  <1>1. Resting /\ fence'.attempts = fence.attempts
    <2>1. CASE Start(w)
      <3> DEFINE armed == IF fence.armed THEN fence ELSE Apply(fence, [kind |-> "ARM"])
      <3>1. /\ armed \in Journals /\ SameLedger(fence, armed) /\ armed.error = fence.error
        BY <1>s, ArmApplied DEF SameLedger
      <3>2. CASE fence' = Apply(armed, Enrolment(w))
        BY <3>1, <3>2, EnrolApplied DEF SameLedger, Resting
      <3>3. CASE fence' = fence \/ \E how \in Denials : Invalidate(how, 0)
        BY <1>s, <3>3, DenialRests DEF Resting
      <3> QED
        BY <2>1, <3>2, <3>3 DEF Start, StartRefused, StartObserved
    <2>2. CASE Control(w)
      <3>1. CASE Records([kind |-> "ACK", worker |-> w])
        <4>1. fence' = Apply(fence, [kind |-> "ACK", worker |-> w])
          BY <3>1 DEF Records, Append
        <4> QED
          BY <1>s, <4>1, AckApplied DEF SameLedger, Resting
      <3>2. CASE fence' = fence \/ Fails(w, 1) \/ \E how \in Denials : Invalidate(how, 0)
        BY <1>s, <3>2, DenialRests, QuietRests DEF Resting
      <3> QED
        BY <2>2, <3>1, <3>2 DEF Control, Ack
    <2>3. CASE StartDuplicate(w)
      BY <1>s, <2>3, DenialRests DEF StartDuplicate
    <2>4. CASE StartMisconfigured(w) \/ Crash(w)
      BY <2>4 DEF StartMisconfigured, Crash, Resting
    <2> QED
      BY <2>1, <2>2, <2>3, <2>4 DEF Worker
  <1>2. CASE Crash(w)
    <2>1. ingested' = ingested /\ db \in [Tx -> DbType]
      BY <1>s, <1>2 DEF Crash, TypeOK, DbType
    <2>2. ASSUME NEW t \in Tx
          PROVE  Rows(t)' = Rows(t) /\ (Status(t)' = "committed" <=> Status(t) = "committed")
      <3>1. db'[t] = db[t] \/ (Status(t) = "open" /\ db'[t] = [db[t] EXCEPT !.status = "aborted"])
        BY <1>2 DEF Crash
      <3> QED
        BY <2>1, <3>1 DEF Rows, Status, DbType
    <2> QED
      BY <1>1, <2>1, <2>2 DEF AdmittedKept
  <1>3. CASE ~Crash(w)
    <2>1. UNCHANGED <<db, ingested>>
      BY <1>3 DEF Worker, Start, StartMisconfigured, StartDuplicate, Control
    <2> QED
      BY <1>1, <2>1 DEF AdmittedKept, Status, Rows
  <1> QED
    BY <1>1, <1>2, <1>3

\* So do the sessions, but for an answered COMMIT: what they move is not committed.
LEMMA SessionRests ==
    ASSUME Sound, NEW s \in Sessions, Observer(s), ~Committed(s)
    PROVE  Resting /\ AdmittedKept
  <1>s. /\ TypeOK /\ fence \in Journals /\ Observers /\ SessionSound(s) /\ RowsIngested
        /\ WitnessExact /\ Process[s] \in Workers /\ db \in [Tx -> DbType]
    BY ObserverAssumption DEF Sound, TypeOK, Observers, Stands, DbType
  <1>1. ASSUME NEW t \in Tx, Status(t) # "committed", Status(t)' # "committed",
               \A u \in Tx \ {t} : /\ db'[u] = db[u]
                                   /\ fence'.attempts[u] = NoAttempt
                                          <=> fence.attempts[u] = NoAttempt,
               \A r \in Trades : ingested[r] # "none" => ingested'[r] = ingested[r]
        PROVE  AdmittedKept
    <2>1. \A u \in Tx : \A r \in Rows(u) : ingested'[r] = ingested[r]
      BY <1>s, <1>1 DEF RowsIngested, Rows, DbType
    <2> QED
      BY <1>1, <2>1 DEF AdmittedKept, Status, Rows
  <1>2. CASE BeforeFlush(s)
    <2>1. PICK t \in Tx :
              /\ IF session[s].tx = NoTx THEN NextTx(t) ELSE t = session[s].tx
              /\ db' = [db EXCEPT ![t].status = "open"]
              /\ \/ Quietly
                 \/ /\ Observing(s) /\ session[s].token = NoTx
                    /\ Observes(s, Attempting(t, Process[s], fence.epoch))
      BY <1>2 DEF BeforeFlush, Attempting
    <2>2. Status(t) \in {"none", "open"} /\ session[s].phase = "idle"
      BY <1>s, <1>2, <2>1 DEF BeforeFlush, SessionSound, NextTx
    <2>3. Status(t)' = "open" /\ \A u \in Tx \ {t} : db'[u] = db[u]
      BY <1>s, <2>1 DEF Status, DbType
    <2>4. /\ Resting
          /\ \A u \in Tx \ {t} : fence'.attempts[u] = fence.attempts[u]
      <3>1. CASE Records(Attempting(t, Process[s], fence.epoch))
        <4>1. fence' = Apply(fence, Attempting(t, Process[s], fence.epoch))
              /\ fence.epoch \in {0, 1}
          BY <1>s, <3>1, JournalFields DEF Records, Append
        <4> QED
          BY <1>s, <4>1, AttemptApplied DEF SameStages, Resting
      <3>2. CASE Quietly \/ \E cost \in {0, 1} : Fails(Process[s], cost)
        BY <1>s, <3>2, QuietRests DEF Quietly
      <3> QED
        BY <2>1, <3>1, <3>2 DEF Observes
    <2>5. ingested' = ingested
      BY <1>2 DEF BeforeFlush
    <2> QED
      BY <1>1, <2>2, <2>3, <2>4, <2>5
  <1>3. CASE ~BeforeFlush(s)
    <2>1. PICK t \in Tx : /\ t = session[s].tx
                          /\ Status(t) = IF session[s].phase = "commit"
                                         THEN "inflight" ELSE "open"
      <3>1. session[s].tx # NoTx \/ session[s].phase = "commit"
        <4>1. session[s].phase = "flush" => session[s].tx # NoTx
          BY <1>s DEF SessionSound, Idle
        <4>2. session[s].phase = "flush" \/ session[s].phase = "commit" \/ session[s].tx # NoTx
          BY <1>3 DEF Observer, SessionStep, SessionEnds, Insert, BeforeCommit, Committed,
             CommitRaises, Rollback, FlushRaises, CloseSession, Aborted
        <4> QED
          BY <4>1, <4>2
      <3> QED
        BY <1>s, <3>1, TxOfSession
    <2>2. CASE Insert(s)
      <3>1. PICK r \in Trades : /\ ingested[r] = "none"
                                /\ ingested' = [ingested EXCEPT ![r] = clock]
                                /\ \E kept \in SUBSET {r} :
                                       db' = [db EXCEPT ![t].rows = @ \union kept]
                                /\ Quietly \/ Fails(Process[s], 1)
        BY <2>1, <2>2 DEF Insert, NextRow
      <3>2. Status(t)' = Status(t) /\ \A u \in Tx \ {t} : db'[u] = db[u]
        <4>1. PICK kept \in SUBSET {r} : db' = [db EXCEPT ![t].rows = @ \union kept]
          BY <3>1
        <4> QED
          BY <1>s, <4>1 DEF Status, DbType
      <3>3. \A q \in Trades : ingested[q] # "none" => ingested'[q] = ingested[q]
        BY <1>s, <3>1 DEF TypeOK
      <3>4. Resting /\ fence'.attempts = fence.attempts
        BY <1>s, <3>1, QuietRests DEF Quietly
      <3> QED
        BY <1>1, <2>1, <3>2, <3>3, <3>4
    <2>3. CASE BeforeCommit(s)
      <3>1. /\ \/ db' = [db EXCEPT ![t].status = "inflight"]
               \/ db' = [db EXCEPT ![t] = [@ EXCEPT !.status = "inflight",
                                                     !.witnessed = TRUE,
                                                     !.witness = session[s].facts]]
            /\ ingested' = ingested /\ (Quietly \/ Fails(Process[s], 1))
        BY <2>1, <2>3 DEF BeforeCommit
      <3>2. Status(t)' # "committed" /\ \A u \in Tx \ {t} : db'[u] = db[u]
        <4>1. CASE db' = [db EXCEPT ![t].status = "inflight"]
          BY <1>s, <4>1 DEF Status, DbType
        <4>2. CASE db' = [db EXCEPT ![t] = [@ EXCEPT !.status = "inflight",
                                                      !.witnessed = TRUE,
                                                      !.witness = session[s].facts]]
          <5>1. db'[t] = [db[t] EXCEPT !.status = "inflight", !.witnessed = TRUE,
                                       !.witness = session[s].facts]
                /\ \A u \in Tx \ {t} : db'[u] = db[u]
            BY <1>s, <4>2
          <5>2. db[t] \in DbType
            BY <1>s
          <5> QED
            BY <5>1, <5>2 DEF Status, DbType
        <4> QED
          BY <3>1, <4>1, <4>2
      <3>3. Resting /\ fence'.attempts = fence.attempts
        BY <1>s, <3>1, QuietRests DEF Quietly
      <3> QED
        BY <1>1, <2>1, <3>1, <3>2, <3>3
    <2>4. CASE CommitRaises(s) \/ Rollback(s) \/ FlushRaises(s) \/ CloseSession(s)
      <3>1. /\ db' = db \/ db' = [db EXCEPT ![t].status = "aborted"]
            /\ ingested' = ingested
            /\ \/ Quietly
               \/ /\ Observing(s) /\ session[s].token # NoTx /\ session[s].tx # NoTx
                  /\ Observes(s, RollingBack(session[s].token))
        BY <2>1, <2>4 DEF CommitRaises, Rollback, FlushRaises, CloseSession, Aborted,
           AfterRollback, ProvesRollback, RollingBack
      <3>2. Status(t)' # "committed" /\ \A u \in Tx \ {t} : db'[u] = db[u]
        <4>1. Status(t) \in {"open", "inflight"}
          BY <2>1
        <4>2. CASE db' = [db EXCEPT ![t].status = "aborted"]
          BY <1>s, <4>2 DEF Status, DbType
        <4> QED
          BY <3>1, <4>1, <4>2 DEF Status
      <3>3. /\ Resting
            /\ \A u \in Tx \ {t} : fence'.attempts[u] = fence.attempts[u]
        <4>1. CASE Quietly \/ \E cost \in {0, 1} : Fails(Process[s], cost)
          BY <1>s, <4>1, QuietRests DEF Quietly
        <4>2. CASE /\ Observing(s) /\ session[s].token # NoTx /\ session[s].tx # NoTx
                   /\ Records(RollingBack(session[s].token))
          <5>1. session[s].token = t
            BY <1>s, <2>1, <4>2 DEF SessionSound
          <5>2. Legal(fence, RollingBack(t)) /\ fence' = Apply(fence, RollingBack(t))
            BY <4>2, <5>1 DEF Records, Append
          <5>3. fence.attempts[t] # NoAttempt
            BY <5>2 DEF Legal, RollingBack, In, NoAttempt
          <5> QED
            BY <1>s, <5>2, <5>3, RolledBackApplied DEF SameStages, Resting
        <4> QED
          BY <3>1, <4>1, <4>2 DEF Observes
      <3> QED
        BY <1>1, <2>1, <3>1, <3>2, <3>3
    <2> QED
      BY <1>3, <2>2, <2>3, <2>4 DEF Observer, SessionStep, SessionEnds
  <1> QED
    BY <1>2, <1>3

\* A COMMIT that the database has taken adds rows of the window before the
\* receipt, and none after it.
LEMMA CommitRefines ==
    ASSUME Sound, TypeOK', NEW t \in Tx, Status(t) = "inflight",
           NEW status \in {"committed", "aborted"}, db' = [db EXCEPT ![t].status = status],
           UNCHANGED <<fence, ingested>>
    PROVE  [Epoch!Next]_(Epoch!vars)
  <1>s. TypeOK /\ JournalOrder /\ FenceCutsEpoch /\ db \in [Tx -> DbType]
    BY ReceiptCuts DEF Sound, TypeOK, Stands, DbType
  <1>1. /\ Status(t)' = status /\ Rows(t)' = Rows(t)
        /\ \A u \in Tx \ {t} : Status(u)' = Status(u) /\ Rows(u)' = Rows(u)
    BY <1>s DEF Status, Rows, DbType
  <1>2. CASE status = "aborted" \/ fence.attempts[t] = NoAttempt
    <2>1. AdmittedRows' = AdmittedRows
      BY <1>1, <1>2 DEF AdmittedRows, InWindow, CommittedTx
    <2> QED
      BY <1>s, <2>1, RestingRefines DEF Resting
  <1>3. CASE status = "committed" /\ fence.attempts[t] # NoAttempt
    <2>1. AdmittedRows' = AdmittedRows \union InWindow(Rows(t))
      BY <1>1, <1>3 DEF AdmittedRows, InWindow, CommittedTx
    <2>2. CASE fence.receipt
      <3>1. InWindow(Rows(t)) = {}
        BY <1>s, <1>3, <2>2 DEF FenceCutsEpoch, Accounted
      <3> QED
        BY <1>s, <2>1, <3>1, RestingRefines DEF Resting
    <2>3. CASE ~fence.receipt
      <3>1. InWindow(Rows(t)) \in SUBSET Trades
        BY <1>s DEF InWindow, Rows, DbType
      <3>2. ~fence.frozen /\ ~fence.archive
        BY <1>s, <2>3 DEF JournalOrder
      <3>3. Epoch!Commit
        BY <2>1, <2>3, <3>1, <3>2 DEF Epoch!Commit, AdmittedRows
      <3> QED
        BY <3>3 DEF Epoch!Next
    <2> QED
      BY <2>2, <2>3
  <1> QED
    BY <1>2, <1>3

\* The receipt, the freeze and the archive are CaptureEpoch's stages; no other
\* command is seen.
LEMMA CommandRefines ==
    ASSUME Sound, TypeOK', Operator \/ \E t \in Tx : Recover(t)
    PROVE  [Epoch!Next]_(Epoch!vars)
  <1>s. TypeOK /\ Stands /\ fence \in Journals /\ JournalOrder /\ PopulationStands
        /\ WitnessExact
    BY DEF Sound, TypeOK, Stands
  <1>1. UNCHANGED <<db, ingested>>
    BY DEF Operator, Close, Complete, Freeze, Frozen, DrainStep, Handoff, Archive,
       OutOfTurn, CommandRaises, CommandDies, Recover, ByCommand, OutsideJournal, Raises
  <1>2. ASSUME Resting, \A t \in Tx : fence'.attempts[t] = NoAttempt
                                          <=> fence.attempts[t] = NoAttempt
        PROVE  [Epoch!Next]_(Epoch!vars)
    <2>1. AdmittedKept
      BY <1>1, <1>2 DEF AdmittedKept, Status, Rows
    <2> QED
      BY <1>s, <1>2, <2>1, KeptRows, RestingRefines
  <1>3. CASE fence' = fence \/ \E cost \in {0, 1} : Raises(cost)
    BY <1>s, <1>2, <1>3, QuietRests
  <1>4. fence'.attempts = fence.attempts => AdmittedRows' = AdmittedRows
    BY <1>1 DEF AdmittedRows, InWindow, CommittedTx, Rows, Status
  <1>5. CASE Close
    <2>1. /\ fence' = Apply(fence, [kind |-> "CLOSE"])
          /\ Legal(fence, [kind |-> "CLOSE"])
      BY <1>5 DEF Close, ByCommand, Append
    <2>2. ~fence.closed
      BY <2>1 DEF Legal
    <2>3. fence.epoch = 0
      BY <1>s, <2>2, JournalFields DEF JournalOrder
    <2> QED
      BY <1>s, <1>2, <2>1, <2>3, CloseApplied DEF Resting
  <1>6. CASE Complete
    <2>1. /\ fence' = Apply(fence, [kind |-> "FENCE"])
          /\ Legal(fence, [kind |-> "FENCE"])
      BY <1>6 DEF Complete, ByCommand, Append
    <2>2. ~fence.error /\ ~fence.receipt
      BY <2>1 DEF Legal
    <2>3. ~fence.frozen /\ ~fence.archive
      BY <1>s, <2>2 DEF JournalOrder
    <2>4. /\ fence'.attempts = fence.attempts /\ fence'.receipt
          /\ fence'.frozen = fence.frozen /\ fence'.facts = fence.facts
          /\ fence'.archive = fence.archive /\ fence'.error = fence.error
      BY <1>s, <2>1, ReceiptApplied
    <2>5. Epoch!Fence
      BY <1>4, <2>2, <2>3, <2>4 DEF Epoch!Fence, Epoch!Advance, AdmittedRows
    <2> QED
      BY <2>5 DEF Epoch!Next
  <1>7. CASE ByCommand(Freezing(command.rows))
    <2>1. /\ fence' = Apply(fence, Freezing(command.rows))
          /\ Legal(fence, Freezing(command.rows)) /\ command.rows \in SUBSET Trades
      BY <1>s, <1>7 DEF ByCommand, Append, TypeOK
    <2>2. /\ ~fence.error /\ fence.receipt /\ ~fence.frozen
          /\ command.rows = CommittedPopulation(fence)
      BY <2>1 DEF Legal, Freezing, PopulationProven
    <2>3. ~fence.archive /\ command.rows = AdmittedRows
      BY <1>s, <2>2, FencedPopulation DEF JournalOrder
    <2>4. /\ fence'.attempts = fence.attempts /\ fence'.receipt = fence.receipt
          /\ fence'.frozen /\ fence'.facts = command.rows
          /\ fence'.archive = fence.archive /\ fence'.error = fence.error
      BY <1>s, <2>1, FreezeApplied
    <2>5. Epoch!Freeze
      BY <1>4, <2>2, <2>3, <2>4 DEF Epoch!Freeze, Epoch!Advance, AdmittedRows
    <2> QED
      BY <2>5 DEF Epoch!Next
  <1>8. CASE ByCommand([kind |-> "ARCHIVE"])
    <2>1. /\ fence' = Apply(fence, [kind |-> "ARCHIVE"])
          /\ Legal(fence, [kind |-> "ARCHIVE"])
      BY <1>8 DEF ByCommand, Append
    <2>2. fence.frozen /\ ~fence.error /\ ~fence.archive
      BY <2>1 DEF Legal, Sealable
    <2>3. /\ fence'.attempts = fence.attempts /\ fence'.receipt = fence.receipt
          /\ fence'.frozen = fence.frozen /\ fence'.facts = fence.facts
          /\ fence'.archive /\ fence'.error = fence.error
      BY <1>s, <2>1, ArchiveApplied
    <2>4. Epoch!Seal
      BY <1>4, <2>2, <2>3 DEF Epoch!Seal, Epoch!Advance, AdmittedRows
    <2> QED
      BY <2>4 DEF Epoch!Next
  <1>9. ASSUME NEW t \in Tx, Recover(t)
        PROVE  [Epoch!Next]_(Epoch!vars)
    <2>1. /\ fence.attempts[t] # NoAttempt /\ db[t].witness \in SUBSET Trades
      BY <1>s, <1>9 DEF Recover, In, NoAttempt, TypeOK
    <2>2. CASE ByCommand(Committing(t, db[t].witness))
      <3>1. fence' = Apply(fence, Committing(t, db[t].witness))
        BY <2>2 DEF ByCommand, Append
      <3>2. /\ SameStages(fence, fence') /\ fence'.attempts[t] # NoAttempt
            /\ \A u \in Tx \ {t} : fence'.attempts[u] = fence.attempts[u]
        BY <1>s, <2>1, <3>1, CommittedApplied
      <3> QED
        BY <1>2, <2>1, <3>2 DEF SameStages, Resting
    <2> QED
      BY <1>3, <1>9, <2>2 DEF Recover, Committing
  <1> QED
    BY <1>3, <1>5, <1>6, <1>7, <1>8, <1>9
    DEF Operator, Freeze, Frozen, DrainStep, Handoff, Archive, OutOfTurn, CommandRaises,
        CommandDies, OutsideJournal, Freezing

\* The capture implements CaptureEpoch.
THEOREM CaptureImplementsEpoch == Spec => EpochSpec
  <1>1. ASSUME Init
        PROVE  Epoch!Init
    <2>1. CommittedTx = {}
      BY <1>1 DEF Init, CommittedTx, Status, NewTx
    <2> QED
      BY <1>1, <2>1 DEF Init, Blank, Epoch!Init, InWindow
  <1>2. ASSUME Sound, [Next]_vars
        PROVE  [Epoch!Next]_(Epoch!vars)
    <2>1. TypeOK /\ TypeOK' /\ db \in [Tx -> DbType]
      BY <1>2, NextKeepsSound DEF Sound, TypeOK, DbType
    <2>2. CASE UNCHANGED <<fence, db, ingested>>
      <3>1. AdmittedRows' = AdmittedRows
        BY <2>2 DEF AdmittedRows, InWindow, CommittedTx, Rows, Status
      <3> QED
        BY <2>1, <2>2, <3>1, RestingRefines DEF Resting
    <2>3. ASSUME NEW w \in Workers, Worker(w)
          PROVE  [Epoch!Next]_(Epoch!vars)
      BY <1>2, <2>1, <2>3, WorkerRests, KeptRows, RestingRefines
    <2>4. ASSUME NEW s \in Sessions, Observer(s)
          PROVE  [Epoch!Next]_(Epoch!vars)
      <3>1. CASE ~Committed(s)
        BY <1>2, <2>1, <2>4, <3>1, SessionRests, KeptRows, RestingRefines
      <3>2. CASE Committed(s)
        <4>1. PICK t \in Tx : t = session[s].tx /\ Status(t) = "inflight"
          BY <1>2, <3>2, TxOfSession DEF Committed, Sound
        <4>2. db' = [db EXCEPT ![t].status = "committed"] /\ UNCHANGED <<fence, ingested>>
          BY <3>2, <4>1 DEF Committed, Quietly
        <4> QED
          BY <1>2, <2>1, <4>1, <4>2, CommitRefines
      <3> QED
        BY <3>1, <3>2
    <2>5. ASSUME NEW t \in Tx, Decided(t)
          PROVE  [Epoch!Next]_(Epoch!vars)
      <3>1. PICK status \in {"committed", "aborted"} : db' = [db EXCEPT ![t].status = status]
        BY <2>5 DEF Decided, DbDecides
      <3>2. Status(t) = "inflight" /\ UNCHANGED <<fence, ingested>>
        BY <2>5 DEF Decided, DbDecides, Quietly
      <3> QED
        BY <1>2, <2>1, <3>1, <3>2, CommitRefines
    <2>6. CASE Operator \/ \E t \in Tx : Recover(t)
      BY <1>2, <2>1, <2>6, CommandRefines
    <2> QED
      BY <1>2, <2>2, <2>3, <2>4, <2>5, <2>6
      DEF Next, Decide, Tamper, Tick, OutsideJournal, vars, observerVars
  <1>3. Sound /\ [Next]_vars => [Epoch!Next]_(Epoch!vars)
    BY <1>2
  <1>4. Spec => Epoch!Spec
    BY <1>1, <1>3, AlwaysSound, PTL DEF Spec, Epoch!Spec
  <1> QED
    BY <1>4 DEF EpochSpec
=============================================================================
