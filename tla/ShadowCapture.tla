---------------------------- MODULE ShadowCapture ----------------------------
(***************************************************************************)
(* One generation of the shadow capture as a whole: the observed source    *)
(* sessions of ShadowObserver; the start, the control loop and the death   *)
(* of the writer processes (shadow_capture.py); the operator's commands    *)
(* close, recover, fence, freeze, drain and handoff, each a process of its *)
(* own (shadow_controller.py); the drain that follows the decisions of the *)
(* frozen trades (poly2-comparison-drain.py).                              *)
(***************************************************************************)
EXTENDS ShadowObserver

VARIABLES
    command,    \* the controller command in progress, with the rows it has scanned
    drain,      \* the last frame of the drain's journal
    decision,   \* the initial decision about each trade, as the database has it
    gone,       \* rows of trades deleted by hand
    early       \* history: some command was given out of its turn

captureVars == <<command, drain, decision, gone, early>>
vars == <<observerVars, captureVars>>

NoCommand == [name |-> "none", rows |-> {}]
NoFrame == [state |-> "NOT_STARTED", perId |-> [r \in Trades |-> "PENDING"]]

\* A decision is recorded once; after that, only a hand changes or deletes it.
\* About a trade that is not for copying none is ever made.
Decisions == {"PENDING", "original", "uncopied", "changed", "deleted"}

Init ==
    /\ clock = "pre"
    /\ ingested = [r \in Trades |-> "none"]
    /\ fence = Blank /\ latched = FALSE /\ unstored = FALSE
    /\ proc = [w \in Workers |-> Down]
    /\ session = [s \in Sessions |-> Idle]
    /\ db = [t \in Tx |-> NewTx]
    /\ faults = 0 /\ crashes = 0
    /\ command = NoCommand
    /\ drain = NoFrame
    /\ decision = [r \in Trades |-> "PENDING"]
    /\ gone = {} /\ early = FALSE

-----------------------------------------------------------------------------
(* The writer processes. *)

\* install_factory: without capture the process works with plain sessions.
Plain == [up |-> TRUE, retired |-> TRUE, localError |-> FALSE]
Observed == [Plain EXCEPT !.retired = FALSE]

\* The first process arms the journal; each enrolls, once for all its lives.
Enrolment(w) == [kind |-> "ENROLL", worker |-> w]

StartRefused(w) ==
    /\ latched \/ (~fence.armed /\ clock # "pre")
    /\ proc' = [proc EXCEPT ![w] = Plain]
    /\ UNCHANGED <<fence, latched, unstored, faults, crashes>>

StartObserved(w) ==
    LET armed == IF fence.armed THEN fence ELSE Apply(fence, [kind |-> "ARM"])
        known == w \in armed.workers
    IN /\ ~latched /\ (fence.armed \/ clock = "pre")
       /\ IF ~armed.error /\ (known \/ Legal(armed, Enrolment(w)))
          THEN /\ proc' = [proc EXCEPT ![w] = Observed]
               /\ fence' = IF known THEN fence ELSE Apply(armed, Enrolment(w))
               /\ UNCHANGED <<latched, unstored, faults, crashes>>
          ELSE /\ proc' = [proc EXCEPT ![w] = Plain]
               /\ \E how \in Denials : Invalidate(how, 0)

Start(w) ==
    /\ ~proc[w].up /\ (StartRefused(w) \/ StartObserved(w))
    /\ UNCHANGED <<clock, ingested, session, db, captureVars>>

\* Wrong or missing inputs: invalidate_retained denies the armed spool, if it
\* can tell which one was meant.
StartMisconfigured(w) ==
    /\ ~proc[w].up
    /\ Spend(1)
    /\ proc' = [proc EXCEPT ![w] = Plain]
    /\ \/ fence.armed /\ latched' = (latched \/ ~fence.archive) /\ UNCHANGED unstored
       \/ unstored' = TRUE /\ UNCHANGED latched
    /\ UNCHANGED <<clock, ingested, fence, session, db, captureVars>>

\* A second process under the name of a running one finds its lock taken and
\* denies the generation to both.  That its denial cannot be stored is left
\* out, and so are its own writes.
StartDuplicate(w) ==
    /\ proc[w].up /\ fence.armed /\ ~latched
    /\ \E how \in Denials \ {"lost"} : Invalidate(how, 1)
    /\ UNCHANGED <<clock, ingested, proc, session, db, captureVars>>

\* control(): every 0.1 s, and before a session is made.
Unhealthy(w) == proc[w].localError \/ fence.error \/ latched
\* Wrong variant: a process that writes nothing acknowledges nothing.
OwesAckIfWriting(w) ==
    fence.closed /\ w \notin fence.acks /\ \E s \in Sessions : Process[s] = w
OwesAck(w) == fence.closed /\ w \notin fence.acks

Ack(w) ==
    LET ack == [kind |-> "ACK", worker |-> w]
    IN Records(ack) \/ (Legal(fence, ack) /\ Fails(w, 1))

Control(w) ==
    /\ proc[w].up /\ ~proc[w].retired
    /\ \/ /\ Unhealthy(w)
          /\ \E how \in Denials :
                /\ Invalidate(how, 0)
                /\ proc' = [proc EXCEPT ![w] =
                                [@ EXCEPT !.retired = TRUE,
                                          !.localError = proc[w].localError \/ SetsLocalError(how)]]
       \/ /\ ~Unhealthy(w) /\ fence.archive
          /\ proc' = [proc EXCEPT ![w].retired = TRUE]
          /\ UNCHANGED <<fence, latched, unstored, faults, crashes>>
       \/ ~Unhealthy(w) /\ ~fence.archive /\ OwesAck(w) /\ Ack(w)
    /\ UNCHANGED <<clock, ingested, session, db, captureVars>>

\* The database aborts what the process had open; a COMMIT already received may
\* still be decided either way.  A healthy process with nothing open loses
\* nothing by dying; until it is started again it takes no step either way.
Crash(w) ==
    LET mine == {s \in Sessions : Process[s] = w}
        open == {session[s].tx : s \in mine} \ {NoTx}
    IN /\ proc[w].up /\ (open # {} \/ proc[w].localError)
       /\ Dies
       /\ proc' = [proc EXCEPT ![w] = Down]
       /\ session' = [s \in Sessions |-> IF s \in mine THEN Idle ELSE session[s]]
       /\ db' = [t \in Tx |-> IF t \in open /\ Status(t) = "open"
                              THEN [db[t] EXCEPT !.status = "aborted"] ELSE db[t]]
       /\ UNCHANGED <<clock, ingested, fence, latched, unstored, captureVars>>

Observer(s) == SessionStep(s) /\ UNCHANGED captureVars
Decided(t) == DbDecides(t) /\ UNCHANGED captureVars

Tick ==
    /\ \/ clock = "pre" /\ clock' = "in"
       \/ clock = "in" /\ clock' = "post"
    /\ UNCHANGED <<ingested, fence, latched, unstored, proc, session, db, faults, crashes>>
    /\ UNCHANGED captureVars

-----------------------------------------------------------------------------
(* The operator's commands. *)

\* open_fence: an armed spool without a denial.
Opens == fence.armed /\ ~latched /\ command = NoCommand

ByCommand(e) ==
    /\ Append(e)
    /\ UNCHANGED <<clock, ingested, latched, unstored, proc, session, db, faults, crashes>>
OutsideJournal ==
    UNCHANGED <<clock, ingested, fence, latched, unstored, proc, session, db, faults, crashes>>

\* A command with the database reader that raises denies the generation.
Raises(cost) ==
    /\ \E how \in Denials : Invalidate(how, cost)
    /\ UNCHANGED <<clock, ingested, proc, session, db>>

Close == /\ Opens /\ ByCommand([kind |-> "CLOSE"])
         /\ UNCHANGED captureVars

\* recover: only a committed witness resolves an attempt.
Recover(t) ==
    LET resolution == [kind |-> "COMMITTED", tx |-> t, facts |-> db[t].witness]
    IN /\ Opens /\ t \in In(fence, "OUTSTANDING")
       /\ Status(t) = "committed" /\ db[t].witnessed
       /\ ByCommand(resolution) \/ (~Legal(fence, resolution) /\ Raises(0))
       /\ UNCHANGED captureVars

Complete == /\ Opens /\ ByCommand([kind |-> "FENCE"])
            /\ UNCHANGED captureVars

\* freeze: a snapshot of the window's rows, then the event, checked against
\* the witnesses of the journal as it then is.
Freeze ==
    /\ Opens /\ fence.receipt /\ ~fence.error /\ ~fence.frozen
    /\ command' = [name |-> "freeze", rows |-> InWindow(CommittedRows) \ gone]
    /\ OutsideJournal /\ UNCHANGED <<drain, decision, gone, early>>

Frozen ==
    LET population == [kind |-> "FREEZE", facts |-> command.rows]
    IN /\ command.name = "freeze" /\ command' = NoCommand
       /\ ByCommand(population) \/ (~Legal(fence, population) /\ Raises(0))
       /\ UNCHANGED <<drain, decision, gone, early>>

\* The drain's step: the frozen rows and their decisions, compared with the
\* last frame.  A first frame over other rows has no population proof.
Recorded(r) == drain.perId[r] # "PENDING"
Visible(r) == IF decision[r] \in {"uncopied", "deleted"} THEN "PENDING" ELSE decision[r]

\* Wrong variant: only a decision that is gone is a conflict.
ConflictIfDropped(r) == Recorded(r) /\ Visible(r) = "PENDING"
Conflict(r) == Recorded(r) /\ Visible(r) # drain.perId[r]

\* Wrong variant: one decision is enough.
AwaitedUnlessAny(perId) == {r \in fence.facts : \A q \in fence.facts : perId[q] = "PENDING"}
\* The frozen trades without a decision.
Awaited(perId) == {r \in fence.facts : perId[r] = "PENDING"}

Frame(error) ==
    LET perId == [r \in Trades |-> IF error \/ r \notin fence.facts THEN drain.perId[r]
                                   ELSE Visible(r)]
    IN [perId |-> perId,
        state |-> IF error THEN "FAILED"
                  ELSE IF Awaited(perId) # {} THEN "DRAINING"
                  ELSE "COMPLETE"]

DrainStep ==
    LET missing == fence.facts \intersect gone # {}
        conflict == \E r \in fence.facts : Conflict(r)
    IN /\ Opens /\ fence.frozen /\ ~fence.error
       /\ drain.state \in {"NOT_STARTED", "DRAINING"}
       /\ IF missing /\ drain = NoFrame THEN Raises(0) /\ UNCHANGED drain
          ELSE drain' = Frame(missing \/ conflict) /\ drain' # drain /\ OutsideJournal
       /\ UNCHANGED <<command, decision, gone, early>>

\* handoff opens the spool, reads the drain back, then appends the ARCHIVE.
Handoff ==
    /\ Opens /\ fence.frozen /\ ~fence.error /\ ~fence.archive /\ drain.state = "COMPLETE"
    /\ command' = [NoCommand EXCEPT !.name = "handoff"]
    /\ OutsideJournal /\ UNCHANGED <<drain, decision, gone, early>>

Archive ==
    /\ command.name = "handoff" /\ command' = NoCommand
    /\ \/ ByCommand([kind |-> "ARCHIVE"])
       \/ ~Legal(fence, [kind |-> "ARCHIVE"]) /\ Raises(0)
    /\ UNCHANGED <<drain, decision, gone, early>>

\* The turn of a command with the database reader: freeze once the receipt is
\* there, drain once the population is frozen, handoff once the drain, which it
\* steps first, is complete.
Due(name) ==
    CASE name = "freeze" -> fence.receipt
      [] name = "drain" -> fence.frozen
      [] name = "handoff" -> fence.frozen /\ drain.state \notin {"DRAINING", "FAILED"}

\* An operator whose command comes before its turn: it raises, and operate
\* denies the generation as for any other exception.
OutOfTurn(name) ==
    /\ Opens /\ ~Due(name) /\ Raises(0)
    /\ early' = TRUE /\ UNCHANGED <<command, drain, decision, gone>>

\* A reader command that finds a failure in the journal or loses its database;
\* and a command that dies half way.
CommandRaises == /\ Opens /\ Raises(IF fence.error THEN 0 ELSE 1)
                 /\ UNCHANGED captureVars

CommandDies ==
    /\ command # NoCommand /\ command' = NoCommand
    /\ Dies
    /\ UNCHANGED <<clock, ingested, fence, latched, unstored, proc, session, db>>
    /\ UNCHANGED <<drain, decision, gone, early>>

-----------------------------------------------------------------------------
(* The source's decisions about its trades, and hands on the database. *)

\* The bot's cycles come to every trade.  They decide one of an approved wallet,
\* made and stored since its approval; about any other there is no signal, now
\* or later, since an approval only moves forward (detect_signals).  The freeze
\* does not ask which.  A decision made before it is one that no command has
\* read yet.
Decide(r) ==
    /\ r \in fence.facts \ gone /\ decision[r] = "PENDING"
    /\ \E d \in {"original", "uncopied"} : decision' = [decision EXCEPT ![r] = d]
    /\ OutsideJournal /\ UNCHANGED <<command, drain, gone, early>>

Tamper(r) ==
    /\ r \in CommittedRows \ gone
    /\ Spend(1)
    /\ \/ gone' = gone \union {r} /\ UNCHANGED decision
       \/ /\ decision[r] = "original"
          /\ \E d \in {"changed", "deleted"} : decision' = [decision EXCEPT ![r] = d]
          /\ UNCHANGED gone
    /\ UNCHANGED <<clock, ingested, fence, latched, unstored, proc, session, db>>
    /\ UNCHANGED <<command, drain, early>>

-----------------------------------------------------------------------------
Worker(w) == Start(w) \/ StartMisconfigured(w) \/ StartDuplicate(w) \/ Control(w) \/ Crash(w)

Operator ==
    \/ Close \/ Complete \/ Freeze \/ Frozen \/ DrainStep \/ Handoff \/ Archive
    \/ \E name \in {"freeze", "drain", "handoff"} : OutOfTurn(name)
    \/ CommandRaises \/ CommandDies

Next ==
    \/ \E w \in Workers : Worker(w)
    \/ \E s \in Sessions : Observer(s)
    \/ \E t \in Tx : Decided(t) \/ Recover(t)
    \/ \E r \in Trades : Decide(r) \/ Tamper(r)
    \/ Operator \/ Tick

Spec == Init /\ [][Next]_vars

\* Running processes go on and dead ones are started again; the operator goes
\* on with every command that is due, once a generation is closed; the bot's
\* cycles come to each frozen trade, but need not decide it.
FairSpec ==
    /\ Spec
    /\ \A w \in Workers : WF_vars(Start(w)) /\ WF_vars(Control(w))
    /\ \A s \in Sessions : WF_vars(SessionEnds(s) /\ UNCHANGED captureVars)
    /\ \A t \in Tx : WF_vars(Decided(t)) /\ WF_vars(Recover(t))
    /\ \A r \in Trades : WF_vars(Decide(r))
    /\ WF_vars(Complete) /\ WF_vars(DrainStep)
    /\ WF_vars(Freeze \/ Frozen) /\ WF_vars(Handoff \/ Archive)

-----------------------------------------------------------------------------
TypeOK ==
    /\ clock \in {"pre", "in", "post"}
    /\ ingested \in [Trades -> {"none", "in", "post"}]
    /\ fence \in Journals
    /\ latched \in BOOLEAN /\ unstored \in BOOLEAN
    /\ proc \in [Workers -> [up : BOOLEAN, retired : BOOLEAN, localError : BOOLEAN]]
    /\ session \in [Sessions -> [phase : {"idle", "flush", "commit"}, tx : Tx \union {NoTx},
                                 token : Tx \union {NoTx}, facts : SUBSET Trades]]
    /\ db \in [Tx -> [status : {"none", "open", "inflight", "committed", "aborted"},
                      rows : SUBSET Trades, witnessed : BOOLEAN, witness : SUBSET Trades]]
    /\ faults \in 0..MaxMishaps /\ crashes \in 0..MaxMishaps
    /\ command \in [name : {"none", "freeze", "handoff"}, rows : SUBSET Trades]
    /\ drain \in [state : {"NOT_STARTED", "DRAINING", "COMPLETE", "FAILED"},
                  perId : [Trades -> {"PENDING", "original", "changed"}]]
    /\ decision \in [Trades -> Decisions]
    /\ gone \subseteq Trades /\ early \in BOOLEAN

\* A resolution in the journal is what the database did: ROLLED_BACK is never
\* concluded from an error answer to a COMMIT, from a missing witness or from a
\* dead process; COMMITTED comes with exactly the rows that the transaction
\* kept, those of undone SAVEPOINTs left out (after_soft_rollback, recover).
ResolutionIsProof ==
    \A t \in Tx :
        /\ t \in In(fence, "ROLLED_BACK") => Status(t) = "aborted"
        /\ t \in In(fence, "COMMITTED") =>
               Status(t) = "committed" /\ fence.attempts[t].facts = Rows(t)

\* Transactions that the journal admitted, or that no failure without a trace
\* kept from it.
Accounted(t) == fence.attempts[t] # NoAttempt \/ ~unstored

\* Once the receipt of the closed generation exists, no transaction that has
\* inserted a trade of the window can still commit it: not one that was open
\* when the epoch closed, nor one whose COMMIT got no answer, nor one of a
\* process that had stopped observing (complete, control).
FenceCutsEpoch ==
    fence.receipt =>
        \A t \in Tx : Accounted(t) /\ InWindow(Rows(t)) # {} =>
                        Status(t) \in {"committed", "aborted"}

\* The sealed population is the trades of the window that the database has
\* committed, those committed after the seal included: nothing missing, whatever
\* crashed, failed to be observed or got no answer, and nothing made up.
SealedPopulationExact ==
    fence.archive =>
        /\ fence.facts \subseteq InWindow(CommittedRows)
        /\ \A t \in CommittedTx : Accounted(t) => InWindow(Rows(t)) \subseteq fence.facts

\* A generation is sealed only with a decision for every frozen trade, and with
\* a drain that has never failed (write_seal_journals).
SealedDecisions ==
    fence.archive => /\ drain.state = "COMPLETE"
                     /\ \A r \in fence.facts : Recorded(r)

\* A decision that a drain frame has recorded is never replaced or dropped in a
\* later one, even if the database changes it (FrozenDrain.step).
RecordedDecisionsStand ==
    [][\A r \in Trades : Recorded(r) => drain'.perId[r] = drain.perId[r]]_vars

\* Observation does not fail by itself: the first denial of a generation, in the
\* journal or beside it, comes after a fault, with a writer missing from the
\* roster, or by a freeze, drain or handoff that the operator gives before its
\* turn.  Without these no order in which the writers, the database, and the
\* commands in their turn take their steps denies it.
DenialNeedsCause ==
    [][~(fence.error \/ latched) /\ (fence.error \/ latched)'
           => faults' > 0 \/ fence.workers # Workers \/ early']_vars

\* What the generation promises for admitted transactions (CaptureEpoch).
Epoch == INSTANCE CaptureEpoch WITH
    phase <- IF fence.archive THEN "sealed" ELSE IF fence.frozen THEN "frozen"
             ELSE IF fence.receipt THEN "fenced" ELSE "recording",
    committed <- InWindow(UNION {Rows(t) : t \in {u \in CommittedTx :
                                                  fence.attempts[u] # NoAttempt}}),
    population <- fence.facts,
    failed <- fence.error
EpochSpec == Epoch!Spec

\* A transaction that ended where nobody can prove how: no answer and no
\* witness; it stays outstanding for ever.
Unprovable(t) ==
    /\ t \in In(fence, "OUTSTANDING") /\ \A s \in Sessions : session[s].tx # t
    /\ Status(t) = "aborted" \/ (Status(t) = "committed" /\ ~db[t].witnessed)

\* A closed generation is sealed in the end, or it is denied, or a writer is
\* missing or blind, or a transaction ended without proof, or a hand changed the
\* database, or a frozen trade is one that the bot does not copy, for which the
\* drain waits for ever without a denial: it knows no end without a decision.
\* With those apart, no writer and no command waits for another for ever.
EpochSealed ==
    fence.closed ~>
        \/ fence.archive \/ fence.error \/ latched
        \/ fence.workers # Workers
        \/ \E w \in Workers : proc[w].retired /\ w \notin fence.acks
        \/ \E t \in Tx : Unprovable(t)
        \/ \E r \in fence.facts :
               r \in gone \/ decision[r] \in {"changed", "deleted", "uncopied"}
=============================================================================
