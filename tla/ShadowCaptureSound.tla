--------------------------- MODULE ShadowCaptureSound ---------------------------
(***************************************************************************)
(* The inductive invariant of the shadow capture, for any roster, any      *)
(* sessions, transactions and trades and any number of mishaps.  Sound     *)
(* says that the journal's stages follow each other, that each session     *)
(* has its transaction to itself, that a witness is exact, that whoever    *)
(* is blind was denied, and that what a stage has settled stays settled.   *)
(* The properties that follow from it are in ShadowCaptureProofs.          *)
(***************************************************************************)
EXTENDS ShadowCapture, TLAPS

\* The journal's stages follow each other, the epoch after the window.
JournalOrder ==
    /\ fence.epoch = 1 <=> fence.closed
    /\ \A t \in Tx : fence.attempts[t] # NoAttempt =>
                      fence.armed /\ (fence.attempts[t].epoch = 1 => fence.closed)
    /\ fence.closed => fence.armed /\ clock = "post"
    /\ fence.receipt => fence.closed /\ Outstanding(fence) = {}
    /\ fence.frozen => fence.receipt
    /\ fence.archive => fence.frozen
    /\ ~fence.frozen => fence.facts = {}
    /\ ~fence.armed => fence.workers = {}

\* Rows belong to transactions that have begun and carry the time of their insert.
RowsIngested ==
    \A t \in Tx :
        /\ \A r \in Rows(t) : ingested[r] # "none"
        /\ Status(t) = "none" => Rows(t) = {} /\ fence.attempts[t] = NoAttempt

\* A witness names the rows of its transaction, which are no more after it.
WitnessExact ==
    \A t \in Tx : db[t].witnessed =>
        db[t].witness = Rows(t) /\ Status(t) \notin {"none", "open"}

\* Transactions admitted after the close have no row of the window.
LateAdmissions ==
    \A t \in Tx : fence.attempts[t] # NoAttempt /\ fence.attempts[t].epoch = 1 =>
                      \A r \in Rows(t) : ingested[r] = "post"

\* A failure is in the journal, in the latch, or nowhere.
Denied == fence.error \/ latched \/ unstored
NeverArmed == ~fence.armed /\ clock # "pre"

\* A session has admitted its transaction if it observes, or that failed and was
\* denied; and it knows the rows, if nothing failed since.
SessionSound(s) ==
    /\ session[s].tx = NoTx => session[s] = Idle
    /\ session[s].token # NoTx =>
           Denied \/ fence.attempts[session[s].token].state = "OUTSTANDING"
    /\ session[s].tx # NoTx =>
           /\ Status(session[s].tx) = IF session[s].phase = "commit" THEN "inflight" ELSE "open"
           /\ proc[Process[s]].up /\ clock # "pre"
           /\ session[s].token \in {NoTx, session[s].tx}
           /\ Observing(s) =>
                  /\ session[s].token = session[s].tx
                  /\ ~proc[Process[s]].localError => session[s].facts = Rows(session[s].tx)

\* No two sessions have one transaction.
SessionsApart ==
    \A q, s \in Sessions : session[q].tx = session[s].tx /\ session[s].tx # NoTx => q = s

\* A process that has stopped observing, or that failed, was denied.
BlindDenied ==
    \A w \in Workers : /\ proc[w].retired => Denied \/ fence.archive \/ NeverArmed
                       /\ proc[w].localError => Denied

\* Whoever has a row of the window was admitted, or the generation cannot be fenced.
AdmittedOrDenied ==
    \A t \in Tx : fence.attempts[t] = NoAttempt /\ InWindow(Rows(t)) # {} =>
                      unstored \/ (~fence.receipt /\ (Denied \/ NeverArmed))

\* What was frozen stays the population of the journal.
PopulationStands == fence.frozen => fence.facts = CommittedPopulation(fence)

\* A complete drain has recorded every frozen trade; only a complete one is sealed.
DrainRecords ==
    /\ drain.state = "COMPLETE" => fence.frozen /\ \A r \in fence.facts : Recorded(r)
    /\ command.name = "handoff" \/ fence.archive => drain.state = "COMPLETE"

\* Without a fault nothing is lost, and the snapshot of a freeze is the population.
Faultless ==
    /\ unstored \/ gone # {} => faults > 0
    /\ command.name = "freeze" =>
           /\ fence.receipt /\ ~fence.frozen
           /\ faults > 0 \/ command.rows = CommittedPopulation(fence)

\* What the journal and the database hold; what the processes know; what the
\* operator's commands have read.
Stands == /\ JournalOrder /\ RowsIngested /\ WitnessExact /\ LateAdmissions
           /\ ResolutionIsProof /\ AdmittedOrDenied /\ PopulationStands
Observers == (\A s \in Sessions : SessionSound(s)) /\ SessionsApart /\ BlindDenied
Commands == DrainRecords /\ Faultless

Sound == TypeOK /\ Stands /\ Observers /\ Commands

-----------------------------------------------------------------------------
(* The state as the proofs take it apart. *)

Admitted == [worker : Workers, epoch : {0, 1}, facts : SUBSET Trades,
             state : {"OUTSTANDING", "COMMITTED", "ROLLED_BACK"}]
Attempts == {NoAttempt} \union Admitted

\* The fields of a journal.
LEMMA JournalFields ==
    Journals = [armed : BOOLEAN, epoch : {0, 1}, closed : BOOLEAN, workers : SUBSET Workers,
                acks : SUBSET Workers, attempts : [Tx -> Attempts], error : BOOLEAN,
                receipt : BOOLEAN, frozen : BOOLEAN, facts : SUBSET Trades, archive : BOOLEAN]
  BY DEF Journals, Attempts, Admitted

\* An attempt that is not there has the state NONE, and only that one.
LEMMA AttemptCases ==
    ASSUME NEW f \in Journals, NEW t \in Tx
    PROVE  /\ f.attempts[t] # NoAttempt => f.attempts[t] \in Admitted
           /\ f.attempts[t].state = "NONE" <=> f.attempts[t] = NoAttempt
           /\ f.attempts[t].state \in {"NONE", "OUTSTANDING", "COMMITTED", "ROLLED_BACK"}
  BY JournalFields DEF Attempts, Admitted, NoAttempt

\* All of a journal but its arming, its roster, its acknowledgements and its failures.
SameLedger(f, g) ==
    /\ g.attempts = f.attempts /\ g.epoch = f.epoch /\ g.closed = f.closed
    /\ g.receipt = f.receipt /\ g.frozen = f.frozen /\ g.facts = f.facts
    /\ g.archive = f.archive

\* A failure leaves the ledger alone, as do the three records after it.
LEMMA ErrorApplied ==
    ASSUME NEW f \in Journals, NEW g, g = Apply(f, [kind |-> "ERROR"])
    PROVE  /\ g \in Journals /\ SameLedger(f, g)
           /\ g.error /\ g.armed = f.armed /\ g.workers = f.workers
  <1>1. g = [f EXCEPT !.error = TRUE]
    BY DEF Apply
  <1>2. g \in Journals
    BY <1>1, JournalFields
  <1> QED
    BY <1>1, <1>2, JournalFields DEF SameLedger

\* The arming, which is only recorded.
LEMMA ArmApplied ==
    ASSUME NEW f \in Journals, NEW g, g = Apply(f, [kind |-> "ARM"])
    PROVE  /\ g \in Journals /\ SameLedger(f, g)
           /\ g.armed /\ g.error = f.error /\ g.workers = f.workers
  <1>1. g = [f EXCEPT !.armed = TRUE]
    BY DEF Apply
  <1>2. g \in Journals
    BY <1>1, JournalFields
  <1> QED
    BY <1>1, <1>2, JournalFields DEF SameLedger

\* An enrolment, which adds the worker to the roster.
LEMMA EnrolApplied ==
    ASSUME NEW f \in Journals, NEW w \in Workers, NEW g, g = Apply(f, Enrolment(w))
    PROVE  /\ g \in Journals /\ SameLedger(f, g)
           /\ g.armed = f.armed /\ g.error = f.error /\ g.workers = f.workers \union {w}
  <1>1. g = [f EXCEPT !.workers = @ \union {w}]
    BY DEF Apply, Enrolment
  <1>2. f.workers \union {w} \in SUBSET Workers
    BY JournalFields
  <1>3. g \in Journals
    BY <1>1, <1>2, JournalFields
  <1> QED
    BY <1>1, <1>3, JournalFields DEF SameLedger

\* An acknowledgement, which no ledger entry hears of.
LEMMA AckApplied ==
    ASSUME NEW f \in Journals, NEW w \in Workers, NEW g,
           g = Apply(f, [kind |-> "ACK", worker |-> w])
    PROVE  /\ g \in Journals /\ SameLedger(f, g)
           /\ g.armed = f.armed /\ g.error = f.error /\ g.workers = f.workers
  <1>1. g = [f EXCEPT !.acks = @ \union {w}]
    BY DEF Apply
  <1>2. f.acks \union {w} \in SUBSET Workers
    BY JournalFields
  <1>3. g \in Journals
    BY <1>1, <1>2, JournalFields
  <1> QED
    BY <1>1, <1>3, JournalFields DEF SameLedger

\* The initial state is sound.
LEMMA InitSound ==
    ASSUME Init
    PROVE  Sound
  <1>1. TypeOK
    <2> USE DEF Init, Blank, NewTx, Idle, Down, NoCommand, NoFrame
    <2>1. fence \in Journals
      BY DEF Journals
    <2>2. /\ clock \in {"pre", "in", "post"} /\ ingested \in [Trades -> {"none", "in", "post"}]
          /\ latched \in BOOLEAN /\ unstored \in BOOLEAN
          /\ decision \in [Trades -> Decisions] /\ gone \subseteq Trades /\ early \in BOOLEAN
      BY DEF Decisions
    <2>7. faults \in 0..MaxMishaps /\ crashes \in 0..MaxMishaps
      BY ObserverAssumption
    <2>3. /\ proc \in [Workers -> [up : BOOLEAN, retired : BOOLEAN, localError : BOOLEAN]]
          /\ command \in [name : {"none", "freeze", "handoff"}, rows : SUBSET Trades]
      OBVIOUS
    <2>4. session \in [Sessions -> [phase : {"idle", "flush", "commit"}, tx : Tx \union {NoTx},
                                    token : Tx \union {NoTx}, facts : SUBSET Trades]]
      OBVIOUS
    <2>5. db \in [Tx -> [status : {"none", "open", "inflight", "committed", "aborted"},
                         rows : SUBSET Trades, witnessed : BOOLEAN, witness : SUBSET Trades]]
      OBVIOUS
    <2>6. drain \in [state : {"NOT_STARTED", "DRAINING", "COMPLETE", "FAILED"},
                     perId : [Trades -> {"PENDING", "original", "changed"}]]
      OBVIOUS
    <2> HIDE DEF Init
    <2> QED
      BY <2>1, <2>2, <2>3, <2>4, <2>5, <2>6, <2>7 DEF TypeOK
  <1> USE ObserverAssumption, FenceAssumption
      DEF Init, Blank, NewTx, Idle, Down, NoCommand, NoFrame, Status, Rows
  <1>2. JournalOrder /\ RowsIngested /\ WitnessExact
    BY DEF JournalOrder, RowsIngested, WitnessExact, Outstanding, In
  <1>3. LateAdmissions /\ ResolutionIsProof /\ AdmittedOrDenied
    BY DEF LateAdmissions, ResolutionIsProof, AdmittedOrDenied, In, NoAttempt, InWindow
  <1>5. (\A s \in Sessions : SessionSound(s)) /\ SessionsApart /\ BlindDenied
    BY DEF SessionSound, SessionsApart, BlindDenied
  <1>4. PopulationStands /\ DrainRecords /\ Faultless
    BY DEF PopulationStands, DrainRecords, Faultless
  <1> HIDE DEF Init
  <1> QED
    BY <1>1, <1>2, <1>3, <1>4, <1>5 DEF Sound, Stands, Observers, Commands
-----------------------------------------------------------------------------
(* Steps that leave the rows and the stages of the journal alone. *)

Lasting ==
    /\ SameLedger(fence, fence')
    /\ (fence.error => fence'.error) /\ (latched => latched') /\ (unstored => unstored')
    /\ (fence.armed => fence'.armed) /\ (~fence'.armed => fence'.workers = {})
    /\ fence'.armed /\ ~fence.armed => clock = "pre"
    /\ clock' = clock \/ clock = "pre" \/ clock' = "post"
    /\ clock' = "pre" => clock = "pre"
Calm == UNCHANGED ingested /\ Lasting

\* Of the transactions they only move those that are open or about to be.
RowsKept ==
    \A t \in Tx : /\ Rows(t)' = Rows(t)
                  /\ Status(t) \in {"committed", "aborted"} => Status(t)' = Status(t)
                  /\ Status(t)' = "none" => Status(t) = "none"

\* They leave what the journal and the database hold.
LEMMA CalmStands ==
    ASSUME TypeOK, Stands, Calm, RowsKept, WitnessExact'
    PROVE  Stands'
  <1> USE DEF Stands, Calm, Lasting, SameLedger, RowsKept
  <1>1. JournalOrder'
    BY DEF JournalOrder, Outstanding, In
  <1>2. RowsIngested' /\ LateAdmissions'
    BY DEF RowsIngested, LateAdmissions
  <1>3. ResolutionIsProof'
    BY DEF ResolutionIsProof, In
  <1>4. AdmittedOrDenied'
    BY DEF AdmittedOrDenied, Denied, NeverArmed, InWindow, TypeOK
  <1>5. PopulationStands'
    BY DEF PopulationStands, CommittedPopulation, InWindow, In
  <1> QED
    BY <1>1, <1>2, <1>3, <1>4, <1>5

\* A process that runs only ever retires or fails, and is denied when it does.
Retiring ==
    \A w \in Workers :
        /\ proc[w].up => /\ proc'[w].up
                         /\ proc[w].retired => proc'[w].retired
                         /\ proc[w].localError => proc'[w].localError
        /\ proc'[w].retired => \/ proc[w].retired \/ Denied'
                               \/ fence.archive \/ NeverArmed'
        /\ proc'[w].localError => proc[w].localError \/ Denied'

\* They leave the processes denied.
LEMMA LastingBlind ==
    ASSUME BlindDenied, Lasting, Retiring
    PROVE  BlindDenied'
  BY DEF BlindDenied, Lasting, Retiring, SameLedger, Denied, NeverArmed

\* What happens beside a session, to other sessions and their transactions.
Beside(s) ==
    /\ session'[s] = session[s]
    /\ session[s].tx # NoTx => db'[session[s].tx] = db[session[s].tx]
    /\ session[s].token # NoTx /\ fence.attempts[session[s].token].state = "OUTSTANDING" =>
           fence'.attempts[session[s].token].state = "OUTSTANDING"
    /\ LET w == Process[s]
       IN proc[w].up => /\ proc'[w].up
                        /\ proc[w].retired => proc'[w].retired
                        /\ proc[w].localError => proc'[w].localError
    /\ (Denied => Denied') /\ (fence.archive => fence'.archive)
    /\ clock' = "pre" => clock = "pre"

\* A session is as sound after what happens beside it as before.
LEMMA SessionBeside ==
    ASSUME NEW s \in Sessions, SessionSound(s), Beside(s)
    PROVE  SessionSound(s)'
  <1>1. session[s].tx # NoTx => (Observing(s)' => Observing(s))
    BY DEF SessionSound, Beside, Observing
  <1> QED
    BY <1>1 DEF SessionSound, Beside, Status, Rows, Denied

\* The same steps, when no transaction moves either.
Steady == Calm /\ UNCHANGED db

\* They leave what the journal and the database hold.
LEMMA SteadyStands ==
    ASSUME TypeOK, Stands, Steady
    PROVE  Stands'
  <1>1. RowsKept /\ WitnessExact'
    BY DEF Steady, RowsKept, Stands, WitnessExact, Rows, Status
  <1> QED
    BY <1>1, CalmStands DEF Steady

\* What is lost, or deleted, takes a fault.
Costs ==
    /\ faults' >= faults
    /\ (unstored' => unstored \/ faults' > 0) /\ (gone' # {} => gone # {} \/ faults' > 0)

\* Steady steps leave the sessions and what the processes know.
LEMMA SteadyObservers ==
    ASSUME TypeOK, Observers, Steady, UNCHANGED session, Retiring
    PROVE  Observers'
  <1>1. BlindDenied'
    BY LastingBlind DEF Observers, Steady, Calm
  <1>2. SessionsApart'
    BY DEF Observers, SessionsApart
  <1>3. ASSUME NEW s \in Sessions
        PROVE  SessionSound(s)'
    <2>1. Process[s] \in Workers
      BY ObserverAssumption
    <2>2. Beside(s)
      BY <2>1 DEF Beside, Steady, Calm, Lasting, SameLedger, Retiring, Denied
    <2> QED
      BY <2>2, SessionBeside DEF Observers
  <1> QED
    BY <1>1, <1>2, <1>3 DEF Observers

\* They leave what the commands have read.
LEMMA CalmCommands ==
    ASSUME TypeOK, TypeOK', Commands, Calm, UNCHANGED <<command, drain>>, Costs
    PROVE  Commands'
  <1> USE DEF Commands, Calm, Lasting, SameLedger, Costs
  <1>1. DrainRecords'
    BY DEF DrainRecords, Recorded
  <1>2. CommittedPopulation(fence)' = CommittedPopulation(fence)
    BY DEF CommittedPopulation, InWindow, In
  <1>3. faults \in Nat /\ faults' \in Nat
    BY DEF TypeOK
  <1>4. Faultless'
    BY <1>2, <1>3 DEF Faultless
  <1> QED
    BY <1>1, <1>4

\* A steady step keeps the invariant when the processes only retire or fail and what
\* the commands have read is either untouched or shown apart.
LEMMA SteadySound ==
    ASSUME Sound, TypeOK', Steady, UNCHANGED session, Retiring,
           Commands' \/ (UNCHANGED <<command, drain>> /\ Costs)
    PROVE  Sound'
  BY SteadyStands, SteadyObservers, CalmCommands DEF Sound, Steady

\* What a denial leaves: the ledger as it was, and a trace unless it came after
\* the end or was lost; nothing but a signed report of no fault is free of one.
LEMMA Denial ==
    ASSUME TypeOK, NEW how \in Denials, NEW cost \in {0, 1}, Invalidate(how, cost)
    PROVE  /\ fence' \in Journals /\ latched' \in BOOLEAN /\ unstored' \in BOOLEAN
           /\ faults' \in 0..MaxMishaps /\ crashes' \in 0..MaxMishaps /\ faults' >= faults
           /\ SameLedger(fence, fence')
           /\ UNCHANGED <<fence.armed, fence.workers>>
           /\ (fence.error => fence'.error) /\ (latched => latched')
           /\ (unstored => unstored')
           /\ Denied' \/ fence.archive
           /\ SetsLocalError(how) => Denied'
           /\ unstored' => unstored \/ faults' > 0
           /\ cost = 1 \/ how # "signed" => faults' > 0
  <1>1. \/ fence' = fence
        \/ ~fence.archive /\ fence' = Apply(fence, [kind |-> "ERROR"])
    BY DEF Invalidate
  <1>2. /\ fence' \in Journals /\ SameLedger(fence, fence')
        /\ UNCHANGED <<fence.armed, fence.workers>> /\ (fence.error => fence'.error)
    BY <1>1, ErrorApplied DEF TypeOK, SameLedger
  <1>3. /\ latched' \in BOOLEAN /\ unstored' \in BOOLEAN
        /\ (latched => latched') /\ (unstored => unstored')
    BY DEF TypeOK, Invalidate
  <1>4. /\ faults' \in 0..MaxMishaps /\ crashes' \in 0..MaxMishaps /\ faults' >= faults
        /\ cost = 1 \/ how # "signed" => faults' > 0
    BY ObserverAssumption DEF TypeOK, Invalidate, Spend
  <1>5. unstored' => unstored \/ faults' > 0
    BY <1>4 DEF Invalidate
  <1>6. (Denied' \/ fence.archive) /\ (SetsLocalError(how) => Denied')
    <2>1. how \in {"signed", "unlatched"} /\ ~fence.archive => fence'.error
      BY ErrorApplied DEF Invalidate, TypeOK
    <2> QED
      BY <2>1 DEF Invalidate, Denials, Denied, SetsLocalError
  <1> QED
    BY <1>2, <1>3, <1>4, <1>5, <1>6

\* A failure that a process reports of itself, too.
LEMMA Failure ==
    ASSUME TypeOK, NEW w \in Workers, NEW cost \in {0, 1}, Fails(w, cost)
    PROVE  /\ fence' \in Journals /\ latched' \in BOOLEAN /\ unstored' \in BOOLEAN
           /\ faults' \in 0..MaxMishaps /\ crashes' \in 0..MaxMishaps /\ faults' >= faults
           /\ proc' \in [Workers -> [up : BOOLEAN, retired : BOOLEAN, localError : BOOLEAN]]
           /\ SameLedger(fence, fence') /\ UNCHANGED <<fence.armed, fence.workers>>
           /\ (fence.error => fence'.error) /\ (latched => latched')
           /\ (unstored => unstored')
           /\ unstored' => unstored \/ faults' > 0
           /\ Retiring /\ \A v \in Workers : proc'[v].up = proc[v].up
           /\ ~fence.archive => proc'[w].localError /\ Denied'
  <1>1. PICK how \in Denials :
            /\ Invalidate(how, cost)
            /\ proc' = [proc EXCEPT ![w].localError = @ \/ SetsLocalError(how)]
    BY DEF Fails
  <1>2. /\ proc' \in [Workers -> [up : BOOLEAN, retired : BOOLEAN, localError : BOOLEAN]]
        /\ \A v \in Workers : proc'[v].up = proc[v].up /\ proc'[v].retired = proc[v].retired
        /\ proc'[w].localError = (proc[w].localError \/ SetsLocalError(how))
        /\ \A v \in Workers \ {w} : proc'[v] = proc[v]
    <2>1. SetsLocalError(how) \in BOOLEAN
      BY DEF SetsLocalError
    <2> QED
      BY <1>1, <2>1 DEF TypeOK
  <1>3. Retiring
    BY <1>1, <1>2, Denial DEF Retiring
  <1>4. ~fence.archive => proc'[w].localError /\ Denied'
    BY <1>1, <1>2, Denial DEF SetsLocalError
  <1> QED
    BY <1>1, <1>2, <1>3, <1>4, Denial

-----------------------------------------------------------------------------
(* The steps of the writer processes. *)

\* The start of a process: refused, observed, or denied on the way.
LEMMA StartKeepsSound ==
    ASSUME Sound, NEW w \in Workers, Start(w)
    PROVE  Sound'
  <1>s. TypeOK /\ Stands /\ Observers /\ Commands /\ JournalOrder
    BY DEF Sound, Stands
  <1>d. ~proc[w].up /\ UNCHANGED <<clock, ingested, session, db, captureVars>>
    BY DEF Start
  <1> USE <1>d DEF captureVars
  <1>a. SUFFICES ASSUME NEW how \in {Plain, Observed}, proc' = [proc EXCEPT ![w] = how],
                        how = Plain => Denied' \/ fence.archive \/ NeverArmed',
                        Steady, fence' \in Journals,
                        latched' \in BOOLEAN, unstored' \in BOOLEAN,
                        faults' \in 0..MaxMishaps, crashes' \in 0..MaxMishaps,
                        faults' >= faults, unstored' => unstored \/ faults' > 0
                 PROVE  Sound'
    <2>1. CASE StartRefused(w)
      <3>1. /\ proc' = [proc EXCEPT ![w] = Plain] /\ (Denied \/ NeverArmed)
            /\ UNCHANGED <<fence, latched, unstored, faults, crashes>>
        BY <2>1 DEF StartRefused, Denied, NeverArmed
      <3>2. Steady
        BY <1>s, <3>1 DEF Steady, Calm, Lasting, SameLedger, JournalOrder
      <3>3. Denied' \/ NeverArmed'
        BY <3>1 DEF Denied, NeverArmed
      <3>4. /\ fence' \in Journals /\ latched' \in BOOLEAN /\ unstored' \in BOOLEAN
            /\ faults' \in 0..MaxMishaps /\ crashes' \in 0..MaxMishaps
            /\ faults' >= faults /\ (unstored' => unstored)
        BY <1>s, <3>1 DEF TypeOK
      <3> QED
        BY <1>a, <3>1, <3>2, <3>3, <3>4
    <2>2. CASE StartObserved(w)
      <3> DEFINE armed == IF fence.armed THEN fence ELSE Apply(fence, [kind |-> "ARM"])
      <3>1. /\ ~latched /\ (fence.armed \/ clock = "pre")
            /\ \/ /\ proc' = [proc EXCEPT ![w] = Observed]
                  /\ fence' = IF w \in armed.workers THEN fence
                              ELSE Apply(armed, Enrolment(w))
                  /\ UNCHANGED <<latched, unstored, faults, crashes>>
               \/ /\ proc' = [proc EXCEPT ![w] = Plain]
                  /\ \E how \in Denials : Invalidate(how, 0)
        BY <2>2 DEF StartObserved
      <3>2. /\ armed \in Journals /\ SameLedger(fence, armed) /\ armed.armed
            /\ armed.error = fence.error /\ armed.workers = fence.workers
        BY <1>s, ArmApplied DEF TypeOK, SameLedger
      <3> HIDE DEF armed
      <3>3. CASE /\ proc' = [proc EXCEPT ![w] = Observed]
                 /\ fence' = IF w \in armed.workers THEN fence
                             ELSE Apply(armed, Enrolment(w))
                 /\ UNCHANGED <<latched, unstored, faults, crashes>>
        <4>1. /\ fence' \in Journals /\ SameLedger(fence, fence')
              /\ fence'.armed /\ fence'.error = fence.error
          <5>1. CASE w \in fence.workers
            BY <1>s, <3>2, <3>3, <5>1 DEF TypeOK, SameLedger, JournalOrder
          <5>2. CASE w \notin fence.workers
            BY <3>2, <3>3, <5>2, EnrolApplied DEF SameLedger
          <5> QED
            BY <5>1, <5>2
        <4>2. Steady
          BY <3>1, <3>3, <4>1 DEF Steady, Calm, Lasting
        <4> QED
          BY <1>s, <1>a, <3>3, <4>1, <4>2 DEF TypeOK, Plain, Observed
      <3>4. CASE /\ proc' = [proc EXCEPT ![w] = Plain]
                 /\ \E how \in Denials : Invalidate(how, 0)
        <4>1. PICK how \in Denials : Invalidate(how, 0)
          BY <3>4
        <4>2. Steady
          BY <1>s, <4>1, Denial DEF Steady, Calm, Lasting, JournalOrder, TypeOK
        <4> QED
          BY <1>s, <1>a, <3>4, <4>1, <4>2, Denial
      <3> QED
        BY <3>1, <3>3, <3>4
    <2> QED
      BY <2>1, <2>2 DEF Start
  <1>1. TypeOK'
    <2>1. /\ Plain \in [up : BOOLEAN, retired : BOOLEAN, localError : BOOLEAN]
          /\ Observed \in [up : BOOLEAN, retired : BOOLEAN, localError : BOOLEAN]
      BY DEF Plain, Observed
    <2>2. proc' \in [Workers -> [up : BOOLEAN, retired : BOOLEAN, localError : BOOLEAN]]
      BY <1>s, <1>a, <2>1 DEF TypeOK
    <2> QED
      BY <1>s, <1>a, <2>2 DEF TypeOK
  <1>2. Retiring
    BY <1>s, <1>a DEF TypeOK, Plain, Observed, Retiring
  <1> QED
    BY <1>a, <1>1, <1>2, SteadySound DEF Costs

\* A misconfigured start denies what it can.
LEMMA MisconfiguredKeepsSound ==
    ASSUME Sound, NEW w \in Workers, StartMisconfigured(w)
    PROVE  Sound'
  <1>s. TypeOK /\ JournalOrder
    BY DEF Sound, Stands
  <1>1. /\ ~proc[w].up /\ proc' = [proc EXCEPT ![w] = Plain]
        /\ (latched => latched') /\ (unstored => unstored')
        /\ latched' \in BOOLEAN /\ unstored' \in BOOLEAN
        /\ latched' \/ unstored' \/ fence.archive
        /\ UNCHANGED <<clock, ingested, fence, session, db, captureVars>>
    BY <1>s DEF StartMisconfigured, TypeOK
  <1>2. /\ faults' \in 0..MaxMishaps /\ crashes' \in 0..MaxMishaps
        /\ faults' >= faults /\ faults' > 0
    BY <1>s, ObserverAssumption DEF StartMisconfigured, Spend, TypeOK
  <1> USE <1>1 DEF captureVars
  <1>3. proc' \in [Workers -> [up : BOOLEAN, retired : BOOLEAN, localError : BOOLEAN]]
    <2>1. Plain \in [up : BOOLEAN, retired : BOOLEAN, localError : BOOLEAN]
      BY DEF Plain
    <2> QED
      BY <1>s, <2>1 DEF TypeOK
  <1>4. TypeOK'
    BY <1>s, <1>2, <1>3 DEF TypeOK
  <1>5. Steady
    BY <1>s DEF Steady, Calm, Lasting, SameLedger, JournalOrder
  <1>6. Retiring
    BY <1>s DEF TypeOK, Plain, Retiring, Denied
  <1> QED
    BY <1>2, <1>4, <1>5, <1>6, SteadySound DEF Costs

\* A second process under the name of a running one denies the generation.
LEMMA DuplicateKeepsSound ==
    ASSUME Sound, NEW w \in Workers, StartDuplicate(w)
    PROVE  Sound'
  <1>s. TypeOK /\ JournalOrder
    BY DEF Sound, Stands
  <1>1. PICK how \in Denials : Invalidate(how, 1)
    BY DEF StartDuplicate
  <1>2. UNCHANGED <<clock, ingested, proc, session, db, captureVars>>
    BY DEF StartDuplicate
  <1> USE <1>2 DEF captureVars
  <1>3. TypeOK'
    BY <1>s, <1>1, Denial DEF TypeOK
  <1>4. Steady
    BY <1>s, <1>1, Denial DEF Steady, Calm, Lasting, JournalOrder
  <1> QED
    BY <1>1, <1>s, <1>3, <1>4, Denial, SteadySound DEF Costs, Retiring

\* The control loop retires a process, or it acknowledges the closed epoch.
LEMMA ControlKeepsSound ==
    ASSUME Sound, NEW w \in Workers, Control(w)
    PROVE  Sound'
  <1>s. TypeOK /\ JournalOrder
    BY DEF Sound, Stands
  <1>u. proc[w].up /\ UNCHANGED <<clock, ingested, session, db, captureVars>>
    BY DEF Control
  <1> USE <1>u DEF captureVars
  <1>p. proc \in [Workers -> [up : BOOLEAN, retired : BOOLEAN, localError : BOOLEAN]]
    BY <1>s DEF TypeOK
  <1>1. ASSUME NEW how \in Denials, Invalidate(how, 0),
               proc' = [proc EXCEPT ![w] =
                           [@ EXCEPT !.retired = TRUE,
                                     !.localError = proc[w].localError \/ SetsLocalError(how)]]
        PROVE  Sound'
    <2>1. /\ proc'[w] = [proc[w] EXCEPT !.retired = TRUE,
                            !.localError = proc[w].localError \/ SetsLocalError(how)]
          /\ \A v \in Workers \ {w} : proc'[v] = proc[v]
          /\ DOMAIN proc' = Workers /\ proc' = [v \in Workers |-> proc'[v]]
      BY <1>p, <1>1
    <2>2. /\ proc' \in [Workers -> [up : BOOLEAN, retired : BOOLEAN, localError : BOOLEAN]]
          /\ proc'[w].up /\ proc'[w].retired
          /\ proc'[w].localError = (proc[w].localError \/ SetsLocalError(how))
      <3>1. SetsLocalError(how) \in BOOLEAN
        BY DEF SetsLocalError
      <3>2. /\ proc'[w] \in [up : BOOLEAN, retired : BOOLEAN, localError : BOOLEAN]
            /\ proc'[w].up /\ proc'[w].retired
            /\ proc'[w].localError = (proc[w].localError \/ SetsLocalError(how))
        BY <1>p, <1>u, <2>1, <3>1
      <3>3. \A v \in Workers :
                proc'[v] \in [up : BOOLEAN, retired : BOOLEAN, localError : BOOLEAN]
        BY <1>p, <2>1, <3>2
      <3> QED
        BY <2>1, <3>2, <3>3
    <2>3. TypeOK'
      BY <1>s, <1>1, <2>2, Denial DEF TypeOK
    <2>4. Steady
      BY <1>s, <1>1, Denial DEF Steady, Calm, Lasting, JournalOrder
    <2>5. Retiring
      BY <1>s, <1>1, <2>1, <2>2, Denial DEF Retiring
    <2> QED
      BY <1>s, <1>1, <2>3, <2>4, <2>5, Denial, SteadySound DEF Costs
  <1>2. CASE /\ fence.archive /\ proc' = [proc EXCEPT ![w].retired = TRUE]
             /\ UNCHANGED <<fence, latched, unstored, faults, crashes>>
    <2>1. proc' \in [Workers -> [up : BOOLEAN, retired : BOOLEAN, localError : BOOLEAN]]
      BY <1>p, <1>2
    <2>2. TypeOK'
      BY <1>s, <1>2, <2>1 DEF TypeOK
    <2>3. Steady
      BY <1>s, <1>2 DEF Steady, Calm, Lasting, SameLedger, JournalOrder
    <2>4. Retiring
      BY <1>s, <1>2 DEF Retiring, TypeOK
    <2>5. Costs
      BY <1>s, <1>2 DEF Costs, TypeOK
    <2> QED
      BY <2>2, <2>3, <2>4, <2>5, SteadySound
  <1>3. CASE Records([kind |-> "ACK", worker |-> w])
    <2>1. /\ fence' = Apply(fence, [kind |-> "ACK", worker |-> w])
          /\ UNCHANGED <<latched, unstored, proc, faults, crashes>>
      BY <1>3 DEF Records, Append
    <2>2. /\ fence' \in Journals /\ SameLedger(fence, fence')
          /\ UNCHANGED <<fence.armed, fence.error, fence.workers>>
      BY <1>s, <2>1, AckApplied DEF TypeOK
    <2>3. TypeOK'
      BY <1>s, <2>1, <2>2 DEF TypeOK
    <2>4. Steady
      BY <1>s, <2>1, <2>2 DEF Steady, Calm, Lasting, JournalOrder
    <2>5. Costs /\ Retiring
      BY <1>s, <2>1 DEF Costs, Retiring, TypeOK
    <2> QED
      BY <2>1, <2>3, <2>4, <2>5, SteadySound
  <1>4. CASE Fails(w, 1)
    <2>1. TypeOK'
      BY <1>s, <1>4, Failure DEF TypeOK
    <2>2. Steady
      BY <1>s, <1>4, Failure DEF Steady, Calm, Lasting, JournalOrder
    <2> QED
      BY <1>s, <1>4, <2>1, <2>2, Failure, SteadySound DEF Costs
  <1> QED
    BY <1>1, <1>2, <1>3, <1>4 DEF Control, Ack
=============================================================================
