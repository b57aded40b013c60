-------------------------- MODULE ShadowCaptureSteps --------------------------
(***************************************************************************)
(* Sound (ShadowCaptureSound) is inductive: the deaths of the processes,   *)
(* the steps of their sessions, of the database and of the operator's      *)
(* commands keep it, and so it holds in every state.                       *)
(***************************************************************************)
EXTENDS ShadowCaptureSound

\* Steps of a session or the database that leave the journal's ledger alone.
LEMMA CalmSound ==
    ASSUME Sound, TypeOK', Observers', Calm, RowsKept, WitnessExact',
           UNCHANGED <<command, drain>>, Costs
    PROVE  Sound'
  BY CalmStands, CalmCommands DEF Sound

\* The death of a process ends its sessions and what they had open.
LEMMA CrashKeepsSound ==
    ASSUME Sound, NEW w \in Workers, Crash(w)
    PROVE  Sound'
  <1>s. TypeOK /\ JournalOrder /\ WitnessExact /\ Observers
    BY DEF Sound, Stands
  <1> DEFINE mine == {s \in Sessions : Process[s] = w}
             open == {session[s].tx : s \in mine} \ {NoTx}
  <1>1. /\ proc' = [proc EXCEPT ![w] = Down]
        /\ session' = [s \in Sessions |-> IF s \in mine THEN Idle ELSE session[s]]
        /\ db' = [t \in Tx |-> IF t \in open /\ Status(t) = "open"
                               THEN [db[t] EXCEPT !.status = "aborted"] ELSE db[t]]
        /\ Dies
        /\ UNCHANGED <<clock, ingested, fence, latched, unstored, captureVars>>
    BY DEF Crash
  <1>2. /\ proc' \in [Workers -> [up : BOOLEAN, retired : BOOLEAN, localError : BOOLEAN]]
        /\ ~proc'[w].retired /\ ~proc'[w].localError
        /\ \A v \in Workers \ {w} : proc'[v] = proc[v]
    <2>1. Down \in [up : BOOLEAN, retired : BOOLEAN, localError : BOOLEAN]
      BY DEF Down
    <2> QED
      BY <1>s, <1>1, <2>1 DEF TypeOK, Down
  <1>3. session' \in [Sessions -> [phase : {"idle", "flush", "commit"}, tx : Tx \union {NoTx},
                                   token : Tx \union {NoTx}, facts : SUBSET Trades]]
    <2>1. Idle \in [phase : {"idle", "flush", "commit"}, tx : Tx \union {NoTx},
                    token : Tx \union {NoTx}, facts : SUBSET Trades]
      BY DEF Idle
    <2> QED
      BY <1>s, <1>1, <2>1 DEF TypeOK
  <1>4. /\ db' \in [Tx -> [status : {"none", "open", "inflight", "committed", "aborted"},
                           rows : SUBSET Trades, witnessed : BOOLEAN, witness : SUBSET Trades]]
        /\ \A t \in Tx : /\ db'[t].rows = db[t].rows /\ db'[t].witnessed = db[t].witnessed
                         /\ db'[t].witness = db[t].witness
                         /\ IF t \in open /\ db[t].status = "open"
                            THEN db'[t].status = "aborted" ELSE db'[t] = db[t]
    <2> HIDE DEF open
    <2>1. db \in [Tx -> [status : {"none", "open", "inflight", "committed", "aborted"},
                        rows : SUBSET Trades, witnessed : BOOLEAN, witness : SUBSET Trades]]
      BY <1>s DEF TypeOK
    <2>2. ASSUME NEW t \in Tx
          PROVE  /\ db'[t] \in [status : {"none", "open", "inflight", "committed", "aborted"},
                               rows : SUBSET Trades, witnessed : BOOLEAN,
                               witness : SUBSET Trades]
                 /\ db'[t].rows = db[t].rows /\ db'[t].witnessed = db[t].witnessed
                 /\ db'[t].witness = db[t].witness
                 /\ IF t \in open /\ db[t].status = "open"
                    THEN db'[t].status = "aborted" ELSE db'[t] = db[t]
      <3>1. db'[t] = IF t \in open /\ Status(t) = "open"
                     THEN [db[t] EXCEPT !.status = "aborted"] ELSE db[t]
        BY <1>1
      <3> QED
        BY <2>1, <3>1 DEF Status
    <2>3. db' = [t \in Tx |-> db'[t]]
      BY <1>1
    <2> QED
      BY <2>2, <2>3
  <1>5. crashes' \in 0..MaxMishaps /\ faults' = faults /\ faults \in 0..MaxMishaps
    BY <1>s, <1>1, ObserverAssumption DEF Dies, TypeOK
  <1> HIDE DEF open
  <1> USE <1>1 DEF captureVars
  <1>6. TypeOK'
    BY <1>s, <1>2, <1>3, <1>4, <1>5 DEF TypeOK
  <1>7. Calm
    BY <1>s DEF Calm, Lasting, SameLedger, JournalOrder
  <1>8. RowsKept /\ WitnessExact'
    BY <1>s, <1>4 DEF RowsKept, WitnessExact, Rows, Status
  <1>9. Observers'
    <2>1. BlindDenied'
      BY <1>s, <1>2 DEF Observers, BlindDenied, Denied, NeverArmed
    <2>2. SessionsApart'
      BY <1>s DEF Observers, SessionsApart, Idle
    <2>3. ASSUME NEW s \in Sessions
          PROVE  SessionSound(s)'
      <3>1. CASE s \in mine
        BY <3>1 DEF SessionSound, Idle, NoTx, Observing
      <3>2. CASE s \notin mine
        <4>1. session'[s] = session[s] /\ Process[s] \in Workers \ {w} /\ SessionSound(s)
          BY <1>s, <3>2, ObserverAssumption DEF Observers
        <4>2. session[s].tx # NoTx => session[s].tx \notin open /\ session[s].tx \in Tx
          BY <1>s, <3>2 DEF Observers, SessionsApart, TypeOK, open
        <4>3. Beside(s)
          BY <1>2, <1>4, <4>1, <4>2 DEF Beside, Denied
        <4> QED
          BY <4>1, <4>3, SessionBeside
      <3> QED
        BY <3>1, <3>2
    <2> QED
      BY <2>1, <2>2, <2>3 DEF Observers
  <1> QED
    BY <1>5, <1>6, <1>7, <1>8, <1>9, CalmSound DEF Costs

\* An admission and a resolution change one attempt, and no stage.
SameStages(f, g) ==
    /\ g.armed = f.armed /\ g.epoch = f.epoch /\ g.closed = f.closed
    /\ g.workers = f.workers /\ g.error = f.error /\ g.receipt = f.receipt
    /\ g.frozen = f.frozen /\ g.facts = f.facts /\ g.archive = f.archive

Attempting(t, w, n) == [kind |-> "ATTEMPT", tx |-> t, worker |-> w, epoch |-> n]
Committing(t, rows) == [kind |-> "COMMITTED", tx |-> t, facts |-> rows]
RollingBack(t) == [kind |-> "ROLLED_BACK", tx |-> t]

\* An admission.
LEMMA AttemptApplied ==
    ASSUME NEW f \in Journals, NEW t \in Tx, NEW w \in Workers, NEW n \in {0, 1}, NEW g,
           g = Apply(f, Attempting(t, w, n))
    PROVE  /\ g \in Journals /\ SameStages(f, g)
           /\ g.attempts[t] = Admission(w, n)
           /\ \A u \in Tx \ {t} : g.attempts[u] = f.attempts[u]
  <1>1. Admission(w, n) \in Attempts
    BY DEF Admission, Attempts, Admitted
  <1>2. g = [f EXCEPT !.attempts = [f.attempts EXCEPT ![t] = Admission(w, n)]]
    BY JournalFields DEF Apply, Attempting
  <1>3. g \in Journals
    BY <1>1, <1>2, JournalFields
  <1> QED
    BY <1>1, <1>2, <1>3, JournalFields DEF SameStages

\* A resolution by a witness.
LEMMA CommittedApplied ==
    ASSUME NEW f \in Journals, NEW t \in Tx, NEW rows \in SUBSET Trades, NEW g,
           f.attempts[t] # NoAttempt,
           g = Apply(f, Committing(t, rows))
    PROVE  /\ g \in Journals /\ SameStages(f, g)
           /\ g.attempts[t] # NoAttempt /\ g.attempts[t].epoch = f.attempts[t].epoch
           /\ g.attempts[t].state = "COMMITTED" /\ g.attempts[t].facts = rows
           /\ \A u \in Tx \ {t} : g.attempts[u] = f.attempts[u]
  <1> DEFINE new == [f.attempts[t] EXCEPT !.state = "COMMITTED", !.facts = rows]
  <1>1. f.attempts[t] \in Admitted
    BY AttemptCases
  <1>2. /\ new \in Admitted /\ new.epoch = f.attempts[t].epoch
        /\ new.state = "COMMITTED" /\ new.facts = rows
    BY <1>1 DEF Admitted
  <1>3. g = [f EXCEPT !.attempts[t] = [f.attempts[t] EXCEPT !.state = "COMMITTED",
                                                            !.facts = rows]]
    BY DEF Apply, Committing
  <1>4. g = [f EXCEPT !.attempts = [f.attempts EXCEPT ![t] = new]]
    BY <1>3
  <1> HIDE DEF new
  <1>5. new \in Attempts /\ new # NoAttempt
    BY <1>2 DEF Attempts, Admitted, NoAttempt
  <1>6. g \in Journals /\ g.attempts = [f.attempts EXCEPT ![t] = new] /\ SameStages(f, g)
    BY <1>4, <1>5, JournalFields DEF SameStages
  <1> QED
    BY <1>2, <1>5, <1>6, JournalFields

\* A resolution by a rollback.
LEMMA RolledBackApplied ==
    ASSUME NEW f \in Journals, NEW t \in Tx, NEW g, f.attempts[t] # NoAttempt,
           g = Apply(f, RollingBack(t))
    PROVE  /\ g \in Journals /\ SameStages(f, g)
           /\ g.attempts[t] # NoAttempt /\ g.attempts[t].epoch = f.attempts[t].epoch
           /\ g.attempts[t].state = "ROLLED_BACK"
           /\ \A u \in Tx \ {t} : g.attempts[u] = f.attempts[u]
  <1> DEFINE new == [f.attempts[t] EXCEPT !.state = "ROLLED_BACK"]
  <1>1. f.attempts[t] \in Admitted
    BY AttemptCases
  <1>2. /\ new \in Admitted /\ new.epoch = f.attempts[t].epoch /\ new.state = "ROLLED_BACK"
    BY <1>1 DEF Admitted
  <1>3. g = [f EXCEPT !.attempts = [f.attempts EXCEPT ![t] = new]]
    BY JournalFields DEF Apply, RollingBack
  <1> HIDE DEF new
  <1>4. new \in Attempts /\ new # NoAttempt
    BY <1>2 DEF Attempts, Admitted, NoAttempt
  <1>5. g \in Journals /\ g.attempts = [f.attempts EXCEPT ![t] = new] /\ SameStages(f, g)
    BY <1>3, <1>4, JournalFields DEF SameStages
  <1> QED
    BY <1>2, <1>4, <1>5, JournalFields

-----------------------------------------------------------------------------
(* The steps of a session. *)

\* While a session has a transaction, no other has; and a transaction that has
\* not begun is nobody's.
LEMMA TxIsOwn ==
    ASSUME Observers, NEW s \in Sessions, NEW t \in Tx, t = session[s].tx \/ Status(t) = "none"
    PROVE  \A q \in Sessions \ {s} : session[q].tx # t
  BY DEF Observers, SessionsApart, SessionSound, NoTx, Tx

\* What one session does about its own transaction is beside all the others.
OwnStep(s, t) ==
    /\ \A q \in Sessions \ {s} : session[q].tx # t /\ session'[q] = session[q]
    /\ session'[s].tx \in {NoTx, t}
    /\ \A u \in Tx \ {t} :
           /\ db'[u] = db[u]
           /\ fence.attempts[u].state = "OUTSTANDING" =>
                  fence'.attempts[u].state = "OUTSTANDING"
    /\ Denied => Denied'
    /\ fence.archive => fence'.archive
    /\ clock' = "pre" => clock = "pre"

\* What a session does with its own transaction leaves the other sessions sound.
LEMMA OthersSound ==
    ASSUME TypeOK, Observers, NEW s \in Sessions, NEW t \in Tx, OwnStep(s, t), Retiring
    PROVE  SessionsApart' /\ \A q \in Sessions \ {s} : SessionSound(q)'
  <1> USE DEF OwnStep
  <1>1. SessionsApart'
    BY DEF Observers, SessionsApart
  <1>2. ASSUME NEW q \in Sessions \ {s}
        PROVE  SessionSound(q)'
    <2>1. SessionSound(q) /\ Process[q] \in Workers
      BY ObserverAssumption DEF Observers
    <2>2. /\ session[q].tx \in Tx \union {NoTx} /\ session[q].token \in Tx \union {NoTx}
          /\ session[q].token # NoTx => session[q].token = session[q].tx
      BY <2>1 DEF TypeOK, SessionSound, Idle
    <2>3. Beside(q)
      BY <2>1, <2>2 DEF Beside, Retiring
    <2> QED
      BY <2>1, <2>3, SessionBeside
  <1> QED
    BY <1>1, <1>2

\* The fields of a session and of a transaction.
SessionType == [phase : {"idle", "flush", "commit"}, tx : Tx \union {NoTx},
                token : Tx \union {NoTx}, facts : SUBSET Trades]
DbType == [status : {"none", "open", "inflight", "committed", "aborted"},
           rows : SUBSET Trades, witnessed : BOOLEAN, witness : SUBSET Trades]
ProcType == [up : BOOLEAN, retired : BOOLEAN, localError : BOOLEAN]

\* The first flush with a trade admits the transaction, or fails to.
LEMMA BeforeFlushKeepsSound ==
    ASSUME Sound, NEW s \in Sessions, Observer(s), BeforeFlush(s)
    PROVE  Sound'
  <1>s. TypeOK /\ Stands /\ JournalOrder /\ WitnessExact /\ RowsIngested /\ Observers
        /\ SessionSound(s) /\ Commands
    BY DEF Sound, Stands, Observers
  <1>p. /\ proc \in [Workers -> ProcType] /\ db \in [Tx -> DbType]
        /\ session \in [Sessions -> SessionType] /\ Process[s] \in Workers
    BY <1>s, ObserverAssumption DEF TypeOK, ProcType, DbType, SessionType
  <1>0. PICK t \in Tx :
            /\ IF session[s].tx = NoTx THEN NextTx(t) ELSE t = session[s].tx
            /\ db' = [db EXCEPT ![t].status = "open"]
            /\ IF Observing(s) /\ session[s].token = NoTx
               THEN /\ session' = [session EXCEPT ![s] =
                                      [@ EXCEPT !.phase = "flush", !.tx = t, !.token = t]]
                    /\ Observes(s, [kind |-> "ATTEMPT", tx |-> t, worker |-> Process[s],
                                    epoch |-> fence.epoch])
               ELSE /\ session' = [session EXCEPT ![s] = [@ EXCEPT !.phase = "flush", !.tx = t]]
                    /\ Quietly
    BY DEF BeforeFlush
  <1>1. /\ proc[Process[s]].up /\ session[s].phase = "idle" /\ clock # "pre"
        /\ UNCHANGED <<clock, ingested, captureVars>>
    BY DEF BeforeFlush, Observer
  <1> USE <1>1 DEF captureVars
  <1>2. /\ db' \in [Tx -> DbType] /\ db'[t].status = "open" /\ db'[t].rows = db[t].rows
        /\ db'[t].witnessed = db[t].witnessed /\ db'[t].witness = db[t].witness
        /\ \A u \in Tx \ {t} : db'[u] = db[u]
    BY <1>p, <1>0 DEF DbType
  <1>3. /\ Status(t) \in {"none", "open"}
        /\ session[s].tx = NoTx => Status(t) = "none" /\ session[s] = Idle
        /\ session[s].tx # NoTx => t = session[s].tx
    BY <1>s, <1>0 DEF SessionSound, NextTx
  <1>4. \A q \in Sessions \ {s} : session[q].tx # t
    BY <1>s, <1>3, TxIsOwn
  <1>5. RowsKept /\ WitnessExact'
    BY <1>s, <1>2, <1>3 DEF RowsKept, WitnessExact, Rows, Status
  <1>t. t \in Tx \union {NoTx}
    OBVIOUS
  <1>6. CASE ~(Observing(s) /\ session[s].token = NoTx)
    <2>1. session' = [session EXCEPT ![s] = [@ EXCEPT !.phase = "flush", !.tx = t]] /\ Quietly
      BY <1>0, <1>6
    <2>2. session'[s] = [session[s] EXCEPT !.phase = "flush", !.tx = t]
          /\ \A q \in Sessions \ {s} : session'[q] = session[q]
      BY <1>p, <2>1
    <2>3. /\ session'[s] \in SessionType /\ session'[s].phase = "flush" /\ session'[s].tx = t
          /\ session'[s].token = session[s].token /\ session'[s].facts = session[s].facts
      <3>1. session[s] \in SessionType
        BY <1>p
      <3> QED
        BY <1>t, <2>2, <3>1 DEF SessionType
    <2>4. session' \in [Sessions -> SessionType]
      BY <1>p, <2>1, <2>2, <2>3
    <2>5. TypeOK'
      BY <1>s, <1>2, <2>1, <2>4 DEF TypeOK, Quietly, DbType, SessionType
    <2>6. Calm /\ Retiring /\ Costs
      BY <1>s, <2>1 DEF Calm, Lasting, SameLedger, JournalOrder, Quietly, Retiring, Costs, TypeOK
    <2>7. SessionsApart' /\ \A q \in Sessions \ {s} : SessionSound(q)'
      <3>1. OwnStep(s, t)
        BY <1>2, <1>4, <2>1, <2>2, <2>3 DEF OwnStep, Quietly, Denied
      <3> QED
        BY <1>s, <2>6, <3>1, OthersSound
    <2>8. SessionSound(s)'
      BY <1>s, <1>2, <1>3, <1>6, <2>1, <2>3
      DEF SessionSound, Idle, Quietly, Observing, Denied, Status, Rows, NoTx, Tx
    <2>9. BlindDenied'
      BY <1>s, <2>6, LastingBlind DEF Observers, Calm
    <2> QED
      BY <1>5, <2>1, <2>5, <2>6, <2>7, <2>8, <2>9, CalmSound DEF Observers
  <1>7. CASE Observing(s) /\ session[s].token = NoTx
    <2> DEFINE e == Attempting(t, Process[s], fence.epoch)
    <2>1. /\ session' = [session EXCEPT ![s] = [@ EXCEPT !.phase = "flush", !.tx = t, !.token = t]]
          /\ Observes(s, e)
      BY <1>0, <1>7 DEF Attempting
    <2>2. session[s] = Idle /\ Status(t) = "none"
      BY <1>s, <1>3, <1>7 DEF SessionSound, NoTx, Tx
    <2>3. /\ session'[s] = [session[s] EXCEPT !.phase = "flush", !.tx = t, !.token = t]
          /\ \A q \in Sessions \ {s} : session'[q] = session[q]
      BY <1>p, <2>1
    <2>4. /\ session'[s] \in SessionType /\ session'[s].phase = "flush" /\ session'[s].tx = t
          /\ session'[s].token = t /\ session'[s].facts = {}
      <3>1. session[s] \in SessionType /\ session[s].facts = {}
        BY <1>p, <2>2 DEF Idle
      <3> QED
        BY <1>t, <2>3, <3>1 DEF SessionType
    <2>5. session' \in [Sessions -> SessionType]
      BY <1>p, <2>1, <2>3, <2>4
    <2>6. Rows(t) = {} /\ fence.attempts[t] = NoAttempt /\ Rows(t)' = {} /\ ~db[t].witnessed
      BY <1>s, <1>2, <2>2 DEF RowsIngested, Rows, WitnessExact
    <2>7. CASE Records(e)
      <3>1. /\ Legal(fence, e) /\ fence' = Apply(fence, e)
            /\ UNCHANGED <<latched, unstored, proc, faults, crashes>>
        BY <2>7 DEF Records, Append
      <3>2. fence \in Journals /\ fence.epoch \in {0, 1} /\ fence.armed
        BY <1>s, <3>1, JournalFields DEF TypeOK, Legal, Attempting
      <3>3. /\ fence' \in Journals /\ SameStages(fence, fence')
            /\ fence'.attempts[t] = Admission(Process[s], fence.epoch)
            /\ \A u \in Tx \ {t} : fence'.attempts[u] = fence.attempts[u]
        BY <1>p, <3>1, <3>2, AttemptApplied
      <3> HIDE DEF e
      <3> USE DEF SameStages
      <3>4. /\ fence'.attempts[t].state = "OUTSTANDING"
            /\ fence'.attempts[t].epoch = fence.epoch
            /\ fence'.attempts[t] # NoAttempt
        BY <3>3 DEF Admission, NoAttempt
      <3>5. TypeOK'
        BY <1>s, <1>2, <2>5, <3>1, <3>3 DEF TypeOK, DbType, SessionType
      <3>6. /\ In(fence', "COMMITTED") = In(fence, "COMMITTED")
            /\ In(fence', "ROLLED_BACK") = In(fence, "ROLLED_BACK")
            /\ fence.epoch = 1 => Outstanding(fence') = Outstanding(fence)
        BY <2>6, <3>3, <3>4 DEF In, Outstanding, NoAttempt
      <3>7. CommittedPopulation(fence)' = CommittedPopulation(fence)
        BY <2>6, <3>3, <3>6 DEF CommittedPopulation, InWindow, In, NoAttempt
      <3>8. JournalOrder'
        BY <1>s, <3>2, <3>3, <3>4, <3>6 DEF JournalOrder, Outstanding
      <3>9. RowsIngested' /\ LateAdmissions'
        BY <1>s, <1>2, <2>6, <3>3 DEF Stands, RowsIngested, LateAdmissions, Rows, Status
      <3>10. ResolutionIsProof'
        <4>1. \A u \in In(fence, "ROLLED_BACK") \union In(fence, "COMMITTED") : u \in Tx \ {t}
          BY <2>6 DEF In, NoAttempt
        <4> QED
          BY <1>s, <1>2, <3>3, <3>6, <4>1 DEF Stands, ResolutionIsProof, Rows, Status
      <3>11. AdmittedOrDenied'
        BY <1>s, <1>2, <2>6, <3>1, <3>3 DEF Stands, AdmittedOrDenied, Denied, NeverArmed,
           InWindow, Rows
      <3>12. Stands'
        BY <1>s, <1>5, <3>3, <3>7, <3>8, <3>9, <3>10, <3>11 DEF Stands, PopulationStands
      <3>13. BlindDenied'
        BY <1>s, <3>1, <3>3 DEF Observers, BlindDenied, Denied, NeverArmed
      <3>14. SessionsApart' /\ \A q \in Sessions \ {s} : SessionSound(q)'
        <4>1. OwnStep(s, t)
          BY <1>2, <1>4, <2>3, <2>4, <3>1, <3>3 DEF OwnStep, Denied
        <4>2. Retiring
          BY <3>1 DEF Retiring
        <4> QED
          BY <1>s, <4>1, <4>2, OthersSound
      <3>15. SessionSound(s)'
        BY <1>2, <2>4, <2>6, <3>1, <3>4 DEF SessionSound, Observing, Status, Rows, NoTx, Tx
      <3>16. Commands'
        BY <1>s, <3>1, <3>3, <3>7 DEF Commands, DrainRecords, Faultless, Recorded
      <3> QED
        BY <3>5, <3>12, <3>13, <3>14, <3>15, <3>16 DEF Sound, Observers
    <2>8. CASE \E cost \in {0, 1} : Fails(Process[s], cost)
      <3> HIDE DEF e
      <3>1. PICK cost \in {0, 1} : Fails(Process[s], cost)
        BY <2>8
      <3>2. TypeOK'
        BY <1>s, <1>p, <1>2, <2>5, <3>1, Failure DEF TypeOK, DbType, SessionType
      <3>3. Calm /\ Retiring /\ Costs
        BY <1>s, <1>p, <3>1, Failure DEF Calm, Lasting, JournalOrder, Costs
      <3>4. Denied' /\ ~fence'.archive
        BY <1>s, <1>p, <1>7, <3>1, Failure DEF Observing, SameLedger
      <3>5. SessionsApart' /\ \A q \in Sessions \ {s} : SessionSound(q)'
        <4>1. OwnStep(s, t)
          BY <1>2, <1>4, <2>3, <2>4, <3>3, <3>4 DEF OwnStep, Calm, Lasting, SameLedger
        <4> QED
          BY <1>s, <3>3, <4>1, OthersSound
      <3>6. proc'[Process[s]].up
        BY <1>p, <3>3 DEF Retiring
      <3>7. SessionSound(s)'
        BY <1>2, <2>4, <2>6, <3>4, <3>6 DEF SessionSound, Observing, Status, Rows, NoTx, Tx
      <3>8. BlindDenied'
        BY <1>s, <3>3, LastingBlind DEF Observers, Calm
      <3> QED
        BY <1>5, <3>2, <3>3, <3>5, <3>7, <3>8, CalmSound DEF Observers
    <2> QED
      BY <2>1, <2>7, <2>8 DEF Observes
  <1> QED
    BY <1>6, <1>7

\* The INSERT of a row, kept or undone, and what after_flush makes of it.
LEMMA InsertKeepsSound ==
    ASSUME Sound, NEW s \in Sessions, Observer(s), Insert(s)
    PROVE  Sound'
  <1>s. TypeOK /\ Stands /\ JournalOrder /\ WitnessExact /\ RowsIngested /\ Observers
        /\ SessionSound(s) /\ Commands
    BY DEF Sound, Stands, Observers
  <1>p. /\ proc \in [Workers -> ProcType] /\ db \in [Tx -> DbType]
        /\ session \in [Sessions -> SessionType] /\ Process[s] \in Workers
        /\ fence \in Journals
    BY <1>s, ObserverAssumption DEF TypeOK, ProcType, DbType, SessionType
  <1>1. session[s].phase = "flush" /\ UNCHANGED <<clock, captureVars>>
    BY DEF Insert, Observer
  <1> USE <1>1 DEF captureVars
  <1>2. PICK t \in Tx : t # NoTx /\ t = session[s].tx /\ Status(t) = "open"
                      /\ clock \in {"in", "post"}
    <2>1. session[s] # Idle /\ session[s] \in SessionType
      BY <1>p DEF Idle
    <2>2. session[s].tx \in Tx \union {NoTx} /\ clock \in {"pre", "in", "post"}
      BY <1>s, <2>1 DEF TypeOK, SessionType
    <2> QED
      BY <1>s, <2>1, <2>2 DEF SessionSound
  <1>r. PICK r \in Trades :
            /\ NextRow(r) /\ ingested' = [ingested EXCEPT ![r] = clock]
            /\ \E kept \in SUBSET {r} :
                /\ db' = [db EXCEPT ![t].rows = @ \union kept]
                /\ \/ /\ session' = [session EXCEPT ![s] =
                            [@ EXCEPT !.phase = "idle",
                                      !.facts = IF Observing(s) THEN session[s].facts \union kept
                                                ELSE session[s].facts]]
                      /\ Quietly
                   \/ /\ Observing(s)
                      /\ session' = [session EXCEPT ![s].phase = "idle"]
                      /\ Fails(Process[s], 1)
    BY <1>2 DEF Insert
  <1>0. PICK kept \in SUBSET {r} :
            /\ db' = [db EXCEPT ![t].rows = @ \union kept]
            /\ \/ /\ session' = [session EXCEPT ![s] =
                        [@ EXCEPT !.phase = "idle",
                                  !.facts = IF Observing(s) THEN session[s].facts \union kept
                                            ELSE session[s].facts]]
                  /\ Quietly
               \/ /\ Observing(s)
                  /\ session' = [session EXCEPT ![s].phase = "idle"]
                  /\ Fails(Process[s], 1)
    BY <1>r
  <1>3. /\ fence' \in Journals /\ SameLedger(fence, fence')
        /\ UNCHANGED <<fence.armed, fence.workers>> /\ (fence.error => fence'.error)
        /\ latched' \in BOOLEAN /\ unstored' \in BOOLEAN
        /\ (latched => latched') /\ (unstored => unstored')
        /\ faults' \in 0..MaxMishaps /\ crashes' \in 0..MaxMishaps
        /\ proc' \in [Workers -> ProcType] /\ Retiring /\ Costs
    <2>1. CASE Quietly
      BY <1>s, <1>p, <2>1 DEF Quietly, TypeOK, SameLedger, Retiring, Costs
    <2>2. CASE Fails(Process[s], 1)
      BY <1>s, <1>p, <2>2, Failure DEF Costs, ProcType
    <2> QED
      BY <1>0, <2>1, <2>2
  <1>4. /\ ingested' \in [Trades -> {"none", "in", "post"}] /\ ingested'[r] = clock
        /\ ingested[r] = "none" /\ \A q \in Trades \ {r} : ingested'[q] = ingested[q]
    BY <1>s, <1>r, <1>2 DEF TypeOK, NextRow
  <1>5. /\ db' \in [Tx -> DbType] /\ db'[t].rows = db[t].rows \union kept
        /\ db'[t].status = "open" /\ db'[t].witnessed = db[t].witnessed
        /\ \A u \in Tx \ {t} : db'[u] = db[u]
    <2>1. db[t].rows \union kept \in SUBSET Trades
      BY <1>p, <1>2 DEF DbType
    <2>2. db' = [db EXCEPT ![t] = [db[t] EXCEPT !.rows = db[t].rows \union kept]]
      BY <1>p, <1>0, <1>2
    <2>3. /\ db'[t] = [db[t] EXCEPT !.rows = db[t].rows \union kept] /\ db[t] \in DbType
          /\ \A u \in Tx \ {t} : db'[u] = db[u]
      BY <1>p, <1>2, <2>2
    <2>4. /\ db'[t] \in DbType /\ db'[t].rows = db[t].rows \union kept
          /\ db'[t].status = db[t].status /\ db'[t].witnessed = db[t].witnessed
      BY <2>1, <2>3 DEF DbType
    <2>5. db' \in [Tx -> DbType]
      BY <1>p, <2>2, <2>3, <2>4
    <2> QED
      BY <1>2, <2>3, <2>4, <2>5 DEF Status
  <1>6. /\ session'[s].phase = "idle" /\ session'[s].tx = t
        /\ session'[s].token = session[s].token
        /\ Quietly /\ Observing(s) => session'[s].facts = session[s].facts \union kept
        /\ \A q \in Sessions \ {s} : session'[q] = session[q]
        /\ session' \in [Sessions -> SessionType]
    <2>1. PICK facts \in SUBSET Trades :
              /\ session'[s] = [session[s] EXCEPT !.phase = "idle", !.facts = facts]
              /\ Quietly /\ Observing(s) => facts = session[s].facts \union kept
              /\ \A q \in Sessions \ {s} : session'[q] = session[q]
              /\ DOMAIN session' = Sessions /\ session' = [q \in Sessions |-> session'[q]]
      <3>1. session[s] \in SessionType
        BY <1>p
      <3>2. session[s].facts \in SUBSET Trades /\ session[s].facts \union kept \in SUBSET Trades
        BY <3>1 DEF SessionType
      <3>3. CASE /\ session' = [session EXCEPT ![s] =
                       [@ EXCEPT !.phase = "idle",
                                 !.facts = IF Observing(s) THEN session[s].facts \union kept
                                           ELSE session[s].facts]]
        <4> DEFINE facts == IF Observing(s) THEN session[s].facts \union kept
                            ELSE session[s].facts
        <4>1. session' = [session EXCEPT ![s] = [session[s] EXCEPT !.phase = "idle",
                                                                  !.facts = facts]]
          BY <1>p, <3>1, <3>3 DEF SessionType
        <4>2. facts \in SUBSET Trades /\ (Observing(s) => facts = session[s].facts \union kept)
          BY <3>2
        <4> HIDE DEF facts
        <4> QED
          BY <1>p, <4>1, <4>2
      <3>4. CASE /\ session' = [session EXCEPT ![s].phase = "idle"]
                 /\ Fails(Process[s], 1)
        <4>1. ~Quietly
          <5>1. faults' = faults + 1 /\ faults \in Nat
            BY <1>s, <3>4 DEF Fails, Invalidate, Spend, TypeOK
          <5> QED
            BY <5>1 DEF Quietly
        <4>2. session' = [session EXCEPT ![s] = [session[s] EXCEPT !.phase = "idle",
                                                          !.facts = session[s].facts]]
          BY <1>p, <3>1, <3>4 DEF SessionType
        <4> QED
          BY <1>p, <3>2, <4>1, <4>2
      <3> QED
        BY <1>0, <3>3, <3>4
    <2>2. session[s] \in SessionType
      BY <1>p
    <2>3. /\ session'[s] \in SessionType /\ session'[s].phase = "idle"
          /\ session'[s].tx = session[s].tx /\ session'[s].token = session[s].token
          /\ session'[s].facts = facts
      BY <2>1, <2>2 DEF SessionType
    <2>4. session' \in [Sessions -> SessionType]
      BY <1>p, <2>1, <2>3
    <2> QED
      BY <1>2, <2>1, <2>3, <2>4
  <1>7. TypeOK'
    BY <1>s, <1>3, <1>4, <1>5, <1>6 DEF TypeOK, DbType, SessionType, ProcType
  <1>8. Quietly \/ (Observing(s) /\ proc'[Process[s]].localError)
    BY <1>s, <1>p, <1>0, Failure DEF Observing
  <1>9. /\ \A q \in Trades : ingested[q] # "none" => ingested'[q] = ingested[q]
        /\ \A u \in Tx \ {t} : /\ Rows(u)' = Rows(u) /\ Status(u)' = Status(u)
                               /\ InWindow(Rows(u))' = InWindow(Rows(u))
        /\ Rows(t)' = Rows(t) \union kept /\ Status(t)' = "open"
    <2>1. \A u \in Tx \ {t} : Rows(u)' = Rows(u) /\ Status(u)' = Status(u)
      BY <1>5 DEF Rows, Status
    <2>2. Rows(t)' = Rows(t) \union kept /\ Status(t)' = "open"
      BY <1>2, <1>5 DEF Rows, Status
    <2>3. \A u \in Tx : Rows(u) \in SUBSET Trades
      BY <1>p DEF Rows, DbType
    <2>4. \A q \in Trades : ingested[q] # "none" => ingested'[q] = ingested[q]
      BY <1>4
    <2>5. \A u \in Tx \ {t} : InWindow(Rows(u))' = InWindow(Rows(u))
      BY <1>s, <2>1, <2>3, <2>4 DEF InWindow, RowsIngested
    <2> QED
      BY <2>1, <2>2, <2>4, <2>5
  <1>10. CommittedPopulation(fence)' = CommittedPopulation(fence)
    <2>1. \A u \in In(fence, "COMMITTED") : /\ fence.attempts[u].facts = Rows(u)
                                            /\ Rows(u) \in SUBSET Trades
      BY <1>s, <1>p DEF Stands, ResolutionIsProof, In, Rows, DbType
    <2>2. \A u \in In(fence, "COMMITTED") : \A q \in fence.attempts[u].facts :
              ingested'[q] = ingested[q]
      BY <1>s, <1>9, <2>1 DEF RowsIngested, In
    <2>3. fence'.attempts = fence.attempts
      BY <1>3 DEF SameLedger
    <2> QED
      BY <2>2, <2>3 DEF CommittedPopulation, InWindow, In
  <1>11. Stands'
    <2> USE DEF SameLedger
    <2>1. JournalOrder'
      BY <1>s, <1>3 DEF JournalOrder, Outstanding, In
    <2>2. RowsIngested'
      <3>1. ASSUME NEW u \in Tx, NEW q \in Rows(u)'
            PROVE  ingested'[q] # "none"
        <4>1. q \in Rows(u) => q \in Trades /\ ingested[q] # "none"
          BY <1>s, <1>p DEF RowsIngested, Rows, DbType
        <4>2. q \in Rows(u) \/ q = r
          BY <1>9, <3>1
        <4> QED
          BY <1>2, <1>4, <1>9, <4>1, <4>2
      <3>2. ASSUME NEW u \in Tx, Status(u)' = "none"
            PROVE  Rows(u)' = {} /\ fence'.attempts[u] = NoAttempt
        <4>1. u # t
          BY <1>9, <3>2
        <4> QED
          BY <1>s, <1>3, <1>9, <3>2, <4>1 DEF RowsIngested
      <3> QED
        BY <3>1, <3>2 DEF RowsIngested
    <2>3. WitnessExact'
      BY <1>s, <1>2, <1>5, <1>9 DEF WitnessExact, Status, Rows
    <2>4. LateAdmissions'
      <3>1. ASSUME NEW u \in Tx, fence.attempts[u] # NoAttempt, fence.attempts[u].epoch = 1,
                   NEW q \in Rows(u)'
            PROVE  ingested'[q] = "post"
        <4>1. clock = "post"
          BY <1>s, <3>1 DEF JournalOrder
        <4>2. CASE q \in Rows(u)
          <5>1. ingested[q] = "post" /\ q \in Trades
            BY <1>s, <1>p, <3>1, <4>2 DEF Stands, LateAdmissions, Rows, DbType
          <5> QED
            BY <1>9, <5>1
        <4>3. CASE q \notin Rows(u)
          <5>1. q = r
            BY <1>9, <3>1, <4>3
          <5> QED
            BY <1>4, <4>1, <5>1
        <4> QED
          BY <4>2, <4>3
      <3> QED
        BY <1>3, <3>1 DEF LateAdmissions
    <2>5. ResolutionIsProof'
      BY <1>s, <1>2, <1>3, <1>9 DEF Stands, ResolutionIsProof, In
    <2>6. AdmittedOrDenied'
      <3>1. ASSUME NEW u \in Tx, fence.attempts[u] = NoAttempt, InWindow(Rows(u)) # {}
            PROVE  unstored' \/ (~fence'.receipt /\ (Denied' \/ NeverArmed'))
        BY <1>s, <1>1, <1>3, <3>1 DEF Stands, AdmittedOrDenied, Denied, NeverArmed
      <3>2. ASSUME fence.attempts[t] = NoAttempt, InWindow(Rows(t)) = {},
                   InWindow(Rows(t))' # {}
            PROVE  ~fence.receipt /\ (Denied \/ NeverArmed)
        <4>1. clock = "in"
          <5>1. PICK q \in Rows(t)' : ingested'[q] = "in"
            BY <3>2 DEF InWindow
          <5>2. CASE q \in Rows(t)
            <6>1. ingested[q] = "in"
              BY <1>s, <1>p, <1>2, <1>9, <5>1, <5>2 DEF RowsIngested, Rows, DbType
            <6> QED
              BY <3>2, <5>2, <6>1 DEF InWindow
          <5>3. CASE q \notin Rows(t)
            BY <1>4, <1>9, <5>1, <5>3
          <5> QED
            BY <5>2, <5>3
        <4>2. ~fence.receipt /\ ~fence.archive
          BY <1>s, <4>1 DEF JournalOrder
        <4>3. CASE proc[Process[s]].retired
          BY <1>s, <1>p, <4>2, <4>3 DEF Observers, BlindDenied
        <4>4. CASE Observing(s)
          <5>1. session[s].token = t
            BY <1>s, <1>2, <4>4 DEF SessionSound
          <5>2. Denied \/ fence.attempts[t].state = "OUTSTANDING"
            BY <1>s, <1>2, <5>1 DEF SessionSound
          <5> QED
            BY <3>2, <4>2, <5>2 DEF NoAttempt
        <4> QED
          BY <4>2, <4>3, <4>4 DEF Observing
      <3>3. (Denied \/ NeverArmed) => (Denied' \/ NeverArmed')
        BY <1>1, <1>3 DEF Denied, NeverArmed
      <3> QED
        BY <1>2, <1>3, <1>9, <3>1, <3>2, <3>3 DEF AdmittedOrDenied
    <2>7. PopulationStands'
      BY <1>s, <1>3, <1>10 DEF Stands, PopulationStands
    <2> QED
      BY <2>1, <2>2, <2>3, <2>4, <2>5, <2>6, <2>7 DEF Stands
  <1>12. Observers'
    <2>1. Lasting
      BY <1>s, <1>3 DEF Lasting, JournalOrder
    <2>2. BlindDenied'
      BY <1>s, <1>3, <2>1, LastingBlind DEF Observers
    <2>3. OwnStep(s, t)
      <3>1. \A q \in Sessions \ {s} : session[q].tx # t
        BY <1>s, <1>2, TxIsOwn
      <3> QED
        BY <1>3, <1>5, <1>6, <3>1 DEF OwnStep, SameLedger, Denied
    <2>4. SessionsApart' /\ \A q \in Sessions \ {s} : SessionSound(q)'
      BY <1>s, <1>2, <1>3, <2>3, OthersSound
    <2>5. SessionSound(s)'
      <3>1. /\ proc[Process[s]].up /\ proc'[Process[s]].up
            /\ Observing(s)' => Observing(s)
            /\ proc[Process[s]].localError => proc'[Process[s]].localError
        BY <1>s, <1>p, <1>2, <1>3 DEF SessionSound, Retiring, Observing, SameLedger
      <3>2. /\ session[s].token \in {NoTx, t}
            /\ Observing(s) => session[s].token = t
            /\ Observing(s) /\ ~proc[Process[s]].localError => session[s].facts = Rows(t)
            /\ session[s].token # NoTx =>
                   Denied \/ fence.attempts[session[s].token].state = "OUTSTANDING"
            /\ clock # "pre"
        BY <1>s, <1>2 DEF SessionSound
      <3>3. session'[s].token # NoTx =>
                Denied' \/ fence'.attempts[session'[s].token].state = "OUTSTANDING"
        BY <1>3, <1>6, <3>2 DEF Denied, SameLedger
      <3>4. Observing(s)' => /\ session'[s].token = t
                             /\ ~proc'[Process[s]].localError =>
                                    session'[s].facts = Rows(t)'
        BY <1>6, <1>8, <1>9, <3>1, <3>2
      <3> QED
        BY <1>1, <1>2, <1>6, <1>9, <3>1, <3>2, <3>3, <3>4 DEF SessionSound
    <2> QED
      BY <2>2, <2>4, <2>5 DEF Observers
  <1>13. Commands'
    <2>1. faults \in Nat /\ faults' \in Nat
      BY <1>s, <1>3 DEF TypeOK
    <2>2. DrainRecords' /\ Faultless'
      BY <1>s, <1>3, <1>10, <2>1
      DEF Commands, DrainRecords, Faultless, Recorded, SameLedger, Costs
    <2> QED
      BY <2>2 DEF Commands
  <1> QED
    BY <1>7, <1>11, <1>12, <1>13 DEF Sound

\* What one session does, when the journal's ledger stays as it is.
LEMMA OwnStepSound ==
    ASSUME Sound, TypeOK', Calm, Retiring, Costs, RowsKept, WitnessExact',
           UNCHANGED <<command, drain>>,
           NEW s \in Sessions, NEW t \in Tx, OwnStep(s, t), SessionSound(s)'
    PROVE  Sound'
  <1>1. TypeOK /\ Observers
    BY DEF Sound
  <1>2. SessionsApart' /\ \A q \in Sessions \ {s} : SessionSound(q)'
    BY <1>1, OthersSound
  <1>3. BlindDenied'
    BY <1>1, LastingBlind DEF Observers, Calm
  <1> QED
    BY <1>2, <1>3, CalmSound DEF Observers

\* The transaction of a session that has one.
LEMMA TxOfSession ==
    ASSUME TypeOK, Observers, NEW s \in Sessions,
           session[s].tx # NoTx \/ session[s].phase = "commit"
    PROVE  /\ session[s].tx \in Tx /\ session[s].tx # NoTx
           /\ Status(session[s].tx) = IF session[s].phase = "commit"
                                      THEN "inflight" ELSE "open"
           /\ \A q \in Sessions \ {s} : session[q].tx # session[s].tx
  <1>1. SessionSound(s) /\ session[s] \in SessionType
    BY DEF Observers, TypeOK, SessionType
  <1>2. session[s].tx # NoTx
    BY <1>1 DEF SessionSound, Idle
  <1>3. session[s].tx \in Tx
    BY <1>1, <1>2 DEF SessionType
  <1> QED
    BY <1>1, <1>2, <1>3, TxIsOwn DEF SessionSound

\* What a callback leaves that records nothing: all as it was, or a failure.
LEMMA QuietOrFails ==
    ASSUME TypeOK, JournalOrder, UNCHANGED <<clock, ingested>>, NEW w \in Workers,
           Quietly \/ \E cost \in {0, 1} : Fails(w, cost)
    PROVE  /\ fence' \in Journals /\ latched' \in BOOLEAN /\ unstored' \in BOOLEAN
           /\ faults' \in 0..MaxMishaps /\ crashes' \in 0..MaxMishaps
           /\ proc' \in [Workers -> ProcType]
           /\ Calm /\ Retiring /\ (gone' = gone => Costs)
           /\ (Denied => Denied') /\ fence'.archive = fence.archive
           /\ fence'.attempts = fence.attempts
  <1>1. CASE Quietly
    BY <1>1 DEF Quietly, TypeOK, SameLedger, Retiring, Costs, Calm, Lasting, JournalOrder,
       Denied, ProcType
  <1>2. ASSUME NEW cost \in {0, 1}, Fails(w, cost)
        PROVE  /\ fence' \in Journals /\ latched' \in BOOLEAN /\ unstored' \in BOOLEAN
               /\ faults' \in 0..MaxMishaps /\ crashes' \in 0..MaxMishaps
               /\ proc' \in [Workers -> ProcType]
               /\ Calm /\ Retiring /\ (gone' = gone => Costs)
               /\ (Denied => Denied') /\ fence'.archive = fence.archive
               /\ fence'.attempts = fence.attempts
    BY <1>2, Failure DEF SameLedger, Costs, Calm, Lasting, JournalOrder, Denied, ProcType
  <1> QED
    BY <1>1, <1>2

\* before_commit: the witness, if there is one, names the rows of its transaction.
LEMMA BeforeCommitKeepsSound ==
    ASSUME Sound, NEW s \in Sessions, Observer(s), BeforeCommit(s)
    PROVE  Sound'
  <1>s. TypeOK /\ JournalOrder /\ WitnessExact /\ Observers /\ SessionSound(s)
    BY DEF Sound, Stands, Observers
  <1>p. /\ db \in [Tx -> DbType] /\ session \in [Sessions -> SessionType]
        /\ Process[s] \in Workers
    BY <1>s, ObserverAssumption DEF TypeOK, DbType, SessionType
  <1>1. /\ session[s].phase = "idle" /\ session[s].tx # NoTx
        /\ session' = [session EXCEPT ![s].phase = "commit"]
        /\ UNCHANGED <<clock, ingested, captureVars>>
        /\ Quietly \/ \E cost \in {0, 1} : Fails(Process[s], cost)
    BY DEF BeforeCommit, Observer
  <1> USE <1>1 DEF captureVars
  <1>2. PICK t \in Tx : /\ t = session[s].tx /\ t # NoTx /\ Status(t) = "open"
                        /\ \A q \in Sessions \ {s} : session[q].tx # t
    BY <1>s, TxOfSession
  <1>3. \/ db' = [db EXCEPT ![t].status = "inflight"]
        \/ /\ Witnesses(s)
           /\ db' = [db EXCEPT ![t] = [@ EXCEPT !.status = "inflight", !.witnessed = TRUE,
                                              !.witness = session[s].facts]]
    BY <1>2 DEF BeforeCommit
  <1>4. Witnesses(s) => session[s].facts = Rows(t)
    BY <1>s, <1>2 DEF Witnesses, SessionSound
  <1>5. /\ session' \in [Sessions -> SessionType]
        /\ session'[s].phase = "commit" /\ session'[s].tx = t
        /\ session'[s].token = session[s].token /\ session'[s].facts = session[s].facts
        /\ \A q \in Sessions \ {s} : session'[q] = session[q]
    BY <1>p, <1>2 DEF SessionType
  <1>6. /\ db' \in [Tx -> DbType] /\ db'[t].status = "inflight" /\ db'[t].rows = db[t].rows
        /\ \/ db'[t].witnessed = db[t].witnessed
           \/ db'[t].witness = db[t].rows
        /\ \A u \in Tx \ {t} : db'[u] = db[u]
    <2>1. db[t] \in DbType /\ session[s].facts \in SUBSET Trades
      BY <1>p DEF SessionType
    <2>2. CASE db' = [db EXCEPT ![t].status = "inflight"]
      BY <1>p, <2>2 DEF DbType
    <2>3. CASE Witnesses(s) /\ db' = [db EXCEPT ![t] = [@ EXCEPT !.status = "inflight",
                                                                  !.witnessed = TRUE,
                                                                  !.witness = session[s].facts]]
      <3>1. db'[t] = [db[t] EXCEPT !.status = "inflight", !.witnessed = TRUE,
                                   !.witness = session[s].facts]
            /\ (\A u \in Tx \ {t} : db'[u] = db[u]) /\ DOMAIN db' = Tx
            /\ db' = [u \in Tx |-> db'[u]]
        BY <1>p, <2>3
      <3>2. /\ db'[t] \in DbType /\ db'[t].status = "inflight" /\ db'[t].rows = db[t].rows
            /\ db'[t].witness = session[s].facts
        BY <2>1, <3>1 DEF DbType
      <3>3. db' \in [Tx -> DbType]
        BY <1>p, <3>1, <3>2
      <3> QED
        BY <1>4, <2>3, <3>1, <3>2, <3>3 DEF Rows
    <2> QED
      BY <1>3, <2>2, <2>3
  <1>7. /\ fence' \in Journals /\ latched' \in BOOLEAN /\ unstored' \in BOOLEAN
        /\ faults' \in 0..MaxMishaps /\ crashes' \in 0..MaxMishaps
        /\ proc' \in [Workers -> ProcType]
        /\ Calm /\ Retiring /\ Costs
        /\ (Denied => Denied') /\ fence'.archive = fence.archive
        /\ fence'.attempts = fence.attempts
    BY <1>s, <1>p, QuietOrFails
  <1>8. TypeOK'
    BY <1>s, <1>5, <1>6, <1>7 DEF TypeOK, DbType, SessionType, ProcType
  <1>9. RowsKept /\ WitnessExact'
    BY <1>s, <1>2, <1>6 DEF RowsKept, WitnessExact, Rows, Status
  <1>10. OwnStep(s, t)
    BY <1>2, <1>5, <1>6, <1>7 DEF OwnStep
  <1>11. SessionSound(s)'
    <2>1. /\ proc'[Process[s]].up /\ (Observing(s)' => Observing(s))
          /\ proc[Process[s]].localError => proc'[Process[s]].localError
      BY <1>s, <1>p, <1>2, <1>7 DEF SessionSound, Retiring, Observing
    <2>2. Status(t)' = "inflight" /\ Rows(t)' = Rows(t)
      BY <1>6 DEF Status, Rows
    <2> QED
      BY <1>s, <1>2, <1>5, <1>7, <2>1, <2>2 DEF SessionSound
  <1> QED
    BY <1>7, <1>8, <1>9, <1>10, <1>11, OwnStepSound

\* The end of a session's transaction, with or without a word of the database.
EndsTx(s) ==
    /\ session[s].tx # NoTx \/ session[s].phase = "commit"
    /\ session' = [session EXCEPT ![s] = Idle]
    /\ db' = db \/ \E status \in {"committed", "aborted"} :
                      db' = [db EXCEPT ![session[s].tx].status = status]

\* It leaves the session idle, and the transaction with its rows.
LEMMA TxEnded ==
    ASSUME TypeOK, WitnessExact, Observers, NEW s \in Sessions, EndsTx(s)
    PROVE  /\ session' \in [Sessions -> SessionType] /\ session'[s] = Idle
           /\ \A q \in Sessions \ {s} : /\ session'[q] = session[q]
                                        /\ session[q].tx # session[s].tx
           /\ db' \in [Tx -> DbType] /\ RowsKept /\ WitnessExact' /\ SessionSound(s)'
           /\ session[s].tx \in Tx
           /\ \A u \in Tx \ {session[s].tx} : db'[u] = db[u]
  <1>1. /\ db \in [Tx -> DbType] /\ session \in [Sessions -> SessionType]
    BY DEF TypeOK, DbType, SessionType
  <1>2. PICK t \in Tx : /\ t = session[s].tx /\ Status(t) \in {"open", "inflight"}
                        /\ \A q \in Sessions \ {s} : session[q].tx # t
    BY TxOfSession DEF EndsTx
  <1>3. /\ session' \in [Sessions -> SessionType] /\ session'[s] = Idle
        /\ \A q \in Sessions \ {s} : session'[q] = session[q]
    <2>1. Idle \in SessionType
      BY DEF Idle, SessionType
    <2> QED
      BY <1>1, <2>1 DEF EndsTx
  <1>4. /\ db' \in [Tx -> DbType]
        /\ db'[t].status \in {db[t].status, "committed", "aborted"}
        /\ db'[t].rows = db[t].rows /\ db'[t].witnessed = db[t].witnessed
        /\ db'[t].witness = db[t].witness
        /\ \A u \in Tx \ {t} : db'[u] = db[u]
    <2>1. CASE db' = db
      BY <1>1, <2>1
    <2>2. CASE \E status \in {"committed", "aborted"} : db' = [db EXCEPT ![t].status = status]
      BY <1>1, <2>2 DEF DbType
    <2> QED
      BY <1>2, <2>1, <2>2 DEF EndsTx
  <1>5. RowsKept /\ WitnessExact'
    BY <1>2, <1>4 DEF RowsKept, WitnessExact, Rows, Status
  <1>6. SessionSound(s)'
    BY <1>3 DEF SessionSound, Idle, NoTx
  <1> QED
    BY <1>2, <1>3, <1>4, <1>5, <1>6

\* So the end of a transaction that records nothing, or fails to.
LEMMA EndKeepsSound ==
    ASSUME Sound, NEW s \in Sessions, EndsTx(s), UNCHANGED <<clock, ingested, captureVars>>,
           Quietly \/ \E cost \in {0, 1} : Fails(Process[s], cost)
    PROVE  Sound'
  <1>s. TypeOK /\ JournalOrder /\ WitnessExact /\ Observers
    BY DEF Sound, Stands
  <1>p. Process[s] \in Workers
    BY ObserverAssumption
  <1> USE DEF captureVars
  <1>1. /\ session' \in [Sessions -> SessionType] /\ session'[s] = Idle
        /\ \A q \in Sessions \ {s} : /\ session'[q] = session[q]
                                     /\ session[q].tx # session[s].tx
        /\ db' \in [Tx -> DbType] /\ RowsKept /\ WitnessExact' /\ SessionSound(s)'
        /\ session[s].tx \in Tx
        /\ \A u \in Tx \ {session[s].tx} : db'[u] = db[u]
    BY <1>s, TxEnded
  <1>2. /\ fence' \in Journals /\ latched' \in BOOLEAN /\ unstored' \in BOOLEAN
        /\ faults' \in 0..MaxMishaps /\ crashes' \in 0..MaxMishaps
        /\ proc' \in [Workers -> ProcType]
        /\ Calm /\ Retiring /\ Costs
        /\ (Denied => Denied') /\ fence'.archive = fence.archive
        /\ fence'.attempts = fence.attempts
    BY <1>s, <1>p, QuietOrFails
  <1>3. TypeOK'
    BY <1>s, <1>1, <1>2 DEF TypeOK, DbType, SessionType, ProcType
  <1>4. PICK t \in Tx : t = session[s].tx
    BY <1>1
  <1>5. OwnStep(s, t)
    BY <1>1, <1>2, <1>4 DEF OwnStep, Idle
  <1> QED
    BY <1>1, <1>2, <1>3, <1>5, OwnStepSound

\* A rollback that is recorded ends a transaction that the database has aborted.
LEMMA RollbackKeepsSound ==
    ASSUME Sound, NEW s \in Sessions, Observer(s), Rollback(s)
    PROVE  Sound'
  <1>s. TypeOK /\ Stands /\ JournalOrder /\ WitnessExact /\ Observers /\ SessionSound(s)
        /\ Commands
    BY DEF Sound, Stands, Observers
  <1>1. /\ session[s].tx # NoTx /\ EndsTx(s) /\ UNCHANGED <<clock, ingested, captureVars>>
        /\ db' = [db EXCEPT ![session[s].tx].status = "aborted"]
        /\ IF ProvesRollback(s, FALSE)
           THEN Observes(s, [kind |-> "ROLLED_BACK", tx |-> session[s].token])
           ELSE Quietly
    BY DEF Rollback, Aborted, AfterRollback, EndsTx, Observer
  <1> USE <1>1 DEF captureVars
  <1>2. CASE Quietly \/ \E cost \in {0, 1} : Fails(Process[s], cost)
    BY <1>2, EndKeepsSound DEF captureVars
  <1>3. CASE ProvesRollback(s, FALSE) /\ Records(RollingBack(session[s].token))
    <2>1. PICK t \in Tx : t = session[s].tx /\ t = session[s].token
      BY <1>s, <1>1, <1>3, TxOfSession DEF ProvesRollback, SessionSound
    <2>2. /\ session' \in [Sessions -> SessionType] /\ session'[s] = Idle
          /\ \A q \in Sessions \ {s} : session'[q] = session[q] /\ session[q].tx # t
          /\ db' \in [Tx -> DbType] /\ RowsKept /\ WitnessExact' /\ SessionSound(s)'
          /\ \A u \in Tx \ {t} : db'[u] = db[u]
      <3>1. /\ session' \in [Sessions -> SessionType] /\ session'[s] = Idle
            /\ \A q \in Sessions \ {s} : /\ session'[q] = session[q]
                                         /\ session[q].tx # session[s].tx
            /\ db' \in [Tx -> DbType] /\ RowsKept /\ WitnessExact' /\ SessionSound(s)'
            /\ \A u \in Tx \ {session[s].tx} : db'[u] = db[u]
        BY <1>s, TxEnded
      <3> QED
        BY <2>1, <3>1
    <2>3. /\ Legal(fence, RollingBack(t)) /\ fence' = Apply(fence, RollingBack(t))
          /\ UNCHANGED <<latched, unstored, proc, faults, crashes>>
      BY <1>3, <2>1 DEF Records, Append
    <2>4. fence \in Journals /\ fence.attempts[t].state = "OUTSTANDING" /\ fence.armed
      BY <1>s, <2>3 DEF TypeOK, Legal, RollingBack, In
    <2>5. fence.attempts[t] # NoAttempt
      BY <2>4 DEF NoAttempt
    <2>6. /\ fence' \in Journals /\ SameStages(fence, fence')
          /\ fence'.attempts[t] # NoAttempt
          /\ fence'.attempts[t].epoch = fence.attempts[t].epoch
          /\ fence'.attempts[t].state = "ROLLED_BACK"
          /\ \A u \in Tx \ {t} : fence'.attempts[u] = fence.attempts[u]
      BY <2>3, <2>4, <2>5, RolledBackApplied
    <2> USE DEF SameStages
    <2>7. TypeOK'
      BY <1>s, <2>2, <2>3, <2>6 DEF TypeOK, DbType, SessionType
    <2>8. /\ In(fence', "COMMITTED") = In(fence, "COMMITTED")
          /\ In(fence', "OUTSTANDING") \subseteq In(fence, "OUTSTANDING")
          /\ \A u \in In(fence, "COMMITTED") : u # t
      BY <2>4, <2>6 DEF In
    <2>9. CommittedPopulation(fence)' = CommittedPopulation(fence)
      BY <2>6, <2>8 DEF CommittedPopulation, InWindow, In
    <2>10. Status(t)' = "aborted"
      <3>1. db \in [Tx -> DbType]
        BY <1>s DEF TypeOK, DbType
      <3>2. db' = [db EXCEPT ![t].status = "aborted"]
        BY <2>1
      <3> QED
        BY <3>1, <3>2 DEF DbType, Status
    <2>11. Stands'
      <3>1. JournalOrder'
        BY <1>s, <2>3, <2>4, <2>5, <2>6 DEF JournalOrder, Outstanding, In
      <3>2. RowsIngested' /\ LateAdmissions'
        BY <1>s, <2>2, <2>5, <2>6 DEF Stands, RowsKept, RowsIngested, LateAdmissions
      <3>3. ResolutionIsProof'
        <4>1. ASSUME NEW u \in Tx, fence'.attempts[u].state = "ROLLED_BACK"
              PROVE  Status(u)' = "aborted"
          BY <1>s, <2>2, <2>6, <2>10, <4>1 DEF Stands, ResolutionIsProof, In, RowsKept
        <4>2. ASSUME NEW u \in Tx, fence'.attempts[u].state = "COMMITTED"
              PROVE  Status(u)' = "committed" /\ fence'.attempts[u].facts = Rows(u)'
          BY <1>s, <2>2, <2>6, <4>2 DEF Stands, ResolutionIsProof, In, RowsKept
        <4> QED
          BY <4>1, <4>2 DEF ResolutionIsProof, In
      <3>4. AdmittedOrDenied'
        BY <1>s, <2>2, <2>3, <2>5, <2>6
        DEF Stands, AdmittedOrDenied, Denied, NeverArmed, InWindow, RowsKept
      <3>5. PopulationStands'
        BY <1>s, <2>6, <2>9 DEF Stands, PopulationStands
      <3> QED
        BY <2>2, <3>1, <3>2, <3>3, <3>4, <3>5 DEF Stands
    <2>12. Observers'
      <3>1. BlindDenied'
        BY <1>s, <2>3, <2>6 DEF Observers, BlindDenied, Denied, NeverArmed
      <3>2. OwnStep(s, t) /\ Retiring
        BY <2>2, <2>3, <2>6 DEF OwnStep, Denied, Idle, Retiring
      <3> QED
        BY <1>s, <2>2, <3>1, <3>2, OthersSound DEF Observers
    <2>13. Commands'
      BY <1>s, <2>3, <2>6, <2>9 DEF Commands, DrainRecords, Faultless, Recorded
    <2> QED
      BY <2>7, <2>11, <2>12, <2>13 DEF Sound
  <1> QED
    BY <1>1, <1>2, <1>3 DEF Observes, RollingBack

\* All the steps of a session.
LEMMA SessionKeepsSound ==
    ASSUME Sound, NEW s \in Sessions, Observer(s)
    PROVE  Sound'
  <1>1. CASE Committed(s) \/ CommitRaises(s) \/ FlushRaises(s) \/ CloseSession(s)
    <2>1. UNCHANGED <<clock, ingested, captureVars>> /\ Quietly /\ EndsTx(s)
      BY <1>1 DEF Observer, Committed, CommitRaises, FlushRaises, CloseSession,
         AfterRollback, ProvesRollback, Aborted, EndsTx
    <2> QED
      BY <2>1, EndKeepsSound
  <1> QED
    BY <1>1, BeforeFlushKeepsSound, InsertKeepsSound, BeforeCommitKeepsSound,
       RollbackKeepsSound DEF Observer, SessionStep, SessionEnds

-----------------------------------------------------------------------------
(* The steps of the database, of the operator's commands and of time. *)

\* The database decides a COMMIT whose answer nobody waits for.
LEMMA DecidedKeepsSound ==
    ASSUME Sound, NEW t \in Tx, Decided(t)
    PROVE  Sound'
  <1>s. TypeOK /\ JournalOrder /\ WitnessExact /\ Observers
    BY DEF Sound, Stands
  <1>1. /\ Status(t) = "inflight" /\ \A s \in Sessions : session[s].tx # t
        /\ \E status \in {"committed", "aborted"} : db' = [db EXCEPT ![t].status = status]
        /\ Quietly /\ UNCHANGED <<clock, ingested, session, captureVars>>
    BY DEF Decided, DbDecides
  <1> USE <1>1 DEF Quietly, captureVars
  <1>2. /\ db' \in [Tx -> DbType] /\ db'[t].status \in {"committed", "aborted"}
        /\ db'[t].rows = db[t].rows /\ db'[t].witnessed = db[t].witnessed
        /\ db'[t].witness = db[t].witness
        /\ \A u \in Tx \ {t} : db'[u] = db[u]
    <2>1. db \in [Tx -> DbType]
      BY <1>s DEF TypeOK, DbType
    <2> QED
      BY <2>1 DEF DbType
  <1>3. TypeOK'
    BY <1>s, <1>2 DEF TypeOK, DbType
  <1>4. Calm /\ Retiring /\ Costs
    BY <1>s DEF Calm, Lasting, SameLedger, JournalOrder, Retiring, Costs, TypeOK
  <1>5. RowsKept /\ WitnessExact'
    BY <1>s, <1>2 DEF RowsKept, WitnessExact, Rows, Status
  <1>6. BlindDenied'
    BY <1>s, <1>4, LastingBlind DEF Observers, Calm
  <1>7. ASSUME NEW s \in Sessions
        PROVE  SessionSound(s)'
    <2>1. session[s] \in SessionType /\ SessionSound(s) /\ Process[s] \in Workers
      BY <1>s, ObserverAssumption DEF TypeOK, SessionType, Observers
    <2>2. session[s].tx # NoTx => session[s].tx \in Tx \ {t}
      BY <2>1 DEF SessionType
    <2>3. Beside(s)
      BY <1>2, <2>2 DEF Beside, Denied
    <2> QED
      BY <2>1, <2>3, SessionBeside
  <1>8. SessionsApart'
    BY <1>s DEF Observers, SessionsApart
  <1> QED
    BY <1>3, <1>4, <1>5, <1>6, <1>7, <1>8, CalmSound DEF Observers

\* A command that raises.
LEMMA RaisesSound ==
    ASSUME Sound, NEW cost \in {0, 1}, Raises(cost),
           command' = command \/ command' = NoCommand, UNCHANGED <<drain, decision, gone>>,
           early' = early \/ early' = TRUE
    PROVE  Sound'
  <1>s. TypeOK /\ JournalOrder /\ Commands
    BY DEF Sound, Stands
  <1>1. PICK how \in Denials : Invalidate(how, cost)
    BY DEF Raises
  <1>2. UNCHANGED <<clock, ingested, proc, session, db>>
    BY DEF Raises
  <1>3. /\ fence' \in Journals /\ latched' \in BOOLEAN /\ unstored' \in BOOLEAN
        /\ faults' \in 0..MaxMishaps /\ crashes' \in 0..MaxMishaps
        /\ command' \in [name : {"none", "freeze", "handoff"}, rows : SUBSET Trades]
    BY <1>s, <1>1, Denial DEF TypeOK, NoCommand
  <1>4. TypeOK'
    BY <1>s, <1>2, <1>3 DEF TypeOK
  <1>5. Steady /\ Retiring /\ Costs
    BY <1>s, <1>1, <1>2, Denial
    DEF Steady, Calm, Lasting, JournalOrder, Retiring, Costs
  <1>6. Commands'
    <2>1. CASE command' = command
      BY <1>s, <1>4, <1>5, <2>1, CalmCommands DEF Steady
    <2>2. CASE command' = NoCommand
      <3>1. faults \in Nat /\ faults' \in Nat
        BY <1>s, <1>3 DEF TypeOK
      <3> QED
        BY <1>s, <1>5, <2>2, <3>1 DEF Commands, DrainRecords, Faultless, Recorded, NoCommand,
           Steady, Calm, Lasting, SameLedger, Costs
    <2> QED
      BY <2>1, <2>2
  <1> QED
    BY <1>2, <1>4, <1>5, <1>6, SteadySound

\* A command that leaves the journal and all beside it alone.
LEMMA OutsideSound ==
    ASSUME Sound, UNCHANGED <<fence, latched, unstored, proc, session, db, ingested>>,
           TypeOK', Commands', clock' = clock \/ clock = "pre" \/ clock' = "post",
           clock' = "pre" => clock = "pre"
    PROVE  Sound'
  <1>1. Steady /\ Retiring
    BY DEF Sound, Stands, Steady, Calm, Lasting, SameLedger, JournalOrder, Retiring
  <1> QED
    BY <1>1, SteadySound

\* Time goes on, the source decides, a hand changes the database, a command
\* dies: none of these touches the journal.
LEMMA BesideJournalKeepsSound ==
    ASSUME Sound, Tick \/ CommandDies \/ \E r \in Trades : Decide(r) \/ Tamper(r)
    PROVE  Sound'
  <1>s. TypeOK /\ Commands
    BY DEF Sound
  <1>1. CASE Tick
    <2>1. clock' \in {"in", "post"} /\ (clock = "pre" \/ clock' = "post")
          /\ UNCHANGED <<ingested, fence, latched, unstored, proc, session, db, faults,
                         crashes, captureVars>>
      BY <1>1 DEF Tick
    <2> USE <2>1 DEF captureVars
    <2>2. TypeOK'
      BY <1>s DEF TypeOK
    <2>3. Commands'
      BY <1>s DEF Commands, DrainRecords, Faultless, Recorded, CommittedPopulation, InWindow, In
    <2> QED
      BY <2>2, <2>3, OutsideSound
  <1>2. CASE CommandDies
    <2>1. command' = NoCommand /\ Dies
          /\ UNCHANGED <<clock, ingested, fence, latched, unstored, proc, session, db, drain,
                         decision, gone, early>>
      BY <1>2 DEF CommandDies
    <2> USE <2>1
    <2>2. crashes' \in 0..MaxMishaps /\ faults' = faults
          /\ command' \in [name : {"none", "freeze", "handoff"}, rows : SUBSET Trades]
      BY <1>s, ObserverAssumption DEF Dies, TypeOK, NoCommand
    <2>3. TypeOK'
      BY <1>s, <2>2 DEF TypeOK
    <2>4. Commands'
      BY <1>s, <2>2 DEF Commands, DrainRecords, Faultless, Recorded, NoCommand
    <2> QED
      BY <2>3, <2>4, OutsideSound
  <1>3. ASSUME NEW r \in Trades, Decide(r)
        PROVE  Sound'
    <2>1. /\ \E d \in {"original", "uncopied"} : decision' = [decision EXCEPT ![r] = d]
          /\ UNCHANGED <<clock, ingested, fence, latched, unstored, proc, session, db, faults,
                         crashes, command, drain, gone, early>>
      BY <1>3 DEF Decide, OutsideJournal
    <2> USE <2>1
    <2>2. TypeOK'
      BY <1>s DEF TypeOK, Decisions
    <2>3. Commands'
      BY <1>s DEF Commands, DrainRecords, Faultless, Recorded, CommittedPopulation, InWindow, In
    <2> QED
      BY <2>2, <2>3, OutsideSound
  <1>4. ASSUME NEW r \in Trades, Tamper(r)
        PROVE  Sound'
    <2>1. Spend(1)
          /\ UNCHANGED <<clock, ingested, fence, latched, unstored, proc, session, db, command,
                         drain, early>>
      BY <1>4 DEF Tamper
    <2> USE <2>1
    <2>2. faults' \in 0..MaxMishaps /\ crashes' \in 0..MaxMishaps /\ faults' > 0
      BY <1>s, ObserverAssumption DEF Spend, TypeOK
    <2>3. decision' \in [Trades -> Decisions] /\ gone' \subseteq Trades
      BY <1>s, <1>4 DEF Tamper, TypeOK, Decisions
    <2>4. TypeOK'
      BY <1>s, <2>2, <2>3 DEF TypeOK
    <2>5. Commands'
      BY <1>s, <2>2 DEF Commands, DrainRecords, Faultless, Recorded, CommittedPopulation,
         InWindow, In
    <2> QED
      BY <2>4, <2>5, OutsideSound
  <1> QED
    BY <1>1, <1>2, <1>3, <1>4

\* Closing, the receipt, the freeze and the archive each advance one stage.
Freezing(rows) == [kind |-> "FREEZE", facts |-> rows]

\* The end of the window's epoch.
LEMMA CloseApplied ==
    ASSUME NEW f \in Journals, NEW g, f.epoch = 0, g = Apply(f, [kind |-> "CLOSE"])
    PROVE  /\ g \in Journals /\ g.attempts = f.attempts /\ g.epoch = 1 /\ g.closed
           /\ g.receipt = f.receipt /\ g.frozen = f.frozen /\ g.facts = f.facts
           /\ g.archive = f.archive /\ g.armed = f.armed /\ g.error = f.error
           /\ g.workers = f.workers
  <1> DEFINE h == [f EXCEPT !.closed = TRUE]
  <1>1. g = [f EXCEPT !.closed = TRUE, !.epoch = 1]
    BY JournalFields DEF Apply
  <1>2. g = [h EXCEPT !.epoch = 1]
    BY <1>1
  <1>3. /\ h \in Journals /\ h.closed /\ h.attempts = f.attempts /\ h.receipt = f.receipt
        /\ h.frozen = f.frozen /\ h.facts = f.facts /\ h.archive = f.archive
        /\ h.armed = f.armed /\ h.error = f.error /\ h.workers = f.workers
    BY JournalFields
  <1> HIDE DEF h
  <1>4. g \in Journals
    BY <1>2, <1>3, JournalFields
  <1> QED
    BY <1>2, <1>3, <1>4, JournalFields

\* The receipt.
LEMMA ReceiptApplied ==
    ASSUME NEW f \in Journals, NEW g, g = Apply(f, [kind |-> "FENCE"])
    PROVE  /\ g \in Journals /\ g.attempts = f.attempts /\ g.epoch = f.epoch
           /\ g.closed = f.closed /\ g.receipt /\ g.frozen = f.frozen /\ g.facts = f.facts
           /\ g.archive = f.archive /\ g.armed = f.armed /\ g.error = f.error
           /\ g.workers = f.workers
  <1>1. g = [f EXCEPT !.receipt = TRUE]
    BY DEF Apply
  <1>2. g \in Journals
    BY <1>1, JournalFields
  <1> QED
    BY <1>1, <1>2, JournalFields

\* The freeze.
LEMMA FreezeApplied ==
    ASSUME NEW f \in Journals, NEW rows \in SUBSET Trades, NEW g, g = Apply(f, Freezing(rows))
    PROVE  /\ g \in Journals /\ g.attempts = f.attempts /\ g.epoch = f.epoch
           /\ g.closed = f.closed /\ g.receipt = f.receipt /\ g.frozen /\ g.facts = rows
           /\ g.archive = f.archive /\ g.armed = f.armed /\ g.error = f.error
           /\ g.workers = f.workers
  <1>1. g = [f EXCEPT !.frozen = TRUE, !.facts = rows]
    BY DEF Apply, Freezing
  <1>2. g \in Journals
    BY <1>1, JournalFields
  <1> QED
    BY <1>1, <1>2, JournalFields

\* The archive.
LEMMA ArchiveApplied ==
    ASSUME NEW f \in Journals, NEW g, g = Apply(f, [kind |-> "ARCHIVE"])
    PROVE  /\ g \in Journals /\ g.attempts = f.attempts /\ g.epoch = f.epoch
           /\ g.closed = f.closed /\ g.receipt = f.receipt /\ g.frozen = f.frozen
           /\ g.facts = f.facts /\ g.archive /\ g.armed = f.armed /\ g.error = f.error
           /\ g.workers = f.workers
  <1>1. g = [f EXCEPT !.archive = TRUE]
    BY DEF Apply
  <1>2. g \in Journals
    BY <1>1, JournalFields
  <1> QED
    BY <1>1, <1>2, JournalFields

\* An event that advances a stage leaves the sessions and their processes alone.
LEMMA StageObservers ==
    ASSUME TypeOK, Observers, fence'.attempts = fence.attempts, fence'.error = fence.error,
           fence'.armed = fence.armed, fence.archive => fence'.archive,
           UNCHANGED <<clock, latched, unstored, proc, session, db>>
    PROVE  Observers'
  <1>1. BlindDenied'
    BY DEF Observers, BlindDenied, Denied, NeverArmed
  <1>2. SessionsApart'
    BY DEF Observers, SessionsApart
  <1>3. ASSUME NEW s \in Sessions
        PROVE  SessionSound(s)'
    <2>1. Beside(s)
      BY DEF Beside, Denied
    <2> QED
      BY <2>1, SessionBeside DEF Observers
  <1> QED
    BY <1>1, <1>2, <1>3 DEF Observers

\* The operator closes the epoch.
LEMMA CloseKeepsSound ==
    ASSUME Sound, Close
    PROVE  Sound'
  <1>s. TypeOK /\ Stands /\ JournalOrder /\ Observers /\ Commands
    BY DEF Sound, Stands
  <1>1. /\ Legal(fence, [kind |-> "CLOSE"]) /\ fence' = Apply(fence, [kind |-> "CLOSE"])
        /\ UNCHANGED <<clock, ingested, latched, unstored, proc, session, db, faults, crashes,
                       captureVars>>
    BY DEF Close, ByCommand, Append
  <1> USE <1>1 DEF captureVars
  <1>2. ~fence.closed /\ clock = "post" /\ fence \in Journals
    <2>1. fence \in Journals
      BY <1>s DEF TypeOK
    <2> QED
      BY <2>1 DEF Legal
  <1>3. fence.epoch = 0
    BY <1>s, <1>2, JournalFields DEF JournalOrder
  <1>4. /\ fence' \in Journals /\ fence'.attempts = fence.attempts /\ fence'.epoch = 1
        /\ fence'.closed /\ fence'.receipt = fence.receipt /\ fence'.frozen = fence.frozen
        /\ fence'.facts = fence.facts /\ fence'.archive = fence.archive
        /\ fence'.armed = fence.armed /\ fence'.error = fence.error
        /\ fence'.workers = fence.workers
    BY <1>2, <1>3, CloseApplied
  <1>5. TypeOK'
    BY <1>s, <1>4 DEF TypeOK
  <1>6. CommittedPopulation(fence)' = CommittedPopulation(fence)
    BY <1>4 DEF CommittedPopulation, InWindow, In
  <1>7. Stands'
    <2>1. JournalOrder'
      <3>1. fence.armed
        BY DEF Close, Opens
      <3> QED
        BY <1>s, <1>2, <1>4, <3>1 DEF JournalOrder
    <2>2. RowsIngested' /\ WitnessExact' /\ LateAdmissions' /\ ResolutionIsProof'
      BY <1>s, <1>4
      DEF Stands, RowsIngested, WitnessExact, LateAdmissions, ResolutionIsProof, In, Rows,
          Status
    <2>3. AdmittedOrDenied' /\ PopulationStands'
      BY <1>s, <1>4, <1>6
      DEF Stands, AdmittedOrDenied, PopulationStands, Denied, NeverArmed, InWindow, Rows
    <2> QED
      BY <2>1, <2>2, <2>3 DEF Stands
  <1>8. Observers'
    BY <1>s, <1>4, StageObservers
  <1>9. Commands'
    BY <1>s, <1>4, <1>6 DEF Commands, DrainRecords, Faultless, Recorded
  <1> QED
    BY <1>5, <1>7, <1>8, <1>9 DEF Sound

\* The receipt: whoever has a row of the window and was not admitted would have
\* been denied, and the denial would be in the journal or in the latch.
LEMMA CompleteKeepsSound ==
    ASSUME Sound, Complete
    PROVE  Sound'
  <1>s. TypeOK /\ Stands /\ JournalOrder /\ Observers /\ Commands
    BY DEF Sound, Stands
  <1>1. /\ Legal(fence, [kind |-> "FENCE"]) /\ fence' = Apply(fence, [kind |-> "FENCE"])
        /\ UNCHANGED <<clock, ingested, latched, unstored, proc, session, db, faults, crashes,
                       captureVars>>
        /\ fence.armed /\ ~latched /\ command = NoCommand
    BY DEF Complete, ByCommand, Append, Opens
  <1> USE <1>1 DEF captureVars
  <1>2. /\ fence \in Journals /\ ~fence.error /\ fence.closed /\ Outstanding(fence) = {}
        /\ ~fence.receipt
    <2>1. fence \in Journals
      BY <1>s DEF TypeOK
    <2> QED
      BY <2>1 DEF Legal
  <1>4. /\ fence' \in Journals /\ fence'.attempts = fence.attempts
        /\ fence'.epoch = fence.epoch /\ fence'.closed = fence.closed
        /\ fence'.receipt /\ fence'.frozen = fence.frozen
        /\ fence'.facts = fence.facts /\ fence'.archive = fence.archive
        /\ fence'.armed = fence.armed /\ fence'.error = fence.error
        /\ fence'.workers = fence.workers
    BY <1>2, ReceiptApplied
  <1>5. TypeOK'
    BY <1>s, <1>4 DEF TypeOK
  <1>6. CommittedPopulation(fence)' = CommittedPopulation(fence)
    BY <1>4 DEF CommittedPopulation, InWindow, In
  <1>7. Stands'
    <2>1. JournalOrder'
      BY <1>s, <1>2, <1>4 DEF JournalOrder, Outstanding, In
    <2>2. RowsIngested' /\ WitnessExact' /\ LateAdmissions' /\ ResolutionIsProof'
      BY <1>s, <1>4
      DEF Stands, RowsIngested, WitnessExact, LateAdmissions, ResolutionIsProof, In, Rows,
          Status
    <2>3. AdmittedOrDenied'
      BY <1>s, <1>2, <1>4 DEF Stands, AdmittedOrDenied, Denied, NeverArmed, InWindow, Rows
    <2>4. PopulationStands'
      BY <1>s, <1>4, <1>6 DEF Stands, PopulationStands
    <2> QED
      BY <2>1, <2>2, <2>3, <2>4 DEF Stands
  <1>8. Observers'
    BY <1>s, <1>4, StageObservers
  <1>9. Commands'
    BY <1>s, <1>4, <1>6 DEF Commands, DrainRecords, Faultless, Recorded, NoCommand
  <1> QED
    BY <1>5, <1>7, <1>8, <1>9 DEF Sound

\* After the receipt the journal's population is that of the transactions it
\* admitted: none of them is outstanding, and those of the next epoch came late.
AdmittedRows == InWindow(UNION {Rows(t) : t \in {u \in CommittedTx :
                                                 fence.attempts[u] # NoAttempt}})

\* It is what the database has committed of them.
LEMMA FencedPopulation ==
    ASSUME TypeOK, Stands, fence.receipt
    PROVE  CommittedPopulation(fence) = AdmittedRows
  <1>1. fence \in Journals /\ Outstanding(fence) = {} /\ ResolutionIsProof /\ LateAdmissions
    BY DEF TypeOK, Stands, JournalOrder
  <1>2. ASSUME NEW r \in CommittedPopulation(fence)
        PROVE  r \in AdmittedRows
    <2>1. PICK t \in In(fence, "COMMITTED") : r \in fence.attempts[t].facts
      BY DEF CommittedPopulation, InWindow
    <2>2. Status(t) = "committed" /\ r \in Rows(t) /\ t \in Tx
      BY <1>1, <2>1 DEF ResolutionIsProof, In
    <2>3. fence.attempts[t] # NoAttempt
      BY <2>1 DEF In, NoAttempt
    <2> QED
      BY <2>2, <2>3 DEF AdmittedRows, CommittedPopulation, InWindow, CommittedTx
  <1>3. ASSUME NEW r \in AdmittedRows
        PROVE  r \in CommittedPopulation(fence)
    <2>1. PICK t \in Tx : /\ Status(t) = "committed" /\ fence.attempts[t] # NoAttempt
                          /\ r \in Rows(t) /\ ingested[r] = "in"
      BY DEF AdmittedRows, InWindow, CommittedTx
    <2>2. fence.attempts[t] \in Admitted
      BY <1>1, <2>1, AttemptCases
    <2>3. fence.attempts[t].epoch = 0
      BY <1>1, <2>1, <2>2 DEF LateAdmissions, Admitted
    <2>4. fence.attempts[t].state = "COMMITTED"
      BY <1>1, <2>1, <2>2, <2>3 DEF ResolutionIsProof, Outstanding, In, Admitted
    <2>5. fence.attempts[t].facts = Rows(t)
      BY <1>1, <2>4 DEF ResolutionIsProof, In
    <2> QED
      BY <2>1, <2>4, <2>5 DEF CommittedPopulation, InWindow, In
  <1> QED
    BY <1>2, <1>3

\* freeze: without a fault the snapshot is that population.
LEMMA FreezeKeepsSound ==
    ASSUME Sound, Freeze
    PROVE  Sound'
  <1>s. TypeOK /\ Stands /\ JournalOrder /\ Commands
    BY DEF Sound, Stands
  <1>1. /\ command' = [name |-> "freeze", rows |-> InWindow(CommittedRows) \ gone]
        /\ fence.receipt /\ ~fence.frozen
        /\ UNCHANGED <<clock, ingested, fence, latched, unstored, proc, session, db, faults,
                       crashes, drain, decision, gone, early>>
    BY DEF Freeze, OutsideJournal
  <1> USE <1>1
  <1>2. TypeOK'
    <2>1. InWindow(CommittedRows) \ gone \in SUBSET Trades
      BY <1>s DEF TypeOK, InWindow, CommittedRows, CommittedTx, Rows
    <2>2. command' \in [name : {"none", "freeze", "handoff"}, rows : SUBSET Trades]
      BY <2>1
    <2> QED
      BY <1>s, <2>2 DEF TypeOK
  <1>3. ASSUME ~(faults > 0)
        PROVE  InWindow(CommittedRows) \ gone = CommittedPopulation(fence)
    <2>1. ~unstored /\ gone = {}
      BY <1>s, <1>3 DEF Commands, Faultless
    <2>2. \A t \in CommittedTx : InWindow(Rows(t)) # {} => fence.attempts[t] # NoAttempt
      BY <1>s, <2>1 DEF Stands, AdmittedOrDenied, CommittedTx
    <2>3. InWindow(CommittedRows) = AdmittedRows
      BY <2>2 DEF AdmittedRows, InWindow, CommittedRows, CommittedTx
    <2> QED
      BY <1>s, <2>1, <2>3, FencedPopulation
  <1>4. Commands'
    <2>1. CommittedPopulation(fence)' = CommittedPopulation(fence)
      BY DEF CommittedPopulation, InWindow, In
    <2>2. /\ command'.name = "freeze"
          /\ command'.rows = InWindow(CommittedRows) \ gone
      OBVIOUS
    <2> QED
      BY <1>s, <1>3, <2>1, <2>2 DEF Commands, DrainRecords, Faultless, Recorded
  <1> QED
    BY <1>s, <1>2, <1>4, OutsideSound

\* The event of the freeze holds the journal's population, or is refused.
LEMMA FrozenKeepsSound ==
    ASSUME Sound, Frozen
    PROVE  Sound'
  <1>s. TypeOK /\ Stands /\ JournalOrder /\ Observers /\ Commands
    BY DEF Sound, Stands
  <1>1. command' = NoCommand /\ UNCHANGED <<drain, decision, gone, early>>
    BY DEF Frozen
  <1>2. CASE Raises(0)
    BY <1>1, <1>2, RaisesSound
  <1>3. CASE ByCommand(Freezing(command.rows))
    <2>1. /\ Legal(fence, Freezing(command.rows))
          /\ fence' = Apply(fence, Freezing(command.rows))
          /\ UNCHANGED <<clock, ingested, latched, unstored, proc, session, db, faults, crashes>>
      BY <1>3 DEF ByCommand, Append
    <2> USE <1>1, <2>1
    <2>2. fence \in Journals /\ command.rows \in SUBSET Trades
      BY <1>s DEF TypeOK
    <2>3. /\ fence.receipt /\ ~fence.frozen /\ command.rows = CommittedPopulation(fence)
      BY <2>2 DEF Legal, Freezing, PopulationProven
    <2>4. /\ fence' \in Journals /\ fence'.attempts = fence.attempts
          /\ fence'.epoch = fence.epoch /\ fence'.closed = fence.closed
          /\ fence'.receipt = fence.receipt /\ fence'.frozen
          /\ fence'.facts = command.rows /\ fence'.archive = fence.archive
          /\ fence'.armed = fence.armed /\ fence'.error = fence.error
          /\ fence'.workers = fence.workers
      BY <2>2, FreezeApplied
    <2>5. TypeOK'
      <3>1. command' \in [name : {"none", "freeze", "handoff"}, rows : SUBSET Trades]
        BY DEF NoCommand
      <3> QED
        BY <1>s, <2>4, <3>1 DEF TypeOK
    <2>6. CommittedPopulation(fence)' = CommittedPopulation(fence)
      BY <2>4 DEF CommittedPopulation, InWindow, In
    <2>7. Stands'
      <3>1. JournalOrder'
        BY <1>s, <2>3, <2>4 DEF JournalOrder, Outstanding, In
      <3>2. RowsIngested' /\ WitnessExact' /\ LateAdmissions' /\ ResolutionIsProof'
        BY <1>s, <2>4
        DEF Stands, RowsIngested, WitnessExact, LateAdmissions, ResolutionIsProof, In, Rows,
            Status
      <3>3. AdmittedOrDenied'
        BY <1>s, <2>4 DEF Stands, AdmittedOrDenied, Denied, NeverArmed, InWindow, Rows
      <3>4. PopulationStands'
        BY <2>3, <2>4, <2>6 DEF PopulationStands
      <3> QED
        BY <3>1, <3>2, <3>3, <3>4 DEF Stands
    <2>8. Observers'
      BY <1>s, <2>4, StageObservers
    <2>9. Commands'
      BY <1>s, <2>3, <2>4 DEF Commands, DrainRecords, Faultless, Recorded, NoCommand
    <2> QED
      BY <2>5, <2>7, <2>8, <2>9 DEF Sound
  <1> QED
    BY <1>2, <1>3 DEF Frozen, Freezing

\* A frame of the drain is complete only with a decision for every frozen trade.
LEMMA FrameRecords ==
    ASSUME TypeOK, NEW error \in BOOLEAN
    PROVE  /\ Frame(error) \in [state : {"NOT_STARTED", "DRAINING", "COMPLETE", "FAILED"},
                                perId : [Trades -> {"PENDING", "original", "changed"}]]
           /\ Frame(error).state = "COMPLETE" =>
                  \A r \in fence.facts : Frame(error).perId[r] # "PENDING"
  <1> DEFINE perId == [r \in Trades |-> IF error \/ r \notin fence.facts THEN drain.perId[r]
                                        ELSE Visible(r)]
             state == IF error THEN "FAILED"
                      ELSE IF Awaited(perId) # {} THEN "DRAINING" ELSE "COMPLETE"
  <1>1. perId \in [Trades -> {"PENDING", "original", "changed"}]
    BY DEF TypeOK, Visible, Decisions
  <1>2. state = "COMPLETE" => \A r \in fence.facts : perId[r] # "PENDING"
    BY DEF Awaited
  <1>3. Frame(error) = [perId |-> perId, state |-> state]
    BY DEF Frame
  <1>4. state \in {"NOT_STARTED", "DRAINING", "COMPLETE", "FAILED"}
    OBVIOUS
  <1> HIDE DEF perId, state
  <1> QED
    BY <1>1, <1>2, <1>3, <1>4

\* A step of the drain.
LEMMA DrainKeepsSound ==
    ASSUME Sound, DrainStep
    PROVE  Sound'
  <1>s. TypeOK /\ Commands /\ JournalOrder
    BY DEF Sound, Stands
  <1>1. /\ command = NoCommand /\ fence.frozen /\ drain.state \in {"NOT_STARTED", "DRAINING"}
        /\ UNCHANGED <<command, decision, gone, early>>
        /\ \/ Raises(0) /\ UNCHANGED drain
           \/ OutsideJournal /\ \E error \in BOOLEAN : drain' = Frame(error)
    BY DEF DrainStep, Opens
  <1> USE <1>1
  <1>2. CASE Raises(0) /\ UNCHANGED drain
    BY <1>2, RaisesSound
  <1>3. ASSUME OutsideJournal, NEW error \in BOOLEAN, drain' = Frame(error)
        PROVE  Sound'
    <2> USE <1>3 DEF OutsideJournal
    <2>1. TypeOK'
      BY <1>s, FrameRecords DEF TypeOK
    <2>2. ~fence.archive
      BY <1>s DEF Commands, DrainRecords
    <2>3. drain'.state = "COMPLETE" => \A r \in fence'.facts : Recorded(r)'
      BY <1>s, FrameRecords DEF Recorded
    <2>4. Commands'
      BY <1>s, <2>2, <2>3 DEF Commands, DrainRecords, Faultless, NoCommand
    <2> QED
      BY <2>1, <2>4, OutsideSound
  <1> QED
    BY <1>2, <1>3

\* handoff: only a complete drain is handed off.
LEMMA HandoffKeepsSound ==
    ASSUME Sound, Handoff
    PROVE  Sound'
  <1>s. TypeOK /\ Commands
    BY DEF Sound
  <1>1. /\ drain.state = "COMPLETE" /\ command' = [NoCommand EXCEPT !.name = "handoff"]
        /\ UNCHANGED <<clock, ingested, fence, latched, unstored, proc, session, db, faults,
                       crashes, drain, decision, gone, early>>
    BY DEF Handoff, OutsideJournal
  <1> USE <1>1
  <1>2. command'.name = "handoff"
        /\ command' \in [name : {"none", "freeze", "handoff"}, rows : SUBSET Trades]
    BY DEF NoCommand
  <1>3. TypeOK'
    BY <1>s, <1>2 DEF TypeOK
  <1>4. Commands'
    BY <1>s, <1>2 DEF Commands, DrainRecords, Faultless, Recorded
  <1> QED
    BY <1>3, <1>4, OutsideSound

\* The ARCHIVE is appended, or refused.
LEMMA ArchiveKeepsSound ==
    ASSUME Sound, Archive
    PROVE  Sound'
  <1>s. TypeOK /\ Stands /\ JournalOrder /\ Observers /\ Commands
    BY DEF Sound, Stands
  <1>1. /\ command.name = "handoff" /\ command' = NoCommand
        /\ UNCHANGED <<drain, decision, gone, early>>
    BY DEF Archive
  <1>2. CASE Raises(0)
    BY <1>1, <1>2, RaisesSound
  <1>3. CASE ByCommand([kind |-> "ARCHIVE"])
    <2>1. /\ Legal(fence, [kind |-> "ARCHIVE"])
          /\ fence' = Apply(fence, [kind |-> "ARCHIVE"])
          /\ UNCHANGED <<clock, ingested, latched, unstored, proc, session, db, faults, crashes>>
      BY <1>3 DEF ByCommand, Append
    <2> USE <1>1, <2>1
    <2>2. fence \in Journals
      BY <1>s DEF TypeOK
    <2>3. fence.frozen /\ ~fence.archive
      BY <2>2 DEF Legal, Sealable
    <2>4. /\ fence' \in Journals /\ fence'.attempts = fence.attempts
          /\ fence'.epoch = fence.epoch /\ fence'.closed = fence.closed
          /\ fence'.receipt = fence.receipt /\ fence'.frozen = fence.frozen
          /\ fence'.facts = fence.facts /\ fence'.archive
          /\ fence'.armed = fence.armed /\ fence'.error = fence.error
          /\ fence'.workers = fence.workers
      BY <2>2, ArchiveApplied
    <2>5. TypeOK'
      <3>1. command' \in [name : {"none", "freeze", "handoff"}, rows : SUBSET Trades]
        BY DEF NoCommand
      <3> QED
        BY <1>s, <2>4, <3>1 DEF TypeOK
    <2>6. CommittedPopulation(fence)' = CommittedPopulation(fence)
      BY <2>4 DEF CommittedPopulation, InWindow, In
    <2>7. Stands'
      <3>1. JournalOrder'
        BY <1>s, <2>3, <2>4 DEF JournalOrder, Outstanding, In
      <3>2. RowsIngested' /\ WitnessExact' /\ LateAdmissions' /\ ResolutionIsProof'
        BY <1>s, <2>4
        DEF Stands, RowsIngested, WitnessExact, LateAdmissions, ResolutionIsProof, In, Rows,
            Status
      <3>3. AdmittedOrDenied' /\ PopulationStands'
        BY <1>s, <2>4, <2>6
        DEF Stands, AdmittedOrDenied, PopulationStands, Denied, NeverArmed, InWindow, Rows
      <3> QED
        BY <3>1, <3>2, <3>3 DEF Stands
    <2>8. Observers'
      BY <1>s, <2>4, StageObservers
    <2>9. Commands'
      BY <1>s, <2>4 DEF Commands, DrainRecords, Faultless, Recorded, NoCommand
    <2> QED
      BY <2>5, <2>7, <2>8, <2>9 DEF Sound
  <1> QED
    BY <1>2, <1>3 DEF Archive

\* recover: the rows of a committed witness resolve the attempt; if the epoch is
\* fenced, that attempt came late and its rows are none of the window.
LEMMA RecoverKeepsSound ==
    ASSUME Sound, NEW t \in Tx, Recover(t)
    PROVE  Sound'
  <1>s. TypeOK /\ Stands /\ JournalOrder /\ WitnessExact /\ Observers /\ Commands
    BY DEF Sound, Stands
  <1>1. /\ command = NoCommand /\ Status(t) = "committed" /\ db[t].witnessed
        /\ t \in In(fence, "OUTSTANDING") /\ UNCHANGED captureVars
    BY DEF Recover, Opens
  <1> USE <1>1 DEF captureVars
  <1>2. CASE Raises(0)
    BY <1>2, RaisesSound
  <1>3. CASE ByCommand(Committing(t, db[t].witness))
    <2>1. db[t].witness = Rows(t) /\ Rows(t) \in SUBSET Trades
      BY <1>s DEF WitnessExact, TypeOK, Rows
    <2>2. /\ Legal(fence, Committing(t, Rows(t)))
          /\ fence' = Apply(fence, Committing(t, Rows(t)))
          /\ UNCHANGED <<clock, ingested, latched, unstored, proc, session, db, faults, crashes>>
      BY <1>3, <2>1 DEF ByCommand, Append
    <2> USE <2>2 DEF SameStages
    <2>3. /\ fence \in Journals /\ fence.attempts[t].state = "OUTSTANDING"
          /\ fence.attempts[t] # NoAttempt
      BY <1>s DEF TypeOK, In, NoAttempt
    <2>4. /\ fence' \in Journals /\ SameStages(fence, fence')
          /\ fence'.attempts[t] # NoAttempt
          /\ fence'.attempts[t].epoch = fence.attempts[t].epoch
          /\ fence'.attempts[t].state = "COMMITTED" /\ fence'.attempts[t].facts = Rows(t)
          /\ \A u \in Tx \ {t} : fence'.attempts[u] = fence.attempts[u]
      BY <2>1, <2>3, CommittedApplied
    <2>5. TypeOK'
      BY <1>s, <2>4 DEF TypeOK
    <2>6. fence.receipt => InWindow(Rows(t)) = {}
      <3>1. fence.attempts[t] \in Admitted
        BY <2>3, AttemptCases
      <3>2. fence.receipt => fence.attempts[t].epoch = 1
        BY <1>s, <2>3, <3>1 DEF JournalOrder, Outstanding, In, Admitted
      <3> QED
        BY <1>s, <2>3, <3>2 DEF Stands, LateAdmissions, InWindow
    <2>7. fence.receipt => CommittedPopulation(fence)' = CommittedPopulation(fence)
      <3>1. In(fence', "COMMITTED") = In(fence, "COMMITTED") \union {t}
        BY <2>4 DEF In
      <3>2. \A u \in In(fence, "COMMITTED") : fence'.attempts[u].facts = fence.attempts[u].facts
        BY <2>3, <2>4 DEF In
      <3> QED
        BY <2>4, <2>6, <3>1, <3>2 DEF CommittedPopulation, InWindow
    <2>8. Stands'
      <3>1. JournalOrder'
        BY <1>s, <2>3, <2>4 DEF JournalOrder, Outstanding, In
      <3>2. RowsIngested' /\ WitnessExact' /\ LateAdmissions'
        BY <1>s, <2>3, <2>4
        DEF Stands, RowsIngested, WitnessExact, LateAdmissions, Rows, Status
      <3>3. ResolutionIsProof'
        BY <1>s, <2>4 DEF Stands, ResolutionIsProof, In, Rows, Status
      <3>4. AdmittedOrDenied'
        BY <1>s, <2>3, <2>4
        DEF Stands, AdmittedOrDenied, Denied, NeverArmed, InWindow, Rows
      <3>5. PopulationStands'
        BY <1>s, <2>4, <2>7 DEF Stands, JournalOrder, PopulationStands
      <3> QED
        BY <3>1, <3>2, <3>3, <3>4, <3>5 DEF Stands
    <2>9. Observers'
      <3>1. BlindDenied'
        BY <1>s, <2>4 DEF Observers, BlindDenied, Denied, NeverArmed
      <3>2. SessionsApart'
        BY <1>s DEF Observers, SessionsApart
      <3>3. ASSUME NEW s \in Sessions
            PROVE  SessionSound(s)'
        <4>1. session[s] \in SessionType /\ SessionSound(s)
          BY <1>s DEF TypeOK, SessionType, Observers
        <4>2. session[s].token # NoTx => session[s].token \in Tx \ {t}
          BY <4>1 DEF SessionType, SessionSound, Idle
        <4>3. Beside(s)
          BY <2>4, <4>2 DEF Beside, Denied
        <4> QED
          BY <4>1, <4>3, SessionBeside
      <3> QED
        BY <3>1, <3>2, <3>3 DEF Observers
    <2>10. Commands'
      BY <1>s, <2>4 DEF Commands, DrainRecords, Faultless, Recorded, NoCommand
    <2> QED
      BY <2>5, <2>8, <2>9, <2>10 DEF Sound
  <1> QED
    BY <1>2, <1>3 DEF Recover, Committing

-----------------------------------------------------------------------------
\* Every step keeps the invariant.
LEMMA NextKeepsSound ==
    ASSUME Sound, [Next]_vars
    PROVE  Sound'
  <1>1. CASE UNCHANGED vars
    <2> USE <1>1 DEF vars, observerVars, captureVars
    <2>1. TypeOK' /\ Commands'
      BY DEF Sound, TypeOK, Commands, DrainRecords, Faultless, Recorded, CommittedPopulation,
         InWindow, In
    <2> QED
      BY <2>1, OutsideSound
  <1>2. ASSUME NEW w \in Workers, Worker(w)
        PROVE  Sound'
    BY <1>2, StartKeepsSound, MisconfiguredKeepsSound, DuplicateKeepsSound, ControlKeepsSound,
       CrashKeepsSound DEF Worker
  <1>3. ASSUME NEW t \in Tx, Decided(t) \/ Recover(t)
        PROVE  Sound'
    BY <1>3, DecidedKeepsSound, RecoverKeepsSound
  <1>4. CASE Operator
    <2>1. CASE CommandRaises
      <3>1. PICK cost \in {0, 1} : Raises(cost)
        BY <2>1 DEF CommandRaises
      <3>2. UNCHANGED captureVars
        BY <2>1 DEF CommandRaises
      <3> QED
        BY <3>1, <3>2, RaisesSound DEF captureVars
    <2>2. ASSUME NEW name \in {"freeze", "drain", "handoff"}, OutOfTurn(name)
          PROVE  Sound'
      BY <2>2, RaisesSound DEF OutOfTurn
    <2> QED
      BY <1>4, <2>1, <2>2, CloseKeepsSound, CompleteKeepsSound, FreezeKeepsSound, FrozenKeepsSound,
         DrainKeepsSound, HandoffKeepsSound, ArchiveKeepsSound, BesideJournalKeepsSound
      DEF Operator
  <1> QED
    BY <1>1, <1>2, <1>3, <1>4, SessionKeepsSound, BesideJournalKeepsSound DEF Next

\* The invariant holds in every state.
THEOREM AlwaysSound == Spec => []Sound
  BY InitSound, NextKeepsSound, PTL DEF Spec
=============================================================================
