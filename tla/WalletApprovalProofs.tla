------------------------ MODULE WalletApprovalProofs ------------------------
(***************************************************************************)
(* The review queue for any number of wallets and of scoring runs.  Sound  *)
(* is the inductive invariant: a wallet's row is held by one transaction,  *)
(* and the entries that transaction has found are still there.             *)
(***************************************************************************)
EXTENDS WalletApproval, FiniteSetTheorems, TLAPS

\* The row lock is exclusive.
OneHolder ==
    \A s, r \in Scorers :
        at[s] = at[r] /\ to[s] # "same" /\ to[r] # "same" => s = r

\* A run without a transaction has found nothing and writes nothing.
IdleClean == \A s \in Scorers : Idle(s) => to[s] = "same"

\* While the row is held nobody closes the entries that were found.
FoundStay == \A s \in Scorers : to[s] # "same" => found[s] <= entries[at[s]]

Sound == TypeOK /\ OneHolder /\ IdleClean /\ FoundStay /\ PendingIsQueued

\* The transactions about to add an entry for the wallet.
Adders(w) == {s \in Scorers : at[s] = w /\ Adds(s)}

-----------------------------------------------------------------------------
\* Nothing is in review before the first intake.
LEMMA InitSound ==
    ASSUME Init
    PROVE  Sound
  <1>1. TypeOK
    BY DEF Init, TypeOK, Candidate, Decided
  <1>2. OneHolder /\ IdleClean /\ FoundStay /\ PendingIsQueued
    BY DEF Init, OneHolder, IdleClean, FoundStay, PendingIsQueued
  <1> QED
    BY <1>1, <1>2 DEF Sound

\* A run opens its transaction on a wallet: it reads the queue with the row in
\* its hands if it is to write the state.
LEMMA OpenKeepsSound ==
    ASSUME Sound, NEW s \in Scorers, NEW w \in Wallets, NEW target \in Candidate \union {"same"},
           Idle(s), target # "same" => ~Locked(w), Open(s, w, target)
    PROVE  Sound'
  <1>t. TypeOK /\ OneHolder /\ IdleClean /\ FoundStay /\ PendingIsQueued
    BY DEF Sound
  <1>1. /\ at' = [at EXCEPT ![s] = w] /\ to' = [to EXCEPT ![s] = target]
        /\ found' = [found EXCEPT ![s] = entries[w]]
        /\ snapshot' = [snapshot EXCEPT ![s][w] = "none"]
        /\ state' = state /\ entries' = entries
    BY DEF Open
  <1>2. TypeOK'
    BY <1>t, <1>1 DEF TypeOK
  <1>3. /\ at'[s] = w /\ to'[s] = target /\ found'[s] = entries[w]
        /\ \A r \in Scorers \ {s} : at'[r] = at[r] /\ to'[r] = to[r] /\ found'[r] = found[r]
    BY <1>t, <1>1 DEF TypeOK
  <1>4. \A r \in Scorers \ {s} : at[r] = w /\ to[r] # "same" => target = "same"
    BY DEF Locked
  <1>5. OneHolder'
    BY <1>t, <1>3, <1>4 DEF OneHolder
  <1>6. IdleClean'
    BY <1>t, <1>3, ApprovalAssumption DEF IdleClean, Idle
  <1>7. FoundStay'
    BY <1>t, <1>1, <1>3 DEF FoundStay, TypeOK
  <1>8. PendingIsQueued'
    BY <1>t, <1>1 DEF PendingIsQueued
  <1> QED
    BY <1>2, <1>5, <1>6, <1>7, <1>8 DEF Sound

\* A commit: the state it writes and the entries it adds or withdraws go
\* together, and an entry of another run's is never withdrawn with the row held.
LEMMA CommitKeepsSound ==
    ASSUME Sound, NEW s \in Scorers, Commit(s)
    PROVE  Sound'
  <1> DEFINE w == at[s]
             left == IF to[s] = "discovered" THEN entries[w] - found[s]
                     ELSE IF Adds(s) THEN entries[w] + 1 ELSE entries[w]
  <1>t. TypeOK /\ OneHolder /\ IdleClean /\ FoundStay /\ PendingIsQueued
    BY DEF Sound
  <1>1. /\ w \in Wallets
        /\ state' = IF to[s] = "same" THEN state ELSE [state EXCEPT ![w] = to[s]]
        /\ entries' = [entries EXCEPT ![w] = left]
        /\ at' = [at EXCEPT ![s] = Nobody] /\ to' = [to EXCEPT ![s] = "same"]
        /\ found' = [found EXCEPT ![s] = 0] /\ snapshot' = snapshot
    BY <1>t DEF Commit, Closed, Idle, TypeOK
  <1>2. entries[w] \in Nat /\ found[s] \in Nat /\ to[s] \in Candidate \union {"same"}
    BY <1>t, <1>1 DEF TypeOK
  <1>3. left \in Nat
    BY <1>t, <1>2 DEF FoundStay
  <1>4. TypeOK'
    <2> HIDE DEF left
    <2>1. state' \in [Wallets -> Candidate \union Decided \union {"absent"}]
      BY <1>t, <1>1, <1>2 DEF TypeOK
    <2> QED
      BY <1>t, <1>1, <1>3, <2>1 DEF TypeOK
  <1>5. /\ at'[s] = Nobody /\ to'[s] = "same"
        /\ \A r \in Scorers \ {s} : at'[r] = at[r] /\ to'[r] = to[r] /\ found'[r] = found[r]
        /\ entries'[w] = left
        /\ \A v \in Wallets \ {w} : entries'[v] = entries[v] /\ state'[v] = state[v]
    <2> HIDE DEF left
    <2> QED
      BY <1>t, <1>1 DEF TypeOK
  <1>6. OneHolder' /\ IdleClean'
    BY <1>t, <1>5 DEF OneHolder, IdleClean, Idle
  <1>7. FoundStay'
    <2> SUFFICES ASSUME NEW r \in Scorers, to'[r] # "same"
                 PROVE  found'[r] <= entries'[at'[r]]
      BY DEF FoundStay
    <2>1. r # s /\ at'[r] = at[r] /\ to[r] # "same" /\ found'[r] = found[r]
      BY <1>5
    <2>2. at[r] \in Wallets /\ found[r] \in Nat /\ found[r] <= entries[at[r]]
      BY <1>t, <2>1 DEF TypeOK, IdleClean, Idle, FoundStay
    <2>3. CASE at[r] = w
      <3>1. to[s] = "same"
        BY <1>t, <2>1, <2>3 DEF OneHolder
      <3>2. entries[w] <= left
        BY <1>2, <3>1
      <3> HIDE DEF left
      <3> QED
        BY <1>2, <1>3, <1>5, <2>1, <2>2, <2>3, <3>2
    <2>4. CASE at[r] # w
      BY <1>5, <2>1, <2>2, <2>4
    <2> QED
      BY <2>3, <2>4
  <1>8. PendingIsQueued'
    <2> SUFFICES ASSUME NEW v \in Wallets, state'[v] = "pending_review"
                 PROVE  entries'[v] > 0
      BY DEF PendingIsQueued
    <2>1. CASE v # w
      BY <1>t, <1>5, <2>1 DEF PendingIsQueued
    <2>2. CASE v = w /\ to[s] = "same"
      <3>1. state[w] = "pending_review"
        BY <1>1, <2>2
      <3>2. entries[w] > 0
        BY <1>t, <1>1, <3>1 DEF PendingIsQueued
      <3>3. left > 0
        BY <1>2, <2>2, <3>2
      <3> QED
        BY <1>5, <2>2, <3>3
    <2>3. CASE v = w /\ to[s] # "same"
      <3>1. to[s] = "pending_review"
        BY <1>t, <1>1, <2>3 DEF TypeOK
      <3>2. left > 0
        BY <1>t, <1>2, <3>1 DEF Adds, FoundStay
      <3> QED
        BY <1>5, <2>3, <3>2
    <2> QED
      BY <2>1, <2>2, <2>3
  <1> QED
    BY <1>4, <1>6, <1>7, <1>8 DEF Sound

\* The invariant survives every step.
LEMMA StepSound ==
    ASSUME Sound, [Next]_vars
    PROVE  Sound'
  <1>t. TypeOK /\ OneHolder /\ IdleClean /\ FoundStay /\ PendingIsQueued
    BY DEF Sound
  <1>1. CASE \E w \in Wallets : AddWallet(w)
    <2>1. PICK w \in Wallets : AddWallet(w)
      BY <1>1
    <2>2. /\ state' = [state EXCEPT ![w] = "discovered"]
          /\ UNCHANGED <<entries, snapshot, at, to, found>>
      BY <2>1 DEF AddWallet, runVars
    <2>3. TypeOK'
      BY <1>t, <2>2 DEF TypeOK, Candidate
    <2>4. OneHolder' /\ IdleClean' /\ FoundStay'
      BY <1>t, <2>2 DEF OneHolder, IdleClean, Idle, FoundStay
    <2>5. PendingIsQueued'
      BY <1>t, <2>2 DEF PendingIsQueued, TypeOK
    <2> QED
      BY <2>3, <2>4, <2>5 DEF Sound
  <1>2. CASE \E w \in Wallets, action \in DOMAIN AllowedTransitions : Human(w, action)
    <2>1. PICK w \in Wallets, action \in DOMAIN AllowedTransitions : Human(w, action)
      BY <1>2
    <2> DEFINE target == AllowedTransitions[action][2]
    <2>2. /\ ~Locked(w)
          /\ state' = [state EXCEPT ![w] = target]
          /\ entries' = [entries EXCEPT ![w] = 0]
          /\ UNCHANGED <<snapshot, at, to, found>>
      BY <2>1 DEF Human, runVars
    <2>3. target \in Decided
      <3>1. action \in {"approve", "reject", "disable", "reenable"}
        BY DEF AllowedTransitions
      <3> QED
        BY <3>1 DEF AllowedTransitions, Decided
    <2> HIDE DEF target
    <2>4. TypeOK'
      BY <1>t, <2>2, <2>3 DEF TypeOK
    <2>5. OneHolder' /\ IdleClean'
      BY <1>t, <2>2 DEF OneHolder, IdleClean, Idle
    <2>6. FoundStay'
      BY <1>t, <2>2 DEF FoundStay, Locked, TypeOK
    <2>7. PendingIsQueued'
      BY <1>t, <2>2, <2>3 DEF PendingIsQueued, TypeOK, Decided
    <2> QED
      BY <2>4, <2>5, <2>6, <2>7 DEF Sound
  <1>3. ASSUME NEW s \in Scorers, Scan(s) \/ \E w \in Wallets : LeaveAsIs(s, w)
        PROVE  Sound'
    <2>1. /\ UNCHANGED <<state, entries, at, to, found>>
          /\ snapshot' \in [Scorers -> [Wallets -> Candidate \union {"none"}]]
      <3>1. CASE Scan(s)
        BY <1>t, <3>1 DEF Scan, TypeOK
      <3>2. CASE \E w \in Wallets : LeaveAsIs(s, w)
        BY <1>t, <3>2 DEF LeaveAsIs, TypeOK
      <3> QED
        BY <1>3, <3>1, <3>2
    <2>2. TypeOK'
      BY <1>t, <2>1 DEF TypeOK
    <2>3. OneHolder' /\ IdleClean' /\ FoundStay' /\ PendingIsQueued'
      BY <1>t, <2>1 DEF OneHolder, IdleClean, Idle, FoundStay, PendingIsQueued
    <2> QED
      BY <2>2, <2>3 DEF Sound
  <1>4. ASSUME NEW s \in Scorers, NEW w \in Wallets, Queue(s, w)
        PROVE  Sound'
    <2> DEFINE target == IF snapshot[s][w] = "discovered" THEN "pending_review" ELSE "same"
    <2>1. /\ Idle(s) /\ Open(s, w, target) /\ target \in Candidate \union {"same"}
          /\ target # "same" => ~Locked(w)
      BY <1>4 DEF Queue, Candidate
    <2> HIDE DEF target
    <2> QED
      BY <2>1, OpenKeepsSound
  <1>5. ASSUME NEW s \in Scorers, NEW w \in Wallets, Withdraw(s, w)
        PROVE  Sound'
    <2>1. Idle(s) /\ ~Locked(w) /\ Open(s, w, "discovered")
      BY <1>5 DEF Withdraw
    <2>2. "discovered" \in Candidate \union {"same"}
      BY DEF Candidate
    <2> QED
      BY <2>1, <2>2, OpenKeepsSound
  <1>6. ASSUME NEW s \in Scorers, Commit(s)
        PROVE  Sound'
    BY <1>6, CommitKeepsSound
  <1>7. ASSUME NEW s \in Scorers, Abort(s)
        PROVE  Sound'
    <2>1. /\ snapshot' = [snapshot EXCEPT ![s] = [w \in Wallets |-> "none"]]
          /\ at' = [at EXCEPT ![s] = Nobody] /\ to' = [to EXCEPT ![s] = "same"]
          /\ found' = [found EXCEPT ![s] = 0]
          /\ UNCHANGED <<state, entries>>
      BY <1>7 DEF Abort, Closed
    <2>2. TypeOK'
      BY <1>t, <2>1 DEF TypeOK
    <2>3. /\ at'[s] = Nobody /\ to'[s] = "same"
          /\ \A r \in Scorers \ {s} : at'[r] = at[r] /\ to'[r] = to[r] /\ found'[r] = found[r]
      BY <1>t, <2>1 DEF TypeOK
    <2>4. OneHolder' /\ IdleClean' /\ FoundStay' /\ PendingIsQueued'
      BY <1>t, <2>1, <2>3 DEF OneHolder, IdleClean, Idle, FoundStay, PendingIsQueued
    <2> QED
      BY <2>2, <2>4 DEF Sound
  <1>8. CASE UNCHANGED vars
    <2>1. UNCHANGED <<state, entries, snapshot, at, to, found>>
      BY <1>8 DEF vars
    <2>2. TypeOK'
      BY <1>t, <2>1 DEF TypeOK
    <2>3. OneHolder' /\ IdleClean' /\ FoundStay' /\ PendingIsQueued'
      BY <1>t, <2>1 DEF OneHolder, IdleClean, Idle, FoundStay, PendingIsQueued
    <2> QED
      BY <2>2, <2>3 DEF Sound
  <1> QED
    BY <1>1, <1>2, <1>3, <1>4, <1>5, <1>6, <1>7, <1>8 DEF Next

\* Every reachable state is sound.
THEOREM AlwaysSound == Spec => []Sound
  <1>1. Init => Sound
    BY InitSound
  <1>2. Sound /\ [Next]_vars => Sound'
    BY StepSound
  <1> QED
    BY <1>1, <1>2, PTL DEF Spec

\* The number of open entries never falls below zero: a run withdraws only what
\* it found, and what it found cannot have been closed by anyone else.
THEOREM TypeCorrect == Spec => []TypeOK
  <1>1. Sound => TypeOK
    BY DEF Sound
  <1> QED
    BY <1>1, AlwaysSound, PTL

\* A wallet that waits for a human is in the queue, for any number of wallets
\* and of overlapping scoring runs.
THEOREM ReviewNeverForgotten == Spec => []PendingIsQueued
  <1>1. Sound => PendingIsQueued
    BY DEF Sound
  <1> QED
    BY <1>1, AlwaysSound, PTL

-----------------------------------------------------------------------------
\* Fewer transactions about to add leave room for more open entries.
LEMMA AddersType ==
    ASSUME NEW w
    PROVE  /\ IsFiniteSet(Adders(w)) /\ Cardinality(Adders(w)) \in Nat
           /\ Cardinality(Adders(w)) <= Cardinality(Scorers)
           /\ Cardinality(Scorers) \in Nat
  <1>1. Adders(w) \in SUBSET Scorers
    BY DEF Adders
  <1> QED
    BY <1>1, ApprovalAssumption, FS_Subset, FS_CardinalityType

\* The bound survives every step: a run joins those about to add only if it
\* found the queue empty, and leaves them when its entry is there.
LEMMA StepBounded ==
    ASSUME Sound, QueueBounded, [Next]_vars
    PROVE  QueueBounded'
  <1>t. TypeOK /\ IdleClean
    BY DEF Sound
  <1>b. \A w \in Wallets : entries[w] + Cardinality(Adders(w)) <= Cardinality(Scorers)
    BY DEF QueueBounded, Adders
  <1> SUFFICES ASSUME NEW v \in Wallets
               PROVE  entries'[v] + Cardinality(Adders(v)') <= Cardinality(Scorers)
    BY DEF QueueBounded, Adders
  <1>c. /\ IsFiniteSet(Adders(v)) /\ Cardinality(Adders(v)) \in Nat
        /\ Cardinality(Scorers) \in Nat /\ entries[v] \in Nat
    BY <1>t, AddersType DEF TypeOK
  <1>0. Adders(v)' \in SUBSET Scorers
    BY DEF Adders
  <1>d. /\ Cardinality(Adders(v)') \in Nat
        /\ Cardinality(Adders(v)') <= Cardinality(Scorers)
    BY <1>0, ApprovalAssumption, FS_Subset, FS_CardinalityType
  <1>1. CASE Adders(v)' \in SUBSET Adders(v) /\ entries'[v] \in Nat /\ entries'[v] <= entries[v]
    <2>1. Cardinality(Adders(v)') <= Cardinality(Adders(v))
      BY <1>c, <1>1, FS_Subset
    <2> QED
      BY <1>b, <1>c, <1>d, <1>1, <2>1
  <1>2. CASE entries'[v] = 0
    BY <1>c, <1>d, <1>2
  <1>3. ASSUME NEW s \in Scorers, NEW w \in Wallets, NEW target \in Candidate \union {"same"},
               Idle(s), Open(s, w, target)
        PROVE  entries'[v] + Cardinality(Adders(v)') <= Cardinality(Scorers)
    <2>1. /\ entries' = entries
          /\ at'[s] = w /\ to'[s] = target /\ found'[s] = entries[w]
          /\ \A r \in Scorers \ {s} : at'[r] = at[r] /\ to'[r] = to[r] /\ found'[r] = found[r]
      BY <1>t, <1>3 DEF Open, TypeOK
    <2>2. CASE v = w /\ entries[v] = 0
      BY <1>2, <2>1, <2>2
    <2>3. CASE ~(v = w /\ entries[v] = 0)
      <3>1. \A r \in Scorers : r \in Adders(v)' => r # s
        BY <2>1, <2>3 DEF Adders, Adds
      <3>2. Adders(v)' \in SUBSET Adders(v)
        BY <2>1, <3>1 DEF Adders, Adds
      <3> QED
        BY <1>1, <1>c, <2>1, <3>2
    <2> QED
      BY <2>2, <2>3
  <1>4. ASSUME NEW s \in Scorers, Commit(s)
        PROVE  entries'[v] + Cardinality(Adders(v)') <= Cardinality(Scorers)
    <2>1. /\ at[s] \in Wallets
          /\ at'[s] = Nobody
          /\ \A r \in Scorers \ {s} : at'[r] = at[r] /\ to'[r] = to[r] /\ found'[r] = found[r]
      BY <1>t, <1>4 DEF Commit, Closed, Idle, TypeOK
    <2>2. Adders(v)' = Adders(v) \ {s}
      BY <2>1, ApprovalAssumption DEF Adders, Adds
    <2>3. entries'[v] \in Nat
      <3>1. Sound'
        BY <1>4, CommitKeepsSound
      <3> QED
        BY <3>1 DEF Sound, TypeOK
    <2>4. CASE v = at[s] /\ Adds(s)
      <3>1. s \in Adders(v)
        BY <2>4 DEF Adders
      <3>2. Cardinality(Adders(v)') = Cardinality(Adders(v)) - 1
        BY <1>c, <2>2, <3>1, FS_RemoveElement
      <3>3. entries'[v] = entries[v] + 1
        BY <1>4, <1>t, <2>4 DEF Commit, Adds, TypeOK
      <3> QED
        BY <1>b, <1>c, <1>d, <3>2, <3>3
    <2>5. CASE ~(v = at[s] /\ Adds(s))
      <3>1. found[s] \in Nat
        BY <1>t DEF TypeOK
      <3>2. entries'[v] <= entries[v]
        <4>1. entries' = [entries EXCEPT ![at[s]] =
                 IF to[s] = "discovered" THEN entries[at[s]] - found[s]
                 ELSE IF Adds(s) THEN entries[at[s]] + 1 ELSE entries[at[s]]]
          BY <1>4 DEF Commit
        <4>2. CASE v = at[s]
          BY <1>t, <1>c, <2>5, <3>1, <4>1, <4>2 DEF TypeOK, Adds
        <4>3. CASE v # at[s]
          BY <1>t, <1>c, <4>1, <4>3 DEF TypeOK
        <4> QED
          BY <4>2, <4>3
      <3> QED
        BY <1>1, <2>2, <2>3, <3>2
    <2> QED
      BY <2>4, <2>5
  <1>5. ASSUME NEW s \in Scorers, Abort(s)
        PROVE  entries'[v] + Cardinality(Adders(v)') <= Cardinality(Scorers)
    <2>1. /\ at'[s] = Nobody /\ entries' = entries
          /\ \A r \in Scorers \ {s} : at'[r] = at[r] /\ to'[r] = to[r] /\ found'[r] = found[r]
      BY <1>t, <1>5 DEF Abort, Closed, TypeOK
    <2>2. Adders(v)' \in SUBSET Adders(v)
      BY <2>1, ApprovalAssumption DEF Adders, Adds
    <2> QED
      BY <1>1, <1>c, <2>1, <2>2
  <1>6. CASE UNCHANGED <<entries, at, to, found>>
    <2>1. Adders(v)' = Adders(v)
      BY <1>6 DEF Adders, Adds
    <2> QED
      BY <1>1, <1>6, <1>c, <2>1
  <1>7. ASSUME NEW w \in Wallets, NEW action \in DOMAIN AllowedTransitions, Human(w, action)
        PROVE  entries'[v] + Cardinality(Adders(v)') <= Cardinality(Scorers)
    <2>1. UNCHANGED <<at, to, found>> /\ entries' = [entries EXCEPT ![w] = 0]
      BY <1>7 DEF Human, runVars
    <2>2. Adders(v)' = Adders(v)
      BY <2>1 DEF Adders, Adds
    <2>3. entries'[v] \in {0, entries[v]}
      BY <1>t, <2>1 DEF TypeOK
    <2> QED
      BY <1>1, <1>2, <1>c, <2>2, <2>3
  <1>8. ASSUME NEW s \in Scorers, NEW w \in Wallets, Queue(s, w) \/ Withdraw(s, w)
        PROVE  entries'[v] + Cardinality(Adders(v)') <= Cardinality(Scorers)
    <2>1. \E target \in Candidate \union {"same"} : Idle(s) /\ Open(s, w, target)
      BY <1>8 DEF Queue, Withdraw, Candidate
    <2> QED
      BY <1>3, <2>1
  <1>9. \/ UNCHANGED <<entries, at, to, found>>
        \/ \E w \in Wallets, action \in DOMAIN AllowedTransitions : Human(w, action)
        \/ \E s \in Scorers, w \in Wallets : Queue(s, w) \/ Withdraw(s, w)
        \/ \E s \in Scorers : Commit(s) \/ Abort(s)
    BY DEF Next, vars, runVars, AddWallet, Scan, LeaveAsIs
  <1> QED
    BY <1>4, <1>5, <1>6, <1>7, <1>8, <1>9

\* The queue of a wallet stays within the number of scoring processes, however
\* many runs they make and however they overlap with human decisions.
THEOREM QueueNeverOverflows == Spec => []QueueBounded
  <1>1. Init => QueueBounded
    <2> SUFFICES ASSUME Init, NEW w \in Wallets
                 PROVE  entries[w] + Cardinality(Adders(w)) <= Cardinality(Scorers)
      BY DEF QueueBounded, Adders
    <2>1. entries[w] = 0
      BY DEF Init
    <2> QED
      BY <2>1, AddersType
  <1>2. Sound /\ QueueBounded /\ [Next]_vars => QueueBounded'
    BY StepBounded
  <1> QED
    BY <1>1, <1>2, AlwaysSound, PTL DEF Spec
=============================================================================
