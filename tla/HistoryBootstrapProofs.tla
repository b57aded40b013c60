------------------------- MODULE HistoryBootstrapProofs -------------------------
(***************************************************************************)
(* What the backfill and the settlement refresh keep, for any markets and  *)
(* trades, any processes that run them at the same time, any page sizes    *)
(* and budgets, and any number of mishaps.                                 *)
(*                                                                         *)
(* Two inductive invariants carry it.  Covered says of the checkpoint and  *)
(* of each run's own copy of it that the trades still missing lie behind   *)
(* the cursor and are no newer than the oldest second seen.  Budgeted says *)
(* that requests are paid for before they are made: what was spent, with   *)
(* what the one run in progress still owes, is within its checkpoint.      *)
(***************************************************************************)
EXTENDS HistoryBootstrap, FiniteSetTheorems, WellFoundedInduction, TLAPS

(* Settlements. *)

\* The constants as numbers.
LEMMA RefreshNumbers ==
    /\ MaxDelay \in Nat \ {0} /\ MaxChecks \in Nat \ {0} /\ MaxMishaps \in Nat
    /\ RetryAfter \subseteq 1..MaxDelay /\ Bot \in Processes /\ IsFiniteSet(Markets)
    /\ Never \in Int /\ Never \notin Nat
  BY RefreshAssumption DEF Never

\* A market that is settled was resolved, and stays so.
THEOREM SettledWasResolved == Spec => []SettledIsResolved
  <1> DEFINE Sound == /\ gamma \in [Markets -> {"open", "closed", "resolved"}]
                      /\ settled \subseteq Markets /\ SettledIsResolved
  <1>1. Init => Sound
    BY RefreshAssumption DEF Init, RefreshInit, SettledIsResolved
  <1>2. ASSUME Sound, [Next]_vars
        PROVE  Sound'
    <2>1. ASSUME NEW m \in Markets, MarketResolves(m)
          PROVE  Sound'
      BY <1>2, <2>1 DEF MarketResolves, Resolve, SettledIsResolved
    <2>2. ASSUME NEW p \in Processes, NEW m \in Markets, Answer(p, m) \/ Error(p, m)
          PROVE  Sound'
      <3>1. CASE Settle(p, m)
        <4>1. gamma[m] = "resolved"
          BY <3>1 DEF Settle, Winners, SameCondition, HasWinner
        <4> QED
          BY <1>2, <3>1, <4>1 DEF Settle, SettledIsResolved
      <3>2. CASE ~Settle(p, m)
        BY <1>2, <2>2, <3>2 DEF Answer, Error, Unresolved, Fails, Limited, LimitedFor,
           SettledIsResolved
      <3> QED
        BY <3>1, <3>2
    <2>3. CASE UNCHANGED <<gamma, settled>>
      BY <1>2, <2>3 DEF SettledIsResolved
    <2>4. CASE Cycle
      BY <2>3, <2>4 DEF Cycle, CycleRefresh
    <2>5. ASSUME NEW p \in Processes, StartScoring(p) \/ Proceeds(p) \/ Crash(p)
          PROVE  Sound'
      <3>1. CASE StartScoring(p) \/ Crash(p)
        BY <2>3, <3>1 DEF StartScoring, Crash, settlementVars
      <3>2. CASE Roll(p) \/ Reserve(p) \/ NoMorePages(p) \/ Fetch(p) \/ Progress(p) \/ Answered(p)
        BY <2>3, <3>2 DEF Roll, Reserve, NoMorePages, Fetch, Progress, Answered, settlementVars
      <3>3. CASE Reconcile(p)
        BY <2>3, <3>3 DEF Reconcile, WalletRefresh, settlementVars
      <3>4. ASSUME NEW m \in Markets, RunChecks(p, m)
            PROVE  Sound'
        BY <2>2, <3>4 DEF RunChecks
      <3>5. ASSUME NEW m \in Markets, Raises(p, m)
            PROVE  Sound'
        BY <2>3, <3>5 DEF Raises, SettledTwice
      <3>6. ASSUME NEW m \in Markets, p = Bot, CycleChecks(m)
            PROVE  Sound'
        BY <2>2, <3>6, RefreshNumbers DEF CycleChecks
      <3> QED
        BY <2>5, <3>1, <3>2, <3>3, <3>4, <3>5, <3>6 DEF Proceeds, BootstrapStep
    <2>6. CASE SourceTrade
      BY <2>3, <2>6 DEF SourceTrade, settlementVars
    <2>7. CASE UNCHANGED vars
      BY <2>3, <2>7 DEF vars, settlementVars
    <2> QED
      BY <1>2, <2>1, <2>4, <2>5, <2>6, <2>7 DEF Next
  <1>3. Sound => SettledIsResolved
    OBVIOUS
  <1> QED
    BY <1>1, <1>2, <1>3, PTL DEF Spec


-----------------------------------------------------------------------------
(* Types of the settlement refresh. *)

Refreshes == [todo : SUBSET Markets, tries : [Markets -> 0..MaxDelay], age : 0..MaxDelay]

\* No refresh is one.
LEMMA NoRefreshTyped == NoRefresh \in Refreshes
  BY RefreshNumbers DEF NoRefresh, Refreshes

\* A countdown is a number, and so is the backoff.
LEMMA EarlierTyped ==
    ASSUME NEW n \in Int, NEW cycles \in Int
    PROVE  Earlier(n, cycles) \in Nat
  BY DEF Earlier, Larger

\* A delay is a number.
LEMMA DelayTyped ==
    ASSUME NEW n \in Nat \ {0}
    PROVE  Delay(n) \in Int
  <1>1. 2 ^ (n - 1) \in Int
    OBVIOUS
  <1> QED
    BY <1>1, RefreshNumbers DEF Delay, Smaller

\* What a refresh starts with.
LEMMA BeginTyped ==
    ASSUME RefreshOK, NEW batch \in SUBSET Markets
    PROVE  Begin(batch) \in Refreshes /\ Begin(batch).todo = batch
  <1> DEFINE f == [m \in Markets |-> IF m \in batch THEN attempts[m] ELSE 0]
  <1>1. f \in [Markets -> 0..MaxDelay]
    BY RefreshNumbers DEF RefreshOK
  <1>2. Begin(batch) = [NoRefresh EXCEPT !.todo = batch, !.tries = f]
    BY DEF Begin
  <1> HIDE DEF f
  <1> QED
    BY <1>1, <1>2, NoRefreshTyped DEF Refreshes

\* A batch has no more markets than the refresh may check.
LEMMA BatchTyped ==
    ASSUME NEW among \in SUBSET Markets, NEW limit \in Nat, NEW waits,
           NEW b \in Batches(among, limit, waits)
    PROVE  b \in SUBSET among /\ Cardinality(b) <= limit
  <1> DEFINE due == {m \in among : Due(m, waits)}
  <1>1. b \in SUBSET among /\ Cardinality(b) = Smaller(limit, Cardinality(due))
    BY DEF Batches
  <1>2. Cardinality(due) \in Nat
    BY RefreshNumbers, FS_Subset, FS_CardinalityType
  <1> QED
    BY <1>1, <1>2 DEF Smaller

\* A check goes on with the others of its refresh, whose number falls by one, or with none.
GoneOn(p, m) ==
    /\ refresh' \in [Processes -> Refreshes]
    /\ \A q \in Processes \ {p} : refresh'[q] = refresh[q]
    /\ refresh'[p].todo \in {{}, refresh[p].todo \ {m}}

\* Both ways to go on.
LEMMA GoesOnTyped ==
    ASSUME RefreshOK, NEW p \in Processes, NEW m \in Markets,
           GoesOn(p, m) \/ refresh' = [refresh EXCEPT ![p] = NoRefresh]
    PROVE  GoneOn(p, m)
  <1>1. refresh \in [Processes -> Refreshes] /\ refresh[p] \in Refreshes
    BY DEF RefreshOK, Refreshes
  <1>2. CASE refresh' = [refresh EXCEPT ![p] = NoRefresh]
    BY <1>1, <1>2, NoRefreshTyped DEF GoneOn, NoRefresh
  <1>3. CASE refresh' = [refresh EXCEPT ![p] =
                            [refresh[p] EXCEPT !.todo = refresh[p].todo \ {m}, !.tries[m] = 0]]
    <2>1. [refresh[p].tries EXCEPT ![m] = 0] \in [Markets -> 0..MaxDelay]
      BY <1>1, RefreshNumbers DEF Refreshes
    <2> DEFINE r == [refresh[p] EXCEPT !.todo = refresh[p].todo \ {m}, !.tries[m] = 0]
    <2>2. r \in Refreshes /\ r.todo = refresh[p].todo \ {m}
      BY <1>1, <2>1 DEF Refreshes
    <2> HIDE DEF r
    <2>3. refresh' = [refresh EXCEPT ![p] = r]
      BY <1>3 DEF r
    <2> QED
      BY <1>1, <2>2, <2>3 DEF GoneOn
  <1>4. CASE GoesOn(p, m)
    <2> DEFINE rest == [refresh[p] EXCEPT !.todo = refresh[p].todo \ {m}, !.tries[m] = 0]
    <2>1. refresh' = [refresh EXCEPT ![p] = IF refresh[p].todo = {m} THEN NoRefresh ELSE rest]
      BY <1>4 DEF GoesOn
    <2>2. \/ refresh' = [refresh EXCEPT ![p] = NoRefresh]
          \/ refresh' = [refresh EXCEPT ![p] = rest]
      <3> HIDE DEF rest
      <3> QED
        BY <2>1
    <2> QED
      BY <1>2, <1>3, <2>2
  <1> QED
    BY <1>2, <1>4

\* A schedule.
LEMMA ScheduledTyped ==
    ASSUME RefreshOK, NEW p \in Processes, NEW m \in Markets, NEW cool \in Nat,
           Scheduled(p, m, cool)
    PROVE  /\ attempts' \in [Markets -> 0..MaxDelay]
           /\ wait' \in [Markets -> Nat \union {Never}]
  <1>1. refresh[p].tries[m] \in 0..MaxDelay /\ refresh[p].age \in 0..MaxDelay
    BY DEF RefreshOK
  <1> DEFINE n == Smaller(MaxDelay, refresh[p].tries[m] + 1)
             next == Earlier(Larger(Delay(n), cool), refresh[p].age)
  <1>2. n \in 0..MaxDelay /\ n \in Nat \ {0}
    BY <1>1, RefreshNumbers DEF Smaller
  <1>3. next \in Nat
    <2>1. Delay(n) \in Int
      BY <1>2, DelayTyped
    <2>2. Larger(Delay(n), cool) \in Int
      BY <2>1 DEF Larger
    <2>3. refresh[p].age \in Int
      BY <1>1, RefreshNumbers
    <2> QED
      BY <2>2, <2>3, EarlierTyped
  <1>4. \/ UNCHANGED <<attempts, wait>>
        \/ attempts' = [attempts EXCEPT ![m] = n] /\ wait' = [wait EXCEPT ![m] = next]
    BY DEF Scheduled
  <1> HIDE DEF n, next
  <1>5. CASE UNCHANGED <<attempts, wait>>
    BY <1>5 DEF RefreshOK
  <1>6. CASE attempts' = [attempts EXCEPT ![m] = n] /\ wait' = [wait EXCEPT ![m] = next]
    <2>1. attempts \in [Markets -> 0..MaxDelay] /\ wait \in [Markets -> Nat \union {Never}]
      BY DEF RefreshOK
    <2>2. attempts' \in [Markets -> 0..MaxDelay]
      BY <1>2, <1>6, <2>1
    <2>3. next \in Nat \union {Never}
      BY <1>3
    <2> QED
      BY <1>6, <2>1, <2>2, <2>3
  <1> QED
    BY <1>4, <1>5, <1>6

\* A check, however it ends: with an answer, an error, or the error that is raised.
LEMMA CheckTyped ==
    ASSUME RefreshOK, NEW p \in Processes, NEW m \in Markets,
           Answer(p, m) \/ Error(p, m) \/ SettledTwice(p, m)
    PROVE  RefreshOK' /\ GoneOn(p, m) /\ m \in refresh[p].todo
  <1> USE RefreshNumbers
  <1>1. m \in refresh[p].todo
    BY DEF Answer, Error, Unresolved, Settle, Fails, Limited, SettledTwice, Asked
  <1>2. GoneOn(p, m)
    BY GoesOnTyped
       DEF Answer, Error, Unresolved, Settle, Fails, Limited, LimitedFor, SettledTwice
  <1>3. UNCHANGED gamma
    BY DEF Answer, Error, Unresolved, Settle, Fails, Limited, LimitedFor, SettledTwice
  <1>4. mishaps' \in 0..MaxMishaps
    <2>1. UNCHANGED mishaps \/ Mishap
      BY DEF Answer, Error, Unresolved, Settle, Fails, Limited, SettledTwice, Answers
    <2> QED
      BY <2>1 DEF Mishap, RefreshOK
  <1>5. /\ settled' \subseteq Markets /\ attempts' \in [Markets -> 0..MaxDelay]
        /\ wait' \in [Markets -> Nat \union {Never}] /\ throttle' \in Nat /\ cooldown' \in Nat
    <2>1. CASE Unresolved(p, m) \/ Fails(p, m)
      BY <2>1, ScheduledTyped DEF Unresolved, Fails, RefreshOK
    <2>2. CASE Settle(p, m) \/ SettledTwice(p, m)
      BY <2>2 DEF Settle, SettledTwice, RefreshOK
    <2>3. ASSUME NEW cycles \in Nat, LimitedFor(p, m, cycles)
          PROVE  /\ attempts' \in [Markets -> 0..MaxDelay] /\ settled' \subseteq Markets
                 /\ wait' \in [Markets -> Nat \union {Never}] /\ throttle' \in Nat
      <3>1. Earlier(cycles, refresh[p].age) \in Nat
        <4>1. refresh[p].age \in Int
          BY DEF RefreshOK
        <4> QED
          BY <4>1, EarlierTyped
      <3> QED
        BY <2>3, <3>1, ScheduledTyped DEF LimitedFor, RefreshOK
    <2>4. CASE Limited(p, m)
      <3>1. CASE \E cycles \in RetryAfter :
                   LimitedFor(p, m, cycles) /\ cooldown' = IF p = Bot THEN cycles ELSE cooldown
        BY <2>3, <3>1 DEF RefreshOK
      <3>2. CASE LimitedFor(p, m, cooldown) /\ UNCHANGED cooldown
        BY <2>3, <3>2 DEF RefreshOK
      <3> QED
        BY <2>4, <3>1, <3>2 DEF Limited
    <2> QED
      BY <2>1, <2>2, <2>4 DEF Answer, Error
  <1>6. refresh' \in [Processes -> Refreshes]
    BY <1>2 DEF GoneOn
  <1> QED
    BY <1>1, <1>2, <1>3, <1>4, <1>5, <1>6 DEF RefreshOK, Refreshes

-----------------------------------------------------------------------------
(* Pages. *)

\* The other constants as numbers.
LEMMA BootstrapNumbers ==
    /\ MaxTrades \in Nat /\ BatchSize \in Nat \ {0} /\ PageSize \in Nat \ {0}
    /\ OffsetLimit \in Nat \ {0} /\ MaxPages \in Nat \ {0} /\ PagesPerRun \in Nat \ {0}
    /\ MaxRows \in Nat \ {0} /\ MaxRequests \in Nat \ {0} /\ MaxAsked \in Nat
    /\ MaxScorings \in Nat /\ Listing0 \in 1..MaxTrades
  BY BootstrapAssumption

\* Timestamps are positive and follow the order of the trades.
LEMMA StampOrder ==
    ASSUME NEW s \in 1..MaxTrades, NEW t \in 1..MaxTrades
    PROVE  /\ Stamp[s] \in Nat \ {0} /\ MarketOf[s] \in Markets
           /\ s <= t => Stamp[s] <= Stamp[t]
  BY BootstrapAssumption DEF Trades

\* Sets of numbers have a smallest member.
LEMMA SmallestMember ==
    ASSUME NEW S \in SUBSET Nat, S # {}
    PROVE  \E m \in S : \A s \in S : m <= s
  <1> DEFINE R == OpToRel(<, Nat)
  <1>1. IsWellFoundedOn(R, Nat)
    BY NatLessThanWellFounded
  <1>2. \A s, m \in S : s < m => <<s, m>> \in R
    BY DEF OpToRel
  <1> HIDE DEF R
  <1>3. PICK m \in S : \A s \in S : <<s, m>> \notin R
    BY <1>1, WFMin
  <1>4. \A s \in S : ~(s < m)
    BY <1>2, <1>3
  <1> QED
    BY <1>4

\* The trades up to a second are the oldest ones.
LEMMA UntilIsPrefix ==
    ASSUME listing \in 1..MaxTrades, NEW end \in Nat
    PROVE  /\ Cardinality(Until(end)) \in 0..listing
           /\ Until(end) = 1..Cardinality(Until(end))
  <1> USE BootstrapNumbers
  <1> DEFINE S == {t \in 1..listing + 1 : t \notin Until(end)}
  <1>1. listing + 1 \in S /\ S \in SUBSET Nat
    BY DEF Until
  <1>2. PICK m \in S : \A s \in S : m <= s
    <2> HIDE DEF S
    <2> QED
      BY <1>1, SmallestMember
  <1>3. \A t \in 1..m - 1 : t \in Until(end)
    BY <1>2
  <1>4. ASSUME NEW t \in Until(end)
        PROVE  t \in 1..m - 1
    <2>1. t \in 1..listing /\ Stamp[t] <= end
      BY <1>4 DEF Until
    <2>2. SUFFICES ASSUME m <= t
                   PROVE  FALSE
      BY <2>1
    <2>3. m \in 1..listing
      BY <2>1, <2>2
    <2>4. m \in 1..MaxTrades /\ t \in 1..MaxTrades
      BY <2>1, <2>3
    <2>5. Stamp[m] <= Stamp[t] /\ Stamp[m] \in Nat /\ Stamp[t] \in Nat
      BY <2>2, <2>4, StampOrder
    <2>6. m \in Until(end)
      BY <2>1, <2>3, <2>5 DEF Until
    <2> QED
      BY <2>6
  <1>5. Until(end) = 1..m - 1
    BY <1>3, <1>4
  <1>6. Cardinality(Until(end)) = m - 1
    BY <1>5, FS_Interval
  <1> QED
    BY <1>5, <1>6

\* Everything listed is up to the stamp of the newest trade.
LEMMA UntilNewest ==
    ASSUME listing \in 1..MaxTrades
    PROVE  Stamp[listing] \in Nat \ {0} /\ Cardinality(Until(Stamp[listing])) = listing
  <1>1. \A t \in 1..listing : Stamp[t] <= Stamp[listing]
    BY BootstrapNumbers, StampOrder
  <1>2. Until(Stamp[listing]) = 1..listing
    BY <1>1 DEF Until
  <1> QED
    BY <1>2, BootstrapNumbers, StampOrder, FS_Interval

\* A page is an interval of trades, no longer than asked for, and shorter only when it
\* reaches the oldest trade.
LEMMA PageIsInterval ==
    ASSUME listing \in 1..MaxTrades, NEW end \in Nat, NEW offset \in Nat, NEW limit \in Nat
    PROVE  LET n == Cardinality(Until(end))
               page == Page(end, offset, limit)
           IN /\ page \in SUBSET (1..listing) /\ IsFiniteSet(page)
              /\ Cardinality(page) \in 0..limit
              /\ \A t \in Int : t \in page <=> 1 <= t /\ n - offset - limit < t /\ t <= n - offset
              /\ n - offset - limit >= 0 => Cardinality(page) = limit
  <1> USE BootstrapNumbers
  <1> DEFINE n == Cardinality(Until(end))
             page == Page(end, offset, limit)
             low == Larger(1, n - offset - limit + 1)
  <1>1. n \in 0..listing /\ Until(end) = 1..n
    BY UntilIsPrefix
  <1>2. page = {t \in 1..n : n - offset - limit < t /\ t <= n - offset}
    BY <1>1 DEF Page
  <1> HIDE DEF n, page
  <1>3. page = low..n - offset
    BY <1>1, <1>2 DEF Larger
  <1>4. low \in Int /\ n - offset \in Int
    BY <1>1 DEF Larger
  <1> HIDE DEF low
  <1>5. /\ IsFiniteSet(page)
        /\ Cardinality(page) = IF low > n - offset THEN 0 ELSE n - offset - low + 1
    BY <1>3, <1>4, FS_Interval
  <1>6. Cardinality(page) \in 0..limit
    BY <1>1, <1>4, <1>5 DEF low, Larger
  <1>7. page \in SUBSET (1..listing)
    BY <1>1, <1>2
  <1>8. \A t \in Int : t \in page <=> 1 <= t /\ n - offset - limit < t /\ t <= n - offset
    BY <1>1, <1>2
  <1>9. n - offset - limit >= 0 => Cardinality(page) = limit
    BY <1>1, <1>4, <1>5 DEF low, Larger
  <1> QED
    BY <1>5, <1>6, <1>7, <1>8, <1>9 DEF n, page

\* The oldest stamp of a page.
Oldest(page) == CHOOSE s \in {Stamp[t] : t \in page} : \A t \in page : s <= Stamp[t]

\* It is there.
LEMMA OldestOfPage ==
    ASSUME NEW page \in SUBSET (1..MaxTrades), page # {}
    PROVE  /\ Oldest(page) \in Nat \ {0}
           /\ \E u \in page : Oldest(page) = Stamp[u]
           /\ \A t \in page : Oldest(page) <= Stamp[t]
  <1> DEFINE S == {Stamp[t] : t \in page}
  <1>1. S \in SUBSET (Nat \ {0}) /\ S # {}
    BY StampOrder
  <1> HIDE DEF S
  <1>2. \E s \in S : \A x \in S : s <= x
    BY <1>1, SmallestMember
  <1>3. \E s \in S : \A t \in page : s <= Stamp[t]
    BY <1>2 DEF S
  <1>4. Oldest(page) \in S /\ \A t \in page : Oldest(page) <= Stamp[t]
    BY <1>3 DEF Oldest, S
  <1> QED
    BY <1>1, <1>4 DEF S

-----------------------------------------------------------------------------
(* What the steps of a bootstrap do to the run and to the checkpoint. *)

Runs == [pc : {"idle", "loop", "fetch", "progress", "reconcile", "settle"},
         at : Checkpoints, pages : 0..PagesPerRun, short : BOOLEAN,
         asked : SUBSET Markets, failed : BOOLEAN]

Reasons == {"in_progress", "upstream", "exhausted", "limit", "mature"}

\* The run of p becomes r, and the others stay.
Puts(p, r) ==
    /\ run' \in [Processes -> Runs] /\ run'[p] = r
    /\ \A q \in Processes \ {p} : run'[q] = run[q]

\* The run of p ends, with at as the last checkpoint.
Ends(p, at, result) ==
    /\ result \in Reasons
    /\ log' = [at EXCEPT !.reason = result] /\ log' \in Checkpoints
    /\ Puts(p, NoRun) /\ scored' \in BOOLEAN

\* The empty checkpoint and the empty run.
LEMMA NoneTyped ==
    /\ NoCheckpoint \in Checkpoints /\ NoCheckpoint.requests = 0 /\ NoCheckpoint.end = 0
    /\ NoRun \in Runs /\ NoRun.pc = "idle"
  BY BootstrapNumbers DEF NoCheckpoint, Checkpoints, NoRun, Runs

\* The parts of a checkpoint.
LEMMA CheckpointParts ==
    ASSUME NEW at \in Checkpoints
    PROVE  /\ at.reason \in Reasons \union {"none"} /\ at.offset \in 0..OffsetLimit
           /\ at.end \in Nat /\ at.oldest \in Nat /\ at.pages \in 0..MaxPages
           /\ at.rows \in 0..MaxRows /\ at.requests \in 0..MaxRequests
           /\ at.checked \in SUBSET Markets
           /\ at.offset \in Nat /\ at.pages \in Nat /\ at.rows \in Nat /\ at.requests \in Nat
  BY BootstrapNumbers DEF Checkpoints, Reasons

\* A run is replaced by another.
LEMMA PutsRun ==
    ASSUME TypeOK, NEW p \in Processes, NEW r \in Runs, run' = [run EXCEPT ![p] = r]
    PROVE  Puts(p, r)
  <1>1. run \in [Processes -> Runs]
    BY DEF TypeOK, Runs
  <1> QED
    BY <1>1 DEF Puts

\* A checkpoint with another reason.
LEMMA NewReason ==
    ASSUME NEW at \in Checkpoints, NEW reason \in Reasons
    PROVE  /\ [at EXCEPT !.reason = reason] \in Checkpoints
           /\ [at EXCEPT !.reason = reason].reason = reason
           /\ [at EXCEPT !.reason = reason].offset = at.offset
           /\ [at EXCEPT !.reason = reason].end = at.end
           /\ [at EXCEPT !.reason = reason].oldest = at.oldest
           /\ [at EXCEPT !.reason = reason].requests = at.requests
  BY DEF Checkpoints, Reasons

\* The end of a run: its reason stands, or it was only the run that had enough pages.
LEMMA FinishEnds ==
    ASSUME TypeOK, NEW p \in Processes, NEW at \in Checkpoints, NEW reason \in Reasons,
           Finish(p, at, reason)
    PROVE  \E result \in {reason, "in_progress"} : Ends(p, at, result)
  <1> DEFINE pause == reason = "limit" /\ run[p].pages >= PagesPerRun /\ WithinBudget(at)
             result == IF pause THEN "in_progress" ELSE reason
  <1>1. /\ log' = [at EXCEPT !.reason = result] /\ run' = [run EXCEPT ![p] = NoRun]
        /\ scored' = (scored \/ result \notin {"upstream", "in_progress"})
    BY DEF Finish
  <1>2. result \in {reason, "in_progress"} /\ result \in Reasons
    BY DEF Reasons
  <1> HIDE DEF pause, result
  <1>3. Puts(p, NoRun)
    BY <1>1, NoneTyped, PutsRun
  <1>4. log' \in Checkpoints
    BY <1>1, <1>2, NewReason
  <1>5. scored' \in BOOLEAN
    BY <1>1
  <1>6. Ends(p, at, result)
    BY <1>1, <1>2, <1>3, <1>4, <1>5 DEF Ends
  <1> QED
    BY <1>2, <1>6

\* The run of p ends at a checkpoint, exhausted only if its last page was short, or it
\* goes on from there.
Concludes(p, at) ==
    \/ \E result \in Reasons : Ends(p, at, result) /\ (result = "exhausted" => run[p].short)
    \/ /\ Puts(p, [run[p] EXCEPT !.pc = "loop", !.at = at, !.short = FALSE, !.asked = {}])
       /\ UNCHANGED <<log, scored>>

\* What a page leads to.
LEMMA JudgeConcludes ==
    ASSUME TypeOK, NEW p \in Processes, NEW at \in Checkpoints, Judge(p, at)
    PROVE  Concludes(p, at)
  <1>1. CASE Finish(p, at, "mature") \/ (run[p].short /\ Finish(p, at, "exhausted"))
               \/ Finish(p, at, "limit")
    <2>1. \A reason \in {"mature", "exhausted", "limit"} : reason \in Reasons
      BY DEF Reasons
    <2> QED
      BY <1>1, <2>1, FinishEnds DEF Ends, Concludes
  <1>2. CASE /\ UNCHANGED <<log, scored>>
             /\ run' = [run EXCEPT ![p] = [run[p] EXCEPT !.pc = "loop", !.at = at,
                                                         !.short = FALSE, !.asked = {}]]
    <2> DEFINE r == [run[p] EXCEPT !.pc = "loop", !.at = at, !.short = FALSE, !.asked = {}]
    <2>1. r \in Runs
      BY DEF TypeOK, Runs
    <2>2. run' = [run EXCEPT ![p] = r]
      BY <1>2
    <2> HIDE DEF r
    <2>3. Puts(p, r)
      BY <2>1, <2>2, PutsRun
    <2> QED
      BY <1>2, <2>3 DEF r, Concludes
  <1> QED
    BY <1>1, <1>2 DEF Judge

\* A run in progress and its checkpoint.
LEMMA RunParts ==
    ASSUME TypeOK, NEW p \in Processes
    PROVE  /\ run[p] \in Runs /\ run[p].at \in Checkpoints /\ run[p].pages \in 0..PagesPerRun
           /\ run[p].pages \in Nat /\ run[p].asked \in SUBSET Markets
           /\ run[p].short \in BOOLEAN
           /\ run \in [Processes -> Runs] /\ log \in Checkpoints /\ listing \in 1..MaxTrades
           /\ stored \in SUBSET (1..listing)
  BY BootstrapNumbers DEF TypeOK, Runs

\* Progress is committed.
LEMMA PersistPuts ==
    ASSUME TypeOK, NEW p \in Processes, NEW at \in Checkpoints, NEW pc \in {"loop", "reconcile"},
           Persist(p, at, pc)
    PROVE  log' = at /\ Puts(p, [run[p] EXCEPT !.pc = pc, !.at = at])
  <1> DEFINE r == [run[p] EXCEPT !.pc = pc, !.at = at]
  <1>1. r \in Runs
    BY RunParts DEF Runs
  <1>2. run' = [run EXCEPT ![p] = r]
    BY DEF Persist
  <1> HIDE DEF r
  <1>3. Puts(p, r)
    BY <1>1, <1>2, PutsRun
  <1> QED
    BY <1>3 DEF r, Persist

\* The next window.
LEMMA NextWindowParts ==
    ASSUME NEW at \in Checkpoints
    PROVE  /\ NextWindow(at) \in Checkpoints /\ NextWindow(at).offset = 0
           /\ NextWindow(at).end = at.oldest /\ NextWindow(at).oldest = at.oldest
           /\ NextWindow(at).reason = at.reason /\ NextWindow(at).requests = at.requests
  <1>1. at.oldest \in Nat /\ 0 \in 0..OffsetLimit
    BY CheckpointParts, BootstrapNumbers
  <1> QED
    BY <1>1 DEF NextWindow, Checkpoints

\* A window ends at the oldest second seen, where the next one begins, or the run ends.
LEMMA RollOutcome ==
    ASSUME TypeOK, NEW p \in Processes, Roll(p)
    PROVE  LET at == run[p].at
           IN \/ \E result \in Reasons \ {"exhausted"} : Ends(p, at, result)
              \/ /\ at.oldest \in Nat \ {0} /\ NextWindow(at) \in Checkpoints
                 /\ log' = NextWindow(at) /\ UNCHANGED scored
                 /\ Puts(p, [run[p] EXCEPT !.pc = "loop", !.at = NextWindow(at)])
  <1> DEFINE at == run[p].at
  <1>1. at \in Checkpoints /\ at.oldest \in Nat /\ at.end \in Nat
    BY RunParts, CheckpointParts
  <1>2. NextWindow(at) \in Checkpoints
    BY <1>1, NextWindowParts
  <1>3. CASE Finish(p, at, "limit")
    <2>1. \A result \in {"limit", "in_progress"} : result \in Reasons \ {"exhausted"}
      BY DEF Reasons
    <2> QED
      BY <1>1, <1>3, <2>1, FinishEnds
  <1>4. CASE at.oldest \in 1..(at.end - 1) /\ Persist(p, NextWindow(at), "loop") /\ UNCHANGED scored
    <2>1. at.oldest \in Nat \ {0}
      BY <1>1, <1>4
    <2> QED
      BY <1>2, <1>4, <2>1, PersistPuts
  <1> QED
    BY <1>3, <1>4 DEF Roll

\* A page is paid for.
LEMMA ReserveOutcome ==
    ASSUME TypeOK, NEW p \in Processes, Reserve(p)
    PROVE  /\ Paid(run[p].at) \in Checkpoints /\ log' = Paid(run[p].at)
           /\ Paid(run[p].at).requests = run[p].at.requests + 1
           /\ Paid(run[p].at).rows = run[p].at.rows /\ Paid(run[p].at).offset = run[p].at.offset
           /\ Paid(run[p].at).end = run[p].at.end /\ Paid(run[p].at).oldest = run[p].at.oldest
           /\ Paid(run[p].at).reason = run[p].at.reason
           /\ run[p].at.rows < MaxRows /\ run[p].at.offset < OffsetLimit
           /\ Puts(p, [run[p] EXCEPT !.pc = "fetch", !.at = Paid(run[p].at),
                                     !.pages = run[p].pages + 1])
  <1> DEFINE at == run[p].at
             pages == run[p].pages + 1
             paid == Paid(at)
             r == [run[p] EXCEPT !.pc = "fetch", !.at = paid, !.pages = pages]
  <1>1. /\ at.pages < MaxPages /\ at.rows < MaxRows /\ at.requests < MaxRequests
        /\ run[p].pages < PagesPerRun /\ at.offset < OffsetLimit
    BY DEF Reserve, MorePages, WithinBudget
  <1>2. at \in Checkpoints
    BY RunParts
  <1>3. at.pages + 1 \in 0..MaxPages /\ at.requests + 1 \in 0..MaxRequests
    BY <1>1, <1>2, CheckpointParts, BootstrapNumbers
  <1>4. paid = [at EXCEPT !.pages = at.pages + 1, !.requests = at.requests + 1]
    BY DEF Paid
  <1>5. /\ paid \in Checkpoints /\ paid.requests = at.requests + 1 /\ paid.rows = at.rows
        /\ paid.offset = at.offset /\ paid.end = at.end /\ paid.oldest = at.oldest
        /\ paid.reason = at.reason
    <2> DEFINE more == at.pages + 1
               asked == at.requests + 1
    <2>1. more \in 0..MaxPages /\ asked \in 0..MaxRequests
      BY <1>3
    <2>2. paid = [at EXCEPT !.pages = more, !.requests = asked]
      BY <1>4
    <2> HIDE DEF more, asked, paid, at
    <2>3. /\ paid \in Checkpoints /\ paid.requests = asked /\ paid.rows = at.rows
          /\ paid.offset = at.offset /\ paid.end = at.end /\ paid.oldest = at.oldest
          /\ paid.reason = at.reason
      BY <1>2, <2>1, <2>2 DEF Checkpoints
    <2> QED
      BY <2>3 DEF asked
  <1>6. pages \in 0..PagesPerRun
    BY <1>1, RunParts, BootstrapNumbers
  <1>7. run' = [run EXCEPT ![p] = r] /\ log' = paid
    BY DEF Reserve
  <1>8. r \in Runs
    <2> HIDE DEF paid, pages
    <2> QED
      BY <1>5, <1>6, RunParts DEF Runs
  <1> HIDE DEF r
  <1>9. Puts(p, r)
    BY <1>7, <1>8, PutsRun
  <1> QED
    BY <1>1, <1>5, <1>7, <1>9 DEF r

\* The same, with names.
LEMMA ReserveOf ==
    ASSUME TypeOK, NEW p \in Processes, Reserve(p), NEW at, at = run[p].at
    PROVE  \E paid \in Checkpoints :
              /\ log' = paid /\ paid.requests = at.requests + 1 /\ paid.rows < MaxRows
              /\ paid.offset < OffsetLimit /\ paid.offset = at.offset /\ paid.end = at.end
              /\ paid.oldest = at.oldest /\ paid.reason = at.reason
              /\ Puts(p, [run[p] EXCEPT !.pc = "fetch", !.at = paid,
                                        !.pages = run[p].pages + 1])
  <1>1. PICK paid : paid = Paid(run[p].at)
    BY Zenon
  <1>2. /\ paid \in Checkpoints /\ log' = paid
        /\ paid.requests = run[p].at.requests + 1 /\ paid.rows = run[p].at.rows
        /\ paid.offset = run[p].at.offset /\ paid.end = run[p].at.end
        /\ paid.oldest = run[p].at.oldest /\ paid.reason = run[p].at.reason
        /\ run[p].at.rows < MaxRows /\ run[p].at.offset < OffsetLimit
        /\ Puts(p, [run[p] EXCEPT !.pc = "fetch", !.at = paid, !.pages = run[p].pages + 1])
    BY <1>1, ReserveOutcome, Zenon
  <1> QED
    BY <1>2

\* What is asked for fits what is left of the wallet's rows and of the offsets.
LEMMA RequestedFits ==
    ASSUME NEW at \in Checkpoints
    PROVE  /\ Requested(at) \in Nat
           /\ Requested(at) <= MaxRows - at.rows /\ Requested(at) <= OffsetLimit - at.offset
           /\ at.rows < MaxRows /\ at.offset < OffsetLimit => Requested(at) >= 1
  BY CheckpointParts, BootstrapNumbers DEF Requested, Smaller

\* The checkpoint after a page of so many rows.
Read(at, size, oldest) ==
    [at EXCEPT !.rows = at.rows + size, !.offset = at.offset + size, !.oldest = oldest]

\* It is one.
LEMMA ReadParts ==
    ASSUME NEW at \in Checkpoints, NEW size \in Nat, NEW oldest \in Nat, size <= Requested(at)
    PROVE  /\ Read(at, size, oldest) \in Checkpoints
           /\ Read(at, size, oldest).offset = at.offset + size
           /\ Read(at, size, oldest).end = at.end /\ Read(at, size, oldest).oldest = oldest
           /\ Read(at, size, oldest).reason = at.reason
           /\ Read(at, size, oldest).requests = at.requests
  <1> DEFINE rows == at.rows + size
             offset == at.offset + size
             next == [at EXCEPT !.rows = rows, !.offset = offset, !.oldest = oldest]
  <1>1. rows \in 0..MaxRows /\ offset \in 0..OffsetLimit
    BY RequestedFits, CheckpointParts, BootstrapNumbers
  <1>2. Read(at, size, oldest) = next
    BY DEF Read
  <1>3. next \in Checkpoints
    <2> HIDE DEF rows, offset
    <2> QED
      BY <1>1 DEF Checkpoints
  <1>4. /\ next.offset = offset /\ next.end = at.end /\ next.oldest = oldest
        /\ next.reason = at.reason /\ next.requests = at.requests
    <2> HIDE DEF rows, offset
    <2> QED
      BY DEF Checkpoints
  <1> QED
    BY <1>2, <1>3, <1>4

\* A page is stored and counted, or the run ends, exhausted only at an empty page.
LEMMA FetchOutcome ==
    ASSUME TypeOK, NEW p \in Processes, Fetch(p)
    PROVE  LET at == run[p].at
               limit == Requested(at)
               page == Page(at.end, at.offset, limit)
               size == Cardinality(page)
               next == Read(at, size, Oldest(page))
           IN \/ \E result \in Reasons : /\ Ends(p, at, result) /\ UNCHANGED stored
                                         /\ result = "exhausted" => page = {}
              \/ /\ page # {} /\ next \in Checkpoints
                 /\ stored' = stored \union page /\ UNCHANGED <<log, scored>>
                 /\ Puts(p, [run[p] EXCEPT !.pc = "progress", !.short = size < limit, !.at = next])
  <1> DEFINE at == run[p].at
             limit == Requested(at)
             page == Page(at.end, at.offset, limit)
             size == Cardinality(page)
             oldest == Oldest(page)
             next == Read(at, size, oldest)
             short == size < limit
             r == [run[p] EXCEPT !.pc = "progress", !.short = short, !.at = next]
  <1>1. at \in Checkpoints /\ at.end \in Nat /\ at.offset \in Nat /\ listing \in 1..MaxTrades
    BY RunParts, CheckpointParts
  <1>2. limit \in Nat
    <2> HIDE DEF at
    <2> QED
      BY <1>1, RequestedFits
  <1>3. page \in SUBSET (1..listing) /\ size \in 0..limit
    <2> HIDE DEF at, limit
    <2> QED
      BY <1>1, <1>2, PageIsInterval
  <1>4. \/ Finish(p, at, "upstream") /\ UNCHANGED stored
        \/ page = {} /\ Finish(p, at, "exhausted") /\ UNCHANGED stored
        \/ /\ page # {} /\ stored' = stored \union page /\ UNCHANGED <<log, scored>>
           /\ run' = [run EXCEPT ![p] = r]
    BY DEF Fetch, Read, Oldest
  <1>5. CASE (Finish(p, at, "upstream") \/ (page = {} /\ Finish(p, at, "exhausted")))
               /\ UNCHANGED stored
    <2>1. "upstream" \in Reasons /\ "exhausted" \in Reasons
      BY DEF Reasons
    <2> HIDE DEF page, at
    <2>2. \E reason \in {"upstream", "exhausted"} :
             Finish(p, at, reason) /\ (reason = "exhausted" => page = {})
      BY <1>5
    <2>3. PICK reason \in {"upstream", "exhausted"} :
             Finish(p, at, reason) /\ (reason = "exhausted" => page = {})
      BY <2>2
    <2>4. PICK result \in {reason, "in_progress"} : Ends(p, at, result)
      BY <1>1, <2>1, <2>3, FinishEnds
    <2>5. result \in Reasons /\ (result = "exhausted" => page = {})
      BY <2>3, <2>4 DEF Ends
    <2>6. \E outcome \in Reasons : /\ Ends(p, at, outcome) /\ UNCHANGED stored
                                   /\ outcome = "exhausted" => page = {}
      BY <1>5, <2>4, <2>5
    <2> QED
      BY <2>6 DEF at, page
  <1>6. CASE /\ page # {} /\ stored' = stored \union page /\ UNCHANGED <<log, scored>>
             /\ run' = [run EXCEPT ![p] = r]
    <2>1. oldest \in Nat
      <3>1. page \in SUBSET (1..MaxTrades)
        <4> HIDE DEF page
        <4> QED
          BY <1>1, <1>3, BootstrapNumbers
      <3> HIDE DEF page
      <3> QED
        BY <1>6, <3>1, OldestOfPage
    <2>2. next \in Checkpoints
      <3>1. size \in Nat /\ size <= limit
        BY <1>2, <1>3
      <3> HIDE DEF size, oldest
      <3> QED
        BY <1>1, <2>1, <3>1, ReadParts
    <2>3. short \in BOOLEAN
      OBVIOUS
    <2>4. r \in Runs
      <3> HIDE DEF next, short
      <3> QED
        BY <2>2, <2>3, RunParts DEF Runs
    <2> HIDE DEF r
    <2>5. Puts(p, r)
      BY <1>6, <2>4, PutsRun
    <2> QED
      BY <1>6, <2>2, <2>5 DEF r
  <1> QED
    BY <1>4, <1>5, <1>6

\* The same, with names.
LEMMA FetchOf ==
    ASSUME TypeOK, NEW p \in Processes, Fetch(p), NEW at, at = run[p].at
    PROVE  \E page, next, short :
              /\ page = Page(at.end, at.offset, Requested(at))
              /\ next = Read(at, Cardinality(page), Oldest(page))
              /\ short = (Cardinality(page) < Requested(at))
              /\ \/ \E result \in Reasons : /\ Ends(p, at, result) /\ UNCHANGED stored
                                            /\ result = "exhausted" => page = {}
                 \/ /\ page # {} /\ next \in Checkpoints
                    /\ stored' = stored \union page /\ UNCHANGED log
                    /\ Puts(p, [run[p] EXCEPT !.pc = "progress", !.short = short, !.at = next])
  <1> DEFINE limit == Requested(run[p].at)
             page == Page(run[p].at.end, run[p].at.offset, limit)
             next == Read(run[p].at, Cardinality(page), Oldest(page))
             short == Cardinality(page) < limit
  <1>1. \/ \E result \in Reasons : /\ Ends(p, run[p].at, result) /\ UNCHANGED stored
                                   /\ result = "exhausted" => page = {}
        \/ /\ page # {} /\ next \in Checkpoints
           /\ stored' = stored \union page /\ UNCHANGED <<log, scored>>
           /\ Puts(p, [run[p] EXCEPT !.pc = "progress", !.short = short, !.at = next])
    BY FetchOutcome, Zenon
  <1>2. UNCHANGED <<log, scored>> => UNCHANGED log
    BY SMTT(30)
  <1> WITNESS page, next, short
  <1> QED
    BY <1>1, <1>2, Zenon

\* A run out of pages stops.
LEMMA StopConcludes ==
    ASSUME TypeOK, NEW p \in Processes, NoMorePages(p)
    PROVE  Concludes(p, run[p].at)
  <1>1. Finish(p, run[p].at, "limit") /\ "limit" \in Reasons /\ run[p].at \in Checkpoints
    BY RunParts DEF NoMorePages, Reasons
  <1>2. \E result \in {"limit", "in_progress"} : Ends(p, run[p].at, result)
    BY <1>1, FinishEnds
  <1> QED
    BY <1>2 DEF Concludes, Ends

\* The checkpoint after the requests for so many markets are paid.
PaidFor(at, n) == [at EXCEPT !.requests = at.requests + 2 * n]

\* It is one, if there is room for them.
LEMMA PaidForParts ==
    ASSUME NEW at \in Checkpoints, NEW n \in Nat, n <= (MaxRequests - at.requests) \div 2
    PROVE  /\ PaidFor(at, n) \in Checkpoints
           /\ PaidFor(at, n).requests = at.requests + 2 * n
           /\ PaidFor(at, n).offset = at.offset /\ PaidFor(at, n).end = at.end
           /\ PaidFor(at, n).oldest = at.oldest /\ PaidFor(at, n).reason = at.reason
  <1> DEFINE requests == at.requests + 2 * n
  <1>1. requests \in 0..MaxRequests
    BY CheckpointParts, BootstrapNumbers
  <1>2. PaidFor(at, n) = [at EXCEPT !.requests = requests]
    BY DEF PaidFor
  <1> HIDE DEF requests
  <1>3. /\ PaidFor(at, n) \in Checkpoints /\ PaidFor(at, n).requests = requests
        /\ PaidFor(at, n).offset = at.offset /\ PaidFor(at, n).end = at.end
        /\ PaidFor(at, n).oldest = at.oldest /\ PaidFor(at, n).reason = at.reason
    BY <1>1, <1>2 DEF Checkpoints
  <1> QED
    BY <1>3 DEF requests

\* The markets traded.
LEMMA KnownTyped ==
    ASSUME TypeOK
    PROVE  Known \in SUBSET Markets
  <1>1. stored \in SUBSET (1..MaxTrades)
    BY BootstrapNumbers, SMTT(30) DEF TypeOK
  <1> QED
    BY <1>1, StampOrder DEF Known

\* Markets are asked for when their requests are paid, no more than those; or none, and
\* the page is judged.
LEMMA ReconcileOutcome ==
    ASSUME TypeOK, NEW p \in Processes, Reconcile(p)
    PROVE  \/ Concludes(p, run[p].at) /\ UNCHANGED settlementVars
           \/ \E asked \in SUBSET Markets :
                 LET paid == PaidFor(run[p].at, Cardinality(asked))
                 IN /\ Cardinality(asked) \in Nat
                    /\ Cardinality(asked) <= (MaxRequests - run[p].at.requests) \div 2
                    /\ log' = paid /\ UNCHANGED scored
                    /\ Puts(p, [run[p] EXCEPT !.pc = "settle", !.at = paid, !.asked = asked])
                    /\ WalletRefresh(p, asked)
  <1> DEFINE at == run[p].at
  <1>1. /\ at \in Checkpoints /\ at.requests \in 0..MaxRequests
        /\ MaxRequests - at.requests \in Nat
    BY RunParts, CheckpointParts, BootstrapNumbers
  <1>2. PICK due \in Candidates(p) : \E asked \in SUBSET due :
            /\ Cardinality(asked) = Smaller(Room(at), Cardinality(due))
            /\ IF asked = {} THEN Judge(p, at) /\ UNCHANGED settlementVars
               ELSE LET paid == PaidFor(at, Cardinality(asked))
                    IN /\ log' = paid
                       /\ run' = [run EXCEPT ![p] = [run[p] EXCEPT !.pc = "settle", !.at = paid,
                                                                   !.asked = asked]]
                       /\ WalletRefresh(p, asked) /\ UNCHANGED scored
    BY DEF Reconcile, PaidFor
  <1>3. PICK asked \in SUBSET due :
            /\ Cardinality(asked) = Smaller(Room(at), Cardinality(due))
            /\ IF asked = {} THEN Judge(p, at) /\ UNCHANGED settlementVars
               ELSE LET paid == PaidFor(at, Cardinality(asked))
                    IN /\ log' = paid
                       /\ run' = [run EXCEPT ![p] = [run[p] EXCEPT !.pc = "settle", !.at = paid,
                                                                   !.asked = asked]]
                       /\ WalletRefresh(p, asked) /\ UNCHANGED scored
    BY <1>2
  <1>4. due \in SUBSET Known
    <2>1. \A late : {m \in Known \ run[p].at.checked : Due(m, wait)} \ late \in SUBSET Known
      OBVIOUS
    <2> QED
      BY <1>2, <2>1 DEF Candidates
  <1>5. /\ asked \in SUBSET Markets /\ IsFiniteSet(asked) /\ Cardinality(asked) \in Nat
        /\ IsFiniteSet(due) /\ Cardinality(due) \in Nat
    BY <1>4, KnownTyped, RefreshNumbers, FS_Subset, FS_CardinalityType
  <1>6. CASE asked = {}
    BY <1>1, <1>3, <1>6, JudgeConcludes
  <1>7. CASE asked # {}
    <2> DEFINE n == Cardinality(asked)
               room == (MaxRequests - at.requests) \div 2
               paid == PaidFor(at, n)
               r == [run[p] EXCEPT !.pc = "settle", !.at = paid, !.asked = asked]
    <2>1. n # 0
      BY <1>5, <1>7, FS_EmptySet
    <2>2. room \in Nat
      BY <1>1
    <2>3. n \in Nat /\ n <= room
      <3>1. n = Smaller(Room(at), Cardinality(due))
        BY <1>3
      <3>2. Room(at) = 0 \/ Room(at) = Smaller(MaxAsked - Cardinality(at.checked), room)
        BY DEF Room
      <3>3. Cardinality(at.checked) \in Nat
        BY <1>1, CheckpointParts, RefreshNumbers, FS_Subset, FS_CardinalityType
      <3>4. MaxAsked - Cardinality(at.checked) \in Int
        BY <3>3, BootstrapNumbers
      <3> DEFINE left == MaxAsked - Cardinality(at.checked)
      <3>5. Smaller(left, room) \in Int /\ Smaller(left, room) <= room
        <4> HIDE DEF left, room
        <4> QED
          BY <2>2, <3>4 DEF Smaller, left
      <3>6. Room(at) \in Int /\ Room(at) <= room
        BY <2>2, <3>2, <3>5
      <3> HIDE DEF room, at, n
      <3>7. n <= Room(at)
        BY <1>5, <3>1, <3>6 DEF Smaller, n
      <3> QED
        BY <1>5, <2>2, <3>6, <3>7 DEF n
    <2>4. paid \in Checkpoints
      <3> HIDE DEF n, at
      <3> QED
        BY <1>1, <2>3, PaidForParts DEF room
    <2>5. r \in Runs
      <3> HIDE DEF paid
      <3> QED
        BY <1>5, <2>4, RunParts DEF Runs
    <2>6. /\ run' = [run EXCEPT ![p] = r] /\ log' = paid
          /\ WalletRefresh(p, asked) /\ UNCHANGED scored
      BY <1>3, <1>7
    <2>7. Puts(p, r)
      <3> HIDE DEF r
      <3> QED
        BY <2>5, <2>6, PutsRun
    <2> QED
      BY <1>5, <2>3, <2>6, <2>7
  <1> QED
    BY <1>6, <1>7

\* The answers are counted, unless one of them failed.
LEMMA AnsweredOutcome ==
    ASSUME TypeOK, NEW p \in Processes, Answered(p)
    PROVE  \E at \in Checkpoints :
              /\ Concludes(p, at)
              /\ at.requests = run[p].at.requests /\ at.offset = run[p].at.offset
              /\ at.end = run[p].at.end /\ at.oldest = run[p].at.oldest
              /\ at.reason = run[p].at.reason
  <1> DEFINE at == run[p].at
             checked == at.checked \union run[p].asked
             next == [at EXCEPT !.checked = checked]
  <1>1. at \in Checkpoints /\ checked \in SUBSET Markets
    BY RunParts, CheckpointParts
  <1>2. CASE Finish(p, at, "upstream")
    <2>1. "upstream" \in Reasons /\ \A result \in {"upstream", "in_progress"} : result # "exhausted"
      BY DEF Reasons
    <2>2. \E result \in {"upstream", "in_progress"} : Ends(p, at, result)
      BY <1>1, <1>2, <2>1, FinishEnds
    <2> QED
      BY <1>1, <2>1, <2>2 DEF Concludes, Ends
  <1>3. CASE Judge(p, next)
    <2>1. /\ next \in Checkpoints /\ next.requests = at.requests /\ next.offset = at.offset
          /\ next.end = at.end /\ next.oldest = at.oldest /\ next.reason = at.reason
      <3> HIDE DEF checked, at
      <3> QED
        BY <1>1 DEF Checkpoints
    <2>2. Concludes(p, next)
      <3> HIDE DEF next
      <3> QED
        BY <1>3, <2>1, JudgeConcludes
    <2> QED
      BY <2>1, <2>2
  <1> QED
    BY <1>2, <1>3 DEF Answered

-----------------------------------------------------------------------------
(* Types. *)

\* What is stored stays within the listing.
LEMMA PageStored ==
    ASSUME TypeOK, NEW end \in Nat, NEW offset \in Nat, NEW limit \in Nat
    PROVE  stored \union Page(end, offset, limit) \subseteq 1..listing
  BY RunParts, PageIsInterval DEF TypeOK

\* The clock of the bot's cycle moves every countdown.
LEMMA CycleTyped ==
    ASSUME TypeOK, NEW new \in BOOLEAN, NEW known \in SUBSET Markets,
           PollMetadata(new), CycleRefresh(known)
    PROVE  RefreshOK' /\ \A p \in Processes \ {Bot} : refresh'[p].todo = refresh[p].todo
  <1> USE RefreshNumbers
  <1> DEFINE later == [m \in Markets |-> IF wait[m] = Never THEN Never ELSE Earlier(wait[m], 1)]
  <1>1. RefreshOK /\ refresh \in [Processes -> Refreshes]
    BY DEF TypeOK, RefreshOK, Refreshes
  <1>2. later \in [Markets -> Nat \union {Never}]
    <2>1. ASSUME NEW m \in Markets, wait[m] # Never
          PROVE  Earlier(wait[m], 1) \in Nat
      <3>1. wait[m] \in Int
        BY <1>1, <2>1 DEF RefreshOK
      <3> QED
        BY <3>1 DEF Earlier, Larger
    <2> QED
      BY <2>1
  <1>3. cooldown' \in Nat /\ mishaps' \in 0..MaxMishaps
    <2>1. cooldown \in Nat /\ mishaps \in 0..MaxMishaps
      BY <1>1 DEF RefreshOK
    <2>2. Earlier(cooldown, 1) \in Nat
      BY <2>1 DEF Earlier, Larger
    <2>3. CASE cooldown' = Earlier(cooldown, 1) /\ UNCHANGED mishaps
      BY <2>1, <2>2, <2>3
    <2>4. CASE Mishap /\ cooldown' \in RetryAfter
      BY <2>1, <2>4 DEF Mishap
    <2> QED
      BY <2>3, <2>4 DEF PollMetadata
  <1>4. throttle' \in Nat
    <2>1. throttle \in Nat /\ throttle' = Earlier(throttle, 1)
      BY <1>1 DEF CycleRefresh, RefreshOK
    <2> QED
      BY <2>1 DEF Earlier, Larger
  <1>5. PICK batch \in Batches(known, MaxChecks, later) :
            refresh' = [p \in Processes |->
                IF p = Bot THEN IF throttle > 1 THEN NoRefresh ELSE Begin(batch)
                ELSE [refresh[p] EXCEPT !.age =
                         IF refresh[p].todo = {} THEN refresh[p].age
                         ELSE Smaller(MaxDelay, refresh[p].age + 1)]]
    BY DEF CycleRefresh
  <1>6. Begin(batch) \in Refreshes
    <2> HIDE DEF later
    <2>1. batch \in SUBSET Markets
      BY <1>5, BatchTyped
    <2> QED
      BY <1>1, <2>1, BeginTyped
  <1>7. ASSUME NEW p \in Processes \ {Bot}
        PROVE  refresh'[p] \in Refreshes /\ refresh'[p].todo = refresh[p].todo
    <2> DEFINE age == IF refresh[p].todo = {} THEN refresh[p].age
                      ELSE Smaller(MaxDelay, refresh[p].age + 1)
    <2>1. refresh[p] \in Refreshes /\ refresh[p].age \in 0..MaxDelay
      BY <1>1 DEF Refreshes
    <2>2. age \in 0..MaxDelay
      BY <2>1 DEF Smaller
    <2>3. refresh'[p] = [refresh[p] EXCEPT !.age = age]
      BY <1>5
    <2> HIDE DEF age
    <2> QED
      BY <2>1, <2>2, <2>3 DEF Refreshes
  <1>8. refresh'[Bot] \in Refreshes
    BY <1>5, <1>6, NoRefreshTyped
  <1>9. refresh' \in [Processes -> Refreshes]
    <2>1. \A p \in Processes : refresh'[p] \in Refreshes
      BY <1>7, <1>8
    <2>2. refresh' = [p \in Processes |-> refresh'[p]]
      BY <1>5
    <2> QED
      BY <2>1, <2>2
  <1>10. wait' = later /\ UNCHANGED <<gamma, settled, attempts>>
    BY DEF CycleRefresh
  <1> HIDE DEF later
  <1> QED
    BY <1>1, <1>2, <1>3, <1>4, <1>7, <1>9, <1>10 DEF RefreshOK, Refreshes

\* A wallet's refresh begins with no more markets than were paid for.
LEMMA WalletTyped ==
    ASSUME RefreshOK, NEW p \in Processes, NEW asked \in SUBSET Markets, WalletRefresh(p, asked)
    PROVE  /\ RefreshOK' /\ \A q \in Processes \ {p} : refresh'[q] = refresh[q]
           /\ refresh'[p].todo \in SUBSET Markets
           /\ Cardinality(refresh'[p].todo) <= Cardinality(asked)
  <1>1. Cardinality(asked) \in Nat
    BY RefreshNumbers, FS_Subset, FS_CardinalityType
  <1>2. PICK batch \in Batches(asked, Cardinality(asked), wait) :
            refresh' = [refresh EXCEPT ![p] = Begin(batch)]
    BY DEF WalletRefresh
  <1>3. batch \in SUBSET asked /\ Cardinality(batch) <= Cardinality(asked)
    BY <1>1, <1>2, BatchTyped
  <1>4. Begin(batch) \in Refreshes /\ Begin(batch).todo = batch
    BY <1>3, BeginTyped
  <1> QED
    BY <1>2, <1>3, <1>4 DEF RefreshOK, Refreshes, WalletRefresh

\* Requests are counted up to one more than the budget.
LEMMA SpendsTyped ==
    ASSUME TypeOK, NEW n \in Nat, Spends(n)
    PROVE  spent' \in 0..(MaxRequests + 1) \union {Overlapped}
  BY BootstrapNumbers DEF TypeOK, Spends, Smaller, Overlapped

\* Where a run resumes.
LEMMA ResumedParts ==
    ASSUME TypeOK
    PROVE  /\ Resumed \in Checkpoints /\ Resumed.reason = "in_progress"
           /\ log.reason # "none" => /\ Resumed.offset = log.offset /\ Resumed.end = log.end
                                     /\ Resumed.oldest = log.oldest
                                     /\ Resumed.requests = log.requests
           /\ log.reason = "none" => /\ Resumed.offset = 0 /\ Resumed.end = Stamp[listing]
                                     /\ Resumed.oldest = 0 /\ Resumed.requests = 0
  <1> DEFINE new == [NoCheckpoint EXCEPT !.end = Stamp[listing]]
             old == IF log.reason = "none" THEN new ELSE log
  <1>1. new \in Checkpoints /\ new.offset = 0 /\ new.end = Stamp[listing] /\ new.oldest = 0
        /\ new.requests = 0
    <2>1. Stamp[listing] \in Nat
      BY UntilNewest DEF TypeOK
    <2> QED
      BY <2>1, BootstrapNumbers DEF NoCheckpoint, Checkpoints
  <1>2. old \in Checkpoints
    <2> HIDE DEF new
    <2> QED
      BY <1>1 DEF TypeOK
  <1>3. "in_progress" \in Reasons /\ Resumed = [old EXCEPT !.reason = "in_progress"]
    BY DEF Reasons, Resumed
  <1> HIDE DEF new
  <1>4. (log.reason # "none" => old = log) /\ (log.reason = "none" => old = new)
    OBVIOUS
  <1> HIDE DEF old
  <1> QED
    BY <1>1, <1>2, <1>3, <1>4, NewReason

\* A scoring run begins a bootstrap, or concludes at once.
LEMMA StartOutcome ==
    ASSUME TypeOK, NEW p \in Processes, StartScoring(p)
    PROVE  \/ /\ UNCHANGED <<run, first, spent>> /\ scored' \in BOOLEAN
              /\ \/ UNCHANGED log
                 \/ log' \in Checkpoints
                    /\ log' = [NoCheckpoint EXCEPT !.reason = "mature", !.end = Stamp[listing]]
           \/ /\ ~Bootstrapping(p) /\ log.reason \notin {"mature", "exhausted"}
              /\ UNCHANGED <<log, scored>> /\ Resumed \in Checkpoints
              /\ Puts(p, [NoRun EXCEPT !.pc = "loop", !.at = Resumed])
              /\ first' = IF first = 0 THEN listing ELSE first
              /\ spent' = IF Overlaps(p) THEN Overlapped ELSE spent
  <1>1. CASE Concluded \/ Mature
    <2>1. UNCHANGED <<run, first, spent>> /\ scored' \in BOOLEAN
      BY <1>1 DEF StartScoring
    <2>2. [NoCheckpoint EXCEPT !.reason = "mature", !.end = Stamp[listing]] \in Checkpoints
      <3>1. Stamp[listing] \in Nat
        BY RunParts, UntilNewest
      <3> QED
        BY <3>1, NoneTyped DEF Checkpoints
    <2>3. \/ log' = log
          \/ log' = [NoCheckpoint EXCEPT !.reason = "mature", !.end = Stamp[listing]]
      BY <1>1 DEF StartScoring
    <2> QED
      BY <2>1, <2>2, <2>3
  <1>2. CASE ~(Concluded \/ Mature)
    <2> DEFINE at == Resumed
               r == [NoRun EXCEPT !.pc = "loop", !.at = at]
    <2>1. /\ run' = [run EXCEPT ![p] = r] /\ UNCHANGED <<log, scored>>
          /\ first' = IF first = 0 THEN listing ELSE first
          /\ spent' = IF Overlaps(p) THEN Overlapped ELSE spent
      BY <1>2 DEF StartScoring
    <2>2. at \in Checkpoints
      BY ResumedParts
    <2>3. r \in Runs
      <3> HIDE DEF at
      <3> QED
        BY <2>2, NoneTyped DEF Runs
    <2>4. Puts(p, r)
      <3> HIDE DEF r
      <3> QED
        BY <2>1, <2>3, PutsRun
    <2>5. ~Bootstrapping(p) /\ log.reason \notin {"mature", "exhausted"}
      BY <1>2 DEF StartScoring, Idle, Bootstrapping, Concluded
    <2> QED
      BY <2>1, <2>2, <2>4, <2>5
  <1> QED
    BY <1>1, <1>2

\* The conclusions are typed.
LEMMA ConcludesTyped ==
    ASSUME TypeOK, NEW p \in Processes, NEW at, Concludes(p, at)
    PROVE  run' \in [Processes -> Runs] /\ log' \in Checkpoints /\ scored' \in BOOLEAN
  BY RunParts DEF Concludes, Ends, Puts, TypeOK

\* The refresh of nobody changes.
LEMMA RefreshStays ==
    ASSUME RefreshOK, UNCHANGED settlementVars
    PROVE  RefreshOK'
  BY DEF RefreshOK, settlementVars

\* A death or a raised error gives the run up.
LEMMA NoRunPuts ==
    ASSUME TypeOK, NEW p \in Processes, run' = [run EXCEPT ![p] = NoRun]
    PROVE  Puts(p, NoRun)
  BY NoneTyped, PutsRun

\* A failed check is remembered.
LEMMA FailedPuts ==
    ASSUME TypeOK, NEW p \in Processes, run' = [run EXCEPT ![p] = [run[p] EXCEPT !.failed = TRUE]]
    PROVE  Puts(p, [run[p] EXCEPT !.failed = TRUE])
  <1> DEFINE r == [run[p] EXCEPT !.failed = TRUE]
  <1>1. r \in Runs
    BY RunParts DEF Runs
  <1> HIDE DEF r
  <1>2. Puts(p, r)
    BY <1>1, PutsRun DEF r
  <1> QED
    BY <1>2 DEF r

\* A crash leaves the settlements typed.
LEMMA CrashTyped ==
    ASSUME RefreshOK, NEW p \in Processes, Crash(p)
    PROVE  /\ RefreshOK' /\ \A q \in Processes \ {p} : refresh'[q] = refresh[q]
  <1>1. refresh \in [Processes -> Refreshes]
    BY DEF RefreshOK, Refreshes
  <1>2. refresh' = [refresh EXCEPT ![p] = NoRefresh]
    BY DEF Crash
  <1>3. /\ refresh' \in [Processes -> Refreshes]
        /\ \A q \in Processes \ {p} : refresh'[q] = refresh[q]
    BY <1>1, <1>2, NoRefreshTyped
  <1>4. cooldown' \in Nat /\ mishaps' \in 0..MaxMishaps
    BY RefreshNumbers DEF Crash, Mishap, RefreshOK
  <1>5. UNCHANGED <<gamma, settled, attempts, wait, throttle>>
    BY DEF Crash
  <1> QED
    BY <1>3, <1>4, <1>5 DEF RefreshOK, Refreshes

\* The parts of TypeOK that a step of a run leaves or moves.
Shaped ==
    /\ listing \in 1..MaxTrades /\ stored \subseteq 1..listing /\ scorings \in 0..MaxScorings
    /\ first \in 0..MaxTrades /\ spent \in 0..(MaxRequests + 1) \union {Overlapped}

\* TypeOK, by parts.
LEMMA TypeByParts ==
    /\ TypeOK => Shaped /\ RefreshOK
    /\ RefreshOK /\ Shaped /\ log \in Checkpoints /\ run \in [Processes -> Runs]
       /\ scored \in BOOLEAN
           => TypeOK
    /\ RefreshOK' /\ Shaped' /\ log' \in Checkpoints /\ run' \in [Processes -> Runs]
       /\ scored' \in BOOLEAN
           => TypeOK'
  BY DEF TypeOK, Shaped, Runs, Checkpoints

\* The steps of a run keep the types.
LEMMA RunTyped ==
    ASSUME TypeOK, NEW p \in Processes, BootstrapStep(p)
    PROVE  TypeOK'
  <1>1. RefreshOK /\ Shaped /\ run \in [Processes -> Runs] /\ log \in Checkpoints
        /\ scored \in BOOLEAN
    BY TypeByParts, RunParts DEF TypeOK
  <1>2. CASE Roll(p)
    <2>1. RefreshOK' /\ Shaped'
      BY <1>1, <1>2, RefreshStays DEF Roll, Shaped
    <2>2. log' \in Checkpoints /\ run' \in [Processes -> Runs] /\ scored' \in BOOLEAN
      BY <1>1, <1>2, RollOutcome DEF Ends, Puts
    <2> QED
      BY <2>1, <2>2, TypeByParts
  <1>3. CASE Reserve(p)
    <2>1. RefreshOK' /\ Shaped'
      BY <1>1, <1>3, RefreshStays DEF Reserve, Shaped
    <2>2. log' \in Checkpoints /\ run' \in [Processes -> Runs] /\ scored' \in BOOLEAN
      BY <1>1, <1>3, ReserveOutcome DEF Puts, Reserve
    <2> QED
      BY <2>1, <2>2, TypeByParts
  <1>4. CASE NoMorePages(p)
    <2>1. RefreshOK' /\ Shaped'
      BY <1>1, <1>4, RefreshStays DEF NoMorePages, Shaped
    <2>2. log' \in Checkpoints /\ run' \in [Processes -> Runs] /\ scored' \in BOOLEAN
      BY <1>4, StopConcludes, ConcludesTyped
    <2> QED
      BY <2>1, <2>2, TypeByParts
  <1>5. CASE Fetch(p)
    <2>1. spent' \in 0..(MaxRequests + 1) \union {Overlapped}
      BY <1>5, SpendsTyped DEF Fetch
    <2>2. /\ stored' \subseteq 1..listing
          /\ log' \in Checkpoints /\ run' \in [Processes -> Runs] /\ scored' \in BOOLEAN
      <3> DEFINE at == run[p].at
                 limit == Requested(at)
                 page == Page(at.end, at.offset, limit)
      <3>1. stored \union page \subseteq 1..listing
        <4>1. at \in Checkpoints /\ at.end \in Nat /\ at.offset \in Nat
          BY RunParts, CheckpointParts
        <4>2. limit \in Nat
          <5> HIDE DEF at
          <5> QED
            BY <4>1, RequestedFits, SMTT(30)
        <4> HIDE DEF at, limit
        <4> QED
          BY <4>1, <4>2, PageStored
      <3>2. \/ \E result \in Reasons : Ends(p, at, result) /\ UNCHANGED stored
            \/ stored' = stored \union page /\ UNCHANGED <<log, scored>>
               /\ run' \in [Processes -> Runs]
        BY <1>5, FetchOutcome DEF Puts
      <3> HIDE DEF page
      <3> QED
        BY <1>1, <3>1, <3>2 DEF Ends, Puts, Shaped
    <2>3. RefreshOK' /\ Shaped'
      BY <1>1, <1>5, <2>1, <2>2, RefreshStays DEF Fetch, Shaped
    <2> QED
      BY <2>2, <2>3, TypeByParts
  <1>6. CASE Progress(p)
    <2>1. RefreshOK' /\ Shaped'
      BY <1>1, <1>6, RefreshStays DEF Progress, Shaped
    <2>2. log' \in Checkpoints /\ run' \in [Processes -> Runs] /\ scored' \in BOOLEAN
      BY <1>1, <1>6, RunParts, PersistPuts DEF Puts, Progress
    <2> QED
      BY <2>1, <2>2, TypeByParts
  <1>7. CASE Reconcile(p)
    <2>1. RefreshOK'
      BY <1>1, <1>7, ReconcileOutcome, RefreshStays, WalletTyped
    <2>2. Shaped'
      BY <1>1, <1>7 DEF Reconcile, Shaped
    <2>3. log' \in Checkpoints /\ run' \in [Processes -> Runs] /\ scored' \in BOOLEAN
      <3>1. CASE Concludes(p, run[p].at)
        BY <3>1, ConcludesTyped
      <3>2. ASSUME NEW asked \in SUBSET Markets,
                   Cardinality(asked) \in Nat,
                   Cardinality(asked) <= (MaxRequests - run[p].at.requests) \div 2,
                   log' = PaidFor(run[p].at, Cardinality(asked)), UNCHANGED scored,
                   run' \in [Processes -> Runs]
            PROVE  log' \in Checkpoints /\ run' \in [Processes -> Runs] /\ scored' \in BOOLEAN
        BY <1>1, <3>2, RunParts, PaidForParts
      <3> QED
        BY <1>7, <3>1, <3>2, ReconcileOutcome DEF Puts
    <2> QED
      BY <2>1, <2>2, <2>3, TypeByParts
  <1>8. CASE Answered(p)
    <2>1. RefreshOK' /\ Shaped'
      BY <1>1, <1>8, RefreshStays DEF Answered, Shaped
    <2>2. log' \in Checkpoints /\ run' \in [Processes -> Runs] /\ scored' \in BOOLEAN
      BY <1>8, AnsweredOutcome, ConcludesTyped
    <2> QED
      BY <2>1, <2>2, TypeByParts
  <1>9. ASSUME NEW m \in Markets, RunChecks(p, m)
        PROVE  TypeOK'
    <2>1. spent' \in 0..(MaxRequests + 1) \union {Overlapped}
      BY <1>9, SpendsTyped DEF RunChecks
    <2>2. RefreshOK'
      BY <1>1, <1>9, CheckTyped DEF RunChecks
    <2>3. Shaped' /\ log' \in Checkpoints /\ scored' \in BOOLEAN
      BY <1>1, <1>9, <2>1 DEF RunChecks, Shaped
    <2>4. run' \in [Processes -> Runs]
      BY <1>1, <1>9, FailedPuts DEF RunChecks, Puts
    <2> QED
      BY <2>2, <2>3, <2>4, TypeByParts
  <1>10. ASSUME NEW m \in Markets, Raises(p, m)
         PROVE  TypeOK'
    <2>1. spent' \in 0..(MaxRequests + 1) \union {Overlapped}
      BY <1>1, <1>10, SpendsTyped DEF Raises, Shaped
    <2>2. RefreshOK'
      BY <1>1, <1>10, CheckTyped DEF Raises
    <2>3. Shaped' /\ log' \in Checkpoints /\ scored' \in BOOLEAN
      BY <1>1, <1>10, <2>1 DEF Raises, Shaped
    <2>4. run' \in [Processes -> Runs]
      BY <1>10, NoRunPuts DEF Raises, Puts
    <2> QED
      BY <2>2, <2>3, <2>4, TypeByParts
  <1> QED
    BY <1>2, <1>3, <1>4, <1>5, <1>6, <1>7, <1>8, <1>9, <1>10 DEF BootstrapStep

\* TypeOK, for any number of markets, trades and processes: no counter passes its cap, and
\* the source is never asked for an offset that it refuses or a row past the wallet's cap.
THEOREM TypeCorrect == Spec => []TypeOK
  <1>1. Init => TypeOK
    <2>1. ASSUME Init
          PROVE  RefreshOK
      <3>1. 0 \in 0..MaxDelay /\ 0 \in 0..MaxMishaps
        BY RefreshNumbers
      <3> QED
        BY <2>1, <3>1, RefreshAssumption, NoRefreshTyped DEF Init, RefreshInit, RefreshOK, Refreshes
    <2>2. ASSUME Init
          PROVE  Shaped /\ log \in Checkpoints /\ run \in [Processes -> Runs] /\ scored \in BOOLEAN
      <3>1. /\ Listing0 \in 1..MaxTrades /\ 0 \in 0..MaxScorings /\ 0 \in 0..MaxTrades
            /\ 0 \in 0..(MaxRequests + 1)
        BY BootstrapNumbers
      <3>2. Shaped
        BY <2>2, <3>1 DEF Init, Shaped
      <3> QED
        BY <2>2, <3>2, NoneTyped DEF Init
    <2> QED
      BY <2>1, <2>2, TypeByParts
  <1>2. ASSUME TypeOK, [Next]_vars
        PROVE  TypeOK'
    <2>1. RefreshOK /\ Shaped /\ run \in [Processes -> Runs] /\ log \in Checkpoints
          /\ scored \in BOOLEAN
      BY <1>2, TypeByParts DEF TypeOK, Runs
    <2>2. CASE SourceTrade
      <3>1. Shaped'
        BY <2>1, <2>2, BootstrapNumbers DEF SourceTrade, Shaped
      <3>2. RefreshOK' /\ run' \in [Processes -> Runs] /\ log' \in Checkpoints
            /\ scored' \in BOOLEAN
        BY <2>1, <2>2, RefreshStays DEF SourceTrade
      <3> QED
        BY <3>1, <3>2, TypeByParts
    <2>3. ASSUME NEW m \in Markets, MarketResolves(m)
          PROVE  TypeOK'
      <3>1. RefreshOK'
        BY <2>1, <2>3 DEF MarketResolves, Resolve, RefreshOK
      <3>2. Shaped' /\ run' \in [Processes -> Runs] /\ log' \in Checkpoints /\ scored' \in BOOLEAN
        BY <2>1, <2>3 DEF MarketResolves, Shaped
      <3> QED
        BY <3>1, <3>2, TypeByParts
    <2>4. CASE Cycle
      <3>1. stored' \subseteq 1..listing
        <4>1. Stamp[listing] \in Nat /\ 0 \in Nat /\ BatchSize \in Nat
          BY <2>1, UntilNewest, BootstrapNumbers DEF Shaped
        <4>2. stored' = stored \union Page(Stamp[listing], 0, BatchSize)
          BY <2>4 DEF Cycle
        <4> QED
          BY <1>2, <4>1, <4>2, PageStored
      <3>2. RefreshOK'
        <4> DEFINE known == {MarketOf[t] : t \in stored'}
        <4>1. known \in SUBSET Markets
          <5>1. stored' \subseteq 1..MaxTrades
            BY <2>1, <3>1, BootstrapNumbers DEF Shaped
          <5> QED
            BY <5>1, StampOrder
        <4>2. PollMetadata(known # Known) /\ CycleRefresh(known)
          BY <2>4 DEF Cycle
        <4>3. (known # Known) \in BOOLEAN
          OBVIOUS
        <4> HIDE DEF known
        <4> QED
          BY <1>2, <4>1, <4>2, <4>3, CycleTyped
      <3>3. Shaped' /\ run' \in [Processes -> Runs] /\ log' \in Checkpoints /\ scored' \in BOOLEAN
        BY <2>1, <2>4, <3>1 DEF Cycle, Shaped
      <3> QED
        BY <3>2, <3>3, TypeByParts
    <2>5. ASSUME NEW p \in Processes, StartScoring(p)
          PROVE  TypeOK'
      <3>1. RefreshOK'
        BY <2>1, <2>5, RefreshStays DEF StartScoring
      <3>2. log' \in Checkpoints /\ run' \in [Processes -> Runs] /\ scored' \in BOOLEAN
        BY <1>2, <2>1, <2>5, StartOutcome DEF Puts
      <3>3. first' \in 0..MaxTrades /\ spent' \in 0..(MaxRequests + 1) \union {Overlapped}
        BY <1>2, <2>1, <2>5, StartOutcome, BootstrapNumbers DEF Shaped
      <3>4. scorings' \in 0..MaxScorings
        BY <2>1, <2>5, BootstrapNumbers DEF StartScoring, Shaped
      <3>5. UNCHANGED <<listing, stored>>
        BY <2>5 DEF StartScoring
      <3>6. Shaped'
        BY <2>1, <3>3, <3>4, <3>5 DEF Shaped
      <3> QED
        BY <3>1, <3>2, <3>6, TypeByParts
    <2>6. ASSUME NEW m \in Markets, CycleChecks(m)
          PROVE  TypeOK'
      <3>1. RefreshOK'
        BY <2>1, <2>6, RefreshNumbers, CheckTyped DEF CycleChecks
      <3>2. Shaped' /\ run' \in [Processes -> Runs] /\ log' \in Checkpoints /\ scored' \in BOOLEAN
        BY <2>1, <2>6 DEF CycleChecks, Shaped
      <3> QED
        BY <3>1, <3>2, TypeByParts
    <2>7. ASSUME NEW p \in Processes, Crash(p)
          PROVE  TypeOK'
      <3>1. RefreshOK'
        BY <2>1, <2>7, CrashTyped
      <3>2. Shaped' /\ run' \in [Processes -> Runs] /\ log' \in Checkpoints /\ scored' \in BOOLEAN
        BY <1>2, <2>1, <2>7, NoRunPuts DEF Crash, Shaped, Puts
      <3> QED
        BY <3>1, <3>2, TypeByParts
    <2>8. CASE UNCHANGED vars
      BY <1>2, <2>8 DEF TypeOK, RefreshOK, vars, settlementVars
    <2> QED
      BY <1>2, <2>2, <2>3, <2>4, <2>5, <2>6, <2>7, <2>8, RunTyped DEF Next, Proceeds
  <1> QED
    BY <1>1, <1>2, PTL DEF Spec

-----------------------------------------------------------------------------
(* Checkpoints are of backfills that began. *)

Started ==
    /\ log.reason = "none" => log = NoCheckpoint
    /\ \A p \in Processes : Bootstrapping(p) => run[p].at.reason = "in_progress"

\* The steps of a run that go on, and those that end it.
LEMMA StartedPuts ==
    ASSUME Started, NEW p \in Processes, NEW r, Puts(p, r),
           r.pc # "idle" => r.at.reason = "in_progress",
           UNCHANGED log \/ log'.reason # "none"
    PROVE  Started'
  BY DEF Started, Puts, Bootstrapping

\* A conclusion.
LEMMA StartedConcludes ==
    ASSUME TypeOK, Started, NEW p \in Processes, NEW at \in Checkpoints, Concludes(p, at),
           at.reason = "in_progress"
    PROVE  Started'
  <1>1. ASSUME NEW result \in Reasons, Ends(p, at, result)
        PROVE  Started'
    <2>1. log'.reason = result /\ result # "none"
      BY <1>1, NewReason DEF Ends, Reasons
    <2> QED
      BY <1>1, <2>1, NoneTyped, StartedPuts DEF Ends
  <1>2. CASE /\ Puts(p, [run[p] EXCEPT !.pc = "loop", !.at = at, !.short = FALSE, !.asked = {}])
             /\ UNCHANGED <<log, scored>>
    <2> DEFINE r == [run[p] EXCEPT !.pc = "loop", !.at = at, !.short = FALSE, !.asked = {}]
    <2>1. r.at = at
      BY RunParts DEF Runs
    <2> HIDE DEF r
    <2> QED
      BY <1>2, <2>1, StartedPuts DEF r
  <1> QED
    BY <1>1, <1>2 DEF Concludes

\* The steps of a run.
LEMMA RunStarted ==
    ASSUME TypeOK, Started, NEW p \in Processes, BootstrapStep(p)
    PROVE  Started'
  <1> DEFINE at == run[p].at
  <1>1. at \in Checkpoints /\ run[p] \in Runs
    BY RunParts
  <1>2. Bootstrapping(p) => at.reason = "in_progress"
    BY DEF Started
  <1>3. CASE Roll(p)
    <2>1. Bootstrapping(p)
      BY <1>3 DEF Roll, Goes, Bootstrapping
    <2>2. ASSUME NEW result \in Reasons, Ends(p, at, result)
          PROVE  Started'
      BY <1>1, <1>2, <2>1, <2>2, StartedConcludes, NewReason, NoneTyped, StartedPuts
         DEF Ends, Reasons
    <2>3. ASSUME NextWindow(at) \in Checkpoints, log' = NextWindow(at),
                 Puts(p, [run[p] EXCEPT !.pc = "loop", !.at = NextWindow(at)])
          PROVE  Started'
      <3> DEFINE next == NextWindow(at)
                 r == [run[p] EXCEPT !.pc = "loop", !.at = next]
      <3>1. next.reason = "in_progress"
        <4> HIDE DEF at
        <4> QED
          BY <1>1, <1>2, <2>1, NextWindowParts
      <3>2. r.at = next
        <4> HIDE DEF next
        <4> QED
          BY <1>1 DEF Runs
      <3> HIDE DEF next, r
      <3> QED
        BY <2>3, <3>1, <3>2, StartedPuts DEF next, r
    <2> QED
      BY <1>3, <2>2, <2>3, RollOutcome
  <1>4. CASE Reserve(p)
    <2>1. at.reason = "in_progress"
      BY <1>2, <1>4 DEF Reserve, Goes, Bootstrapping
    <2>2. PICK paid \in Checkpoints :
            /\ log' = paid /\ paid.reason = at.reason
            /\ Puts(p, [run[p] EXCEPT !.pc = "fetch", !.at = paid, !.pages = run[p].pages + 1])
      BY <1>4, ReserveOf
    <2> DEFINE pages == run[p].pages + 1
               r == [run[p] EXCEPT !.pc = "fetch", !.at = paid, !.pages = pages]
    <2>3. r.at = paid
      <3> HIDE DEF pages
      <3> QED
        BY <1>1 DEF Runs
    <2>4. Puts(p, r)
      BY <2>2
    <2> HIDE DEF r, at
    <2> QED
      BY <2>1, <2>2, <2>3, <2>4, StartedPuts
  <1>5. CASE NoMorePages(p)
    BY <1>1, <1>2, <1>5, StopConcludes, StartedConcludes DEF NoMorePages, Goes, Bootstrapping
  <1>6. CASE Fetch(p)
    <2>1. PICK page, next, short :
            /\ page = Page(at.end, at.offset, Requested(at))
            /\ next = Read(at, Cardinality(page), Oldest(page))
            /\ short = (Cardinality(page) < Requested(at))
            /\ \/ \E result \in Reasons : /\ Ends(p, at, result) /\ UNCHANGED stored
                                          /\ result = "exhausted" => page = {}
               \/ /\ page # {} /\ next \in Checkpoints
                  /\ stored' = stored \union page /\ UNCHANGED log
                  /\ Puts(p, [run[p] EXCEPT !.pc = "progress", !.short = short, !.at = next])
      BY <1>6, FetchOf, ZenonT(60)
    <2> DEFINE r == [run[p] EXCEPT !.pc = "progress", !.short = short, !.at = next]
    <2>2. \/ \E result \in Reasons : Ends(p, at, result)
          \/ UNCHANGED log /\ Puts(p, r)
      BY <2>1, Zenon
    <2>3. next.reason = at.reason
      BY <1>1, <2>1 DEF Read, Checkpoints
    <2>4. r.at = next
      BY <1>1 DEF Runs
    <2>5. at.reason = "in_progress"
      BY <1>2, <1>6 DEF Fetch, Goes, Bootstrapping
    <2>6. ASSUME NEW result \in Reasons, Ends(p, at, result)
          PROVE  Started'
      BY <1>1, <2>6, NewReason, NoneTyped, StartedPuts DEF Ends, Reasons
    <2> HIDE DEF r, at
    <2>7. ASSUME UNCHANGED log, Puts(p, r)
          PROVE  Started'
      BY <2>3, <2>4, <2>5, <2>7, StartedPuts
    <2> QED
      BY <2>2, <2>6, <2>7
  <1>7. CASE Progress(p)
    <2> DEFINE r == [run[p] EXCEPT !.pc = "reconcile", !.at = at]
    <2>1. log' = at /\ Puts(p, r)
      BY <1>1, <1>7, PersistPuts DEF Progress
    <2>2. r.at = at
      <3> HIDE DEF at
      <3> QED
        BY <1>1 DEF Runs
    <2>3. at.reason = "in_progress"
      BY <1>2, <1>7 DEF Progress, Goes, Bootstrapping
    <2> HIDE DEF r
    <2> QED
      BY <2>1, <2>2, <2>3, StartedPuts
  <1>8. CASE Reconcile(p)
    <2>1. at.reason = "in_progress"
      BY <1>2, <1>8 DEF Reconcile, Goes, Bootstrapping
    <2>2. ASSUME NEW asked \in SUBSET Markets, Cardinality(asked) \in Nat,
                 Cardinality(asked) <= (MaxRequests - at.requests) \div 2,
                 log' = PaidFor(at, Cardinality(asked)),
                 Puts(p, [run[p] EXCEPT !.pc = "settle", !.at = PaidFor(at, Cardinality(asked)),
                                        !.asked = asked])
          PROVE  Started'
      <3> DEFINE paid == PaidFor(at, Cardinality(asked))
                 r == [run[p] EXCEPT !.pc = "settle", !.at = paid, !.asked = asked]
      <3>1. paid.reason = "in_progress"
        <4> HIDE DEF at
        <4> QED
          BY <1>1, <2>1, <2>2, PaidForParts
      <3>2. r.at = paid
        <4> HIDE DEF paid
        <4> QED
          BY <1>1 DEF Runs
      <3> HIDE DEF paid, r
      <3> QED
        BY <2>2, <3>1, <3>2, StartedPuts DEF paid, r
    <2> QED
      BY <1>1, <1>8, <2>1, <2>2, ReconcileOutcome, StartedConcludes
  <1>9. CASE Answered(p)
    BY <1>2, <1>9, AnsweredOutcome, StartedConcludes DEF Answered, Goes, Bootstrapping
  <1>10. ASSUME NEW m \in Markets, RunChecks(p, m)
         PROVE  Started'
    <2>1. UNCHANGED log /\ at.reason = "in_progress"
      BY <1>2, <1>10 DEF RunChecks, Goes, Bootstrapping
    <2>2. CASE UNCHANGED run
      BY <2>1, <2>2 DEF Started, Bootstrapping
    <2>3. CASE Puts(p, [run[p] EXCEPT !.failed = TRUE])
      <3> DEFINE r == [run[p] EXCEPT !.failed = TRUE]
      <3>1. r.at = at
        BY <1>1 DEF Runs
      <3> HIDE DEF r
      <3> QED
        BY <2>1, <2>3, <3>1, StartedPuts DEF r
    <2> QED
      BY <1>10, <2>2, <2>3, FailedPuts DEF RunChecks
  <1>11. ASSUME NEW m \in Markets, Raises(p, m)
         PROVE  Started'
    BY <1>11, NoRunPuts, NoneTyped, StartedPuts DEF Raises
  <1> QED
    BY <1>3, <1>4, <1>5, <1>6, <1>7, <1>8, <1>9, <1>10, <1>11 DEF BootstrapStep

\* What is not a step of a run leaves the runs and the log alone, or begins a run, or ends it.
LEMMA AlwaysStarted == Spec => []Started
  <1>1. Init => Started
    BY NoneTyped DEF Init, Started, Bootstrapping
  <1>2. ASSUME TypeOK, Started, [Next]_vars
        PROVE  Started'
    <2>1. CASE UNCHANGED <<log, run>>
      BY <1>2, <2>1 DEF Started, Bootstrapping
    <2>2. ASSUME NEW p \in Processes, StartScoring(p)
          PROVE  Started'
      <3>1. CASE /\ UNCHANGED run
                 /\ \/ UNCHANGED log
                    \/ log' = [NoCheckpoint EXCEPT !.reason = "mature", !.end = Stamp[listing]]
        <4>1. UNCHANGED log \/ log'.reason = "mature"
          BY <3>1 DEF NoCheckpoint
        <4> QED
          BY <1>2, <3>1, <4>1 DEF Started, Bootstrapping
      <3>2. CASE UNCHANGED log /\ Puts(p, [NoRun EXCEPT !.pc = "loop", !.at = Resumed])
        <4> DEFINE at == Resumed
                   r == [NoRun EXCEPT !.pc = "loop", !.at = at]
        <4>1. at.reason = "in_progress"
          BY <1>2, ResumedParts
        <4>2. r.at = at
          <5> HIDE DEF at
          <5> QED
            BY DEF NoRun
        <4> HIDE DEF r, at
        <4> QED
          BY <1>2, <3>2, <4>1, <4>2, StartedPuts DEF r, at
      <3> QED
        BY <1>2, <2>2, <3>1, <3>2, StartOutcome
    <2>3. ASSUME NEW p \in Processes, Crash(p)
          PROVE  Started'
      BY <1>2, <2>3, NoRunPuts, NoneTyped, StartedPuts DEF Crash
    <2>4. CASE SourceTrade \/ Cycle \/ UNCHANGED vars
      BY <2>1, <2>4 DEF SourceTrade, Cycle, vars
    <2>5. ASSUME NEW m \in Markets, MarketResolves(m) \/ CycleChecks(m)
          PROVE  Started'
      BY <2>1, <2>5 DEF MarketResolves, CycleChecks
    <2> QED
      BY <1>2, <2>2, <2>3, <2>4, <2>5, RunStarted DEF Next, Proceeds
  <1> QED
    BY <1>1, <1>2, TypeCorrect, PTL DEF Spec

-----------------------------------------------------------------------------
(* The budget of requests. *)

\* What a run has paid for and not asked yet.
Owed(p) ==
    IF run[p].pc = "fetch" THEN 1
    ELSE IF run[p].pc = "settle" THEN 2 * Cardinality(refresh[p].todo)
    ELSE 0

Single == \A p, q \in Processes : Bootstrapping(p) /\ Bootstrapping(q) => p = q

\* Until two runs overlap, what is spent is in the last entry, unless that is of maturity,
\* and what is spent and owed is in the run's checkpoint, which the entry has.
Budgeted ==
    spent # Overlapped =>
        /\ spent <= MaxRequests /\ Single
        /\ log.reason = "mature" \/ spent <= log.requests
        /\ \A p \in Processes : Bootstrapping(p) =>
               /\ spent + Owed(p) <= run[p].at.requests
               /\ log.reason = "mature" \/ log.requests = run[p].at.requests

\* What is owed is a number.
LEMMA OwedTyped ==
    ASSUME RefreshOK, NEW p \in Processes
    PROVE  Owed(p) \in Nat
  <1>1. refresh[p].todo \in SUBSET Markets
    BY DEF RefreshOK
  <1>2. Cardinality(refresh[p].todo) \in Nat
    BY <1>1, RefreshNumbers, FS_Subset, FS_CardinalityType
  <1> QED
    BY <1>2 DEF Owed

\* A market less is owed two requests less.
LEMMA CheckOwes ==
    ASSUME RefreshOK, NEW p \in Processes, NEW m \in refresh[p].todo, GoneOn(p, m)
    PROVE  /\ Cardinality(refresh[p].todo) \in Nat /\ Cardinality(refresh'[p].todo) \in Nat
           /\ Cardinality(refresh'[p].todo) + 1 <= Cardinality(refresh[p].todo)
  <1> DEFINE todo == refresh[p].todo
  <1>1. todo \in SUBSET Markets
    BY DEF RefreshOK
  <1>2. IsFiniteSet(todo) /\ Cardinality(todo) \in Nat
    BY <1>1, RefreshNumbers, FS_Subset, FS_CardinalityType
  <1>3. Cardinality(todo) # 0
    BY <1>2, FS_EmptySet
  <1>4. Cardinality(todo \ {m}) = Cardinality(todo) - 1
    BY <1>2, FS_RemoveElement
  <1>5. refresh'[p].todo \in {{}, todo \ {m}}
    BY DEF GoneOn
  <1>6. Cardinality({}) = 0
    BY FS_EmptySet
  <1> DEFINE rest == refresh'[p].todo
  <1>7. rest = {} \/ rest = todo \ {m}
    BY <1>5
  <1> HIDE DEF todo, rest
  <1>8. Cardinality(rest) = 0 \/ Cardinality(rest) = Cardinality(todo) - 1
    BY <1>4, <1>6, <1>7
  <1>9. Cardinality(rest) \in Nat /\ Cardinality(rest) + 1 <= Cardinality(todo)
    BY <1>2, <1>3, <1>8
  <1> QED
    BY <1>2, <1>9 DEF todo, rest

\* The only run in progress moves.
LEMMA BudgetedStep ==
    ASSUME Budgeted, NEW p \in Processes, spent # Overlapped, Bootstrapping(p), NEW r, Puts(p, r),
           spent' <= MaxRequests, log'.reason = "mature" \/ spent' <= log'.requests,
           r.pc # "idle" => /\ spent' + Owed(p)' <= r.at.requests
                            /\ log'.reason = "mature" \/ log'.requests = r.at.requests
    PROVE  Budgeted'
  <1>1. \A q \in Processes \ {p} : ~Bootstrapping(q)
    BY DEF Budgeted, Single
  <1>2. \A q \in Processes \ {p} : ~Bootstrapping(q)'
    BY <1>1 DEF Bootstrapping, Puts
  <1>3. run'[p] = r
    BY DEF Puts
  <1> QED
    BY <1>2, <1>3 DEF Budgeted, Single, Bootstrapping

\* Once two have overlapped, nothing is counted.
LEMMA OverlappedStays ==
    ASSUME spent = Overlapped, NEW n, Spends(n) \/ UNCHANGED spent
    PROVE  Budgeted'
  BY DEF Spends, Budgeted

\* Another request or two, within the budget.
LEMMA SpendsExactly ==
    ASSUME TypeOK, spent # Overlapped, NEW n \in Nat, NEW owed \in 0..MaxRequests,
           spent + n <= owed, Spends(n)
    PROVE  spent' = spent + n /\ spent' \in Nat /\ spent' <= MaxRequests
  BY BootstrapNumbers DEF TypeOK, Spends, Smaller, Overlapped

\* The numbers of the run in progress.
LEMMA BudgetParts ==
    ASSUME TypeOK, Budgeted, NEW p \in Processes, spent # Overlapped, Bootstrapping(p)
    PROVE  /\ spent \in Nat /\ Owed(p) \in Nat /\ run[p].at.requests \in 0..MaxRequests
           /\ spent + Owed(p) <= run[p].at.requests /\ spent <= run[p].at.requests
           /\ spent <= MaxRequests
           /\ log.reason = "mature" \/ log.requests = run[p].at.requests
  <1>1. spent \in Nat
    BY BootstrapNumbers DEF TypeOK, Overlapped
  <1>2. Owed(p) \in Nat
    BY OwedTyped DEF TypeOK
  <1>3. run[p].at.requests \in 0..MaxRequests
    BY RunParts, CheckpointParts
  <1>4. /\ spent + Owed(p) <= run[p].at.requests
        /\ log.reason = "mature" \/ log.requests = run[p].at.requests
    BY DEF Budgeted
  <1> QED
    BY <1>1, <1>2, <1>3, <1>4, BootstrapNumbers

\* A run that ends leaves what it has paid in the log.
LEMMA BudgetedEnds ==
    ASSUME Budgeted, NEW p \in Processes, spent # Overlapped, Bootstrapping(p),
           NEW at \in Checkpoints, NEW result, Ends(p, at, result),
           spent' \in Nat, spent' <= at.requests
    PROVE  Budgeted'
  <1>1. log'.requests = at.requests /\ at.requests \in 0..MaxRequests
    BY CheckpointParts, NewReason DEF Ends
  <1>2. spent' <= MaxRequests
    BY <1>1, BootstrapNumbers
  <1> QED
    BY <1>1, <1>2, NoneTyped, BudgetedStep DEF Ends

\* So does one that concludes, or it goes on owing nothing.
LEMMA BudgetedConcludes ==
    ASSUME TypeOK, Budgeted, NEW p \in Processes, spent # Overlapped, Bootstrapping(p),
           NEW at \in Checkpoints, at.requests = run[p].at.requests,
           Concludes(p, at), UNCHANGED spent
    PROVE  Budgeted'
  <1>1. CASE \E result \in Reasons : Ends(p, at, result)
    BY <1>1, BudgetParts, BudgetedEnds
  <1>2. CASE /\ Puts(p, [run[p] EXCEPT !.pc = "loop", !.at = at, !.short = FALSE, !.asked = {}])
             /\ UNCHANGED <<log, scored>>
    <2> DEFINE r == [run[p] EXCEPT !.pc = "loop", !.at = at, !.short = FALSE, !.asked = {}]
    <2>1. r.at = at /\ r.pc = "loop"
      BY RunParts DEF Runs
    <2> HIDE DEF r
    <2>2. Owed(p)' = 0
      BY <1>2, <2>1 DEF Owed, Puts, r
    <2>3. Puts(p, r) /\ UNCHANGED log
      BY <1>2 DEF r
    <2>4. /\ spent \in Nat /\ spent <= MaxRequests /\ spent <= run[p].at.requests
          /\ log.reason = "mature" \/ log.requests = run[p].at.requests
          /\ log.reason = "mature" \/ spent <= log.requests
      BY BudgetParts DEF Budgeted
    <2> QED
      BY <2>1, <2>2, <2>3, <2>4, BudgetedStep
  <1> QED
    BY <1>1, <1>2 DEF Concludes

\* The steps of a run that asks for pages.
LEMMA PagesBudgeted ==
    ASSUME TypeOK, Budgeted, NEW p \in Processes, spent # Overlapped,
           Roll(p) \/ Reserve(p) \/ Fetch(p) \/ Progress(p)
    PROVE  Budgeted'
  <1> DEFINE at == run[p].at
  <1>1. Bootstrapping(p)
    BY DEF Roll, Reserve, Fetch, Progress, Goes, Bootstrapping
  <1>2. at \in Checkpoints /\ run[p] \in Runs /\ at.requests \in 0..MaxRequests
    BY RunParts, CheckpointParts
  <1>3. /\ spent \in Nat /\ spent + Owed(p) <= at.requests /\ spent <= at.requests
        /\ spent <= MaxRequests /\ (log.reason = "mature" \/ log.requests = at.requests)
        /\ Owed(p) \in Nat /\ (log.reason = "mature" \/ spent <= log.requests)
    BY <1>1, BudgetParts DEF Budgeted
  <1>4. CASE Roll(p)
    <2>1. UNCHANGED spent
      BY <1>4 DEF Roll
    <2>2. ASSUME NextWindow(at) \in Checkpoints, log' = NextWindow(at),
                 Puts(p, [run[p] EXCEPT !.pc = "loop", !.at = NextWindow(at)])
          PROVE  Budgeted'
      <3> DEFINE next == NextWindow(at)
                 r == [run[p] EXCEPT !.pc = "loop", !.at = next]
      <3>1. next.requests = at.requests
        <4> HIDE DEF at
        <4> QED
          BY <1>2, NextWindowParts
      <3>2. r.at = next /\ r.pc = "loop"
        <4> HIDE DEF next
        <4> QED
          BY <1>2 DEF Runs
      <3>3. Puts(p, r) /\ log' = next
        BY <2>2
      <3> HIDE DEF next, r, at
      <3>4. Owed(p)' = 0
        BY <3>2, <3>3 DEF Owed, Puts
      <3> QED
        BY <1>1, <1>3, <2>1, <3>1, <3>2, <3>3, <3>4, BudgetedStep
    <2> QED
      BY <1>1, <1>2, <1>3, <1>4, <2>1, <2>2, RollOutcome, BudgetedEnds
  <1>5. CASE Reserve(p)
    <2>1. PICK paid \in Checkpoints :
            /\ log' = paid /\ paid.requests = at.requests + 1
            /\ Puts(p, [run[p] EXCEPT !.pc = "fetch", !.at = paid, !.pages = run[p].pages + 1])
      BY <1>5, ReserveOf
    <2> DEFINE pages == run[p].pages + 1
               r == [run[p] EXCEPT !.pc = "fetch", !.at = paid, !.pages = pages]
    <2>2. r.at = paid /\ r.pc = "fetch"
      <3> HIDE DEF pages
      <3> QED
        BY <1>2 DEF Runs
    <2>3. Puts(p, r) /\ UNCHANGED spent
      BY <1>5, <2>1 DEF Reserve
    <2> HIDE DEF r, at
    <2>4. Owed(p)' = 1
      BY <2>2, <2>3 DEF Owed, Puts
    <2>5. spent' <= MaxRequests /\ spent' <= log'.requests /\ spent' + Owed(p)' <= r.at.requests
      BY <1>2, <1>3, <2>1, <2>2, <2>3, <2>4, BootstrapNumbers
    <2> QED
      BY <1>1, <2>1, <2>2, <2>3, <2>5, BudgetedStep
  <1>6. CASE Fetch(p)
    <2>1. PICK page, next, short :
            /\ page = Page(at.end, at.offset, Requested(at))
            /\ next = Read(at, Cardinality(page), Oldest(page))
            /\ short = (Cardinality(page) < Requested(at))
            /\ \/ \E result \in Reasons : /\ Ends(p, at, result) /\ UNCHANGED stored
                                          /\ result = "exhausted" => page = {}
               \/ /\ page # {} /\ next \in Checkpoints
                  /\ stored' = stored \union page /\ UNCHANGED log
                  /\ Puts(p, [run[p] EXCEPT !.pc = "progress", !.short = short, !.at = next])
      BY <1>6, FetchOf, ZenonT(60)
    <2> DEFINE r == [run[p] EXCEPT !.pc = "progress", !.short = short, !.at = next]
    <2>2. \/ \E result \in Reasons : Ends(p, at, result)
          \/ UNCHANGED log /\ Puts(p, r)
      BY <2>1, Zenon
    <2>3. next.requests = at.requests
      BY <1>2, <2>1 DEF Read, Checkpoints
    <2>4. r.at = next /\ r.pc = "progress"
      BY <1>2 DEF Runs
    <2>5. spent' = spent + 1 /\ spent' \in Nat /\ spent' <= MaxRequests /\ spent' <= at.requests
      <3>1. Owed(p) = 1 /\ Spends(1)
        BY <1>6 DEF Fetch, Owed, Goes
      <3>2. 1 \in Nat /\ spent + 1 <= at.requests
        BY <1>3, <3>1
      <3>3. spent' = spent + 1 /\ spent' \in Nat /\ spent' <= MaxRequests
        <4> HIDE DEF at
        <4> QED
          BY <1>2, <3>1, <3>2, SpendsExactly
      <3> QED
        BY <3>2, <3>3
    <2> HIDE DEF r, at
    <2>6. ASSUME UNCHANGED log, Puts(p, r)
          PROVE  Budgeted'
      <3>1. Owed(p)' = 0
        BY <2>4, <2>6 DEF Owed, Puts
      <3>2. log'.reason = "mature" \/ (log'.requests = at.requests /\ spent' <= log'.requests)
        BY <1>3, <2>5, <2>6
      <3>3. spent' + Owed(p)' <= r.at.requests
        BY <2>3, <2>4, <2>5, <3>1
      <3>4. log'.reason = "mature" \/ log'.requests = r.at.requests
        BY <2>3, <2>4, <3>2
      <3> QED
        BY <1>1, <2>5, <2>6, <3>2, <3>3, <3>4, BudgetedStep
    <2>7. ASSUME NEW result, Ends(p, at, result)
          PROVE  Budgeted'
      BY <1>1, <1>2, <2>5, <2>7, BudgetedEnds
    <2> QED
      BY <2>2, <2>6, <2>7
  <1>7. CASE Progress(p)
    <2> DEFINE r == [run[p] EXCEPT !.pc = "reconcile", !.at = at]
    <2>1. log' = at /\ Puts(p, r) /\ UNCHANGED spent
      BY <1>2, <1>7, PersistPuts DEF Progress
    <2>2. r.at = at /\ r.pc = "reconcile"
      <3> HIDE DEF at
      <3> QED
        BY <1>2 DEF Runs
    <2> HIDE DEF r, at
    <2>3. Owed(p)' = 0
      BY <2>1, <2>2 DEF Owed, Puts
    <2> QED
      BY <1>1, <1>3, <2>1, <2>2, <2>3, BudgetedStep
  <1> QED
    BY <1>4, <1>5, <1>6, <1>7

\* The steps of a run that asks for settlements, and its ends.
LEMMA ChecksBudgeted ==
    ASSUME TypeOK, Budgeted, NEW p \in Processes, spent # Overlapped,
           \/ NoMorePages(p) \/ Reconcile(p) \/ Answered(p)
           \/ \E m \in Markets : RunChecks(p, m)
    PROVE  Budgeted'
  <1> DEFINE at == run[p].at
  <1>1. Bootstrapping(p)
    BY DEF NoMorePages, Reconcile, Answered, RunChecks, Goes, Bootstrapping
  <1>2. at \in Checkpoints /\ run[p] \in Runs /\ at.requests \in 0..MaxRequests
    BY RunParts, CheckpointParts
  <1>3. /\ spent \in Nat /\ spent + Owed(p) <= at.requests /\ spent <= at.requests
        /\ spent <= MaxRequests /\ (log.reason = "mature" \/ log.requests = at.requests)
        /\ Owed(p) \in Nat /\ (log.reason = "mature" \/ spent <= log.requests)
    BY <1>1, BudgetParts DEF Budgeted
  <1>4. CASE NoMorePages(p)
    BY <1>1, <1>2, <1>4, StopConcludes, BudgetedConcludes DEF NoMorePages
  <1>5. CASE Reconcile(p)
    <2>1. UNCHANGED spent
      BY <1>5 DEF Reconcile
    <2>2. ASSUME NEW asked \in SUBSET Markets, Cardinality(asked) \in Nat,
                 Cardinality(asked) <= (MaxRequests - at.requests) \div 2,
                 log' = PaidFor(at, Cardinality(asked)),
                 Puts(p, [run[p] EXCEPT !.pc = "settle", !.at = PaidFor(at, Cardinality(asked)),
                                        !.asked = asked]),
                 WalletRefresh(p, asked)
          PROVE  Budgeted'
      <3> DEFINE n == Cardinality(asked)
                 left == Cardinality(refresh'[p].todo)
                 paid == PaidFor(at, n)
                 r == [run[p] EXCEPT !.pc = "settle", !.at = paid, !.asked = asked]
      <3>1. paid.requests = at.requests + 2 * n /\ paid \in Checkpoints
        <4> HIDE DEF at
        <4> QED
          BY <1>2, <2>2, PaidForParts
      <3>2. r.at = paid /\ r.pc = "settle"
        <4> HIDE DEF paid
        <4> QED
          BY <1>2 DEF Runs
      <3>3. left \in Nat /\ left <= n
        <4>1. refresh'[p].todo \in SUBSET Markets /\ left <= n
          BY <2>2, WalletTyped DEF TypeOK
        <4> QED
          BY <4>1, RefreshNumbers, FS_Subset, FS_CardinalityType
      <3>4. Puts(p, r) /\ log' = paid /\ n \in Nat
        BY <2>2
      <3> HIDE DEF r, paid, at, n
      <3>5. Owed(p)' = 2 * left
        BY <3>2, <3>4 DEF Owed, Puts
      <3> HIDE DEF left
      <3>6. /\ spent' <= MaxRequests /\ spent' <= log'.requests
            /\ spent' + Owed(p)' <= r.at.requests
        BY <1>2, <1>3, <2>1, <3>1, <3>2, <3>3, <3>4, <3>5, BootstrapNumbers
      <3> QED
        BY <1>1, <3>1, <3>2, <3>4, <3>6, BudgetedStep
    <2> QED
      BY <1>1, <1>2, <1>5, <2>1, <2>2, ReconcileOutcome, BudgetedConcludes
  <1>6. CASE Answered(p)
    BY <1>1, <1>6, AnsweredOutcome, BudgetedConcludes DEF Answered
  <1>7. ASSUME NEW m \in Markets, RunChecks(p, m)
        PROVE  Budgeted'
    <2>1. run[p].pc = "settle" /\ Spends(2) /\ UNCHANGED log
      BY <1>7 DEF RunChecks, Goes
    <2>2. m \in refresh[p].todo /\ GoneOn(p, m)
      BY <1>7, CheckTyped DEF RunChecks, TypeOK
    <2> DEFINE n == Cardinality(refresh[p].todo)
               left == Cardinality(refresh'[p].todo)
    <2>3. n \in Nat /\ left \in Nat /\ left + 1 <= n
      BY <2>2, CheckOwes DEF TypeOK
    <2>4. Owed(p) = 2 * n
      BY <2>1 DEF Owed
    <2>5. spent' = spent + 2 /\ spent' \in Nat /\ spent' <= MaxRequests
      <3>1. 2 \in Nat /\ spent + 2 <= at.requests
        <4> HIDE DEF n, left, at
        <4> QED
          BY <1>2, <1>3, <2>3, <2>4, BootstrapNumbers
      <3> HIDE DEF at
      <3> QED
        BY <1>2, <2>1, <3>1, SpendsExactly
    <2>6. PICK r \in Runs : Puts(p, r) /\ r.pc = "settle" /\ r.at = at
      <3>1. CASE UNCHANGED run
        BY <1>2, <2>1, <3>1, RunParts DEF Puts
      <3>2. CASE run' = [run EXCEPT ![p] = [run[p] EXCEPT !.failed = TRUE]]
        <4> DEFINE x == [run[p] EXCEPT !.failed = TRUE]
        <4>1. x \in Runs /\ x.pc = "settle" /\ x.at = at
          BY <1>2, <2>1 DEF Runs
        <4>2. Puts(p, x)
          BY <3>2, FailedPuts
        <4> HIDE DEF x
        <4> QED
          BY <4>1, <4>2
      <3> QED
        BY <1>7, <3>1, <3>2 DEF RunChecks
    <2>7. Owed(p)' = 2 * left
      BY <2>6 DEF Owed, Puts
    <2> HIDE DEF at, n, left
    <2>8. spent' + Owed(p)' <= at.requests /\ spent' <= at.requests
      BY <1>2, <1>3, <2>3, <2>4, <2>5, <2>7, BootstrapNumbers
    <2>9. log'.reason = "mature" \/ (log'.requests = at.requests /\ spent' <= log'.requests)
      BY <1>3, <2>1, <2>8
    <2> QED
      BY <1>1, <2>5, <2>6, <2>8, <2>9, BudgetedStep
  <1> QED
    BY <1>4, <1>5, <1>6, <1>7

\* An error that is raised ends the run, its requests spent.
LEMMA RaisesBudgeted ==
    ASSUME TypeOK, Budgeted, NEW p \in Processes, NEW m \in Markets, Raises(p, m)
    PROVE  Budgeted'
  <1>1. CASE spent = Overlapped
    BY <1>1, OverlappedStays DEF Raises
  <1>2. CASE spent # Overlapped /\ Bootstrapping(p)
    <2> DEFINE at == run[p].at
    <2>1. /\ spent \in Nat /\ spent + Owed(p) <= at.requests /\ spent <= MaxRequests
          /\ (log.reason = "mature" \/ log.requests = at.requests)
          /\ (log.reason = "mature" \/ spent <= log.requests)
          /\ at.requests \in 0..MaxRequests
      BY <1>2, BudgetParts DEF Budgeted
    <2>2. UNCHANGED log /\ Puts(p, NoRun)
      BY NoRunPuts DEF Raises
    <2>3. CASE run[p].pc = "settle"
      <3>1. m \in refresh[p].todo /\ GoneOn(p, m)
        BY CheckTyped DEF Raises, TypeOK
      <3> DEFINE n == Cardinality(refresh[p].todo)
      <3>2. n \in Nat /\ Cardinality(refresh'[p].todo) \in Nat
            /\ Cardinality(refresh'[p].todo) + 1 <= n
        BY <3>1, CheckOwes DEF TypeOK
      <3>3. n \in Nat /\ n >= 1
        BY <3>2
      <3>4. Owed(p) = 2 * n
        BY <2>3 DEF Owed
      <3> HIDE DEF n, at
      <3>5. 2 \in Nat /\ spent + 2 <= at.requests
        BY <2>1, <3>3, <3>4, BootstrapNumbers
      <3>6. spent' = spent + 2 /\ spent' \in Nat /\ spent' <= MaxRequests
        BY <1>2, <2>1, <2>3, <3>5, SpendsExactly DEF Raises
      <3>7. log'.reason = "mature" \/ spent' <= log'.requests
        BY <2>1, <2>2, <3>5, <3>6
      <3> QED
        BY <1>2, <2>2, <3>6, <3>7, NoneTyped, BudgetedStep
    <2>4. CASE run[p].pc # "settle"
      BY <1>2, <2>1, <2>2, <2>4, NoneTyped, BudgetedStep DEF Raises
    <2> QED
      BY <2>3, <2>4
  <1>3. CASE spent # Overlapped /\ ~Bootstrapping(p)
    <2>1. UNCHANGED <<log, spent>>
      BY <1>3 DEF Raises, Bootstrapping
    <2>2. GoneOn(p, m) /\ Puts(p, NoRun)
      BY CheckTyped, NoRunPuts DEF Raises, TypeOK
    <2>3. ~Bootstrapping(p)'
      BY <2>2, NoneTyped DEF Puts, Bootstrapping
    <2>4. \A q \in Processes \ {p} : run'[q] = run[q] /\ Owed(q)' = Owed(q)
      BY <2>2 DEF GoneOn, Puts, Owed
    <2> QED
      BY <2>1, <2>3, <2>4 DEF Budgeted, Single, Bootstrapping
  <1> QED
    BY <1>1, <1>2, <1>3

\* A bootstrap that begins alone has the log's count of requests; one that begins beside
\* another ends the count.
LEMMA StartBudgeted ==
    ASSUME TypeOK, Started, Budgeted, NEW p \in Processes, StartScoring(p)
    PROVE  Budgeted'
  <1>1. \A q \in Processes : refresh'[q] = refresh[q]
    BY DEF StartScoring, settlementVars
  <1>2. CASE /\ UNCHANGED <<run, spent>>
             /\ \/ UNCHANGED log
                \/ log' = [NoCheckpoint EXCEPT !.reason = "mature", !.end = Stamp[listing]]
    <2>1. UNCHANGED log \/ log'.reason = "mature"
      BY <1>2 DEF NoCheckpoint
    <2>2. \A q \in Processes : Owed(q)' = Owed(q) /\ Bootstrapping(q)' = Bootstrapping(q)
      BY <1>1, <1>2 DEF Owed, Bootstrapping
    <2> QED
      BY <1>2, <2>1, <2>2 DEF Budgeted, Single
  <1>3. CASE /\ log.reason # "mature" /\ UNCHANGED log
             /\ Puts(p, [NoRun EXCEPT !.pc = "loop", !.at = Resumed])
             /\ spent' = IF Overlaps(p) THEN Overlapped ELSE spent
    <2>1. SUFFICES ASSUME spent' # Overlapped
                   PROVE  Budgeted'
      BY DEF Budgeted
    <2>2. spent' = spent /\ spent # Overlapped /\ ~Overlaps(p)
      BY <1>3, <2>1
    <2> DEFINE at == Resumed
               r == [NoRun EXCEPT !.pc = "loop", !.at = at]
    <2>3. at.requests = log.requests /\ at \in Checkpoints
      BY ResumedParts, NoneTyped DEF Started
    <2>4. r.at = at /\ r.pc = "loop"
      <3> HIDE DEF at
      <3> QED
        BY DEF NoRun
    <2>5. Puts(p, r)
      BY <1>3
    <2> HIDE DEF r, at
    <2>6. spent \in Nat /\ spent <= MaxRequests /\ spent <= log.requests
      BY <1>3, <2>2, BootstrapNumbers DEF Budgeted, TypeOK, Overlapped
    <2>7. \A q \in Processes \ {p} : ~Bootstrapping(q)'
      BY <2>2, <2>5 DEF Overlaps, Bootstrapping, Puts
    <2>8. Owed(p)' = 0 /\ run'[p].at.requests = log.requests
      BY <2>3, <2>4, <2>5 DEF Owed, Puts
    <2> QED
      BY <1>3, <2>2, <2>6, <2>7, <2>8 DEF Budgeted, Single
  <1> QED
    BY <1>2, <1>3, StartOutcome

\* The cap on the logical requests of a wallet is never passed while no two runs overlap,
\* over pages, failures, crashes and resumed runs.
THEOREM BudgetIsKept == Spec => []BudgetHolds
  <1>1. Init => Budgeted
    BY BootstrapNumbers, NoneTyped
       DEF Init, Budgeted, Single, Bootstrapping, Overlapped, NoCheckpoint
  <1>2. ASSUME TypeOK, Started, Budgeted, [Next]_vars
        PROVE  Budgeted'
    <2>1. ASSUME NEW p \in Processes, BootstrapStep(p)
          PROVE  Budgeted'
      <3>1. CASE spent = Overlapped
        <4>1. CASE UNCHANGED spent
          BY <3>1, <4>1, OverlappedStays
        <4>2. CASE Fetch(p)
          BY <3>1, <4>2, OverlappedStays DEF Fetch
        <4>3. ASSUME NEW m \in Markets, RunChecks(p, m) \/ Raises(p, m)
              PROVE  Budgeted'
          <5>1. Spends(2) \/ UNCHANGED spent
            BY <4>3 DEF RunChecks, Raises
          <5> QED
            BY <3>1, <5>1, OverlappedStays
        <4> QED
          BY <2>1, <4>1, <4>2, <4>3
             DEF BootstrapStep, Roll, Reserve, NoMorePages, Progress, Reconcile, Answered
      <3>2. CASE spent # Overlapped
        BY <1>2, <2>1, <3>2, PagesBudgeted, ChecksBudgeted, RaisesBudgeted DEF BootstrapStep
      <3> QED
        BY <3>1, <3>2, SMTT(30)
    <2>2. CASE UNCHANGED <<log, run, spent>> /\ \A p \in Processes :
                  Bootstrapping(p) => refresh'[p].todo = refresh[p].todo
      <3>1. \A p \in Processes : /\ Bootstrapping(p)' = Bootstrapping(p)
                                 /\ Bootstrapping(p) => Owed(p)' = Owed(p)
        BY <2>2 DEF Owed, Bootstrapping
      <3> QED
        BY <1>2, <2>2, <3>1 DEF Budgeted, Single
    <2>3. CASE SourceTrade \/ UNCHANGED vars
      BY <2>2, <2>3 DEF SourceTrade, vars, settlementVars
    <2>4. ASSUME NEW m \in Markets, MarketResolves(m)
          PROVE  Budgeted'
      BY <2>2, <2>4 DEF MarketResolves, Resolve
    <2>5. CASE Cycle
      <3> DEFINE known == {MarketOf[t] : t \in stored'}
      <3>1. ~Bootstrapping(Bot) /\ PollMetadata(known # Known) /\ CycleRefresh(known)
            /\ UNCHANGED <<log, run, spent, listing>>
        BY <2>5 DEF Cycle, Idle, Bootstrapping
      <3>2. known \in SUBSET Markets
        <4>1. Stamp[listing] \in Nat /\ 0 \in Nat /\ BatchSize \in Nat
          BY <1>2, UntilNewest, BootstrapNumbers DEF TypeOK
        <4>2. stored' = stored \union Page(Stamp[listing], 0, BatchSize)
          BY <2>5 DEF Cycle
        <4>3. stored' \subseteq 1..listing
          BY <1>2, <4>1, <4>2, PageStored
        <4>4. stored' \subseteq 1..MaxTrades
          BY <1>2, <4>3, BootstrapNumbers DEF TypeOK
        <4> QED
          BY <4>4, StampOrder
      <3>3. (known # Known) \in BOOLEAN
        OBVIOUS
      <3> HIDE DEF known
      <3>4. \A p \in Processes \ {Bot} : refresh'[p].todo = refresh[p].todo
        BY <1>2, <3>1, <3>2, <3>3, CycleTyped
      <3> QED
        BY <2>2, <3>1, <3>4
    <2>6. ASSUME NEW p \in Processes, StartScoring(p)
          PROVE  Budgeted'
      BY <1>2, <2>6, StartBudgeted
    <2>7. ASSUME NEW m \in Markets, CycleChecks(m)
          PROVE  Budgeted'
      <3>1. GoneOn(Bot, m) /\ ~Bootstrapping(Bot) /\ UNCHANGED <<log, run, spent>>
        BY <1>2, <2>7, RefreshNumbers, CheckTyped DEF CycleChecks, Bootstrapping, TypeOK
      <3> QED
        BY <2>2, <3>1 DEF GoneOn
    <2>8. ASSUME NEW p \in Processes, Crash(p)
          PROVE  Budgeted'
      <3>1. Puts(p, NoRun) /\ UNCHANGED <<log, spent>>
        BY <1>2, <2>8, NoRunPuts DEF Crash
      <3>2. \A q \in Processes \ {p} : refresh'[q] = refresh[q]
        BY <1>2, <2>8, CrashTyped DEF TypeOK
      <3>3. ~Bootstrapping(p)'
        BY <3>1, NoneTyped DEF Puts, Bootstrapping
      <3>4. \A q \in Processes \ {p} : run'[q] = run[q] /\ Owed(q)' = Owed(q)
        BY <3>1, <3>2 DEF Puts, Owed
      <3> QED
        BY <1>2, <3>1, <3>3, <3>4 DEF Budgeted, Single, Bootstrapping
    <2> QED
      BY <1>2, <2>1, <2>3, <2>4, <2>5, <2>6, <2>7, <2>8 DEF Next, Proceeds
  <1>3. TypeOK /\ Budgeted => BudgetHolds
    BY BootstrapNumbers DEF Budgeted, BudgetHolds, Overlapped
  <1> QED
    BY <1>1, <1>2, <1>3, TypeCorrect, AlwaysStarted, PTL DEF Spec

-----------------------------------------------------------------------------
(* What a checkpoint leaves out. *)

\* The trades that existed when the first backfill began and are not stored.
Missing == (1..first) \ stored

\* They lie behind the cursor, and are no newer than the oldest second seen.
Covers(at) ==
    \A t \in Missing : /\ t <= Cardinality(Until(at.end)) - at.offset
                       /\ at.oldest # 0 => Stamp[t] <= at.oldest

Logged(at) ==
    /\ at.reason # "none" => Covers(at)
    /\ at.reason = "exhausted" => Missing = {}

\* A page that was short was the last one.
Running(r) ==
    r.pc # "idle" =>
        /\ Covers(r.at)
        /\ r.pc = "fetch" => r.at.rows < MaxRows /\ r.at.offset < OffsetLimit
        /\ r.short => Missing = {}

\* Before the first backfill there is nothing to be found in a checkpoint.
Covered ==
    /\ first <= listing
    /\ first = 0 => log.reason \in {"none", "mature"} /\ \A p \in Processes : ~Bootstrapping(p)
    /\ Logged(log) /\ \A p \in Processes : Running(run[p])

\* Only the cursor and the oldest second matter.
LEMMA SameCover ==
    ASSUME NEW a, NEW b, b.end = a.end, b.offset = a.offset, b.oldest = a.oldest
    PROVE  (Covers(a) => Covers(b)) /\ (Covers(a)' => Covers(b)')
  BY DEF Covers

\* More trades, in the source or stored, leave no checkpoint behind.
LEMMA CoversKept ==
    ASSUME TypeOK, NEW at \in Checkpoints, Covers(at),
           listing' \in listing..MaxTrades, stored \subseteq stored', UNCHANGED first
    PROVE  Covers(at)'
  <1>1. listing \in 1..MaxTrades /\ listing' \in 1..MaxTrades /\ at.end \in Nat /\ at.offset \in Nat
    BY CheckpointParts, BootstrapNumbers DEF TypeOK
  <1> DEFINE n == Cardinality(Until(at.end))
             after == Cardinality(Until(at.end)')
  <1>2. IsFiniteSet(Until(at.end)') /\ Until(at.end) \in SUBSET (Until(at.end)')
    <2>1. Until(at.end)' \in SUBSET (1..listing')
      BY DEF Until
    <2>2. IsFiniteSet(1..listing')
      BY <1>1, BootstrapNumbers, FS_Interval
    <2>3. Until(at.end) \in SUBSET (Until(at.end)')
      BY <1>1, BootstrapNumbers DEF Until
    <2> QED
      BY <2>1, <2>2, <2>3, FS_Subset
  <1>3. n <= after /\ n \in Nat /\ after \in Nat
    <2>1. n <= after /\ IsFiniteSet(Until(at.end))
      BY <1>2, FS_Subset
    <2>2. n \in Nat /\ after \in Nat
      BY <1>2, <2>1, FS_CardinalityType
    <2> QED
      BY <2>1, <2>2
  <1>4. Missing' \in SUBSET Missing /\ Missing \in SUBSET Nat
    BY BootstrapNumbers DEF Missing, TypeOK
  <1>5. ASSUME NEW t \in Missing'
        PROVE  t <= after - at.offset /\ (at.oldest # 0 => Stamp[t] <= at.oldest)
    <2>1. t \in Missing /\ t \in Nat
      BY <1>4
    <2>2. t <= n - at.offset /\ (at.oldest # 0 => Stamp[t] <= at.oldest)
      BY <2>1 DEF Covers
    <2> HIDE DEF n, after
    <2> QED
      BY <1>1, <1>3, <2>1, <2>2
  <1> QED
    BY <1>5 DEF Covers

\* What was complete stays so.
LEMMA NothingMissingKept ==
    ASSUME Missing = {}, stored \subseteq stored', UNCHANGED first
    PROVE  Missing' = {}
  BY DEF Missing

\* A run or the log that stays.
LEMMA RunningKept ==
    ASSUME TypeOK, NEW r \in Runs, Running(r),
           listing' \in listing..MaxTrades, stored \subseteq stored', UNCHANGED first
    PROVE  Running(r)'
  <1>1. r.at \in Checkpoints
    BY DEF Runs
  <1> QED
    BY <1>1, CoversKept, NothingMissingKept DEF Running

\* And the log.
LEMMA LoggedKept ==
    ASSUME TypeOK, NEW at \in Checkpoints, Logged(at),
           listing' \in listing..MaxTrades, stored \subseteq stored', UNCHANGED first
    PROVE  Logged(at)'
  BY CoversKept, NothingMissingKept DEF Logged

\* What holds of the value that run or log takes.
LEMMA RunningOf ==
    ASSUME NEW q, NEW x, x = run'[q], Running(x)'
    PROVE  Running(run[q])'
  BY DEF Running, Covers, Until, Missing

\* The same of the log.
LEMMA LoggedOf ==
    ASSUME NEW x, x = log', Logged(x)'
    PROVE  Logged(log)'
  BY DEF Logged, Covers, Until, Missing

\* A step of one run.
LEMMA CoveredStep ==
    ASSUME TypeOK, Covered, NEW p \in Processes, NEW r, Puts(p, r), Running(r)',
           UNCHANGED <<listing, first>>, stored \subseteq stored',
           UNCHANGED log \/ \E at : log' = at /\ at.reason # "none" /\ Logged(at)',
           Bootstrapping(p) \/ (r.pc = "idle" /\ UNCHANGED log)
    PROVE  Covered'
  <1>1. listing' \in listing..MaxTrades /\ UNCHANGED first
    BY BootstrapNumbers DEF TypeOK
  <1>2. ASSUME NEW q \in Processes
        PROVE  Running(run[q])'
    <2>1. CASE q # p
      <3>1. PICK x \in Runs : x = run[q] /\ Running(x)
        BY RunParts DEF Covered
      <3>2. x = run'[q] /\ Running(x)'
        BY <1>1, <2>1, <3>1, RunningKept DEF Puts
      <3> QED
        BY <3>2, RunningOf
    <2>2. CASE q = p
      <3>1. r = run'[q]
        BY <2>2 DEF Puts
      <3> QED
        BY <3>1, RunningOf
    <2> QED
      BY <2>1, <2>2
  <1>3. Logged(log)'
    <2>1. CASE UNCHANGED log
      <3>1. PICK x \in Checkpoints : x = log /\ Logged(x)
        BY DEF Covered, TypeOK
      <3>2. x = log' /\ Logged(x)'
        BY <1>1, <2>1, <3>1, LoggedKept
      <3> QED
        BY <3>2, LoggedOf
    <2>2. CASE ~UNCHANGED log
      BY <2>2, LoggedOf
    <2> QED
      BY <2>1, <2>2
  <1>4. first' = 0 => log'.reason \in {"none", "mature"} /\ \A q \in Processes : ~Bootstrapping(q)'
    <2>1. first = 0 => /\ ~Bootstrapping(p) /\ log.reason \in {"none", "mature"}
                       /\ \A q \in Processes : ~Bootstrapping(q)
      BY DEF Covered
    <2> QED
      BY <1>1, <2>1 DEF Puts, Bootstrapping
  <1>5. first' <= listing'
    BY DEF Covered
  <1> QED
    BY <1>2, <1>3, <1>4, <1>5 DEF Covered

\* A missing trade is not in the page, so it is behind it, and the page is full.
LEMMA BehindPage ==
    ASSUME TypeOK, first <= listing, NEW at \in Checkpoints, Covers(at),
           NEW t \in Missing, NEW limit \in Nat, t \notin Page(at.end, at.offset, limit)
    PROVE  LET n == Cardinality(Until(at.end))
               page == Page(at.end, at.offset, limit)
           IN /\ t <= n - at.offset - limit /\ Cardinality(page) = limit
              /\ \A u \in page : t < u
              /\ limit # 0 => page # {}
  <1> DEFINE n == Cardinality(Until(at.end))
             page == Page(at.end, at.offset, limit)
             size == Cardinality(page)
  <1>1. /\ listing \in 1..MaxTrades /\ MaxTrades \in Nat /\ first \in Nat
        /\ at.end \in Nat /\ at.offset \in Nat
    BY CheckpointParts, BootstrapNumbers DEF TypeOK
  <1>2. n \in 0..listing
    BY <1>1, UntilIsPrefix
  <1>3. /\ page \in SUBSET (1..listing)
        /\ \A u \in Int : u \in page <=> 1 <= u /\ n - at.offset - limit < u /\ u <= n - at.offset
        /\ n - at.offset - limit >= 0 => size = limit
    BY <1>1, PageIsInterval
  <1>4. t \in Nat /\ 1 <= t /\ t <= n - at.offset
    BY <1>1 DEF Missing, Covers
  <1> HIDE DEF n, page, size
  <1>5. t <= n - at.offset - limit
    BY <1>1, <1>2, <1>3, <1>4 DEF page
  <1>6. size = limit
    BY <1>1, <1>2, <1>3, <1>4, <1>5
  <1>7. \A u \in page : t < u
    BY <1>1, <1>2, <1>3, <1>4, <1>5
  <1>8. ASSUME limit # 0
        PROVE  page # {}
    <2>1. n - at.offset \in Int /\ n - at.offset \in page
      BY <1>1, <1>2, <1>3, <1>4, <1>5, <1>8
    <2> QED
      BY <2>1
  <1> QED
    BY <1>5, <1>6, <1>7, <1>8 DEF n, page, size

\* A page leaves behind what it does not store, unless it was short: then there is nothing.
LEMMA PageCovers ==
    ASSUME TypeOK, first <= listing, NEW at \in Checkpoints, Covers(at),
           UNCHANGED <<listing, first>>, NEW page, NEW next,
           page = Page(at.end, at.offset, Requested(at)), page # {},
           stored' = stored \union page, next = Read(at, Cardinality(page), Oldest(page))
    PROVE  /\ Covers(next)'
           /\ Cardinality(page) < Requested(at) => Missing' = {}
  <1> DEFINE n == Cardinality(Until(at.end))
             limit == Requested(at)
             size == Cardinality(page)
             oldest == Oldest(page)
  <1>1. /\ listing \in 1..MaxTrades /\ MaxTrades \in Nat /\ first \in Nat
        /\ at.end \in Nat /\ at.offset \in Nat /\ limit \in Nat
        /\ page = Page(at.end, at.offset, limit)
    BY CheckpointParts, RequestedFits, BootstrapNumbers DEF TypeOK
  <1>2. n \in 0..listing
    BY <1>1, UntilIsPrefix
  <1>3. page \in SUBSET (1..listing) /\ size \in 0..limit /\ page # {}
    <2> HIDE DEF limit
    <2>1. page \in SUBSET (1..listing) /\ size \in 0..limit
      BY <1>1, PageIsInterval
    <2> QED
      BY <2>1 DEF limit
  <1>4. /\ oldest \in Nat /\ \E u \in page : oldest = Stamp[u]
    <2>1. page \in SUBSET (1..MaxTrades)
      BY <1>1, <1>3
    <2> QED
      BY <1>3, <2>1, OldestOfPage
  <1>5. next.offset = at.offset + size /\ next.end = at.end /\ next.oldest = oldest
    BY DEF Read, Checkpoints
  <1>6. Until(at.end)' = Until(at.end)
    BY DEF Until
  <1>7. ASSUME NEW t \in Missing'
        PROVE  /\ t <= n - at.offset - limit /\ size = limit /\ Stamp[t] <= oldest
    <2>1. t \in Missing /\ t \notin page
      BY <1>7 DEF Missing
    <2>2. t <= n - at.offset - limit /\ size = limit /\ \A u \in page : t < u
      <3> HIDE DEF limit
      <3> QED
        BY <1>1, <2>1, BehindPage
    <2>3. t \in 1..MaxTrades /\ \A u \in page : u \in 1..MaxTrades
      <3>1. t \in 1..first /\ first <= listing
        BY <2>1 DEF Missing
      <3> QED
        BY <1>1, <1>3, <3>1
    <2>4. Stamp[t] <= oldest
      <3>1. PICK u \in page : oldest = Stamp[u]
        BY <1>4
      <3>2. t < u /\ t \in 1..MaxTrades /\ u \in 1..MaxTrades
        BY <2>2, <2>3
      <3>3. t <= u
        BY <3>2, <1>1
      <3> HIDE DEF oldest
      <3> QED
        BY <3>1, <3>2, <3>3, StampOrder
    <2> QED
      BY <2>2, <2>4
  <1>8. ASSUME size < limit
        PROVE  Missing' = {}
    <2>1. \A t : t \notin Missing'
      <3> HIDE DEF size, limit
      <3> QED
        BY <1>1, <1>3, <1>7, <1>8
    <2> QED
      BY <2>1
  <1>9. Covers(next)'
    <2> HIDE DEF size, limit, oldest, n
    <2>1. \A t \in Missing' : t <= n - next.offset /\ (next.oldest # 0 => Stamp[t] <= next.oldest)
      BY <1>1, <1>2, <1>3, <1>5, <1>7
    <2>2. n = Cardinality(Until(next.end)')
      BY <1>5, <1>6 DEF n
    <2> QED
      BY <2>1, <2>2 DEF Covers
  <1> QED
    BY <1>8, <1>9

\* What a run in progress knows.
LEMMA CoveredParts ==
    ASSUME TypeOK, Covered, NEW p \in Processes, Bootstrapping(p)
    PROVE  /\ run[p] \in Runs /\ run[p].at \in Checkpoints /\ Covers(run[p].at)
           /\ run[p].short => Missing = {}
           /\ first # 0 /\ first <= listing
           /\ listing' = listing => listing' \in listing..MaxTrades
  BY RunParts, BootstrapNumbers DEF Covered, Running, Bootstrapping, TypeOK

\* A run that ends leaves a checkpoint that says what its own said.
LEMMA CoveredEnds ==
    ASSUME TypeOK, Covered, NEW p \in Processes, Bootstrapping(p), NEW at \in Checkpoints,
           Covers(at), UNCHANGED <<listing, first, stored>>,
           NEW result, Ends(p, at, result), result = "exhausted" => Missing = {}
    PROVE  Covered'
  <1>1. PICK x : x = [at EXCEPT !.reason = result]
    OBVIOUS
  <1>2. /\ log' = x /\ x.reason = result /\ x.reason # "none"
        /\ x.end = at.end /\ x.offset = at.offset /\ x.oldest = at.oldest
    BY <1>1, NewReason DEF Ends, Reasons
  <1>3. Covers(at)'
    BY CoversKept, CoveredParts
  <1>4. Logged(x)'
    BY <1>2, <1>3, SameCover, NothingMissingKept DEF Logged
  <1>5. Running(NoRun)'
    BY NoneTyped DEF Running
  <1>6. Puts(p, NoRun) /\ stored \subseteq stored' /\ UNCHANGED <<listing, first>>
    BY DEF Ends
  <1> QED
    BY <1>2, <1>4, <1>5, <1>6, CoveredStep

\* A run that goes on, or its first checkpoint at the same place.
LEMMA CoveredPuts ==
    ASSUME TypeOK, Covered, NEW p \in Processes, Bootstrapping(p), NEW at \in Checkpoints,
           Covers(at), UNCHANGED <<listing, first, stored>>, NEW r, Puts(p, r), r.at = at,
           r.pc # "idle" => /\ r.pc = "fetch" => at.rows < MaxRows /\ at.offset < OffsetLimit
                            /\ r.short => Missing = {},
           UNCHANGED log \/ (log' = at /\ at.reason = "in_progress")
    PROVE  Covered'
  <1>1. Covers(at)'
    BY CoversKept, CoveredParts
  <1>2. Running(r)'
    BY <1>1, NothingMissingKept DEF Running
  <1>3. Logged(at)' \/ at.reason # "in_progress"
    BY <1>1 DEF Logged
  <1> QED
    BY <1>2, <1>3, CoveredStep

\* A conclusion.
LEMMA CoveredConcludes ==
    ASSUME TypeOK, Covered, NEW p \in Processes, Bootstrapping(p), NEW at \in Checkpoints,
           at.end = run[p].at.end, at.offset = run[p].at.offset, at.oldest = run[p].at.oldest,
           UNCHANGED <<listing, first, stored>>, Concludes(p, at)
    PROVE  Covered'
  <1>1. Covers(at)
    <2>1. PICK x : x = run[p].at
      OBVIOUS
    <2> QED
      BY <2>1, CoveredParts, SameCover
  <1>2. CASE \E result \in Reasons : Ends(p, at, result) /\ (result = "exhausted" => run[p].short)
    BY <1>1, <1>2, CoveredParts, CoveredEnds
  <1>3. CASE /\ Puts(p, [run[p] EXCEPT !.pc = "loop", !.at = at, !.short = FALSE, !.asked = {}])
             /\ UNCHANGED <<log, scored>>
    <2> DEFINE r == [run[p] EXCEPT !.pc = "loop", !.at = at, !.short = FALSE, !.asked = {}]
    <2>1. r.at = at /\ r.pc = "loop" /\ r.short = FALSE /\ Puts(p, r)
      BY <1>3, RunParts DEF Runs
    <2> HIDE DEF r
    <2> QED
      BY <1>1, <1>3, <2>1, CoveredPuts
  <1> QED
    BY <1>2, <1>3 DEF Concludes

\* The next window begins where nothing is missing.
LEMMA NextWindowCovers ==
    ASSUME TypeOK, first <= listing, NEW at \in Checkpoints, Covers(at), at.oldest # 0
    PROVE  Covers(NextWindow(at))
  <1>1. /\ listing \in 1..MaxTrades /\ MaxTrades \in Nat /\ first \in Nat /\ at.oldest \in Nat
    BY CheckpointParts, BootstrapNumbers DEF TypeOK
  <1> DEFINE n == Cardinality(Until(at.oldest))
  <1>2. n \in 0..listing /\ Until(at.oldest) = 1..n
    BY <1>1, UntilIsPrefix
  <1>3. NextWindow(at).offset = 0 /\ NextWindow(at).end = at.oldest
        /\ NextWindow(at).oldest = at.oldest
    BY NextWindowParts
  <1>4. ASSUME NEW t \in Missing
        PROVE  t <= n - 0 /\ Stamp[t] <= at.oldest
    <2>1. t \in 1..listing /\ Stamp[t] <= at.oldest
      BY <1>1 DEF Missing, Covers
    <2>2. t \in Until(at.oldest)
      BY <2>1 DEF Until
    <2> HIDE DEF n
    <2> QED
      BY <1>2, <2>1, <2>2
  <1> QED
    BY <1>3, <1>4 DEF Covers

\* The steps of a run.
LEMMA RunCovered ==
    ASSUME TypeOK, Started, Covered, NEW p \in Processes, BootstrapStep(p)
    PROVE  Covered'
  <1>1. PICK at : at = run[p].at
    OBVIOUS
  <1>2. at \in Checkpoints /\ run[p] \in Runs
    BY <1>1, RunParts
  <1>3. Bootstrapping(p) =>
            /\ Covers(at) /\ at.reason = "in_progress" /\ first # 0 /\ first <= listing
            /\ run[p].short => Missing = {}
    BY <1>1, CoveredParts DEF Started
  <1>4. CASE Roll(p)
    <2>1. Bootstrapping(p) /\ UNCHANGED <<listing, first, stored>>
      BY <1>4 DEF Roll, Goes, Bootstrapping
    <2>2. ASSUME at.oldest \in Nat \ {0}, NextWindow(at) \in Checkpoints, log' = NextWindow(at),
                 Puts(p, [run[p] EXCEPT !.pc = "loop", !.at = NextWindow(at)])
          PROVE  Covered'
      <3>1. PICK next \in Checkpoints : next = NextWindow(at)
        BY <2>2
      <3> DEFINE r == [run[p] EXCEPT !.pc = "loop", !.at = next]
      <3>2. next.reason = "in_progress" /\ Covers(next)
        BY <1>2, <1>3, <2>1, <2>2, <3>1, NextWindowParts, NextWindowCovers
      <3>3. Puts(p, r) /\ r.at = next /\ r.pc = "loop" /\ r.short = run[p].short /\ log' = next
        BY <1>2, <2>2, <3>1 DEF Runs
      <3> HIDE DEF r
      <3> QED
        BY <1>3, <2>1, <3>2, <3>3, CoveredPuts
    <2>3. ASSUME NEW result \in Reasons \ {"exhausted"}, Ends(p, at, result)
          PROVE  Covered'
      BY <1>2, <1>3, <2>1, <2>3, CoveredEnds
    <2> QED
      BY <1>1, <1>4, <2>2, <2>3, RollOutcome
  <1>5. CASE Reserve(p)
    <2>1. Bootstrapping(p) /\ UNCHANGED <<listing, first, stored>>
      BY <1>5 DEF Reserve, Goes, Bootstrapping
    <2>2. PICK paid \in Checkpoints :
            /\ log' = paid /\ paid.rows < MaxRows /\ paid.offset < OffsetLimit
            /\ paid.offset = at.offset /\ paid.end = at.end /\ paid.oldest = at.oldest
            /\ paid.reason = at.reason
            /\ Puts(p, [run[p] EXCEPT !.pc = "fetch", !.at = paid, !.pages = run[p].pages + 1])
      BY <1>1, <1>5, ReserveOf
    <2> DEFINE pages == run[p].pages + 1
               r == [run[p] EXCEPT !.pc = "fetch", !.at = paid, !.pages = pages]
    <2>3. Puts(p, r)
      BY <2>2
    <2>4. r.at = paid /\ r.short = run[p].short
      <3> HIDE DEF pages
      <3> QED
        BY <1>2 DEF Runs
    <2>5. Covers(paid)
      BY <1>3, <2>1, <2>2, SameCover
    <2> HIDE DEF r
    <2> QED
      BY <1>3, <2>1, <2>2, <2>3, <2>4, <2>5, CoveredPuts
  <1>6. CASE NoMorePages(p)
    <2>1. Bootstrapping(p) /\ UNCHANGED <<listing, first, stored>>
      BY <1>6 DEF NoMorePages, Goes, Bootstrapping
    <2> QED
      BY <1>1, <1>2, <1>6, <2>1, StopConcludes, CoveredConcludes
  <1>7. CASE Fetch(p)
    <2>1. Bootstrapping(p) /\ UNCHANGED <<listing, first>>
      BY <1>7 DEF Fetch, Goes, Bootstrapping
    <2>2. PICK page, next, short :
            /\ page = Page(at.end, at.offset, Requested(at))
            /\ next = Read(at, Cardinality(page), Oldest(page))
            /\ short = (Cardinality(page) < Requested(at))
            /\ \/ \E result \in Reasons : /\ Ends(p, at, result) /\ UNCHANGED stored
                                          /\ result = "exhausted" => page = {}
               \/ /\ page # {} /\ next \in Checkpoints
                  /\ stored' = stored \union page /\ UNCHANGED log
                  /\ Puts(p, [run[p] EXCEPT !.pc = "progress", !.short = short, !.at = next])
      BY <1>1, <1>7, FetchOf, Zenon
    <2> DEFINE r == [run[p] EXCEPT !.pc = "progress", !.short = short, !.at = next]
    <2>3. \/ \E result \in Reasons : /\ Ends(p, at, result) /\ UNCHANGED stored
                                     /\ result = "exhausted" => page = {}
          \/ /\ page # {} /\ stored' = stored \union page /\ UNCHANGED log
             /\ Puts(p, r)
      BY <2>2, Zenon
    <2>4. ASSUME NEW result, Ends(p, at, result), UNCHANGED stored,
                 result = "exhausted" => page = {}
          PROVE  Covered'
      <3>1. page = {} => Missing = {}
        <4>1. at.rows < MaxRows /\ at.offset < OffsetLimit
          <5>1. run[p].pc = "fetch"
            BY <1>7 DEF Fetch, Goes
          <5> QED
            BY <1>1, <5>1 DEF Covered, Running
        <4>2. Requested(at) \in Nat /\ Requested(at) # 0
          BY <1>2, <4>1, RequestedFits
        <4>3. ASSUME page = {}, NEW t \in Missing
              PROVE  FALSE
          <5>1. PICK limit \in Nat : limit = Requested(at) /\ limit # 0
            BY <4>2
          <5>2. page = Page(at.end, at.offset, limit) /\ t \notin page
            BY <2>2, <4>3, <5>1
          <5>3. page # {}
            BY <1>2, <1>3, <2>1, <4>3, <5>1, <5>2, BehindPage
          <5> QED
            BY <4>3, <5>3
        <4> QED
          BY <4>3
      <3> QED
        BY <1>2, <1>3, <2>1, <2>4, <3>1, CoveredEnds
    <2>5. ASSUME page # {}, stored' = stored \union page, UNCHANGED log, Puts(p, r)
          PROVE  Covered'
      <3>1. Covers(next)' /\ (short => Missing' = {})
        BY <1>2, <1>3, <2>1, <2>2, <2>5, PageCovers
      <3>2. r.at = next /\ r.pc = "progress" /\ r.short = short
        BY <1>2 DEF Runs
      <3> HIDE DEF r
      <3>3. PICK x : x = r
        OBVIOUS
      <3>4. x.at = next /\ x.pc = "progress" /\ (x.short => Missing' = {}) /\ Puts(p, x)
        BY <2>5, <3>1, <3>2, <3>3
      <3>5. Running(x)'
        BY <3>1, <3>4 DEF Running
      <3>6. stored \subseteq stored'
        BY <2>5
      <3> QED
        BY <2>1, <2>5, <3>4, <3>5, <3>6, CoveredStep
    <2> QED
      BY <2>3, <2>4, <2>5
  <1>8. CASE Progress(p)
    <2>1. Bootstrapping(p) /\ UNCHANGED <<listing, first, stored>>
      BY <1>8 DEF Progress, Goes, Bootstrapping
    <2> DEFINE r == [run[p] EXCEPT !.pc = "reconcile", !.at = at]
    <2>2. log' = at /\ Puts(p, r)
      BY <1>1, <1>2, <1>8, PersistPuts DEF Progress
    <2>3. r.at = at /\ r.pc = "reconcile" /\ r.short = run[p].short
      BY <1>2 DEF Runs
    <2> HIDE DEF r
    <2> QED
      BY <1>2, <1>3, <2>1, <2>2, <2>3, CoveredPuts
  <1>9. CASE Reconcile(p)
    <2>1. Bootstrapping(p) /\ UNCHANGED <<listing, first, stored>>
      BY <1>9 DEF Reconcile, Goes, Bootstrapping
    <2>2. ASSUME NEW asked \in SUBSET Markets, Cardinality(asked) \in Nat,
                 Cardinality(asked) <= (MaxRequests - at.requests) \div 2,
                 log' = PaidFor(at, Cardinality(asked)),
                 Puts(p, [run[p] EXCEPT !.pc = "settle", !.at = PaidFor(at, Cardinality(asked)),
                                        !.asked = asked])
          PROVE  Covered'
      <3>1. PICK paid : paid = PaidFor(at, Cardinality(asked))
        OBVIOUS
      <3>2. /\ paid \in Checkpoints /\ paid.end = at.end /\ paid.offset = at.offset
            /\ paid.oldest = at.oldest /\ paid.reason = at.reason
        BY <1>2, <2>2, <3>1, PaidForParts
      <3>3. Covers(paid)
        BY <1>3, <2>1, <3>2, SameCover
      <3> DEFINE r == [run[p] EXCEPT !.pc = "settle", !.at = paid, !.asked = asked]
      <3>4. Puts(p, r) /\ log' = paid
        BY <2>2, <3>1
      <3>5. r.at = paid /\ r.pc = "settle" /\ r.short = run[p].short
        BY <1>2 DEF Runs
      <3> HIDE DEF r
      <3> QED
        BY <1>3, <2>1, <3>2, <3>3, <3>4, <3>5, CoveredPuts
    <2> QED
      BY <1>1, <1>2, <1>9, <2>1, <2>2, ReconcileOutcome, CoveredConcludes
  <1>10. CASE Answered(p)
    <2>1. Bootstrapping(p) /\ UNCHANGED <<listing, first, stored>>
      BY <1>10 DEF Answered, Goes, Bootstrapping
    <2> QED
      BY <1>10, <2>1, AnsweredOutcome, CoveredConcludes
  <1>11. ASSUME NEW m \in Markets, RunChecks(p, m)
         PROVE  Covered'
    <2>1. Bootstrapping(p) /\ UNCHANGED <<listing, first, stored, log>> /\ run[p].pc = "settle"
      BY <1>11 DEF RunChecks, Goes, Bootstrapping
    <2>2. PICK r \in Runs : Puts(p, r) /\ r.pc = "settle" /\ r.at = at /\ r.short = run[p].short
      <3>1. CASE UNCHANGED run
        BY <1>1, <1>2, <2>1, <3>1, RunParts DEF Puts
      <3>2. CASE run' = [run EXCEPT ![p] = [run[p] EXCEPT !.failed = TRUE]]
        <4> DEFINE x == [run[p] EXCEPT !.failed = TRUE]
        <4>1. x \in Runs /\ x.pc = "settle" /\ x.at = at /\ x.short = run[p].short
          BY <1>1, <1>2, <2>1 DEF Runs
        <4>2. Puts(p, x)
          BY <3>2, FailedPuts
        <4> HIDE DEF x
        <4> QED
          BY <4>1, <4>2
      <3> QED
        BY <1>11, <3>1, <3>2 DEF RunChecks
    <2> QED
      BY <1>2, <1>3, <2>1, <2>2, CoveredPuts
  <1>12. ASSUME NEW m \in Markets, Raises(p, m)
         PROVE  Covered'
    <2>1. Puts(p, NoRun) /\ UNCHANGED <<listing, first, stored, log>>
      BY <1>12, NoRunPuts DEF Raises
    <2>2. Running(NoRun)'
      BY NoneTyped DEF Running
    <2> QED
      BY <2>1, <2>2, NoneTyped, CoveredStep
  <1> QED
    BY <1>4, <1>5, <1>6, <1>7, <1>8, <1>9, <1>10, <1>11, <1>12 DEF BootstrapStep

\* A step that moves no run and writes no checkpoint.
LEMMA CoveredFrame ==
    ASSUME TypeOK, Covered, UNCHANGED <<run, log, first>>,
           listing' \in listing..MaxTrades, stored \subseteq stored'
    PROVE  Covered'
  <1>1. ASSUME NEW q \in Processes
        PROVE  Running(run[q])'
    <2>1. PICK x \in Runs : x = run[q] /\ Running(x)
      BY RunParts DEF Covered
    <2>2. x = run'[q] /\ Running(x)'
      BY <2>1, RunningKept
    <2> QED
      BY <2>2, RunningOf
  <1>2. Logged(log)'
    <2>1. PICK x \in Checkpoints : x = log /\ Logged(x)
      BY DEF Covered, TypeOK
    <2>2. x = log' /\ Logged(x)'
      BY <2>1, LoggedKept
    <2> QED
      BY <2>2, LoggedOf
  <1>3. first' <= listing'
    BY BootstrapNumbers DEF Covered, TypeOK
  <1> QED
    BY <1>1, <1>2, <1>3 DEF Covered, Bootstrapping

\* A window that ends with the newest trade leaves nothing out.
LEMMA NewestCovers ==
    ASSUME TypeOK, NEW at, at.end = Stamp[listing], at.offset = 0, at.oldest = 0,
           UNCHANGED <<listing, stored>>, first' <= listing, first' \in Nat
    PROVE  Covers(at)'
  <1>1. listing \in 1..MaxTrades /\ Cardinality(Until(at.end)) = listing
    BY UntilNewest DEF TypeOK
  <1>2. Cardinality(Until(at.end)') = listing
    BY <1>1 DEF Until
  <1>3. \A t \in Missing' : t <= listing - 0
    BY <1>1, BootstrapNumbers DEF Missing
  <1> QED
    BY <1>2, <1>3 DEF Covers

\* The first bootstrap begins with all that the source has, and another where the log is.
LEMMA StartCovered ==
    ASSUME TypeOK, Covered, NEW p \in Processes, StartScoring(p)
    PROVE  Covered'
  <1>1. UNCHANGED <<listing, stored>> /\ listing' \in listing..MaxTrades /\ stored \subseteq stored'
    BY BootstrapNumbers DEF StartScoring, TypeOK
  <1>2. first \in Nat /\ first <= listing /\ listing \in 1..MaxTrades
    BY BootstrapNumbers DEF TypeOK, Covered
  <1>3. CASE UNCHANGED <<run, first, log>>
    BY <1>1, <1>3, CoveredFrame
  <1>4. CASE /\ UNCHANGED <<run, first>>
             /\ log' = [NoCheckpoint EXCEPT !.reason = "mature", !.end = Stamp[listing]]
    <2>1. PICK x : x = log'
      OBVIOUS
    <2>2. x.reason = "mature" /\ x.end = Stamp[listing] /\ x.offset = 0 /\ x.oldest = 0
      BY <1>4, <2>1 DEF NoCheckpoint
    <2>3. Covers(x)'
      BY <1>1, <1>2, <1>4, <2>2, NewestCovers
    <2>4. Logged(log)'
      BY <2>1, <2>2, <2>3, LoggedOf DEF Logged
    <2>5. ASSUME NEW q \in Processes
          PROVE  Running(run[q])'
      <3>1. PICK y \in Runs : y = run[q] /\ Running(y)
        BY RunParts DEF Covered
      <3>2. y = run'[q] /\ Running(y)'
        BY <1>1, <1>4, <3>1, RunningKept
      <3> QED
        BY <3>2, RunningOf
    <2>6. log'.reason = "mature" /\ first' <= listing'
      BY <1>1, <1>2, <1>4, <2>1, <2>2
    <2> QED
      BY <1>4, <2>4, <2>5, <2>6 DEF Covered, Bootstrapping
  <1>5. CASE /\ log.reason \notin {"mature", "exhausted"} /\ UNCHANGED log
             /\ Puts(p, [NoRun EXCEPT !.pc = "loop", !.at = Resumed])
             /\ first' = IF first = 0 THEN listing ELSE first
    <2>1. PICK at \in Checkpoints : at = Resumed
      BY ResumedParts
    <2>2. PICK r : r = [NoRun EXCEPT !.pc = "loop", !.at = at]
      OBVIOUS
    <2>3. Puts(p, r) /\ r.at = at /\ r.pc = "loop" /\ r.short = FALSE
      BY <1>5, <2>1, <2>2 DEF NoRun
    <2>4. first' \in Nat /\ first' <= listing /\ first' # 0
      BY <1>2, <1>5
    <2>5. Covers(at)'
      <3>1. CASE log.reason = "none"
        <4>1. at.end = Stamp[listing] /\ at.offset = 0 /\ at.oldest = 0
          BY <2>1, <3>1, ResumedParts
        <4> QED
          BY <1>1, <2>4, <4>1, NewestCovers
      <3>2. CASE log.reason # "none"
        <4>1. first # 0 /\ UNCHANGED first
          BY <1>5, <3>2 DEF Covered
        <4>2. PICK x \in Checkpoints : x = log /\ Covers(x)
          BY <3>2 DEF Covered, Logged, TypeOK
        <4>3. at.end = x.end /\ at.offset = x.offset /\ at.oldest = x.oldest
          BY <2>1, <3>2, <4>2, ResumedParts
        <4>4. Covers(x)'
          BY <1>1, <4>1, <4>2, CoversKept
        <4> QED
          BY <4>3, <4>4, SameCover
      <3> QED
        BY <3>1, <3>2
    <2>6. Running(r)'
      BY <2>3, <2>5 DEF Running
    <2>7. ASSUME NEW q \in Processes
          PROVE  Running(run[q])'
      <3>1. CASE q = p
        <4>1. r = run'[q]
          BY <2>3, <3>1 DEF Puts
        <4> QED
          BY <2>6, <4>1, RunningOf
      <3>2. CASE q # p
        <4>1. PICK y \in Runs : y = run[q] /\ Running(y)
          BY RunParts DEF Covered
        <4>2. y = run'[q]
          BY <2>3, <3>2, <4>1 DEF Puts
        <4>3. CASE first = 0
          <5>1. y.pc = "idle"
            BY <4>1, <4>3 DEF Covered, Bootstrapping
          <5>2. Running(y)'
            BY <5>1 DEF Running
          <5> QED
            BY <4>2, <5>2, RunningOf
        <4>4. CASE first # 0
          <5>1. Running(y)'
            BY <1>1, <1>5, <4>1, <4>4, RunningKept
          <5> QED
            BY <4>2, <5>1, RunningOf
        <4> QED
          BY <4>3, <4>4
      <3> QED
        BY <3>1, <3>2
    <2>8. Logged(log)'
      <3>1. CASE first = 0
        <4>1. log'.reason = "none"
          BY <1>5, <3>1 DEF Covered
        <4> QED
          BY <4>1 DEF Logged
      <3>2. CASE first # 0
        <4>1. PICK x \in Checkpoints : x = log /\ Logged(x)
          BY DEF Covered, TypeOK
        <4>2. x = log' /\ Logged(x)'
          BY <1>1, <1>5, <3>2, <4>1, LoggedKept
        <4> QED
          BY <4>2, LoggedOf
      <3> QED
        BY <3>1, <3>2
    <2>9. first' <= listing'
      BY <1>1, <2>4
    <2> QED
      BY <2>4, <2>7, <2>8, <2>9 DEF Covered
  <1> QED
    BY <1>3, <1>4, <1>5, StartOutcome

\* A checkpoint is never ahead of what is stored: whatever was there when the backfill
\* began and is newer than its cursor is stored, and all of it if the history is exhausted.
THEOREM CheckpointsCover == Spec => []CheckpointCovered
  <1>1. ASSUME Init
        PROVE  Covered
    <2>1. /\ first = 0 /\ listing = Listing0 /\ log = NoCheckpoint /\ NoCheckpoint.reason = "none"
          /\ \A p \in Processes : run[p] = NoRun
      BY <1>1 DEF Init, NoCheckpoint
    <2> QED
      BY <2>1, BootstrapNumbers, NoneTyped DEF Covered, Logged, Running, Bootstrapping
  <1>2. ASSUME TypeOK, Started, Covered, [Next]_vars
        PROVE  Covered'
    <2>1. listing \in listing..MaxTrades
      BY <1>2, BootstrapNumbers DEF TypeOK
    <2>2. CASE SourceTrade
      <3>1. listing' \in listing..MaxTrades /\ UNCHANGED <<run, log, first, stored>>
        BY <1>2, <2>2, BootstrapNumbers DEF SourceTrade, TypeOK
      <3> QED
        BY <1>2, <3>1, CoveredFrame
    <2>3. CASE UNCHANGED <<run, log, first, listing>> /\ stored \subseteq stored'
      BY <1>2, <2>1, <2>3, CoveredFrame
    <2>4. ASSUME NEW m \in Markets, MarketResolves(m) \/ CycleChecks(m)
          PROVE  Covered'
      BY <2>3, <2>4 DEF MarketResolves, CycleChecks
    <2>5. CASE Cycle \/ UNCHANGED vars
      BY <2>3, <2>5 DEF Cycle, vars
    <2>6. ASSUME NEW p \in Processes, Crash(p)
          PROVE  Covered'
      <3>1. Puts(p, NoRun) /\ UNCHANGED <<listing, stored, log, first>>
        BY <1>2, <2>6, NoRunPuts DEF Crash
      <3>2. Running(NoRun)'
        BY NoneTyped DEF Running
      <3> QED
        BY <1>2, <3>1, <3>2, NoneTyped, CoveredStep
    <2> QED
      BY <1>2, <2>2, <2>4, <2>5, <2>6, RunCovered, StartCovered DEF Next, Proceeds
  <1>3. ASSUME TypeOK, Covered
        PROVE  CheckpointCovered
    <2>1. first \in Nat /\ log.end \in Nat /\ log.offset \in Nat /\ listing \in 1..MaxTrades
      BY <1>3, BootstrapNumbers, CheckpointParts DEF TypeOK
    <2> DEFINE n == Cardinality(Until(log.end))
    <2>2. n \in Nat
      <3>1. n \in 0..listing
        BY <2>1, UntilIsPrefix
      <3> HIDE DEF n
      <3> QED
        BY <2>1, <3>1
    <2>3. ASSUME log.reason # "none", NEW t \in 1..first, t > n - log.offset
          PROVE  t \in stored
      <3>1. t \in Missing => t <= n - log.offset
        BY <1>3, <2>3 DEF Covered, Logged, Covers
      <3> HIDE DEF n
      <3> QED
        BY <2>1, <2>2, <2>3, <3>1 DEF Missing
    <2>4. log.reason = "exhausted" => 1..first \subseteq stored
      BY <1>3 DEF Covered, Logged, Missing
    <2>5. log.reason # "none" => {t \in 1..first : t > n - log.offset} \subseteq stored
      <3> HIDE DEF n
      <3> QED
        BY <2>3
    <2> QED
      BY <2>4, <2>5 DEF CheckpointCovered
  <1> QED
    BY <1>1, <1>2, <1>3, TypeCorrect, AlwaysStarted, PTL DEF Spec
=============================================================================
