------------------------ MODULE PaperExecutionProofs ------------------------
(***************************************************************************)
(* The safety of paper execution for all wallets, markets, trades and      *)
(* limits.  Sound is the inductive invariant: storage keeps the order of   *)
(* ingestion, a decision waits for nobody but the batch, a settled         *)
(* position is flat, and an approval covers only what was made under it.   *)
(***************************************************************************)
EXTENDS PaperExecution, FiniteSetTheorems, TLAPS

Stored == {t \in Trades : row[t] > 0}

\* The order of the rows is one of the trades, and that of the clock's readings.
RowsOrdered ==
    /\ \A t \in Trades : row[t] <= Cardinality(Stored) /\ seenAt[t] <= now
    /\ \A s, t \in Stored : row[s] = row[t] => s = t
    /\ \A s, t \in Stored : row[s] <= row[t] => seenAt[s] <= seenAt[t]

\* The batch holds stored, undecided signals.
BatchPending ==
    /\ detected \subseteq Stored
    /\ batch \subseteq {t \in detected : order[t] = "none"}

\* Only a position of a resolved market is settled, and it is flat.
SettledResolved ==
    \A p \in Positions : p \in settled => market[p[2]] = "settled" /\ shares[p] = 0

\* The trade whose book is awaited has a position that is not settled: the bot
\* settles in another phase.
AwaitedOpen ==
    pc = "fetch" => \A t \in batch : Oldest(t) => PositionOf[t] \notin settled

\* Whatever lies within the approval in force was made under it.
ApprovalKept ==
    /\ \A t \in Trades : madeAt[t] <= now
    /\ \A t \in Trades :
          LET w == WalletOf[t] IN
          w \in approved /\ approvedAt[w] # 0 /\ madeAt[t] >= approvedAt[w] => t \in copyable

Sound ==
    /\ TypeOK
    /\ RowsOrdered /\ BatchPending
    /\ SettledResolved /\ AwaitedOpen
    /\ ApprovalKept

-----------------------------------------------------------------------------
\* A position is a wallet and a market.
LEMMA PositionTypes ==
    /\ PositionOf \in [Trades -> Positions]
    /\ \A p \in Positions : p[2] \in Markets
    /\ \A t \in Trades : PositionOf[t][2] = MarketOf[t]
  BY ExecutionAssumption DEF PositionOf, Positions

\* First selects from its argument.
LEMMA FirstSubset ==
    ASSUME NEW n, NEW S
    PROVE  First(n, S) \subseteq S
  BY DEF First

\* Among stored trades, the one whose turn it is is unique.
LEMMA OldestUnique ==
    ASSUME Sound, NEW s \in batch, NEW t \in batch, Oldest(s), Oldest(t)
    PROVE  s = t
  <1>1. s \in Stored /\ t \in Stored
    BY DEF Sound, BatchPending
  <1>2. row[s] \in Nat /\ row[t] \in Nat
    BY <1>1 DEF Sound, TypeOK, Stored
  <1>3. row[s] = row[t]
    BY <1>2 DEF Oldest
  <1> QED
    BY <1>1, <1>3 DEF Sound, RowsOrdered

\* The initial state is sound.
LEMMA InitSound ==
    ASSUME Init
    PROVE  Sound
  <1>1. /\ now = 1 /\ madeAt \in [Trades -> Nat] /\ row \in [Trades -> Nat]
        /\ seenAt \in [Trades -> Nat]
        /\ \A t \in Trades : madeAt[t] = 0 /\ row[t] = 0 /\ seenAt[t] = 0
    BY DEF Init
  <1>2. Stored = {}
    BY <1>1 DEF Stored
  <1>3. TypeOK
    <2>1. /\ approved \subseteq Wallets /\ approvedAt \in [Wallets -> Nat]
          /\ market \in [Markets -> {"open", "closed", "settled"}]
          /\ detected \subseteq Trades
          /\ order \in [Trades -> {"none", "filled", "missed"}]
      BY DEF Init
    <2>2. /\ shares \in [Positions -> Nat] /\ settled \subseteq Positions
          /\ pc \in {"poll", "settle", "select", "batch", "fetch"}
          /\ batch \subseteq Trades /\ crashes \in Nat /\ copyable \subseteq Trades
      BY DEF Init
    <2>3. killSwitch \in BOOLEAN
      BY DEF Init
    <2> QED
      BY <1>1, <2>1, <2>2, <2>3 DEF TypeOK
  <1>4. RowsOrdered
    BY <1>1, <1>2, FS_EmptySet DEF RowsOrdered
  <1>5. BatchPending /\ SettledResolved /\ AwaitedOpen
    BY DEF Init, BatchPending, SettledResolved, AwaitedOpen
  <1>6. ApprovalKept
    <2>1. \A w \in Wallets : w \in approved => approvedAt[w] = 1
      BY DEF Init
    <2> QED
      BY <1>1, <2>1, ExecutionAssumption DEF ApprovalKept
  <1> QED
    BY <1>3, <1>4, <1>5, <1>6 DEF Sound

-----------------------------------------------------------------------------
\* Time passing, or nothing happening to the rows, keeps their order.
LEMMA RowsFrame ==
    ASSUME TypeOK, RowsOrdered, UNCHANGED <<row, seenAt>>, now' \in Nat, now' >= now
    PROVE  RowsOrdered'
  <1>1. Stored' = Stored
    BY DEF Stored
  <1>2. \A t \in Trades : seenAt[t] \in Nat /\ seenAt[t] <= now
    BY DEF TypeOK, RowsOrdered
  <1>3. \A t \in Trades : seenAt'[t] <= now'
    BY <1>2 DEF TypeOK
  <1>4. \A t \in Trades : row'[t] <= Cardinality(Stored')
    BY <1>1 DEF RowsOrdered
  <1>5. /\ \A s, t \in Stored' : row'[s] = row'[t] => s = t
        /\ \A s, t \in Stored' : row'[s] <= row'[t] => seenAt'[s] <= seenAt'[t]
    BY <1>1 DEF RowsOrdered
  <1> QED
    BY <1>3, <1>4, <1>5 DEF RowsOrdered

\* An approval is left alone when neither it nor the source moves.
LEMMA ApprovalFrame ==
    ASSUME TypeOK, ApprovalKept, UNCHANGED <<madeAt, reviewVars>>, now' \in Nat, now' >= now
    PROVE  ApprovalKept'
  <1>1. \A t \in Trades : madeAt'[t] <= now'
    BY DEF TypeOK, ApprovalKept
  <1> QED
    BY <1>1 DEF ApprovalKept, reviewVars

\* A stored page goes behind what is stored, its later trades first.
LEMMA IngestKeepsOrder ==
    ASSUME TypeOK, RowsOrdered, NEW w \in Wallets, NEW page \in SUBSET Trades,
           IngestPage(w, page)
    PROVE  /\ row' \in [Trades -> Nat] /\ seenAt' \in [Trades -> Nat]
           /\ Stored \subseteq Stored'
           /\ RowsOrdered'
  <1> DEFINE N == Cardinality(Stored)
             P == Cardinality(page)
             From(t) == {s \in page : s >= t}
             Rank(t) == Cardinality(From(t))
  <1>1. /\ \A t \in page : row[t] = 0
        /\ row' = [t \in Trades |-> IF t \in page THEN N + Rank(t) ELSE row[t]]
        /\ seenAt' = [t \in Trades |-> IF t \in page THEN now ELSE seenAt[t]]
        /\ now' = now
    BY DEF IngestPage, Stored
  <1>2. /\ \A t \in Trades : row[t] \in Nat /\ seenAt[t] \in Nat /\ t \in Nat
        /\ now \in Nat
    BY ExecutionAssumption DEF TypeOK
  <1>3. /\ IsFiniteSet(Stored) /\ IsFiniteSet(page)
        /\ N \in Nat /\ P \in Nat
    <2>1. Stored \in SUBSET Trades
      BY DEF Stored
    <2>2. IsFiniteSet(Stored) /\ IsFiniteSet(page)
      BY <2>1, ExecutionAssumption, FS_Subset
    <2> QED
      BY <2>2, FS_CardinalityType
  <1>4. \A t \in page : Rank(t) \in 1..P
    <2> TAKE t \in page
    <2>1. From(t) \in SUBSET page /\ t \in From(t)
      BY <1>2
    <2>2. IsFiniteSet(From(t)) /\ Rank(t) <= P
      BY <1>3, <2>1, FS_Subset
    <2>3. Rank(t) \in Nat /\ Rank(t) # 0
      BY <2>1, <2>2, FS_CardinalityType, FS_EmptySet
    <2> HIDE DEF Rank, P
    <2> QED
      BY <1>3, <2>2, <2>3
  <1>5. \A s, t \in page : s < t => Rank(t) < Rank(s)
    <2> SUFFICES ASSUME NEW s \in page, NEW t \in page, s < t
                 PROVE  Rank(t) < Rank(s)
      OBVIOUS
    <2>1. From(t) \in SUBSET From(s) /\ From(s) \in SUBSET page
      BY <1>2
    <2>2. s \in From(s) /\ s \notin From(t)
      BY <1>2
    <2>3. IsFiniteSet(From(s))
      BY <1>3, <2>1, FS_Subset
    <2>4. Rank(t) <= Rank(s) /\ Rank(t) # Rank(s)
      <3> HIDE DEF From
      <3> QED
        BY <2>1, <2>2, <2>3, FS_Subset
    <2>5. Rank(t) \in Nat /\ Rank(s) \in Nat
      BY <1>4
    <2> HIDE DEF Rank
    <2> QED
      BY <2>4, <2>5
  <1> HIDE DEF Rank
  <1>6. /\ \A t \in page : row'[t] = N + Rank(t) /\ seenAt'[t] = now
        /\ \A t \in Trades \ page : row'[t] = row[t] /\ seenAt'[t] = seenAt[t]
    BY <1>1
  <1>7. Stored' = Stored \union page /\ Stored \intersect page = {}
    <2>1. \A t \in Trades : row'[t] > 0 <=> t \in Stored \union page
      BY <1>2, <1>3, <1>4, <1>6 DEF Stored
    <2>2. Stored \intersect page = {}
      BY <1>1 DEF Stored
    <2> QED
      BY <2>1, <2>2 DEF Stored
  <1>8. Cardinality(Stored') = N + P
    <2>1. Cardinality(Stored \union page) = N + P - Cardinality({})
      BY <1>3, <1>7, FS_Union
    <2> QED
      BY <2>1, <1>3, <1>7, FS_EmptySet
  <1> HIDE DEF N, P
  <1>9. row' \in [Trades -> Nat] /\ seenAt' \in [Trades -> Nat]
    BY <1>1, <1>2, <1>3, <1>4
  <1>10. \A t \in Stored : row'[t] = row[t] /\ row[t] <= N /\ seenAt'[t] = seenAt[t]
                            /\ seenAt[t] <= now /\ t \in Trades
    BY <1>6, <1>7 DEF RowsOrdered, Stored, N
  <1>11. \A t \in page : row'[t] > N /\ row'[t] <= N + P
    BY <1>3, <1>4, <1>6
  <1>12. \A t \in Trades : row'[t] <= Cardinality(Stored') /\ seenAt'[t] <= now'
    <2>1. \A t \in Trades \ page : row[t] <= N /\ seenAt[t] <= now
      BY DEF RowsOrdered, N
    <2> QED
      BY <1>1, <1>2, <1>3, <1>6, <1>8, <1>11, <2>1
  <1>13. \A s, t \in Stored' : row'[s] = row'[t] => s = t
    <2>1. \A s, t \in Stored : row'[s] = row'[t] => s = t
      BY <1>10 DEF RowsOrdered
    <2>2. \A s, t \in page : row'[s] = row'[t] => s = t
      BY <1>2, <1>3, <1>4, <1>5, <1>6
    <2>3. \A s \in Stored, t \in page : row'[s] # row'[t]
      BY <1>2, <1>3, <1>10, <1>11, <1>9
    <2> QED
      BY <1>7, <2>1, <2>2, <2>3
  <1>14. \A s, t \in Stored' : row'[s] <= row'[t] => seenAt'[s] <= seenAt'[t]
    <2>1. \A s, t \in Stored : row'[s] <= row'[t] => seenAt'[s] <= seenAt'[t]
      BY <1>10 DEF RowsOrdered
    <2>2. \A s \in Stored \union page, t \in page : seenAt'[s] <= seenAt'[t]
      BY <1>2, <1>6, <1>10
    <2>3. \A s \in page, t \in Stored : ~(row'[s] <= row'[t])
      BY <1>2, <1>3, <1>9, <1>10, <1>11
    <2> QED
      BY <1>7, <2>1, <2>2, <2>3
  <1> QED
    BY <1>7, <1>9, <1>12, <1>13, <1>14 DEF RowsOrdered

-----------------------------------------------------------------------------
\* Steps of the world outside the cycle keep the invariant: the clock, the
\* source, the humans and the markets.
LEMMA WorldKeepsSound ==
    ASSUME Sound, World
    PROVE  Sound'
  <1>t. TypeOK /\ now \in Nat /\ now # 0
    BY DEF Sound, TypeOK
  <1>s. /\ RowsOrdered /\ BatchPending /\ SettledResolved /\ AwaitedOpen
        /\ ApprovalKept
    BY DEF Sound
  <1>1. CASE Tick
    <2>1. /\ now' = now + 1
          /\ UNCHANGED <<sourceVars, reviewVars, market, bookVars, botVars, processVars>>
      BY <1>1 DEF Tick
    <2> USE <2>1 DEF sourceVars, reviewVars, bookVars, botVars, processVars
    <2>2. now' \in Nat \ {0} /\ now' >= now
      BY <1>t
    <2>3. TypeOK'
      BY <1>t, <2>2 DEF TypeOK
    <2>4. RowsOrdered' /\ ApprovalKept'
      BY <1>t, <1>s, <2>2, RowsFrame, ApprovalFrame
    <2>5. BatchPending' /\ SettledResolved' /\ AwaitedOpen'
      BY <1>s DEF BatchPending, Stored, SettledResolved, AwaitedOpen, Oldest
    <2> QED
      BY <2>3, <2>4, <2>5 DEF Sound
  <1>2. CASE \E t \in Trades : SourceTrade(t)
    <2>1. PICK t \in Trades : SourceTrade(t)
      BY <1>2
    <2>2. /\ madeAt' = [madeAt EXCEPT ![t] = now]
          /\ copyable' = IF WalletOf[t] \in approved THEN copyable \union {t} ELSE copyable
          /\ UNCHANGED <<now, row, seenAt, approved, approvedAt, market, bookVars,
                         botVars, processVars>>
      BY <2>1 DEF SourceTrade
    <2> USE <2>2 DEF bookVars, botVars, processVars
    <2>3. TypeOK'
      BY <1>t DEF TypeOK
    <2>4. RowsOrdered'
      BY <1>t, <1>s, RowsFrame
    <2>5. ApprovalKept'
      BY <1>t, <1>s, ExecutionAssumption DEF ApprovalKept, TypeOK
    <2>6. BatchPending' /\ SettledResolved' /\ AwaitedOpen'
      BY <1>s DEF BatchPending, Stored, SettledResolved, AwaitedOpen, Oldest
    <2> QED
      BY <2>3, <2>4, <2>5, <2>6 DEF Sound
  <1>3. CASE \E w \in Wallets : Approve(w)
    <2>1. PICK w \in Wallets : Approve(w)
      BY <1>3
    <2>2. /\ approved' = approved \union {w}
          /\ approvedAt' = [approvedAt EXCEPT ![w] = now + 1]
          /\ copyable' = copyable \ OfWallet(w)
          /\ UNCHANGED <<now, sourceVars, market, bookVars, botVars, processVars>>
      BY <2>1 DEF Approve
    <2> USE <2>2 DEF sourceVars, bookVars, botVars, processVars
    <2>3. TypeOK'
      BY <1>t DEF TypeOK
    <2>4. RowsOrdered'
      BY <1>t, <1>s, RowsFrame
    <2>5. ApprovalKept'
      <3>1. \A t \in Trades : madeAt[t] \in Nat /\ madeAt[t] <= now
        BY <1>t, <1>s DEF ApprovalKept, TypeOK
      <3>2. \A t \in Trades : WalletOf[t] = w => approvedAt'[w] > madeAt'[t]
        BY <1>t, <3>1 DEF TypeOK
      <3>3. \A t \in Trades : WalletOf[t] # w =>
                /\ WalletOf[t] \in approved' <=> WalletOf[t] \in approved
                /\ approvedAt'[WalletOf[t]] = approvedAt[WalletOf[t]]
                /\ t \in copyable' <=> t \in copyable
        BY <1>t, ExecutionAssumption DEF TypeOK, OfWallet
      <3>4. approvedAt'[w] = now + 1
        BY <1>t DEF TypeOK
      <3> QED
        BY <1>t, <1>s, <3>1, <3>2, <3>3, <3>4 DEF ApprovalKept
    <2>6. BatchPending' /\ SettledResolved' /\ AwaitedOpen'
      BY <1>s DEF BatchPending, Stored, SettledResolved, AwaitedOpen, Oldest
    <2> QED
      BY <2>3, <2>4, <2>5, <2>6 DEF Sound
  <1>4. CASE \E w \in Wallets : Disable(w)
    <2>1. PICK w \in Wallets : Disable(w)
      BY <1>4
    <2>2. /\ approved' = approved \ {w}
          /\ copyable' = copyable \ OfWallet(w)
          /\ UNCHANGED <<now, sourceVars, approvedAt, market, bookVars, botVars, processVars>>
      BY <2>1 DEF Disable
    <2> USE <2>2 DEF sourceVars, bookVars, botVars, processVars
    <2>3. TypeOK'
      BY <1>t DEF TypeOK
    <2>4. RowsOrdered'
      BY <1>t, <1>s, RowsFrame
    <2>5. ApprovalKept'
      BY <1>t, <1>s, ExecutionAssumption DEF ApprovalKept, OfWallet
    <2>6. BatchPending' /\ SettledResolved' /\ AwaitedOpen'
      BY <1>s DEF BatchPending, Stored, SettledResolved, AwaitedOpen, Oldest
    <2> QED
      BY <2>3, <2>4, <2>5, <2>6 DEF Sound
  <1>5. CASE \E m \in Markets : MarketEnds(m)
    <2>1. PICK m \in Markets : MarketEnds(m)
      BY <1>5
    <2>2. /\ market' \in {[market EXCEPT ![m] = "closed"], [market EXCEPT ![m] = "settled"]}
          /\ \A n \in Markets : market[n] = "settled" => market'[n] = "settled"
          /\ UNCHANGED <<now, sourceVars, reviewVars, bookVars, botVars, processVars>>
      BY <1>t, <2>1 DEF MarketEnds, TypeOK
    <2> USE <2>2 DEF sourceVars, reviewVars, bookVars, botVars, processVars
    <2>3. TypeOK'
      BY <1>t DEF TypeOK
    <2>4. RowsOrdered' /\ ApprovalKept'
      BY <1>t, <1>s, RowsFrame, ApprovalFrame
    <2>5. BatchPending' /\ AwaitedOpen'
      BY <1>s DEF BatchPending, Stored, AwaitedOpen, Oldest
    <2>6. SettledResolved'
      BY <1>s, PositionTypes DEF SettledResolved
    <2> QED
      BY <2>3, <2>4, <2>5, <2>6 DEF Sound
  <1> QED
    BY <1>1, <1>2, <1>3, <1>4, <1>5 DEF World

\* A verdict takes its signal out of the batch and out of the undecided ones.
LEMMA RecordKeepsBatch ==
    ASSUME TypeOK, BatchPending, NEW t \in Trades, NEW verdict \in {"filled", "missed"},
           Record(t, verdict), UNCHANGED <<row, detected>>
    PROVE  /\ order' \in [Trades -> {"none", "filled", "missed"}]
           /\ batch' \subseteq Trades /\ pc' = "batch"
           /\ BatchPending' /\ AwaitedOpen'
  <1>1. /\ order' = [order EXCEPT ![t] = verdict]
        /\ batch' = batch \ {t} /\ pc' = "batch"
    BY DEF Record
  <1>2. order' \in [Trades -> {"none", "filled", "missed"}] /\ batch' \subseteq Trades
    BY <1>1 DEF TypeOK
  <1>3. BatchPending'
    BY <1>1 DEF TypeOK, BatchPending, Stored
  <1> QED
    BY <1>1, <1>2, <1>3 DEF AwaitedOpen

\* Steps of one signal's turn keep the invariant.
LEMMA ExecuteKeepsSound ==
    ASSUME Sound, NEW t \in Trades, Execute(t)
    PROVE  Sound'
  <1>t. TypeOK /\ now \in Nat
    BY DEF Sound, TypeOK
  <1>s. /\ RowsOrdered /\ BatchPending /\ SettledResolved /\ AwaitedOpen
        /\ ApprovalKept
    BY DEF Sound
  <1>f. UNCHANGED <<now, sourceVars, reviewVars, market, detected, settled, processVars>>
    BY DEF Execute, StopEarly, SkipAtGate, Defer, Fetch, Fill, SkipAtBook, FetchFails, bookVars
  <1> USE <1>f DEF sourceVars, reviewVars, processVars
  <1>g. RowsOrdered' /\ ApprovalKept'
    BY <1>t, <1>s, RowsFrame, ApprovalFrame
  <1>1. CASE UNCHANGED <<order, shares>> /\ pc' = "batch" /\ batch' \subseteq batch
    <2>1. TypeOK'
      BY <1>t, <1>1 DEF TypeOK
    <2>2. BatchPending' /\ SettledResolved' /\ AwaitedOpen'
      BY <1>s, <1>1 DEF BatchPending, Stored, SettledResolved, AwaitedOpen
    <2> QED
      BY <1>g, <2>1, <2>2 DEF Sound
  <1>2. CASE Record(t, "missed") /\ UNCHANGED shares
    <2>1. /\ order' \in [Trades -> {"none", "filled", "missed"}]
          /\ batch' \subseteq Trades /\ pc' = "batch"
          /\ BatchPending' /\ AwaitedOpen'
      BY <1>t, <1>s, <1>2, RecordKeepsBatch
    <2>2. TypeOK'
      BY <1>t, <1>2, <2>1 DEF TypeOK
    <2>3. SettledResolved'
      BY <1>s, <1>2 DEF SettledResolved
    <2> QED
      BY <1>g, <2>1, <2>2, <2>3 DEF Sound
  <1>3. CASE Fetch(t)
    <2>1. /\ Oldest(t) /\ t \in batch /\ market[MarketOf[t]] = "open" /\ pc' = "fetch"
          /\ UNCHANGED <<order, shares, batch>>
      BY <1>3 DEF Fetch, Executing, Oldest, Tradable, bookVars
    <2>2. TypeOK'
      BY <1>t, <2>1 DEF TypeOK
    <2>3. BatchPending' /\ SettledResolved'
      BY <1>s, <2>1 DEF BatchPending, Stored, SettledResolved
    <2>4. PositionOf[t] \notin settled
      BY <1>s, <2>1, PositionTypes DEF SettledResolved
    <2>5. \A s \in batch : Oldest(s) => s = t
      BY <2>1, OldestUnique
    <2>6. AwaitedOpen'
      BY <2>1, <2>4, <2>5 DEF AwaitedOpen, Oldest
    <2> QED
      BY <1>g, <2>2, <2>3, <2>6 DEF Sound
  <1>4. CASE Fill(t)
    <2> DEFINE p == PositionOf[t]
    <2>1. /\ pc = "fetch" /\ Oldest(t) /\ t \in batch
          /\ Record(t, "filled")
      BY <1>4 DEF Fill, Answered, Oldest
    <2>2. p \in Positions /\ p \notin settled
      BY <1>s, <2>1, PositionTypes DEF AwaitedOpen
    <2>3. \E n \in Nat : shares' = [shares EXCEPT ![p] = n]
      <3>1. CASE \E filled \in 1..MaxFill : shares' = [shares EXCEPT ![p] = @ + filled]
        <4>1. PICK filled \in 1..MaxFill : shares' = [shares EXCEPT ![p] = shares[p] + filled]
          BY <3>1
        <4>2. shares[p] + filled \in Nat
          BY <1>t, <2>2, ExecutionAssumption DEF TypeOK
        <4> QED
          BY <4>1, <4>2
      <3>2. CASE \E filled \in 1..shares[p] : shares' = [shares EXCEPT ![p] = @ - filled]
        <4>1. PICK filled \in 1..shares[p] : shares' = [shares EXCEPT ![p] = shares[p] - filled]
          BY <3>2
        <4>2. shares[p] - filled \in Nat
          BY <1>t, <2>2 DEF TypeOK
        <4> QED
          BY <4>1, <4>2
      <3> QED
        BY <1>4, <3>1, <3>2 DEF Fill
    <2>4. /\ shares' \in [Positions -> Nat]
          /\ \A q \in Positions : q \in settled => shares'[q] = shares[q]
      BY <1>t, <2>2, <2>3 DEF TypeOK
    <2>5. /\ order' \in [Trades -> {"none", "filled", "missed"}]
          /\ batch' \subseteq Trades /\ pc' = "batch"
          /\ BatchPending' /\ AwaitedOpen'
      BY <1>t, <1>s, <2>1, RecordKeepsBatch
    <2>6. TypeOK'
      BY <1>t, <2>4, <2>5 DEF TypeOK
    <2>7. SettledResolved'
      BY <1>s, <2>4 DEF SettledResolved
    <2> QED
      BY <1>g, <2>5, <2>6, <2>7 DEF Sound
  <1>5. StopEarly(t) \/ Defer(t) \/ FetchFails(t) =>
           UNCHANGED <<order, shares>> /\ pc' = "batch" /\ batch' \subseteq batch
    BY DEF StopEarly, Defer, FetchFails, Executing, bookVars
  <1>6. SkipAtGate(t) \/ SkipAtBook(t) => Record(t, "missed") /\ UNCHANGED shares
    BY DEF SkipAtGate, SkipAtBook
  <1> QED
    BY <1>1, <1>2, <1>3, <1>4, <1>5, <1>6 DEF Execute

\* The invariant survives every step.
LEMMA StepSound ==
    ASSUME Sound, [Next]_vars
    PROVE  Sound'
  <1>t. TypeOK /\ now \in Nat
    BY DEF Sound, TypeOK
  <1>s. /\ RowsOrdered /\ BatchPending /\ SettledResolved /\ AwaitedOpen
        /\ ApprovalKept
    BY DEF Sound
  <1>1. CASE World
    BY <1>1, WorldKeepsSound
  <1>2. CASE \E w \in Wallets, page \in SUBSET Trades : IngestPage(w, page)
    <2>1. PICK w \in Wallets, page \in SUBSET Trades : IngestPage(w, page)
      BY <1>2
    <2>2. /\ pc = "poll"
          /\ UNCHANGED <<now, madeAt, reviewVars, market, bookVars, botVars, processVars>>
      BY <2>1 DEF IngestPage
    <2> USE <2>2 DEF reviewVars, bookVars, botVars, processVars
    <2>3. /\ row' \in [Trades -> Nat] /\ seenAt' \in [Trades -> Nat]
          /\ Stored \subseteq Stored' /\ RowsOrdered'
      BY <1>t, <1>s, <2>1, IngestKeepsOrder
    <2>4. TypeOK'
      BY <1>t, <2>3 DEF TypeOK
    <2>5. ApprovalKept'
      BY <1>t, <1>s, ApprovalFrame
    <2>6. BatchPending'
      BY <1>s, <2>3 DEF BatchPending
    <2>7. SettledResolved' /\ AwaitedOpen'
      BY <1>s DEF SettledResolved, AwaitedOpen
    <2> QED
      BY <2>3, <2>4, <2>5, <2>6, <2>7 DEF Sound
  <1>3. CASE Detect
    <2> DEFINE new == {t \in Trades \ detected : row[t] > 0 /\ WithinApproval(t)}
    <2>1. /\ detected' = detected \union First(DetectLimit, new) /\ pc' = "settle"
          /\ UNCHANGED <<now, sourceVars, reviewVars, market, order, shares, settled,
                         batch, processVars>>
      BY <1>3 DEF Detect
    <2> USE <2>1 DEF sourceVars, reviewVars, processVars
    <2>2. First(DetectLimit, new) \subseteq Stored /\ Stored \subseteq Trades
      BY FirstSubset DEF Stored
    <2> HIDE DEF new
    <2>3. TypeOK'
      BY <1>t, <2>2 DEF TypeOK
    <2>4. RowsOrdered' /\ ApprovalKept'
      BY <1>t, <1>s, RowsFrame, ApprovalFrame
    <2>5. BatchPending'
      BY <1>s, <2>2 DEF BatchPending, Stored
    <2>6. SettledResolved' /\ AwaitedOpen'
      BY <1>s DEF SettledResolved, AwaitedOpen
    <2> QED
      BY <2>3, <2>4, <2>5, <2>6 DEF Sound
  <1>4. CASE Settle
    <2>1. /\ shares' = [p \in Positions |-> IF p \in Due THEN 0 ELSE shares[p]]
          /\ settled' = settled \union Due /\ pc' = "select"
          /\ UNCHANGED <<now, sourceVars, reviewVars, market, detected, order, batch,
                         processVars>>
      BY <1>4 DEF Settle
    <2> USE <2>1 DEF sourceVars, reviewVars, processVars
    <2>2. TypeOK'
      BY <1>t DEF TypeOK, Due
    <2>3. RowsOrdered' /\ ApprovalKept'
      BY <1>t, <1>s, RowsFrame, ApprovalFrame
    <2>4. BatchPending' /\ AwaitedOpen'
      BY <1>s DEF BatchPending, Stored, AwaitedOpen
    <2>5. SettledResolved'
      BY <1>s DEF SettledResolved, Due
    <2> QED
      BY <2>2, <2>3, <2>4, <2>5 DEF Sound
  <1>5. CASE Select
    <2> DEFINE pending == {t \in detected : order[t] = "none"}
    <2>1. /\ batch' = First(BatchSize, pending) /\ pc' = "batch"
          /\ UNCHANGED <<now, sourceVars, reviewVars, market, bookVars, processVars>>
      BY <1>5 DEF Select
    <2> USE <2>1 DEF sourceVars, reviewVars, bookVars, processVars
    <2>2. batch' \subseteq pending
      BY FirstSubset
    <2>3. TypeOK'
      BY <1>t, <2>2 DEF TypeOK
    <2>4. RowsOrdered' /\ ApprovalKept'
      BY <1>t, <1>s, RowsFrame, ApprovalFrame
    <2>5. BatchPending' /\ SettledResolved' /\ AwaitedOpen'
      BY <1>s, <2>2 DEF BatchPending, Stored, SettledResolved, AwaitedOpen
    <2> QED
      BY <2>3, <2>4, <2>5 DEF Sound
  <1>6. CASE \E t \in Trades : Execute(t)
    BY <1>6, ExecuteKeepsSound
  <1>7. CASE EndBatch \/ Crash
    <2>1. /\ pc' = "poll" /\ batch' \subseteq batch
          /\ killSwitch' \in BOOLEAN /\ crashes' \in Nat
          /\ UNCHANGED <<now, sourceVars, reviewVars, market, bookVars>>
      <3>1. CASE EndBatch
        BY <1>t, <3>1 DEF EndBatch, TypeOK, processVars
      <3>2. CASE Crash
        BY <1>t, <3>2 DEF Crash, TypeOK
      <3> QED
        BY <1>7, <3>1, <3>2
    <2> USE <2>1 DEF sourceVars, reviewVars, bookVars
    <2>2. TypeOK'
      BY <1>t DEF TypeOK
    <2>3. RowsOrdered' /\ ApprovalKept'
      BY <1>t, <1>s, RowsFrame, ApprovalFrame
    <2>4. BatchPending' /\ SettledResolved' /\ AwaitedOpen'
      BY <1>s DEF BatchPending, Stored, SettledResolved, AwaitedOpen
    <2> QED
      BY <2>2, <2>3, <2>4 DEF Sound
  <1>8. CASE UNCHANGED vars
    <2> USE <1>8 DEF vars, sourceVars, reviewVars, bookVars, botVars, processVars
    <2>1. TypeOK'
      BY <1>t DEF TypeOK
    <2>2. RowsOrdered' /\ ApprovalKept'
      BY <1>t, <1>s, RowsFrame, ApprovalFrame
    <2>3. BatchPending' /\ SettledResolved' /\ AwaitedOpen'
      BY <1>s DEF BatchPending, Stored, SettledResolved, AwaitedOpen, Oldest
    <2> QED
      BY <2>1, <2>2, <2>3 DEF Sound
  <1> QED
    BY <1>1, <1>2, <1>3, <1>4, <1>5, <1>6, <1>7, <1>8 DEF Next, Cycle

\* Every reachable state is sound.
THEOREM AlwaysSound == Spec => []Sound
  <1>1. Init => Sound
    BY InitSound
  <1>2. Sound /\ [Next]_vars => Sound'
    BY StepSound
  <1> QED
    BY <1>1, <1>2, PTL DEF Spec

-----------------------------------------------------------------------------
\* The rows keep their types: no exit ever sells more shares than are held,
\* whatever happens while its order book is awaited.
THEOREM TypeCorrect == Spec => []TypeOK
  <1>1. Sound => TypeOK
    BY DEF Sound
  <1> QED
    BY <1>1, AlwaysSound, PTL

\* A paid position never comes back to life, for all markets and any order of
\* fills and resolutions.
THEOREM SettledForGood == Spec => []SettledStaysFlat
  <1>1. Sound => SettledStaysFlat
    BY DEF Sound, TypeOK, SettledResolved, SettledStaysFlat
  <1> QED
    BY <1>1, AlwaysSound, PTL

\* Nothing reaches the order book that was not made under the approval in force:
\* what lies after approved_at is what was made since the last approval.
THEOREM CopiesStayApproved == Spec => CopiedUnderItsApproval
  <1> DEFINE A == pc = "batch" /\ pc' = "fetch" =>
                    \A t \in batch : Oldest(t) => t \in copyable
  <1>1. ASSUME Sound, Next
        PROVE  A
    <2> SUFFICES ASSUME pc = "batch", pc' = "fetch", NEW s \in batch, Oldest(s)
                 PROVE  s \in copyable
      OBVIOUS
    <2>1. PICK t \in Trades : Fetch(t)
      BY <1>1 DEF Next, World, Tick, SourceTrade, Approve, Disable, MarketEnds, IngestPage,
         Cycle, Detect, Settle, Select, Execute, StopEarly, SkipAtGate, Defer, Fill,
         SkipAtBook, FetchFails, EndBatch, Crash, Record, botVars
    <2>2. Oldest(t) /\ t \in batch /\ WithinApproval(t)
      BY <2>1 DEF Fetch, Executing, Oldest, Tradable
    <2>3. s = t
      BY <1>1, <2>2, OldestUnique
    <2>4. t \in copyable
      BY <1>1, <2>2 DEF Sound, ApprovalKept, WithinApproval
    <2> QED
      BY <2>3, <2>4
  <1>2. Sound /\ [Next]_vars => [A]_vars
    BY <1>1
  <1>3. Spec => [][A]_vars
    BY <1>2, AlwaysSound, PTL DEF Spec
  <1> QED
    BY <1>3 DEF CopiedUnderItsApproval

\* The loop may end at the first signal inside its review delay: rows are in
\* the order of the clock, so whatever is behind it was seen no earlier.
THEOREM StoppingEarlyIsSound == Spec => StopEarlyHidesNothing
  <1> DEFINE A == \A t \in Trades : StopEarly(t) => \A s \in batch : ~Eligible(s)
  <1>1. ASSUME Sound
        PROVE  A
    <2> SUFFICES ASSUME NEW t \in Trades, StopEarly(t), NEW s \in batch
                 PROVE  ~Eligible(s)
      OBVIOUS
    <2>1. t \in batch /\ row[t] <= row[s] /\ ~Eligible(t)
      BY DEF StopEarly, Executing, Oldest
    <2>2. s \in Stored /\ t \in Stored
      BY <1>1, <2>1 DEF Sound, BatchPending
    <2>3. seenAt[t] <= seenAt[s]
      BY <1>1, <2>1, <2>2 DEF Sound, RowsOrdered
    <2>4. seenAt[t] \in Nat /\ seenAt[s] \in Nat /\ now \in Nat
      BY <1>1, <2>2 DEF Sound, TypeOK, Stored
    <2> QED
      BY <2>1, <2>3, <2>4, ExecutionAssumption DEF Eligible
  <1>2. Sound /\ [Next]_vars => [A]_vars
    BY <1>1
  <1>3. Spec => [][A]_vars
    BY <1>2, AlwaysSound, PTL DEF Spec
  <1> QED
    BY <1>3 DEF StopEarlyHidesNothing

-----------------------------------------------------------------------------
\* What CopyBook sees of the paper orders.
Decision == [t \in Trades |-> CASE order[t] = "none" -> "open"
                                [] order[t] = "filled" -> "copied"
                                [] OTHER -> "missed"]

\* A recorded verdict is a decision about an open trade, and about no other.
LEMMA RecordDecides ==
    ASSUME TypeOK, BatchPending, NEW t \in batch, NEW verdict \in {"filled", "missed"},
           Record(t, verdict)
    PROVE  /\ Decision[t] = "open"
           /\ Decision' = [Decision EXCEPT ![t] =
                              IF verdict = "filled" THEN "copied" ELSE "missed"]
  <1>1. t \in Trades /\ order[t] = "none"
    BY DEF BatchPending, Stored, TypeOK
  <1>2. order' = [order EXCEPT ![t] = verdict] /\ order \in [Trades -> {"none", "filled", "missed"}]
    BY DEF Record, TypeOK
  <1>3. Decision[t] = "open"
    BY <1>1 DEF Decision
  <1>4. Decision' = [Decision EXCEPT ![t] =
                       IF verdict = "filled" THEN "copied" ELSE "missed"]
    BY <1>1, <1>2 DEF Decision
  <1> QED
    BY <1>3, <1>4

\* Each step is one of CopyBook's or changes nothing that CopyBook sees.
LEMMA StepRefines ==
    ASSUME Sound, [Next]_vars
    PROVE  [Book!Next]_(Book!bookVars)
  <1>t. /\ TypeOK /\ RowsOrdered /\ BatchPending /\ SettledResolved /\ AwaitedOpen
    BY DEF Sound
  <1>1. CASE UNCHANGED <<order, shares, settled>>
    BY <1>1 DEF Book!bookVars
  <1>2. CASE Settle
    <2>1. /\ shares' = [p \in Positions |-> IF p \in Due THEN 0 ELSE shares[p]]
          /\ settled' = settled \union Due /\ order' = order
      BY <1>2 DEF Settle
    <2>2. Due \in SUBSET Positions /\ \A p \in Due : p \notin settled /\ shares[p] > 0
      BY DEF Due
    <2>3. Book!PayOut(Due)
      BY <2>1, <2>2 DEF Book!PayOut
    <2> QED
      BY <2>2, <2>3 DEF Book!Next
  <1>3. ASSUME NEW t \in Trades, SkipAtGate(t) \/ SkipAtBook(t)
        PROVE  Book!Next
    <2>1. t \in batch /\ Record(t, "missed") /\ UNCHANGED <<shares, settled>>
      BY <1>3 DEF SkipAtGate, SkipAtBook, Executing, Answered, Oldest
    <2>2. Decision[t] = "open" /\ Decision' = [Decision EXCEPT ![t] = "missed"]
      BY <1>t, <2>1, RecordDecides
    <2>3. Book!Miss(t)
      BY <2>1, <2>2 DEF Book!Miss, Decision
    <2> QED
      BY <2>3 DEF Book!Next
  <1>4. ASSUME NEW t \in Trades, Fill(t)
        PROVE  Book!Next
    <2> DEFINE p == PositionOf[t]
    <2>1. /\ t \in batch /\ Oldest(t) /\ pc = "fetch" /\ Record(t, "filled")
          /\ settled' = settled
      BY <1>4 DEF Fill, Answered, Oldest
    <2>2. Decision[t] = "open" /\ Decision' = [Decision EXCEPT ![t] = "copied"]
      BY <1>t, <2>1, RecordDecides
    <2>3. p \in Positions /\ p \notin settled /\ shares[p] \in Nat
      BY <1>t, <2>1, PositionTypes DEF AwaitedOpen, TypeOK
    <2>4. /\ IF t \in Buys THEN p \notin settled /\ shares'[p] > shares[p]
             ELSE shares'[p] \in 0..shares[p] - 1
          /\ shares' = [shares EXCEPT ![p] = shares'[p]]
      <3>1. CASE t \in Buys
        <4>1. PICK filled \in 1..MaxFill : shares' = [shares EXCEPT ![p] = shares[p] + filled]
          BY <1>4, <3>1 DEF Fill
        <4>2. shares'[p] = shares[p] + filled
          BY <1>t, <2>3, <4>1 DEF TypeOK
        <4>3. shares'[p] > shares[p]
          BY <2>3, <4>2, ExecutionAssumption
        <4>4. shares' = [shares EXCEPT ![p] = shares'[p]]
          BY <4>1, <4>2
        <4> HIDE DEF p
        <4> QED
          BY <2>3, <3>1, <4>3, <4>4
      <3>2. CASE t \notin Buys
        <4>1. PICK filled \in 1..shares[p] : shares' = [shares EXCEPT ![p] = shares[p] - filled]
          BY <1>4, <3>2 DEF Fill
        <4>2. shares'[p] = shares[p] - filled
          BY <1>t, <2>3, <4>1 DEF TypeOK
        <4>3. shares'[p] \in 0..shares[p] - 1
          BY <2>3, <4>2
        <4>4. shares' = [shares EXCEPT ![p] = shares'[p]]
          BY <4>1, <4>2
        <4> HIDE DEF p
        <4> QED
          BY <2>3, <3>2, <4>3, <4>4
      <3> QED
        BY <3>1, <3>2
    <2>5. Book!Copy(t)
      BY <2>1, <2>2, <2>4 DEF Book!Copy, Decision
    <2> QED
      BY <2>5 DEF Book!Next
  <1>5. \/ UNCHANGED <<order, shares, settled>>
        \/ Settle
        \/ \E t \in Trades : SkipAtGate(t) \/ SkipAtBook(t) \/ Fill(t)
    BY DEF Next, World, Tick, SourceTrade, Approve, Disable, MarketEnds, IngestPage,
       Cycle, Detect, Select, Execute, StopEarly, Defer, Fetch, FetchFails, EndBatch,
       Crash, vars, bookVars
  <1> QED
    BY <1>1, <1>2, <1>3, <1>4, <1>5

\* Paper execution implements CopyBook: for every wallet, market and trade, one
\* final decision, no exit beyond the holding, one payout for each holding.
THEOREM ExecutionImplementsCopyBook == Spec => ImplementsCopyBook
  <1>1. Init => Book!Init
    BY DEF Init, Book!Init
  <1>2. Sound /\ [Next]_vars => [Book!Next]_(Book!bookVars)
    BY StepRefines
  <1>3. Spec => Book!Spec
    BY <1>1, <1>2, AlwaysSound, PTL DEF Spec, Book!Spec
  <1> QED
    BY <1>3 DEF ImplementsCopyBook
=============================================================================
