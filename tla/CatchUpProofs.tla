----------------------------- MODULE CatchUpProofs -----------------------------
(***************************************************************************)
(* What CatchUp keeps, for any number of trades, any timing of the source, *)
(* any page size, budget and limit on offsets, and any number of failures. *)
(*                                                                         *)
(* The inductive invariant says how far a walk has come: a trade between   *)
(* the anchor and the head that is not kept yet lies in the walk's window, *)
(* behind its cursor, and no newer than the oldest second the walk has     *)
(* seen.  It holds of the checkpoint and of the walk in memory apart, as a *)
(* failure falls back from the second to the first.                        *)
(***************************************************************************)
EXTENDS CatchUp, FiniteSetTheorems, WellFoundedInduction, TLAPS

(* Pages. *)

\* Sets of numbers have a smallest member.
LEMMA SmallestMember ==
    ASSUME NEW S \in SUBSET Nat, S # {}
    PROVE  \E m \in S : \A s \in S : m <= s
  <1> DEFINE R == OpToRel(<, Nat)
  <1>1. IsWellFoundedOn(R, Nat)
    BY NatLessThanWellFounded
  <1>2. \A s, m \in S : s < m => <<s, m>> \in R
    BY DEF OpToRel
  <1> HIDE DEF R
  <1>3. PICK m \in S : \A s \in S : <<s, m>> \notin R
    BY <1>1, WFMin
  <1>4. \A s \in S : ~(s < m)
    BY <1>2, <1>3
  <1> QED
    BY <1>4

\* The trades that a window shows before t: their number is the offset of t.
Ahead(t, end) == {s \in {u \in 1..made : stamp[u] <= end} : s > t}
Rank(t, end) == Cardinality(Ahead(t, end))

\* The offset of a trade is a number.
LEMMA RankType ==
    ASSUME made \in Nat, NEW t, NEW end
    PROVE  IsFiniteSet(Ahead(t, end)) /\ Rank(t, end) \in Nat
  <1>1. IsFiniteSet(1..made)
    BY FS_Interval
  <1>2. Ahead(t, end) \in SUBSET (1..made)
    BY DEF Ahead
  <1>3. IsFiniteSet(Ahead(t, end))
    BY <1>1, <1>2, FS_Subset
  <1> QED
    BY <1>3, FS_CardinalityType DEF Rank

\* An older trade has a larger offset.
LEMMA RankFalls ==
    ASSUME made \in Nat, NEW end, NEW s \in Int, NEW t \in 1..made, s < t, stamp[t] <= end
    PROVE  Rank(t, end) < Rank(s, end)
  <1>1. Ahead(t, end) \in SUBSET Ahead(s, end)
    BY DEF Ahead
  <1>2. t \in Ahead(s, end) /\ t \notin Ahead(t, end)
    BY DEF Ahead
  <1>3. Rank(t, end) <= Rank(s, end) /\ Rank(t, end) # Rank(s, end)
    BY <1>1, <1>2, RankType, FS_Subset DEF Rank
  <1> QED
    BY <1>3, RankType

\* A page is the trades of its window with the offsets asked for, so no more than the limit.
LEMMA PageRows ==
    ASSUME made \in Nat, NEW end, NEW offset \in Nat, NEW limit \in Nat
    PROVE  /\ Page(end, offset, limit) \in SUBSET (1..made)
           /\ \A t \in 1..made : t \in Page(end, offset, limit) <=>
                  stamp[t] <= end /\ Rank(t, end) \in offset..offset + limit - 1
           /\ IsFiniteSet(Page(end, offset, limit))
           /\ Cardinality(Page(end, offset, limit)) \in 0..limit
  <1> DEFINE rows == Page(end, offset, limit)
             slots == offset..offset + limit - 1
             f == [t \in rows |-> Rank(t, end)]
  <1>1. /\ rows \in SUBSET (1..made)
        /\ \A t \in 1..made : t \in rows <=> stamp[t] <= end /\ Rank(t, end) \in slots
    BY DEF Page, Rank, Ahead
  <1> HIDE DEF rows
  <1>2. IsFiniteSet(slots) /\ Cardinality(slots) = limit
    BY FS_Interval
  <1>3. \A s, t \in rows : s # t => Rank(s, end) # Rank(t, end)
    <2> SUFFICES ASSUME NEW s \in rows, NEW t \in rows, s < t
                 PROVE  Rank(s, end) # Rank(t, end)
      BY <1>1
    <2>1. s \in Int /\ t \in 1..made /\ stamp[t] <= end
      BY <1>1
    <2>2. Rank(t, end) < Rank(s, end)
      BY <2>1, RankFalls
    <2> QED
      BY <2>2, RankType
  <1>4. f \in Injection(rows, slots)
    BY <1>1, <1>3 DEF Injection, IsInjective
  <1>5. IsFiniteSet(rows) /\ Cardinality(rows) <= limit
    BY <1>2, <1>4, FS_Injection
  <1>6. Cardinality(rows) \in Nat
    BY <1>5, FS_CardinalityType
  <1> QED
    BY <1>1, <1>5, <1>6 DEF rows


\* Storing rows keeps all of them, as trades or as quarantined.
LEMMA StoreKeeps ==
    ASSUME stored \subseteq Trades, quarantined \subseteq Trades,
           NEW rows \in SUBSET Trades, Store(rows)
    PROVE  /\ stored' \subseteq Trades /\ quarantined' \subseteq Trades
           /\ Kept' = Kept \union rows
  BY DEF Store, Kept

-----------------------------------------------------------------------------
(* Types. *)

\* A turn that judges or walks has a latest page; one that asks for older pages
\* has some left in its budget.
Active == pc \in {"judge", "page", "fetch", "record"}
Typed ==
    /\ TypeOK
    /\ made > 0
    /\ Active => top \in 1..made
    /\ pc \in {"fetch", "record"} => left > 0

\* The initial state is typed.
LEMMA InitTyped == Init => Typed
  <1> SUFFICES ASSUME Init
               PROVE  Typed
    OBVIOUS
  <1> USE CatchUpAssumption DEF Init
  <1>1. NoWindow \in Windows /\ Connected(1) \in Windows
    BY DEF NoWindow, Connected, Windows
  <1>2. saved \in Checkpoints
    <2>1. 0 \in 0..MaxTrades /\ 1 \in 0..MaxTrades
      OBVIOUS
    <2>2. /\ Checkpoint(Connected(1), 1, FALSE) \in Checkpoints
          /\ Checkpoint(NoWindow, 0, FALSE) \in Checkpoints
      BY <1>1, <2>1 DEF Checkpoints, Checkpoint
    <2>3. NoCheckpoint \in Checkpoints
      BY <2>2 DEF NoCheckpoint, Checkpoints
    <2> QED
      BY <2>2, <2>3
  <1>3. stored \subseteq Trades /\ quarantined \subseteq Trades
    BY DEF Trades
  <1>4. /\ stamp \in Stamps /\ made \in 0..MaxTrades /\ made > 0 /\ approved \in BOOLEAN
        /\ pc = "idle" /\ window = NoWindow /\ head \in 0..MaxTrades /\ top \in 0..MaxTrades
        /\ left \in 0..PagesPerCycle /\ result = "none" /\ failures \in Nat
        /\ since \in 0..MaxTrades
    OBVIOUS
  <1> HIDE DEF Init
  <1> QED
    BY <1>1, <1>2, <1>3, <1>4 DEF Typed, TypeOK, Active

\* The latest page is of trades.
LEMMA LatestRows ==
    ASSUME NEW n \in 1..MaxTrades
    PROVE  Latest(n) \in SUBSET Trades /\ n \in Latest(n)
  BY CatchUpAssumption DEF Latest, Trades

\* A window that begins at the latest page is a window.
LEMMA ResumeTyped ==
    ASSUME Typed, pc = "judge"
    PROVE  Resume \in Windows /\ LatestAnchor = top /\ stamp[top] \in Nat \ {0}
  <1>1. stamp \in [Trades -> Nat \ {0}] /\ top \in Trades /\ top > 0
    BY CatchUpAssumption DEF Typed, TypeOK, Active, Trades
  <1> QED
    BY <1>1, CatchUpAssumption DEF Typed, TypeOK, Resume, LatestAnchor, Windows, Trades

\* The step for an older page: where the window goes, and what is kept.
LEMMA OlderPageStep ==
    ASSUME Typed, OlderPage
    PROVE  LET limit == PageLimit
               rows == Page(window.end, window.offset, limit)
           IN /\ limit \in Nat /\ rows \in SUBSET (1..made)
              /\ \A t \in 1..made : t \in rows <=>
                     /\ stamp[t] <= window.end
                     /\ Rank(t, window.end) \in window.offset..window.offset + limit - 1
              /\ stored' \subseteq Trades /\ quarantined' \subseteq Trades
              /\ Kept' = Kept \union rows
              /\ window' \in Windows
              /\ window'.anchor = window.anchor /\ window'.end = window.end
              /\ window'.offset \in window.offset..window.offset + limit
              /\ rows = {} => window'.oldest = window.oldest
              /\ rows # {} => \E m \in rows : window'.oldest = stamp[m] /\ \A s \in rows : m <= s
  <1> DEFINE limit == PageLimit
             rows == Page(window.end, window.offset, limit)
  <1>1. window \in Windows /\ made \in Nat /\ 1..made \subseteq Trades
    BY CatchUpAssumption DEF Typed, TypeOK, Trades
  <1>2. window.offset \in 0..OffsetLimit /\ window.end \in Nat /\ window.oldest \in Nat
    BY <1>1 DEF Windows
  <1>3. limit \in Nat /\ window.offset + limit <= OffsetLimit
    BY <1>2, CatchUpAssumption DEF PageLimit
  <1>4. /\ rows \in SUBSET (1..made)
        /\ \A t \in 1..made : t \in rows <=>
               /\ stamp[t] <= window.end
               /\ Rank(t, window.end) \in window.offset..window.offset + limit - 1
        /\ Cardinality(rows) \in 0..limit
    <2> HIDE DEF limit
    <2>1. window.offset \in Nat
      BY <1>2
    <2> QED
      BY <1>1, <1>3, <2>1, PageRows
  <1> DEFINE n == Cardinality(rows)
             least == CHOOSE t \in rows : \A s \in rows : t <= s
             oldest == IF rows = {} THEN window.oldest ELSE stamp[least]
  <1>5. window' = [window EXCEPT !.offset = window.offset + n, !.oldest = oldest]
    BY DEF OlderPage
  <1>6. Store(rows)
    BY DEF OlderPage
  <1> HIDE DEF limit, rows
  <1>7. rows # {} => least \in rows /\ \A s \in rows : least <= s
    <2>1. rows \in SUBSET Nat
      BY <1>4
    <2>2. rows # {} => \E m \in rows : \A s \in rows : m <= s
      BY <2>1, SmallestMember
    <2> QED
      BY <2>2
  <1> HIDE DEF least
  <1>8. oldest \in Nat /\ (rows = {} => oldest = window.oldest)
        /\ (rows # {} => \E m \in rows : oldest = stamp[m] /\ \A s \in rows : m <= s)
    <2>1. stamp \in [Trades -> Nat \ {0}]
      BY CatchUpAssumption DEF Typed, TypeOK
    <2> QED
      BY <1>1, <1>2, <1>4, <1>7, <2>1
  <1>9. stored' \subseteq Trades /\ quarantined' \subseteq Trades /\ Kept' = Kept \union rows
    <2>1. rows \in SUBSET Trades
      BY <1>1, <1>4
    <2> QED
      BY <1>6, <2>1, StoreKeeps DEF Typed, TypeOK
  <1> HIDE DEF oldest, n
  <1>10. n \in 0..limit
    BY <1>4 DEF n
  <1>11. window.offset + n \in 0..OffsetLimit
    BY <1>2, <1>3, <1>10, CatchUpAssumption
  <1>12. /\ window' \in Windows
         /\ window'.anchor = window.anchor /\ window'.end = window.end
         /\ window'.offset = window.offset + n /\ window'.oldest = oldest
    BY <1>1, <1>5, <1>8, <1>11 DEF Windows
  <1>13. window'.offset \in window.offset..window.offset + limit
    BY <1>2, <1>3, <1>10, <1>12
  <1> QED
    BY <1>3, <1>4, <1>8, <1>9, <1>12, <1>13 DEF limit, rows


\* What a checkpoint holds.
LEMMA CheckpointFields ==
    ASSUME NEW w \in Windows, NEW h \in 0..MaxTrades, NEW open \in BOOLEAN
    PROVE  LET c == Checkpoint(w, h, open)
           IN /\ c \in Checkpoints
              /\ c.known /\ c.incomplete = open /\ c.head = h /\ c.window = w
  BY DEF Checkpoint, Checkpoints

\* What a window that is connected holds.
LEMMA ConnectedFields ==
    ASSUME NEW t \in 0..MaxTrades
    PROVE  Connected(t) \in Windows /\ Connected(t).anchor = t
  BY CatchUpAssumption DEF Connected, NoWindow, Windows

\* A turn that ends is typed.
LEMMA IdleTyped ==
    ASSUME Typed, Idle, UNCHANGED <<stamp, made, approved, storeVars, since>>,
           saved' \in Checkpoints, failures' \in Nat
    PROVE  Typed'
  <1>1. NoWindow \in Windows /\ 0 \in 0..MaxTrades /\ 0 \in 0..PagesPerCycle
    BY CatchUpAssumption DEF NoWindow, Windows
  <1> QED
    BY <1>1 DEF Typed, TypeOK, Idle, Active, storeVars

\* Every step keeps the types.
LEMMA StepTyped ==
    ASSUME Typed, [Next]_vars
    PROVE  Typed'
  <1>1. MaxTrades \in Nat \ {0} /\ PagesPerCycle \in Nat \ {0} /\ OffsetLimit \in Nat \ {0}
    BY CatchUpAssumption
  <1> USE <1>1
  <1>2. /\ saved.window \in Windows /\ saved.head \in 0..MaxTrades
        /\ LatestAnchor \in 0..MaxTrades /\ Connected(LatestAnchor) \in Windows
    <2>1. LatestAnchor \in 0..MaxTrades
      BY DEF Typed, TypeOK, Windows, LatestAnchor
    <2> QED
      BY <2>1, ConnectedFields DEF Typed, TypeOK, Checkpoints
  <1>3. CASE SourceTrade
    BY <1>3 DEF Typed, TypeOK, Active, SourceTrade, runVars, storeVars
  <1>4. CASE Approve \/ Disable
    <2>1. since' \in 0..MaxTrades /\ approved' \in BOOLEAN
      BY <1>4 DEF Typed, TypeOK, Approve, Disable
    <2>2. UNCHANGED <<sourceVars, storeVars, saved, pc, runVars, failures>>
      BY <1>4 DEF Approve, Disable
    <2> QED
      BY <2>1, <2>2 DEF Typed, TypeOK, Active, runVars, storeVars, sourceVars
  <1>5. CASE Begin
    BY <1>5 DEF Typed, TypeOK, Active, Begin, runVars, storeVars, sourceVars
  <1>6. CASE Poll
    <2>1. stored' \subseteq Trades /\ quarantined' \subseteq Trades
      BY <1>6, LatestRows, StoreKeeps DEF Poll, Typed, TypeOK
    <2> QED
      BY <1>6, <2>1 DEF Typed, TypeOK, Active, Poll, runVars, sourceVars
  <1>7. CASE Tail
    <2>1. stored' \subseteq Trades /\ quarantined' \subseteq Trades
      BY <1>7, LatestRows, StoreKeeps DEF Tail, Typed, TypeOK
    <2>2. PICK t \in 0..MaxTrades : window' = [saved.window EXCEPT !.anchor = t]
      BY <1>7 DEF Tail
    <2>3. window' \in Windows
      BY <1>2, <2>2 DEF Windows
    <2> QED
      BY <1>7, <2>1, <2>3 DEF Typed, TypeOK, Active, Tail, sourceVars
  <1>8. CASE NoGap
    <2>1. saved' \in Checkpoints
      BY <1>2, <1>8, CheckpointFields DEF NoGap, Typed, TypeOK
    <2> QED
      BY <1>8, <2>1, IdleTyped DEF NoGap, Typed, TypeOK, sourceVars
  <1>9. CASE Recover
    <2>1. window' \in Windows
      BY <1>9, ResumeTyped DEF Recover
    <2>2. head' \in 0..MaxTrades
      BY <1>2, <1>9 DEF Recover
    <2>3. saved' \in Checkpoints
      BY <1>9, <2>1, <2>2, CheckpointFields DEF Recover
    <2>4. PagesPerCycle \in 0..PagesPerCycle
      OBVIOUS
    <2>5. /\ UNCHANGED <<sourceVars, approved, storeVars, top, result, failures, since>>
          /\ pc = "judge" /\ pc' = "page" /\ left' = PagesPerCycle
      BY <1>9 DEF Recover
    <2> QED
      BY <2>1, <2>2, <2>3, <2>4, <2>5 DEF Typed, TypeOK, Active, sourceVars, storeVars
  <1>10. CASE GiveUp
    <2>1. saved' \in Checkpoints
      BY <1>10, CheckpointFields DEF GiveUp, Typed, TypeOK
    <2> QED
      BY <1>10, <2>1, IdleTyped DEF GiveUp, Typed, TypeOK, sourceVars
  <1>11. CASE Roll
    <2>1. window' \in Windows
      <3>1. window \in Windows /\ window' = [window EXCEPT !.end = window.oldest, !.offset = 0]
        BY <1>11 DEF Roll, Typed, TypeOK
      <3>2. 0 \in 0..OffsetLimit /\ window.oldest \in Nat
        BY <3>1 DEF Windows
      <3> QED
        BY <3>1, <3>2 DEF Windows
    <2>2. saved' \in Checkpoints
      BY <1>11, <2>1, CheckpointFields DEF Roll, Typed, TypeOK
    <2> QED
      BY <1>11, <2>1, <2>2 DEF Typed, TypeOK, Active, Roll, sourceVars, storeVars
  <1>12. CASE OlderPage
    <2>1. stored' \subseteq Trades /\ quarantined' \subseteq Trades /\ window' \in Windows
      BY <1>12, OlderPageStep
    <2>2. /\ UNCHANGED <<stamp, made, approved, saved, head, top, left, failures, since>>
          /\ pc' = "record" /\ result' \in {"connected", "short", "full"}
          /\ pc = "fetch" \/ (pc = "page" /\ left > 0)
      BY <1>12 DEF OlderPage, sourceVars
    <2> QED
      BY <2>1, <2>2 DEF Typed, TypeOK, Active
  <1>13. CASE Progress
    <2>1. saved' \in Checkpoints
      BY <1>13, CheckpointFields DEF Progress, Typed, TypeOK
    <2>2. left' \in 0..PagesPerCycle
      BY <1>13 DEF Progress, Typed, TypeOK
    <2>3. /\ UNCHANGED <<sourceVars, approved, storeVars, window, head, top, result, failures>>
          /\ UNCHANGED since /\ pc = "record" /\ pc' = "page"
      BY <1>13 DEF Progress
    <2> QED
      BY <2>1, <2>2, <2>3 DEF Typed, TypeOK, Active, sourceVars, storeVars
  <1>14. CASE CaughtUp
    <2>1. saved' \in Checkpoints
      BY <1>2, <1>14, CheckpointFields DEF CaughtUp, Typed, TypeOK
    <2> QED
      BY <1>14, <2>1, IdleTyped DEF CaughtUp, Typed, TypeOK, sourceVars
  <1>15. CASE NextWindow
    <2>1. head \in 0..MaxTrades /\ stamp[top] \in Nat
      BY <1>15, CatchUpAssumption DEF NextWindow, Typed, TypeOK, Active, Trades
    <2>2. [anchor |-> head, end |-> stamp[top], offset |-> 0, oldest |-> 0] \in Windows
      BY <2>1 DEF Windows
    <2>3. saved' \in Checkpoints
      BY <1>2, <1>15, <2>2, CheckpointFields DEF NextWindow
    <2> QED
      BY <1>15, <2>3, IdleTyped DEF NextWindow, Typed, TypeOK, sourceVars
  <1>16. CASE EndOfBudget \/ Fail
    BY <1>16, IdleTyped DEF EndOfBudget, Fail, Typed, TypeOK, sourceVars
  <1>17. CASE UNCHANGED vars
    BY <1>17 DEF Typed, TypeOK, Active, vars, runVars, sourceVars, storeVars
  <1> QED
    BY <1>3, <1>6, <1>7, <1>8, <1>9, <1>10, <1>11, <1>12, <1>13, <1>14, <1>15, <1>16, <1>17, <1>5,
        <1>4 DEF Next, Turn

\* The variables have their types in every state.
THEOREM TypeCorrect == Spec => []TypeOK
  <1>1. Spec => []Typed
    BY InitTyped, StepTyped, PTL DEF Spec
  <1>2. Typed => TypeOK
    BY DEF Typed
  <1> QED
    BY <1>1, <1>2, PTL


-----------------------------------------------------------------------------
(* How far a walk has come. *)

\* Trades up to the head that are not kept yet are still ahead of the walk.
Reaches(w, h) ==
    /\ w.anchor < h /\ h <= made
    /\ \A t \in (w.anchor + 1..h) \ Kept :
           /\ stamp[t] <= w.end
           /\ Rank(t, w.end) >= w.offset
           /\ w.oldest # 0 => stamp[t] <= w.oldest

\* The checkpoint: nothing is missing up to its anchor, and its walk reaches the rest.
Connects ==
    /\ saved.known /\ since = 1
    /\ saved.window.anchor \in 1..made
    /\ 1..saved.window.anchor \subseteq Kept
    /\ saved.incomplete => Reaches(saved.window, saved.head)

\* The turn in progress: it goes by the checkpoint's anchor, and has stored the
\* latest page; its walk reaches the rest, and has met the anchor only over kept trades.
Walks ==
    /\ Active => /\ window.anchor = saved.window.anchor /\ window.anchor <= top
                 /\ Latest(top) \subseteq Kept
    /\ pc = "judge" => window = saved.window /\ (saved.incomplete => saved.head <= top)
    /\ pc \in {"page", "fetch", "record"} => Gap /\ head <= top /\ Reaches(window, head)
    /\ pc = "record" /\ result = "connected" => window.anchor..head \subseteq Kept

Walking == Typed /\ Connects /\ Walks

\* The initial state of a wallet with a checkpoint.
LEMMA InitWalking ==
    ASSUME Checkpointed, Init
    PROVE  Walking
  <1>1. 1 \in 0..MaxTrades /\ made = 1 /\ stored = {1}
    BY CatchUpAssumption DEF Init
  <1>2. saved = Checkpoint(Connected(1), 1, FALSE)
    BY DEF Init
  <1>3. saved.known /\ ~saved.incomplete /\ saved.window.anchor = 1
    BY <1>2 DEF Checkpoint, Connected, NoWindow
  <1>4. since = 1 /\ pc = "idle"
    BY DEF Init
  <1>5. Connects /\ Walks
    BY <1>1, <1>3, <1>4 DEF Connects, Walks, Active, Kept
  <1> QED
    BY <1>5, InitTyped DEF Walking

\* Trades are made and stored, never unmade or lost.
Grows == stamp' = stamp /\ made' >= made /\ Kept \subseteq Kept'

\* New trades come before those a walk has left, so the walk still reaches them.
LEMMA ReachStays ==
    ASSUME Typed, Typed', Grows, NEW w \in Windows, NEW h \in 0..MaxTrades, Reaches(w, h)
    PROVE  Reaches(w, h)'
  <1>1. made \in Nat /\ made' \in Nat
    BY CatchUpAssumption DEF Typed, TypeOK
  <1>2. ASSUME NEW t \in Int
        PROVE  Rank(t, w.end)' >= Rank(t, w.end)
    <2>1. IsFiniteSet(1..made')
      BY <1>1, FS_Interval
    <2>2. Ahead(t, w.end)' \in SUBSET (1..made')
      BY DEF Ahead
    <2>3. IsFiniteSet(Ahead(t, w.end)')
      BY <2>1, <2>2, FS_Subset
    <2>4. Ahead(t, w.end) \in SUBSET (Ahead(t, w.end)')
      BY <1>1 DEF Ahead, Grows
    <2>5. Cardinality(Ahead(t, w.end)) <= Cardinality(Ahead(t, w.end)')
      BY <2>3, <2>4, FS_Subset
    <2> QED
      BY <2>5 DEF Rank
  <1>3. w.anchor \in Int /\ w.offset \in Int /\ h \in Int
    BY CatchUpAssumption DEF Windows
  <1>4. w.anchor < h /\ h <= made'
    BY <1>1, <1>3 DEF Reaches, Grows
  <1>5. ASSUME NEW t \in w.anchor + 1..h, t \notin Kept'
        PROVE  /\ stamp'[t] <= w.end /\ Rank(t, w.end)' >= w.offset
               /\ w.oldest # 0 => stamp'[t] <= w.oldest
    <2>1. /\ t \in Int /\ stamp[t] <= w.end /\ Rank(t, w.end) >= w.offset
          /\ w.oldest # 0 => stamp[t] <= w.oldest
      BY <1>3, <1>5 DEF Reaches, Grows
    <2>2. Rank(t, w.end) \in Int /\ Rank(t, w.end)' \in Int
      <3>1. IsFiniteSet(1..made') /\ Ahead(t, w.end)' \in SUBSET (1..made')
        BY <1>1, FS_Interval DEF Ahead
      <3>2. Cardinality(Ahead(t, w.end)') \in Nat
        BY <3>1, FS_Subset, FS_CardinalityType
      <3> QED
        BY <1>1, <3>2, RankType DEF Rank
    <2> QED
      BY <1>2, <1>3, <2>1, <2>2 DEF Grows
  <1> QED
    BY <1>4, <1>5 DEF Reaches

\* A walk that begins at the latest page reaches everything above its anchor.
LEMMA FreshReaches ==
    ASSUME Typed, Active, NEW a \in 0..MaxTrades, a < top
    PROVE  Reaches([anchor |-> a, end |-> stamp[top], offset |-> 0, oldest |-> 0], top)
  <1>1. top \in 1..made /\ made \in 0..MaxTrades /\ MaxTrades \in Nat
    BY CatchUpAssumption DEF Typed, TypeOK
  <1>2. ASSUME NEW t \in a + 1..top
        PROVE  stamp[t] <= stamp[top]
    <2>1. t \in Trades /\ top \in Trades /\ t <= top
      BY <1>1 DEF Trades
    <2> QED
      BY <2>1, CatchUpAssumption DEF Typed, TypeOK
  <1>3. ASSUME NEW t
        PROVE  Rank(t, stamp[top]) >= 0
    BY <1>1, RankType
  <1> QED
    BY <1>1, <1>2, <1>3 DEF Reaches

\* What the latest page adds to trades kept up to one that is on it.
LEMMA LatestConnects ==
    ASSUME Typed, Active, Latest(top) \subseteq Kept,
           NEW h \in Latest(top), 1..h \subseteq Kept
    PROVE  1..top \subseteq Kept
  <1>1. top \in 1..made /\ made \in 0..MaxTrades /\ MaxTrades \in Nat /\ PageSize \in Nat
    BY CatchUpAssumption DEF Typed, TypeOK
  <1>2. h \in Trades /\ top - PageSize < h /\ h <= top
    BY DEF Latest
  <1>3. ASSUME NEW t \in 1..top, ~(t <= h)
        PROVE  t \in Latest(top)
    BY <1>1, <1>2, <1>3 DEF Latest, Trades
  <1> QED
    BY <1>1, <1>2, <1>3 DEF Trades


-----------------------------------------------------------------------------
(* Every step keeps the walk's reach and moves the anchor forward only. *)

Forward == Walking' /\ saved.window.anchor <= saved'.window.anchor

\* A step that leaves the checkpoint alone leaves it sound.
LEMMA ConnectsStays ==
    ASSUME Typed, Typed', Connects, Grows, UNCHANGED <<saved, since>>
    PROVE  Connects' /\ saved.window.anchor <= saved'.window.anchor
  <1>1. PICK w \in Windows, h \in 0..MaxTrades : w = saved.window /\ h = saved.head
    BY DEF Typed, TypeOK, Checkpoints
  <1>2. Reaches(w, h) => Reaches(w, h)'
    BY ReachStays
  <1>3. w.anchor \in Int /\ made \in Int /\ made' \in Int
    BY CatchUpAssumption DEF Typed, TypeOK, Windows
  <1>4. w.anchor \in 1..made' /\ 1..w.anchor \subseteq Kept'
    BY <1>1, <1>3 DEF Connects, Grows
  <1>5. saved'.window = w /\ saved'.head = h
    BY <1>1
  <1> QED
    BY <1>1, <1>2, <1>3, <1>4, <1>5 DEF Connects

\* A new checkpoint is sound when its anchor and its walk are.
LEMMA ConnectsAnew ==
    ASSUME Connects, since' = since, NEW w \in Windows, NEW h \in 0..MaxTrades,
           NEW open \in BOOLEAN, saved' = Checkpoint(w, h, open),
           saved.window.anchor <= w.anchor, w.anchor \in 1..made', 1..w.anchor \subseteq Kept',
           open = FALSE \/ Reaches(w, h)'
    PROVE  Connects' /\ saved.window.anchor <= saved'.window.anchor
  <1>1. /\ saved'.known /\ saved'.incomplete = open /\ saved'.head = h /\ saved'.window = w
    BY DEF Checkpoint
  <1> QED
    BY <1>1 DEF Connects

\* The source, the approval, the cycle and a wallet that is only polled.
LEMMA OthersForward ==
    ASSUME Walking, Typed', SourceTrade \/ Approve \/ Disable \/ Begin \/ Poll
    PROVE  Forward
  <1> USE DEF Walking
  <1>1. made' >= made /\ stamp' = stamp /\ UNCHANGED <<saved, since>>
    BY CatchUpAssumption DEF SourceTrade, Approve, Disable, Begin, Poll, sourceVars, Typed,
       TypeOK, Connects
  <1>2. Kept \subseteq Kept'
    <2>1. CASE Poll
      BY <2>1, LatestRows, StoreKeeps DEF Poll, Typed, TypeOK
    <2>2. CASE ~Poll
      BY <2>2 DEF SourceTrade, Approve, Disable, Begin, storeVars, Kept
    <2> QED
      BY <2>1, <2>2
  <1>3. Connects' /\ saved.window.anchor <= saved'.window.anchor
    BY <1>1, <1>2, ConnectsStays DEF Grows
  <1>4. Walks'
    <2>1. CASE Begin \/ Poll
      BY <2>1 DEF Begin, Poll, Walks, Active
    <2>2. CASE SourceTrade \/ Approve \/ Disable
      <3>1. /\ UNCHANGED <<saved, pc, window, head, top, result, storeVars>>
        BY <2>2 DEF SourceTrade, Approve, Disable, runVars
      <3>2. PICK w \in Windows, h \in 0..MaxTrades : w = window /\ h = head
        BY DEF Typed, TypeOK
      <3>3. Reaches(w, h) => Reaches(w, h)'
        BY <1>1, <1>2, ReachStays DEF Grows
      <3>4. (Gap => Gap') /\ (Active' => Active) /\ Latest(top)' = Latest(top)
        BY <3>1 DEF Gap, Active, Latest
      <3>5. window' = w /\ head' = h
        BY <3>1, <3>2
      <3> QED
        BY <1>2, <3>1, <3>2, <3>3, <3>4, <3>5 DEF Walks
    <2> QED
      BY <2>1, <2>2
  <1> QED
    BY <1>3, <1>4 DEF Forward

\* A turn that ends where it is: its budget is spent, or it fails.
LEMMA EndForward ==
    ASSUME Walking, Typed', EndOfBudget \/ Fail
    PROVE  Forward
  <1>1. /\ Grows /\ UNCHANGED <<saved, since>>
    BY CatchUpAssumption
       DEF EndOfBudget, Fail, Grows, Kept, sourceVars, storeVars, Walking, Typed, TypeOK
  <1>2. Connects' /\ saved.window.anchor <= saved'.window.anchor
    BY <1>1, ConnectsStays DEF Walking
  <1>3. Walks'
    BY DEF EndOfBudget, Fail, Idle, Walks, Active
  <1> QED
    BY <1>2, <1>3 DEF Forward, Walking

\* The latest page.
LEMMA TailForward ==
    ASSUME Walking, Typed', Tail
    PROVE  Forward
  <1> USE DEF Walking
  <1>1. made' = made /\ stamp' = stamp /\ UNCHANGED <<saved, since>> /\ top' = made
    BY DEF Tail, sourceVars
  <1>2. made \in 1..MaxTrades /\ made \in Int
    BY CatchUpAssumption DEF Typed, TypeOK
  <1>3. Kept' = Kept \union Latest(made)
    BY <1>2, LatestRows, StoreKeeps DEF Tail, Typed, TypeOK
  <1>4. Connects' /\ saved.window.anchor <= saved'.window.anchor
    BY <1>1, <1>2, <1>3, ConnectsStays DEF Grows
  <1>5. window' = saved.window
    <2>1. saved.window \in Windows /\ saved.window.anchor # 0
      BY DEF Typed, TypeOK, Checkpoints, Connects
    <2>2. window' = [saved.window EXCEPT !.anchor = saved.window.anchor]
      BY <2>1 DEF Tail, Anchor
    <2> QED
      BY <2>1, <2>2 DEF Windows
  <1>6. pc' = "judge"
    BY DEF Tail
  <1>7. Latest(top') \subseteq Kept'
    BY <1>1, <1>3
  <1>8. saved.window.anchor <= made /\ (saved.incomplete => saved.head <= made)
    BY DEF Connects, Reaches
  <1> QED
    BY <1>1, <1>4, <1>5, <1>6, <1>7, <1>8 DEF Forward, Walks, Latest


\* The latest page meets the anchor: everything up to its newest trade is kept.
LEMMA NoGapForward ==
    ASSUME Walking, Typed', NoGap
    PROVE  Forward
  <1> USE DEF Walking
  <1>1. /\ pc = "judge" /\ ~Gap /\ Idle /\ Grows /\ since' = since /\ made' = made
        /\ Kept' = Kept
    BY CatchUpAssumption DEF NoGap, sourceVars, storeVars, Kept, Grows, Typed, TypeOK
  <1>2. Active /\ window = saved.window /\ saved.window.anchor \in 1..made
        /\ saved.window.anchor <= top /\ 1..saved.window.anchor \subseteq Kept
    BY <1>1 DEF Active, Walks, Connects
  <1>3. LatestAnchor = top /\ top \in 1..made /\ made \in 0..MaxTrades /\ MaxTrades \in Nat
    BY <1>1, ResumeTyped, CatchUpAssumption DEF Typed, TypeOK, Active
  <1>4. 1..top \subseteq Kept
    <2>1. saved.window.anchor \in Latest(top)
      BY <1>1, <1>2 DEF Gap
    <2> QED
      BY <1>2, <2>1, LatestConnects DEF Walks
  <1>5. Connects' /\ saved.window.anchor <= saved'.window.anchor
    <2>1. CASE saved' = saved
      BY <1>1, <2>1, ConnectsStays
    <2>2. CASE saved' = Checkpoint(Connected(top), top, FALSE)
      <3>1. PICK t \in 0..MaxTrades : t = top
        BY <1>3
      <3>2. Connected(t) \in Windows /\ Connected(t).anchor = t
        BY ConnectedFields
      <3>3. saved' = Checkpoint(Connected(t), t, FALSE)
        BY <2>2, <3>1
      <3>4. t \in 1..made' /\ 1..t \subseteq Kept' /\ saved.window.anchor <= t
        BY <1>1, <1>2, <1>3, <1>4, <3>1
      <3> QED
        BY <1>1, <3>2, <3>3, <3>4, ConnectsAnew
    <2> QED
      BY <1>3, <2>1, <2>2 DEF NoGap
  <1> QED
    BY <1>1, <1>5 DEF Forward, Walks, Idle, Active

\* Steps that only checkpoint the walk in memory, which reaches the rest.
LEMMA CheckpointForward ==
    ASSUME Walking, Grows, made' = made, since' = since,
           NEW w \in Windows, NEW h \in 0..MaxTrades, saved' = Checkpoint(w, h, TRUE),
           w.anchor = saved.window.anchor, Reaches(w, h)'
    PROVE  Connects' /\ saved.window.anchor <= saved'.window.anchor
  <1>1. w.anchor \in 1..made' /\ w.anchor \in Int
    BY CatchUpAssumption DEF Walking, Connects, Windows
  <1>2. 1..w.anchor \subseteq Kept'
    BY DEF Walking, Connects, Grows
  <1>3. saved.window.anchor <= w.anchor
    BY <1>1
  <1>4. \E open \in BOOLEAN : open = TRUE /\ saved' = Checkpoint(w, h, open)
    OBVIOUS
  <1>5. Connects /\ TRUE \in BOOLEAN
    BY DEF Walking
  <1> QED
    BY <1>1, <1>2, <1>3, <1>4, <1>5, ConnectsAnew

\* The walk begins, or goes on from its checkpoint.
LEMMA RecoverForward ==
    ASSUME Walking, Typed', Recover
    PROVE  Forward
  <1> USE DEF Walking
  <1>1. /\ pc = "judge" /\ Gap /\ pc' = "page" /\ UNCHANGED <<stamp, made, top, since>>
        /\ Grows /\ Kept' = Kept /\ window' = Resume /\ saved' = Checkpoint(window', head', TRUE)
        /\ head' = IF ~saved.incomplete \/ saved.head \in Latest(top)
                   THEN LatestAnchor ELSE saved.head
    BY CatchUpAssumption DEF Recover, sourceVars, storeVars, Kept, Grows, Typed, TypeOK
  <1>2. /\ Active /\ window = saved.window /\ saved.window.anchor \in 1..made
        /\ saved.window.anchor <= top /\ Latest(top) \subseteq Kept
        /\ saved.incomplete => saved.head <= top /\ Reaches(saved.window, saved.head)
    BY <1>1 DEF Active, Walks, Connects
  <1>3. /\ LatestAnchor = top /\ top \in 1..made /\ made \in 0..MaxTrades
        /\ MaxTrades \in Nat /\ PageSize \in Nat \ {0}
        /\ saved.window.anchor \in 0..MaxTrades /\ saved.window.anchor # 0
    BY <1>1, <1>2, ResumeTyped, CatchUpAssumption DEF Typed, TypeOK, Active
  <1>4. saved.window.anchor < top
    <2>1. top \in Latest(top)
      BY <1>3, LatestRows
    <2> QED
      BY <1>1, <1>2, <1>3, <2>1 DEF Gap
  <1>5. /\ window'.anchor = saved.window.anchor /\ head' <= top
        /\ Reaches(window', head')
    <2>1. CASE ~saved.incomplete
      <3>1. /\ window' = [anchor |-> saved.window.anchor, end |-> stamp[top],
                          offset |-> 0, oldest |-> 0]
            /\ head' = top
        BY <1>1, <1>2, <1>3, <2>1 DEF Resume
      <3>2. Reaches(window', head')
        BY <1>2, <1>3, <1>4, <3>1, FreshReaches
      <3> QED
        BY <1>3, <3>1, <3>2
    <2>2. CASE saved.incomplete /\ saved.head \notin Latest(top)
      BY <1>1, <1>2, <2>2 DEF Resume
    <2>3. CASE saved.incomplete /\ saved.head \in Latest(top)
      <3>1. window' = saved.window /\ head' = top
        BY <1>1, <1>2, <1>3, <2>3 DEF Resume
      <3>2. saved.head \in Trades /\ top - PageSize < saved.head /\ saved.head <= top
        BY <2>3 DEF Latest
      <3>3. ASSUME NEW t \in (saved.window.anchor + 1..top) \ Kept
            PROVE  t \in (saved.window.anchor + 1..saved.head) \ Kept
        <4>1. t \notin Latest(top) /\ t \in Trades /\ t <= top
          BY <1>2, <1>3, <3>3 DEF Trades
        <4>2. t \in Int /\ top \in Int /\ saved.head \in Int /\ ~(top - PageSize < t)
          BY <1>3, <3>2, <4>1 DEF Latest, Trades
        <4> QED
          BY <1>3, <3>2, <3>3, <4>2
      <3>4. Reaches(saved.window, top)
        BY <1>2, <1>3, <1>4, <2>3, <3>3 DEF Reaches
      <3> QED
        BY <1>3, <3>1, <3>4
    <2> QED
      BY <2>1, <2>2, <2>3
  <1>6. PICK w \in Windows, h \in 0..MaxTrades : w = window' /\ h = head'
    BY DEF Typed, TypeOK
  <1>7. Reaches(w, h)'
    BY <1>1, <1>5, <1>6, ReachStays
  <1>8. Connects' /\ saved.window.anchor <= saved'.window.anchor
    BY <1>1, <1>5, <1>6, <1>7, CheckpointForward
  <1>9. saved'.window.anchor = saved.window.anchor
    BY <1>1, <1>5 DEF Checkpoint
  <1>10. Gap'
    BY <1>1, <1>2, <1>5 DEF Gap, Latest
  <1>11. Latest(top)' \subseteq Kept'
    BY <1>1, <1>2 DEF Latest
  <1> QED
    BY <1>1, <1>2, <1>5, <1>6, <1>7, <1>8, <1>9, <1>10, <1>11 DEF Forward, Walks

\* The walk is given up for this turn.
LEMMA GiveUpForward ==
    ASSUME Walking, Typed', GiveUp
    PROVE  Forward
  <1> USE DEF Walking
  <1>1. /\ pc = "page" /\ Idle /\ UNCHANGED <<stamp, made, since>> /\ Grows
        /\ saved' = Checkpoint(window, head, TRUE)
    BY CatchUpAssumption DEF GiveUp, sourceVars, storeVars, Kept, Grows, Typed, TypeOK
  <1>2. Reaches(window, head) /\ window.anchor = saved.window.anchor
    BY <1>1 DEF Walks, Active
  <1>3. PICK w \in Windows, h \in 0..MaxTrades : w = window /\ h = head
    BY DEF Typed, TypeOK
  <1>4. Reaches(w, h)'
    BY <1>1, <1>2, <1>3, ReachStays
  <1>5. Connects' /\ saved.window.anchor <= saved'.window.anchor
    BY <1>1, <1>2, <1>3, <1>4, CheckpointForward
  <1> QED
    BY <1>1, <1>5 DEF Forward, Walks, Idle, Active

\* The window is rolled to the oldest second seen: what is left is no newer.
LEMMA RollForward ==
    ASSUME Walking, Typed', Roll
    PROVE  Forward
  <1> USE DEF Walking
  <1>1. /\ pc = "page" /\ pc' = "fetch" /\ UNCHANGED <<stamp, made, since, head, top>> /\ Grows
        /\ Kept' = Kept /\ saved' = Checkpoint(window', head', TRUE) /\ Narrowable
        /\ window' = [window EXCEPT !.end = window.oldest, !.offset = 0]
    BY CatchUpAssumption DEF Roll, sourceVars, storeVars, Kept, Grows, Typed, TypeOK
  <1>2. /\ Reaches(window, head) /\ window.anchor = saved.window.anchor /\ Gap /\ head <= top
        /\ Latest(top) \subseteq Kept /\ window.anchor <= top
    BY <1>1 DEF Walks, Active
  <1>3. /\ window'.anchor = window.anchor /\ window'.end = window.oldest
        /\ window'.offset = 0 /\ window'.oldest = window.oldest /\ window.oldest # 0
    BY <1>1 DEF Typed, TypeOK, Windows, Narrowable
  <1>4. \A t : Rank(t, window'.end) >= 0
    BY CatchUpAssumption, RankType DEF Typed, TypeOK
  <1>5. Reaches(window', head')
    BY <1>1, <1>2, <1>3, <1>4 DEF Reaches
  <1>6. PICK w \in Windows, h \in 0..MaxTrades : w = window' /\ h = head'
    BY DEF Typed, TypeOK
  <1>7. Reaches(w, h)'
    BY <1>1, <1>5, <1>6, ReachStays
  <1>8. Connects' /\ saved.window.anchor <= saved'.window.anchor
    BY <1>1, <1>2, <1>3, <1>6, <1>7, CheckpointForward
  <1>9. saved'.window.anchor = saved.window.anchor
    BY <1>1, <1>2, <1>3 DEF Checkpoint
  <1>10. Gap' /\ Latest(top)' \subseteq Kept'
    BY <1>1, <1>2, <1>3 DEF Gap, Latest
  <1> QED
    BY <1>1, <1>2, <1>3, <1>6, <1>7, <1>8, <1>9, <1>10 DEF Forward, Walks


\* A page is stored: what is left lies behind it, or nothing is left if it met the anchor.
LEMMA OlderPageForward ==
    ASSUME Walking, Typed', OlderPage
    PROVE  Forward
  <1> USE DEF Walking
  <1>1. /\ pc' = "record" /\ pc \in {"page", "fetch"}
        /\ UNCHANGED <<stamp, made, saved, since, head, top>>
    BY DEF OlderPage, sourceVars
  <1>2. PICK rows \in SUBSET (1..made), limit \in Nat :
            /\ rows = Page(window.end, window.offset, limit) /\ limit = PageLimit
            /\ \A t \in 1..made : t \in rows <=>
                   /\ stamp[t] <= window.end
                   /\ Rank(t, window.end) \in window.offset..window.offset + limit - 1
            /\ Kept' = Kept \union rows
            /\ window' \in Windows
            /\ window'.anchor = window.anchor /\ window'.end = window.end
            /\ window'.offset \in window.offset..window.offset + limit
            /\ rows = {} => window'.oldest = window.oldest
            /\ rows # {} => \E m \in rows : window'.oldest = stamp[m] /\ \A s \in rows : m <= s
    BY OlderPageStep
  <1>3. /\ Reaches(window, head) /\ window.anchor = saved.window.anchor /\ Gap /\ head <= top
        /\ Latest(top) \subseteq Kept /\ window.anchor <= top /\ head <= made
        /\ saved.window.anchor \in 1..made
    BY <1>1 DEF Walks, Active, Reaches, Connects
  <1>4. /\ made \in Nat /\ head \in Int /\ window.anchor \in Nat /\ window.offset \in Nat
        /\ window.end \in Nat /\ 1..made \subseteq Trades
    BY CatchUpAssumption DEF Typed, TypeOK, Windows, Trades
  <1>5. ASSUME NEW t \in (window.anchor + 1..head) \ Kept, t \notin rows
        PROVE  /\ stamp[t] <= window.end /\ Rank(t, window.end) >= window.offset + limit
               /\ window'.oldest # 0 => stamp[t] <= window'.oldest
    <2>1. /\ t \in 1..made /\ stamp[t] <= window.end /\ Rank(t, window.end) >= window.offset
          /\ window.oldest # 0 => stamp[t] <= window.oldest
      BY <1>3, <1>4 DEF Reaches
    <2>2. Rank(t, window.end) \in Nat
      BY <1>4, RankType
    <2>3. Rank(t, window.end) >= window.offset + limit
      BY <1>2, <1>4, <1>5, <2>1, <2>2
    <2>4. ASSUME NEW m \in rows
          PROVE  stamp[t] <= stamp[m]
      <3>1. m \in 1..made /\ stamp[m] <= window.end /\ m # t
        BY <1>2, <1>5
      <3>2. Rank(m, window.end) < window.offset + limit /\ Rank(m, window.end) \in Nat
        BY <1>2, <1>4, <3>1, RankType
      <3>3. ~(m < t)
        <4> SUFFICES ASSUME m < t
                     PROVE  FALSE
          OBVIOUS
        <4>1. m \in Int
          BY <3>1
        <4>2. Rank(t, window.end) < Rank(m, window.end)
          BY <1>4, <2>1, <4>1, RankFalls
        <4> QED
          BY <1>4, <2>2, <2>3, <3>2, <4>2
      <3>4. t \in Trades /\ m \in Trades /\ t <= m
        BY <1>4, <2>1, <3>1, <3>3
      <3> QED
        BY <3>4, CatchUpAssumption DEF Typed, TypeOK
    <2> QED
      BY <1>2, <2>1, <2>3, <2>4
  <1>6. Reaches(window, head)'
    <2>1. ASSUME NEW t \in (window'.anchor + 1..head') \ Kept'
          PROVE  /\ stamp'[t] <= window'.end /\ Rank(t, window.end)' >= window'.offset
                 /\ window'.oldest # 0 => stamp'[t] <= window'.oldest
      <3>1. t \in (window.anchor + 1..head) \ Kept /\ t \notin rows
        BY <1>1, <1>2
      <3>2. Rank(t, window.end)' = Rank(t, window.end)
        BY <1>1, <1>2 DEF Rank, Ahead
      <3>3. window'.offset <= window.offset + limit /\ window'.offset \in Nat
        BY <1>2, <1>4
      <3>4. Rank(t, window.end) \in Nat
        BY <1>4, RankType
      <3> QED
        BY <1>1, <1>2, <1>4, <1>5, <3>1, <3>2, <3>3, <3>4
    <2> QED
      BY <1>1, <1>2, <1>3, <2>1 DEF Reaches
  <1>7. result' = "connected" => window.anchor..head \subseteq Kept'
    <2> SUFFICES ASSUME window.anchor \in rows, NEW t \in window.anchor + 1..head,
                        t \notin Kept, t \notin rows
                 PROVE  FALSE
      BY <1>2, <1>3, <1>4 DEF OlderPage
    <2>1. /\ Rank(window.anchor, window.end) < window.offset + limit
          /\ Rank(window.anchor, window.end) \in Nat
      BY <1>2, <1>4, RankType
    <2>2. t \in 1..made /\ window.anchor < t /\ stamp[t] <= window.end
      BY <1>3, <1>4, <1>5
    <2>3. Rank(t, window.end) < Rank(window.anchor, window.end)
      BY <1>4, <2>2, RankFalls
    <2>4. Rank(t, window.end) >= window.offset + limit /\ Rank(t, window.end) \in Nat
      BY <1>4, <1>5, RankType
    <2> QED
      BY <1>2, <1>4, <2>1, <2>3, <2>4
  <1>8. Connects' /\ saved.window.anchor <= saved'.window.anchor
    BY <1>1, <1>2, <1>4, ConnectsStays DEF Grows
  <1>9. Gap' /\ Latest(top)' \subseteq Kept'
    BY <1>1, <1>2, <1>3 DEF Gap, Latest
  <1>10. window'.anchor..head' = window.anchor..head /\ saved'.window = saved.window
    BY <1>1, <1>2
  <1> QED
    BY <1>1, <1>2, <1>3, <1>6, <1>7, <1>8, <1>9, <1>10 DEF Forward, Walks

\* The place of a page that did not meet the anchor.
LEMMA ProgressForward ==
    ASSUME Walking, Typed', Progress
    PROVE  Forward
  <1> USE DEF Walking
  <1>1. /\ pc = "record" /\ pc' = "page" /\ UNCHANGED <<stamp, made, since, window, head, top>>
        /\ Grows /\ Kept' = Kept /\ saved' = Checkpoint(window, head, TRUE)
    BY CatchUpAssumption DEF Progress, sourceVars, storeVars, Kept, Grows, Typed, TypeOK
  <1>2. /\ Reaches(window, head) /\ window.anchor = saved.window.anchor /\ Gap /\ head <= top
        /\ Latest(top) \subseteq Kept /\ window.anchor <= top
    BY <1>1 DEF Walks, Active
  <1>3. PICK w \in Windows, h \in 0..MaxTrades : w = window /\ h = head
    BY DEF Typed, TypeOK
  <1>4. Reaches(w, h)'
    BY <1>1, <1>2, <1>3, ReachStays
  <1>5. Connects' /\ saved.window.anchor <= saved'.window.anchor
    BY <1>1, <1>2, <1>3, <1>4, CheckpointForward
  <1>6. saved'.window.anchor = saved.window.anchor /\ window' = w /\ head' = h
    BY <1>1, <1>2, <1>3 DEF Checkpoint
  <1>7. Gap' /\ Latest(top)' \subseteq Kept'
    BY <1>1, <1>2 DEF Gap, Latest
  <1> QED
    BY <1>1, <1>2, <1>3, <1>4, <1>5, <1>6, <1>7 DEF Forward, Walks

\* A walk that met its anchor has kept everything up to its head.
LEMMA MetAnchor ==
    ASSUME Walking, pc = "record", result = "connected"
    PROVE  /\ 1..head \subseteq Kept /\ head \in 1..made /\ top \in 1..made /\ head <= top
           /\ saved.window.anchor < head /\ LatestAnchor = top
           /\ made \in 0..MaxTrades /\ MaxTrades \in Nat /\ Latest(top) \subseteq Kept
           /\ saved.window.anchor \in Nat
  <1>1. /\ window.anchor..head \subseteq Kept /\ window.anchor = saved.window.anchor
        /\ head <= top /\ window.anchor < head /\ head <= made /\ Latest(top) \subseteq Kept
    BY DEF Walking, Walks, Active, Reaches
  <1>2. /\ 1..window.anchor \subseteq Kept /\ window.anchor \in 1..made
        /\ made \in 0..MaxTrades /\ MaxTrades \in Nat /\ head \in 0..MaxTrades /\ top \in 1..made
    BY <1>1, CatchUpAssumption DEF Walking, Connects, Typed, TypeOK, Active
  <1>3. 1..head \subseteq Kept /\ head \in 1..made
    BY <1>1, <1>2
  <1>4. LatestAnchor = top
    BY <1>2 DEF LatestAnchor
  <1> QED
    BY <1>1, <1>2, <1>3, <1>4

\* The latest page meets the head: everything up to its newest trade is kept.
LEMMA CaughtUpForward ==
    ASSUME Walking, Typed', CaughtUp
    PROVE  Forward
  <1> USE DEF Walking
  <1>1. /\ pc = "record" /\ result = "connected" /\ Idle /\ since' = since /\ made' = made
        /\ Kept' = Kept /\ head \in Latest(top)
        /\ saved' = Checkpoint(Connected(LatestAnchor), head, FALSE)
    BY DEF CaughtUp, sourceVars, storeVars, Kept, HeadConnected
  <1>2. /\ 1..head \subseteq Kept /\ head \in 1..made /\ top \in 1..made /\ head <= top
        /\ saved.window.anchor < head /\ LatestAnchor = top /\ saved.window.anchor \in Nat
        /\ made \in 0..MaxTrades /\ MaxTrades \in Nat /\ Latest(top) \subseteq Kept
    BY <1>1, MetAnchor
  <1>3. 1..top \subseteq Kept
    BY <1>1, <1>2, LatestConnects DEF Active
  <1>4. PICK t \in 0..MaxTrades, h \in 0..MaxTrades : t = top /\ h = head
    BY <1>2
  <1>5. Connected(t) \in Windows /\ Connected(t).anchor = t
    BY ConnectedFields
  <1>6. /\ saved' = Checkpoint(Connected(t), h, FALSE) /\ t \in 1..made'
        /\ 1..t \subseteq Kept' /\ saved.window.anchor <= t
    BY <1>1, <1>2, <1>3, <1>4
  <1>7. Connects' /\ saved.window.anchor <= saved'.window.anchor
    BY <1>1, <1>5, <1>6, ConnectsAnew
  <1> QED
    BY <1>1, <1>7 DEF Forward, Walks, Idle, Active

\* It does not: the next walk's anchor is the head.
LEMMA NextWindowForward ==
    ASSUME Walking, Typed', NextWindow
    PROVE  Forward
  <1> USE DEF Walking
  <1>1. /\ pc = "record" /\ result = "connected" /\ Idle /\ UNCHANGED <<stamp, made, since>>
        /\ Grows /\ Kept' = Kept /\ head \notin Latest(top)
        /\ saved' = Checkpoint([anchor |-> head, end |-> stamp[top], offset |-> 0,
                                oldest |-> 0], LatestAnchor, TRUE)
    BY CatchUpAssumption
       DEF NextWindow, sourceVars, storeVars, Kept, HeadConnected, Grows, Typed, TypeOK
  <1>2. /\ 1..head \subseteq Kept /\ head \in 1..made /\ top \in 1..made /\ head <= top
        /\ saved.window.anchor < head /\ LatestAnchor = top /\ saved.window.anchor \in Nat
        /\ made \in 0..MaxTrades /\ MaxTrades \in Nat
    BY <1>1, MetAnchor
  <1>3. head < top
    <2>1. top \in Latest(top)
      BY <1>2, LatestRows
    <2> QED
      BY <1>1, <1>2, <2>1
  <1>4. stamp[top] \in Nat
    BY <1>2, CatchUpAssumption DEF Typed, TypeOK, Trades
  <1>5. PICK w \in Windows, h \in 0..MaxTrades :
            /\ w = [anchor |-> head, end |-> stamp[top], offset |-> 0, oldest |-> 0]
            /\ h = top
    <2>1. head \in 0..MaxTrades /\ top \in 0..MaxTrades /\ 0 \in 0..OffsetLimit
      BY <1>2, CatchUpAssumption
    <2> QED
      BY <1>4, <2>1 DEF Windows
  <1>6. Reaches(w, h)
    <2>1. Active /\ head \in 0..MaxTrades
      BY <1>1, <1>2 DEF Active
    <2> QED
      BY <1>3, <1>5, <2>1, FreshReaches
  <1>7. Reaches(w, h)'
    BY <1>1, <1>6, ReachStays
  <1>8. saved' = Checkpoint(w, h, TRUE) /\ w.anchor = head
    BY <1>1, <1>2, <1>5
  <1>9. Connects' /\ saved.window.anchor <= saved'.window.anchor
    <2>1. w.anchor \in 1..made' /\ 1..w.anchor \subseteq Kept' /\ saved.window.anchor <= w.anchor
      BY <1>1, <1>2, <1>8
    <2>2. \E open \in BOOLEAN : open = TRUE /\ saved' = Checkpoint(w, h, open)
      BY <1>8
    <2> QED
      BY <1>1, <1>7, <2>1, <2>2, ConnectsAnew
  <1> QED
    BY <1>1, <1>9 DEF Forward, Walks, Idle, Active


\* Every step keeps the invariant and leaves the anchor or moves it forward.
LEMMA StepForward ==
    ASSUME Walking, [Next]_vars
    PROVE  Forward
  <1>1. Typed'
    BY StepTyped DEF Walking
  <1>2. CASE UNCHANGED vars
    <2> USE <1>2 DEF vars, sourceVars, storeVars, runVars
    <2>1. \A w, h : Reaches(w, h)' = Reaches(w, h)
      BY DEF Reaches, Rank, Ahead, Kept
    <2>2. Connects'
      BY <2>1 DEF Walking, Connects, Kept
    <2>3. Walks'
      BY <2>1 DEF Walking, Walks, Active, Gap, Latest, Kept
    <2>4. Walking'
      BY <1>1, <2>2, <2>3 DEF Walking
    <2>5. saved.window.anchor <= saved'.window.anchor
      BY <1>2, CatchUpAssumption DEF Walking, Typed, TypeOK, Connects, vars
    <2> QED
      BY <2>4, <2>5 DEF Forward
  <1>3. CASE Turn
    BY <1>1, <1>3, OthersForward, TailForward, NoGapForward, RecoverForward, GiveUpForward,
       RollForward, OlderPageForward, ProgressForward, CaughtUpForward, NextWindowForward,
       EndForward DEF Turn
  <1> QED
    BY <1>1, <1>2, <1>3, OthersForward, EndForward DEF Next

\* For a wallet that starts with a checkpoint, no trade up to the anchor of a checkpoint
\* that says caught up is ever missing.  (A wallet without one is another matter: the
\* run CatchUp_first shows what its first turn can lose.)
THEOREM NothingIsMissing ==
    ASSUME Checkpointed
    PROVE  Spec => []NothingMissing
  <1>1. Walking => NothingMissing
    BY CatchUpAssumption DEF Walking, Connects, NothingMissing
  <1>2. Walking /\ [Next]_vars => Walking'
    BY StepForward DEF Forward
  <1> QED
    BY <1>1, <1>2, InitWalking, PTL DEF Spec

\* For such a wallet, the anchor only moves forward, and only over trades that are kept.
THEOREM AnchorMovesForward ==
    ASSUME Checkpointed
    PROVE  Spec => AnchorMovesOverKept
  <1> DEFINE A == LET old == saved.window.anchor
                      new == saved'.window.anchor
                  IN saved.known /\ new # old => old < new /\ old..new \subseteq Kept'
  <1>1. Walking /\ [Next]_vars => [A]_vars
    <2> SUFFICES ASSUME Walking, [Next]_vars, saved'.window.anchor # saved.window.anchor
                 PROVE  /\ saved.window.anchor < saved'.window.anchor
                        /\ saved.window.anchor..saved'.window.anchor \subseteq Kept'
      OBVIOUS
    <2>1. /\ saved.window.anchor <= saved'.window.anchor
          /\ 1..saved'.window.anchor \subseteq Kept' /\ saved'.window.anchor \in Int
          /\ saved.window.anchor \in Nat \ {0}
      BY StepForward, CatchUpAssumption DEF Forward, Walking, Connects, Typed, TypeOK
    <2> QED
      BY <2>1
  <1>2. Walking /\ [Next]_vars => Walking'
    BY StepForward DEF Forward
  <1>3. Spec => [][A]_vars
    BY <1>1, <1>2, InitWalking, PTL DEF Spec
  <1> QED
    BY <1>3 DEF AnchorMovesOverKept
=============================================================================
