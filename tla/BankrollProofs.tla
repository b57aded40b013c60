--------------------------- MODULE BankrollProofs ---------------------------
(***************************************************************************)
(* The bankroll's properties for every stake, cap, set of amounts and      *)
(* settings.  Sound is the inductive invariant: what holds of the          *)
(* committed columns holds of the session's view of them as well, and each *)
(* phase of the cycle remembers what it has checked.                       *)
(***************************************************************************)
EXTENDS Bankroll, TLAPS

\* What both the database and the session's view satisfy.
Columned(a) ==
    /\ a \in Columns
    /\ a.realized % 2 = 0 /\ a.withdrawn % 2 = 0
    /\ a.withdrawn >= 0
Covered(a) == Cash(a) >= -a.dust
Agrees(a) ==
    Abs(a.ledgerPnl - a.realized) + Abs(a.ledgerOut - a.withdrawn) <= 2 * a.dust
Capped(a) == a.cost <= MaxExposure + a.dust
Good(a) == Columned(a) /\ Covered(a) /\ Agrees(a) /\ Capped(a)

\* What each phase knows of the two.
Phases ==
    /\ pc = "settle" => tx.withdrawn = db.withdrawn /\ tx.cost <= db.cost
    /\ pc \in {"execute", "buying", "sweep"} => tx = db
    /\ pc = "buying" => locked /\ cashSeen = Cash(db) /\ ~StopLossHit(db)
    /\ pc = "close" /\ swept > 0 =>
          db.withdrawn < tx.withdrawn /\ tx.withdrawn <= tx.realized
    /\ pc = "close" => tx.cost = db.cost

Sound == TypeOK /\ Good(db) /\ Good(tx) /\ Phases

-----------------------------------------------------------------------------
\* Storing moves an amount by its error, to a stored value.
LEMMA StoredNear ==
    ASSUME NEW x \in Int
    PROVE  /\ Stored(x) \in Int /\ Stored(x) % 2 = 0
           /\ Err(x) \in {0, 1}
           /\ Stored(x) <= x + Err(x) /\ x <= Stored(x) + Err(x)
           /\ x >= 0 => Stored(x) >= x
  BY DEF Stored, Err

\* A total that is a stored value takes over the error of what is added.
LEMMA EvenPlus ==
    ASSUME NEW x \in Int, NEW y \in Int, x % 2 = 0
    PROVE  Err(x + y) = Err(y)
  BY DEF Err

\* Moving two integers apart by d moves their distance by d at most.
LEMMA Drift ==
    ASSUME NEW x \in Int, NEW y \in Int, NEW x1 \in Int, NEW y1 \in Int, NEW d \in Nat,
           x1 - y1 <= x - y + d, x - y <= x1 - y1 + d
    PROVE  Abs(x1 - y1) <= Abs(x - y) + d
  BY DEF Abs

\* Columns, seen from outside.
LEMMA ColumnTypes ==
    ASSUME NEW a \in Columns
    PROVE  /\ a.realized \in Int /\ a.withdrawn \in Int /\ a.pending \in BOOLEAN
           /\ a.cost \in Nat /\ a.ledgerPnl \in Int /\ a.ledgerOut \in Int
           /\ a.dust \in Nat
  BY DEF Columns

\* Realizing amount after closing a position of the given basis, for a payout
\* that is not negative, keeps every bound and the withdrawn total.
LEMMA PostKeepsGood ==
    ASSUME NEW a, Good(a), NEW basis \in Nat, NEW payout \in Nat, basis <= a.cost
    PROVE  LET b == Post([a EXCEPT !.cost = @ - basis], payout - basis) IN
           /\ Good(b)
           /\ b.withdrawn = a.withdrawn /\ b.cost <= a.cost
  <1> DEFINE c == [a EXCEPT !.cost = @ - basis]
             x == payout - basis
             b == Post(c, x)
  <1>1. a \in Columns /\ a.realized % 2 = 0 /\ a.withdrawn % 2 = 0 /\ a.withdrawn >= 0
    BY DEF Good, Columned
  <1>2. /\ a.realized \in Int /\ a.withdrawn \in Int /\ a.pending \in BOOLEAN
        /\ a.cost \in Nat /\ a.ledgerPnl \in Int /\ a.ledgerOut \in Int
        /\ a.dust \in Nat
    BY <1>1, ColumnTypes
  <1>3. x \in Int
    OBVIOUS
  <1>4. Err(a.realized + x) = Err(x)
    BY <1>1, <1>2, <1>3, EvenPlus
  <1>5. /\ Stored(a.realized + x) \in Int /\ Stored(a.realized + x) % 2 = 0
        /\ Stored(a.realized + x) <= a.realized + x + Err(x)
        /\ a.realized + x <= Stored(a.realized + x) + Err(x)
    BY <1>2, <1>3, <1>4, StoredNear
  <1>6. /\ Stored(x) \in Int /\ Err(x) \in {0, 1}
        /\ Stored(x) <= x + Err(x) /\ x <= Stored(x) + Err(x)
    BY <1>3, StoredNear
  <1>7. /\ b \in Columns
        /\ b.realized = Stored(a.realized + x)
        /\ b.withdrawn = a.withdrawn
        /\ b.cost = a.cost - basis
        /\ b.ledgerPnl = a.ledgerPnl + Stored(x)
        /\ b.ledgerOut = a.ledgerOut
        /\ b.dust = a.dust + Err(x)
    <2>1. /\ c \in Columns
          /\ c.realized = a.realized /\ c.withdrawn = a.withdrawn
          /\ c.cost = a.cost - basis /\ c.ledgerPnl = a.ledgerPnl
          /\ c.ledgerOut = a.ledgerOut /\ c.dust = a.dust
      BY <1>1, <1>2 DEF Columns
    <2>2. /\ Stored(c.realized + x) \in Int /\ c.ledgerPnl + Stored(x) \in Int
          /\ c.dust + Err(x) \in Nat
      BY <2>1, <1>2, <1>5, <1>6
    <2> DEFINE r == Stored(c.realized + x)
               l == c.ledgerPnl + Stored(x)
               d == c.dust + Err(x)
    <2>3. b = [c EXCEPT !.realized = r, !.ledgerPnl = l, !.dust = d]
      BY DEF Post
    <2>4. c \in Columns /\ r \in Int /\ l \in Int /\ d \in Nat
      BY <2>1, <2>2
    <2> HIDE DEF b, c, x, r, l, d
    <2>5. /\ b \in Columns
          /\ b.realized = r /\ b.ledgerPnl = l /\ b.dust = d
          /\ b.withdrawn = c.withdrawn /\ b.cost = c.cost
          /\ b.ledgerOut = c.ledgerOut
      BY <2>3, <2>4 DEF Columns
    <2> QED
      BY <2>1, <2>5 DEF r, l, d
  <1> HIDE DEF b, x
  <1>8. Columned(b)
    BY <1>1, <1>5, <1>7 DEF Columned
  <1>9. Covered(b)
    <2>1. Starting + a.realized - a.withdrawn - a.cost >= -a.dust
      BY <1>2, MoneyAssumption DEF Good, Covered, Cash, Balance
    <2>2. a.realized + (payout - basis) <= b.realized + Err(x)
      BY <1>5, <1>7 DEF x
    <2>3. b.realized \in Int /\ Err(x) \in Int
      BY <1>5, <1>6, <1>7
    <2>4. Starting + b.realized - a.withdrawn - (a.cost - basis) >= -(a.dust + Err(x))
      BY <2>1, <2>2, <2>3, <1>2, MoneyAssumption
    <2> QED
      BY <2>3, <2>4, <1>2, <1>7, MoneyAssumption DEF Covered, Cash, Balance
  <1>10. Agrees(b)
    <2> DEFINE d == IF Err(x) = 1 THEN 2 ELSE 0
    <2>1. Abs(b.ledgerPnl - b.realized) <= Abs(a.ledgerPnl - a.realized) + 2 * Err(x)
      <3>1. b.ledgerPnl \in Int /\ b.realized \in Int /\ 2 * Err(x) \in Nat
        BY <1>2, <1>5, <1>6, <1>7
      <3>2. /\ b.ledgerPnl - b.realized <= a.ledgerPnl - a.realized + 2 * Err(x)
            /\ a.ledgerPnl - a.realized <= b.ledgerPnl - b.realized + 2 * Err(x)
        BY <1>2, <1>3, <1>5, <1>6, <1>7
      <3> QED
        BY <3>1, <3>2, <1>2, Drift
    <2>2. Abs(b.ledgerOut - b.withdrawn) = Abs(a.ledgerOut - a.withdrawn)
      BY <1>7
    <2>3. Abs(a.ledgerPnl - a.realized) + Abs(a.ledgerOut - a.withdrawn) <= 2 * a.dust
      BY DEF Good, Agrees
    <2>4. /\ Abs(a.ledgerPnl - a.realized) \in Nat /\ Abs(a.ledgerOut - a.withdrawn) \in Nat
          /\ Abs(b.ledgerPnl - b.realized) \in Nat
      BY <1>2, <1>5, <1>6, <1>7 DEF Abs
    <2> QED
      BY <2>1, <2>2, <2>3, <2>4, <1>2, <1>6, <1>7 DEF Agrees
  <1>11. Capped(b)
    <2>1. a.cost <= MaxExposure + a.dust
      BY DEF Good, Capped
    <2> QED
      BY <2>1, <1>2, <1>6, <1>7, MoneyAssumption DEF Capped
  <1> QED
    BY <1>2, <1>7, <1>8, <1>9, <1>10, <1>11 DEF Good, b, x

\* A sweep of part of the un-withdrawn profit that free cash covers keeps every
\* bound and takes what no earlier sweep took.
LEMMA WithdrawKeepsGood ==
    ASSUME NEW a, Good(a), NEW s \in Nat, s > 0, s <= Pile(a), s <= AtLeast0(Cash(a))
    PROVE  LET b == Withdraw(a, s) IN
           /\ Good(b)
           /\ b.cost = a.cost
           /\ a.withdrawn < b.withdrawn /\ b.withdrawn <= b.realized
  <1> DEFINE b == Withdraw(a, s)
             w == Stored(a.withdrawn + s)
             l == a.ledgerOut + Stored(s)
             d == a.dust + Err(s)
             p == s < Pile(a)
  <1>1. a \in Columns /\ a.realized % 2 = 0 /\ a.withdrawn % 2 = 0 /\ a.withdrawn >= 0
    BY DEF Good, Columned
  <1>2. /\ a.realized \in Int /\ a.withdrawn \in Int /\ a.pending \in BOOLEAN
        /\ a.cost \in Nat /\ a.ledgerPnl \in Int /\ a.ledgerOut \in Int
        /\ a.dust \in Nat
    BY <1>1, ColumnTypes
  <1>3. s <= a.realized - a.withdrawn
    BY <1>2 DEF Pile, AtLeast0
  <1>4. Cash(a) \in Int /\ s <= Cash(a)
    BY <1>2, MoneyAssumption DEF Cash, Balance, AtLeast0
  <1>5. Err(a.withdrawn + s) = Err(s)
    BY <1>1, <1>2, EvenPlus
  <1>6. /\ w \in Int /\ w % 2 = 0
        /\ w <= a.withdrawn + s + Err(s) /\ a.withdrawn + s <= w + Err(s)
        /\ a.withdrawn + s <= w
    BY <1>1, <1>2, <1>5, StoredNear
  <1>7. /\ Stored(s) \in Int /\ Err(s) \in {0, 1}
        /\ Stored(s) <= s + Err(s) /\ s <= Stored(s) + Err(s)
    BY StoredNear
  <1>8. w <= a.realized
    BY <1>1, <1>2, <1>3, <1>6 DEF Stored
  <1>9. l \in Int /\ d \in Nat /\ p \in BOOLEAN
    BY <1>2, <1>7
  <1>10. b = [a EXCEPT !.withdrawn = w, !.pending = p, !.ledgerOut = l, !.dust = d]
    BY DEF Withdraw
  <1> HIDE DEF b, p
  <1>11. /\ b \in Columns
         /\ b.withdrawn = w /\ b.ledgerOut = l /\ b.dust = d
         /\ b.realized = a.realized /\ b.cost = a.cost /\ b.ledgerPnl = a.ledgerPnl
    <2> HIDE DEF w, l, d
    <2> QED
      BY <1>1, <1>6, <1>9, <1>10 DEF Columns
  <1>12. Columned(b)
    BY <1>1, <1>2, <1>6, <1>11 DEF Columned
  <1>13. Covered(b)
    <2>1. Starting + a.realized - w - a.cost >= -d
      BY <1>2, <1>4, <1>6, <1>7, MoneyAssumption DEF Cash, Balance
    <2> QED
      BY <2>1, <1>2, <1>6, <1>9, <1>11, MoneyAssumption DEF Covered, Cash, Balance
  <1>14. Agrees(b)
    <2>1. Abs(l - w) <= Abs(a.ledgerOut - a.withdrawn) + 2 * Err(s)
      <3>1. 2 * Err(s) \in Nat
        BY <1>7
      <3>2. /\ l - w <= a.ledgerOut - a.withdrawn + 2 * Err(s)
            /\ a.ledgerOut - a.withdrawn <= l - w + 2 * Err(s)
        BY <1>2, <1>6, <1>7
      <3> HIDE DEF l, w
      <3> QED
        BY <3>1, <3>2, <1>2, <1>6, <1>9, Drift
    <2>2. Abs(a.ledgerPnl - a.realized) + Abs(a.ledgerOut - a.withdrawn) <= 2 * a.dust
      BY DEF Good, Agrees
    <2>3. /\ Abs(a.ledgerPnl - a.realized) \in Nat /\ Abs(a.ledgerOut - a.withdrawn) \in Nat
          /\ Abs(l - w) \in Nat
      BY <1>2, <1>6, <1>9 DEF Abs
    <2>4. 2 * d = 2 * a.dust + 2 * Err(s)
      BY <1>2, <1>7
    <2>5. Abs(a.ledgerPnl - a.realized) + Abs(l - w) <= 2 * d
      <3> HIDE DEF d, l, w
      <3> QED
        BY <2>1, <2>2, <2>3, <2>4, <1>2, <1>7, <1>9
    <2> QED
      BY <2>5, <1>11 DEF Agrees
  <1>15. Capped(b)
    BY <1>2, <1>7, <1>11, MoneyAssumption DEF Good, Capped
  <1>16. a.withdrawn < w
    BY <1>2, <1>6
  <1> QED
    BY <1>8, <1>11, <1>12, <1>13, <1>14, <1>15, <1>16 DEF Good, b

\* A BUY whose exact cost fits the cap and the cash keeps every bound.
LEMMA BuyKeepsGood ==
    ASSUME NEW a, Good(a), NEW spend \in Nat, NEW slip \in Int,
           spend <= Cash(a), a.cost + spend <= MaxExposure,
           a.cost + spend + slip >= 0
    PROVE  LET b == [a EXCEPT !.cost = a.cost + spend + slip,
                              !.dust = a.dust + Abs(slip)] IN
           Good(b) /\ b.withdrawn = a.withdrawn
  <1> DEFINE k == a.cost + spend + slip
             d == a.dust + Abs(slip)
             b == [a EXCEPT !.cost = k, !.dust = d]
  <1>1. a \in Columns
    BY DEF Good, Columned
  <1>2. /\ a.realized \in Int /\ a.withdrawn \in Int /\ a.pending \in BOOLEAN
        /\ a.cost \in Nat /\ a.ledgerPnl \in Int /\ a.ledgerOut \in Int
        /\ a.dust \in Nat
    BY <1>1, ColumnTypes
  <1>3. Abs(slip) \in Nat /\ slip <= Abs(slip)
    BY DEF Abs
  <1>4. k \in Nat /\ d \in Nat /\ a.dust <= d
    BY <1>2, <1>3
  <1>5. /\ b \in Columns
        /\ b.withdrawn = a.withdrawn /\ b.ledgerOut = a.ledgerOut /\ b.dust = d
        /\ b.realized = a.realized /\ b.cost = k /\ b.ledgerPnl = a.ledgerPnl
    <2> HIDE DEF k, d
    <2> QED
      BY <1>1, <1>4 DEF Columns
  <1> HIDE DEF b
  <1>6. Columned(b)
    BY <1>5 DEF Good, Columned
  <1>7. Covered(b)
    <2>1. Starting + a.realized - a.withdrawn - k >= -d
      BY <1>2, <1>3, MoneyAssumption DEF Cash, Balance
    <2> QED
      BY <2>1, <1>2, <1>4, <1>5, MoneyAssumption DEF Covered, Cash, Balance
  <1>8. Agrees(b)
    <2>1. /\ Abs(a.ledgerPnl - a.realized) \in Nat /\ Abs(a.ledgerOut - a.withdrawn) \in Nat
      BY <1>2 DEF Abs
    <2>2. Abs(a.ledgerPnl - a.realized) + Abs(a.ledgerOut - a.withdrawn) <= 2 * a.dust
      BY DEF Good, Agrees
    <2> HIDE DEF d
    <2>3. Abs(a.ledgerPnl - a.realized) + Abs(a.ledgerOut - a.withdrawn) <= 2 * d
      BY <2>1, <2>2, <1>2, <1>4
    <2> QED
      BY <2>3, <1>5 DEF Agrees
  <1>9. Capped(b)
    BY <1>2, <1>3, <1>5, MoneyAssumption DEF Capped
  <1> QED
    BY <1>5, <1>6, <1>7, <1>8, <1>9 DEF Good, b

\* Clearing sweep_pending moves no money.
LEMMA ClearKeepsGood ==
    ASSUME NEW a, Good(a)
    PROVE  LET b == [a EXCEPT !.pending = FALSE] IN
           Good(b) /\ b.cost = a.cost /\ b.withdrawn = a.withdrawn
  <1> DEFINE b == [a EXCEPT !.pending = FALSE]
  <1>1. a \in Columns
    BY DEF Good, Columned
  <1>2. /\ b \in Columns
        /\ b.withdrawn = a.withdrawn /\ b.ledgerOut = a.ledgerOut /\ b.dust = a.dust
        /\ b.realized = a.realized /\ b.cost = a.cost /\ b.ledgerPnl = a.ledgerPnl
    BY <1>1 DEF Columns
  <1> HIDE DEF b
  <1> QED
    BY <1>2 DEF Good, Columned, Covered, Agrees, Capped, Cash, Balance, b

-----------------------------------------------------------------------------
\* A fresh account is sound.
LEMMA InitSound ==
    ASSUME Init
    PROVE  Sound
  <1>1. /\ db \in Columns /\ tx = db
        /\ db.realized = 0 /\ db.withdrawn = 0 /\ db.cost = 0
        /\ db.ledgerPnl = 0 /\ db.ledgerOut = 0 /\ db.dust = 0
    BY DEF Init, Columns
  <1>2. TypeOK
    <2>1. /\ limit \in Limits /\ floor \in Floors
          /\ pc \in {"settle", "execute", "buying", "sweep", "close"}
          /\ cashSeen \in Int /\ swept \in Nat
      BY DEF Init
    <2>2. locked \in BOOLEAN /\ crossed \in BOOLEAN
      BY DEF Init
    <2> QED
      BY <1>1, <2>1, <2>2 DEF TypeOK
  <1>3. Good(db)
    BY <1>1, MoneyAssumption
    DEF Good, Columned, Covered, Agrees, Capped, Cash, Balance, Abs
  <1>4. Phases
    BY <1>1, <1>2 DEF Init, Phases, TypeOK
  <1> QED
    BY <1>1, <1>2, <1>3, <1>4 DEF Sound

\* The amount a sweep moves lies within the pile and the free cash.
LEMMA SweepAmountBounds ==
    ASSUME NEW a \in Columns
    PROVE  /\ SweepAmount(a) \in Nat
           /\ SweepAmount(a) <= Pile(a) /\ SweepAmount(a) <= AtLeast0(Cash(a))
  <1>1. a.realized \in Int /\ a.withdrawn \in Int /\ a.cost \in Nat
    BY ColumnTypes
  <1>2. Pile(a) \in Nat /\ AtLeast0(Cash(a)) \in Nat
    BY <1>1, MoneyAssumption DEF Pile, Cash, Balance, AtLeast0
  <1> QED
    BY <1>2 DEF SweepAmount, Smaller

\* Soundness survives every step: each action starts from its phase's facts
\* and leaves the next phase what it needs.
LEMMA StepSound ==
    ASSUME Sound, [Next]_vars
    PROVE  Sound'
  <1> USE DEF Sound
  <1>t. TypeOK /\ db \in Columns /\ tx \in Columns
    BY DEF TypeOK
  <1>1. CASE \E basis \in 1..MaxExposure + MaxDust, payout \in Amounts : SettleOne(basis, payout)
    <2>1. PICK basis \in 1..MaxExposure + MaxDust, payout \in Amounts : SettleOne(basis, payout)
      BY <1>1
    <2>2. basis \in Nat /\ payout \in Nat /\ basis <= tx.cost
      BY <2>1, MoneyAssumption DEF SettleOne, Held
    <2>3. Good(tx') /\ tx'.withdrawn = tx.withdrawn /\ tx'.cost <= tx.cost
      <3>1. tx' = Post([tx EXCEPT !.cost = @ - basis], payout - basis)
        BY <2>1 DEF SettleOne
      <3> QED
        BY <2>2, <3>1, PostKeepsGood
    <2>4. /\ pc = "settle" /\ db' = db /\ pc' = pc /\ locked' \in BOOLEAN
          /\ UNCHANGED <<limit, floor, cashSeen, swept, crossed>>
      BY <2>1, <1>t DEF SettleOne, TypeOK
    <2>5. tx' \in Columns /\ tx'.cost \in Nat /\ tx.cost \in Nat /\ db.cost \in Nat
      BY <1>t, <2>3, ColumnTypes DEF Good, Columned
    <2>6. TypeOK'
      BY <1>t, <2>4, <2>5 DEF TypeOK
    <2>7. Phases'
      BY <2>3, <2>4, <2>5 DEF Phases
    <2>8. Good(db)'
      BY <2>4 DEF Good, Columned, Covered, Agrees, Capped, Cash, Balance
    <2>9. Good(tx)'
      BY <2>3 DEF Good, Columned, Covered, Agrees, Capped, Cash, Balance
    <2> QED
      BY <2>6, <2>7, <2>8, <2>9
  <1>2. CASE SettleCommit
    <2>1. /\ db' = tx /\ tx' = tx /\ pc = "settle" /\ pc' = "execute" /\ locked' = FALSE
          /\ UNCHANGED <<limit, floor, cashSeen, swept, crossed>>
      BY <1>2 DEF SettleCommit
    <2>2. TypeOK'
      BY <1>t, <2>1 DEF TypeOK
    <2>3. Good(db)' /\ Good(tx)'
      BY <2>1 DEF Good, Columned, Covered, Agrees, Capped, Cash, Balance
    <2>4. Phases'
      BY <2>1 DEF Phases
    <2> QED
      BY <2>2, <2>3, <2>4
  <1>3. CASE BuyGate
    <2>1. /\ db' = db /\ tx' = tx /\ pc = "execute" /\ pc' = "buying" /\ locked' = TRUE
          /\ cashSeen' = Cash(db) /\ ~StopLossHit(db)
          /\ UNCHANGED <<limit, floor, swept, crossed>>
      BY <1>3 DEF BuyGate
    <2>2. Cash(db) \in Int
      BY <1>t, ColumnTypes, MoneyAssumption DEF Cash, Balance
    <2>3. TypeOK'
      BY <1>t, <2>1, <2>2 DEF TypeOK
    <2>4. Good(db)' /\ Good(tx)'
      BY <2>1 DEF Good, Columned, Covered, Agrees, Capped, Cash, Balance
    <2>5. Phases'
      BY <2>1 DEF Phases, StopLossHit, Cash, Balance
    <2> QED
      BY <2>3, <2>4, <2>5
  <1>4. CASE \E spend \in Amounts \ {0}, slip \in AvgSlips : BuyFill(spend, slip)
    <2>1. PICK spend \in Amounts \ {0}, slip \in AvgSlips : BuyFill(spend, slip)
      BY <1>4
    <2>2. spend \in Nat /\ slip \in Int
      BY MoneyAssumption
    <2>3. /\ pc = "buying" /\ pc' = "execute" /\ db' = tx' /\ locked' = FALSE
          /\ tx' = [tx EXCEPT !.cost = tx.cost + spend + slip,
                              !.dust = tx.dust + Abs(slip)]
          /\ spend <= cashSeen /\ tx.cost + spend <= MaxExposure
          /\ tx.cost + spend + slip >= 0
          /\ UNCHANGED <<limit, floor, cashSeen, swept, crossed>>
      BY <2>1 DEF BuyFill, FitsCap, FitsCash
    <2>4. spend <= Cash(tx)
      BY <2>3 DEF Phases
    <2>5. Good(tx')
      BY <2>2, <2>3, <2>4, BuyKeepsGood
    <2>6. TypeOK'
      BY <1>t, <2>3, <2>5 DEF TypeOK, Good, Columned
    <2>7. Good(db)' /\ Good(tx)'
      BY <2>3, <2>5 DEF Good, Columned, Covered, Agrees, Capped, Cash, Balance
    <2>8. Phases'
      BY <2>3 DEF Phases
    <2> QED
      BY <2>6, <2>7, <2>8
  <1>5. CASE BuyAbandoned
    <2>1. /\ db' = db /\ tx' = tx /\ pc = "buying" /\ pc' = "execute" /\ locked' = FALSE
          /\ UNCHANGED <<limit, floor, cashSeen, swept, crossed>>
      BY <1>5 DEF BuyAbandoned
    <2>2. TypeOK'
      BY <1>t, <2>1 DEF TypeOK
    <2>3. Good(db)' /\ Good(tx)'
      BY <2>1 DEF Good, Columned, Covered, Agrees, Capped, Cash, Balance
    <2>4. Phases'
      BY <2>1 DEF Phases
    <2> QED
      BY <2>2, <2>3, <2>4
  <1>6. CASE \E basis \in 1..MaxExposure + MaxDust, proceeds \in Amounts : Sell(basis, proceeds)
    <2>1. PICK basis \in 1..MaxExposure + MaxDust, proceeds \in Amounts : Sell(basis, proceeds)
      BY <1>6
    <2>2. basis \in Nat /\ proceeds \in Nat /\ basis <= tx.cost
      BY <2>1, MoneyAssumption DEF Sell, Held
    <2>3. Good(tx')
      <3>1. tx' = Post([tx EXCEPT !.cost = @ - basis], proceeds - basis)
        BY <2>1 DEF Sell
      <3> QED
        BY <2>2, <3>1, PostKeepsGood
    <2>4. /\ pc = "execute" /\ db' = tx'
          /\ UNCHANGED <<limit, floor, locked, pc, cashSeen, swept, crossed>>
      BY <2>1 DEF Sell
    <2>5. TypeOK'
      BY <1>t, <2>3, <2>4 DEF TypeOK, Good, Columned
    <2>6. Good(db)' /\ Good(tx)'
      BY <2>3, <2>4 DEF Good, Columned, Covered, Agrees, Capped, Cash, Balance
    <2>7. Phases'
      BY <2>4 DEF Phases
    <2> QED
      BY <2>5, <2>6, <2>7
  <1>7. CASE EndBatch
    <2>1. /\ db' = db /\ tx' = tx /\ pc = "execute" /\ pc' = "sweep"
          /\ UNCHANGED <<limit, floor, locked, cashSeen, swept, crossed>>
      BY <1>7 DEF EndBatch
    <2>2. TypeOK'
      BY <1>t, <2>1 DEF TypeOK
    <2>3. Good(db)' /\ Good(tx)'
      BY <2>1 DEF Good, Columned, Covered, Agrees, Capped, Cash, Balance
    <2>4. Phases'
      BY <2>1 DEF Phases
    <2> QED
      BY <2>2, <2>3, <2>4
  <1>8. CASE Sweep
    <2>1. /\ db' = db /\ pc = "sweep" /\ pc' = "close" /\ locked' = TRUE
          /\ swept' = SweepAmount(db) /\ crossed' \in BOOLEAN
          /\ UNCHANGED <<limit, floor, cashSeen>>
      BY <1>8, <1>t DEF Sweep, TypeOK
    <2>2. /\ swept' \in Nat
          /\ swept' <= Pile(db) /\ swept' <= AtLeast0(Cash(db))
      BY <1>t, <2>1, SweepAmountBounds
    <2>3. /\ Good(tx') /\ tx'.cost = db.cost
          /\ swept' > 0 => db.withdrawn < tx'.withdrawn /\ tx'.withdrawn <= tx'.realized
      <3>1. CASE SweepEmpty(db)
        <4>1. tx' = [db EXCEPT !.pending = FALSE]
          BY <1>8, <3>1 DEF Sweep
        <4>2. ~(swept' > 0)
          BY <2>2, <3>1 DEF SweepEmpty
        <4> QED
          BY <4>1, <4>2, ClearKeepsGood
      <3>2. CASE ~SweepEmpty(db) /\ swept' > 0
        <4>1. tx' = Withdraw(db, swept')
          BY <1>8, <3>2 DEF Sweep
        <4> QED
          BY <2>2, <3>2, <4>1, WithdrawKeepsGood
      <3>3. CASE ~SweepEmpty(db) /\ ~(swept' > 0)
        BY <1>8, <3>3 DEF Sweep
      <3> QED
        BY <3>1, <3>2, <3>3
    <2>4. TypeOK'
      BY <1>t, <2>1, <2>2, <2>3 DEF TypeOK, Good, Columned
    <2>5. Good(db)' /\ Good(tx)'
      BY <2>1, <2>3 DEF Good, Columned, Covered, Agrees, Capped, Cash, Balance
    <2>6. Phases'
      BY <2>1, <2>3 DEF Phases
    <2> QED
      BY <2>4, <2>5, <2>6
  <1>9. CASE EndCycle
    <2>1. /\ db' \in {db, tx} /\ tx' = db' /\ pc' = "settle" /\ locked' = FALSE /\ swept' = 0
          /\ UNCHANGED <<limit, floor, cashSeen, crossed>>
      BY <1>9 DEF EndCycle
    <2>2. TypeOK'
      BY <1>t, <2>1 DEF TypeOK
    <2>3. Good(db)' /\ Good(tx)'
      BY <2>1 DEF Good, Columned, Covered, Agrees, Capped, Cash, Balance
    <2>4. tx'.cost \in Nat
      BY <1>t, <2>1, ColumnTypes
    <2>5. Phases'
      BY <2>1, <2>4 DEF Phases
    <2> QED
      BY <2>2, <2>3, <2>5
  <1>10. CASE Crash
    <2>1. /\ db' = db /\ tx' = db /\ pc' = "settle" /\ locked' = FALSE /\ swept' = 0
          /\ UNCHANGED <<limit, floor, cashSeen, crossed>>
      BY <1>10 DEF Crash
    <2>2. TypeOK'
      BY <1>t, <2>1 DEF TypeOK
    <2>3. Good(db)' /\ Good(tx)'
      BY <2>1 DEF Good, Columned, Covered, Agrees, Capped, Cash, Balance
    <2>4. tx'.cost \in Nat
      BY <1>t, <2>1, ColumnTypes
    <2>5. Phases'
      BY <2>1, <2>4 DEF Phases
    <2> QED
      BY <2>2, <2>3, <2>5
  <1>11. CASE UpdateSettings
    <2>1. /\ db' = db /\ tx' = tx /\ pc' = pc /\ ~locked /\ locked' = locked
          /\ limit' \in Limits /\ floor' \in Floors
          /\ UNCHANGED <<cashSeen, swept, crossed>>
      BY <1>11 DEF UpdateSettings
    <2>2. TypeOK'
      BY <1>t, <2>1 DEF TypeOK
    <2>3. Good(db)' /\ Good(tx)'
      BY <2>1 DEF Good, Columned, Covered, Agrees, Capped, Cash, Balance
    <2>4. Phases'
      BY <2>1 DEF Phases
    <2> QED
      BY <2>2, <2>3, <2>4
  <1>12. CASE UNCHANGED vars
    <2>1. UNCHANGED <<db, tx, limit, floor, locked, pc, cashSeen, swept, crossed>>
      BY <1>12 DEF vars
    <2>2. TypeOK'
      BY <1>t, <2>1 DEF TypeOK
    <2>3. Good(db)' /\ Good(tx)'
      BY <2>1 DEF Good, Columned, Covered, Agrees, Capped, Cash, Balance
    <2>4. Phases'
      BY <2>1 DEF Phases, StopLossHit, Cash, Balance
    <2> QED
      BY <2>2, <2>3, <2>4
  <1> QED
    BY <1>1, <1>2, <1>3, <1>4, <1>5, <1>6, <1>7, <1>8, <1>9, <1>10, <1>11, <1>12
    DEF Next

\* Every reachable state is sound.
THEOREM AlwaysSound == Spec => []Sound
  <1>1. Init => Sound
    BY InitSound
  <1>2. Sound /\ [Next]_vars => Sound'
    BY StepSound
  <1> QED
    BY <1>1, <1>2, PTL DEF Spec

-----------------------------------------------------------------------------
\* The columns keep their types: no sequence of fills, exits, settlements,
\* sweeps, setting changes and rollbacks leaves a position with negative cost.
THEOREM TypeCorrect == Spec => []TypeOK
  <1>1. Sound => TypeOK
    BY DEF Sound
  <1> QED
    BY <1>1, AlwaysSound, PTL

\* Available cash never falls below zero by more than the rounding of stored
\* amounts, for every stake, cap and set of amounts.
THEOREM CashNeverOverdrawn == Spec => []CashCovered
  <1>1. Sound => CashCovered
    BY DEF Sound, Good, Covered, CashCovered
  <1> QED
    BY <1>1, AlwaysSound, PTL

\* The append-only ledger always adds up to the account's two totals, up to
\* one stored unit per rounded amount.
THEOREM LedgerExplainsAccount == Spec => []LedgerAgrees
  <1>1. Sound => LedgerAgrees
    BY DEF Sound, Good, Agrees, LedgerAgrees
  <1> QED
    BY <1>1, AlwaysSound, PTL

\* Deployed cost never outgrows the global exposure cap by more than the
\* rounding of stored average prices.
THEOREM ExposureNeverExceedsCap == Spec => []ExposureCapped
  <1>1. Sound => ExposureCapped
    BY DEF Sound, Good, Capped, ExposureCapped
  <1> QED
    BY <1>1, AlwaysSound, PTL

\* Every withdrawal takes realized profit that no earlier withdrawal took: only
\* the commit at the end of a cycle changes the withdrawn total, and the
\* "close" phase remembers what the sweep wrote.
THEOREM WithdrawalsAreProfit == Spec => WithdrawalIsProfit
  <1> DEFINE A == db'.withdrawn # db.withdrawn =>
                    db.withdrawn < db'.withdrawn /\ db'.withdrawn <= db'.realized
  <1>1. ASSUME Sound, [Next]_vars
        PROVE  A
    <2> USE <1>1 DEF Sound
    <2>1. CASE SettleCommit
      BY <2>1 DEF SettleCommit, Phases
    <2>2. CASE \E spend \in Amounts \ {0}, slip \in AvgSlips : BuyFill(spend, slip)
      <3>1. PICK spend \in Amounts \ {0}, slip \in AvgSlips : BuyFill(spend, slip)
        BY <2>2
      <3>2. tx \in Columns /\ tx = db
        BY <3>1 DEF TypeOK, BuyFill, Phases
      <3>3. db' = [tx EXCEPT !.cost = tx.cost + spend + slip, !.dust = tx.dust + Abs(slip)]
        BY <3>1 DEF BuyFill
      <3> QED
        BY <3>2, <3>3 DEF Columns
    <2>3. CASE \E basis \in 1..MaxExposure + MaxDust, proceeds \in Amounts : Sell(basis, proceeds)
      <3>1. PICK basis \in 1..MaxExposure + MaxDust, proceeds \in Amounts : Sell(basis, proceeds)
        BY <2>3
      <3>2. basis \in Nat /\ proceeds \in Nat /\ basis <= tx.cost
        BY <3>1, MoneyAssumption DEF Sell, Held
      <3>3. tx = db /\ db' = Post([tx EXCEPT !.cost = @ - basis], proceeds - basis)
        BY <3>1 DEF Sell, Phases
      <3> QED
        BY <3>2, <3>3, PostKeepsGood
    <2>4. CASE EndCycle
      BY <2>4 DEF EndCycle, Phases
    <2>5. CASE db' = db
      BY <2>5
    <2>6. db' = db \/ SettleCommit \/ EndCycle
          \/ (\E spend \in Amounts \ {0}, slip \in AvgSlips : BuyFill(spend, slip))
          \/ (\E basis \in 1..MaxExposure + MaxDust, proceeds \in Amounts : Sell(basis, proceeds))
      BY DEF Next, vars, SettleOne, BuyGate, BuyAbandoned, EndBatch, Sweep, Crash, UpdateSettings
    <2> QED
      BY <2>1, <2>2, <2>3, <2>4, <2>5, <2>6
  <1>2. Sound /\ Sound' /\ [Next]_vars => [A]_vars
    BY <1>1
  <1>3. Spec => [][A]_vars
    BY <1>2, AlwaysSound, PTL DEF Spec
  <1> QED
    BY <1>3 DEF WithdrawalIsProfit

\* No position is enlarged at or below the stop-loss floor in force: the row
\* lock held from the gate to the fill keeps both the balance and the floor.
THEOREM BuysStayAboveFloor == Spec => BuysAboveFloor
  <1> DEFINE A == db'.cost > db.cost => ~StopLossHit(db)
  <1>1. ASSUME Sound, [Next]_vars
        PROVE  A
    <2> USE <1>1 DEF Sound
    <2>1. db \in Columns /\ tx \in Columns /\ db.cost \in Nat /\ tx.cost \in Nat
      BY ColumnTypes DEF TypeOK
    <2>2. CASE SettleCommit
      BY <2>1, <2>2 DEF SettleCommit, Phases
    <2>3. CASE \E spend \in Amounts \ {0}, slip \in AvgSlips : BuyFill(spend, slip)
      BY <2>3 DEF BuyFill, Phases
    <2>4. CASE \E basis \in 1..MaxExposure + MaxDust, proceeds \in Amounts : Sell(basis, proceeds)
      <3>1. PICK basis \in 1..MaxExposure + MaxDust, proceeds \in Amounts : Sell(basis, proceeds)
        BY <2>4
      <3>2. basis \in Nat /\ proceeds \in Nat /\ basis <= tx.cost
        BY <3>1, MoneyAssumption DEF Sell, Held
      <3>3. tx = db /\ db' = Post([tx EXCEPT !.cost = @ - basis], proceeds - basis)
        BY <3>1 DEF Sell, Phases
      <3>4. Good(db') /\ db'.cost <= db.cost
        BY <3>2, <3>3, PostKeepsGood
      <3>5. db'.cost \in Nat
        BY <3>4, ColumnTypes DEF Good, Columned
      <3> QED
        BY <2>1, <3>4, <3>5
    <2>5. CASE EndCycle
      BY <2>1, <2>5 DEF EndCycle, Phases
    <2>6. CASE db' = db
      BY <2>1, <2>6
    <2>7. db' = db \/ SettleCommit \/ EndCycle
          \/ (\E spend \in Amounts \ {0}, slip \in AvgSlips : BuyFill(spend, slip))
          \/ (\E basis \in 1..MaxExposure + MaxDust, proceeds \in Amounts : Sell(basis, proceeds))
      BY DEF Next, vars, SettleOne, BuyGate, BuyAbandoned, EndBatch, Sweep, Crash, UpdateSettings
    <2> QED
      BY <2>2, <2>3, <2>4, <2>5, <2>6, <2>7
  <1>2. Sound /\ Sound' /\ [Next]_vars => [A]_vars
    BY <1>1
  <1>3. Spec => [][A]_vars
    BY <1>2, AlwaysSound, PTL DEF Spec
  <1> QED
    BY <1>3 DEF BuysAboveFloor
=============================================================================
