---------------------------- MODULE StoreProofs -----------------------------
(***************************************************************************)
(* Theorems about the orders and about who may run the store: Orders for   *)
(* every set of customers, staff requests, variants and bags, Accounts for *)
(* any number of accounts, roles, permissions and requests in flight.      *)
(* They share no state.                                                    *)
(***************************************************************************)
EXTENDS Orders, Accounts, FiniteSetTheorems, TLAPS

-----------------------------------------------------------------------------
(* Orders: type correctness *)

LEMMA NextNumberIsNat ==
    ASSUME TypeOK
    PROVE  Cardinality(Placed) + 1 \in Nat
<1>1. IsFiniteSet(Placed)
  BY OrdersAssumption, FS_Subset DEF Placed
<1> QED
  BY <1>1, FS_CardinalityType

LEMMA InitType == Init => TypeOK
BY OrdersAssumption DEF Init, TypeOK, DatabaseTypeOK, TransactionTypeOK, RequestTypeOK,
   Zero, Tx, CheckoutPc, StaffPc, NoOrder, Status

LEMMA RollbackType ==
    ASSUME TypeOK, NEW t \in Tx, Rollback(t)
    PROVE  TypeOK'
BY OrdersAssumption DEF Rollback, Forget, TypeOK, DatabaseTypeOK, TransactionTypeOK,
   RequestTypeOK, Zero, Tx, CheckoutPc, StaffPc, dbVars, requestVars, historyVars

LEMMA CheckoutType ==
    ASSUME TypeOK, NEW c \in Customer, CheckoutBegin(c) \/ CheckoutStep(c)
    PROVE  TypeOK'
<1> USE OrdersAssumption DEF Tx, CheckoutPc, StaffPc
<1>1. CASE CheckoutBegin(c)
  BY <1>1, NextNumberIsNat DEF CheckoutBegin, TypeOK, DatabaseTypeOK, TransactionTypeOK,
     RequestTypeOK, requestVars, historyVars
<1>2. CASE InsertOrder(c)
  BY <1>2 DEF InsertOrder, Bag, TypeOK, DatabaseTypeOK, TransactionTypeOK, RequestTypeOK,
     dbVars, requestVars, historyVars
<1>3. ASSUME NEW l \in Line, TakeStock(c, l)
      PROVE  TypeOK'
  BY <1>3 DEF TakeStock, WriteStock, TypeOK, DatabaseTypeOK, TransactionTypeOK, RequestTypeOK,
     dbVars, requestVars, historyVars
<1>4. CASE CheckoutCommit(c)
  BY <1>4 DEF CheckoutCommit, Commit, Publish, Forget, Zero, Status, TypeOK, DatabaseTypeOK,
     TransactionTypeOK, RequestTypeOK, requestVars
<1> QED
  BY <1>1, <1>2, <1>3, <1>4 DEF CheckoutStep

LEMMA StaffBeginType ==
    ASSUME TypeOK, NEW s \in Staff, StaffBegin(s)
    PROVE  TypeOK'
<1> USE OrdersAssumption DEF Tx, CheckoutPc, StaffPc
<1>1. ASSUME NEW c \in Customer, CancelBegin(s, c)
      PROVE  TypeOK'
  BY <1>1 DEF CancelBegin, Bag, TypeOK, DatabaseTypeOK, TransactionTypeOK, RequestTypeOK,
     dbVars, historyVars
<1>2. ASSUME NEW c \in Customer, NEW status \in Status, StatusRead(s, c, status)
      PROVE  TypeOK'
  BY <1>2 DEF StatusRead, TypeOK, DatabaseTypeOK, TransactionTypeOK, RequestTypeOK,
     dbVars, txVars, historyVars
<1>3. ASSUME NEW c \in Customer, DeleteOrder(s, c)
      PROVE  TypeOK'
  BY <1>3 DEF DeleteOrder, TypeOK, DatabaseTypeOK, TransactionTypeOK, RequestTypeOK,
     txVars, requestVars, historyVars
<1>4. ASSUME NEW v \in Variant, NEW quantity \in Int, AdjustStock(s, v, quantity)
      PROVE  TypeOK'
  BY <1>4 DEF AdjustStock, TypeOK, DatabaseTypeOK, TransactionTypeOK, RequestTypeOK,
     dbVars, historyVars
<1>5. ASSUME NEW v \in Variant, NEW target \in Targets, SetStock(s, v, target)
      PROVE  TypeOK'
  <2>1. target - stock[v] \in Int
    BY DEF TypeOK, DatabaseTypeOK
  <2> QED
    BY <1>4, <1>5, <2>1 DEF SetStock
<1> QED
  BY <1>1, <1>2, <1>3, <1>4, <1>5 DEF StaffBegin

LEMMA StaffStepType ==
    ASSUME TypeOK, NEW s \in Staff, StaffStep(s)
    PROVE  TypeOK'
<1> USE OrdersAssumption DEF Tx, CheckoutPc, StaffPc
<1>1. ASSUME NEW l \in Line, CancelReadStock(s, l)
      PROVE  TypeOK'
  <2>1. /\ seen' \in [Tx -> [Variant -> Int]]
        /\ missed' \in [Tx -> SUBSET Variant]
    <3> DEFINE v == VariantOf[l]
    <3>1. v \in Variant /\ buf[s][v] \in Int /\ stock[v] \in Int
      BY DEF TypeOK, DatabaseTypeOK, TransactionTypeOK
    <3>2. CASE v \in written[s]
      <4>1. seen' = [seen EXCEPT ![s][v] = buf[s][v]] /\ missed' = missed
        BY <1>1, <3>2 DEF CancelReadStock
      <4> QED
        BY <3>1, <4>1 DEF TypeOK, TransactionTypeOK
    <3>3. CASE v \notin written[s]
      <4>1. /\ seen' = [seen EXCEPT ![s][v] = stock[v]]
            /\ missed' = [missed EXCEPT ![s] = @ \ {v}]
        BY <1>1, <3>3 DEF CancelReadStock
      <4> QED
        BY <3>1, <4>1 DEF TypeOK, TransactionTypeOK
    <3> QED
      BY <3>2, <3>3
  <2> QED
    BY <1>1, <2>1 DEF CancelReadStock, TypeOK, DatabaseTypeOK, TransactionTypeOK,
       RequestTypeOK, dbVars, historyVars
<1>2. CASE CancelWriteStock(s)
  BY <1>2 DEF CancelWriteStock, WriteStock, TypeOK, DatabaseTypeOK, TransactionTypeOK,
     RequestTypeOK, dbVars, historyVars
<1>3. CASE CancelCommit(s)
  BY <1>3 DEF CancelCommit, Commit, Publish, Forget, Zero, Status, TypeOK, DatabaseTypeOK,
     TransactionTypeOK, RequestTypeOK, requestVars
<1>4. CASE StatusWrite(s)
  BY <1>4 DEF StatusWrite, TypeOK, DatabaseTypeOK, TransactionTypeOK, RequestTypeOK,
     txVars, requestVars, historyVars
<1>5. CASE MovementRead(s)
  BY <1>5 DEF MovementRead, TypeOK, DatabaseTypeOK, TransactionTypeOK, RequestTypeOK,
     dbVars, requestVars, historyVars
<1>6. CASE MovementRefused(s)
  BY <1>6, RollbackType DEF MovementRefused
<1>7. CASE MovementWrite(s)
  BY <1>7 DEF MovementWrite, Publish, TypeOK, DatabaseTypeOK, TransactionTypeOK,
     RequestTypeOK, requestVars
<1>8. CASE MovementRecord(s)
  BY <1>8 DEF MovementRecord, Forget, Zero, TypeOK, DatabaseTypeOK, TransactionTypeOK,
     RequestTypeOK, requestVars
<1> QED
  BY <1>1, <1>2, <1>3, <1>4, <1>5, <1>6, <1>7, <1>8 DEF StaffStep

LEMMA StepType == TypeOK /\ [Next]_vars => TypeOK'
<1> SUFFICES ASSUME TypeOK, [Next]_vars
             PROVE  TypeOK'
  OBVIOUS
<1>1. ASSUME NEW t \in Tx, Refused(t) \/ Interrupted(t)
      PROVE  TypeOK'
  BY <1>1, RollbackType DEF Refused, Interrupted
<1>2. CASE UNCHANGED vars
  BY <1>2 DEF vars, dbVars, txVars, requestVars, historyVars, TypeOK, DatabaseTypeOK,
     TransactionTypeOK, RequestTypeOK
<1> QED
  BY <1>1, <1>2, CheckoutType, StaffBeginType, StaffStepType DEF Next

\* Every reachable state is well typed, and a request that is under way knows
\* the order, the variant, the line and the status it is about.
THEOREM TypeCorrect == Spec => []TypeOK
BY InitType, StepType, PTL DEF Spec

-----------------------------------------------------------------------------
(* Orders: row locks *)

\* Two transactions never hold the same inventory row, and only a transaction
\* that is still open holds any.
Locks ==
    /\ \A t, u \in Tx : t # u => written[t] \cap written[u] = {}
    /\ \A t \in Tx : written[t] # {} => pc[t] \in {"taking", "cancelling", "restocking"}

\* Every transaction step keeps the rows it holds, lets go of all of them, or
\* adds one that nobody else holds.
LEMMA StepLocks == TypeOK /\ Locks /\ [Next]_vars => Locks'
<1> SUFFICES ASSUME TypeOK, Locks, [Next]_vars
             PROVE  Locks'
  OBVIOUS
<1> USE OrdersAssumption DEF Tx, TypeOK, TransactionTypeOK, RequestTypeOK
<1>1. ASSUME NEW t \in Tx, Rollback(t)
      PROVE  Locks'
  BY <1>1 DEF Rollback, Forget, Locks
<1>2. ASSUME NEW t \in Tx, Forget(t), pc' \in [Tx -> CheckoutPc \cup StaffPc],
             \A u \in Tx \ {t} : pc'[u] = pc[u]
      PROVE  Locks'
  BY <1>2 DEF Forget, Locks
<1>3. ASSUME NEW t \in Tx, NEW v \in Variant, ~LockedByOther(v, t),
             written' = [written EXCEPT ![t] = @ \cup {v}],
             pc'[t] \in {"taking", "cancelling", "restocking"},
             \A u \in Tx \ {t} : pc'[u] = pc[u]
      PROVE  Locks'
  BY <1>3 DEF LockedByOther, Locks
<1>4. ASSUME NEW t \in Tx, UNCHANGED written,
             pc[t] \in {"taking", "cancelling", "restocking"} =>
                 pc'[t] \in {"taking", "cancelling", "restocking"},
             \A u \in Tx \ {t} : pc'[u] = pc[u]
      PROVE  Locks'
  BY <1>4 DEF Locks
<1>5. ASSUME NEW c \in Customer, CheckoutBegin(c) \/ CheckoutStep(c)
      PROVE  Locks'
  <2>1. CASE CheckoutBegin(c)
    BY <1>4, <2>1 DEF CheckoutBegin
  <2>4. CASE InsertOrder(c)
    BY <1>4, <2>4 DEF InsertOrder
  <2>2. ASSUME NEW l \in Line, TakeStock(c, l)
        PROVE  Locks'
    BY <1>3, <2>2 DEF TakeStock, WriteStock
  <2>3. CASE CheckoutCommit(c)
    BY <1>2, <2>3 DEF CheckoutCommit, Commit, CheckoutPc
  <2> QED
    BY <1>5, <2>1, <2>2, <2>3, <2>4 DEF CheckoutStep
<1>6. ASSUME NEW s \in Staff, StaffBegin(s)
      PROVE  Locks'
  BY <1>4, <1>6 DEF StaffBegin, CancelBegin, StatusRead, DeleteOrder, AdjustStock, SetStock,
     txVars
<1>7. ASSUME NEW s \in Staff, StaffStep(s)
      PROVE  Locks'
  <2>1. CASE \E l \in Line : CancelReadStock(s, l)
    BY <1>4, <2>1 DEF CancelReadStock
  <2>2. CASE CancelWriteStock(s)
    BY <1>3, <2>2 DEF CancelWriteStock, WriteStock
  <2>3. CASE CancelCommit(s)
    BY <1>2, <2>3 DEF CancelCommit, Commit, StaffPc
  <2>4. CASE StatusWrite(s)
    BY <1>4, <2>4 DEF StatusWrite, txVars
  <2>7. CASE MovementRead(s)
    BY <1>4, <2>7 DEF MovementRead
  <2>8. CASE MovementWrite(s)
    BY <1>4, <2>8 DEF MovementWrite
  <2>5. CASE MovementRefused(s)
    BY <1>1, <2>5 DEF MovementRefused
  <2>6. CASE MovementRecord(s)
    BY <1>2, <2>6 DEF MovementRecord, StaffPc
  <2> QED
    BY <1>7, <2>1, <2>2, <2>3, <2>4, <2>5, <2>6, <2>7, <2>8 DEF StaffStep
<1>8. ASSUME NEW t \in Tx, Refused(t) \/ Interrupted(t)
      PROVE  Locks'
  BY <1>1, <1>8 DEF Refused, Interrupted
<1>9. CASE UNCHANGED vars
  BY <1>9 DEF vars, txVars, Locks
<1> QED
  BY <1>5, <1>6, <1>7, <1>8, <1>9 DEF Next

LEMMA InitLocks == Init => Locks
BY DEF Init, Locks

-----------------------------------------------------------------------------
(* Orders: stock is never negative *)

\* Whatever a request is about to write is a balance of zero or more.
NothingNegativeAhead ==
    /\ StockNeverNegative
    /\ \A t \in Tx : \A v \in written[t] : buf[t][v] >= 0
    /\ \A c \in Customer : pc[c] \in {"begun", "taking"} =>
          \A l \in Bag(c) : Qty[l] <= seen[c][VariantOf[l]]
    /\ \A c \in Customer : todo[c] \subseteq Bag(c)
    /\ \A s \in Staff : pc[s] = "restocking" => seen[s][VariantOf[line[s]]] >= 0
    /\ \A s \in Staff : pc[s] = "adjusting" =>
          seen[s][subject[s]] + moved[s][subject[s]] >= 0

LEMMA InitNothingNegativeAhead == Init => NothingNegativeAhead
BY OrdersAssumption DEF Init, NothingNegativeAhead, StockNeverNegative, Tx

LEMMA StepNothingNegativeAhead ==
    TypeOK /\ NothingNegativeAhead /\ [Next]_vars => NothingNegativeAhead'
<1> SUFFICES ASSUME TypeOK, NothingNegativeAhead, [Next]_vars
             PROVE  NothingNegativeAhead'
  OBVIOUS
<1> USE OrdersAssumption DEF Tx, TypeOK, DatabaseTypeOK, TransactionTypeOK, RequestTypeOK,
        StockNeverNegative, CheckoutPc, StaffPc, Bag
<1>1. ASSUME NEW t \in Tx, Rollback(t)
      PROVE  NothingNegativeAhead'
  BY <1>1 DEF Rollback, Forget, NothingNegativeAhead, dbVars, requestVars
<1>2. ASSUME NEW c \in Customer, CheckoutBegin(c) \/ CheckoutStep(c)
      PROVE  NothingNegativeAhead'
  <2>1. CASE CheckoutBegin(c)
    BY <2>1 DEF CheckoutBegin, NothingNegativeAhead, requestVars
  <2>2. CASE InsertOrder(c)
    BY <2>2 DEF InsertOrder, NothingNegativeAhead, dbVars, requestVars
  <2>3. ASSUME NEW l \in Line, TakeStock(c, l)
        PROVE  NothingNegativeAhead'
    BY <2>3 DEF TakeStock, WriteStock, NothingNegativeAhead, dbVars, requestVars
  <2>4. CASE CheckoutCommit(c)
    BY <2>4 DEF CheckoutCommit, Commit, Forget, NothingNegativeAhead, requestVars
  <2> QED
    BY <1>2, <2>1, <2>2, <2>3, <2>4 DEF CheckoutStep
<1>3. ASSUME NEW s \in Staff, StaffBegin(s)
      PROVE  NothingNegativeAhead'
  <2>1. ASSUME NEW c \in Customer, CancelBegin(s, c)
        PROVE  NothingNegativeAhead'
    BY <2>1 DEF CancelBegin, NothingNegativeAhead, dbVars
  <2>2. ASSUME NEW c \in Customer, NEW status \in Status, StatusRead(s, c, status)
        PROVE  NothingNegativeAhead'
    BY <2>2 DEF StatusRead, NothingNegativeAhead, dbVars, txVars
  <2>3. ASSUME NEW c \in Customer, DeleteOrder(s, c)
        PROVE  NothingNegativeAhead'
    BY <2>3 DEF DeleteOrder, NothingNegativeAhead, txVars, requestVars
  <2>4. ASSUME NEW v \in Variant, NEW quantity, AdjustStock(s, v, quantity)
        PROVE  NothingNegativeAhead'
    BY <2>4 DEF AdjustStock, NothingNegativeAhead, dbVars
  <2> QED
    BY <1>3, <2>1, <2>2, <2>3, <2>4 DEF StaffBegin, SetStock
<1>4. ASSUME NEW s \in Staff, StaffStep(s)
      PROVE  NothingNegativeAhead'
  <2>1. ASSUME NEW l \in Line, CancelReadStock(s, l)
        PROVE  NothingNegativeAhead'
    BY <2>1 DEF CancelReadStock, NothingNegativeAhead, dbVars
  <2>2. CASE CancelWriteStock(s)
    BY <2>2 DEF CancelWriteStock, WriteStock, NothingNegativeAhead, dbVars
  <2>3. CASE CancelCommit(s)
    BY <2>3 DEF CancelCommit, Commit, Forget, NothingNegativeAhead, requestVars
  <2>4. CASE StatusWrite(s)
    BY <2>4 DEF StatusWrite, NothingNegativeAhead, txVars, requestVars
  <2>5. CASE MovementRead(s)
    BY <2>5 DEF MovementRead, NothingNegativeAhead, dbVars, requestVars
  <2>6. CASE MovementRefused(s)
    BY <1>1, <2>6 DEF MovementRefused
  <2>7. CASE MovementWrite(s)
    BY <2>7 DEF MovementWrite, NothingNegativeAhead, requestVars
  <2>8. CASE MovementRecord(s)
    BY <2>8 DEF MovementRecord, Forget, NothingNegativeAhead, requestVars
  <2> QED
    BY <1>4, <2>1, <2>2, <2>3, <2>4, <2>5, <2>6, <2>7, <2>8 DEF StaffStep
<1>5. ASSUME NEW t \in Tx, Refused(t) \/ Interrupted(t)
      PROVE  NothingNegativeAhead'
  BY <1>1, <1>5 DEF Refused, Interrupted
<1>6. CASE UNCHANGED vars
  BY <1>6 DEF vars, dbVars, txVars, requestVars, NothingNegativeAhead
<1> QED
  BY <1>2, <1>3, <1>4, <1>5, <1>6 DEF Next

\* No interleaving of checkouts and staff requests, and no failure in the
\* middle of one, takes the committed stock of a variant below zero.
THEOREM StockIsNeverNegative == Spec => []StockNeverNegative
<1>1. NothingNegativeAhead => StockNeverNegative
  BY DEF NothingNegativeAhead
<1> QED
  BY <1>1, TypeCorrect, InitNothingNegativeAhead, StepNothingNegativeAhead, PTL DEF Spec

-----------------------------------------------------------------------------
(* Orders: the checkout's snapshot *)

\* What a checkout read is what is committed, but for the rows it missed.
Snapshot ==
    \A c \in Customer : pc[c] \in {"begun", "taking"} =>
        \A v \in Variant \ missed[c] : seen[c][v] = stock[v]

\* What a checkout has written is its snapshot less the lines it has handled,
\* and nobody has committed any of those rows since.
Handled(c) == Bag(c) \ todo[c]

TakenSoFar ==
    \A c \in Customer : pc[c] = "taking" =>
        /\ written[c] \cap missed[c] = {}
        /\ written[c] = {VariantOf[l] : l \in Handled(c)}
        /\ \A l \in Handled(c) : buf[c][VariantOf[l]] = seen[c][VariantOf[l]] - Qty[l]

CheckoutInv == Snapshot /\ TakenSoFar

LEMMA InitCheckoutInv == Init => CheckoutInv
BY DEF Init, CheckoutInv, Snapshot, TakenSoFar, Tx

\* A commit by t leaves every other checkout with a true snapshot: the rows it
\* changed are now missed, and none of them is a row the checkout has written.
LEMMA CommitKeepsCheckouts ==
    ASSUME TypeOK, CheckoutInv,
           NEW t \in Tx, NEW rows \in SUBSET Variant,
           Publish(t, rows),
           \A v \in Variant \ rows : stock'[v] = stock[v],
           \A u \in Tx \ {t} : rows \cap written[u] = {},
           pc'[t] \notin {"begun", "taking"},
           \A u \in Tx \ {t} : /\ pc'[u] = pc[u]
                               /\ todo'[u] = todo[u]
                               /\ seen'[u] = seen[u]
                               /\ written'[u] = written[u]
                               /\ buf'[u] = buf[u]
    PROVE  CheckoutInv'
BY DEF CheckoutInv, Snapshot, TakenSoFar, Handled, Publish, Reading, Bag, Tx, TypeOK,
   TransactionTypeOK

LEMMA CommitStepKeepsCheckouts ==
    ASSUME TypeOK, Locks, CheckoutInv,
           NEW t \in Tx, NEW where, where \notin {"begun", "taking"},
           Commit(t),
           pc' = [pc EXCEPT ![t] = where]
    PROVE  CheckoutInv'
<1> DEFINE rows == written[t]
<1>1. rows \in SUBSET Variant
  BY DEF TypeOK, TransactionTypeOK
<1>2. Publish(t, rows) /\ \A v \in Variant \ rows : stock'[v] = stock[v]
  BY DEF Commit
<1>3. \A u \in Tx \ {t} : rows \cap written[u] = {}
  BY DEF Locks
<1>4. /\ pc'[t] \notin {"begun", "taking"}
      /\ \A u \in Tx \ {t} : /\ pc'[u] = pc[u]
                              /\ todo'[u] = todo[u]
                              /\ seen'[u] = seen[u]
                              /\ written'[u] = written[u]
                              /\ buf'[u] = buf[u]
  BY DEF Commit, Forget, TypeOK, TransactionTypeOK, RequestTypeOK
<1> HIDE DEF rows
<1> QED
  BY <1>1, <1>2, <1>3, <1>4, CommitKeepsCheckouts

\* So does a step of t that commits nothing and is not a checkout's.
LEMMA OthersKeepCheckouts ==
    ASSUME TypeOK, CheckoutInv,
           NEW t \in Tx, UNCHANGED stock,
           pc'[t] \notin {"begun", "taking"},
           \A u \in Tx \ {t} : /\ pc'[u] = pc[u]
                               /\ todo'[u] = todo[u]
                               /\ seen'[u] = seen[u]
                               /\ written'[u] = written[u]
                               /\ buf'[u] = buf[u]
                               /\ missed'[u] = missed[u]
    PROVE  CheckoutInv'
BY DEF CheckoutInv, Snapshot, TakenSoFar, Handled, Bag, Tx

LEMMA StepCheckoutInv ==
    ASSUME OneLinePerVariant
    PROVE  TypeOK /\ Locks /\ NothingNegativeAhead /\ CheckoutInv /\ [Next]_vars
               => CheckoutInv'
<1> SUFFICES ASSUME TypeOK, Locks, NothingNegativeAhead, CheckoutInv, [Next]_vars
             PROVE  CheckoutInv'
  OBVIOUS
<1> USE OrdersAssumption DEF Tx, TypeOK, TransactionTypeOK, RequestTypeOK, CheckoutPc, StaffPc
<1>1. ASSUME NEW t \in Tx, Rollback(t)
      PROVE  CheckoutInv'
  BY <1>1, OthersKeepCheckouts DEF Rollback, Forget, dbVars
<1>2. ASSUME NEW c \in Customer, CheckoutBegin(c) \/ CheckoutStep(c)
      PROVE  CheckoutInv'
  <2>1. CASE CheckoutBegin(c)
    BY <2>1 DEF CheckoutBegin, CheckoutInv, Snapshot, TakenSoFar, Handled
  <2>2. CASE InsertOrder(c)
    <3>1. written[c] = {}
      BY <2>2 DEF InsertOrder, Locks
    <3>2. Snapshot'
      BY <2>2 DEF InsertOrder, CheckoutInv, Snapshot, dbVars
    <3>3. TakenSoFar'
      BY <2>2, <3>1 DEF InsertOrder, CheckoutInv, TakenSoFar, Handled, Bag
    <3> QED
      BY <3>2, <3>3 DEF CheckoutInv
  <2>3. ASSUME NEW l \in Line, TakeStock(c, l)
        PROVE  CheckoutInv'
    <3>1. Snapshot'
      BY <2>3 DEF TakeStock, CheckoutInv, Snapshot, dbVars
    <3>2. Handled(c)' = Handled(c) \cup {l}
      BY <2>3 DEF TakeStock, Handled, NothingNegativeAhead
    <3>3. \A m \in Handled(c) : VariantOf[m] # VariantOf[l]
      BY <2>3 DEF TakeStock, Handled, Bag, OneLinePerVariant, NothingNegativeAhead
    <3>4. TakenSoFar'
      <4>1. ASSUME NEW d \in Customer \ {c}
            PROVE  (pc[d] = "taking" =>
                     /\ written[d] \cap missed[d] = {}
                     /\ written[d] = {VariantOf[m] : m \in Handled(d)}
                     /\ \A m \in Handled(d) :
                           buf[d][VariantOf[m]] = seen[d][VariantOf[m]] - Qty[m])'
        BY <2>3 DEF TakeStock, WriteStock, CheckoutInv, TakenSoFar, Handled
      <4>2. /\ written'[c] = written[c] \cup {VariantOf[l]}
            /\ missed' = missed /\ seen' = seen
            /\ VariantOf[l] \notin missed[c]
        BY <2>3 DEF TakeStock, WriteStock
      <4>3. written'[c] = {VariantOf[m] : m \in Handled(c)'}
        BY <2>3, <3>2, <4>2 DEF TakeStock, CheckoutInv, TakenSoFar
      <4>4. \A m \in Handled(c)' : buf'[c][VariantOf[m]] = seen'[c][VariantOf[m]] - Qty[m]
        BY <2>3, <3>2, <3>3, <4>2 DEF TakeStock, WriteStock, CheckoutInv, TakenSoFar, Handled, Bag
      <4>5. pc[c] = "taking"
        BY <2>3 DEF TakeStock
      <4>6. written'[c] \cap missed'[c] = {}
        BY <4>2, <4>5 DEF CheckoutInv, TakenSoFar
      <4> QED
        BY <4>1, <4>3, <4>4, <4>6 DEF TakenSoFar
    <3> QED
      BY <3>1, <3>4 DEF CheckoutInv
  <2>4. CASE CheckoutCommit(c)
    <3>1. Commit(c) /\ pc' = [pc EXCEPT ![c] = "placed"]
      BY <2>4 DEF CheckoutCommit
    <3> QED
      BY <3>1, CommitStepKeepsCheckouts
  <2> QED
    BY <1>2, <2>1, <2>2, <2>3, <2>4 DEF CheckoutStep
<1>3. ASSUME NEW s \in Staff, StaffBegin(s)
      PROVE  CheckoutInv'
  <2>1. ASSUME NEW c \in Customer, CancelBegin(s, c)
        PROVE  CheckoutInv'
    BY <2>1, OthersKeepCheckouts DEF CancelBegin, dbVars
  <2>2. ASSUME NEW c \in Customer, NEW status \in Status, StatusRead(s, c, status)
        PROVE  CheckoutInv'
    BY <2>2, OthersKeepCheckouts DEF StatusRead, dbVars, txVars
  <2>3. ASSUME NEW c \in Customer, DeleteOrder(s, c)
        PROVE  CheckoutInv'
    BY <2>3, OthersKeepCheckouts DEF DeleteOrder, txVars
  <2>4. ASSUME NEW v \in Variant, NEW quantity, AdjustStock(s, v, quantity)
        PROVE  CheckoutInv'
    BY <2>4, OthersKeepCheckouts DEF AdjustStock, dbVars
  <2> QED
    BY <1>3, <2>1, <2>2, <2>3, <2>4 DEF StaffBegin, SetStock
<1>4. ASSUME NEW s \in Staff, StaffStep(s)
      PROVE  CheckoutInv'
  <2>1. ASSUME NEW l \in Line, CancelReadStock(s, l)
        PROVE  CheckoutInv'
    <3>1. \A u \in Tx \ {s} : seen'[u] = seen[u] /\ missed'[u] = missed[u]
      BY <2>1 DEF CancelReadStock
    <3> QED
      BY <2>1, <3>1, OthersKeepCheckouts DEF CancelReadStock, dbVars
  <2>2. CASE CancelWriteStock(s)
    BY <2>2, OthersKeepCheckouts DEF CancelWriteStock, WriteStock, dbVars
  <2>3. CASE CancelCommit(s)
    <3>1. Commit(s) /\ pc' = [pc EXCEPT ![s] = "done"]
      BY <2>3 DEF CancelCommit
    <3> QED
      BY <3>1, CommitStepKeepsCheckouts
  <2>4. CASE StatusWrite(s)
    BY <2>4, OthersKeepCheckouts DEF StatusWrite, txVars
  <2>5. CASE MovementRead(s)
    BY <2>5, OthersKeepCheckouts DEF MovementRead, dbVars
  <2>6. CASE MovementRefused(s)
    BY <1>1, <2>6 DEF MovementRefused
  <2>7. CASE MovementWrite(s)
    <3> DEFINE v == subject[s]
    <3>1. v \in Variant /\ \A u \in Tx \ {s} : {v} \cap written[u] = {}
      BY <2>7 DEF MovementWrite, LockedByOther
    <3>2. /\ Publish(s, {v})
          /\ \A w \in Variant \ {v} : stock'[w] = stock[w]
          /\ UNCHANGED <<todo, seen, written, buf>>
          /\ pc' = [pc EXCEPT ![s] = "recording"]
      BY <2>7 DEF MovementWrite, DatabaseTypeOK
    <3>3. /\ pc'[s] \notin {"begun", "taking"}
          /\ \A u \in Tx \ {s} : /\ pc'[u] = pc[u]
                                  /\ todo'[u] = todo[u]
                                  /\ seen'[u] = seen[u]
                                  /\ written'[u] = written[u]
                                  /\ buf'[u] = buf[u]
      BY <3>2
    <3>4. {v} \in SUBSET Variant
      BY <3>1
    <3> HIDE DEF v
    <3> QED
      BY <3>1, <3>2, <3>3, <3>4, CommitKeepsCheckouts
  <2>8. CASE MovementRecord(s)
    BY <2>8, OthersKeepCheckouts DEF MovementRecord, Forget
  <2> QED
    BY <1>4, <2>1, <2>2, <2>3, <2>4, <2>5, <2>6, <2>7, <2>8 DEF StaffStep
<1>5. ASSUME NEW t \in Tx, Refused(t) \/ Interrupted(t)
      PROVE  CheckoutInv'
  BY <1>1, <1>5 DEF Refused, Interrupted
<1>6. CASE UNCHANGED vars
  BY <1>6 DEF vars, dbVars, txVars, CheckoutInv, Snapshot, TakenSoFar, Handled
<1> QED
  BY <1>2, <1>3, <1>4, <1>5, <1>6 DEF Next

-----------------------------------------------------------------------------
(* Orders: a checkout is one indivisible sale *)

LEMMA WantedByLine ==
    ASSUME OneLinePerVariant, NEW c \in Customer, NEW l \in Bag(c)
    PROVE  Promise!Wanted(c, VariantOf[l]) = Qty[l]
<1>1. l \in Promise!Bag(c)
  BY DEF Bag, Promise!Bag
<1>2. \A m \in Promise!Bag(c) : VariantOf[m] = VariantOf[l] => m = l
  BY OrdersAssumption DEF Bag, Promise!Bag, OneLinePerVariant
<1> QED
  BY <1>1, <1>2 DEF Promise!Wanted

LEMMA NothingWanted ==
    ASSUME NEW c \in Customer, NEW v, \A l \in Bag(c) : VariantOf[l] # v
    PROVE  Promise!Wanted(c, v) = 0
BY DEF Promise!Wanted, Promise!Bag, Bag

LEMMA CommitIsASale ==
    ASSUME OneLinePerVariant, TypeOK, NothingNegativeAhead, CheckoutInv,
           NEW c \in Customer, CheckoutCommit(c)
    PROVE  Promise!Sell(c)
<1> USE OrdersAssumption DEF Tx, TypeOK, DatabaseTypeOK, TransactionTypeOK, RequestTypeOK
<1>1. pc[c] = "taking" /\ todo[c] = {} /\ pc' = [pc EXCEPT ![c] = "placed"]
  BY DEF CheckoutCommit
<1>2. Handled(c) = Bag(c)
  BY <1>1 DEF Handled
<1>3. ASSUME NEW v \in Variant
      PROVE  /\ Promise!Wanted(c, v) <= stock[v]
             /\ stock'[v] = stock[v] - Promise!Wanted(c, v)
  <2>1. CASE v \in written[c]
    <3>0. written[c] = {VariantOf[l] : l \in Handled(c)}
      BY <1>1 DEF CheckoutInv, TakenSoFar
    <3>1. PICK l \in Bag(c) : VariantOf[l] = v
      BY <1>2, <2>1, <3>0
    <3>2. buf[c][v] = seen[c][v] - Qty[l]
      BY <1>1, <1>2, <3>1 DEF CheckoutInv, TakenSoFar
    <3>3. seen[c][v] = stock[v]
      BY <1>1, <2>1 DEF CheckoutInv, Snapshot, TakenSoFar
    <3>4. Qty[l] <= seen[c][v]
      BY <1>1, <3>1 DEF NothingNegativeAhead
    <3>5. stock'[v] = buf[c][v]
      BY <2>1 DEF CheckoutCommit, Commit
    <3>6. Promise!Wanted(c, v) = Qty[l]
      BY <3>1, WantedByLine
    <3> QED
      BY <3>2, <3>3, <3>4, <3>5, <3>6
  <2>2. CASE v \notin written[c]
    <3>1. \A l \in Bag(c) : VariantOf[l] # v
      <4>1. written[c] = {VariantOf[l] : l \in Handled(c)}
        BY <1>1 DEF CheckoutInv, TakenSoFar
      <4> QED
        BY <1>2, <2>2, <4>1
    <3>2. stock'[v] = stock[v]
      BY <2>2 DEF CheckoutCommit, Commit
    <3> QED
      BY <3>1, <3>2, NothingWanted DEF NothingNegativeAhead, StockNeverNegative
  <2> QED
    BY <2>1, <2>2
<1>4. stock' = [v \in Variant |-> stock[v] - Promise!Wanted(c, v)]
  <2>1. stock' = [v \in Variant |-> stock'[v]]
    BY DEF CheckoutCommit, Commit
  <2> QED
    BY <1>3, <2>1
<1>5. c \notin CheckedOut /\ CheckedOut' = CheckedOut \cup {c}
  BY <1>1 DEF CheckedOut
<1> QED
  BY <1>3, <1>4, <1>5 DEF Promise!Sell

\* Only CheckoutCommit makes an order placed, and nothing unplaces it.
LEMMA OthersPlaceNothing ==
    ASSUME TypeOK, [Next]_vars, \A c \in Customer : ~CheckoutCommit(c)
    PROVE  UNCHANGED CheckedOut
<1> USE OrdersAssumption DEF Tx, TypeOK, RequestTypeOK, CheckoutPc, StaffPc, CheckedOut
<1>1. ASSUME NEW c \in Customer, CheckoutBegin(c) \/ CheckoutStep(c)
      PROVE  UNCHANGED CheckedOut
  BY <1>1 DEF CheckoutStep, CheckoutBegin, InsertOrder, TakeStock
<1>2. ASSUME NEW s \in Staff, StaffBegin(s)
      PROVE  UNCHANGED CheckedOut
  BY <1>2 DEF StaffBegin, CancelBegin, StatusRead, DeleteOrder, AdjustStock, SetStock
<1>3. ASSUME NEW s \in Staff, StaffStep(s)
      PROVE  UNCHANGED CheckedOut
  BY <1>3 DEF StaffStep, CancelReadStock, CancelWriteStock, CancelCommit, StatusWrite,
     MovementRead, MovementRefused, Rollback, MovementWrite, MovementRecord
<1>4. ASSUME NEW t \in Tx, Refused(t) \/ Interrupted(t)
      PROVE  UNCHANGED CheckedOut
  BY <1>4 DEF Refused, Interrupted, InFlight, Rollback
<1>5. CASE UNCHANGED vars
  BY <1>5 DEF vars
<1> QED
  BY <1>1, <1>2, <1>3, <1>4, <1>5 DEF Next

\* createOrder keeps the promise of Sales: whatever runs beside it, and
\* wherever it is interrupted, a bag becomes an order at most once, in one
\* step that finds every line in stock and takes exactly those quantities.
\* The bag must not hold two lines of one variant.
THEOREM CheckoutIsASale ==
    ASSUME OneLinePerVariant
    PROVE  Spec => SaleIsAtomic
<1>1. Init => Promise!Init
  BY DEF Init, Promise!Init, CheckedOut, Tx
<1>2. TypeOK /\ TypeOK' /\ NothingNegativeAhead /\ NothingNegativeAhead' /\ CheckoutInv
        /\ [Next]_vars => [Promise!Next]_(Promise!salesVars)
  <2> SUFFICES ASSUME TypeOK, TypeOK', NothingNegativeAhead, NothingNegativeAhead',
                      CheckoutInv, [Next]_vars
               PROVE  Promise!Next
    OBVIOUS
  <2>1. CASE \E c \in Customer : CheckoutCommit(c)
    BY <2>1, CommitIsASale DEF Promise!Next
  <2>2. CASE \A c \in Customer : ~CheckoutCommit(c)
    <3>1. stock' \in [Variant -> Int] /\ \A v \in Variant : stock'[v] >= 0
      BY DEF TypeOK, DatabaseTypeOK, NothingNegativeAhead, StockNeverNegative
    <3>2. stock' \in [Variant -> Nat]
      BY <3>1
    <3> QED
      BY <2>2, <3>2, OthersPlaceNothing DEF Promise!Next, Promise!StaffMovesStock
  <2> QED
    BY <2>1, <2>2
<1>3. TypeOK /\ Locks /\ NothingNegativeAhead /\ CheckoutInv /\ [Next]_vars => CheckoutInv'
  BY StepCheckoutInv
<1> QED
  BY <1>1, <1>2, <1>3, TypeCorrect, InitLocks, StepLocks, InitNothingNegativeAhead,
     StepNothingNegativeAhead, InitCheckoutInv, PTL DEF Spec, SaleIsAtomic, Promise!Spec

-----------------------------------------------------------------------------
(* Orders: the ledger *)

\* A balance about to be committed is the committed one plus what the ledger
\* will say, unless the row was committed by somebody else in between.
WritesAccounted(t) ==
    /\ \A v \in written[t] \ missed[t] : buf[t][v] = stock[v] + moved[t][v]
    /\ pc[t] \notin {"moving", "adjusting", "recording"} =>
          \A v \in Variant \ written[t] : moved[t][v] = 0

ReadsAccounted(s) ==
    /\ pc[s] = "restocking" /\ VariantOf[line[s]] \notin missed[s] =>
          seen[s][VariantOf[line[s]]]
              = stock[VariantOf[line[s]]] + moved[s][VariantOf[line[s]]]
    /\ pc[s] = "adjusting" /\ subject[s] \notin missed[s] =>
          seen[s][subject[s]] = stock[subject[s]]

Accounting ==
    /\ LedgerExplainsBalance
    /\ \A t \in Tx : WritesAccounted(t)
    /\ \A s \in Staff : ReadsAccounted(s)

LEMMA InitAccounting == Init => Accounting
BY OrdersAssumption DEF Init, Accounting, WritesAccounted, ReadsAccounted,
   LedgerExplainsBalance, Zero, Tx

\* A step of one request that leaves the balances alone.
LEMMA OneRequestSteps ==
    ASSUME Accounting, NEW t \in Tx, UNCHANGED stock,
           \A u \in Tx \ {t} : /\ pc'[u] = pc[u] /\ written'[u] = written[u]
                               /\ buf'[u] = buf[u] /\ moved'[u] = moved[u]
                               /\ seen'[u] = seen[u] /\ missed'[u] = missed[u],
           \A s \in Staff \ {t} : line'[s] = line[s] /\ subject'[s] = subject[s],
           LedgerExplainsBalance', WritesAccounted(t)',
           t \in Staff => ReadsAccounted(t)'
    PROVE  Accounting'
<1>1. ASSUME NEW u \in Tx \ {t} PROVE WritesAccounted(u)'
  BY <1>1 DEF Accounting, WritesAccounted
<1>2. ASSUME NEW s \in Staff \ {t} PROVE ReadsAccounted(s)'
  BY <1>2 DEF Accounting, ReadsAccounted, Tx
<1> QED
  BY <1>1, <1>2 DEF Accounting

\* A commit moves balance and ledger by the same quantity, unless it overwrites
\* a commit it never saw, which makes the variant a lost one.
LEMMA CommitAccounting ==
    ASSUME TypeOK, Locks, Accounting, NEW t \in Tx, Commit(t),
           pc[t] \notin {"moving", "adjusting", "recording"},
           NEW where, where \notin {"moving", "adjusting", "recording", "restocking"},
           pc' = [pc EXCEPT ![t] = where],
           UNCHANGED <<subject, line, unrecorded>>
    PROVE  Accounting'
<1> USE OrdersAssumption DEF Tx, TypeOK, DatabaseTypeOK, TransactionTypeOK, RequestTypeOK
<1>1. ASSUME NEW v \in Variant \ lost'
      PROVE  stock'[v] = ledger'[v] + unrecorded'[v]
  <2>1. v \notin lost /\ (v \in written[t] => v \notin missed[t])
    BY <1>1 DEF Commit, Publish
  <2>2. ledger'[v] = ledger[v] + moved[t][v]
    BY <1>1 DEF Commit
  <2>3. stock'[v] = stock[v] + moved[t][v]
    <3>1. CASE v \in written[t]
      BY <1>1, <2>1, <3>1 DEF Commit, Accounting, WritesAccounted
    <3>2. CASE v \notin written[t]
      <4>1. moved[t][v] = 0
        BY <1>1, <3>2 DEF Accounting, WritesAccounted
      <4> QED
        BY <1>1, <3>2, <4>1 DEF Commit
    <3> QED
      BY <3>1, <3>2
  <2> QED
    BY <1>1, <2>1, <2>2, <2>3 DEF Accounting, LedgerExplainsBalance
<1>2. ASSUME NEW u \in Tx \ {t}
      PROVE  /\ pc'[u] = pc[u] /\ written'[u] = written[u] /\ buf'[u] = buf[u]
             /\ moved'[u] = moved[u] /\ seen'[u] = seen[u]
             /\ missed'[u] = IF Reading(u) THEN missed[u] \cup written[t] ELSE missed[u]
  BY <1>2 DEF Commit, Publish, Forget
<1>3. /\ written'[t] = {} /\ \A v \in Variant : moved'[t][v] = 0
      /\ pc'[t] = where
  BY DEF Commit, Forget, Zero
<1>4. \A v \in Variant \ written[t] : stock'[v] = stock[v]
  BY DEF Commit
<1>5. ASSUME NEW u \in Tx
      PROVE  /\ \A v \in written'[u] \ missed'[u] : buf'[u][v] = stock'[v] + moved'[u][v]
             /\ pc'[u] \notin {"moving", "adjusting", "recording"} =>
                    \A v \in Variant \ written'[u] : moved'[u][v] = 0
  <2>1. CASE u = t
    BY <1>3, <2>1
  <2>2. CASE u # t
    <3>1. WritesAccounted(u) /\ u \in Tx \ {t}
      BY <2>2 DEF Accounting
    <3>2. written[u] \subseteq Variant \ written[t]
      BY <2>2 DEF Locks
    <3>3. \A v \in written[u] : stock'[v] = stock[v]
      BY <1>4, <3>2
    <3>4. missed[u] \subseteq missed'[u]
      <4>1. missed'[u] = missed[u] \cup written[t] \/ missed'[u] = missed[u]
        BY <1>2, <3>1
      <4> HIDE DEF TypeOK
      <4> QED
        BY <4>1
    <3> HIDE DEF Tx, TypeOK
    <3> QED
      BY <1>2, <3>1, <3>3, <3>4 DEF WritesAccounted
  <2> QED
    BY <2>1, <2>2
<1>6. ASSUME NEW s \in Staff
      PROVE  /\ pc'[s] = "restocking" /\ VariantOf[line'[s]] \notin missed'[s] =>
                    seen'[s][VariantOf[line'[s]]]
                        = stock'[VariantOf[line'[s]]] + moved'[s][VariantOf[line'[s]]]
             /\ pc'[s] = "adjusting" /\ subject'[s] \notin missed'[s] =>
                    seen'[s][subject'[s]] = stock'[subject'[s]]
  <2>1. CASE s = t
    BY <1>3, <2>1
  <2>2. CASE s # t
    <3>1. CASE pc[s] = "restocking"
      <4>1. ReadsAccounted(s) /\ s \in Tx \ {t}
        BY <2>2 DEF Accounting
      <4>2. missed'[s] = missed[s] \cup written[t]
        BY <1>2, <3>1, <4>1 DEF Reading
      <4>3. VariantOf[line[s]] \in Variant
        BY <3>1
      <4> HIDE DEF Tx, TypeOK
      <4> QED
        BY <1>2, <1>4, <3>1, <4>1, <4>2, <4>3 DEF ReadsAccounted
    <3>2. CASE pc[s] = "adjusting"
      <4>1. ReadsAccounted(s) /\ s \in Tx \ {t}
        BY <2>2 DEF Accounting
      <4>2. missed'[s] = missed[s] \cup written[t]
        BY <1>2, <3>2, <4>1 DEF Reading
      <4>3. subject[s] \in Variant
        BY <3>2
      <4> HIDE DEF Tx, TypeOK
      <4> QED
        BY <1>2, <1>4, <3>2, <4>1, <4>2, <4>3 DEF ReadsAccounted
    <3> QED
      BY <1>2, <2>2, <3>1, <3>2
  <2> QED
    BY <2>1, <2>2
<1> QED
  BY <1>1, <1>5, <1>6 DEF Accounting, WritesAccounted, ReadsAccounted, LedgerExplainsBalance

LEMMA StepAccounting ==
    ASSUME OneLinePerVariant
    PROVE  TypeOK /\ Locks /\ NothingNegativeAhead /\ CheckoutInv /\ Accounting
             /\ [Next]_vars => Accounting'
<1> SUFFICES ASSUME TypeOK, Locks, NothingNegativeAhead, CheckoutInv, Accounting, [Next]_vars
             PROVE  Accounting'
  OBVIOUS
<1> USE OrdersAssumption DEF Tx, TypeOK, DatabaseTypeOK, TransactionTypeOK, RequestTypeOK,
        CheckoutPc, StaffPc
<1>0. /\ LedgerExplainsBalance
      /\ \A t \in Tx : WritesAccounted(t)
      /\ \A s \in Staff : ReadsAccounted(s)
  BY DEF Accounting
<1>1. ASSUME NEW t \in Tx, Rollback(t)
      PROVE  Accounting'
  <2>1. WritesAccounted(t)'
    BY <1>1 DEF Rollback, Forget, Zero, WritesAccounted
  <2>2. t \in Staff => ReadsAccounted(t)'
    BY <1>1 DEF Rollback, ReadsAccounted
  <2>3. LedgerExplainsBalance'
    BY <1>0, <1>1 DEF Rollback, dbVars, historyVars, LedgerExplainsBalance
  <2>4. UNCHANGED <<stock, line, subject>>
    BY <1>1 DEF Rollback, dbVars, requestVars
  <2>5. \A u \in Tx \ {t} : /\ pc'[u] = pc[u] /\ written'[u] = written[u]
                            /\ buf'[u] = buf[u] /\ moved'[u] = moved[u]
                            /\ seen'[u] = seen[u] /\ missed'[u] = missed[u]
    BY <1>1 DEF Rollback, Forget
  <2> QED
    BY <2>1, <2>2, <2>3, <2>4, <2>5, OneRequestSteps
<1>2. ASSUME NEW c \in Customer, CheckoutBegin(c) \/ CheckoutStep(c)
      PROVE  Accounting'
  <2>1. CASE CheckoutBegin(c)
    <3>1. WritesAccounted(c)'
      <4>1. written[c] = {} /\ pc[c] = "idle"
        BY <2>1 DEF CheckoutBegin, Locks
      <4>2. UNCHANGED <<stock, written, buf, moved>> /\ pc'[c] = "begun"
        BY <2>1 DEF CheckoutBegin
      <4>3. WritesAccounted(c)
        BY <1>0
      <4> HIDE DEF TypeOK
      <4> QED
        BY <4>1, <4>2, <4>3 DEF WritesAccounted
    <3>2. LedgerExplainsBalance'
      BY <1>0, <2>1 DEF CheckoutBegin, historyVars, LedgerExplainsBalance
    <3> QED
      BY <2>1, <3>1, <3>2, OneRequestSteps DEF CheckoutBegin, requestVars
  <2>2. CASE InsertOrder(c)
    BY <2>2 DEF InsertOrder, Accounting, WritesAccounted, ReadsAccounted,
       LedgerExplainsBalance, dbVars, requestVars, historyVars
  <2>3. ASSUME NEW l \in Line, TakeStock(c, l)
        PROVE  Accounting'
    <3> DEFINE v == VariantOf[l]
    <3>1. l \in Bag(c) /\ l \notin Handled(c) /\ pc[c] = "taking"
      BY <2>3 DEF TakeStock, Handled, NothingNegativeAhead
    <3>2. v \notin written[c]
      BY <3>1 DEF CheckoutInv, TakenSoFar, Handled, Bag, OneLinePerVariant
    <3>3. moved[c][v] = 0
      <4>1. WritesAccounted(c) /\ v \in Variant
        BY <1>0
      <4> QED
        BY <3>1, <3>2, <4>1 DEF WritesAccounted
    <3>4. seen[c][v] = stock[v]
      BY <2>3, <3>1 DEF TakeStock, CheckoutInv, Snapshot
    <3>5. v \in Variant /\ Qty[l] \in Int
      OBVIOUS
    <3>6. /\ written' = [written EXCEPT ![c] = @ \cup {v}]
          /\ buf' = [buf EXCEPT ![c][v] = seen[c][v] - Qty[l]]
          /\ moved' = [moved EXCEPT ![c][v] = @ + (0 - Qty[l])]
          /\ UNCHANGED <<stock, ledger, pc, seen, missed, line, subject, lost, unrecorded>>
      BY <2>3 DEF TakeStock, WriteStock, dbVars, requestVars, historyVars
    <3> HIDE DEF v
    <3>7. WritesAccounted(c)'
      <4>1. buf'[c][v] = stock'[v] + moved'[c][v]
        BY <3>3, <3>4, <3>5, <3>6
      <4>2. \A w \in Variant \ {v} : buf'[c][w] = buf[c][w] /\ moved'[c][w] = moved[c][w]
        BY <3>5, <3>6
      <4>3. written'[c] = written[c] \cup {v}
        BY <3>6
      <4>4. WritesAccounted(c) /\ pc'[c] = "taking" /\ UNCHANGED <<stock, missed>>
              /\ written[c] \subseteq Variant
        BY <1>0, <3>1, <3>6
      <4> HIDE DEF TypeOK
      <4> QED
        BY <3>1, <4>1, <4>2, <4>3, <4>4 DEF WritesAccounted
    <3>8. LedgerExplainsBalance'
      BY <1>0, <3>6 DEF LedgerExplainsBalance
    <3>9. \A u \in Tx \ {c} : /\ pc'[u] = pc[u] /\ written'[u] = written[u]
                              /\ buf'[u] = buf[u] /\ moved'[u] = moved[u]
                              /\ seen'[u] = seen[u] /\ missed'[u] = missed[u]
      BY <3>6
    <3> QED
      BY <3>6, <3>7, <3>8, <3>9, OneRequestSteps
  <2>4. CASE CheckoutCommit(c)
    BY <2>4, CommitAccounting DEF CheckoutCommit, requestVars
  <2> QED
    BY <1>2, <2>1, <2>2, <2>3, <2>4 DEF CheckoutStep
<1>3. ASSUME NEW s \in Staff, StaffBegin(s)
      PROVE  Accounting'
  <2>1. ASSUME NEW c \in Customer, CancelBegin(s, c)
        PROVE  Accounting'
    BY <2>1 DEF CancelBegin, Accounting, WritesAccounted, ReadsAccounted,
       LedgerExplainsBalance, dbVars, historyVars
  <2>2. ASSUME NEW c \in Customer, NEW status \in Status, StatusRead(s, c, status)
        PROVE  Accounting'
    BY <2>2 DEF StatusRead, Accounting, WritesAccounted, ReadsAccounted,
       LedgerExplainsBalance, dbVars, txVars, historyVars
  <2>3. ASSUME NEW c \in Customer, DeleteOrder(s, c)
        PROVE  Accounting'
    BY <2>3 DEF DeleteOrder, Accounting, WritesAccounted, ReadsAccounted,
       LedgerExplainsBalance, txVars, requestVars, historyVars
  <2>4. ASSUME NEW v \in Variant, NEW quantity, AdjustStock(s, v, quantity)
        PROVE  Accounting'
    <3>1. WritesAccounted(s)' /\ ReadsAccounted(s)'
      BY <1>0, <2>4 DEF AdjustStock, WritesAccounted, ReadsAccounted, Locks
    <3>2. LedgerExplainsBalance'
      BY <1>0, <2>4 DEF AdjustStock, dbVars, historyVars, LedgerExplainsBalance
    <3> QED
      BY <2>4, <3>1, <3>2, OneRequestSteps DEF AdjustStock, dbVars
  <2> QED
    BY <1>3, <2>1, <2>2, <2>3, <2>4 DEF StaffBegin, SetStock
<1>4. ASSUME NEW s \in Staff, StaffStep(s)
      PROVE  Accounting'
  <2>1. ASSUME NEW l \in Line, CancelReadStock(s, l)
        PROVE  Accounting'
    <3> DEFINE v == VariantOf[l]
    <3>1. pc[s] = "cancelling" /\ v \in Variant /\ s \in Tx
      BY <2>1 DEF CancelReadStock
    <3>2. /\ pc' = [pc EXCEPT ![s] = "restocking"]
          /\ line' = [line EXCEPT ![s] = l]
          /\ UNCHANGED <<stock, ledger, written, buf, moved, subject, lost, unrecorded>>
          /\ IF v \in written[s]
             THEN /\ seen' = [seen EXCEPT ![s][v] = buf[s][v]]
                  /\ UNCHANGED missed
             ELSE /\ seen' = [seen EXCEPT ![s][v] = stock[v]]
                  /\ missed' = [missed EXCEPT ![s] = @ \ {v}]
      BY <2>1 DEF CancelReadStock, dbVars, historyVars
    <3>3. /\ pc'[s] = "restocking" /\ VariantOf[line'[s]] = v
          /\ missed'[s] \subseteq missed[s]
          /\ missed[s] \cap written[s] \subseteq missed'[s]
          /\ seen'[s][v] = IF v \in written[s] THEN buf[s][v] ELSE stock[v]
          /\ v \in written[s] => missed'[s] = missed[s]
      BY <3>1, <3>2
    <3>4. WritesAccounted(s) /\ moved[s][v] \in Int /\ stock[v] \in Int
      BY <1>0, <3>1
    <3>5. \A u \in Tx \ {s} : /\ pc'[u] = pc[u] /\ written'[u] = written[u]
                              /\ buf'[u] = buf[u] /\ moved'[u] = moved[u]
                              /\ seen'[u] = seen[u] /\ missed'[u] = missed[u]
      BY <3>1, <3>2
    <3>6. \A u \in Staff \ {s} : line'[u] = line[u] /\ subject'[u] = subject[u]
      BY <3>2
    <3> HIDE DEF v, TypeOK
    <3>7. WritesAccounted(s)'
      BY <3>1, <3>2, <3>3, <3>4 DEF WritesAccounted
    <3>8. ReadsAccounted(s)'
      BY <3>1, <3>2, <3>3, <3>4 DEF ReadsAccounted, WritesAccounted
    <3>9. LedgerExplainsBalance'
      BY <1>0, <3>2 DEF LedgerExplainsBalance
    <3> QED
      BY <3>1, <3>2, <3>5, <3>6, <3>7, <3>8, <3>9, OneRequestSteps
  <2>2. CASE CancelWriteStock(s)
    <3> DEFINE v == VariantOf[line[s]]
               q == Qty[line[s]]
    <3>1. pc[s] = "restocking" /\ line[s] \in Line
      BY <2>2 DEF CancelWriteStock
    <3>2. v \in Variant /\ q \in Int
      BY <3>1
    <3>3. v \notin missed[s] => seen[s][v] = stock[v] + moved[s][v]
      BY <1>0, <3>1 DEF ReadsAccounted
    <3>4. /\ written' = [written EXCEPT ![s] = @ \cup {v}]
          /\ buf' = [buf EXCEPT ![s][v] = seen[s][v] + q]
          /\ moved' = [moved EXCEPT ![s][v] = @ + q]
          /\ pc' = [pc EXCEPT ![s] = "cancelling"]
          /\ line' = [line EXCEPT ![s] = None]
          /\ UNCHANGED <<stock, ledger, seen, missed, subject, lost, unrecorded>>
      BY <2>2 DEF CancelWriteStock, WriteStock, dbVars, historyVars
    <3> HIDE DEF v, q
    <3>5. WritesAccounted(s)'
      <4>1. v \notin missed[s] => buf'[s][v] = stock'[v] + moved'[s][v]
        BY <3>2, <3>3, <3>4
      <4>2. \A w \in Variant \ {v} : buf'[s][w] = buf[s][w] /\ moved'[s][w] = moved[s][w]
        BY <3>2, <3>4
      <4>3. written'[s] = written[s] \cup {v}
        BY <3>4
      <4>4. WritesAccounted(s) /\ pc'[s] = "cancelling" /\ UNCHANGED <<stock, missed>>
              /\ written[s] \subseteq Variant
        BY <1>0, <3>1, <3>4
      <4> HIDE DEF TypeOK
      <4> QED
        BY <3>1, <4>1, <4>2, <4>3, <4>4 DEF WritesAccounted
    <3>6. ReadsAccounted(s)'
      BY <3>4 DEF ReadsAccounted
    <3>7. LedgerExplainsBalance'
      BY <1>0, <3>4 DEF LedgerExplainsBalance
    <3>8. \A u \in Tx \ {s} : /\ pc'[u] = pc[u] /\ written'[u] = written[u]
                              /\ buf'[u] = buf[u] /\ moved'[u] = moved[u]
                              /\ seen'[u] = seen[u] /\ missed'[u] = missed[u]
      BY <3>4
    <3> QED
      BY <3>4, <3>5, <3>6, <3>7, <3>8, OneRequestSteps
  <2>3. CASE CancelCommit(s)
    BY <2>3, CommitAccounting DEF CancelCommit, requestVars
  <2>4. CASE StatusWrite(s)
    BY <2>4 DEF StatusWrite, Accounting, WritesAccounted, ReadsAccounted,
       LedgerExplainsBalance, txVars, requestVars, historyVars
  <2>5. CASE MovementRead(s)
    BY <2>5 DEF MovementRead, Accounting, WritesAccounted, ReadsAccounted,
       LedgerExplainsBalance, dbVars, requestVars, historyVars
  <2>6. CASE MovementRefused(s)
    BY <1>1, <2>6 DEF MovementRefused
  <2>7. CASE MovementWrite(s)
    <3> DEFINE v == subject[s]
    <3>1. pc[s] = "adjusting" /\ v \in Variant /\ moved[s][v] \in Int /\ seen[s][v] \in Int
      BY <2>7 DEF MovementWrite
    <3>2. /\ stock' = [stock EXCEPT ![v] = seen[s][v] + moved[s][v]]
          /\ unrecorded' = [unrecorded EXCEPT ![v] = @ + moved[s][v]]
          /\ pc' = [pc EXCEPT ![s] = "recording"]
          /\ lost' = lost \cup ({v} \cap missed[s])
          /\ missed' = [u \in Tx |-> IF u = s THEN {}
                                     ELSE IF Reading(u) THEN missed[u] \cup {v} ELSE missed[u]]
          /\ UNCHANGED <<ledger, written, buf, moved, seen, line, subject>>
          /\ ~LockedByOther(v, s)
      BY <2>7 DEF MovementWrite, Publish, requestVars
    <3> HIDE DEF v
    <3>3. LedgerExplainsBalance'
      <4>1. v \notin missed[s] => seen[s][v] = stock[v]
        BY <1>0, <3>1 DEF ReadsAccounted, v
      <4> QED
        BY <1>0, <3>1, <3>2, <4>1 DEF LedgerExplainsBalance
    <3>4. ASSUME NEW u \in Tx PROVE WritesAccounted(u)'
      <4>1. v \notin written[u]
        BY <3>1, <3>2 DEF LockedByOther, Locks
      <4>2. missed[u] \cap written[u] \subseteq missed'[u]
        <5>1. CASE u = s
          BY <3>1, <5>1 DEF Locks
        <5>2. CASE u # s
          BY <3>2, <5>2
        <5> QED
          BY <5>1, <5>2
      <4>3. \A w \in written[u] : stock'[w] = stock[w]
        BY <3>1, <3>2, <4>1
      <4>4. pc'[u] \notin {"moving", "adjusting", "recording"} => pc'[u] = pc[u]
        BY <3>2
      <4>5. WritesAccounted(u)
        BY <1>0
      <4>6. UNCHANGED <<written, buf, moved>>
        BY <3>2
      <4> HIDE DEF TypeOK
      <4> QED
        BY <4>2, <4>3, <4>4, <4>5, <4>6 DEF WritesAccounted
    <3>5. ASSUME NEW u \in Staff PROVE ReadsAccounted(u)'
      <4>1. CASE u = s
        BY <3>1, <3>2, <4>1 DEF ReadsAccounted
      <4>2. CASE u # s /\ pc[u] \in {"restocking", "adjusting"}
        BY <1>0, <3>1, <3>2, <4>2 DEF ReadsAccounted, Reading
      <4>3. CASE u # s /\ pc[u] \notin {"restocking", "adjusting"}
        BY <3>2, <4>3 DEF ReadsAccounted
      <4> QED
        BY <4>1, <4>2, <4>3
    <3> QED
      BY <3>3, <3>4, <3>5 DEF Accounting
  <2>8. CASE MovementRecord(s)
    <3>1. WritesAccounted(s)' /\ ReadsAccounted(s)'
      BY <2>8 DEF MovementRecord, Forget, Zero, WritesAccounted, ReadsAccounted
    <3>2. LedgerExplainsBalance'
      BY <1>0, <2>8 DEF MovementRecord, LedgerExplainsBalance
    <3>3. UNCHANGED <<stock, line, subject>>
      BY <2>8 DEF MovementRecord, requestVars
    <3>4. \A u \in Tx \ {s} : /\ pc'[u] = pc[u] /\ written'[u] = written[u]
                              /\ buf'[u] = buf[u] /\ moved'[u] = moved[u]
                              /\ seen'[u] = seen[u] /\ missed'[u] = missed[u]
      BY <2>8 DEF MovementRecord, Forget
    <3> QED
      BY <3>1, <3>2, <3>3, <3>4, OneRequestSteps
  <2> QED
    BY <1>4, <2>1, <2>2, <2>3, <2>4, <2>5, <2>6, <2>7, <2>8 DEF StaffStep
<1>5. ASSUME NEW t \in Tx, Refused(t) \/ Interrupted(t)
      PROVE  Accounting'
  BY <1>1, <1>5 DEF Refused, Interrupted
<1>6. CASE UNCHANGED vars
  BY <1>6 DEF vars, dbVars, txVars, requestVars, historyVars, Accounting, WritesAccounted,
     ReadsAccounted, LedgerExplainsBalance
<1> QED
  BY <1>2, <1>3, <1>4, <1>5, <1>6 DEF Next

\* Balance and movement ledger part company in two ways only: a staff request
\* overwrites a balance committed after it read, or applyMovement is
\* interrupted between the balance and its movement row.  The bag must not
\* hold two lines of one variant, which is a third way.
THEOREM LedgerIsExplained ==
    ASSUME OneLinePerVariant
    PROVE  Spec => []LedgerExplainsBalance
<1>1. TypeOK /\ Locks /\ NothingNegativeAhead /\ CheckoutInv /\ [Next]_vars => CheckoutInv'
  BY StepCheckoutInv
<1>2. TypeOK /\ Locks /\ NothingNegativeAhead /\ CheckoutInv /\ Accounting /\ [Next]_vars
        => Accounting'
  BY StepAccounting
<1>3. Accounting => LedgerExplainsBalance
  BY DEF Accounting
<1> QED
  BY <1>1, <1>2, <1>3, TypeCorrect, InitLocks, StepLocks, InitNothingNegativeAhead,
     StepNothingNegativeAhead, InitCheckoutInv, InitAccounting, PTL DEF Spec

\* With one line per variant in a bag, what is on the shelf is explained:
\* whatever overlaps, no request loses its order or variant, no balance is
\* negative and the ledger accounts for it.
THEOREM ShelfIsExplained ==
    ASSUME OneLinePerVariant
    PROVE  Spec => []StockIsExplained
<1>1. TypeOK /\ StockNeverNegative /\ LedgerExplainsBalance => StockIsExplained
  BY DEF StockIsExplained
<1> QED
  BY <1>1, TypeCorrect, StockIsNeverNegative, LedgerIsExplained, PTL

-----------------------------------------------------------------------------
(* Orders: order numbers *)

\* A checkout nobody has overtaken has the number that comes next.
NumbersInv ==
    /\ Placed \subseteq CheckedOut
    /\ NumbersAreTheCount
    /\ CheckedOut = Placed =>
          \A c \in Customer : pc[c] \in {"begun", "taking"} /\ c \notin outrun =>
              number[c] = Cardinality(Placed) + 1

LEMMA InitNumbers == Init => NumbersInv
<1> SUFFICES ASSUME Init
             PROVE  NumbersInv
  OBVIOUS
<1>1. Placed = {} /\ CheckedOut = {} /\ \A c \in Customer : pc[c] = "idle"
  BY DEF Init, Placed, CheckedOut, Tx
<1>2. 1 .. Cardinality(Placed) = {}
  BY <1>1, FS_EmptySet
<1> QED
  BY <1>1, <1>2 DEF NumbersInv, NumbersAreTheCount

LEMMA PlacedFinite == IsFiniteSet(Placed) /\ Cardinality(Placed) \in Nat
<1>1. IsFiniteSet(Placed)
  BY OrdersAssumption, FS_Subset DEF Placed
<1> QED
  BY <1>1, FS_CardinalityType

\* A step that commits no checkout leaves the numbers of the placed alone, and
\* mints the next number or none.
MintsNext ==
    /\ Placed' \subseteq Placed
    /\ \A c \in CheckedOut : number'[c] = number[c]
    /\ \A c \in Customer : pc'[c] \in {"begun", "taking"} /\ c \notin outrun' =>
          \/ pc[c] \in {"begun", "taking"} /\ c \notin outrun /\ number'[c] = number[c]
          \/ number'[c] = Cardinality(Placed) + 1

LEMMA OthersMintNext ==
    ASSUME TypeOK, [Next]_vars, \A c \in Customer : ~CheckoutCommit(c)
    PROVE  MintsNext
<1> USE OrdersAssumption DEF Tx, TypeOK, DatabaseTypeOK, TransactionTypeOK, RequestTypeOK,
                             CheckoutPc, StaffPc, Placed, CheckedOut
<1>1. ASSUME NEW c \in Customer, CheckoutBegin(c)
      PROVE  MintsNext
  BY <1>1 DEF CheckoutBegin, MintsNext
<1>2. ASSUME NEW c \in Customer, CheckoutStep(c)
      PROVE  MintsNext
  BY <1>2 DEF CheckoutStep, InsertOrder, TakeStock, dbVars, MintsNext
<1>3. ASSUME NEW s \in Staff, StaffBegin(s)
      PROVE  MintsNext
  BY <1>3 DEF StaffBegin, CancelBegin, StatusRead, DeleteOrder, AdjustStock, SetStock,
              dbVars, txVars, MintsNext
<1>4. ASSUME NEW t \in Tx, Rollback(t)
      PROVE  MintsNext
  BY <1>4 DEF Rollback, dbVars, MintsNext
<1>5. ASSUME NEW s \in Staff, StaffStep(s)
      PROVE  MintsNext
  <2>1. CASE CancelCommit(s)
    BY <2>1 DEF CancelCommit, MintsNext
  <2>2. CASE StatusWrite(s)
    BY <2>2 DEF StatusWrite, txVars, MintsNext
  <2>3. CASE MovementRefused(s)
    BY <1>4, <2>3 DEF MovementRefused
  <2>4. CASE MovementWrite(s) \/ MovementRecord(s)
    BY <2>4 DEF MovementWrite, MovementRecord, MintsNext
  <2>5. CASE CancelWriteStock(s) \/ MovementRead(s)
    BY <2>5 DEF CancelWriteStock, MovementRead, dbVars, MintsNext
  <2>6. CASE \E l \in Line : CancelReadStock(s, l)
    BY <2>6 DEF CancelReadStock, dbVars, MintsNext
  <2> QED
    BY <1>5, <2>1, <2>2, <2>3, <2>4, <2>5, <2>6 DEF StaffStep
<1>6. CASE UNCHANGED vars
  BY <1>6 DEF vars, dbVars, txVars, MintsNext
<1> QED
  BY <1>1, <1>2, <1>3, <1>4, <1>5, <1>6 DEF Next, Refused, Interrupted

LEMMA WithoutTheNew ==
    ASSUME NEW A, NEW B, NEW x, x \notin A, x \notin B, A \cup {x} = B \cup {x}
    PROVE  A = B
<1>1. \A y : y \in A <=> y \in B
  OBVIOUS
<1> QED
  BY <1>1

LEMMA OneMore == \A n \in Nat : 1 .. n + 1 = (1 .. n) \cup {n + 1}
OBVIOUS

LEMMA StepNumbers == TypeOK /\ NumbersInv /\ [Next]_vars => NumbersInv'
<1> SUFFICES ASSUME TypeOK, NumbersInv, [Next]_vars
             PROVE  NumbersInv'
  OBVIOUS
<1>1. CASE \A c \in Customer : ~CheckoutCommit(c)
  <2>1. MintsNext /\ CheckedOut' = CheckedOut
    BY <1>1, OthersMintNext, OthersPlaceNothing
  <2>2. Placed' \subseteq CheckedOut'
    BY <2>1 DEF NumbersInv, MintsNext
  <2>3. CheckedOut' = Placed' => Placed' = Placed /\ CheckedOut = Placed
    BY <2>1 DEF NumbersInv, MintsNext
  <2>4. NumbersAreTheCount'
    <3> SUFFICES ASSUME CheckedOut' = Placed'
                 PROVE  {number'[c] : c \in Placed'} = 1 .. Cardinality(Placed')
      BY DEF NumbersAreTheCount
    <3>1. {number'[c] : c \in Placed'} = {number[c] : c \in Placed}
      BY <2>1, <2>3 DEF MintsNext
    <3> QED
      BY <2>3, <3>1 DEF NumbersInv, NumbersAreTheCount
  <2>5. ASSUME CheckedOut' = Placed', NEW c \in Customer,
               pc'[c] \in {"begun", "taking"}, c \notin outrun'
        PROVE  number'[c] = Cardinality(Placed') + 1
    BY <2>1, <2>3, <2>5 DEF NumbersInv, MintsNext
  <2> QED
    BY <2>2, <2>4, <2>5 DEF NumbersInv
<1>2. ASSUME NEW c \in Customer, CheckoutCommit(c)
      PROVE  NumbersInv'
  <2> USE OrdersAssumption DEF Tx, TypeOK, DatabaseTypeOK, TransactionTypeOK, RequestTypeOK
  <2>1. /\ Placed' = Placed \cup {c} /\ CheckedOut' = CheckedOut \cup {c}
        /\ c \notin CheckedOut /\ number' = number
    BY <1>2 DEF CheckoutCommit, Placed, CheckedOut, NoOrder
  <2>2. c \notin Placed
    BY <2>1 DEF NumbersInv
  <2>3. Cardinality(Placed') = Cardinality(Placed) + 1 /\ Cardinality(Placed) \in Nat
    BY <2>1, <2>2, PlacedFinite, FS_AddElement
  <2>4. CheckedOut' = Placed' => CheckedOut = Placed
    BY <2>1, <2>2, WithoutTheNew, Zenon
  <2>5. NumbersAreTheCount'
    <3> SUFFICES ASSUME CheckedOut' = Placed'
                 PROVE  {number'[d] : d \in Placed'} = 1 .. Cardinality(Placed')
      BY DEF NumbersAreTheCount
    <3>1. {number[d] : d \in Placed} = 1 .. Cardinality(Placed)
      BY <2>4 DEF NumbersInv, NumbersAreTheCount
    <3>2. number[c] = Cardinality(Placed) + 1
      BY <1>2, <2>4 DEF CheckoutCommit, NumbersInv
    <3>3. {number'[d] : d \in Placed'} = {number[d] : d \in Placed} \cup {number[c]}
      BY <2>1
    <3>4. 1 .. Cardinality(Placed') = (1 .. Cardinality(Placed)) \cup {Cardinality(Placed) + 1}
      BY <2>3, OneMore
    <3> QED
      BY <3>1, <3>2, <3>3, <3>4
  <2>6. \A d \in Customer : pc'[d] \in {"begun", "taking"} => d \in outrun'
    BY <1>2 DEF CheckoutCommit
  <2>7. Placed' \subseteq CheckedOut'
    BY <2>1 DEF NumbersInv
  <2> QED
    BY <2>5, <2>6, <2>7 DEF NumbersInv
<1> QED
  BY <1>1, <1>2

\* createOrder numbers an order by counting the orders there are: as long as
\* none has been deleted the numbers are 1, 2, 3 and so on, whichever checkouts
\* overlap.
THEOREM NumbersAreAlwaysTheCount == Spec => []NumbersAreTheCount
<1>1. NumbersInv => NumbersAreTheCount
  BY DEF NumbersInv
<1> QED
  BY <1>1, TypeCorrect, InitNumbers, StepNumbers, PTL DEF Spec


-----------------------------------------------------------------------------
(* Accounts: the inductive invariant *)

Known(acc) == {u \in User : acc[u] \in Account}

\* A change names the account whose row it writes.
Sound(acc) == {c \in Change : IF c.user = Omitted THEN c.status = Omitted /\ c.roles = Omitted
                                               ELSE c.user \in Known(acc)}

\* The requests there can be while there are m sessions and n links.
Possible(acc, m, n) ==
    {Idle}
    \cup [op : {"issue"}, user : Known(acc), family : 0 .. m, since : Nat]
    \cup [op : {"reuse"}, family : Nat]
    \cup [op : {"rotate"}, token : 1 .. m]
    \cup [op : {"rehash", "sign_out", "void", "mail", "erase"}, user : Known(acc)]
    \cup [op : {"reset"}, link : 1 .. n]
    \cup [op : {"change"}, change : Sound(acc)]
    \cup [op : {"commit"}, change : Sound(acc), stale : BOOLEAN]
    \cup [op : {"delete_role"}, role : Role]

RowsTyped ==
    /\ account \in [User -> Account \cup {NoAccount}]
    /\ roles \in [User -> SUBSET Role]
    /\ grants \in [Role -> SUBSET Permission]
    /\ session \in Seq(Session)
    /\ link \in Seq(Link)
    /\ served \in 0 .. MaxRequests
    /\ unfinished \subseteq User
    /\ forked \subseteq Nat
    /\ unchecked \in BOOLEAN

RequestsTyped == request \in [Handler -> Possible(account, Len(session), Len(link))]

\* Sessions and links belong to accounts, a family to a session there is.
Owned ==
    /\ \A i \in DOMAIN session : /\ session[i].owner \in Known(account)
                                 /\ session[i].family \in 1 .. Len(session)
    /\ \A i \in DOMAIN link : link[i].owner \in Known(account)

\* A link that is open has set no password yet.
LinksAreSingle ==
    \A i \in DOMAIN link : link[i].uses <= 1 /\ (link[i].state = "open" => link[i].uses = 0)

\* A family has one live token or one request about to issue it, not both.
Issues(h) == request[h].op = "issue" /\ request[h].family # 0

OneToIssue ==
    \A h \in Handler : Issues(h) /\ request[h].family \notin forked =>
        /\ \A i \in DOMAIN session : session[i].family = request[h].family => ~session[i].live
        /\ \A g \in Handler : Issues(g) /\ request[g].family = request[h].family => g = h

\* What is left of the staff once a change c has been made of these rows.
Passes(acc, ro, gr, c) == RecoveryPath(
    IF c.status = Omitted THEN acc ELSE [acc EXCEPT ![c.user].status = c.status],
    IF c.roles = Omitted THEN ro ELSE [ro EXCEPT ![c.user] = c.roles],
    IF c.role = Omitted THEN gr ELSE [gr EXCEPT ![c.role] = c.permissions])

\* A change that has been checked, to which no commit came after, leaves
\* somebody who can manage staff when it commits.
Fresh(h) == request[h].op = "commit" /\ ~request[h].stale

Checked == \A h \in Handler : Fresh(h) => Passes(account, roles, grants, request[h].change)

StaffStand == RecoveryPathSurvives /\ Checked

AccountsInv == RowsTyped /\ RequestsTyped /\ Owned /\ LinksAreSingle /\ OneHeir /\ OneToIssue
                  /\ SessionsEnd /\ StaffStand

LEMMA InvImplies == AccountsInv => SecretsOpenOnce /\ SessionsEnd /\ RecoveryPathSurvives
<1> SUFFICES ASSUME AccountsInv
             PROVE  SecretsOpenOnce /\ SessionsEnd /\ RecoveryPathSurvives
  OBVIOUS
<1>1. /\ Known(account) \subseteq User /\ Sound(account) \subseteq Change
      /\ 1 .. Len(session) = DOMAIN session /\ 1 .. Len(link) = DOMAIN link
      /\ Len(session) \in Nat
  BY DEF AccountsInv, RowsTyped, Known, Sound
<1>2. ASSUME NEW r \in Possible(account, Len(session), Len(link))
      PROVE  r \in Request
  <2>1. CASE r = Idle
    BY <2>1 DEF Request
  <2>2. CASE r \in [op : {"issue"}, user : Known(account), family : 0 .. Len(session), since : Nat]
    <3>1. r \in [op : {"issue"}, user : User, family : Nat, since : Nat]
      BY <1>1, <2>2
    <3> QED
      BY <3>1 DEF Request
  <2>3. CASE r \in [op : {"reuse"}, family : Nat]
    BY <2>3 DEF Request
  <2>4. CASE r \in [op : {"rotate"}, token : 1 .. Len(session)]
    BY <1>1, <2>4 DEF Request
  <2>5. CASE r \in [op : {"rehash", "sign_out", "void", "mail", "erase"}, user : Known(account)]
    BY <1>1, <2>5 DEF Request
  <2>6. CASE r \in [op : {"reset"}, link : 1 .. Len(link)]
    BY <1>1, <2>6 DEF Request
  <2>7. CASE r \in [op : {"change"}, change : Sound(account)]
    BY <1>1, <2>7 DEF Request
  <2>8. CASE r \in [op : {"commit"}, change : Sound(account), stale : BOOLEAN]
    BY <1>1, <2>8 DEF Request
  <2>9. CASE r \in [op : {"delete_role"}, role : Role]
    BY <2>9 DEF Request
  <2> QED
    BY <2>1, <2>2, <2>3, <2>4, <2>5, <2>6, <2>7, <2>8, <2>9 DEF Possible
<1>3. AccountsTypeOK
  BY <1>2 DEF AccountsInv, RowsTyped, RequestsTyped, AccountsTypeOK
<1> QED
  BY <1>3 DEF AccountsInv, SecretsOpenOnce, LinkOpensOnce, LinksAreSingle, StaffStand

-----------------------------------------------------------------------------
(* Accounts: facts about rows and requests *)

LEMMA InvFacts ==
    ASSUME AccountsInv
    PROVE  /\ RowsTyped /\ RequestsTyped /\ Owned /\ OneHeir /\ OneToIssue
           /\ DOMAIN session = 1 .. Len(session) /\ Len(session) \in Nat
           /\ DOMAIN link = 1 .. Len(link) /\ Len(link) \in Nat
           /\ \A i \in DOMAIN session : session[i] \in Session
           /\ \A i \in DOMAIN link : link[i] \in Link
           /\ \A h \in Handler : request[h] \in Possible(account, Len(session), Len(link))
           /\ \A u \in User : account[u] \in Account \/ account[u] = NoAccount
BY DEF AccountsInv, RowsTyped, RequestsTyped

\* A request's operation tells what it carries.
Says(r, acc, m, n) ==
    /\ r.op = "issue" => r.user \in Known(acc) /\ r.family \in 0 .. m /\ r.since \in Nat
    /\ r.op = "reuse" => r.family \in Nat
    /\ r.op = "rotate" => r.token \in 1 .. m
    /\ r.op \in {"rehash", "sign_out", "void", "mail", "erase"} => r.user \in Known(acc)
    /\ r.op = "reset" => r.link \in 1 .. n
    /\ r.op \in {"change", "commit"} => r.change \in Sound(acc)
    /\ r.op = "commit" => r = [op |-> "commit", change |-> r.change, stale |-> r.stale]
    /\ r.op = "commit" => r.stale \in BOOLEAN
    /\ r.op = "delete_role" => r.role \in Role
    /\ r.op = "idle" => r = Idle

LEMMA OpSays ==
    ASSUME NEW acc, NEW m \in Nat, NEW n \in Nat, NEW r \in Possible(acc, m, n)
    PROVE  Says(r, acc, m, n)
<1> USE DEF Says
<1>1. CASE r = Idle
  BY <1>1 DEF Idle
<1>2. CASE r \in [op : {"issue"}, user : Known(acc), family : 0 .. m, since : Nat]
  BY <1>2
<1>3. CASE r \in [op : {"reuse"}, family : Nat]
  BY <1>3
<1>4. CASE r \in [op : {"rotate"}, token : 1 .. m]
  BY <1>4
<1>5. CASE r \in [op : {"rehash", "sign_out", "void", "mail", "erase"}, user : Known(acc)]
  BY <1>5
<1>6. CASE r \in [op : {"reset"}, link : 1 .. n]
  BY <1>6
<1>7. CASE r \in [op : {"change"}, change : Sound(acc)]
  BY <1>7
<1>8. CASE r \in [op : {"commit"}, change : Sound(acc), stale : BOOLEAN]
  BY <1>8
<1>9. CASE r \in [op : {"delete_role"}, role : Role]
  BY <1>9
<1> QED
  BY <1>1, <1>2, <1>3, <1>4, <1>5, <1>6, <1>7, <1>8, <1>9 DEF Possible

LEMMA RequestSays ==
    ASSUME AccountsInv, NEW h \in Handler
    PROVE  Says(request[h], account, Len(session), Len(link))
BY InvFacts, OpSays

\* What may be asked stays possible as rows are added.
LEMMA PossibleGrows ==
    ASSUME NEW acc, NEW acc2, NEW m \in Nat, NEW m2 \in Nat, NEW n \in Nat, NEW n2 \in Nat,
           Known(acc) \subseteq Known(acc2), m <= m2, n <= n2
    PROVE  Possible(acc, m, n) \subseteq Possible(acc2, m2, n2)
<1>1. Sound(acc) \subseteq Sound(acc2)
  BY DEF Sound
<1> SUFFICES ASSUME NEW r \in Possible(acc, m, n)
             PROVE  r \in Possible(acc2, m2, n2)
  OBVIOUS
<1>2. CASE r \in [op : {"issue"}, user : Known(acc), family : 0 .. m, since : Nat]
  <2>1. r \in [op : {"issue"}, user : Known(acc2), family : 0 .. m2, since : Nat]
    BY <1>2
  <2> QED
    BY <2>1 DEF Possible
<1>3. CASE r \in [op : {"rotate"}, token : 1 .. m]
  <2>1. r \in [op : {"rotate"}, token : 1 .. m2]
    BY <1>3
  <2> QED
    BY <2>1 DEF Possible
<1>4. CASE r \in [op : {"rehash", "sign_out", "void", "mail", "erase"}, user : Known(acc)]
  <2>1. r \in [op : {"rehash", "sign_out", "void", "mail", "erase"}, user : Known(acc2)]
    BY <1>4
  <2> QED
    BY <2>1 DEF Possible
<1>5. CASE r \in [op : {"reset"}, link : 1 .. n]
  <2>1. r \in [op : {"reset"}, link : 1 .. n2]
    BY <1>5
  <2> QED
    BY <2>1 DEF Possible
<1>6. CASE r \in [op : {"change"}, change : Sound(acc)]
  <2>1. r \in [op : {"change"}, change : Sound(acc2)]
    BY <1>1, <1>6
  <2> QED
    BY <2>1 DEF Possible
<1>7. CASE r \in [op : {"commit"}, change : Sound(acc), stale : BOOLEAN]
  <2>1. r \in [op : {"commit"}, change : Sound(acc2), stale : BOOLEAN]
    BY <1>1, <1>7
  <2> QED
    BY <2>1 DEF Possible
<1>8. CASE r \in {Idle} \cup [op : {"reuse"}, family : Nat] \cup [op : {"delete_role"}, role : Role]
  BY <1>8 DEF Possible
<1> QED
  BY <1>2, <1>3, <1>4, <1>5, <1>6, <1>7, <1>8 DEF Possible

\* The other requests stay where they are, but for a commit that is outdated.
Others(h) == \A g \in Handler \ {h} :
    \/ request'[g] = request[g]
    \/ request[g].op = "commit" /\ request'[g] = [request[g] EXCEPT !.stale = TRUE]

LEMMA OthersStand ==
    ASSUME AccountsInv, NEW h \in Handler, NEW work,
           \/ request' = [request EXCEPT ![h] = work]
           \/ request' = [Outdated(h) EXCEPT ![h] = work]
    PROVE  /\ request'[h] = work /\ Others(h) /\ request' = [g \in Handler |-> request'[g]]
BY InvFacts DEF RequestsTyped, Outdated, Others

LEMMA OthersSay ==
    ASSUME AccountsInv, NEW h \in Handler, Others(h), NEW g \in Handler \ {h}
    PROVE  /\ request'[g].op = request[g].op
           /\ request[g].op # "commit" => request'[g] = request[g]
           /\ request[g].op = "commit" => request'[g].change = request[g].change
           /\ Fresh(g)' => Fresh(g)
BY RequestSays DEF Others, Says, Fresh

LEMMA RequestsGoOn ==
    ASSUME AccountsInv, NEW h \in Handler, Others(h),
           request' = [g \in Handler |-> request'[g]],
           request'[h] \in Possible(account', Len(session'), Len(link')),
           Known(account) \subseteq Known(account'),
           Len(session') \in Nat, Len(link') \in Nat,
           Len(session) <= Len(session'), Len(link) <= Len(link')
    PROVE  RequestsTyped'
<1>1. Possible(account, Len(session), Len(link)) \subseteq Possible(account', Len(session'), Len(link'))
  BY InvFacts, PossibleGrows
<1>2. ASSUME NEW g \in Handler
      PROVE  request'[g] \in Possible(account', Len(session'), Len(link'))
  <2>1. CASE g = h
    BY <2>1
  <2>2. CASE g # h /\ request'[g] = request[g]
    BY <1>1, <2>2, InvFacts
  <2>3. CASE g # h /\ request[g].op = "commit" /\ request'[g] = [request[g] EXCEPT !.stale = TRUE]
    <3>1. request[g] = [op |-> "commit", change |-> request[g].change, stale |-> request[g].stale]
          /\ request[g].change \in Sound(account)
      BY <2>3, RequestSays DEF Says
    <3>2. request'[g] = [op |-> "commit", change |-> request[g].change, stale |-> TRUE]
      BY <2>3, <3>1
    <3>3. request'[g] \in Possible(account, Len(session), Len(link))
      <4>1. request'[g] \in [op : {"commit"}, change : Sound(account), stale : BOOLEAN]
        BY <3>1, <3>2
      <4> QED
        BY <4>1 DEF Possible
    <3> QED
      BY <1>1, <3>3
  <2> QED
    BY <2>1, <2>2, <2>3 DEF Others
<1>3. request' \in [Handler -> Possible(account', Len(session'), Len(link'))]
  BY <1>2
<1> QED
  BY <1>3 DEF RequestsTyped

-----------------------------------------------------------------------------
(* Accounts: what leaves the parts of the invariant standing *)

\* Sessions that only end.
Fading ==
    /\ DOMAIN session' = DOMAIN session /\ Len(session') = Len(session)
    /\ \A i \in DOMAIN session :
          /\ session'[i].owner = session[i].owner /\ session'[i].family = session[i].family
          /\ session'[i].since = session[i].since /\ session'[i].late = session[i].late
          /\ session'[i].live => session[i].live

LEMMA RevokedFacts ==
    ASSUME AccountsInv, NEW S, session' = Revoked(S)
    PROVE  /\ Fading /\ session' \in Seq(Session)
           /\ \A i \in DOMAIN session : session'[i].live <=> session[i].live /\ i \notin S
<1>1. /\ session' \in [1 .. Len(session) -> Session]
      /\ \A i \in DOMAIN session :
            /\ session'[i].owner = session[i].owner /\ session'[i].family = session[i].family
            /\ session'[i].since = session[i].since /\ session'[i].late = session[i].late
            /\ session'[i].live <=> session[i].live /\ i \notin S
  <2> SUFFICES ASSUME NEW i \in DOMAIN session
               PROVE  /\ session'[i] \in Session
                      /\ session'[i].owner = session[i].owner
                      /\ session'[i].family = session[i].family
                      /\ session'[i].since = session[i].since /\ session'[i].late = session[i].late
                      /\ session'[i].live <=> session[i].live /\ i \notin S
    BY InvFacts DEF Revoked
  <2>1. session[i] \in Session
    BY InvFacts
  <2>2. session'[i] = [session[i] EXCEPT !.live = @ /\ i \notin S]
    BY DEF Revoked
  <2> QED
    BY <2>1, <2>2 DEF Session
<1>2. session' \in Seq(Session) /\ Len(session') = Len(session) /\ DOMAIN session' = DOMAIN session
  BY <1>1, InvFacts
<1> QED
  BY <1>1, <1>2 DEF Fading

LEMMA SameIsFading ==
    ASSUME UNCHANGED session
    PROVE  Fading
BY DEF Fading

LEMMA HeirStays ==
    ASSUME AccountsInv, Fading, forked \subseteq forked'
    PROVE  OneHeir'
<1> SUFFICES ASSUME NEW i \in DOMAIN session', NEW j \in DOMAIN session',
                    session'[i].live, session'[j].live, session'[i].family = session'[j].family
             PROVE  i = j \/ session'[i].family \in forked'
  BY DEF OneHeir
<1>1. /\ i \in DOMAIN session /\ j \in DOMAIN session
      /\ session[i].live /\ session[j].live
      /\ session'[i].family = session[i].family /\ session[j].family = session[i].family
  BY DEF Fading
<1>2. i = j \/ session[i].family \in forked
  BY <1>1, InvFacts DEF OneHeir
<1> QED
  BY <1>1, <1>2

\* No new token of an old family.
LEMMA HeirsStand ==
    ASSUME AccountsInv, Fading, forked \subseteq forked',
           \A h \in Handler : Issues(h)' => Issues(h) /\ request'[h].family = request[h].family
    PROVE  OneHeir' /\ OneToIssue'
<1>1. OneHeir'
  BY HeirStays
<1>2. OneToIssue'
  BY InvFacts DEF Fading, OneToIssue
<1> QED
  BY <1>1, <1>2

\* An account keeps its password and stays open, or its sessions are over, or
\* about to be.
Stays(u) ==
    /\ account'[u].password = account[u].password
    /\ Active(u) => Active(u)'
    /\ SigningOut(u) => SigningOut(u)'

LEMMA EndsStand ==
    ASSUME AccountsInv, Fading,
           \A u \in Known(account) :
               \/ Stays(u) \/ SigningOut(u)'
               \/ \A i \in DOMAIN session : session[i].owner = u => ~session'[i].live
    PROVE  SessionsEnd'
<1>1. ASSUME NEW i \in DOMAIN session, session'[i].live, NEW u \in Known(account),
             u = session[i].owner
      PROVE  /\ session'[i].since = account'[u].password \/ session'[i].late \/ SigningOut(u)'
             /\ Active(u)' \/ session'[i].late \/ SigningOut(u)'
  <2>1. /\ session[i].live /\ session'[i].since = session[i].since
        /\ session'[i].late = session[i].late
    BY <1>1 DEF Fading
  <2>2. /\ session[i].since = account[u].password \/ session[i].late \/ SigningOut(u)
        /\ Active(u) \/ session[i].late \/ SigningOut(u)
    BY <1>1, <2>1 DEF AccountsInv, SessionsEnd, NewPasswordEndsSessions, ClosedAccountIsSignedOut
  <2>3. Stays(u) \/ SigningOut(u)'
    BY <1>1
  <2> QED
    BY <2>1, <2>2, <2>3 DEF Stays
<1>2. \A i \in DOMAIN session : session[i].owner \in Known(account)
  BY InvFacts DEF Owned
<1>3. ASSUME NEW i \in DOMAIN session', session'[i].live
      PROVE  LET u == session'[i].owner IN
             /\ \/ session'[i].since = account'[u].password
                \/ session'[i].late
                \/ u \in unfinished'
                \/ \E h \in Handler : request'[h].op = "sign_out" /\ request'[h].user = u
             /\ \/ account'[u].status = "ACTIVE"
                \/ session'[i].late
                \/ u \in unfinished'
                \/ \E h \in Handler : request'[h].op = "sign_out" /\ request'[h].user = u
  <2>1. i \in DOMAIN session /\ session'[i].owner = session[i].owner
    BY <1>3 DEF Fading
  <2> QED
    BY <1>1, <1>2, <1>3, <2>1 DEF SigningOut, Active
<1>4. NewPasswordEndsSessions' /\ ClosedAccountIsSignedOut'
  BY <1>3 DEF NewPasswordEndsSessions, ClosedAccountIsSignedOut, SigningOut, Active
<1> QED
  BY <1>4 DEF SessionsEnd

LEMMA StillSigningOut ==
    ASSUME AccountsInv, NEW h \in Handler, Others(h), unfinished \subseteq unfinished',
           NEW u, ~(request[h].op = "sign_out" /\ request[h].user = u), SigningOut(u)
    PROVE  SigningOut(u)'
<1>1. ASSUME NEW g \in Handler, request[g].op = "sign_out", request[g].user = u
      PROVE  request'[g] = request[g]
  BY <1>1, OthersSay
<1> QED
  BY <1>1 DEF SigningOut

\* Who can manage staff still can when nobody is taken off, a role from nobody,
\* and no permission from a role.
Keeps(acc, ro, gr, acc2, ro2, gr2) ==
    /\ \A u \in User : acc[u].role = "ADMIN" =>
          /\ acc2[u].role = "ADMIN" /\ acc2[u].status = acc[u].status
          /\ ro[u] \subseteq ro2[u]
    /\ \A r \in Role : gr[r] \subseteq gr2[r]

Accounts == [User -> Account \cup {NoAccount}]
Hirings  == [User -> SUBSET Role]
Matrixes == [Role -> SUBSET Permission]

LEMMA PathKept ==
    ASSUME NEW acc, NEW acc2, NEW ro \in Hirings, NEW ro2, NEW gr, NEW gr2,
           Keeps(acc, ro, gr, acc2, ro2, gr2), RecoveryPath(acc, ro, gr)
    PROVE  RecoveryPath(acc2, ro2, gr2)
BY DEF RecoveryPath, Keeps, Hirings

LEMMA PassKept ==
    ASSUME NEW acc \in Accounts, NEW acc2 \in Accounts, NEW ro \in Hirings, NEW ro2 \in Hirings,
           NEW gr \in Matrixes, NEW gr2 \in Matrixes, NEW c \in Sound(acc),
           Keeps(acc, ro, gr, acc2, ro2, gr2), Passes(acc, ro, gr, c)
    PROVE  Passes(acc2, ro2, gr2, c)
<1> DEFINE accC  == IF c.status = Omitted THEN acc ELSE [acc EXCEPT ![c.user].status = c.status]
           accC2 == IF c.status = Omitted THEN acc2 ELSE [acc2 EXCEPT ![c.user].status = c.status]
           roC   == IF c.roles = Omitted THEN ro ELSE [ro EXCEPT ![c.user] = c.roles]
           roC2  == IF c.roles = Omitted THEN ro2 ELSE [ro2 EXCEPT ![c.user] = c.roles]
           grC   == IF c.role = Omitted THEN gr ELSE [gr EXCEPT ![c.role] = c.permissions]
           grC2  == IF c.role = Omitted THEN gr2 ELSE [gr2 EXCEPT ![c.role] = c.permissions]
<1>1. /\ c \in Change
      /\ c.user = Omitted => c.status = Omitted /\ c.roles = Omitted
      /\ c.user # Omitted => c.user \in User
      /\ c.roles # Omitted => c.roles \in SUBSET Role
      /\ c.role # Omitted => c.role \in Role
  BY DEF Sound, Change, Known
<1>2. ASSUME NEW u \in User, accC[u].role = "ADMIN"
      PROVE  /\ accC2[u].role = "ADMIN" /\ accC2[u].status = accC[u].status
             /\ acc[u].role = "ADMIN"
  <2>1. /\ acc[u] \in Account \/ acc[u] = NoAccount
        /\ acc2[u] \in Account \/ acc2[u] = NoAccount
    BY DEF Accounts
  <2>2. acc[u].role = "ADMIN"
    BY <1>2, <2>1 DEF Accounts, Account, NoAccount
  <2>3. acc2[u].role = "ADMIN" /\ acc2[u].status = acc[u].status
    BY <2>2 DEF Keeps
  <2> QED
    BY <1>1, <2>1, <2>2, <2>3 DEF Accounts, Account, NoAccount
<1>3. ASSUME NEW u \in User, acc[u].role = "ADMIN"
      PROVE  roC[u] \subseteq roC2[u]
  BY <1>1, <1>3 DEF Keeps, Hirings
<1>4. ASSUME NEW r \in Role
      PROVE  grC[r] \subseteq grC2[r]
  BY <1>1, <1>4 DEF Keeps, Matrixes
<1>5. roC \in Hirings
  BY <1>1 DEF Hirings
<1>6. Keeps(accC, roC, grC, accC2, roC2, grC2)
  BY <1>2, <1>3, <1>4 DEF Keeps
<1>7. RecoveryPath(accC, roC, grC)
  BY DEF Passes
<1>8. RecoveryPath(accC2, roC2, grC2)
  <2> HIDE DEF accC, accC2, roC, roC2, grC, grC2
  <2> QED
    BY <1>5, <1>6, <1>7, PathKept
<1> QED
  BY <1>8 DEF Passes

\* Staff stay who they are: rows only gain, and no change has just been checked.
LEMMA StaffKept ==
    ASSUME AccountsInv, RowsTyped', NEW h \in Handler, Others(h), unchecked' = unchecked,
           Keeps(account, roles, grants, account', roles', grants'),
           request'[h].op # "commit"
    PROVE  StaffStand'
<1>1. /\ account \in Accounts /\ account' \in Accounts /\ roles \in Hirings /\ roles' \in Hirings
      /\ grants \in Matrixes /\ grants' \in Matrixes
  BY InvFacts DEF RowsTyped, Accounts, Hirings, Matrixes
<1>2. RecoveryPathSurvives'
  <2>1. ~unchecked => RecoveryPath(account, roles, grants)
    BY DEF AccountsInv, StaffStand, RecoveryPathSurvives
  <2>2. ~unchecked => RecoveryPath(account', roles', grants')
    BY <1>1, <2>1, PathKept
  <2> QED
    BY <2>2 DEF RecoveryPathSurvives
<1>3. ASSUME NEW g \in Handler, Fresh(g)'
      PROVE  Passes(account', roles', grants', request'[g].change)
  <2>0. g \in Handler \ {h}
    BY <1>3 DEF Fresh
  <2>1. Fresh(g) /\ request[g].op = "commit" /\ request'[g].change = request[g].change
    BY <1>3, <2>0, OthersSay DEF Fresh
  <2>2. request[g].change \in Sound(account)
    BY <2>1, RequestSays DEF Says
  <2>3. Passes(account, roles, grants, request[g].change)
    BY <2>1 DEF AccountsInv, StaffStand, Checked
  <2> QED
    BY <1>1, <2>1, <2>2, <2>3, PassKept
<1>4. Checked'
  BY <1>3 DEF Checked
<1> QED
  BY <1>2, <1>4 DEF StaffStand

\* Staff were written: every check made before is outdated.
LEMMA StaffWritten ==
    ASSUME \A g \in Handler : ~Fresh(g)',
           ~unchecked' => RecoveryPath(account', roles', grants')
    PROVE  StaffStand'
BY DEF StaffStand, Checked, RecoveryPathSurvives

-----------------------------------------------------------------------------
(* Accounts: the steps *)

\* No link is taken away.
MoreLinks == Len(link) <= Len(link')

LEMMA SameLinks ==
    ASSUME AccountsInv, link' = link
    PROVE  MoreLinks
BY InvFacts DEF MoreLinks

\* What every step has to show that issues no session.
LEMMA FrameStep ==
    ASSUME AccountsInv, NEW h \in Handler, Others(h),
           request' = [g \in Handler |-> request'[g]],
           request'[h] \in Possible(account', Len(session'), Len(link')),
           request'[h].op = "issue" => request'[h].family = 0,
           RowsTyped', Known(account) \subseteq Known(account'),
           MoreLinks, Fading, forked' = forked,
           \A i \in DOMAIN link' : link'[i].owner \in Known(account'),
           LinksAreSingle', StaffStand',
           \A u \in Known(account) :
               \/ Stays(u) \/ SigningOut(u)'
               \/ \A i \in DOMAIN session : session[i].owner = u => ~session'[i].live
    PROVE  AccountsInv'
<1>1. Len(session') = Len(session) /\ Len(session) \in Nat /\ Len(link) \in Nat /\ Len(link') \in Nat
  BY InvFacts DEF Fading, RowsTyped
<1>2. RequestsTyped'
  BY <1>1, RequestsGoOn DEF MoreLinks
<1>3. Owned'
  BY InvFacts, <1>1 DEF Owned, Fading
<1>4. ASSUME NEW g \in Handler, Issues(g)'
      PROVE  Issues(g) /\ request'[g].family = request[g].family
  <2>1. g \in Handler \ {h}
    BY <1>4 DEF Issues
  <2>2. request'[g] = request[g]
    BY <1>4, <2>1, OthersSay DEF Issues
  <2> QED
    BY <1>4, <2>2 DEF Issues
<1>5. OneHeir' /\ OneToIssue'
  BY <1>4, HeirsStand
<1>6. SessionsEnd'
  BY EndsStand
<1> QED
  BY <1>2, <1>3, <1>5, <1>6 DEF AccountsInv

Bounded    == served' \in 0 .. MaxRequests
Signing(h) == request[h].op = "sign_out"

Allowed(work) == work \in Possible(account, Len(session), Len(link))

\* A step that changes no row, and about a change only says that it was checked.
Ordinary(work) == /\ work.op = "issue" => work.family = 0
                  /\ work.op = "commit" => Passes(account, roles, grants, work.change)

LEMMA QuietStep ==
    ASSUME AccountsInv, NEW h \in Handler,
           NEW work, Allowed(work),
           Goto(h, work), Bounded,
           UNCHANGED <<account, staffVars, tokenVars>>,
           ~Signing(h),
           Ordinary(work)
    PROVE  AccountsInv'
<1>1. request'[h] = work /\ Others(h) /\ request' = [g \in Handler |-> request'[g]]
  BY OthersStand DEF Goto
<1>2. /\ account' = account /\ roles' = roles /\ grants' = grants /\ unchecked' = unchecked
      /\ session' = session /\ link' = link /\ unfinished' = unfinished /\ forked' = forked
  BY DEF staffVars, tokenVars
<1>3. RowsTyped'
  BY <1>2, InvFacts DEF RowsTyped, Bounded
<1>4. Fading
  BY <1>2, SameIsFading
<1>5. LinksAreSingle' /\ \A i \in DOMAIN link' : link'[i].owner \in Known(account')
  BY <1>2, InvFacts DEF AccountsInv, LinksAreSingle, Owned
<1>6. StaffStand'
  <2>1. CASE work.op # "commit"
    BY <1>1, <1>2, <1>3, <2>1, StaffKept DEF Keeps
  <2>2. CASE work.op = "commit"
    <3>1. RecoveryPathSurvives'
      BY <1>2 DEF AccountsInv, StaffStand, RecoveryPathSurvives
    <3>2. ASSUME NEW g \in Handler, Fresh(g)'
          PROVE  Passes(account', roles', grants', request'[g].change)
      <4>1. CASE g = h
        BY <1>1, <1>2, <2>2, <4>1 DEF Ordinary
      <4>2. CASE g # h
        <5>1. g \in Handler \ {h}
          BY <4>2
        <5>2. Fresh(g) /\ request'[g].change = request[g].change
          BY <1>1, <3>2, <5>1, OthersSay DEF Fresh
        <5> QED
          BY <1>2, <5>2 DEF AccountsInv, StaffStand, Checked
      <4> QED
        BY <4>1, <4>2
    <3> QED
      BY <3>1, <3>2 DEF StaffStand, Checked
  <2> QED
    BY <2>1, <2>2
<1>7. \A u \in Known(account) : Stays(u)
  <2> SUFFICES ASSUME NEW u \in Known(account)
               PROVE  Stays(u)
    OBVIOUS
  <2>1. SigningOut(u) => SigningOut(u)'
    BY <1>1, <1>2, StillSigningOut DEF Signing
  <2> QED
    BY <1>2, <2>1 DEF Stays, Active
<1>8. Known(account) \subseteq Known(account')
  BY <1>2 DEF Known
<1>9. MoreLinks
  BY <1>2, SameLinks
<1>10. request'[h].op = "issue" => request'[h].family = 0
  BY <1>1 DEF Ordinary
<1>11. request'[h] \in Possible(account', Len(session'), Len(link'))
  BY <1>1, <1>2 DEF Allowed
<1> QED
  BY <1>1, <1>2, <1>3, <1>4, <1>5, <1>6, <1>7, <1>8, <1>9, <1>10, <1>11, FrameStep

LEMMA BeginFacts ==
    ASSUME AccountsInv, NEW h \in Handler, NEW work, Begin(h, work)
    PROVE  Goto(h, work) /\ Bounded /\ ~Signing(h) /\ request[h] = Idle
<1>1. served \in 0 .. MaxRequests /\ MaxRequests \in Nat
  BY InvFacts, AccountsAssumption DEF RowsTyped
<1>2. Bounded
  BY <1>1 DEF Begin, Bounded
<1> QED
  BY <1>2 DEF Begin, Signing, Idle

LEMMA BeginStep ==
    ASSUME AccountsInv, NEW h \in Handler, NEW work, Begin(h, work), Allowed(work), Ordinary(work),
           UNCHANGED <<account, staffVars, tokenVars>>
    PROVE  AccountsInv'
BY BeginFacts, QuietStep

LEMMA ActiveIsKnown ==
    ASSUME AccountsInv, NEW u \in User, Active(u) \/ account[u].role = "ADMIN" \/ account[u] # NoAccount
                                        \/ account[u].status \in {"ACTIVE", "SUSPENDED"}
    PROVE  u \in Known(account) /\ account[u] \in Account
<1>1. account[u] \in Account \/ account[u] = NoAccount
  BY InvFacts
<1> QED
  BY <1>1 DEF Known, NoAccount, Active

LEMMA UserOps ==
    ASSUME NEW op \in {"rehash", "sign_out", "void", "mail", "erase"}, NEW u \in Known(account)
    PROVE  Allowed([op |-> op, user |-> u]) /\ Ordinary([op |-> op, user |-> u])
<1>1. [op |-> op, user |-> u]
          \in [op : {"rehash", "sign_out", "void", "mail", "erase"}, user : Known(account)]
  OBVIOUS
<1>2. Allowed([op |-> op, user |-> u])
  BY <1>1 DEF Allowed, Possible
<1> QED
  BY <1>2 DEF Ordinary

LEMMA IdleIsAllowed == Allowed(Idle) /\ Ordinary(Idle)
BY DEF Allowed, Possible, Ordinary, Idle

LEMMA LoginStep ==
    ASSUME AccountsInv, NEW h \in Handler, NEW u \in User, login(h, u)
    PROVE  AccountsInv'
<1> DEFINE work == [op |-> "issue", user |-> u, family |-> 0, since |-> account[u].password]
<1>1. u \in Known(account) /\ account[u].password \in Nat
  BY ActiveIsKnown DEF login, Account
<1>2. Allowed(work)
  <2>1. Len(session) \in Nat
    BY InvFacts
  <2>2. work \in [op : {"issue"}, user : Known(account), family : 0 .. Len(session), since : Nat]
    BY <1>1, <2>1
  <2> QED
    BY <2>2 DEF Allowed, Possible
<1>3. Ordinary(work)
  BY DEF Ordinary
<1>4. Begin(h, work) /\ UNCHANGED <<account, staffVars, tokenVars>>
  BY DEF login
<1> HIDE DEF work
<1> QED
  BY <1>2, <1>3, <1>4, BeginStep

LEMMA RefreshStep ==
    ASSUME AccountsInv, NEW h \in Handler, NEW i \in DOMAIN session, refresh(h, i)
    PROVE  AccountsInv'
<1>1. /\ i \in 1 .. Len(session) /\ session[i].family \in Nat
      /\ UNCHANGED <<account, staffVars, tokenVars>>
  BY InvFacts DEF Session, refresh
<1>2. CASE Begin(h, [op |-> "reuse", family |-> session[i].family])
  <2> DEFINE work == [op |-> "reuse", family |-> session[i].family]
  <2>1. work \in [op : {"reuse"}, family : Nat]
    BY <1>1
  <2>2. Allowed(work) /\ Ordinary(work)
    BY <2>1 DEF Allowed, Possible, Ordinary
  <2>3. Begin(h, work)
    BY <1>2
  <2> HIDE DEF work
  <2> QED
    BY <1>1, <2>2, <2>3, BeginStep
<1>3. CASE Begin(h, [op |-> "rotate", token |-> i])
  <2> DEFINE work == [op |-> "rotate", token |-> i]
  <2>1. work \in [op : {"rotate"}, token : 1 .. Len(session)]
    BY <1>1
  <2>2. Allowed(work) /\ Ordinary(work)
    BY <2>1 DEF Allowed, Possible, Ordinary
  <2>3. Begin(h, work)
    BY <1>3
  <2> HIDE DEF work
  <2> QED
    BY <1>1, <2>2, <2>3, BeginStep
<1> QED
  BY <1>2, <1>3 DEF refresh

LEMMA ResetRequestStep ==
    ASSUME AccountsInv, NEW h \in Handler, NEW i \in DOMAIN link, resetPassword(h, i)
    PROVE  AccountsInv'
<1> DEFINE work == [op |-> "reset", link |-> i]
<1>1. work \in [op : {"reset"}, link : 1 .. Len(link)]
  BY InvFacts
<1>2. Allowed(work) /\ Ordinary(work)
  BY <1>1 DEF Allowed, Possible, Ordinary
<1>3. Begin(h, work) /\ UNCHANGED <<account, staffVars, tokenVars>>
  BY DEF resetPassword
<1> HIDE DEF work
<1> QED
  BY <1>2, <1>3, BeginStep

\* The requests about one account that write nothing yet.
LEMMA UserRequestStep ==
    ASSUME AccountsInv, NEW h \in Handler, NEW actor \in User, NEW u \in User,
           \/ changePassword(h, u) \/ requestPasswordReset(h, u)
           \/ resendInvite(h, actor, u) \/ eraseAccount(h, actor, u)
    PROVE  AccountsInv'
<1>1. UNCHANGED <<account, staffVars, tokenVars>> /\ u \in Known(account)
  BY ActiveIsKnown DEF changePassword, requestPasswordReset, resendInvite, eraseAccount
<1>2. PICK op \in {"rehash", "sign_out", "void", "mail", "erase"} :
          Begin(h, [op |-> op, user |-> u])
  BY DEF changePassword, requestPasswordReset, resendInvite, eraseAccount
<1>3. Allowed([op |-> op, user |-> u]) /\ Ordinary([op |-> op, user |-> u])
  BY <1>1, UserOps
<1> QED
  BY <1>1, <1>2, <1>3, BeginStep

LEMMA ChangeRequestStep ==
    ASSUME AccountsInv, NEW h \in Handler, NEW c \in Sound(account),
           Begin(h, [op |-> "change", change |-> c]),
           UNCHANGED <<account, staffVars, tokenVars>>
    PROVE  AccountsInv'
<1> DEFINE work == [op |-> "change", change |-> c]
<1>1. work \in [op : {"change"}, change : Sound(account)]
  OBVIOUS
<1>2. Allowed(work) /\ Ordinary(work)
  BY <1>1 DEF Allowed, Possible, Ordinary
<1>3. Begin(h, work)
  OBVIOUS
<1> HIDE DEF work
<1> QED
  BY <1>2, <1>3, BeginStep

LEMMA UpdateRoleStep ==
    ASSUME AccountsInv, NEW h \in Handler, NEW actor \in User, NEW r \in Role, NEW P \in Matrix,
           updateRole(h, actor, r, P)
    PROVE  AccountsInv'
<1>1. P \in SUBSET Permission
  BY AccountsAssumption
<1>2. [NoChange EXCEPT !.role = r, !.permissions = P] \in Sound(account)
  BY <1>1 DEF Sound, Change, NoChange
<1> QED
  BY <1>2, ChangeRequestStep DEF updateRole

LEMMA UpdateStaffStep ==
    ASSUME AccountsInv, NEW h \in Handler, NEW actor \in User, NEW u \in User,
           NEW R \in {Omitted} \cup SUBSET Role, NEW st \in {"ACTIVE", "SUSPENDED", Omitted},
           updateStaff(h, actor, u, R, st)
    PROVE  AccountsInv'
<1>1. u \in Known(account) /\ u # Omitted
  BY ActiveIsKnown, AccountsAssumption DEF updateStaff
<1>2. [NoChange EXCEPT !.user = u, !.status = st, !.roles = R] \in Sound(account)
  BY <1>1 DEF Sound, Change, NoChange, Known
<1> QED
  BY <1>2, ChangeRequestStep DEF updateStaff

LEMMA DeleteRoleRequestStep ==
    ASSUME AccountsInv, NEW h \in Handler, NEW actor \in User, NEW r \in Role,
           deleteRole(h, actor, r)
    PROVE  AccountsInv'
<1> DEFINE work == [op |-> "delete_role", role |-> r]
<1>1. work \in [op : {"delete_role"}, role : Role]
  OBVIOUS
<1>2. Allowed(work) /\ Ordinary(work)
  BY <1>1 DEF Allowed, Possible, Ordinary
<1>3. Begin(h, work) /\ UNCHANGED <<account, staffVars, tokenVars>>
  BY DEF deleteRole
<1> HIDE DEF work
<1> QED
  BY <1>2, <1>3, BeginStep

LEMMA CheckStep ==
    ASSUME AccountsInv, NEW h \in Handler, assertRecoveryPathSurvives(h)
    PROVE  AccountsInv'
<1>1. /\ request[h].op = "change" /\ served' = served
      /\ UNCHANGED <<account, staffVars, tokenVars>>
  BY DEF assertRecoveryPathSurvives, At
<1>2. Bounded /\ ~Signing(h)
  BY <1>1, InvFacts DEF Bounded, Signing, RowsTyped
<1>3. CASE Done(h)
  BY <1>1, <1>2, <1>3, IdleIsAllowed, QuietStep DEF Done
<1>4. CASE ~Done(h)
  <2> DEFINE c    == request[h].change
             work == [op |-> "commit", change |-> c, stale |-> FALSE]
  <2>1. c \in Sound(account)
    BY <1>1, RequestSays DEF Says
  <2>2. RecoveryPath(AccountAfter(c), RolesAfter(c), GrantsAfter(c)) /\ Goto(h, work)
    BY <1>4 DEF assertRecoveryPathSurvives
  <2>3. Passes(account, roles, grants, c)
    BY <2>2 DEF Passes, AccountAfter, RolesAfter, GrantsAfter
  <2>4. work \in [op : {"commit"}, change : Sound(account), stale : BOOLEAN]
    BY <2>1
  <2>5. Allowed(work)
    BY <2>4 DEF Allowed, Possible
  <2>6. Ordinary(work)
    BY <2>3 DEF Ordinary
  <2> HIDE DEF work
  <2> QED
    BY <1>1, <1>2, <2>2, <2>5, <2>6, QuietStep
<1> QED
  BY <1>3, <1>4

-----------------------------------------------------------------------------
(* Accounts: the steps that write *)

LEMMA StaysSo ==
    ASSUME AccountsInv, NEW h \in Handler, Others(h), unfinished \subseteq unfinished',
           NEW u, ~(Signing(h) /\ request[h].user = u),
           account'[u].password = account[u].password, Active(u) => Active(u)'
    PROVE  Stays(u)
<1>1. SigningOut(u) => SigningOut(u)'
  BY StillSigningOut DEF Signing
<1> QED
  BY <1>1 DEF Stays

LEMMA GoesOn ==
    ASSUME AccountsInv, NEW h \in Handler, NEW work, Goto(h, work)
    PROVE  request'[h] = work /\ Others(h) /\ request' = [g \in Handler |-> request'[g]]
BY OthersStand DEF Goto

\* Sessions that are revoked: all of the account's if it is being signed out.
LEMMA RevokeStep ==
    ASSUME AccountsInv, NEW h \in Handler, Goto(h, Idle), Bounded, NEW S, session' = Revoked(S),
           UNCHANGED <<account, staffVars, link, unfinished, forked>>,
           Signing(h) => Of(request[h].user) \subseteq S
    PROVE  AccountsInv'
<1>1. request'[h] = Idle /\ Others(h) /\ request' = [g \in Handler |-> request'[g]]
  BY GoesOn
<1>2. /\ account' = account /\ roles' = roles /\ grants' = grants /\ unchecked' = unchecked
      /\ link' = link /\ unfinished' = unfinished /\ forked' = forked
  BY DEF staffVars
<1>3. /\ Fading /\ session' \in Seq(Session)
      /\ \A i \in DOMAIN session : session'[i].live <=> session[i].live /\ i \notin S
  BY RevokedFacts
<1>4. RowsTyped'
  BY <1>2, <1>3, InvFacts DEF RowsTyped, Bounded
<1>5. LinksAreSingle' /\ \A i \in DOMAIN link' : link'[i].owner \in Known(account')
  BY <1>2, InvFacts DEF AccountsInv, LinksAreSingle, Owned
<1>6. request'[h].op # "commit" /\ request'[h].op # "issue"
  BY <1>1 DEF Idle
<1>7. StaffStand'
  BY <1>1, <1>2, <1>4, <1>6, StaffKept DEF Keeps
<1>8. ASSUME NEW u \in Known(account)
      PROVE  Stays(u) \/ \A i \in DOMAIN session : session[i].owner = u => ~session'[i].live
  <2>1. CASE Signing(h) /\ request[h].user = u
    BY <1>3, <2>1 DEF Of
  <2>2. CASE ~(Signing(h) /\ request[h].user = u)
    <3>1. account'[u].password = account[u].password /\ (Active(u) => Active(u)')
      BY <1>2 DEF Active
    <3> QED
      BY <1>1, <1>2, <2>2, <3>1, StaysSo
  <2> QED
    BY <2>1, <2>2
<1>9. /\ request'[h] \in Possible(account', Len(session'), Len(link'))
      /\ Known(account) \subseteq Known(account')
  BY <1>1, <1>2 DEF Possible, Known
<1>10. MoreLinks
  BY <1>2, SameLinks
<1> QED
  BY <1>1, <1>2, <1>3, <1>4, <1>5, <1>6, <1>7, <1>8, <1>9, <1>10, FrameStep

LEMMA RevokingSteps ==
    ASSUME AccountsInv, NEW h \in Handler,
           \/ RevokeFamily(h) \/ logoutAll(h) \/ \E i \in DOMAIN session : logout(h, i)
    PROVE  AccountsInv'
<1>1. CASE RevokeFamily(h)
  <2>1. request[h].op = "reuse" /\ served' = served
    BY <1>1 DEF RevokeFamily, At
  <2>2. Bounded /\ ~Signing(h)
    BY <2>1, InvFacts DEF Bounded, Signing, RowsTyped
  <2> QED
    BY <1>1, <2>2, RevokeStep DEF RevokeFamily, Done
<1>2. CASE logoutAll(h)
  <2>1. Bounded
    BY <1>2, InvFacts DEF logoutAll, At, Bounded, RowsTyped
  <2>2. Of(request[h].user) \subseteq Of(request[h].user)
    OBVIOUS
  <2> QED
    BY <1>2, <2>1, <2>2, RevokeStep DEF logoutAll, Done
<1>3. ASSUME NEW i \in DOMAIN session, logout(h, i)
      PROVE  AccountsInv'
  <2>1. Goto(h, Idle) /\ Bounded /\ ~Signing(h)
    BY <1>3, BeginFacts DEF logout, Serve
  <2> QED
    BY <1>3, <2>1, RevokeStep DEF logout
<1> QED
  BY <1>1, <1>2, <1>3

LEMMA PasswordFacts ==
    ASSUME AccountsInv, NEW u \in Known(account), account' = SetPassword(u)
    PROVE  /\ account' \in [User -> Account \cup {NoAccount}]
           /\ Known(account') = Known(account)
           /\ \A v \in User : /\ account'[v].role = account[v].role
                              /\ account'[v].status = account[v].status
                              /\ v # u => account'[v] = account[v]
<1>1. /\ account \in [User -> Account \cup {NoAccount}] /\ account[u] \in Account /\ u \in User
  BY InvFacts DEF Known, RowsTyped
<1>2. account'[u] = [account[u] EXCEPT !.password = @ + 1, !.opens = TRUE]
  BY <1>1 DEF SetPassword
<1>3. /\ account'[u] \in Account
      /\ account'[u].role = account[u].role /\ account'[u].status = account[u].status
  <2>1. /\ account[u].status \in UserStatus /\ account[u].role \in {"CUSTOMER", "ADMIN"}
        /\ account[u].password \in Nat
        /\ account[u] = [status |-> account[u].status, role |-> account[u].role,
                         password |-> account[u].password, opens |-> account[u].opens]
    BY <1>1 DEF Account
  <2>2. account'[u] = [status |-> account[u].status, role |-> account[u].role,
                       password |-> account[u].password + 1, opens |-> TRUE]
    BY <1>2, <2>1
  <2> QED
    BY <2>1, <2>2 DEF Account
<1>4. \A v \in User : v # u => account'[v] = account[v]
  BY <1>1 DEF SetPassword
<1>5. account' = [v \in User |-> account'[v]]
  BY <1>1 DEF SetPassword
<1>6. account' \in [User -> Account \cup {NoAccount}]
  BY <1>1, <1>3, <1>4, <1>5
<1>7. Known(account') = Known(account)
  BY <1>1, <1>3, <1>4 DEF Known
<1> QED
  BY <1>3, <1>4, <1>6, <1>7

LEMMA RehashWrites ==
    ASSUME AccountsInv, NEW h \in Handler, NEW u \in Known(account),
           account' = SetPassword(u), Goto(h, [op |-> "sign_out", user |-> u]),
           ~Signing(h), Bounded, UNCHANGED <<staffVars, tokenVars>>
    PROVE  AccountsInv'
<1> DEFINE work == [op |-> "sign_out", user |-> u]
<1> HIDE DEF work
<1>1. /\ roles' = roles /\ grants' = grants /\ unchecked' = unchecked
      /\ session' = session /\ link' = link /\ unfinished' = unfinished /\ forked' = forked
  BY DEF staffVars, tokenVars
<1>2. u \in User /\ Known(account) \subseteq User
  BY DEF Known
<1>3. request'[h] = work /\ Others(h) /\ request' = [g \in Handler |-> request'[g]]
  BY GoesOn DEF work
<1>4. /\ account' \in [User -> Account \cup {NoAccount}]
      /\ Known(account') = Known(account)
      /\ \A v \in User : /\ account'[v].role = account[v].role
                         /\ account'[v].status = account[v].status
                         /\ v # u => account'[v] = account[v]
  BY PasswordFacts
<1>5. RowsTyped'
  BY <1>1, <1>4, InvFacts DEF RowsTyped, Bounded
<1>6. Fading
  BY <1>1, SameIsFading
<1>7. LinksAreSingle' /\ \A i \in DOMAIN link' : link'[i].owner \in Known(account')
  BY <1>1, <1>4, InvFacts DEF AccountsInv, LinksAreSingle, Owned
<1>8. work.op = "sign_out" /\ work.user = u
  BY DEF work
<1>9. Keeps(account, roles, grants, account', roles', grants')
  BY <1>1, <1>4 DEF Keeps
<1>10. StaffStand'
  <2>1. request'[h].op # "commit"
    BY <1>3, <1>8
  <2> QED
    BY <1>1, <1>3, <1>5, <1>9, <2>1, StaffKept
<1>11. ASSUME NEW v \in Known(account)
       PROVE  Stays(v) \/ SigningOut(v)'
  <2>1. CASE v = u
    BY <1>3, <1>8, <2>1 DEF SigningOut
  <2>2. CASE v # u
    <3>1. account'[v].password = account[v].password /\ (Active(v) => Active(v)')
      BY <1>2, <1>4, <2>2 DEF Active
    <3> QED
      BY <1>1, <1>3, <3>1, StaysSo
  <2> QED
    BY <2>1, <2>2
<1>12. request'[h] \in Possible(account', Len(session'), Len(link'))
  <2>1. work \in [op : {"rehash", "sign_out", "void", "mail", "erase"}, user : Known(account')]
    BY <1>4 DEF work
  <2> QED
    BY <1>3, <2>1 DEF Possible
<1>13. MoreLinks
  BY <1>1, SameLinks
<1>14. request'[h].op = "issue" => request'[h].family = 0
  BY <1>3, <1>8
<1> QED
  BY <1>1, <1>3, <1>4, <1>5, <1>6, <1>7, <1>10, <1>11, <1>12, <1>13, <1>14, FrameStep

LEMMA RehashStep ==
    ASSUME AccountsInv, NEW h \in Handler, Rehash(h)
    PROVE  AccountsInv'
<1>1. PICK u : /\ u = request[h].user /\ request[h].op = "rehash" /\ Bounded
               /\ account' = SetPassword(u) /\ Goto(h, [op |-> "sign_out", user |-> u])
  BY InvFacts DEF Rehash, At, Bounded, RowsTyped
<1>2. u \in Known(account)
  BY <1>1, RequestSays DEF Says
<1>3. UNCHANGED <<staffVars, tokenVars>> /\ ~Signing(h)
  BY <1>1 DEF Rehash, Signing
<1> QED
  BY <1>1, <1>2, <1>3, RehashWrites

\* Links alone are written, and the request goes on to write another.
LEMMA LinkStep ==
    ASSUME AccountsInv, NEW h \in Handler, NEW work, Goto(h, work), Allowed(work),
           work.op \in {"mail", "idle"}, ~Signing(h), Bounded,
           UNCHANGED <<account, staffVars, session, unfinished, forked>>,
           link' \in Seq(Link), MoreLinks,
           \A i \in DOMAIN link' : link'[i].owner \in Known(account),
           LinksAreSingle'
    PROVE  AccountsInv'
<1>1. /\ account' = account /\ roles' = roles /\ grants' = grants /\ unchecked' = unchecked
      /\ session' = session /\ unfinished' = unfinished /\ forked' = forked
  BY DEF staffVars
<1>2. request'[h] = work /\ Others(h) /\ request' = [g \in Handler |-> request'[g]]
  BY GoesOn
<1>3. RowsTyped'
  BY <1>1, InvFacts DEF RowsTyped, Bounded
<1>4. Fading
  BY <1>1, SameIsFading
<1>5. request'[h].op # "commit" /\ request'[h].op # "issue"
  BY <1>2
<1>6. StaffStand'
  BY <1>1, <1>2, <1>3, <1>5, StaffKept DEF Keeps
<1>7. ASSUME NEW u \in Known(account)
      PROVE  Stays(u)
  <2>1. account'[u].password = account[u].password /\ (Active(u) => Active(u)')
    BY <1>1 DEF Active
  <2> QED
    BY <1>1, <1>2, <2>1, StaysSo
<1>8. request'[h] \in Possible(account', Len(session'), Len(link'))
  <2>1. /\ Len(session) \in Nat /\ Len(link) \in Nat /\ Len(link') \in Nat
        /\ Len(session) <= Len(session)
    BY InvFacts
  <2>2. Possible(account, Len(session), Len(link)) \subseteq Possible(account, Len(session), Len(link'))
    BY <2>1, PossibleGrows DEF MoreLinks
  <2> QED
    BY <1>1, <1>2, <2>2 DEF Allowed
<1>9. Known(account) \subseteq Known(account') /\ \A i \in DOMAIN link' : link'[i].owner \in Known(account')
  BY <1>1 DEF Known
<1> QED
  BY <1>1, <1>2, <1>3, <1>4, <1>5, <1>6, <1>7, <1>8, <1>9, FrameStep

LEMMA VoidLinksStep ==
    ASSUME AccountsInv, NEW h \in Handler, VoidLinks(h)
    PROVE  AccountsInv'
<1>1. PICK u : /\ request[h].op = "void" /\ Bounded /\ u = request[h].user
               /\ link' = [i \in DOMAIN link |->
                             IF link[i].owner = u /\ link[i].state = "open"
                             THEN [link[i] EXCEPT !.state = "used"] ELSE link[i]]
               /\ Goto(h, [op |-> "mail", user |-> u])
  BY InvFacts DEF VoidLinks, At, Bounded, RowsTyped
<1>2. Allowed([op |-> "mail", user |-> u])
  <2>1. u \in Known(account)
    BY <1>1, RequestSays DEF Says
  <2> QED
    BY <2>1, UserOps
<1>3. ~Signing(h) /\ UNCHANGED <<account, staffVars, session, unfinished, forked>>
  BY <1>1 DEF VoidLinks, Signing
<1>4. ASSUME NEW i \in DOMAIN link
      PROVE  /\ link'[i] \in Link /\ link'[i].owner = link[i].owner /\ link'[i].uses = link[i].uses
             /\ link'[i].state = "open" => link[i].state = "open"
  <2>1. link[i] \in Link
    BY InvFacts
  <2>2. link'[i] = link[i] \/ link'[i] = [link[i] EXCEPT !.state = "used"]
    BY <1>1
  <2> QED
    BY <2>1, <2>2 DEF Link
<1>5. link' \in [1 .. Len(link) -> Link] /\ DOMAIN link' = DOMAIN link
  BY <1>1, <1>4, InvFacts
<1>6. link' \in Seq(Link) /\ Len(link') = Len(link)
  BY <1>5, InvFacts
<1>7. MoreLinks
  BY <1>6, InvFacts DEF MoreLinks
<1>8. LinksAreSingle'
  BY <1>4, <1>5 DEF AccountsInv, LinksAreSingle
<1>9. \A i \in DOMAIN link' : link'[i].owner \in Known(account)
  BY <1>4, <1>5, InvFacts DEF Owned
<1> DEFINE work == [op |-> "mail", user |-> u]
<1>10. Goto(h, work) /\ Allowed(work) /\ work.op \in {"mail", "idle"}
  BY <1>1, <1>2
<1> HIDE DEF work
<1> QED
  BY <1>1, <1>3, <1>6, <1>7, <1>8, <1>9, <1>10, LinkStep

LEMMA MailLinkStep ==
    ASSUME AccountsInv, NEW h \in Handler, MailLink(h)
    PROVE  AccountsInv'
<1> DEFINE row == [owner |-> request[h].user, state |-> "open", uses |-> 0]
<1>1. /\ request[h].op = "mail" /\ Bounded /\ link' = Append(link, row) /\ Goto(h, Idle)
  BY InvFacts DEF MailLink, At, Bounded, RowsTyped, Done
<1>2. request[h].user \in Known(account)
  BY <1>1, RequestSays DEF Says
<1>3. ~Signing(h) /\ UNCHANGED <<account, staffVars, session, unfinished, forked>>
  BY <1>1 DEF MailLink, Signing
<1>4. row \in Link /\ row.owner \in Known(account) /\ row.uses = 0
  BY <1>2 DEF Link, Known
<1>5. link' = Append(link, row)
  BY <1>1
<1>6. link \in Seq(Link) /\ Len(link) \in Nat /\ DOMAIN link = 1 .. Len(link)
  BY InvFacts DEF RowsTyped
<1> HIDE DEF row
<1>7. /\ link' \in Seq(Link) /\ Len(link') = Len(link) + 1 /\ DOMAIN link' = 1 .. Len(link) + 1
      /\ \A i \in DOMAIN link : link'[i] = link[i]
      /\ link'[Len(link) + 1] = row
  BY <1>4, <1>5, <1>6
<1>8. MoreLinks
  BY <1>6, <1>7 DEF MoreLinks
<1>9. \A i \in DOMAIN link' : i \in DOMAIN link \/ i = Len(link) + 1
  BY <1>6, <1>7
<1>10. LinksAreSingle'
  BY <1>4, <1>7, <1>9 DEF AccountsInv, LinksAreSingle
<1>11. \A i \in DOMAIN link' : link'[i].owner \in Known(account)
  BY <1>4, <1>7, <1>9, InvFacts DEF Owned
<1>12. Goto(h, Idle) /\ Allowed(Idle) /\ Idle.op \in {"mail", "idle"}
  BY <1>1, IdleIsAllowed DEF Idle
<1> QED
  BY <1>1, <1>3, <1>7, <1>8, <1>10, <1>11, <1>12, LinkStep

Spent(i) == [link EXCEPT ![i].state = "used", ![i].uses = @ + 1]

LEMMA SpentRow ==
    ASSUME NEW r \in Link, NEW q, q = [r EXCEPT !.state = "used", !.uses = 1]
    PROVE  q \in Link /\ q.owner = r.owner /\ q.state = "used" /\ q.uses = 1
BY DEF Link

LEMMA SpentFacts ==
    ASSUME AccountsInv, NEW i \in DOMAIN link, link[i].state = "open", link' = Spent(i)
    PROVE  /\ link' \in Seq(Link) /\ Len(link') = Len(link) /\ MoreLinks
           /\ LinksAreSingle'
           /\ \A j \in DOMAIN link' : link'[j].owner \in Known(account)
<1>1. link[i] \in Link /\ link[i].uses = 0 /\ link[i].owner \in User
  BY InvFacts DEF AccountsInv, LinksAreSingle, Link
<1>2. link'[i] = [link[i] EXCEPT !.state = "used", !.uses = 1]
  BY <1>1 DEF Spent
<1> DEFINE row == link'[i]
<1>3. row \in Link /\ row.owner = link[i].owner /\ row.uses = 1 /\ row.state = "used"
  BY <1>1, <1>2, SpentRow
<1>4. link' = [link EXCEPT ![i] = row]
  BY DEF Spent
<1>5. link'[i] = row
  OBVIOUS
<1> HIDE DEF row
<1>7. link \in Seq(Link) /\ i \in 1 .. Len(link) /\ DOMAIN link = 1 .. Len(link)
  BY InvFacts DEF RowsTyped
<1>8. /\ link' \in Seq(Link) /\ Len(link') = Len(link) /\ DOMAIN link' = DOMAIN link
      /\ \A j \in DOMAIN link : j # i => link'[j] = link[j]
  BY <1>3, <1>4, <1>7
<1>9. MoreLinks
  BY <1>8, InvFacts DEF MoreLinks
<1>10. LinksAreSingle'
  BY <1>3, <1>5, <1>8 DEF AccountsInv, LinksAreSingle
<1>11. \A j \in DOMAIN link' : link'[j].owner \in Known(account)
  BY <1>3, <1>5, <1>8, InvFacts DEF Owned
<1> QED
  BY <1>8, <1>9, <1>10, <1>11

\* A link that is open sets the password and ends the account's sessions.
LEMMA ResetWrites ==
    ASSUME AccountsInv, NEW h \in Handler, NEW i \in DOMAIN link, NEW u, u = link[i].owner,
           link[i].state = "open",
           link' = Spent(i),
           account' = SetPassword(u), session' = Revoked(Of(u)),
           Goto(h, Idle), ~Signing(h), Bounded, UNCHANGED <<staffVars, unfinished, forked>>
    PROVE  AccountsInv'
<1>1. /\ roles' = roles /\ grants' = grants /\ unchecked' = unchecked
      /\ unfinished' = unfinished /\ forked' = forked
  BY DEF staffVars
<1>2. u \in Known(account) /\ Known(account) \subseteq User
  BY InvFacts DEF Known, Owned
<1>3. request'[h] = Idle /\ Others(h) /\ request' = [g \in Handler |-> request'[g]]
  BY GoesOn
<1>4. /\ account' \in [User -> Account \cup {NoAccount}]
      /\ Known(account') = Known(account)
      /\ \A v \in User : /\ account'[v].role = account[v].role
                         /\ account'[v].status = account[v].status
                         /\ v # u => account'[v] = account[v]
  BY <1>2, PasswordFacts
<1>5. /\ Fading /\ session' \in Seq(Session)
      /\ \A j \in DOMAIN session : session'[j].live <=> session[j].live /\ j \notin Of(u)
  BY RevokedFacts
<1>6. /\ link' \in Seq(Link) /\ Len(link') = Len(link) /\ MoreLinks /\ LinksAreSingle'
      /\ \A j \in DOMAIN link' : link'[j].owner \in Known(account)
  BY SpentFacts
<1>10. \A j \in DOMAIN link' : link'[j].owner \in Known(account')
  BY <1>4, <1>6
<1>11. RowsTyped'
  BY <1>1, <1>4, <1>5, <1>6, InvFacts DEF RowsTyped, Bounded
<1>12. Keeps(account, roles, grants, account', roles', grants')
  BY <1>1, <1>4 DEF Keeps
<1>13. request'[h].op # "commit" /\ request'[h].op # "issue"
  BY <1>3 DEF Idle
<1>14. StaffStand'
  BY <1>1, <1>3, <1>11, <1>12, <1>13, StaffKept
<1>15. ASSUME NEW v \in Known(account)
       PROVE  Stays(v) \/ \A j \in DOMAIN session : session[j].owner = v => ~session'[j].live
  <2>1. CASE v = u
    BY <1>5, <2>1 DEF Of
  <2>2. CASE v # u
    <3>1. account'[v].password = account[v].password /\ (Active(v) => Active(v)')
      BY <1>2, <1>4, <2>2 DEF Active
    <3> QED
      BY <1>1, <1>3, <3>1, StaysSo
  <2> QED
    BY <2>1, <2>2
<1>16. request'[h] \in Possible(account', Len(session'), Len(link'))
  BY <1>3 DEF Possible
<1> QED
  BY <1>1, <1>3, <1>4, <1>5, <1>6, <1>10, <1>11, <1>13, <1>14, <1>15, <1>16, FrameStep

LEMMA ResetCommitStep ==
    ASSUME AccountsInv, NEW h \in Handler, ResetCommit(h)
    PROVE  AccountsInv'
<1>1. PICK i : i = request[h].link /\ request[h].op = "reset" /\ Bounded /\ Goto(h, Idle)
  BY InvFacts DEF ResetCommit, At, Bounded, RowsTyped, Done
<1>2. i \in DOMAIN link
  BY <1>1, RequestSays, InvFacts DEF Says
<1>3. ~Signing(h) /\ UNCHANGED <<staffVars, unfinished, forked>>
  BY <1>1 DEF ResetCommit, Signing
<1>4. CASE link[i].state = "open"
  <2>1. /\ link' = Spent(i)
        /\ account' = SetPassword(link[i].owner) /\ session' = Revoked(Of(link[i].owner))
    BY <1>1, <1>4 DEF ResetCommit, Spent
  <2> QED
    BY <1>1, <1>2, <1>3, <1>4, <2>1, ResetWrites
<1>5. CASE link[i].state # "open"
  <2>1. UNCHANGED <<account, staffVars, tokenVars>>
    BY <1>1, <1>3, <1>5 DEF ResetCommit, tokenVars
  <2> QED
    BY <1>1, <1>3, <2>1, IdleIsAllowed, QuietStep
<1> QED
  BY <1>4, <1>5

\* An account that is new: nobody's session, link or change.
LEMMA EnrolStep ==
    ASSUME AccountsInv, NEW h \in Handler, NEW u \in User, account[u] = NoAccount,
           NEW row \in Account, account' = [account EXCEPT ![u] = row],
           roles' \in Hirings, \A v \in User : v # u => roles'[v] = roles[v],
           NEW work, Goto(h, work), work \in Possible(account', Len(session), Len(link)),
           Ordinary(work), work.op # "commit", ~Signing(h), Bounded,
           UNCHANGED <<grants, unchecked, tokenVars>>
    PROVE  AccountsInv'
<1>1. /\ grants' = grants /\ unchecked' = unchecked
      /\ session' = session /\ link' = link /\ unfinished' = unfinished /\ forked' = forked
  BY DEF tokenVars
<1>2. request'[h] = work /\ Others(h) /\ request' = [g \in Handler |-> request'[g]]
  BY GoesOn
<1>3. account \in [User -> Account \cup {NoAccount}]
  BY InvFacts DEF RowsTyped
<1>4. /\ account' \in [User -> Account \cup {NoAccount}]
      /\ \A v \in User : v # u => account'[v] = account[v]
      /\ u \notin Known(account) /\ account[u].role # "ADMIN"
  BY <1>3 DEF Known, NoAccount, Account
<1>5. Known(account) \subseteq Known(account')
  BY <1>4 DEF Known
<1>6. RowsTyped'
  BY <1>1, <1>4, InvFacts DEF RowsTyped, Bounded, Hirings
<1>7. Fading
  BY <1>1, SameIsFading
<1>8. LinksAreSingle' /\ \A i \in DOMAIN link' : link'[i].owner \in Known(account')
  BY <1>1, <1>5, InvFacts DEF AccountsInv, LinksAreSingle, Owned
<1>9. Keeps(account, roles, grants, account', roles', grants')
  BY <1>1, <1>4 DEF Keeps
<1>10. request'[h].op # "commit" /\ (request'[h].op = "issue" => request'[h].family = 0)
  BY <1>2 DEF Ordinary
<1>11. StaffStand'
  BY <1>1, <1>2, <1>6, <1>9, <1>10, StaffKept
<1>12. ASSUME NEW v \in Known(account)
       PROVE  Stays(v)
  <2>1. account'[v].password = account[v].password /\ (Active(v) => Active(v)')
    BY <1>4 DEF Active, Known
  <2> QED
    BY <1>1, <1>2, <2>1, StaysSo
<1>13. request'[h] \in Possible(account', Len(session'), Len(link'))
  BY <1>1, <1>2
<1>14. MoreLinks
  BY <1>1, SameLinks
<1> QED
  BY <1>1, <1>2, <1>5, <1>6, <1>7, <1>8, <1>10, <1>11, <1>12, <1>13, <1>14, FrameStep

LEMMA RegisterStep ==
    ASSUME AccountsInv, NEW h \in Handler, NEW u \in User, register(h, u)
    PROVE  AccountsInv'
<1> DEFINE row  == [status |-> "ACTIVE", role |-> "CUSTOMER", password |-> 1, opens |-> TRUE]
           work == [op |-> "issue", user |-> u, family |-> 0, since |-> 1]
<1>1. /\ account[u] = NoAccount /\ account' = [account EXCEPT ![u] = row] /\ Begin(h, work)
      /\ UNCHANGED <<roles, grants, unchecked, tokenVars>>
  BY DEF register, staffVars
<1>2. row \in Account
  BY DEF Account, UserStatus
<1>3. account \in [User -> Account \cup {NoAccount}] /\ roles \in Hirings /\ Len(session) \in Nat
  BY InvFacts DEF RowsTyped, Hirings
<1>4. u \in Known(account')
  BY <1>1, <1>2, <1>3 DEF Known
<1>5. work \in [op : {"issue"}, user : Known(account'), family : 0 .. Len(session), since : Nat]
  BY <1>3, <1>4
<1>6. work \in Possible(account', Len(session), Len(link))
  BY <1>5 DEF Possible
<1>7. Ordinary(work) /\ work.op # "commit"
  BY DEF Ordinary
<1>8. Goto(h, work) /\ Bounded /\ ~Signing(h)
  BY <1>1, BeginFacts
<1>9. roles' \in Hirings /\ \A v \in User : v # u => roles'[v] = roles[v]
  BY <1>1, <1>3
<1> HIDE DEF row, work
<1> QED
  BY <1>1, <1>2, <1>6, <1>7, <1>8, <1>9, EnrolStep

LEMMA InviteStep ==
    ASSUME AccountsInv, NEW h \in Handler, NEW actor \in User, NEW u \in User,
           NEW R \in SUBSET Role, inviteStaff(h, actor, u, R)
    PROVE  AccountsInv'
<1> DEFINE row  == [status |-> "ACTIVE", role |-> "ADMIN", password |-> 0, opens |-> FALSE]
           work == [op |-> "void", user |-> u]
<1>1. /\ account[u] = NoAccount /\ account' = [account EXCEPT ![u] = row] /\ Begin(h, work)
      /\ roles' = [roles EXCEPT ![u] = R]
      /\ UNCHANGED <<grants, unchecked, tokenVars>>
  BY DEF inviteStaff
<1>2. row \in Account
  BY DEF Account, UserStatus
<1>3. account \in [User -> Account \cup {NoAccount}] /\ roles \in Hirings
  BY InvFacts DEF RowsTyped, Hirings
<1>4. u \in Known(account')
  BY <1>1, <1>2, <1>3 DEF Known
<1>5. work \in [op : {"rehash", "sign_out", "void", "mail", "erase"}, user : Known(account')]
  BY <1>4
<1>6. work \in Possible(account', Len(session), Len(link))
  BY <1>5 DEF Possible
<1>7. Ordinary(work) /\ work.op # "commit"
  BY DEF Ordinary
<1>8. Goto(h, work) /\ Bounded /\ ~Signing(h)
  BY <1>1, BeginFacts
<1>9. roles' \in Hirings /\ \A v \in User : v # u => roles'[v] = roles[v]
  BY <1>1, <1>3 DEF Hirings
<1> HIDE DEF row, work
<1> QED
  BY <1>1, <1>2, <1>6, <1>7, <1>8, <1>9, EnrolStep

LEMMA CreateRoleStep ==
    ASSUME AccountsInv, NEW h \in Handler, NEW actor \in User, NEW r \in Role, NEW P \in Matrix,
           createRole(h, actor, r, P)
    PROVE  AccountsInv'
<1>1. /\ grants[r] = {} /\ grants' = [grants EXCEPT ![r] = P] /\ Begin(h, Idle)
      /\ account' = account /\ roles' = roles /\ unchecked' = unchecked
      /\ session' = session /\ link' = link /\ unfinished' = unfinished /\ forked' = forked
  BY DEF createRole, Serve, tokenVars
<1>2. Goto(h, Idle) /\ Bounded /\ ~Signing(h)
  BY <1>1, BeginFacts
<1>3. request'[h] = Idle /\ Others(h) /\ request' = [g \in Handler |-> request'[g]]
  BY <1>2, GoesOn
<1>4. /\ grants \in [Role -> SUBSET Permission] /\ grants' \in [Role -> SUBSET Permission]
      /\ \A q \in Role : grants[q] \subseteq grants'[q]
  BY <1>1, InvFacts, AccountsAssumption DEF RowsTyped
<1>5. RowsTyped'
  BY <1>1, <1>2, <1>4, InvFacts DEF RowsTyped, Bounded
<1>6. Fading
  BY <1>1, SameIsFading
<1>7. LinksAreSingle' /\ \A i \in DOMAIN link' : link'[i].owner \in Known(account')
  BY <1>1, InvFacts DEF AccountsInv, LinksAreSingle, Owned
<1>8. Keeps(account, roles, grants, account', roles', grants')
  BY <1>1, <1>4 DEF Keeps
<1>9. request'[h].op # "commit" /\ request'[h].op # "issue"
  BY <1>3 DEF Idle
<1>10. StaffStand'
  BY <1>1, <1>3, <1>5, <1>8, <1>9, StaffKept
<1>11. ASSUME NEW v \in Known(account)
       PROVE  Stays(v)
  <2>1. account'[v].password = account[v].password /\ (Active(v) => Active(v)')
    BY <1>1 DEF Active
  <2> QED
    BY <1>1, <1>2, <1>3, <2>1, StaysSo
<1>12. request'[h] \in Possible(account', Len(session'), Len(link'))
  BY <1>3 DEF Possible
<1>13. MoreLinks /\ Known(account) \subseteq Known(account')
  BY <1>1, SameLinks DEF Known
<1> QED
  BY <1>1, <1>3, <1>5, <1>6, <1>7, <1>9, <1>10, <1>11, <1>12, <1>13, FrameStep

\* What a step does that outdates the checks of others.
Writes(h, work) == request' = [Outdated(h) EXCEPT ![h] = work]

LEMMA OutdatedFacts ==
    ASSUME AccountsInv, NEW h \in Handler, NEW work, work.op # "commit", Writes(h, work)
    PROVE  /\ request'[h] = work /\ Others(h) /\ request' = [g \in Handler |-> request'[g]]
           /\ \A g \in Handler : ~Fresh(g)'
<1>1. request'[h] = work /\ Others(h) /\ request' = [g \in Handler |-> request'[g]]
  BY OthersStand DEF Writes
<1>2. ASSUME NEW g \in Handler \ {h}, request[g].op = "commit"
      PROVE  ~Fresh(g)'
  <2>1. request'[g] = [request[g] EXCEPT !.stale = TRUE]
    BY <1>2 DEF Writes, Outdated
  <2>2. request[g] = [op |-> "commit", change |-> request[g].change, stale |-> request[g].stale]
    BY <1>2, RequestSays DEF Says
  <2>3. request'[g].stale = TRUE
    BY <2>1, <2>2
  <2> QED
    BY <2>3 DEF Fresh
<1>3. ASSUME NEW g \in Handler \ {h}, request[g].op # "commit"
      PROVE  ~Fresh(g)'
  BY <1>1, <1>3, OthersSay DEF Fresh
<1>4. ~Fresh(h)'
  BY <1>1 DEF Fresh
<1> QED
  BY <1>1, <1>2, <1>3, <1>4

\* AccountsNext is either nothing or to sign an account out.
SignsOut(work, u) == work.op = "sign_out" /\ work.user = u

\* What comes after such a write.
Leads(work) == work = Idle \/ \E u \in Known(account) : work = [op |-> "sign_out", user |-> u]

LEMMA LeadsOp ==
    ASSUME NEW work, Leads(work)
    PROVE  work.op # "commit" /\ work.op # "issue"
<1>1. CASE work = Idle
  BY <1>1 DEF Idle
<1>2. ASSUME NEW u, work = [op |-> "sign_out", user |-> u]
      PROVE  work.op # "commit" /\ work.op # "issue"
  BY <1>2
<1> QED
  BY <1>1, <1>2 DEF Leads

LEMMA WrittenStep ==
    ASSUME AccountsInv, NEW h \in Handler, NEW work, Writes(h, work), Leads(work),
           RowsTyped', Fading, MoreLinks, LinksAreSingle', ~Signing(h),
           Known(account) \subseteq Known(account'),
           \A i \in DOMAIN link' : link'[i].owner \in Known(account'),
           forked' = forked, unfinished' = unfinished,
           ~unchecked' => RecoveryPath(account', roles', grants'),
           \A u \in Known(account) :
              \/ account'[u].password = account[u].password /\ (Active(u) => Active(u)')
              \/ account'[u].password = account[u].password /\ SignsOut(work, u)
              \/ \A i \in DOMAIN session : session[i].owner = u => ~session'[i].live
    PROVE  AccountsInv'
<1>1. work.op # "commit" /\ work.op # "issue"
  BY LeadsOp
<1>2. /\ request'[h] = work /\ Others(h) /\ request' = [g \in Handler |-> request'[g]]
      /\ \A g \in Handler : ~Fresh(g)'
  BY <1>1, OutdatedFacts
<1>3. StaffStand'
  BY <1>2, StaffWritten
<1>4. request'[h] \in Possible(account', Len(session'), Len(link'))
  <2>1. CASE work = Idle
    BY <1>2, <2>1 DEF Possible
  <2>2. ASSUME NEW u \in Known(account), work = [op |-> "sign_out", user |-> u]
        PROVE  request'[h] \in Possible(account', Len(session'), Len(link'))
    <3>1. work \in [op : {"rehash", "sign_out", "void", "mail", "erase"}, user : Known(account')]
      BY <2>2
    <3> QED
      BY <1>2, <3>1 DEF Possible
  <2> QED
    BY <2>1, <2>2 DEF Leads
<1>5. ASSUME NEW u \in Known(account)
      PROVE  \/ Stays(u) \/ SigningOut(u)'
             \/ \A i \in DOMAIN session : session[i].owner = u => ~session'[i].live
  <2>1. CASE account'[u].password = account[u].password /\ (Active(u) => Active(u)')
    BY <1>2, <2>1, StaysSo
  <2>2. CASE SignsOut(work, u)
    BY <1>2, <2>2 DEF SignsOut, SigningOut
  <2>3. CASE \A i \in DOMAIN session : session[i].owner = u => ~session'[i].live
    BY <2>3
  <2> QED
    BY <2>1, <2>2, <2>3
<1>6. request'[h].op # "issue"
  BY <1>1, <1>2
<1> QED
  BY <1>2, <1>3, <1>4, <1>5, <1>6, FrameStep

\* A row whose status is set.
LEMMA StatusFacts ==
    ASSUME AccountsInv, NEW u \in Known(account), NEW st \in UserStatus,
           account' = [account EXCEPT ![u].status = st]
    PROVE  /\ account' \in [User -> Account \cup {NoAccount}]
           /\ Known(account') = Known(account)
           /\ \A v \in User : /\ account'[v].role = account[v].role
                              /\ account'[v].password = account[v].password
                              /\ v # u => account'[v] = account[v]
           /\ account'[u].status = st
<1>1. account \in [User -> Account \cup {NoAccount}] /\ account[u] \in Account /\ u \in User
  BY InvFacts DEF Known, RowsTyped
<1>2. account'[u] = [account[u] EXCEPT !.status = st]
  BY <1>1
<1>3. /\ account'[u] \in Account /\ account'[u].status = st
      /\ account'[u].role = account[u].role /\ account'[u].password = account[u].password
  BY <1>1, <1>2 DEF Account
<1>4. /\ \A v \in User : v # u => account'[v] = account[v]
      /\ account' = [v \in User |-> account'[v]]
  BY <1>1
<1>5. account' \in [User -> Account \cup {NoAccount}]
  BY <1>1, <1>3, <1>4
<1>6. Known(account') = Known(account)
  BY <1>1, <1>3, <1>4 DEF Known
<1> QED
  BY <1>3, <1>4, <1>5, <1>6

LEMMA CustomerStatusStep ==
    ASSUME AccountsInv, NEW h \in Handler, NEW actor \in User, NEW u \in User,
           NEW st \in {"ACTIVE", "SUSPENDED"}, customerStatus(h, actor, u, st)
    PROVE  AccountsInv'
<1> DEFINE work == IF st = "SUSPENDED" THEN [op |-> "sign_out", user |-> u] ELSE Idle
<1>1. /\ account' = [account EXCEPT ![u].status = st]
      /\ unchecked' = (unchecked \/ account[u].role = "ADMIN")
      /\ roles' = roles /\ grants' = grants
      /\ session' = session /\ link' = link /\ unfinished' = unfinished /\ forked' = forked
  BY DEF customerStatus, tokenVars
<1>2. Writes(h, work) /\ ~Signing(h) /\ Bounded
  <2>1. served \in 0 .. MaxRequests /\ MaxRequests \in Nat
    BY InvFacts, AccountsAssumption DEF RowsTyped
  <2>2. request[h] = Idle
    BY Zenon DEF customerStatus
  <2>3. served < MaxRequests /\ served' = served + 1
    BY Zenon DEF customerStatus
  <2>4. Writes(h, work)
    BY Zenon DEF customerStatus, Writes
  <2>5. Bounded
    BY <2>1, <2>3 DEF Bounded
  <2>6. ~Signing(h)
    BY <2>2 DEF Signing, Idle
  <2> QED
    BY <2>4, <2>5, <2>6
<1>3. u \in Known(account) /\ st \in UserStatus
  BY ActiveIsKnown DEF customerStatus, UserStatus
<1>4. /\ account' \in [User -> Account \cup {NoAccount}]
      /\ Known(account') = Known(account)
      /\ \A v \in User : /\ account'[v].role = account[v].role
                         /\ account'[v].password = account[v].password
                         /\ v # u => account'[v] = account[v]
      /\ account'[u].status = st
  BY <1>1, <1>3, StatusFacts
<1>5. RowsTyped'
  BY <1>1, <1>2, <1>4, InvFacts DEF RowsTyped, Bounded
<1>6. Fading /\ MoreLinks
  BY <1>1, SameIsFading, SameLinks
<1>7. LinksAreSingle' /\ \A i \in DOMAIN link' : link'[i].owner \in Known(account')
  BY <1>1, <1>4, InvFacts DEF AccountsInv, LinksAreSingle, Owned
<1>8. ASSUME ~unchecked'
      PROVE  RecoveryPath(account', roles', grants')
  <2>1. ~unchecked /\ account[u].role # "ADMIN"
    BY <1>1, <1>8
  <2>2. RecoveryPath(account, roles, grants)
    BY <2>1 DEF AccountsInv, StaffStand, RecoveryPathSurvives
  <2>3. Keeps(account, roles, grants, account', roles', grants')
    BY <1>1, <1>4, <2>1 DEF Keeps
  <2>4. roles \in Hirings
    BY InvFacts DEF RowsTyped, Hirings
  <2> QED
    BY <2>2, <2>3, <2>4, PathKept
<1>9. ASSUME NEW v \in Known(account)
      PROVE  /\ account'[v].password = account[v].password
             /\ (Active(v) => Active(v)') \/ SignsOut(work, v)
  <2>1. v \in User
    BY DEF Known
  <2>2. account'[v].password = account[v].password
    BY <1>4, <2>1
  <2>3. CASE v # u
    BY <1>4, <2>1, <2>2, <2>3 DEF Active
  <2>4. CASE v = u /\ st = "ACTIVE"
    BY <1>4, <2>2, <2>4 DEF Active
  <2>5. CASE v = u /\ st = "SUSPENDED"
    BY <2>2, <2>5 DEF SignsOut
  <2> QED
    BY <2>3, <2>4, <2>5
<1>10. Leads(work)
  BY <1>3 DEF Leads
<1> HIDE DEF work
<1> QED
  BY <1>1, <1>2, <1>4, <1>5, <1>6, <1>7, <1>8, <1>9, <1>10, WrittenStep

\* The rows a change writes.
LEMMA ChangeFacts ==
    ASSUME AccountsInv, NEW c \in Sound(account),
           account' = AccountAfter(c), roles' = RolesAfter(c), grants' = GrantsAfter(c)
    PROVE  /\ account' \in [User -> Account \cup {NoAccount}]
           /\ roles' \in [User -> SUBSET Role] /\ grants' \in [Role -> SUBSET Permission]
           /\ Known(account') = Known(account)
           /\ \A v \in User : /\ account'[v].password = account[v].password
                              /\ c.user # v \/ c.status # "SUSPENDED" => (Active(v) => Active(v)')
<1>1. /\ c.user = Omitted => c.status = Omitted /\ c.roles = Omitted
      /\ c.user # Omitted => c.user \in Known(account)
      /\ c.status # Omitted => c.status \in {"ACTIVE", "SUSPENDED"}
      /\ c.roles # Omitted => c.roles \in SUBSET Role
      /\ c.role # Omitted => c.role \in Role
      /\ c.permissions \in SUBSET Permission
  BY DEF Sound, Change
<1>2. /\ account \in [User -> Account \cup {NoAccount}]
      /\ roles \in [User -> SUBSET Role] /\ grants \in [Role -> SUBSET Permission]
  BY InvFacts DEF RowsTyped
<1>3. roles' \in [User -> SUBSET Role]
  BY <1>1, <1>2 DEF RolesAfter
<1>4. grants' \in [Role -> SUBSET Permission]
  BY <1>1, <1>2 DEF GrantsAfter
<1>5. CASE c.status = Omitted
  <2>1. account' = account
    BY <1>5 DEF AccountAfter
  <2> QED
    BY <1>2, <1>3, <1>4, <2>1 DEF Active
<1>6. CASE c.status # Omitted
  <2>1. PICK u \in Known(account), st \in {"ACTIVE", "SUSPENDED"} : u = c.user /\ st = c.status
    BY <1>1, <1>6
  <2>2. account' = [account EXCEPT ![u].status = st]
    BY <1>6, <2>1 DEF AccountAfter
  <2>3. /\ account' \in [User -> Account \cup {NoAccount}]
        /\ Known(account') = Known(account)
        /\ \A v \in User : /\ account'[v].password = account[v].password
                           /\ v # u => account'[v] = account[v]
        /\ account'[u].status = st
    BY <2>2, StatusFacts DEF UserStatus
  <2>4. ASSUME NEW v \in User, v # u \/ st # "SUSPENDED", Active(v)
        PROVE  Active(v)'
    <3>1. CASE v # u
      BY <2>3, <2>4, <3>1 DEF Active
    <3>2. CASE v = u
      BY <2>3, <2>4, <3>2 DEF Active
    <3> QED
      BY <3>1, <3>2
  <2> QED
    BY <1>3, <1>4, <2>1, <2>3, <2>4
<1> QED
  BY <1>5, <1>6

LEMMA ChangeWrites ==
    ASSUME AccountsInv, NEW h \in Handler, NEW c \in Sound(account),
           account' = AccountAfter(c), roles' = RolesAfter(c), grants' = GrantsAfter(c),
           unchecked' \in BOOLEAN, ~unchecked' => Passes(account, roles, grants, c),
           NEW work, Writes(h, work), Leads(work),
           c.status = "SUSPENDED" => SignsOut(work, c.user),
           ~Signing(h), Bounded, UNCHANGED tokenVars
    PROVE  AccountsInv'
<1>1. session' = session /\ link' = link /\ unfinished' = unfinished /\ forked' = forked
  BY DEF tokenVars
<1>2. /\ account' \in [User -> Account \cup {NoAccount}]
      /\ roles' \in [User -> SUBSET Role] /\ grants' \in [Role -> SUBSET Permission]
      /\ Known(account') = Known(account)
      /\ \A v \in User : /\ account'[v].password = account[v].password
                         /\ c.user # v \/ c.status # "SUSPENDED" => (Active(v) => Active(v)')
  BY ChangeFacts
<1>3. RowsTyped'
  BY <1>1, <1>2, InvFacts DEF RowsTyped, Bounded
<1>4. Fading /\ MoreLinks
  BY <1>1, SameIsFading, SameLinks
<1>5. LinksAreSingle' /\ \A i \in DOMAIN link' : link'[i].owner \in Known(account')
  BY <1>1, <1>2, InvFacts DEF AccountsInv, LinksAreSingle, Owned
<1>6. ~unchecked' => RecoveryPath(account', roles', grants')
  BY DEF Passes, AccountAfter, RolesAfter, GrantsAfter
<1>7. ASSUME NEW v \in Known(account)
      PROVE  /\ account'[v].password = account[v].password
             /\ (Active(v) => Active(v)') \/ SignsOut(work, v)
  <2>1. v \in User
    BY DEF Known
  <2>2. c.user # v \/ c.status # "SUSPENDED" \/ SignsOut(work, v)
    OBVIOUS
  <2> QED
    BY <1>2, <2>1, <2>2
<1> QED
  BY <1>1, <1>2, <1>3, <1>4, <1>5, <1>6, <1>7, WrittenStep

LEMMA ChangeCommitStep ==
    ASSUME AccountsInv, NEW h \in Handler, ChangeCommit(h)
    PROVE  AccountsInv'
<1>1. PICK c, work :
          /\ c = request[h].change /\ request[h].op = "commit"
          /\ work = IF c.status = "SUSPENDED" THEN [op |-> "sign_out", user |-> c.user] ELSE Idle
          /\ account' = AccountAfter(c) /\ roles' = RolesAfter(c) /\ grants' = GrantsAfter(c)
          /\ unchecked' = (unchecked \/ request[h].stale)
          /\ Writes(h, work)
  BY DEF ChangeCommit, At, Writes
<1>2. c \in Sound(account) /\ request[h].stale \in BOOLEAN
  BY <1>1, RequestSays DEF Says
<1>3. Bounded /\ UNCHANGED tokenVars
  BY InvFacts DEF ChangeCommit, At, Bounded, RowsTyped
<1>4. ~Signing(h)
  BY <1>1 DEF Signing
<1>5. unchecked' \in BOOLEAN
  BY <1>1, <1>2, InvFacts DEF RowsTyped
<1>6. ASSUME ~unchecked'
      PROVE  Passes(account, roles, grants, c)
  <2>1. Fresh(h)
    BY <1>1, <1>6 DEF Fresh
  <2> QED
    BY <1>1, <2>1 DEF AccountsInv, StaffStand, Checked
<1>7. c.status = "SUSPENDED" => SignsOut(work, c.user)
  BY <1>1 DEF SignsOut
<1>8. Leads(work)
  <2>1. CASE c.status = "SUSPENDED"
    <3>1. c.user \in Known(account)
      BY <1>2, <2>1, AccountsAssumption DEF Sound
    <3> QED
      BY <1>1, <2>1, <3>1 DEF Leads
  <2>2. CASE c.status # "SUSPENDED"
    BY <1>1, <2>2 DEF Leads
  <2> QED
    BY <2>1, <2>2
<1> QED
  BY <1>1, <1>2, <1>3, <1>4, <1>5, <1>6, <1>7, <1>8, ChangeWrites

LEMMA DeleteRoleWrites ==
    ASSUME AccountsInv, NEW h \in Handler, NEW r \in Role,
           roles' = [u \in User |-> roles[u] \ {r}], grants' = [grants EXCEPT ![r] = {}],
           unchecked' = (unchecked \/ \E u \in User : r \in roles[u]),
           Writes(h, Idle), ~Signing(h), Bounded, UNCHANGED <<account, tokenVars>>
    PROVE  AccountsInv'
<1>1. account' = account /\ session' = session /\ link' = link /\ unfinished' = unfinished /\ forked' = forked
  BY DEF tokenVars
<1>2. roles \in [User -> SUBSET Role] /\ grants \in [Role -> SUBSET Permission]
  BY InvFacts DEF RowsTyped
<1>3. /\ roles' \in [User -> SUBSET Role] /\ grants' \in [Role -> SUBSET Permission]
      /\ \A q \in Role : q # r => grants'[q] = grants[q]
  BY <1>2
<1>4. unchecked' \in BOOLEAN
  BY InvFacts DEF RowsTyped
<1>5. RowsTyped'
  BY <1>1, <1>3, <1>4, InvFacts DEF RowsTyped, Bounded
<1>6. Fading /\ MoreLinks
  BY <1>1, SameIsFading, SameLinks
<1>7. LinksAreSingle' /\ \A i \in DOMAIN link' : link'[i].owner \in Known(account')
  BY <1>1, InvFacts DEF AccountsInv, LinksAreSingle, Owned
<1>8. ASSUME ~unchecked'
      PROVE  RecoveryPath(account', roles', grants')
  <2>1. ~unchecked /\ \A u \in User : r \notin roles[u]
    BY <1>8
  <2>2. RecoveryPath(account, roles, grants)
    BY <2>1 DEF AccountsInv, StaffStand, RecoveryPathSurvives
  <2>3. \A u \in User : roles'[u] = roles[u] /\ roles[u] \subseteq Role
    BY <1>2, <2>1
  <2> QED
    BY <1>1, <1>3, <2>1, <2>2, <2>3 DEF RecoveryPath
<1>9. \A u \in Known(account) : account'[u].password = account[u].password /\ (Active(u) => Active(u)')
  BY <1>1 DEF Active
<1>10. Leads(Idle) /\ Known(account) \subseteq Known(account')
  BY <1>1 DEF Leads, Known
<1> QED
  BY <1>1, <1>5, <1>6, <1>7, <1>8, <1>9, <1>10, WrittenStep

LEMMA DeleteRoleCommitStep ==
    ASSUME AccountsInv, NEW h \in Handler, DeleteRoleCommit(h)
    PROVE  AccountsInv'
<1>1. PICK r : /\ r = request[h].role /\ request[h].op = "delete_role"
               /\ roles' = [u \in User |-> roles[u] \ {r}] /\ grants' = [grants EXCEPT ![r] = {}]
               /\ unchecked' = (unchecked \/ \E u \in User : r \in roles[u])
               /\ Writes(h, Idle)
  BY DEF DeleteRoleCommit, At, Writes
<1>2. r \in Role
  BY <1>1, RequestSays DEF Says
<1>3. Bounded /\ UNCHANGED <<account, tokenVars>>
  BY InvFacts DEF DeleteRoleCommit, At, Bounded, RowsTyped
<1>4. ~Signing(h)
  BY <1>1 DEF Signing
<1> QED
  BY <1>1, <1>2, <1>3, <1>4, DeleteRoleWrites

\* The row, the sessions and the links of an account that is erased.
Erased(u) == [account EXCEPT ![u].status = "ANONYMISED", ![u].password = @ + 1, ![u].opens = FALSE]

LEMMA ErasedFacts ==
    ASSUME AccountsInv, NEW u \in Known(account), account' = Erased(u)
    PROVE  /\ account' \in [User -> Account \cup {NoAccount}]
           /\ Known(account') = Known(account)
           /\ \A v \in User : v # u => account'[v] = account[v]
<1>1. account \in [User -> Account \cup {NoAccount}] /\ account[u] \in Account /\ u \in User
  BY InvFacts DEF Known, RowsTyped
<1>2. account'[u] = [account[u] EXCEPT !.status = "ANONYMISED", !.password = @ + 1, !.opens = FALSE]
  BY <1>1 DEF Erased
<1>3. account'[u] \in Account
  <2>1. /\ account[u].role \in {"CUSTOMER", "ADMIN"} /\ account[u].password \in Nat
        /\ account[u] = [status |-> account[u].status, role |-> account[u].role,
                         password |-> account[u].password, opens |-> account[u].opens]
    BY <1>1 DEF Account
  <2>2. account'[u] = [status |-> "ANONYMISED", role |-> account[u].role,
                       password |-> account[u].password + 1, opens |-> FALSE]
    BY <1>2, <2>1
  <2> QED
    BY <2>1, <2>2 DEF Account, UserStatus
<1>4. /\ \A v \in User : v # u => account'[v] = account[v]
      /\ account' = [v \in User |-> account'[v]]
  BY <1>1 DEF Erased
<1>5. account' \in [User -> Account \cup {NoAccount}]
  BY <1>1, <1>3, <1>4
<1>6. Known(account') = Known(account)
  BY <1>1, <1>3, <1>4 DEF Known
<1> QED
  BY <1>4, <1>5, <1>6

Unlinked(u) == [i \in DOMAIN link |->
                   IF link[i].owner = u THEN [link[i] EXCEPT !.state = "deleted"] ELSE link[i]]

LEMMA UnlinkedFacts ==
    ASSUME AccountsInv, NEW u, link' = Unlinked(u)
    PROVE  /\ link' \in Seq(Link) /\ MoreLinks /\ LinksAreSingle'
           /\ \A i \in DOMAIN link' : link'[i].owner \in Known(account)
<1>1. /\ DOMAIN link' = DOMAIN link
      /\ \A i \in DOMAIN link : link'[i] \in {link[i], [link[i] EXCEPT !.state = "deleted"]}
  BY DEF Unlinked
<1>2. ASSUME NEW i \in DOMAIN link
      PROVE  /\ link'[i] \in Link /\ link'[i].owner \in Known(account)
             /\ link'[i].uses <= 1 /\ (link'[i].state = "open" => link'[i].uses = 0)
  <2>1. /\ link[i] \in Link /\ link[i].owner \in Known(account)
        /\ link[i].uses <= 1 /\ (link[i].state = "open" => link[i].uses = 0)
    BY InvFacts DEF AccountsInv, LinksAreSingle, Owned
  <2>2. CASE link'[i] = link[i]
    BY <2>1, <2>2
  <2>3. CASE link'[i] = [link[i] EXCEPT !.state = "deleted"]
    <3>1. /\ link'[i] \in Link /\ link'[i].owner = link[i].owner
          /\ link'[i].state = "deleted" /\ link'[i].uses = link[i].uses
      BY <2>1, <2>3 DEF Link
    <3> QED
      BY <2>1, <3>1
  <2> QED
    BY <1>1, <2>2, <2>3
<1>3. link' \in [1 .. Len(link) -> Link]
  <2>1. link' = [i \in 1 .. Len(link) |-> link'[i]]
    BY InvFacts DEF Unlinked
  <2> QED
    BY <1>2, <2>1, InvFacts
<1>4. link' \in Seq(Link) /\ Len(link') = Len(link)
  BY <1>3, InvFacts
<1>5. LinksAreSingle'
  BY <1>1, <1>2 DEF LinksAreSingle
<1> QED
  BY <1>1, <1>2, <1>4, <1>5, InvFacts DEF MoreLinks

LEMMA EraseWrites ==
    ASSUME AccountsInv, NEW h \in Handler, NEW u \in Known(account),
           account' = Erased(u), session' = Revoked(Of(u)), link' = Unlinked(u),
           unchecked' = (unchecked \/ roles[u] # {}),
           Writes(h, Idle), ~Signing(h), Bounded, UNCHANGED <<roles, grants, unfinished, forked>>
    PROVE  AccountsInv'
<1>1. Known(account) \subseteq User
  BY DEF Known
<1>2. /\ account' \in [User -> Account \cup {NoAccount}]
      /\ Known(account') = Known(account)
      /\ \A v \in User : v # u => account'[v] = account[v]
  BY ErasedFacts
<1>3. /\ Fading /\ session' \in Seq(Session)
      /\ \A j \in DOMAIN session : session'[j].live <=> session[j].live /\ j \notin Of(u)
  BY RevokedFacts
<1>4. /\ link' \in Seq(Link) /\ MoreLinks /\ LinksAreSingle'
      /\ \A i \in DOMAIN link' : link'[i].owner \in Known(account)
  BY UnlinkedFacts
<1>5. unchecked' \in BOOLEAN
  BY InvFacts DEF RowsTyped
<1>6. RowsTyped'
  BY <1>2, <1>3, <1>4, <1>5, InvFacts DEF RowsTyped, Bounded
<1>7. ASSUME ~unchecked'
      PROVE  RecoveryPath(account', roles', grants')
  <2>1. ~unchecked /\ roles[u] = {}
    BY <1>7
  <2>2. RecoveryPath(account, roles, grants)
    BY <2>1 DEF AccountsInv, StaffStand, RecoveryPathSurvives
  <2> QED
    BY <1>2, <2>1, <2>2 DEF RecoveryPath
<1>8. ASSUME NEW v \in Known(account)
      PROVE  \/ account'[v].password = account[v].password /\ (Active(v) => Active(v)')
             \/ \A j \in DOMAIN session : session[j].owner = v => ~session'[j].live
  <2>1. CASE v = u
    BY <1>3, <2>1 DEF Of
  <2>2. CASE v # u
    BY <1>1, <1>2, <2>2 DEF Active
  <2> QED
    BY <2>1, <2>2
<1>9. Leads(Idle) /\ \A i \in DOMAIN link' : link'[i].owner \in Known(account')
  BY <1>2, <1>4 DEF Leads
<1> QED
  BY <1>2, <1>3, <1>4, <1>6, <1>7, <1>8, <1>9, WrittenStep

LEMMA EraseCommitStep ==
    ASSUME AccountsInv, NEW h \in Handler, EraseCommit(h)
    PROVE  AccountsInv'
<1>1. PICK u : /\ u = request[h].user /\ request[h].op = "erase"
               /\ account' = Erased(u) /\ session' = Revoked(Of(u)) /\ link' = Unlinked(u)
               /\ unchecked' = (unchecked \/ roles[u] # {})
               /\ Writes(h, Idle)
  BY DEF EraseCommit, At, Writes, Erased, Unlinked
<1>2. u \in Known(account)
  BY <1>1, RequestSays DEF Says
<1>3. Bounded /\ UNCHANGED <<roles, grants, unfinished, forked>>
  BY InvFacts DEF EraseCommit, At, Bounded, RowsTyped
<1>4. ~Signing(h)
  BY <1>1 DEF Signing
<1> QED
  BY <1>1, <1>2, <1>3, <1>4, EraseWrites

\* A request that stops: what it was about to sign out is remembered.
LEMMA StopWrites ==
    ASSUME AccountsInv, NEW h \in Handler, NEW u \in Known(account), u = request[h].user,
           Signing(h), Goto(h, Idle), Bounded, unfinished' = unfinished \cup {u},
           UNCHANGED <<account, staffVars, session, link, forked>>
    PROVE  AccountsInv'
<1>1. /\ account' = account /\ roles' = roles /\ grants' = grants /\ unchecked' = unchecked
      /\ session' = session /\ link' = link /\ forked' = forked
  BY DEF staffVars
<1>2. request'[h] = Idle /\ Others(h) /\ request' = [g \in Handler |-> request'[g]]
  BY GoesOn
<1>3. u \in User
  BY DEF Known
<1>4. RowsTyped'
  BY <1>1, <1>3, InvFacts DEF RowsTyped, Bounded
<1>5. Fading /\ MoreLinks /\ Known(account) \subseteq Known(account')
  BY <1>1, SameIsFading, SameLinks DEF Known
<1>6. LinksAreSingle' /\ \A i \in DOMAIN link' : link'[i].owner \in Known(account')
  BY <1>1, InvFacts DEF AccountsInv, LinksAreSingle, Owned
<1>7. request'[h].op # "commit" /\ request'[h].op # "issue"
  BY <1>2 DEF Idle
<1>8. StaffStand'
  BY <1>1, <1>2, <1>4, <1>7, StaffKept DEF Keeps
<1>9. ASSUME NEW v \in Known(account)
      PROVE  Stays(v) \/ SigningOut(v)'
  <2>1. CASE v = u
    BY <2>1 DEF SigningOut
  <2>2. CASE v # u
    <3>1. account'[v].password = account[v].password /\ (Active(v) => Active(v)')
      BY <1>1 DEF Active
    <3> QED
      BY <1>2, <2>2, <3>1, StaysSo
  <2> QED
    BY <2>1, <2>2
<1>10. request'[h] \in Possible(account', Len(session'), Len(link'))
  BY <1>2 DEF Possible
<1> QED
  BY <1>1, <1>2, <1>4, <1>5, <1>6, <1>7, <1>8, <1>9, <1>10, FrameStep

LEMMA StopStep ==
    ASSUME AccountsInv, NEW h \in Handler, Stop(h)
    PROVE  AccountsInv'
<1>1. /\ Goto(h, Idle) /\ Bounded /\ UNCHANGED <<account, staffVars, session, link, forked>>
  BY InvFacts DEF Stop, Done, Bounded, RowsTyped
<1>2. CASE Signing(h)
  <2>1. PICK u : u = request[h].user /\ unfinished' = unfinished \cup {u}
    BY <1>2 DEF Stop, Signing
  <2>2. u \in Known(account)
    BY <1>2, <2>1, RequestSays DEF Says, Signing
  <2> QED
    BY <1>1, <1>2, <2>1, <2>2, StopWrites
<1>3. CASE ~Signing(h)
  <2>1. unfinished' = unfinished
    BY <1>3 DEF Stop, Signing
  <2>2. UNCHANGED <<account, staffVars, tokenVars>>
    BY <1>1, <2>1 DEF tokenVars
  <2> QED
    BY <1>1, <1>3, <2>2, IdleIsAllowed, QuietStep
<1> QED
  BY <1>2, <1>3

\* The session that is opened for u in family f, a new one when f is 0.
Opened(u, f, since) ==
    [owner  |-> u,
     family |-> IF f = 0 THEN Len(session) + 1 ELSE f,
     live   |-> TRUE,
     since  |-> since,
     late   |-> account[u].password # since \/ ~Active(u)]

\* The request at h is the heir of family f, when f is not new.
Heir(h, f) == f # 0 => Issues(h) /\ request[h].family = f

LEMMA OpenedFacts ==
    ASSUME AccountsInv, NEW u \in Known(account), NEW f \in 0 .. Len(session), NEW since \in Nat,
           session' = Append(session, Opened(u, f, since))
    PROVE  LET n == Len(session) + 1 IN
           /\ session' \in Seq(Session) /\ DOMAIN session' = 1 .. n /\ Len(session') = n
           /\ \A i \in 1 .. Len(session) : session'[i] = session[i]
           /\ session'[n].owner = u /\ session'[n].since = since
           /\ session'[n].family = (IF f = 0 THEN n ELSE f)
           /\ session'[n].late <=> account[u].password # since \/ ~Active(u)
<1> DEFINE row == Opened(u, f, since)
<1>1. /\ row.owner = u /\ row.since = since
      /\ row.family = (IF f = 0 THEN Len(session) + 1 ELSE f)
      /\ row.late <=> account[u].password # since \/ ~Active(u)
  BY DEF Opened
<1>2. Len(session) \in Nat /\ session \in Seq(Session) /\ u \in User
  BY InvFacts DEF RowsTyped, Known
<1>3. row \in Session
  <2>1. (IF f = 0 THEN Len(session) + 1 ELSE f) \in Nat
    BY <1>2
  <2> QED
    BY <1>2, <2>1 DEF Opened, Session
<1> HIDE DEF row
<1>4. session' = Append(session, row)
  BY DEF row
<1>5. /\ session' \in Seq(Session) /\ Len(session') = Len(session) + 1
      /\ DOMAIN session' = 1 .. (Len(session) + 1)
      /\ \A i \in 1 .. Len(session) : session'[i] = session[i]
      /\ session'[Len(session) + 1] = row
  BY <1>2, <1>3, <1>4
<1> QED
  BY <1>1, <1>5

LEMMA IssueWrites ==
    ASSUME AccountsInv, NEW h \in Handler,
           NEW u \in Known(account), NEW f \in 0 .. Len(session), NEW since \in Nat,
           session' = Append(session, Opened(u, f, since)), Heir(h, f),
           Goto(h, Idle), ~Signing(h), Bounded,
           UNCHANGED <<account, staffVars, link, unfinished, forked>>
    PROVE  AccountsInv'
<1> DEFINE m == Len(session)
           n == m + 1
<1>1. /\ account' = account /\ roles' = roles /\ grants' = grants /\ unchecked' = unchecked
      /\ link' = link /\ unfinished' = unfinished /\ forked' = forked
  BY DEF staffVars
<1>2. request'[h] = Idle /\ Others(h) /\ request' = [g \in Handler |-> request'[g]]
  BY GoesOn
<1>3. /\ session' \in Seq(Session) /\ DOMAIN session' = 1 .. n /\ Len(session') = n
      /\ \A i \in 1 .. m : session'[i] = session[i]
      /\ session'[n].owner = u /\ session'[n].since = since
      /\ session'[n].family = (IF f = 0 THEN n ELSE f)
      /\ session'[n].late <=> account[u].password # since \/ ~Active(u)
  BY OpenedFacts
<1>4. /\ m \in Nat /\ DOMAIN session = 1 .. m /\ Known(account') = Known(account)
      /\ \A i \in 1 .. m : session[i].owner \in Known(account) /\ session[i].family \in 1 .. m
  BY <1>1, InvFacts DEF Owned, Known
<1> HIDE DEF m, n
<1>5. n = m + 1
  BY DEF n
<1>6. RowsTyped'
  BY <1>1, <1>3, InvFacts DEF RowsTyped, Bounded
<1>7. LinksAreSingle' /\ \A i \in DOMAIN link' : link'[i].owner \in Known(account')
  BY <1>1, InvFacts DEF AccountsInv, LinksAreSingle, Owned
<1>8. request'[h].op # "commit" /\ request'[h].op # "issue"
  BY <1>2 DEF Idle
<1>9. StaffStand'
  BY <1>1, <1>2, <1>6, <1>8, StaffKept DEF Keeps
<1>10. RequestsTyped'
  <2>1. request'[h] \in Possible(account', Len(session'), Len(link'))
    BY <1>2 DEF Possible
  <2>2. Len(session) <= Len(session') /\ Len(link) <= Len(link') /\ Len(session') \in Nat /\ Len(link') \in Nat
    BY <1>1, <1>3, <1>4, <1>5, InvFacts DEF m
  <2> QED
    BY <1>2, <1>4, <2>1, <2>2, RequestsGoOn
<1>11. Owned'
  <2>1. ASSUME NEW i \in DOMAIN session'
        PROVE  session'[i].owner \in Known(account') /\ session'[i].family \in 1 .. Len(session')
    <3>1. CASE i \in 1 .. m
      BY <1>3, <1>4, <1>5, <3>1
    <3>2. CASE i = n
      <4>1. f \in 0 .. m
        BY DEF m
      <4> QED
        BY <1>3, <1>4, <1>5, <3>2, <4>1
    <3> QED
      BY <1>3, <1>4, <1>5, <3>1, <3>2
  <2> QED
    BY <1>7, <2>1 DEF Owned
<1>12. \* Whoever is about to issue a token now was before, and is not h.
       ASSUME NEW g \in Handler, Issues(g)'
       PROVE  g # h /\ Issues(g) /\ request'[g].family = request[g].family
  <2>1. g \in Handler \ {h}
    BY <1>8, <1>12 DEF Issues
  <2>2. request'[g] = request[g]
    BY <1>2, <1>12, <2>1, OthersSay DEF Issues
  <2> QED
    BY <1>12, <2>1, <2>2 DEF Issues
<1>13. \* The new token has no live brother.
       ASSUME NEW i \in 1 .. m, session[i].live, session[i].family = session'[n].family
       PROVE  session[i].family \in forked
  <2>1. f # 0 /\ session'[n].family = f
    BY <1>3, <1>4, <1>5, <1>13
  <2>2. Issues(h) /\ request[h].family = f
    BY <2>1 DEF Heir
  <2> QED
    BY <1>4, <1>13, <2>1, <2>2, InvFacts DEF OneToIssue
<1>14. OneHeir'
  <2>1. ASSUME NEW i \in DOMAIN session', NEW j \in DOMAIN session',
               session'[i].live, session'[j].live, session'[i].family = session'[j].family, i # j
        PROVE  session'[i].family \in forked'
    <3>1. CASE i \in 1 .. m /\ j \in 1 .. m
      BY <1>1, <1>3, <1>4, <2>1, <3>1, InvFacts DEF OneHeir
    <3>2. CASE i \in 1 .. m /\ j = n
      BY <1>1, <1>3, <1>13, <2>1, <3>2
    <3>3. CASE i = n /\ j \in 1 .. m
      BY <1>1, <1>3, <1>13, <2>1, <3>3
    <3> QED
      BY <1>3, <1>4, <1>5, <2>1, <3>1, <3>2, <3>3
  <2> QED
    BY <2>1 DEF OneHeir
<1>15. OneToIssue'
  <2>1. ASSUME NEW g \in Handler, Issues(g)', request'[g].family \notin forked'
        PROVE  /\ \A i \in DOMAIN session' : session'[i].family = request'[g].family => ~session'[i].live
               /\ \A k \in Handler : Issues(k)' /\ request'[k].family = request'[g].family => k = g
    <3>1. g # h /\ Issues(g) /\ request'[g].family = request[g].family /\ request[g].family \notin forked
      BY <1>1, <1>12, <2>1
    <3>2. /\ \A i \in DOMAIN session : session[i].family = request[g].family => ~session[i].live
          /\ \A k \in Handler : Issues(k) /\ request[k].family = request[g].family => k = g
      BY <3>1, InvFacts DEF OneToIssue
    <3>3. \A k \in Handler : Issues(k)' /\ request'[k].family = request'[g].family => k = g
      BY <1>12, <3>1, <3>2
    <3>4. request[g].family \in 0 .. m
      BY <3>1, RequestSays DEF Says, Issues, m
    <3>5. session'[n].family # request[g].family
      <4>1. CASE f = 0
        BY <1>3, <1>4, <1>5, <3>4, <4>1
      <4>2. CASE f # 0
        <5>1. Issues(h) /\ request[h].family = f /\ session'[n].family = f
          BY <1>3, <4>2 DEF Heir
        <5> QED
          BY <3>1, <3>2, <5>1
      <4> QED
        BY <4>1, <4>2
    <3>6. ASSUME NEW i \in DOMAIN session', session'[i].family = request'[g].family
          PROVE  ~session'[i].live
      <4>1. i \in 1 .. m
        BY <1>3, <1>4, <1>5, <3>1, <3>5, <3>6
      <4> QED
        BY <1>3, <1>4, <3>1, <3>2, <3>6, <4>1
    <3> QED
      BY <3>3, <3>6
  <2> QED
    BY <2>1 DEF OneToIssue, Issues
<1>16. \A v : SigningOut(v) => SigningOut(v)'
  BY <1>1, <1>2, StillSigningOut DEF Signing
<1>17. SessionsEnd'
  <2>1. ASSUME NEW i \in DOMAIN session', session'[i].live, NEW v, v = session'[i].owner
        PROVE  /\ session'[i].since = account'[v].password \/ session'[i].late \/ SigningOut(v)'
               /\ Active(v)' \/ session'[i].late \/ SigningOut(v)'
    <3>1. CASE i \in 1 .. m
      <4>1. session'[i] = session[i]
        BY <1>3, <3>1
      <4>2. /\ session[i].since = account[v].password \/ session[i].late \/ SigningOut(v)
            /\ Active(v) \/ session[i].late \/ SigningOut(v)
        BY <1>4, <2>1, <3>1, <4>1
           DEF AccountsInv, SessionsEnd, NewPasswordEndsSessions, ClosedAccountIsSignedOut
      <4> QED
        BY <1>1, <1>16, <4>1, <4>2 DEF Active
    <3>2. CASE i = n
      BY <1>1, <1>3, <2>1, <3>2 DEF Active
    <3> QED
      BY <1>3, <1>4, <1>5, <3>1, <3>2
  <2>2. NewPasswordEndsSessions' /\ ClosedAccountIsSignedOut'
    BY <2>1, ZenonT(90) DEF NewPasswordEndsSessions, ClosedAccountIsSignedOut, SigningOut, Active
  <2> QED
    BY <2>2 DEF SessionsEnd
<1> QED
  BY <1>6, <1>7, <1>9, <1>10, <1>11, <1>14, <1>15, <1>17 DEF AccountsInv

LEMMA IssueStep ==
    ASSUME AccountsInv, NEW h \in Handler, issueSession(h)
    PROVE  AccountsInv'
<1>1. PICK u, f, since :
          /\ u = request[h].user /\ f = request[h].family /\ since = request[h].since
          /\ request[h].op = "issue"
          /\ session' = Append(session, Opened(u, f, since))
  BY DEF issueSession, At, Opened
<1>2. u \in Known(account) /\ f \in 0 .. Len(session) /\ since \in Nat
  BY <1>1, RequestSays DEF Says
<1>3. Heir(h, f) /\ ~Signing(h)
  BY <1>1 DEF Heir, Issues, Signing
<1>4. Goto(h, Idle) /\ Bounded /\ UNCHANGED <<account, staffVars, link, unfinished, forked>>
  BY InvFacts DEF issueSession, At, Done, Bounded, RowsTyped
<1> QED
  BY <1>1, <1>2, <1>3, <1>4, IssueWrites

\* The request at h that rotates a token of family f, and the one it becomes.
Inherits(h, u, f, since) == request'[h] = [op |-> "issue", user |-> u, family |-> f, since |-> since]

LEMMA InheritsFacts ==
    ASSUME NEW h \in Handler, NEW u \in Known(account'), NEW m \in Nat, NEW f \in 1 .. m,
           NEW since \in Nat, NEW n \in Nat, Inherits(h, u, f, since)
    PROVE  /\ request'[h] \in Possible(account', m, n)
           /\ Issues(h)' /\ request'[h].family = f /\ request'[h].op # "commit"
<1>1. request'[h] \in [op : {"issue"}, user : Known(account'), family : 0 .. m, since : Nat]
  BY DEF Inherits
<1>2. request'[h].op = "issue" /\ request'[h].family = f
  BY DEF Inherits
<1>3. request'[h] \in Possible(account', m, n)
  BY <1>1 DEF Possible
<1>4. Issues(h)'
  <2>1. f # 0
    OBVIOUS
  <2> QED
    BY <1>2, <2>1 DEF Issues
<1>5. request'[h].op # "commit"
  BY <1>2
<1> QED
  BY <1>2, <1>3, <1>4, <1>5

LEMMA RotateWrites ==
    ASSUME AccountsInv, NEW h \in Handler, NEW i \in DOMAIN session,
           session' = Revoked({i}),
           forked' = IF session[i].live THEN forked ELSE forked \cup {session[i].family},
           Inherits(h, session[i].owner, session[i].family, session[i].since),
           Others(h), request' = [g \in Handler |-> request'[g]],
           ~Signing(h), Bounded, UNCHANGED <<account, staffVars, link, unfinished>>
    PROVE  AccountsInv'
<1> DEFINE f == session[i].family
<1>1. /\ account' = account /\ roles' = roles /\ grants' = grants /\ unchecked' = unchecked
      /\ link' = link /\ unfinished' = unfinished
  BY DEF staffVars
<1>2. /\ session[i] \in Session /\ session[i].owner \in Known(account) /\ f \in 1 .. Len(session)
      /\ Known(account') = Known(account)
  BY <1>1, InvFacts DEF Owned, Known
<1>3. /\ Fading /\ session' \in Seq(Session)
      /\ \A j \in DOMAIN session : session'[j].live <=> session[j].live /\ j \notin {i}
  BY RevokedFacts
<1>4. /\ request'[h] \in Possible(account', Len(session'), Len(link'))
      /\ Issues(h)' /\ request'[h].family = f /\ request'[h].op # "commit"
  <2>1. /\ Len(session') = Len(session) /\ Len(session') \in Nat /\ Len(link') \in Nat
        /\ session[i].since \in Nat
    BY <1>1, <1>2, <1>3, InvFacts DEF Fading, Session
  <2>2. session[i].owner \in Known(account') /\ session[i].family \in 1 .. Len(session')
    BY <1>2, <2>1
  <2> QED
    BY <2>1, <2>2, InheritsFacts
<1>5. forked' \subseteq Nat /\ forked \subseteq forked' /\ (f \notin forked' => session[i].live)
  BY <1>2, InvFacts DEF RowsTyped
<1> HIDE DEF f
<1>6. RowsTyped'
  BY <1>1, <1>3, <1>5, InvFacts DEF RowsTyped, Bounded
<1>7. LinksAreSingle' /\ \A j \in DOMAIN link' : link'[j].owner \in Known(account')
  BY <1>1, InvFacts DEF AccountsInv, LinksAreSingle, Owned
<1>8. StaffStand'
  BY <1>1, <1>4, <1>6, StaffKept DEF Keeps
<1>9. RequestsTyped'
  <2>1. /\ Len(session) <= Len(session') /\ Len(link) <= Len(link')
        /\ Len(session') \in Nat /\ Len(link') \in Nat
    BY <1>1, <1>3, InvFacts DEF Fading
  <2> QED
    BY <1>2, <1>4, <2>1, RequestsGoOn
<1>10. Owned'
  BY <1>1, <1>3, <1>7, InvFacts DEF Owned, Fading
<1>11. OneHeir'
  BY <1>3, <1>5, HeirStays
<1>12. ASSUME NEW g \in Handler, g # h, Issues(g)'
       PROVE  Issues(g) /\ request'[g].family = request[g].family
  <2>1. g \in Handler \ {h}
    BY <1>12
  <2>2. request'[g] = request[g]
    BY <1>12, <2>1, OthersSay DEF Issues
  <2> QED
    BY <1>12, <2>2 DEF Issues
<1>13. \* Nobody else was about to issue a token of this family.
       ASSUME NEW g \in Handler, g # h, Issues(g)', request'[g].family = f, f \notin forked'
       PROVE  FALSE
  <2>1. Issues(g) /\ request[g].family = f /\ f \notin forked /\ session[i].live
    BY <1>5, <1>12, <1>13
  <2>2. session[i].family = f
    BY DEF f
  <2> QED
    BY <2>1, <2>2, InvFacts DEF OneToIssue
<1>14. \* All tokens of this family are over.
       ASSUME NEW j \in DOMAIN session, session[j].family = f, f \notin forked'
       PROVE  ~session'[j].live
  <2>1. session[i].live /\ f \notin forked /\ session[i].family = f
    BY <1>5, <1>14 DEF f
  <2>2. session[j].live => j = i
    BY <1>14, <2>1, InvFacts DEF OneHeir
  <2> QED
    BY <1>3, <2>2
<1>15. OneToIssue'
  <2>1. ASSUME NEW g \in Handler, Issues(g)', request'[g].family \notin forked'
        PROVE  /\ \A j \in DOMAIN session' : session'[j].family = request'[g].family => ~session'[j].live
               /\ \A k \in Handler : Issues(k)' /\ request'[k].family = request'[g].family => k = g
    <3>1. CASE g = h
      <4>1. request'[g].family = f /\ f \notin forked'
        BY <1>4, <2>1, <3>1
      <4>2. \A j \in DOMAIN session' : session'[j].family = f => ~session'[j].live
        BY <1>3, <1>14, <4>1 DEF Fading
      <4>3. \A k \in Handler : Issues(k)' /\ request'[k].family = f => k = h
        BY <1>13, <4>1
      <4> QED
        BY <3>1, <4>1, <4>2, <4>3
    <3>2. CASE g # h
      <4>1. /\ Issues(g) /\ request'[g].family = request[g].family /\ request[g].family \notin forked
        BY <1>5, <1>12, <2>1, <3>2
      <4>2. /\ \A j \in DOMAIN session : session[j].family = request[g].family => ~session[j].live
            /\ \A k \in Handler : Issues(k) /\ request[k].family = request[g].family => k = g
        BY <4>1, InvFacts DEF OneToIssue
      <4>3. \A j \in DOMAIN session' : session'[j].family = request'[g].family => ~session'[j].live
        BY <1>3, <4>1, <4>2 DEF Fading
      <4>4. ASSUME NEW k \in Handler, Issues(k)', request'[k].family = request'[g].family
            PROVE  k = g
        <5>1. CASE k = h
          <6>1. request'[g].family = f /\ f \notin forked'
            BY <1>4, <2>1, <4>4, <5>1
          <6> QED
            BY <1>13, <2>1, <3>2, <6>1
        <5>2. CASE k # h
          BY <1>12, <4>1, <4>2, <4>4, <5>2
        <5> QED
          BY <5>1, <5>2
      <4> QED
        BY <4>3, <4>4
    <3> QED
      BY <3>1, <3>2
  <2> QED
    BY <2>1 DEF OneToIssue, Issues
<1>16. SessionsEnd'
  <2>1. ASSUME NEW v \in Known(account)
        PROVE  Stays(v)
    <3>1. account'[v].password = account[v].password /\ (Active(v) => Active(v)')
      BY <1>1 DEF Active
    <3> QED
      BY <1>1, <3>1, StaysSo
  <2> QED
    BY <1>3, <2>1, EndsStand
<1> QED
  BY <1>6, <1>7, <1>8, <1>9, <1>10, <1>11, <1>15, <1>16 DEF AccountsInv

LEMMA RotateStep ==
    ASSUME AccountsInv, NEW h \in Handler, Rotate(h)
    PROVE  AccountsInv'
<1>1. PICK i, work :
          /\ i = request[h].token /\ request[h].op = "rotate"
          /\ session' = Revoked({i})
          /\ forked' = IF session[i].live THEN forked ELSE forked \cup {session[i].family}
          /\ Goto(h, work)
          /\ work = [op |-> "issue", user |-> session[i].owner, family |-> session[i].family,
                     since |-> session[i].since]
  BY DEF Rotate, At
<1>2. i \in DOMAIN session
  BY <1>1, RequestSays, InvFacts DEF Says
<1>3. request'[h] = work /\ Others(h) /\ request' = [g \in Handler |-> request'[g]]
  BY <1>1, GoesOn
<1>4. Inherits(h, session[i].owner, session[i].family, session[i].since)
  BY <1>1, <1>3 DEF Inherits
<1>5. ~Signing(h)
  BY <1>1 DEF Signing
<1>6. Bounded /\ UNCHANGED <<account, staffVars, link, unfinished>>
  BY InvFacts DEF Rotate, At, Bounded, RowsTyped
<1> QED
  BY <1>1, <1>2, <1>3, <1>4, <1>5, <1>6, RotateWrites

-----------------------------------------------------------------------------
(* Accounts: the specification *)

LEMMA InitEstablishes == AccountsInit => AccountsInv
<1> SUFFICES ASSUME AccountsInit
             PROVE  AccountsInv
  OBVIOUS
<1>1. \A u \in User : account[u] \in Account \/ account[u] = NoAccount
  BY DEF AccountsInit, Account, UserStatus
<1>2. session = <<>> /\ link = <<>> /\ Len(session) = 0 /\ Len(link) = 0
  BY DEF AccountsInit
<1>3. RowsTyped
  <2>1. account \in [User -> Account \cup {NoAccount}]
    BY <1>1 DEF AccountsInit
  <2>2. roles \in [User -> SUBSET Role] /\ grants \in [Role -> SUBSET Permission]
    BY AccountsAssumption DEF AccountsInit
  <2>3. session \in Seq(Session) /\ link \in Seq(Link)
    BY <1>2
  <2>4. served \in 0 .. MaxRequests
    BY AccountsAssumption DEF AccountsInit
  <2>5. unfinished \subseteq User /\ forked \subseteq Nat /\ unchecked \in BOOLEAN
    BY DEF AccountsInit
  <2> QED
    BY <2>1, <2>2, <2>3, <2>4, <2>5 DEF RowsTyped
<1>4. \A h \in Handler : request[h] = Idle
  BY DEF AccountsInit
<1>5. RequestsTyped
  BY <1>4 DEF AccountsInit, RequestsTyped, Possible
<1>6. Owned /\ LinksAreSingle /\ OneHeir /\ SessionsEnd
  BY <1>2 DEF Owned, LinksAreSingle, OneHeir, SessionsEnd, NewPasswordEndsSessions,
              ClosedAccountIsSignedOut
<1>7. OneToIssue /\ Checked
  BY <1>4 DEF OneToIssue, Issues, Checked, Fresh, Idle
<1>8. RecoveryPath(account, roles, grants)
  <2>1. PICK u \in User : Owner \in Hired[u]
    BY AccountsAssumption
  <2>2. account[u].role = "ADMIN" /\ account[u].status = "ACTIVE"
    BY <2>1 DEF AccountsInit
  <2>3. \A p \in RECOVERY_PERMISSIONS : p \in grants[Owner]
    BY AccountsAssumption DEF AccountsInit
  <2> QED
    BY <2>1, <2>2, <2>3 DEF RecoveryPath, AccountsInit
<1> QED
  BY <1>3, <1>5, <1>6, <1>7, <1>8 DEF AccountsInv, StaffStand, RecoveryPathSurvives

LEMMA NextPreserves ==
    ASSUME AccountsInv, [AccountsNext]_accountsVars
    PROVE  AccountsInv'
<1>1. ASSUME NEW h \in Handler, Visit(h)
      PROVE  AccountsInv'
  BY <1>1, RegisterStep, LoginStep, UserRequestStep, RefreshStep, RevokingSteps, ResetRequestStep
     DEF Visit
<1>2. ASSUME NEW h \in Handler, Administer(h)
      PROVE  AccountsInv'
  <2> PICK actor \in User :
          \/ \E r \in Role : deleteRole(h, actor, r)
                             \/ \E P \in Matrix : createRole(h, actor, r, P) \/ updateRole(h, actor, r, P)
          \/ \E u \in User :
                \/ \E R \in SUBSET Role : inviteStaff(h, actor, u, R)
                \/ \E R \in {Omitted} \cup SUBSET Role, s \in {"ACTIVE", "SUSPENDED", Omitted} :
                      updateStaff(h, actor, u, R, s)
                \/ resendInvite(h, actor, u) \/ eraseAccount(h, actor, u)
                \/ \E s \in {"ACTIVE", "SUSPENDED"} : customerStatus(h, actor, u, s)
    BY <1>2, Zenon DEF Administer
  <2>1. ASSUME NEW r \in Role, \/ deleteRole(h, actor, r)
                               \/ \E P \in Matrix : createRole(h, actor, r, P) \/ updateRole(h, actor, r, P)
        PROVE  AccountsInv'
    BY <2>1, DeleteRoleRequestStep, CreateRoleStep, UpdateRoleStep
  <2>2. ASSUME NEW u \in User, NEW R \in SUBSET Role, inviteStaff(h, actor, u, R)
        PROVE  AccountsInv'
    BY <2>2, InviteStep
  <2>3. ASSUME NEW u \in User, NEW R \in {Omitted} \cup SUBSET Role,
               NEW s \in {"ACTIVE", "SUSPENDED", Omitted}, updateStaff(h, actor, u, R, s)
        PROVE  AccountsInv'
    BY <2>3, UpdateStaffStep
  <2>4. ASSUME NEW u \in User, resendInvite(h, actor, u) \/ eraseAccount(h, actor, u)
        PROVE  AccountsInv'
    BY <2>4, UserRequestStep
  <2>5. ASSUME NEW u \in User, NEW s \in {"ACTIVE", "SUSPENDED"}, customerStatus(h, actor, u, s)
        PROVE  AccountsInv'
    BY <2>5, CustomerStatusStep
  <2> QED
    BY <2>1, <2>2, <2>3, <2>4, <2>5
<1>3. ASSUME NEW h \in Handler, Step(h)
      PROVE  AccountsInv'
  BY <1>3, IssueStep, RevokingSteps, RotateStep, RehashStep, VoidLinksStep, MailLinkStep,
     ResetCommitStep, CheckStep, ChangeCommitStep, DeleteRoleCommitStep, EraseCommitStep, StopStep
     DEF Step
<1>4. CASE UNCHANGED accountsVars
  <2>1. /\ account' = account /\ roles' = roles /\ grants' = grants /\ session' = session
        /\ link' = link /\ request' = request /\ served' = served /\ unfinished' = unfinished
        /\ forked' = forked /\ unchecked' = unchecked
    BY <1>4 DEF accountsVars
  <2>2. /\ RowsTyped' /\ RequestsTyped' /\ Owned' /\ LinksAreSingle' /\ OneHeir' /\ OneToIssue'
    BY <2>1, InvFacts DEF AccountsInv, RowsTyped, RequestsTyped, Owned, Known, LinksAreSingle,
                          OneHeir, OneToIssue, Issues
  <2>3. SessionsEnd'
    BY <2>1 DEF AccountsInv, SessionsEnd, NewPasswordEndsSessions, ClosedAccountIsSignedOut,
                SigningOut, Active
  <2>4. StaffStand'
    BY <2>1 DEF AccountsInv, StaffStand, RecoveryPathSurvives, Checked, Fresh
  <2> QED
    BY <2>2, <2>3, <2>4 DEF AccountsInv
<1> QED
  BY <1>1, <1>2, <1>3, <1>4 DEF AccountsNext

LEMMA AccountsStand == AccountsSpec => []AccountsInv
<1>1. AccountsInit => AccountsInv
  BY InitEstablishes
<1>2. AccountsInv /\ [AccountsNext]_accountsVars => AccountsInv'
  BY NextPreserves
<1> QED
  BY <1>1, <1>2, PTL DEF AccountsSpec

\* A link sets one password however many requests bring it together, and a
\* refresh token has one heir unless two refreshes of it overlapped
\* (auth.service resetPassword, refresh).
THEOREM SecretsAlwaysOpenOnce == AccountsSpec => []SecretsOpenOnce
<1>1. AccountsInv => SecretsOpenOnce
  BY InvImplies
<1> QED
  BY <1>1, AccountsStand, PTL

\* A live session was opened under the password the account has and the account
\* is open, unless a request in flight issued it or the request that ends it has
\* not finished (auth.service changePassword, logoutAll, resetPassword;
\* rbac.routes, admin.routes and privacy.service where they close an account).
THEOREM SessionsAlwaysEnd == AccountsSpec => []SessionsEnd
<1>1. AccountsInv => SessionsEnd
  BY InvImplies
<1> QED
  BY <1>1, AccountsStand, PTL

\* However many people change staff and roles at once, somebody who is active
\* can manage both, as long as every change is one the lockout check could see
\* (rbac.service assertRecoveryPathSurvives).
THEOREM RecoveryPathAlwaysSurvives == AccountsSpec => []RecoveryPathSurvives
<1>1. AccountsInv => RecoveryPathSurvives
  BY InvImplies
<1> QED
  BY <1>1, AccountsStand, PTL

=============================================================================
