------------------------------- MODULE Orders -------------------------------
(***************************************************************************)
(* Orders and the stock they consume: createOrder, cancelOrder,            *)
(* updateOrderStatus and the deletion of an order (modules/orders), and    *)
(* applyMovement / setStock (modules/inventory), statement by statement,   *)
(* over PostgreSQL.                                                        *)
(*                                                                         *)
(* createOrder runs SERIALIZABLE: every read comes from the snapshot of    *)
(* its first statement, a write to a row somebody committed since then is  *)
(* refused, and of two checkouts that overlap only one can commit, since   *)
(* each counts the orders and inserts one.  Every other transaction runs   *)
(* READ COMMITTED: each statement sees what is committed when it runs, a   *)
(* write waits for the row lock, and what is written was computed from an  *)
(* earlier read.  A written row stays locked until commit or rollback.     *)
(*                                                                         *)
(* An order is named by its customer: a customer has one bag, and placing  *)
(* the order empties it.  Coupons, gift cards and payment records touch    *)
(* other rows and are left to other modules.                               *)
(***************************************************************************)
EXTENDS Integers, FiniteSets, OrderStatus

CONSTANTS
    Variant,      \* the product variants, one inventory row each
    Customer,     \* the customers, each with one bag
    Staff,        \* the requests made from the admin panel, one handler call each
    Line,         \* the lines of all the bags
    OwnerOf,      \* [Line -> Customer]: whose bag a line is in
    VariantOf,    \* [Line -> Variant]: what it buys
    Qty,          \* [Line -> positive integer]: how many
    Opening,      \* [Variant -> Nat]: opening stock
    Adjustments,  \* the signed quantities staff enter in "adjust stock"
    Targets,      \* the figures staff enter in "set stock to"
    None          \* no value

ASSUME OrdersAssumption ==
    /\ IsFiniteSet(Customer)
    /\ Customer \cap Staff = {}
    /\ OwnerOf \in [Line -> Customer]
    /\ VariantOf \in [Line -> Variant]
    /\ Qty \in [Line -> Nat \ {0}]
    /\ Opening \in [Variant -> Nat]
    /\ Adjustments \subseteq Int
    /\ Targets \subseteq Nat
    /\ None \notin Customer \cup Variant \cup Line

VARIABLES
    \* The committed database.
    stock,        \* [Variant -> Int]: inventory.availableStock
    ledger,       \* [Variant -> Int]: sum of the inventory_movements quantities
    order,        \* [Customer -> status, or NoOrder]: the orders table
    number,       \* [Customer -> Nat]: orderNumber, minted when checkout begins
    \* The requests in flight.
    pc,           \* where each request is
    todo,         \* the lines a transaction has still to write
    seen,         \* the balance a request read for each variant
    written,      \* the inventory rows a transaction has written, so locked
    buf,          \* the balances it wrote, not yet committed
    moved,        \* the movement quantities it wrote, not yet committed
    missed,       \* the rows others committed since the request read them
    outrun,       \* the checkouts another checkout has overtaken
    subject,      \* what a staff request is about: an order or a variant
    line,         \* the line a cancellation is restoring
    next,         \* the status a staff request is writing
    \* History, read by no action.
    lost,         \* the variants where a write has overwritten one it never saw
    unrecorded,   \* [Variant -> Int]: stock written whose movement row is not
    released      \* the orders whose stock has been put back

dbVars      == <<stock, ledger, order, number>>
txVars      == <<todo, seen, written, buf, moved, missed, outrun>>
requestVars == <<subject, line, next>>
historyVars == <<lost, unrecorded, released>>
vars        == <<dbVars, pc, txVars, requestVars, historyVars>>

-----------------------------------------------------------------------------
(* Requests, bags and statuses *)

Tx == Customer \cup Staff

NoOrder == "NO_ORDER"

CheckoutPc == {"idle", "begun", "taking", "placed"}
StaffPc    == {"idle", "cancelling", "restocking", "advancing",
               "moving", "adjusting", "recording", "done"}

Bag(c) == {l \in Line : OwnerOf[l] = c}

Zero == [v \in Variant |-> 0]

\* Two lines of one bag never buy the same variant.  The bag does not enforce
\* it (parts of one garment share a variant); the theorems state it.
OneLinePerVariant ==
    \A l, m \in Line : OwnerOf[l] = OwnerOf[m] /\ VariantOf[l] = VariantOf[m] => l = m

-----------------------------------------------------------------------------
(* The database: row locks, snapshots, commit and rollback *)

LockedByOther(v, t) == \E u \in Tx \ {t} : v \in written[u]

\* Requests whose earlier reads still decide what they will write.
Reading(t) == pc[t] \in {"begun", "taking", "cancelling", "restocking", "adjusting"}

\* A commit of `rows` by t is news to everybody else who has read them.
Publish(t, rows) ==
    /\ missed' = [u \in Tx |->
                    IF u = t THEN {}
                    ELSE IF Reading(u) THEN missed[u] \cup rows ELSE missed[u]]
    /\ lost' = lost \cup (rows \cap missed[t])

Forget(t) ==
    /\ todo'    = [todo EXCEPT ![t] = {}]
    /\ seen'    = [seen EXCEPT ![t] = Zero]
    /\ written' = [written EXCEPT ![t] = {}]
    /\ buf'     = [buf EXCEPT ![t] = Zero]
    /\ moved'   = [moved EXCEPT ![t] = Zero]

Commit(t) ==
    /\ stock'  = [v \in Variant |-> IF v \in written[t] THEN buf[t][v] ELSE stock[v]]
    /\ ledger' = [v \in Variant |-> ledger[v] + moved[t][v]]
    /\ Publish(t, written[t])
    /\ Forget(t)

\* (Mutant: the balance is written, its movement row forgotten.)
WriteStockUnrecorded(t, v, balance, quantity) ==
    /\ ~LockedByOther(v, t)
    /\ written' = [written EXCEPT ![t] = @ \cup {v}]
    /\ buf'     = [buf EXCEPT ![t][v] = balance]
    /\ UNCHANGED moved

\* UPDATE inventory SET availableStock = balance, with its movement row.
WriteStock(t, v, balance, quantity) ==
    /\ ~LockedByOther(v, t)
    /\ written' = [written EXCEPT ![t] = @ \cup {v}]
    /\ buf'     = [buf EXCEPT ![t][v] = balance]
    /\ moved'   = [moved EXCEPT ![t][v] = @ + quantity]

Rollback(t) ==
    /\ pc'     = [pc EXCEPT ![t] = IF t \in Customer THEN "idle" ELSE "done"]
    /\ Forget(t)
    /\ missed' = [missed EXCEPT ![t] = {}]
    /\ outrun' = outrun \ {t}
    /\ UNCHANGED <<dbVars, requestVars, historyVars>>

InFlight(t) == pc[t] \notin {"idle", "placed", "done"}

-----------------------------------------------------------------------------
(* createOrder *)

Placed == {c \in Customer : order[c] # NoOrder}

\* (Mutant: the next number is the count of the orders, not one more.)
CheckoutBeginMintsCount(c) ==
    /\ pc[c] = "idle"
    /\ Bag(c) # {}
    /\ \A l \in Bag(c) : Qty[l] <= stock[VariantOf[l]]
    /\ pc' = [pc EXCEPT ![c] = "begun"]
    /\ seen' = [seen EXCEPT ![c] = stock]
    /\ missed' = [missed EXCEPT ![c] = {}]
    /\ number' = [number EXCEPT ![c] = Cardinality(Placed)]
    /\ UNCHANGED <<stock, ledger, order, todo, written, buf, moved, outrun,
                   requestVars, historyVars>>

\* The first statement fixes the snapshot: the bag with its inventory rows and
\* the count of the orders are all read from it.  A bag that is empty or asks
\* for more than the stock read is refused before anything is written.
CheckoutBegin(c) ==
    /\ pc[c] = "idle"
    /\ Bag(c) # {}
    /\ \A l \in Bag(c) : Qty[l] <= stock[VariantOf[l]]
    /\ pc' = [pc EXCEPT ![c] = "begun"]
    /\ seen' = [seen EXCEPT ![c] = stock]
    /\ missed' = [missed EXCEPT ![c] = {}]
    /\ number' = [number EXCEPT ![c] = Cardinality(Placed) + 1]
    /\ UNCHANGED <<stock, ledger, order, todo, written, buf, moved, outrun,
                   requestVars, historyVars>>

\* A second insert of the same orderNumber waits on the unique index for the
\* first to commit or roll back, and fails if it commits.
SameNumberInFlight(c) ==
    {d \in Customer \ {c} : pc[d] = "taking" /\ number[d] = number[c]}

NumberTaken(c) == \E d \in Placed : number[d] = number[c]

InsertOrder(c) ==
    /\ pc[c] = "begun"
    /\ SameNumberInFlight(c) = {}
    /\ ~NumberTaken(c)
    /\ pc' = [pc EXCEPT ![c] = "taking"]
    /\ todo' = [todo EXCEPT ![c] = Bag(c)]
    /\ UNCHANGED <<dbVars, seen, written, buf, moved, missed, outrun,
                   requestVars, historyVars>>

\* (Mutant: the checkout runs READ COMMITTED, so a stale row is not refused.)
TakeStockReadCommitted(c, l) ==
    /\ pc[c] = "taking"
    /\ l \in todo[c]
    /\ WriteStock(c, VariantOf[l], seen[c][VariantOf[l]] - Qty[l], 0 - Qty[l])
    /\ todo' = [todo EXCEPT ![c] = @ \ {l}]
    /\ UNCHANGED <<dbVars, pc, seen, missed, outrun, requestVars, historyVars>>

\* The balance is the snapshot's minus this line's quantity.
TakeStock(c, l) ==
    /\ pc[c] = "taking"
    /\ l \in todo[c]
    /\ VariantOf[l] \notin missed[c]
    /\ WriteStock(c, VariantOf[l], seen[c][VariantOf[l]] - Qty[l], 0 - Qty[l])
    /\ todo' = [todo EXCEPT ![c] = @ \ {l}]
    /\ UNCHANGED <<dbVars, pc, seen, missed, outrun, requestVars, historyVars>>

CheckoutCommit(c) ==
    /\ pc[c] = "taking"
    /\ todo[c] = {}
    /\ c \notin outrun
    /\ Commit(c)
    /\ order' = [order EXCEPT ![c] = "PENDING_PAYMENT"]
    /\ pc' = [pc EXCEPT ![c] = "placed"]
    /\ outrun' = outrun \cup {d \in Customer \ {c} : pc[d] \in {"begun", "taking"}}
    /\ UNCHANGED <<number, requestVars, unrecorded, released>>

-----------------------------------------------------------------------------
(* cancelOrder *)

CancelBegin(s, c) ==
    /\ pc[s] = "idle"
    /\ order[c] \notin {NoOrder, "CANCELLED", "DELIVERED"}
    /\ pc' = [pc EXCEPT ![s] = "cancelling"]
    /\ subject' = [subject EXCEPT ![s] = c]
    /\ todo' = [todo EXCEPT ![s] = Bag(c)]
    /\ UNCHANGED <<dbVars, seen, written, buf, moved, missed, outrun, line, next, historyVars>>

\* A transaction reads its own uncommitted write, else what is committed.
CancelReadStock(s, l) ==
    LET v == VariantOf[l] IN
    /\ pc[s] = "cancelling"
    /\ l \in todo[s]
    /\ pc' = [pc EXCEPT ![s] = "restocking"]
    /\ line' = [line EXCEPT ![s] = l]
    /\ IF v \in written[s]
       THEN /\ seen' = [seen EXCEPT ![s][v] = buf[s][v]]
            /\ UNCHANGED missed
       ELSE /\ seen' = [seen EXCEPT ![s][v] = stock[v]]
            /\ missed' = [missed EXCEPT ![s] = @ \ {v}]
    /\ UNCHANGED <<dbVars, todo, written, buf, moved, outrun, subject, next, historyVars>>

CancelWriteStock(s) ==
    LET l == line[s] IN
    /\ pc[s] = "restocking"
    /\ WriteStock(s, VariantOf[l], seen[s][VariantOf[l]] + Qty[l], Qty[l])
    /\ todo' = [todo EXCEPT ![s] = @ \ {l}]
    /\ pc' = [pc EXCEPT ![s] = "cancelling"]
    /\ line' = [line EXCEPT ![s] = None]
    /\ UNCHANGED <<dbVars, seen, missed, outrun, subject, next, historyVars>>

\* The status is written unconditionally; only a deleted order stops it.
CancelCommit(s) ==
    LET c == subject[s] IN
    /\ pc[s] = "cancelling"
    /\ todo[s] = {}
    /\ order[c] # NoOrder
    /\ Commit(s)
    /\ order' = [order EXCEPT ![c] = "CANCELLED"]
    /\ released' = released \cup {c}
    /\ pc' = [pc EXCEPT ![s] = "done"]
    /\ UNCHANGED <<number, outrun, requestVars, unrecorded>>

-----------------------------------------------------------------------------
(* updateOrderStatus, for every status but CANCELLED; the deletion of an order *)

StatusRead(s, c, status) ==
    /\ pc[s] = "idle"
    /\ order[c] # NoOrder
    /\ status \in AllowedTransitions(order[c]) \ {"CANCELLED"}
    /\ pc' = [pc EXCEPT ![s] = "advancing"]
    /\ subject' = [subject EXCEPT ![s] = c]
    /\ next' = [next EXCEPT ![s] = status]
    /\ UNCHANGED <<dbVars, txVars, line, historyVars>>

StatusWrite(s) ==
    /\ pc[s] = "advancing"
    /\ order[subject[s]] # NoOrder
    /\ order' = [order EXCEPT ![subject[s]] = next[s]]
    /\ pc' = [pc EXCEPT ![s] = "done"]
    /\ UNCHANGED <<stock, ledger, number, txVars, requestVars, historyVars>>

\* Nothing is put back on the shelf, and the order no longer counts towards
\* the next number.
DeleteOrder(s, c) ==
    /\ pc[s] = "idle"
    /\ order[c] # NoOrder
    /\ order' = [order EXCEPT ![c] = NoOrder]
    /\ pc' = [pc EXCEPT ![s] = "done"]
    /\ UNCHANGED <<stock, ledger, number, txVars, requestVars, historyVars>>

-----------------------------------------------------------------------------
(* setStock and applyMovement from the stock screen: no transaction *)

AdjustStock(s, v, quantity) ==
    /\ pc[s] = "idle"
    /\ quantity # 0
    /\ pc' = [pc EXCEPT ![s] = "moving"]
    /\ subject' = [subject EXCEPT ![s] = v]
    /\ moved' = [moved EXCEPT ![s][v] = quantity]
    /\ UNCHANGED <<dbVars, todo, seen, written, buf, missed, outrun, line, next, historyVars>>

\* The difference is taken against one read, applied to a second one.
SetStock(s, v, target) ==
    AdjustStock(s, v, target - stock[v])

MovementRead(s) ==
    LET v == subject[s] IN
    /\ pc[s] = "moving"
    /\ stock[v] + moved[s][v] >= 0
    /\ pc' = [pc EXCEPT ![s] = "adjusting"]
    /\ seen' = [seen EXCEPT ![s][v] = stock[v]]
    /\ UNCHANGED <<dbVars, todo, written, buf, moved, missed, outrun, requestVars, historyVars>>

MovementRefused(s) ==
    /\ pc[s] = "moving"
    /\ stock[subject[s]] + moved[s][subject[s]] < 0
    /\ Rollback(s)

\* Commits by itself: the balance is changed before its movement row exists.
MovementWrite(s) ==
    LET v == subject[s] IN
    /\ pc[s] = "adjusting"
    /\ ~LockedByOther(v, s)
    /\ stock' = [stock EXCEPT ![v] = seen[s][v] + moved[s][v]]
    /\ unrecorded' = [unrecorded EXCEPT ![v] = @ + moved[s][v]]
    /\ Publish(s, {v})
    /\ pc' = [pc EXCEPT ![s] = "recording"]
    /\ UNCHANGED <<ledger, order, number, todo, seen, written, buf, moved, outrun,
                   requestVars, released>>

MovementRecord(s) ==
    LET v == subject[s] IN
    /\ pc[s] = "recording"
    /\ ledger' = [ledger EXCEPT ![v] = @ + moved[s][v]]
    /\ unrecorded' = [unrecorded EXCEPT ![v] = @ - moved[s][v]]
    /\ pc' = [pc EXCEPT ![s] = "done"]
    /\ Forget(s)
    /\ UNCHANGED <<stock, order, number, missed, outrun, requestVars, lost, released>>

-----------------------------------------------------------------------------
(* Failure *)

\* Who holds what t is waiting for.
Blockers(t) ==
    CASE pc[t] = "begun" -> SameNumberInFlight(t)
      [] pc[t] = "taking" ->
            IF \E l \in todo[t] : ~LockedByOther(VariantOf[l], t)
            THEN {}
            ELSE {u \in Tx \ {t} : \E l \in todo[t] : VariantOf[l] \in written[u]}
      [] pc[t] = "restocking" -> {u \in Tx \ {t} : VariantOf[line[t]] \in written[u]}
      [] OTHER -> {}

\* (Mutant: nothing looks for a cycle of waiting transactions.)
DeadlockUnnoticed(t) == FALSE

Deadlocked(t) ==
    \E S \in SUBSET Tx :
        /\ t \in S
        /\ \A u \in S : Blockers(u) # {} /\ Blockers(u) \subseteq S

\* What makes the database refuse t's next statement: a serialization failure,
\* a duplicate orderNumber, a row that is gone, a deadlock.
Doomed(t) ==
    \/ pc[t] = "begun"      /\ NumberTaken(t)
    \/ pc[t] = "taking"     /\ \E l \in todo[t] : VariantOf[l] \in missed[t]
    \/ pc[t] = "taking"     /\ todo[t] = {} /\ t \in outrun
    \/ pc[t] = "cancelling" /\ todo[t] = {} /\ order[subject[t]] = NoOrder
    \/ pc[t] = "advancing"  /\ order[subject[t]] = NoOrder
    \/ Deadlocked(t)

Refused(t) == InFlight(t) /\ Doomed(t) /\ Rollback(t)

\* A lost connection, a transaction over its time limit, a process that stops.
Interrupted(t) == InFlight(t) /\ Rollback(t)

-----------------------------------------------------------------------------
(* The specification *)

Init ==
    /\ stock = Opening
    /\ ledger = Opening
    /\ order = [c \in Customer |-> NoOrder]
    /\ number = [c \in Customer |-> 0]
    /\ pc = [t \in Tx |-> "idle"]
    /\ todo = [t \in Tx |-> {}]
    /\ seen = [t \in Tx |-> Zero]
    /\ written = [t \in Tx |-> {}]
    /\ buf = [t \in Tx |-> Zero]
    /\ moved = [t \in Tx |-> Zero]
    /\ missed = [t \in Tx |-> {}]
    /\ outrun = {}
    /\ subject = [s \in Staff |-> None]
    /\ line = [s \in Staff |-> None]
    /\ next = [s \in Staff |-> None]
    /\ lost = {}
    /\ unrecorded = Zero
    /\ released = {}

\* What a customer's or a staff request does once it has begun.
CheckoutStep(c) ==
    \/ InsertOrder(c)
    \/ \E l \in Line : TakeStock(c, l)
    \/ CheckoutCommit(c)

StaffStep(s) ==
    \/ \E l \in Line : CancelReadStock(s, l)
    \/ CancelWriteStock(s)
    \/ CancelCommit(s)
    \/ StatusWrite(s)
    \/ MovementRead(s)
    \/ MovementRefused(s)
    \/ MovementWrite(s)
    \/ MovementRecord(s)

StaffBegin(s) ==
    \/ \E c \in Customer : CancelBegin(s, c)
    \/ \E c \in Customer, status \in Status : StatusRead(s, c, status)
    \/ \E c \in Customer : DeleteOrder(s, c)
    \/ \E v \in Variant, quantity \in Adjustments : AdjustStock(s, v, quantity)
    \/ \E v \in Variant, target \in Targets : SetStock(s, v, target)

Next ==
    \/ \E c \in Customer : CheckoutBegin(c) \/ CheckoutStep(c)
    \/ \E s \in Staff : StaffBegin(s) \/ StaffStep(s)
    \/ \E t \in Tx : Refused(t) \/ Interrupted(t)

Spec == Init /\ [][Next]_vars

\* A handler that has begun goes on; the queue for a lock is first in, first
\* out, so a statement that can run again and again does run (strong fairness);
\* and the database reports what it refuses.
Fairness ==
    /\ \A c \in Customer : SF_vars(CheckoutStep(c))
    /\ \A s \in Staff : SF_vars(StaffStep(s))
    /\ \A t \in Tx : WF_vars(Refused(t))

FairSpec == Spec /\ Fairness

-----------------------------------------------------------------------------
(* Properties *)

\* Every variable has its type, and a request that is under way knows what it
\* is about.
DatabaseTypeOK ==
    /\ stock \in [Variant -> Int]
    /\ ledger \in [Variant -> Int]
    /\ order \in [Customer -> Status \cup {NoOrder}]
    /\ number \in [Customer -> Nat]
    /\ lost \subseteq Variant
    /\ unrecorded \in [Variant -> Int]
    /\ released \subseteq Customer

TransactionTypeOK ==
    /\ todo \in [Tx -> SUBSET Line]
    /\ seen \in [Tx -> [Variant -> Int]]
    /\ written \in [Tx -> SUBSET Variant]
    /\ buf \in [Tx -> [Variant -> Int]]
    /\ moved \in [Tx -> [Variant -> Int]]
    /\ missed \in [Tx -> SUBSET Variant]
    /\ outrun \subseteq Customer

RequestTypeOK ==
    /\ pc \in [Tx -> CheckoutPc \cup StaffPc]
    /\ subject \in [Staff -> Customer \cup Variant \cup {None}]
    /\ line \in [Staff -> Line \cup {None}]
    /\ next \in [Staff -> Status \cup {None}]
    /\ \A c \in Customer : pc[c] \in CheckoutPc
    /\ \A s \in Staff :
          /\ pc[s] \in StaffPc
          /\ pc[s] \in {"cancelling", "restocking", "advancing"} => subject[s] \in Customer
          /\ pc[s] \in {"moving", "adjusting", "recording"} => subject[s] \in Variant
          /\ pc[s] = "restocking" => line[s] \in Line
          /\ pc[s] = "advancing" => next[s] \in Status

TypeOK == DatabaseTypeOK /\ TransactionTypeOK /\ RequestTypeOK

\* "Negative stock is never a valid state" (inventory.service.ts): every path
\* writes a balance computed from an earlier read, checkouts and staff at once.
StockNeverNegative == \A v \in Variant : stock[v] >= 0

\* The movement ledger adds up to the balance, except for a variant where one
\* write has overwritten another it never saw (lost), and up to the movements
\* whose row is still to be inserted or never was (unrecorded).  So these are
\* the only two ways balance and ledger can part.
LedgerExplainsBalance ==
    \A v \in Variant \ lost : stock[v] = ledger[v] + unrecorded[v]

\* A checkout is one indivisible sale: refinement of Sales.
CheckedOut == {c \in Customer : pc[c] = "placed"}

Promise == INSTANCE Sales WITH shelf <- stock, sold <- CheckedOut

SaleIsAtomic == Promise!Spec

\* Until an order is deleted, the orders are numbered 1, 2, 3 and so on
\* without a gap, so the number the next checkout mints is free.
NumbersAreTheCount ==
    CheckedOut = Placed => {number[c] : c \in Placed} = 1 .. Cardinality(Placed)

\* Every request that has begun is answered: no set of transactions waits for
\* one another's locks for ever.
EveryRequestIsAnswered == \A t \in Tx : InFlight(t) ~> ~InFlight(t)

\* What is on the shelf is explained: no request loses its order, variant or
\* line, no balance is negative, and the movement ledger accounts for it, with
\* checkouts, cancellations and stock writes of staff overlapping at every
\* statement.
StockIsExplained == TypeOK /\ StockNeverNegative /\ LedgerExplainsBalance

=============================================================================
