----------------------------- MODULE GiftCards -----------------------------
(***************************************************************************)
(* Gift cards (modules/giftcards) and the orders they pay for: a card is   *)
(* bought or issued by hand, spent at checkout, credited when the order is *)
(* cancelled and written off by staff; every movement is a ledger row.     *)
(*                                                                         *)
(* Checkout runs SERIALIZABLE: it works on a snapshot, and a card written  *)
(* since refuses it.  Everything else runs READ COMMITTED and writes what  *)
(* follows from an earlier read.  Each order here is placed with a card;   *)
(* stock and coupons are left out, but for the inventory rows whose locks  *)
(* make two cancellations of one order take turns.  Amounts are in rupees. *)
(***************************************************************************)
EXTENDS Integers, FiniteSetsExt, Processes

CONSTANTS
    Card,      \* the gift cards there can be
    Order,     \* the orders there can be
    Handler,   \* handler calls in flight at once
    Values,    \* the values cards are sold at
    Totals     \* the totals orders come to

ASSUME GiftCardsAssumption ==
    /\ IsFiniteSet(Order)
    /\ Values \subseteq Nat \ {0}
    /\ Totals \subseteq Nat \ {0}
    /\ None \notin Card /\ None \notin Order

VARIABLES
    \* The database.
    card,       \* [Card -> gift card row, or NoCard]
    ledger,     \* [Card -> Int]: what its ledger rows sum to
    purchase,   \* [Card -> status of the order that bought it, or "none"]
    order,      \* [Order -> order row, or NoOrder]
    credits,    \* [Order -> Nat]: REFUND rows that name it
    \* The process.
    announced,  \* cards whose purchase was paid, the ORDER_PAID handler still to run
    \* History.
    expired,    \* cards whose date has passed
    staleWrite  \* whether a write was made from a stale read

giftCardsVars == <<card, ledger, purchase, order, credits, announced, pc, job, expired, staleWrite>>

handlers == <<pc, job>>
cardVars == <<card, ledger, purchase>>

-----------------------------------------------------------------------------
(* Cards, orders and handlers *)

GiftCardStatus == {"PENDING", "ACTIVE", "REDEEMED", "CANCELLED"}

NoCard  == [status |-> "NO_CARD", balance |-> 0, value |-> 0]
CardRow == [status : GiftCardStatus, balance : Int, value : Values]
NoOrder == [status |-> "NO_ORDER", card |-> None, total |-> 0, giftCardAmount |-> 0, charged |-> 0]
Placed  == [status         : {"PENDING_PAYMENT", "PAID", "CANCELLED", "DELETED"},
            card           : Card,
            total          : Totals,
            giftCardAmount : Nat,
            charged        : Nat]

CardCall == [card  : Card \cup {None},
             order : Order \cup {None},
             seen  : CardRow \cup {NoCard},   \* the card as the handler read it
             total : Totals \cup {0},
             stale : BOOLEAN]                 \* whether somebody has written the card since

NoCardCall == [card |-> None, order |-> None, seen |-> NoCard, total |-> 0, stale |-> FALSE]

\* A commit that writes card c, to handlers that have read it.
Outdate(c) == [h \in Handler |-> [job[h] EXCEPT !.stale = @ \/ job[h].card = c]]

CommitOf(h, c) ==
    /\ pc'  = [pc EXCEPT ![h] = "idle"]
    /\ job' = [Outdate(c) EXCEPT ![h] = NoCardCall]

-----------------------------------------------------------------------------
(* Buying and issuing *)

Create(c, value, status) ==
    /\ card[c] = NoCard
    /\ card'   = [card EXCEPT ![c] = [status |-> status, balance |-> value, value |-> value]]
    /\ ledger' = [ledger EXCEPT ![c] = value]

\* POST /admin/gift-cards: live immediately.
issueGiftCard(c, value) ==
    /\ Create(c, value, "ACTIVE")
    /\ UNCHANGED <<purchase, order, credits, announced, handlers, expired, staleWrite>>

\* POST /gift-cards/purchase: an order, and a card held pending.
purchaseGiftCard(c, value) ==
    /\ Create(c, value, "PENDING")
    /\ purchase' = [purchase EXCEPT ![c] = "PENDING_PAYMENT"]
    /\ UNCHANGED <<order, credits, announced, handlers, expired, staleWrite>>

\* markOrderPaid and announcePaid, in one step (Payments).
PurchasePaid(c) ==
    /\ purchase[c] = "PENDING_PAYMENT"
    /\ purchase' = [purchase EXCEPT ![c] = "PAID"]
    /\ announced' = announced \cup {c}
    /\ UNCHANGED <<card, ledger, order, credits, handlers, expired, staleWrite>>

\* cancelOrder: its order has no card to credit, and the card it bought stays.
PurchaseCancelled(c) ==
    /\ purchase[c] \in {"PENDING_PAYMENT", "PAID"}
    /\ purchase' = [purchase EXCEPT ![c] = "CANCELLED"]
    /\ UNCHANGED <<card, ledger, order, credits, announced, handlers, expired, staleWrite>>

\* The ORDER_PAID handler.
activateForOrder(c) ==
    /\ c \in announced
    /\ announced' = announced \ {c}
    /\ IF card[c].status = "PENDING"
       THEN /\ card' = [card EXCEPT ![c].status = "ACTIVE"]
            /\ job' = Outdate(c)
       ELSE UNCHANGED <<card, job>>
    /\ UNCHANGED <<ledger, purchase, order, credits, pc, expired, staleWrite>>

-----------------------------------------------------------------------------
(* Spending: createOrder with a gift card code *)

CheckoutBegin(h, c, total) ==
    /\ pc[h] = "idle"
    /\ Goto(h, "redeeming", [NoCardCall EXCEPT !.card = c, !.seen = card[c], !.total = total])
    /\ UNCHANGED <<cardVars, order, credits, announced, expired, staleWrite>>

\* findSpendable, and redeem's own check on the snapshot.
Spendable(h) ==
    /\ job[h].seen.status = "ACTIVE"
    /\ job[h].seen.balance > 0
    /\ job[h].card \notin expired

\* The order, the redemption and their ledger row.
Redeem(h, o) ==
    LET c     == job[h].card
        taken == Min({job[h].seen.balance, job[h].total})
        left  == job[h].seen.balance - taken
    IN
    /\ order[o] = NoOrder
    /\ card'   = [card EXCEPT ![c].balance = left,
                              ![c].status = IF left = 0 THEN "REDEEMED" ELSE "ACTIVE"]
    /\ ledger' = [ledger EXCEPT ![c] = @ - taken]
    /\ order'  = [order EXCEPT ![o] = [status |-> "PENDING_PAYMENT", card |-> c, total |-> job[h].total,
                                       giftCardAmount |-> taken, charged |-> 0]]
    /\ CommitOf(h, c)
    /\ UNCHANGED <<purchase, credits, announced, expired, staleWrite>>

\* (Mutant: createOrder no longer runs SERIALIZABLE.)
CheckoutCommitAnyway(h, o) ==
    /\ pc[h] = "redeeming"
    /\ Spendable(h)
    /\ Redeem(h, o)

\* A card written since the snapshot refuses the update.
CheckoutCommit(h, o) ==
    /\ pc[h] = "redeeming"
    /\ Spendable(h) /\ ~job[h].stale
    /\ Redeem(h, o)

CheckoutRefused(h) ==
    /\ pc[h] = "redeeming"
    /\ ~Spendable(h) \/ job[h].stale
    /\ Goto(h, "idle", NoCardCall)
    /\ UNCHANGED <<cardVars, order, credits, announced, expired, staleWrite>>

\* The gateway is asked for the order's total, and confirms (Payments).
Pay(o) ==
    /\ order[o].status = "PENDING_PAYMENT"
    /\ order' = [order EXCEPT ![o].status = "PAID", ![o].charged = order[o].total]
    /\ UNCHANGED <<cardVars, credits, announced, handlers, expired, staleWrite>>

-----------------------------------------------------------------------------
(* cancelOrder and restoreGiftCard *)

CancelBegin(h, o) ==
    /\ pc[h] = "idle"
    /\ order[o].status \in {"PENDING_PAYMENT", "PAID"}
    /\ Goto(h, "restocking", [NoCardCall EXCEPT !.order = o])
    /\ UNCHANGED <<cardVars, order, credits, announced, expired, staleWrite>>

\* (Mutant: the order's stock is not put back before its card is credited.)
RestockNothing(h) ==
    /\ pc[h] = "restocking"
    /\ Goto(h, "counting", job[h])
    /\ UNCHANGED <<cardVars, order, credits, announced, expired, staleWrite>>

\* The inventory rows a cancellation has written stay locked until it commits:
\* another one of the same order waits here.
Restock(h) ==
    /\ pc[h] = "restocking"
    /\ \A v \in Handler \ {h} :
          job[v].order = job[h].order => pc[v] \notin {"counting", "reading", "crediting", "cancelling"}
    /\ Goto(h, "counting", job[h])
    /\ UNCHANGED <<cardVars, order, credits, announced, expired, staleWrite>>

CountCredits(h) ==
    /\ pc[h] = "counting"
    /\ Goto(h, IF credits[job[h].order] > 0 THEN "cancelling" ELSE "reading", job[h])
    /\ UNCHANGED <<cardVars, order, credits, announced, expired, staleWrite>>

ReadCard(h) ==
    LET c == order[job[h].order].card IN
    /\ pc[h] = "reading"
    /\ Goto(h, "crediting", [job[h] EXCEPT !.card = c, !.seen = card[c], !.stale = FALSE])
    /\ UNCHANGED <<cardVars, order, credits, announced, expired, staleWrite>>

Exists(o) == order[o].status # "DELETED"

\* (Mutant: the credit is not written to the ledger.)
CreditUnrecorded(h) ==
    LET c == job[h].card
        o == job[h].order
    IN
    /\ pc[h] = "crediting"
    /\ Exists(o)
    /\ card' = [card EXCEPT
           ![c].balance = job[h].seen.balance + order[o].giftCardAmount,
           ![c].status = IF job[h].seen.status = "REDEEMED" THEN "ACTIVE" ELSE job[h].seen.status]
    /\ credits' = [credits EXCEPT ![o] = @ + 1]
    /\ order' = [order EXCEPT ![o].status = "CANCELLED"]
    /\ staleWrite' = (staleWrite \/ job[h].stale)
    /\ CommitOf(h, c)
    /\ UNCHANGED <<ledger, purchase, announced, expired>>

\* The credit, its ledger row and the order's status commit together.
Credit(h) ==
    LET c == job[h].card
        o == job[h].order
    IN
    /\ pc[h] = "crediting"
    /\ Exists(o)
    /\ card' = [card EXCEPT
           ![c].balance = job[h].seen.balance + order[o].giftCardAmount,
           ![c].status = IF job[h].seen.status = "REDEEMED" THEN "ACTIVE" ELSE job[h].seen.status]
    /\ ledger' = [ledger EXCEPT ![c] = @ + order[o].giftCardAmount]
    /\ credits' = [credits EXCEPT ![o] = @ + 1]
    /\ order' = [order EXCEPT ![o].status = "CANCELLED"]
    /\ staleWrite' = (staleWrite \/ job[h].stale)
    /\ CommitOf(h, c)
    /\ UNCHANGED <<purchase, announced, expired>>

\* Credited already: only the status is written.
CancelAgain(h) ==
    /\ pc[h] = "cancelling"
    /\ Exists(job[h].order)
    /\ order' = [order EXCEPT ![job[h].order].status = "CANCELLED"]
    /\ Goto(h, "idle", NoCardCall)
    /\ UNCHANGED <<cardVars, credits, announced, expired, staleWrite>>

\* POST /admin/orders/:id/delete: what the card paid stays spent.
DeleteOrder(o) ==
    /\ order[o].status \in {"PENDING_PAYMENT", "PAID", "CANCELLED"}
    /\ order' = [order EXCEPT ![o].status = "DELETED"]
    /\ UNCHANGED <<cardVars, credits, announced, handlers, expired, staleWrite>>

-----------------------------------------------------------------------------
(* POST /admin/gift-cards/:id/cancel *)

WriteOffRead(h, c) ==
    /\ pc[h] = "idle"
    /\ card[c] # NoCard
    /\ Goto(h, "writing_off", [NoCardCall EXCEPT !.card = c, !.seen = card[c]])
    /\ UNCHANGED <<cardVars, order, credits, announced, expired, staleWrite>>

\* The ledger row is for the balance read before the transaction.
WriteOff(h) ==
    LET c == job[h].card IN
    /\ pc[h] = "writing_off"
    /\ card'   = [card EXCEPT ![c].status = "CANCELLED", ![c].balance = 0]
    /\ ledger' = [ledger EXCEPT ![c] = @ - Max({0, job[h].seen.balance})]
    /\ staleWrite' = (staleWrite \/ job[h].stale)
    /\ CommitOf(h, c)
    /\ UNCHANGED <<purchase, order, credits, announced, expired>>

-----------------------------------------------------------------------------
(* Time and failure *)

Expire(c) ==
    /\ card[c] # NoCard /\ c \notin expired
    /\ expired' = expired \cup {c}
    /\ UNCHANGED <<cardVars, order, credits, announced, handlers, staleWrite>>

\* A statement fails, the order is gone, the connection is lost: rolled back.
RolledBack(h) ==
    /\ pc[h] # "idle"
    /\ Goto(h, "idle", NoCardCall)
    /\ UNCHANGED <<cardVars, order, credits, announced, expired, staleWrite>>

\* The process stops: the events it had emitted are lost with it.
ProcessStops ==
    /\ pc' = [h \in Handler |-> "idle"]
    /\ job' = [h \in Handler |-> NoCardCall]
    /\ announced' = {}
    /\ UNCHANGED <<cardVars, order, credits, expired, staleWrite>>

-----------------------------------------------------------------------------
(* The specification *)

GiftCardsInit ==
    /\ card = [c \in Card |-> NoCard]
    /\ ledger = [c \in Card |-> 0]
    /\ purchase = [c \in Card |-> "none"]
    /\ order = [o \in Order |-> NoOrder]
    /\ credits = [o \in Order |-> 0]
    /\ announced = {}
    /\ pc = [h \in Handler |-> "idle"]
    /\ job = [h \in Handler |-> NoCardCall]
    /\ expired = {}
    /\ staleWrite = FALSE

CardCallStep(h) ==
    \/ \E c \in Card, total \in Totals : CheckoutBegin(h, c, total)
    \/ \E o \in Order : CheckoutCommit(h, o)
    \/ CheckoutRefused(h)
    \/ \E o \in Order : CancelBegin(h, o)
    \/ Restock(h)
    \/ CountCredits(h)
    \/ ReadCard(h)
    \/ Credit(h)
    \/ CancelAgain(h)
    \/ \E c \in Card : WriteOffRead(h, c)
    \/ WriteOff(h)
    \/ RolledBack(h)

GiftCardsNext ==
    \/ \E h \in Handler : CardCallStep(h)
    \/ \E c \in Card, value \in Values : issueGiftCard(c, value) \/ purchaseGiftCard(c, value)
    \/ \E c \in Card : PurchasePaid(c) \/ PurchaseCancelled(c) \/ activateForOrder(c) \/ Expire(c)
    \/ \E o \in Order : Pay(o) \/ DeleteOrder(o)
    \/ ProcessStops

GiftCardsSpec == GiftCardsInit /\ [][GiftCardsNext]_giftCardsVars

-----------------------------------------------------------------------------
(* Properties *)

\* Every variable has its type, and a handler knows what its step needs.
DatabaseTypeOK ==
    /\ card \in [Card -> CardRow \cup {NoCard}]
    /\ ledger \in [Card -> Int]
    /\ purchase \in [Card -> {"none", "PENDING_PAYMENT", "PAID", "CANCELLED"}]
    /\ order \in [Order -> Placed \cup {NoOrder}]
    /\ credits \in [Order -> Nat]
    /\ expired \subseteq Card
    /\ staleWrite \in BOOLEAN

ProcessTypeOK ==
    /\ announced \subseteq Card
    /\ pc \in [Handler -> {"idle", "redeeming", "restocking", "counting", "reading",
                           "crediting", "cancelling", "writing_off"}]
    /\ job \in [Handler -> CardCall]

HandlersKnow ==
    \A h \in Handler :
        /\ pc[h] = "redeeming" => job[h].card \in Card /\ job[h].total \in Totals
        /\ pc[h] \in {"restocking", "counting", "reading", "crediting", "cancelling"} =>
              job[h].order \in Order /\ order[job[h].order] # NoOrder
        /\ pc[h] \in {"crediting", "writing_off"} => job[h].card \in Card /\ job[h].seen # NoCard
        /\ pc[h] = "crediting" => job[h].card = order[job[h].order].card

GiftCardsTypeOK == DatabaseTypeOK /\ ProcessTypeOK /\ HandlersKnow

\* "The ledger under it still has to add up": a card's ledger rows sum to its
\* balance, short of a write made from a stale read.
LedgerAddsUp == ~staleWrite => \A c \in Card : ledger[c] = card[c].balance

\* What order o holds of its card: nothing once it was given back.
Spent(o) == IF order[o].status = "CANCELLED" \/ credits[o] > 0 THEN 0 ELSE order[o].giftCardAmount

\* Nobody spends the same rupee twice, and none is lost: what is left on a card
\* that is not written off and what its orders hold of it is its value, however
\* many checkouts try at once, short of a write made from a stale read.
MoneyIsConserved ==
    ~staleWrite => \A c \in Card :
        card[c].status # "CANCELLED" =>
            card[c].value = card[c].balance
                            + SumFunctionOnSet([o \in Order |-> Spent(o)], {o \in Order : order[o].card = c})

\* "A cancel that is retried must not pay the card twice", not even two of them
\* at once: no order has two credits.
CreditedOnce == \A o \in Order : credits[o] <= 1

\* A handler credits only the card its order was paid with, and the ledger of
\* every card sums to its balance, short of a write made from a stale read.
LedgerStands == GiftCardsTypeOK /\ LedgerAddsUp

=============================================================================
