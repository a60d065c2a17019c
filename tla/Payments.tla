------------------------------ MODULE Payments ------------------------------
(***************************************************************************)
(* How the money for an order is learnt of: the gateway's webhooks with    *)
(* their idempotency gate and replay, the browser callback, the operator's *)
(* reconciliation, and staff marking an order paid or cancelling it, all   *)
(* running beside one another (modules/payments, modules/webhooks).        *)
(*                                                                         *)
(* A handler is a sequence of awaits: what it read may be stale when it    *)
(* writes.  The write statements of one transaction touch no row a later   *)
(* statement of it reads, and lock payment before order in every handler,  *)
(* so the transaction is one step at its commit.  Every handler runs in    *)
(* one process, which may stop at any moment.                              *)
(*                                                                         *)
(* Amounts are left out: an order's total never changes, so an event for   *)
(* one of its provider orders carries that amount.  An authorisation the   *)
(* gateway releases after some days is not modelled.                       *)
(***************************************************************************)
EXTENDS Integers, FiniteSets, OrderStatus, Processes

CONSTANTS
    Order,        \* the orders, each with its payment row
    Attempt,      \* the provider orders the gateway can open
    Charge,       \* the payments a customer can make at the gateway
    OrderOf,      \* [Attempt -> Order]
    AttemptOf,    \* [Charge -> Attempt]
    Key,          \* idempotency keys
    KeyOf,        \* [Event -> Key]: the eventId normalizeWebhook gives an event
    Types,        \* the event types the webhook is registered for
    Moves,        \* the statuses staff move an order to, CANCELLED aside
    Worker,       \* handler calls in flight at once
    MaxMishaps    \* bound on process stops and database errors

Event == [charge : Charge, type : Types]

ASSUME PaymentsAssumption ==
    /\ OrderOf \in [Attempt -> Order]
    /\ AttemptOf \in [Charge -> Attempt]
    /\ Types \subseteq {"authorized", "captured", "failed"}
    /\ KeyOf \in [Event -> Key]
    /\ Moves \subseteq Status \ {"CANCELLED"}
    /\ MaxMishaps \in Nat
    /\ None \notin Order \cup Attempt \cup Key \cup Event \cup Status

VARIABLES
    \* The database.
    order,        \* [Order -> Status]
    payment,      \* [Order -> PaymentStatus]: status of the newest payment row
    ref,          \* [Order -> Attempt or None]: its providerOrderId
    stored,       \* [Key -> Event or None]: the webhook_events row with that key
    outcome,      \* [Key -> WebhookStatus]: its status
    \* The gateway.
    charge,       \* [Charge -> "none", "authorized", "captured" or "failed"]
    \* History and bounds.
    announced,    \* [Order -> Nat]: ORDER_PAID events emitted
    byHand,       \* the orders staff have marked paid
    mishaps       \* process stops and database errors so far

vars == <<order, payment, ref, stored, outcome, charge, pc, job,
          announced, byHand, mishaps>>

dbVars      == <<order, payment, ref, stored, outcome>>
historyVars == <<announced, byHand, mishaps>>

-----------------------------------------------------------------------------
(* Rows, events and handler calls *)

PaymentStatus == {"CREATED", "CAPTURED", "FAILED"}
WebhookStatus == {"RECEIVED", "PROCESSED", "FAILED", "SKIPPED"}

Pc == {"idle", "starting", "matching", "confirming", "paying", "failing",
       "announcing", "finishing", "asking", "advancing", "cancelling"}

\* A field a handler does not use is None.
Job == [order   : Order \cup {None},
        attempt : Attempt \cup {None},
        key     : Key \cup {None},     \* the webhook row it will finish
        retry   : BOOLEAN,             \* whether an operator asked for it
        status  : Status \cup {None},  \* the order status it read or will write
        verdict : WebhookStatus]       \* what it will finish the row with

NoJob == [order |-> None, attempt |-> None, key |-> None, retry |-> FALSE,
          status |-> None, verdict |-> "RECEIVED"]

ChargesOf(o) == {ch \in Charge : OrderOf[AttemptOf[ch]] = o}

\* What the gateway has to report: every status a charge has reached.
Occurred ==
    {e \in Event :
        \/ e.type = charge[e.charge]
        \/ e.type = "authorized" /\ charge[e.charge] = "captured"}

\* A webhook handler still has its row to finish; the others are done.
Conclude(w, verdict) ==
    IF job[w].key # None
    THEN Goto(w, "finishing", [job[w] EXCEPT !.verdict = verdict])
    ELSE Goto(w, "idle", NoJob)

-----------------------------------------------------------------------------
(* The gateway *)

\* A charge can be made once /payments/create has answered with its provider
\* order; the gateway takes an order's money once.
Authorize(ch) ==
    LET a == AttemptOf[ch] IN
    /\ charge[ch] = "none"
    /\ ref[OrderOf[a]] # None
    /\ a = ref[OrderOf[a]] \/ \E d \in Charge : AttemptOf[d] = a /\ charge[d] # "none"
    /\ \A d \in Charge : AttemptOf[d] = a => charge[d] \in {"none", "failed"}
    /\ charge' = [charge EXCEPT ![ch] = "authorized"]
    /\ UNCHANGED <<dbVars, pc, job, historyVars>>

Capture(ch) ==
    /\ charge[ch] = "authorized"
    /\ charge' = [charge EXCEPT ![ch] = "captured"]
    /\ UNCHANGED <<dbVars, pc, job, historyVars>>

Decline(ch) ==
    /\ charge[ch] = "none"
    /\ AttemptOf[ch] = ref[OrderOf[AttemptOf[ch]]]
    /\ charge' = [charge EXCEPT ![ch] = "failed"]
    /\ UNCHANGED <<dbVars, pc, job, historyVars>>

-----------------------------------------------------------------------------
(* POST /payments/create *)

StartRead(w, o) ==
    /\ pc[w] = "idle"
    /\ order[o] = "PENDING_PAYMENT"
    /\ Goto(w, "starting", [NoJob EXCEPT !.order = o])
    /\ UNCHANGED <<dbVars, charge, historyVars>>

\* The new provider order replaces the one before it on the payment row.
StartWrite(w, a) ==
    /\ pc[w] = "starting"
    /\ OrderOf[a] = job[w].order
    /\ a # ref[OrderOf[a]]
    /\ \A ch \in Charge : AttemptOf[ch] = a => charge[ch] = "none"
    /\ ref' = [ref EXCEPT ![OrderOf[a]] = a]
    /\ Goto(w, "idle", NoJob)
    /\ UNCHANGED <<order, payment, stored, outcome, charge, historyVars>>

-----------------------------------------------------------------------------
(* POST /payments/verify: the browser's callback *)

\* The gateway signs a payment that is authorised; that it is captured is for
\* the webhook to say.
VerifySigned(w, ch) ==
    /\ pc[w] = "idle"
    /\ charge[ch] \in {"authorized", "captured"}
    /\ Goto(w, "confirming", [NoJob EXCEPT !.order = OrderOf[AttemptOf[ch]],
                                           !.attempt = AttemptOf[ch]])
    /\ UNCHANGED <<dbVars, charge, historyVars>>

VerifyUnsigned(w, o) ==
    /\ pc[w] = "idle"
    /\ Goto(w, "failing", [NoJob EXCEPT !.order = o])
    /\ UNCHANGED <<dbVars, charge, historyVars>>

-----------------------------------------------------------------------------
(* POST /webhooks/razorpay, processPaymentEvent and its replay *)

\* (Mutant: the handler looks for the row but does not stop when it is there.)
DeliverUngated(w, e) ==
    /\ pc[w] = "idle"
    /\ e \in Occurred
    /\ stored' = [stored EXCEPT ![KeyOf[e]] = e]
    /\ outcome' = [outcome EXCEPT ![KeyOf[e]] = "RECEIVED"]
    /\ Goto(w, "matching", [NoJob EXCEPT !.key = KeyOf[e]])
    /\ UNCHANGED <<order, payment, ref, charge, historyVars>>

\* A key that is already there is acknowledged and dropped, so a redelivery
\* changes nothing.
Deliver(w, e) ==
    /\ pc[w] = "idle"
    /\ e \in Occurred
    /\ stored[KeyOf[e]] = None
    /\ stored' = [stored EXCEPT ![KeyOf[e]] = e]
    /\ outcome' = [outcome EXCEPT ![KeyOf[e]] = "RECEIVED"]
    /\ Goto(w, "matching", [NoJob EXCEPT !.key = KeyOf[e]])
    /\ UNCHANGED <<order, payment, ref, charge, historyVars>>

Replay(w, k) ==
    /\ pc[w] = "idle"
    /\ stored[k] # None
    /\ outcome[k] # "PROCESSED"
    /\ Goto(w, "matching", [NoJob EXCEPT !.key = k, !.retry = TRUE])
    /\ UNCHANGED <<dbVars, charge, historyVars>>

\* (Mutant: a failure is handled like a capture.)
MatchIgnoresOutcome(w) ==
    LET e == stored[job[w].key]
        a == AttemptOf[e.charge]
        o == OrderOf[a]
        found == [job[w] EXCEPT !.order = o, !.attempt = a]
    IN
    /\ pc[w] = "matching"
    /\ \/ e.type = "authorized" /\ Conclude(w, "SKIPPED")
       \/ e.type # "authorized" /\ ref[o] # a /\ Conclude(w, "FAILED")
       \/ e.type # "authorized" /\ ref[o] = a /\ Goto(w, "confirming", found)
    /\ UNCHANGED <<dbVars, charge, historyVars>>

\* The event finds its order through the payment row's providerOrderId.
Match(w) ==
    LET e == stored[job[w].key]
        a == AttemptOf[e.charge]
        o == OrderOf[a]
        found == [job[w] EXCEPT !.order = o, !.attempt = a]
    IN
    /\ pc[w] = "matching"
    /\ \/ e.type = "authorized" /\ Conclude(w, "SKIPPED")
       \/ e.type # "authorized" /\ ref[o] # a /\ Conclude(w, "FAILED")
       \/ e.type = "failed"     /\ ref[o] = a /\ Goto(w, "failing", found)
       \/ e.type = "captured"   /\ ref[o] = a /\ Goto(w, "confirming", found)
    /\ UNCHANGED <<dbVars, charge, historyVars>>

\* finish.
Finish(w) ==
    /\ pc[w] = "finishing"
    /\ outcome' = [outcome EXCEPT ![job[w].key] = job[w].verdict]
    /\ Goto(w, "idle", NoJob)
    /\ UNCHANGED <<order, payment, ref, stored, charge, historyVars>>

-----------------------------------------------------------------------------
(* markOrderPaid, markPaymentFailed, announcePaid *)

MarkPaidRead(w) ==
    /\ pc[w] = "confirming"
    /\ Goto(w, "paying", [job[w] EXCEPT !.status = order[job[w].order]])
    /\ UNCHANGED <<dbVars, charge, historyVars>>

\* (Mutant: a payment row that has failed once is never captured.)
MarkPaidCommitOncePerPayment(w) ==
    LET o == job[w].order IN
    /\ pc[w] = "paying"
    /\ ref' = [ref EXCEPT ![o] = job[w].attempt]
    /\ \/ /\ job[w].status = "PENDING_PAYMENT"
          /\ payment[o] = "CREATED"
          /\ payment' = [payment EXCEPT ![o] = "CAPTURED"]
          /\ order' = [order EXCEPT ![o] = "PAID"]
          /\ Goto(w, "announcing", job[w])
       \/ /\ job[w].status # "PENDING_PAYMENT" \/ payment[o] # "CREATED"
          /\ UNCHANGED <<payment, order>>
          /\ Conclude(w, "PROCESSED")
    /\ UNCHANGED <<stored, outcome, charge, historyVars>>

\* The payment row is captured whatever the order's status; the order is
\* written from the status read, not from the one it has now.
MarkPaidCommit(w) ==
    LET o == job[w].order IN
    /\ pc[w] = "paying"
    /\ payment' = [payment EXCEPT ![o] = "CAPTURED"]
    /\ ref' = [ref EXCEPT ![o] = job[w].attempt]
    /\ \/ /\ job[w].status = "PENDING_PAYMENT"
          /\ order' = [order EXCEPT ![o] = "PAID"]
          /\ Goto(w, "announcing", job[w])
       \/ /\ job[w].status # "PENDING_PAYMENT"
          /\ UNCHANGED order
          /\ Conclude(w, "PROCESSED")
    /\ UNCHANGED <<stored, outcome, charge, historyVars>>

Announce(w) ==
    /\ pc[w] = "announcing"
    /\ announced' = [announced EXCEPT ![job[w].order] = @ + 1]
    /\ Conclude(w, "PROCESSED")
    /\ UNCHANGED <<dbVars, charge, byHand, mishaps>>

MarkFailed(w) ==
    /\ pc[w] = "failing"
    /\ payment' = [payment EXCEPT ![job[w].order] = "FAILED"]
    /\ Conclude(w, "PROCESSED")
    /\ UNCHANGED <<order, ref, stored, outcome, charge, historyVars>>

-----------------------------------------------------------------------------
(* POST /admin/orders/:id/reconcile-payment *)

\* The order is read before the gateway is asked; one that is not awaiting
\* payment, or never reached the payment window, is only reported on.
ReconcileRead(w, o) ==
    /\ pc[w] = "idle"
    /\ ref[o] # None
    /\ order[o] = "PENDING_PAYMENT"
    /\ Goto(w, "asking", [NoJob EXCEPT !.order = o, !.attempt = ref[o]])
    /\ UNCHANGED <<dbVars, charge, historyVars>>

ReconcileAnswer(w) ==
    /\ pc[w] = "asking"
    /\ IF \E ch \in Charge : AttemptOf[ch] = job[w].attempt /\ charge[ch] = "captured"
       THEN Goto(w, "confirming", job[w])
       ELSE Goto(w, "idle", NoJob)
    /\ UNCHANGED <<dbVars, charge, historyVars>>

-----------------------------------------------------------------------------
(* updateOrderStatus and cancelOrder *)

StatusRead(w, o, next) ==
    /\ pc[w] = "idle"
    /\ next \in AllowedTransitions(order[o]) \cap Moves
    /\ Goto(w, "advancing", [NoJob EXCEPT !.order = o, !.status = next])
    /\ UNCHANGED <<dbVars, charge, historyVars>>

\* Marking an order paid by hand announces it like the gateway's routes do.
StatusWrite(w) ==
    LET o == job[w].order IN
    /\ pc[w] = "advancing"
    /\ order' = [order EXCEPT ![o] = job[w].status]
    /\ \/ /\ job[w].status = "PAID"
          /\ byHand' = byHand \cup {o}
          /\ Goto(w, "announcing", job[w])
       \/ /\ job[w].status # "PAID"
          /\ UNCHANGED byHand
          /\ Goto(w, "idle", NoJob)
    /\ UNCHANGED <<payment, ref, stored, outcome, charge, announced, mishaps>>

CancelRead(w, o) ==
    /\ pc[w] = "idle"
    /\ order[o] \notin {"CANCELLED", "DELIVERED"}
    /\ Goto(w, "cancelling", [NoJob EXCEPT !.order = o])
    /\ UNCHANGED <<dbVars, charge, historyVars>>

CancelCommit(w) ==
    /\ pc[w] = "cancelling"
    /\ order' = [order EXCEPT ![job[w].order] = "CANCELLED"]
    /\ Goto(w, "idle", NoJob)
    /\ UNCHANGED <<payment, ref, stored, outcome, charge, historyVars>>

-----------------------------------------------------------------------------
(* Failure *)

Mishap == mishaps < MaxMishaps /\ mishaps' = mishaps + 1

\* A statement fails and its transaction is rolled back: a webhook handler
\* records FAILED, any other answers with an error.
DatabaseError(w) ==
    /\ pc[w] \in {"starting", "matching", "confirming", "paying", "failing",
                  "advancing", "cancelling"}
    /\ Mishap
    /\ Conclude(w, "FAILED")
    /\ UNCHANGED <<dbVars, charge, announced, byHand>>

\* The process stops: every handler in flight is gone, the database is not.
Crash ==
    /\ \E w \in Worker : pc[w] # "idle"
    /\ Mishap
    /\ pc'  = [w \in Worker |-> "idle"]
    /\ job' = [w \in Worker |-> NoJob]
    /\ UNCHANGED <<dbVars, charge, announced, byHand>>

-----------------------------------------------------------------------------
(* The specification *)

Init ==
    /\ order = [o \in Order |-> "PENDING_PAYMENT"]
    /\ payment = [o \in Order |-> "CREATED"]
    /\ ref = [o \in Order |-> None]
    /\ stored = [k \in Key |-> None]
    /\ outcome = [k \in Key |-> "RECEIVED"]
    /\ charge = [ch \in Charge |-> "none"]
    /\ pc = [w \in Worker |-> "idle"]
    /\ job = [w \in Worker |-> NoJob]
    /\ announced = [o \in Order |-> 0]
    /\ byHand = {}
    /\ mishaps = 0

Begin(w) ==
    \/ \E o \in Order : StartRead(w, o)
    \/ \E ch \in Charge : VerifySigned(w, ch)
    \/ \E o \in Order : VerifyUnsigned(w, o)
    \/ \E e \in Event : Deliver(w, e)
    \/ \E k \in Key : Replay(w, k)
    \/ \E o \in Order : ReconcileRead(w, o)
    \/ \E o \in Order, next \in Moves : StatusRead(w, o, next)
    \/ \E o \in Order : CancelRead(w, o)

Step(w) ==
    \/ \E a \in Attempt : StartWrite(w, a)
    \/ Match(w)
    \/ Finish(w)
    \/ MarkPaidRead(w)
    \/ MarkPaidCommit(w)
    \/ Announce(w)
    \/ MarkFailed(w)
    \/ ReconcileAnswer(w)
    \/ StatusWrite(w)
    \/ CancelCommit(w)

Next ==
    \/ \E ch \in Charge : Authorize(ch) \/ Capture(ch) \/ Decline(ch)
    \/ \E w \in Worker : Begin(w) \/ Step(w) \/ DatabaseError(w)
    \/ Crash

Spec == Init /\ [][Next]_vars

\* A handler that has begun goes on, and the gateway delivers an event again
\* and again until it is acknowledged.
Fairness ==
    /\ \A w \in Worker : WF_vars(Step(w))
    /\ \A e \in Event : SF_vars(\E w \in Worker : Deliver(w, e))

FairSpec == Spec /\ Fairness

-----------------------------------------------------------------------------
(* Properties *)

\* Every variable has its type, and a handler knows what its step needs.
TypeOK ==
    /\ order \in [Order -> Status]
    /\ payment \in [Order -> PaymentStatus]
    /\ ref \in [Order -> Attempt \cup {None}]
    /\ stored \in [Key -> Event \cup {None}]
    /\ outcome \in [Key -> WebhookStatus]
    /\ charge \in [Charge -> {"none", "authorized", "captured", "failed"}]
    /\ pc \in [Worker -> Pc]
    /\ job \in [Worker -> Job]
    /\ announced \in [Order -> Nat]
    /\ byHand \subseteq Order
    /\ mishaps \in 0 .. MaxMishaps
    /\ \A w \in Worker :
          /\ pc[w] \in {"starting", "confirming", "paying", "failing", "announcing",
                        "asking", "advancing", "cancelling"} => job[w].order \in Order
          /\ pc[w] \in {"confirming", "paying", "asking"} => job[w].attempt \in Attempt
          /\ pc[w] \in {"paying", "advancing"} => job[w].status \in Status
          /\ pc[w] \in {"matching", "finishing"} =>
                job[w].key \in Key /\ stored[job[w].key] # None

\* "The order is only PAID once one of them reaches CAPTURED via verified
\* signature or webhook" (schema.prisma), or once staff say so: an order gets
\* past PENDING_PAYMENT, and its payment row CAPTURED, only with money held or
\* taken for it at the gateway, whichever of the routes it came by and however
\* they overlap.
Backed(o) == \E ch \in ChargesOf(o) : charge[ch] \in {"authorized", "captured"}

PaidIsBacked ==
    \A o \in Order :
        /\ order[o] \notin {"PENDING_PAYMENT", "CANCELLED"} => o \in byHand \/ Backed(o)
        /\ payment[o] = "CAPTURED" => Backed(o)

\* "The unique constraint on (provider, eventId) makes redelivery a no-op"
\* (webhook.routes.ts): once its row is there, an event is worked on again
\* only because an operator asked, in whatever state the first handler left it.
RedeliveryIsNoOp ==
    [][\A k \in Key, w \in Worker :
          stored[k] # None /\ job[w].key = None /\ job'[w].key = k => job'[w].retry]_vars

\* A capture whose webhook is recorded PROCESSED has reached its order: what
\* the failure queue does not show needs no looking at.
ProcessedIsApplied ==
    \A k \in Key :
        stored[k] # None /\ outcome[k] = "PROCESSED" /\ stored[k].type = "captured" =>
            order[OrderOf[AttemptOf[stored[k].charge]]] # "PENDING_PAYMENT"

\* Short of a mishap, money captured on the provider order the payment row
\* names makes the order PAID, from the webhook alone.
CapturedIsPaid ==
    \A ch \in Charge :
        LET a == AttemptOf[ch]
            o == OrderOf[a]
        IN  mishaps = 0 /\ charge[ch] = "captured" /\ ref[o] = a
                ~> mishaps > 0 \/ order[o] # "PENDING_PAYMENT" \/ ref[o] # a

\* Short of a mishap, an order that becomes PAID is announced, whoever made it
\* so: the customer hears of it and a gift card bought with it is activated.
PaidIsAnnounced ==
    \A o \in Order :
        order[o] = "PAID" ~> announced[o] > 0 \/ mishaps > 0

\* Short of a mishap, no stored event stays RECEIVED.
EveryEventIsFinished ==
    \A k \in Key :
        stored[k] # None /\ mishaps = 0 ~> outcome[k] # "RECEIVED" \/ mishaps > 0

\* Past every overlap, redelivery and mishap: no handler loses its order or its
\* event, what is PAID is backed by money or by staff, and what is PROCESSED
\* was applied.
PaymentsAreBacked == TypeOK /\ PaidIsBacked /\ ProcessedIsApplied

\* Short of a mishap, captured money gets all the way: its event is worked off,
\* the order it was for is paid, and a paid order is announced.
EventsReachTheOrder == CapturedIsPaid /\ PaidIsAnnounced /\ EveryEventIsFinished

=============================================================================
