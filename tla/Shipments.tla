----------------------------- MODULE Shipments -----------------------------
(***************************************************************************)
(* The parcels of one paid order (modules/shipments, and the carrier half  *)
(* of modules/webhooks): packing them by hand or on payment, booking them  *)
(* with the carrier, and the status updates of staff and of the carrier's  *)
(* callbacks, which come late, twice and out of order.                     *)
(*                                                                         *)
(* Transactions run READ COMMITTED: what one read may be stale when it     *)
(* writes.  A parcel is known to the carrier by the reference booking      *)
(* saved, or by the tracking number typed in.  The carrier reports each    *)
(* status of a parcel in one event, which names it; whether the courier    *)
(* collects cash is settled before the first parcel is packed.  Labels,    *)
(* measurements, the needsReview flag and the e-mails are left out.        *)
(***************************************************************************)
EXTENDS Integers, FiniteSetsExt, OrderStatus, Processes

CONSTANTS
    Parcel,       \* the shipments there can be
    Line,         \* the lines of the order
    Purchased,    \* [Line -> Nat]: how many were bought
    Reports,      \* the statuses the carrier reports
    Manual,       \* the statuses staff set by hand
    Worker,       \* handler calls in flight at once
    MaxCalls,     \* bound on the handler calls there are
    MaxMishaps    \* bound on carrier timeouts, database errors and process stops

ShipmentStatus == {"PENDING", "READY_TO_SHIP", "IN_TRANSIT", "OUT_FOR_DELIVERY",
                   "DELIVERED", "EXCEPTION", "FAILED", "RETURNED_TO_ORIGIN", "CANCELLED"}

ASSUME ShipmentsAssumption ==
    /\ IsFiniteSet(Parcel) /\ IsFiniteSet(Line)
    /\ Purchased \in [Line -> Nat]
    /\ Reports \subseteq ShipmentStatus
    /\ Manual \subseteq ShipmentStatus
    /\ MaxCalls \in Nat /\ MaxMishaps \in Nat
    /\ None \notin Parcel

VARIABLES
    \* The database.
    order,        \* the order's status
    collects,     \* whether the courier is to collect the order's total
    parcel,       \* [Parcel -> shipment row, or NoParcel]
    trail,        \* [Parcel -> set of the carrier's statuses on its trail]
    hook,         \* [Parcel -> [Reports -> the event's webhook row: "none", "open" while
                  \*   it is RECEIVED, FAILED or SKIPPED, or "PROCESSED"]]
    \* The carrier.
    consignments, \* [Parcel -> Nat]: pickups it has on its books
    \* History and bounds.
    raced,        \* whether a commit went under what another handler had read
    revived,      \* whether a cancelled parcel was set moving again
    calls,        \* handler calls so far
    mishaps       \* timeouts, database errors and process stops so far

vars == <<order, collects, parcel, trail, hook, consignments, pc, job, raced, revived, calls,
          mishaps>>

dbVars      == <<order, collects, parcel, trail, hook>>
historyVars == <<raced, revived, calls, mishaps>>

-----------------------------------------------------------------------------
(* Parcels, events and handlers *)

TERMINAL == {"DELIVERED", "RETURNED_TO_ORIGIN", "CANCELLED"}

PROGRESS == [PENDING |-> 0, READY_TO_SHIP |-> 1, IN_TRANSIT |-> 2,
             OUT_FOR_DELIVERY |-> 3, DELIVERED |-> 4, RETURNED_TO_ORIGIN |-> 4]

\* (Mutant: the terminal statuses are taken for side states, off the ladder.)
isBackwardsTerminalOff(current, next) ==
    /\ {current, next} \subseteq DOMAIN PROGRESS \ TERMINAL
    /\ PROGRESS[next] < PROGRESS[current]

\* Side states are off the ladder: never backwards.
isBackwards(current, next) ==
    /\ {current, next} \subseteq DOMAIN PROGRESS
    /\ PROGRESS[next] < PROGRESS[current]

Quantities == [Line -> 0 .. Max({Purchased[l] : l \in Line} \cup {0})]
Nothing    == [l \in Line |-> 0]

NoParcel == [status |-> "NO_PARCEL", quantity |-> Nothing,
             collects |-> FALSE, reference |-> "none"]

Row == [status    : ShipmentStatus,
        quantity  : Quantities,
        collects  : BOOLEAN,                        \* codAmount > 0
        reference : {"none", "tracking", "booked"}]

Parcels == {p \in Parcel : parcel[p] # NoParcel}

\* (Mutant: a delivered parcel releases its claim too.)
LiveUntilDelivered == {p \in Parcels : parcel[p].status \notin {"CANCELLED", "DELIVERED"}}

\* Cancelled shipments release their claim.
Live == {p \in Parcels : parcel[p].status # "CANCELLED"}

alreadyShipped(l) == SumFunctionOnSet([p \in Parcels |-> parcel[p].quantity[l]], Live)

NoJob == [parcel |-> None, quantity |-> Nothing, number |-> 0, order |-> "PAID",
          current |-> "PENDING", fully |-> FALSE, collects |-> FALSE, tracked |-> FALSE, book |-> FALSE,
          status |-> "PENDING", provider |-> FALSE, verdict |-> "open"]

Call == calls < MaxCalls /\ calls' = calls + 1

-----------------------------------------------------------------------------
(* createShipment, by hand and on payment *)

\* The courier collects the order total once, not once per box.
codAmount == collects /\ \A p \in Live : ~parcel[p].collects

\* The transaction's reads and refusals.
PackRead(w, quantity, tracked, book) ==
    /\ order \notin {"CANCELLED", "PENDING_PAYMENT"}
    /\ quantity # Nothing
    /\ \A l \in Line : quantity[l] <= Purchased[l] - alreadyShipped(l)
    /\ Goto(w, "numbering",
            [NoJob EXCEPT
                !.quantity = quantity, !.order = order, !.collects = codAmount,
                !.tracked = tracked, !.book = book,
                !.fully = \A l \in Line : alreadyShipped(l) + quantity[l] >= Purchased[l]])
    /\ UNCHANGED <<dbVars, consignments, raced, revived, mishaps>>

\* POST /admin/shipments/orders/:orderId
StaffPack(w, quantity, tracked, book) ==
    /\ pc[w] = "idle"
    /\ Call
    /\ PackRead(w, quantity, tracked, book)

\* autoBookOnPayment: nothing is packed yet, the whole order goes in one parcel.
AutoBook(w) ==
    /\ pc[w] = "idle"
    /\ Call
    /\ Parcels = {}
    /\ Goto(w, "autobooking", NoJob)
    /\ UNCHANGED <<dbVars, consignments, raced, revived, mishaps>>

\* createShipment reads again; when it refuses the order stays unbooked.
AutoPack(w) ==
    /\ pc[w] = "autobooking"
    /\ \/ /\ PackRead(w, Purchased, FALSE, TRUE)
          /\ UNCHANGED calls
       \/ /\ \/ order \in {"CANCELLED", "PENDING_PAYMENT"}
             \/ \E l \in Line : alreadyShipped(l) > 0
          /\ Goto(w, "idle", NoJob)
          /\ UNCHANGED <<dbVars, consignments, historyVars>>

nextShipmentNumber(w) ==
    /\ pc[w] = "numbering"
    /\ Goto(w, "creating", [job[w] EXCEPT !.number = Cardinality(Parcels) + 1])
    /\ UNCHANGED <<dbVars, consignments, historyVars>>

\* The order's status is decided by the one read at the start.
StatusAfterPacking(j) ==
    CASE j.fully  /\ j.order \notin {"SHIPPED", "DELIVERED"} -> "SHIPPED"
      [] ~j.fully /\ j.order = "PAID"                        -> "PROCESSING"
      [] OTHER                                               -> order

Insert(p, j) ==
    parcel' = [parcel EXCEPT ![p] = [status    |-> IF j.tracked THEN "IN_TRANSIT" ELSE "READY_TO_SHIP",
                                     quantity  |-> j.quantity,
                                     collects  |-> j.collects,
                                     reference |-> IF j.tracked THEN "tracking" ELSE "none"]]

\* Parcels are never deleted, so the numbers in use are 1 .. the parcels there are.
NumberTaken(w) == job[w].number <= Cardinality(Parcels)

\* Insert, order status and commit.  Who has counted the parcels already will
\* be refused; who has not goes on with what it read before.
PackCommit(w, p) ==
    LET j == job[w] IN
    /\ pc[w] = "creating"
    /\ parcel[p] = NoParcel
    /\ ~NumberTaken(w)
    /\ Insert(p, j)
    /\ order' = StatusAfterPacking(j)
    /\ raced' = (raced \/ order # j.order
                 \/ \E v \in Worker \ {w} : pc[v] \in {"numbering", "arrived"})
    /\ IF j.book
       THEN Goto(w, "checking", [NoJob EXCEPT !.parcel = p])
       ELSE Goto(w, "idle", NoJob)
    /\ UNCHANGED <<collects, trail, hook, consignments, revived, calls, mishaps>>

PackRefused(w) ==
    /\ pc[w] = "creating"
    /\ NumberTaken(w)
    /\ Goto(w, "idle", NoJob)
    /\ UNCHANGED <<dbVars, consignments, historyVars>>

-----------------------------------------------------------------------------
(* bookWithProvider *)

\* POST /admin/shipments/:id/book: books a parcel, or tries again.
StaffBook(w, p) ==
    /\ pc[w] = "idle"
    /\ Call
    /\ p \in Parcels
    /\ Goto(w, "checking", [NoJob EXCEPT !.parcel = p])
    /\ UNCHANGED <<dbVars, consignments, raced, revived, mishaps>>

BookRead(w) ==
    /\ pc[w] = "checking"
    /\ IF parcel[job[w].parcel].reference = "booked"
       THEN Goto(w, "idle", NoJob)
       ELSE Goto(w, "booking", job[w])
    /\ UNCHANGED <<dbVars, consignments, historyVars>>

BookedBeside(w) ==
    \E v \in Worker \ {w} : pc[v] \in {"booking", "saving"} /\ job[v].parcel = job[w].parcel

Books(w) == consignments' = [consignments EXCEPT ![job[w].parcel] = @ + 1]

\* The carrier takes the parcel on, and its answer arrives.
BookCall(w) ==
    /\ pc[w] = "booking"
    /\ Books(w)
    /\ raced' = (raced \/ BookedBeside(w))
    /\ Goto(w, "saving", job[w])
    /\ UNCHANGED <<dbVars, revived, calls, mishaps>>

BookSave(w) ==
    /\ pc[w] = "saving"
    /\ parcel' = [parcel EXCEPT ![job[w].parcel].reference = "booked"]
    /\ raced' = (raced \/ BookedBeside(w))
    /\ Goto(w, "idle", NoJob)
    /\ UNCHANGED <<order, collects, trail, hook, consignments, revived, calls, mishaps>>

-----------------------------------------------------------------------------
(* updateShipmentStatus *)

InUpdate(w) == pc[w] \in {"applying", "arriving", "arrived"}

\* A webhook handler has its row to finish; staff who cancelled go on to the
\* carrier.
Done(w, verdict) ==
    CASE job[w].provider ->
            Goto(w, "finishing", [NoJob EXCEPT !.parcel = job[w].parcel, !.status = job[w].status,
                                               !.provider = TRUE, !.verdict = verdict])
      [] ~job[w].provider /\ verdict = "PROCESSED" /\ job[w].status = "CANCELLED" ->
            Goto(w, "callingOff", [NoJob EXCEPT !.parcel = job[w].parcel])
      [] OTHER ->
            Goto(w, "idle", NoJob)

\* A commit is news to whoever has read this parcel, or the siblings of one
\* that arrives.
Overlaps(w) ==
    \E v \in Worker \ {w} :
        InUpdate(v) /\ (job[v].parcel = job[w].parcel \/ pc[v] = "arrived")

\* PATCH /admin/shipments/:id/status
StaffUpdate(w, p, status) ==
    /\ pc[w] = "idle"
    /\ Call
    /\ p \in Parcels
    /\ status \in Manual
    /\ parcel[p].status \notin TERMINAL \ {status}
    /\ Goto(w, "applying", [NoJob EXCEPT !.parcel = p, !.status = status,
                                         !.current = parcel[p].status, !.order = order])
    /\ UNCHANGED <<dbVars, consignments, raced, revived, mishaps>>

\* The trail keeps every event of the carrier.
Trail(w) ==
    trail' = IF job[w].provider
             THEN [trail EXCEPT ![job[w].parcel] = @ \cup {job[w].status}] ELSE trail

Locked(w) ==
    \E v \in Worker \ {w} : pc[v] \in {"arriving", "arrived"} /\ job[v].parcel = job[w].parcel

\* providerEventId is unique: an event already on the trail cannot be written.
OnTrail(w) == job[w].provider /\ job[w].status \in trail[job[w].parcel]

\* A carrier's event that is behind is recorded but not applied;
\* a status repeated is recorded.
Record(w) ==
    LET j == job[w]
        behind == j.provider /\ isBackwards(j.current, j.status)
    IN
    /\ pc[w] = "applying"
    /\ ~Locked(w) /\ ~OnTrail(w)
    /\ behind \/ j.current = j.status
    /\ Trail(w)
    /\ raced' = (raced \/ Overlaps(w))
    /\ Done(w, "PROCESSED")
    /\ UNCHANGED <<order, collects, parcel, hook, consignments, revived, calls, mishaps>>

Applies(w) ==
    /\ pc[w] = "applying"
    /\ ~Locked(w) /\ ~OnTrail(w)
    /\ job[w].current # job[w].status
    /\ job[w].provider => ~isBackwards(job[w].current, job[w].status)

MoveTo(w) ==
    /\ parcel' = [parcel EXCEPT ![job[w].parcel].status = job[w].status]
    /\ Trail(w)
    /\ revived' = (revived \/ job[w].current = "CANCELLED")

\* The update, and the commit of one that is not an arrival.
Apply(w) ==
    /\ Applies(w)
    /\ job[w].status # "DELIVERED"
    /\ MoveTo(w)
    /\ raced' = (raced \/ Overlaps(w))
    /\ Done(w, "PROCESSED")
    /\ UNCHANGED <<order, collects, hook, consignments, calls, mishaps>>

\* An arrival locks its row, reads the siblings, and commits with the order.
Arrive(w) ==
    /\ Applies(w)
    /\ job[w].status = "DELIVERED"
    /\ Goto(w, "arriving", job[w])
    /\ UNCHANGED <<dbVars, consignments, historyVars>>

\* (Mutant: the parcel that arrives is the only one looked at.)
ReadSiblingsNone(w) ==
    /\ pc[w] = "arriving"
    /\ Goto(w, "arrived", [job[w] EXCEPT !.fully = TRUE])
    /\ UNCHANGED <<dbVars, consignments, historyVars>>

ReadSiblings(w) ==
    /\ pc[w] = "arriving"
    /\ Goto(w, "arrived",
            [job[w] EXCEPT !.fully =
                \A p \in Live \ {job[w].parcel} : parcel[p].status = "DELIVERED"])
    /\ UNCHANGED <<dbVars, consignments, historyVars>>

ArriveCommit(w) ==
    /\ pc[w] = "arrived"
    /\ MoveTo(w)
    /\ order' = IF job[w].fully /\ job[w].order # "DELIVERED" THEN "DELIVERED" ELSE order
    /\ raced' = (raced \/ Overlaps(w))
    /\ Done(w, "PROCESSED")
    /\ UNCHANGED <<collects, hook, consignments, calls, mishaps>>

-----------------------------------------------------------------------------
(* cancelWithCarrier *)

\* A parcel that is not booked has nothing to call off; a carrier that does not
\* answer leaves its pickup.
CallOff(w) ==
    LET p == job[w].parcel IN
    /\ pc[w] = "callingOff"
    /\ \/ UNCHANGED consignments
       \/ /\ parcel[p].reference = "booked"
          /\ consignments' = [consignments EXCEPT ![p] = Max({0, @ - 1})]
    /\ Goto(w, "idle", NoJob)
    /\ UNCHANGED <<dbVars, historyVars>>

-----------------------------------------------------------------------------
(* The carrier's callbacks *)

\* The gate: an event whose row is there already is acknowledged and dropped.
Deliver(w, p, status) ==
    /\ pc[w] = "idle"
    /\ Call
    /\ consignments[p] > 0 \/ parcel[p].reference = "tracking"
    /\ hook[p][status] = "none"
    /\ hook' = [hook EXCEPT ![p][status] = "open"]
    /\ Goto(w, "finding", [NoJob EXCEPT !.parcel = p, !.status = status, !.provider = TRUE])
    /\ UNCHANGED <<order, collects, parcel, trail, consignments, raced, revived, mishaps>>

\* An operator retries an event that was not processed.
Replay(w, p, status) ==
    /\ pc[w] = "idle"
    /\ Call
    /\ hook[p][status] = "open"
    /\ Goto(w, "finding", [NoJob EXCEPT !.parcel = p, !.status = status, !.provider = TRUE])
    /\ UNCHANGED <<dbVars, consignments, raced, revived, mishaps>>

\* applyCarrierEvent: the parcel by its reference, then its status and order.
Find(w) ==
    LET p == job[w].parcel IN
    /\ pc[w] = "finding"
    /\ IF parcel[p].reference = "none"
       THEN Done(w, "open")
       ELSE Goto(w, "applying", [job[w] EXCEPT !.current = parcel[p].status, !.order = order])
    /\ UNCHANGED <<dbVars, consignments, historyVars>>

\* The unique providerEventId refuses an event written before.
RecordTwice(w) ==
    /\ pc[w] = "applying"
    /\ ~Locked(w) /\ OnTrail(w)
    /\ Done(w, "open")
    /\ UNCHANGED <<dbVars, consignments, historyVars>>

Finish(w) ==
    /\ pc[w] = "finishing"
    /\ hook' = [hook EXCEPT ![job[w].parcel][job[w].status] = job[w].verdict]
    /\ Goto(w, "idle", NoJob)
    /\ UNCHANGED <<order, collects, parcel, trail, consignments, historyVars>>

-----------------------------------------------------------------------------
(* The order is cancelled meanwhile, and failure *)

\* cancelOrder, in one step (Orders).
OrderCancelled ==
    /\ order \notin {"CANCELLED", "DELIVERED"}
    /\ order' = "CANCELLED"
    /\ UNCHANGED <<collects, parcel, trail, hook, consignments, pc, job, historyVars>>

Mishap == mishaps < MaxMishaps /\ mishaps' = mishaps + 1

\* The booking call throws: the carrier may have taken the parcel all the same.
BookThrows(w) ==
    /\ pc[w] = "booking"
    /\ Mishap
    /\ Books(w) \/ UNCHANGED consignments
    /\ Goto(w, "idle", NoJob)
    /\ UNCHANGED <<dbVars, raced, revived, calls>>

\* A statement fails and its transaction is rolled back.
DatabaseError(w) ==
    /\ pc[w] \in {"numbering", "creating", "saving", "finding", "applying", "arriving", "arrived"}
    /\ Mishap
    /\ Done(w, "open")
    /\ UNCHANGED <<dbVars, consignments, raced, revived, calls>>

Crash ==
    /\ \E w \in Worker : pc[w] # "idle"
    /\ Mishap
    /\ pc'  = [w \in Worker |-> "idle"]
    /\ job' = [w \in Worker |-> NoJob]
    /\ UNCHANGED <<dbVars, consignments, raced, revived, calls>>

-----------------------------------------------------------------------------
(* The specification *)

Init ==
    /\ order = "PAID"
    /\ collects \in BOOLEAN
    /\ parcel = [p \in Parcel |-> NoParcel]
    /\ trail = [p \in Parcel |-> {}]
    /\ hook = [p \in Parcel |-> [status \in Reports |-> "none"]]
    /\ consignments = [p \in Parcel |-> 0]
    /\ pc = [w \in Worker |-> "idle"]
    /\ job = [w \in Worker |-> NoJob]
    /\ raced = FALSE
    /\ revived = FALSE
    /\ calls = 0
    /\ mishaps = 0

Begin(w) ==
    \/ \E quantity \in Quantities, tracked, book \in BOOLEAN : StaffPack(w, quantity, tracked, book)
    \/ AutoBook(w)
    \/ \E p \in Parcel : StaffBook(w, p)
    \/ \E p \in Parcel, status \in Manual : StaffUpdate(w, p, status)
    \/ \E p \in Parcel, status \in Reports : Deliver(w, p, status) \/ Replay(w, p, status)

Step(w) ==
    \/ AutoPack(w)
    \/ nextShipmentNumber(w)
    \/ \E p \in Parcel : PackCommit(w, p)
    \/ PackRefused(w)
    \/ BookRead(w)
    \/ BookCall(w)
    \/ BookSave(w)
    \/ Find(w)
    \/ Record(w)
    \/ RecordTwice(w)
    \/ Apply(w)
    \/ Arrive(w)
    \/ ReadSiblings(w)
    \/ ArriveCommit(w)
    \/ CallOff(w)
    \/ Finish(w)

Next ==
    \/ \E w \in Worker : Begin(w) \/ Step(w) \/ BookThrows(w) \/ DatabaseError(w)
    \/ OrderCancelled
    \/ Crash

Spec == Init /\ [][Next]_vars

-----------------------------------------------------------------------------
(* Properties *)

\* Every variable has its type, and a handler knows what its step needs.
TypeOK ==
    /\ order \in Status
    /\ collects \in BOOLEAN
    /\ parcel \in [Parcel -> Row \cup {NoParcel}]
    /\ trail \in [Parcel -> SUBSET Reports]
    /\ hook \in [Parcel -> [Reports -> {"none", "open", "PROCESSED"}]]
    /\ consignments \in [Parcel -> Nat]
    /\ pc \in [Worker -> {"idle", "autobooking", "numbering", "creating", "checking", "booking",
                          "saving", "finding", "applying", "arriving", "arrived",
                          "callingOff", "finishing"}]
    /\ job \in [Worker -> [parcel   : Parcel \cup {None},
                           quantity : Quantities,
                           number   : Nat,
                           order    : Status,
                           current  : ShipmentStatus,
                           fully    : BOOLEAN,
                           collects : BOOLEAN,
                           tracked  : BOOLEAN,
                           book     : BOOLEAN,
                           status   : ShipmentStatus,
                           provider : BOOLEAN,
                           verdict  : {"open", "PROCESSED"}]]
    /\ raced \in BOOLEAN
    /\ revived \in BOOLEAN
    /\ calls \in 0 .. MaxCalls
    /\ mishaps \in 0 .. MaxMishaps
    /\ \A w \in Worker :
          pc[w] \in {"checking", "booking", "saving", "finding", "applying", "arriving",
                     "arrived", "callingOff", "finishing"} => job[w].parcel \in Parcels

\* "Across all of an order's shipments, no order line is ever shipped more times
\* than it was bought", short of a race and of a cancelled parcel that the
\* carrier sets moving again.
ShippedWithinPurchase ==
    ~raced /\ ~revived => \A l \in Line : alreadyShipped(l) <= Purchased[l]

\* "The courier collects the order total once, not once per box", short of the
\* same two.
CollectedOnce ==
    ~raced /\ ~revived => Cardinality({p \in Live : parcel[p].collects}) <= 1

\* "Booking it again would buy a second AWB for the same box": one pickup per
\* parcel, short of overlapping bookings and of a mishap.
BookedOnce ==
    ~raced /\ mishaps = 0 => \A p \in Parcel : consignments[p] <= 1

\* A carrier's event that comes late never moves a parcel back down the ladder,
\* short of a handler that read the status before the parcel was there.
NeverBackwards ==
    [][\A w \in Worker :
          /\ ~raced'
          /\ pc[w] \in {"applying", "arrived"} /\ job[w].provider
          /\ pc'[w] = "finishing"
          => \A p \in Parcel :
                {parcel[p].status, parcel'[p].status} \subseteq DOMAIN PROGRESS =>
                    PROGRESS[parcel'[p].status] >= PROGRESS[parcel[p].status]]_vars

\* "Losing the event would be worse than holding it": an event recorded as
\* PROCESSED is on its parcel's trail, applied or not.
ProcessedIsOnTrail ==
    \A p \in Parcel, status \in Reports :
        hook[p][status] = "PROCESSED" => status \in trail[p]

\* "The order is delivered when every live parcel has arrived": an arrival
\* delivers the order exactly if it is the last one, short of a race.
LastArrivalDelivers ==
    [][\A p \in Parcel :
          /\ ~raced'
          /\ order # "DELIVERED"
          /\ parcel[p].status # "DELIVERED" /\ parcel'[p].status = "DELIVERED"
          => (order' = "DELIVERED" <=> \A q \in Live' : parcel'[q].status = "DELIVERED")]_vars

\* Parcels agree with the purchase and with the carrier: short of the races the
\* parts name, nothing is shipped, collected or booked twice, and no processed
\* event is lost.
ParcelsStand ==
    TypeOK /\ ShippedWithinPurchase /\ CollectedOnce /\ BookedOnce /\ ProcessedIsOnTrail

=============================================================================
