------------------------------ MODULE Carrier ------------------------------
(***************************************************************************)
(* The carrier's adapter (integrations/shipping/shiprocket) under the      *)
(* handlers that use it: rates for a checkout, booking a parcel, its       *)
(* label, calling it off.  One adapter is shared: its token is cached,     *)
(* dropped when a call is refused, and taken by whoever comes next.        *)
(* Booking is several calls, each of which may fail, or succeed with its   *)
(* answer lost.  Prices, addresses and measurements are left out.          *)
(***************************************************************************)
EXTENDS Naturals, FiniteSets, SequencesExt

CONSTANTS
    Nobody,
    Package,
    Handler,      \* handlers in flight at once
    Courier,
    Rate, Days,   \* [Courier -> Nat]: what each asks, how long it takes
    Rule,         \* SHIPROCKET_COURIER_RULE: "cheapest" or "fastest"
    Preferred,    \* SHIPROCKET_COURIER_ID, or Nobody
    Tries,        \* couriers asked for one parcel (4 in the code)
    MaxRequests,  \* bound on the handlers' calls
    MaxFailures,  \* bound on calls that fail, answers lost and process stops
    MaxRevoked    \* bound on the tokens the carrier revokes

ASSUME CarrierAssumption ==
    /\ Rate \in [Courier -> Nat] /\ Days \in [Courier -> Nat]
    /\ Rule \in {"cheapest", "fastest"} /\ Preferred \in Courier \cup {Nobody}
    /\ Nobody \notin Courier /\ Nobody \notin Package
    /\ {Tries, MaxRequests, MaxFailures, MaxRevoked} \subseteq Nat

VARIABLES
    \* The database.
    row,          \* [Package -> [booked, tracked, label, cancelled, review]]
    \* The adapter.
    token,        \* the token it keeps, or Nobody
    \* The carrier.
    epoch,        \* the tokens it honours are those of this epoch
    registered,   \* [Package -> Nat]: orders in its panel
    awb,          \* [Package -> Nat]: air waybills it has given out
    \* The handlers in flight.
    task,         \* [Handler -> what it is about to do]
    \* History and bounds.
    trouble,      \* what has gone wrong: "lost", "failed", "stopped", "crossed", ...
    gaveUp,       \* a call was refused twice
    served, failures

history  == <<trouble, gaveUp, served, failures>>
carrierVars == <<row, token, epoch, registered, awb, task, history>>

NoRow == [booked |-> FALSE, tracked |-> FALSE, label |-> FALSE, cancelled |-> FALSE, review |-> FALSE]

\* A handler at rest; one with a call to make has no token for it yet.
Idle == [step |-> "idle", parcel |-> Nobody, auth |-> "none", tok |-> 0, retry |-> TRUE,
         couriers |-> <<>>, tracked |-> FALSE, label |-> FALSE]

\* On to the next call.
Then(w, step) == [task[w] EXCEPT !.step = step, !.auth = "none", !.tok = 0, !.retry = TRUE]
GoesTo(w, j)    == task' = [task EXCEPT ![w] = j]

Calling == {"rates", "create", "couriers", "assign", "label", "relabel", "call_off", "call_off_order"}

Crosses(w, p) == \E v \in Handler \ {w} : task[v].parcel = p
Crossed(w, p) == trouble' = trouble \cup (IF Crosses(w, p) THEN {"crossed"} ELSE {})

-----------------------------------------------------------------------------
(* Couriers *)

\* Cheaper first, or faster first, the other deciding between equals.
Before(a, b) ==
    LET key(c) == IF Rule = "fastest" THEN <<Days[c], Rate[c]>> ELSE <<Rate[c], Days[c]>>
    IN  key(a)[1] < key(b)[1] \/ (key(a)[1] = key(b)[1] /\ key(a)[2] < key(b)[2])

\* The preferred one goes first, the rest stay behind it.
rankCouriers(quoted) ==
    LET byRule == SetToSortSeq(quoted, Before)
    IN  IF Preferred \in quoted
        THEN <<Preferred>> \o SelectSeq(byRule, LAMBDA c : c # Preferred) ELSE byRule

-----------------------------------------------------------------------------
(* Requests *)

Request(w) == task[w].step = "idle" /\ served < MaxRequests /\ served' = served + 1
Asked == UNCHANGED <<token, epoch, registered, awb, gaveUp, failures>>

\* A checkout asks for rates.
quoteRates(w) ==
    /\ Request(w) /\ GoesTo(w, [Idle EXCEPT !.step = "rates"])
    /\ UNCHANGED <<row, trouble>> /\ Asked

\* So does a customer who asks whether an address is served at all.
checkServiceability(w) == quoteRates(w)

\* A parcel that was called off may still be booked.
bookWithProvider(w, p) ==
    /\ Request(w) /\ ~row[p].booked
    /\ GoesTo(w, [Idle EXCEPT !.step = "create", !.parcel = p, !.tracked = row[p].tracked])
    /\ trouble' = trouble \cup (IF Crosses(w, p) THEN {"crossed"} ELSE {})
                          \cup (IF row[p].cancelled THEN {"cancelled_first"} ELSE {})
    /\ UNCHANGED row /\ Asked

fetchShipmentLabel(w, p) ==
    /\ Request(w) /\ row[p].booked
    /\ GoesTo(w, [Idle EXCEPT !.step = "relabel", !.parcel = p])
    /\ Crossed(w, p) /\ UNCHANGED row /\ Asked

\* Mutant: a parcel without a waybill has nothing to call off.
cancelTracked(w, p) ==
    /\ Request(w) /\ ~row[p].cancelled
    /\ row' = [row EXCEPT ![p].cancelled = TRUE]
    /\ IF row[p].tracked THEN GoesTo(w, [Idle EXCEPT !.step = "call_off", !.parcel = p]) ELSE UNCHANGED task
    /\ Crossed(w, p) /\ Asked

\* The parcel is cancelled here first; what was not booked has nothing to call off.
cancelWithCarrier(w, p) ==
    /\ Request(w) /\ ~row[p].cancelled
    /\ row' = [row EXCEPT ![p].cancelled = TRUE]
    /\ IF row[p].booked THEN GoesTo(w, [Idle EXCEPT !.step = "call_off", !.parcel = p]) ELSE UNCHANGED task
    /\ Crossed(w, p) /\ Asked

\* The parcel's form, saved with the tracking number as it was read.
EditParcel(w, p) ==
    /\ Request(w)
    /\ GoesTo(w, [Idle EXCEPT !.step = "edit", !.parcel = p, !.tracked = row[p].tracked])
    /\ Crossed(w, p) /\ UNCHANGED row /\ Asked

WriteParcel(w) ==
    LET p == task[w].parcel IN
    /\ task[w].step = "edit" /\ GoesTo(w, Idle)
    /\ row' = [row EXCEPT ![p].tracked = task[w].tracked]
    /\ UNCHANGED <<token, epoch, registered, awb, history>>

\* An operator has looked at it.
MarkReviewed(w, p) ==
    /\ Request(w) /\ row[p].review
    /\ row' = [row EXCEPT ![p].review = FALSE]
    /\ trouble' = trouble \cup {"looked_at"}
    /\ UNCHANGED task /\ Asked

-----------------------------------------------------------------------------
(* One call *)

At(w, step) == task[w].step = step

\* The token kept, unless its time is over.
withToken(w) ==
    /\ task[w].step \in Calling /\ task[w].auth = "none"
    /\ GoesTo(w, IF token = Nobody THEN [task[w] EXCEPT !.auth = "signing_in"]
               ELSE [task[w] EXCEPT !.auth = "held", !.tok = token])
    /\ UNCHANGED <<row, token, epoch, registered, awb, history>>

\* The carrier signs it in; the answer is on its way.
SignIn(w) ==
    /\ task[w].auth = "signing_in"
    /\ GoesTo(w, [task[w] EXCEPT !.auth = "signed_in", !.tok = epoch])
    /\ UNCHANGED <<row, token, epoch, registered, awb, history>>

authenticate(w) ==
    /\ task[w].auth = "signed_in"
    /\ token' = task[w].tok /\ GoesTo(w, [task[w] EXCEPT !.auth = "held"])
    /\ UNCHANGED <<row, epoch, registered, awb, history>>

TokenExpires ==
    /\ token # Nobody /\ token' = Nobody
    /\ UNCHANGED <<row, epoch, registered, awb, task, history>>

\* A password change in their panel: every token is dead at once.
Revoke ==
    /\ epoch < MaxRevoked /\ epoch' = epoch + 1
    /\ trouble' = trouble \cup (IF \E w \in Handler : task[w].auth = "signed_in"
                                THEN {"signed_in_late"} ELSE {})
    /\ UNCHANGED <<row, token, registered, awb, task, gaveUp, served, failures>>

Sent(w)  == task[w].step \in Calling /\ task[w].auth = "held"
Taken(w) == Sent(w) /\ task[w].tok = epoch

\* What a handler does when a call throws.
Catch(w) ==
    CASE At(w, "couriers") \/ At(w, "label") -> GoesTo(w, Then(w, "save")) /\ UNCHANGED row
      [] At(w, "assign") -> /\ GoesTo(w, [Then(w, "assign") EXCEPT !.couriers = Tail(@),
                                        !.step = IF Len(task[w].couriers) = 1 THEN "label" ELSE "assign"])
                            /\ UNCHANGED row
      [] At(w, "call_off") -> GoesTo(w, Then(w, "call_off_order")) /\ UNCHANGED row
      [] At(w, "call_off_order") -> GoesTo(w, Idle) /\ row' = [row EXCEPT ![task[w].parcel].review = TRUE]
      [] OTHER -> GoesTo(w, Idle) /\ UNCHANGED row

\* Mutant: the retry is sent with the token that was refused.
RefusedKeepsToken(w) ==
    /\ Sent(w) /\ task[w].tok # epoch
    /\ IF task[w].retry
       THEN GoesTo(w, [task[w] EXCEPT !.auth = "none", !.retry = FALSE]) /\ UNCHANGED <<row, token, gaveUp>>
       ELSE Catch(w) /\ gaveUp' = TRUE /\ UNCHANGED token
    /\ UNCHANGED <<epoch, registered, awb, trouble, served, failures>>

\* 401: the token is dropped and the call made once more.
Refused(w) ==
    /\ Sent(w) /\ task[w].tok # epoch
    /\ IF task[w].retry
       THEN token' = Nobody /\ GoesTo(w, [task[w] EXCEPT !.auth = "none", !.retry = FALSE]) /\ UNCHANGED <<row, gaveUp>>
       ELSE Catch(w) /\ gaveUp' = TRUE /\ UNCHANGED token
    /\ UNCHANGED <<epoch, registered, awb, trouble, served, failures>>

Trouble(what) == failures < MaxFailures /\ failures' = failures + 1 /\ trouble' = trouble \cup {what}

\* What the carrier does when it takes a call.
Effect(w) ==
    LET p == task[w].parcel IN
    CASE At(w, "create") -> registered' = [registered EXCEPT ![p] = @ + 1] /\ UNCHANGED awb
      [] At(w, "assign") -> awb' = [awb EXCEPT ![p] = @ + 1] /\ UNCHANGED registered
      [] At(w, "call_off") \/ At(w, "call_off_order") ->
            registered' = [registered EXCEPT ![p] = 0] /\ awb' = [awb EXCEPT ![p] = 0]
      [] OTHER -> UNCHANGED <<registered, awb>>

\* The call, or signing in for it, fails and has done nothing.
Fails(w) ==
    /\ Taken(w) \/ task[w].auth = "signing_in"
    /\ Trouble("failed") /\ Catch(w)
    /\ UNCHANGED <<token, epoch, registered, awb, gaveUp, served>>

\* It is done and the answer does not arrive, or has no id in it.
AnswerLost(w) ==
    /\ Taken(w) /\ Trouble("lost") /\ Effect(w) /\ Catch(w)
    /\ UNCHANGED <<token, epoch, gaveUp, served>>

-----------------------------------------------------------------------------
(* Answers *)

Answered(w, step) == At(w, step) /\ Taken(w) /\ Effect(w) /\ UNCHANGED <<token, epoch, history>>
Unanswered == UNCHANGED <<token, epoch, registered, awb, history>>

\* Rates, whatever they are: a checkout writes nothing here.
RatesQuoted(w) == Answered(w, "rates") /\ GoesTo(w, Idle) /\ UNCHANGED row

Registered(w) == Answered(w, "create") /\ GoesTo(w, Then(w, "couriers")) /\ UNCHANGED row

\* Nobody may serve the address: the label is asked for all the same.
CouriersQuoted(w) ==
    /\ Answered(w, "couriers") /\ UNCHANGED row
    /\ \E quoted \in SUBSET Courier :
          LET ranked == rankCouriers(quoted)
              first  == SubSeq(ranked, 1, IF Len(ranked) < Tries THEN Len(ranked) ELSE Tries)
          IN  GoesTo(w, [Then(w, IF first = <<>> THEN "label" ELSE "assign") EXCEPT !.couriers = first])

\* Mutant: the next courier is asked although one has taken it.
AssignedGoesOn(w) ==
    /\ Answered(w, "assign") /\ UNCHANGED row
    /\ GoesTo(w, [Then(w, IF Len(task[w].couriers) = 1 THEN "label" ELSE "assign")
                   EXCEPT !.couriers = Tail(@), !.tracked = TRUE])

Assigned(w) ==
    /\ Answered(w, "assign") /\ UNCHANGED row
    /\ GoesTo(w, [Then(w, "label") EXCEPT !.tracked = TRUE])

\* The courier will not take it: an answer like any other, and the next is asked.
CourierRefuses(w) ==
    /\ At(w, "assign") /\ Taken(w) /\ Catch(w) /\ Unanswered

\* The label may not be ready.
LabelAnswered(w) ==
    /\ Answered(w, "label") /\ UNCHANGED row
    /\ \E b \in BOOLEAN : GoesTo(w, [Then(w, "save") EXCEPT !.label = b])

\* The booking is saved; without a new tracking number, the one that was read.
SaveBooking(w) ==
    LET p == task[w].parcel IN
    /\ At(w, "save") /\ GoesTo(w, Idle)
    /\ row' = [row EXCEPT ![p].booked = TRUE, ![p].label = task[w].label, ![p].tracked = task[w].tracked]
    /\ UNCHANGED <<token, epoch, registered, awb, history>>

LabelFetched(w) ==
    /\ Answered(w, "relabel") /\ GoesTo(w, Idle)
    /\ \E b \in BOOLEAN : row' = [row EXCEPT ![task[w].parcel].label = @ \/ b]

CalledOff(w) == (Answered(w, "call_off") \/ Answered(w, "call_off_order")) /\ GoesTo(w, Idle) /\ UNCHANGED row

\* There is no such waybill, or no such order any more.
CallOffRefused(w) ==
    /\ At(w, "call_off") \/ At(w, "call_off_order")
    /\ Taken(w) /\ Catch(w) /\ Unanswered

\* The process stops; the next one has no token.
ProcessStops ==
    /\ \E w \in Handler : ~At(w, "idle")
    /\ Trouble("stopped")
    /\ task' = [w \in Handler |-> Idle] /\ token' = Nobody
    /\ UNCHANGED <<row, epoch, registered, awb, gaveUp, served>>

-----------------------------------------------------------------------------

CarrierInit ==
    /\ row = [p \in Package |-> NoRow]
    /\ token = Nobody /\ epoch = 0
    /\ registered = [p \in Package |-> 0] /\ awb = [p \in Package |-> 0]
    /\ task = [w \in Handler |-> Idle]
    /\ trouble = {} /\ gaveUp = FALSE /\ served = 0 /\ failures = 0

Handle(w) ==
    \/ quoteRates(w) \/ checkServiceability(w)
    \/ \E p \in Package :
          \/ bookWithProvider(w, p) \/ fetchShipmentLabel(w, p) \/ cancelWithCarrier(w, p)
          \/ EditParcel(w, p) \/ MarkReviewed(w, p)
    \/ WriteParcel(w)

CallStep(w) ==
    \/ withToken(w) \/ SignIn(w) \/ authenticate(w) \/ Refused(w)
    \/ RatesQuoted(w) \/ Registered(w) \/ CouriersQuoted(w) \/ Assigned(w) \/ CourierRefuses(w)
    \/ LabelAnswered(w) \/ SaveBooking(w) \/ LabelFetched(w) \/ CalledOff(w) \/ CallOffRefused(w)

CarrierNext ==
    \/ \E w \in Handler : Handle(w) \/ CallStep(w) \/ Fails(w) \/ AnswerLost(w)
    \/ TokenExpires \/ Revoke \/ ProcessStops

CarrierSpec == CarrierInit /\ [][CarrierNext]_carrierVars

-----------------------------------------------------------------------------
(* Properties *)

CarrierTypeOK ==
    /\ row \in [Package -> [DOMAIN NoRow -> BOOLEAN]]
    /\ token \in Nat \cup {Nobody} /\ epoch \in Nat
    /\ registered \in [Package -> Nat] /\ awb \in [Package -> Nat]
    /\ \A w \in Handler : task[w].step \in Calling \cup {"idle", "edit", "save"}
    /\ gaveUp \in BOOLEAN /\ served \in 0 .. MaxRequests /\ failures \in 0 .. MaxFailures

AtRest(p) == \A w \in Handler : task[w].parcel # p

\* However the calls of a booking fail, a parcel is registered once and given one
\* waybill; what is registered is on its row, waybill and all, so that it is
\* neither booked again nor lost: unless an answer was lost, the process stopped
\* or two handlers were at one parcel (createShipment, bookWithProvider).
OneBooking ==
    \A p \in Package :
        trouble \cap {"lost", "stopped", "crossed"} = {} =>
            /\ registered[p] <= 1 /\ awb[p] <= 1
            /\ AtRest(p) /\ registered[p] = 1 => row[p].booked /\ (awb[p] = 1 <=> row[p].tracked)
BookedOnceAndKnown == CarrierTypeOK /\ OneBooking

\* A parcel that was cancelled here has no pickup there, or is put before an
\* operator: who "does not hear that the carrier still has a pickup booked will
\* find out from an invoice" (cancelWithCarrier).
CancelledIsCalledOff ==
    \A p \in Package :
        /\ trouble \cap {"stopped", "crossed", "cancelled_first", "looked_at"} = {}
        /\ AtRest(p) /\ row[p].cancelled /\ (row[p].booked \/ "lost" \notin trouble)
        => registered[p] = 0 \/ row[p].review

\* A token revoked once fails nobody's call: the retry signs in again, whatever
\* the other handlers do with the token they share (call, withToken), unless one
\* was signing in as it was revoked.
RevocationIsUnnoticed == epoch <= 1 /\ "signed_in_late" \notin trouble => ~gaveUp

=============================================================================
