--------------------------- MODULE BillingProofs ----------------------------
(***************************************************************************)
(* Theorems about what customers are billed: Payments, for any number of   *)
(* orders, provider orders, charges, idempotency keys, handlers in flight  *)
(* and mishaps; and Quotes, for any products, sets, coupons, zones,        *)
(* methods, couriers and requests in flight.                               *)
(***************************************************************************)
EXTENDS Payments, Quotes, SumTheorems, TLAPS

-----------------------------------------------------------------------------
(* Payments *)


(* The inductive invariant *)

DatabaseTyped ==
    /\ order \in [Order -> Status]
    /\ payment \in [Order -> PaymentStatus]
    /\ ref \in [Order -> Attempt \cup {None}]
    /\ stored \in [Key -> Event \cup {None}]
    /\ outcome \in [Key -> WebhookStatus]
    /\ charge \in [Charge -> {"none", "authorized", "captured", "failed"}]
    /\ announced \in [Order -> Nat]
    /\ byHand \subseteq Order
    /\ mishaps \in 0 .. MaxMishaps

HandlersTyped == pc \in [Worker -> Pc] /\ job \in [Worker -> Job]

WithOrder   == {"starting", "confirming", "paying", "failing", "announcing", "asking",
                "advancing", "cancelling"}
WithAttempt == {"confirming", "paying", "asking"}

\* A handler knows what its step needs.
Knows(w) ==
    /\ pc[w] \in WithOrder => job[w].order \in Order
    /\ pc[w] \in WithAttempt => job[w].attempt \in Attempt
    /\ pc[w] \in {"paying", "advancing"} => job[w].status \in Status
    /\ pc[w] \in {"matching", "finishing"} => job[w].key \in Key /\ stored[job[w].key] # None

\* The order an event is about, and whether an order has been paid.
OrderAt(k)  == OrderOf[AttemptOf[stored[k].charge]]
Money(o)    == o \in byHand \/ Backed(o)
Pending(o)  == order[o] = "PENDING_PAYMENT"

\* Where it came from: from a webhook that works on its own event's order, from
\* a gateway that has taken money, from a read that an order never goes behind.
Linked(w) ==
    /\ pc[w] \in {"starting", "asking", "advancing", "cancelling"} => job[w].key = None
    /\ job[w].key # None => job[w].key \in Key /\ stored[job[w].key] # None
    /\ pc[w] \in WithAttempt => OrderOf[job[w].attempt] = job[w].order
    /\ pc[w] \in {"confirming", "paying"} => Backed(job[w].order)
    /\ pc[w] = "paying" /\ job[w].status # "PENDING_PAYMENT" => ~Pending(job[w].order)
    /\ pc[w] = "announcing" => ~Pending(job[w].order)
    /\ pc[w] = "advancing" => /\ job[w].status # "PENDING_PAYMENT"
                              /\ job[w].status = "PAID" \/ Money(job[w].order)
    /\ pc[w] \in {"confirming", "paying", "announcing"} /\ job[w].key # None =>
          OrderAt(job[w].key) = job[w].order
    /\ pc[w] = "failing" /\ job[w].key # None => stored[job[w].key].type # "captured"
    /\ pc[w] = "finishing" /\ job[w].verdict = "PROCESSED"
           /\ stored[job[w].key].type = "captured" => ~Pending(OrderAt(job[w].key))

\* A stored capture happened, and a payment row names an attempt on its order.
EventsHappened ==
    \A k \in Key : stored[k] # None /\ stored[k].type = "captured" =>
        charge[stored[k].charge] = "captured"

RefsAreOwn == \A o \in Order : ref[o] # None => OrderOf[ref[o]] = o

HandlersInv == HandlersTyped /\ \A w \in Worker : Knows(w) /\ Linked(w)

PaymentsInv ==
    DatabaseTyped /\ HandlersInv /\ EventsHappened /\ RefsAreOwn /\ PaidIsBacked /\ ProcessedIsApplied

LEMMA InvImplies == PaymentsInv => PaymentsAreBacked
BY DEF PaymentsInv, PaymentsAreBacked, TypeOK, DatabaseTyped, HandlersInv, HandlersTyped,
       Knows, WithOrder, WithAttempt

-----------------------------------------------------------------------------
(* What no step undoes *)

\* Money stays, a stored event stays, an order never waits for payment again.
Onward ==
    /\ \A ch \in Charge :
          /\ charge[ch] \in {"authorized", "captured"} => charge'[ch] \in {"authorized", "captured"}
          /\ charge[ch] = "captured" => charge'[ch] = "captured"
    /\ \A k \in Key : stored[k] # None => stored'[k] = stored[k]
    /\ byHand \subseteq byHand'
    /\ \A o \in Order : ~Pending(o) => ~Pending(o)'

LEMMA BackedStays ==
    ASSUME Onward, NEW o, Backed(o)
    PROVE  Backed(o)'
BY DEF Onward, Backed, ChargesOf

LEMMA StillIsOnward ==
    ASSUME UNCHANGED <<charge, stored, byHand, order>>
    PROVE  Onward
BY DEF Onward, Pending

LEMMA NoJobIsAJob ==
    /\ NoJob \in Job /\ NoJob.key = None /\ NoJob.retry = FALSE
    /\ NoJob.verdict = "RECEIVED"
BY DEF NoJob, Job, WebhookStatus

LEMMA OrderOfEvent ==
    ASSUME DatabaseTyped, NEW k \in Key, stored[k] # None
    PROVE  /\ stored[k] \in Event /\ stored[k].charge \in Charge
           /\ AttemptOf[stored[k].charge] \in Attempt /\ OrderAt(k) \in Order
           /\ stored[k].type \in {"authorized", "captured", "failed"}
BY PaymentsAssumption DEF DatabaseTyped, OrderAt, Event

LEMMA GotoFacts ==
    ASSUME HandlersTyped, NEW w \in Worker, NEW where \in Pc, NEW j \in Job, Goto(w, where, j)
    PROVE  /\ HandlersTyped' /\ pc'[w] = where /\ job'[w] = j
           /\ \A v \in Worker \ {w} : pc'[v] = pc[v] /\ job'[v] = job[v]
BY DEF HandlersTyped, Goto

\* A handler at rest has nothing to know.
LEMMA AtRest ==
    ASSUME NEW w, pc[w] = "idle", job[w] = NoJob
    PROVE  Knows(w) /\ Linked(w)
BY NoJobIsAJob DEF Knows, Linked, WithOrder, WithAttempt

\* What the handlers that did not move know stays true.
LEMMA OthersKnow ==
    ASSUME PaymentsInv, Onward, NEW w \in Worker, HandlersTyped',
           \A v \in Worker \ {w} : pc'[v] = pc[v] /\ job'[v] = job[v],
           Knows(w)', Linked(w)'
    PROVE  HandlersInv'
<1> SUFFICES ASSUME NEW v \in Worker \ {w}
             PROVE  Knows(v)' /\ Linked(v)'
  BY DEF HandlersInv
<1>1. Knows(v) /\ Linked(v) /\ job[v] \in Job /\ DatabaseTyped
  BY DEF PaymentsInv, HandlersInv, HandlersTyped
<1>2. pc'[v] = pc[v] /\ job'[v] = job[v]
  OBVIOUS
<1>3. job[v].key # None => /\ job[v].key \in Key /\ stored[job[v].key] # None
                           /\ stored'[job[v].key] = stored[job[v].key]
                           /\ OrderAt(job[v].key) \in Order /\ OrderAt(job[v].key)' = OrderAt(job[v].key)
  BY <1>1, <1>2, OrderOfEvent DEF Linked, Onward, OrderAt
<1>4. None \notin Key /\ None \notin Order
  BY PaymentsAssumption
<1>5. Knows(v)'
  BY <1>1, <1>2, <1>3, <1>4 DEF Knows
<1>6. ASSUME pc[v] \in {"confirming", "paying"}
      PROVE  Backed(job[v].order)'
  <2>1. Backed(job[v].order)
    BY <1>1, <1>6 DEF Linked
  <2> QED
    BY <2>1, <1>2, BackedStays DEF Onward, Backed, ChargesOf
<1>7. ASSUME pc[v] = "advancing", Money(job[v].order)
      PROVE  Money(job[v].order)'
  <2>1. job[v].order \in Order
    BY <1>1, <1>7 DEF Knows, WithOrder
  <2> QED
    BY <2>1, <1>2, <1>7 DEF Onward, Money, Backed, ChargesOf
<1>8. \A o \in Order : ~Pending(o) => order'[o] # "PENDING_PAYMENT"
  BY DEF Onward, Pending
<1>9. Linked(v)'
  BY <1>1, <1>2, <1>3, <1>4, <1>6, <1>7, <1>8 DEF Linked, Knows, WithOrder, WithAttempt, Pending
<1> QED
  BY <1>5, <1>9

-----------------------------------------------------------------------------
(* What a step does to the handlers *)

\* A step that leaves the database alone sends one handler on with j.
LEMMA HandlerGoesOn ==
    ASSUME PaymentsInv, UNCHANGED <<dbVars, charge, historyVars>>, NEW w \in Worker,
           HandlersTyped',
           \A v \in Worker \ {w} : pc'[v] = pc[v] /\ job'[v] = job[v],
           Knows(w)', Linked(w)'
    PROVE  PaymentsInv'
<1>1. Onward
  BY StillIsOnward DEF dbVars, historyVars
<1>2. HandlersInv'
  BY <1>1, OthersKnow
<1>3. /\ DatabaseTyped /\ EventsHappened /\ RefsAreOwn /\ PaidIsBacked /\ ProcessedIsApplied
      /\ UNCHANGED <<order, payment, ref, stored, outcome, charge, announced, byHand, mishaps>>
  BY DEF PaymentsInv, dbVars, historyVars
<1>4. DatabaseTyped' /\ EventsHappened' /\ RefsAreOwn'
  BY <1>3 DEF DatabaseTyped, EventsHappened, RefsAreOwn
<1>5. PaidIsBacked' /\ ProcessedIsApplied'
  BY <1>3 DEF PaidIsBacked, ProcessedIsApplied, Backed, ChargesOf
<1> QED
  BY <1>2, <1>4, <1>5 DEF PaymentsInv

\* A handler that is done: a webhook still has its row to finish, and may call
\* it PROCESSED if its capture has reached the order.
LEMMA ConcludeFacts ==
    ASSUME PaymentsInv, Onward, NEW w \in Worker, NEW verdict \in WebhookStatus, Conclude(w, verdict),
           verdict = "PROCESSED" /\ job[w].key # None /\ stored[job[w].key].type = "captured" =>
               order'[OrderAt(job[w].key)] # "PENDING_PAYMENT"
    PROVE  HandlersInv'
<1>1. HandlersTyped /\ job[w] \in Job /\ DatabaseTyped
  BY DEF PaymentsInv, HandlersInv, HandlersTyped
<1>2. CASE job[w].key = None
  <2>1. Goto(w, "idle", NoJob)
    BY <1>2 DEF Conclude
  <2>2. /\ HandlersTyped' /\ pc'[w] = "idle" /\ job'[w] = NoJob
        /\ \A v \in Worker \ {w} : pc'[v] = pc[v] /\ job'[v] = job[v]
    BY <1>1, <2>1, GotoFacts, NoJobIsAJob DEF Pc
  <2>3. Knows(w)' /\ Linked(w)'
    BY <2>2, NoJobIsAJob DEF Knows, Linked, WithOrder, WithAttempt
  <2> QED
    BY <2>2, <2>3, OthersKnow
<1>3. CASE job[w].key # None
  <2> DEFINE j == [job[w] EXCEPT !.verdict = verdict]
  <2>1. Goto(w, "finishing", j)
    BY <1>3 DEF Conclude
  <2>2. j \in Job /\ j.key = job[w].key /\ j.verdict = verdict
    BY <1>1 DEF Job
  <2>3. /\ HandlersTyped' /\ pc'[w] = "finishing" /\ job'[w].key = job[w].key /\ job'[w].verdict = verdict
        /\ \A v \in Worker \ {w} : pc'[v] = pc[v] /\ job'[v] = job[v]
    <3> HIDE DEF j
    <3> QED
      BY <1>1, <2>1, <2>2, GotoFacts DEF Pc
  <2>4. /\ job[w].key \in Key /\ stored[job[w].key] # None
        /\ stored'[job[w].key] = stored[job[w].key]
    BY <1>3 DEF PaymentsInv, HandlersInv, Linked, Onward
  <2>5. Knows(w)'
    BY <2>3, <2>4 DEF Knows, WithOrder, WithAttempt
  <2>6. Linked(w)'
    BY <1>3, <2>3, <2>4 DEF Linked, WithOrder, WithAttempt, Pending, OrderAt
  <2> QED
    BY <2>3, <2>5, <2>6, OthersKnow
<1> QED
  BY <1>2, <1>3

-----------------------------------------------------------------------------
(* One lemma per action *)

LEMMA InvFacts ==
    ASSUME PaymentsInv
    PROVE  /\ HandlersTyped /\ DatabaseTyped
           /\ \A w \in Worker : Knows(w) /\ Linked(w) /\ job[w] \in Job
BY DEF PaymentsInv, HandlersInv, HandlersTyped

\* A handler begins with an order in hand.
LEMMA BeginWith ==
    ASSUME PaymentsInv, NEW w \in Worker, NEW o \in Order, NEW where \in Pc,
           where \in {"starting", "failing", "cancelling"},
           Goto(w, where, [NoJob EXCEPT !.order = o]), UNCHANGED <<dbVars, charge, historyVars>>
    PROVE  PaymentsInv'
<1> DEFINE j == [NoJob EXCEPT !.order = o]
<1>1. j \in Job /\ j.order = o /\ j.key = None
  BY DEF NoJob, Job, WebhookStatus
<1>2. Goto(w, where, j)
  OBVIOUS
<1> HIDE DEF j
<1>3. /\ HandlersTyped' /\ pc'[w] = where /\ job'[w] = j
      /\ \A v \in Worker \ {w} : pc'[v] = pc[v] /\ job'[v] = job[v]
  BY <1>1, <1>2, InvFacts, GotoFacts
<1>4. Knows(w)' /\ Linked(w)'
  BY <1>1, <1>3 DEF Knows, Linked, WithOrder, WithAttempt
<1> QED
  BY <1>3, <1>4, HandlerGoesOn

LEMMA VerifySignedStep ==
    ASSUME PaymentsInv, NEW w \in Worker, NEW ch \in Charge, VerifySigned(w, ch)
    PROVE  PaymentsInv'
<1> DEFINE a == AttemptOf[ch]
           o == OrderOf[a]
           j == [NoJob EXCEPT !.order = o, !.attempt = a]
<1>1. a \in Attempt /\ o \in Order
  BY PaymentsAssumption
<1>2. /\ charge[ch] \in {"authorized", "captured"} /\ Goto(w, "confirming", j)
      /\ UNCHANGED <<dbVars, charge, historyVars>>
  BY DEF VerifySigned
<1>3. j \in Job /\ j.order = o /\ j.attempt = a /\ j.key = None
  BY <1>1 DEF NoJob, Job, WebhookStatus
<1>4. Backed(o)'
  BY <1>2 DEF Backed, ChargesOf
<1> HIDE DEF j
<1>5. /\ HandlersTyped' /\ pc'[w] = "confirming" /\ job'[w] = j
      /\ \A v \in Worker \ {w} : pc'[v] = pc[v] /\ job'[v] = job[v]
  BY <1>2, <1>3, InvFacts, GotoFacts DEF Pc
<1>6. Backed(job[w].order)'
  BY <1>3, <1>4, <1>5 DEF Backed, ChargesOf
<1>7. Knows(w)' /\ Linked(w)'
  BY <1>1, <1>3, <1>5, <1>6 DEF Knows, Linked, WithOrder, WithAttempt
<1> QED
  BY <1>2, <1>5, <1>7, HandlerGoesOn

LEMMA ReplayStep ==
    ASSUME PaymentsInv, NEW w \in Worker, NEW k \in Key, Replay(w, k)
    PROVE  PaymentsInv'
<1> DEFINE j == [NoJob EXCEPT !.key = k, !.retry = TRUE]
<1>1. /\ stored[k] # None /\ Goto(w, "matching", j)
      /\ UNCHANGED <<dbVars, charge, historyVars>>
  BY DEF Replay
<1>2. j \in Job /\ j.key = k
  BY DEF NoJob, Job, WebhookStatus
<1> HIDE DEF j
<1>3. /\ HandlersTyped' /\ pc'[w] = "matching" /\ job'[w] = j
      /\ \A v \in Worker \ {w} : pc'[v] = pc[v] /\ job'[v] = job[v]
  BY <1>1, <1>2, InvFacts, GotoFacts DEF Pc
<1>4. stored'[k] # None
  BY <1>1 DEF dbVars
<1>5. Knows(w)' /\ Linked(w)'
  BY <1>2, <1>3, <1>4 DEF Knows, Linked, WithOrder, WithAttempt
<1> QED
  BY <1>1, <1>3, <1>5, HandlerGoesOn

LEMMA ReconcileReadStep ==
    ASSUME PaymentsInv, NEW w \in Worker, NEW o \in Order, ReconcileRead(w, o)
    PROVE  PaymentsInv'
<1> DEFINE a == ref[o]
           j == [NoJob EXCEPT !.order = o, !.attempt = a]
<1>1. /\ a # None /\ Goto(w, "asking", j) /\ UNCHANGED <<dbVars, charge, historyVars>>
  BY DEF ReconcileRead
<1>2. a \in Attempt /\ OrderOf[a] = o
  BY <1>1 DEF PaymentsInv, DatabaseTyped, RefsAreOwn
<1>3. j \in Job /\ j.order = o /\ j.attempt = a /\ j.key = None
  BY <1>2 DEF NoJob, Job, WebhookStatus
<1> HIDE DEF j
<1>4. /\ HandlersTyped' /\ pc'[w] = "asking" /\ job'[w] = j
      /\ \A v \in Worker \ {w} : pc'[v] = pc[v] /\ job'[v] = job[v]
  BY <1>1, <1>3, InvFacts, GotoFacts DEF Pc
<1> HIDE DEF a
<1>5. Knows(w)' /\ Linked(w)'
  BY <1>2, <1>3, <1>4 DEF Knows, Linked, WithOrder, WithAttempt
<1> QED
  BY <1>1, <1>4, <1>5, HandlerGoesOn

LEMMA ReconcileAnswerStep ==
    ASSUME PaymentsInv, NEW w \in Worker, ReconcileAnswer(w)
    PROVE  PaymentsInv'
<1>1. pc[w] = "asking" /\ UNCHANGED <<dbVars, charge, historyVars>>
  BY DEF ReconcileAnswer
<1>2. /\ job[w] \in Job /\ job[w].order \in Order /\ job[w].attempt \in Attempt
      /\ job[w].key = None /\ OrderOf[job[w].attempt] = job[w].order
  BY <1>1, InvFacts DEF Knows, Linked, WithOrder, WithAttempt
<1>3. CASE \E ch \in Charge : AttemptOf[ch] = job[w].attempt /\ charge[ch] = "captured"
  <2>1. Goto(w, "confirming", job[w])
    BY <1>3 DEF ReconcileAnswer
  <2>2. /\ HandlersTyped' /\ pc'[w] = "confirming" /\ job'[w] = job[w]
        /\ \A v \in Worker \ {w} : pc'[v] = pc[v] /\ job'[v] = job[v]
    BY <1>2, <2>1, InvFacts, GotoFacts DEF Pc
  <2>3. Backed(job[w].order)'
    BY <1>1, <1>2, <1>3, <2>2 DEF Backed, ChargesOf
  <2>4. Knows(w)' /\ Linked(w)'
    BY <1>2, <2>2, <2>3 DEF Knows, Linked, WithOrder, WithAttempt
  <2> QED
    BY <1>1, <2>2, <2>4, HandlerGoesOn
<1>4. CASE ~ \E ch \in Charge : AttemptOf[ch] = job[w].attempt /\ charge[ch] = "captured"
  <2>1. Goto(w, "idle", NoJob)
    BY <1>4 DEF ReconcileAnswer
  <2>2. /\ HandlersTyped' /\ pc'[w] = "idle" /\ job'[w] = NoJob
        /\ \A v \in Worker \ {w} : pc'[v] = pc[v] /\ job'[v] = job[v]
    BY <2>1, InvFacts, GotoFacts, NoJobIsAJob DEF Pc
  <2>3. Knows(w)' /\ Linked(w)'
    BY <2>2, NoJobIsAJob DEF Knows, Linked, WithOrder, WithAttempt
  <2> QED
    BY <1>1, <2>2, <2>3, HandlerGoesOn
<1> QED
  BY <1>3, <1>4

LEMMA StatusReadStep ==
    ASSUME PaymentsInv, NEW w \in Worker, NEW o \in Order, NEW next \in Moves, StatusRead(w, o, next)
    PROVE  PaymentsInv'
<1> DEFINE j == [NoJob EXCEPT !.order = o, !.status = next]
<1>1. /\ next \in AllowedTransitions(order[o]) /\ Goto(w, "advancing", j)
      /\ UNCHANGED <<dbVars, charge, historyVars>>
  BY DEF StatusRead
<1>2. next \in Status /\ next # "PENDING_PAYMENT" /\ next # "CANCELLED"
  BY <1>1, PaymentsAssumption DEF AllowedTransitions, Status
<1>3. next = "PAID" \/ Money(o)
  <2>1. next # "PAID" => order[o] \notin {"PENDING_PAYMENT", "CANCELLED"}
    BY <1>1, <1>2 DEF AllowedTransitions
  <2> QED
    BY <2>1 DEF PaymentsInv, PaidIsBacked, Money
<1>4. j \in Job /\ j.order = o /\ j.status = next /\ j.key = None
  BY <1>2 DEF NoJob, Job, WebhookStatus
<1> HIDE DEF j
<1>5. /\ HandlersTyped' /\ pc'[w] = "advancing" /\ job'[w] = j
      /\ \A v \in Worker \ {w} : pc'[v] = pc[v] /\ job'[v] = job[v]
  BY <1>1, <1>4, InvFacts, GotoFacts DEF Pc
<1>6. next = "PAID" \/ Money(job[w].order)'
  BY <1>1, <1>3, <1>4, <1>5 DEF Money, Backed, ChargesOf, historyVars
<1>7. Knows(w)' /\ Linked(w)'
  BY <1>2, <1>4, <1>5, <1>6 DEF Knows, Linked, WithOrder, WithAttempt
<1> QED
  BY <1>1, <1>5, <1>7, HandlerGoesOn

LEMMA MarkPaidReadStep ==
    ASSUME PaymentsInv, NEW w \in Worker, MarkPaidRead(w)
    PROVE  PaymentsInv'
<1> DEFINE o == job[w].order
           j == [job[w] EXCEPT !.status = order[o]]
<1>1. /\ pc[w] = "confirming" /\ Goto(w, "paying", j) /\ UNCHANGED <<dbVars, charge, historyVars>>
  BY DEF MarkPaidRead
<1>2. /\ job[w] \in Job /\ o \in Order /\ job[w].attempt \in Attempt /\ order[o] \in Status
      /\ OrderOf[job[w].attempt] = o /\ Backed(o)
      /\ job[w].key # None =>
            job[w].key \in Key /\ stored[job[w].key] # None /\ OrderAt(job[w].key) = o
  BY <1>1, InvFacts DEF Knows, Linked, WithOrder, WithAttempt, DatabaseTyped
<1>3. /\ j \in Job /\ j.order = o /\ j.attempt = job[w].attempt /\ j.key = job[w].key
      /\ j.status = order[o]
  BY <1>2 DEF Job
<1> HIDE DEF j
<1>4. /\ HandlersTyped' /\ pc'[w] = "paying" /\ job'[w] = j
      /\ \A v \in Worker \ {w} : pc'[v] = pc[v] /\ job'[v] = job[v]
  BY <1>1, <1>2, <1>3, InvFacts, GotoFacts DEF Pc
<1>5. Backed(job[w].order)'
  BY <1>1, <1>2, <1>3, <1>4 DEF Backed, ChargesOf
<1>6. order' = order /\ stored' = stored
  BY <1>1 DEF dbVars
<1>7. Knows(w)'
  BY <1>2, <1>3, <1>4 DEF Knows, WithOrder, WithAttempt
<1>8. Linked(w)'
  BY <1>2, <1>3, <1>4, <1>5, <1>6 DEF Linked, WithOrder, WithAttempt, Pending, OrderAt
<1> QED
  BY <1>1, <1>4, <1>7, <1>8, HandlerGoesOn

LEMMA MatchStep ==
    ASSUME PaymentsInv, NEW w \in Worker, Match(w)
    PROVE  PaymentsInv'
<1> DEFINE k == job[w].key
           e == stored[k]
           a == AttemptOf[e.charge]
           o == OrderOf[a]
           j == [job[w] EXCEPT !.order = o, !.attempt = a]
<1>1. pc[w] = "matching" /\ UNCHANGED <<dbVars, charge, historyVars>>
  BY DEF Match
<1>2. k \in Key /\ e # None /\ job[w] \in Job
  BY <1>1, InvFacts DEF Knows
<1>3. a \in Attempt /\ o \in Order /\ o = OrderAt(k) /\ e.charge \in Charge
  BY <1>2, InvFacts, OrderOfEvent, PaymentsAssumption DEF OrderAt
<1>4. j \in Job /\ j.order = o /\ j.attempt = a /\ j.key = k
  BY <1>2, <1>3 DEF Job
<1>5. ASSUME NEW verdict \in {"SKIPPED", "FAILED"}, Conclude(w, verdict)
      PROVE  PaymentsInv'
  <2>1. Onward
    BY <1>1, StillIsOnward DEF dbVars, historyVars
  <2>2. HandlersInv'
    BY <1>5, <2>1, ConcludeFacts DEF WebhookStatus
  <2>3. UNCHANGED <<order, payment, ref, stored, outcome, charge, announced, byHand, mishaps>>
    BY <1>1 DEF dbVars, historyVars
  <2>4. DatabaseTyped' /\ EventsHappened' /\ RefsAreOwn'
    BY <2>3 DEF PaymentsInv, DatabaseTyped, EventsHappened, RefsAreOwn
  <2>5. PaidIsBacked' /\ ProcessedIsApplied'
    BY <2>3 DEF PaymentsInv, PaidIsBacked, ProcessedIsApplied, Backed, ChargesOf
  <2> QED
    BY <2>2, <2>4, <2>5 DEF PaymentsInv
<1>6. ASSUME NEW where \in {"failing", "confirming"}, Goto(w, where, j),
             where = "failing" <=> e.type = "failed",
             where = "confirming" <=> e.type = "captured"
      PROVE  PaymentsInv'
  <2>1. where = "confirming" => Backed(o)
    <3>1. e.type = "captured" => charge[e.charge] = "captured"
      BY <1>2 DEF PaymentsInv, EventsHappened
    <3> QED
      BY <1>3, <1>6, <3>1 DEF Backed, ChargesOf
  <2> HIDE DEF j
  <2>2. /\ HandlersTyped' /\ pc'[w] = where /\ job'[w] = j
        /\ \A v \in Worker \ {w} : pc'[v] = pc[v] /\ job'[v] = job[v]
    BY <1>4, <1>6, InvFacts, GotoFacts DEF Pc
  <2>3. stored' = stored /\ order' = order
    BY <1>1 DEF dbVars
  <2>4. where = "confirming" => Backed(job[w].order)'
    BY <1>1, <1>4, <2>1, <2>2 DEF Backed, ChargesOf
  <2>5. Knows(w)'
    BY <1>3, <1>4, <1>6, <2>2 DEF Knows, WithOrder, WithAttempt
  <2>6. job'[w].key = k /\ job'[w].order = o /\ job'[w].attempt = a /\ OrderAt(k)' = OrderAt(k)
    BY <1>4, <2>2, <2>3 DEF OrderAt
  <2>7. Linked(w)'
    <3> HIDE DEF k, e, a, o
    <3>1. OrderOf[a] = o /\ stored'[k] = e /\ e # None
      BY <1>2, <2>3 DEF e, a, o
    <3>2. OrderOf[AttemptOf[stored'[k].charge]] = o
      BY <1>3, <2>3 DEF e, a, o, OrderAt
    <3> QED
      BY <1>2, <1>6, <2>2, <2>4, <2>6, <3>1, <3>2 DEF Linked, WithOrder, WithAttempt, OrderAt
  <2> QED
    BY <1>1, <2>2, <2>5, <2>7, HandlerGoesOn
<1>7. \/ Conclude(w, "SKIPPED") \/ Conclude(w, "FAILED")
      \/ e.type = "failed"   /\ Goto(w, "failing", j)
      \/ e.type = "captured" /\ Goto(w, "confirming", j)
  BY DEF Match
<1> HIDE DEF j, e
<1> QED
  BY <1>5, <1>6, <1>7

\* The gateway moves a charge: nothing the shop relies on is taken back.
LEMMA GatewayStep ==
    ASSUME PaymentsInv, NEW ch \in Charge, NEW to \in {"authorized", "captured", "failed"},
           charge' = [charge EXCEPT ![ch] = to],
           charge[ch] = "none" \/ (charge[ch] = "authorized" /\ to = "captured"),
           UNCHANGED <<dbVars, pc, job, historyVars>>
    PROVE  PaymentsInv'
<1>1. /\ charge \in [Charge -> {"none", "authorized", "captured", "failed"}]
      /\ UNCHANGED <<order, payment, ref, stored, outcome, pc, job, announced, byHand, mishaps>>
  BY DEF PaymentsInv, DatabaseTyped, dbVars, historyVars
<1>2. Onward
  BY <1>1 DEF Onward, Pending
<1>3. HandlersInv'
  <2> SUFFICES ASSUME NEW w \in Worker
               PROVE  Knows(w)' /\ Linked(w)'
    BY <1>1, InvFacts DEF HandlersInv, HandlersTyped
  <2>1. Knows(w) /\ Linked(w)
    BY InvFacts
  <2>2. Backed(job[w].order) => Backed(job[w].order)'
    BY <1>1, <1>2 DEF Onward, Backed, ChargesOf
  <2>3. Money(job[w].order) => Money(job[w].order)'
    BY <1>1, <2>2 DEF Money
  <2> QED
    BY <1>1, <2>1, <2>2, <2>3 DEF Knows, Linked, Pending, OrderAt
<1>4. DatabaseTyped' /\ RefsAreOwn' /\ ProcessedIsApplied'
  BY <1>1 DEF PaymentsInv, DatabaseTyped, RefsAreOwn, ProcessedIsApplied
<1>5. EventsHappened'
  BY <1>1, <1>2, InvFacts, OrderOfEvent DEF PaymentsInv, EventsHappened, Onward
<1>6. PaidIsBacked'
  <2>1. \A o \in Order : Backed(o) => Backed(o)'
    BY <1>2, BackedStays
  <2> QED
    BY <1>1, <2>1 DEF PaymentsInv, PaidIsBacked
<1> QED
  BY <1>3, <1>4, <1>5, <1>6 DEF PaymentsInv

LEMMA StartWriteStep ==
    ASSUME PaymentsInv, NEW w \in Worker, NEW a \in Attempt, StartWrite(w, a)
    PROVE  PaymentsInv'
<1>1. /\ ref' = [ref EXCEPT ![OrderOf[a]] = a] /\ Goto(w, "idle", NoJob)
      /\ UNCHANGED <<order, payment, stored, outcome, charge, announced, byHand, mishaps>>
  BY DEF StartWrite, historyVars
<1>2. OrderOf[a] \in Order /\ DatabaseTyped
  BY InvFacts, PaymentsAssumption
<1>3. Onward
  BY <1>1, StillIsOnward
<1>4. HandlersInv'
  <2>1. /\ HandlersTyped' /\ pc'[w] = "idle" /\ job'[w] = NoJob
        /\ \A v \in Worker \ {w} : pc'[v] = pc[v] /\ job'[v] = job[v]
    BY <1>1, InvFacts, GotoFacts, NoJobIsAJob DEF Pc
  <2>2. Knows(w)' /\ Linked(w)'
    BY <2>1, NoJobIsAJob DEF Knows, Linked, WithOrder, WithAttempt
  <2> QED
    BY <1>3, <2>1, <2>2, OthersKnow
<1>5. DatabaseTyped' /\ RefsAreOwn'
  BY <1>1, <1>2 DEF PaymentsInv, DatabaseTyped, RefsAreOwn
<1>6. EventsHappened' /\ ProcessedIsApplied' /\ PaidIsBacked'
  BY <1>1 DEF PaymentsInv, EventsHappened, ProcessedIsApplied, PaidIsBacked, Backed, ChargesOf
<1> QED
  BY <1>4, <1>5, <1>6 DEF PaymentsInv

LEMMA DeliverStep ==
    ASSUME PaymentsInv, NEW w \in Worker, NEW e \in Event, Deliver(w, e)
    PROVE  PaymentsInv'
<1> DEFINE k == KeyOf[e]
           j == [NoJob EXCEPT !.key = k]
<1>1. /\ e \in Occurred /\ stored[k] = None
      /\ stored' = [stored EXCEPT ![k] = e] /\ outcome' = [outcome EXCEPT ![k] = "RECEIVED"]
      /\ Goto(w, "matching", j)
      /\ UNCHANGED <<order, payment, ref, charge, announced, byHand, mishaps>>
  BY DEF Deliver, historyVars
<1>2. k \in Key /\ e # None /\ DatabaseTyped
  BY InvFacts, PaymentsAssumption
<1>3. j \in Job /\ j.key = k
  BY <1>2 DEF NoJob, Job, WebhookStatus
<1> HIDE DEF j, k
<1>4. Onward
  BY <1>1, <1>2 DEF Onward, Pending, DatabaseTyped
<1>5. HandlersInv'
  <2>1. /\ HandlersTyped' /\ pc'[w] = "matching" /\ job'[w] = j
        /\ \A v \in Worker \ {w} : pc'[v] = pc[v] /\ job'[v] = job[v]
    BY <1>1, <1>3, InvFacts, GotoFacts DEF Pc
  <2>2. stored'[k] # None
    BY <1>1, <1>2 DEF DatabaseTyped
  <2>3. Knows(w)' /\ Linked(w)'
    BY <1>2, <1>3, <2>1, <2>2 DEF Knows, Linked, WithOrder, WithAttempt
  <2> QED
    BY <1>4, <2>1, <2>3, OthersKnow
<1>6. DatabaseTyped'
  BY <1>1, <1>2 DEF DatabaseTyped, WebhookStatus
<1>7. RefsAreOwn' /\ PaidIsBacked'
  BY <1>1 DEF PaymentsInv, RefsAreOwn, PaidIsBacked, Backed, ChargesOf
<1>8. EventsHappened'
  <2>1. e.type = "captured" => charge[e.charge] = "captured"
    BY <1>1 DEF Occurred
  <2> QED
    BY <1>1, <1>2, <2>1 DEF PaymentsInv, EventsHappened, DatabaseTyped
<1>9. ProcessedIsApplied'
  BY <1>1, <1>2 DEF PaymentsInv, ProcessedIsApplied, DatabaseTyped
<1> QED
  BY <1>5, <1>6, <1>7, <1>8, <1>9 DEF PaymentsInv

LEMMA FinishStep ==
    ASSUME PaymentsInv, NEW w \in Worker, Finish(w)
    PROVE  PaymentsInv'
<1> DEFINE k == job[w].key
<1>1. /\ pc[w] = "finishing" /\ outcome' = [outcome EXCEPT ![k] = job[w].verdict]
      /\ Goto(w, "idle", NoJob)
      /\ UNCHANGED <<order, payment, ref, stored, charge, announced, byHand, mishaps>>
  BY DEF Finish, historyVars
<1>2. /\ k \in Key /\ stored[k] # None /\ job[w].verdict \in WebhookStatus /\ DatabaseTyped
      /\ job[w].verdict = "PROCESSED" /\ stored[k].type = "captured" => ~Pending(OrderAt(k))
  BY <1>1, InvFacts DEF Knows, Linked, Job
<1>3. Onward
  BY <1>1, StillIsOnward
<1>4. HandlersInv'
  <2>1. /\ HandlersTyped' /\ pc'[w] = "idle" /\ job'[w] = NoJob
        /\ \A v \in Worker \ {w} : pc'[v] = pc[v] /\ job'[v] = job[v]
    BY <1>1, InvFacts, GotoFacts, NoJobIsAJob DEF Pc
  <2>2. Knows(w)' /\ Linked(w)'
    BY <2>1, NoJobIsAJob DEF Knows, Linked, WithOrder, WithAttempt
  <2> QED
    BY <1>3, <2>1, <2>2, OthersKnow
<1>5. DatabaseTyped' /\ RefsAreOwn'
  BY <1>1, <1>2 DEF PaymentsInv, DatabaseTyped, RefsAreOwn
<1>6. EventsHappened' /\ PaidIsBacked'
  BY <1>1 DEF PaymentsInv, EventsHappened, PaidIsBacked, Backed, ChargesOf
<1>7. ProcessedIsApplied'
  BY <1>1, <1>2 DEF PaymentsInv, ProcessedIsApplied, DatabaseTyped, Pending, OrderAt
<1> QED
  BY <1>4, <1>5, <1>6, <1>7 DEF PaymentsInv

\* The transaction of markOrderPaid: whether or not it moves the order, the
\* order is not waiting for payment afterwards, and its money is there.
LEMMA MarkPaidCommitStep ==
    ASSUME PaymentsInv, NEW w \in Worker, MarkPaidCommit(w)
    PROVE  PaymentsInv'
<1> DEFINE o == job[w].order
           k == job[w].key
<1>1. /\ pc[w] = "paying" /\ payment' = [payment EXCEPT ![o] = "CAPTURED"]
      /\ ref' = [ref EXCEPT ![o] = job[w].attempt]
      /\ UNCHANGED <<stored, outcome, charge, announced, byHand, mishaps>>
      /\ \/ /\ order' = [order EXCEPT ![o] = "PAID"] /\ Goto(w, "announcing", job[w])
         \/ /\ job[w].status # "PENDING_PAYMENT" /\ order' = order /\ Conclude(w, "PROCESSED")
  BY DEF MarkPaidCommit, historyVars
<1>2. /\ job[w] \in Job /\ o \in Order /\ job[w].attempt \in Attempt /\ DatabaseTyped
      /\ OrderOf[job[w].attempt] = o /\ Backed(o)
      /\ job[w].status # "PENDING_PAYMENT" => ~Pending(o)
      /\ k # None => k \in Key /\ stored[k] # None /\ OrderAt(k) = o
  BY <1>1, InvFacts DEF Knows, Linked, WithOrder, WithAttempt
<1>3. /\ order' \in [Order -> Status] /\ order'[o] # "PENDING_PAYMENT"
      /\ \A p \in Order \ {o} : order'[p] = order[p]
  BY <1>1, <1>2 DEF DatabaseTyped, Status, Pending
<1>4. Onward
  BY <1>1, <1>3 DEF Onward, Pending
<1>5. HandlersInv'
  <2>1. CASE Goto(w, "announcing", job[w])
    <3>1. /\ HandlersTyped' /\ pc'[w] = "announcing" /\ job'[w] = job[w]
          /\ \A v \in Worker \ {w} : pc'[v] = pc[v] /\ job'[v] = job[v]
      BY <1>2, <2>1, InvFacts, GotoFacts DEF Pc
    <3>2. Knows(w)' /\ Linked(w)'
      BY <1>1, <1>2, <1>3, <3>1 DEF Knows, Linked, WithOrder, WithAttempt, Pending, OrderAt
    <3> QED
      BY <1>4, <3>1, <3>2, OthersKnow
  <2>2. CASE Conclude(w, "PROCESSED")
    <3>1. k # None => order'[OrderAt(k)] # "PENDING_PAYMENT"
      BY <1>2, <1>3 DEF Pending
    <3> QED
      BY <1>4, <2>2, <3>1, ConcludeFacts DEF WebhookStatus
  <2> QED
    BY <1>1, <2>1, <2>2
<1>6. DatabaseTyped' /\ RefsAreOwn'
  BY <1>1, <1>2, <1>3 DEF PaymentsInv, DatabaseTyped, RefsAreOwn, PaymentStatus
<1>7. EventsHappened'
  BY <1>1 DEF PaymentsInv, EventsHappened
<1>8. PaidIsBacked'
  <2>1. \A p \in Order : Backed(p)' <=> Backed(p)
    BY <1>1 DEF Backed, ChargesOf
  <2> HIDE DEF o
  <2> QED
    BY <1>1, <1>2, <1>3, <2>1 DEF PaymentsInv, PaidIsBacked, DatabaseTyped
<1>9. ProcessedIsApplied'
  BY <1>1, <1>4, InvFacts, OrderOfEvent DEF PaymentsInv, ProcessedIsApplied, Onward, Pending, OrderAt
<1> QED
  BY <1>5, <1>6, <1>7, <1>8, <1>9 DEF PaymentsInv

LEMMA AnnounceStep ==
    ASSUME PaymentsInv, NEW w \in Worker, Announce(w)
    PROVE  PaymentsInv'
<1>1. /\ pc[w] = "announcing" /\ announced' = [announced EXCEPT ![job[w].order] = @ + 1]
      /\ Conclude(w, "PROCESSED")
      /\ UNCHANGED <<order, payment, ref, stored, outcome, charge, byHand, mishaps>>
  BY DEF Announce, dbVars
<1>2. /\ job[w].order \in Order /\ ~Pending(job[w].order) /\ DatabaseTyped
      /\ job[w].key # None => OrderAt(job[w].key) = job[w].order
  BY <1>1, InvFacts DEF Knows, Linked, WithOrder
<1>3. Onward
  BY <1>1, StillIsOnward
<1>4. HandlersInv'
  BY <1>1, <1>2, <1>3, ConcludeFacts DEF WebhookStatus, Pending
<1>5. DatabaseTyped'
  BY <1>1, <1>2 DEF DatabaseTyped
<1>6. EventsHappened' /\ RefsAreOwn' /\ PaidIsBacked' /\ ProcessedIsApplied'
  BY <1>1 DEF PaymentsInv, EventsHappened, RefsAreOwn, PaidIsBacked, ProcessedIsApplied,
              Backed, ChargesOf
<1> QED
  BY <1>4, <1>5, <1>6 DEF PaymentsInv

LEMMA MarkFailedStep ==
    ASSUME PaymentsInv, NEW w \in Worker, MarkFailed(w)
    PROVE  PaymentsInv'
<1>1. /\ pc[w] = "failing" /\ payment' = [payment EXCEPT ![job[w].order] = "FAILED"]
      /\ Conclude(w, "PROCESSED")
      /\ UNCHANGED <<order, ref, stored, outcome, charge, announced, byHand, mishaps>>
  BY DEF MarkFailed, historyVars
<1>2. /\ job[w].order \in Order /\ DatabaseTyped
      /\ job[w].key # None => stored[job[w].key].type # "captured"
  BY <1>1, InvFacts DEF Knows, Linked, WithOrder
<1>3. Onward
  BY <1>1, StillIsOnward
<1>4. HandlersInv'
  BY <1>1, <1>2, <1>3, ConcludeFacts DEF WebhookStatus
<1>5. DatabaseTyped'
  BY <1>1, <1>2 DEF DatabaseTyped, PaymentStatus
<1>6. EventsHappened' /\ RefsAreOwn' /\ ProcessedIsApplied'
  BY <1>1 DEF PaymentsInv, EventsHappened, RefsAreOwn, ProcessedIsApplied
<1>7. PaidIsBacked'
  BY <1>1, <1>2 DEF PaymentsInv, PaidIsBacked, DatabaseTyped, Backed, ChargesOf
<1> QED
  BY <1>4, <1>5, <1>6, <1>7 DEF PaymentsInv

LEMMA StatusWriteStep ==
    ASSUME PaymentsInv, NEW w \in Worker, StatusWrite(w)
    PROVE  PaymentsInv'
<1> DEFINE o == job[w].order
           s == job[w].status
<1>1. /\ pc[w] = "advancing" /\ order' = [order EXCEPT ![o] = s]
      /\ \/ s = "PAID" /\ byHand' = byHand \cup {o} /\ Goto(w, "announcing", job[w])
         \/ s # "PAID" /\ byHand' = byHand /\ Goto(w, "idle", NoJob)
      /\ UNCHANGED <<payment, ref, stored, outcome, charge, announced, mishaps>>
  BY DEF StatusWrite
<1>2. /\ job[w] \in Job /\ o \in Order /\ s \in Status /\ s # "PENDING_PAYMENT"
      /\ s = "PAID" \/ Money(o)
      /\ job[w].key = None /\ DatabaseTyped
  BY <1>1, InvFacts DEF Knows, Linked, WithOrder
<1>3. /\ order' \in [Order -> Status] /\ order'[o] = s /\ byHand' \subseteq Order
      /\ \A p \in Order \ {o} : order'[p] = order[p]
      /\ byHand \subseteq byHand' /\ (s = "PAID" => o \in byHand')
  BY <1>1, <1>2 DEF DatabaseTyped
<1> HIDE DEF o, s
<1>4. Onward
  BY <1>1, <1>2, <1>3 DEF Onward, Pending
<1>5. HandlersInv'
  <2>1. CASE s = "PAID"
    <3>1. /\ HandlersTyped' /\ pc'[w] = "announcing" /\ job'[w] = job[w]
          /\ \A v \in Worker \ {w} : pc'[v] = pc[v] /\ job'[v] = job[v]
      BY <1>1, <1>2, <2>1, InvFacts, GotoFacts DEF Pc
    <3>2. Knows(w)' /\ Linked(w)'
      BY <1>2, <1>3, <3>1 DEF Knows, Linked, WithOrder, WithAttempt, Pending, o
    <3> QED
      BY <1>4, <3>1, <3>2, OthersKnow
  <2>2. CASE s # "PAID"
    <3>1. /\ HandlersTyped' /\ pc'[w] = "idle" /\ job'[w] = NoJob
          /\ \A v \in Worker \ {w} : pc'[v] = pc[v] /\ job'[v] = job[v]
      BY <1>1, <2>2, InvFacts, GotoFacts, NoJobIsAJob DEF Pc
    <3>2. Knows(w)' /\ Linked(w)'
      BY <3>1, NoJobIsAJob DEF Knows, Linked, WithOrder, WithAttempt
    <3> QED
      BY <1>4, <3>1, <3>2, OthersKnow
  <2> QED
    BY <2>1, <2>2
<1>6. DatabaseTyped' /\ RefsAreOwn' /\ EventsHappened'
  BY <1>1, <1>2, <1>3 DEF PaymentsInv, DatabaseTyped, RefsAreOwn, EventsHappened
<1>7. PaidIsBacked'
  <2>1. \A p \in Order : Backed(p)' <=> Backed(p)
    BY <1>1 DEF Backed, ChargesOf
  <2> QED
    BY <1>1, <1>2, <1>3, <2>1 DEF PaymentsInv, PaidIsBacked, Money
<1>8. ProcessedIsApplied'
  BY <1>1, <1>4, InvFacts, OrderOfEvent DEF PaymentsInv, ProcessedIsApplied, Onward, Pending, OrderAt
<1> QED
  BY <1>5, <1>6, <1>7, <1>8 DEF PaymentsInv

LEMMA CancelCommitStep ==
    ASSUME PaymentsInv, NEW w \in Worker, CancelCommit(w)
    PROVE  PaymentsInv'
<1> DEFINE o == job[w].order
<1>1. /\ pc[w] = "cancelling" /\ order' = [order EXCEPT ![o] = "CANCELLED"]
      /\ Goto(w, "idle", NoJob)
      /\ UNCHANGED <<payment, ref, stored, outcome, charge, announced, byHand, mishaps>>
  BY DEF CancelCommit, historyVars
<1>2. o \in Order /\ DatabaseTyped
  BY <1>1, InvFacts DEF Knows, WithOrder
<1>3. /\ order' \in [Order -> Status] /\ order'[o] = "CANCELLED"
      /\ \A p \in Order \ {o} : order'[p] = order[p]
  BY <1>1, <1>2 DEF DatabaseTyped, Status
<1> HIDE DEF o
<1>4. Onward
  BY <1>1, <1>3 DEF Onward, Pending
<1>5. HandlersInv'
  <2>1. /\ HandlersTyped' /\ pc'[w] = "idle" /\ job'[w] = NoJob
        /\ \A v \in Worker \ {w} : pc'[v] = pc[v] /\ job'[v] = job[v]
    BY <1>1, InvFacts, GotoFacts, NoJobIsAJob DEF Pc
  <2>2. Knows(w)' /\ Linked(w)'
    BY <2>1, NoJobIsAJob DEF Knows, Linked, WithOrder, WithAttempt
  <2> QED
    BY <1>4, <2>1, <2>2, OthersKnow
<1>6. DatabaseTyped' /\ RefsAreOwn' /\ EventsHappened'
  BY <1>1, <1>3 DEF PaymentsInv, DatabaseTyped, RefsAreOwn, EventsHappened
<1>7. PaidIsBacked'
  <2>1. \A p \in Order : Backed(p)' <=> Backed(p)
    BY <1>1 DEF Backed, ChargesOf
  <2> QED
    BY <1>1, <1>3, <2>1 DEF PaymentsInv, PaidIsBacked
<1>8. ProcessedIsApplied'
  BY <1>1, <1>4, InvFacts, OrderOfEvent DEF PaymentsInv, ProcessedIsApplied, Onward, Pending, OrderAt
<1> QED
  BY <1>5, <1>6, <1>7, <1>8 DEF PaymentsInv

LEMMA MishapTyped ==
    ASSUME DatabaseTyped, Mishap
    PROVE  mishaps' \in 0 .. MaxMishaps
BY PaymentsAssumption DEF DatabaseTyped, Mishap

LEMMA DatabaseErrorStep ==
    ASSUME PaymentsInv, NEW w \in Worker, DatabaseError(w)
    PROVE  PaymentsInv'
<1>1. /\ Mishap /\ Conclude(w, "FAILED")
      /\ UNCHANGED <<order, payment, ref, stored, outcome, charge, announced, byHand>>
  BY DEF DatabaseError, dbVars
<1>2. HandlersInv'
  BY <1>1, StillIsOnward, ConcludeFacts DEF WebhookStatus
<1>3. DatabaseTyped'
  BY <1>1, InvFacts, MishapTyped DEF DatabaseTyped
<1>4. EventsHappened' /\ RefsAreOwn' /\ PaidIsBacked' /\ ProcessedIsApplied'
  BY <1>1 DEF PaymentsInv, EventsHappened, RefsAreOwn, PaidIsBacked, ProcessedIsApplied,
              Backed, ChargesOf
<1> QED
  BY <1>2, <1>3, <1>4 DEF PaymentsInv

LEMMA CrashStep ==
    ASSUME PaymentsInv, Crash
    PROVE  PaymentsInv'
<1>1. /\ Mishap /\ pc' = [w \in Worker |-> "idle"] /\ job' = [w \in Worker |-> NoJob]
      /\ UNCHANGED <<order, payment, ref, stored, outcome, charge, announced, byHand>>
  BY DEF Crash, dbVars
<1>2. HandlersInv'
  <2>1. HandlersTyped'
    BY <1>1, NoJobIsAJob DEF HandlersTyped, Pc
  <2>2. ASSUME NEW w \in Worker
        PROVE  Knows(w)' /\ Linked(w)'
    <3>1. pc'[w] = "idle" /\ job'[w] = NoJob
      BY <1>1
    <3> QED
      BY <3>1, NoJobIsAJob DEF Knows, Linked, WithOrder, WithAttempt
  <2> QED
    BY <2>1, <2>2 DEF HandlersInv
<1>3. DatabaseTyped'
  BY <1>1, InvFacts, MishapTyped DEF DatabaseTyped
<1>4. EventsHappened' /\ RefsAreOwn' /\ PaidIsBacked' /\ ProcessedIsApplied'
  BY <1>1 DEF PaymentsInv, EventsHappened, RefsAreOwn, PaidIsBacked, ProcessedIsApplied,
              Backed, ChargesOf
<1> QED
  BY <1>2, <1>3, <1>4 DEF PaymentsInv

-----------------------------------------------------------------------------
(* The theorems *)

LEMMA InvInit == Init => PaymentsInv
<1> SUFFICES ASSUME Init
             PROVE  PaymentsInv
  OBVIOUS
<1>1. DatabaseTyped
  BY PaymentsAssumption DEF Init, DatabaseTyped, Status, PaymentStatus, WebhookStatus
<1>2. HandlersInv
  <2>1. HandlersTyped
    BY NoJobIsAJob DEF Init, HandlersTyped, Pc
  <2>2. \A w \in Worker : pc[w] = "idle" /\ job[w] = NoJob
    BY DEF Init
  <2> QED
    BY <2>1, <2>2, AtRest DEF HandlersInv
<1>3. EventsHappened /\ RefsAreOwn /\ PaidIsBacked /\ ProcessedIsApplied
  BY DEF Init, EventsHappened, RefsAreOwn, PaidIsBacked, ProcessedIsApplied
<1> QED
  BY <1>1, <1>2, <1>3 DEF PaymentsInv

LEMMA InvStep == PaymentsInv /\ [Next]_vars => PaymentsInv'
<1> SUFFICES ASSUME PaymentsInv, [Next]_vars
             PROVE  PaymentsInv'
  OBVIOUS
<1>1. ASSUME NEW ch \in Charge, Authorize(ch) \/ Capture(ch) \/ Decline(ch)
      PROVE  PaymentsInv'
  <2>1. UNCHANGED <<dbVars, pc, job, historyVars>>
    BY <1>1 DEF Authorize, Capture, Decline
  <2>2. \E to \in {"authorized", "captured", "failed"} :
           /\ charge' = [charge EXCEPT ![ch] = to]
           /\ charge[ch] = "none" \/ (charge[ch] = "authorized" /\ to = "captured")
    <3>1. CASE Authorize(ch)
      BY <3>1 DEF Authorize
    <3>2. CASE Capture(ch)
      BY <3>2 DEF Capture
    <3>3. CASE Decline(ch)
      BY <3>3 DEF Decline
    <3> QED
      BY <1>1, <3>1, <3>2, <3>3
  <2>3. PICK to \in {"authorized", "captured", "failed"} :
           /\ charge' = [charge EXCEPT ![ch] = to]
           /\ charge[ch] = "none" \/ (charge[ch] = "authorized" /\ to = "captured")
    BY <2>2
  <2> QED
    BY <2>1, <2>3, GatewayStep
<1>2. ASSUME NEW w \in Worker, Begin(w)
      PROVE  PaymentsInv'
  <2>1. ASSUME NEW o \in Order, StartRead(w, o) \/ VerifyUnsigned(w, o) \/ CancelRead(w, o)
        PROVE  PaymentsInv'
    BY <2>1, BeginWith DEF StartRead, VerifyUnsigned, CancelRead, Pc
  <2>2. ASSUME NEW o \in Order, ReconcileRead(w, o)
        PROVE  PaymentsInv'
    BY <2>2, ReconcileReadStep
  <2>3. ASSUME NEW o \in Order, NEW next \in Moves, StatusRead(w, o, next)
        PROVE  PaymentsInv'
    BY <2>3, StatusReadStep
  <2>4. ASSUME NEW ch \in Charge, VerifySigned(w, ch)
        PROVE  PaymentsInv'
    BY <2>4, VerifySignedStep
  <2>5. ASSUME NEW e \in Event, Deliver(w, e)
        PROVE  PaymentsInv'
    BY <2>5, DeliverStep
  <2>6. ASSUME NEW k \in Key, Replay(w, k)
        PROVE  PaymentsInv'
    BY <2>6, ReplayStep
  <2> QED
    BY <1>2, <2>1, <2>2, <2>3, <2>4, <2>5, <2>6 DEF Begin
<1>3. ASSUME NEW w \in Worker, Step(w)
      PROVE  PaymentsInv'
  BY <1>3, StartWriteStep, MatchStep, FinishStep, MarkPaidReadStep, MarkPaidCommitStep,
     AnnounceStep, MarkFailedStep, ReconcileAnswerStep, StatusWriteStep, CancelCommitStep DEF Step
<1>4. ASSUME NEW w \in Worker, DatabaseError(w)
      PROVE  PaymentsInv'
  BY <1>4, DatabaseErrorStep
<1>5. CASE Crash
  BY <1>5, CrashStep
<1>6. CASE UNCHANGED vars
  <2>1. UNCHANGED <<order, payment, ref, stored, outcome, charge, pc, job, announced, byHand, mishaps>>
    BY <1>6 DEF vars
  <2>2. HandlersInv'
    <3>1. HandlersTyped'
      BY <2>1 DEF PaymentsInv, HandlersInv, HandlersTyped
    <3>2. ASSUME NEW w \in Worker
          PROVE  Knows(w)' /\ Linked(w)'
      BY <2>1, InvFacts DEF Knows, Linked, Backed, ChargesOf, Money, Pending, OrderAt
    <3> QED
      BY <3>1, <3>2 DEF HandlersInv
  <2>3. DatabaseTyped' /\ EventsHappened' /\ RefsAreOwn' /\ PaidIsBacked' /\ ProcessedIsApplied'
    BY <2>1 DEF PaymentsInv, DatabaseTyped, EventsHappened, RefsAreOwn, PaidIsBacked,
                ProcessedIsApplied, Backed, ChargesOf
  <2> QED
    BY <2>2, <2>3 DEF PaymentsInv
<1> QED
  BY <1>1, <1>2, <1>3, <1>4, <1>5, <1>6 DEF Next

\* However many deliveries, replays, callbacks, reconciliations and staff
\* overlap, and wherever they fail: an order gets past PENDING_PAYMENT only with
\* money or by staff, and a PROCESSED capture has reached its order.
THEOREM PaymentsAreAlwaysBacked == Spec => []PaymentsAreBacked
BY InvInit, InvStep, InvImplies, PTL DEF Spec

\* A step that goes on with a webhook's key did not pick it up, unless it is the
\* insert of a row that was not there or an operator's retry.
LEMMA KeyIsPickedUp ==
    ASSUME PaymentsInv, [Next]_vars, NEW k \in Key, NEW w \in Worker,
           stored[k] # None, job[w].key = None, job'[w].key = k
    PROVE  job'[w].retry
<1>1. HandlersTyped /\ job[w] \in Job /\ k # None
  BY InvFacts, PaymentsAssumption
<1>2. ASSUME NEW v \in Worker, NEW where \in Pc, NEW j \in Job, Goto(v, where, j),
             j.key = job[v].key \/ j.key = None
      PROVE  FALSE
  <2>1. /\ job'[v] = j /\ \A u \in Worker \ {v} : job'[u] = job[u]
    BY <1>1, <1>2, GotoFacts
  <2> QED
    BY <1>1, <1>2, <2>1
<1>3. ASSUME NEW v \in Worker, NEW verdict \in WebhookStatus, Conclude(v, verdict)
      PROVE  FALSE
  <2> DEFINE j == [job[v] EXCEPT !.verdict = verdict]
  <2>1. j \in Job /\ j.key = job[v].key
    BY <1>1 DEF HandlersTyped, Job
  <2>2. Goto(v, "finishing", j) \/ Goto(v, "idle", NoJob)
    BY <1>3 DEF Conclude
  <2> HIDE DEF j
  <2> QED
    BY <1>2, <2>1, <2>2, NoJobIsAJob DEF Pc
<1>4. CASE job' = job
  BY <1>1, <1>4
<1>5. ASSUME NEW v \in Worker, NEW e \in Event, Deliver(v, e)
      PROVE  FALSE
  <2> DEFINE j == [NoJob EXCEPT !.key = KeyOf[e]]
  <2>1. stored[KeyOf[e]] = None /\ Goto(v, "matching", j) /\ KeyOf[e] \in Key
    BY <1>5, PaymentsAssumption DEF Deliver
  <2>2. j \in Job /\ j.key = KeyOf[e]
    BY <2>1 DEF NoJob, Job, WebhookStatus
  <2> HIDE DEF j
  <2>3. job'[v] = j /\ \A u \in Worker \ {v} : job'[u] = job[u]
    BY <1>1, <2>1, <2>2, GotoFacts DEF Pc
  <2> QED
    BY <1>1, <2>1, <2>2, <2>3
<1>6. ASSUME NEW v \in Worker, NEW q \in Key, Replay(v, q)
      PROVE  job'[w].retry
  <2> DEFINE j == [NoJob EXCEPT !.key = q, !.retry = TRUE]
  <2>1. Goto(v, "matching", j)
    BY <1>6 DEF Replay
  <2>2. j \in Job /\ j.retry
    BY DEF NoJob, Job, WebhookStatus
  <2> HIDE DEF j
  <2>3. job'[v] = j /\ \A u \in Worker \ {v} : job'[u] = job[u]
    BY <1>1, <2>1, <2>2, GotoFacts DEF Pc
  <2> QED
    BY <1>1, <2>2, <2>3
<1>7. ASSUME NEW v \in Worker, NEW where \in Pc, Goto(v, where, job[v]) \/ Goto(v, where, NoJob)
      PROVE  FALSE
  BY <1>1, <1>2, <1>7, NoJobIsAJob DEF HandlersTyped
<1>8. ASSUME NEW v \in Worker, Begin(v)
       PROVE  job'[w].retry
  <2>1. ASSUME NEW o \in Order, StartRead(v, o) \/ VerifyUnsigned(v, o) \/ CancelRead(v, o)
        PROVE  FALSE
    <3> DEFINE j == [NoJob EXCEPT !.order = o]
    <3>1. o \in Order
      BY <2>1
    <3>2. \E where \in Pc : Goto(v, where, j)
      BY <2>1 DEF StartRead, VerifyUnsigned, CancelRead, Pc
    <3>3. j \in Job /\ j.key = None
      BY <3>1 DEF NoJob, Job, WebhookStatus
    <3> HIDE DEF j
    <3> QED
      BY <1>2, <3>2, <3>3
  <2>2. ASSUME NEW ch \in Charge, VerifySigned(v, ch)
        PROVE  FALSE
    <3> DEFINE j == [NoJob EXCEPT !.order = OrderOf[AttemptOf[ch]],
                                     !.attempt = AttemptOf[ch]]
    <3>1. OrderOf[AttemptOf[ch]] \in Order /\ AttemptOf[ch] \in Attempt
      BY PaymentsAssumption
    <3>2. \E where \in Pc : Goto(v, where, j)
      BY <2>2 DEF VerifySigned, Pc
    <3>3. j \in Job /\ j.key = None
      BY <3>1 DEF NoJob, Job, WebhookStatus
    <3> HIDE DEF j
    <3> QED
      BY <1>2, <3>2, <3>3
  <2>3. ASSUME NEW o \in Order, ReconcileRead(v, o)
        PROVE  FALSE
    <3> DEFINE j == [NoJob EXCEPT !.order = o, !.attempt = ref[o]]
    <3>1. ref[o] \in Attempt \cup {None}
      BY InvFacts DEF DatabaseTyped
    <3>2. \E where \in Pc : Goto(v, where, j)
      BY <2>3 DEF ReconcileRead, Pc
    <3>3. j \in Job /\ j.key = None
      BY <3>1 DEF NoJob, Job, WebhookStatus
    <3> HIDE DEF j
    <3> QED
      BY <1>2, <3>2, <3>3
  <2>4. ASSUME NEW o \in Order, NEW next \in Moves, StatusRead(v, o, next)
        PROVE  FALSE
    <3> DEFINE j == [NoJob EXCEPT !.order = o, !.status = next]
    <3>1. next \in Status
      BY PaymentsAssumption
    <3>2. \E where \in Pc : Goto(v, where, j)
      BY <2>4 DEF StatusRead, Pc
    <3>3. j \in Job /\ j.key = None
      BY <3>1 DEF NoJob, Job, WebhookStatus
    <3> HIDE DEF j
    <3> QED
      BY <1>2, <3>2, <3>3
  <2> QED
    BY <1>5, <1>6, <1>8, <2>1, <2>2, <2>3, <2>4 DEF Begin
<1>9. ASSUME NEW v \in Worker, Step(v) \/ DatabaseError(v)
       PROVE  FALSE
  <2>1. ASSUME MarkPaidRead(v)
        PROVE  FALSE
    <3> DEFINE j == [job[v] EXCEPT !.status = order[job[v].order]]
    <3>1. job[v] \in Job /\ order[job[v].order] \in Status
      BY <1>1, <2>1, InvFacts DEF MarkPaidRead, Knows, WithOrder, HandlersTyped, DatabaseTyped
    <3>2. "paying" \in Pc /\ Goto(v, "paying", j)
      BY <2>1 DEF MarkPaidRead, Pc
    <3>3. j \in Job /\ j.key = job[v].key
      BY <3>1 DEF Job
    <3> HIDE DEF j
    <3> QED
      BY <1>2, <3>2, <3>3
  <2>2. ASSUME Match(v)
        PROVE  FALSE
    <3> DEFINE a == AttemptOf[stored[job[v].key].charge]
               j == [job[v] EXCEPT !.order = OrderOf[a], !.attempt = a]
    <3>1. job[v] \in Job /\ a \in Attempt /\ OrderOf[a] \in Order
      BY <1>1, <2>2, InvFacts, OrderOfEvent, PaymentsAssumption DEF Match, Knows, HandlersTyped
    <3>2. \/ \E verdict \in WebhookStatus : Conclude(v, verdict)
          \/ \E where \in Pc : Goto(v, where, j)
      BY <2>2 DEF Match, WebhookStatus, Pc
    <3>3. j \in Job /\ j.key = job[v].key
      BY <3>1 DEF Job
    <3> HIDE DEF j
    <3> QED
      BY <1>2, <1>3, <3>2, <3>3
  <2>3. ASSUME \/ Finish(v) \/ MarkPaidCommit(v) \/ Announce(v) \/ MarkFailed(v)
               \/ ReconcileAnswer(v) \/ StatusWrite(v) \/ CancelCommit(v) \/ DatabaseError(v)
               \/ \E a \in Attempt : StartWrite(v, a)
        PROVE  FALSE
    <3>1. \/ \E where \in Pc : Goto(v, where, job[v]) \/ Goto(v, where, NoJob)
          \/ \E verdict \in WebhookStatus : Conclude(v, verdict)
      BY <2>3 DEF Finish, MarkPaidCommit, Announce, MarkFailed, ReconcileAnswer, StatusWrite,
                  CancelCommit, DatabaseError, StartWrite, Pc, WebhookStatus
    <3> QED
      BY <1>3, <1>7, <3>1
  <2> QED
    BY <1>9, <2>1, <2>2, <2>3 DEF Step
<1>10. CASE Crash
  BY <1>1, <1>10, NoJobIsAJob DEF Crash
<1> QED
  BY <1>4, <1>8, <1>9, <1>10 DEF Next, Authorize, Capture, Decline, vars

\* For any number of deliveries at once: an event whose row is there is worked
\* on again only because an operator asked.
THEOREM RedeliveryIsAlwaysNoOp == Spec => RedeliveryIsNoOp
<1>1. PaymentsInv /\ [Next]_vars =>
         \A k \in Key, w \in Worker :
            stored[k] # None /\ job[w].key = None /\ job'[w].key = k => job'[w].retry
  BY KeyIsPickedUp
<1> QED
  BY <1>1, InvInit, InvStep, PTL DEF Spec, RedeliveryIsNoOp

-----------------------------------------------------------------------------
(* Quotes: what paise are shared into *)

\* A quotient and its remainder.
LEMMA Divided ==
    ASSUME NEW a \in Nat, NEW b \in Nat, b > 0
    PROVE  a \div b \in Nat /\ a % b \in Nat /\ a % b <= b - 1 /\ a = b * (a \div b) + (a % b)
OBVIOUS

\* Products of naturals and of integers.
LEMMA ProductType ==
    /\ \A a, b \in Nat : a * b \in Nat
    /\ \A a, b \in Int : a * b \in Int /\ a * b = b * a
OBVIOUS

\* A multiple that is less than so many times its unit is of as many units.
LEMMA FactorsCompare ==
    ASSUME NEW s \in Nat, s > 0, NEW l \in Int, NEW a \in Nat, NEW r \in Nat,
           s * l = r, r <= (s - 1) * a
    PROVE  l \in Nat /\ l <= a
<1>1. ASSUME l < 0 PROVE FALSE
  <2>1. s * l <= s * (0 - 1)
    BY <1>1
  <2> QED BY <2>1
<1>2. (s - 1) * a = s * a - a
  OBVIOUS
<1>3. ASSUME l > a PROVE FALSE
  <2>1. s * (a + 1) <= s * l
    BY <1>3
  <2>2. s * (a + 1) = s * a + s
    OBVIOUS
  <2>3. s * a \in Int /\ s * l \in Int
    OBVIOUS
  <2> QED BY <2>1, <2>2, <2>3, <1>2
<1> QED BY <1>1, <1>3

\* The sum of naturals is one.
LEMMA SumFunctionType ==
    ASSUME NEW f, IsFiniteSet(DOMAIN f), \A i \in DOMAIN f : f[i] \in Nat
    PROVE  SumFunction(f) \in Nat
BY SumType DEF SumFunction

\* What flooring leaves over, in whole paise, is no more than the lines that
\* have a fraction, and goes to as many of them.
LEMMA LeftoverFits ==
    ASSUME NEW total \in Nat, NEW value, IsFiniteSet(DOMAIN value), DOMAIN value \subseteq Nat,
           \A i \in DOMAIN value : value[i] \in Nat, SumFunction(value) # 0,
           NEW among \in SUBSET DOMAIN value,
           \A i \in DOMAIN value \ among : Fraction(total, value, i) = 0
    PROVE  LET left == total - SumFunction(Floors(total, value))
           IN  /\ Cardinality(FirstOf(total, value, among, left)) = left
               /\ SumFunction(Floors(total, value)) \in Nat /\ left \in Nat
<1> DEFINE D     == DOMAIN value
           s     == SumFunction(value)
           floor == Floors(total, value)
           part  == [i \in D |-> Fraction(total, value, i)]
           whole == [i \in D |-> s * floor[i]]
           all   == [i \in D |-> total * value[i]]
           f     == SumFunction(floor)
           r     == SumFunctionOnSet(part, among)
           n     == Cardinality(among)
<1>1. s \in Nat /\ s > 0
  BY SumFunctionType
<1>2. \A i \in D : /\ floor[i] \in Nat /\ part[i] \in Nat /\ part[i] <= s - 1
                   /\ all[i] \in Int /\ whole[i] \in Int /\ all[i] = whole[i] + part[i]
  <2>1. ASSUME NEW i \in D
        PROVE  /\ floor[i] \in Nat /\ part[i] \in Nat /\ part[i] <= s - 1
               /\ all[i] \in Int /\ whole[i] \in Int /\ all[i] = whole[i] + part[i]
    <3> DEFINE a == total * value[i]
    <3>1. a \in Nat
      BY ProductType
    <3>2. floor[i] = a \div s /\ part[i] = a % s /\ all[i] = a /\ whole[i] = s * (a \div s)
      BY DEF Floors, Fraction
    <3> HIDE DEF a, s, floor, part, all, whole
    <3>3. a \div s \in Nat /\ a % s \in Nat /\ a % s <= s - 1 /\ a = s * (a \div s) + (a % s)
      BY <1>1, <3>1, Divided
    <3>4. s * (a \div s) \in Int
      BY <1>1, <3>3, ProductType
    <3>5. a \in Int /\ a % s <= s - 1
      BY <3>1, <3>3
    <3> QED BY <3>2, <3>3, <3>4, <3>5, Zenon
  <2> QED BY <2>1
<1>3. DOMAIN floor = D /\ f = SumFunctionOnSet(floor, D) /\ s = SumFunctionOnSet(value, D)
  BY DEF Floors, SumFunction
<1>4. \A i \in D : whole[i] = s * floor[i] /\ all[i] = total * value[i]
  OBVIOUS
<1>5. \A i \in D \ among : part[i] = 0
  OBVIOUS
<1> HIDE DEF floor, part, whole, all, s, f
<1>6. f \in Nat
  BY <1>2, <1>3, SumType
<1>7. total * s = s * f + SumFunctionOnSet(part, D)
  <2>1. SumFunctionOnSet(all, D) = SumFunctionOnSet(whole, D) + SumFunctionOnSet(part, D)
    BY <1>2, SumOfTwo
  <2>2. SumFunctionOnSet(all, D) = total * s
    <3>1. total \in Int /\ \A i \in D : value[i] \in Int /\ all[i] = total * value[i]
      BY <1>4
    <3> QED BY <1>3, <3>1, SumScaled
  <2>3. SumFunctionOnSet(whole, D) = s * f
    <3>1. s \in Int /\ \A i \in D : floor[i] \in Int /\ whole[i] = s * floor[i]
      BY <1>1, <1>2, <1>4
    <3> QED BY <1>3, <3>1, SumScaled
  <2> QED BY <2>1, <2>2, <2>3
<1>8. SumFunctionOnSet(part, D) = r
  <2>1. \A i \in D : part[i] \in Int
    BY <1>2
  <2> QED BY <2>1, <1>5, SumDropsZeros
<1>9. IsFiniteSet(among) /\ n \in Nat
  BY FS_Subset, FS_CardinalityType
<1>10. r \in Nat /\ r <= (s - 1) * n
  <2> DEFINE one  == [i \in among |-> 1]
             most == [i \in among |-> (s - 1) * one[i]]
  <2>1. r \in Nat
    BY <1>2, <1>9, SumType
  <2>2. \A i \in among : one[i] = IF i \in among THEN 1 ELSE 0
    OBVIOUS
  <2>3. \A i \in among : one[i] \in Int /\ most[i] = (s - 1) * one[i] /\ most[i] = s - 1
    BY <1>1
  <2> HIDE DEF one, most
  <2>4. SumFunctionOnSet(one, among) = n
    BY <1>9, <2>2, SumCounts
  <2>5. SumFunctionOnSet(most, among) = (s - 1) * n
    <3>1. s - 1 \in Int
      BY <1>1
    <3> QED BY <1>9, <2>3, <2>4, <3>1, SumScaled
  <2>6. r <= SumFunctionOnSet(most, among)
    <3>1. \A i \in among : part[i] \in Int /\ most[i] \in Int /\ part[i] <= most[i]
      BY <1>1, <1>2, <2>3
    <3> QED BY <1>9, <3>1, SumMonotone
  <2> QED BY <2>1, <2>5, <2>6
<1>11. total - f \in Nat /\ total - f <= n
  <2>1. s * (total - f) = r
    <3>1. s * (total - f) = s * total - s * f /\ s * total = total * s
      BY <1>1, <1>6
    <3>2. s * total \in Int /\ s * f \in Int /\ r \in Int
      BY <1>1, <1>6, <1>10
    <3> QED BY <1>7, <1>8, <3>1, <3>2
  <2>2. total - f \in Int
    BY <1>6
  <2> HIDE DEF n, r
  <2> QED BY <1>1, <1>9, <1>10, <2>1, <2>2, FactorsCompare
<1>12. Cardinality(FirstOf(total, value, among, total - f)) = total - f
  <2> DEFINE before == {p \in among \X among :
                          \/ part[p[1]] > part[p[2]]
                          \/ part[p[1]] = part[p[2]] /\ p[1] < p[2]}
  <2>0. \A i, j \in among :
            <<j, i>> \in before <=> part[j] > part[i] \/ (part[j] = part[i] /\ j < i)
    OBVIOUS
  <2> HIDE DEF before
  <2>1. InStrictOrder(before, among)
    <3>1. \A i \in among : i \in Nat /\ part[i] \in Nat
      BY <1>2
    <3> QED BY <2>0, <3>1 DEF InStrictOrder
  <2>2. FirstOf(total, value, among, total - f) = FirstOnes(before, among, total - f)
    <3>1. \A i \in among : Earlier(before, among, i) =
             {j \in among : \/ Fraction(total, value, j) > Fraction(total, value, i)
                            \/ /\ Fraction(total, value, j) = Fraction(total, value, i)
                               /\ j < i}
      BY <2>0 DEF Earlier, part
    <3> QED BY <3>1 DEF FirstOf, FirstOnes
  <2>3. total - f \in 0 .. Cardinality(among)
    BY <1>9, <1>11
  <2> QED BY <1>9, <2>1, <2>2, <2>3, FirstOnesAreAsMany
<1> QED BY <1>6, <1>11, <1>12 DEF f, floor

\* Floors and a paisa more for each of the lucky ones.
LEMMA FloorsAndLuck ==
    ASSUME NEW D, IsFiniteSet(D), NEW floor, NEW lucky \in SUBSET D, NEW share,
           \A i \in D : floor[i] \in Nat /\ share[i] = floor[i] + (IF i \in lucky THEN 1 ELSE 0)
    PROVE  /\ \A i \in D : share[i] \in Nat
           /\ SumFunctionOnSet(share, D) = SumFunctionOnSet(floor, D) + Cardinality(lucky)
<1> DEFINE one == [i \in D |-> IF i \in lucky THEN 1 ELSE 0]
<1>1. \A i \in D : /\ floor[i] \in Int /\ one[i] \in Int /\ share[i] = floor[i] + one[i]
                   /\ one[i] = IF i \in lucky THEN 1 ELSE 0
  OBVIOUS
<1> HIDE DEF one
<1>2. SumFunctionOnSet(share, D) = SumFunctionOnSet(floor, D) + SumFunctionOnSet(one, D)
  BY <1>1, SumOfTwo
<1>3. SumFunctionOnSet(one, D) = Cardinality(lucky)
  BY <1>1, SumCounts
<1>4. \A i \in D : share[i] \in Nat
  OBVIOUS
<1> QED BY <1>2, <1>3, <1>4

\* No floor exceeds its line, and one that reaches it has left nothing over.
LEMMA FloorsFit ==
    ASSUME NEW total \in Nat, NEW s \in Nat, s > 0, total <= s, NEW v \in Nat
    PROVE  LET q == (total * v) \div s
           IN  q <= v /\ (~(q < v) => (total * v) % s = 0)
<1>1. PICK a, q, r : a = total * v /\ q = a \div s /\ r = a % s
  OBVIOUS
<1>2. a \in Nat
  BY <1>1, ProductType
<1>3. q \in Nat /\ r \in Nat /\ a = s * q + r
  BY <1>1, <1>2, Divided
<1>4. a <= s * v
  BY <1>1
<1>5. s * q \in Nat /\ s * v \in Nat
  BY <1>3, ProductType
<1>6. ASSUME q > v PROVE FALSE
  <2>1. s * (v + 1) <= s * q
    BY <1>3, <1>6
  <2>2. s * (v + 1) = s * v + s
    OBVIOUS
  <2> QED BY <1>3, <1>4, <1>5, <2>1, <2>2
<1>7. ASSUME q = v PROVE r = 0
  BY <1>3, <1>4, <1>5, <1>7
<1>8. q <= v /\ (~(q < v) => r = 0)
  BY <1>3, <1>6, <1>7
<1> QED BY <1>1, <1>8

\* allocateProportionally gives away the whole of a discount that is no more
\* than the lines are worth, to none more than it is worth.
LEMMA ProportionalShares ==
    ASSUME NEW total \in Nat, NEW value, IsFiniteSet(DOMAIN value), DOMAIN value \subseteq Nat,
           \A i \in DOMAIN value : value[i] \in Nat, total <= SumFunction(value)
    PROVE  LET share == allocateProportionally(total, value)
           IN  /\ DOMAIN share = DOMAIN value /\ SumFunction(share) = total
               /\ \A i \in DOMAIN value : share[i] \in 0 .. value[i]
<1> DEFINE D     == DOMAIN value
           s     == SumFunction(value)
           share == allocateProportionally(total, value)
<1>1. s \in Nat
  BY SumFunctionType
<1>2. CASE s = 0 \/ total = 0
  <2>1. total = 0
    BY <1>1, <1>2
  <2>2. share = [i \in D |-> 0]
    BY <1>2 DEF allocateProportionally
  <2>3. DOMAIN share = D /\ \A i \in D : share[i] = 0
    BY <2>2
  <2> HIDE DEF share
  <2>4. SumFunction(share) = 0
    BY <2>3, SumOfZeros DEF SumFunction
  <2>5. \A i \in D : share[i] \in 0 .. value[i]
    BY <2>3
  <2> QED BY <2>1, <2>3, <2>4, <2>5 DEF share
<1>3. CASE s # 0 /\ total # 0
  <2> DEFINE floor == Floors(total, value)
             among == {i \in D : floor[i] < value[i]}
             left  == total - SumFunction(floor)
             lucky == FirstOf(total, value, among, left)
  <2>1. \A i \in D : /\ floor[i] \in Nat /\ floor[i] <= value[i]
                     /\ i \notin among => Fraction(total, value, i) = 0
    <3>1. ASSUME NEW i \in D
          PROVE  /\ floor[i] \in Nat /\ floor[i] <= value[i]
                 /\ i \notin among => Fraction(total, value, i) = 0
      <4>1. s > 0 /\ total * value[i] \in Nat
        BY <1>1, <1>3, ProductType
      <4>2. floor[i] = (total * value[i]) \div s /\ Fraction(total, value, i) = (total * value[i]) % s
        BY DEF Floors, Fraction
      <4>3. (total * value[i]) \div s \in Nat
        BY <1>1, <4>1, Divided
      <4>4. /\ (total * value[i]) \div s <= value[i]
            /\ ~((total * value[i]) \div s < value[i]) => (total * value[i]) % s = 0
        <5> HIDE DEF s
        <5> QED BY <1>1, <4>1, FloorsFit DEF s
      <4> QED BY <4>2, <4>3, <4>4
    <3> QED BY <3>1
  <2>2. among \in SUBSET D /\ \A i \in D \ among : Fraction(total, value, i) = 0
    BY <2>1
  <2>3. Cardinality(lucky) = left /\ SumFunction(floor) \in Nat /\ left \in Nat
    <3> HIDE DEF among
    <3> QED BY <1>3, <2>2, LeftoverFits
  <2>4. lucky \in SUBSET among
    BY DEF FirstOf
  <2>5. share = [i \in D |-> floor[i] + (IF i \in lucky THEN 1 ELSE 0)]
    BY <1>3 DEF allocateProportionally
  <2>6. DOMAIN share = D /\ DOMAIN floor = D
    BY <2>5 DEF Floors
  <2>7. \A i \in D : share[i] = floor[i] + (IF i \in lucky THEN 1 ELSE 0)
    BY <2>5
  <2> HIDE DEF share, lucky, floor
  <2>8. SumFunctionOnSet(share, D) = SumFunctionOnSet(floor, D) + Cardinality(lucky)
    BY <2>1, <2>4, <2>7, FloorsAndLuck
  <2>9. SumFunction(share) = total
    <3>1. SumFunction(share) = SumFunction(floor) + left
      BY <2>3, <2>6, <2>8 DEF SumFunction
    <3> QED BY <2>3, <3>1
  <2>10. \A i \in D : share[i] \in 0 .. value[i]
    <3>1. ASSUME NEW i \in D PROVE share[i] \in 0 .. value[i]
      <4>1. i \in lucky => floor[i] < value[i]
        BY <2>4
      <4> QED BY <2>1, <2>7, <4>1
    <3> QED BY <3>1
  <2> QED BY <2>6, <2>9, <2>10 DEF share
<1> QED BY <1>2, <1>3

\* allocateSetPrice gives away the whole of the set's price.
LEMMA SetPriceShares ==
    ASSUME NEW setPrice \in Nat, NEW prices, IsFiniteSet(DOMAIN prices), DOMAIN prices # {},
           DOMAIN prices \subseteq Nat, \A i \in DOMAIN prices : prices[i] \in Nat
    PROVE  LET share == allocateSetPrice(setPrice, prices)
           IN  /\ DOMAIN share = DOMAIN prices /\ SumFunction(share) = setPrice
               /\ \A i \in DOMAIN prices : share[i] \in Nat
<1> DEFINE D     == DOMAIN prices
           s     == SumFunction(prices)
           share == allocateSetPrice(setPrice, prices)
<1>1. s \in Nat
  BY SumFunctionType
<1>2. CASE s = 0
  <2> DEFINE n     == Cardinality(D)
             k     == setPrice % n
             lucky == {i \in D : Cardinality({j \in D : j < i}) < k}
             floor == [i \in D |-> setPrice \div n]
             equal == [i \in D |-> 1]
  <2>1. n \in Nat /\ n > 0
    BY FS_CardinalityType, FS_EmptySet
  <2>2. setPrice \div n \in Nat /\ k \in Nat /\ k <= n - 1 /\ setPrice = n * (setPrice \div n) + k
    <3> HIDE DEF n
    <3> QED BY <2>1, Divided
  <2>3. Cardinality(lucky) = k
    <3> DEFINE before == {p \in D \X D : p[1] < p[2]}
    <3>1. \A i, j \in D : <<j, i>> \in before <=> j < i
      OBVIOUS
    <3> HIDE DEF before
    <3>2. InStrictOrder(before, D)
      BY <3>1 DEF InStrictOrder
    <3>3. lucky = FirstOnes(before, D, k)
      <4>1. \A i \in D : Earlier(before, D, i) = {j \in D : j < i}
        BY <3>1 DEF Earlier
      <4> HIDE DEF k
      <4> QED BY <4>1 DEF FirstOnes
    <3>4. k \in 0 .. Cardinality(D)
      <4> HIDE DEF k
      <4> QED BY <2>1, <2>2
    <3> HIDE DEF lucky, k
    <3> QED BY <3>2, <3>3, <3>4, FirstOnesAreAsMany
  <2>4. SumFunctionOnSet(floor, D) = (setPrice \div n) * n
    <3>1. \A i \in D : /\ equal[i] = IF i \in D THEN 1 ELSE 0
                       /\ equal[i] \in Int /\ floor[i] = (setPrice \div n) * equal[i]
      BY <2>2
    <3>2. setPrice \div n \in Int
      BY <2>2
    <3> HIDE DEF equal, floor, n
    <3>3. SumFunctionOnSet(equal, D) = n
      BY <3>1, SumCounts DEF n
    <3> QED BY <3>1, <3>2, <3>3, SumScaled
  <2>5. share = [i \in D |-> (setPrice \div n) + (IF i \in lucky THEN 1 ELSE 0)]
    BY <1>2 DEF allocateSetPrice
  <2>6. DOMAIN share = D /\ lucky \in SUBSET D
    BY <2>5
  <2>7. \A i \in D : floor[i] \in Nat /\ share[i] = floor[i] + (IF i \in lucky THEN 1 ELSE 0)
    BY <2>2, <2>5
  <2> HIDE DEF share, lucky, floor, k, n
  <2>8. /\ SumFunctionOnSet(share, D) = SumFunctionOnSet(floor, D) + Cardinality(lucky)
        /\ \A i \in D : share[i] \in Nat
    BY <2>6, <2>7, FloorsAndLuck
  <2>9. SumFunction(share) = setPrice
    <3>1. (setPrice \div n) * n = n * (setPrice \div n)
      BY <2>1, <2>2, ProductType
    <3> QED BY <2>2, <2>3, <2>4, <2>6, <2>8, <3>1 DEF SumFunction
  <2> QED BY <2>6, <2>8, <2>9 DEF share
<1>3. CASE s # 0
  <2> DEFINE floor == Floors(setPrice, prices)
             left  == setPrice - SumFunction(floor)
             lucky == FirstOf(setPrice, prices, D, left)
  <2>1. \A i \in D : floor[i] \in Nat
    <3>1. ASSUME NEW i \in D PROVE floor[i] \in Nat
      <4>1. s > 0 /\ setPrice * prices[i] \in Nat
        BY <1>1, <1>3, ProductType
      <4>2. (setPrice * prices[i]) \div s \in Nat
        BY <1>1, <4>1, Divided
      <4> QED BY <4>2 DEF Floors
    <3> QED BY <3>1
  <2>2. Cardinality(lucky) = left /\ SumFunction(floor) \in Nat /\ left \in Nat
    BY <1>3, LeftoverFits
  <2>3. lucky \in SUBSET D
    BY DEF FirstOf
  <2>4. share = [i \in D |-> floor[i] + (IF i \in lucky THEN 1 ELSE 0)]
    BY <1>3 DEF allocateSetPrice
  <2>5. DOMAIN share = D /\ DOMAIN floor = D
    BY <2>4 DEF Floors
  <2>6. \A i \in D : share[i] = floor[i] + (IF i \in lucky THEN 1 ELSE 0)
    BY <2>4
  <2> HIDE DEF share, lucky, floor
  <2>7. /\ SumFunctionOnSet(share, D) = SumFunctionOnSet(floor, D) + Cardinality(lucky)
        /\ \A i \in D : share[i] \in Nat
    BY <2>1, <2>3, <2>6, FloorsAndLuck
  <2>8. SumFunction(share) = setPrice
    <3>1. SumFunction(share) = SumFunction(floor) + left
      BY <2>2, <2>5, <2>7 DEF SumFunction
    <3> QED BY <2>2, <3>1
  <2> QED BY <2>5, <2>7, <2>8 DEF share
<1> QED BY <1>2, <1>3

-----------------------------------------------------------------------------
(* Quotes: lines and coupons *)

LinesFit(lines) ==
    /\ IsFiniteSet(DOMAIN lines) /\ DOMAIN lines \subseteq Nat
    /\ \A i \in DOMAIN lines : lines[i].unit \in Nat /\ lines[i].quantity \in Nat

\* A discount is what its shares come to, and none exceeds its line.
Allots(with, lines) ==
    /\ with.discount \in Nat /\ with.discount <= Subtotal(lines)
    /\ SumFunction(with.allocation) = with.discount
    /\ \A i \in DOMAIN lines : with.allocation[i] \in 0 .. LineTotal(lines[i])

\* What lines are worth.
LEMMA SubtotalType ==
    ASSUME NEW lines, LinesFit(lines)
    PROVE  /\ \A i \in DOMAIN lines : LineTotal(lines[i]) \in Nat
           /\ Subtotal(lines) \in Nat
<1> DEFINE f == [i \in DOMAIN lines |-> LineTotal(lines[i])]
<1>1. \A i \in DOMAIN lines : LineTotal(lines[i]) \in Nat
  BY ProductType DEF LinesFit, LineTotal
<1>2. IsFiniteSet(DOMAIN f) /\ \A i \in DOMAIN f : f[i] \in Nat
  BY <1>1 DEF LinesFit
<1> HIDE DEF f
<1>3. SumFunction(f) \in Nat
  BY <1>2, SumFunctionType
<1> QED BY <1>1, <1>3 DEF Subtotal, f

\* Math.round of naturals.
LEMMA RoundType ==
    ASSUME NEW a \in Nat, NEW b \in Nat, b > 0
    PROVE  RoundOf(a, b) \in Nat
<1>1. 2 * a + b \in Nat /\ 2 * b \in Nat /\ 2 * b > 0
  OBVIOUS
<1>2. (2 * a + b) \div (2 * b) \in Nat
  BY <1>1, Divided
<1> QED BY <1>2 DEF RoundOf

\* A discount is no more than what its coupon covers is worth.
LEMMA DiscountFits ==
    ASSUME NEW code, code.value \in Nat, code.maxDiscount \in Nat, NEW total \in Nat
    PROVE  Discount(code, total) \in Nat /\ Discount(code, total) <= total
<1> DEFINE off == IF code.type = "PERCENTAGE" THEN RoundOf(total * code.value, 10000)
                  ELSE code.value
           all == {off, code.maxDiscount, total}
<1>1. off \in Nat
  <2>1. total * code.value \in Nat
    BY ProductType
  <2>2. RoundOf(total * code.value, 10000) \in Nat
    BY <2>1, RoundType
  <2> QED BY <2>2
<1> HIDE DEF off
<1>2. IsFiniteSet(all) /\ all # {} /\ all \subseteq Int /\ all \subseteq Nat /\ total \in all
  <2>1. IsFiniteSet({off} \cup {code.maxDiscount})
    BY FS_Singleton, FS_AddElement
  <2> DEFINE two == {off} \cup {code.maxDiscount}
  <2>2. IsFiniteSet(two) /\ all = two \cup {total}
    BY <2>1
  <2> HIDE DEF two, all
  <2>3. IsFiniteSet(all)
    BY <2>2, FS_AddElement
  <2> QED BY <1>1, <2>3 DEF all
<1> HIDE DEF all
<1>3. Min(all) \in all /\ \A y \in all : Min(all) <= y
  BY <1>2, MinOfFinite
<1>4. Discount(code, total) = Min(all)
  BY DEF Discount, all, off
<1> QED BY <1>2, <1>3, <1>4

\* No coupon takes off nothing.
LEMMA NothingIsAllotted ==
    ASSUME NEW lines, LinesFit(lines), NEW with, with.discount = 0,
           with.allocation = [i \in DOMAIN lines |-> 0]
    PROVE  Allots(with, lines)
<1> DEFINE a == [i \in DOMAIN lines |-> 0]
<1>1. IsFiniteSet(DOMAIN lines) /\ DOMAIN a = DOMAIN lines /\ \A i \in DOMAIN lines : a[i] = 0
  BY DEF LinesFit
<1> HIDE DEF a
<1>2. SumFunction(a) = 0
  BY <1>1, SumOfZeros DEF SumFunction
<1>3. \A i \in DOMAIN lines : a[i] \in 0 .. LineTotal(lines[i])
  BY <1>1, SubtotalType
<1>4. 0 <= Subtotal(lines)
  BY SubtotalType
<1> QED BY <1>2, <1>3, <1>4 DEF Allots, a

\* A coupon's discount is shared over the lines it covers, all of it.
LEMMA CouponAllots ==
    ASSUME NEW code, code.value \in Nat, code.maxDiscount \in Nat,
           NEW lines, LinesFit(lines), evaluateCoupon(code, lines) # Null
    PROVE  Allots(evaluateCoupon(code, lines), lines)
<1> DEFINE E == eligibleLines(code, lines)
           D == DOMAIN lines
           value == [i \in E |-> LineTotal(lines[i])]
           total == SumFunction(value)
           off   == Discount(code, total)
           share == allocateProportionally(off, value)
           given_ == [i \in D |-> IF i \in E THEN share[i] ELSE 0]
           with  == evaluateCoupon(code, lines)
<1>1. E \in SUBSET D /\ IsFiniteSet(D) /\ D \subseteq Nat
  BY DEF eligibleLines, LinesFit
<1>2. \A i \in D : LineTotal(lines[i]) \in Nat
  BY SubtotalType
<1>3. IsFiniteSet(E) /\ DOMAIN value = E /\ \A i \in E : value[i] \in Nat /\ value[i] = LineTotal(lines[i])
  <2> HIDE DEF E
  <2> QED BY <1>1, <1>2, FS_Subset
<1> HIDE DEF E, value, total
<1>4. total \in Nat
  BY <1>3, SumFunctionType DEF total
<1>5. off \in Nat /\ off <= total
  BY <1>4, DiscountFits
<1> HIDE DEF off
<1>6. /\ DOMAIN share = E /\ SumFunction(share) = off
      /\ \A i \in E : share[i] \in 0 .. value[i]
  BY <1>1, <1>3, <1>5, ProportionalShares DEF total
<1> HIDE DEF share
<1>7. \A i \in D : given_[i] \in 0 .. LineTotal(lines[i])
  BY <1>1, <1>2, <1>3, <1>6
<1>8. SumFunction(given_) = off
  <2>1. DOMAIN given_ = D /\ (\A i \in D : given_[i] \in Int) /\ \A i \in D \ E : given_[i] = 0
    BY <1>2, <1>7
  <2>2. \A i \in E : given_[i] = share[i]
    BY <1>1
  <2> HIDE DEF given_
  <2>3. SumFunctionOnSet(given_, D) = SumFunctionOnSet(given_, E)
    BY <1>1, <2>1, SumDropsZeros
  <2>4. SumFunctionOnSet(given_, E) = SumFunctionOnSet(share, E)
    BY <1>3, <2>2, SumSame
  <2> QED BY <1>6, <2>1, <2>3, <2>4 DEF SumFunction
<1>9. total <= Subtotal(lines)
  <2> DEFINE all == [i \in D |-> LineTotal(lines[i])]
  <2>1. (\A i \in D : all[i] \in Nat) /\ DOMAIN all = D /\ \A i \in E : all[i] = value[i]
    BY <1>1, <1>2, <1>3
  <2>2. Subtotal(lines) = SumFunctionOnSet(all, D)
    BY DEF Subtotal, SumFunction
  <2> HIDE DEF all
  <2>3. SumFunctionOnSet(all, E) <= SumFunctionOnSet(all, D)
    BY <1>1, <2>1, SumOfPart
  <2>4. SumFunctionOnSet(all, E) = SumFunctionOnSet(value, E)
    BY <1>3, <2>1, SumSame
  <2>5. total = SumFunctionOnSet(value, E)
    BY <1>3 DEF total, SumFunction
  <2> QED BY <2>2, <2>3, <2>4, <2>5
<1>10. CASE code.type = "FREE_SHIPPING"
  <2>1. with.discount = 0 /\ with.allocation = [i \in D |-> 0]
    BY <1>10 DEF evaluateCoupon
  <2> HIDE DEF with
  <2> QED BY <2>1, NothingIsAllotted DEF with
<1>11. CASE code.type # "FREE_SHIPPING"
  <2>1. with.discount = off /\ with.allocation = given_
    BY <1>11 DEF evaluateCoupon, off, share, value, total, E
  <2>2. off <= Subtotal(lines)
    BY <1>4, <1>5, <1>9, SubtotalType
  <2> HIDE DEF with, given_
  <2>3. Allots(with, lines)
    BY <1>5, <1>7, <1>8, <2>1, <2>2 DEF Allots
  <2> QED BY <2>3 DEF with
<1> QED BY <1>10, <1>11

-----------------------------------------------------------------------------
(* Quotes: zones, rates and offers *)

\* Some zone comes first.
LEMMA FirstIsOne ==
    ASSUME NEW zones, NEW zs, IsFiniteSet(zs), zs # {}, \A z \in zs : zones[z].position \in Int
    PROVE  First(zones, zs) \in zs
<1> DEFINE at  == [z \in zs |-> zones[z].position]
           all == {at[z] : z \in zs}
<1>1. IsFiniteSet(all)
  <2> HIDE DEF at
  <2> QED BY ValuesAreFinite
<1>2. all # {} /\ all \subseteq Int /\ \A z \in zs : zones[z].position \in all
  OBVIOUS
<1>3. \A p \in all : \E z \in zs : p = zones[z].position
  OBVIOUS
<1> HIDE DEF all
<1>4. Min(all) \in all /\ \A p \in all : Min(all) <= p
  BY <1>1, <1>2, MinOfFinite
<1>5. PICK z \in zs : \A y \in zs : zones[z].position <= zones[y].position
  BY <1>2, <1>3, <1>4
<1> QED BY <1>5 DEF First

\* An address is delivered to within an active zone.
LEMMA ResolvedIsActive ==
    ASSUME NEW zones \in [DOMAIN Zones -> ZoneRow], NEW where, resolveZone(zones, where) # Null
    PROVE  /\ resolveZone(zones, where) \in DOMAIN Zones
           /\ zones[resolveZone(zones, where)].isActive
<1> DEFINE active    == {z \in DOMAIN zones : zones[z].isActive}
           inCountry == {z \in active : where.country \in zones[z].countries}
           named     == {z \in inCountry : matchesRegion(zones[z], where)}
           whole     == {z \in inCountry : zones[z].regions = {}}
           fallback  == {z \in active : zones[z].isDefault}
           z_        == resolveZone(zones, where)
<1>1. \/ named # {} /\ z_ = First(zones, named)
      \/ whole # {} /\ z_ = First(zones, whole)
      \/ fallback # {} /\ z_ = First(zones, fallback)
  <2>1. z_ = CASE named # {} -> First(zones, named)
               [] named = {} /\ whole # {} -> First(zones, whole)
               [] named = {} /\ whole = {} /\ fallback # {} -> First(zones, fallback)
               [] OTHER -> Null
    BY DEF resolveZone
  <2> HIDE DEF z_, named, whole, fallback
  <2> QED BY <2>1 DEF z_
<1>2. named \subseteq active /\ whole \subseteq active /\ fallback \subseteq active
  OBVIOUS
<1>3. active \subseteq DOMAIN Zones /\ \A z \in active : zones[z].isActive
  OBVIOUS
<1>4. \A zs \in SUBSET DOMAIN Zones : zs # {} => First(zones, zs) \in zs
  <2>1. IsFiniteSet(DOMAIN Zones) /\ \A z \in DOMAIN Zones : zones[z].position \in Int
    BY QuotesAssumption DEF ZoneRow
  <2>2. \A zs \in SUBSET DOMAIN Zones : IsFiniteSet(zs) /\ \A z \in zs : zones[z].position \in Int
    BY <2>1, FS_Subset
  <2> QED BY <2>2, FirstIsOne
<1> HIDE DEF named, whole, fallback, active, z_
<1>5. z_ \in active
  BY <1>1, <1>2, <1>3, <1>4
<1> QED BY <1>3, <1>5 DEF z_

\* Those of S that are least by a, and by b among those.
LeastBy(a, b, S) == {c \in S : \A d \in S : ~(a[d] < a[c] \/ (a[d] = a[c] /\ b[d] < b[c]))}

\* There is one.
LEMMA LeastPair ==
    ASSUME NEW S, IsFiniteSet(S), S # {}, NEW a, NEW b, \A c \in S : a[c] \in Nat /\ b[c] \in Nat
    PROVE  LeastBy(a, b, S) # {}
<1> DEFINE A == {a[c] : c \in S}
           T == {c \in S : a[c] = Min(A)}
           B == {b[c] : c \in T}
<1>1. IsFiniteSet(A) /\ A # {} /\ A \subseteq Int
  BY ValuesAreFinite
<1>2. Min(A) \in A /\ \A y \in A : Min(A) <= y
  <2> HIDE DEF A
  <2> QED BY <1>1, MinOfFinite
<1>3. T # {} /\ T \in SUBSET S
  BY <1>2
<1> HIDE DEF T
<1>4. IsFiniteSet(B) /\ B # {} /\ B \subseteq Int
  <2>1. IsFiniteSet(T)
    BY <1>3, FS_Subset
  <2> QED BY <1>3, <2>1, ValuesAreFinite
<1>5. Min(B) \in B /\ \A y \in B : Min(B) <= y
  <2> HIDE DEF B
  <2> QED BY <1>4, MinOfFinite
<1>6. PICK c \in T : b[c] = Min(B)
  BY <1>5
<1>7. ASSUME NEW d \in S PROVE ~(a[d] < a[c] \/ (a[d] = a[c] /\ b[d] < b[c]))
  <2>1. a[c] = Min(A) /\ a[d] \in A /\ c \in S
    BY <1>6 DEF T
  <2>2. ~(a[d] < a[c])
    <3>1. a[c] <= a[d]
      BY <1>2, <2>1
    <3> QED BY <2>1, <3>1
  <2>3. ASSUME a[d] = a[c] PROVE b[c] <= b[d]
    <3>1. d \in T
      BY <2>1, <2>3 DEF T
    <3> QED BY <3>1, <1>5, <1>6
  <2> QED BY <2>1, <2>2, <2>3
<1> QED BY <1>3, <1>6, <1>7 DEF LeastBy

Courier == [rate : Nat, days : Nat]
Offer   == [cost : Nat, waived : BOOLEAN, codFee : Nat]

\* The carrier's rates are amounts, the cheapest always among them.
LEMMA QuotedRates ==
    ASSUME NEW cs, IsFiniteSet(cs), cs # {}, cs \subseteq Courier
    PROVE  /\ "cheapest" \in DOMAIN quoteRates(cs)
           /\ \A rule \in DOMAIN quoteRates(cs) : quoteRates(cs)[rule] \in Nat
<1> DEFINE cheapest == CHOOSE c \in cs : \A d \in cs : ~Cheaper(d, c)
           fastest  == CHOOSE c \in cs : \A d \in cs : ~Faster(d, c)
           rate     == [c \in cs |-> c.rate]
           days     == [c \in cs |-> c.days]
           rules    == IF cheapest = fastest THEN {"cheapest"} ELSE {"cheapest", "fastest"}
<1>1. \A c \in cs : rate[c] = c.rate /\ days[c] = c.days /\ c.rate \in Nat /\ c.days \in Nat
  BY DEF Courier
<1> HIDE DEF rate, days
<1>2. \A c \in cs : rate[c] \in Nat /\ days[c] \in Nat
  BY <1>1
<1>3. LeastBy(rate, days, cs) # {} /\ LeastBy(days, rate, cs) # {}
  BY <1>2, LeastPair
<1>7. \E c \in cs : \A d \in cs : ~Cheaper(d, c)
  BY <1>1, <1>3 DEF Cheaper, LeastBy
<1>8. \E c \in cs : \A d \in cs : ~Faster(d, c)
  BY <1>1, <1>3 DEF Faster, LeastBy
<1>4. cheapest \in cs /\ fastest \in cs
  BY <1>7, <1>8
<1>5. quoteRates(cs) = [rule \in rules |-> IF rule = "cheapest" THEN cheapest.rate ELSE fastest.rate]
  BY DEF quoteRates
<1>6. cheapest.rate \in Nat /\ fastest.rate \in Nat
  BY <1>1, <1>4
<1> HIDE DEF cheapest, fastest
<1> QED BY <1>5, <1>6

\* The couriers an address gets.
LEMMA AskedType ==
    ASSUME NEW c \in Couriers, NEW where
    PROVE  Asked(c, where) \in {Down, {}} \/ (IsFiniteSet(Asked(c, where)) /\ Asked(c, where) \subseteq Courier)
BY QuotesAssumption DEF Asked, Courier

\* What a method costs is an amount.
LEMMA PricedType ==
    ASSUME NEW m \in MethodRow, NEW p, NEW cs,
           cs \in {Down, {}} \/ (IsFiniteSet(cs) /\ cs \subseteq Courier)
    PROVE  Priced(m, p, cs) \in Offer
<1>1. resolveRate(m, p.weight, p.subtotal) \in Nat
  <2> DEFINE bands == {i \in DOMAIN m.bands : Covers(m.bands[i], p.weight, p.subtotal)}
  <2>1. m.rate \in Nat /\ m.bands \in Seq(BandRow)
    BY DEF MethodRow
  <2>2. CASE bands = {}
    BY <2>1, <2>2 DEF resolveRate
  <2>3. CASE bands # {}
    <3>1. bands \in SUBSET (1 .. Len(m.bands)) /\ IsFiniteSet(1 .. Len(m.bands))
      <4>1. Len(m.bands) \in Int /\ DOMAIN m.bands = 1 .. Len(m.bands)
        BY <2>1
      <4> QED BY <4>1, FS_Interval
    <3> HIDE DEF bands
    <3>2. IsFiniteSet(bands) /\ bands \subseteq Int
      <4>1. IsFiniteSet(bands)
        BY <3>1, FS_Subset
      <4>2. 1 .. Len(m.bands) \subseteq Int
        OBVIOUS
      <4> QED BY <3>1, <4>1, <4>2
    <3>3. Min(bands) \in bands
      BY <2>3, <3>2, MinOfFinite
    <3>4. m.bands[Min(bands)] \in BandRow
      <4>1. Min(bands) \in 1 .. Len(m.bands)
        BY <3>1, <3>3
      <4>2. \A i \in 1 .. Len(m.bands) : m.bands[i] \in BandRow
        BY <2>1
      <4> QED BY <4>1, <4>2
    <3> QED BY <2>3, <3>4 DEF resolveRate, bands, BandRow
  <2> QED BY <2>2, <2>3
<1> DEFINE o == priceMethod(m, p)
<1>2. o \in Offer
  BY <1>1 DEF priceMethod, Offer, MethodRow
<1>3. CASE m.carrierRule = Null \/ cs \in {Down, {}}
  BY <1>2, <1>3 DEF Priced, applyCarrierRates
<1>4. CASE ~(m.carrierRule = Null \/ cs \in {Down, {}})
  <2> DEFINE rates == quoteRates(cs)
             rate  == rates[IF m.carrierRule \in DOMAIN rates THEN m.carrierRule ELSE "cheapest"]
  <2>1. rate \in Nat
    BY <1>4, QuotedRates
  <2>2. Priced(m, p, cs) = [o EXCEPT !.cost = IF o.waived THEN 0 ELSE rate]
    BY <1>4 DEF Priced, applyCarrierRates
  <2> HIDE DEF o, rate
  <2> QED BY <1>2, <2>1, <2>2 DEF Offer
<1> QED BY <1>3, <1>4

\* An offer is never nothing.
LEMMA OfferIsSomething == Null \notin Offer
BY QuotesAssumption DEF Offer

\* What is offered is priced the same when it is chosen.
LEMMA OfferedIsPriced ==
    ASSUME NEW zones \in [DOMAIN Zones -> ZoneRow], NEW methods \in [DOMAIN Methods -> MethodRow],
           NEW where, NEW p, NEW cs \in Couriers,
           NEW m \in DOMAIN quoteShipping(zones, methods, where, p, cs)
    PROVE  /\ m \in DOMAIN Methods /\ m # Null
           /\ priceChosenMethod(zones, methods, m, where, p, cs) # Null
           /\ priceChosenMethod(zones, methods, m, where, p, cs)
                 = quoteShipping(zones, methods, where, p, cs)[m]
<1> DEFINE z == resolveZone(zones, where)
           a == Asked(cs, where)
<1>1. /\ m \in ActiveIn(methods, z) /\ z # Null /\ zones[z].isServiceable
      /\ methodApplies(methods[m], p)
      /\ ~Unserved({methods[k] : k \in ActiveIn(methods, z)}, a)
      /\ quoteShipping(zones, methods, where, p, cs)[m] = Priced(methods[m], p, a)
  BY DEF quoteShipping
<1>2. m \in DOMAIN Methods /\ methods[m].isActive /\ z = methods[m].zone /\ methods[m] \in MethodRow
  BY <1>1 DEF ActiveIn
<1>3. zones[z].isActive
  BY <1>1, ResolvedIsActive
<1>4. ~Unserved({methods[m]}, a)
  BY <1>1 DEF Unserved
<1>5. priceChosenMethod(zones, methods, m, where, p, cs) = Priced(methods[m], p, a)
  BY <1>1, <1>2, <1>3, <1>4 DEF priceChosenMethod
<1>6. Priced(methods[m], p, a) \in Offer
  BY <1>2, AskedType, PricedType
<1>7. m # Null
  BY <1>2, QuotesAssumption
<1> QED BY <1>1, <1>2, <1>5, <1>6, <1>7, OfferIsSomething

-----------------------------------------------------------------------------
(* Quotes: the set in the bag *)

BagLine ==
    [product : DOMAIN Product, part : {Null} \cup PartRow, unit : {Null} \cup Nat,
     set : {Null} \cup SetRow, quantity : Nat \ {0}]

\* The lines of a bag that are the set's, and what they say of each other: they
\* are no more than its pieces, and all of them cost what the set does.
OfSet(b)     == {i \in DOMAIN b : b[i].set # Null}
UnitsIn(b)   == [i \in DOMAIN b |-> b[i].unit]
SetShared(b) ==
    /\ \A i \in OfSet(b) : b[i].unit \in Nat
    /\ Cardinality(OfSet(b)) <= Len(Pieces)
    /\ Cardinality(OfSet(b)) = Len(Pieces) =>
          \A i \in OfSet(b) : b[i].set.price = SumFunctionOnSet(UnitsIn(b), OfSet(b))

\* A set has as many lines as can be counted.
LEMMA OfSetIsFinite ==
    ASSUME NEW b \in Seq(BagLine)
    PROVE  IsFiniteSet(OfSet(b)) /\ Cardinality(OfSet(b)) \in Nat /\ OfSet(b) \subseteq DOMAIN b
<1>1. DOMAIN b = 1 .. Len(b) /\ Len(b) \in Int
  OBVIOUS
<1>2. IsFiniteSet(DOMAIN b)
  BY <1>1, FS_Interval
<1>3. OfSet(b) \in SUBSET DOMAIN b
  BY DEF OfSet
<1> QED BY <1>2, <1>3, FS_Subset, FS_CardinalityType

\* The lines of the set, each the one of its own of some pieces.
LEMMA SetOfPieces ==
    ASSUME NEW c \in Seq(BagLine), NEW T, IsFiniteSet(T), NEW at, Renames(at, OfSet(c), T),
           NEW unit, \A i \in T : unit[i] \in Nat, \A i \in OfSet(c) : c[i].unit = unit[at[i]]
    PROVE  /\ Cardinality(OfSet(c)) = Cardinality(T)
           /\ SumFunctionOnSet(UnitsIn(c), OfSet(c)) = SumFunctionOnSet(unit, T)
           /\ \A i \in OfSet(c) : at[i] \in T /\ c[i].unit \in Nat
<1> DEFINE C == OfSet(c)
<1>1. IsFiniteSet(C)
  BY OfSetIsFinite
<1>2. \A i \in C : UnitsIn(c)[i] = unit[at[i]]
  BY DEF UnitsIn, OfSet
<1>3. \A i \in T : unit[i] \in Int
  OBVIOUS
<1>4. \A i \in C : at[i] \in T /\ c[i].unit \in Nat
  BY DEF Renames
<1> HIDE DEF C
<1>5. Renames(at, C, T)
  BY DEF C
<1>6. SumFunctionOnSet(UnitsIn(c), C) = SumFunctionOnSet(unit, T)
  BY <1>1, <1>2, <1>3, <1>5, SumReindexed
<1>7. Cardinality(C) = Cardinality(T)
  BY <1>1, <1>5, RenamedAreAsMany
<1> QED BY <1>4, <1>6, <1>7 DEF C

\* A bag whose set has the lines that another's had, perhaps at other places.
LEMMA SameSet ==
    ASSUME NEW b \in Seq(BagLine), NEW c \in Seq(BagLine), NEW s, SetShared(b),
           Renames(s, OfSet(c), OfSet(b)),
           \A i \in OfSet(c) : c[i].unit = b[s[i]].unit /\ c[i].set = b[s[i]].set
    PROVE  SetShared(c)
<1> DEFINE B == OfSet(b)
           C == OfSet(c)
<1>1. \A i \in B : UnitsIn(b)[i] = b[i].unit /\ b[i].unit \in Nat
  BY DEF UnitsIn, SetShared, OfSet
<1>2. /\ Cardinality(C) = Cardinality(B)
      /\ SumFunctionOnSet(UnitsIn(c), C) = SumFunctionOnSet(UnitsIn(b), B)
      /\ \A i \in C : s[i] \in B /\ c[i].unit \in Nat
  <2>1. IsFiniteSet(B) /\ \A i \in B : UnitsIn(b)[i] \in Nat
    BY <1>1, OfSetIsFinite
  <2>2. \A i \in C : c[i].unit = UnitsIn(b)[s[i]]
    BY <1>1 DEF Renames
  <2> QED BY <2>1, <2>2, SetOfPieces
<1> QED BY <1>2 DEF SetShared

\* Its lines where they were.
LEMMA SetStays ==
    ASSUME NEW b \in Seq(BagLine), NEW c \in Seq(BagLine), SetShared(b), OfSet(c) = OfSet(b),
           \A i \in OfSet(b) : c[i].unit = b[i].unit /\ c[i].set = b[i].set
    PROVE  SetShared(c)
<1> DEFINE s == [i \in OfSet(b) |-> i]
<1>1. Renames(s, OfSet(c), OfSet(b))
  BY DEF Renames
<1>2. \A i \in OfSet(c) : c[i].unit = b[s[i]].unit /\ c[i].set = b[s[i]].set
  OBVIOUS
<1> HIDE DEF s
<1> QED BY <1>1, <1>2, SameSet

\* No lines, and lines bought on their own.
LEMMA NoSet ==
    ASSUME NEW b, \A i \in DOMAIN b : b[i].set = Null
    PROVE  SetShared(b)
<1>1. OfSet(b) = {}
  BY DEF OfSet
<1>2. Cardinality(OfSet(b)) = 0 /\ 0 <= Len(Pieces)
  BY <1>1, FS_EmptySet, QuotesAssumption
<1> QED BY <1>1, <1>2 DEF SetShared

\* A line bought on its own is added.
LEMMA OneMoreLine ==
    ASSUME NEW b \in Seq(BagLine), SetShared(b), NEW l \in BagLine, l.set = Null
    PROVE  Append(b, l) \in Seq(BagLine) /\ SetShared(Append(b, l))
<1> DEFINE c == Append(b, l)
<1>1. c \in Seq(BagLine) /\ DOMAIN c = DOMAIN b \cup {Len(b) + 1} /\ c[Len(b) + 1] = l
      /\ \A i \in DOMAIN b : c[i] = b[i]
  OBVIOUS
<1> HIDE DEF c
<1>2. OfSet(c) = OfSet(b) /\ \A i \in OfSet(b) : c[i] = b[i]
  BY <1>1 DEF OfSet
<1> QED BY <1>1, <1>2, SetStays DEF c

\* A line's quantity is changed.
LEMMA OtherQuantity ==
    ASSUME NEW b \in Seq(BagLine), SetShared(b), NEW i \in DOMAIN b, NEW q \in Nat \ {0}
    PROVE  LET c == [b EXCEPT ![i].quantity = q]
           IN  c \in Seq(BagLine) /\ SetShared(c)
<1> DEFINE c == [b EXCEPT ![i].quantity = q]
<1>1. [b[i] EXCEPT !.quantity = q] \in BagLine
  <2>1. b[i] \in BagLine
    OBVIOUS
  <2> QED BY <2>1 DEF BagLine
<1>2. c \in Seq(BagLine) /\ DOMAIN c = DOMAIN b
  BY <1>1
<1>3. \A j \in DOMAIN b : c[j].unit = b[j].unit /\ c[j].set = b[j].set
  <2>1. \A j \in DOMAIN b : c[j] = IF j = i THEN [b[i] EXCEPT !.quantity = q] ELSE b[j]
    OBVIOUS
  <2>2. b[i] \in BagLine
    OBVIOUS
  <2> HIDE DEF c
  <2> QED BY <2>1, <2>2 DEF BagLine
<1> HIDE DEF c
<1>4. OfSet(c) = OfSet(b)
  BY <1>2, <1>3 DEF OfSet
<1>5. \A j \in OfSet(b) : c[j].unit = b[j].unit /\ c[j].set = b[j].set
  BY <1>3 DEF OfSet
<1>6. SetShared(c)
  BY <1>2, <1>4, <1>5, SetStays
<1> QED BY <1>2, <1>6 DEF c

\* Where the lines were before one was removed.
LEMMA RemovedAt ==
    ASSUME NEW b \in Seq(BagLine), NEW i \in DOMAIN b
    PROVE  LET c == RemoveAt(b, i)
           IN  /\ c \in Seq(BagLine) /\ DOMAIN c = 1 .. Len(b) - 1
               /\ \A j \in DOMAIN c : c[j] = b[IF j < i THEN j ELSE j + 1]
<1> DEFINE u == SubSeq(b, 1, i - 1)
           v == SubSeq(b, i + 1, Len(b))
           c == u \o v
<1>0. Len(b) \in Nat /\ i \in 1 .. Len(b)
  OBVIOUS
<1>1. /\ u \in Seq(BagLine) /\ Len(u) = i - 1 /\ \A j \in 1 .. i - 1 : u[j] = b[j]
  BY <1>0
<1>2. /\ v \in Seq(BagLine) /\ Len(v) = Len(b) - i
      /\ \A j \in 1 .. Len(b) - i : v[j] = b[i + j]
  <2>1. Len(v) = Len(b) - i
    BY <1>0
  <2>2. v \in Seq(BagLine)
    BY <1>0
  <2>3. \A j \in 1 .. Len(b) - i : v[j] = b[i + 1 + j - 1]
    BY <1>0
  <2>4. \A j \in 1 .. Len(b) - i : i + 1 + j - 1 = i + j
    BY <1>0
  <2> QED BY <2>1, <2>2, <2>3, <2>4
<1> HIDE DEF u, v
<1>3. c \in Seq(BagLine) /\ Len(c) = Len(b) - 1 /\ DOMAIN c = 1 .. Len(b) - 1
  BY <1>0, <1>1, <1>2
<1>4. \A j \in DOMAIN c : c[j] = IF j <= Len(u) THEN u[j] ELSE v[j - Len(u)]
  BY <1>1, <1>2
<1>5. ASSUME NEW j \in DOMAIN c PROVE c[j] = b[IF j < i THEN j ELSE j + 1]
  <2>1. j \in 1 .. Len(b) - 1
    BY <1>3
  <2>2. CASE j < i
    <3>1. j \in 1 .. i - 1 /\ j <= Len(u)
      BY <1>0, <1>1, <2>1, <2>2
    <3> QED BY <1>1, <1>4, <2>2, <3>1
  <2>3. CASE ~(j < i)
    <3>1. ~(j <= Len(u)) /\ j - Len(u) = j - (i - 1) /\ j - (i - 1) \in 1 .. Len(b) - i
          /\ i + (j - (i - 1)) = j + 1
      BY <1>0, <1>1, <2>1, <2>3
    <3>2. c[j] = v[j - (i - 1)]
      BY <1>4, <3>1
    <3>3. v[j - (i - 1)] = b[j + 1]
      BY <1>2, <3>1
    <3> QED BY <2>3, <3>2, <3>3
  <2> QED BY <2>2, <2>3
<1>6. RemoveAt(b, i) = c
  BY DEF RemoveAt, u, v
<1> HIDE DEF c
<1> QED BY <1>3, <1>5, <1>6

\* A line is removed: the set's pieces that stay are fewer than all.
LEMMA OneLineLess ==
    ASSUME NEW b \in Seq(BagLine), SetShared(b), NEW i \in DOMAIN b
    PROVE  RemoveAt(b, i) \in Seq(BagLine) /\ SetShared(RemoveAt(b, i))
<1> DEFINE c == RemoveAt(b, i)
           s == [j \in DOMAIN c |-> IF j < i THEN j ELSE j + 1]
           C == OfSet(c)
           B == OfSet(b)
<1>1. /\ c \in Seq(BagLine) /\ DOMAIN c = 1 .. Len(b) - 1
      /\ \A j \in DOMAIN c : c[j] = b[s[j]]
  BY RemovedAt
<1>2. Len(b) \in Nat /\ DOMAIN b = 1 .. Len(b) /\ i \in 1 .. Len(b)
  OBVIOUS
<1>3. \A j \in DOMAIN c : s[j] = IF j < i THEN j ELSE j + 1
  OBVIOUS
<1> HIDE DEF c, s
<1>4. /\ \A j \in DOMAIN c : s[j] \in DOMAIN b \ {i}
      /\ \A j, k \in DOMAIN c : s[j] = s[k] => j = k
      /\ \A y \in DOMAIN b \ {i} : \E j \in DOMAIN c : s[j] = y
  <2>1. \A j \in DOMAIN c : s[j] \in DOMAIN b \ {i}
    BY <1>1, <1>2, <1>3
  <2>2. \A j, k \in DOMAIN c : s[j] = s[k] => j = k
    BY <1>1, <1>2, <1>3
  <2>3. ASSUME NEW y \in DOMAIN b \ {i} PROVE \E j \in DOMAIN c : s[j] = y
    <3>1. CASE y < i
      <4>1. y \in DOMAIN c /\ s[y] = y
        BY <1>1, <1>2, <1>3, <3>1
      <4> QED BY <4>1
    <3>2. CASE ~(y < i)
      <4>1. y - 1 \in DOMAIN c /\ s[y - 1] = y
        BY <1>1, <1>2, <1>3, <3>2
      <4> QED BY <4>1
    <3> QED BY <3>1, <3>2
  <2> QED BY <2>1, <2>2, <2>3
<1>5. Renames(s, C, B \ {i})
  BY <1>1, <1>4 DEF Renames, OfSet
<1>6. \A j \in C : c[j] = b[s[j]]
  BY <1>1 DEF OfSet
<1>7. CASE i \notin B
  <2>1. B \ {i} = B
    BY <1>7
  <2>2. Renames(s, C, B)
    BY <1>5, <2>1
  <2>3. SetShared(c)
    BY <1>1, <1>6, <2>2, SameSet
  <2> QED BY <1>1, <2>3 DEF c
<1>8. CASE i \in B
  <2>1. IsFiniteSet(B) /\ IsFiniteSet(C) /\ Cardinality(B) \in Nat
    BY <1>1, OfSetIsFinite
  <2>2. Cardinality(B \ {i}) = Cardinality(B) - 1
    BY <1>8, <2>1, FS_RemoveElement
  <2>3. Cardinality(C) = Cardinality(B \ {i})
    BY <1>5, <2>1, RenamedAreAsMany
  <2>4. Cardinality(C) < Len(Pieces) /\ Cardinality(C) \in Nat
    <3>1. Cardinality(B) <= Len(Pieces) /\ Len(Pieces) \in Nat
      BY QuotesAssumption DEF SetShared
    <3>2. Cardinality(C) \in Nat
      BY <2>1, FS_CardinalityType
    <3> HIDE DEF B, C
    <3> QED BY <2>1, <2>2, <2>3, <3>1, <3>2
  <2>5. \A j \in C : c[j].unit \in Nat
    <3>1. \A j \in C : s[j] \in B
      BY <1>5 DEF Renames
    <3> QED BY <1>6, <3>1 DEF SetShared
  <2>6. SetShared(c)
    <3>1. Len(Pieces) \in Nat
      BY QuotesAssumption
    <3> QED BY <2>4, <2>5, <3>1 DEF SetShared
  <2> QED BY <1>1, <2>6 DEF c
<1> QED BY <1>7, <1>8

\* Where the lines of a bag are once others follow them.
LEMMA Joined ==
    ASSUME NEW S, NEW b \in Seq(S), NEW d \in Seq(S)
    PROVE  LET c == b \o d
               n == Len(d)
           IN  /\ c \in Seq(S) /\ DOMAIN c = 1 .. Len(b) + n /\ Len(b) \in Nat /\ DOMAIN b = 1 .. Len(b)
               /\ \A i \in 1 .. Len(b) : c[i] = b[i]
               /\ \A i \in Len(b) + 1 .. Len(b) + n : i - Len(b) \in 1 .. n /\ c[i] = d[i - Len(b)]
<1> DEFINE c == b \o d
<1>1. Len(b) \in Nat /\ DOMAIN b = 1 .. Len(b) /\ Len(d) \in Nat
  OBVIOUS
<1>2. c \in Seq(S)
  OBVIOUS
<1>3. Len(c) = Len(b) + Len(d)
  OBVIOUS
<1>4. DOMAIN c = 1 .. Len(b) + Len(d)
  BY <1>2, <1>3
<1>5. \A i \in 1 .. Len(b) : c[i] = b[i]
  BY <1>1
<1>6. \A i \in Len(b) + 1 .. Len(b) + Len(d) : i - Len(b) \in 1 .. Len(d)
  BY <1>1
<1>7. \A i \in Len(b) + 1 .. Len(b) + Len(d) : c[i] = d[i - Len(b)]
  BY <1>1
<1> QED BY <1>1, <1>2, <1>4, <1>5, <1>6, <1>7

\* A line of a set is one of a bag.
LEMMA SetLine ==
    ASSUME NEW p \in DOMAIN Product, NEW u \in Nat, NEW set \in SetRow
    PROVE  LET l == Line(p, Null, u, set)
           IN  l \in BagLine /\ l.set = set /\ l.unit = u
BY DEF Line, BagLine

\* Pieces are not taken twice.
LEMMA TakenOfPieces ==
    ASSUME NEW taken \in SUBSET DOMAIN Pieces
    PROVE  /\ IsFiniteSet(taken) /\ Cardinality(taken) \in Nat /\ Cardinality(taken) <= Len(Pieces)
           /\ Cardinality(taken) = Len(Pieces) => taken = DOMAIN Pieces
<1>1. Len(Pieces) \in Nat /\ DOMAIN Pieces = 1 .. Len(Pieces)
  BY QuotesAssumption
<1>2. IsFiniteSet(DOMAIN Pieces) /\ Cardinality(DOMAIN Pieces) = Len(Pieces)
  <2>1. 1 \in Int /\ Len(Pieces) \in Int
    BY <1>1
  <2>2. /\ IsFiniteSet(1 .. Len(Pieces))
        /\ Cardinality(1 .. Len(Pieces)) = IF 1 > Len(Pieces) THEN 0 ELSE Len(Pieces) - 1 + 1
    BY <2>1, FS_Interval
  <2> QED BY <1>1, <2>1, <2>2
<1> QED BY <1>1, <1>2, FS_Subset, FS_CardinalityType

\* What the pieces taken of a set cost: shares that are its price if they are
\* all of it.
SharesOf(taken, share, setPrice) ==
    /\ IsFiniteSet(taken) /\ Cardinality(taken) <= Len(Pieces)
    /\ \A i \in taken : share[i] \in Nat
    /\ Cardinality(taken) = Len(Pieces) => SumFunctionOnSet(share, taken) = setPrice

\* resolveSetSelection gives those shares.
LEMMA SharesOfTaken ==
    ASSUME NEW prices \in [DOMAIN Pieces -> Nat], NEW setPrice \in Nat,
           NEW taken \in SUBSET DOMAIN Pieces, taken # {}
    PROVE  SharesOf(taken, resolveSetSelection(setPrice, prices, taken), setPrice)
<1> DEFINE share == resolveSetSelection(setPrice, prices, taken)
<1>1. /\ IsFiniteSet(taken) /\ Cardinality(taken) <= Len(Pieces)
      /\ Cardinality(taken) = Len(Pieces) => taken = DOMAIN Pieces
  BY TakenOfPieces
<1>2. CASE taken = DOMAIN Pieces
  <2>1. share = allocateSetPrice(setPrice, prices)
    BY <1>2 DEF resolveSetSelection
  <2>2. /\ DOMAIN share = DOMAIN prices /\ SumFunction(share) = setPrice
        /\ \A i \in DOMAIN prices : share[i] \in Nat
    <3>1. DOMAIN Pieces \subseteq Nat
      BY QuotesAssumption
    <3>2. /\ DOMAIN prices = DOMAIN Pieces /\ DOMAIN prices # {} /\ DOMAIN prices \subseteq Nat
          /\ IsFiniteSet(DOMAIN prices) /\ \A i \in DOMAIN prices : prices[i] \in Nat
      BY <1>1, <1>2, <3>1
    <3> QED BY <2>1, <3>2, SetPriceShares
  <2> QED BY <1>1, <1>2, <2>2 DEF SumFunction, SharesOf
<1>3. CASE taken # DOMAIN Pieces
  <2>1. share = [i \in taken |-> prices[i]]
    BY <1>3 DEF resolveSetSelection
  <2> QED BY <1>1, <1>3, <2>1 DEF SharesOf
<1> QED BY <1>2, <1>3

\* The set's lines of a bag are one for each of those pieces, at its share.
LinesOf(c, at, taken, share, setPrice) ==
    /\ Renames(at, OfSet(c), taken)
    /\ \A i \in OfSet(c) : c[i].unit = share[at[i]] /\ c[i].set.price = setPrice

\* Such lines share what the set costs.
LEMMA SetOfTaken ==
    ASSUME NEW c \in Seq(BagLine), NEW taken, NEW at, NEW share, NEW setPrice,
           SharesOf(taken, share, setPrice), LinesOf(c, at, taken, share, setPrice)
    PROVE  SetShared(c)
<1>1. /\ Cardinality(OfSet(c)) = Cardinality(taken)
      /\ SumFunctionOnSet(UnitsIn(c), OfSet(c)) = SumFunctionOnSet(share, taken)
      /\ \A i \in OfSet(c) : at[i] \in taken /\ c[i].unit \in Nat
  BY SetOfPieces DEF SharesOf, LinesOf
<1> QED BY <1>1 DEF SetShared, SharesOf, LinesOf

\* Lines that are, in the order of the pieces taken, one for each at its share.
SetLines(new, s, taken, share, row) ==
    /\ new \in Seq(BagLine) /\ Len(new) = Cardinality(taken)
    /\ DOMAIN s = 1 .. Cardinality(taken) /\ InOrder(s, taken)
    /\ \A k \in 1 .. Cardinality(taken) : new[k].set = row /\ new[k].unit = share[s[k]]

\* What POST /cart/sets adds: a line for each piece taken, at its share.
LEMMA SetAdded ==
    ASSUME NEW b \in Seq(BagLine), \A i \in DOMAIN b : b[i].set = Null,
           NEW row, row # Null, NEW taken \in SUBSET DOMAIN Pieces,
           NEW share, SharesOf(taken, share, row.price),
           NEW new, NEW s, SetLines(new, s, taken, share, row)
    PROVE  b \o new \in Seq(BagLine) /\ SetShared(b \o new)
<1> DEFINE n    == Cardinality(taken)
           full == b \o new
           C    == OfSet(full)
           at   == [i \in C |-> s[i - Len(b)]]
<1>1. \A i \in taken : i \in Int
  BY QuotesAssumption
<1>2. n \in Nat
  BY TakenOfPieces
<1>3. /\ DOMAIN s = 1 .. n /\ \A k \in 1 .. n : s[k] \in taken
      /\ \A j, k \in 1 .. n : s[j] = s[k] => j = k
      /\ \A y \in taken : \E k \in 1 .. n : s[k] = y
  <2>1. DOMAIN s = 1 .. n /\ \A k \in 1 .. n : s[k] \in taken
    BY DEF SetLines, InOrder, Range
  <2>2. \A j, k \in 1 .. n : j < k => s[j] < s[k]
    BY <2>1 DEF SetLines, InOrder
  <2>3. \A k \in 1 .. n : s[k] \in Int
    BY <1>1, <2>1
  <2>4. \A j, k \in 1 .. n : s[j] = s[k] => j = k
    <3>1. \A k \in 1 .. n : k \in Int
      OBVIOUS
    <3> HIDE DEF n
    <3> QED BY <2>2, <2>3, <3>1
  <2>5. \A y \in taken : \E k \in 1 .. n : s[k] = y
    BY <2>1 DEF SetLines, InOrder, Range
  <2> QED BY <2>1, <2>4, <2>5
<1>4. /\ new \in Seq(BagLine) /\ Len(new) = n
      /\ \A k \in 1 .. n : new[k].set = row /\ new[k].unit = share[s[k]]
  BY DEF SetLines
<1> HIDE DEF n
<1>8. /\ full \in Seq(BagLine) /\ DOMAIN full = 1 .. Len(b) + n /\ Len(b) \in Nat /\ DOMAIN b = 1 .. Len(b)
      /\ \A i \in 1 .. Len(b) : full[i] = b[i]
      /\ \A i \in Len(b) + 1 .. Len(b) + n : i - Len(b) \in 1 .. n /\ full[i] = new[i - Len(b)]
  <2>1. new \in Seq(BagLine) /\ Len(new) = n
    BY <1>4
  <2>2. /\ full \in Seq(BagLine) /\ DOMAIN full = 1 .. Len(b) + Len(new)
        /\ Len(b) \in Nat /\ DOMAIN b = 1 .. Len(b)
        /\ \A i \in 1 .. Len(b) : full[i] = b[i]
        /\ \A i \in Len(b) + 1 .. Len(b) + Len(new) :
              i - Len(b) \in 1 .. Len(new) /\ full[i] = new[i - Len(b)]
    BY <2>1, Joined
  <2> QED BY <2>1, <2>2
<1> HIDE DEF full
<1>9. C = Len(b) + 1 .. Len(b) + n
  <2>1. \A i \in DOMAIN full : i \in 1 .. Len(b) \/ i \in Len(b) + 1 .. Len(b) + n
    BY <1>2, <1>8
  <2>2. \A i \in 1 .. Len(b) : full[i].set = Null
    BY <1>8
  <2>3. \A i \in Len(b) + 1 .. Len(b) + n : full[i].set # Null /\ i \in DOMAIN full
    BY <1>2, <1>4, <1>8
  <2> QED BY <2>1, <2>2, <2>3 DEF OfSet
<1> HIDE DEF C
<1>10. \A i \in C : at[i] = s[i - Len(b)] /\ full[i].set = row /\ full[i].unit = share[at[i]] /\ i - Len(b) \in 1 .. n
  BY <1>4, <1>8, <1>9
<1> HIDE DEF at
<1>11. Renames(at, C, taken)
  <2>1. \A i \in C : at[i] \in taken
    BY <1>3, <1>10
  <2>2. \A i, j \in C : at[i] = at[j] => i = j
    <3>1. \A i, j \in C : at[i] = at[j] => i - Len(b) = j - Len(b)
      BY <1>3, <1>10
    <3>2. \A i \in C : i \in Int
      BY <1>9
    <3> QED BY <1>8, <3>1, <3>2
  <2>3. ASSUME NEW y \in taken PROVE \E i \in C : at[i] = y
    <3>1. PICK k \in 1 .. n : s[k] = y
      BY <1>3
    <3>2. Len(b) + k \in C /\ (Len(b) + k) - Len(b) = k
      BY <1>2, <1>8, <1>9
    <3>3. at[Len(b) + k] = y
      BY <1>10, <3>1, <3>2
    <3> QED BY <3>2, <3>3
  <2> QED BY <2>1, <2>2, <2>3 DEF Renames
<1>12. LinesOf(full, at, taken, share, row.price)
  BY <1>10, <1>11 DEF LinesOf, C
<1>13. SetShared(full)
  BY <1>8, <1>12, SetOfTaken
<1> QED BY <1>8, <1>13 DEF full

-----------------------------------------------------------------------------
(* Quotes: the inductive invariant *)

\* The parcel that a quote would be given now.
ParcelNow ==
    LET lines == Purchasable(Lines)
        with  == Evaluated(lines)
        used  == IF with = Null THEN NoCoupon(lines) ELSE with
    IN  [subtotal |-> Subtotal(lines) - used.discount, weight |-> Weight(Lines),
         freeShipping |-> used.freeShipping]

AllSold == \A i \in DOMAIN bag : bag[i].product \in onSale

\* What an order in flight has read fits together.
RequestSound(r) ==
    r.op = "order" =>
        /\ r.method \in {Null} \cup DOMAIN Methods /\ r.bag # <<>>
        /\ LinesFit(r.lines) /\ (r.with # Null => Allots(r.with, r.lines))

\* What a request has read is what there is.
RequestFresh(r) ==
    /\ r.op = "quote" /\ bag # <<>> => r.parcel = ParcelNow
    /\ r.op = "order" /\ r.sold /\ r.bag = bag =>
          AllSold /\ r.lines = Lines /\ r.with \in {Null, Evaluated(Lines)}

\* What was shown is what would be now.
ShownStands ==
    stands => /\ shown.offers = quoteShipping(zone, method, address, shown.parcel, couriers)
              /\ bag # <<>> => shown.parcel = ParcelNow

QuotesShape ==
    /\ zone \in [DOMAIN Zones -> ZoneRow] /\ method \in [DOMAIN Methods -> MethodRow]
    /\ price \in [DOMAIN Product \cup {Look} -> Nat] /\ onSale \subseteq DOMAIN price
    /\ bag \in Seq(BagLine) /\ coded \in BOOLEAN /\ served \in 0 .. MaxRequests
    /\ coupon \in Coupons /\ couriers \in Couriers
    /\ fresh \subseteq Handler /\ DOMAIN request = Handler

\* The order is for amounts, its shares add up, and it was billed as shown.
OrderAddsUp(o) ==
    ~o.refused =>
        /\ o.total \in Nat /\ o.shipping \in Nat /\ o.tax \in Nat
        /\ SumFunction(o.allocation) = o.discount
        /\ \A i \in DOMAIN o.lines : o.allocation[i] \in 0 .. LineTotal(o.lines[i])
OrderAsShown(o) ==
    /\ ~o.refused /\ o.asShown =>
          /\ Subtotal(o.lines) - o.discount = o.shown.parcel.subtotal
          /\ o.method \in DOMAIN o.shown.offers =>
                o.shipping = o.shown.offers[o.method].cost + o.shown.offers[o.method].codFee
    /\ o.refused /\ o.asShown => o.method \notin DOMAIN o.shown.offers

QuotesInv ==
    /\ QuotesShape /\ SetShared(bag) /\ ShownStands
    /\ lastOrder # Null => OrderAddsUp(lastOrder) /\ OrderAsShown(lastOrder)
    /\ \A h \in Handler : RequestSound(request[h])
    /\ \A h \in fresh : RequestFresh(request[h])

-----------------------------------------------------------------------------
(* Quotes: what the bag comes to *)

\* The lines of a bag can be priced.
LEMMA LinesAreFit ==
    ASSUME QuotesShape
    PROVE  LinesFit(Lines) /\ DOMAIN Lines = DOMAIN bag /\ \A i \in DOMAIN Lines : Lines[i].product = bag[i].product
<1>1. DOMAIN bag = 1 .. Len(bag) /\ Len(bag) \in Int /\ \A i \in DOMAIN bag : bag[i] \in BagLine
  BY DEF QuotesShape
<1>2. IsFiniteSet(DOMAIN bag) /\ DOMAIN bag \subseteq Nat
  BY <1>1, FS_Interval
<1>3. DOMAIN Lines = DOMAIN bag
  BY DEF Lines
<1>4. ASSUME NEW i \in DOMAIN bag
      PROVE  /\ Lines[i].unit \in Nat /\ Lines[i].quantity \in Nat
             /\ Lines[i].product = bag[i].product
  <2>1. /\ Lines[i].unit = IF bag[i].unit # Null THEN bag[i].unit ELSE price[bag[i].product]
        /\ Lines[i].quantity = bag[i].quantity /\ Lines[i].product = bag[i].product
    BY DEF Lines
  <2>2. /\ bag[i].product \in DOMAIN Product /\ bag[i].unit \in {Null} \cup Nat
        /\ bag[i].quantity \in Nat
    BY <1>1 DEF BagLine
  <2>3. price[bag[i].product] \in Nat
    BY <2>2 DEF QuotesShape
  <2> QED BY <2>1, <2>2, <2>3
<1> QED BY <1>2, <1>3, <1>4 DEF LinesFit

\* All of it can be bought if every product is on sale.
LEMMA AllIsPurchasable ==
    ASSUME QuotesShape, AllSold
    PROVE  Purchasable(Lines) = Lines
<1> DEFINE D == {i \in DOMAIN Lines : Lines[i].product \in onSale}
<1>1. D = DOMAIN Lines
  BY LinesAreFit DEF AllSold
<1>2. Lines = [i \in DOMAIN Lines |-> Lines[i]]
  BY DEF Lines
<1>3. Purchasable(Lines) = [i \in D |-> Lines[i]]
  BY DEF Purchasable, Restrict
<1> HIDE DEF D
<1> QED BY <1>1, <1>2, <1>3

\* Whatever coupon is applied, its discount is shared.
LEMMA EvaluatedAllots ==
    ASSUME QuotesShape, NEW lines, LinesFit(lines), Evaluated(lines) # Null
    PROVE  Allots(Evaluated(lines), lines)
<1>1. CASE coded /\ DOMAIN lines # {}
  <2>1. Evaluated(lines) = evaluateCoupon(coupon, lines)
    BY <1>1 DEF Evaluated
  <2>2. coupon.value \in Nat /\ coupon.maxDiscount \in Nat
    BY QuotesAssumption DEF QuotesShape
  <2>3. evaluateCoupon(coupon, lines) # Null
    BY <2>1
  <2>4. Allots(evaluateCoupon(coupon, lines), lines)
    BY <2>2, <2>3, CouponAllots
  <2> QED BY <2>1, <2>4
<1>2. CASE ~(coded /\ DOMAIN lines # {})
  <2>1. Evaluated(lines) = NoCoupon(lines)
    BY <1>2 DEF Evaluated
  <2>2. NoCoupon(lines).discount = 0 /\ NoCoupon(lines).allocation = [i \in DOMAIN lines |-> 0]
    BY DEF NoCoupon
  <2>3. Allots(NoCoupon(lines), lines)
    BY <2>2, NothingIsAllotted
  <2> QED BY <2>1, <2>3
<1> QED BY <1>1, <1>2

\* What the chosen method costs is amounts.
LEMMA ChosenType ==
    ASSUME QuotesShape, NEW m \in DOMAIN Methods, NEW p,
           priceChosenMethod(zone, method, m, address, p, couriers) # Null
    PROVE  priceChosenMethod(zone, method, m, address, p, couriers) \in Offer
<1> DEFINE a == Asked(couriers, address)
<1>1. priceChosenMethod(zone, method, m, address, p, couriers) = Priced(method[m], p, a)
  BY DEF priceChosenMethod
<1>2. method[m] \in MethodRow /\ couriers \in Couriers
  BY DEF QuotesShape
<1>3. a \in {Down, {}} \/ (IsFiniteSet(a) /\ a \subseteq Courier)
  BY <1>2, AskedType
<1> HIDE DEF a
<1>4. Priced(method[m], p, a) \in Offer
  BY <1>2, <1>3, PricedType
<1> QED BY <1>1, <1>4

-----------------------------------------------------------------------------
(* Quotes: what the customer does *)

\* A step that outdates what was read and shown.
LEMMA OutdatedKeeps ==
    ASSUME QuotesInv, Outdated, QuotesShape', SetShared(bag'), UNCHANGED lastOrder,
           \A h \in Handler : RequestSound(request'[h])
    PROVE  QuotesInv'
<1>1. ~stands' /\ fresh' = {}
  BY DEF Outdated
<1>2. ShownStands'
  BY <1>1 DEF ShownStands
<1>3. (lastOrder # Null => OrderAddsUp(lastOrder) /\ OrderAsShown(lastOrder))'
  BY DEF QuotesInv
<1>4. (\A h \in fresh : RequestFresh(request[h]))'
  BY <1>1
<1>5. (\A h \in Handler : RequestSound(request[h]))'
  BY DEF RequestSound
<1>6. SetShared(bag)'
  BY DEF SetShared, OfSet, UnitsIn
<1> QED BY <1>2, <1>3, <1>4, <1>5, <1>6 DEF QuotesInv

\* A change made by one request, or by none.
LEMMA ChangeKeeps ==
    ASSUME QuotesInv, Change, UNCHANGED <<lastOrder, coupon, coded>>,
           zone' \in [DOMAIN Zones -> ZoneRow], method' \in [DOMAIN Methods -> MethodRow],
           price' \in [DOMAIN Product \cup {Look} -> Nat], onSale' \subseteq DOMAIN price',
           couriers' \in Couriers, bag' \in Seq(BagLine), SetShared(bag')
    PROVE  QuotesInv'
<1>1. Outdated /\ served' \in 0 .. MaxRequests /\ request' = request /\ fresh' = {}
  BY QuotesAssumption DEF Change, Served, Outdated, QuotesInv, QuotesShape
<1>2. QuotesShape'
  BY <1>1 DEF QuotesInv, QuotesShape
<1>3. \A h \in Handler : RequestSound(request'[h])
  BY <1>1 DEF QuotesInv
<1> QED BY <1>1, <1>2, <1>3, OutdatedKeeps

\* POST /cart/items.
LEMMA addItemKeeps ==
    ASSUME QuotesInv, NEW p \in DOMAIN Product, NEW part \in Product[p].parts \cup {Null},
           addItem(p, part)
    PROVE  QuotesInv'
<1> DEFINE existing == {i \in DOMAIN bag : bag[i].product = p /\ bag[i].part = part /\ bag[i].set = Null}
           unit == IF part = Null THEN Null ELSE part.price
           l    == Line(p, part, unit, Null)
<1>1. bag \in Seq(BagLine) /\ SetShared(bag)
  BY DEF QuotesInv, QuotesShape
<1>2. bag' \in Seq(BagLine) /\ SetShared(bag')
  <2>1. CASE existing = {}
    <3>1. bag' = Append(bag, l)
      BY <2>1 DEF addItem
    <3>2. part = Null \/ (part \in PartRow /\ part.price \in Nat)
      BY QuotesAssumption DEF PartRow
    <3>3. l \in BagLine /\ l.set = Null
      <4>1. unit \in {Null} \cup Nat /\ part \in {Null} \cup PartRow
        BY <3>2
      <4> HIDE DEF unit
      <4> QED BY <4>1 DEF Line, BagLine
    <3> HIDE DEF l
    <3> QED BY <1>1, <3>1, <3>3, OneMoreLine
  <2>2. CASE existing # {}
    <3> DEFINE i == Min(existing)
    <3>1. bag' = [bag EXCEPT ![i].quantity = @ + 1]
      BY <2>2 DEF addItem
    <3>2. existing \in SUBSET DOMAIN bag /\ DOMAIN bag = 1 .. Len(bag) /\ Len(bag) \in Int
      BY <1>1
    <3>3. IsFiniteSet(existing) /\ existing \subseteq Int
      <4> HIDE DEF existing
      <4>1. Len(bag) \in Int
        BY <3>2
      <4>2. IsFiniteSet(1 .. Len(bag))
        BY <4>1, FS_Interval, SMTT(30)
      <4>3. IsFiniteSet(existing)
        BY <3>2, <4>2, FS_Subset
      <4> QED BY <3>2, <4>3
    <3>4. i \in DOMAIN bag
      <4> HIDE DEF existing
      <4> QED BY <2>2, <3>2, <3>3, MinOfFinite
    <3> HIDE DEF i
    <3>5. bag[i].quantity + 1 \in Nat \ {0}
      <4>1. bag[i] \in BagLine
        BY <1>1, <3>4
      <4> QED BY <4>1 DEF BagLine
    <3>6. bag' = [bag EXCEPT ![i].quantity = bag[i].quantity + 1]
      BY <3>1
    <3> QED BY <1>1, <3>4, <3>5, <3>6, OtherQuantity
  <2> QED BY <2>1, <2>2
<1>3. Change /\ UNCHANGED <<lastOrder, coupon, coded, zone, method, price, onSale, couriers>>
  BY DEF addItem, catalogue, delivery, given
<1> QED BY <1>2, <1>3, ChangeKeeps DEF QuotesInv, QuotesShape

\* POST /cart/sets.
LEMMA addSetKeeps ==
    ASSUME QuotesInv, NEW taken \in SUBSET DOMAIN Pieces, Cardinality(taken) >= 2, addSet(taken)
    PROVE  QuotesInv'
<1> DEFINE prices == [i \in DOMAIN Pieces |-> price[Pieces[i]]]
           unit   == resolveSetSelection(price[Look], prices, taken)
           set    == [price |-> price[Look], whole |-> taken = DOMAIN Pieces]
<1>1. bag \in Seq(BagLine) /\ \A i \in DOMAIN bag : bag[i].set = Null
  BY DEF QuotesInv, QuotesShape, addSet
<1>2. PICK s :
         /\ DOMAIN s = 1 .. Cardinality(taken) /\ InOrder(s, taken)
         /\ bag' = bag \o [k \in DOMAIN s |-> Line(Pieces[s[k]], Null, unit[s[k]], set)]
  BY DEF addSet
<1>3. prices \in [DOMAIN Pieces -> Nat] /\ price[Look] \in Nat
  <2>1. \A i \in DOMAIN Pieces : Pieces[i] \in DOMAIN Product
    BY QuotesAssumption
  <2> QED BY <2>1 DEF QuotesInv, QuotesShape
<1>4. taken # {}
  BY FS_EmptySet
<1> HIDE DEF prices
<1>5. SharesOf(taken, unit, price[Look])
  BY <1>3, <1>4, SharesOfTaken
<1> HIDE DEF unit
<1>6. set \in SetRow /\ set.price = price[Look] /\ set # Null
  <2>1. set \in SetRow /\ set.price = price[Look]
    BY <1>3 DEF SetRow
  <2>2. Null \notin SetRow
    BY QuotesAssumption
  <2> QED BY <2>1, <2>2
<1> HIDE DEF set
<1> DEFINE n   == Cardinality(taken)
           new == [k \in DOMAIN s |-> Line(Pieces[s[k]], Null, unit[s[k]], set)]
<1>7. /\ new \in Seq(BagLine) /\ Len(new) = n
      /\ \A k \in 1 .. n : new[k].set = set /\ new[k].unit = unit[s[k]]
  <2>1. \A k \in 1 .. n : s[k] \in taken /\ Pieces[s[k]] \in DOMAIN Product /\ unit[s[k]] \in Nat
    <3>1. \A k \in 1 .. n : s[k] \in taken
      BY <1>2 DEF InOrder, Range
    <3>2. \A i \in DOMAIN Pieces : Pieces[i] \in DOMAIN Product
      BY QuotesAssumption
    <3> QED BY <1>5, <3>1, <3>2 DEF SharesOf
  <2>2. DOMAIN new = 1 .. n /\ \A k \in 1 .. n : new[k] = Line(Pieces[s[k]], Null, unit[s[k]], set)
    BY <1>2
  <2>3. n \in Nat
    BY TakenOfPieces
  <2> DEFINE e(k) == Line(Pieces[s[k]], Null, unit[s[k]], set)
  <2>4. \A k \in 1 .. n : e(k) \in BagLine /\ e(k).set = set /\ e(k).unit = unit[s[k]]
    BY <1>6, <2>1, SetLine
  <2>5. new = [k \in 1 .. n |-> e(k)]
    BY <2>2
  <2> HIDE DEF e, n, new
  <2>6. new \in [1 .. n -> BagLine]
    BY <2>4, <2>5
  <2>7. \A k \in 1 .. n : new[k] = e(k)
    BY <2>5
  <2> QED BY <2>3, <2>4, <2>6, <2>7
<1>9. bag' \in Seq(BagLine) /\ SetShared(bag')
  <2>1. bag' = bag \o new
    BY <1>2
  <2> HIDE DEF new
  <2>2. bag \o new \in Seq(BagLine) /\ SetShared(bag \o new)
    <3>1. SetLines(new, s, taken, unit, set)
      BY <1>2, <1>7 DEF SetLines
    <3>2. SharesOf(taken, unit, set.price)
      BY <1>5, <1>6
    <3> QED BY <1>1, <1>6, <3>1, <3>2, SetAdded
  <2> QED BY <2>1, <2>2
<1>8. Change /\ UNCHANGED <<lastOrder, coupon, coded, zone, method, price, onSale, couriers>>
  BY DEF addSet, catalogue, delivery, given
<1> QED BY <1>8, <1>9, ChangeKeeps DEF QuotesInv, QuotesShape

\* PATCH and DELETE /cart/items/:itemId.
LEMMA updateItemKeeps ==
    ASSUME QuotesInv, NEW i \in DOMAIN bag, NEW quantity \in {0, 2}, updateItem(i, quantity)
    PROVE  QuotesInv'
<1>1. bag \in Seq(BagLine) /\ SetShared(bag)
  BY DEF QuotesInv, QuotesShape
<1>2. bag' \in Seq(BagLine) /\ SetShared(bag')
  <2>1. CASE quantity = 0
    BY <1>1, <2>1, OneLineLess DEF updateItem
  <2>2. CASE quantity # 0
    <3>1. bag' = [bag EXCEPT ![i].quantity = quantity] /\ quantity \in Nat \ {0}
      BY <2>2 DEF updateItem
    <3> QED BY <1>1, <3>1, OtherQuantity
  <2> QED BY <2>1, <2>2
<1>3. Change /\ UNCHANGED <<lastOrder, coupon, coded, zone, method, price, onSale, couriers>>
  BY DEF updateItem, catalogue, delivery, given
<1> QED BY <1>2, <1>3, ChangeKeeps DEF QuotesInv, QuotesShape

\* POST /cart/coupon.
LEMMA applyCouponKeeps ==
    ASSUME QuotesInv, applyCoupon
    PROVE  QuotesInv'
<1>1. /\ Outdated /\ UNCHANGED <<bag, lastOrder, coupon, request, zone, method, price, onSale, couriers>>
      /\ served' \in 0 .. MaxRequests /\ coded' = TRUE /\ fresh' = {}
  BY QuotesAssumption
     DEF applyCoupon, Change, Served, Outdated, catalogue, delivery, given, QuotesInv, QuotesShape
<1>2. QuotesShape'
  BY <1>1 DEF QuotesInv, QuotesShape
<1>3. SetShared(bag') /\ \A h \in Handler : RequestSound(request'[h])
  BY <1>1 DEF QuotesInv
<1> QED BY <1>1, <1>2, <1>3, OutdatedKeeps

-----------------------------------------------------------------------------
(* Quotes: staff and the carrier *)

\* PATCH /admin/products/:id with a price.
LEMMA changePriceKeeps ==
    ASSUME QuotesInv, NEW p \in DOMAIN price, NEW amount \in Prices, changePrice(p, amount)
    PROVE  QuotesInv'
<1>1. price' \in [DOMAIN Product \cup {Look} -> Nat] /\ DOMAIN price' = DOMAIN price
  BY QuotesAssumption DEF changePrice, QuotesInv, QuotesShape
<1>2. Change /\ UNCHANGED <<lastOrder, coupon, coded, zone, method, onSale, couriers, bag>>
  BY DEF changePrice, delivery, given, customer
<1> QED BY <1>1, <1>2, ChangeKeeps DEF QuotesInv, QuotesShape

\* A product is archived.
LEMMA archiveKeeps ==
    ASSUME QuotesInv, NEW p \in DOMAIN price, archive(p)
    PROVE  QuotesInv'
<1>1. onSale' \subseteq DOMAIN price
  BY DEF archive, QuotesInv, QuotesShape
<1>2. Change /\ UNCHANGED <<lastOrder, coupon, coded, zone, method, price, couriers, bag>>
  BY DEF archive, delivery, given, customer
<1> QED BY <1>1, <1>2, ChangeKeeps DEF QuotesInv, QuotesShape

\* PATCH /admin/shipping/zones/:id with isDefault, and the other zones after it.
LEMMA updateZoneKeeps ==
    ASSUME QuotesInv, NEW h \in Handler, NEW z \in DOMAIN zone, updateZone(h, z)
    PROVE  QuotesInv'
<1>1. zone' \in [DOMAIN Zones -> ZoneRow]
  <2>1. zone' = [zone EXCEPT ![z].isDefault = TRUE] /\ zone \in [DOMAIN Zones -> ZoneRow]
    BY DEF updateZone, QuotesInv, QuotesShape
  <2>2. [zone[z] EXCEPT !.isDefault = TRUE] \in ZoneRow
    <3>1. zone[z] \in ZoneRow
      BY <2>1
    <3> QED BY <3>1 DEF ZoneRow
  <2> QED BY <2>1, <2>2
<1>2. /\ Outdated /\ UNCHANGED <<lastOrder, coupon, coded, method, price, onSale, couriers, bag>>
      /\ served' \in 0 .. MaxRequests /\ fresh' = {}
  BY QuotesAssumption
     DEF updateZone, Served, Outdated, catalogue, given, customer, QuotesInv, QuotesShape
<1>3. DOMAIN request' = Handler /\ \A g \in Handler : RequestSound(request'[g])
  <2> DEFINE r == [op |-> "clear", zone |-> z]
  <2>1. request' = [request EXCEPT ![h] = r] /\ DOMAIN request = Handler
    BY DEF updateZone, QuotesInv, QuotesShape
  <2>2. RequestSound(r)
    BY DEF RequestSound
  <2> HIDE DEF r
  <2> QED BY <2>1, <2>2 DEF QuotesInv
<1>4. QuotesShape'
  BY <1>1, <1>2, <1>3 DEF QuotesInv, QuotesShape
<1> QED BY <1>2, <1>3, <1>4, OutdatedKeeps DEF QuotesInv

\* The statement that clears the other zones' isDefault.
LEMMA clearOtherDefaultsKeeps ==
    ASSUME QuotesInv, NEW h \in Handler, clearOtherDefaults(h)
    PROVE  QuotesInv'
<1>1. zone' \in [DOMAIN Zones -> ZoneRow]
  <2>1. /\ zone' = [z \in DOMAIN zone |-> [zone[z] EXCEPT !.isDefault = @ /\ z = request[h].zone]]
        /\ zone \in [DOMAIN Zones -> ZoneRow]
    BY DEF clearOtherDefaults, QuotesInv, QuotesShape
  <2>2. ASSUME NEW z \in DOMAIN Zones
        PROVE  [zone[z] EXCEPT !.isDefault = @ /\ z = request[h].zone] \in ZoneRow
    <3>1. zone[z] \in ZoneRow
      BY <2>1
    <3> QED BY <3>1 DEF ZoneRow
  <2> QED BY <2>1, <2>2
<1>2. /\ Outdated /\ UNCHANGED <<lastOrder, coupon, coded, method, price, onSale, couriers, bag, served>>
      /\ fresh' = {}
  BY DEF clearOtherDefaults, Outdated, catalogue, given, customer
<1>3. DOMAIN request' = Handler /\ \A g \in Handler : RequestSound(request'[g])
  <2>1. request' = [request EXCEPT ![h] = Idle] /\ DOMAIN request = Handler
    BY DEF clearOtherDefaults, QuotesInv, QuotesShape
  <2>2. RequestSound(Idle)
    BY DEF RequestSound, Idle
  <2> QED BY <2>1, <2>2 DEF QuotesInv
<1>4. QuotesShape'
  BY <1>1, <1>2, <1>3 DEF QuotesInv, QuotesShape
<1> QED BY <1>2, <1>3, <1>4, OutdatedKeeps DEF QuotesInv

\* A zone's switches, with the methods of one that is put away.
LEMMA refuseZoneKeeps ==
    ASSUME QuotesInv, NEW z \in DOMAIN zone, NEW a \in BOOLEAN, NEW s \in BOOLEAN, refuseZone(z, a, s)
    PROVE  QuotesInv'
<1>1. zone' \in [DOMAIN Zones -> ZoneRow]
  <2>1. /\ zone' = [zone EXCEPT ![z].isActive = a, ![z].isServiceable = s]
        /\ zone \in [DOMAIN Zones -> ZoneRow]
    BY DEF refuseZone, QuotesInv, QuotesShape
  <2>2. [[zone[z] EXCEPT !.isActive = a] EXCEPT !.isServiceable = s] \in ZoneRow
    <3>1. zone[z] \in ZoneRow
      BY <2>1
    <3> QED BY <3>1 DEF ZoneRow
  <2> QED BY <2>1, <2>2
<1>2. method' \in [DOMAIN Methods -> MethodRow]
  <2>1. /\ method' = IF a THEN method
                     ELSE [m \in DOMAIN method |->
                              [method[m] EXCEPT !.isActive = @ /\ method[m].zone # z]]
        /\ method \in [DOMAIN Methods -> MethodRow]
    BY DEF refuseZone, QuotesInv, QuotesShape
  <2>2. ASSUME NEW m \in DOMAIN Methods
        PROVE  [method[m] EXCEPT !.isActive = @ /\ method[m].zone # z] \in MethodRow
    <3>1. method[m] \in MethodRow
      BY <2>1
    <3> QED BY <3>1 DEF MethodRow
  <2> QED BY <2>1, <2>2
<1>3. Change /\ UNCHANGED <<lastOrder, coupon, coded, price, onSale, couriers, bag>>
  BY DEF refuseZone, catalogue, given, customer
<1> QED BY <1>1, <1>2, <1>3, ChangeKeeps DEF QuotesInv, QuotesShape

\* PATCH and DELETE /admin/shipping/methods/:id.
LEMMA updateMethodKeeps ==
    ASSUME QuotesInv, NEW m \in DOMAIN method, NEW rate \in Prices, NEW a \in BOOLEAN,
           updateMethod(m, rate, a)
    PROVE  QuotesInv'
<1>1. method' \in [DOMAIN Methods -> MethodRow]
  <2>1. /\ method' = [method EXCEPT ![m].rate = rate, ![m].isActive = a]
        /\ method \in [DOMAIN Methods -> MethodRow] /\ rate \in Nat
    BY QuotesAssumption DEF updateMethod, QuotesInv, QuotesShape
  <2>2. [[method[m] EXCEPT !.rate = rate] EXCEPT !.isActive = a] \in MethodRow
    <3>1. method[m] \in MethodRow
      BY <2>1
    <3> QED BY <2>1, <3>1 DEF MethodRow
  <2> QED BY <2>1, <2>2
<1>2. Change /\ UNCHANGED <<lastOrder, coupon, coded, zone, price, onSale, couriers, bag>>
  BY DEF updateMethod, catalogue, given, customer
<1> QED BY <1>1, <1>2, ChangeKeeps DEF QuotesInv, QuotesShape

\* PUT /admin/shipping/methods/:id/rates.
LEMMA replaceRatesKeeps ==
    ASSUME QuotesInv, NEW m \in DOMAIN method, method[m].bands # <<>>,
           replaceRates(m, <<Last(method[m].bands)>>)
    PROVE  QuotesInv'
<1>1. method \in [DOMAIN Methods -> MethodRow] /\ method[m] \in MethodRow
  BY DEF QuotesInv, QuotesShape
<1> DEFINE bands == method[m].bands
           b     == Last(bands)
<1>2. b \in BandRow
  <2>1. bands \in Seq(BandRow)
    BY <1>1 DEF MethodRow
  <2>2. Len(bands) \in DOMAIN bands
    BY <2>1
  <2> HIDE DEF bands
  <2> QED BY <2>1, <2>2 DEF Last
<1> HIDE DEF b
<1>3. <<b>> \in Seq(BandRow)
  BY <1>2
<1>4. method' \in [DOMAIN Methods -> MethodRow]
  <2> DEFINE v == <<b>>
  <2>1. method' = [method EXCEPT ![m].bands = v]
    BY DEF replaceRates, b
  <2>2. v \in Seq(BandRow)
    BY <1>3
  <2> HIDE DEF v
  <2>3. [method[m] EXCEPT !.bands = v] \in MethodRow
    BY <1>1, <2>2 DEF MethodRow
  <2> QED BY <1>1, <2>1, <2>3
<1>5. Change /\ UNCHANGED <<lastOrder, coupon, coded, zone, price, onSale, couriers, bag>>
  BY DEF replaceRates, catalogue, given, customer
<1> QED BY <1>4, <1>5, ChangeKeeps DEF QuotesInv, QuotesShape

\* The carrier serves an address, stops serving it or cannot be asked.
LEMMA CarrierChangesKeeps ==
    ASSUME QuotesInv, CarrierChanges
    PROVE  QuotesInv'
<1>1. /\ couriers' \in Couriers /\ Change
      /\ UNCHANGED <<lastOrder, coupon, coded, zone, method, price, onSale, bag>>
  BY DEF CarrierChanges, catalogue, given, customer
<1> QED BY <1>1, ChangeKeeps DEF QuotesInv, QuotesShape

-----------------------------------------------------------------------------
(* Quotes: requests *)

\* What a request has read is still what there is.
LEMMA FiguresStay ==
    ASSUME UNCHANGED <<price, onSale, bag, coupon, coded>>
    PROVE  /\ ParcelNow' = ParcelNow
           /\ \A r : RequestFresh(r) => RequestFresh(r)'
<1>1. Lines' = Lines
  BY DEF Lines
<1>2. \A lines : Evaluated(lines)' = Evaluated(lines)
  BY DEF Evaluated
<1>3. Purchasable(Lines)' = Purchasable(Lines)
  BY <1>1 DEF Purchasable
<1>4. Evaluated(Lines)' = Evaluated(Lines) /\ Evaluated(Purchasable(Lines))' = Evaluated(Purchasable(Lines))
  BY <1>1, <1>3 DEF Evaluated
<1>5. ParcelNow' = ParcelNow
  BY <1>1, <1>3, <1>4 DEF ParcelNow
<1>6. AllSold' = AllSold
  BY DEF AllSold
<1> QED BY <1>1, <1>4, <1>5, <1>6 DEF RequestFresh

\* One request is done.
LEMMA RequestDone ==
    ASSUME QuotesInv, NEW h \in Handler, Proceed(h)
    PROVE  /\ DOMAIN request' = Handler /\ served' = served /\ fresh' \subseteq Handler
           /\ \A g \in Handler : RequestSound(request'[g])
           /\ \A g \in fresh' : g \in fresh /\ request'[g] = request[g]
<1>1. /\ request' = [request EXCEPT ![h] = Idle] /\ fresh' = fresh \ {h} /\ served' = served
      /\ DOMAIN request = Handler /\ fresh \subseteq Handler
  BY DEF Proceed, QuotesInv, QuotesShape
<1>2. RequestSound(Idle)
  BY DEF RequestSound, Idle
<1>3. \A g \in Handler : RequestSound(request'[g])
  BY <1>1, <1>2 DEF QuotesInv
<1> QED BY <1>1, <1>3

\* One more has read what there is.
LEMMA RequestBegun ==
    ASSUME QuotesInv, NEW h \in Handler, NEW next, RequestSound(next), BeginRequest(h, next)
    PROVE  /\ DOMAIN request' = Handler /\ served' \in 0 .. MaxRequests /\ fresh' \subseteq Handler
           /\ \A g \in Handler : RequestSound(request'[g])
           /\ \A g \in fresh' : \/ g = h /\ request'[g] = next
                                \/ g \in fresh /\ request'[g] = request[g]
<1>1. /\ request' = [request EXCEPT ![h] = next] /\ fresh' = fresh \cup {h}
      /\ DOMAIN request = Handler /\ fresh \subseteq Handler
  BY DEF BeginRequest, QuotesInv, QuotesShape
<1>2. served' \in 0 .. MaxRequests
  BY QuotesAssumption DEF BeginRequest, Served, QuotesInv, QuotesShape
<1>3. \A g \in Handler : RequestSound(request'[g])
  BY <1>1 DEF QuotesInv
<1> QED BY <1>1, <1>2, <1>3

\* The process stops.
LEMMA StopKeeps ==
    ASSUME QuotesInv, NEW h \in Handler, Stop(h)
    PROVE  QuotesInv'
<1>1. Proceed(h) /\ UNCHANGED <<catalogue, delivery, given, customer, lastOrder, shown, stands>>
  BY DEF Stop
<1>2. UNCHANGED <<zone, method, price, onSale, bag, coded, lastOrder, coupon, address, couriers, shown, stands>>
  BY <1>1 DEF catalogue, delivery, given, customer
<1>3. QuotesShape' /\ SetShared(bag)'
  BY <1>1, <1>2, RequestDone DEF QuotesInv, QuotesShape, SetShared, OfSet, UnitsIn
<1>4. ParcelNow' = ParcelNow /\ \A r : RequestFresh(r) => RequestFresh(r)'
  BY <1>2, FiguresStay
<1>5. ShownStands'
  BY <1>2, <1>4 DEF QuotesInv, ShownStands
<1>6. (\A g \in fresh : RequestFresh(request[g]))'
  BY <1>1, <1>4, RequestDone DEF QuotesInv
<1>7. (\A g \in Handler : RequestSound(request[g]))'
  BY <1>1, RequestDone DEF RequestSound
<1>8. (lastOrder # Null => OrderAddsUp(lastOrder) /\ OrderAsShown(lastOrder))'
  BY <1>2 DEF QuotesInv
<1> QED BY <1>3, <1>5, <1>6, <1>7, <1>8 DEF QuotesInv

\* GET /shipping/quote is answered.
LEMMA QuoteAnswerKeeps ==
    ASSUME QuotesInv, NEW h \in Handler, QuoteAnswer(h)
    PROVE  QuotesInv'
<1> DEFINE p == request[h].parcel
<1>1. /\ Proceed(h) /\ request[h].op = "quote" /\ stands' = (h \in fresh)
      /\ shown' = [parcel |-> p, offers |-> quoteShipping(zone, method, address, p, couriers)]
      /\ UNCHANGED <<zone, method, price, onSale, bag, coded, lastOrder, coupon, address, couriers>>
  BY DEF QuoteAnswer, catalogue, delivery, given, customer
<1>3. QuotesShape' /\ SetShared(bag)'
  BY <1>1, RequestDone DEF QuotesInv, QuotesShape, SetShared, OfSet, UnitsIn
<1>4. ParcelNow' = ParcelNow /\ \A r : RequestFresh(r) => RequestFresh(r)'
  BY <1>1, FiguresStay
<1>5. ShownStands'
  <2>1. shown'.parcel = p /\ shown'.offers = quoteShipping(zone, method, address, p, couriers)
    BY <1>1
  <2>2. shown'.offers = quoteShipping(zone', method', address', shown'.parcel, couriers')
    BY <1>1, <2>1
  <2>3. ASSUME stands', bag' # <<>> PROVE shown'.parcel = ParcelNow'
    <3>1. h \in fresh /\ bag # <<>>
      BY <1>1, <2>3
    <3>2. RequestFresh(request[h])
      BY <3>1 DEF QuotesInv
    <3> QED BY <1>1, <1>4, <2>1, <3>1, <3>2 DEF RequestFresh
  <2> QED BY <2>2, <2>3 DEF ShownStands
<1>6. (\A g \in fresh : RequestFresh(request[g]))'
  BY <1>1, <1>4, RequestDone DEF QuotesInv
<1>7. (\A g \in Handler : RequestSound(request[g]))'
  BY <1>1, RequestDone DEF RequestSound
<1>8. (lastOrder # Null => OrderAddsUp(lastOrder) /\ OrderAsShown(lastOrder))'
  BY <1>1 DEF QuotesInv
<1> QED BY <1>3, <1>5, <1>6, <1>7, <1>8 DEF QuotesInv

\* POST /orders reads the bag.
LEMMA createOrderKeeps ==
    ASSUME QuotesInv, NEW h \in Handler, NEW m \in DOMAIN method \cup {Null}, createOrder(h, m)
    PROVE  QuotesInv'
<1> DEFINE r == [op |-> "order", method |-> m, bag |-> bag, lines |-> Lines,
                 sold |-> \A i \in DOMAIN bag : bag[i].product \in onSale,
                 with |-> Evaluated(Lines)]
<1>1. /\ BeginRequest(h, r) /\ bag # <<>>
      /\ UNCHANGED <<zone, method, price, onSale, bag, coded, lastOrder, coupon, address, couriers,
                     shown, stands>>
  BY DEF createOrder, catalogue, delivery, given, customer
<1>2. /\ r.op = "order" /\ r.method = m /\ r.bag = bag /\ r.lines = Lines
      /\ r.sold = AllSold /\ r.with = Evaluated(Lines)
  BY DEF AllSold
<1> HIDE DEF r
<1>0. QuotesShape
  BY DEF QuotesInv
<1>3. RequestSound(r)
  <2>1. m \in {Null} \cup DOMAIN Methods
    BY <1>0 DEF QuotesShape
  <2>2. LinesFit(Lines)
    BY <1>0, LinesAreFit
  <2>3. Evaluated(Lines) # Null => Allots(Evaluated(Lines), Lines)
    BY <1>0, <2>2, EvaluatedAllots
  <2> QED BY <1>1, <1>2, <2>1, <2>2, <2>3 DEF RequestSound
<1>4. RequestFresh(r)
  BY <1>2 DEF RequestFresh
<1>5. ParcelNow' = ParcelNow /\ \A s : RequestFresh(s) => RequestFresh(s)'
  BY <1>1, FiguresStay
<1>6. QuotesShape' /\ SetShared(bag)'
  BY <1>1, <1>3, RequestBegun DEF QuotesInv, QuotesShape, SetShared, OfSet, UnitsIn
<1>7. ShownStands'
  BY <1>1, <1>5 DEF QuotesInv, ShownStands
<1>8. (\A g \in fresh : RequestFresh(request[g]))'
  BY <1>1, <1>3, <1>4, <1>5, RequestBegun DEF QuotesInv
<1>9. (\A g \in Handler : RequestSound(request[g]))'
  BY <1>1, <1>3, RequestBegun DEF RequestSound
<1>10. (lastOrder # Null => OrderAddsUp(lastOrder) /\ OrderAsShown(lastOrder))'
  BY <1>1 DEF QuotesInv
<1> QED BY <1>6, <1>7, <1>8, <1>9, <1>10 DEF QuotesInv

\* GET /shipping/quote reads the bag; a code it drops took nothing off.
LEMMA quoteKeeps ==
    ASSUME QuotesInv, NEW h \in Handler, quote(h)
    PROVE  QuotesInv'
<1> DEFINE lines == Purchasable(Lines)
           with  == Evaluated(lines)
           r     == [op |-> "quote", parcel |-> ParcelNow]
<1>1. /\ BeginRequest(h, r) /\ coded' = (coded /\ with # Null)
      /\ UNCHANGED <<zone, method, price, onSale, bag, lastOrder, coupon, address, couriers,
                     shown, stands>>
  BY DEF quote, ParcelNow, catalogue, delivery, given
<1>2. r.op = "quote" /\ r.parcel = ParcelNow
  OBVIOUS
<1> HIDE DEF r
<1>3. RequestSound(r) /\ RequestFresh(r)
  BY <1>2 DEF RequestSound, RequestFresh
<1>4. Lines' = Lines /\ lines' = lines /\ AllSold' = AllSold
  BY <1>1 DEF Lines, Purchasable, AllSold
<1>5. ASSUME coded, with = Null
      PROVE  ParcelNow' = ParcelNow /\ \A s : RequestFresh(s) => RequestFresh(s)'
  <2>1. ~coded' /\ with' = NoCoupon(lines) /\ Evaluated(Lines)' = NoCoupon(Lines)
    BY <1>1, <1>4, <1>5 DEF Evaluated
  <2>2. ParcelNow' = ParcelNow
    <3> HIDE DEF lines, with
    <3>1. ParcelNow = [subtotal |-> Subtotal(lines) - NoCoupon(lines).discount, weight |-> Weight(Lines),
                       freeShipping |-> NoCoupon(lines).freeShipping]
      BY <1>5 DEF ParcelNow, lines, with
    <3>2. ParcelNow' = [subtotal |-> Subtotal(lines) - NoCoupon(lines).discount, weight |-> Weight(Lines),
                        freeShipping |-> NoCoupon(lines).freeShipping]
      BY <1>4, <2>1 DEF ParcelNow, lines, with
    <3> QED BY <3>1, <3>2
  <2>3. ASSUME NEW s, RequestFresh(s) PROVE RequestFresh(s)'
    <3>1. ASSUME s.op = "order", s.sold, s.bag = bag PROVE s.with = Null
      <4>1. AllSold /\ s.with \in {Null, Evaluated(Lines)}
        BY <2>3, <3>1 DEF RequestFresh
      <4>2. lines = Lines
        BY <4>1, AllIsPurchasable DEF QuotesInv
      <4> QED BY <1>5, <4>1, <4>2
    <3> QED BY <1>1, <1>4, <2>2, <2>3, <3>1 DEF RequestFresh
  <2>4. \A s : RequestFresh(s) => RequestFresh(s)'
    BY <2>3
  <2> QED BY <2>2, <2>4
<1>6. ASSUME ~(coded /\ with = Null)
      PROVE  ParcelNow' = ParcelNow /\ \A s : RequestFresh(s) => RequestFresh(s)'
  <2>1. coded' = coded
    BY <1>1, <1>6 DEF QuotesInv, QuotesShape
  <2>2. UNCHANGED <<price, onSale, bag, coupon, coded>>
    BY <1>1, <2>1
  <2> HIDE DEF with
  <2>3. ParcelNow' = ParcelNow /\ \A s : RequestFresh(s) => RequestFresh(s)'
    BY <2>2, FiguresStay
  <2> QED BY <2>3
<1> HIDE DEF lines, with
<1>7. ParcelNow' = ParcelNow /\ \A s : RequestFresh(s) => RequestFresh(s)'
  BY <1>5, <1>6
<1>8. QuotesShape' /\ SetShared(bag)'
  BY <1>1, <1>3, RequestBegun DEF QuotesInv, QuotesShape, SetShared, OfSet, UnitsIn
<1>9. ShownStands'
  BY <1>1, <1>7 DEF QuotesInv, ShownStands
<1>10. (\A g \in fresh : RequestFresh(request[g]))'
  BY <1>1, <1>3, <1>7, RequestBegun DEF QuotesInv
<1>11. (\A g \in Handler : RequestSound(request[g]))'
  BY <1>1, <1>3, RequestBegun DEF RequestSound
<1>12. (lastOrder # Null => OrderAddsUp(lastOrder) /\ OrderAsShown(lastOrder))'
  BY <1>1 DEF QuotesInv
<1> QED BY <1>8, <1>9, <1>10, <1>11, <1>12 DEF QuotesInv

\* What an order comes to.
LEMMA BillAddsUp ==
    ASSUME QuotesInv, NEW r, RequestSound(r), r.op = "order", r.with # Null,
           NEW offer, r.method # Null => offer \in Offer, NEW as
    PROVE  OrderAddsUp(Bill(r, offer, as))
<1> DEFINE b == Bill(r, offer, as)
           goods == Subtotal(r.lines)
           owed  == goods - r.with.discount
           shipping == IF r.method # Null THEN offer.cost + offer.codFee
                       ELSE IF r.with.freeShipping
                               \/ (Charges.freeShippingThreshold > 0 /\ goods >= Charges.freeShippingThreshold)
                            THEN 0 ELSE Charges.shippingFee
           tax == percentOf(owed, Charges.taxPercent)
<1>1. LinesFit(r.lines) /\ Allots(r.with, r.lines)
  BY DEF RequestSound
<1>2. owed \in Nat
  <2>1. goods \in Nat
    BY <1>1, SubtotalType
  <2>2. r.with.discount \in Nat /\ r.with.discount <= goods
    BY <1>1 DEF Allots
  <2> HIDE DEF goods
  <2> QED BY <2>1, <2>2
<1>3. shipping \in Nat
  <2>1. Charges.shippingFee \in Nat
    BY QuotesAssumption
  <2>2. CASE r.method # Null
    BY <2>2 DEF Offer
  <2>3. CASE r.method = Null
    <3> HIDE DEF goods
    <3> QED BY <2>1, <2>3
  <2> QED BY <2>2, <2>3
<1> HIDE DEF shipping
<1>4. tax \in Nat
  <2>1. owed * Charges.taxPercent \in Nat
    BY <1>2, QuotesAssumption, ProductType
  <2> HIDE DEF owed
  <2> QED BY <2>1, RoundType DEF percentOf
<1>5. /\ b.lines = r.lines /\ b.discount = r.with.discount /\ b.allocation = r.with.allocation
      /\ b.shipping = shipping /\ b.tax = tax /\ b.total = owed + shipping + tax
  BY DEF Bill, PricedLines, shipping
<1> HIDE DEF b, owed, tax
<1>6. b.total \in Nat /\ b.shipping \in Nat /\ b.tax \in Nat
  BY <1>2, <1>3, <1>4, <1>5
<1> QED BY <1>1, <1>5, <1>6 DEF OrderAddsUp, Allots, b

\* What an order is priced with is what was shown while that stands.
LEMMA ParcelOfOrder ==
    ASSUME QuotesInv, stands, NEW r, RequestFresh(r), RequestSound(r), r.op = "order",
           r.sold, r.bag = bag, r.with # Null
    PROVE  /\ shown.parcel = [subtotal |-> Subtotal(r.lines) - r.with.discount,
                              weight |-> Weight(r.lines), freeShipping |-> r.with.freeShipping]
           /\ shown.offers = quoteShipping(zone, method, address, shown.parcel, couriers)
<1>1. AllSold /\ r.lines = Lines /\ r.with = Evaluated(Lines)
  BY DEF RequestFresh
<1>2. Purchasable(Lines) = Lines
  BY <1>1, AllIsPurchasable DEF QuotesInv
<1>3. bag # <<>>
  BY DEF RequestSound
<1>4. /\ shown.parcel = ParcelNow
      /\ shown.offers = quoteShipping(zone, method, address, shown.parcel, couriers)
  BY <1>3 DEF QuotesInv, ShownStands
<1> QED BY <1>1, <1>2, <1>4 DEF ParcelNow

\* POST /orders places the order or refuses it.
LEMMA PlaceKeeps ==
    ASSUME QuotesInv, NEW h \in Handler, Place(h)
    PROVE  QuotesInv'
<1> DEFINE r == request[h]
           p == [subtotal |-> Subtotal(r.lines) - r.with.discount, weight |-> Weight(r.lines),
                 freeShipping |-> r.with.freeShipping]
           chosen == priceChosenMethod(zone, method, r.method, address, p, couriers)
           offer == IF r.method = Null THEN Null ELSE chosen
           sound == r.sold /\ r.with # Null /\ bag = r.bag
           as    == h \in fresh /\ stands
<1>1. /\ Proceed(h) /\ r.op = "order"
      /\ UNCHANGED <<zone, method, price, onSale, coupon, address, couriers, shown>>
  BY DEF Place, catalogue, delivery, given
<1>2. IF sound /\ (r.method = Null \/ offer # Null)
      THEN /\ lastOrder' = Bill(r, offer, as)
           /\ bag' = <<>> /\ coded' = FALSE /\ stands' = FALSE
      ELSE /\ lastOrder' = Refusal(r, as /\ sound)
           /\ UNCHANGED <<bag, coded, stands>>
  BY DEF Place
<1>3. RequestSound(r)
  BY DEF QuotesInv
<1>4. QuotesShape
  BY DEF QuotesInv
<1>5. (\A g \in Handler : RequestSound(request[g]))'
  BY <1>1, RequestDone DEF RequestSound
\* What was offered is what is charged.
<1>6. ASSUME sound, as, r.method \in DOMAIN shown.offers
      PROVE  r.method # Null /\ offer # Null /\ offer = shown.offers[r.method]
  <2>1. RequestFresh(r)
    BY <1>6 DEF QuotesInv
  <2>2. shown.parcel = p /\ shown.offers = quoteShipping(zone, method, address, p, couriers)
    BY <1>1, <1>3, <1>6, <2>1, ParcelOfOrder
  <2> HIDE DEF p
  <2>3. r.method \in DOMAIN quoteShipping(zone, method, address, p, couriers)
    BY <1>6, <2>2
  <2>4. /\ zone \in [DOMAIN Zones -> ZoneRow] /\ method \in [DOMAIN Methods -> MethodRow]
        /\ couriers \in Couriers
    BY <1>4 DEF QuotesShape
  <2>5. /\ r.method # Null /\ chosen # Null
        /\ chosen = quoteShipping(zone, method, address, p, couriers)[r.method]
    BY <2>3, <2>4, OfferedIsPriced
  <2> QED BY <2>2, <2>5
<1>7. CASE sound /\ (r.method = Null \/ offer # Null)
  <2>1. lastOrder' = Bill(r, offer, as) /\ bag' = <<>> /\ coded' = FALSE /\ stands' = FALSE
    BY <1>2, <1>7
  <2>2. r.method # Null => offer \in Offer
    <3>1. r.method \in {Null} \cup DOMAIN Methods
      BY <1>1, <1>3 DEF RequestSound
    <3> HIDE DEF p
    <3> QED BY <1>4, <1>7, <3>1, ChosenType
  <2>3. ASSUME as PROVE Subtotal(r.lines) - r.with.discount = shown.parcel.subtotal
    <3>1. RequestFresh(r)
      BY <2>3 DEF QuotesInv
    <3>2. shown.parcel = p
      BY <1>1, <1>3, <1>7, <2>3, <3>1, ParcelOfOrder
    <3> QED BY <3>2
  <2> HIDE DEF offer, as
  <2>4. OrderAddsUp(Bill(r, offer, as))
    BY <1>1, <1>3, <1>7, <2>2, BillAddsUp
  <2>5. OrderAsShown(Bill(r, offer, as))
    <3> DEFINE b == Bill(r, offer, as)
    <3>1. /\ b.lines = r.lines /\ b.discount = r.with.discount /\ b.method = r.method
          /\ b.shown = shown /\ b.asShown = as /\ b.refused = FALSE
          /\ r.method # Null => b.shipping = offer.cost + offer.codFee
      BY DEF Bill, PricedLines
    <3> HIDE DEF b
    <3> QED BY <1>6, <1>7, <2>3, <3>1 DEF OrderAsShown, b
  <2>6. (lastOrder # Null => OrderAddsUp(lastOrder) /\ OrderAsShown(lastOrder))'
    BY <2>1, <2>4, <2>5
  <2>7. QuotesShape' /\ SetShared(bag)'
    <3>1. bag' \in Seq(BagLine) /\ DOMAIN bag' = {}
      BY <2>1
    <3>2. SetShared(bag')
      BY <3>1, NoSet
    <3>3. QuotesShape'
      BY <1>1, <1>4, <2>1, <3>1, RequestDone DEF QuotesShape
    <3> QED BY <3>2, <3>3 DEF SetShared, OfSet, UnitsIn
  <2>8. ShownStands'
    BY <2>1 DEF ShownStands
  <2>9. (\A g \in fresh : RequestFresh(request[g]))'
    <3>1. \A g \in fresh' : g \in Handler /\ request'[g] = request[g] /\ RequestSound(request[g])
      BY <1>1, RequestDone DEF QuotesInv
    <3> QED BY <2>1, <3>1 DEF RequestFresh, RequestSound
  <2> QED BY <1>5, <2>6, <2>7, <2>8, <2>9 DEF QuotesInv
<1>8. CASE ~(sound /\ (r.method = Null \/ offer # Null))
  <2>1. lastOrder' = Refusal(r, as /\ sound) /\ UNCHANGED <<bag, coded, stands>>
    BY <1>2, <1>8
  <2>2. ParcelNow' = ParcelNow /\ \A s : RequestFresh(s) => RequestFresh(s)'
    BY <1>1, <2>1, FiguresStay
  <2> DEFINE b == Refusal(r, as /\ sound)
  <2>3. OrderAddsUp(b) /\ OrderAsShown(b)
    <3>1. b.refused = TRUE /\ b.method = r.method /\ b.shown = shown /\ b.asShown = (as /\ sound)
      BY DEF Refusal
    <3> HIDE DEF b, offer, as, sound
    <3> QED BY <1>6, <1>8, <3>1 DEF OrderAddsUp, OrderAsShown
  <2> HIDE DEF b
  <2>4. (lastOrder # Null => OrderAddsUp(lastOrder) /\ OrderAsShown(lastOrder))'
    BY <2>1, <2>3 DEF b
  <2>5. QuotesShape' /\ SetShared(bag)'
    BY <1>1, <2>1, RequestDone DEF QuotesInv, QuotesShape, SetShared, OfSet, UnitsIn
  <2>6. ShownStands'
    BY <1>1, <2>1, <2>2 DEF QuotesInv, ShownStands
  <2>7. (\A g \in fresh : RequestFresh(request[g]))'
    BY <1>1, <2>2, RequestDone DEF QuotesInv
  <2> QED BY <1>5, <2>4, <2>5, <2>6, <2>7 DEF QuotesInv
<1> QED BY <1>7, <1>8

\* Before anything is shown or read.
LEMMA QuotesInitHolds == QuotesInit => QuotesInv
<1> SUFFICES ASSUME QuotesInit PROVE QuotesInv
  OBVIOUS
<1>1. QuotesShape
  <2>1. price \in [DOMAIN Product \cup {Look} -> Nat]
    BY QuotesAssumption DEF QuotesInit
  <2>2. 0 \in 0 .. MaxRequests
    BY QuotesAssumption
  <2>3. bag \in Seq(BagLine) /\ zone = Zones /\ method = Methods
    BY DEF QuotesInit
  <2> QED BY <2>1, <2>2, <2>3, QuotesAssumption DEF QuotesInit, QuotesShape
<1>2. SetShared(bag)
  <2>1. DOMAIN bag = {}
    BY DEF QuotesInit
  <2> QED BY <2>1, NoSet
<1>3. ShownStands /\ lastOrder = Null /\ fresh = {}
  BY DEF QuotesInit, ShownStands
<1>4. \A h \in Handler : RequestSound(request[h])
  BY DEF QuotesInit, RequestSound, Idle
<1> QED BY <1>1, <1>2, <1>3, <1>4 DEF QuotesInv

\* Whatever the customer does.
LEMMA ShopKeeps ==
    ASSUME QuotesInv, Shop
    PROVE  QuotesInv'
<1>1. ASSUME NEW p \in DOMAIN Product, NEW part \in Product[p].parts \cup {Null}, addItem(p, part)
      PROVE  QuotesInv'
  BY <1>1, addItemKeeps
<1>2. ASSUME NEW taken \in SUBSET DOMAIN Pieces, Cardinality(taken) >= 2, addSet(taken)
      PROVE  QuotesInv'
  BY <1>2, addSetKeeps
<1>3. ASSUME NEW i \in DOMAIN bag, NEW q \in {0, 2}, updateItem(i, q)
      PROVE  QuotesInv'
  BY <1>3, updateItemKeeps
<1>4. ASSUME applyCoupon PROVE QuotesInv'
  BY <1>4, applyCouponKeeps
<1>5. ASSUME NEW h \in Handler, quote(h) PROVE QuotesInv'
  BY <1>5, quoteKeeps
<1>6. ASSUME NEW h \in Handler, NEW m \in DOMAIN method \cup {Null}, createOrder(h, m)
      PROVE  QuotesInv'
  BY <1>6, createOrderKeeps
<1> QED BY <1>1, <1>2, <1>3, <1>4, <1>5, <1>6 DEF Shop

\* Whatever staff and the carrier do.
LEMMA ManageKeeps ==
    ASSUME QuotesInv, Manage
    PROVE  QuotesInv'
<1>1. ASSUME NEW p \in DOMAIN price, archive(p) PROVE QuotesInv'
  BY <1>1, archiveKeeps
<1>2. ASSUME NEW p \in DOMAIN price, NEW amount \in Prices, changePrice(p, amount)
      PROVE  QuotesInv'
  BY <1>2, changePriceKeeps
<1>3. ASSUME NEW z \in DOMAIN zone, NEW h \in Handler, updateZone(h, z) PROVE QuotesInv'
  BY <1>3, updateZoneKeeps
<1>4. ASSUME NEW z \in DOMAIN zone, NEW a \in BOOLEAN, NEW s \in BOOLEAN, refuseZone(z, a, s)
      PROVE  QuotesInv'
  BY <1>4, refuseZoneKeeps
<1>5. ASSUME NEW m \in DOMAIN method, NEW rate \in Prices, NEW a \in BOOLEAN, updateMethod(m, rate, a)
      PROVE  QuotesInv'
  BY <1>5, updateMethodKeeps
<1>6. ASSUME NEW m \in DOMAIN method, method[m].bands # <<>>,
             replaceRates(m, <<Last(method[m].bands)>>)
      PROVE  QuotesInv'
  BY <1>6, replaceRatesKeeps
<1>7. ASSUME CarrierChanges PROVE QuotesInv'
  BY <1>7, CarrierChangesKeeps
<1> QED BY <1>1, <1>2, <1>3, <1>4, <1>5, <1>6, <1>7 DEF Manage

\* One step, whoever takes it.
LEMMA QuotesStep == QuotesInv /\ [QuotesNext]_quotesVars => QuotesInv'
<1> SUFFICES ASSUME QuotesInv, [QuotesNext]_quotesVars PROVE QuotesInv'
  OBVIOUS
<1>1. CASE Shop
  BY <1>1, ShopKeeps
<1>2. CASE Manage
  BY <1>2, ManageKeeps
<1>3. ASSUME NEW h \in Handler, QuoteAnswer(h) \/ Place(h) \/ clearOtherDefaults(h) \/ Stop(h)
      PROVE  QuotesInv'
  BY <1>3, QuoteAnswerKeeps, PlaceKeeps, clearOtherDefaultsKeeps, StopKeeps
<1>4. CASE UNCHANGED quotesVars
  <2>1. UNCHANGED <<zone, method, price, onSale, bag, coded, lastOrder, coupon, address, couriers,
                    request, served, shown, stands, fresh>>
    BY <1>4 DEF quotesVars
  <2>2. ParcelNow' = ParcelNow /\ \A s : RequestFresh(s) => RequestFresh(s)'
    BY <2>1, FiguresStay
  <2>3. QuotesShape' /\ SetShared(bag)'
    BY <2>1 DEF QuotesInv, QuotesShape, SetShared, OfSet, UnitsIn
  <2>4. ShownStands'
    BY <2>1, <2>2 DEF QuotesInv, ShownStands
  <2>5. (\A h \in fresh : RequestFresh(request[h]))'
    BY <2>1, <2>2 DEF QuotesInv
  <2>6. (\A h \in Handler : RequestSound(request[h]))'
    BY <2>1 DEF QuotesInv, RequestSound
  <2>7. (lastOrder # Null => OrderAddsUp(lastOrder) /\ OrderAsShown(lastOrder))'
    BY <2>1 DEF QuotesInv
  <2> QED BY <2>3, <2>4, <2>5, <2>6, <2>7 DEF QuotesInv
<1> QED BY <1>1, <1>2, <1>3, <1>4 DEF QuotesNext

\* Whatever is quoted, ordered and changed at once, the invariant holds.
LEMMA QuotesInvAlways == QuotesSpec => []QuotesInv
BY QuotesInitHolds, QuotesStep, PTL DEF QuotesSpec

\* What the invariant says of the bag and of the order.
LEMMA QuotesTyped == QuotesInv => QuotesTypeOK
<1> SUFFICES ASSUME QuotesInv PROVE QuotesTypeOK
  OBVIOUS
<1>1. /\ DOMAIN zone = DOMAIN Zones /\ DOMAIN method = DOMAIN Methods
      /\ price \in [DOMAIN Product \cup {Look} -> Nat] /\ onSale \subseteq DOMAIN price
      /\ coded \in BOOLEAN /\ served \in 0 .. MaxRequests
  BY DEF QuotesInv, QuotesShape
<1>2. \A i \in DOMAIN bag : /\ bag[i].product \in DOMAIN Product /\ bag[i].quantity \in Nat \ {0}
                            /\ bag[i].unit \in Nat \cup {Null}
  <2>1. \A i \in DOMAIN bag : bag[i] \in BagLine
    BY DEF QuotesInv, QuotesShape
  <2> QED BY <2>1 DEF BagLine
<1>3. lastOrder # Null /\ ~lastOrder.refused =>
         lastOrder.total \in Nat /\ lastOrder.shipping \in Nat /\ lastOrder.tax \in Nat
  BY DEF QuotesInv, OrderAddsUp
<1> QED BY <1>1, <1>2, <1>3 DEF QuotesTypeOK

\* An address some method is offered for is not answered "we do not deliver".
LEMMA OfferedIsServiceable == QuotesInv => PinCheckAgrees
<1> SUFFICES ASSUME QuotesInv, stands, address.pinned, address.country = India, couriers # {},
                    NEW m \in DOMAIN shown.offers
             PROVE  LET answer == serviceability(zone, method, address, couriers)
                    IN  answer.serviceable /\ (method[m].isCod => answer.cod)
  BY DEF PinCheckAgrees
<1> DEFINE z == resolveZone(zone, address)
<1>1. shown.offers = quoteShipping(zone, method, address, shown.parcel, couriers)
  BY DEF QuotesInv, ShownStands
<1>2. m \in ActiveIn(method, z) /\ z # Null /\ zone[z].isServiceable
  BY <1>1 DEF quoteShipping
<1>3. Asked(couriers, address) # {}
  BY DEF Asked
<1> HIDE DEF z
<1> QED BY <1>2, <1>3 DEF serviceability, z

\* POST /orders bills the goods and the delivery that GET /shipping/quote
\* showed while nothing has changed since, on lines and sums that are never
\* less than nothing.
THEOREM AlwaysBilledAsShown == QuotesSpec => []ShownIsBilled
<1>1. QuotesInv => ShownIsBilled
  <2>1. QuotesInv => BilledAsShown
    BY DEF QuotesInv, OrderAsShown, BilledAsShown
  <2> QED BY <2>1, QuotesTyped DEF ShownIsBilled
<1> QED BY <1>1, QuotesInvAlways, PTL

\* A delivery method the last quote offered is not refused by POST /orders
\* while nothing has changed since, nor was its PIN code by the product page.
THEOREM OffersAlwaysStand == QuotesSpec => []OfferStands
<1>1. QuotesInv => OfferStands
  BY OfferedIsServiceable DEF QuotesInv, OrderAsShown, OfferStands
<1> QED BY <1>1, QuotesInvAlways, PTL

\* allocateSetPrice and allocateProportionally neither lose a paisa nor make
\* one: a set's pieces cost what it does, and an order's discount is its lines'.
THEOREM SharesAlwaysAddUp == QuotesSpec => []SharesAddUp
<1>1. QuotesInv => SharesAddUp
  BY DEF QuotesInv, SetShared, OfSet, UnitsIn, OrderAddsUp, SharesAddUp
<1> QED BY <1>1, QuotesInvAlways, PTL

=============================================================================
