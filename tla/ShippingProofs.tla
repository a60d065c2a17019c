--------------------------- MODULE ShippingProofs ---------------------------
(***************************************************************************)
(* Theorems about the parcels of an order: Shipments, for any number of    *)
(* parcels, lines and handlers and any purchase; and, in the second part,  *)
(* Carrier, for any number of packages, handlers and couriers.             *)
(***************************************************************************)
EXTENDS Shipments, Carrier, SumTheorems, TLAPS

-----------------------------------------------------------------------------
(* Shipments: the inductive invariant *)

Places == {"idle", "autobooking", "numbering", "creating", "checking", "booking", "saving",
           "finding", "applying", "arriving", "arrived", "callingOff", "finishing"}

WithParcel  == Places \ {"idle", "autobooking", "numbering", "creating"}
WithEvent   == {"finding", "applying", "arriving", "arrived", "finishing"}
Updating    == {"applying", "arriving", "arrived"}

ParcelJob ==
         [parcel   : Parcel \cup {None},
          quantity : Quantities,
          number   : Nat,
          order    : Status,
          current  : ShipmentStatus,
          fully    : BOOLEAN,
          collects : BOOLEAN,
          tracked  : BOOLEAN,
          book     : BOOLEAN,
          status   : ShipmentStatus,
          provider : BOOLEAN,
          verdict  : {"open", "PROCESSED"}]

\* What a handler at p with j works on: a parcel there is, an event the carrier
\* reports, a number not beyond the next, a status recorded before the webhook
\* row is said to be processed.
Knows(p, j) ==
    /\ p \in WithParcel => j.parcel \in Parcels
    /\ j.provider => p \in WithEvent /\ j.status \in Reports
    /\ p \in {"arriving", "arrived"} => j.status = "DELIVERED"
    /\ p = "finishing" /\ j.verdict = "PROCESSED" => j.status \in trail[j.parcel]
    /\ p = "creating" => j.number <= Cardinality(Parcels) + 1

\* What it read of its parcel, of the order and of the siblings still holds, and
\* the parcel it is about to book is not booked.
UpToDate(p, j) ==
    /\ p \in Updating => /\ j.current = parcel[j.parcel].status
                         /\ j.order = "DELIVERED" => order = "DELIVERED"
    /\ p = "arrived" => (j.fully <=> \A q \in Live \ {j.parcel} : parcel[q].status = "DELIVERED")
    /\ p = "booking" => parcel[j.parcel].reference # "booked"

\* A parcel it can still create fits, and collects only if none does.
Packs(p, j) == p = "numbering" \/ (p = "creating" /\ j.number > Cardinality(Parcels))

Fits(j) ==
    /\ j.collects => \A q \in Live : ~parcel[q].collects
    /\ \A l \in Line : alreadyShipped(l) + j.quantity[l] <= Purchased[l]

AllUpToDate == ~raced => \A w \in Worker : UpToDate(pc[w], job[w])
AllFit      == ~raced /\ ~revived => \A w \in Worker : Packs(pc[w], job[w]) => Fits(job[w])

\* A pickup the carrier has is one we know of, or are about to.
PickupsKnown ==
    ~raced /\ mishaps = 0 => \A p \in Parcel :
        consignments[p] > 0 => \/ parcel[p].reference = "booked"
                               \/ \E w \in Worker : pc[w] = "saving" /\ job[w].parcel = p

\* What has a webhook row, or a pickup, is a parcel.
OnTheBooks ==
    \A p \in Parcel :
        /\ consignments[p] > 0 => p \in Parcels
        /\ \A status \in Reports : hook[p][status] # "none" => p \in Parcels

ShipmentsInv ==
    /\ TypeOK /\ OnTheBooks
    /\ \A w \in Worker : Knows(pc[w], job[w])
    /\ AllUpToDate /\ AllFit /\ PickupsKnown
    /\ ShippedWithinPurchase /\ CollectedOnce /\ BookedOnce /\ ProcessedIsOnTrail

-----------------------------------------------------------------------------
(* Shipments: facts about quantities, rows and handlers *)

LEMMA QuantitiesFacts ==
    /\ Quantities \subseteq [Line -> Nat]
    /\ Nothing \in Quantities /\ Purchased \in Quantities
    /\ Purchased \in [Line -> Nat]
<1> DEFINE S == {Purchased[l] : l \in Line} \cup {0}
<1>1. Purchased \in [Line -> Nat] /\ IsFiniteSet(Line)
  BY ShipmentsAssumption
<1>2. IsFiniteSet(S) /\ S # {} /\ S \subseteq Int
  <2>1. IsFiniteSet({Purchased[l] : l \in Line})
    BY <1>1, ValuesAreFinite
  <2> QED BY <1>1, <2>1, FS_AddElement
<1>3. Max(S) \in Int /\ \A y \in S : y <= Max(S)
  BY <1>2, MaxOfFinite
<1>4. 0 <= Max(S) /\ \A l \in Line : Purchased[l] <= Max(S)
  BY <1>3
<1>5. Quantities = [Line -> 0 .. Max(S)]
  BY DEF Quantities
<1> HIDE DEF S
<1> QED BY <1>1, <1>3, <1>4, <1>5 DEF Nothing

LEMMA NoJobFacts ==
    /\ NoJob \in ParcelJob /\ NoJob.provider = FALSE /\ NoJob.parcel = None
    /\ NoJob.verdict = "open" /\ NoJob.collects = FALSE
BY QuantitiesFacts DEF NoJob, ParcelJob, Status, ShipmentStatus

\* A handler that is at rest, or has only a call to make, has read nothing.
LEMMA Settled ==
    ASSUME NEW p \in {"idle", "autobooking", "checking", "saving", "finding", "callingOff", "finishing"},
           NEW j
    PROVE  UpToDate(p, j) /\ ~Packs(p, j)
BY DEF UpToDate, Packs, Updating

LEMMA IdleKnows == Knows("idle", NoJob) /\ "idle" \in Places
BY NoJobFacts DEF Knows, WithParcel, WithEvent, Places

LEMMA RowFacts ==
    /\ NoParcel.status = "NO_PARCEL" /\ "NO_PARCEL" \notin ShipmentStatus
    /\ NoParcel.reference = "none"
    /\ \A r \in Row : r # NoParcel
    /\ \A r \in Row, s \in ShipmentStatus :
          /\ [r EXCEPT !.status = s] \in Row /\ [r EXCEPT !.status = s].status = s
          /\ [r EXCEPT !.status = s].quantity = r.quantity
          /\ [r EXCEPT !.status = s].collects = r.collects
          /\ [r EXCEPT !.status = s].reference = r.reference
    /\ \A r \in Row :
          /\ [r EXCEPT !.reference = "booked"] \in Row
          /\ [r EXCEPT !.reference = "booked"].reference = "booked"
          /\ [r EXCEPT !.reference = "booked"].status = r.status
          /\ [r EXCEPT !.reference = "booked"].quantity = r.quantity
          /\ [r EXCEPT !.reference = "booked"].collects = r.collects
BY DEF NoParcel, Row, ShipmentStatus

\* The parcels there are have rows, and the sums over them are counts.
LEMMA ParcelsFacts ==
    ASSUME TypeOK
    PROVE  /\ IsFiniteSet(Parcels) /\ IsFiniteSet(Live) /\ Live \subseteq Parcels
           /\ Parcels \subseteq Parcel /\ Cardinality(Parcels) \in Nat
           /\ \A p \in Parcels : parcel[p] \in Row /\ parcel[p].quantity \in [Line -> Nat]
           /\ \A l \in Line : alreadyShipped(l) \in Nat
<1>1. IsFiniteSet(Parcel) /\ Parcels \subseteq Parcel /\ Live \subseteq Parcels
  BY ShipmentsAssumption DEF Parcels, Live
<1>2. IsFiniteSet(Parcels) /\ IsFiniteSet(Live) /\ Cardinality(Parcels) \in Nat
  <2>1. IsFiniteSet(Parcels)
    BY <1>1, FS_Subset
  <2> QED BY <1>1, <2>1, FS_Subset, FS_CardinalityType
<1>3. \A p \in Parcels : parcel[p] \in Row /\ parcel[p].quantity \in [Line -> Nat]
  <2>1. \A p \in Parcels : parcel[p] \in Row
    BY DEF Parcels, TypeOK
  <2>2. \A r \in Row : r.quantity \in [Line -> Nat]
    BY QuantitiesFacts DEF Row
  <2> QED BY <2>1, <2>2
<1>4. ASSUME NEW l \in Line
      PROVE  alreadyShipped(l) \in Nat
  <2> DEFINE f == [p \in Parcels |-> parcel[p].quantity[l]]
  <2>1. \A p \in Live : f[p] \in Nat
    BY <1>1, <1>3
  <2>2. alreadyShipped(l) = SumFunctionOnSet(f, Live)
    BY DEF alreadyShipped
  <2> HIDE DEF f
  <2> QED BY <1>2, <2>1, <2>2, SumType
<1> QED BY <1>1, <1>2, <1>3, <1>4

\* The same as states, to be primed.
Shipped == \A l \in Line : alreadyShipped(l) \in Nat

LEMMA ShippedIsCounted == TypeOK => Shipped
BY ParcelsFacts DEF Shipped

LEMMA WorkerGoes ==
    ASSUME TypeOK, NEW w \in Worker, NEW where \in Places, NEW j \in ParcelJob, Goto(w, where, j)
    PROVE  /\ pc' \in [Worker -> Places] /\ job' \in [Worker -> ParcelJob]
           /\ pc'[w] = where /\ job'[w] = j
           /\ \A v \in Worker \ {w} : pc'[v] = pc[v] /\ job'[v] = job[v]
<1>1. pc \in [Worker -> Places] /\ job \in [Worker -> ParcelJob]
  BY DEF TypeOK, Places, ParcelJob
<1> QED BY <1>1 DEF Goto

LEMMA InvFacts ==
    ASSUME ShipmentsInv, NEW w \in Worker
    PROVE  /\ pc[w] \in Places /\ job[w] \in ParcelJob /\ Knows(pc[w], job[w])
           /\ ~raced => UpToDate(pc[w], job[w])
           /\ ~raced /\ ~revived /\ Packs(pc[w], job[w]) => Fits(job[w])
<1>1. pc \in [Worker -> Places] /\ job \in [Worker -> ParcelJob]
  BY DEF ShipmentsInv, TypeOK, Places, ParcelJob
<1> QED BY <1>1 DEF ShipmentsInv, AllUpToDate, AllFit

-----------------------------------------------------------------------------
(* Shipments: a handler goes on *)

\* The steps that leave the rows of the parcels and the order as they were.
LEMMA RowsStay ==
    ASSUME ShipmentsInv, NEW w \in Worker, NEW where \in Places, NEW j \in ParcelJob,
           Goto(w, where, j), UNCHANGED <<order, collects, parcel, trail, revived>>,
           raced' \in BOOLEAN, raced => raced',
           calls' \in 0 .. MaxCalls, mishaps' \in 0 .. MaxMishaps,
           hook' \in [Parcel -> [Reports -> {"none", "open", "PROCESSED"}]],
           consignments' \in [Parcel -> Nat],
           Knows(where, j), ~raced' => UpToDate(where, j), ~raced /\ ~revived /\ Packs(where, j) => Fits(j),
           BookedOnce', PickupsKnown', ProcessedIsOnTrail', OnTheBooks'
    PROVE  ShipmentsInv'
<1>1. /\ order' = order /\ collects' = collects /\ parcel' = parcel /\ trail' = trail
      /\ revived' = revived
  OBVIOUS
<1>2. TypeOK
  BY DEF ShipmentsInv
<1>3. /\ pc' \in [Worker -> Places] /\ job' \in [Worker -> ParcelJob]
      /\ pc'[w] = where /\ job'[w] = j
      /\ \A v \in Worker \ {w} : pc'[v] = pc[v] /\ job'[v] = job[v]
  BY <1>2, WorkerGoes
<1>4. Parcels' = Parcels /\ Live' = Live
  BY <1>1 DEF Parcels, Live
<1>5. \A l : alreadyShipped(l)' = alreadyShipped(l)
  BY <1>1, <1>4 DEF alreadyShipped
<1>6. ASSUME NEW v \in Worker
      PROVE  Knows(pc[v], job[v])'
  <2>1. Knows(pc'[v], job'[v])
    BY <1>3, InvFacts
  <2> QED BY <1>1, <1>4, <2>1 DEF Knows
<1>7. ASSUME NEW v \in Worker, ~raced'
      PROVE  UpToDate(pc[v], job[v])'
  <2>1. UpToDate(pc'[v], job'[v])
    BY <1>1, <1>3, <1>7, InvFacts
  <2> QED BY <1>1, <1>4, <2>1 DEF UpToDate
<1>8. ASSUME NEW v \in Worker, ~raced', ~revived', Packs(pc[v], job[v])'
      PROVE  Fits(job[v])'
  <2>1. Packs(pc'[v], job'[v])
    BY <1>4, <1>8 DEF Packs
  <2>2. Fits(job'[v])
    BY <1>1, <1>3, <1>8, <2>1, InvFacts
  <2> QED BY <1>1, <1>4, <1>5, <2>2 DEF Fits
<1>9. TypeOK'
  <2>1. \A v \in Worker : pc'[v] \in WithParcel => job'[v].parcel \in Parcels'
    BY <1>6 DEF Knows
  <2> QED BY <1>1, <1>2, <1>3, <2>1 DEF TypeOK, Places, ParcelJob, WithParcel
<1>10. ShippedWithinPurchase' /\ CollectedOnce'
  BY <1>1, <1>4, <1>5 DEF ShipmentsInv, ShippedWithinPurchase, CollectedOnce
<1> QED
  BY <1>6, <1>7, <1>8, <1>9, <1>10 DEF ShipmentsInv, AllUpToDate, AllFit

\* To `where` with j, and nothing is committed.
LEMMA GoesOn ==
    ASSUME ShipmentsInv, NEW w \in Worker, NEW where \in Places, NEW j \in ParcelJob,
           Goto(w, where, j), UNCHANGED <<dbVars, consignments, raced, revived>>,
           calls' \in 0 .. MaxCalls, mishaps' \in 0 .. MaxMishaps,
           mishaps # 0 \/ pc[w] = "saving" => mishaps' # 0,
           Knows(where, j), ~raced => UpToDate(where, j),
           ~raced /\ ~revived /\ Packs(where, j) => Fits(j)
    PROVE  ShipmentsInv'
<1>1. /\ parcel' = parcel /\ trail' = trail /\ hook' = hook
      /\ consignments' = consignments /\ raced' = raced
  BY DEF dbVars
<1>2. TypeOK
  BY DEF ShipmentsInv
<1>3. PickupsKnown'
  <2> SUFFICES ASSUME ~raced', mishaps' = 0, NEW p \in Parcel, consignments'[p] > 0,
                      parcel'[p].reference # "booked"
               PROVE  \E v \in Worker : pc'[v] = "saving" /\ job'[v].parcel = p
    BY DEF PickupsKnown
  <2>1. PICK v \in Worker : pc[v] = "saving" /\ job[v].parcel = p
    BY <1>1 DEF ShipmentsInv, PickupsKnown
  <2> QED BY <1>2, <2>1, WorkerGoes
<1>4. BookedOnce' /\ ProcessedIsOnTrail' /\ OnTheBooks'
  BY <1>1 DEF ShipmentsInv, BookedOnce, ProcessedIsOnTrail, OnTheBooks, Parcels
<1>5. /\ raced' \in BOOLEAN /\ consignments' \in [Parcel -> Nat]
      /\ hook' \in [Parcel -> [Reports -> {"none", "open", "PROCESSED"}]]
  BY <1>1, <1>2 DEF TypeOK
<1> QED
  BY <1>1, <1>3, <1>4, <1>5, RowsStay DEF dbVars

\* Back to rest, with the call over.
LEMMA Rests ==
    ASSUME ShipmentsInv, NEW w \in Worker, Goto(w, "idle", NoJob), pc[w] # "saving",
           UNCHANGED <<dbVars, consignments, raced, revived, calls, mishaps>>
    PROVE  ShipmentsInv'
<1>1. calls' \in 0 .. MaxCalls /\ mishaps' \in 0 .. MaxMishaps
  BY DEF ShipmentsInv, TypeOK
<1> QED
  BY <1>1, IdleKnows, NoJobFacts, Settled, GoesOn

\* A call begins, and nothing is written.
LEMMA Begins ==
    ASSUME ShipmentsInv, NEW w \in Worker, NEW where \in Places, NEW j \in ParcelJob,
           pc[w] = "idle", Call, Goto(w, where, j),
           UNCHANGED <<dbVars, consignments, raced, revived, mishaps>>,
           Knows(where, j), ~raced => UpToDate(where, j), 
           ~raced /\ ~revived /\ Packs(where, j) => Fits(j)
    PROVE  ShipmentsInv'
<1>1. calls' \in 0 .. MaxCalls /\ mishaps' \in 0 .. MaxMishaps
  BY ShipmentsAssumption DEF ShipmentsInv, TypeOK, Call
<1> QED
  BY <1>1, GoesOn

\* A step within a call, and nothing is written.
LEMMA StepsOn ==
    ASSUME ShipmentsInv, NEW w \in Worker, NEW where \in Places, NEW j \in ParcelJob,
           pc[w] # "saving", Goto(w, where, j),
           UNCHANGED <<dbVars, consignments, historyVars>>,
           Knows(where, j), ~raced => UpToDate(where, j), 
           ~raced /\ ~revived /\ Packs(where, j) => Fits(j)
    PROVE  ShipmentsInv'
<1>1. /\ calls' \in 0 .. MaxCalls /\ mishaps' \in 0 .. MaxMishaps
      /\ UNCHANGED <<raced, revived, calls, mishaps>>
  BY DEF ShipmentsInv, TypeOK, historyVars
<1> QED
  BY <1>1, GoesOn

-----------------------------------------------------------------------------
(* Shipments: the steps that write nothing *)

\* What PackRead leaves is a parcel that fits.
LEMMA PackReadFits ==
    ASSUME ShipmentsInv, NEW w \in Worker, NEW quantity \in Quantities,
           NEW tracked \in BOOLEAN, NEW book \in BOOLEAN, PackRead(w, quantity, tracked, book)
    PROVE  \E j \in ParcelJob : /\ Goto(w, "numbering", j) /\ Knows("numbering", j)
                                /\ UpToDate("numbering", j) /\ Fits(j)
<1> DEFINE all == \A l \in Line : alreadyShipped(l) + quantity[l] >= Purchased[l]
           j   == [NoJob EXCEPT
                    !.quantity = quantity, !.order = order, !.collects = codAmount,
                    !.tracked = tracked, !.book = book, !.fully = all]
<1>1. j \in ParcelJob
  <2>1. all \in BOOLEAN /\ codAmount \in BOOLEAN /\ order \in Status
    BY DEF codAmount, ShipmentsInv, TypeOK
  <2> HIDE DEF all
  <2> QED BY <2>1, NoJobFacts, ZenonT(90) DEF ParcelJob
<1>2. j.provider = FALSE /\ j.quantity = quantity /\ (j.collects <=> codAmount)
  BY NoJobFacts DEF ParcelJob
<1>3. Goto(w, "numbering", j)
  BY DEF PackRead
<1>4. \A l \in Line : quantity[l] <= Purchased[l] - alreadyShipped(l)
  BY DEF PackRead
<1> HIDE DEF j
<1>5. Knows("numbering", j) /\ UpToDate("numbering", j)
  BY <1>2 DEF Knows, UpToDate, WithParcel, WithEvent, Updating
<1>6. Fits(j)
  <2>1. \A l \in Line : alreadyShipped(l) + quantity[l] <= Purchased[l]
    <3> SUFFICES ASSUME NEW l \in Line
                 PROVE  alreadyShipped(l) + quantity[l] <= Purchased[l]
      OBVIOUS
    <3>1. alreadyShipped(l) \in Nat /\ quantity[l] \in Nat /\ Purchased[l] \in Nat
      BY ParcelsFacts, QuantitiesFacts DEF ShipmentsInv
    <3> QED BY <1>4, <3>1
  <2> QED BY <1>2, <2>1 DEF Fits, codAmount
<1> QED BY <1>1, <1>3, <1>5, <1>6

LEMMA StaffPackStep ==
    ASSUME ShipmentsInv, NEW w \in Worker, NEW quantity \in Quantities,
           NEW tracked \in BOOLEAN, NEW book \in BOOLEAN, StaffPack(w, quantity, tracked, book)
    PROVE  ShipmentsInv'
<1>1. PackRead(w, quantity, tracked, book) /\ pc[w] = "idle" /\ Call
  BY DEF StaffPack
<1>2. UNCHANGED <<dbVars, consignments, raced, revived, mishaps>>
  BY <1>1 DEF PackRead
<1>3. PICK j \in ParcelJob : /\ Goto(w, "numbering", j) /\ Knows("numbering", j)
                             /\ UpToDate("numbering", j) /\ Fits(j)
  BY <1>1, PackReadFits
<1>4. "numbering" \in Places
  BY DEF Places
<1> QED BY <1>1, <1>2, <1>3, <1>4, Begins

LEMMA AutoPackStep ==
    ASSUME ShipmentsInv, NEW w \in Worker, AutoPack(w)
    PROVE  ShipmentsInv'
<1>1. CASE PackRead(w, Purchased, FALSE, TRUE) /\ UNCHANGED calls
  <2>1. UNCHANGED <<dbVars, consignments, historyVars>>
    BY <1>1 DEF PackRead, historyVars
  <2>2. PICK j \in ParcelJob : /\ Goto(w, "numbering", j) /\ Knows("numbering", j)
                               /\ UpToDate("numbering", j) /\ Fits(j)
    BY <1>1, QuantitiesFacts, PackReadFits
  <2>3. "numbering" \in Places /\ pc[w] # "saving"
    BY DEF Places, AutoPack
  <2> QED BY <2>1, <2>2, <2>3, StepsOn
<1>2. CASE Goto(w, "idle", NoJob) /\ UNCHANGED <<dbVars, consignments, historyVars>>
  BY <1>2, Rests DEF AutoPack, historyVars
<1> QED BY <1>1, <1>2 DEF AutoPack

LEMMA AutoBookStep ==
    ASSUME ShipmentsInv, NEW w \in Worker, AutoBook(w)
    PROVE  ShipmentsInv'
<1>1. Knows("autobooking", NoJob) /\ "autobooking" \in Places
  BY NoJobFacts DEF Knows, WithParcel, WithEvent, Places
<1> QED
  BY <1>1, NoJobFacts, Settled, Begins DEF AutoBook

LEMMA NumberStep ==
    ASSUME ShipmentsInv, NEW w \in Worker, nextShipmentNumber(w)
    PROVE  ShipmentsInv'
<1> DEFINE n == Cardinality(Parcels) + 1
           j == [job[w] EXCEPT !.number = n]
<1>1. n \in Nat /\ Cardinality(Parcels) \in Nat
  BY ParcelsFacts DEF ShipmentsInv
<1>2. /\ pc[w] = "numbering" /\ job[w] \in ParcelJob /\ Knows(pc[w], job[w])
      /\ ~raced /\ ~revived => Fits(job[w])
  BY InvFacts DEF nextShipmentNumber, Packs
<1>3. /\ j \in ParcelJob /\ j.number = n /\ j.provider = job[w].provider
      /\ j.collects = job[w].collects /\ j.quantity = job[w].quantity
  BY <1>1, <1>2 DEF ParcelJob
<1>4. Goto(w, "creating", j) /\ UNCHANGED <<dbVars, consignments, historyVars>>
  BY DEF nextShipmentNumber
<1>5. Knows("creating", j)
  BY <1>1, <1>2, <1>3 DEF Knows, WithParcel, WithEvent
<1>6. UpToDate("creating", j)
  BY DEF UpToDate, Updating
<1>7. ~raced /\ ~revived => Fits(j)
  BY <1>2, <1>3 DEF Fits
<1>8. "creating" \in Places /\ pc[w] # "saving"
  BY <1>2 DEF Places
<1> HIDE DEF j
<1> QED BY <1>3, <1>4, <1>5, <1>6, <1>7, <1>8, StepsOn

LEMMA StaffBookStep ==
    ASSUME ShipmentsInv, NEW w \in Worker, NEW p \in Parcel, StaffBook(w, p)
    PROVE  ShipmentsInv'
<1> DEFINE j == [NoJob EXCEPT !.parcel = p]
<1>1. j \in ParcelJob /\ j.parcel = p /\ j.provider = FALSE
  BY NoJobFacts DEF ParcelJob
<1>2. Knows("checking", j) /\ "checking" \in Places
  BY <1>1 DEF Knows, WithEvent, Places, StaffBook
<1>3. Goto(w, "checking", j)
  BY DEF StaffBook
<1> HIDE DEF j
<1> QED BY <1>1, <1>2, <1>3, Settled, Begins DEF StaffBook

LEMMA BookReadStep ==
    ASSUME ShipmentsInv, NEW w \in Worker, BookRead(w)
    PROVE  ShipmentsInv'
<1>1. CASE parcel[job[w].parcel].reference = "booked"
  BY <1>1, Rests DEF BookRead, historyVars
<1>2. CASE parcel[job[w].parcel].reference # "booked"
  <2>1. PICK j : j = job[w]
    OBVIOUS
  <2>2. Goto(w, "booking", j) /\ j \in ParcelJob /\ pc[w] = "checking" /\ Knows("checking", j)
    BY <1>2, <2>1, InvFacts DEF BookRead
  <2>3. Knows("booking", j) /\ UpToDate("booking", j) /\ ~Packs("booking", j)
    BY <1>2, <2>1, <2>2 DEF Knows, WithParcel, WithEvent, Places, UpToDate, Updating, Packs
  <2>4. "booking" \in Places
    BY DEF Places
  <2> QED BY <2>2, <2>3, <2>4, StepsOn DEF BookRead
<1> QED BY <1>1, <1>2

LEMMA StaffUpdateStep ==
    ASSUME ShipmentsInv, NEW w \in Worker, NEW p \in Parcel, NEW status \in Manual,
           StaffUpdate(w, p, status)
    PROVE  ShipmentsInv'
<1> DEFINE j == [NoJob EXCEPT !.parcel = p, !.status = status,
                              !.current = parcel[p].status, !.order = order]
<1>1. p \in Parcels /\ parcel[p].status \in ShipmentStatus /\ order \in Status
      /\ status \in ShipmentStatus
  BY ShipmentsAssumption, ParcelsFacts DEF StaffUpdate, ShipmentsInv, TypeOK, Row
<1>2. /\ j \in ParcelJob /\ j.parcel = p /\ j.provider = FALSE
      /\ j.current = parcel[p].status /\ j.order = order
  BY <1>1, NoJobFacts DEF ParcelJob
<1>3. Knows("applying", j) /\ "applying" \in Places
  BY <1>1, <1>2 DEF Knows, WithEvent, Places
<1>4. UpToDate("applying", j) /\ ~Packs("applying", j)
  BY <1>2 DEF UpToDate, Packs
<1>5. Goto(w, "applying", j)
  BY DEF StaffUpdate
<1> HIDE DEF j
<1> QED BY <1>2, <1>3, <1>4, <1>5, Begins DEF StaffUpdate

LEMMA ArriveStep ==
    ASSUME ShipmentsInv, NEW w \in Worker, Arrive(w)
    PROVE  ShipmentsInv'
<1>1. PICK j : j = job[w]
  OBVIOUS
<1>2. /\ Goto(w, "arriving", j) /\ j \in ParcelJob /\ pc[w] = "applying"
      /\ Knows("applying", j)
      /\ ~raced => UpToDate("applying", j)
      /\ j.status = "DELIVERED"
  BY <1>1, InvFacts DEF Arrive, Applies
<1>3. /\ Knows("arriving", j)
      /\ ~raced => UpToDate("arriving", j)
      /\ ~Packs("arriving", j)
  BY <1>2 DEF Knows, WithParcel, WithEvent, Places, UpToDate, Updating, Packs
<1>4. "arriving" \in Places
  BY DEF Places
<1> QED BY <1>2, <1>3, <1>4, StepsOn DEF Arrive

LEMMA ReadSiblingsStep ==
    ASSUME ShipmentsInv, NEW w \in Worker, ReadSiblings(w)
    PROVE  ShipmentsInv'
<1> DEFINE all == \A p \in Live \ {job[w].parcel} : parcel[p].status = "DELIVERED"
           j   == [job[w] EXCEPT !.fully = all]
<1>1. /\ job[w] \in ParcelJob /\ pc[w] = "arriving"
      /\ Knows("arriving", job[w])
      /\ ~raced => UpToDate("arriving", job[w])
  BY InvFacts DEF ReadSiblings
<1>2. /\ j \in ParcelJob /\ (j.fully <=> all) /\ j.parcel = job[w].parcel
      /\ j.provider = job[w].provider /\ j.status = job[w].status
      /\ j.current = job[w].current /\ j.order = job[w].order /\ j.verdict = job[w].verdict
  BY <1>1 DEF ParcelJob
<1>3. Goto(w, "arrived", j)
  BY DEF ReadSiblings
<1>4. Knows("arrived", j) /\ ~Packs("arrived", j)
  BY <1>1, <1>2 DEF Knows, WithParcel, WithEvent, Places, Packs
<1>5. ~raced => UpToDate("arrived", j)
  BY <1>1, <1>2 DEF UpToDate, Updating
<1>6. "arrived" \in Places
  BY DEF Places
<1> HIDE DEF j
<1> QED BY <1>1, <1>2, <1>3, <1>4, <1>5, <1>6, StepsOn DEF ReadSiblings

-----------------------------------------------------------------------------
(* Shipments: the end of an update *)

\* Where Done leads from the call j0.
Ends(j0, verdict, where, j) ==
    /\ where \in {"idle", "callingOff", "finishing"}
    /\ where # "idle" => j.parcel = j0.parcel
    /\ where = "callingOff" => verdict = "PROCESSED"
    /\ where = "finishing" => j0.provider /\ j.status = j0.status /\ j.verdict = verdict
    /\ j.provider => where = "finishing"
    /\ j0.provider => where = "finishing"

LEMMA DoneEnds ==
    ASSUME ShipmentsInv, NEW w \in Worker, NEW verdict \in {"open", "PROCESSED"}, Done(w, verdict)
    PROVE  \E where \in Places, j \in ParcelJob :
              Goto(w, where, j) /\ Ends(job[w], verdict, where, j)
<1>1. job[w] \in ParcelJob
  BY InvFacts
<1>2. CASE job[w].provider
  <2> DEFINE j == [NoJob EXCEPT !.parcel = job[w].parcel, !.status = job[w].status,
                                !.provider = TRUE, !.verdict = verdict]
  <2>1. Goto(w, "finishing", j)
    BY <1>2 DEF Done
  <2>2. j \in ParcelJob /\ j.parcel = job[w].parcel /\ j.status = job[w].status /\ j.verdict = verdict
    BY <1>1, NoJobFacts DEF ParcelJob
  <2>3. "finishing" \in Places
    BY DEF Places
  <2> HIDE DEF j
  <2> QED BY <1>2, <2>1, <2>2, <2>3 DEF Ends
<1>3. CASE ~job[w].provider /\ verdict = "PROCESSED" /\ job[w].status = "CANCELLED"
  <2> DEFINE j == [NoJob EXCEPT !.parcel = job[w].parcel]
  <2>1. Goto(w, "callingOff", j)
    BY <1>3 DEF Done
  <2>2. j \in ParcelJob /\ j.parcel = job[w].parcel /\ j.provider = FALSE
    BY <1>1, NoJobFacts DEF ParcelJob
  <2>3. "callingOff" \in Places
    BY DEF Places
  <2> HIDE DEF j
  <2> QED BY <1>3, <2>1, <2>2, <2>3 DEF Ends
<1>4. CASE ~job[w].provider /\ ~(verdict = "PROCESSED" /\ job[w].status = "CANCELLED")
  <2>1. Goto(w, "idle", NoJob)
    BY <1>4 DEF Done
  <2> QED BY <1>4, <2>1, NoJobFacts, IdleKnows DEF Ends
<1> QED BY <1>2, <1>3, <1>4

\* An update that writes nothing leaves its row unprocessed.
LEMMA GivesUp ==
    ASSUME ShipmentsInv, NEW w \in Worker, Done(w, "open"),
           UNCHANGED <<dbVars, consignments, raced, revived>>,
           calls' \in 0 .. MaxCalls, mishaps' \in 0 .. MaxMishaps,
           mishaps # 0 \/ pc[w] = "saving" => mishaps' # 0
    PROVE  ShipmentsInv'
<1>1. PICK where \in Places, j \in ParcelJob : Goto(w, where, j) /\ Ends(job[w], "open", where, j)
  BY DoneEnds
<1>2. Knows(pc[w], job[w])
  BY InvFacts
<1>3. Knows(where, j)
  BY <1>1, <1>2 DEF Ends, Knows, WithParcel, WithEvent, Places
<1>4. UpToDate(where, j) /\ ~Packs(where, j)
  BY <1>1, Settled DEF Ends
<1> QED BY <1>1, <1>3, <1>4, GoesOn

LEMMA RecordTwiceStep ==
    ASSUME ShipmentsInv, NEW w \in Worker, RecordTwice(w)
    PROVE  ShipmentsInv'
BY GivesUp DEF RecordTwice, historyVars, ShipmentsInv, TypeOK

LEMMA DatabaseErrorStep ==
    ASSUME ShipmentsInv, NEW w \in Worker, DatabaseError(w)
    PROVE  ShipmentsInv'
<1>1. calls' \in 0 .. MaxCalls /\ mishaps' \in 0 .. MaxMishaps /\ mishaps' # 0
  BY ShipmentsAssumption DEF DatabaseError, Mishap, ShipmentsInv, TypeOK
<1> QED BY <1>1, GivesUp DEF DatabaseError

LEMMA FindStep ==
    ASSUME ShipmentsInv, NEW w \in Worker, Find(w)
    PROVE  ShipmentsInv'
<1>1. CASE parcel[job[w].parcel].reference = "none"
  <2>1. Done(w, "open")
    BY <1>1 DEF Find
  <2>2. calls' \in 0 .. MaxCalls /\ mishaps' \in 0 .. MaxMishaps /\ mishaps' = mishaps
    BY DEF Find, historyVars, ShipmentsInv, TypeOK
  <2> QED BY <2>1, <2>2, GivesUp DEF Find, historyVars
<1>2. CASE parcel[job[w].parcel].reference # "none"
  <2> DEFINE j == [job[w] EXCEPT !.current = parcel[job[w].parcel].status, !.order = order]
  <2>1. pc[w] = "finding" /\ job[w] \in ParcelJob /\ Knows("finding", job[w])
    BY InvFacts DEF Find
  <2>2. job[w].parcel \in Parcels
    BY <2>1 DEF Knows, WithParcel, Places
  <2>3. parcel[job[w].parcel].status \in ShipmentStatus /\ order \in Status
    BY <2>2, ParcelsFacts DEF ShipmentsInv, TypeOK, Row
  <2>4. /\ j \in ParcelJob /\ j.parcel = job[w].parcel /\ j.provider = job[w].provider
        /\ j.status = job[w].status /\ j.verdict = job[w].verdict
        /\ j.current = parcel[j.parcel].status /\ j.order = order
    BY <2>1, <2>3 DEF ParcelJob
  <2>5. Goto(w, "applying", j) /\ UNCHANGED <<dbVars, consignments, historyVars>>
    BY <1>2 DEF Find
  <2> HIDE DEF j
  <2>6. Knows("applying", j) /\ "applying" \in Places
    BY <2>1, <2>2, <2>4 DEF Knows, WithEvent, Places
  <2>7. UpToDate("applying", j) /\ ~Packs("applying", j)
    BY <2>4 DEF UpToDate, Packs
  <2> QED BY <2>1, <2>4, <2>5, <2>6, <2>7, StepsOn
<1> QED BY <1>1, <1>2

\* The parcel and status of a callback that begins.
LEMMA Called ==
    ASSUME ShipmentsInv, NEW p \in Parcels, NEW status \in Reports
    PROVE  LET j == [NoJob EXCEPT !.parcel = p, !.status = status, !.provider = TRUE]
           IN  j \in ParcelJob /\ Knows("finding", j)
<1> DEFINE j == [NoJob EXCEPT !.parcel = p, !.status = status, !.provider = TRUE]
<1>1. p \in Parcel /\ status \in ShipmentStatus
  BY ShipmentsAssumption DEF Parcels
<1>2. j \in ParcelJob /\ j.parcel = p /\ j.status = status
  BY <1>1, NoJobFacts DEF ParcelJob
<1> HIDE DEF j
<1>3. Knows("finding", j)
  BY <1>2 DEF Knows, WithEvent
<1> QED BY <1>2, <1>3 DEF j

LEMMA ReplayStep ==
    ASSUME ShipmentsInv, NEW w \in Worker, NEW p \in Parcel, NEW status \in Reports,
           Replay(w, p, status)
    PROVE  ShipmentsInv'
<1>1. PICK j : j = [NoJob EXCEPT !.parcel = p, !.status = status, !.provider = TRUE]
  OBVIOUS
<1>2. p \in Parcels
  BY DEF Replay, ShipmentsInv, OnTheBooks
<1>3. j \in ParcelJob /\ Knows("finding", j) /\ "finding" \in Places
  BY <1>1, <1>2, Called DEF Places
<1>4. UpToDate("finding", j) /\ ~Packs("finding", j)
  BY Settled
<1>5. Goto(w, "finding", j)
  BY <1>1 DEF Replay
<1> QED BY <1>3, <1>4, <1>5, Begins DEF Replay

LEMMA PackRefusedStep ==
    ASSUME ShipmentsInv, NEW w \in Worker, PackRefused(w)
    PROVE  ShipmentsInv'
BY Rests DEF PackRefused, historyVars

LEMMA CrashStep ==
    ASSUME ShipmentsInv, Crash
    PROVE  ShipmentsInv'
<1>1. /\ order' = order /\ collects' = collects /\ parcel' = parcel /\ trail' = trail
      /\ hook' = hook /\ consignments' = consignments /\ raced' = raced /\ revived' = revived
      /\ calls' = calls /\ mishaps' \in 0 .. MaxMishaps /\ mishaps' # 0
  BY ShipmentsAssumption DEF Crash, Mishap, dbVars, ShipmentsInv, TypeOK
<1>2. \A v \in Worker : pc'[v] = "idle" /\ job'[v] = NoJob
  BY DEF Crash
<1>3. Parcels' = Parcels /\ Live' = Live
  BY <1>1 DEF Parcels, Live
<1>4. \A l : alreadyShipped(l)' = alreadyShipped(l)
  BY <1>1, <1>3 DEF alreadyShipped
<1>5. ASSUME NEW v \in Worker
      PROVE  /\ Knows(pc[v], job[v])'
             /\ UpToDate(pc[v], job[v])' /\ ~Packs(pc[v], job[v])'
  BY <1>2, NoJobFacts DEF Knows, WithParcel, WithEvent, Places, UpToDate, Updating, Packs
<1>6. TypeOK'
  <2>1. pc' \in [Worker -> Places] /\ job' \in [Worker -> ParcelJob]
    BY IdleKnows, NoJobFacts DEF Crash
  <2> QED BY <1>1, <1>2, <1>3, <2>1 DEF ShipmentsInv, TypeOK, Places, ParcelJob
<1>7. /\ ShippedWithinPurchase' /\ CollectedOnce' /\ BookedOnce' /\ ProcessedIsOnTrail'
      /\ OnTheBooks' /\ PickupsKnown'
  BY <1>1, <1>3, <1>4
  DEF ShipmentsInv, ShippedWithinPurchase, CollectedOnce, BookedOnce, ProcessedIsOnTrail,
      OnTheBooks, PickupsKnown
<1> QED
  BY <1>5, <1>6, <1>7 DEF ShipmentsInv, AllUpToDate, AllFit

-----------------------------------------------------------------------------
(* Shipments: the carrier's answers and the webhook rows *)

\* One more pickup, of a parcel there is.
LEMMA OneMorePickup ==
    ASSUME ShipmentsInv, NEW w \in Worker, pc[w] = "booking", Books(w),
           UNCHANGED <<parcel, hook>>
    PROVE  /\ job[w].parcel \in Parcels /\ consignments' \in [Parcel -> Nat] /\ OnTheBooks'
           /\ consignments'[job[w].parcel] = consignments[job[w].parcel] + 1
           /\ \A p \in Parcel \ {job[w].parcel} : consignments'[p] = consignments[p]
<1>1. job[w].parcel \in Parcels /\ job[w].parcel \in Parcel
  BY InvFacts DEF Knows, WithParcel, Places, Parcels
<1>2. consignments \in [Parcel -> Nat] /\ OnTheBooks
  BY DEF ShipmentsInv, TypeOK
<1>3. /\ consignments' \in [Parcel -> Nat]
      /\ consignments'[job[w].parcel] = consignments[job[w].parcel] + 1
      /\ \A p \in Parcel \ {job[w].parcel} : consignments'[p] = consignments[p]
  BY <1>1, <1>2 DEF Books
<1>4. OnTheBooks'
  BY <1>1, <1>2, <1>3 DEF OnTheBooks, Parcels
<1> QED BY <1>1, <1>3, <1>4

LEMMA BookCallStep ==
    ASSUME ShipmentsInv, NEW w \in Worker, BookCall(w)
    PROVE  ShipmentsInv'
<1>1. PICK j : j = job[w]
  OBVIOUS
<1>2. /\ pc[w] = "booking" /\ Goto(w, "saving", j) /\ j \in ParcelJob /\ Knows("booking", j)
      /\ ~raced => UpToDate("booking", j)
  BY <1>1, InvFacts DEF BookCall
<1>3. /\ order' = order /\ collects' = collects /\ parcel' = parcel /\ trail' = trail
      /\ hook' = hook /\ revived' = revived /\ calls' = calls /\ mishaps' = mishaps
      /\ Books(w)
  BY DEF BookCall, dbVars
<1>4. /\ j.parcel \in Parcels /\ consignments' \in [Parcel -> Nat] /\ OnTheBooks'
      /\ consignments'[j.parcel] = consignments[j.parcel] + 1
      /\ \A p \in Parcel \ {j.parcel} : consignments'[p] = consignments[p]
  BY <1>1, <1>2, <1>3, OneMorePickup
<1>5. TypeOK
  BY DEF ShipmentsInv
<1>6. /\ "saving" \in Places /\ Knows("saving", j)
      /\ UpToDate("saving", j) /\ ~Packs("saving", j)
  BY <1>2, Settled DEF Knows, WithParcel, WithEvent, Places
<1>7. /\ pc'[w] = "saving" /\ job'[w] = j
      /\ \A v \in Worker \ {w} : pc'[v] = pc[v] /\ job'[v] = job[v]
  BY <1>2, <1>5, <1>6, WorkerGoes
<1>8. /\ raced' \in BOOLEAN
      /\ raced => raced'
      /\ hook' \in [Parcel -> [Reports -> {"none", "open", "PROCESSED"}]]
      /\ calls' \in 0 .. MaxCalls /\ mishaps' \in 0 .. MaxMishaps
  BY <1>3, <1>5 DEF BookCall, BookedBeside, TypeOK
<1>9. ASSUME ~raced', mishaps = 0
      PROVE  consignments[j.parcel] = 0
  <2>1. ~raced /\ ~BookedBeside(w)
    BY <1>9 DEF BookCall
  <2>2. parcel[j.parcel].reference # "booked"
    BY <1>2, <2>1 DEF UpToDate
  <2>3. ~\E v \in Worker : pc[v] = "saving" /\ job[v].parcel = j.parcel
    BY <1>1, <1>2, <2>1 DEF BookedBeside
  <2>4. j.parcel \in Parcel /\ consignments[j.parcel] \in Nat
    BY <1>4, <1>5 DEF Parcels, TypeOK
  <2>5. ~(consignments[j.parcel] > 0)
    BY <1>9, <2>1, <2>2, <2>3, <2>4 DEF ShipmentsInv, PickupsKnown
  <2> QED BY <2>4, <2>5
<1>10. BookedOnce'
  <2> SUFFICES ASSUME ~raced', mishaps' = 0, NEW p \in Parcel
               PROVE  consignments'[p] <= 1
    BY DEF BookedOnce
  <2>1. consignments[p] <= 1
    BY <1>3, <1>8 DEF ShipmentsInv, BookedOnce
  <2> QED BY <1>3, <1>4, <1>9, <2>1
<1>11. PickupsKnown'
  <2> SUFFICES ASSUME ~raced', mishaps' = 0, NEW p \in Parcel, consignments'[p] > 0,
                      parcel'[p].reference # "booked", p # j.parcel
               PROVE  \E v \in Worker : pc'[v] = "saving" /\ job'[v].parcel = p
    BY <1>7 DEF PickupsKnown
  <2>1. PICK v \in Worker : pc[v] = "saving" /\ job[v].parcel = p
    BY <1>3, <1>4, <1>8 DEF ShipmentsInv, PickupsKnown
  <2> QED BY <1>2, <1>7, <2>1
<1>12. ProcessedIsOnTrail'
  BY <1>3 DEF ShipmentsInv, ProcessedIsOnTrail
<1> QED
  BY <1>2, <1>3, <1>4, <1>6, <1>8, <1>10, <1>11, <1>12, RowsStay

LEMMA BookThrowsStep ==
    ASSUME ShipmentsInv, NEW w \in Worker, BookThrows(w)
    PROVE  ShipmentsInv'
<1>1. /\ order' = order /\ collects' = collects /\ parcel' = parcel /\ trail' = trail
      /\ hook' = hook /\ raced' = raced /\ revived' = revived /\ calls' = calls
      /\ pc[w] = "booking" /\ Goto(w, "idle", NoJob)
  BY DEF BookThrows, dbVars
<1>2. mishaps' \in 0 .. MaxMishaps /\ mishaps' # 0
  BY ShipmentsAssumption DEF BookThrows, Mishap, ShipmentsInv, TypeOK
<1>3. consignments' \in [Parcel -> Nat] /\ OnTheBooks'
  <2>1. CASE UNCHANGED consignments
    BY <1>1, <2>1 DEF ShipmentsInv, TypeOK, OnTheBooks, Parcels
  <2>2. CASE Books(w)
    BY <1>1, <2>2, OneMorePickup
  <2> QED BY <2>1, <2>2 DEF BookThrows
<1>4. BookedOnce' /\ PickupsKnown' /\ ProcessedIsOnTrail'
  BY <1>1, <1>2 DEF BookedOnce, PickupsKnown, ShipmentsInv, ProcessedIsOnTrail
<1>5. /\ raced' \in BOOLEAN /\ calls' \in 0 .. MaxCalls
      /\ hook' \in [Parcel -> [Reports -> {"none", "open", "PROCESSED"}]]
  BY <1>1 DEF ShipmentsInv, TypeOK
<1>6. UpToDate("idle", NoJob) /\ ~Packs("idle", NoJob)
  BY Settled
<1> QED
  BY <1>1, <1>2, <1>3, <1>4, <1>5, <1>6, IdleKnows, NoJobFacts, RowsStay

LEMMA CallOffStep ==
    ASSUME ShipmentsInv, NEW w \in Worker, CallOff(w)
    PROVE  ShipmentsInv'
<1>1. /\ order' = order /\ collects' = collects /\ parcel' = parcel /\ trail' = trail
      /\ hook' = hook /\ raced' = raced /\ revived' = revived /\ calls' = calls
      /\ mishaps' = mishaps /\ pc[w] = "callingOff" /\ Goto(w, "idle", NoJob)
  BY DEF CallOff, dbVars, historyVars
<1>2. /\ consignments \in [Parcel -> Nat] /\ TypeOK
  BY DEF ShipmentsInv, TypeOK
<1>3. job[w].parcel \in Parcel
  BY <1>1, InvFacts DEF Knows, WithParcel, Places, Parcels
<1>4. /\ consignments' \in [Parcel -> Nat]
      /\ \A p \in Parcel : consignments'[p] <= consignments[p]
  <2>1. CASE UNCHANGED consignments
    BY <1>2, <2>1
  <2>2. CASE consignments' = [consignments EXCEPT ![job[w].parcel] = Max({0, @ - 1})]
    <3> DEFINE n == consignments[job[w].parcel]
               m == Max({0, n - 1})
    <3>1. n \in Nat
      BY <1>2, <1>3
    <3>2. m \in Nat /\ m <= n
      <4>1. m \in {0, n - 1} /\ m >= 0
        <5>1. 0 \in Int /\ n - 1 \in Int
          BY <3>1
        <5> HIDE DEF n
        <5> QED BY <5>1, MaxOfTwo
      <4> QED BY <3>1, <4>1
    <3>3. consignments' = [consignments EXCEPT ![job[w].parcel] = m]
      BY <2>2
    <3> HIDE DEF m
    <3> QED BY <1>2, <1>3, <3>2, <3>3
  <2> QED BY <2>1, <2>2 DEF CallOff
<1>5. OnTheBooks' /\ BookedOnce' /\ ProcessedIsOnTrail'
  <2>1. \A p \in Parcel : consignments[p] \in Nat /\ consignments'[p] \in Nat
    BY <1>2, <1>4
  <2> QED
    BY <1>1, <1>4, <2>1
    DEF ShipmentsInv, OnTheBooks, BookedOnce, ProcessedIsOnTrail, Parcels
<1>6. PickupsKnown'
  <2> SUFFICES ASSUME ~raced', mishaps' = 0, NEW p \in Parcel, consignments'[p] > 0,
                      parcel'[p].reference # "booked"
               PROVE  \E v \in Worker : pc'[v] = "saving" /\ job'[v].parcel = p
    BY DEF PickupsKnown
  <2>1. consignments[p] > 0
    BY <1>2, <1>4
  <2>2. PICK v \in Worker : pc[v] = "saving" /\ job[v].parcel = p
    BY <1>1, <2>1 DEF ShipmentsInv, PickupsKnown
  <2>3. pc'[v] = pc[v] /\ job'[v] = job[v]
    BY <1>1, <1>2, <2>2, NoJobFacts, IdleKnows, WorkerGoes
  <2> QED BY <2>2, <2>3
<1>7. /\ raced' \in BOOLEAN /\ calls' \in 0 .. MaxCalls /\ mishaps' \in 0 .. MaxMishaps
      /\ hook' \in [Parcel -> [Reports -> {"none", "open", "PROCESSED"}]]
  BY <1>1, <1>2 DEF TypeOK
<1>8. UpToDate("idle", NoJob) /\ ~Packs("idle", NoJob)
  BY Settled
<1> QED
  BY <1>1, <1>4, <1>5, <1>6, <1>7, <1>8, IdleKnows, NoJobFacts, RowsStay

\* A webhook row is written, and nothing else.
LEMMA HookStep ==
    ASSUME ShipmentsInv, NEW w \in Worker, NEW where \in Places, NEW j \in ParcelJob,
           Goto(w, where, j), pc[w] # "saving",
           UNCHANGED <<order, collects, parcel, trail, consignments, raced, revived, mishaps>>,
           calls' \in 0 .. MaxCalls, Knows(where, j), UpToDate(where, j), ~Packs(where, j),
           NEW p \in Parcels, NEW status, NEW verdict \in {"open", "PROCESSED"},
           hook' = [hook EXCEPT ![p][status] = verdict],
           verdict = "PROCESSED" => status \in trail[p]
    PROVE  ShipmentsInv'
<1>1. hook \in [Parcel -> [Reports -> {"none", "open", "PROCESSED"}]] /\ TypeOK
  BY DEF ShipmentsInv, TypeOK
<1>2. p \in Parcel
  BY DEF Parcels
<1>3. hook' \in [Parcel -> [Reports -> {"none", "open", "PROCESSED"}]]
  BY <1>1, <1>2
<1>4. \A q \in Parcel, s \in Reports :
        IF q = p /\ s = status THEN hook'[q][s] = verdict ELSE hook'[q][s] = hook[q][s]
  BY <1>1, <1>2
<1>5. ProcessedIsOnTrail' /\ OnTheBooks' /\ BookedOnce'
  <2>1. ProcessedIsOnTrail'
    BY <1>4 DEF ShipmentsInv, ProcessedIsOnTrail
  <2>2. OnTheBooks'
    <3>1. Parcels' = Parcels
      BY DEF Parcels
    <3> QED BY <1>4, <3>1 DEF ShipmentsInv, OnTheBooks
  <2> QED BY <2>1, <2>2 DEF ShipmentsInv, BookedOnce
<1>6. PickupsKnown'
  <2> SUFFICES ASSUME ~raced', mishaps' = 0, NEW q \in Parcel, consignments'[q] > 0,
                      parcel'[q].reference # "booked"
               PROVE  \E v \in Worker : pc'[v] = "saving" /\ job'[v].parcel = q
    BY DEF PickupsKnown
  <2>1. PICK v \in Worker : pc[v] = "saving" /\ job[v].parcel = q
    BY DEF ShipmentsInv, PickupsKnown
  <2> QED BY <1>1, <2>1, WorkerGoes
<1>7. raced' \in BOOLEAN /\ mishaps' \in 0 .. MaxMishaps /\ consignments' \in [Parcel -> Nat]
  BY <1>1 DEF TypeOK
<1> QED BY <1>3, <1>5, <1>6, <1>7, RowsStay

LEMMA DeliverStep ==
    ASSUME ShipmentsInv, NEW w \in Worker, NEW p \in Parcel, NEW status \in Reports,
           Deliver(w, p, status)
    PROVE  ShipmentsInv'
<1>1. PICK j : j = [NoJob EXCEPT !.parcel = p, !.status = status, !.provider = TRUE]
  OBVIOUS
<1>2. p \in Parcels
  BY RowFacts DEF Deliver, ShipmentsInv, OnTheBooks, Parcels
<1>3. j \in ParcelJob /\ Knows("finding", j) /\ "finding" \in Places
  BY <1>1, <1>2, Called DEF Places
<1>4. UpToDate("finding", j) /\ ~Packs("finding", j)
  BY Settled
<1>5. Goto(w, "finding", j) /\ pc[w] # "saving" /\ calls' \in 0 .. MaxCalls
  BY <1>1, ShipmentsAssumption DEF Deliver, Call, ShipmentsInv, TypeOK
<1>6. hook' = [hook EXCEPT ![p][status] = "open"]
  BY DEF Deliver
<1> QED BY <1>2, <1>3, <1>4, <1>5, <1>6, HookStep DEF Deliver

LEMMA FinishStep ==
    ASSUME ShipmentsInv, NEW w \in Worker, Finish(w)
    PROVE  ShipmentsInv'
<1>1. PICK p, status, verdict :
        p = job[w].parcel /\ status = job[w].status /\ verdict = job[w].verdict
  OBVIOUS
<1>2. /\ p \in Parcels /\ verdict \in {"open", "PROCESSED"}
      /\ verdict = "PROCESSED" => status \in trail[p]
  BY <1>1, InvFacts DEF Finish, Knows, WithParcel, Places, ParcelJob
<1>3. hook' = [hook EXCEPT ![p][status] = verdict]
  BY <1>1 DEF Finish
<1>4. /\ Goto(w, "idle", NoJob) /\ pc[w] # "saving" /\ calls' \in 0 .. MaxCalls
      /\ UNCHANGED <<order, collects, parcel, trail, consignments, raced, revived, mishaps>>
  BY DEF Finish, historyVars, ShipmentsInv, TypeOK
<1>5. UpToDate("idle", NoJob) /\ ~Packs("idle", NoJob)
  BY Settled
<1> QED BY <1>2, <1>3, <1>4, <1>5, IdleKnows, NoJobFacts, HookStep

-----------------------------------------------------------------------------
(* Shipments: the steps that write the rows of parcels *)

\* Fewer parcels live, of the same contents, claim no more.
LEMMA ClaimsShrink ==
    ASSUME TypeOK, TypeOK', Parcels' = Parcels, Live' \subseteq Live,
           \A p \in Parcels : /\ parcel'[p].quantity = parcel[p].quantity
                              /\ parcel'[p].collects = parcel[p].collects
    PROVE  /\ \A l \in Line : alreadyShipped(l)' <= alreadyShipped(l)
           /\ \A p \in Live' : p \in Live /\ (parcel'[p].collects <=> parcel[p].collects)
<1>1. /\ IsFiniteSet(Live) /\ Live \subseteq Parcels
      /\ \A p \in Parcels : parcel[p].quantity \in [Line -> Nat]
  BY ParcelsFacts
<1>2. ASSUME NEW l \in Line
      PROVE  alreadyShipped(l)' <= alreadyShipped(l)
  <2> DEFINE f == [p \in Parcels |-> parcel[p].quantity[l]]
             g == [p \in Parcels' |-> parcel'[p].quantity[l]]
  <2>1. alreadyShipped(l) = SumFunctionOnSet(f, Live) /\ alreadyShipped(l)' = SumFunctionOnSet(g, Live')
    BY DEF alreadyShipped
  <2>2. /\ \A p \in Live : f[p] \in Nat
        /\ \A p \in Live' : g[p] = f[p]
    BY <1>1
  <2> HIDE DEF f, g
  <2>3. SumFunctionOnSet(g, Live') = SumFunctionOnSet(f, Live')
    <3>1. IsFiniteSet(Live')
      BY <1>1, FS_Subset
    <3> QED BY <2>2, <3>1, SumSame
  <2>4. SumFunctionOnSet(f, Live') <= SumFunctionOnSet(f, Live)
    BY <1>1, <2>2, SumOfPart
  <2> QED BY <2>1, <2>3, <2>4
<1> QED BY <1>1, <1>2

LEMMA RowsMove ==
    ASSUME ShipmentsInv, NEW w \in Worker, NEW where \in {"idle", "callingOff", "finishing"},
           NEW j \in ParcelJob, Goto(w, where, j),
           UNCHANGED <<collects, hook, consignments, calls, mishaps>>,
           order' \in Status, trail' \in [Parcel -> SUBSET Reports],
           \A p \in Parcel : trail[p] \subseteq trail'[p],
           parcel' \in [Parcel -> Row \cup {NoParcel}], Parcels' = Parcels,
           \A p \in Parcels : /\ parcel'[p].quantity = parcel[p].quantity
                              /\ parcel'[p].collects = parcel[p].collects
                              /\ parcel[p].reference = "booked" => parcel'[p].reference = "booked",
           raced' \in BOOLEAN, raced => raced', revived' \in BOOLEAN, revived => revived',
           ~raced' /\ ~revived' => Live' \subseteq Live,
           Knows(where, j)',
           \A v \in Worker \ {w} : ~raced' => UpToDate(pc[v], job[v])',
           pc[w] = "saving" => parcel'[job[w].parcel].reference = "booked"
    PROVE  ShipmentsInv'
<1>1. TypeOK
  BY DEF ShipmentsInv
<1>2. where \in Places
  BY DEF Places
<1>3. /\ pc' \in [Worker -> Places] /\ job' \in [Worker -> ParcelJob]
      /\ pc'[w] = where /\ job'[w] = j
      /\ \A v \in Worker \ {w} : pc'[v] = pc[v] /\ job'[v] = job[v]
  BY <1>1, <1>2, WorkerGoes
<1>4. ASSUME NEW v \in Worker
      PROVE  Knows(pc[v], job[v])'
  <2>1. CASE v = w
    BY <1>3, <2>1 DEF Knows
  <2>2. CASE v # w
    <3>1. Knows(pc'[v], job'[v])
      BY <1>3, <2>2, InvFacts
    <3>2. job'[v].parcel \in Parcels => job'[v].parcel \in Parcel
      BY DEF Parcels
    <3>3. pc'[v] = "finishing" => pc'[v] \in WithParcel
      BY DEF WithParcel, Places
    <3> QED BY <3>1, <3>2, <3>3 DEF Knows
  <2> QED BY <2>1, <2>2
<1>5. TypeOK'
  <2>1. \A v \in Worker : pc'[v] \in WithParcel => job'[v].parcel \in Parcels'
    BY <1>4 DEF Knows
  <2> QED BY <1>1, <1>3, <2>1 DEF TypeOK, Places, ParcelJob, WithParcel
<1>6. ASSUME NEW v \in Worker, ~raced'
      PROVE  UpToDate(pc[v], job[v])'
  <2>1. CASE v = w
    BY <1>3, <2>1 DEF UpToDate, Updating
  <2>2. CASE v # w
    BY <1>6, <2>2
  <2> QED BY <2>1, <2>2
<1>7. ASSUME ~raced', ~revived'
      PROVE  /\ \A l \in Line : alreadyShipped(l)' <= Purchased[l]
             /\ Cardinality({p \in Live : parcel[p].collects})' <= 1
             /\ \A v \in Worker : Packs(pc[v], job[v])' => Fits(job[v])'
  <2>1. /\ \A l \in Line : alreadyShipped(l)' <= alreadyShipped(l)
        /\ \A p \in Live' : p \in Live /\ (parcel'[p].collects <=> parcel[p].collects)
    BY <1>1, <1>5, <1>7, ClaimsShrink
  <2>2. \A l \in Line : /\ alreadyShipped(l)' \in Nat /\ alreadyShipped(l) \in Nat
                        /\ Purchased[l] \in Nat
    <3>1. Shipped /\ Shipped'
      BY <1>1, <1>5, ShippedIsCounted, PTL
    <3> QED BY <3>1, QuantitiesFacts DEF Shipped
  <2>3. \A l \in Line : alreadyShipped(l)' <= Purchased[l]
    <3>1. \A l \in Line : alreadyShipped(l) <= Purchased[l]
      BY <1>7 DEF ShipmentsInv, ShippedWithinPurchase
    <3> QED BY <2>1, <2>2, <3>1
  <2>4. Cardinality({p \in Live : parcel[p].collects})' <= 1
    <3> DEFINE A == {p \in Live : parcel[p].collects}
               B == {p \in Live' : parcel'[p].collects}
    <3>1. B \subseteq A
      BY <2>1
    <3>2. IsFiniteSet(A)
      BY <1>1, ParcelsFacts, FS_Subset
    <3>3. Cardinality(A) <= 1
      BY <1>7 DEF ShipmentsInv, CollectedOnce
    <3>4. Cardinality(A) \in Nat /\ Cardinality(B) \in Nat /\ Cardinality(B) <= Cardinality(A)
      BY <3>1, <3>2, FS_Subset, FS_CardinalityType
    <3> QED BY <3>3, <3>4
  <2>5. ASSUME NEW v \in Worker, Packs(pc[v], job[v])'
        PROVE  Fits(job[v])'
    <3>1. v # w /\ pc'[v] = pc[v] /\ job'[v] = job[v]
      BY <1>3, <2>5 DEF Packs
    <3>2. Packs(pc[v], job[v]) /\ Fits(job[v])
      BY <1>7, <2>5, <3>1, InvFacts DEF Packs
    <3>3. job[v].quantity \in [Line -> Nat]
      BY InvFacts, QuantitiesFacts DEF ParcelJob
    <3>4. \A l \in Line : alreadyShipped(l)' + job[v].quantity[l] <= Purchased[l]
      <4> SUFFICES ASSUME NEW l \in Line
                   PROVE  alreadyShipped(l)' + job[v].quantity[l] <= Purchased[l]
        OBVIOUS
      <4>1. alreadyShipped(l) + job[v].quantity[l] <= Purchased[l]
        BY <3>2 DEF Fits
      <4> QED BY <2>1, <2>2, <3>3, <4>1
    <3> QED BY <2>1, <3>1, <3>2, <3>4 DEF Fits
  <2> QED BY <2>3, <2>4, <2>5
<1>8. PickupsKnown'
  <2> SUFFICES ASSUME ~raced', mishaps' = 0, NEW p \in Parcel, consignments'[p] > 0,
                      parcel'[p].reference # "booked"
               PROVE  \E v \in Worker : pc'[v] = "saving" /\ job'[v].parcel = p
    BY DEF PickupsKnown
  <2>1. p \in Parcels
    BY DEF ShipmentsInv, OnTheBooks
  <2>2. PICK v \in Worker : pc[v] = "saving" /\ job[v].parcel = p
    BY <2>1 DEF ShipmentsInv, PickupsKnown
  <2>3. v # w
    BY <2>2
  <2> QED BY <1>3, <2>2, <2>3
<1>9. BookedOnce' /\ ProcessedIsOnTrail' /\ OnTheBooks'
  BY DEF ShipmentsInv, BookedOnce, ProcessedIsOnTrail, OnTheBooks
<1> QED
  BY <1>4, <1>5, <1>6, <1>7, <1>8, <1>9
  DEF ShipmentsInv, AllUpToDate, AllFit, ShippedWithinPurchase, CollectedOnce

LEMMA BookSaveStep ==
    ASSUME ShipmentsInv, NEW w \in Worker, BookSave(w)
    PROVE  ShipmentsInv'
<1>1. PICK b : b = job[w].parcel
  OBVIOUS
<1>2. b \in Parcels /\ b \in Parcel /\ pc[w] = "saving"
  BY <1>1, InvFacts DEF BookSave, Knows, WithParcel, Places, Parcels
<1>3. /\ order' = order /\ collects' = collects /\ trail' = trail /\ hook' = hook
      /\ consignments' = consignments /\ revived' = revived /\ calls' = calls /\ mishaps' = mishaps
      /\ Goto(w, "idle", NoJob) /\ raced' = (raced \/ BookedBeside(w))
      /\ parcel' = [parcel EXCEPT ![b].reference = "booked"]
  BY <1>1 DEF BookSave
<1>4. TypeOK /\ parcel \in [Parcel -> Row \cup {NoParcel}] /\ parcel[b] \in Row
  BY <1>2, ParcelsFacts DEF ShipmentsInv, TypeOK
<1>5. PICK written \in Row : written = [parcel[b] EXCEPT !.reference = "booked"]
  BY <1>4, RowFacts
<1>6. /\ written.reference = "booked" /\ written.status = parcel[b].status
      /\ written.quantity = parcel[b].quantity /\ written.collects = parcel[b].collects
  BY <1>4, <1>5, RowFacts
<1>7. parcel' = [parcel EXCEPT ![b] = written]
  BY <1>3, <1>5
<1>8. parcel'[b] = written /\ \A p \in Parcel \ {b} : parcel'[p] = parcel[p]
  BY <1>2, <1>4, <1>7
<1>9. parcel' \in [Parcel -> Row \cup {NoParcel}]
  BY <1>4, <1>7
<1>10. Parcels' = Parcels
  BY <1>2, <1>5, <1>8, RowFacts DEF Parcels
<1>11. /\ \A p \in Parcel : parcel'[p].status = parcel[p].status
       /\ Live' = Live
  BY <1>6, <1>8, <1>10 DEF Live, Parcels
<1>12. \A p \in Parcels : /\ parcel'[p].quantity = parcel[p].quantity
                          /\ parcel'[p].collects = parcel[p].collects
                          /\ parcel[p].reference = "booked" => parcel'[p].reference = "booked"
  BY <1>6, <1>8 DEF Parcels
<1>13. ASSUME NEW v \in Worker \ {w}, ~raced'
       PROVE  UpToDate(pc[v], job[v])'
  <2>1. UpToDate(pc[v], job[v]) /\ Knows(pc[v], job[v])
    BY <1>3, <1>13, InvFacts
  <2>2. pc'[v] = pc[v] /\ job'[v] = job[v]
    BY <1>3, <1>4, IdleKnows, NoJobFacts, WorkerGoes
  <2>3. pc[v] \in Updating \cup {"booking"} => job[v].parcel \in Parcels /\ job[v].parcel \in Parcel
    BY <2>1 DEF Knows, Updating, WithParcel, Places, Parcels
  <2>4. pc[v] = "booking" => job[v].parcel # b
    BY <1>1, <1>3, <1>13 DEF BookedBeside
  <2>5. pc[v] = "booking" => parcel'[job[v].parcel] = parcel[job[v].parcel]
    BY <1>8, <2>3, <2>4
  <2>6. \A q \in Live : q \in Parcel
    BY DEF Live, Parcels
  <2> QED BY <1>3, <1>11, <2>1, <2>2, <2>3, <2>5, <2>6 DEF UpToDate, Updating
<1>14. Knows("idle", NoJob)'
  BY NoJobFacts DEF Knows, WithParcel, WithEvent, Places
<1>15. /\ order' \in Status /\ trail' \in [Parcel -> SUBSET Reports]
       /\ raced' \in BOOLEAN /\ revived' \in BOOLEAN
       /\ raced => raced'
       /\ parcel'[job[w].parcel].reference = "booked"
  BY <1>1, <1>3, <1>4, <1>6, <1>8 DEF TypeOK, BookedBeside
<1> QED
  BY <1>3, <1>9, <1>10, <1>11, <1>12, <1>13, <1>14, <1>15, NoJobFacts, RowsMove

\* What is on the trail after a record or an update, and what its handler knows.
LEMMA Recorded ==
    ASSUME ShipmentsInv, NEW w \in Worker, pc[w] \in Updating, Trail(w)
    PROVE  /\ job[w].parcel \in Parcels /\ job[w].parcel \in Parcel
           /\ trail' \in [Parcel -> SUBSET Reports]
           /\ \A p \in Parcel : trail[p] \subseteq trail'[p]
           /\ job[w].provider => job[w].status \in trail'[job[w].parcel]
<1>1. Knows(pc[w], job[w]) /\ job[w] \in ParcelJob /\ trail \in [Parcel -> SUBSET Reports]
  BY InvFacts DEF ShipmentsInv, TypeOK
<1>2. job[w].parcel \in Parcels /\ job[w].parcel \in Parcel
  BY <1>1 DEF Knows, WithParcel, Places, Updating, Parcels
<1>3. CASE job[w].provider
  <2>1. trail' = [trail EXCEPT ![job[w].parcel] = @ \cup {job[w].status}]
    BY <1>3 DEF Trail
  <2>2. job[w].status \in Reports
    BY <1>1, <1>3 DEF Knows
  <2> QED BY <1>1, <1>2, <2>1, <2>2
<1>4. CASE ~job[w].provider
  BY <1>1, <1>2, <1>4 DEF Trail
<1> QED BY <1>3, <1>4

\* A parcel's handlers but the one that commits, short of a race: none is
\* updating it, and none has read the siblings.
LEMMA NotOverlapped ==
    ASSUME ShipmentsInv, NEW w \in Worker, NEW v \in Worker \ {w}, ~Overlaps(w)
    PROVE  /\ pc[v] # "arrived"
           /\ pc[v] \in Updating => job[v].parcel # job[w].parcel
BY DEF Overlaps, InUpdate, Updating

\* The end of an update: what it leads to, and what its handler knows then.
LEMMA EndKnows ==
    ASSUME ShipmentsInv, NEW w \in Worker, pc[w] \in Updating, Trail(w), Parcels' = Parcels,
           NEW where \in Places, NEW j \in ParcelJob, Ends(job[w], "PROCESSED", where, j)
    PROVE  Knows(where, j)'
<1>1. job[w].provider => job[w].status \in trail'[job[w].parcel]
  BY Recorded
<1>2. job[w].parcel \in Parcels /\ (job[w].provider => job[w].status \in Reports)
  BY InvFacts, Recorded DEF Knows
<1> QED
  BY <1>1, <1>2 DEF Ends, Knows, WithParcel, WithEvent, Places

LEMMA RecordStep ==
    ASSUME ShipmentsInv, NEW w \in Worker, Record(w)
    PROVE  ShipmentsInv'
<1>1. /\ order' = order /\ collects' = collects /\ parcel' = parcel /\ hook' = hook
      /\ consignments' = consignments /\ revived' = revived /\ calls' = calls /\ mishaps' = mishaps
      /\ pc[w] = "applying" /\ Trail(w) /\ Done(w, "PROCESSED")
      /\ raced' = (raced \/ Overlaps(w))
  BY DEF Record
<1>2. PICK where \in Places, j \in ParcelJob :
         Goto(w, where, j) /\ Ends(job[w], "PROCESSED", where, j)
  BY <1>1, DoneEnds
<1>3. TypeOK /\ pc[w] \in Updating
  BY <1>1 DEF ShipmentsInv, Updating
<1>4. Parcels' = Parcels /\ Live' = Live
  BY <1>1 DEF Parcels, Live
<1>5. /\ trail' \in [Parcel -> SUBSET Reports]
      /\ \A p \in Parcel : trail[p] \subseteq trail'[p]
  BY <1>1, <1>3, Recorded
<1>6. Knows(where, j)'
  BY <1>1, <1>2, <1>3, <1>4, EndKnows
<1>7. ASSUME NEW v \in Worker \ {w}, ~raced'
      PROVE  UpToDate(pc[v], job[v])'
  <2>1. UpToDate(pc[v], job[v])
    BY <1>1, <1>7, InvFacts
  <2>2. pc'[v] = pc[v] /\ job'[v] = job[v]
    BY <1>2, <1>3, WorkerGoes
  <2> QED BY <1>1, <1>4, <2>1, <2>2 DEF UpToDate
<1>8. /\ order' \in Status /\ raced' \in BOOLEAN /\ revived' \in BOOLEAN
      /\ parcel' \in [Parcel -> Row \cup {NoParcel}] /\ pc[w] # "saving"
  BY <1>1, <1>3 DEF TypeOK, Overlaps
<1>9. where \in {"idle", "callingOff", "finishing"}
  BY <1>2 DEF Ends
<1> QED
  BY <1>1, <1>2, <1>4, <1>5, <1>6, <1>7, <1>8, <1>9, RowsMove

\* The status written on the row of an update.
LEMMA MoveFacts ==
    ASSUME ShipmentsInv, NEW w \in Worker, pc[w] \in Updating, MoveTo(w),
           raced' = (raced \/ Overlaps(w))
    PROVE  /\ parcel' \in [Parcel -> Row \cup {NoParcel}] /\ Parcels' = Parcels
           /\ job[w].parcel \in Parcels /\ job[w].parcel \in Parcel
           /\ \A p \in Parcels : /\ parcel'[p].quantity = parcel[p].quantity
                                 /\ parcel'[p].collects = parcel[p].collects
                                 /\ parcel'[p].reference = parcel[p].reference
           /\ parcel'[job[w].parcel].status = job[w].status
           /\ \A p \in Parcel \ {job[w].parcel} : parcel'[p] = parcel[p]
           /\ ~raced' => job[w].current = parcel[job[w].parcel].status
           /\ ~raced' /\ ~revived' => Live' \subseteq Live
<1>1. PICK b, s : b = job[w].parcel /\ s = job[w].status
  OBVIOUS
<1>2. b \in Parcels /\ b \in Parcel /\ s \in ShipmentStatus
  BY <1>1, InvFacts DEF Knows, WithParcel, Places, Parcels, Updating, ParcelJob
<1>3. parcel \in [Parcel -> Row \cup {NoParcel}] /\ parcel[b] \in Row
  BY <1>2, ParcelsFacts DEF ShipmentsInv, TypeOK
<1>4. PICK written \in Row : written = [parcel[b] EXCEPT !.status = s]
  BY <1>2, <1>3, RowFacts
<1>5. /\ written.status = s /\ written.reference = parcel[b].reference
      /\ written.quantity = parcel[b].quantity /\ written.collects = parcel[b].collects
  BY <1>2, <1>3, <1>4, RowFacts
<1>6. parcel' = [parcel EXCEPT ![b] = written]
  BY <1>1, <1>4 DEF MoveTo
<1>7. parcel'[b] = written /\ \A p \in Parcel \ {b} : parcel'[p] = parcel[p]
  BY <1>2, <1>3, <1>6
<1>8. parcel' \in [Parcel -> Row \cup {NoParcel}]
  BY <1>3, <1>6
<1>9. Parcels' = Parcels
  BY <1>2, <1>4, <1>7, RowFacts DEF Parcels
<1>10. ~raced' => job[w].current = parcel[b].status
  BY <1>1, InvFacts DEF UpToDate
<1>11. ASSUME ~raced', ~revived'
       PROVE  Live' \subseteq Live
  <2>1. parcel[b].status # "CANCELLED"
    BY <1>10, <1>11 DEF MoveTo
  <2> QED BY <1>2, <1>7, <1>9, <2>1 DEF Live, Parcels
<1> QED BY <1>1, <1>2, <1>5, <1>7, <1>8, <1>9, <1>10, <1>11 DEF Parcels

LEMMA MoveStep ==
    ASSUME ShipmentsInv, NEW w \in Worker, pc[w] \in Updating, MoveTo(w), Done(w, "PROCESSED"),
           raced' = (raced \/ Overlaps(w)), order' \in {order, "DELIVERED"},
           UNCHANGED <<collects, hook, consignments, calls, mishaps>>
    PROVE  ShipmentsInv'
<1>1. PICK where \in Places, j \in ParcelJob :
         Goto(w, where, j) /\ Ends(job[w], "PROCESSED", where, j)
  BY DoneEnds
<1>2. TypeOK /\ Trail(w) /\ revived' = (revived \/ job[w].current = "CANCELLED")
  BY DEF ShipmentsInv, MoveTo
<1>3. /\ parcel' \in [Parcel -> Row \cup {NoParcel}] /\ Parcels' = Parcels
      /\ job[w].parcel \in Parcels /\ job[w].parcel \in Parcel
      /\ \A p \in Parcels : /\ parcel'[p].quantity = parcel[p].quantity
                            /\ parcel'[p].collects = parcel[p].collects
                            /\ parcel'[p].reference = parcel[p].reference
      /\ \A p \in Parcel \ {job[w].parcel} : parcel'[p] = parcel[p]
      /\ ~raced' /\ ~revived' => Live' \subseteq Live
  BY MoveFacts
<1>4. /\ trail' \in [Parcel -> SUBSET Reports]
      /\ \A p \in Parcel : trail[p] \subseteq trail'[p]
  BY <1>2, Recorded
<1>5. Knows(where, j)'
  BY <1>1, <1>2, <1>3, EndKnows
<1>6. ASSUME NEW v \in Worker \ {w}, ~raced'
      PROVE  UpToDate(pc[v], job[v])'
  <2>1. UpToDate(pc[v], job[v]) /\ Knows(pc[v], job[v])
    BY <1>6, InvFacts
  <2>2. pc'[v] = pc[v] /\ job'[v] = job[v]
    BY <1>1, <1>2, WorkerGoes
  <2>3. /\ pc[v] # "arrived"
        /\ pc[v] \in Updating => job[v].parcel # job[w].parcel
    BY <1>6, NotOverlapped
  <2>4. pc[v] \in Updating \cup {"booking"} => job[v].parcel \in Parcels /\ job[v].parcel \in Parcel
    BY <2>1 DEF Knows, Updating, WithParcel, Places, Parcels
  <2>5. order = "DELIVERED" => order' = "DELIVERED"
    OBVIOUS
  <2>6. pc[v] \in Updating => parcel'[job[v].parcel] = parcel[job[v].parcel]
    BY <1>3, <2>3, <2>4
  <2>7. pc[v] = "booking" => parcel'[job[v].parcel].reference = parcel[job[v].parcel].reference
    BY <1>3, <2>4
  <2> QED BY <2>1, <2>2, <2>3, <2>5, <2>6, <2>7 DEF UpToDate, Updating
<1>7. /\ order' \in Status /\ raced' \in BOOLEAN /\ revived' \in BOOLEAN
      /\ pc[w] # "saving"
  BY <1>2 DEF TypeOK, Overlaps, Updating, Status
<1>8. where \in {"idle", "callingOff", "finishing"}
  BY <1>1 DEF Ends
<1>9. /\ raced => raced'
      /\ revived => revived'
  BY <1>2
<1> QED
  BY <1>1, <1>3, <1>4, <1>5, <1>6, <1>7, <1>8, <1>9, RowsMove

LEMMA ApplyStep ==
    ASSUME ShipmentsInv, NEW w \in Worker, Apply(w)
    PROVE  ShipmentsInv'
<1>1. pc[w] \in Updating /\ order' \in {order, "DELIVERED"}
  BY DEF Apply, Applies, Updating
<1> QED BY <1>1, MoveStep DEF Apply

LEMMA ArriveCommitStep ==
    ASSUME ShipmentsInv, NEW w \in Worker, ArriveCommit(w)
    PROVE  ShipmentsInv'
<1>1. pc[w] \in Updating /\ order' \in {order, "DELIVERED"}
  BY DEF ArriveCommit, Updating
<1> QED BY <1>1, MoveStep DEF ArriveCommit

LEMMA OrderCancelledStep ==
    ASSUME ShipmentsInv, OrderCancelled
    PROVE  ShipmentsInv'
<1>1. /\ order # "DELIVERED" /\ order' = "CANCELLED" /\ collects' = collects /\ parcel' = parcel
      /\ trail' = trail /\ hook' = hook /\ consignments' = consignments /\ pc' = pc /\ job' = job
      /\ raced' = raced /\ revived' = revived /\ calls' = calls /\ mishaps' = mishaps
  BY DEF OrderCancelled, historyVars
<1>2. Parcels' = Parcels /\ Live' = Live
  BY <1>1 DEF Parcels, Live
<1>3. \A l : alreadyShipped(l)' = alreadyShipped(l)
  BY <1>1, <1>2 DEF alreadyShipped
<1>4. TypeOK'
  BY <1>1, <1>2 DEF ShipmentsInv, TypeOK, Status
<1>5. ASSUME NEW v \in Worker
      PROVE  /\ Knows(pc[v], job[v])'
             /\ ~raced' => UpToDate(pc[v], job[v])'
             /\ ~raced' /\ ~revived' /\ Packs(pc[v], job[v])' => Fits(job[v])'
  <2>1. Knows(pc[v], job[v])'
    BY <1>1, <1>2, InvFacts DEF Knows
  <2>2. ~raced' => UpToDate(pc[v], job[v])'
    BY <1>1, <1>2, InvFacts DEF UpToDate
  <2>3. ASSUME ~raced', ~revived', Packs(pc[v], job[v])'
        PROVE  Fits(job[v])'
    <3>1. Fits(job[v])
      BY <1>1, <1>2, <2>3, InvFacts DEF Packs
    <3> QED BY <1>1, <1>2, <1>3, <3>1 DEF Fits
  <2> QED BY <2>1, <2>2, <2>3
<1>6. /\ ShippedWithinPurchase' /\ CollectedOnce' /\ BookedOnce' /\ ProcessedIsOnTrail'
      /\ OnTheBooks' /\ PickupsKnown'
  BY <1>1, <1>2, <1>3
  DEF ShipmentsInv, ShippedWithinPurchase, CollectedOnce, BookedOnce, ProcessedIsOnTrail,
      OnTheBooks, PickupsKnown
<1> QED
  BY <1>4, <1>5, <1>6 DEF ShipmentsInv, AllUpToDate, AllFit

-----------------------------------------------------------------------------
(* Shipments: a parcel is created *)

LEMMA Created ==
    ASSUME ShipmentsInv, NEW w \in Worker, NEW p \in Parcel, PackCommit(w, p)
    PROVE  /\ parcel' \in [Parcel -> Row \cup {NoParcel}]
           /\ p \notin Parcels /\ Parcels' = Parcels \cup {p} /\ Live' = Live \cup {p}
           /\ \A q \in Parcel \ {p} : parcel'[q] = parcel[q]
           /\ parcel'[p].quantity = job[w].quantity
           /\ parcel'[p].collects = job[w].collects
           /\ parcel'[p].status # "DELIVERED"
           /\ Cardinality(Parcels') = Cardinality(Parcels) + 1
<1>1. PICK written : written = [status    |-> IF job[w].tracked THEN "IN_TRANSIT" ELSE "READY_TO_SHIP",
                        quantity  |-> job[w].quantity,
                        collects  |-> job[w].collects,
                        reference |-> IF job[w].tracked THEN "tracking" ELSE "none"]
  OBVIOUS
<1>2. parcel' = [parcel EXCEPT ![p] = written] /\ parcel[p] = NoParcel
  BY <1>1 DEF PackCommit, Insert
<1>3. job[w] \in ParcelJob /\ TypeOK /\ parcel \in [Parcel -> Row \cup {NoParcel}]
  BY InvFacts DEF ShipmentsInv, TypeOK
<1>4. /\ written \in Row /\ written.quantity = job[w].quantity /\ written.collects = job[w].collects
      /\ written.status # "DELIVERED" /\ written.status # "CANCELLED"
  BY <1>1, <1>3 DEF Row, ParcelJob, ShipmentStatus
<1>5. parcel'[p] = written /\ \A q \in Parcel \ {p} : parcel'[q] = parcel[q]
  BY <1>2, <1>3
<1>6. p \notin Parcels /\ Parcels' = Parcels \cup {p}
  BY <1>2, <1>4, <1>5, RowFacts DEF Parcels
<1>7. Live' = Live \cup {p}
  BY <1>4, <1>5, <1>6 DEF Live, Parcels
<1>8. Cardinality(Parcels') = Cardinality(Parcels) + 1
  BY <1>3, <1>6, ParcelsFacts, FS_AddElement
<1> QED
  BY <1>2, <1>3, <1>4, <1>5, <1>6, <1>7, <1>8

\* What the new parcel claims is what its handler had found room for.
LEMMA CreatedClaims ==
    ASSUME ShipmentsInv, NEW w \in Worker, NEW p \in Parcel, PackCommit(w, p), ~raced', ~revived'
    PROVE  /\ \A l \in Line : alreadyShipped(l)' <= Purchased[l]
           /\ Cardinality({q \in Live : parcel[q].collects})' <= 1
<1>1. /\ parcel' \in [Parcel -> Row \cup {NoParcel}]
      /\ p \notin Parcels /\ Parcels' = Parcels \cup {p} /\ Live' = Live \cup {p}
      /\ \A q \in Parcel \ {p} : parcel'[q] = parcel[q]
      /\ parcel'[p].quantity = job[w].quantity
      /\ parcel'[p].collects = job[w].collects
  BY Created
<1>2. /\ TypeOK /\ IsFiniteSet(Live) /\ Live \subseteq Parcels /\ Parcels \subseteq Parcel
      /\ \A q \in Parcels : parcel[q].quantity \in [Line -> Nat]
  BY ParcelsFacts DEF ShipmentsInv
<1>3. Fits(job[w])
  <2>1. pc[w] = "creating" /\ ~NumberTaken(w) /\ ~raced /\ ~revived /\ job[w] \in ParcelJob
    BY InvFacts DEF PackCommit
  <2>2. job[w].number \in Nat /\ Cardinality(Parcels) \in Nat
    BY <1>2, <2>1, ParcelsFacts DEF ParcelJob
  <2>3. Packs(pc[w], job[w])
    BY <2>1, <2>2 DEF Packs, NumberTaken
  <2> QED BY <2>1, <2>3, InvFacts
<1>4. job[w].quantity \in [Line -> Nat]
  BY InvFacts, QuantitiesFacts DEF ParcelJob
<1>5. ASSUME NEW l \in Line
      PROVE  alreadyShipped(l)' <= Purchased[l]
  <2> DEFINE f == [q \in Parcels |-> parcel[q].quantity[l]]
             g == [q \in Parcels' |-> parcel'[q].quantity[l]]
  <2>1. alreadyShipped(l) = SumFunctionOnSet(f, Live)
        /\ alreadyShipped(l)' = SumFunctionOnSet(g, Live \cup {p})
    BY <1>1 DEF alreadyShipped
  <2>2. /\ \A q \in Live : f[q] \in Nat /\ g[q] = f[q]
        /\ g[p] = job[w].quantity[l] /\ g[p] \in Nat /\ p \notin Live
    BY <1>1, <1>2, <1>4
  <2> HIDE DEF f, g
  <2>3. SumFunctionOnSet(g, Live \cup {p}) = SumFunctionOnSet(g, Live) + g[p]
    <3>1. \A q \in Live \cup {p} : g[q] \in Int
      BY <2>2
    <3> QED BY <1>2, <2>2, <3>1, SumGrows
  <2>4. SumFunctionOnSet(g, Live) = SumFunctionOnSet(f, Live)
    BY <1>2, <2>2, SumSame
  <2>5. alreadyShipped(l) + job[w].quantity[l] <= Purchased[l]
    BY <1>3 DEF Fits
  <2> QED BY <2>1, <2>2, <2>3, <2>4, <2>5
<1>6. Cardinality({q \in Live : parcel[q].collects})' <= 1
  <2> DEFINE B == {q \in Live' : parcel'[q].collects}
  <2>1. CASE job[w].collects
    <3>1. \A q \in Live : ~parcel[q].collects
      BY <1>3, <2>1 DEF Fits
    <3>2. B = {p}
      BY <1>1, <1>2, <2>1, <3>1
    <3> HIDE DEF B
    <3>3. Cardinality(B) = 1
      BY <3>2, FS_Singleton
    <3> QED BY <3>3 DEF B
  <2>2. CASE ~job[w].collects
    <3>1. B = {q \in Live : parcel[q].collects}
      BY <1>1, <1>2, <2>2
    <3>2. Cardinality({q \in Live : parcel[q].collects}) <= 1
      BY DEF PackCommit, ShipmentsInv, CollectedOnce
    <3> QED BY <3>1, <3>2
  <2> QED BY <2>1, <2>2
<1> QED BY <1>5, <1>6

LEMMA PackCommitStep ==
    ASSUME ShipmentsInv, NEW w \in Worker, NEW p \in Parcel, PackCommit(w, p)
    PROVE  ShipmentsInv'
<1>1. /\ parcel' \in [Parcel -> Row \cup {NoParcel}]
      /\ p \notin Parcels /\ Parcels' = Parcels \cup {p} /\ Live' = Live \cup {p}
      /\ \A q \in Parcel \ {p} : parcel'[q] = parcel[q]
      /\ Cardinality(Parcels') = Cardinality(Parcels) + 1
  BY Created
<1>2. TypeOK /\ Cardinality(Parcels) \in Nat
  BY ParcelsFacts DEF ShipmentsInv
<1>3. /\ pc[w] = "creating" /\ order' = StatusAfterPacking(job[w])
      /\ collects' = collects /\ trail' = trail /\ hook' = hook /\ consignments' = consignments
      /\ revived' = revived /\ calls' = calls /\ mishaps' = mishaps
      /\ raced' = (raced \/ order # job[w].order
                   \/ \E v \in Worker \ {w} : pc[v] \in {"numbering", "arrived"})
  BY DEF PackCommit
<1>4. PICK where \in {"checking", "idle"}, j \in ParcelJob :
         /\ Goto(w, where, j) /\ j.provider = FALSE
         /\ where = "checking" => j.parcel = p
  <2> DEFINE k == [NoJob EXCEPT !.parcel = p]
  <2>1. k \in ParcelJob /\ k.provider = FALSE /\ k.parcel = p
    BY NoJobFacts DEF ParcelJob
  <2>2. CASE job[w].book
    <3>1. Goto(w, "checking", k)
      BY <2>2 DEF PackCommit
    <3> HIDE DEF k
    <3> QED BY <2>1, <3>1
  <2>3. CASE ~job[w].book
    <3>1. Goto(w, "idle", NoJob)
      BY <2>3 DEF PackCommit
    <3> QED BY <3>1, NoJobFacts
  <2> QED BY <2>2, <2>3
<1>5. /\ pc' \in [Worker -> Places] /\ job' \in [Worker -> ParcelJob]
      /\ pc'[w] = where /\ job'[w] = j
      /\ \A v \in Worker \ {w} : pc'[v] = pc[v] /\ job'[v] = job[v]
  <2>1. where \in Places
    BY DEF Places
  <2> QED BY <1>2, <1>4, <2>1, WorkerGoes
<1>6. ASSUME NEW v \in Worker
      PROVE  Knows(pc[v], job[v])'
  <2>1. CASE v = w
    BY <1>1, <1>4, <1>5, <2>1 DEF Knows, WithParcel
  <2>2. CASE v # w
    <3>1. Knows(pc'[v], job'[v]) /\ job'[v].number \in Nat
      BY <1>5, <2>2, InvFacts DEF ParcelJob
    <3> QED BY <1>1, <1>2, <1>3, <3>1 DEF Knows
  <2> QED BY <2>1, <2>2
<1>7. TypeOK'
  <2>1. \A v \in Worker : pc'[v] \in WithParcel => job'[v].parcel \in Parcels'
    BY <1>6 DEF Knows
  <2>2. order' \in Status /\ raced' \in BOOLEAN
    BY <1>2, <1>3 DEF StatusAfterPacking, Status, TypeOK
  <2> QED BY <1>1, <1>2, <1>3, <1>5, <2>1, <2>2 DEF TypeOK, Places, ParcelJob, WithParcel
<1>8. ASSUME NEW v \in Worker, ~raced'
      PROVE  UpToDate(pc[v], job[v])'
  <2>1. CASE v = w
    BY <1>4, <1>5, <2>1 DEF UpToDate, Updating
  <2>2. CASE v # w
    <3>1. UpToDate(pc[v], job[v]) /\ Knows(pc[v], job[v]) /\ pc'[v] = pc[v] /\ job'[v] = job[v]
      BY <1>3, <1>5, <1>8, <2>2, InvFacts
    <3>2. pc[v] # "arrived"
      BY <1>3, <1>8, <2>2
    <3>3. pc[v] \in Updating \cup {"booking"} =>
             parcel'[job[v].parcel] = parcel[job[v].parcel]
      <4>1. pc[v] \in Updating \cup {"booking"} => job[v].parcel \in Parcels
        BY <3>1 DEF Knows, Updating, WithParcel, Places
      <4> QED BY <1>1, <4>1 DEF Parcels
    <3>4. order = "DELIVERED" => order' = "DELIVERED"
      BY <1>3, <1>8 DEF StatusAfterPacking
    <3> QED BY <3>1, <3>2, <3>3, <3>4 DEF UpToDate, Updating
  <2> QED BY <2>1, <2>2
<1>9. ASSUME NEW v \in Worker, ~raced', Packs(pc[v], job[v])'
      PROVE  FALSE
  <2>1. v # w
    BY <1>4, <1>5, <1>9 DEF Packs
  <2>2. pc'[v] = pc[v] /\ job'[v] = job[v] /\ Knows(pc[v], job[v]) /\ job[v].number \in Nat
    BY <1>5, <2>1, InvFacts DEF ParcelJob
  <2>3. pc[v] # "numbering"
    BY <1>3, <1>9, <2>1
  <2> QED BY <1>1, <1>2, <1>9, <2>2, <2>3 DEF Packs, Knows
<1>10. PickupsKnown'
  <2> SUFFICES ASSUME ~raced', mishaps' = 0, NEW q \in Parcel, consignments'[q] > 0,
                      parcel'[q].reference # "booked"
               PROVE  \E v \in Worker : pc'[v] = "saving" /\ job'[v].parcel = q
    BY DEF PickupsKnown
  <2>1. q \in Parcels
    BY <1>3 DEF ShipmentsInv, OnTheBooks
  <2>2. ~raced /\ mishaps = 0 /\ consignments[q] > 0 /\ parcel'[q] = parcel[q]
    BY <1>1, <1>3, <2>1
  <2>3. PICK v \in Worker : pc[v] = "saving" /\ job[v].parcel = q
    BY <2>2 DEF ShipmentsInv, PickupsKnown
  <2>4. v # w
    BY <1>3, <2>3
  <2> QED BY <1>5, <2>3, <2>4
<1>11. /\ ShippedWithinPurchase' /\ CollectedOnce'
  BY CreatedClaims DEF ShippedWithinPurchase, CollectedOnce
<1>12. BookedOnce' /\ ProcessedIsOnTrail' /\ OnTheBooks'
  BY <1>1, <1>3 DEF ShipmentsInv, BookedOnce, ProcessedIsOnTrail, OnTheBooks
<1> QED
  BY <1>6, <1>7, <1>8, <1>9, <1>10, <1>11, <1>12 DEF ShipmentsInv, AllUpToDate, AllFit

-----------------------------------------------------------------------------
(* Shipments: the specification *)

LEMMA InitEstablishes == Init => ShipmentsInv
<1> SUFFICES ASSUME Init
             PROVE  ShipmentsInv
  OBVIOUS
<1>1. Parcels = {} /\ Live = {}
  BY DEF Init, Parcels, Live
<1>2. TypeOK
  <2>1. pc \in [Worker -> Places] /\ job \in [Worker -> ParcelJob]
    BY NoJobFacts, IdleKnows DEF Init
  <2>2. calls \in 0 .. MaxCalls /\ mishaps \in 0 .. MaxMishaps
    BY ShipmentsAssumption DEF Init
  <2> QED BY <2>1, <2>2 DEF Init, TypeOK, Places, ParcelJob, Status
<1>3. \A w \in Worker : /\ Knows(pc[w], job[w]) /\ UpToDate(pc[w], job[w])
                        /\ ~Packs(pc[w], job[w])
  BY IdleKnows, Settled DEF Init
<1>4. ShippedWithinPurchase
  <2> SUFFICES ASSUME NEW l \in Line
               PROVE  alreadyShipped(l) <= Purchased[l]
    BY DEF ShippedWithinPurchase
  <2>1. alreadyShipped(l) = 0
    BY <1>1, SumUnfolds DEF alreadyShipped
  <2>2. Purchased[l] \in Nat
    BY ShipmentsAssumption
  <2> QED BY <2>1, <2>2
<1>5. CollectedOnce
  <2>1. {p \in Live : parcel[p].collects} = {}
    BY <1>1
  <2> QED BY <2>1, FS_EmptySet DEF CollectedOnce
<1>6. BookedOnce /\ ProcessedIsOnTrail /\ OnTheBooks /\ PickupsKnown
  BY DEF Init, BookedOnce, ProcessedIsOnTrail, OnTheBooks, PickupsKnown
<1> QED
  BY <1>2, <1>3, <1>4, <1>5, <1>6 DEF ShipmentsInv, AllUpToDate, AllFit

LEMMA NextPreserves ==
    ASSUME ShipmentsInv, [Next]_vars
    PROVE  ShipmentsInv'
<1>1. ASSUME NEW w \in Worker, Begin(w)
      PROVE  ShipmentsInv'
  BY <1>1, StaffPackStep, AutoBookStep, StaffBookStep, StaffUpdateStep, DeliverStep, ReplayStep
  DEF Begin
<1>2. ASSUME NEW w \in Worker, Step(w)
      PROVE  ShipmentsInv'
  BY <1>2, AutoPackStep, NumberStep, PackCommitStep, PackRefusedStep, BookReadStep, BookCallStep,
     BookSaveStep, FindStep, RecordStep, RecordTwiceStep, ApplyStep, ArriveStep, ReadSiblingsStep,
     ArriveCommitStep, CallOffStep, FinishStep
  DEF Step
<1>3. CASE UNCHANGED vars
  <2>1. /\ order' = order /\ collects' = collects /\ parcel' = parcel /\ trail' = trail
        /\ hook' = hook /\ consignments' = consignments /\ pc' = pc /\ job' = job
        /\ raced' = raced /\ revived' = revived /\ calls' = calls /\ mishaps' = mishaps
    BY <1>3 DEF vars
  <2>2. Parcels' = Parcels /\ Live' = Live
    BY <2>1 DEF Parcels, Live
  <2>3. \A l : alreadyShipped(l)' = alreadyShipped(l)
    BY <2>1, <2>2 DEF alreadyShipped
  <2>4. TypeOK' /\ \A w \in Worker : Knows(pc[w], job[w])'
    BY <2>1, <2>2 DEF ShipmentsInv, TypeOK, Knows
  <2>5. AllUpToDate' /\ AllFit'
    BY <2>1, <2>2, <2>3 DEF ShipmentsInv, AllUpToDate, UpToDate, AllFit, Packs, Fits
  <2>6. /\ ShippedWithinPurchase' /\ CollectedOnce' /\ BookedOnce' /\ ProcessedIsOnTrail'
        /\ OnTheBooks' /\ PickupsKnown'
    BY <2>1, <2>2, <2>3
    DEF ShipmentsInv, ShippedWithinPurchase, CollectedOnce, BookedOnce, ProcessedIsOnTrail,
        OnTheBooks, PickupsKnown
  <2> QED BY <2>4, <2>5, <2>6 DEF ShipmentsInv
<1> QED
  BY <1>1, <1>2, <1>3, BookThrowsStep, DatabaseErrorStep, OrderCancelledStep, CrashStep DEF Next

LEMMA ShipmentsStand == Spec => []ShipmentsInv
BY InitEstablishes, NextPreserves, PTL DEF Spec

\* Parcels agree with the purchase and with the carrier, for any number of
\* parcels, lines and handlers: short of the races the parts name, nothing is
\* shipped, collected or booked twice, and no processed event is lost.
THEOREM ParcelsAlwaysStand == Spec => []ParcelsStand
<1>1. ShipmentsInv => ParcelsStand
  BY DEF ShipmentsInv, ParcelsStand
<1> QED
  BY <1>1, ShipmentsStand, PTL

\* One handler moves at a time.
LEMMA OnlyOneMoves ==
    ASSUME TypeOK, NEW v \in Worker, NEW w \in Worker \ {v},
           Begin(v) \/ Step(v) \/ BookThrows(v) \/ DatabaseError(v)
    PROVE  pc'[w] = pc[w]
<1>1. pc \in [Worker -> Places]
  BY DEF TypeOK, Places
<1>2. SUFFICES \E where : pc' = [pc EXCEPT ![v] = where]
  BY <1>1
<1>3. CASE Begin(v)
  BY <1>3 DEF Begin, StaffPack, PackRead, AutoBook, StaffBook, StaffUpdate, Deliver, Replay, Goto
<1>4. ASSUME NEW verdict, Done(v, verdict)
      PROVE  \E where : pc' = [pc EXCEPT ![v] = where]
  BY <1>4 DEF Done, Goto
<1>5. CASE Step(v)
  <2>1. CASE AutoPack(v) \/ nextShipmentNumber(v) \/ PackRefused(v)
    BY <2>1 DEF AutoPack, PackRead, nextShipmentNumber, PackRefused, Goto
  <2>2. ASSUME NEW p \in Parcel, PackCommit(v, p)
        PROVE  \E where : pc' = [pc EXCEPT ![v] = where]
    BY <2>2 DEF PackCommit, Goto
  <2>3. CASE BookRead(v) \/ BookCall(v) \/ BookSave(v) \/ CallOff(v) \/ Finish(v)
    BY <2>3 DEF BookRead, BookCall, BookSave, CallOff, Finish, Goto
  <2>4. CASE Find(v)
    BY <1>4, <2>4 DEF Find, Goto
  <2>5. CASE Record(v) \/ RecordTwice(v) \/ Apply(v) \/ ArriveCommit(v)
    BY <1>4, <2>5 DEF Record, RecordTwice, Apply, ArriveCommit
  <2>6. CASE Arrive(v) \/ ReadSiblings(v)
    BY <2>6 DEF Arrive, ReadSiblings, Goto
  <2> QED BY <1>5, <2>1, <2>2, <2>3, <2>4, <2>5, <2>6 DEF Step
<1>6. CASE BookThrows(v)
  BY <1>6 DEF BookThrows, Goto
<1>7. CASE DatabaseError(v)
  BY <1>4, <1>7 DEF DatabaseError
<1> QED BY <1>3, <1>5, <1>6, <1>7

\* The steps that write rows of parcels.
LEMMA WhoWrites ==
    ASSUME [Next]_vars
    PROVE  \/ parcel' = parcel
           \/ \E w \in Worker : \/ \E p \in Parcel : PackCommit(w, p)
                                \/ BookSave(w) \/ Apply(w) \/ ArriveCommit(w)
<1>1. CASE UNCHANGED vars
  BY <1>1 DEF vars
<1>2. CASE OrderCancelled \/ Crash
  BY <1>2 DEF OrderCancelled, Crash, dbVars
<1>3. ASSUME NEW w \in Worker, Begin(w)
      PROVE  parcel' = parcel
  BY <1>3 DEF Begin, StaffPack, PackRead, AutoBook, StaffBook, StaffUpdate, Deliver, Replay, dbVars
<1>4. ASSUME NEW w \in Worker, Step(w) \/ BookThrows(w) \/ DatabaseError(w)
      PROVE  \/ parcel' = parcel
             \/ \E p \in Parcel : PackCommit(w, p)
             \/ BookSave(w) \/ Apply(w) \/ ArriveCommit(w)
  BY <1>4
  DEF Step, AutoPack, PackRead, nextShipmentNumber, PackRefused, BookRead, BookCall, Find, Record,
      RecordTwice, Arrive, ReadSiblings, CallOff, Finish, BookThrows, DatabaseError, dbVars
<1> QED BY <1>1, <1>2, <1>3, <1>4 DEF Next

\* A carrier's event that comes late never moves a parcel back down the ladder:
\* the status its handler read is still the parcel's, or it has raced.
THEOREM NeverMovedBackwards == Spec => NeverBackwards
<1> DEFINE Ladder ==
      \A w \in Worker :
          /\ ~raced'
          /\ pc[w] \in {"applying", "arrived"} /\ job[w].provider
          /\ pc'[w] = "finishing"
          => \A p \in Parcel :
                {parcel[p].status, parcel'[p].status} \subseteq DOMAIN PROGRESS =>
                    PROGRESS[parcel'[p].status] >= PROGRESS[parcel[p].status]
<1>1. \A s \in DOMAIN PROGRESS : PROGRESS[s] \in 0 .. 4
  BY DEF PROGRESS
<1>2. ASSUME ShipmentsInv, [Next]_vars
      PROVE  Ladder
  <2>1. SUFFICES ASSUME NEW w \in Worker, ~raced', pc[w] \in {"applying", "arrived"},
                        job[w].provider, pc'[w] = "finishing", NEW p \in Parcel,
                        {parcel[p].status, parcel'[p].status} \subseteq DOMAIN PROGRESS
                 PROVE  PROGRESS[parcel'[p].status] >= PROGRESS[parcel[p].status]
    OBVIOUS
  <2>2. CASE parcel'[p].status = parcel[p].status
    BY <1>1, <2>1, <2>2
  <2>3. CASE Apply(w) \/ ArriveCommit(w)
    <3>1. pc[w] \in Updating /\ MoveTo(w) /\ raced' = (raced \/ Overlaps(w))
      BY <2>3 DEF Apply, Applies, ArriveCommit, Updating
    <3>2. /\ parcel'[job[w].parcel].status = job[w].status
          /\ \A q \in Parcel \ {job[w].parcel} : parcel'[q] = parcel[q]
          /\ job[w].current = parcel[job[w].parcel].status
      BY <1>2, <2>1, <3>1, MoveFacts
    <3>3. p = job[w].parcel \/ parcel'[p].status = parcel[p].status
      BY <3>2
    <3>4. ASSUME p = job[w].parcel, Apply(w)
          PROVE  PROGRESS[parcel'[p].status] >= PROGRESS[parcel[p].status]
      <4>1. ~isBackwards(parcel[p].status, parcel'[p].status)
        BY <2>1, <3>2, <3>4 DEF Apply, Applies
      <4> QED BY <1>1, <2>1, <4>1 DEF isBackwards
    <3>5. ASSUME p = job[w].parcel, ArriveCommit(w)
          PROVE  PROGRESS[parcel'[p].status] >= PROGRESS[parcel[p].status]
      <4>1. parcel'[p].status = "DELIVERED"
        BY <1>2, <3>2, <3>5, InvFacts DEF ArriveCommit, Knows
      <4>2. PROGRESS["DELIVERED"] = 4
        BY DEF PROGRESS
      <4> QED BY <1>1, <2>1, <4>1, <4>2
    <3> QED BY <2>2, <2>3, <3>3, <3>4, <3>5
  <2>4. Apply(w) \/ ArriveCommit(w) \/ parcel' = parcel
    <3>1. CASE UNCHANGED vars
      BY <3>1 DEF vars
    <3>2. CASE OrderCancelled \/ Crash
      BY <3>2 DEF OrderCancelled, Crash, dbVars
    <3>3. ASSUME NEW v \in Worker, v # w, Begin(v) \/ Step(v) \/ BookThrows(v) \/ DatabaseError(v)
          PROVE  FALSE
      <4>1. pc'[w] = pc[w]
        BY <1>2, <3>3, OnlyOneMoves DEF ShipmentsInv
      <4> QED BY <2>1, <4>1
    <3>4. ASSUME Begin(w)
          PROVE  FALSE
      BY <2>1, <3>4 DEF Begin, StaffPack, AutoBook, StaffBook, StaffUpdate, Deliver, Replay
    <3>5. CASE Step(w) \/ BookThrows(w) \/ DatabaseError(w)
      BY <2>1, <3>5
      DEF Step, AutoPack, nextShipmentNumber, PackCommit, PackRefused, BookRead, BookCall, BookSave,
          Find, Record, RecordTwice, Arrive, ReadSiblings, CallOff, Finish, BookThrows,
          DatabaseError, dbVars
    <3> QED BY <1>2, <3>1, <3>2, <3>3, <3>4, <3>5 DEF Next
  <2> QED BY <2>2, <2>3, <2>4
<1>3. Spec => [][Ladder]_vars
  BY <1>2, ShipmentsStand, PTL DEF Spec
<1> QED BY <1>3 DEF NeverBackwards

\* The arrival that delivers the order is the last one: what its handler read of
\* the siblings and of the order still holds, or it has raced.
THEOREM LastArrivalAlwaysDelivers == Spec => LastArrivalDelivers
<1> DEFINE LastDelivers ==
      \A p \in Parcel :
          /\ ~raced'
          /\ order # "DELIVERED"
          /\ parcel[p].status # "DELIVERED" /\ parcel'[p].status = "DELIVERED"
          => (order' = "DELIVERED" <=> \A q \in Live' : parcel'[q].status = "DELIVERED")
<1>1. ASSUME ShipmentsInv, [Next]_vars
      PROVE  LastDelivers
  <2>1. SUFFICES ASSUME NEW p \in Parcel, ~raced', order # "DELIVERED",
                        parcel[p].status # "DELIVERED", parcel'[p].status = "DELIVERED"
                 PROVE  order' = "DELIVERED" <=> \A q \in Live' : parcel'[q].status = "DELIVERED"
    OBVIOUS
  <2>2. ASSUME NEW w \in Worker, NEW q \in Parcel, PackCommit(w, q)
        PROVE  FALSE
    BY <1>1, <2>1, <2>2, Created
  <2>3. ASSUME NEW w \in Worker, BookSave(w)
        PROVE  FALSE
    <3>1. parcel[job[w].parcel] \in Row /\ job[w].parcel \in Parcel
      BY <1>1, <2>3, InvFacts, ParcelsFacts
      DEF BookSave, Knows, WithParcel, Places, ShipmentsInv, Parcels
    <3>2. parcel \in [Parcel -> Row \cup {NoParcel}]
      BY <1>1 DEF ShipmentsInv, TypeOK
    <3>3. parcel' = [parcel EXCEPT ![job[w].parcel].reference = "booked"]
      BY <2>3 DEF BookSave
    <3>4. parcel'[p].status = parcel[p].status
      BY <3>1, <3>2, <3>3, RowFacts
    <3> QED BY <2>1, <3>4
  <2>4. ASSUME NEW w \in Worker, Apply(w)
        PROVE  FALSE
    <3>1. pc[w] \in Updating /\ MoveTo(w) /\ raced' = (raced \/ Overlaps(w))
          /\ job[w].status # "DELIVERED"
      BY <2>4 DEF Apply, Applies, Updating
    <3> QED BY <1>1, <2>1, <3>1, MoveFacts
  <2>5. PICK w \in Worker : ArriveCommit(w)
    BY <1>1, <2>1, <2>2, <2>3, <2>4, WhoWrites
  <2>6. PICK b : b = job[w].parcel
    OBVIOUS
  <2>7. /\ pc[w] = "arrived" /\ pc[w] \in Updating /\ MoveTo(w) /\ ~raced
        /\ raced' = (raced \/ Overlaps(w))
        /\ order' = IF job[w].fully /\ job[w].order # "DELIVERED" THEN "DELIVERED" ELSE order
    BY <2>1, <2>5 DEF ArriveCommit, Updating
  <2>8. /\ Parcels' = Parcels /\ b \in Parcels /\ b \in Parcel
        /\ parcel'[b].status = job[w].status
        /\ \A q \in Parcel \ {b} : parcel'[q] = parcel[q]
    BY <1>1, <2>6, <2>7, MoveFacts
  <2>9. /\ job[w].status = "DELIVERED"
        /\ job[w].fully <=> \A q \in Live \ {b} : parcel[q].status = "DELIVERED"
        /\ job[w].order = "DELIVERED" => order = "DELIVERED"
    BY <1>1, <2>6, <2>7, InvFacts DEF Knows, UpToDate
  <2>10. Live' \ {b} = Live \ {b}
    BY <2>8 DEF Live, Parcels
  <2>11. (\A q \in Live' : parcel'[q].status = "DELIVERED")
            <=> \A q \in Live \ {b} : parcel[q].status = "DELIVERED"
    <3>1. \A q \in Live \ {b} : parcel'[q] = parcel[q]
      BY <2>8 DEF Live, Parcels
    <3>2. parcel'[b].status = "DELIVERED"
      BY <2>8, <2>9
    <3> QED BY <2>10, <3>1, <3>2
  <2> QED BY <2>1, <2>7, <2>9, <2>11
<1>2. Spec => [][LastDelivers]_vars
  BY <1>1, ShipmentsStand, PTL DEF Spec
<1> QED BY <1>2 DEF LastArrivalDelivers

-----------------------------------------------------------------------------
(* The carrier: one booking, one call-off, one renewed token               *)
(***************************************************************************)
(* The invariant follows each parcel through the handler that is at it: as *)
(* long as no two handlers cross, what the row says of a parcel at rest,   *)
(* and what the carrier holds, can be told from the step its handler is    *)
(* about to take.                                                          *)
(***************************************************************************)

CallOf(s, p, a, t, r, c, b, l) ==
    [step |-> s, parcel |-> p, auth |-> a, tok |-> t, retry |-> r,
     couriers |-> c, tracked |-> b, label |-> l]

\* The couriers still to be asked are whatever the ranking made them.
CallShape(j) ==
    /\ j = CallOf(j.step, j.parcel, j.auth, j.tok, j.retry, j.couriers, j.tracked, j.label)
    /\ j.step \in Calling \cup {"idle", "edit", "save"}
    /\ j.parcel = Nobody \/ j.parcel \in Package
    /\ j.parcel = Nobody <=> j.step \in {"idle", "rates"}
    /\ j.auth \in {"none", "signing_in", "signed_in", "held"}
    /\ j.auth # "none" => j.step \in Calling
    /\ j.tok \in Nat
    /\ j.retry \in BOOLEAN /\ j.tracked \in BOOLEAN /\ j.label \in BOOLEAN

CallsFit ==
    /\ task = [w \in Handler |-> task[w]]
    /\ \A w \in Handler : CallShape(task[w])

\* Two handlers at one parcel have crossed.
OneAtATime ==
    "crossed" \notin trouble =>
        \A v, w \in Handler : task[v].parcel \in Package /\ task[v].parcel = task[w].parcel => v = w

Booking == {"create", "couriers", "assign", "label", "save"}

\* A parcel at rest: what is registered is booked, and its waybill tracked ...
Sound(r, n, a) ==
    /\ ~r.booked => n = 0 /\ a = 0 /\ ~r.tracked
    /\ r.booked => n <= 1 /\ a <= 1 /\ (n = 1 => (a = 1 <=> r.tracked))

\* ... and one cancelled has been called off or is before an operator.
PickupSettled(r, n) == r.cancelled /\ r.booked => n = 0 \/ r.review

NothingLost(t) == t \cap {"lost", "stopped", "crossed"} = {}
NothingMissed(t) == t \cap {"stopped", "crossed", "cancelled_first", "looked_at"} = {}

AtRestStands(r, n, a, t) ==
    /\ NothingLost(t) => Sound(r, n, a)
    /\ NothingMissed(t) => PickupSettled(r, n)

\* What a handler at the step of j finds: registered by the first call, given a
\* waybill once the handler knows of it.
StageSound(j, r, n, a) ==
    /\ j.step \in Booking => ~r.booked /\ ~r.tracked /\ a <= 1
    /\ j.step = "create" => n = 0
    /\ j.step \in Booking \ {"create"} => n = 1
    /\ j.step \in {"create", "couriers", "assign"} => ~j.tracked
    /\ j.step \in Booking => (a = 1 <=> j.tracked)
    /\ j.step \notin Booking => Sound(r, n, a)
    /\ j.step = "edit" => j.tracked = r.tracked
    /\ j.step \in {"relabel", "call_off", "call_off_order"} => r.booked

StageSettled(j, r, n) ==
    /\ j.step \in Booking => ~r.booked /\ ~r.cancelled
    /\ j.step \in {"edit", "relabel"} => PickupSettled(r, n)

StageStands(j, r, n, a, t) ==
    /\ NothingLost(t) => StageSound(j, r, n, a)
    /\ NothingMissed(t) => StageSettled(j, r, n)

PackagesStand ==
    "crossed" \notin trouble =>
        \A p \in Package :
            /\ AtRest(p) => AtRestStands(row[p], registered[p], awb[p], trouble)
            /\ \A w \in Handler :
                  task[w].parcel = p => StageStands(task[w], row[p], registered[p], awb[p], trouble)

\* The token of a call that is made again is the new one.
Fresh(j, kept, now) ==
    /\ j.auth = "signed_in" => j.tok = now
    /\ now = 0 => j.retry
    /\ ~j.retry => kept \in {Nobody, now} /\ (j.auth = "held" => j.tok = now)

\* Nobody was signing in as the tokens were revoked.
OnTime(t) == "signed_in_late" \notin t

TokensStand ==
    /\ token = Nobody \/ token <= epoch
    /\ \A w \in Handler : task[w].tok <= epoch
    /\ epoch <= 1 /\ OnTime(trouble) =>
          ~gaveUp /\ \A w \in Handler : Fresh(task[w], token, epoch)

CarrierInv == CarrierTypeOK /\ CallsFit /\ OneAtATime /\ PackagesStand /\ TokensStand

-----------------------------------------------------------------------------
(* One handler at one parcel *)

\* A handler moves on, and the others stay where they are.
LEMMA HandlerGoes ==
    ASSUME CallsFit, NEW w \in Handler, NEW j, CallShape(j), GoesTo(w, j)
    PROVE  /\ CallsFit'
           /\ task'[w] = j
           /\ \A v \in Handler \ {w} : task'[v] = task[v]
<1>1. task' = [task EXCEPT ![w] = j]
  BY DEF GoesTo
<1>2. task'[w] = j /\ \A v \in Handler \ {w} : task'[v] = task[v]
  BY <1>1 DEF CallsFit
<1>3. task' = [v \in Handler |-> task'[v]]
  BY <1>1 DEF CallsFit
<1>4. \A v \in Handler : CallShape(task'[v])
  BY <1>2 DEF CallsFit
<1> QED
  BY <1>2, <1>3, <1>4 DEF CallsFit, CallShape

\* The fields of a call.
LEMMA CallFields ==
    ASSUME NEW s, NEW p, NEW a, NEW t, NEW r, NEW c, NEW b, NEW l
    PROVE  /\ CallOf(s, p, a, t, r, c, b, l).step = s
           /\ CallOf(s, p, a, t, r, c, b, l).parcel = p
           /\ CallOf(s, p, a, t, r, c, b, l).auth = a
           /\ CallOf(s, p, a, t, r, c, b, l).tok = t
           /\ CallOf(s, p, a, t, r, c, b, l).retry = r
           /\ CallOf(s, p, a, t, r, c, b, l).couriers = c
           /\ CallOf(s, p, a, t, r, c, b, l).tracked = b
           /\ CallOf(s, p, a, t, r, c, b, l).label = l
BY DEF CallOf

\* What makes a call.
LEMMA CallIsShaped ==
    ASSUME NEW s \in Calling \cup {"idle", "edit", "save"}, NEW p, p = Nobody \/ p \in Package,
           p = Nobody <=> s \in {"idle", "rates"},
           NEW a \in {"none", "signing_in", "signed_in", "held"}, a # "none" => s \in Calling, NEW t \in Nat,
           NEW r \in BOOLEAN, NEW c, NEW b \in BOOLEAN, NEW l \in BOOLEAN
    PROVE  CallShape(CallOf(s, p, a, t, r, c, b, l))
<1>1. PICK j : j = CallOf(s, p, a, t, r, c, b, l)
  OBVIOUS
<1>2. /\ j.step = s /\ j.parcel = p /\ j.auth = a /\ j.tok = t
      /\ j.retry = r /\ j.couriers = c /\ j.tracked = b /\ j.label = l
  BY <1>1 DEF CallOf
<1> QED
  BY <1>1, <1>2 DEF CallShape

\* What a handler at rest is.
LEMMA IdleShape ==
    /\ CallShape(Idle)
    /\ Idle = CallOf("idle", Nobody, "none", 0, TRUE, <<>>, FALSE, FALSE)
    /\ Idle.step = "idle" /\ Idle.parcel = Nobody /\ Idle.auth = "none" /\ Idle.tok = 0 /\ Idle.retry = TRUE
<1>1. Idle = CallOf("idle", Nobody, "none", 0, TRUE, <<>>, FALSE, FALSE)
  BY DEF Idle, CallOf
<1>2. CallShape(CallOf("idle", Nobody, "none", 0, TRUE, <<>>, FALSE, FALSE))
  BY CallIsShaped
<1>3. Idle.step = "idle" /\ Idle.parcel = Nobody /\ Idle.auth = "none" /\ Idle.tok = 0 /\ Idle.retry = TRUE
  BY DEF Idle
<1> QED
  BY <1>1, <1>2, <1>3

\* A request taken up at a parcel, with the tracking number that was read or not.
LEMMA RequestShape ==
    ASSUME NEW s \in Calling \cup {"edit"}, s # "rates", NEW p \in Package, NEW b \in BOOLEAN
    PROVE  /\ [Idle EXCEPT !.step = s, !.parcel = p] = CallOf(s, p, "none", 0, TRUE, <<>>, FALSE, FALSE)
           /\ [Idle EXCEPT !.step = s, !.parcel = p, !.tracked = b] = CallOf(s, p, "none", 0, TRUE, <<>>, b, FALSE)
           /\ CallShape(CallOf(s, p, "none", 0, TRUE, <<>>, b, FALSE))
<1>1. PICK i : i = Idle
  OBVIOUS
<1>2. i = CallOf("idle", Nobody, "none", 0, TRUE, <<>>, FALSE, FALSE)
  BY <1>1, IdleShape
<1>3. PICK i1 : i1 = [i EXCEPT !.step = s]
  OBVIOUS
<1>4. PICK i2 : i2 = [i1 EXCEPT !.parcel = p]
  OBVIOUS
<1>5. /\ i2 = CallOf(s, p, "none", 0, TRUE, <<>>, FALSE, FALSE)
      /\ [i2 EXCEPT !.tracked = b] = CallOf(s, p, "none", 0, TRUE, <<>>, b, FALSE)
  <2>1. PICK yes, no : yes = TRUE /\ no = FALSE
    OBVIOUS
  <2>2. i = CallOf("idle", Nobody, "none", 0, yes, <<>>, no, no)
    BY <1>2, <2>1
  <2>3. i1 = CallOf(s, Nobody, "none", 0, yes, <<>>, no, no)
    BY <1>3, <2>2 DEF CallOf
  <2>4. i2 = CallOf(s, p, "none", 0, yes, <<>>, no, no)
    BY <1>4, <2>3 DEF CallOf
  <2>5. [i2 EXCEPT !.tracked = b] = CallOf(s, p, "none", 0, yes, <<>>, b, no)
    BY <2>4 DEF CallOf
  <2> QED
    BY <2>1, <2>4, <2>5
<1>6. CallShape(CallOf(s, p, "none", 0, TRUE, <<>>, b, FALSE))
  <2>1. p # Nobody /\ s \notin {"idle", "rates"}
    BY CarrierAssumption DEF Calling
  <2> QED
    BY <2>1, CallIsShaped
<1> QED
  BY <1>1, <1>3, <1>4, <1>5, <1>6, Zenon

\* The next call starts without a token, and may be made again.
LEMMA ThenShape ==
    ASSUME CallsFit, NEW w \in Handler, NEW s \in (Calling \ {"rates"}) \cup {"save"},
           task[w].parcel \in Package
    PROVE  /\ CallShape(Then(w, s))
           /\ Then(w, s) = CallOf(s, task[w].parcel, "none", 0, TRUE,
                                  task[w].couriers, task[w].tracked, task[w].label)
<1>1. PICK j : j = task[w]
  OBVIOUS
<1>2. CallShape(j) /\ j.parcel \in Package /\ j.parcel # Nobody
  BY <1>1, CarrierAssumption DEF CallsFit
<1>3. PICK p, c, b, l : p = j.parcel /\ c = j.couriers /\ b = j.tracked /\ l = j.label
  OBVIOUS
<1>4. PICK z, a, t, r : j = CallOf(z, p, a, t, r, c, b, l)
  BY <1>2, <1>3 DEF CallShape
<1>5. [j EXCEPT !.step = s, !.auth = "none", !.tok = 0, !.retry = TRUE]
          = CallOf(s, p, "none", 0, TRUE, c, b, l)
  <2>1. PICK j1 : j1 = [j EXCEPT !.step = s]
    OBVIOUS
  <2>2. PICK j2 : j2 = [j1 EXCEPT !.auth = "none"]
    OBVIOUS
  <2>3. PICK j3 : j3 = [j2 EXCEPT !.tok = 0]
    OBVIOUS
  <2>4. PICK yes : yes = TRUE
    OBVIOUS
  <2>5. j1 = CallOf(s, p, a, t, r, c, b, l)
    BY <1>4, <2>1 DEF CallOf
  <2>6. j2 = CallOf(s, p, "none", t, r, c, b, l)
    BY <2>5, <2>2 DEF CallOf
  <2>7. j3 = CallOf(s, p, "none", 0, r, c, b, l)
    BY <2>6, <2>3 DEF CallOf
  <2>8. [j3 EXCEPT !.retry = yes] = CallOf(s, p, "none", 0, yes, c, b, l)
    BY <2>7 DEF CallOf
  <2> QED
    BY <2>1, <2>2, <2>3, <2>4, <2>8, Zenon
<1>6. CallShape(CallOf(s, p, "none", 0, TRUE, c, b, l))
  <2>1. p \in Package /\ p # Nobody /\ b \in BOOLEAN /\ l \in BOOLEAN
    BY <1>2, <1>3 DEF CallShape
  <2>2. s \in Calling \cup {"idle", "edit", "save"} /\ s \notin {"idle", "rates"}
    BY DEF Calling
  <2> QED
    BY <2>1, <2>2, CallIsShaped
<1>7. Then(w, s) = CallOf(s, p, "none", 0, TRUE, c, b, l)
  BY <1>1, <1>5, Zenon DEF Then
<1> QED
  BY <1>1, <1>3, <1>6, <1>7

\* Getting a token moves nothing but the token.
LEMMA TokenShape ==
    ASSUME NEW j, CallShape(j), j.step \in Calling,
           NEW a \in {"none", "signing_in", "signed_in", "held"}, NEW n \in Nat
    PROVE  /\ [j EXCEPT !.auth = a]
                  = CallOf(j.step, j.parcel, a, j.tok, j.retry, j.couriers, j.tracked, j.label)
           /\ [j EXCEPT !.auth = a, !.tok = n]
                  = CallOf(j.step, j.parcel, a, n, j.retry, j.couriers, j.tracked, j.label)
           /\ [j EXCEPT !.auth = a, !.retry = FALSE]
                  = CallOf(j.step, j.parcel, a, j.tok, FALSE, j.couriers, j.tracked, j.label)
           /\ CallShape(CallOf(j.step, j.parcel, a, j.tok, j.retry, j.couriers, j.tracked, j.label))
           /\ CallShape(CallOf(j.step, j.parcel, a, n, j.retry, j.couriers, j.tracked, j.label))
           /\ CallShape(CallOf(j.step, j.parcel, a, j.tok, FALSE, j.couriers, j.tracked, j.label))
<1>1. PICK s, p, t, r, c, b, l :
          /\ s = j.step /\ p = j.parcel /\ t = j.tok /\ r = j.retry
          /\ c = j.couriers /\ b = j.tracked /\ l = j.label
  OBVIOUS
<1>2. PICK z : j = CallOf(s, p, z, t, r, c, b, l)
  BY <1>1 DEF CallShape
<1>3. /\ s \in Calling \cup {"idle", "edit", "save"} /\ (p = Nobody \/ p \in Package)
      /\ p = Nobody <=> s \in {"idle", "rates"}
      /\ s \in Calling /\ t \in Nat /\ r \in BOOLEAN /\ b \in BOOLEAN /\ l \in BOOLEAN
  BY <1>1 DEF CallShape
<1>4. PICK j1 : j1 = [j EXCEPT !.auth = a]
  OBVIOUS
<1>5. j1 = CallOf(s, p, a, t, r, c, b, l)
  BY <1>2, <1>4 DEF CallOf
<1>6. /\ [j1 EXCEPT !.tok = n] = CallOf(s, p, a, n, r, c, b, l)
      /\ [j1 EXCEPT !.retry = FALSE] = CallOf(s, p, a, t, FALSE, c, b, l)
  <2>1. PICK no, m, y : no = FALSE /\ m = n /\ y = a
    OBVIOUS
  <2>2. j1 = CallOf(s, p, y, t, r, c, b, l)
    BY <1>5, <2>1
  <2>3. PICK j2, j3 : j2 = [j1 EXCEPT !.tok = m] /\ j3 = [j1 EXCEPT !.retry = no]
    OBVIOUS
  <2>4. j2 = CallOf(s, p, y, m, r, c, b, l)
    BY <2>2, <2>3 DEF CallOf
  <2>5. j3 = CallOf(s, p, y, t, no, c, b, l)
    BY <2>2, <2>3 DEF CallOf
  <2> QED
    BY <2>1, <2>3, <2>4, <2>5, Zenon
<1>7. /\ CallShape(CallOf(s, p, a, t, r, c, b, l))
      /\ CallShape(CallOf(s, p, a, n, r, c, b, l))
      /\ CallShape(CallOf(s, p, a, t, FALSE, c, b, l))
  BY <1>3, CallIsShaped
<1> QED
  BY <1>1, <1>4, <1>5, <1>6, <1>7, Zenon

\* Who is at a parcel when no two have crossed is alone at it.
LEMMA AloneAt ==
    ASSUME CarrierInv, "crossed" \notin trouble, NEW w \in Handler, NEW p \in Package, task[w].parcel = p
    PROVE  /\ StageStands(task[w], row[p], registered[p], awb[p], trouble)
           /\ \A v \in Handler \ {w} : task[v].parcel # p
BY DEF CarrierInv, OneAtATime, PackagesStand

\* Less is promised of a parcel the more has gone wrong.
LEMMA TroubleExcuses ==
    ASSUME NEW t, NEW u, t \subseteq u, NEW r, NEW n, NEW a, NEW j
    PROVE  /\ AtRestStands(r, n, a, t) => AtRestStands(r, n, a, u)
           /\ StageStands(j, r, n, a, t) => StageStands(j, r, n, a, u)
<1>1. (NothingLost(u) => NothingLost(t)) /\ (NothingMissed(u) => NothingMissed(t))
  BY DEF NothingLost, NothingMissed
<1> QED
  BY <1>1 DEF AtRestStands, StageStands

\* A step of one handler at one parcel: the others and their parcels are as they were.
LEMMA OneMoves ==
    ASSUME CarrierInv, CallsFit', trouble \subseteq trouble', NEW w \in Handler, NEW p \in Package,
           \A v \in Handler \ {w} : task'[v] = task[v],
           \A q \in Package \ {p} : row'[q] = row[q] /\ registered'[q] = registered[q] /\ awb'[q] = awb[q],
           task[w].parcel \in {p, Nobody}, task'[w].parcel \in {p, Nobody},
           task[w].parcel = p \/ ~Crosses(w, p) \/ "crossed" \in trouble',
           "crossed" \notin trouble' /\ task'[w].parcel = p =>
               StageStands(task'[w], row'[p], registered'[p], awb'[p], trouble'),
           "crossed" \notin trouble' /\ task'[w].parcel = Nobody =>
               AtRestStands(row'[p], registered'[p], awb'[p], trouble')
    PROVE  OneAtATime' /\ PackagesStand'
<1> SUFFICES ASSUME "crossed" \notin trouble' PROVE OneAtATime' /\ PackagesStand'
  BY DEF OneAtATime, PackagesStand
<1>0. "crossed" \notin trouble /\ Nobody \notin Package
  BY CarrierAssumption
<1>1. \A v \in Handler \ {w} : task[v].parcel # p
  BY <1>0, AloneAt DEF Crosses
<1>2. OneAtATime'
  BY <1>0, <1>1 DEF CarrierInv, OneAtATime
<1>3. ASSUME NEW q \in Package
      PROVE  /\ AtRest(q)' => AtRestStands(row'[q], registered'[q], awb'[q], trouble')
             /\ \A v \in Handler : task'[v].parcel = q =>
                   StageStands(task'[v], row'[q], registered'[q], awb'[q], trouble')
  <2>1. CASE q = p
    <3>1. AtRest(p)' => task'[w].parcel = Nobody
      BY DEF AtRest
    <3>2. \A v \in Handler : task'[v].parcel = p => v = w
      BY <1>1
    <3> QED
      BY <2>1, <3>1, <3>2
  <2>2. CASE q # p
    <3>1. /\ row'[q] = row[q] /\ registered'[q] = registered[q] /\ awb'[q] = awb[q]
          /\ task[w].parcel # q /\ task'[w].parcel # q
      BY <1>0, <2>2
    <3>2. AtRest(q)' => AtRest(q)
      BY <3>1 DEF AtRest
    <3>3. /\ AtRest(q) => AtRestStands(row[q], registered[q], awb[q], trouble)
          /\ \A v \in Handler : task[v].parcel = q =>
                StageStands(task[v], row[q], registered[q], awb[q], trouble)
      BY <1>0 DEF CarrierInv, PackagesStand
    <3>4. AtRestStands(row[q], registered[q], awb[q], trouble) => AtRestStands(row[q], registered[q], awb[q], trouble')
      BY TroubleExcuses
    <3>5. \A v \in Handler : task'[v].parcel = q => v # w /\ task'[v] = task[v]
      BY <3>1
    <3>6. \A v \in Handler : StageStands(task[v], row[q], registered[q], awb[q], trouble) =>
                             StageStands(task[v], row[q], registered[q], awb[q], trouble')
      BY TroubleExcuses
    <3> QED
      BY <3>1, <3>2, <3>3, <3>4, <3>5, <3>6
  <2> QED
    BY <2>1, <2>2
<1> QED
  BY <1>2, <1>3 DEF PackagesStand

\* A step that changes nothing a parcel's stage depends on.
LEMMA NoneMoves ==
    ASSUME CarrierInv, trouble \subseteq trouble', UNCHANGED <<row, registered, awb>>,
           \A v \in Handler :
               \/ /\ task'[v].step = task[v].step /\ task'[v].parcel = task[v].parcel
                  /\ task'[v].tracked = task[v].tracked
               \/ task[v].parcel = Nobody /\ task'[v].parcel = Nobody
    PROVE  OneAtATime' /\ PackagesStand'
<1> SUFFICES ASSUME "crossed" \notin trouble' PROVE OneAtATime' /\ PackagesStand'
  BY DEF OneAtATime, PackagesStand
<1>0. "crossed" \notin trouble /\ Nobody \notin Package
  BY CarrierAssumption
<1>1. OneAtATime'
  BY <1>0 DEF CarrierInv, OneAtATime
<1>2. ASSUME NEW q \in Package
      PROVE  /\ AtRest(q)' => AtRestStands(row[q], registered[q], awb[q], trouble')
             /\ \A v \in Handler : task'[v].parcel = q =>
                   StageStands(task'[v], row[q], registered[q], awb[q], trouble')
  <2>1. AtRest(q)' => AtRest(q)
    BY <1>0 DEF AtRest
  <2>2. /\ AtRest(q) => AtRestStands(row[q], registered[q], awb[q], trouble)
        /\ \A v \in Handler : task[v].parcel = q =>
              StageStands(task[v], row[q], registered[q], awb[q], trouble)
    BY <1>0 DEF CarrierInv, PackagesStand
  <2>3. /\ AtRestStands(row[q], registered[q], awb[q], trouble) => AtRestStands(row[q], registered[q], awb[q], trouble')
        /\ \A v \in Handler : StageStands(task[v], row[q], registered[q], awb[q], trouble) =>
                              StageStands(task[v], row[q], registered[q], awb[q], trouble')
    BY TroubleExcuses
  <2>4. \A v \in Handler : task'[v].parcel = q /\ StageStands(task[v], row[q], registered[q], awb[q], trouble') =>
                           StageStands(task'[v], row[q], registered[q], awb[q], trouble')
    BY <1>0 DEF StageStands, StageSound, StageSettled
  <2> QED
    BY <1>0, <2>1, <2>2, <2>3, <2>4
<1> QED
  BY <1>1, <1>2 DEF PackagesStand

Unstarted(j) == j.auth = "none" /\ j.tok = 0 /\ j.retry = TRUE

\* Who has no token yet, for a call not yet refused, is as fresh as can be.
LEMMA TokensKept ==
    ASSUME CarrierInv, trouble \subseteq trouble', UNCHANGED <<token, epoch>>, NEW w \in Handler,
           gaveUp' = gaveUp \/ (gaveUp' = TRUE /\ ~(epoch <= 1 /\ OnTime(trouble))),
           \A v \in Handler \ {w} : task'[v] = task[v],
           task'[w] = task[w] \/ Unstarted(task'[w])
    PROVE  TokensStand'
<1>1. /\ token = Nobody \/ token <= epoch
      /\ \A v \in Handler : task[v].tok <= epoch
      /\ epoch \in Nat
  BY DEF CarrierInv, TokensStand, CarrierTypeOK
<1>2. \A v \in Handler : task'[v].tok <= epoch
  BY <1>1 DEF Unstarted
<1>0. OnTime(trouble') => OnTime(trouble)
  BY DEF OnTime
<1>3. ASSUME epoch <= 1 /\ OnTime(trouble')
      PROVE  ~gaveUp' /\ \A v \in Handler : Fresh(task'[v], token, epoch)
  <2>1. ~gaveUp /\ \A v \in Handler : Fresh(task[v], token, epoch)
    BY <1>0, <1>3 DEF CarrierInv, TokensStand
  <2>2. Fresh(task'[w], token, epoch)
    BY <2>1 DEF Fresh, Unstarted
  <2>3. gaveUp' = gaveUp
    BY <1>0, <1>3
  <2> QED
    BY <2>1, <2>2, <2>3
<1> QED
  BY <1>1, <1>2, <1>3 DEF TokensStand

PackageRow == [booked : BOOLEAN, tracked : BOOLEAN, label : BOOLEAN, cancelled : BOOLEAN, review : BOOLEAN]

\* A row has these fields.
LEMMA RowFields == [DOMAIN NoRow -> BOOLEAN] = PackageRow
BY DEF NoRow, PackageRow

\* One field of one row, written: the others, and the other rows, are as they were.
LEMMA RowBooked ==
    ASSUME NEW f \in [Package -> PackageRow], NEW p \in Package, NEW v \in BOOLEAN, NEW g,
           g = [f EXCEPT ![p].booked = v]
    PROVE  /\ g \in [Package -> PackageRow] /\ \A q \in Package \ {p} : g[q] = f[q]
           /\ g[p].booked = v /\ g[p].tracked = f[p].tracked
           /\ g[p].cancelled = f[p].cancelled /\ g[p].review = f[p].review
BY DEF PackageRow

LEMMA RowTracked ==
    ASSUME NEW f \in [Package -> PackageRow], NEW p \in Package, NEW v \in BOOLEAN, NEW g,
           g = [f EXCEPT ![p].tracked = v]
    PROVE  /\ g \in [Package -> PackageRow] /\ \A q \in Package \ {p} : g[q] = f[q]
           /\ g[p].booked = f[p].booked /\ g[p].tracked = v
           /\ g[p].cancelled = f[p].cancelled /\ g[p].review = f[p].review
BY DEF PackageRow

LEMMA RowLabelled ==
    ASSUME NEW f \in [Package -> PackageRow], NEW p \in Package, NEW v \in BOOLEAN, NEW g,
           g = [f EXCEPT ![p].label = v]
    PROVE  /\ g \in [Package -> PackageRow] /\ \A q \in Package \ {p} : g[q] = f[q]
           /\ g[p].booked = f[p].booked /\ g[p].tracked = f[p].tracked
           /\ g[p].cancelled = f[p].cancelled /\ g[p].review = f[p].review
BY DEF PackageRow

LEMMA RowCancelled ==
    ASSUME NEW f \in [Package -> PackageRow], NEW p \in Package, NEW v \in BOOLEAN, NEW g,
           g = [f EXCEPT ![p].cancelled = v]
    PROVE  /\ g \in [Package -> PackageRow] /\ \A q \in Package \ {p} : g[q] = f[q]
           /\ g[p].booked = f[p].booked /\ g[p].tracked = f[p].tracked
           /\ g[p].cancelled = v /\ g[p].review = f[p].review
BY DEF PackageRow

LEMMA RowReviewed ==
    ASSUME NEW f \in [Package -> PackageRow], NEW p \in Package, NEW v \in BOOLEAN, NEW g,
           g = [f EXCEPT ![p].review = v]
    PROVE  /\ g \in [Package -> PackageRow] /\ \A q \in Package \ {p} : g[q] = f[q]
           /\ g[p].booked = f[p].booked /\ g[p].tracked = f[p].tracked
           /\ g[p].cancelled = f[p].cancelled /\ g[p].review = v
BY DEF PackageRow

\* What the carrier does to a parcel, and to no other.
LEMMA EffectAt ==
    ASSUME CarrierInv, NEW w \in Handler, Effect(w), task[w].parcel \in Package,
           NEW p, p = task[w].parcel
    PROVE  /\ registered' \in [Package -> Nat] /\ awb' \in [Package -> Nat]
           /\ \A q \in Package \ {p} : registered'[q] = registered[q] /\ awb'[q] = awb[q]
           /\ task[w].step = "create" => registered'[p] = registered[p] + 1 /\ awb'[p] = awb[p]
           /\ task[w].step = "assign" => registered'[p] = registered[p] /\ awb'[p] = awb[p] + 1
           /\ task[w].step \in {"call_off", "call_off_order"} => registered'[p] = 0 /\ awb'[p] = 0
           /\ task[w].step \notin {"create", "assign", "call_off", "call_off_order"} =>
                 UNCHANGED <<registered, awb>>
<1>0. registered \in [Package -> Nat] /\ awb \in [Package -> Nat] /\ p \in Package
  BY DEF CarrierInv, CarrierTypeOK
<1>1. CASE task[w].step = "create"
  <2>1. registered' = [registered EXCEPT ![p] = @ + 1] /\ awb' = awb
    BY <1>1 DEF Effect, At
  <2> QED
    BY <1>0, <1>1, <2>1
<1>2. CASE task[w].step = "assign"
  <2>1. awb' = [awb EXCEPT ![p] = @ + 1] /\ registered' = registered
    BY <1>2 DEF Effect, At
  <2> QED
    BY <1>0, <1>2, <2>1
<1>3. CASE task[w].step \in {"call_off", "call_off_order"}
  <2>1. registered' = [registered EXCEPT ![p] = 0] /\ awb' = [awb EXCEPT ![p] = 0]
    BY <1>3 DEF Effect, At
  <2> QED
    BY <1>0, <1>3, <2>1
<1>4. CASE task[w].step \notin {"create", "assign", "call_off", "call_off_order"}
  <2>1. UNCHANGED <<registered, awb>>
    BY <1>4 DEF Effect, At
  <2> QED
    BY <1>0, <1>4, <2>1
<1> QED
  BY <1>1, <1>2, <1>3, <1>4

\* The next courier.
LEMMA NextCourier ==
    ASSUME CallsFit, NEW w \in Handler, task[w].parcel \in Package,
           NEW x \in {"assign", "label"}
    PROVE  /\ [Then(w, "assign") EXCEPT !.couriers = Tail(@), !.step = x]
                  = CallOf(x, task[w].parcel, "none", 0, TRUE, Tail(task[w].couriers),
                           task[w].tracked, task[w].label)
           /\ CallShape(CallOf(x, task[w].parcel, "none", 0, TRUE, Tail(task[w].couriers),
                               task[w].tracked, task[w].label))
<1>1. PICK p, c, b, l, yes, z :
          /\ p = task[w].parcel /\ c = task[w].couriers /\ b = task[w].tracked /\ l = task[w].label
          /\ yes = TRUE /\ z = Tail(c)
  OBVIOUS
<1>2. PICK j : j = Then(w, "assign")
  OBVIOUS
<1>3. j = CallOf("assign", p, "none", 0, yes, c, b, l)
  <2>1. "assign" \in (Calling \ {"rates"}) \cup {"save"}
    BY DEF Calling
  <2> QED
    BY <1>1, <1>2, <2>1, ThenShape
<1>4. j.couriers = c
  BY <1>3 DEF CallOf
<1>5. PICK j1 : j1 = [j EXCEPT !.couriers = z]
  OBVIOUS
<1>6. j1 = CallOf("assign", p, "none", 0, yes, z, b, l)
  BY <1>3, <1>5 DEF CallOf
<1>7. PICK j2 : j2 = [j1 EXCEPT !.step = x]
  OBVIOUS
<1>8. j2 = CallOf(x, p, "none", 0, yes, z, b, l)
  BY <1>6, <1>7 DEF CallOf
<1>9. [Then(w, "assign") EXCEPT !.couriers = Tail(@), !.step = x] = j2
  <2>1. [j EXCEPT !.couriers = Tail(@), !.step = x] = [j EXCEPT !.couriers = Tail(j.couriers), !.step = x]
    OBVIOUS
  <2> QED
    BY <1>1, <1>2, <1>4, <1>5, <1>7, <2>1, Zenon
<1>10. CallShape(CallOf(x, p, "none", 0, TRUE, z, b, l))
  <2>1. x \in Calling \cup {"idle", "edit", "save"} /\ x \notin {"idle", "rates"} /\ x \in Calling
    BY DEF Calling
  <2>2. p \in Package /\ p # Nobody /\ b \in BOOLEAN /\ l \in BOOLEAN
    BY <1>1, CarrierAssumption DEF CallsFit, CallShape
  <2> QED
    BY <2>1, <2>2, CallIsShaped
<1> QED
  BY <1>1, <1>8, <1>9, <1>10, Zenon

\* A step that puts a handler at a call it has no token for yet.
LEMMA GoesUnstarted ==
    ASSUME CallsFit, NEW w \in Handler, NEW s, NEW p, NEW c, NEW b, NEW l,
           CallShape(CallOf(s, p, "none", 0, TRUE, c, b, l)),
           GoesTo(w, CallOf(s, p, "none", 0, TRUE, c, b, l))
    PROVE  /\ CallsFit' /\ \A v \in Handler \ {w} : task'[v] = task[v]
           /\ Unstarted(task'[w])
           /\ task'[w].step = s /\ task'[w].parcel = p /\ task'[w].tracked = b
<1>1. PICK j : j = CallOf(s, p, "none", 0, TRUE, c, b, l)
  OBVIOUS
<1>2. CallsFit' /\ task'[w] = j /\ \A v \in Handler \ {w} : task'[v] = task[v]
  BY <1>1, HandlerGoes
<1>3. j.step = s /\ j.parcel = p /\ j.tracked = b /\ j.auth = "none" /\ j.tok = 0 /\ j.retry = TRUE
  BY <1>1 DEF CallOf
<1> QED
  BY <1>2, <1>3 DEF Unstarted

\* A handler is done.
LEMMA GoesIdle ==
    ASSUME CallsFit, NEW w \in Handler, GoesTo(w, Idle)
    PROVE  /\ CallsFit' /\ \A v \in Handler \ {w} : task'[v] = task[v]
           /\ Unstarted(task'[w])
           /\ task'[w].step = "idle" /\ task'[w].parcel = Nobody
<1>1. CallsFit' /\ task'[w] = Idle /\ \A v \in Handler \ {w} : task'[v] = task[v]
  BY HandlerGoes, IdleShape
<1> QED
  BY <1>1, IdleShape DEF Unstarted

\* A handler goes on to its next call.
LEMMA GoesThen ==
    ASSUME CallsFit, NEW w \in Handler, NEW s \in (Calling \ {"rates"}) \cup {"save"},
           task[w].parcel \in Package, GoesTo(w, Then(w, s))
    PROVE  /\ CallsFit' /\ \A v \in Handler \ {w} : task'[v] = task[v]
           /\ Unstarted(task'[w])
           /\ task'[w].step = s /\ task'[w].parcel = task[w].parcel /\ task'[w].tracked = task[w].tracked
<1>1. PICK c, l : c = task[w].couriers /\ l = task[w].label
  OBVIOUS
<1>2. /\ CallShape(CallOf(s, task[w].parcel, "none", 0, TRUE, c, task[w].tracked, l))
      /\ GoesTo(w, CallOf(s, task[w].parcel, "none", 0, TRUE, c, task[w].tracked, l))
  BY <1>1, ThenShape
<1> QED
  BY <1>2, GoesUnstarted

\* Where a handler is once a call of its has thrown.
LEMMA CaughtAt ==
    ASSUME CarrierInv, NEW w \in Handler, task[w].step \in Calling, Catch(w), NEW p, p = task[w].parcel
    PROVE  /\ CallsFit' /\ \A v \in Handler \ {w} : task'[v] = task[v]
           /\ Unstarted(task'[w])
           /\ row' \in [Package -> PackageRow]
           /\ task[w].step \in {"couriers", "label"} =>
                 task'[w].step = "save" /\ task'[w].parcel = p /\ task'[w].tracked = task[w].tracked
           /\ task[w].step = "assign" =>
                 /\ task'[w].step \in {"assign", "label"} /\ task'[w].parcel = p
                 /\ task'[w].tracked = task[w].tracked
           /\ task[w].step = "call_off" => task'[w].step = "call_off_order" /\ task'[w].parcel = p
           /\ task[w].step \in {"call_off_order", "rates", "create", "relabel"} => task'[w].parcel = Nobody
           /\ task[w].step = "call_off_order" =>
                 /\ p \in Package
                 /\ \A q \in Package \ {p} : row'[q] = row[q]
                 /\ row'[p].review = TRUE /\ row'[p].booked = row[p].booked
                 /\ row'[p].tracked = row[p].tracked /\ row'[p].cancelled = row[p].cancelled
           /\ task[w].step # "call_off_order" => UNCHANGED row
<1>0. /\ CallsFit /\ row \in [Package -> PackageRow]
      /\ task[w].step # "rates" => p \in Package
  BY RowFields DEF CarrierInv, CarrierTypeOK, CallsFit, CallShape, Calling
<1>1. CASE task[w].step \in {"couriers", "label"}
  <2>1. GoesTo(w, Then(w, "save")) /\ UNCHANGED row
    BY <1>1 DEF Catch, At
  <2>2. "save" \in (Calling \ {"rates"}) \cup {"save"} /\ task[w].parcel \in Package
    BY <1>0, <1>1
  <2> QED
    BY <1>0, <1>1, <2>1, <2>2, GoesThen
<1>2. CASE task[w].step = "assign"
  <2>1. PICK x : x = IF Len(task[w].couriers) = 1 THEN "label" ELSE "assign"
    OBVIOUS
  <2>2. x \in {"assign", "label"}
    BY <2>1
  <2>3. /\ GoesTo(w, [Then(w, "assign") EXCEPT !.couriers = Tail(@), !.step = x])
        /\ UNCHANGED row
    BY <1>2, <2>1 DEF Catch, At
  <2>4. PICK c, l : c = Tail(task[w].couriers) /\ l = task[w].label
    OBVIOUS
  <2>5. /\ [Then(w, "assign") EXCEPT !.couriers = Tail(@), !.step = x]
                 = CallOf(x, p, "none", 0, TRUE, c, task[w].tracked, l)
        /\ CallShape(CallOf(x, p, "none", 0, TRUE, c, task[w].tracked, l))
    BY <1>0, <1>2, <2>2, <2>4, NextCourier
  <2>6. GoesTo(w, CallOf(x, p, "none", 0, TRUE, c, task[w].tracked, l))
    BY <2>3, <2>5, Zenon
  <2>7. /\ CallsFit' /\ \A v \in Handler \ {w} : task'[v] = task[v]
        /\ Unstarted(task'[w])
        /\ task'[w].step = x /\ task'[w].parcel = p /\ task'[w].tracked = task[w].tracked
    BY <1>0, <2>5, <2>6, GoesUnstarted, ZenonT(90)
  <2> QED
    BY <1>0, <1>2, <2>2, <2>3, <2>7
<1>3. CASE task[w].step = "call_off"
  <2>1. GoesTo(w, Then(w, "call_off_order")) /\ UNCHANGED row
    BY <1>3 DEF Catch, At
  <2>2. "call_off_order" \in (Calling \ {"rates"}) \cup {"save"} /\ task[w].parcel \in Package
    BY <1>0, <1>3 DEF Calling
  <2> QED
    BY <1>0, <1>3, <2>1, <2>2, GoesThen
<1>4. CASE task[w].step = "call_off_order"
  <2>1. PICK yes \in BOOLEAN : yes = TRUE
    OBVIOUS
  <2>2. /\ GoesTo(w, Idle) /\ row' = [row EXCEPT ![p].review = yes]
        /\ p \in Package
    BY <1>0, <1>4, <2>1 DEF Catch, At
  <2>3. /\ row' \in [Package -> PackageRow] /\ \A q \in Package \ {p} : row'[q] = row[q]
        /\ row'[p].review = TRUE /\ row'[p].booked = row[p].booked
        /\ row'[p].tracked = row[p].tracked /\ row'[p].cancelled = row[p].cancelled
    <3>1. PICK f, g : f = row /\ g = row'
      OBVIOUS
    <3>2. f \in [Package -> PackageRow] /\ g = [f EXCEPT ![p].review = yes]
      BY <1>0, <2>2, <3>1
    <3>3. /\ g \in [Package -> PackageRow] /\ \A q \in Package \ {p} : g[q] = f[q]
          /\ g[p].booked = f[p].booked /\ g[p].tracked = f[p].tracked
          /\ g[p].cancelled = f[p].cancelled /\ g[p].review = yes
      BY <2>2, <3>2, RowReviewed
    <3> QED
      BY <2>1, <3>1, <3>3
  <2> QED
    BY <1>0, <1>4, <2>1, <2>2, <2>3, GoesIdle
<1>5. CASE task[w].step \in {"rates", "create", "relabel"}
  <2>1. GoesTo(w, Idle) /\ UNCHANGED row
    BY <1>5 DEF Catch, At
  <2> QED
    BY <1>0, <1>5, <2>1, GoesIdle
<1> QED
  BY <1>1, <1>2, <1>3, <1>4, <1>5 DEF Calling

-----------------------------------------------------------------------------
(* Requests *)

\* A request taken up: whoever takes it was at no parcel.
LEMMA RequestStands ==
    ASSUME CarrierInv, CallsFit', NEW w \in Handler, NEW p \in Package, Request(w), Asked,
           trouble \subseteq trouble',
           row' \in [Package -> PackageRow], \A q \in Package \ {p} : row'[q] = row[q],
           \A v \in Handler \ {w} : task'[v] = task[v],
           task'[w] = task[w] \/ Unstarted(task'[w]), task'[w].parcel \in {p, Nobody},
           ~Crosses(w, p) \/ "crossed" \in trouble',
           AtRestStands(row[p], registered[p], awb[p], trouble') =>
               /\ task'[w].parcel = p => StageStands(task'[w], row'[p], registered[p], awb[p], trouble')
               /\ task'[w].parcel = Nobody => AtRestStands(row'[p], registered[p], awb[p], trouble')
    PROVE  CarrierInv'
<1>1. /\ task[w].parcel = Nobody /\ Nobody # p
      /\ UNCHANGED <<token, epoch, registered, awb, gaveUp, failures>>
      /\ served' = served + 1 /\ served < MaxRequests
  BY CarrierAssumption DEF CarrierInv, CallsFit, CallShape, Request, Asked
<1>2. CarrierTypeOK'
  <2>1. served' \in 0 .. MaxRequests /\ failures' \in 0 .. MaxFailures
    BY <1>1, CarrierAssumption DEF CarrierInv, CarrierTypeOK
  <2> QED
    BY <1>1, <2>1, RowFields DEF CarrierInv, CarrierTypeOK, CallsFit, CallShape
<1>3. ASSUME "crossed" \notin trouble' PROVE AtRestStands(row[p], registered[p], awb[p], trouble')
  <2>1. AtRest(p)
    BY <1>1, <1>3 DEF AtRest, Crosses
  <2> QED
    BY <1>3, <2>1, TroubleExcuses DEF CarrierInv, PackagesStand
<1>4. OneAtATime' /\ PackagesStand'
  <2>1. task'[w].parcel = p \/ task'[w].parcel = Nobody
    OBVIOUS
  <2> QED
    BY <1>1, <1>3, <2>1, OneMoves
<1>5. TokensStand'
  BY <1>1, TokensKept
<1> QED
  BY <1>2, <1>4, <1>5 DEF CarrierInv

\* quoteRates is at no parcel.
LEMMA QuoteStands == ASSUME CarrierInv, NEW w \in Handler, quoteRates(w) PROVE CarrierInv'
<1>1. PICK i, k : i = Idle /\ k = [i EXCEPT !.step = "rates"]
  OBVIOUS
<1>2. k = CallOf("rates", Nobody, "none", 0, TRUE, <<>>, FALSE, FALSE)
  BY <1>1, IdleShape DEF CallOf
<1>3. CallShape(CallOf("rates", Nobody, "none", 0, TRUE, <<>>, FALSE, FALSE))
  BY CallIsShaped DEF Calling
<1>4. /\ CallsFit' /\ \A v \in Handler \ {w} : task'[v] = task[v]
      /\ Unstarted(task'[w]) /\ task'[w].parcel = Nobody
  <2>1. GoesTo(w, CallOf("rates", Nobody, "none", 0, TRUE, <<>>, FALSE, FALSE))
    BY <1>1, <1>2, Zenon DEF quoteRates
  <2> QED
    BY <1>3, <2>1, GoesUnstarted DEF CarrierInv
<1>5. /\ task[w].parcel = Nobody
      /\ UNCHANGED <<row, trouble, token, epoch, registered, awb, gaveUp, failures>>
      /\ served' = served + 1 /\ served < MaxRequests
  BY DEF CarrierInv, CallsFit, CallShape, quoteRates, Request, Asked
<1>6. CarrierTypeOK'
  <2>1. served' \in 0 .. MaxRequests /\ failures' \in 0 .. MaxFailures
    BY <1>5, CarrierAssumption DEF CarrierInv, CarrierTypeOK
  <2> QED
    BY <1>4, <1>5, <2>1 DEF CarrierInv, CarrierTypeOK, CallsFit, CallShape
<1>7. OneAtATime' /\ PackagesStand'
  BY <1>4, <1>5, NoneMoves
<1>8. TokensStand'
  BY <1>4, <1>5, TokensKept
<1> QED
  BY <1>4, <1>6, <1>7, <1>8 DEF CarrierInv

\* A parcel taken up to be booked.
LEMMA CreateStage ==
    ASSUME NEW r \in PackageRow, NEW n \in Nat, NEW a \in Nat, NEW t, NEW j, AtRestStands(r, n, a, t),
           j.step = "create", j.tracked = r.tracked, ~r.booked,
           r.cancelled => ~NothingMissed(t)
    PROVE  StageStands(j, r, n, a, t)
<1>1. ASSUME NothingLost(t) PROVE StageSound(j, r, n, a)
  <2>1. n = 0 /\ a = 0 /\ ~r.tracked
    BY <1>1 DEF AtRestStands, Sound
  <2>2. j.tracked = FALSE
    BY <2>1 DEF PackageRow
  <2> QED
    BY <2>1, <2>2 DEF StageSound, Booking
<1>2. ASSUME NothingMissed(t) PROVE StageSettled(j, r, n)
  BY <1>2, Zenon DEF StageSettled
<1> QED
  BY <1>1, <1>2 DEF StageStands

LEMMA BookStands ==
    ASSUME CarrierInv, NEW w \in Handler, NEW p \in Package, bookWithProvider(w, p) PROVE CarrierInv'
<1>1. /\ Request(w) /\ Asked /\ UNCHANGED row /\ ~row[p].booked
      /\ trouble \subseteq trouble'
      /\ ~Crosses(w, p) \/ "crossed" \in trouble'
      /\ row[p].cancelled => ~NothingMissed(trouble')
  BY DEF bookWithProvider, NothingMissed
<1>2. CallsFit /\ row \in [Package -> PackageRow]
  BY RowFields DEF CarrierInv, CarrierTypeOK
<1>3. /\ CallsFit' /\ \A v \in Handler \ {w} : task'[v] = task[v]
      /\ Unstarted(task'[w])
      /\ task'[w].step = "create" /\ task'[w].parcel = p /\ task'[w].tracked = row[p].tracked
  <2>1. PICK b : b = row[p].tracked
    OBVIOUS
  <2>2. b \in BOOLEAN
    BY <1>2, <2>1 DEF PackageRow
  <2>3. /\ CallShape(CallOf("create", p, "none", 0, TRUE, <<>>, b, FALSE))
        /\ [Idle EXCEPT !.step = "create", !.parcel = p, !.tracked = b]
               = CallOf("create", p, "none", 0, TRUE, <<>>, b, FALSE)
    BY <2>2, RequestShape DEF Calling
  <2>4. GoesTo(w, CallOf("create", p, "none", 0, TRUE, <<>>, b, FALSE))
    BY <2>1, <2>3, Zenon DEF bookWithProvider
  <2>5. /\ CallsFit' /\ \A v \in Handler \ {w} : task'[v] = task[v]
        /\ Unstarted(task'[w])
        /\ task'[w].step = "create" /\ task'[w].parcel = p /\ task'[w].tracked = b
    BY <1>2, <2>3, <2>4, GoesUnstarted
  <2> QED
    BY <2>1, <2>5
<1>4. AtRestStands(row[p], registered[p], awb[p], trouble') =>
          StageStands(task'[w], row[p], registered[p], awb[p], trouble')
  BY <1>1, <1>2, <1>3, CreateStage DEF CarrierInv, CarrierTypeOK
<1>5. p # Nobody
  BY CarrierAssumption
<1> QED
  BY <1>1, <1>2, <1>3, <1>4, <1>5, RequestStands

\* A parcel at rest, taken up for its label, its form or to be called off.
LEMMA RequestStage ==
    ASSUME NEW r \in PackageRow, NEW s \in PackageRow, NEW n \in Nat, NEW a \in Nat, NEW t, NEW j,
           AtRestStands(r, n, a, t), s.booked = r.booked, s.tracked = r.tracked
    PROVE  /\ j.step = "relabel" /\ s = r /\ r.booked => StageStands(j, s, n, a, t)
           /\ j.step = "edit" /\ s = r /\ j.tracked = r.tracked => StageStands(j, s, n, a, t)
           /\ j.step = "call_off" /\ r.booked => StageStands(j, s, n, a, t)
           /\ ~r.booked => AtRestStands(s, n, a, t)
<1>1. NothingLost(t) => Sound(s, n, a)
  BY DEF AtRestStands, Sound, PackageRow
<1>2. NothingMissed(t) => PickupSettled(r, n)
  BY DEF AtRestStands
<1>3. ASSUME j.step = "relabel" /\ s = r /\ r.booked PROVE StageStands(j, s, n, a, t)
  BY <1>1, <1>2, <1>3 DEF StageStands, StageSound, StageSettled, Booking
<1>4. ASSUME j.step = "edit" /\ s = r /\ j.tracked = r.tracked PROVE StageStands(j, s, n, a, t)
  BY <1>1, <1>2, <1>4 DEF StageStands, StageSound, StageSettled, Booking
<1>5. ASSUME j.step = "call_off" /\ r.booked PROVE StageStands(j, s, n, a, t)
  BY <1>1, <1>5 DEF StageStands, StageSound, StageSettled, Booking
<1>6. ASSUME ~r.booked PROVE AtRestStands(s, n, a, t)
  BY <1>1, <1>6 DEF AtRestStands, PickupSettled
<1> QED
  BY <1>3, <1>4, <1>5, <1>6

\* A handler takes up a parcel whose tracking number it has not read.
LEMMA TakenUp ==
    ASSUME CarrierInv, NEW w \in Handler, NEW p \in Package, NEW s \in Calling, s # "rates",
           GoesTo(w, [Idle EXCEPT !.step = s, !.parcel = p])
    PROVE  /\ CallsFit' /\ \A v \in Handler \ {w} : task'[v] = task[v]
           /\ Unstarted(task'[w])
           /\ task'[w].step = s /\ task'[w].parcel = p
<1>1. CallShape(CallOf(s, p, "none", 0, TRUE, <<>>, FALSE, FALSE))
  BY RequestShape
<1>2. GoesTo(w, CallOf(s, p, "none", 0, TRUE, <<>>, FALSE, FALSE))
  <2>1. [Idle EXCEPT !.step = s, !.parcel = p] = CallOf(s, p, "none", 0, TRUE, <<>>, FALSE, FALSE)
    BY RequestShape
  <2> QED
    BY <2>1, Zenon
<1> QED
  BY <1>1, <1>2, GoesUnstarted DEF CarrierInv

LEMMA FetchStands ==
    ASSUME CarrierInv, NEW w \in Handler, NEW p \in Package, fetchShipmentLabel(w, p) PROVE CarrierInv'
<1>1. /\ Request(w) /\ Asked /\ UNCHANGED row /\ row[p].booked
      /\ trouble \subseteq trouble'
      /\ ~Crosses(w, p) \/ "crossed" \in trouble'
  BY DEF fetchShipmentLabel, Crossed
<1>2. /\ row \in [Package -> PackageRow] /\ row[p] \in PackageRow
      /\ registered[p] \in Nat /\ awb[p] \in Nat /\ p # Nobody
  BY RowFields, CarrierAssumption DEF CarrierInv, CarrierTypeOK
<1>3. /\ CallsFit' /\ \A v \in Handler \ {w} : task'[v] = task[v]
      /\ Unstarted(task'[w]) /\ task'[w].step = "relabel" /\ task'[w].parcel = p
  <2>1. "relabel" \in Calling
    BY DEF Calling
  <2>2. GoesTo(w, [Idle EXCEPT !.step = "relabel", !.parcel = p])
    BY DEF fetchShipmentLabel
  <2> QED
    BY <2>1, <2>2, TakenUp
<1>4. AtRestStands(row[p], registered[p], awb[p], trouble') =>
          StageStands(task'[w], row[p], registered[p], awb[p], trouble')
  BY <1>1, <1>2, <1>3, RequestStage
<1> QED
  BY <1>1, <1>2, <1>3, <1>4, RequestStands

LEMMA EditStands ==
    ASSUME CarrierInv, NEW w \in Handler, NEW p \in Package, EditParcel(w, p) PROVE CarrierInv'
<1>1. /\ Request(w) /\ Asked /\ UNCHANGED row
      /\ trouble \subseteq trouble'
      /\ ~Crosses(w, p) \/ "crossed" \in trouble'
  BY DEF EditParcel, Crossed
<1>2. /\ row \in [Package -> PackageRow] /\ row[p] \in PackageRow
      /\ registered[p] \in Nat /\ awb[p] \in Nat /\ p # Nobody
  BY RowFields, CarrierAssumption DEF CarrierInv, CarrierTypeOK
<1>3. /\ CallsFit' /\ \A v \in Handler \ {w} : task'[v] = task[v]
      /\ Unstarted(task'[w]) /\ task'[w].step = "edit" /\ task'[w].parcel = p
      /\ task'[w].tracked = row[p].tracked
  <2>1. PICK b : b = row[p].tracked
    OBVIOUS
  <2>2. b \in BOOLEAN
    BY <1>2, <2>1 DEF PackageRow
  <2>3. /\ CallShape(CallOf("edit", p, "none", 0, TRUE, <<>>, b, FALSE))
        /\ [Idle EXCEPT !.step = "edit", !.parcel = p, !.tracked = b]
               = CallOf("edit", p, "none", 0, TRUE, <<>>, b, FALSE)
    BY <2>2, RequestShape DEF Calling
  <2>4. GoesTo(w, CallOf("edit", p, "none", 0, TRUE, <<>>, b, FALSE))
    BY <2>1, <2>3, Zenon DEF EditParcel
  <2>5. /\ CallsFit' /\ \A v \in Handler \ {w} : task'[v] = task[v]
        /\ Unstarted(task'[w]) /\ task'[w].step = "edit" /\ task'[w].parcel = p
        /\ task'[w].tracked = b
    BY <1>2, <2>3, <2>4, GoesUnstarted DEF CarrierInv
  <2> QED
    BY <2>1, <2>5
<1>4. AtRestStands(row[p], registered[p], awb[p], trouble') =>
          StageStands(task'[w], row[p], registered[p], awb[p], trouble')
  BY <1>1, <1>2, <1>3, RequestStage
<1> QED
  BY <1>1, <1>2, <1>3, <1>4, RequestStands

LEMMA CancelStands ==
    ASSUME CarrierInv, NEW w \in Handler, NEW p \in Package, cancelWithCarrier(w, p) PROVE CarrierInv'
<1>1. /\ Request(w) /\ Asked
      /\ trouble \subseteq trouble'
      /\ ~Crosses(w, p) \/ "crossed" \in trouble'
  BY DEF cancelWithCarrier, Crossed
<1>2. /\ row \in [Package -> PackageRow] /\ row[p] \in PackageRow
      /\ registered[p] \in Nat /\ awb[p] \in Nat /\ p # Nobody
      /\ CallsFit /\ task[w].parcel = Nobody
  BY <1>1, RowFields, CarrierAssumption DEF CarrierInv, CarrierTypeOK, CallsFit, CallShape, Request
<1>3. /\ row' \in [Package -> PackageRow] /\ \A q \in Package \ {p} : row'[q] = row[q]
      /\ row'[p].booked = row[p].booked /\ row'[p].tracked = row[p].tracked
  <2>1. PICK yes \in BOOLEAN : yes = TRUE
    OBVIOUS
  <2>2. PICK f, g : f = row /\ g = row'
    OBVIOUS
  <2>3. f \in [Package -> PackageRow] /\ g = [f EXCEPT ![p].cancelled = yes]
    BY <1>2, <2>1, <2>2 DEF cancelWithCarrier
  <2>4. /\ g \in [Package -> PackageRow] /\ \A q \in Package \ {p} : g[q] = f[q]
        /\ g[p].booked = f[p].booked /\ g[p].tracked = f[p].tracked
    BY <2>3, RowCancelled
  <2> QED
    BY <2>2, <2>4
<1>4. row'[p] \in PackageRow
  BY <1>3
<1>5. CASE row[p].booked
  <2>1. /\ CallsFit' /\ \A v \in Handler \ {w} : task'[v] = task[v]
        /\ Unstarted(task'[w]) /\ task'[w].step = "call_off" /\ task'[w].parcel = p
    <3>1. "call_off" \in Calling
      BY DEF Calling
    <3>2. GoesTo(w, [Idle EXCEPT !.step = "call_off", !.parcel = p])
      BY <1>5 DEF cancelWithCarrier
    <3> QED
      BY <3>1, <3>2, TakenUp
  <2>2. AtRestStands(row[p], registered[p], awb[p], trouble') =>
            StageStands(task'[w], row'[p], registered[p], awb[p], trouble')
    BY <1>2, <1>3, <1>4, <1>5, <2>1, RequestStage
  <2> QED
    BY <1>1, <1>2, <1>3, <2>1, <2>2, RequestStands
<1>6. CASE ~row[p].booked
  <2>1. CallsFit' /\ task' = task
    BY <1>2, <1>6 DEF cancelWithCarrier, CallsFit, CallShape
  <2>2. AtRestStands(row[p], registered[p], awb[p], trouble') =>
            AtRestStands(row'[p], registered[p], awb[p], trouble')
    BY <1>2, <1>3, <1>4, <1>6, RequestStage
  <2> QED
    BY <1>1, <1>2, <1>3, <2>1, <2>2, RequestStands
<1> QED
  BY <1>5, <1>6

\* An operator has looked: nothing more is promised of what was cancelled.
LEMMA ReviewStands ==
    ASSUME CarrierInv, NEW w \in Handler, NEW p \in Package, MarkReviewed(w, p) PROVE CarrierInv'
<1>1. /\ UNCHANGED <<task, token, epoch, registered, awb, gaveUp, failures>>
      /\ served' = served + 1 /\ served < MaxRequests
      /\ trouble \subseteq trouble' /\ ~NothingMissed(trouble')
      /\ ("crossed" \notin trouble' => "crossed" \notin trouble)
      /\ OnTime(trouble') => OnTime(trouble)
  BY DEF MarkReviewed, Request, Asked, NothingMissed, OnTime
<1>2. row \in [Package -> PackageRow]
  BY RowFields DEF CarrierInv, CarrierTypeOK
<1>3. /\ row' \in [Package -> PackageRow]
      /\ \A q \in Package : row'[q].booked = row[q].booked /\ row'[q].tracked = row[q].tracked
  <2>1. PICK no \in BOOLEAN : no = FALSE
    OBVIOUS
  <2>2. PICK f, g : f = row /\ g = row'
    OBVIOUS
  <2>3. f \in [Package -> PackageRow] /\ g = [f EXCEPT ![p].review = no]
    BY <1>2, <2>1, <2>2 DEF MarkReviewed
  <2>4. /\ g \in [Package -> PackageRow] /\ \A q \in Package \ {p} : g[q] = f[q]
        /\ g[p].booked = f[p].booked /\ g[p].tracked = f[p].tracked
    BY <2>3, RowReviewed
  <2> QED
    BY <2>2, <2>4
<1>4. CarrierTypeOK' /\ CallsFit'
  <2>1. served' \in 0 .. MaxRequests
    <3>1. served \in Nat /\ MaxRequests \in Nat
      BY CarrierAssumption DEF CarrierInv, CarrierTypeOK
    <3>2. served' = served + 1 /\ served < MaxRequests
      BY <1>1
    <3> QED
      BY <3>1, <3>2
  <2> QED
    BY <1>1, <1>3, <2>1, RowFields DEF CarrierInv, CarrierTypeOK, CallsFit, CallShape
<1>5. OneAtATime'
  BY <1>1 DEF CarrierInv, OneAtATime
<1>6. PackagesStand'
  <2> SUFFICES ASSUME "crossed" \notin trouble', NEW q \in Package
               PROVE  /\ AtRest(q) => AtRestStands(row'[q], registered[q], awb[q], trouble')
                      /\ \A v \in Handler : task[v].parcel = q =>
                            StageStands(task[v], row'[q], registered[q], awb[q], trouble')
    BY <1>1 DEF PackagesStand, AtRest
  <2>1. /\ AtRest(q) => AtRestStands(row[q], registered[q], awb[q], trouble')
        /\ \A v \in Handler : task[v].parcel = q =>
              StageStands(task[v], row[q], registered[q], awb[q], trouble')
    BY <1>1, TroubleExcuses DEF CarrierInv, PackagesStand
  <2>2. PICK r, s : r = row[q] /\ s = row'[q]
    OBVIOUS
  <2>3. r \in PackageRow /\ s \in PackageRow /\ s.booked = r.booked /\ s.tracked = r.tracked
    BY <1>2, <1>3, <2>2
  <2>4. \A n, a : Sound(r, n, a) => Sound(s, n, a)
    BY <2>3 DEF Sound, PackageRow
  <2>5. \A n, a : AtRestStands(r, n, a, trouble') => AtRestStands(s, n, a, trouble')
    BY <1>1, <2>4 DEF AtRestStands
  <2>6. \A j, n, a : StageSound(j, r, n, a) => StageSound(j, s, n, a)
    BY <2>3, <2>4 DEF StageSound
  <2>7. \A j, n, a : StageStands(j, r, n, a, trouble') => StageStands(j, s, n, a, trouble')
    BY <1>1, <2>6 DEF StageStands
  <2> QED
    BY <2>1, <2>2, <2>5, <2>7
<1>7. TokensStand'
  BY <1>1 DEF CarrierInv, TokensStand
<1> QED
  BY <1>4, <1>5, <1>6, <1>7 DEF CarrierInv

\* A handler at a parcel, one step further: alone at it, it finds its stage.
LEMMA StageMoves ==
    ASSUME CarrierInv, CallsFit', NEW w \in Handler, NEW p \in Package, task[w].parcel = p,
           \A v \in Handler \ {w} : task'[v] = task[v],
           Unstarted(task'[w]), task'[w].parcel \in {p, Nobody},
           row' \in [Package -> PackageRow], registered' \in [Package -> Nat], awb' \in [Package -> Nat],
           \A q \in Package \ {p} : row'[q] = row[q] /\ registered'[q] = registered[q] /\ awb'[q] = awb[q],
           UNCHANGED <<token, epoch, served>>,
           gaveUp' = gaveUp \/ (gaveUp' = TRUE /\ ~(epoch <= 1 /\ OnTime(trouble))), failures' \in 0 .. MaxFailures,
           trouble \subseteq trouble',
           StageStands(task[w], row[p], registered[p], awb[p], trouble') =>
               /\ task'[w].parcel = p =>
                     StageStands(task'[w], row'[p], registered'[p], awb'[p], trouble')
               /\ task'[w].parcel = Nobody =>
                     AtRestStands(row'[p], registered'[p], awb'[p], trouble')
    PROVE  CarrierInv'
<1>1. CarrierTypeOK'
  BY RowFields DEF CarrierInv, CarrierTypeOK, CallsFit, CallShape
<1>2. ASSUME "crossed" \notin trouble'
      PROVE  StageStands(task[w], row[p], registered[p], awb[p], trouble')
  BY <1>2, AloneAt, TroubleExcuses
<1>3. OneAtATime' /\ PackagesStand'
  BY <1>2, OneMoves
<1>4. TokensStand'
  BY TokensKept
<1> QED
  BY <1>1, <1>3, <1>4 DEF CarrierInv

LEMMA WriteStands == ASSUME CarrierInv, NEW w \in Handler, WriteParcel(w) PROVE CarrierInv'
<1>1. PICK p : p = task[w].parcel
  OBVIOUS
<1>2. /\ p \in Package /\ row \in [Package -> PackageRow] /\ CallsFit
      /\ registered \in [Package -> Nat] /\ awb \in [Package -> Nat]
      /\ failures \in 0 .. MaxFailures /\ p # Nobody
      /\ task[w].tracked \in BOOLEAN
  BY <1>1, RowFields, CarrierAssumption
     DEF CarrierInv, CarrierTypeOK, CallsFit, CallShape, WriteParcel
<1>3. /\ CallsFit' /\ \A v \in Handler \ {w} : task'[v] = task[v]
      /\ Unstarted(task'[w]) /\ task'[w].parcel = Nobody
  BY <1>2, GoesIdle DEF WriteParcel
<1>4. /\ row' \in [Package -> PackageRow] /\ \A q \in Package \ {p} : row'[q] = row[q]
      /\ row'[p].booked = row[p].booked /\ row'[p].tracked = task[w].tracked
      /\ row'[p].cancelled = row[p].cancelled /\ row'[p].review = row[p].review
  <2>1. PICK f, g, b : f = row /\ g = row' /\ b = task[w].tracked
    OBVIOUS
  <2>2. f \in [Package -> PackageRow] /\ g = [f EXCEPT ![p].tracked = b] /\ b \in BOOLEAN
    BY <1>1, <1>2, <2>1 DEF WriteParcel
  <2>3. /\ g \in [Package -> PackageRow] /\ \A q \in Package \ {p} : g[q] = f[q]
        /\ g[p].booked = f[p].booked /\ g[p].tracked = b
        /\ g[p].cancelled = f[p].cancelled /\ g[p].review = f[p].review
    BY <1>2, <2>2, RowTracked
  <2> QED
    BY <2>1, <2>3
<1>5. task[w].step = "edit" /\ UNCHANGED <<token, epoch, registered, awb, trouble, gaveUp, served, failures>>
  BY DEF WriteParcel, history
<1>6. ASSUME StageStands(task[w], row[p], registered[p], awb[p], trouble)
      PROVE  AtRestStands(row'[p], registered[p], awb[p], trouble)
  <2>1. PICK r, s, j : r = row[p] /\ s = row'[p] /\ j = task[w]
    OBVIOUS
  <2>2. /\ r \in PackageRow /\ s \in PackageRow /\ s.booked = r.booked /\ s.tracked = j.tracked
        /\ s.cancelled = r.cancelled /\ s.review = r.review /\ j.step = "edit"
        /\ registered[p] \in Nat /\ awb[p] \in Nat
    BY <1>2, <1>4, <1>5, <2>1
  <2>3. NothingLost(trouble) => Sound(s, registered[p], awb[p])
    <3>1. ASSUME NothingLost(trouble) PROVE Sound(r, registered[p], awb[p]) /\ j.tracked = r.tracked
      BY <1>6, <2>1, <2>2, <3>1 DEF StageStands, StageSound, Booking
    <3> QED
      BY <2>2, <3>1 DEF Sound, PackageRow
  <2>4. NothingMissed(trouble) => PickupSettled(s, registered[p])
    BY <1>6, <2>1, <2>2 DEF StageStands, StageSettled, PickupSettled
  <2> QED
    BY <2>1, <2>3, <2>4 DEF AtRestStands
<1> QED
  BY <1>1, <1>2, <1>3, <1>4, <1>5, <1>6, StageMoves

-----------------------------------------------------------------------------
(* Tokens *)

\* A handler gets, or loses, a token and stays at its call.
LEMMA TokenMoves ==
    ASSUME CarrierInv, NEW w \in Handler, NEW j, CallShape(j), GoesTo(w, j),
           j.step = task[w].step, j.parcel = task[w].parcel, j.tracked = task[w].tracked, j.tok <= epoch,
           UNCHANGED <<row, epoch, registered, awb, trouble, gaveUp, served, failures>>,
           token' = Nobody \/ (token' \in Nat /\ token' <= epoch),
           (\A v \in Handler : Fresh(task[v], token, epoch)) =>
               /\ Fresh(j, token', epoch)
               /\ \A v \in Handler \ {w} : Fresh(task[v], token', epoch)
    PROVE  CarrierInv'
<1>1. CallsFit' /\ task'[w] = j /\ \A v \in Handler \ {w} : task'[v] = task[v]
  BY HandlerGoes DEF CarrierInv
<1>2. CarrierTypeOK'
  BY <1>1 DEF CarrierInv, CarrierTypeOK, CallsFit, CallShape
<1>3. OneAtATime' /\ PackagesStand'
  BY <1>1, NoneMoves
<1>4. TokensStand'
  BY <1>1 DEF CarrierInv, TokensStand
<1> QED
  BY <1>1, <1>2, <1>3, <1>4 DEF CarrierInv

\* Who has no token yet is as fresh whichever is kept.
LEMMA WithTokenStands == ASSUME CarrierInv, NEW w \in Handler, withToken(w) PROVE CarrierInv'
<1>1. PICK j : j = task[w]
  OBVIOUS
<1>2. /\ CallShape(j) /\ j.step \in Calling /\ j.auth = "none" /\ epoch \in Nat
      /\ token = Nobody \/ (token \in Nat /\ token <= epoch)
      /\ j.tok \in Nat /\ j.tok <= epoch
      /\ UNCHANGED <<row, token, epoch, registered, awb, trouble, gaveUp, served, failures>>
  BY <1>1 DEF CarrierInv, CarrierTypeOK, CallsFit, CallShape, TokensStand, withToken, history
<1>3. CASE token = Nobody
  <2>1. PICK k : k = CallOf(j.step, j.parcel, "signing_in", j.tok, j.retry, j.couriers, j.tracked, j.label)
    OBVIOUS
  <2>2. CallShape(k) /\ k = [j EXCEPT !.auth = "signing_in"]
    BY <1>2, <2>1, TokenShape, Zenon
  <2>3. k.step = j.step /\ k.parcel = j.parcel /\ k.auth = "signing_in" /\ k.tok = j.tok
        /\ k.retry = j.retry /\ k.tracked = j.tracked
    BY <2>1 DEF CallOf
  <2>4. GoesTo(w, k)
    BY <1>1, <1>3, <2>2 DEF withToken
  <2>5. Fresh(j, token, epoch) => Fresh(k, token, epoch)
    BY <2>3 DEF Fresh
  <2> QED
    BY <1>1, <1>2, <2>2, <2>3, <2>4, <2>5, TokenMoves
<1>4. CASE token # Nobody
  <2>1. token \in Nat /\ token <= epoch
    BY <1>2, <1>4
  <2>2. PICK k : k = CallOf(j.step, j.parcel, "held", token, j.retry, j.couriers, j.tracked, j.label)
    OBVIOUS
  <2>3. CallShape(k) /\ k = [j EXCEPT !.auth = "held", !.tok = token]
    BY <1>2, <2>1, <2>2, TokenShape, Zenon
  <2>4. k.step = j.step /\ k.parcel = j.parcel /\ k.auth = "held" /\ k.tok = token
        /\ k.retry = j.retry /\ k.tracked = j.tracked
    BY <2>2 DEF CallOf
  <2>5. GoesTo(w, k)
    BY <1>1, <1>4, <2>3, Zenon DEF withToken
  <2>6. Fresh(j, token, epoch) => Fresh(k, token, epoch)
    BY <1>4, <2>4 DEF Fresh
  <2> QED
    BY <1>1, <1>2, <2>1, <2>3, <2>4, <2>5, <2>6, TokenMoves
<1> QED
  BY <1>3, <1>4

\* The carrier signs in with the token of its epoch.
LEMMA SignInStands == ASSUME CarrierInv, NEW w \in Handler, SignIn(w) PROVE CarrierInv'
<1>1. PICK j : j = task[w]
  OBVIOUS
<1>2. /\ CallShape(j) /\ j.step \in Calling /\ epoch \in Nat
      /\ token = Nobody \/ (token \in Nat /\ token <= epoch)
      /\ UNCHANGED <<row, token, epoch, registered, awb, trouble, gaveUp, served, failures>>
  BY <1>1 DEF CarrierInv, CarrierTypeOK, CallsFit, CallShape, TokensStand, SignIn, history
<1>3. PICK k : k = CallOf(j.step, j.parcel, "signed_in", epoch, j.retry, j.couriers, j.tracked, j.label)
  OBVIOUS
<1>4. CallShape(k) /\ k = [j EXCEPT !.auth = "signed_in", !.tok = epoch]
  BY <1>2, <1>3, TokenShape, Zenon
<1>5. k.step = j.step /\ k.parcel = j.parcel /\ k.auth = "signed_in" /\ k.tok = epoch
      /\ k.retry = j.retry /\ k.tracked = j.tracked
  BY <1>3 DEF CallOf
<1>6. GoesTo(w, k)
  BY <1>1, <1>4, Zenon DEF SignIn
<1>7. Fresh(j, token, epoch) => Fresh(k, token, epoch)
  BY <1>5 DEF Fresh
<1>8. token' = Nobody \/ (token' \in Nat /\ token' <= epoch)
  BY <1>2
<1>9. (\A v \in Handler : Fresh(task[v], token, epoch)) =>
          Fresh(k, token', epoch) /\ \A v \in Handler \ {w} : Fresh(task[v], token', epoch)
  BY <1>1, <1>2, <1>7
<1>10. k.tok <= epoch
  <2>1. epoch \in Nat /\ k.tok = epoch
    BY <1>2, <1>5
  <2> QED
    BY <2>1
<1>11. k.step = task[w].step /\ k.parcel = task[w].parcel /\ k.tracked = task[w].tracked
  BY <1>1, <1>2, <1>5
<1> QED
  BY <1>2, <1>4, <1>6, <1>8, <1>9, <1>10, <1>11, TokenMoves

\* It is kept for whoever comes next.
LEMMA AuthenticateStands == ASSUME CarrierInv, NEW w \in Handler, authenticate(w) PROVE CarrierInv'
<1>1. PICK j : j = task[w]
  OBVIOUS
<1>2. /\ CallShape(j) /\ j.step \in Calling /\ j.auth = "signed_in" /\ epoch \in Nat
      /\ j.tok \in Nat /\ j.tok <= epoch /\ token' = j.tok
      /\ UNCHANGED <<row, epoch, registered, awb, trouble, gaveUp, served, failures>>
  BY <1>1 DEF CarrierInv, CarrierTypeOK, CallsFit, CallShape, TokensStand, authenticate, history
<1>3. PICK k : k = CallOf(j.step, j.parcel, "held", j.tok, j.retry, j.couriers, j.tracked, j.label)
  OBVIOUS
<1>4. CallShape(k) /\ k = [j EXCEPT !.auth = "held"]
  BY <1>2, <1>3, TokenShape, Zenon
<1>5. k.step = j.step /\ k.parcel = j.parcel /\ k.auth = "held" /\ k.tok = j.tok
      /\ k.retry = j.retry /\ k.tracked = j.tracked
  BY <1>3 DEF CallOf
<1>6. GoesTo(w, k)
  BY <1>1, <1>4 DEF authenticate
<1>7. ASSUME \A v \in Handler : Fresh(task[v], token, epoch)
      PROVE  Fresh(k, token', epoch) /\ \A v \in Handler \ {w} : Fresh(task[v], token', epoch)
  <2>1. token' = epoch
    BY <1>1, <1>2, <1>7 DEF Fresh
  <2> QED
    BY <1>1, <1>2, <1>5, <1>7, <2>1 DEF Fresh
<1> QED
  BY <1>1, <1>2, <1>4, <1>5, <1>6, <1>7, TokenMoves

LEMMA ExpiresStands == ASSUME CarrierInv, TokenExpires PROVE CarrierInv'
<1>1. /\ token' = Nobody
      /\ UNCHANGED <<row, epoch, registered, awb, task, trouble, gaveUp, served, failures>>
  BY DEF TokenExpires, history
<1>2. CarrierTypeOK' /\ CallsFit' /\ OneAtATime'
  BY <1>1 DEF CarrierInv, CarrierTypeOK, CallsFit, CallShape, OneAtATime
<1>3. PackagesStand'
  BY <1>1, NoneMoves
<1>4. TokensStand'
  BY <1>1 DEF CarrierInv, TokensStand, Fresh
<1> QED
  BY <1>2, <1>3, <1>4 DEF CarrierInv

\* The first time, no call has been made again and nobody is being signed in.
LEMMA RevokeStands == ASSUME CarrierInv, Revoke PROVE CarrierInv'
<1>1. /\ epoch' = epoch + 1 /\ epoch \in Nat /\ trouble \subseteq trouble'
      /\ UNCHANGED <<row, token, registered, awb, task, gaveUp, served, failures>>
  BY DEF Revoke, CarrierInv, CarrierTypeOK
<1>2. CarrierTypeOK' /\ CallsFit'
  <2>1. epoch' \in Nat
    BY <1>1
  <2>2. UNCHANGED <<row, token, registered, awb, task, gaveUp, served, failures>>
    BY <1>1
  <2> QED
    BY <2>1, <2>2 DEF CarrierInv, CarrierTypeOK, CallsFit, CallShape
<1>3. OneAtATime' /\ PackagesStand'
  BY <1>1, NoneMoves
<1>4. OnTime(trouble') => OnTime(trouble) /\ \A w \in Handler : task[w].auth # "signed_in"
  BY DEF Revoke, OnTime
<1>5. TokensStand'
  <2>1. token' = Nobody \/ token' <= epoch'
    BY <1>1 DEF CarrierInv, TokensStand, CarrierTypeOK
  <2>2. \A w \in Handler : task'[w].tok <= epoch'
    <3>1. \A w \in Handler : task[w].tok \in Nat /\ task[w].tok <= epoch
      BY DEF CarrierInv, TokensStand, CallsFit, CallShape
    <3>2. epoch \in Nat /\ epoch' = epoch + 1 /\ task' = task
      BY <1>1
    <3> QED
      BY <3>1, <3>2
  <2>3. ASSUME epoch' <= 1, OnTime(trouble')
        PROVE  ~gaveUp' /\ \A w \in Handler : Fresh(task'[w], token', epoch')
    <3>1. epoch = 0 /\ epoch' = 1
      BY <1>1, <2>3
    <3>2. ~gaveUp /\ \A w \in Handler : Fresh(task[w], token, epoch)
      <4>1. OnTime(trouble)
        BY <1>4, <2>3, Zenon
      <4>2. epoch <= 1
        BY <3>1
      <4> QED
        BY <4>1, <4>2 DEF CarrierInv, TokensStand
    <3>3. \A w \in Handler : task[w].retry /\ task[w].auth # "signed_in"
      BY <1>4, <2>3, <3>1, <3>2 DEF Fresh
    <3> QED
      BY <1>1, <3>1, <3>2, <3>3 DEF Fresh
  <2> QED
    BY <2>1, <2>2, <2>3 DEF TokensStand
<1> QED
  BY <1>2, <1>3, <1>5 DEF CarrierInv

-----------------------------------------------------------------------------
(* Calls that throw *)

\* A handler whose call has thrown finds its parcel at the next stage: what the
\* carrier did of it, if anything, is the answer that was lost.
LEMMA CatchStage ==
    ASSUME CarrierInv, NEW w \in Handler, task[w].step \in Calling, NEW p \in Package, task[w].parcel = p,
           Catch(w), trouble \subseteq trouble', UNCHANGED <<token, epoch, served>>,
           gaveUp' = gaveUp \/ (gaveUp' = TRUE /\ ~(epoch <= 1 /\ OnTime(trouble))),
           failures' \in 0 .. MaxFailures,
           \/ UNCHANGED <<registered, awb>>
           \/ Effect(w) /\ ~NothingLost(trouble')
    PROVE  CarrierInv'
<1>1. /\ CallsFit' /\ \A v \in Handler \ {w} : task'[v] = task[v]
      /\ Unstarted(task'[w])
      /\ row' \in [Package -> PackageRow]
      /\ \A q \in Package \ {p} : row'[q] = row[q]
      /\ row'[p].booked = row[p].booked /\ row'[p].tracked = row[p].tracked
      /\ row'[p].cancelled = row[p].cancelled
      /\ task[w].step # "call_off_order" => row'[p] = row[p]
  BY CaughtAt
<1>2. /\ task[w].step \in {"couriers", "label"} =>
            task'[w].step = "save" /\ task'[w].parcel = p /\ task'[w].tracked = task[w].tracked
      /\ task[w].step = "assign" =>
            /\ task'[w].step \in {"assign", "label"} /\ task'[w].parcel = p
            /\ task'[w].tracked = task[w].tracked
      /\ task[w].step = "call_off" => task'[w].step = "call_off_order" /\ task'[w].parcel = p
      /\ task[w].step \in {"call_off_order", "rates", "create", "relabel"} => task'[w].parcel = Nobody
      /\ task[w].step = "call_off_order" => row'[p].review = TRUE
  BY CaughtAt
<1>3. /\ registered \in [Package -> Nat] /\ awb \in [Package -> Nat] /\ row[p] \in PackageRow
      /\ task[w].step # "rates" /\ p # Nobody
  BY RowFields, CarrierAssumption DEF CarrierInv, CarrierTypeOK, CallsFit, CallShape
<1>4. /\ registered' \in [Package -> Nat] /\ awb' \in [Package -> Nat]
      /\ \A q \in Package \ {p} : registered'[q] = registered[q] /\ awb'[q] = awb[q]
      /\ NothingLost(trouble') => registered'[p] = registered[p] /\ awb'[p] = awb[p]
      /\ task[w].step # "create" => registered'[p] = registered[p] \/ registered'[p] = 0
  BY <1>3, EffectAt
<1>5. ASSUME StageStands(task[w], row[p], registered[p], awb[p], trouble')
      PROVE  /\ task'[w].parcel = p =>
                   StageStands(task'[w], row'[p], registered'[p], awb'[p], trouble')
             /\ task'[w].parcel = Nobody =>
                   AtRestStands(row'[p], registered'[p], awb'[p], trouble')
  <2>1. PICK j, k, r, s, n, m, a, b :
            /\ j = task[w] /\ k = task'[w] /\ r = row[p] /\ s = row'[p]
            /\ n = registered[p] /\ m = registered'[p] /\ a = awb[p] /\ b = awb'[p]
    OBVIOUS
  <2>2. /\ r \in PackageRow /\ s \in PackageRow /\ s.booked = r.booked /\ s.tracked = r.tracked
        /\ s.cancelled = r.cancelled /\ (j.step # "call_off_order" => s = r)
        /\ n \in Nat /\ m \in Nat /\ a \in Nat /\ b \in Nat
        /\ NothingLost(trouble') => m = n /\ b = a
        /\ j.step # "create" => m = n \/ m = 0
        /\ j.step \in Calling /\ j.step # "rates"
    BY <1>1, <1>3, <1>4, <2>1
  <2>3. StageStands(j, r, n, a, trouble')
    BY <1>5, <2>1
  <2>4. /\ j.step \in {"couriers", "label"} => k.step = "save" /\ k.parcel = p /\ k.tracked = j.tracked
        /\ j.step = "assign" => k.step \in {"assign", "label"} /\ k.parcel = p /\ k.tracked = j.tracked
        /\ j.step = "call_off" => k.step = "call_off_order" /\ k.parcel = p
        /\ j.step \in {"call_off_order", "rates", "create", "relabel"} => k.parcel = Nobody
        /\ j.step = "call_off_order" => s.review = TRUE
    BY <1>2, <2>1
  <2>5. CASE j.step \in {"couriers", "label", "assign"}
    <3>1. k.parcel = p /\ k.step \in {"save", "assign", "label"} /\ k.tracked = j.tracked /\ s = r
      BY <2>2, <2>4, <2>5
    <3>2. NothingLost(trouble') => StageSound(k, s, m, b)
      BY <2>2, <2>3, <2>4, <2>5, <3>1 DEF StageStands, StageSound, Booking
    <3>3. NothingMissed(trouble') => StageSettled(k, s, m)
      BY <2>3, <2>5, <3>1 DEF StageStands, StageSettled, Booking
    <3> QED
      BY <1>3, <2>1, <3>1, <3>2, <3>3 DEF StageStands
  <2>6. CASE j.step = "create"
    <3>1. k.parcel = Nobody /\ s = r
      BY <2>2, <2>4, <2>6
    <3>2. NothingLost(trouble') => Sound(s, m, b)
      BY <2>2, <2>3, <2>6, <3>1 DEF StageStands, StageSound, Booking, Sound
    <3>3. NothingMissed(trouble') => PickupSettled(s, m)
      BY <2>3, <2>6, <3>1 DEF StageStands, StageSettled, Booking, PickupSettled
    <3> QED
      BY <1>3, <2>1, <3>1, <3>2, <3>3 DEF AtRestStands
  <2>7. CASE j.step = "relabel"
    <3>1. k.parcel = Nobody /\ s = r
      BY <2>2, <2>4, <2>7
    <3>2. NothingLost(trouble') => Sound(s, m, b)
      BY <2>2, <2>3, <2>7, <3>1 DEF StageStands, StageSound, Booking
    <3>3. NothingMissed(trouble') => PickupSettled(s, m)
      BY <2>2, <2>3, <2>7, <3>1 DEF StageStands, StageSettled, PickupSettled
    <3> QED
      BY <1>3, <2>1, <3>1, <3>2, <3>3 DEF AtRestStands
  <2>8. CASE j.step = "call_off"
    <3>1. k.parcel = p /\ k.step = "call_off_order" /\ s = r
      BY <2>2, <2>4, <2>8
    <3>2. NothingLost(trouble') => StageSound(k, s, m, b)
      BY <2>2, <2>3, <2>8, <3>1 DEF StageStands, StageSound, Booking
    <3>3. NothingMissed(trouble') => StageSettled(k, s, m)
      BY <3>1 DEF StageSettled, Booking
    <3> QED
      BY <1>3, <2>1, <3>1, <3>2, <3>3 DEF StageStands
  <2>9. CASE j.step = "call_off_order"
    <3>1. k.parcel = Nobody /\ s.review = TRUE
      BY <2>4, <2>9
    <3>2. NothingLost(trouble') => Sound(r, m, b)
      BY <2>2, <2>3, <2>9 DEF StageStands, StageSound, Booking
    <3>3. NothingLost(trouble') => Sound(s, m, b)
      BY <2>2, <3>2 DEF Sound, PackageRow
    <3>4. PickupSettled(s, m)
      BY <3>1 DEF PickupSettled
    <3> QED
      BY <1>3, <2>1, <3>1, <3>3, <3>4 DEF AtRestStands
  <2> QED
    BY <2>2, <2>5, <2>6, <2>7, <2>8, <2>9 DEF Calling
<1>6. task'[w].parcel \in {p, Nobody}
  BY <1>2, <1>3 DEF Calling
<1> QED
  BY <1>1, <1>4, <1>5, <1>6, StageMoves, ZenonT(90)

\* Rates are nobody's parcel.
LEMMA RatesThrow ==
    ASSUME CarrierInv, NEW w \in Handler, task[w].step = "rates", GoesTo(w, Idle),
           UNCHANGED <<row, registered, awb, token, epoch, served>>, trouble \subseteq trouble',
           gaveUp' = gaveUp \/ (gaveUp' = TRUE /\ ~(epoch <= 1 /\ OnTime(trouble))),
           failures' \in 0 .. MaxFailures
    PROVE  CarrierInv'
<1>1. /\ CallsFit' /\ \A v \in Handler \ {w} : task'[v] = task[v]
      /\ Unstarted(task'[w]) /\ task'[w].parcel = Nobody
  BY GoesIdle DEF CarrierInv
<1>2. task[w].parcel = Nobody
  BY DEF CarrierInv, CallsFit, CallShape
<1>3. CarrierTypeOK'
  BY <1>1 DEF CarrierInv, CarrierTypeOK, CallsFit, CallShape
<1>4. OneAtATime' /\ PackagesStand'
  BY <1>1, <1>2, NoneMoves
<1>5. TokensStand'
  BY <1>1, TokensKept
<1> QED
  BY <1>1, <1>3, <1>4, <1>5 DEF CarrierInv

\* A call of any kind that has thrown.
LEMMA CatchStands ==
    ASSUME CarrierInv, NEW w \in Handler, task[w].step \in Calling, Catch(w),
           trouble \subseteq trouble', UNCHANGED <<token, epoch, served>>,
           gaveUp' = gaveUp \/ (gaveUp' = TRUE /\ ~(epoch <= 1 /\ OnTime(trouble))),
           failures' \in 0 .. MaxFailures,
           \/ UNCHANGED <<registered, awb>>
           \/ Effect(w) /\ ~NothingLost(trouble')
    PROVE  CarrierInv'
<1>1. CASE task[w].step = "rates"
  <2>1. GoesTo(w, Idle) /\ UNCHANGED row
    BY <1>1 DEF Catch, At
  <2>2. UNCHANGED <<registered, awb>>
    BY <1>1 DEF Effect, At
  <2> QED
    BY <1>1, <2>1, <2>2, RatesThrow
<1>2. CASE task[w].step # "rates"
  <2>1. PICK p : p = task[w].parcel
    OBVIOUS
  <2>2. p \in Package
    BY <1>2, <2>1 DEF CarrierInv, CallsFit, CallShape, Calling
  <2> QED
    BY <2>1, <2>2, CatchStage
<1> QED
  BY <1>1, <1>2

LEMMA FailsStands == ASSUME CarrierInv, NEW w \in Handler, Fails(w) PROVE CarrierInv'
<1>1. task[w].step \in Calling /\ Catch(w)
  BY DEF Fails, Taken, Sent, CarrierInv, CallsFit, CallShape
<1>2. UNCHANGED <<token, epoch, registered, awb, gaveUp, served>> /\ trouble \subseteq trouble'
  BY DEF Fails, Trouble
<1>3. failures' \in 0 .. MaxFailures
  <2>1. failures \in Nat /\ MaxFailures \in Nat
    BY CarrierAssumption DEF CarrierInv, CarrierTypeOK
  <2>2. failures' = failures + 1 /\ failures < MaxFailures
    BY DEF Fails, Trouble
  <2> QED
    BY <2>1, <2>2
<1> QED
  BY <1>1, <1>2, <1>3, CatchStands

LEMMA AnswerLostStands == ASSUME CarrierInv, NEW w \in Handler, AnswerLost(w) PROVE CarrierInv'
<1>1. task[w].step \in Calling /\ Catch(w) /\ Effect(w)
  BY DEF AnswerLost, Taken, Sent
<1>2. UNCHANGED <<token, epoch, gaveUp, served>> /\ trouble \subseteq trouble'
  BY DEF AnswerLost, Trouble
<1>3. ~NothingLost(trouble')
  BY DEF AnswerLost, Trouble, NothingLost
<1>4. failures' \in 0 .. MaxFailures
  <2>1. failures \in Nat /\ MaxFailures \in Nat
    BY CarrierAssumption DEF CarrierInv, CarrierTypeOK
  <2>2. failures' = failures + 1 /\ failures < MaxFailures
    BY DEF AnswerLost, Trouble
  <2> QED
    BY <2>1, <2>2
<1> QED
  BY <1>1, <1>2, <1>3, <1>4, CatchStands

\* An answer that refuses throws as well.
LEMMA RefusalStands ==
    ASSUME CarrierInv, NEW w \in Handler, CourierRefuses(w) \/ CallOffRefused(w) PROVE CarrierInv'
<1>1. task[w].step \in Calling /\ Catch(w)
  BY DEF CourierRefuses, CallOffRefused, Taken, Sent
<1>2. UNCHANGED <<token, epoch, registered, awb, trouble, gaveUp, served, failures>>
  BY DEF CourierRefuses, CallOffRefused, Unanswered, history
<1>3. failures' \in 0 .. MaxFailures
  BY <1>2 DEF CarrierInv, CarrierTypeOK
<1> QED
  BY <1>1, <1>2, <1>3, CatchStands

\* A call refused twice: its second token was not the one in force, so that it
\* has been revoked again, or was late.
LEMMA RefusedStands == ASSUME CarrierInv, NEW w \in Handler, Refused(w) PROVE CarrierInv'
<1>1. PICK j : j = task[w]
  OBVIOUS
<1>2. /\ CallShape(j) /\ j.step \in Calling /\ j.auth = "held" /\ j.tok # epoch
      /\ epoch \in Nat /\ j.tok \in Nat /\ j.tok <= epoch
      /\ UNCHANGED <<epoch, registered, awb, trouble, served, failures>>
  BY <1>1 DEF CarrierInv, CarrierTypeOK, CallsFit, CallShape, TokensStand, Refused, Sent
<1>3. CASE j.retry
  <2>1. PICK k : k = CallOf(j.step, j.parcel, "none", j.tok, FALSE, j.couriers, j.tracked, j.label)
    OBVIOUS
  <2>2. CallShape(k) /\ k = [j EXCEPT !.auth = "none", !.retry = FALSE]
    BY <1>2, <2>1, TokenShape, Zenon
  <2>3. /\ k.step = j.step /\ k.parcel = j.parcel /\ k.auth = "none" /\ k.tok = j.tok
        /\ k.tracked = j.tracked
    BY <2>1 DEF CallOf
  <2>4. GoesTo(w, k)
    BY <1>1, <1>3, <2>2, Zenon DEF Refused
  <2>5. token' = Nobody /\ UNCHANGED <<row, gaveUp>>
    BY <1>1, <1>3 DEF Refused
  <2>6. ASSUME \A v \in Handler : Fresh(task[v], token, epoch)
        PROVE  Fresh(k, token', epoch) /\ \A v \in Handler \ {w} : Fresh(task[v], token', epoch)
    <3>1. epoch # 0
      BY <1>2
    <3> QED
      BY <2>3, <2>5, <2>6, <3>1 DEF Fresh
  <2> QED
    BY <1>1, <1>2, <2>2, <2>3, <2>4, <2>5, <2>6, TokenMoves
<1>4. CASE ~j.retry
  <2>1. Catch(w) /\ gaveUp' = TRUE /\ UNCHANGED token
    BY <1>1, <1>4 DEF Refused
  <2>2. ~(epoch <= 1 /\ OnTime(trouble))
    <3>1. epoch <= 1 /\ OnTime(trouble) => Fresh(j, token, epoch)
      BY <1>1 DEF CarrierInv, TokensStand
    <3> QED
      BY <1>2, <1>4, <3>1 DEF Fresh
  <2>3. failures' \in 0 .. MaxFailures
    BY <1>2 DEF CarrierInv, CarrierTypeOK
  <2> QED
    BY <1>1, <1>2, <2>1, <2>2, <2>3, CatchStands
<1> QED
  BY <1>3, <1>4

\* The process stops, and with it every promise to a parcel it was at.
LEMMA StopStands == ASSUME CarrierInv, ProcessStops PROVE CarrierInv'
<1>1. /\ task' = [w \in Handler |-> Idle] /\ token' = Nobody
      /\ UNCHANGED <<row, epoch, registered, awb, gaveUp, served>>
      /\ failures' = failures + 1 /\ failures < MaxFailures
  BY DEF ProcessStops, Trouble
<1>2. ~NothingLost(trouble') /\ ~NothingMissed(trouble')
  BY DEF ProcessStops, Trouble, NothingLost, NothingMissed
<1>3. CallsFit' /\ \A w \in Handler : task'[w] = Idle
  BY <1>1, IdleShape DEF CallsFit
<1>4. CarrierTypeOK'
  <2>1. failures \in Nat /\ MaxFailures \in Nat
    BY CarrierAssumption DEF CarrierInv, CarrierTypeOK
  <2>2. failures' \in 0 .. MaxFailures
    BY <1>1, <2>1
  <2> QED
    BY <1>1, <1>3, <2>2, IdleShape DEF CarrierInv, CarrierTypeOK
<1>5. OneAtATime'
  BY <1>3, IdleShape, CarrierAssumption DEF OneAtATime
<1>6. PackagesStand'
  BY <1>2, <1>3 DEF PackagesStand, AtRestStands, StageStands
<1>7. TokensStand'
  <2>1. OnTime(trouble') => OnTime(trouble)
    BY DEF ProcessStops, Trouble, OnTime
  <2>2. epoch \in Nat
    BY DEF CarrierInv, CarrierTypeOK
  <2>3. \A w \in Handler : task'[w].auth = "none" /\ task'[w].tok = 0 /\ task'[w].retry = TRUE
    BY <1>3, IdleShape
  <2>4. \A w \in Handler : Fresh(task'[w], token', epoch)
    BY <1>1, <2>3 DEF Fresh
  <2>5. epoch <= 1 /\ OnTime(trouble') => ~gaveUp
    BY <2>1 DEF CarrierInv, TokensStand
  <2>6. \A w \in Handler : task'[w].tok <= epoch
    BY <2>2, <2>3
  <2> QED
    BY <1>1, <2>4, <2>5, <2>6 DEF TokensStand
<1> QED
  BY <1>3, <1>4, <1>5, <1>6, <1>7 DEF CarrierInv

-----------------------------------------------------------------------------
(* Answers *)

\* A booking's answers, each of which takes it one stage on.
LEMMA BookingStage ==
    ASSUME NEW r \in PackageRow, NEW n \in Nat, NEW a \in Nat, NEW m \in Nat, NEW b \in Nat, NEW t,
           NEW j, NEW k, StageStands(j, r, n, a, t), j.tracked \in BOOLEAN, k.tracked \in BOOLEAN
    PROVE  /\ j.step = "create" /\ m = n + 1 /\ b = a /\ k.step = "couriers" /\ k.tracked = j.tracked =>
                 StageStands(k, r, m, b, t)
           /\ j.step = "couriers" /\ m = n /\ b = a /\ k.step \in {"assign", "label"} /\ k.tracked = j.tracked =>
                 StageStands(k, r, m, b, t)
           /\ j.step = "assign" /\ m = n /\ b = a + 1 /\ k.step = "label" /\ k.tracked = TRUE =>
                 StageStands(k, r, m, b, t)
           /\ j.step = "label" /\ m = n /\ b = a /\ k.step = "save" /\ k.tracked = j.tracked =>
                 StageStands(k, r, m, b, t)
<1>1. ASSUME j.step = "create", m = n + 1, b = a, k.step = "couriers", k.tracked = j.tracked
      PROVE  StageStands(k, r, m, b, t)
  BY <1>1 DEF StageStands, StageSound, StageSettled, Booking
<1>2. ASSUME j.step = "couriers", m = n, b = a, k.step \in {"assign", "label"}, k.tracked = j.tracked
      PROVE  StageStands(k, r, m, b, t)
  BY <1>2 DEF StageStands, StageSound, StageSettled, Booking
<1>3. ASSUME j.step = "assign", m = n, b = a + 1, k.step = "label", k.tracked = TRUE
      PROVE  StageStands(k, r, m, b, t)
  BY <1>3 DEF StageStands, StageSound, StageSettled, Booking
<1>4. ASSUME j.step = "label", m = n, b = a, k.step = "save", k.tracked = j.tracked
      PROVE  StageStands(k, r, m, b, t)
  BY <1>4 DEF StageStands, StageSound, StageSettled, Booking
<1> QED
  BY <1>1, <1>2, <1>3, <1>4

\* A call answered at a parcel.
LEMMA AnsweredAt ==
    ASSUME CarrierInv, NEW w \in Handler, NEW s, s # "rates", Answered(w, s), NEW p, p = task[w].parcel
    PROVE  /\ task[w].step = s /\ s \in Calling /\ p \in Package /\ p # Nobody
           /\ CallsFit /\ row \in [Package -> PackageRow]
           /\ registered \in [Package -> Nat] /\ awb \in [Package -> Nat]
           /\ registered' \in [Package -> Nat] /\ awb' \in [Package -> Nat]
           /\ \A q \in Package \ {p} : registered'[q] = registered[q] /\ awb'[q] = awb[q]
           /\ s = "create" => registered'[p] = registered[p] + 1 /\ awb'[p] = awb[p]
           /\ s = "assign" => registered'[p] = registered[p] /\ awb'[p] = awb[p] + 1
           /\ s \in {"call_off", "call_off_order"} => registered'[p] = 0 /\ awb'[p] = 0
           /\ s \notin {"create", "assign", "call_off", "call_off_order"} => UNCHANGED <<registered, awb>>
           /\ UNCHANGED <<token, epoch, trouble, gaveUp, served, failures>>
           /\ failures' \in 0 .. MaxFailures
<1>1. /\ task[w].step = s /\ s \in Calling /\ Effect(w)
      /\ UNCHANGED <<token, epoch, trouble, gaveUp, served, failures>>
  BY DEF Answered, At, Taken, Sent, history
<1>2. /\ CallsFit /\ row \in [Package -> PackageRow] /\ failures \in 0 .. MaxFailures
      /\ registered \in [Package -> Nat] /\ awb \in [Package -> Nat]
  BY RowFields DEF CarrierInv, CarrierTypeOK
<1>3. p \in Package /\ p # Nobody
  BY <1>1, <1>2, CarrierAssumption DEF CallsFit, CallShape, Calling
<1> QED
  BY <1>1, <1>2, <1>3, EffectAt

\* A step of a booking.
LEMMA BookingMoves ==
    ASSUME CarrierInv, NEW w \in Handler, NEW s \in {"create", "couriers", "assign", "label"},
           Answered(w, s), UNCHANGED row, CallsFit', \A v \in Handler \ {w} : task'[v] = task[v],
           Unstarted(task'[w]), task'[w].parcel = task[w].parcel,
           s = "create" => task'[w].step = "couriers" /\ task'[w].tracked = task[w].tracked,
           s = "couriers" => task'[w].step \in {"assign", "label"} /\ task'[w].tracked = task[w].tracked,
           s = "assign" => task'[w].step = "label" /\ task'[w].tracked = TRUE,
           s = "label" => task'[w].step = "save" /\ task'[w].tracked = task[w].tracked
    PROVE  CarrierInv'
<1>1. PICK p : p = task[w].parcel
  OBVIOUS
<1>2. /\ task[w].step = s /\ p \in Package /\ p # Nobody
      /\ row \in [Package -> PackageRow]
      /\ registered \in [Package -> Nat] /\ awb \in [Package -> Nat]
      /\ registered' \in [Package -> Nat] /\ awb' \in [Package -> Nat]
      /\ \A q \in Package \ {p} : registered'[q] = registered[q] /\ awb'[q] = awb[q]
      /\ s = "create" => registered'[p] = registered[p] + 1 /\ awb'[p] = awb[p]
      /\ s = "assign" => registered'[p] = registered[p] /\ awb'[p] = awb[p] + 1
      /\ s \in {"couriers", "label"} => UNCHANGED <<registered, awb>>
      /\ UNCHANGED <<token, epoch, trouble, gaveUp, served, failures>>
      /\ failures' \in 0 .. MaxFailures
  <2>1. s # "rates"
    OBVIOUS
  <2>2. /\ task[w].step = s /\ p \in Package /\ p # Nobody
        /\ row \in [Package -> PackageRow]
        /\ registered \in [Package -> Nat] /\ awb \in [Package -> Nat]
        /\ registered' \in [Package -> Nat] /\ awb' \in [Package -> Nat]
        /\ \A q \in Package \ {p} : registered'[q] = registered[q] /\ awb'[q] = awb[q]
        /\ UNCHANGED <<token, epoch, trouble, gaveUp, served, failures>>
        /\ failures' \in 0 .. MaxFailures
    BY <1>1, <2>1, AnsweredAt
  <2>3. Effect(w) /\ task[w].parcel \in Package
    BY <1>1, <2>2 DEF Answered
  <2>4. s = "create" => registered'[p] = registered[p] + 1 /\ awb'[p] = awb[p]
    BY <1>1, <2>2, <2>3, EffectAt
  <2>5. s = "assign" => registered'[p] = registered[p] /\ awb'[p] = awb[p] + 1
    BY <1>1, <2>2, <2>3, EffectAt
  <2>6. s \in {"couriers", "label"} => UNCHANGED <<registered, awb>>
    BY <1>1, <2>2, <2>3, EffectAt
  <2> QED
    BY <2>2, <2>4, <2>5, <2>6
<1>3. ASSUME StageStands(task[w], row[p], registered[p], awb[p], trouble)
      PROVE  StageStands(task'[w], row[p], registered'[p], awb'[p], trouble)
  <2>1. PICK j, k : j = task[w] /\ k = task'[w]
    OBVIOUS
  <2>2. j.tracked \in BOOLEAN /\ k.tracked \in BOOLEAN
    BY <2>1 DEF CarrierInv, CallsFit, CallShape
  <2>3. PICK r, n, a, m, b : /\ r = row[p] /\ n = registered[p] /\ a = awb[p]
                             /\ m = registered'[p] /\ b = awb'[p]
    OBVIOUS
  <2>4. r \in PackageRow /\ n \in Nat /\ a \in Nat /\ m \in Nat /\ b \in Nat
    BY <1>2, <2>3
  <2>5. StageStands(j, r, n, a, trouble)
    BY <1>3, <2>1, <2>3
  <2>6. StageStands(k, r, m, b, trouble)
    <3>1. CASE s = "create"
      <4>1. j.step = "create" /\ m = n + 1 /\ b = a /\ k.step = "couriers" /\ k.tracked = j.tracked
        BY <1>2, <2>1, <2>3, <3>1
      <4> QED
        BY <2>2, <2>4, <2>5, <4>1, BookingStage
    <3>2. CASE s = "couriers"
      <4>1. j.step = "couriers" /\ m = n /\ b = a /\ k.step \in {"assign", "label"} /\ k.tracked = j.tracked
        BY <1>2, <2>1, <2>3, <3>2
      <4> QED
        BY <2>2, <2>4, <2>5, <4>1, BookingStage
    <3>3. CASE s = "assign"
      <4>1. j.step = "assign" /\ m = n /\ b = a + 1 /\ k.step = "label" /\ k.tracked = TRUE
        BY <1>2, <2>1, <2>3, <3>3
      <4> QED
        BY <2>2, <2>4, <2>5, <4>1, BookingStage
    <3>4. CASE s = "label"
      <4>1. j.step = "label" /\ m = n /\ b = a /\ k.step = "save" /\ k.tracked = j.tracked
        BY <1>2, <2>1, <2>3, <3>4
      <4> QED
        BY <2>2, <2>4, <2>5, <4>1, BookingStage
    <3> QED
      BY <3>1, <3>2, <3>3, <3>4
  <2> QED
    BY <2>1, <2>3, <2>6
<1> QED
  BY <1>1, <1>2, <1>3, StageMoves

LEMMA RatesStands == ASSUME CarrierInv, NEW w \in Handler, RatesQuoted(w) PROVE CarrierInv'
<1>1. /\ task[w].step = "rates" /\ GoesTo(w, Idle)
      /\ UNCHANGED <<row, registered, awb, token, epoch, trouble, gaveUp, served, failures>>
  BY DEF RatesQuoted, Answered, At, Effect, history
<1>2. failures' \in 0 .. MaxFailures
  BY <1>1 DEF CarrierInv, CarrierTypeOK
<1> QED
  BY <1>1, <1>2, RatesThrow

LEMMA RegisteredStands == ASSUME CarrierInv, NEW w \in Handler, Registered(w) PROVE CarrierInv'
<1>1. Answered(w, "create") /\ UNCHANGED row /\ GoesTo(w, Then(w, "couriers"))
  BY DEF Registered
<1>2. task[w].parcel \in Package /\ CallsFit
  BY <1>1, AnsweredAt
<1>3. "couriers" \in (Calling \ {"rates"}) \cup {"save"}
  BY DEF Calling
<1>4. /\ CallsFit' /\ \A v \in Handler \ {w} : task'[v] = task[v]
      /\ Unstarted(task'[w])
      /\ task'[w].step = "couriers" /\ task'[w].parcel = task[w].parcel /\ task'[w].tracked = task[w].tracked
  BY <1>1, <1>2, <1>3, GoesThen
<1> QED
  BY <1>1, <1>4, BookingMoves

\* Whatever the couriers are, and in whatever order.
LEMMA CouriersStand == ASSUME CarrierInv, NEW w \in Handler, CouriersQuoted(w) PROVE CarrierInv'
<1>1. Answered(w, "couriers") /\ UNCHANGED row
  BY DEF CouriersQuoted
<1>2. task[w].parcel \in Package /\ task[w].parcel # Nobody /\ CallsFit
  BY <1>1, AnsweredAt
<1>3. PICK first : GoesTo(w, [Then(w, IF first = <<>> THEN "label" ELSE "assign") EXCEPT !.couriers = first])
  BY Zenon DEF CouriersQuoted
<1>4. PICK x : x = IF first = <<>> THEN "label" ELSE "assign"
  OBVIOUS
<1>5. x \in {"assign", "label"} /\ x \in (Calling \ {"rates"}) \cup {"save"}
  BY <1>4 DEF Calling
<1>6. PICK p, c, b, l, yes :
          /\ p = task[w].parcel /\ c = task[w].couriers /\ b = task[w].tracked /\ l = task[w].label
          /\ yes = TRUE
  OBVIOUS
<1>7. PICK j : j = Then(w, x)
  OBVIOUS
<1>8. j = CallOf(x, p, "none", 0, yes, c, b, l) /\ CallShape(j)
  BY <1>2, <1>5, <1>6, <1>7, ThenShape
<1>9. PICK k : k = [j EXCEPT !.couriers = first]
  OBVIOUS
<1>10. k = CallOf(x, p, "none", 0, yes, first, b, l)
  BY <1>8, <1>9 DEF CallOf
<1>11. CallShape(CallOf(x, p, "none", 0, TRUE, first, b, l))
  <2>1. p \in Package /\ p # Nobody /\ b \in BOOLEAN /\ l \in BOOLEAN
    BY <1>2, <1>6 DEF CallsFit, CallShape
  <2>2. x \in Calling \cup {"idle", "edit", "save"} /\ x \notin {"idle", "rates"}
    BY <1>5 DEF Calling
  <2> QED
    BY <2>1, <2>2, CallIsShaped
<1>12. GoesTo(w, CallOf(x, p, "none", 0, TRUE, first, b, l))
  BY <1>3, <1>4, <1>6, <1>7, <1>9, <1>10, Zenon
<1>13. /\ CallsFit' /\ \A v \in Handler \ {w} : task'[v] = task[v]
       /\ Unstarted(task'[w])
       /\ task'[w].step = x /\ task'[w].parcel = p /\ task'[w].tracked = b
  BY <1>2, <1>11, <1>12, GoesUnstarted
<1> QED
  BY <1>1, <1>5, <1>6, <1>13, BookingMoves

LEMMA AssignedStands == ASSUME CarrierInv, NEW w \in Handler, Assigned(w) PROVE CarrierInv'
<1>1. Answered(w, "assign") /\ UNCHANGED row /\ GoesTo(w, [Then(w, "label") EXCEPT !.tracked = TRUE])
  BY DEF Assigned
<1>2. task[w].parcel \in Package /\ task[w].parcel # Nobody /\ CallsFit
  BY <1>1, AnsweredAt
<1>3. PICK p, c, b, l, yes :
          /\ p = task[w].parcel /\ c = task[w].couriers /\ b = task[w].tracked /\ l = task[w].label
          /\ yes = TRUE
  OBVIOUS
<1>4. PICK j : j = Then(w, "label")
  OBVIOUS
<1>5. j = CallOf("label", p, "none", 0, yes, c, b, l)
  <2>1. "label" \in (Calling \ {"rates"}) \cup {"save"}
    BY DEF Calling
  <2> QED
    BY <1>2, <1>3, <1>4, <2>1, ThenShape
<1>6. PICK k : k = [j EXCEPT !.tracked = yes]
  OBVIOUS
<1>7. k = CallOf("label", p, "none", 0, yes, c, yes, l)
  BY <1>5, <1>6 DEF CallOf
<1>8. CallShape(CallOf("label", p, "none", 0, TRUE, c, TRUE, l))
  <2>1. p \in Package /\ p # Nobody /\ l \in BOOLEAN
    BY <1>2, <1>3 DEF CallsFit, CallShape
  <2>2. "label" \in Calling \cup {"idle", "edit", "save"} /\ "label" \in Calling
    BY DEF Calling
  <2> QED
    BY <2>1, <2>2, CallIsShaped
<1>9. GoesTo(w, CallOf("label", p, "none", 0, TRUE, c, TRUE, l))
  BY <1>1, <1>3, <1>4, <1>6, <1>7, Zenon
<1>10. /\ CallsFit' /\ \A v \in Handler \ {w} : task'[v] = task[v]
       /\ Unstarted(task'[w])
       /\ task'[w].step = "label" /\ task'[w].parcel = p /\ task'[w].tracked = TRUE
  BY <1>2, <1>8, <1>9, GoesUnstarted, ZenonT(90)
<1> QED
  BY <1>1, <1>3, <1>10, BookingMoves

LEMMA LabelStands == ASSUME CarrierInv, NEW w \in Handler, LabelAnswered(w) PROVE CarrierInv'
<1>1. Answered(w, "label") /\ UNCHANGED row
  BY DEF LabelAnswered
<1>2. PICK y \in BOOLEAN : GoesTo(w, [Then(w, "save") EXCEPT !.label = y])
  BY DEF LabelAnswered
<1>3. task[w].parcel \in Package /\ task[w].parcel # Nobody /\ CallsFit
  BY <1>1, AnsweredAt
<1>4. PICK p, c, b, l, yes, z :
          /\ p = task[w].parcel /\ c = task[w].couriers /\ b = task[w].tracked /\ l = task[w].label
          /\ yes = TRUE /\ z = y
  OBVIOUS
<1>5. PICK j : j = Then(w, "save")
  OBVIOUS
<1>6. j = CallOf("save", p, "none", 0, yes, c, b, l)
  BY <1>3, <1>4, <1>5, ThenShape
<1>7. PICK k : k = [j EXCEPT !.label = z]
  OBVIOUS
<1>8. k = CallOf("save", p, "none", 0, yes, c, b, z)
  BY <1>6, <1>7 DEF CallOf
<1>9. CallShape(CallOf("save", p, "none", 0, TRUE, c, b, z))
  <2>1. p \in Package /\ p # Nobody /\ b \in BOOLEAN /\ z \in BOOLEAN
    BY <1>3, <1>4 DEF CallsFit, CallShape
  <2>2. "save" \in Calling \cup {"idle", "edit", "save"}
    OBVIOUS
  <2> QED
    BY <2>1, <2>2, CallIsShaped
<1>10. GoesTo(w, CallOf("save", p, "none", 0, TRUE, c, b, z))
  BY <1>2, <1>4, <1>5, <1>7, <1>8, Zenon
<1>11. PICK s : s = "save"
  OBVIOUS
<1>12. /\ CallsFit' /\ \A v \in Handler \ {w} : task'[v] = task[v]
       /\ Unstarted(task'[w])
       /\ task'[w].step = s /\ task'[w].parcel = p /\ task'[w].tracked = b
  <2>1. /\ CallShape(CallOf(s, p, "none", 0, TRUE, c, b, z))
        /\ GoesTo(w, CallOf(s, p, "none", 0, TRUE, c, b, z))
    BY <1>9, <1>10, <1>11
  <2> QED
    BY <1>3, <2>1, GoesUnstarted
<1> QED
  BY <1>1, <1>4, <1>11, <1>12, BookingMoves

\* What is saved is what the handler knows: the waybill, if there is one.
LEMMA SaveStands == ASSUME CarrierInv, NEW w \in Handler, SaveBooking(w) PROVE CarrierInv'
<1>1. PICK p, b, l : p = task[w].parcel /\ b = task[w].tracked /\ l = task[w].label
  OBVIOUS
<1>2. /\ p \in Package /\ p # Nobody /\ row \in [Package -> PackageRow] /\ CallsFit
      /\ registered \in [Package -> Nat] /\ awb \in [Package -> Nat] /\ failures \in 0 .. MaxFailures
      /\ b \in BOOLEAN /\ l \in BOOLEAN /\ task[w].step = "save"
      /\ UNCHANGED <<token, epoch, registered, awb, trouble, gaveUp, served, failures>>
  BY <1>1, RowFields, CarrierAssumption
     DEF CarrierInv, CarrierTypeOK, CallsFit, CallShape, SaveBooking, At, history
<1>3. /\ CallsFit' /\ \A v \in Handler \ {w} : task'[v] = task[v]
      /\ Unstarted(task'[w]) /\ task'[w].parcel = Nobody
  BY <1>2, GoesIdle DEF SaveBooking
<1>4. /\ row' \in [Package -> PackageRow] /\ \A q \in Package \ {p} : row'[q] = row[q]
      /\ row'[p].booked = TRUE /\ row'[p].tracked = b /\ row'[p].cancelled = row[p].cancelled
  <2>1. PICK yes \in BOOLEAN : yes = TRUE
    OBVIOUS
  <2>2. PICK f : f = row
    OBVIOUS
  <2>3. PICK f1 : f1 = [f EXCEPT ![p].booked = yes]
    OBVIOUS
  <2>4. PICK f2 : f2 = [f1 EXCEPT ![p].label = l]
    OBVIOUS
  <2>5. PICK f3 : f3 = [f2 EXCEPT ![p].tracked = b]
    OBVIOUS
  <2>6. f \in [Package -> PackageRow] /\ p \in Package /\ l \in BOOLEAN /\ b \in BOOLEAN
    BY <1>2, <2>2
  <2>7. /\ f1 \in [Package -> PackageRow] /\ \A q \in Package \ {p} : f1[q] = f[q]
        /\ f1[p].booked = yes /\ f1[p].cancelled = f[p].cancelled
    BY <2>3, <2>6 DEF PackageRow
  <2>8. /\ f2 \in [Package -> PackageRow] /\ \A q \in Package \ {p} : f2[q] = f1[q]
        /\ f2[p].booked = f1[p].booked /\ f2[p].cancelled = f1[p].cancelled
    BY <2>4, <2>6, <2>7 DEF PackageRow
  <2>9. /\ f3 \in [Package -> PackageRow] /\ \A q \in Package \ {p} : f3[q] = f2[q]
        /\ f3[p].booked = f2[p].booked /\ f3[p].tracked = b /\ f3[p].cancelled = f2[p].cancelled
    BY <2>5, <2>6, <2>8 DEF PackageRow
  <2>10. row' = f3
    BY <1>1, <2>1, <2>2, <2>3, <2>4, <2>5, Zenon DEF SaveBooking
  <2> QED
    BY <2>1, <2>2, <2>7, <2>8, <2>9, <2>10
<1>5. ASSUME StageStands(task[w], row[p], registered[p], awb[p], trouble)
      PROVE  AtRestStands(row'[p], registered[p], awb[p], trouble)
  <2>1. PICK r, s, j, n, a : /\ r = row[p] /\ s = row'[p] /\ j = task[w]
                             /\ n = registered[p] /\ a = awb[p]
    OBVIOUS
  <2>2. /\ r \in PackageRow /\ s \in PackageRow /\ s.booked = TRUE /\ s.tracked = j.tracked
        /\ s.cancelled = r.cancelled /\ j.step = "save" /\ n \in Nat /\ a \in Nat
    BY <1>1, <1>2, <1>4, <2>1
  <2>3. StageStands(j, r, n, a, trouble)
    BY <1>5, <2>1
  <2>4. NothingLost(trouble) => Sound(s, n, a)
    BY <2>2, <2>3 DEF StageStands, StageSound, Booking, Sound, PackageRow
  <2>5. NothingMissed(trouble) => PickupSettled(s, n)
    BY <2>2, <2>3 DEF StageStands, StageSettled, Booking, PickupSettled
  <2> QED
    BY <2>1, <2>4, <2>5 DEF AtRestStands
<1> QED
  BY <1>1, <1>2, <1>3, <1>4, <1>5, StageMoves

LEMMA FetchedStands == ASSUME CarrierInv, NEW w \in Handler, LabelFetched(w) PROVE CarrierInv'
<1>1. PICK p : p = task[w].parcel
  OBVIOUS
<1>2. Answered(w, "relabel") /\ GoesTo(w, Idle)
  BY DEF LabelFetched
<1>3. /\ task[w].step = "relabel" /\ p \in Package /\ p # Nobody /\ CallsFit
      /\ row \in [Package -> PackageRow]
      /\ registered \in [Package -> Nat] /\ awb \in [Package -> Nat]
      /\ UNCHANGED <<token, epoch, trouble, gaveUp, served, failures>>
      /\ failures' \in 0 .. MaxFailures
  BY <1>1, <1>2, AnsweredAt
<1>4. UNCHANGED <<registered, awb>>
  BY <1>2, <1>3 DEF Answered, Effect, At
<1>5. /\ CallsFit' /\ \A v \in Handler \ {w} : task'[v] = task[v]
      /\ Unstarted(task'[w]) /\ task'[w].parcel = Nobody
  BY <1>2, <1>3, GoesIdle
<1>6. /\ row' \in [Package -> PackageRow] /\ \A q \in Package \ {p} : row'[q] = row[q]
      /\ row'[p].booked = row[p].booked /\ row'[p].tracked = row[p].tracked
      /\ row'[p].cancelled = row[p].cancelled /\ row'[p].review = row[p].review
  <2>1. PICK b \in BOOLEAN : row' = [row EXCEPT ![p].label = @ \/ b]
    BY <1>1 DEF LabelFetched
  <2>2. PICK f, g, v : f = row /\ g = row' /\ v = (row[p].label \/ b)
    OBVIOUS
  <2>3. f \in [Package -> PackageRow] /\ g = [f EXCEPT ![p].label = v]
    BY <1>3, <2>1, <2>2
  <2>4. v \in BOOLEAN
    BY <2>2
  <2>5. /\ g \in [Package -> PackageRow] /\ \A q \in Package \ {p} : g[q] = f[q]
        /\ g[p].booked = f[p].booked /\ g[p].tracked = f[p].tracked
        /\ g[p].cancelled = f[p].cancelled /\ g[p].review = f[p].review
    BY <1>3, <2>3, <2>4, RowLabelled
  <2> QED
    BY <2>2, <2>5
<1>7. ASSUME StageStands(task[w], row[p], registered[p], awb[p], trouble)
      PROVE  AtRestStands(row'[p], registered[p], awb[p], trouble)
  <2>1. PICK r, s, j, n, a : /\ r = row[p] /\ s = row'[p] /\ j = task[w]
                             /\ n = registered[p] /\ a = awb[p]
    OBVIOUS
  <2>2. /\ r \in PackageRow /\ s \in PackageRow /\ s.booked = r.booked /\ s.tracked = r.tracked
        /\ s.cancelled = r.cancelled /\ s.review = r.review /\ j.step = "relabel" /\ n \in Nat /\ a \in Nat
    BY <1>3, <1>6, <2>1
  <2>3. StageStands(j, r, n, a, trouble)
    BY <1>7, <2>1
  <2>4. NothingLost(trouble) => Sound(r, n, a)
    BY <2>2, <2>3 DEF StageStands, StageSound, Booking
  <2>5. NothingLost(trouble) => Sound(s, n, a)
    BY <2>2, <2>4 DEF Sound, PackageRow
  <2>6. NothingMissed(trouble) => PickupSettled(s, n)
    BY <2>2, <2>3 DEF StageStands, StageSettled, PickupSettled
  <2> QED
    BY <2>1, <2>5, <2>6 DEF AtRestStands
<1> QED
  BY <1>1, <1>3, <1>4, <1>5, <1>6, <1>7, StageMoves

\* What is called off is registered no more.
LEMMA CalledOffStands == ASSUME CarrierInv, NEW w \in Handler, CalledOff(w) PROVE CarrierInv'
<1>1. PICK p, s : p = task[w].parcel /\ s = task[w].step
  OBVIOUS
<1>2. s \in {"call_off", "call_off_order"} /\ s # "rates" /\ Answered(w, s) /\ GoesTo(w, Idle) /\ UNCHANGED row
  BY <1>1 DEF CalledOff, Answered, At
<1>3. /\ p \in Package /\ p # Nobody /\ CallsFit
      /\ row \in [Package -> PackageRow]
      /\ registered \in [Package -> Nat] /\ awb \in [Package -> Nat]
      /\ registered' \in [Package -> Nat] /\ awb' \in [Package -> Nat]
      /\ \A q \in Package \ {p} : registered'[q] = registered[q] /\ awb'[q] = awb[q]
      /\ UNCHANGED <<token, epoch, trouble, gaveUp, served, failures>>
      /\ failures' \in 0 .. MaxFailures
  BY <1>1, <1>2, AnsweredAt
<1>4. registered'[p] = 0 /\ awb'[p] = 0
  BY <1>1, <1>2, <1>3, EffectAt DEF Answered
<1>5. /\ CallsFit' /\ \A v \in Handler \ {w} : task'[v] = task[v]
      /\ Unstarted(task'[w]) /\ task'[w].parcel = Nobody
  BY <1>2, <1>3, GoesIdle
<1>6. ASSUME StageStands(task[w], row[p], registered[p], awb[p], trouble)
      PROVE  AtRestStands(row[p], registered'[p], awb'[p], trouble)
  <2>1. PICK r, j, n, a : r = row[p] /\ j = task[w] /\ n = registered[p] /\ a = awb[p]
    OBVIOUS
  <2>2. StageStands(j, r, n, a, trouble) /\ j.step \in {"call_off", "call_off_order"}
    BY <1>1, <1>2, <1>6, <2>1
  <2>3. NothingLost(trouble) => r.booked
    BY <2>2 DEF StageStands, StageSound
  <2>4. NothingLost(trouble) => Sound(r, 0, 0)
    BY <2>3 DEF Sound
  <2>5. PickupSettled(r, 0)
    BY DEF PickupSettled
  <2> QED
    BY <1>4, <2>1, <2>4, <2>5 DEF AtRestStands
<1> QED
  BY <1>1, <1>2, <1>3, <1>4, <1>5, <1>6, StageMoves

-----------------------------------------------------------------------------
(* The theorems *)

LEMMA CarrierStarts == CarrierInit => CarrierInv
<1> SUFFICES ASSUME CarrierInit PROVE CarrierInv
  OBVIOUS
<1>1. CallsFit /\ \A w \in Handler : task[w] = Idle
  BY IdleShape DEF CarrierInit, CallsFit
<1>2. CarrierTypeOK
  <2>1. row \in [Package -> PackageRow]
    BY DEF CarrierInit, NoRow, PackageRow
  <2>2. 0 \in 0 .. MaxRequests /\ 0 \in 0 .. MaxFailures
    BY CarrierAssumption
  <2> QED
    BY <1>1, <2>1, <2>2, RowFields, IdleShape DEF CarrierInit, CarrierTypeOK
<1>3. OneAtATime
  BY <1>1, IdleShape, CarrierAssumption DEF OneAtATime
<1>4. PackagesStand
  <2>1. \A p \in Package : \A w \in Handler : task[w].parcel # p
    BY <1>1, IdleShape, CarrierAssumption
  <2>2. \A p \in Package : AtRestStands(row[p], registered[p], awb[p], trouble)
    BY DEF CarrierInit, NoRow, AtRestStands, Sound, PickupSettled
  <2> QED
    BY <2>1, <2>2 DEF PackagesStand
<1>5. TokensStand
  <2>1. \A w \in Handler : task[w].auth = "none" /\ task[w].tok = 0 /\ task[w].retry = TRUE
    BY <1>1, IdleShape
  <2>2. token = Nobody /\ epoch = 0 /\ ~gaveUp
    BY DEF CarrierInit
  <2>3. \A w \in Handler : Fresh(task[w], token, epoch)
    BY <2>1, <2>2 DEF Fresh
  <2> QED
    BY <2>1, <2>2, <2>3 DEF TokensStand
<1> QED
  BY <1>1, <1>2, <1>3, <1>4, <1>5 DEF CarrierInv

LEMMA HandleStands == ASSUME CarrierInv, NEW w \in Handler, Handle(w) PROVE CarrierInv'
<1>1. CASE quoteRates(w) \/ checkServiceability(w)
  BY <1>1, QuoteStands DEF checkServiceability
<1>2. CASE \E p \in Package : bookWithProvider(w, p)
  BY <1>2, BookStands
<1>3. CASE \E p \in Package : fetchShipmentLabel(w, p)
  BY <1>3, FetchStands
<1>4. CASE \E p \in Package : cancelWithCarrier(w, p)
  BY <1>4, CancelStands
<1>5. CASE \E p \in Package : EditParcel(w, p)
  BY <1>5, EditStands
<1>6. CASE \E p \in Package : MarkReviewed(w, p)
  BY <1>6, ReviewStands
<1>7. CASE WriteParcel(w)
  BY <1>7, WriteStands
<1> QED
  BY <1>1, <1>2, <1>3, <1>4, <1>5, <1>6, <1>7 DEF Handle

LEMMA CallStands == ASSUME CarrierInv, NEW w \in Handler, CallStep(w) PROVE CarrierInv'
<1>1. CASE withToken(w) \/ SignIn(w) \/ authenticate(w)
  BY <1>1, WithTokenStands, SignInStands, AuthenticateStands
<1>2. CASE Refused(w) \/ CourierRefuses(w) \/ CallOffRefused(w)
  BY <1>2, RefusedStands, RefusalStands
<1>3. CASE RatesQuoted(w) \/ Registered(w) \/ CouriersQuoted(w)
  BY <1>3, RatesStands, RegisteredStands, CouriersStand
<1>4. CASE Assigned(w) \/ LabelAnswered(w) \/ SaveBooking(w)
  BY <1>4, AssignedStands, LabelStands, SaveStands
<1>5. CASE LabelFetched(w) \/ CalledOff(w)
  BY <1>5, FetchedStands, CalledOffStands
<1> QED
  BY <1>1, <1>2, <1>3, <1>4, <1>5 DEF CallStep

LEMMA CarrierSteps == CarrierInv /\ [CarrierNext]_carrierVars => CarrierInv'
<1> SUFFICES ASSUME CarrierInv, [CarrierNext]_carrierVars PROVE CarrierInv'
  OBVIOUS
<1>1. CASE \E w \in Handler : Handle(w)
  BY <1>1, HandleStands
<1>2. CASE \E w \in Handler : CallStep(w)
  BY <1>2, CallStands
<1>3. CASE \E w \in Handler : Fails(w) \/ AnswerLost(w)
  BY <1>3, FailsStands, AnswerLostStands
<1>4. CASE TokenExpires \/ Revoke \/ ProcessStops
  BY <1>4, ExpiresStands, RevokeStands, StopStands
<1>5. CASE UNCHANGED carrierVars
  <2>1. UNCHANGED <<row, token, epoch, registered, awb, task, trouble, gaveUp, served, failures>>
    BY <1>5 DEF carrierVars, history
  <2>2. CarrierTypeOK' /\ CallsFit' /\ OneAtATime' /\ TokensStand'
    BY <2>1 DEF CarrierInv, CarrierTypeOK, CallsFit, CallShape, OneAtATime, TokensStand, Fresh
  <2>3. PackagesStand'
    BY <2>1, NoneMoves
  <2> QED
    BY <2>2, <2>3 DEF CarrierInv
<1> QED
  BY <1>1, <1>2, <1>3, <1>4, <1>5 DEF CarrierNext

LEMMA CarrierAlways == CarrierSpec => []CarrierInv
BY CarrierStarts, CarrierSteps, PTL DEF CarrierSpec

\* However the calls of a booking fail, a parcel is registered once and given one
\* waybill, and its row knows of both, unless an answer was lost, the process
\* stopped or two handlers crossed (createShipment, bookWithProvider).
THEOREM BookingsStand == CarrierSpec => []BookedOnceAndKnown
<1>1. CarrierInv => BookedOnceAndKnown
  <2> SUFFICES ASSUME CarrierInv, NEW p \in Package, NothingLost(trouble)
               PROVE  /\ registered[p] <= 1 /\ awb[p] <= 1
                      /\ AtRest(p) /\ registered[p] = 1 => row[p].booked /\ (awb[p] = 1 <=> row[p].tracked)
    BY DEF BookedOnceAndKnown, OneBooking, CarrierInv, NothingLost
  <2>1. PICK r, n, a : r = row[p] /\ n = registered[p] /\ a = awb[p]
    OBVIOUS
  <2>2. r \in PackageRow /\ n \in Nat /\ a \in Nat /\ "crossed" \notin trouble
    BY <2>1, RowFields DEF CarrierInv, CarrierTypeOK, NothingLost
  <2>3. CASE AtRest(p)
    <3>1. Sound(r, n, a)
      BY <2>1, <2>2, <2>3 DEF CarrierInv, PackagesStand, AtRestStands
    <3> QED
      BY <2>1, <2>2, <3>1 DEF Sound, PackageRow
  <2>4. CASE ~AtRest(p)
    <3>1. PICK w \in Handler : task[w].parcel = p
      BY <2>4 DEF AtRest
    <3>2. PICK j : j = task[w] /\ StageSound(j, r, n, a)
      BY <2>1, <2>2, <3>1 DEF CarrierInv, PackagesStand, StageStands
    <3>3. n <= 1 /\ a <= 1
      <4>1. CASE j.step \in Booking
        <5>1. a <= 1 /\ (n = 0 \/ n = 1)
          BY <3>2, <4>1 DEF StageSound
        <5> QED
          BY <5>1
      <4>2. CASE j.step \notin Booking
        <5>1. Sound(r, n, a)
          BY <3>2, <4>2 DEF StageSound
        <5> QED
          BY <2>2, <5>1 DEF Sound
      <4> QED
        BY <4>1, <4>2
    <3> QED
      BY <2>1, <2>4, <3>3
  <2> QED
    BY <2>3, <2>4
<1> QED
  BY <1>1, CarrierAlways, PTL

\* A parcel cancelled here is off the carrier's books, or before an operator
\* (cancelWithCarrier), unless it was cancelled before it was booked, looked at
\* already, or its handler was stopped or crossed.
THEOREM NoPickupForgotten == CarrierSpec => []CancelledIsCalledOff
<1>1. CarrierInv => CancelledIsCalledOff
  <2> SUFFICES ASSUME CarrierInv, NEW p \in Package, NothingMissed(trouble), AtRest(p), row[p].cancelled,
                      row[p].booked \/ "lost" \notin trouble
               PROVE  registered[p] = 0 \/ row[p].review
    BY DEF CancelledIsCalledOff, NothingMissed
  <2>1. AtRestStands(row[p], registered[p], awb[p], trouble)
    BY DEF CarrierInv, PackagesStand, NothingMissed
  <2>2. CASE row[p].booked
    BY <2>1, <2>2 DEF AtRestStands, PickupSettled
  <2>3. CASE ~row[p].booked
    <3>1. NothingLost(trouble)
      BY <2>3 DEF NothingLost, NothingMissed
    <3> QED
      BY <2>1, <2>3, <3>1 DEF AtRestStands, Sound
  <2> QED
    BY <2>2, <2>3
<1> QED
  BY <1>1, CarrierAlways, PTL

\* A token revoked once fails nobody's call (call, withToken), unless one was
\* being signed in as it was revoked.
THEOREM RevocationStaysUnnoticed == CarrierSpec => []RevocationIsUnnoticed
<1>1. CarrierInv => RevocationIsUnnoticed
  BY DEF CarrierInv, TokensStand, OnTime, RevocationIsUnnoticed
<1> QED
  BY <1>1, CarrierAlways, PTL

=============================================================================
