------------------------------- MODULE Quotes -------------------------------
(***************************************************************************)
(* What a customer is shown and what they are billed: the bag, the         *)
(* delivery quote and the order computed from one database by three        *)
(* handlers, while staff edit prices, zones and methods and the carrier    *)
(* changes its mind (modules/cart, shipping, orders, products; the         *)
(* arithmetic is Pricing's).  One customer and one address; stock and the  *)
(* limits of coupons are in Checkout.                                      *)
(***************************************************************************)
EXTENDS Pricing, Sequences, SequencesExt

CONSTANTS
    Product,      \* [products -> [price, compareAt, labels, weight, parts]]; a part
                  \* is its price and weight
    Pieces,       \* the pieces of the set, a sequence of products
    Look,         \* the product that is the set
    Coupons,      \* coupons of which one is in use
    Zones,        \* the seeded zones
    Methods,      \* and methods
    Address,      \* addresses of which one is the customer's
    Couriers,     \* what the carrier may say of it
    Prices,       \* prices staff set
    Charges,      \* settings: taxPercent, shippingFee, freeShippingThreshold, weightGrams
    Handler,      \* requests in flight at once
    MaxRequests   \* bound on the requests and changes of a behaviour

\* Rows of the schema.
PartRow == UNION {Product[p].parts : p \in DOMAIN Product}
ZoneRow ==
    [position : Int, countries : {Zones[z].countries : z \in DOMAIN Zones},
     regions : {Zones[z].regions : z \in DOMAIN Zones},
     isDefault : BOOLEAN, isActive : BOOLEAN, isServiceable : BOOLEAN]
BandRow ==
    [minWeight : Nat, maxWeight : Nat, minSubtotal : Nat, maxSubtotal : Nat, amount : Nat]
MethodRow ==
    [zone : DOMAIN Zones, isActive : BOOLEAN, rate : Nat, freeAbove : Nat, minSubtotal : Nat,
     maxSubtotal : Nat, maxWeight : Nat, isCod : BOOLEAN, codFee : Nat,
     carrierRule : {Null, "cheapest", "fastest"}, bands : Seq(BandRow)]
SetRow == [price : Nat, whole : BOOLEAN]

ASSUME QuotesAssumption ==
    /\ Pieces \in Seq(DOMAIN Product) /\ Look \notin Range(Pieces)
    /\ \A p \in DOMAIN Product : Product[p].price \in Nat
    /\ \A part \in PartRow : part # Null /\ part.price \in Nat
    /\ IsFiniteSet(DOMAIN Zones) /\ Zones \in [DOMAIN Zones -> ZoneRow]
    /\ Methods \in [DOMAIN Methods -> MethodRow]
    /\ \A c \in Coupons : c.value \in Nat /\ c.maxDiscount \in Nat
    /\ \A c \in Couriers \ {Down} : IsFiniteSet(c) /\ c \subseteq [rate : Nat, days : Nat]
    /\ Charges.taxPercent \in Nat /\ Charges.shippingFee \in Nat
    /\ Prices \subseteq Nat /\ MaxRequests \in Nat
    /\ Null \notin DOMAIN Zones \cup DOMAIN Methods \cup SetRow
                   \cup [cost : Nat, waived : BOOLEAN, codFee : Nat]

VARIABLES
    \* The database.
    zone,      \* shipping_zones
    method,    \* shipping_methods with their bands
    price,     \* [products and the set -> Nat]
    onSale,    \* products that are ACTIVE
    bag,       \* the lines of the customer's bag, oldest first
    coded,     \* the coupon's code is on the bag
    lastOrder, \* the last order, or Null
    \* The customer's coupon and address, and the carrier.
    coupon, address, couriers,
    \* The process.
    request,   \* [Handler -> what it is about to do]
    served,    \* how many requests and changes there have been
    shown,     \* the last quote: its parcel and its offers
    \* History.
    stands,    \* nothing has changed since what it was computed from was read
    fresh      \* the handlers of whose reading the same is true

quotesVars == <<zone, method, price, onSale, bag, coded, lastOrder, coupon, address, couriers,
                request, served, shown, stands, fresh>>

catalogue == <<price, onSale>>
delivery  == <<zone, method, couriers>>
customer  == <<bag, coded>>
given     == <<coupon, address>>

-----------------------------------------------------------------------------
(* Lines and requests *)

Idle == [op |-> "idle"]

\* The bag as it is priced: a line of a set at its share, else the product's.
Lines == [i \in DOMAIN bag |->
    LET p == bag[i].product
        unit == IF bag[i].unit # Null THEN bag[i].unit ELSE price[p]
    IN  [product |-> p, unit |-> unit, quantity |-> bag[i].quantity, labels |-> Product[p].labels,
         isDiscounted |-> Product[p].compareAt # Null /\ Product[p].compareAt > unit,
         weight |-> Product[p].weight,
         partWeight |-> IF bag[i].part = Null THEN Null ELSE bag[i].part.weight]]

Weight(lines) ==
    SumFunction([i \in DOMAIN lines |-> lineWeightGrams(lines[i], Charges.weightGrams)])

\* serializeCart counts what can be bought; createOrder refuses the rest.
Purchasable(lines) == Restrict(lines, {i \in DOMAIN lines : lines[i].product \in onSale})

Evaluated(lines) == IF coded /\ DOMAIN lines # {} THEN evaluateCoupon(coupon, lines) ELSE NoCoupon(lines)

Served == served < MaxRequests /\ served' = served + 1

\* A request has read what there is, and one is done.
BeginRequest(h, next) ==
    /\ request[h] = Idle /\ Served
    /\ request' = [request EXCEPT ![h] = next] /\ fresh' = fresh \cup {h}
Proceed(h) == UNCHANGED served /\ request' = [request EXCEPT ![h] = Idle] /\ fresh' = fresh \ {h}

\* What was read or shown before is no longer what is.
Outdated == stands' = FALSE /\ fresh' = {} /\ UNCHANGED shown
Change   == Served /\ Outdated /\ UNCHANGED request

-----------------------------------------------------------------------------
(* The bag *)

\* A line bought on its own, whole or a part, or in a set taken whole or not.
Line(p, part, unit, set) ==
    [product |-> p, part |-> part, unit |-> unit, set |-> set, quantity |-> 1]

\* POST /cart/items.  Only a line bought on its own merges.
addItem(p, part) ==
    /\ p \in onSale
    /\ IF Product[p].parts = {} THEN part = Null ELSE part \in Product[p].parts
    /\ LET existing == {i \in DOMAIN bag : bag[i].product = p /\ bag[i].part = part /\ bag[i].set = Null}
           unit == IF part = Null THEN Null ELSE part.price
       IN  bag' = IF existing = {} THEN Append(bag, Line(p, part, unit, Null))
                  ELSE [bag EXCEPT ![Min(existing)].quantity = @ + 1]
    /\ Change
    /\ UNCHANGED <<catalogue, delivery, given, coded, lastOrder>>

\* s lists a set of numbers in their order.
InOrder(s, numbers) == Range(s) = numbers /\ \A j, k \in DOMAIN s : j < k => s[j] < s[k]

\* POST /cart/sets with the pieces at `taken` of the set.  Bound: one set in a
\* bag.
addSet(taken) ==
    /\ {Pieces[i] : i \in taken} \cup {Look} \subseteq onSale
    /\ \A i \in DOMAIN bag : bag[i].set = Null
    /\ LET prices == [i \in DOMAIN Pieces |-> price[Pieces[i]]]
           unit   == resolveSetSelection(price[Look], prices, taken)
           set    == [price |-> price[Look], whole |-> taken = DOMAIN Pieces]
       IN  \E s \in [1 .. Cardinality(taken) -> taken] :
              /\ InOrder(s, taken)
              /\ bag' = bag \o [k \in DOMAIN s |-> Line(Pieces[s[k]], Null, unit[s[k]], set)]
    /\ Change
    /\ UNCHANGED <<catalogue, delivery, given, coded, lastOrder>>

\* PATCH and DELETE /cart/items/:itemId.
updateItem(i, quantity) ==
    /\ bag' = IF quantity = 0 THEN RemoveAt(bag, i) ELSE [bag EXCEPT ![i].quantity = quantity]
    /\ Change
    /\ UNCHANGED <<catalogue, delivery, given, coded, lastOrder>>

\* POST /cart/coupon: evaluated at what the products cost.
applyCoupon ==
    /\ ~coded
    /\ LET lines == Purchasable([i \in DOMAIN bag |-> [Lines[i] EXCEPT !.unit = price[bag[i].product]]])
       IN  DOMAIN lines # {} /\ evaluateCoupon(coupon, lines) # Null
    /\ coded' = TRUE
    /\ Change
    /\ UNCHANGED <<catalogue, delivery, given, bag, lastOrder>>

-----------------------------------------------------------------------------
(* GET /shipping/quote *)

\* What the bag comes to: a code that is no longer valid is dropped.
quote(h) ==
    /\ LET lines == Purchasable(Lines)
           with  == Evaluated(lines)
           used  == IF with = Null THEN NoCoupon(lines) ELSE with
           p     == [subtotal |-> Subtotal(lines) - used.discount, weight |-> Weight(Lines),
                     freeShipping |-> used.freeShipping]
       IN  /\ BeginRequest(h, [op |-> "quote", parcel |-> p])
           /\ coded' = (coded /\ with # Null)
    /\ UNCHANGED <<catalogue, delivery, given, bag, lastOrder, shown, stands>>

QuoteAnswer(h) ==
    /\ request[h].op = "quote"
    /\ LET p == request[h].parcel
       IN  shown' = [parcel |-> p, offers |-> quoteShipping(zone, method, address, p, couriers)]
    /\ stands' = (h \in fresh)
    /\ Proceed(h)
    /\ UNCHANGED <<catalogue, delivery, given, customer, lastOrder>>

-----------------------------------------------------------------------------
(* POST /orders *)

\* createOrder's snapshot; m is the method chosen, Null for the flat rate.
createOrder(h, m) ==
    /\ bag # <<>>
    /\ BeginRequest(h, [op |-> "order", method |-> m, bag |-> bag, lines |-> Lines,
                 sold |-> \A i \in DOMAIN bag : bag[i].product \in onSale,
                 with |-> Evaluated(Lines)])
    /\ UNCHANGED <<catalogue, delivery, given, customer, lastOrder, shown, stands>>

\* Mutant: the bag's prices are the products'.
PricedAlone(r) == [i \in DOMAIN r.lines |-> [r.lines[i] EXCEPT !.unit = price[r.lines[i].product]]]

\* What createOrder charges for the lines: what the bag showed.
PricedLines(r) == r.lines

Bill(r, offer, as) ==
    LET lines    == PricedLines(r)
        goods    == Subtotal(lines)
        owed     == goods - r.with.discount
        shipping == IF r.method # Null THEN offer.cost + offer.codFee
                    ELSE IF r.with.freeShipping
                            \/ (Charges.freeShippingThreshold > 0 /\ goods >= Charges.freeShippingThreshold)
                         THEN 0 ELSE Charges.shippingFee
        tax      == percentOf(owed, Charges.taxPercent)
    IN  [lines |-> lines, discount |-> r.with.discount, allocation |-> r.with.allocation,
         shipping |-> shipping, tax |-> tax, total |-> owed + shipping + tax,
         method |-> r.method, refused |-> FALSE, shown |-> shown, asShown |-> as]

Refusal(r, as) == [refused |-> TRUE, method |-> r.method, shown |-> shown, asShown |-> as]

\* The method is priced, the carrier asked, and the order placed or refused;
\* it aborts if its bag was written since.
Place(h) ==
    /\ request[h].op = "order"
    /\ LET r == request[h]
           p == [subtotal |-> Subtotal(r.lines) - r.with.discount, weight |-> Weight(r.lines),
                 freeShipping |-> r.with.freeShipping]
           offer == IF r.method = Null THEN Null
                    ELSE priceChosenMethod(zone, method, r.method, address, p, couriers)
           sound == r.sold /\ r.with # Null /\ bag = r.bag
           as    == h \in fresh /\ stands
       IN  IF sound /\ (r.method = Null \/ offer # Null)
           THEN /\ lastOrder' = Bill(r, offer, as)
                /\ bag' = <<>> /\ coded' = FALSE /\ stands' = FALSE
           ELSE /\ lastOrder' = Refusal(r, as /\ sound)
                /\ UNCHANGED <<bag, coded, stands>>
    /\ Proceed(h)
    /\ UNCHANGED <<catalogue, delivery, given, shown>>

-----------------------------------------------------------------------------
(* Staff and the carrier *)

changePrice(p, amount) ==
    /\ price[p] # amount
    /\ price' = [price EXCEPT ![p] = amount]
    /\ Change
    /\ UNCHANGED <<onSale, delivery, given, customer, lastOrder>>

archive(p) ==
    /\ p \in onSale /\ onSale' = onSale \ {p}
    /\ Change
    /\ UNCHANGED <<price, delivery, given, customer, lastOrder>>

\* PATCH /admin/shipping/zones/:id with isDefault; the others are cleared by
\* another statement.
updateZone(h, z) ==
    /\ request[h] = Idle /\ Served
    /\ zone' = [zone EXCEPT ![z].isDefault = TRUE]
    /\ request' = [request EXCEPT ![h] = [op |-> "clear", zone |-> z]]
    /\ Outdated
    /\ UNCHANGED <<catalogue, method, couriers, given, customer, lastOrder>>

clearOtherDefaults(h) ==
    /\ request[h].op = "clear"
    /\ zone' = [z \in DOMAIN zone |-> [zone[z] EXCEPT !.isDefault = @ /\ z = request[h].zone]]
    /\ request' = [request EXCEPT ![h] = Idle]
    /\ Outdated
    /\ UNCHANGED <<catalogue, method, couriers, given, customer, lastOrder, served>>

\* PATCH of the other fields, and DELETE of a zone that orders have used.
refuseZone(z, isActive, isServiceable) ==
    /\ zone' = [zone EXCEPT ![z].isActive = isActive, ![z].isServiceable = isServiceable]
    /\ method' = IF isActive THEN method
                 ELSE [m \in DOMAIN method |->
                          [method[m] EXCEPT !.isActive = @ /\ method[m].zone # z]]
    /\ zone' # zone
    /\ Change
    /\ UNCHANGED <<catalogue, couriers, given, customer, lastOrder>>

\* PATCH /admin/shipping/methods/:id, and DELETE of a method that was used.
updateMethod(m, rate, isActive) ==
    /\ method' = [method EXCEPT ![m].rate = rate, ![m].isActive = isActive]
    /\ method' # method
    /\ Change
    /\ UNCHANGED <<catalogue, zone, couriers, given, customer, lastOrder>>

\* PUT /admin/shipping/methods/:id/rates replaces a method's bands in one
\* transaction; here by the last of them.
replaceRates(m, bands) ==
    /\ method[m].bands # bands
    /\ method' = [method EXCEPT ![m].bands = bands]
    /\ Change
    /\ UNCHANGED <<catalogue, zone, couriers, given, customer, lastOrder>>

CarrierChanges ==
    /\ couriers' \in Couriers \ {couriers}
    /\ Change
    /\ UNCHANGED <<catalogue, zone, method, given, customer, lastOrder>>

\* The process stops, or the database fails.
Stop(h) ==
    /\ request[h] # Idle
    /\ Proceed(h)
    /\ UNCHANGED <<catalogue, delivery, given, customer, lastOrder, shown, stands>>

-----------------------------------------------------------------------------

NothingShown == [parcel |-> Null, offers |-> [m \in {} |-> Null]]

QuotesInit ==
    /\ zone = Zones /\ method = Methods
    /\ price \in {[p \in DOMAIN Product \cup {Look} |-> IF p = Look THEN q ELSE Product[p].price] : q \in Prices}
    /\ onSale = DOMAIN price
    /\ bag = <<>> /\ coded \in BOOLEAN /\ lastOrder = Null   \* a code outlives what it was applied to
    /\ coupon \in Coupons /\ address \in Address /\ couriers \in Couriers
    /\ request = [h \in Handler |-> Idle]
    /\ served = 0
    /\ shown = NothingShown /\ stands = FALSE /\ fresh = {}

Shop ==
    \/ \E p \in DOMAIN Product : \E part \in Product[p].parts \cup {Null} : addItem(p, part)
    \/ \E taken \in SUBSET DOMAIN Pieces : Cardinality(taken) >= 2 /\ addSet(taken)
    \/ \E i \in DOMAIN bag : \E q \in {0, 2} : updateItem(i, q)
    \/ applyCoupon
    \/ \E h \in Handler : quote(h) \/ \E m \in DOMAIN method \cup {Null} : createOrder(h, m)

Manage ==
    \/ \E p \in DOMAIN price : archive(p) \/ \E amount \in Prices : changePrice(p, amount)
    \/ \E z \in DOMAIN zone : \/ \E h \in Handler : updateZone(h, z)
                              \/ \E a, s \in BOOLEAN : refuseZone(z, a, s)
    \/ \E m \in DOMAIN method, rate \in Prices, a \in BOOLEAN : updateMethod(m, rate, a)
    \/ \E m \in DOMAIN method : method[m].bands # <<>> /\ replaceRates(m, <<Last(method[m].bands)>>)
    \/ CarrierChanges

QuotesNext == Shop \/ Manage \/ \E h \in Handler : QuoteAnswer(h) \/ Place(h) \/ clearOtherDefaults(h) \/ Stop(h)

QuotesSpec == QuotesInit /\ [][QuotesNext]_quotesVars

-----------------------------------------------------------------------------
(* Properties *)

\* Every variable has its type; no line and no order is for less than nothing.
QuotesTypeOK ==
    /\ DOMAIN zone = DOMAIN Zones /\ DOMAIN method = DOMAIN Methods
    /\ price \in [DOMAIN Product \cup {Look} -> Nat] /\ onSale \subseteq DOMAIN price
    /\ \A i \in DOMAIN bag : /\ bag[i].product \in DOMAIN Product /\ bag[i].quantity \in Nat \ {0}
                             /\ bag[i].unit \in Nat \cup {Null}
    /\ coded \in BOOLEAN /\ served \in 0 .. MaxRequests
    /\ lastOrder # Null /\ ~lastOrder.refused => lastOrder.total \in Nat /\ lastOrder.shipping \in Nat /\ lastOrder.tax \in Nat

\* "If these two ever disagree, the customer is shown one figure and billed
\* another": while nothing changes, the order is for what the last quote said
\* of the goods, and a method it offered costs what it said.
BilledAsShown ==
    lastOrder # Null /\ ~lastOrder.refused /\ lastOrder.asShown =>
        /\ Subtotal(lastOrder.lines) - lastOrder.discount = lastOrder.shown.parcel.subtotal
        /\ lastOrder.method \in DOMAIN lastOrder.shown.offers =>
              lastOrder.shipping = lastOrder.shown.offers[lastOrder.method].cost + lastOrder.shown.offers[lastOrder.method].codFee

\* While nothing changes, an order for a method that was offered is not refused;
\* and a PIN code some method is offered for was never answered "we do not
\* deliver there", nor one with cash on delivery "no cash", while a courier
\* serves it (the product page asks the carrier whatever the methods say).
PinCheckAgrees ==
    stands /\ address.pinned /\ address.country = India /\ couriers # {} =>
        LET answer == serviceability(zone, method, address, couriers)
        IN  \A m \in DOMAIN shown.offers : answer.serviceable /\ (method[m].isCod => answer.cod)

OfferStands ==
    /\ lastOrder # Null /\ lastOrder.refused /\ lastOrder.asShown => lastOrder.method \notin DOMAIN lastOrder.shown.offers
    /\ PinCheckAgrees

\* No paisa is lost or made by sharing: a set's pieces cost what the set does,
\* the discounts of the lines are the order's and none exceeds its line.
SharesAddUp ==
    /\ LET group == {i \in DOMAIN bag : bag[i].set # Null}
       IN  Cardinality(group) = Len(Pieces) =>
              \A i \in group : bag[i].set.price = SumFunctionOnSet([j \in DOMAIN bag |-> bag[j].unit], group)
    /\ lastOrder # Null /\ ~lastOrder.refused =>
          /\ SumFunction(lastOrder.allocation) = lastOrder.discount
          /\ \A i \in DOMAIN lastOrder.lines : lastOrder.allocation[i] \in 0 .. LineTotal(lastOrder.lines[i])

\* The two computations of one order's figures agree, on lines and sums that
\* are never less than nothing.
ShownIsBilled == QuotesTypeOK /\ BilledAsShown

=============================================================================
