------------------------------ MODULE Pricing ------------------------------
(***************************************************************************)
(* The shop's arithmetic: what goods, coupons, sets and deliveries cost    *)
(* (modules/coupons, products/set.service, shipping.service, the carrier's *)
(* quoteRates).  No state.  Money is whole paise and arithmetic is exact;  *)
(* the code computes shares as doubles and floors them, which is the same  *)
(* below 2^53.                                                             *)
(*                                                                         *)
(* Lines of a bag are a function from the numbers of the lines, oldest     *)
(* first, to records.  An address is a record: its country, the regions    *)
(* (states, PIN prefixes) it is within, and whether it has a PIN code.     *)
(***************************************************************************)
EXTENDS Integers, FiniteSetsExt, Functions

CONSTANTS
    Null,       \* null
    Down,       \* the carrier cannot be asked
    India,      \* the country it serves
    Unlimited   \* an upper bound that is not set

ASSUME PricingAssumption == Unlimited \in Nat /\ Null \notin Nat

-----------------------------------------------------------------------------
(* Goods *)

\* Math.round of a / b.
RoundOf(a, b) == (2 * a + b) \div (2 * b)

percentOf(amount, percent) == RoundOf(amount * percent, 100)

LineTotal(l)    == l.unit * l.quantity
Subtotal(lines) == SumFunction([i \in DOMAIN lines |-> LineTotal(lines[i])])

\* The chosen part wins over the size, and the shop's default stands in for
\* what nobody has weighed.
lineWeightGrams(l, fallback) ==
    l.quantity * (IF l.partWeight # Null THEN l.partWeight
                  ELSE IF l.weight # Null THEN l.weight ELSE fallback)

-----------------------------------------------------------------------------
(* Shares: floor them all, then the leftover paise to the largest fractions *)

Floors(total, value) ==
    [i \in DOMAIN value |-> (total * value[i]) \div SumFunction(value)]

Fraction(total, value, i) == (total * value[i]) % SumFunction(value)

\* The k members of `among` that come first, the largest fractions first.
FirstOf(total, value, among, k) ==
    {i \in among :
        Cardinality({j \in among : \/ Fraction(total, value, j) > Fraction(total, value, i)
                                   \/ /\ Fraction(total, value, j) = Fraction(total, value, i)
                                      /\ j < i}) < k}

\* "Never push a line's discount past what the line is worth."
allocateProportionally(total, value) ==
    IF SumFunction(value) = 0 \/ total = 0 THEN [i \in DOMAIN value |-> 0]
    ELSE LET floor == Floors(total, value)
             lucky == FirstOf(total, value, {i \in DOMAIN value : floor[i] < value[i]},
                              total - SumFunction(floor))
         IN  [i \in DOMAIN value |-> floor[i] + (IF i \in lucky THEN 1 ELSE 0)]

\* Mutant: the leftover paise are dropped.
allocateFloors(setPrice, prices) == Floors(setPrice, prices)

\* A set's price over its pieces, by what each costs alone.
allocateSetPrice(setPrice, prices) ==
    IF SumFunction(prices) = 0
    THEN LET n == Cardinality(DOMAIN prices)
         IN  [i \in DOMAIN prices |-> (setPrice \div n) +
                 (IF Cardinality({j \in DOMAIN prices : j < i}) < setPrice % n THEN 1 ELSE 0)]
    ELSE LET floor == Floors(setPrice, prices)
             lucky == FirstOf(setPrice, prices, DOMAIN prices, setPrice - SumFunction(floor))
         IN  [i \in DOMAIN prices |-> floor[i] + (IF i \in lucky THEN 1 ELSE 0)]

\* Units of the pieces `taken` of a set: shares of its price if it is taken
\* whole, else what each piece costs.
resolveSetSelection(setPrice, prices, taken) ==
    IF taken = DOMAIN prices THEN allocateSetPrice(setPrice, prices)
                             ELSE [i \in taken |-> prices[i]]

-----------------------------------------------------------------------------
(* Coupons *)

eligibleLines(coupon, lines) ==
    {i \in DOMAIN lines : /\ coupon.excludeDiscounted => ~lines[i].isDiscounted
                          /\ coupon.scope = {} \/ lines[i].labels \cap coupon.scope # {}}

\* Never more than the lines the coupon covers are worth together.
Discount(coupon, total) ==
    Min({IF coupon.type = "PERCENTAGE" THEN RoundOf(total * coupon.value, 10000) ELSE coupon.value,
         coupon.maxDiscount, total})

\* What a coupon takes off, Null if it cannot be used.
evaluateCoupon(coupon, lines) ==
    LET eligible == eligibleLines(coupon, lines)
        value    == [i \in eligible |-> LineTotal(lines[i])]
        discount == Discount(coupon, SumFunction(value))
        share    == allocateProportionally(discount, value)
    IN  IF Subtotal(lines) < coupon.minSubtotal \/ eligible = {} THEN Null
        ELSE IF coupon.type = "FREE_SHIPPING"
        THEN [discount |-> 0, allocation |-> [i \in DOMAIN lines |-> 0], freeShipping |-> TRUE]
        ELSE [discount |-> discount,
              allocation |-> [i \in DOMAIN lines |-> IF i \in eligible THEN share[i] ELSE 0],
              freeShipping |-> FALSE]

NoCoupon(lines) == [discount |-> 0, allocation |-> [i \in DOMAIN lines |-> 0], freeShipping |-> FALSE]

-----------------------------------------------------------------------------
(* Zones *)

matchesRegion(zone, address) == zone.regions \cap address.within # {}

\* The first of a set of zones, in the order of their positions.
First(zone, zs) == CHOOSE z \in zs : \A y \in zs : zone[z].position <= zone[y].position

resolveZone(zone, address) ==
    LET active    == {z \in DOMAIN zone : zone[z].isActive}
        inCountry == {z \in active : address.country \in zone[z].countries}
        named     == {z \in inCountry : matchesRegion(zone[z], address)}
        whole     == {z \in inCountry : zone[z].regions = {}}
        fallback  == {z \in active : zone[z].isDefault}
    IN  CASE named # {}    -> First(zone, named)
          [] named = {} /\ whole # {} -> First(zone, whole)
          [] named = {} /\ whole = {} /\ fallback # {} -> First(zone, fallback)
          [] OTHER         -> Null

-----------------------------------------------------------------------------
(* Methods *)

\* Bounds are inclusive below and exclusive above: bands share an edge.
Covers(band, weight, subtotal) ==
    /\ band.minWeight <= weight /\ weight < band.maxWeight
    /\ band.minSubtotal <= subtotal /\ subtotal < band.maxSubtotal

\* The first band that covers the parcel, else the flat rate.
resolveRate(method, weight, subtotal) ==
    LET bands == {i \in DOMAIN method.bands : Covers(method.bands[i], weight, subtotal)}
    IN  IF bands = {} THEN method.rate ELSE method.bands[Min(bands)].amount

\* p: the parcel, [subtotal after discount, weight, freeShipping].
methodApplies(method, p) ==
    /\ method.minSubtotal <= p.subtotal /\ p.subtotal <= method.maxSubtotal
    /\ p.weight <= method.maxWeight

priceMethod(method, p) ==
    LET waived == p.freeShipping \/ p.subtotal >= method.freeAbove
    IN  [cost   |-> IF waived THEN 0 ELSE resolveRate(method, p.weight, p.subtotal),
         waived |-> waived,
         codFee |-> IF method.isCod THEN method.codFee ELSE 0]

-----------------------------------------------------------------------------
(* Carriers *)

Cheaper(c, d) == c.rate < d.rate \/ (c.rate = d.rate /\ c.days < d.days)
Faster(c, d)  == c.days < d.days \/ (c.days = d.days /\ c.rate < d.rate)

\* The cheapest and the fastest of a route's couriers, once if they are one.
quoteRates(couriers) ==
    LET cheapest == CHOOSE c \in couriers : \A d \in couriers : ~Cheaper(d, c)
        fastest  == CHOOSE c \in couriers : \A d \in couriers : ~Faster(d, c)
    IN  [rule \in (IF cheapest = fastest THEN {"cheapest"} ELSE {"cheapest", "fastest"}) |->
            IF rule = "cheapest" THEN cheapest.rate ELSE fastest.rate]

\* What the carrier says of an address: Down, or the couriers that serve it.
Asked(couriers, address) ==
    IF ~address.pinned THEN Down ELSE IF address.country # India THEN {} ELSE couriers

Unserved(methods, couriers) ==
    couriers = {} /\ \E m \in methods : m.carrierRule # Null

\* A method that asks for it is priced by the carrier, if it answers.
applyCarrierRates(method, offer, couriers) ==
    IF method.carrierRule = Null \/ couriers \in {Down, {}} THEN offer
    ELSE LET rates == quoteRates(couriers)
             rate  == rates[IF method.carrierRule \in DOMAIN rates THEN method.carrierRule ELSE "cheapest"]
         IN  [offer EXCEPT !.cost = IF offer.waived THEN 0 ELSE rate]

Priced(method, p, couriers) == applyCarrierRates(method, priceMethod(method, p), couriers)

-----------------------------------------------------------------------------
(* Quotes.  method is the table of methods; couriers are the ones it knows. *)

ActiveIn(method, z) == {m \in DOMAIN method : method[m].zone = z /\ method[m].isActive}

\* Mutant: every method of the zone is offered.
quoteShippingAll(zone, method, address, p, couriers) ==
    LET z == resolveZone(zone, address)
    IN  [m \in {n \in ActiveIn(method, z) : z # Null /\ zone[z].isServiceable}
            |-> Priced(method[m], p, Asked(couriers, address))]

\* What the customer may choose from: [method -> offer].
quoteShipping(zone, method, address, p, couriers) ==
    LET z == resolveZone(zone, address)
        methods == ActiveIn(method, z)
    IN  [m \in {n \in methods : /\ z # Null /\ zone[z].isServiceable
                                /\ methodApplies(method[n], p)
                                /\ ~Unserved({method[k] : k \in methods}, Asked(couriers, address))}
            |-> Priced(method[m], p, Asked(couriers, address))]

\* What the product page says of a PIN code before anything is in the bag: no
\* method's bounds are asked, and a carrier that is down is taken to deliver.
\* Regions given by the name of a state are not known here; the instances have none.
serviceability(zone, method, address, couriers) ==
    LET z       == resolveZone(zone, address)
        reached == z # Null /\ zone[z].isServiceable /\ Asked(couriers, address) # {}
    IN  [serviceable |-> reached /\ ActiveIn(method, z) # {},
         cod         |-> reached /\ \E m \in ActiveIn(method, z) : method[m].isCod]

\* What the chosen method costs when the order is made, Null if it is refused.
priceChosenMethod(zone, method, m, address, p, couriers) ==
    LET z == resolveZone(zone, address)
    IN  IF /\ method[m].isActive /\ z = method[m].zone
           /\ zone[z].isActive /\ zone[z].isServiceable
           /\ methodApplies(method[m], p)
           /\ ~Unserved({method[m]}, Asked(couriers, address))
        THEN Priced(method[m], p, Asked(couriers, address)) ELSE Null

=============================================================================
