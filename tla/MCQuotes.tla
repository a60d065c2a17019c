------------------------------ MODULE MCQuotes ------------------------------
(***************************************************************************)
(* Small instances of Quotes for TLC.                                      *)
(***************************************************************************)
EXTENDS Quotes, TLC

CONSTANTS lehenga, blouse, dupatta, suit, look, home, rest, far, studio, courier, express, Abroad, pin

\* Three garments and the look they make, and a suit sold in parts; the
\* lehenga is marked down.
TheProducts ==
    lehenga :> [price |-> 5, compareAt |-> 6, labels |-> {"bridal"}, weight |-> Null, parts |-> {}] @@
    blouse  :> [price |-> 3, compareAt |-> Null, labels |-> {"blouses"}, weight |-> 1, parts |-> {}] @@
    dupatta :> [price |-> 0, compareAt |-> Null, labels |-> {}, weight |-> 0, parts |-> {}] @@
    suit    :> [price |-> 9, compareAt |-> Null, labels |-> {"bridal"}, weight |-> 3,
                parts |-> {[price |-> 4, weight |-> 1], [price |-> 8, weight |-> Null]}]
TheLook == <<lehenga, blouse, dupatta>>

\* Half off what is not marked down already, 3 off bridal wear, free delivery.
TheCoupons == {
    [type |-> "PERCENTAGE", value |-> 5000, maxDiscount |-> Unlimited, minSubtotal |-> 0,
     excludeDiscounted |-> FALSE, scope |-> {}],
    [type |-> "FIXED_AMOUNT", value |-> 6, maxDiscount |-> Unlimited, minSubtotal |-> 4,
     excludeDiscounted |-> TRUE, scope |-> {"bridal", "blouses"}],
    [type |-> "FREE_SHIPPING", value |-> 0, maxDiscount |-> Unlimited, minSubtotal |-> 0,
     excludeDiscounted |-> FALSE, scope |-> {}]}

Zone(position, countries, regions, isDefault) ==
    [position |-> position, countries |-> countries, regions |-> regions, isDefault |-> isDefault,
     isActive |-> TRUE, isServiceable |-> TRUE]
TheZones == home :> Zone(1, {India}, {pin}, FALSE) @@ rest :> Zone(2, {India}, {}, FALSE) @@ far :> Zone(3, {Abroad}, {pin}, TRUE)

Band(low, high, amount) ==
    [minWeight |-> low, maxWeight |-> high, minSubtotal |-> 0, maxSubtotal |-> Unlimited, amount |-> amount]
TheMethods ==
    studio :> [zone |-> home, isActive |-> TRUE, rate |-> 2, freeAbove |-> 8, minSubtotal |-> 0,
               maxSubtotal |-> Unlimited, maxWeight |-> Unlimited, isCod |-> FALSE, codFee |-> 0,
               carrierRule |-> Null, bands |-> <<Band(0, 2, 1), Band(2, 4, 3)>>] @@
    courier :> [zone |-> home, isActive |-> TRUE, rate |-> 0, freeAbove |-> Unlimited, minSubtotal |-> 1,
               maxSubtotal |-> 8, maxWeight |-> 3, isCod |-> TRUE, codFee |-> 1,
               carrierRule |-> "fastest", bands |-> <<>>] @@
    express :> [zone |-> far, isActive |-> TRUE, rate |-> 4, freeAbove |-> Unlimited, minSubtotal |-> 0,
               maxSubtotal |-> Unlimited, maxWeight |-> Unlimited, isCod |-> FALSE, codFee |-> 0,
               carrierRule |-> "cheapest", bands |-> <<>>]

TheAddresses == {[country |-> India, within |-> {pin}, pinned |-> TRUE],
                 [country |-> Abroad, within |-> {}, pinned |-> FALSE]}

Van  == [rate |-> 2, days |-> 3]
Bike == [rate |-> 3, days |-> 1]
TheCouriers == {{}, {Van, Bike}}
ThePrices   == {7}
TheCharges  == [taxPercent |-> 12, shippingFee |-> 2, freeShippingThreshold |-> 10, weightGrams |-> 2]
Symmetry    == Permutations(Handler)

=============================================================================
