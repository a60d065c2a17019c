SPECIFICATION QuotesSpec
CONSTANTS
    Null = Null
    Down = Down
    Unlimited = 1000
    lehenga = lehenga
    blouse = blouse
    dupatta = dupatta
    suit = suit
    look = look
    home = home
    rest = rest
    far = far
    studio = studio
    courier = courier
    express = express
    India = India
    Abroad = Abroad
    pin = pin
    Product <- TheProducts
    Pieces <- TheLook
    Look = look
    Coupons <- TheCoupons
    Zones <- TheZones
    Methods <- TheMethods
    Address <- TheAddresses
    Couriers <- TheCouriers
    Prices <- ThePrices
    Charges <- TheCharges
    Handler = {h1, h2}
    MaxRequests = 3
SYMMETRY Symmetry
CHECK_DEADLOCK FALSE
INVARIANTS
    ShownIsBilled
    OfferStands
    SharesAddUp
