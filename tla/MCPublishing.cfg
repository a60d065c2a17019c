SPECIFICATION Spec
CONSTANTS
    None = None
    Slug = {a, b, c}
    Home = a
    Category = {c1, c2, c3}
    Top = c1
    Variant = {v1, v2}
    Customer = {u1, u2}
    Good = {g1, g2, g3}
    Value = {x, y}
    Address = {h1, h2, h3}
    Zone = {z1, z2}
    India = z1
    launch = launch
    sale = sale
    Config = {launch, sale}
    Terms <- CardPages
    BuiltIn = launch
    Amount = {2, 3, 6, 8}
    Rupee = 2
    Code = {k1, k2}
    Attempts = 2
    suit = suit
    kurta = kurta
    dress = dress
    women = women
    pret = pret
    suitS = suitS
    kurtaS = kurtaS
    kurtaM = kurtaM
    dressM = dressM
    small = small
    medium = medium
    red = red
    File = {f1, f2, f3}
    Garment <- Wares
    Shelf <- Departments
    Size <- Sizes
    Attribute <- Labels
    MaxTime = 1
    MaxRequests = 3
INVARIANTS
    LiveWithLeave
    NothingIsLost
    RecordsStand
    WindowIsTrue
PROPERTIES
    LaunchDateStands
    
CHECK_DEADLOCK FALSE
