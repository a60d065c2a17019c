-------------------------------- MODULE Books -------------------------------
(***************************************************************************)
(* Lists that have one of a kind: a customer's address book and the        *)
(* studio's shipping zones, each with a default, and a wishlist that holds *)
(* a product once (modules/addresses, shipping, wishlist).                 *)
(***************************************************************************)
EXTENDS Handlers

CONSTANTS
    Address,      \* of the one customer
    Zone,         \* with one shipping method each
    India         \* the zone that is the default at first

ASSUME BooksAssumption == India \in Zone

VARIABLES
    book,         \* [Address -> "absent", "plain" or "default"]
    zone,         \* [Zone -> "absent", "plain" or "default"]
    method,       \* [Zone -> "absent", "on" or "off"]
    used,         \* methods that an order names
    wish,         \* how many times the product is on the wishlist
    \* History.
    unticked      \* someone took the default from an address

addresses == <<book, unticked>>
zones     == <<zone, method, used>>

Rows(b)     == {a \in DOMAIN b : b[a] # "absent"}
Defaults(b) == {a \in DOMAIN b : b[a] = "default"}
Mark(isDefault) == IF isDefault THEN "default" ELSE "plain"

\* The first address is the default whatever was asked for.
CreateAddress(j, a, ticked) ==
    /\ book[a] = "absent"
    /\ Begin(j, [op |-> "address", address |-> a, new |-> TRUE,
                 to |-> Mark(ticked \/ Rows(book) = {}), cleared |-> {}])
    /\ UNCHANGED addresses

\* "keep": the form did not send the tick.
PatchAddress(j, a, to) ==
    /\ book[a] # "absent"
    /\ Begin(j, [op |-> "address", address |-> a, new |-> FALSE, to |-> to, cleared |-> {}])
    /\ UNCHANGED addresses

\* In the transaction: a row another transaction is about to insert is not seen.
ClearDefaults(j) ==
    /\ At(j, "address")
    /\ Goto(j, [job[j] EXCEPT !.op = "write_address",
                              !.cleared = IF job[j].to = "default" THEN Rows(book) ELSE {}])
    /\ UNCHANGED addresses

\* An address that has gone rolls the transaction back.
WriteAddress(j) ==
    /\ At(j, "write_address") /\ Goto(j, Idle)
    /\ LET a == job[j].address
           gone == ~job[j].new /\ book[a] = "absent"
       IN  /\ book' = IF gone THEN book
                      ELSE [b \in Address |->
                               CASE b = a -> IF job[j].to = "keep" THEN book[b] ELSE job[j].to
                                 [] b # a /\ b \in job[j].cleared /\ book[b] # "absent" -> "plain"
                                 [] OTHER -> book[b]]
           /\ unticked' = (unticked \/ (~gone /\ book[a] = "default" /\ job[j].to = "plain"))

DeleteAddress(j, a) ==
    /\ book[a] # "absent"
    /\ Begin(j, [op |-> "address_gone", address |-> a, was |-> book[a]])
    /\ UNCHANGED addresses

RemoveAddress(j) ==
    /\ At(j, "address_gone")
    /\ book' = [book EXCEPT ![job[j].address] = "absent"]
    /\ Goto(j, IF book[job[j].address] # "absent" /\ job[j].was = "default"
               THEN [op |-> "next_default"] ELSE Idle)
    /\ UNCHANGED unticked

\* The newest of the others becomes the default.  Which that is does not matter here.
FindNextDefault(j) ==
    /\ At(j, "next_default")
    /\ IF Rows(book) = {} THEN Goto(j, Idle)
       ELSE \E a \in Rows(book) : Goto(j, [op |-> "promote", address |-> a])
    /\ UNCHANGED addresses

PromoteAddress(j) ==
    /\ At(j, "promote") /\ Goto(j, Idle)
    /\ book' = [book EXCEPT ![job[j].address] = IF @ = "absent" THEN @ ELSE "default"]
    /\ UNCHANGED unticked

AddressesNext(j) ==
    \/ \E a \in Address, b \in BOOLEAN : CreateAddress(j, a, b)
    \/ \E a \in Address, to \in {"default", "plain", "keep"} : PatchAddress(j, a, to)
    \/ \E a \in Address : DeleteAddress(j, a)
    \/ ClearDefaults(j) \/ WriteAddress(j) \/ RemoveAddress(j) \/ FindNextDefault(j) \/ PromoteAddress(j)

-----------------------------------------------------------------------------
(* Shipping zones and their methods *)

\* The row first, then the others' flag.
CreateZone(j, z, isDefault) ==
    /\ zone[z] = "absent"
    /\ Begin(j, IF isDefault THEN [op |-> "clear_zones", zone |-> z] ELSE Idle)
    /\ zone' = [zone EXCEPT ![z] = Mark(isDefault)]
    /\ UNCHANGED <<method, used>>

PatchZone(j, z, isDefault) ==
    /\ zone[z] # "absent"
    /\ Begin(j, IF isDefault THEN [op |-> "clear_zones", zone |-> z] ELSE Idle)
    /\ zone' = [zone EXCEPT ![z] = Mark(isDefault)]
    /\ UNCHANGED <<method, used>>

clearOtherDefaults(j) ==
    /\ At(j, "clear_zones") /\ Goto(j, Idle)
    /\ zone' = [z \in Zone |-> IF z # job[j].zone /\ zone[z] # "absent" THEN "plain" ELSE zone[z]]
    /\ UNCHANGED <<method, used>>

\* What an order names is switched off, the rest goes.
DeleteZone(j, z) ==
    /\ zone[z] # "absent"
    /\ Begin(j, [op |-> IF z \in used THEN "zone_off" ELSE "zone_gone", zone |-> z])
    /\ UNCHANGED zones

SwitchOffMethods(j) ==
    /\ At(j, "zone_off") /\ Goto(j, Idle)
    /\ method' = [method EXCEPT ![job[j].zone] = IF @ = "absent" THEN @ ELSE "off"]
    /\ UNCHANGED <<zone, used>>

\* Its method goes with it.
RemoveZone(j) ==
    /\ At(j, "zone_gone") /\ Goto(j, Idle)
    /\ zone' = [zone EXCEPT ![job[j].zone] = "absent"]
    /\ method' = [method EXCEPT ![job[j].zone] = "absent"]
    /\ UNCHANGED used

\* Bound: one that an order has named is not made anew.
CreateMethod(j, z) ==
    /\ zone[z] # "absent" /\ method[z] = "absent" /\ z \notin used
    /\ Begin(j, [op |-> "method", zone |-> z, was |-> "absent", to |-> "on"])
    /\ UNCHANGED zones

PatchMethod(j, z, to) ==
    /\ method[z] # "absent"
    /\ Begin(j, [op |-> "method", zone |-> z, was |-> method[z], to |-> to])
    /\ UNCHANGED zones

DeleteMethod(j, z) ==
    /\ method[z] # "absent"
    /\ Begin(j, [op |-> "method", zone |-> z, was |-> method[z],
                 to |-> IF z \in used THEN "off" ELSE "absent"])
    /\ UNCHANGED zones

\* A row, or a zone, that has gone by now fails it.
WriteMethod(j) ==
    /\ At(j, "method") /\ Goto(j, Idle)
    /\ method' = IF zone[job[j].zone] # "absent" /\ (method[job[j].zone] = "absent" <=> job[j].was = "absent")
                 THEN [method EXCEPT ![job[j].zone] = job[j].to] ELSE method
    /\ UNCHANGED <<zone, used>>

\* A customer chooses it (createOrder).
Deliver(z) ==
    /\ subject = "zones" /\ method[z] = "on" /\ z \notin used
    /\ used' = used \cup {z}
    /\ Beside("sale") /\ UNCHANGED <<zone, method>>

ZonesNext(j) ==
    \/ \E z \in Zone, b \in BOOLEAN : CreateZone(j, z, b) \/ PatchZone(j, z, b)
    \/ \E z \in Zone : DeleteZone(j, z) \/ CreateMethod(j, z) \/ DeleteMethod(j, z)
    \/ \E z \in Zone, to \in {"on", "off"} : PatchMethod(j, z, to)
    \/ clearOtherDefaults(j) \/ SwitchOffMethods(j) \/ RemoveZone(j) \/ WriteMethod(j)

-----------------------------------------------------------------------------
(* The wishlist: one customer, one product, no size *)

\* NULLs are distinct to the unique key: only the lookup keeps it to one.
Save(j) == wish = 0 /\ Begin(j, [op |-> "wish"]) /\ UNCHANGED wish

WriteWish(j) == At(j, "wish") /\ Goto(j, Idle) /\ wish' = wish + 1

RemoveWish(j) == wish > 0 /\ Begin(j, Idle) /\ wish' = wish - 1

Unsave(j) == Begin(j, Idle) /\ wish' = 0

WishlistNext(j) == Save(j) \/ WriteWish(j) \/ RemoveWish(j) \/ Unsave(j)

-----------------------------------------------------------------------------

\* A customer signs up with an empty book and wishlist.
NewCustomer == book = [a \in Address |-> "absent"] /\ unticked = FALSE /\ wish = 0

seedShipping ==
    /\ zone = [z \in Zone |-> Mark(z = India)]
    /\ method = [z \in Zone |-> "on"] /\ used = {}

=============================================================================
