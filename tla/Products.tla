------------------------------ MODULE Products ------------------------------
(***************************************************************************)
(* A product, its variants and its sets, as the studio edits them while    *)
(* the scheduler publishes and customers buy (modules/products,            *)
(* jobs/scheduler).                                                        *)
(***************************************************************************)
EXTENDS Handlers

CONSTANTS
    Variant      \* of the one product

ASSUME ProductsAssumption == Variant # {}

VARIABLES
    product,      \* the product, None when deleted
    variant,      \* [Variant -> "absent", "ACTIVE" or "INACTIVE"]
    sold          \* variants that are on an order

products == <<product, variant, sold>>

ProductStatus == {"DRAFT", "SCHEDULED", "ACTIVE", "INACTIVE", "ARCHIVED"}
Price   == 1 .. 2
Product == [status : ProductStatus, price : Price, compareAt : Price \cup {None},
            scheduled : Time \cup {None}, published : Time \cup {None}]

ASSUME ProductAssumption == None \notin Product

ProductPatch ==
    {[price |-> p] : p \in Price} \cup {[compareAt |-> p] : p \in Price \cup {None}}
    \cup {[status |-> "SCHEDULED", scheduled |-> MaxTime]}

IsOffer(r) == r.compareAt # None => r.compareAt > r.price

createHandler(j, r) ==
    /\ product = None /\ IsOffer(r)
    /\ Begin(j, Idle)
    /\ product' = [r EXCEPT !.scheduled = IF r.status = "SCHEDULED" THEN @ ELSE None,
                            !.published = IF r.status = "ACTIVE" THEN clock ELSE None]
    /\ \E v \in Variant : variant' = [w \in Variant |-> IF w = v THEN "ACTIVE" ELSE "absent"]
    /\ sold' = {}

\* A price sent alone is compared with the one stored.
updateHandler(j, patch) ==
    /\ product # None /\ IsOffer(Merge(patch, product))
    /\ Begin(j, [op |-> "product", patch |-> patch, first |-> product.published = None])
    /\ UNCHANGED products

\* A status alone; a date it was once scheduled for stays.
publishHandler(j, status) ==
    /\ product # None
    /\ Begin(j, [op |-> "product", patch |-> [status |-> status], first |-> product.published = None])
    /\ UNCHANGED products

WriteProduct(j) ==
    /\ At(j, "product") /\ Goto(j, Idle)
    /\ product' = IF product = None THEN None
                  ELSE LET patch == job[j].patch
                           goes  == "status" \in DOMAIN patch /\ patch.status = "ACTIVE" /\ job[j].first
                       IN  [Merge(patch, product) EXCEPT !.published = IF goes THEN clock ELSE @]
    /\ UNCHANGED <<variant, sold>>

\* What was sold is archived; the rest goes, variants and all.
deleteHandler(j) ==
    /\ product # None
    /\ Begin(j, [op |-> IF sold # {} THEN "archive" ELSE "delete"])
    /\ UNCHANGED products

ArchiveProduct(j) ==
    /\ At(j, "archive") /\ Goto(j, Idle)
    /\ product' = IF product = None THEN None ELSE [product EXCEPT !.status = "ARCHIVED"]
    /\ UNCHANGED <<variant, sold>>

DeleteProduct(j) ==
    /\ At(j, "delete") /\ Goto(j, Idle)
    /\ product' = None /\ variant' = [v \in Variant |-> "absent"]
    /\ UNCHANGED sold

createVariantHandler(j, v) ==
    /\ product # None /\ variant[v] = "absent" /\ v \notin sold
    /\ Begin(j, [op |-> "new_variant", variant |-> v])
    /\ UNCHANGED products

AddVariant(j) ==
    /\ At(j, "new_variant") /\ Goto(j, Idle)
    /\ variant' = IF product = None THEN variant ELSE [variant EXCEPT ![job[j].variant] = "ACTIVE"]
    /\ UNCHANGED <<product, sold>>

updateVariantHandler(j, v, status) ==
    /\ product # None /\ variant[v] # "absent"
    /\ Begin(j, Idle)
    /\ variant' = [variant EXCEPT ![v] = status]
    /\ UNCHANGED <<product, sold>>

\* The last one stays; one that was sold is switched off.
deleteVariantHandler(j, v) ==
    /\ product # None /\ variant[v] # "absent"
    /\ Cardinality({w \in Variant : variant[w] # "absent"}) > 1
    /\ Begin(j, [op |-> "variant", variant |-> v,
                            to |-> IF v \in sold THEN "INACTIVE" ELSE "absent"])
    /\ UNCHANGED products

WriteVariant(j) ==
    /\ At(j, "variant") /\ Goto(j, Idle)
    /\ variant' = [variant EXCEPT ![job[j].variant] = IF @ = "absent" THEN @ ELSE job[j].to]
    /\ UNCHANGED <<product, sold>>

\* A customer buys one (createOrder reads what is on sale).
Sell(v) ==
    /\ subject = "product" /\ product # None /\ product.status = "ACTIVE"
    /\ variant[v] = "ACTIVE" /\ v \notin sold
    /\ sold' = sold \cup {v}
    /\ Beside("sale") /\ UNCHANGED <<product, variant>>

\* Three statements, each once a minute and at boot.
publishDueProducts ==
    /\ Due(product) /\ product' = Published(product, "ACTIVE")
    /\ Beside("scheduler") /\ UNCHANGED <<variant, sold>>

seedProducts ==
    /\ product = [status |-> "ACTIVE", price |-> 1, compareAt |-> 2, scheduled |-> None, published |-> 0]
    /\ variant = [v \in Variant |-> "ACTIVE"] /\ sold = {}

ProductsNext(j) ==
    \/ \E s \in ProductStatus, p \in Price, c \in Price \cup {None}, t \in Time \cup {None} :
          createHandler(j, [status |-> s, price |-> p, compareAt |-> c, scheduled |-> t, published |-> None])
    \/ \E patch \in ProductPatch : updateHandler(j, patch)
    \/ \E s \in ProductStatus \ {"INACTIVE"} : publishHandler(j, s)
    \/ WriteProduct(j) \/ deleteHandler(j) \/ ArchiveProduct(j) \/ DeleteProduct(j)
    \/ \E v \in Variant : createVariantHandler(j, v) \/ deleteVariantHandler(j, v)
    \/ \E v \in Variant, s \in {"ACTIVE", "INACTIVE"} : updateVariantHandler(j, v, s)
    \/ AddVariant(j) \/ WriteVariant(j)

=============================================================================
