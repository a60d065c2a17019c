----------------------------- MODULE Storefront -----------------------------
(***************************************************************************)
(* What a customer sees of the catalogue, computed from one database by    *)
(* separate queries: the list and its filters, the panel that offers the   *)
(* filters, the card and the page of a product (modules/products:          *)
(* product.service, product.serializer), while the studio takes products   *)
(* and sizes off sale, features and arranges them, and sizes sell out.     *)
(* Search text and ratings filter like a price and are left out.           *)
(***************************************************************************)
EXTENDS Handlers, FiniteSetsExt

CONSTANTS
    Garment,      \* [products -> [category, price, published, pieces, parts]]; parts
                  \* are the prices of its set options
    Shelf,        \* [their categories -> the category above, or None]
    Size,         \* [variants -> [of, values]]
    Attribute     \* [attribute values -> attribute]

ASSUME StorefrontAssumption ==
    /\ IsFiniteSet(DOMAIN Garment) /\ IsFiniteSet(DOMAIN Size)
    /\ \A g \in DOMAIN Garment : /\ Garment[g].category \in DOMAIN Shelf
                                 /\ Garment[g].pieces \subseteq DOMAIN Garment \ {g}
                                 /\ {Garment[g].price} \cup Garment[g].parts \subseteq Nat
                                 /\ IsFiniteSet(Garment[g].parts)
    /\ \A v \in DOMAIN Size : Size[v].of \in DOMAIN Garment /\ Size[v].values \subseteq DOMAIN Attribute

VARIABLES
    ware,         \* [products -> [live, featured, position]]; live: ACTIVE
    size,         \* [variants -> [live, stock]]
    arranged      \* history: the last arrangement of a whole category, while it stands

storefront == <<ware, size, arranged>>

SizesOf(g)  == {v \in DOMAIN Size : Size[v].of = g /\ size[v].live}
SumStock(S) == SumFunctionOnSet([v \in DOMAIN Size |-> size[v].stock], S)

-----------------------------------------------------------------------------
(* The list *)

\* q: category, or None; least: the lowest price; inStock: "any", "yes" or "no";
\* chosen: the attribute values ticked.
Query(least) == [category : DOMAIN Shelf \cup {None}, least : least, inStock : {"any", "yes", "no"},
                 chosen : {{}}]

\* A category holds what is filed right beneath it too.
Under(c, category) == category \in {None, c, Shelf[c]}

\* Of each attribute that has a value ticked, a size on sale carries one.
Carries(g, chosen) ==
    \A a \in {Attribute[o] : o \in chosen} :
        \E v \in SizesOf(g) : \E o \in Size[v].values \cap chosen : Attribute[o] = a

buildWhere(q) ==
    {g \in DOMAIN Garment :
        /\ Under(Garment[g].category, q.category)
        /\ Garment[g].price >= q.least
        /\ q.inStock = "yes" => \E v \in SizesOf(g) : size[v].stock > 0
        /\ q.inStock = "no"  => \A v \in DOMAIN Size : Size[v].of = g => size[v].stock <= 0
        /\ Carries(g, q.chosen)}

listPublicProducts(q) == {g \in buildWhere(q) : ware[g].live}

\* The order of the list, of two products of one category: featured first, then as
\* arranged, then the newest.
Before(g, h) ==
    LET a == ware[g]
        b == ware[h]
    IN  \/ a.featured /\ ~b.featured
        \/ a.featured = b.featured /\ a.position < b.position
        \/ /\ a.featured = b.featured /\ a.position = b.position
           /\ Garment[g].published > Garment[h].published

-----------------------------------------------------------------------------
(* The panel *)

\* Mutant: sizes taken off sale are counted.
listFacetsAll(q) ==
    LET where    == listPublicProducts([q EXCEPT !.chosen = {}])
        count(o) == Cardinality({v \in DOMAIN Size : Size[v].of \in where /\ o \in Size[v].values})
    IN  [values     |-> [o \in {p \in DOMAIN Attribute : count(p) > 0} |-> count(o)],
         price      |-> IF where = {} THEN <<0, 0>>
                        ELSE LET prices == {Garment[g].price : g \in where} IN <<Min(prices), Max(prices)>>,
         categories |-> {Garment[g].category : g \in {h \in DOMAIN Garment : ware[h].live}}]

\* What may be ticked next, counted as if nothing were ticked; categories are
\* counted over the whole shop.
listFacets(q) ==
    LET where    == listPublicProducts([q EXCEPT !.chosen = {}])
        count(o) == Cardinality({v \in DOMAIN Size : /\ Size[v].of \in where /\ size[v].live
                                                     /\ o \in Size[v].values})
    IN  [values     |-> [o \in {p \in DOMAIN Attribute : count(p) > 0} |-> count(o)],
         price      |-> IF where = {} THEN <<0, 0>>
                        ELSE LET prices == {Garment[g].price : g \in where} IN <<Min(prices), Max(prices)>>,
         categories |-> {Garment[g].category : g \in {h \in DOMAIN Garment : ware[h].live}}]

-----------------------------------------------------------------------------
(* The card and the page *)

\* fromPrice is None for what is bought whole and alone.
toProductListItem(g) ==
    LET r     == Garment[g]
        stock == SumStock(SizesOf(g))
    IN  [fromPrice |-> IF r.parts # {} THEN Min(r.parts)
                       ELSE IF r.pieces # {}
                       THEN Min({Garment[p].price : p \in {q \in r.pieces : ware[q].live}} \cup {r.price})
                       ELSE None,
         totalStock |-> stock, inStock |-> stock > 0]

toProductDetail(g) ==
    LET variants == SizesOf(g)
    IN  [pieces     |-> {[price |-> Garment[p].price, available |-> ware[p].live] : p \in Garment[g].pieces},
         setOptions |-> Garment[g].parts,
         price      |-> Garment[g].price,
         totalStock |-> SumStock(variants),
         inStock    |-> \E v \in variants : size[v].stock > 0]

-----------------------------------------------------------------------------
(* The studio, and sales *)

SaveProduct(j, g, live, featured) ==
    /\ Begin(j, Idle)
    /\ ware' = [ware EXCEPT ![g].live = live, ![g].featured = featured]
    /\ ware' # ware /\ UNCHANGED <<size, arranged>>

SaveVariant(j, v) ==
    /\ Begin(j, Idle)
    /\ size' = [size EXCEPT ![v].live = ~@]
    /\ UNCHANGED <<ware, arranged>>

\* Bound: every size starts with one in stock.
SellOut(j, v) ==
    /\ size[v].stock > 0 /\ Begin(j, Idle)
    /\ size' = [size EXCEPT ![v].stock = 0]
    /\ UNCHANGED <<ware, arranged>>

\* PUT /admin/categories/:id/products/order: positions are places in the list sent,
\* which names products of the category, each once, in one transaction.
reorderHandler(j, c, list) ==
    LET filed == {g \in DOMAIN Garment : Garment[g].category = c}
        named == {list[i] : i \in DOMAIN list}
    IN  /\ Len(list) > 0 /\ Cardinality(named) = Len(list) /\ named \subseteq filed
        /\ Begin(j, Idle)
        /\ ware' = [g \in DOMAIN ware |->
                       IF g \in named
                       THEN [ware[g] EXCEPT !.position = (CHOOSE i \in DOMAIN list : list[i] = g) - 1]
                       ELSE ware[g]]
        /\ arranged' = IF named = filed THEN list
                       ELSE IF named \cap {arranged[i] : i \in DOMAIN arranged} = {} THEN arranged ELSE <<>>
        /\ UNCHANGED size

seedStorefront ==
    /\ ware = [g \in DOMAIN Garment |-> [live |-> TRUE, featured |-> FALSE, position |-> 0]]
    /\ size = [v \in DOMAIN Size |-> [live |-> TRUE, stock |-> 1]]
    /\ arranged = <<>>

StorefrontNext(j) ==
    \/ \E g \in DOMAIN Garment, l, f \in BOOLEAN : SaveProduct(j, g, l, f)
    \/ \E v \in DOMAIN Size : SaveVariant(j, v) \/ SellOut(j, v)
    \/ \E c \in DOMAIN Shelf : \E n \in 1 .. 2 : \E list \in [1 .. n -> DOMAIN Garment] : reorderHandler(j, c, list)

-----------------------------------------------------------------------------
(* Properties *)

\* Whatever the panel offers finds something, and as many sizes as it says; whatever
\* a listed product carries is offered; and the price range and the categories
\* hold what is listed.
PanelLeadsSomewhere ==
    \A q \in Query({0, 4}) :
        LET panel == listFacets(q)
            found(o) == listPublicProducts([q EXCEPT !.chosen = {o}])
        IN  /\ \A o \in DOMAIN panel.values :
                  panel.values[o] = Cardinality({v \in UNION {SizesOf(g) : g \in found(o)} : o \in Size[v].values})
            /\ \A g \in listPublicProducts(q) :
                  /\ panel.price[1] <= Garment[g].price /\ Garment[g].price <= panel.price[2]
                  /\ Garment[g].category \in panel.categories
                  /\ UNION {Size[v].values : v \in SizesOf(g)} \subseteq DOMAIN panel.values

\* The list, the card and the page agree on what is in stock, and something the
\* page sells costs what the card says it starts from.
CardsAgree ==
    \A g \in DOMAIN Garment : ware[g].live =>
        LET card == toProductListItem(g)
            page == toProductDetail(g)
            listed(s) == g \in listPublicProducts([category |-> None, least |-> 0, inStock |-> s, chosen |-> {}])
        IN  /\ card.inStock = listed("yes") /\ (card.inStock => ~listed("no"))
            /\ page.inStock = card.inStock /\ page.totalStock = card.totalStock
            /\ card.fromPrice # None =>
                  \/ card.fromPrice \in page.setOptions \cup {page.price}
                  \/ \E p \in page.pieces : p.available /\ p.price = card.fromPrice

\* "What is arranged here is what is seen there", among products equally featured.
SeenAsArranged ==
    \A i, k \in DOMAIN arranged :
        i < k /\ ware[arranged[i]].featured = ware[arranged[k]].featured => Before(arranged[i], arranged[k])

WindowIsTrue == subject = "storefront" => PanelLeadsSomewhere /\ CardsAgree /\ SeenAsArranged

=============================================================================
