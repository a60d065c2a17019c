----------------------------- MODULE Publishing -----------------------------
(***************************************************************************)
(* What the studio and the customers keep: the showcase, pages, products,  *)
(* sets, shelves, books and settings, edited by two requests at a time     *)
(* while the scheduler (jobs/scheduler) publishes what is due, customers   *)
(* buy and the process restarts; and what the storefront shows of it.      *)
(***************************************************************************)
EXTENDS Showcase, Pages, Products, Sets, Shelves, Books, Settings, Storefront, Images

Subject == {"showcase", "page", "product", "sets", "attributes", "categories", "collection",
            "rating", "addresses", "zones", "wishlist", "settings", "storefront", "images"}

vars == <<process, item, pages, products, sets, attributes, parent, collection, review, ratingCount,
          addresses, zones, wish, settings, storefront, images>>

Others(s) ==
    /\ s # "showcase"   => UNCHANGED item
    /\ s # "page"       => UNCHANGED pages
    /\ s # "product"    => UNCHANGED products
    /\ s # "sets"       => UNCHANGED sets
    /\ s # "attributes" => UNCHANGED attributes
    /\ s # "categories" => UNCHANGED parent
    /\ s # "collection" => UNCHANGED collection
    /\ s # "rating"     => UNCHANGED <<review, ratingCount>>
    /\ s # "addresses"  => UNCHANGED addresses
    /\ s # "zones"      => UNCHANGED zones
    /\ s # "wishlist"   => UNCHANGED wish
    /\ s # "settings"   => UNCHANGED settings
    /\ s # "storefront" => UNCHANGED storefront
    /\ s # "images"     => UNCHANGED images

Init ==
    /\ subject \in Subject
    /\ job = [j \in Job |-> Idle] /\ served = 0 /\ clock = 0 /\ met = {}
    /\ seedShowcase /\ seedPages /\ seedProducts /\ seedAttributes /\ seedCategories /\ seedShipping /\ seedSettings
    /\ seedStorefront /\ seedImages
    /\ saved = 0 /\ lived = {} /\ byHand = FALSE
    /\ collection = None
    /\ review = [c \in Customer |-> None] /\ ratingCount = 0
    /\ NewCustomer

\* A request takes a step.
Request(j) ==
    /\ Others(subject)
    /\ \/ subject = "showcase"   /\ ShowcaseNext(j)
       \/ subject = "page"       /\ PagesNext(j)
       \/ subject = "product"    /\ ProductsNext(j)
       \/ subject = "sets"       /\ SetsNext(j)
       \/ subject = "attributes" /\ AttributesNext(j)
       \/ subject = "categories" /\ CategoriesNext(j)
       \/ subject = "collection" /\ CollectionsNext(j)
       \/ subject = "rating"     /\ RatingsNext(j)
       \/ subject = "addresses"  /\ AddressesNext(j)
       \/ subject = "zones"      /\ ZonesNext(j)
       \/ subject = "wishlist"   /\ WishlistNext(j)
       \/ subject = "settings"   /\ SettingsNext(j)
       \/ subject = "storefront" /\ StorefrontNext(j)
       \/ subject = "images"     /\ ImagesNext(j)

\* A customer places an order.
Order == (\E v \in Variant : Sell(v) /\ Others("product")) \/ (\E z \in Zone : Deliver(z) /\ Others("zones"))

\* The scheduler's three statements, each once a minute and at boot.
DueProducts == publishDueProducts /\ Others("product")
DuePages    == publishDuePages /\ Others("page")
DueShowcase == publishDueShowcase /\ Others("showcase")
publishDueContent == DueProducts \/ DuePages \/ DueShowcase

Restart == Stop /\ Others("none")
Boot    == ensureContactSettings /\ Others("settings")
Pass    == Tick /\ Others("none")

Next == (\E j \in Job : Request(j)) \/ Order \/ publishDueContent \/ Restart \/ Boot \/ Pass

\* The interval fires for as long as the process runs, and at every boot.
Fairness == WF_vars(DueProducts) /\ WF_vars(DuePages) /\ WF_vars(DueShowcase)

Spec == Init /\ [][Next]_vars /\ Fairness

-----------------------------------------------------------------------------
(* Properties *)

TypeOK ==
    /\ item \in Item \cup {None} /\ page \in Page \cup {None} /\ product \in Product \cup {None}
    /\ collection \in Collection \cup {None}
    /\ variant \in [Variant -> {"absent", "ACTIVE", "INACTIVE"}] /\ sold \subseteq Variant
    /\ parent \in [Category -> Category \cup {None, "absent"}]
    /\ review \in [Customer -> {None, "PENDING", "APPROVED", "REJECTED"}]
    /\ piece \in [Good -> SUBSET Good] /\ parted \subseteq Good
    /\ valued \subseteq Value /\ {has, given} \subseteq [Good -> SUBSET Value]
    /\ book \in [Address -> {"absent", "plain", "default"}]
    /\ zone \in [Zone -> {"absent", "plain", "default"}]
    /\ method \in [Zone -> {"absent", "on", "off"}] /\ used \subseteq Zone
    /\ wish \in Nat /\ subject \in Subject
    /\ \A k \in Key : setting[k] \in Text(k) \cup {"absent"}
    /\ image \in [File -> Nat \cup {None}] /\ stored \subseteq File /\ arranged \in Seq(DOMAIN Garment)
    /\ met \subseteq {"request", "scheduler", "sale", "boot", "failure"} /\ clock \in Time

\* Nobody's face is on the wall, or due to be, without their leave and a poster,
\* whatever the scheduler does between a handler's reading and its writing,
\* unless two edits of the item crossed (updateShowcaseItem, publishDueContent).
ShownWithLeave ==
    "request" \notin met =>
        /\ \A i \in listPublicShowcase : i.consent /\ i.poster
        /\ item # None /\ item.status = "SCHEDULED" => item.consent /\ item.poster

LiveWithLeave == TypeOK /\ ShownWithLeave

\* Every version a page has had can be restored, and every address it has had
\* leads to it, whatever the order of renames, saves and restores: unless two
\* saves crossed, a statement failed, or someone rewrote a redirect.
NothingIsLost ==
    page # None /\ Alone =>
        \A v \in lived :
            /\ v.body = page.body \/ \E i \in 1 .. Len(revision) : revision[i] = v.body
            /\ ~byHand => page.slug \in Reach(v.slug)

\* The rest of what the shop keeps, where requests do not cross: no category is
\* above itself; a product keeps a variant, and what was sold is still there; a
\* price struck out is above the price asked; the rating is that of the reviews;
\* no piece of a set is sold in parts; a variant has the values it was given; an
\* address book has one default, unless someone took it away, and the zones have
\* at most one; a method an order names is still there; the wishlist holds a
\* product once.  And whatever the settings hold, a gift card is sold as its page
\* was shown, what staff saved can be read (Settings), and no picture lacks its
\* file (Images).
TreeStands    == \A c \in Filed : parent[c] \in Category => c \notin Ancestors(parent[c])
ProductStands == product # None => IsOffer(product) /\ \E v \in Variant : variant[v] # "absent"
SoldStands    == "sale" \notin met => /\ \A v \in sold : product # None /\ variant[v] # "absent"
                                     /\ \A z \in used : method[z] # "absent"
RatingStands  == ratingCount = Approved(review)
SetsStand     == (\A g \in Good : piece[g] \cap parted = {}) /\ has = given
BooksStand    == /\ Cardinality(Defaults(book)) <= 1
                 /\ Rows(book) # {} /\ ~unticked => Defaults(book) # {}
                 /\ Cardinality(Defaults(zone)) <= 1
                 /\ wish <= 1

RecordsStand ==
    /\ SoldAsShown /\ Understood /\ PicturesStand
    /\ Alone => TreeStands /\ ProductStands /\ SoldStands /\ RatingStands /\ SetsStand /\ BooksStand

\* The day a collection launched, and the day a page did while it stays up,
\* never change, and what has launched is never deleted (a collection), unless
\* the request met another or the scheduler on its way.
LaunchDay ==
    met' \cap {"request", "scheduler"} = {} =>
        /\ collection # None /\ collection.published # None =>
               collection' # None /\ collection'.published = collection.published
        /\ page # None /\ page.status = "PUBLISHED" /\ page' # None /\ page'.status = "PUBLISHED" =>
               page'.published = page.published
LaunchDateStands == [][LaunchDay]_vars

\* What is due does not wait for ever, whatever happens to the process: it goes
\* live, or someone takes it off the schedule (publishDueContent).
DueGoesLive ==
    /\ Due(product) ~> ~Due(product)
    /\ Due(page) ~> ~Due(page)
    /\ (Due(item) /\ item.consent) ~> ~(Due(item) /\ item.consent)

=============================================================================
