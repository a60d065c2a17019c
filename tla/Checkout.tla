----------------------------- MODULE Checkout ------------------------------
(***************************************************************************)
(* From the bag to the order (modules/cart, createOrder and                *)
(* createOrderIdempotent of modules/orders, modules/coupons): lines of     *)
(* guests and customers, the merge at sign-in, one coupon with its limits, *)
(* and checkouts made safe to retry under a key.                           *)
(*                                                                         *)
(* createOrder runs SERIALIZABLE on a snapshot: it aborts when a row it    *)
(* writes (its lines, its cart, the coupon) was written since.  Everything *)
(* else runs READ COMMITTED and writes what follows from an earlier read.  *)
(* Prices are Pricing's business and stock is Orders'; here the stock a    *)
(* handler sees does not change.                                           *)
(***************************************************************************)
EXTENDS Integers, Sequences, FiniteSetsExt, SequencesExt

CONSTANTS
    Customer,      \* signed-in customers
    Article,       \* what a line can be: [variant, part], part Whole if not in parts
    Groups,        \* the sets of articles bought as one: parts, or pieces of a set
    Whole,         \* no part
    Stock,         \* [variants -> Nat]
    Key,           \* idempotency keys
    UsageLimit,    \* the coupon's usageLimit
    PerUserLimit,  \* and its perUserLimit
    Handler,       \* requests in flight at once
    MaxRequests,   \* bound on the requests of a behaviour
    NoKey          \* a checkout without a key

ASSUME CheckoutAssumption ==
    /\ Stock \in [DOMAIN Stock -> Nat]
    /\ \A a \in Article : a = [variant |-> a.variant, part |-> a.part] /\ a.variant \in DOMAIN Stock
    /\ IsFiniteSet(Article)
    /\ Groups \subseteq SUBSET Article
    /\ UsageLimit \in Nat \ {0} /\ PerUserLimit \in Nat \ {0}
    /\ MaxRequests \in Nat
    /\ NoKey \notin Key \cup Customer
    /\ Customer \cap Nat = {}    \* a cart is a customer's or a numbered guest cart

VARIABLES
    \* The database.
    line,       \* cart_items, oldest first: a sequence of rows, live or deleted
    guest,      \* the number of the guest cart the browser's cookie names
    coded,      \* customers whose cart has the coupon's code on it
    coupon,     \* the coupon row: status and usageCount
    order,      \* orders, oldest first
    checkout,   \* [Key -> checkout_sessions row, or NoSession]
    \* The process.
    request,    \* [Handler -> what it is about to do]
    served,     \* how many requests have begun
    \* History.
    put,        \* [Article -> Nat]: units customers have asked for
    bought,     \* [Article -> Nat]: units orders were placed for
    overtaken   \* keys two checkouts may be working under

vars == <<line, guest, coded, coupon, order, checkout, request, served, put, bought, overtaken>>

bagVars   == <<line, guest, coded, put>>
orderVars == <<coupon, order, checkout, bought, overtaken>>

-----------------------------------------------------------------------------
(* Rows and requests *)

Units(v) == {a \in Article : a.variant = v}

NoSession == [status |-> "none", owner |-> NoKey, order |-> 0, fresh |-> FALSE]
Idle      == [op |-> "idle"]

Lines(k) == {i \in DOMAIN line : line[i].live /\ line[i].cart = k}

Goto(h, next) == request' = [request EXCEPT ![h] = next]
Begin(h, next) ==
    /\ request[h] = Idle
    /\ served < MaxRequests
    /\ served' = served + 1
    /\ Goto(h, next)
At(h, op) == request[h].op = op /\ UNCHANGED served

\* h is at `next` after writing rows; checkouts whose snapshot has one of them
\* will abort.
Write(h, next, lines, carts, theCoupon) ==
    request' = [g \in Handler |->
        IF g = h THEN next
        ELSE IF /\ request[g].op \in {"evaluate", "commit"}
                /\ \/ lines \cap DOMAIN request[g].bag # {}
                   \/ request[g].customer \in carts
                   \/ theCoupon /\ request[g].code
             THEN [request[g] EXCEPT !.stale = TRUE]
             ELSE request[g]]

\* Every handler of the bag answers with the bag as it then is.
Answer(k) == [op |-> "show", cart |-> k]

Redeemed(c) == {o \in DOMAIN order : order[o].redeemed /\ (c = NoKey \/ order[o].customer = c)}

\* evaluateCoupon, for what it is worth see Pricing.
Usable(c) ==
    /\ coupon.status = "ACTIVE"
    /\ coupon.usageCount < UsageLimit
    /\ Cardinality(Redeemed(c)) < PerUserLimit

-----------------------------------------------------------------------------
(* The bag *)

\* A signed-in customer always resolves to their own cart.
Resolve == Customer \cup {guest}

addItem(h, k, a) ==
    /\ k \in Resolve
    /\ LET same == {i \in Lines(k) : line[i].article = a /\ line[i].group = 0}
       IN  \E i \in (IF same = {} THEN {0} ELSE same) :
             LET desired == 1 + (IF i = 0 THEN 0 ELSE line[i].qty)
             IN  /\ desired <= Stock[a.variant]
                 /\ Begin(h, [op |-> "add", cart |-> k, article |-> a, line |-> i, qty |-> desired])
    /\ UNCHANGED <<bagVars, orderVars>>

Row(k, a, qty, group) == [cart |-> k, article |-> a, qty |-> qty, group |-> group, live |-> TRUE]

\* The quantity written is the one computed from the read.
AddWrite(h) ==
    /\ At(h, "add")
    /\ LET r == request[h]
           written == IF r.line = 0 THEN r.cart \in Resolve ELSE line[r.line].live
       IN  /\ line' = IF ~written THEN line
                      ELSE IF r.line = 0 THEN Append(line, Row(r.cart, r.article, 1, 0))
                      ELSE [line EXCEPT ![r.line].qty = r.qty]
           /\ put' = IF written THEN [put EXCEPT ![r.article] = @ + 1] ELSE put
           /\ Write(h, IF written THEN Answer(r.cart) ELSE Idle, {r.line}, {}, FALSE)
    /\ UNCHANGED <<guest, coded, orderVars>>

\* POST /cart/parts and /cart/sets: one line each, tied by a group.
addGroup(h, k, G) ==
    /\ k \in Resolve
    /\ \A a \in G : Cardinality(G \cap Units(a.variant)) <= Stock[a.variant]
    /\ line' = line \o SetToSeq({Row(k, a, 1, Len(line) + 1) : a \in G})
    /\ put' = [a \in Article |-> put[a] + (IF a \in G THEN 1 ELSE 0)]
    /\ Begin(h, Answer(k))
    /\ UNCHANGED <<guest, coded, orderVars>>

\* PATCH /cart/items/:itemId.
updateItem(h, i, quantity) ==
    /\ line[i].live /\ line[i].cart \in Resolve
    /\ quantity <= Stock[line[i].article.variant]
    /\ Begin(h, [op |-> "set", line |-> i, qty |-> quantity])
    /\ UNCHANGED <<bagVars, orderVars>>

\* DELETE /cart/items/:itemId, a piece of a set included.
removeItem(h, i) == updateItem(h, i, 0)

ItemWrite(h) ==
    /\ At(h, "set")
    /\ LET i == request[h].line
           quantity == request[h].qty
       IN  IF line[i].live
           THEN /\ line' = [line EXCEPT ![i].qty = quantity, ![i].live = quantity > 0]
                /\ put' = [put EXCEPT ![line[i].article] =
                              @ + (IF quantity > line[i].qty THEN quantity - line[i].qty ELSE 0)]
                /\ Write(h, Answer(line[i].cart), {i}, {}, FALSE)
           ELSE Goto(h, Idle) /\ UNCHANGED <<line, put>>
    /\ UNCHANGED <<guest, coded, orderVars>>

Without(lines) == [i \in DOMAIN line |-> [line[i] EXCEPT !.live = @ /\ i \notin lines]]

\* DELETE /cart/sets/:setGroupId, and DELETE /cart with every line.
RemoveLines(h, k, lines, carts, next) ==
    /\ lines # {} /\ line' = Without(lines)
    /\ coded' = coded \ carts
    /\ request[h] = Idle /\ served < MaxRequests /\ served' = served + 1
    /\ Write(h, next, lines, carts, FALSE)
    /\ UNCHANGED <<guest, put, orderVars>>

removeSet(h, k, g) == RemoveLines(h, k, {i \in Lines(k) : line[i].group = g}, {}, Answer(k))
clearCart(h, k)    == RemoveLines(h, k, Lines(k), {k}, Idle)

\* POST /cart/coupon.
applyCoupon(h, c) ==
    /\ Lines(c) # {} /\ Usable(c)
    /\ coded' = coded \cup {c}
    /\ request[h] = Idle /\ served < MaxRequests /\ served' = served + 1
    /\ Write(h, Answer(c), {}, {c}, FALSE)
    /\ UNCHANGED <<line, guest, put, orderVars>>

removeCoupon(h, c) ==
    /\ c \in coded /\ coded' = coded \ {c}
    /\ request[h] = Idle /\ served < MaxRequests /\ served' = served + 1
    /\ Write(h, Answer(c), {}, {c}, FALSE)
    /\ UNCHANGED <<line, guest, put, orderVars>>

\* serializeCart: a code that has become invalid is dropped.
ShowCart(h) ==
    /\ At(h, "show")
    /\ LET k == request[h].cart
           drop == k \in coded /\ Lines(k) # {} /\ ~Usable(k)
       IN  /\ coded' = IF drop THEN coded \ {k} ELSE coded
           /\ Write(h, Idle, {}, IF drop THEN {k} ELSE {}, FALSE)
    /\ UNCHANGED <<line, guest, put, orderVars>>

-----------------------------------------------------------------------------
(* Signing in *)

mergeGuestCart(h, c) ==
    /\ Lines(guest) # {}
    /\ Begin(h, [op |-> "merge", customer |-> c, guest |-> guest,
                 items |-> [i \in Lines(guest) |-> line[i].qty]])
    /\ UNCHANGED <<bagVars, orderVars>>

\* n units of line i of the guest's folded into the lines of customer c: a line
\* of their own if they came from a set, else added to the first of the variant.
\* The part is not copied.
MergeOne(rows, i, n, c) ==
    LET v    == rows[i].article.variant
        same == {j \in DOMAIN rows : /\ rows[j].live /\ rows[j].cart = c
                                     /\ rows[j].article.variant = v /\ rows[j].group = 0}
        qty(have) == IF have + n <= Stock[v] THEN have + n ELSE Stock[v]
    IN  IF rows[i].group = 0 /\ same # {}
        THEN [rows EXCEPT ![Min(same)].qty = qty(@)]
        ELSE Append(rows, Row(c, [variant |-> v, part |-> Whole], qty(0), rows[i].group))

\* Item after item, oldest first; what is out of stock stays behind.
InStock(i) == Stock[line[i].article.variant] > 0

Merged(items, c) ==
    MapThenFoldSet(LAMBDA i, rows : MergeOne(rows, i, items[i], c), line,
                   LAMBDA i : i, LAMBDA s : Max(s), {i \in DOMAIN items : InStock(i)})

\* Mutant: the guest cart is left to expire.
MergeCommitKeeps(h) ==
    /\ At(h, "merge")
    /\ LET r == request[h]
       IN  /\ line' = IF r.guest = guest THEN Merged(r.items, r.customer) ELSE line
           /\ Write(h, Idle, Lines(r.customer), {}, FALSE)
    /\ UNCHANGED <<guest, coded, put, orderVars>>

\* The transaction: deleting a cart that is gone rolls it back.
MergeCommit(h) ==
    /\ At(h, "merge")
    /\ LET r == request[h]
           rows == Merged(r.items, r.customer)
       IN  IF r.guest = guest
           THEN /\ line' = [i \in DOMAIN rows |-> [rows[i] EXCEPT !.live = @ /\ rows[i].cart # guest]]
                /\ guest' = guest + 1
                /\ Write(h, Idle, {i \in Lines(r.customer) : rows[i] # line[i]}, {}, FALSE)
           ELSE Goto(h, Idle) /\ UNCHANGED <<line, guest>>
    /\ UNCHANGED <<coded, put, orderVars>>

-----------------------------------------------------------------------------
(* Placing the order *)

Place(c, key) == [op |-> "read_bag", customer |-> c, key |-> key]

\* Mutant: a checkout in progress does not hold its key.
createOrderUnheld(h, c, key) ==
    /\ IF key = NoKey \/ checkout[key] # NoSession THEN UNCHANGED checkout
       ELSE checkout' = [checkout EXCEPT ![key] =
                 [status |-> "started", owner |-> c, order |-> 0, fresh |-> TRUE]]
    /\ key # NoKey => checkout[key].order = 0
    /\ Begin(h, Place(c, key))
    /\ UNCHANGED <<bagVars, coupon, order, bought, overtaken>>

\* POST /orders: the unique key decides whose order it is.
createOrderIdempotent(h, c, key) ==
    /\ \/ /\ key = NoKey
          /\ Begin(h, Place(c, key))
          /\ UNCHANGED checkout
       \/ /\ key # NoKey /\ checkout[key] = NoSession
          /\ checkout' = [checkout EXCEPT ![key] =
                 [status |-> "started", owner |-> c, order |-> 0, fresh |-> TRUE]]
          /\ Begin(h, Place(c, key))
       \/ /\ key # NoKey /\ checkout[key].owner = c
          /\ checkout[key].order = 0            \* else it is replayed
          /\ ~(checkout[key].status = "started" /\ checkout[key].fresh)
          /\ Begin(h, [op |-> "retake", customer |-> c, key |-> key])
          /\ UNCHANGED checkout
    /\ UNCHANGED <<bagVars, coupon, order, bought, overtaken>>

\* "A failed or timed-out attempt is allowed to be retried under the same key."
WorkingUnder(key, others) ==
    \E g \in others : request[g].op \in {"retake", "read_bag", "evaluate", "commit", "record", "fail"}
                      /\ request[g].key = key

Retake(h) ==
    /\ At(h, "retake")
    /\ LET key == request[h].key
       IN  /\ checkout' = [checkout EXCEPT ![key].status = "started", ![key].fresh = TRUE]
           /\ overtaken' = IF WorkingUnder(key, Handler \ {h}) THEN overtaken \cup {key} ELSE overtaken
           /\ Goto(h, Place(request[h].customer, key))
    /\ UNCHANGED <<bagVars, coupon, order, bought>>

Fail(key) == IF key = NoKey THEN Idle ELSE [op |-> "fail", key |-> key]

\* createOrder: the snapshot is taken by the first read.
ReadBag(h) ==
    /\ At(h, "read_bag")
    /\ LET c == request[h].customer
           key == request[h].key
       IN  Goto(h, IF Lines(c) = {} THEN Fail(key)
                   ELSE [op |-> "evaluate", customer |-> c, key |-> key, code |-> c \in coded,
                         bag |-> [i \in Lines(c) |-> line[i].qty], stale |-> FALSE])
    /\ UNCHANGED <<bagVars, orderVars>>

\* evaluateCoupon reads outside the transaction, what is committed by now.
Evaluate(h) ==
    /\ At(h, "evaluate")
    /\ LET r == request[h]
       IN  Goto(h, IF r.code /\ ~Usable(r.customer) THEN Fail(r.key)
                                                    ELSE [r EXCEPT !.op = "commit"])
    /\ UNCHANGED <<bagVars, orderVars>>

UnitsOf(bag, a) == SumFunction([i \in {j \in DOMAIN bag : line[j].article = a} |-> bag[i]])

PlaceOrder(h, r) ==
    /\ order' = Append(order, [customer |-> r.customer, key |-> r.key, status |-> "PLACED",
                               redeemed |-> r.code])
    /\ coupon' = IF r.code THEN [coupon EXCEPT !.usageCount = @ + 1] ELSE coupon
    /\ bought' = [a \in Article |-> bought[a] + UnitsOf(r.bag, a)]
    /\ line' = Without(DOMAIN r.bag)
    /\ coded' = coded \ {r.customer}
    /\ Write(h, IF r.key = NoKey THEN Idle
                ELSE [op |-> "record", key |-> r.key, order |-> Len(order) + 1],
             DOMAIN r.bag, {r.customer}, r.code)

Commit(h) ==
    /\ At(h, "commit")
    /\ LET r == request[h]
       IN  IF ~r.stale /\ (r.code => coupon.status # "DELETED" /\ coupon.usageCount < UsageLimit)
           THEN PlaceOrder(h, r)
           ELSE Goto(h, Fail(r.key)) /\ UNCHANGED <<order, coupon, bought, line, coded>>
    /\ UNCHANGED <<guest, put, checkout, overtaken>>

Record(h) ==
    /\ At(h, "record")
    /\ checkout' = [checkout EXCEPT ![request[h].key].status = "completed",
                                    ![request[h].key].order = request[h].order]
    /\ Goto(h, Idle)
    /\ UNCHANGED <<bagVars, coupon, order, bought, overtaken>>

RecordFailure(h) ==
    /\ At(h, "fail")
    /\ checkout' = [checkout EXCEPT ![request[h].key].status = "failed"]
    /\ Goto(h, Idle)
    /\ UNCHANGED <<bagVars, coupon, order, bought, overtaken>>

\* CHECKOUT_SESSION_TTL_MS passes.
Lapse(key) ==
    /\ checkout[key].fresh
    /\ checkout' = [checkout EXCEPT ![key].fresh = FALSE]
    /\ overtaken' = IF WorkingUnder(key, Handler) THEN overtaken \cup {key} ELSE overtaken
    /\ UNCHANGED <<bagVars, coupon, order, bought, request, served>>

-----------------------------------------------------------------------------
(* Staff *)

cancelOrder(h, o) ==
    /\ order[o].status = "PLACED"
    /\ Begin(h, [op |-> "cancel", order |-> o])
    /\ UNCHANGED <<bagVars, orderVars>>

\* releaseRedemption: the row, then its deletion and the count.
ReleaseRead(h) ==
    /\ At(h, "cancel")
    /\ order[request[h].order].status # "DELETED"
    /\ Goto(h, [op |-> "release", order |-> request[h].order,
                found |-> order[request[h].order].redeemed])
    /\ UNCHANGED <<bagVars, orderVars>>

\* Mutant: the row is deleted if it is there.
CancelCommitAnyway(h) ==
    /\ At(h, "release")
    /\ LET o == request[h].order
           found == request[h].found
       IN  /\ order' = [order EXCEPT ![o].status = "CANCELLED", ![o].redeemed = FALSE]
           /\ coupon' = IF found THEN [coupon EXCEPT !.usageCount = @ - 1] ELSE coupon
           /\ Write(h, Idle, {}, {}, found)
    /\ UNCHANGED <<bagVars, checkout, bought, overtaken>>

\* Deleting a row that is gone rolls the cancellation back.
CancelCommit(h) ==
    /\ At(h, "release")
    /\ LET o == request[h].order
           found == request[h].found
       IN  IF order[o].status # "DELETED" /\ (found => order[o].redeemed)
           THEN /\ order' = [order EXCEPT ![o].status = "CANCELLED",
                                          ![o].redeemed = @ /\ ~found]
                /\ coupon' = IF found THEN [coupon EXCEPT !.usageCount = @ - 1] ELSE coupon
                /\ Write(h, Idle, {}, {}, found)
           ELSE Goto(h, Idle) /\ UNCHANGED <<order, coupon>>
    /\ UNCHANGED <<bagVars, checkout, bought, overtaken>>

\* POST /admin/orders/:id/delete: the redemption and the session's order id go
\* with it, the coupon's count stays.
DeleteOrder(o) ==
    /\ order[o].status # "DELETED"
    /\ order' = [order EXCEPT ![o].status = "DELETED", ![o].redeemed = FALSE]
    /\ checkout' = [k \in Key |-> IF checkout[k].order = o THEN [checkout[k] EXCEPT !.order = 0]
                                                           ELSE checkout[k]]
    /\ UNCHANGED <<bagVars, coupon, bought, overtaken, request, served>>

\* PATCH /admin/coupons/:id: the form, of which the status matters here.
updateCoupon(h, status) ==
    /\ coupon.status # "DELETED"
    /\ coupon' = [coupon EXCEPT !.status = status]
    /\ request[h] = Idle /\ served < MaxRequests /\ served' = served + 1
    /\ Write(h, Idle, {}, {}, TRUE)
    /\ UNCHANGED <<bagVars, order, checkout, bought, overtaken>>

\* DELETE /admin/coupons/:id: expired if it has been used, else deleted.
retireCoupon(h) ==
    /\ coupon.status # "DELETED"
    /\ Begin(h, [op |-> "retire", used |-> Redeemed(NoKey) # {}])
    /\ UNCHANGED <<bagVars, orderVars>>

RetireCommit(h) ==
    /\ At(h, "retire")
    /\ coupon' = [coupon EXCEPT !.status =
           IF @ = "DELETED" \/ ~request[h].used THEN "DELETED" ELSE "EXPIRED"]
    /\ order' = IF coupon'.status = "DELETED"
                THEN [o \in DOMAIN order |-> [order[o] EXCEPT !.redeemed = FALSE]] ELSE order
    /\ Write(h, Idle, {}, {}, TRUE)
    /\ UNCHANGED <<bagVars, checkout, bought, overtaken>>

-----------------------------------------------------------------------------
(* Failures *)

\* The process stops, or the database fails: an open transaction is rolled
\* back.  The session of a checkout that stops is left as it is.
Stop(h) ==
    /\ request[h] # Idle
    /\ overtaken' = IF request[h].op = "record" THEN overtaken \cup {request[h].key} ELSE overtaken
    /\ Goto(h, Idle)
    /\ UNCHANGED <<bagVars, coupon, order, checkout, bought, served>>

-----------------------------------------------------------------------------

\* A customer has been here before, and left something in the bag under the
\* coupon's code.
Init ==
    /\ guest = 1
    /\ \E c \in Customer, a \in Article :
          /\ a.part = Whole
          /\ line = <<Row(c, a, 1, 0)>> /\ coded = {c}
          /\ put = [b \in Article |-> IF b = a THEN 1 ELSE 0]
    /\ coupon = [status |-> "ACTIVE", usageCount |-> 0]
    /\ order = <<>>
    /\ checkout = [k \in Key |-> NoSession]
    /\ request = [h \in Handler |-> Idle]
    /\ served = 0
    /\ bought = [a \in Article |-> 0]
    /\ overtaken = {}

Shop(h) ==
    \/ \E k \in Resolve : \/ \E a \in Article : addItem(h, k, a)
                          \/ \E G \in Groups : addGroup(h, k, G)
                          \/ \E i \in Lines(k) : removeSet(h, k, line[i].group)
                          \/ clearCart(h, k)
    \/ \E i \in DOMAIN line : removeItem(h, i) \/ \E q \in 1 .. 2 : updateItem(h, i, q)
    \/ \E c \in Customer : \/ applyCoupon(h, c) \/ removeCoupon(h, c) \/ mergeGuestCart(h, c)
                           \/ \E key \in Key \cup {NoKey} : createOrderIdempotent(h, c, key)

Work(h) ==
    \/ AddWrite(h) \/ ItemWrite(h) \/ ShowCart(h) \/ MergeCommit(h)
    \/ Retake(h) \/ ReadBag(h) \/ Evaluate(h) \/ Commit(h) \/ Record(h) \/ RecordFailure(h)
    \/ ReleaseRead(h) \/ CancelCommit(h) \/ RetireCommit(h) \/ Stop(h)

Manage(h) ==
    \/ \E o \in DOMAIN order : cancelOrder(h, o)
    \/ retireCoupon(h)
    \/ \E status \in {"ACTIVE", "PAUSED"} : updateCoupon(h, status)

Next ==
    \/ \E h \in Handler : Shop(h) \/ Work(h) \/ Manage(h)
    \/ \E key \in Key : Lapse(key)
    \/ \E o \in DOMAIN order : DeleteOrder(o)

Spec == Init /\ [][Next]_vars

-----------------------------------------------------------------------------
(* Properties *)

\* Every variable has its type.
TypeOK ==
    /\ \A i \in DOMAIN line : /\ line[i].cart \in 1 .. guest \/ line[i].cart \in Customer
                              /\ line[i].qty \in Nat /\ line[i].live => line[i].qty > 0
    /\ guest \in Nat
    /\ coded \subseteq Customer
    /\ coupon \in [status : {"ACTIVE", "PAUSED", "EXPIRED", "DELETED"}, usageCount : Nat]
    /\ \A o \in DOMAIN order : /\ order[o].customer \in Customer
                               /\ order[o].key \in Key \cup {NoKey}
    /\ \A k \in Key : checkout[k].order \in 0 .. Len(order)
    /\ served \in 0 .. MaxRequests
    /\ put \in [Article -> Nat] /\ bought \in [Article -> Nat]
    /\ overtaken \subseteq Key

InBags(a) == SumFunction([i \in {j \in DOMAIN line : line[j].live /\ line[j].article = a} |-> line[i].qty])

\* Nothing a customer asked for once is merged twice or bought twice, whichever
\* sign-ins, checkouts and edits overlap: what is in the bags and what was
\* bought of a variant was asked for.
NothingTwice ==
    \A v \in DOMAIN Stock :
        SumFunction([a \in Units(v) |-> InBags(a) + bought[a]]) <= SumFunctionOnSet(put, Units(v))

\* "A limited coupon can never be over-redeemed no matter how the requests
\* interleave": the redemptions there are, are counted, and within the limit.
LimitHolds ==
    /\ coupon.usageCount <= UsageLimit
    /\ coupon.status # "DELETED" => Cardinality(Redeemed(NoKey)) <= coupon.usageCount

\* No customer has used the coupon more often than the limit for each, though
\* their redemptions are counted outside the transaction that adds to them.
PerUserLimitHolds == \A c \in Customer : Cardinality(Redeemed(c)) <= PerUserLimit

\* "A double-clicked 'Place order', a flaky connection, a resend after a timeout
\* must all end with one order": a key has one, unless its checkout outlived
\* the time a key is held or stopped before it was recorded.
OneOrderPerKey ==
    \A o, p \in DOMAIN order :
        /\ order[o].key = order[p].key /\ order[o].key # NoKey
        /\ order[o].status # "DELETED" /\ order[p].status # "DELETED"
        => o = p \/ order[o].key \in overtaken

\* Bags and orders hold no more than was asked for, in quantities of at least
\* one.
BagsStand == TypeOK /\ NothingTwice

\* The coupon keeps both its limits.
LimitsHold == LimitHolds /\ PerUserLimitHolds

=============================================================================
