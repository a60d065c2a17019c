--------------------------- MODULE CheckoutProofs ---------------------------
(***************************************************************************)
(* Theorems about Checkout, for any number of customers, articles, keys,   *)
(* requests in flight, and any limits of the coupon.                       *)
(***************************************************************************)
EXTENDS Checkout, SumTheorems, FiniteSetTheorems, SequenceTheorems, TLAPS

-----------------------------------------------------------------------------
(* The inductive invariant *)

Statuses == {"PLACED", "CANCELLED", "DELETED"}
Order    == [customer : Customer, key : Key \cup {NoKey}, status : Statuses, redeemed : BOOLEAN]
Session  == [status : {"none", "started", "completed", "failed"},
             owner : Customer \cup {NoKey}, order : Nat, fresh : BOOLEAN]
Coupon   == [status : {"ACTIVE", "PAUSED", "EXPIRED", "DELETED"}, usageCount : Nat]

Trying  == {"read_bag", "evaluate", "commit", "record", "fail"}
Working == Trying \cup {"retake"}

\* A checkout that has read a bag.
Draft(bag) == [op : {"evaluate", "commit"}, customer : Customer, key : Key \cup {NoKey},
               code : BOOLEAN, bag : {bag}, stale : BOOLEAN]

\* What a checkout under way knows.
Shaped(r) ==
    /\ r.op \in {"evaluate", "commit"} => r \in Draft(r.bag)
    /\ r.op \in {"retake", "read_bag", "evaluate", "commit"} => r.customer \in Customer
    /\ r.op \in Working => r.key \in Key \cup {NoKey}
    /\ r.op \in {"retake", "record", "fail"} => r.key \in Key
    /\ r.op = "record" => r.order \in Nat

\* A cancellation is of an order there is.
Names(r, rows) == r.op \in {"cancel", "release"} => r.order \in DOMAIN rows

Typed ==
    /\ order \in Seq(Order)
    /\ checkout \in [Key -> Session]
    /\ coupon \in Coupon
    /\ overtaken \subseteq Key
    /\ request = [h \in Handler |-> request[h]]
    /\ \A h \in Handler : Shaped(request[h]) /\ Names(request[h], order)

\* Attempts under a key, and the orders it has.
Tries(h, key)   == request[h].op \in Trying /\ request[h].key = key
Retakes(h, key) == request[h].op = "retake" /\ request[h].key = key
Has(key, o)     == order[o].key = key /\ order[o].status # "DELETED"

\* One attempt at a time, while the session says so; a key that is tried or
\* retaken has no order yet; an order is on the session or about to be.
Alone(key) ==
    \A h \in Handler : Tries(h, key) =>
        /\ checkout[key].status = "started" /\ checkout[key].fresh /\ checkout[key].order = 0
        /\ \A g \in Handler : Tries(g, key) => g = h
        /\ request[h].op # "record" => \A o \in DOMAIN order : ~Has(key, o)

Unclaimed(key) ==
    \A h \in Handler : Retakes(h, key) =>
        /\ checkout[key].owner # NoKey /\ checkout[key].order = 0
        /\ \A g \in Handler : ~Tries(g, key)
        /\ \A o \in DOMAIN order : ~Has(key, o)

Recorded(key) ==
    \A o \in DOMAIN order : Has(key, o) =>
        \/ checkout[key].order = o
        \/ \E h \in Handler : Tries(h, key) /\ request[h].op = "record" /\ request[h].order = o

KeysHold == \A key \in Key \ overtaken : Alone(key) /\ Unclaimed(key) /\ Recorded(key)

\* The redemptions there are, are counted.
Counted == coupon.usageCount <= UsageLimit /\ Cardinality(Redeemed(NoKey)) <= coupon.usageCount

\* A checkout that has been told the coupon is good, and under which the
\* coupon's row has not been written, may redeem it once more.
Promised ==
    \A h \in Handler, c \in Customer :
        /\ request[h].op = "commit" /\ request[h].customer = c
        /\ request[h].code /\ ~request[h].stale
        => Cardinality(Redeemed(c)) < PerUserLimit

CheckoutInv == Typed /\ KeysHold /\ Counted /\ Promised /\ PerUserLimitHolds

-----------------------------------------------------------------------------
(* What a step does to the others *)

\* The step of h leaves another request as it is, but for its snapshot.
Alike(r, s) ==
    \/ s = r
    \/ /\ r.op \in {"evaluate", "commit"}
       /\ s \in Draft(s.bag) /\ s.op = r.op /\ s.key = r.key /\ s.stale

Moves(h, next) ==
    /\ request' = [g \in Handler |-> request'[g]]
    /\ request'[h] = next
    /\ \A g \in Handler \ {h} : Alike(request[g], request'[g])

LEMMA StaleDraft ==
    ASSUME NEW bag, NEW r \in Draft(bag)
    PROVE  LET s == [r EXCEPT !.stale = TRUE]
           IN  /\ s \in Draft(s.bag) /\ s.op = r.op /\ s.key = r.key /\ s.stale
BY DEF Draft

LEMMA GotoMoves ==
    ASSUME Typed, NEW h \in Handler, NEW next, Goto(h, next)
    PROVE  Moves(h, next) /\ \A g \in Handler \ {h} : request'[g] = request[g]
BY DEF Typed, Goto, Moves, Alike

LEMMA WriteMoves ==
    ASSUME Typed, NEW h \in Handler, NEW next, NEW lines, NEW carts, NEW theCoupon,
           Write(h, next, lines, carts, theCoupon)
    PROVE  /\ Moves(h, next)
           /\ theCoupon => \A g \in Handler \ {h} :
                 request[g].op \in {"evaluate", "commit"} /\ request[g].code => request'[g].stale
<1>1. ASSUME NEW g \in Handler, request[g].op \in {"evaluate", "commit"},
             request'[g] = [request[g] EXCEPT !.stale = TRUE]
      PROVE  Alike(request[g], request'[g]) /\ request'[g].stale
  <2>1. request[g] \in Draft(request[g].bag)
    BY <1>1 DEF Typed, Shaped
  <2> QED
    BY <1>1, <2>1, StaleDraft DEF Alike
<1>2. request' = [g \in Handler |-> request'[g]] /\ request'[h] = next
  BY DEF Write
<1>3. ASSUME NEW g \in Handler \ {h}
      PROVE  /\ Alike(request[g], request'[g])
             /\ theCoupon /\ request[g].op \in {"evaluate", "commit"} /\ request[g].code
                    => request'[g].stale
  <2> DEFINE hit == /\ request[g].op \in {"evaluate", "commit"}
                    /\ \/ lines \cap DOMAIN request[g].bag # {}
                       \/ request[g].customer \in carts
                       \/ theCoupon /\ request[g].code
  <2>1. request'[g] = IF hit THEN [request[g] EXCEPT !.stale = TRUE] ELSE request[g]
    BY DEF Write
  <2>2. CASE hit
    BY <1>1, <2>1, <2>2
  <2>3. CASE ~hit
    BY <2>1, <2>3 DEF Alike
  <2> QED
    BY <2>2, <2>3
<1> QED
  BY <1>2, <1>3 DEF Moves

\* What h's step leaves of the others' attempts.
LEMMA OthersStay ==
    ASSUME Typed, NEW h \in Handler, NEW next, Moves(h, next)
    PROVE  \A g \in Handler \ {h} :
              /\ request'[g].op = request[g].op
              /\ Shaped(request[g])'
              /\ \A key \in Key : /\ Tries(g, key)' <=> Tries(g, key)
                                  /\ Retakes(g, key)' <=> Retakes(g, key)
              /\ request[g].op = "record" => request'[g] = request[g]
              /\ request'[g].op = "commit" /\ request'[g].code /\ ~request'[g].stale
                    => request'[g] = request[g]
<1> SUFFICES ASSUME NEW g \in Handler \ {h}
             PROVE  /\ request'[g].op = request[g].op
                    /\ Shaped(request[g])'
                    /\ \A key \in Key : /\ Tries(g, key)' <=> Tries(g, key)
                                        /\ Retakes(g, key)' <=> Retakes(g, key)
                    /\ request[g].op = "record" => request'[g] = request[g]
                    /\ request'[g].op = "commit" /\ request'[g].code /\ ~request'[g].stale
                          => request'[g] = request[g]
  OBVIOUS
<1>1. Shaped(request[g]) /\ Alike(request[g], request'[g])
  BY DEF Typed, Moves
<1>2. CASE request'[g] = request[g]
  BY <1>1, <1>2 DEF Shaped, Tries, Retakes
<1>3. CASE /\ request[g].op \in {"evaluate", "commit"}
           /\ request'[g] \in Draft(request'[g].bag) /\ request'[g].op = request[g].op
           /\ request'[g].key = request[g].key /\ request'[g].stale
  <2>1. Shaped(request[g])'
    BY <1>3 DEF Shaped, Draft, Working, Trying
  <2> QED
    BY <1>3, <2>1 DEF Tries, Retakes
<1> QED
  BY <1>1, <1>2, <1>3 DEF Alike

LEMMA TypedAfter ==
    ASSUME Typed, NEW h \in Handler, NEW next, Moves(h, next), Shaped(next),
           Names(next, order'), DOMAIN order \subseteq DOMAIN order',
           order' \in Seq(Order), checkout' \in [Key -> Session], coupon' \in Coupon,
           overtaken' \subseteq Key
    PROVE  Typed'
<1>1. \A g \in Handler : Shaped(request[g])'
  <2>1. Shaped(request[h])'
    BY DEF Moves, Shaped
  <2> QED
    BY <2>1, OthersStay
<1>2. \A g \in Handler : Names(request'[g], order')
  BY DEF Typed, Moves, Alike, Names
<1> QED
  BY <1>1, <1>2 DEF Typed, Moves

-----------------------------------------------------------------------------
(* Keys *)

\* A key the step of h has nothing to do with.
LEMMA ElsewhereHolds ==
    ASSUME Typed, NEW h \in Handler, NEW next, Moves(h, next),
           NEW key \in Key, Alone(key), Unclaimed(key), Recorded(key),
           ~Tries(h, key), ~Retakes(h, key), ~Tries(h, key)', ~Retakes(h, key)',
           checkout'[key] = checkout[key],
           \A o \in DOMAIN order' : Has(key, o)' => o \in DOMAIN order /\ Has(key, o)
    PROVE  Alone(key)' /\ Unclaimed(key)' /\ Recorded(key)'
<1>1. \A g \in Handler : /\ Tries(g, key)' <=> Tries(g, key)
                         /\ Retakes(g, key)' <=> Retakes(g, key)
                         /\ Tries(g, key) => g # h /\ request'[g].op = request[g].op
                         /\ Tries(g, key) /\ request[g].op = "record" => request'[g] = request[g]
  BY OthersStay
<1>2. Alone(key)'
  BY <1>1 DEF Alone
<1>3. Unclaimed(key)'
  BY <1>1 DEF Unclaimed
<1>4. Recorded(key)'
  <2> SUFFICES ASSUME NEW o \in DOMAIN order', Has(key, o)'
               PROVE  \/ checkout'[key].order = o
                      \/ \E g \in Handler : Tries(g, key)' /\ request'[g].op = "record"
                                              /\ request'[g].order = o
    BY DEF Recorded
  <2>1. o \in DOMAIN order /\ Has(key, o)
    OBVIOUS
  <2>2. \/ checkout[key].order = o
        \/ \E g \in Handler : Tries(g, key) /\ request[g].op = "record" /\ request[g].order = o
    BY <2>1 DEF Recorded
  <2> QED
    BY <1>1, <2>2
<1> QED
  BY <1>2, <1>3, <1>4

\* An attempt under the key goes on, short of its order.
LEMMA AttemptGoesOn ==
    ASSUME Typed, NEW h \in Handler, NEW next, Moves(h, next),
           NEW key \in Key, Alone(key), Unclaimed(key), Recorded(key),
           Tries(h, key), request[h].op # "record", Tries(h, key)', next.op # "record",
           checkout'[key] = checkout[key], order' = order
    PROVE  Alone(key)' /\ Unclaimed(key)' /\ Recorded(key)'
<1>1. \A g \in Handler : /\ Tries(g, key)' <=> Tries(g, key)
                         /\ Retakes(g, key)' <=> g # h /\ Retakes(g, key)
                         /\ Tries(g, key)' => g = h
  BY OthersStay, ZenonT(90) DEF Tries, Retakes, Alone, Moves, Trying
<1>2. \A o \in DOMAIN order : ~Has(key, o) /\ ~Has(key, o)'
  BY DEF Alone, Has
<1>3. Alone(key)'
  BY <1>1, <1>2 DEF Alone
<1>4. Unclaimed(key)'
  BY <1>1 DEF Unclaimed
<1>5. Recorded(key)'
  BY <1>2 DEF Recorded
<1> QED
  BY <1>3, <1>4, <1>5

\* An attempt, or a retry of one, ends without an order.
LEMMA AttemptEnds ==
    ASSUME Typed, NEW h \in Handler, NEW next, Moves(h, next),
           NEW key \in Key, Alone(key), Unclaimed(key), Recorded(key),
           Tries(h, key) \/ Retakes(h, key), request[h].op # "record",
           ~Tries(h, key)', ~Retakes(h, key)',
           Retakes(h, key) => checkout'[key] = checkout[key], order' = order
    PROVE  Alone(key)' /\ Unclaimed(key)' /\ Recorded(key)'
<1>1. \A g \in Handler : ~Tries(g, key)' /\ (Retakes(g, key)' => Retakes(g, key))
  BY OthersStay DEF Tries, Retakes, Alone, Unclaimed
<1>2. \A o \in DOMAIN order : ~Has(key, o) /\ ~Has(key, o)'
  BY DEF Alone, Unclaimed, Has, Tries, Retakes
<1>3. Alone(key)' /\ Recorded(key)'
  BY <1>1, <1>2 DEF Alone, Recorded
<1>4. Unclaimed(key)'
  <2>1. CASE Tries(h, key)
    BY <1>1, <2>1 DEF Unclaimed
  <2>2. CASE Retakes(h, key)
    BY <1>1, <1>2, <2>2 DEF Unclaimed
  <2> QED
    BY <2>1, <2>2
<1> QED
  BY <1>3, <1>4

\* A step of h under one key leaves the other keys be.
LEMMA OtherKeysHold ==
    ASSUME Typed, KeysHold, NEW h \in Handler, NEW next, Moves(h, next), NEW key,
           request[h].op \in Working => request[h].key = key,
           next.op \in Working => next.key = key,
           overtaken \subseteq overtaken',
           \A k \in Key \ {key} : checkout'[k] = checkout[k],
           \A k \in Key \ {key}, o \in DOMAIN order' :
               Has(k, o)' => o \in DOMAIN order /\ Has(k, o)
    PROVE  \A k \in Key \ (overtaken' \cup {key}) : Alone(k)' /\ Unclaimed(k)' /\ Recorded(k)'
<1> SUFFICES ASSUME NEW k \in Key \ (overtaken' \cup {key})
             PROVE  Alone(k)' /\ Unclaimed(k)' /\ Recorded(k)'
  OBVIOUS
<1>1. Alone(k) /\ Unclaimed(k) /\ Recorded(k)
  BY DEF KeysHold
<1>2. ~Tries(h, k) /\ ~Retakes(h, k) /\ ~Tries(h, k)' /\ ~Retakes(h, k)'
  BY DEF Tries, Retakes, Working, Moves
<1> QED
  BY <1>1, <1>2, ElsewhereHolds

\* A step in which no key changes hands.
LEMMA KeysStay ==
    ASSUME Typed, KeysHold, NEW h \in Handler, NEW next, Moves(h, next),
           request[h].op \notin Working, next.op \notin Working,
           UNCHANGED <<checkout, overtaken>>,
           \A key \in Key, o \in DOMAIN order' :
               Has(key, o)' => o \in DOMAIN order /\ Has(key, o)
    PROVE  KeysHold'
<1> SUFFICES ASSUME NEW key \in Key \ overtaken
             PROVE  Alone(key)' /\ Unclaimed(key)' /\ Recorded(key)'
  BY DEF KeysHold
<1>1. Alone(key) /\ Unclaimed(key) /\ Recorded(key)
  BY DEF KeysHold
<1>2. ~Tries(h, key) /\ ~Retakes(h, key) /\ ~Tries(h, key)' /\ ~Retakes(h, key)'
  BY DEF Tries, Retakes, Working, Moves
<1> QED
  BY <1>1, <1>2, ElsewhereHolds

-----------------------------------------------------------------------------
(* The coupon *)

\* Orders rewritten in place are orders.
LEMMA RowsRewritten ==
    ASSUME NEW rows \in Seq(Order), NEW f, f = [o \in DOMAIN rows |-> f[o]],
           \A o \in DOMAIN rows : f[o] \in Order
    PROVE  f \in Seq(Order) /\ DOMAIN f = DOMAIN rows
<1>1. DOMAIN rows = 1 .. Len(rows) /\ Len(rows) \in Nat
  OBVIOUS
<1>2. f \in [1 .. Len(rows) -> Order]
  BY <1>1
<1> QED
  BY <1>1, <1>2

LEMMA RowsAreFinite ==
    ASSUME NEW rows \in Seq(Order)
    PROVE  \A S \in SUBSET DOMAIN rows : IsFiniteSet(S) /\ Cardinality(S) \in Nat
<1>1. IsFiniteSet(DOMAIN rows)
  BY FS_Interval
<1> QED
  BY <1>1, FS_Subset, FS_CardinalityType

LEMMA RedeemedFinite ==
    ASSUME Typed, Typed'
    PROVE  \A c : /\ IsFiniteSet(Redeemed(c)) /\ Cardinality(Redeemed(c)) \in Nat
                  /\ IsFiniteSet(Redeemed(c)') /\ Cardinality(Redeemed(c)') \in Nat
<1>1. order \in Seq(Order) /\ order' \in Seq(Order)
  BY DEF Typed
<1>2. \A c : Redeemed(c) \subseteq DOMAIN order /\ Redeemed(c)' \subseteq DOMAIN order'
  BY DEF Redeemed
<1> QED
  BY <1>1, <1>2, RowsAreFinite

\* Nothing is redeemed in the step, nor a checkout told that it may.
NoneToldGood ==
    \A g \in Handler : request'[g].op = "commit" /\ request'[g].code /\ ~request'[g].stale
                           => request'[g] = request[g]

LEMMA UsersStay ==
    ASSUME Typed, Typed', Promised, PerUserLimitHolds, NoneToldGood,
           \A c : Redeemed(c)' \subseteq Redeemed(c)
    PROVE  /\ Promised' /\ PerUserLimitHolds'
           /\ \A c : Cardinality(Redeemed(c)') <= Cardinality(Redeemed(c))
<1>1. ASSUME NEW c
      PROVE  /\ Cardinality(Redeemed(c)) \in Nat /\ Cardinality(Redeemed(c)') \in Nat
             /\ Cardinality(Redeemed(c)') <= Cardinality(Redeemed(c))
  BY RedeemedFinite, FS_Subset
<1>2. PerUserLimit \in Nat
  BY CheckoutAssumption
<1>3. PerUserLimitHolds'
  BY <1>1, <1>2 DEF PerUserLimitHolds
<1>4. Promised'
  <2> SUFFICES ASSUME NEW g \in Handler, NEW c \in Customer,
                      request'[g].op = "commit", request'[g].customer = c,
                      request'[g].code, ~request'[g].stale
               PROVE  Cardinality(Redeemed(c)') < PerUserLimit
    BY DEF Promised
  <2>1. request'[g] = request[g]
    BY DEF NoneToldGood
  <2>2. Cardinality(Redeemed(c)) < PerUserLimit
    BY <2>1 DEF Promised
  <2> QED
    BY <1>1, <1>2, <2>2
<1> QED
  BY <1>1, <1>3, <1>4

LEMMA OthersNotTold ==
    ASSUME Typed, NEW h \in Handler, NEW next, Moves(h, next), next.op # "commit"
    PROVE  NoneToldGood
BY OthersStay DEF NoneToldGood, Moves

LEMMA LimitsStay ==
    ASSUME Typed, Typed', Counted, Promised, PerUserLimitHolds, NoneToldGood,
           coupon'.usageCount = coupon.usageCount,
           \A c : Redeemed(c)' \subseteq Redeemed(c)
    PROVE  Counted' /\ Promised' /\ PerUserLimitHolds'
<1>1. UsageLimit \in Nat /\ coupon.usageCount \in Nat
  BY CheckoutAssumption DEF Typed, Coupon
<1> QED
  BY <1>1, UsersStay, RedeemedFinite DEF Counted

-----------------------------------------------------------------------------
(* Steps that place no order *)

LEMMA InvParts ==
    CheckoutInv => /\ Typed /\ KeysHold /\ Counted /\ Promised /\ PerUserLimitHolds
                   /\ order \in Seq(Order) /\ checkout \in [Key -> Session]
                   /\ coupon \in Coupon /\ overtaken \subseteq Key
BY DEF CheckoutInv, Typed

\* h does something of no concern to keys, orders and the coupon.
Aside(h) ==
    \E next : /\ Moves(h, next)
              /\ request[h].op \notin Working /\ next.op \notin Working
              /\ Names(next, order) /\ UNCHANGED orderVars

LEMMA AsideHolds ==
    ASSUME CheckoutInv, NEW h \in Handler, Aside(h)
    PROVE  CheckoutInv'
<1> PICK next : /\ Moves(h, next)
                /\ request[h].op \notin Working /\ next.op \notin Working
                /\ Names(next, order) /\ UNCHANGED orderVars
  BY DEF Aside
<1>1. Shaped(next) /\ next.op # "commit"
  BY DEF Shaped, Working, Trying
<1>2. UNCHANGED <<coupon, order, checkout, overtaken>>
  BY DEF orderVars
<1>3. Typed'
  BY <1>1, <1>2, InvParts, TypedAfter DEF Names
<1>4. KeysHold'
  <2>1. \A key \in Key, o \in DOMAIN order' : Has(key, o)' => o \in DOMAIN order /\ Has(key, o)
    BY <1>2 DEF Has
  <2> QED
    BY <1>2, <2>1, InvParts, KeysStay
<1>5. Counted' /\ Promised' /\ PerUserLimitHolds'
  <2>1. \A c : Redeemed(c)' \subseteq Redeemed(c)
    BY <1>2 DEF Redeemed
  <2> QED
    BY <1>1, <1>2, <1>3, <2>1, InvParts, OthersNotTold, LimitsStay
<1> QED
  BY <1>3, <1>4, <1>5 DEF CheckoutInv

LEMMA BeginMoves ==
    ASSUME Typed, NEW h \in Handler, NEW next, Begin(h, next)
    PROVE  Moves(h, next) /\ request[h].op = "idle"
BY GotoMoves DEF Begin, Idle

LEMMA BagStepsAside ==
    ASSUME CheckoutInv, NEW h \in Handler
    PROVE  /\ \A k, a : addItem(h, k, a) => Aside(h)
           /\ \A k, G : addGroup(h, k, G) => Aside(h)
           /\ \A i, q : updateItem(h, i, q) => Aside(h)
           /\ \A k, l, c : RemoveLines(h, k, l, c, Idle) => Aside(h)
           /\ \A k, l, c : RemoveLines(h, k, l, c, Answer(k)) => Aside(h)
           /\ \A c : applyCoupon(h, c) \/ removeCoupon(h, c) \/ mergeGuestCart(h, c) => Aside(h)
<1> USE InvParts
<1>1. \A k, a : addItem(h, k, a) => Aside(h)
  BY BeginMoves DEF addItem, Aside, Names, Working, Trying
<1>2. \A k, G : addGroup(h, k, G) => Aside(h)
  BY BeginMoves DEF addGroup, Aside, Names, Working, Trying, Answer, orderVars
<1>3. \A i, q : updateItem(h, i, q) => Aside(h)
  BY BeginMoves DEF updateItem, Aside, Names, Working, Trying
<1>4. ASSUME NEW next, next.op \in {"idle", "show"}, NEW k, NEW l, NEW c,
             RemoveLines(h, k, l, c, next)
      PROVE  Aside(h)
  <2>1. Moves(h, next)
    BY <1>4, WriteMoves DEF RemoveLines
  <2>2. request[h].op \notin Working /\ UNCHANGED orderVars
    BY <1>4 DEF RemoveLines, Idle, Working, Trying
  <2> QED
    BY <1>4, <2>1, <2>2 DEF Aside, Names, Working, Trying
<1>5. ASSUME NEW c, applyCoupon(h, c) \/ removeCoupon(h, c)
      PROVE  Aside(h)
  <2>1. Moves(h, Answer(c))
    BY <1>5, WriteMoves DEF applyCoupon, removeCoupon
  <2>2. request[h] = Idle /\ UNCHANGED orderVars
    BY <1>5 DEF applyCoupon, removeCoupon
  <2> QED
    <3>1. request[h].op = "idle" /\ Answer(c).op = "show"
      BY <2>2 DEF Answer, Idle
    <3>2. request[h].op \notin Working /\ Answer(c).op \notin Working
      BY <3>1 DEF Working, Trying
    <3> QED
      BY <2>1, <2>2, <3>1, <3>2 DEF Aside, Names
<1>6. ASSUME NEW c, mergeGuestCart(h, c)
      PROVE  Aside(h)
  BY <1>6, BeginMoves DEF mergeGuestCart, Aside, Names, Working, Trying
<1> QED
  BY <1>1, <1>2, <1>3, <1>4, <1>5, <1>6 DEF Idle, Answer

LEMMA WorkStepsAside ==
    ASSUME CheckoutInv, NEW h \in Handler,
           AddWrite(h) \/ ItemWrite(h) \/ ShowCart(h) \/ MergeCommit(h) \/ ReleaseRead(h)
    PROVE  Aside(h)
<1> USE InvParts
<1>1. CASE AddWrite(h)
  BY <1>1, WriteMoves DEF AddWrite, At, Aside, Names, Working, Trying, Answer, Idle
<1>2. CASE ItemWrite(h)
  BY <1>2, WriteMoves, GotoMoves DEF ItemWrite, At, Aside, Names, Working, Trying, Answer, Idle
<1>3. CASE ShowCart(h)
  BY <1>3, WriteMoves DEF ShowCart, At, Aside, Names, Working, Trying, Idle
<1>4. CASE MergeCommit(h)
  BY <1>4, WriteMoves, GotoMoves DEF MergeCommit, At, Aside, Names, Working, Trying, Idle
<1>5. CASE ReleaseRead(h)
  <2>1. request[h].order \in DOMAIN order
    BY <1>5 DEF ReleaseRead, At, Typed, Names
  <2> QED
    BY <1>5, <2>1, GotoMoves DEF ReleaseRead, At, Aside, Names, Working, Trying
<1> QED
  BY <1>1, <1>2, <1>3, <1>4, <1>5

LEMMA StaffStepsAside ==
    ASSUME CheckoutInv, NEW h \in Handler
    PROVE  /\ \A o \in DOMAIN order : cancelOrder(h, o) => Aside(h)
           /\ retireCoupon(h) => Aside(h)
BY InvParts, BeginMoves DEF cancelOrder, retireCoupon, Aside, Names, Working, Trying

-----------------------------------------------------------------------------
(* A checkout under its key *)

\* The step moves neither orders nor the coupon, and nobody is told the coupon
\* is good.
LEMMA LimitsAside ==
    ASSUME CheckoutInv, Typed', NEW h \in Handler, NEW next, Moves(h, next), next.op # "commit",
           UNCHANGED <<order, coupon>>
    PROVE  Counted' /\ Promised' /\ PerUserLimitHolds'
<1>1. \A c : Redeemed(c)' \subseteq Redeemed(c)
  BY DEF Redeemed
<1> QED
  BY <1>1, InvParts, OthersNotTold, LimitsStay

LEMMA BeginCheckoutHolds ==
    ASSUME CheckoutInv, NEW h \in Handler, NEW c \in Customer, NEW key \in Key \cup {NoKey},
           createOrderIdempotent(h, c, key)
    PROVE  CheckoutInv'
<1> USE InvParts
<1>1. UNCHANGED <<order, coupon, overtaken>>
  BY DEF createOrderIdempotent
<1>2. \A k \in Key, o \in DOMAIN order' : Has(k, o)' => o \in DOMAIN order /\ Has(k, o)
  BY <1>1 DEF Has
<1>3. CASE key = NoKey /\ Begin(h, Place(c, key)) /\ UNCHANGED checkout
  <2>1. Moves(h, Place(c, key)) /\ request[h].op = "idle"
    BY <1>3, BeginMoves
  <2>2. /\ Shaped(Place(c, key)) /\ Place(c, key).op = "read_bag" /\ Place(c, key).key = key
        /\ request[h].op \notin Working
    BY <1>3, <2>1 DEF Shaped, Place, Working, Trying
  <2>3. Typed'
    BY <1>1, <1>3, <2>1, <2>2, TypedAfter DEF Names
  <2>4. KeysHold'
    <3>1. \A k \in Key \ (overtaken' \cup {key}) : Alone(k)' /\ Unclaimed(k)' /\ Recorded(k)'
      BY <1>1, <1>2, <1>3, <2>1, <2>2, OtherKeysHold
    <3> QED
      BY <1>3, <3>1, CheckoutAssumption DEF KeysHold
  <2>5. Counted' /\ Promised' /\ PerUserLimitHolds'
    BY <1>1, <2>1, <2>2, <2>3, LimitsAside
  <2> QED
    BY <2>3, <2>4, <2>5 DEF CheckoutInv
<1>4. CASE /\ key # NoKey /\ checkout[key] = NoSession
           /\ checkout' = [checkout EXCEPT ![key] =
                  [status |-> "started", owner |-> c, order |-> 0, fresh |-> TRUE]]
           /\ Begin(h, Place(c, key))
  <2>1. Moves(h, Place(c, key)) /\ request[h].op = "idle"
    BY <1>4, BeginMoves
  <2>2. /\ Shaped(Place(c, key)) /\ Place(c, key).op = "read_bag" /\ Place(c, key).key = key
        /\ request[h].op \notin Working
    BY <1>4, <2>1 DEF Shaped, Place, Working, Trying
  <2>3. /\ checkout' \in [Key -> Session]
        /\ checkout'[key].status = "started" /\ checkout'[key].fresh /\ checkout'[key].order = 0
        /\ \A k \in Key \ {key} : checkout'[k] = checkout[k]
    BY <1>4 DEF Session
  <2>4. Typed'
    BY <1>1, <2>1, <2>2, <2>3, TypedAfter DEF Names
  <2>5. KeysHold'
    <3>1. \A k \in Key \ (overtaken' \cup {key}) : Alone(k)' /\ Unclaimed(k)' /\ Recorded(k)'
      BY <1>1, <1>2, <2>1, <2>2, <2>3, OtherKeysHold
    <3>2. ASSUME key \notin overtaken
          PROVE  Alone(key)' /\ Unclaimed(key)' /\ Recorded(key)'
      <4>1. Alone(key) /\ Unclaimed(key) /\ Recorded(key)
        BY <1>4, <3>2 DEF KeysHold
      <4>2. checkout[key].status = "none" /\ checkout[key].owner = NoKey /\ checkout[key].order = 0
        BY <1>4 DEF NoSession
      <4>3. \A g \in Handler : ~Tries(g, key) /\ ~Retakes(g, key)
        BY <4>1, <4>2 DEF Alone, Unclaimed
      <4>4. \A o \in DOMAIN order : ~Has(key, o)
        BY <4>1, <4>2, <4>3 DEF Recorded
      <4>5. \A g \in Handler : (Tries(g, key)' => g = h) /\ ~Retakes(g, key)'
        BY <1>4, <2>1, <2>2, <4>3, OthersStay DEF Moves, Retakes
      <4> QED
        BY <1>1, <1>2, <1>4, <2>1, <2>2, <2>3, <4>4, <4>5 DEF Alone, Unclaimed, Recorded, Moves
    <3> QED
      BY <1>1, <3>1, <3>2 DEF KeysHold
  <2>6. Counted' /\ Promised' /\ PerUserLimitHolds'
    BY <1>1, <2>1, <2>2, <2>4, LimitsAside
  <2> QED
    BY <2>4, <2>5, <2>6 DEF CheckoutInv
<1>5. CASE /\ key # NoKey /\ checkout[key].owner = c /\ checkout[key].order = 0
           /\ ~(checkout[key].status = "started" /\ checkout[key].fresh)
           /\ Begin(h, [op |-> "retake", customer |-> c, key |-> key])
           /\ UNCHANGED checkout
  <2> DEFINE next == [op |-> "retake", customer |-> c, key |-> key]
  <2>1. Moves(h, next) /\ request[h].op = "idle"
    BY <1>5, BeginMoves
  <2>2. Shaped(next) /\ next.op = "retake" /\ next.key = key /\ request[h].op \notin Working
    BY <1>5, <2>1 DEF Shaped, Working, Trying
  <2> HIDE DEF next
  <2>3. Typed'
    BY <1>1, <1>5, <2>1, <2>2, TypedAfter DEF Names
  <2>4. KeysHold'
    <3>1. \A k \in Key \ (overtaken' \cup {key}) : Alone(k)' /\ Unclaimed(k)' /\ Recorded(k)'
      BY <1>1, <1>2, <1>5, <2>1, <2>2, OtherKeysHold
    <3>2. ASSUME key \notin overtaken
          PROVE  Alone(key)' /\ Unclaimed(key)' /\ Recorded(key)'
      <4>1. Alone(key) /\ Unclaimed(key) /\ Recorded(key)
        BY <1>5, <3>2 DEF KeysHold
      <4>2. \A g \in Handler : ~Tries(g, key)
        BY <1>5, <4>1 DEF Alone
      <4>3. \A o \in DOMAIN order : ~Has(key, o)
        BY <1>5, <4>1, <4>2 DEF Recorded
      <4>4. \A g \in Handler : ~Tries(g, key)'
        BY <1>5, <2>1, <2>2, <4>2, OthersStay, ZenonT(90) DEF Moves, Tries, Trying
      <4>5. checkout'[key].owner # NoKey /\ checkout'[key].order = 0
        BY <1>5, CheckoutAssumption
      <4> QED
        BY <1>1, <1>2, <1>5, <4>3, <4>4, <4>5 DEF Alone, Unclaimed, Recorded
    <3> QED
      BY <1>1, <3>1, <3>2 DEF KeysHold
  <2>5. Counted' /\ Promised' /\ PerUserLimitHolds'
    BY <1>1, <2>1, <2>2, <2>3, LimitsAside
  <2> QED
    BY <2>3, <2>4, <2>5 DEF CheckoutInv
<1> QED
  BY <1>3, <1>4, <1>5 DEF createOrderIdempotent

LEMMA RetakeHolds ==
    ASSUME CheckoutInv, NEW h \in Handler, Retake(h)
    PROVE  CheckoutInv'
<1> USE InvParts
<1> PICK key : key = request[h].key
  OBVIOUS
<1> DEFINE next == Place(request[h].customer, key)
<1>1. /\ request[h].op = "retake" /\ Goto(h, next)
      /\ checkout' = [checkout EXCEPT ![key].status = "started", ![key].fresh = TRUE]
      /\ overtaken' = IF WorkingUnder(key, Handler \ {h}) THEN overtaken \cup {key} ELSE overtaken
      /\ UNCHANGED <<order, coupon>>
  BY DEF Retake, At
<1>2. key \in Key /\ request[h].customer \in Customer
  BY <1>1 DEF Typed, Shaped
<1>3. Shaped(next) /\ next.op = "read_bag" /\ next.key = key
  BY <1>2 DEF Shaped, Place, Working, Trying
<1>4. Moves(h, next) /\ \A g \in Handler \ {h} : request'[g] = request[g]
  BY <1>1, GotoMoves
<1>5. /\ checkout' \in [Key -> Session]
      /\ checkout'[key].status = "started" /\ checkout'[key].fresh
      /\ checkout'[key].order = checkout[key].order
      /\ \A k \in Key \ {key} : checkout'[k] = checkout[k]
  <2>1. checkout \in [Key -> Session] /\ checkout[key] \in Session
    BY <1>2 DEF Typed
  <2> DEFINE s == [[checkout[key] EXCEPT !.status = "started"] EXCEPT !.fresh = TRUE]
  <2>2. s \in Session /\ s.status = "started" /\ s.fresh /\ s.order = checkout[key].order
    BY <2>1 DEF Session
  <2>3. checkout' = [checkout EXCEPT ![key] = s]
    BY <1>1, <1>2, <2>1
  <2> HIDE DEF s
  <2> QED BY <1>2, <2>1, <2>2, <2>3
<1> HIDE DEF next
<1>6. Typed'
  BY <1>1, <1>2, <1>3, <1>4, <1>5, TypedAfter DEF Names
<1>7. \A k \in Key, o \in DOMAIN order' : Has(k, o)' => o \in DOMAIN order /\ Has(k, o)
  BY <1>1 DEF Has
<1>8. KeysHold'
  <2>1. \A k \in Key \ (overtaken' \cup {key}) : Alone(k)' /\ Unclaimed(k)' /\ Recorded(k)'
    <3>1. overtaken \subseteq overtaken' /\ (request[h].op \in Working => request[h].key = key)
      BY <1>1
    <3> QED
      BY <1>3, <1>4, <1>5, <1>7, <3>1, OtherKeysHold
  <2>2. ASSUME key \notin overtaken'
        PROVE  Alone(key)' /\ Unclaimed(key)' /\ Recorded(key)'
    <3>1. key \notin overtaken /\ ~WorkingUnder(key, Handler \ {h})
      BY <1>1, <2>2
    <3>2. Alone(key) /\ Unclaimed(key) /\ Recorded(key) /\ Retakes(h, key)
      BY <1>1, <1>2, <3>1 DEF KeysHold, Retakes
    <3>3. \A g \in Handler \ {h} : ~Tries(g, key) /\ ~Retakes(g, key)
      BY <3>1 DEF WorkingUnder, Tries, Retakes, Trying
    <3>4. checkout[key].order = 0 /\ \A o \in DOMAIN order : ~Has(key, o)
      BY <3>2 DEF Unclaimed
    <3>5. \A g \in Handler : (Tries(g, key)' => g = h) /\ ~Retakes(g, key)'
      BY <1>3, <1>4, <3>3 DEF Moves, Tries, Retakes
    <3>6. \A o \in DOMAIN order' : ~Has(key, o)'
      BY <1>2, <1>7, <3>4
    <3>7. /\ checkout'[key].status = "started" /\ checkout'[key].fresh /\ checkout'[key].order = 0
          /\ \A g, k \in Handler : Tries(g, key)' /\ Tries(k, key)' => g = k
      BY <1>5, <3>4, <3>5
    <3>8. Alone(key)'
      BY <3>5, <3>6, <3>7 DEF Alone
    <3> QED
      BY <3>5, <3>6, <3>8 DEF Unclaimed, Recorded
  <2> QED
    BY <1>1, <2>1, <2>2 DEF KeysHold
<1>9. Counted' /\ Promised' /\ PerUserLimitHolds'
  BY <1>1, <1>3, <1>4, <1>6, LimitsAside
<1> QED
  BY <1>6, <1>8, <1>9 DEF CheckoutInv

\* An attempt goes on to a next step of its own, or gives its key up, without an
\* order.
LEMMA TriesOn ==
    ASSUME CheckoutInv, NEW h \in Handler, NEW next, Moves(h, next),
           request[h].op \in {"read_bag", "evaluate", "commit"},
           \/ next.op \in {"evaluate", "commit", "fail"} /\ next.key = request[h].key
           \/ next.op = "idle" /\ request[h].key = NoKey,
           UNCHANGED <<order, checkout, overtaken>>
    PROVE  KeysHold'
<1> USE InvParts
<1> PICK key : key = request[h].key
  OBVIOUS
<1>1. \A k \in Key, o \in DOMAIN order' : Has(k, o)' => o \in DOMAIN order /\ Has(k, o)
  BY DEF Has
<1>2. \A k \in Key \ (overtaken' \cup {key}) : Alone(k)' /\ Unclaimed(k)' /\ Recorded(k)'
  <2>1. next.op \in Working => next.key = key
    BY DEF Working, Trying
  <2> QED
    BY <1>1, <2>1, OtherKeysHold
<1>3. ASSUME key \in Key, key \notin overtaken
      PROVE  Alone(key)' /\ Unclaimed(key)' /\ Recorded(key)'
  <2>1. Alone(key) /\ Unclaimed(key) /\ Recorded(key)
    BY <1>3 DEF KeysHold
  <2>2. Tries(h, key) /\ request[h].op # "record" /\ Tries(h, key)' /\ next.op # "record"
    BY <1>3, CheckoutAssumption DEF Tries, Trying, Moves
  <2> QED
    BY <1>3, <2>1, <2>2, AttemptGoesOn
<1> QED
  BY <1>2, <1>3 DEF KeysHold

LEMMA ReadBagHolds ==
    ASSUME CheckoutInv, NEW h \in Handler, ReadBag(h)
    PROVE  CheckoutInv'
<1> USE InvParts
<1> DEFINE c    == request[h].customer
           key  == request[h].key
           bag  == [i \in Lines(c) |-> line[i].qty]
           next == IF Lines(c) = {} THEN Fail(key)
                   ELSE [op |-> "evaluate", customer |-> c, key |-> key, code |-> c \in coded,
                         bag |-> bag, stale |-> FALSE]
<1>1. request[h].op = "read_bag" /\ Goto(h, next)
      /\ UNCHANGED <<order, checkout, overtaken, coupon>>
  BY DEF ReadBag, At, orderVars
<1>2. c \in Customer /\ key \in Key \cup {NoKey}
  BY <1>1 DEF Typed, Shaped, Working, Trying
<1>3. /\ Shaped(next)
      /\ \/ next.op \in {"evaluate", "fail"} /\ next.key = key
         \/ next.op = "idle" /\ key = NoKey
  <2>1. CASE Lines(c) = {}
    BY <1>2, <2>1 DEF Fail, Idle, Shaped, Working, Trying
  <2>2. CASE Lines(c) # {}
    <3> HIDE DEF bag
    <3>1. /\ next \in Draft(bag) /\ next.bag = bag /\ next.op = "evaluate"
          /\ next.key = key /\ next.customer = c
      BY <1>2, <2>2 DEF Draft
    <3> QED
      BY <1>2, <3>1 DEF Shaped, Working, Trying
  <2> QED
    BY <2>1, <2>2
<1> HIDE DEF next
<1>4. Moves(h, next)
  BY <1>1, GotoMoves
<1>5. Typed'
  BY <1>1, <1>3, <1>4, TypedAfter DEF Names
<1>6. KeysHold'
  BY <1>1, <1>3, <1>4, TriesOn
<1>7. Counted' /\ Promised' /\ PerUserLimitHolds'
  BY <1>1, <1>3, <1>4, <1>5, LimitsAside
<1> QED
  BY <1>5, <1>6, <1>7 DEF CheckoutInv

LEMMA EvaluateHolds ==
    ASSUME CheckoutInv, NEW h \in Handler, Evaluate(h)
    PROVE  CheckoutInv'
<1> USE InvParts
<1> DEFINE r    == request[h]
           next == IF r.code /\ ~Usable(r.customer) THEN Fail(r.key) ELSE [r EXCEPT !.op = "commit"]
<1>1. r.op = "evaluate" /\ Goto(h, next) /\ UNCHANGED <<order, checkout, overtaken, coupon>>
  BY DEF Evaluate, At, orderVars
<1>2. r \in Draft(r.bag) /\ r.customer \in Customer /\ r.key \in Key \cup {NoKey}
  BY <1>1 DEF Typed, Shaped, Working, Trying
<1>3. /\ Shaped(next)
      /\ \/ next.op \in {"commit", "fail"} /\ next.key = r.key
         \/ next.op = "idle" /\ r.key = NoKey
      /\ next.op = "commit" /\ next.code => Usable(r.customer) /\ next.customer = r.customer
  <2>1. CASE r.code /\ ~Usable(r.customer)
    BY <1>2, <2>1 DEF Fail, Idle, Shaped, Working, Trying
  <2>2. CASE ~(r.code /\ ~Usable(r.customer))
    <3>1. /\ next \in Draft(next.bag) /\ next.op = "commit"
          /\ next.key = r.key /\ next.customer = r.customer /\ next.code = r.code
      BY <1>2, <2>2 DEF Draft
    <3> QED
      BY <1>2, <2>2, <3>1 DEF Shaped, Working, Trying
  <2> QED
    BY <2>1, <2>2
<1> HIDE DEF next
<1>4. Moves(h, next)
  BY <1>1, GotoMoves
<1>5. Typed'
  BY <1>1, <1>3, <1>4, TypedAfter DEF Names
<1>6. KeysHold'
  BY <1>1, <1>3, <1>4, TriesOn
<1>7. Counted' /\ PerUserLimitHolds'
  BY <1>1 DEF Counted, PerUserLimitHolds, Redeemed
<1>8. Promised'
  <2> SUFFICES ASSUME NEW g \in Handler, NEW c \in Customer,
                      request'[g].op = "commit", request'[g].customer = c,
                      request'[g].code, ~request'[g].stale
               PROVE  Cardinality(Redeemed(c)') < PerUserLimit
    BY DEF Promised
  <2>1. Redeemed(c)' = Redeemed(c)
    BY <1>1 DEF Redeemed
  <2>2. CASE g = h
    BY <1>3, <1>4, <2>1, <2>2 DEF Usable, Moves
  <2>3. CASE g # h
    BY <1>4, <2>1, <2>3, OthersStay DEF Promised
  <2> QED
    BY <2>2, <2>3
<1> QED
  BY <1>5, <1>6, <1>7, <1>8 DEF CheckoutInv

-----------------------------------------------------------------------------
(* The order is placed *)

\* What PlaceOrder does, of what the invariant speaks of.
Placed(h, row, next) ==
    /\ order' = Append(order, row) /\ row \in Order /\ row.status = "PLACED"
    /\ row.customer = request[h].customer /\ row.key = request[h].key
    /\ row.redeemed = request[h].code
    /\ coupon'.usageCount = IF request[h].code THEN coupon.usageCount + 1 ELSE coupon.usageCount
    /\ IF request[h].key = NoKey THEN next.op = "idle"
       ELSE next.op = "record" /\ next.key = request[h].key /\ next.order = Len(order) + 1
    /\ Moves(h, next)
    /\ request[h].code => \A g \in Handler \ {h} :
           request[g].op \in {"evaluate", "commit"} /\ request[g].code => request'[g].stale
    /\ request[h].code => coupon.usageCount < UsageLimit
    /\ UNCHANGED <<checkout, overtaken>>

LEMMA CommitPlaces ==
    ASSUME CheckoutInv, NEW h \in Handler, Commit(h)
    PROVE  /\ request[h].op = "commit"
           /\ \/ /\ Goto(h, Fail(request[h].key))
                 /\ UNCHANGED <<order, coupon, checkout, overtaken>>
              \/ /\ ~request[h].stale /\ coupon' \in Coupon
                 /\ \E row, next : Placed(h, row, next)
<1> USE InvParts
<1> DEFINE r == request[h]
<1>1. r.op = "commit" /\ UNCHANGED <<checkout, overtaken>>
  BY DEF Commit, At
<1>2. /\ r.customer \in Customer /\ r.key \in Key \cup {NoKey} /\ r.code \in BOOLEAN
  BY <1>1 DEF Typed, Shaped, Draft, Working, Trying
<1>3. CASE /\ ~r.stale /\ (r.code => coupon.status # "DELETED" /\ coupon.usageCount < UsageLimit)
           /\ PlaceOrder(h, r)
  <2> DEFINE row  == [customer |-> r.customer, key |-> r.key, status |-> "PLACED",
                      redeemed |-> r.code]
             next == IF r.key = NoKey THEN Idle
                     ELSE [op |-> "record", key |-> r.key, order |-> Len(order) + 1]
  <2>1. /\ order' = Append(order, row)
        /\ coupon' = IF r.code THEN [coupon EXCEPT !.usageCount = @ + 1] ELSE coupon
        /\ Write(h, next, DOMAIN r.bag, {r.customer}, r.code)
    BY <1>3 DEF PlaceOrder
  <2>2. /\ row \in Order /\ row.status = "PLACED" /\ row.customer = r.customer
        /\ row.key = r.key /\ row.redeemed = r.code
    BY <1>2 DEF Order, Statuses
  <2>3. /\ coupon' \in Coupon
        /\ coupon'.usageCount = IF r.code THEN coupon.usageCount + 1 ELSE coupon.usageCount
    BY <2>1 DEF Coupon
  <2>4. IF r.key = NoKey THEN next.op = "idle"
        ELSE next.op = "record" /\ next.key = r.key /\ next.order = Len(order) + 1
    BY DEF Idle
  <2> HIDE DEF row, next
  <2>5. /\ Moves(h, next)
        /\ r.code => \A g \in Handler \ {h} :
               request[g].op \in {"evaluate", "commit"} /\ request[g].code => request'[g].stale
    BY <1>2, <2>1, WriteMoves
  <2>6. Placed(h, row, next)
    BY <1>1, <1>3, <2>1, <2>2, <2>3, <2>4, <2>5 DEF Placed
  <2> QED
    BY <1>1, <1>3, <2>3, <2>6
<1>4. CASE Goto(h, Fail(r.key)) /\ UNCHANGED <<order, coupon, bought, line, coded>>
  BY <1>1, <1>4
<1> QED
  BY <1>3, <1>4 DEF Commit

LEMMA PlacedTyped ==
    ASSUME CheckoutInv, NEW h \in Handler, request[h].op = "commit", coupon' \in Coupon,
           NEW row, NEW next, Placed(h, row, next)
    PROVE  /\ Typed' /\ Len(order) + 1 \notin DOMAIN order
           /\ DOMAIN order' = DOMAIN order \cup {Len(order) + 1}
           /\ order'[Len(order) + 1] = row
           /\ \A o \in DOMAIN order : order'[o] = order[o]
<1> USE InvParts
<1>1. /\ order' \in Seq(Order) /\ DOMAIN order' = DOMAIN order \cup {Len(order) + 1}
      /\ order'[Len(order) + 1] = row /\ Len(order) + 1 \notin DOMAIN order
      /\ \A o \in DOMAIN order : order'[o] = order[o]
  BY DEF Placed
<1>2. request[h].key \in Key \cup {NoKey}
  BY DEF Typed, Shaped, Working, Trying
<1>3. Shaped(next) /\ Names(next, order')
  <2>1. CASE request[h].key = NoKey
    BY <2>1 DEF Placed, Shaped, Names, Working, Trying
  <2>2. CASE request[h].key # NoKey
    <3>1. /\ next.op = "record" /\ next.key \in Key /\ next.order = Len(order) + 1
          /\ Len(order) \in Nat
      BY <1>2, <2>2 DEF Placed
    <3> QED
      BY <3>1 DEF Shaped, Names, Working, Trying
  <2> QED
    BY <2>1, <2>2
<1> QED
  BY <1>1, <1>3, TypedAfter DEF Placed

LEMMA PlacedKeys ==
    ASSUME CheckoutInv, NEW h \in Handler, request[h].op = "commit", coupon' \in Coupon,
           NEW row, NEW next, Placed(h, row, next)
    PROVE  KeysHold'
<1> USE InvParts, PlacedTyped
<1> PICK key : key = request[h].key
  OBVIOUS
<1>1. Moves(h, next) /\ (next.op \in Working => next.op = "record" /\ next.key = key)
      /\ UNCHANGED <<checkout, overtaken>>
  BY DEF Placed, Working, Trying
<1>2. \A k \in Key, o \in DOMAIN order' :
          Has(k, o)' => \/ o \in DOMAIN order /\ Has(k, o)
                        \/ o = Len(order) + 1 /\ k = key
  BY DEF Placed, Has
<1>3. \A k \in Key \ (overtaken' \cup {key}) : Alone(k)' /\ Unclaimed(k)' /\ Recorded(k)'
  <2>1. \A k \in Key \ {key}, o \in DOMAIN order' : Has(k, o)' => o \in DOMAIN order /\ Has(k, o)
    BY <1>2
  <2> QED
    BY <1>1, <2>1, OtherKeysHold
<1>4. ASSUME key \in Key, key \notin overtaken
      PROVE  Alone(key)' /\ Unclaimed(key)' /\ Recorded(key)'
  <2>1. Alone(key) /\ Unclaimed(key) /\ Recorded(key) /\ Tries(h, key)
    BY <1>4 DEF KeysHold, Tries, Trying
  <2>2. next.op = "record" /\ next.key = key /\ next.order = Len(order) + 1
    BY <1>4, CheckoutAssumption DEF Placed
  <2>3. \A g \in Handler : (Tries(g, key)' => g = h) /\ ~Retakes(g, key)'
    BY <1>1, <1>4, <2>1, <2>2, OthersStay DEF Alone, Unclaimed, Moves, Retakes
  <2>4. \A o \in DOMAIN order' : Has(key, o)' => o = Len(order) + 1
    BY <1>2, <1>4, <2>1 DEF Alone
  <2>5. Tries(h, key)' /\ request'[h].op = "record" /\ request'[h].order = Len(order) + 1
    BY <1>1, <2>2 DEF Tries, Trying, Moves
  <2>6. Alone(key)'
    BY <1>1, <2>1, <2>3, <2>5 DEF Alone
  <2>7. Recorded(key)'
    BY <2>4, <2>5 DEF Recorded
  <2> QED
    BY <2>3, <2>6, <2>7 DEF Unclaimed
<1> QED
  BY <1>1, <1>3, <1>4 DEF KeysHold

LEMMA PlacedLimits ==
    ASSUME CheckoutInv, NEW h \in Handler, request[h].op = "commit", ~request[h].stale,
           coupon' \in Coupon, NEW row, NEW next, Placed(h, row, next)
    PROVE  Counted' /\ Promised' /\ PerUserLimitHolds'
<1> USE InvParts, PlacedTyped
<1> DEFINE n == Len(order) + 1
           r == request[h]
<1>0. NoneToldGood \/ request[h].code
  BY OthersNotTold DEF Placed
<1>1. CASE ~r.code
  <2>1. \A c : Redeemed(c)' \subseteq Redeemed(c)
    BY <1>1 DEF Placed, Redeemed
  <2>2. coupon'.usageCount = coupon.usageCount
    BY <1>1 DEF Placed
  <2> QED
    BY <1>0, <1>1, <2>1, <2>2, LimitsStay
<1>2. CASE r.code
  <2>1. ASSUME NEW c
        PROVE  /\ c = NoKey \/ c = r.customer => Redeemed(c)' = Redeemed(c) \cup {n}
               /\ ~(c = NoKey \/ c = r.customer) => Redeemed(c)' = Redeemed(c)
               /\ n \notin Redeemed(c)
    <3>1. /\ DOMAIN order' = DOMAIN order \cup {n} /\ n \notin DOMAIN order
          /\ order'[n].redeemed /\ order'[n].customer = r.customer
          /\ \A o \in DOMAIN order : order'[o] = order[o]
      BY <1>2 DEF Placed
    <3> HIDE DEF n, r
    <3>2. \A o : o \in Redeemed(c)' <=>
              \/ o \in Redeemed(c)
              \/ o = n /\ (c = NoKey \/ c = r.customer)
      BY <3>1 DEF Redeemed
    <3>3. n \notin Redeemed(c)
      BY <3>1 DEF Redeemed
    <3>4. ASSUME c = NoKey \/ c = r.customer
          PROVE  Redeemed(c)' = Redeemed(c) \cup {n}
      BY <3>2, <3>4
    <3>5. ASSUME ~(c = NoKey \/ c = r.customer)
          PROVE  Redeemed(c)' = Redeemed(c)
      <4>1. \A o : o \in Redeemed(c)' <=> o \in Redeemed(c)
        BY <3>2, <3>5
      <4>2. Redeemed(c)' \subseteq DOMAIN order' /\ Redeemed(c) \subseteq DOMAIN order
        BY DEF Redeemed
      <4> QED
        BY <4>1, <4>2
    <3> QED
      BY <3>3, <3>4, <3>5
  <2>2. ASSUME NEW c
        PROVE  /\ Cardinality(Redeemed(c)) \in Nat /\ Cardinality(Redeemed(c)') \in Nat
               /\ c = NoKey \/ c = r.customer =>
                     Cardinality(Redeemed(c)') = Cardinality(Redeemed(c)) + 1
               /\ ~(c = NoKey \/ c = r.customer) =>
                     Cardinality(Redeemed(c)') = Cardinality(Redeemed(c))
    BY <2>1, RedeemedFinite, FS_AddElement
  <2>3. /\ UsageLimit \in Nat /\ PerUserLimit \in Nat /\ coupon.usageCount \in Nat
        /\ NoKey \notin Customer
    BY CheckoutAssumption DEF Coupon
  <2>4. Counted'
    BY <1>2, <2>2, <2>3 DEF Counted, Placed
  <2>5. PerUserLimitHolds'
    <3> SUFFICES ASSUME NEW c \in Customer
                 PROVE  Cardinality(Redeemed(c)') <= PerUserLimit
      BY DEF PerUserLimitHolds
    <3>1. c # NoKey
      BY <2>3
    <3>2. CASE c = r.customer
      <4>1. Cardinality(Redeemed(c)) < PerUserLimit
        BY <1>2, <3>2 DEF Promised
      <4> QED
        BY <2>2, <2>3, <3>2, <4>1
    <3>3. CASE c # r.customer
      BY <2>2, <2>3, <3>1, <3>3 DEF PerUserLimitHolds
    <3> QED
      BY <3>2, <3>3
  <2>6. Promised'
    <3> SUFFICES ASSUME NEW g \in Handler, request'[g].op = "commit", request'[g].code,
                        ~request'[g].stale
                 PROVE  FALSE
      BY DEF Promised
    <3>1. g # h /\ request'[g] = request[g]
      BY OthersStay DEF Placed, Moves
    <3> QED
      BY <1>2, <3>1 DEF Placed
  <2> QED
    BY <2>4, <2>5, <2>6
<1> QED
  BY <1>1, <1>2

LEMMA CommitHolds ==
    ASSUME CheckoutInv, NEW h \in Handler, Commit(h)
    PROVE  CheckoutInv'
<1> USE InvParts
<1>1. request[h].op = "commit" /\ request[h].key \in Key \cup {NoKey}
  BY CommitPlaces DEF Typed, Shaped, Working, Trying
<1>2. CASE Goto(h, Fail(request[h].key)) /\ UNCHANGED <<order, coupon, checkout, overtaken>>
  <2> PICK next : next = Fail(request[h].key)
    OBVIOUS
  <2>1. /\ Shaped(next)
        /\ \/ next.op = "fail" /\ next.key = request[h].key
           \/ next.op = "idle" /\ request[h].key = NoKey
    BY <1>1 DEF Fail, Idle, Shaped, Working, Trying
  <2>2. Moves(h, next)
    BY <1>2, GotoMoves
  <2>3. Typed'
    BY <1>2, <2>1, <2>2, TypedAfter DEF Names
  <2>4. KeysHold'
    BY <1>1, <1>2, <2>1, <2>2, TriesOn
  <2>5. Counted' /\ Promised' /\ PerUserLimitHolds'
    BY <1>2, <2>1, <2>2, <2>3, LimitsAside
  <2> QED
    BY <2>3, <2>4, <2>5 DEF CheckoutInv
<1>3. CASE ~request[h].stale /\ coupon' \in Coupon /\ \E row, next : Placed(h, row, next)
  BY <1>1, <1>3, PlacedTyped, PlacedKeys, PlacedLimits DEF CheckoutInv
<1> QED
  BY <1>2, <1>3, CommitPlaces

-----------------------------------------------------------------------------
(* The end of a checkout *)

LEMMA RecordHolds ==
    ASSUME CheckoutInv, NEW h \in Handler, Record(h)
    PROVE  CheckoutInv'
<1> USE InvParts
<1> PICK key : key = request[h].key
  OBVIOUS
<1>1. /\ request[h].op = "record" /\ Goto(h, Idle)
      /\ checkout' = [checkout EXCEPT ![key].status = "completed", ![key].order = request[h].order]
      /\ UNCHANGED <<order, coupon, overtaken>>
  BY DEF Record, At
<1>2. key \in Key /\ request[h].order \in Nat
  BY <1>1 DEF Typed, Shaped
<1>3. Moves(h, Idle) /\ Idle.op = "idle" /\ Shaped(Idle) /\ Names(Idle, order')
  BY <1>1, GotoMoves DEF Idle, Shaped, Names, Working, Trying
<1>4. /\ checkout' \in [Key -> Session] /\ checkout'[key].order = request[h].order
      /\ \A k \in Key \ {key} : checkout'[k] = checkout[k]
  <2>1. checkout \in [Key -> Session] /\ checkout[key] \in Session
    BY <1>2 DEF Typed
  <2> DEFINE s == [[checkout[key] EXCEPT !.status = "completed"] EXCEPT !.order = request[h].order]
  <2>2. s \in Session /\ s.order = request[h].order
    BY <1>2, <2>1 DEF Session
  <2>3. checkout' = [checkout EXCEPT ![key] = s]
    BY <1>1, <1>2, <2>1
  <2> HIDE DEF s
  <2> QED BY <1>2, <2>1, <2>2, <2>3
<1>5. Typed'
  BY <1>1, <1>3, <1>4, TypedAfter
<1>6. \A k \in Key, o \in DOMAIN order' : Has(k, o)' => o \in DOMAIN order /\ Has(k, o)
  BY <1>1 DEF Has
<1>7. KeysHold'
  <2>1. \A k \in Key \ (overtaken' \cup {key}) : Alone(k)' /\ Unclaimed(k)' /\ Recorded(k)'
    BY <1>1, <1>3, <1>4, <1>6, OtherKeysHold DEF Working, Trying
  <2>2. ASSUME key \notin overtaken
        PROVE  Alone(key)' /\ Unclaimed(key)' /\ Recorded(key)'
    <3>1. Alone(key) /\ Unclaimed(key) /\ Recorded(key) /\ Tries(h, key)
      BY <1>1, <1>2, <2>2 DEF KeysHold, Tries, Trying
    <3>2. \A g \in Handler : ~Tries(g, key)' /\ ~Retakes(g, key)'
      <4>1. ~Tries(h, key)' /\ ~Retakes(h, key)'
        BY <1>3 DEF Moves, Retakes, Tries, Trying
      <4>2. \A g \in Handler : ~Retakes(g, key) /\ (Tries(g, key) => g = h)
        BY <3>1 DEF Alone, Unclaimed
      <4>3. \A g \in Handler \ {h} : /\ Tries(g, key)' <=> Tries(g, key)
                                     /\ Retakes(g, key)' <=> Retakes(g, key)
        BY <1>2, <1>3, OthersStay
      <4> QED
        BY <4>1, <4>2, <4>3
    <3>3. \A o \in DOMAIN order : o # 0
      OBVIOUS
    <3>4. \A o \in DOMAIN order : Has(key, o) => o = request[h].order
      BY <3>1, <3>3 DEF Recorded, Alone
    <3>5. Recorded(key)'
      BY <1>2, <1>4, <1>6, <3>4 DEF Recorded
    <3> QED
      BY <3>2, <3>5 DEF Alone, Unclaimed
  <2> QED
    BY <1>1, <2>1, <2>2 DEF KeysHold
<1>8. Counted' /\ Promised' /\ PerUserLimitHolds'
  BY <1>1, <1>3, <1>5, LimitsAside
<1> QED
  BY <1>5, <1>7, <1>8 DEF CheckoutInv

LEMMA RecordFailureHolds ==
    ASSUME CheckoutInv, NEW h \in Handler, RecordFailure(h)
    PROVE  CheckoutInv'
<1> USE InvParts
<1> PICK key : key = request[h].key
  OBVIOUS
<1>1. /\ request[h].op = "fail" /\ Goto(h, Idle)
      /\ checkout' = [checkout EXCEPT ![key].status = "failed"]
      /\ UNCHANGED <<order, coupon, overtaken>>
  BY DEF RecordFailure, At
<1>2. key \in Key
  BY <1>1 DEF Typed, Shaped
<1>3. Moves(h, Idle) /\ Idle.op = "idle" /\ Shaped(Idle) /\ Names(Idle, order')
  BY <1>1, GotoMoves DEF Idle, Shaped, Names, Working, Trying
<1>4. /\ checkout' \in [Key -> Session]
      /\ \A k \in Key \ {key} : checkout'[k] = checkout[k]
  <2>1. checkout \in [Key -> Session] /\ checkout[key] \in Session
    BY <1>2 DEF Typed
  <2>2. [checkout[key] EXCEPT !.status = "failed"] \in Session
    BY <2>1 DEF Session
  <2> QED BY <1>1, <1>2, <2>1, <2>2
<1>5. Typed'
  BY <1>1, <1>3, <1>4, TypedAfter
<1>6. \A k \in Key, o \in DOMAIN order' : Has(k, o)' => o \in DOMAIN order /\ Has(k, o)
  BY <1>1 DEF Has
<1>7. KeysHold'
  <2>1. \A k \in Key \ (overtaken' \cup {key}) : Alone(k)' /\ Unclaimed(k)' /\ Recorded(k)'
    BY <1>1, <1>3, <1>4, <1>6, OtherKeysHold DEF Working, Trying
  <2>2. ASSUME key \notin overtaken
        PROVE  Alone(key)' /\ Unclaimed(key)' /\ Recorded(key)'
    <3>1. /\ Alone(key) /\ Unclaimed(key) /\ Recorded(key)
          /\ Tries(h, key) /\ ~Retakes(h, key) /\ ~Tries(h, key)' /\ ~Retakes(h, key)'
      BY <1>1, <1>2, <1>3, <2>2 DEF KeysHold, Tries, Retakes, Trying, Moves
    <3> QED
      BY <1>1, <1>2, <1>3, <3>1, AttemptEnds
  <2> QED
    BY <1>1, <2>1, <2>2 DEF KeysHold
<1>8. Counted' /\ Promised' /\ PerUserLimitHolds'
  BY <1>1, <1>3, <1>5, LimitsAside
<1> QED
  BY <1>5, <1>7, <1>8 DEF CheckoutInv

LEMMA StopHolds ==
    ASSUME CheckoutInv, NEW h \in Handler, Stop(h)
    PROVE  CheckoutInv'
<1> USE InvParts
<1> PICK key : key = request[h].key
  OBVIOUS
<1>1. /\ Goto(h, Idle) /\ UNCHANGED <<order, coupon, checkout>>
      /\ overtaken' = IF request[h].op = "record" THEN overtaken \cup {key} ELSE overtaken
  BY DEF Stop
<1>2. request[h].op = "record" => key \in Key
  BY DEF Typed, Shaped
<1>3. Moves(h, Idle) /\ Idle.op = "idle" /\ Shaped(Idle) /\ Names(Idle, order')
  BY <1>1, GotoMoves DEF Idle, Shaped, Names, Working, Trying
<1>4. Typed'
  BY <1>1, <1>2, <1>3, TypedAfter
<1>5. \A k \in Key, o \in DOMAIN order' : Has(k, o)' => o \in DOMAIN order /\ Has(k, o)
  BY <1>1 DEF Has
<1>6. KeysHold'
  <2>1. \A k \in Key \ (overtaken' \cup {key}) : Alone(k)' /\ Unclaimed(k)' /\ Recorded(k)'
    BY <1>1, <1>3, <1>5, OtherKeysHold, ZenonT(90) DEF Working, Trying
  <2>2. ASSUME key \in Key, key \notin overtaken'
        PROVE  Alone(key)' /\ Unclaimed(key)' /\ Recorded(key)'
    <3>1. /\ Alone(key) /\ Unclaimed(key) /\ Recorded(key) /\ request[h].op # "record"
          /\ ~Tries(h, key)' /\ ~Retakes(h, key)'
      BY <1>1, <1>3, <2>2 DEF KeysHold, Tries, Retakes, Trying, Moves
    <3>2. CASE Tries(h, key) \/ Retakes(h, key)
      BY <1>1, <1>3, <2>2, <3>1, <3>2, AttemptEnds
    <3>3. CASE ~Tries(h, key) /\ ~Retakes(h, key)
      BY <1>1, <1>3, <1>5, <2>2, <3>1, <3>3, ElsewhereHolds
    <3> QED
      BY <3>2, <3>3
  <2> QED
    BY <1>1, <2>1, <2>2 DEF KeysHold
<1>7. Counted' /\ Promised' /\ PerUserLimitHolds'
  BY <1>1, <1>3, <1>4, LimitsAside
<1> QED
  BY <1>4, <1>6, <1>7 DEF CheckoutInv

\* CHECKOUT_SESSION_TTL_MS passes: a key somebody works under is then one of
\* the overtaken.
LEMMA LapseHolds ==
    ASSUME CheckoutInv, NEW key \in Key, Lapse(key)
    PROVE  CheckoutInv'
<1> USE InvParts
<1>1. /\ checkout' = [checkout EXCEPT ![key].fresh = FALSE]
      /\ overtaken' = IF WorkingUnder(key, Handler) THEN overtaken \cup {key} ELSE overtaken
      /\ UNCHANGED <<order, coupon, request>>
  BY DEF Lapse
<1>2. /\ checkout' \in [Key -> Session] /\ checkout'[key].order = checkout[key].order
      /\ checkout'[key].owner = checkout[key].owner
      /\ \A k \in Key \ {key} : checkout'[k] = checkout[k]
  BY <1>1 DEF Session
<1>3. Typed'
  BY <1>1, <1>2 DEF Typed
<1>4. KeysHold'
  <2> SUFFICES ASSUME NEW k \in Key \ overtaken'
               PROVE  Alone(k)' /\ Unclaimed(k)' /\ Recorded(k)'
    BY DEF KeysHold
  <2>1. Alone(k) /\ Unclaimed(k) /\ Recorded(k)
    BY <1>1 DEF KeysHold
  <2>2. /\ \A o \in DOMAIN order : Has(k, o)' <=> Has(k, o)
        /\ \A g \in Handler : (Tries(g, k)' <=> Tries(g, k)) /\ (Retakes(g, k)' <=> Retakes(g, k))
        /\ checkout'[k].order = checkout[k].order /\ checkout'[k].owner = checkout[k].owner
    BY <1>1, <1>2 DEF Has, Tries, Retakes
  <2>3. Alone(k)'
    <3>1. CASE k = key
      BY <1>1, <2>2, <3>1 DEF WorkingUnder, Alone, Tries, Trying
    <3>2. CASE k # key
      BY <1>1, <1>2, <2>1, <2>2, <3>2 DEF Alone
    <3> QED
      BY <3>1, <3>2
  <2>4. Unclaimed(k)'
    BY <1>1, <2>1, <2>2 DEF Unclaimed
  <2>5. Recorded(k)'
    BY <1>1, <2>1, <2>2 DEF Recorded
  <2> QED
    BY <2>3, <2>4, <2>5
<1>5. Counted' /\ Promised' /\ PerUserLimitHolds'
  BY <1>1 DEF Counted, Promised, PerUserLimitHolds, Redeemed
<1> QED
  BY <1>3, <1>4, <1>5 DEF CheckoutInv

-----------------------------------------------------------------------------
(* Staff *)

LEMMA CancelHolds ==
    ASSUME CheckoutInv, NEW h \in Handler, CancelCommit(h)
    PROVE  CheckoutInv'
<1> USE InvParts
<1> PICK o, found : o = request[h].order /\ found = request[h].found
  OBVIOUS
<1>1. request[h].op = "release" /\ o \in DOMAIN order /\ UNCHANGED <<checkout, overtaken>>
  BY DEF CancelCommit, At, Typed, Names
<1>2. Idle.op = "idle" /\ Shaped(Idle) /\ Names(Idle, order')
  BY DEF Idle, Shaped, Names, Working, Trying
<1>3. CASE /\ order[o].status # "DELETED" /\ (found => order[o].redeemed)
           /\ order' = [order EXCEPT ![o].status = "CANCELLED", ![o].redeemed = @ /\ ~found]
           /\ coupon' = IF found THEN [coupon EXCEPT !.usageCount = @ - 1] ELSE coupon
           /\ Write(h, Idle, {}, {}, found)
  <2>1. Moves(h, Idle)
    BY <1>3, WriteMoves
  <2>2. order[o] \in Order
    BY <1>1
  <2>3. /\ order' \in Seq(Order) /\ DOMAIN order' = DOMAIN order
        /\ \A p \in DOMAIN order : p # o => order'[p] = order[p]
        /\ order'[o].key = order[o].key /\ order'[o].customer = order[o].customer
        /\ order'[o].redeemed => order[o].redeemed /\ ~found
    <3>1. /\ order' = [p \in DOMAIN order |-> order'[p]]
          /\ \A p \in DOMAIN order : p # o => order'[p] = order[p]
          /\ order'[o] = [order[o] EXCEPT !.status = "CANCELLED", !.redeemed = @ /\ ~found]
      BY <1>1, <1>3
    <3>2. /\ order'[o] \in Order
          /\ order'[o].key = order[o].key /\ order'[o].customer = order[o].customer
          /\ order'[o].redeemed => order[o].redeemed /\ ~found
      BY <2>2, <3>1 DEF Order, Statuses
    <3>3. order' \in Seq(Order) /\ DOMAIN order' = DOMAIN order
      BY <3>1, <3>2, RowsRewritten
    <3> QED
      BY <3>1, <3>2, <3>3
  <2>4. \A k \in Key, p \in DOMAIN order' : Has(k, p)' => p \in DOMAIN order /\ Has(k, p)
    BY <1>3, <2>3 DEF Has
  <2>5. \A c : Redeemed(c)' \subseteq Redeemed(c)
    BY <2>3 DEF Redeemed
  <2>6. found => o \in Redeemed(NoKey) /\ o \notin Redeemed(NoKey)'
    BY <1>1, <1>3, <2>3 DEF Redeemed
  <2>7. IsFiniteSet(Redeemed(NoKey)) /\ Cardinality(Redeemed(NoKey)) \in Nat
    BY RowsAreFinite DEF Redeemed
  <2>8. found => Cardinality(Redeemed(NoKey)') + 1 <= Cardinality(Redeemed(NoKey))
    <3> SUFFICES ASSUME found
                 PROVE  Cardinality(Redeemed(NoKey)') + 1 <= Cardinality(Redeemed(NoKey))
      OBVIOUS
    <3>1. Redeemed(NoKey)' \subseteq Redeemed(NoKey) \ {o}
      BY <2>5, <2>6
    <3>2. /\ Cardinality(Redeemed(NoKey) \ {o}) = Cardinality(Redeemed(NoKey)) - 1
          /\ IsFiniteSet(Redeemed(NoKey) \ {o})
      BY <2>6, <2>7, FS_RemoveElement, ZenonT(90)
    <3>3. /\ Cardinality(Redeemed(NoKey)') <= Cardinality(Redeemed(NoKey) \ {o})
          /\ Cardinality(Redeemed(NoKey)') \in Nat
      BY <3>1, <3>2, FS_Subset, FS_CardinalityType
    <3> QED
      BY <2>7, <3>2, <3>3
  <2>9. coupon' \in Coupon
    <3>1. found => Cardinality(Redeemed(NoKey)) # 0
      BY <2>6, <2>7, FS_EmptySet
    <3>2. coupon.usageCount \in Nat /\ (found => coupon.usageCount - 1 \in Nat)
      BY <2>7, <3>1 DEF Counted, Coupon
    <3> QED
      BY <1>3, <3>2 DEF Coupon
  <2>10. Typed'
    BY <1>1, <1>2, <2>1, <2>3, <2>9, TypedAfter
  <2>11. KeysHold'
    BY <1>1, <1>2, <2>1, <2>4, KeysStay DEF Working, Trying
  <2>12. Promised' /\ PerUserLimitHolds'
         /\ Cardinality(Redeemed(NoKey)') <= Cardinality(Redeemed(NoKey))
    BY <1>2, <2>1, <2>5, <2>10, OthersNotTold, UsersStay
  <2>13. Counted'
    <3>1. UsageLimit \in Nat /\ coupon.usageCount \in Nat
          /\ Cardinality(Redeemed(NoKey)') \in Nat
      BY <2>10, CheckoutAssumption, RedeemedFinite DEF Coupon
    <3>2. coupon'.usageCount = IF found THEN coupon.usageCount - 1 ELSE coupon.usageCount
      BY <1>3 DEF Coupon
    <3> QED
      BY <2>7, <2>8, <2>12, <3>1, <3>2 DEF Counted
  <2> QED
    BY <2>10, <2>11, <2>12, <2>13 DEF CheckoutInv
<1>4. CASE Goto(h, Idle) /\ UNCHANGED <<order, coupon>>
  <2>1. Moves(h, Idle)
    BY <1>4, GotoMoves
  <2>2. Typed'
    BY <1>1, <1>2, <1>4, <2>1, TypedAfter
  <2>3. \A k \in Key, p \in DOMAIN order' : Has(k, p)' => p \in DOMAIN order /\ Has(k, p)
    BY <1>4 DEF Has
  <2>4. KeysHold'
    BY <1>1, <1>2, <2>1, <2>3, KeysStay DEF Working, Trying
  <2>5. Counted' /\ Promised' /\ PerUserLimitHolds'
    BY <1>2, <1>4, <2>1, <2>2, LimitsAside
  <2> QED
    BY <2>2, <2>4, <2>5 DEF CheckoutInv
<1> QED
  BY <1>3, <1>4 DEF CancelCommit

\* updateCoupon and retireCoupon write the coupon's status, and redemptions go
\* with a coupon that goes.
LEMMA CouponStepHolds ==
    ASSUME CheckoutInv, NEW h \in Handler, Moves(h, Idle), request[h].op \notin Working,
           coupon' \in Coupon, coupon'.usageCount = coupon.usageCount,
           order' = order \/ order' = [o \in DOMAIN order |-> [order[o] EXCEPT !.redeemed = FALSE]],
           UNCHANGED <<checkout, overtaken>>
    PROVE  CheckoutInv'
<1> USE InvParts
<1>1. Idle.op = "idle" /\ Shaped(Idle) /\ Names(Idle, order')
  BY DEF Idle, Shaped, Names, Working, Trying
<1>2. \A o \in DOMAIN order : order[o] \in Order
  OBVIOUS
<1>3. /\ order' \in Seq(Order) /\ DOMAIN order' = DOMAIN order
      /\ \A o \in DOMAIN order : /\ order'[o].key = order[o].key
                                 /\ order'[o].customer = order[o].customer
                                 /\ order'[o].status = order[o].status
                                 /\ order'[o].redeemed => order[o].redeemed
  <2>1. CASE order' = order
    BY <2>1
  <2>2. CASE order' = [o \in DOMAIN order |-> [order[o] EXCEPT !.redeemed = FALSE]]
    <3>1. \A o \in DOMAIN order : order'[o] = [order[o] EXCEPT !.redeemed = FALSE]
      BY <2>2
    <3>2. \A o \in DOMAIN order : /\ order'[o] \in Order /\ order'[o].key = order[o].key
                                  /\ order'[o].customer = order[o].customer
                                  /\ order'[o].status = order[o].status
                                  /\ ~order'[o].redeemed
      BY <1>2, <3>1 DEF Order
    <3>3. order' = [o \in DOMAIN order |-> order'[o]]
      BY <2>2
    <3>4. order' \in Seq(Order) /\ DOMAIN order' = DOMAIN order
      BY <3>2, <3>3, RowsRewritten
    <3> QED
      BY <3>2, <3>4
  <2> QED
    BY <2>1, <2>2
<1>4. Typed'
  BY <1>1, <1>3, TypedAfter
<1>5. KeysHold'
  <2>1. \A k \in Key, o \in DOMAIN order' : Has(k, o)' => o \in DOMAIN order /\ Has(k, o)
    BY <1>3 DEF Has
  <2> QED
    BY <1>1, <2>1, KeysStay DEF Working, Trying
<1>6. Counted' /\ Promised' /\ PerUserLimitHolds'
  <2>1. \A c : Redeemed(c)' \subseteq Redeemed(c)
    BY <1>3 DEF Redeemed
  <2> QED
    BY <1>1, <1>4, <2>1, OthersNotTold, LimitsStay
<1> QED
  BY <1>4, <1>5, <1>6 DEF CheckoutInv

LEMMA UpdateCouponHolds ==
    ASSUME CheckoutInv, NEW h \in Handler, NEW status \in {"ACTIVE", "PAUSED"},
           updateCoupon(h, status)
    PROVE  CheckoutInv'
<1> USE InvParts
<1>1. Moves(h, Idle)
  BY WriteMoves DEF updateCoupon
<1>2. request[h].op \notin Working
  BY DEF updateCoupon, Idle, Working, Trying
<1>3. coupon' \in Coupon /\ coupon'.usageCount = coupon.usageCount
  BY DEF updateCoupon, Coupon
<1>4. UNCHANGED <<order, checkout, overtaken>>
  BY DEF updateCoupon
<1> QED
  BY <1>1, <1>2, <1>3, <1>4, CouponStepHolds

LEMMA RetireCommitHolds ==
    ASSUME CheckoutInv, NEW h \in Handler, RetireCommit(h)
    PROVE  CheckoutInv'
<1> USE InvParts
<1>1. Moves(h, Idle)
  BY WriteMoves DEF RetireCommit
<1>2. request[h].op \notin Working
  BY DEF RetireCommit, At, Working, Trying
<1>3. coupon' \in Coupon /\ coupon'.usageCount = coupon.usageCount
  BY DEF RetireCommit, Coupon
<1>4. /\ UNCHANGED <<checkout, overtaken>>
      /\ order' = order \/ order' = [o \in DOMAIN order |-> [order[o] EXCEPT !.redeemed = FALSE]]
  BY DEF RetireCommit
<1> QED
  BY <1>1, <1>2, <1>3, <1>4, CouponStepHolds

LEMMA DeleteOrderHolds ==
    ASSUME CheckoutInv, NEW o \in DOMAIN order, DeleteOrder(o)
    PROVE  CheckoutInv'
<1> USE InvParts
<1>1. /\ order' = [order EXCEPT ![o].status = "DELETED", ![o].redeemed = FALSE]
      /\ checkout' = [k \in Key |-> IF checkout[k].order = o THEN [checkout[k] EXCEPT !.order = 0]
                                                            ELSE checkout[k]]
      /\ UNCHANGED <<coupon, overtaken, request>>
  BY DEF DeleteOrder
<1>2. order[o] \in Order /\ o # 0
  OBVIOUS
<1>3. /\ order' \in Seq(Order) /\ DOMAIN order' = DOMAIN order
      /\ \A p \in DOMAIN order : p # o => order'[p] = order[p]
      /\ order'[o].status = "DELETED" /\ ~order'[o].redeemed
  <2>1. /\ order' = [p \in DOMAIN order |-> order'[p]]
        /\ \A p \in DOMAIN order : p # o => order'[p] = order[p]
        /\ order'[o] = [order[o] EXCEPT !.status = "DELETED", !.redeemed = FALSE]
    BY <1>1
  <2>2. order'[o] \in Order /\ order'[o].status = "DELETED" /\ ~order'[o].redeemed
    BY <1>2, <2>1 DEF Order, Statuses
  <2>3. order' \in Seq(Order) /\ DOMAIN order' = DOMAIN order
    BY <2>1, <2>2, RowsRewritten
  <2> QED
    BY <2>1, <2>2, <2>3
<1>4. ASSUME NEW k \in Key
      PROVE  /\ checkout'[k] \in Session
             /\ checkout'[k].status = checkout[k].status /\ checkout'[k].fresh = checkout[k].fresh
             /\ checkout'[k].owner = checkout[k].owner
             /\ checkout'[k].order = IF checkout[k].order = o THEN 0 ELSE checkout[k].order
  <2>1. checkout[k] \in Session
    OBVIOUS
  <2> QED
    BY <1>1, <2>1 DEF Session
<1>5. checkout' \in [Key -> Session]
  BY <1>1, <1>4
<1>6. Typed'
  BY <1>1, <1>3, <1>5 DEF Typed, Names
<1>7. KeysHold'
  <2> SUFFICES ASSUME NEW k \in Key \ overtaken
               PROVE  Alone(k)' /\ Unclaimed(k)' /\ Recorded(k)'
    BY <1>1 DEF KeysHold
  <2>1. Alone(k) /\ Unclaimed(k) /\ Recorded(k)
    BY DEF KeysHold
  <2>2. /\ \A p \in DOMAIN order' : Has(k, p)' => Has(k, p) /\ p # o /\ p \in DOMAIN order
        /\ \A g \in Handler : (Tries(g, k)' <=> Tries(g, k)) /\ (Retakes(g, k)' <=> Retakes(g, k))
    BY <1>1, <1>3 DEF Has, Tries, Retakes
  <2>3. Alone(k)'
    BY <1>1, <1>4, <2>1, <2>2 DEF Alone
  <2>4. Unclaimed(k)'
    BY <1>1, <1>4, <2>1, <2>2 DEF Unclaimed
  <2>5. Recorded(k)'
    BY <1>1, <1>4, <2>1, <2>2 DEF Recorded
  <2> QED
    BY <2>3, <2>4, <2>5
<1>8. Counted' /\ Promised' /\ PerUserLimitHolds'
  <2>1. \A c : Redeemed(c)' \subseteq Redeemed(c)
    BY <1>3 DEF Redeemed
  <2>2. NoneToldGood
    BY <1>1 DEF NoneToldGood
  <2> QED
    BY <1>1, <1>6, <2>1, <2>2, LimitsStay
<1> QED
  BY <1>6, <1>7, <1>8 DEF CheckoutInv

-----------------------------------------------------------------------------
(* The invariant is inductive *)

LEMMA InvInit == Init => CheckoutInv
<1> SUFFICES ASSUME Init
             PROVE  CheckoutInv
  OBVIOUS
<1>1. /\ order = <<>> /\ DOMAIN order = {} /\ \A h \in Handler : request[h] = Idle
      /\ Idle.op = "idle" /\ overtaken = {}
  BY DEF Init, Idle
<1>2. Typed
  <2>1. \A h \in Handler : Shaped(request[h]) /\ Names(request[h], order)
    BY <1>1 DEF Shaped, Names, Working, Trying
  <2>2. NoSession \in Session
    BY DEF NoSession, Session
  <2>3. /\ order \in Seq(Order) /\ coupon \in Coupon /\ checkout \in [Key -> Session]
        /\ request = [h \in Handler |-> request[h]]
    BY <2>2 DEF Init, Coupon
  <2> QED
    BY <1>1, <2>1, <2>3 DEF Typed
<1>3. KeysHold
  BY <1>1 DEF KeysHold, Alone, Unclaimed, Recorded, Tries, Retakes, Trying
<1>4. \A c : Redeemed(c) = {}
  BY <1>1 DEF Redeemed
<1>5. \A c : Cardinality(Redeemed(c)) = 0
  BY <1>4, FS_EmptySet
<1>6. coupon.usageCount = 0
  BY DEF Init
<1>7. Counted
  BY <1>5, <1>6, CheckoutAssumption DEF Counted
<1>8. Promised /\ PerUserLimitHolds
  BY <1>1, <1>5, CheckoutAssumption DEF Promised, PerUserLimitHolds
<1> QED
  BY <1>2, <1>3, <1>7, <1>8 DEF CheckoutInv

LEMMA InvStep == CheckoutInv /\ [Next]_vars => CheckoutInv'
<1> SUFFICES ASSUME CheckoutInv, [Next]_vars
             PROVE  CheckoutInv'
  OBVIOUS
<1>1. ASSUME NEW h \in Handler, Shop(h)
      PROVE  CheckoutInv'
  <2>1. CASE \E c \in Customer, key \in Key \cup {NoKey} : createOrderIdempotent(h, c, key)
    BY <2>1, BeginCheckoutHolds
  <2>2. CASE ~\E c \in Customer, key \in Key \cup {NoKey} : createOrderIdempotent(h, c, key)
    <3>1. Aside(h)
      BY <1>1, <2>2, BagStepsAside DEF Shop, removeItem, removeSet, clearCart
    <3> QED
      BY <3>1, AsideHolds
  <2> QED
    BY <2>1, <2>2
<1>2. ASSUME NEW h \in Handler, Work(h)
      PROVE  CheckoutInv'
  BY <1>2, WorkStepsAside, AsideHolds, RetakeHolds, ReadBagHolds, EvaluateHolds, CommitHolds,
     RecordHolds, RecordFailureHolds, CancelHolds, RetireCommitHolds, StopHolds DEF Work
<1>3. ASSUME NEW h \in Handler, Manage(h)
      PROVE  CheckoutInv'
  BY <1>3, StaffStepsAside, AsideHolds, UpdateCouponHolds DEF Manage
<1>4. CASE \E key \in Key : Lapse(key)
  BY <1>4, LapseHolds
<1>5. CASE \E o \in DOMAIN order : DeleteOrder(o)
  BY <1>5, DeleteOrderHolds
<1>6. CASE UNCHANGED vars
  BY <1>6 DEF vars, CheckoutInv, Typed, KeysHold, Alone, Unclaimed, Recorded, Tries, Retakes, Has,
              Counted, Promised, PerUserLimitHolds, Redeemed
<1> QED
  BY <1>1, <1>2, <1>3, <1>4, <1>5, <1>6 DEF Next

-----------------------------------------------------------------------------
(* What the bags hold: the inductive invariant *)

\* A merge makes lines of a variant whole.
Garment == Article \cup {[variant |-> v, part |-> Whole] : v \in DOMAIN Stock}

CartRow == [cart : Customer \cup Nat, article : Garment, qty : Nat, group : Nat, live : BOOLEAN]

\* What there is of x in a bag was put there, by a customer or by one of g guests.
RowFits(x, g) ==
    /\ x.live => x.qty > 0
    /\ x.cart \notin Customer => x.cart \in 1 .. g /\ x.article \in Article

BagsTyped ==
    /\ line \in Seq(CartRow)
    /\ guest \in Nat \ {0}
    /\ \A i \in DOMAIN line : RowFits(line[i], guest)
    /\ coded \subseteq Customer
    /\ served \in 0 .. MaxRequests
    /\ put \in [Article -> Nat] /\ bought \in [Article -> Nat]
    /\ \A k \in Key : checkout[k].order <= Len(order)

\* The bag of r is as r has read it.
Unread(r, rows) ==
    \A i \in DOMAIN r.bag : /\ i \in DOMAIN rows
                            /\ rows[i].live /\ rows[i].cart = r.customer /\ rows[i].qty = r.bag[i]

\* What a request that is to write a bag, or has read one, knows of rows, of g
\* guests and n orders.
KnowsBag(r, rows, g, n) ==
    /\ r.op = "add" => /\ r.cart \in Customer \cup 1 .. g /\ r.article \in Article
                       /\ r.qty \in Nat \ {0}
                       /\ r.line # 0 => r.line \in DOMAIN rows /\ rows[r.line].article = r.article
    /\ r.op = "set" => r.line \in DOMAIN rows /\ r.qty \in Nat
    /\ r.op = "merge" =>
         /\ r.customer \in Customer /\ r.guest \in 1 .. g
         /\ r.items = [i \in DOMAIN r.items |-> r.items[i]]
         /\ \A i \in DOMAIN r.items : /\ i \in DOMAIN rows /\ rows[i].cart = r.guest
                                      /\ r.items[i] \in Nat \ {0}
    /\ r.op \in {"evaluate", "commit"} /\ ~r.stale => Unread(r, rows)
    /\ r.op = "record" => r.order \in 1 .. n

AllKnowBags == \A h \in Handler : KnowsBag(request[h], line, guest, Len(order))

\* n units of line i, which is row, are enough for what r will make of it short
\* of the one it adds itself.
Enough(r, i, row, g, n) ==
    /\ r.op = "add" /\ r.line = i /\ row.live => r.qty <= n + 1
    /\ r.op = "merge" /\ r.guest = g /\ i \in DOMAIN r.items => r.items[i] <= n

\* peak is the most there can be of each line when everybody is done.
Covers(peak) ==
    \A i \in DOMAIN line : /\ line[i].live => line[i].qty <= peak[i]
                           /\ \A h \in Handler : Enough(request[h], i, line[i], guest, peak[i])

LinesOf(v) == {i \in DOMAIN line : line[i].article \in Units(v)}

\* With what was bought it is no more than was asked for.
WasAskedFor(peak) ==
    \A v \in DOMAIN Stock :
        SumFunctionOnSet(peak, LinesOf(v)) + SumFunctionOnSet(bought, Units(v))
            <= SumFunctionOnSet(put, Units(v))

RoomInBags == \E peak \in [DOMAIN line -> Nat] : Covers(peak) /\ WasAskedFor(peak)

BagsInv == BagsTyped /\ AllKnowBags /\ RoomInBags

-----------------------------------------------------------------------------
(* What it says of the bags *)

LEMMA UnitsFinite == \A v : IsFiniteSet(Units(v)) /\ Units(v) \subseteq Article
<1>1. \A v : Units(v) \subseteq Article
  BY DEF Units
<1> QED BY <1>1, CheckoutAssumption, FS_Subset

LEMMA LinesFinite ==
    ASSUME BagsTyped
    PROVE  /\ DOMAIN line = 1 .. Len(line) /\ Len(line) \in Nat /\ IsFiniteSet(DOMAIN line)
           /\ \A S \in SUBSET DOMAIN line : IsFiniteSet(S)
<1>1. DOMAIN line = 1 .. Len(line) /\ Len(line) \in Nat
  BY DEF BagsTyped
<1>2. IsFiniteSet(1 .. Len(line))
  BY <1>1, FS_Interval
<1> QED BY <1>1, <1>2, FS_Subset

LEMMA InBagsCounted ==
    ASSUME BagsTyped, NEW a, NEW peak \in [DOMAIN line -> Nat], Covers(peak)
    PROVE  /\ InBags(a) \in Nat
           /\ InBags(a) <= SumFunctionOnSet(peak, {i \in DOMAIN line : line[i].article = a})
<1> DEFINE S == {j \in DOMAIN line : line[j].live /\ line[j].article = a}
           f == [i \in S |-> line[i].qty]
           T == {i \in DOMAIN line : line[i].article = a}
<1>1. InBags(a) = SumFunctionOnSet(f, S)
  BY DEF InBags, SumFunction
<1>2. IsFiniteSet(S) /\ IsFiniteSet(T) /\ S \in SUBSET T
  BY LinesFinite
<1>3. \A i \in S : f[i] \in Nat /\ peak[i] \in Nat /\ f[i] <= peak[i]
  <2>1. \A i \in DOMAIN line : line[i] \in CartRow
    BY DEF BagsTyped
  <2> QED BY <2>1 DEF Covers, CartRow
<1>4. \A i \in T : peak[i] \in Nat
  OBVIOUS
<1> HIDE DEF S, f, T
<1>5. SumFunctionOnSet(f, S) \in Nat
  BY <1>2, <1>3, SumType
<1>6. SumFunctionOnSet(f, S) <= SumFunctionOnSet(peak, S)
  BY <1>2, <1>3, SumMonotone
<1>7. SumFunctionOnSet(peak, S) <= SumFunctionOnSet(peak, T)
  BY <1>2, <1>4, SumOfPart
<1>8. SumFunctionOnSet(peak, S) \in Nat /\ SumFunctionOnSet(peak, T) \in Nat
  <2>1. \A i \in S : peak[i] \in Nat
    BY <1>3
  <2> QED BY <1>2, <1>4, <2>1, SumType
<1>9. InBags(a) <= SumFunctionOnSet(peak, T)
  BY <1>1, <1>5, <1>6, <1>7, <1>8
<1> QED BY <1>1, <1>5, <1>9 DEF T

LEMMA BagsMean == Typed /\ BagsInv => BagsStand
<1> SUFFICES ASSUME Typed, BagsInv
             PROVE  TypeOK /\ NothingTwice
  BY DEF BagsStand
<1>1. TypeOK
  <2>1. \A i \in DOMAIN line : /\ line[i].cart \in 1 .. guest \/ line[i].cart \in Customer
                              /\ line[i].qty \in Nat /\ (line[i].live => line[i].qty > 0)
    <3>1. \A i \in DOMAIN line : line[i] \in CartRow /\ RowFits(line[i], guest)
      BY DEF BagsInv, BagsTyped
    <3> QED BY <3>1 DEF RowFits, CartRow
  <2>2. \A o \in DOMAIN order : order[o].customer \in Customer /\ order[o].key \in Key \cup {NoKey}
    <3>1. \A o \in DOMAIN order : order[o] \in Order
      BY DEF Typed
    <3> QED BY <3>1 DEF Order
  <2>3. \A k \in Key : checkout[k].order \in 0 .. Len(order)
    BY DEF Typed, Session, BagsInv, BagsTyped
  <2> QED
    BY <2>1, <2>2, <2>3 DEF TypeOK, Typed, Coupon, BagsInv, BagsTyped
<1>2. ASSUME NEW v \in DOMAIN Stock
      PROVE  SumFunction([a \in Units(v) |-> InBags(a) + bought[a]]) <= SumFunctionOnSet(put, Units(v))
  <2> DEFINE all == [a \in Units(v) |-> InBags(a) + bought[a]]
             F == [a \in Units(v) |-> InBags(a)]
  <2>1. PICK peak \in [DOMAIN line -> Nat] : Covers(peak) /\ WasAskedFor(peak)
    BY DEF BagsInv, RoomInBags
  <2> DEFINE G == [a \in Units(v) |-> SumFunctionOnSet(peak, {i \in DOMAIN line : line[i].article = a})]
             kind == [i \in DOMAIN line |-> line[i].article]
  <2>2. IsFiniteSet(Units(v)) /\ IsFiniteSet(DOMAIN line) /\ BagsTyped
    BY UnitsFinite, LinesFinite DEF BagsInv
  <2>3. \A a \in Units(v) : bought[a] \in Nat
    BY UnitsFinite DEF BagsInv, BagsTyped
  <2>4. \A a \in Units(v) : InBags(a) \in Nat /\ InBags(a) <= G[a] /\ G[a] \in Nat
    <3>1. \A a \in Units(v) : /\ InBags(a) \in Nat
                              /\ InBags(a) <= SumFunctionOnSet(peak, {i \in DOMAIN line : line[i].article = a})
      BY <2>1, <2>2, InBagsCounted
    <3>2. ASSUME NEW a
          PROVE  SumFunctionOnSet(peak, {i \in DOMAIN line : line[i].article = a}) \in Nat
      <4> DEFINE T == {i \in DOMAIN line : line[i].article = a}
      <4>1. IsFiniteSet(T) /\ \A i \in T : peak[i] \in Nat
        BY <2>2, LinesFinite
      <4> HIDE DEF T
      <4>2. SumFunctionOnSet(peak, T) \in Nat
        BY <4>1, SumType
      <4> QED BY <4>2 DEF T
    <3> QED BY <3>1, <3>2
  <2>5. SumFunctionOnSet(G, Units(v)) = SumFunctionOnSet(peak, LinesOf(v))
    <3>1. PICK A, D, k, H : A = Units(v) /\ D = DOMAIN line /\ k = kind /\ H = G
      OBVIOUS
    <3>2. \A a : {i \in DOMAIN line : line[i].article = a} = OfKind(D, k, {a})
      BY <3>1 DEF OfKind
    <3>3. \A a \in A : H[a] = SumFunctionOnSet(peak, OfKind(D, k, {a}))
      BY <3>1, <3>2
    <3>4. OfKind(D, k, A) = LinesOf(v)
      BY <3>1 DEF LinesOf, OfKind
    <3>5. IsFiniteSet(D) /\ IsFiniteSet(A) /\ \A i \in D : peak[i] \in Int
      BY <2>2, <3>1
    <3> HIDE DEF G, kind
    <3>6. SumFunctionOnSet(H, A) = SumFunctionOnSet(peak, OfKind(D, k, A))
      BY <3>3, <3>5, SumGathers
    <3> QED BY <3>1, <3>4, <3>6
  <2>6. SumFunction(all) = SumFunctionOnSet(all, Units(v))
    BY DEF SumFunction
  <2>7. \A a \in Units(v) : F[a] \in Int /\ bought[a] \in Int /\ all[a] = F[a] + bought[a]
                            /\ G[a] \in Int /\ F[a] <= G[a]
    BY <2>3, <2>4
  <2> HIDE DEF all, F, G
  <2>8. SumFunctionOnSet(all, Units(v)) = SumFunctionOnSet(F, Units(v)) + SumFunctionOnSet(bought, Units(v))
    BY <2>2, <2>7, SumOfTwo
  <2>9. SumFunctionOnSet(F, Units(v)) <= SumFunctionOnSet(G, Units(v))
    BY <2>2, <2>7, SumMonotone
  <2>10. /\ SumFunctionOnSet(F, Units(v)) \in Int /\ SumFunctionOnSet(G, Units(v)) \in Int
         /\ SumFunctionOnSet(bought, Units(v)) \in Int /\ SumFunctionOnSet(put, Units(v)) \in Int
    <3>1. \A a \in Units(v) : put[a] \in Int
      BY UnitsFinite DEF BagsInv, BagsTyped
    <3> QED BY <2>2, <2>7, <3>1, SumType
  <2>11. SumFunctionOnSet(peak, LinesOf(v)) + SumFunctionOnSet(bought, Units(v))
            <= SumFunctionOnSet(put, Units(v))
    BY <2>1 DEF WasAskedFor
  <2>12. SumFunctionOnSet(all, Units(v)) <= SumFunctionOnSet(put, Units(v))
    BY <2>5, <2>8, <2>9, <2>10, <2>11
  <2> QED BY <2>6, <2>12 DEF all
<1> QED BY <1>1, <1>2 DEF NothingTwice

-----------------------------------------------------------------------------
(* What a step leaves of the others *)

\* The step of another has made the snapshot of r stale.
Staled(r, s) == r.op \in {"evaluate", "commit"} /\ s.op = r.op /\ s.stale

\* A step of h that writes some lines: who has one of them in a bag is stale.
Marks(h, next, lines) ==
    /\ request'[h] = next
    /\ \A g \in Handler \ {h} :
          \/ Staled(request[g], request'[g])
          \/ /\ request'[g] = request[g]
             /\ request[g].op \in {"evaluate", "commit"} => lines \cap DOMAIN request[g].bag = {}

LEMMA WriteMarks ==
    ASSUME Typed, NEW h \in Handler, NEW next, NEW lines, NEW carts, NEW theCoupon,
           Write(h, next, lines, carts, theCoupon)
    PROVE  Marks(h, next, lines)
<1>1. request'[h] = next
  BY DEF Write
<1>2. ASSUME NEW g \in Handler \ {h}
      PROVE  \/ Staled(request[g], request'[g])
             \/ /\ request'[g] = request[g]
                /\ request[g].op \in {"evaluate", "commit"} => lines \cap DOMAIN request[g].bag = {}
  <2> DEFINE hit == /\ request[g].op \in {"evaluate", "commit"}
                    /\ \/ lines \cap DOMAIN request[g].bag # {}
                       \/ request[g].customer \in carts
                       \/ theCoupon /\ request[g].code
  <2>1. request'[g] = IF hit THEN [request[g] EXCEPT !.stale = TRUE] ELSE request[g]
    BY DEF Write
  <2>2. CASE hit
    <3>1. request[g] \in Draft(request[g].bag)
      BY <2>2 DEF Typed, Shaped
    <3>2. LET s == [request[g] EXCEPT !.stale = TRUE]
          IN  s.op = request[g].op /\ s.stale
      BY <3>1, StaleDraft
    <3> QED BY <2>1, <2>2, <3>2 DEF Staled
  <2>3. CASE ~hit
    BY <2>1, <2>3
  <2> QED BY <2>2, <2>3
<1> QED BY <1>1, <1>2 DEF Marks

LEMMA GotoMarks ==
    ASSUME Typed, NEW h \in Handler, NEW next, Goto(h, next)
    PROVE  Marks(h, next, {})
<1>1. request'[h] = next /\ \A g \in Handler \ {h} : request'[g] = request[g]
  BY DEF Typed, Goto
<1> QED BY <1>1 DEF Marks

\* Whose snapshot is stale is refused whatever else it knows.
LEMMA StaledKnows ==
    ASSUME NEW r, NEW s, Staled(r, s), NEW rows, NEW g, NEW n
    PROVE  /\ KnowsBag(s, rows, g, n)
           /\ \A i, row, m : Enough(s, i, row, g, m)
BY DEF Staled, KnowsBag, Enough

-----------------------------------------------------------------------------
(* A step that leaves the bags alone *)

\* What a request may become when no bag is written: it knows what it read just
\* now, and asks for no more than it found and one.
Sound(r) ==
    /\ KnowsBag(r, line, guest, Len(order)')
    /\ r.op = "add" /\ r.line # 0 /\ line[r.line].live => r.qty <= line[r.line].qty + 1
    /\ r.op = "merge" => \A i \in DOMAIN r.items : line[i].live /\ r.items[i] <= line[i].qty

Plain == {"idle", "show", "read_bag", "retake", "fail", "cancel", "release", "retire"}

LEMMA PlainIsSound ==
    ASSUME NEW r, NEW op \in Plain, r.op = op
    PROVE  Sound(r)
BY DEF Sound, Plain, KnowsBag

LEMMA BagsStay ==
    ASSUME BagsInv, UNCHANGED <<line, guest, put, bought>>,
           coded' \subseteq Customer, served' \in 0 .. MaxRequests,
           Len(order) \in Nat, Len(order)' \in Nat, Len(order) <= Len(order)',
           \A k \in Key : checkout'[k].order <= Len(order)',
           \A g \in Handler : \/ request'[g] = request[g]
                              \/ Staled(request[g], request'[g])
                              \/ Sound(request'[g])
    PROVE  BagsInv'
<1>1. BagsTyped'
  BY DEF BagsInv, BagsTyped
<1>2. ASSUME NEW g \in Handler
      PROVE  KnowsBag(request'[g], line, guest, Len(order)')
  <2>1. CASE request'[g] = request[g]
    <3>1. KnowsBag(request[g], line, guest, Len(order))
      BY DEF BagsInv, AllKnowBags
    <3> QED BY <2>1, <3>1 DEF KnowsBag
  <2>2. CASE Staled(request[g], request'[g])
    BY <2>2, StaledKnows
  <2>3. CASE Sound(request'[g])
    BY <2>3 DEF Sound
  <2> QED BY <2>1, <2>2, <2>3
<1>3. AllKnowBags'
  BY <1>2 DEF AllKnowBags
<1>4. RoomInBags'
  <2>1. PICK peak \in [DOMAIN line -> Nat] : Covers(peak) /\ WasAskedFor(peak)
    BY DEF BagsInv, RoomInBags
  <2>2. ASSUME NEW i \in DOMAIN line, NEW g \in Handler
        PROVE  Enough(request'[g], i, line[i], guest, peak[i])
    <3>1. /\ Enough(request[g], i, line[i], guest, peak[i])
          /\ line[i].live => line[i].qty <= peak[i]
      BY <2>1 DEF Covers
    <3>2. line[i].qty \in Nat /\ peak[i] \in Nat
      <4>1. line[i] \in CartRow
        BY DEF BagsInv, BagsTyped
      <4> QED BY <4>1 DEF CartRow
    <3>3. CASE request'[g] = request[g]
      BY <3>1, <3>3
    <3>4. CASE Staled(request[g], request'[g])
      BY <3>4, StaledKnows
    <3>5. CASE Sound(request'[g])
      <4> PICK r : r = request'[g]
        OBVIOUS
      <4>1. Sound(r)
        BY <3>5
      <4>2. i # 0
        BY LinesFinite DEF BagsInv
      <4>3. r.op = "add" /\ r.line = i /\ line[i].live => r.qty <= peak[i] + 1
        <5>1. r.op = "add" /\ r.line = i /\ line[i].live => r.qty <= line[i].qty + 1 /\ r.qty \in Nat
          BY <4>1, <4>2 DEF Sound, KnowsBag
        <5> QED BY <3>1, <3>2, <5>1
      <4>4. r.op = "merge" /\ r.guest = guest /\ i \in DOMAIN r.items => r.items[i] <= peak[i]
        <5>1. r.op = "merge" /\ i \in DOMAIN r.items =>
                 line[i].live /\ r.items[i] <= line[i].qty /\ r.items[i] \in Nat
          BY <4>1 DEF Sound, KnowsBag
        <5> QED BY <3>1, <3>2, <5>1
      <4> QED BY <4>3, <4>4 DEF Enough
    <3> QED BY <3>3, <3>4, <3>5
  <2>3. Covers(peak)'
    BY <2>1, <2>2 DEF Covers
  <2>4. WasAskedFor(peak)'
    BY <2>1 DEF WasAskedFor, LinesOf
  <2> QED BY <2>1, <2>3, <2>4 DEF RoomInBags
<1> QED BY <1>1, <1>3, <1>4 DEF BagsInv

-----------------------------------------------------------------------------
(* A step that writes a bag *)

\* A request after a step that writes some lines.
After(r, s) ==
    \/ Staled(r, s) \/ s.op \in Plain
    \/ s.op = "record" /\ s.order \in 1 .. Len(order)'
    \/ /\ s = r
       /\ r.op \in {"evaluate", "commit"} =>
             \A i \in DOMAIN line : i \in DOMAIN r.bag => line'[i] = line[i]

\* Lines are added, and written in place; none comes back to life.
LinesGrow ==
    /\ line' \in Seq(CartRow) /\ DOMAIN line \subseteq DOMAIN line'
    /\ guest' \in Nat \ {0} /\ guest <= guest'
    /\ \A i \in DOMAIN line' : RowFits(line'[i], guest')
    /\ \A i \in DOMAIN line : /\ line'[i].cart = line[i].cart /\ line'[i].article = line[i].article
                              /\ line'[i].live => line[i].live

\* What a bag may still hold of a line grows with it, and ends only with it.
PeaksMove(peak, fresh) ==
    /\ \A i \in DOMAIN line' : line'[i].live => line'[i].qty <= fresh[i]
    /\ \A i \in DOMAIN line : \/ peak[i] <= fresh[i]
                              \/ ~line'[i].live /\ (line[i].cart \in Customer \/ guest' # guest)

LEMMA StillKnows ==
    ASSUME BagsInv, LinesGrow, Len(order) \in Nat, Len(order)' \in Nat, Len(order) <= Len(order)',
           NEW g \in Handler, After(request[g], request'[g])
    PROVE  KnowsBag(request'[g], line', guest', Len(order)')
<1> PICK r : r = request[g]
  OBVIOUS
<1>1. KnowsBag(r, line, guest, Len(order))
  BY DEF BagsInv, AllKnowBags
<1>2. CASE Staled(r, request'[g])
  BY <1>2, StaledKnows
<1>3. CASE request'[g].op \in Plain \/ (request'[g].op = "record" /\ request'[g].order \in 1 .. Len(order)')
  BY <1>3 DEF KnowsBag, Plain
<1>4. CASE /\ request'[g] = r
           /\ r.op \in {"evaluate", "commit"} =>
                 \A i \in DOMAIN line : i \in DOMAIN r.bag => line'[i] = line[i]
  <2>0. guest \in Nat /\ guest' \in Nat /\ guest <= guest' /\ DOMAIN line \subseteq DOMAIN line'
    BY DEF LinesGrow, BagsInv, BagsTyped
  <2>1. r.op = "add" => /\ r.cart \in Customer \cup 1 .. guest' /\ r.article \in Article
                        /\ r.qty \in Nat \ {0}
                        /\ r.line # 0 => r.line \in DOMAIN line' /\ line'[r.line].article = r.article
    <3>1. r.op = "add" => /\ r.cart \in Customer \cup 1 .. guest /\ r.article \in Article
                          /\ r.qty \in Nat \ {0}
                          /\ r.line # 0 => r.line \in DOMAIN line /\ line[r.line].article = r.article
      BY <1>1 DEF KnowsBag
    <3>2. 1 .. guest \subseteq 1 .. guest'
      BY <2>0
    <3> QED BY <2>0, <3>1, <3>2 DEF LinesGrow
  <2>2. r.op = "set" => r.line \in DOMAIN line' /\ r.qty \in Nat
    BY <1>1, <2>0 DEF KnowsBag
  <2>3. r.op = "merge" =>
           /\ r.customer \in Customer /\ r.guest \in 1 .. guest'
           /\ r.items = [i \in DOMAIN r.items |-> r.items[i]]
           /\ \A i \in DOMAIN r.items : /\ i \in DOMAIN line' /\ line'[i].cart = r.guest
                                        /\ r.items[i] \in Nat \ {0}
    <3>1. r.op = "merge" =>
             /\ r.customer \in Customer /\ r.guest \in 1 .. guest
             /\ r.items = [i \in DOMAIN r.items |-> r.items[i]]
             /\ \A i \in DOMAIN r.items : /\ i \in DOMAIN line /\ line[i].cart = r.guest
                                          /\ r.items[i] \in Nat \ {0}
      BY <1>1 DEF KnowsBag
    <3>2. 1 .. guest \subseteq 1 .. guest'
      BY <2>0
    <3> QED BY <2>0, <3>1, <3>2 DEF LinesGrow
  <2>4. r.op \in {"evaluate", "commit"} /\ ~r.stale => Unread(r, line')
    BY <1>1, <1>4, <2>0 DEF KnowsBag, Unread
  <2>5. r.op = "record" => r.order \in 1 .. Len(order)'
    BY <1>1 DEF KnowsBag
  <2> QED BY <1>4, <2>1, <2>2, <2>3, <2>4, <2>5 DEF KnowsBag
<1> QED BY <1>2, <1>3, <1>4 DEF After

LEMMA StillEnough ==
    ASSUME BagsInv, LinesGrow, NEW peak \in [DOMAIN line -> Nat], Covers(peak),
           NEW fresh \in [DOMAIN line' -> Nat], PeaksMove(peak, fresh),
           NEW g \in Handler, After(request[g], request'[g]), NEW i \in DOMAIN line'
    PROVE  Enough(request'[g], i, line'[i], guest', fresh[i])
<1> PICK r : r = request[g]
  OBVIOUS
<1>1. KnowsBag(r, line, guest, Len(order))
  BY DEF BagsInv, AllKnowBags
<1>2. CASE Staled(r, request'[g])
  BY <1>2, StaledKnows
<1>3. CASE request'[g].op \in Plain \cup {"record"}
  BY <1>3 DEF Enough, Plain
<1>4. CASE request'[g] = r
  <2>1. i # 0 /\ fresh[i] \in Nat
    BY DEF LinesGrow
  <2>2. CASE i \notin DOMAIN line
    BY <1>1, <1>4, <2>1, <2>2 DEF Enough, KnowsBag
  <2>3. CASE i \in DOMAIN line
    <3>1. Enough(r, i, line[i], guest, peak[i]) /\ peak[i] \in Nat
      BY <2>3 DEF Covers
    <3>2. line'[i].live => line[i].live
      BY <2>3 DEF LinesGrow
    <3>3. /\ guest \in Nat /\ guest' \in Nat /\ guest <= guest'
          /\ r.op = "merge" => r.guest \in 1 .. guest
          /\ r.op = "merge" /\ i \in DOMAIN r.items => line[i].cart = r.guest /\ r.items[i] \in Nat
          /\ r.op = "add" => r.qty \in Nat
      BY <1>1, <2>3 DEF KnowsBag, LinesGrow, BagsInv, BagsTyped
    <3>4. CASE peak[i] <= fresh[i]
      <4>1. r.op = "add" /\ r.line = i /\ line'[i].live => r.qty <= fresh[i] + 1
        BY <2>1, <3>1, <3>2, <3>3, <3>4 DEF Enough
      <4>2. r.op = "merge" /\ r.guest = guest' /\ i \in DOMAIN r.items => r.items[i] <= fresh[i]
        <5>1. r.op = "merge" /\ r.guest = guest' => guest' = guest
          BY <3>3
        <5> QED BY <2>1, <3>1, <3>3, <3>4, <5>1 DEF Enough
      <4> QED BY <1>4, <4>1, <4>2 DEF Enough
    <3>5. CASE ~line'[i].live /\ (line[i].cart \in Customer \/ guest' # guest)
      <4>1. ~(r.op = "merge" /\ r.guest = guest' /\ i \in DOMAIN r.items)
        <5>1. r.op = "merge" /\ r.guest = guest' => guest' = guest
          BY <3>3
        <5>2. r.op = "merge" /\ i \in DOMAIN r.items => line[i].cart \notin Customer
          BY <3>3, CheckoutAssumption
        <5> QED BY <3>5, <5>1, <5>2
      <4> QED BY <1>4, <3>5, <4>1 DEF Enough
    <3> QED BY <2>3, <3>4, <3>5 DEF PeaksMove
  <2> QED BY <2>2, <2>3
<1> QED BY <1>2, <1>3, <1>4 DEF After

LEMMA BagsWritten ==
    ASSUME BagsInv, LinesGrow, NEW peak \in [DOMAIN line -> Nat], Covers(peak),
           NEW fresh \in [DOMAIN line' -> Nat], PeaksMove(peak, fresh), WasAskedFor(fresh)',
           coded' \subseteq Customer, served' \in 0 .. MaxRequests,
           put' \in [Article -> Nat], bought' \in [Article -> Nat],
           Len(order) \in Nat, Len(order)' \in Nat, Len(order) <= Len(order)',
           \A k \in Key : checkout'[k].order <= Len(order)',
           \A g \in Handler : After(request[g], request'[g])
    PROVE  BagsInv'
<1>1. BagsTyped'
  BY DEF LinesGrow, BagsTyped
<1>2. AllKnowBags'
  BY StillKnows DEF AllKnowBags
<1>3. Covers(fresh)'
  <2>1. \A i \in DOMAIN line' : line'[i].live => line'[i].qty <= fresh[i]
    BY DEF PeaksMove
  <2>2. \A i \in DOMAIN line', g \in Handler : Enough(request'[g], i, line'[i], guest', fresh[i])
    BY StillEnough
  <2> QED BY <2>1, <2>2 DEF Covers
<1>4. RoomInBags'
  BY <1>3 DEF RoomInBags
<1> QED BY <1>1, <1>2, <1>4 DEF BagsInv

-----------------------------------------------------------------------------
(* Steps that leave the bags alone *)

LEMMA BagsFacts ==
    ASSUME Typed, BagsInv
    PROVE  /\ Len(order) \in Nat /\ DOMAIN order = 1 .. Len(order)
           /\ \A k \in Key : checkout[k].order <= Len(order) /\ checkout[k] \in Session
           /\ checkout \in [Key -> Session]
           /\ coded \subseteq Customer /\ served \in 0 .. MaxRequests
           /\ put \in [Article -> Nat] /\ bought \in [Article -> Nat]
           /\ \A i \in DOMAIN line : line[i] \in CartRow /\ RowFits(line[i], guest)
           /\ guest \in Nat \ {0} /\ MaxRequests \in Nat
BY CheckoutAssumption DEF Typed, BagsInv, BagsTyped

LEMMA QuietStep ==
    ASSUME Typed, BagsInv, NEW h \in Handler, NEW next, NEW lines, Marks(h, next, lines), Sound(next),
           UNCHANGED <<line, guest, put, bought>>,
           coded' \subseteq Customer, served' \in 0 .. MaxRequests,
           Len(order)' \in Nat, Len(order) <= Len(order)',
           \A k \in Key : checkout'[k].order <= Len(order)'
    PROVE  BagsInv'
<1>1. \A g \in Handler : \/ request'[g] = request[g]
                         \/ Staled(request[g], request'[g])
                         \/ Sound(request'[g])
  BY DEF Marks
<1> QED BY <1>1, BagsFacts, BagsStay

LEMMA QuietBegin ==
    ASSUME Typed, BagsInv, NEW h \in Handler, NEW next, Begin(h, next), Sound(next),
           UNCHANGED <<line, guest, coded, put, order, bought>>,
           \A k \in Key : checkout'[k].order <= Len(order)
    PROVE  BagsInv'
<1>1. Marks(h, next, {}) /\ served' = served + 1 /\ served < MaxRequests
  BY GotoMarks DEF Begin
<1>2. served' \in 0 .. MaxRequests
  BY <1>1, BagsFacts
<1> QED BY <1>1, <1>2, BagsFacts, QuietStep

LEMMA QuietGoto ==
    ASSUME Typed, BagsInv, NEW h \in Handler, NEW next, Goto(h, next), Sound(next),
           UNCHANGED <<line, guest, coded, put, order, bought, served>>,
           \A k \in Key : checkout'[k].order <= Len(order)
    PROVE  BagsInv'
BY GotoMarks, BagsFacts, QuietStep

LEMMA AddItemBags ==
    ASSUME Typed, BagsInv, NEW h \in Handler, NEW k \in Resolve, NEW a \in Article, addItem(h, k, a)
    PROVE  BagsInv'
<1>1. PICK i, n : /\ i = 0 \/ (i \in Lines(k) /\ line[i].article = a)
                  /\ n = 1 + (IF i = 0 THEN 0 ELSE line[i].qty)
                  /\ Begin(h, [op |-> "add", cart |-> k, article |-> a, line |-> i, qty |-> n])
  BY DEF addItem
<1>2. UNCHANGED <<line, guest, coded, put, order, bought, checkout>>
  BY DEF addItem, bagVars, orderVars
<1> DEFINE next == [op |-> "add", cart |-> k, article |-> a, line |-> i, qty |-> n]
<1>3. Sound(next)
  <2>1. k \in Customer \cup 1 .. guest
    BY BagsFacts DEF Resolve
  <2>2. i # 0 => i \in DOMAIN line /\ line[i].article = a /\ line[i].qty \in Nat
    BY <1>1, BagsFacts DEF Lines, CartRow
  <2>3. n \in Nat \ {0} /\ (i # 0 => n <= line[i].qty + 1)
    BY <1>1, <2>2
  <2>4. next.op = "add" /\ next.cart = k /\ next.article = a /\ next.line = i /\ next.qty = n
    OBVIOUS
  <2> HIDE DEF next
  <2> QED BY <2>1, <2>2, <2>3, <2>4 DEF Sound, KnowsBag
<1>4. Begin(h, next)
  BY <1>1
<1> HIDE DEF next
<1> QED BY <1>2, <1>3, <1>4, BagsFacts, QuietBegin

LEMMA MergeGuestCartBags ==
    ASSUME Typed, BagsInv, NEW h \in Handler, NEW c \in Customer, mergeGuestCart(h, c)
    PROVE  BagsInv'
<1> PICK items : items = [i \in Lines(guest) |-> line[i].qty]
  OBVIOUS
<1> DEFINE next == [op |-> "merge", customer |-> c, guest |-> guest, items |-> items]
<1>1. Begin(h, next) /\ UNCHANGED <<line, guest, coded, put, order, bought, checkout>>
  BY DEF mergeGuestCart, bagVars, orderVars
<1>2. /\ DOMAIN items \subseteq DOMAIN line /\ items = [i \in DOMAIN items |-> items[i]]
      /\ \A i \in DOMAIN items : /\ items[i] = line[i].qty /\ line[i].cart = guest /\ line[i].live
                                 /\ items[i] \in Nat \ {0}
  <2>1. \A i \in Lines(guest) : /\ i \in DOMAIN line /\ line[i].live /\ line[i].cart = guest
                                /\ line[i].qty \in Nat \ {0}
    BY BagsFacts DEF Lines, RowFits, CartRow
  <2> QED BY <2>1
<1>3. Sound(next)
  <2>1. next.op = "merge" /\ next.customer = c /\ next.guest = guest /\ next.items = items
    OBVIOUS
  <2>2. guest \in 1 .. guest
    BY BagsFacts
  <2> HIDE DEF next
  <2> QED BY <1>2, <2>1, <2>2 DEF Sound, KnowsBag
<1> HIDE DEF next
<1> QED BY <1>1, <1>3, BagsFacts, QuietBegin

LEMMA UpdateItemBags ==
    ASSUME Typed, BagsInv, NEW h \in Handler, NEW i \in DOMAIN line, NEW q \in Nat, updateItem(h, i, q)
    PROVE  BagsInv'
<1> DEFINE next == [op |-> "set", line |-> i, qty |-> q]
<1>1. Begin(h, next) /\ UNCHANGED <<line, guest, coded, put, order, bought, checkout>>
  BY DEF updateItem, bagVars, orderVars
<1>2. Sound(next)
  BY DEF Sound, KnowsBag
<1> HIDE DEF next
<1> QED BY <1>1, <1>2, BagsFacts, QuietBegin

LEMMA CouponBags ==
    ASSUME Typed, BagsInv, NEW h \in Handler, NEW c \in Customer, applyCoupon(h, c) \/ removeCoupon(h, c)
    PROVE  BagsInv'
<1>1. /\ Write(h, Answer(c), {}, {c}, FALSE)
      /\ coded' \subseteq coded \cup {c} /\ served' = served + 1 /\ served < MaxRequests
      /\ UNCHANGED <<line, guest, put, order, bought, checkout>>
  BY DEF applyCoupon, removeCoupon, orderVars
<1>2. Sound(Answer(c))
  <2>1. Answer(c).op = "show"
    BY DEF Answer
  <2> QED BY <2>1, PlainIsSound DEF Plain
<1>3. coded' \subseteq Customer /\ served' \in 0 .. MaxRequests
  BY <1>1, BagsFacts
<1>4. Marks(h, Answer(c), {})
  BY <1>1, WriteMarks
<1> QED BY <1>1, <1>2, <1>3, <1>4, BagsFacts, QuietStep

LEMMA IdleIsSound == Sound(Idle)
<1>1. Idle.op = "idle"
  BY DEF Idle
<1> QED BY <1>1, PlainIsSound DEF Plain

LEMMA FailIsSound == \A key : Sound(Fail(key))
<1> SUFFICES ASSUME NEW key PROVE Sound(Fail(key))
  OBVIOUS
<1>1. Fail(key).op \in {"idle", "fail"}
  BY DEF Fail, Idle
<1> QED BY <1>1, PlainIsSound DEF Plain

LEMMA ShowCartBags ==
    ASSUME Typed, BagsInv, NEW h \in Handler, ShowCart(h)
    PROVE  BagsInv'
<1>1. PICK carts : Write(h, Idle, {}, carts, FALSE)
  BY DEF ShowCart
<1>2. /\ coded' \subseteq coded /\ served' = served
      /\ UNCHANGED <<line, guest, put, order, bought, checkout>>
  BY DEF ShowCart, At, orderVars
<1>3. coded' \subseteq Customer
  BY <1>2, BagsFacts
<1>4. Marks(h, Idle, {})
  BY <1>1, WriteMarks
<1> QED BY <1>2, <1>3, <1>4, IdleIsSound, BagsFacts, QuietStep

LEMMA BeginCheckoutBags ==
    ASSUME Typed, BagsInv, NEW h \in Handler, NEW c \in Customer, NEW key \in Key \cup {NoKey},
           createOrderIdempotent(h, c, key)
    PROVE  BagsInv'
<1>1. UNCHANGED <<line, guest, coded, put, order, bought>>
  BY DEF createOrderIdempotent, bagVars
<1>2. \A k \in Key : checkout'[k].order <= Len(order)
  <2> DEFINE s == [status |-> "started", owner |-> c, order |-> 0, fresh |-> TRUE]
  <2>1. UNCHANGED checkout \/ (key \in Key /\ checkout' = [checkout EXCEPT ![key] = s])
    BY DEF createOrderIdempotent
  <2>2. s.order = 0
    OBVIOUS
  <2> HIDE DEF s
  <2> QED BY <2>1, <2>2, BagsFacts
<1> DEFINE again == [op |-> "retake", customer |-> c, key |-> key]
<1>3. Begin(h, Place(c, key)) \/ Begin(h, again)
  BY DEF createOrderIdempotent
<1>4. Sound(Place(c, key)) /\ Sound(again)
  <2>1. Place(c, key).op = "read_bag" /\ again.op = "retake"
    BY DEF Place
  <2> HIDE DEF again
  <2> QED BY <2>1, PlainIsSound DEF Plain
<1> HIDE DEF again
<1>5. CASE Begin(h, Place(c, key))
  BY <1>1, <1>2, <1>4, <1>5, QuietBegin
<1>6. CASE Begin(h, again)
  BY <1>1, <1>2, <1>4, <1>6, QuietBegin
<1> QED BY <1>3, <1>5, <1>6

LEMMA RetakeBags ==
    ASSUME Typed, BagsInv, NEW h \in Handler, Retake(h)
    PROVE  BagsInv'
<1> PICK next : next = Place(request[h].customer, request[h].key)
  OBVIOUS
<1> PICK key : key = request[h].key
  OBVIOUS
<1>1. /\ Goto(h, next) /\ UNCHANGED <<line, guest, coded, put, order, bought, served>>
      /\ checkout' = [checkout EXCEPT ![key].status = "started", ![key].fresh = TRUE]
  BY DEF Retake, At, bagVars
<1>2. Sound(next)
  <2>1. next.op = "read_bag"
    BY DEF Place
  <2> QED BY <2>1, PlainIsSound DEF Plain
<1>3. \A k \in Key : checkout'[k].order <= Len(order)
  <2>1. PICK with : with = [checkout EXCEPT ![key].status = "started"]
    OBVIOUS
  <2>2. checkout' = [with EXCEPT ![key].fresh = TRUE]
    BY <1>1, <2>1
  <2>3. \A k \in Key : checkout'[k].order = checkout[k].order
    BY <2>1, <2>2, BagsFacts DEF Session
  <2> QED BY <2>3, BagsFacts
<1> QED BY <1>1, <1>2, <1>3, QuietGoto

LEMMA ReadBagBags ==
    ASSUME Typed, BagsInv, NEW h \in Handler, ReadBag(h)
    PROVE  BagsInv'
<1> PICK c : c = request[h].customer
  OBVIOUS
<1> PICK key : key = request[h].key
  OBVIOUS
<1> PICK bag : bag = [i \in Lines(c) |-> line[i].qty]
  OBVIOUS
<1> DEFINE read == [op |-> "evaluate", customer |-> c, key |-> key, code |-> c \in coded,
                    bag |-> bag, stale |-> FALSE]
<1>1. Goto(h, Fail(key)) \/ Goto(h, read)
  BY DEF ReadBag
<1>2. UNCHANGED <<line, guest, coded, put, order, bought, served, checkout>>
  BY DEF ReadBag, At, bagVars, orderVars
<1>3. Sound(read)
  <2>1. read.op = "evaluate" /\ read.bag = bag /\ read.customer = c
    OBVIOUS
  <2>2. Unread(read, line)
    <3>1. \A i \in DOMAIN bag : /\ i \in DOMAIN line /\ line[i].live /\ line[i].cart = c
                                /\ line[i].qty = bag[i]
      BY DEF Lines
    <3> HIDE DEF read
    <3> QED BY <2>1, <3>1 DEF Unread
  <2> HIDE DEF read
  <2> QED BY <2>1, <2>2 DEF Sound, KnowsBag
<1> HIDE DEF read
<1>4. \A k \in Key : checkout'[k].order <= Len(order)
  BY <1>2, BagsFacts
<1>5. CASE Goto(h, Fail(key))
  BY <1>2, <1>4, <1>5, FailIsSound, QuietGoto
<1>6. CASE Goto(h, read)
  BY <1>2, <1>3, <1>4, <1>6, QuietGoto
<1> QED BY <1>1, <1>5, <1>6

LEMMA EvaluateBags ==
    ASSUME Typed, BagsInv, NEW h \in Handler, Evaluate(h)
    PROVE  BagsInv'
<1> PICK r : r = request[h]
  OBVIOUS
<1> PICK good : good = [r EXCEPT !.op = "commit"]
  OBVIOUS
<1>1. r.op = "evaluate" /\ (Goto(h, Fail(r.key)) \/ Goto(h, good))
  BY DEF Evaluate, At
<1>2. UNCHANGED <<line, guest, coded, put, order, bought, served, checkout>>
  BY DEF Evaluate, At, bagVars, orderVars
<1>3. Sound(good)
  <2>1. r \in Draft(r.bag)
    BY <1>1 DEF Typed, Shaped
  <2>2. /\ good.op = "commit" /\ good.bag = r.bag /\ good.customer = r.customer
        /\ good.stale = r.stale
    BY <2>1 DEF Draft
  <2>3. ~r.stale => Unread(r, line)
    <3>1. KnowsBag(r, line, guest, Len(order))
      BY DEF BagsInv, AllKnowBags
    <3> QED BY <1>1, <3>1 DEF KnowsBag
  <2>4. ~good.stale => Unread(good, line)
    BY <2>2, <2>3 DEF Unread
  <2> QED BY <2>2, <2>4 DEF Sound, KnowsBag
<1>4. \A k \in Key : checkout'[k].order <= Len(order)
  BY <1>2, BagsFacts
<1>5. CASE Goto(h, Fail(r.key))
  BY <1>2, <1>4, <1>5, FailIsSound, QuietGoto
<1>6. CASE Goto(h, good)
  BY <1>2, <1>3, <1>4, <1>6, QuietGoto
<1> QED BY <1>1, <1>5, <1>6

LEMMA RefusedBags ==
    ASSUME Typed, BagsInv, NEW h \in Handler, NEW key, Goto(h, Fail(key)),
           UNCHANGED <<line, guest, coded, put, order, bought, served, checkout>>
    PROVE  BagsInv'
<1>1. \A k \in Key : checkout'[k].order <= Len(order)
  BY BagsFacts
<1> QED BY <1>1, FailIsSound, QuietGoto

LEMMA IdledBags ==
    ASSUME Typed, BagsInv, NEW h \in Handler, Goto(h, Idle),
           UNCHANGED <<line, guest, coded, put, order, bought, served>>,
           \A k \in Key : checkout'[k].order <= Len(order)
    PROVE  BagsInv'
BY IdleIsSound, QuietGoto

LEMMA RecordBags ==
    ASSUME Typed, BagsInv, NEW h \in Handler, Record(h) \/ RecordFailure(h) \/ Stop(h)
    PROVE  BagsInv'
<1> PICK key : key = request[h].key
  OBVIOUS
<1>1. Goto(h, Idle) /\ UNCHANGED <<line, guest, coded, put, order, bought, served>>
  BY DEF Record, RecordFailure, Stop, At, bagVars
<1>2. \A k \in Key : checkout'[k].order <= Len(order)
  <2>1. CASE Record(h)
    <3>1. request[h].order <= Len(order)
      <4>1. KnowsBag(request[h], line, guest, Len(order)) /\ request[h].op = "record"
        BY <2>1 DEF BagsInv, AllKnowBags, Record, At
      <4> QED BY <4>1, BagsFacts DEF KnowsBag
    <3> PICK with : with = [checkout EXCEPT ![key].status = "completed"]
      OBVIOUS
    <3>2. checkout' = [with EXCEPT ![key].order = request[h].order]
      BY <2>1 DEF Record
    <3>3. \A k \in Key : checkout'[k].order = checkout[k].order \/ checkout'[k].order = request[h].order
      BY <3>2, BagsFacts DEF Session
    <3> QED BY <3>1, <3>3, BagsFacts
  <2>2. CASE RecordFailure(h)
    <3>1. checkout' = [checkout EXCEPT ![key].status = "failed"]
      BY <2>2 DEF RecordFailure
    <3>2. \A k \in Key : checkout'[k].order = checkout[k].order
      BY <3>1, BagsFacts DEF Session
    <3> QED BY <3>2, BagsFacts
  <2>3. CASE Stop(h)
    BY <2>3, BagsFacts DEF Stop
  <2> QED BY <2>1, <2>2, <2>3
<1> QED BY <1>1, <1>2, IdledBags

LEMMA StaffBags ==
    ASSUME Typed, BagsInv, NEW h \in Handler,
           (\E o \in DOMAIN order : cancelOrder(h, o)) \/ retireCoupon(h) \/ ReleaseRead(h)
    PROVE  BagsInv'
<1>1. UNCHANGED <<line, guest, coded, put, order, bought, checkout>>
  BY DEF cancelOrder, retireCoupon, ReleaseRead, bagVars, orderVars
<1>2. \A k \in Key : checkout'[k].order <= Len(order)
  BY <1>1, BagsFacts
<1>3. ASSUME NEW o \in DOMAIN order, cancelOrder(h, o)
      PROVE  BagsInv'
  <2> DEFINE next == [op |-> "cancel", order |-> o]
  <2>1. Begin(h, next)
    BY <1>3 DEF cancelOrder
  <2>2. Sound(next)
    <3>1. next.op = "cancel"
      OBVIOUS
    <3> HIDE DEF next
    <3> QED BY <3>1, PlainIsSound DEF Plain
  <2> HIDE DEF next
  <2> QED BY <1>1, <1>2, <2>1, <2>2, QuietBegin
<1>4. CASE retireCoupon(h)
  <2> PICK next : next = [op |-> "retire", used |-> Redeemed(NoKey) # {}]
    OBVIOUS
  <2>1. Begin(h, next)
    BY <1>4 DEF retireCoupon
  <2>2. Sound(next)
    <3>1. next.op = "retire"
      OBVIOUS
    <3> QED BY <3>1, PlainIsSound DEF Plain
  <2> QED BY <1>1, <1>2, <2>1, <2>2, QuietBegin
<1>5. CASE ReleaseRead(h)
  <2> PICK next : next = [op |-> "release", order |-> request[h].order,
                          found |-> order[request[h].order].redeemed]
    OBVIOUS
  <2>1. Goto(h, next) /\ served' = served
    BY <1>5 DEF ReleaseRead, At
  <2>2. Sound(next)
    <3>1. next.op = "release"
      OBVIOUS
    <3> QED BY <3>1, PlainIsSound DEF Plain
  <2> QED BY <1>1, <1>2, <2>1, <2>2, QuietGoto
<1> QED BY <1>3, <1>4, <1>5

\* Orders are rewritten in place.
LEMMA SameLen ==
    ASSUME Typed, Typed', DOMAIN order' = DOMAIN order
    PROVE  Len(order)' = Len(order)
BY DEF Typed

LEMMA CouponWriteBags ==
    ASSUME Typed, Typed', BagsInv, NEW h \in Handler,
           CancelCommit(h) \/ RetireCommit(h) \/ (\E status : updateCoupon(h, status))
    PROVE  BagsInv'
<1>1. /\ UNCHANGED <<line, guest, coded, put, bought, checkout>>
      /\ served' = served \/ (served < MaxRequests /\ served' = served + 1)
  BY DEF CancelCommit, RetireCommit, updateCoupon, At, bagVars
<1>2. DOMAIN order' = DOMAIN order
  BY DEF CancelCommit, RetireCommit, updateCoupon
<1>3. Marks(h, Idle, {})
  <2>1. Goto(h, Idle) \/ \E c : Write(h, Idle, {}, {}, c)
    BY DEF CancelCommit, RetireCommit, updateCoupon
  <2> QED BY <2>1, GotoMarks, WriteMarks
<1>4. served' \in 0 .. MaxRequests /\ Len(order)' = Len(order) /\ coded' \subseteq Customer
  BY <1>1, <1>2, SameLen, BagsFacts
<1>5. \A k \in Key : checkout'[k].order <= Len(order)'
  BY <1>1, <1>4, BagsFacts
<1> QED BY <1>1, <1>3, <1>4, <1>5, IdleIsSound, BagsFacts, QuietStep

LEMMA UnattendedBags ==
    ASSUME Typed, Typed', BagsInv,
           (\E key \in Key : Lapse(key)) \/ (\E o \in DOMAIN order : DeleteOrder(o)) \/ UNCHANGED vars
    PROVE  BagsInv'
<1>1. UNCHANGED <<line, guest, coded, put, bought, request, served>>
  BY DEF Lapse, DeleteOrder, bagVars, vars
<1>2. DOMAIN order' = DOMAIN order
  BY DEF Lapse, DeleteOrder, vars
<1>3. Len(order)' = Len(order)
  BY <1>2, SameLen
<1>4. \A k \in Key : checkout'[k].order <= Len(order)'
  <2>1. ASSUME NEW key \in Key, Lapse(key)
        PROVE  \A k \in Key : checkout'[k].order = checkout[k].order
    <3>1. checkout' = [checkout EXCEPT ![key].fresh = FALSE]
      BY <2>1 DEF Lapse
    <3> QED BY <3>1, BagsFacts DEF Session
  <2>2. ASSUME NEW o \in DOMAIN order, DeleteOrder(o)
        PROVE  \A k \in Key : checkout'[k].order = checkout[k].order \/ checkout'[k].order = 0
    <3>1. checkout' = [k \in Key |-> IF checkout[k].order = o THEN [checkout[k] EXCEPT !.order = 0]
                                                               ELSE checkout[k]]
      BY <2>2 DEF DeleteOrder
    <3> QED BY <3>1, BagsFacts DEF Session
  <2>3. ASSUME UNCHANGED vars
        PROVE  \A k \in Key : checkout'[k].order = checkout[k].order
    BY <2>3 DEF vars
  <2> QED BY <1>3, <2>1, <2>2, <2>3, BagsFacts, SMT
<1> QED BY <1>1, <1>3, <1>4, BagsFacts, BagsStay

-----------------------------------------------------------------------------
(* Steps that write lines *)

LEMMA Sums ==
    ASSUME BagsTyped, NEW v, NEW peak \in [DOMAIN line -> Nat]
    PROVE  /\ IsFiniteSet(LinesOf(v)) /\ LinesOf(v) \subseteq DOMAIN line
           /\ SumFunctionOnSet(peak, LinesOf(v)) \in Nat
           /\ SumFunctionOnSet(bought, Units(v)) \in Nat
           /\ SumFunctionOnSet(put, Units(v)) \in Nat
<1>1. IsFiniteSet(LinesOf(v)) /\ LinesOf(v) \subseteq DOMAIN line
  BY LinesFinite DEF LinesOf
<1>2. IsFiniteSet(Units(v)) /\ Units(v) \subseteq Article
  BY UnitsFinite
<1>3. SumFunctionOnSet(peak, LinesOf(v)) \in Nat
  <2>1. \A i \in LinesOf(v) : peak[i] \in Nat
    BY <1>1
  <2> QED BY <1>1, <2>1, SumType
<1>4. SumFunctionOnSet(bought, Units(v)) \in Nat
  <2>1. \A a \in Units(v) : bought[a] \in Nat
    BY <1>2 DEF BagsTyped
  <2> QED BY <1>2, <2>1, SumType
<1>5. SumFunctionOnSet(put, Units(v)) \in Nat
  <2>1. \A a \in Units(v) : put[a] \in Nat
    BY <1>2 DEF BagsTyped
  <2> QED BY <1>2, <2>1, SumType
<1> QED BY <1>1, <1>3, <1>4, <1>5

LEMMA PutMore ==
    ASSUME NEW v, NEW a \in Units(v), NEW n \in Nat, put \in [Article -> Nat],
           put' = [put EXCEPT ![a] = @ + n]
    PROVE  SumFunctionOnSet(put', Units(v)) = SumFunctionOnSet(put, Units(v)) + n
<1> PICK S : S = Units(v)
  OBVIOUS
<1>1. IsFiniteSet(S) /\ S \subseteq Article /\ a \in S /\ n \in Int /\ put \in [Article -> Int]
  BY UnitsFinite
<1>2. PICK f, g : f = put /\ g = put'
  OBVIOUS
<1>3. /\ \A b \in S : f[b] \in Int /\ g[b] \in Int
      /\ \A b \in S \ {a} : g[b] = f[b]
      /\ g[a] = f[a] + n
  BY <1>1, <1>2
<1>4. SumFunctionOnSet(g, S) = SumFunctionOnSet(f, S) + n
  BY <1>1, <1>3, SumAdded, ZenonT(90)
<1> QED BY <1>2, <1>4

\* One line is added or may hold n more, and n more were asked for.
LEMMA OneLineMoves ==
    ASSUME BagsTyped, NEW peak \in [DOMAIN line -> Nat], WasAskedFor(peak),
           NEW i, IsFiniteSet(DOMAIN line'), DOMAIN line' = DOMAIN line \cup {i},
           NEW a, line'[i].article = a,
           \A j \in DOMAIN line : line'[j].article = line[j].article,
           NEW n \in Nat, put' = [put EXCEPT ![a] = @ + n], bought' = bought,
           NEW fresh \in [DOMAIN line' -> Nat],
           \A j \in DOMAIN line \ {i} : fresh[j] = peak[j],
           fresh[i] <= (IF i \in DOMAIN line THEN peak[i] ELSE 0) + n
    PROVE  WasAskedFor(fresh)'
<1> SUFFICES ASSUME NEW v \in DOMAIN Stock
             PROVE  SumFunctionOnSet(fresh, LinesOf(v)') + SumFunctionOnSet(bought, Units(v))
                       <= SumFunctionOnSet(put', Units(v))
  BY DEF WasAskedFor, Units
<1> PICK L, M, U : L = LinesOf(v) /\ M = LinesOf(v)' /\ U = Units(v)
  OBVIOUS
<1>1. /\ IsFiniteSet(L) /\ SumFunctionOnSet(peak, L) \in Nat
      /\ SumFunctionOnSet(bought, U) \in Nat /\ SumFunctionOnSet(put, U) \in Nat
      /\ SumFunctionOnSet(peak, L) + SumFunctionOnSet(bought, U) <= SumFunctionOnSet(put, U)
  BY Sums DEF WasAskedFor
<1>2. IsFiniteSet(U) /\ U \subseteq Article /\ put \in [Article -> Nat]
  BY UnitsFinite DEF BagsTyped
<1>3. M = IF a \in U THEN L \cup {i} ELSE L \ {i}
  BY DEF LinesOf, Units
<1>3a. (a \notin U => i \notin L) /\ (i \in DOMAIN line /\ a \in U => i \in L)
  BY DEF LinesOf
<1>4. L \subseteq DOMAIN line /\ \A j \in L : peak[j] \in Int /\ fresh[j] \in Int
  BY DEF LinesOf
<1>5. CASE a \notin U
  <2>1. M = L /\ \A j \in L : fresh[j] = peak[j]
    BY <1>3, <1>3a, <1>4, <1>5
  <2>2. \A b \in U : put'[b] = put[b]
    BY <1>2, <1>5
  <2>3. SumFunctionOnSet(fresh, M) = SumFunctionOnSet(peak, L)
    BY <1>1, <2>1, SumSame
  <2>4. SumFunctionOnSet(put', U) = SumFunctionOnSet(put, U)
    BY <1>2, <2>2, SumSame
  <2> QED BY <1>1, <2>3, <2>4
<1>6. CASE a \in U
  <2>1. SumFunctionOnSet(put', U) = SumFunctionOnSet(put, U) + n
    <3>1. put \in [Article -> Nat] /\ put' = [put EXCEPT ![a] = @ + n]
      BY <1>2
    <3>2. SumFunctionOnSet(put', Units(v)) = SumFunctionOnSet(put, Units(v)) + n
      BY <1>6, <3>1, PutMore
    <3> QED BY <3>2
  <2>2. SumFunctionOnSet(fresh, M) <= SumFunctionOnSet(peak, L) + n
    <3>1. CASE i \in DOMAIN line
      <4>1. M = L /\ i \in L
        BY <1>3, <1>3a, <1>6, <3>1
      <4>2. \A j \in L \ {i} : fresh[j] = peak[j]
        BY <1>4
      <4>3. SumFunctionOnSet(fresh, L) = SumFunctionOnSet(peak, L) + (fresh[i] - peak[i])
        BY <1>1, <1>4, <4>1, <4>2, SumWritten
      <4>4. fresh[i] <= peak[i] + n /\ fresh[i] \in Int /\ peak[i] \in Int
        BY <1>4, <3>1, <4>1
      <4> QED BY <1>1, <4>1, <4>3, <4>4
    <3>2. CASE i \notin DOMAIN line
      <4>1. M = L \cup {i} /\ i \notin L /\ fresh[i] <= n /\ fresh[i] \in Int
        BY <1>3, <1>4, <1>6, <3>2
      <4>2. \A j \in L : fresh[j] = peak[j]
        BY <1>4, <3>2
      <4>3. \A j \in L \cup {i} : fresh[j] \in Int
        BY <1>4, <4>1
      <4>4. SumFunctionOnSet(fresh, L \cup {i}) = SumFunctionOnSet(fresh, L) + fresh[i]
        BY <1>1, <4>1, <4>3, SumGrows
      <4>5. SumFunctionOnSet(fresh, L) = SumFunctionOnSet(peak, L)
        BY <1>1, <4>2, SumSame
      <4> QED BY <1>1, <4>1, <4>4, <4>5
    <3> QED BY <3>1, <3>2
  <2>3. SumFunctionOnSet(fresh, M) \in Nat
    <3>1. IsFiniteSet(M) /\ \A j \in M : fresh[j] \in Nat
      <4>1. M \subseteq DOMAIN line'
        BY DEF LinesOf
      <4> QED BY <4>1, FS_Subset
    <3> QED BY <3>1, SumType
  <2> QED BY <1>1, <2>1, <2>2, <2>3
<1> QED BY <1>5, <1>6

\* What the others are after a step that writes only `lines` in place.
LEMMA OthersAfter ==
    ASSUME NEW h \in Handler, NEW next, NEW lines, Marks(h, next, lines),
           next.op \in Plain \/ (next.op = "record" /\ next.order \in 1 .. Len(order)'),
           \A i \in DOMAIN line \ lines : line'[i] = line[i]
    PROVE  \A g \in Handler : After(request[g], request'[g])
<1>1. After(request[h], request'[h])
  BY DEF Marks, After
<1>2. ASSUME NEW g \in Handler \ {h}
      PROVE  After(request[g], request'[g])
  BY DEF Marks, After
<1> QED BY <1>1, <1>2

LEMMA BagsMoved ==
    ASSUME Typed, BagsInv, LinesGrow, NEW peak \in [DOMAIN line -> Nat], Covers(peak),
           NEW fresh \in [DOMAIN line' -> Nat], PeaksMove(peak, fresh), WasAskedFor(fresh)',
           coded' \subseteq coded, served' \in 0 .. MaxRequests,
           put' \in [Article -> Nat], UNCHANGED <<order, checkout, bought>>,
           \A g \in Handler : After(request[g], request'[g])
    PROVE  BagsInv'
<1>1. Len(order)' = Len(order) /\ Len(order) \in Nat /\ coded' \subseteq Customer
  BY BagsFacts
<1>2. \A k \in Key : checkout'[k].order <= Len(order)'
  BY <1>1, BagsFacts
<1>3. bought' \in [Article -> Nat] /\ Len(order)' \in Nat /\ Len(order) <= Len(order)'
  BY <1>1, BagsFacts
<1> QED BY <1>1, <1>2, <1>3, BagsWritten

LEMMA AddWriteBags ==
    ASSUME Typed, BagsInv, NEW h \in Handler, AddWrite(h)
    PROVE  BagsInv'
<1> PICK r : r = request[h]
  OBVIOUS
<1> PICK i : i = r.line
  OBVIOUS
<1>1. /\ r.op = "add" /\ served' = served
      /\ UNCHANGED <<guest, coded, coupon, order, checkout, bought>>
  BY DEF AddWrite, At, orderVars
<1>2. \/ line' = line /\ put' = put /\ Write(h, Idle, {i}, {}, FALSE)
      \/ /\ put' = [put EXCEPT ![r.article] = @ + 1] /\ Write(h, Answer(r.cart), {i}, {}, FALSE)
         /\ \/ i = 0 /\ r.cart \in Resolve /\ line' = Append(line, Row(r.cart, r.article, 1, 0))
            \/ i # 0 /\ line[i].live /\ line' = [line EXCEPT ![i].qty = r.qty]
  BY DEF AddWrite
<1>3. \A k \in Key : checkout'[k].order <= Len(order)'
  BY <1>1, BagsFacts
<1>4. /\ r.cart \in Customer \cup 1 .. guest /\ r.article \in Article /\ r.qty \in Nat \ {0}
      /\ i # 0 => i \in DOMAIN line /\ line[i].article = r.article
  <2>1. KnowsBag(r, line, guest, Len(order))
    BY DEF BagsInv, AllKnowBags
  <2> QED BY <1>1, <2>1 DEF KnowsBag
<1>5. CASE line' = line /\ put' = put /\ Write(h, Idle, {i}, {}, FALSE)
  <2>1. Marks(h, Idle, {i})
    BY <1>5, WriteMarks
  <2> QED BY <1>1, <1>3, <1>5, <2>1, IdleIsSound, BagsFacts, QuietStep
<1>6. CASE /\ put' = [put EXCEPT ![r.article] = @ + 1] /\ Write(h, Answer(r.cart), {i}, {}, FALSE)
           /\ \/ i = 0 /\ r.cart \in Resolve /\ line' = Append(line, Row(r.cart, r.article, 1, 0))
              \/ i # 0 /\ line[i].live /\ line' = [line EXCEPT ![i].qty = r.qty]
  <2>1. PICK peak \in [DOMAIN line -> Nat] : Covers(peak) /\ WasAskedFor(peak)
    BY DEF BagsInv, RoomInBags
  <2>2. line \in Seq(CartRow) /\ DOMAIN line = 1 .. Len(line) /\ Len(line) \in Nat
    BY DEF BagsInv, BagsTyped
  <2>3. put' \in [Article -> Nat] /\ bought' \in [Article -> Nat]
    BY <1>1, <1>4, <1>6, BagsFacts, SMT
  <2>4. \A j \in DOMAIN line \ {i} : line'[j] = line[j]
    BY <1>6, <2>2
  <2>5. \A g \in Handler : After(request[g], request'[g])
    <3>1. Marks(h, Answer(r.cart), {i})
      BY <1>6, WriteMarks
    <3>2. Answer(r.cart).op = "show"
      BY DEF Answer
    <3>3. Answer(r.cart).op \in Plain
      BY <3>2 DEF Plain
    <3> QED BY <2>4, <3>1, <3>3, OthersAfter
  <2>8. served' \in 0 .. MaxRequests /\ coded' \subseteq coded
    BY <1>1, BagsFacts
  <2>6. CASE i = 0 /\ r.cart \in Resolve /\ line' = Append(line, Row(r.cart, r.article, 1, 0))
    <3> PICK row : row = Row(r.cart, r.article, 1, 0)
      OBVIOUS
    <3> PICK N : N = Len(line) + 1
      OBVIOUS
    <3>0. PICK fresh : fresh = [j \in 1 .. N |-> IF j = N THEN 1 ELSE peak[j]]
      OBVIOUS
    <3>1. /\ row.cart = r.cart /\ row.article = r.article /\ row.qty = 1 /\ row.live
          /\ row \in CartRow
      BY <1>4, BagsFacts DEF Row, CartRow, Garment
    <3>2. /\ line' \in Seq(CartRow) /\ DOMAIN line' = 1 .. N /\ line'[N] = row /\ N \in Nat
          /\ \A j \in DOMAIN line : line'[j] = line[j]
      BY <2>2, <2>6, <3>1
    <3>3. LinesGrow
      <4>1. \A j \in DOMAIN line' : RowFits(line'[j], guest')
        <5>1. RowFits(row, guest)
          BY <1>4, <3>1 DEF RowFits
        <5>2. \A j \in DOMAIN line' : j = N \/ j \in DOMAIN line
          BY <2>2, <3>2
        <5> QED BY <1>1, <3>2, <5>1, <5>2, BagsFacts
      <4> QED BY <1>1, <2>2, <3>2, <4>1, BagsFacts DEF LinesGrow
    <3>4. fresh \in [DOMAIN line' -> Nat] /\ fresh[N] = 1 /\ \A j \in DOMAIN line : fresh[j] = peak[j]
      BY <2>2, <3>0, <3>2
    <3>5. PeaksMove(peak, fresh)
      <4>1. \A j \in DOMAIN line' : j = N \/ j \in DOMAIN line
        BY <2>2, <3>2
      <4>2. \A j \in DOMAIN line : peak[j] \in Nat
        OBVIOUS
      <4>3. \A j \in DOMAIN line : line[j].live => line[j].qty <= peak[j]
        BY <2>1 DEF Covers
      <4>4. \A j \in DOMAIN line' : line'[j].live => line'[j].qty <= fresh[j]
        BY <3>1, <3>2, <3>4, <4>1, <4>3
      <4>5. \A j \in DOMAIN line : peak[j] <= fresh[j]
        BY <3>4, <4>2
      <4> QED BY <4>4, <4>5 DEF PeaksMove
    <3>6. WasAskedFor(fresh)'
      <4>1. /\ DOMAIN line' = DOMAIN line \cup {N} /\ N \notin DOMAIN line
            /\ IsFiniteSet(DOMAIN line')
        <5>1. IsFiniteSet(1 .. N)
          <6>1. 1 \in Int /\ N \in Int
            BY <3>2
          <6> QED BY <6>1, FS_Interval
        <5> QED BY <2>2, <3>2, <5>1
      <4>2. \A j \in DOMAIN line : line'[j].article = line[j].article
        BY <3>2
      <4>3. fresh[N] <= (IF N \in DOMAIN line THEN peak[N] ELSE 0) + 1
        BY <3>4, <4>1
      <4>4. line'[N].article = r.article /\ BagsTyped /\ bought' = bought
        BY <1>1, <3>1, <3>2 DEF BagsInv
      <4>5. \A j \in DOMAIN line \ {N} : fresh[j] = peak[j]
        BY <3>4
      <4> QED BY <1>6, <2>1, <3>4, <4>1, <4>2, <4>3, <4>4, <4>5, OneLineMoves
    <3> QED BY <1>1, <2>1, <2>3, <2>5, <2>8, <3>3, <3>4, <3>5, <3>6, BagsMoved
  <2>7. CASE i # 0 /\ line[i].live /\ line' = [line EXCEPT ![i].qty = r.qty]
    <3>0. PICK fresh : fresh = [peak EXCEPT ![i] = @ + 1]
      OBVIOUS
    <3>1. i \in DOMAIN line /\ line[i] \in CartRow /\ RowFits(line[i], guest) /\ peak[i] \in Nat
      BY <1>4, <2>7, BagsFacts
    <3>2. /\ line'[i].cart = line[i].cart /\ line'[i].article = line[i].article
          /\ line'[i].live = line[i].live /\ line'[i].qty = r.qty
          /\ line'[i] \in CartRow
      BY <1>4, <2>7, <3>1 DEF CartRow
    <3>3. line' \in Seq(CartRow) /\ DOMAIN line' = DOMAIN line
      <4>1. line' = [j \in 1 .. Len(line) |-> line'[j]]
        BY <2>2, <2>7
      <4>2. \A j \in 1 .. Len(line) : line'[j] \in CartRow
        BY <2>2, <2>4, <3>2
      <4> QED BY <2>2, <4>1, <4>2
    <3>4. LinesGrow
      <4>1. \A j \in DOMAIN line' : RowFits(line'[j], guest')
        <5>1. RowFits(line'[i], guest)
          BY <1>4, <3>1, <3>2 DEF RowFits
        <5> QED BY <1>1, <2>4, <3>3, <5>1, BagsFacts
      <4>2. \A j \in DOMAIN line : /\ line'[j].cart = line[j].cart /\ line'[j].article = line[j].article
                                   /\ line'[j].live => line[j].live
        BY <2>4, <3>2
      <4>3. guest' \in Nat \ {0} /\ guest <= guest'
        BY <1>1, BagsFacts
      <4>4. line' \in Seq(CartRow) /\ DOMAIN line \subseteq DOMAIN line'
        BY <3>3
      <4> QED BY <4>1, <4>2, <4>3, <4>4 DEF LinesGrow
    <3>5. /\ fresh \in [DOMAIN line' -> Nat] /\ fresh[i] = peak[i] + 1
          /\ \A j \in DOMAIN line \ {i} : fresh[j] = peak[j]
      BY <3>0, <3>1, <3>3
    <3>6. PeaksMove(peak, fresh)
      <4>1. r.qty <= peak[i] + 1
        <5>1. Enough(r, i, line[i], guest, peak[i])
          BY <2>1, <3>1 DEF Covers
        <5> QED BY <1>1, <2>7, <5>1 DEF Enough
      <4>2. \A j \in DOMAIN line : peak[j] \in Nat
        OBVIOUS
      <4>3. \A j \in DOMAIN line : line[j].live => line[j].qty <= peak[j]
        BY <2>1 DEF Covers
      <4>4. \A j \in DOMAIN line' : line'[j].live => line'[j].qty <= fresh[j]
        BY <2>4, <3>2, <3>3, <3>5, <4>1, <4>3
      <4>5. \A j \in DOMAIN line : peak[j] <= fresh[j]
        BY <3>1, <3>5, <4>2
      <4> QED BY <4>4, <4>5 DEF PeaksMove
    <3>7. WasAskedFor(fresh)'
      <4>1. DOMAIN line' = DOMAIN line \cup {i} /\ IsFiniteSet(DOMAIN line') /\ BagsTyped
        BY <3>1, <3>3, LinesFinite DEF BagsInv
      <4>2. \A j \in DOMAIN line : line'[j].article = line[j].article
        BY <2>4, <3>2
      <4>3. fresh[i] <= (IF i \in DOMAIN line THEN peak[i] ELSE 0) + 1
        BY <3>1, <3>5
      <4>4. line'[i].article = r.article
        BY <1>4, <2>7, <3>2
      <4> QED BY <1>1, <1>6, <2>1, <3>5, <4>1, <4>2, <4>3, <4>4, OneLineMoves
    <3> QED BY <1>1, <2>1, <2>3, <2>5, <2>8, <3>4, <3>5, <3>6, <3>7, BagsMoved
  <2> QED BY <1>6, <2>6, <2>7
<1> QED BY <1>2, <1>5, <1>6

\* Deleted rows stay where they are.
LEMMA LinesGone ==
    ASSUME BagsInv, NEW lines, line' = Without(lines), guest' = guest
    PROVE  /\ LinesGrow /\ DOMAIN line' = DOMAIN line
           /\ \A v : LinesOf(v)' = LinesOf(v)
           /\ \A i \in DOMAIN line : /\ line'[i].qty = line[i].qty /\ line'[i].article = line[i].article
                                     /\ line'[i].live <=> line[i].live /\ i \notin lines
           /\ \A i \in DOMAIN line \ lines : line'[i] = line[i]
<1>1. /\ line \in Seq(CartRow) /\ DOMAIN line = 1 .. Len(line) /\ guest \in Nat \ {0}
      /\ \A i \in DOMAIN line : line[i] \in CartRow /\ RowFits(line[i], guest)
  BY DEF BagsInv, BagsTyped
<1>2. /\ line' = [i \in DOMAIN line |-> line'[i]]
      /\ \A i \in DOMAIN line : line'[i] = [line[i] EXCEPT !.live = @ /\ i \notin lines]
  BY DEF Without
<1>3. ASSUME NEW i \in DOMAIN line
      PROVE  /\ line'[i] \in CartRow /\ line'[i].qty = line[i].qty
             /\ line'[i].article = line[i].article /\ line'[i].cart = line[i].cart
             /\ line'[i].live <=> line[i].live /\ i \notin lines
             /\ RowFits(line'[i], guest)
             /\ i \notin lines => line'[i] = line[i]
  <2>1. line[i] \in CartRow /\ RowFits(line[i], guest)
    BY <1>1
  <2>2. line'[i] = [line[i] EXCEPT !.live = @ /\ i \notin lines]
    BY <1>2
  <2>3. /\ line'[i] \in CartRow /\ line'[i].qty = line[i].qty
        /\ line'[i].article = line[i].article /\ line'[i].cart = line[i].cart
        /\ line'[i].live <=> line[i].live /\ i \notin lines
        /\ i \notin lines => line'[i] = line[i]
    BY <2>1, <2>2 DEF CartRow
  <2> QED BY <2>1, <2>3 DEF RowFits
<1>4. line' \in Seq(CartRow) /\ DOMAIN line' = DOMAIN line
  <2>1. line' \in [1 .. Len(line) -> CartRow]
    BY <1>1, <1>2, <1>3
  <2> QED BY <1>1, <2>1
<1>5. LinesGrow
  BY <1>1, <1>3, <1>4 DEF LinesGrow
<1>6. ASSUME NEW v
      PROVE  LinesOf(v)' = LinesOf(v)
  BY <1>3, <1>4 DEF LinesOf, Units
<1> QED BY <1>3, <1>4, <1>5, <1>6

LEMMA RemoveBags ==
    ASSUME Typed, BagsInv, NEW h \in Handler, NEW k, NEW lines, NEW carts, NEW next,
           next.op \in Plain, RemoveLines(h, k, lines, carts, next)
    PROVE  BagsInv'
<1>1. /\ line' = Without(lines) /\ coded' \subseteq coded
      /\ served < MaxRequests /\ served' = served + 1
      /\ Write(h, next, lines, carts, FALSE)
      /\ UNCHANGED <<guest, put, order, checkout, bought>>
  BY DEF RemoveLines, orderVars
<1>2. PICK peak \in [DOMAIN line -> Nat] : Covers(peak) /\ WasAskedFor(peak)
  BY DEF BagsInv, RoomInBags
<1>3. LinesGrow /\ DOMAIN line' = DOMAIN line /\ \A v : LinesOf(v)' = LinesOf(v)
  BY <1>1, LinesGone
<1>4. PeaksMove(peak, peak)
  <2>1. \A i \in DOMAIN line : line[i].live => line[i].qty <= peak[i]
    BY <1>2 DEF Covers
  <2>2. \A i \in DOMAIN line : line'[i].qty = line[i].qty /\ (line'[i].live => line[i].live)
    BY <1>1, LinesGone
  <2>3. \A i \in DOMAIN line : peak[i] <= peak[i]
    OBVIOUS
  <2> QED BY <1>3, <2>1, <2>2, <2>3 DEF PeaksMove
<1>5. WasAskedFor(peak)'
  BY <1>1, <1>2, <1>3 DEF WasAskedFor, Units
<1>6. \A g \in Handler : After(request[g], request'[g])
  <2>1. Marks(h, next, lines)
    BY <1>1, WriteMarks
  <2>2. \A i \in DOMAIN line \ lines : line'[i] = line[i]
    BY <1>1, LinesGone
  <2> QED BY <2>1, <2>2, OthersAfter
<1>7. served' \in 0 .. MaxRequests /\ put' \in [Article -> Nat]
  BY <1>1, BagsFacts
<1>8. peak \in [DOMAIN line' -> Nat]
  BY <1>3
<1> QED BY <1>1, <1>2, <1>3, <1>4, <1>5, <1>6, <1>7, <1>8, BagsMoved

LEMMA MoreIsCounted ==
    ASSUME NEW S, NEW f \in [S -> Nat], NEW a, NEW n \in Nat
    PROVE  [f EXCEPT ![a] = @ + n] \in [S -> Nat]
<1>1. \A b \in S : [f EXCEPT ![a] = @ + n][b] \in Nat
  <2>1. ASSUME NEW b \in S
        PROVE  [f EXCEPT ![a] = @ + n][b] \in Nat
    <3>1. CASE b = a
      BY <3>1
    <3>2. CASE b # a
      BY <3>2
    <3> QED BY <3>1, <3>2
  <2> QED BY <2>1
<1> QED BY <1>1

LEMMA ItemWriteBags ==
    ASSUME Typed, BagsInv, NEW h \in Handler, ItemWrite(h)
    PROVE  BagsInv'
<1>0. PICK i, q, a, n : /\ i = request[h].line /\ q = request[h].qty /\ a = line[i].article
                        /\ n = IF q > line[i].qty THEN q - line[i].qty ELSE 0
  OBVIOUS
<1>1. /\ request[h].op = "set" /\ served' = served
      /\ UNCHANGED <<guest, coded, coupon, order, checkout, bought>>
  BY DEF ItemWrite, At, orderVars
<1>2. \/ Goto(h, Idle) /\ line' = line /\ put' = put
      \/ /\ line[i].live /\ put' = [put EXCEPT ![a] = @ + n]
         /\ line' = [line EXCEPT ![i].qty = q, ![i].live = q > 0]
         /\ Write(h, Answer(line[i].cart), {i}, {}, FALSE)
  BY <1>0 DEF ItemWrite
<1>3. i \in DOMAIN line /\ q \in Nat
  <2>1. KnowsBag(request[h], line, guest, Len(order))
    BY DEF BagsInv, AllKnowBags
  <2> QED BY <1>0, <1>1, <2>1 DEF KnowsBag
<1>4. CASE Goto(h, Idle) /\ line' = line /\ put' = put
  BY <1>1, <1>4, IdledBags, BagsFacts
<1>5. CASE /\ line[i].live /\ put' = [put EXCEPT ![a] = @ + n]
           /\ line' = [line EXCEPT ![i].qty = q, ![i].live = q > 0]
           /\ Write(h, Answer(line[i].cart), {i}, {}, FALSE)
  <2>1. PICK peak \in [DOMAIN line -> Nat] : Covers(peak) /\ WasAskedFor(peak)
    BY DEF BagsInv, RoomInBags
  <2>2. /\ line \in Seq(CartRow) /\ DOMAIN line = 1 .. Len(line) /\ Len(line) \in Nat
        /\ line[i] \in CartRow /\ RowFits(line[i], guest) /\ peak[i] \in Nat
    BY <1>3 DEF BagsInv, BagsTyped
  <2>3. line[i].qty \in Nat /\ n \in Nat
    BY <1>0, <1>3, <2>2, SMTT(60) DEF CartRow
  <2>4. \A j \in DOMAIN line \ {i} : line'[j] = line[j]
    BY <1>5, <2>2
  <2>5. /\ line'[i].cart = line[i].cart /\ line'[i].article = line[i].article
        /\ line'[i].live <=> q > 0
        /\ line'[i].qty = q /\ line'[i] \in CartRow
    <3>1. line'[i] = [line[i] EXCEPT !.qty = q, !.live = q > 0]
      BY <1>3, <1>5
    <3>2. (q > 0) \in BOOLEAN
      BY <1>3
    <3> QED BY <1>3, <2>2, <3>1, <3>2 DEF CartRow
  <2>6. line' \in Seq(CartRow) /\ DOMAIN line' = DOMAIN line
    <3>1. line' = [j \in 1 .. Len(line) |-> line'[j]]
      BY <1>5, <2>2
    <3>2. \A j \in 1 .. Len(line) : line'[j] \in CartRow
      BY <2>2, <2>4, <2>5
    <3> QED BY <2>2, <3>1, <3>2
  <2>7. LinesGrow
    <3>1. \A j \in DOMAIN line' : RowFits(line'[j], guest')
      <4>1. RowFits(line'[i], guest)
        BY <1>3, <2>2, <2>5 DEF RowFits
      <4> QED BY <1>1, <2>4, <2>6, <4>1, BagsFacts
    <3>2. \A j \in DOMAIN line : /\ line'[j].cart = line[j].cart /\ line'[j].article = line[j].article
                                 /\ line'[j].live => line[j].live
      BY <1>5, <2>4, <2>5
    <3>3. guest' \in Nat \ {0} /\ guest <= guest'
      BY <1>1, BagsFacts
    <3> QED BY <2>6, <3>1, <3>2, <3>3 DEF LinesGrow
  <2>8. PICK fresh : fresh = [peak EXCEPT ![i] = @ + n]
    OBVIOUS
  <2>9. /\ fresh \in [DOMAIN line' -> Nat] /\ fresh[i] = peak[i] + n
        /\ \A j \in DOMAIN line \ {i} : fresh[j] = peak[j]
    BY <1>3, <2>2, <2>3, <2>6, <2>8
  <2>10. PeaksMove(peak, fresh)
    <3>1. \A j \in DOMAIN line : line[j].live => line[j].qty <= peak[j]
      BY <2>1 DEF Covers
    <3>2. q <= fresh[i] /\ peak[i] <= fresh[i]
      BY <1>0, <1>3, <1>5, <2>2, <2>3, <2>9, <3>1
    <3>3. \A j \in DOMAIN line' : line'[j].live => line'[j].qty <= fresh[j]
      BY <2>4, <2>5, <2>6, <2>9, <3>1, <3>2
    <3>4. \A j \in DOMAIN line : peak[j] \in Nat
      OBVIOUS
    <3>5. \A j \in DOMAIN line : peak[j] <= fresh[j]
      BY <2>9, <3>2, <3>4
    <3> QED BY <3>3, <3>5 DEF PeaksMove
  <2>11. WasAskedFor(fresh)'
    <3>1. DOMAIN line' = DOMAIN line \cup {i} /\ IsFiniteSet(DOMAIN line') /\ BagsTyped
      BY <1>3, <2>6, LinesFinite DEF BagsInv
    <3>2. \A j \in DOMAIN line : line'[j].article = line[j].article
      BY <2>4, <2>5
    <3>3. fresh[i] <= (IF i \in DOMAIN line THEN peak[i] ELSE 0) + n
      BY <1>3, <2>2, <2>3, <2>9
    <3>4. line'[i].article = a
      BY <1>0, <2>5
    <3> QED BY <1>1, <1>5, <2>1, <2>3, <2>9, <3>1, <3>2, <3>3, <3>4, OneLineMoves
  <2>12. \A g \in Handler : After(request[g], request'[g])
    <3>1. Marks(h, Answer(line[i].cart), {i})
      BY <1>5, WriteMarks
    <3>2. Answer(line[i].cart).op = "show"
      BY DEF Answer
    <3>3. Answer(line[i].cart).op \in Plain
      BY <3>2 DEF Plain
    <3> QED BY <2>4, <3>1, <3>3, OthersAfter
  <2>13. /\ served' \in 0 .. MaxRequests /\ coded' \subseteq coded /\ put' \in [Article -> Nat]
    <3>1. put \in [Article -> Nat] /\ put' = [put EXCEPT ![a] = @ + n]
      BY <1>5, BagsFacts
    <3>2. put' \in [Article -> Nat]
      BY <2>3, <3>1, MoreIsCounted
    <3> QED BY <1>1, <3>2, BagsFacts
  <2> QED BY <1>1, <2>1, <2>7, <2>9, <2>10, <2>11, <2>12, <2>13, BagsMoved
<1> QED BY <1>2, <1>4, <1>5

-----------------------------------------------------------------------------
(* An order takes what is in the bag *)

\* What a bag that is as it was read is worth in units of v.
LEMMA BagCounted ==
    ASSUME BagsTyped, NEW r, Unread(r, line), NEW v \in DOMAIN Stock,
           NEW peak \in [DOMAIN line -> Nat], Covers(peak),
           NEW fresh, fresh = [i \in DOMAIN line |-> IF i \in DOMAIN r.bag THEN 0 ELSE peak[i]],
           NEW sold, \A a \in Units(v) : sold[a] = UnitsOf(r.bag, a)
    PROVE  /\ \A a \in Units(v) : sold[a] \in Nat
           /\ SumFunctionOnSet(sold, Units(v)) + SumFunctionOnSet(fresh, LinesOf(v))
                 <= SumFunctionOnSet(peak, LinesOf(v))
<1>1. PICK S, A, L, kind, f, V : /\ S = DOMAIN r.bag /\ A = Units(v) /\ L = LinesOf(v)
                                 /\ kind = [i \in DOMAIN line |-> line[i].article]
                                 /\ f = r.bag /\ V = OfKind(S, kind, A)
  OBVIOUS
<1>2. /\ S \subseteq DOMAIN line /\ IsFiniteSet(S) /\ IsFiniteSet(A) /\ IsFiniteSet(L)
      /\ L \subseteq DOMAIN line
  <2>1. S \subseteq DOMAIN line
    BY <1>1 DEF Unread
  <2> QED BY <1>1, <2>1, LinesFinite, UnitsFinite DEF LinesOf
<1>3. \A i \in S : f[i] \in Nat /\ peak[i] \in Nat /\ f[i] <= peak[i]
  <2>1. ASSUME NEW i \in S
        PROVE  f[i] \in Nat /\ peak[i] \in Nat /\ f[i] <= peak[i]
    <3>1. i \in DOMAIN line /\ line[i].live /\ line[i].qty = f[i]
      BY <1>1, <1>2 DEF Unread
    <3>2. line[i] \in CartRow /\ peak[i] \in Nat
      BY <3>1 DEF BagsTyped
    <3> QED BY <3>1, <3>2 DEF Covers, CartRow
  <2> QED BY <2>1
<1>4. \A a : UnitsOf(r.bag, a) = SumFunctionOnSet(f, OfKind(S, kind, {a}))
  <2>1. ASSUME NEW a
        PROVE  UnitsOf(r.bag, a) = SumFunctionOnSet(f, OfKind(S, kind, {a}))
    <3>1. PICK T, g : T = {j \in S : line[j].article = a} /\ g = [i \in T |-> f[i]]
      OBVIOUS
    <3>2. UnitsOf(r.bag, a) = SumFunctionOnSet(g, T)
      BY <1>1, <3>1 DEF UnitsOf, SumFunction
    <3>3. T = OfKind(S, kind, {a})
      BY <1>1, <1>2, <3>1 DEF OfKind
    <3>4. IsFiniteSet(T) /\ \A i \in T : g[i] = f[i]
      BY <1>2, <3>1, FS_Subset
    <3>5. SumFunctionOnSet(g, T) = SumFunctionOnSet(f, T)
      BY <3>4, SumSame
    <3> QED BY <3>2, <3>3, <3>5
  <2> QED BY <2>1
<1>5. \A a \in A : sold[a] = SumFunctionOnSet(f, OfKind(S, kind, {a}))
  BY <1>1, <1>4
<1>6. \A a \in A : sold[a] \in Nat
  <2>1. ASSUME NEW a
        PROVE  SumFunctionOnSet(f, OfKind(S, kind, {a})) \in Nat
    <3>1. PICK T : T = OfKind(S, kind, {a})
      OBVIOUS
    <3>2. T \subseteq S
      BY <3>1 DEF OfKind
    <3>3. IsFiniteSet(T) /\ \A i \in T : f[i] \in Nat
      BY <1>2, <1>3, <3>2, FS_Subset
    <3>4. SumFunctionOnSet(f, T) \in Nat
      BY <3>3, SumType
    <3> QED BY <3>1, <3>4
  <2> QED BY <1>5, <2>1
<1>7. SumFunctionOnSet(sold, A) = SumFunctionOnSet(f, V)
  <2>1. \A i \in S : f[i] \in Int
    BY <1>3
  <2>2. SumFunctionOnSet(sold, A) = SumFunctionOnSet(f, OfKind(S, kind, A))
    BY <1>2, <1>5, <2>1, SumGathers
  <2> QED BY <1>1, <2>2
<1>8. V \subseteq S /\ V \subseteq L /\ IsFiniteSet(V)
  <2>1. V \subseteq S /\ V \subseteq L
    BY <1>1, <1>2 DEF OfKind, LinesOf
  <2> QED BY <1>2, <2>1, FS_Subset
<1>9. L \cap S = V
  BY <1>1, <1>2 DEF OfKind, LinesOf
<1>10. /\ \A i \in L : fresh[i] \in Int /\ peak[i] \in Int
       /\ \A i \in V : fresh[i] = 0 /\ peak[i] \in Nat
       /\ \A i \in L \ V : fresh[i] = peak[i] /\ fresh[i] \in Nat
  BY <1>1, <1>2, <1>8, <1>9
<1>11. SumFunctionOnSet(fresh, L) = SumFunctionOnSet(fresh, L \ V)
  <2>1. \A i \in L \ (L \ V) : fresh[i] = 0
    BY <1>10
  <2> QED BY <1>2, <1>10, <2>1, SumDropsZeros
<1>12. SumFunctionOnSet(fresh, L \ V) = SumFunctionOnSet(peak, L \ V)
  <2>1. IsFiniteSet(L \ V)
    BY <1>2, FS_Subset
  <2> QED BY <1>10, <2>1, SumSame
<1>13. SumFunctionOnSet(peak, L) = SumFunctionOnSet(peak, V) + SumFunctionOnSet(peak, L \ V)
  <2>1. V \in SUBSET L /\ \A i \in L : peak[i] \in Int
    BY <1>8, <1>10
  <2> QED BY <1>2, <2>1, SumOfParts
<1>14. SumFunctionOnSet(f, V) <= SumFunctionOnSet(peak, V)
  <2>1. \A i \in V : f[i] \in Int /\ peak[i] \in Int /\ f[i] <= peak[i]
    BY <1>3, <1>8
  <2> QED BY <1>8, <2>1, SumMonotone
<1>15. /\ SumFunctionOnSet(f, V) \in Nat /\ SumFunctionOnSet(peak, V) \in Nat
       /\ SumFunctionOnSet(peak, L \ V) \in Nat
  <2>1. \A i \in V : f[i] \in Nat /\ peak[i] \in Nat
    BY <1>3, <1>8
  <2>2. IsFiniteSet(L \ V) /\ \A i \in L \ V : peak[i] \in Nat
    BY <1>2, FS_Subset
  <2> QED BY <1>8, <2>1, <2>2, SumType
<1>16. SumFunctionOnSet(sold, A) + SumFunctionOnSet(fresh, L) <= SumFunctionOnSet(peak, L)
  BY <1>7, <1>11, <1>12, <1>13, <1>14, <1>15
<1> QED BY <1>1, <1>6, <1>16

LEMMA CommitBags ==
    ASSUME Typed, Typed', BagsInv, NEW h \in Handler, Commit(h)
    PROVE  BagsInv'
<1>0. PICK r : r = request[h]
  OBVIOUS
<1>1. r.op = "commit" /\ served' = served /\ UNCHANGED <<guest, put, checkout>>
  BY <1>0 DEF Commit, At
<1>2. \/ ~r.stale /\ PlaceOrder(h, r)
      \/ Goto(h, Fail(r.key)) /\ UNCHANGED <<order, coupon, bought, line, coded>>
  BY <1>0 DEF Commit
<1>3. CASE Goto(h, Fail(r.key)) /\ UNCHANGED <<order, coupon, bought, line, coded>>
  BY <1>1, <1>3, RefusedBags
<1>4. CASE ~r.stale /\ PlaceOrder(h, r)
  <2>1. PICK next : /\ next = IF r.key = NoKey THEN Idle
                              ELSE [op |-> "record", key |-> r.key, order |-> Len(order) + 1]
                    /\ Write(h, next, DOMAIN r.bag, {r.customer}, r.code)
    BY <1>4 DEF PlaceOrder
  <2>2. /\ bought' = [a \in Article |-> bought[a] + UnitsOf(r.bag, a)]
        /\ line' = Without(DOMAIN r.bag) /\ coded' = coded \ {r.customer}
        /\ \E o : order' = Append(order, o)
    BY <1>4 DEF PlaceOrder
  <2>3. Unread(r, line)
    <3>1. KnowsBag(r, line, guest, Len(order))
      BY <1>0 DEF BagsInv, AllKnowBags
    <3> QED BY <1>1, <1>4, <3>1 DEF KnowsBag
  <2>4. r.customer \in Customer
    <3>1. r \in Draft(r.bag)
      BY <1>0, <1>1 DEF Typed, Shaped
    <3> QED BY <3>1 DEF Draft
  <2>5. PICK peak \in [DOMAIN line -> Nat] : Covers(peak) /\ WasAskedFor(peak)
    BY DEF BagsInv, RoomInBags
  <2>6. PICK fresh : fresh = [i \in DOMAIN line |-> IF i \in DOMAIN r.bag THEN 0 ELSE peak[i]]
    OBVIOUS
  <2>7. LinesGrow /\ DOMAIN line' = DOMAIN line /\ \A v : LinesOf(v)' = LinesOf(v)
    BY <1>1, <2>2, LinesGone
  <2>8. fresh \in [DOMAIN line' -> Nat]
    BY <2>6, <2>7
  <2>9. PeaksMove(peak, fresh)
    <3>1. \A i \in DOMAIN line : line[i].live => line[i].qty <= peak[i]
      BY <2>5 DEF Covers
    <3>2. \A i \in DOMAIN line : line'[i].qty = line[i].qty /\ (line'[i].live <=> line[i].live /\ i \notin DOMAIN r.bag)
      BY <1>1, <2>2, LinesGone
    <3>3. \A i \in DOMAIN line' : line'[i].live => line'[i].qty <= fresh[i]
      BY <2>6, <2>7, <3>1, <3>2
    <3>4. \A i \in DOMAIN line : \/ peak[i] <= fresh[i]
                                 \/ ~line'[i].live /\ line[i].cart \in Customer
      <4>1. ASSUME NEW i \in DOMAIN line, i \notin DOMAIN r.bag
            PROVE  peak[i] <= fresh[i]
        <5>1. fresh[i] = peak[i] /\ peak[i] \in Nat
          BY <2>6, <4>1
        <5> QED BY <5>1
      <4>2. ASSUME NEW i \in DOMAIN line, i \in DOMAIN r.bag
            PROVE  ~line'[i].live /\ line[i].cart \in Customer
        BY <2>3, <2>4, <3>2, <4>2 DEF Unread
      <4> QED BY <4>1, <4>2
    <3> QED BY <3>3, <3>4 DEF PeaksMove
  <2>10. bought' \in [Article -> Nat]
    <3>1. ASSUME NEW a \in Article
          PROVE  UnitsOf(r.bag, a) \in Nat
      <4>1. PICK sold : sold = [b \in Units(a.variant) |-> UnitsOf(r.bag, b)]
        OBVIOUS
      <4>2. a.variant \in DOMAIN Stock /\ a \in Units(a.variant) /\ BagsTyped
        BY CheckoutAssumption DEF Units, BagsInv
      <4>3. \A b \in Units(a.variant) : sold[b] = UnitsOf(r.bag, b)
        BY <4>1
      <4>4. sold[a] \in Nat
        BY <2>3, <2>5, <2>6, <4>2, <4>3, BagCounted
      <4> QED BY <4>2, <4>3, <4>4
    <3> QED BY <2>2, <3>1, BagsFacts
  <2>11. WasAskedFor(fresh)'
    <3> SUFFICES ASSUME NEW v \in DOMAIN Stock
                 PROVE  SumFunctionOnSet(fresh, LinesOf(v)') + SumFunctionOnSet(bought', Units(v))
                           <= SumFunctionOnSet(put, Units(v))
      BY <1>1 DEF WasAskedFor, Units
    <3>1. PICK sold : sold = [b \in Units(v) |-> UnitsOf(r.bag, b)]
      OBVIOUS
    <3>2. PICK U, L : U = Units(v) /\ L = LinesOf(v)
      OBVIOUS
    <3>3. /\ \A a \in U : sold[a] \in Nat
          /\ SumFunctionOnSet(sold, U) + SumFunctionOnSet(fresh, L) <= SumFunctionOnSet(peak, L)
      <4>1. BagsTyped /\ \A a \in Units(v) : sold[a] = UnitsOf(r.bag, a)
        BY <3>1 DEF BagsInv
      <4> QED BY <2>3, <2>5, <2>6, <3>2, <4>1, BagCounted
    <3>4. SumFunctionOnSet(bought', U) = SumFunctionOnSet(bought, U) + SumFunctionOnSet(sold, U)
      <4>1. PICK was, new : was = bought /\ new = bought'
        OBVIOUS
      <4>2. IsFiniteSet(U) /\ U \subseteq Article
        BY <3>2, UnitsFinite
      <4>3. \A a \in U : was[a] \in Int /\ sold[a] \in Int /\ new[a] = was[a] + sold[a]
        BY <2>2, <3>1, <3>2, <3>3, <4>1, <4>2, BagsFacts
      <4>4. SumFunctionOnSet(new, U) = SumFunctionOnSet(was, U) + SumFunctionOnSet(sold, U)
        BY <4>2, <4>3, SumOfTwo
      <4> QED BY <4>1, <4>4
    <3>5. /\ SumFunctionOnSet(peak, L) + SumFunctionOnSet(bought, U) <= SumFunctionOnSet(put, U)
          /\ SumFunctionOnSet(peak, L) \in Nat /\ SumFunctionOnSet(bought, U) \in Nat
          /\ SumFunctionOnSet(put, U) \in Nat
      BY <2>5, <3>2, Sums DEF WasAskedFor, BagsInv
    <3>6. SumFunctionOnSet(fresh, L) \in Nat /\ SumFunctionOnSet(sold, U) \in Nat
      <4>1. IsFiniteSet(U) /\ IsFiniteSet(L) /\ \A i \in L : fresh[i] \in Nat
        BY <2>6, <3>2, Sums, UnitsFinite DEF BagsInv
      <4> QED BY <3>3, <4>1, SumType
    <3>7. LinesOf(v)' = L
      BY <2>7, <3>2
    <3> QED BY <3>2, <3>3, <3>4, <3>5, <3>6, <3>7
  <2>12. Len(order)' = Len(order) + 1 /\ Len(order) \in Nat
    BY <2>2, BagsFacts DEF Typed
  <2>13. \A g \in Handler : After(request[g], request'[g])
    <3>1. Marks(h, next, DOMAIN r.bag)
      BY <2>1, WriteMarks
    <3>2. next.op \in Plain \/ (next.op = "record" /\ next.order \in 1 .. Len(order)')
      <4>1. CASE r.key = NoKey
        <5>1. next.op = "idle"
          BY <2>1, <4>1 DEF Idle
        <5> QED BY <5>1 DEF Plain
      <4>2. CASE r.key # NoKey
        <5>1. next.op = "record" /\ next.order = Len(order) + 1
          BY <2>1, <4>2
        <5> QED BY <2>12, <5>1
      <4> QED BY <4>1, <4>2
    <3>3. \A i \in DOMAIN line \ DOMAIN r.bag : line'[i] = line[i]
      BY <1>1, <2>2, LinesGone
    <3> QED BY <3>1, <3>2, <3>3, OthersAfter
  <2>14. /\ served' \in 0 .. MaxRequests /\ coded' \subseteq Customer /\ put' \in [Article -> Nat]
         /\ Len(order)' \in Nat /\ Len(order) <= Len(order)'
    BY <1>1, <2>2, <2>12, BagsFacts
  <2>15. \A k \in Key : checkout'[k].order <= Len(order)'
    <3>1. \A k \in Key : checkout[k].order <= Len(order) /\ checkout[k].order \in Nat
      BY BagsFacts DEF Session
    <3> QED BY <1>1, <2>12, <3>1
  <2> QED BY <2>5, <2>7, <2>8, <2>9, <2>10, <2>11, <2>12, <2>13, <2>14, <2>15, BagsWritten
<1> QED BY <1>2, <1>3, <1>4

-----------------------------------------------------------------------------
(* Articles bought as one *)

LEMMA Listed ==
    ASSUME NEW S, IsFiniteSet(S)
    PROVE  /\ SetToSeq(S) \in Seq(S)
           /\ \A i, j \in 1 .. Len(SetToSeq(S)) : SetToSeq(S)[i] = SetToSeq(S)[j] => i = j
<1>1. PICK n : n = Cardinality(S)
  OBVIOUS
<1>2. n \in Nat /\ \E f \in [1 .. n -> S] : IsInjective(f)
  <2>1. n \in Nat /\ ExistsBijection(1 .. n, S)
    BY <1>1, FS_CardinalityType
  <2> QED BY <2>1 DEF ExistsBijection, Bijection, Injection
<1>3. SetToSeq(S) \in [1 .. n -> S] /\ IsInjective(SetToSeq(S))
  BY <1>1, <1>2 DEF SetToSeq
<1>4. PICK s : s = SetToSeq(S)
  OBVIOUS
<1>5. s \in [1 .. n -> S] /\ \A i, j \in DOMAIN s : s[i] = s[j] => i = j
  BY <1>3, <1>4 DEF IsInjective
<1>6. s \in Seq(S) /\ Len(s) = n
  BY <1>2, <1>5
<1> QED BY <1>4, <1>5, <1>6

\* One row for each article of a set, and one more asked for of each.
LEMMA GroupCounted ==
    ASSUME BagsTyped, NEW peak \in [DOMAIN line -> Nat], WasAskedFor(peak),
           NEW G \in SUBSET Article, NEW D, IsFiniteSet(D), DOMAIN line' = DOMAIN line \cup D,
           DOMAIN line \cap D = {},
           \A j \in DOMAIN line : line'[j].article = line[j].article,
           \A j \in D : line'[j].article \in G,
           \A i, j \in D : line'[i].article = line'[j].article => i = j,
           put' = [a \in Article |-> put[a] + (IF a \in G THEN 1 ELSE 0)], bought' = bought,
           NEW fresh, \A j \in DOMAIN line : fresh[j] = peak[j], \A j \in D : fresh[j] = 1
    PROVE  WasAskedFor(fresh)'
<1> SUFFICES ASSUME NEW v \in DOMAIN Stock
             PROVE  SumFunctionOnSet(fresh, LinesOf(v)') + SumFunctionOnSet(bought, Units(v))
                       <= SumFunctionOnSet(put', Units(v))
  BY DEF WasAskedFor, Units
<1>1. PICK L, M, U, kind, V, one : /\ L = LinesOf(v) /\ M = LinesOf(v)' /\ U = Units(v)
                                   /\ kind = [j \in DOMAIN line' |-> line'[j].article]
                                   /\ V = OfKind(D, kind, U)
                                   /\ one = [a \in Article |-> IF a \in G THEN 1 ELSE 0]
  OBVIOUS
<1>2. /\ IsFiniteSet(L) /\ L \subseteq DOMAIN line /\ SumFunctionOnSet(peak, L) \in Nat
      /\ SumFunctionOnSet(bought, U) \in Nat /\ SumFunctionOnSet(put, U) \in Nat
      /\ SumFunctionOnSet(peak, L) + SumFunctionOnSet(bought, U) <= SumFunctionOnSet(put, U)
  BY <1>1, Sums DEF WasAskedFor
<1>3. IsFiniteSet(U) /\ U \subseteq Article /\ put \in [Article -> Nat]
  BY <1>1, UnitsFinite DEF BagsTyped
<1>4. M = L \cup V /\ L \cap V = {} /\ V \subseteq D
  <2>1. V = {j \in D : line'[j].article \in U}
    BY <1>1 DEF OfKind
  <2>2. L = {j \in DOMAIN line : line[j].article \in U} /\ M = {j \in DOMAIN line' : line'[j].article \in U}
    BY <1>1 DEF LinesOf, Units
  <2> QED BY <2>1, <2>2
<1>5. IsFiniteSet(V) /\ IsFiniteSet(M)
  BY <1>2, <1>4, FS_Subset, FS_Union
<1>6. \A j \in M : fresh[j] \in Nat
  BY <1>2, <1>4
<1>7. SumFunctionOnSet(fresh, M) = SumFunctionOnSet(peak, L) + SumFunctionOnSet(fresh, V)
  <2>1. L \in SUBSET M /\ M \ L = V /\ \A j \in M : fresh[j] \in Int
    BY <1>4, <1>6
  <2>2. SumFunctionOnSet(fresh, M) = SumFunctionOnSet(fresh, L) + SumFunctionOnSet(fresh, M \ L)
    BY <1>5, <2>1, SumOfParts
  <2>3. \A j \in L : fresh[j] = peak[j]
    BY <1>2
  <2>4. SumFunctionOnSet(fresh, L) = SumFunctionOnSet(peak, L)
    BY <1>2, <2>3, SumSame
  <2> QED BY <2>1, <2>2, <2>4
<1>8. ASSUME NEW a
      PROVE  /\ SumFunctionOnSet(fresh, OfKind(D, kind, {a})) \in Nat
             /\ SumFunctionOnSet(fresh, OfKind(D, kind, {a})) <= (IF a \in G THEN 1 ELSE 0)
  <2>1. PICK T : T = OfKind(D, kind, {a})
    OBVIOUS
  <2>2. T = {j \in D : line'[j].article = a}
    BY <1>1, <2>1 DEF OfKind
  <2>3. CASE T = {}
    <3>1. SumFunctionOnSet(fresh, T) = 0
      BY <2>3, SumUnfolds
    <3> QED BY <2>1, <3>1
  <2>4. CASE T # {}
    <3>1. PICK i : i \in T
      BY <2>4
    <3>2. T = {i} /\ i \in D /\ a \in G
      BY <2>2, <3>1
    <3>3. PICK E : E = {}
      OBVIOUS
    <3>4. IsFiniteSet(E) /\ i \notin E /\ T = E \cup {i} /\ \A y \in E \cup {i} : fresh[y] \in Int
      BY <3>2, <3>3, FS_EmptySet
    <3>5. SumFunctionOnSet(fresh, E \cup {i}) = SumFunctionOnSet(fresh, E) + fresh[i]
      BY <3>4, SumGrows
    <3>6. SumFunctionOnSet(fresh, E) = 0
      BY <3>3, SumUnfolds
    <3>7. SumFunctionOnSet(fresh, T) = 1
      <4>1. fresh[i] = 1
        BY <3>2
      <4>2. SumFunctionOnSet(fresh, T) = SumFunctionOnSet(fresh, E) + fresh[i]
        BY <3>4, <3>5, Zenon
      <4> QED BY <3>6, <4>1, <4>2
    <3> QED BY <2>1, <3>2, <3>7
  <2> QED BY <2>3, <2>4
<1>9. PICK F : F = [a \in U |-> SumFunctionOnSet(fresh, OfKind(D, kind, {a}))]
  OBVIOUS
<1>10. SumFunctionOnSet(F, U) = SumFunctionOnSet(fresh, V)
  <2>1. \A a \in U : F[a] = SumFunctionOnSet(fresh, OfKind(D, kind, {a}))
    BY <1>9
  <2>2. \A j \in D : fresh[j] \in Int
    OBVIOUS
  <2>3. SumFunctionOnSet(F, U) = SumFunctionOnSet(fresh, OfKind(D, kind, U))
    BY <1>3, <2>1, <2>2, SumGathers
  <2> QED BY <1>1, <2>3
<1>11. \A a \in U : F[a] \in Nat /\ one[a] \in Nat /\ F[a] <= one[a]
  <2>1. \A a \in U : one[a] = IF a \in G THEN 1 ELSE 0
    BY <1>1, <1>3
  <2>2. ASSUME NEW a \in U
        PROVE  F[a] \in Nat /\ F[a] <= (IF a \in G THEN 1 ELSE 0)
    BY <1>8, <1>9
  <2> QED BY <2>1, <2>2
<1>12. SumFunctionOnSet(F, U) <= SumFunctionOnSet(one, U)
  <2>1. \A a \in U : F[a] \in Int /\ one[a] \in Int /\ F[a] <= one[a]
    BY <1>11
  <2> QED BY <1>3, <2>1, SumMonotone
<1>13. SumFunctionOnSet(put', U) = SumFunctionOnSet(put, U) + SumFunctionOnSet(one, U)
  <2>1. PICK was, new : was = put /\ new = put'
    OBVIOUS
  <2>2. \A a \in U : was[a] \in Int /\ one[a] \in Int /\ new[a] = was[a] + one[a]
    BY <1>1, <1>3, <1>11, <2>1
  <2>3. SumFunctionOnSet(new, U) = SumFunctionOnSet(was, U) + SumFunctionOnSet(one, U)
    BY <1>3, <2>2, SumOfTwo
  <2> QED BY <2>1, <2>3
<1>14. /\ SumFunctionOnSet(fresh, V) \in Nat /\ SumFunctionOnSet(one, U) \in Nat
  <2>1. \A j \in V : fresh[j] \in Nat
    BY <1>4, <1>6
  <2>2. \A a \in U : one[a] \in Nat
    BY <1>11
  <2> QED BY <1>3, <1>5, <2>1, <2>2, SumType
<1>15. SumFunctionOnSet(fresh, M) + SumFunctionOnSet(bought, U) <= SumFunctionOnSet(put', U)
  BY <1>2, <1>7, <1>10, <1>12, <1>13, <1>14
<1> QED BY <1>1, <1>15

LEMMA AddGroupBags ==
    ASSUME Typed, BagsInv, NEW h \in Handler, NEW k \in Resolve, NEW G \in Groups, addGroup(h, k, G)
    PROVE  BagsInv'
<1>0. PICK n, rows, new : /\ n = Len(line) /\ rows = {Row(k, a, 1, n + 1) : a \in G}
                          /\ new = SetToSeq(rows)
  OBVIOUS
<1>1. /\ line' = line \o new
      /\ put' = [a \in Article |-> put[a] + (IF a \in G THEN 1 ELSE 0)]
      /\ Begin(h, Answer(k)) /\ UNCHANGED <<guest, coded, order, checkout, bought>>
  BY <1>0 DEF addGroup, orderVars
<1>2. G \in SUBSET Article /\ IsFiniteSet(G)
  BY CheckoutAssumption, FS_Subset
<1>3. line \in Seq(CartRow) /\ n \in Nat /\ DOMAIN line = 1 .. n
  BY <1>0 DEF BagsInv, BagsTyped
<1>4. k \in Customer \cup {guest} /\ guest \in Nat \ {0}
  BY BagsFacts DEF Resolve
<1>5. ASSUME NEW a \in G
      PROVE  /\ Row(k, a, 1, n + 1) \in CartRow /\ Row(k, a, 1, n + 1).article = a
             /\ RowFits(Row(k, a, 1, n + 1), guest) /\ Row(k, a, 1, n + 1).qty = 1
  <2>1. PICK x : x = Row(k, a, 1, n + 1)
    OBVIOUS
  <2>2. x \in CartRow /\ x.article = a /\ x.cart = k /\ x.qty = 1
    BY <1>2, <1>3, <1>4, <2>1 DEF Row, CartRow, Garment
  <2> QED BY <1>2, <1>4, <2>1, <2>2 DEF RowFits
<1>6. IsFiniteSet(rows)
  <2>1. PICK f : f = [a \in G |-> Row(k, a, 1, n + 1)]
    OBVIOUS
  <2>2. rows = {f[a] : a \in G}
    BY <1>0, <2>1
  <2> QED BY <1>2, <2>2, ValuesAreFinite
<1>7. new \in Seq(rows) /\ \A i, j \in 1 .. Len(new) : new[i] = new[j] => i = j
  BY <1>0, <1>6, Listed, ZenonT(90)
<1>8. ASSUME NEW i \in 1 .. Len(new)
      PROVE  /\ new[i] \in CartRow /\ new[i].article \in G /\ RowFits(new[i], guest)
             /\ new[i].qty = 1 /\ new[i] = Row(k, new[i].article, 1, n + 1)
  <2>1. new[i] \in rows
    BY <1>7
  <2>2. PICK a \in G : new[i] = Row(k, a, 1, n + 1)
    BY <1>0, <2>1
  <2> QED BY <1>5, <2>2
<1>9. PICK m, D : m = Len(new) /\ D = n + 1 .. n + m
  OBVIOUS
<1>10. /\ m \in Nat /\ IsFiniteSet(D) /\ new \in Seq(CartRow) /\ DOMAIN new = 1 .. m
  <2>1. m \in Nat /\ DOMAIN new = 1 .. m
    BY <1>7, <1>9
  <2>2. IsFiniteSet(D)
    <3>1. n + 1 \in Int /\ n + m \in Int
      BY <1>3, <2>1
    <3> QED BY <1>9, <3>1, FS_Interval
  <2>3. new \in Seq(CartRow)
    <3>1. \A i \in 1 .. m : new[i] \in CartRow
      BY <1>8, <1>9
    <3> QED BY <1>7, <1>9, <3>1
  <2> QED BY <2>1, <2>2, <2>3
<1>11. /\ line' \in Seq(CartRow) /\ DOMAIN line' = 1 .. n + m
       /\ \A j \in 1 .. n : line'[j] = line[j]
       /\ \A j \in 1 .. m : line'[n + j] = new[j]
  <2>1. line' = line \o new /\ line \in Seq(CartRow) /\ Len(line) = n /\ n \in Nat
    BY <1>1, <1>3
  <2>2. new \in Seq(CartRow) /\ Len(new) = m /\ m \in Nat
    BY <1>9, <1>10
  <2>3. /\ line \o new \in Seq(CartRow) /\ Len(line \o new) = Len(line) + Len(new)
        /\ \A j \in 1 .. Len(line) + Len(new) :
              (line \o new)[j] = IF j <= Len(line) THEN line[j] ELSE new[j - Len(line)]
    BY <2>1, <2>2, ConcatProperties
  <2>4. /\ line' \in Seq(CartRow) /\ Len(line') = n + m
        /\ \A j \in 1 .. n + m : line'[j] = IF j <= n THEN line[j] ELSE new[j - n]
    BY <2>1, <2>2, <2>3
  <2>5. \A j \in 1 .. m : n + j \in 1 .. n + m /\ ~(n + j <= n) /\ (n + j) - n = j
    BY <2>1, <2>2
  <2>6. \A j \in 1 .. n : j \in 1 .. n + m /\ j <= n
    BY <2>1, <2>2
  <2>7. \A j \in 1 .. m : line'[n + j] = new[j]
    BY <2>4, <2>5
  <2>8. \A j \in 1 .. n : line'[j] = line[j]
    BY <2>4, <2>6
  <2> QED BY <2>1, <2>2, <2>4, <2>7, <2>8
<1>12. /\ DOMAIN line' = DOMAIN line \cup D /\ DOMAIN line \cap D = {}
       /\ \A j \in DOMAIN line : line'[j] = line[j]
       /\ \A j \in D : j - n \in 1 .. m /\ line'[j] = new[j - n]
  BY <1>3, <1>9, <1>10, <1>11
<1>13. PICK peak \in [DOMAIN line -> Nat] : Covers(peak) /\ WasAskedFor(peak)
  BY DEF BagsInv, RoomInBags
<1>14. PICK fresh : fresh = [j \in 1 .. n + m |-> IF j \in DOMAIN line THEN peak[j] ELSE 1]
  OBVIOUS
<1>15. /\ fresh \in [DOMAIN line' -> Nat] /\ \A j \in DOMAIN line : fresh[j] = peak[j]
       /\ \A j \in D : fresh[j] = 1
  BY <1>11, <1>12, <1>14
<1>16. ASSUME NEW j \in D
       PROVE  /\ line'[j].article \in G /\ RowFits(line'[j], guest) /\ line'[j].qty = 1
              /\ line'[j] = Row(k, line'[j].article, 1, n + 1)
  BY <1>8, <1>9, <1>12
<1>17. LinesGrow
  <2>1. \A j \in DOMAIN line' : RowFits(line'[j], guest')
    BY <1>1, <1>12, <1>16, BagsFacts
  <2>2. \A j \in DOMAIN line : /\ line'[j].cart = line[j].cart /\ line'[j].article = line[j].article
                               /\ line'[j].live => line[j].live
    BY <1>12
  <2>3. guest' \in Nat \ {0} /\ guest <= guest'
    BY <1>1, <1>4
  <2> QED BY <1>11, <1>12, <2>1, <2>2, <2>3 DEF LinesGrow
<1>18. PeaksMove(peak, fresh)
  <2>1. \A j \in DOMAIN line : line[j].live => line[j].qty <= peak[j]
    BY <1>13 DEF Covers
  <2>2. \A j \in DOMAIN line' : line'[j].live => line'[j].qty <= fresh[j]
    BY <1>12, <1>15, <1>16, <2>1
  <2>3. \A j \in DOMAIN line : peak[j] \in Nat
    OBVIOUS
  <2>4. \A j \in DOMAIN line : peak[j] <= fresh[j]
    BY <1>15, <2>3
  <2> QED BY <2>2, <2>4 DEF PeaksMove
<1>19. WasAskedFor(fresh)'
  <2>1. \A i, j \in D : line'[i].article = line'[j].article => i = j
    <3>1. ASSUME NEW i \in D, NEW j \in D, line'[i].article = line'[j].article
          PROVE  i = j
      <4>1. line'[i] = line'[j]
        BY <1>16, <3>1
      <4>2. i - n = j - n
        BY <1>7, <1>9, <1>12, <4>1
      <4>3. i \in Int /\ j \in Int /\ n \in Int
        BY <1>3, <1>9, <1>10
      <4> QED BY <4>2, <4>3
    <3> QED BY <3>1
  <2>2. \A j \in D : line'[j].article \in G
    BY <1>16
  <2>3. \A j \in DOMAIN line : line'[j].article = line[j].article
    BY <1>12
  <2>4. BagsTyped /\ bought' = bought /\ IsFiniteSet(D)
    BY <1>1, <1>10 DEF BagsInv
  <2> QED BY <1>1, <1>2, <1>12, <1>13, <1>15, <2>1, <2>2, <2>3, <2>4, GroupCounted
<1>20. \A g \in Handler : After(request[g], request'[g])
  <2>1. Marks(h, Answer(k), {})
    BY <1>1, GotoMarks DEF Begin
  <2>2. Answer(k).op = "show"
    BY DEF Answer
  <2>3. Answer(k).op \in Plain
    BY <2>2 DEF Plain
  <2>4. \A j \in DOMAIN line \ {} : line'[j] = line[j]
    BY <1>12
  <2> QED BY <2>1, <2>3, <2>4, OthersAfter
<1>21. served' \in 0 .. MaxRequests /\ coded' \subseteq coded /\ put' \in [Article -> Nat]
  BY <1>1, BagsFacts DEF Begin
<1> QED BY <1>1, <1>13, <1>15, <1>17, <1>18, <1>19, <1>20, <1>21, BagsMoved

-----------------------------------------------------------------------------
(* The merge: what the fold computes *)

\* g solves the recursion of Merged over the subsets of V.
Merges(items, c, V, g) ==
    g = [s \in SUBSET V |-> IF s = {} THEN line
                            ELSE MergeOne(g[s \ {Max(s)}], Max(s), items[Max(s)], c)]

\* The next item to fold in can be chosen.
Choosable(S) == \A s \in SUBSET S : s # {} => Max(s) \in s

LEMMA MaxIn ==
    ASSUME NEW S, IsFiniteSet(S), S \subseteq Int
    PROVE  Choosable(S)
BY MaxOfFinite, FS_Subset DEF Choosable

LEMMA MergesOnce ==
    ASSUME NEW S, IsFiniteSet(S), Choosable(S), NEW items, NEW c,
           NEW V \in SUBSET S, NEW W \in SUBSET S,
           NEW g, NEW k, Merges(items, c, V, g), Merges(items, c, W, k), NEW s \in SUBSET V, s \subseteq W
    PROVE  g[s] = k[s]
<1> DEFINE T == {t \in SUBSET V : t \subseteq W /\ g[t] # k[t]}
<1>1. SUFFICES ASSUME T # {} PROVE FALSE
  OBVIOUS
<1>2. PICK U \in T : \A t \in T : t \subseteq U => t = U
  <2>1. T \in SUBSET SUBSET S
    OBVIOUS
  <2> HIDE DEF T
  <2> QED BY <2>1, <1>1, SmallestSubset
<1>3. U # {}
  BY DEF Merges
<1>4. Max(U) \in U
  BY <1>3 DEF Choosable
<1>5. g[U \ {Max(U)}] = k[U \ {Max(U)}]
  BY <1>2, <1>4
<1>6. g[U] = MergeOne(g[U \ {Max(U)}], Max(U), items[Max(U)], c)
  BY <1>3 DEF Merges
<1>7. k[U] = MergeOne(k[U \ {Max(U)}], Max(U), items[Max(U)], c)
  <2>1. U \in SUBSET W
    OBVIOUS
  <2> HIDE DEF T
  <2> QED BY <1>3, <2>1 DEF Merges
<1> QED BY <1>5, <1>6, <1>7

LEMMA SomeMerges ==
    ASSUME NEW S, IsFiniteSet(S), Choosable(S), NEW items, NEW c
    PROVE  \E g : Merges(items, c, S, g)
<1> DEFINE T == {V \in SUBSET S : ~\E g : Merges(items, c, V, g)}
<1>1. SUFFICES ASSUME T # {} PROVE FALSE
  OBVIOUS
<1>2. PICK U \in T : \A t \in T : t \subseteq U => t = U
  <2>1. T \in SUBSET SUBSET S
    OBVIOUS
  <2> HIDE DEF T
  <2> QED BY <2>1, <1>1, SmallestSubset
<1> DEFINE G(V) == CHOOSE g : Merges(items, c, V, g)
           One(s, rows) == MergeOne(rows, Max(s), items[Max(s)], c)
           k == [s \in SUBSET U |-> IF s = {} THEN line
                                    ELSE One(s, G(s \ {Max(s)})[s \ {Max(s)}])]
<1>3. ASSUME NEW V \in SUBSET U, V # U
      PROVE  Merges(items, c, V, G(V))
  BY <1>2, <1>3
<1>4. ASSUME NEW V \in SUBSET U, V # U
      PROVE  k[V] = G(V)[V]
  <2>1. CASE V = {}
    <3>1. Merges(items, c, V, G(V))
      BY <1>3, <1>4
    <3>2. V \in SUBSET V
      OBVIOUS
    <3> HIDE DEF G
    <3>3. G(V)[V] = line
      BY <2>1, <3>1, <3>2 DEF Merges
    <3> QED BY <2>1, <3>3
  <2>2. CASE V # {}
    <3> DEFINE W == V \ {Max(V)}
    <3>1. Max(V) \in V /\ W \in SUBSET V /\ W # U
      <4>1. V \in SUBSET S
        OBVIOUS
      <4> QED BY <2>2, <4>1 DEF Choosable
    <3>2. Merges(items, c, V, G(V)) /\ Merges(items, c, W, G(W))
      BY <3>1, <1>3, <1>4
    <3>3. G(V)[W] = G(W)[W]
      <4>1. V \in SUBSET S /\ W \in SUBSET S /\ W \in SUBSET V /\ W \subseteq W
        BY <3>1
      <4> HIDE DEF G, W
      <4> QED BY <3>2, <4>1, MergesOnce
    <3>4. G(V)[V] = One(V, G(V)[W])
      <4> HIDE DEF G
      <4> QED BY <3>2, <2>2 DEF Merges
    <3>5. k[V] = One(V, G(W)[W])
      <4> HIDE DEF G, One
      <4> QED BY <2>2
    <3> HIDE DEF G, One, k
    <3> QED BY <3>3, <3>4, <3>5
  <2> QED BY <2>1, <2>2
<1>5. ASSUME NEW s \in SUBSET U
      PROVE  k[s] = IF s = {} THEN line ELSE One(s, k[s \ {Max(s)}])
  <2>1. CASE s = {}
    BY <2>1
  <2>2. CASE s # {}
    <3>1. Max(s) \in s
      <4>1. s \in SUBSET S
        OBVIOUS
      <4> QED BY <2>2, <4>1 DEF Choosable
    <3>2. k[s \ {Max(s)}] = G(s \ {Max(s)})[s \ {Max(s)}]
      <4>1. s \ {Max(s)} \in SUBSET U /\ s \ {Max(s)} # U
        BY <3>1
      <4> HIDE DEF k, G
      <4> QED BY <4>1, <1>4
    <3>3. k[s] = One(s, G(s \ {Max(s)})[s \ {Max(s)}])
      <4> HIDE DEF G, One
      <4> QED BY <2>2
    <3> HIDE DEF G, k, One
    <3> QED BY <2>2, <3>2, <3>3
  <2> QED BY <2>1, <2>2
<1>6. Merges(items, c, U, k)
  <2>1. k = [s \in SUBSET U |-> k[s]]
    <3> HIDE DEF G, One
    <3> QED OBVIOUS
  <2> HIDE DEF k
  <2>2. k = [s \in SUBSET U |-> IF s = {} THEN line ELSE One(s, k[s \ {Max(s)}])]
    <3> HIDE DEF One
    <3> QED BY <2>1, <1>5
  <2> QED BY <2>2 DEF Merges
<1> QED BY <1>2, <1>6

\* The items that are not sold out.
Foldable(items) == {i \in DOMAIN items : InStock(i)}

LEMMA MergedMerges ==
    ASSUME NEW items, NEW c, NEW S, S = Foldable(items), IsFiniteSet(S), S \subseteq Int
    PROVE  \E g : Merges(items, c, S, g) /\ Merged(items, c) = g[S]
<1> DEFINE g == CHOOSE g : Merges(items, c, S, g)
<1>1. Merges(items, c, S, g)
  BY MaxIn, SomeMerges
<1>2. Merged(items, c) = g[S]
  BY DEF Merged, MapThenFoldSet, Merges, Foldable
<1> QED BY <1>1, <1>2

-----------------------------------------------------------------------------
(* The merge: what it does to the bags *)

RowsOf(rows, v) == {i \in DOMAIN rows : rows[i].article \in Units(v)}

\* The rows of the database when the items of s are in the bag of c: the guest's
\* lines are still there, and most is the most there can be of the others.
Folded(rows, c, s, peak, most) ==
    /\ rows \in Seq(CartRow) /\ DOMAIN line \subseteq DOMAIN rows
    /\ \A i \in DOMAIN rows : RowFits(rows[i], guest)
    /\ \A i \in DOMAIN line : /\ rows[i].cart = line[i].cart /\ rows[i].article = line[i].article
                              /\ rows[i].live = line[i].live
                              /\ rows[i] = line[i] \/ i \in Lines(c)
    /\ most \in [DOMAIN rows -> Nat]
    /\ \A i \in DOMAIN rows : rows[i].live /\ rows[i].cart # guest => rows[i].qty <= most[i]
    /\ \A i \in DOMAIN line \ s : peak[i] <= most[i]
    /\ \A v \in DOMAIN Stock :
          SumFunctionOnSet(most, RowsOf(rows, v)) <= SumFunctionOnSet(peak, LinesOf(v))

LEMMA RowIsTyped == \A rows \in Seq(CartRow) : \A i \in DOMAIN rows : rows[i] \in CartRow
OBVIOUS

\* The step from `rows` to `next`: line j gets n units at most.
LEMMA FoldMoves ==
    ASSUME BagsTyped, NEW c \in Customer, NEW s, NEW peak \in [DOMAIN line -> Nat],
           NEW rows, NEW most, Folded(rows, c, s, peak, most),
           NEW i \in DOMAIN line, i \notin s, line[i].cart = guest,
           NEW n \in Nat \ {0}, n <= peak[i],
           NEW next, NEW j, j # i, next \in Seq(CartRow), DOMAIN next = DOMAIN rows \cup {j},
           \A m \in DOMAIN rows \ {j} : next[m] = rows[m],
           next[j].cart = c, next[j].live, next[j].qty > 0,
           next[j].article.variant = line[i].article.variant,
           next[j].qty <= (IF j \in DOMAIN rows THEN rows[j].qty ELSE 0) + n,
           j \in DOMAIN rows => /\ rows[j].cart = c /\ rows[j].live
                                /\ next[j].article = rows[j].article
    PROVE  \E fresh : Folded(next, c, s \cup {i}, peak, fresh)
<1>1. /\ rows \in Seq(CartRow) /\ DOMAIN rows = 1 .. Len(rows) /\ Len(rows) \in Nat
      /\ i \in DOMAIN rows /\ rows[i].article = line[i].article
      /\ most \in [DOMAIN rows -> Nat] /\ most[i] \in Nat /\ n <= most[i]
  <2>1. rows \in Seq(CartRow) /\ i \in DOMAIN rows /\ most \in [DOMAIN rows -> Nat]
        /\ rows[i].article = line[i].article /\ peak[i] <= most[i]
    BY DEF Folded
  <2>2. peak[i] \in Nat /\ most[i] \in Nat
    BY <2>1
  <2> QED BY <2>1, <2>2
<1>2. \A m \in DOMAIN rows : rows[m] \in CartRow /\ RowFits(rows[m], guest)
  BY <1>1 DEF Folded
<1>3. next[j] \in CartRow
  <2>1. j \in DOMAIN next
    OBVIOUS
  <2> QED BY <2>1, RowIsTyped
<1>4. PICK fresh : fresh = [m \in DOMAIN next |-> IF m = i THEN 0
                                                 ELSE IF m = j THEN (IF j \in DOMAIN rows THEN most[j] ELSE 0) + n
                                                 ELSE most[m]]
  OBVIOUS
<1>5. /\ fresh \in [DOMAIN next -> Nat] /\ fresh[i] = 0
      /\ fresh[j] = (IF j \in DOMAIN rows THEN most[j] ELSE 0) + n
      /\ \A m \in DOMAIN rows \ {i, j} : fresh[m] = most[m]
  BY <1>1, <1>4
<1>6. \A m \in DOMAIN next : RowFits(next[m], guest)
  <2>1. RowFits(next[j], guest)
    BY <1>3 DEF RowFits
  <2> QED BY <1>2, <2>1
<1>7. \A m \in DOMAIN line : /\ next[m].cart = line[m].cart /\ next[m].article = line[m].article
                             /\ next[m].live = line[m].live
                             /\ next[m] = line[m] \/ m \in Lines(c)
  <2>1. ASSUME NEW m \in DOMAIN line
        PROVE  /\ next[m].cart = line[m].cart /\ next[m].article = line[m].article
               /\ next[m].live = line[m].live
               /\ next[m] = line[m] \/ m \in Lines(c)
    <3>1. /\ m \in DOMAIN rows /\ rows[m].cart = line[m].cart /\ rows[m].article = line[m].article
          /\ rows[m].live = line[m].live
          /\ rows[m] = line[m] \/ m \in Lines(c)
      BY DEF Folded
    <3>2. CASE m # j
      BY <3>1, <3>2
    <3>3. CASE m = j
      <4>1. rows[m].cart = c /\ rows[m].live /\ next[m].article = rows[m].article
            /\ next[m].cart = c /\ next[m].live
        BY <3>1, <3>3
      <4>2. next[m].live = line[m].live
        <5>1. line[m] \in CartRow /\ next[m] \in CartRow
          BY <1>3, <3>3 DEF BagsTyped
        <5> QED BY <3>1, <4>1, <5>1 DEF CartRow
      <4> QED BY <3>1, <4>1, <4>2 DEF Lines
    <3> QED BY <3>2, <3>3
  <2> QED BY <2>1
<1>8. \A m \in DOMAIN next : next[m].live /\ next[m].cart # guest => next[m].qty <= fresh[m]
  <2>1. \A m \in DOMAIN rows : rows[m].live /\ rows[m].cart # guest => rows[m].qty <= most[m]
    BY DEF Folded
  <2>2. next[j].qty <= fresh[j]
    <3>1. c # guest
      BY CheckoutAssumption DEF BagsTyped
    <3>2. CASE j \in DOMAIN rows
      <4>1. rows[j].qty <= most[j] /\ rows[j].qty \in Nat /\ most[j] \in Nat
        <5>1. rows[j].qty \in Nat /\ most[j] \in Nat
          BY <1>1, <1>2, <3>2 DEF CartRow
        <5> QED BY <2>1, <3>1, <3>2, <5>1
      <4>2. next[j].qty \in Nat
        BY <1>3 DEF CartRow
      <4>3. next[j].qty <= rows[j].qty + n /\ fresh[j] = most[j] + n
        BY <1>5, <3>2
      <4> QED BY <4>1, <4>2, <4>3
    <3>3. CASE j \notin DOMAIN rows
      BY <1>5, <3>3
    <3> QED BY <3>2, <3>3
  <2>3. ASSUME NEW m \in DOMAIN rows, m # j, rows[m].live, rows[m].cart # guest
        PROVE  rows[m].qty <= fresh[m]
    <3>1. m # i
      <4>1. rows[i].cart = line[i].cart
        BY DEF Folded
      <4> QED BY <2>3, <4>1
    <3>2. fresh[m] = most[m]
      BY <1>5, <2>3, <3>1
    <3> QED BY <2>1, <2>3, <3>2
  <2> QED BY <2>2, <2>3
<1>9. \A m \in DOMAIN line \ (s \cup {i}) : peak[m] <= fresh[m]
  <2>1. ASSUME NEW m \in DOMAIN line, m \notin s, m # i
        PROVE  peak[m] <= fresh[m]
    <3>1. peak[m] <= most[m] /\ m \in DOMAIN rows
      BY <2>1 DEF Folded
    <3>2. peak[m] \in Nat /\ most[m] \in Nat
      BY <1>1, <3>1
    <3>3. most[m] <= fresh[m]
      BY <1>5, <2>1, <3>1, <3>2
    <3>4. fresh[m] \in Nat
      BY <1>5, <3>1
    <3> QED BY <3>1, <3>2, <3>3, <3>4
  <2> QED BY <2>1
<1>10. ASSUME NEW v \in DOMAIN Stock
       PROVE  SumFunctionOnSet(fresh, RowsOf(next, v)) <= SumFunctionOnSet(peak, LinesOf(v))
  <2>1. PICK K, M : K = RowsOf(rows, v) /\ M = RowsOf(next, v)
    OBVIOUS
  <2>2. SumFunctionOnSet(most, K) <= SumFunctionOnSet(peak, LinesOf(v))
    BY <2>1 DEF Folded
  <2>3. IsFiniteSet(K) /\ K \subseteq DOMAIN rows
    <3>1. K \subseteq DOMAIN rows
      BY <2>1 DEF RowsOf
    <3>2. IsFiniteSet(1 .. Len(rows))
      BY <1>1, FS_Interval
    <3> QED BY <1>1, <3>1, <3>2, FS_Subset
  <2>4. \A x \in K : most[x] \in Nat
    BY <1>1, <2>3
  <2>5. M \in {K, K \cup {j}}
    <3>1. \A m \in DOMAIN rows : m \in M <=> m \in K
      BY <2>1 DEF RowsOf
    <3>2. M \subseteq DOMAIN rows \cup {j} /\ K \subseteq DOMAIN rows
      BY <2>1 DEF RowsOf
    <3>3. CASE j \in M
      <4>1. M = K \cup {j}
        BY <3>1, <3>2, <3>3
      <4> QED BY <4>1
    <3>4. CASE j \notin M
      <4>1. M = K
        <5>1. j \notin K
          BY <3>1, <3>2, <3>4
        <5> QED BY <3>1, <3>2, <3>4, <5>1
      <4> QED BY <4>1
    <3> QED BY <3>3, <3>4
  <2>6. line[i].article \in Article
    <3>1. RowFits(line[i], guest)
      BY DEF BagsTyped
    <3>2. guest \notin Customer
      BY CheckoutAssumption DEF BagsTyped
    <3> QED BY <3>1, <3>2 DEF RowFits
  <2>7. SumFunctionOnSet(fresh, M) <= SumFunctionOnSet(most, K)
    <3>1. CASE line[i].article.variant = v
      <4>1. i \in K
        BY <1>1, <2>1, <2>6, <3>1 DEF RowsOf, Units
      <4>2. \A x \in K \ {i, j} : fresh[x] = most[x]
        BY <1>5, <2>3
      <4>3. j \in M => fresh[j] <= (IF j \in K THEN most[j] ELSE 0) + n
        <5>1. j \in DOMAIN rows /\ j \in M => j \in K
          BY <2>1 DEF RowsOf
        <5>2. j \in K => j \in DOMAIN rows
          BY <2>3
        <5>3. fresh[j] \in Nat /\ fresh[j] = (IF j \in DOMAIN rows THEN most[j] ELSE 0) + n
          BY <1>5
        <5>4. j \in M => fresh[j] = (IF j \in K THEN most[j] ELSE 0) + n
          BY <5>1, <5>2, <5>3
        <5> QED BY <5>3, <5>4
      <4>4. /\ fresh[i] = 0 /\ fresh[j] \in Nat /\ n <= most[i] /\ n \in Nat
            /\ j # i /\ IsFiniteSet(K)
        BY <1>1, <1>5, <2>3
      <4> QED BY <2>4, <2>5, <4>1, <4>2, <4>3, <4>4, SumMoved
    <3>2. CASE line[i].article.variant # v
      <4>1. i \notin M /\ i \notin K /\ j \notin M
        BY <1>1, <2>1, <3>2 DEF RowsOf, Units
      <4>2. M = K /\ \A x \in K : fresh[x] = most[x]
        BY <1>5, <2>3, <2>5, <4>1
      <4>3. SumFunctionOnSet(fresh, K) = SumFunctionOnSet(most, K)
        BY <2>3, <4>2, SumSame
      <4>4. SumFunctionOnSet(most, K) \in Nat
        BY <2>3, <2>4, SumType
      <4> QED BY <4>2, <4>3, <4>4
    <3> QED BY <3>1, <3>2
  <2>8. /\ SumFunctionOnSet(fresh, M) \in Nat /\ SumFunctionOnSet(most, K) \in Nat
        /\ SumFunctionOnSet(peak, LinesOf(v)) \in Nat
    <3>1. IsFiniteSet(M) /\ \A x \in M : fresh[x] \in Nat
      <4>1. IsFiniteSet(K \cup {j})
        BY <2>3, FS_AddElement
      <4>2. M \subseteq DOMAIN next
        BY <2>1 DEF RowsOf
      <4> QED BY <1>5, <2>3, <2>5, <4>1, <4>2
    <3> QED BY <2>3, <2>4, <3>1, SumType, Sums
  <2> QED BY <2>1, <2>2, <2>7, <2>8
<1>11. Folded(next, c, s \cup {i}, peak, fresh)
  BY <1>1, <1>5, <1>6, <1>7, <1>8, <1>9, <1>10 DEF Folded
<1> QED BY <1>11

LEMMA MergeOneFolds ==
    ASSUME BagsTyped, NEW c \in Customer, NEW s, NEW peak \in [DOMAIN line -> Nat],
           NEW rows, NEW most, Folded(rows, c, s, peak, most),
           NEW i \in DOMAIN line, i \notin s, line[i].cart = guest, InStock(i),
           NEW n \in Nat \ {0}, n <= peak[i]
    PROVE  \E fresh : Folded(MergeOne(rows, i, n, c), c, s \cup {i}, peak, fresh)
<1>1. PICK v, same, next : /\ v = rows[i].article.variant
                           /\ same = {j \in DOMAIN rows : /\ rows[j].live /\ rows[j].cart = c
                                                          /\ rows[j].article.variant = v
                                                          /\ rows[j].group = 0}
                           /\ next = MergeOne(rows, i, n, c)
  OBVIOUS
<1>2. /\ rows \in Seq(CartRow) /\ DOMAIN rows = 1 .. Len(rows) /\ Len(rows) \in Nat
      /\ i \in DOMAIN rows /\ rows[i].article = line[i].article /\ rows[i].cart = guest
      /\ \A m \in DOMAIN rows : rows[m] \in CartRow
  <2>1. rows \in Seq(CartRow) /\ i \in DOMAIN rows /\ rows[i].article = line[i].article
        /\ rows[i].cart = guest
    BY DEF Folded
  <2> QED BY <2>1, RowIsTyped
<1>3. c # guest /\ c \notin Nat
  BY CheckoutAssumption DEF BagsTyped
<1>4. v \in DOMAIN Stock /\ Stock[v] \in Nat /\ Stock[v] > 0 /\ v = line[i].article.variant
  <2>1. line[i].article \in Article
    <3>1. RowFits(line[i], guest)
      BY DEF BagsTyped
    <3>2. guest \notin Customer
      BY CheckoutAssumption DEF BagsTyped
    <3> QED BY <3>1, <3>2 DEF RowFits
  <2>2. v = line[i].article.variant
    BY <1>1, <1>2
  <2>3. v \in DOMAIN Stock
    BY <2>1, <2>2, CheckoutAssumption
  <2>4. Stock[v] \in Nat /\ Stock[v] > 0
    BY <2>2, <2>3, CheckoutAssumption DEF InStock
  <2> QED BY <2>2, <2>3, <2>4
<1>5. ASSUME NEW have \in Nat, NEW q, q = IF have + n <= Stock[v] THEN have + n ELSE Stock[v]
      PROVE  q \in Nat /\ q > 0 /\ q <= have + n
  BY <1>4, <1>5
<1>6. CASE rows[i].group = 0 /\ same # {}
  <2>1. PICK j : j = Min(same)
    OBVIOUS
  <2>2. j \in same
    <3>1. IsFiniteSet(same) /\ same \subseteq Int
      <4>1. same \subseteq 1 .. Len(rows)
        BY <1>1, <1>2
      <4>2. IsFiniteSet(1 .. Len(rows))
        BY <1>2, FS_Interval
      <4>3. IsFiniteSet(same)
        BY <4>1, <4>2, FS_Subset
      <4> QED BY <4>1, <4>3
    <3> QED BY <1>6, <2>1, <3>1, MinOfFinite
  <2>3. /\ j \in DOMAIN rows /\ rows[j].live /\ rows[j].cart = c /\ rows[j].article.variant = v
        /\ rows[j] \in CartRow /\ rows[j].qty \in Nat /\ j # i
    <3>1. j \in DOMAIN rows /\ rows[j].live /\ rows[j].cart = c /\ rows[j].article.variant = v
      BY <1>1, <2>2
    <3>2. rows[j] \in CartRow
      BY <1>2, <3>1
    <3> QED BY <1>2, <1>3, <3>1, <3>2 DEF CartRow
  <2>4. PICK q : q = IF rows[j].qty + n <= Stock[v] THEN rows[j].qty + n ELSE Stock[v]
    OBVIOUS
  <2>5. next = [rows EXCEPT ![j].qty = q]
    BY <1>1, <1>6, <2>1, <2>4 DEF MergeOne
  <2>6. q \in Nat /\ q > 0 /\ q <= rows[j].qty + n
    BY <1>5, <2>3, <2>4
  <2>7. /\ next = [m \in DOMAIN rows |-> next[m]] /\ next[j] = [rows[j] EXCEPT !.qty = q]
        /\ \A m \in DOMAIN rows \ {j} : next[m] = rows[m]
    BY <2>3, <2>5
  <2>8. /\ next[j] \in CartRow /\ next[j].cart = c /\ next[j].live /\ next[j].qty = q
        /\ next[j].article = rows[j].article
    BY <2>3, <2>6, <2>7 DEF CartRow
  <2>9. next \in Seq(CartRow) /\ DOMAIN next = DOMAIN rows \cup {j}
    <3>1. \A m \in 1 .. Len(rows) : next[m] \in CartRow
      BY <1>2, <2>7, <2>8
    <3>2. next = [m \in 1 .. Len(rows) |-> next[m]]
      BY <1>2, <2>7
    <3>3. next \in Seq(CartRow) /\ DOMAIN next = DOMAIN rows
      BY <1>2, <3>1, <3>2
    <3> QED BY <2>3, <3>3
  <2>10. next[j].article.variant = line[i].article.variant
    BY <1>4, <2>3, <2>8
  <2>11. next[j].qty <= (IF j \in DOMAIN rows THEN rows[j].qty ELSE 0) + n /\ next[j].qty > 0
    BY <2>3, <2>6, <2>8
  <2>12. \E fresh : Folded(next, c, s \cup {i}, peak, fresh)
    BY <2>3, <2>7, <2>8, <2>9, <2>10, <2>11, FoldMoves
  <2> QED BY <1>1, <2>12
<1>7. CASE ~(rows[i].group = 0 /\ same # {})
  <2>1. PICK q, row, j : /\ q = IF 0 + n <= Stock[v] THEN 0 + n ELSE Stock[v]
                         /\ row = Row(c, [variant |-> v, part |-> Whole], q, rows[i].group)
                         /\ j = Len(rows) + 1
    OBVIOUS
  <2>2. next = Append(rows, row)
    BY <1>1, <1>7, <2>1 DEF MergeOne
  <2>3. q \in Nat /\ q > 0 /\ q <= n
    BY <1>5, <2>1
  <2>4. /\ row \in CartRow /\ row.cart = c /\ row.live /\ row.qty = q
        /\ row.article.variant = v
    <3>1. rows[i].group \in Nat
      <4>1. rows[i] \in CartRow
        BY <1>2
      <4> QED BY <4>1 DEF CartRow
    <3>2. PICK a : a = [variant |-> v, part |-> Whole]
      OBVIOUS
    <3>3. a \in Garment /\ a.variant = v
      BY <1>4, <3>2 DEF Garment
    <3> QED BY <2>1, <2>3, <3>1, <3>2, <3>3 DEF Row, CartRow
  <2>5. /\ next \in Seq(CartRow) /\ DOMAIN next = DOMAIN rows \cup {j} /\ next[j] = row
        /\ j \notin DOMAIN rows /\ j # i
        /\ \A m \in DOMAIN rows \ {j} : next[m] = rows[m]
    BY <1>2, <2>1, <2>2, <2>4
  <2>6. next[j].article.variant = line[i].article.variant
    BY <1>4, <2>4, <2>5
  <2>7. next[j].qty <= (IF j \in DOMAIN rows THEN rows[j].qty ELSE 0) + n /\ next[j].qty > 0
    BY <2>3, <2>4, <2>5
  <2>8. next[j].cart = c /\ next[j].live
    BY <2>4, <2>5
  <2>9. \E fresh : Folded(next, c, s \cup {i}, peak, fresh)
    BY <2>5, <2>6, <2>7, <2>8, FoldMoves
  <2> QED BY <1>1, <2>9
<1> QED BY <1>6, <1>7

\* The items of a request, all folded in.
LEMMA AllFolded ==
    ASSUME BagsTyped, NEW c \in Customer, NEW peak \in [DOMAIN line -> Nat], Covers(peak),
           NEW items, NEW S, S = Foldable(items),
           \A i \in DOMAIN items : /\ i \in DOMAIN line /\ line[i].cart = guest
                                   /\ items[i] \in Nat \ {0} /\ items[i] <= peak[i]
    PROVE  \E most : Folded(Merged(items, c), c, S, peak, most)
<1>1. S \subseteq DOMAIN line /\ IsFiniteSet(S) /\ S \subseteq Int
  <2>1. S \subseteq DOMAIN line
    BY DEF Foldable
  <2> QED BY <2>1, LinesFinite
<1>2. PICK g : Merges(items, c, S, g) /\ Merged(items, c) = g[S]
  BY <1>1, MergedMerges
<1>3. Choosable(S)
  BY <1>1, MaxIn
<1>4. /\ g[{}] = line
      /\ \A s \in SUBSET S : s # {} => g[s] = MergeOne(g[s \ {Max(s)}], Max(s), items[Max(s)], c)
  <2>1. \A s \in SUBSET S : g[s] = IF s = {} THEN line
                                   ELSE MergeOne(g[s \ {Max(s)}], Max(s), items[Max(s)], c)
    BY <1>2 DEF Merges
  <2> QED BY <2>1
<1>5. PICK T : T = {s \in SUBSET S : \E most : Folded(g[s], c, s, peak, most)}
  OBVIOUS
<1>6. {} \in T
  <2>1. Folded(line, c, {}, peak, peak)
    <3>1. \A i \in DOMAIN line : line[i].live /\ line[i].cart # guest => line[i].qty <= peak[i]
      BY DEF Covers
    <3>2. \A i \in DOMAIN line \ {} : peak[i] <= peak[i]
      OBVIOUS
    <3>3. \A v \in DOMAIN Stock :
             SumFunctionOnSet(peak, RowsOf(line, v)) <= SumFunctionOnSet(peak, LinesOf(v))
      <4>1. ASSUME NEW v \in DOMAIN Stock
            PROVE  SumFunctionOnSet(peak, RowsOf(line, v)) <= SumFunctionOnSet(peak, LinesOf(v))
        <5>1. RowsOf(line, v) = LinesOf(v)
          BY DEF RowsOf, LinesOf
        <5>2. SumFunctionOnSet(peak, LinesOf(v)) \in Nat
          BY Sums
        <5> QED BY <5>1, <5>2
      <4> QED BY <4>1
    <3>4. line \in Seq(CartRow) /\ \A i \in DOMAIN line : RowFits(line[i], guest)
      BY DEF BagsTyped
    <3> QED BY <3>1, <3>2, <3>3, <3>4 DEF Folded
  <2> QED BY <1>4, <1>5, <2>1
<1>7. ASSUME NEW s \in SUBSET S, s # {}, \A x \in s : s \ {x} \in T
      PROVE  s \in T
  <2>1. PICK i, w : i = Max(s) /\ w = s \ {Max(s)}
    OBVIOUS
  <2>2. i \in s /\ w = s \ {i} /\ i \notin w /\ s = w \cup {i} /\ w \in T
    BY <1>3, <1>7, <2>1 DEF Choosable
  <2>3. PICK most : Folded(g[w], c, w, peak, most)
    BY <1>5, <2>2
  <2>4. g[s] = MergeOne(g[w], i, items[i], c)
    BY <1>4, <1>7, <2>1
  <2>5. /\ i \in DOMAIN line /\ line[i].cart = guest /\ InStock(i)
        /\ items[i] \in Nat \ {0} /\ items[i] <= peak[i]
    BY <2>2 DEF Foldable
  <2>6. \E fresh : Folded(MergeOne(g[w], i, items[i], c), c, w \cup {i}, peak, fresh)
    BY <2>2, <2>3, <2>5, MergeOneFolds
  <2>7. \E fresh : Folded(g[s], c, s, peak, fresh)
    BY <2>2, <2>4, <2>6
  <2> QED BY <1>5, <2>7
<1>8. T = SUBSET S
  <2>1. T \in SUBSET SUBSET S
    BY <1>5
  <2> QED BY <1>1, <1>6, <1>7, <2>1, SubsetInduction
<1>9. S \in T
  BY <1>8
<1> QED BY <1>2, <1>5, <1>9

\* The guest's rows go when their items are in the bag of c.
GuestLeaves(rows) == [i \in DOMAIN rows |-> [rows[i] EXCEPT !.live = @ /\ rows[i].cart # guest]]

LEMMA GuestGone ==
    ASSUME BagsTyped, NEW c \in Customer, NEW s, NEW peak \in [DOMAIN line -> Nat],
           NEW rows, NEW most, Folded(rows, c, s, peak, most),
           line' = GuestLeaves(rows), guest' = guest + 1
    PROVE  /\ LinesGrow /\ DOMAIN line' = DOMAIN rows
           /\ \A v : LinesOf(v)' = RowsOf(rows, v)
           /\ \A i \in DOMAIN rows : /\ line'[i].qty = rows[i].qty
                                     /\ line'[i].live <=> rows[i].live /\ rows[i].cart # guest
                                     /\ rows[i].cart # guest => line'[i] = rows[i]
<1>1. /\ rows \in Seq(CartRow) /\ DOMAIN rows = 1 .. Len(rows) /\ Len(rows) \in Nat
      /\ DOMAIN line \subseteq DOMAIN rows /\ guest \in Nat \ {0}
      /\ \A i \in DOMAIN rows : rows[i] \in CartRow /\ RowFits(rows[i], guest)
  <2>1. rows \in Seq(CartRow) /\ DOMAIN line \subseteq DOMAIN rows /\ guest \in Nat \ {0}
        /\ \A i \in DOMAIN rows : RowFits(rows[i], guest)
    BY DEF Folded, BagsTyped
  <2> QED BY <2>1, RowIsTyped
<1>2. /\ line' = [i \in DOMAIN rows |-> line'[i]]
      /\ \A i \in DOMAIN rows : line'[i] = [rows[i] EXCEPT !.live = @ /\ rows[i].cart # guest]
  BY DEF GuestLeaves
<1>3. ASSUME NEW i \in DOMAIN rows
      PROVE  /\ line'[i] \in CartRow /\ line'[i].qty = rows[i].qty
             /\ line'[i].article = rows[i].article /\ line'[i].cart = rows[i].cart
             /\ line'[i].live <=> rows[i].live /\ rows[i].cart # guest
             /\ RowFits(line'[i], guest')
             /\ rows[i].cart # guest => line'[i] = rows[i]
  <2>1. rows[i] \in CartRow /\ RowFits(rows[i], guest)
    BY <1>1
  <2>2. line'[i] = [rows[i] EXCEPT !.live = @ /\ rows[i].cart # guest]
    BY <1>2
  <2>3. /\ line'[i] \in CartRow /\ line'[i].qty = rows[i].qty
        /\ line'[i].article = rows[i].article /\ line'[i].cart = rows[i].cart
        /\ line'[i].live <=> rows[i].live /\ rows[i].cart # guest
        /\ rows[i].cart # guest => line'[i] = rows[i]
    BY <2>1, <2>2 DEF CartRow
  <2>4. 1 .. guest \subseteq 1 .. guest'
    BY <1>1
  <2> QED BY <2>1, <2>3, <2>4 DEF RowFits
<1>4. line' \in Seq(CartRow) /\ DOMAIN line' = DOMAIN rows
  <2>1. line' \in [1 .. Len(rows) -> CartRow]
    BY <1>1, <1>2, <1>3
  <2> QED BY <1>1, <2>1
<1>5. LinesGrow
  <2>1. ASSUME NEW i \in DOMAIN line
        PROVE  /\ line'[i].cart = line[i].cart /\ line'[i].article = line[i].article
               /\ line'[i].live => line[i].live
    <3>1. /\ i \in DOMAIN rows /\ rows[i].cart = line[i].cart
          /\ rows[i].article = line[i].article /\ rows[i].live = line[i].live
      BY DEF Folded
    <3> QED BY <1>3, <3>1
  <2>2. guest' \in Nat \ {0} /\ guest <= guest'
    BY <1>1
  <2> QED BY <1>1, <1>3, <1>4, <2>1, <2>2 DEF LinesGrow
<1>6. ASSUME NEW v
      PROVE  LinesOf(v)' = RowsOf(rows, v)
  BY <1>3, <1>4 DEF LinesOf, RowsOf, Units
<1> QED BY <1>3, <1>4, <1>5, <1>6

\* Who has read a bag the merge wrote in is stale, and no guest's bag is read.
LEMMA OthersMerged ==
    ASSUME Typed, BagsInv, NEW h \in Handler, NEW c \in Customer, NEW s,
           NEW peak \in [DOMAIN line -> Nat],
           NEW rows, NEW most, Folded(rows, c, s, peak, most),
           Marks(h, Idle, {i \in Lines(c) : rows[i] # line[i]}),
           \A i \in DOMAIN rows : rows[i].cart # guest => line'[i] = rows[i]
    PROVE  \A g \in Handler : After(request[g], request'[g])
<1>1. After(request[h], request'[h])
  BY DEF Marks, After, Plain, Idle
<1>2. ASSUME NEW g \in Handler \ {h}
      PROVE  After(request[g], request'[g])
  <2>1. PICK r : r = request[g]
    OBVIOUS
  <2>2. CASE Staled(r, request'[g])
    BY <2>1, <2>2 DEF After
  <2>3. CASE /\ request'[g] = r
             /\ r.op \in {"evaluate", "commit"} =>
                   {i \in Lines(c) : rows[i] # line[i]} \cap DOMAIN r.bag = {}
    <3>1. CASE r.op \in {"evaluate", "commit"} /\ r.stale
      BY <2>1, <2>3, <3>1 DEF Staled, After
    <3>2. CASE r.op \in {"evaluate", "commit"} /\ ~r.stale
      <4>1. KnowsBag(r, line, guest, Len(order)) /\ r \in Draft(r.bag)
        BY <2>1, <3>2 DEF BagsInv, AllKnowBags, Typed, Shaped
      <4>2. Unread(r, line) /\ r.customer \in Customer
        BY <3>2, <4>1 DEF KnowsBag, Draft
      <4>3. guest \notin Customer
        BY CheckoutAssumption DEF BagsInv, BagsTyped
      <4>4. ASSUME NEW i \in DOMAIN line, i \in DOMAIN r.bag
            PROVE  line'[i] = line[i]
        <5>1. line[i].cart # guest
          BY <4>2, <4>3, <4>4 DEF Unread
        <5>2. /\ i \in DOMAIN rows /\ rows[i].cart = line[i].cart
              /\ rows[i] = line[i] \/ i \in Lines(c)
          BY DEF Folded
        <5>3. rows[i] = line[i]
          BY <2>3, <3>2, <4>4, <5>2
        <5> QED BY <5>1, <5>2, <5>3
      <4> QED BY <2>1, <2>3, <4>4 DEF After
    <3>3. CASE r.op \notin {"evaluate", "commit"}
      BY <2>1, <2>3, <3>3 DEF After
    <3> QED BY <3>1, <3>2, <3>3
  <2> QED BY <2>1, <2>2, <2>3 DEF Marks
<1> QED BY <1>1, <1>2

LEMMA MergeCommitBags ==
    ASSUME Typed, BagsInv, NEW h \in Handler, MergeCommit(h)
    PROVE  BagsInv'
<1>0. PICK r, c, items, rows : /\ r = request[h] /\ c = r.customer /\ items = r.items
                               /\ rows = Merged(items, c)
  OBVIOUS
<1>1. r.op = "merge" /\ served' = served /\ UNCHANGED <<coded, put, order, checkout, bought>>
  BY <1>0 DEF MergeCommit, At, orderVars
<1>2. \/ /\ r.guest = guest /\ guest' = guest + 1
         /\ line' = [i \in DOMAIN rows |-> [rows[i] EXCEPT !.live = @ /\ rows[i].cart # guest]]
         /\ Write(h, Idle, {i \in Lines(c) : rows[i] # line[i]}, {}, FALSE)
      \/ Goto(h, Idle) /\ UNCHANGED <<line, guest>>
  BY <1>0 DEF MergeCommit
<1>3. CASE Goto(h, Idle) /\ UNCHANGED <<line, guest>>
  BY <1>1, <1>3, IdledBags, BagsFacts
<1>4. CASE /\ r.guest = guest /\ guest' = guest + 1
           /\ line' = [i \in DOMAIN rows |-> [rows[i] EXCEPT !.live = @ /\ rows[i].cart # guest]]
           /\ Write(h, Idle, {i \in Lines(c) : rows[i] # line[i]}, {}, FALSE)
  <2>1. PICK peak \in [DOMAIN line -> Nat] : Covers(peak) /\ WasAskedFor(peak)
    BY DEF BagsInv, RoomInBags
  <2>2. c \in Customer /\ \A i \in DOMAIN items : /\ i \in DOMAIN line /\ line[i].cart = guest
                                                 /\ items[i] \in Nat \ {0} /\ items[i] <= peak[i]
    <3>1. KnowsBag(r, line, guest, Len(order))
      BY <1>0 DEF BagsInv, AllKnowBags
    <3>2. c \in Customer /\ \A i \in DOMAIN items : /\ i \in DOMAIN line /\ line[i].cart = guest
                                                   /\ items[i] \in Nat \ {0}
      BY <1>0, <1>1, <1>4, <3>1 DEF KnowsBag
    <3>3. ASSUME NEW i \in DOMAIN items
          PROVE  items[i] <= peak[i]
      <4>1. Enough(r, i, line[i], guest, peak[i])
        BY <1>0, <2>1, <3>2 DEF Covers
      <4> QED BY <1>0, <1>1, <1>4, <4>1 DEF Enough
    <3> QED BY <3>2, <3>3
  <2>3. PICK S : S = Foldable(items)
    OBVIOUS
  <2>4. PICK most : Folded(rows, c, S, peak, most)
    <3>1. BagsTyped
      BY DEF BagsInv
    <3>2. \E most : Folded(Merged(items, c), c, S, peak, most)
      BY <2>1, <2>2, <2>3, <3>1, AllFolded
    <3> QED BY <1>0, <3>2
  <2>5. /\ LinesGrow /\ DOMAIN line' = DOMAIN rows /\ \A v : LinesOf(v)' = RowsOf(rows, v)
        /\ \A i \in DOMAIN rows : /\ line'[i].qty = rows[i].qty
                                  /\ line'[i].live <=> rows[i].live /\ rows[i].cart # guest
                                  /\ rows[i].cart # guest => line'[i] = rows[i]
    <3>1. BagsTyped
      BY DEF BagsInv
    <3>2. line' = GuestLeaves(rows) /\ guest' = guest + 1
      BY <1>4 DEF GuestLeaves
    <3>3. c \in Customer /\ Folded(rows, c, S, peak, most)
      BY <2>2, <2>4
    <3> QED BY <3>1, <3>2, <3>3, GuestGone
  <2>6. most \in [DOMAIN line' -> Nat]
    BY <2>4, <2>5 DEF Folded
  <2>7. PeaksMove(peak, most)
    <3>1. \A i \in DOMAIN line' : line'[i].live => line'[i].qty <= most[i]
      BY <2>4, <2>5 DEF Folded
    <3>2. ASSUME NEW i \in DOMAIN line
          PROVE  peak[i] <= most[i] \/ (~line'[i].live /\ guest' # guest)
      <4>1. CASE i \in S
        <5>1. i \in DOMAIN rows /\ rows[i].cart = guest
          BY <2>2, <2>3, <2>4, <4>1 DEF Folded, Foldable
        <5>2. guest' # guest
          BY <1>4, BagsFacts
        <5> QED BY <2>5, <5>1, <5>2
      <4>2. CASE i \notin S
        BY <2>4, <4>2 DEF Folded
      <4> QED BY <4>1, <4>2
    <3> QED BY <3>1, <3>2 DEF PeaksMove
  <2>8. WasAskedFor(most)'
    <3> SUFFICES ASSUME NEW v \in DOMAIN Stock
                 PROVE  SumFunctionOnSet(most, LinesOf(v)') + SumFunctionOnSet(bought, Units(v))
                           <= SumFunctionOnSet(put, Units(v))
      BY <1>1 DEF WasAskedFor, Units
    <3>1. PICK M, P : M = SumFunctionOnSet(most, LinesOf(v)') /\ P = SumFunctionOnSet(peak, LinesOf(v))
      OBVIOUS
    <3>2. M <= P
      BY <2>4, <2>5, <3>1 DEF Folded
    <3>3. /\ P + SumFunctionOnSet(bought, Units(v)) <= SumFunctionOnSet(put, Units(v))
          /\ P \in Nat /\ SumFunctionOnSet(bought, Units(v)) \in Nat
          /\ SumFunctionOnSet(put, Units(v)) \in Nat
      BY <2>1, <3>1, Sums DEF WasAskedFor, BagsInv
    <3>4. M \in Nat
      <4>1. PICK L : L = LinesOf(v)'
        OBVIOUS
      <4>2. L \subseteq DOMAIN rows
        BY <2>5, <4>1 DEF RowsOf
      <4>3. DOMAIN rows = 1 .. Len(rows) /\ Len(rows) \in Nat
        BY <2>4 DEF Folded
      <4>4. IsFiniteSet(L)
        <5>1. IsFiniteSet(1 .. Len(rows))
          BY <4>3, FS_Interval
        <5> QED BY <4>2, <4>3, <5>1, FS_Subset
      <4>5. \A i \in L : most[i] \in Nat
        BY <2>5, <2>6, <4>2
      <4>6. SumFunctionOnSet(most, L) \in Nat
        BY <4>4, <4>5, SumType
      <4> QED BY <3>1, <4>1, <4>6
    <3>5. M + SumFunctionOnSet(bought, Units(v)) <= SumFunctionOnSet(put, Units(v))
      BY <3>2, <3>3, <3>4
    <3> QED BY <3>1, <3>5
  <2>9. \A g \in Handler : After(request[g], request'[g])
    <3>1. Marks(h, Idle, {i \in Lines(c) : rows[i] # line[i]})
      BY <1>4, WriteMarks
    <3> QED BY <2>2, <2>4, <2>5, <3>1, OthersMerged
  <2>10. served' \in 0 .. MaxRequests /\ coded' \subseteq coded /\ put' \in [Article -> Nat]
    BY <1>1, BagsFacts
  <2> QED BY <1>1, <2>1, <2>5, <2>6, <2>7, <2>8, <2>9, <2>10, BagsMoved
<1> QED BY <1>2, <1>3, <1>4


-----------------------------------------------------------------------------
(* From the first state, step by step *)

LEMMA BagsInit == Init => BagsInv
<1> SUFFICES ASSUME Init
             PROVE  BagsInv
  OBVIOUS
<1>1. PICK c \in Customer, a \in Article :
         /\ a.part = Whole
         /\ line = <<Row(c, a, 1, 0)>> /\ coded = {c}
         /\ put = [b \in Article |-> IF b = a THEN 1 ELSE 0]
  BY DEF Init
<1>2. /\ guest = 1 /\ order = <<>> /\ Len(order) = 0 /\ served = 0
      /\ checkout = [k \in Key |-> NoSession] /\ bought = [b \in Article |-> 0]
      /\ \A h \in Handler : request[h].op = "idle"
  BY DEF Init, Idle
<1>3. /\ DOMAIN line = {1} /\ line[1] \in CartRow /\ line \in Seq(CartRow)
      /\ line[1].cart = c /\ line[1].article = a /\ line[1].qty = 1
  <2>1. Row(c, a, 1, 0) \in CartRow
    BY DEF Row, CartRow, Garment
  <2> QED BY <1>1, <2>1 DEF Row
<1>4. BagsTyped
  <2>1. RowFits(line[1], guest)
    BY <1>3 DEF RowFits
  <2>2. \A k \in Key : checkout[k].order <= Len(order)
    BY <1>2 DEF NoSession
  <2>3. put \in [Article -> Nat] /\ bought \in [Article -> Nat] /\ coded \subseteq Customer
    BY <1>1, <1>2
  <2>4. served \in 0 .. MaxRequests /\ guest \in Nat \ {0}
    BY <1>2, CheckoutAssumption
  <2>5. \A i \in DOMAIN line : RowFits(line[i], guest)
    BY <1>3, <2>1
  <2> QED BY <1>3, <2>2, <2>3, <2>4, <2>5 DEF BagsTyped
<1>5. AllKnowBags
  BY <1>2 DEF AllKnowBags, KnowsBag
<1>6. PICK peak : peak = [i \in DOMAIN line |-> 1]
  OBVIOUS
<1>7. peak \in [DOMAIN line -> Nat] /\ peak[1] = 1
  BY <1>3, <1>6
<1>8. Covers(peak)
  <2>1. \A h \in Handler : Enough(request[h], 1, line[1], guest, peak[1])
    BY <1>2 DEF Enough
  <2> QED BY <1>3, <1>7, <2>1 DEF Covers
<1>9. ASSUME NEW v \in DOMAIN Stock
      PROVE  SumFunctionOnSet(peak, LinesOf(v)) + SumFunctionOnSet(bought, Units(v))
                <= SumFunctionOnSet(put, Units(v))
  <2>1. PICK U, L : U = Units(v) /\ L = LinesOf(v)
    OBVIOUS
  <2>2. IsFiniteSet(U) /\ \A b \in U : bought[b] = 0 /\ put[b] \in Nat
    <3>1. U \subseteq Article /\ IsFiniteSet(U)
      BY <2>1, UnitsFinite
    <3>2. put \in [Article -> Nat]
      BY <1>1
    <3> QED BY <1>2, <3>1, <3>2
  <2>3. SumFunctionOnSet(bought, U) = 0
    <3>1. PICK E : E = {}
      OBVIOUS
    <3>2. E \in SUBSET U /\ \A b \in U \ E : bought[b] = 0
      BY <2>2, <3>1
    <3>3. \A b \in U : bought[b] \in Int
      BY <2>2
    <3>4. SumFunctionOnSet(bought, U) = SumFunctionOnSet(bought, E)
      BY <2>2, <3>2, <3>3, SumDropsZeros
    <3>5. SumFunctionOnSet(bought, E) = 0
      BY <3>1, SumUnfolds
    <3> QED BY <3>4, <3>5
  <2>4. SumFunctionOnSet(put, U) \in Nat
    BY <2>2, SumType
  <2>5. CASE a \in U
    <3>1. L = {1}
      BY <1>3, <2>1, <2>5 DEF LinesOf
    <3>2. SumFunctionOnSet(peak, L) = 1
      <4>1. PICK i : i = 1
        OBVIOUS
      <4>2. peak[i] \in Int /\ peak[i] = 1 /\ L = {i}
        BY <1>7, <3>1, <4>1
      <4>3. SumFunctionOnSet(peak, {i}) = peak[i]
        BY <4>2, SumOfOne
      <4> QED BY <4>2, <4>3, Zenon
    <3>3. SumFunctionOnSet(put, {a}) = 1
      <4>1. put[a] = 1
        BY <1>1
      <4> QED BY <4>1, SumOfOne
    <3>4. SumFunctionOnSet(put, {a}) <= SumFunctionOnSet(put, U)
      <4>1. {a} \in SUBSET U
        BY <2>5
      <4> QED BY <2>2, <4>1, SumOfPart
    <3> QED BY <2>1, <2>3, <2>4, <3>2, <3>3, <3>4
  <2>6. CASE a \notin U
    <3>1. L = {}
      BY <1>3, <2>1, <2>6 DEF LinesOf
    <3>2. SumFunctionOnSet(peak, L) = 0
      BY <3>1, SumUnfolds
    <3> QED BY <2>1, <2>3, <2>4, <3>2
  <2> QED BY <2>5, <2>6
<1>10. RoomInBags
  BY <1>7, <1>8, <1>9 DEF RoomInBags, WasAskedFor
<1> QED BY <1>4, <1>5, <1>10 DEF BagsInv

LEMMA ShopBags ==
    ASSUME Typed, BagsInv, NEW h \in Handler, Shop(h)
    PROVE  BagsInv'
<1>1. ASSUME NEW k \in Resolve, NEW lines, NEW carts, NEW next, next = Answer(k) \/ next = Idle,
             RemoveLines(h, k, lines, carts, next)
      PROVE  BagsInv'
  <2>1. next.op \in {"show", "idle"}
    BY <1>1 DEF Answer, Idle
  <2>2. next.op \in Plain
    BY <2>1 DEF Plain
  <2> QED BY <1>1, <2>2, RemoveBags
<1>2. ASSUME NEW k \in Resolve, (\E i \in Lines(k) : removeSet(h, k, line[i].group)) \/ clearCart(h, k)
      PROVE  BagsInv'
  BY <1>1, <1>2 DEF removeSet, clearCart
<1>3. ASSUME NEW i \in DOMAIN line, removeItem(h, i) \/ \E q \in 1 .. 2 : updateItem(h, i, q)
      PROVE  BagsInv'
  <2>1. \E q \in Nat : updateItem(h, i, q)
    BY <1>3 DEF removeItem
  <2> QED BY <2>1, UpdateItemBags
<1>4. ASSUME NEW c \in Customer, \/ applyCoupon(h, c) \/ removeCoupon(h, c) \/ mergeGuestCart(h, c)
                                 \/ \E key \in Key \cup {NoKey} : createOrderIdempotent(h, c, key)
      PROVE  BagsInv'
  BY <1>4, CouponBags, MergeGuestCartBags, BeginCheckoutBags
<1>5. ASSUME NEW k \in Resolve, (\E a \in Article : addItem(h, k, a)) \/ \E G \in Groups : addGroup(h, k, G)
      PROVE  BagsInv'
  BY <1>5, AddItemBags, AddGroupBags
<1> QED BY <1>2, <1>3, <1>4, <1>5 DEF Shop

LEMMA WorkBags ==
    ASSUME Typed, Typed', BagsInv, NEW h \in Handler, Work(h)
    PROVE  BagsInv'
<1>1. CASE AddWrite(h) \/ ItemWrite(h) \/ ShowCart(h) \/ MergeCommit(h)
  BY <1>1, AddWriteBags, ItemWriteBags, ShowCartBags, MergeCommitBags
<1>2. CASE Retake(h) \/ ReadBag(h) \/ Evaluate(h) \/ Commit(h)
  BY <1>2, RetakeBags, ReadBagBags, EvaluateBags, CommitBags
<1>3. CASE Record(h) \/ RecordFailure(h) \/ Stop(h)
  BY <1>3, RecordBags
<1>4. CASE ReleaseRead(h)
  BY <1>4, StaffBags
<1>5. CASE CancelCommit(h) \/ RetireCommit(h)
  BY <1>5, CouponWriteBags
<1> QED BY <1>1, <1>2, <1>3, <1>4, <1>5 DEF Work

LEMMA BagsStep == CheckoutInv /\ BagsInv /\ [Next]_vars => BagsInv'
<1> SUFFICES ASSUME CheckoutInv, BagsInv, [Next]_vars
             PROVE  BagsInv'
  OBVIOUS
<1>1. Typed /\ Typed'
  <2>1. CheckoutInv'
    BY InvStep
  <2> QED BY <2>1 DEF CheckoutInv
<1>2. ASSUME NEW h \in Handler, Shop(h)
      PROVE  BagsInv'
  BY <1>1, <1>2, ShopBags
<1>3. ASSUME NEW h \in Handler, Work(h)
      PROVE  BagsInv'
  BY <1>1, <1>3, WorkBags
<1>4. ASSUME NEW h \in Handler, Manage(h)
      PROVE  BagsInv'
  BY <1>1, <1>4, StaffBags, CouponWriteBags DEF Manage
<1>5. CASE (\E key \in Key : Lapse(key)) \/ (\E o \in DOMAIN order : DeleteOrder(o)) \/ UNCHANGED vars
  BY <1>1, <1>5, UnattendedBags
<1> QED BY <1>2, <1>3, <1>4, <1>5 DEF Next

-----------------------------------------------------------------------------
(* Theorems *)

\* "A double-clicked 'Place order', a flaky connection, a resend after a timeout
\* must all end with one order" (createOrderIdempotent), unless the checkout
\* outlived the time its key is held or stopped before it was recorded.
THEOREM KeyPlacesOneOrder == Spec => []OneOrderPerKey
<1>1. CheckoutInv => OneOrderPerKey
  <2> SUFFICES ASSUME CheckoutInv, NEW o \in DOMAIN order, NEW p \in DOMAIN order,
                      order[o].key = order[p].key, order[o].key # NoKey,
                      order[o].status # "DELETED", order[p].status # "DELETED",
                      order[o].key \notin overtaken
               PROVE  o = p
    BY DEF OneOrderPerKey
  <2> PICK key : key = order[o].key
    OBVIOUS
  <2>1. order[o] \in Order /\ o # 0 /\ p # 0
    BY InvParts
  <2>2. key \in Key \ overtaken
    BY <2>1 DEF Order
  <2>3. Has(key, o) /\ Has(key, p) /\ Alone(key) /\ Recorded(key)
    BY <2>2, InvParts DEF Has, KeysHold
  <2> QED
    BY <2>1, <2>3 DEF Alone, Recorded
<1> QED
  BY <1>1, InvInit, InvStep, PTL DEF Spec

\* "A limited coupon can never be over-redeemed no matter how the requests
\* interleave" (recordRedemption), nor used by one customer more often than its
\* limit for each, which is counted outside the transaction that adds to it.
THEOREM CouponKeepsItsLimits == Spec => []LimitsHold
<1>1. CheckoutInv => LimitsHold
  BY DEF CheckoutInv, Counted, LimitsHold, LimitHolds
<1> QED
  BY <1>1, InvInit, InvStep, PTL DEF Spec

\* Nothing a customer asked for once is merged twice (mergeGuestCart) or bought
\* twice (createOrder), whichever additions, sign-ins, edits and checkouts
\* overlap, and no row of a bag is left empty.
THEOREM BagsAlwaysStand == Spec => []BagsStand
<1>1. CheckoutInv /\ BagsInv => BagsStand
  BY BagsMean DEF CheckoutInv
<1> QED
  BY <1>1, InvInit, InvStep, BagsInit, BagsStep, PTL DEF Spec

=============================================================================
