------------------------------ MODULE Shelves -------------------------------
(***************************************************************************)
(* What products are found by: the category tree, collections, ratings and *)
(* attribute values (modules/categories, collections, reviews,             *)
(* attributes).                                                            *)
(***************************************************************************)
EXTENDS Handlers

CONSTANTS
    Category,
    Top,          \* the one the others are in at first
    Customer      \* who write reviews

ASSUME ShelvesAssumption ==
    /\ Top \in Category /\ "absent" \notin Category
    /\ None \notin Category \cup {"absent", "APPROVED"}

VARIABLES
    parent,       \* [Category -> Category, None (a root) or "absent"]
    collection,   \* the collection, None when deleted
    review,       \* [Customer -> "PENDING", "APPROVED", "REJECTED" or None]
    ratingCount   \* Product.ratingCount, and the average with it

(* The category tree *)

Filed == {c \in Category : parent[c] # "absent"}

\* A category and the ones above it; a parent that is not there ends the walk.
Ancestors(c) == Following(parent, c)
Looped(c)    == \E d \in Ancestors(c) : parent[d] \in Category /\ d \in Ancestors(parent[d])

CreateCategory(j, c, p) ==
    /\ parent[c] = "absent" /\ p \in Filed \cup {None}
    /\ Begin(j, Idle)
    /\ parent' = [parent EXCEPT ![c] = p]

\* Mutant: a category is only kept from being its own parent.
UpdateCategoryUnwalked(j, c, p) ==
    /\ c \in Filed /\ p \in (Filed \ {c}) \cup {None}
    /\ Begin(j, [op |-> "category", category |-> c, to |-> p])
    /\ UNCHANGED parent

\* The walk up from the new parent must meet neither the category nor itself.
UpdateCategory(j, c, p) ==
    /\ c \in Filed /\ p \in Filed \cup {None}
    /\ p # None => c \notin Ancestors(p) /\ ~Looped(p)
    /\ Begin(j, [op |-> "category", category |-> c, to |-> p])
    /\ UNCHANGED parent

\* Its parent must still be there (a foreign key).
WriteCategory(j) ==
    /\ At(j, "category") /\ Goto(j, Idle)
    /\ parent' = IF job[j].category \in Filed /\ job[j].to \in Filed \cup {None}
                 THEN [parent EXCEPT ![job[j].category] = job[j].to] ELSE parent

DeleteCategory(j, c) ==
    /\ c \in Filed /\ \A d \in Filed : parent[d] # c
    /\ Begin(j, [op |-> "category_gone", category |-> c])
    /\ UNCHANGED parent

\* The database makes roots of the children it may have by now.
RemoveCategory(j) ==
    /\ At(j, "category_gone") /\ Goto(j, Idle)
    /\ LET c == job[j].category
       IN  parent' = [d \in Category |-> IF d = c THEN "absent"
                                         ELSE IF parent[d] = c THEN None ELSE parent[d]]

CategoriesNext(j) ==
    \/ \E c \in Category, p \in Category \cup {None} : CreateCategory(j, c, p) \/ UpdateCategory(j, c, p)
    \/ \E c \in Category : DeleteCategory(j, c)
    \/ WriteCategory(j) \/ RemoveCategory(j)

-----------------------------------------------------------------------------
(* Collections *)

CollectionStatus == {"DRAFT", "ACTIVE", "ARCHIVED"}
Collection == [status : CollectionStatus, published : Time \cup {None}, filled : BOOLEAN]

ASSUME CollectionsAssumption == None \notin Collection

\* A collection is made, then filled.
CreateCollection(j, status) ==
    /\ collection = None
    /\ Begin(j, [op |-> "members"])
    /\ collection' = [status |-> status, filled |-> FALSE,
                      published |-> IF status = "ACTIVE" THEN clock ELSE None]

PatchCollection(j, status, members) ==
    /\ collection # None
    /\ Begin(j, [op |-> "collection", status |-> status, members |-> members,
                               first |-> collection.published = None])
    /\ UNCHANGED collection

\* Mutant: the launch is stamped whenever it goes live.
WriteCollectionRestamped(j) ==
    /\ At(j, "collection")
    /\ collection' = IF collection = None THEN None
                     ELSE [collection EXCEPT !.status = job[j].status,
                              !.published = IF job[j].status = "ACTIVE" THEN clock ELSE @]
    /\ Goto(j, IF collection # None /\ job[j].members THEN [op |-> "empty"] ELSE Idle)

\* The launch is stamped once.
WriteCollection(j) ==
    /\ At(j, "collection")
    /\ collection' = IF collection = None THEN None
                     ELSE [collection EXCEPT !.status = job[j].status,
                              !.published = IF job[j].status = "ACTIVE" /\ job[j].first THEN clock ELSE @]
    /\ Goto(j, IF collection # None /\ job[j].members THEN [op |-> "empty"] ELSE Idle)

\* setProducts: emptied, then filled; filling one that has gone fails.
EmptyCollection(j) ==
    /\ At(j, "empty") /\ Goto(j, [op |-> "members"])
    /\ collection' = IF collection = None THEN None ELSE [collection EXCEPT !.filled = FALSE]

FillCollection(j) ==
    /\ At(j, "members") /\ Goto(j, Idle)
    /\ collection' = IF collection = None THEN None ELSE [collection EXCEPT !.filled = TRUE]

\* One that has been live is archived.
DeleteCollection(j) ==
    /\ collection # None
    /\ Begin(j, [op |-> IF collection.published # None THEN "archive_it" ELSE "delete_it"])
    /\ UNCHANGED collection

RemoveCollection(j) ==
    /\ \/ At(j, "archive_it") /\ collection' = IF collection = None THEN None
                                                ELSE [collection EXCEPT !.status = "ARCHIVED"]
       \/ At(j, "delete_it") /\ collection' = None
    /\ Goto(j, Idle)

CollectionsNext(j) ==
    \/ \E s \in CollectionStatus : CreateCollection(j, s) \/ \E m \in BOOLEAN : PatchCollection(j, s, m)
    \/ WriteCollection(j) \/ EmptyCollection(j) \/ FillCollection(j)
    \/ DeleteCollection(j) \/ RemoveCollection(j)

-----------------------------------------------------------------------------
(* Ratings *)

Approved(r) == Cardinality({c \in Customer : r[c] = "APPROVED"})

\* A review is written, and unwritten; the rating is recomputed after it.
SubmitReview(j, c) ==
    /\ Begin(j, [op |-> "recompute"])
    /\ review' = [review EXCEPT ![c] = "PENDING"]
    /\ UNCHANGED ratingCount

DeleteReview(j, c) ==
    /\ review[c] # None
    /\ Begin(j, [op |-> "recompute"])
    /\ review' = [review EXCEPT ![c] = None]
    /\ UNCHANGED ratingCount

recomputeRating(j) ==
    /\ At(j, "recompute") /\ Goto(j, [op |-> "rate", count |-> Approved(review)])
    /\ UNCHANGED <<review, ratingCount>>

Rate(j) ==
    /\ At(j, "rate") /\ Goto(j, Idle)
    /\ ratingCount' = job[j].count
    /\ UNCHANGED review

\* Moderation counts in its transaction what it has not committed yet.
ModerateReview(j, c, status) ==
    /\ review[c] # None
    /\ Begin(j, [op |-> "moderate", customer |-> c, status |-> status,
                           count |-> Approved([review EXCEPT ![c] = status])])
    /\ UNCHANGED <<review, ratingCount>>

CommitModeration(j) ==
    /\ At(j, "moderate") /\ Goto(j, Idle)
    /\ IF review[job[j].customer] = None THEN UNCHANGED <<review, ratingCount>>
       ELSE /\ review' = [review EXCEPT ![job[j].customer] = job[j].status]
            /\ ratingCount' = job[j].count

RatingsNext(j) ==
    \/ \E c \in Customer : SubmitReview(j, c) \/ DeleteReview(j, c)
    \/ \E c \in Customer, s \in {"PENDING", "APPROVED", "REJECTED"} : ModerateReview(j, c, s)
    \/ recomputeRating(j) \/ Rate(j) \/ CommitModeration(j)

-----------------------------------------------------------------------------
\* One range, and the others in it.
seedCategories ==
    parent = [c \in Category |-> IF c = Top THEN None ELSE Top]

=============================================================================
