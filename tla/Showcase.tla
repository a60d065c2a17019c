------------------------------ MODULE Showcase ------------------------------
(***************************************************************************)
(* The showcase: photographs and films of customers, shown with their      *)
(* leave (modules/showcase, jobs/scheduler).                               *)
(***************************************************************************)
EXTENDS Handlers

VARIABLES
    item          \* the showcase item, None when deleted

ItemStatus == {"DRAFT", "SCHEDULED", "ACTIVE", "ARCHIVED"}
Item == [status : ItemStatus, consent : BOOLEAN, poster : BOOLEAN,
         scheduled : Time \cup {None}, published : Time \cup {None}]   \* a video

\* What the studio's form sends: one field, or a status with its date.
ItemPatch ==
    {[status |-> s] : s \in ItemStatus} \cup {[consent |-> b] : b \in BOOLEAN}
    \cup {[poster |-> b] : b \in BOOLEAN}
    \cup {[status |-> "SCHEDULED", scheduled |-> t] : t \in Time}

assertPublishable(next) ==
    next.status \in {"ACTIVE", "SCHEDULED"} =>
        next.consent /\ next.poster /\ (next.status = "SCHEDULED" => next.scheduled # None)

createShowcaseItem(j, r) ==
    /\ item = None /\ Begin(j, Idle)
    /\ assertPublishable(r)
    /\ item' = [r EXCEPT !.published = IF r.status = "ACTIVE" THEN clock ELSE None]

\* Mutant: the guard looks at the patch as it arrived.
updateShowcaseItemByPatch(j, patch) ==
    /\ item # None
    /\ "status" \in DOMAIN patch => assertPublishable(Merge(patch, item))
    /\ Begin(j, [op |-> "item", patch |-> patch,
              becomingActive |-> Merge(patch, item).status = "ACTIVE" /\ item.status # "ACTIVE"])
    /\ UNCHANGED item

\* The guard looks at the row as it will be.
updateShowcaseItem(j, patch) ==
    /\ item # None
    /\ assertPublishable(Merge(patch, item))
    /\ Begin(j, [op |-> "item", patch |-> patch,
              becomingActive |-> Merge(patch, item).status = "ACTIVE" /\ item.status # "ACTIVE"])
    /\ UNCHANGED item

\* Only the fields of the patch are written.
WriteItem(j) ==
    /\ At(j, "item") /\ Goto(j, Idle)
    /\ item' = IF item = None THEN None
               ELSE LET next == Merge(job[j].patch, item)
                    IN  [next EXCEPT !.published = IF job[j].becomingActive THEN clock ELSE @]

deleteShowcaseItem(j) ==
    /\ item # None /\ item.status # "ACTIVE"
    /\ Begin(j, [op |-> "item_gone"])
    /\ UNCHANGED item

RemoveItem(j) == At(j, "item_gone") /\ Goto(j, Idle) /\ item' = None

\* The wall a visitor sees.
listPublicShowcase == IF item # None /\ item.status = "ACTIVE" THEN {item} ELSE {}

\* Mutant: the date must have passed.
publishDueShowcaseLate ==
    /\ Due(item) /\ item.scheduled < clock /\ item.consent
    /\ item' = Published(item, "ACTIVE")
    /\ Beside("scheduler")

\* Consent is asked for again.
publishDueShowcase ==
    /\ Due(item) /\ item.consent
    /\ item' = Published(item, "ACTIVE")
    /\ Beside("scheduler")

\* The shop as it is seeded; the page may also be one the studio has made.
seedShowcase ==
    item = [status |-> "ACTIVE", consent |-> TRUE, poster |-> TRUE, scheduled |-> None, published |-> 0]

\* The showcase rows a form may create: with or without leave, live or not.
ShowcaseNext(j) ==
    \/ \E s \in ItemStatus, c, p \in BOOLEAN, t \in Time \cup {None} :
          createShowcaseItem(j, [status |-> s, consent |-> c, poster |-> p, scheduled |-> t, published |-> None])
    \/ \E patch \in ItemPatch : updateShowcaseItem(j, patch)
    \/ WriteItem(j) \/ deleteShowcaseItem(j) \/ RemoveItem(j)

=============================================================================
