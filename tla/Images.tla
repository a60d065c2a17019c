------------------------------- MODULE Images -------------------------------
(***************************************************************************)
(* A product's pictures: rows in the database and files in a store that    *)
(* fails on its own (products/admin-product.controller, integrations/      *)
(* storage).  The product itself stays.                                    *)
(***************************************************************************)
EXTENDS Handlers

CONSTANT File     \* names a file may get; no two uploads get one

VARIABLES
    image,        \* [File -> the sortOrder of its row, None without one]
    stored,       \* files in the store
    muddled       \* history: an arrangement named a picture twice

images == <<image, stored, muddled>>

Shown     == {f \in File : image[f] # None}
NextOrder == IF Shown = {} THEN 0
             ELSE 1 + image[CHOOSE f \in Shown : \A g \in Shown : image[g] <= image[f]]
Fresh     == {f \in File : /\ f \notin stored /\ image[f] = None
                           /\ \A i \in Job : job[i].op \in {"row", "unlink"} => job[i].file # f}

\* The place of the next picture is read once, for all the files sent.
uploadImagesHandler(j, n) ==
    /\ Begin(j, [op |-> "put", left |-> n, order |-> NextOrder])
    /\ UNCHANGED images

\* File by file: the store, then the row.
Put(j) ==
    /\ At(j, "put")
    /\ \E f \in Fresh :
          /\ stored' = stored \cup {f}
          /\ Goto(j, [op |-> "row", left |-> job[j].left - 1, order |-> job[j].order, file |-> f])
    /\ UNCHANGED <<image, muddled>>

CreateRow(j) ==
    /\ At(j, "row")
    /\ image' = [image EXCEPT ![job[j].file] = job[j].order]
    /\ Goto(j, IF job[j].left = 0 THEN Idle
               ELSE [op |-> "put", left |-> job[j].left, order |-> job[j].order + 1])
    /\ UNCHANGED <<stored, muddled>>

\* Either fails: the pictures before it stay, the rest is not tried.
UploadFails(j) == (At(j, "put") \/ At(j, "row")) /\ Fails(j, Idle) /\ UNCHANGED images

deleteImageHandler(j, f) ==
    /\ f \in Shown /\ Begin(j, [op |-> "unrow", file |-> f])
    /\ UNCHANGED images

\* A row that is gone is an error, and leaves the file to who removed the row.
DeleteRow(j) ==
    /\ At(j, "unrow")
    /\ image' = [image EXCEPT ![job[j].file] = None]
    /\ Goto(j, IF job[j].file \in Shown THEN [op |-> "unlink", file |-> job[j].file] ELSE Idle)
    /\ UNCHANGED <<stored, muddled>>

\* A store that fails to delete is not the customer's problem: it is logged.
DeleteFile(j) ==
    /\ At(j, "unlink")
    /\ \/ stored' = stored \ {job[j].file} /\ Goto(j, Idle)
       \/ UNCHANGED stored /\ Fails(j, Idle)
    /\ UNCHANGED <<image, muddled>>

\* PUT /admin/products/:id/images/order: as many names as there are pictures, all of
\* them known.
reorderImagesHandler(j, list) ==
    /\ Len(list) = Cardinality(Shown) /\ {list[i] : i \in DOMAIN list} \subseteq Shown
    /\ Begin(j, [op |-> "reorder", list |-> list])
    /\ UNCHANGED images

\* All or none, in the order of the list.
Reorder(j) ==
    /\ At(j, "reorder") /\ Goto(j, Idle)
    /\ LET list  == job[j].list
           named == {list[i] : i \in DOMAIN list}
           place(f) == CHOOSE i \in DOMAIN list : list[i] = f /\ \A k \in DOMAIN list : list[k] = f => k <= i
       IN  IF named \subseteq Shown
           THEN /\ image' = [f \in File |-> IF f \in named THEN place(f) - 1 ELSE image[f]]
                /\ muddled' = (muddled \/ Cardinality(named) # Len(list))
           ELSE UNCHANGED <<image, muddled>>
    /\ UNCHANGED stored

seedImages == image = [f \in File |-> None] /\ stored = {} /\ muddled = FALSE

ImagesNext(j) ==
    \/ \E n \in 1 .. 2 : uploadImagesHandler(j, n)
    \/ Put(j) \/ CreateRow(j) \/ UploadFails(j)
    \/ \E f \in File : deleteImageHandler(j, f)
    \/ DeleteRow(j) \/ DeleteFile(j)
    \/ \E list \in [1 .. Cardinality(Shown) -> Shown] :
          Shown # {} /\ reorderImagesHandler(j, list)
    \/ Reorder(j)

\* No picture is shown whose file is gone, whatever fails and crosses; no file is
\* left behind unless the store, the database or the process failed; and as long
\* as requests do not cross and no arrangement names a picture twice, no two
\* pictures have one place.
PicturesStand ==
    /\ Shown \subseteq stored
    /\ "failure" \notin met /\ (\A j \in Job : ~Busy(j)) => stored = Shown
    /\ Alone /\ ~muddled => \A f, g \in Shown : f # g => image[f] # image[g]

=============================================================================
