------------------------------ MODULE Returns ------------------------------
(***************************************************************************)
(* The returns of one delivered order (modules/returns/return.service.ts): *)
(* customers asking for and withdrawing them, staff moving them along, and *)
(* the goods that go back on the shelf, over PostgreSQL READ COMMITTED:    *)
(* each statement sees what is committed when it runs.                     *)
(*                                                                         *)
(* A request's lines never change and requests are not deleted, so the     *)
(* queries of returnableItems amount to one read of the requests'          *)
(* statuses.  A transaction locks the return items it writes to in one     *)
(* step: taken one by one they could also deadlock, which ends like        *)
(* DatabaseError.  Goods put back are counted as the movement rows that    *)
(* reference their item; the balance each restock reads and writes is      *)
(* treated, with the other writers of it, in Orders.                       *)
(***************************************************************************)
EXTENDS Integers, FiniteSetsExt, Processes

CONSTANTS
    Request,      \* the return requests there can be
    Line,         \* the lines of the order
    Purchased,    \* [Line -> Nat]: how many were bought
    Worker,       \* handler calls in flight at once
    Decided       \* the moves staff give dispositions with

ASSUME ReturnsAssumption ==
    /\ Purchased \in [Line -> Nat]
    /\ IsFiniteSet(Line) /\ IsFiniteSet(Request)
    /\ None \notin Request

VARIABLES
    open,         \* whether the order's return window is open
    request,      \* [Request -> return request, or NoRequest]
    restock,      \* [Request -> set of its lines marked resaleable]
    movements,    \* [Request -> [Line -> Nat]]: RETURN_ITEM movement rows
    \* History.
    raced         \* whether a commit went under what another handler had read

vars == <<open, request, restock, movements, pc, job, raced>>

dbVars == <<request, restock, movements>>

-----------------------------------------------------------------------------
(* Requests, claims and handlers *)

ReturnStatus == {"REQUESTED", "APPROVED", "REJECTED", "IN_TRANSIT",
                 "RECEIVED", "INSPECTED", "COMPLETED", "CANCELLED"}

\* (Mutant: a completed request can be inspected again.)
ALLOWEDAgain ==
    [REQUESTED  |-> {"APPROVED", "REJECTED", "CANCELLED"},
     APPROVED   |-> {"IN_TRANSIT", "RECEIVED", "CANCELLED"},
     IN_TRANSIT |-> {"RECEIVED", "CANCELLED"},
     RECEIVED   |-> {"INSPECTED", "COMPLETED"},
     INSPECTED  |-> {"COMPLETED", "REJECTED"},
     COMPLETED  |-> {"INSPECTED"},
     REJECTED   |-> {},
     CANCELLED  |-> {}]

ALLOWED ==
    [REQUESTED  |-> {"APPROVED", "REJECTED", "CANCELLED"},
     APPROVED   |-> {"IN_TRANSIT", "RECEIVED", "CANCELLED"},
     IN_TRANSIT |-> {"RECEIVED", "CANCELLED"},
     RECEIVED   |-> {"INSPECTED", "COMPLETED"},
     INSPECTED  |-> {"COMPLETED", "REJECTED"},
     COMPLETED  |-> {},
     REJECTED   |-> {},
     CANCELLED  |-> {}]

Quantities == [Line -> 0 .. Max({Purchased[l] : l \in Line} \cup {0})]
Nothing    == [l \in Line |-> 0]

NoRequest == [status |-> "NO_REQUEST", number |-> 0, quantity |-> Nothing]

Requests  == {r \in Request : request[r] # NoRequest}
LinesOf(r) == {l \in Line : request[r].quantity[l] > 0}

\* Rejected and cancelled requests release their claim.
Live == {r \in Requests : request[r].status \notin {"REJECTED", "CANCELLED"}}

claimed(l) == SumFunctionOnSet([r \in Requests |-> request[r].quantity[l]], Live)

returnable(l) == Max({0, Purchased[l] - claimed(l)})

NoJob == [request |-> None, next |-> "NO_REQUEST", quantity |-> Nothing, number |-> 0,
          decided |-> {}, keep |-> {}, todo |-> {}, put |-> {}]

-----------------------------------------------------------------------------
(* createReturnRequest *)

\* (Mutant: what is returnable is what was bought.)
CreateReadUnclaimed(w, quantity) ==
    /\ pc[w] = "idle"
    /\ open
    /\ quantity # Nothing
    /\ \A l \in Line : quantity[l] <= Purchased[l]
    /\ Goto(w, "numbering", [NoJob EXCEPT !.quantity = quantity])
    /\ UNCHANGED <<open, dbVars, raced>>

\* returnableItems and the refusals: the window, and each line's claims.
CreateRead(w, quantity) ==
    /\ pc[w] = "idle"
    /\ open
    /\ quantity # Nothing
    /\ \A l \in Line : quantity[l] <= returnable(l)
    /\ Goto(w, "numbering", [NoJob EXCEPT !.quantity = quantity])
    /\ UNCHANGED <<open, dbVars, raced>>

nextReturnNumber(w) ==
    /\ pc[w] = "numbering"
    /\ Goto(w, "creating", [job[w] EXCEPT !.number = Cardinality(Requests) + 1])
    /\ UNCHANGED <<open, dbVars, raced>>

\* Insert and commit, refused if the number has been taken meanwhile.
CreateCommit(w, r) ==
    /\ pc[w] = "creating"
    /\ request[r] = NoRequest
    /\ IF \E q \in Requests : request[q].number = job[w].number
       THEN UNCHANGED <<request, raced>>
       ELSE /\ request' = [request EXCEPT ![r] = [status   |-> "REQUESTED",
                                                  number   |-> job[w].number,
                                                  quantity |-> job[w].quantity]]
            /\ raced' = (raced \/ \E v \in Worker \ {w} : pc[v] \in {"numbering", "creating"})
    /\ Goto(w, "idle", NoJob)
    /\ UNCHANGED <<open, restock, movements>>

-----------------------------------------------------------------------------
(* transitionReturn *)

\* Its read, and the refusals: `decided` are the lines whose disposition the
\* request carries, `keep` those of them that are resaleable.
Transition(w, r, next, decided, keep) ==
    /\ r \in Requests
    /\ next \in ALLOWED[request[r].status]
    /\ keep \subseteq decided /\ decided \subseteq LinesOf(r)
    /\ Goto(w, "marking", [NoJob EXCEPT !.request = r, !.next = next,
                                        !.decided = decided, !.keep = keep])
    /\ UNCHANGED <<open, dbVars, raced>>

\* PATCH /admin/returns/:id/status
StaffRead(w, r, next, decided, keep) ==
    /\ pc[w] = "idle"
    /\ Transition(w, r, next, decided, keep)

\* POST /returns/:id/cancel: the customer may withdraw what is not on its way.
WithdrawRead(w, r) ==
    /\ pc[w] = "idle"
    /\ request[r].status \in {"REQUESTED", "APPROVED"}
    /\ Goto(w, "withdrawing", [NoJob EXCEPT !.request = r])
    /\ UNCHANGED <<open, dbVars, raced>>

\* transitionReturn reads the request again, and refuses on its own rule.
Withdraw(w) ==
    LET r == job[w].request IN
    /\ pc[w] = "withdrawing"
    /\ \/ Transition(w, r, "CANCELLED", {}, {})
       \/ /\ "CANCELLED" \notin ALLOWED[request[r].status]
          /\ Goto(w, "idle", NoJob)
          /\ UNCHANGED <<open, dbVars, raced>>

\* (Mutant: the goods go back as soon as they arrive.)
RestocksOnArrival(next) == next \in {"RECEIVED", "INSPECTED", "COMPLETED"}

\* Only once the goods have been looked at.
Restocks(next) == next \in {"INSPECTED", "COMPLETED"}

\* What w's transaction sees marked: its own dispositions over what is committed.
Resaleable(w) == (restock[job[w].request] \ job[w].decided) \cup job[w].keep

\* The dispositions are written, behind whoever else has written to those
\* items, and the lines to restock are read.
Mark(w) ==
    /\ pc[w] = "marking"
    /\ \A v \in Worker \ {w} :
          pc[v] = "restocking" /\ job[v].request = job[w].request =>
              job[v].decided \cap job[w].decided = {}
    /\ Goto(w, "restocking",
            [job[w] EXCEPT !.todo = IF Restocks(job[w].next) THEN Resaleable(w) ELSE {}])
    /\ UNCHANGED <<open, dbVars, raced>>

\* A line with a movement row already is passed over.  The row this handler
\* inserts stays its own until it commits.
Look(w) ==
    /\ pc[w] = "restocking"
    /\ \E l \in job[w].todo :
          Goto(w, "restocking",
               [job[w] EXCEPT !.todo = @ \ {l},
                              !.put = IF movements[job[w].request][l] > 0
                                      THEN @ ELSE @ \cup {l}])
    /\ UNCHANGED <<open, dbVars, raced>>

InTransition(w) == pc[w] \in {"marking", "restocking"}

\* The status is written without another look at it, and all is committed.
TransitionCommit(w) ==
    LET r == job[w].request IN
    /\ pc[w] = "restocking"
    /\ job[w].todo = {}
    /\ request' = [request EXCEPT ![r].status = job[w].next]
    /\ restock' = [restock EXCEPT ![r] = Resaleable(w)]
    /\ movements' = [movements EXCEPT ![r] =
                        [l \in Line |-> IF l \in job[w].put THEN @[l] + 1 ELSE @[l]]]
    /\ raced' = (raced \/ \E v \in Worker \ {w} : InTransition(v) /\ job[v].request = r)
    /\ Goto(w, "idle", NoJob)
    /\ UNCHANGED open

-----------------------------------------------------------------------------
(* Time and failure *)

\* RETURN_WINDOW_DAYS after delivery.
WindowCloses ==
    /\ open
    /\ open' = FALSE
    /\ UNCHANGED <<dbVars, pc, job, raced>>

\* A statement fails or the process stops: the transaction is rolled back, and
\* nothing a handler does is outside of one.
Fail(w) ==
    /\ pc[w] # "idle"
    /\ Goto(w, "idle", NoJob)
    /\ UNCHANGED <<open, dbVars, raced>>

-----------------------------------------------------------------------------
(* The specification *)

Init ==
    /\ open = TRUE
    /\ request = [r \in Request |-> NoRequest]
    /\ restock = [r \in Request |-> {}]
    /\ movements = [r \in Request |-> Nothing]
    /\ pc = [w \in Worker |-> "idle"]
    /\ job = [w \in Worker |-> NoJob]
    /\ raced = FALSE

Begin(w) ==
    \/ \E quantity \in Quantities : CreateRead(w, quantity)
    \/ \E r \in Requests : WithdrawRead(w, r)
    \/ \E r \in Requests, next \in ReturnStatus :
          \E decided \in (IF next \in Decided THEN SUBSET LinesOf(r) ELSE {{}}) : \E keep \in SUBSET decided :
              StaffRead(w, r, next, decided, keep)

Step(w) ==
    \/ nextReturnNumber(w)
    \/ \E r \in Request : CreateCommit(w, r)
    \/ Withdraw(w)
    \/ Mark(w)
    \/ Look(w)
    \/ TransitionCommit(w)

Next ==
    \/ \E w \in Worker : Begin(w) \/ Step(w) \/ Fail(w)
    \/ WindowCloses

Spec == Init /\ [][Next]_vars

-----------------------------------------------------------------------------
(* Properties *)

\* Every variable has its type, and a handler knows what its step needs.
TypeOK ==
    /\ open \in BOOLEAN
    /\ request \in [Request -> [status : ReturnStatus, number : Nat, quantity : Quantities]
                                \cup {NoRequest}]
    /\ restock \in [Request -> SUBSET Line]
    /\ movements \in [Request -> [Line -> Nat]]
    /\ pc \in [Worker -> {"idle", "numbering", "creating", "withdrawing", "marking", "restocking"}]
    /\ job \in [Worker -> [request  : Request \cup {None},
                            next     : ReturnStatus \cup {"NO_REQUEST"},
                            quantity : Quantities,
                            number   : Nat,
                            decided  : SUBSET Line,
                            keep     : SUBSET Line,
                            todo     : SUBSET Line,
                            put      : SUBSET Line]]
    /\ raced \in BOOLEAN
    /\ \A w \in Worker :
          /\ pc[w] \in {"withdrawing", "marking", "restocking"} => job[w].request \in Requests
          /\ pc[w] \in {"marking", "restocking"} => job[w].next \in ReturnStatus

\* "A customer can never ask to return more than they bought, counting returns
\* already in flight": the live requests claim no more of a line than was
\* bought, as long as no commit has gone under what another handler had read.
ClaimsWithinPurchase ==
    ~raced => \A l \in Line : claimed(l) <= Purchased[l]

\* "A return that is inspected and then completed must not put the same goods
\* back twice": short of a race, one movement row per return line at most.
RestockedOnce ==
    ~raced => \A r \in Request, l \in Line : movements[r][l] <= 1

\* No more of a line comes back on the shelf than left it, over all the order's
\* returns, short of a race and of a request rejected after it was inspected
\* (which releases the claim and leaves the goods on the shelf).
RestockedWithinPurchase ==
    LET back(l) == SumFunction([r \in Requests |-> movements[r][l] * request[r].quantity[l]])
        rejectedAfterRestock ==
            \E r \in Requests : request[r].status = "REJECTED" /\ movements[r] # Nothing
    IN  ~raced /\ ~rejectedAfterRestock => \A l \in Line : back(l) <= Purchased[l]

\* "Stock goes back on the shelf only when the goods are physically with us and
\* someone has marked the line as resaleable": a line is put back by a request
\* that has been RECEIVED and not yet decided, short of a race.
GoodsAreBack ==
    [][\A r \in Request, l \in Line :
          ~raced' /\ movements'[r][l] # movements[r][l] =>
              /\ l \in restock'[r] \cap LinesOf(r)
              /\ request[r].status \in {"RECEIVED", "INSPECTED"}]_vars

\* "There is no path back out of a completed or rejected request", short of a
\* handler that read the status before it was.
NoWayBack ==
    [][\A r \in Requests :
          ~raced /\ request[r].status \in {"COMPLETED", "REJECTED", "CANCELLED"} =>
              request'[r] = request[r]]_vars

\* Claims and restocked goods stay within the purchase, short of a race, and no
\* handler loses the request it works on.
ReturnsStand ==
    TypeOK /\ ClaimsWithinPurchase /\ RestockedOnce /\ RestockedWithinPurchase

=============================================================================
