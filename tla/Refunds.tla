------------------------------ MODULE Refunds ------------------------------
(***************************************************************************)
(* Refunds of one order's payment (modules/returns/refund.service.ts): the *)
(* cap check and the PENDING row, the call to the gateway, and what its    *)
(* answer, or its silence, leaves on the row.                              *)
(*                                                                         *)
(* The cap is checked in a READ COMMITTED transaction: it is what other    *)
(* transactions had committed when it was read.  No webhook settles a      *)
(* refund the gateway answered "pending"; the gateway alone goes on.       *)
(***************************************************************************)
EXTENDS Integers, FiniteSets, Functions, Processes

CONSTANTS
    Admin,        \* createRefund calls in flight at once
    Refund,       \* the refund rows there can be
    Paid,         \* the amount of the order's payment
    Amounts,      \* the amounts staff enter
    MaxMishaps    \* bound on timeouts, database errors and process stops

ASSUME RefundsAssumption ==
    /\ Paid \in Nat \ {0}
    /\ Amounts \subseteq Nat \ {0}
    /\ MaxMishaps \in Nat
    /\ None \notin Refund

VARIABLES
    captured,     \* whether the payment row is CAPTURED
    reference,    \* whether it has a providerPaymentId
    row,          \* [Refund -> refund row, or NoRow]
    gateway,      \* [Refund -> what the gateway has made of it]
    \* History and bounds.
    overlapped,   \* whether a row was inserted under another call's check
    mishaps       \* timeouts, database errors and process stops so far

refundsVars == <<captured, reference, row, gateway, pc, job, overlapped, mishaps>>

paymentVars == <<captured, reference>>
refundsDbVars      == <<paymentVars, row>>

-----------------------------------------------------------------------------
(* Rows and calls *)

RefundStatus == {"PENDING", "PROCESSING", "COMPLETED", "FAILED"}

\* Refunds that count against the cap.  A failed one does not.
COUNTED == {"PENDING", "PROCESSING", "COMPLETED"}

Answer == {"pending", "processed", "failed"}

NoRow == [amount |-> 0, status |-> "NO_ROW"]
Row   == [amount : Amounts, status : RefundStatus]

CallState == [amount : Amounts \cup {0},
        refund : Refund \cup {None},
        answer : Answer \cup {"none"}]

NoCall == [amount |-> 0, refund |-> None, answer |-> "none"]

Rows == {r \in Refund : row[r] # NoRow}

alreadyRefunded ==
    SumFunctionOnSet([r \in Rows |-> row[r].amount], {r \in Rows : row[r].status \in COUNTED})

Write(r, status) == row' = [row EXCEPT ![r].status = status]

-----------------------------------------------------------------------------
(* createRefund *)

\* (Mutant: refunds made before are not taken off what was paid.)
CheckPaymentOnly(a, amount) ==
    /\ pc[a] = "idle"
    /\ captured
    /\ amount <= Paid
    /\ Goto(a, "inserting", [NoCall EXCEPT !.amount = amount])
    /\ UNCHANGED <<refundsDbVars, gateway, overlapped, mishaps>>

\* The transaction's reads, and the refusals they lead to.
Check(a, amount) ==
    /\ pc[a] = "idle"
    /\ captured
    /\ amount <= Paid - alreadyRefunded
    /\ Goto(a, "inserting", [NoCall EXCEPT !.amount = amount])
    /\ UNCHANGED <<refundsDbVars, gateway, overlapped, mishaps>>

\* Its insert and commit.
Insert(a, r) ==
    /\ pc[a] = "inserting"
    /\ row[r] = NoRow
    /\ row' = [row EXCEPT ![r] = [amount |-> job[a].amount, status |-> "PENDING"]]
    /\ overlapped' = (overlapped \/ \E b \in Admin \ {a} : pc[b] = "inserting")
    /\ Goto(a, IF reference THEN "calling" ELSE "deferring", [job[a] EXCEPT !.refund = r])
    /\ UNCHANGED <<paymentVars, gateway, mishaps>>

\* (Mutant: the row of an offline payment is left PENDING.)
DeferNothing(a) ==
    /\ pc[a] = "deferring"
    /\ Goto(a, "idle", NoCall)
    /\ UNCHANGED <<refundsDbVars, gateway, overlapped, mishaps>>

\* A payment the gateway has no reference for is refunded by hand.
Defer(a) ==
    /\ pc[a] = "deferring"
    /\ Write(job[a].refund, "PROCESSING")
    /\ Goto(a, "idle", NoCall)
    /\ UNCHANGED <<paymentVars, gateway, overlapped, mishaps>>

\* The gateway takes the refund, and its answer arrives.
Call(a, answer) ==
    /\ pc[a] = "calling"
    /\ gateway' = [gateway EXCEPT ![job[a].refund] = answer]
    /\ Goto(a, "recording", [job[a] EXCEPT !.answer = answer])
    /\ UNCHANGED <<refundsDbVars, overlapped, mishaps>>

\* (Mutant: any answer but "processed" fails the refund.)
RecordPendingAsFailed(a) ==
    /\ pc[a] = "recording"
    /\ Write(job[a].refund, IF job[a].answer = "processed" THEN "COMPLETED" ELSE "FAILED")
    /\ Goto(a, "idle", NoCall)
    /\ UNCHANGED <<paymentVars, gateway, overlapped, mishaps>>

Record(a) ==
    /\ pc[a] = "recording"
    /\ Write(job[a].refund, CASE job[a].answer = "processed" -> "COMPLETED"
                              [] job[a].answer = "failed"    -> "FAILED"
                              [] OTHER                       -> "PROCESSING")
    /\ Goto(a, "idle", NoCall)
    /\ UNCHANGED <<paymentVars, gateway, overlapped, mishaps>>

\* catch: the call threw, or writing its answer down did.
RecordFailed(a) ==
    /\ pc[a] = "failing"
    /\ Write(job[a].refund, "FAILED")
    /\ Goto(a, "idle", NoCall)
    /\ UNCHANGED <<paymentVars, gateway, overlapped, mishaps>>

-----------------------------------------------------------------------------
(* The gateway and the payment row *)

\* A pending refund settles at the gateway; nothing here learns of it.
Settle(r, answer) ==
    /\ gateway[r] = "pending"
    /\ answer \in {"processed", "failed"}
    /\ gateway' = [gateway EXCEPT ![r] = answer]
    /\ UNCHANGED <<refundsDbVars, pc, job, overlapped, mishaps>>

\* A payment failure reported late takes the row out of CAPTURED, a capture
\* reported again puts it back (Payments: MarkFailed, MarkPaidCommit).
PaymentRewritten ==
    /\ captured' = ~captured
    /\ UNCHANGED <<reference, row, gateway, pc, job, overlapped, mishaps>>

-----------------------------------------------------------------------------
(* Failure *)

Mishap == mishaps < MaxMishaps /\ mishaps' = mishaps + 1

\* The call throws: the gateway may have taken the refund all the same.
CallThrows(a) ==
    /\ pc[a] = "calling"
    /\ Mishap
    /\ \/ UNCHANGED gateway
       \/ \E answer \in Answer :
             gateway' = [gateway EXCEPT ![job[a].refund] = answer]
    /\ Goto(a, "failing", job[a])
    /\ UNCHANGED <<refundsDbVars, overlapped>>

\* A statement fails; the one that records the answer is inside the try.
DatabaseError(a) ==
    /\ Mishap
    /\ \/ pc[a] = "recording" /\ Goto(a, "failing", job[a])
       \/ pc[a] \in {"inserting", "deferring", "failing"} /\ Goto(a, "idle", NoCall)
    /\ UNCHANGED <<refundsDbVars, gateway, overlapped>>

Crash ==
    /\ \E a \in Admin : pc[a] # "idle"
    /\ Mishap
    /\ pc'  = [a \in Admin |-> "idle"]
    /\ job' = [a \in Admin |-> NoCall]
    /\ UNCHANGED <<refundsDbVars, gateway, overlapped>>

-----------------------------------------------------------------------------
(* The specification *)

RefundsInit ==
    /\ captured = TRUE
    /\ reference \in BOOLEAN
    /\ row = [r \in Refund |-> NoRow]
    /\ gateway = [r \in Refund |-> "none"]
    /\ pc = [a \in Admin |-> "idle"]
    /\ job = [a \in Admin |-> NoCall]
    /\ overlapped = FALSE
    /\ mishaps = 0

RefundStep(a) ==
    \/ \E r \in Refund : Insert(a, r)
    \/ Defer(a)
    \/ \E answer \in Answer : Call(a, answer)
    \/ Record(a)
    \/ RecordFailed(a)

RefundsNext ==
    \/ \E a \in Admin : \/ \E amount \in Amounts : Check(a, amount)
                        \/ RefundStep(a)
                        \/ CallThrows(a)
                        \/ DatabaseError(a)
    \/ \E r \in Refund, answer \in Answer : Settle(r, answer)
    \/ PaymentRewritten
    \/ Crash

RefundsSpec == RefundsInit /\ [][RefundsNext]_refundsVars

\* A call that has begun goes on.
RefundsFairSpec == RefundsSpec /\ \A a \in Admin : WF_refundsVars(RefundStep(a))

-----------------------------------------------------------------------------
(* Properties *)

\* Every variable has its type, and a call past its insert knows its row.
RefundsTypeOK ==
    /\ captured \in BOOLEAN
    /\ reference \in BOOLEAN
    /\ row \in [Refund -> Row \cup {NoRow}]
    /\ gateway \in [Refund -> Answer \cup {"none"}]
    /\ pc \in [Admin -> {"idle", "inserting", "deferring", "calling", "recording", "failing"}]
    /\ job \in [Admin -> CallState]
    /\ overlapped \in BOOLEAN
    /\ mishaps \in 0 .. MaxMishaps
    /\ \A a \in Admin :
          /\ pc[a] = "inserting" => job[a].amount \in Amounts
          /\ pc[a] \in {"deferring", "calling", "recording", "failing"} => job[a].refund \in Rows
          /\ pc[a] = "recording" => job[a].answer \in Answer

\* "An order can never be refunded for more than it was paid": of calls whose
\* checks do not overlap another's insert, whatever the gateway answers and
\* wherever they stop.
CapHoldsUnraced == ~overlapped => alreadyRefunded <= Paid

\* "A refund row is created before the gateway is called, so a request that
\* times out leaves a record to reconcile rather than money moved with nothing
\* written down": what the gateway took is on a row, and short of a mishap the
\* row counts against the cap.
MovedIsRecorded ==
    \A r \in Refund :
        gateway[r] = "processed" =>
            /\ r \in Rows
            /\ mishaps = 0 => row[r].status \in COUNTED

\* A refund the customer is told is COMPLETED is money the gateway has paid.
CompletedIsMoved ==
    \A r \in Rows : row[r].status = "COMPLETED" => gateway[r] = "processed"

\* Short of a mishap, no refund stays PENDING.
PendingIsSettled ==
    \A r \in Refund :
        row[r].status = "PENDING" ~> row[r].status # "PENDING" \/ mishaps > 0

\* The rows tell what became of the money: a call past its insert has its row,
\* what the gateway took is on one, and COMPLETED means paid.
MoneyIsRecorded == RefundsTypeOK /\ MovedIsRecorded /\ CompletedIsMoved

=============================================================================
