-------------------------- MODULE AfterSalesProofs --------------------------
(***************************************************************************)
(* Theorems about what comes back after a sale: Returns, the goods, for    *)
(* any number of requests, lines and handlers and any purchase; Refunds,   *)
(* the money, for any number of calls, rows and mishaps and any amounts;   *)
(* GiftCards, what is left and what is credited, for any cards, orders and *)
(* handlers.                                                               *)
(***************************************************************************)
EXTENDS Returns, Refunds, GiftCards, SumTheorems, TLAPS

-----------------------------------------------------------------------------
(* Returns: the inductive invariant *)

ReturnPlaces == {"idle", "numbering", "creating", "withdrawing", "marking", "restocking"}
Changing     == {"marking", "restocking"}
Quantified   == Quantities \cup {Nothing}

RequestRow == [status : ReturnStatus, number : Nat, quantity : Quantified]

ReturnJob == [request : Request \cup {None}, next : ReturnStatus \cup {"NO_REQUEST"},
              quantity : Quantified, number : Nat,
              decided : SUBSET Line, keep : SUBSET Line, todo : SUBSET Line, put : SUBSET Line]

Typed ==
    /\ open \in BOOLEAN
    /\ request \in [Request -> RequestRow \cup {NoRequest}]
    /\ restock \in [Request -> SUBSET Line]
    /\ movements \in [Request -> [Line -> Nat]]
    /\ pc \in [Worker -> ReturnPlaces]
    /\ job \in [Worker -> ReturnJob]
    /\ raced \in BOOLEAN

\* A handler at p with j knows its request and decides on lines of it.
Knows(p, j) ==
    /\ p \in Changing \cup {"withdrawing"} => j.request \in Requests
    /\ p \in Changing => /\ j.next \in ReturnStatus
                         /\ j.decided \subseteq LinesOf(j.request) /\ j.keep \subseteq j.decided

\* Only lines that come back are marked.
Marked == \A r \in Request : restock[r] \subseteq LinesOf(r)

\* What a transaction with j sees marked.
Kept(j) == (restock[j.request] \ j.decided) \cup j.keep

\* The move it is about to make is one from where the request still is.
Fresh(p, j) == p \in Changing => j.next \in ALLOWED[request[j.request].status]

\* What it is about to put back is marked, looked at and not yet back.
Due(p, j) ==
    /\ p = "marking" => j.put = {}
    /\ p = "restocking" =>
        /\ j.todo \cup j.put \subseteq Kept(j)
        /\ j.todo \cup j.put # {} => Restocks(j.next)
        /\ \A l \in j.put : movements[j.request][l] = 0

Ready == ~raced => \A w \in Worker : Fresh(pc[w], job[w]) /\ Due(pc[w], job[w])

ReturnsInv ==
    Typed /\ (\A w \in Worker : Knows(pc[w], job[w])) /\ Marked /\ Ready /\ RestockedOnce

LEMMA StatusOrNone ==
    /\ NoRequest.status = "NO_REQUEST" /\ "NO_REQUEST" \notin ReturnStatus
    /\ \A x \in RequestRow : x.status \in ReturnStatus /\ x # NoRequest
    /\ \A x \in RequestRow, s \in ReturnStatus :
          /\ [x EXCEPT !.status = s] \in RequestRow
          /\ [x EXCEPT !.status = s].status = s
          /\ [x EXCEPT !.status = s].quantity = x.quantity
BY DEF NoRequest, RequestRow, ReturnStatus

LEMMA NoJobIsAReturnJob == NoJob \in ReturnJob
BY DEF NoJob, ReturnJob, Quantified

LEMMA InvInit == Init => ReturnsInv
<1> SUFFICES ASSUME Init
             PROVE  ReturnsInv
  OBVIOUS
<1>1. Typed
  <2>1. Nothing \in [Line -> Nat]
    BY DEF Nothing
  <2> QED
    BY <2>1, NoJobIsAReturnJob DEF Init, Typed, ReturnPlaces
<1>2. \A w \in Worker : Knows(pc[w], job[w]) /\ Fresh(pc[w], job[w]) /\ Due(pc[w], job[w])
  BY DEF Init, Knows, Fresh, Due, Changing
<1>3. Marked
  BY DEF Init, Marked
<1>4. RestockedOnce
  BY DEF Init, RestockedOnce, Nothing
<1> QED
  BY <1>1, <1>2, <1>3, <1>4 DEF ReturnsInv, Ready

-----------------------------------------------------------------------------
(* Returns: a handler goes on *)

\* To `where` with j, and nothing is committed.
LEMMA GoesOn ==
    ASSUME ReturnsInv, NEW w \in Worker, NEW where \in ReturnPlaces, NEW j \in ReturnJob,
           Goto(w, where, j), UNCHANGED <<dbVars, raced>>, open' \in BOOLEAN,
           Knows(where, j), ~raced => Fresh(where, j) /\ Due(where, j)
    PROVE  ReturnsInv'
<1>1. /\ request' = request /\ restock' = restock /\ movements' = movements /\ raced' = raced
      /\ pc' = [pc EXCEPT ![w] = where] /\ job' = [job EXCEPT ![w] = j]
  BY DEF dbVars, Goto
<1>2. /\ Typed /\ Marked /\ Ready /\ RestockedOnce
      /\ \A v \in Worker : Knows(pc[v], job[v])
  BY DEF ReturnsInv
<1>3. /\ pc'[w] = where /\ job'[w] = j
      /\ \A v \in Worker \ {w} : pc'[v] = pc[v] /\ job'[v] = job[v]
  BY <1>1, <1>2 DEF Typed
<1>4. Typed'
  BY <1>1, <1>2 DEF Typed
<1>5. ASSUME NEW v \in Worker
      PROVE  Knows(pc[v], job[v])'
  <2>1. Knows(pc'[v], job'[v])
    BY <1>2, <1>3
  <2> QED
    BY <1>1, <2>1 DEF Knows, Requests, LinesOf
<1>6. Marked' /\ RestockedOnce'
  BY <1>1, <1>2 DEF Marked, LinesOf, RestockedOnce
<1>7. ASSUME NEW v \in Worker, ~raced'
      PROVE  Fresh(pc[v], job[v])' /\ Due(pc[v], job[v])'
  <2>1. Fresh(pc'[v], job'[v]) /\ Due(pc'[v], job'[v])
    BY <1>1, <1>2, <1>3, <1>7 DEF Ready
  <2> QED
    BY <1>1, <2>1 DEF Fresh, Due, Kept
<1> QED
  BY <1>4, <1>5, <1>6, <1>7 DEF ReturnsInv, Ready

\* Back to rest.
LEMMA Rests ==
    ASSUME ReturnsInv, NEW w \in Worker, Goto(w, "idle", NoJob), UNCHANGED <<open, dbVars, raced>>
    PROVE  ReturnsInv'
<1>1. Knows("idle", NoJob) /\ Fresh("idle", NoJob) /\ Due("idle", NoJob)
  BY DEF Knows, Fresh, Due, Changing
<1>2. open' \in BOOLEAN /\ "idle" \in ReturnPlaces
  BY DEF ReturnsInv, Typed, ReturnPlaces
<1> QED
  BY <1>1, <1>2, NoJobIsAReturnJob, GoesOn

LEMMA TransitionKeeps ==
    ASSUME ReturnsInv, NEW w \in Worker, NEW r \in Request, NEW next \in ReturnStatus,
           NEW decided, NEW keep, Transition(w, r, next, decided, keep)
    PROVE  ReturnsInv'
<1> DEFINE j == [NoJob EXCEPT !.request = r, !.next = next, !.decided = decided, !.keep = keep]
<1>1. /\ r \in Requests /\ next \in ALLOWED[request[r].status]
      /\ keep \subseteq decided /\ decided \subseteq LinesOf(r)
      /\ Goto(w, "marking", j) /\ UNCHANGED <<open, dbVars, raced>>
  BY DEF Transition
<1>2. /\ j \in ReturnJob /\ j.request = r /\ j.next = next /\ j.decided = decided /\ j.keep = keep
      /\ j.put = {}
  <2>1. decided \in SUBSET Line /\ keep \in SUBSET Line
    BY <1>1 DEF LinesOf
  <2> QED
    BY <2>1, NoJobIsAReturnJob DEF ReturnJob, NoJob
<1> HIDE DEF j
<1>3. Knows("marking", j) /\ Fresh("marking", j) /\ Due("marking", j)
  BY <1>1, <1>2 DEF Knows, Fresh, Due, Changing
<1>4. open' \in BOOLEAN /\ "marking" \in ReturnPlaces
  BY <1>1 DEF ReturnsInv, Typed, ReturnPlaces
<1> QED
  BY <1>1, <1>2, <1>3, <1>4, GoesOn

LEMMA BeginKeeps ==
    ASSUME ReturnsInv, NEW w \in Worker, Begin(w)
    PROVE  ReturnsInv'
<1>1. CASE \E quantity \in Quantities : CreateRead(w, quantity)
  <2> PICK quantity \in Quantities : CreateRead(w, quantity)
    BY <1>1
  <2> DEFINE j == [NoJob EXCEPT !.quantity = quantity]
  <2>1. j \in ReturnJob
    BY NoJobIsAReturnJob DEF ReturnJob, Quantified
  <2>2. Goto(w, "numbering", j) /\ UNCHANGED <<open, dbVars, raced>>
    BY DEF CreateRead
  <2> HIDE DEF j
  <2>3. Knows("numbering", j) /\ Fresh("numbering", j) /\ Due("numbering", j)
    BY DEF Knows, Fresh, Due, Changing
  <2>4. open' \in BOOLEAN /\ "numbering" \in ReturnPlaces
    BY <2>2 DEF ReturnsInv, Typed, ReturnPlaces
  <2> QED
    BY <2>1, <2>2, <2>3, <2>4, GoesOn
<1>2. CASE \E r \in Requests : WithdrawRead(w, r)
  <2> PICK r \in Requests : WithdrawRead(w, r)
    BY <1>2
  <2> DEFINE j == [NoJob EXCEPT !.request = r]
  <2>1. j \in ReturnJob /\ j.request = r
    BY NoJobIsAReturnJob DEF ReturnJob, NoJob, Requests
  <2>2. Goto(w, "withdrawing", j) /\ UNCHANGED <<open, dbVars, raced>>
    BY DEF WithdrawRead
  <2> HIDE DEF j
  <2>3. Knows("withdrawing", j) /\ Fresh("withdrawing", j) /\ Due("withdrawing", j)
    BY <2>1 DEF Knows, Fresh, Due, Changing
  <2>4. open' \in BOOLEAN /\ "withdrawing" \in ReturnPlaces
    BY <2>2 DEF ReturnsInv, Typed, ReturnPlaces
  <2> QED
    BY <2>1, <2>2, <2>3, <2>4, GoesOn
<1>3. CASE \E r \in Requests, next \in ReturnStatus :
              \E decided \in (IF next \in Decided THEN SUBSET LinesOf(r) ELSE {{}}) :
                  \E keep \in SUBSET decided : StaffRead(w, r, next, decided, keep)
  BY <1>3, TransitionKeeps DEF StaffRead, Requests
<1> QED
  BY <1>1, <1>2, <1>3 DEF Begin

LEMMA NumberKeeps ==
    ASSUME ReturnsInv, NEW w \in Worker, nextReturnNumber(w)
    PROVE  ReturnsInv'
<1> DEFINE j == [job[w] EXCEPT !.number = Cardinality(Requests) + 1]
<1>1. Cardinality(Requests) \in Nat
  BY ReturnsAssumption, FS_Subset, FS_CardinalityType DEF Requests
<1>2. j \in ReturnJob
  <2>1. job[w] \in ReturnJob /\ Cardinality(Requests) + 1 \in Nat
    BY <1>1 DEF ReturnsInv, Typed
  <2> DEFINE n == Cardinality(Requests) + 1
  <2> HIDE DEF n
  <2>2. [job[w] EXCEPT !.number = n] \in ReturnJob
    BY <2>1 DEF ReturnJob, n
  <2> QED
    BY <2>2 DEF n
<1>3. Goto(w, "creating", j) /\ UNCHANGED <<open, dbVars, raced>>
  BY DEF nextReturnNumber
<1> HIDE DEF j
<1>4. Knows("creating", j) /\ Fresh("creating", j) /\ Due("creating", j)
  BY DEF Knows, Fresh, Due, Changing
<1>5. open' \in BOOLEAN /\ "creating" \in ReturnPlaces
  BY <1>3 DEF ReturnsInv, Typed, ReturnPlaces
<1> QED
  BY <1>2, <1>3, <1>4, <1>5, GoesOn

LEMMA WithdrawKeeps ==
    ASSUME ReturnsInv, NEW w \in Worker, Withdraw(w)
    PROVE  ReturnsInv'
<1> DEFINE r == job[w].request
<1>1. r \in Request
  BY DEF Withdraw, ReturnsInv, Knows, Requests
<1>2. CASE Transition(w, r, "CANCELLED", {}, {})
  <2>1. "CANCELLED" \in ReturnStatus
    BY DEF ReturnStatus
  <2> HIDE DEF r
  <2> QED
    BY <1>1, <1>2, <2>1, TransitionKeeps
<1>3. CASE Goto(w, "idle", NoJob) /\ UNCHANGED <<open, dbVars, raced>>
  BY <1>3, Rests
<1> QED
  BY <1>2, <1>3 DEF Withdraw

LEMMA MarkKeeps ==
    ASSUME ReturnsInv, NEW w \in Worker, Mark(w)
    PROVE  ReturnsInv'
<1> DEFINE todo == IF Restocks(job[w].next) THEN Resaleable(w) ELSE {}
           j == [job[w] EXCEPT !.todo = todo]
<1>1. /\ pc[w] = "marking" /\ job[w] \in ReturnJob /\ Knows(pc[w], job[w])
      /\ ~raced => Fresh(pc[w], job[w])
      /\ restock \in [Request -> SUBSET Line]
  BY DEF Mark, ReturnsInv, Typed, Ready
<1>2. job[w].request \in Request
  BY <1>1 DEF Knows, Requests, Changing
<1>3. todo \in SUBSET Line
  BY <1>1, <1>2 DEF Resaleable, ReturnJob
<1>4. /\ j \in ReturnJob /\ j.todo = todo
      /\ j.request = job[w].request /\ j.next = job[w].next /\ j.decided = job[w].decided
      /\ j.keep = job[w].keep /\ j.put = job[w].put
  BY <1>1, <1>3 DEF ReturnJob
<1>5. Goto(w, "restocking", j) /\ UNCHANGED <<open, dbVars, raced>>
  BY DEF Mark
<1>6. todo \subseteq Kept(job[w]) /\ (todo # {} => Restocks(job[w].next))
  BY DEF Resaleable, Kept
<1> HIDE DEF todo, j
<1>7. Knows("restocking", j)
  BY <1>1, <1>4 DEF Knows, Changing
<1>8. ~raced => Fresh("restocking", j) /\ Due("restocking", j)
  <2> SUFFICES ASSUME ~raced
               PROVE  Fresh("restocking", j) /\ Due("restocking", j)
    OBVIOUS
  <2>1. job[w].put = {}
    BY <1>1 DEF ReturnsInv, Ready, Due
  <2>2. Kept(j) = Kept(job[w])
    BY <1>4 DEF Kept
  <2> QED
    BY <1>1, <1>4, <1>6, <2>1, <2>2 DEF Fresh, Due, Changing
<1>9. open' \in BOOLEAN /\ "restocking" \in ReturnPlaces
  BY <1>5 DEF ReturnsInv, Typed, ReturnPlaces
<1> QED
  BY <1>4, <1>5, <1>7, <1>8, <1>9, GoesOn

LEMMA LookKeeps ==
    ASSUME ReturnsInv, NEW w \in Worker, Look(w)
    PROVE  ReturnsInv'
<1> PICK l \in job[w].todo :
       Goto(w, "restocking",
            [job[w] EXCEPT !.todo = @ \ {l},
                           !.put = IF movements[job[w].request][l] > 0 THEN @ ELSE @ \cup {l}])
  BY DEF Look
<1> DEFINE put == IF movements[job[w].request][l] > 0 THEN job[w].put ELSE job[w].put \cup {l}
           j == [job[w] EXCEPT !.todo = job[w].todo \ {l}, !.put = put]
<1>1. /\ pc[w] = "restocking" /\ job[w] \in ReturnJob /\ Knows(pc[w], job[w])
      /\ ~raced => Fresh(pc[w], job[w]) /\ Due(pc[w], job[w])
      /\ movements \in [Request -> [Line -> Nat]]
  BY DEF Look, ReturnsInv, Typed, Ready
<1>2. job[w].request \in Request /\ job[w].todo \in SUBSET Line /\ job[w].put \in SUBSET Line
  BY <1>1 DEF Knows, Requests, Changing, ReturnJob
<1>3. put \in SUBSET Line
  BY <1>2
<1>4. /\ j \in ReturnJob /\ j.todo = job[w].todo \ {l} /\ j.put = put
      /\ j.request = job[w].request /\ j.next = job[w].next /\ j.decided = job[w].decided
      /\ j.keep = job[w].keep
  BY <1>1, <1>2, <1>3 DEF ReturnJob
<1>5. Goto(w, "restocking", j) /\ UNCHANGED <<open, dbVars, raced>>
  <2>1. j = [job[w] EXCEPT !.todo = @ \ {l},
                           !.put = IF movements[job[w].request][l] > 0 THEN @ ELSE @ \cup {l}]
    BY <1>1 DEF ReturnJob
  <2> QED
    BY <2>1 DEF Look
<1>6. /\ put \subseteq job[w].put \cup {l}
      /\ l \in put => l \in job[w].put \/ movements[job[w].request][l] = 0
  <2>1. movements[job[w].request][l] \in Nat
    BY <1>1, <1>2
  <2> QED
    BY <2>1
<1> HIDE DEF put, j
<1>7. Knows("restocking", j)
  BY <1>1, <1>4 DEF Knows, Changing
<1>8. ~raced => Fresh("restocking", j) /\ Due("restocking", j)
  <2> SUFFICES ASSUME ~raced
               PROVE  Fresh("restocking", j) /\ Due("restocking", j)
    OBVIOUS
  <2>1. Fresh("restocking", j)
    BY <1>1, <1>4 DEF Fresh, Changing
  <2>2. Kept(j) = Kept(job[w])
    BY <1>4 DEF Kept
  <2>3. \A k \in put : movements[job[w].request][k] = 0
    BY <1>1, <1>6 DEF Due
  <2> QED
    BY <1>1, <1>4, <1>6, <2>1, <2>2, <2>3 DEF Due
<1>9. open' \in BOOLEAN /\ "restocking" \in ReturnPlaces
  BY <1>5 DEF ReturnsInv, Typed, ReturnPlaces
<1> QED
  BY <1>4, <1>5, <1>7, <1>8, <1>9, GoesOn

-----------------------------------------------------------------------------
(* Commits *)

LEMMA CreateKeeps ==
    ASSUME ReturnsInv, NEW w \in Worker, NEW r \in Request, CreateCommit(w, r)
    PROVE  ReturnsInv'
<1>1. CASE UNCHANGED <<request, raced>>
  BY <1>1, Rests DEF CreateCommit, dbVars
<1>2. CASE /\ request' = [request EXCEPT ![r] = [status   |-> "REQUESTED",
                                                  number   |-> job[w].number,
                                                  quantity |-> job[w].quantity]]
           /\ raced' = (raced \/ \E v \in Worker \ {w} : pc[v] \in {"numbering", "creating"})
  <2> DEFINE new == [status |-> "REQUESTED", number |-> job[w].number, quantity |-> job[w].quantity]
  <2>1. /\ Typed /\ Marked /\ Ready /\ RestockedOnce
        /\ \A v \in Worker : Knows(pc[v], job[v])
    BY DEF ReturnsInv
  <2>2. new \in RequestRow
    BY <2>1 DEF Typed, RequestRow, ReturnJob, ReturnStatus
  <2> HIDE DEF new
  <2>3. /\ request[r] = NoRequest /\ open' = open /\ restock' = restock /\ movements' = movements
        /\ pc' = [pc EXCEPT ![w] = "idle"] /\ job' = [job EXCEPT ![w] = NoJob]
        /\ request' = [request EXCEPT ![r] = new]
        /\ raced' \in BOOLEAN /\ (raced => raced')
    BY <1>2, <2>1 DEF CreateCommit, Goto, Typed, new
  <2>4. /\ request' \in [Request -> RequestRow \cup {NoRequest}] /\ request'[r] = new
        /\ \A q \in Request \ {r} : request'[q] = request[q]
    BY <2>1, <2>2, <2>3 DEF Typed
  <2>5. Typed'
    BY <2>1, <2>3, <2>4, NoJobIsAReturnJob DEF Typed, ReturnPlaces
  <2>6. ASSUME NEW q \in Requests
        PROVE  q # r /\ q \in Requests' /\ request'[q] = request[q] /\ LinesOf(q)' = LinesOf(q)
    BY <2>3, <2>4, <2>6 DEF Requests, LinesOf
  <2>7. ASSUME NEW v \in Worker
        PROVE  pc'[v] = "idle" \/ (pc'[v] = pc[v] /\ job'[v] = job[v])
    BY <2>1, <2>3 DEF Typed
  <2>8. ASSUME NEW v \in Worker
        PROVE  Knows(pc[v], job[v])'
    <3>1. CASE pc'[v] = "idle"
      BY <3>1 DEF Knows, Changing
    <3>2. CASE pc'[v] = pc[v] /\ job'[v] = job[v]
      BY <2>1, <2>6, <3>2 DEF Knows, Changing
    <3> QED
      BY <2>7, <3>1, <3>2
  <2>9. Marked'
    <3>1. LinesOf(r) = {}
      BY <2>3 DEF LinesOf, NoRequest, Nothing
    <3>2. restock[r] = {}
      BY <2>1, <3>1 DEF Marked
    <3> QED
      BY <2>1, <2>3, <2>4, <3>2 DEF Marked, LinesOf
  <2>10. RestockedOnce'
    BY <2>1, <2>3 DEF RestockedOnce
  <2>11. ASSUME NEW v \in Worker, ~raced'
         PROVE  Fresh(pc[v], job[v])' /\ Due(pc[v], job[v])'
    <3>1. CASE pc'[v] = "idle"
      BY <3>1 DEF Fresh, Due, Changing
    <3>2. CASE pc'[v] = pc[v] /\ job'[v] = job[v]
      <4>1. Fresh(pc[v], job[v]) /\ Due(pc[v], job[v]) /\ Knows(pc[v], job[v])
        BY <2>1, <2>3, <2>11 DEF Ready
      <4>2. pc[v] \in Changing => request'[job[v].request] = request[job[v].request]
        BY <2>6, <4>1 DEF Knows
      <4> QED
        BY <2>3, <3>2, <4>1, <4>2 DEF Fresh, Due, Kept
    <3> QED
      BY <2>7, <3>1, <3>2
  <2> QED
    BY <2>5, <2>8, <2>9, <2>10, <2>11 DEF ReturnsInv, Ready
<1> QED
  BY <1>1, <1>2 DEF CreateCommit

LEMMA CommitKeeps ==
    ASSUME ReturnsInv, NEW w \in Worker, TransitionCommit(w)
    PROVE  ReturnsInv'
<1> DEFINE r == job[w].request
           new == [request[r] EXCEPT !.status = job[w].next]
           more == [l \in Line |-> IF l \in job[w].put THEN movements[r][l] + 1 ELSE movements[r][l]]
<1>1. /\ Typed /\ Marked /\ Ready /\ RestockedOnce
      /\ \A v \in Worker : Knows(pc[v], job[v])
  BY DEF ReturnsInv
<1>2. /\ r \in Requests /\ r \in Request /\ job[w].next \in ReturnStatus
      /\ job[w].decided \subseteq LinesOf(r) /\ job[w].keep \subseteq job[w].decided
      /\ request[r] \in RequestRow /\ pc[w] = "restocking"
  BY <1>1 DEF TransitionCommit, Knows, Changing, Requests, Typed
<1>3. new \in RequestRow /\ new.quantity = request[r].quantity /\ new # NoRequest
  BY <1>2, StatusOrNone
<1>4. more \in [Line -> Nat]
  BY <1>1, <1>2 DEF Typed
<1>5. Kept(job[w]) \subseteq LinesOf(r) /\ LinesOf(r) \subseteq Line
  BY <1>1, <1>2 DEF Kept, Marked, LinesOf
<1>6. /\ request' = [request EXCEPT ![r] = new]
      /\ restock' = [restock EXCEPT ![r] = Kept(job[w])]
      /\ movements' = [movements EXCEPT ![r] = more]
      /\ pc' = [pc EXCEPT ![w] = "idle"] /\ job' = [job EXCEPT ![w] = NoJob] /\ open' = open
      /\ raced' = (raced \/ \E v \in Worker \ {w} : InTransition(v) /\ job[v].request = r)
  BY <1>1, <1>2 DEF TransitionCommit, Goto, Resaleable, Kept, Typed
<1>7. /\ ~raced' => ~raced
      /\ ~raced' => \A l \in job[w].put : movements[r][l] = 0
  BY <1>1, <1>2, <1>6 DEF Ready, Due
<1>8. \A l \in Line : more[l] = IF l \in job[w].put THEN movements[r][l] + 1 ELSE movements[r][l]
  OBVIOUS
<1> HIDE DEF new, more, r
<1>9. /\ request'[r] = new /\ restock'[r] = Kept(job[w]) /\ movements'[r] = more
      /\ \A q \in Request \ {r} : /\ request'[q] = request[q] /\ restock'[q] = restock[q]
                                   /\ movements'[q] = movements[q]
  BY <1>1, <1>2, <1>6 DEF Typed
<1>10. Typed'
  <2>1. Kept(job[w]) \in SUBSET Line
    BY <1>5
  <2> QED
    BY <1>1, <1>2, <1>3, <1>4, <1>6, <2>1, NoJobIsAReturnJob DEF Typed, ReturnPlaces
<1>11. ASSUME NEW q \in Request
       PROVE  (q \in Requests => q \in Requests') /\ LinesOf(q)' = LinesOf(q)
  BY <1>3, <1>9 DEF Requests, LinesOf
<1>12. ASSUME NEW v \in Worker
       PROVE  pc'[v] = "idle" \/ (v # w /\ pc'[v] = pc[v] /\ job'[v] = job[v])
  BY <1>1, <1>6 DEF Typed
<1>13. ASSUME NEW v \in Worker
       PROVE  Knows(pc[v], job[v])'
  <2>1. CASE pc'[v] = "idle"
    BY <2>1 DEF Knows, Changing
  <2>2. CASE pc'[v] = pc[v] /\ job'[v] = job[v]
    <3>1. Knows(pc[v], job[v])
      BY <1>1
    <3> QED
      BY <1>11, <2>2, <3>1 DEF Knows, Changing, Requests
  <2> QED
    BY <1>12, <2>1, <2>2
<1>14. Marked'
  BY <1>1, <1>5, <1>9, <1>11 DEF Marked
<1>15. RestockedOnce'
  <2> SUFFICES ASSUME ~raced', NEW q \in Request, NEW l \in Line
               PROVE  movements'[q][l] <= 1
    BY DEF RestockedOnce
  <2>1. ~raced /\ movements[q][l] <= 1 /\ movements[q][l] \in Nat
    BY <1>1, <1>7 DEF RestockedOnce, Typed
  <2>2. CASE q = r
    BY <1>7, <1>8, <1>9, <2>1, <2>2
  <2>3. CASE q # r
    BY <1>9, <2>1, <2>3
  <2> QED
    BY <2>2, <2>3
<1>16. ASSUME NEW v \in Worker, ~raced'
       PROVE  Fresh(pc[v], job[v])' /\ Due(pc[v], job[v])'
  <2>1. CASE pc'[v] = "idle"
    BY <2>1 DEF Fresh, Due, Changing
  <2>2. CASE v # w /\ pc'[v] = pc[v] /\ job'[v] = job[v]
    <3>1. Fresh(pc[v], job[v]) /\ Due(pc[v], job[v]) /\ Knows(pc[v], job[v])
      BY <1>1, <1>7, <1>16 DEF Ready
    <3>2. pc[v] \in Changing => job[v].request \in Request /\ job[v].request # r
      BY <1>6, <1>16, <2>2, <3>1 DEF InTransition, Changing, Knows, Requests
    <3>3. pc[v] \in Changing => /\ request'[job[v].request] = request[job[v].request]
                                 /\ restock'[job[v].request] = restock[job[v].request]
                                 /\ movements'[job[v].request] = movements[job[v].request]
      BY <1>9, <3>2
    <3> QED
      BY <2>2, <3>1, <3>3 DEF Fresh, Due, Kept, Changing
  <2> QED
    BY <1>12, <2>1, <2>2
<1> QED
  BY <1>10, <1>13, <1>14, <1>15, <1>16 DEF ReturnsInv, Ready

LEMMA InvStep == ReturnsInv /\ [Next]_vars => ReturnsInv'
<1> SUFFICES ASSUME ReturnsInv, [Next]_vars
             PROVE  ReturnsInv'
  OBVIOUS
<1>1. CASE \E w \in Worker : Begin(w)
  BY <1>1, BeginKeeps
<1>2. CASE \E w \in Worker : Step(w)
  BY <1>2, NumberKeeps, CreateKeeps, WithdrawKeeps, MarkKeeps, LookKeeps, CommitKeeps DEF Step
<1>3. CASE \E w \in Worker : Fail(w)
  BY <1>3, Rests DEF Fail
<1>4. CASE WindowCloses \/ UNCHANGED vars
  <2>1. /\ request' = request /\ restock' = restock /\ movements' = movements /\ raced' = raced
        /\ pc' = pc /\ job' = job /\ open' \in BOOLEAN
    BY <1>4 DEF WindowCloses, vars, dbVars, ReturnsInv, Typed
  <2> QED
    BY <2>1 DEF ReturnsInv, Typed, Knows, Marked, Ready, RestockedOnce, Fresh, Due, Kept, Requests, LinesOf
<1> QED
  BY <1>1, <1>2, <1>3, <1>4 DEF Next

-----------------------------------------------------------------------------
(* Returns: theorems *)

\* transitionReturn's "a return that is inspected and then completed must not
\* put the same goods back twice", short of a race: a return line has one
\* movement row at most.
THEOREM GoodsGoBackOnce == Spec => []RestockedOnce
<1>1. ReturnsInv => RestockedOnce
  BY DEF ReturnsInv
<1> QED
  BY <1>1, InvInit, InvStep, PTL DEF Spec

\* Goods are put back by a request that has been RECEIVED and not yet decided,
\* on lines marked resaleable (transitionReturn), short of a race.
THEOREM GoodsAreAlwaysBack == Spec => GoodsAreBack
<1>1. ReturnsInv /\ [Next]_vars =>
         [\A r \in Request, l \in Line :
             ~raced' /\ movements'[r][l] # movements[r][l] =>
                 /\ l \in restock'[r] \cap LinesOf(r)
                 /\ request[r].status \in {"RECEIVED", "INSPECTED"}]_vars
  <2> SUFFICES ASSUME ReturnsInv, [Next]_vars, ReturnsInv',
                      NEW r \in Request, NEW l \in Line, ~raced', movements'[r][l] # movements[r][l]
               PROVE  /\ l \in restock'[r] \cap LinesOf(r)
                      /\ request[r].status \in {"RECEIVED", "INSPECTED"}
    BY InvStep
  <2>1. PICK w \in Worker : TransitionCommit(w)
    BY ZenonT(90) DEF Next, vars, Begin, Step, CreateRead, WithdrawRead, StaffRead, Transition, nextReturnNumber,
           CreateCommit, Withdraw, Mark, Look, Fail, WindowCloses, dbVars
  <2>2. /\ Typed /\ Marked /\ Ready /\ Knows(pc[w], job[w]) /\ pc[w] = "restocking"
    BY <2>1 DEF ReturnsInv, TransitionCommit
  <2>3. /\ job[w].request \in Request /\ ~raced
        /\ Fresh(pc[w], job[w]) /\ Due(pc[w], job[w])
    BY <2>1, <2>2 DEF Knows, Changing, Requests, TransitionCommit, Ready
  <2>4. r = job[w].request /\ l \in job[w].put
    BY <2>1, <2>2, <2>3 DEF TransitionCommit, Typed
  <2>5. l \in Kept(job[w]) /\ restock'[r] = Kept(job[w])
    BY <2>1, <2>2, <2>3, <2>4 DEF Due, TransitionCommit, Resaleable, Kept, Typed
  <2>6. l \in LinesOf(r)
    BY <2>2, <2>4, <2>5 DEF Kept, Knows, Marked, Changing
  <2>7. request[r].status \in ReturnStatus
    <3>1. r \in Requests
      BY <2>2, <2>4 DEF Knows, Changing
    <3>2. request[r] \in RequestRow
      BY <2>2, <3>1 DEF Typed, Requests
    <3> QED
      BY <3>2, StatusOrNone
  <2>8. /\ job[w].next \in {"INSPECTED", "COMPLETED"}
        /\ job[w].next \in ALLOWED[request[r].status]
    BY <2>2, <2>3, <2>4 DEF Due, Fresh, Changing, Restocks
  <2>9. request[r].status \in {"RECEIVED", "INSPECTED"}
    BY <2>7, <2>8 DEF ALLOWED, ReturnStatus
  <2> QED
    BY <2>5, <2>6, <2>9
<1> QED
  BY <1>1, InvInit, InvStep, PTL DEF Spec, GoodsAreBack

\* ALLOWED's "no path back out of a completed or rejected request", short of a
\* handler that read the status before it was.
THEOREM ThereIsNoWayBack == Spec => NoWayBack
<1>1. ReturnsInv /\ [Next]_vars =>
         [\A r \in Requests :
             ~raced /\ request[r].status \in {"COMPLETED", "REJECTED", "CANCELLED"} =>
                 request'[r] = request[r]]_vars
  <2> SUFFICES ASSUME ReturnsInv, [Next]_vars, NEW r \in Requests, ~raced,
                      request[r].status \in {"COMPLETED", "REJECTED", "CANCELLED"},
                      request'[r] # request[r]
               PROVE  FALSE
    OBVIOUS
  <2>1. r \in Request /\ request[r] # NoRequest /\ request \in [Request -> RequestRow \cup {NoRequest}]
    BY DEF Requests, ReturnsInv, Typed
  <2>2. CASE \E w \in Worker : TransitionCommit(w)
    <3> PICK w \in Worker : TransitionCommit(w)
      BY <2>2
    <3>1. r = job[w].request
      BY <2>1 DEF TransitionCommit
    <3>2. Fresh(pc[w], job[w]) /\ pc[w] = "restocking"
      BY DEF TransitionCommit, ReturnsInv, Ready
    <3>3. job[w].next \in ALLOWED[request[r].status]
      BY <3>1, <3>2 DEF Fresh, Changing
    <3> QED
      BY <3>3 DEF ALLOWED
  <2>3. CASE \E w \in Worker, q \in Request : CreateCommit(w, q)
    BY <2>1, <2>3 DEF CreateCommit
  <2>4. CASE UNCHANGED request
    BY <2>4
  <2> QED
    BY <2>2, <2>3, <2>4, ZenonT(90) DEF Next, vars, Begin, Step, CreateRead, WithdrawRead, StaffRead, Transition,
       nextReturnNumber, Withdraw, Mark, Look, Fail, WindowCloses, dbVars
<1> QED
  BY <1>1, InvInit, InvStep, PTL DEF Spec, NoWayBack

-----------------------------------------------------------------------------
(* Returns: claims and goods within the purchase *)

\* What a handler is about to claim is still there to claim.
Room ==
    ~raced => \A w \in Worker : pc[w] \in {"numbering", "creating"} =>
                  \A l \in Line : claimed(l) + job[w].quantity[l] <= Purchased[l]

\* Goods on the shelf are those of a request that keeps its claim, or was
\* rejected since.
OnTheShelf ==
    ~raced => \A r \in Request, l \in Line :
                  movements[r][l] # 0 => request[r].status \in {"INSPECTED", "COMPLETED", "REJECTED"}

ClaimsInv == ReturnsInv /\ ClaimsWithinPurchase /\ Room /\ OnTheShelf

LEMMA QuantityType ==
    /\ Nothing \in Quantities /\ Quantified = Quantities
    /\ \A q \in Quantities, l \in Line : q[l] \in Nat
<1> DEFINE Bought == {Purchased[l] : l \in Line} \cup {0}
<1>1. IsFiniteSet(Bought) /\ Bought # {} /\ Bought \subseteq Int
  <2>1. IsFiniteSet({Purchased[l] : l \in Line})
    BY ReturnsAssumption, ValuesAreFinite
  <2>2. IsFiniteSet(Bought)
    BY <2>1, FS_AddElement
  <2> QED BY <2>2, ReturnsAssumption
<1>2. Max(Bought) \in Int /\ 0 <= Max(Bought)
  <2>1. 0 \in Bought
    OBVIOUS
  <2> HIDE DEF Bought
  <2> QED BY <1>1, <2>1, MaxOfFinite
<1>3. Quantities = [Line -> 0 .. Max(Bought)]
  BY DEF Quantities
<1> HIDE DEF Bought
<1> QED BY <1>2, <1>3 DEF Nothing, Quantified

LEMMA ClaimsType ==
    ASSUME ReturnsInv, NEW l \in Line
    PROVE  /\ IsFiniteSet(Live) /\ IsFiniteSet(Requests)
           /\ \A r \in Requests : request[r].quantity[l] \in Nat
           /\ Purchased[l] \in Nat
           /\ claimed(l) \in Nat
<1>1. IsFiniteSet(Live) /\ IsFiniteSet(Requests) /\ Live \subseteq Requests /\ Purchased[l] \in Nat
  BY ReturnsAssumption, FS_Subset DEF Live, Requests
<1>2. ASSUME NEW r \in Requests
      PROVE  request[r].quantity[l] \in Nat
  BY QuantityType DEF Requests, ReturnsInv, Typed, RequestRow
<1> DEFINE f == [r \in Requests |-> request[r].quantity[l]]
<1>3. \A r \in Live : f[r] \in Nat
  BY <1>1, <1>2
<1>4. claimed(l) = SumFunctionOnSet(f, Live)
  BY DEF claimed
<1> HIDE DEF f
<1>5. SumFunctionOnSet(f, Live) \in Nat
  BY <1>1, <1>3, SumType
<1> QED BY <1>1, <1>2, <1>4, <1>5

ClaimsCounted == \A l \in Line : claimed(l) \in Nat

LEMMA ClaimsAreCounts == ReturnsInv => ClaimsCounted
BY ClaimsType DEF ClaimsCounted

LEMMA ClaimsInit == Init => ClaimsInv
<1> SUFFICES ASSUME Init
             PROVE  ClaimsInv
  OBVIOUS
<1>1. ReturnsInv
  BY InvInit
<1>2. Room
  BY DEF Init, Room
<1>3. ASSUME NEW l \in Line
      PROVE  claimed(l) <= Purchased[l]
  <2>1. Live = {}
    BY DEF Init, Live, Requests
  <2>2. claimed(l) = 0
    BY <2>1, SumUnfolds DEF claimed
  <2> QED BY <2>2, <1>1, ClaimsType
<1>4. OnTheShelf
  BY DEF Init, OnTheShelf, Nothing
<1> QED BY <1>1, <1>2, <1>3, <1>4 DEF ClaimsInv, ClaimsWithinPurchase

\* Handlers go on, and requests and shelves stay as they are.
LEMMA ClaimsStay ==
    ASSUME ClaimsInv, UNCHANGED <<request, movements>>, raced => raced',
           \A w \in Worker :
               pc'[w] \in {"numbering", "creating"} =>
                      \/ pc[w] \in {"numbering", "creating"} /\ job'[w].quantity = job[w].quantity
                      \/ \A l \in Line : claimed(l) + job'[w].quantity[l] <= Purchased[l]
    PROVE  ClaimsWithinPurchase' /\ Room' /\ OnTheShelf'
<1>1. \A l : claimed(l)' = claimed(l)
  BY DEF claimed, Live, Requests
<1>2. ClaimsWithinPurchase'
  BY <1>1 DEF ClaimsInv, ClaimsWithinPurchase
<1>3. Room'
  BY <1>1 DEF ClaimsInv, Room
<1>4. OnTheShelf'
  BY DEF ClaimsInv, OnTheShelf
<1> QED BY <1>2, <1>3, <1>4

LEMMA ClaimsGoOn ==
    ASSUME ClaimsInv, NEW w \in Worker, NEW where, NEW j, Goto(w, where, j),
           UNCHANGED <<request, movements>>, raced => raced',
           where \in {"numbering", "creating"} =>
               \/ pc[w] \in {"numbering", "creating"} /\ j.quantity = job[w].quantity
               \/ \A l \in Line : claimed(l) + j.quantity[l] <= Purchased[l]
    PROVE  ClaimsWithinPurchase' /\ Room' /\ OnTheShelf'
<1>1. /\ pc'[w] = where /\ job'[w] = j
      /\ \A v \in Worker \ {w} : pc'[v] = pc[v] /\ job'[v] = job[v]
  BY DEF Goto, ClaimsInv, ReturnsInv, Typed
<1> QED BY <1>1, ClaimsStay

LEMMA BeginClaims ==
    ASSUME ClaimsInv, NEW w \in Worker, Begin(w)
    PROVE  ClaimsWithinPurchase' /\ Room' /\ OnTheShelf'
<1>1. CASE \E quantity \in Quantities : CreateRead(w, quantity)
  <2> PICK quantity \in Quantities : CreateRead(w, quantity)
    BY <1>1
  <2> DEFINE j == [NoJob EXCEPT !.quantity = quantity]
  <2>1. j.quantity = quantity
    BY DEF NoJob
  <2>2. Goto(w, "numbering", j) /\ UNCHANGED <<request, movements, raced>>
    BY DEF CreateRead, dbVars
  <2> HIDE DEF j
  <2>3. CASE ~raced
    <3>1. ASSUME NEW l \in Line
          PROVE  claimed(l) + quantity[l] <= Purchased[l]
      <4>1. /\ quantity[l] \in Nat /\ claimed(l) \in Nat /\ Purchased[l] \in Nat
            /\ claimed(l) <= Purchased[l]
        BY <2>3, QuantityType, ClaimsType DEF ClaimsInv, ClaimsWithinPurchase
      <4>2. quantity[l] <= Max({0, Purchased[l] - claimed(l)})
        BY DEF CreateRead, returnable
      <4>3. Max({0, Purchased[l] - claimed(l)}) \in {0, Purchased[l] - claimed(l)}
        <5>1. 0 \in Int /\ Purchased[l] - claimed(l) \in Int
          BY <4>1
        <5> QED BY <5>1, MaxOfTwo
      <4> QED BY <4>1, <4>2, <4>3
    <3> QED BY <2>1, <2>2, <3>1, ClaimsGoOn
  <2>4. CASE raced
    BY <2>2, <2>4 DEF ClaimsWithinPurchase, Room, OnTheShelf
  <2> QED BY <2>3, <2>4
<1>2. CASE \E r \in Requests : WithdrawRead(w, r)
  BY <1>2, ClaimsGoOn DEF WithdrawRead, dbVars
<1>3. CASE \E r \in Requests, next \in ReturnStatus :
              \E decided \in (IF next \in Decided THEN SUBSET LinesOf(r) ELSE {{}}) :
                  \E keep \in SUBSET decided : StaffRead(w, r, next, decided, keep)
  BY <1>3, ClaimsGoOn DEF StaffRead, Transition, dbVars
<1> QED BY <1>1, <1>2, <1>3 DEF Begin

\* A new request claims what its handler found room for, and only its own.
LEMMA CreateClaims ==
    ASSUME ClaimsInv, ReturnsInv', NEW w \in Worker, NEW r \in Request, CreateCommit(w, r)
    PROVE  ClaimsWithinPurchase' /\ Room' /\ OnTheShelf'
<1>1. CASE UNCHANGED <<request, raced>>
  BY <1>1, ClaimsGoOn DEF CreateCommit
<1>2. CASE /\ request' = [request EXCEPT ![r] = [status   |-> "REQUESTED",
                                                  number   |-> job[w].number,
                                                  quantity |-> job[w].quantity]]
           /\ raced' = (raced \/ \E v \in Worker \ {w} : pc[v] \in {"numbering", "creating"})
  <2> SUFFICES ASSUME ~raced'
               PROVE  ClaimsWithinPurchase' /\ Room' /\ OnTheShelf'
    BY DEF ClaimsWithinPurchase, Room, OnTheShelf
  <2> DEFINE new == [status |-> "REQUESTED", number |-> job[w].number, quantity |-> job[w].quantity]
  <2>1. /\ ~raced /\ pc[w] = "creating" /\ request[r] = NoRequest /\ movements' = movements
        /\ \A v \in Worker \ {w} : pc[v] \notin {"numbering", "creating"}
    BY <1>2 DEF CreateCommit
  <2>2. pc'[w] = "idle" /\ \A v \in Worker \ {w} : pc'[v] = pc[v]
    BY DEF CreateCommit, Goto, ClaimsInv, ReturnsInv, Typed
  <2>3. Room'
    BY <2>1, <2>2 DEF Room
  <2>4. new.status = "REQUESTED" /\ new.quantity = job[w].quantity /\ new # NoRequest
    BY DEF NoRequest
  <2>5. request' = [request EXCEPT ![r] = new]
    BY <1>2
  <2> HIDE DEF new
  <2>6. request'[r] = new /\ \A q \in Request \ {r} : request'[q] = request[q]
    BY <2>5 DEF ClaimsInv, ReturnsInv, Typed
  <2>7. OnTheShelf'
    <3>1. \A l \in Line : movements[r][l] = 0
      <4>1. request[r].status \notin {"INSPECTED", "COMPLETED", "REJECTED"}
        BY <2>1 DEF NoRequest
      <4> QED BY <2>1, <4>1 DEF ClaimsInv, OnTheShelf
    <3> QED BY <2>1, <2>6, <3>1 DEF ClaimsInv, OnTheShelf
  <2>8. /\ Requests' = Requests \cup {r} /\ Live' = Live \cup {r}
        /\ r \notin Live /\ r \notin Requests /\ Live \subseteq Requests
    <3>1. \A q : q \in Requests' <=> q \in Requests \cup {r}
      BY <2>1, <2>4, <2>6 DEF Requests
    <3>2. \A q : q \in Live' <=> q \in Live \cup {r}
      BY <2>4, <2>6, <3>1 DEF Live, Requests
    <3> QED BY <2>1, <3>1, <3>2 DEF Live, Requests
  <2>9. ASSUME NEW l \in Line
        PROVE  claimed(l)' <= Purchased[l]
    <3> DEFINE f == [q \in Requests |-> request[q].quantity[l]]
               g == [q \in Requests' |-> request'[q].quantity[l]]
    <3>1. claimed(l) = SumFunctionOnSet(f, Live) /\ claimed(l)' = SumFunctionOnSet(g, Live')
      BY DEF claimed
    <3>2. /\ \A q \in Live : g[q] = f[q]
          /\ g[r] = job[w].quantity[l]
          /\ \A q \in Live' : g[q] \in Int
      <4>1. \A q \in Requests' : request'[q].quantity[l] \in Nat
        BY QuantityType DEF Requests, ReturnsInv, Typed, RequestRow
      <4>2. \A q \in Live : q \in Requests /\ q \in Requests' /\ request'[q] = request[q]
        BY <2>6, <2>8 DEF Requests
      <4> QED BY <2>4, <2>6, <2>8, <4>1, <4>2
    <3> HIDE DEF f, g
    <3>3. IsFiniteSet(Live)
      BY ClaimsType DEF ClaimsInv
    <3>4. SumFunctionOnSet(g, Live \cup {r}) = SumFunctionOnSet(g, Live) + g[r]
      <4>1. \A q \in Live \cup {r} : g[q] \in Int
        BY <3>2, <2>8
      <4> QED BY <4>1, <3>3, <2>8, SumGrows
    <3>5. SumFunctionOnSet(g, Live) = SumFunctionOnSet(f, Live)
      BY <3>2, <3>3, SumSame
    <3>6. claimed(l)' = claimed(l) + job[w].quantity[l]
      BY <3>1, <3>2, <3>4, <3>5, <2>8
    <3> QED BY <3>6, <2>1 DEF ClaimsInv, Room
  <2> QED BY <2>3, <2>7, <2>9 DEF ClaimsWithinPurchase
<1> QED BY <1>1, <1>2 DEF CreateCommit

\* A transition only gives claims up, and puts goods back where they are kept.
LEMMA CommitClaims ==
    ASSUME ClaimsInv, ReturnsInv', NEW w \in Worker, TransitionCommit(w)
    PROVE  ClaimsWithinPurchase' /\ Room' /\ OnTheShelf'
<1> SUFFICES ASSUME ~raced'
             PROVE  ClaimsWithinPurchase' /\ Room' /\ OnTheShelf'
  BY DEF ClaimsWithinPurchase, Room, OnTheShelf
<1> DEFINE r == job[w].request
           new == [request[r] EXCEPT !.status = job[w].next]
<1>1. /\ ~raced /\ Typed /\ pc[w] = "restocking" /\ Knows(pc[w], job[w])
      /\ Fresh(pc[w], job[w]) /\ Due(pc[w], job[w])
  BY DEF TransitionCommit, ClaimsInv, ReturnsInv, Ready
<1>2. /\ r \in Request /\ request[r] \in RequestRow /\ job[w].next \in ReturnStatus
      /\ job[w].next \in ALLOWED[request[r].status]
      /\ job[w].put # {} => job[w].next \in {"INSPECTED", "COMPLETED"}
  BY <1>1 DEF Knows, Fresh, Due, Changing, Requests, Typed, Restocks
<1>3. /\ new \in RequestRow /\ new.status = job[w].next /\ new.quantity = request[r].quantity
      /\ new # NoRequest /\ request[r] # NoRequest /\ request[r].status \in ReturnStatus
  BY <1>2, StatusOrNone
<1>4. /\ request[r].status \notin {"REJECTED", "CANCELLED", "COMPLETED"}
      /\ request[r].status = "INSPECTED" => job[w].next \in {"COMPLETED", "REJECTED"}
  BY <1>2, <1>3 DEF ALLOWED, ReturnStatus
<1>5. /\ request' = [request EXCEPT ![r] = new]
      /\ movements' = [movements EXCEPT ![r] =
                          [l \in Line |-> IF l \in job[w].put THEN @[l] + 1 ELSE @[l]]]
      /\ Goto(w, "idle", NoJob)
  BY <1>1 DEF TransitionCommit, Typed
<1> HIDE DEF new, r
<1>6. /\ request'[r] = new /\ \A q \in Request \ {r} : request'[q] = request[q]
      /\ \A q \in Request \ {r} : movements'[q] = movements[q]
      /\ \A l \in Line : l \notin job[w].put => movements'[r][l] = movements[r][l]
  BY <1>1, <1>2, <1>5 DEF Typed
<1>7. /\ pc'[w] = "idle" /\ \A v \in Worker \ {w} : pc'[v] = pc[v] /\ job'[v] = job[v]
  BY <1>1, <1>5 DEF Goto, Typed
<1>8. OnTheShelf'
  <2> SUFFICES ASSUME NEW q \in Request, NEW l \in Line, movements'[q][l] # 0
               PROVE  request'[q].status \in {"INSPECTED", "COMPLETED", "REJECTED"}
    BY DEF OnTheShelf
  <2>1. CASE q # r
    BY <2>1, <1>1, <1>6 DEF ClaimsInv, OnTheShelf
  <2>2. CASE q = r /\ l \in job[w].put
    BY <2>2, <1>2, <1>3, <1>6
  <2>3. CASE q = r /\ l \notin job[w].put
    <3>1. request[r].status \in {"INSPECTED", "COMPLETED", "REJECTED"}
      BY <2>3, <1>1, <1>2, <1>6 DEF ClaimsInv, OnTheShelf
    <3> QED BY <2>3, <3>1, <1>3, <1>4, <1>6
  <2> QED BY <2>1, <2>2, <2>3
<1>9. Live' \subseteq Live /\ Requests' = Requests /\ r \in Live
  BY <1>2, <1>3, <1>4, <1>6 DEF Live, Requests
<1>10. ASSUME NEW l \in Line
       PROVE  claimed(l)' <= claimed(l)
  <2> DEFINE f == [q \in Requests |-> request[q].quantity[l]]
             g == [q \in Requests' |-> request'[q].quantity[l]]
  <2>1. claimed(l) = SumFunctionOnSet(f, Live) /\ claimed(l)' = SumFunctionOnSet(g, Live')
    BY DEF claimed
  <2>2. IsFiniteSet(Live) /\ IsFiniteSet(Live') /\ \A q \in Requests : f[q] \in Nat
    BY <1>9, ClaimsType, FS_Subset DEF ClaimsInv
  <2>3. \A q \in Live' : g[q] = f[q]
    BY <1>3, <1>6, <1>9 DEF Live, Requests
  <2>4. \A q \in Live : f[q] \in Nat
    BY <2>2 DEF Live
  <2> HIDE DEF f, g
  <2>5. SumFunctionOnSet(g, Live') = SumFunctionOnSet(f, Live')
    BY <2>2, <2>3, SumSame
  <2>6. SumFunctionOnSet(f, Live') <= SumFunctionOnSet(f, Live)
    BY <2>2, <2>4, <1>9, SumOfPart
  <2> QED BY <2>1, <2>5, <2>6
<1>11. ASSUME NEW l \in Line
       PROVE  claimed(l)' \in Int /\ claimed(l) \in Int /\ Purchased[l] \in Int
  <2>1. claimed(l)' \in Nat
    <3>1. ClaimsCounted'
      BY ClaimsAreCounts, PTL
    <3> QED BY <3>1 DEF ClaimsCounted
  <2> QED BY <2>1, ClaimsType DEF ClaimsInv
<1>12. ClaimsWithinPurchase'
  <2>1. ASSUME NEW l \in Line
        PROVE  claimed(l)' <= Purchased[l]
    <3>1. claimed(l) <= Purchased[l]
      BY <1>1 DEF ClaimsInv, ClaimsWithinPurchase
    <3> QED BY <3>1, <1>10, <1>11
  <2> QED BY <2>1 DEF ClaimsWithinPurchase
<1>13. Room'
  <2> SUFFICES ASSUME NEW v \in Worker, pc'[v] \in {"numbering", "creating"}, NEW l \in Line
               PROVE  claimed(l)' + job'[v].quantity[l] <= Purchased[l]
    BY DEF Room
  <2>1. v # w /\ pc'[v] = pc[v] /\ job'[v] = job[v]
    BY <1>7
  <2>2. claimed(l) + job[v].quantity[l] <= Purchased[l]
    BY <2>1, <1>1 DEF ClaimsInv, Room
  <2>3. job[v].quantity[l] \in Nat
    BY <1>1, QuantityType DEF Typed, ReturnJob
  <2> QED BY <2>1, <2>2, <2>3, <1>10, <1>11
<1> QED BY <1>8, <1>12, <1>13

LEMMA ClaimsStep == ClaimsInv /\ [Next]_vars => ClaimsInv'
<1> SUFFICES ASSUME ClaimsInv, [Next]_vars
             PROVE  ClaimsInv'
  OBVIOUS
<1>1. ReturnsInv'
  BY InvStep DEF ClaimsInv
<1>2. CASE \E w \in Worker : Begin(w)
  BY <1>1, <1>2, BeginClaims DEF ClaimsInv
<1>3. CASE \E w \in Worker : Step(w)
  <2> PICK w \in Worker : Step(w)
    BY <1>3
  <2>1. CASE nextReturnNumber(w)
    <3> DEFINE j == [job[w] EXCEPT !.number = Cardinality(Requests) + 1]
    <3>1. j.quantity = job[w].quantity
      BY DEF ClaimsInv, ReturnsInv, Typed, ReturnJob
    <3>2. pc[w] = "numbering" /\ Goto(w, "creating", j) /\ UNCHANGED <<request, movements, raced>>
      BY <2>1 DEF nextReturnNumber, dbVars
    <3> HIDE DEF j
    <3> QED BY <1>1, <3>1, <3>2, ClaimsGoOn DEF ClaimsInv
  <2>2. CASE \E r \in Request : CreateCommit(w, r)
    BY <1>1, <2>2, CreateClaims DEF ClaimsInv
  <2>3. CASE TransitionCommit(w)
    BY <1>1, <2>3, CommitClaims DEF ClaimsInv
  <2>4. CASE Withdraw(w)
    BY <1>1, <2>4, ClaimsGoOn DEF Withdraw, Transition, dbVars, ClaimsInv
  <2>5. CASE Mark(w)
    BY <1>1, <2>5, ClaimsGoOn DEF Mark, dbVars, ClaimsInv
  <2>6. CASE Look(w)
    BY <1>1, <2>6, ClaimsGoOn DEF Look, dbVars, ClaimsInv
  <2> QED BY <2>1, <2>2, <2>3, <2>4, <2>5, <2>6 DEF Step
<1>4. CASE \E w \in Worker : Fail(w)
  BY <1>1, <1>4, ClaimsGoOn DEF Fail, dbVars, ClaimsInv
<1>5. CASE WindowCloses \/ UNCHANGED vars
  BY <1>1, <1>5, ClaimsStay DEF WindowCloses, vars, dbVars, ClaimsInv
<1> QED BY <1>2, <1>3, <1>4, <1>5 DEF Next

\* What is back on the shelf is claimed.
LEMMA BackIsClaimed == ClaimsInv => RestockedWithinPurchase
<1> SUFFICES ASSUME ClaimsInv, ~raced, NEW l \in Line,
                    ~\E r \in Requests : request[r].status = "REJECTED" /\ movements[r] # Nothing
             PROVE  SumFunction([r \in Requests |-> movements[r][l] * request[r].quantity[l]])
                        <= Purchased[l]
  BY DEF RestockedWithinPurchase
<1> DEFINE f == [r \in Requests |-> request[r].quantity[l]]
           g == [r \in Requests |-> movements[r][l] * request[r].quantity[l]]
<1>1. /\ IsFiniteSet(Live) /\ IsFiniteSet(Requests) /\ Live \subseteq Requests
      /\ Requests \subseteq Request /\ \A r \in Requests : f[r] \in Nat
  BY ClaimsType DEF ClaimsInv, Live, Requests
<1>2. \A r \in Requests : movements[r][l] \in {0, 1}
  <2>1. movements \in [Request -> [Line -> Nat]] /\ \A r \in Request : movements[r][l] <= 1
    BY DEF ClaimsInv, ReturnsInv, Typed, RestockedOnce
  <2> HIDE DEF f, g
  <2> QED BY <1>1, <2>1
<1>3. ASSUME NEW r \in Requests
      PROVE  g[r] \in Int /\ f[r] \in Int /\ g[r] <= f[r] /\ (r \notin Live => g[r] = 0)
  <2>1. CASE movements[r][l] = 0
    <3>1. g[r] = 0
      BY <2>1, <1>1
    <3> QED BY <3>1, <1>1
  <2>2. CASE movements[r][l] = 1
    <3>1. g[r] = f[r]
      BY <2>2, <1>1
    <3>2. request[r].status \in {"INSPECTED", "COMPLETED", "REJECTED"}
      BY <2>2, <1>1 DEF ClaimsInv, OnTheShelf
    <3>3. movements[r] # Nothing
      BY <2>2 DEF Nothing
    <3>4. r \in Live
      BY <3>2, <3>3 DEF Live
    <3> QED BY <3>1, <3>4, <1>1
  <2> QED BY <1>2, <2>1, <2>2
<1>4. DOMAIN g = Requests
  OBVIOUS
<1>5. SumFunctionOnSet(f, Live) <= Purchased[l]
  BY DEF ClaimsInv, ClaimsWithinPurchase, claimed
<1> HIDE DEF f, g
<1>6. SumFunctionOnSet(g, Requests) = SumFunctionOnSet(g, Live)
  BY <1>1, <1>3, SumDropsZeros
<1>7. SumFunctionOnSet(g, Live) <= SumFunctionOnSet(f, Live)
  BY <1>1, <1>3, SumMonotone
<1>8. SumFunctionOnSet(g, Live) \in Int /\ SumFunctionOnSet(f, Live) \in Int /\ Purchased[l] \in Int
  BY <1>1, <1>3, SumType, ReturnsAssumption
<1>9. SumFunction(g) <= Purchased[l]
  BY <1>4, <1>5, <1>6, <1>7, <1>8 DEF SumFunction
<1> QED BY <1>9 DEF g

\* "A customer can never ask to return more than they bought, counting returns
\* already in flight" (returnableItems, createReturnRequest), and no more comes
\* back on the shelf than was bought (transitionReturn), short of a race.
THEOREM ReturnsAlwaysStand == Spec => []ReturnsStand
<1>1. ClaimsInv => ReturnsStand
  <2> SUFFICES ASSUME ClaimsInv
               PROVE  ReturnsStand
    OBVIOUS
  <2>1. TypeOK
    BY QuantityType DEF ClaimsInv, ReturnsInv, Typed, TypeOK, Knows, Changing, RequestRow, ReturnJob, ReturnPlaces
  <2> QED BY <2>1, BackIsClaimed DEF ClaimsInv, ReturnsInv, ReturnsStand
<1> QED
  BY <1>1, ClaimsInit, ClaimsStep, PTL DEF Spec

-----------------------------------------------------------------------------
(* Refunds: type correctness *)

CallPlaces == {"idle", "inserting", "deferring", "calling", "recording", "failing"}

\* The statements a call runs with its row in hand.
Holding == {"deferring", "calling", "recording", "failing"}

DatabaseTyped ==
    /\ captured \in BOOLEAN
    /\ reference \in BOOLEAN
    /\ row \in [Refund -> Row \cup {NoRow}]
    /\ gateway \in [Refund -> Answer \cup {"none"}]
    /\ overlapped \in BOOLEAN
    /\ mishaps \in 0 .. MaxMishaps

CallsTyped == pc \in [Admin -> CallPlaces] /\ job \in [Admin -> CallState]

\* A call past its check knows its amount, its row, its answer.
CallsKnow ==
    \A a \in Admin :
        /\ pc[a] = "inserting" => job[a].amount \in Amounts
        /\ pc[a] \in Holding => job[a].refund \in Refund /\ row[job[a].refund] # NoRow
        /\ pc[a] = "recording" => job[a].answer \in Answer

LEMMA TypeParts == RefundsTypeOK <=> DatabaseTyped /\ CallsTyped /\ CallsKnow
BY DEF RefundsTypeOK, DatabaseTyped, CallsTyped, CallsKnow, CallPlaces, Holding, Rows

LEMMA NoCallIsACall == NoCall \in CallState
BY DEF NoCall, CallState

LEMMA RowOrNone ==
    /\ NoRow.status = "NO_ROW"
    /\ \A r \in Row : r.status \in RefundStatus /\ r # NoRow
    /\ \A r \in Row, s \in RefundStatus :
          [r EXCEPT !.status = s] \in Row /\ [r EXCEPT !.status = s].status = s
BY DEF Row, NoRow, RefundStatus

\* Writing a status keeps every row a row.
LEMMA WriteRows ==
    ASSUME DatabaseTyped, NEW r \in Refund, row[r] # NoRow, NEW s \in RefundStatus, Write(r, s)
    PROVE  /\ row' \in [Refund -> Row \cup {NoRow}]
           /\ \A q \in Refund : row'[q] # NoRow <=> row[q] # NoRow
           /\ row'[r].status = s
           /\ \A q \in Refund \ {r} : row'[q] = row[q]
<1>1. row[r] \in Row
  BY DEF DatabaseTyped
<1> DEFINE new == [row[r] EXCEPT !.status = s]
<1>2. new \in Row /\ new # NoRow /\ new.status = s
  BY <1>1, RowOrNone
<1>3. row' = [row EXCEPT ![r] = new]
  BY DEF Write
<1> HIDE DEF new
<1> QED
  BY <1>2, <1>3 DEF DatabaseTyped

\* A call goes on to `where` with j, and no row is lost.
LEMMA GotoTyped ==
    ASSUME RefundsTypeOK, NEW a \in Admin, NEW where \in CallPlaces, NEW j \in CallState, Goto(a, where, j),
           DatabaseTyped',
           \A r \in Refund : row[r] # NoRow => row'[r] # NoRow,
           where = "inserting" => j.amount \in Amounts,
           where \in Holding => j.refund \in Refund /\ row'[j.refund] # NoRow,
           where = "recording" => j.answer \in Answer
    PROVE  RefundsTypeOK'
<1>1. /\ pc' = [pc EXCEPT ![a] = where] /\ pc \in [Admin -> CallPlaces]
      /\ job' = [job EXCEPT ![a] = j] /\ job \in [Admin -> CallState]
      /\ CallsKnow
  BY TypeParts DEF Goto, CallsTyped
<1>2. CallsTyped'
  BY <1>1 DEF CallsTyped
<1>3. CallsKnow'
  BY <1>1 DEF CallsKnow
<1> QED
  BY <1>2, <1>3, TypeParts DEF RefundsTypeOK, DatabaseTyped, CallsTyped, CallsKnow, CallPlaces, Holding, Rows

\* What a step leaves alone stays typed.
LEMMA DatabaseKept ==
    ASSUME RefundsTypeOK, UNCHANGED <<captured, reference>>, overlapped' \in BOOLEAN, mishaps' \in 0 .. MaxMishaps,
           row' \in [Refund -> Row \cup {NoRow}],
           gateway' \in [Refund -> Answer \cup {"none"}]
    PROVE  DatabaseTyped'
BY TypeParts DEF DatabaseTyped

LEMMA MishapTyped ==
    ASSUME RefundsTypeOK, Mishap
    PROVE  mishaps' \in 0 .. MaxMishaps /\ mishaps' > 0
BY RefundsAssumption, TypeParts DEF Mishap, DatabaseTyped

LEMMA CheckTyped ==
    ASSUME RefundsTypeOK, NEW a \in Admin, NEW amount \in Amounts, Check(a, amount)
    PROVE  RefundsTypeOK'
<1> DEFINE j == [NoCall EXCEPT !.amount = amount]
<1>1. j \in CallState /\ j.amount = amount
  BY DEF NoCall, CallState
<1>2. Goto(a, "inserting", j) /\ UNCHANGED <<captured, reference, row, gateway, overlapped, mishaps>>
  BY DEF Check, refundsDbVars, paymentVars
<1>3. DatabaseTyped'
  BY <1>2, TypeParts DEF DatabaseTyped
<1> HIDE DEF j
<1> QED
  BY <1>1, <1>2, <1>3, GotoTyped DEF CallPlaces, Holding

LEMMA InsertTyped ==
    ASSUME RefundsTypeOK, NEW a \in Admin, NEW r \in Refund, Insert(a, r)
    PROVE  /\ RefundsTypeOK'
           /\ row[r] = NoRow /\ row'[r].status = "PENDING" /\ row'[r] # NoRow
           /\ \A q \in Refund \ {r} : row'[q] = row[q]
           /\ job'[a].refund = r /\ \A b \in Admin \ {a} : pc'[b] = pc[b] /\ job'[b] = job[b]
           /\ pc'[a] \in {"calling", "deferring"}
<1> DEFINE new   == [amount |-> job[a].amount, status |-> "PENDING"]
           where == IF reference THEN "calling" ELSE "deferring"
           j     == [job[a] EXCEPT !.refund = r]
<1>1. /\ pc[a] = "inserting" /\ row[r] = NoRow /\ row' = [row EXCEPT ![r] = new]
      /\ Goto(a, where, j)
      /\ UNCHANGED <<captured, reference, gateway, mishaps>>
  BY DEF Insert, paymentVars
<1>2. overlapped' \in BOOLEAN
  <2>1. overlapped' = (overlapped \/ \E b \in Admin \ {a} : pc[b] = "inserting")
    BY DEF Insert
  <2>2. overlapped \in BOOLEAN
    BY TypeParts, Zenon DEF DatabaseTyped
  <2> QED
    BY <2>1, <2>2, Zenon
<1>3. job[a].amount \in Amounts /\ job[a] \in CallState
  BY <1>1, TypeParts DEF CallsKnow, CallsTyped
<1>4. new \in Row /\ new.status = "PENDING" /\ new # NoRow
  BY <1>3 DEF Row, NoRow, RefundStatus
<1>5. j \in CallState /\ j.refund = r /\ j.answer = job[a].answer
  BY <1>3 DEF CallState
<1>6. where \in {"calling", "deferring"}
  OBVIOUS
<1> HIDE DEF new, j, where
<1>7. /\ row' \in [Refund -> Row \cup {NoRow}] /\ row'[r] = new
      /\ \A q \in Refund \ {r} : row'[q] = row[q]
  BY <1>1, <1>4, TypeParts DEF DatabaseTyped
<1>8. DatabaseTyped'
  BY <1>1, <1>2, <1>7, TypeParts, DatabaseKept DEF DatabaseTyped
<1>9. RefundsTypeOK'
  BY <1>1, <1>4, <1>5, <1>6, <1>7, <1>8, GotoTyped DEF CallPlaces, Holding
<1>10. /\ job'[a] = j /\ pc'[a] = where
       /\ \A b \in Admin \ {a} : pc'[b] = pc[b] /\ job'[b] = job[b]
  BY <1>1, TypeParts DEF Goto, CallsTyped
<1> QED
  BY <1>1, <1>4, <1>5, <1>6, <1>7, <1>9, <1>10

\* A call whose answer is written down, or which is refunded by hand, is over.
LEMMA EndTyped ==
    ASSUME RefundsTypeOK, NEW a \in Admin, pc[a] \in Holding, NEW s \in RefundStatus,
           Write(job[a].refund, s), Goto(a, "idle", NoCall),
           UNCHANGED <<captured, reference, gateway, overlapped, mishaps>>
    PROVE  RefundsTypeOK'
<1>1. job[a].refund \in Refund /\ row[job[a].refund] # NoRow /\ DatabaseTyped
  BY TypeParts DEF CallsKnow
<1>2. /\ row' \in [Refund -> Row \cup {NoRow}]
      /\ \A q \in Refund : row'[q] # NoRow <=> row[q] # NoRow
  BY <1>1, WriteRows
<1>3. DatabaseTyped'
  BY <1>1, <1>2, DatabaseKept DEF DatabaseTyped
<1> QED
  BY <1>2, <1>3, NoCallIsACall, GotoTyped DEF CallPlaces, Holding

LEMMA CallTyped ==
    ASSUME RefundsTypeOK, NEW a \in Admin, NEW answer \in Answer, Call(a, answer)
    PROVE  RefundsTypeOK'
<1> DEFINE j == [job[a] EXCEPT !.answer = answer]
<1>1. /\ pc[a] = "calling" /\ Goto(a, "recording", j)
      /\ gateway' = [gateway EXCEPT ![job[a].refund] = answer]
      /\ UNCHANGED <<captured, reference, row, overlapped, mishaps>>
  BY DEF Call, refundsDbVars, paymentVars
<1>2. job[a] \in CallState /\ job[a].refund \in Refund /\ row[job[a].refund] # NoRow
  BY <1>1, TypeParts DEF CallsKnow, CallsTyped, Holding
<1>3. j \in CallState /\ j.answer = answer /\ j.refund = job[a].refund
  BY <1>2 DEF CallState
<1>4. DatabaseTyped'
  BY <1>1, <1>2, TypeParts DEF DatabaseTyped
<1> HIDE DEF j
<1> QED
  BY <1>1, <1>2, <1>3, <1>4, GotoTyped DEF CallPlaces, Holding

LEMMA MishapStepTyped ==
    ASSUME RefundsTypeOK, (\E a \in Admin : CallThrows(a) \/ DatabaseError(a)) \/ Crash
    PROVE  RefundsTypeOK'
<1>1. ASSUME NEW a \in Admin, CallThrows(a)
      PROVE  RefundsTypeOK'
  <2>1. /\ pc[a] = "calling" /\ Goto(a, "failing", job[a]) /\ Mishap
        /\ UNCHANGED <<captured, reference, row, overlapped>>
    BY <1>1 DEF CallThrows, refundsDbVars, paymentVars
  <2>2. job[a] \in CallState /\ job[a].refund \in Refund /\ row[job[a].refund] # NoRow
    BY <2>1, TypeParts DEF CallsKnow, CallsTyped, Holding
  <2>3. gateway' \in [Refund -> Answer \cup {"none"}]
    BY <1>1, TypeParts DEF CallThrows, DatabaseTyped
  <2>4. DatabaseTyped'
    BY <2>1, <2>3, MishapTyped, TypeParts DEF DatabaseTyped
  <2> QED
    BY <2>1, <2>2, <2>4, GotoTyped DEF CallPlaces, Holding
<1>2. ASSUME NEW a \in Admin, DatabaseError(a)
      PROVE  RefundsTypeOK'
  <2>1. Mishap /\ UNCHANGED <<captured, reference, row, gateway, overlapped>>
    BY <1>2 DEF DatabaseError, refundsDbVars, paymentVars
  <2>2. DatabaseTyped'
    BY <2>1, MishapTyped, TypeParts DEF DatabaseTyped
  <2>3. CASE pc[a] = "recording" /\ Goto(a, "failing", job[a])
    <3>1. job[a] \in CallState /\ job[a].refund \in Refund /\ row[job[a].refund] # NoRow
      BY <2>3, TypeParts DEF CallsKnow, CallsTyped, Holding
    <3> QED
      BY <2>1, <2>2, <2>3, <3>1, GotoTyped DEF CallPlaces, Holding
  <2>4. CASE Goto(a, "idle", NoCall)
    BY <2>1, <2>2, <2>4, NoCallIsACall, GotoTyped DEF CallPlaces, Holding
  <2> QED
    BY <1>2, <2>3, <2>4 DEF DatabaseError
<1>3. CASE Crash
  <2>1. /\ pc' = [a \in Admin |-> "idle"] /\ job' = [a \in Admin |-> NoCall] /\ Mishap
        /\ UNCHANGED <<captured, reference, row, gateway, overlapped>>
    BY <1>3 DEF Crash, refundsDbVars, paymentVars
  <2>2. DatabaseTyped'
    BY <2>1, MishapTyped, TypeParts DEF DatabaseTyped
  <2>3. CallsTyped' /\ CallsKnow'
    BY <2>1, NoCallIsACall DEF CallsTyped, CallsKnow, CallPlaces, Holding
  <2> QED
    BY <2>2, <2>3 DEF RefundsTypeOK, DatabaseTyped, CallsTyped, CallsKnow, CallPlaces, Holding, Rows
<1> QED
  BY <1>1, <1>2, <1>3

LEMMA StepTyped == RefundsTypeOK /\ [RefundsNext]_refundsVars => RefundsTypeOK'
<1> SUFFICES ASSUME RefundsTypeOK, [RefundsNext]_refundsVars
             PROVE  RefundsTypeOK'
  OBVIOUS
<1>1. ASSUME NEW a \in Admin, RefundStep(a)
      PROVE  RefundsTypeOK'
  <2>1. Defer(a) => RefundsTypeOK'
    BY EndTyped DEF Defer, paymentVars, Holding, RefundStatus
  <2>2. Record(a) => RefundsTypeOK'
    <3> DEFINE s == CASE job[a].answer = "processed" -> "COMPLETED"
                      [] job[a].answer = "failed"    -> "FAILED"
                      [] OTHER                       -> "PROCESSING"
    <3>1. s \in RefundStatus
      BY DEF RefundStatus
    <3> SUFFICES ASSUME Record(a)
                 PROVE  RefundsTypeOK'
      OBVIOUS
    <3>2. /\ pc[a] \in Holding /\ Write(job[a].refund, s) /\ Goto(a, "idle", NoCall)
          /\ UNCHANGED <<captured, reference, gateway, overlapped, mishaps>>
      BY DEF Record, paymentVars, Holding
    <3> HIDE DEF s
    <3> QED
      BY <3>1, <3>2, EndTyped
  <2>3. RecordFailed(a) => RefundsTypeOK'
    BY EndTyped DEF RecordFailed, paymentVars, Holding, RefundStatus
  <2> QED
    BY <1>1, <2>1, <2>2, <2>3, InsertTyped, CallTyped DEF RefundStep
<1>2. ASSUME NEW r \in Refund, NEW answer \in Answer, Settle(r, answer)
      PROVE  RefundsTypeOK'
  <2>1. DatabaseTyped' /\ UNCHANGED <<row, pc, job>>
    BY <1>2, TypeParts DEF Settle, DatabaseTyped, refundsDbVars, paymentVars
  <2> QED
    BY <2>1, TypeParts DEF RefundsTypeOK, DatabaseTyped, CallsTyped, CallsKnow, CallPlaces, Holding, Rows
<1>3. CASE PaymentRewritten \/ UNCHANGED refundsVars
  <2>1. UNCHANGED <<reference, row, gateway, pc, job, overlapped, mishaps>>
    BY <1>3 DEF PaymentRewritten, refundsVars
  <2>2. captured' \in BOOLEAN
    <3>1. captured' = captured \/ captured' = ~captured
      BY <1>3, Zenon DEF PaymentRewritten, refundsVars
    <3>2. captured \in BOOLEAN
      BY TypeParts, Zenon DEF DatabaseTyped
    <3> QED
      BY <3>1, <3>2, Zenon
  <2>3. DatabaseTyped'
    BY <2>1, <2>2, TypeParts DEF DatabaseTyped
  <2> QED
    BY <2>1, <2>3, TypeParts DEF RefundsTypeOK, DatabaseTyped, CallsTyped, CallsKnow, CallPlaces, Holding, Rows
<1> QED
  BY <1>1, <1>2, <1>3, CheckTyped, MishapStepTyped DEF RefundsNext

LEMMA InitTyped == RefundsInit => RefundsTypeOK
<1> SUFFICES ASSUME RefundsInit
             PROVE  RefundsTypeOK
  OBVIOUS
<1>1. captured \in BOOLEAN /\ reference \in BOOLEAN /\ overlapped \in BOOLEAN
  BY Zenon DEF RefundsInit
<1>2. /\ row \in [Refund -> Row \cup {NoRow}] /\ gateway \in [Refund -> Answer \cup {"none"}]
      /\ mishaps \in 0 .. MaxMishaps
  BY RefundsAssumption DEF RefundsInit
<1>3. CallsTyped /\ CallsKnow
  BY NoCallIsACall DEF RefundsInit, CallsTyped, CallsKnow, CallPlaces, Holding
<1> QED
  BY <1>1, <1>2, <1>3, TypeParts DEF DatabaseTyped

\* Every reachable state is well typed, and a call past its insert has a row.
THEOREM RefundsTypeCorrect == RefundsSpec => []RefundsTypeOK
BY InitTyped, StepTyped, PTL DEF RefundsSpec

-----------------------------------------------------------------------------
(* Refunds: what the gateway was asked is on a row *)

\* A row in a call's hands is PENDING, and in no other call's hands.
InHand ==
    \A a \in Admin : pc[a] \in Holding => row[job[a].refund].status = "PENDING"

OneOwner ==
    \A a, b \in Admin :
        a # b /\ pc[a] \in Holding /\ pc[b] \in Holding => job[a].refund # job[b].refund

\* The gateway hears of a refund once, from the call that holds its row, and
\* what the call heard back is what the gateway did unless it still can change.
Asked ==
    \A a \in Admin :
        /\ pc[a] \in {"deferring", "calling"} => gateway[job[a].refund] = "none"
        /\ pc[a] = "recording" /\ job[a].answer \in {"processed", "failed"} =>
              gateway[job[a].refund] = job[a].answer
        /\ pc[a] = "failing" => mishaps > 0

OnRow == \A r \in Refund : gateway[r] # "none" => row[r] # NoRow

\* Short of a mishap, a refund is FAILED because the gateway said so.
FailedIsRefused ==
    \A r \in Refund : row[r].status = "FAILED" /\ mishaps = 0 => gateway[r] = "failed"

MoneyInv ==
    RefundsTypeOK /\ InHand /\ OneOwner /\ Asked /\ OnRow /\ FailedIsRefused /\ CompletedIsMoved

LEMMA GotoFacts ==
    ASSUME RefundsTypeOK, NEW a \in Admin, NEW where, NEW j, Goto(a, where, j)
    PROVE  /\ pc'[a] = where /\ job'[a] = j
           /\ \A b \in Admin \ {a} : pc'[b] = pc[b] /\ job'[b] = job[b]
BY TypeParts DEF Goto, CallsTyped

\* The row and the facts a call holds.
LEMMA HeldRow ==
    ASSUME MoneyInv, NEW a \in Admin, pc[a] \in Holding
    PROVE  /\ job[a].refund \in Refund /\ row[job[a].refund] # NoRow
           /\ row[job[a].refund].status = "PENDING"
BY TypeParts DEF MoneyInv, CallsKnow, InHand

LEMMA MoneyInit == RefundsInit => MoneyInv
<1> SUFFICES ASSUME RefundsInit
             PROVE  MoneyInv
  OBVIOUS
<1>1. /\ \A a \in Admin : pc[a] = "idle"
      /\ \A r \in Refund : row[r] = NoRow /\ gateway[r] = "none"
  BY DEF RefundsInit
<1>2. InHand /\ OneOwner /\ Asked /\ OnRow
  BY <1>1 DEF InHand, OneOwner, Asked, OnRow, Holding
<1>3. FailedIsRefused /\ CompletedIsMoved
  BY <1>1, RowOrNone DEF FailedIsRefused, CompletedIsMoved, Rows
<1> QED
  BY <1>2, <1>3, InitTyped DEF MoneyInv

LEMMA InsertMoney ==
    ASSUME MoneyInv, NEW a \in Admin, NEW r \in Refund, Insert(a, r)
    PROVE  MoneyInv'
<1>1. UNCHANGED <<gateway, mishaps>> /\ RefundsTypeOK
  BY DEF Insert, MoneyInv
<1>2. /\ RefundsTypeOK' /\ row[r] = NoRow /\ row'[r].status = "PENDING" /\ row'[r] # NoRow
      /\ \A q \in Refund \ {r} : row'[q] = row[q]
      /\ job'[a].refund = r /\ \A b \in Admin \ {a} : pc'[b] = pc[b] /\ job'[b] = job[b]
      /\ pc'[a] \in {"calling", "deferring"}
  BY <1>1, InsertTyped
<1>3. gateway[r] = "none"
  BY <1>2 DEF MoneyInv, OnRow
<1>4. \A b \in Admin \ {a} : pc[b] \in Holding => job[b].refund \in Refund \ {r}
  BY <1>2, HeldRow
<1>5. InHand'
  BY <1>2, <1>4 DEF MoneyInv, InHand
<1>6. OneOwner'
  BY <1>2, <1>4 DEF MoneyInv, OneOwner
<1>7. Asked'
  BY <1>1, <1>2, <1>3 DEF MoneyInv, Asked
<1>8. OnRow' /\ FailedIsRefused'
  BY <1>1, <1>2 DEF MoneyInv, OnRow, FailedIsRefused
<1>9. CompletedIsMoved'
  BY <1>1, <1>2 DEF MoneyInv, CompletedIsMoved, Rows
<1> QED
  BY <1>2, <1>5, <1>6, <1>7, <1>8, <1>9 DEF MoneyInv

\* A call ends with s on its row: sound when s is what the gateway did.
LEMMA EndMoney ==
    ASSUME MoneyInv, NEW a \in Admin, pc[a] \in Holding, NEW s \in RefundStatus,
           Write(job[a].refund, s), Goto(a, "idle", NoCall),
           UNCHANGED <<captured, reference, gateway, overlapped, mishaps>>,
           s = "COMPLETED" => gateway[job[a].refund] = "processed",
           s = "FAILED" => gateway[job[a].refund] = "failed" \/ mishaps > 0
    PROVE  MoneyInv'
<1> DEFINE mine == job[a].refund
<1>1. RefundsTypeOK /\ RefundsTypeOK' /\ DatabaseTyped
  BY EndTyped, TypeParts DEF MoneyInv
<1>2. mine \in Refund /\ row[mine] # NoRow
  BY HeldRow
<1>3. /\ row'[mine].status = s
      /\ \A q \in Refund : row'[q] # NoRow <=> row[q] # NoRow
      /\ \A q \in Refund \ {mine} : row'[q] = row[q]
  BY <1>1, <1>2, WriteRows
<1>4. /\ pc'[a] = "idle"
      /\ \A b \in Admin \ {a} : pc'[b] = pc[b] /\ job'[b] = job[b]
  BY <1>1, GotoFacts
<1>5. \A b \in Admin \ {a} : pc[b] \in Holding => job[b].refund \in Refund \ {mine}
  BY HeldRow DEF MoneyInv, OneOwner
<1> HIDE DEF mine
<1>6. InHand'
  BY <1>3, <1>4, <1>5 DEF MoneyInv, InHand, Holding
<1>7. OneOwner'
  BY <1>4 DEF MoneyInv, OneOwner, Holding
<1>8. Asked'
  BY <1>4 DEF MoneyInv, Asked
<1>9. OnRow'
  BY <1>3 DEF MoneyInv, OnRow
<1>10. FailedIsRefused'
  <2>1. mishaps \in Nat
    BY <1>1, RefundsAssumption DEF DatabaseTyped
  <2> QED
    BY <1>3, <2>1 DEF MoneyInv, FailedIsRefused, mine
<1>11. CompletedIsMoved'
  BY <1>3 DEF MoneyInv, CompletedIsMoved, Rows, mine
<1> QED
  BY <1>1, <1>6, <1>7, <1>8, <1>9, <1>10, <1>11 DEF MoneyInv

LEMMA RecordMoney ==
    ASSUME MoneyInv, NEW a \in Admin, Record(a)
    PROVE  MoneyInv'
<1> DEFINE s == CASE job[a].answer = "processed" -> "COMPLETED"
                  [] job[a].answer = "failed"    -> "FAILED"
                  [] OTHER                       -> "PROCESSING"
<1>1. pc[a] = "recording" /\ pc[a] \in Holding
  BY DEF Record, Holding
<1>2. /\ s \in RefundStatus
      /\ s = "COMPLETED" => job[a].answer = "processed"
      /\ s = "FAILED" => job[a].answer = "failed"
  BY DEF RefundStatus
<1>3. job[a].answer \in {"processed", "failed"} => gateway[job[a].refund] = job[a].answer
  BY <1>1 DEF MoneyInv, Asked
<1>4. /\ Write(job[a].refund, s) /\ Goto(a, "idle", NoCall)
      /\ UNCHANGED <<captured, reference, gateway, overlapped, mishaps>>
  BY DEF Record, paymentVars
<1> HIDE DEF s
<1>5. /\ s = "COMPLETED" => gateway[job[a].refund] = "processed"
      /\ s = "FAILED" => gateway[job[a].refund] = "failed" \/ mishaps > 0
  BY <1>2, <1>3
<1> QED
  BY <1>1, <1>2, <1>4, <1>5, EndMoney

\* The gateway makes something of the refund a call holds; the call goes on
\* with what it heard, or knowing that it heard nothing.
LEMMA AskMoney ==
    ASSUME MoneyInv, RefundsTypeOK', NEW a \in Admin, pc[a] = "calling",
           NEW answer, NEW where \in {"recording", "failing"}, NEW j,
           Goto(a, where, j), j.refund = job[a].refund,
           gateway' = [gateway EXCEPT ![job[a].refund] = answer],
           UNCHANGED row, mishaps' = 0 => mishaps = 0,
           mishaps > 0 => mishaps' > 0,
           where = "recording" => j.answer = answer,
           where = "failing" => mishaps' > 0
    PROVE  MoneyInv'
<1> DEFINE mine == job[a].refund
<1>1. pc[a] \in Holding /\ RefundsTypeOK
  BY DEF Holding, MoneyInv
<1>2. mine \in Refund /\ row[mine] # NoRow /\ row[mine].status = "PENDING"
  BY <1>1, HeldRow
<1>3. /\ pc'[a] = where /\ job'[a] = j
      /\ \A b \in Admin \ {a} : pc'[b] = pc[b] /\ job'[b] = job[b]
  BY <1>1, GotoFacts
<1>4. \A b \in Admin \ {a} : pc[b] \in Holding => job[b].refund \in Refund \ {mine}
  BY <1>1, HeldRow DEF MoneyInv, OneOwner
<1>5. gateway'[mine] = answer /\ \A q \in Refund \ {mine} : gateway'[q] = gateway[q]
  BY <1>1, <1>2, TypeParts DEF DatabaseTyped
<1>6. InHand'
  BY <1>2, <1>3 DEF MoneyInv, InHand, Holding
<1>7. OneOwner'
  BY <1>1, <1>3, <1>4 DEF MoneyInv, OneOwner
<1>8. Asked'
  BY <1>3, <1>4, <1>5 DEF MoneyInv, Asked, Holding
<1>9. OnRow'
  BY <1>2, <1>5 DEF MoneyInv, OnRow
<1>10. FailedIsRefused'
  BY <1>2, <1>5 DEF MoneyInv, FailedIsRefused
<1>11. CompletedIsMoved'
  BY <1>2, <1>5 DEF MoneyInv, CompletedIsMoved, Rows
<1> QED
  BY <1>6, <1>7, <1>8, <1>9, <1>10, <1>11 DEF MoneyInv

\* No row and nothing at the gateway changes, and a call only lets go of its
\* row, or fails for a mishap with it in hand.
LEMMA IdleMoney ==
    ASSUME MoneyInv, RefundsTypeOK', UNCHANGED <<row, gateway>>,
           mishaps' = 0 => mishaps = 0, mishaps > 0 => mishaps' > 0,
           \A a \in Admin :
              \/ pc'[a] = pc[a] /\ job'[a] = job[a]
              \/ pc'[a] \notin Holding
              \/ pc[a] \in Holding /\ pc'[a] = "failing" /\ job'[a] = job[a] /\ mishaps' > 0
    PROVE  MoneyInv'
<1>1. \A a \in Admin : pc'[a] \in Holding => pc[a] \in Holding /\ job'[a] = job[a]
  OBVIOUS
<1>2. InHand'
  BY <1>1 DEF MoneyInv, InHand
<1>3. OneOwner'
  BY <1>1 DEF MoneyInv, OneOwner
<1>4. Asked'
  BY DEF MoneyInv, Asked, Holding
<1>5. OnRow' /\ FailedIsRefused' /\ CompletedIsMoved'
  BY DEF MoneyInv, OnRow, FailedIsRefused, CompletedIsMoved, Rows
<1> QED
  BY <1>2, <1>3, <1>4, <1>5 DEF MoneyInv

LEMMA MishapMoney ==
    ASSUME MoneyInv, RefundsTypeOK', (\E a \in Admin : CallThrows(a) \/ DatabaseError(a)) \/ Crash
    PROVE  MoneyInv'
<1>1. RefundsTypeOK /\ Mishap
  BY DEF MoneyInv, CallThrows, DatabaseError, Crash
<1>2. mishaps' > 0 /\ ~(mishaps' = 0)
  BY <1>1, MishapTyped
<1>3. ASSUME NEW a \in Admin, CallThrows(a)
      PROVE  MoneyInv'
  <2>1. pc[a] = "calling" /\ Goto(a, "failing", job[a]) /\ UNCHANGED row
    BY <1>3 DEF CallThrows, refundsDbVars
  <2>2. /\ pc'[a] = "failing" /\ job'[a] = job[a]
        /\ \A b \in Admin \ {a} : pc'[b] = pc[b] /\ job'[b] = job[b]
    BY <1>1, <2>1, GotoFacts
  <2>3. CASE UNCHANGED gateway
    BY <1>2, <2>1, <2>2, <2>3, IdleMoney DEF Holding
  <2>4. ASSUME NEW answer \in Answer,
               gateway' = [gateway EXCEPT ![job[a].refund] = answer]
        PROVE  MoneyInv'
    BY <1>2, <2>1, <2>4, AskMoney
  <2> QED
    BY <1>3, <2>3, <2>4 DEF CallThrows
<1>4. ASSUME NEW a \in Admin, DatabaseError(a)
      PROVE  MoneyInv'
  <2>1. UNCHANGED <<row, gateway>>
    BY <1>4 DEF DatabaseError, refundsDbVars
  <2>2. \A b \in Admin \ {a} : pc'[b] = pc[b] /\ job'[b] = job[b]
    BY <1>1, <1>4, GotoFacts DEF DatabaseError
  <2>3. \/ pc'[a] = "idle"
        \/ pc[a] = "recording" /\ pc'[a] = "failing" /\ job'[a] = job[a]
    BY <1>1, <1>4, GotoFacts DEF DatabaseError
  <2> QED
    BY <1>2, <2>1, <2>2, <2>3, IdleMoney DEF Holding
<1>5. CASE Crash
  <2>1. UNCHANGED <<row, gateway>> /\ \A a \in Admin : pc'[a] = "idle"
    BY <1>5 DEF Crash, refundsDbVars
  <2> QED
    BY <1>2, <2>1, IdleMoney DEF Holding
<1> QED
  BY <1>3, <1>4, <1>5

LEMMA SettleMoney ==
    ASSUME MoneyInv, RefundsTypeOK', NEW r \in Refund, NEW answer \in Answer, Settle(r, answer)
    PROVE  MoneyInv'
<1>1. /\ gateway[r] = "pending" /\ gateway'[r] \in {"processed", "failed"}
      /\ \A q \in Refund \ {r} : gateway'[q] = gateway[q]
      /\ UNCHANGED <<row, pc, job, mishaps>>
  BY TypeParts DEF Settle, MoneyInv, DatabaseTyped, refundsDbVars
<1>2. \A a \in Admin : pc[a] \in Holding => job[a].refund \in Refund
  BY HeldRow
<1>3. InHand' /\ OneOwner'
  BY <1>1 DEF MoneyInv, InHand, OneOwner
<1>4. Asked'
  BY <1>1, <1>2 DEF MoneyInv, Asked, Holding
<1>5. OnRow' /\ FailedIsRefused'
  BY <1>1 DEF MoneyInv, OnRow, FailedIsRefused
<1>6. CompletedIsMoved'
  BY <1>1 DEF MoneyInv, CompletedIsMoved, Rows
<1> QED
  BY <1>3, <1>4, <1>5, <1>6 DEF MoneyInv

LEMMA MoneyStep == MoneyInv /\ [RefundsNext]_refundsVars => MoneyInv'
<1> SUFFICES ASSUME MoneyInv, [RefundsNext]_refundsVars
             PROVE  MoneyInv'
  OBVIOUS
<1>1. RefundsTypeOK /\ RefundsTypeOK'
  BY StepTyped DEF MoneyInv
<1>2. ASSUME NEW a \in Admin, RefundStep(a)
      PROVE  MoneyInv'
  <2>1. Defer(a) => MoneyInv'
    BY EndMoney DEF Defer, paymentVars, Holding, RefundStatus
  <2>2. ASSUME NEW answer \in Answer, Call(a, answer)
        PROVE  MoneyInv'
    <3> DEFINE j == [job[a] EXCEPT !.answer = answer]
    <3>1. /\ pc[a] = "calling" /\ Goto(a, "recording", j) /\ UNCHANGED <<row, mishaps>>
          /\ gateway' = [gateway EXCEPT ![job[a].refund] = answer]
      BY <2>2 DEF Call, refundsDbVars
    <3>2. j.refund = job[a].refund /\ j.answer = answer
      BY <1>1, TypeParts DEF CallsTyped, CallState
    <3> HIDE DEF j
    <3> QED
      BY <1>1, <3>1, <3>2, AskMoney
  <2>3. RecordFailed(a) => MoneyInv'
    <3> SUFFICES ASSUME RecordFailed(a)
                 PROVE  MoneyInv'
      OBVIOUS
    <3>1. mishaps > 0
      BY DEF RecordFailed, MoneyInv, Asked
    <3> QED
      BY <3>1, EndMoney DEF RecordFailed, paymentVars, Holding, RefundStatus
  <2> QED
    BY <1>2, <2>1, <2>2, <2>3, InsertMoney, RecordMoney DEF RefundStep
<1>3. ASSUME NEW a \in Admin, NEW amount \in Amounts, Check(a, amount)
      PROVE  MoneyInv'
  <2>1. UNCHANGED <<row, gateway, mishaps>>
    BY <1>3 DEF Check, refundsDbVars
  <2>2. pc'[a] = "inserting" /\ \A b \in Admin \ {a} : pc'[b] = pc[b] /\ job'[b] = job[b]
    BY <1>1, <1>3, GotoFacts DEF Check
  <2> QED
    BY <1>1, <2>1, <2>2, IdleMoney DEF Holding
<1>4. CASE PaymentRewritten \/ UNCHANGED refundsVars
  <2>1. UNCHANGED <<row, gateway, pc, job, mishaps>>
    BY <1>4 DEF PaymentRewritten, refundsVars
  <2> QED
    BY <1>1, <2>1, IdleMoney
<1> QED
  BY <1>1, <1>2, <1>3, <1>4, MishapMoney, SettleMoney DEF RefundsNext

LEMMA MoneyImplies == MoneyInv => MovedIsRecorded /\ CompletedIsMoved
<1> SUFFICES ASSUME MoneyInv
             PROVE  MovedIsRecorded
  BY DEF MoneyInv
<1>1. \A r \in Refund : row[r] # NoRow => row[r].status \in RefundStatus
  BY TypeParts, RowOrNone DEF MoneyInv, DatabaseTyped
<1> QED
  BY <1>1 DEF MoneyInv, OnRow, FailedIsRefused, MovedIsRecorded, Rows, COUNTED, RefundStatus

\* Money the gateway has moved is on a row, which short of a mishap counts
\* against the cap.
THEOREM MovedMoneyIsRecorded == RefundsSpec => []MovedIsRecorded
BY MoneyInit, MoneyStep, MoneyImplies, PTL DEF RefundsSpec

\* A refund reported COMPLETED is one the gateway has paid.
THEOREM CompletedMoneyIsMoved == RefundsSpec => []CompletedIsMoved
BY MoneyInit, MoneyStep, MoneyImplies, PTL DEF RefundsSpec

\* The refund rows tell what became of the money, however many calls overlap,
\* stop or are answered by nobody.
THEOREM MoneyIsAlwaysRecorded == RefundsSpec => []MoneyIsRecorded
<1>1. RefundsTypeOK /\ MovedIsRecorded /\ CompletedIsMoved => MoneyIsRecorded
  BY DEF MoneyIsRecorded
<1> QED
  BY <1>1, RefundsTypeCorrect, MovedMoneyIsRecorded, CompletedMoneyIsMoved, PTL

-----------------------------------------------------------------------------
(* Refunds: never more than was paid *)

Counted == {r \in Rows : row[r].status \in COUNTED}

\* What a call has checked is still there to refund.
RoomToRefund ==
    ~overlapped => \A a \in Admin : pc[a] = "inserting" => alreadyRefunded + job[a].amount <= Paid

CapInv == MoneyInv /\ IsFiniteSet(Rows) /\ CapHoldsUnraced /\ RoomToRefund

RefundedTyped ==
    /\ alreadyRefunded \in Nat
    /\ IsFiniteSet(Counted)
    /\ \A r \in Rows : row[r].amount \in Nat

LEMMA RefundedType == RefundsTypeOK /\ IsFiniteSet(Rows) => RefundedTyped
<1> SUFFICES ASSUME RefundsTypeOK, IsFiniteSet(Rows)
             PROVE  RefundedTyped
  OBVIOUS
<1>1. \A r \in Rows : row[r].amount \in Nat
  BY RefundsAssumption DEF RefundsTypeOK, Rows, Row
<1>2. IsFiniteSet(Counted) /\ Counted \subseteq Rows
  BY FS_Subset DEF Counted
<1> DEFINE f == [r \in Rows |-> row[r].amount]
<1>3. \A r \in Counted : f[r] \in Nat
  BY <1>1, <1>2
<1>4. alreadyRefunded = SumFunctionOnSet(f, Counted)
  BY DEF alreadyRefunded, Counted
<1> HIDE DEF f
<1>5. SumFunctionOnSet(f, Counted) \in Nat
  BY <1>2, <1>3, SumType
<1> QED BY <1>1, <1>2, <1>4, <1>5 DEF RefundedTyped

LEMMA CapInit == RefundsInit => CapInv
<1> SUFFICES ASSUME RefundsInit
             PROVE  CapInv
  OBVIOUS
<1>1. Rows = {} /\ \A a \in Admin : pc[a] = "idle"
  BY DEF RefundsInit, Rows
<1>2. IsFiniteSet(Rows) /\ alreadyRefunded = 0
  BY <1>1, FS_EmptySet, SumUnfolds DEF alreadyRefunded
<1> QED BY <1>1, <1>2, MoneyInit, RefundsAssumption DEF CapInv, CapHoldsUnraced, RoomToRefund

\* No more is refunded than before, and a call that gets to its insert has the
\* room for it.
LEMMA CapStays ==
    ASSUME CapInv, MoneyInv', IsFiniteSet(Rows'), alreadyRefunded' <= alreadyRefunded,
           overlapped => overlapped',
           \A a \in Admin :
               pc'[a] = "inserting" =>
                   \/ pc[a] = "inserting" /\ job'[a] = job[a]
                   \/ alreadyRefunded + job'[a].amount <= Paid
    PROVE  CapInv'
<1>1. RefundedTyped /\ RefundsTypeOK'
  BY RefundedType DEF CapInv, MoneyInv
<1>2. RefundedTyped'
  <2>1. (IsFiniteSet(Rows))'
    OBVIOUS
  <2> QED BY <1>1, <2>1, RefundedType, PTL
<1>3. alreadyRefunded \in Nat /\ alreadyRefunded' \in Nat /\ Paid \in Nat
  BY <1>1, <1>2, RefundsAssumption DEF RefundedTyped
<1>4. \A a \in Admin : pc'[a] = "inserting" => job'[a].amount \in Nat
  BY <1>1, RefundsAssumption DEF RefundsTypeOK
<1> SUFFICES ASSUME ~overlapped'
             PROVE  CapHoldsUnraced' /\ RoomToRefund'
  BY DEF CapInv, CapHoldsUnraced, RoomToRefund
<1>5. CapHoldsUnraced'
  BY <1>3 DEF CapInv, CapHoldsUnraced
<1>6. RoomToRefund'
  <2> SUFFICES ASSUME NEW a \in Admin, pc'[a] = "inserting"
               PROVE  alreadyRefunded' + job'[a].amount <= Paid
    BY DEF RoomToRefund
  <2>1. alreadyRefunded + job'[a].amount <= Paid
    BY DEF CapInv, RoomToRefund
  <2> QED BY <2>1, <1>3, <1>4
<1> QED BY <1>5, <1>6

\* The rows as they were.
LEMMA CapKept ==
    ASSUME CapInv, MoneyInv', row' = row, overlapped => overlapped',
           \A a \in Admin :
               pc'[a] = "inserting" =>
                   \/ pc[a] = "inserting" /\ job'[a] = job[a]
                   \/ alreadyRefunded + job'[a].amount <= Paid
    PROVE  CapInv'
<1>1. Rows' = Rows /\ alreadyRefunded' = alreadyRefunded
  BY DEF Rows, alreadyRefunded
<1>2. alreadyRefunded \in Nat
  BY RefundedType DEF CapInv, MoneyInv, RefundedTyped
<1> QED BY <1>1, <1>2, CapStays DEF CapInv

\* A call's last word on its row takes it off the sum or leaves it there.
LEMMA EndCap ==
    ASSUME CapInv, MoneyInv', NEW a \in Admin, pc[a] \in Holding, NEW s \in RefundStatus,
           Write(job[a].refund, s), Goto(a, "idle", NoCall), overlapped' = overlapped
    PROVE  CapInv'
<1>1. RefundsTypeOK /\ DatabaseTyped /\ RefundedTyped
  BY TypeParts, RefundedType DEF CapInv, MoneyInv
<1>2. PICK r \in Refund : r = job[a].refund /\ row[r] # NoRow /\ row[r].status = "PENDING"
  BY HeldRow DEF CapInv
<1>3. PICK new : new = [row[r] EXCEPT !.status = s]
  OBVIOUS
<1>4. new \in Row /\ new # NoRow /\ new.amount = row[r].amount
  <2>1. row[r] \in Row
    BY <1>1, <1>2 DEF DatabaseTyped
  <2>2. new \in Row /\ new # NoRow
    BY <1>3, <2>1, RowOrNone
  <2> QED BY <1>3, <2>1, <2>2 DEF Row
<1>5. row'[r] = new /\ \A q \in Refund \ {r} : row'[q] = row[q]
  BY <1>1, <1>2, <1>3 DEF Write, DatabaseTyped
<1>6. /\ Rows' = Rows /\ Counted' \subseteq Counted
      /\ \A q \in Rows : row'[q].amount = row[q].amount
  <2>1. Rows' = Rows
    BY <1>2, <1>4, <1>5 DEF Rows
  <2>2. \A q \in Rows : row'[q].amount = row[q].amount
    BY <1>4, <1>5 DEF Rows
  <2>3. \A q \in Counted' : q \in Counted
    BY <2>1, <1>2, <1>5 DEF Counted, Rows, COUNTED
  <2> QED BY <2>1, <2>2, <2>3
<1>7. alreadyRefunded' <= alreadyRefunded
  <2> DEFINE f == [q \in Rows |-> row[q].amount]
             g == [q \in Rows' |-> row'[q].amount]
  <2>1. /\ alreadyRefunded = SumFunctionOnSet(f, Counted)
        /\ alreadyRefunded' = SumFunctionOnSet(g, Counted')
    BY DEF alreadyRefunded, Counted
  <2>2. \A q \in Counted : f[q] \in Nat
    BY <1>1 DEF RefundedTyped, Counted
  <2>3. \A q \in Counted' : g[q] = f[q]
    BY <1>6 DEF Counted
  <2>4. IsFiniteSet(Counted) /\ IsFiniteSet(Counted')
    BY <1>1, <1>6, FS_Subset DEF RefundedTyped
  <2> HIDE DEF f, g
  <2>5. SumFunctionOnSet(g, Counted') = SumFunctionOnSet(f, Counted')
    BY <2>3, <2>4, SumSame
  <2>6. SumFunctionOnSet(f, Counted') <= SumFunctionOnSet(f, Counted)
    BY <2>2, <2>4, <1>6, SumOfPart
  <2> QED BY <2>1, <2>5, <2>6
<1>8. \A b \in Admin : pc'[b] = "inserting" => pc[b] = "inserting" /\ job'[b] = job[b]
  BY <1>1, GotoFacts
<1> QED BY <1>6, <1>7, <1>8, CapStays DEF CapInv

\* A row that no other call's check overlapped is one there was room for.
LEMMA InsertCap ==
    ASSUME CapInv, MoneyInv', NEW a \in Admin, NEW r \in Refund, Insert(a, r)
    PROVE  CapInv'
<1>1. RefundsTypeOK /\ RefundedTyped /\ IsFiniteSet(Rows)
  BY RefundedType DEF CapInv, MoneyInv
<1>2. PICK new : new = [amount |-> job[a].amount, status |-> "PENDING"]
  OBVIOUS
<1>3. /\ row[r] = NoRow /\ row'[r] = new /\ \A q \in Refund \ {r} : row'[q] = row[q]
      /\ new # NoRow /\ new.amount = job[a].amount /\ new.status = "PENDING"
      /\ pc[a] = "inserting" /\ job[a].amount \in Nat
  BY <1>1, <1>2, TypeParts, RefundsAssumption DEF Insert, DatabaseTyped, CallsKnow, NoRow
<1>4. /\ Rows' = Rows \cup {r} /\ Counted' = Counted \cup {r} /\ r \notin Rows /\ r \notin Counted
      /\ Counted \subseteq Rows
  <2>1. Rows' = Rows \cup {r} /\ r \notin Rows
    BY <1>3 DEF Rows
  <2>2. \A q : q \in Counted' <=> q \in Counted \cup {r}
    BY <2>1, <1>3 DEF Counted, Rows, COUNTED
  <2> QED BY <2>1, <2>2 DEF Counted
<1>5. IsFiniteSet(Rows')
  BY <1>1, <1>4, FS_AddElement
<1>6. alreadyRefunded' = alreadyRefunded + job[a].amount
  <2> DEFINE f == [q \in Rows |-> row[q].amount]
             g == [q \in Rows' |-> row'[q].amount]
  <2>1. /\ alreadyRefunded = SumFunctionOnSet(f, Counted)
        /\ alreadyRefunded' = SumFunctionOnSet(g, Counted')
    BY DEF alreadyRefunded, Counted
  <2>2. /\ \A q \in Counted : g[q] = f[q] /\ f[q] \in Nat
        /\ g[r] = job[a].amount
    <3>1. \A q \in Counted : q \in Rows /\ q \in Rows' /\ row'[q] = row[q] /\ row[q].amount \in Nat
      BY <1>1, <1>3, <1>4 DEF RefundedTyped, Rows
    <3> QED BY <3>1, <1>3, <1>4
  <2>3. IsFiniteSet(Counted)
    BY <1>1 DEF RefundedTyped
  <2> HIDE DEF f, g
  <2>4. \A q \in Counted \cup {r} : g[q] \in Int
    BY <1>3, <2>2
  <2>5. SumFunctionOnSet(g, Counted \cup {r}) = SumFunctionOnSet(g, Counted) + g[r]
    BY <1>4, <2>3, <2>4, SumGrows
  <2>6. SumFunctionOnSet(g, Counted) = SumFunctionOnSet(f, Counted)
    BY <2>2, <2>3, SumSame
  <2> QED BY <1>4, <2>1, <2>2, <2>5, <2>6
<1>7. ASSUME ~overlapped'
      PROVE  /\ ~overlapped /\ alreadyRefunded' <= Paid
             /\ \A b \in Admin : pc'[b] # "inserting"
  <2>1. ~overlapped /\ \A b \in Admin \ {a} : pc[b] # "inserting"
    BY <1>7 DEF Insert
  <2>2. alreadyRefunded' <= Paid
    BY <1>3, <1>6, <2>1 DEF CapInv, RoomToRefund
  <2>3. pc'[a] # "inserting" /\ \A b \in Admin \ {a} : pc'[b] = pc[b]
    BY <1>1, InsertTyped
  <2> QED BY <2>1, <2>2, <2>3
<1> QED BY <1>5, <1>7 DEF CapInv, CapHoldsUnraced, RoomToRefund

LEMMA CapStep == CapInv /\ [RefundsNext]_refundsVars => CapInv'
<1> SUFFICES ASSUME CapInv, [RefundsNext]_refundsVars
             PROVE  CapInv'
  OBVIOUS
<1>1. MoneyInv' /\ RefundsTypeOK /\ RefundedTyped
  BY MoneyStep, RefundedType DEF CapInv, MoneyInv
<1>2. ASSUME NEW a \in Admin, RefundStep(a)
      PROVE  CapInv'
  <2>1. CASE \E r \in Refund : Insert(a, r)
    BY <1>1, <2>1, InsertCap
  <2>2. CASE Defer(a) \/ RecordFailed(a)
    BY <1>1, <2>2, EndCap DEF Defer, RecordFailed, Holding, RefundStatus
  <2>3. CASE Record(a)
    <3> PICK s : s = CASE job[a].answer = "processed" -> "COMPLETED"
                       [] job[a].answer = "failed"    -> "FAILED"
                       [] OTHER                       -> "PROCESSING"
      OBVIOUS
    <3>1. s \in RefundStatus
      BY DEF RefundStatus
    <3>2. pc[a] \in Holding /\ Write(job[a].refund, s) /\ Goto(a, "idle", NoCall) /\ overlapped' = overlapped
      BY <2>3 DEF Record, Holding
    <3> QED BY <1>1, <3>1, <3>2, EndCap
  <2>4. CASE \E answer \in Answer : Call(a, answer)
    <3>1. row' = row /\ overlapped' = overlapped
      BY <2>4 DEF Call, refundsDbVars
    <3>2. \A b \in Admin : pc'[b] = "inserting" => pc[b] = "inserting" /\ job'[b] = job[b]
      BY <1>1, <2>4, GotoFacts DEF Call
    <3> QED BY <1>1, <3>1, <3>2, CapKept
  <2> QED BY <1>2, <2>1, <2>2, <2>3, <2>4 DEF RefundStep
<1>3. ASSUME NEW a \in Admin, NEW amount \in Amounts, Check(a, amount)
      PROVE  CapInv'
  <2>1. PICK j : j = [NoCall EXCEPT !.amount = amount]
    OBVIOUS
  <2>2. j.amount = amount
    BY <2>1 DEF NoCall
  <2>3. pc'[a] = "inserting" /\ job'[a] = j /\ \A b \in Admin \ {a} : pc'[b] = pc[b] /\ job'[b] = job[b]
    BY <1>1, <1>3, <2>1, GotoFacts DEF Check
  <2>4. row' = row /\ overlapped' = overlapped /\ amount <= Paid - alreadyRefunded
    BY <1>3 DEF Check, refundsDbVars
  <2>5. alreadyRefunded + amount <= Paid
    BY <1>1, <2>4, RefundsAssumption DEF RefundedTyped
  <2> QED BY <1>1, <2>2, <2>3, <2>4, <2>5, CapKept
<1>4. ASSUME NEW a \in Admin, CallThrows(a) \/ DatabaseError(a)
      PROVE  CapInv'
  <2>1. row' = row /\ overlapped' = overlapped
    BY <1>4 DEF CallThrows, DatabaseError, refundsDbVars
  <2>2. \A b \in Admin : pc'[b] = "inserting" => pc[b] = "inserting" /\ job'[b] = job[b]
    BY <1>1, <1>4, GotoFacts DEF CallThrows, DatabaseError
  <2> QED BY <1>1, <2>1, <2>2, CapKept
<1>5. CASE Crash
  BY <1>1, <1>5, CapKept DEF Crash, refundsDbVars
<1>6. CASE (\E r \in Refund, answer \in Answer : Settle(r, answer)) \/ PaymentRewritten \/ UNCHANGED refundsVars
  BY <1>1, <1>6, CapKept DEF Settle, PaymentRewritten, refundsVars, refundsDbVars
<1> QED BY <1>2, <1>3, <1>4, <1>5, <1>6 DEF RefundsNext

\* "An order can never be refunded for more than it was paid" (createRefund),
\* whatever the gateway answers and wherever calls stop, of calls whose checks
\* do not overlap another's insert.
THEOREM NeverMoreThanPaid == RefundsSpec => []CapHoldsUnraced
<1>1. CapInv => CapHoldsUnraced
  BY DEF CapInv
<1> QED BY <1>1, CapInit, CapStep, PTL DEF RefundsSpec

-----------------------------------------------------------------------------
(* Type correctness *)

\* Cards are never deleted: what an order was paid with is there, and so is a
\* card a handler has found.
CardsStay ==
    /\ \A o \in Order : order[o] # NoOrder => card[order[o].card] # NoCard
    /\ \A h \in Handler :
          job[h].card \in Card /\ job[h].seen # NoCard => card[job[h].card] # NoCard

CardsTyped == GiftCardsTypeOK /\ CardsStay

LEMMA NoJobIsAJob == NoCardCall \in CardCall /\ NoCardCall.seen = NoCard /\ NoCardCall.card = None
BY DEF NoCardCall, CardCall

LEMMA GiftCardsInitTyped == GiftCardsInit => CardsTyped
<1> SUFFICES ASSUME GiftCardsInit
             PROVE  CardsTyped
  OBVIOUS
<1>1. DatabaseTypeOK
  <2>1. staleWrite \in BOOLEAN
    BY Zenon DEF GiftCardsInit
  <2> QED
    BY <2>1 DEF GiftCardsInit, DatabaseTypeOK
<1>2. ProcessTypeOK
  BY NoJobIsAJob DEF GiftCardsInit, ProcessTypeOK
<1>3. HandlersKnow
  BY DEF GiftCardsInit, HandlersKnow
<1>4. CardsStay
  BY NoJobIsAJob DEF GiftCardsInit, CardsStay
<1> QED
  BY <1>1, <1>2, <1>3, <1>4 DEF CardsTyped, GiftCardsTypeOK

\* What the two kinds of row hold.
LEMMA CardRowOrNone ==
    /\ \A c \in CardRow : c.status \in GiftCardStatus /\ c.balance \in Int /\ c.value \in Values /\ c # NoCard
    /\ \A o \in Placed : o.card \in Card /\ o.total \in Totals /\ o.giftCardAmount \in Nat
                         /\ o.charged \in Nat /\ o # NoOrder
BY DEF CardRow, Placed, NoCard, NoOrder, GiftCardStatus

LEMMA CreateTyped ==
    ASSUME CardsTyped, NEW c \in Card, NEW value \in Values,
           issueGiftCard(c, value) \/ purchaseGiftCard(c, value)
    PROVE  CardsTyped'
<1>1. PICK status \in {"ACTIVE", "PENDING"} : Create(c, value, status)
  BY DEF issueGiftCard, purchaseGiftCard
<1>2. card' = [card EXCEPT ![c] = [status |-> status, balance |-> value, value |-> value]]
  BY <1>1 DEF Create
<1>3. [status |-> status, balance |-> value, value |-> value] \in CardRow
  BY GiftCardsAssumption DEF CardRow, GiftCardStatus
<1>4. card' \in [Card -> CardRow \cup {NoCard}]
  BY <1>2, <1>3 DEF CardsTyped, GiftCardsTypeOK, DatabaseTypeOK
<1>5. ledger' \in [Card -> Int]
  BY <1>1, GiftCardsAssumption DEF Create, CardsTyped, GiftCardsTypeOK, DatabaseTypeOK
<1>6. /\ purchase' \in [Card -> {"none", "PENDING_PAYMENT", "PAID", "CANCELLED"}]
      /\ UNCHANGED <<order, credits, announced, pc, job, expired, staleWrite>>
  BY DEF issueGiftCard, purchaseGiftCard, CardsTyped, GiftCardsTypeOK, DatabaseTypeOK, handlers
<1>7. GiftCardsTypeOK'
  BY <1>4, <1>5, <1>6 DEF CardsTyped, GiftCardsTypeOK, DatabaseTypeOK, ProcessTypeOK, HandlersKnow
<1>8. \A d \in Card : card[d] # NoCard => card'[d] # NoCard
  BY <1>2, <1>3, CardRowOrNone DEF CardsTyped, GiftCardsTypeOK, DatabaseTypeOK
<1>9. CardsStay'
  BY <1>6, <1>8, CardRowOrNone DEF CardsTyped, GiftCardsTypeOK, DatabaseTypeOK, CardsStay
<1> QED
  BY <1>7, <1>9 DEF CardsTyped

\* Outdating changes nothing of a job but its stale.
LEMMA OutdateTyped ==
    ASSUME ProcessTypeOK, NEW c \in Card
    PROVE  /\ Outdate(c) \in [Handler -> CardCall]
           /\ \A h \in Handler :
                 /\ Outdate(c)[h].card = job[h].card
                 /\ Outdate(c)[h].order = job[h].order
                 /\ Outdate(c)[h].seen = job[h].seen
                 /\ Outdate(c)[h].total = job[h].total
                 /\ Outdate(c)[h].stale = (job[h].stale \/ job[h].card = c)
<1> SUFFICES ASSUME NEW h \in Handler
             PROVE  /\ [job[h] EXCEPT !.stale = @ \/ job[h].card = c] \in CardCall
                    /\ Outdate(c)[h].card = job[h].card
                    /\ Outdate(c)[h].order = job[h].order
                    /\ Outdate(c)[h].seen = job[h].seen
                    /\ Outdate(c)[h].total = job[h].total
                    /\ Outdate(c)[h].stale = (job[h].stale \/ job[h].card = c)
  BY DEF Outdate
<1> DEFINE stale == job[h].stale \/ job[h].card = c
<1>1. job[h] \in CardCall
  BY DEF ProcessTypeOK
<1>2. stale \in BOOLEAN
  BY Zenon
<1>3. Outdate(c)[h] = [job[h] EXCEPT !.stale = stale]
  BY DEF Outdate
<1> HIDE DEF stale
<1>4. [job[h] EXCEPT !.stale = stale] \in CardCall
  BY <1>1, <1>2 DEF CardCall
<1>5. Outdate(c)[h].stale = stale
  BY <1>1, <1>2, <1>3 DEF CardCall
<1>6. /\ Outdate(c)[h].card = job[h].card
      /\ Outdate(c)[h].order = job[h].order
      /\ Outdate(c)[h].seen = job[h].seen
      /\ Outdate(c)[h].total = job[h].total
  BY <1>1, <1>3 DEF CardCall
<1> QED
  BY <1>3, <1>4, <1>5, <1>6 DEF stale

\* A commit ends h's call and outdates what others have read of c.
LEMMA CommitTyped ==
    ASSUME ProcessTypeOK, NEW h \in Handler, NEW c \in Card, CommitOf(h, c)
    PROVE  /\ job' \in [Handler -> CardCall]
           /\ pc' = [pc EXCEPT ![h] = "idle"]
           /\ job'[h] = NoCardCall
           /\ \A g \in Handler \ {h} :
                 /\ job'[g].card = job[g].card
                 /\ job'[g].order = job[g].order
                 /\ job'[g].seen = job[g].seen
                 /\ job'[g].total = job[g].total
                 /\ job'[g].stale = (job[g].stale \/ job[g].card = c)
BY OutdateTyped, NoJobIsAJob DEF CommitOf

CardPlaces == {"idle", "redeeming", "restocking", "counting", "reading",
           "crediting", "cancelling", "writing_off"}

\* A handler moves on and the database is left alone.
LEMMA CallGotoTyped ==
    ASSUME CardsTyped, NEW h \in Handler, NEW where \in CardPlaces, NEW j \in CardCall, Goto(h, where, j),
           UNCHANGED <<cardVars, order, credits, announced, expired, staleWrite>>,
           where = "redeeming" => j.card \in Card /\ j.total \in Totals,
           where \in {"restocking", "counting", "reading", "crediting", "cancelling"} =>
               j.order \in Order /\ order[j.order] # NoOrder,
           where \in {"crediting", "writing_off"} => j.card \in Card /\ j.seen # NoCard,
           where = "crediting" => j.card = order[j.order].card,
           j.card \in Card /\ j.seen # NoCard => card[j.card] # NoCard
    PROVE  CardsTyped'
<1>1. DatabaseTypeOK'
  BY DEF cardVars, CardsTyped, GiftCardsTypeOK, DatabaseTypeOK
<1>2. ProcessTypeOK'
  BY DEF Goto, CardPlaces, CardsTyped, GiftCardsTypeOK, ProcessTypeOK
<1>3. /\ pc' = [pc EXCEPT ![h] = where] /\ pc \in [Handler -> CardPlaces]
      /\ job' = [job EXCEPT ![h] = j] /\ job \in [Handler -> CardCall]
      /\ UNCHANGED <<card, order>>
  BY DEF Goto, cardVars, CardPlaces, CardsTyped, GiftCardsTypeOK, ProcessTypeOK
<1>4. HandlersKnow'
  <2> SUFFICES ASSUME NEW g \in Handler
               PROVE  /\ pc'[g] = "redeeming" => job'[g].card \in Card /\ job'[g].total \in Totals
                      /\ pc'[g] \in {"restocking", "counting", "reading", "crediting", "cancelling"} =>
                            job'[g].order \in Order /\ order[job'[g].order] # NoOrder
                      /\ pc'[g] \in {"crediting", "writing_off"} =>
                            job'[g].card \in Card /\ job'[g].seen # NoCard
                      /\ pc'[g] = "crediting" => job'[g].card = order[job'[g].order].card
    BY <1>3 DEF HandlersKnow
  <2>1. CASE g = h
    BY <1>3, <2>1
  <2>2. CASE g # h
    BY <1>3, <2>2 DEF CardsTyped, GiftCardsTypeOK, HandlersKnow
  <2> QED
    BY <2>1, <2>2
<1>5. CardsStay'
  BY <1>3 DEF CardsTyped, CardsStay
<1> QED
  BY <1>1, <1>2, <1>4, <1>5 DEF CardsTyped, GiftCardsTypeOK

\* A handler gives up, or is done, without having written anything.
LEMMA CallEndTyped ==
    ASSUME CardsTyped, NEW h \in Handler, Goto(h, "idle", NoCardCall),
           UNCHANGED <<cardVars, order, credits, announced, expired, staleWrite>>
    PROVE  CardsTyped'
BY CallGotoTyped, NoJobIsAJob DEF CardPlaces

LEMMA BeginTyped ==
    ASSUME CardsTyped, NEW h \in Handler
    PROVE  /\ \A c \in Card, total \in Totals : CheckoutBegin(h, c, total) => CardsTyped'
           /\ \A o \in Order : CancelBegin(h, o) => CardsTyped'
           /\ \A c \in Card : WriteOffRead(h, c) => CardsTyped'
<1> USE DEF CardPlaces
<1>1. \A c \in Card : card[c] \in CardRow \cup {NoCard}
  BY DEF CardsTyped, GiftCardsTypeOK, DatabaseTypeOK
<1>2. ASSUME NEW c \in Card, NEW total \in Totals, CheckoutBegin(h, c, total)
      PROVE  CardsTyped'
  <2> DEFINE j == [NoCardCall EXCEPT !.card = c, !.seen = card[c], !.total = total]
  <2>1. j \in CardCall /\ j.card = c /\ j.seen = card[c] /\ j.total = total
    BY <1>1 DEF NoCardCall, CardCall
  <2>2. Goto(h, "redeeming", j) /\ UNCHANGED <<cardVars, order, credits, announced, expired, staleWrite>>
    BY <1>2 DEF CheckoutBegin
  <2> QED
    BY <2>1, <2>2, CallGotoTyped
<1>3. ASSUME NEW o \in Order, CancelBegin(h, o)
      PROVE  CardsTyped'
  <2> DEFINE j == [NoCardCall EXCEPT !.order = o]
  <2>1. j \in CardCall /\ j.order = o /\ j.seen = NoCard
    BY DEF NoCardCall, CardCall
  <2>2. Goto(h, "restocking", j) /\ UNCHANGED <<cardVars, order, credits, announced, expired, staleWrite>>
    BY <1>3 DEF CancelBegin
  <2>3. order[o] # NoOrder
    BY <1>3 DEF CancelBegin, NoOrder
  <2> QED
    BY <2>1, <2>2, <2>3, CallGotoTyped
<1>4. ASSUME NEW c \in Card, WriteOffRead(h, c)
      PROVE  CardsTyped'
  <2> DEFINE j == [NoCardCall EXCEPT !.card = c, !.seen = card[c]]
  <2>1. j \in CardCall /\ j.card = c /\ j.seen = card[c]
    BY <1>1 DEF NoCardCall, CardCall
  <2>2. Goto(h, "writing_off", j) /\ UNCHANGED <<cardVars, order, credits, announced, expired, staleWrite>>
    BY <1>4 DEF WriteOffRead
  <2>3. card[c] # NoCard
    BY <1>4 DEF WriteOffRead
  <2> QED
    BY <2>1, <2>2, <2>3, CallGotoTyped
<1> QED
  BY <1>2, <1>3, <1>4

\* A cancellation goes from one statement to the next.
LEMMA CancelStepTyped ==
    ASSUME CardsTyped, NEW h \in Handler, Restock(h) \/ CountCredits(h) \/ ReadCard(h)
    PROVE  CardsTyped'
<1> USE DEF CardPlaces
<1> DEFINE o == job[h].order
<1>1. /\ pc[h] \in {"restocking", "counting", "reading"}
      /\ UNCHANGED <<cardVars, order, credits, announced, expired, staleWrite>>
  BY DEF Restock, CountCredits, ReadCard
<1>2. /\ o \in Order /\ order[o] # NoOrder
      /\ job[h] \in CardCall
      /\ job[h].card \in Card /\ job[h].seen # NoCard => card[job[h].card] # NoCard
  BY <1>1 DEF CardsTyped, GiftCardsTypeOK, ProcessTypeOK, HandlersKnow, CardsStay
<1>3. CASE Restock(h) \/ CountCredits(h)
  <2>1. \E where \in {"counting", "cancelling", "reading"} : Goto(h, where, job[h])
    BY <1>3 DEF Restock, CountCredits
  <2> QED
    BY <1>1, <1>2, <2>1, CallGotoTyped
<1>4. CASE ReadCard(h)
  <2> DEFINE c == order[o].card
             j == [job[h] EXCEPT !.card = c, !.seen = card[c], !.stale = FALSE]
  <2>1. c \in Card /\ card[c] \in CardRow \cup {NoCard} /\ card[c] # NoCard
    BY <1>2, CardRowOrNone DEF CardsTyped, GiftCardsTypeOK, DatabaseTypeOK, CardsStay
  <2>2. j \in CardCall /\ j.card = c /\ j.seen = card[c] /\ j.order = o
    BY <1>2, <2>1 DEF CardCall
  <2>3. Goto(h, "crediting", j)
    BY <1>4 DEF ReadCard
  <2> QED
    BY <1>1, <1>2, <2>1, <2>2, <2>3, CallGotoTyped
<1> QED
  BY <1>3, <1>4

\* Two sets of jobs that name the same rows.
SameRows(j, k) == j.card = k.card /\ j.order = k.order /\ j.seen = k.seen /\ j.total = k.total

\* What keeps cards, orders and what handlers know of them in place keeps the
\* types: a step may change the rows, and end the call of at most one handler.
LEMMA RowsTyped ==
    ASSUME CardsTyped, DatabaseTypeOK', ProcessTypeOK',
           \A c \in Card : card[c] # NoCard => card'[c] # NoCard,
           \A o \in Order : order[o] # NoOrder => order'[o] # NoOrder /\ order'[o].card = order[o].card,
           \A o \in Order : order'[o] # NoOrder => card'[order'[o].card] # NoCard,
           \A g \in Handler : \/ pc'[g] = "idle" /\ job'[g] = NoCardCall
                              \/ pc'[g] = pc[g] /\ SameRows(job'[g], job[g])
    PROVE  CardsTyped'
<1>1. HandlersKnow'
  <2> SUFFICES ASSUME NEW g \in Handler
               PROVE  /\ pc'[g] = "redeeming" => job'[g].card \in Card /\ job'[g].total \in Totals
                      /\ pc'[g] \in {"restocking", "counting", "reading", "crediting", "cancelling"} =>
                            job'[g].order \in Order /\ order'[job'[g].order] # NoOrder
                      /\ pc'[g] \in {"crediting", "writing_off"} =>
                            job'[g].card \in Card /\ job'[g].seen # NoCard
                      /\ pc'[g] = "crediting" => job'[g].card = order'[job'[g].order].card
    BY DEF HandlersKnow
  <2>1. CASE pc'[g] = "idle"
    BY <2>1
  <2>2. CASE pc'[g] = pc[g] /\ SameRows(job'[g], job[g])
    <3>1. /\ pc[g] = "redeeming" => job[g].card \in Card /\ job[g].total \in Totals
          /\ pc[g] \in {"restocking", "counting", "reading", "crediting", "cancelling"} =>
                job[g].order \in Order /\ order[job[g].order] # NoOrder
          /\ pc[g] \in {"crediting", "writing_off"} => job[g].card \in Card /\ job[g].seen # NoCard
          /\ pc[g] = "crediting" => job[g].card = order[job[g].order].card
      BY DEF CardsTyped, GiftCardsTypeOK, HandlersKnow
    <3> QED
      BY <2>2, <3>1 DEF SameRows
  <2> QED
    BY <2>1, <2>2
<1>2. CardsStay'
  <2>1. ASSUME NEW g \in Handler, job'[g].card \in Card, job'[g].seen # NoCard
        PROVE  card'[job'[g].card] # NoCard
    <3>1. job'[g] # NoCardCall
      BY <2>1, NoJobIsAJob
    <3> QED
      BY <2>1, <3>1 DEF SameRows, CardsTyped, CardsStay
  <2> QED
    BY <2>1 DEF CardsStay
<1> QED
  BY <1>1, <1>2 DEF CardsTyped, GiftCardsTypeOK

LEMMA OrderStepTyped ==
    ASSUME CardsTyped, NEW o \in Order, Pay(o) \/ DeleteOrder(o)
    PROVE  CardsTyped'
<1>1. order[o] \in Placed /\ order[o] # NoOrder
  BY DEF Pay, DeleteOrder, NoOrder, CardsTyped, GiftCardsTypeOK, DatabaseTypeOK
<1>2. PICK r \in Placed : order' = [order EXCEPT ![o] = r] /\ r.card = order[o].card
  <2>1. CASE Pay(o)
    <3> DEFINE r == [order[o] EXCEPT !.status = "PAID", !.charged = order[o].total]
    <3>1. r \in Placed /\ r.card = order[o].card
      BY <1>1, GiftCardsAssumption DEF Placed
    <3>2. order' = [order EXCEPT ![o] = r]
      BY <1>1, <2>1 DEF Pay, Placed, CardsTyped, GiftCardsTypeOK, DatabaseTypeOK
    <3> QED
      BY <3>1, <3>2
  <2>2. CASE DeleteOrder(o)
    <3>1. [order[o] EXCEPT !.status = "DELETED"] \in Placed
      BY <1>1 DEF Placed
    <3> QED
      BY <1>1, <2>2, <3>1 DEF DeleteOrder, Placed
  <2> QED
    BY <2>1, <2>2
<1>3. UNCHANGED <<cardVars, credits, announced, handlers, expired, staleWrite>>
  BY DEF Pay, DeleteOrder
<1>4. /\ order' \in [Order -> Placed \cup {NoOrder}]
      /\ \A q \in Order : order[q] # NoOrder => order'[q] # NoOrder /\ order'[q].card = order[q].card
      /\ \A q \in Order : order'[q] # NoOrder => order[q] # NoOrder
  BY <1>1, <1>2, CardRowOrNone DEF CardsTyped, GiftCardsTypeOK, DatabaseTypeOK
<1>5. DatabaseTypeOK' /\ ProcessTypeOK'
  BY <1>3, <1>4 DEF cardVars, handlers, CardsTyped, GiftCardsTypeOK, DatabaseTypeOK, ProcessTypeOK
<1> QED
  BY <1>3, <1>4, <1>5, RowsTyped DEF cardVars, handlers, SameRows, CardsTyped, CardsStay

LEMMA CardStepTyped ==
    ASSUME CardsTyped, NEW c \in Card,
           PurchasePaid(c) \/ PurchaseCancelled(c) \/ activateForOrder(c) \/ Expire(c)
    PROVE  CardsTyped'
<1>1. CASE PurchasePaid(c) \/ PurchaseCancelled(c) \/ Expire(c)
  <2>1. UNCHANGED <<card, order, pc, job>>
    BY <1>1 DEF PurchasePaid, PurchaseCancelled, Expire, cardVars, handlers
  <2>2. DatabaseTypeOK' /\ ProcessTypeOK'
    BY <1>1, <2>1 DEF PurchasePaid, PurchaseCancelled, Expire, cardVars, CardsTyped, GiftCardsTypeOK,
       DatabaseTypeOK, ProcessTypeOK
  <2> QED
    BY <2>1, <2>2, RowsTyped DEF SameRows, CardsTyped, CardsStay
<1>2. CASE activateForOrder(c) /\ card[c].status = "PENDING"
  <2>1. /\ card' = [card EXCEPT ![c].status = "ACTIVE"]
        /\ announced' = announced \ {c}
        /\ job' = Outdate(c)
        /\ UNCHANGED <<ledger, purchase, order, credits, pc, expired, staleWrite>>
    BY <1>2 DEF activateForOrder
  <2>2. card[c] \in CardRow
    BY <1>2 DEF NoCard, CardsTyped, GiftCardsTypeOK, DatabaseTypeOK
  <2>3. [card[c] EXCEPT !.status = "ACTIVE"] \in CardRow
    BY <2>2 DEF CardRow, GiftCardStatus
  <2>4. /\ card' \in [Card -> CardRow \cup {NoCard}]
        /\ \A d \in Card : card[d] # NoCard => card'[d] # NoCard
    BY <2>1, <2>3, CardRowOrNone DEF CardsTyped, GiftCardsTypeOK, DatabaseTypeOK
  <2>5. DatabaseTypeOK' /\ ProcessTypeOK'
    BY <2>1, <2>4, OutdateTyped DEF CardsTyped, GiftCardsTypeOK, DatabaseTypeOK, ProcessTypeOK
  <2>6. \A g \in Handler : pc'[g] = pc[g] /\ SameRows(job'[g], job[g])
    BY <2>1, OutdateTyped DEF SameRows, CardsTyped, GiftCardsTypeOK
  <2>7. \A o \in Order : order'[o] # NoOrder => card'[order'[o].card] # NoCard
    BY <2>1, <2>4, CardRowOrNone DEF CardsTyped, GiftCardsTypeOK, DatabaseTypeOK, CardsStay
  <2> QED
    BY <2>1, <2>4, <2>5, <2>6, <2>7, RowsTyped
<1>3. CASE activateForOrder(c) /\ card[c].status # "PENDING"
  <2>1. UNCHANGED <<cardVars, order, credits, pc, job, expired, staleWrite>> /\ announced' = announced \ {c}
    BY <1>3 DEF activateForOrder, cardVars
  <2>2. DatabaseTypeOK' /\ ProcessTypeOK'
    BY <2>1 DEF cardVars, CardsTyped, GiftCardsTypeOK, DatabaseTypeOK, ProcessTypeOK
  <2> QED
    BY <2>1, <2>2, RowsTyped DEF cardVars, SameRows, CardsTyped, CardsStay
<1> QED
  BY <1>1, <1>2, <1>3

\* What a commit that writes card c needs: the rows it writes are rows.
LEMMA CommitStepTyped ==
    ASSUME CardsTyped, NEW h \in Handler, NEW c \in Card, NEW r \in CardRow, NEW paid \in Order,
           CommitOf(h, c), card' = [card EXCEPT ![c] = r], DatabaseTypeOK',
           announced' = announced,
           card[c] # NoCard,
           \A o \in Order : order[o] # NoOrder => order'[o] # NoOrder /\ order'[o].card = order[o].card,
           \A o \in Order \ {paid} : order'[o] # NoOrder => order[o] # NoOrder,
           order'[paid] # NoOrder => order'[paid].card = c \/ order[paid] # NoOrder
    PROVE  CardsTyped'
<1>1. ProcessTypeOK'
  BY CommitTyped DEF CardsTyped, GiftCardsTypeOK, ProcessTypeOK
<1>2. \A d \in Card : card[d] # NoCard => card'[d] # NoCard
  BY CardRowOrNone DEF CardsTyped, GiftCardsTypeOK, DatabaseTypeOK
<1>3. \A o \in Order : order'[o] # NoOrder => card'[order'[o].card] # NoCard
  <2>1. \A o \in Order : order[o] # NoOrder => order[o].card \in Card /\ card[order[o].card] # NoCard
    BY CardRowOrNone DEF CardsTyped, GiftCardsTypeOK, DatabaseTypeOK, CardsStay
  <2> QED
    BY <1>2, <2>1
<1>4. \A g \in Handler : \/ pc'[g] = "idle" /\ job'[g] = NoCardCall
                         \/ pc'[g] = pc[g] /\ SameRows(job'[g], job[g])
  BY CommitTyped DEF SameRows, CardsTyped, GiftCardsTypeOK, ProcessTypeOK
<1> QED
  BY <1>1, <1>2, <1>3, <1>4, RowsTyped

LEMMA CheckoutCommitTyped ==
    ASSUME CardsTyped, NEW h \in Handler, NEW o \in Order, CheckoutCommit(h, o)
    PROVE  CardsTyped'
<1> DEFINE c     == job[h].card
           seen  == job[h].seen
           total == job[h].total
           taken == Min({seen.balance, total})
           left  == seen.balance - taken
           r     == [card[c] EXCEPT !.balance = left,
                                    !.status = IF left = 0 THEN "REDEEMED" ELSE "ACTIVE"]
           q     == [status |-> "PENDING_PAYMENT", card |-> c, total |-> total,
                     giftCardAmount |-> taken, charged |-> 0]
<1>1. /\ pc[h] = "redeeming" /\ Spendable(h) /\ order[o] = NoOrder
      /\ card' = [card EXCEPT ![c].balance = left,
                              ![c].status = IF left = 0 THEN "REDEEMED" ELSE "ACTIVE"]
      /\ ledger' = [ledger EXCEPT ![c] = @ - taken]
      /\ order' = [order EXCEPT ![o] = q]
      /\ CommitOf(h, c)
      /\ UNCHANGED <<purchase, credits, announced, expired, staleWrite>>
  BY DEF CheckoutCommit, Redeem
<1>2. c \in Card /\ total \in Totals /\ seen \in CardRow
  <2>1. c \in Card /\ total \in Totals
    BY <1>1 DEF CardsTyped, GiftCardsTypeOK, HandlersKnow
  <2>2. seen \in CardRow \cup {NoCard}
    BY DEF CardCall, CardsTyped, GiftCardsTypeOK, ProcessTypeOK
  <2>3. seen # NoCard
    BY <1>1 DEF Spendable, NoCard
  <2> QED
    BY <2>1, <2>2, <2>3
<1>3. card[c] # NoCard /\ card[c] \in CardRow
  BY <1>2, CardRowOrNone DEF CardsTyped, GiftCardsTypeOK, DatabaseTypeOK, CardsStay
<1>4. seen.balance \in Int /\ seen.balance > 0 /\ total \in Nat /\ total > 0
  BY <1>1, <1>2, GiftCardsAssumption DEF Spendable, CardRow
<1>5. taken \in Nat /\ left \in Int
  <2>1. seen.balance \in Int /\ total \in Int
    BY <1>4
  <2>2. taken \in {seen.balance, total}
    BY <2>1, MinOfTwo, Zenon
  <2> QED
    BY <1>4, <2>2
<1> HIDE DEF taken, left
<1>6. r \in CardRow
  BY <1>3, <1>5 DEF CardRow, GiftCardStatus
<1>7. card' = [card EXCEPT ![c] = r]
  BY <1>1, <1>2, <1>3 DEF CardRow, CardsTyped, GiftCardsTypeOK, DatabaseTypeOK
<1>8. q \in Placed
  BY <1>2, <1>5 DEF Placed
<1>9. DatabaseTypeOK'
  BY <1>1, <1>2, <1>5, <1>6, <1>7, <1>8 DEF CardsTyped, GiftCardsTypeOK, DatabaseTypeOK
<1> HIDE DEF r
<1>10. q.card = c
  OBVIOUS
<1> HIDE DEF q, c
<1> QED
  BY <1>1, <1>2, <1>3, <1>6, <1>7, <1>8, <1>9, <1>10, CommitStepTyped
     DEF CardsTyped, GiftCardsTypeOK, DatabaseTypeOK

\* The credit of a card, as a row of its own.
Credited(j) ==
    [card[j.card] EXCEPT !.balance = j.seen.balance + order[j.order].giftCardAmount,
                         !.status = IF j.seen.status = "REDEEMED" THEN "ACTIVE" ELSE j.seen.status]

LEMMA CreditWrites ==
    ASSUME CardsTyped, NEW h \in Handler, Credit(h)
    PROVE  /\ job[h].card \in Card /\ job[h].order \in Order /\ job[h].seen \in CardRow
           /\ order[job[h].order] \in Placed /\ order[job[h].order] # NoOrder
           /\ card[job[h].card] \in CardRow /\ Credited(job[h]) \in CardRow
           /\ card' = [card EXCEPT ![job[h].card] = Credited(job[h])]
<1> DEFINE c == job[h].card
           o == job[h].order
<1>1. /\ pc[h] = "crediting"
      /\ card' = [card EXCEPT
             ![c].balance = job[h].seen.balance + order[o].giftCardAmount,
             ![c].status = IF job[h].seen.status = "REDEEMED" THEN "ACTIVE" ELSE job[h].seen.status]
  BY DEF Credit
<1>2. c \in Card /\ o \in Order /\ job[h].seen \in CardRow /\ order[o] # NoOrder
  BY <1>1 DEF CardCall, CardsTyped, GiftCardsTypeOK, ProcessTypeOK, HandlersKnow
<1>3. order[o] \in Placed /\ card[c] \in CardRow
  BY <1>2, CardRowOrNone DEF CardsTyped, GiftCardsTypeOK, DatabaseTypeOK, CardsStay
<1>4. Credited(job[h]) \in CardRow
  <2> DEFINE b == job[h].seen.balance + order[o].giftCardAmount
             s == IF job[h].seen.status = "REDEEMED" THEN "ACTIVE" ELSE job[h].seen.status
  <2>1. b \in Int /\ s \in GiftCardStatus
    BY <1>2, <1>3, CardRowOrNone DEF GiftCardStatus
  <2>2. Credited(job[h]) = [card[c] EXCEPT !.balance = b, !.status = s]
    BY DEF Credited
  <2> HIDE DEF b, s
  <2> QED
    BY <1>3, <2>1, <2>2 DEF CardRow
<1>5. card' = [card EXCEPT ![c] = Credited(job[h])]
  BY <1>1, <1>2, <1>3 DEF Credited, CardRow, CardsTyped, GiftCardsTypeOK, DatabaseTypeOK
<1> QED
  BY <1>2, <1>3, <1>4, <1>5

LEMMA CreditTyped ==
    ASSUME CardsTyped, NEW h \in Handler, Credit(h)
    PROVE  CardsTyped'
<1> DEFINE c == job[h].card
           o == job[h].order
           q == [order[o] EXCEPT !.status = "CANCELLED"]
<1>1. /\ order' = [order EXCEPT ![o].status = "CANCELLED"]
      /\ credits' = [credits EXCEPT ![o] = @ + 1]
      /\ ledger' = [ledger EXCEPT ![c] = @ + order[o].giftCardAmount]
      /\ staleWrite' = (staleWrite \/ job[h].stale)
      /\ CommitOf(h, c)
      /\ UNCHANGED <<purchase, announced, expired>>
  BY DEF Credit
<1>2. /\ c \in Card /\ o \in Order /\ order[o] \in Placed /\ order[o] # NoOrder
      /\ card[c] \in CardRow /\ Credited(job[h]) \in CardRow
      /\ card' = [card EXCEPT ![c] = Credited(job[h])]
  BY CreditWrites
<1>3. q \in Placed /\ q.card = order[o].card /\ order' = [order EXCEPT ![o] = q]
  BY <1>1, <1>2 DEF Placed, CardsTyped, GiftCardsTypeOK, DatabaseTypeOK
<1>4. staleWrite' \in BOOLEAN
  <2>1. job[h].stale \in BOOLEAN /\ staleWrite \in BOOLEAN
    BY DEF CardsTyped, GiftCardsTypeOK, DatabaseTypeOK, ProcessTypeOK, CardCall
  <2> QED
    BY <1>1, <2>1, Zenon
<1>5. DatabaseTypeOK'
  BY <1>1, <1>2, <1>3, <1>4, CardRowOrNone DEF CardsTyped, GiftCardsTypeOK, DatabaseTypeOK
<1> HIDE DEF q, c, o
<1> QED
  BY <1>1, <1>2, <1>3, <1>5, CardRowOrNone, CommitStepTyped, ZenonT(90) DEF CardsTyped, GiftCardsTypeOK, DatabaseTypeOK

LEMMA WriteOffTyped ==
    ASSUME CardsTyped, NEW h \in Handler, WriteOff(h)
    PROVE  CardsTyped'
<1> DEFINE c == job[h].card
           r == [card[c] EXCEPT !.status = "CANCELLED", !.balance = 0]
           off == Max({0, job[h].seen.balance})
<1>1. /\ pc[h] = "writing_off"
      /\ card' = [card EXCEPT ![c].status = "CANCELLED", ![c].balance = 0]
      /\ ledger' = [ledger EXCEPT ![c] = @ - off]
      /\ staleWrite' = (staleWrite \/ job[h].stale)
      /\ CommitOf(h, c)
      /\ UNCHANGED <<purchase, order, credits, announced, expired>>
  BY DEF WriteOff
<1>2. c \in Card /\ job[h].seen \in CardRow /\ job[h].seen # NoCard
  BY <1>1 DEF CardCall, CardsTyped, GiftCardsTypeOK, ProcessTypeOK, HandlersKnow
<1>3. card[c] \in CardRow /\ card[c] # NoCard
  <2>1. card[c] # NoCard
    BY <1>2 DEF CardsTyped, CardsStay
  <2>2. card[c] \in CardRow \cup {NoCard}
    BY <1>2 DEF CardsTyped, GiftCardsTypeOK, DatabaseTypeOK
  <2> QED
    BY <2>1, <2>2
<1>4. r \in CardRow
  <2>1. ASSUME NEW w \in CardRow, NEW status \in GiftCardStatus, NEW balance \in Int
        PROVE  [w EXCEPT !.status = status, !.balance = balance] \in CardRow
    BY <2>1 DEF CardRow
  <2>2. "CANCELLED" \in GiftCardStatus /\ 0 \in Int
    BY DEF GiftCardStatus
  <2> QED
    BY <1>3, <2>1, <2>2
<1>5. card' = [card EXCEPT ![c] = r]
  BY <1>1, <1>2, <1>3 DEF CardRow, CardsTyped, GiftCardsTypeOK, DatabaseTypeOK
<1>6. off \in Int
  <2>1. job[h].seen.balance \in Int /\ 0 \in Int
    BY <1>2, CardRowOrNone
  <2>2. off \in {0, job[h].seen.balance}
    BY <2>1, MaxOfTwo, Zenon
  <2> QED
    BY <2>1, <2>2
<1>7. staleWrite' \in BOOLEAN
  <2>1. job[h].stale \in BOOLEAN /\ staleWrite \in BOOLEAN
    BY DEF CardsTyped, GiftCardsTypeOK, DatabaseTypeOK, ProcessTypeOK, CardCall
  <2> QED
    BY <1>1, <2>1, Zenon
<1> HIDE DEF r, off
<1>8. DatabaseTypeOK'
  <2>1. card' \in [Card -> CardRow \cup {NoCard}]
    BY <1>2, <1>4, <1>5 DEF CardsTyped, GiftCardsTypeOK, DatabaseTypeOK
  <2>2. ledger' \in [Card -> Int]
    <3>1. ledger' = [ledger EXCEPT ![c] = @ - off] /\ ledger \in [Card -> Int]
      BY <1>1 DEF CardsTyped, GiftCardsTypeOK, DatabaseTypeOK
    <3> QED
      BY <1>2, <1>6, <3>1
  <2> QED
    BY <1>1, <1>7, <2>1, <2>2 DEF CardsTyped, GiftCardsTypeOK, DatabaseTypeOK
<1>9. ProcessTypeOK'
  BY <1>1, <1>2, CommitTyped DEF CardsTyped, GiftCardsTypeOK, ProcessTypeOK
<1>10. \A d \in Card : card[d] # NoCard => card'[d] # NoCard
  BY <1>4, <1>5, CardRowOrNone DEF CardsTyped, GiftCardsTypeOK, DatabaseTypeOK
<1>11. \A o \in Order : order'[o] # NoOrder => card'[order'[o].card] # NoCard
  BY <1>1, <1>10, CardRowOrNone DEF CardsTyped, GiftCardsTypeOK, DatabaseTypeOK, CardsStay
<1>12. \A g \in Handler : \/ pc'[g] = "idle" /\ job'[g] = NoCardCall
                          \/ pc'[g] = pc[g] /\ SameRows(job'[g], job[g])
  BY <1>1, <1>2, CommitTyped DEF SameRows, CardsTyped, GiftCardsTypeOK, ProcessTypeOK
<1> QED
  BY <1>1, <1>8, <1>9, <1>10, <1>11, <1>12, RowsTyped

LEMMA CancelAgainTyped ==
    ASSUME CardsTyped, NEW h \in Handler, CancelAgain(h)
    PROVE  CardsTyped'
<1> DEFINE o == job[h].order
           q == [order[o] EXCEPT !.status = "CANCELLED"]
<1>1. /\ pc[h] = "cancelling"
      /\ order' = [order EXCEPT ![o].status = "CANCELLED"]
      /\ Goto(h, "idle", NoCardCall)
      /\ UNCHANGED <<cardVars, credits, announced, expired, staleWrite>>
  BY DEF CancelAgain
<1>2. o \in Order /\ order[o] # NoOrder /\ order[o] \in Placed
  BY <1>1 DEF CardsTyped, GiftCardsTypeOK, DatabaseTypeOK, HandlersKnow
<1>3. q \in Placed /\ q.card = order[o].card /\ order' = [order EXCEPT ![o] = q]
  BY <1>1, <1>2 DEF Placed, CardsTyped, GiftCardsTypeOK, DatabaseTypeOK
<1> HIDE DEF q, o
<1>4. /\ order' \in [Order -> Placed \cup {NoOrder}]
      /\ \A p \in Order : order[p] # NoOrder => order'[p] # NoOrder /\ order'[p].card = order[p].card
      /\ \A p \in Order : order'[p] # NoOrder => order[p] # NoOrder
  BY <1>2, <1>3, CardRowOrNone DEF CardsTyped, GiftCardsTypeOK, DatabaseTypeOK
<1>5. DatabaseTypeOK' /\ ProcessTypeOK'
  BY <1>1, <1>4, NoJobIsAJob DEF Goto, cardVars, CardsTyped, GiftCardsTypeOK, DatabaseTypeOK, ProcessTypeOK
<1>6. \A g \in Handler : \/ pc'[g] = "idle" /\ job'[g] = NoCardCall
                         \/ pc'[g] = pc[g] /\ SameRows(job'[g], job[g])
  BY <1>1 DEF Goto, SameRows, CardsTyped, GiftCardsTypeOK, ProcessTypeOK
<1>7. card' = card /\ \A p \in Order : order'[p] # NoOrder => card'[order'[p].card] # NoCard
  BY <1>1, <1>4 DEF cardVars, CardsTyped, CardsStay
<1> QED
  BY <1>4, <1>5, <1>6, <1>7, RowsTyped

LEMMA CrashTyped ==
    ASSUME CardsTyped, ProcessStops
    PROVE  CardsTyped'
<1>1. /\ pc' = [h \in Handler |-> "idle"]
      /\ job' = [h \in Handler |-> NoCardCall]
      /\ announced' = {}
      /\ UNCHANGED <<cardVars, order, credits, expired, staleWrite>>
  BY DEF ProcessStops
<1>2. DatabaseTypeOK'
  BY <1>1 DEF cardVars, CardsTyped, GiftCardsTypeOK, DatabaseTypeOK
<1>3. ProcessTypeOK'
  BY <1>1, NoJobIsAJob DEF ProcessTypeOK
<1> QED
  BY <1>1, <1>2, <1>3, RowsTyped DEF cardVars, CardsTyped, CardsStay

LEMMA GiftCardsStepTyped == CardsTyped /\ [GiftCardsNext]_giftCardsVars => CardsTyped'
<1> SUFFICES ASSUME CardsTyped, [GiftCardsNext]_giftCardsVars
             PROVE  CardsTyped'
  OBVIOUS
<1>1. ASSUME NEW h \in Handler, CardCallStep(h)
      PROVE  CardsTyped'
  <2>1. CheckoutRefused(h) \/ RolledBack(h) => CardsTyped'
    BY CallEndTyped DEF CheckoutRefused, RolledBack
  <2> QED
    BY <1>1, <2>1, BeginTyped, CancelStepTyped, CheckoutCommitTyped, CreditTyped, WriteOffTyped,
       CancelAgainTyped DEF CardCallStep
<1>2. CASE UNCHANGED giftCardsVars
  <2>1. UNCHANGED <<card, ledger, purchase, order, credits, announced, pc, job, expired, staleWrite>>
    BY <1>2 DEF giftCardsVars
  <2>2. DatabaseTypeOK' /\ ProcessTypeOK'
    BY <2>1 DEF CardsTyped, GiftCardsTypeOK, DatabaseTypeOK, ProcessTypeOK
  <2> QED
    BY <2>1, <2>2, RowsTyped DEF SameRows, CardsTyped, CardsStay
<1> QED
  BY <1>1, <1>2, CreateTyped, CardStepTyped, OrderStepTyped, CrashTyped DEF GiftCardsNext

\* Every reachable state is well typed: a handler's card and order are there,
\* and a card is never credited for an order it did not pay.
THEOREM GiftCardsTypeCorrect == GiftCardsSpec => []GiftCardsTypeOK
<1>1. CardsTyped => GiftCardsTypeOK
  BY DEF CardsTyped
<1> QED
  BY GiftCardsInitTyped, GiftCardsStepTyped, <1>1, PTL DEF GiftCardsSpec

-----------------------------------------------------------------------------
(* No order has its card credited twice *)

\* The statements a cancellation runs while it holds its order's inventory rows.
Locked == {"counting", "reading", "crediting", "cancelling"}

\* Two cancellations of one order never hold its rows together, ...
Turns ==
    \A g, h \in Handler :
        g # h /\ pc[g] \in Locked /\ pc[h] \in Locked => job[g].order # job[h].order

\* ... so what one has counted is still so when it writes.
CountedOnce == \A h \in Handler : pc[h] \in {"reading", "crediting"} => credits[job[h].order] = 0

OneCreditInv == Turns /\ CountedOnce /\ CreditedOnce

LEMMA InitOneCredit == GiftCardsInit => OneCreditInv
BY DEF GiftCardsInit, OneCreditInv, Turns, CountedOnce, CreditedOnce, Locked

\* A step that credits nothing, and lets no handler into a locked statement.
LEMMA OthersCreditNothing ==
    ASSUME OneCreditInv, credits' = credits,
           \A g \in Handler : \/ pc'[g] \notin Locked
                              \/ pc'[g] = pc[g] /\ job'[g].order = job[g].order
    PROVE  OneCreditInv'
BY DEF OneCreditInv, Turns, CountedOnce, CreditedOnce, Locked

LEMMA StepOneCredit == CardsTyped /\ OneCreditInv /\ [GiftCardsNext]_giftCardsVars => OneCreditInv'
<1> SUFFICES ASSUME CardsTyped, OneCreditInv, [GiftCardsNext]_giftCardsVars
             PROVE  OneCreditInv'
  OBVIOUS
<1> USE DEF Locked
<1>1. pc \in [Handler -> CardPlaces] /\ job \in [Handler -> CardCall] /\ credits \in [Order -> Nat]
  BY DEF CardPlaces, CardsTyped, GiftCardsTypeOK, DatabaseTypeOK, ProcessTypeOK
<1>2. ASSUME NEW h \in Handler, NEW where \in CardPlaces \ Locked, NEW j \in CardCall, Goto(h, where, j),
             credits' = credits
      PROVE  OneCreditInv'
  BY <1>1, <1>2, OthersCreditNothing DEF Goto
<1>3. ASSUME NEW h \in Handler, Restock(h)
      PROVE  OneCreditInv'
  <2>1. /\ pc[h] = "restocking" /\ pc' = [pc EXCEPT ![h] = "counting"]
        /\ \A g \in Handler : job'[g] = job[g]
        /\ \A v \in Handler \ {h} : job[v].order = job[h].order => pc[v] \notin Locked
        /\ credits' = credits
    BY <1>1, <1>3 DEF Restock, Goto
  <2> QED
    BY <1>1, <2>1 DEF OneCreditInv, Turns, CountedOnce, CreditedOnce
<1>4. ASSUME NEW h \in Handler, CountCredits(h)
      PROVE  OneCreditInv'
  <2>1. /\ pc[h] = "counting"
        /\ pc' = [pc EXCEPT ![h] = IF credits[job[h].order] > 0 THEN "cancelling" ELSE "reading"]
        /\ \A g \in Handler : job'[g] = job[g]
        /\ credits' = credits
    BY <1>1, <1>4 DEF CountCredits, Goto
  <2>2. credits[job[h].order] \in Nat
    BY <1>1, <2>1 DEF CardsTyped, GiftCardsTypeOK, HandlersKnow
  <2> QED
    BY <1>1, <2>1, <2>2 DEF OneCreditInv, Turns, CountedOnce, CreditedOnce
<1>5. ASSUME NEW h \in Handler, ReadCard(h)
      PROVE  OneCreditInv'
  <2>1. /\ pc[h] = "reading" /\ pc' = [pc EXCEPT ![h] = "crediting"]
        /\ \A g \in Handler : job'[g].order = job[g].order
        /\ credits' = credits
    BY <1>1, <1>5 DEF ReadCard, Goto, CardCall
  <2> QED
    BY <1>1, <2>1 DEF OneCreditInv, Turns, CountedOnce, CreditedOnce
<1>6. ASSUME NEW h \in Handler, Credit(h)
      PROVE  OneCreditInv'
  <2>1. job[h].card \in Card /\ job[h].order \in Order
    BY <1>6, CreditWrites
  <2>2. /\ pc[h] = "crediting" /\ pc' = [pc EXCEPT ![h] = "idle"]
        /\ \A g \in Handler \ {h} : job'[g].order = job[g].order
        /\ credits' = [credits EXCEPT ![job[h].order] = @ + 1]
    BY <1>6, <2>1, CommitTyped DEF Credit, CardsTyped, GiftCardsTypeOK
  <2>3. Turns'
    BY <1>1, <2>2 DEF OneCreditInv, Turns
  <2>4. CountedOnce'
    BY <1>1, <2>1, <2>2 DEF OneCreditInv, Turns, CountedOnce
  <2>5. CreditedOnce'
    BY <1>1, <2>1, <2>2 DEF OneCreditInv, CountedOnce, CreditedOnce
  <2> QED
    BY <2>3, <2>4, <2>5 DEF OneCreditInv
<1>7. ASSUME NEW h \in Handler, NEW c \in Card, CommitOf(h, c), credits' = credits
      PROVE  OneCreditInv'
  <2>1. \A g \in Handler : \/ pc'[g] \notin Locked
                           \/ pc'[g] = pc[g] /\ job'[g].order = job[g].order
    BY <1>1, <1>7, CommitTyped DEF CardsTyped, GiftCardsTypeOK
  <2> QED
    BY <1>7, <2>1, OthersCreditNothing
<1>8. ASSUME NEW h \in Handler, CardCallStep(h)
      PROVE  OneCreditInv'
  <2>2. ASSUME NEW c \in Card, NEW total \in Totals, CheckoutBegin(h, c, total)
        PROVE  OneCreditInv'
    <3>1. [NoCardCall EXCEPT !.card = c, !.seen = card[c], !.total = total] \in CardCall
      BY DEF NoCardCall, CardCall, CardsTyped, GiftCardsTypeOK, DatabaseTypeOK
    <3> QED
      BY <1>2, <2>2, <3>1 DEF CheckoutBegin, CardPlaces
  <2>3. ASSUME NEW o \in Order, CheckoutCommit(h, o)
        PROVE  OneCreditInv'
    <3>1. job[h].card \in Card
      BY <2>3 DEF CheckoutCommit, CardsTyped, GiftCardsTypeOK, HandlersKnow
    <3> QED
      BY <1>7, <2>3, <3>1 DEF CheckoutCommit, Redeem
  <2>4. CASE CheckoutRefused(h) \/ RolledBack(h) \/ CancelAgain(h)
    BY <1>2, <2>4, NoJobIsAJob DEF CheckoutRefused, RolledBack, CancelAgain, CardPlaces
  <2>5. ASSUME NEW o \in Order, CancelBegin(h, o)
        PROVE  OneCreditInv'
    <3>1. [NoCardCall EXCEPT !.order = o] \in CardCall
      BY DEF NoCardCall, CardCall
    <3> QED
      BY <1>2, <2>5, <3>1 DEF CancelBegin, CardPlaces
  <2>6. ASSUME NEW c \in Card, WriteOffRead(h, c)
        PROVE  OneCreditInv'
    <3>1. [NoCardCall EXCEPT !.card = c, !.seen = card[c]] \in CardCall
      BY DEF NoCardCall, CardCall, CardsTyped, GiftCardsTypeOK, DatabaseTypeOK
    <3> QED
      BY <1>2, <2>6, <3>1 DEF WriteOffRead, CardPlaces
  <2>7. CASE WriteOff(h)
    <3>1. job[h].card \in Card
      BY <2>7 DEF WriteOff, CardsTyped, GiftCardsTypeOK, HandlersKnow
    <3> QED
      BY <1>7, <2>7, <3>1 DEF WriteOff
  <2> QED
    BY <1>3, <1>4, <1>5, <1>6, <1>8, <2>2, <2>3, <2>4, <2>5, <2>6, <2>7 DEF CardCallStep
<1>9. ASSUME credits' = credits, pc' = pc, \A g \in Handler : job'[g].order = job[g].order
      PROVE  OneCreditInv'
  BY <1>9, OthersCreditNothing
<1>10. ASSUME NEW c \in Card, activateForOrder(c)
       PROVE  OneCreditInv'
  BY <1>9, <1>10, OutdateTyped DEF activateForOrder, CardsTyped, GiftCardsTypeOK
<1>11. CASE ProcessStops
  BY <1>1, <1>11, OthersCreditNothing DEF ProcessStops
<1>12. ASSUME NEW c \in Card, NEW value \in Values, issueGiftCard(c, value) \/ purchaseGiftCard(c, value)
       PROVE  OneCreditInv'
  BY <1>9, <1>12 DEF issueGiftCard, purchaseGiftCard, handlers
<1>13. ASSUME NEW c \in Card, PurchasePaid(c) \/ PurchaseCancelled(c) \/ Expire(c)
       PROVE  OneCreditInv'
  BY <1>9, <1>13 DEF PurchasePaid, PurchaseCancelled, Expire, handlers
<1>14. ASSUME NEW o \in Order, Pay(o) \/ DeleteOrder(o)
       PROVE  OneCreditInv'
  BY <1>9, <1>14 DEF Pay, DeleteOrder, handlers
<1>15. CASE UNCHANGED giftCardsVars
  BY <1>9, <1>15 DEF giftCardsVars
<1> QED
  BY <1>8, <1>10, <1>11, <1>12, <1>13, <1>14, <1>15 DEF GiftCardsNext

\* However many cancellations of one order run at once, and however often they
\* are retried, its card is credited at most once.
THEOREM OneCreditPerOrder == GiftCardsSpec => []CreditedOnce
<1>1. OneCreditInv => CreditedOnce
  BY DEF OneCreditInv
<1> QED
  BY GiftCardsInitTyped, GiftCardsStepTyped, InitOneCredit, StepOneCredit, <1>1, PTL DEF GiftCardsSpec

-----------------------------------------------------------------------------
(* The ledger adds up *)

\* No card is in debt, ...
NonNegative ==
    /\ \A c \in Card : card[c].balance >= 0
    /\ \A h \in Handler : job[h].seen.balance >= 0

\* ... what a handler has read of a card nobody has written since is still so, ...
ReadFresh ==
    \A h \in Handler :
        job[h].card \in Card /\ job[h].seen # NoCard /\ ~job[h].stale =>
            job[h].seen = card[job[h].card]

\* ... so a write that is not stale moves balance and ledger by the same amount.
LedgerInv == NonNegative /\ ReadFresh /\ LedgerAddsUp

LEMMA InitLedger == GiftCardsInit => LedgerInv
<1>1. NoCard.balance = 0
  BY DEF NoCard
<1> QED
  BY <1>1, NoJobIsAJob DEF GiftCardsInit, LedgerInv, NonNegative, ReadFresh, LedgerAddsUp

\* A step that writes no card, and one handler's job at most.
LEMMA JobWritten ==
    ASSUME CardsTyped, LedgerInv, UNCHANGED <<card, ledger, staleWrite>>, NEW h \in Handler, NEW j \in CardCall,
           job' = [job EXCEPT ![h] = j],
           j.seen.balance >= 0,
           j.card \in Card /\ j.seen # NoCard /\ ~j.stale => j.seen = card[j.card]
    PROVE  LedgerInv'
<1>1. job \in [Handler -> CardCall]
  BY DEF CardsTyped, GiftCardsTypeOK, ProcessTypeOK
<1>2. \A g \in Handler : job'[g] = IF g = h THEN j ELSE job[g]
  BY <1>1
<1>3. NonNegative'
  BY <1>2 DEF LedgerInv, NonNegative
<1>4. ReadFresh'
  BY <1>2 DEF LedgerInv, ReadFresh
<1>5. LedgerAddsUp'
  BY DEF LedgerInv, LedgerAddsUp
<1> QED
  BY <1>3, <1>4, <1>5 DEF LedgerInv

\* The same for a job that has read no card.
LEMMA EmptyJobWritten ==
    ASSUME CardsTyped, LedgerInv, UNCHANGED <<card, ledger, staleWrite>>, NEW h \in Handler, NEW j \in CardCall,
           job' = [job EXCEPT ![h] = j], j.seen = NoCard
    PROVE  LedgerInv'
<1>1. NoCard.balance >= 0
  BY DEF NoCard
<1>2. j.seen.balance >= 0
  BY <1>1
<1>3. ~(j.card \in Card /\ j.seen # NoCard /\ ~j.stale)
  OBVIOUS
<1> QED
  BY <1>2, <1>3, JobWritten

\* A step that writes card c, and outdates what others have read of it.
LEMMA CardWritten ==
    ASSUME CardsTyped, LedgerInv, NEW c \in Card, NEW r \in CardRow,
           card' = [card EXCEPT ![c] = r],
           r.balance >= 0,
           \A d \in Card \ {c} : ledger'[d] = ledger[d],
           ~staleWrite' => ~staleWrite /\ ledger'[c] = r.balance,
           \A g \in Handler : \/ job'[g] = NoCardCall
                              \/ /\ SameRows(job'[g], job[g])
                                 /\ job[g].seen # NoCard /\ ~job'[g].stale =>
                                        ~job[g].stale /\ job[g].card # c
    PROVE  LedgerInv'
<1>1. card \in [Card -> CardRow \cup {NoCard}] /\ job \in [Handler -> CardCall]
  BY DEF CardsTyped, GiftCardsTypeOK, DatabaseTypeOK, ProcessTypeOK
<1>2. \A d \in Card : card'[d] = IF d = c THEN r ELSE card[d]
  BY <1>1
<1>3. NoCardCall.seen = NoCard /\ NoCard.balance = 0
  BY DEF NoCardCall, NoCard
<1>4. NonNegative'
  BY <1>2, <1>3 DEF LedgerInv, NonNegative, SameRows
<1>5. ReadFresh'
  <2> SUFFICES ASSUME NEW g \in Handler, job'[g].card \in Card, job'[g].seen # NoCard, ~job'[g].stale
               PROVE  job'[g].seen = card'[job'[g].card]
    BY DEF ReadFresh
  <2>1. SameRows(job'[g], job[g]) /\ ~job[g].stale /\ job[g].card # c /\ job[g].seen # NoCard
        /\ job[g].card \in Card
    BY <1>3 DEF SameRows
  <2>2. job[g].seen = card[job[g].card]
    BY <2>1 DEF LedgerInv, ReadFresh
  <2> QED
    BY <1>1, <2>1, <2>2 DEF SameRows
<1>6. LedgerAddsUp'
  BY <1>2 DEF LedgerInv, LedgerAddsUp
<1> QED
  BY <1>4, <1>5, <1>6 DEF LedgerInv

\* The three commits that write a card, and what they do to its ledger.
LEMMA CommitOutdates ==
    ASSUME CardsTyped, NEW h \in Handler, NEW c \in Card, CommitOf(h, c)
    PROVE  \A g \in Handler : \/ job'[g] = NoCardCall
                              \/ /\ SameRows(job'[g], job[g])
                                 /\ job[g].seen # NoCard /\ ~job'[g].stale =>
                                        ~job[g].stale /\ job[g].card # c
<1> SUFFICES ASSUME NEW g \in Handler \ {h}
             PROVE  /\ SameRows(job'[g], job[g])
                    /\ ~job'[g].stale => ~job[g].stale /\ job[g].card # c
  BY CommitTyped DEF CardsTyped, GiftCardsTypeOK
<1>1. SameRows(job'[g], job[g])
  BY CommitTyped DEF SameRows, CardsTyped, GiftCardsTypeOK
<1>2. job'[g].stale = (job[g].stale \/ job[g].card = c)
  BY CommitTyped DEF CardsTyped, GiftCardsTypeOK
<1>3. ~job'[g].stale => ~job[g].stale /\ job[g].card # c
  BY <1>2, Zenon
<1> QED
  BY <1>1, <1>3

LEMMA CheckoutCommitLedger ==
    ASSUME CardsTyped, LedgerInv, NEW h \in Handler, NEW o \in Order, CheckoutCommit(h, o)
    PROVE  LedgerInv'
<1> DEFINE c     == job[h].card
           seen  == job[h].seen
           taken == Min({seen.balance, job[h].total})
           left  == seen.balance - taken
           r     == [card[c] EXCEPT !.balance = left,
                                    !.status = IF left = 0 THEN "REDEEMED" ELSE "ACTIVE"]
<1>1. /\ pc[h] = "redeeming" /\ Spendable(h) /\ ~job[h].stale
      /\ card' = [card EXCEPT ![c].balance = left,
                              ![c].status = IF left = 0 THEN "REDEEMED" ELSE "ACTIVE"]
      /\ ledger' = [ledger EXCEPT ![c] = @ - taken]
      /\ CommitOf(h, c)
      /\ staleWrite' = staleWrite
  BY DEF CheckoutCommit, Redeem
<1>2. c \in Card /\ job[h].total \in Totals
  BY <1>1 DEF CardsTyped, GiftCardsTypeOK, HandlersKnow
<1>3. seen # NoCard
  BY <1>1 DEF Spendable, NoCard
<1>4. seen = card[c] /\ card[c] \in CardRow
  BY <1>1, <1>2, <1>3 DEF LedgerInv, ReadFresh, CardsTyped, GiftCardsTypeOK, DatabaseTypeOK
<1>5. seen.balance \in Int /\ seen.balance > 0 /\ job[h].total \in Int
  BY <1>1, <1>2, <1>4, CardRowOrNone, GiftCardsAssumption DEF Spendable
<1>6. taken <= seen.balance /\ taken \in Int
  <2>1. taken \in {seen.balance, job[h].total} /\ taken <= seen.balance
    BY <1>5, MinOfTwo, Zenon
  <2> QED
    BY <1>5, <2>1
<1>7. left \in Int /\ left >= 0
  BY <1>5, <1>6
<1> HIDE DEF taken
<1>8. r \in CardRow /\ r.balance = left
  <2> HIDE DEF left
  <2> QED
    BY <1>4, <1>7 DEF CardRow, GiftCardStatus
<1>9. card' = [card EXCEPT ![c] = r]
  BY <1>1, <1>2, <1>4 DEF CardRow, CardsTyped, GiftCardsTypeOK, DatabaseTypeOK
<1>10. ledger'[c] = ledger[c] - taken /\ ledger[c] \in Int /\ \A d \in Card \ {c} : ledger'[d] = ledger[d]
  BY <1>1, <1>2 DEF CardsTyped, GiftCardsTypeOK, DatabaseTypeOK
<1>11. ~staleWrite' => ~staleWrite /\ ledger'[c] = r.balance
  <2>1. ~staleWrite => ledger[c] = card[c].balance
    BY <1>2 DEF LedgerInv, LedgerAddsUp
  <2> QED
    BY <1>1, <1>4, <1>8, <1>10, <2>1
<1> HIDE DEF r, left
<1> QED
  BY <1>1, <1>2, <1>7, <1>8, <1>9, <1>10, <1>11, CommitOutdates, CardWritten, ZenonT(90)

LEMMA CreditLedger ==
    ASSUME CardsTyped, LedgerInv, NEW h \in Handler, Credit(h)
    PROVE  LedgerInv'
<1> DEFINE c == job[h].card
           amount == order[job[h].order].giftCardAmount
           r == Credited(job[h])
<1>1. /\ ledger' = [ledger EXCEPT ![c] = @ + amount]
      /\ CommitOf(h, c)
      /\ staleWrite' = (staleWrite \/ job[h].stale)
  BY DEF Credit
<1>2. /\ c \in Card /\ job[h].seen \in CardRow /\ card[c] \in CardRow /\ r \in CardRow
      /\ order[job[h].order] \in Placed
      /\ card' = [card EXCEPT ![c] = r]
  BY CreditWrites
<1>3. amount \in Nat /\ job[h].seen.balance \in Int /\ job[h].seen.balance >= 0 /\ job[h].seen # NoCard
  BY <1>2, CardRowOrNone DEF LedgerInv, NonNegative
<1>4. r.balance = job[h].seen.balance + amount
  BY <1>2 DEF Credited, CardRow
<1>5. ledger'[c] = ledger[c] + amount /\ ledger[c] \in Int /\ \A d \in Card \ {c} : ledger'[d] = ledger[d]
  BY <1>1, <1>2 DEF CardsTyped, GiftCardsTypeOK, DatabaseTypeOK
<1>6. ~staleWrite' => ~staleWrite /\ ~job[h].stale
  BY <1>1, Zenon
<1>7. ~job[h].stale => job[h].seen = card[c]
  BY <1>2, <1>3 DEF LedgerInv, ReadFresh
<1>8. ~staleWrite => ledger[c] = card[c].balance
  BY <1>2 DEF LedgerInv, LedgerAddsUp
<1>9. ~staleWrite' => ~staleWrite /\ ledger'[c] = r.balance
  BY <1>3, <1>4, <1>5, <1>6, <1>7, <1>8
<1>10. r.balance >= 0
  BY <1>3, <1>4
<1> HIDE DEF r, amount
<1> QED
  BY <1>1, <1>2, <1>5, <1>9, <1>10, CommitOutdates, CardWritten

LEMMA WriteOffLedger ==
    ASSUME CardsTyped, LedgerInv, NEW h \in Handler, WriteOff(h)
    PROVE  LedgerInv'
<1> DEFINE c == job[h].card
           r == [card[c] EXCEPT !.status = "CANCELLED", !.balance = 0]
           off == Max({0, job[h].seen.balance})
<1>1. /\ pc[h] = "writing_off"
      /\ card' = [card EXCEPT ![c].status = "CANCELLED", ![c].balance = 0]
      /\ ledger' = [ledger EXCEPT ![c] = @ - off]
      /\ staleWrite' = (staleWrite \/ job[h].stale)
      /\ CommitOf(h, c)
  BY DEF WriteOff
<1>2. c \in Card /\ job[h].seen # NoCard /\ job[h].seen \in CardRow \cup {NoCard}
  BY <1>1 DEF CardCall, CardsTyped, GiftCardsTypeOK, ProcessTypeOK, HandlersKnow
<1>3. card[c] \in CardRow
  <2>1. card[c] # NoCard
    BY <1>2 DEF CardsTyped, CardsStay
  <2> QED
    BY <1>2, <2>1 DEF CardsTyped, GiftCardsTypeOK, DatabaseTypeOK
<1>4. r \in CardRow /\ r.balance = 0
  <2>1. ASSUME NEW w \in CardRow, NEW status \in GiftCardStatus, NEW balance \in Int
        PROVE  /\ [w EXCEPT !.status = status, !.balance = balance] \in CardRow
               /\ [w EXCEPT !.status = status, !.balance = balance].balance = balance
    BY <2>1 DEF CardRow
  <2>2. "CANCELLED" \in GiftCardStatus /\ 0 \in Int
    BY DEF GiftCardStatus
  <2> QED
    BY <1>3, <2>1, <2>2, ZenonT(90)
<1>5. card' = [card EXCEPT ![c] = r]
  BY <1>1, <1>2, <1>3 DEF CardRow, CardsTyped, GiftCardsTypeOK, DatabaseTypeOK
<1>6. off = job[h].seen.balance /\ off \in Int
  <2>1. job[h].seen.balance \in Int /\ 0 \in Int /\ job[h].seen.balance >= 0
    BY <1>2, CardRowOrNone DEF LedgerInv, NonNegative
  <2>2. off \in {0, job[h].seen.balance} /\ off >= job[h].seen.balance
    BY <2>1, MaxOfTwo, Zenon
  <2> QED
    BY <2>1, <2>2
<1> HIDE DEF off
<1>7. ledger' = [ledger EXCEPT ![c] = @ - off] /\ ledger \in [Card -> Int]
  BY <1>1 DEF CardsTyped, GiftCardsTypeOK, DatabaseTypeOK
<1>8. ledger'[c] = ledger[c] - off /\ ledger[c] \in Int /\ \A d \in Card \ {c} : ledger'[d] = ledger[d]
  BY <1>2, <1>7
<1>9. ~staleWrite' => ~staleWrite /\ ~job[h].stale
  BY <1>1, Zenon
<1>10. ~job[h].stale => job[h].seen = card[c]
  BY <1>2 DEF LedgerInv, ReadFresh
<1>11. ~staleWrite => ledger[c] = card[c].balance
  BY <1>2 DEF LedgerInv, LedgerAddsUp
<1>12. ~staleWrite' => ~staleWrite /\ ledger'[c] = r.balance
  BY <1>4, <1>6, <1>8, <1>9, <1>10, <1>11
<1>13. r.balance >= 0
  BY <1>4
<1>14. CommitOf(h, c)
  BY <1>1
<1> HIDE DEF r
<1> QED
  BY <1>2, <1>4, <1>5, <1>8, <1>12, <1>13, <1>14, CommitOutdates, CardWritten

\* A card nobody has yet is in nobody's hands.
LEMMA CreateLedger ==
    ASSUME CardsTyped, LedgerInv, NEW c \in Card, NEW value \in Values,
           issueGiftCard(c, value) \/ purchaseGiftCard(c, value)
    PROVE  LedgerInv'
<1>1. PICK status \in {"ACTIVE", "PENDING"} : Create(c, value, status)
  BY DEF issueGiftCard, purchaseGiftCard
<1> DEFINE r == [status |-> status, balance |-> value, value |-> value]
<1>2. /\ card[c] = NoCard
      /\ card' = [card EXCEPT ![c] = r]
      /\ ledger' = [ledger EXCEPT ![c] = value]
      /\ UNCHANGED <<job, staleWrite>>
  BY <1>1 DEF Create, issueGiftCard, purchaseGiftCard, handlers
<1>3. value \in Int /\ value >= 0
  BY GiftCardsAssumption
<1>4. r \in CardRow /\ r.balance = value
  BY <1>3 DEF CardRow, GiftCardStatus
<1>5. ledger'[c] = value /\ \A d \in Card \ {c} : ledger'[d] = ledger[d]
  BY <1>2 DEF CardsTyped, GiftCardsTypeOK, DatabaseTypeOK
<1>6. \A g \in Handler : job[g].seen # NoCard => job[g].card # c
  BY <1>2 DEF CardsTyped, CardsStay
<1>7. \A g \in Handler : SameRows(job'[g], job[g]) /\ job'[g].stale = job[g].stale
  BY <1>2 DEF SameRows
<1> HIDE DEF r
<1> QED
  BY <1>2, <1>3, <1>4, <1>5, <1>6, <1>7, CardWritten

LEMMA ActivateLedger ==
    ASSUME CardsTyped, LedgerInv, NEW c \in Card, activateForOrder(c)
    PROVE  LedgerInv'
<1>1. CASE card[c].status = "PENDING"
  <2> DEFINE r == [card[c] EXCEPT !.status = "ACTIVE"]
  <2>1. /\ card' = [card EXCEPT ![c].status = "ACTIVE"]
        /\ job' = Outdate(c)
        /\ UNCHANGED <<ledger, staleWrite>>
    BY <1>1 DEF activateForOrder
  <2>2. card[c] \in CardRow
    BY <1>1 DEF NoCard, CardsTyped, GiftCardsTypeOK, DatabaseTypeOK
  <2>3. r \in CardRow /\ r.balance = card[c].balance
    BY <2>2 DEF CardRow, GiftCardStatus
  <2>4. card' = [card EXCEPT ![c] = r]
    BY <2>1
  <2>5. r.balance >= 0
    BY <2>3 DEF LedgerInv, NonNegative
  <2>6. ~staleWrite' => ~staleWrite /\ ledger'[c] = r.balance
    BY <2>1, <2>3 DEF LedgerInv, LedgerAddsUp
  <2>7. \A g \in Handler : /\ SameRows(job'[g], job[g])
                           /\ job[g].seen # NoCard /\ ~job'[g].stale => ~job[g].stale /\ job[g].card # c
    BY <2>1, OutdateTyped DEF SameRows, CardsTyped, GiftCardsTypeOK
  <2> HIDE DEF r
  <2> QED
    BY <2>1, <2>3, <2>4, <2>5, <2>6, <2>7, CardWritten
<1>2. CASE card[c].status # "PENDING"
  <2>1. UNCHANGED <<card, ledger, job, staleWrite>>
    BY <1>2 DEF activateForOrder
  <2> QED
    BY <2>1 DEF LedgerInv, NonNegative, ReadFresh, LedgerAddsUp
<1> QED
  BY <1>1, <1>2

LEMMA StepLedger == CardsTyped /\ LedgerInv /\ [GiftCardsNext]_giftCardsVars => LedgerInv'
<1> SUFFICES ASSUME CardsTyped, LedgerInv, [GiftCardsNext]_giftCardsVars
             PROVE  LedgerInv'
  OBVIOUS
<1>1. /\ job \in [Handler -> CardCall] /\ card \in [Card -> CardRow \cup {NoCard}]
      /\ ledger \in [Card -> Int] /\ order \in [Order -> Placed \cup {NoOrder}]
  BY DEF CardsTyped, GiftCardsTypeOK, DatabaseTypeOK, ProcessTypeOK
<1>2. NoCardCall \in CardCall /\ NoCardCall.seen = NoCard /\ NoCard.balance = 0
  BY NoJobIsAJob DEF NoCard
<1>3. ASSUME NEW h \in Handler, NEW where, Goto(h, where, NoCardCall), UNCHANGED <<card, ledger, staleWrite>>
      PROVE  LedgerInv'
  BY <1>2, <1>3, EmptyJobWritten DEF Goto
<1>4. ASSUME NEW h \in Handler, NEW where, Goto(h, where, job[h]), UNCHANGED <<card, ledger, staleWrite>>
      PROVE  LedgerInv'
  <2>1. job[h] \in CardCall /\ job[h].seen.balance >= 0
    BY <1>1 DEF LedgerInv, NonNegative
  <2>2. job[h].card \in Card /\ job[h].seen # NoCard /\ ~job[h].stale => job[h].seen = card[job[h].card]
    BY DEF LedgerInv, ReadFresh
  <2> QED
    BY <1>4, <2>1, <2>2, JobWritten DEF Goto
<1>5. ASSUME NEW h \in Handler, NEW c \in Card, NEW where, NEW j \in CardCall, Goto(h, where, j),
             j.card = c, j.seen = card[c], UNCHANGED <<card, ledger, staleWrite>>
      PROVE  LedgerInv'
  <2>1. j.seen.balance >= 0
    BY <1>5 DEF LedgerInv, NonNegative
  <2> QED
    BY <1>5, <2>1, JobWritten DEF Goto
<1>6. ASSUME NEW h \in Handler, CardCallStep(h)
      PROVE  LedgerInv'
  <2>1. ASSUME NEW c \in Card, NEW total \in Totals, CheckoutBegin(h, c, total)
        PROVE  LedgerInv'
    <3> DEFINE j == [NoCardCall EXCEPT !.card = c, !.seen = card[c], !.total = total]
    <3>1. j \in CardCall /\ j.card = c /\ j.seen = card[c]
      BY <1>1 DEF NoCardCall, CardCall
    <3>2. Goto(h, "redeeming", j) /\ UNCHANGED <<card, ledger, staleWrite>>
      BY <2>1 DEF CheckoutBegin, cardVars
    <3> HIDE DEF j
    <3> QED
      BY <3>1, <3>2, <1>5
  <2>2. ASSUME NEW o \in Order, CheckoutCommit(h, o)
        PROVE  LedgerInv'
    BY <2>2, CheckoutCommitLedger
  <2>3. CASE CheckoutRefused(h) \/ RolledBack(h) \/ CancelAgain(h)
    BY <1>3, <2>3 DEF CheckoutRefused, RolledBack, CancelAgain, cardVars
  <2>4. ASSUME NEW o \in Order, CancelBegin(h, o)
        PROVE  LedgerInv'
    <3> DEFINE j == [NoCardCall EXCEPT !.order = o]
    <3>1. j \in CardCall /\ j.seen = NoCard
      BY DEF NoCardCall, CardCall
    <3>2. job' = [job EXCEPT ![h] = j] /\ UNCHANGED <<card, ledger, staleWrite>>
      BY <2>4 DEF CancelBegin, Goto, cardVars
    <3> HIDE DEF j
    <3> QED
      BY <3>1, <3>2, EmptyJobWritten
  <2>5. CASE Restock(h) \/ CountCredits(h)
    BY <1>4, <2>5 DEF Restock, CountCredits, cardVars
  <2>6. CASE ReadCard(h)
    <3> DEFINE c == order[job[h].order].card
               j == [job[h] EXCEPT !.card = c, !.seen = card[c], !.stale = FALSE]
    <3>1. job[h].order \in Order /\ order[job[h].order] # NoOrder
      BY <2>6 DEF ReadCard, CardsTyped, GiftCardsTypeOK, HandlersKnow
    <3>2. c \in Card
      BY <1>1, <3>1, CardRowOrNone
    <3>3. j \in CardCall /\ j.card = c /\ j.seen = card[c]
      BY <1>1, <3>2 DEF CardCall
    <3>4. Goto(h, "crediting", j) /\ UNCHANGED <<card, ledger, staleWrite>>
      BY <2>6 DEF ReadCard, cardVars
    <3> HIDE DEF j, c
    <3> QED
      BY <3>2, <3>3, <3>4, <1>5
  <2>7. CASE Credit(h)
    BY <2>7, CreditLedger
  <2>8. ASSUME NEW c \in Card, WriteOffRead(h, c)
        PROVE  LedgerInv'
    <3> DEFINE j == [NoCardCall EXCEPT !.card = c, !.seen = card[c]]
    <3>1. j \in CardCall /\ j.card = c /\ j.seen = card[c]
      BY <1>1 DEF NoCardCall, CardCall
    <3>2. Goto(h, "writing_off", j) /\ UNCHANGED <<card, ledger, staleWrite>>
      BY <2>8 DEF WriteOffRead, cardVars
    <3> HIDE DEF j
    <3> QED
      BY <3>1, <3>2, <1>5
  <2>9. CASE WriteOff(h)
    BY <2>9, WriteOffLedger
  <2> QED
    BY <1>6, <2>1, <2>2, <2>3, <2>4, <2>5, <2>6, <2>7, <2>8, <2>9 DEF CardCallStep
<1>7. ASSUME UNCHANGED <<card, ledger, job, staleWrite>>
      PROVE  LedgerInv'
  BY <1>7 DEF LedgerInv, NonNegative, ReadFresh, LedgerAddsUp
<1>8. ASSUME NEW c \in Card, PurchasePaid(c) \/ PurchaseCancelled(c) \/ Expire(c)
      PROVE  LedgerInv'
  BY <1>7, <1>8 DEF PurchasePaid, PurchaseCancelled, Expire, cardVars, handlers
<1>9. ASSUME NEW o \in Order, Pay(o) \/ DeleteOrder(o)
      PROVE  LedgerInv'
  BY <1>7, <1>9 DEF Pay, DeleteOrder, cardVars, handlers
<1>10. CASE ProcessStops
  <2>1. \A g \in Handler : job'[g] = NoCardCall
    BY <1>10 DEF ProcessStops
  <2>2. UNCHANGED <<card, ledger, staleWrite>>
    BY <1>10 DEF ProcessStops, cardVars
  <2> QED
    BY <1>2, <2>1, <2>2 DEF LedgerInv, NonNegative, ReadFresh, LedgerAddsUp
<1>11. CASE UNCHANGED giftCardsVars
  BY <1>7, <1>11 DEF giftCardsVars
<1> QED
  BY <1>6, <1>8, <1>9, <1>10, <1>11, CreateLedger, ActivateLedger DEF GiftCardsNext

\* A card's ledger rows sum to its balance, however many cards, orders and
\* handlers there are, as long as no write is made from a stale read.
THEOREM LedgerIsTheBalance == GiftCardsSpec => []LedgerAddsUp
<1>1. LedgerInv => LedgerAddsUp
  BY DEF LedgerInv
<1> QED
  BY GiftCardsInitTyped, GiftCardsStepTyped, InitLedger, StepLedger, <1>1, PTL DEF GiftCardsSpec

\* The ledger of every card stands, and no handler credits a card its order was
\* not paid with.
THEOREM LedgerAlwaysStands == GiftCardsSpec => []LedgerStands
<1>1. GiftCardsTypeOK /\ LedgerAddsUp => LedgerStands
  BY DEF LedgerStands
<1> QED
  BY <1>1, GiftCardsTypeCorrect, LedgerIsTheBalance, PTL

-----------------------------------------------------------------------------
(* The value of a card is what is left on it and what its orders hold *)

\* Only a cancellation that has found its order's card credited, or credits it,
\* calls the order CANCELLED, ...
Backed ==
    \A o \in Order : /\ order[o] = NoOrder => credits[o] = 0
                     /\ order[o].status = "CANCELLED" => credits[o] > 0

Ending == \A h \in Handler : pc[h] = "cancelling" => credits[job[h].order] > 0

ConservedInv == Backed /\ Ending /\ MoneyIsConserved

\* ... so what an order holds changes where the balance does.
Holders(c) == {o \in Order : order[o].card = c}

Held(c) == SumFunctionOnSet([o \in Order |-> Spent(o)], Holders(c))

Share(o, c) == IF order[o].card = c THEN Spent(o) ELSE 0

SharesMakeIt ==
    \A c \in Card : /\ Held(c) = SumFunctionOnSet([o \in Order |-> Share(o, c)], Order)
                    /\ Held(c) \in Nat
                    /\ \A o \in Order : Share(o, c) \in Nat

LEMMA SharesAreHeld == CardsTyped => SharesMakeIt
<1> SUFFICES ASSUME CardsTyped, NEW c \in Card
             PROVE  /\ Held(c) = SumFunctionOnSet([o \in Order |-> Share(o, c)], Order)
                    /\ Held(c) \in Nat
                    /\ \A o \in Order : Share(o, c) \in Nat
  BY DEF SharesMakeIt
<1>1. \A o \in Order : order[o].giftCardAmount \in Nat
  BY CardRowOrNone DEF CardsTyped, GiftCardsTypeOK, DatabaseTypeOK, NoOrder
<1>2. \A o \in Order : Spent(o) \in Nat /\ Share(o, c) \in Nat
  BY <1>1 DEF Spent, Share
<1>3. IsFiniteSet(Order) /\ Holders(c) \in SUBSET Order /\ IsFiniteSet(Holders(c))
  BY GiftCardsAssumption, FS_Subset DEF Holders
<1> DEFINE f == [o \in Order |-> Spent(o)]
           g == [o \in Order |-> Share(o, c)]
<1>4. /\ \A o \in Order : f[o] \in Nat /\ g[o] \in Int
      /\ \A o \in Order \ Holders(c) : g[o] = 0
      /\ \A o \in Holders(c) : g[o] = f[o]
  BY <1>2 DEF Share, Holders
<1>5. Held(c) = SumFunctionOnSet(f, Holders(c))
  BY DEF Held
<1> HIDE DEF f, g
<1>6. SumFunctionOnSet(g, Order) = SumFunctionOnSet(g, Holders(c))
  BY <1>3, <1>4, SumDropsZeros
<1>7. SumFunctionOnSet(g, Holders(c)) = SumFunctionOnSet(f, Holders(c))
  BY <1>3, <1>4, SumSame
<1>8. SumFunctionOnSet(f, Holders(c)) \in Nat
  BY <1>3, <1>4, SumType
<1> QED BY <1>2, <1>5, <1>6, <1>7, <1>8 DEF g

LEMMA ConservedMeans ==
    MoneyIsConserved <=>
        (~staleWrite => \A c \in Card :
            card[c].status # "CANCELLED" => card[c].value = card[c].balance + Held(c))
BY DEF MoneyIsConserved, Held, Holders

\* An order that is written changes what is held of its own card alone.
LEMMA OrderWritten ==
    ASSUME CardsTyped, CardsTyped', NEW o \in Order, NEW c \in Card,
           \A q \in Order \ {o} : order'[q] = order[q] /\ credits'[q] = credits[q]
    PROVE  /\ Held(c)' = Held(c) + (Share(o, c)' - Share(o, c))
           /\ Held(c) \in Nat /\ Held(c)' \in Nat /\ Share(o, c) \in Nat /\ Share(o, c)' \in Nat
<1>1. SharesMakeIt /\ SharesMakeIt'
  BY SharesAreHeld, PTL
<1> DEFINE f == [q \in Order |-> Share(q, c)]
           g == [q \in Order |-> Share(q, c)']
<1>2. /\ Held(c) = SumFunctionOnSet(f, Order) /\ Held(c)' = SumFunctionOnSet(g, Order)
      /\ Held(c) \in Nat /\ Held(c)' \in Nat
      /\ \A q \in Order : Share(q, c) \in Nat /\ Share(q, c)' \in Nat
  BY <1>1 DEF SharesMakeIt
<1>3. /\ \A q \in Order : f[q] \in Int /\ g[q] \in Int
      /\ f[o] = Share(o, c) /\ g[o] = Share(o, c)'
  BY <1>2
<1>4. \A q \in Order \ {o} : g[q] = f[q]
  BY DEF Share, Spent
<1> HIDE DEF f, g
<1>5. SumFunctionOnSet(g, Order) = SumFunctionOnSet(f, Order) + (g[o] - f[o])
  BY <1>3, <1>4, GiftCardsAssumption, SumWritten
<1> QED BY <1>2, <1>3, <1>5

\* No order is written, and cards keep what they have spent.
LEMMA CardsConserve ==
    ASSUME CardsTyped, MoneyIsConserved, UNCHANGED <<order, credits>>, staleWrite => staleWrite',
           \A c \in Card :
               ~staleWrite' /\ card'[c].status # "CANCELLED" =>
                   /\ card[c].status # "CANCELLED"
                   /\ \/ card'[c].value = card[c].value /\ card'[c].balance = card[c].balance
                      \/ card[c] = NoCard /\ card'[c].value = card'[c].balance /\ card'[c].balance \in Nat
    PROVE  MoneyIsConserved'
<1>1. ASSUME NEW c \in Card, ~staleWrite', card'[c].status # "CANCELLED"
      PROVE  card'[c].value = card'[c].balance + Held(c)'
  <2>1. Held(c)' = Held(c) /\ Held(c) \in Nat
    BY SharesAreHeld DEF SharesMakeIt, Held, Holders, Spent
  <2>2. ~staleWrite /\ card[c].status # "CANCELLED" /\ card[c].value = card[c].balance + Held(c)
    BY <1>1, ConservedMeans
  <2>3. CASE card[c] = NoCard /\ card'[c].value = card'[c].balance /\ card'[c].balance \in Nat
    <3>1. Held(c) = 0
      BY <2>1, <2>2, <2>3 DEF NoCard
    <3> QED BY <2>1, <2>3, <3>1
  <2> QED BY <1>1, <2>1, <2>2, <2>3
<1>2. MoneyIsConserved' <=>
        (~staleWrite' => \A c \in Card :
            card'[c].status # "CANCELLED" => card'[c].value = card'[c].balance + Held(c)')
  BY DEF MoneyIsConserved, Held, Holders
<1> QED BY <1>1, <1>2

\* One order is written, and its card by as much.
LEMMA OrderConserves ==
    ASSUME CardsTyped, CardsTyped', MoneyIsConserved, staleWrite => staleWrite', NEW o \in Order,
           \A q \in Order \ {o} : order'[q] = order[q] /\ credits'[q] = credits[q],
           \A c \in Card :
               ~staleWrite' /\ card'[c].status # "CANCELLED" =>
                   /\ card[c].status # "CANCELLED"
                   /\ card'[c].value = card[c].value
                   /\ card[c].balance \in Int
                   /\ card'[c].balance = card[c].balance - (Share(o, c)' - Share(o, c))
    PROVE  MoneyIsConserved'
<1>1. ASSUME NEW c \in Card, ~staleWrite', card'[c].status # "CANCELLED"
      PROVE  card'[c].value = card'[c].balance + Held(c)'
  <2>1. /\ Held(c)' = Held(c) + (Share(o, c)' - Share(o, c))
        /\ Held(c) \in Nat /\ Share(o, c) \in Nat /\ Share(o, c)' \in Nat
    BY OrderWritten
  <2>2. ~staleWrite /\ card[c].value = card[c].balance + Held(c)
    BY <1>1, ConservedMeans
  <2>3. /\ card'[c].value = card[c].value /\ card[c].balance \in Int
        /\ card'[c].balance = card[c].balance - (Share(o, c)' - Share(o, c))
    BY <1>1
  <2> QED BY <2>1, <2>2, <2>3
<1>2. MoneyIsConserved' <=>
        (~staleWrite' => \A c \in Card :
            card'[c].status # "CANCELLED" => card'[c].value = card'[c].balance + Held(c)')
  BY DEF MoneyIsConserved, Held, Holders
<1> QED BY <1>1, <1>2

LEMMA InitConserved == GiftCardsInit => ConservedInv
<1> SUFFICES ASSUME GiftCardsInit
             PROVE  ConservedInv
  OBVIOUS
<1>1. Backed /\ Ending
  BY DEF GiftCardsInit, Backed, Ending, NoOrder
<1>2. ASSUME NEW c \in Card
      PROVE  card[c].value = card[c].balance + Held(c)
  <2>1. Holders(c) = {}
    BY GiftCardsAssumption DEF GiftCardsInit, Holders, NoOrder
  <2>2. Held(c) = 0
    BY <2>1, SumUnfolds DEF Held
  <2> QED BY <2>2 DEF GiftCardsInit, NoCard
<1> QED BY <1>1, <1>2, ConservedMeans DEF ConservedInv

\* The three facts of one order that a step may change.
LEMMA BackedStays ==
    ASSUME CardsTyped, Backed, Ending, \A o \in Order : credits'[o] \in Nat /\ credits'[o] >= credits[o],
           \A o \in Order : \/ order'[o] = order[o] /\ credits'[o] = credits[o]
                            \/ /\ order'[o] # NoOrder
                               /\ order'[o].status = "CANCELLED" => credits'[o] > 0,
           \A g \in Handler :
               pc'[g] = "cancelling" =>
                   /\ job'[g].order = job[g].order
                   /\ pc[g] = "cancelling" \/ credits[job[g].order] > 0
                   /\ pc[g] \in Locked
    PROVE  Backed' /\ Ending'
<1>1. credits \in [Order -> Nat]
  BY DEF CardsTyped, GiftCardsTypeOK, DatabaseTypeOK
<1>2. Backed'
  BY DEF Backed
<1>3. Ending'
  <2> SUFFICES ASSUME NEW g \in Handler, pc'[g] = "cancelling"
               PROVE  credits'[job'[g].order] > 0
    BY DEF Ending
  <2>1. job'[g].order = job[g].order /\ job[g].order \in Order
    BY DEF CardsTyped, GiftCardsTypeOK, HandlersKnow, Locked
  <2>2. credits[job[g].order] > 0
    BY DEF Ending
  <2> QED BY <1>1, <2>1, <2>2
<1> QED BY <1>2, <1>3

\* The database is left alone, and so is every handler but h, which goes on.
LEMMA GoOnConserved ==
    ASSUME CardsTyped, ConservedInv, UNCHANGED <<card, order, credits, staleWrite>>,
           NEW h \in Handler, NEW where, NEW j, Goto(h, where, j),
           where = "cancelling" =>
               pc[h] = "counting" /\ j = job[h] /\ credits[job[h].order] > 0
    PROVE  ConservedInv'
<1>1. /\ pc'[h] = where /\ job'[h] = j
      /\ \A g \in Handler \ {h} : pc'[g] = pc[g] /\ job'[g] = job[g]
  BY DEF Goto, CardsTyped, GiftCardsTypeOK, ProcessTypeOK
<1>2. \A o \in Order : credits[o] \in Nat
  BY DEF CardsTyped, GiftCardsTypeOK, DatabaseTypeOK
<1>3. Backed' /\ Ending'
  BY <1>1, <1>2, BackedStays DEF ConservedInv, Locked
<1>4. MoneyIsConserved'
  BY CardsConserve DEF ConservedInv
<1> QED BY <1>3, <1>4 DEF ConservedInv

\* A commit of h that writes card c leaves no other handler further on.
LEMMA CommitKeepsHeld ==
    ASSUME CardsTyped, NEW h \in Handler, NEW c \in Card, CommitOf(h, c)
    PROVE  \A g \in Handler :
               pc'[g] = "cancelling" => pc[g] = "cancelling" /\ job'[g].order = job[g].order
BY CommitTyped DEF CardsTyped, GiftCardsTypeOK, ProcessTypeOK

LEMMA CheckoutConserved ==
    ASSUME CardsTyped, CardsTyped', LedgerInv, ConservedInv, NEW h \in Handler, NEW o \in Order, CheckoutCommit(h, o)
    PROVE  ConservedInv'
<1> PICK c : c = job[h].card
  OBVIOUS
<1> DEFINE seen  == job[h].seen
           taken == Min({seen.balance, job[h].total})
           left  == seen.balance - taken
           s     == IF left = 0 THEN "REDEEMED" ELSE "ACTIVE"
           q     == [status |-> "PENDING_PAYMENT", card |-> c, total |-> job[h].total,
                     giftCardAmount |-> taken, charged |-> 0]
<1>1. /\ pc[h] = "redeeming" /\ Spendable(h) /\ ~job[h].stale /\ order[o] = NoOrder
      /\ card' = [card EXCEPT ![c].balance = left, ![c].status = s]
      /\ order' = [order EXCEPT ![o] = q]
      /\ CommitOf(h, c)
      /\ UNCHANGED <<credits, staleWrite>>
  BY DEF CheckoutCommit, Redeem
<1>2. c \in Card /\ job[h].total \in Totals
  BY <1>1 DEF CardsTyped, GiftCardsTypeOK, HandlersKnow
<1>3. seen # NoCard
  BY <1>1 DEF Spendable, NoCard
<1>4. seen = card[c] /\ card[c] \in CardRow
  BY <1>1, <1>2, <1>3 DEF LedgerInv, ReadFresh, CardsTyped, GiftCardsTypeOK, DatabaseTypeOK
<1>5. /\ seen.balance \in Int /\ job[h].total \in Int /\ seen.status = "ACTIVE"
      /\ seen.balance > 0 /\ job[h].total > 0
  BY <1>1, <1>2, <1>4, CardRowOrNone, GiftCardsAssumption DEF Spendable
<1>6. taken \in Nat
  <2>1. taken \in {seen.balance, job[h].total}
    BY <1>5, MinOfTwo, Zenon
  <2> QED BY <1>5, <2>1
<1>7. left \in Int /\ left = card[c].balance - taken
  BY <1>4, <1>5, <1>6
<1>8. q.card = c /\ q.giftCardAmount = taken /\ q.status = "PENDING_PAYMENT" /\ q # NoOrder
  BY DEF NoOrder
<1>9. s # "CANCELLED"
  OBVIOUS
<1> HIDE DEF taken, left, s, q
<1>10. /\ card'[c].value = card[c].value /\ card'[c].balance = left
       /\ \A d \in Card \ {c} : card'[d] = card[d]
  BY <1>1, <1>2, <1>4 DEF CardRow, CardsTyped, GiftCardsTypeOK, DatabaseTypeOK
<1>11. order'[o] = q /\ \A p \in Order \ {o} : order'[p] = order[p]
  BY <1>1 DEF CardsTyped, GiftCardsTypeOK, DatabaseTypeOK
<1>12. credits[o] = 0
  BY <1>1 DEF ConservedInv, Backed
<1>13. Backed' /\ Ending'
  <2>1. \A p \in Order : credits[p] \in Nat
    BY DEF CardsTyped, GiftCardsTypeOK, DatabaseTypeOK
  <2> QED BY <1>1, <1>2, <1>8, <1>11, <2>1, CommitKeepsHeld, BackedStays DEF ConservedInv, Locked
<1>14. /\ \A d \in Card : Share(o, d) = 0
       /\ Share(o, c)' = taken /\ \A d \in Card \ {c} : Share(o, d)' = 0
  <2>1. \A d \in Card : Share(o, d) = 0
    BY <1>1, GiftCardsAssumption DEF Share, NoOrder
  <2>2. Spent(o)' = taken
    BY <1>1, <1>8, <1>11, <1>12 DEF Spent
  <2> QED BY <1>8, <1>11, <2>1, <2>2 DEF Share
<1>15. MoneyIsConserved'
  <2>1. ASSUME NEW d \in Card, card'[d].status # "CANCELLED"
        PROVE  /\ card[d].status # "CANCELLED"
               /\ card'[d].value = card[d].value
               /\ card[d].balance \in Int
               /\ card'[d].balance = card[d].balance - (Share(o, d)' - Share(o, d))
    <3>1. card[d].balance \in Int
      BY CardRowOrNone DEF CardsTyped, GiftCardsTypeOK, DatabaseTypeOK, NoCard
    <3>2. CASE d = c
      BY <3>1, <3>2, <1>4, <1>5, <1>6, <1>7, <1>10, <1>14
    <3>3. CASE d # c
      BY <2>1, <3>1, <3>3, <1>10, <1>14
    <3> QED BY <3>2, <3>3
  <2> QED BY <1>1, <1>11, <2>1, OrderConserves DEF ConservedInv
<1> QED BY <1>13, <1>15 DEF ConservedInv

LEMMA CreditConserved ==
    ASSUME CardsTyped, CardsTyped', LedgerInv, OneCreditInv, ConservedInv, NEW h \in Handler, Credit(h)
    PROVE  ConservedInv'
<1> PICK c, o : c = job[h].card /\ o = job[h].order
  OBVIOUS
<1> DEFINE amount == order[o].giftCardAmount
           r == Credited(job[h])
<1>1. /\ pc[h] = "crediting"
      /\ order' = [order EXCEPT ![o].status = "CANCELLED"]
      /\ credits' = [credits EXCEPT ![o] = @ + 1]
      /\ staleWrite' = (staleWrite \/ job[h].stale)
      /\ CommitOf(h, c)
  BY DEF Credit
<1>2. /\ c \in Card /\ o \in Order /\ job[h].seen \in CardRow
      /\ order[o] \in Placed /\ order[o] # NoOrder
      /\ card[c] \in CardRow /\ r \in CardRow /\ card' = [card EXCEPT ![c] = r]
  BY CreditWrites
<1>3. amount \in Nat /\ job[h].seen.balance \in Int /\ job[h].seen # NoCard /\ order[o].card = c
  BY <1>1, <1>2, CardRowOrNone DEF CardsTyped, GiftCardsTypeOK, HandlersKnow
<1>4. /\ r.balance = job[h].seen.balance + amount /\ r.value = card[c].value
      /\ r.status # "CANCELLED" => job[h].seen.status # "CANCELLED"
  BY <1>2 DEF Credited, CardRow
<1> HIDE DEF r
<1>5. /\ order'[o].status = "CANCELLED" /\ order'[o] # NoOrder /\ order'[o].card = c
      /\ \A p \in Order \ {o} : order'[p] = order[p] /\ credits'[p] = credits[p]
      /\ credits[o] = 0 /\ credits'[o] = 1 /\ \A p \in Order : credits[p] \in Nat
  <2>1. credits[o] = 0
    BY <1>1 DEF OneCreditInv, CountedOnce
  <2>2. order'[o].status = "CANCELLED" /\ order'[o].card = c
    BY <1>1, <1>2, <1>3 DEF Placed, CardsTyped, GiftCardsTypeOK, DatabaseTypeOK
  <2>3. order'[o] # NoOrder
    BY <2>2 DEF NoOrder
  <2> QED BY <1>1, <1>2, <2>1, <2>2, <2>3 DEF CardsTyped, GiftCardsTypeOK, DatabaseTypeOK
<1>6. Backed' /\ Ending'
  BY <1>1, <1>2, <1>5, CommitKeepsHeld, BackedStays DEF ConservedInv, Locked
<1>7. card'[c] = r /\ \A d \in Card \ {c} : card'[d] = card[d]
  BY <1>2 DEF CardsTyped, GiftCardsTypeOK, DatabaseTypeOK
<1>8. /\ Share(o, c) = amount /\ \A d \in Card \ {c} : Share(o, d) = 0
      /\ \A d \in Card : Share(o, d)' = 0
  <2>1. order[o].status # "CANCELLED"
    BY <1>2, <1>5 DEF ConservedInv, Backed
  <2>2. Spent(o) = amount /\ Spent(o)' = 0
    BY <1>5, <2>1 DEF Spent
  <2> QED BY <1>3, <2>2 DEF Share
<1>9. ~staleWrite' => ~staleWrite /\ ~job[h].stale
  BY <1>1, Zenon
<1>10. ~staleWrite' => job[h].seen = card[c]
  BY <1>2, <1>3, <1>9 DEF LedgerInv, ReadFresh
<1>11. MoneyIsConserved'
  <2>1. ASSUME NEW d \in Card, ~staleWrite', card'[d].status # "CANCELLED"
        PROVE  /\ card[d].status # "CANCELLED"
               /\ card'[d].value = card[d].value
               /\ card[d].balance \in Int
               /\ card'[d].balance = card[d].balance - (Share(o, d)' - Share(o, d))
    <3>1. card[d].balance \in Int
      BY CardRowOrNone DEF CardsTyped, GiftCardsTypeOK, DatabaseTypeOK, NoCard
    <3>2. CASE d = c
      <4>1. r.balance = card[c].balance + amount
        BY <2>1, <1>4, <1>10
      <4>2. card[c].status # "CANCELLED"
        BY <2>1, <3>2, <1>4, <1>7, <1>10
      <4> QED BY <3>1, <3>2, <4>1, <4>2, <1>3, <1>4, <1>7, <1>8
    <3>3. CASE d # c
      BY <2>1, <3>1, <3>3, <1>7, <1>8
    <3> QED BY <3>2, <3>3
  <2>2. staleWrite => staleWrite'
    BY <1>9
  <2> QED BY <1>2, <1>5, <2>1, <2>2, OrderConserves DEF ConservedInv
<1> QED BY <1>6, <1>11 DEF ConservedInv

\* A write-off takes its card out of the account, ...
LEMMA WriteOffConserved ==
    ASSUME CardsTyped, CardsTyped', ConservedInv, NEW h \in Handler, WriteOff(h)
    PROVE  ConservedInv'
<1> PICK c : c = job[h].card
  OBVIOUS
<1>1. /\ pc[h] = "writing_off"
      /\ card' = [card EXCEPT ![c].status = "CANCELLED", ![c].balance = 0]
      /\ staleWrite' = (staleWrite \/ job[h].stale)
      /\ CommitOf(h, c)
      /\ UNCHANGED <<order, credits>>
  BY DEF WriteOff
<1>2. c \in Card /\ job[h].seen # NoCard
  BY <1>1 DEF CardsTyped, GiftCardsTypeOK, HandlersKnow
<1>3. card[c] \in CardRow
  BY <1>2 DEF CardsTyped, GiftCardsTypeOK, DatabaseTypeOK, CardsStay
<1>4. card'[c].status = "CANCELLED" /\ \A d \in Card \ {c} : card'[d] = card[d]
  BY <1>1, <1>2, <1>3 DEF CardRow, CardsTyped, GiftCardsTypeOK, DatabaseTypeOK
<1>5. staleWrite => staleWrite'
  BY <1>1, Zenon
<1>6. Backed' /\ Ending'
  <2>1. \A p \in Order : credits[p] \in Nat
    BY DEF CardsTyped, GiftCardsTypeOK, DatabaseTypeOK
  <2>2. \A g \in Handler :
            pc'[g] = "cancelling" => pc[g] = "cancelling" /\ job'[g].order = job[g].order
    BY <1>1, <1>2, CommitKeepsHeld
  <2>3. UNCHANGED <<order, credits>>
    BY <1>1
  <2> QED BY <2>1, <2>2, <2>3, BackedStays DEF ConservedInv, Locked
<1>7. MoneyIsConserved'
  BY <1>1, <1>4, <1>5, CardsConserve DEF ConservedInv
<1> QED BY <1>6, <1>7 DEF ConservedInv

\* ... and a new one, or an activation, brings what it holds.
LEMMA CardConserved ==
    ASSUME CardsTyped, CardsTyped', ConservedInv, UNCHANGED <<order, credits, staleWrite>>,
           \A g \in Handler : pc'[g] = pc[g] /\ job'[g].order = job[g].order,
           NEW c \in Card,
           \/ card' = card
           \/ /\ card[c].status = "PENDING"
              /\ card' = [card EXCEPT ![c].status = "ACTIVE"]
           \/ \E value \in Values, status \in GiftCardStatus : Create(c, value, status)
    PROVE  ConservedInv'
<1>1. Backed' /\ Ending'
  <2>1. \A p \in Order : credits[p] \in Nat
    BY DEF CardsTyped, GiftCardsTypeOK, DatabaseTypeOK
  <2> QED BY <2>1, BackedStays DEF ConservedInv, Locked
<1>2. CASE card' = card
  BY <1>1, <1>2, CardsConserve DEF ConservedInv
<1>3. CASE card[c].status = "PENDING" /\ card' = [card EXCEPT ![c].status = "ACTIVE"]
  <2>1. card[c] \in CardRow
    BY <1>3 DEF NoCard, CardsTyped, GiftCardsTypeOK, DatabaseTypeOK
  <2>2. /\ card'[c].value = card[c].value /\ card'[c].balance = card[c].balance
        /\ \A d \in Card \ {c} : card'[d] = card[d]
    BY <1>3, <2>1 DEF CardRow, CardsTyped, GiftCardsTypeOK, DatabaseTypeOK
  <2> QED BY <1>1, <1>3, <2>2, CardsConserve DEF ConservedInv
<1>4. ASSUME NEW value \in Values, NEW status \in GiftCardStatus, Create(c, value, status)
      PROVE  ConservedInv'
  <2>1. /\ card[c] = NoCard /\ card'[c].value = value /\ card'[c].balance = value
        /\ \A d \in Card \ {c} : card'[d] = card[d]
    BY <1>4 DEF Create, CardsTyped, GiftCardsTypeOK, DatabaseTypeOK
  <2>2. card[c].status # "CANCELLED" /\ value \in Nat
    BY <2>1, GiftCardsAssumption DEF NoCard
  <2> QED BY <1>1, <2>1, <2>2, CardsConserve DEF ConservedInv
<1> QED BY <1>2, <1>3, <1>4

\* Statuses of orders: paid, deleted, and called CANCELLED when credited before.
LEMMA StatusConserved ==
    ASSUME CardsTyped, CardsTyped', ConservedInv, UNCHANGED <<card, credits, staleWrite>>, NEW o \in Order,
           \A q \in Order \ {o} : order'[q] = order[q],
           order[o] # NoOrder, order'[o] # NoOrder,
           order'[o].card = order[o].card, order'[o].giftCardAmount = order[o].giftCardAmount,
           order'[o].status = "CANCELLED" => credits[o] > 0,
           \A g \in Handler :
               pc'[g] = "cancelling" => pc[g] = "cancelling" /\ job'[g].order = job[g].order
    PROVE  ConservedInv'
<1>1. \A p \in Order : credits[p] \in Nat
  BY DEF CardsTyped, GiftCardsTypeOK, DatabaseTypeOK
<1>2. Backed' /\ Ending'
  BY <1>1, BackedStays DEF ConservedInv, Locked
<1>3. \A c \in Card : Share(o, c)' = Share(o, c) /\ Share(o, c) \in Nat
  <2>1. order[o].status = "CANCELLED" => credits[o] > 0
    BY DEF ConservedInv, Backed
  <2>2. \A c \in Card : Share(o, c) \in Nat
    BY SharesAreHeld DEF SharesMakeIt
  <2> QED BY <2>1, <2>2 DEF Share, Spent
<1>4. \A c \in Card : card[c].balance \in Int
  BY CardRowOrNone DEF CardsTyped, GiftCardsTypeOK, DatabaseTypeOK, NoCard
<1>5. MoneyIsConserved'
  BY <1>3, <1>4, OrderConserves DEF ConservedInv
<1> QED BY <1>2, <1>5 DEF ConservedInv

LEMMA StepConserved ==
    CardsTyped /\ LedgerInv /\ OneCreditInv /\ ConservedInv /\ [GiftCardsNext]_giftCardsVars => ConservedInv'
<1> SUFFICES ASSUME CardsTyped, LedgerInv, OneCreditInv, ConservedInv, [GiftCardsNext]_giftCardsVars
             PROVE  ConservedInv'
  OBVIOUS
<1>1. CardsTyped' /\ order \in [Order -> Placed \cup {NoOrder}] /\ job \in [Handler -> CardCall]
      /\ pc \in [Handler -> CardPlaces]
  BY GiftCardsStepTyped DEF CardsTyped, GiftCardsTypeOK, DatabaseTypeOK, ProcessTypeOK, CardPlaces
<1>2. ASSUME NEW h \in Handler, CardCallStep(h)
      PROVE  ConservedInv'
  <2>1. ASSUME NEW c \in Card, NEW total \in Totals, CheckoutBegin(h, c, total)
        PROVE  ConservedInv'
    BY <2>1, GoOnConserved DEF CheckoutBegin, cardVars
  <2>2. ASSUME NEW o \in Order, CheckoutCommit(h, o)
        PROVE  ConservedInv'
    BY <1>1, <2>2, CheckoutConserved
  <2>3. CASE CheckoutRefused(h) \/ RolledBack(h)
    BY <2>3, GoOnConserved DEF CheckoutRefused, RolledBack, cardVars
  <2>4. ASSUME NEW o \in Order, CancelBegin(h, o)
        PROVE  ConservedInv'
    BY <2>4, GoOnConserved DEF CancelBegin, cardVars
  <2>5. CASE Restock(h)
    BY <2>5, GoOnConserved DEF Restock, cardVars
  <2>6. CASE CountCredits(h)
    <3> PICK where : where = IF credits[job[h].order] > 0 THEN "cancelling" ELSE "reading"
      OBVIOUS
    <3>1. pc[h] = "counting" /\ Goto(h, where, job[h]) /\ UNCHANGED <<card, order, credits, staleWrite>>
      BY <2>6 DEF CountCredits, cardVars
    <3>2. where = "cancelling" => credits[job[h].order] > 0
      OBVIOUS
    <3> QED BY <3>1, <3>2, GoOnConserved
  <2>7. CASE ReadCard(h)
    BY <2>7, GoOnConserved DEF ReadCard, cardVars
  <2>8. CASE Credit(h)
    BY <1>1, <2>8, CreditConserved
  <2>9. CASE CancelAgain(h)
    <3> DEFINE o == job[h].order
    <3>1. /\ pc[h] = "cancelling" /\ order' = [order EXCEPT ![o].status = "CANCELLED"]
          /\ Goto(h, "idle", NoCardCall) /\ UNCHANGED <<card, credits, staleWrite>>
      BY <2>9 DEF CancelAgain, cardVars
    <3>2. o \in Order /\ order[o] # NoOrder /\ order[o] \in Placed /\ credits[o] > 0
      BY <1>1, <3>1 DEF CardsTyped, GiftCardsTypeOK, HandlersKnow, ConservedInv, Ending
    <3>3. /\ order'[o].card = order[o].card /\ order'[o].giftCardAmount = order[o].giftCardAmount
          /\ order'[o].status = "CANCELLED" /\ \A q \in Order \ {o} : order'[q] = order[q]
      BY <1>1, <3>1, <3>2 DEF Placed
    <3>4. order'[o] # NoOrder
      BY <3>3 DEF NoOrder
    <3>5. \A g \in Handler :
              pc'[g] = "cancelling" => pc[g] = "cancelling" /\ job'[g].order = job[g].order
      BY <1>1, <3>1 DEF Goto
    <3> QED BY <1>1, <3>1, <3>2, <3>3, <3>4, <3>5, StatusConserved
  <2>10. ASSUME NEW c \in Card, WriteOffRead(h, c)
         PROVE  ConservedInv'
    BY <2>10, GoOnConserved DEF WriteOffRead, cardVars
  <2>11. CASE WriteOff(h)
    BY <1>1, <2>11, WriteOffConserved
  <2> QED
    BY <1>2, <2>1, <2>2, <2>3, <2>4, <2>5, <2>6, <2>7, <2>8, <2>9, <2>10, <2>11 DEF CardCallStep
<1>3. ASSUME NEW c \in Card, NEW value \in Values, issueGiftCard(c, value) \/ purchaseGiftCard(c, value)
      PROVE  ConservedInv'
  <2>1. \E status \in GiftCardStatus : Create(c, value, status)
    BY <1>3 DEF issueGiftCard, purchaseGiftCard, GiftCardStatus
  <2>2. UNCHANGED <<order, credits, staleWrite, pc, job>>
    BY <1>3 DEF issueGiftCard, purchaseGiftCard, handlers
  <2> QED BY <1>1, <2>1, <2>2, CardConserved
<1>4. ASSUME NEW c \in Card, PurchasePaid(c) \/ PurchaseCancelled(c) \/ Expire(c)
      PROVE  ConservedInv'
  BY <1>1, <1>4, CardConserved DEF PurchasePaid, PurchaseCancelled, Expire, cardVars, handlers
<1>5. ASSUME NEW c \in Card, activateForOrder(c)
      PROVE  ConservedInv'
  <2>1. UNCHANGED <<order, credits, staleWrite, pc>> /\ \A g \in Handler : job'[g].order = job[g].order
    BY <1>5, OutdateTyped DEF activateForOrder, CardsTyped, GiftCardsTypeOK
  <2>2. \/ card' = card
        \/ card[c].status = "PENDING" /\ card' = [card EXCEPT ![c].status = "ACTIVE"]
    BY <1>5 DEF activateForOrder
  <2> QED BY <1>1, <2>1, <2>2, CardConserved
<1>6. ASSUME NEW o \in Order, Pay(o) \/ DeleteOrder(o)
      PROVE  ConservedInv'
  <2>1. order[o] \in Placed /\ order[o] # NoOrder
    BY <1>1, <1>6 DEF Pay, DeleteOrder, NoOrder
  <2>2. /\ order'[o].card = order[o].card /\ order'[o].giftCardAmount = order[o].giftCardAmount
        /\ order'[o].status \in {"PAID", "DELETED"} /\ \A q \in Order \ {o} : order'[q] = order[q]
    BY <1>1, <1>6, <2>1 DEF Pay, DeleteOrder, Placed
  <2>3. order'[o] # NoOrder
    BY <2>2 DEF NoOrder
  <2>4. UNCHANGED <<card, credits, staleWrite, pc, job>>
    BY <1>6 DEF Pay, DeleteOrder, cardVars, handlers
  <2> QED BY <1>1, <2>1, <2>2, <2>3, <2>4, StatusConserved
<1>7. CASE ProcessStops
  <2>1. UNCHANGED <<card, order, credits, staleWrite>> /\ \A g \in Handler : pc'[g] = "idle"
    BY <1>7 DEF ProcessStops, cardVars
  <2>2. \A p \in Order : credits[p] \in Nat
    BY DEF CardsTyped, GiftCardsTypeOK, DatabaseTypeOK
  <2>3. Backed' /\ Ending'
    BY <2>1, <2>2, BackedStays DEF ConservedInv, Locked
  <2> QED BY <2>1, <2>3, CardsConserve DEF ConservedInv
<1>8. CASE UNCHANGED giftCardsVars
  <2>1. UNCHANGED <<card, order, credits, staleWrite, pc, job>>
    BY <1>8 DEF giftCardsVars
  <2>2. MoneyIsConserved'
    BY <2>1, CardsConserve DEF ConservedInv
  <2> QED BY <2>1, <2>2 DEF ConservedInv, Backed, Ending
<1> QED BY <1>2, <1>3, <1>4, <1>5, <1>6, <1>7, <1>8 DEF GiftCardsNext

\* "Nobody can spend the same rupee twice", and none is lost: the value of a card
\* that is not written off is what is left on it and what its orders hold of it
\* (redeem, restoreGiftCard), short of a write made from a stale read.
THEOREM MoneyIsAlwaysConserved == GiftCardsSpec => []MoneyIsConserved
<1>1. ConservedInv => MoneyIsConserved
  BY DEF ConservedInv
<1> QED
  BY GiftCardsInitTyped, GiftCardsStepTyped, InitLedger, StepLedger, InitOneCredit, StepOneCredit,
     InitConserved, StepConserved, <1>1, PTL DEF GiftCardsSpec

=============================================================================
