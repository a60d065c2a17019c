------------------------------ MODULE Handlers ------------------------------
(***************************************************************************)
(* How a request of the studio or of a customer runs: a handler reads,     *)
(* decides, then writes, each statement of its own, with another request,  *)
(* the scheduler or a sale in between.  What it met on its way is          *)
(* remembered. A refused request changes nothing and is left out.          *)
(***************************************************************************)
EXTENDS Naturals, Sequences, FiniteSets

CONSTANTS
    None,
    MaxTime,      \* bound on the clock
    MaxRequests   \* bound on the requests of a behaviour

ASSUME HandlersAssumption == MaxTime \in Nat /\ MaxRequests \in Nat /\ None \notin Nat

VARIABLES
    subject,      \* what this behaviour's requests are about
    job,          \* [Job -> what a handler is about to do]
    served,       \* how many requests there have been
    clock,
    met           \* history: "request", "scheduler", "sale" or "failure"

Time == 0 .. MaxTime

Job  == 1 .. 2     \* bound: two requests at a time
Idle == [op |-> "idle"]
Busy(j) == job[j] # Idle

process == <<subject, job, served, clock, met>>

\* A request arrives, with another on its way or not.  Bound: the requests of a
\* behaviour are about one subject (subjects share no row that these handlers
\* read and write).
Begin(j, next) ==
    /\ served < MaxRequests /\ served' = served + 1
    /\ ~Busy(j) /\ (j = 2 => Busy(1))
    /\ job' = [job EXCEPT ![j] = next]
    /\ met' = met \cup (IF \E i \in Job : Busy(i) THEN {"request"} ELSE {})
    /\ UNCHANGED <<subject, clock>>

\* It goes on to its next statement, or is answered.
At(j, op)     == job[j].op = op
Goto(j, next) == job' = [job EXCEPT ![j] = next] /\ UNCHANGED <<subject, served, clock, met>>

\* A statement fails and the handler goes on without it.
Fails(j, next) == /\ job' = [job EXCEPT ![j] = next] /\ met' = met \cup {"failure"}
                  /\ UNCHANGED <<subject, served, clock>>

\* Someone else writes: the scheduler, or a sale.
Beside(who) == /\ met' = met \cup (IF \E j \in Job : Busy(j) THEN {who} ELSE {})
               /\ UNCHANGED <<subject, job, served, clock>>

\* The process stops and starts again: what it was doing is cut short.  Bound: no
\* request follows, the scheduler does.
Stop == /\ \E j \in Job : Busy(j)
        /\ job' = [j \in Job |-> Idle] /\ met' = met \cup {"failure"} /\ served' = MaxRequests
        /\ UNCHANGED <<subject, clock>>

Tick == clock < MaxTime /\ clock' = clock + 1 /\ UNCHANGED <<subject, job, served, met>>

\* No two requests have crossed, none was cut short, none is on its way.
Alone == met \cap {"request", "failure"} = {} /\ \A j \in Job : ~Busy(j)

\* The fields a patch names, over those of a row.
Merge(patch, row) == [f \in DOMAIN row |-> IF f \in DOMAIN patch THEN patch[f] ELSE row[f]]

\* Where following next leads, from s on and s with it.
Following(next, s) ==
    {t \in DOMAIN next : \A S \in SUBSET DOMAIN next :
        s \in S /\ (\A u \in S : next[u] \in DOMAIN next => next[u] \in S) => t \in S}

\* A stamp put once.
Stamp(published) == IF published = None THEN clock ELSE published

\* What the scheduler publishes, and how.
Due(row) == row # None /\ row.status = "SCHEDULED" /\ row.scheduled # None /\ row.scheduled <= clock

Published(row, status) == [row EXCEPT !.status = status, !.published = clock, !.scheduled = None]

=============================================================================
