--------------------------- MODULE MessagesProofs ---------------------------
(***************************************************************************)
(* Theorems about Messages, for any number of messages, requests, changes  *)
(* of settings and hours.                                                  *)
(***************************************************************************)
EXTENDS Messages, SequenceTheorems, TLAPS

-----------------------------------------------------------------------------
(* The inductive invariant *)

Recipient == {"customer", "studio"}
Outcome   == {"transmitted", "suppressed", "thrown"}
At        == {"morning", "evening"}
Standing  == {"REQUESTED", "CONFIRMED", "CANCELLED"}

\* What a request is about to do; `done' when it has.
Telling == [op       : {"event"}, event : Event,
            stage    : {"emitted", "next", "queue", "dispatch", "record", "done"},
            channels : SUBSET Channel, channel : Channel \cup {None}, to : Recipient,
            outcome  : Outcome \cup {None}, due : SUBSET Channel]
Booking == [op : {"book"}, stage : {"book", "done"}, at : At, seen : SUBSET Nat]
Updating == [op : {"update"}, stage : {"update", "done"}, id : Nat, from : Standing, to : Standing]
Hearing == [op : {"inbound"}, sid : Sid, stage : {"store", "done"}]
Replying == [op : {"reply"}, stage : {"send", "done"}]
Resting == [op : {"unbegun"}, stage : {"done"}]

Entry == [job : Job, event : Event, channel : Channel, to : Recipient,
          status : {"QUEUED", "SENT", "FAILED"}, transmitted : BOOLEAN]

Message     == [sid : Sid \cup {None}, at : 0 .. MaxTime]
Appointment == [at : At, made : 0 .. MaxTime, status : Standing]

SettingsTyped ==
    /\ template \in [Event -> [Channel -> {"absent", "on", "off"}]]
    /\ preference \in [Channel -> [{"account.welcome", "*"} -> BOOLEAN \cup {None}]]
    /\ studio \in BOOLEAN /\ phone \in BOOLEAN /\ trouble \in BOOLEAN
    /\ served \in 0 .. MaxRequests /\ changes \in 0 .. MaxChanges /\ clock \in 0 .. MaxTime

RowsTyped ==
    /\ log \subseteq Entry
    /\ bell \subseteq [job : Job, to : {"customer", "staff"}]
    /\ thread \in Seq(Message)
    /\ appointment \in Seq(Appointment)

JobsTyped ==
    job \in [Job -> Telling \cup Booking \cup Updating \cup Hearing \cup Replying \cup Resting]

\* A request that has not begun has told nobody; a code is on its way by email
\* alone; the studio is written to once, after the customer.
Routed(j) ==
    /\ j > served => job[j] = Unbegun
    /\ job[j].op = "event" /\ job[j].stage \in {"queue", "dispatch", "record"} =>
          /\ job[j].channel \in Channel
          /\ job[j].event \in Codes => job[j].channel = "EMAIL"
    /\ job[j].op = "event" /\ job[j].to = "studio" =>
          job[j].event \notin Codes /\ job[j].channels = {} /\ job[j].stage # "emitted"
    /\ job[j].op = "update" => job[j].id \in DOMAIN appointment

\* Of a channel that is still to be tried there is no row yet; of the one being
\* tried there is one, which knows what the provider said.
Mine(j) == {r \in log : r.job = j}
Unlogged(j, c) == \A r \in Mine(j) : r.to = job[j].to => r.channel # c

Traced(j) ==
    /\ Mine(j) # {} => job[j].op = "event" /\ job[j].stage # "emitted"
    /\ job[j].op = "event" /\ job[j].stage # "done" =>
          /\ job[j].to = "customer" => \A r \in Mine(j) : r.to = "customer"
          /\ \A c \in job[j].channels : Unlogged(j, c)
          /\ job[j].stage = "queue" => Unlogged(j, job[j].channel)
          /\ job[j].stage \in {"queue", "dispatch", "record"} => job[j].channel \notin job[j].channels
          /\ job[j].stage \in {"dispatch", "record"} =>
                \E r \in Mine(j) : /\ r.to = job[j].to /\ r.channel = job[j].channel
                                   /\ r.status = "QUEUED"
                                   /\ job[j].stage = "record" /\ job[j].outcome = "transmitted" =>
                                         r.transmitted

OneRowEach ==
    \A r, s \in log : r.job = s.job /\ r.to = s.to /\ r.channel = s.channel => r = s

LogInv == /\ SettingsTyped /\ RowsTyped /\ JobsTyped
          /\ \A j \in Job : Routed(j) /\ Traced(j)
          /\ OneRowEach /\ LogTellsTheTruth /\ CodesGoByEmail

LEMMA InvImplies == LogInv => LogIsTrue
<1> SUFFICES ASSUME LogInv
             PROVE  LogIsTrue
  OBVIOUS
<1>1. \A j \in Job : job[j].stage \in {"done", "emitted", "next", "queue", "dispatch", "record",
                                       "book", "update", "store", "send"}
  <2> SUFFICES ASSUME NEW j \in Job
               PROVE  job[j].stage \in {"done", "emitted", "next", "queue", "dispatch", "record",
                                        "book", "update", "store", "send"}
    OBVIOUS
  <2>1. job[j] \in Telling \cup Booking \cup Updating \cup Hearing \cup Replying \cup Resting
    BY DEF LogInv, JobsTyped
  <2> QED
    BY <2>1 DEF Telling, Booking, Updating, Hearing, Replying, Resting
<1> QED
  BY <1>1 DEF LogInv, LogIsTrue, TypeOK, SettingsTyped, RowsTyped, Entry, Recipient, Message,
              Appointment, At, Standing

-----------------------------------------------------------------------------
(* Requests in flight *)

Requests == Telling \cup Booking \cup Updating \cup Hearing \cup Replying \cup Resting

\* A stage tells whose it is.
LEMMA StageSays ==
    ASSUME LogInv, NEW j \in Job
    PROVE  /\ job[j] \in Requests
           /\ job[j].stage \in {"emitted", "next", "queue", "dispatch", "record"} => job[j] \in Telling
           /\ job[j].stage = "book" => job[j] \in Booking
           /\ job[j].stage = "update" => job[j] \in Updating
           /\ job[j].stage = "store" => job[j] \in Hearing
           /\ job[j].stage = "send" => job[j] \in Replying
           /\ job[j].op = "event" => job[j] \in Telling
<1>1. job[j] \in Requests
  BY DEF LogInv, JobsTyped, Requests
<1> QED
  BY <1>1 DEF Requests, Telling, Booking, Updating, Hearing, Replying, Resting

LEMMA InvFacts ==
    ASSUME LogInv
    PROVE  /\ SettingsTyped /\ RowsTyped /\ JobsTyped /\ OneRowEach
           /\ \A j \in Job : Routed(j) /\ Traced(j)
           /\ \A r \in log : r \in Entry
BY DEF LogInv, RowsTyped

\* A step of one request leaves the others where they are.
LEMMA OthersStand ==
    ASSUME LogInv, NEW j \in Job, NEW next \in Requests,
           job' = [job EXCEPT ![j] = next],
           served' = served \/ (served' > served /\ \A k \in Job : k > served' => k > served),
           \A r : r.job # j => (r \in log <=> r \in log'),
           DOMAIN appointment \subseteq DOMAIN appointment',
           Routed(j)', Traced(j)'
    PROVE  JobsTyped' /\ \A k \in Job : Routed(k)' /\ Traced(k)'
<1>1. JobsTyped'
  BY InvFacts DEF JobsTyped, Requests
<1>2. ASSUME NEW k \in Job, k # j
      PROVE  Routed(k)' /\ Traced(k)'
  <2>1. job'[k] = job[k] /\ Routed(k) /\ Traced(k)
    BY <1>2, InvFacts DEF JobsTyped
  <2>2. Mine(k)' = Mine(k)
    BY <1>2 DEF Mine
  <2>3. Routed(k)'
    BY <2>1, InvFacts DEF Routed
  <2>4. \A c : Unlogged(k, c) => Unlogged(k, c)'
    BY <2>1, <2>2 DEF Unlogged
  <2>5. Traced(k)'
    BY <2>1, <2>2 DEF Traced, Unlogged
  <2> QED
    BY <2>3, <2>5
<1> QED
  BY <1>1, <1>2

\* What the log and the settings being as they are leaves true.
LEMMA LogStands ==
    ASSUME LogInv, UNCHANGED log
    PROVE  OneRowEach' /\ LogTellsTheTruth' /\ CodesGoByEmail'
BY DEF LogInv, OneRowEach, LogTellsTheTruth, CodesGoByEmail

\* A request that writes nothing to the log.
LEMMA GoesOn ==
    ASSUME LogInv, NEW j \in Job, NEW next \in Requests,
           job' = [job EXCEPT ![j] = next],
           served' = served \/ (served' > served /\ \A k \in Job : k > served' => k > served),
           UNCHANGED log, DOMAIN appointment \subseteq DOMAIN appointment',
           SettingsTyped', RowsTyped', Routed(j)', Traced(j)'
    PROVE  LogInv'
BY OthersStand, LogStands DEF LogInv

\* One that tells nobody is neither routed nor traced.
LEMMA TellsNobody ==
    ASSUME LogInv, NEW j \in Job, NEW next \in Requests \ Telling,
           job' = [job EXCEPT ![j] = next], UNCHANGED log, SettingsTyped', j <= served', Mine(j) = {},
           next.op = "update" => next.id \in DOMAIN appointment'
    PROVE  Routed(j)' /\ Traced(j)'
<1>1. job'[j] = next /\ next.op # "event"
  BY InvFacts DEF JobsTyped, Requests, Telling, Booking, Updating, Hearing, Replying, Resting
<1>2. ~ (j > served')
  BY DEF Job, SettingsTyped
<1>3. Mine(j)' = {}
  BY DEF Mine
<1>4. Routed(j)'
  BY <1>1, <1>2 DEF Routed
<1>5. Traced(j)'
  BY <1>1, <1>3 DEF Traced
<1> QED
  BY <1>4, <1>5

\* A request that has only begun.
LEMMA BeginStep ==
    ASSUME LogInv, NEW j \in Job, NEW next \in Requests \ Telling, Begun(j, next),
           next.op = "update" => next.id \in DOMAIN appointment,
           UNCHANGED <<settings, records>>
    PROVE  LogInv'
<1>1. /\ job' = [job EXCEPT ![j] = next] /\ served' = j /\ j = served + 1
      /\ UNCHANGED <<template, preference, studio, phone, log, bell, thread, appointment,
                     changes, clock, trouble>>
  BY DEF Begun, Begin, settings, records
<1>2. SettingsTyped' /\ RowsTyped'
  BY <1>1, InvFacts DEF SettingsTyped, RowsTyped, Job
<1>3. j <= served' /\ served' > served /\ \A k \in Job : k > served' => k > served
  BY <1>1, InvFacts DEF SettingsTyped, Job
<1>4. Mine(j) = {}
  BY <1>3, <1>1, InvFacts DEF Routed, Traced, Unbegun
<1>5. Routed(j)' /\ Traced(j)'
  BY <1>1, <1>2, <1>3, <1>4, TellsNobody
<1> QED
  BY <1>1, <1>2, <1>3, <1>5, GoesOn

LEMMA RequestStep ==
    ASSUME LogInv, NEW j \in Job,
           \/ \E at \in At : bookAppointment(j, at)
           \/ \E i \in DOMAIN appointment, to \in {"CONFIRMED", "CANCELLED"} : updateAppointment(j, i, to)
           \/ \E sid \in Sid : recordInbound(j, sid)
           \/ sendReply(j)
    PROVE  LogInv'
<1>1. ASSUME NEW at \in At, bookAppointment(j, at)
      PROVE  LogInv'
  <2> DEFINE next == [op |-> "book", stage |-> "book", at |-> at,
                      seen |-> {i \in DOMAIN appointment : /\ appointment[i].at = at
                                                           /\ clock < appointment[i].made + Minute}]
  <2>1. DOMAIN appointment \subseteq Nat
    BY InvFacts DEF RowsTyped
  <2>2. next \in Requests \ Telling /\ next.op # "update"
    BY <2>1 DEF Requests, Booking, Telling
  <2>3. Begun(j, next) /\ UNCHANGED <<settings, records>>
    BY <1>1 DEF bookAppointment
  <2> HIDE DEF next
  <2> QED
    BY <2>2, <2>3, BeginStep
<1>2. ASSUME NEW i \in DOMAIN appointment, NEW to \in {"CONFIRMED", "CANCELLED"},
             updateAppointment(j, i, to)
      PROVE  LogInv'
  <2> DEFINE next == [op |-> "update", stage |-> "update", id |-> i,
                      from |-> appointment[i].status, to |-> to]
  <2>1. appointment[i] \in Appointment /\ i \in Nat
    BY InvFacts DEF RowsTyped
  <2>2. next \in Requests \ Telling /\ next.id \in DOMAIN appointment
    BY <2>1 DEF Requests, Updating, Telling, Appointment, Standing
  <2>3. Begun(j, next) /\ UNCHANGED <<settings, records>>
    BY <1>2 DEF updateAppointment
  <2> HIDE DEF next
  <2> QED
    BY <2>2, <2>3, BeginStep
<1>3. ASSUME NEW sid \in Sid, recordInbound(j, sid)
      PROVE  LogInv'
  <2> DEFINE next == [op |-> "inbound", sid |-> sid,
                      stage |-> IF \E i \in DOMAIN thread : thread[i].sid = sid
                                THEN "done" ELSE "store"]
  <2>1. next \in Requests \ Telling /\ next.op # "update"
    BY DEF Requests, Hearing, Telling
  <2>2. Begun(j, next) /\ UNCHANGED <<settings, records>>
    BY <1>3 DEF recordInbound
  <2> HIDE DEF next
  <2> QED
    BY <2>1, <2>2, BeginStep
<1>4. CASE sendReply(j)
  <2> DEFINE next == [op |-> "reply", stage |-> "send"]
  <2>1. next \in Requests \ Telling /\ next.op # "update"
    BY DEF Requests, Replying, Telling
  <2>2. Begun(j, next) /\ UNCHANGED <<settings, records>>
    BY <1>4 DEF sendReply
  <2> HIDE DEF next
  <2> QED
    BY <2>1, <2>2, BeginStep
<1> QED
  BY <1>1, <1>2, <1>3, <1>4

-----------------------------------------------------------------------------
(* The bus and its handlers *)

LEMMA EmittedFacts ==
    ASSUME NEW e \in Event
    PROVE  /\ Emitted(e) \in Telling /\ Emitted(e).op = "event" /\ Emitted(e).to = "customer"
           /\ Emitted(e).stage = "emitted" /\ Emitted(e).channels = {}
BY DEF Emitted, Telling, Due, On, Recipient, Outcome

\* An event that is emitted has told nobody yet.
LEMMA EmittedStands ==
    ASSUME LogInv, NEW j \in Job, NEW e \in Event, job' = [job EXCEPT ![j] = Emitted(e)],
           UNCHANGED log, SettingsTyped', j <= served', Mine(j) = {}
    PROVE  Routed(j)' /\ Traced(j)'
<1>1. job'[j] = Emitted(e)
  BY InvFacts DEF JobsTyped
<1>2. ~ (j > served')
  BY DEF Job, SettingsTyped
<1>3. Mine(j)' = {}
  BY DEF Mine
<1>4. Routed(j)'
  BY <1>1, <1>2, EmittedFacts DEF Routed
<1>5. Traced(j)'
  BY <1>1, <1>3, EmittedFacts DEF Traced, Unlogged
<1> QED
  BY <1>4, <1>5

LEMMA emitStep ==
    ASSUME LogInv, NEW j \in Job, NEW e \in Event, emit(j, e)
    PROVE  LogInv'
<1>1. /\ job' = [job EXCEPT ![j] = Emitted(e)] /\ served' = MaxRequests /\ served = 0 /\ j = 1
      /\ UNCHANGED <<template, preference, studio, phone, log, bell, thread, appointment,
                     changes, clock, trouble>>
  BY DEF emit, settings, records
<1>2. SettingsTyped' /\ RowsTyped'
  BY <1>1, InvFacts, MessagesAssumption DEF SettingsTyped, RowsTyped
<1>3. j <= served' /\ served' > served /\ \A k \in Job : k > served' => k > served
  BY <1>1, MessagesAssumption DEF Job
<1>4. Mine(j) = {}
  BY <1>1, InvFacts DEF Routed, Traced, Unbegun
<1>5. Routed(j)' /\ Traced(j)'
  BY <1>1, <1>2, <1>3, <1>4, EmittedStands
<1>6. Emitted(e) \in Requests
  BY EmittedFacts DEF Requests
<1> QED
  BY <1>1, <1>2, <1>3, <1>5, <1>6, GoesOn

\* A request that is at something has begun.
LEMMA HasBegun ==
    ASSUME LogInv, NEW j \in Job, job[j].stage # "done"
    PROVE  ~ (j > served)
BY InvFacts DEF Routed, Unbegun

\* A request that tells its event goes on, the log being as it is.
LEMMA TellingGoesOn ==
    ASSUME LogInv, NEW j \in Job, NEW next \in Telling, job[j].stage # "done",
           job' = [job EXCEPT ![j] = next], UNCHANGED <<settings, log, thread, appointment, served>>,
           SettingsTyped', RowsTyped', Routed(j)', Traced(j)'
    PROVE  LogInv'
BY GoesOn DEF Requests

LEMMA sendToAllChannelsStep ==
    ASSUME LogInv, NEW j \in Job, sendToAllChannels(j)
    PROVE  LogInv'
<1> DEFINE next == [Stage(j, "next") EXCEPT !.channels = On(job[j].event)]
<1>1. job[j] \in Telling /\ job[j].stage = "emitted" /\ Routed(j) /\ Traced(j) /\ ~ (j > served)
  BY StageSays, InvFacts, HasBegun DEF sendToAllChannels
<1>2. next \in Telling /\ next.stage = "next" /\ next.to = job[j].to /\ next.op = "event"
  BY <1>1 DEF Telling, Stage, On
<1>3. /\ job' = [job EXCEPT ![j] = next]
      /\ UNCHANGED <<template, preference, studio, phone, log, bell, thread, appointment,
                     served, changes, clock, trouble>>
  BY DEF sendToAllChannels, Goto, settings, records
<1> HIDE DEF next
<1>4. SettingsTyped' /\ RowsTyped' /\ job'[j] = next
  BY <1>3, InvFacts DEF SettingsTyped, RowsTyped, JobsTyped
<1>5. Mine(j) = {} /\ Mine(j)' = {} /\ job[j].to # "studio"
  BY <1>1, <1>3 DEF Traced, Mine, Routed, Telling
<1>6. Routed(j)'
  BY <1>1, <1>2, <1>3, <1>4, <1>5 DEF Routed
<1>7. Traced(j)'
  BY <1>2, <1>4, <1>5 DEF Traced, Unlogged
<1> QED
  BY <1>1, <1>2, <1>3, <1>4, <1>6, <1>7, TellingGoesOn DEF settings

LEMMA sendMessageStep ==
    ASSUME LogInv, NEW j \in Job, NEW c \in Channel, sendMessage(j, c)
    PROVE  LogInv'
<1> DEFINE on   == [job[j] EXCEPT !.channels = @ \ {c}]
           next == IF recipientFor(c, job[j].event) /\ ~Refuses(c, job[j].event)
                   THEN [on EXCEPT !.stage = "queue", !.channel = c] ELSE on
<1>1. /\ job[j] \in Telling /\ job[j].stage = "next" /\ c \in job[j].channels
      /\ Routed(j) /\ Traced(j) /\ ~ (j > served)
  BY StageSays, InvFacts, HasBegun DEF sendMessage
<1>2. on \in Telling /\ on.stage = "next" /\ on.channels = job[j].channels \ {c}
      /\ on.to = job[j].to /\ on.event = job[j].event /\ on.op = "event"
  BY <1>1 DEF Telling
<1>3. /\ job' = [job EXCEPT ![j] = next]
      /\ UNCHANGED <<template, preference, studio, phone, log, bell, thread, appointment,
                     served, changes, clock, trouble>>
  BY DEF sendMessage, Goto, settings, records
<1> HIDE DEF on
<1>4. /\ next \in Telling /\ next.op = "event" /\ next.to = job[j].to /\ next.event = job[j].event
      /\ next.channels = job[j].channels \ {c}
      /\ \/ next.stage = "next"
         \/ next.stage = "queue" /\ next.channel = c /\ recipientFor(c, job[j].event)
  <2>1. CASE recipientFor(c, job[j].event) /\ ~Refuses(c, job[j].event)
    <3>1. next = [on EXCEPT !.stage = "queue", !.channel = c]
      BY <2>1
    <3> HIDE DEF next
    <3> QED
      BY <1>2, <2>1, <3>1 DEF Telling
  <2>2. CASE ~ (recipientFor(c, job[j].event) /\ ~Refuses(c, job[j].event))
    <3>1. next = on
      BY <2>2
    <3> HIDE DEF next
    <3> QED
      BY <1>2, <3>1
  <2> QED
    BY <2>1, <2>2
<1> HIDE DEF next
<1>5. SettingsTyped' /\ RowsTyped' /\ job'[j] = next
  BY <1>3, <1>4, InvFacts DEF SettingsTyped, RowsTyped, JobsTyped
<1>6. job[j].to = "customer" /\ Mine(j)' = Mine(j)
  BY <1>1, <1>3 DEF Routed, Telling, Recipient, Mine
<1>7. Routed(j)'
  BY <1>1, <1>3, <1>4, <1>5, <1>6 DEF Routed, recipientFor
<1>8. Unlogged(j, c) /\ \A d \in next.channels : Unlogged(j, d)
  BY <1>1, <1>4 DEF Traced, Telling
<1>9. \A d : Unlogged(j, d)' <=> Unlogged(j, d)
  BY <1>4, <1>5, <1>6 DEF Unlogged
<1>10. Traced(j)'
  BY <1>1, <1>4, <1>5, <1>6, <1>8, <1>9 DEF Traced, Telling
<1> QED
  BY <1>1, <1>3, <1>4, <1>5, <1>7, <1>10, TellingGoesOn DEF settings

LEMMA HandledStep ==
    ASSUME LogInv, NEW j \in Job, Handled(j)
    PROVE  LogInv'
<1> DEFINE next == Stage(j, "done")
<1>1. job[j] \in Telling /\ job[j].stage = "next" /\ Routed(j) /\ Traced(j) /\ ~ (j > served)
  BY StageSays, InvFacts, HasBegun DEF Handled
<1>2. next \in Telling /\ next.stage = "done" /\ next.to = job[j].to /\ next.op = "event"
      /\ next.event = job[j].event /\ next.channels = job[j].channels
  BY <1>1 DEF Telling, Stage
<1>3. /\ job' = [job EXCEPT ![j] = next]
      /\ UNCHANGED <<template, preference, studio, phone, log, bell, thread, appointment,
                     served, changes, clock, trouble>>
  BY DEF Handled, Goto, settings, records
<1> HIDE DEF next
<1>4. SettingsTyped' /\ RowsTyped' /\ job'[j] = next
  BY <1>3, InvFacts DEF SettingsTyped, RowsTyped, JobsTyped
<1>5. Routed(j)'
  BY <1>1, <1>2, <1>3, <1>4 DEF Routed, Telling
<1>6. Traced(j)'
  BY <1>1, <1>2, <1>3, <1>4 DEF Traced, Mine
<1> QED
  BY <1>1, <1>2, <1>3, <1>4, <1>5, <1>6, TellingGoesOn DEF settings

LEMMA copyToStudioStep ==
    ASSUME LogInv, NEW j \in Job, NEW written \in BOOLEAN, copyToStudio(j, written)
    PROVE  LogInv'
<1> DEFINE next == IF job[j].event \in Copied /\ studio
                   THEN [Stage(j, "queue") EXCEPT !.to = "studio", !.channel = "WHATSAPP"]
                   ELSE Stage(j, "done")
<1>1. /\ job[j] \in Telling /\ job[j].stage = "next" /\ job[j].channels = {} /\ job[j].to = "customer"
      /\ Routed(j) /\ Traced(j) /\ ~ (j > served)
  BY StageSays, InvFacts, HasBegun DEF copyToStudio
<1>2. /\ next \in Telling /\ next.op = "event" /\ next.event = job[j].event /\ next.channels = {}
      /\ \/ next.stage = "done" /\ next.to = "customer"
         \/ /\ next.stage = "queue" /\ next.to = "studio" /\ next.channel = "WHATSAPP"
            /\ job[j].event \in Copied
  <2>1. CASE job[j].event \in Copied /\ studio
    <3>1. next = [Stage(j, "queue") EXCEPT !.to = "studio", !.channel = "WHATSAPP"]
      BY <2>1
    <3> HIDE DEF next
    <3> QED
      BY <1>1, <2>1, <3>1 DEF Stage, Telling, Channel, Recipient
  <2>2. CASE ~ (job[j].event \in Copied /\ studio)
    <3>1. next = Stage(j, "done")
      BY <2>2
    <3> HIDE DEF next
    <3> QED
      BY <1>1, <3>1 DEF Stage, Telling
  <2> QED
    BY <2>1, <2>2
<1>3. /\ job' = [job EXCEPT ![j] = next] /\ trouble' \in BOOLEAN
      /\ UNCHANGED <<template, preference, studio, phone, log, thread, appointment,
                     served, changes, clock>>
  BY InvFacts DEF copyToStudio, settings, SettingsTyped
<1>4. bell' \subseteq bell \cup {[job |-> j, to |-> t] : t \in {"customer", "staff"}}
  BY DEF copyToStudio, Rings
<1> HIDE DEF next
<1>5. SettingsTyped' /\ RowsTyped' /\ job'[j] = next
  <2>1. bell' \subseteq [job : Job, to : {"customer", "staff"}]
    BY <1>4, InvFacts DEF RowsTyped
  <2> QED
    BY <1>3, <2>1, InvFacts DEF SettingsTyped, RowsTyped, JobsTyped
<1>6. Mine(j)' = Mine(j) /\ \A r \in Mine(j) : r.to = "customer"
  BY <1>1, <1>3 DEF Mine, Traced, Telling
<1>7. Routed(j)'
  BY <1>1, <1>2, <1>3, <1>5 DEF Routed, Copied, Codes, Channel
<1>8. Traced(j)'
  BY <1>1, <1>2, <1>5, <1>6 DEF Traced, Unlogged, Telling
<1> QED
  BY <1>1, <1>2, <1>3, <1>5, <1>7, <1>8, TellingGoesOn DEF settings

-----------------------------------------------------------------------------
(* The log *)

LEMMA QueueStep ==
    ASSUME LogInv, NEW j \in Job, Queue(j)
    PROVE  LogInv'
<1> DEFINE r   == job[j]
           new == [job |-> j, event |-> r.event, channel |-> r.channel, to |-> r.to,
                   status |-> "QUEUED", transmitted |-> FALSE]
<1>1. r \in Telling /\ r.stage = "queue" /\ Routed(j) /\ Traced(j) /\ ~ (j > served)
      /\ r.channel \in Channel
  BY StageSays, InvFacts, HasBegun DEF Queue, Routed, Telling
<1>2. UNCHANGED <<template, preference, studio, phone, bell, thread, appointment,
                  served, changes, clock, trouble>>
  BY DEF Queue, Goto, settings
<1>3. SettingsTyped'
  BY <1>2, InvFacts DEF SettingsTyped
<1>4. CASE template[r.event][r.channel] = "on"
  <2> DEFINE next == Stage(j, "dispatch")
  <2>1. job' = [job EXCEPT ![j] = next] /\ log' = log \cup {new}
    BY <1>4 DEF Queue, Goto
  <2>2. next \in Telling /\ next.op = "event" /\ next.event = r.event /\ next.channels = r.channels
        /\ next.to = r.to /\ next.channel = r.channel /\ next.outcome = r.outcome
        /\ next.stage = "dispatch"
    BY <1>1 DEF Stage, Telling
  <2> HIDE DEF next
  <2>3. new \in Entry /\ new.job = j /\ new.to = r.to /\ new.channel = r.channel
        /\ new.event = r.event /\ new.status = "QUEUED"
    BY <1>1 DEF Entry, Telling
  <2> HIDE DEF new
  <2>4. \A x \in Mine(j) : x.to = r.to => x.channel # r.channel
    BY <1>1 DEF Traced, Unlogged, Telling
  <2>5. RowsTyped' /\ job'[j] = next
    BY <1>2, <2>1, <2>2, <2>3, InvFacts DEF RowsTyped, JobsTyped
  <2>6. OneRowEach'
    BY <2>1, <2>3, <2>4, InvFacts DEF OneRowEach, Mine
  <2>7. LogTellsTheTruth' /\ CodesGoByEmail'
    BY <1>1, <2>1, <2>3 DEF LogInv, LogTellsTheTruth, CodesGoByEmail, Routed, Telling
  <2>8. Mine(j)' = Mine(j) \cup {new}
    BY <2>1, <2>3 DEF Mine
  <2>9. Routed(j)'
    BY <1>1, <1>2, <2>2, <2>5 DEF Routed, Telling
  <2>10. r.to = "customer" => \A x \in Mine(j)' : x.to = "customer"
    BY <1>1, <2>3, <2>8 DEF Traced, Telling
  <2>11. \A c \in next.channels : Unlogged(j, c)'
    BY <1>1, <2>2, <2>3, <2>5, <2>8 DEF Traced, Unlogged, Telling
  <2>12. Traced(j)'
    BY <1>1, <2>2, <2>3, <2>5, <2>8, <2>10, <2>11 DEF Traced, Telling
  <2>13. \A x : x.job # j => (x \in log <=> x \in log')
    BY <2>1, <2>3
  <2>14. JobsTyped' /\ \A k \in Job : Routed(k)' /\ Traced(k)'
    BY <1>2, <2>1, <2>2, <2>9, <2>12, <2>13, OthersStand DEF Requests
  <2> QED
    BY <1>3, <2>5, <2>6, <2>7, <2>14 DEF LogInv
<1>5. CASE template[r.event][r.channel] # "on"
  <2> DEFINE next == Stage(j, "next")
  <2>1. job' = [job EXCEPT ![j] = next] /\ log' = log
    BY <1>5 DEF Queue, Goto
  <2>2. next \in Telling /\ next.op = "event" /\ next.event = r.event /\ next.channels = r.channels
        /\ next.to = r.to /\ next.stage = "next"
    BY <1>1 DEF Stage, Telling
  <2> HIDE DEF next
  <2>3. RowsTyped' /\ job'[j] = next /\ Mine(j)' = Mine(j)
    BY <1>2, <2>1, <2>2, InvFacts DEF RowsTyped, JobsTyped, Mine
  <2>4. Routed(j)'
    BY <1>1, <1>2, <2>2, <2>3 DEF Routed, Telling
  <2>5. Traced(j)'
    BY <1>1, <2>2, <2>3 DEF Traced, Unlogged, Telling
  <2> QED
    BY <1>1, <1>2, <1>3, <2>1, <2>2, <2>3, <2>4, <2>5, TellingGoesOn DEF settings
<1> QED
  BY <1>4, <1>5

\* The row of the channel that is being tried.
LEMMA RowFacts ==
    ASSUME LogInv, NEW j \in Job, job[j].stage \in {"dispatch", "record"}
    PROVE  /\ Row(j) \in log /\ Row(j) \in Entry /\ Row(j).job = j
           /\ Row(j).to = job[j].to /\ Row(j).channel = job[j].channel /\ Row(j).status = "QUEUED"
           /\ job[j].stage = "record" /\ job[j].outcome = "transmitted" => Row(j).transmitted
<1>1. job[j] \in Telling /\ Traced(j) /\ OneRowEach
  BY StageSays, InvFacts
<1>2. PICK r \in Mine(j) : /\ r.to = job[j].to /\ r.channel = job[j].channel
                           /\ r.status = "QUEUED"
                           /\ job[j].stage = "record" /\ job[j].outcome = "transmitted" =>
                                 r.transmitted
  BY <1>1 DEF Traced, Telling
<1>3. Row(j) \in log /\ Row(j).job = j /\ Row(j).to = job[j].to /\ Row(j).channel = job[j].channel
  BY <1>2 DEF Row, Mine
<1>4. Row(j) = r
  BY <1>1, <1>2, <1>3 DEF OneRowEach, Mine
<1> QED
  BY <1>2, <1>3, <1>4, InvFacts

\* Writing that row, if at all.
LEMMA RowWritten ==
    ASSUME LogInv, NEW j \in Job, job[j].stage \in {"dispatch", "record"},
           NEW new \in Entry, new.job = j, new.to = job[j].to, new.channel = job[j].channel,
           new.event = Row(j).event, new.status = "SENT" => new.transmitted,
           log' = Logged(j, new),
           NEW next \in Telling, job' = [job EXCEPT ![j] = next],
           next.event = job[j].event, next.channels = job[j].channels, next.channel = job[j].channel,
           next.to = job[j].to, next.stage \in {"next", "record"},
           next.stage = "record" => /\ new.status = "QUEUED"
                                    /\ next.outcome = "transmitted" => new.transmitted,
           UNCHANGED <<template, preference, studio, phone, bell, thread, appointment,
                       served, changes, clock>>,
           trouble' \in BOOLEAN
    PROVE  LogInv'
<1>1. job[j] \in Telling /\ Routed(j) /\ Traced(j) /\ ~ (j > served)
  BY StageSays, InvFacts, HasBegun
<1>2. /\ Row(j) \in log /\ Row(j) \in Entry /\ Row(j).job = j
      /\ Row(j).to = job[j].to /\ Row(j).channel = job[j].channel
  BY RowFacts
<1>3. log' = (log \ {Row(j)}) \cup {new}
  BY DEF Logged
<1>4. SettingsTyped' /\ RowsTyped' /\ job'[j] = next
  BY <1>3, InvFacts DEF SettingsTyped, RowsTyped, JobsTyped
<1>5. OneRowEach'
  BY <1>2, <1>3, InvFacts DEF OneRowEach
<1>6. LogTellsTheTruth' /\ CodesGoByEmail'
  BY <1>2, <1>3 DEF LogInv, LogTellsTheTruth, CodesGoByEmail
<1>7. Mine(j)' = (Mine(j) \ {Row(j)}) \cup {new} /\ Row(j) \in Mine(j)
  BY <1>2, <1>3 DEF Mine
<1>8. next.op = "event" /\ job[j].op = "event"
  BY <1>1 DEF Telling
<1>9. Routed(j)'
  BY <1>1, <1>4, <1>8 DEF Routed
<1>10. \A c : Unlogged(j, c) => Unlogged(j, c)'
  BY <1>2, <1>4, <1>7 DEF Unlogged
<1>11. next.to = "customer" => \A r \in Mine(j)' : r.to = "customer"
  BY <1>1, <1>7, <1>8 DEF Traced
<1>12. new \in Mine(j)'
  BY <1>7
<1>13. /\ \A c \in next.channels : Unlogged(j, c)'
       /\ next.channel \notin next.channels
  BY <1>1, <1>8, <1>10 DEF Traced
<1>14. Traced(j)'
  BY <1>4, <1>8, <1>11, <1>12, <1>13 DEF Traced
<1>15. \A x : x.job # j => (x \in log <=> x \in log')
  BY <1>2, <1>3
<1>16. JobsTyped' /\ \A k \in Job : Routed(k)' /\ Traced(k)'
  BY <1>9, <1>14, <1>15, OthersStand DEF Requests
<1> QED
  BY <1>4, <1>5, <1>6, <1>16 DEF LogInv

LEMMA dispatchStep ==
    ASSUME LogInv, NEW j \in Job, NEW outcome, dispatch(j, outcome)
    PROVE  LogInv'
<1> DEFINE next == [Stage(j, "record") EXCEPT !.outcome = outcome]
           new  == [Row(j) EXCEPT !.transmitted = outcome = "transmitted"]
<1>1. job[j] \in Telling /\ job[j].stage = "dispatch" /\ outcome \in Outcome
  BY StageSays DEF dispatch, EmailAnswers, WhatsAppAnswers, Outcome
<1>2. /\ next \in Telling /\ next.event = job[j].event /\ next.channels = job[j].channels
      /\ next.channel = job[j].channel /\ next.to = job[j].to /\ next.stage = "record"
      /\ next.outcome = outcome
  BY <1>1 DEF Telling, Stage
<1>3. /\ new \in Entry /\ new.job = j /\ new.to = job[j].to /\ new.channel = job[j].channel
      /\ new.event = Row(j).event /\ new.status = "QUEUED"
      /\ outcome = "transmitted" => new.transmitted
  BY <1>1, RowFacts, ZenonT(90) DEF Entry
<1>4. /\ job' = [job EXCEPT ![j] = next] /\ log' = Logged(j, new)
      /\ UNCHANGED <<template, preference, studio, phone, bell, thread, appointment,
                     served, changes, clock, trouble>>
  BY DEF dispatch, Goto, settings
<1> HIDE DEF next, new
<1>5. trouble' \in BOOLEAN
  BY <1>4, InvFacts DEF SettingsTyped
<1> QED
  BY <1>1, <1>2, <1>3, <1>4, <1>5, RowWritten

\* Settling a row with what became of the send.
Settles(j, status) ==
    /\ log' = Logged(j, [Row(j) EXCEPT !.status = status])
    /\ job' = [job EXCEPT ![j] = [Stage(j, "next") EXCEPT !.outcome = None]]
    /\ UNCHANGED <<template, preference, studio, phone, bell, thread, appointment,
                   served, changes, clock>>
    /\ trouble' \in BOOLEAN

LEMMA RowSettled ==
    ASSUME LogInv, NEW j \in Job, job[j].stage = "record", NEW status \in {"SENT", "FAILED"},
           status = "SENT" => job[j].outcome = "transmitted", Settles(j, status)
    PROVE  LogInv'
<1> DEFINE next == [Stage(j, "next") EXCEPT !.outcome = None]
           new  == [Row(j) EXCEPT !.status = status]
<1>1. job[j] \in Telling
  BY StageSays
<1>2. /\ next \in Telling /\ next.event = job[j].event /\ next.channels = job[j].channels
      /\ next.channel = job[j].channel /\ next.to = job[j].to /\ next.stage = "next"
  BY <1>1 DEF Telling, Stage
<1>3. /\ new \in Entry /\ new.job = j /\ new.to = job[j].to /\ new.channel = job[j].channel
      /\ new.event = Row(j).event /\ new.status = status /\ new.transmitted = Row(j).transmitted
  BY <1>1, RowFacts DEF Entry
<1>4. new.status = "SENT" => new.transmitted
  BY <1>3, RowFacts
<1>5. /\ job' = [job EXCEPT ![j] = next] /\ log' = Logged(j, new) /\ trouble' \in BOOLEAN
      /\ UNCHANGED <<template, preference, studio, phone, bell, thread, appointment,
                     served, changes, clock>>
  BY DEF Settles
<1>6. job[j].stage \in {"dispatch", "record"} /\ next.stage # "record"
  BY <1>2
<1> HIDE DEF next, new
<1> QED
  BY <1>2, <1>3, <1>4, <1>5, <1>6, RowWritten

LEMMA RecordStep ==
    ASSUME LogInv, NEW j \in Job, Record(j)
    PROVE  LogInv'
<1>1. /\ job[j].stage = "record" /\ log' = Logged(j, [Row(j) EXCEPT !.status = Recorded(j)])
      /\ job' = [job EXCEPT ![j] = [Stage(j, "next") EXCEPT !.outcome = None]]
      /\ UNCHANGED <<template, preference, studio, phone, bell, thread, appointment,
                     served, changes, clock, trouble>>
  BY DEF Record, Goto, settings
<1>2. Recorded(j) \in {"SENT", "FAILED"} /\ (Recorded(j) = "SENT" => job[j].outcome = "transmitted")
  BY DEF Recorded
<1>3. trouble' \in BOOLEAN
  BY <1>1, InvFacts DEF SettingsTyped
<1> QED
  BY <1>1, <1>2, <1>3, RowSettled DEF Settles

LEMMA RecordFailsStep ==
    ASSUME LogInv, NEW j \in Job, RecordFails(j)
    PROVE  LogInv'
<1> DEFINE next == [Stage(j, "next") EXCEPT !.outcome = None]
<1>1. /\ job[j].stage = "record" /\ job' = [job EXCEPT ![j] = next] /\ trouble' \in BOOLEAN
      /\ UNCHANGED <<template, preference, studio, phone, bell, thread, appointment,
                     served, changes, clock>>
  BY DEF RecordFails, settings
<1>2. CASE log' = Logged(j, [Row(j) EXCEPT !.status = "FAILED"])
  BY <1>1, <1>2, RowSettled DEF Settles
<1>3. CASE log' = log
  <2>1. job[j] \in Telling /\ Routed(j) /\ Traced(j) /\ ~ (j > served)
    BY <1>1, StageSays, InvFacts, HasBegun
  <2>2. /\ next \in Telling /\ next.event = job[j].event /\ next.channels = job[j].channels
        /\ next.to = job[j].to /\ next.stage = "next" /\ next.op = "event"
    BY <2>1 DEF Telling, Stage
  <2> HIDE DEF next
  <2>3. SettingsTyped' /\ RowsTyped' /\ job'[j] = next /\ Mine(j)' = Mine(j)
    BY <1>1, <1>3, InvFacts DEF SettingsTyped, RowsTyped, JobsTyped, Mine
  <2>4. Routed(j)'
    BY <1>1, <2>1, <2>2, <2>3 DEF Routed, Telling
  <2>5. Traced(j)'
    BY <1>1, <2>1, <2>2, <2>3 DEF Traced, Unlogged, Telling
  <2> QED
    BY <1>1, <1>3, <2>2, <2>3, <2>4, <2>5, TellingGoesOn DEF settings
<1>4. log' = log \/ log' = Logged(j, [Row(j) EXCEPT !.status = "FAILED"])
  BY DEF RecordFails
<1> QED
  BY <1>2, <1>3, <1>4

-----------------------------------------------------------------------------
(* Consultations and the thread *)

\* What a request that is not telling an event has written to the log: nothing.
LEMMA NothingLogged ==
    ASSUME LogInv, NEW j \in Job, job[j].op # "event"
    PROVE  Mine(j) = {}
BY InvFacts DEF Traced

\* A request that ends, other than one that tells an event.
LEMMA EndStep ==
    ASSUME LogInv, NEW j \in Job, job[j] \in Requests \ Telling, job[j].stage # "done",
           Goto(j, Stage(j, "done")), UNCHANGED <<settings, log>>,
           RowsTyped', DOMAIN appointment' = DOMAIN appointment
    PROVE  LogInv'
<1> DEFINE next == Stage(j, "done")
<1>1. next \in Requests \ Telling /\ next.op = job[j].op
      /\ (next.op = "update" => next.id = job[j].id)
  BY DEF Stage, Requests, Telling, Booking, Updating, Hearing, Replying, Resting
<1>2. job[j].op # "event" /\ Routed(j) /\ ~ (j > served)
  BY InvFacts, HasBegun DEF Requests, Telling, Booking, Updating, Hearing, Replying, Resting
<1>3. /\ job' = [job EXCEPT ![j] = next]
      /\ UNCHANGED <<template, preference, studio, phone, log, served, changes, clock, trouble>>
  BY DEF Goto, settings
<1> HIDE DEF next
<1>4. SettingsTyped' /\ j <= served'
  BY <1>2, <1>3, InvFacts DEF SettingsTyped, Job
<1>5. next.op = "update" => next.id \in DOMAIN appointment'
  BY <1>1, <1>2 DEF Routed
<1>6. Routed(j)' /\ Traced(j)'
  BY <1>1, <1>2, <1>3, <1>4, <1>5, NothingLogged, TellsNobody
<1> QED
  BY <1>1, <1>3, <1>4, <1>6, GoesOn

\* A request that emits an event.
LEMMA EmitStep ==
    ASSUME LogInv, NEW j \in Job, job[j] \in Requests \ Telling, job[j].stage # "done",
           NEW e \in Event, Goto(j, Emitted(e)), UNCHANGED <<settings, log>>,
           RowsTyped', DOMAIN appointment \subseteq DOMAIN appointment'
    PROVE  LogInv'
<1>1. job[j].op # "event" /\ Routed(j) /\ ~ (j > served)
  BY InvFacts, HasBegun DEF Requests, Telling, Booking, Updating, Hearing, Replying, Resting
<1>2. /\ job' = [job EXCEPT ![j] = Emitted(e)]
      /\ UNCHANGED <<template, preference, studio, phone, log, served, changes, clock, trouble>>
  BY DEF Goto, settings
<1>3. SettingsTyped' /\ j <= served'
  BY <1>1, <1>2, InvFacts DEF SettingsTyped, Job
<1>4. Routed(j)' /\ Traced(j)'
  BY <1>1, <1>2, <1>3, NothingLogged, EmittedStands
<1>5. Emitted(e) \in Requests
  BY EmittedFacts DEF Requests
<1> QED
  BY <1>2, <1>3, <1>4, <1>5, GoesOn

LEMMA BookedStep ==
    ASSUME LogInv, NEW j \in Job, Booked(j)
    PROVE  LogInv'
<1>1. /\ job[j] \in Booking /\ job[j] \in Requests \ Telling /\ job[j].stage # "done"
      /\ UNCHANGED <<settings, log, bell, thread>>
  BY StageSays DEF Booked, Booking, Telling
<1>2. CASE job[j].seen # {}
  <2>1. Goto(j, Stage(j, "done")) /\ appointment' = appointment
    BY <1>2 DEF Booked
  <2>2. RowsTyped'
    BY <1>1, <2>1, InvFacts DEF RowsTyped
  <2> QED
    BY <1>1, <2>1, <2>2, EndStep
<1>3. CASE job[j].seen = {}
  <2> DEFINE row == [at |-> job[j].at, made |-> clock, status |-> "REQUESTED"]
  <2>1. Goto(j, Emitted("appointment.requested")) /\ appointment' = Append(appointment, row)
    BY <1>3 DEF Booked
  <2>2. row \in Appointment
    BY <1>1, InvFacts DEF Booking, Appointment, Standing, SettingsTyped
  <2> HIDE DEF row
  <2>3. RowsTyped' /\ DOMAIN appointment \subseteq DOMAIN appointment'
    BY <1>1, <2>1, <2>2, InvFacts DEF RowsTyped
  <2>4. "appointment.requested" \in Event
    BY DEF Event
  <2> QED
    BY <1>1, <2>1, <2>3, <2>4, EmitStep
<1> QED
  BY <1>2, <1>3

LEMMA UpdatedStep ==
    ASSUME LogInv, NEW j \in Job, Updated(j)
    PROVE  LogInv'
<1> DEFINE r == job[j]
<1>1. /\ r \in Updating /\ r \in Requests \ Telling /\ r.stage # "done" /\ r.id \in DOMAIN appointment
      /\ UNCHANGED <<settings, log, bell, thread>>
  BY StageSays, InvFacts DEF Updated, Updating, Telling, Routed
<1>2. appointment' = [appointment EXCEPT ![r.id].status = r.to] /\ r.to \in Standing
  BY <1>1 DEF Updated, Updating
<1>3. appointment' \in Seq(Appointment) /\ DOMAIN appointment' = DOMAIN appointment
  <2>1. appointment \in Seq(Appointment) /\ appointment[r.id] \in Appointment
    BY <1>1, InvFacts DEF RowsTyped
  <2>2. [appointment[r.id] EXCEPT !.status = r.to] \in Appointment
    BY <1>2, <2>1 DEF Appointment
  <2> QED
    BY <1>1, <1>2, <2>1, <2>2, ExceptSeq
<1>4. RowsTyped'
  BY <1>1, <1>3, InvFacts DEF RowsTyped
<1>5. CASE r.to = "CONFIRMED" /\ r.from # "CONFIRMED"
  <2>1. Goto(j, Emitted("appointment.confirmed")) /\ "appointment.confirmed" \in Event
    BY <1>5 DEF Updated, Event
  <2> QED
    BY <1>1, <1>3, <1>4, <2>1, EmitStep
<1>6. CASE ~ (r.to = "CONFIRMED" /\ r.from # "CONFIRMED")
  <2>1. Goto(j, Stage(j, "done"))
    BY <1>6 DEF Updated
  <2> QED
    BY <1>1, <1>3, <1>4, <2>1, EndStep
<1> QED
  BY <1>5, <1>6

LEMMA ThreadStep ==
    ASSUME LogInv, NEW j \in Job, Stored(j) \/ \E t \in BOOLEAN : Replied(j, t)
    PROVE  LogInv'
<1>1. /\ job[j] \in Requests \ Telling /\ job[j].stage # "done"
      /\ Goto(j, Stage(j, "done")) /\ UNCHANGED <<settings, log, bell, appointment>>
  BY StageSays DEF Stored, Replied, Hearing, Replying, Telling
<1>2. \/ thread' = thread
      \/ \E m \in Message : thread' = Append(thread, m)
  <2>1. CASE Stored(j)
    <3>1. [sid |-> job[j].sid, at |-> clock] \in Message
      BY <2>1, StageSays, InvFacts DEF Stored, Hearing, Message, SettingsTyped
    <3> QED
      BY <2>1, <3>1 DEF Stored
  <2>2. ASSUME NEW t \in BOOLEAN, Replied(j, t)
        PROVE  thread' = thread \/ \E m \in Message : thread' = Append(thread, m)
    <3>1. [sid |-> None, at |-> clock] \in Message
      BY InvFacts DEF Message, SettingsTyped
    <3> QED
      BY <2>2, <3>1 DEF Replied
  <2> QED
    BY <2>1, <2>2
<1>3. RowsTyped'
  BY <1>1, <1>2, InvFacts DEF RowsTyped
<1> QED
  BY <1>1, <1>3, EndStep

-----------------------------------------------------------------------------
(* Settings, time and failure *)

\* What changes of the jobs here is neither where they are nor whom they tell.
LEMMA JobsGoOn ==
    ASSUME LogInv, JobsTyped', UNCHANGED <<log, appointment, served>>,
           \A j \in Job :
               \/ job'[j] = job[j]
               \/ /\ job[j].op # "event" /\ job'[j].op = job[j].op /\ job[j] # Unbegun
                  /\ job[j].op = "update" => job'[j].id = job[j].id
               \/ /\ job[j].op = "event" /\ job'[j].op = "event" /\ job[j] # Unbegun
                  /\ job'[j].event = job[j].event /\ job'[j].channels = job[j].channels
                  /\ job'[j].channel = job[j].channel /\ job'[j].to = job[j].to
                  /\ \/ job'[j].stage = job[j].stage /\ job'[j].outcome = job[j].outcome
                     \/ job'[j].stage = "done"
    PROVE  \A j \in Job : Routed(j)' /\ Traced(j)'
<1> SUFFICES ASSUME NEW j \in Job
             PROVE  Routed(j)' /\ Traced(j)'
  OBVIOUS
<1>1. Routed(j) /\ Traced(j)
  BY InvFacts
<1>2. Mine(j)' = Mine(j)
  BY DEF Mine
<1>3. Routed(j)'
  BY <1>1 DEF Routed
<1>4. Traced(j)'
  <2>1. CASE job'[j] = job[j]
    BY <1>1, <1>2, <2>1 DEF Traced, Unlogged
  <2>2. CASE job[j].op # "event" /\ job'[j].op = job[j].op
    BY <1>1, <1>2, <2>2 DEF Traced
  <2>3. CASE job[j].op = "event" /\ job'[j].op = "event"
    BY <1>1, <1>2, <2>3 DEF Traced, Unlogged
  <2> QED
    BY <2>1, <2>2, <2>3
<1> QED
  BY <1>3, <1>4

LEMMA ChangeStep ==
    ASSUME LogInv, Change, UNCHANGED records, SettingsTyped'
    PROVE  LogInv'
<1>1. PICK due : job' = Reviewed(due)
  BY DEF Change
<1>2. UNCHANGED <<log, bell, thread, appointment, served, clock, trouble>>
  BY DEF Change, records
<1>3. \A j \in Job : job[j] \in Requests
  BY StageSays
<1>4. ASSUME NEW j \in Job
      PROVE  /\ job'[j] \in Requests
             /\ \/ job'[j] = job[j]
                \/ /\ job[j].op = "event" /\ job'[j].op = "event" /\ job[j] # Unbegun
                   /\ job'[j].event = job[j].event /\ job'[j].channels = job[j].channels
                   /\ job'[j].channel = job[j].channel /\ job'[j].to = job[j].to
                   /\ job'[j].stage = job[j].stage /\ job'[j].outcome = job[j].outcome
  <2>1. CASE job[j].op = "event" /\ job[j].stage # "done"
    <3> DEFINE next == [job[j] EXCEPT !.due = @ \cap due[job[j].event]]
    <3>1. job'[j] = next
      BY <1>1, <2>1 DEF Reviewed
    <3>2. job[j] \in Telling
      BY <2>1, StageSays
    <3>3. /\ next \in Telling /\ next.op = "event" /\ next.event = job[j].event
          /\ next.channels = job[j].channels /\ next.channel = job[j].channel
          /\ next.to = job[j].to /\ next.stage = job[j].stage /\ next.outcome = job[j].outcome
      BY <3>2 DEF Telling
    <3> HIDE DEF next
    <3> QED
      BY <2>1, <3>1, <3>3 DEF Unbegun, Requests
  <2>2. CASE ~ (job[j].op = "event" /\ job[j].stage # "done")
    BY <1>1, <1>3, <2>2 DEF Reviewed
  <2> QED
    BY <2>1, <2>2
<1>5. JobsTyped'
  <2>1. job' = [j \in Job |-> job'[j]]
    BY <1>1 DEF Reviewed
  <2> QED
    BY <1>4, <2>1 DEF JobsTyped, Requests
<1>6. \A j \in Job : Routed(j)' /\ Traced(j)'
  BY <1>2, <1>4, <1>5, JobsGoOn
<1>7. RowsTyped'
  BY <1>2, InvFacts DEF RowsTyped
<1> QED
  BY <1>2, <1>5, <1>6, <1>7, LogStands DEF LogInv

LEMMA ConfigureStep ==
    ASSUME LogInv, Configure
    PROVE  LogInv'
<1>1. Change /\ UNCHANGED records
  BY DEF Configure, savePreference, setChannel, saveTemplate, records
<1>2. changes' \in 0 .. MaxChanges /\ UNCHANGED <<served, clock, trouble>>
  BY <1>1, InvFacts, MessagesAssumption DEF Change, SettingsTyped
<1>3. /\ template' \in [Event -> [Channel -> {"absent", "on", "off"}]]
      /\ preference' \in [Channel -> [{"account.welcome", "*"} -> BOOLEAN \cup {None}]]
      /\ UNCHANGED <<studio, phone>>
  <2>1. ASSUME NEW c \in Channel, NEW t \in {"account.welcome", "*"}, NEW b \in BOOLEAN,
               savePreference(c, t, b)
        PROVE  <1>3!:
    BY <2>1, InvFacts DEF savePreference, SettingsTyped
  <2>2. ASSUME NEW e \in InFlight, NEW c \in Channel, NEW b \in BOOLEAN,
               setChannel(e, c, b) \/ saveTemplate(e, c, b)
        PROVE  <1>3!:
    <3>1. e \in Event
      <4>1. PICK j \in Job : job[j].op = "event" /\ e = job[j].event
        BY <2>2 DEF InFlight
      <4> QED
        BY <4>1, StageSays DEF Telling
    <3>2. CASE setChannel(e, c, b)
      BY <3>1, <3>2, InvFacts DEF setChannel, SettingsTyped
    <3>3. CASE saveTemplate(e, c, b)
      BY <3>1, <3>3, InvFacts DEF saveTemplate, SettingsTyped
    <3> QED
      BY <2>2, <3>2, <3>3
  <2> QED
    BY <2>1, <2>2 DEF Configure
<1>4. SettingsTyped'
  BY <1>2, <1>3, InvFacts DEF SettingsTyped
<1> QED
  BY <1>1, <1>4, ChangeStep

\* Stopping where it is.
LEMMA Stopped ==
    ASSUME NEW r \in Requests
    PROVE  /\ [r EXCEPT !.stage = "done"] \in Requests
           /\ [r EXCEPT !.stage = "done"].op = r.op /\ [r EXCEPT !.stage = "done"].stage = "done"
           /\ r.op = "update" => [r EXCEPT !.stage = "done"].id = r.id
           /\ r.op = "event" =>
                 /\ [r EXCEPT !.stage = "done"].event = r.event
                 /\ [r EXCEPT !.stage = "done"].channels = r.channels
                 /\ [r EXCEPT !.stage = "done"].channel = r.channel
                 /\ [r EXCEPT !.stage = "done"].to = r.to
           /\ r.op = "unbegun" => [r EXCEPT !.stage = "done"] = r
<1>1. CASE r \in Telling
  BY <1>1 DEF Requests, Telling
<1>2. CASE r \in Booking
  BY <1>2 DEF Requests, Booking
<1>3. CASE r \in Updating
  BY <1>3 DEF Requests, Updating
<1>4. CASE r \in Hearing
  BY <1>4 DEF Requests, Hearing
<1>5. CASE r \in Replying
  BY <1>5 DEF Requests, Replying
<1>6. CASE r \in Resting
  BY <1>6 DEF Requests, Resting
<1> QED
  BY <1>1, <1>2, <1>3, <1>4, <1>5, <1>6 DEF Requests

LEMMA StopStep ==
    ASSUME LogInv, Stop \/ \E j \in Job : Reject(j)
    PROVE  LogInv'
<1>1. /\ trouble' = TRUE
      /\ UNCHANGED <<template, preference, studio, phone, log, bell, thread, appointment,
                     served, changes, clock>>
  BY DEF Stop, Reject, settings, records
<1>2. SettingsTyped' /\ RowsTyped'
  BY <1>1, InvFacts DEF SettingsTyped, RowsTyped
<1>3. \A j \in Job : job[j] \in Requests
  BY StageSays
<1>4. /\ DOMAIN job' = Job /\ job' = [j \in Job |-> job'[j]]
      /\ \A j \in Job : job'[j] = job[j] \/ job'[j] = [job[j] EXCEPT !.stage = "done"]
  BY InvFacts DEF Stop, Reject, JobsTyped
<1>5. JobsTyped'
  BY <1>3, <1>4, Stopped DEF JobsTyped, Requests
<1>6. ASSUME NEW j \in Job
      PROVE  \/ job'[j] = job[j]
             \/ /\ job[j].op # "event" /\ job'[j].op = job[j].op /\ job[j] # Unbegun
                /\ job[j].op = "update" => job'[j].id = job[j].id
             \/ /\ job[j].op = "event" /\ job'[j].op = "event" /\ job[j] # Unbegun
                /\ job'[j].event = job[j].event /\ job'[j].channels = job[j].channels
                /\ job'[j].channel = job[j].channel /\ job'[j].to = job[j].to
                /\ job'[j].stage = "done"
  <2> DEFINE end == [job[j] EXCEPT !.stage = "done"]
  <2>1. CASE job'[j] = job[j]
    BY <2>1
  <2>2. CASE job'[j] = end
    <3>1. /\ end.op = job[j].op /\ end.stage = "done"
          /\ job[j].op = "update" => end.id = job[j].id
          /\ job[j].op = "event" => /\ end.event = job[j].event /\ end.channels = job[j].channels
                                    /\ end.channel = job[j].channel /\ end.to = job[j].to
          /\ job[j].op = "unbegun" => end = job[j]
      BY <1>3, Stopped
    <3> HIDE DEF end
    <3>2. CASE job[j].op = "unbegun"
      BY <2>2, <3>1, <3>2
    <3>3. CASE job[j].op # "unbegun"
      <4>1. job[j] # Unbegun
        BY <3>3 DEF Unbegun
      <4> QED
        BY <2>2, <3>1, <4>1
    <3> QED
      BY <3>2, <3>3
  <2> QED
    BY <1>4, <2>1, <2>2
<1>7. \A j \in Job : Routed(j)' /\ Traced(j)'
  BY <1>1, <1>5, <1>6, JobsGoOn
<1> QED
  BY <1>1, <1>2, <1>5, <1>7, LogStands DEF LogInv

-----------------------------------------------------------------------------
(* The theorems *)

LEMMA LogInvInit == Init => LogInv
<1> SUFFICES ASSUME Init
             PROVE  LogInv
  OBVIOUS
<1>1. SettingsTyped
  <2>1. \A e \in Event, c \in Channel : Seeded(e, c) \in {"absent", "on", "off"}
    BY DEF Seeded
  <2>2. template \in [Event -> [Channel -> {"absent", "on", "off"}]]
    BY <2>1 DEF Init
  <2>3. preference \in [Channel -> [{"account.welcome", "*"} -> BOOLEAN \cup {None}]]
    BY DEF Init
  <2>4. studio \in BOOLEAN /\ phone \in BOOLEAN /\ trouble \in BOOLEAN
    <3>1. studio \in BOOLEAN /\ phone = studio /\ trouble = FALSE
      BY DEF Init
    <3> QED
      BY <3>1
  <2>5. served \in 0 .. MaxRequests /\ changes \in 0 .. MaxChanges /\ clock \in 0 .. MaxTime
    BY MessagesAssumption DEF Init
  <2> QED
    BY <2>2, <2>3, <2>4, <2>5 DEF SettingsTyped
<1>2. RowsTyped
  BY DEF Init, RowsTyped
<1>3. JobsTyped /\ \A j \in Job : job[j] = Unbegun
  BY DEF Init, JobsTyped, Unbegun, Resting
<1>4. \A j \in Job : Routed(j) /\ Traced(j)
  BY <1>3 DEF Routed, Traced, Mine, Unbegun, Init
<1> QED
  BY <1>1, <1>2, <1>3, <1>4 DEF LogInv, OneRowEach, LogTellsTheTruth, CodesGoByEmail, Init

LEMMA LogInvStep == LogInv /\ [Next]_vars => LogInv'
<1> SUFFICES ASSUME LogInv, [Next]_vars
             PROVE  LogInv'
  OBVIOUS
<1>1. ASSUME NEW j \in Job, Request(j)
      PROVE  LogInv'
  <2>1. {"account.welcome", "order.placed", "giftcard.issued"} \subseteq Event
    BY DEF Event
  <2> QED
    BY <1>1, <2>1, RequestStep, emitStep DEF Request, At
<1>2. ASSUME NEW j \in Job, Step(j)
      PROVE  LogInv'
  BY <1>2, sendToAllChannelsStep, sendMessageStep, QueueStep, RecordStep, copyToStudioStep,
     HandledStep, dispatchStep, BookedStep, UpdatedStep, ThreadStep DEF Step
<1>3. ASSUME NEW j \in Job, RecordFails(j) \/ copyToStudio(j, FALSE) \/ Reject(j)
      PROVE  LogInv'
  BY <1>3, RecordFailsStep, copyToStudioStep, StopStep
<1>4. CASE Configure
  BY <1>4, ConfigureStep
<1>5. CASE Stop
  BY <1>5, StopStep
<1>6. CASE Tick \/ UNCHANGED vars
  <2>1. /\ clock' \in 0 .. MaxTime
        /\ UNCHANGED <<template, preference, studio, phone, log, bell, thread, appointment,
                       job, served, changes, trouble>>
    BY <1>6, InvFacts, MessagesAssumption DEF Tick, vars, settings, records, SettingsTyped
  <2>2. SettingsTyped' /\ RowsTyped' /\ JobsTyped'
    BY <2>1, InvFacts DEF SettingsTyped, RowsTyped, JobsTyped
  <2>3. \A j \in Job : Routed(j)' /\ Traced(j)'
    BY <2>1, <2>2, JobsGoOn
  <2> QED
    BY <2>1, <2>2, <2>3, LogStands DEF LogInv
<1> QED
  BY <1>1, <1>2, <1>3, <1>4, <1>5, <1>6 DEF Next

\* For any number of requests and of changes of settings while they run: the
\* log says a message was sent only when a provider said so, and no template
\* sends a gift card's code by anything but email.
THEOREM LogIsAlwaysTrue == Spec => []LogIsTrue
BY LogInvInit, LogInvStep, InvImplies, PTL DEF Spec

LEMMA InboundStep ==
    ASSUME LogInv, InboundOnce, [Next]_vars
    PROVE  InboundOnce'
<1>1. \/ thread' = thread
      \/ \E t : thread' = Append(thread, [sid |-> None, at |-> t])
      \/ \E sid, t : ~Taken(sid) /\ thread' = Append(thread, [sid |-> sid, at |-> t])
  <2>1. ASSUME NEW j \in Job, Stored(j) \/ \E t \in BOOLEAN : Replied(j, t)
        PROVE  <1>1!:
    BY <2>1 DEF Stored, Replied
  <2>2. ASSUME NEW j \in Job,
               Request(j) \/ RecordFails(j) \/ copyToStudio(j, FALSE) \/ Reject(j)
        PROVE  thread' = thread
    BY <2>2 DEF Request, emit, bookAppointment, updateAppointment, recordInbound, sendReply,
                RecordFails, copyToStudio, Reject, records
  <2>3. ASSUME NEW j \in Job,
               \/ sendToAllChannels(j) \/ \E c \in Channel : sendMessage(j, c)
               \/ Queue(j) \/ Record(j) \/ copyToStudio(j, TRUE) \/ Handled(j)
               \/ \E o \in EmailAnswers \cup WhatsAppAnswers : dispatch(j, o)
               \/ Booked(j) \/ Updated(j)
        PROVE  thread' = thread
    BY <2>3 DEF sendToAllChannels, sendMessage, Queue, Record, copyToStudio, Handled, dispatch,
                Booked, Updated, records
  <2>4. CASE Configure \/ Tick \/ Stop \/ UNCHANGED vars
    BY <2>4 DEF Configure, savePreference, setChannel, saveTemplate, Tick, Stop, records, vars
  <2> QED
    BY <2>1, <2>2, <2>3, <2>4 DEF Next, Step
<1>2. thread \in Seq(Message)
  BY InvFacts DEF RowsTyped
<1>3. CASE thread' = thread
  BY <1>3 DEF InboundOnce
<1>4. ASSUME NEW m, thread' = Append(thread, m), m.sid # None => ~Taken(m.sid)
      PROVE  InboundOnce'
  BY <1>2, <1>4 DEF InboundOnce, Taken
<1> QED
  BY <1>1, <1>3, <1>4

\* However often and however concurrently Twilio delivers a message, it is in
\* the thread once.
THEOREM InboundIsAlwaysOnce == Spec => []InboundOnce
<1>1. Init => InboundOnce
  BY DEF Init, InboundOnce
<1> QED
  BY <1>1, LogInvInit, LogInvStep, InboundStep, PTL DEF Spec

=============================================================================
