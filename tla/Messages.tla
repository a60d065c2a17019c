------------------------------ MODULE Messages ------------------------------
(***************************************************************************)
(* What the shop says and hears: event handlers that fan one event out     *)
(* over the channels with an active template, the delivery log, customers' *)
(* preferences, consultations, and the WhatsApp thread with a customer     *)
(* (events, modules/messaging, notifications, appointments,                *)
(* conversations).  One customer; order.placed stands for every message    *)
(* about an order, return or refund.                                       *)
(***************************************************************************)
EXTENDS Naturals, Sequences, FiniteSets

CONSTANTS
    None,
    Sid,          \* Twilio's ids of the customer's messages
    Minute,       \* a form sent twice within it is one request
    Window,       \* how long WhatsApp lets the shop answer freely
    Take,         \* getThread reads this many messages
    MaxTime,      \* bound on the clock
    MaxRequests,  \* bound on the requests and events of a behaviour
    MaxChanges    \* bound on the changes of settings

ASSUME MessagesAssumption ==
    /\ Minute \in Nat \ {0} /\ Window \in Nat \ {0} /\ Take \in Nat \ {0}
    /\ MaxTime \in Nat /\ MaxRequests \in Nat /\ MaxChanges \in Nat

Channel == {"EMAIL", "WHATSAPP"}     \* SMS goes where WHATSAPP does
Event   == {"account.welcome", "order.placed", "giftcard.issued",
            "appointment.requested", "appointment.confirmed"}

ALWAYS_SEND == {"order.placed"}
Personal    == {"account.welcome", "order.placed"}       \* sent with a userId
Copied      == {"order.placed", "appointment.requested"} \* to the studio too
Codes       == {"giftcard.issued"}                       \* worth money
Consultation == {"appointment.requested", "appointment.confirmed"}

VARIABLES
    \* The database.
    template,     \* [Event -> [Channel -> "absent", "on" or "off"]]
    preference,   \* [Channel -> [Event or "*" -> BOOLEAN or None]]
    studio,       \* the studio's number is set
    phone,        \* the customer's number is known
    log,          \* message_logs, with what the provider said
    bell,         \* notifications
    thread,       \* whatsapp_messages, oldest first
    appointment,  \* appointments, oldest first
    \* The process.
    job,          \* [1 .. MaxRequests -> what a handler is about to do]
    served,       \* how many there have been
    changes,      \* how often settings have been changed
    clock,
    trouble       \* history: the process stopped or the database failed

vars == <<template, preference, studio, phone, log, bell, thread, appointment,
          job, served, changes, clock, trouble>>

settings == <<template, preference, studio, phone>>
records  == <<log, bell, thread, appointment>>

Job     == 1 .. MaxRequests
Unbegun == [op |-> "unbegun", stage |-> "done"]

Begin(j)       == j = served + 1 /\ served' = j /\ UNCHANGED <<changes, clock, trouble>>
Goto(j, next)  == job' = [job EXCEPT ![j] = next] /\ UNCHANGED <<served, changes, clock, trouble>>
Stage(j, s)    == [job[j] EXCEPT !.stage = s]
Begun(j, next) == Begin(j) /\ job' = [job EXCEPT ![j] = next]

-----------------------------------------------------------------------------
(* Whom to tell *)

\* Opting out; the specific rule wins over the channel-wide one.
wantsMessage(c, e) ==
    \/ e \in ALWAYS_SEND
    \/ IF preference[c][e] # None THEN preference[c][e] ELSE preference[c]["*"] # FALSE

\* A gift card's handler gives no phone: a code is for one inbox.
recipientFor(c, e) == c = "EMAIL" \/ (phone /\ e \notin Codes)

Refuses(c, e) == e \in Personal /\ ~wantsMessage(c, e)

On(e) == {c \in Channel : template[e][c] = "on"}

\* History of an event: the channels on which it has been due ever since it was
\* emitted.  A receipt is due whatever the customer has said; a customer who has
\* said nothing of the event itself is held to what they said of the channel.
Welcome(c, e) == \/ preference[c][e] = TRUE
                 \/ preference[c][e] = None /\ preference[c]["*"] # FALSE
Due(e)        == {c \in On(e) : recipientFor(c, e) /\ (e \in Personal \ ALWAYS_SEND => Welcome(c, e))}

\* That history once settings have changed: due is what is due now.
Reviewed(due) ==
    [j \in Job |-> IF job[j].op = "event" /\ job[j].stage # "done"
                   THEN [job[j] EXCEPT !.due = @ \cap due[job[j].event]] ELSE job[j]]

-----------------------------------------------------------------------------
(* The bus and its handlers *)

Emitted(e) == [op |-> "event", event |-> e, stage |-> "emitted", channels |-> {}, channel |-> None,
               to |-> "customer", outcome |-> None, due |-> Due(e)]

\* An account, an order, a gift card that was paid for.  Bound: it has a
\* behaviour to itself (its handler shares no row with the other requests).
emit(j, e) ==
    /\ served = 0 /\ j = 1 /\ served' = MaxRequests
    /\ job' = [job EXCEPT ![j] = Emitted(e)]
    /\ UNCHANGED <<changes, clock, trouble>>
    /\ UNCHANGED <<settings, records>>

\* The active templates are the routing table.
sendToAllChannels(j) ==
    /\ job[j].stage = "emitted"
    /\ Goto(j, [Stage(j, "next") EXCEPT !.channels = On(job[j].event)])
    /\ UNCHANGED <<settings, records>>

\* Mutant: the first channel with nobody to write to ends it.
sendMessageOrLeave(j, c) ==
    /\ job[j].stage = "next" /\ c \in job[j].channels
    /\ LET e    == job[j].event
           next == [job[j] EXCEPT !.channels = @ \ {c}]
       IN  Goto(j, IF recipientFor(c, e) /\ ~Refuses(c, e)
                   THEN [next EXCEPT !.stage = "queue", !.channel = c] ELSE [next EXCEPT !.channels = {}])
    /\ UNCHANGED <<settings, records>>

\* A channel with nobody to write to is passed over.
sendMessage(j, c) ==
    /\ job[j].stage = "next" /\ c \in job[j].channels
    /\ LET e    == job[j].event
           next == [job[j] EXCEPT !.channels = @ \ {c}]
       IN  Goto(j, IF recipientFor(c, e) /\ ~Refuses(c, e)
                   THEN [next EXCEPT !.stage = "queue", !.channel = c] ELSE next)
    /\ UNCHANGED <<settings, records>>

\* The template is read again, and the send logged before it is made.
Queue(j) ==
    /\ job[j].stage = "queue"
    /\ LET r == job[j]
       IN  IF template[r.event][r.channel] = "on"
           THEN /\ log' = log \cup {[job |-> j, event |-> r.event, channel |-> r.channel, to |-> r.to,
                                     status |-> "QUEUED", transmitted |-> FALSE]}
                /\ Goto(j, Stage(j, "dispatch"))
           ELSE Goto(j, Stage(j, "next")) /\ UNCHANGED log
    /\ UNCHANGED <<settings, bell, thread, appointment>>

\* The row a handler is at, and the log with that row changed.
Row(j)      == CHOOSE r \in log : r.job = j /\ r.to = job[j].to /\ r.channel = job[j].channel
Logged(j, r) == (log \ {Row(j)}) \cup {r}

\* A mail server takes it or throws; Twilio also refuses a number, and a shop
\* without Twilio sends nothing.
EmailAnswers    == {"transmitted", "thrown"}
WhatsAppAnswers == {"transmitted", "suppressed", "thrown"}

dispatch(j, outcome) ==
    /\ job[j].stage = "dispatch"
    /\ outcome \in IF job[j].channel = "EMAIL" THEN EmailAnswers ELSE WhatsAppAnswers
    /\ log' = Logged(j, [Row(j) EXCEPT !.transmitted = outcome = "transmitted"])
    /\ Goto(j, [Stage(j, "record") EXCEPT !.outcome = outcome])
    /\ UNCHANGED <<settings, bell, thread, appointment>>

\* Mutant: what did not throw was sent.
RecordedUnlessThrown(j) == IF job[j].outcome # "thrown" THEN "SENT" ELSE "FAILED"

Recorded(j) == IF job[j].outcome = "transmitted" THEN "SENT" ELSE "FAILED"

Record(j) ==
    /\ job[j].stage = "record"
    /\ log' = Logged(j, [Row(j) EXCEPT !.status = Recorded(j)])
    /\ Goto(j, [Stage(j, "next") EXCEPT !.outcome = None])
    /\ UNCHANGED <<settings, bell, thread, appointment>>

\* The update is inside the try: one that fails is a failed send, unless the
\* second update fails too.
RecordFails(j) ==
    /\ job[j].stage = "record" /\ ~trouble
    /\ log' \in {log, Logged(j, [Row(j) EXCEPT !.status = "FAILED"])}
    /\ job' = [job EXCEPT ![j] = [Stage(j, "next") EXCEPT !.outcome = None]]
    /\ trouble' = TRUE
    /\ UNCHANGED <<settings, bell, thread, appointment, served, changes, clock>>

\* Whose bell rings.
Rings(e) == IF e = "order.placed" THEN {"customer", "staff"}
            ELSE IF e = "appointment.requested" THEN {"staff"} ELSE {}

\* Every channel has been tried: notify, whose write nobody waits for, and
\* copyToStudio, by the customer's own template.
copyToStudio(j, written) ==
    /\ job[j].stage = "next" /\ job[j].channels = {} /\ job[j].to = "customer"
    /\ written \/ ~trouble
    /\ bell' = IF written THEN bell \cup {[job |-> j, to |-> t] : t \in Rings(job[j].event)} ELSE bell
    /\ job' = [job EXCEPT ![j] = IF job[j].event \in Copied /\ studio
                                 THEN [Stage(j, "queue") EXCEPT !.to = "studio", !.channel = "WHATSAPP"]
                                 ELSE Stage(j, "done")]
    /\ trouble' = (trouble \/ ~written)
    /\ UNCHANGED <<settings, log, thread, appointment, served, changes, clock>>

Handled(j) ==
    /\ job[j].stage = "next" /\ job[j].channels = {} /\ job[j].to = "studio"
    /\ Goto(j, Stage(j, "done"))
    /\ UNCHANGED <<settings, records>>

-----------------------------------------------------------------------------
(* Consultations *)

\* POST /appointments: the same person and time twice in a minute is a form
\* sent twice.
bookAppointment(j, at) ==
    /\ Begun(j, [op |-> "book", stage |-> "book", at |-> at,
                 seen |-> {i \in DOMAIN appointment : /\ appointment[i].at = at
                                                      /\ clock < appointment[i].made + Minute}])
    /\ UNCHANGED <<settings, records>>

\* The appointment is made and the event handled by the same process.
Booked(j) ==
    /\ job[j].stage = "book"
    /\ IF job[j].seen # {} THEN Goto(j, Stage(j, "done")) /\ UNCHANGED appointment
       ELSE /\ appointment' = Append(appointment, [at |-> job[j].at, made |-> clock, status |-> "REQUESTED"])
            /\ Goto(j, Emitted("appointment.requested"))
    /\ UNCHANGED <<settings, log, bell, thread>>

\* PATCH /admin/appointments/:id.
updateAppointment(j, i, status) ==
    /\ Begun(j, [op |-> "update", stage |-> "update", id |-> i,
                 from |-> appointment[i].status, to |-> status])
    /\ UNCHANGED <<settings, records>>

Updated(j) ==
    /\ job[j].stage = "update"
    /\ LET r == job[j]
       IN  /\ appointment' = [appointment EXCEPT ![r.id].status = r.to]
           /\ Goto(j, IF r.to = "CONFIRMED" /\ r.from # "CONFIRMED" THEN Emitted("appointment.confirmed")
                      ELSE Stage(j, "done"))
    /\ UNCHANGED <<settings, log, bell, thread>>

-----------------------------------------------------------------------------
(* The thread *)

\* What getThread looks at.
Read(messages) == SubSeq(messages, 1, IF Len(messages) < Take THEN Len(messages) ELSE Take)

WindowIsOpen(messages) ==
    \E i \in DOMAIN messages : messages[i].sid # None /\ clock < messages[i].at + Window

canReply == WindowIsOpen(Read(thread))

\* Twilio delivers, again if it was not answered in time.
recordInbound(j, sid) ==
    /\ Begun(j, [op |-> "inbound", sid |-> sid,
                 stage |-> IF \E i \in DOMAIN thread : thread[i].sid = sid THEN "done" ELSE "store"])
    /\ UNCHANGED <<settings, records>>

\* Mutant: a check is enough.
Duplicate(sid) == FALSE

\* providerSid is unique.
Taken(sid) == \E i \in DOMAIN thread : thread[i].sid = sid

Stored(j) ==
    /\ job[j].stage = "store"
    /\ thread' = IF Taken(job[j].sid) THEN thread ELSE Append(thread, [sid |-> job[j].sid, at |-> clock])
    /\ Goto(j, Stage(j, "done"))
    /\ UNCHANGED <<settings, log, bell, appointment>>

sendReply(j) ==
    /\ canReply
    /\ Begun(j, [op |-> "reply", stage |-> "send"])
    /\ UNCHANGED <<settings, records>>

\* WhatsApp takes it and it is put on the thread, or refuses.
Replied(j, transmitted) ==
    /\ job[j].stage = "send"
    /\ thread' = IF transmitted THEN Append(thread, [sid |-> None, at |-> clock]) ELSE thread
    /\ Goto(j, Stage(j, "done"))
    /\ UNCHANGED <<settings, log, bell, appointment>>

-----------------------------------------------------------------------------
(* Settings *)

\* Bound: settings change under an event that has its behaviour to itself, and
\* only the ones it reads.
InFlight == {job[j].event : j \in {k \in Job : job[k].op = "event" /\ job[k].stage # "done"}} \ Consultation

\* A request of one statement, and what it means to events in flight.
Change ==
    /\ changes < MaxChanges /\ changes' = changes + 1
    /\ UNCHANGED <<served, clock, trouble>>
    /\ job' = Reviewed([e \in Event |-> Due(e)]')

savePreference(c, type, enabled) ==
    /\ preference' = [preference EXCEPT ![c][type] = enabled]
    /\ UNCHANGED <<template, studio, phone, records>>
    /\ Change

\* PUT /admin/messages/events/channels: only where the event may go.
setChannel(e, c, enabled) ==
    /\ e \in Codes => c = "EMAIL"
    /\ template' = [template EXCEPT ![e][c] = IF enabled THEN "on" ELSE IF @ = "absent" THEN @ ELSE "off"]
    /\ UNCHANGED <<preference, studio, phone, records>>
    /\ Change

\* PUT /admin/messages/templates: anywhere.
saveTemplate(e, c, isActive) ==
    /\ template' = [template EXCEPT ![e][c] = IF isActive THEN "on" ELSE "off"]
    /\ UNCHANGED <<preference, studio, phone, records>>
    /\ Change

-----------------------------------------------------------------------------
(* Time and failure.  Bound: one failure in a behaviour. *)

\* Bound: time passes where something looks at it.
Tick ==
    /\ clock < MaxTime /\ clock' = clock + 1
    /\ thread # <<>> \/ appointment # <<>>
    /\ UNCHANGED <<settings, records, job, served, changes, trouble>>

\* A statement outside sendMessage's try fails: the bus logs it, and nothing
\* more of the handler runs.
Reject(j) ==
    /\ job[j].stage \notin {"done", "dispatch", "record"} /\ ~trouble
    /\ job' = [job EXCEPT ![j].stage = "done"]
    /\ trouble' = TRUE
    /\ UNCHANGED <<settings, records, served, changes, clock>>

\* The process stops; an event is not kept anywhere.
Stop ==
    /\ \E j \in Job : job[j].stage # "done"
    /\ ~trouble
    /\ job' = [j \in Job |-> [job[j] EXCEPT !.stage = "done"]]
    /\ trouble' = TRUE
    /\ UNCHANGED <<settings, records, served, changes, clock>>

-----------------------------------------------------------------------------

\* The templates that are seeded and those made at boot: a consultation's
\* WHATSAPP waits for approval.
Seeded(e, c) == CASE c = "EMAIL" \/ e = "order.placed" -> "on"
                  [] e \in Consultation               -> "off"
                  [] OTHER                            -> "absent"

\* An account is made and its customer has said nothing yet.
Init ==
    /\ template = [e \in Event |-> [c \in Channel |-> Seeded(e, c)]]
    /\ preference = [c \in Channel |-> [t \in {"account.welcome", "*"} |-> None]]
    /\ studio \in BOOLEAN /\ phone = studio
    /\ log = {} /\ bell = {} /\ thread = <<>> /\ appointment = <<>>
    /\ job = [j \in Job |-> Unbegun]
    /\ served = 0 /\ changes = 0 /\ clock = 0 /\ trouble = FALSE

Request(j) ==
    \/ \E e \in {"account.welcome", "order.placed", "giftcard.issued"} : emit(j, e)
    \/ \E at \in {"morning", "evening"} : bookAppointment(j, at)
    \/ \E i \in DOMAIN appointment, s \in {"CONFIRMED", "CANCELLED"} : updateAppointment(j, i, s)
    \/ \E sid \in Sid : recordInbound(j, sid)
    \/ sendReply(j)

Configure ==
    \/ /\ "account.welcome" \in InFlight
       /\ \E c \in Channel, t \in {"account.welcome", "*"}, b \in BOOLEAN : savePreference(c, t, b)
    \/ \E e \in InFlight, c \in Channel, b \in BOOLEAN : setChannel(e, c, b) \/ saveTemplate(e, c, b)

\* What a handler does next.
Step(j) ==
    \/ sendToAllChannels(j) \/ \E c \in Channel : sendMessage(j, c)
    \/ Queue(j) \/ Record(j) \/ copyToStudio(j, TRUE) \/ Handled(j)
    \/ \E o \in EmailAnswers \cup WhatsAppAnswers : dispatch(j, o)
    \/ Booked(j) \/ Updated(j) \/ Stored(j) \/ \E t \in BOOLEAN : Replied(j, t)

Next == \/ \E j \in Job : Request(j) \/ Step(j) \/ RecordFails(j) \/ copyToStudio(j, FALSE) \/ Reject(j)
        \/ Configure \/ Tick \/ Stop

\* An await that was granted resumes.
Spec == Init /\ [][Next]_vars /\ \A j \in Job : WF_vars(Step(j))

-----------------------------------------------------------------------------
(* Properties *)

\* Every variable has its type.
TypeOK ==
    /\ template \in [Event -> [Channel -> {"absent", "on", "off"}]]
    /\ preference \in [Channel -> [{"account.welcome", "*"} -> BOOLEAN \cup {None}]]
    /\ studio \in BOOLEAN /\ phone \in BOOLEAN /\ trouble \in BOOLEAN
    /\ log \subseteq [job : Job, event : Event, channel : Channel, to : {"customer", "studio"},
                    status : {"QUEUED", "SENT", "FAILED"}, transmitted : BOOLEAN]
    /\ bell \subseteq [job : Job, to : {"customer", "staff"}]
    /\ thread \in Seq([sid : Sid \cup {None}, at : 0 .. MaxTime])
    /\ appointment \in Seq([at : {"morning", "evening"}, made : 0 .. MaxTime,
                            status : {"REQUESTED", "CONFIRMED", "CANCELLED"}])
    /\ \A j \in Job : job[j].stage \in {"done", "emitted", "next", "queue", "dispatch", "record",
                                        "book", "update", "store", "send"}
    /\ served \in 0 .. MaxRequests /\ changes \in 0 .. MaxChanges /\ clock \in 0 .. MaxTime

\* "A suppressed message that reads as sent is worse than an obvious failure":
\* what the log says was sent, a provider said it sent.
LogTellsTheTruth == \A r \in log : r.status = "SENT" => r.transmitted

\* "The code is money": whatever templates staff write, a code leaves by email
\* alone.
CodesGoByEmail == \A r \in log : r.event \in Codes => r.channel = "EMAIL"

\* The log can be believed: its rows are well formed, what they say was sent was
\* sent, and no code went by anything but email.
LogIsTrue == TypeOK /\ LogTellsTheTruth /\ CodesGoByEmail

\* A message Twilio delivers twice, or twice at once, is in the thread once.
InboundOnce ==
    \A i, k \in DOMAIN thread : thread[i].sid = thread[k].sid /\ thread[i].sid # None => i = k

\* Unless something fails, an event ends with a settled log entry for every
\* channel it was due on all along, and with the bell rung for those it concerns.
EveryoneIsTold ==
    \A j \in Job :
        job[j].stage = "emitted" ~>
            \/ trouble
            \/ /\ job[j].op = "event" /\ job[j].stage = "done"
               /\ \A t \in Rings(job[j].event) : [job |-> j, to |-> t] \in bell
               /\ \A c \in job[j].due :
                     \E r \in log : /\ r.job = j /\ r.channel = c
                                     /\ r.to = "customer" /\ r.status # "QUEUED"

=============================================================================
