-------------------------- MODULE PublishingProofs --------------------------
(***************************************************************************)
(* Theorems about Publishing, for any addresses, categories, variants,     *)
(* customers, zones, texts, files and catalogue, and any number of         *)
(* requests, two at a time.                                                *)
(*                                                                         *)
(* A behaviour's requests are about one subject, so the inductive          *)
(* invariant has a part for each: its rows are typed whatever the subject  *)
(* is, and when the subject is its own, so are its requests, with what its *)
(* rows and the request that is on its way have to do with each other.     *)
(***************************************************************************)
EXTENDS Publishing, SumTheorems, TLAPS

-----------------------------------------------------------------------------
(* What following leads to *)

LEMMA FollowingFacts ==
    ASSUME NEW next, NEW s \in DOMAIN next
    PROVE  /\ s \in Following(next, s) /\ Following(next, s) \subseteq DOMAIN next
           /\ \A u \in Following(next, s) :
                 next[u] \in DOMAIN next => next[u] \in Following(next, s)
  BY DEF Following

\* It is the least set that holds the first and is closed under next.
LEMMA FollowingIsLeast ==
    ASSUME NEW next, NEW s, NEW S \in SUBSET DOMAIN next, s \in S,
           \A u \in S : next[u] \in DOMAIN next => next[u] \in S
    PROVE  Following(next, s) \subseteq S
  BY DEF Following

LEMMA FollowingFurther ==
    ASSUME NEW next, NEW s \in DOMAIN next, NEW t \in Following(next, s)
    PROVE  Following(next, t) \subseteq Following(next, s)
<1>1. Following(next, s) \in SUBSET DOMAIN next
  BY FollowingFacts
<1>2. \A u \in Following(next, s) : next[u] \in DOMAIN next => next[u] \in Following(next, s)
  BY FollowingFacts
<1> QED BY <1>1, <1>2, FollowingIsLeast

\* What gets a next where it had none, or keeps the one it had, leads as far.
LEMMA FollowingGrows ==
    ASSUME NEW next, NEW later, DOMAIN later = DOMAIN next, NEW s \in DOMAIN next,
           \A u \in DOMAIN next : next[u] \in DOMAIN next => later[u] = next[u]
    PROVE  Following(next, s) \subseteq Following(later, s)
<1>1. /\ s \in Following(later, s) /\ Following(later, s) \in SUBSET DOMAIN next
      /\ \A u \in Following(later, s) : later[u] \in DOMAIN next => later[u] \in Following(later, s)
  BY FollowingFacts
<1>2. \A u \in Following(later, s) : next[u] \in DOMAIN next => next[u] \in Following(later, s)
  BY <1>1
<1> QED BY <1>1, <1>2, FollowingIsLeast

\* What led to e leads to where e is sent.
LEMMA FollowingSent ==
    ASSUME NEW next, NEW later, DOMAIN later = DOMAIN next, NEW s \in DOMAIN next,
           NEW e \in Following(next, s), later[e] \in DOMAIN next,
           \A u \in DOMAIN next : u # e => later[u] = next[u]
    PROVE  later[e] \in Following(later, s)
<1>1. /\ s \in Following(later, s) /\ Following(later, s) \in SUBSET DOMAIN next
      /\ \A u \in Following(later, s) : later[u] \in DOMAIN next => later[u] \in Following(later, s)
  BY FollowingFacts
<1>2. SUFFICES ASSUME e \notin Following(later, s)
               PROVE  FALSE
  BY <1>1
<1>3. \A u \in Following(later, s) : next[u] \in DOMAIN next => next[u] \in Following(later, s)
  BY <1>1, <1>2
<1>4. Following(next, s) \subseteq Following(later, s)
  BY <1>1, <1>3, FollowingIsLeast
<1> QED BY <1>2, <1>4

-----------------------------------------------------------------------------
(* Requests *)

Met == {"request", "scheduler", "sale", "boot", "failure"}

\* Two requests are on their way only if they have met.
Taken ==
    /\ subject \in Subject /\ clock \in Time /\ met \subseteq Met
    /\ job = [j \in Job |-> job[j]]
    /\ "request" \notin met => \A i, j \in Job : Busy(i) /\ Busy(j) => i = j

\* A request of call j goes on to next; and unless it has met another, it is alone.
Turns(j, next) ==
    /\ subject' = subject /\ clock' = clock /\ met \subseteq met' /\ met' \subseteq Met
    /\ job' = [job EXCEPT ![j] = next]
    /\ "request" \notin met' => \A i \in Job : i # j => job[i] = Idle

LEMMA TurnTaken ==
    ASSUME Taken, NEW j \in Job, NEW next, Turns(j, next)
    PROVE  Taken'
<1>1. Time' = Time
  BY DEF Time
<1>2. job' = [i \in Job |-> job'[i]]
  BY DEF Taken, Turns
<1>3. ASSUME "request" \notin met', NEW i \in Job, NEW k \in Job, Busy(i)', Busy(k)'
      PROVE  i = k
  <2>1. \A l \in Job : l # j => job'[l] = Idle
    BY <1>3 DEF Turns, Taken
  <2> QED BY <1>3, <2>1 DEF Busy
<1> QED BY <1>1, <1>2, <1>3 DEF Taken, Turns

LEMMA BeginTurns ==
    ASSUME Taken, NEW j \in Job, NEW next, Begin(j, next)
    PROVE  Turns(j, next) /\ job[j] = Idle /\ ("request" \notin met' => met' = met)
<1>1. met' \subseteq Met
  BY DEF Begin, Taken, Met
<1>2. "request" \notin met' => \A i \in Job : job[i] = Idle
  BY DEF Begin, Busy
<1> QED BY <1>1, <1>2 DEF Begin, Turns, Busy

LEMMA GotoTurns ==
    ASSUME Taken, NEW j \in Job, NEW next, Busy(j), Goto(j, next)
    PROVE  Turns(j, next) /\ met' = met
<1>1. "request" \notin met => \A i \in Job : i # j => job[i] = Idle
  BY DEF Taken, Busy
<1> QED BY <1>1 DEF Goto, Turns, Taken

LEMMA FailsTurns ==
    ASSUME Taken, NEW j \in Job, NEW next, Busy(j), Fails(j, next)
    PROVE  Turns(j, next) /\ met' = met \cup {"failure"}
<1>1. "request" \notin met => \A i \in Job : i # j => job[i] = Idle
  BY DEF Taken, Busy
<1> QED BY <1>1 DEF Fails, Turns, Taken, Met

\* Whoever is at a statement is busy.
LEMMA AtBusy ==
    ASSUME NEW j \in Job, NEW op, op # "idle", At(j, op)
    PROVE  Busy(j)
  BY DEF At, Busy, Idle

\* Everything else leaves the requests as they are, or cuts them short.
Aside ==
    /\ subject' = subject /\ clock' \in Time /\ met \subseteq met' /\ met' \subseteq Met
    /\ \/ job' = job
       \/ job' = [j \in Job |-> Idle] /\ "failure" \in met'

LEMMA AsideTaken ==
    ASSUME Taken, Aside
    PROVE  Taken'
<1>1. Time' = Time
  BY DEF Time
<1>2. job' = [i \in Job |-> job'[i]]
  BY DEF Taken, Aside
<1> QED BY <1>1, <1>2 DEF Taken, Aside, Busy

LEMMA BesideIsAside ==
    ASSUME Taken, NEW who \in Met, Beside(who)
    PROVE  Aside
  BY DEF Beside, Aside, Taken

LEMMA StopIsAside ==
    ASSUME Taken, Stop
    PROVE  Aside
  BY DEF Stop, Aside, Taken, Met

LEMMA TickIsAside ==
    ASSUME Taken, Tick
    PROVE  Aside
  BY HandlersAssumption DEF Tick, Aside, Taken, Time

\* The one request that is on its way, as long as none has met another or was
\* cut short; Idle if there is none.
Calm     == met \cap {"request", "failure"} = {}
OnWay(w) == \/ \E j \in Job : Busy(j) /\ w = job[j]
            \/ w = Idle /\ \A j \in Job : ~Busy(j)

LEMMA TurnOnWay ==
    ASSUME Taken, NEW j \in Job, NEW next, Turns(j, next)
    PROVE  /\ "request" \notin met' => "request" \notin met /\ \A w : OnWay(w)' => w = next
           /\ Calm' => Calm /\ "request" \notin met'
           /\ \A W : job \in [Job -> W] /\ next \in W => job' \in [Job -> W]
<1>1. (Calm' => Calm /\ "request" \notin met') /\ ("request" \notin met' => "request" \notin met)
  BY DEF Calm, Turns
<1>2. ASSUME "request" \notin met', NEW w, OnWay(w)'
      PROVE  w = next
  <2>1. job'[j] = next /\ \A i \in Job : i # j => job'[i] = Idle
    BY <1>2 DEF Turns, Taken
  <2> QED BY <1>2, <2>1 DEF OnWay, Busy
<1>3. ASSUME NEW W, job \in [Job -> W], next \in W
      PROVE  job' \in [Job -> W]
  BY <1>3 DEF Turns
<1> QED BY <1>1, <1>2, <1>3

LEMMA BeginAlone ==
    ASSUME Taken, NEW j \in Job, NEW next, Begin(j, next), "request" \notin met'
    PROVE  OnWay(Idle) /\ met' = met
  BY BeginTurns DEF OnWay, Busy, Turns

LEMMA BeginOnWay ==
    ASSUME Taken, NEW j \in Job, NEW next, Begin(j, next), Calm'
    PROVE  OnWay(Idle) /\ met' = met /\ Calm
  BY BeginAlone DEF Calm

LEMMA AtOnWay ==
    ASSUME NEW j \in Job, NEW op, op # "idle", At(j, op)
    PROVE  Busy(j) /\ OnWay(job[j])
  BY AtBusy DEF OnWay

LEMMA AsideOnWay ==
    ASSUME Taken, Aside, NEW W, job \in [Job -> W], Idle \in W
    PROVE  job' \in [Job -> W] /\ (Calm' => Calm /\ \A w : OnWay(w)' => OnWay(w))
<1>1. CASE job' = job
  BY <1>1 DEF Aside, Calm, OnWay, Busy
<1>2. CASE job' = [j \in Job |-> Idle] /\ "failure" \in met'
  BY <1>2 DEF Calm
<1> QED BY <1>1, <1>2 DEF Aside

LEMMA InitOnWay ==
    ASSUME Init
    PROVE  Taken /\ (\A w : OnWay(w) => w = Idle) /\ (\A W : Idle \in W => job \in [Job -> W])
<1>1. 0 \in Time
  BY HandlersAssumption DEF Time
<1> QED BY <1>1 DEF Init, Taken, OnWay, Busy

-----------------------------------------------------------------------------
(* The showcase *)

ShowcaseWork == {Idle} \cup [op : {"item"}, patch : ItemPatch, becomingActive : BOOLEAN]
                \cup [op : {"item_gone"}]

\* Whatever is up, or due to be, has leave and a poster.
Leave(r) == r.status \in {"ACTIVE", "SCHEDULED"} => r.consent /\ r.poster

ShowcaseTyped == item \in Item \cup {None}

\* And so has what a request is about to make of it.
ShowcaseFacts ==
    "request" \notin met =>
        /\ item # None => Leave(item)
        /\ \A j \in Job : At(j, "item") /\ item # None => Leave(Merge(job[j].patch, item))

ShowcaseInv ==
    /\ ShowcaseTyped
    /\ subject = "showcase" => job \in [Job -> ShowcaseWork] /\ ShowcaseFacts
    /\ subject # "showcase" /\ item # None => Leave(item)

LEMMA ItemMerged ==
    ASSUME NEW patch \in ItemPatch, NEW r \in Item
    PROVE  /\ Merge(patch, r) \in Item
           /\ Merge(patch, r).scheduled \in Time \cup {None}
           /\ "status" \notin DOMAIN patch => Merge(patch, r).status = r.status
           /\ "status" \in DOMAIN patch => Merge(patch, r).status = patch.status
           /\ Merge(patch, r).consent = IF "consent" \in DOMAIN patch THEN patch.consent ELSE r.consent
           /\ Merge(patch, r).poster = IF "poster" \in DOMAIN patch THEN patch.poster ELSE r.poster
<1>1. DOMAIN r = {"status", "consent", "poster", "scheduled", "published"}
  BY DEF Item
<1>2. Merge(patch, r) = [status    |-> IF "status" \in DOMAIN patch THEN patch.status ELSE r.status,
                         consent   |-> IF "consent" \in DOMAIN patch THEN patch.consent ELSE r.consent,
                         poster    |-> IF "poster" \in DOMAIN patch THEN patch.poster ELSE r.poster,
                         scheduled |-> IF "scheduled" \in DOMAIN patch THEN patch.scheduled ELSE r.scheduled,
                         published |-> IF "published" \in DOMAIN patch THEN patch.published ELSE r.published]
  BY <1>1 DEF Merge
<1>3. /\ "status" \in DOMAIN patch => patch.status \in ItemStatus
      /\ "consent" \in DOMAIN patch => patch.consent \in BOOLEAN
      /\ "poster" \in DOMAIN patch => patch.poster \in BOOLEAN
      /\ "scheduled" \in DOMAIN patch => patch.scheduled \in Time \cup {None}
      /\ "published" \notin DOMAIN patch
  BY DEF ItemPatch, ItemStatus
<1> QED BY <1>2, <1>3 DEF Item

LEMMA ShowcaseInit == Init => ShowcaseInv
<1> SUFFICES ASSUME Init PROVE ShowcaseInv
  OBVIOUS
<1>1. 0 \in Time
  BY HandlersAssumption DEF Time
<1>2. item \in Item /\ Leave(item)
  BY <1>1 DEF Init, seedShowcase, Item, ItemStatus, Leave
<1>3. job \in [Job -> ShowcaseWork] /\ \A j \in Job : ~At(j, "item")
  BY DEF Init, ShowcaseWork, At, Idle
<1> QED BY <1>2, <1>3 DEF ShowcaseInv, ShowcaseTyped, ShowcaseFacts, Leave

LEMMA ItemWork ==
    ASSUME NEW w \in ShowcaseWork, w.op = "item"
    PROVE  w.patch \in ItemPatch
<1>1. CASE w \in [op : {"item"}, patch : ItemPatch, becomingActive : BOOLEAN]
  BY <1>1
<1>2. CASE w \in [op : {"item_gone"}]
  BY <1>2
<1>3. CASE w = Idle
  BY <1>3 DEF Idle
<1> QED BY <1>1, <1>2, <1>3 DEF ShowcaseWork

LEMMA ShowcaseTurned ==
    ASSUME Taken, ShowcaseInv, subject = "showcase", NEW j \in Job, NEW next \in ShowcaseWork,
           Turns(j, next), item' \in Item \cup {None},
           "request" \notin met' /\ item' # None =>
               Leave(item') /\ (next.op = "item" => Leave(Merge(next.patch, item')))
    PROVE  Taken' /\ ShowcaseInv'
<1>1. job' \in [Job -> ShowcaseWork]
  BY DEF ShowcaseInv, Turns
<1>2. ASSUME "request" \notin met', item' # None, NEW i \in Job, At(i, "item")'
      PROVE  Leave(Merge(job[i].patch, item))'
  <2>1. CASE i = j
    <3>1. job'[i] = next
      BY <2>1 DEF Turns, Taken
    <3> QED BY <1>2, <3>1 DEF At
  <2>2. CASE i # j
    <3>1. job'[i] = Idle
      BY <1>2, <2>2 DEF Turns, Taken
    <3> QED BY <1>2, <3>1 DEF At, Idle
  <2> QED BY <2>1, <2>2
<1>3. ShowcaseFacts'
  BY <1>2 DEF ShowcaseFacts
<1> QED BY <1>1, <1>3, TurnTaken DEF ShowcaseInv, ShowcaseTyped, Turns

LEMMA ShowcaseAside ==
    ASSUME Taken, ShowcaseInv, Aside, item' = item
    PROVE  ShowcaseInv'
<1>1. (item \in Item \cup {None})'
  <2>1. Time' = Time
    BY DEF Time
  <2> QED BY <2>1 DEF ShowcaseInv, ShowcaseTyped, Item
<1>2. ASSUME subject = "showcase"
      PROVE  job' \in [Job -> ShowcaseWork] /\ ShowcaseFacts'
  <2>1. CASE job' = job
    <3>1. ShowcaseFacts'
      BY <1>2, <2>1 DEF ShowcaseInv, ShowcaseFacts, Aside, At
    <3> QED BY <1>2, <2>1, <3>1 DEF ShowcaseInv
  <2>2. CASE job' = [j \in Job |-> Idle]
    <3>1. \A j \in Job : ~At(j, "item")'
      BY <2>2 DEF At, Idle
    <3>2. ShowcaseFacts'
      BY <1>2, <3>1 DEF ShowcaseInv, ShowcaseFacts, Aside
    <3> QED BY <2>2, <3>2 DEF ShowcaseWork
  <2> QED BY <2>1, <2>2 DEF Aside
<1> QED BY <1>1, <1>2 DEF ShowcaseInv, ShowcaseTyped, Aside, Leave

LEMMA CreateItemStands ==
    ASSUME Taken, ShowcaseInv, subject = "showcase", NEW j \in Job, NEW r \in Item,
           createShowcaseItem(j, r)
    PROVE  Taken' /\ ShowcaseInv'
<1>1. Turns(j, Idle)
  BY BeginTurns DEF createShowcaseItem
<1>2. PICK t \in Time \cup {None} : item' = [r EXCEPT !.published = t]
  BY DEF createShowcaseItem, Taken
<1>3. /\ item' \in Item /\ item'.status = r.status
      /\ item'.consent = r.consent /\ item'.poster = r.poster
  BY <1>2 DEF Item
<1>4. Leave(item')
  BY <1>3 DEF createShowcaseItem, assertPublishable, Leave
<1>5. Idle \in ShowcaseWork /\ Idle.op # "item"
  BY DEF ShowcaseWork, Idle
<1> QED BY <1>1, <1>3, <1>4, <1>5, ShowcaseTurned

LEMMA UpdateItemStands ==
    ASSUME Taken, ShowcaseInv, subject = "showcase", NEW j \in Job, NEW patch \in ItemPatch,
           updateShowcaseItem(j, patch)
    PROVE  Taken' /\ ShowcaseInv'
<1>1. PICK next : /\ Begin(j, next) /\ item' = item
                  /\ next = [op |-> "item", patch |-> patch,
                             becomingActive |-> Merge(patch, item).status = "ACTIVE" /\ item.status # "ACTIVE"]
  BY DEF updateShowcaseItem
<1>2. next \in ShowcaseWork /\ next.patch = patch
  BY <1>1 DEF ShowcaseWork
<1>3. Turns(j, next) /\ ("request" \notin met' => met' = met)
  BY <1>1, BeginTurns
<1>4. Leave(Merge(patch, item))
  BY DEF updateShowcaseItem, assertPublishable, Leave
<1>5. "request" \notin met' /\ item' # None => Leave(item')
  BY <1>1, <1>3 DEF ShowcaseInv, ShowcaseFacts
<1>6. item' \in Item \cup {None}
  BY <1>1 DEF ShowcaseInv, ShowcaseTyped
<1> QED BY <1>1, <1>2, <1>3, <1>4, <1>5, <1>6, ShowcaseTurned

LEMMA WriteItemStands ==
    ASSUME Taken, ShowcaseInv, subject = "showcase", NEW j \in Job, WriteItem(j)
    PROVE  Taken' /\ ShowcaseInv'
<1>1. Turns(j, Idle) /\ met' = met
  BY AtBusy, GotoTurns DEF WriteItem
<1>2. Idle \in ShowcaseWork /\ Idle.op # "item"
  BY DEF ShowcaseWork, Idle
<1>3. CASE item = None
  <2>1. item' = None
    BY <1>3 DEF WriteItem
  <2> QED BY <1>1, <1>2, <2>1, ShowcaseTurned
<1>4. CASE item # None
  <2>1. PICK next : next = Merge(job[j].patch, item)
    OBVIOUS
  <2>2. PICK t : /\ item' = [next EXCEPT !.published = t]
                 /\ t = IF job[j].becomingActive THEN clock ELSE next.published
    BY <1>4, <2>1 DEF WriteItem
  <2>3. job[j].patch \in ItemPatch
    <3>1. job[j] \in ShowcaseWork /\ job[j].op = "item"
      BY DEF ShowcaseInv, WriteItem, At
    <3> QED BY <3>1, ItemWork
  <2>4. next \in Item
    BY <1>4, <2>1, <2>3, ItemMerged DEF ShowcaseInv, ShowcaseTyped
  <2>5. t \in Time \cup {None}
    BY <2>2, <2>4 DEF Item, Taken
  <2>6. /\ item' \in Item /\ item'.status = next.status
        /\ item'.consent = next.consent /\ item'.poster = next.poster
    BY <2>2, <2>4, <2>5 DEF Item
  <2>7. "request" \notin met => Leave(next)
    BY <1>4, <2>1 DEF ShowcaseInv, ShowcaseFacts, WriteItem
  <2>8. "request" \notin met' => Leave(item')
    BY <1>1, <2>6, <2>7 DEF Leave
  <2> QED BY <1>1, <1>2, <2>6, <2>8, ShowcaseTurned
<1> QED BY <1>3, <1>4

LEMMA DeleteItemStands ==
    ASSUME Taken, ShowcaseInv, subject = "showcase", NEW j \in Job,
           deleteShowcaseItem(j) \/ RemoveItem(j)
    PROVE  Taken' /\ ShowcaseInv'
<1>1. CASE deleteShowcaseItem(j)
  <2>1. PICK next : next = [op |-> "item_gone"] /\ Begin(j, next)
    BY <1>1 DEF deleteShowcaseItem
  <2>2. next \in ShowcaseWork /\ next.op # "item"
    BY <2>1 DEF ShowcaseWork
  <2>3. Turns(j, next) /\ ("request" \notin met' => met' = met)
    BY <2>1, BeginTurns
  <2>4. item' = item
    BY <1>1 DEF deleteShowcaseItem
  <2>5. "request" \notin met' /\ item' # None => Leave(item')
    BY <2>3, <2>4 DEF ShowcaseInv, ShowcaseFacts
  <2>6. item' \in Item \cup {None}
    BY <2>4 DEF ShowcaseInv, ShowcaseTyped
  <2> QED BY <2>2, <2>3, <2>5, <2>6, ShowcaseTurned
<1>2. CASE RemoveItem(j)
  <2>1. Turns(j, Idle) /\ item' = None
    BY <1>2, AtBusy, GotoTurns DEF RemoveItem
  <2>2. Idle \in ShowcaseWork
    BY DEF ShowcaseWork
  <2> QED BY <2>1, <2>2, ShowcaseTurned
<1> QED BY <1>1, <1>2

LEMMA ShowcaseStep ==
    ASSUME Taken, ShowcaseInv, subject = "showcase", NEW j \in Job, ShowcaseNext(j)
    PROVE  Taken' /\ ShowcaseInv'
<1>1. ASSUME NEW s \in ItemStatus, NEW c \in BOOLEAN, NEW p \in BOOLEAN, NEW t \in Time \cup {None},
             createShowcaseItem(j, [status |-> s, consent |-> c, poster |-> p, scheduled |-> t, published |-> None])
      PROVE  Taken' /\ ShowcaseInv'
  <2>1. [status |-> s, consent |-> c, poster |-> p, scheduled |-> t, published |-> None] \in Item
    BY DEF Item
  <2> QED BY <1>1, <2>1, CreateItemStands
<1> QED BY <1>1, UpdateItemStands, WriteItemStands, DeleteItemStands DEF ShowcaseNext

\* The scheduler publishes what has leave: only the studio's own guard keeps it a
\* poster.
LEMMA ShowcasePublished ==
    ASSUME Taken, ShowcaseInv, publishDueShowcase
    PROVE  Taken' /\ ShowcaseInv'
<1>1. Aside /\ job' = job
  BY BesideIsAside DEF publishDueShowcase, Beside, Met
<1>2. item \in Item /\ item.status = "SCHEDULED" /\ item.consent
  BY DEF publishDueShowcase, Due, ShowcaseInv, ShowcaseTyped
<1>3. /\ item' \in Item /\ item'.status = "ACTIVE" 
      /\ item'.consent = item.consent /\ item'.poster = item.poster
  <2>1. PICK a : a = [item EXCEPT !.status = "ACTIVE"]
    OBVIOUS
  <2>2. PICK b : b = [a EXCEPT !.published = clock]
    OBVIOUS
  <2>3. item' = [b EXCEPT !.scheduled = None]
    BY <2>1, <2>2 DEF publishDueShowcase, Published
  <2>4. /\ a \in Item /\ a.status = "ACTIVE" /\ a.consent = item.consent /\ a.poster = item.poster
    BY <1>2, <2>1 DEF Item, ItemStatus
  <2>5. /\ b \in Item /\ b.status = "ACTIVE" /\ b.consent = item.consent /\ b.poster = item.poster
    BY <2>2, <2>4 DEF Item, Taken
  <2> QED BY <2>3, <2>5 DEF Item
<1>4. ASSUME subject = "showcase", "request" \notin met
      PROVE  /\ Leave(item')
             /\ \A j \in Job : At(j, "item") => Leave(Merge(job[j].patch, item'))
  <2>0. item # None
    BY DEF publishDueShowcase, Due
  <2>1. Leave(item) /\ \A j \in Job : At(j, "item") => Leave(Merge(job[j].patch, item))
    BY <1>4, <2>0 DEF ShowcaseInv, ShowcaseFacts
  <2>2. Leave(item')
    BY <1>2, <1>3, <2>1 DEF Leave
  <2>3. ASSUME NEW j \in Job, At(j, "item")
        PROVE  Leave(Merge(job[j].patch, item'))
    <3>1. PICK patch \in ItemPatch : patch = job[j].patch
      <4>1. job[j] \in ShowcaseWork /\ job[j].op = "item"
        BY <1>4, <2>3 DEF ShowcaseInv, At
      <4> QED BY <4>1, ItemWork
    <3>2. Leave(Merge(patch, item))
      BY <2>1, <2>3, <3>1
    <3>3. PICK r \in Item : r = item'
      BY <1>3
    <3>4. /\ "status" \in DOMAIN patch => Merge(patch, r).status = Merge(patch, item).status
          /\ "status" \notin DOMAIN patch => Merge(patch, item).status = "SCHEDULED"
      BY <1>2, ItemMerged
    <3>5. r.consent = item.consent /\ r.poster = item.poster
      BY <1>3, <3>3
    <3>6. /\ Merge(patch, r).consent = Merge(patch, item).consent
          /\ Merge(patch, r).poster = Merge(patch, item).poster
      BY <1>2, <3>5, ItemMerged
    <3>7. Leave(Merge(patch, r))
      BY <3>2, <3>4, <3>6 DEF Leave
    <3> QED BY <3>1, <3>3, <3>7
  <2> QED BY <2>2, <2>3
<1>5. Time' = Time /\ Item' = Item
  BY DEF Time, Item
<1>6. subject = "showcase" => ShowcaseFacts'
  BY <1>1, <1>4 DEF ShowcaseFacts, At, Aside
<1>7. subject # "showcase" => Leave(item')
  BY <1>2, <1>3 DEF ShowcaseInv, Leave, publishDueShowcase, Due
<1> QED BY <1>1, <1>3, <1>5, <1>6, <1>7, AsideTaken DEF ShowcaseInv, ShowcaseTyped, Aside

-----------------------------------------------------------------------------
(* Pages *)

Versions  == [slug : Slug, body : Nat]
FullPatch == {p \in [slug : Slug, status : {"DRAFT", "SCHEDULED", "PUBLISHED"}, body : Nat,
                     scheduled : Time \cup {None}, published : Time \cup {None}] :
                 p.status = "PUBLISHED" => p.published # None}
PagePatch == FullPatch \cup [body : Nat]
PageWork  == {Idle} \cup [op : {"page"}, was : Versions, patch : PagePatch]
             \cup [op : {"moved"}, was : Versions, patch : FullPatch]

PagesTyped ==
    /\ page \in Page \cup {None} /\ revision \in Seq(Nat) /\ lived \subseteq Versions
    /\ redirect \in [Slug -> [to : Slug, active : BOOLEAN] \cup {None}]
    /\ saved \in Nat /\ byHand \in BOOLEAN

\* A page that is up went up some day.
Launched == page # None /\ page.status = "PUBLISHED" => page.published # None

Restorable ==
    page # None =>
        \A v \in lived : v.body = page.body \/ \E i \in 1 .. Len(revision) : revision[i] = v.body

LedTo(s) == \A v \in lived : s \in Reach(v.slug)

\* A save that is on its way found the page as it is, and one that moved it has
\* still to send its old address on.
PageWaits(w) ==
    page # None =>
        /\ w.op = "page" => /\ w.was = Version
                            /\ "scheduler" \notin met /\ "status" \in DOMAIN w.patch =>
                                  (page.status = "PUBLISHED" /\ w.patch.status = "PUBLISHED" =>
                                      w.patch.published = page.published)
        /\ w.op = "moved" => w.patch.slug = page.slug

\* Where the page is looked for until then.
PageLed(w) ==
    page # None /\ "failure" \notin met /\ ~byHand =>
        LedTo(IF w.op = "moved" THEN w.was.slug ELSE page.slug)

PagesFacts ==
    /\ Launched
    /\ "request" \notin met =>
        /\ Restorable
        /\ \A j \in Job : PageWaits(job[j]) /\ (Busy(j) => PageLed(job[j]))
        /\ (\A j \in Job : ~Busy(j)) => PageLed(Idle)

PagesInv ==
    /\ PagesTyped
    /\ subject = "page" => job \in [Job -> PageWork] /\ PagesFacts
    /\ subject # "page" => lived = {}

LEMMA PageWorkTyped ==
    ASSUME NEW w \in PageWork
    PROVE  /\ w.op = "page" => /\ w \in [op : {"page"}, was : Versions, patch : PagePatch]
                               /\ w.patch \in PagePatch /\ w.was \in Versions
           /\ w.op = "moved" => w.patch \in FullPatch /\ w.was \in Versions
<1>1. CASE w \in [op : {"page"}, was : Versions, patch : PagePatch]
  BY <1>1
<1>2. CASE w \in [op : {"moved"}, was : Versions, patch : FullPatch]
  BY <1>2
<1>3. CASE w = Idle
  BY <1>3 DEF Idle
<1> QED BY <1>1, <1>2, <1>3 DEF PageWork

LEMMA PatchTyped ==
    ASSUME NEW p \in PagePatch
    PROVE  /\ p.body \in Nat /\ "body" \in DOMAIN p /\ "system" \notin DOMAIN p
           /\ "slug" \in DOMAIN p => p \in FullPatch
           /\ "status" \in DOMAIN p => p \in FullPatch
           /\ p \in FullPatch \/ DOMAIN p = {"body"}
<1>1. CASE p \in [body : Nat]
  BY <1>1
<1>2. CASE p \in FullPatch
  BY <1>2 DEF FullPatch
<1> QED BY <1>1, <1>2 DEF PagePatch

LEMMA PageMerged ==
    ASSUME NEW patch \in PagePatch, NEW r \in Page
    PROVE  /\ Merge(patch, r) \in Page /\ Merge(patch, r).body = patch.body
           /\ patch \in FullPatch =>
                 /\ Merge(patch, r).slug = patch.slug /\ Merge(patch, r).status = patch.status
                 /\ Merge(patch, r).published = patch.published
           /\ patch \notin FullPatch =>
                 /\ Merge(patch, r).slug = r.slug /\ Merge(patch, r).status = r.status
                 /\ Merge(patch, r).published = r.published
<1>1. DOMAIN r = {"slug", "status", "body", "system", "scheduled", "published"}
  BY DEF Page
<1>2. CASE patch \in FullPatch
  <2>1. DOMAIN patch = {"slug", "status", "body", "scheduled", "published"}
    BY <1>2 DEF FullPatch
  <2>2. Merge(patch, r) = [slug |-> patch.slug, status |-> patch.status, body |-> patch.body,
                           system |-> r.system, scheduled |-> patch.scheduled, published |-> patch.published]
    BY <1>1, <2>1 DEF Merge
  <2>3. r.system \in BOOLEAN
    BY DEF Page
  <2> QED BY <1>2, <2>2, <2>3 DEF Page, FullPatch, PageStatus
<1>3. CASE patch \notin FullPatch
  <2>1. DOMAIN patch = {"body"} /\ patch.body \in Nat
    BY <1>3, PatchTyped
  <2>2. Merge(patch, r) = [slug |-> r.slug, status |-> r.status, body |-> patch.body,
                           system |-> r.system, scheduled |-> r.scheduled, published |-> r.published]
    BY <1>1, <2>1 DEF Merge
  <2>3. /\ r.slug \in Slug /\ r.status \in PageStatus /\ r.system \in BOOLEAN
        /\ r.scheduled \in Time \cup {None} /\ r.published \in Time \cup {None}
    BY DEF Page
  <2> QED BY <1>3, <2>1, <2>2, <2>3 DEF Page
<1> QED BY <1>2, <1>3

LEMMA PagesInit == Init => PagesInv
<1> SUFFICES ASSUME Init PROVE PagesInv
  OBVIOUS
<1>1. 0 \in Time /\ 0 # None
  BY HandlersAssumption DEF Time
<1>2. page \in Page /\ Launched
  BY <1>1, PagesAssumption DEF Init, seedPages, Page, PageStatus, Launched
<1>3. /\ revision \in Seq(Nat) /\ lived = {} /\ byHand = FALSE /\ saved = 0
      /\ redirect \in [Slug -> [to : Slug, active : BOOLEAN] \cup {None}]
  BY DEF Init, seedPages
<1>4. job \in [Job -> PageWork] /\ \A j \in Job : job[j].op = "idle" /\ job[j] = Idle
  BY DEF Init, PageWork, Idle
<1>5. PagesFacts
  BY <1>2, <1>3, <1>4 DEF PagesFacts, Restorable, PageWaits, PageLed, LedTo
<1> QED BY <1>2, <1>3, <1>4, <1>5 DEF PagesInv, PagesTyped

\* What a turn has to leave behind.
LEMMA PagesTurned ==
    ASSUME Taken, PagesInv, subject = "page", NEW j \in Job, NEW next \in PageWork,
           Turns(j, next), PagesTyped', Launched',
           "request" \notin met' => Restorable' /\ PageWaits(next)' /\ PageLed(next)'
    PROVE  Taken' /\ PagesInv'
<1>1. job' \in [Job -> PageWork] /\ job'[j] = next
  BY DEF PagesInv, Turns
<1>2. ASSUME "request" \notin met'
      PROVE  \A i \in Job : i # j => job'[i] = Idle
  BY <1>2 DEF Turns, Taken
<1>3. PageWaits(Idle)'
  BY DEF PageWaits, Idle
<1>4. PageWaits(job[j])' /\ PageLed(job[j])' <=> PageWaits(next)' /\ PageLed(next)'
  BY <1>1 DEF PageWaits, PageLed
<1>5. ASSUME "request" \notin met'
      PROVE  /\ \A i \in Job : PageWaits(job[i])' /\ (Busy(i)' => PageLed(job[i])')
             /\ (\A i \in Job : ~Busy(i)') => PageLed(Idle)'
  <2>1. PageWaits(job[j])' /\ PageLed(job[j])'
    BY <1>4, <1>5
  <2>2. ASSUME NEW i \in Job, i # j
        PROVE  PageWaits(job[i])' /\ ~Busy(i)'
    <3>1. job'[i] = Idle
      BY <1>2, <1>5, <2>2
    <3> QED BY <3>1 DEF Busy, PageWaits, Idle
  <2>3. ASSUME \A i \in Job : ~Busy(i)'
        PROVE  PageLed(Idle)'
    <3>1. next = Idle
      BY <1>1, <2>3 DEF Busy
    <3> QED BY <3>1, <1>5
  <2> QED BY <2>1, <2>2, <2>3
<1>6. PagesFacts'
  BY <1>5 DEF PagesFacts
<1> QED BY <1>1, <1>6, TurnTaken DEF PagesInv, Turns

LEMMA ReachSame ==
    ASSUME redirect' = redirect, NEW s
    PROVE  Reach(s)' = Reach(s)
<1>1. \A t : Lookup(t)' = Lookup(t)
  BY DEF Lookup
<1> QED BY <1>1 DEF Reach, Following

LEMMA LedSame ==
    ASSUME redirect' = redirect, lived' = lived, NEW s
    PROVE  LedTo(s)' <=> LedTo(s)
  BY ReachSame DEF LedTo

LEMMA PagesAside ==
    ASSUME Taken, PagesInv, Aside, UNCHANGED pages
    PROVE  PagesInv'
<1>1. PagesTyped'
  <2>1. Time' = Time
    BY DEF Time
  <2> QED BY <2>1 DEF PagesInv, PagesTyped, pages, Page, Versions
<1>2. /\ page' = page /\ revision' = revision /\ redirect' = redirect
      /\ lived' = lived /\ byHand' = byHand
  BY DEF pages
<1>3. ASSUME subject = "page"
      PROVE  job' \in [Job -> PageWork] /\ PagesFacts'
  <2>1. PagesFacts /\ job \in [Job -> PageWork]
    BY <1>3 DEF PagesInv
  <2>2. Launched' /\ (Restorable => Restorable')
    BY <2>1, <1>2 DEF PagesFacts, Launched, Restorable
  <2>3. CASE job' = job
    <3>1. ASSUME NEW w
          PROVE  (PageWaits(w) => PageWaits(w)') /\ (PageLed(w) => PageLed(w)')
      <4>1. PageWaits(w) => PageWaits(w)'
        BY <1>2 DEF PageWaits, Aside, Version
      <4>2. PICK s : s = IF w.op = "moved" THEN w.was.slug ELSE page.slug
        OBVIOUS
      <4>3. LedTo(s)' <=> LedTo(s)
        BY <1>2, LedSame
      <4>4. PageLed(w) <=> (page # None /\ "failure" \notin met /\ ~byHand => LedTo(s))
        BY <4>2 DEF PageLed
      <4>5. PageLed(w)' <=> (page' # None /\ "failure" \notin met' /\ ~byHand' => LedTo(s)')
        BY <4>2, <1>2 DEF PageLed
      <4> QED BY <4>1, <4>3, <4>4, <4>5, <1>2 DEF Aside
    <3>2. PagesFacts'
      <4>1. ASSUME "request" \notin met'
            PROVE  /\ \A j \in Job : PageWaits(job[j])' /\ (Busy(j)' => PageLed(job[j])')
                   /\ (\A j \in Job : ~Busy(j)') => PageLed(Idle)'
        <5>1. "request" \notin met
          BY <4>1 DEF Aside
        <5>2. \A j \in Job : PageWaits(job[j]) /\ (Busy(j) => PageLed(job[j]))
          BY <5>1, <2>1 DEF PagesFacts
        <5>3. \A j \in Job : Busy(j)' <=> Busy(j)
          BY <2>3 DEF Busy
        <5>4. (\A j \in Job : ~Busy(j)) => PageLed(Idle)
          BY <5>1, <2>1 DEF PagesFacts
        <5>5. ASSUME NEW j \in Job
              PROVE  PageWaits(job[j])' /\ (Busy(j)' => PageLed(job[j])')
          <6>1. PICK w : w = job[j]
            OBVIOUS
          <6>2. job'[j] = w
            BY <6>1, <2>3
          <6>3. PageWaits(w)' /\ (Busy(j) => PageLed(w)')
            BY <6>1, <5>2, <3>1
          <6> QED BY <6>2, <6>3, <5>3 DEF PageWaits, PageLed
        <5>6. PageLed(Idle) => PageLed(Idle)'
          BY <3>1
        <5> QED BY <5>3, <5>4, <5>5, <5>6
      <4> QED BY <4>1, <2>1, <2>2 DEF PagesFacts, Aside
    <3> QED BY <2>1, <2>3, <3>2
  <2>4. CASE job' = [j \in Job |-> Idle] /\ "failure" \in met'
    <3>1. \A j \in Job : job'[j] = Idle
      BY <2>4
    <3>2. PageLed(Idle)' /\ PageWaits(Idle)'
      BY <2>4 DEF PageLed, PageWaits, Idle
    <3>3. \A j \in Job : PageWaits(job[j])' /\ PageLed(job[j])'
      BY <3>1, <2>4 DEF PageLed, PageWaits, Idle
    <3>4. PagesFacts'
      BY <2>1, <2>2, <3>2, <3>3 DEF PagesFacts, Aside
    <3>5. Idle \in PageWork
      BY DEF PageWork
    <3> QED BY <2>4, <3>4, <3>5
  <2> QED BY <2>3, <2>4 DEF Aside
<1>4. PageWork' = PageWork
  <2>1. Time' = Time
    BY DEF Time
  <2> QED BY <2>1 DEF PageWork, PagePatch, FullPatch, Versions
<1> QED BY <1>1, <1>2, <1>3, <1>4 DEF PagesInv, Aside

LEMMA PagesTypedNext ==
    ASSUME page' \in Page \cup {None}, revision' \in Seq(Nat), lived' \subseteq Versions,
           redirect' \in [Slug -> [to : Slug, active : BOOLEAN] \cup {None}],
           saved' \in Nat, byHand' \in BOOLEAN
    PROVE  PagesTyped'
<1>1. Time' = Time
  BY DEF Time
<1> QED BY <1>1 DEF PagesTyped, Page, Versions

LEMMA FormTyped ==
    ASSUME Taken, saved \in Nat, NEW slug \in Slug, NEW status \in {"DRAFT", "SCHEDULED", "PUBLISHED"},
           NEW t \in Time \cup {None}, NEW published \in Time \cup {None}
    PROVE  /\ Form(slug, status, t, published) \in FullPatch
           /\ Form(slug, status, t, published).status = status
           /\ status = "PUBLISHED" /\ published # None =>
                 Form(slug, status, t, published).published = published
<1>1. PICK p : p = publishFields(status, t, published)
  OBVIOUS
<1>2. clock \in Time /\ clock # None
  BY HandlersAssumption DEF Taken, Time
<1>3. /\ p.scheduled \in Time \cup {None} /\ p.published \in Time \cup {None}
      /\ status = "PUBLISHED" => p.published # None /\ (published # None => p.published = published)
  BY <1>1, <1>2 DEF publishFields, Stamp
<1>4. Form(slug, status, t, published) =
          [slug |-> slug, status |-> status, body |-> saved + 1,
           scheduled |-> p.scheduled, published |-> p.published]
  BY <1>1 DEF Form
<1>5. saved + 1 \in Nat
  OBVIOUS
<1> QED BY <1>3, <1>4, <1>5 DEF FullPatch

\* A statement that leaves no save on its way and looks for the page where it is.
LEMMA IdleWaits ==
    PageWaits(Idle)' /\ (LedTo(page.slug)' => PageLed(Idle)') /\ Idle \in PageWork
  BY DEF PageWaits, PageLed, Idle, PageWork

LEMMA CreatePageStands ==
    ASSUME Taken, PagesInv, subject = "page", NEW j \in Job, NEW slug \in Slug,
           NEW status \in {"DRAFT", "SCHEDULED", "PUBLISHED"}, NEW t \in Time \cup {None},
           CreatePage(j, slug, status, t)
    PROVE  Taken' /\ PagesInv'
<1>1. Turns(j, Idle)
  BY BeginTurns DEF CreatePage
<1>2. PICK f : f = Form(slug, status, t, None)
  OBVIOUS
<1>3. f \in FullPatch
  <2>1. saved \in Nat /\ None \in Time \cup {None}
    BY DEF PagesInv, PagesTyped
  <2> QED BY <1>2, <2>1, FormTyped
<1>4. /\ page' = [slug |-> f.slug, status |-> f.status, body |-> f.body, system |-> FALSE,
                  scheduled |-> f.scheduled, published |-> f.published]
      /\ revision' = <<f.body>> /\ saved' = saved + 1 /\ lived' = {}
      /\ redirect' = redirect /\ byHand' = byHand
  BY <1>2 DEF CreatePage
<1>5. page' \in Page /\ f.body \in Nat /\ (page'.status = "PUBLISHED" => page'.published # None)
  BY <1>3, <1>4 DEF FullPatch, Page, PageStatus
<1>6. revision' \in Seq(Nat)
  BY <1>4, <1>5
<1>7. PagesTyped'
  BY <1>4, <1>5, <1>6, PagesTypedNext DEF PagesInv, PagesTyped
<1>8. Launched' /\ Restorable' /\ LedTo(page.slug)'
  BY <1>4, <1>5 DEF Launched, Restorable, LedTo
<1> QED BY <1>1, <1>7, <1>8, IdleWaits, PagesTurned

\* A save finds the page as it is: the body of a form, or of a revision.
LEMMA SaveBegins ==
    ASSUME Taken, PagesInv, subject = "page", NEW j \in Job, NEW patch \in PagePatch, page # None,
           Begin(j, [op |-> "page", was |-> Version, patch |-> patch]),
           "status" \in DOMAIN patch /\ page.status = "PUBLISHED" /\ patch.status = "PUBLISHED" =>
               patch.published = page.published,
           UNCHANGED <<page, revision, redirect, lived, byHand>>, saved' \in Nat
    PROVE  Taken' /\ PagesInv'
<1>1. PICK next : next = [op |-> "page", was |-> Version, patch |-> patch]
  OBVIOUS
<1>2. Turns(j, next) /\ ("request" \notin met' => met' = met) /\ job[j] = Idle
  BY <1>1, BeginTurns
<1>3. page \in Page
  BY DEF PagesInv, PagesTyped
<1>4. next \in PageWork
  <2>1. Version \in Versions
    BY <1>3 DEF Version, Versions, Page
  <2> QED BY <1>1, <2>1 DEF PageWork
<1>5. PagesTyped'
  BY PagesTypedNext DEF PagesInv, PagesTyped
<1>6. Launched'
  BY DEF PagesInv, PagesFacts, Launched
<1>7. ASSUME "request" \notin met'
      PROVE  Restorable' /\ PageWaits(next)' /\ PageLed(next)'
  <2>1. met' = met /\ "request" \notin met /\ \A i \in Job : ~Busy(i)
    BY <1>2, <1>7 DEF Turns, Busy
  <2>2. Restorable /\ PageLed(Idle)
    BY <2>1 DEF PagesInv, PagesFacts
  <2>3. Restorable'
    BY <2>2 DEF Restorable
  <2>4. PageWaits(next)'
    BY <1>1, <2>1 DEF PageWaits, Version
  <2>5. PICK s : s = page.slug
    OBVIOUS
  <2>6. page # None /\ "failure" \notin met /\ ~byHand => LedTo(s)
    BY <2>2, <2>5 DEF PageLed, Idle
  <2>7. page' # None /\ "failure" \notin met' /\ ~byHand' => LedTo(s)'
    BY <2>1, <2>6, LedSame
  <2>8. page'.slug = s /\ next.op # "moved"
    BY <1>1, <2>5
  <2>9. PageLed(next)'
    BY <2>7, <2>8 DEF PageLed
  <2> QED BY <2>3, <2>4, <2>9
<1> QED BY <1>2, <1>4, <1>5, <1>6, <1>7, PagesTurned

LEMMA PatchPageStands ==
    ASSUME Taken, PagesInv, subject = "page", NEW j \in Job, NEW slug \in Slug,
           NEW status \in {"DRAFT", "SCHEDULED", "PUBLISHED"}, NEW t \in Time \cup {None},
           PatchPage(j, slug, status, t)
    PROVE  Taken' /\ PagesInv'
<1>1. page # None /\ page \in Page
  BY DEF PatchPage, PagesInv, PagesTyped
<1>2. PICK patch : patch = Form(slug, status, t, page.published)
  OBVIOUS
<1>3. page.published \in Time \cup {None} /\ (page.status = "PUBLISHED" => page.published # None)
  BY <1>1 DEF Page, PagesInv, PagesFacts, Launched
<1>4. /\ patch \in FullPatch
      /\ page.status = "PUBLISHED" /\ patch.status = "PUBLISHED" => patch.published = page.published
  <2>1. saved \in Nat
    BY DEF PagesInv, PagesTyped
  <2>2. PICK p \in Time \cup {None} : p = page.published
    BY <1>3
  <2>3. /\ Form(slug, status, t, p) \in FullPatch /\ Form(slug, status, t, p).status = status
        /\ status = "PUBLISHED" /\ p # None => Form(slug, status, t, p).published = p
    BY <2>1, FormTyped
  <2> QED BY <1>2, <1>3, <2>2, <2>3
<1>5. /\ Begin(j, [op |-> "page", was |-> Version, patch |-> patch]) /\ saved' = saved + 1
      /\ UNCHANGED <<page, revision, redirect, lived, byHand>>
  BY <1>2 DEF PatchPage
<1>6. patch \in PagePatch /\ saved' \in Nat
  BY <1>4, <1>5 DEF PagePatch, PagesInv, PagesTyped
<1> QED BY <1>1, <1>4, <1>5, <1>6, SaveBegins

LEMMA RestorePageStands ==
    ASSUME Taken, PagesInv, subject = "page", NEW j \in Job, NEW v \in 1 .. Len(revision),
           RestorePage(j, v)
    PROVE  Taken' /\ PagesInv'
<1>1. PICK patch : patch = [body |-> revision[v]]
  OBVIOUS
<1>2. revision[v] \in Nat
  BY DEF PagesInv, PagesTyped
<1>3. patch \in PagePatch /\ "status" \notin DOMAIN patch
  BY <1>1, <1>2 DEF PagePatch
<1>4. /\ Begin(j, [op |-> "page", was |-> Version, patch |-> patch]) /\ page # None
      /\ UNCHANGED <<page, revision, redirect, lived, byHand>> /\ saved' = saved
  BY <1>1 DEF RestorePage, pages
<1> QED BY <1>3, <1>4, SaveBegins DEF PagesInv, PagesTyped

\* The body that is replaced is kept with the others.
LEMMA SavePageStands ==
    ASSUME Taken, PagesInv, subject = "page", NEW j \in Job, SavePage(j)
    PROVE  Taken' /\ PagesInv'
<1>1. Busy(j) /\ job[j].op = "page" /\ job[j] \in PageWork
  BY AtBusy DEF SavePage, At, PagesInv
<1>2. PICK w : w = job[j]
  OBVIOUS
<1>3. /\ w \in [op : {"page"}, was : Versions, patch : PagePatch]
      /\ w.patch \in PagePatch /\ w.was \in Versions /\ w.was.body \in Nat
  BY <1>1, <1>2, PageWorkTyped DEF Versions
<1>4. CASE page = None
  <2>1. Turns(j, Idle) /\ page' = None /\ UNCHANGED pages
    BY <1>1, <1>4, GotoTurns DEF SavePage, pages
  <2>2. PagesTyped' /\ Launched' /\ Restorable'
    BY <1>4, <2>1, PagesTypedNext DEF PagesInv, PagesTyped, pages, Launched, Restorable
  <2>3. PageLed(Idle)'
    BY <2>1 DEF PageLed
  <2> QED BY <2>1, <2>2, <2>3, IdleWaits, PagesTurned
<1>5. CASE page # None
  <2>1. page \in Page
    BY <1>5 DEF PagesInv, PagesTyped
  <2>2. PICK next : next = IF Moved(j) THEN [w EXCEPT !.op = "moved"] ELSE Idle
    OBVIOUS
  <2>3. /\ revision' = Append(revision, w.was.body) /\ page' = Merge(w.patch, page)
        /\ lived' = lived \cup {Version} /\ Goto(j, next)
        /\ redirect' = redirect /\ saved' = saved /\ byHand' = byHand
    BY <1>2, <1>5, <2>2 DEF SavePage
  <2>4. Turns(j, next) /\ met' = met
    BY <1>1, <2>3, GotoTurns
  <2>5. PICK q \in Page : q = page'
    BY <1>3, <2>1, <2>3, PageMerged
  <2>6. /\ w.patch \in FullPatch => q.slug = w.patch.slug /\ q.status = w.patch.status
                                    /\ q.published = w.patch.published
        /\ w.patch \notin FullPatch => q.slug = page.slug /\ q.status = page.status
                                       /\ q.published = page.published
    BY <1>3, <2>1, <2>3, <2>5, PageMerged
  <2>7. Moved(j) => w.patch \in FullPatch /\ next = [w EXCEPT !.op = "moved"]
    BY <1>2, <1>3, <2>2, PatchTyped DEF Moved
  <2>8. next \in PageWork
    <3>1. CASE Moved(j)
      <4>1. next \in [op : {"moved"}, was : Versions, patch : FullPatch]
        BY <1>3, <2>7, <3>1
      <4> QED BY <4>1 DEF PageWork
    <3>2. CASE ~Moved(j)
      BY <2>2, <3>2 DEF PageWork
    <3> QED BY <3>1, <3>2
  <2>9. PagesTyped'
    <3>1. revision' \in Seq(Nat)
      BY <1>3, <2>3 DEF PagesInv, PagesTyped
    <3>2. Version \in Versions
      BY <2>1 DEF Version, Versions, Page
    <3>3. lived' \subseteq Versions
      BY <2>3, <3>2 DEF PagesInv, PagesTyped
    <3> QED BY <2>3, <2>5, <3>1, <3>3, PagesTypedNext DEF PagesInv, PagesTyped
  <2>10. Launched'
    <3>1. w.patch \in FullPatch /\ w.patch.status = "PUBLISHED" => w.patch.published # None
      BY DEF FullPatch
    <3>2. page.status = "PUBLISHED" => page.published # None
      BY <1>5 DEF PagesInv, PagesFacts, Launched
    <3>3. q.status = "PUBLISHED" => q.published # None
      BY <2>6, <3>1, <3>2
    <3> QED BY <2>5, <3>3 DEF Launched
  <2>11. ASSUME "request" \notin met'
         PROVE  Restorable' /\ PageWaits(next)' /\ PageLed(next)'
    <3>1. /\ Restorable /\ w.was = Version
          /\ PageLed(w)
      BY <1>1, <1>2, <1>5, <2>4, <2>11 DEF PagesInv, PagesFacts, PageWaits
    <3>2. w.was.body = page.body /\ w.was.slug = page.slug
      BY <3>1 DEF Version
    <3>3. Restorable'
      <4>1. /\ Len(revision') = Len(revision) + 1 /\ revision'[Len(revision) + 1] = page.body
            /\ \A i \in 1 .. Len(revision) : revision'[i] = revision[i]
            /\ Len(revision) \in Nat
        BY <1>3, <2>3, <3>2 DEF PagesInv, PagesTyped
      <4>2. PICK n \in Nat : n = Len(revision)
        BY <4>1
      <4>3. ASSUME NEW v \in lived'
            PROVE  \E i \in 1 .. Len(revision') : revision'[i] = v.body
        <5>1. v.body = page.body \/ \E i \in 1 .. n : revision[i] = v.body
          <6>1. CASE v \in lived
            BY <6>1, <4>2, <3>1, <1>5 DEF Restorable
          <6>2. CASE v = Version
            BY <6>2 DEF Version
          <6> QED BY <4>3, <6>1, <6>2, <2>3
        <5>2. CASE v.body = page.body
          BY <5>2, <4>1, <4>2
        <5>3. CASE \E i \in 1 .. n : revision[i] = v.body
          <6>1. PICK i \in 1 .. n : revision[i] = v.body
            BY <5>3
          <6>2. revision'[i] = v.body /\ i \in 1 .. Len(revision')
            BY <4>1, <4>2, <6>1
          <6> QED BY <6>2
        <5> QED BY <5>1, <5>2, <5>3
      <4> QED BY <4>3 DEF Restorable
    <3>4. PICK s \in Slug : s = page.slug
      BY <2>1 DEF Page
    <3>5. "failure" \notin met /\ ~byHand => LedTo(s)
      BY <3>1, <3>4, <1>1, <1>2, <1>5 DEF PageLed
    <3>6. "failure" \notin met' /\ ~byHand' => LedTo(s)'
      <4>1. SUFFICES ASSUME LedTo(s)
                     PROVE  LedTo(s)'
        BY <2>3, <2>4, <3>5
      <4>2. ASSUME NEW v \in lived'
            PROVE  s \in Reach(v.slug)'
        <5>1. Reach(v.slug)' = Reach(v.slug)
          BY <2>3, ReachSame
        <5>2. CASE v \in lived
          BY <5>1, <5>2, <4>1 DEF LedTo
        <5>3. CASE v = Version
          <6>1. v.slug = s
            BY <5>3, <3>4 DEF Version
          <6>2. s \in Reach(s)
            <7>1. PICK next2 : next2 = [t \in Slug |-> Lookup(t)]
              OBVIOUS
            <7>2. DOMAIN next2 = Slug /\ Reach(s) = Following(next2, s)
              BY <7>1 DEF Reach
            <7> QED BY <7>2, FollowingFacts
          <6> QED BY <5>1, <6>1, <6>2
        <5> QED BY <4>2, <5>2, <5>3, <2>3
      <4> QED BY <4>2 DEF LedTo
    <3>7. CASE Moved(j)
      <4>1. next.op = "moved" /\ next.was = w.was /\ next.patch = w.patch
        BY <1>3, <2>7, <3>7
      <4>2. PageWaits(next)'
        BY <2>5, <2>6, <2>7, <3>7, <4>1, <2>3, <1>5 DEF PageWaits
      <4>3. PageLed(next)'
        BY <4>1, <3>2, <3>4, <3>6 DEF PageLed
      <4> QED BY <3>3, <4>2, <4>3
    <3>8. CASE ~Moved(j)
      <4>1. next = Idle
        BY <2>2, <3>8
      <4>2. q.slug = s
        <5>1. CASE w.patch \in FullPatch
          <6>1. "slug" \in DOMAIN w.patch
            BY <5>1 DEF FullPatch
          <6> QED BY <1>2, <2>6, <3>2, <3>4, <3>8, <5>1, <6>1 DEF Moved
        <5>2. CASE w.patch \notin FullPatch
          BY <2>6, <3>4, <5>2
        <5> QED BY <5>1, <5>2
      <4>3. PageLed(next)'
        BY <4>1, <4>2, <2>5, <3>6 DEF PageLed, Idle
      <4> QED BY <3>3, <4>1, <4>3, IdleWaits
    <3> QED BY <3>7, <3>8
  <2> QED BY <2>4, <2>8, <2>9, <2>10, <2>11, PagesTurned
<1> QED BY <1>4, <1>5

\* The old address leads on to the new one, and so does all that led to it.
LEMMA RedirectStands ==
    ASSUME Taken, PagesInv, subject = "page", NEW j \in Job,
           RedirectOldAddress(j) \/ RedirectFails(j)
    PROVE  Taken' /\ PagesInv'
<1>1. Busy(j) /\ job[j].op = "moved" /\ job[j] \in PageWork
  BY AtBusy DEF RedirectOldAddress, RedirectFails, At, PagesInv
<1>2. PICK w : w = job[j]
  OBVIOUS
<1>3. w.was.slug \in Slug /\ w.patch.slug \in Slug
  BY <1>1, <1>2, PageWorkTyped DEF Versions, FullPatch
<1>4. UNCHANGED <<page, revision, saved, lived, byHand>>
  BY DEF RedirectOldAddress, RedirectFails, pages
<1>5. /\ Launched' 
      /\ "request" \notin met /\ met' = met => Restorable'
  BY <1>4 DEF PagesInv, PagesFacts, Launched, Restorable
<1>6. CASE RedirectOldAddress(j)
  <2>1. Turns(j, Idle) /\ met' = met
    BY <1>1, <1>6, GotoTurns DEF RedirectOldAddress
  <2>2. redirect' = [redirect EXCEPT ![w.was.slug] = [to |-> w.patch.slug, active |-> TRUE]]
    BY <1>2, <1>6 DEF RedirectOldAddress
  <2>3. redirect' \in [Slug -> [to : Slug, active : BOOLEAN] \cup {None}]
    BY <1>3, <2>2 DEF PagesInv, PagesTyped
  <2>4. PagesTyped'
    BY <1>4, <2>3, PagesTypedNext DEF PagesInv, PagesTyped
  <2>5. ASSUME "request" \notin met'
        PROVE  PageLed(Idle)'
    <3>1. SUFFICES ASSUME page # None, "failure" \notin met, ~byHand
                   PROVE  LedTo(page.slug)'
      BY <1>4, <2>1 DEF PageLed, Idle
    <3>2. PageWaits(w) /\ PageLed(w)
      BY <1>1, <1>2, <2>1, <2>5 DEF PagesInv, PagesFacts
    <3>3. PICK e \in Slug : e = w.was.slug
      BY <1>3
    <3>4. PICK s \in Slug : s = w.patch.slug
      BY <1>3
    <3>5. page.slug = s /\ LedTo(e)
      BY <1>1, <1>2, <3>1, <3>2, <3>3, <3>4 DEF PageWaits, PageLed
    <3>6. PICK f : f = [t \in Slug |-> Lookup(t)]
      OBVIOUS
    <3>7. PICK g : g = [t \in Slug |-> Lookup(t)']
      OBVIOUS
    <3>8. /\ DOMAIN f = Slug /\ DOMAIN g = Slug
          /\ \A t : Reach(t) = Following(f, t) /\ Reach(t)' = Following(g, t)
      BY <3>6, <3>7 DEF Reach
    <3>9. g[e] = s
      <4>1. redirect'[e] = [to |-> s, active |-> TRUE]
        BY <2>2, <3>3, <3>4 DEF PagesInv, PagesTyped
      <4>2. redirect'[e] # None
        <5>1. redirect'[e] \in [to : Slug, active : BOOLEAN]
          BY <4>1, <3>4
        <5> QED BY <5>1, PagesAssumption
      <4> QED BY <4>1, <4>2, <3>7 DEF Lookup
    <3>10. \A t \in Slug : t # e => g[t] = f[t]
      <4>1. \A t \in Slug : t # e => redirect'[t] = redirect[t]
        BY <2>2, <3>3 DEF PagesInv, PagesTyped
      <4> QED BY <4>1, <3>6, <3>7 DEF Lookup
    <3>11. ASSUME NEW v \in lived
           PROVE  s \in Reach(v.slug)'
      <4>1. v.slug \in Slug
        BY DEF PagesInv, PagesTyped, Versions
      <4>2. PICK d \in Slug : d = v.slug
        BY <4>1
      <4>3. e \in Following(f, d)
        BY <3>5, <3>8, <4>2 DEF LedTo
      <4>4. g[e] \in Following(g, d)
        BY <3>8, <3>9, <3>10, <4>3, FollowingSent
      <4> QED BY <4>2, <4>4, <3>8, <3>9
    <3> QED BY <3>5, <3>11, <1>4 DEF LedTo
  <2>6. Idle \in PageWork /\ PageWaits(Idle)'
    BY IdleWaits
  <2> QED BY <2>1, <2>4, <2>5, <2>6, <1>5, PagesTurned
<1>7. CASE RedirectFails(j)
  <2>1. Turns(j, Idle) /\ met' = met \cup {"failure"} /\ redirect' = redirect
    BY <1>1, <1>7, FailsTurns DEF RedirectFails, pages
  <2>2. PagesTyped'
    BY <1>4, <2>1, PagesTypedNext DEF PagesInv, PagesTyped
  <2>3. PageLed(Idle)'
    BY <2>1 DEF PageLed
  <2>4. "request" \notin met' => Restorable'
    BY <1>4, <2>1 DEF PagesInv, PagesFacts, Restorable
  <2>5. Idle \in PageWork /\ PageWaits(Idle)'
    BY IdleWaits
  <2> QED BY <2>1, <2>2, <2>3, <2>4, <2>5, <1>5, PagesTurned
<1> QED BY <1>6, <1>7

\* A request that is answered at once, when no other is on its way.
LEMMA AnsweredAtOnce ==
    ASSUME Taken, PagesInv, subject = "page", NEW j \in Job, Begin(j, Idle), "request" \notin met'
    PROVE  /\ Restorable
           /\ page # None /\ "failure" \notin met' /\ ~byHand => LedTo(page.slug)
<1>1. met' = met /\ \A i \in Job : ~Busy(i)
  BY BeginTurns DEF Turns, Busy
<1>2. Restorable /\ PageLed(Idle)
  BY <1>1 DEF PagesInv, PagesFacts
<1> QED BY <1>1, <1>2 DEF PageLed, Idle

LEMMA DeletePageStands ==
    ASSUME Taken, PagesInv, subject = "page", NEW j \in Job, DeletePage(j)
    PROVE  Taken' /\ PagesInv'
<1>1. Turns(j, Idle) /\ Begin(j, Idle)
  BY BeginTurns DEF DeletePage
<1>2. page \in Page /\ page # None
  BY DEF DeletePage, PagesInv, PagesTyped
<1>3. redirect' = redirect /\ saved' = saved /\ byHand' = byHand
  BY DEF DeletePage
<1>4. CASE page.system
  <2>1. page' = [page EXCEPT !.status = "ARCHIVED"] /\ revision' = revision /\ lived' = lived
    BY <1>4 DEF DeletePage
  <2>2. /\ page' \in Page /\ page'.status = "ARCHIVED" 
        /\ page'.slug = page.slug /\ page'.body = page.body
    BY <1>2, <2>1 DEF Page, PageStatus
  <2>3. PagesTyped' /\ Launched'
    BY <1>3, <2>1, <2>2, PagesTypedNext DEF PagesInv, PagesTyped, Launched
  <2>4. ASSUME "request" \notin met'
        PROVE  Restorable' /\ PageLed(Idle)'
    <3>1. /\ Restorable
          /\ "failure" \notin met' /\ ~byHand => LedTo(page.slug)
      BY <1>1, <1>2, <2>4, AnsweredAtOnce
    <3>2. Restorable'
      BY <1>2, <2>1, <2>2, <3>1 DEF Restorable
    <3>3. PICK s : s = page.slug
      OBVIOUS
    <3>4. LedTo(s)' <=> LedTo(s)
      BY <1>3, <2>1, LedSame
    <3>5. "failure" \notin met' /\ ~byHand' => LedTo(s)'
      BY <3>1, <3>3, <3>4, <1>3
    <3>6. page'.slug = s
      BY <2>2, <3>3
    <3> QED BY <3>2, <3>5, <3>6 DEF PageLed, Idle
  <2> QED BY <1>1, <2>3, <2>4, IdleWaits, PagesTurned
<1>5. CASE ~page.system
  <2>1. page' = None /\ revision' = <<>> /\ lived' = {}
    BY <1>5 DEF DeletePage
  <2>2. revision' \in Seq(Nat)
    BY <2>1
  <2>3. PagesTyped' /\ Launched' /\ Restorable' /\ PageLed(Idle)'
    BY <1>3, <2>1, <2>2, PagesTypedNext DEF PagesInv, PagesTyped, Launched, Restorable, PageLed
  <2> QED BY <1>1, <2>3, IdleWaits, PagesTurned
<1> QED BY <1>4, <1>5

\* A redirect from an address that had none leaves what it found leading where it led.
LEMMA CreateRedirectStands ==
    ASSUME Taken, PagesInv, subject = "page", NEW j \in Job, NEW from \in Slug, NEW to \in Slug,
           CreateRedirect(j, from, to)
    PROVE  Taken' /\ PagesInv'
<1>1. Turns(j, Idle) /\ Begin(j, Idle)
  BY BeginTurns DEF CreateRedirect
<1>2. /\ UNCHANGED <<page, revision, saved, lived, byHand>> /\ redirect[from] = None
      /\ redirect' = [redirect EXCEPT ![from] = [to |-> to, active |-> TRUE]]
  BY DEF CreateRedirect
<1>3. redirect' \in [Slug -> [to : Slug, active : BOOLEAN] \cup {None}]
  BY <1>2 DEF PagesInv, PagesTyped
<1>4. PagesTyped' /\ Launched'
  BY <1>2, <1>3, PagesTypedNext DEF PagesInv, PagesTyped, PagesFacts, Launched
<1>5. ASSUME "request" \notin met'
      PROVE  Restorable' /\ PageLed(Idle)'
  <2>1. Restorable /\ (page # None /\ "failure" \notin met' /\ ~byHand => LedTo(page.slug))
    BY <1>1, <1>5, AnsweredAtOnce
  <2>2. Restorable'
    BY <1>2, <2>1 DEF Restorable
  <2>3. ASSUME NEW s, LedTo(s)
        PROVE  LedTo(s)'
    <3>1. PICK f : f = [t \in Slug |-> Lookup(t)]
      OBVIOUS
    <3>2. PICK g : g = [t \in Slug |-> Lookup(t)']
      OBVIOUS
    <3>3. /\ DOMAIN f = Slug /\ DOMAIN g = Slug
          /\ \A t : Reach(t) = Following(f, t) /\ Reach(t)' = Following(g, t)
      BY <3>1, <3>2 DEF Reach
    <3>4. \A t \in Slug : f[t] \in Slug => g[t] = f[t]
      <4>1. f[from] = None
        BY <1>2, <3>1 DEF Lookup
      <4>2. \A t \in Slug : t # from => redirect'[t] = redirect[t]
        BY <1>2 DEF PagesInv, PagesTyped
      <4>3. \A t \in Slug : t # from => g[t] = f[t]
        BY <3>1, <3>2, <4>2 DEF Lookup
      <4> QED BY <4>1, <4>3, PagesAssumption
    <3>5. ASSUME NEW v \in lived
          PROVE  s \in Reach(v.slug)'
      <4>1. PICK d \in Slug : d = v.slug
        BY DEF PagesInv, PagesTyped, Versions
      <4>2. Following(f, d) \subseteq Following(g, d)
        BY <3>3, <3>4, FollowingGrows
      <4> QED BY <4>1, <4>2, <3>3, <2>3 DEF LedTo
    <3> QED BY <3>5, <1>2 DEF LedTo
  <2>4. PICK s : s = page.slug
    OBVIOUS
  <2>5. page' # None /\ "failure" \notin met' /\ ~byHand' => LedTo(s)'
    BY <1>2, <2>1, <2>3, <2>4
  <2> QED BY <1>2, <2>2, <2>4, <2>5 DEF PageLed, Idle
<1> QED BY <1>1, <1>4, <1>5, IdleWaits, PagesTurned

LEMMA RewriteRedirectStands ==
    ASSUME Taken, PagesInv, subject = "page", NEW j \in Job, NEW from \in Slug,
           NEW row \in [to : Slug, active : BOOLEAN] \cup {None}, Begin(j, Idle), byHand' = TRUE,
           redirect' = [redirect EXCEPT ![from] = row], UNCHANGED <<page, revision, saved, lived>>
    PROVE  Taken' /\ PagesInv'
<1>1. Turns(j, Idle)
  BY BeginTurns
<1>2. redirect' \in [Slug -> [to : Slug, active : BOOLEAN] \cup {None}]
  BY DEF PagesInv, PagesTyped
<1>3. PagesTyped' /\ Launched'
  BY <1>2, PagesTypedNext DEF PagesInv, PagesTyped, PagesFacts, Launched
<1>4. "request" \notin met' => Restorable'
  BY AnsweredAtOnce DEF Restorable
<1>5. PageLed(Idle)'
  BY DEF PageLed
<1> QED BY <1>1, <1>3, <1>4, <1>5, IdleWaits, PagesTurned

LEMMA PagesStep ==
    ASSUME Taken, PagesInv, subject = "page", NEW j \in Job, PagesNext(j)
    PROVE  Taken' /\ PagesInv'
<1>1. CASE \E slug \in Slug, status \in {"DRAFT", "PUBLISHED"} :
               CreatePage(j, slug, status, None) \/ PatchPage(j, slug, status, None)
  BY <1>1, CreatePageStands, PatchPageStands
<1>2. CASE \E slug \in Slug, t \in {None, MaxTime} :
               CreatePage(j, slug, "SCHEDULED", t) \/ PatchPage(j, slug, "SCHEDULED", t)
  <2>1. {None, MaxTime} \subseteq Time \cup {None}
    BY HandlersAssumption DEF Time
  <2> QED BY <1>2, <2>1, CreatePageStands, PatchPageStands
<1>3. CASE \E from \in Slug, to \in Slug : UpdateRedirect(j, from, to, TRUE)
  <2>1. PICK from \in Slug, to \in Slug : UpdateRedirect(j, from, to, TRUE)
    BY <1>3
  <2>2. PICK row \in [to : Slug, active : BOOLEAN] : row = [to |-> to, active |-> TRUE]
    OBVIOUS
  <2> QED BY <2>1, <2>2, RewriteRedirectStands DEF UpdateRedirect
<1>4. CASE \E from \in Slug : redirect[from] # None /\ UpdateRedirect(j, from, redirect[from].to, FALSE)
  <2>1. PICK from \in Slug : redirect[from] # None /\ UpdateRedirect(j, from, redirect[from].to, FALSE)
    BY <1>4
  <2>2. redirect[from].to \in Slug
    BY <2>1 DEF PagesInv, PagesTyped
  <2>3. PICK row \in [to : Slug, active : BOOLEAN] : row = [to |-> redirect[from].to, active |-> FALSE]
    BY <2>2
  <2> QED BY <2>1, <2>3, RewriteRedirectStands DEF UpdateRedirect
<1>5. CASE \E from \in Slug : DeleteRedirect(j, from)
  BY <1>5, RewriteRedirectStands DEF DeleteRedirect
<1>6. CASE \E v \in 1 .. Len(revision) : RestorePage(j, v)
  BY <1>6, RestorePageStands
<1>7. CASE \E from, to \in Slug : CreateRedirect(j, from, to)
  BY <1>7, CreateRedirectStands
<1> QED BY <1>1, <1>2, <1>3, <1>4, <1>5, <1>6, <1>7, SavePageStands, RedirectStands, DeletePageStands
        DEF PagesNext

\* The scheduler touches the status, the day and nothing a version has; a save
\* that was on its way has met it.
LEMMA PagesPublished ==
    ASSUME Taken, PagesInv, publishDuePages
    PROVE  Taken' /\ PagesInv'
<1>1. Aside /\ job' = job
  BY BesideIsAside DEF publishDuePages, Beside, Met
<1>2. page \in Page /\ page # None
  BY DEF publishDuePages, Due, PagesInv, PagesTyped
<1>3. clock \in Time /\ clock # None
  BY HandlersAssumption DEF Taken, Time
<1>4. /\ page' \in Page /\ page'.slug = page.slug /\ page'.body = page.body
      /\ page'.status = "PUBLISHED" /\ page'.published # None
  <2>1. PICK a : a = [page EXCEPT !.status = "PUBLISHED"]
    OBVIOUS
  <2>2. PICK b : b = [a EXCEPT !.published = clock]
    OBVIOUS
  <2>3. page' = [b EXCEPT !.scheduled = None]
    BY <2>1, <2>2 DEF publishDuePages, Published
  <2>4. a \in Page /\ a.slug = page.slug /\ a.body = page.body /\ a.status = "PUBLISHED"
    BY <1>2, <2>1 DEF Page, PageStatus
  <2>5. b \in Page /\ b.slug = page.slug /\ b.body = page.body /\ b.status = "PUBLISHED" /\ b.published = clock
    BY <2>2, <2>4, <1>3 DEF Page
  <2> QED BY <2>3, <2>5, <1>3 DEF Page
<1>5. UNCHANGED <<revision, redirect, saved, lived, byHand>>
  BY DEF publishDuePages
<1>6. PagesTyped' /\ Launched'
  BY <1>4, <1>5, PagesTypedNext DEF PagesInv, PagesTyped, Launched
<1>7. ASSUME subject = "page"
      PROVE  job' \in [Job -> PageWork] /\ PagesFacts'
  <2>1. PagesFacts /\ job \in [Job -> PageWork]
    BY <1>7 DEF PagesInv
  <2>2. Restorable => Restorable'
    BY <1>2, <1>4, <1>5 DEF Restorable
  <2>3. PICK s : s = page.slug
    OBVIOUS
  <2>4. ASSUME NEW w
        PROVE  PageLed(w) => PageLed(w)'
    <3>1. PICK t : t = IF w.op = "moved" THEN w.was.slug ELSE s
      OBVIOUS
    <3>2. LedTo(t)' <=> LedTo(t)
      BY <1>5, LedSame
    <3>3. PageLed(w) <=> ("failure" \notin met /\ ~byHand => LedTo(t))
      BY <1>2, <2>3, <3>1 DEF PageLed
    <3>4. PageLed(w)' <=> (page' # None /\ "failure" \notin met' /\ ~byHand' => LedTo(t)')
      BY <1>4, <2>3, <3>1 DEF PageLed
    <3> QED BY <1>1, <1>5, <3>2, <3>3, <3>4 DEF Aside
  <2>5. ASSUME NEW j \in Job, PageWaits(job[j])
        PROVE  PageWaits(job[j])'
    <3>1. CASE Busy(j)
      <4>1. "scheduler" \in met'
        BY <3>1 DEF publishDuePages, Beside
      <4> QED BY <4>1, <2>5, <1>1, <1>2, <1>4 DEF PageWaits, Version
    <3>2. CASE ~Busy(j)
      BY <3>2, <1>1 DEF Busy, PageWaits, Idle
    <3> QED BY <3>1, <3>2
  <2>6. \A j \in Job : Busy(j)' <=> Busy(j)
    BY <1>1 DEF Busy
  <2>7. ASSUME "request" \notin met'
        PROVE  /\ Restorable'
               /\ \A j \in Job : PageWaits(job[j])' /\ (Busy(j)' => PageLed(job[j])')
               /\ (\A j \in Job : ~Busy(j)') => PageLed(Idle)'
    <3>1. "request" \notin met
      BY <2>7, <1>1 DEF Aside
    <3>2. /\ Restorable /\ \A j \in Job : PageWaits(job[j]) /\ (Busy(j) => PageLed(job[j]))
          /\ (\A j \in Job : ~Busy(j)) => PageLed(Idle)
      BY <3>1, <2>1 DEF PagesFacts
    <3>3. ASSUME NEW j \in Job, Busy(j)
          PROVE  PageLed(job[j])'
      <4>1. PICK w : w = job[j]
        OBVIOUS
      <4>2. PageLed(w)'
        BY <4>1, <3>2, <3>3, <2>4
      <4>3. job'[j] = w
        BY <4>1, <1>1
      <4> QED BY <4>2, <4>3 DEF PageLed
    <3>4. PageLed(Idle) => PageLed(Idle)'
      BY <2>4
    <3> QED BY <3>2, <3>3, <3>4, <2>2, <2>5, <2>6
  <2> QED BY <1>1, <1>6, <2>1, <2>7 DEF PagesFacts
<1>8. PageWork' = PageWork
  <2>1. Time' = Time
    BY DEF Time
  <2> QED BY <2>1 DEF PageWork, PagePatch, FullPatch, Versions
<1> QED BY <1>1, <1>5, <1>6, <1>7, <1>8, AsideTaken DEF PagesInv, Aside

-----------------------------------------------------------------------------
(* The wishlist *)

WishWork == {Idle} \cup [op : {"wish"}]

\* A save that is on its way found the product nowhere.
WishHolds(w) == wish <= 1 /\ (w.op = "wish" => wish = 0)

WishInv ==
    /\ wish \in Nat
    /\ subject = "wishlist" =>
          job \in [Job -> WishWork] /\ (Calm => \A w \in WishWork : OnWay(w) => WishHolds(w))
    /\ subject # "wishlist" => WishHolds(Idle)

LEMMA WishInit == ASSUME Init PROVE WishInv
  BY InitOnWay DEF Init, NewCustomer, WishInv, WishWork, WishHolds, Idle

LEMMA WishTurned ==
    ASSUME Taken, WishInv, subject = "wishlist", NEW j \in Job, NEW next \in WishWork, Turns(j, next),
           wish' \in Nat, Calm' => WishHolds(next)'
    PROVE  Taken' /\ WishInv'
<1>1. job' \in [Job -> WishWork]
  BY TurnOnWay DEF WishInv
<1>2. ASSUME Calm', NEW w \in WishWork, OnWay(w)'
      PROVE  WishHolds(w)'
  <2>1. w = next
    BY <1>2, TurnOnWay
  <2> QED BY <1>2, <2>1
<1> QED BY <1>1, <1>2, TurnTaken DEF WishInv, Turns

LEMMA WishAside ==
    ASSUME Taken, WishInv, Aside, wish' = wish
    PROVE  WishInv'
<1>1. ASSUME subject = "wishlist"
      PROVE  job' \in [Job -> WishWork] /\ (Calm' => \A w \in WishWork : OnWay(w)' => WishHolds(w)')
  <2>1. Idle \in WishWork /\ job \in [Job -> WishWork]
    BY <1>1 DEF WishWork, WishInv
  <2>2. job' \in [Job -> WishWork] /\ (Calm' => Calm /\ \A w : OnWay(w)' => OnWay(w))
    BY <2>1, AsideOnWay
  <2>3. \A w : WishHolds(w)' <=> WishHolds(w)
    BY DEF WishHolds
  <2> QED BY <1>1, <2>2, <2>3 DEF WishInv
<1> QED BY <1>1 DEF WishInv, Aside, WishHolds

LEMMA WishStep ==
    ASSUME Taken, WishInv, subject = "wishlist", NEW j \in Job, WishlistNext(j)
    PROVE  Taken' /\ WishInv'
<1>1. Idle \in WishWork /\ Idle.op # "wish"
  BY DEF WishWork, Idle
<1>2. Calm /\ OnWay(Idle) => wish <= 1
  BY <1>1 DEF WishInv, WishHolds
<1>3. CASE Save(j)
  <2>1. PICK next \in WishWork : next = [op |-> "wish"]
    BY DEF WishWork
  <2>2. Begin(j, next) /\ wish = 0 /\ wish' = 0
    BY <1>3, <2>1 DEF Save
  <2>3. WishHolds(next)'
    BY <2>2 DEF WishHolds
  <2> QED BY <2>2, <2>3, BeginTurns, WishTurned
<1>4. CASE WriteWish(j)
  <2>1. Busy(j) /\ OnWay(job[j]) /\ job[j].op = "wish" /\ wish' = wish + 1
    BY <1>4, AtOnWay DEF WriteWish, At
  <2>2. Turns(j, Idle) /\ met' = met
    BY <1>4, <2>1, GotoTurns DEF WriteWish
  <2>3. Calm' => wish = 0
    BY <2>1, <2>2 DEF WishInv, WishHolds, Calm
  <2>4. Calm' => WishHolds(Idle)'
    BY <1>1, <2>1, <2>3 DEF WishHolds
  <2> QED BY <1>1, <2>1, <2>2, <2>4, WishTurned DEF WishInv
<1>5. CASE RemoveWish(j) \/ Unsave(j)
  <2>1. Begin(j, Idle) /\ wish' \in Nat /\ wish' <= wish
    BY <1>5 DEF RemoveWish, Unsave, WishInv
  <2>2. Calm' => wish <= 1
    BY <1>2, <2>1, BeginOnWay
  <2>3. Calm' => WishHolds(Idle)'
    BY <1>1, <2>1, <2>2 DEF WishHolds, WishInv
  <2> QED BY <1>1, <2>1, <2>3, BeginTurns, WishTurned
<1> QED BY <1>3, <1>4, <1>5 DEF WishlistNext

-----------------------------------------------------------------------------
(* Ratings *)

Reviews    == [Customer -> {None, "PENDING", "APPROVED", "REJECTED"}]
Counts     == {Approved(r) : r \in Reviews}
RatingWork == {Idle} \cup [op : {"recompute"}] \cup [op : {"rate"}, count : Counts]
              \cup [op : {"moderate"}, customer : Customer, status : {"PENDING", "APPROVED", "REJECTED"},
                    count : Counts]

\* The rating is that of the reviews, or is about to be written as it is.
RatingHolds(w) ==
    /\ w.op \notin {"recompute", "rate"} => RatingStands
    /\ w.op = "rate" => w.count = Approved(review)
    /\ w.op = "moderate" => /\ review[w.customer] # None
                            /\ w.count = Approved([review EXCEPT ![w.customer] = w.status])

RatingInv ==
    /\ review \in Reviews
    /\ subject = "rating" =>
          job \in [Job -> RatingWork] /\ (Calm => \A w \in RatingWork : OnWay(w) => RatingHolds(w))
    /\ subject # "rating" => RatingHolds(Idle)

LEMMA RatingWorkTyped ==
    ASSUME NEW w \in RatingWork, w.op = "moderate"
    PROVE  w.customer \in Customer /\ w.status \in {"PENDING", "APPROVED", "REJECTED"}
<1>1. CASE w = Idle
  BY <1>1 DEF Idle
<1>2. CASE w \in [op : {"recompute"}]
  BY <1>2
<1>3. CASE w \in [op : {"rate"}, count : Counts]
  BY <1>3
<1>4. CASE w \in [op : {"moderate"}, customer : Customer, status : {"PENDING", "APPROVED", "REJECTED"},
                  count : Counts]
  BY <1>4
<1> QED BY <1>1, <1>2, <1>3, <1>4 DEF RatingWork

LEMMA RatingInit == ASSUME Init PROVE RatingInv
<1>1. review \in Reviews /\ ratingCount = 0
  BY DEF Init, Reviews
<1>2. {c \in Customer : review[c] = "APPROVED"} = {}
  BY ShelvesAssumption DEF Init
<1>3. RatingStands
  BY <1>1, <1>2, FS_EmptySet DEF RatingStands, Approved
<1>4. Idle \in RatingWork /\ Idle.op = "idle"
  BY DEF RatingWork, Idle
<1>5. RatingHolds(Idle)
  BY <1>3, <1>4 DEF RatingHolds
<1> QED BY <1>1, <1>4, <1>5, InitOnWay DEF RatingInv

LEMMA RatingTurned ==
    ASSUME Taken, RatingInv, subject = "rating", NEW j \in Job, NEW next \in RatingWork, Turns(j, next),
           review' \in Reviews, Calm' => RatingHolds(next)'
    PROVE  Taken' /\ RatingInv'
<1>1. job' \in [Job -> RatingWork]
  BY TurnOnWay DEF RatingInv
<1>2. ASSUME Calm', NEW w \in RatingWork, OnWay(w)'
      PROVE  RatingHolds(w)'
  <2>1. w = next
    BY <1>2, TurnOnWay
  <2> QED BY <1>2, <2>1
<1>3. Counts' = Counts /\ Reviews' = Reviews /\ RatingWork' = RatingWork
  BY DEF Counts, Reviews, Approved, RatingWork
<1> QED BY <1>1, <1>2, <1>3, TurnTaken DEF RatingInv, Turns

LEMMA RatingAside ==
    ASSUME Taken, RatingInv, Aside, UNCHANGED <<review, ratingCount>>
    PROVE  RatingInv'
<1>1. ASSUME subject = "rating"
      PROVE  job' \in [Job -> RatingWork] /\ (Calm' => \A w \in RatingWork : OnWay(w)' => RatingHolds(w)')
  <2>1. Idle \in RatingWork /\ job \in [Job -> RatingWork]
    BY <1>1 DEF RatingWork, RatingInv
  <2>2. job' \in [Job -> RatingWork] /\ (Calm' => Calm /\ \A w : OnWay(w)' => OnWay(w))
    BY <2>1, AsideOnWay
  <2>3. \A w : RatingHolds(w)' <=> RatingHolds(w)
    BY DEF RatingHolds, RatingStands, Approved
  <2> QED BY <1>1, <2>2, <2>3 DEF RatingInv
<1>2. Counts' = Counts /\ Reviews' = Reviews /\ RatingWork' = RatingWork
  BY DEF Counts, Reviews, Approved, RatingWork
<1> QED BY <1>1, <1>2 DEF RatingInv, RatingHolds, RatingStands, Approved, Aside

LEMMA RatingStep ==
    ASSUME Taken, RatingInv, subject = "rating", NEW j \in Job, RatingsNext(j)
    PROVE  Taken' /\ RatingInv'
<1>1. Idle \in RatingWork /\ Idle.op = "idle" /\ review \in Reviews
  BY DEF RatingWork, Idle, RatingInv
<1>2. Calm /\ OnWay(Idle) => RatingStands
  BY <1>1 DEF RatingInv, RatingHolds
<1>3. ASSUME NEW c \in Customer, SubmitReview(j, c) \/ DeleteReview(j, c)
      PROVE  Taken' /\ RatingInv'
  <2>1. PICK next \in RatingWork : next = [op |-> "recompute"]
    BY DEF RatingWork
  <2>2. Begin(j, next) /\ review' \in Reviews
    BY <1>1, <1>3, <2>1 DEF SubmitReview, DeleteReview, Reviews
  <2>3. RatingHolds(next)'
    BY <2>1 DEF RatingHolds
  <2> QED BY <2>2, <2>3, BeginTurns, RatingTurned
<1>4. ASSUME NEW c \in Customer, NEW s \in {"PENDING", "APPROVED", "REJECTED"}, ModerateReview(j, c, s)
      PROVE  Taken' /\ RatingInv'
  <2>1. PICK r \in Reviews : r = [review EXCEPT ![c] = s]
    BY <1>1 DEF Reviews
  <2>2. PICK n \in Counts : n = Approved(r)
    BY DEF Counts
  <2>3. PICK next \in RatingWork : next = [op |-> "moderate", customer |-> c, status |-> s, count |-> n]
    BY DEF RatingWork
  <2>4. Begin(j, next) /\ UNCHANGED <<review, ratingCount>> /\ review[c] # None
    BY <1>4, <2>1, <2>2, <2>3 DEF ModerateReview
  <2>5. Calm' => RatingStands
    BY <1>2, <2>4, BeginOnWay
  <2>6. Calm' => RatingHolds(next)'
    BY <2>1, <2>2, <2>3, <2>4, <2>5 DEF RatingHolds, RatingStands, Approved
  <2> QED BY <1>1, <2>4, <2>6, BeginTurns, RatingTurned
<1>5. CASE recomputeRating(j)
  <2>1. PICK n \in Counts : n = Approved(review)
    BY <1>1 DEF Counts
  <2>2. PICK next \in RatingWork : next = [op |-> "rate", count |-> n]
    BY DEF RatingWork
  <2>3. Turns(j, next) /\ UNCHANGED <<review, ratingCount>>
    BY <1>5, <2>1, <2>2, AtOnWay, GotoTurns DEF recomputeRating
  <2>4. RatingHolds(next)'
    BY <2>1, <2>2, <2>3 DEF RatingHolds, Approved
  <2> QED BY <1>1, <2>3, <2>4, RatingTurned
<1>6. CASE Rate(j)
  <2>1. Busy(j) /\ OnWay(job[j]) /\ job[j].op = "rate" /\ job[j] \in RatingWork
    BY <1>6, AtOnWay DEF Rate, At, RatingInv
  <2>2. Turns(j, Idle) /\ met' = met /\ ratingCount' = job[j].count /\ review' = review
    BY <1>6, <2>1, GotoTurns DEF Rate
  <2>3. Calm' => RatingHolds(job[j])
    BY <2>1, <2>2 DEF RatingInv, Calm
  <2>4. Calm' => RatingHolds(Idle)'
    BY <1>1, <2>1, <2>2, <2>3 DEF RatingHolds, RatingStands, Approved
  <2> QED BY <1>1, <2>2, <2>4, RatingTurned
<1>7. CASE CommitModeration(j)
  <2>1. Busy(j) /\ OnWay(job[j]) /\ job[j].op = "moderate" /\ job[j] \in RatingWork
    BY <1>7, AtOnWay DEF CommitModeration, At, RatingInv
  <2>2. PICK w \in RatingWork : w = job[j]
    BY <2>1
  <2>3. w.customer \in Customer /\ w.status \in {"PENDING", "APPROVED", "REJECTED"}
    BY <2>1, <2>2, RatingWorkTyped
  <2>4. Turns(j, Idle) /\ met' = met
    BY <1>7, <2>1, GotoTurns DEF CommitModeration
  <2>5. Calm' => RatingHolds(w)
    BY <2>1, <2>2, <2>4 DEF RatingInv, Calm
  <2>6. CASE review[w.customer] = None
    <3>1. UNCHANGED <<review, ratingCount>>
      BY <1>7, <2>2, <2>6 DEF CommitModeration
    <3>2. Calm' => RatingHolds(Idle)'
      BY <2>1, <2>2, <2>5, <2>6 DEF RatingHolds
    <3> QED BY <1>1, <2>4, <3>1, <3>2, RatingTurned
  <2>7. CASE review[w.customer] # None
    <3>1. review' = [review EXCEPT ![w.customer] = w.status] /\ ratingCount' = w.count
      BY <1>7, <2>2, <2>7 DEF CommitModeration
    <3>2. review' \in Reviews
      BY <1>1, <2>3, <3>1 DEF Reviews
    <3>3. PICK r : r = [review EXCEPT ![w.customer] = w.status]
      OBVIOUS
    <3>4. Calm' => w.count = Approved(r)
      BY <2>1, <2>2, <2>5, <3>3 DEF RatingHolds
    <3>5. Calm' => RatingHolds(Idle)'
      BY <1>1, <3>1, <3>3, <3>4 DEF RatingHolds, RatingStands, Approved
    <3> QED BY <1>1, <2>4, <3>2, <3>5, RatingTurned
  <2> QED BY <2>6, <2>7
<1> QED BY <1>3, <1>4, <1>5, <1>6, <1>7 DEF RatingsNext

-----------------------------------------------------------------------------
(* Sets and what is sold in parts *)

SetsWork == {Idle} \cup [op : {"components"}, set : Good, pieces : SUBSET Good]
            \cup [op : {"options"}, good : Good, parts : BOOLEAN]

\* What is about to be written keeps the two apart as well.
SetsHolds(w) ==
    /\ \A g \in Good : piece[g] \cap parted = {}
    /\ w.op = "components" => w.pieces \cap parted = {}
    /\ w.op = "options" /\ w.parts => \A s \in Good : w.good \notin piece[s]

SetsTyped == piece \in [Good -> SUBSET Good] /\ parted \subseteq Good

SetsInv ==
    /\ SetsTyped
    /\ subject = "sets" =>
          job \in [Job -> SetsWork] /\ (Calm => \A w \in SetsWork : OnWay(w) => SetsHolds(w))
    /\ subject # "sets" => SetsHolds(Idle)

LEMMA SetsWorkTyped ==
    ASSUME NEW w \in SetsWork
    PROVE  /\ w.op = "components" => w.set \in Good /\ w.pieces \subseteq Good
           /\ w.op = "options" => w.good \in Good /\ w.parts \in BOOLEAN
<1>1. CASE w = Idle
  BY <1>1 DEF Idle
<1>2. CASE w \in [op : {"components"}, set : Good, pieces : SUBSET Good]
  BY <1>2
<1>3. CASE w \in [op : {"options"}, good : Good, parts : BOOLEAN]
  BY <1>3
<1> QED BY <1>1, <1>2, <1>3 DEF SetsWork

LEMMA SetsInit == ASSUME Init PROVE SetsInv
<1>1. SetsTyped /\ SetsHolds(Idle)
  BY DEF Init, seedAttributes, SetsTyped, SetsHolds, Idle
<1>2. Idle \in SetsWork
  BY DEF SetsWork
<1> QED BY <1>1, <1>2, InitOnWay DEF SetsInv

LEMMA SetsTurned ==
    ASSUME Taken, SetsInv, subject = "sets", NEW j \in Job, NEW next \in SetsWork, Turns(j, next),
           SetsTyped', Calm' => SetsHolds(next)'
    PROVE  Taken' /\ SetsInv'
<1>1. job' \in [Job -> SetsWork]
  BY TurnOnWay DEF SetsInv
<1>2. ASSUME Calm', NEW w \in SetsWork, OnWay(w)'
      PROVE  SetsHolds(w)'
  <2>1. w = next
    BY <1>2, TurnOnWay
  <2> QED BY <1>2, <2>1
<1> QED BY <1>1, <1>2, TurnTaken DEF SetsInv, Turns

LEMMA SetsAside ==
    ASSUME Taken, SetsInv, Aside, UNCHANGED sets
    PROVE  SetsInv'
<1>1. ASSUME subject = "sets"
      PROVE  job' \in [Job -> SetsWork] /\ (Calm' => \A w \in SetsWork : OnWay(w)' => SetsHolds(w)')
  <2>1. Idle \in SetsWork /\ job \in [Job -> SetsWork]
    BY <1>1 DEF SetsWork, SetsInv
  <2>2. job' \in [Job -> SetsWork] /\ (Calm' => Calm /\ \A w : OnWay(w)' => OnWay(w))
    BY <2>1, AsideOnWay
  <2>3. \A w : SetsHolds(w)' <=> SetsHolds(w)
    BY DEF SetsHolds, sets
  <2> QED BY <1>1, <2>2, <2>3 DEF SetsInv
<1> QED BY <1>1 DEF SetsInv, SetsTyped, SetsHolds, Aside, sets

LEMMA SetsStep ==
    ASSUME Taken, SetsInv, subject = "sets", NEW j \in Job, SetsNext(j)
    PROVE  Taken' /\ SetsInv'
<1>1. Idle \in SetsWork /\ Idle.op = "idle" /\ SetsTyped
  BY DEF SetsWork, Idle, SetsInv
<1>2. Calm /\ OnWay(Idle) => SetsHolds(Idle)
  BY <1>1 DEF SetsInv
<1>3. ASSUME NEW s \in Good, NEW pieces \in SUBSET Good, setComponentsHandler(j, s, pieces)
      PROVE  Taken' /\ SetsInv'
  <2>1. CASE pieces = {}
    <3>1. Begin(j, Idle) /\ piece' = [piece EXCEPT ![s] = {}] /\ parted' = parted
      BY <1>3, <2>1 DEF setComponentsHandler
    <3>2. SetsTyped' /\ \A g \in Good : piece'[g] \in {piece[g], {}}
      BY <1>1, <3>1 DEF SetsTyped
    <3>3. Calm' => SetsHolds(Idle)'
      BY <1>1, <1>2, <3>1, <3>2, BeginOnWay DEF SetsHolds
    <3> QED BY <1>1, <3>1, <3>2, <3>3, BeginTurns, SetsTurned
  <2>2. CASE pieces # {}
    <3>1. PICK next \in SetsWork : next = [op |-> "components", set |-> s, pieces |-> pieces]
      BY DEF SetsWork
    <3>2. Begin(j, next) /\ UNCHANGED <<piece, parted>> /\ pieces \cap parted = {}
      BY <1>3, <2>2, <3>1 DEF setComponentsHandler, assertUsableComponents
    <3>3. Calm' => SetsHolds(next)'
      BY <1>1, <1>2, <3>1, <3>2, BeginOnWay DEF SetsHolds
    <3> QED BY <1>1, <3>2, <3>3, BeginTurns, SetsTurned DEF SetsTyped
  <2> QED BY <2>1, <2>2
<1>4. ASSUME NEW g \in Good, NEW parts \in BOOLEAN, setOptionsHandler(j, g, parts)
      PROVE  Taken' /\ SetsInv'
  <2>1. PICK next \in SetsWork : next = [op |-> "options", good |-> g, parts |-> parts]
    BY DEF SetsWork
  <2>2. Begin(j, next) /\ UNCHANGED <<piece, parted>> /\ (parts => \A s \in Good : g \notin piece[s])
    BY <1>4, <2>1 DEF setOptionsHandler, sets
  <2>3. Calm' => SetsHolds(next)'
    BY <1>1, <1>2, <2>1, <2>2, BeginOnWay DEF SetsHolds
  <2> QED BY <1>1, <2>2, <2>3, BeginTurns, SetsTurned DEF SetsTyped
<1>5. CASE writeComponents(j)
  <2>1. PICK w \in SetsWork : w = job[j] /\ w.op = "components" /\ Busy(j) /\ OnWay(w)
    BY <1>5, AtOnWay DEF writeComponents, At, SetsInv
  <2>2. Turns(j, Idle) /\ met' = met /\ piece' = [piece EXCEPT ![w.set] = w.pieces] /\ parted' = parted
    BY <1>5, <2>1, GotoTurns DEF writeComponents
  <2>3. SetsTyped' /\ \A g \in Good : piece'[g] \in {piece[g], w.pieces}
    BY <1>1, <2>1, <2>2, SetsWorkTyped DEF SetsTyped
  <2>4. Calm' => SetsHolds(w)
    BY <2>1, <2>2 DEF SetsInv, Calm
  <2>5. Calm' => SetsHolds(Idle)'
    BY <1>1, <2>1, <2>2, <2>3, <2>4 DEF SetsHolds
  <2> QED BY <1>1, <2>2, <2>3, <2>5, SetsTurned
<1>6. CASE WriteOptions(j)
  <2>1. PICK w \in SetsWork : w = job[j] /\ w.op = "options" /\ Busy(j) /\ OnWay(w)
    BY <1>6, AtOnWay DEF WriteOptions, At, SetsInv
  <2>2. /\ Turns(j, Idle) /\ met' = met /\ piece' = piece
        /\ parted' = IF w.parts THEN parted \cup {w.good} ELSE parted \ {w.good}
    BY <1>6, <2>1, GotoTurns DEF WriteOptions
  <2>3. SetsTyped'
    BY <1>1, <2>1, <2>2, SetsWorkTyped DEF SetsTyped
  <2>4. Calm' => SetsHolds(w)
    BY <2>1, <2>2 DEF SetsInv, Calm
  <2>5. Calm' => SetsHolds(Idle)'
    BY <1>1, <2>1, <2>2, <2>4 DEF SetsHolds
  <2> QED BY <1>1, <2>2, <2>3, <2>5, SetsTurned
<1> QED BY <1>3, <1>4, <1>5, <1>6 DEF SetsNext

-----------------------------------------------------------------------------
(* Attribute values *)

ValueWork == {Idle} \cup [op : {"value"}, value : Value] \cup [op : {"values_gone"}, values : SUBSET Value]
             \cup [op : {"ticks"}, good : Good, ticked : SUBSET Value]

\* What is about to go is nobody's.
ValueHolds(w) ==
    /\ has = given
    /\ \A g \in Good : has[g] \subseteq valued
    /\ w.op = "values_gone" => \A g \in Good : w.values \cap has[g] = {}

ValueTyped == valued \subseteq Value /\ has \in [Good -> SUBSET Value] /\ given \in [Good -> SUBSET Value]

ValueInv ==
    /\ ValueTyped
    /\ subject = "attributes" =>
          job \in [Job -> ValueWork] /\ (Calm => \A w \in ValueWork : OnWay(w) => ValueHolds(w))
    /\ subject # "attributes" => ValueHolds(Idle)

LEMMA ValueWorkTyped ==
    ASSUME NEW w \in ValueWork
    PROVE  /\ w.op = "value" => w.value \in Value
           /\ w.op = "values_gone" => w.values \subseteq Value
           /\ w.op = "ticks" => w.good \in Good /\ w.ticked \subseteq Value
<1>1. CASE w = Idle
  BY <1>1 DEF Idle
<1>2. CASE w \in [op : {"value"}, value : Value]
  BY <1>2
<1>3. CASE w \in [op : {"values_gone"}, values : SUBSET Value]
  BY <1>3
<1>4. CASE w \in [op : {"ticks"}, good : Good, ticked : SUBSET Value]
  BY <1>4
<1> QED BY <1>1, <1>2, <1>3, <1>4 DEF ValueWork

LEMMA ValueInit == ASSUME Init PROVE ValueInv
<1>1. PICK v \in Value : v = CHOOSE x \in Value : TRUE
  BY SetsAssumption
<1>2. ValueTyped /\ ValueHolds(Idle)
  BY <1>1 DEF Init, seedAttributes, ValueTyped, ValueHolds, Idle
<1>3. Idle \in ValueWork
  BY DEF ValueWork
<1> QED BY <1>2, <1>3, InitOnWay DEF ValueInv

LEMMA ValueTurned ==
    ASSUME Taken, ValueInv, subject = "attributes", NEW j \in Job, NEW next \in ValueWork, Turns(j, next),
           ValueTyped', Calm' => ValueHolds(next)'
    PROVE  Taken' /\ ValueInv'
<1>1. job' \in [Job -> ValueWork]
  BY TurnOnWay DEF ValueInv
<1>2. ASSUME Calm', NEW w \in ValueWork, OnWay(w)'
      PROVE  ValueHolds(w)'
  <2>1. w = next
    BY <1>2, TurnOnWay
  <2> QED BY <1>2, <2>1
<1> QED BY <1>1, <1>2, TurnTaken DEF ValueInv, Turns

LEMMA ValueAside ==
    ASSUME Taken, ValueInv, Aside, UNCHANGED attributes
    PROVE  ValueInv'
<1>1. ASSUME subject = "attributes"
      PROVE  job' \in [Job -> ValueWork] /\ (Calm' => \A w \in ValueWork : OnWay(w)' => ValueHolds(w)')
  <2>1. Idle \in ValueWork /\ job \in [Job -> ValueWork]
    BY <1>1 DEF ValueWork, ValueInv
  <2>2. job' \in [Job -> ValueWork] /\ (Calm' => Calm /\ \A w : OnWay(w)' => OnWay(w))
    BY <2>1, AsideOnWay
  <2>3. \A w : ValueHolds(w)' <=> ValueHolds(w)
    BY DEF ValueHolds, attributes
  <2> QED BY <1>1, <2>2, <2>3 DEF ValueInv
<1> QED BY <1>1 DEF ValueInv, ValueTyped, ValueHolds, Aside, attributes

LEMMA ValueStep ==
    ASSUME Taken, ValueInv, subject = "attributes", NEW j \in Job, AttributesNext(j)
    PROVE  Taken' /\ ValueInv'
<1>1. Idle \in ValueWork /\ Idle.op = "idle" /\ ValueTyped
  BY DEF ValueWork, Idle, ValueInv
<1>2. Calm /\ OnWay(Idle) => ValueHolds(Idle)
  BY <1>1 DEF ValueInv
<1>3. ASSUME NEW next \in ValueWork, Begin(j, next), UNCHANGED attributes,
             ValueHolds(Idle) => ValueHolds(next)
      PROVE  Taken' /\ ValueInv'
  <2>1. ValueTyped' /\ (ValueHolds(next) => ValueHolds(next)')
    BY <1>1, <1>3 DEF ValueTyped, ValueHolds, attributes
  <2> QED BY <1>2, <1>3, <2>1, BeginOnWay, BeginTurns, ValueTurned
<1>4. ASSUME NEW v \in Value, CreateValue(j, v)
      PROVE  Taken' /\ ValueInv'
  <2>1. PICK next \in ValueWork : next = [op |-> "value", value |-> v]
    BY DEF ValueWork
  <2>2. ValueHolds(Idle) => ValueHolds(next)
    BY <2>1 DEF ValueHolds
  <2> QED BY <1>3, <1>4, <2>1, <2>2 DEF CreateValue
<1>5. ASSUME NEW v \in Value, DeleteValue(j, v)
      PROVE  Taken' /\ ValueInv'
  <2>1. PICK next \in ValueWork : next = [op |-> "values_gone", values |-> {v}]
    BY DEF ValueWork
  <2>2. ValueHolds(Idle) => ValueHolds(next)
    BY <1>5, <2>1 DEF ValueHolds, DeleteValue, InUse
  <2> QED BY <1>3, <1>5, <2>1, <2>2 DEF DeleteValue
<1>6. CASE DeleteAttribute(j)
  <2>1. PICK next \in ValueWork : next = [op |-> "values_gone", values |-> Value]
    BY DEF ValueWork
  <2>2. ValueHolds(Idle) => ValueHolds(next)
    BY <1>6, <2>1 DEF ValueHolds, DeleteAttribute, InUse
  <2> QED BY <1>3, <1>6, <2>1, <2>2 DEF DeleteAttribute
<1>7. ASSUME NEW g \in Good, NEW ticked \in SUBSET Value, AssignValues(j, g, ticked)
      PROVE  Taken' /\ ValueInv'
  <2>1. PICK next \in ValueWork : next = [op |-> "ticks", good |-> g, ticked |-> ticked]
    BY DEF ValueWork
  <2>2. ValueHolds(Idle) => ValueHolds(next)
    BY <2>1 DEF ValueHolds
  <2> QED BY <1>3, <1>7, <2>1, <2>2 DEF AssignValues
<1>8. CASE AddValue(j)
  <2>1. PICK w \in ValueWork : w = job[j] /\ w.op = "value" /\ Busy(j) /\ OnWay(w)
    BY <1>8, AtOnWay DEF AddValue, At, ValueInv
  <2>2. Turns(j, Idle) /\ met' = met /\ valued' = valued \cup {w.value} /\ UNCHANGED <<has, given>>
    BY <1>8, <2>1, GotoTurns DEF AddValue
  <2>3. ValueTyped'
    BY <1>1, <2>1, <2>2, ValueWorkTyped DEF ValueTyped
  <2>4. Calm' => ValueHolds(w)
    BY <2>1, <2>2 DEF ValueInv, Calm
  <2>5. Calm' => ValueHolds(Idle)'
    BY <1>1, <2>2, <2>4 DEF ValueHolds
  <2> QED BY <1>1, <2>2, <2>3, <2>5, ValueTurned
<1>9. CASE RemoveValues(j)
  <2>1. PICK w \in ValueWork : w = job[j] /\ w.op = "values_gone" /\ Busy(j) /\ OnWay(w)
    BY <1>9, AtOnWay DEF RemoveValues, At, ValueInv
  <2>2. /\ Turns(j, Idle) /\ met' = met /\ valued' = valued \ w.values
        /\ has' = [g \in Good |-> has[g] \ w.values] /\ given' = given
    BY <1>9, <2>1, GotoTurns DEF RemoveValues
  <2>3. ValueTyped'
    BY <1>1, <2>2 DEF ValueTyped
  <2>4. Calm' => ValueHolds(w)
    BY <2>1, <2>2 DEF ValueInv, Calm
  <2>5. Calm' => has' = has
    BY <1>1, <2>1, <2>2, <2>4 DEF ValueHolds, ValueTyped
  <2>6. Calm' => ValueHolds(Idle)'
    BY <1>1, <2>1, <2>2, <2>4, <2>5 DEF ValueHolds
  <2> QED BY <1>1, <2>2, <2>3, <2>6, ValueTurned
<1>10. CASE WriteTicks(j)
  <2>1. PICK w \in ValueWork : w = job[j] /\ w.op = "ticks" /\ Busy(j) /\ OnWay(w)
    BY <1>10, AtOnWay DEF WriteTicks, At, ValueInv
  <2>2. Turns(j, Idle) /\ met' = met /\ valued' = valued
    BY <1>10, <2>1, GotoTurns DEF WriteTicks
  <2>3. /\ has' = IF w.ticked \subseteq valued THEN [has EXCEPT ![w.good] = w.ticked] ELSE has
        /\ given' = IF w.ticked \subseteq valued THEN [given EXCEPT ![w.good] = w.ticked] ELSE given
    BY <1>10, <2>1 DEF WriteTicks
  <2>4. ValueTyped'
    BY <1>1, <2>1, <2>2, <2>3, ValueWorkTyped DEF ValueTyped
  <2>5. Calm' => ValueHolds(w)
    BY <2>1, <2>2 DEF ValueInv, Calm
  <2>6. Calm' => ValueHolds(Idle)'
    <3>1. CASE w.ticked \subseteq valued
      BY <1>1, <2>2, <2>3, <2>5, <3>1 DEF ValueHolds, ValueTyped
    <3>2. CASE ~(w.ticked \subseteq valued)
      BY <1>1, <2>2, <2>3, <2>5, <3>2 DEF ValueHolds
    <3> QED BY <3>1, <3>2
  <2> QED BY <1>1, <2>2, <2>4, <2>6, ValueTurned
<1> QED BY <1>4, <1>5, <1>6, <1>7, <1>8, <1>9, <1>10 DEF AttributesNext

-----------------------------------------------------------------------------
(* The category tree *)

\* A category given another above it, which was not above that one, is not above
\* itself, and no other is.
LEMMA TreeGrows ==
    ASSUME NEW f, NEW c \in DOMAIN f, NEW p \in DOMAIN f, c \notin Following(f, p),
           \A d \in DOMAIN f : f[d] \in DOMAIN f => d \notin Following(f, f[d]),
           NEW g, DOMAIN g = DOMAIN f, g[c] = p, \A d \in DOMAIN f : d # c => g[d] = f[d]
    PROVE  \A d \in DOMAIN f : g[d] \in DOMAIN f => d \notin Following(g, g[d])
<1>1. /\ p \in Following(f, p) /\ Following(f, p) \subseteq DOMAIN f
      /\ \A u \in Following(f, p) : f[u] \in DOMAIN f => f[u] \in Following(f, p)
  BY FollowingFacts
<1>2. Following(g, p) \subseteq Following(f, p)
  BY <1>1, FollowingIsLeast
<1>3. ASSUME NEW d \in DOMAIN f, d # c, f[d] \in DOMAIN f
      PROVE  d \notin Following(g, f[d])
  <2>1. PICK e \in DOMAIN f : e = f[d]
    BY <1>3
  <2>2. /\ e \in Following(f, e) /\ Following(f, e) \subseteq DOMAIN f
        /\ \A u \in Following(f, e) : f[u] \in DOMAIN f => f[u] \in Following(f, e)
    BY FollowingFacts
  <2>3. d \notin Following(f, e)
    BY <2>1
  <2>4. CASE c \notin Following(f, e)
    <3>1. Following(g, e) \subseteq Following(f, e)
      BY <2>2, <2>4, FollowingIsLeast
    <3> QED BY <2>1, <2>3, <3>1
  <2>5. CASE c \in Following(f, e)
    <3>1. PICK S : S = Following(f, e) \cup Following(f, p)
      OBVIOUS
    <3>2. \A u \in S : g[u] \in DOMAIN g => g[u] \in S
      BY <1>1, <2>2, <3>1
    <3>3. S \in SUBSET DOMAIN g /\ e \in S
      BY <1>1, <2>2, <3>1
    <3>4. Following(g, e) \subseteq S
      BY <3>2, <3>3, FollowingIsLeast
    <3>5. d \notin Following(f, p)
      <4>1. SUFFICES ASSUME d \in Following(f, p)
                     PROVE  FALSE
        OBVIOUS
      <4>2. e \in Following(f, p)
        BY <1>1, <2>1, <4>1
      <4>3. Following(f, e) \subseteq Following(f, p)
        BY <4>2, FollowingFurther
      <4> QED BY <2>5, <4>3
    <3> QED BY <2>1, <2>3, <3>1, <3>4, <3>5
  <2> QED BY <2>4, <2>5
<1> QED BY <1>2, <1>3

\* Without some of what is above them, categories have no more above them.
LEMMA TreeShrinks ==
    ASSUME NEW f, NEW g, DOMAIN g = DOMAIN f,
           \A d \in DOMAIN f : f[d] \in DOMAIN f => d \notin Following(f, f[d]),
           \A d \in DOMAIN f : g[d] \in DOMAIN f => g[d] = f[d]
    PROVE  \A d \in DOMAIN f : g[d] \in DOMAIN f => d \notin Following(g, g[d])
<1> SUFFICES ASSUME NEW d \in DOMAIN f, g[d] \in DOMAIN f
             PROVE  d \notin Following(g, g[d])
  OBVIOUS
<1>1. PICK e \in DOMAIN f : e = g[d] /\ e = f[d]
  OBVIOUS
<1>2. Following(g, e) \subseteq Following(f, e)
  BY FollowingGrows
<1> QED BY <1>1, <1>2

TreeWork == {Idle} \cup [op : {"category"}, category : Category, to : Category \cup {None}]
            \cup [op : {"category_gone"}, category : Category]

\* A category that is there has one above it that is there.
TreeTyped ==
    /\ parent \in [Category -> Category \cup {None, "absent"}]
    /\ \A c \in Category : parent[c] \in Category => parent[c] \in Filed

\* No category is above itself, nor will be by the move that is on its way.
TreeHolds(w) ==
    /\ \A c \in Category : parent[c] \in Category => c \notin Ancestors(parent[c])
    /\ w.op = "category" /\ w.to # None => w.category \notin Ancestors(w.to)

TreeInv ==
    /\ TreeTyped
    /\ subject = "categories" =>
          job \in [Job -> TreeWork] /\ (Calm => \A w \in TreeWork : OnWay(w) => TreeHolds(w))
    /\ subject # "categories" => TreeHolds(Idle)

LEMMA TreeWorkTyped ==
    ASSUME NEW w \in TreeWork
    PROVE  /\ w.op = "category" => w.category \in Category /\ w.to \in Category \cup {None}
           /\ w.op = "category_gone" => w.category \in Category
<1>1. CASE w = Idle
  BY <1>1 DEF Idle
<1>2. CASE w \in [op : {"category"}, category : Category, to : Category \cup {None}]
  BY <1>2
<1>3. CASE w \in [op : {"category_gone"}, category : Category]
  BY <1>3
<1> QED BY <1>1, <1>2, <1>3 DEF TreeWork

LEMMA TreeInit == ASSUME Init PROVE TreeInv
<1>1. parent = [c \in Category |-> IF c = Top THEN None ELSE Top]
  BY DEF Init, seedCategories
<1>2. TreeTyped
  BY <1>1, ShelvesAssumption DEF TreeTyped, Filed
<1>3. Ancestors(Top) \subseteq {Top}
  <2>1. PICK S : S = {Top}
    OBVIOUS
  <2>2. S \in SUBSET DOMAIN parent /\ Top \in S /\ \A u \in S : parent[u] \in DOMAIN parent => parent[u] \in S
    BY <1>1, <2>1, ShelvesAssumption
  <2> QED BY <2>1, <2>2, FollowingIsLeast DEF Ancestors
<1>4. TreeHolds(Idle)
  BY <1>1, <1>3, ShelvesAssumption DEF TreeHolds, Idle
<1>5. Idle \in TreeWork
  BY DEF TreeWork
<1> QED BY <1>2, <1>4, <1>5, InitOnWay DEF TreeInv

LEMMA TreeTurned ==
    ASSUME Taken, TreeInv, subject = "categories", NEW j \in Job, NEW next \in TreeWork, Turns(j, next),
           TreeTyped', Calm' => TreeHolds(next)'
    PROVE  Taken' /\ TreeInv'
<1>1. job' \in [Job -> TreeWork]
  BY TurnOnWay DEF TreeInv
<1>2. ASSUME Calm', NEW w \in TreeWork, OnWay(w)'
      PROVE  TreeHolds(w)'
  <2>1. w = next
    BY <1>2, TurnOnWay
  <2> QED BY <1>2, <2>1
<1> QED BY <1>1, <1>2, TurnTaken DEF TreeInv, Turns

LEMMA TreeAside ==
    ASSUME Taken, TreeInv, Aside, parent' = parent
    PROVE  TreeInv'
<1>1. \A w : TreeHolds(w)' <=> TreeHolds(w)
  BY DEF TreeHolds, Ancestors, Following
<1>2. ASSUME subject = "categories"
      PROVE  job' \in [Job -> TreeWork] /\ (Calm' => \A w \in TreeWork : OnWay(w)' => TreeHolds(w)')
  <2>1. Idle \in TreeWork /\ job \in [Job -> TreeWork]
    BY <1>2 DEF TreeWork, TreeInv
  <2>2. job' \in [Job -> TreeWork] /\ (Calm' => Calm /\ \A w : OnWay(w)' => OnWay(w))
    BY <2>1, AsideOnWay
  <2> QED BY <1>1, <1>2, <2>2 DEF TreeInv
<1>3. TreeTyped'
  BY DEF TreeInv, TreeTyped, Filed
<1> QED BY <1>1, <1>2, <1>3 DEF TreeInv, Aside

\* One edge more, which leads nowhere back.
LEMMA TreeLinked ==
    ASSUME TreeTyped, TreeHolds(Idle), NEW c \in Category, NEW p \in Category, c \notin Ancestors(p),
           parent' = [parent EXCEPT ![c] = p]
    PROVE  TreeHolds(Idle)'
<1>1. PICK f : f = parent
  OBVIOUS
<1>2. PICK g : g = parent'
  OBVIOUS
<1>3. /\ DOMAIN f = Category /\ DOMAIN g = Category /\ g[c] = p
      /\ \A d \in Category : d # c => g[d] = f[d]
  BY <1>1, <1>2 DEF TreeTyped
<1>4. c \notin Following(f, p) /\ \A d \in Category : f[d] \in Category => d \notin Following(f, f[d])
  BY <1>1 DEF TreeHolds, Ancestors
<1>5. \A d \in Category : g[d] \in Category => d \notin Following(g, g[d])
  BY <1>3, <1>4, TreeGrows
<1> QED BY <1>2, <1>5 DEF TreeHolds, Ancestors, Idle

LEMMA TreeCut ==
    ASSUME TreeTyped, TreeHolds(Idle), parent' \in [Category -> Category \cup {None, "absent"}],
           \A d \in Category : parent'[d] \in Category => parent'[d] = parent[d]
    PROVE  TreeHolds(Idle)'
<1>1. PICK f : f = parent
  OBVIOUS
<1>2. PICK g : g = parent'
  OBVIOUS
<1>3. /\ DOMAIN f = Category /\ DOMAIN g = Category
      /\ \A d \in Category : g[d] \in Category => g[d] = f[d]
  BY <1>1, <1>2 DEF TreeTyped
<1>4. \A d \in Category : f[d] \in Category => d \notin Following(f, f[d])
  BY <1>1 DEF TreeHolds, Ancestors
<1>5. \A d \in Category : g[d] \in Category => d \notin Following(g, g[d])
  BY <1>3, <1>4, TreeShrinks
<1> QED BY <1>2, <1>5 DEF TreeHolds, Ancestors, Idle

LEMMA TreeStep ==
    ASSUME Taken, TreeInv, subject = "categories", NEW j \in Job, CategoriesNext(j)
    PROVE  Taken' /\ TreeInv'
<1>1. Idle \in TreeWork /\ Idle.op = "idle" /\ TreeTyped
  BY DEF TreeWork, Idle, TreeInv
<1>2. Calm /\ OnWay(Idle) => TreeHolds(Idle)
  BY <1>1 DEF TreeInv
<1>3. ASSUME NEW next \in TreeWork, Begin(j, next), parent' = parent,
             TreeHolds(Idle) => TreeHolds(next)
      PROVE  Taken' /\ TreeInv'
  <2>1. TreeTyped' /\ (TreeHolds(next) => TreeHolds(next)')
    BY <1>1, <1>3 DEF TreeTyped, Filed, TreeHolds, Ancestors, Following
  <2> QED BY <1>2, <1>3, <2>1, BeginOnWay, BeginTurns, TreeTurned
<1>4. ASSUME NEW c \in Category, NEW p \in Category \cup {None}, CreateCategory(j, c, p)
      PROVE  Taken' /\ TreeInv'
  <2>1. /\ parent[c] = "absent" /\ p \in Filed \cup {None} /\ Begin(j, Idle)
        /\ parent' = [parent EXCEPT ![c] = p]
    BY <1>4 DEF CreateCategory
  <2>2. TreeTyped'
    BY <1>1, <2>1, ShelvesAssumption DEF TreeTyped, Filed
  <2>3. ASSUME TreeHolds(Idle)
        PROVE  TreeHolds(Idle)'
    <3>1. CASE p = None
      <4>1. parent' \in [Category -> Category \cup {None, "absent"}]
        BY <2>2 DEF TreeTyped
      <4>2. \A d \in Category : parent'[d] \in Category => parent'[d] = parent[d]
        BY <1>1, <2>1, <3>1, ShelvesAssumption DEF TreeTyped
      <4> QED BY <1>1, <2>3, <4>1, <4>2, TreeCut
    <3>2. CASE p \in Filed
      <4>1. Ancestors(p) \subseteq Filed
        <5>1. PICK S : S = Filed
          OBVIOUS
        <5>2. /\ S \in SUBSET DOMAIN parent /\ p \in S
              /\ \A u \in S : parent[u] \in DOMAIN parent => parent[u] \in S
          BY <1>1, <3>2, <5>1 DEF TreeTyped, Filed
        <5> QED BY <5>1, <5>2, FollowingIsLeast DEF Ancestors
      <4>2. c \notin Ancestors(p) /\ p \in Category
        BY <2>1, <3>2, <4>1 DEF Filed
      <4> QED BY <1>1, <2>1, <2>3, <4>2, TreeLinked
    <3> QED BY <2>1, <3>1, <3>2
  <2> QED BY <1>1, <1>2, <2>1, <2>2, <2>3, BeginOnWay, BeginTurns, TreeTurned
<1>5. ASSUME NEW c \in Category, NEW p \in Category \cup {None}, UpdateCategory(j, c, p)
      PROVE  Taken' /\ TreeInv'
  <2>1. PICK next \in TreeWork : next = [op |-> "category", category |-> c, to |-> p]
    BY DEF TreeWork
  <2>2. Begin(j, next) /\ parent' = parent /\ (p # None => c \notin Ancestors(p))
    BY <1>5, <2>1 DEF UpdateCategory
  <2>3. TreeHolds(Idle) => TreeHolds(next)
    BY <2>1, <2>2 DEF TreeHolds
  <2> QED BY <1>3, <2>2, <2>3
<1>6. ASSUME NEW c \in Category, DeleteCategory(j, c)
      PROVE  Taken' /\ TreeInv'
  <2>1. PICK next \in TreeWork : next = [op |-> "category_gone", category |-> c]
    BY DEF TreeWork
  <2>2. Begin(j, next) /\ parent' = parent
    BY <1>6, <2>1 DEF DeleteCategory
  <2>3. TreeHolds(Idle) => TreeHolds(next)
    BY <2>1 DEF TreeHolds
  <2> QED BY <1>3, <2>2, <2>3
<1>7. CASE WriteCategory(j)
  <2>1. PICK w \in TreeWork : w = job[j] /\ w.op = "category" /\ Busy(j) /\ OnWay(w)
    BY <1>7, AtOnWay DEF WriteCategory, At, TreeInv
  <2>2. PICK c \in Category, p \in Category \cup {None} : c = w.category /\ p = w.to
    BY <2>1, TreeWorkTyped
  <2>3. /\ Turns(j, Idle) /\ met' = met
        /\ parent' = IF c \in Filed /\ p \in Filed \cup {None} THEN [parent EXCEPT ![c] = p] ELSE parent
    BY <1>7, <2>1, <2>2, GotoTurns DEF WriteCategory
  <2>4. TreeTyped'
    BY <1>1, <2>3, ShelvesAssumption DEF TreeTyped, Filed
  <2>5. ASSUME Calm'
        PROVE  TreeHolds(Idle)'
    <3>1. TreeHolds(w)
      BY <2>1, <2>3, <2>5 DEF TreeInv, Calm
    <3>2. TreeHolds(Idle) /\ (p # None => c \notin Ancestors(p))
      BY <1>1, <2>1, <2>2, <3>1 DEF TreeHolds
    <3>3. CASE p = None \/ parent' = parent
      <4>1. parent' \in [Category -> Category \cup {None, "absent"}]
        BY <2>4 DEF TreeTyped
      <4>2. \A d \in Category : parent'[d] \in Category => parent'[d] = parent[d]
        BY <1>1, <2>3, <3>3, ShelvesAssumption DEF TreeTyped
      <4> QED BY <1>1, <3>2, <4>1, <4>2, TreeCut
    <3>4. CASE p # None /\ parent' = [parent EXCEPT ![c] = p]
      BY <1>1, <3>2, <3>4, TreeLinked
    <3> QED BY <2>3, <3>3, <3>4
  <2> QED BY <1>1, <2>3, <2>4, <2>5, TreeTurned
<1>8. CASE RemoveCategory(j)
  <2>1. PICK w \in TreeWork : w = job[j] /\ w.op = "category_gone" /\ Busy(j) /\ OnWay(w)
    BY <1>8, AtOnWay DEF RemoveCategory, At, TreeInv
  <2>2. PICK c \in Category : c = w.category
    BY <2>1, TreeWorkTyped
  <2>3. /\ Turns(j, Idle) /\ met' = met
        /\ parent' = [d \in Category |-> IF d = c THEN "absent"
                                         ELSE IF parent[d] = c THEN None ELSE parent[d]]
    BY <1>8, <2>1, <2>2, GotoTurns DEF RemoveCategory
  <2>4. TreeTyped'
    BY <1>1, <2>3, ShelvesAssumption DEF TreeTyped, Filed
  <2>5. ASSUME Calm'
        PROVE  TreeHolds(Idle)'
    <3>1. TreeHolds(w)
      BY <2>1, <2>3, <2>5 DEF TreeInv, Calm
    <3>2. TreeHolds(Idle)
      BY <1>1, <3>1 DEF TreeHolds
    <3>3. parent' \in [Category -> Category \cup {None, "absent"}]
      BY <2>4 DEF TreeTyped
    <3>4. \A d \in Category : parent'[d] \in Category => parent'[d] = parent[d]
      BY <1>1, <2>3, ShelvesAssumption DEF TreeTyped
    <3> QED BY <1>1, <3>2, <3>3, <3>4, TreeCut
  <2> QED BY <1>1, <2>3, <2>4, <2>5, TreeTurned
<1> QED BY <1>4, <1>5, <1>6, <1>7, <1>8 DEF CategoriesNext

-----------------------------------------------------------------------------
(* Collections *)

ShelfWork == {Idle} \cup [op : {"members", "empty", "archive_it", "delete_it"}]
             \cup [op : {"collection"}, status : CollectionStatus, members : BOOLEAN, first : BOOLEAN]

\* A request that is on its way knows whether the collection has been launched.
ShelfHolds(w) ==
    collection # None =>
        /\ w.op = "collection" => (w.first <=> collection.published = None)
        /\ w.op = "delete_it" => collection.published = None

ShelfInv ==
    /\ collection \in Collection \cup {None}
    /\ subject = "collection" =>
          /\ job \in [Job -> ShelfWork]
          /\ "request" \notin met => \A w \in ShelfWork : OnWay(w) => ShelfHolds(w)

LEMMA ShelfWorkTyped ==
    ASSUME NEW w \in ShelfWork, w.op = "collection"
    PROVE  w.status \in CollectionStatus /\ w.members \in BOOLEAN /\ w.first \in BOOLEAN
<1>1. CASE w = Idle
  BY <1>1 DEF Idle
<1>2. CASE w \in [op : {"members", "empty", "archive_it", "delete_it"}]
  BY <1>2
<1>3. CASE w \in [op : {"collection"}, status : CollectionStatus, members : BOOLEAN, first : BOOLEAN]
  BY <1>3
<1> QED BY <1>1, <1>2, <1>3 DEF ShelfWork

LEMMA ShelfInit == ASSUME Init PROVE ShelfInv
<1>1. Idle \in ShelfWork /\ collection = None
  BY DEF Init, ShelfWork
<1> QED BY <1>1, InitOnWay DEF ShelfInv, ShelfHolds

LEMMA ShelfTurned ==
    ASSUME Taken, ShelfInv, subject = "collection", NEW j \in Job, NEW next \in ShelfWork, Turns(j, next),
           collection' \in Collection \cup {None}, "request" \notin met' => ShelfHolds(next)'
    PROVE  Taken' /\ ShelfInv'
<1>1. job' \in [Job -> ShelfWork]
  BY TurnOnWay DEF ShelfInv
<1>2. ASSUME "request" \notin met', NEW w \in ShelfWork, OnWay(w)'
      PROVE  ShelfHolds(w)'
  <2>1. w = next
    BY <1>2, TurnOnWay
  <2> QED BY <1>2, <2>1
<1>3. (collection \in Collection \cup {None})'
  BY DEF Collection, CollectionStatus, Time
<1> QED BY <1>1, <1>2, <1>3, TurnTaken DEF ShelfInv, Turns

LEMMA ShelfAside ==
    ASSUME Taken, ShelfInv, Aside, collection' = collection
    PROVE  ShelfInv'
<1>1. ASSUME subject = "collection"
      PROVE  /\ job' \in [Job -> ShelfWork]
             /\ "request" \notin met' => \A w \in ShelfWork : OnWay(w)' => ShelfHolds(w)'
  <2>1. Idle \in ShelfWork /\ job \in [Job -> ShelfWork]
    BY <1>1 DEF ShelfWork, ShelfInv
  <2>2. \A w : ShelfHolds(w)' <=> ShelfHolds(w)
    BY DEF ShelfHolds
  <2>3. CASE job' = job
    BY <1>1, <2>1, <2>2, <2>3 DEF ShelfInv, Aside, OnWay, Busy
  <2>4. CASE job' = [j \in Job |-> Idle]
    <3>1. \A w : OnWay(w)' => w = Idle
      BY <2>4 DEF OnWay
    <3>2. ShelfHolds(Idle)'
      BY DEF ShelfHolds, Idle
    <3>3. job' \in [Job -> ShelfWork]
      BY <2>1, <2>4
    <3> QED BY <3>1, <3>2, <3>3
  <2> QED BY <2>3, <2>4 DEF Aside
<1>2. (collection \in Collection \cup {None})'
  BY DEF ShelfInv, Collection, CollectionStatus, Time
<1> QED BY <1>1, <1>2 DEF ShelfInv, Aside

\* A collection that has been launched keeps its day and is not deleted.
CollectionKept ==
    "request" \notin met' /\ collection # None /\ collection.published # None =>
        collection' # None /\ collection'.published = collection.published

LEMMA ShelfStep ==
    ASSUME Taken, ShelfInv, subject = "collection", NEW j \in Job, CollectionsNext(j)
    PROVE  Taken' /\ ShelfInv' /\ CollectionKept
<1>1. Idle \in ShelfWork /\ Idle.op = "idle"
  BY DEF ShelfWork, Idle
<1>2. collection \in Collection \cup {None} /\ clock \in Time /\ clock # None
  BY HandlersAssumption DEF ShelfInv, Taken, Time
<1>3. ASSUME NEW s \in CollectionStatus, CreateCollection(j, s)
      PROVE  Taken' /\ ShelfInv' /\ CollectionKept
  <2>1. PICK next \in ShelfWork : next = [op |-> "members"]
    BY DEF ShelfWork
  <2>2. Begin(j, next) /\ collection = None /\ collection' \in Collection
    BY <1>2, <1>3, <2>1 DEF CreateCollection, Collection
  <2>3. ShelfHolds(next)'
    BY <2>1 DEF ShelfHolds
  <2> QED BY <2>2, <2>3, BeginTurns, ShelfTurned DEF CollectionKept
<1>4. ASSUME NEW s \in CollectionStatus, NEW m \in BOOLEAN, PatchCollection(j, s, m)
      PROVE  Taken' /\ ShelfInv' /\ CollectionKept
  <2>1. PICK next \in ShelfWork :
            next = [op |-> "collection", status |-> s, members |-> m, first |-> collection.published = None]
    BY DEF ShelfWork
  <2>2. Begin(j, next) /\ collection' = collection
    BY <1>4, <2>1 DEF PatchCollection
  <2>3. ShelfHolds(next)'
    BY <2>1, <2>2 DEF ShelfHolds
  <2> QED BY <1>2, <2>2, <2>3, BeginTurns, ShelfTurned DEF CollectionKept
<1>5. CASE WriteCollection(j)
  <2>1. PICK w \in ShelfWork : w = job[j] /\ w.op = "collection" /\ Busy(j) /\ OnWay(w)
    BY <1>5, AtOnWay DEF WriteCollection, At, ShelfInv
  <2>2. PICK next \in ShelfWork :
            next = IF collection # None /\ w.members THEN [op |-> "empty"] ELSE Idle
    BY <1>1 DEF ShelfWork
  <2>3. Turns(j, next) /\ met' = met /\ ShelfHolds(next)'
    BY <1>1, <1>5, <2>1, <2>2, GotoTurns DEF WriteCollection, ShelfHolds
  <2>4. CASE collection = None
    BY <1>5, <2>2, <2>3, <2>4, ShelfTurned DEF WriteCollection, CollectionKept
  <2>5. CASE collection # None
    <3>1. PICK a : a = [collection EXCEPT !.status = w.status]
      OBVIOUS
    <3>2. PICK t \in Time \cup {None} :
              t = IF w.status = "ACTIVE" /\ w.first THEN clock ELSE collection.published
      BY <1>2, <2>5 DEF Collection
    <3>3. collection' = [a EXCEPT !.published = t]
      <4>1. collection' = [collection EXCEPT !.status = w.status,
                              !.published = IF w.status = "ACTIVE" /\ w.first THEN clock ELSE @]
        BY <1>5, <2>1, <2>5 DEF WriteCollection
      <4> QED BY <3>1, <3>2, <4>1
    <3>4. collection' \in Collection /\ collection'.published = t
      <4>1. a \in Collection
        BY <1>2, <2>1, <2>5, <3>1, ShelfWorkTyped DEF Collection
      <4> QED BY <3>3, <4>1 DEF Collection
    <3>5. "request" \notin met' /\ collection.published # None => t = collection.published
      BY <2>1, <2>3, <2>5, <3>2 DEF ShelfInv, ShelfHolds
    <3>6. CollectionKept
      <4>1. ASSUME "request" \notin met', collection.published # None
            PROVE  collection'.published = collection.published /\ collection' # None
        <5>1. collection'.published = collection.published
          BY <3>4, <3>5, <4>1
        <5>2. collection' # None
          BY <3>4, CollectionsAssumption
        <5> QED BY <5>1, <5>2
      <4> QED BY <4>1 DEF CollectionKept
    <3> QED BY <2>3, <3>4, <3>6, ShelfTurned
  <2> QED BY <2>4, <2>5
<1>6. ASSUME NEW was \in {"empty", "members"}, NEW next \in ShelfWork, next.op \in {"members", "idle"},
             NEW b \in BOOLEAN, At(j, was), Goto(j, next),
             collection' = IF collection = None THEN None ELSE [collection EXCEPT !.filled = b]
      PROVE  Taken' /\ ShelfInv' /\ CollectionKept
  <2>1. Turns(j, next)
    BY <1>6, AtOnWay, GotoTurns
  <2>2. /\ collection' \in Collection \cup {None}
        /\ collection # None => collection' \in Collection /\ collection'.published = collection.published
    BY <1>2, <1>6 DEF Collection
  <2>3. ShelfHolds(next)'
    BY <1>6 DEF ShelfHolds
  <2>4. CollectionKept
    BY <2>2, CollectionsAssumption DEF CollectionKept
  <2> QED BY <2>1, <2>2, <2>3, <2>4, ShelfTurned
<1>7. CASE EmptyCollection(j)
  <2>1. PICK next \in ShelfWork : next = [op |-> "members"]
    BY DEF ShelfWork
  <2> QED BY <1>6, <1>7, <2>1 DEF EmptyCollection
<1>8. CASE FillCollection(j)
  BY <1>1, <1>6, <1>8 DEF FillCollection
<1>9. CASE DeleteCollection(j)
  <2>1. PICK next \in ShelfWork :
            next = [op |-> IF collection.published # None THEN "archive_it" ELSE "delete_it"]
    BY DEF ShelfWork
  <2>2. Begin(j, next) /\ collection' = collection
    BY <1>9, <2>1 DEF DeleteCollection
  <2>3. ShelfHolds(next)'
    BY <2>1, <2>2 DEF ShelfHolds
  <2> QED BY <1>2, <2>2, <2>3, BeginTurns, ShelfTurned DEF CollectionKept
<1>10. CASE RemoveCollection(j)
  <2>1. PICK w \in ShelfWork : w = job[j] /\ w.op \in {"archive_it", "delete_it"} /\ Busy(j) /\ OnWay(w)
    BY <1>10, AtOnWay DEF RemoveCollection, At, ShelfInv
  <2>2. Turns(j, Idle) /\ met' = met /\ ShelfHolds(Idle)'
    BY <1>1, <1>10, <2>1, GotoTurns DEF RemoveCollection, ShelfHolds
  <2>3. CASE w.op = "archive_it"
    <3>1. collection' = IF collection = None THEN None ELSE [collection EXCEPT !.status = "ARCHIVED"]
      BY <1>10, <2>1, <2>3 DEF RemoveCollection, At
    <3>2. /\ collection' \in Collection \cup {None}
          /\ collection # None => collection' \in Collection /\ collection'.published = collection.published
      BY <1>2, <3>1 DEF Collection, CollectionStatus
    <3>3. CollectionKept
      BY <3>2, CollectionsAssumption DEF CollectionKept
    <3> QED BY <1>1, <2>2, <3>2, <3>3, ShelfTurned
  <2>4. CASE w.op = "delete_it"
    <3>1. collection' = None
      BY <1>10, <2>1, <2>4 DEF RemoveCollection, At
    <3>2. "request" \notin met' /\ collection # None => collection.published = None
      BY <2>1, <2>2, <2>4 DEF ShelfInv, ShelfHolds
    <3> QED BY <1>1, <2>2, <3>1, <3>2, ShelfTurned DEF CollectionKept
  <2> QED BY <2>1, <2>3, <2>4
<1> QED BY <1>3, <1>4, <1>5, <1>7, <1>8, <1>9, <1>10 DEF CollectionsNext

-----------------------------------------------------------------------------
(* The address book *)

LEMMA OneDefault ==
    ASSUME NEW b, \A x, y \in Defaults(b) : x = y
    PROVE  Cardinality(Defaults(b)) <= 1
<1>1. CASE Defaults(b) = {}
  BY <1>1, FS_EmptySet
<1>2. CASE Defaults(b) # {}
  <2>1. PICK x : x \in Defaults(b)
    BY <1>2
  <2>2. Defaults(b) = {x}
    BY <2>1
  <2> QED BY <2>2, FS_Singleton
<1> QED BY <1>1, <1>2

BookStates == {"absent", "plain", "default"}
BookWork ==
    {Idle} \cup [op : {"address", "write_address"}, address : Address, new : BOOLEAN,
                 to : {"default", "plain", "keep"}, cleared : SUBSET Address]
    \cup [op : {"address_gone"}, address : Address, was : BookStates] \cup [op : {"next_default"}]
    \cup [op : {"promote"}, address : Address]

\* There is one default as long as nobody took it away, but for the moment between
\* the default's going and the next one's turn; and what is on its way found the
\* book as it is.
BookHolds(w) ==
    /\ \A a, b \in Address : book[a] = "default" /\ book[b] = "default" => a = b
    /\ w.op \notin {"next_default", "promote"} /\ ~unticked /\ (\E a \in Address : book[a] # "absent") =>
          \E a \in Address : book[a] = "default"
    /\ w.op \in {"next_default", "promote"} => \A a \in Address : book[a] # "default"
    /\ w.op = "promote" => book[w.address] # "absent"
    /\ w.op = "address_gone" => w.was = book[w.address]
    /\ w.op \in {"address", "write_address"} =>
          /\ w.new <=> book[w.address] = "absent"
          /\ w.new => w.to # "keep" /\ (w.to = "plain" => \E a \in Address : book[a] # "absent")
    /\ w.op = "write_address" => /\ w.to = "default" => w.cleared = Rows(book)
                                 /\ w.to # "default" => w.cleared = {}

BookTyped == book \in [Address -> BookStates] /\ unticked \in BOOLEAN

BookInv ==
    /\ BookTyped
    /\ subject = "addresses" =>
          job \in [Job -> BookWork] /\ (Calm => \A w \in BookWork : OnWay(w) => BookHolds(w))
    /\ subject # "addresses" => BookHolds(Idle)

LEMMA BookWorkTyped ==
    ASSUME NEW w \in BookWork
    PROVE  /\ w.op \in {"address", "write_address"} =>
                 w \in [op : {"address", "write_address"}, address : Address, new : BOOLEAN,
                        to : {"default", "plain", "keep"}, cleared : SUBSET Address]
           /\ w.op \in {"address_gone", "promote"} => w.address \in Address
           /\ w.op = "address_gone" => w.was \in BookStates
<1>1. CASE w = Idle
  BY <1>1 DEF Idle
<1>2. CASE w \in [op : {"address", "write_address"}, address : Address, new : BOOLEAN,
                 to : {"default", "plain", "keep"}, cleared : SUBSET Address]
  BY <1>2
<1>3. CASE w \in [op : {"address_gone"}, address : Address, was : BookStates]
  BY <1>3
<1>4. CASE w \in [op : {"next_default"}]
  BY <1>4
<1>5. CASE w \in [op : {"promote"}, address : Address]
  BY <1>5
<1> QED BY <1>1, <1>2, <1>3, <1>4, <1>5 DEF BookWork

LEMMA BookInit == ASSUME Init PROVE BookInv
<1>1. BookTyped /\ BookHolds(Idle)
  BY DEF Init, NewCustomer, BookTyped, BookStates, BookHolds, Idle
<1>2. Idle \in BookWork
  BY DEF BookWork
<1> QED BY <1>1, <1>2, InitOnWay DEF BookInv

LEMMA BookTurned ==
    ASSUME Taken, BookInv, subject = "addresses", NEW j \in Job, NEW next \in BookWork, Turns(j, next),
           BookTyped', Calm' => BookHolds(next)'
    PROVE  Taken' /\ BookInv'
<1>1. job' \in [Job -> BookWork]
  BY TurnOnWay DEF BookInv
<1>2. ASSUME Calm', NEW w \in BookWork, OnWay(w)'
      PROVE  BookHolds(w)'
  <2>1. w = next
    BY <1>2, TurnOnWay
  <2> QED BY <1>2, <2>1
<1> QED BY <1>1, <1>2, TurnTaken DEF BookInv, Turns

LEMMA BookAside ==
    ASSUME Taken, BookInv, Aside, UNCHANGED addresses
    PROVE  BookInv'
<1>1. \A w : BookHolds(w)' <=> BookHolds(w)
  BY DEF BookHolds, addresses, Rows
<1>2. ASSUME subject = "addresses"
      PROVE  job' \in [Job -> BookWork] /\ (Calm' => \A w \in BookWork : OnWay(w)' => BookHolds(w)')
  <2>1. Idle \in BookWork /\ job \in [Job -> BookWork]
    BY <1>2 DEF BookWork, BookInv
  <2>2. job' \in [Job -> BookWork] /\ (Calm' => Calm /\ \A w : OnWay(w)' => OnWay(w))
    BY <2>1, AsideOnWay
  <2> QED BY <1>1, <1>2, <2>2 DEF BookInv
<1> QED BY <1>1, <1>2 DEF BookInv, BookTyped, Aside, addresses

LEMMA BookStep ==
    ASSUME Taken, BookInv, subject = "addresses", NEW j \in Job, AddressesNext(j)
    PROVE  Taken' /\ BookInv'
<1>1. Idle \in BookWork /\ Idle.op = "idle" /\ BookTyped
  BY DEF BookWork, Idle, BookInv
<1>2. Calm /\ OnWay(Idle) => BookHolds(Idle)
  BY <1>1 DEF BookInv
<1>3. ASSUME NEW next \in BookWork, Begin(j, next), UNCHANGED <<book, unticked>>,
             BookHolds(Idle) => BookHolds(next)
      PROVE  Taken' /\ BookInv'
  <2>1. BookTyped' /\ (BookHolds(next) => BookHolds(next)')
    BY <1>1, <1>3 DEF BookTyped, BookHolds, Rows
  <2> QED BY <1>2, <1>3, <2>1, BeginOnWay, BeginTurns, BookTurned
<1>4. ASSUME NEW a \in Address, NEW ticked \in BOOLEAN, CreateAddress(j, a, ticked)
      PROVE  Taken' /\ BookInv'
  <2>1. PICK to \in {"default", "plain"} : to = Mark(ticked \/ Rows(book) = {})
    BY DEF Mark
  <2>2. PICK next \in BookWork :
            next = [op |-> "address", address |-> a, new |-> TRUE, to |-> to, cleared |-> {}]
    BY <2>1 DEF BookWork
  <2>3. Begin(j, next) /\ UNCHANGED <<book, unticked>> /\ book[a] = "absent"
    BY <1>4, <2>1, <2>2 DEF CreateAddress, addresses
  <2>4. to = "plain" => \E b \in Address : book[b] # "absent"
    BY <1>1, <2>1 DEF Mark, Rows, BookTyped
  <2>5. BookHolds(Idle) => BookHolds(next)
    BY <1>1, <2>1, <2>2, <2>3, <2>4 DEF BookHolds
  <2> QED BY <1>3, <2>3, <2>5
<1>5. ASSUME NEW a \in Address, NEW to \in {"default", "plain", "keep"}, PatchAddress(j, a, to)
      PROVE  Taken' /\ BookInv'
  <2>1. PICK next \in BookWork :
            next = [op |-> "address", address |-> a, new |-> FALSE, to |-> to, cleared |-> {}]
    BY DEF BookWork
  <2>2. Begin(j, next) /\ UNCHANGED <<book, unticked>> /\ book[a] # "absent"
    BY <1>5, <2>1 DEF PatchAddress, addresses
  <2>3. BookHolds(Idle) => BookHolds(next)
    BY <1>1, <2>1, <2>2 DEF BookHolds
  <2> QED BY <1>3, <2>2, <2>3
<1>6. ASSUME NEW a \in Address, DeleteAddress(j, a)
      PROVE  Taken' /\ BookInv'
  <2>1. PICK next \in BookWork : next = [op |-> "address_gone", address |-> a, was |-> book[a]]
    BY <1>1 DEF BookWork, BookTyped
  <2>2. Begin(j, next) /\ UNCHANGED <<book, unticked>>
    BY <1>6, <2>1 DEF DeleteAddress, addresses
  <2>3. BookHolds(Idle) => BookHolds(next)
    BY <1>1, <2>1 DEF BookHolds
  <2> QED BY <1>3, <2>2, <2>3
<1>7. CASE ClearDefaults(j)
  <2>1. PICK w \in BookWork : w = job[j] /\ w.op = "address" /\ Busy(j) /\ OnWay(w)
    BY <1>7, AtOnWay DEF ClearDefaults, At, BookInv
  <2>2. w \in [op : {"address", "write_address"}, address : Address, new : BOOLEAN,
               to : {"default", "plain", "keep"}, cleared : SUBSET Address]
    BY <2>1, BookWorkTyped
  <2>3. PICK C \in SUBSET Address : C = IF w.to = "default" THEN Rows(book) ELSE {}
    BY <1>1 DEF Rows, BookTyped
  <2>4. PICK v : v = [w EXCEPT !.op = "write_address"]
    OBVIOUS
  <2>5. PICK next : next = [v EXCEPT !.cleared = C]
    OBVIOUS
  <2>6. /\ next \in BookWork /\ next.op = "write_address" /\ next.address = w.address
        /\ next.new = w.new /\ next.to = w.to /\ next.cleared = C
    <3>1. next \in [op : {"address", "write_address"}, address : Address, new : BOOLEAN,
                    to : {"default", "plain", "keep"}, cleared : SUBSET Address]
      BY <2>2, <2>3, <2>4, <2>5
    <3>2. next \in BookWork
      BY <3>1 DEF BookWork
    <3> QED BY <2>2, <2>4, <2>5, <3>2
  <2>7. Goto(j, next) /\ UNCHANGED <<book, unticked>>
    BY <1>7, <2>1, <2>3, <2>4, <2>5 DEF ClearDefaults, addresses
  <2>8. Turns(j, next) /\ met' = met
    BY <2>1, <2>7, GotoTurns
  <2>9. Calm' => BookHolds(w)
    BY <2>1, <2>8 DEF BookInv, Calm
  <2>10. Calm' => BookHolds(next)'
    BY <2>1, <2>3, <2>6, <2>7, <2>9 DEF BookHolds, Rows
  <2>11. BookTyped'
    BY <1>1, <2>7 DEF BookTyped
  <2> QED BY <2>6, <2>8, <2>10, <2>11, BookTurned
<1>8. CASE WriteAddress(j)
  <2>1. PICK w \in BookWork : w = job[j] /\ w.op = "write_address" /\ Busy(j) /\ OnWay(w)
    BY <1>8, AtOnWay DEF WriteAddress, At, BookInv
  <2>2. w \in [op : {"address", "write_address"}, address : Address, new : BOOLEAN,
               to : {"default", "plain", "keep"}, cleared : SUBSET Address]
    BY <2>1, BookWorkTyped
  <2>3. PICK a \in Address : a = w.address
    BY <2>2
  <2>4. Turns(j, Idle) /\ met' = met
    BY <1>8, <2>1, GotoTurns DEF WriteAddress
  <2>5. CASE ~w.new /\ book[a] = "absent"
    <3>1. book' = book
      BY <1>8, <2>1, <2>3, <2>5 DEF WriteAddress
    <3>2. unticked' = unticked
      BY <1>1, <1>8, <2>1, <2>3, <2>5 DEF WriteAddress, BookTyped
    <3>3. BookTyped'
      BY <1>1, <3>1, <3>2 DEF BookTyped
    <3>4. Calm' => BookHolds(w)
      BY <2>1, <2>4 DEF BookInv, Calm
    <3>5. ~Calm'
      BY <2>1, <2>3, <2>5, <3>4 DEF BookHolds
    <3> QED BY <1>1, <2>4, <3>3, <3>5, BookTurned
  <2>6. CASE w.new \/ book[a] # "absent"
    <3>1. \A b \in Address :
              book'[b] = CASE b = a -> IF w.to = "keep" THEN book[b] ELSE w.to
                           [] b # a /\ b \in w.cleared /\ book[b] # "absent" -> "plain"
                           [] OTHER -> book[b]
      BY <1>8, <2>1, <2>3, <2>6 DEF WriteAddress
    <3>2. /\ book'[a] = IF w.to = "keep" THEN book[a] ELSE w.to
          /\ \A b \in Address : b # a =>
                book'[b] = IF b \in w.cleared /\ book[b] # "absent" THEN "plain" ELSE book[b]
      BY <3>1
    <3>3. book' = [b \in Address |-> book'[b]]
      <4>1. book' = [b \in Address |->
                               CASE b = a -> IF w.to = "keep" THEN book[b] ELSE w.to
                                 [] b # a /\ b \in w.cleared /\ book[b] # "absent" -> "plain"
                                 [] OTHER -> book[b]]
        BY <1>8, <2>1, <2>3, <2>6 DEF WriteAddress
      <4> QED BY <4>1
    <3>4. unticked' = (unticked \/ (book[a] = "default" /\ w.to = "plain"))
      BY <1>1, <1>8, <2>1, <2>3, <2>6 DEF WriteAddress, BookTyped
    <3>5. BookTyped'
      <4>1. \A b \in Address : book'[b] \in BookStates
        BY <1>1, <2>2, <3>2 DEF BookTyped, BookStates
      <4> QED BY <1>1, <3>3, <3>4, <4>1 DEF BookTyped
    <3>6. ASSUME Calm'
          PROVE  BookHolds(Idle)'
      <4>1. BookHolds(w)
        BY <2>1, <2>4, <3>6 DEF BookInv, Calm
      <4>2. CASE w.to = "default"
        <5>1. book'[a] = "default" /\ \A b \in Address : b # a => book'[b] # "default"
          BY <1>1, <2>1, <3>2, <4>1, <4>2 DEF BookHolds, Rows, BookTyped
        <5> QED BY <1>1, <5>1 DEF BookHolds
      <4>3. CASE w.to # "default"
        <5>1. \A b \in Address : b # a => book'[b] = book[b]
          BY <2>1, <3>2, <4>1, <4>3 DEF BookHolds
        <5>2. book'[a] = IF w.to = "keep" THEN book[a] ELSE "plain"
          BY <2>2, <3>2, <4>3
        <5>3. w.new => w.to = "plain" /\ book[a] = "absent" /\ \E b \in Address : book[b] # "absent"
          BY <2>1, <2>2, <2>3, <4>1, <4>3 DEF BookHolds
        <5>4. \A b, c \in Address : book'[b] = "default" /\ book'[c] = "default" => b = c
          BY <2>1, <4>1, <5>1, <5>2, ZenonT(90) DEF BookHolds
        <5>5. ASSUME ~unticked'
              PROVE  \E b \in Address : book'[b] = "default"
          <6>1. ~unticked /\ ~(book[a] = "default" /\ w.to = "plain")
            BY <1>1, <3>4, <5>5 DEF BookTyped
          <6>2. \E b \in Address : book[b] # "absent"
            BY <2>6, <5>3
          <6>3. PICK b \in Address : book[b] = "default"
            BY <2>1, <4>1, <6>1, <6>2 DEF BookHolds
          <6> QED BY <2>2, <4>3, <5>1, <5>2, <6>1, <6>3
        <5> QED BY <1>1, <5>4, <5>5 DEF BookHolds
      <4> QED BY <4>2, <4>3
    <3> QED BY <1>1, <2>4, <3>5, <3>6, BookTurned
  <2> QED BY <2>2, <2>5, <2>6
<1>9. CASE RemoveAddress(j)
  <2>1. PICK w \in BookWork : w = job[j] /\ w.op = "address_gone" /\ Busy(j) /\ OnWay(w)
    BY <1>9, AtOnWay DEF RemoveAddress, At, BookInv
  <2>2. PICK a \in Address : a = w.address
    BY <2>1, BookWorkTyped
  <2>3. PICK next \in BookWork :
            next = IF book[a] # "absent" /\ w.was = "default" THEN [op |-> "next_default"] ELSE Idle
    BY <1>1 DEF BookWork
  <2>4. Turns(j, next) /\ met' = met /\ book' = [book EXCEPT ![a] = "absent"] /\ unticked' = unticked
    BY <1>9, <2>1, <2>2, <2>3, GotoTurns DEF RemoveAddress
  <2>5. /\ BookTyped' /\ book'[a] = "absent"
        /\ \A b \in Address : b # a => book'[b] = book[b]
    BY <1>1, <2>4 DEF BookTyped, BookStates
  <2>6. ASSUME Calm'
        PROVE  BookHolds(next)'
    <3>1. BookHolds(w)
      BY <2>1, <2>4, <2>6 DEF BookInv, Calm
    <3>2. w.was = book[a]
      BY <2>1, <2>2, <3>1 DEF BookHolds
    <3>3. CASE book[a] = "default"
      <4>1. next.op = "next_default" /\ \A b \in Address : book'[b] # "default"
        BY <2>1, <2>3, <2>5, <3>1, <3>2, <3>3 DEF BookHolds
      <4> QED BY <4>1 DEF BookHolds
    <3>4. CASE book[a] # "default"
      <4>1. next = Idle
        BY <2>3, <3>2, <3>4
      <4>2. (\E b \in Address : book'[b] # "absent") => \E b \in Address : book[b] # "absent"
        BY <2>5
      <4>3. (\E b \in Address : book[b] = "default") => \E b \in Address : book'[b] = "default"
        BY <2>5, <3>4
      <4> QED BY <1>1, <2>1, <2>4, <2>5, <3>1, <4>1, <4>2, <4>3, ZenonT(90) DEF BookHolds
    <3> QED BY <3>3, <3>4
  <2> QED BY <2>4, <2>5, <2>6, BookTurned
<1>10. CASE FindNextDefault(j)
  <2>1. PICK w \in BookWork : w = job[j] /\ w.op = "next_default" /\ Busy(j) /\ OnWay(w)
    BY <1>10, AtOnWay DEF FindNextDefault, At, BookInv
  <2>2. UNCHANGED <<book, unticked>>
    BY <1>10 DEF FindNextDefault, addresses
  <2>3. BookTyped'
    BY <1>1, <2>2 DEF BookTyped
  <2>4. CASE Rows(book) = {}
    <3>1. Turns(j, Idle) /\ met' = met
      BY <1>10, <2>1, <2>4, GotoTurns DEF FindNextDefault
    <3>2. \A b \in Address : book'[b] = "absent"
      BY <1>1, <2>2, <2>4 DEF Rows, BookTyped
    <3>3. BookHolds(Idle)'
      BY <1>1, <3>2 DEF BookHolds
    <3> QED BY <1>1, <2>3, <3>1, <3>3, BookTurned
  <2>5. CASE Rows(book) # {}
    <3>1. PICK a \in Rows(book) : Goto(j, [op |-> "promote", address |-> a])
      BY <1>10, <2>5 DEF FindNextDefault
    <3>2. a \in Address /\ book[a] # "absent"
      BY <1>1, <3>1 DEF Rows, BookTyped
    <3>3. PICK next \in BookWork : next = [op |-> "promote", address |-> a]
      BY <3>2 DEF BookWork
    <3>4. Turns(j, next) /\ met' = met
      BY <2>1, <3>1, <3>3, GotoTurns
    <3>5. Calm' => BookHolds(w)
      BY <2>1, <3>4 DEF BookInv, Calm
    <3>6. Calm' => BookHolds(next)'
      BY <2>1, <2>2, <3>2, <3>3, <3>5 DEF BookHolds
    <3> QED BY <2>3, <3>4, <3>6, BookTurned
  <2> QED BY <2>4, <2>5
<1>11. CASE PromoteAddress(j)
  <2>1. PICK w \in BookWork : w = job[j] /\ w.op = "promote" /\ Busy(j) /\ OnWay(w)
    BY <1>11, AtOnWay DEF PromoteAddress, At, BookInv
  <2>2. PICK a \in Address : a = w.address
    BY <2>1, BookWorkTyped
  <2>3. /\ Turns(j, Idle) /\ met' = met /\ unticked' = unticked
        /\ book' = [book EXCEPT ![a] = IF @ = "absent" THEN @ ELSE "default"]
    BY <1>11, <2>1, <2>2, GotoTurns DEF PromoteAddress
  <2>4. /\ BookTyped' /\ book'[a] = IF book[a] = "absent" THEN "absent" ELSE "default"
        /\ \A b \in Address : b # a => book'[b] = book[b]
    BY <1>1, <2>3 DEF BookTyped, BookStates
  <2>5. ASSUME Calm'
        PROVE  BookHolds(Idle)'
    <3>1. BookHolds(w)
      BY <2>1, <2>3, <2>5 DEF BookInv, Calm
    <3>2. book'[a] = "default" /\ \A b \in Address : b # a => book'[b] # "default"
      BY <2>1, <2>2, <2>4, <3>1 DEF BookHolds
    <3> QED BY <1>1, <3>2 DEF BookHolds
  <2> QED BY <1>1, <2>3, <2>4, <2>5, BookTurned
<1> QED BY <1>4, <1>5, <1>6, <1>7, <1>8, <1>9, <1>10, <1>11 DEF AddressesNext

-----------------------------------------------------------------------------
(* Shipping zones *)

MethodStates == {"absent", "on", "off"}
ZoneWork == {Idle} \cup [op : {"clear_zones", "zone_off", "zone_gone"}, zone : Zone]
            \cup [op : {"method"}, zone : Zone, was : MethodStates, to : MethodStates]

\* Two zones are the default only until the other is cleared; and what goes was on
\* no order, unless a customer has met the request.
ZoneHolds(w) ==
    /\ w.op # "clear_zones" => \A y, z \in Zone : zone[y] = "default" /\ zone[z] = "default" => y = z
    /\ "sale" \notin met =>
          /\ \A z \in used : method[z] # "absent"
          /\ w.op = "zone_gone" \/ (w.op = "method" /\ w.to = "absent") => w.zone \notin used

ZoneTyped == zone \in [Zone -> BookStates] /\ method \in [Zone -> MethodStates] /\ used \subseteq Zone

ZoneInv ==
    /\ ZoneTyped
    /\ subject = "zones" =>
          job \in [Job -> ZoneWork] /\ (Calm => \A w \in ZoneWork : OnWay(w) => ZoneHolds(w))
    /\ subject # "zones" => ZoneHolds(Idle)

LEMMA ZoneWorkTyped ==
    ASSUME NEW w \in ZoneWork
    PROVE  /\ w.op \in {"clear_zones", "zone_off", "zone_gone"} => w.zone \in Zone
           /\ w.op = "method" => w.zone \in Zone /\ w.to \in MethodStates
<1>1. CASE w = Idle
  BY <1>1 DEF Idle
<1>2. CASE w \in [op : {"clear_zones", "zone_off", "zone_gone"}, zone : Zone]
  BY <1>2
<1>3. CASE w \in [op : {"method"}, zone : Zone, was : MethodStates, to : MethodStates]
  BY <1>3
<1> QED BY <1>1, <1>2, <1>3 DEF ZoneWork

LEMMA ZoneInit == ASSUME Init PROVE ZoneInv
<1>1. zone = [z \in Zone |-> Mark(z = India)] /\ method = [z \in Zone |-> "on"] /\ used = {}
  BY DEF Init, seedShipping
<1>2. ZoneTyped /\ ZoneHolds(Idle)
  BY <1>1 DEF ZoneTyped, BookStates, MethodStates, ZoneHolds, Mark, Idle
<1>3. Idle \in ZoneWork
  BY DEF ZoneWork
<1> QED BY <1>2, <1>3, InitOnWay DEF ZoneInv

LEMMA ZoneTurned ==
    ASSUME Taken, ZoneInv, subject = "zones", NEW j \in Job, NEW next \in ZoneWork, Turns(j, next),
           ZoneTyped', Calm' => ZoneHolds(next)'
    PROVE  Taken' /\ ZoneInv'
<1>1. job' \in [Job -> ZoneWork]
  BY TurnOnWay DEF ZoneInv
<1>2. ASSUME Calm', NEW w \in ZoneWork, OnWay(w)'
      PROVE  ZoneHolds(w)'
  <2>1. w = next
    BY <1>2, TurnOnWay
  <2> QED BY <1>2, <2>1
<1> QED BY <1>1, <1>2, TurnTaken DEF ZoneInv, Turns

LEMMA ZoneAside ==
    ASSUME Taken, ZoneInv, Aside, UNCHANGED zones
    PROVE  ZoneInv'
<1>1. \A w : ZoneHolds(w) => ZoneHolds(w)'
  BY DEF ZoneHolds, zones, Aside
<1>2. ASSUME subject = "zones"
      PROVE  job' \in [Job -> ZoneWork] /\ (Calm' => \A w \in ZoneWork : OnWay(w)' => ZoneHolds(w)')
  <2>1. Idle \in ZoneWork /\ job \in [Job -> ZoneWork]
    BY <1>2 DEF ZoneWork, ZoneInv
  <2>2. job' \in [Job -> ZoneWork] /\ (Calm' => Calm /\ \A w : OnWay(w)' => OnWay(w))
    BY <2>1, AsideOnWay
  <2> QED BY <1>1, <1>2, <2>2 DEF ZoneInv
<1> QED BY <1>1, <1>2 DEF ZoneInv, ZoneTyped, Aside, zones

LEMMA ZoneSold ==
    ASSUME Taken, ZoneInv, NEW z \in Zone, Deliver(z)
    PROVE  Taken' /\ ZoneInv'
<1>1. /\ Aside /\ job' = job /\ subject = "zones" /\ used' = used \cup {z}
      /\ method[z] = "on" /\ UNCHANGED <<zone, method>>
  BY BesideIsAside DEF Deliver, Beside, Met
<1>2. Idle \in ZoneWork /\ job \in [Job -> ZoneWork] /\ ZoneTyped /\ Idle.op = "idle"
  BY <1>1 DEF ZoneWork, ZoneInv, Idle
<1>3. job' \in [Job -> ZoneWork] /\ (Calm' => Calm /\ \A w : OnWay(w)' => OnWay(w))
  BY <1>1, <1>2, AsideOnWay
<1>4. ZoneTyped'
  BY <1>1, <1>2 DEF ZoneTyped
<1>5. ASSUME NEW w \in ZoneWork, ZoneHolds(w), OnWay(w)
      PROVE  ZoneHolds(w)'
  <2>1. CASE \E j \in Job : Busy(j)
    <3>1. "sale" \in met'
      BY <2>1 DEF Deliver, Beside
    <3> QED BY <1>1, <1>5, <3>1 DEF ZoneHolds
  <2>2. CASE ~\E j \in Job : Busy(j)
    <3>1. w = Idle
      BY <1>5, <2>2 DEF OnWay
    <3> QED BY <1>1, <1>2, <1>5, <3>1 DEF ZoneHolds, Aside
  <2> QED BY <2>1, <2>2
<1> QED BY <1>1, <1>3, <1>4, <1>5, AsideTaken DEF ZoneInv, Aside

LEMMA ZoneStep ==
    ASSUME Taken, ZoneInv, subject = "zones", NEW j \in Job, ZonesNext(j)
    PROVE  Taken' /\ ZoneInv'
<1>1. Idle \in ZoneWork /\ Idle.op = "idle" /\ ZoneTyped
  BY DEF ZoneWork, Idle, ZoneInv
<1>2. Calm /\ OnWay(Idle) => ZoneHolds(Idle)
  BY <1>1 DEF ZoneInv
<1>3. ASSUME NEW next \in ZoneWork, Begin(j, next), UNCHANGED zones,
             ZoneHolds(Idle) => ZoneHolds(next)
      PROVE  Taken' /\ ZoneInv'
  <2>1. ZoneTyped'
    BY <1>1, <1>3 DEF ZoneTyped, zones
  <2>2. Calm' => ZoneHolds(next)
    BY <1>2, <1>3, BeginOnWay
  <2>3. Calm' => ZoneHolds(next)'
    BY <1>3, <2>2, BeginOnWay DEF ZoneHolds, zones
  <2> QED BY <1>3, <2>1, <2>3, BeginTurns, ZoneTurned
<1>4. ASSUME NEW z \in Zone, NEW b \in BOOLEAN, CreateZone(j, z, b) \/ PatchZone(j, z, b)
      PROVE  Taken' /\ ZoneInv'
  <2>1. PICK next \in ZoneWork : next = IF b THEN [op |-> "clear_zones", zone |-> z] ELSE Idle
    BY <1>1 DEF ZoneWork
  <2>2. /\ Begin(j, next) /\ zone' = [zone EXCEPT ![z] = IF b THEN "default" ELSE "plain"]
        /\ UNCHANGED <<method, used>>
    BY <1>4, <2>1 DEF CreateZone, PatchZone, Mark
  <2>3. ZoneTyped' /\ zone'[z] = (IF b THEN "default" ELSE "plain") /\ \A y \in Zone : y # z => zone'[y] = zone[y]
    BY <1>1, <2>2 DEF ZoneTyped, BookStates
  <2>4. ASSUME Calm'
        PROVE  ZoneHolds(next)'
    <3>1. ZoneHolds(Idle) /\ met' = met
      BY <1>2, <2>2, <2>4, BeginOnWay
    <3>2. next.op \in {"clear_zones", "idle"} /\ (next.op = "idle" => ~b)
      BY <1>1, <2>1
    <3>3. ~b => \A y, x \in Zone : zone'[y] = "default" /\ zone'[x] = "default" => y = x
      BY <1>1, <2>3, <3>1 DEF ZoneHolds
    <3>4. "sale" \notin met => \A y \in used : method[y] # "absent"
      BY <3>1 DEF ZoneHolds
    <3> QED BY <2>2, <3>1, <3>2, <3>3, <3>4 DEF ZoneHolds
  <2> QED BY <2>2, <2>3, <2>4, BeginTurns, ZoneTurned
<1>5. ASSUME NEW z \in Zone, DeleteZone(j, z)
      PROVE  Taken' /\ ZoneInv'
  <2>1. PICK next \in ZoneWork : next = [op |-> IF z \in used THEN "zone_off" ELSE "zone_gone", zone |-> z]
    BY DEF ZoneWork
  <2>2. ZoneHolds(Idle) => ZoneHolds(next)
    BY <1>1, <2>1 DEF ZoneHolds
  <2> QED BY <1>3, <1>5, <2>1, <2>2 DEF DeleteZone
<1>6. ASSUME NEW z \in Zone, NEW was \in MethodStates, NEW to \in MethodStates, to = "absent" => z \notin used,
             Begin(j, [op |-> "method", zone |-> z, was |-> was, to |-> to]), UNCHANGED zones
      PROVE  Taken' /\ ZoneInv'
  <2>1. PICK next \in ZoneWork : next = [op |-> "method", zone |-> z, was |-> was, to |-> to]
    BY DEF ZoneWork
  <2>2. ZoneHolds(Idle) => ZoneHolds(next)
    BY <1>1, <1>6, <2>1 DEF ZoneHolds
  <2> QED BY <1>3, <1>6, <2>1, <2>2
<1>7. ASSUME NEW z \in Zone, CreateMethod(j, z) \/ DeleteMethod(j, z)
      PROVE  Taken' /\ ZoneInv'
  <2>1. method[z] \in MethodStates
    BY <1>1 DEF ZoneTyped
  <2>2. CASE CreateMethod(j, z)
    <3>1. PICK was \in MethodStates, to \in MethodStates : was = "absent" /\ to = "on"
      BY DEF MethodStates
    <3> QED BY <1>6, <2>2, <3>1 DEF CreateMethod
  <2>3. CASE DeleteMethod(j, z)
    <3>1. PICK was \in MethodStates, to \in MethodStates :
              was = method[z] /\ to = IF z \in used THEN "off" ELSE "absent"
      BY <2>1 DEF MethodStates
    <3>2. to = "absent" => z \notin used
      BY <3>1
    <3>3. Begin(j, [op |-> "method", zone |-> z, was |-> was, to |-> to]) /\ UNCHANGED zones
      BY <2>3, <3>1 DEF DeleteMethod
    <3> QED BY <1>6, <3>2, <3>3
  <2> QED BY <1>7, <2>2, <2>3
<1>8. ASSUME NEW z \in Zone, NEW to \in {"on", "off"}, PatchMethod(j, z, to)
      PROVE  Taken' /\ ZoneInv'
  <2>1. method[z] \in MethodStates /\ to \in MethodStates /\ to # "absent"
    BY <1>1 DEF ZoneTyped, MethodStates
  <2>2. Begin(j, [op |-> "method", zone |-> z, was |-> method[z], to |-> to]) /\ UNCHANGED zones
    BY <1>8 DEF PatchMethod
  <2> QED BY <1>6, <2>1, <2>2
<1>9. CASE clearOtherDefaults(j)
  <2>1. PICK w \in ZoneWork : w = job[j] /\ w.op = "clear_zones" /\ Busy(j) /\ OnWay(w)
    BY <1>9, AtOnWay DEF clearOtherDefaults, At, ZoneInv
  <2>2. PICK z \in Zone : z = w.zone
    BY <2>1, ZoneWorkTyped
  <2>3. /\ Turns(j, Idle) /\ met' = met /\ UNCHANGED <<method, used>>
        /\ zone' = [y \in Zone |-> IF y # z /\ zone[y] # "absent" THEN "plain" ELSE zone[y]]
    BY <1>9, <2>1, <2>2, GotoTurns DEF clearOtherDefaults
  <2>4. ZoneTyped'
    BY <1>1, <2>3 DEF ZoneTyped, BookStates
  <2>5. \A y \in Zone : zone'[y] = "default" => y = z
    BY <2>3
  <2>6. Calm' => ZoneHolds(w)
    BY <2>1, <2>3 DEF ZoneInv, Calm
  <2>7. Calm' => ZoneHolds(Idle)'
    BY <1>1, <2>1, <2>3, <2>5, <2>6 DEF ZoneHolds
  <2> QED BY <1>1, <2>3, <2>4, <2>7, ZoneTurned
<1>10. CASE SwitchOffMethods(j)
  <2>1. PICK w \in ZoneWork : w = job[j] /\ w.op = "zone_off" /\ Busy(j) /\ OnWay(w)
    BY <1>10, AtOnWay DEF SwitchOffMethods, At, ZoneInv
  <2>2. PICK z \in Zone : z = w.zone
    BY <2>1, ZoneWorkTyped
  <2>3. /\ Turns(j, Idle) /\ met' = met /\ UNCHANGED <<zone, used>>
        /\ method' = [method EXCEPT ![z] = IF @ = "absent" THEN @ ELSE "off"]
    BY <1>10, <2>1, <2>2, GotoTurns DEF SwitchOffMethods
  <2>4. ZoneTyped' /\ \A y \in Zone : method'[y] = "absent" => method[y] = "absent"
    BY <1>1, <2>3 DEF ZoneTyped, MethodStates
  <2>5. Calm' => ZoneHolds(w)
    BY <2>1, <2>3 DEF ZoneInv, Calm
  <2>6. Calm' => ZoneHolds(Idle)'
    BY <1>1, <2>1, <2>3, <2>4, <2>5 DEF ZoneHolds, ZoneTyped
  <2> QED BY <1>1, <2>3, <2>4, <2>6, ZoneTurned
<1>11. CASE RemoveZone(j)
  <2>1. PICK w \in ZoneWork : w = job[j] /\ w.op = "zone_gone" /\ Busy(j) /\ OnWay(w)
    BY <1>11, AtOnWay DEF RemoveZone, At, ZoneInv
  <2>2. PICK z \in Zone : z = w.zone
    BY <2>1, ZoneWorkTyped
  <2>3. /\ Turns(j, Idle) /\ met' = met /\ used' = used
        /\ zone' = [zone EXCEPT ![z] = "absent"] /\ method' = [method EXCEPT ![z] = "absent"]
    BY <1>11, <2>1, <2>2, GotoTurns DEF RemoveZone
  <2>4. /\ ZoneTyped' /\ zone'[z] = "absent"
        /\ \A y \in Zone : y # z => method'[y] = method[y] /\ zone'[y] = zone[y]
    BY <1>1, <2>3 DEF ZoneTyped, BookStates, MethodStates
  <2>5. Calm' => ZoneHolds(w)
    BY <2>1, <2>3 DEF ZoneInv, Calm
  <2>6. Calm' => ZoneHolds(Idle)'
    BY <1>1, <2>1, <2>2, <2>3, <2>4, <2>5, ZenonT(90) DEF ZoneHolds, ZoneTyped
  <2> QED BY <1>1, <2>3, <2>4, <2>6, ZoneTurned
<1>12. CASE WriteMethod(j)
  <2>1. PICK w \in ZoneWork : w = job[j] /\ w.op = "method" /\ Busy(j) /\ OnWay(w)
    BY <1>12, AtOnWay DEF WriteMethod, At, ZoneInv
  <2>2. PICK z \in Zone, to \in MethodStates : z = w.zone /\ to = w.to
    BY <2>1, ZoneWorkTyped
  <2>3. /\ Turns(j, Idle) /\ met' = met /\ UNCHANGED <<zone, used>>
        /\ method' = [method EXCEPT ![z] = to] \/ method' = method
    BY <1>12, <2>1, <2>2, GotoTurns DEF WriteMethod
  <2>4. /\ ZoneTyped' /\ method'[z] \in {method[z], to}
        /\ \A y \in Zone : y # z => method'[y] = method[y]
    BY <1>1, <2>3 DEF ZoneTyped
  <2>5. Calm' => ZoneHolds(w)
    BY <2>1, <2>3 DEF ZoneInv, Calm
  <2>6. Calm' => ZoneHolds(Idle)'
    BY <1>1, <2>1, <2>2, <2>3, <2>4, <2>5 DEF ZoneHolds, ZoneTyped
  <2> QED BY <1>1, <2>3, <2>4, <2>6, ZoneTurned
<1> QED BY <1>4, <1>5, <1>7, <1>8, <1>9, <1>10, <1>11, <1>12 DEF ZonesNext

-----------------------------------------------------------------------------
(* Products *)

VariantStates == {"absent", "ACTIVE", "INACTIVE"}
StatusPatch   == [status : ProductStatus]
ProductWork ==
    {Idle} \cup [op : {"product"}, patch : ProductPatch \cup StatusPatch, first : BOOLEAN]
    \cup [op : {"archive", "delete"}] \cup [op : {"new_variant"}, variant : Variant]
    \cup [op : {"variant"}, variant : Variant, to : {"INACTIVE", "absent"}]

\* The product is an offer and keeps a variant, now and after what is about to be
\* written; and what goes was not sold, unless a customer has met the request.
ProductHolds(w) ==
    /\ product # None => IsOffer(product) /\ \E v \in Variant : variant[v] # "absent"
    /\ w.op = "product" /\ product # None => IsOffer(Merge(w.patch, product))
    /\ w.op = "variant" /\ product # None => \E v \in Variant : v # w.variant /\ variant[v] # "absent"
    /\ "sale" \notin met =>
          /\ \A v \in sold : product # None /\ variant[v] # "absent"
          /\ w.op = "delete" => sold = {}
          /\ w.op = "variant" /\ w.to = "absent" => w.variant \notin sold

ProductTyped == product \in Product \cup {None} /\ variant \in [Variant -> VariantStates] /\ sold \subseteq Variant

ProductInv ==
    /\ ProductTyped
    /\ subject = "product" =>
          job \in [Job -> ProductWork] /\ (Calm => \A w \in ProductWork : OnWay(w) => ProductHolds(w))
    /\ subject # "product" => ProductHolds(Idle)

LEMMA ProductWorkTyped ==
    ASSUME NEW w \in ProductWork
    PROVE  /\ w.op = "product" => w.patch \in ProductPatch \cup StatusPatch
           /\ w.op \in {"new_variant", "variant"} => w.variant \in Variant
           /\ w.op = "variant" => w.to \in {"INACTIVE", "absent"}
<1>1. CASE w = Idle
  BY <1>1 DEF Idle
<1>2. CASE w \in [op : {"product"}, patch : ProductPatch \cup StatusPatch, first : BOOLEAN]
  BY <1>2
<1>3. CASE w \in [op : {"archive", "delete"}]
  BY <1>3
<1>4. CASE w \in [op : {"new_variant"}, variant : Variant]
  BY <1>4
<1>5. CASE w \in [op : {"variant"}, variant : Variant, to : {"INACTIVE", "absent"}]
  BY <1>5
<1> QED BY <1>1, <1>2, <1>3, <1>4, <1>5 DEF ProductWork

LEMMA ProductMerged ==
    ASSUME NEW patch \in ProductPatch \cup StatusPatch, NEW r \in Product
    PROVE  /\ Merge(patch, r) \in Product
           /\ Merge(patch, r).price = IF "price" \in DOMAIN patch THEN patch.price ELSE r.price
           /\ Merge(patch, r).compareAt = IF "compareAt" \in DOMAIN patch THEN patch.compareAt ELSE r.compareAt
           /\ patch \in StatusPatch => "price" \notin DOMAIN patch /\ "compareAt" \notin DOMAIN patch
<1>1. DOMAIN r = {"status", "price", "compareAt", "scheduled", "published"}
  BY DEF Product
<1>2. Merge(patch, r) = [status    |-> IF "status" \in DOMAIN patch THEN patch.status ELSE r.status,
                         price     |-> IF "price" \in DOMAIN patch THEN patch.price ELSE r.price,
                         compareAt |-> IF "compareAt" \in DOMAIN patch THEN patch.compareAt ELSE r.compareAt,
                         scheduled |-> IF "scheduled" \in DOMAIN patch THEN patch.scheduled ELSE r.scheduled,
                         published |-> IF "published" \in DOMAIN patch THEN patch.published ELSE r.published]
  BY <1>1 DEF Merge
<1>3. MaxTime \in Time
  BY HandlersAssumption DEF Time
<1>4. /\ "status" \in DOMAIN patch => patch.status \in ProductStatus
      /\ "price" \in DOMAIN patch => patch.price \in Price
      /\ "compareAt" \in DOMAIN patch => patch.compareAt \in Price \cup {None}
      /\ "scheduled" \in DOMAIN patch => patch.scheduled \in Time \cup {None}
      /\ "published" \notin DOMAIN patch
  <2>1. CASE patch \in StatusPatch
    BY <2>1 DEF StatusPatch
  <2>2. CASE patch \in ProductPatch
    BY <2>2, <1>3 DEF ProductPatch, ProductStatus
  <2> QED BY <2>1, <2>2
<1>5. patch \in StatusPatch => "price" \notin DOMAIN patch /\ "compareAt" \notin DOMAIN patch
  BY DEF StatusPatch
<1>6. PICK s \in ProductStatus : s = IF "status" \in DOMAIN patch THEN patch.status ELSE r.status
  BY <1>4 DEF Product
<1>7. PICK p \in Price : p = IF "price" \in DOMAIN patch THEN patch.price ELSE r.price
  BY <1>4 DEF Product
<1>8. PICK c \in Price \cup {None} : c = IF "compareAt" \in DOMAIN patch THEN patch.compareAt ELSE r.compareAt
  BY <1>4 DEF Product
<1>9. PICK t \in Time \cup {None} : t = IF "scheduled" \in DOMAIN patch THEN patch.scheduled ELSE r.scheduled
  BY <1>4 DEF Product
<1>10. PICK u \in Time \cup {None} : u = IF "published" \in DOMAIN patch THEN patch.published ELSE r.published
  BY <1>4 DEF Product
<1>11. Merge(patch, r) = [status |-> s, price |-> p, compareAt |-> c, scheduled |-> t, published |-> u]
  BY <1>2, <1>6, <1>7, <1>8, <1>9, <1>10
<1>12. Merge(patch, r) \in Product /\ Merge(patch, r).price = p /\ Merge(patch, r).compareAt = c
  BY <1>11 DEF Product
<1> QED BY <1>5, <1>7, <1>8, <1>12

\* Of two rows of one price, a patch makes offers of both or of neither.
LEMMA OfferMerged ==
    ASSUME NEW patch \in ProductPatch \cup StatusPatch, NEW r \in Product, NEW s \in Product,
           r.price = s.price, r.compareAt = s.compareAt
    PROVE  /\ IsOffer(r) <=> IsOffer(s)
           /\ IsOffer(Merge(patch, r)) <=> IsOffer(Merge(patch, s))
           /\ patch \in StatusPatch => (IsOffer(Merge(patch, r)) <=> IsOffer(r))
  BY ProductMerged DEF IsOffer

LEMMA ProductInit == ASSUME Init PROVE ProductInv
<1>1. /\ product = [status |-> "ACTIVE", price |-> 1, compareAt |-> 2, scheduled |-> None, published |-> 0]
      /\ variant = [v \in Variant |-> "ACTIVE"] /\ sold = {}
  BY DEF Init, seedProducts
<1>2. 0 \in Time
  BY HandlersAssumption DEF Time
<1>3. product \in Product /\ IsOffer(product)
  BY <1>1, <1>2 DEF Product, ProductStatus, Price, IsOffer
<1>4. ProductTyped /\ ProductHolds(Idle)
  BY <1>1, <1>3, ProductsAssumption DEF ProductTyped, VariantStates, ProductHolds, Idle
<1>5. Idle \in ProductWork
  BY DEF ProductWork
<1> QED BY <1>4, <1>5, InitOnWay DEF ProductInv

LEMMA ProductTypedNext ==
    ASSUME product' \in Product \cup {None}, variant' \in [Variant -> VariantStates], sold' \subseteq Variant
    PROVE  ProductTyped'
  BY DEF ProductTyped, Product, Time, Price

LEMMA ProductTurned ==
    ASSUME Taken, ProductInv, subject = "product", NEW j \in Job, NEW next \in ProductWork, Turns(j, next),
           ProductTyped', Calm' => ProductHolds(next)'
    PROVE  Taken' /\ ProductInv'
<1>1. job' \in [Job -> ProductWork]
  BY TurnOnWay DEF ProductInv
<1>2. ASSUME Calm', NEW w \in ProductWork, OnWay(w)'
      PROVE  ProductHolds(w)'
  <2>1. w = next
    BY <1>2, TurnOnWay
  <2> QED BY <1>2, <2>1
<1>3. ProductWork' = ProductWork
  BY DEF ProductWork, ProductPatch, StatusPatch, Price
<1> QED BY <1>1, <1>2, <1>3, TurnTaken DEF ProductInv, Turns

LEMMA ProductAside ==
    ASSUME Taken, ProductInv, Aside, UNCHANGED products
    PROVE  ProductInv'
<1>1. \A w : ProductHolds(w) => ProductHolds(w)'
  BY DEF ProductHolds, products, Aside, IsOffer, Merge
<1>2. ASSUME subject = "product"
      PROVE  job' \in [Job -> ProductWork] /\ (Calm' => \A w \in ProductWork : OnWay(w)' => ProductHolds(w)')
  <2>1. Idle \in ProductWork /\ job \in [Job -> ProductWork]
    BY <1>2 DEF ProductWork, ProductInv
  <2>2. job' \in [Job -> ProductWork] /\ (Calm' => Calm /\ \A w : OnWay(w)' => OnWay(w))
    BY <2>1, AsideOnWay
  <2> QED BY <1>1, <1>2, <2>2 DEF ProductInv
<1>3. ProductWork' = ProductWork
  BY DEF ProductWork, ProductPatch, StatusPatch, Price
<1>4. ProductTyped'
  BY ProductTypedNext DEF ProductInv, ProductTyped, products
<1> QED BY <1>1, <1>2, <1>3, <1>4 DEF ProductInv, Aside

\* The scheduler changes no price, and leaves the variants alone.
LEMMA ProductPublished ==
    ASSUME Taken, ProductInv, publishDueProducts
    PROVE  Taken' /\ ProductInv'
<1>1. Aside /\ job' = job /\ UNCHANGED <<variant, sold>>
  BY BesideIsAside DEF publishDueProducts, Beside, Met
<1>2. product \in Product /\ product # None
  BY DEF publishDueProducts, Due, ProductInv, ProductTyped
<1>3. product' \in Product /\ product'.price = product.price /\ product'.compareAt = product.compareAt
  <2>1. PICK a : a = [product EXCEPT !.status = "ACTIVE"]
    OBVIOUS
  <2>2. PICK b : b = [a EXCEPT !.published = clock]
    OBVIOUS
  <2>3. product' = [b EXCEPT !.scheduled = None]
    BY <2>1, <2>2 DEF publishDueProducts, Published
  <2>4. a \in Product /\ a.price = product.price /\ a.compareAt = product.compareAt
    BY <1>2, <2>1 DEF Product, ProductStatus
  <2>5. b \in Product /\ b.price = product.price /\ b.compareAt = product.compareAt
    BY <2>2, <2>4 DEF Product, Taken
  <2> QED BY <2>3, <2>5 DEF Product
<1>4. ASSUME NEW w \in ProductWork, ProductHolds(w)
      PROVE  ProductHolds(w)'
  <2>1. PICK s \in Product : s = product'
    BY <1>3
  <2>2. IsOffer(product) <=> IsOffer(s)
    BY <1>2, <1>3, <2>1 DEF IsOffer
  <2>3. w.op = "product" => (IsOffer(Merge(w.patch, product)) <=> IsOffer(Merge(w.patch, s)))
    <3>1. SUFFICES ASSUME w.op = "product"
                   PROVE  IsOffer(Merge(w.patch, product)) <=> IsOffer(Merge(w.patch, s))
      OBVIOUS
    <3>2. PICK patch \in ProductPatch \cup StatusPatch : patch = w.patch
      BY <3>1, ProductWorkTyped
    <3>3. IsOffer(Merge(patch, product)) <=> IsOffer(Merge(patch, s))
      BY <1>2, <1>3, <2>1, OfferMerged
    <3> QED BY <3>2, <3>3
  <2>4. s # None
    BY ProductAssumption
  <2>5. IsOffer(product)' <=> IsOffer(s)
    BY <2>1 DEF IsOffer
  <2>6. IsOffer(Merge(w.patch, product))' <=> IsOffer(Merge(w.patch, s))
    BY <2>1 DEF IsOffer, Merge
  <2> QED BY <1>1, <1>2, <1>4, <2>1, <2>2, <2>3, <2>4, <2>5, <2>6 DEF ProductHolds, Aside
<1>5. ProductTyped'
  BY <1>1, <1>3, ProductTypedNext DEF ProductInv, ProductTyped
<1>6. Idle \in ProductWork
  BY DEF ProductWork
<1>7. subject = "product" =>
          job' \in [Job -> ProductWork] /\ (Calm' => \A w \in ProductWork : OnWay(w)' => ProductHolds(w)')
  BY <1>1, <1>4, <1>6, AsideOnWay DEF ProductInv
<1>8. ProductWork' = ProductWork
  BY DEF ProductWork, ProductPatch, StatusPatch, Price
<1> QED BY <1>1, <1>4, <1>5, <1>6, <1>7, <1>8, AsideTaken DEF ProductInv, Aside

LEMMA ProductSold ==
    ASSUME Taken, ProductInv, NEW v \in Variant, Sell(v)
    PROVE  Taken' /\ ProductInv'
<1>1. /\ Aside /\ job' = job /\ subject = "product" /\ sold' = sold \cup {v} /\ product # None
      /\ variant[v] = "ACTIVE" /\ UNCHANGED <<product, variant>>
  BY BesideIsAside DEF Sell, Beside, Met
<1>2. Idle \in ProductWork /\ job \in [Job -> ProductWork] /\ ProductTyped /\ Idle.op = "idle"
  BY <1>1 DEF ProductWork, ProductInv, Idle
<1>3. job' \in [Job -> ProductWork] /\ (Calm' => Calm /\ \A w : OnWay(w)' => OnWay(w))
  BY <1>1, <1>2, AsideOnWay
<1>4. ProductTyped'
  BY <1>1, <1>2, ProductTypedNext DEF ProductTyped
<1>5. ASSUME NEW w \in ProductWork, ProductHolds(w), OnWay(w)
      PROVE  ProductHolds(w)'
  <2>1. CASE \E j \in Job : Busy(j)
    <3>1. "sale" \in met'
      BY <2>1 DEF Sell, Beside
    <3> QED BY <1>1, <1>5, <3>1 DEF ProductHolds, IsOffer, Merge
  <2>2. CASE ~\E j \in Job : Busy(j)
    <3>1. w = Idle
      BY <1>5, <2>2 DEF OnWay
    <3> QED BY <1>1, <1>2, <1>5, <3>1 DEF ProductHolds, Aside, IsOffer
  <2> QED BY <2>1, <2>2
<1>6. ProductWork' = ProductWork
  BY DEF ProductWork, ProductPatch, StatusPatch, Price
<1> QED BY <1>1, <1>3, <1>4, <1>5, <1>6, AsideTaken DEF ProductInv, Aside

LEMMA ProductStep ==
    ASSUME Taken, ProductInv, subject = "product", NEW j \in Job, ProductsNext(j)
    PROVE  Taken' /\ ProductInv'
<1>1. Idle \in ProductWork /\ Idle.op = "idle" /\ ProductTyped
  BY DEF ProductWork, Idle, ProductInv
<1>2. Calm /\ OnWay(Idle) => ProductHolds(Idle)
  BY <1>1 DEF ProductInv
<1>3. ASSUME NEW next \in ProductWork, Begin(j, next), UNCHANGED products,
             ProductHolds(Idle) => ProductHolds(next)
      PROVE  Taken' /\ ProductInv'
  <2>1. ProductTyped'
    BY <1>1, <1>3, ProductTypedNext DEF ProductTyped, products
  <2>2. Calm' => ProductHolds(next)
    BY <1>2, <1>3, BeginOnWay
  <2>3. Calm' => ProductHolds(next)'
    BY <1>3, <2>2, BeginOnWay DEF ProductHolds, products, IsOffer, Merge
  <2> QED BY <1>3, <2>1, <2>3, BeginTurns, ProductTurned
<1>4. ASSUME NEW r \in Product, createHandler(j, r)
      PROVE  Taken' /\ ProductInv'
  <2>1. PICK v \in Variant : variant' = [w \in Variant |-> IF w = v THEN "ACTIVE" ELSE "absent"]
    BY <1>4 DEF createHandler
  <2>2. PICK t \in Time \cup {None} : t = IF r.status = "SCHEDULED" THEN r.scheduled ELSE None
    BY DEF Product
  <2>3. PICK u \in Time \cup {None} : u = IF r.status = "ACTIVE" THEN clock ELSE None
    BY DEF Taken
  <2>4. PICK a : a = [r EXCEPT !.scheduled = t]
    OBVIOUS
  <2>5. product' = [a EXCEPT !.published = u]
    <3>1. product' = [r EXCEPT !.scheduled = IF r.status = "SCHEDULED" THEN @ ELSE None,
                               !.published = IF r.status = "ACTIVE" THEN clock ELSE None]
      BY <1>4 DEF createHandler
    <3> QED BY <2>2, <2>3, <2>4, <3>1
  <2>6. product' \in Product /\ product'.price = r.price /\ product'.compareAt = r.compareAt
    <3>1. a \in Product /\ a.price = r.price /\ a.compareAt = r.compareAt
      BY <2>4 DEF Product
    <3> QED BY <2>5, <3>1 DEF Product
  <2>7. IsOffer(product') /\ sold' = {} /\ Begin(j, Idle)
    BY <1>4, <2>6 DEF createHandler, IsOffer
  <2>8. variant' \in [Variant -> VariantStates] /\ variant'[v] # "absent"
    BY <2>1 DEF VariantStates
  <2>9. ProductTyped'
    BY <2>6, <2>7, <2>8, ProductTypedNext
  <2>10. ProductHolds(Idle)'
    BY <1>1, <2>7, <2>8 DEF ProductHolds, IsOffer
  <2> QED BY <1>1, <2>7, <2>9, <2>10, BeginTurns, ProductTurned
<1>5. ASSUME NEW patch \in ProductPatch \cup StatusPatch, product # None,
             IsOffer(product) => IsOffer(Merge(patch, product)),
             Begin(j, [op |-> "product", patch |-> patch, first |-> product.published = None]), UNCHANGED products
      PROVE  Taken' /\ ProductInv'
  <2>1. PICK next \in ProductWork :
            next = [op |-> "product", patch |-> patch, first |-> product.published = None]
    BY DEF ProductWork
  <2>2. ProductHolds(Idle) => ProductHolds(next)
    BY <1>1, <1>5, <2>1 DEF ProductHolds
  <2> QED BY <1>3, <1>5, <2>1, <2>2
<1>6. ASSUME NEW s \in ProductStatus, publishHandler(j, s)
      PROVE  Taken' /\ ProductInv'
  <2>1. PICK patch \in StatusPatch : patch = [status |-> s]
    BY DEF StatusPatch
  <2>2. product \in Product /\ product # None
    BY <1>1, <1>6 DEF publishHandler, ProductTyped
  <2>3. IsOffer(Merge(patch, product)) <=> IsOffer(product)
    BY <2>2, OfferMerged
  <2> QED BY <1>5, <1>6, <2>1, <2>2, <2>3 DEF publishHandler
<1>7. ASSUME NEW patch \in ProductPatch, updateHandler(j, patch)
      PROVE  Taken' /\ ProductInv'
  BY <1>5, <1>7 DEF updateHandler
<1>8. CASE WriteProduct(j)
  <2>1. PICK w \in ProductWork : w = job[j] /\ w.op = "product" /\ Busy(j) /\ OnWay(w)
    BY <1>8, AtOnWay DEF WriteProduct, At, ProductInv
  <2>2. PICK patch \in ProductPatch \cup StatusPatch : patch = w.patch
    BY <2>1, ProductWorkTyped
  <2>3. Turns(j, Idle) /\ met' = met /\ UNCHANGED <<variant, sold>>
    BY <1>8, <2>1, GotoTurns DEF WriteProduct
  <2>4. CASE product = None
    <3>1. product' = None
      BY <1>8, <2>4 DEF WriteProduct
    <3>2. ProductTyped'
      BY <1>1, <2>3, <3>1, ProductTypedNext DEF ProductTyped
    <3>3. Calm' => ProductHolds(w)
      BY <2>1, <2>3 DEF ProductInv, Calm
    <3>4. Calm' => ProductHolds(Idle)'
      BY <1>1, <2>1, <2>3, <2>4, <3>1, <3>3 DEF ProductHolds
    <3> QED BY <1>1, <2>3, <3>2, <3>4, ProductTurned
  <2>5. CASE product # None
    <3>1. product \in Product
      BY <1>1, <2>5 DEF ProductTyped
    <3>2. PICK next \in Product : next = Merge(patch, product)
      BY <3>1, ProductMerged
    <3>3. PICK goes : goes = ("status" \in DOMAIN patch /\ patch.status = "ACTIVE" /\ w.first)
      OBVIOUS
    <3>4. PICK u \in Time \cup {None} : u = IF goes THEN clock ELSE next.published
      BY DEF Taken, Product
    <3>5. product' = [next EXCEPT !.published = u]
      <4>1. product' = [Merge(w.patch, product) EXCEPT !.published =
                           IF "status" \in DOMAIN w.patch /\ w.patch.status = "ACTIVE" /\ w.first THEN clock ELSE @]
        BY <1>8, <2>1, <2>5 DEF WriteProduct
      <4> QED BY <2>2, <3>2, <3>3, <3>4, <4>1
    <3>6. product' \in Product /\ product'.price = next.price /\ product'.compareAt = next.compareAt
      BY <3>5 DEF Product
    <3>7. ProductTyped'
      BY <1>1, <2>3, <3>6, ProductTypedNext DEF ProductTyped
    <3>8. ASSUME Calm'
          PROVE  ProductHolds(Idle)'
      <4>1. ProductHolds(w)
        BY <2>1, <2>3, <3>8 DEF ProductInv, Calm
      <4>2. IsOffer(next)
        BY <2>1, <2>2, <2>5, <3>2, <4>1 DEF ProductHolds
      <4>3. IsOffer(product)'
        BY <3>6, <4>2 DEF IsOffer
      <4>4. product' # None
        BY <3>6, ProductAssumption
      <4> QED BY <1>1, <2>1, <2>3, <2>5, <4>1, <4>3, <4>4 DEF ProductHolds
    <3> QED BY <1>1, <2>3, <3>7, <3>8, ProductTurned
  <2> QED BY <2>4, <2>5
<1>9. CASE deleteHandler(j)
  <2>1. PICK next \in ProductWork : next = [op |-> IF sold # {} THEN "archive" ELSE "delete"]
    BY DEF ProductWork
  <2>2. ProductHolds(Idle) => ProductHolds(next)
    BY <1>1, <2>1 DEF ProductHolds
  <2> QED BY <1>3, <1>9, <2>1, <2>2 DEF deleteHandler
<1>10. CASE ArchiveProduct(j)
  <2>1. PICK w \in ProductWork : w = job[j] /\ w.op = "archive" /\ Busy(j) /\ OnWay(w)
    BY <1>10, AtOnWay DEF ArchiveProduct, At, ProductInv
  <2>2. /\ Turns(j, Idle) /\ met' = met /\ UNCHANGED <<variant, sold>>
        /\ product' = IF product = None THEN None ELSE [product EXCEPT !.status = "ARCHIVED"]
    BY <1>10, <2>1, GotoTurns DEF ArchiveProduct
  <2>3. CASE product = None
    <3>1. ProductTyped'
      BY <1>1, <2>2, <2>3, ProductTypedNext DEF ProductTyped
    <3>2. Calm' => ProductHolds(w)
      BY <2>1, <2>2 DEF ProductInv, Calm
    <3>3. Calm' => ProductHolds(Idle)'
      BY <1>1, <2>1, <2>2, <2>3, <3>2 DEF ProductHolds
    <3> QED BY <1>1, <2>2, <3>1, <3>3, ProductTurned
  <2>4. CASE product # None
    <3>1. product' \in Product /\ product'.price = product.price /\ product'.compareAt = product.compareAt
      BY <1>1, <2>2, <2>4 DEF ProductTyped, Product, ProductStatus
    <3>2. ProductTyped' /\ product' # None
      BY <1>1, <2>2, <3>1, ProductTypedNext, ProductAssumption DEF ProductTyped
    <3>3. Calm' => ProductHolds(w)
      BY <2>1, <2>2 DEF ProductInv, Calm
    <3>4. IsOffer(product)' <=> IsOffer(product)
      BY <3>1 DEF IsOffer
    <3>5. Calm' => ProductHolds(Idle)'
      BY <1>1, <2>1, <2>2, <2>4, <3>2, <3>3, <3>4 DEF ProductHolds
    <3> QED BY <1>1, <2>2, <3>2, <3>5, ProductTurned
  <2> QED BY <2>3, <2>4
<1>11. CASE DeleteProduct(j)
  <2>1. PICK w \in ProductWork : w = job[j] /\ w.op = "delete" /\ Busy(j) /\ OnWay(w)
    BY <1>11, AtOnWay DEF DeleteProduct, At, ProductInv
  <2>2. /\ Turns(j, Idle) /\ met' = met /\ sold' = sold /\ product' = None
        /\ variant' = [v \in Variant |-> "absent"]
    BY <1>11, <2>1, GotoTurns DEF DeleteProduct
  <2>3. ProductTyped'
    <3>1. variant' \in [Variant -> VariantStates]
      BY <2>2 DEF VariantStates
    <3> QED BY <1>1, <2>2, <3>1, ProductTypedNext DEF ProductTyped
  <2>4. Calm' => ProductHolds(w)
    BY <2>1, <2>2 DEF ProductInv, Calm
  <2>5. Calm' => ProductHolds(Idle)'
    BY <1>1, <2>1, <2>2, <2>4 DEF ProductHolds
  <2> QED BY <1>1, <2>2, <2>3, <2>5, ProductTurned
<1>12. ASSUME NEW v \in Variant, createVariantHandler(j, v)
      PROVE  Taken' /\ ProductInv'
  <2>1. PICK next \in ProductWork : next = [op |-> "new_variant", variant |-> v]
    BY DEF ProductWork
  <2>2. ProductHolds(Idle) => ProductHolds(next)
    BY <1>1, <2>1 DEF ProductHolds
  <2> QED BY <1>3, <1>12, <2>1, <2>2 DEF createVariantHandler
<1>13. ASSUME NEW v \in Variant, deleteVariantHandler(j, v)
      PROVE  Taken' /\ ProductInv'
  <2>1. PICK next \in ProductWork :
            next = [op |-> "variant", variant |-> v, to |-> IF v \in sold THEN "INACTIVE" ELSE "absent"]
    BY DEF ProductWork
  <2>2. \E w \in Variant : w # v /\ variant[w] # "absent"
    <3>1. SUFFICES ASSUME \A w \in Variant : variant[w] # "absent" => w = v
                   PROVE  FALSE
      OBVIOUS
    <3>2. {w \in Variant : variant[w] # "absent"} = {v}
      BY <1>13, <3>1 DEF deleteVariantHandler
    <3>3. Cardinality({v}) = 1
      BY FS_Singleton
    <3> QED BY <1>13, <3>2, <3>3 DEF deleteVariantHandler
  <2>3. ProductHolds(Idle) => ProductHolds(next)
    BY <1>1, <2>1, <2>2 DEF ProductHolds
  <2> QED BY <1>3, <1>13, <2>1, <2>3 DEF deleteVariantHandler
<1>14. CASE AddVariant(j)
  <2>1. PICK w \in ProductWork : w = job[j] /\ w.op = "new_variant" /\ Busy(j) /\ OnWay(w)
    BY <1>14, AtOnWay DEF AddVariant, At, ProductInv
  <2>2. PICK v \in Variant : v = w.variant
    BY <2>1, ProductWorkTyped
  <2>3. /\ Turns(j, Idle) /\ met' = met /\ UNCHANGED <<product, sold>>
        /\ variant' = IF product = None THEN variant ELSE [variant EXCEPT ![v] = "ACTIVE"]
    BY <1>14, <2>1, <2>2, GotoTurns DEF AddVariant
  <2>4. /\ variant' \in [Variant -> VariantStates]
        /\ \A x \in Variant : variant[x] # "absent" => variant'[x] # "absent"
    BY <1>1, <2>3 DEF ProductTyped, VariantStates
  <2>5. ProductTyped'
    BY <1>1, <2>3, <2>4, ProductTypedNext DEF ProductTyped
  <2>6. Calm' => ProductHolds(w)
    BY <2>1, <2>3 DEF ProductInv, Calm
  <2>7. Calm' => ProductHolds(Idle)'
    BY <1>1, <2>1, <2>3, <2>4, <2>6 DEF ProductHolds, IsOffer, ProductTyped
  <2> QED BY <1>1, <2>3, <2>5, <2>7, ProductTurned
<1>15. ASSUME NEW v \in Variant, NEW s \in {"ACTIVE", "INACTIVE"}, updateVariantHandler(j, v, s)
      PROVE  Taken' /\ ProductInv'
  <2>1. /\ Begin(j, Idle) /\ UNCHANGED <<product, sold>> /\ variant' = [variant EXCEPT ![v] = s]
    BY <1>15 DEF updateVariantHandler
  <2>2. /\ variant' \in [Variant -> VariantStates]
        /\ \A x \in Variant : variant[x] # "absent" => variant'[x] # "absent"
    BY <1>1, <2>1 DEF ProductTyped, VariantStates
  <2>3. ProductTyped'
    BY <1>1, <2>1, <2>2, ProductTypedNext DEF ProductTyped
  <2>4. Calm' => ProductHolds(Idle) /\ met' = met
    BY <1>2, <2>1, BeginOnWay
  <2>5. Calm' => ProductHolds(Idle)'
    BY <1>1, <2>1, <2>2, <2>4 DEF ProductHolds, IsOffer, ProductTyped
  <2> QED BY <1>1, <2>1, <2>3, <2>5, BeginTurns, ProductTurned
<1>16. CASE WriteVariant(j)
  <2>1. PICK w \in ProductWork : w = job[j] /\ w.op = "variant" /\ Busy(j) /\ OnWay(w)
    BY <1>16, AtOnWay DEF WriteVariant, At, ProductInv
  <2>2. PICK v \in Variant, to \in {"INACTIVE", "absent"} : v = w.variant /\ to = w.to
    BY <2>1, ProductWorkTyped
  <2>3. /\ Turns(j, Idle) /\ met' = met /\ UNCHANGED <<product, sold>>
        /\ variant' = [variant EXCEPT ![v] = IF @ = "absent" THEN @ ELSE to]
    BY <1>16, <2>1, <2>2, GotoTurns DEF WriteVariant
  <2>4. /\ variant' \in [Variant -> VariantStates]
        /\ \A x \in Variant : x # v => variant'[x] = variant[x]
        /\ to # "absent" => \A x \in Variant : variant[x] # "absent" => variant'[x] # "absent"
    BY <1>1, <2>3 DEF ProductTyped, VariantStates
  <2>5. ProductTyped'
    BY <1>1, <2>3, <2>4, ProductTypedNext DEF ProductTyped
  <2>6. Calm' => ProductHolds(w)
    BY <2>1, <2>3 DEF ProductInv, Calm
  <2>7. ASSUME Calm'
        PROVE  ProductHolds(Idle)'
    <3>1. product' # None => IsOffer(product)' /\ \E x \in Variant : variant'[x] # "absent"
      BY <2>1, <2>2, <2>3, <2>4, <2>6, <2>7 DEF ProductHolds, IsOffer
    <3>2. ASSUME "sale" \notin met'
          PROVE  \A x \in sold' : product' # None /\ variant'[x] # "absent"
      BY <1>1, <2>1, <2>2, <2>3, <2>4, <2>6, <2>7, <3>2 DEF ProductHolds, ProductTyped
    <3> QED BY <1>1, <3>1, <3>2 DEF ProductHolds
  <2> QED BY <1>1, <2>3, <2>5, <2>7, ProductTurned
<1>17. ASSUME NEW s \in ProductStatus, NEW p \in Price, NEW c \in Price \cup {None}, NEW t \in Time \cup {None},
             createHandler(j, [status |-> s, price |-> p, compareAt |-> c, scheduled |-> t, published |-> None])
      PROVE  Taken' /\ ProductInv'
  <2>1. PICK r \in Product : r = [status |-> s, price |-> p, compareAt |-> c, scheduled |-> t, published |-> None]
    BY DEF Product
  <2> QED BY <1>4, <1>17, <2>1
<1> QED BY <1>6, <1>7, <1>8, <1>9, <1>10, <1>11, <1>12, <1>13, <1>14, <1>15, <1>16, <1>17 DEF ProductsNext

-----------------------------------------------------------------------------
(* Settings and gift cards *)

SellWork == {Idle} \cup [op : {"sell", "issue"}, amount : Amount, years : 1 .. 10, attempt : Nat]

\* One page offered the amount, for so many years.
Offered(amount, years) ==
    \E c \in shown : assertPurchasableAmount(amount, c) /\ years = Terms[c].years

SettingsTyped ==
    /\ setting = [k \in Key |-> setting[k]] /\ \A k \in Key : setting[k] \in Text(k) \cup {"absent"}
    /\ shown \subseteq Config /\ readGiftCardConfig(setting) \in shown
    /\ card \in [Code -> [amount : Amount, years : 1 .. 10] \cup {None}]

\* What is being sold was offered when its request read the page.
SettingsInv ==
    /\ SettingsTyped /\ SoldAsShown
    /\ subject = "settings" =>
          /\ job \in [Job -> SellWork]
          /\ \A j \in Job : job[j] # Idle => Offered(job[j].amount, job[j].years)

LEMMA SellWorkTyped ==
    ASSUME NEW w \in SellWork, w # Idle
    PROVE  w \in [op : {"sell", "issue"}, amount : Amount, years : 1 .. 10, attempt : Nat]
  BY DEF SellWork

LEMMA PageIsUsable ==
    ASSUME NEW s
    PROVE  readGiftCardConfig(s) \in Config
  BY SettingsAssumption DEF readGiftCardConfig

LEMMA SettingsInit == ASSUME Init PROVE SettingsInv
<1>1. /\ setting = [k \in Key |-> IF k \in {"menu", "tax"} THEN "set" ELSE "absent"]
      /\ card = [code \in Code |-> None] /\ shown = {BuiltIn} /\ job = [j \in Job |-> Idle]
  BY DEF Init, seedSettings
<1>2. \A k \in Key : setting[k] \in Text(k) \cup {"absent"}
  BY <1>1 DEF Key, Text, Usable
<1>3. readGiftCardConfig(setting) \in shown \/ setting["gift_card"] \in Config
  BY <1>1 DEF readGiftCardConfig
<1>4. setting["gift_card"] = "absent"
  BY <1>1 DEF Key
<1>5. readGiftCardConfig(setting) \in shown
  BY <1>1, <1>4, SettingsAssumption DEF readGiftCardConfig
<1>6. setting = [k \in Key |-> setting[k]]
  BY <1>1
<1>7. SettingsTyped
  BY <1>1, <1>2, <1>5, <1>6, SettingsAssumption DEF SettingsTyped
<1> QED BY <1>1, <1>7 DEF SettingsInv, SoldAsShown, SellWork

\* The pages there have been are never forgotten.
LEMMA OfferedStays ==
    ASSUME shown \subseteq shown', NEW amount, NEW years, Offered(amount, years)
    PROVE  Offered(amount, years)'
  BY DEF Offered

LEMMA SoldStays ==
    ASSUME SoldAsShown, shown \subseteq shown', card' = card
    PROVE  SoldAsShown'
  BY DEF SoldAsShown

LEMMA SettingsTurned ==
    ASSUME Taken, SettingsInv, subject = "settings", NEW j \in Job, NEW next \in SellWork, Turns(j, next),
           SettingsTyped', SoldAsShown', shown \subseteq shown', next # Idle => Offered(next.amount, next.years)'
    PROVE  Taken' /\ SettingsInv'
<1>1. job' \in [Job -> SellWork]
  BY TurnOnWay DEF SettingsInv
<1>2. ASSUME NEW i \in Job, job'[i] # Idle
      PROVE  Offered(job[i].amount, job[i].years)'
  <2>1. CASE i = j
    <3>1. job'[i] = next
      BY <2>1 DEF Turns, SettingsInv
    <3> QED BY <1>2, <3>1 DEF Offered
  <2>2. CASE i # j
    <3>1. PICK w : w = job[i]
      OBVIOUS
    <3>2. job'[i] = w
      BY <2>2, <3>1 DEF Turns, SettingsInv
    <3>3. Offered(w.amount, w.years)
      BY <1>2, <3>1, <3>2 DEF SettingsInv
    <3>4. Offered(w.amount, w.years)'
      BY <3>3, OfferedStays
    <3> QED BY <3>2, <3>4 DEF Offered
  <2> QED BY <2>1, <2>2
<1> QED BY <1>1, <1>2, TurnTaken DEF SettingsInv, Turns

LEMMA SettingsAside ==
    ASSUME Taken, SettingsInv, Aside, SettingsTyped', SoldAsShown', shown \subseteq shown'
    PROVE  SettingsInv'
<1>1. ASSUME subject = "settings"
      PROVE  /\ job' \in [Job -> SellWork]
             /\ \A j \in Job : job'[j] # Idle => Offered(job[j].amount, job[j].years)'
  <2>1. CASE job' = job
    <3>1. ASSUME NEW j \in Job, job[j] # Idle
          PROVE  Offered(job[j].amount, job[j].years)'
      <4>1. PICK w : w = job[j]
        OBVIOUS
      <4>2. Offered(w.amount, w.years)
        BY <1>1, <3>1, <4>1 DEF SettingsInv
      <4>3. Offered(w.amount, w.years)'
        BY <4>2, OfferedStays
      <4> QED BY <2>1, <4>1, <4>3 DEF Offered
    <3> QED BY <1>1, <2>1, <3>1 DEF SettingsInv
  <2>2. CASE job' = [j \in Job |-> Idle]
    BY <2>2 DEF SellWork
  <2> QED BY <2>1, <2>2 DEF Aside
<1> QED BY <1>1 DEF SettingsInv, Aside

LEMMA SettingsSame ==
    ASSUME SettingsInv, UNCHANGED settings
    PROVE  SettingsTyped' /\ SoldAsShown' /\ shown \subseteq shown'
  BY DEF SettingsInv, SettingsTyped, settings, readGiftCardConfig, SoldAsShown, Text, Usable

\* A row is written, and the gift card page is whatever it is from then on.
LEMMA RowsWritten ==
    ASSUME SettingsInv, card' = card, shown' = shown \cup {readGiftCardConfig(setting')},
           setting' = [k \in Key |-> setting'[k]], \A k \in Key : setting'[k] \in Text(k) \cup {"absent"}
    PROVE  SettingsTyped' /\ SoldAsShown' /\ shown \subseteq shown'
<1>1. shown \subseteq shown'
  OBVIOUS
<1>2. readGiftCardConfig(setting)' = readGiftCardConfig(setting')
  BY DEF readGiftCardConfig
<1>3. readGiftCardConfig(setting') \in Config
  BY SettingsAssumption DEF readGiftCardConfig
<1>4. SettingsTyped'
  BY <1>2, <1>3 DEF SettingsTyped, SettingsInv, Text, Usable
<1> QED BY <1>1, <1>4, SoldStays DEF SettingsInv

LEMMA UpsertWritten ==
    ASSUME SettingsInv, card' = card, NEW k \in Key, NEW text \in Text(k), Upsert(k, text)
    PROVE  SettingsTyped' /\ SoldAsShown' /\ shown \subseteq shown'
<1>1. setting' = [setting EXCEPT ![k] = text] /\ shown' = shown \cup {readGiftCardConfig(setting')}
  BY DEF Upsert
<1>2. setting = [i \in Key |-> setting[i]] /\ \A i \in Key : setting[i] \in Text(i) \cup {"absent"}
  BY DEF SettingsInv, SettingsTyped
<1>3. DOMAIN setting' = Key /\ \A i \in Key : setting'[i] = IF i = k THEN text ELSE setting[i]
  BY <1>1, <1>2
<1>4. setting' = [i \in Key |-> setting'[i]]
  BY <1>1, <1>2
<1> QED BY <1>1, <1>2, <1>3, <1>4, RowsWritten

LEMMA SettingsBooted ==
    ASSUME Taken, SettingsInv, ensureContactSettings
    PROVE  Taken' /\ SettingsInv'
<1>1. Aside /\ card' = card /\ Upsert("studio_number", "")
  BY BesideIsAside DEF ensureContactSettings, Met
<1>2. "studio_number" \in Key /\ "" \in Text("studio_number")
  BY DEF Key, Text, Usable
<1> QED BY <1>1, <1>2, UpsertWritten, SettingsAside, AsideTaken

LEMMA SettingsStep ==
    ASSUME Taken, SettingsInv, subject = "settings", NEW j \in Job, SettingsNext(j)
    PROVE  Taken' /\ SettingsInv'
<1>1. Idle \in SellWork /\ job \in [Job -> SellWork]
  BY DEF SellWork, SettingsInv
<1>2. ASSUME NEW k \in Key, PutValidated(j, k)
      PROVE  Taken' /\ SettingsInv'
  <2>1. PICK text \in Text(k) : Upsert(k, text) /\ Begin(j, Idle) /\ card' = card
    BY <1>2 DEF PutValidated, Text
  <2> QED BY <1>1, <2>1, UpsertWritten, BeginTurns, SettingsTurned
<1>3. CASE writeGiftCardConfig(j) \/ PutParcelDefaults(j) \/ PutAutoBook(j) \/ PutNavigation(j)
  BY <1>2, <1>3 DEF writeGiftCardConfig, PutParcelDefaults, PutAutoBook, PutNavigation, Key
<1>4. CASE PatchSettings(j)
  <2>0. PICK k \in Key, l \in Key : \E t \in Text(k), u \in Text(l) :
            /\ Begin(j, Idle) /\ setting' = [setting EXCEPT ![k] = t, ![l] = u]
            /\ shown' = shown \cup {readGiftCardConfig(setting')} /\ card' = card
    BY <1>4 DEF PatchSettings
  <2>1. PICK t \in Text(k), u \in Text(l) :
            /\ Begin(j, Idle) /\ setting' = [setting EXCEPT ![k] = t, ![l] = u]
            /\ shown' = shown \cup {readGiftCardConfig(setting')} /\ card' = card
    BY <2>0
  <2>2. setting = [i \in Key |-> setting[i]] /\ \A i \in Key : setting[i] \in Text(i) \cup {"absent"}
    BY DEF SettingsInv, SettingsTyped
  <2>3. PICK a : a = [setting EXCEPT ![k] = t]
    OBVIOUS
  <2>4. DOMAIN a = Key /\ \A i \in Key : a[i] = IF i = k THEN t ELSE setting[i]
    BY <2>2, <2>3
  <2>5. setting' = [a EXCEPT ![l] = u]
    BY <2>1, <2>3
  <2>6. /\ DOMAIN setting' = Key /\ \A i \in Key : setting'[i] = IF i = l THEN u ELSE a[i]
        /\ setting' = [i \in Key |-> setting'[i]]
    BY <2>4, <2>5
  <2>7. \A i \in Key : setting'[i] \in Text(i) \cup {"absent"}
    BY <2>2, <2>4, <2>6
  <2> QED BY <1>1, <2>1, <2>6, <2>7, RowsWritten, BeginTurns, SettingsTurned
<1>5. ASSUME NEW op \in {"sell", "issue"}, NEW amount \in Amount, SellBegin(j, op, amount)
      PROVE  Taken' /\ SettingsInv'
  <2>1. PICK c \in Config : c = readGiftCardConfig(setting)
    BY PageIsUsable
  <2>2. c \in shown /\ Terms[c].years \in 1 .. 10
    BY <2>1, SettingsAssumption DEF SettingsInv, SettingsTyped
  <2>3. PICK next : next = [op |-> op, amount |-> amount, years |-> Terms[c].years, attempt |-> 1]
    OBVIOUS
  <2>4. next \in SellWork /\ next.amount = amount /\ next.years = Terms[c].years
    <3>1. next \in [op : {"sell", "issue"}, amount : Amount, years : 1 .. 10, attempt : Nat]
      BY <2>2, <2>3
    <3> QED BY <2>3, <3>1 DEF SellWork
  <2>5. assertPurchasableAmount(amount, c) /\ Begin(j, next) /\ UNCHANGED settings
    BY <1>5, <2>1, <2>3 DEF SellBegin
  <2>6. Offered(next.amount, next.years)'
    BY <2>2, <2>4, <2>5 DEF Offered, settings
  <2> QED BY <2>4, <2>5, <2>6, SettingsSame, BeginTurns, SettingsTurned
<1>6. ASSUME NEW op \in {"sell", "issue"}, job[j].op = op
      PROVE  /\ Busy(j) /\ job[j] \in [op : {"sell", "issue"}, amount : Amount, years : 1 .. 10, attempt : Nat]
             /\ Offered(job[j].amount, job[j].years)
  <2>1. job[j] # Idle
    BY <1>6 DEF Idle
  <2> QED BY <1>1, <2>1, SellWorkTyped DEF Busy, SettingsInv
<1>7. CASE Allocate(j)
  <2>1. PICK code \in Code :
            /\ job[j].op \in {"sell", "issue"} /\ Goto(j, Idle) /\ UNCHANGED <<setting, shown>>
            /\ card' = [card EXCEPT ![code] = [amount |-> job[j].amount, years |-> job[j].years]]
    BY <1>7 DEF Allocate
  <2>2. Busy(j) /\ Offered(job[j].amount, job[j].years)
    BY <1>6, <2>1
  <2>3. PICK r \in [amount : Amount, years : 1 .. 10] : r = [amount |-> job[j].amount, years |-> job[j].years]
    BY <1>6, <2>1
  <2>4. /\ card' \in [Code -> [amount : Amount, years : 1 .. 10] \cup {None}]
        /\ card'[code] = r /\ \A i \in Code : i # code => card'[i] = card[i]
    BY <2>1, <2>3 DEF SettingsInv, SettingsTyped
  <2>5. SettingsTyped'
    BY <2>1, <2>4 DEF SettingsInv, SettingsTyped, readGiftCardConfig, Text, Usable
  <2>6. SoldAsShown'
    <3>1. \E c \in shown : assertPurchasableAmount(r.amount, c) /\ r.years = Terms[c].years
      BY <2>2, <2>3 DEF Offered
    <3> QED BY <2>1, <2>4, <3>1 DEF SettingsInv, SoldAsShown
  <2> QED BY <1>1, <2>1, <2>2, <2>5, <2>6, GotoTurns, SettingsTurned
<1>8. CASE Collide(j)
  <2>1. PICK w : w = job[j]
    OBVIOUS
  <2>2. /\ Busy(j) /\ w \in [op : {"sell", "issue"}, amount : Amount, years : 1 .. 10, attempt : Nat]
        /\ Offered(w.amount, w.years)
    BY <1>6, <1>8, <2>1 DEF Collide
  <2>3. PICK next : next = IF At(j, "issue") /\ w.attempt < Attempts THEN [w EXCEPT !.attempt = @ + 1] ELSE Idle
    OBVIOUS
  <2>4. Goto(j, next) /\ UNCHANGED settings
    BY <1>8, <2>1, <2>3 DEF Collide
  <2>5. next \in SellWork /\ (next # Idle => next.amount = w.amount /\ next.years = w.years)
    <3>1. CASE next = Idle
      BY <1>1, <3>1
    <3>2. CASE next # Idle
      <4>1. /\ next \in [op : {"sell", "issue"}, amount : Amount, years : 1 .. 10, attempt : Nat]
            /\ next.amount = w.amount /\ next.years = w.years
        BY <2>2, <2>3, <3>2
      <4> QED BY <4>1 DEF SellWork
    <3> QED BY <3>1, <3>2
  <2>6. next # Idle => Offered(next.amount, next.years)'
    BY <2>2, <2>4, <2>5 DEF Offered, settings
  <2> QED BY <2>2, <2>4, <2>5, <2>6, GotoTurns, SettingsSame, SettingsTurned
<1> QED BY <1>3, <1>4, <1>5, <1>7, <1>8 DEF SettingsNext, purchaseGiftCard, issueGiftCard

-----------------------------------------------------------------------------
(* Pictures *)

ImageWork == {Idle} \cup [op : {"put"}, left : Nat \ {0}, order : Nat]
             \cup [op : {"row"}, left : Nat, order : Nat, file : File]
             \cup [op : {"unrow", "unlink"}, file : File] \cup [op : {"reorder"}, list : Seq(File)]

LEMMA ImageWorkTyped ==
    ASSUME NEW w \in ImageWork
    PROVE  /\ w.op = "put" => w.left \in Nat \ {0} /\ w.order \in Nat
           /\ w.op = "row" => w.left \in Nat /\ w.order \in Nat /\ w.file \in File
           /\ w.op \in {"unrow", "unlink"} => w.file \in File
           /\ w.op = "reorder" => w.list \in Seq(File)
<1>1. CASE w = Idle
  BY <1>1 DEF Idle
<1>2. CASE w \in [op : {"put"}, left : Nat \ {0}, order : Nat]
  BY <1>2
<1>3. CASE w \in [op : {"row"}, left : Nat, order : Nat, file : File]
  BY <1>3
<1>4. CASE w \in [op : {"unrow", "unlink"}, file : File]
  BY <1>4
<1>5. CASE w \in [op : {"reorder"}, list : Seq(File)]
  BY <1>5
<1> QED BY <1>1, <1>2, <1>3, <1>4, <1>5 DEF ImageWork

ImageTyped == /\ image \in [File -> Nat \cup {None}] /\ stored \subseteq File
              /\ Shown \subseteq stored /\ IsFiniteSet(Shown)

\* Between its file and its row, either way.
Half(w) == w.op \in {"row", "unlink"}

\* A half picture is not shown; one that waits for its row has its file; no two
\* requests have the same.
Halves ==
    \A i \in Job : Half(job[i]) =>
        /\ job[i].file \notin Shown /\ (job[i].op = "row" => job[i].file \in stored)
        /\ \A k \in Job : k # i /\ Half(job[k]) => job[k].file # job[i].file

\* Unless something failed, every file is a picture's or a half picture's.
NothingStray ==
    "failure" \notin met =>
        \A f \in stored : f \in Shown \/ \E i \in Job : Half(job[i]) /\ job[i].file = f

\* No two pictures have one place, and the pictures to come go after them.
Placed(w) ==
    ~muddled =>
        /\ \A f, g \in Shown : f # g => image[f] # image[g]
        /\ w.op \in {"put", "row"} => \A f \in Shown : image[f] < w.order
        /\ w.op = "reorder" => /\ Len(w.list) = Cardinality(Shown)
                               /\ {w.list[i] : i \in DOMAIN w.list} \subseteq Shown

ImagesInv ==
    /\ ImageTyped
    /\ subject = "images" => /\ job \in [Job -> ImageWork] /\ Halves /\ NothingStray
                             /\ Calm => \A w : OnWay(w) => Placed(w)
    /\ subject # "images" => stored = {} /\ Shown = {}

LEMMA ImagesInit == ASSUME Init PROVE ImagesInv
<1>1. image = [f \in File |-> None] /\ stored = {} /\ Shown = {} /\ job = [j \in Job |-> Idle]
  BY DEF Init, seedImages, Shown
<1>2. ImageTyped
  BY <1>1, FS_EmptySet DEF ImageTyped
<1>3. job \in [Job -> ImageWork] /\ Halves /\ NothingStray
  BY <1>1 DEF ImageWork, Halves, NothingStray, Half, Idle
<1>4. Placed(Idle)
  BY <1>1 DEF Placed, Idle
<1> QED BY <1>1, <1>2, <1>3, <1>4, InitOnWay DEF ImagesInv

LEMMA ImagesAside ==
    ASSUME Taken, ImagesInv, Aside, UNCHANGED images
    PROVE  ImagesInv'
<1>1. Shown' = Shown /\ ImageTyped'
  BY DEF images, Shown, ImagesInv, ImageTyped
<1>2. ASSUME subject = "images"
      PROVE  /\ job' \in [Job -> ImageWork] /\ Halves' /\ NothingStray'
             /\ Calm' => \A w : OnWay(w)' => Placed(w)'
  <2>1. \A w : Placed(w) => Placed(w)'
    BY <1>1 DEF Placed, images
  <2>2. job \in [Job -> ImageWork] /\ Idle \in ImageWork
    BY <1>2 DEF ImagesInv, ImageWork
  <2>3. job' \in [Job -> ImageWork] /\ (Calm' => \A w : OnWay(w)' => Placed(w)')
    BY <1>2, <2>1, <2>2, AsideOnWay DEF ImagesInv
  <2>4. CASE job' = job
    BY <1>1, <1>2, <2>3, <2>4 DEF ImagesInv, Halves, NothingStray, Half, images, Aside
  <2>5. CASE job' = [j \in Job |-> Idle] /\ "failure" \in met'
    BY <1>1, <1>2, <2>3, <2>5 DEF Halves, NothingStray, Half, Idle
  <2> QED BY <2>3, <2>4, <2>5 DEF Aside
<1> QED BY <1>1, <1>2 DEF ImagesInv, Aside, images

\* A request goes on: what the others have half done is left, and so is what it
\* has half done itself.
LEMMA ImagesTurned ==
    ASSUME Taken, ImagesInv, subject = "images", NEW j \in Job, NEW next \in ImageWork, Turns(j, next),
           ImageTyped',
           \A i \in Job : i # j /\ Half(job[i]) =>
               job[i].file \notin Shown' /\ (job[i].op = "row" => job[i].file \in stored'),
           Half(next) => /\ next.file \notin Shown' /\ (next.op = "row" => next.file \in stored')
                         /\ \A i \in Job : i # j /\ Half(job[i]) => job[i].file # next.file,
           "failure" \notin met' =>
               \A f \in stored' : \/ f \in Shown'
                                  \/ Half(next) /\ next.file = f
                                  \/ \E i \in Job : i # j /\ Half(job[i]) /\ job[i].file = f,
           Calm' => Placed(next)'
    PROVE  Taken' /\ ImagesInv'
<1>1. job' \in [Job -> ImageWork] /\ job'[j] = next /\ \A i \in Job : i # j => job'[i] = job[i]
  BY TurnOnWay DEF ImagesInv, Turns
<1>2. Halves'
  BY <1>1 DEF ImagesInv, Halves, Half
<1>3. NothingStray'
  BY <1>1 DEF NothingStray, Half
<1>4. Calm' => \A w : OnWay(w)' => w = next
  BY TurnOnWay
<1>5. Calm' => \A w : OnWay(w)' => Placed(w)'
  BY <1>4 DEF Placed
<1> QED BY <1>1, <1>2, <1>3, <1>5, TurnTaken DEF ImagesInv, Turns

LEMMA NextOrderIsAfter ==
    ASSUME ImageTyped
    PROVE  NextOrder \in Nat /\ \A f \in Shown : image[f] < NextOrder
<1>1. CASE Shown = {}
  BY <1>1 DEF NextOrder
<1>2. CASE Shown # {}
  <2>1. PICK S : S = {image[f] : f \in Shown}
    OBVIOUS
  <2>2. IsFiniteSet(S)
    BY <2>1, ValuesAreFinite DEF ImageTyped
  <2>3. S # {} /\ S \subseteq Nat /\ S \subseteq Int
    BY <1>2, <2>1 DEF ImageTyped, Shown
  <2>4. Max(S) \in S /\ \A y \in S : y <= Max(S)
    BY <2>2, <2>3, MaxOfFinite
  <2>5. PICK m : m = Max(S)
    OBVIOUS
  <2>6. \E f \in Shown : \A g \in Shown : image[g] <= image[f]
    BY <2>1, <2>4, <2>5
  <2>7. PICK h : h = CHOOSE f \in Shown : \A g \in Shown : image[g] <= image[f]
    OBVIOUS
  <2>8. h \in Shown /\ \A g \in Shown : image[g] <= image[h]
    BY <2>6, <2>7
  <2>9. NextOrder = 1 + image[h]
    BY <1>2, <2>7 DEF NextOrder
  <2>10. image[h] \in Nat /\ \A g \in Shown : image[g] \in Nat
    BY <2>8 DEF ImageTyped, Shown
  <2> QED BY <2>8, <2>9, <2>10
<1> QED BY <1>1, <1>2

\* The last place a list gives a name.
Place(list, f) == CHOOSE i \in DOMAIN list : list[i] = f /\ \A k \in DOMAIN list : list[k] = f => k <= i

LEMMA PlaceIsLast ==
    ASSUME NEW S, NEW list \in Seq(S), NEW f \in {list[i] : i \in DOMAIN list}
    PROVE  Place(list, f) \in Nat \ {0} /\ list[Place(list, f)] = f
<1>1. DOMAIN list = 1 .. Len(list) /\ Len(list) \in Nat
  OBVIOUS
<1>2. PICK T : T = {i \in DOMAIN list : list[i] = f}
  OBVIOUS
<1>3. T # {} /\ T \subseteq Int /\ T \subseteq DOMAIN list /\ IsFiniteSet(T)
  <2>1. IsFiniteSet(DOMAIN list)
    BY <1>1, FS_Interval
  <2> QED BY <1>1, <1>2, <2>1, FS_Subset
<1>4. Max(T) \in T /\ \A y \in T : y <= Max(T)
  BY <1>3, MaxOfFinite
<1>5. PICK m : m = Max(T)
  OBVIOUS
<1>6. \E i \in DOMAIN list : list[i] = f /\ \A k \in DOMAIN list : list[k] = f => k <= i
  BY <1>2, <1>4, <1>5
<1> QED BY <1>1, <1>6 DEF Place

\* As many names as there are pictures, none twice: all the pictures.
LEMMA AllNamed ==
    ASSUME NEW S, IsFiniteSet(S), NEW T \in SUBSET S, Cardinality(T) = Cardinality(S)
    PROVE  T = S
  BY FS_Subset

LEMMA ImagesStep ==
    ASSUME Taken, ImagesInv, subject = "images", NEW j \in Job, ImagesNext(j)
    PROVE  Taken' /\ ImagesInv'
<1>1. /\ ImageTyped /\ Halves /\ NothingStray /\ job \in [Job -> ImageWork] /\ Idle \in ImageWork
      /\ job = [i \in Job |-> job[i]] /\ ~Half(Idle)
  BY DEF ImagesInv, Taken, ImageWork, Half, Idle
<1>2. ASSUME NEW next \in ImageWork, ~Half(next), Begin(j, next), UNCHANGED images,
             Calm /\ Placed(Idle) => Placed(next)
      PROVE  Taken' /\ ImagesInv'
  <2>1. Shown' = Shown /\ ImageTyped'
    BY <1>1, <1>2 DEF images, Shown, ImageTyped
  <2>2. Turns(j, next) /\ job[j] = Idle
    BY <1>2, BeginTurns
  <2>3. Calm' => Placed(next)'
    BY <1>2, <2>1, BeginOnWay DEF ImagesInv, Placed, images
  <2>4. "failure" \notin met' =>
            \A f \in stored' : f \in Shown' \/ \E i \in Job : i # j /\ Half(job[i]) /\ job[i].file = f
    BY <1>1, <1>2, <2>1, <2>2 DEF NothingStray, Turns, images
  <2> QED BY <1>1, <1>2, <2>1, <2>2, <2>3, <2>4, ImagesTurned DEF Halves, images
<1>3. ASSUME NEW n \in 1 .. 2, uploadImagesHandler(j, n)
      PROVE  Taken' /\ ImagesInv'
  <2>1. PICK o \in Nat : o = NextOrder
    BY <1>1, NextOrderIsAfter
  <2>2. PICK next : next = [op |-> "put", left |-> n, order |-> o]
    OBVIOUS
  <2>3. next \in ImageWork /\ next.op = "put" /\ next.order = o /\ ~Half(next)
    BY <2>2 DEF ImageWork, Half
  <2>4. Placed(Idle) => Placed(next)
    BY <1>1, <2>1, <2>3, NextOrderIsAfter DEF Placed
  <2>5. Begin(j, next) /\ UNCHANGED images
    BY <1>3, <2>1, <2>2 DEF uploadImagesHandler
  <2> QED BY <1>2, <2>3, <2>4, <2>5
<1>4. ASSUME NEW f \in File, deleteImageHandler(j, f)
      PROVE  Taken' /\ ImagesInv'
  <2>1. PICK next : next = [op |-> "unrow", file |-> f]
    OBVIOUS
  <2>2. next \in ImageWork /\ next.op = "unrow" /\ ~Half(next)
    BY <2>1 DEF ImageWork, Half
  <2>3. Placed(Idle) => Placed(next)
    BY <2>2 DEF Placed
  <2> QED BY <1>2, <1>4, <2>1, <2>2, <2>3 DEF deleteImageHandler
<1>5. ASSUME NEW list \in [1 .. Cardinality(Shown) -> Shown], reorderImagesHandler(j, list)
      PROVE  Taken' /\ ImagesInv'
  <2>1. list \in Seq(File)
    <3>1. PICK n \in Nat : n = Cardinality(Shown)
      BY <1>1, FS_CardinalityType DEF ImageTyped
    <3>2. list \in [1 .. n -> File]
      BY <1>5, <3>1 DEF Shown
    <3> QED BY <3>2
  <2>2. PICK next : next = [op |-> "reorder", list |-> list]
    OBVIOUS
  <2>3. next \in ImageWork /\ next.op = "reorder" /\ next.list = list /\ ~Half(next)
    BY <2>1, <2>2 DEF ImageWork, Half
  <2>4. Placed(Idle) => Placed(next)
    BY <1>5, <2>3 DEF Placed, reorderImagesHandler
  <2> QED BY <1>2, <1>5, <2>2, <2>3, <2>4 DEF reorderImagesHandler
<1>6. CASE Put(j)
  <2>1. PICK w \in ImageWork : w = job[j] /\ w.op = "put" /\ Busy(j) /\ OnWay(w)
    BY <1>1, <1>6, AtOnWay DEF Put, At
  <2>2. PICK f \in Fresh : /\ stored' = stored \cup {f}
                           /\ Goto(j, [op |-> "row", left |-> w.left - 1, order |-> w.order, file |-> f])
    BY <1>6, <2>1 DEF Put
  <2>3. PICK next : next = [op |-> "row", left |-> w.left - 1, order |-> w.order, file |-> f]
    OBVIOUS
  <2>4. /\ next \in ImageWork /\ next.op = "row" /\ next.order = w.order /\ next.file = f
        /\ f \in File /\ f \notin Shown /\ \A i \in Job : Half(job[i]) => job[i].file # f
    <3>1. w.left - 1 \in Nat /\ w.order \in Nat /\ f \in File
      BY <2>1, <2>2, ImageWorkTyped DEF Fresh
    <3> QED BY <2>2, <2>3, <3>1 DEF ImageWork, Fresh, Shown, Half
  <2>5. Turns(j, next) /\ met' = met
    BY <2>1, <2>2, <2>3, GotoTurns
  <2>6. UNCHANGED <<image, muddled>> /\ Shown' = Shown
    BY <1>6 DEF Put, Shown
  <2>7. ImageTyped'
    BY <1>1, <2>2, <2>4, <2>6 DEF ImageTyped
  <2>8. Calm' => Placed(next)'
    BY <2>1, <2>4, <2>5, <2>6 DEF ImagesInv, Placed, Calm
  <2>9. "failure" \notin met' =>
            \A g \in stored' : \/ g \in Shown'
                               \/ Half(next) /\ next.file = g
                               \/ \E i \in Job : i # j /\ Half(job[i]) /\ job[i].file = g
    BY <1>1, <2>1, <2>2, <2>4, <2>5, <2>6 DEF NothingStray, Half
  <2> QED BY <1>1, <2>2, <2>4, <2>5, <2>6, <2>7, <2>8, <2>9, ImagesTurned DEF Halves
<1>7. CASE CreateRow(j)
  <2>1. PICK w \in ImageWork : w = job[j] /\ w.op = "row" /\ Busy(j) /\ OnWay(w)
    BY <1>1, <1>7, AtOnWay DEF CreateRow, At
  <2>2. PICK f \in File, o \in Nat : f = w.file /\ o = w.order /\ w.left \in Nat
    BY <2>1, ImageWorkTyped
  <2>3. f \notin Shown /\ f \in stored /\ \A i \in Job : i # j /\ Half(job[i]) => job[i].file # f
    BY <1>1, <2>1, <2>2 DEF Halves, Half
  <2>4. PICK next : next = IF w.left = 0 THEN Idle ELSE [op |-> "put", left |-> w.left, order |-> o + 1]
    OBVIOUS
  <2>5. /\ next \in ImageWork /\ ~Half(next)
        /\ next = Idle \/ (next.op = "put" /\ next.order = o + 1)
    <3>1. CASE w.left = 0
      BY <1>1, <2>4, <3>1
    <3>2. CASE w.left # 0
      <4>1. next = [op |-> "put", left |-> w.left, order |-> o + 1] /\ w.left \in Nat \ {0} /\ o + 1 \in Nat
        BY <2>2, <2>4, <3>2
      <4>2. next \in [op : {"put"}, left : Nat \ {0}, order : Nat]
        BY <4>1
      <4> QED BY <4>1, <4>2 DEF ImageWork, Half
    <3> QED BY <3>1, <3>2
  <2>6. /\ Turns(j, next) /\ met' = met /\ image' = [image EXCEPT ![f] = o]
        /\ UNCHANGED <<stored, muddled>>
    BY <1>7, <2>1, <2>2, <2>4, GotoTurns DEF CreateRow
  <2>7. /\ image' \in [File -> Nat \cup {None}] /\ image'[f] = o
        /\ \A g \in File : g # f => image'[g] = image[g]
        /\ Shown' = Shown \cup {f}
    BY <1>1, <2>2, <2>6, HandlersAssumption DEF ImageTyped, Shown
  <2>8. ImageTyped'
    BY <1>1, <2>3, <2>6, <2>7, FS_AddElement DEF ImageTyped
  <2>9. Calm' => Placed(w)
    BY <2>1, <2>6 DEF ImagesInv, Calm
  <2>10. Calm' => Placed(next)'
    <3>1. \A g \in Shown : g \in File /\ image[g] \in Nat /\ g # f
      BY <1>1, <2>3 DEF ImageTyped, Shown
    <3>2. next.op \in {"put", "row"} => next.order = o + 1
      BY <2>5 DEF Idle
    <3>3. next.op # "reorder"
      BY <2>5 DEF Idle
    <3>4. ASSUME Placed(w), ~muddled'
          PROVE  /\ \A g, h \in Shown' : g # h => image'[g] # image'[h]
                 /\ \A g \in Shown' : image'[g] < o + 1
      <4>1. \A g \in Shown : image[g] < o
        BY <2>1, <2>2, <2>6, <3>4 DEF Placed
      <4>2. \A g, h \in Shown : g # h => image[g] # image[h]
        BY <2>6, <3>4 DEF Placed
      <4> QED BY <2>7, <3>1, <4>1, <4>2
    <3> QED BY <2>9, <3>2, <3>3, <3>4 DEF Placed
  <2>11. "failure" \notin met' =>
            \A g \in stored' : \/ g \in Shown'
                               \/ \E i \in Job : i # j /\ Half(job[i]) /\ job[i].file = g
    BY <1>1, <2>1, <2>2, <2>6, <2>7 DEF NothingStray
  <2> QED BY <1>1, <2>3, <2>5, <2>6, <2>7, <2>8, <2>10, <2>11, ImagesTurned DEF Halves
<1>8. CASE UploadFails(j)
  <2>1. Busy(j) /\ Fails(j, Idle) /\ UNCHANGED images
    BY <1>8, AtBusy DEF UploadFails
  <2>2. Turns(j, Idle) /\ "failure" \in met'
    BY <2>1, FailsTurns
  <2>3. Shown' = Shown /\ ImageTyped' /\ ~Calm'
    BY <1>1, <2>1, <2>2 DEF images, Shown, ImageTyped, Calm
  <2> QED BY <1>1, <2>1, <2>2, <2>3, ImagesTurned DEF Halves, images
<1>9. CASE DeleteRow(j)
  <2>1. PICK w \in ImageWork : w = job[j] /\ w.op = "unrow" /\ Busy(j) /\ OnWay(w)
    BY <1>1, <1>9, AtOnWay DEF DeleteRow, At
  <2>2. PICK f \in File : f = w.file
    BY <2>1, ImageWorkTyped
  <2>3. PICK next : next = IF f \in Shown THEN [op |-> "unlink", file |-> f] ELSE Idle
    OBVIOUS
  <2>4. /\ next \in ImageWork /\ next.op \notin {"put", "row", "reorder"}
        /\ Half(next) => next.file = f /\ f \in Shown
        /\ f \in Shown => Half(next)
    BY <1>1, <2>2, <2>3 DEF ImageWork, Half, Idle
  <2>5. /\ Turns(j, next) /\ met' = met /\ image' = [image EXCEPT ![f] = None]
        /\ UNCHANGED <<stored, muddled>>
    BY <1>9, <2>1, <2>2, <2>3, GotoTurns DEF DeleteRow
  <2>6. /\ image' \in [File -> Nat \cup {None}]
        /\ \A g \in File : g # f => image'[g] = image[g]
        /\ Shown' = Shown \ {f}
    BY <1>1, <2>2, <2>5 DEF ImageTyped, Shown
  <2>7. ImageTyped'
    BY <1>1, <2>5, <2>6, FS_RemoveElement DEF ImageTyped
  <2>8. Calm' => Placed(next)'
    <3>1. Calm' => Placed(w)
      BY <2>1, <2>5 DEF ImagesInv, Calm
    <3>2. \A g \in Shown' : g \in Shown /\ image'[g] = image[g]
      BY <2>6 DEF Shown
    <3> QED BY <2>4, <2>5, <3>1, <3>2 DEF Placed
  <2>9. "failure" \notin met' =>
            \A g \in stored' : \/ g \in Shown'
                               \/ Half(next) /\ next.file = g
                               \/ \E i \in Job : i # j /\ Half(job[i]) /\ job[i].file = g
    BY <1>1, <2>1, <2>4, <2>5, <2>6 DEF NothingStray, Half
  <2>10. /\ next.op # "row"
         /\ Half(next) => /\ next.file \notin Shown'
                          /\ \A i \in Job : i # j /\ Half(job[i]) => job[i].file # next.file
    BY <1>1, <2>4, <2>6 DEF Halves
  <2> QED BY <1>1, <2>4, <2>5, <2>6, <2>7, <2>8, <2>9, <2>10, ImagesTurned DEF Halves
<1>10. CASE DeleteFile(j)
  <2>1. PICK w \in ImageWork : w = job[j] /\ w.op = "unlink" /\ Busy(j) /\ OnWay(w)
    BY <1>1, <1>10, AtOnWay DEF DeleteFile, At
  <2>2. PICK f \in File : f = w.file
    BY <2>1, ImageWorkTyped
  <2>3. f \notin Shown /\ \A i \in Job : i # j /\ Half(job[i]) => job[i].file # f
    BY <1>1, <2>1, <2>2 DEF Halves, Half
  <2>4. UNCHANGED <<image, muddled>> /\ Shown' = Shown
    BY <1>10 DEF DeleteFile, Shown
  <2>5. /\ Turns(j, Idle)
        /\ \/ stored' = stored \ {f} /\ met' = met
           \/ stored' = stored /\ "failure" \in met'
    BY <1>10, <2>1, <2>2, GotoTurns, FailsTurns DEF DeleteFile
  <2>6. ImageTyped'
    BY <1>1, <2>3, <2>4, <2>5 DEF ImageTyped
  <2>7. Calm' => Placed(Idle)'
    <3>1. Calm' => Placed(w)
      BY <2>1, <2>5 DEF ImagesInv, Calm
    <3> QED BY <2>4, <3>1 DEF Placed, Idle
  <2>8. "failure" \notin met' =>
            \A g \in stored' : g \in Shown' \/ \E i \in Job : i # j /\ Half(job[i]) /\ job[i].file = g
    BY <1>1, <2>1, <2>2, <2>4, <2>5 DEF NothingStray
  <2>9. \A i \in Job : i # j /\ Half(job[i]) =>
            job[i].file \notin Shown' /\ (job[i].op = "row" => job[i].file \in stored')
    BY <1>1, <2>3, <2>4, <2>5 DEF Halves
  <2> QED BY <1>1, <2>5, <2>6, <2>7, <2>8, <2>9, ImagesTurned
<1>11. CASE Reorder(j)
  <2>1. PICK w \in ImageWork : w = job[j] /\ w.op = "reorder" /\ Busy(j) /\ OnWay(w)
    BY <1>1, <1>11, AtOnWay DEF Reorder, At
  <2>2. PICK list \in Seq(File) : list = w.list
    BY <2>1, ImageWorkTyped
  <2>3. PICK named : named = {list[i] : i \in DOMAIN list}
    OBVIOUS
  <2>4. Turns(j, Idle) /\ met' = met /\ UNCHANGED stored
    BY <1>11, <2>1, GotoTurns DEF Reorder
  <2>5. \/ /\ named \subseteq Shown
           /\ image' = [f \in File |-> IF f \in named THEN Place(list, f) - 1 ELSE image[f]]
           /\ muddled' = (muddled \/ Cardinality(named) # Len(list))
        \/ UNCHANGED <<image, muddled>>
    BY <1>11, <2>1, <2>2, <2>3 DEF Reorder, Place
  <2>6. CASE UNCHANGED <<image, muddled>>
    <3>1. Shown' = Shown /\ ImageTyped'
      BY <1>1, <2>4, <2>6 DEF Shown, ImageTyped
    <3>2. Calm' => Placed(Idle)'
      <4>1. Calm' => Placed(w)
        BY <2>1, <2>4 DEF ImagesInv, Calm
      <4> QED BY <2>6, <3>1, <4>1 DEF Placed, Idle
    <3>3. "failure" \notin met' =>
              \A g \in stored' : g \in Shown' \/ \E i \in Job : i # j /\ Half(job[i]) /\ job[i].file = g
      BY <1>1, <2>1, <2>4, <3>1 DEF NothingStray, Half
    <3> QED BY <1>1, <2>4, <3>1, <3>2, <3>3, ImagesTurned DEF Halves
  <2>7. CASE /\ named \subseteq Shown
             /\ image' = [f \in File |-> IF f \in named THEN Place(list, f) - 1 ELSE image[f]]
             /\ muddled' = (muddled \/ Cardinality(named) # Len(list))
    <3>1. \A f \in named : Place(list, f) \in Nat \ {0} /\ list[Place(list, f)] = f
      BY <2>3, PlaceIsLast
    <3>2. /\ image' \in [File -> Nat \cup {None}] /\ Shown' = Shown
          /\ \A f \in named : image'[f] = Place(list, f) - 1
      <4>1. \A f \in named : Place(list, f) - 1 \in Nat /\ f \in Shown /\ f \in File
        BY <2>7, <3>1 DEF Shown
      <4>2. \A f \in File : image'[f] = IF f \in named THEN Place(list, f) - 1 ELSE image[f]
        BY <2>7
      <4>3. \A f \in File : image'[f] \in Nat \cup {None} /\ (image'[f] # None <=> image[f] # None)
        BY <1>1, <4>1, <4>2, HandlersAssumption DEF ImageTyped, Shown
      <4>4. DOMAIN image' = File /\ image' = [f \in File |-> image'[f]]
        BY <2>7
      <4> QED BY <4>1, <4>2, <4>3, <4>4 DEF Shown
    <3>3. ImageTyped'
      BY <1>1, <2>4, <3>2 DEF ImageTyped
    <3>4. Calm' => Placed(Idle)'
      <4>1. SUFFICES ASSUME Calm', ~muddled'
                     PROVE  \A f, g \in Shown' : f # g => image'[f] # image'[g]
        BY DEF Placed, Idle
      <4>2. Placed(w) /\ ~muddled /\ Cardinality(named) = Len(list)
        BY <2>1, <2>4, <2>7, <4>1 DEF ImagesInv, Calm
      <4>3. Cardinality(named) = Cardinality(Shown)
        BY <2>1, <2>2, <4>2 DEF Placed
      <4>4. named = Shown
        BY <1>1, <2>7, <4>3, AllNamed DEF ImageTyped
      <4>5. ASSUME NEW f \in named, NEW g \in named, image'[f] = image'[g]
            PROVE  f = g
        <5>1. Place(list, f) = Place(list, g)
          BY <3>1, <3>2, <4>5
        <5> QED BY <3>1, <5>1
      <4> QED BY <3>2, <4>4, <4>5
    <3>5. "failure" \notin met' =>
              \A g \in stored' : g \in Shown' \/ \E i \in Job : i # j /\ Half(job[i]) /\ job[i].file = g
      BY <1>1, <2>1, <2>4, <3>2 DEF NothingStray, Half
    <3> QED BY <1>1, <2>4, <3>2, <3>3, <3>4, <3>5, ImagesTurned DEF Halves
  <2> QED BY <2>5, <2>6, <2>7
<1> QED BY <1>3, <1>4, <1>5, <1>6, <1>7, <1>8, <1>9, <1>10, <1>11 DEF ImagesNext

LEMMA PicturesKept ==
    ASSUME Taken, ImagesInv
    PROVE  PicturesStand
<1>1. CASE subject = "images"
  <2>1. "failure" \notin met /\ (\A j \in Job : ~Busy(j)) => stored = Shown
    BY <1>1 DEF ImagesInv, ImageTyped, NothingStray, Busy, Half, Idle
  <2>2. Alone => Calm /\ OnWay(Idle)
    BY DEF Alone, Calm, OnWay
  <2> QED BY <1>1, <2>1, <2>2 DEF ImagesInv, ImageTyped, PicturesStand, Placed
<1>2. CASE subject # "images"
  BY <1>2 DEF ImagesInv, ImageTyped, PicturesStand
<1> QED BY <1>1, <1>2

-----------------------------------------------------------------------------
(* The storefront *)

WareStates == [live : BOOLEAN, featured : BOOLEAN, position : Nat]
SizeStates == [live : BOOLEAN, stock : Nat]

\* While an arrangement stands, its products have the places it gave them.
StorefrontInv ==
    /\ ware \in [DOMAIN Garment -> WareStates] /\ size \in [DOMAIN Size -> SizeStates]
    /\ arranged \in Seq(DOMAIN Garment)
    /\ \A i \in DOMAIN arranged : ware[arranged[i]].position = i - 1

LEMMA StorefrontInit == ASSUME Init PROVE StorefrontInv
<1>1. /\ ware = [g \in DOMAIN Garment |-> [live |-> TRUE, featured |-> FALSE, position |-> 0]]
      /\ size = [v \in DOMAIN Size |-> [live |-> TRUE, stock |-> 1]] /\ arranged = <<>>
  BY DEF Init, seedStorefront
<1>2. ware \in [DOMAIN Garment -> WareStates] /\ size \in [DOMAIN Size -> SizeStates]
  BY <1>1 DEF WareStates, SizeStates
<1> QED BY <1>1, <1>2 DEF StorefrontInv

LEMMA StorefrontKept ==
    ASSUME StorefrontInv, UNCHANGED storefront
    PROVE  StorefrontInv'
  BY DEF StorefrontInv, storefront

\* Names each given once stand each in one place.
LEMMA NamedOnce ==
    ASSUME NEW S, NEW n \in Nat, NEW list \in [1 .. n -> S], Cardinality({list[i] : i \in DOMAIN list}) = n
    PROVE  \A i, k \in DOMAIN list : list[i] = list[k] => i = k
<1>3. PICK T : T = {list[i] : i \in DOMAIN list}
  OBVIOUS
<1>4. list \in Surjection(1 .. n, T)
  <2>1. list \in [1 .. n -> T]
    BY <1>3
  <2>2. \A t \in T : \E i \in 1 .. n : list[i] = t
    BY <1>3
  <2> QED BY <2>1, <2>2 DEF Surjection
<1>5. IsFiniteSet(1 .. n) /\ Cardinality(1 .. n) = n
  <2>1. 1 \in Int /\ n \in Int /\ (IF 1 > n THEN 0 ELSE n - 1 + 1) = n
    OBVIOUS
  <2> QED BY <2>1, FS_Interval
<1>6. list \in Injection(1 .. n, T)
  BY <1>3, <1>4, <1>5, FS_Surjection
<1>7. IsInjective(list)
  BY <1>6 DEF Injection
<1> QED BY <1>7 DEF IsInjective

LEMMA StorefrontStep ==
    ASSUME Taken, StorefrontInv, NEW j \in Job, StorefrontNext(j)
    PROVE  Taken' /\ StorefrontInv'
<1>1. ASSUME NEW g \in DOMAIN Garment, NEW l \in BOOLEAN, NEW f \in BOOLEAN, SaveProduct(j, g, l, f)
      PROVE  Taken' /\ StorefrontInv'
  <2>1. Begin(j, Idle) /\ ware' = [ware EXCEPT ![g].live = l, ![g].featured = f] /\ UNCHANGED <<size, arranged>>
    BY <1>1 DEF SaveProduct
  <2>2. PICK r \in WareStates : r = ware[g]
    BY DEF StorefrontInv
  <2>3. PICK s : s = [r EXCEPT !.live = l]
    OBVIOUS
  <2>4. s \in WareStates /\ s.position = r.position
    BY <2>3 DEF WareStates
  <2>5. PICK t : t = [s EXCEPT !.featured = f]
    OBVIOUS
  <2>6. t \in WareStates /\ t.position = r.position
    BY <2>4, <2>5 DEF WareStates
  <2>7. PICK a : a = [ware EXCEPT ![g] = s]
    OBVIOUS
  <2>8. a \in [DOMAIN Garment -> WareStates] /\ a[g] = s /\ \A h \in DOMAIN Garment : h # g => a[h] = ware[h]
    BY <2>4, <2>7 DEF StorefrontInv
  <2>9. ware' = [a EXCEPT ![g] = t]
    BY <2>1, <2>2, <2>3, <2>5, <2>7, <2>8 DEF StorefrontInv
  <2>10. /\ ware' \in [DOMAIN Garment -> WareStates]
         /\ \A h \in DOMAIN Garment : ware'[h].position = ware[h].position
    BY <2>2, <2>6, <2>8, <2>9
  <2>11. \A i \in DOMAIN arranged : arranged[i] \in DOMAIN Garment
    BY DEF StorefrontInv
  <2> QED BY <2>1, <2>10, <2>11, BeginTurns, TurnTaken DEF StorefrontInv
<1>2. ASSUME NEW v \in DOMAIN Size, SaveVariant(j, v) \/ SellOut(j, v)
      PROVE  Taken' /\ StorefrontInv'
  <2>1. PICK r \in SizeStates : r = size[v]
    BY DEF StorefrontInv
  <2>2. \E s \in SizeStates : size' = [size EXCEPT ![v] = s]
    <3>1. CASE SaveVariant(j, v)
      <4>1. PICK s : s = [r EXCEPT !.live = ~r.live]
        OBVIOUS
      <4>2. s \in SizeStates
        BY <4>1 DEF SizeStates
      <4> QED BY <2>1, <3>1, <4>1, <4>2 DEF SaveVariant, StorefrontInv
    <3>2. CASE SellOut(j, v)
      <4>1. PICK s : s = [r EXCEPT !.stock = 0]
        OBVIOUS
      <4>2. s \in SizeStates
        BY <4>1 DEF SizeStates
      <4> QED BY <2>1, <3>2, <4>1, <4>2 DEF SellOut, StorefrontInv
    <3> QED BY <1>2, <3>1, <3>2
  <2>3. size' \in [DOMAIN Size -> SizeStates]
    BY <2>2 DEF StorefrontInv
  <2>4. Begin(j, Idle) /\ UNCHANGED <<ware, arranged>>
    BY <1>2 DEF SaveVariant, SellOut
  <2> QED BY <2>3, <2>4, BeginTurns, TurnTaken DEF StorefrontInv
<1>3. ASSUME NEW c \in DOMAIN Shelf, NEW n \in 1 .. 2, NEW list \in [1 .. n -> DOMAIN Garment],
             reorderHandler(j, c, list)
      PROVE  Taken' /\ StorefrontInv'
  <2>1. list \in Seq(DOMAIN Garment)
    OBVIOUS
  <2>2. PICK filed : filed = {g \in DOMAIN Garment : Garment[g].category = c}
    OBVIOUS
  <2>3. PICK named : named = {list[i] : i \in DOMAIN list}
    OBVIOUS
  <2>4. PICK place : place = [g \in named |-> CHOOSE i \in DOMAIN list : list[i] = g]
    OBVIOUS
  <2>5. \A g \in named : place[g] \in DOMAIN list /\ list[place[g]] = g
    BY <2>3, <2>4
  <2>6. Cardinality(named) = Len(list) /\ Begin(j, Idle) /\ UNCHANGED size
    BY <1>3, <2>3 DEF reorderHandler
  <2>7. \A i, k \in DOMAIN list : list[i] = list[k] => i = k
    <3>1. n \in Nat /\ Len(list) = n
      BY <2>1
    <3> QED BY <2>3, <2>6, <3>1, NamedOnce
  <2>8. \A i \in DOMAIN list : list[i] \in named /\ place[list[i]] = i
    BY <2>3, <2>5, <2>7
  <2>9. /\ ware' = [g \in DOMAIN ware |->
                       IF g \in named THEN [ware[g] EXCEPT !.position = place[g] - 1] ELSE ware[g]]
        /\ arranged' = IF named = filed THEN list
                       ELSE IF named \cap {arranged[i] : i \in DOMAIN arranged} = {} THEN arranged ELSE <<>>
    BY <1>3, <2>2, <2>3, <2>4 DEF reorderHandler
  <2>10. \A g \in named : place[g] - 1 \in Nat
    BY <2>1, <2>5
  <2>11. \A g \in DOMAIN Garment : /\ ware'[g] \in WareStates
                                   /\ ware'[g].position = IF g \in named THEN place[g] - 1 ELSE ware[g].position
    <3>1. ASSUME NEW g \in DOMAIN Garment
          PROVE  /\ ware'[g] \in WareStates
                 /\ ware'[g].position = IF g \in named THEN place[g] - 1 ELSE ware[g].position
      <4>1. PICK r \in WareStates : r = ware[g]
        BY DEF StorefrontInv
      <4>2. CASE g \in named
        <5>1. PICK p \in Nat : p = place[g] - 1
          BY <2>10, <4>2
        <5>2. ware'[g] = [r EXCEPT !.position = p]
          BY <2>9, <4>1, <4>2, <5>1 DEF StorefrontInv
        <5> QED BY <4>2, <5>1, <5>2 DEF WareStates
      <4>3. CASE g \notin named
        BY <2>9, <4>1, <4>3 DEF StorefrontInv
      <4> QED BY <4>2, <4>3
    <3> QED BY <3>1
  <2>12. ware' \in [DOMAIN Garment -> WareStates]
    BY <2>9, <2>11 DEF StorefrontInv
  <2>13. arranged' \in Seq(DOMAIN Garment)
    <3>1. arranged' \in {list, arranged, <<>>}
      BY <2>9
    <3>2. arranged \in Seq(DOMAIN Garment) /\ <<>> \in Seq(DOMAIN Garment)
      BY DEF StorefrontInv
    <3> QED BY <2>1, <3>1, <3>2
  <2>14. \A i \in DOMAIN arranged' : ware'[arranged'[i]].position = i - 1
    <3>1. CASE arranged' = list
      BY <2>1, <2>8, <2>11, <3>1
    <3>2. CASE arranged' = arranged /\ named \cap {arranged[i] : i \in DOMAIN arranged} = {}
      <4>1. ASSUME NEW i \in DOMAIN arranged
            PROVE  ware'[arranged[i]].position = i - 1
        <5>1. PICK g : g = arranged[i]
          OBVIOUS
        <5>2. g \in DOMAIN Garment /\ g \notin named /\ ware[g].position = i - 1
          BY <3>2, <5>1 DEF StorefrontInv
        <5> QED BY <2>11, <5>1, <5>2
      <4> QED BY <3>2, <4>1
    <3>3. CASE arranged' = <<>>
      BY <3>3
    <3> QED BY <2>9, <3>1, <3>2, <3>3
  <2> QED BY <2>6, <2>12, <2>13, <2>14, BeginTurns, TurnTaken DEF StorefrontInv
<1> QED BY <1>1, <1>2, <1>3 DEF StorefrontNext

\* What the panel counts is what is found when it is ticked.
LEMMA TickedIsFound ==
    ASSUME NEW q, NEW r, NEW o, q.chosen = {}, r.chosen = {o},
           r.category = q.category, r.least = q.least, r.inStock = q.inStock
    PROVE  listPublicProducts(r) =
               {g \in listPublicProducts(q) : \E v \in SizesOf(g) : o \in Size[v].values}
<1>1. \A g : Carries(g, {})
  BY DEF Carries
<1>2. \A g : Carries(g, {o}) <=> \E v \in SizesOf(g) : o \in Size[v].values
  <2>1. {Attribute[p] : p \in {o}} = {Attribute[o]}
    OBVIOUS
  <2>2. \A v : \A p \in Size[v].values \cap {o} : p = o
    OBVIOUS
  <2>3. \A v : o \in Size[v].values => o \in Size[v].values \cap {o}
    OBVIOUS
  <2> QED BY <2>1, <2>2, <2>3 DEF Carries
<1> QED BY <1>1, <1>2 DEF listPublicProducts, buildWhere

LEMMA PanelLeads ==
    ASSUME StorefrontInv
    PROVE  PanelLeadsSomewhere
<1>1. SUFFICES ASSUME NEW q \in Query({0, 4})
      PROVE  LET panel == listFacets(q)
                 found(o) == listPublicProducts([q EXCEPT !.chosen = {o}])
             IN  /\ \A o \in DOMAIN panel.values :
                       panel.values[o] = Cardinality({v \in UNION {SizesOf(g) : g \in found(o)} : o \in Size[v].values})
                 /\ \A g \in listPublicProducts(q) :
                       /\ panel.price[1] <= Garment[g].price /\ Garment[g].price <= panel.price[2]
                       /\ Garment[g].category \in panel.categories
                       /\ UNION {Size[v].values : v \in SizesOf(g)} \subseteq DOMAIN panel.values
  BY DEF PanelLeadsSomewhere
<1>2. /\ q.chosen = {} /\ [q EXCEPT !.chosen = {}] = q
      /\ \A o : LET r == [q EXCEPT !.chosen = {o}]
                IN  r.chosen = {o} /\ r.category = q.category /\ r.least = q.least /\ r.inStock = q.inStock
  BY DEF Query
<1> DEFINE where == listPublicProducts(q)
           counted(o) == {v \in DOMAIN Size : Size[v].of \in where /\ size[v].live /\ o \in Size[v].values}
           prices == {Garment[g].price : g \in where}
<1>3. PICK panel : panel = listFacets(q)
  OBVIOUS
<1>4. /\ panel.values = [o \in {p \in DOMAIN Attribute : Cardinality(counted(p)) > 0} |-> Cardinality(counted(o))]
      /\ panel.price = IF where = {} THEN <<0, 0>> ELSE <<Min(prices), Max(prices)>>
      /\ panel.categories = {Garment[g].category : g \in {h \in DOMAIN Garment : ware[h].live}}
  BY <1>2, <1>3 DEF listFacets
<1>5. where \subseteq DOMAIN Garment /\ \A g \in where : ware[g].live
  BY DEF listPublicProducts, buildWhere
<1>6. \A o : IsFiniteSet(counted(o))
  BY StorefrontAssumption, FS_Subset
<1>7. ASSUME NEW o
      PROVE  {v \in UNION {SizesOf(g) : g \in listPublicProducts([q EXCEPT !.chosen = {o}])} : o \in Size[v].values}
                 = counted(o)
  <2>1. PICK r : r = [q EXCEPT !.chosen = {o}]
    OBVIOUS
  <2>2. PICK found : found = listPublicProducts(r)
    OBVIOUS
  <2>3. found = {g \in where : \E v \in SizesOf(g) : o \in Size[v].values}
    <3>1. q.chosen = {} /\ r.chosen = {o} /\ r.category = q.category /\ r.least = q.least /\ r.inStock = q.inStock
      BY <1>2, <2>1
    <3>2. listPublicProducts(r) =
              {g \in listPublicProducts(q) : \E v \in SizesOf(g) : o \in Size[v].values}
      BY ONLY <3>1, TickedIsFound
    <3> QED BY <2>2, <3>2
  <2>4. \A v : v \in UNION {SizesOf(g) : g \in found} <=>
                   v \in DOMAIN Size /\ size[v].live /\ Size[v].of \in found
    BY DEF SizesOf
  <2>5. \A v \in DOMAIN Size : size[v].live /\ o \in Size[v].values /\ Size[v].of \in where => Size[v].of \in found
    BY <2>3 DEF SizesOf
  <2>6. found \subseteq where
    BY <2>3
  <2> QED BY <2>1, <2>2, <2>4, <2>5, <2>6
<1>8. ASSUME NEW g \in where
      PROVE  /\ panel.price[1] <= Garment[g].price /\ Garment[g].price <= panel.price[2]
             /\ Garment[g].category \in panel.categories
             /\ UNION {Size[v].values : v \in SizesOf(g)} \subseteq DOMAIN panel.values
  <2>1. Garment[g].price \in prices /\ prices # {} /\ where # {}
    OBVIOUS
  <2>2. prices \subseteq Int
    BY <1>5, StorefrontAssumption
  <2>3. IsFiniteSet(prices)
    <3>1. IsFiniteSet(where)
      BY <1>5, StorefrontAssumption, FS_Subset
    <3>2. PICK f : f = [h \in where |-> Garment[h].price]
      OBVIOUS
    <3>3. prices = {f[h] : h \in where}
      BY <3>2
    <3> QED BY <3>1, <3>3, ValuesAreFinite
  <2>4. PICK S : S = prices
    OBVIOUS
  <2>5. \A y \in S : Min(S) <= y /\ y <= Max(S)
    BY <2>1, <2>2, <2>3, <2>4, MinOfFinite, MaxOfFinite
  <2>6. panel.price = <<Min(S), Max(S)>>
    BY <1>4, <2>1, <2>4
  <2>7. panel.price[1] <= Garment[g].price /\ Garment[g].price <= panel.price[2]
    BY <2>1, <2>4, <2>5, <2>6
  <2>8. Garment[g].category \in panel.categories
    BY <1>4, <1>5
  <2>9. ASSUME NEW v \in SizesOf(g), NEW o \in Size[v].values
        PROVE  o \in DOMAIN panel.values
    <3>1. v \in counted(o) /\ o \in DOMAIN Attribute
      BY <1>8, StorefrontAssumption DEF SizesOf
    <3>2. Cardinality(counted(o)) \in Nat /\ Cardinality(counted(o)) # 0
      BY <1>6, <3>1, FS_CardinalityType, FS_EmptySet
    <3> QED BY <1>4, <3>1, <3>2
  <2> QED BY <2>7, <2>8, <2>9
<1>9. \A o \in DOMAIN panel.values : panel.values[o] = Cardinality(counted(o))
  BY <1>4
<1> QED BY <1>3, <1>7, <1>8, <1>9

\* A sum of stocks is positive when one of them is.
LEMMA InStock ==
    ASSUME StorefrontInv, NEW S \in SUBSET DOMAIN Size
    PROVE  SumStock(S) > 0 <=> \E v \in S : size[v].stock > 0
<1>1. PICK f : f = [v \in DOMAIN Size |-> size[v].stock]
  OBVIOUS
<1>2. IsFiniteSet(S) /\ \A v \in S : f[v] \in Nat /\ f[v] = size[v].stock
  <2>1. IsFiniteSet(S)
    BY StorefrontAssumption, FS_Subset
  <2>2. \A v \in DOMAIN Size : size[v].stock \in Nat
    BY DEF StorefrontInv, SizeStates
  <2> QED BY <1>1, <2>1, <2>2
<1>3. SumStock(S) = SumFunctionOnSet(f, S)
  BY <1>1 DEF SumStock
<1>4. ASSUME NEW v \in S, f[v] > 0
      PROVE  SumFunctionOnSet(f, S) > 0
  <2>1. SumFunctionOnSet(f, S) = f[v] + SumFunctionOnSet(f, S \ {v})
    BY <1>2, SumSplits
  <2>2. IsFiniteSet(S \ {v})
    BY <1>2, FS_RemoveElement
  <2>3. SumFunctionOnSet(f, S \ {v}) \in Nat
    BY <1>2, <2>2, SumType
  <2> QED BY <1>2, <1>4, <2>1, <2>3
<1>5. ASSUME \A v \in S : f[v] = 0
      PROVE  SumFunctionOnSet(f, S) = 0
  <2>1. SumFunctionOnSet(f, S) = SumFunctionOnSet(f, {})
    BY <1>2, <1>5, SumDropsZeros
  <2> QED BY <2>1, SumUnfolds
<1> QED BY <1>2, <1>3, <1>4, <1>5

LEMMA CardsAreTrue ==
    ASSUME StorefrontInv
    PROVE  CardsAgree
<1>1. ASSUME NEW g \in DOMAIN Garment, ware[g].live
      PROVE  LET card_ == toProductListItem(g)
                 page_ == toProductDetail(g)
                 listed(s) == g \in listPublicProducts([category |-> None, least |-> 0, inStock |-> s, chosen |-> {}])
             IN  /\ card_.inStock = listed("yes") /\ (card_.inStock => ~listed("no"))
                 /\ page_.inStock = card_.inStock /\ page_.totalStock = card_.totalStock
                 /\ card_.fromPrice # None =>
                       \/ card_.fromPrice \in page_.setOptions \cup {page_.price}
                       \/ \E p \in page_.pieces : p.available /\ p.price = card_.fromPrice
  <2>1. PICK in \in BOOLEAN : in <=> \E v \in SizesOf(g) : size[v].stock > 0
    OBVIOUS
  <2>2. (SumStock(SizesOf(g)) > 0) = in
    <3>1. SizesOf(g) \in SUBSET DOMAIN Size
      BY DEF SizesOf
    <3> QED BY <2>1, <3>1, InStock
  <2>9. toProductListItem(g).inStock = in /\ toProductDetail(g).inStock = in
    BY <2>1, <2>2 DEF toProductListItem, toProductDetail
  <2>10. toProductDetail(g).totalStock = toProductListItem(g).totalStock
    BY DEF toProductListItem, toProductDetail
  <2>3. (g \in listPublicProducts([category |-> None, least |-> 0, inStock |-> "yes", chosen |-> {}])) <=> in
    BY <1>1, <2>1, StorefrontAssumption DEF listPublicProducts, buildWhere, Carries, Under
  <2>4. in => g \notin listPublicProducts([category |-> None, least |-> 0, inStock |-> "no", chosen |-> {}])
    <3>1. \A v \in DOMAIN Size : size[v].stock \in Nat
      BY DEF StorefrontInv, SizeStates
    <3> QED BY <2>1, <3>1 DEF listPublicProducts, buildWhere, SizesOf
  <2>5. PICK from : from = toProductListItem(g).fromPrice
    OBVIOUS
  <2>6. CASE Garment[g].parts # {}
    <3>1. from = Min(Garment[g].parts)
      BY <2>5, <2>6 DEF toProductListItem
    <3>2. IsFiniteSet(Garment[g].parts) /\ Garment[g].parts \subseteq Int
      BY StorefrontAssumption
    <3>3. from \in Garment[g].parts
      BY <2>6, <3>1, <3>2, MinOfFinite
    <3>4. from \in toProductDetail(g).setOptions
      BY <3>3 DEF toProductDetail
    <3> QED BY <2>3, <2>4, <2>5, <2>9, <2>10, <3>4
  <2>7. CASE Garment[g].parts = {} /\ Garment[g].pieces # {}
    <3>1. PICK S : S = {Garment[p].price : p \in {q \in Garment[g].pieces : ware[q].live}} \cup {Garment[g].price}
      OBVIOUS
    <3>2. from = Min(S)
      BY <2>5, <2>7, <3>1 DEF toProductListItem
    <3>3. S # {} /\ S \subseteq Int
      BY <3>1, StorefrontAssumption
    <3>4. IsFiniteSet(S)
      <4>1. PICK P : P = {q \in Garment[g].pieces : ware[q].live}
        OBVIOUS
      <4>2. P \in SUBSET DOMAIN Garment
        BY <4>1, StorefrontAssumption
      <4>3. IsFiniteSet(P)
        BY <4>2, StorefrontAssumption, FS_Subset
      <4>4. PICK f : f = [p \in P |-> Garment[p].price]
        OBVIOUS
      <4>5. {Garment[p].price : p \in P} = {f[p] : p \in P}
        BY <4>4
      <4>6. IsFiniteSet({Garment[p].price : p \in P})
        BY <4>3, <4>5, ValuesAreFinite
      <4> QED BY <3>1, <4>1, <4>6, FS_AddElement
    <3>5. from \in S
      BY <3>2, <3>3, <3>4, MinOfFinite
    <3>6. \/ from \in toProductDetail(g).setOptions \cup {toProductDetail(g).price}
          \/ \E p \in toProductDetail(g).pieces : p.available /\ p.price = from
      <4>1. CASE from = Garment[g].price
        BY <4>1 DEF toProductDetail
      <4>2. CASE from # Garment[g].price
        <5>1. PICK p \in Garment[g].pieces : ware[p].live /\ from = Garment[p].price
          BY <3>1, <3>5, <4>2
        <5>2. [price |-> from, available |-> TRUE] \in toProductDetail(g).pieces
          <6>1. ware[p].live = TRUE
            BY <5>1, StorefrontAssumption DEF StorefrontInv, WareStates
          <6> QED BY <5>1, <6>1 DEF toProductDetail
        <5> QED BY <5>2
      <4> QED BY <4>1, <4>2
    <3> QED BY <2>3, <2>4, <2>5, <2>9, <2>10, <3>6
  <2>8. CASE Garment[g].parts = {} /\ Garment[g].pieces = {}
    <3>1. from = None
      BY <2>5, <2>8 DEF toProductListItem
    <3> QED BY <2>3, <2>4, <2>5, <2>9, <2>10, <3>1
  <2> QED BY <2>6, <2>7, <2>8
<1> QED BY <1>1 DEF CardsAgree

LEMMA SeenInPlace ==
    ASSUME StorefrontInv
    PROVE  SeenAsArranged
<1>1. DOMAIN arranged \subseteq Nat
  BY DEF StorefrontInv
<1> QED BY <1>1 DEF StorefrontInv, SeenAsArranged, Before

-----------------------------------------------------------------------------
(* All of it *)

IInv ==
    /\ Taken
    /\ ShowcaseInv /\ PagesInv /\ ProductInv /\ SetsInv /\ ValueInv /\ TreeInv /\ ShelfInv
    /\ RatingInv /\ BookInv /\ ZoneInv /\ WishInv /\ SettingsInv /\ StorefrontInv /\ ImagesInv

LEMMA IInit == ASSUME Init PROVE IInv
  BY InitOnWay, ShowcaseInit, PagesInit, ProductInit, SetsInit, ValueInit, TreeInit, ShelfInit,
     RatingInit, BookInit, ZoneInit, WishInit, SettingsInit, StorefrontInit, ImagesInit DEF IInv

\* A request about something else leaves the part of a subject as it is.
Elsewhere(s) == subject # s /\ subject' = subject /\ met \subseteq met'

LEMMA ShowcaseElsewhere ==
    ASSUME ShowcaseInv, Elsewhere("showcase"), item' = item
    PROVE  ShowcaseInv'
<1>1. Item' = Item
  BY DEF Item, Time
<1> QED BY <1>1 DEF ShowcaseInv, ShowcaseTyped, Elsewhere, Leave

LEMMA PagesElsewhere ==
    ASSUME PagesInv, Elsewhere("page"), UNCHANGED pages
    PROVE  PagesInv'
<1>1. Page' = Page /\ Versions' = Versions
  BY DEF Page, Versions, Time
<1> QED BY <1>1 DEF PagesInv, PagesTyped, Elsewhere, pages

LEMMA ProductElsewhere ==
    ASSUME ProductInv, Elsewhere("product"), UNCHANGED products
    PROVE  ProductInv'
<1>1. Product' = Product
  BY DEF Product, Price, Time
<1>2. ProductTyped'
  BY <1>1 DEF ProductInv, ProductTyped, products
<1>3. ProductHolds(Idle)'
  BY DEF ProductInv, ProductHolds, Elsewhere, products, IsOffer, Idle
<1> QED BY <1>2, <1>3 DEF ProductInv, Elsewhere

LEMMA SetsElsewhere ==
    ASSUME SetsInv, Elsewhere("sets"), UNCHANGED sets
    PROVE  SetsInv'
  BY DEF SetsInv, SetsTyped, SetsHolds, Elsewhere, sets, Idle

LEMMA ValueElsewhere ==
    ASSUME ValueInv, Elsewhere("attributes"), UNCHANGED attributes
    PROVE  ValueInv'
  BY DEF ValueInv, ValueTyped, ValueHolds, Elsewhere, attributes, Idle

LEMMA TreeElsewhere ==
    ASSUME TreeInv, Elsewhere("categories"), parent' = parent
    PROVE  TreeInv'
<1>1. Filed' = Filed /\ \A c : Ancestors(c)' = Ancestors(c)
  BY DEF Filed, Ancestors
<1> QED BY <1>1 DEF TreeInv, TreeTyped, TreeHolds, Elsewhere, Idle

LEMMA ShelfElsewhere ==
    ASSUME ShelfInv, Elsewhere("collection"), collection' = collection
    PROVE  ShelfInv'
<1>1. Collection' = Collection
  BY DEF Collection, Time
<1> QED BY <1>1 DEF ShelfInv, Elsewhere

LEMMA RatingElsewhere ==
    ASSUME RatingInv, Elsewhere("rating"), UNCHANGED <<review, ratingCount>>
    PROVE  RatingInv'
  BY DEF RatingInv, RatingHolds, RatingStands, Elsewhere, Idle

LEMMA BookElsewhere ==
    ASSUME BookInv, Elsewhere("addresses"), UNCHANGED addresses
    PROVE  BookInv'
  BY DEF BookInv, BookTyped, BookHolds, Elsewhere, addresses, Idle

LEMMA ZoneElsewhere ==
    ASSUME ZoneInv, Elsewhere("zones"), UNCHANGED zones
    PROVE  ZoneInv'
  BY DEF ZoneInv, ZoneTyped, ZoneHolds, Elsewhere, zones, Idle

LEMMA WishElsewhere ==
    ASSUME WishInv, Elsewhere("wishlist"), wish' = wish
    PROVE  WishInv'
  BY DEF WishInv, WishHolds, Elsewhere, Idle

LEMMA SettingsElsewhere ==
    ASSUME SettingsInv, Elsewhere("settings"), UNCHANGED settings
    PROVE  SettingsInv'
  BY SettingsSame DEF SettingsInv, Elsewhere

LEMMA ImagesElsewhere ==
    ASSUME ImagesInv, Elsewhere("images"), UNCHANGED images
    PROVE  ImagesInv'
<1>1. Shown' = Shown
  BY DEF Shown, images
<1> QED BY <1>1 DEF ImagesInv, ImageTyped, Elsewhere, images

\* While it is up, a page keeps the day it went up.
PageKept ==
    met' \cap {"request", "scheduler"} = {} =>
        (page # None /\ page.status = "PUBLISHED" /\ page' # None /\ page'.status = "PUBLISHED" =>
            page'.published = page.published)

LEMMA PageStaysUp ==
    ASSUME Taken, PagesInv, subject = "page", NEW j \in Job, PagesNext(j)
    PROVE  PageKept
<1>1. CASE page' = page
  BY <1>1 DEF PageKept
<1>2. CASE page = None
  BY <1>2 DEF PageKept
<1>3. CASE DeletePage(j)
  <2>1. CASE page' = None
    BY <2>1 DEF PageKept
  <2>2. CASE page' = [page EXCEPT !.status = "ARCHIVED"] /\ page # None
    <3>1. page \in Page
      BY <2>2 DEF PagesInv, PagesTyped
    <3>2. page'.status = "ARCHIVED"
      BY <2>2, <3>1 DEF Page
    <3> QED BY <3>2 DEF PageKept
  <2> QED BY <1>3, <2>1, <2>2 DEF DeletePage
<1>4. CASE SavePage(j) /\ page # None
  <2>1. PICK w \in PageWork : w = job[j] /\ w.op = "page" /\ Busy(j)
    BY <1>4, AtOnWay DEF SavePage, At, PagesInv
  <2>2. page' = Merge(w.patch, page) /\ met' = met /\ page \in Page /\ w.patch \in PagePatch
    BY <1>4, <2>1, PageWorkTyped DEF SavePage, Goto, PagesInv, PagesTyped
  <2>3. CASE w.patch \notin FullPatch
    BY <2>2, <2>3, PageMerged DEF PageKept
  <2>4. CASE w.patch \in FullPatch /\ met' \cap {"request", "scheduler"} = {}
    <3>1. PageWaits(w)
      <4>1. PageWaits(job[j])
        BY <2>2, <2>4 DEF PagesInv, PagesFacts
      <4> QED BY <2>1, <4>1
    <3>2. "status" \in DOMAIN w.patch
      BY <2>4 DEF FullPatch
    <3>3. page.status = "PUBLISHED" /\ w.patch.status = "PUBLISHED" => w.patch.published = page.published
      BY <1>4, <2>1, <2>2, <2>4, <3>1, <3>2 DEF PageWaits
    <3>4. page'.status = w.patch.status /\ page'.published = w.patch.published
      BY <2>2, <2>4, PageMerged
    <3> QED BY <3>3, <3>4 DEF PageKept
  <2> QED BY <2>3, <2>4 DEF PageKept
<1> QED BY <1>1, <1>2, <1>3, <1>4
     DEF PagesNext, CreatePage, PatchPage, RestorePage, SavePage, RedirectOldAddress, RedirectFails,
         CreateRedirect, UpdateRedirect, DeleteRedirect, pages

-----------------------------------------------------------------------------
(* Every step *)

LEMMA OthersAside ==
    ASSUME IInv, Aside, NEW s, Others(s)
    PROVE  /\ Taken'
           /\ s # "showcase"   => ShowcaseInv'
           /\ s # "page"       => PagesInv'
           /\ s # "product"    => ProductInv'
           /\ s # "sets"       => SetsInv'
           /\ s # "attributes" => ValueInv'
           /\ s # "categories" => TreeInv'
           /\ s # "collection" => ShelfInv'
           /\ s # "rating"     => RatingInv'
           /\ s # "addresses"  => BookInv'
           /\ s # "zones"      => ZoneInv'
           /\ s # "wishlist"   => WishInv'
           /\ s # "settings"   => SettingsInv'
           /\ s # "storefront" => StorefrontInv'
           /\ s # "images"     => ImagesInv'
  BY AsideTaken, ShowcaseAside, PagesAside, ProductAside, SetsAside, ValueAside, TreeAside, ShelfAside,
     RatingAside, BookAside, ZoneAside, WishAside, SettingsAside, SettingsSame, StorefrontKept, ImagesAside
     DEF IInv, Others

LEMMA OthersElsewhere ==
    ASSUME IInv, NEW s, s = subject, subject' = subject, met \subseteq met', Others(s)
    PROVE  /\ s # "showcase"   => ShowcaseInv'
           /\ s # "page"       => PagesInv'
           /\ s # "product"    => ProductInv'
           /\ s # "sets"       => SetsInv'
           /\ s # "attributes" => ValueInv'
           /\ s # "categories" => TreeInv'
           /\ s # "collection" => ShelfInv'
           /\ s # "rating"     => RatingInv'
           /\ s # "addresses"  => BookInv'
           /\ s # "zones"      => ZoneInv'
           /\ s # "wishlist"   => WishInv'
           /\ s # "settings"   => SettingsInv'
           /\ s # "storefront" => StorefrontInv'
           /\ s # "images"     => ImagesInv'
  BY ShowcaseElsewhere, PagesElsewhere, ProductElsewhere, SetsElsewhere, ValueElsewhere, TreeElsewhere,
     ShelfElsewhere, RatingElsewhere, BookElsewhere, ZoneElsewhere, WishElsewhere, SettingsElsewhere,
     StorefrontKept, ImagesElsewhere
     DEF IInv, Others, Elsewhere

\* A request's step is about what the behaviour is about.
GoesOn == subject' = subject /\ met \subseteq met'

LEMMA ShowcaseGoOn == ASSUME NEW j \in Job, ShowcaseNext(j) PROVE GoesOn
  BY DEF ShowcaseNext, createShowcaseItem, updateShowcaseItem, WriteItem, deleteShowcaseItem,
         RemoveItem, Begin, Goto, Fails, GoesOn

LEMMA PagesGoOn == ASSUME NEW j \in Job, PagesNext(j) PROVE GoesOn
  BY DEF PagesNext, CreatePage, PatchPage, RestorePage, SavePage, RedirectOldAddress, RedirectFails,
         DeletePage, CreateRedirect, UpdateRedirect, DeleteRedirect, Begin, Goto, Fails, GoesOn

LEMMA ProductsGoOn == ASSUME NEW j \in Job, ProductsNext(j) PROVE GoesOn
  BY ZenonT(90) DEF ProductsNext, createHandler, updateHandler, publishHandler, WriteProduct, deleteHandler,
         ArchiveProduct, DeleteProduct, createVariantHandler, deleteVariantHandler,
         updateVariantHandler, AddVariant, WriteVariant, Begin, Goto, Fails, GoesOn

LEMMA SetsGoOn == ASSUME NEW j \in Job, SetsNext(j) PROVE GoesOn
  BY DEF SetsNext, setComponentsHandler, setOptionsHandler, writeComponents, WriteOptions, Begin,
         Goto, Fails, GoesOn

LEMMA AttributesGoOn == ASSUME NEW j \in Job, AttributesNext(j) PROVE GoesOn
  BY DEF AttributesNext, CreateValue, DeleteValue, AssignValues, AddValue, DeleteAttribute,
         RemoveValues, WriteTicks, Begin, Goto, Fails, GoesOn

LEMMA CategoriesGoOn == ASSUME NEW j \in Job, CategoriesNext(j) PROVE GoesOn
  BY DEF CategoriesNext, CreateCategory, UpdateCategory, DeleteCategory, WriteCategory,
         RemoveCategory, Begin, Goto, Fails, GoesOn

LEMMA CollectionsGoOn == ASSUME NEW j \in Job, CollectionsNext(j) PROVE GoesOn
  BY DEF CollectionsNext, CreateCollection, PatchCollection, WriteCollection, EmptyCollection,
         FillCollection, DeleteCollection, RemoveCollection, Begin, Goto, Fails, GoesOn

LEMMA RatingsGoOn == ASSUME NEW j \in Job, RatingsNext(j) PROVE GoesOn
  BY DEF RatingsNext, SubmitReview, DeleteReview, ModerateReview, recomputeRating, Rate,
         CommitModeration, Begin, Goto, Fails, GoesOn

LEMMA AddressesGoOn == ASSUME NEW j \in Job, AddressesNext(j) PROVE GoesOn
  BY DEF AddressesNext, CreateAddress, PatchAddress, DeleteAddress, ClearDefaults, WriteAddress,
         RemoveAddress, FindNextDefault, PromoteAddress, Begin, Goto, Fails, GoesOn

LEMMA ZonesGoOn == ASSUME NEW j \in Job, ZonesNext(j) PROVE GoesOn
  BY DEF ZonesNext, CreateZone, PatchZone, DeleteZone, CreateMethod, DeleteMethod, PatchMethod,
         clearOtherDefaults, SwitchOffMethods, RemoveZone, WriteMethod, Begin, Goto, Fails, GoesOn

LEMMA WishlistGoOn == ASSUME NEW j \in Job, WishlistNext(j) PROVE GoesOn
  BY DEF WishlistNext, Save, WriteWish, RemoveWish, Unsave, Begin, Goto, Fails, GoesOn

LEMMA SettingsGoOn == ASSUME NEW j \in Job, SettingsNext(j) PROVE GoesOn
  BY DEF SettingsNext, writeGiftCardConfig, PutValidated, PutParcelDefaults, PutAutoBook,
         PutNavigation, PatchSettings, purchaseGiftCard, SellBegin, issueGiftCard, Allocate,
         Collide, Begin, Goto, Fails, GoesOn

LEMMA StorefrontGoOn == ASSUME NEW j \in Job, StorefrontNext(j) PROVE GoesOn
  BY DEF StorefrontNext, SaveProduct, SaveVariant, SellOut, reorderHandler, Begin, Goto, Fails,
         GoesOn

LEMMA ImagesGoOn == ASSUME NEW j \in Job, ImagesNext(j) PROVE GoesOn
  BY DEF ImagesNext, uploadImagesHandler, Put, CreateRow, UploadFails, deleteImageHandler,
         DeleteRow, DeleteFile, reorderImagesHandler, Reorder, Begin, Goto, Fails, GoesOn

LEMMA RequestGoesOn == ASSUME NEW j \in Job, Request(j) PROVE GoesOn
  BY ShowcaseGoOn, PagesGoOn, ProductsGoOn, SetsGoOn, AttributesGoOn, CategoriesGoOn, CollectionsGoOn,
     RatingsGoOn, AddressesGoOn, ZonesGoOn, WishlistGoOn, SettingsGoOn, StorefrontGoOn, ImagesGoOn
     DEF Request

LEMMA RequestStep ==
    ASSUME IInv, NEW j \in Job, Request(j)
    PROVE  IInv'
<1>1. PICK s : s = subject
  OBVIOUS
<1>2. Taken /\ Others(s) /\ subject' = subject /\ met \subseteq met'
  BY <1>1, RequestGoesOn DEF IInv, Request, GoesOn
<1>3. /\ s # "showcase" => ShowcaseInv'
      /\ s # "page" => PagesInv'
      /\ s # "product" => ProductInv'
      /\ s # "sets" => SetsInv'
      /\ s # "attributes" => ValueInv'
      /\ s # "categories" => TreeInv'
      /\ s # "collection" => ShelfInv'
      /\ s # "rating" => RatingInv'
      /\ s # "addresses" => BookInv'
      /\ s # "zones" => ZoneInv'
      /\ s # "wishlist" => WishInv'
      /\ s # "settings" => SettingsInv'
      /\ s # "storefront" => StorefrontInv'
      /\ s # "images" => ImagesInv'
  BY <1>1, <1>2, OthersElsewhere
<1>4. \/ s = "showcase" /\ ShowcaseNext(j)
      \/ s = "page" /\ PagesNext(j)
      \/ s = "product" /\ ProductsNext(j)
      \/ s = "sets" /\ SetsNext(j)
      \/ s = "attributes" /\ AttributesNext(j)
      \/ s = "categories" /\ CategoriesNext(j)
      \/ s = "collection" /\ CollectionsNext(j)
      \/ s = "rating" /\ RatingsNext(j)
      \/ s = "addresses" /\ AddressesNext(j)
      \/ s = "zones" /\ ZonesNext(j)
      \/ s = "wishlist" /\ WishlistNext(j)
      \/ s = "settings" /\ SettingsNext(j)
      \/ s = "storefront" /\ StorefrontNext(j)
      \/ s = "images" /\ ImagesNext(j)
  BY <1>1 DEF Request
<1>5. CASE s = "showcase" /\ ShowcaseNext(j)
  BY <1>1, <1>2, <1>3, <1>5, ShowcaseStep DEF IInv
<1>6. CASE s = "page" /\ PagesNext(j)
  BY <1>1, <1>2, <1>3, <1>6, PagesStep DEF IInv
<1>7. CASE s = "product" /\ ProductsNext(j)
  BY <1>1, <1>2, <1>3, <1>7, ProductStep DEF IInv
<1>8. CASE s = "sets" /\ SetsNext(j)
  BY <1>1, <1>2, <1>3, <1>8, SetsStep DEF IInv
<1>9. CASE s = "attributes" /\ AttributesNext(j)
  BY <1>1, <1>2, <1>3, <1>9, ValueStep DEF IInv
<1>10. CASE s = "categories" /\ CategoriesNext(j)
  BY <1>1, <1>2, <1>3, <1>10, TreeStep DEF IInv
<1>11. CASE s = "collection" /\ CollectionsNext(j)
  BY <1>1, <1>2, <1>3, <1>11, ShelfStep DEF IInv
<1>12. CASE s = "rating" /\ RatingsNext(j)
  BY <1>1, <1>2, <1>3, <1>12, RatingStep DEF IInv
<1>13. CASE s = "addresses" /\ AddressesNext(j)
  BY <1>1, <1>2, <1>3, <1>13, BookStep DEF IInv
<1>14. CASE s = "zones" /\ ZonesNext(j)
  BY <1>1, <1>2, <1>3, <1>14, ZoneStep DEF IInv
<1>15. CASE s = "wishlist" /\ WishlistNext(j)
  BY <1>1, <1>2, <1>3, <1>15, WishStep DEF IInv
<1>16. CASE s = "settings" /\ SettingsNext(j)
  BY <1>1, <1>2, <1>3, <1>16, SettingsStep DEF IInv
<1>17. CASE s = "storefront" /\ StorefrontNext(j)
  BY <1>1, <1>2, <1>3, <1>17, StorefrontStep DEF IInv
<1>18. CASE s = "images" /\ ImagesNext(j)
  BY <1>1, <1>2, <1>3, <1>18, ImagesStep DEF IInv
<1> QED BY <1>4, <1>5, <1>6, <1>7, <1>8, <1>9, <1>10, <1>11, <1>12, <1>13, <1>14, <1>15, <1>16, <1>17, <1>18

LEMMA OtherStep ==
    ASSUME IInv, Order \/ publishDueContent \/ Restart \/ Boot \/ Pass
    PROVE  IInv'
<1>1. CASE Order
  <2>1. ASSUME NEW v \in Variant, Sell(v), Others("product")
        PROVE  IInv'
    <3>1. Aside
      BY <2>1, BesideIsAside DEF Sell, IInv, Met
    <3> QED BY <2>1, <3>1, OthersAside, ProductSold DEF IInv
  <2>2. ASSUME NEW z \in Zone, Deliver(z), Others("zones")
        PROVE  IInv'
    <3>1. Aside
      BY <2>2, BesideIsAside DEF Deliver, IInv, Met
    <3> QED BY <2>2, <3>1, OthersAside, ZoneSold DEF IInv
  <2> QED BY <1>1, <2>1, <2>2 DEF Order
<1>2. CASE DueProducts
  <2>1. Aside
    BY <1>2, BesideIsAside DEF DueProducts, publishDueProducts, IInv, Met
  <2> QED BY <1>2, <2>1, OthersAside, ProductPublished DEF DueProducts, IInv
<1>3. CASE DuePages
  <2>1. Aside
    BY <1>3, BesideIsAside DEF DuePages, publishDuePages, IInv, Met
  <2> QED BY <1>3, <2>1, OthersAside, PagesPublished DEF DuePages, IInv
<1>4. CASE DueShowcase
  <2>1. Aside
    BY <1>4, BesideIsAside DEF DueShowcase, publishDueShowcase, IInv, Met
  <2> QED BY <1>4, <2>1, OthersAside, ShowcasePublished DEF DueShowcase, IInv
<1>5. CASE Restart
  BY <1>5, StopIsAside, OthersAside DEF Restart, IInv
<1>6. CASE Boot
  <2>1. Aside
    BY <1>6, BesideIsAside DEF Boot, ensureContactSettings, IInv, Met
  <2> QED BY <1>6, <2>1, OthersAside, SettingsBooted DEF Boot, IInv
<1>7. CASE Pass
  BY <1>7, TickIsAside, OthersAside DEF Pass, IInv
<1> QED BY <1>1, <1>2, <1>3, <1>4, <1>5, <1>6, <1>7 DEF publishDueContent

LEMMA IStutter == ASSUME IInv, UNCHANGED vars PROVE IInv'
<1>1. Aside /\ Others("none")
  BY DEF vars, process, Aside, IInv, Taken, Others
<1> QED BY <1>1, OthersAside DEF IInv

LEMMA IStep == ASSUME IInv, [Next]_vars PROVE IInv'
  BY RequestStep, OtherStep, IStutter DEF Next

\* The rows are typed, and nobody is shown without leave.
LEMMA TypedThere == ASSUME IInv PROVE TypeOK
<1>1. SetsTyped /\ ValueTyped /\ BookTyped /\ ZoneTyped /\ ProductTyped /\ TreeTyped /\ PagesTyped
  BY DEF IInv, SetsInv, ValueInv, BookInv, ZoneInv, ProductInv, TreeInv, PagesInv
<1>2. /\ item \in Item \cup {None} /\ page \in Page \cup {None} /\ product \in Product \cup {None}
      /\ collection \in Collection \cup {None}
      /\ variant \in [Variant -> {"absent", "ACTIVE", "INACTIVE"}] /\ sold \subseteq Variant
      /\ parent \in [Category -> Category \cup {None, "absent"}]
  BY <1>1 DEF IInv, ShowcaseInv, ShowcaseTyped, PagesTyped, ProductTyped, VariantStates, TreeTyped, ShelfInv
<1>3. /\ review \in [Customer -> {None, "PENDING", "APPROVED", "REJECTED"}]
      /\ piece \in [Good -> SUBSET Good] /\ parted \subseteq Good
      /\ valued \subseteq Value /\ {has, given} \subseteq [Good -> SUBSET Value]
  BY <1>1 DEF IInv, RatingInv, Reviews, SetsTyped, ValueTyped
<1>4. /\ book \in [Address -> {"absent", "plain", "default"}]
      /\ zone \in [Zone -> {"absent", "plain", "default"}]
      /\ method \in [Zone -> {"absent", "on", "off"}] /\ used \subseteq Zone
      /\ wish \in Nat /\ subject \in Subject
  BY <1>1 DEF IInv, BookTyped, BookStates, ZoneTyped, MethodStates, WishInv, Taken
<1>5. /\ \A k \in Key : setting[k] \in Text(k) \cup {"absent"}
      /\ image \in [File -> Nat \cup {None}] /\ stored \subseteq File /\ arranged \in Seq(DOMAIN Garment)
      /\ met \subseteq {"request", "scheduler", "sale", "boot", "failure"} /\ clock \in Time
  BY DEF IInv, SettingsInv, SettingsTyped, ImagesInv, ImageTyped, StorefrontInv, Taken, Met
<1> QED BY <1>2, <1>3, <1>4, <1>5 DEF TypeOK

LEMMA LeaveThere == ASSUME IInv PROVE ShownWithLeave
<1>1. "request" \notin met /\ item # None => Leave(item)
  BY DEF IInv, ShowcaseInv, ShowcaseFacts
<1> QED BY <1>1 DEF ShownWithLeave, Leave, listPublicShowcase

LEMMA NothingLostThere == ASSUME IInv PROVE NothingIsLost
<1>1. CASE subject = "page" /\ page # None /\ Alone
  <2>1. Restorable /\ PageLed(Idle)
    BY <1>1 DEF IInv, PagesInv, PagesFacts, Alone
  <2>2. ~byHand => LedTo(page.slug)
    BY <1>1, <2>1 DEF PageLed, Idle, Alone
  <2> QED BY <1>1, <2>1, <2>2 DEF Restorable, LedTo, NothingIsLost
<1>2. CASE subject # "page"
  BY <1>2 DEF IInv, PagesInv, NothingIsLost
<1> QED BY <1>1, <1>2 DEF NothingIsLost

\* Once no request is on its way, everything holds that held while one was.
LEMMA AtRest ==
    ASSUME IInv, Alone
    PROVE  /\ ProductHolds(Idle) /\ SetsHolds(Idle) /\ ValueHolds(Idle) /\ TreeHolds(Idle)
           /\ RatingHolds(Idle) /\ BookHolds(Idle) /\ ZoneHolds(Idle) /\ WishHolds(Idle)
<1>1. Calm /\ OnWay(Idle)
  BY DEF Alone, Calm, OnWay
<1>2. /\ Idle \in ProductWork /\ Idle \in SetsWork /\ Idle \in ValueWork /\ Idle \in TreeWork
      /\ Idle \in RatingWork /\ Idle \in BookWork /\ Idle \in ZoneWork /\ Idle \in WishWork
  BY DEF ProductWork, SetsWork, ValueWork, TreeWork, RatingWork, BookWork, ZoneWork, WishWork
<1> QED BY <1>1, <1>2 DEF IInv, ProductInv, SetsInv, ValueInv, TreeInv, RatingInv, BookInv, ZoneInv, WishInv

LEMMA RecordsThere == ASSUME IInv PROVE RecordsStand
<1>1. SoldAsShown /\ PicturesStand
  BY PicturesKept DEF IInv, SettingsInv
<1>2. Understood
  <2>1. readGiftCardConfig(setting) \in Config
    BY PageIsUsable
  <2>2. readParcelDefaults(setting) # "unusable" /\ loadCharges(setting) # "unusable"
    BY DEF readParcelDefaults, loadCharges
  <2> QED BY <2>1, <2>2 DEF Understood
<1>3. ASSUME Alone
      PROVE  TreeStands /\ ProductStands /\ SoldStands /\ RatingStands /\ SetsStand /\ BooksStand
  <2>1. TreeStands
    BY <1>3, AtRest DEF TreeHolds, TreeStands, Filed
  <2>2. ProductStands /\ SoldStands
    BY <1>3, AtRest DEF ProductHolds, ZoneHolds, ProductStands, SoldStands
  <2>3. RatingStands
    BY <1>3, AtRest DEF RatingHolds, Idle
  <2>4. SetsStand
    BY <1>3, AtRest DEF SetsHolds, ValueHolds, SetsStand
  <2>5. Cardinality(Defaults(book)) <= 1
    <3>1. \A x, y \in Defaults(book) : x = y
      BY <1>3, AtRest DEF BookHolds, Defaults, IInv, BookInv, BookTyped
    <3> QED BY <3>1, OneDefault
  <2>6. Cardinality(Defaults(zone)) <= 1
    <3>1. \A x, y \in Defaults(zone) : x = y
      BY <1>3, AtRest DEF ZoneHolds, Defaults, IInv, ZoneInv, ZoneTyped, Idle
    <3> QED BY <3>1, OneDefault
  <2>7. Rows(book) # {} /\ ~unticked => Defaults(book) # {}
    BY <1>3, AtRest DEF BookHolds, Defaults, Rows, IInv, BookInv, BookTyped, Idle
  <2>8. wish <= 1
    BY <1>3, AtRest DEF WishHolds
  <2> QED BY <2>1, <2>2, <2>3, <2>4, <2>5, <2>6, <2>7, <2>8 DEF BooksStand
<1> QED BY <1>1, <1>2, <1>3 DEF RecordsStand

LEMMA WindowThere == ASSUME IInv PROVE WindowIsTrue
  BY PanelLeads, CardsAreTrue, SeenInPlace DEF IInv, WindowIsTrue

LEMMA LaunchThere == ASSUME IInv, [Next]_vars PROVE LaunchDay
<1>1. CASE page' = page /\ collection' = collection
  BY <1>1 DEF LaunchDay
<1>2. ASSUME NEW j \in Job, Request(j)
      PROVE  LaunchDay
  <2>1. CASE subject = "page"
    <3>1. PageKept /\ collection' = collection
      BY <1>2, <2>1, PageStaysUp DEF IInv, Request, Others
    <3> QED BY <3>1 DEF PageKept, LaunchDay
  <2>2. CASE subject = "collection"
    <3>1. CollectionKept /\ page' = page
      BY <1>2, <2>2, ShelfStep DEF IInv, Request, Others, pages
    <3> QED BY <3>1 DEF CollectionKept, LaunchDay
  <2>3. CASE subject # "page" /\ subject # "collection"
    BY <1>1, <1>2, <2>3 DEF Request, Others, pages
  <2> QED BY <2>1, <2>2, <2>3
<1>3. CASE DuePages
  <2>1. page.status = "SCHEDULED" /\ collection' = collection
    BY <1>3 DEF DuePages, publishDuePages, Due, Others
  <2> QED BY <2>1 DEF LaunchDay
<1>4. CASE Order \/ DueProducts \/ DueShowcase \/ Restart \/ Boot \/ Pass \/ UNCHANGED vars
  BY <1>1, <1>4 DEF Order, DueProducts, DueShowcase, Restart, Boot, Pass, vars, Others, pages
<1> QED BY <1>2, <1>3, <1>4 DEF Next, publishDueContent

-----------------------------------------------------------------------------

\* The inductive invariant holds of every reachable state: every row and request
\* is typed, and of the subject at hand its own facts hold, whoever writes,
\* crosses, fails or restarts (jobs/scheduler.ts and the handlers it meets).
THEOREM AlwaysIInv == Spec => []IInv
<1>1. Init => IInv
  BY IInit
<1>2. IInv /\ [Next]_vars => IInv'
  BY IStep
<1> QED BY <1>1, <1>2, PTL DEF Spec

\* Nobody's face is on the wall, or due to be, without their leave and a poster,
\* unless two edits of the item crossed (updateShowcaseItem, publishDueContent);
\* and every row is typed, whatever crosses, fails or restarts.
THEOREM NobodyShownWithoutLeave == Spec => []LiveWithLeave
<1>1. IInv => LiveWithLeave
  BY TypedThere, LeaveThere DEF LiveWithLeave
<1> QED BY <1>1, AlwaysIInv, PTL

\* Every version a page has had can be restored and every address it has had leads
\* to it, through any renames, saves and restores that did not cross
\* (admin-page.routes: writeRevision, redirectOldAddress).
THEOREM NothingIsEverLost == Spec => []NothingIsLost
<1>1. IInv => NothingIsLost
  BY NothingLostThere
<1> QED BY <1>1, AlwaysIInv, PTL

\* The catalogue, the books and the settings keep to what their screens promise:
\* what was sold is there, the ratings are the reviews', a gift card is sold as its
\* page was shown, no picture lacks its file.
THEOREM RecordsAlwaysStand == Spec => []RecordsStand
<1>1. IInv => RecordsStand
  BY RecordsThere
<1> QED BY <1>1, AlwaysIInv, PTL

\* What the panel offers is there, the cards, the list and the pages agree, and
\* what is arranged is what is seen (product.service, product.serializer).
THEOREM WindowIsAlwaysTrue == Spec => []WindowIsTrue
<1>1. IInv => WindowIsTrue
  BY WindowThere
<1> QED BY <1>1, AlwaysIInv, PTL

\* The day something launched stays what it was (publishFields, admin-collection).
THEOREM LaunchDatesAlwaysStand == Spec => LaunchDateStands
<1>1. IInv /\ [Next]_vars => [LaunchDay]_vars
  BY LaunchThere
<1> QED BY <1>1, AlwaysIInv, PTL DEF LaunchDateStands, Spec

=============================================================================
