------------------------------- MODULE Pages --------------------------------
(***************************************************************************)
(* Editorial pages, their revisions and the redirects from their old       *)
(* addresses (modules/content, jobs/scheduler).                            *)
(***************************************************************************)
EXTENDS Handlers

CONSTANTS
    Slug,         \* addresses a page may have
    Home          \* the one it has at first

ASSUME PagesAssumption == Home \in Slug /\ None \notin Slug \cup [to : Slug, active : BOOLEAN]

VARIABLES
    page,         \* the page, None when deleted
    revision,     \* page_revisions: the bodies kept, oldest first
    redirect,     \* [Slug -> [to, active] or None]
    \* History.
    saved,        \* how many times the page has been saved
    lived,        \* the versions of the page there have been: [slug, body]
    byHand        \* a redirect has been rewritten by hand

pages == <<page, revision, redirect, saved, lived, byHand>>

PageStatus == {"DRAFT", "SCHEDULED", "PUBLISHED", "ARCHIVED"}
Page == [slug : Slug, status : PageStatus, body : Nat, system : BOOLEAN,
         scheduled : Time \cup {None}, published : Time \cup {None}]

publishFields(status, t, published) ==
    CASE status = "PUBLISHED" -> [published |-> Stamp(published), scheduled |-> None]
      [] status = "SCHEDULED" -> [published |-> None, scheduled |-> t]
      [] OTHER                -> [published |-> published, scheduled |-> None]

Version == [slug |-> page.slug, body |-> page.body]

\* A form: the whole page, with a new body.  Bound: one page, so its address is
\* nobody else's.
Form(slug, status, t, published) ==
    LET p == publishFields(status, t, published)
    IN  [slug |-> slug, status |-> status, body |-> saved + 1,
         scheduled |-> p.scheduled, published |-> p.published]

CreatePage(j, slug, status, t) ==
    /\ page = None /\ Begin(j, Idle)
    /\ LET f == Form(slug, status, t, None)
       IN  /\ page' = [slug |-> f.slug, status |-> f.status, body |-> f.body, system |-> FALSE,
                       scheduled |-> f.scheduled, published |-> f.published]
           /\ revision' = <<f.body>>
    /\ saved' = saved + 1 /\ lived' = {}
    /\ UNCHANGED <<redirect, byHand>>

PatchPage(j, slug, status, t) ==
    /\ page # None /\ (slug # page.slug => ~page.system)
    /\ Begin(j, [op |-> "page", was |-> Version, patch |-> Form(slug, status, t, page.published)])
    /\ saved' = saved + 1
    /\ UNCHANGED <<page, revision, redirect, lived, byHand>>

\* Restoring an earlier version is a save too.
RestorePage(j, v) ==
    /\ page # None /\ v \in 1 .. Len(revision)
    /\ Begin(j, [op |-> "page", was |-> Version, patch |-> [body |-> revision[v]]])
    /\ UNCHANGED pages

Moved(j) == "slug" \in DOMAIN job[j].patch /\ job[j].patch.slug # job[j].was.slug

\* The page as it was read is kept, then replaced.
SavePage(j) ==
    /\ At(j, "page")
    /\ IF page = None THEN Goto(j, Idle) /\ UNCHANGED pages
       ELSE /\ revision' = Append(revision, job[j].was.body)
            /\ page' = Merge(job[j].patch, page)
            /\ lived' = lived \cup {Version}
            /\ Goto(j, IF Moved(j) THEN [job[j] EXCEPT !.op = "moved"] ELSE Idle)
            /\ UNCHANGED <<redirect, saved, byHand>>

\* Mutant: a path that is redirected already stays as it is.
RedirectOldAddressOnce(j) ==
    /\ At(j, "moved") /\ Goto(j, Idle)
    /\ redirect' = [redirect EXCEPT ![job[j].was.slug] =
                        IF @ # None THEN @ ELSE [to |-> job[j].patch.slug, active |-> TRUE]]
    /\ UNCHANGED <<page, revision, saved, lived, byHand>>

\* The old address is redirected in a statement of its own, whose failure is
\* not reported.
RedirectOldAddress(j) ==
    /\ At(j, "moved") /\ Goto(j, Idle)
    /\ redirect' = [redirect EXCEPT ![job[j].was.slug] = [to |-> job[j].patch.slug, active |-> TRUE]]
    /\ UNCHANGED <<page, revision, saved, lived, byHand>>

RedirectFails(j) ==
    /\ At(j, "moved") /\ Fails(j, Idle) /\ UNCHANGED pages

\* A built-in page is archived; another goes, and its revisions with it.
DeletePage(j) ==
    /\ page # None /\ Begin(j, Idle)
    /\ IF page.system THEN page' = [page EXCEPT !.status = "ARCHIVED"] /\ UNCHANGED <<revision, lived>>
       ELSE page' = None /\ revision' = <<>> /\ lived' = {}
    /\ UNCHANGED <<redirect, saved, byHand>>

\* Where a path leads: the storefront follows whatever comes back.
Lookup(s) == IF redirect[s] # None /\ redirect[s].active THEN redirect[s].to ELSE None
Reach(s)  == Following([t \in Slug |-> Lookup(t)], s)

\* The redirect being edited is not part of the chain.
assertNoLoop(from, to, ignored) ==
    LET follow[n \in 0 .. 10, s \in Slug] ==
            IF n = 0 \/ s = from THEN FALSE
            ELSE IF s = ignored \/ Lookup(s) = None THEN TRUE ELSE follow[n - 1, Lookup(s)]
    IN  follow[10, to]

CreateRedirect(j, from, to) ==
    /\ redirect[from] = None /\ assertNoLoop(from, to, None)
    /\ Begin(j, Idle)
    /\ redirect' = [redirect EXCEPT ![from] = [to |-> to, active |-> TRUE]]
    /\ UNCHANGED <<page, revision, saved, lived, byHand>>

UpdateRedirect(j, from, to, active) ==
    /\ redirect[from] # None /\ assertNoLoop(from, to, from)
    /\ Begin(j, Idle)
    /\ redirect' = [redirect EXCEPT ![from] = [to |-> to, active |-> active]]
    /\ byHand' = TRUE
    /\ UNCHANGED <<page, revision, saved, lived>>

DeleteRedirect(j, from) ==
    /\ redirect[from] # None
    /\ Begin(j, Idle)
    /\ redirect' = [redirect EXCEPT ![from] = None]
    /\ byHand' = TRUE
    /\ UNCHANGED <<page, revision, saved, lived>>

publishDuePages ==
    /\ Due(page) /\ page' = Published(page, "PUBLISHED")
    /\ Beside("scheduler") /\ UNCHANGED <<revision, redirect, saved, lived, byHand>>

seedPages ==
    /\ \E system \in BOOLEAN :
          page = [slug |-> Home, status |-> "PUBLISHED", body |-> 0, system |-> system,
                  scheduled |-> None, published |-> 0]
    /\ revision = <<0>> /\ redirect = [s \in Slug |-> None]

\* Bound: a page is scheduled for the last tick, or for no day at all; a form
\* that archives it is one that drafts it.
PagesNext(j) ==
    \/ \E slug \in Slug, status \in {"DRAFT", "PUBLISHED"} :
          CreatePage(j, slug, status, None) \/ PatchPage(j, slug, status, None)
    \/ \E slug \in Slug, t \in {None, MaxTime} :
          CreatePage(j, slug, "SCHEDULED", t) \/ PatchPage(j, slug, "SCHEDULED", t)
    \/ \E v \in 1 .. Len(revision) : RestorePage(j, v)
    \/ SavePage(j) \/ RedirectOldAddress(j) \/ RedirectFails(j) \/ DeletePage(j)
    \/ \E from, to \in Slug : CreateRedirect(j, from, to)
    \/ \E from, to \in Slug : UpdateRedirect(j, from, to, TRUE)
    \/ \E from \in Slug : redirect[from] # None /\ UpdateRedirect(j, from, redirect[from].to, FALSE)
    \/ \E from \in Slug : DeleteRedirect(j, from)

=============================================================================
