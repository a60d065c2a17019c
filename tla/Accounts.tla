----------------------------- MODULE Accounts ------------------------------
(***************************************************************************)
(* Accounts, sessions, password links, staff roles and erasure             *)
(* (modules/auth, rbac, privacy and the customer status of modules/admin). *)
(*                                                                         *)
(* A handler reads the account, decides, and writes in later statements:   *)
(* each await between a read and a write, or between two writes, is a      *)
(* place where another request runs or the process stops.  A refresh token *)
(* is one session; the tokens it is rotated into share its family.  Dates  *)
(* of expiry, consents, profile fields and mails are left out.             *)
(***************************************************************************)
EXTENDS Integers, Sequences, FiniteSets

CONSTANTS
    User,         \* the accounts there can be
    Role,         \* the staff roles there can be
    Owner,        \* the SUPER_ADMIN role: locked, holds every permission
    Permission,   \* the permissions
    Hired,        \* [User -> SUBSET Role]: the seeded staff, {} for nobody yet
    Granted,      \* [Role -> SUBSET Permission]: what the seeded roles confer
    Matrix,       \* the sets of permissions staff give to a role
    Handler,      \* requests in flight at once
    MaxRequests,  \* bound on the requests of a behaviour
    Omitted       \* a field the body leaves out

RECOVERY_PERMISSIONS == {"role.manage", "user.manage"}

ASSUME AccountsAssumption ==
    /\ Owner \in Role
    /\ RECOVERY_PERMISSIONS \subseteq Permission
    /\ Hired \in [User -> SUBSET Role]
    /\ \E u \in User : Owner \in Hired[u]
    /\ Granted \in [Role -> SUBSET Permission]
    /\ Granted[Owner] = Permission
    /\ Matrix \subseteq SUBSET Permission
    /\ MaxRequests \in Nat
    /\ Omitted \notin User /\ Omitted \notin Role /\ Omitted # "SUSPENDED"

VARIABLES
    \* The database.
    account,     \* [User -> user row, or NoAccount]
    roles,       \* [User -> SUBSET Role]: user_roles
    grants,      \* [Role -> SUBSET Permission]: role_permissions
    session,     \* the refresh_tokens rows, oldest first
    link,        \* the password_reset_tokens rows, oldest first
    \* The process.
    request,     \* [Handler -> what it is about to do]
    served,      \* how many requests have begun
    \* History.
    unfinished,  \* accounts a stopped request was about to sign out
    forked,      \* families one of whose tokens was rotated twice
    unchecked    \* whether staff changed without a sound lockout check

accountsVars == <<account, roles, grants, session, link, request, served, unfinished, forked, unchecked>>

staffVars == <<roles, grants, unchecked>>
tokenVars == <<session, link, unfinished, forked>>

-----------------------------------------------------------------------------
(* Rows and requests *)

UserStatus == {"ACTIVE", "SUSPENDED", "ANONYMISED"}
NoAccount  == [status |-> "NONE", role |-> "NONE", password |-> 0, opens |-> FALSE]

\* password counts the hashes the row has had; opens is whether any password
\* verifies against the one it has.
Account == [status : UserStatus, role : {"CUSTOMER", "ADMIN"}, password : Nat, opens : BOOLEAN]

\* since is the password the session was first opened under; late marks one
\* issued after that password was replaced or the account closed.
Session == [owner : User, family : Nat, live : BOOLEAN, since : Nat, late : BOOLEAN]

\* uses counts the passwords a link has set.
Link == [owner : User, state : {"open", "used", "deleted"}, uses : Nat]

Idle == [op |-> "idle"]

Goto(h, work) == request' = [request EXCEPT ![h] = work]

\* A request arrives at h and its first read decides what it does next.
Begin(h, work) ==
    /\ request[h] = Idle
    /\ served < MaxRequests
    /\ served' = served + 1
    /\ Goto(h, work)

\* A request that is one statement.
Serve(h) == Begin(h, Idle)

At(h, op) == request[h].op = op /\ UNCHANGED served
Done(h)   == Goto(h, Idle)

Active(u) == account[u].status = "ACTIVE"

\* Every request loads its user and their permissions afresh.
Confers(R) == UNION {grants[r] : r \in R}
Held(u) == Confers(roles[u])
May(u, p) == Active(u) /\ account[u].role = "ADMIN" /\ p \in Held(u)

Revoked(S) == [i \in DOMAIN session |-> [session[i] EXCEPT !.live = @ /\ i \notin S]]
Of(u)      == {i \in DOMAIN session : session[i].owner = u}
Family(f)  == {i \in DOMAIN session : session[i].family = f}

-----------------------------------------------------------------------------
(* Signing up, in and out *)

register(h, u) ==
    /\ account[u] = NoAccount
    /\ account' = [account EXCEPT ![u] = [status |-> "ACTIVE", role |-> "CUSTOMER",
                                          password |-> 1, opens |-> TRUE]]
    /\ Begin(h, [op |-> "issue", user |-> u, family |-> 0, since |-> 1])
    /\ UNCHANGED <<staffVars, tokenVars>>

login(h, u) ==
    /\ Active(u) /\ account[u].opens
    /\ Begin(h, [op |-> "issue", user |-> u, family |-> 0, since |-> account[u].password])
    /\ UNCHANGED <<account, staffVars, tokenVars>>

issueSession(h) ==
    /\ At(h, "issue")
    /\ LET r == request[h]
           fresh == Len(session) + 1
       IN  session' = Append(session,
               [owner  |-> r.user,
                family |-> IF r.family = 0 THEN fresh ELSE r.family,
                live   |-> TRUE,
                since  |-> r.since,
                late   |-> account[r.user].password # r.since \/ ~Active(r.user)])
    /\ Done(h)
    /\ UNCHANGED <<account, staffVars, link, unfinished, forked>>

\* A token that was revoked is a stolen one; else it is rotated.
refresh(h, i) ==
    /\ \/ /\ ~session[i].live
          /\ Begin(h, [op |-> "reuse", family |-> session[i].family])
       \/ /\ session[i].live
          /\ Active(session[i].owner)
          /\ Begin(h, [op |-> "rotate", token |-> i])
    /\ UNCHANGED <<account, staffVars, tokenVars>>

RevokeFamily(h) ==
    /\ At(h, "reuse")
    /\ session' = Revoked(Family(request[h].family))
    /\ Done(h)
    /\ UNCHANGED <<account, staffVars, link, unfinished, forked>>

\* By id alone, whatever has become of the token since it was read.
Rotate(h) ==
    /\ At(h, "rotate")
    /\ LET i == request[h].token
           s == session[i]
       IN  /\ session' = Revoked({i})
           /\ forked' = IF s.live THEN forked ELSE forked \cup {s.family}
           /\ Goto(h, [op |-> "issue", user |-> s.owner, family |-> s.family, since |-> s.since])
    /\ UNCHANGED <<account, staffVars, link, unfinished>>

logout(h, i) ==
    /\ Serve(h)
    /\ session' = Revoked({i})
    /\ UNCHANGED <<account, staffVars, link, unfinished, forked>>

-----------------------------------------------------------------------------
(* Passwords *)

SetPassword(u) == [account EXCEPT ![u].password = @ + 1, ![u].opens = TRUE]

changePassword(h, u) ==
    /\ Active(u) /\ account[u].opens
    /\ Begin(h, [op |-> "rehash", user |-> u])
    /\ UNCHANGED <<account, staffVars, tokenVars>>

Rehash(h) ==
    /\ At(h, "rehash")
    /\ account' = SetPassword(request[h].user)
    /\ Goto(h, [op |-> "sign_out", user |-> request[h].user])
    /\ UNCHANGED <<staffVars, tokenVars>>

logoutAll(h) ==
    /\ At(h, "sign_out")
    /\ session' = Revoked(Of(request[h].user))
    /\ Done(h)
    /\ UNCHANGED <<account, staffVars, link, unfinished, forked>>

requestPasswordReset(h, u) ==
    /\ Active(u)
    /\ Begin(h, [op |-> "void", user |-> u])
    /\ UNCHANGED <<account, staffVars, tokenVars>>

VoidLinks(h) ==
    /\ At(h, "void")
    /\ LET u == request[h].user
       IN  /\ link' = [i \in DOMAIN link |->
                          IF link[i].owner = u /\ link[i].state = "open"
                          THEN [link[i] EXCEPT !.state = "used"] ELSE link[i]]
           /\ Goto(h, [op |-> "mail", user |-> u])
    /\ UNCHANGED <<account, staffVars, session, unfinished, forked>>

MailLink(h) ==
    /\ At(h, "mail")
    /\ link' = Append(link, [owner |-> request[h].user, state |-> "open", uses |-> 0])
    /\ Done(h)
    /\ UNCHANGED <<account, staffVars, session, unfinished, forked>>

resetPassword(h, i) ==
    /\ link[i].state = "open"
    /\ Active(link[i].owner)
    /\ Begin(h, [op |-> "reset", link |-> i])
    /\ UNCHANGED <<account, staffVars, tokenVars>>

\* Mutant: the link is updated by its id alone.
ResetCommitById(h) ==
    /\ At(h, "reset")
    /\ LET i == request[h].link
           u == link[i].owner
       IN  /\ link' = [link EXCEPT ![i].state = "used", ![i].uses = @ + 1]
           /\ account' = SetPassword(u)
           /\ session' = Revoked(Of(u))
    /\ Done(h)
    /\ UNCHANGED <<staffVars, unfinished, forked>>

\* Mutant: the sessions are left.
ResetCommitQuietly(h) ==
    /\ At(h, "reset")
    /\ LET i == request[h].link
       IN  IF link[i].state = "open"
           THEN /\ link' = [link EXCEPT ![i].state = "used", ![i].uses = @ + 1]
                /\ account' = SetPassword(link[i].owner)
           ELSE UNCHANGED <<link, account>>
    /\ Done(h)
    /\ UNCHANGED <<staffVars, session, unfinished, forked>>

\* One transaction, rolled back when the link is no longer open.
ResetCommit(h) ==
    /\ At(h, "reset")
    /\ LET i == request[h].link
           u == link[i].owner
       IN  IF link[i].state = "open"
           THEN /\ link' = [link EXCEPT ![i].state = "used", ![i].uses = @ + 1]
                /\ account' = SetPassword(u)
                /\ session' = Revoked(Of(u))
           ELSE UNCHANGED <<link, account, session>>
    /\ Done(h)
    /\ UNCHANGED <<staffVars, unfinished, forked>>

-----------------------------------------------------------------------------
(* Staff and roles *)

assertCanGrant(actor, permissions) == permissions \subseteq Held(actor)

RecoveryPath(acc, ro, gr) ==
    \A p \in RECOVERY_PERMISSIONS : \E u \in User :
        /\ acc[u].role = "ADMIN" /\ acc[u].status = "ACTIVE"
        /\ \E r \in ro[u] : p \in gr[r]

\* A commit that writes staff or roles, to checks made before it.
Outdated(h) == [g \in Handler |-> IF g # h /\ request[g].op = "commit"
                                  THEN [request[g] EXCEPT !.stale = TRUE] ELSE request[g]]

\* What a change c makes of the rows it writes.
AccountAfter(c) == IF c.status = Omitted THEN account ELSE [account EXCEPT ![c.user].status = c.status]
RolesAfter(c)   == IF c.roles = Omitted THEN roles ELSE [roles EXCEPT ![c.user] = c.roles]
GrantsAfter(c)  == IF c.role = Omitted THEN grants ELSE [grants EXCEPT ![c.role] = c.permissions]

Change == [user        : User \cup {Omitted},
           status      : {Omitted, "ACTIVE", "SUSPENDED"},
           roles       : {Omitted} \cup SUBSET Role,
           role        : Role \cup {Omitted},
           permissions : SUBSET Permission]

NoChange == [user |-> Omitted, status |-> Omitted, roles |-> Omitted, role |-> Omitted, permissions |-> {}]

\* POST /admin/roles.
createRole(h, actor, r, permissions) ==
    /\ May(actor, "role.manage")
    /\ grants[r] = {} /\ \A u \in User : r \notin roles[u]
    /\ assertCanGrant(actor, permissions)
    /\ Serve(h)
    /\ grants' = [grants EXCEPT ![r] = permissions]
    /\ UNCHANGED <<account, roles, unchecked, tokenVars>>

\* PATCH /admin/roles/:id.
updateRole(h, actor, r, permissions) ==
    /\ May(actor, "role.manage")
    /\ r # Owner
    /\ assertCanGrant(actor, permissions)
    /\ Begin(h, [op |-> "change",
                 change |-> [NoChange EXCEPT !.role = r, !.permissions = permissions]])
    /\ UNCHANGED <<account, staffVars, tokenVars>>

\* PATCH /admin/staff/:id with roles, a status, or both.
updateStaff(h, actor, u, newRoles, status) ==
    /\ May(actor, "user.manage")
    /\ account[u].role = "ADMIN"
    /\ newRoles # Omitted \/ status # Omitted
    /\ status = "SUSPENDED" \/ newRoles # Omitted => u # actor
    /\ newRoles # Omitted => assertCanGrant(actor, Confers(newRoles))
    /\ Begin(h, [op |-> "change",
                 change |-> [NoChange EXCEPT !.user = u, !.status = status, !.roles = newRoles]])
    /\ UNCHANGED <<account, staffVars, tokenVars>>

\* Mutant: the change is not checked.
assertNothing(h) ==
    /\ At(h, "change")
    /\ Goto(h, [op |-> "commit", change |-> request[h].change, stale |-> FALSE])
    /\ UNCHANGED <<account, staffVars, tokenVars>>

\* In the transaction, after the change: it sees its own writes and what the
\* others have committed.  Rows another transaction has written make it wait.
assertRecoveryPathSurvives(h) ==
    /\ At(h, "change")
    /\ LET c == request[h].change
       IN  /\ \A g \in Handler \ {h} : request[g].op = "commit" =>
                  \/ c.user # request[g].change.user
                  \/ c.role # request[g].change.role
           /\ IF RecoveryPath(AccountAfter(c), RolesAfter(c), GrantsAfter(c))
              THEN Goto(h, [op |-> "commit", change |-> c, stale |-> FALSE])
              ELSE Done(h)
    /\ UNCHANGED <<account, staffVars, tokenVars>>

ChangeCommit(h) ==
    /\ At(h, "commit")
    /\ LET c == request[h].change
       IN  /\ account' = AccountAfter(c)
           /\ roles' = RolesAfter(c)
           /\ grants' = GrantsAfter(c)
           /\ unchecked' = (unchecked \/ request[h].stale)
           /\ request' = [Outdated(h) EXCEPT ![h] =
                  IF c.status = "SUSPENDED" THEN [op |-> "sign_out", user |-> c.user] ELSE Idle]
    /\ UNCHANGED tokenVars

\* DELETE /admin/roles/:id: its assignments go with it.
deleteRole(h, actor, r) ==
    /\ May(actor, "role.manage")
    /\ r # Owner
    /\ \A u \in User : r \notin roles[u]
    /\ Begin(h, [op |-> "delete_role", role |-> r])
    /\ UNCHANGED <<account, staffVars, tokenVars>>

DeleteRoleCommit(h) ==
    /\ At(h, "delete_role")
    /\ LET r == request[h].role
       IN  /\ roles' = [u \in User |-> roles[u] \ {r}]
           /\ grants' = [grants EXCEPT ![r] = {}]
           /\ unchecked' = (unchecked \/ \E u \in User : r \in roles[u])
    /\ request' = [Outdated(h) EXCEPT ![h] = Idle]
    /\ UNCHANGED <<account, tokenVars>>

\* POST /admin/staff: an account no password opens, and a link that sets one.
inviteStaff(h, actor, u, newRoles) ==
    /\ May(actor, "user.manage")
    /\ account[u] = NoAccount
    /\ newRoles # {}
    /\ assertCanGrant(actor, Confers(newRoles))
    /\ account' = [account EXCEPT ![u] = [status |-> "ACTIVE", role |-> "ADMIN",
                                          password |-> 0, opens |-> FALSE]]
    /\ roles' = [roles EXCEPT ![u] = newRoles]
    /\ Begin(h, [op |-> "void", user |-> u])
    /\ UNCHANGED <<grants, unchecked, tokenVars>>

\* POST /admin/staff/:id/invite.
resendInvite(h, actor, u) ==
    /\ May(actor, "user.manage")
    /\ account[u].role = "ADMIN"
    /\ Begin(h, [op |-> "void", user |-> u])
    /\ UNCHANGED <<account, staffVars, tokenVars>>

\* PATCH /admin/customers/:id/status: any account by its id, staff included,
\* with no lockout check.
customerStatus(h, actor, u, status) ==
    /\ May(actor, "customer.update")
    /\ account[u] # NoAccount
    /\ account' = [account EXCEPT ![u].status = status]
    /\ unchecked' = (unchecked \/ account[u].role = "ADMIN")
    /\ request[h] = Idle /\ served < MaxRequests /\ served' = served + 1
    /\ request' = [Outdated(h) EXCEPT ![h] =
           IF status = "SUSPENDED" THEN [op |-> "sign_out", user |-> u] ELSE Idle]
    /\ UNCHANGED <<roles, grants, tokenVars>>

-----------------------------------------------------------------------------
(* Erasure *)

MayErase(actor, u) ==
    \/ actor = u /\ Active(u) /\ account[u].opens   \* with the password
    \/ May(actor, "customer.update")

\* Refused while roles are held, and at will: the orders and returns in progress
\* that refuse it too are not modelled.
eraseAccount(h, actor, u) ==
    /\ MayErase(actor, u)
    /\ account[u].status \in {"ACTIVE", "SUSPENDED"}
    /\ roles[u] = {}
    /\ Begin(h, [op |-> "erase", user |-> u])
    /\ UNCHANGED <<account, staffVars, tokenVars>>

EraseCommit(h) ==
    /\ At(h, "erase")
    /\ LET u == request[h].user
       IN  /\ account' = [account EXCEPT ![u].status = "ANONYMISED", ![u].password = @ + 1,
                                         ![u].opens = FALSE]
           /\ session' = Revoked(Of(u))
           /\ link' = [i \in DOMAIN link |->
                          IF link[i].owner = u THEN [link[i] EXCEPT !.state = "deleted"] ELSE link[i]]
           /\ unchecked' = (unchecked \/ roles[u] # {})
    /\ request' = [Outdated(h) EXCEPT ![h] = Idle]
    /\ UNCHANGED <<roles, grants, unfinished, forked>>

-----------------------------------------------------------------------------
(* Failures *)

\* The process stops or the connection fails: what the request had not written
\* is not written.
Stop(h) ==
    /\ request[h] # Idle
    /\ unfinished' = IF request[h].op = "sign_out" THEN unfinished \cup {request[h].user}
                                                   ELSE unfinished
    /\ Done(h)
    /\ UNCHANGED <<account, staffVars, session, link, served, forked>>

-----------------------------------------------------------------------------

AccountsInit ==
    /\ account = [u \in User |->
           IF Hired[u] = {} THEN NoAccount
           ELSE [status |-> "ACTIVE", role |-> "ADMIN", password |-> 1, opens |-> TRUE]]
    /\ roles = Hired
    /\ grants = Granted
    /\ session = <<>> /\ link = <<>>
    /\ request = [h \in Handler |-> Idle]
    /\ served = 0
    /\ unfinished = {} /\ forked = {}
    /\ unchecked = FALSE

Visit(h) ==
    \/ \E u \in User : register(h, u) \/ login(h, u) \/ changePassword(h, u) \/ requestPasswordReset(h, u)
    \/ \E i \in DOMAIN session : refresh(h, i) \/ logout(h, i)
    \/ \E i \in DOMAIN link : resetPassword(h, i)

Administer(h) == \E actor \in User :
    \/ \E r \in Role : deleteRole(h, actor, r) \/ \E P \in Matrix : createRole(h, actor, r, P) \/ updateRole(h, actor, r, P)
    \/ \E u \in User :
          \/ \E R \in SUBSET Role : inviteStaff(h, actor, u, R)
          \/ \E R \in {Omitted} \cup SUBSET Role, s \in {"ACTIVE", "SUSPENDED", Omitted} :
                updateStaff(h, actor, u, R, s)
          \/ resendInvite(h, actor, u) \/ eraseAccount(h, actor, u)
          \/ \E s \in {"ACTIVE", "SUSPENDED"} : customerStatus(h, actor, u, s)

Step(h) ==
    \/ issueSession(h) \/ RevokeFamily(h) \/ Rotate(h)
    \/ Rehash(h) \/ logoutAll(h) \/ VoidLinks(h) \/ MailLink(h) \/ ResetCommit(h)
    \/ assertRecoveryPathSurvives(h) \/ ChangeCommit(h) \/ DeleteRoleCommit(h)
    \/ EraseCommit(h) \/ Stop(h)

AccountsNext == \E h \in Handler : Visit(h) \/ Administer(h) \/ Step(h)

AccountsSpec == AccountsInit /\ [][AccountsNext]_accountsVars

-----------------------------------------------------------------------------
(* Properties *)

Request ==
    {Idle}
    \cup [op : {"issue"}, user : User, family : Nat, since : Nat]
    \cup [op : {"reuse"}, family : Nat]
    \cup [op : {"rotate"}, token : DOMAIN session]
    \cup [op : {"rehash", "sign_out", "void", "mail", "erase"}, user : User]
    \cup [op : {"reset"}, link : DOMAIN link]
    \cup [op : {"change"}, change : Change]
    \cup [op : {"commit"}, change : Change, stale : BOOLEAN]
    \cup [op : {"delete_role"}, role : Role]

\* Every variable has its type: a request points at a token or a link there is.
AccountsTypeOK ==
    /\ account \in [User -> Account \cup {NoAccount}]
    /\ roles \in [User -> SUBSET Role]
    /\ grants \in [Role -> SUBSET Permission]
    /\ session \in Seq(Session)
    /\ link \in Seq(Link)
    /\ request \in [Handler -> Request]
    /\ served \in 0 .. MaxRequests
    /\ unfinished \subseteq User
    /\ forked \subseteq Nat
    /\ unchecked \in BOOLEAN

\* "What makes the link single-use even if two requests arrive together": no
\* link sets two passwords.
LinkOpensOnce == \A i \in DOMAIN link : link[i].uses <= 1

\* "Changing a password should end every other session": a live session was
\* opened under the password the account has, unless it was issued by a request
\* that overlapped the change, or the request that signs everybody out has not
\* finished.
SigningOut(u) ==
    u \in unfinished \/ \E h \in Handler : request[h].op = "sign_out" /\ request[h].user = u

NewPasswordEndsSessions ==
    \A i \in DOMAIN session : LET s == session[i] IN
        s.live => s.since = account[s.owner].password \/ s.late \/ SigningOut(s.owner)

\* "Suspending must end existing sessions": a closed account has no live session
\* but one a request in flight issued.
ClosedAccountIsSignedOut ==
    \A i \in DOMAIN session : LET s == session[i] IN
        s.live /\ ~Active(s.owner) => s.late \/ SigningOut(s.owner)

\* A refresh token has one heir: a family has at most one live token, unless
\* two refreshes of one token overlapped.
OneHeir ==
    \A i, j \in DOMAIN session :
        session[i].live /\ session[j].live /\ session[i].family = session[j].family
            => i = j \/ session[i].family \in forked

\* "No lockout": somebody can always manage roles and staff, as long as the
\* changes that are checked do not overlap one that is not in their sight.
RecoveryPathSurvives == ~unchecked => RecoveryPath(account, roles, grants)

\* A secret opens one door once: a link sets one password, a refresh token has
\* one heir, and a request points at a token or a link there is.
SecretsOpenOnce == AccountsTypeOK /\ LinkOpensOnce /\ OneHeir

\* Sessions end with what they were opened under, the password or the account.
SessionsEnd == NewPasswordEndsSessions /\ ClosedAccountIsSignedOut

=============================================================================
