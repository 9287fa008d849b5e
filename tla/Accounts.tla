------------------------------ MODULE Accounts ------------------------------
(***************************************************************************)
(* Users, their memberships, sessions and reset links, under requests that *)
(* run concurrently: registration, sign-in, what signed-in people do,      *)
(* forgotten passwords.                                                    *)
(*                                                                         *)
(* A request is a transaction at READ COMMITTED. What it has loaded is its *)
(* record in request; it may lose it and end at any time (Abandon). Rows   *)
(* that a request has flushed and not committed are not visible to others, *)
(* and make a statement wait that writes them or deletes what they refer   *)
(* to. Sessions and links that a step numbers are new: ids are not reused. *)
(***************************************************************************)
EXTENDS Naturals

CONSTANTS
    Users,            \* people, each with an address
    Organizations,    \* numbered in the order in which they are created
    SessionIds, TokenIds, Requests,
    Registered,       \* users that have an account at the start
    Roles0,           \* Roles0[u][o]: memberships at the start
    Founded,          \* organizations at the start
    CostRaised,       \* the Argon2 cost was raised since passwords were set
    Lifetime, IdleTimeout, TouchInterval, TokenLifetime,
    MaxTime,          \* last moment of the clock
    None

Roles == {"viewer", "member", "admin", "owner"}
rank == [viewer |-> 0, member |-> 1, admin |-> 2, owner |-> 3]

ASSUME AccountsAssumption ==
    /\ Organizations \subseteq Nat
    /\ \A S \in SUBSET Organizations : S # {} => \E o \in S : \A p \in S : o <= p
    /\ Registered \subseteq Users /\ Founded \subseteq Organizations
    /\ Roles0 \in [Users -> [Organizations -> Roles \cup {None}]]
    /\ None \notin Roles \cup Nat \cup SessionIds \cup Users
    /\ CostRaised \in BOOLEAN
    /\ {Lifetime, IdleTimeout, TouchInterval, TokenLifetime, MaxTime} \subseteq Nat

VARIABLES
    now,            \* the clock
    users,          \* users[u]: the account of u, or None
    organizations,  \* rows of organizations
    memberships,    \* memberships[u][o]: a role, or None
    sessions,       \* sessions[s]: a session, or None if s was never issued
    tokens,         \* tokens[t]: a reset link, or None
    resets,         \* resets[u]: how often a reset has changed u's password
    request         \* request[r]: what request r has loaded, or None

vars == <<now, users, organizations, memberships, sessions, tokens, resets, request>>
tenancy == <<organizations, memberships>>

-----------------------------------------------------------------------------
InFlight(op) == {r \in Requests : request[r] # None /\ request[r].op = op}
Flushed(op) == {r \in InFlight(op) : request[r].step = "flushed"}
Begin(r, loaded) ==
    /\ request[r] = None
    /\ request' = [request EXCEPT ![r] = loaded]
End(r) == request' = [request EXCEPT ![r] = None]

(* list_user_memberships, and the first of them by creation.               *)
OrganizationsOf(u) == {o \in Organizations : memberships[u][o] # None}
FirstOrganization(u) ==
    IF OrganizationsOf(u) = {} THEN None
    ELSE CHOOSE o \in OrganizationsOf(u) : \A p \in OrganizationsOf(u) : o <= p

OwnersOf(o) == {u \in Users : memberships[u][o] = "owner"}

(* The composite foreign key of sessions: nothing is required of a session *)
(* without an organization.                                                *)
(* Mutant: the key names the organization alone.                           *)
RefersToOrganization(u, o) == o # None => o \in organizations
RefersToMembership(u, o) == o # None => memberships[u][o] # None

Open(s) == sessions[s] # None /\ sessions[s].status = "open"

(* resolve_session accepts what is not revoked, expired or idle.           *)
Accepted(s) ==
    /\ Open(s)
    /\ sessions[s].expires > now
    /\ sessions[s].seen + IdleTimeout > now

(* Rows that an uncommitted flush has written: a user by a sign-in, a      *)
(* session by a switch, and the membership that either refers to.          *)
UserRowFree(u) == \A q \in Flushed("login") : request[q].user # u
SessionRowFree(s) == \A q \in Flushed("switch") : request[q].session # s
MembershipRowFree(u, o) ==
    \A q \in Flushed("login") \cup Flushed("switch") :
        request[q].user = u => request[q].org # o

ResetInFlight(u) == \E q \in InFlight("reset") : request[q].user = u

(* A session or link that u obtains in request r. since and excused are of *)
(* the proof: how many resets were over when it began, and whether another *)
(* was committed, or in flight, until it ended.                            *)
Excused(u, since) == since # resets[u] \/ ResetInFlight(u)
NewSession(u, o, since) ==
    [status |-> "open", user |-> u, org |-> o, seen |-> now,
     expires |-> now + Lifetime, since |-> since, excused |-> Excused(u, since)]

FreshSession(s) ==
    /\ sessions[s] = None
    /\ \A q \in Flushed("login") : request[q].session # s

-----------------------------------------------------------------------------
(* Registration: an account, its organization and a session, in one        *)
(* transaction. The address is looked up first and its unique index        *)
(* decides: whoever commits second is told that it is taken.               *)
BeginRegistration(r, u) ==
    /\ users[u] = None
    /\ Begin(r, [op |-> "register", step |-> "loaded", user |-> u])
    /\ UNCHANGED <<now, users, tenancy, sessions, tokens, resets>>

Register(r, s, o) ==
    LET u == request[r].user IN
    /\ r \in InFlight("register") /\ FreshSession(s)
    /\ o \in Organizations \ organizations
    /\ users[u] = None
    /\ users' = [users EXCEPT ![u] = [password |-> 0, outdated |-> FALSE]]
    /\ organizations' = organizations \cup {o}
    /\ memberships' = [memberships EXCEPT ![u][o] = "owner"]
    /\ sessions' = [sessions EXCEPT ![s] = NewSession(u, o, resets[u])]
    /\ End(r)
    /\ UNCHANGED <<now, tokens, resets>>

-----------------------------------------------------------------------------
(* login: the password is verified against the row as it is now, and the   *)
(* memberships are listed.                                                 *)
Authenticate(r, u) ==
    /\ users[u] # None
    /\ Begin(r, [op |-> "login", step |-> "verified", user |-> u,
                 session |-> None, org |-> FirstOrganization(u),
                 password |-> users[u].password, rehash |-> users[u].outdated,
                 since |-> resets[u]])
    /\ UNCHANGED <<now, users, tenancy, sessions, tokens, resets>>

(* create_session flushes the session, and with it the user's row: the     *)
(* time of the sign-in, and the hash if it was of a lower cost.            *)
IssueSession(r, s) ==
    LET q == request[r] IN
    /\ r \in InFlight("login") /\ q.step = "verified"
    /\ FreshSession(s)
    /\ UserRowFree(q.user)
    /\ RefersToMembership(q.user, q.org)
    /\ request' = [request EXCEPT ![r].step = "flushed", ![r].session = s]
    /\ UNCHANGED <<now, users, tenancy, sessions, tokens, resets>>

CommitLogin(r) ==
    LET q == request[r] IN
    /\ r \in Flushed("login")
    /\ users' = [users EXCEPT ![q.user] =
           IF q.rehash THEN [password |-> q.password, outdated |-> FALSE] ELSE @]
    /\ sessions' = [sessions EXCEPT ![q.session] = NewSession(q.user, q.org, q.since)]
    /\ End(r)
    /\ UNCHANGED <<now, tenancy, tokens, resets>>

-----------------------------------------------------------------------------
(* A request of somebody signed in. The session and the memberships are    *)
(* read by two statements; an organization that is no longer among the     *)
(* memberships is taken off the session. The time of this use is noted     *)
(* when the interval of a touch is over, and written if the request        *)
(* commits.                                                                *)
ReadSession(r, s) ==
    /\ Accepted(s)
    /\ Begin(r, [op |-> "auth", step |-> "read", user |-> sessions[s].user,
                 session |-> s, org |-> sessions[s].org,
                 touch |-> IF sessions[s].seen + TouchInterval <= now THEN now ELSE None])
    /\ UNCHANGED <<now, users, tenancy, sessions, tokens, resets>>

ActiveOrganization(q) == IF q.org \in OrganizationsOf(q.user) THEN q.org ELSE None

(* The context of the request, for operation op on target.                 *)
Resolve(r, op, target, witness) ==
    LET q == request[r] IN
    /\ r \in InFlight("auth")
    /\ request' = [request EXCEPT ![r] =
           [op |-> op, step |-> "loaded", user |-> q.user, session |-> q.session,
            org |-> ActiveOrganization(q), cleared |-> q.org # ActiveOrganization(q),
            touch |-> q.touch, target |-> target, witness |-> witness]]
    /\ UNCHANGED <<now, users, tenancy, sessions, tokens, resets>>

(* What commits of the request's session: the attributes that it changed,  *)
(* and no other. A row that is gone fails the commit.                      *)
Changes(q) == q.cleared \/ q.touch # None
Writable(s) == sessions[s].status # "deleted" /\ SessionRowFree(s)

(* Mutants: the row is written as it was loaded; the time is not checked.  *)
TouchedWhole(q) == [sessions EXCEPT ![q.session].status = "open",
                    ![q.session].seen = IF q.touch = None THEN @ ELSE q.touch]
TouchedAlways(q) == [sessions EXCEPT ![q.session].seen = q.touch]
Touched(q) ==
    [sessions EXCEPT ![q.session].seen = IF q.touch = None THEN @ ELSE q.touch,
                     ![q.session].org = IF q.cleared THEN None ELSE @]

(* Reading requests never commit, and lose what they noted.                *)
Read(r) ==
    /\ r \in InFlight("auth")
    /\ End(r)
    /\ UNCHANGED <<now, users, tenancy, sessions, tokens, resets>>

(* Requests whose own work is not about accounts: a sync, a decision.      *)
Work(r) == Resolve(r, "work", None, None)
CommitWork(r) ==
    LET q == request[r] IN
    /\ r \in InFlight("work")
    /\ Changes(q) => Writable(q.session)
    /\ sessions' = Touched(q)
    /\ End(r)
    /\ UNCHANGED <<now, users, tenancy, tokens, resets>>

Logout(r) == Resolve(r, "logout", None, None)
CommitLogout(r) ==
    LET q == request[r] IN
    /\ r \in InFlight("logout")
    /\ Writable(q.session)
    /\ sessions' = [Touched(q) EXCEPT ![q.session].status = "revoked"]
    /\ End(r)
    /\ UNCHANGED <<now, users, tenancy, tokens, resets>>

(* switch_organization: a membership that the request has loaded, checked  *)
(* again by the key when the session is flushed.                           *)
Switch(r, o) ==
    /\ r \in InFlight("auth") /\ o \in OrganizationsOf(request[r].user)
    /\ Resolve(r, "switch", o, None)

FlushSwitch(r) ==
    LET q == request[r] IN
    /\ r \in InFlight("switch") /\ q.step = "loaded"
    /\ Writable(q.session)
    /\ RefersToMembership(q.user, q.target)
    /\ request' = [request EXCEPT ![r].step = "flushed", ![r].org = q.target]
    /\ UNCHANGED <<now, users, tenancy, sessions, tokens, resets>>

CommitSwitch(r) ==
    LET q == request[r] IN
    /\ r \in Flushed("switch")
    /\ sessions' = [Touched(q) EXCEPT ![q.session].org = q.target]
    /\ End(r)
    /\ UNCHANGED <<now, users, tenancy, tokens, resets>>

(* create_organization, with the caller as its owner.                      *)
CreateOrganization(r) == Resolve(r, "create", None, None)
CommitOrganization(r, o) ==
    LET q == request[r] IN
    /\ r \in InFlight("create")
    /\ o \in Organizations \ organizations
    /\ Changes(q) => Writable(q.session)
    /\ organizations' = organizations \cup {o}
    /\ memberships' = [memberships EXCEPT ![q.user][o] = "owner"]
    /\ sessions' = Touched(q)
    /\ End(r)
    /\ UNCHANGED <<now, users, tokens, resets>>

(* remove_member: by an admin, of somebody else; an owner only if another  *)
(* owner is found. The deletion cascades to the member's sessions in the   *)
(* organization; a membership that is gone already is no error.            *)
MayRemove(q, u) ==
    LET o == ActiveOrganization(q) IN
    /\ o # None
    /\ rank[memberships[q.user][o]] >= rank["admin"]
    /\ u # q.user /\ memberships[u][o] # None

(* Mutant: the last owner is not looked after.                             *)
RemoveAnybody(r, u, v) ==
    LET q == request[r] IN
    /\ r \in InFlight("auth") /\ MayRemove(q, u) /\ v \in OwnersOf(q.org)
    /\ Resolve(r, "remove", u, v)

Remove(r, u, v) ==
    LET q == request[r] IN
    /\ r \in InFlight("auth") /\ MayRemove(q, u)
    /\ IF memberships[u][q.org] = "owner" THEN v \in OwnersOf(q.org) \ {u} ELSE v = None
    /\ Resolve(r, "remove", u, v)

SessionsIn(u, o) ==
    {s \in SessionIds : /\ sessions[s] # None /\ sessions[s].status # "deleted"
                        /\ sessions[s].user = u /\ sessions[s].org = o}

CommitRemoval(r) ==
    LET q == request[r]
        cascade == SessionsIn(q.target, q.org)
    IN
    /\ r \in InFlight("remove")
    /\ Changes(q) => Writable(q.session)
    /\ MembershipRowFree(q.target, q.org)
    /\ \A s \in cascade : SessionRowFree(s)
    /\ memberships' = [memberships EXCEPT ![q.target][q.org] = None]
    /\ sessions' = [s \in SessionIds |->
           IF s \in cascade THEN [sessions[s] EXCEPT !.status = "deleted"] ELSE Touched(q)[s]]
    /\ End(r)
    /\ UNCHANGED <<now, users, organizations, tokens, resets>>

-----------------------------------------------------------------------------
(* request_password_reset.                                                 *)
NewLink(u) ==
    [user |-> u, expires |-> now + TokenLifetime, used |-> FALSE,
     since |-> resets[u], excused |-> ResetInFlight(u)]

(* forgot_password commits a link; nothing it has read can be out of date. *)
RequestLink(u, t) ==
    /\ users[u] # None
    /\ tokens[t] = None
    /\ tokens' = [tokens EXCEPT ![t] = NewLink(u)]
    /\ UNCHANGED <<now, users, tenancy, sessions, resets, request>>

LinksOf(u) == {t \in TokenIds : tokens[t] # None /\ tokens[t].user = u /\ ~tokens[t].used}
OpenSessionsOf(u) == {s \in SessionIds : Open(s) /\ sessions[s].user = u}

(* reset_password: the link is good, and the user's other links and        *)
(* sessions are loaded.                                                    *)
(* Mutant: only the link that is spent is loaded.                          *)
BeginResetAlone(r, t) ==
    /\ tokens[t] # None /\ ~tokens[t].used /\ tokens[t].expires > now
    /\ Begin(r, [op |-> "reset", step |-> "loaded", user |-> tokens[t].user,
                 links |-> {t}, open |-> OpenSessionsOf(tokens[t].user)])
    /\ UNCHANGED <<now, users, tenancy, sessions, tokens, resets>>

BeginReset(r, t) ==
    /\ tokens[t] # None /\ ~tokens[t].used /\ tokens[t].expires > now
    /\ Begin(r, [op |-> "reset", step |-> "loaded", user |-> tokens[t].user,
                 links |-> LinksOf(tokens[t].user), open |-> OpenSessionsOf(tokens[t].user)])
    /\ UNCHANGED <<now, users, tenancy, sessions, tokens, resets>>

CommitReset(r) ==
    LET q == request[r]
        u == q.user
    IN
    /\ r \in InFlight("reset")
    /\ UserRowFree(u)
    /\ \A s \in q.open : Writable(s)
    /\ users' = [users EXCEPT ![u] = [password |-> resets[u] + 1, outdated |-> FALSE]]
    /\ resets' = [resets EXCEPT ![u] = @ + 1]
    /\ tokens' = [t \in TokenIds |->
           IF t \in q.links THEN [tokens[t] EXCEPT !.used = TRUE] ELSE tokens[t]]
    /\ sessions' = [s \in SessionIds |->
           IF s \in q.open THEN [sessions[s] EXCEPT !.status = "revoked"] ELSE sessions[s]]
    /\ End(r)
    /\ UNCHANGED <<now, tenancy>>

-----------------------------------------------------------------------------
(* A request ends without a commit: it is refused, the database fails it,  *)
(* or its process dies.                                                    *)
Abandon(r) ==
    /\ request[r] # None
    /\ End(r)
    /\ UNCHANGED <<now, users, tenancy, sessions, tokens, resets>>

Tick ==
    /\ now < MaxTime
    /\ now' = now + 1
    /\ UNCHANGED <<users, tenancy, sessions, tokens, resets, request>>

Init ==
    /\ now = 0
    /\ users = [u \in Users |-> IF u \in Registered
                   THEN [password |-> 0, outdated |-> CostRaised] ELSE None]
    /\ organizations = Founded
    /\ memberships = Roles0
    /\ sessions = [s \in SessionIds |-> None]
    /\ tokens = [t \in TokenIds |-> None]
    /\ resets = [u \in Users |-> 0]
    /\ request = [r \in Requests |-> None]

AccountStep(r) ==
    \/ \E u \in Users : BeginRegistration(r, u) \/ Authenticate(r, u)
    \/ \E s \in SessionIds, o \in Organizations : Register(r, s, o)
    \/ \E s \in SessionIds : IssueSession(r, s) \/ ReadSession(r, s)
    \/ \E t \in TokenIds : BeginReset(r, t)
    \/ CommitLogin(r) \/ CommitReset(r) \/ Abandon(r)

MemberStep(r) ==
    \/ Read(r) \/ Work(r) \/ CommitWork(r) \/ Logout(r) \/ CommitLogout(r)
    \/ \E o \in Organizations : Switch(r, o)
    \/ FlushSwitch(r) \/ CommitSwitch(r)
    \/ CreateOrganization(r)
    \/ \E o \in Organizations : CommitOrganization(r, o)
    \/ \E u \in Users, v \in Users \cup {None} : Remove(r, u, v)
    \/ CommitRemoval(r)

Next ==
    \/ \E r \in Requests : AccountStep(r) \/ MemberStep(r)
    \/ \E u \in Users, t \in TokenIds : RequestLink(u, t)
    \/ Tick

Spec == Init /\ [][Next]_vars
=============================================================================
