--------------------------- MODULE AccountsProofs ---------------------------
(***************************************************************************)
(* Theorems of AccountsSafety, for any users, organizations, sessions and  *)
(* requests. What a request has loaded is typed and related to the rows    *)
(* first; each promise then has an invariant of its own, about what the    *)
(* requests under way may still write.                                     *)
(***************************************************************************)
EXTENDS AccountsSafety, TLAPS

OrNone == Organizations \cup {None}

RegisterRequest == [op : {"register"}, step : {"loaded"}, user : Users]
LoginRequest ==
    [op : {"login"}, step : {"verified", "flushed"}, user : Users,
     session : SessionIds \cup {None}, org : OrNone, password : Nat,
     rehash : BOOLEAN, since : Nat]
AuthRequest ==
    [op : {"auth"}, step : {"read"}, user : Users, session : SessionIds,
     org : OrNone, touch : Nat \cup {None}]
MemberOps == {"work", "logout", "switch", "create", "remove"}
MemberRequest ==
    [op : MemberOps, step : {"loaded", "flushed"}, user : Users,
     session : SessionIds, org : OrNone, cleared : BOOLEAN,
     touch : Nat \cup {None}, target : Users \cup OrNone,
     witness : Users \cup {None}]
ResetRequest ==
    [op : {"reset"}, step : {"loaded"}, user : Users,
     links : SUBSET TokenIds, open : SUBSET SessionIds]

RequestRow ==
    RegisterRequest \cup LoginRequest \cup AuthRequest \cup MemberRequest
        \cup ResetRequest

(* What a request has loaded refers to rows that are there, and a flushed  *)
(* sign-in has a session of its own.                                       *)
Anchored(q) ==
    /\ q.op = "login" => users[q.user] # None
    /\ q.op = "login" /\ q.step = "flushed" => q.session \in SessionIds
    /\ q.op \in {"auth"} \cup MemberOps => sessions[q.session] # None
    /\ q.op = "switch" => q.target \in Organizations
    /\ q.op = "remove" => q.target \in Users /\ q.org \in Organizations
    /\ q.op = "reset" =>
          /\ users[q.user] # None
          /\ \A t \in q.links : tokens[t] # None
          /\ \A s \in q.open : sessions[s] # None

TokensAnchored == \A t \in TokenIds : tokens[t] # None => users[tokens[t].user] # None

RequestsOK ==
    /\ request \in [Requests -> RequestRow \cup {None}]
    /\ \A r \in Requests : request[r] # None => Anchored(request[r])
    /\ TokensAnchored

Typed == TypeOK /\ RequestsOK

LEMMA ConstantFacts ==
    /\ Organizations \subseteq Nat /\ Registered \subseteq Users
    /\ Founded \subseteq Organizations
    /\ Roles0 \in [Users -> [Organizations -> Roles \cup {None}]]
    /\ None \notin Roles /\ None \notin Nat /\ None \notin SessionIds /\ None \notin Users
    /\ None \notin Organizations
    /\ CostRaised \in BOOLEAN /\ Lifetime \in Nat /\ TokenLifetime \in Nat
BY AccountsAssumption

LEMMA RowsAreNotNone ==
    /\ \A x \in UserRow : x # None
    /\ \A x \in SessionRow : x # None
    /\ \A x \in TokenRow : x # None
BY NoneIsNoRow

-----------------------------------------------------------------------------
(* Requests by what they do.                                               *)
LEMMA RequestFields ==
    ASSUME Typed, NEW r \in Requests, request[r] # None
    PROVE  /\ request[r] \in RequestRow
           /\ Anchored(request[r])
           /\ request[r].op = "register" => request[r] \in RegisterRequest
           /\ request[r].op = "login" => request[r] \in LoginRequest
           /\ request[r].op = "auth" => request[r] \in AuthRequest
           /\ request[r].op \in MemberOps => request[r] \in MemberRequest
           /\ request[r].op = "reset" => request[r] \in ResetRequest
<1>1. request[r] \in RequestRow /\ Anchored(request[r])
  BY DEF Typed, RequestsOK
<1> QED
  BY <1>1 DEF RequestRow, RegisterRequest, LoginRequest, AuthRequest, MemberRequest,
              ResetRequest, MemberOps

LEMMA FirstOrganizationType ==
    ASSUME NEW u \in Users PROVE FirstOrganization(u) \in OrNone
<1>1. CASE OrganizationsOf(u) = {}
  BY <1>1 DEF FirstOrganization, OrNone
<1>2. CASE OrganizationsOf(u) # {}
  <2>1. OrganizationsOf(u) \in SUBSET Organizations
    BY DEF OrganizationsOf
  <2>2. \E o \in OrganizationsOf(u) : \A p \in OrganizationsOf(u) : o <= p
    BY <1>2, <2>1, AccountsAssumption
  <2>3. FirstOrganization(u) \in OrganizationsOf(u)
    BY <1>2, <2>2 DEF FirstOrganization
  <2> QED BY <2>1, <2>3 DEF OrNone
<1> QED BY <1>1, <1>2

LEMMA ActiveOrganizationType ==
    ASSUME NEW q, q.org \in OrNone PROVE ActiveOrganization(q) \in OrNone
BY DEF ActiveOrganization, OrNone

LEMMA NewSessionType ==
    ASSUME TypeOK, NEW u \in Users, NEW o \in OrNone, NEW n \in Nat
    PROVE  NewSession(u, o, n) \in SessionRow
<1>1. now + Lifetime \in Nat /\ now \in Nat
  BY ConstantFacts DEF TypeOK, MembershipRow
<1> QED BY <1>1 DEF NewSession, SessionRow, Excused, ResetInFlight, OrNone

(* Writing what a request noted changes no more than the time and the      *)
(* organization of its session.                                            *)
LEMMA TouchedFacts ==
    ASSUME TypeOK, NEW q \in MemberRequest, sessions[q.session] # None
    PROVE  /\ Touched(q) \in [SessionIds -> SessionRow \cup {None}]
           /\ \A s \in SessionIds : s # q.session => Touched(q)[s] = sessions[s]
           /\ Touched(q)[q.session] \in SessionRow
           /\ Touched(q)[q.session].status = sessions[q.session].status
           /\ Touched(q)[q.session].user = sessions[q.session].user
           /\ Touched(q)[q.session].since = sessions[q.session].since
           /\ Touched(q)[q.session].excused = sessions[q.session].excused
           /\ Touched(q)[q.session].org =
                 IF q.cleared THEN None ELSE sessions[q.session].org
<1>1. q.session \in SessionIds /\ q.touch \in Nat \cup {None}
  BY DEF MemberRequest
<1>2. sessions \in [SessionIds -> SessionRow \cup {None}] /\ sessions[q.session] \in SessionRow
  BY <1>1 DEF TypeOK, MembershipRow
<1> DEFINE seen == IF q.touch = None THEN sessions[q.session].seen ELSE q.touch
<1> DEFINE org == IF q.cleared THEN None ELSE sessions[q.session].org
<1> DEFINE row == [[sessions[q.session] EXCEPT !.seen = seen] EXCEPT !.org = org]
<1>3. Touched(q) = [sessions EXCEPT ![q.session] = row]
  BY <1>1, <1>2, Zenon DEF Touched
<1>4. seen \in Nat /\ org \in OrNone
  BY <1>1, <1>2 DEF SessionRow, OrNone
<1> HIDE DEF seen, org
<1>5. row \in SessionRow
  BY <1>2, <1>4 DEF SessionRow, OrNone
<1>6. /\ row.status = sessions[q.session].status /\ row.user = sessions[q.session].user
      /\ row.since = sessions[q.session].since /\ row.excused = sessions[q.session].excused
      /\ row.org = org
  BY <1>2 DEF SessionRow
<1> HIDE DEF row
<1> QED BY <1>1, <1>2, <1>3, <1>5, <1>6 DEF org

-----------------------------------------------------------------------------
(* A step that only changes what a request has loaded.                     *)
LEMMA OnlyLoads ==
    ASSUME Typed, NEW r \in Requests, NEW q \in RequestRow, Anchored(q),
           request' = [request EXCEPT ![r] = q],
           UNCHANGED <<now, users, tenancy, sessions, tokens, resets>>
    PROVE  Typed'
<1>1. TypeOK' /\ TokensAnchored'
  BY DEF Typed, TypeOK, MembershipRow, RequestsOK, TokensAnchored, tenancy
<1>2. request' \in [Requests -> RequestRow \cup {None}]
  BY DEF Typed, RequestsOK
<1>3. ASSUME NEW p \in Requests, request'[p] # None PROVE Anchored(request[p])'
  <2>1. CASE p = r
    <3>1. request'[p] = q
      BY <2>1 DEF Typed, RequestsOK
    <3> QED BY <3>1 DEF Anchored
  <2>2. CASE p # r
    <3>1. request'[p] = request[p] /\ Anchored(request[p])
      BY <1>3, <2>2 DEF Typed, RequestsOK
    <3> QED BY <3>1 DEF Anchored
  <2> QED BY <2>1, <2>2
<1> QED BY <1>1, <1>2, <1>3 DEF Typed, RequestsOK

(* The end of a request that writes rows and takes none away.              *)
KeepsRows ==
    /\ \A u \in Users : users[u] # None => users'[u] # None
    /\ \A s \in SessionIds : sessions[s] # None => sessions'[s] # None
    /\ \A t \in TokenIds : tokens[t] # None => tokens'[t] # None

LEMMA AnchoredKept ==
    ASSUME KeepsRows, NEW q \in RequestRow, Anchored(q)
    PROVE  Anchored(q)'
<1>1. CASE q \in RegisterRequest
  BY <1>1 DEF Anchored, MemberOps, RegisterRequest
<1>2. CASE q \in LoginRequest
  BY <1>2 DEF Anchored, KeepsRows, LoginRequest, MemberOps
<1>3. CASE q \in AuthRequest
  BY <1>3 DEF Anchored, KeepsRows, AuthRequest
<1>4. CASE q \in MemberRequest
  BY <1>4 DEF Anchored, KeepsRows, MemberRequest, MemberOps
<1>5. CASE q \in ResetRequest
  BY <1>5 DEF Anchored, KeepsRows, ResetRequest, MemberOps
<1> QED BY <1>1, <1>2, <1>3, <1>4, <1>5 DEF RequestRow

LEMMA EndsTyped ==
    ASSUME Typed, NEW r \in Requests, End(r), TypeOK', KeepsRows, TokensAnchored'
    PROVE  Typed'
<1>1. request' \in [Requests -> RequestRow \cup {None}]
  BY DEF Typed, RequestsOK, End
<1>2. ASSUME NEW p \in Requests, request'[p] # None PROVE Anchored(request[p])'
  <2>1. PICK q : q = request[p]
    OBVIOUS
  <2>2. request'[p] = q /\ q # None
    BY <1>2, <2>1 DEF Typed, RequestsOK, End
  <2>3. q \in RequestRow /\ Anchored(q)
    BY <2>1, <2>2 DEF Typed, RequestsOK
  <2>4. Anchored(q)'
    BY <2>3, AnchoredKept
  <2> QED BY <2>2, <2>4 DEF Anchored
<1> QED BY <1>1, <1>2 DEF Typed, RequestsOK

(* The request that resolves its session may do any of the operations.     *)
LEMMA ResolveTyped ==
    ASSUME Typed, NEW r \in Requests, NEW op \in MemberOps,
           NEW target \in Users \cup OrNone, NEW witness \in Users \cup {None},
           Resolve(r, op, target, witness),
           op = "switch" => target \in Organizations,
           op = "remove" => target \in Users /\ ActiveOrganization(request[r]) \in Organizations
    PROVE  Typed'
<1> DEFINE q == request[r]
<1>1. q \in AuthRequest /\ Anchored(q) /\ q.op = "auth"
  BY RequestFields DEF Resolve, InFlight
<1>2. q.org \in OrNone /\ q.user \in Users /\ q.session \in SessionIds
      /\ q.touch \in Nat \cup {None} /\ sessions[q.session] # None
  BY <1>1 DEF AuthRequest, Anchored
<1>3. ActiveOrganization(q) \in OrNone
  BY <1>2, ActiveOrganizationType
<1> DEFINE x == [op |-> op, step |-> "loaded", user |-> q.user, session |-> q.session,
                 org |-> ActiveOrganization(q), cleared |-> q.org # ActiveOrganization(q),
                 touch |-> q.touch, target |-> target, witness |-> witness]
<1>4. x \in MemberRequest
  BY <1>2, <1>3 DEF MemberRequest
<1>5. x \in RequestRow
  BY <1>4 DEF RequestRow
<1>6. Anchored(x)
  BY <1>2 DEF Anchored, MemberOps
<1>7. request' = [request EXCEPT ![r] = x]
      /\ UNCHANGED <<now, users, tenancy, sessions, tokens, resets>>
  BY DEF Resolve
<1> HIDE DEF x
<1> QED BY <1>5, <1>6, <1>7, OnlyLoads

-----------------------------------------------------------------------------
(* Steps that load.                                                        *)
LEMMA AuthenticateTyped ==
    ASSUME Typed, NEW r \in Requests, NEW u \in Users, Authenticate(r, u)
    PROVE  Typed'
<1> DEFINE x == [op |-> "login", step |-> "verified", user |-> u,
                 session |-> None, org |-> FirstOrganization(u),
                 password |-> users[u].password, rehash |-> users[u].outdated,
                 since |-> resets[u]]
<1>1. users[u] \in UserRow /\ resets[u] \in Nat
  BY DEF Authenticate, Typed, TypeOK, MembershipRow
<1>2. users[u].password \in Nat /\ users[u].outdated \in BOOLEAN
  BY <1>1 DEF UserRow
<1>3. x \in LoginRequest
  BY <1>1, <1>2, FirstOrganizationType DEF LoginRequest
<1>4. x \in RequestRow /\ Anchored(x)
  BY <1>3 DEF RequestRow, Anchored, Authenticate, MemberOps
<1>5. request' = [request EXCEPT ![r] = x]
      /\ UNCHANGED <<now, users, tenancy, sessions, tokens, resets>>
  BY DEF Authenticate, Begin
<1> HIDE DEF x
<1> QED BY <1>4, <1>5, OnlyLoads

LEMMA IssueSessionTyped ==
    ASSUME Typed, NEW r \in Requests, NEW s \in SessionIds, IssueSession(r, s)
    PROVE  Typed'
<1> DEFINE q == request[r]
<1> DEFINE x == [q EXCEPT !.step = "flushed", !.session = s]
<1>1. q \in LoginRequest /\ Anchored(q) /\ q.op = "login"
  BY RequestFields DEF IssueSession, InFlight
<1>2. x \in LoginRequest /\ x.op = "login" /\ x.user = q.user /\ x.session = s
  BY <1>1 DEF LoginRequest
<1>3. x \in RequestRow /\ Anchored(x)
  BY <1>1, <1>2 DEF RequestRow, Anchored, MemberOps
<1>4. request' = [request EXCEPT ![r] = x]
      /\ UNCHANGED <<now, users, tenancy, sessions, tokens, resets>>
  BY DEF IssueSession, Typed, RequestsOK
<1> HIDE DEF x
<1> QED BY <1>3, <1>4, OnlyLoads

LEMMA ReadSessionTyped ==
    ASSUME Typed, NEW r \in Requests, NEW s \in SessionIds, ReadSession(r, s)
    PROVE  Typed'
<1> DEFINE x == [op |-> "auth", step |-> "read", user |-> sessions[s].user,
                 session |-> s, org |-> sessions[s].org,
                 touch |-> IF sessions[s].seen + TouchInterval <= now THEN now ELSE None]
<1>1. sessions[s] \in SessionRow /\ sessions[s] # None /\ now \in Nat
  BY DEF ReadSession, Accepted, Open, Typed, TypeOK, MembershipRow
<1>2. sessions[s].user \in Users /\ sessions[s].org \in OrNone
  BY <1>1 DEF SessionRow, OrNone
<1>3. x \in AuthRequest
  BY <1>1, <1>2 DEF AuthRequest
<1>4. x \in RequestRow /\ Anchored(x)
  BY <1>1, <1>3 DEF RequestRow, Anchored, MemberOps
<1>5. request' = [request EXCEPT ![r] = x]
      /\ UNCHANGED <<now, users, tenancy, sessions, tokens, resets>>
  BY DEF ReadSession, Begin
<1> HIDE DEF x
<1> QED BY <1>4, <1>5, OnlyLoads

LEMMA FlushSwitchTyped ==
    ASSUME Typed, NEW r \in Requests, FlushSwitch(r)
    PROVE  Typed'
<1> DEFINE q == request[r]
<1> DEFINE x == [q EXCEPT !.step = "flushed", !.org = q.target]
<1>1. q \in MemberRequest /\ Anchored(q) /\ q.op = "switch"
  BY RequestFields DEF FlushSwitch, InFlight, MemberOps
<1>2. q.target \in Organizations /\ sessions[q.session] # None
  BY <1>1 DEF Anchored, MemberOps
<1>3. x \in MemberRequest /\ x.op = "switch" /\ x.session = q.session /\ x.target = q.target
  BY <1>1, <1>2 DEF MemberRequest, OrNone
<1>4. x \in RequestRow /\ Anchored(x)
  BY <1>2, <1>3 DEF RequestRow, Anchored, MemberOps
<1>5. request' = [request EXCEPT ![r] = x]
      /\ UNCHANGED <<now, users, tenancy, sessions, tokens, resets>>
  BY DEF FlushSwitch, Typed, RequestsOK
<1> HIDE DEF x
<1> QED BY <1>4, <1>5, OnlyLoads

LEMMA BeginTyped ==
    ASSUME Typed, NEW r \in Requests,
           \/ \E u \in Users : BeginRegistration(r, u)
           \/ \E t \in TokenIds : BeginReset(r, t)
    PROVE  Typed'
<1>1. ASSUME NEW u \in Users, BeginRegistration(r, u) PROVE Typed'
  <2> DEFINE x == [op |-> "register", step |-> "loaded", user |-> u]
  <2>1. x \in RequestRow /\ Anchored(x)
    BY DEF RequestRow, RegisterRequest, Anchored, MemberOps
  <2>2. request' = [request EXCEPT ![r] = x]
        /\ UNCHANGED <<now, users, tenancy, sessions, tokens, resets>>
    BY <1>1 DEF BeginRegistration, Begin
  <2> HIDE DEF x
  <2> QED BY <2>1, <2>2, OnlyLoads
<1>2. ASSUME NEW t \in TokenIds, BeginReset(r, t) PROVE Typed'
  <2> DEFINE u == tokens[t].user
  <2> DEFINE x == [op |-> "reset", step |-> "loaded", user |-> u,
                   links |-> LinksOf(u), open |-> OpenSessionsOf(u)]
  <2>1. tokens[t] # None /\ tokens[t] \in TokenRow
    BY <1>2 DEF BeginReset, Typed, TypeOK, MembershipRow
  <2>2. u \in Users /\ users[u] # None
    BY <2>1 DEF TokenRow, Typed, RequestsOK, TokensAnchored
  <2>3. LinksOf(u) \in SUBSET TokenIds /\ OpenSessionsOf(u) \in SUBSET SessionIds
    BY DEF LinksOf, OpenSessionsOf
  <2>4. x \in ResetRequest
    BY <2>2, <2>3 DEF ResetRequest
  <2>5. Anchored(x)
    BY <2>2 DEF Anchored, MemberOps, LinksOf, OpenSessionsOf, Open
  <2>6. request' = [request EXCEPT ![r] = x]
        /\ UNCHANGED <<now, users, tenancy, sessions, tokens, resets>>
    BY <1>2 DEF BeginReset, Begin
  <2> HIDE DEF x
  <2> QED BY <2>4, <2>5, <2>6, OnlyLoads DEF RequestRow
<1> QED BY <1>1, <1>2

-----------------------------------------------------------------------------
(* Steps that write.                                                       *)
LEMMA RegisterTyped ==
    ASSUME Typed, NEW r \in Requests, NEW s \in SessionIds, NEW o \in Organizations,
           Register(r, s, o)
    PROVE  Typed'
<1> DEFINE u == request[r].user
<1>1. u \in Users /\ resets[u] \in Nat
  BY RequestFields DEF Register, InFlight, RegisterRequest, Typed, TypeOK, MembershipRow
<1>2. NewSession(u, o, resets[u]) \in SessionRow
  BY <1>1, NewSessionType DEF Typed, OrNone
<1>3. users' \in [Users -> UserRow \cup {None}]
  BY <1>1 DEF Register, Typed, TypeOK, MembershipRow, UserRow
<1>4. memberships' \in [Users -> [Organizations -> Roles \cup {None}]]
  BY <1>1 DEF Register, Typed, TypeOK, MembershipRow, Roles
<1>5. sessions' \in [SessionIds -> SessionRow \cup {None}]
  BY <1>2 DEF Register, Typed, TypeOK, MembershipRow
<1>6. TypeOK'
  BY <1>3, <1>4, <1>5 DEF Register, Typed, TypeOK, MembershipRow
<1>7. \A v \in Users : users[v] # None => users'[v] # None
  BY DEF Register, Typed, TypeOK, MembershipRow
<1>8. \A z \in SessionIds : sessions[z] # None => sessions'[z] # None
  BY DEF Register, FreshSession, Typed, TypeOK, MembershipRow
<1>9. KeepsRows /\ TokensAnchored' /\ End(r)
  <2>1. ASSUME NEW t \in TokenIds, tokens[t] # None PROVE users'[tokens[t].user] # None
    <3>1. tokens[t].user \in Users /\ users[tokens[t].user] # None
      BY <2>1 DEF Typed, TypeOK, MembershipRow, TokenRow, RequestsOK, TokensAnchored
    <3> QED BY <3>1, <1>7
  <2> QED BY <2>1, <1>7, <1>8 DEF KeepsRows, Register, TokensAnchored
<1> QED BY <1>6, <1>9, EndsTyped

LEMMA CommitLoginTyped ==
    ASSUME Typed, NEW r \in Requests, CommitLogin(r)
    PROVE  Typed'
<1> DEFINE q == request[r]
<1>1. q \in LoginRequest /\ Anchored(q) /\ q.op = "login" /\ q.step = "flushed"
  BY RequestFields DEF CommitLogin, InFlight, Flushed
<1>2. q.user \in Users /\ q.session \in SessionIds /\ q.org \in OrNone /\ q.since \in Nat
      /\ q.password \in Nat /\ users[q.user] # None
  BY <1>1 DEF LoginRequest, Anchored
<1> DEFINE session == NewSession(q.user, q.org, q.since)
<1> DEFINE user == IF q.rehash THEN [password |-> q.password, outdated |-> FALSE]
                   ELSE users[q.user]
<1>3. session \in SessionRow
  BY <1>2, NewSessionType DEF Typed
<1>4. user \in UserRow \cup {None} /\ (q.rehash => user \in UserRow) /\ (~q.rehash => user # None)
  BY <1>2 DEF Typed, TypeOK, MembershipRow, UserRow
<1>5. users' = [users EXCEPT ![q.user] = user]
      /\ sessions' = [sessions EXCEPT ![q.session] = session]
  BY DEF CommitLogin
<1>6. End(r) /\ UNCHANGED <<now, tenancy, tokens, resets>>
  BY DEF CommitLogin
<1> HIDE DEF session, user
<1>7. TypeOK'
  BY <1>2, <1>3, <1>4, <1>5, <1>6 DEF Typed, TypeOK, MembershipRow, tenancy
<1>8. user # None /\ session # None
  BY <1>3, <1>4, RowsAreNotNone
<1>9. KeepsRows
  BY <1>2, <1>5, <1>6, <1>8 DEF KeepsRows, Typed, TypeOK, MembershipRow
<1>10. TokensAnchored'
  BY <1>6, <1>9 DEF KeepsRows, TokensAnchored, Typed, TypeOK, MembershipRow, RequestsOK, TokenRow
<1> QED BY <1>6, <1>7, <1>9, <1>10, EndsTyped

(* What a request of somebody signed in leaves of the sessions: its own    *)
(* with what it noted and a new status or organization, of some those that *)
(* it deletes, and the others as they are.                                 *)
SessionsKept(q) ==
    /\ sessions' \in [SessionIds -> SessionRow \cup {None}]
    /\ \A s \in SessionIds : sessions[s] # None =>
          /\ sessions'[s] # None
          /\ sessions'[s].user = sessions[s].user
          /\ sessions'[s].since = sessions[s].since
          /\ sessions'[s].excused = sessions[s].excused
          /\ sessions[s].status # "open" => sessions'[s].status # "open"
          /\ sessions[s].status = "deleted" => sessions'[s].status = "deleted"
          /\ s # q.session => sessions'[s].org = sessions[s].org
    /\ \A s \in SessionIds : sessions[s] = None => sessions'[s] = None

Cascaded(q, cascade) ==
    sessions' = [s \in SessionIds |->
        IF s \in cascade THEN [sessions[s] EXCEPT !.status = "deleted"] ELSE Touched(q)[s]]
Written(q) ==
    \/ sessions' = Touched(q)
    \/ /\ sessions' = [Touched(q) EXCEPT ![q.session].status = "revoked"]
       /\ sessions[q.session].status # "deleted"
    \/ \E org \in OrNone : sessions' = [Touched(q) EXCEPT ![q.session].org = org]
    \/ \E cascade \in SUBSET SessionIds :
          Cascaded(q, cascade) /\ \A s \in cascade : sessions[s] # None

LEMMA CommitKeepsSessions ==
    ASSUME TypeOK, NEW q \in MemberRequest, sessions[q.session] # None,
           Written(q)
    PROVE  SessionsKept(q)
<1> DEFINE mine == Touched(q)[q.session]
<1>1. q.session \in SessionIds
  BY DEF MemberRequest
<1>2. /\ Touched(q) \in [SessionIds -> SessionRow \cup {None}]
      /\ \A s \in SessionIds : s # q.session => Touched(q)[s] = sessions[s]
      /\ mine \in SessionRow
      /\ mine.status = sessions[q.session].status /\ mine.user = sessions[q.session].user
      /\ mine.since = sessions[q.session].since /\ mine.excused = sessions[q.session].excused
  BY TouchedFacts
<1>3. sessions \in [SessionIds -> SessionRow \cup {None}]
  BY DEF TypeOK, MembershipRow
<1>4. CASE sessions' = Touched(q)
  BY <1>1, <1>2, <1>3, <1>4, RowsAreNotNone DEF SessionsKept
<1>5. CASE /\ sessions' = [Touched(q) EXCEPT ![q.session].status = "revoked"]
           /\ sessions[q.session].status # "deleted"
  <2> DEFINE row == [mine EXCEPT !.status = "revoked"]
  <2>1. sessions' = [Touched(q) EXCEPT ![q.session] = row]
    BY <1>5
  <2>2. row \in SessionRow /\ row.status = "revoked" /\ row.user = mine.user
        /\ row.since = mine.since /\ row.excused = mine.excused
    BY <1>2 DEF SessionRow
  <2> HIDE DEF row
  <2> QED BY <2>1, <2>2, <1>1, <1>2, <1>3, <1>5, RowsAreNotNone DEF SessionsKept
<1>6. ASSUME NEW org \in OrNone, sessions' = [Touched(q) EXCEPT ![q.session].org = org]
      PROVE  SessionsKept(q)
  <2> DEFINE row == [mine EXCEPT !.org = org]
  <2>1. sessions' = [Touched(q) EXCEPT ![q.session] = row]
    BY <1>6
  <2>2. row \in SessionRow /\ row.status = mine.status /\ row.user = mine.user
        /\ row.since = mine.since /\ row.excused = mine.excused
    BY <1>2 DEF SessionRow, OrNone
  <2> HIDE DEF row
  <2> QED BY <2>1, <2>2, <1>1, <1>2, <1>3, RowsAreNotNone DEF SessionsKept
<1>7. ASSUME NEW cascade \in SUBSET SessionIds, \A s \in cascade : sessions[s] # None,
             Cascaded(q, cascade)
      PROVE  SessionsKept(q)
  <2>1. ASSUME NEW s \in cascade
        PROVE  LET row == [sessions[s] EXCEPT !.status = "deleted"] IN
               /\ row \in SessionRow /\ row.status = "deleted"
               /\ row.user = sessions[s].user /\ row.since = sessions[s].since
               /\ row.excused = sessions[s].excused /\ row.org = sessions[s].org
    <3>1. sessions[s] \in SessionRow
      BY <1>3, <1>7
    <3> QED BY <3>1 DEF SessionRow
  <2>2. ASSUME NEW s \in SessionIds \ cascade PROVE sessions'[s] = Touched(q)[s]
    BY <1>7, <2>2 DEF Cascaded
  <2>3. ASSUME NEW s \in cascade
        PROVE  /\ sessions'[s] \in SessionRow /\ sessions'[s].status = "deleted"
               /\ sessions'[s].user = sessions[s].user
               /\ sessions'[s].since = sessions[s].since
               /\ sessions'[s].excused = sessions[s].excused
               /\ sessions'[s].org = sessions[s].org
    BY <1>7, <2>1, <2>3 DEF Cascaded
  <2>4. sessions' \in [SessionIds -> SessionRow \cup {None}]
    BY <1>2, <1>7, <2>2, <2>3 DEF Cascaded
  <2>5. \A s \in SessionIds : sessions[s] = None => sessions'[s] = None
    BY <1>1, <1>2, <1>7, <2>2
  <2> QED BY <1>1, <1>2, <1>3, <2>2, <2>3, <2>4, <2>5, RowsAreNotNone DEF SessionsKept
<1> QED BY <1>4, <1>5, <1>6, <1>7 DEF Written

MemberCommit(r) ==
    \/ CommitWork(r) \/ CommitLogout(r) \/ CommitSwitch(r) \/ CommitRemoval(r)
    \/ \E o \in Organizations : CommitOrganization(r, o)

LEMMA MemberCommitFacts ==
    ASSUME Typed, NEW r \in Requests, MemberCommit(r)
    PROVE  /\ request[r] # None /\ request[r] \in MemberRequest /\ Anchored(request[r])
           /\ SessionsKept(request[r])
           /\ End(r) /\ UNCHANGED <<now, users, tokens, resets>>
<1> DEFINE q == request[r]
<1>1. q # None /\ q.op \in MemberOps
  BY DEF MemberCommit, CommitWork, CommitLogout, CommitSwitch, CommitRemoval,
         CommitOrganization, InFlight, Flushed, MemberOps
<1>2. q \in MemberRequest /\ Anchored(q)
  BY <1>1, RequestFields
<1>3. sessions[q.session] # None
  BY <1>1, <1>2 DEF Anchored
<1>4. TypeOK
  BY DEF Typed
<1>5. End(r) /\ UNCHANGED <<now, users, tokens, resets>>
  BY DEF MemberCommit, CommitWork, CommitLogout, CommitSwitch, CommitRemoval,
         CommitOrganization
<1>6. Written(q)
  <2>1. CASE CommitWork(r) \/ \E o \in Organizations : CommitOrganization(r, o)
    BY <2>1 DEF CommitWork, CommitOrganization, Written
  <2>2. CASE CommitLogout(r)
    BY <2>2 DEF CommitLogout, Writable, Written
  <2>3. CASE CommitSwitch(r)
    <3>1. q.target \in OrNone
      BY <1>2, <2>3 DEF Anchored, CommitSwitch, Flushed, InFlight, OrNone
    <3> QED BY <2>3, <3>1 DEF CommitSwitch, Written
  <2>4. CASE CommitRemoval(r)
    <3>1. Cascaded(q, SessionsIn(q.target, q.org))
      BY <2>4 DEF CommitRemoval, Cascaded
    <3>2. /\ SessionsIn(q.target, q.org) \in SUBSET SessionIds
          /\ \A s \in SessionsIn(q.target, q.org) : sessions[s] # None
      BY DEF SessionsIn
    <3> QED BY <3>1, <3>2 DEF Written
  <2> QED BY <2>1, <2>2, <2>3, <2>4 DEF MemberCommit
<1> QED BY <1>1, <1>2, <1>3, <1>4, <1>5, <1>6, CommitKeepsSessions

LEMMA MemberCommitTyped ==
    ASSUME Typed, NEW r \in Requests, MemberCommit(r)
    PROVE  Typed'
<1> DEFINE q == request[r]
<1>1. /\ q \in MemberRequest /\ Anchored(q) /\ q # None
      /\ SessionsKept(q) /\ End(r) /\ UNCHANGED <<now, users, tokens, resets>>
  BY MemberCommitFacts
<1>2. q.user \in Users
  BY <1>1 DEF MemberRequest
<1>3. organizations' \subseteq Organizations
  BY DEF MemberCommit, CommitWork, CommitLogout, CommitSwitch, CommitRemoval,
         CommitOrganization, tenancy, Typed, TypeOK, MembershipRow
<1>4. memberships' \in [Users -> [Organizations -> Roles \cup {None}]]
  <2>1. CASE CommitRemoval(r)
    <3>1. q.target \in Users /\ q.org \in Organizations
      BY <1>1, <2>1 DEF Anchored, CommitRemoval, InFlight
    <3> QED BY <2>1, <3>1 DEF CommitRemoval, Typed, TypeOK, MembershipRow
  <2>2. ASSUME NEW o \in Organizations, CommitOrganization(r, o)
        PROVE  memberships' \in [Users -> [Organizations -> Roles \cup {None}]]
    BY <1>2, <2>2 DEF CommitOrganization, Typed, TypeOK, MembershipRow, Roles
  <2>3. CASE CommitWork(r) \/ CommitLogout(r) \/ CommitSwitch(r)
    BY <2>3 DEF CommitWork, CommitLogout, CommitSwitch, tenancy, Typed, TypeOK, MembershipRow
  <2> QED BY <2>1, <2>2, <2>3 DEF MemberCommit
<1>5. TypeOK'
  BY <1>1, <1>3, <1>4 DEF Typed, TypeOK, MembershipRow, SessionsKept
<1>6. KeepsRows
  BY <1>1 DEF KeepsRows, SessionsKept
<1>7. TokensAnchored'
  BY <1>1 DEF Typed, RequestsOK, TokensAnchored
<1> QED BY <1>1, <1>5, <1>6, <1>7, EndsTyped

LEMMA RequestLinkTyped ==
    ASSUME Typed, NEW u \in Users, NEW t \in TokenIds, RequestLink(u, t)
    PROVE  Typed'
<1> DEFINE row == [user |-> u, expires |-> now + TokenLifetime, used |-> FALSE,
                   since |-> resets[u], excused |-> ResetInFlight(u)]
<1>1. now + TokenLifetime \in Nat /\ resets[u] \in Nat
  BY ConstantFacts DEF Typed, TypeOK, MembershipRow
<1>2. row \in TokenRow /\ row.user = u
  BY <1>1 DEF TokenRow, ResetInFlight
<1>3. tokens' = [tokens EXCEPT ![t] = row] /\ users[u] # None
      /\ UNCHANGED <<now, users, tenancy, sessions, resets, request>>
  BY DEF NewLink, RequestLink
<1> HIDE DEF row
<1>4. TypeOK'
  BY <1>2, <1>3 DEF Typed, TypeOK, MembershipRow, tenancy
<1>5. TokensAnchored'
  BY <1>2, <1>3 DEF Typed, TypeOK, MembershipRow, RequestsOK, TokensAnchored
<1>6. KeepsRows
  BY <1>2, <1>3, RowsAreNotNone DEF KeepsRows, Typed, TypeOK, MembershipRow
<1>7. ASSUME NEW p \in Requests, request'[p] # None PROVE Anchored(request[p])'
  <2>1. PICK q : q = request[p]
    OBVIOUS
  <2>2. request'[p] = q /\ q # None
    BY <1>3, <1>7, <2>1
  <2>3. q \in RequestRow /\ Anchored(q)
    BY <2>1, <2>2 DEF Typed, RequestsOK
  <2>4. Anchored(q)'
    BY <1>6, <2>3, AnchoredKept
  <2> QED BY <2>2, <2>4 DEF Anchored
<1> QED BY <1>3, <1>4, <1>5, <1>7 DEF Typed, RequestsOK

LEMMA CommitResetTyped ==
    ASSUME Typed, NEW r \in Requests, CommitReset(r)
    PROVE  Typed'
<1> DEFINE q == request[r]
<1> DEFINE u == q.user
<1>1. q \in ResetRequest /\ Anchored(q) /\ q.op = "reset"
  BY RequestFields DEF CommitReset, InFlight
<1>2. u \in Users /\ q.links \subseteq TokenIds /\ q.open \subseteq SessionIds
      /\ (\A t \in q.links : tokens[t] # None) /\ (\A s \in q.open : sessions[s] # None)
  BY <1>1 DEF ResetRequest, Anchored
<1>3. resets' \in [Users -> Nat] /\ users' \in [Users -> UserRow \cup {None}]
      /\ \A v \in Users : users[v] # None => users'[v] # None
  <2>1. resets[u] + 1 \in Nat
    BY <1>2 DEF Typed, TypeOK, MembershipRow
  <2>2. [password |-> resets[u] + 1, outdated |-> FALSE] \in UserRow
    BY <2>1 DEF UserRow
  <2> QED BY <1>2, <2>1, <2>2, RowsAreNotNone DEF CommitReset, Typed, TypeOK, MembershipRow
<1>4. ASSUME NEW t \in TokenIds
      PROVE  tokens'[t] \in TokenRow \cup {None} /\ (tokens[t] # None => tokens'[t] # None)
             /\ (tokens'[t] # None => tokens[t] # None /\ tokens'[t].user = tokens[t].user)
  <2>1. tokens[t] \in TokenRow \cup {None}
    BY DEF Typed, TypeOK, MembershipRow
  <2>2. CASE t \in q.links
    <3>1. tokens'[t] = [tokens[t] EXCEPT !.used = TRUE] /\ tokens[t] \in TokenRow
      BY <2>1, <2>2, <1>2 DEF CommitReset
    <3> QED BY <3>1, RowsAreNotNone DEF TokenRow
  <2>3. CASE t \notin q.links
    BY <2>1, <2>3 DEF CommitReset
  <2> QED BY <2>2, <2>3
<1>5. tokens' \in [TokenIds -> TokenRow \cup {None}]
  BY <1>4 DEF CommitReset
<1>6. ASSUME NEW s \in SessionIds
      PROVE  sessions'[s] \in SessionRow \cup {None} /\ (sessions[s] # None => sessions'[s] # None)
  <2>1. sessions[s] \in SessionRow \cup {None}
    BY DEF Typed, TypeOK, MembershipRow
  <2>2. CASE s \in q.open
    <3>1. sessions'[s] = [sessions[s] EXCEPT !.status = "revoked"] /\ sessions[s] \in SessionRow
      BY <2>1, <2>2, <1>2 DEF CommitReset
    <3> QED BY <3>1, RowsAreNotNone DEF SessionRow
  <2>3. CASE s \notin q.open
    BY <2>1, <2>3 DEF CommitReset
  <2> QED BY <2>2, <2>3
<1>7. sessions' \in [SessionIds -> SessionRow \cup {None}]
  BY <1>6 DEF CommitReset
<1>8. TypeOK'
  BY <1>3, <1>5, <1>7 DEF CommitReset, tenancy, Typed, TypeOK, MembershipRow
<1>9. KeepsRows
  BY <1>3, <1>4, <1>6 DEF KeepsRows
<1>10. TokensAnchored'
  BY <1>3, <1>4 DEF TokensAnchored, Typed, RequestsOK, TypeOK, TokenRow
<1> QED BY <1>8, <1>9, <1>10, EndsTyped DEF CommitReset

ResolveStep(r) ==
    \/ Work(r) \/ Logout(r) \/ CreateOrganization(r)
    \/ \E o \in Organizations : Switch(r, o)
    \/ \E u \in Users, v \in Users \cup {None} : Remove(r, u, v)

LEMMA ResolveStepTyped ==
    ASSUME Typed, NEW r \in Requests, ResolveStep(r)
    PROVE  Typed'
<1>1. CASE Work(r) \/ Logout(r) \/ CreateOrganization(r)
  BY <1>1, ResolveTyped DEF Work, Logout, CreateOrganization, MemberOps, OrNone
<1>2. ASSUME NEW o \in Organizations, Switch(r, o) PROVE Typed'
  BY <1>2, ResolveTyped DEF Switch, MemberOps, OrNone
<1>3. ASSUME NEW u \in Users, NEW v \in Users \cup {None}, Remove(r, u, v) PROVE Typed'
  <2>1. Resolve(r, "remove", u, v) /\ ActiveOrganization(request[r]) # None
    BY <1>3 DEF Remove, MayRemove
  <2>2. request[r] \in AuthRequest
    BY <2>1, RequestFields DEF Resolve, InFlight
  <2>3. ActiveOrganization(request[r]) \in Organizations
    BY <2>1, <2>2, ActiveOrganizationType DEF AuthRequest, OrNone
  <2> QED BY <2>1, <2>3, ResolveTyped DEF MemberOps
<1> QED BY <1>1, <1>2, <1>3 DEF ResolveStep

LEMMA DroppedTyped ==
    ASSUME Typed, NEW r \in Requests, Read(r) \/ Abandon(r)
    PROVE  Typed'
<1>1. End(r) /\ UNCHANGED <<now, users, tenancy, sessions, tokens, resets>>
  BY DEF Read, Abandon
<1>2. TypeOK' /\ TokensAnchored' /\ KeepsRows
  BY <1>1 DEF Typed, TypeOK, MembershipRow, RequestsOK, TokensAnchored, KeepsRows, tenancy
<1> QED BY <1>1, <1>2, EndsTyped

(* A step of Next loads, drops or commits.                                 *)
Loads(r) ==
    \/ \E u \in Users : BeginRegistration(r, u) \/ Authenticate(r, u)
    \/ \E s \in SessionIds : IssueSession(r, s) \/ ReadSession(r, s)
    \/ \E t \in TokenIds : BeginReset(r, t)
    \/ ResolveStep(r) \/ FlushSwitch(r)
Drops(r) == Read(r) \/ Abandon(r)
Commits(r) ==
    \/ \E s \in SessionIds, o \in Organizations : Register(r, s, o)
    \/ CommitLogin(r) \/ CommitReset(r) \/ MemberCommit(r)

LEMMA StepsSplit ==
    ASSUME [Next]_vars
    PROVE  \/ \E r \in Requests : Loads(r) \/ Drops(r) \/ Commits(r)
           \/ \E u \in Users, t \in TokenIds : RequestLink(u, t)
           \/ Tick
           \/ UNCHANGED vars
BY DEF Next, AccountStep, MemberStep, Loads, Drops, Commits, ResolveStep, MemberCommit

LEMMA TypedInit == Init => Typed
<1> SUFFICES ASSUME Init PROVE Typed
  OBVIOUS
<1>1. TypeOK
  BY ConstantFacts DEF Init, TypeOK, UserRow, MembershipRow
<1>2. RequestsOK
  BY DEF Init, RequestsOK, TokensAnchored
<1> QED BY <1>1, <1>2 DEF Typed

LEMMA TypedStep ==
    ASSUME Typed, [Next]_vars PROVE Typed'
<1>1. ASSUME NEW r \in Requests, Loads(r) PROVE Typed'
  BY <1>1, BeginTyped, AuthenticateTyped, IssueSessionTyped, ReadSessionTyped,
     ResolveStepTyped, FlushSwitchTyped DEF Loads
<1>2. ASSUME NEW r \in Requests, Drops(r) PROVE Typed'
  BY <1>2, DroppedTyped DEF Drops
<1>3. ASSUME NEW r \in Requests, Commits(r) PROVE Typed'
  BY <1>3, RegisterTyped, CommitLoginTyped, CommitResetTyped, MemberCommitTyped DEF Commits
<1>4. ASSUME NEW u \in Users, NEW t \in TokenIds, RequestLink(u, t) PROVE Typed'
  BY <1>4, RequestLinkTyped
<1>5. CASE Tick \/ UNCHANGED vars
  <2>1. /\ now' \in Nat
        /\ UNCHANGED <<users, organizations, memberships, sessions, tokens, resets, request>>
    BY <1>5 DEF Tick, vars, tenancy, Typed, TypeOK, MembershipRow
  <2>2. TypeOK'
    BY <2>1 DEF Typed, TypeOK, MembershipRow
  <2>3. TokensAnchored' /\ request' \in [Requests -> RequestRow \cup {None}]
    BY <2>1 DEF Typed, RequestsOK, TokensAnchored
  <2>4. ASSUME NEW p \in Requests, request'[p] # None PROVE Anchored(request[p])'
    <3>1. request[p] # None /\ Anchored(request[p])
      BY <2>1, <2>4 DEF Typed, RequestsOK
    <3> QED BY <2>1, <3>1 DEF Anchored
  <2> QED BY <2>2, <2>3, <2>4 DEF Typed, RequestsOK
<1> QED BY <1>1, <1>2, <1>3, <1>4, <1>5, StepsSplit

(* Rows are of their tables' types in every state, for any people,         *)
(* organizations and requests (models/user.py, session.py, membership.py,  *)
(* password_reset.py).                                                     *)
THEOREM AccountsTyped == Spec => []TypeOK
<1>1. Init => Typed
  BY TypedInit
<1>2. Typed /\ [Next]_vars => Typed'
  BY TypedStep
<1>3. Typed => TypeOK
  BY DEF Typed
<1> QED BY <1>1, <1>2, <1>3, PTL DEF Spec

-----------------------------------------------------------------------------
(* What a request x loads, for the invariants of the promises.             *)
Loaded(r, x) ==
    /\ x \in RequestRow
    /\ x.op = "login" /\ x.step = "flushed" =>
          FreshSession(x.session) /\ RefersToMembership(x.user, x.org)
    /\ x.op = "auth" => sessions[x.session].user = x.user
    /\ x.op \in MemberOps =>
          /\ request[r] # None /\ request[r].op \in {"auth"} \cup MemberOps
          /\ x.session = request[r].session /\ x.user = request[r].user
    /\ x.op = "switch" /\ x.step = "flushed" =>
          x.org = x.target /\ memberships[x.user][x.target] # None
    /\ x.op = "remove" => x.witness # x.target
    /\ x.op = "reset" => x.links = LinksOf(x.user) /\ x.open = OpenSessionsOf(x.user)

LEMMA ResolveLoads ==
    ASSUME Typed, NEW r \in Requests, NEW op \in MemberOps,
           NEW target \in Users \cup OrNone, NEW witness \in Users \cup {None},
           Resolve(r, op, target, witness), op = "remove" => witness # target
    PROVE  \E x : request' = [request EXCEPT ![r] = x] /\ Loaded(r, x)
<1> DEFINE q == request[r]
<1>1. q # None /\ q.op = "auth" /\ q \in AuthRequest
  BY RequestFields DEF Resolve, InFlight
<1>2. ActiveOrganization(q) \in OrNone
  BY <1>1, ActiveOrganizationType DEF AuthRequest
<1> DEFINE x == [op |-> op, step |-> "loaded", user |-> q.user, session |-> q.session,
                 org |-> ActiveOrganization(q), cleared |-> q.org # ActiveOrganization(q),
                 touch |-> q.touch, target |-> target, witness |-> witness]
<1>3. x \in MemberRequest
  BY <1>1, <1>2 DEF MemberRequest, AuthRequest
<1>4. Loaded(r, x)
  BY <1>1, <1>3 DEF Loaded, MemberOps, RequestRow
<1>5. request' = [request EXCEPT ![r] = x]
  BY DEF Resolve
<1> HIDE DEF x
<1> QED BY <1>4, <1>5

LEMMA LoadFacts ==
    ASSUME Typed, NEW r \in Requests, Loads(r)
    PROVE  /\ UNCHANGED <<now, users, organizations, memberships, sessions, tokens, resets>>
           /\ \E x : request' = [request EXCEPT ![r] = x] /\ Loaded(r, x)
<1>1. UNCHANGED <<now, users, organizations, memberships, sessions, tokens, resets>>
  BY DEF Loads, ResolveStep, BeginRegistration, Authenticate, IssueSession, ReadSession,
         BeginReset, FlushSwitch, Work, Logout, CreateOrganization, Switch, Remove,
         Resolve, tenancy
<1> DEFINE Goal == \E x : request' = [request EXCEPT ![r] = x] /\ Loaded(r, x)
<1>2. ASSUME NEW u \in Users, BeginRegistration(r, u) PROVE Goal
  <2> DEFINE x == [op |-> "register", step |-> "loaded", user |-> u]
  <2>1. Loaded(r, x)
    BY DEF Loaded, RequestRow, RegisterRequest, MemberOps
  <2> QED BY <1>2, <2>1 DEF BeginRegistration, Begin
<1>3. ASSUME NEW u \in Users, Authenticate(r, u) PROVE Goal
  <2> DEFINE x == [op |-> "login", step |-> "verified", user |-> u,
                   session |-> None, org |-> FirstOrganization(u),
                   password |-> users[u].password, rehash |-> users[u].outdated,
                   since |-> resets[u]]
  <2>1. users[u] \in UserRow /\ resets[u] \in Nat
    BY <1>3 DEF Authenticate, Typed, TypeOK, MembershipRow
  <2>2. x \in LoginRequest
    BY <2>1, FirstOrganizationType DEF LoginRequest, UserRow
  <2>3. Loaded(r, x)
    BY <2>2 DEF Loaded, RequestRow, MemberOps
  <2>4. request' = [request EXCEPT ![r] = x]
    BY <1>3 DEF Authenticate, Begin
  <2> HIDE DEF x
  <2> QED BY <2>3, <2>4
<1>4. ASSUME NEW s \in SessionIds, IssueSession(r, s) PROVE Goal
  <2> DEFINE q == request[r]
  <2> DEFINE x == [q EXCEPT !.step = "flushed", !.session = s]
  <2>1. q \in LoginRequest /\ q.op = "login"
    BY <1>4, RequestFields DEF IssueSession, InFlight
  <2>2. /\ x \in LoginRequest /\ x.op = "login" /\ x.session = s
        /\ x.user = q.user /\ x.org = q.org
    BY <2>1 DEF LoginRequest
  <2>3. Loaded(r, x)
    BY <1>4, <2>2 DEF Loaded, RequestRow, MemberOps, IssueSession
  <2>4. request' = [request EXCEPT ![r] = x]
    BY <1>4 DEF IssueSession, Typed, RequestsOK
  <2> HIDE DEF x
  <2> QED BY <2>3, <2>4
<1>5. ASSUME NEW s \in SessionIds, ReadSession(r, s) PROVE Goal
  <2> DEFINE x == [op |-> "auth", step |-> "read", user |-> sessions[s].user,
                   session |-> s, org |-> sessions[s].org,
                   touch |-> IF sessions[s].seen + TouchInterval <= now THEN now ELSE None]
  <2>1. sessions[s] \in SessionRow /\ now \in Nat
    BY <1>5 DEF ReadSession, Accepted, Open, Typed, TypeOK, MembershipRow
  <2>2. x \in AuthRequest
    BY <2>1 DEF AuthRequest, SessionRow, OrNone
  <2>3. Loaded(r, x)
    BY <2>2 DEF Loaded, RequestRow, MemberOps
  <2>4. request' = [request EXCEPT ![r] = x]
    BY <1>5 DEF ReadSession, Begin
  <2> HIDE DEF x
  <2> QED BY <2>3, <2>4
<1>6. ASSUME NEW t \in TokenIds, BeginReset(r, t) PROVE Goal
  <2> DEFINE u == tokens[t].user
  <2> DEFINE x == [op |-> "reset", step |-> "loaded", user |-> u,
                   links |-> LinksOf(u), open |-> OpenSessionsOf(u)]
  <2>1. tokens[t] \in TokenRow
    BY <1>6 DEF BeginReset, Typed, TypeOK, MembershipRow
  <2>2. LinksOf(u) \in SUBSET TokenIds /\ OpenSessionsOf(u) \in SUBSET SessionIds
    BY DEF LinksOf, OpenSessionsOf
  <2>3. x \in ResetRequest
    BY <2>1, <2>2 DEF ResetRequest, TokenRow
  <2>4. Loaded(r, x)
    BY <2>3 DEF Loaded, RequestRow, MemberOps
  <2>5. request' = [request EXCEPT ![r] = x]
    BY <1>6 DEF BeginReset, Begin
  <2> HIDE DEF x
  <2> QED BY <2>4, <2>5
<1>7. CASE ResolveStep(r)
  <2>1. CASE Work(r) \/ Logout(r) \/ CreateOrganization(r)
    BY <1>1, <2>1, ResolveLoads DEF Work, Logout, CreateOrganization, MemberOps, OrNone
  <2>2. ASSUME NEW o \in Organizations, Switch(r, o) PROVE Goal
    BY <2>2, ResolveLoads DEF Switch, MemberOps, OrNone
  <2>3. ASSUME NEW u \in Users, NEW v \in Users \cup {None}, Remove(r, u, v) PROVE Goal
    <3>1. Resolve(r, "remove", u, v) /\ v # u
      BY <2>3, ConstantFacts DEF Remove
    <3> QED BY <3>1, ResolveLoads DEF MemberOps
  <2> QED BY <1>1, <1>7, <2>1, <2>2, <2>3 DEF ResolveStep
<1>8. CASE FlushSwitch(r)
  <2> DEFINE q == request[r]
  <2> DEFINE x == [q EXCEPT !.step = "flushed", !.org = q.target]
  <2>1. q \in MemberRequest /\ Anchored(q) /\ q # None /\ q.op = "switch"
    BY <1>8, RequestFields DEF FlushSwitch, InFlight, MemberOps
  <2>2. q.target \in Organizations
    BY <2>1 DEF Anchored
  <2>3. /\ x \in MemberRequest /\ x.op = "switch" /\ x.session = q.session
        /\ x.user = q.user /\ x.target = q.target /\ x.org = q.target
    BY <2>1, <2>2 DEF MemberRequest, OrNone
  <2>4. memberships[q.user][q.target] # None
    BY <1>8, <2>2, ConstantFacts DEF FlushSwitch, RefersToMembership
  <2>5. Loaded(r, x)
    BY <2>1, <2>3, <2>4 DEF Loaded, RequestRow, MemberOps
  <2>6. request' = [request EXCEPT ![r] = x]
    BY <1>8 DEF FlushSwitch, Typed, RequestsOK
  <2> HIDE DEF x
  <2> QED BY <1>1, <2>5, <2>6
<1> QED BY <1>1, <1>2, <1>3, <1>4, <1>5, <1>6, <1>7, <1>8 DEF Loads

(* What the other steps leave of the requests, the sessions and the links. *)
LEMMA EndFacts ==
    ASSUME Typed, NEW r \in Requests, End(r)
    PROVE  \A p \in Requests : request'[p] # None => p # r /\ request'[p] = request[p]
BY DEF End, Typed, RequestsOK

LEMMA LoadedRequests ==
    ASSUME Typed, NEW r \in Requests, NEW x, request' = [request EXCEPT ![r] = x]
    PROVE  request'[r] = x /\ \A p \in Requests : p # r => request'[p] = request[p]
BY DEF Typed, RequestsOK

LEMMA RowsOf ==
    ASSUME Typed
    PROVE  /\ \A s \in SessionIds : sessions[s] \in SessionRow \cup {None}
           /\ \A s \in SessionIds : sessions[s] # None => sessions[s].user \in Users
           /\ \A t \in TokenIds : tokens[t] # None => tokens[t].user \in Users
BY DEF Typed, TypeOK, MembershipRow, SessionRow, TokenRow

LEMMA NewSessionFacts ==
    ASSUME NEW u, NEW o, NEW n
    PROVE  LET x == NewSession(u, o, n) IN
           /\ x.status = "open" /\ x.user = u /\ x.org = o
           /\ x.since = n /\ x.excused = Excused(u, n)
BY DEF NewSession

(* A sign-in that has flushed its session has it to itself.                *)
FlushedLogin(p) == request[p] # None /\ request[p].op = "login" /\ request[p].step = "flushed"
Fresh ==
    /\ \A p \in Requests : FlushedLogin(p) => sessions[request[p].session] = None
    /\ \A p, q \in Requests : FlushedLogin(p) /\ FlushedLogin(q) /\ p # q =>
          request[p].session # request[q].session

LEMMA CommitResetRows ==
    ASSUME Typed, NEW r \in Requests, CommitReset(r)
    PROVE  \A s \in SessionIds :
             /\ sessions[s] = None => sessions'[s] = None
             /\ sessions[s] # None =>
                  /\ sessions'[s] # None
                  /\ sessions'[s].user = sessions[s].user /\ sessions'[s].org = sessions[s].org
                  /\ sessions'[s].since = sessions[s].since
                  /\ sessions'[s].excused = sessions[s].excused
                  /\ s \notin request[r].open => sessions'[s] = sessions[s]
                  /\ s \in request[r].open => sessions'[s].status = "revoked"
                  /\ sessions[s].status = "deleted" => sessions'[s].status = "deleted"
<1> DEFINE q == request[r]
<1> TAKE s \in SessionIds
<1>1. q \in ResetRequest /\ Anchored(q)
  BY RequestFields DEF CommitReset, InFlight
<1>2. \A z \in q.open : z \in SessionIds /\ sessions[z] # None
  BY <1>1 DEF ResetRequest, Anchored
<1>3. sessions[s] \in SessionRow \cup {None}
  BY RowsOf
<1>4. CASE s \in q.open
  <2>1. /\ sessions'[s] = [sessions[s] EXCEPT !.status = "revoked"]
        /\ sessions[s] \in SessionRow /\ sessions[s].status # "deleted"
    BY <1>2, <1>3, <1>4 DEF CommitReset, Writable
  <2>2. sessions'[s] \in SessionRow
    BY <2>1 DEF SessionRow
  <2> QED BY <2>1, <2>2, <1>2, <1>4, RowsAreNotNone DEF SessionRow
<1>5. CASE s \notin q.open
  BY <1>5 DEF CommitReset
<1> QED BY <1>4, <1>5

LEMMA FreshStep ==
    ASSUME Typed, Fresh, [Next]_vars PROVE Fresh'
<1>1. ASSUME NEW r \in Requests, Loads(r) PROVE Fresh'
  <2>1. PICK x : request' = [request EXCEPT ![r] = x] /\ Loaded(r, x)
    BY <1>1, LoadFacts
  <2>2. sessions' = sessions
    BY <1>1, LoadFacts
  <2>3. request'[r] = x /\ \A p \in Requests : p # r => request'[p] = request[p]
    BY <2>1, LoadedRequests
  <2>4. x.op = "login" /\ x.step = "flushed" => FreshSession(x.session)
    BY <2>1 DEF Loaded
  <2> QED BY <2>2, <2>3, <2>4 DEF Fresh, FlushedLogin, FreshSession, Flushed, InFlight
<1>2. ASSUME NEW r \in Requests, End(r),
             \A s \in SessionIds : sessions[s] = None => sessions'[s] = None
      PROVE  Fresh'
  <2>1. \A p \in Requests : request'[p] # None => request'[p] = request[p]
    BY <1>2, EndFacts
  <2>2. \A p \in Requests : FlushedLogin(p) => request[p].session \in SessionIds
    BY DEF Typed, RequestsOK, Anchored, FlushedLogin
  <2> QED BY <1>2, <2>1, <2>2 DEF Fresh, FlushedLogin
<1>3. ASSUME NEW r \in Requests, Drops(r) PROVE Fresh'
  BY <1>2, <1>3 DEF Drops, Read, Abandon
<1>4. ASSUME NEW r \in Requests, Commits(r) PROVE Fresh'
  <2>1. ASSUME NEW s \in SessionIds, NEW o \in Organizations, Register(r, s, o) PROVE Fresh'
    <3>1. \A p \in Requests : FlushedLogin(p) => request[p].session # s
      BY <2>1 DEF Register, FreshSession, Flushed, InFlight, FlushedLogin
    <3>2. \A z \in SessionIds : z # s => sessions'[z] = sessions[z]
      BY <2>1 DEF Register, Typed, TypeOK, MembershipRow
    <3>3. \A p \in Requests : request'[p] # None => request'[p] = request[p]
      BY <2>1, EndFacts DEF Register
    <3>4. \A p \in Requests : FlushedLogin(p) => request[p].session \in SessionIds
      BY DEF Typed, RequestsOK, Anchored, FlushedLogin
    <3> QED BY <3>1, <3>2, <3>3, <3>4 DEF Fresh, FlushedLogin
  <2>2. CASE CommitLogin(r)
    <3>1. FlushedLogin(r)
      BY <2>2 DEF CommitLogin, Flushed, InFlight, FlushedLogin
    <3>2. \A z \in SessionIds : z # request[r].session => sessions'[z] = sessions[z]
      BY <2>2 DEF CommitLogin, Typed, TypeOK, MembershipRow
    <3>3. \A p \in Requests : request'[p] # None => p # r /\ request'[p] = request[p]
      BY <2>2, EndFacts DEF CommitLogin
    <3>4. \A p \in Requests : FlushedLogin(p) => request[p].session \in SessionIds
      BY DEF Typed, RequestsOK, Anchored, FlushedLogin
    <3> QED BY <3>1, <3>2, <3>3, <3>4 DEF Fresh, FlushedLogin
  <2>3. CASE CommitReset(r)
    BY <1>2, <2>3, CommitResetRows DEF CommitReset
  <2>4. CASE MemberCommit(r)
    BY <1>2, <2>4, MemberCommitFacts DEF SessionsKept
  <2> QED BY <1>4, <2>1, <2>2, <2>3, <2>4 DEF Commits
<1>5. CASE UNCHANGED <<sessions, request>>
  BY <1>5 DEF Fresh, FlushedLogin
<1> QED BY <1>1, <1>3, <1>4, <1>5, StepsSplit DEF NewLink, RequestLink, Tick, vars

(* A session that was signed out or deleted is never good again            *)
(* (services/auth.py, revoke_session and resolve_session).                 *)
THEOREM SignedOutSessionsStayOut == Spec => SignedOutStaysOut
<1> DEFINE Kept == \A s \in SessionIds : sessions[s] # None /\ ~Open(s) => ~Open(s)'
<1>1. Init => Typed /\ Fresh
  BY TypedInit DEF Init, Fresh, FlushedLogin
<1>2. Typed /\ Fresh /\ [Next]_vars => (Typed /\ Fresh)'
  BY TypedStep, FreshStep
<1>3. Typed /\ Fresh /\ [Next]_vars => Kept
  <2> SUFFICES ASSUME Typed, Fresh, [Next]_vars, NEW s \in SessionIds,
                      sessions[s] # None, ~Open(s)
               PROVE  ~Open(s)'
    OBVIOUS
  <2>1. ASSUME NEW r \in Requests, Loads(r) \/ Drops(r) PROVE ~Open(s)'
    BY <2>1, LoadFacts DEF Drops, Read, Abandon, Open
  <2>2. ASSUME NEW r \in Requests, Commits(r) PROVE ~Open(s)'
    <3>1. ASSUME NEW z \in SessionIds, NEW o \in Organizations, Register(r, z, o)
          PROVE  ~Open(s)'
      BY <3>1 DEF Register, FreshSession, Open, Typed, TypeOK, MembershipRow
    <3>2. CASE CommitLogin(r)
      <4>1. FlushedLogin(r)
        BY <3>2 DEF CommitLogin, Flushed, InFlight, FlushedLogin
      <4>2. request[r].session # s
        BY <4>1 DEF Fresh
      <4> QED BY <3>2, <4>2 DEF CommitLogin, Open, Typed, TypeOK, MembershipRow
    <3>3. CASE CommitReset(r)
      BY <3>3, CommitResetRows DEF Open
    <3>4. CASE MemberCommit(r)
      BY <3>4, MemberCommitFacts DEF SessionsKept, Open
    <3> QED BY <2>2, <3>1, <3>2, <3>3, <3>4 DEF Commits
  <2> QED BY <2>1, <2>2, StepsSplit DEF NewLink, RequestLink, Tick, vars, Open
<1>4. Typed /\ Fresh /\ [Next]_vars => [Kept]_vars
  BY <1>3
<1> QED BY <1>1, <1>2, <1>4, PTL DEF Spec, SignedOutStaysOut

-----------------------------------------------------------------------------
(* A removal has found an owner who stays.                                 *)
Witnessed ==
    \A p \in Requests : request[p] # None /\ request[p].op = "remove" =>
        request[p].witness # request[p].target

LEMMA WitnessedStep ==
    ASSUME Typed, Witnessed, [Next]_vars PROVE Witnessed'
<1>1. ASSUME NEW r \in Requests, Loads(r) PROVE Witnessed'
  <2>1. PICK x : request' = [request EXCEPT ![r] = x] /\ Loaded(r, x)
    BY <1>1, LoadFacts
  <2>2. request'[r] = x /\ \A p \in Requests : p # r => request'[p] = request[p]
    BY <2>1, LoadedRequests
  <2> QED BY <2>1, <2>2 DEF Witnessed, Loaded
<1>2. ASSUME NEW r \in Requests, Drops(r) \/ Commits(r) PROVE Witnessed'
  <2>1. End(r)
    BY <1>2, MemberCommitFacts
       DEF Drops, Read, Abandon, Commits, Register, CommitLogin, CommitReset
  <2> QED BY <2>1, EndFacts DEF Witnessed
<1>3. CASE UNCHANGED request
  BY <1>3 DEF Witnessed
<1> QED BY <1>1, <1>2, <1>3, StepsSplit DEF NewLink, RequestLink, Tick, vars

(* Only removals take memberships away.                                    *)
LEMMA OthersKeepMemberships ==
    ASSUME Typed, [Next]_vars, \A r \in Requests : ~CommitRemoval(r)
    PROVE  \A u \in Users, o \in Organizations :
              /\ memberships[u][o] # None => memberships'[u][o] # None
              /\ memberships[u][o] = "owner" => memberships'[u][o] = "owner"
<1>1. memberships \in [Users -> [Organizations -> Roles \cup {None}]]
  BY DEF Typed, TypeOK, MembershipRow
<1>2. "owner" # None
  BY ConstantFacts DEF Roles
<1>3. ASSUME NEW r \in Requests, NEW s \in SessionIds, NEW o \in Organizations,
             Register(r, s, o)
      PROVE  \E v \in Users : memberships' = [memberships EXCEPT ![v][o] = "owner"]
  <2>1. request[r] # None /\ request[r].op = "register"
    BY <1>3 DEF Register, InFlight
  <2>2. request[r].user \in Users
    BY <2>1, RequestFields DEF RegisterRequest
  <2> QED BY <1>3, <2>2 DEF Register
<1>4. ASSUME NEW r \in Requests, NEW o \in Organizations, CommitOrganization(r, o)
      PROVE  \E v \in Users : memberships' = [memberships EXCEPT ![v][o] = "owner"]
  <2>1. request[r] # None /\ request[r].op \in MemberOps
    BY <1>4 DEF CommitOrganization, InFlight, MemberOps
  <2>2. request[r].user \in Users
    BY <2>1, RequestFields DEF MemberRequest
  <2> QED BY <1>4, <2>2 DEF CommitOrganization
<1> DEFINE Goal ==
      \/ memberships' = memberships
      \/ \E v \in Users, o \in Organizations :
            memberships' = [memberships EXCEPT ![v][o] = "owner"]
<1>5. Goal
  <2>1. ASSUME NEW r \in Requests, Loads(r) \/ Drops(r) PROVE Goal
    BY <2>1, LoadFacts DEF Drops, Read, Abandon, tenancy
  <2>2. ASSUME NEW r \in Requests, CommitLogin(r) \/ CommitReset(r) \/ CommitWork(r)
                  \/ CommitLogout(r) \/ CommitSwitch(r)
        PROVE  Goal
    BY <2>2 DEF CommitLogin, CommitReset, CommitWork, CommitLogout, CommitSwitch, tenancy
  <2>3. ASSUME NEW r \in Requests, MemberCommit(r) PROVE Goal
    BY <1>4, <2>2, <2>3 DEF MemberCommit
  <2>4. ASSUME NEW r \in Requests, Commits(r) PROVE Goal
    BY <1>3, <2>2, <2>3, <2>4 DEF Commits
  <2>5. ASSUME NEW u \in Users, NEW t \in TokenIds, RequestLink(u, t) PROVE Goal
    BY <2>5 DEF NewLink, RequestLink, tenancy
  <2>6. CASE Tick \/ UNCHANGED vars
    BY <2>6 DEF Tick, vars, tenancy
  <2> HIDE DEF Goal
  <2> QED BY <2>1, <2>4, <2>5, <2>6, StepsSplit
<1> QED BY <1>1, <1>2, <1>5

(* An organization loses its last owner only to a removal whose witness    *)
(* was removed after it looked (api/routes/organizations.py,               *)
(* remove_member).                                                         *)
THEOREM LastOwnersStay == Spec => LastOwnerStays
<1>1. Init => Typed /\ Witnessed
  BY TypedInit DEF Init, Witnessed
<1>2. Typed /\ Witnessed /\ [Next]_vars => (Typed /\ Witnessed)'
  BY TypedStep, WitnessedStep
<1>3. Typed /\ Witnessed /\ [Next]_vars => OwnerKept
  <2> SUFFICES ASSUME Typed, Witnessed, [Next]_vars,
                      NEW o \in Organizations, OwnersOf(o) # {}, OwnersOf(o)' = {}
               PROVE  \E r \in InFlight("remove") :
                        /\ request[r].org = o /\ request'[r] = None
                        /\ request[r].witness \notin OwnersOf(o)
    BY DEF OwnerKept
  <2>1. PICK w \in Users : memberships[w][o] = "owner"
    BY DEF OwnersOf
  <2>2. PICK r \in Requests : CommitRemoval(r)
    BY <2>1, OthersKeepMemberships DEF OwnersOf
  <2> DEFINE q == request[r]
  <2>3. /\ r \in InFlight("remove") /\ q # None /\ q.op = "remove" /\ End(r)
        /\ memberships' = [memberships EXCEPT ![q.target][q.org] = None]
    BY <2>2 DEF CommitRemoval, InFlight
  <2>4. q.target \in Users /\ q.org \in Organizations /\ q.witness # q.target
    BY <2>3, RequestFields DEF Anchored, Witnessed
  <2>5. memberships \in [Users -> [Organizations -> Roles \cup {None}]]
    BY DEF Typed, TypeOK, MembershipRow
  <2>6. \A u \in Users : u # q.target \/ q.org # o => memberships'[u][o] = memberships[u][o]
    BY <2>3, <2>4, <2>5
  <2>7. q.org = o
    BY <2>1, <2>6 DEF OwnersOf
  <2>8. q.witness \notin OwnersOf(o)
    BY <2>4, <2>6 DEF OwnersOf
  <2>9. request'[r] = None
    BY <2>3 DEF End, Typed, RequestsOK
  <2> QED BY <2>3, <2>7, <2>8, <2>9
<1>4. Typed /\ Witnessed /\ [Next]_vars => [OwnerKept]_vars
  BY <1>3
<1> QED BY <1>1, <1>2, <1>4, PTL DEF Spec, LastOwnerStays

-----------------------------------------------------------------------------
(* What is about to be written refers to a membership that is there, and   *)
(* a request of somebody signed in is of its session's user.               *)
Member(u, o) == o # None => memberships[u][o] # None
MemberNext(u, o) == o # None => memberships'[u][o] # None
FlushedSwitch(p) == request[p] # None /\ request[p].op = "switch" /\ request[p].step = "flushed"
Belonging ==
    /\ SessionsBelong
    /\ \A p \in Requests : FlushedLogin(p) => Member(request[p].user, request[p].org)
    /\ \A p \in Requests : FlushedSwitch(p) =>
          /\ request[p].org = request[p].target
          /\ memberships[request[p].user][request[p].target] # None
    /\ \A p \in Requests : request[p] # None /\ request[p].op \in {"auth"} \cup MemberOps =>
          sessions[request[p].session].user = request[p].user

LEMMA BelongingLoads ==
    ASSUME Typed, Belonging, NEW r \in Requests, Loads(r) PROVE Belonging'
<1>1. PICK x : request' = [request EXCEPT ![r] = x] /\ Loaded(r, x)
  BY LoadFacts
<1>2. sessions' = sessions /\ memberships' = memberships
  BY LoadFacts
<1>3. request'[r] = x /\ \A p \in Requests : p # r => request'[p] = request[p]
  BY <1>1, LoadedRequests
<1>4. SessionsBelong'
  BY <1>2 DEF Belonging, SessionsBelong
<1>5. FlushedLogin(r)' => Member(request[r].user, request[r].org)'
  BY <1>1, <1>2, <1>3 DEF FlushedLogin, Member, Loaded, RefersToMembership
<1>6. FlushedSwitch(r)' => /\ (request[r].org = request[r].target)'
                           /\ (memberships[request[r].user][request[r].target] # None)'
  BY <1>1, <1>2, <1>3 DEF FlushedSwitch, Loaded
<1>7. x.op \in {"auth"} \cup MemberOps => sessions[x.session].user = x.user
  BY <1>1 DEF Loaded, Belonging
<1> QED BY <1>2, <1>3, <1>4, <1>5, <1>6, <1>7
        DEF Belonging, FlushedLogin, FlushedSwitch, Member

(* The end of a request, if memberships that others are about to refer to  *)
(* are kept.                                                               *)
LEMMA BelongingEnds ==
    ASSUME Typed, Belonging, NEW r \in Requests, End(r), SessionsBelong',
           \A s \in SessionIds : sessions[s] # None => sessions'[s].user = sessions[s].user,
           \A p \in Requests : FlushedLogin(p) => MemberNext(request[p].user, request[p].org),
           \A p \in Requests : FlushedSwitch(p) =>
               memberships'[request[p].user][request[p].target] # None
    PROVE  Belonging'
<1>1. \A p \in Requests : request'[p] # None => request'[p] = request[p]
  BY EndFacts
<1>2. ASSUME NEW p \in Requests, FlushedLogin(p)'
      PROVE  Member(request[p].user, request[p].org)'
  <2>1. FlushedLogin(p) /\ request'[p] = request[p]
    BY <1>1, <1>2 DEF FlushedLogin
  <2> QED BY <2>1 DEF MemberNext, Member
<1>3. ASSUME NEW p \in Requests, request'[p] # None,
             request'[p].op \in {"auth"} \cup MemberOps
      PROVE  sessions'[request'[p].session].user = request'[p].user
  <2>1. request'[p] = request[p] /\ request[p] # None
    BY <1>1, <1>3
  <2>2. request[p].session \in SessionIds /\ sessions[request[p].session] # None
    BY <1>3, <2>1, RequestFields DEF AuthRequest, MemberRequest, Anchored
  <2> QED BY <1>3, <2>1, <2>2 DEF Belonging
<1>4. ASSUME NEW p \in Requests, FlushedSwitch(p)'
      PROVE  /\ request'[p].org = request'[p].target
             /\ memberships'[request'[p].user][request'[p].target] # None
  BY <1>1, <1>4 DEF Belonging, FlushedSwitch
<1> QED BY <1>2, <1>3, <1>4 DEF Belonging

LEMMA FlushedFields ==
    ASSUME Typed, NEW p \in Requests
    PROVE  /\ FlushedLogin(p) => request[p].user \in Users /\ request[p].org \in OrNone
           /\ FlushedSwitch(p) => request[p].user \in Users
                                  /\ request[p].target \in Organizations
BY RequestFields DEF FlushedLogin, FlushedSwitch, LoginRequest, MemberRequest, MemberOps, Anchored

(* Steps under which no membership goes.                                   *)
LEMMA BelongingGrows ==
    ASSUME Typed, Belonging, NEW r \in Requests, End(r),
           \A u \in Users, o \in Organizations :
               memberships[u][o] # None => memberships'[u][o] # None,
           \A s \in SessionIds : sessions[s] # None => sessions'[s].user = sessions[s].user,
           \A s \in SessionIds : sessions'[s] # None /\ sessions'[s].status # "deleted" =>
               \/ /\ sessions[s] # None /\ sessions[s].status # "deleted"
                  /\ sessions'[s].org = sessions[s].org
               \/ /\ sessions'[s].user \in Users /\ sessions'[s].org \in OrNone
                  /\ MemberNext(sessions'[s].user, sessions'[s].org)
    PROVE  Belonging'
<1>1. ASSUME NEW s \in SessionIds, sessions'[s] # None, sessions'[s].status # "deleted",
             sessions'[s].org # None
      PROVE  memberships'[sessions'[s].user][sessions'[s].org] # None
  <2>1. CASE /\ sessions[s] # None /\ sessions[s].status # "deleted"
             /\ sessions'[s].org = sessions[s].org
    <3>1. sessions[s] \in SessionRow
      BY <2>1, RowsOf
    <3>2. sessions[s].user \in Users /\ sessions[s].org \in Organizations
      BY <1>1, <2>1, <3>1 DEF SessionRow
    <3>3. memberships[sessions[s].user][sessions[s].org] # None
      BY <1>1, <2>1 DEF Belonging, SessionsBelong
    <3> QED BY <2>1, <3>2, <3>3
  <2>2. CASE MemberNext(sessions'[s].user, sessions'[s].org)
    BY <1>1, <2>2 DEF MemberNext
  <2> QED BY <1>1, <2>1, <2>2
<1>2. SessionsBelong'
  BY <1>1 DEF SessionsBelong
<1>3. ASSUME NEW p \in Requests, FlushedLogin(p)
      PROVE  MemberNext(request[p].user, request[p].org)
  BY <1>3, FlushedFields DEF Belonging, Member, MemberNext, OrNone
<1>4. ASSUME NEW p \in Requests, FlushedSwitch(p)
      PROVE  memberships'[request[p].user][request[p].target] # None
  BY <1>4, FlushedFields DEF Belonging
<1> QED BY <1>2, <1>3, <1>4, BelongingEnds

LEMMA OwnOrganization ==
    ASSUME Typed, NEW r \in Requests, MemberCommit(r)
    PROVE  LET s == request[r].session IN
           \/ sessions'[s].org \in {sessions[s].org, None}
           \/ CommitSwitch(r) /\ sessions'[s].org = request[r].target
<1> DEFINE q == request[r]
<1> DEFINE mine == Touched(q)[q.session]
<1>1. q \in MemberRequest /\ q.session \in SessionIds /\ sessions[q.session] # None
  BY MemberCommitFacts DEF Anchored, MemberRequest, MemberOps
<1>2. /\ Touched(q) \in [SessionIds -> SessionRow \cup {None}]
      /\ mine \in SessionRow /\ mine.org \in {sessions[q.session].org, None}
  BY <1>1, TouchedFacts DEF Typed
<1>3. CASE CommitWork(r) \/ \E o \in Organizations : CommitOrganization(r, o)
  BY <1>2, <1>3 DEF CommitWork, CommitOrganization
<1>4. CASE CommitLogout(r)
  <2>1. sessions'[q.session] = [mine EXCEPT !.status = "revoked"]
    BY <1>1, <1>2, <1>4 DEF CommitLogout
  <2> QED BY <1>2, <2>1 DEF SessionRow
<1>5. CASE CommitSwitch(r)
  <2>1. sessions'[q.session] = [mine EXCEPT !.org = q.target]
    BY <1>1, <1>2, <1>5 DEF CommitSwitch
  <2> QED BY <1>2, <1>5, <2>1 DEF SessionRow
<1>6. CASE CommitRemoval(r)
  <2>1. \/ sessions'[q.session] = mine
        \/ sessions'[q.session] = [sessions[q.session] EXCEPT !.status = "deleted"]
    BY <1>1, <1>6 DEF CommitRemoval
  <2>2. sessions[q.session] \in SessionRow
    BY <1>1, RowsOf
  <2> QED BY <1>2, <2>1, <2>2 DEF SessionRow
<1> QED BY <1>3, <1>4, <1>5, <1>6 DEF MemberCommit

(* A removal waits for those that are about to refer to the membership,    *)
(* and deletes the sessions that do.                                       *)
LEMMA RemovalBelongs ==
    ASSUME Typed, Belonging, NEW r \in Requests, CommitRemoval(r) PROVE Belonging'
<1> DEFINE q == request[r]
<1>1. q \in MemberRequest /\ Anchored(q) /\ q.op = "remove" /\ SessionsKept(q) /\ End(r)
  BY MemberCommitFacts DEF MemberCommit, CommitRemoval, InFlight
<1>2. q.target \in Users /\ q.org \in Organizations /\ q.session \in SessionIds
  BY <1>1 DEF Anchored, MemberRequest
<1>3. memberships \in [Users -> [Organizations -> Roles \cup {None}]]
      /\ memberships' = [memberships EXCEPT ![q.target][q.org] = None]
  BY DEF Typed, TypeOK, MembershipRow, CommitRemoval
<1>4. ASSUME NEW u \in Users, NEW o \in Organizations, u # q.target \/ o # q.org
      PROVE  memberships'[u][o] = memberships[u][o]
  BY <1>2, <1>3, <1>4
<1>5. ASSUME NEW s \in SessionIds, sessions'[s] # None, sessions'[s].status # "deleted",
             sessions'[s].org # None
      PROVE  memberships'[sessions'[s].user][sessions'[s].org] # None
  <2>1. sessions[s] # None /\ sessions'[s].user = sessions[s].user
        /\ sessions[s].status # "deleted"
    BY <1>1, <1>5 DEF SessionsKept
  <2>2. sessions'[s].org = sessions[s].org
    BY <1>1, <1>5, OwnOrganization DEF SessionsKept, MemberCommit, CommitRemoval,
       CommitSwitch, Flushed, InFlight
  <2>3. sessions[s] \in SessionRow
    BY <2>1, RowsOf
  <2>4. sessions[s].user \in Users /\ sessions[s].org \in Organizations
    BY <1>5, <2>2, <2>3 DEF SessionRow
  <2>5. s \notin SessionsIn(q.target, q.org)
    <3>1. SUFFICES ASSUME s \in SessionsIn(q.target, q.org) PROVE FALSE
      OBVIOUS
    <3>2. sessions'[s] = [sessions[s] EXCEPT !.status = "deleted"]
      BY <3>1 DEF CommitRemoval
    <3> QED BY <1>5, <2>3, <3>2 DEF SessionRow
  <2>6. sessions[s].user # q.target \/ sessions[s].org # q.org
    BY <2>1, <2>5 DEF SessionsIn
  <2>7. memberships[sessions[s].user][sessions[s].org] # None
    BY <1>5, <2>1, <2>2 DEF Belonging, SessionsBelong
  <2> QED BY <1>4, <2>1, <2>2, <2>4, <2>6, <2>7
<1>6. ASSUME NEW p \in Requests, FlushedLogin(p)
      PROVE  MemberNext(request[p].user, request[p].org)
  <2>1. request[p].user = q.target => request[p].org # q.org
    BY <1>6 DEF CommitRemoval, MembershipRowFree, Flushed, InFlight, FlushedLogin
  <2> QED BY <1>4, <1>6, <2>1, FlushedFields DEF Belonging, Member, MemberNext, OrNone
<1>7. ASSUME NEW p \in Requests, FlushedSwitch(p)
      PROVE  memberships'[request[p].user][request[p].target] # None
  <2>1. request[p].user = q.target => request[p].target # q.org
    BY <1>7 DEF CommitRemoval, MembershipRowFree, Flushed, InFlight, FlushedSwitch, Belonging
  <2> QED BY <1>4, <1>7, <2>1, FlushedFields DEF Belonging
<1>8. SessionsBelong'
  BY <1>5 DEF SessionsBelong
<1> QED BY <1>1, <1>6, <1>7, <1>8, BelongingEnds DEF SessionsKept

LEMMA BelongingStep ==
    ASSUME Typed, Fresh, Belonging, [Next]_vars PROVE Belonging'
<1>1. ASSUME NEW r \in Requests, Loads(r) PROVE Belonging'
  BY <1>1, BelongingLoads
<1>2. ASSUME NEW r \in Requests, Drops(r) PROVE Belonging'
  <2>1. End(r) /\ sessions' = sessions /\ memberships' = memberships
    BY <1>2 DEF Drops, Read, Abandon, tenancy
  <2> QED BY <2>1, BelongingGrows
<1>3. ASSUME NEW r \in Requests, Commits(r) PROVE Belonging'
  <2> DEFINE q == request[r]
  <2>1. ASSUME NEW s \in SessionIds, NEW o \in Organizations, Register(r, s, o)
        PROVE  Belonging'
    <3>1. q.user \in Users
      BY <2>1, RequestFields DEF Register, InFlight, RegisterRequest
    <3> DEFINE new == NewSession(q.user, o, resets[q.user])
    <3>2. sessions' = [sessions EXCEPT ![s] = new] /\ sessions[s] = None /\ End(r)
          /\ sessions \in [SessionIds -> SessionRow \cup {None}]
      BY <2>1 DEF Register, FreshSession, Typed, TypeOK, MembershipRow
    <3>3. new.user = q.user /\ new.org = o
      BY NewSessionFacts
    <3> HIDE DEF new
    <3>4. /\ \A u \in Users, p \in Organizations :
                memberships[u][p] # None => memberships'[u][p] # None
          /\ MemberNext(q.user, o)
      BY <2>1, <3>1, ConstantFacts DEF Register, MemberNext, Typed, TypeOK, MembershipRow, Roles
    <3> QED BY <3>1, <3>2, <3>3, <3>4, BelongingGrows DEF OrNone
  <2>2. CASE CommitLogin(r)
    <3>1. FlushedLogin(r) /\ q.user \in Users /\ q.org \in OrNone
          /\ sessions[q.session] = None
      BY <2>2, FlushedFields DEF CommitLogin, Flushed, InFlight, FlushedLogin, Fresh
    <3> DEFINE new == NewSession(q.user, q.org, q.since)
    <3>2. sessions' = [sessions EXCEPT ![q.session] = new] /\ End(r)
          /\ memberships' = memberships
          /\ sessions \in [SessionIds -> SessionRow \cup {None}]
      BY <2>2 DEF CommitLogin, tenancy, Typed, TypeOK, MembershipRow
    <3>3. new.user = q.user /\ new.org = q.org
      BY NewSessionFacts
    <3> HIDE DEF new
    <3>4. MemberNext(q.user, q.org)
      BY <3>1, <3>2 DEF Belonging, Member, MemberNext
    <3> QED BY <3>1, <3>2, <3>3, <3>4, BelongingGrows
  <2>3. CASE CommitReset(r)
    <3>1. End(r) /\ memberships' = memberships
      BY <2>3 DEF CommitReset, tenancy
    <3> QED BY <2>3, <3>1, CommitResetRows, BelongingGrows
  <2>4. CASE MemberCommit(r) /\ ~CommitRemoval(r)
    <3>1. /\ q # None /\ q \in MemberRequest /\ SessionsKept(q) /\ End(r)
          /\ sessions[q.session] # None
      BY <2>4, MemberCommitFacts DEF Anchored, MemberRequest, MemberOps
    <3>2. q.session \in SessionIds /\ sessions[q.session].user = q.user /\ q.user \in Users
      BY <3>1 DEF Belonging, MemberRequest
    <3>3. \A u \in Users, o \in Organizations :
             memberships[u][o] # None => memberships'[u][o] # None
      <4>1. CASE CommitWork(r) \/ CommitLogout(r) \/ CommitSwitch(r)
        BY <4>1 DEF CommitWork, CommitLogout, CommitSwitch, tenancy
      <4>2. CASE \E o \in Organizations : CommitOrganization(r, o)
        <5>1. PICK o \in Organizations :
                 memberships' = [memberships EXCEPT ![q.user][o] = "owner"]
          BY <4>2 DEF CommitOrganization
        <5>2. memberships \in [Users -> [Organizations -> Roles \cup {None}]]
              /\ "owner" # None
          BY ConstantFacts DEF Typed, TypeOK, MembershipRow, Roles
        <5> QED BY <3>2, <5>1, <5>2
      <4> QED BY <2>4, <4>1, <4>2 DEF MemberCommit
    <3>4. \/ sessions'[q.session].org = sessions[q.session].org
          \/ /\ sessions'[q.session].org \in OrNone
             /\ MemberNext(q.user, sessions'[q.session].org)
      <4>1. CASE sessions'[q.session].org = None
        BY <4>1 DEF MemberNext, OrNone
      <4>2. CASE CommitSwitch(r) /\ sessions'[q.session].org = q.target
        <5>1. FlushedSwitch(r) /\ memberships' = memberships
          BY <4>2 DEF CommitSwitch, Flushed, InFlight, FlushedSwitch, tenancy
        <5> QED BY <4>2, <5>1, FlushedFields DEF Belonging, MemberNext, OrNone
      <4> QED BY <2>4, <4>1, <4>2, OwnOrganization
    <3>5. \A s \in SessionIds : sessions'[s] # None /\ sessions'[s].status # "deleted" =>
             /\ sessions[s] # None /\ sessions[s].status # "deleted"
             /\ sessions'[s].user = sessions[s].user
             /\ s # q.session => sessions'[s].org = sessions[s].org
      BY <3>1 DEF SessionsKept
    <3>6. \A s \in SessionIds : sessions[s] # None => sessions'[s].user = sessions[s].user
      BY <3>1 DEF SessionsKept
    <3> QED BY <3>1, <3>2, <3>3, <3>4, <3>5, <3>6, BelongingGrows
  <2> QED BY <1>3, <2>1, <2>2, <2>3, <2>4, RemovalBelongs DEF Commits, MemberCommit
<1>4. CASE UNCHANGED <<sessions, memberships, request>>
  BY <1>4 DEF Belonging, SessionsBelong, FlushedLogin, FlushedSwitch, Member
<1> QED BY <1>1, <1>2, <1>3, <1>4, StepsSplit DEF NewLink, RequestLink, Tick, vars, tenancy

(* The organization a stored session acts in is one of its user's, whatever *)
(* sign-ins, switches and removals run at once (models/session.py,         *)
(* fk_sessions_active_membership).                                         *)
THEOREM SessionsAlwaysBelong == Spec => []SessionsBelong
<1>1. Init => Typed /\ Fresh /\ Belonging
  <2> SUFFICES ASSUME Init PROVE Fresh /\ Belonging
    BY TypedInit
  <2> QED BY DEF Init, Fresh, Belonging, SessionsBelong, FlushedLogin, FlushedSwitch
<1>2. Typed /\ Fresh /\ Belonging /\ [Next]_vars => (Typed /\ Fresh /\ Belonging)'
  BY TypedStep, FreshStep, BelongingStep
<1>3. Belonging => SessionsBelong
  BY DEF Belonging
<1> QED BY <1>1, <1>2, <1>3, PTL DEF Spec

-----------------------------------------------------------------------------
(* A reset in flight has loaded everything good of its user that was not   *)
(* obtained together with a reset.                                         *)
Covered ==
    /\ ResetEndsAccess
    /\ \A p \in Requests : request[p] # None /\ request[p].op = "reset" =>
          /\ \A s \in SessionIds : Open(s) /\ sessions[s].user = request[p].user =>
                s \in request[p].open \/ sessions[s].excused
          /\ \A t \in TokenIds :
                tokens[t] # None /\ ~tokens[t].used /\ tokens[t].user = request[p].user =>
                    t \in request[p].links \/ tokens[t].excused

LEMMA CoveredLoads ==
    ASSUME Typed, Covered, NEW r \in Requests, Loads(r) PROVE Covered'
<1>1. PICK x : request' = [request EXCEPT ![r] = x] /\ Loaded(r, x)
  BY LoadFacts
<1>2. sessions' = sessions /\ tokens' = tokens /\ resets' = resets
  BY LoadFacts
<1>3. request'[r] = x /\ \A p \in Requests : p # r => request'[p] = request[p]
  BY <1>1, LoadedRequests
<1>4. ResetEndsAccess'
  BY <1>2 DEF Covered, ResetEndsAccess, Open
<1>5. x.op = "reset" => x.links = LinksOf(x.user) /\ x.open = OpenSessionsOf(x.user)
  BY <1>1 DEF Loaded
<1> QED BY <1>2, <1>3, <1>4, <1>5 DEF Covered, LinksOf, OpenSessionsOf, Open

(* Sessions and links that are still good are old, or excused by every     *)
(* reset in flight.                                                        *)
OldSession(s) ==
    /\ Open(s) /\ sessions'[s].user = sessions[s].user
    /\ sessions'[s].since = sessions[s].since /\ sessions'[s].excused = sessions[s].excused
OldLink(t) == tokens[t] # None /\ tokens'[t] = tokens[t]

LEMMA CoveredKept ==
    ASSUME Typed, Covered, UNCHANGED resets,
           \A p \in Requests : request'[p] # None => request'[p] = request[p],
           \A s \in SessionIds : Open(s)' => OldSession(s)
              \/ sessions'[s].excused
                 \/ /\ sessions'[s].since = resets[sessions'[s].user]
                    /\ ~ResetInFlight(sessions'[s].user),
           \A t \in TokenIds : tokens'[t] # None => OldLink(t)
              \/ tokens'[t].excused
                 \/ /\ tokens'[t].since = resets[tokens'[t].user]
                    /\ ~ResetInFlight(tokens'[t].user)
    PROVE  Covered'
<1>1. ASSUME NEW s \in SessionIds, Open(s)'
      PROVE  sessions'[s].excused \/ sessions'[s].since = resets'[sessions'[s].user]
  BY <1>1 DEF Covered, ResetEndsAccess, OldSession
<1>2. ASSUME NEW t \in TokenIds, tokens'[t] # None, ~tokens'[t].used
      PROVE  tokens'[t].excused \/ tokens'[t].since = resets'[tokens'[t].user]
  BY <1>2 DEF Covered, ResetEndsAccess, OldLink
<1>3. ResetEndsAccess'
  BY <1>1, <1>2 DEF ResetEndsAccess
<1>4. ASSUME NEW p \in Requests, request'[p] # None, request'[p].op = "reset"
      PROVE  /\ request'[p] = request[p] /\ request[p] # None /\ request[p].op = "reset"
             /\ ResetInFlight(request[p].user)
  BY <1>4 DEF ResetInFlight, InFlight
<1>5. ASSUME NEW p \in Requests, request'[p] # None, request'[p].op = "reset",
             NEW s \in SessionIds, Open(s)', sessions'[s].user = request'[p].user
      PROVE  s \in request'[p].open \/ sessions'[s].excused
  BY <1>4, <1>5 DEF Covered, OldSession
<1>6. ASSUME NEW p \in Requests, request'[p] # None, request'[p].op = "reset",
             NEW t \in TokenIds, tokens'[t] # None, ~tokens'[t].used,
             tokens'[t].user = request'[p].user
      PROVE  t \in request'[p].links \/ tokens'[t].excused
  BY <1>4, <1>6 DEF Covered, OldLink
<1> QED BY <1>3, <1>5, <1>6 DEF Covered

LEMMA ResetCovers ==
    ASSUME Typed, Covered, NEW r \in Requests, CommitReset(r) PROVE Covered'
<1> DEFINE q == request[r]
<1>1. q # None /\ q.op = "reset" /\ q \in ResetRequest /\ End(r)
  BY RequestFields DEF CommitReset, InFlight
<1>2. q.user \in Users /\ \A v \in Users : v # q.user => resets'[v] = resets[v]
  BY <1>1 DEF ResetRequest, CommitReset, Typed, TypeOK, MembershipRow
<1>3. ASSUME NEW s \in SessionIds, Open(s)'
      PROVE  /\ Open(s) /\ s \notin q.open
             /\ sessions'[s] = sessions[s] /\ sessions[s].user \in Users
             /\ sessions[s].user = q.user => sessions[s].excused
  <2>1. sessions[s] # None /\ s \notin q.open
    BY <1>3, CommitResetRows DEF Open
  <2>2. sessions'[s] = sessions[s]
    BY <2>1, CommitResetRows
  <2> QED BY <1>1, <1>3, <2>1, <2>2, RowsOf DEF Open, Covered
<1>4. ASSUME NEW t \in TokenIds, tokens'[t] # None, ~tokens'[t].used
      PROVE  /\ tokens[t] # None /\ ~tokens[t].used /\ t \notin q.links
             /\ tokens'[t] = tokens[t] /\ tokens[t].user \in Users
             /\ tokens[t].user = q.user => tokens[t].excused
  <2>1. t \notin q.links
    <3>1. SUFFICES ASSUME t \in q.links PROVE FALSE
      OBVIOUS
    <3>2. tokens[t] # None
      BY <1>1, <3>1, RequestFields DEF Anchored
    <3>3. tokens'[t] = [tokens[t] EXCEPT !.used = TRUE] /\ tokens[t] \in TokenRow
      BY <3>1, <3>2 DEF CommitReset, Typed, TypeOK, MembershipRow
    <3> QED BY <1>4, <3>3 DEF TokenRow
  <2>2. tokens'[t] = tokens[t]
    BY <2>1 DEF CommitReset
  <2> QED BY <1>1, <1>4, <2>1, <2>2, RowsOf DEF Covered
<1>5. ResetEndsAccess'
  <2>1. ASSUME NEW s \in SessionIds, Open(s)'
        PROVE  sessions'[s].excused \/ sessions'[s].since = resets'[sessions'[s].user]
    BY <1>2, <1>3, <2>1 DEF Covered, ResetEndsAccess
  <2>2. ASSUME NEW t \in TokenIds, tokens'[t] # None, ~tokens'[t].used
        PROVE  tokens'[t].excused \/ tokens'[t].since = resets'[tokens'[t].user]
    BY <1>2, <1>4, <2>2 DEF Covered, ResetEndsAccess
  <2> QED BY <2>1, <2>2 DEF ResetEndsAccess
<1>6. \A p \in Requests : request'[p] # None => request'[p] = request[p]
  BY <1>1, EndFacts
<1> QED BY <1>3, <1>4, <1>5, <1>6 DEF Covered

LEMMA CoveredStep ==
    ASSUME Typed, Covered, [Next]_vars PROVE Covered'
<1>1. ASSUME NEW r \in Requests, Loads(r) PROVE Covered'
  BY <1>1, CoveredLoads
<1>2. ASSUME NEW r \in Requests, Drops(r) \/ MemberCommit(r) PROVE Covered'
  <2>1. End(r) /\ tokens' = tokens /\ resets' = resets
    BY <1>2, MemberCommitFacts DEF Drops, Read, Abandon
  <2>2. ASSUME NEW s \in SessionIds, Open(s)' PROVE OldSession(s)
    <3>1. CASE Drops(r)
      BY <2>2, <3>1 DEF Drops, Read, Abandon, Open, OldSession
    <3>2. CASE MemberCommit(r)
      BY <2>2, <3>2, MemberCommitFacts DEF SessionsKept, Open, OldSession
    <3> QED BY <1>2, <3>1, <3>2
  <2> QED BY <2>1, <2>2, EndFacts, CoveredKept DEF OldLink
<1>3. ASSUME NEW r \in Requests, NEW z \in SessionIds, NEW u \in Users, NEW o, NEW n,
             sessions' = [sessions EXCEPT ![z] = NewSession(u, o, n)],
             End(r), tokens' = tokens, resets' = resets
      PROVE  Covered'
  <2> DEFINE new == NewSession(u, o, n)
  <2>1. new.user = u /\ new.since = n /\ new.excused = (n # resets[u] \/ ResetInFlight(u))
    BY NewSessionFacts DEF Excused
  <2>2. \A s \in SessionIds : sessions'[s] = IF s = z THEN new ELSE sessions[s]
    BY <1>3 DEF Typed, TypeOK, MembershipRow
  <2> HIDE DEF new
  <2> QED BY <1>3, <2>1, <2>2, EndFacts, CoveredKept DEF OldLink, OldSession, Open
<1>4. ASSUME NEW r \in Requests, CommitLogin(r) PROVE Covered'
  <2>1. FlushedLogin(r)
    BY <1>4 DEF CommitLogin, Flushed, InFlight, FlushedLogin
  <2>2. request[r].session \in SessionIds /\ request[r].user \in Users
    BY <2>1, RequestFields DEF FlushedLogin, LoginRequest, Anchored
  <2> QED BY <1>3, <1>4, <2>2 DEF CommitLogin
<1>5. ASSUME NEW r \in Requests, NEW s \in SessionIds, NEW o \in Organizations,
             Register(r, s, o)
      PROVE  Covered'
  <2>1. request[r].user \in Users
    BY <1>5, RequestFields DEF Register, InFlight, RegisterRequest
  <2> QED BY <1>3, <1>5, <2>1 DEF Register
<1>6. ASSUME NEW u \in Users, NEW t \in TokenIds, RequestLink(u, t) PROVE Covered'
  <2> DEFINE new == [user |-> u, expires |-> now + TokenLifetime, used |-> FALSE,
                     since |-> resets[u], excused |-> ResetInFlight(u)]
  <2>1. \A z \in TokenIds : tokens'[z] = IF z = t THEN new ELSE tokens[z]
    BY <1>6 DEF NewLink, RequestLink, Typed, TypeOK, MembershipRow
  <2>2. new.user = u /\ new.since = resets[u] /\ new.excused = ResetInFlight(u)
    OBVIOUS
  <2>3. UNCHANGED <<sessions, resets, request>>
    BY <1>6 DEF NewLink, RequestLink
  <2> HIDE DEF new
  <2> QED BY <2>1, <2>2, <2>3, CoveredKept DEF OldLink, OldSession, Open
<1>7. CASE UNCHANGED <<sessions, tokens, resets, request>>
  BY <1>7 DEF Covered, ResetEndsAccess, Open
<1> QED BY <1>1, <1>2, <1>4, <1>5, <1>6, <1>7, ResetCovers, StepsSplit
        DEF Commits, Tick, vars

(* A reset ends the sessions and the links that were there before it; what *)
(* is still good was obtained after the last one, or while one was under   *)
(* way (services/password_reset.py, reset_password).                       *)
THEOREM ResetsEndAccess == Spec => []ResetEndsAccess
<1>1. Init => Typed /\ Covered
  <2> SUFFICES ASSUME Init PROVE Covered
    BY TypedInit
  <2> QED BY DEF Init, Covered, ResetEndsAccess, Open
<1>2. Typed /\ Covered /\ [Next]_vars => (Typed /\ Covered)'
  BY TypedStep, CoveredStep
<1>3. Covered => ResetEndsAccess
  BY DEF Covered
<1> QED BY <1>1, <1>2, <1>3, PTL DEF Spec
=============================================================================
