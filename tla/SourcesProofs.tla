---------------------------- MODULE SourcesProofs ----------------------------
(***************************************************************************)
(* Theorems of SourcesSafety, for any databases, passwords and requests.   *)
(* What a request carries is typed, and a request that has read, or that   *)
(* is about to say 'connected', was let in with the config and the         *)
(* password that it carries. A password that is about to be stored carries *)
(* the version of the key it is encrypted with.                            *)
(***************************************************************************)
EXTENDS SourcesSafety, TLAPS

CreateRequest == [op : {"create"}, row : SourceRow, secret : Secrets]
UpdateRequest ==
    [op : {"update"}, row : SourceRow, host : Hosts \cup {None},
     user : Logins \cup {None}, secret : Secrets \cup {None},
     sealed : CredentialRow \cup {None}, loaded : Nat]
UseRequest ==
    [op : Uses, step : {"loaded", "connecting", "reading"}, row : SourceRow,
     secret : Secrets \cup {None}, session : {"none", "open", "guarded"},
     left : Nat \ {0}, good : BOOLEAN, code : Codes \cup {None}]
VerdictRequest ==
    [op : {"verdict"}, row : SourceRow, secret : Secrets \cup {None},
     code : Codes \cup {None}]

RequestRow == CreateRequest \cup UpdateRequest \cup UseRequest \cup VerdictRequest

RequestsOK == request \in [Requests -> RequestRow \cup {None}]

(* The database let the request in.                                        *)
LetIn(q) == <<q.row.config, q.secret>> \in Accepted

(* An encrypted password carries the version of the key it is encrypted    *)
(* with.                                                                   *)
Sealed(value) ==
    value.key \in Deployments /\ value.version = versions[value.key]

(* A new source is not connected. Whoever has a session, has read or will  *)
(* say 'connected' was let in; a reading has succeeded only after that.    *)
VouchedFor(q) ==
    /\ q.op = "create" => q.row.status = "configured"
    /\ q.op = "update" /\ q.sealed # None => Sealed(q.sealed)
    /\ q.op \in Uses =>
          /\ q.session # "none" \/ q.step = "reading" => LetIn(q)
          /\ q.good => q.step = "reading"
          /\ q.step = "loaded" => q.session = "none"
    /\ q.op = "verdict" /\ q.code = None => LetIn(q)

Vouched == \A r \in Requests : request[r] # None => VouchedFor(request[r])

Typed == TypeOK /\ RequestsOK

(* A source that exists has a password.                                    *)
HasPassword == Exists => credential # None

SourcesInv == Typed /\ HasPassword /\ Vouched /\ ConnectedWasTried

LEMMA ConstantFacts ==
    /\ Streams \in Nat \ {0}
    /\ Versions \subseteq Nat \ {0} /\ 1 \in Versions
    /\ None # Deleted
    /\ None \notin Hosts /\ None \notin Logins /\ None \notin Secrets
    /\ None \notin Codes
    /\ \A x \in SourceRow : x # None /\ x # Deleted
    /\ \A x \in CredentialRow : x # None
BY SourcesAssumption, NoneIsNoRow

LEMMA SourceExists == ASSUME TypeOK PROVE Exists <=> source \in SourceRow
BY ConstantFacts DEF TypeOK, Exists

LEMMA RequestFields ==
    ASSUME RequestsOK, NEW r \in Requests, request[r] # None
    PROVE  /\ request[r].op = "create" => request[r] \in CreateRequest
           /\ request[r].op = "update" => request[r] \in UpdateRequest
           /\ request[r].op \in Uses => request[r] \in UseRequest
           /\ request[r].op = "verdict" => request[r] \in VerdictRequest
BY DEF RequestsOK, RequestRow, CreateRequest, UpdateRequest, UseRequest,
       VerdictRequest, Uses

LEMMA WrittenFields ==
    ASSUME NEW r \in Requests, source \in SourceRow, request[r].row \in SourceRow,
           NEW new \in SourceRow
    PROVE  /\ Written(r, new) \in SourceRow
           /\ Written(r, new).status = IF new.status # request[r].row.status
                                         THEN new.status ELSE source.status
           /\ Written(r, new).config = IF new.config # request[r].row.config
                                         THEN new.config ELSE source.config
           /\ Written(r, new).error = IF new.error # request[r].row.error
                                         THEN new.error ELSE source.error
BY DEF Written, SourceRow

-----------------------------------------------------------------------------
(* What a use of the source comes to, step by step.                        *)
GoodRequest(q) == q \in UseRequest \cup VerdictRequest /\ VouchedFor(q)

LEMMA OneLessIsGood ==
    ASSUME NEW q \in UseRequest, VouchedFor(q), q.code = None => LetIn(q)
    PROVE  GoodRequest(OneLess(q))
<1>1. CASE q.left > 1
  <2> DEFINE p == [q EXCEPT !.left = @ - 1]
  <2>1. p \in UseRequest
    BY <1>1 DEF UseRequest
  <2>2. VouchedFor(p)
    BY DEF UseRequest, VouchedFor, LetIn, Uses
  <2> QED BY <1>1, <2>1, <2>2 DEF OneLess, GoodRequest
<1>2. CASE ~(q.left > 1)
  <2> DEFINE p == [op |-> "verdict", row |-> q.row, secret |-> q.secret, code |-> q.code]
  <2>1. p \in VerdictRequest
    BY DEF UseRequest, VerdictRequest
  <2>2. VouchedFor(p)
    BY DEF VouchedFor, LetIn, Uses
  <2> QED BY <1>2, <2>1, <2>2 DEF OneLess, GoodRequest
<1> QED BY <1>1, <1>2

LEMMA FailedIsGood ==
    ASSUME NEW q \in UseRequest, VouchedFor(q), NEW code \in Codes
    PROVE  GoodRequest(Failed(q, code))
<1> DEFINE told == [q EXCEPT !.code = IF @ = None /\ ~q.good THEN code ELSE @]
<1>1. told \in UseRequest /\ VouchedFor(told)
  BY DEF UseRequest, VouchedFor, LetIn, Uses
<1>2. told.code = None => q.good /\ q.step = "reading" /\ LetIn(told)
  BY ConstantFacts DEF UseRequest, VouchedFor, LetIn, Uses
<1>3. CASE q.step = "reading"
  <2>1. GoodRequest(OneLess(told))
    BY <1>1, <1>2, OneLessIsGood
  <2> QED BY <1>3, <2>1 DEF Failed
<1>4. CASE q.step # "reading"
  <2> DEFINE last == [told EXCEPT !.left = 1]
  <2>0. told.step # "reading" /\ told.code # None
    BY <1>2, <1>4 DEF UseRequest
  <2> HIDE DEF told
  <2>1. last \in UseRequest /\ VouchedFor(last) /\ last.code # None
    BY <1>1, <2>0 DEF UseRequest, VouchedFor, LetIn, Uses
  <2>2. GoodRequest(OneLess(last))
    BY <2>1, OneLessIsGood
  <2> QED BY <1>4, <2>2 DEF Failed, told
<1> QED BY <1>3, <1>4

LEMMA ClosedIsGood ==
    ASSUME NEW q \in UseRequest, VouchedFor(q)
    PROVE  Closed(q) \in UseRequest /\ VouchedFor(Closed(q))
BY DEF Closed, UseRequest, VouchedFor, LetIn, Uses

(* The steps of a use between its beginning and its verdict.               *)
Underway(r) ==
    \/ LoadPassword(r) \/ ConnectPostgres(r) \/ ConnectMysql(r) \/ Guard(r)
    \/ TestPostgres(r) \/ DiscoverPostgres(r) \/ IteratePostgres(r)
    \/ TestMysql(r) \/ DiscoverMysql(r) \/ IterateMysql(r) \/ Dropped(r)
    \/ \E c \in Codes : Refused(r, c) \/ GuardFails(r, c) \/ ReadFails(r, c)

LEMMA ReadingIsGood ==
    ASSUME RequestsOK, Vouched, NEW r \in Requests, NEW op, NEW kind,
           Reading(r, op, kind), Succeeds(r)
    PROVE  \E p : Step(r, p) /\ GoodRequest(p)
<1> DEFINE q == request[r]
           p == [q EXCEPT !.good = TRUE, !.code = None]
<1>1. q # None /\ q.op \in Uses /\ q.step = "reading"
  BY DEF Reading, At, Active
<1>2. q \in UseRequest /\ VouchedFor(q)
  BY <1>1, RequestFields DEF Vouched
<1>3. p \in UseRequest /\ VouchedFor(p) /\ LetIn(p)
  BY <1>1, <1>2 DEF UseRequest, VouchedFor, LetIn, Uses
<1>4. GoodRequest(OneLess(p))
  BY <1>3, OneLessIsGood
<1> QED BY <1>4 DEF Succeeds

LEMMA UnderwayIsGood ==
    ASSUME TypeOK, RequestsOK, Vouched, NEW r \in Requests, Underway(r)
    PROVE  \E p : Step(r, p) /\ GoodRequest(p)
<1> DEFINE q == request[r]
<1>1. q # None /\ q.op \in Uses
  BY DEF Underway, LoadPassword, ConnectPostgres, ConnectMysql, Answered, Guard, Guarding,
         TestPostgres, DiscoverPostgres, IteratePostgres, TestMysql, DiscoverMysql,
         IterateMysql, Reading, Dropped, Refused, GuardFails, ReadFails, At, Active
<1>2. q \in UseRequest /\ VouchedFor(q)
  BY <1>1, RequestFields DEF Vouched
<1>3. CASE LoadPassword(r)
  <2> DEFINE p == [q EXCEPT !.step = "connecting", !.secret = credential.secret]
  <2>1. q.step = "loaded" /\ credential \in CredentialRow
    BY <1>3 DEF LoadPassword, At, TypeOK
  <2>2. p \in UseRequest /\ VouchedFor(p)
    BY <1>1, <1>2, <2>1 DEF UseRequest, VouchedFor, LetIn, CredentialRow, Uses
  <2> QED BY <1>3, <2>2 DEF LoadPassword, GoodRequest
<1>4. CASE ConnectPostgres(r)
  <2> DEFINE p == [q EXCEPT !.session = "guarded", !.step = "reading"]
  <2>1. p \in UseRequest /\ VouchedFor(p)
    BY <1>1, <1>2, <1>4 DEF UseRequest, VouchedFor, LetIn, ConnectPostgres, Answered, Uses
  <2> QED BY <1>4, <2>1 DEF ConnectPostgres, GoodRequest
<1>5. CASE ConnectMysql(r)
  <2> DEFINE p == [q EXCEPT !.session = "open"]
  <2>1. p \in UseRequest /\ VouchedFor(p)
    BY <1>1, <1>2, <1>5 DEF UseRequest, VouchedFor, LetIn, ConnectMysql, Answered, Dials, Uses
  <2> QED BY <1>5, <2>1 DEF ConnectMysql, GoodRequest
<1>6. CASE Guard(r)
  <2> DEFINE p == [q EXCEPT !.session = "guarded", !.step = "reading"]
  <2>1. p \in UseRequest /\ VouchedFor(p)
    BY <1>1, <1>2, <1>6 DEF UseRequest, VouchedFor, LetIn, Guard, Guarding, Uses
  <2> QED BY <1>6, <2>1 DEF Guard, GoodRequest
<1>7. CASE Dropped(r)
  BY <1>2, <1>7, ClosedIsGood DEF Dropped, GoodRequest
<1>8. ASSUME NEW c \in Codes, Refused(r, c) PROVE \E p : Step(r, p) /\ GoodRequest(p)
  BY <1>2, <1>8, FailedIsGood DEF Refused
<1>9. ASSUME NEW c \in Codes, GuardFails(r, c) PROVE \E p : Step(r, p) /\ GoodRequest(p)
  BY <1>2, <1>9, ClosedIsGood, FailedIsGood DEF GuardFails, Unguarded, Closed
<1>10. ASSUME NEW c \in Codes, ReadFails(r, c) PROVE \E p : Step(r, p) /\ GoodRequest(p)
  BY <1>2, <1>10, FailedIsGood DEF ReadFails
<1>11. CASE \/ TestPostgres(r) \/ DiscoverPostgres(r) \/ IteratePostgres(r)
            \/ TestMysql(r) \/ DiscoverMysql(r) \/ IterateMysql(r)
  BY <1>11, ReadingIsGood DEF TestPostgres, DiscoverPostgres, IteratePostgres, TestMysql,
                              DiscoverMysql, IterateMysql
<1> QED BY <1>3, <1>4, <1>5, <1>6, <1>7, <1>8, <1>9, <1>10, <1>11 DEF Underway

-----------------------------------------------------------------------------
(* Requests are kept by a step of one of them to what is good.             *)
LEMMA RequestsKept ==
    ASSUME RequestsOK, Vouched, NEW r \in Requests, NEW p,
           request' = [request EXCEPT ![r] = p], UNCHANGED versions,
           p = None \/ (p \in RequestRow /\ VouchedFor(p))
    PROVE  RequestsOK' /\ Vouched'
<1>1. RequestsOK'
  BY DEF RequestsOK
<1>2. ASSUME NEW x \in Requests, request'[x] # None PROVE VouchedFor(request[x])'
  <2>1. CASE x = r
    <3>1. request'[x] = p /\ p # None
      BY <1>2, <2>1 DEF RequestsOK
    <3>2. VouchedFor(p)
      BY <3>1
    <3> QED BY <3>1, <3>2 DEF VouchedFor, Sealed, LetIn, Deployments
  <2>2. CASE x # r
    <3>1. request'[x] = request[x]
      BY <2>2 DEF RequestsOK
    <3>2. VouchedFor(request[x])
      BY <1>2, <3>1 DEF Vouched
    <3> QED BY <3>1, <3>2 DEF VouchedFor, Sealed, LetIn, Deployments
  <2> QED BY <2>1, <2>2
<1> QED BY <1>1, <1>2 DEF Vouched

LEMMA EndKeeps ==
    ASSUME RequestsOK, Vouched, NEW r \in Requests, End(r), UNCHANGED versions
    PROVE  RequestsOK' /\ Vouched'
BY RequestsKept DEF End

LEMMA GoodIsRow ==
    ASSUME NEW p, GoodRequest(p) PROVE p \in RequestRow /\ VouchedFor(p)
BY DEF GoodRequest, RequestRow

(* What concerns the rows alone.                                           *)
RowsInv == TypeOK /\ HasPassword /\ ConnectedWasTried

LEMMA RowsUnchanged ==
    ASSUME RowsInv, UNCHANGED <<stored, untried>> PROVE RowsInv'
BY DEF RowsInv, TypeOK, HasPassword, ConnectedWasTried, Exists, stored, Newest

LEMMA BeginsAreGood ==
    ASSUME SourcesInv, NEW r \in Requests,
           \/ \E k \in Kinds, c \in Hosts \X Logins, s \in Secrets : BeginCreate(r, k, c, s)
           \/ \E h \in Hosts \cup {None}, u \in Logins \cup {None}, s \in Secrets \cup {None} :
                  BeginUpdate(r, h, u, s)
           \/ \E op \in Uses : BeginUse(r, op)
    PROVE  SourcesInv'
<1>1. ASSUME NEW k \in Kinds, NEW c \in Hosts \X Logins, NEW s \in Secrets,
             BeginCreate(r, k, c, s)
      PROVE  RequestsOK' /\ Vouched'
  <2> DEFINE p == [op |-> "create", row |-> Row(k, c), secret |-> s]
  <2>1. p \in CreateRequest /\ VouchedFor(p)
    BY DEF CreateRequest, Row, SourceRow, Statuses, VouchedFor, Uses
  <2> QED BY <1>1, <2>1, RequestsKept DEF BeginCreate, Begin, RequestRow, stored, SourcesInv, Typed
<1>2. ASSUME NEW h \in Hosts \cup {None}, NEW u \in Logins \cup {None},
             NEW s \in Secrets \cup {None}, BeginUpdate(r, h, u, s)
      PROVE  RequestsOK' /\ Vouched'
  <2> DEFINE p == [op |-> "update", row |-> source, host |-> h, user |-> u, secret |-> s,
                   sealed |-> None, loaded |-> 0]
  <2>1. p \in UpdateRequest /\ VouchedFor(p)
    BY <1>2, SourceExists DEF UpdateRequest, VouchedFor, Uses, BeginUpdate, SourcesInv, Typed
  <2> QED BY <1>2, <2>1, RequestsKept DEF BeginUpdate, Begin, RequestRow, stored, SourcesInv, Typed
<1>3. ASSUME NEW op \in Uses, BeginUse(r, op) PROVE RequestsOK' /\ Vouched'
  <2> DEFINE p == [op |-> op, step |-> "loaded", row |-> source, secret |-> None,
                   session |-> "none", left |-> IF op = "sync" THEN Streams ELSE 1,
                   good |-> FALSE, code |-> None]
  <2>1. source \in SourceRow /\ Streams \in Nat \ {0}
    BY <1>3, SourceExists, ConstantFacts DEF BeginUse, SourcesInv, Typed
  <2>2. p \in UseRequest /\ VouchedFor(p)
    BY <1>3, <2>1 DEF UseRequest, VouchedFor, Uses
  <2> QED BY <1>3, <2>2, RequestsKept DEF BeginUse, Begin, RequestRow, stored, SourcesInv, Typed
<1>4. UNCHANGED <<stored, untried>>
  BY DEF BeginCreate, BeginUpdate, BeginUse
<1>5. RequestsOK' /\ Vouched'
  BY <1>1, <1>2, <1>3
<1>6. RowsInv'
  BY <1>4, RowsUnchanged DEF SourcesInv, Typed, RowsInv
<1> QED BY <1>5, <1>6 DEF SourcesInv, Typed, RowsInv

LEMMA UnderwayKeeps ==
    ASSUME SourcesInv, NEW r \in Requests, Underway(r) PROVE SourcesInv'
<1>1. PICK p : Step(r, p) /\ GoodRequest(p)
  BY UnderwayIsGood DEF SourcesInv, Typed
<1>2. RequestsOK' /\ Vouched'
  BY <1>1, GoodIsRow, RequestsKept DEF Step, stored, SourcesInv, Typed
<1>3. RowsInv'
  BY <1>1, RowsUnchanged DEF Step, SourcesInv, Typed, RowsInv
<1> QED BY <1>2, <1>3 DEF SourcesInv, Typed, RowsInv

LEMMA EncryptedRow ==
    ASSUME TypeOK, NEW g \in Deployments, NEW s \in Secrets
    PROVE  Encrypt(g, s) \in CredentialRow /\ Sealed(Encrypt(g, s))
BY DEF TypeOK, Deployments, Encrypt, CredentialRow, Sealed

LEMMA ReplacedRow ==
    ASSUME TypeOK, credential # None, NEW q \in UpdateRequest, q.sealed # None
    PROVE  /\ Replaced(q) \in CredentialRow
           /\ Replaced(q).key = q.sealed.key
           /\ q.loaded = credential.version => Replaced(q).version = q.sealed.version
BY DEF TypeOK, UpdateRequest, Replaced, CredentialRow

LEMMA StorePasswordKeeps ==
    ASSUME SourcesInv, NEW r \in Requests, StorePassword(r) PROVE SourcesInv'
<1> DEFINE q == request[r]
<1>1. q # None /\ q.op = "update" /\ q \in UpdateRequest /\ q.secret \in Secrets
  BY RequestFields DEF StorePassword, Active, SourcesInv, Typed, UpdateRequest
<1>2. PICK g \in Deployments :
        Step(r, [q EXCEPT !.sealed = Encrypt(g, q.secret), !.loaded = credential.version])
  BY DEF StorePassword
<1> DEFINE p == [q EXCEPT !.sealed = Encrypt(g, q.secret), !.loaded = credential.version]
<1>3. Encrypt(g, q.secret) \in CredentialRow /\ Sealed(Encrypt(g, q.secret))
  BY <1>1, EncryptedRow DEF SourcesInv, Typed
<1>4. credential.version \in Nat
  BY ConstantFacts DEF StorePassword, SourcesInv, Typed, TypeOK, CredentialRow
<1>5. p \in UpdateRequest /\ p.op = "update" /\ p.sealed = Encrypt(g, q.secret)
  BY <1>1, <1>3, <1>4 DEF UpdateRequest
<1>6. p \in RequestRow /\ VouchedFor(p)
  BY <1>3, <1>5 DEF RequestRow, VouchedFor, Uses
<1>7. RequestsOK' /\ Vouched'
  BY <1>2, <1>6, RequestsKept DEF Step, stored, SourcesInv, Typed
<1>8. RowsInv'
  BY <1>2, RowsUnchanged DEF Step, SourcesInv, Typed, RowsInv
<1> QED BY <1>7, <1>8 DEF SourcesInv, Typed, RowsInv

LEMMA CreateKeeps ==
    ASSUME SourcesInv, NEW r \in Requests, Create(r) PROVE RowsInv'
<1>1. request[r] \in CreateRequest
  BY RequestFields DEF Create, Active, SourcesInv, Typed
<1>2. PICK g \in Deployments : credential' = Encrypt(g, request[r].secret)
  BY DEF Create
<1>3. /\ source' \in SourceRow /\ source'.status = "configured"
      /\ credential' \in CredentialRow
  BY <1>1, <1>2, EncryptedRow
  DEF Create, CreateRequest, Active, SourcesInv, Typed, Vouched, VouchedFor
<1>4. untried' \in BOOLEAN /\ versions' = versions
  BY DEF Create, SourcesInv, Typed, TypeOK
<1> QED
  BY <1>3, <1>4, ConstantFacts
  DEF RowsInv, SourcesInv, Typed, TypeOK, HasPassword, ConnectedWasTried, Exists, Newest

LEMMA UpdatedRow ==
    ASSUME NEW q \in UpdateRequest
    PROVE  /\ Updated(q) \in SourceRow
           /\ NewConfig(q) \in Hosts \X Logins
           /\ ~Changed(q) => Updated(q) = q.row /\ q.secret = None
           /\ Changed(q) => Updated(q).status = "configured"
<1>1. q.row \in SourceRow /\ q.row.config \in Hosts \X Logins
  BY DEF UpdateRequest, SourceRow
<1>2. NewConfig(q) \in Hosts \X Logins
  BY <1>1 DEF NewConfig, Supplied, UpdateRequest
<1> QED
  BY <1>1, <1>2 DEF Updated, Changed, SourceRow, Statuses

(* An update that overlapped a verdict says so, any other one takes        *)
(* 'connected' back.                                                       *)
LEMMA UpdateKeeps ==
    ASSUME SourcesInv, NEW r \in Requests, Update(r) PROVE RowsInv'
<1> DEFINE q == request[r]
<1>1. q \in UpdateRequest /\ source \in SourceRow
  BY RequestFields, SourceExists DEF Update, Active, SourcesInv, Typed
<1>2. q.row \in SourceRow /\ Updated(q) \in SourceRow
  BY <1>1, UpdatedRow DEF UpdateRequest
<1>3. /\ source' \in SourceRow
      /\ source'.status = IF Updated(q).status # q.row.status
                             THEN Updated(q).status ELSE source.status
      /\ source'.config = IF Updated(q).config # q.row.config
                             THEN Updated(q).config ELSE source.config
  BY <1>1, <1>2, WrittenFields DEF Update
<1>4. credential' \in CredentialRow
  <2>1. credential \in CredentialRow /\ credential # None
    BY <1>1, ConstantFacts DEF Update, SourcesInv, Typed, TypeOK, HasPassword
  <2> QED
    BY <1>1, <2>1, ReplacedRow DEF Update, SourcesInv, Typed
<1>5. untried' \in BOOLEAN /\ versions' = versions
  BY DEF Update, SourcesInv, Typed, TypeOK
<1>6. ConnectedWasTried'
  <2>1. CASE Changed(q)
    BY <1>1, <1>3, <2>1, UpdatedRow DEF Update, ConnectedWasTried
  <2>2. CASE ~Changed(q)
    <3>1. source'.status = source.status /\ source'.config = source.config
      BY <1>1, <1>3, <2>2, UpdatedRow
    <3>2. credential' = credential /\ untried' = untried
      BY <1>1, <2>2, UpdatedRow DEF Update
    <3> QED
      BY <1>1, <3>1, <3>2, SourceExists DEF ConnectedWasTried, SourcesInv, Typed
  <2> QED BY <2>1, <2>2
<1> QED
  BY <1>3, <1>4, <1>5, <1>6, ConstantFacts
  DEF RowsInv, SourcesInv, Typed, TypeOK, HasPassword, Exists, Newest

(* A verdict that is overtaken says so; any other 'connected' is of what   *)
(* is stored, and that was let in.                                         *)
LEMMA ConcludeKeeps ==
    ASSUME SourcesInv, NEW r \in Requests, Conclude(r) PROVE RowsInv'
<1> DEFINE q == request[r]
<1>1. q # None /\ q.op = "verdict" /\ q \in VerdictRequest /\ source \in SourceRow
  BY RequestFields, SourceExists DEF Conclude, Active, SourcesInv, Typed
<1>2. q.row \in SourceRow /\ Verdict(q) \in SourceRow
  BY <1>1 DEF VerdictRequest, Verdict, SourceRow, Statuses
<1>3. /\ source' \in SourceRow
      /\ source'.status = IF Verdict(q).status # q.row.status
                             THEN Verdict(q).status ELSE source.status
      /\ source'.config = source.config
  <2>1. Verdict(q).config = q.row.config
    BY <1>2 DEF Verdict, SourceRow
  <2> QED BY <1>1, <1>2, <2>1, WrittenFields DEF Conclude
<1>4. credential' = credential /\ versions' = versions
  BY DEF Conclude
<1>5. CASE q.code = None
  <2>1. LetIn(q)
    BY <1>1, <1>5 DEF SourcesInv, Vouched, VouchedFor
  <2>2. untried' = (q.row.config # source.config \/ q.secret # credential.secret)
    BY <1>5 DEF Conclude, Overtaken
  <2>3. ConnectedWasTried' /\ untried' \in BOOLEAN
    BY <1>3, <1>4, <2>1, <2>2 DEF ConnectedWasTried, LetIn
  <2> QED
    BY <1>1, <1>3, <1>4, <2>3, ConstantFacts
    DEF RowsInv, TypeOK, HasPassword, Exists, SourcesInv, Typed, Newest
<1>6. CASE q.code # None
  <2>1. Verdict(q).status = "error" /\ untried' = untried
    BY <1>2, <1>6 DEF Verdict, SourceRow, Conclude
  <2>2. ConnectedWasTried'
    BY <1>1, <1>3, <1>4, <2>1, SourceExists DEF ConnectedWasTried, SourcesInv, Typed
  <2> QED
    BY <1>1, <1>3, <1>4, <2>1, <2>2, ConstantFacts
    DEF RowsInv, TypeOK, HasPassword, Exists, SourcesInv, Typed, Newest
<1> QED BY <1>5, <1>6

LEMMA DeleteKeeps ==
    ASSUME SourcesInv, NEW r \in Requests, Delete(r) PROVE SourcesInv'
<1>1. UNCHANGED <<request, versions>>
  BY DEF Delete
<1>2. RequestsOK'
  BY <1>1 DEF SourcesInv, Typed, RequestsOK
<1>3. Vouched'
  <2> SUFFICES ASSUME NEW x \in Requests, request[x] # None PROVE VouchedFor(request[x])'
    BY <1>1 DEF Vouched
  <2>1. VouchedFor(request[x])
    BY DEF SourcesInv, Vouched
  <2> QED BY <1>1, <2>1 DEF VouchedFor, Sealed, LetIn, Deployments
<1> QED
  BY <1>2, <1>3, ConstantFacts
  DEF Delete, SourcesInv, Typed, TypeOK, HasPassword, ConnectedWasTried, Exists, Newest

(* A rotation leaves the deployments before it as they are.                *)
LEMMA RotatedVersions ==
    ASSUME TypeOK, NEW version \in Versions, RotateKey(version)
    PROVE  /\ versions' \in Seq(Versions) /\ Newest' = Newest + 1 /\ Newest \in Nat \ {0}
           /\ \A k \in 1 .. Newest : k \in DOMAIN versions' /\ versions'[k] = versions[k]
BY DEF TypeOK, RotateKey, Newest

LEMMA RotateKeeps ==
    ASSUME SourcesInv, NEW version \in Versions, RotateKey(version) PROVE SourcesInv'
<1>1. UNCHANGED <<source, credential, request, untried>>
  BY DEF RotateKey
<1>2. /\ versions' \in Seq(Versions) /\ Newest' > 0
      /\ \A k \in DOMAIN versions : k \in DOMAIN versions' /\ versions'[k] = versions[k]
  <2>1. DOMAIN versions = 1 .. Newest
    BY DEF SourcesInv, Typed, TypeOK, Newest
  <2> QED BY <2>1, RotatedVersions DEF SourcesInv, Typed
<1>3. RequestsOK'
  BY <1>1 DEF SourcesInv, Typed, RequestsOK
<1>4. Vouched'
  <2> SUFFICES ASSUME NEW r \in Requests, request[r] # None PROVE VouchedFor(request[r])'
    BY <1>1 DEF Vouched
  <2>1. VouchedFor(request[r])
    BY DEF SourcesInv, Vouched
  <2> QED BY <1>1, <1>2, <2>1 DEF VouchedFor, Sealed, LetIn, Deployments
<1>5. TypeOK' /\ HasPassword' /\ ConnectedWasTried'
  BY <1>1, <1>2 DEF SourcesInv, Typed, TypeOK, HasPassword, ConnectedWasTried, Exists
<1> QED BY <1>3, <1>4, <1>5 DEF SourcesInv, Typed

-----------------------------------------------------------------------------
LEMMA SourcesInit == Init => SourcesInv
<1> SUFFICES ASSUME Init PROVE SourcesInv
  OBVIOUS
<1>1. versions \in Seq(Versions) /\ Newest > 0
  BY ConstantFacts DEF Init, Newest
<1> QED
  BY <1>1, ConstantFacts
  DEF Init, SourcesInv, Typed, TypeOK, RequestsOK, HasPassword, Vouched, ConnectedWasTried,
      Exists

LEMMA SourcesStep == SourcesInv /\ [Next]_vars => SourcesInv'
<1> SUFFICES ASSUME SourcesInv, [Next]_vars PROVE SourcesInv'
  OBVIOUS
<1>1. ASSUME NEW version \in Versions, RotateKey(version) PROVE SourcesInv'
  BY <1>1, RotateKeeps
<1>2. ASSUME NEW r \in Requests, EditStep(r) PROVE SourcesInv'
  <2>1. CASE Create(r) \/ Update(r)
    <3>1. RowsInv'
      BY <2>1, CreateKeeps, UpdateKeeps
    <3>2. End(r) /\ UNCHANGED versions
      BY <2>1 DEF Create, Update
    <3> QED BY <3>1, <3>2, EndKeeps DEF SourcesInv, Typed, RowsInv
  <2> QED BY <1>2, <2>1, BeginsAreGood, StorePasswordKeeps, DeleteKeeps DEF EditStep
<1>3. ASSUME NEW r \in Requests, UseStep(r) PROVE SourcesInv'
  <2>1. CASE Conclude(r)
    <3>1. End(r) /\ UNCHANGED versions
      BY <2>1 DEF Conclude
    <3> QED BY <2>1, <3>1, ConcludeKeeps, EndKeeps DEF SourcesInv, Typed, RowsInv
  <2>2. CASE Abandon(r)
    <3>1. End(r) /\ UNCHANGED <<stored, untried>>
      BY <2>2 DEF Abandon
    <3> QED BY <3>1, RowsUnchanged, EndKeeps DEF SourcesInv, Typed, RowsInv, stored
  <2> QED BY <1>3, <2>1, <2>2, BeginsAreGood, UnderwayKeeps DEF UseStep, Underway
<1>4. CASE UNCHANGED vars
  BY <1>4 DEF vars, SourcesInv, Typed, TypeOK, RequestsOK, HasPassword, Vouched, VouchedFor,
              Sealed, LetIn, ConnectedWasTried, Exists, Deployments, Newest
<1> QED BY <1>1, <1>2, <1>3, <1>4 DEF Next

LEMMA SourcesInvariant == Spec => []SourcesInv
BY SourcesInit, SourcesStep, PTL DEF Spec

(* A verdict leaves the config as it is.                                   *)
LEMMA ConcludeKeepsConfig ==
    ASSUME SourcesInv, NEW r \in Requests, Conclude(r)
    PROVE  Exists' => source'.config = source.config
<1> DEFINE q == request[r]
<1>1. q \in VerdictRequest /\ source \in SourceRow
  BY RequestFields, SourceExists DEF Conclude, Active, SourcesInv, Typed
<1>2. q.row \in SourceRow /\ Verdict(q) \in SourceRow /\ Verdict(q).config = q.row.config
  BY <1>1 DEF VerdictRequest, Verdict, SourceRow, Statuses
<1> QED BY <1>1, <1>2, WrittenFields DEF Conclude

(* What an update changes it supplies, or it loaded another config.        *)
LEMMA UpdateChangesSupplied ==
    ASSUME SourcesInv, NEW r \in Requests, Update(r), request[r].row.config = source.config,
           NEW i \in 1 .. 2, source'.config[i] # source.config[i]
    PROVE  source'.config[i] = IF i = 1 THEN request[r].host ELSE request[r].user
<1> DEFINE q == request[r]
<1>1. q \in UpdateRequest /\ source \in SourceRow
  BY RequestFields, SourceExists DEF Update, Active, SourcesInv, Typed
<1>2. /\ q.row \in SourceRow /\ Updated(q) \in SourceRow
      /\ q.host \in Hosts \cup {None} /\ q.user \in Logins \cup {None}
      /\ q.row.config \in Hosts \X Logins
  BY <1>1, UpdatedRow DEF UpdateRequest, SourceRow
<1>3. source'.config = Updated(q).config
  BY <1>1, <1>2, WrittenFields DEF Update
<1>4. Updated(q).config = NewConfig(q)
  BY <1>2, <1>3 DEF Updated, SourceRow
<1>5. NewConfig(q)[i] = Supplied(IF i = 1 THEN q.host ELSE q.user, q.row.config[i])
  BY DEF NewConfig
<1> QED BY <1>3, <1>4, <1>5 DEF Supplied

LEMMA ConfigStep == SourcesInv /\ [Next]_vars =>
    (Exists /\ Exists' /\ source'.config # source.config =>
        \E r \in Active({"update"}) :
            LET q == request[r] IN
            /\ request'[r] = None
            /\ \/ q.row.config # source.config
               \/ \A i \in 1 .. 2 : source'.config[i] # source.config[i] =>
                      source'.config[i] = IF i = 1 THEN q.host ELSE q.user)
<1> SUFFICES ASSUME SourcesInv, [Next]_vars, Exists, Exists', source'.config # source.config
             PROVE  \E r \in Active({"update"}) :
                       LET q == request[r] IN
                       /\ request'[r] = None
                       /\ \/ q.row.config # source.config
                          \/ \A i \in 1 .. 2 : source'.config[i] # source.config[i] =>
                                 source'.config[i] = IF i = 1 THEN q.host ELSE q.user
  OBVIOUS
<1>1. ASSUME NEW r \in Requests, EditStep(r) PROVE Update(r)
  BY <1>1 DEF EditStep, BeginCreate, BeginUpdate, StorePassword, Step, stored,
              Create, Delete, Exists
<1>2. ASSUME NEW r \in Requests, UseStep(r) PROVE FALSE
  <2>1. CASE Underway(r)
    <3>1. source' = source
      BY <2>1, UnderwayIsGood DEF SourcesInv, Typed, Step, stored
    <3> QED BY <3>1
  <2>2. CASE Conclude(r)
    BY <2>2, ConcludeKeepsConfig
  <2>3. CASE Abandon(r) \/ \E op \in Uses : BeginUse(r, op)
    BY <2>3 DEF Abandon, BeginUse, stored
  <2> QED BY <1>2, <2>1, <2>2, <2>3 DEF UseStep, Underway
<1>3. PICK r \in Requests : Update(r)
  BY <1>1, <1>2 DEF Next, RotateKey, vars
<1>4. r \in Active({"update"}) /\ request'[r] = None
  BY <1>3 DEF Update, End, SourcesInv, Typed, RequestsOK
<1>5. \/ request[r].row.config # source.config
      \/ \A i \in 1 .. 2 : source'.config[i] # source.config[i] =>
             source'.config[i] = IF i = 1 THEN request[r].host ELSE request[r].user
  BY <1>3, UpdateChangesSupplied
<1> QED BY <1>4, <1>5

-----------------------------------------------------------------------------
(* A password that carries the version of its key is missed by the newest  *)
(* keyring only if a later key took the version.                           *)
LEMMA SealedIsReadable ==
    ASSUME TypeOK, credential # None, Sealed(credential), ~VersionTaken
    PROVE  Decrypts(Newest, credential)
<1>1. credential.key \in 1 .. Newest
  BY DEF Sealed, Deployments, TypeOK, Newest
<1>2. \A l \in credential.key + 1 .. Newest : versions[l] # versions[credential.key]
  BY DEF VersionTaken
<1> QED BY <1>1, <1>2 DEF Decrypts, Keyring, Sealed

LEMMA ReadableIsSealed ==
    ASSUME TypeOK, credential # None, Decrypts(Newest, credential)
    PROVE  Sealed(credential)
BY DEF Decrypts, Keyring, Sealed, Deployments, TypeOK, Newest

(* The update r replaces a password it did not find.                       *)
Overtakes(r) ==
    /\ r \in Active({"update"})
    /\ request'[r] = None
    /\ request[r].secret # None
    /\ request[r].loaded # credential.version

LEMMA UpdateSeals ==
    ASSUME SourcesInv, NEW r \in Requests, Update(r), PasswordReadable, ~Overtakes(r),
           request[r].secret # None
    PROVE  Sealed(credential)'
<1> DEFINE q == request[r]
<1>1. q \in UpdateRequest /\ q # None /\ q.op = "update" /\ q.sealed # None
  BY RequestFields DEF Update, Active, SourcesInv, Typed
<1>2. Sealed(q.sealed)
  BY <1>1 DEF SourcesInv, Vouched, VouchedFor
<1>3. credential # None
  BY DEF Update, PasswordReadable
<1>4. request'[r] = None /\ r \in Active({"update"})
  BY DEF Update, End, SourcesInv, Typed, RequestsOK
<1>5. q.loaded = credential.version
  BY <1>4 DEF Overtakes
<1>6. credential' = Replaced(q) /\ versions' = versions
  BY DEF Update
<1>7. credential'.key = q.sealed.key /\ credential'.version = q.sealed.version
  BY <1>1, <1>3, <1>5, <1>6, ReplacedRow DEF SourcesInv, Typed
<1> QED BY <1>2, <1>6, <1>7 DEF Sealed, Deployments

LEMMA ReadableStep == SourcesInv /\ [Next]_vars =>
    (PasswordReadable /\ ~PasswordReadable' =>
        \/ VersionTaken'
        \/ \E r \in Active({"update"}) :
              /\ request'[r] = None
              /\ request[r].secret # None
              /\ request[r].loaded # credential.version)
<1> SUFFICES ASSUME SourcesInv, [Next]_vars, PasswordReadable, Exists', ~VersionTaken',
                    \A r \in Requests : ~Overtakes(r)
             PROVE  PasswordReadable'
  BY DEF Overtakes, PasswordReadable, Active
<1>1. TypeOK' /\ credential' # None
  <2>1. SourcesInv'
    BY SourcesStep
  <2> QED BY <2>1 DEF SourcesInv, Typed, HasPassword
<1>2. SUFFICES Sealed(credential)'
  <2>1. (TypeOK /\ credential # None /\ Sealed(credential) /\ ~VersionTaken
            => Decrypts(Newest, credential))'
    BY SealedIsReadable, PTL
  <2> QED BY <1>1, <2>1 DEF PasswordReadable
<1>3. Exists => Sealed(credential)
  BY ReadableIsSealed DEF PasswordReadable, SourcesInv, Typed
<1>4. ASSUME Exists, UNCHANGED <<versions, credential>> PROVE Sealed(credential)'
  BY <1>3, <1>4 DEF Sealed, Deployments
<1>5. ASSUME NEW version \in Versions, RotateKey(version) PROVE Sealed(credential)'
  <2>1. Exists /\ UNCHANGED <<source, credential>>
    BY <1>5 DEF RotateKey, Exists
  <2>2. DOMAIN versions = 1 .. Newest
    BY DEF SourcesInv, Typed, TypeOK, Newest
  <2> QED
    BY <1>3, <1>5, <2>1, <2>2, RotatedVersions DEF Sealed, Deployments, SourcesInv, Typed
<1>6. ASSUME NEW r \in Requests, EditStep(r) PROVE Sealed(credential)'
  <2>1. CASE Create(r)
    <3>1. PICK g \in Deployments : credential' = Encrypt(g, request[r].secret)
      BY <2>1 DEF Create
    <3>2. Sealed(Encrypt(g, request[r].secret))
      <4>1. request[r] \in CreateRequest
        BY <2>1, RequestFields DEF Create, Active, SourcesInv, Typed
      <4> QED BY <4>1, EncryptedRow DEF CreateRequest, SourcesInv, Typed
    <3> QED BY <2>1, <3>1, <3>2 DEF Create, Sealed, Deployments
  <2>2. CASE Update(r)
    <3>1. CASE request[r].secret # None
      BY <2>2, <3>1, UpdateSeals
    <3>2. CASE request[r].secret = None
      BY <1>4, <2>2, <3>2 DEF Update
    <3> QED BY <3>1, <3>2
  <2>3. CASE Delete(r)
    BY <2>3 DEF Delete, Exists
  <2>4. CASE \/ StorePassword(r)
             \/ \E k \in Kinds, c \in Hosts \X Logins, s \in Secrets : BeginCreate(r, k, c, s)
             \/ \E h \in Hosts \cup {None}, u \in Logins \cup {None}, s \in Secrets \cup {None} :
                    BeginUpdate(r, h, u, s)
    <3>1. UNCHANGED stored
      BY <2>4 DEF StorePassword, Step, BeginCreate, BeginUpdate
    <3>2. Exists
      BY <3>1 DEF stored, Exists
    <3> QED BY <1>4, <3>1, <3>2 DEF stored
  <2> QED BY <1>6, <2>1, <2>2, <2>3, <2>4 DEF EditStep
<1>7. ASSUME NEW r \in Requests, UseStep(r) PROVE Sealed(credential)'
  <2>1. CASE Conclude(r)
    BY <1>4, <2>1 DEF Conclude
  <2>2. CASE Underway(r) \/ Abandon(r) \/ \E op \in Uses : BeginUse(r, op)
    <3>1. UNCHANGED stored
      <4>1. CASE Underway(r)
        BY <4>1, UnderwayIsGood DEF SourcesInv, Typed, Step
      <4> QED BY <2>2, <4>1 DEF Abandon, BeginUse
    <3>2. Exists
      BY <3>1 DEF stored, Exists
    <3> QED BY <1>4, <3>1, <3>2 DEF stored
  <2> QED BY <1>7, <2>1, <2>2 DEF UseStep, Underway
<1>8. CASE UNCHANGED vars
  BY <1>4, <1>8 DEF vars, Exists
<1> QED BY <1>5, <1>6, <1>7, <1>8 DEF Next

-----------------------------------------------------------------------------
(* Rows of sources and credentials are always of their tables' types       *)
(* (models/data_source.py).                                                *)
THEOREM SourcesTyped == Spec => []TypeOK
<1>1. SourcesInv => TypeOK
  BY DEF SourcesInv, Typed
<1> QED BY <1>1, SourcesInvariant, PTL

(* A password is lost to the deployment only if its version was given to   *)
(* two keys or if an update replaced a password it had not looked at,      *)
(* whatever is rotated, replaced and deleted at once                       *)
(* (services/credentials.py, core/encryption.py).                          *)
THEOREM PasswordsStayReadable == Spec => PasswordStaysReadable
BY ReadableStep, SourcesInvariant, PTL DEF PasswordStaysReadable, Spec

(* 'connected' was said by somebody whom the database let in with the      *)
(* config and the password that are stored, unless an edit and a verdict   *)
(* overlapped (api/routes/data_sources.py).                                *)
THEOREM ConnectedIsOfWhatWasTried == Spec => []ConnectedWasTried
<1>1. SourcesInv => ConnectedWasTried
  BY DEF SourcesInv
<1> QED BY <1>1, SourcesInvariant, PTL

(* Nothing is read over a session without its guards                       *)
(* (connectors/mysql/connector.py, connect).                               *)
THEOREM SessionsStayGuarded == Spec => []SessionsGuarded
<1>1. SourcesInv => SessionsGuarded
  <2> SUFFICES ASSUME SourcesInv, NEW r \in At("reading") PROVE request[r].session # "bare"
    BY DEF SessionsGuarded
  <2>1. request[r] \in UseRequest
    BY RequestFields DEF At, Active, SourcesInv, Typed
  <2> QED BY <2>1 DEF UseRequest
<1> QED BY <1>1, SourcesInvariant, PTL

(* The config of a source changes by updates alone, and an update that     *)
(* loaded what it replaces changes only what it supplies                   *)
(* (api/routes/data_sources.py, update_data_source).                       *)
THEOREM ConfigChangesByUpdates == Spec => ConfigByUpdate
BY ConfigStep, SourcesInvariant, PTL DEF ConfigByUpdate, Spec
=============================================================================
