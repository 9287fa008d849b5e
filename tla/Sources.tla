------------------------------- MODULE Sources -------------------------------
(***************************************************************************)
(* A data source under concurrent requests: its row, its credential, and   *)
(* the connectors that requests open to the database it names.             *)
(*                                                                         *)
(* A request loads the row, later the password, dials, reads, and writes   *)
(* what it concluded. What it writes are the attributes it set to another  *)
(* value than it had loaded: a row that two requests write is a mixture of *)
(* both. A host and a user stand for the config, which is one column; the  *)
(* times of the last connection and error are left out.                    *)
(***************************************************************************)
EXTENDS Naturals, FiniteSets, Sequences

CONSTANTS
    Hosts, Logins, Secrets,
    Accepted,        \* <<<<host, user>>, secret>> that some database accepts
    Kinds,           \* "postgresql", "mysql"
    Codes,           \* what a connector reports of a failure
    Requests,
    Streams,         \* how many enabled streams a sync reads
    Versions,        \* values of CREDENTIAL_ENCRYPTION_KEY_VERSION
    MaxKeys,         \* bound of the deployments
    None, Deleted

Statuses == {"configured", "connected", "error"}
Uses == {"inspection", "sync"}   \* an inspection is a test or a discovery

ASSUME SourcesAssumption ==
    /\ Accepted \subseteq (Hosts \X Logins) \X Secrets
    /\ Kinds \subseteq {"postgresql", "mysql"}
    /\ Streams \in Nat \ {0}
    /\ Versions \subseteq Nat \ {0} /\ 1 \in Versions
    /\ MaxKeys \in Nat
    /\ None # Deleted /\ Codes # {}
    /\ None \notin Hosts \cup Logins \cup Secrets \cup Codes

VARIABLES
    source,        \* the row of the source: None, then a row, then Deleted
    versions,      \* versions[g]: the version of the key of deployment g
    credential,    \* the password, the deployment whose key encrypted it, and
                   \* the version in its row, or None
    request,       \* request[r]: what request r has loaded and found, or None
    untried        \* since the last verdict, an edit and a verdict overlapped

vars == <<source, versions, credential, request, untried>>
stored == <<source, versions, credential>>

-----------------------------------------------------------------------------
Row(kind, config) ==
    [kind |-> kind, config |-> config, status |-> "configured", error |-> None]

Exists == source \notin {None, Deleted}
Active(op) == {r \in Requests : request[r] # None /\ request[r].op \in op}
At(step) == {r \in Active(Uses) : request[r].step = step}

Begin(r, loaded) ==
    /\ request[r] = None
    /\ request' = [request EXCEPT ![r] = loaded]
End(r) == request' = [request EXCEPT ![r] = None]

Step(r, q) ==
    /\ request' = [request EXCEPT ![r] = q]
    /\ UNCHANGED <<stored, untried>>

(* What a flush writes of new is what differs from what r loaded. Mutant:  *)
(* the whole row.                                                          *)
WrittenWhole(r, new) == new
Written(r, new) ==
    LET loaded == request[r].row IN
    [f \in DOMAIN source |-> IF new[f] # loaded[f] THEN new[f] ELSE source[f]]

-----------------------------------------------------------------------------
(* A deployment brings a key of its own and lists those it retires as      *)
(* previous ones, the last retired last. A process keeps the keyring it    *)
(* was started with, and older ones may serve beside the newest.           *)
Deployments == DOMAIN versions
Newest == Len(versions)

(* Mutant: what was active before is forgotten.                            *)
ActiveKeyOnly(g) == {g}

(* CredentialCipher: a version has one place in the keyring. The active    *)
(* key takes its own, and of previous keys the one listed last.            *)
Keyring(g) == {k \in 1 .. g : \A l \in k + 1 .. g : versions[l] # versions[k]}

(* decrypt: the key is looked up by the version that the row names.        *)
Decrypts(g, value) ==
    value.key \in Keyring(g) /\ versions[value.key] = value.version

Encrypt(g, secret) == [key |-> g, version |-> versions[g], secret |-> secret]

(* A new key, with the next version or, by the letter of the cipher's      *)
(* description of a rotation, with the version it had.                     *)
RotateKey(version) ==
    /\ Newest < MaxKeys
    /\ versions' = Append(versions, version)
    /\ UNCHANGED <<source, credential, request, untried>>

-----------------------------------------------------------------------------
(* create_data_source: row and credential in one transaction; the name is  *)
(* looked up first, and unique.                                            *)
BeginCreate(r, kind, config, secret) ==
    /\ source = None
    /\ Begin(r, [op |-> "create", row |-> Row(kind, config), secret |-> secret])
    /\ UNCHANGED <<stored, untried>>

Create(r) ==
    /\ r \in Active({"create"}) /\ source = None
    /\ source' = request[r].row
    /\ \E g \in Deployments : credential' = Encrypt(g, request[r].secret)
    /\ End(r)
    /\ UNCHANGED <<versions, untried>>

-----------------------------------------------------------------------------
(* update_data_source: the fields that are supplied, over a copy of the    *)
(* config that was loaded. What is supplied as it was loaded changes       *)
(* nothing, as if it had been omitted.                                     *)
BeginUpdate(r, host, user, secret) ==
    /\ Exists
    /\ host # source.config[1] /\ user # source.config[2]
    /\ Begin(r, [op |-> "update", row |-> source, host |-> host, user |-> user,
                 secret |-> secret, sealed |-> None, loaded |-> 0])
    /\ UNCHANGED <<stored, untried>>

(* store_credentials: the password is encrypted, and the credential loaded *)
(* that it will replace.                                                   *)
StorePassword(r) ==
    LET q == request[r] IN
    /\ r \in Active({"update"}) /\ q.secret # None /\ q.sealed = None
    /\ credential # None
    /\ \E g \in Deployments :
           Step(r, [q EXCEPT !.sealed = Encrypt(g, q.secret),
                             !.loaded = credential.version])

(* Ciphertext and nonce always differ from what was loaded, the version    *)
(* may not, and then is not written.                                       *)
Replaced(q) ==
    IF q.sealed.version # q.loaded THEN q.sealed
    ELSE [q.sealed EXCEPT !.version = credential.version]

(* Mutant: an omitted field is taken as it is.                             *)
SuppliedOrNot(value, old) == value
Supplied(value, old) == IF value # None THEN value ELSE old

NewConfig(q) ==
    <<Supplied(q.host, q.row.config[1]), Supplied(q.user, q.row.config[2])>>

(* Mutant: a new password is no change of the connection.                  *)
ChangedConfig(q) == NewConfig(q) # q.row.config
Changed(q) == NewConfig(q) # q.row.config \/ q.secret # None

Updated(q) ==
    IF ~Changed(q) THEN q.row
    ELSE [q.row EXCEPT !.config = NewConfig(q), !.status = "configured",
                       !.error = None]

Update(r) ==
    LET q == request[r] IN
    /\ r \in Active({"update"}) /\ Exists
    /\ q.secret # None => q.sealed # None
    /\ source' = Written(r, Updated(q))
    /\ credential' = IF q.secret # None THEN Replaced(q) ELSE credential
    /\ untried' = IF Changed(q) THEN q.row.status # source.status ELSE untried
    /\ End(r)
    /\ UNCHANGED versions

(* delete_data_source, which cascades to the credential.                   *)
Delete(r) ==
    /\ request[r] = None /\ Exists
    /\ source' = Deleted /\ credential' = None
    /\ UNCHANGED <<versions, request, untried>>

-----------------------------------------------------------------------------
(* test_connection, discover_schema and trigger_sync load the row,         *)
BeginUse(r, op) ==
    /\ Exists
    /\ Begin(r, [op |-> op, step |-> "loaded", row |-> source, secret |-> None,
                 session |-> "none", left |-> IF op = "sync" THEN Streams ELSE 1,
                 good |-> FALSE, code |-> None])
    /\ UNCHANGED <<stored, untried>>

(* then the password, which must be there and decrypt: no request handles  *)
(* that it does not, which ends it.                                        *)
LoadPassword(r) ==
    /\ r \in At("loaded") /\ credential # None
    /\ \E g \in Deployments : Decrypts(g, credential)
    /\ Step(r, [request[r] EXCEPT !.step = "connecting", !.secret = credential.secret])

Closed(q) == [q EXCEPT !.session = "none"]

(* One reading is over. After the last the session is closed, and what     *)
(* counts is the code of the first that failed, if none succeeded.         *)
OneLess(q) ==
    IF q.left > 1 THEN [q EXCEPT !.left = @ - 1]
    ELSE [op |-> "verdict", row |-> q.row, secret |-> q.secret, code |-> q.code]

(* What failed is a reading, or the request if it has not connected yet.   *)
Failed(q, code) ==
    LET told == [q EXCEPT !.code = IF @ = None /\ ~q.good THEN code ELSE @] IN
    OneLess(IF q.step = "reading" THEN told ELSE [told EXCEPT !.left = 1])

(* connect dials unless a session is open. PostgreSQL takes the guards of  *)
(* the session, read only and bounded in time, as options of connecting.   *)
Dials(q) == q.step \in {"connecting", "reading"} /\ q.session = "none"

Answered(r) ==
    /\ r \in Active(Uses) /\ Dials(request[r])
    /\ <<request[r].row.config, request[r].secret>> \in Accepted

ConnectPostgres(r) ==
    /\ Answered(r) /\ request[r].row.kind = "postgresql"
    /\ Step(r, [request[r] EXCEPT !.session = "guarded", !.step = "reading"])

(* MySQL takes them as statements, over a session that is open by then.    *)
ConnectMysql(r) ==
    /\ Answered(r) /\ request[r].row.kind = "mysql"
    /\ Step(r, [request[r] EXCEPT !.session = "open"])

Refused(r, code) ==
    LET q == request[r] IN
    /\ r \in Active(Uses) /\ Dials(q)
    /\ Step(r, Failed(q, code))

Guarding(r) == r \in At("connecting") \cup At("reading") /\ request[r].session = "open"

Guard(r) ==
    /\ Guarding(r)
    /\ Step(r, [request[r] EXCEPT !.session = "guarded", !.step = "reading"])

(* A session that could not be guarded is closed. Mutant: it is kept.      *)
KeptUnguarded(q) == [q EXCEPT !.session = "bare"]
Unguarded(q) == Closed(q)

GuardFails(r, code) ==
    /\ Guarding(r)
    /\ Step(r, Failed(Unguarded(request[r]), code))

-----------------------------------------------------------------------------
(* What is read over the session that is open: by an inspection what a     *)
(* test or a discovery asks for, by a sync a stream.                       *)
Reading(r, op, kind) ==
    /\ r \in At("reading") /\ request[r].session \notin {"none", "open"}
    /\ request[r].op = op /\ request[r].row.kind = kind

Succeeds(r) == Step(r, OneLess([request[r] EXCEPT !.good = TRUE, !.code = None]))

(* A test reads who and where it is, whether the session is encrypted, and *)
(* the catalog; a catalog that cannot be read is a warning, no failure.    *)
TestPostgres(r) == Reading(r, "inspection", "postgresql") /\ Succeeds(r)
TestMysql(r) == Reading(r, "inspection", "mysql") /\ Succeeds(r)

(* A discovery reads the schemas, then the columns of their tables.        *)
DiscoverPostgres(r) == Reading(r, "inspection", "postgresql") /\ Succeeds(r)
DiscoverMysql(r) == Reading(r, "inspection", "mysql") /\ Succeeds(r)

(* _iterate dials first where a session was lost.                          *)
IteratePostgres(r) == Reading(r, "sync", "postgresql") /\ Succeeds(r)
IterateMysql(r) == Reading(r, "sync", "mysql") /\ Succeeds(r)

ReadFails(r, code) ==
    /\ \E op \in Uses, kind \in Kinds : Reading(r, op, kind)
    /\ Step(r, Failed(request[r], code))

(* The database ends the session between two statements.                   *)
Dropped(r) ==
    /\ r \in At("reading") /\ request[r].session = "guarded"
    /\ Step(r, Closed(request[r]))

-----------------------------------------------------------------------------
(* What the request concludes.                                             *)
Verdict(q) ==
    IF q.code = None THEN [q.row EXCEPT !.status = "connected", !.error = None]
    ELSE [q.row EXCEPT !.status = "error", !.error = q.code]

(* An edit was committed since the request loaded the row or the password. *)
Overtaken(q) == q.row.config # source.config \/ q.secret # credential.secret

Conclude(r) ==
    LET q == request[r] IN
    /\ r \in Active({"verdict"}) /\ Exists
    /\ source' = Written(r, Verdict(q))
    /\ untried' = IF q.code = None THEN Overtaken(q) ELSE untried
    /\ End(r)
    /\ UNCHANGED <<versions, credential>>

(* A request ends without a commit: refused, unable to decrypt, its row    *)
(* gone, or its process dead.                                              *)
Abandon(r) ==
    /\ request[r] # None
    /\ End(r)
    /\ UNCHANGED <<stored, untried>>

-----------------------------------------------------------------------------
Init ==
    /\ source = None /\ credential = None
    /\ versions = <<1>>
    /\ request = [r \in Requests |-> None]
    /\ untried = FALSE

EditStep(r) ==
    \/ \E k \in Kinds, c \in Hosts \X Logins, s \in Secrets : BeginCreate(r, k, c, s)
    \/ \E h \in Hosts \cup {None}, u \in Logins \cup {None}, s \in Secrets \cup {None} :
           BeginUpdate(r, h, u, s)
    \/ Create(r) \/ StorePassword(r) \/ Update(r) \/ Delete(r)

UseStep(r) ==
    \/ \E op \in Uses : BeginUse(r, op)
    \/ LoadPassword(r) \/ ConnectPostgres(r) \/ ConnectMysql(r) \/ Guard(r)
    \/ TestPostgres(r) \/ DiscoverPostgres(r) \/ IteratePostgres(r)
    \/ TestMysql(r) \/ DiscoverMysql(r) \/ IterateMysql(r) \/ Dropped(r)
    \/ \E c \in Codes : Refused(r, c) \/ GuardFails(r, c) \/ ReadFails(r, c)
    \/ Conclude(r) \/ Abandon(r)

Next == \/ \E version \in Versions : RotateKey(version)
        \/ \E r \in Requests : EditStep(r) \/ UseStep(r)

Spec == Init /\ [][Next]_vars
=============================================================================
