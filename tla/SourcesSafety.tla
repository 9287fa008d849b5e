---------------------------- MODULE SourcesSafety ----------------------------
(***************************************************************************)
(* What the row of a source may be believed to say.                        *)
(***************************************************************************)
EXTENDS Sources

SourceRow ==
    [kind : Kinds, config : Hosts \X Logins, status : Statuses,
     error : Codes \cup {None}]
CredentialRow == [key : Nat \ {0}, version : Versions, secret : Secrets]

ASSUME NoneIsNoRow ==
    None \notin SourceRow \cup CredentialRow /\ Deleted \notin SourceRow

(* Rows are of their tables' types (models/data_source.py).                *)
TypeOK ==
    /\ source \in SourceRow \cup {None, Deleted}
    /\ credential \in CredentialRow \cup {None}
    /\ versions \in Seq(Versions) /\ Newest > 0
    /\ untried \in BOOLEAN

(* 'connected' is said of a config and a password that a database accepted *)
(* together, whatever tests, discoveries and syncs conclude at once and    *)
(* whichever of them wrote it, unless an edit and a verdict overlapped     *)
(* (api/routes/data_sources.py, update_data_source and test_connection).   *)
ConnectedWasTried ==
    Exists /\ source.status = "connected" /\ ~untried =>
        <<source.config, credential.secret>> \in Accepted

(* No verdict brings back parameters that were replaced while it was       *)
(* formed, and an update changes what it does not supply only if it and    *)
(* another update overlapped.                                              *)
ConfigByUpdate ==
    [][Exists /\ Exists' /\ source'.config # source.config =>
          \E r \in Active({"update"}) :
              LET q == request[r] IN
              /\ request'[r] = None
              /\ \/ q.row.config # source.config
                 \/ \A i \in 1 .. 2 : source'.config[i] # source.config[i] =>
                        source'.config[i] = IF i = 1 THEN q.host ELSE q.user]_vars

(* What was deployed last can read the password of a source that exists:   *)
(* refuted as it stands, and what PasswordStaysReadable is about.          *)
PasswordReadable ==
    Exists => credential # None /\ Decrypts(Newest, credential)

(* The version of the stored password was given to a later key as well.    *)
VersionTaken ==
    \E k \in credential.key + 1 .. Newest : versions[k] = versions[credential.key]

(* A password stays readable while keys are rotated, processes of several  *)
(* deployments store passwords and sources are edited and deleted. It is   *)
(* lost only if a version is given to two keys, or to an update that found *)
(* the version of a password other than the one it replaces                *)
(* (services/credentials.py, core/encryption.py).                          *)
PasswordStaysReadable ==
    [][PasswordReadable /\ ~PasswordReadable' =>
          \/ VersionTaken'
          \/ \E r \in Active({"update"}) :
                /\ request'[r] = None
                /\ request[r].secret # None
                /\ request[r].loaded # credential.version]_vars

(* No statement is sent to a database over a session that is not read only *)
(* and bounded in time, also when the database drops sessions and refuses  *)
(* the guards of the next (connectors/mysql/connector.py, connect).        *)
SessionsGuarded == \A r \in At("reading") : request[r].session # "bare"

-----------------------------------------------------------------------------
(* Refuted, see README.                                                    *)

(* 'connected' is only said of what is stored.                             *)
ConnectedIsVerified ==
    Exists /\ source.status = "connected" =>
        <<source.config, credential.secret>> \in Accepted

(* A source that is connected shows no error.                              *)
ConnectedShowsNoError == Exists /\ source.status = "connected" => source.error = None

(* Each stored record carries the key version that produced it.            *)
CarriesItsVersion == Exists => credential.version = versions[credential.key]

(* Rotation is without downtime: whoever still serves can connect.         *)
ReadableByAll ==
    Exists /\ ~VersionTaken => \A g \in Deployments : Decrypts(g, credential)

(* An omitted field is left alone.                                         *)
OmittedStays ==
    [][\A r \in Active({"update"}) :
          Exists /\ Exists' /\ request'[r] = None =>
              /\ request[r].host = None => source'.config[1] = source.config[1]
              /\ request[r].user = None => source'.config[2] = source.config[2]]_vars
=============================================================================
