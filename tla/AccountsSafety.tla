--------------------------- MODULE AccountsSafety ---------------------------
(***************************************************************************)
(* What accounts, sessions and memberships promise each other.             *)
(***************************************************************************)
EXTENDS Accounts

MembershipRow == [Organizations -> Roles \cup {None}]   \* of a user
UserRow == [password : Nat, outdated : BOOLEAN]
SessionRow ==
    [status : {"open", "revoked", "deleted"}, user : Users,
     org : Organizations \cup {None}, seen : Nat, expires : Nat,
     since : Nat, excused : BOOLEAN]
TokenRow == [user : Users, expires : Nat, used : BOOLEAN, since : Nat, excused : BOOLEAN]

ASSUME NoneIsNoRow == None \notin UserRow \cup SessionRow \cup TokenRow

(* Rows are of their tables' types (models/user.py, session.py,            *)
(* membership.py, password_reset.py).                                      *)
TypeOK ==
    /\ now \in Nat
    /\ users \in [Users -> UserRow \cup {None}]
    /\ organizations \subseteq Organizations
    /\ memberships \in [Users -> MembershipRow]
    /\ sessions \in [SessionIds -> SessionRow \cup {None}]
    /\ tokens \in [TokenIds -> TokenRow \cup {None}]
    /\ resets \in [Users -> Nat]

(* Whatever sign-ins, switches and removals run at once, the organization  *)
(* a stored session acts in is one that its user is a member of: a         *)
(* removal takes the sessions with it, also those that were being issued   *)
(* or switched (models/session.py, fk_sessions_active_membership).         *)
SessionsBelong ==
    \A s \in SessionIds :
        /\ sessions[s] # None
        /\ sessions[s].status # "deleted"
        /\ sessions[s].org # None
        => memberships[sessions[s].user][sessions[s].org] # None

(* A reset ends every session, and every link, that was there before it:   *)
(* what is still good was obtained after the user's last reset, or by a    *)
(* request that was under way together with a reset                        *)
(* (services/password_reset.py, reset_password).                           *)
ResetEndsAccess ==
    /\ \A s \in SessionIds : Open(s) =>
          sessions[s].excused \/ sessions[s].since = resets[sessions[s].user]
    /\ \A t \in TokenIds : tokens[t] # None /\ ~tokens[t].used =>
          tokens[t].excused \/ tokens[t].since = resets[tokens[t].user]

(* A session that was signed out or deleted is never good again, although  *)
(* requests that loaded it before commit what they noted in it afterwards  *)
(* (services/auth.py, revoke_session and resolve_session).                 *)
SignedOutStaysOut ==
    [][\A s \in SessionIds : sessions[s] # None /\ ~Open(s) => ~Open(s)']_vars

(* An organization loses its last owner only to a removal whose witness,   *)
(* the other owner that it found, was removed after it looked              *)
(* (api/routes/organizations.py, remove_member).                           *)
OwnerKept ==
    \A o \in Organizations : OwnersOf(o) # {} /\ OwnersOf(o)' = {} =>
        \E r \in InFlight("remove") :
            /\ request[r].org = o /\ request'[r] = None
            /\ request[r].witness \notin OwnersOf(o)
LastOwnerStays == [][OwnerKept]_vars

-----------------------------------------------------------------------------
(* Refuted, see README.                                                    *)

(* An organization keeps an owner.                                         *)
OwnerAlways == \A o \in organizations : OwnersOf(o) # {}

(* The password changes by a reset only.                                   *)
PasswordByReset ==
    [][\A u \in Users : users[u] # None /\ users'[u].password # users[u].password =>
          resets'[u] = resets[u] + 1]_vars

(* A link that was spent changes no password.                              *)
LinkWorksOnce ==
    [][\A r \in InFlight("reset") : request'[r] = None /\ resets' # resets =>
          \A t \in request[r].links : ~tokens[t].used]_vars

(* No session outlives a reset.                                            *)
NoneOutlivesReset ==
    \A s \in SessionIds : Open(s) => sessions[s].since = resets[sessions[s].user]

(* The use of a session puts off its idle timeout.                         *)
UseIsNoted ==
    [][\A r \in InFlight("auth") :
          request[r].touch # None /\ request'[r] = None =>
              sessions'[request[r].session].seen = request[r].touch]_vars
=============================================================================
