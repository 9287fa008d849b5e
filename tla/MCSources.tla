------------------------------ MODULE MCSources ------------------------------
(***************************************************************************)
(* A small instance of Sources for TLC: two databases, each with a host, a *)
(* user and a password of its own, which may change places.                *)
(***************************************************************************)
EXTENDS SourcesSafety, TLC

CONSTANTS h1, h2, u1, u2, p1, p2

TwoDatabases == {<< <<h1, u1>>, p1 >>, << <<h2, u2>>, p2 >>}
Exchange == (h1 :> h2) @@ (h2 :> h1) @@ (u1 :> u2) @@ (u2 :> u1) @@ (p1 :> p2) @@ (p2 :> p1)
Interchangeable == Permutations(Requests) \cup {Exchange}

(* Two bounds. A request about a PostgreSQL source has the steps of one    *)
(* about a MySQL source, but for the guards, which come with the session:  *)
(* what is followed of the former are requests one at a time.              *)
PostgresAlone ==
    Exists /\ source.kind = "postgresql" =>
        Cardinality({r \in Requests : request[r] # None}) <= 1

(* Once a key was rotated, what is followed are requests that store or     *)
(* load a password. The other steps of a request neither depend on the     *)
(* keyrings nor change what they are asked to decrypt.                     *)
AboutPasswords(q) ==
    \/ q = None
    \/ q.op = "create"
    \/ q.op = "update" /\ q.host = None /\ q.user = None
    \/ q.op \in Uses /\ q.step \in {"loaded", "connecting"} /\ q.session = "none"

RotatedApart == Newest > 1 => \A r \in Requests : AboutPasswords(request[r])

Followed == PostgresAlone /\ RotatedApart
=============================================================================
