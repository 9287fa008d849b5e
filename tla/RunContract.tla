---------------------------- MODULE RunContract ----------------------------
(***************************************************************************)
(* What run_sync and its callers rely on, of one source: a key has one run *)
(* at most, committed or under way, and one attempt at a time works on the *)
(* source. Sync keeps this step by step, and what Scheduler takes a sync   *)
(* to be keeps it too; an attempt there begins, works and ends in fewer    *)
(* steps, so some steps are here in both forms.                            *)
(***************************************************************************)
CONSTANTS
    Attempts,
    Keys,        \* idempotency keys
    NoKey        \* the key of an attempt without a run

VARIABLES
    recorded,    \* keys whose run is committed
    claim,       \* claim[a]: the key of the run attempt a has inserted
    working      \* the attempts between acquiring and releasing the lock

contract == <<recorded, claim, working>>

Free(k) == k \notin recorded /\ \A a \in Attempts : claim[a] # k

Init == /\ recorded = {}
        /\ claim = [a \in Attempts |-> NoKey]
        /\ working = {}

(* A run is inserted, and the lock acquired at once or not yet.            *)
Begin(a, k) ==
    /\ claim[a] = NoKey
    /\ Free(k)
    /\ claim' = [claim EXCEPT ![a] = k]
    /\ \/ UNCHANGED working
       \/ working = {} /\ working' = {a}
    /\ UNCHANGED recorded

Work(a) ==
    /\ claim[a] \in Keys
    /\ working = {}
    /\ working' = {a}
    /\ UNCHANGED <<recorded, claim>>

Rest(a) ==
    /\ a \in working
    /\ working' = working \ {a}
    /\ UNCHANGED <<recorded, claim>>

(* The attempt commits its run, or leaves nothing.                         *)
End(a) ==
    /\ claim[a] \in Keys
    /\ claim' = [claim EXCEPT ![a] = NoKey]
    /\ working' = working \ {a}
    /\ recorded' \in {recorded, recorded \cup {claim[a]}}

(* An attempt that may not work inserts its run and commits it.            *)
Skip(k) ==
    /\ Free(k)
    /\ recorded' = recorded \cup {k}
    /\ UNCHANGED <<claim, working>>

(* Runs go with the stream they are about.                                 *)
Forget ==
    /\ recorded' \subseteq recorded
    /\ UNCHANGED <<claim, working>>

Next ==
    \/ Forget
    \/ \E k \in Keys : Skip(k)
    \/ \E a \in Attempts :
          Work(a) \/ Rest(a) \/ End(a) \/ \E k \in Keys : Begin(a, k)

Spec == Init /\ [][Next]_contract
=============================================================================
