-------------------------- MODULE SchedulerSafety --------------------------
(***************************************************************************)
(* What is required of Scheduler.                                          *)
(***************************************************************************)
EXTENDS Scheduler

Labels == {"asleep", "awake", "pass", "answered", "insert", "running"}

(* The types of the state.                                                 *)
TypeOK ==
    /\ now \in Times
    /\ exists \subseteq Streams
    /\ enabled \subseteq Streams
    /\ interval \in [Streams -> Intervals]
    /\ age \in [Streams -> 0 .. Cycle]
    /\ broken \subseteq Streams
    /\ keys \in [Sources -> SUBSET ScheduledRun]
    /\ manual \subseteq Sources
    /\ pc \in [Instances -> Labels]
    /\ todo \in [Instances -> SUBSET DueSource]
    /\ item \in [Instances -> DueSource \cup {NoItem}]
    /\ reading \in [Instances -> SUBSET Streams]

(* A scheduling window of a source has one run at most, committed or in    *)
(* progress, however many instances decide that the source is due in it.   *)
OneRunPerWindow ==
    /\ \A d \in Sources : \A k, l \in keys[d] : k.window = l.window => k = l
    /\ \A i \in Instances : pc[i] = "running" => ~Answered(item[i])
    /\ \A i, j \in Instances :
          pc[i] = "running" /\ InProgress(j, item[i]) => i = j

(* Scheduled and manual syncs of a source exclude each other.              *)
OneSyncPerSource ==
    \A i \in Instances : pc[i] = "running" =>
        /\ item[i].source \notin manual
        /\ \A j \in Instances \ {i} :
              pc[j] = "running" => item[j].source # item[i].source

(* A stream that stays configured, enabled and readable, on a source no    *)
(* user keeps syncing, is synced again and again, whatever happens to the  *)
(* other streams and sources.                                              *)
Pollable(s) == s \in (exists \cap enabled) \ broken /\ Owner[s] \notin manual
Served == \A s \in Streams : <>[]Pollable(s) => []<>(age[s] = 0)

(* What the loops take a sync to be is what run_sync keeps, source by      *)
(* source: a run is claimed while its attempt runs, and a user's sync has  *)
(* a key of its own.                                                       *)
Syncs == ({"loop"} \X Instances) \cup {<<"user", 0>>}
SyncKeys == ({"window"} \X Times) \cup {<<"own", 0>>}
KeyOf(x, d) ==
    IF x[1] = "loop"
    THEN IF pc[x[2]] = "running" /\ item[x[2]].source = d
         THEN <<"window", item[x[2]].window>> ELSE <<"none", 0>>
    ELSE IF d \in manual THEN <<"own", 0>> ELSE <<"none", 0>>
Contract(d) == INSTANCE RunContract WITH
    Attempts <- Syncs,
    Keys <- SyncKeys,
    NoKey <- <<"none", 0>>,
    recorded <- {<<"window", k.window>> : k \in keys[d]},
    claim <- [x \in Syncs |-> KeyOf(x, d)],
    working <- {x \in Syncs : KeyOf(x, d) \in SyncKeys}
KeepsContract ==
    /\ \A d \in Sources : Contract(d)!Init
    /\ [][\A d \in Sources : [Contract(d)!Next]_(Contract(d)!contract)]_vars

-----------------------------------------------------------------------------
(* Statements of documents and comments that the code does not keep, which *)
(* TLC refutes in the instances README.md names.                           *)

(* An attempt that is answered by a run already recorded finds its work    *)
(* done or tried: that run read the streams the attempt is for.            *)
AnsweredWorkWasTried ==
    \A i \in Instances : pc[i] = "answered" =>
        \E k \in keys[item[i].source] :
            k.window = item[i].window /\ reading[i] \subseteq k.streams

(* A stream that is switched off before its attempt loads is not read.     *)
DisabledIsNotRead ==
    [][\A i \in Instances :
          pc[i] = "pass" /\ pc'[i] = "insert" => reading'[i] \subseteq enabled]_vars
=============================================================================
