----------------------------- MODULE SyncSafety -----------------------------
(***************************************************************************)
(* What is required of Sync, and the ledger it implements.                 *)
(***************************************************************************)
EXTENDS Sync

Attempts ==
    [key : Keys \cup {"none"}, incremental : BOOLEAN, sel : SUBSET Streams,
     timed : SUBSET Streams, loaded : [Streams -> 0 .. MaxTime],
     mark : [Streams -> 0 .. MaxTime], health0 : SourceStatus,
     health : SourceStatus, status : SyncStatus, todo : SUBSET Streams,
     cur : Streams \cup {0}, feed : SUBSET Row, times : SUBSET Times,
     part : Counts, total : Counts, ok : SUBSET Streams, bad : SUBSET Streams,
     mine : SUBSET Observation]

Labels == InTransaction \cup {"idle", "lookup", "insert", "refused"}

(* The types of the state.                                                 *)
TypeOK ==
    /\ now \in Times
    /\ table \in [Streams -> SUBSET Row]
    /\ timed \subseteq Streams
    /\ present \subseteq Streams
    /\ hwm \in [Streams -> 0 .. MaxTime]
    /\ stamp \in [Streams -> Keys \cup {"none"}]
    /\ obs \subseteq Observation
    /\ runs \in [Keys -> SyncRun]
    /\ health \in SourceStatus
    /\ held \in [Conns -> Nat]
    /\ aborted \in [Conns -> Nat]
    /\ pc \in [Conns -> Labels]
    /\ att \in [Conns -> Attempts]

-----------------------------------------------------------------------------
(* One sync per source at a time: no two attempts are between the          *)
(* acquisition and the release of the advisory lock, even when earlier     *)
(* attempts died or left the lock on a pooled connection.                  *)
OneSyncAtATime ==
    \A c, d \in Conns : pc[c] \in Locked /\ pc[d] \in Locked => c = d

(* What keeps a source from syncing is work under way or a transaction     *)
(* that the database aborted, one lock for each: no skipped, failed,       *)
(* interrupted, retried or finished attempt leaves the lock on its         *)
(* session, or releases one it did not take (ingestion/locks.py).          *)
LocksAccountedFor ==
    \A c \in Conns :
        held[c] = aborted[c] + (IF pc[c] \in Locked THEN 1 ELSE 0)

(* No observation is stored twice, committed or about to be: two attempts  *)
(* that read the same row at once cannot both insert it.                   *)
Visible == obs \cup UNION {att[c].mine : c \in Conns}
UniqueObservations ==
    \A o, p \in Visible : SameFingerprint(o, p) => o = p

(* A row the cursor has passed is already an observation: what is not      *)
(* stored yet is at or after the mark the next incremental read starts at. *)
Ingested(s, r) ==
    \E o \in obs : o.stream = s /\ o.pk = r.pk /\ o.ver = r.ver
NothingOutOfReach ==
    \A s \in present \cap timed : \A r \in table[s] :
        Ingested(s, r) \/ InReach(r, hwm[s])

(* The counters of a clean run add up and count exactly the observations   *)
(* that name it; a skipped run brought none.                               *)
Brought(k) == {o \in obs : o.run = k}
Accounted(k) ==
    /\ runs[k].counts.seen = runs[k].counts.created + runs[k].counts.skipped
    /\ runs[k].counts.created = Cardinality(Brought(k))
CleanRunsAccounted ==
    \A k \in Keys :
        runs[k].status \in {"completed", "skipped"} /\ ~runs[k].partial
            => Accounted(k)

(* What an attempt needs for its next step: a key, a row or the source row *)
(* that no other transaction holds, and something to do where it is.       *)
Ready(c) ==
    LET a == att[c] IN
    /\ pc[c] # "idle"
    /\ pc[c] = "insert" => KeyIsFree(c)
    /\ pc[c] = "select" => \E s \in a.todo : \A u \in a.todo : s <= u
    /\ pc[c] = "ingest" /\ a.feed # {} => NothingPending(c)
    /\ pc[c] = "ingest" /\ a.feed = {} =>
          \E t \in a.times \cup {a.mark[a.cur]} :
              \A u \in a.times \cup {a.mark[a.cur]} : u <= t
    /\ pc[c] = "flush" => SourceRowFree(c)

(* Attempts never wait for each other in a circle: while any is under way, *)
(* one of them has what it needs.                                          *)
SomeoneReady == (\E c \in Conns : pc[c] # "idle") => \E c \in Conns : Ready(c)

(* And who has what it needs can take its next step: the attempts of       *)
(* run_sync never stop altogether.                                         *)
SomeoneProceeds ==
    /\ SomeoneReady
    /\ \A c \in Conns : Ready(c) => ENABLED Proceed(c)

(* A stream is stamped as synced only by a committed run that completed.   *)
FreshnessVouched ==
    \A s \in present : stamp[s] # "none" => runs[stamp[s]].status = "completed"

-----------------------------------------------------------------------------
(* The high-water mark of a stream that stays never moves backwards.       *)
MarkNeverMovesBack ==
    [][\A s \in present' : hwm'[s] >= hwm[s]]_vars

(* How far an attempt is with the stream it works on.                      *)
Stage == [lookup |-> 1, insert |-> 2, refused |-> 3, trylock |-> 4, connect |-> 5,
          ingest |-> 6, select |-> 7, flush |-> 8, unlock |-> 9, commit |-> 10]

(* An attempt only ever comes nearer its end: it ends, or has a stream     *)
(* less to open, or is at a later stage, or has fewer rows left to insert. *)
(* It never reads a stream again, goes back for a lock or starts over.     *)
Nearer(c) ==
    LET a == att[c]
        b == att'[c]
    IN  \/ pc'[c] = "idle"
        \/ b.todo \subseteq a.todo /\ b.todo # a.todo
        \/ b.todo = a.todo /\ Stage[pc[c]] < Stage[pc'[c]]
        \/ b.todo = a.todo /\ pc'[c] = pc[c]
               /\ b.feed \subseteq a.feed /\ b.feed # a.feed
OnlyForward ==
    [][\A c \in Conns :
          pc[c] # "idle" => Nearer(c) \/ UNCHANGED <<pc[c], att[c]>>]_vars

(* Every attempt ends, whatever others do to its stream: it is not kept    *)
(* waiting for keys, rows and the source row, nor for the advisory lock.   *)
AttemptEnds == \A c \in Conns : pc[c] # "idle" ~> pc[c] = "idle"

(* The promise the readers rely on.                                        *)
Entry(o) == [stream |-> o.stream, run |-> o.run,
             fact |-> <<o.pk, o.ver, o.at, o.timed>>]
Ledger == INSTANCE IngestLedger WITH
    log <- {Entry(o) : o \in obs},
    answer <- runs,
    NoAnswer <- NoRun
RefinesLedger == Ledger!Spec

(* The promise the scheduler relies on: a run is claimed from its insert   *)
(* to the end of its transaction, and its attempt works under the lock.    *)
Contract == INSTANCE RunContract WITH
    Attempts <- Conns,
    NoKey <- "none",
    recorded <- {k \in Keys : runs[k].status # "none"},
    claim <- [c \in Conns |-> IF pc[c] \in InTransaction THEN att[c].key ELSE "none"],
    working <- {c \in Conns : pc[c] \in Locked}
KeepsContract == Contract!Spec

-----------------------------------------------------------------------------
(* Statements of documents and comments that the code does not keep, which *)
(* TLC refutes in the instances README.md names.                           *)

(* The lock is released even when the sync failed: it is on a session only *)
(* while an attempt there is running under it.                             *)
LockFreeWhenQuiet ==
    \A c \in Conns : held[c] > 0 => pc[c] \in Locked

(* The lock covers the work: while one attempt holds it, no other attempt  *)
(* on the source has rows it has not committed yet.                        *)
LockCoversWork ==
    \A c, d \in Conns : pc[c] \in Locked /\ c # d => att[d].mine = {}

(* An unchanged row is observed once, however often it is read.            *)
RereadInsertsNothing ==
    \A o, p \in obs :
        o.stream = p.stream /\ o.pk = p.pk /\ o.ver = p.ver => o = p

(* The same of every recorded run, the failed and partial ones included.   *)
EveryRunAccounted ==
    \A k \in Keys : runs[k].status # "none" => Accounted(k)

(* A retry whose key is already in use gets the original run: no attempt   *)
(* is refused for a key another attempt has taken.                         *)
RetryObservesOriginal == \A c \in Conns : pc[c] # "refused"
=============================================================================
