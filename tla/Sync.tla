-------------------------------- MODULE Sync --------------------------------
(***************************************************************************)
(* Ingestion of one data source: run_sync, _execute, sync_stream and       *)
(* _finalise (ingestion/sync.py) under the advisory lock of                *)
(* ingestion/locks.py, run concurrently by API requests and by the         *)
(* scheduler of every API process.                                         *)
(*                                                                         *)
(* An attempt owns one pooled database connection from its first SELECT to *)
(* its COMMIT, so an attempt is named by the connection that serves it.    *)
(* The application database is PostgreSQL at READ COMMITTED: an attempt    *)
(* sees what is committed when it looks, its own writes are published by   *)
(* its one commit, and a statement that meets an uncommitted write of      *)
(* another transaction waits for that transaction to end.                  *)
(***************************************************************************)
EXTENDS Naturals, FiniteSets

CONSTANTS
    Conns,       \* pooled connections: the attempts that may be in flight
    Keys,        \* idempotency keys
    Streams,     \* configured tables, numbered in created_at order
    Pks,         \* primary keys of source rows
    MaxTime,     \* bound of the clock
    Limit,       \* connector_max_rows_per_sync
    BatchSize,   \* _INSERT_BATCH
    Timed0,      \* the streams configured with an event-time column at first
    Selections,  \* the sets of streams an attempt may be asked to read
    Modes,       \* whether an attempt may read incrementally, in full, or both
    Unstorable,  \* rows whose observation the database refuses: an identifier
                 \* that is blank or too long, a value JSONB cannot hold
    MaxLeft,     \* bound of the locks left on a session that serves again
    Events       \* what the environment may do

ASSUME ConstantsAssumption ==
    /\ "none" \notin Keys
    /\ Streams \subseteq Nat
    /\ Pks \subseteq Nat
    /\ MaxTime \in Nat \ {0}
    /\ Limit \in Nat \ {0}
    /\ BatchSize \in Nat \ {0}
    /\ Timed0 \subseteq Streams
    /\ IsFiniteSet(Streams)
    /\ IsFiniteSet(Pks)
    /\ Selections \subseteq (SUBSET Streams) \ {{}}
    /\ Modes \subseteq BOOLEAN
    /\ MaxLeft \in Nat

VARIABLES
    now,       \* the clock both sides read
    table,     \* table[s]: rows of the customer's table, [pk, ver]
    timed,     \* streams with an event-time column; the rest are ingest_fallback
    present,   \* streams that exist
    hwm,       \* hwm[s]: committed last_event_time, 0 for NULL
    stamp,     \* stamp[s]: key of the run that last set last_synced_at
    obs,       \* committed observations
    runs,      \* runs[k]: committed sync run of key k
    health,    \* committed data_sources.status
    held,      \* held[c]: how many times c holds the source's advisory lock
    aborted,   \* aborted[c]: how many transactions of c's session the database
               \* aborted under the lock (history, no step depends on it)
    pc,        \* pc[c]: where c's attempt is
    att        \* att[c]: the attempt's session state and uncommitted writes

vars == <<now, table, timed, present, hwm, stamp, obs, runs, health, held, aborted, pc, att>>
source == <<now, table>>
catalog == <<timed, present>>
committed == <<hwm, stamp, obs, runs, health>>

-----------------------------------------------------------------------------
Times == 1 .. MaxTime
Row == [pk : Pks, ver : Times]
Observation == [stream : Streams, pk : Pks, ver : Times, at : Times,
                timed : BOOLEAN, run : Keys]
Counts == [seen : Nat, created : Nat, skipped : Nat]
SyncStatus == {"pending", "running", "completed", "failed", "skipped"}
SourceStatus == {"configured", "connected", "error"}
NoCounts == [seen |-> 0, created |-> 0, skipped |-> 0]

(* `only' is the run's stream_id column: the stream of a one-stream run.   *)
SyncRun == [status : SyncStatus \cup {"none"}, counts : Counts,
            partial : BOOLEAN, only : SUBSET Streams]
NoRun == [status |-> "none", counts |-> NoCounts, partial |-> FALSE, only |-> {}]

(* What the session of an idle connection holds: nothing.                  *)
Idle == [key |-> "none", incremental |-> FALSE, sel |-> {}, timed |-> {},
         loaded |-> [s \in Streams |-> 0], mark |-> [s \in Streams |-> 0],
         health0 |-> "configured", health |-> "configured", status |-> "pending",
         todo |-> {}, cur |-> 0, feed |-> {}, times |-> {}, part |-> NoCounts,
         total |-> NoCounts, ok |-> {}, bad |-> {}, mine |-> {}]

Locked == {"connect", "select", "ingest", "flush", "unlock"}
InTransaction == Locked \cup {"trylock", "commit"}

-----------------------------------------------------------------------------
(* Reading the source: _build_select orders by event time, then primary    *)
(* key, or by primary key alone on a stream without an event-time column.  *)
Precedes(q, r, byTime) ==
    \/ byTime /\ q.ver < r.ver
    \/ (byTime => q.ver = r.ver) /\ q.pk < r.pk

First(n, S, byTime) ==
    {r \in S : Cardinality({q \in S : Precedes(q, r, byTime)}) < n}

(* Mutant: the strict comparison the connector's comment warns against.    *)
InReachAfter(r, since) == r.ver > since

(* WHERE event_time >= since.                                              *)
InReach(r, since) == r.ver >= since

(* build_selector: the cursor applies only to an incremental read of a     *)
(* stream that has an event-time column and a mark.                        *)
Since(a, s) == IF a.incremental /\ s \in a.timed THEN a.mark[s] ELSE 0

Fetched(a, s) ==
    First(Limit, {r \in table[s] : InReach(r, Since(a, s))}, s \in a.timed)

(* compute_fingerprint covers everything but the run and the ingest time.  *)
SameFingerprint(o, p) ==
    /\ o.stream = p.stream /\ o.pk = p.pk /\ o.ver = p.ver
    /\ o.at = p.at /\ o.timed = p.timed

(* _resolve_event_time and the row built from a record.                    *)
Observe(a, r) ==
    [stream |-> a.cur, pk |-> r.pk, ver |-> r.ver,
     at |-> IF a.cur \in a.timed THEN r.ver ELSE now,
     timed |-> a.cur \in a.timed, run |-> a.key]

Batch(a) == First(BatchSize, a.feed, a.cur \in a.timed)
Facts(a) == {Observe(a, r) : r \in Batch(a)}

(* ON CONFLICT DO NOTHING: what is already visible is not inserted.        *)
NewFacts(a) ==
    {o \in Facts(a) : \A p \in obs \cup a.mine : ~SameFingerprint(o, p)}

(* Mutant: one counter is not summed over the streams.                     *)
PlusWithoutSkips(m, n) == [seen |-> m.seen + n.seen,
                           created |-> m.created + n.created,
                           skipped |-> m.skipped]

Plus(m, n) == [seen |-> m.seen + n.seen, created |-> m.created + n.created,
               skipped |-> m.skipped + n.skipped]

-----------------------------------------------------------------------------
Init ==
    /\ now = 1
    /\ table \in [Streams -> SUBSET [pk : Pks, ver : {1}]]
    /\ timed = Timed0
    /\ present = Streams
    /\ hwm = [s \in Streams |-> 0]
    /\ stamp = [s \in Streams |-> "none"]
    /\ obs = {}
    /\ runs = [k \in Keys |-> NoRun]
    /\ health = "configured"
    /\ held = [c \in Conns |-> 0]
    /\ aborted = [c \in Conns |-> 0]
    /\ pc = [c \in Conns |-> "idle"]
    /\ att = [c \in Conns |-> Idle]

Goto(c, label) == pc' = [pc EXCEPT ![c] = label]

(* trigger_sync and sync_due_source load the source and the streams to     *)
(* read; the ORM objects keep these values until the attempt ends.         *)
LoadSource(c) ==
    /\ pc[c] = "idle"
    /\ held[c] <= MaxLeft
    /\ \E k \in Keys, sel \in Selections, inc \in Modes :
        /\ sel \subseteq present
        /\ att' = [att EXCEPT ![c] =
              [Idle EXCEPT !.key = k, !.incremental = inc, !.sel = sel,
                           !.todo = sel, !.timed = timed, !.loaded = hwm,
                           !.mark = hwm, !.health0 = health, !.health = health]]
    /\ Goto(c, "lookup")
    /\ UNCHANGED <<source, catalog, committed, held, aborted>>

End(c) == /\ Goto(c, "idle")
          /\ att' = [att EXCEPT ![c] = Idle]

(* run_sync: a key that already has a run is answered with that run.       *)
FindExisting(c) ==
    /\ pc[c] = "lookup"
    /\ IF runs[att[c].key].status # "none"
       THEN End(c)
       ELSE Goto(c, "insert") /\ UNCHANGED att
    /\ UNCHANGED <<source, catalog, committed, held, aborted>>

(* The unique (source_id, idempotency_key): an insert waits for another    *)
(* transaction's uncommitted run of the same key.                          *)
KeyIsFree(c) ==
    \A d \in Conns \ {c} : pc[d] \in InTransaction => att[d].key # att[c].key

InsertRun(c) ==
    /\ pc[c] = "insert"
    /\ KeyIsFree(c)
    /\ runs[att[c].key].status = "none"
    /\ Cardinality(att[c].sel) = 1 => att[c].sel \subseteq present
    /\ Goto(c, "trylock")
    /\ UNCHANGED <<source, catalog, committed, held, aborted, att>>

(* The key was taken since FindExisting: IntegrityError, the request fails *)
(* with it.                                                                *)
InsertCollides(c) ==
    /\ pc[c] = "insert"
    /\ KeyIsFree(c)
    /\ runs[att[c].key].status # "none"
    /\ Goto(c, "refused")
    /\ UNCHANGED <<source, catalog, committed, held, aborted, att>>

(* The one stream of the run was deleted since it was loaded.              *)
InsertOrphaned(c) ==
    /\ pc[c] = "insert"
    /\ KeyIsFree(c)
    /\ runs[att[c].key].status = "none"
    /\ Cardinality(att[c].sel) = 1 /\ ~(att[c].sel \subseteq present)
    /\ End(c)
    /\ UNCHANGED <<source, catalog, committed, held, aborted>>

Refuse(c) ==
    /\ pc[c] = "refused"
    /\ End(c)
    /\ UNCHANGED <<source, catalog, committed, held, aborted>>

-----------------------------------------------------------------------------
(* Mutant: the lock's answer is not looked at.                             *)
LockUnchecked(c) == pc[c] = "trylock"

(* pg_try_advisory_lock is granted to the session that already holds the   *)
(* lock as well: the lock counts.                                          *)
LockAvailable(c) == \A d \in Conns \ {c} : held[d] = 0

AcquireLock(c) ==
    /\ pc[c] = "trylock"
    /\ LockAvailable(c)
    /\ held' = [held EXCEPT ![c] = @ + 1]
    /\ att' = [att EXCEPT ![c].status = "running"]
    /\ Goto(c, "connect")
    /\ UNCHANGED <<source, catalog, committed, aborted>>

(* Mutant: pg_advisory_lock, which queues instead of answering.            *)
SkipRunQueues(c) == pc[c] = "trylock" /\ FALSE /\ UNCHANGED vars

(* Mutant: the run's error code is stored as its status.                   *)
SkipRunByCode(c) ==
    /\ pc[c] = "trylock"
    /\ ~LockAvailable(c)
    /\ att' = [att EXCEPT ![c].status = "already_running"]
    /\ Goto(c, "commit")
    /\ UNCHANGED <<source, catalog, committed, held, aborted>>

(* SyncAlreadyRunningError: the run is recorded as skipped.                *)
SkipRun(c) ==
    /\ pc[c] = "trylock"
    /\ ~LockAvailable(c)
    /\ att' = [att EXCEPT ![c].status = "skipped"]
    /\ Goto(c, "commit")
    /\ UNCHANGED <<source, catalog, committed, held, aborted>>

OpenConnector(c) ==
    /\ pc[c] = "connect"
    /\ Goto(c, "select")
    /\ UNCHANGED <<source, catalog, committed, held, aborted, att>>

(* _execute: the connection itself failed, so no stream ran.               *)
ConnectionFails(c) ==
    /\ "connect" \in Events
    /\ pc[c] = "connect"
    /\ att' = [att EXCEPT ![c].status = "failed", ![c].health = "error"]
    /\ Goto(c, "flush")
    /\ UNCHANGED <<source, catalog, committed, held, aborted>>

(* Mutant: the unlock is not in a finally.                                 *)
UnexpectedKeepsLock(c) ==
    /\ "unexpected" \in Events
    /\ pc[c] \in {"connect", "ingest"}
    /\ End(c)
    /\ UNCHANGED <<source, catalog, committed, held, aborted>>

(* An exception of the attempt's own, neither a ConnectorError nor an      *)
(* error of the database (a credential that cannot be decrypted, the       *)
(* cancellation of the scheduler at shutdown), leaves by the lock's        *)
(* finally, and the attempt is rolled back after that.                     *)
Unexpected(c) ==
    /\ "unexpected" \in Events
    /\ pc[c] \in {"connect", "ingest"}
    /\ held' = [held EXCEPT ![c] = @ - 1]
    /\ End(c)
    /\ UNCHANGED <<source, catalog, committed, aborted>>

-----------------------------------------------------------------------------
(* sync_stream: the next stream is opened and its rows fetched, one        *)
(* statement, one snapshot of the customer's table.                        *)
OpenStream(c) ==
    LET a == att[c] IN
    /\ pc[c] = "select"
    /\ \E s \in a.todo :
        /\ \A u \in a.todo : s <= u
        /\ att' = [att EXCEPT ![c] =
              [a EXCEPT !.cur = s, !.feed = Fetched(a, s), !.times = {},
                        !.part = NoCounts, !.todo = a.todo \ {s}]]
    /\ Goto(c, "ingest")
    /\ UNCHANGED <<source, catalog, committed, held, aborted>>

(* Mutant: rows other attempts have not committed yet are not waited for.  *)
NothingPendingUnwaited(c) == pc[c] = "ingest"

(* flush: rows are read into the buffer and inserted; an insert waits for  *)
(* another transaction's uncommitted row with the same fingerprint.        *)
NothingPending(c) ==
    \A d \in Conns \ {c} : \A o \in Facts(att[c]), p \in att[d].mine :
        ~SameFingerprint(o, p)

FlushBatch(c) ==
    LET a == att[c]
        seen == Cardinality(Facts(a))
        created == Cardinality(NewFacts(a))
    IN  /\ pc[c] = "ingest"
        /\ a.feed # {}
        /\ NothingPending(c)
        /\ Batch(a) \cap Unstorable = {}
        /\ NewFacts(a) # {} => a.cur \in present
        /\ att' = [att EXCEPT ![c] =
              [a EXCEPT !.feed = a.feed \ Batch(a),
                        !.mine = a.mine \cup NewFacts(a),
                        !.times = a.times \cup {o.at : o \in Facts(a)},
                        !.part = Plus(a.part, [seen |-> seen, created |-> created,
                                               skipped |-> seen - created])]]
        /\ UNCHANGED <<source, catalog, committed, held, aborted, pc>>

(* The database refused a statement under the lock: its transaction is     *)
(* aborted, so the unlock in the lock's finally fails too, and the         *)
(* connection goes back to the pool with the lock.                         *)
Aborts(c) ==
    /\ aborted' = [aborted EXCEPT ![c] = @ + 1]
    /\ End(c)
    /\ UNCHANGED <<source, catalog, committed, held>>

(* A row of the batch cannot be stored. The others need not be waited for: *)
(* the row may come before them.                                           *)
FlushRejected(c) ==
    /\ pc[c] = "ingest"
    /\ Batch(att[c]) \cap Unstorable # {}
    /\ Aborts(c)

(* The stream was deleted under the attempt: IntegrityError.               *)
FlushOrphaned(c) ==
    /\ pc[c] = "ingest"
    /\ att[c].feed # {}
    /\ NothingPending(c)
    /\ NewFacts(att[c]) # {} /\ att[c].cur \notin present
    /\ Aborts(c)

AfterStream(c) == IF att[c].todo = {} THEN "flush" ELSE "select"

(* The mark moves to the greatest event time seen if that is later than    *)
(* the mark in memory.                                                     *)
FinishStream(c) ==
    LET a == att[c] IN
    /\ pc[c] = "ingest"
    /\ a.feed = {}
    /\ \E t \in a.times \cup {a.mark[a.cur]} :
        /\ \A u \in a.times \cup {a.mark[a.cur]} : u <= t
        /\ att' = [att EXCEPT ![c] =
              [a EXCEPT !.mark[a.cur] = t,
                        !.total = Plus(a.total, a.part),
                        !.ok = a.ok \cup {a.cur}]]
    /\ Goto(c, AfterStream(c))
    /\ UNCHANGED <<source, catalog, committed, held, aborted>>

(* A ConnectorError while rows are read: the stream's result is replaced   *)
(* by one with zero counts, the batches already inserted stay.             *)
StreamFails(c) ==
    LET a == att[c] IN
    /\ "stream" \in Events
    /\ pc[c] = "ingest"
    /\ att' = [att EXCEPT ![c] =
          [a EXCEPT !.bad = a.bad \cup {a.cur}, !.feed = {}]]
    /\ Goto(c, AfterStream(c))
    /\ UNCHANGED <<source, catalog, committed, held, aborted>>

-----------------------------------------------------------------------------
(* _finalise, then the flush at the end of _execute: UPDATEs of the run,   *)
(* the source and every stream read to its end. They wait for a            *)
(* transaction that updated the source row and has not committed yet.      *)
SourceRowFree(c) ==
    \A d \in Conns \ {c} : ~(pc[d] = "commit" /\ att[d].status # "skipped")

AllFailed(a) == a.bad # {} /\ a.ok = {}

FlushRun(c) ==
    LET a == att[c]
        failed == a.status = "failed" \/ AllFailed(a)
    IN  /\ pc[c] = "flush"
        /\ SourceRowFree(c)
        /\ a.ok \subseteq present
        /\ att' = [att EXCEPT ![c] =
              [a EXCEPT !.status = IF failed THEN "failed" ELSE "completed",
                        !.health = IF failed THEN "error" ELSE "connected"]]
        /\ Goto(c, "unlock")
        /\ UNCHANGED <<source, catalog, committed, held, aborted>>

(* An UPDATE of a stream that no longer exists matches no row and raises;  *)
(* the session is rolled back and refuses the unlock as well.              *)
FlushStale(c) ==
    /\ pc[c] = "flush"
    /\ SourceRowFree(c)
    /\ ~(att[c].ok \subseteq present)
    /\ Aborts(c)

(* source_sync_lock's finally: the lock is released before the caller      *)
(* commits.                                                                *)
ReleaseLock(c) ==
    /\ pc[c] = "unlock"
    /\ held' = [held EXCEPT ![c] = @ - 1]
    /\ Goto(c, "commit")
    /\ UNCHANGED <<source, catalog, committed, aborted, att>>

(* Mutant: every selected stream is stamped, read to its end or not.       *)
StampedAll(a) == a.sel

(* last_synced_at is set at the end of sync_stream.                        *)
Stamped(a) == a.ok

RunRecord(a) ==
    [status |-> a.status, counts |-> a.total,
     partial |-> a.ok # {} /\ a.bad # {},
     only |-> IF Cardinality(a.sel) = 1 THEN a.sel ELSE {}]

(* The caller's db.commit(). The ORM writes an attribute only if its value *)
(* differs from the one it loaded.                                         *)
Commit(c) ==
    LET a == att[c] IN
    /\ pc[c] = "commit"
    /\ runs' = [runs EXCEPT ![a.key] = RunRecord(a)]
    /\ obs' = obs \cup a.mine
    /\ hwm' = [s \in Streams |->
                  IF a.mark[s] # a.loaded[s] THEN a.mark[s] ELSE hwm[s]]
    /\ stamp' = [s \in Streams |-> IF s \in Stamped(a) THEN a.key ELSE stamp[s]]
    /\ health' = IF a.health # a.health0 THEN a.health ELSE health
    /\ End(c)
    /\ UNCHANGED <<source, catalog, held, aborted>>

-----------------------------------------------------------------------------
(* The process or its connection dies: PostgreSQL rolls the transaction    *)
(* back and drops the session's locks.                                     *)
Crash(c) ==
    /\ "crash" \in Events
    /\ pc[c] # "idle"
    /\ held' = [held EXCEPT ![c] = 0]
    /\ aborted' = [aborted EXCEPT ![c] = 0]
    /\ End(c)
    /\ UNCHANGED <<source, catalog, committed>>

(* pool_recycle closes an idle connection, and its session's locks go too. *)
Recycle(c) ==
    /\ pc[c] = "idle"
    /\ held[c] > 0
    /\ held' = [held EXCEPT ![c] = 0]
    /\ aborted' = [aborted EXCEPT ![c] = 0]
    /\ UNCHANGED <<source, catalog, committed, pc, att>>

(* delete_stream and its cascades. It waits for every transaction that     *)
(* refers to the stream's row: a one-stream run, an inserted observation,  *)
(* an UPDATE.                                                              *)
RefersTo(d, s) ==
    \/ pc[d] \in InTransaction /\ att[d].sel = {s}
    \/ \E o \in att[d].mine : o.stream = s
    \/ pc[d] \in {"unlock", "commit"} /\ s \in att[d].ok

(* Mutant: the observations do not go with their stream.                   *)
DeleteStreamKeepingObservations(s) ==
    /\ "delete" \in Events
    /\ s \in present
    /\ \A d \in Conns : ~RefersTo(d, s)
    /\ present' = present \ {s}
    /\ runs' = [k \in Keys |-> IF runs[k].only = {s} THEN NoRun ELSE runs[k]]
    /\ hwm' = [hwm EXCEPT ![s] = 0]
    /\ stamp' = [stamp EXCEPT ![s] = "none"]
    /\ UNCHANGED <<source, timed, obs, health, held, aborted, pc, att>>

DeleteStream(s) ==
    /\ "delete" \in Events
    /\ s \in present
    /\ \A d \in Conns : ~RefersTo(d, s)
    /\ present' = present \ {s}
    /\ obs' = {o \in obs : o.stream # s}
    /\ runs' = [k \in Keys |-> IF runs[k].only = {s} THEN NoRun ELSE runs[k]]
    /\ hwm' = [hwm EXCEPT ![s] = 0]
    /\ stamp' = [stamp EXCEPT ![s] = "none"]
    /\ UNCHANGED <<source, timed, health, held, aborted, pc, att>>

(* update_stream gives a stream an event-time column or takes it away; the *)
(* mark stays.                                                             *)
RetimeStream(s) ==
    /\ "retime" \in Events
    /\ s \in present
    /\ \A d \in Conns : ~(pc[d] \in {"unlock", "commit"} /\ s \in att[d].ok)
    /\ timed' = IF s \in timed THEN timed \ {s} ELSE timed \cup {s}
    /\ UNCHANGED <<source, present, committed, held, aborted, pc, att>>

-----------------------------------------------------------------------------
(* The customer's side. A row is written with the current time as its      *)
(* event time; "late" lets it carry an earlier one.                        *)
Tick == /\ now < MaxTime
        /\ now' = now + 1
        /\ UNCHANGED <<table, catalog, committed, held, aborted, pc, att>>

SourceWrites(s, pk) ==
    /\ "write" \in Events
    /\ \E ver \in IF "late" \in Events THEN 1 .. now ELSE {now} :
        table' = [table EXCEPT ![s] =
              {r \in @ : r.pk # pk} \cup {[pk |-> pk, ver |-> ver]}]
    /\ UNCHANGED <<now, catalog, committed, held, aborted, pc, att>>

SourceDeletes(s, pk) ==
    /\ "remove" \in Events
    /\ \E r \in table[s] : r.pk = pk
    /\ table' = [table EXCEPT ![s] = {r \in @ : r.pk # pk}]
    /\ UNCHANGED <<now, catalog, committed, held, aborted, pc, att>>

-----------------------------------------------------------------------------
(* What an attempt does by itself, once begun.                             *)
Insert(c) == InsertRun(c) \/ InsertCollides(c) \/ InsertOrphaned(c)

Proceed(c) ==
    \/ FindExisting(c) \/ Insert(c) \/ Refuse(c)
    \/ AcquireLock(c) \/ SkipRun(c) \/ OpenConnector(c)
    \/ OpenStream(c) \/ FinishStream(c)
    \/ FlushBatch(c) \/ FlushRejected(c) \/ FlushOrphaned(c)
    \/ FlushRun(c) \/ FlushStale(c) \/ ReleaseLock(c) \/ Commit(c)

Attempt(c) == LoadSource(c) \/ Proceed(c)

Failure(c) ==
    \/ ConnectionFails(c) \/ Unexpected(c) \/ StreamFails(c)
    \/ Crash(c) \/ Recycle(c)

Operator(s) == DeleteStream(s) \/ RetimeStream(s)

Customer == \/ Tick
            \/ \E s \in Streams, pk \in Pks :
                  SourceWrites(s, pk) \/ SourceDeletes(s, pk)

Next == \/ \E c \in Conns : Attempt(c) \/ Failure(c)
        \/ \E s \in Streams : Operator(s)
        \/ Customer

Spec == Init /\ [][Next]_vars

(* An attempt is a coroutine of a running event loop: it takes its next    *)
(* step unless a database lock keeps it waiting. An INSERT that waits for  *)
(* a transaction is woken when that transaction ends, so it is not passed  *)
(* over for ever by attempts that take the same key and roll back. Nothing *)
(* obliges anyone to start an attempt, a fault to happen or the customer   *)
(* to write.                                                               *)
FairSpec ==
    /\ Spec
    /\ \A c \in Conns : WF_vars(Proceed(c)) /\ SF_vars(Insert(c))

=============================================================================
