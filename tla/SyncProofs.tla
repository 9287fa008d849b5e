----------------------------- MODULE SyncProofs -----------------------------
(***************************************************************************)
(* Proofs about Sync, for any number of attempts, keys, streams and rows.  *)
(***************************************************************************)
EXTENDS SyncSafety, FiniteSetTheorems, TLAPS

(* Rows come in finite sets, so that the counters are numbers.             *)
FiniteRows ==
    /\ \A s \in Streams : IsFiniteSet(table[s])
    /\ \A c \in Conns : IsFiniteSet(att[c].feed)

LEMMA IdleType == Idle \in Attempts
  BY ConstantsAssumption DEF Idle, Attempts, NoCounts, Counts, SourceStatus, SyncStatus

LEMMA FirstSubset ==
  ASSUME NEW n, NEW S, NEW b
  PROVE  First(n, S, b) \subseteq S
  BY DEF First

LEMMA InitType == Init => TypeOK
  <1> SUFFICES ASSUME Init PROVE TypeOK
    OBVIOUS
  <1>1. NoRun \in SyncRun
    BY DEF NoRun, SyncRun, NoCounts, Counts
  <1>2. table \in [Streams -> SUBSET Row]
    BY ConstantsAssumption DEF Init, Row, Times
  <1>3. QED
    BY <1>1, <1>2, IdleType, ConstantsAssumption
    DEF Init, TypeOK, Times, SourceStatus, Labels, Row

(* The attempt's record, updated by any step, stays an attempt's record.   *)
LEMMA EndType ==
  ASSUME TypeOK, NEW c \in Conns, End(c)
  PROVE  att' \in [Conns -> Attempts] /\ pc' \in [Conns -> Labels]
  BY IdleType DEF TypeOK, End, Goto, Labels

LEMMA LoadType ==
  ASSUME TypeOK, NEW c \in Conns, LoadSource(c)
  PROVE  TypeOK'
  <1>1. PICK k \in Keys, sel \in Selections, inc \in Modes :
          att' = [att EXCEPT ![c] =
              [Idle EXCEPT !.key = k, !.incremental = inc, !.sel = sel,
                           !.todo = sel, !.timed = timed, !.loaded = hwm,
                           !.mark = hwm, !.health0 = health, !.health = health]]
    BY DEF LoadSource
  <1>2. [Idle EXCEPT !.key = k, !.incremental = inc, !.sel = sel,
                     !.todo = sel, !.timed = timed, !.loaded = hwm,
                     !.mark = hwm, !.health0 = health, !.health = health] \in Attempts
    BY IdleType, ConstantsAssumption DEF TypeOK, Attempts
  <1>3. QED
    BY <1>1, <1>2 DEF TypeOK, LoadSource, Goto, Labels, source, catalog, committed

-----------------------------------------------------------------------------
(* Finite sets of rows give finite sets of observations.                   *)
LEMMA FactsFinite ==
  ASSUME NEW a, IsFiniteSet(a.feed)
  PROVE  /\ IsFiniteSet(Facts(a))
         /\ Cardinality(Facts(a)) \in Nat
         /\ Cardinality(NewFacts(a)) \in Nat
         /\ Cardinality(NewFacts(a)) <= Cardinality(Facts(a))
  <1> DEFINE f == [r \in Batch(a) |-> Observe(a, r)]
  <1>1. IsFiniteSet(Batch(a))
    BY FirstSubset, FS_Subset DEF Batch
  <1>2. f \in Surjection(Batch(a), Facts(a))
    BY DEF Surjection, Facts
  <1>3. IsFiniteSet(Facts(a))
    BY <1>1, <1>2, FS_Surjection
  <1>4. NewFacts(a) \in SUBSET Facts(a)
    BY DEF NewFacts
  <1>5. QED
    BY <1>3, <1>4, FS_Subset, FS_CardinalityType

LEMMA FactsType ==
  ASSUME TypeOK, NEW c \in Conns, pc[c] = "ingest", att[c].cur \in Streams,
         att[c].key \in Keys
  PROVE  Facts(att[c]) \subseteq Observation
  <1> DEFINE a == att[c]
  <1>1. ASSUME NEW r \in Batch(a)
        PROVE  Observe(a, r) \in Observation
    <2>1. r \in Row
      BY <1>1, FirstSubset DEF Batch, TypeOK, Attempts
    <2>2. now \in Times /\ (a.cur \in a.timed) \in BOOLEAN
      BY DEF TypeOK
    <2>3. QED
      BY <2>1, <2>2 DEF Observe, Observation, Row
  <1>2. QED
    BY <1>1 DEF Facts

(* An attempt past its load has a key, one that is reading has a stream.   *)
Underway ==
    \A c \in Conns :
        /\ pc[c] # "idle" => att[c].key \in Keys
        /\ pc[c] = "ingest" => att[c].cur \in Streams

TypeInv == TypeOK /\ FiniteRows /\ Underway

LEMMA InitTypeInv == Init => TypeInv
  <1> SUFFICES ASSUME Init PROVE TypeInv
    OBVIOUS
  <1>1. IsFiniteSet([pk : Pks, ver : {1}])
    <2> DEFINE R == [pk : Pks, ver : {1}]
               f == [p \in Pks |-> [pk |-> p, ver |-> 1]]
    <2>1. f \in Surjection(Pks, R)
      BY DEF Surjection
    <2>2. QED
      BY <2>1, FS_Surjection, ConstantsAssumption
  <1>2. \A s \in Streams : IsFiniteSet(table[s])
    BY <1>1, FS_Subset DEF Init
  <1>3. \A c \in Conns : IsFiniteSet(att[c].feed) /\ pc[c] = "idle"
    BY FS_EmptySet DEF Init, Idle
  <1>4. QED
    BY <1>2, <1>3, InitType DEF TypeInv, FiniteRows, Underway

(* A step of c leaves the invariant alone if it leaves the tables alone    *)
(* and c's own record is well formed afterwards.                           *)
LEMMA LocalStep ==
  ASSUME TypeInv, NEW c \in Conns, NEW a, NEW label,
         att' = [att EXCEPT ![c] = a], pc' = [pc EXCEPT ![c] = label],
         IsFiniteSet(a.feed),
         label # "idle" => a.key \in Keys,
         label = "ingest" => a.cur \in Streams,
         UNCHANGED table
  PROVE  FiniteRows' /\ Underway'
  <1>1. \A d \in Conns : att'[d] = IF d = c THEN a ELSE att[d]
    BY DEF TypeInv, TypeOK
  <1>2. \A d \in Conns : pc'[d] = IF d = c THEN label ELSE pc[d]
    BY DEF TypeInv, TypeOK
  <1>3. QED
    BY <1>1, <1>2 DEF TypeInv, FiniteRows, Underway

LEMMA IdleStep ==
  ASSUME TypeInv, NEW c \in Conns, End(c), UNCHANGED table
  PROVE  /\ att' \in [Conns -> Attempts] /\ pc' \in [Conns -> Labels]
         /\ FiniteRows' /\ Underway'
  <1>1. att' = [att EXCEPT ![c] = Idle] /\ pc' = [pc EXCEPT ![c] = "idle"]
    BY DEF End, Goto
  <1>2. IsFiniteSet(Idle.feed)
    BY FS_EmptySet DEF Idle
  <1>3. FiniteRows' /\ Underway'
    BY <1>1, <1>2, LocalStep
  <1>4. QED
    BY <1>3, EndType DEF TypeInv

(* Steps that only move the attempt on.                                    *)
LEMMA MoveStep ==
  ASSUME TypeInv, NEW c \in Conns, NEW label \in Labels, Goto(c, label),
         pc[c] # "idle", label # "ingest", UNCHANGED <<att, table>>
  PROVE  pc' \in [Conns -> Labels] /\ FiniteRows' /\ Underway'
  BY DEF TypeInv, TypeOK, Goto, FiniteRows, Underway

(* Steps that update the attempt's record and move it on.                  *)
LEMMA UpdateStep ==
  ASSUME TypeInv, NEW c \in Conns, NEW a \in Attempts, NEW label \in Labels,
         att' = [att EXCEPT ![c] = a], Goto(c, label),
         IsFiniteSet(a.feed), a.key \in Keys,
         label = "ingest" => a.cur \in Streams, UNCHANGED table
  PROVE  /\ att' \in [Conns -> Attempts] /\ pc' \in [Conns -> Labels]
         /\ FiniteRows' /\ Underway'
  BY LocalStep DEF TypeInv, TypeOK, Goto

LEMMA PlusType ==
  ASSUME NEW m \in Counts, NEW n \in Counts
  PROVE  Plus(m, n) \in Counts
  BY DEF Plus, Counts

(* The lock's holder, and nobody else, is between acquiring and releasing. *)
LockInv ==
    /\ \A c \in Conns : pc[c] \in Locked => held[c] > 0
    /\ \A c, d \in Conns : held[c] > 0 /\ held[d] > 0 => c = d

LEMMA TypeStep == TypeInv /\ LockInv /\ [Next]_vars => TypeInv'
  <1> SUFFICES ASSUME TypeInv, LockInv, [Next]_vars PROVE TypeInv'
    OBVIOUS
  <1> USE DEF source, catalog, committed
  <1>0. TypeOK /\ FiniteRows /\ Underway
    BY DEF TypeInv
  <1>1. ASSUME NEW c \in Conns, LoadSource(c) PROVE TypeInv'
    <2>1. PICK k \in Keys, sel \in Selections, inc \in Modes :
            att' = [att EXCEPT ![c] =
                [Idle EXCEPT !.key = k, !.incremental = inc, !.sel = sel,
                             !.todo = sel, !.timed = timed, !.loaded = hwm,
                             !.mark = hwm, !.health0 = health, !.health = health]]
      BY <1>1 DEF LoadSource
    <2> DEFINE a == [Idle EXCEPT !.key = k, !.incremental = inc, !.sel = sel,
                             !.todo = sel, !.timed = timed, !.loaded = hwm,
                             !.mark = hwm, !.health0 = health, !.health = health]
    <2>2. a.key = k /\ a.feed = {}
      BY DEF Idle
    <2>3. IsFiniteSet(a.feed)
      BY <2>2, FS_EmptySet
    <2>4. FiniteRows' /\ Underway'
      <3> HIDE DEF a
      <3>1. QED
        BY <2>1, <2>2, <2>3, <1>1, LocalStep DEF LoadSource, Goto, a
    <2>5. QED
      BY <2>4, <1>1, <1>0, LoadType DEF TypeInv
  <1>2. ASSUME NEW c \in Conns, FindExisting(c) PROVE TypeInv'
    <2>1. CASE runs[att[c].key].status # "none"
      BY <1>2, <2>1, <1>0, IdleStep DEF FindExisting, TypeInv, TypeOK
    <2>2. CASE runs[att[c].key].status = "none"
      BY <1>2, <2>2, <1>0, MoveStep DEF FindExisting, TypeInv, TypeOK, Labels
    <2>3. QED
      BY <2>1, <2>2
  <1>3. ASSUME NEW c \in Conns, Insert(c) \/ Refuse(c) PROVE TypeInv'
    <2>1. CASE InsertRun(c)
      BY <2>1, <1>0, MoveStep DEF InsertRun, TypeInv, TypeOK, Labels, InTransaction
    <2>2. CASE InsertCollides(c)
      BY <2>2, <1>0, MoveStep DEF InsertCollides, TypeInv, TypeOK, Labels
    <2>3. CASE InsertOrphaned(c) \/ Refuse(c)
      BY <2>3, <1>0, IdleStep DEF InsertOrphaned, Refuse, TypeInv, TypeOK
    <2>4. QED
      BY <1>3, <2>1, <2>2, <2>3 DEF Insert
  <1>4. ASSUME NEW c \in Conns, AcquireLock(c) \/ SkipRun(c) PROVE TypeInv'
    <2> DEFINE st == IF AcquireLock(c) THEN "running" ELSE "skipped"
               a == [att[c] EXCEPT !.status = st]
               label == IF AcquireLock(c) THEN "connect" ELSE "commit"
    <2>1. att' = [att EXCEPT ![c] = a] /\ Goto(c, label)
      BY <1>4, <1>0 DEF AcquireLock, SkipRun
    <2>2. a \in Attempts /\ a.key \in Keys /\ IsFiniteSet(a.feed)
      <3>1. att[c] \in Attempts /\ att[c].key \in Keys /\ IsFiniteSet(att[c].feed)
        BY <1>4, <1>0 DEF TypeOK, Underway, FiniteRows, AcquireLock, SkipRun
      <3>2. st \in SyncStatus
        BY DEF SyncStatus
      <3> HIDE DEF st
      <3>3. QED
        BY <3>1, <3>2 DEF Attempts
    <2>3. label \in Labels /\ label # "ingest"
      BY DEF Labels, InTransaction, Locked
    <2>4. /\ att' \in [Conns -> Attempts] /\ pc' \in [Conns -> Labels]
          /\ FiniteRows' /\ Underway'
      <3> HIDE DEF a, label
      <3>1. QED
        BY <2>1, <2>2, <2>3, <1>4, UpdateStep DEF AcquireLock, SkipRun
    <2>5. held' \in [Conns -> Nat]
      BY <1>4, <1>0 DEF TypeOK, AcquireLock, SkipRun
    <2>6. QED
      BY <2>4, <2>5, <1>4, <1>0 DEF TypeInv, TypeOK, AcquireLock, SkipRun
  <1>5. ASSUME NEW c \in Conns, OpenConnector(c) \/ ReleaseLock(c)
        PROVE  TypeInv'
    <2> DEFINE label == IF OpenConnector(c) THEN "select" ELSE "commit"
    <2>1. Goto(c, label) /\ label \in Labels /\ label # "ingest" /\ pc[c] # "idle"
      BY <1>5 DEF OpenConnector, ReleaseLock, Labels, InTransaction, Locked
    <2>2. pc' \in [Conns -> Labels] /\ FiniteRows' /\ Underway'
      <3> HIDE DEF label
      <3>1. QED
        BY <2>1, <1>5, MoveStep DEF OpenConnector, ReleaseLock
    <2>3. held' \in [Conns -> Nat]
      BY <1>5, <1>0 DEF TypeOK, OpenConnector, ReleaseLock, LockInv, Locked
    <2>4. QED
      BY <2>2, <2>3, <1>5, <1>0 DEF TypeInv, TypeOK, OpenConnector, ReleaseLock
  <1>6. ASSUME NEW c \in Conns, ConnectionFails(c) PROVE TypeInv'
    <2> DEFINE a == [att[c] EXCEPT !.status = "failed", !.health = "error"]
    <2>1. att' = [att EXCEPT ![c] = a] /\ Goto(c, "flush")
      BY <1>6, <1>0 DEF ConnectionFails, TypeOK, Attempts
    <2>2. a \in Attempts /\ a.key \in Keys /\ IsFiniteSet(a.feed)
      <3>1. att[c] \in Attempts /\ att[c].key \in Keys /\ IsFiniteSet(att[c].feed)
        BY <1>6, <1>0 DEF TypeOK, Underway, FiniteRows, ConnectionFails
      <3>2. "failed" \in SyncStatus /\ "error" \in SourceStatus
        BY DEF SyncStatus, SourceStatus
      <3>3. QED
        BY <3>1, <3>2 DEF Attempts
    <2>3. "flush" \in Labels
      BY DEF Labels, InTransaction, Locked
    <2>4. /\ att' \in [Conns -> Attempts] /\ pc' \in [Conns -> Labels]
          /\ FiniteRows' /\ Underway'
      <3> HIDE DEF a
      <3>1. QED
        BY <2>1, <2>2, <2>3, <1>6, UpdateStep DEF ConnectionFails
    <2>5. QED
      BY <2>4, <1>6, <1>0 DEF TypeInv, TypeOK, ConnectionFails
  <1>7. ASSUME NEW c \in Conns,
               FlushRejected(c) \/ FlushOrphaned(c) \/ FlushStale(c) \/ Unexpected(c) \/ Crash(c)
        PROVE  TypeInv'
    <2>1. End(c) /\ UNCHANGED <<source, catalog, committed>>
      BY <1>7 DEF FlushRejected, FlushOrphaned, Aborts, FlushStale, Unexpected, Crash
    <2>2. held' \in [Conns -> Nat]
      BY <1>7, <1>0 DEF TypeOK, FlushRejected, FlushOrphaned, Aborts, FlushStale, Unexpected, Crash,
                        LockInv, Locked
    <2>3. aborted' \in [Conns -> Nat]
      BY <1>7, <1>0 DEF TypeOK, FlushRejected, FlushOrphaned, FlushStale, Aborts,
                        Unexpected, Crash
    <2>4. QED
      BY <2>1, <2>2, <2>3, <1>0, IdleStep DEF TypeInv, TypeOK
  <1>8. ASSUME NEW c \in Conns, OpenStream(c) PROVE TypeInv'
    <2>1. PICK s \in att[c].todo :
            att' = [att EXCEPT ![c] =
              [att[c] EXCEPT !.cur = s, !.feed = Fetched(att[c], s),
                        !.times = {}, !.part = NoCounts,
                        !.todo = att[c].todo \ {s}]]
      BY <1>8 DEF OpenStream
    <2> DEFINE a == [att[c] EXCEPT !.cur = s, !.feed = Fetched(att[c], s),
                        !.times = {}, !.part = NoCounts,
                        !.todo = att[c].todo \ {s}]
    <2>2. Fetched(att[c], s) \subseteq table[s] /\ s \in Streams
      BY FirstSubset, <1>0 DEF Fetched, TypeOK, Attempts
    <2>3. IsFiniteSet(Fetched(att[c], s))
      BY <2>2, <1>0, FS_Subset DEF FiniteRows
    <2>4. Fetched(att[c], s) \subseteq Row
      BY <2>2, <1>0 DEF TypeOK
    <2>5. a \in Attempts /\ a.key \in Keys /\ IsFiniteSet(a.feed) /\ a.cur \in Streams
      <3>1. att[c] \in Attempts /\ att[c].key \in Keys
        BY <1>8, <1>0 DEF TypeOK, Underway, OpenStream
      <3>2. NoCounts \in Counts
        BY DEF NoCounts, Counts
      <3>3. QED
        BY <3>1, <3>2, <2>2, <2>3, <2>4 DEF Attempts
    <2>6. "ingest" \in Labels /\ Goto(c, "ingest")
      BY <1>8 DEF Labels, InTransaction, Locked, OpenStream
    <2>7. /\ att' \in [Conns -> Attempts] /\ pc' \in [Conns -> Labels]
          /\ FiniteRows' /\ Underway'
      <3>1. att' = [att EXCEPT ![c] = a]
        BY <2>1, <1>0 DEF TypeOK, Attempts
      <3> HIDE DEF a
      <3>2. QED
        BY <3>1, <2>5, <2>6, <1>8, UpdateStep DEF OpenStream
    <2>8. QED
      BY <2>7, <1>8, <1>0 DEF TypeInv, TypeOK, OpenStream
  <1>9. ASSUME NEW c \in Conns, FlushBatch(c) PROVE TypeInv'
    <2> DEFINE n == [seen |-> Cardinality(Facts(att[c])),
                     created |-> Cardinality(NewFacts(att[c])),
                     skipped |-> Cardinality(Facts(att[c]))
                                   - Cardinality(NewFacts(att[c]))]
               a == [att[c] EXCEPT !.feed = att[c].feed \ Batch(att[c]),
                        !.mine = att[c].mine \cup NewFacts(att[c]),
                        !.times = att[c].times \cup {o.at : o \in Facts(att[c])},
                        !.part = Plus(att[c].part, n)]
    <2>1. att' = [att EXCEPT ![c] = a]
      BY <1>9, <1>0 DEF FlushBatch, TypeOK, Attempts
    <2>2. att[c].key \in Keys /\ att[c].cur \in Streams /\ pc[c] = "ingest"
      BY <1>9, <1>0 DEF FlushBatch, Underway
    <2>3. Facts(att[c]) \subseteq Observation /\ NewFacts(att[c]) \subseteq Observation
      BY <2>2, <1>0, FactsType DEF NewFacts
    <2>4. {o.at : o \in Facts(att[c])} \subseteq Times
      BY <2>3 DEF Observation
    <2>5. n \in Counts
      <3>1. IsFiniteSet(att[c].feed)
        BY <1>0 DEF FiniteRows
      <3>2. QED
        BY <3>1, FactsFinite DEF Counts
    <2>6. IsFiniteSet(att[c].feed \ Batch(att[c]))
      BY <1>0, FS_Difference DEF FiniteRows
    <2>7. a \in Attempts /\ IsFiniteSet(a.feed) /\ a.key \in Keys /\ a.cur \in Streams
      <3> HIDE DEF n
      <3>1. att[c] \in Attempts
        BY <1>0 DEF TypeOK
      <3>2. Plus(att[c].part, n) \in Counts
        BY <2>5, <3>1, PlusType DEF Attempts
      <3>3. QED
        BY <3>1, <3>2, <2>2, <2>3, <2>4, <2>6 DEF Attempts
    <2>8. FiniteRows' /\ Underway' /\ att' \in [Conns -> Attempts]
      <3> HIDE DEF a
      <3>1. \A d \in Conns : att'[d] = IF d = c THEN a ELSE att[d]
        BY <2>1, <1>0 DEF TypeOK
      <3>2. QED
        BY <3>1, <2>1, <2>7, <1>9, <1>0
        DEF FlushBatch, FiniteRows, Underway, TypeOK
    <2>9. QED
      BY <2>8, <1>9, <1>0 DEF TypeInv, TypeOK, FlushBatch
  <1>10. ASSUME NEW c \in Conns, FinishStream(c) PROVE TypeInv'
    <2>1. PICK t \in att[c].times \cup {att[c].mark[att[c].cur]} :
            att' = [att EXCEPT ![c] =
              [att[c] EXCEPT !.mark[att[c].cur] = t,
                        !.total = Plus(att[c].total, att[c].part),
                        !.ok = att[c].ok \cup {att[c].cur}]]
      BY <1>10 DEF FinishStream
    <2> DEFINE a == [att[c] EXCEPT !.mark[att[c].cur] = t,
                        !.total = Plus(att[c].total, att[c].part),
                        !.ok = att[c].ok \cup {att[c].cur}]
    <2>2. att[c] \in Attempts /\ att[c].key \in Keys /\ att[c].cur \in Streams
      BY <1>10, <1>0 DEF TypeOK, Underway, FinishStream
    <2>3. Plus(att[c].total, att[c].part) \in Counts
      BY <2>2, PlusType DEF Attempts
    <2>4. t \in 0 .. MaxTime
      <3>1. att[c].mark[att[c].cur] \in 0 .. MaxTime
        BY <2>2 DEF Attempts
      <3>2. att[c].times \subseteq 1 .. MaxTime
        BY <2>2 DEF Attempts, Times
      <3>3. t \in 1 .. MaxTime => t \in 0 .. MaxTime
        BY ConstantsAssumption
      <3>4. QED
        BY <3>1, <3>2, <3>3
    <2>5. a \in Attempts /\ a.key \in Keys /\ IsFiniteSet(a.feed)
      <3>1. [att[c].mark EXCEPT ![att[c].cur] = t] \in [Streams -> 0 .. MaxTime]
        BY <2>2, <2>4 DEF Attempts
      <3>2. att[c].ok \cup {att[c].cur} \in SUBSET Streams
        BY <2>2 DEF Attempts
      <3>3. a = [att[c] EXCEPT !.mark = [att[c].mark EXCEPT ![att[c].cur] = t],
                               !.total = Plus(att[c].total, att[c].part),
                               !.ok = att[c].ok \cup {att[c].cur}]
        BY <2>2 DEF Attempts
      <3>4. IsFiniteSet(att[c].feed)
        BY <1>0 DEF FiniteRows
      <3> HIDE DEF a
      <3>5. QED
        BY <3>1, <3>2, <3>3, <3>4, <2>2, <2>3 DEF Attempts
    <2>6. /\ Goto(c, AfterStream(c)) /\ AfterStream(c) \in Labels
          /\ AfterStream(c) # "ingest"
      BY <1>10 DEF FinishStream, AfterStream, Labels, InTransaction, Locked
    <2>7. /\ att' \in [Conns -> Attempts] /\ pc' \in [Conns -> Labels]
          /\ FiniteRows' /\ Underway'
      <3>1. att' = [att EXCEPT ![c] = a]
        BY <2>1, <1>0 DEF TypeOK
      <3> HIDE DEF a
      <3>2. QED
        BY <3>1, <2>5, <2>6, <1>10, UpdateStep DEF FinishStream
    <2>8. QED
      BY <2>7, <1>10, <1>0 DEF TypeInv, TypeOK, FinishStream
  <1>11. ASSUME NEW c \in Conns, StreamFails(c) PROVE TypeInv'
    <2> DEFINE a == [att[c] EXCEPT !.bad = att[c].bad \cup {att[c].cur},
                                !.feed = {}]
    <2>1. att' = [att EXCEPT ![c] = a]
      BY <1>11, <1>0 DEF StreamFails, TypeOK
    <2>2. att[c] \in Attempts /\ att[c].key \in Keys /\ att[c].cur \in Streams
      BY <1>11, <1>0 DEF TypeOK, Underway, StreamFails
    <2>3. a \in Attempts /\ a.key \in Keys /\ IsFiniteSet(a.feed)
      BY <2>2, FS_EmptySet DEF Attempts
    <2>4. /\ Goto(c, AfterStream(c)) /\ AfterStream(c) \in Labels
          /\ AfterStream(c) # "ingest"
      BY <1>11 DEF StreamFails, AfterStream, Labels, InTransaction, Locked
    <2>5. /\ att' \in [Conns -> Attempts] /\ pc' \in [Conns -> Labels]
          /\ FiniteRows' /\ Underway'
      <3> HIDE DEF a
      <3>1. QED
        BY <2>1, <2>3, <2>4, <1>11, UpdateStep DEF StreamFails
    <2>6. QED
      BY <2>5, <1>11, <1>0 DEF TypeInv, TypeOK, StreamFails
  <1>12. ASSUME NEW c \in Conns, FlushRun(c) PROVE TypeInv'
    <2> DEFINE failed == att[c].status = "failed" \/ AllFailed(att[c])
               a == [att[c] EXCEPT
                        !.status = IF failed THEN "failed" ELSE "completed",
                        !.health = IF failed THEN "error" ELSE "connected"]
    <2>1. att' = [att EXCEPT ![c] = a] /\ Goto(c, "unlock")
      BY <1>12, <1>0 DEF FlushRun, TypeOK, Attempts
    <2>2. att[c] \in Attempts /\ att[c].key \in Keys
      BY <1>12, <1>0 DEF TypeOK, Underway, FlushRun
    <2>3. a \in Attempts /\ a.key \in Keys /\ IsFiniteSet(a.feed)
      BY <2>2, <1>0 DEF Attempts, SyncStatus, SourceStatus, FiniteRows
    <2>4. "unlock" \in Labels
      BY DEF Labels, InTransaction, Locked
    <2>5. /\ att' \in [Conns -> Attempts] /\ pc' \in [Conns -> Labels]
          /\ FiniteRows' /\ Underway'
      <3> HIDE DEF a
      <3>1. QED
        BY <2>1, <2>3, <2>4, <1>12, UpdateStep DEF FlushRun
    <2>6. QED
      BY <2>5, <1>12, <1>0 DEF TypeInv, TypeOK, FlushRun
  <1>13. ASSUME NEW c \in Conns, Commit(c) PROVE TypeInv'
    <2>1. End(c) /\ UNCHANGED <<source, catalog, held, aborted>>
      BY <1>13 DEF Commit
    <2>2. att[c] \in Attempts /\ att[c].key \in Keys
      BY <1>13, <1>0 DEF TypeOK, Underway, Commit
    <2>3. runs' \in [Keys -> SyncRun]
      <3>1. RunRecord(att[c]) \in SyncRun
        BY <2>2 DEF RunRecord, SyncRun, Attempts
      <3>2. QED
        BY <3>1, <1>13, <1>0 DEF Commit, TypeOK
    <2>4. obs' \subseteq Observation /\ hwm' \in [Streams -> 0 .. MaxTime]
      BY <2>2, <1>13, <1>0 DEF Commit, TypeOK, Attempts
    <2>5. stamp' \in [Streams -> Keys \cup {"none"}] /\ health' \in SourceStatus
      BY <2>2, <1>13, <1>0 DEF Commit, TypeOK, Attempts
    <2>6. QED
      BY <2>1, <2>3, <2>4, <2>5, <1>0, IdleStep DEF TypeInv, TypeOK
  <1>14. ASSUME NEW c \in Conns, Recycle(c) PROVE TypeInv'
    BY <1>14, <1>0 DEF TypeInv, TypeOK, FiniteRows, Underway, Recycle
  <1>15. ASSUME NEW s \in Streams, DeleteStream(s) PROVE TypeInv'
    <2>1. NoRun \in SyncRun
      BY DEF NoRun, SyncRun, NoCounts, Counts
    <2>2. QED
      BY <2>1, <1>15, <1>0, ConstantsAssumption
      DEF TypeInv, TypeOK, FiniteRows, Underway, DeleteStream
  <1>16. ASSUME NEW s \in Streams, RetimeStream(s) PROVE TypeInv'
    BY <1>16, <1>0 DEF TypeInv, TypeOK, FiniteRows, Underway, RetimeStream
  <1>17. ASSUME Tick PROVE TypeInv'
    BY <1>17, <1>0, ConstantsAssumption
    DEF TypeInv, TypeOK, FiniteRows, Underway, Tick, Times
  <1>18. ASSUME NEW s \in Streams, NEW pk \in Pks,
                SourceWrites(s, pk) \/ SourceDeletes(s, pk)
         PROVE  TypeInv'
    <2> DEFINE kept == {r \in table[s] : r.pk # pk}
    <2>1. IsFiniteSet(kept) /\ kept \subseteq Row
      BY <1>0, FS_Subset DEF FiniteRows, TypeOK
    <2>2. PICK rows \in SUBSET Row :
            table' = [table EXCEPT ![s] = rows] /\ IsFiniteSet(rows)
      <3>1. CASE SourceWrites(s, pk)
        <4>1. PICK ver \in 1 .. now :
                table' = [table EXCEPT ![s] = kept \cup {[pk |-> pk, ver |-> ver]}]
          <5>1. now \in 1 .. now
            BY <1>0, ConstantsAssumption DEF TypeOK, Times
          <5>2. PICK ver \in IF "late" \in Events THEN 1 .. now ELSE {now} :
                  table' = [table EXCEPT ![s] = {r \in table[s] : r.pk # pk}
                                                  \cup {[pk |-> pk, ver |-> ver]}]
            BY <3>1 DEF SourceWrites
          <5>3. QED
            BY <5>1, <5>2
        <4>2. [pk |-> pk, ver |-> ver] \in Row
          BY <1>0, ConstantsAssumption DEF Row, TypeOK, Times
        <4>3. kept \cup {[pk |-> pk, ver |-> ver]} \in SUBSET Row
          BY <4>2, <2>1
        <4>4. IsFiniteSet(kept \cup {[pk |-> pk, ver |-> ver]})
          BY <2>1, FS_AddElement
        <4> HIDE DEF kept
        <4>5. QED
          BY <4>1, <4>3, <4>4
      <3>2. CASE SourceDeletes(s, pk)
        BY <3>2, <2>1 DEF SourceDeletes
      <3>3. QED
        BY <1>18, <3>1, <3>2
    <2>3. table' \in [Streams -> SUBSET Row] /\ \A u \in Streams : IsFiniteSet(table'[u])
      BY <2>2, <1>0 DEF TypeOK, FiniteRows
    <2>4. QED
      BY <2>3, <1>18, <1>0
      DEF TypeInv, TypeOK, FiniteRows, Underway, SourceWrites, SourceDeletes
  <1>19. ASSUME UNCHANGED vars PROVE TypeInv'
    BY <1>19, <1>0 DEF TypeInv, TypeOK, FiniteRows, Underway, vars
  <1>20. QED
    BY <1>1, <1>2, <1>3, <1>4, <1>5, <1>6, <1>7, <1>8, <1>9, <1>10, <1>11,
       <1>12, <1>13, <1>14, <1>15, <1>16, <1>17, <1>18, <1>19
    DEF Next, Attempt, Proceed, Failure, Operator, Customer

-----------------------------------------------------------------------------
(* No step of another attempt, of the operator or of the customer touches  *)
(* the lock; c's own steps take it when free and give it up on the way out.*)
LEMMA InitLock == Init => LockInv
  BY DEF Init, LockInv, Locked

LEMMA LockStep == TypeInv /\ LockInv /\ [Next]_vars => LockInv'
  <1> SUFFICES ASSUME TypeInv, LockInv, [Next]_vars PROVE LockInv'
    OBVIOUS
  <1> USE DEF Locked
  <1>0. held \in [Conns -> Nat] /\ pc \in [Conns -> Labels]
    BY DEF TypeInv, TypeOK
  <1>1. ASSUME NEW c \in Conns, NEW label, Goto(c, label), UNCHANGED held,
               label \in Locked => pc[c] \in Locked
        PROVE  LockInv'
    BY <1>1, <1>0 DEF LockInv, Goto
  <1>2. ASSUME NEW c \in Conns, held'[c] = 0 \/ ~(pc'[c] \in Locked) \/ held'[c] > 0,
               pc'[c] \in Locked => held'[c] > 0,
               held'[c] > 0 => held[c] > 0,
               \A d \in Conns \ {c} : held'[d] = held[d] /\ pc'[d] = pc[d]
        PROVE  LockInv'
    BY <1>2, <1>0 DEF LockInv
  <1>3. ASSUME NEW c \in Conns, Attempt(c) PROVE LockInv'
    <2>1. CASE AcquireLock(c)
      BY <2>1, <1>0 DEF AcquireLock, LockAvailable, LockInv, Goto
    <2>2. CASE ReleaseLock(c)
      BY <2>2, <1>0, <1>2 DEF ReleaseLock, LockInv, Goto
    <2>3. CASE LoadSource(c) \/ FindExisting(c) \/ Insert(c) \/ Refuse(c) \/ SkipRun(c)
      BY <2>3, <1>0, <1>1 DEF LoadSource, FindExisting, Insert, InsertRun,
           InsertCollides, InsertOrphaned, Refuse, SkipRun, End
    <2>4. CASE OpenConnector(c) \/ OpenStream(c) \/ FlushRun(c)
      BY <2>4, <1>0, <1>1 DEF OpenConnector, OpenStream, FlushRun
    <2>5. CASE FlushBatch(c)
      BY <2>5 DEF FlushBatch, LockInv
    <2>6. CASE FinishStream(c)
      BY <2>6, <1>1 DEF FinishStream
    <2>7. CASE FlushRejected(c) \/ FlushOrphaned(c) \/ FlushStale(c) \/ Commit(c)
      BY <2>7, <1>1 DEF FlushRejected, FlushOrphaned, Aborts, FlushStale, Commit, End
    <2>8. QED
      BY <1>3, <2>1, <2>2, <2>3, <2>4, <2>5, <2>6, <2>7 DEF Attempt, Proceed
  <1>4. ASSUME NEW c \in Conns, Failure(c) PROVE LockInv'
    <2>1. CASE ConnectionFails(c)
      BY <2>1, <1>1 DEF ConnectionFails
    <2>2. CASE StreamFails(c)
      BY <2>2, <1>1 DEF StreamFails
    <2>3. CASE Unexpected(c) \/ Crash(c) \/ Recycle(c)
      BY <2>3, <1>0, <1>2 DEF Unexpected, Crash, Recycle, End, Goto, LockInv
    <2>4. QED
      BY <1>4, <2>1, <2>2, <2>3 DEF Failure
  <1>5. ASSUME NEW s \in Streams, Operator(s) PROVE LockInv'
    BY <1>5 DEF Operator, DeleteStream, RetimeStream, LockInv
  <1>6. ASSUME Customer \/ UNCHANGED vars PROVE LockInv'
    BY <1>6 DEF Customer, Tick, SourceWrites, SourceDeletes, vars, LockInv
  <1>7. QED
    BY <1>3, <1>4, <1>5, <1>6 DEF Next

(* Every reachable state has the types TypeOK states.                      *)
THEOREM TypeCorrect == Spec => []TypeOK
  <1>1. Init => TypeInv /\ LockInv
    BY InitTypeInv, InitLock
  <1>2. TypeInv /\ LockInv /\ [Next]_vars => (TypeInv /\ LockInv)'
    BY TypeStep, LockStep
  <1>3. TypeInv => TypeOK
    BY DEF TypeInv
  <1>4. QED
    BY <1>1, <1>2, <1>3, PTL DEF Spec

(* One sync of the source at a time, for any number of attempts, whatever  *)
(* crashes, raises or leaves its lock behind.                              *)
THEOREM MutualExclusion == Spec => []OneSyncAtATime
  <1>1. Init => TypeInv /\ LockInv
    BY InitTypeInv, InitLock
  <1>2. TypeInv /\ LockInv /\ [Next]_vars => (TypeInv /\ LockInv)'
    BY TypeStep, LockStep
  <1>3. LockInv => OneSyncAtATime
    BY DEF LockInv, OneSyncAtATime
  <1>4. QED
    BY <1>1, <1>2, <1>3, PTL DEF Spec
-----------------------------------------------------------------------------
(* What keeps the balance: an attempt that enters the lock takes it once,  *)
(* and one that leaves gives it back or was aborted.                       *)
LEMMA AccountedStep ==
  ASSUME TypeInv, LocksAccountedFor, [Next]_vars
  PROVE  LocksAccountedFor'
  <1> USE DEF Locked
  <1>0. /\ held \in [Conns -> Nat] /\ aborted \in [Conns -> Nat]
        /\ pc \in [Conns -> Labels]
    BY DEF TypeInv, TypeOK
  <1>1. ASSUME NEW c \in Conns, NEW label, Goto(c, label), UNCHANGED <<held, aborted>>,
               label \in Locked <=> pc[c] \in Locked
        PROVE  LocksAccountedFor'
    BY <1>0, <1>1 DEF LocksAccountedFor, Goto
  <1>2. ASSUME NEW c \in Conns, Attempt(c) PROVE LocksAccountedFor'
    <2>1. CASE AcquireLock(c)
      BY <2>1, <1>0 DEF AcquireLock, LocksAccountedFor, Goto
    <2>2. CASE ReleaseLock(c)
      BY <2>2, <1>0 DEF ReleaseLock, LocksAccountedFor, Goto
    <2>3. CASE LoadSource(c) \/ FindExisting(c) \/ Insert(c) \/ Refuse(c) \/ SkipRun(c)
               \/ Commit(c)
      BY <2>3, <1>0, <1>1 DEF LoadSource, FindExisting, Insert, InsertRun,
           InsertCollides, InsertOrphaned, Refuse, SkipRun, Commit, End
    <2>4. CASE OpenConnector(c) \/ OpenStream(c) \/ FlushRun(c)
      BY <2>4, <1>0, <1>1 DEF OpenConnector, OpenStream, FlushRun
    <2>5. CASE FlushBatch(c)
      BY <2>5 DEF FlushBatch, LocksAccountedFor
    <2>6. CASE FinishStream(c)
      BY <2>6, <1>0, <1>1 DEF FinishStream, AfterStream
    <2>7. CASE FlushRejected(c) \/ FlushOrphaned(c) \/ FlushStale(c)
      <3>1. Aborts(c) /\ pc[c] \in Locked
        BY <2>7 DEF FlushRejected, FlushOrphaned, FlushStale
      <3> QED BY <3>1, <1>0 DEF Aborts, End, Goto, LocksAccountedFor
    <2> QED BY <1>2, <2>1, <2>2, <2>3, <2>4, <2>5, <2>6, <2>7 DEF Attempt, Proceed
  <1>3. ASSUME NEW c \in Conns, Failure(c) PROVE LocksAccountedFor'
    <2>1. CASE ConnectionFails(c)
      BY <2>1, <1>0, <1>1 DEF ConnectionFails
    <2>2. CASE StreamFails(c)
      BY <2>2, <1>0, <1>1 DEF StreamFails, AfterStream
    <2>3. CASE Unexpected(c) \/ Crash(c)
      BY <2>3, <1>0 DEF Unexpected, Crash, End, Goto, LocksAccountedFor
    <2>4. CASE Recycle(c)
      BY <2>4, <1>0 DEF Recycle, LocksAccountedFor
    <2> QED BY <1>3, <2>1, <2>2, <2>3, <2>4 DEF Failure
  <1>4. ASSUME NEW s \in Streams, Operator(s) PROVE LocksAccountedFor'
    BY <1>4 DEF Operator, DeleteStream, RetimeStream, LocksAccountedFor
  <1>5. ASSUME Customer \/ UNCHANGED vars PROVE LocksAccountedFor'
    BY <1>5 DEF Customer, Tick, SourceWrites, SourceDeletes, vars, LocksAccountedFor
  <1> QED BY <1>2, <1>3, <1>4, <1>5 DEF Next

(* Whatever fails, the session of an attempt holds the lock of             *)
(* source_sync_lock once while it works under it and once for every        *)
(* transaction that the database aborted there: no other ending leaves it  *)
(* behind.                                                                 *)
THEOREM OnlyAbortsLeaveLocks == Spec => []LocksAccountedFor
  <1>1. Init => TypeInv /\ LockInv /\ LocksAccountedFor
    BY InitTypeInv, InitLock DEF Init, LocksAccountedFor, Locked
  <1>2. TypeInv /\ LockInv /\ LocksAccountedFor /\ [Next]_vars
            => (TypeInv /\ LockInv /\ LocksAccountedFor)'
    BY TypeStep, LockStep, AccountedStep
  <1> QED BY <1>1, <1>2, PTL DEF Spec
=============================================================================
