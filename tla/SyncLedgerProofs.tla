-------------------------- MODULE SyncLedgerProofs --------------------------
(***************************************************************************)
(* Proofs about Sync, on the invariants of SyncProofs: no fact is stored   *)
(* twice and none is out of reach, Sync implements IngestLedger and keeps  *)
(* RunContract, stamps and counters are true, and attempts neither wait in *)
(* a circle nor go back.                                                   *)
(***************************************************************************)
EXTENDS SyncProofs, WellFoundedInduction

-----------------------------------------------------------------------------
(* Uniqueness. Only a flushed batch adds to what is visible.               *)
LEMMA NoMoreVisible ==
  ASSUME UniqueObservations, Visible' \subseteq Visible
  PROVE  UniqueObservations'
  BY DEF UniqueObservations, SameFingerprint

LEMMA EndHides ==
  ASSUME TypeOK, NEW c \in Conns, att' = [att EXCEPT ![c] = Idle], obs' \subseteq obs
  PROVE  Visible' \subseteq Visible
  <1>1. Idle.mine = {}
    BY DEF Idle
  <1>2. \A d \in Conns : att'[d].mine \subseteq att[d].mine
    BY <1>1 DEF TypeOK
  <1>3. QED
    BY <1>2 DEF Visible

(* A step that keeps every attempt's uncommitted rows, or drops some.      *)
LEMMA KeepsVisible ==
  ASSUME \A d \in Conns : att'[d].mine \subseteq att[d].mine, obs' \subseteq obs
  PROVE  Visible' \subseteq Visible
  BY DEF Visible

(* The steps that rewrite c's record without its uncommitted rows.         *)
LEMMA RecordKeepsMine ==
  ASSUME TypeOK, NEW c \in Conns,
         \/ OpenStream(c) \/ FinishStream(c) \/ StreamFails(c) \/ FlushRun(c)
         \/ AcquireLock(c) \/ SkipRun(c) \/ ConnectionFails(c)
  PROVE  /\ \A d \in Conns : /\ att'[d].mine = att[d].mine
                             /\ att'[d].key = att[d].key
                             /\ att'[d].sel = att[d].sel
                             /\ att'[d].todo \subseteq att[d].todo
         /\ \A d \in Conns \ {c} : att'[d] = att[d]
         /\ OpenStream(c) => att'[c].cur \in att[c].todo
         /\ obs' = obs
  <1> USE DEF committed
  <1>1. att[c] \in Attempts /\ att \in [Conns -> Attempts]
    BY DEF TypeOK
  <1>0. pc[c] # "select" => ~OpenStream(c)
    BY DEF OpenStream
  <1>2. ASSUME NEW b, att' = [att EXCEPT ![c] = b], b.mine = att[c].mine,
               b.key = att[c].key, b.sel = att[c].sel,
               b.todo \subseteq att[c].todo
        PROVE  /\ \A d \in Conns : /\ att'[d].mine = att[d].mine
                                   /\ att'[d].key = att[d].key
                                   /\ att'[d].sel = att[d].sel
                                   /\ att'[d].todo \subseteq att[d].todo
               /\ \A d \in Conns \ {c} : att'[d] = att[d]
               /\ att'[c] = b
    BY <1>1, <1>2
  <1>3. ASSUME NEW b, att' = [att EXCEPT ![c] = b], b.mine = att[c].mine,
               b.key = att[c].key, b.sel = att[c].sel, b.todo = att[c].todo
        PROVE  /\ \A d \in Conns : /\ att'[d].mine = att[d].mine
                                   /\ att'[d].key = att[d].key
                                   /\ att'[d].sel = att[d].sel
                                   /\ att'[d].todo \subseteq att[d].todo
               /\ \A d \in Conns \ {c} : att'[d] = att[d]
    BY <1>2, <1>3
  <1> DEFINE a == att[c]
  <1>4. CASE OpenStream(c)
    <2>1. PICK s \in a.todo :
            att' = [att EXCEPT ![c] =
              [a EXCEPT !.cur = s, !.feed = Fetched(a, s), !.times = {},
                        !.part = NoCounts, !.todo = a.todo \ {s}]]
      BY <1>4 DEF OpenStream
    <2> DEFINE b == [a EXCEPT !.cur = s, !.feed = Fetched(a, s), !.times = {},
                              !.part = NoCounts, !.todo = a.todo \ {s}]
    <2>2. /\ b.mine = a.mine /\ b.key = a.key /\ b.sel = a.sel
          /\ b.todo \subseteq a.todo /\ b.cur = s
      BY <1>1 DEF Attempts
    <2> HIDE DEF b
    <2>3. att' = [att EXCEPT ![c] = b] /\ obs' = obs
      BY <2>1, <1>4 DEF OpenStream, b
    <2>4. QED
      BY <2>2, <2>3, <1>2
  <1>5. CASE FinishStream(c)
    <2>1. PICK t : att' = [att EXCEPT ![c] =
              [a EXCEPT !.mark[a.cur] = t, !.total = Plus(a.total, a.part),
                        !.ok = a.ok \cup {a.cur}]]
      BY <1>5 DEF FinishStream
    <2> DEFINE b == [a EXCEPT !.mark[a.cur] = t, !.total = Plus(a.total, a.part),
                              !.ok = a.ok \cup {a.cur}]
    <2>2. b.mine = a.mine /\ b.key = a.key /\ b.sel = a.sel /\ b.todo = a.todo
      BY <1>1 DEF Attempts
    <2> HIDE DEF b
    <2>3. att' = [att EXCEPT ![c] = b] /\ obs' = obs
      BY <2>1, <1>5 DEF FinishStream, b
    <2>4. QED
      BY <2>2, <2>3, <1>0, <1>3, <1>5 DEF FinishStream
  <1>6. CASE StreamFails(c)
    <2> DEFINE b == [a EXCEPT !.bad = a.bad \cup {a.cur}, !.feed = {}]
    <2>2. b.mine = a.mine /\ b.key = a.key /\ b.sel = a.sel /\ b.todo = a.todo
      BY <1>1 DEF Attempts
    <2> HIDE DEF b
    <2>3. att' = [att EXCEPT ![c] = b] /\ obs' = obs
      BY <1>6 DEF StreamFails, b
    <2>4. QED
      BY <2>2, <2>3, <1>0, <1>3, <1>6 DEF StreamFails
  <1>7. CASE FlushRun(c)
    <2>1. PICK st, he : att' = [att EXCEPT ![c] = [a EXCEPT !.status = st,
                                                            !.health = he]]
      BY <1>7 DEF FlushRun
    <2> DEFINE b == [a EXCEPT !.status = st, !.health = he]
    <2>2. b.mine = a.mine /\ b.key = a.key /\ b.sel = a.sel /\ b.todo = a.todo
      BY <1>1 DEF Attempts
    <2> HIDE DEF b
    <2>3. att' = [att EXCEPT ![c] = b] /\ obs' = obs
      BY <2>1, <1>7 DEF FlushRun, b
    <2>4. QED
      BY <2>2, <2>3, <1>0, <1>3, <1>7 DEF FlushRun
  <1>8. CASE AcquireLock(c)
    BY <1>1, <1>8, <1>0 DEF AcquireLock, Attempts
  <1>9. CASE SkipRun(c)
    BY <1>1, <1>9, <1>0 DEF SkipRun, Attempts
  <1>10. CASE ConnectionFails(c)
    BY <1>1, <1>10, <1>0 DEF ConnectionFails, Attempts
  <1>11. QED
    BY <1>4, <1>5, <1>6, <1>7, <1>8, <1>9, <1>10

LEMMA FlushRecord ==
  ASSUME TypeOK, NEW c \in Conns, FlushBatch(c)
  PROVE  /\ \A d \in Conns : /\ att'[d].mine = IF d = c
                                   THEN att[c].mine \cup NewFacts(att[c])
                                   ELSE att[d].mine
                             /\ att'[d].key = att[d].key
                             /\ att'[d].sel = att[d].sel
                             /\ att'[d].todo = att[d].todo
                             /\ att'[d].cur = att[d].cur
         /\ obs' = obs
  <1> DEFINE a == att[c]
             n == [seen |-> Cardinality(Facts(a)),
                   created |-> Cardinality(NewFacts(a)),
                   skipped |-> Cardinality(Facts(a)) - Cardinality(NewFacts(a))]
             b == [a EXCEPT !.feed = a.feed \ Batch(a),
                            !.mine = a.mine \cup NewFacts(a),
                            !.times = a.times \cup {o.at : o \in Facts(a)},
                            !.part = Plus(a.part, n)]
  <1>1. att' = [att EXCEPT ![c] = b] /\ obs' = obs
    BY DEF FlushBatch, committed
  <1>2. /\ b.mine = a.mine \cup NewFacts(a) /\ b.key = a.key /\ b.sel = a.sel
        /\ b.todo = a.todo /\ b.cur = a.cur
    <2>1. a \in Attempts
      BY DEF TypeOK
    <2>2. QED
      BY <2>1 DEF Attempts
  <1>3. \A d \in Conns : att'[d] = IF d = c THEN b ELSE att[d]
    <2> HIDE DEF b
    <2>1. QED
      BY <1>1 DEF TypeOK
  <1>4. QED
    <2> HIDE DEF b
    <2>1. QED
      BY <1>1, <1>2, <1>3

LEMMA FlushAdds ==
  ASSUME TypeOK, NEW c \in Conns, FlushBatch(c)
  PROVE  Visible' \subseteq Visible \cup NewFacts(att[c])
  <1> DEFINE new == NewFacts(att[c])
  <1>1. \A d \in Conns : att'[d].mine \subseteq att[d].mine \cup new
    BY FlushRecord
  <1>2. obs' = obs
    BY FlushRecord
  <1> HIDE DEF new
  <1>3. Visible' \subseteq Visible \cup new
    BY <1>1, <1>2 DEF Visible
  <1>4. QED
    BY <1>3 DEF new

(* Two facts of one batch with one fingerprint are one row.                *)
LEMMA FactsDistinct ==
  ASSUME TypeOK, NEW c \in Conns, NEW o \in Facts(att[c]), NEW p \in Facts(att[c]),
         SameFingerprint(o, p)
  PROVE  o = p
  <1>1. PICK r \in Batch(att[c]) : o = Observe(att[c], r)
    BY DEF Facts
  <1>2. PICK q \in Batch(att[c]) : p = Observe(att[c], q)
    BY DEF Facts
  <1>3. r \in Row /\ q \in Row
    BY FirstSubset DEF Batch, TypeOK, Attempts
  <1>4. r.pk = q.pk /\ r.ver = q.ver
    BY <1>1, <1>2 DEF Observe, SameFingerprint
  <1>5. r = q
    BY <1>3, <1>4 DEF Row
  <1>6. QED
    BY <1>1, <1>2, <1>5

LEMMA UniqueStep ==
  TypeInv /\ UniqueObservations /\ [Next]_vars => UniqueObservations'
  <1> SUFFICES ASSUME TypeInv, UniqueObservations, [Next]_vars
               PROVE  UniqueObservations'
    OBVIOUS
  <1> USE DEF committed
  <1>0. TypeOK
    BY DEF TypeInv
  <1>1. ASSUME NEW c \in Conns, FlushBatch(c) PROVE UniqueObservations'
    <2>1. ASSUME NEW o \in NewFacts(att[c]), NEW p \in Visible
          PROVE  ~SameFingerprint(o, p)
      <3>1. o \in Facts(att[c])
        BY DEF NewFacts
      <3>2. CASE p \in obs \cup att[c].mine
        BY <3>2 DEF NewFacts
      <3>3. CASE \E d \in Conns \ {c} : p \in att[d].mine
        BY <3>1, <3>3, <1>1 DEF FlushBatch, NothingPending
      <3>4. QED
        BY <3>2, <3>3 DEF Visible
    <2>2. ASSUME NEW o \in NewFacts(att[c]), NEW p \in NewFacts(att[c]),
                 SameFingerprint(o, p)
          PROVE  o = p
      BY <2>2, <1>0, FactsDistinct DEF NewFacts
    <2>3. \A o, p : SameFingerprint(o, p) => SameFingerprint(p, o)
      BY DEF SameFingerprint
    <2>4. Visible' \subseteq Visible \cup NewFacts(att[c])
      BY <1>0, <1>1, FlushAdds
    <2>5. ASSUME NEW o \in Visible', NEW p \in Visible', SameFingerprint(o, p)
          PROVE  o = p
      BY <2>1, <2>2, <2>3, <2>4, <2>5 DEF UniqueObservations
    <2>6. QED
      BY <2>5 DEF UniqueObservations, SameFingerprint
  <1>2. ASSUME NEW c \in Conns, LoadSource(c) PROVE UniqueObservations'
    <2>1. PICK k \in Keys, sel \in Selections, inc \in Modes :
            att' = [att EXCEPT ![c] =
                [Idle EXCEPT !.key = k, !.incremental = inc, !.sel = sel,
                             !.todo = sel, !.timed = timed, !.loaded = hwm,
                             !.mark = hwm, !.health0 = health, !.health = health]]
      BY <1>2 DEF LoadSource
    <2>2. \A d \in Conns : att'[d].mine \subseteq att[d].mine
      BY <2>1, <1>0 DEF TypeOK, Idle
    <2>3. QED
      BY <2>2, <1>2, KeepsVisible, NoMoreVisible DEF LoadSource
  <1>3. ASSUME NEW c \in Conns,
               \/ InsertOrphaned(c) \/ Refuse(c) \/ Unexpected(c)
               \/ FlushRejected(c) \/ FlushOrphaned(c) \/ FlushStale(c) \/ Crash(c)
        PROVE  UniqueObservations'
    BY <1>3, <1>0, EndHides, NoMoreVisible
    DEF InsertOrphaned, Refuse, Unexpected, FlushRejected, FlushOrphaned, Aborts, FlushStale, Crash, End
  <1>4. ASSUME NEW c \in Conns, FindExisting(c) PROVE UniqueObservations'
    <2>1. CASE runs[att[c].key].status # "none"
      BY <1>4, <2>1, <1>0, EndHides, NoMoreVisible DEF FindExisting, End
    <2>2. CASE runs[att[c].key].status = "none"
      BY <1>4, <2>2, KeepsVisible, NoMoreVisible DEF FindExisting
    <2>3. QED
      BY <2>1, <2>2
  <1>5. ASSUME NEW c \in Conns, Commit(c) PROVE UniqueObservations'
    <2>1. /\ att' = [att EXCEPT ![c] = Idle]
          /\ obs' = obs \cup att[c].mine
      BY <1>5 DEF Commit, End
    <2>2. Idle.mine = {}
      BY DEF Idle
    <2>3. \A d \in Conns : att'[d].mine \subseteq att[d].mine
      BY <2>1, <2>2, <1>0 DEF TypeOK
    <2>4. QED
      BY <2>1, <2>3, NoMoreVisible DEF Visible
  <1>6. ASSUME \A d \in Conns : att'[d].mine = att[d].mine, obs' \subseteq obs
        PROVE  UniqueObservations'
    BY <1>6, KeepsVisible, NoMoreVisible
  <1>7. ASSUME NEW c \in Conns, OpenStream(c) \/ FinishStream(c) \/ StreamFails(c)
                                \/ FlushRun(c) \/ AcquireLock(c)
                                \/ SkipRun(c) \/ ConnectionFails(c)
        PROVE  UniqueObservations'
    BY <1>7, <1>6, <1>0, RecordKeepsMine
  <1>8. ASSUME NEW c \in Conns, \/ InsertRun(c) \/ InsertCollides(c)
                                \/ OpenConnector(c) \/ ReleaseLock(c) \/ Recycle(c)
        PROVE  UniqueObservations'
    BY <1>8, <1>6
    DEF InsertRun, InsertCollides, OpenConnector, ReleaseLock, Recycle
  <1>10. ASSUME NEW s \in Streams, Operator(s) PROVE UniqueObservations'
    BY <1>10, <1>6 DEF Operator, DeleteStream, RetimeStream
  <1>11. ASSUME Customer \/ UNCHANGED vars PROVE UniqueObservations'
    BY <1>11, <1>6 DEF Customer, Tick, SourceWrites, SourceDeletes, vars
  <1>12. QED
    BY <1>1, <1>2, <1>3, <1>4, <1>5, <1>7, <1>8, <1>10, <1>11
    DEF Next, Attempt, Proceed, Insert, Failure

LEMMA InitUnique == Init => UniqueObservations
  BY DEF Init, UniqueObservations, Visible, Idle

(* No observation is stored twice, committed or in flight, for any number  *)
(* of concurrent attempts.                                                 *)
THEOREM NoDuplicates == Spec => []UniqueObservations
  <1>1. Init => TypeInv /\ LockInv /\ UniqueObservations
    BY InitTypeInv, InitLock, InitUnique
  <1>2. TypeInv /\ LockInv /\ UniqueObservations /\ [Next]_vars
            => (TypeInv /\ LockInv /\ UniqueObservations)'
    BY TypeStep, LockStep, UniqueStep
  <1>3. QED
    BY <1>1, <1>2, PTL DEF Spec

-----------------------------------------------------------------------------
(* Keys. A run in progress has its key to itself, and no answer has been   *)
(* given for it: this is what the unique key of sync_runs is for.          *)
KeyInv ==
    /\ \A k \in Keys : runs[k].status = "none" => runs[k] = NoRun
    /\ \A c \in Conns : pc[c] \in InTransaction => runs[att[c].key] = NoRun
    /\ \A c, d \in Conns : /\ pc[c] \in InTransaction
                           /\ pc[d] \in InTransaction
                           /\ att[c].key = att[d].key
                           => c = d

LEMMA InitKey == Init => KeyInv
  BY DEF Init, KeyInv, InTransaction, Locked

LEMMA KeyKept ==
  ASSUME KeyInv, UNCHANGED runs,
         \A d \in Conns : pc'[d] \in InTransaction =>
             pc[d] \in InTransaction /\ att'[d].key = att[d].key
  PROVE  KeyInv'
  BY DEF KeyInv

LEMMA EndKeepsKeys ==
  ASSUME KeyInv, TypeOK, UNCHANGED runs, NEW c \in Conns, End(c)
  PROVE  KeyInv'
  BY KeyKept DEF End, Goto, TypeOK, InTransaction, Locked

LEMMA KeyStep == TypeInv /\ KeyInv /\ [Next]_vars => KeyInv'
  <1> SUFFICES ASSUME TypeInv, KeyInv, [Next]_vars PROVE KeyInv'
    OBVIOUS
  <1> USE DEF committed
  <1>0. TypeOK
    BY DEF TypeInv
  <1>1. ASSUME NEW c \in Conns, InsertRun(c) PROVE KeyInv'
    <2>1. /\ pc' = [pc EXCEPT ![c] = "trylock"] /\ UNCHANGED <<runs, att>>
          /\ runs[att[c].key] = NoRun
      BY <1>1 DEF InsertRun, Goto, KeyInv, TypeInv, Underway
    <2>2. \A d \in Conns \ {c} : pc[d] \in InTransaction => att[d].key # att[c].key
      BY <1>1 DEF InsertRun, KeyIsFree
    <2>3. \A d \in Conns : pc'[d] = IF d = c THEN "trylock" ELSE pc[d]
      BY <2>1, <1>0 DEF TypeOK
    <2>4. QED
      BY <2>1, <2>2, <2>3 DEF KeyInv
  <1>2. ASSUME NEW c \in Conns, Commit(c) PROVE KeyInv'
    <2>1. /\ runs' = [runs EXCEPT ![att[c].key] = RunRecord(att[c])]
          /\ att' = [att EXCEPT ![c] = Idle] /\ pc' = [pc EXCEPT ![c] = "idle"]
          /\ pc[c] = "commit"
      BY <1>2 DEF Commit, End, Goto
    <2>2. att[c].status \in SyncStatus
      BY <1>0 DEF TypeOK, Attempts
    <2>3. RunRecord(att[c]).status # "none"
      BY <2>2 DEF RunRecord, SyncStatus
    <2>4. \A k \in Keys : runs'[k] = IF k = att[c].key THEN RunRecord(att[c])
                                                       ELSE runs[k]
      BY <2>1, <1>0 DEF TypeOK
    <2>5. \A d \in Conns : pc'[d] \in InTransaction =>
             d # c /\ pc[d] \in InTransaction /\ att'[d] = att[d]
      BY <2>1, <1>0 DEF TypeOK, InTransaction, Locked
    <2>6. \A d \in Conns : pc'[d] \in InTransaction =>
             att[d].key # att[c].key /\ att[d].key \in Keys
      BY <2>1, <2>5 DEF KeyInv, TypeInv, Underway, InTransaction, Locked
    <2>7. QED
      BY <2>3, <2>4, <2>5, <2>6 DEF KeyInv
  <1>3. ASSUME NEW s \in Streams, DeleteStream(s) PROVE KeyInv'
    <2>1. \A k \in Keys : runs'[k] = NoRun \/ runs'[k] = runs[k]
      BY <1>3 DEF DeleteStream
    <2>2. \A d \in Conns : pc[d] \in InTransaction => att[d].key \in Keys
      BY DEF TypeInv, Underway, InTransaction, Locked
    <2>3. UNCHANGED <<pc, att>>
      BY <1>3 DEF DeleteStream
    <2>4. QED
      BY <2>1, <2>2, <2>3 DEF KeyInv
  <1>4. ASSUME NEW c \in Conns, LoadSource(c) \/ InsertCollides(c) PROVE KeyInv'
    <2>1. \A d \in Conns : pc'[d] \in InTransaction => d # c /\ pc[d] = pc'[d]
      BY <1>4, <1>0
      DEF LoadSource, InsertCollides, Goto, InTransaction, Locked, TypeOK
    <2>2. \A d \in Conns \ {c} : att'[d] = att[d]
      BY <1>4, <1>0 DEF LoadSource, InsertCollides, TypeOK
    <2>3. QED
      BY <2>1, <2>2, <1>4, KeyKept DEF LoadSource, InsertCollides
  <1>5. ASSUME NEW c \in Conns, FindExisting(c) PROVE KeyInv'
    <2>1. CASE runs[att[c].key].status # "none"
      BY <2>1, <1>5, <1>0, EndKeepsKeys DEF FindExisting
    <2>2. CASE runs[att[c].key].status = "none"
      BY <2>2, <1>5, <1>0, KeyKept
      DEF FindExisting, Goto, TypeOK, InTransaction, Locked
    <2>3. QED
      BY <2>1, <2>2
  <1>6. ASSUME NEW c \in Conns,
               \/ InsertOrphaned(c) \/ Refuse(c) \/ Unexpected(c)
               \/ FlushRejected(c) \/ FlushOrphaned(c) \/ FlushStale(c) \/ Crash(c)
        PROVE  KeyInv'
    BY <1>6, <1>0, EndKeepsKeys
    DEF InsertOrphaned, Refuse, Unexpected, FlushRejected, FlushOrphaned, Aborts, FlushStale, Crash
  <1>7. ASSUME NEW c \in Conns, \/ OpenStream(c) \/ FinishStream(c) \/ StreamFails(c)
                                \/ FlushRun(c) \/ AcquireLock(c)
                                \/ SkipRun(c) \/ ConnectionFails(c)
        PROVE  KeyInv'
    <2>1. \A d \in Conns : att'[d].key = att[d].key
      BY <1>7, <1>0, RecordKeepsMine
    <2>2. pc[c] \in InTransaction /\ \A d \in Conns \ {c} : pc'[d] = pc[d]
      BY <1>7, <1>0
      DEF OpenStream, FinishStream, StreamFails, FlushRun, AcquireLock, SkipRun,
          ConnectionFails, Goto, TypeOK, InTransaction, Locked
    <2>3. UNCHANGED runs
      BY <1>7 DEF OpenStream, FinishStream, StreamFails, FlushRun, AcquireLock,
                  SkipRun, ConnectionFails
    <2>4. QED
      BY <2>1, <2>2, <2>3, KeyKept
  <1>8. ASSUME NEW c \in Conns, OpenConnector(c) \/ ReleaseLock(c) \/ Recycle(c)
        PROVE  KeyInv'
    <2>1. \A d \in Conns : pc'[d] \in InTransaction => pc[d] \in InTransaction
      BY <1>8, <1>0
      DEF OpenConnector, ReleaseLock, Recycle, Goto, TypeOK, InTransaction, Locked
    <2>2. QED
      BY <2>1, <1>8, KeyKept DEF OpenConnector, ReleaseLock, Recycle
  <1>9. ASSUME NEW c \in Conns, FlushBatch(c) PROVE KeyInv'
    <2>1. \A d \in Conns : att'[d].key = att[d].key
      BY <1>9, <1>0, FlushRecord
    <2>2. QED
      BY <2>1, <1>9, KeyKept DEF FlushBatch
  <1>10. ASSUME NEW s \in Streams, RetimeStream(s) PROVE KeyInv'
    BY <1>10, KeyKept DEF RetimeStream
  <1>11. ASSUME Customer \/ UNCHANGED vars PROVE KeyInv'
    BY <1>11, KeyKept DEF Customer, Tick, SourceWrites, SourceDeletes, vars
  <1>12. QED
    BY <1>1, <1>2, <1>3, <1>4, <1>5, <1>6, <1>7, <1>8, <1>9, <1>10, <1>11
    DEF Next, Attempt, Proceed, Insert, Failure, Operator

-----------------------------------------------------------------------------
(* What an attempt has inserted carries its key and one of its streams.    *)
OwnInv ==
    \A c \in Conns :
        /\ \A o \in att[c].mine : o.run = att[c].key /\ o.stream \in att[c].sel
        /\ att[c].todo \subseteq att[c].sel
        /\ pc[c] = "ingest" => att[c].cur \in att[c].sel

LEMMA InitOwn == Init => OwnInv
  BY DEF Init, OwnInv, Idle

LEMMA EndOwn ==
  ASSUME OwnInv, TypeOK, NEW c \in Conns, End(c)
  PROVE  OwnInv'
  BY DEF End, Goto, TypeOK, OwnInv, Idle

LEMMA OwnKept ==
  ASSUME OwnInv, UNCHANGED att, \A d \in Conns : pc'[d] = "ingest" => pc[d] = "ingest"
  PROVE  OwnInv'
  BY DEF OwnInv

LEMMA OwnStep == TypeInv /\ OwnInv /\ [Next]_vars => OwnInv'
  <1> SUFFICES ASSUME TypeInv, OwnInv, [Next]_vars PROVE OwnInv'
    OBVIOUS
  <1>0. TypeOK
    BY DEF TypeInv
  <1>1. ASSUME NEW c \in Conns, LoadSource(c) PROVE OwnInv'
    <2>1. PICK k \in Keys, sel \in Selections, inc \in Modes :
            att' = [att EXCEPT ![c] =
                [Idle EXCEPT !.key = k, !.incremental = inc, !.sel = sel,
                             !.todo = sel, !.timed = timed, !.loaded = hwm,
                             !.mark = hwm, !.health0 = health, !.health = health]]
      BY <1>1 DEF LoadSource
    <2>2. att'[c].mine = {} /\ att'[c].todo = sel /\ att'[c].sel = sel
      BY <2>1, <1>0 DEF TypeOK, Idle
    <2>3. \A d \in Conns \ {c} : att'[d] = att[d] /\ pc'[d] = pc[d]
      BY <2>1, <1>1, <1>0 DEF TypeOK, LoadSource, Goto
    <2>4. pc'[c] = "lookup"
      BY <1>1, <1>0 DEF TypeOK, LoadSource, Goto
    <2>5. QED
      BY <2>2, <2>3, <2>4 DEF OwnInv
  <1>2. ASSUME NEW c \in Conns, FlushBatch(c) PROVE OwnInv'
    <2>1. \A o \in NewFacts(att[c]) : o.run = att[c].key /\ o.stream = att[c].cur
      BY DEF NewFacts, Facts, Observe
    <2>2. pc[c] = "ingest" /\ pc' = pc
      BY <1>2 DEF FlushBatch
    <2>3. att[c].cur \in att[c].sel
      BY <2>2 DEF OwnInv
    <2> DEFINE new == NewFacts(att[c])
    <2>4. \A d \in Conns : /\ att'[d].mine = IF d = c THEN att[c].mine \cup new
                                                      ELSE att[d].mine
                           /\ att'[d].key = att[d].key /\ att'[d].sel = att[d].sel
                           /\ att'[d].todo = att[d].todo /\ att'[d].cur = att[d].cur
      BY <1>2, <1>0, FlushRecord
    <2>5. \A o \in new : o.run = att[c].key /\ o.stream \in att[c].sel
      BY <2>1, <2>3
    <2> HIDE DEF new
    <2>6. QED
      BY <2>2, <2>4, <2>5 DEF OwnInv
  <1>3. ASSUME NEW c \in Conns, \/ OpenStream(c) \/ FinishStream(c) \/ StreamFails(c)
                                \/ FlushRun(c) \/ AcquireLock(c)
                                \/ SkipRun(c) \/ ConnectionFails(c)
        PROVE  OwnInv'
    <2>1. /\ \A d \in Conns : /\ att'[d].mine = att[d].mine
                              /\ att'[d].key = att[d].key
                              /\ att'[d].sel = att[d].sel
                              /\ att'[d].todo \subseteq att[d].todo
          /\ \A d \in Conns \ {c} : att'[d] = att[d]
          /\ OpenStream(c) => att'[c].cur \in att[c].todo
      BY <1>3, <1>0, RecordKeepsMine
    <2>2. /\ \A d \in Conns \ {c} : pc'[d] = pc[d]
          /\ pc'[c] = "ingest" => OpenStream(c)
      BY <1>3, <1>0
      DEF OpenStream, FinishStream, StreamFails, FlushRun, AcquireLock, SkipRun,
          ConnectionFails, Goto, AfterStream, TypeOK
    <2>3. QED
      BY <2>1, <2>2 DEF OwnInv
  <1>4. ASSUME NEW c \in Conns,
               \/ InsertOrphaned(c) \/ Refuse(c) \/ Unexpected(c) \/ Commit(c)
               \/ FlushRejected(c) \/ FlushOrphaned(c) \/ FlushStale(c) \/ Crash(c)
        PROVE  OwnInv'
    BY <1>4, <1>0, EndOwn
    DEF InsertOrphaned, Refuse, Unexpected, FlushRejected, FlushOrphaned, Aborts, FlushStale, Crash, Commit
  <1>5. ASSUME NEW c \in Conns, FindExisting(c) PROVE OwnInv'
    <2>1. CASE runs[att[c].key].status # "none"
      BY <2>1, <1>5, <1>0, EndOwn DEF FindExisting
    <2>2. CASE runs[att[c].key].status = "none"
      BY <2>2, <1>5, <1>0, OwnKept DEF FindExisting, Goto, TypeOK
    <2>3. QED
      BY <2>1, <2>2
  <1>6. ASSUME NEW c \in Conns, \/ InsertRun(c) \/ InsertCollides(c)
                                \/ OpenConnector(c) \/ ReleaseLock(c) \/ Recycle(c)
        PROVE  OwnInv'
    BY <1>6, <1>0, OwnKept
    DEF InsertRun, InsertCollides, OpenConnector, ReleaseLock, Recycle, Goto, TypeOK
  <1>7. ASSUME NEW s \in Streams, Operator(s) PROVE OwnInv'
    BY <1>7, OwnKept DEF Operator, DeleteStream, RetimeStream
  <1>8. ASSUME Customer \/ UNCHANGED vars PROVE OwnInv'
    BY <1>8, OwnKept DEF Customer, Tick, SourceWrites, SourceDeletes, vars
  <1>9. QED
    BY <1>1, <1>2, <1>3, <1>4, <1>5, <1>6, <1>7, <1>8
    DEF Next, Attempt, Proceed, Insert, Failure

(* Every observation is traced to the answer of the run that brought it,   *)
(* and the answer of a one-stream run brought nothing of another stream.   *)
Traced ==
    \A o \in obs : /\ runs[o.run] # NoRun
                   /\ runs[o.run].only = {} \/ o.stream \in runs[o.run].only

LEMMA InitTraced == Init => Traced
  BY DEF Init, Traced

(* The only steps that change what is committed.                           *)
LEMMA CommittedChanges ==
  ASSUME TypeOK, [Next]_vars,
         ~\E c \in Conns : Commit(c), ~\E s \in Streams : DeleteStream(s)
  PROVE  UNCHANGED <<obs, runs>>
  <1> USE DEF committed
  <1>1. ASSUME NEW c \in Conns, Attempt(c) PROVE UNCHANGED <<obs, runs>>
    BY <1>1 DEF Attempt, Proceed, Insert, LoadSource, FindExisting, InsertRun,
       InsertCollides, InsertOrphaned, Refuse, AcquireLock, SkipRun, OpenConnector,
       OpenStream, FlushBatch, FlushRejected, FlushOrphaned, Aborts, FinishStream, FlushRun, FlushStale,
       ReleaseLock
  <1>2. ASSUME NEW c \in Conns, Failure(c) PROVE UNCHANGED <<obs, runs>>
    BY <1>2 DEF Failure, ConnectionFails, Unexpected, StreamFails, Crash, Recycle
  <1>3. ASSUME NEW s \in Streams, Operator(s) PROVE UNCHANGED <<obs, runs>>
    BY <1>3 DEF Operator, RetimeStream
  <1>4. ASSUME Customer \/ UNCHANGED vars PROVE UNCHANGED <<obs, runs>>
    BY <1>4 DEF Customer, Tick, SourceWrites, SourceDeletes, vars
  <1>5. QED
    BY <1>1, <1>2, <1>3, <1>4 DEF Next

LEMMA CommitFacts ==
  ASSUME TypeInv, KeyInv, OwnInv, NEW c \in Conns, Commit(c)
  PROVE  /\ att[c].key \in Keys
         /\ runs[att[c].key] = NoRun
         /\ runs'[att[c].key] = RunRecord(att[c])
         /\ RunRecord(att[c]) # NoRun
         /\ \A k \in Keys \ {att[c].key} : runs'[k] = runs[k]
         /\ obs' = obs \cup att[c].mine
         /\ \A o \in att[c].mine : o.run = att[c].key /\ o.stream \in att[c].sel
  <1>1. att[c].key \in Keys /\ runs[att[c].key] = NoRun
    BY DEF Commit, TypeInv, Underway, KeyInv, InTransaction
  <1>2. RunRecord(att[c]).status \in SyncStatus
    BY DEF TypeInv, TypeOK, Attempts, RunRecord
  <1>3. RunRecord(att[c]) # NoRun
    BY <1>2 DEF NoRun, SyncStatus
  <1>4. runs' = [runs EXCEPT ![att[c].key] = RunRecord(att[c])]
    BY DEF Commit
  <1>5. QED
    BY <1>1, <1>3, <1>4 DEF Commit, OwnInv, TypeInv, TypeOK

LEMMA TracedStep ==
  TypeInv /\ KeyInv /\ OwnInv /\ Traced /\ [Next]_vars => Traced'
  <1> SUFFICES ASSUME TypeInv, KeyInv, OwnInv, Traced, [Next]_vars PROVE Traced'
    OBVIOUS
  <1>0. TypeOK
    BY DEF TypeInv
  <1>1. ASSUME NEW c \in Conns, Commit(c) PROVE Traced'
    <2>1. ASSUME NEW o \in obs'
          PROVE  /\ runs'[o.run] # NoRun
                 /\ runs'[o.run].only = {} \/ o.stream \in runs'[o.run].only
      <3>1. CASE o \in obs
        <4>1. o.run \in Keys /\ runs[o.run] # NoRun
          BY <3>1, <1>0 DEF Traced, TypeOK, Observation
        <4>2. runs'[o.run] = runs[o.run]
          BY <4>1, <1>1, CommitFacts
        <4>3. QED
          BY <4>2, <3>1 DEF Traced
      <3>2. CASE o \in att[c].mine
        <4>1. o.run = att[c].key /\ o.stream \in att[c].sel
          BY <3>2 DEF OwnInv
        <4>2. runs'[o.run] = RunRecord(att[c]) /\ RunRecord(att[c]) # NoRun
          BY <4>1, <1>1, CommitFacts
        <4>3. QED
          BY <4>1, <4>2 DEF RunRecord
      <3>3. QED
        BY <2>1, <3>1, <3>2, <1>1 DEF Commit
    <2>2. QED
      BY <2>1 DEF Traced
  <1>2. ASSUME NEW s \in Streams, DeleteStream(s) PROVE Traced'
    <2>1. ASSUME NEW o \in obs'
          PROVE  o \in obs /\ o.stream # s /\ runs'[o.run] = runs[o.run]
      <3>1. o \in obs /\ o.stream # s /\ o.run \in Keys
        BY <1>2, <1>0 DEF DeleteStream, TypeOK, Observation
      <3>2. runs[o.run].only # {s}
        BY <3>1 DEF Traced
      <3>3. QED
        BY <3>1, <3>2, <1>2 DEF DeleteStream
    <2>2. QED
      BY <2>1 DEF Traced
  <1>3. CASE UNCHANGED <<obs, runs>>
    BY <1>3 DEF Traced
  <1>4. QED
    BY <1>0, <1>1, <1>2, <1>3, CommittedChanges

-----------------------------------------------------------------------------
(* The refinement: a commit enters the run's facts with its answer, the    *)
(* deletion of a stream retires it, nothing else is visible to a reader.   *)
LEMMA LedgerInit == Init => Ledger!Init
  BY DEF Init, Ledger!Init

LEMMA CommitEnters ==
  ASSUME TypeInv, KeyInv, OwnInv, UniqueObservations, NEW c \in Conns, Commit(c)
  PROVE  Ledger!Next
  <1> DEFINE k == att[c].key
             log0 == {Entry(o) : o \in obs}
             log1 == {Entry(o) : o \in obs'}
             S == log1 \ log0
  <1>1. /\ k \in Keys /\ runs[k] = NoRun /\ runs'[k] # NoRun
        /\ \A j \in Keys \ {k} : runs'[j] = runs[j]
        /\ obs' = obs \cup att[c].mine
        /\ \A o \in att[c].mine : o.run = k
    BY CommitFacts
  <1>2. ASSUME NEW e \in S PROVE \E o \in att[c].mine : e = Entry(o)
    BY <1>1
  <1>3. \A e \in S : e.run = k
    BY <1>1, <1>2 DEF Entry
  <1>4. ASSUME NEW o \in Visible, NEW p \in Visible,
               Entry(o).stream = Entry(p).stream, Entry(o).fact = Entry(p).fact
        PROVE  o = p
    BY <1>4 DEF Entry, SameFingerprint, UniqueObservations
  <1>5. obs \subseteq Visible /\ att[c].mine \subseteq Visible
    BY DEF Visible
  <1>6. ASSUME NEW e \in S, NEW f \in log0 PROVE <<e.stream, e.fact>> # <<f.stream, f.fact>>
    <2>1. PICK o \in att[c].mine : e = Entry(o)
      BY <1>2
    <2>2. PICK p \in obs : f = Entry(p)
      OBVIOUS
    <2>3. e # f
      OBVIOUS
    <2>4. QED
      BY <2>1, <2>2, <2>3, <1>4, <1>5
  <1>7. Ledger!Stated(S) \cap Ledger!Stated(log0) = {}
    <2> HIDE DEF S, log0
    <2>1. QED
      BY <1>6 DEF Ledger!Stated
  <1>8. Ledger!Once(S)
    <2>1. ASSUME NEW e \in S, NEW f \in S, e.stream = f.stream, e.fact = f.fact
          PROVE  e = f
      <3>1. PICK o \in att[c].mine : e = Entry(o)
        BY <1>2
      <3>2. PICK p \in att[c].mine : f = Entry(p)
        BY <1>2
      <3>3. QED
        BY <2>1, <3>1, <3>2, <1>4, <1>5
    <2>2. QED
      BY <2>1 DEF Ledger!Once
  <1>9. log1 = log0 \cup S
    BY <1>1
  <1>10. Ledger!Enter(k, S)
    BY <1>1, <1>3, <1>7, <1>8, <1>9 DEF Ledger!Enter
  <1>11. QED
    BY <1>1, <1>10 DEF Ledger!Next

LEMMA DeleteRetires ==
  ASSUME TypeInv, Traced, NEW s \in Streams, DeleteStream(s)
  PROVE  Ledger!Next
  <1> DEFINE log0 == {Entry(o) : o \in obs}
             log1 == {Entry(o) : o \in obs'}
  <1>1. obs' = {o \in obs : o.stream # s}
    BY DEF DeleteStream
  <1>2. log1 = {e \in log0 : e.stream # s}
    BY <1>1 DEF Entry
  <1>3. ASSUME NEW k \in Keys, runs'[k] # runs[k]
        PROVE  runs'[k] = NoRun /\ \A e \in log0 : e.run = k => e.stream = s
    <2>1. runs'[k] = NoRun /\ runs[k].only = {s}
      BY <1>3 DEF DeleteStream
    <2>2. \A o \in obs : o.run = k => o.stream = s
      BY <2>1 DEF Traced
    <2>3. QED
      BY <2>1, <2>2 DEF Entry
  <1>4. Ledger!Retire(s)
    BY <1>2, <1>3 DEF Ledger!Retire
  <1>5. QED
    BY <1>4 DEF Ledger!Next

LEMMA LedgerStep ==
  /\ TypeInv /\ KeyInv /\ OwnInv /\ Traced /\ UniqueObservations
  /\ [Next]_vars
  => [Ledger!Next]_(Ledger!ledger)
  <1> SUFFICES ASSUME TypeInv, KeyInv, OwnInv, Traced, UniqueObservations,
                      [Next]_vars
               PROVE  Ledger!Next \/ UNCHANGED Ledger!ledger
    OBVIOUS
  <1>1. CASE \E c \in Conns : Commit(c)
    BY <1>1, CommitEnters
  <1>2. CASE \E s \in Streams : DeleteStream(s)
    BY <1>2, DeleteRetires
  <1>3. CASE UNCHANGED <<obs, runs>>
    BY <1>3 DEF Ledger!ledger
  <1>4. QED
    BY <1>1, <1>2, <1>3, CommittedChanges DEF TypeInv

(* Ingestion implements the ledger its readers rely on: facts are entered  *)
(* once, with the answer of the run that brought them, and leave only with *)
(* their stream.                                                           *)
THEOREM ImplementsLedger == Spec => RefinesLedger
  <1> DEFINE Inv == /\ TypeInv /\ LockInv /\ UniqueObservations
                    /\ KeyInv /\ OwnInv /\ Traced
  <1>1. Init => Inv
    BY InitTypeInv, InitLock, InitUnique, InitKey, InitOwn, InitTraced
  <1>2. Inv /\ [Next]_vars => Inv'
    BY TypeStep, LockStep, UniqueStep, KeyStep, OwnStep, TracedStep
  <1>3. Init => Ledger!Init
    BY LedgerInit
  <1>4. Inv /\ [Next]_vars => [Ledger!Next]_(Ledger!ledger)
    BY LedgerStep
  <1> HIDE DEF Inv
  <1>5. QED
    BY <1>1, <1>2, <1>3, <1>4, PTL DEF Spec, RefinesLedger, Ledger!Spec

-----------------------------------------------------------------------------
(* What a step of an attempt makes of its record, and that it leaves those *)
(* of the others alone.                                                    *)
LEMMA Updated ==
  ASSUME TypeOK, NEW c \in Conns, NEW b, att' = [att EXCEPT ![c] = b]
  PROVE  att'[c] = b
  BY DEF TypeOK

LEMMA Moved ==
  ASSUME TypeOK, NEW c \in Conns, NEW label, Goto(c, label)
  PROVE  pc'[c] = label
  BY DEF TypeOK, Goto

LEMMA OthersStay ==
  ASSUME TypeOK, NEW c \in Conns, Attempt(c) \/ Failure(c)
  PROVE  /\ \A d \in Conns \ {c} : att'[d] = att[d] /\ pc'[d] = pc[d]
         /\ UNCHANGED <<now, table, present, timed>>
  <1> USE DEF source, catalog
  <1>1. ASSUME NEW b, att' = [att EXCEPT ![c] = b]
        PROVE  \A d \in Conns \ {c} : att'[d] = att[d]
    BY <1>1 DEF TypeOK
  <1>2. ASSUME NEW label, Goto(c, label)
        PROVE  \A d \in Conns \ {c} : pc'[d] = pc[d]
    BY <1>2 DEF Goto, TypeOK
  <1>3. CASE LoadSource(c)
    BY <1>1, <1>2, <1>3 DEF LoadSource
  <1>4. CASE End(c) /\ UNCHANGED <<source, catalog>>
    BY <1>1, <1>2, <1>4 DEF End
  <1>5. CASE \/ FindExisting(c) \/ InsertOrphaned(c) \/ Refuse(c) \/ FlushRejected(c) \/ FlushOrphaned(c)
             \/ FlushStale(c) \/ Commit(c) \/ Unexpected(c) \/ Crash(c)
    <2>1. CASE FindExisting(c)
      BY <1>2, <1>4, <2>1 DEF FindExisting
    <2> QED BY <1>4, <1>5, <2>1 DEF InsertOrphaned, Refuse, FlushRejected, FlushOrphaned, Aborts, FlushStale,
                                    Commit, Unexpected, Crash
  <1>6. CASE InsertRun(c) \/ InsertCollides(c) \/ OpenConnector(c) \/ ReleaseLock(c)
    BY <1>2, <1>6 DEF InsertRun, InsertCollides, OpenConnector, ReleaseLock
  <1>7. CASE AcquireLock(c) \/ SkipRun(c) \/ ConnectionFails(c) \/ StreamFails(c)
    BY <1>1, <1>2, <1>7 DEF AcquireLock, SkipRun, ConnectionFails, StreamFails
  <1>8. CASE OpenStream(c)
    BY <1>1, <1>2, <1>8 DEF OpenStream
  <1>9. CASE FlushBatch(c)
    BY <1>1, <1>9 DEF FlushBatch
  <1>10. CASE FinishStream(c)
    BY <1>1, <1>2, <1>10 DEF FinishStream
  <1>11. CASE FlushRun(c)
    BY <1>1, <1>2, <1>11 DEF FlushRun
  <1>12. CASE Recycle(c)
    BY <1>12 DEF Recycle
  <1> QED BY <1>3, <1>5, <1>6, <1>7, <1>8, <1>9, <1>10, <1>11, <1>12
          DEF Attempt, Proceed, Insert, Failure

LEMMA LoadRecord ==
  ASSUME TypeOK, NEW c \in Conns, LoadSource(c)
  PROVE  /\ pc'[c] = "lookup"
         /\ att'[c].ok = {} /\ att'[c].bad = {} /\ att'[c].mine = {}
         /\ att'[c].status = "pending" /\ att'[c].timed = timed
         /\ att'[c].total = NoCounts /\ att'[c].part = NoCounts
         /\ att'[c].mark = hwm /\ att'[c].loaded = hwm
         /\ att'[c].todo \in Selections
  <1>1. PICK k \in Keys, sel \in Selections, inc \in Modes :
          att' = [att EXCEPT ![c] =
              [Idle EXCEPT !.key = k, !.incremental = inc, !.sel = sel,
                           !.todo = sel, !.timed = timed, !.loaded = hwm,
                           !.mark = hwm, !.health0 = health, !.health = health]]
    BY DEF LoadSource
  <1> DEFINE b == [Idle EXCEPT !.key = k, !.incremental = inc, !.sel = sel,
                           !.todo = sel, !.timed = timed, !.loaded = hwm,
                           !.mark = hwm, !.health0 = health, !.health = health]
  <1>2. /\ b.ok = {} /\ b.bad = {} /\ b.mine = {} /\ b.status = "pending"
        /\ b.timed = timed /\ b.total = NoCounts /\ b.part = NoCounts
        /\ b.mark = hwm /\ b.loaded = hwm /\ b.todo = sel
    BY DEF Idle
  <1>3. att'[c] = b
    BY <1>1, Updated
  <1>4. pc'[c] = "lookup"
    BY Moved DEF LoadSource
  <1> QED BY <1>2, <1>3, <1>4

LEMMA EndRecord ==
  ASSUME TypeOK, NEW c \in Conns, End(c)
  PROVE  pc'[c] = "idle" /\ att'[c] = Idle
  BY Moved, Updated DEF End

(* The fields that a step which sets another one leaves as they are.       *)
SameButStatus(b, a) ==
  /\ b.key = a.key /\ b.incremental = a.incremental /\ b.sel = a.sel
  /\ b.timed = a.timed /\ b.loaded = a.loaded /\ b.mark = a.mark
  /\ b.ok = a.ok /\ b.bad = a.bad /\ b.mine = a.mine
  /\ b.total = a.total /\ b.part = a.part /\ b.todo = a.todo

LEMMA StatusRecord ==
  ASSUME TypeOK, NEW c \in Conns
  PROVE  /\ AcquireLock(c) => /\ pc[c] = "trylock" /\ pc'[c] = "connect"
                              /\ SameButStatus(att'[c], att[c])
                              /\ att'[c].status = "running"
         /\ SkipRun(c) => /\ pc[c] = "trylock" /\ pc'[c] = "commit"
                          /\ SameButStatus(att'[c], att[c])
                          /\ att'[c].status = "skipped"
         /\ ConnectionFails(c) => /\ pc[c] = "connect" /\ pc'[c] = "flush"
                                  /\ SameButStatus(att'[c], att[c])
                                  /\ att'[c].status = "failed"
         /\ FlushRun(c) => /\ pc[c] = "flush" /\ pc'[c] = "unlock"
                           /\ SameButStatus(att'[c], att[c])
                           /\ att'[c].status =
                                IF att[c].status = "failed" \/ AllFailed(att[c])
                                THEN "failed" ELSE "completed"
  <1> DEFINE a == att[c]
  <1>0. a \in Attempts
    BY DEF TypeOK
  <1>1. ASSUME NEW st, NEW he, att' = [att EXCEPT ![c] = [a EXCEPT !.status = st,
                                                                 !.health = he]]
        PROVE  SameButStatus(att'[c], a) /\ att'[c].status = st
    <2> DEFINE b == [a EXCEPT !.status = st, !.health = he]
    <2>1. att'[c] = b
      BY <1>1, Updated
    <2>2. SameButStatus(b, a) /\ b.status = st
      BY <1>0 DEF Attempts, SameButStatus
    <2> QED BY <2>1, <2>2
  <1>2. ASSUME NEW st, att' = [att EXCEPT ![c].status = st]
        PROVE  SameButStatus(att'[c], a) /\ att'[c].status = st
    <2> DEFINE b == [a EXCEPT !.status = st]
    <2>1. att'[c] = b
      BY <1>2 DEF TypeOK
    <2>2. SameButStatus(b, a) /\ b.status = st
      BY <1>0 DEF Attempts, SameButStatus
    <2> QED BY <2>1, <2>2
  <1>3. ASSUME AcquireLock(c)
        PROVE  /\ pc[c] = "trylock" /\ pc'[c] = "connect"
               /\ SameButStatus(att'[c], a) /\ att'[c].status = "running"
    BY <1>2, <1>3, Moved DEF AcquireLock
  <1>4. ASSUME SkipRun(c)
        PROVE  /\ pc[c] = "trylock" /\ pc'[c] = "commit"
               /\ SameButStatus(att'[c], a) /\ att'[c].status = "skipped"
    BY <1>2, <1>4, Moved DEF SkipRun
  <1>5. ASSUME ConnectionFails(c)
        PROVE  /\ pc[c] = "connect" /\ pc'[c] = "flush"
               /\ SameButStatus(att'[c], a) /\ att'[c].status = "failed"
    <2>1. att' = [att EXCEPT ![c] = [a EXCEPT !.status = "failed", !.health = "error"]]
      BY <1>0, <1>5 DEF ConnectionFails, TypeOK, Attempts
    <2> QED BY <1>1, <1>5, <2>1, Moved DEF ConnectionFails
  <1>6. ASSUME FlushRun(c)
        PROVE  /\ pc[c] = "flush" /\ pc'[c] = "unlock"
               /\ SameButStatus(att'[c], a)
               /\ att'[c].status = IF a.status = "failed" \/ AllFailed(a)
                                   THEN "failed" ELSE "completed"
    BY <1>1, <1>6, Moved DEF FlushRun
  <1> QED BY <1>3, <1>4, <1>5, <1>6

LEMMA OpenRecord ==
  ASSUME TypeOK, NEW c \in Conns, OpenStream(c)
  PROVE  /\ pc[c] = "select" /\ pc'[c] = "ingest"
         /\ \E s \in att[c].todo : /\ att'[c].cur = s /\ att'[c].feed = Fetched(att[c], s)
                                  /\ att'[c].todo = att[c].todo \ {s}
         /\ att'[c].times = {} /\ att'[c].part = NoCounts
         /\ att'[c].key = att[c].key /\ att'[c].sel = att[c].sel
         /\ att'[c].timed = att[c].timed /\ att'[c].mark = att[c].mark
         /\ att'[c].ok = att[c].ok /\ att'[c].bad = att[c].bad
         /\ att'[c].mine = att[c].mine /\ att'[c].status = att[c].status
         /\ att'[c].total = att[c].total
  <1> DEFINE a == att[c]
  <1>1. PICK s \in a.todo :
          att' = [att EXCEPT ![c] =
              [a EXCEPT !.cur = s, !.feed = Fetched(a, s), !.times = {},
                        !.part = NoCounts, !.todo = a.todo \ {s}]]
    BY DEF OpenStream
  <1> DEFINE b == [a EXCEPT !.cur = s, !.feed = Fetched(a, s), !.times = {},
                            !.part = NoCounts, !.todo = a.todo \ {s}]
  <1>2. a \in Attempts
    BY DEF TypeOK
  <1>3. /\ b.cur = s /\ b.feed = Fetched(a, s) /\ b.times = {} /\ b.part = NoCounts
        /\ b.key = a.key /\ b.sel = a.sel /\ b.timed = a.timed /\ b.mark = a.mark
        /\ b.ok = a.ok /\ b.bad = a.bad /\ b.mine = a.mine /\ b.status = a.status
        /\ b.total = a.total /\ b.todo = a.todo \ {s}
    BY <1>2 DEF Attempts
  <1>4. att'[c] = b
    BY <1>1, Updated
  <1>5. pc[c] = "select" /\ pc'[c] = "ingest"
    BY Moved DEF OpenStream
  <1> QED BY <1>1, <1>3, <1>4, <1>5

LEMMA BatchRecord ==
  ASSUME TypeOK, NEW c \in Conns, FlushBatch(c)
  PROVE  /\ pc[c] = "ingest" /\ pc'[c] = "ingest"
         /\ att'[c].feed = att[c].feed \ Batch(att[c])
         /\ att'[c].mine = att[c].mine \cup NewFacts(att[c])
         /\ att'[c].times = att[c].times \cup {o.at : o \in Facts(att[c])}
         /\ att'[c].part = Plus(att[c].part,
                [seen |-> Cardinality(Facts(att[c])),
                 created |-> Cardinality(NewFacts(att[c])),
                 skipped |-> Cardinality(Facts(att[c])) - Cardinality(NewFacts(att[c]))])
         /\ att'[c].cur = att[c].cur /\ att'[c].key = att[c].key
         /\ att'[c].sel = att[c].sel
         /\ att'[c].timed = att[c].timed /\ att'[c].mark = att[c].mark
         /\ att'[c].ok = att[c].ok /\ att'[c].bad = att[c].bad
         /\ att'[c].status = att[c].status /\ att'[c].total = att[c].total
         /\ att'[c].todo = att[c].todo
  <1> DEFINE a == att[c]
             n == [seen |-> Cardinality(Facts(a)), created |-> Cardinality(NewFacts(a)),
                   skipped |-> Cardinality(Facts(a)) - Cardinality(NewFacts(a))]
             b == [a EXCEPT !.feed = a.feed \ Batch(a),
                            !.mine = a.mine \cup NewFacts(a),
                            !.times = a.times \cup {o.at : o \in Facts(a)},
                            !.part = Plus(a.part, n)]
  <1>1. att' = [att EXCEPT ![c] = b] /\ pc[c] = "ingest" /\ pc' = pc
    BY DEF FlushBatch
  <1>2. a \in Attempts
    BY DEF TypeOK
  <1>3. /\ b.feed = a.feed \ Batch(a) /\ b.mine = a.mine \cup NewFacts(a)
        /\ b.times = a.times \cup {o.at : o \in Facts(a)} /\ b.part = Plus(a.part, n)
        /\ b.cur = a.cur /\ b.key = a.key /\ b.sel = a.sel /\ b.timed = a.timed
        /\ b.mark = a.mark /\ b.ok = a.ok /\ b.bad = a.bad /\ b.status = a.status
        /\ b.total = a.total /\ b.todo = a.todo
    BY <1>2 DEF Attempts
  <1>4. att'[c] = b
    <2> HIDE DEF b
    <2> QED BY <1>1, Updated
  <1> HIDE DEF b
  <1> QED BY <1>1, <1>3, <1>4

LEMMA FinishRecord ==
  ASSUME TypeInv, NEW c \in Conns, FinishStream(c)
  PROVE  /\ pc[c] = "ingest" /\ pc'[c] = AfterStream(c)
         /\ \E t \in att[c].times \cup {att[c].mark[att[c].cur]} :
               \A s \in Streams : att'[c].mark[s] = IF s = att[c].cur THEN t
                                                    ELSE att[c].mark[s]
         /\ att'[c].total = Plus(att[c].total, att[c].part)
         /\ att'[c].part = att[c].part
         /\ att'[c].ok = att[c].ok \cup {att[c].cur}
         /\ att'[c].cur = att[c].cur /\ att'[c].key = att[c].key
         /\ att'[c].sel = att[c].sel /\ att'[c].timed = att[c].timed
         /\ att'[c].bad = att[c].bad /\ att'[c].status = att[c].status
         /\ att'[c].mine = att[c].mine /\ att'[c].todo = att[c].todo
  <1> DEFINE a == att[c]
  <1>1. PICK t \in a.times \cup {a.mark[a.cur]} :
          att' = [att EXCEPT ![c] =
              [a EXCEPT !.mark[a.cur] = t, !.total = Plus(a.total, a.part),
                        !.ok = a.ok \cup {a.cur}]]
    BY DEF FinishStream
  <1> DEFINE m == [a.mark EXCEPT ![a.cur] = t]
             b == [a EXCEPT !.mark = m, !.total = Plus(a.total, a.part),
                            !.ok = a.ok \cup {a.cur}]
  <1>2. a \in Attempts
    BY DEF TypeInv, TypeOK
  <1>3. att'[c] = b
    <2>1. att'[c] = [a EXCEPT !.mark[a.cur] = t, !.total = Plus(a.total, a.part),
                              !.ok = a.ok \cup {a.cur}]
      BY <1>1, Updated DEF TypeInv
    <2> QED BY <1>2, <2>1 DEF Attempts
  <1>4. \A s \in Streams : m[s] = IF s = a.cur THEN t ELSE a.mark[s]
    BY <1>2 DEF Attempts
  <1>5. /\ b.mark = m /\ b.total = Plus(a.total, a.part) /\ b.part = a.part
        /\ b.ok = a.ok \cup {a.cur} /\ b.cur = a.cur /\ b.key = a.key
        /\ b.sel = a.sel /\ b.timed = a.timed /\ b.bad = a.bad
        /\ b.status = a.status /\ b.mine = a.mine /\ b.todo = a.todo
    <2> HIDE DEF m
    <2> QED BY <1>2 DEF Attempts
  <1>6. pc[c] = "ingest" /\ pc'[c] = AfterStream(c)
    BY Moved DEF FinishStream, TypeInv
  <1> HIDE DEF b, m
  <1> QED BY <1>3, <1>4, <1>5, <1>6

LEMMA FailRecord ==
  ASSUME TypeOK, NEW c \in Conns, StreamFails(c)
  PROVE  /\ pc[c] = "ingest" /\ pc'[c] = AfterStream(c)
         /\ att'[c].bad = att[c].bad \cup {att[c].cur}
         /\ att'[c].total = att[c].total /\ att'[c].part = att[c].part
         /\ att'[c].ok = att[c].ok /\ att'[c].key = att[c].key
         /\ att'[c].sel = att[c].sel /\ att'[c].timed = att[c].timed
         /\ att'[c].mark = att[c].mark /\ att'[c].status = att[c].status
         /\ att'[c].mine = att[c].mine /\ att'[c].todo = att[c].todo
  <1> DEFINE a == att[c]
             b == [a EXCEPT !.bad = a.bad \cup {a.cur}, !.feed = {}]
  <1>1. att'[c] = b
    BY Updated DEF StreamFails
  <1>2. a \in Attempts
    BY DEF TypeOK
  <1>3. /\ b.bad = a.bad \cup {a.cur} /\ b.total = a.total /\ b.part = a.part
        /\ b.ok = a.ok /\ b.key = a.key /\ b.sel = a.sel /\ b.timed = a.timed
        /\ b.mark = a.mark /\ b.status = a.status /\ b.mine = a.mine
        /\ b.todo = a.todo
    BY <1>2 DEF Attempts
  <1>4. pc[c] = "ingest" /\ pc'[c] = AfterStream(c)
    BY Moved DEF StreamFails
  <1> QED BY <1>1, <1>3, <1>4

-----------------------------------------------------------------------------
(* What the record of an attempt says by where the attempt is: it has read *)
(* no stream before it has a connector, and what it has read to the end    *)
(* and what has failed decide what its run is called.                      *)
Beginning == {"idle", "lookup", "insert", "refused", "trylock"}

PhaseOf(c) ==
    LET a == att[c] IN
    /\ pc[c] \in Beginning \cup {"connect"} => a.ok = {} /\ a.bad = {}
    /\ pc[c] \in Beginning => a.status = "pending"
    /\ pc[c] \in {"connect", "select", "ingest"} => a.status = "running"
    /\ pc[c] = "flush" => a.status \in {"running", "failed"}
    /\ pc[c] \in {"unlock", "commit"} => a.status \notin {"pending", "running"}
    /\ a.status = "skipped" => a.ok = {} /\ a.bad = {}
    /\ a.status = "completed" => ~AllFailed(a)
    /\ a.status = "failed" => a.ok = {}
    /\ a.ok \subseteq a.sel

PhaseInv == \A c \in Conns : PhaseOf(c)

LEMMA InitPhase == Init => PhaseInv
  BY DEF Init, PhaseInv, PhaseOf, Idle, Beginning

LEMMA PhaseOfActor ==
  ASSUME TypeInv, OwnInv, NEW c \in Conns, PhaseOf(c), Attempt(c) \/ Failure(c)
  PROVE  PhaseOf(c)'
  <1> USE DEF Beginning
  <1>0. TypeOK /\ att[c] \in Attempts
    BY DEF TypeInv, TypeOK
  <1>1. CASE LoadSource(c)
    BY <1>0, <1>1, LoadRecord DEF PhaseOf
  <1>2. CASE End(c)
    BY <1>0, <1>2, EndRecord DEF PhaseOf, Idle
  <1>3. CASE \/ InsertOrphaned(c) \/ Refuse(c) \/ FlushRejected(c) \/ FlushOrphaned(c)
             \/ FlushStale(c) \/ Commit(c) \/ Unexpected(c) \/ Crash(c)
    BY <1>2, <1>3 DEF InsertOrphaned, Refuse, FlushRejected, FlushOrphaned, Aborts, FlushStale, Commit,
                      Unexpected, Crash
  <1>4. CASE FindExisting(c)
    BY <1>0, <1>2, <1>4, Moved DEF FindExisting, PhaseOf
  <1>5. CASE InsertRun(c) \/ InsertCollides(c) \/ OpenConnector(c) \/ ReleaseLock(c)
    BY <1>0, <1>5, Moved
    DEF InsertRun, InsertCollides, OpenConnector, ReleaseLock, PhaseOf
  <1>6. CASE AcquireLock(c) \/ SkipRun(c) \/ ConnectionFails(c) \/ FlushRun(c)
    BY <1>0, <1>6, StatusRecord DEF SameButStatus, PhaseOf, AllFailed
  <1>7. CASE OpenStream(c)
    BY <1>0, <1>7, OpenRecord DEF PhaseOf
  <1>8. CASE FlushBatch(c)
    BY <1>0, <1>8, BatchRecord DEF PhaseOf
  <1>9. CASE FinishStream(c)
    <2>1. att[c].cur \in att[c].sel
      BY <1>9 DEF FinishStream, OwnInv
    <2> QED BY <1>9, <2>1, FinishRecord DEF PhaseOf, AfterStream
  <1>10. CASE StreamFails(c)
    BY <1>0, <1>10, FailRecord DEF PhaseOf, AfterStream
  <1>11. CASE Recycle(c)
    BY <1>11 DEF Recycle, PhaseOf
  <1> QED BY <1>1, <1>3, <1>4, <1>5, <1>6, <1>7, <1>8, <1>9, <1>10, <1>11
          DEF Attempt, Proceed, Insert, Failure

LEMMA PhaseStep ==
  ASSUME TypeInv, OwnInv, PhaseInv, [Next]_vars
  PROVE  PhaseInv'
  <1>1. ASSUME NEW c \in Conns, Attempt(c) \/ Failure(c) PROVE PhaseInv'
    <2>1. \A d \in Conns \ {c} : PhaseOf(d)'
      BY <1>1, OthersStay DEF TypeInv, PhaseInv, PhaseOf
    <2>2. PhaseOf(c)'
      BY <1>1, PhaseOfActor DEF PhaseInv
    <2> QED BY <2>1, <2>2 DEF PhaseInv
  <1>2. ASSUME UNCHANGED <<pc, att>> PROVE PhaseInv'
    BY <1>2 DEF PhaseInv, PhaseOf
  <1>3. ASSUME NEW s \in Streams, Operator(s) PROVE PhaseInv'
    BY <1>2, <1>3 DEF Operator, DeleteStream, RetimeStream
  <1>4. CASE Customer \/ UNCHANGED vars
    BY <1>2, <1>4 DEF Customer, Tick, SourceWrites, SourceDeletes, vars
  <1> QED BY <1>1, <1>3, <1>4 DEF Next

(* A stamp names a completed run, and not one that can go with the         *)
(* deletion of another stream.                                             *)
VouchedBy(s, k) ==
    /\ runs[k].status = "completed"
    /\ runs[k].only = {} \/ s \in runs[k].only

StampInv == \A s \in present : stamp[s] # "none" => VouchedBy(s, stamp[s])

LEMMA CommitVouches ==
  ASSUME TypeInv, KeyInv, OwnInv, PhaseInv, StampInv, NEW c \in Conns, Commit(c)
  PROVE  StampInv'
  <1> DEFINE a == att[c]
  <1>1. /\ a.key \in Keys /\ runs[a.key] = NoRun /\ runs'[a.key] = RunRecord(a)
        /\ \A k \in Keys \ {a.key} : runs'[k] = runs[k]
    BY CommitFacts
  <1>2. present' = present /\ stamp' = [s \in Streams |-> IF s \in a.ok THEN a.key ELSE stamp[s]]
    BY DEF Commit, Stamped, catalog
  <1> SUFFICES ASSUME NEW s \in present, stamp'[s] # "none" PROVE VouchedBy(s, stamp[s])'
    BY <1>2 DEF StampInv
  <1>3. s \in Streams /\ stamp[s] \in Keys \cup {"none"}
    BY DEF TypeInv, TypeOK
  <1>4. CASE s \in a.ok
    <2>1. a.status \in SyncStatus /\ PhaseOf(c) /\ pc[c] = "commit"
      BY DEF TypeInv, TypeOK, Attempts, PhaseInv, Commit
    <2>2. a.status = "completed"
      BY <1>4, <2>1 DEF PhaseOf, SyncStatus
    <2>3. s \in a.sel
      BY <1>4, <2>1 DEF PhaseOf
    <2>4. stamp'[s] = a.key
      BY <1>2, <1>3, <1>4
    <2>5. RunRecord(a).status = "completed" /\ RunRecord(a).only \in {{}, a.sel}
      BY <2>2 DEF RunRecord
    <2> QED BY <1>1, <2>3, <2>4, <2>5 DEF VouchedBy
  <1>5. CASE s \notin a.ok
    <2>1. stamp'[s] = stamp[s] /\ stamp[s] # "none"
      BY <1>2, <1>3, <1>5
    <2>2. VouchedBy(s, stamp[s]) /\ stamp[s] \in Keys
      BY <1>3, <2>1 DEF StampInv
    <2>3. stamp[s] # a.key
      BY <1>1, <2>2 DEF VouchedBy, NoRun
    <2> QED BY <1>1, <2>1, <2>2, <2>3 DEF VouchedBy
  <1> QED BY <1>4, <1>5

LEMMA StampStep ==
  ASSUME TypeInv, KeyInv, OwnInv, PhaseInv, StampInv, [Next]_vars
  PROVE  StampInv'
  <1>1. ASSUME NEW s \in Streams, DeleteStream(s) PROVE StampInv'
    <2> SUFFICES ASSUME NEW u \in present', stamp'[u] # "none"
                 PROVE  VouchedBy(u, stamp[u])'
      BY DEF StampInv
    <2>1. u \in present /\ u # s /\ u \in Streams
      BY <1>1 DEF DeleteStream, TypeInv, TypeOK
    <2>2. stamp'[u] = stamp[u] /\ stamp[u] \in Keys \cup {"none"}
      BY <1>1, <2>1 DEF DeleteStream, TypeInv, TypeOK
    <2>3. VouchedBy(u, stamp[u]) /\ stamp[u] \in Keys
      BY <2>1, <2>2 DEF StampInv
    <2>4. runs[stamp[u]].only # {s}
      BY <2>1, <2>3 DEF VouchedBy
    <2>5. runs'[stamp[u]] = runs[stamp[u]]
      BY <1>1, <2>3, <2>4 DEF DeleteStream
    <2> QED BY <2>2, <2>3, <2>5 DEF VouchedBy
  <1>2. ASSUME UNCHANGED <<present, stamp, runs>> PROVE StampInv'
    BY <1>2 DEF StampInv, VouchedBy
  <1>3. ASSUME NEW c \in Conns, Attempt(c), ~Commit(c) PROVE UNCHANGED <<present, stamp, runs>>
    BY <1>3 DEF Attempt, Proceed, Insert, LoadSource, FindExisting, InsertRun,
       InsertCollides, InsertOrphaned, Refuse, AcquireLock, SkipRun, OpenConnector,
       OpenStream, FlushBatch, FlushRejected, FlushOrphaned, Aborts, FinishStream, FlushRun, FlushStale,
       ReleaseLock, catalog, committed
  <1>4. ASSUME NEW c \in Conns, Failure(c) PROVE UNCHANGED <<present, stamp, runs>>
    BY <1>4 DEF Failure, ConnectionFails, Unexpected, StreamFails, Crash, Recycle,
       catalog, committed
  <1>5. ASSUME NEW s \in Streams, RetimeStream(s) PROVE UNCHANGED <<present, stamp, runs>>
    BY <1>5 DEF RetimeStream, committed
  <1>6. ASSUME Customer \/ UNCHANGED vars PROVE UNCHANGED <<present, stamp, runs>>
    BY <1>6 DEF Customer, Tick, SourceWrites, SourceDeletes, vars, catalog, committed
  <1> QED BY <1>1, <1>2, <1>3, <1>4, <1>5, <1>6, CommitVouches DEF Next, Operator

(* What the rest of the proofs stand on.                                   *)
SyncInv == TypeInv /\ LockInv /\ UniqueObservations /\ KeyInv /\ OwnInv /\ Traced /\ PhaseInv

LEMMA InitSyncInv == Init => SyncInv
  BY InitTypeInv, InitLock, InitUnique, InitKey, InitOwn, InitTraced, InitPhase DEF SyncInv

LEMMA SyncInvStep == SyncInv /\ [Next]_vars => SyncInv'
  BY TypeStep, LockStep, UniqueStep, KeyStep, OwnStep, TracedStep, PhaseStep DEF SyncInv

(* last_synced_at is only ever set together with a run that completed, and *)
(* that run is kept as long as the stream: the freshness of a stream can   *)
(* be traced, whatever streams are deleted meanwhile.                      *)
THEOREM FreshnessIsVouched == Spec => []FreshnessVouched
  <1>1. Init => SyncInv /\ StampInv
    BY InitSyncInv DEF Init, StampInv, TypeInv, TypeOK
  <1>2. SyncInv /\ StampInv /\ [Next]_vars => (SyncInv /\ StampInv)'
    BY SyncInvStep, StampStep DEF SyncInv
  <1>3. StampInv => FreshnessVouched
    BY DEF StampInv, VouchedBy, FreshnessVouched
  <1> QED BY <1>1, <1>2, <1>3, PTL DEF Spec

-----------------------------------------------------------------------------
(* The counters of an attempt that no stream has failed count what it has  *)
(* inserted.                                                               *)
Adds(n) == n.seen = n.created + n.skipped

CountedOf(c) ==
    LET a == att[c] IN
    /\ IsFiniteSet(a.mine)
    /\ Adds(a.total) /\ Adds(a.part)
    /\ pc[c] \in Beginning => a.mine = {} /\ a.total = NoCounts
    /\ a.bad = {} => Cardinality(a.mine) =
          IF pc[c] = "ingest" THEN a.total.created + a.part.created
          ELSE a.total.created

CountInv == \A c \in Conns : CountedOf(c)

LEMMA InitCount == Init => CountInv
  <1> SUFFICES ASSUME Init, NEW c \in Conns PROVE CountedOf(c)
    BY DEF CountInv
  <1>1. att[c] = Idle /\ pc[c] = "idle"
    BY DEF Init
  <1>2. /\ Idle.mine = {} /\ Idle.total = NoCounts /\ Idle.part = NoCounts
        /\ NoCounts.created = 0 /\ Adds(NoCounts)
    BY DEF Idle, NoCounts, Adds
  <1>3. Cardinality({}) = 0 /\ IsFiniteSet({})
    BY FS_EmptySet
  <1> QED BY <1>1, <1>2, <1>3 DEF CountedOf

(* What a batch inserts was not there before, so it is counted once.       *)
LEMMA NewFactsCount ==
  ASSUME NEW a, IsFiniteSet(a.feed), IsFiniteSet(a.mine)
  PROVE  /\ IsFiniteSet(a.mine \cup NewFacts(a))
         /\ Cardinality(a.mine \cup NewFacts(a))
                = Cardinality(a.mine) + Cardinality(NewFacts(a))
  <1>1. IsFiniteSet(NewFacts(a))
    <2>1. NewFacts(a) \in SUBSET Facts(a) /\ IsFiniteSet(Facts(a))
      BY FactsFinite DEF NewFacts
    <2> QED BY <2>1, FS_Subset
  <1>2. a.mine \cap NewFacts(a) = {}
    BY DEF NewFacts, SameFingerprint
  <1>3. Cardinality(a.mine \cap NewFacts(a)) = 0
    BY <1>2, FS_EmptySet
  <1>4. Cardinality(a.mine) \in Nat /\ Cardinality(NewFacts(a)) \in Nat
    BY <1>1, FS_CardinalityType
  <1>5. /\ IsFiniteSet(a.mine \cup NewFacts(a))
        /\ Cardinality(a.mine \cup NewFacts(a)) =
              Cardinality(a.mine) + Cardinality(NewFacts(a))
                - Cardinality(a.mine \cap NewFacts(a))
    BY <1>1, FS_Union
  <1> QED BY <1>3, <1>4, <1>5

LEMMA PlusAdds ==
  ASSUME NEW m, NEW n, m.created \in Int, m.skipped \in Int, n.created \in Int,
         n.skipped \in Int, Adds(m), Adds(n)
  PROVE  Adds(Plus(m, n)) /\ Plus(m, n).created = m.created + n.created
  BY DEF Adds, Plus

LEMMA CountedActor ==
  ASSUME TypeInv, PhaseInv, NEW c \in Conns, CountedOf(c), Attempt(c) \/ Failure(c)
  PROVE  CountedOf(c)'
  <1> USE DEF Beginning
  <1> DEFINE a == att[c]
  <1>0. TypeOK /\ a \in Attempts /\ PhaseOf(c) /\ a.total \in Counts /\ a.part \in Counts
    BY DEF TypeInv, TypeOK, PhaseInv, Attempts
  <1>1. Adds(NoCounts) /\ NoCounts.created = 0
    BY DEF Adds, NoCounts
  <1>2. Cardinality({}) = 0 /\ IsFiniteSet({})
    BY FS_EmptySet
  <1>3. CASE LoadSource(c)
    BY <1>0, <1>1, <1>2, <1>3, LoadRecord DEF CountedOf
  <1>4. CASE End(c)
    BY <1>0, <1>1, <1>2, <1>4, EndRecord DEF CountedOf, Idle
  <1>5. CASE \/ InsertOrphaned(c) \/ Refuse(c) \/ FlushRejected(c) \/ FlushOrphaned(c)
             \/ FlushStale(c) \/ Commit(c) \/ Unexpected(c) \/ Crash(c)
    BY <1>4, <1>5 DEF InsertOrphaned, Refuse, FlushRejected, FlushOrphaned, Aborts, FlushStale, Commit,
                      Unexpected, Crash
  <1>6. CASE FindExisting(c)
    BY <1>0, <1>4, <1>6, Moved DEF FindExisting, CountedOf
  <1>7. CASE InsertRun(c) \/ InsertCollides(c) \/ OpenConnector(c) \/ ReleaseLock(c)
    BY <1>0, <1>7, Moved
    DEF InsertRun, InsertCollides, OpenConnector, ReleaseLock, CountedOf
  <1>8. CASE AcquireLock(c) \/ SkipRun(c) \/ ConnectionFails(c) \/ FlushRun(c)
    BY <1>0, <1>8, StatusRecord DEF SameButStatus, CountedOf
  <1>9. CASE OpenStream(c)
    <2>1. /\ pc[c] = "select" /\ pc'[c] = "ingest" /\ att'[c].part = NoCounts
          /\ att'[c].mine = a.mine /\ att'[c].total = a.total /\ att'[c].bad = a.bad
      BY <1>0, <1>9, OpenRecord
    <2>2. a.total.created + 0 = a.total.created
      BY <1>0 DEF Counts
    <2> QED BY <1>1, <2>1, <2>2 DEF CountedOf
  <1>10. CASE FlushBatch(c)
    <2> DEFINE n == [seen |-> Cardinality(Facts(a)), created |-> Cardinality(NewFacts(a)),
                     skipped |-> Cardinality(Facts(a)) - Cardinality(NewFacts(a))]
    <2>1. /\ pc[c] = "ingest" /\ pc'[c] = "ingest" /\ att'[c].part = Plus(a.part, n)
          /\ att'[c].mine = a.mine \cup NewFacts(a)
          /\ att'[c].total = a.total /\ att'[c].bad = a.bad
      BY <1>0, <1>10, BatchRecord
    <2>2. IsFiniteSet(a.feed) /\ IsFiniteSet(a.mine)
      BY DEF TypeInv, FiniteRows, CountedOf
    <2>3. Cardinality(Facts(a)) \in Nat /\ Cardinality(NewFacts(a)) \in Nat
      BY <2>2, FactsFinite
    <2>4. Adds(n) /\ n.created \in Int /\ n.skipped \in Int
      BY <2>3 DEF Adds
    <2>5. a.part.created \in Int /\ a.part.skipped \in Int /\ a.total.created \in Int
      BY <1>0 DEF Counts
    <2>6. Adds(Plus(a.part, n)) /\ Plus(a.part, n).created = a.part.created + n.created
      <3> HIDE DEF n
      <3> QED BY <2>4, <2>5, PlusAdds DEF CountedOf
    <2>7. /\ IsFiniteSet(a.mine \cup NewFacts(a))
          /\ Cardinality(a.mine \cup NewFacts(a)) = Cardinality(a.mine) + n.created
      BY <2>2, NewFactsCount
    <2>8. a.bad = {} => Cardinality(a.mine) = a.total.created + a.part.created
      BY <2>1 DEF CountedOf
    <2>9. a.bad = {} => Cardinality(att'[c].mine) = a.total.created + att'[c].part.created
      <3> HIDE DEF n
      <3> QED BY <2>1, <2>4, <2>5, <2>6, <2>7, <2>8
    <2> HIDE DEF n
    <2> QED BY <2>1, <2>6, <2>7, <2>9 DEF CountedOf
  <1>11. CASE FinishStream(c)
    <2>1. /\ pc[c] = "ingest" /\ pc'[c] \in {"flush", "select"}
          /\ att'[c].part = a.part /\ att'[c].total = Plus(a.total, a.part)
          /\ att'[c].mine = a.mine /\ att'[c].bad = a.bad
      BY <1>11, FinishRecord DEF AfterStream
    <2>2. /\ Adds(Plus(a.total, a.part))
          /\ Plus(a.total, a.part).created = a.total.created + a.part.created
      BY <1>0, PlusAdds DEF CountedOf, Counts
    <2> QED BY <2>1, <2>2 DEF CountedOf
  <1>12. CASE StreamFails(c)
    <2>1. /\ pc'[c] \in {"flush", "select"} /\ att'[c].bad # {}
          /\ att'[c].part = a.part /\ att'[c].total = a.total /\ att'[c].mine = a.mine
      BY <1>0, <1>12, FailRecord DEF AfterStream
    <2> QED BY <2>1 DEF CountedOf
  <1>13. CASE Recycle(c)
    BY <1>13 DEF Recycle, CountedOf
  <1> QED BY <1>3, <1>5, <1>6, <1>7, <1>8, <1>9, <1>10, <1>11, <1>12, <1>13
          DEF Attempt, Proceed, Insert, Failure

LEMMA CountStep ==
  ASSUME TypeInv, PhaseInv, CountInv, [Next]_vars
  PROVE  CountInv'
  <1>1. ASSUME NEW c \in Conns, Attempt(c) \/ Failure(c) PROVE CountInv'
    <2>1. \A d \in Conns \ {c} : CountedOf(d)'
      BY <1>1, OthersStay DEF TypeInv, CountInv, CountedOf
    <2>2. CountedOf(c)'
      BY <1>1, CountedActor DEF CountInv
    <2> QED BY <2>1, <2>2 DEF CountInv
  <1>2. ASSUME UNCHANGED <<pc, att>> PROVE CountInv'
    BY <1>2 DEF CountInv, CountedOf
  <1>3. ASSUME NEW s \in Streams, Operator(s) PROVE CountInv'
    BY <1>2, <1>3 DEF Operator, DeleteStream, RetimeStream
  <1>4. CASE Customer \/ UNCHANGED vars
    BY <1>2, <1>4 DEF Customer, Tick, SourceWrites, SourceDeletes, vars
  <1> QED BY <1>1, <1>3, <1>4 DEF Next

LEMMA CommitAccounts ==
  ASSUME SyncInv, CountInv, CleanRunsAccounted, NEW c \in Conns, Commit(c)
  PROVE  CleanRunsAccounted'
  <1> DEFINE a == att[c]
  <1>1. /\ a.key \in Keys /\ runs[a.key] = NoRun /\ runs'[a.key] = RunRecord(a)
        /\ \A k \in Keys \ {a.key} : runs'[k] = runs[k]
        /\ obs' = obs \cup a.mine /\ \A o \in a.mine : o.run = a.key
    BY CommitFacts DEF SyncInv
  <1>2. \A o \in obs : o.run # a.key
    BY <1>1 DEF SyncInv, Traced
  <1>3. ASSUME NEW k \in Keys, k = a.key PROVE Brought(k)' = a.mine
    BY <1>1, <1>2, <1>3 DEF Brought
  <1>4. \A k \in Keys \ {a.key} : Brought(k)' = Brought(k)
    BY <1>1 DEF Brought
  <1>5. ASSUME NEW k \in Keys, k = a.key, a.status \in {"completed", "skipped"},
               ~RunRecord(a).partial
        PROVE  Accounted(k)'
    <2>1. PhaseOf(c) /\ CountedOf(c) /\ pc[c] = "commit"
      BY DEF SyncInv, PhaseInv, CountInv, Commit
    <2>2. ~(a.ok # {} /\ a.bad # {})
      BY <1>5 DEF RunRecord
    <2>3. a.bad = {}
      BY <1>5, <2>1, <2>2 DEF PhaseOf, AllFailed
    <2>4. Cardinality(a.mine) = a.total.created /\ Adds(a.total)
      BY <2>1, <2>3 DEF CountedOf
    <2>5. runs'[k].counts = a.total
      BY <1>1, <1>5 DEF RunRecord
    <2>6. Brought(k)' = a.mine
      BY <1>3, <1>5
    <2> QED BY <2>4, <2>5, <2>6 DEF Accounted, Adds
  <1>6. RunRecord(a).status = a.status
    BY DEF RunRecord
  <1> SUFFICES ASSUME NEW k \in Keys, runs'[k].status \in {"completed", "skipped"},
                      ~runs'[k].partial
               PROVE  Accounted(k)'
    BY DEF CleanRunsAccounted
  <1>7. CASE k = a.key
    BY <1>1, <1>5, <1>6, <1>7
  <1>8. CASE k # a.key
    BY <1>1, <1>4, <1>8 DEF CleanRunsAccounted, Accounted
  <1> QED BY <1>7, <1>8

(* The counters of a run without failures add up and count the             *)
(* observations that name it, however many attempts ran beside it, as long *)
(* as no stream is deleted, whose observations would go and not the count. *)
THEOREM RunsAreAccounted ==
  ASSUME "delete" \notin Events
  PROVE  Spec => []CleanRunsAccounted
  <1>1. Init => SyncInv /\ CountInv /\ CleanRunsAccounted
    BY InitSyncInv, InitCount DEF Init, CleanRunsAccounted, NoRun
  <1>2. SyncInv /\ CountInv /\ CleanRunsAccounted /\ [Next]_vars => CleanRunsAccounted'
    <2> SUFFICES ASSUME SyncInv, CountInv, CleanRunsAccounted, [Next]_vars
                 PROVE  CleanRunsAccounted'
      OBVIOUS
    <2>1. CASE \E c \in Conns : Commit(c)
      BY <2>1, CommitAccounts
    <2>2. CASE UNCHANGED <<obs, runs>>
      BY <2>2 DEF CleanRunsAccounted, Accounted, Brought
    <2>3. ~\E s \in Streams : DeleteStream(s)
      BY DEF DeleteStream
    <2> QED BY <2>1, <2>2, <2>3, CommittedChanges DEF SyncInv, TypeInv
  <1>3. SyncInv /\ CountInv /\ [Next]_vars => CountInv'
    BY CountStep DEF SyncInv
  <1> QED BY <1>1, <1>2, <1>3, SyncInvStep, PTL DEF Spec

-----------------------------------------------------------------------------
(* What an attempt may take for read: it is stored, or among what the      *)
(* attempt is about to store.                                              *)
Stored(c, s, r) ==
    \E o \in obs \cup att[c].mine : o.stream = s /\ o.pk = r.pk /\ o.ver = r.ver

(* Nothing that is not stored is before the mark an attempt has in memory, *)
(* or, in the stream it reads, before anything it has read or fetched.     *)
ReachOf(c) ==
    LET a == att[c] IN
    pc[c] # "idle" =>
        /\ a.timed = timed
        /\ \A s \in present \cap timed :
              /\ a.mark[s] <= now
              /\ \A r \in table[s] : Stored(c, s, r) \/ r.ver >= a.mark[s]
        /\ pc[c] = "ingest" /\ a.cur \in present \cap timed =>
              /\ \A t \in a.times : t <= now
              /\ \A q \in a.feed : q.ver <= now
              /\ \A r \in table[a.cur] :
                    \/ Stored(c, a.cur, r) \/ r \in a.feed
                    \/ /\ \A t \in a.times : r.ver >= t
                       /\ \A q \in a.feed : r.ver >= q.ver

ReachInv ==
    /\ \A s \in Streams : \A r \in table[s] : r.ver <= now
    /\ \A s \in present \cap timed : hwm[s] <= now
    /\ NothingOutOfReach
    /\ \A c \in Conns : ReachOf(c)

LEMMA InitReach == Init => ReachInv
  <1> SUFFICES ASSUME Init PROVE ReachInv
    OBVIOUS
  <1>1. now = 1 /\ \A s \in Streams : \A r \in table[s] : r.ver = 1
    BY DEF Init
  <1>2. present = Streams /\ \A s \in Streams : hwm[s] = 0
    BY DEF Init
  <1>3. \A c \in Conns : pc[c] = "idle"
    BY DEF Init
  <1> QED BY <1>1, <1>2, <1>3 DEF ReachInv, ReachOf, NothingOutOfReach, InReach

LEMMA RowFields ==
  ASSUME NEW r \in Row
  PROVE  r.ver \in Nat /\ r.ver >= 1 /\ r.pk \in Nat
  <1>1. r.ver \in 1 .. MaxTime /\ r.pk \in Pks
    BY DEF Row, Times
  <1>2. MaxTime \in Nat /\ Pks \subseteq Nat
    BY ConstantsAssumption
  <1>3. r.pk \in Nat
    BY <1>1, <1>2
  <1>4. r.ver \in Nat /\ r.ver >= 1
    BY <1>1, <1>2
  <1> QED BY <1>3, <1>4

(* What a limited read leaves out is no earlier than what it returns.      *)
LEMMA FirstOrdered ==
  ASSUME NEW S, IsFiniteSet(S), S \subseteq Row, NEW n \in Nat,
         NEW r \in S, r \notin First(n, S, TRUE), NEW q \in First(n, S, TRUE)
  PROVE  r.ver >= q.ver
  <1> DEFINE Ahead(x) == {y \in S : Precedes(y, x, TRUE)}
  <1>1. q \in S /\ \A y \in S : y.ver \in Nat /\ y.pk \in Nat
    BY RowFields DEF First
  <1>2. Cardinality(Ahead(q)) < n /\ ~(Cardinality(Ahead(r)) < n)
    BY DEF First
  <1> SUFFICES ASSUME r.ver < q.ver PROVE FALSE
    BY <1>1
  <1>3. Ahead(r) \subseteq Ahead(q)
    BY <1>1 DEF Precedes
  <1>4. IsFiniteSet(Ahead(q)) /\ IsFiniteSet(Ahead(r))
    BY FS_Subset
  <1>5. Cardinality(Ahead(r)) <= Cardinality(Ahead(q))
    BY <1>3, <1>4, FS_Subset
  <1>6. Cardinality(Ahead(r)) \in Nat /\ Cardinality(Ahead(q)) \in Nat
    BY <1>4, FS_CardinalityType
  <1> HIDE DEF Ahead
  <1> QED BY <1>2, <1>5, <1>6

(* Only the deletion of a stream takes observations away, and only its own. *)
LEMMA ObservationsStay ==
  ASSUME TypeOK, NEW c \in Conns, Attempt(c) \/ Failure(c)
  PROVE  /\ obs \subseteq obs'
         /\ Commit(c) \/ UNCHANGED hwm
  <1>1. ASSUME Attempt(c), ~Commit(c) PROVE UNCHANGED <<obs, hwm>>
    BY <1>1 DEF Attempt, Proceed, Insert, LoadSource, FindExisting, InsertRun,
       InsertCollides, InsertOrphaned, Refuse, AcquireLock, SkipRun, OpenConnector,
       OpenStream, FlushBatch, FlushRejected, FlushOrphaned, Aborts, FinishStream, FlushRun, FlushStale,
       ReleaseLock, committed
  <1>2. ASSUME Failure(c) PROVE UNCHANGED <<obs, hwm>>
    BY <1>2 DEF Failure, ConnectionFails, Unexpected, StreamFails, Crash, Recycle,
       committed
  <1>3. ASSUME Commit(c) PROVE obs \subseteq obs'
    BY <1>3 DEF Commit
  <1> QED BY <1>1, <1>2, <1>3

(* Nothing comes out of an attempt's reach by what does not concern it.    *)
LEMMA ReachSame ==
  ASSUME NEW d \in Conns, ReachOf(d), att'[d] = att[d], pc'[d] = pc[d],
         UNCHANGED <<now, table, timed>>, present' \subseteq present,
         \A o \in obs : o.stream \in present' => o \in obs'
  PROVE  ReachOf(d)'
  <1>1. \A s \in present' : \A r : Stored(d, s, r) => Stored(d, s, r)'
    BY DEF Stored
  <1>2. CASE pc[d] = "idle"
    BY <1>2 DEF ReachOf
  <1>3. CASE pc[d] # "idle"
    <2>1. \A s \in present' \cap timed :
             /\ att[d].mark[s] <= now
             /\ \A r \in table[s] : Stored(d, s, r)' \/ r.ver >= att[d].mark[s]
      BY <1>1, <1>3 DEF ReachOf
    <2>2. pc[d] = "ingest" /\ att[d].cur \in present' \cap timed =>
             /\ \A t \in att[d].times : t <= now
             /\ \A q \in att[d].feed : q.ver <= now
             /\ \A s \in {att[d].cur} : \A r \in table[s] :
                   \/ Stored(d, s, r)' \/ r \in att[d].feed
                   \/ /\ \A t \in att[d].times : r.ver >= t
                      /\ \A q \in att[d].feed : r.ver >= q.ver
      BY <1>1, <1>3 DEF ReachOf
    <2>3. att[d].timed = timed
      BY <1>3 DEF ReachOf
    <2>4. \A r : Stored(d, att[d].cur, r)' <=> \E s \in {att[d].cur} : Stored(d, s, r)'
      BY DEF Stored
    <2> QED BY <2>1, <2>2, <2>3, <2>4 DEF ReachOf
  <1> QED BY <1>2, <1>3

(* Nor by a step that takes it on without touching marks or observations.  *)
LEMMA ReachMoved ==
  ASSUME NEW c \in Conns, ReachOf(c), pc[c] # "idle", pc'[c] # "ingest",
         att'[c].mine = att[c].mine, att'[c].mark = att[c].mark,
         att'[c].timed = att[c].timed,
         UNCHANGED <<now, table, timed, present>>, obs \subseteq obs'
  PROVE  ReachOf(c)'
  <1>1. \A s, r : Stored(c, s, r) => Stored(c, s, r)'
    BY DEF Stored
  <1> QED BY <1>1 DEF ReachOf

LEMMA ReachOpened ==
  ASSUME TypeInv, NEW c \in Conns, ReachOf(c), OpenStream(c), obs \subseteq obs',
         UNCHANGED <<now, table, timed, present>>,
         \A s \in Streams : \A r \in table[s] : r.ver <= now
  PROVE  ReachOf(c)'
  <1> DEFINE a == att[c]
  <1>1. PICK s \in a.todo : att'[c].cur = s /\ att'[c].feed = Fetched(a, s)
    BY OpenRecord DEF TypeInv
  <1>2. /\ pc[c] = "select" /\ pc'[c] = "ingest"
        /\ att'[c].times = {} /\ att'[c].timed = a.timed
        /\ att'[c].mark = a.mark /\ att'[c].mine = a.mine
    BY OpenRecord DEF TypeInv
  <1>3. a.timed = timed
    BY <1>2 DEF ReachOf
  <1>4. \A u, r : Stored(c, u, r) => Stored(c, u, r)'
    BY <1>2 DEF Stored
  <1>5. \A u \in present \cap timed :
           /\ a.mark[u] <= now
           /\ \A r \in table[u] : Stored(c, u, r) \/ r.ver >= a.mark[u]
    BY <1>2 DEF ReachOf
  <1>6. s \in Streams /\ table[s] \subseteq Row /\ IsFiniteSet(table[s]) /\ a.mark[s] \in Nat
    BY DEF TypeInv, TypeOK, Attempts, FiniteRows
  <1> DEFINE S == {r \in table[s] : InReach(r, Since(a, s))}
  <1>7. ASSUME s \in present \cap timed, NEW r \in table[s], r \notin Fetched(a, s)
        PROVE  Stored(c, s, r) \/ \A q \in Fetched(a, s) : r.ver >= q.ver
    <2>1. Fetched(a, s) = First(Limit, S, TRUE)
      BY <1>3, <1>7 DEF Fetched
    <2>2. CASE r \in S
      <3>1. IsFiniteSet(S) /\ S \subseteq Row
        BY <1>6, FS_Subset
      <3>2. Limit \in Nat
        BY ConstantsAssumption
      <3>3. r \notin First(Limit, S, TRUE)
        BY <1>7, <2>1
      <3> HIDE DEF S
      <3>4. \A q \in First(Limit, S, TRUE) : r.ver >= q.ver
        BY <2>2, <3>1, <3>2, <3>3, FirstOrdered
      <3> QED BY <2>1, <3>4
    <2>3. CASE r \notin S
      <3>1. ~(r.ver >= Since(a, s))
        BY <1>7, <2>3 DEF InReach
      <3>2. r.ver \in Nat
        BY <1>6, <1>7, RowFields
      <3>3. Since(a, s) = a.mark[s]
        BY <3>1, <3>2 DEF Since
      <3>4. Stored(c, s, r) \/ r.ver >= a.mark[s]
        BY <1>5, <1>7
      <3> QED BY <3>1, <3>3, <3>4
    <2> QED BY <2>2, <2>3
  <1>8. Fetched(a, s) \subseteq table[s]
    BY FirstSubset DEF Fetched
  <1>9. s \in present \cap timed =>
           /\ \A q \in Fetched(a, s) : q.ver <= now
           /\ \A r \in table[s] :
                 Stored(c, s, r)' \/ r \in Fetched(a, s)
                   \/ \A q \in Fetched(a, s) : r.ver >= q.ver
    BY <1>4, <1>6, <1>7, <1>8
  <1>10. \A r : Stored(c, att[c].cur, r)' <=> Stored(c, s, r)'
    BY <1>1 DEF Stored
  <1> HIDE DEF S
  <1> QED BY <1>1, <1>2, <1>3, <1>4, <1>5, <1>9, <1>10 DEF ReachOf

LEMMA ReachFlushed ==
  ASSUME TypeInv, NEW c \in Conns, ReachOf(c), FlushBatch(c), UNCHANGED obs,
         UNCHANGED <<now, table, timed, present>>
  PROVE  ReachOf(c)'
  <1> DEFINE a == att[c]
             s == a.cur
  <1>1. /\ pc[c] = "ingest" /\ pc'[c] = "ingest" /\ att'[c].cur = s
        /\ att'[c].feed = a.feed \ Batch(a)
        /\ att'[c].mine = a.mine \cup NewFacts(a)
        /\ att'[c].times = a.times \cup {o.at : o \in Facts(a)}
        /\ att'[c].timed = a.timed /\ att'[c].mark = a.mark
    BY BatchRecord DEF TypeInv
  <1>2. a.timed = timed
    BY <1>1 DEF ReachOf
  <1>3. \A u, r : Stored(c, u, r) => Stored(c, u, r)'
    BY <1>1 DEF Stored
  <1>4. \A u \in present \cap timed :
           /\ a.mark[u] <= now
           /\ \A r \in table[u] : Stored(c, u, r)' \/ r.ver >= a.mark[u]
    BY <1>1, <1>3 DEF ReachOf
  <1>5. ASSUME NEW r \in Batch(a)
        PROVE  \E o \in obs' \cup att'[c].mine : o.stream = s /\ o.pk = r.pk /\ o.ver = r.ver
    <2> DEFINE f == Observe(a, r)
    <2>1. f \in Facts(a) /\ f.stream = s /\ f.pk = r.pk /\ f.ver = r.ver
      BY DEF Facts, Observe
    <2>2. CASE f \in NewFacts(a)
      BY <1>1, <2>1, <2>2
    <2>3. CASE f \notin NewFacts(a)
      <3>1. PICK p \in obs \cup a.mine : SameFingerprint(f, p)
        BY <2>1, <2>3 DEF NewFacts
      <3> QED BY <1>1, <2>1, <3>1 DEF SameFingerprint
    <2> QED BY <2>2, <2>3
  <1>6. ASSUME s \in present \cap timed
        PROVE  /\ \A t \in att'[c].times : t <= now
               /\ \A q \in att'[c].feed : q.ver <= now
               /\ \A r \in table[s] :
                    \/ \E o \in obs' \cup att'[c].mine :
                          o.stream = s /\ o.pk = r.pk /\ o.ver = r.ver
                    \/ r \in att'[c].feed
                    \/ /\ \A t \in att'[c].times : r.ver >= t
                       /\ \A q \in att'[c].feed : r.ver >= q.ver
    <2>1. \A o \in Facts(a) : \E q \in a.feed : o.at = q.ver
      <3>1. Batch(a) \subseteq a.feed
        BY FirstSubset DEF Batch
      <3>2. \A r \in Batch(a) : Observe(a, r).at = r.ver
        BY <1>2, <1>6 DEF Observe
      <3> QED BY <3>1, <3>2 DEF Facts
    <2>2. /\ \A t \in a.times : t <= now
          /\ \A q \in a.feed : q.ver <= now
          /\ \A r \in table[s] :
                \/ Stored(c, s, r) \/ r \in a.feed
                \/ /\ \A t \in a.times : r.ver >= t
                   /\ \A q \in a.feed : r.ver >= q.ver
      BY <1>1, <1>6 DEF ReachOf
    <2>3. \A t \in att'[c].times : t \in a.times \/ \E q \in a.feed : t = q.ver
      BY <1>1, <2>1
    <2>4. \A q \in att'[c].feed : q \in a.feed
      BY <1>1
    <2>5. \A r \in a.feed : r \in Batch(a) \/ r \in att'[c].feed
      BY <1>1
    <2>6. \A r : Stored(c, s, r) => \E o \in obs' \cup att'[c].mine :
                                      o.stream = s /\ o.pk = r.pk /\ o.ver = r.ver
      BY <1>1 DEF Stored
    <2> QED BY <1>5, <2>2, <2>3, <2>4, <2>5, <2>6
  <1> QED BY <1>1, <1>2, <1>4, <1>6 DEF ReachOf, Stored

LEMMA ReachFinished ==
  ASSUME TypeInv, NEW c \in Conns, ReachOf(c), FinishStream(c), obs \subseteq obs',
         UNCHANGED <<now, table, timed, present>>
  PROVE  ReachOf(c)'
  <1> DEFINE a == att[c]
  <1>1. /\ pc[c] = "ingest" /\ pc'[c] \in {"flush", "select"} /\ a.feed = {}
        /\ att'[c].timed = a.timed /\ att'[c].mine = a.mine
    BY FinishRecord DEF AfterStream, FinishStream
  <1>2. PICK t \in a.times \cup {a.mark[a.cur]} :
           \A s \in Streams : att'[c].mark[s] = IF s = a.cur THEN t ELSE a.mark[s]
    BY FinishRecord
  <1>3. \A u, r : Stored(c, u, r) => Stored(c, u, r)'
    BY <1>1 DEF Stored
  <1>4. ASSUME NEW u \in present \cap timed
        PROVE  /\ att'[c].mark[u] <= now
               /\ \A r \in table[u] : Stored(c, u, r)' \/ r.ver >= att'[c].mark[u]
    <2>0. u \in Streams
      BY DEF TypeInv, TypeOK
    <2>1. CASE att'[c].mark[u] = a.mark[u]
      BY <1>1, <1>3, <2>1 DEF ReachOf
    <2>2. CASE u = a.cur /\ t \in a.times
      <3>1. att'[c].mark[u] = t
        BY <1>2, <2>0, <2>2
      <3>2. /\ t <= now
            /\ \A r \in table[u] : Stored(c, u, r) \/ r.ver >= t
        BY <1>1, <2>2 DEF ReachOf
      <3> QED BY <1>3, <3>1, <3>2
    <2> QED BY <1>2, <2>0, <2>1, <2>2
  <1>5. a.timed = timed
    BY <1>1 DEF ReachOf
  <1> QED BY <1>1, <1>4, <1>5 DEF ReachOf

LEMMA ReachActor ==
  ASSUME TypeInv, ReachInv, NEW c \in Conns, Attempt(c) \/ Failure(c)
  PROVE  ReachOf(c)'
  <1>0. TypeOK /\ ReachOf(c) /\ obs \subseteq obs' /\ UNCHANGED <<now, table, timed, present>>
    BY OthersStay, ObservationsStay DEF TypeInv, ReachInv
  <1>1. CASE LoadSource(c)
    <2>1. /\ pc'[c] = "lookup" /\ att'[c].timed = timed /\ att'[c].mark = hwm
      BY <1>0, <1>1, LoadRecord
    <2>2. \A s \in present \cap timed : \A r \in table[s] : Ingested(s, r) \/ r.ver >= hwm[s]
      BY DEF ReachInv, NothingOutOfReach, InReach
    <2>3. \A s, r : Ingested(s, r) => Stored(c, s, r)'
      BY <1>0 DEF Ingested, Stored
    <2>4. \A s \in present \cap timed : hwm[s] <= now
      BY DEF ReachInv
    <2> QED BY <1>0, <2>1, <2>2, <2>3, <2>4 DEF ReachOf
  <1>2. CASE End(c)
    BY <1>0, <1>2, EndRecord DEF ReachOf
  <1>3. CASE \/ InsertOrphaned(c) \/ Refuse(c) \/ FlushRejected(c) \/ FlushOrphaned(c)
             \/ FlushStale(c) \/ Commit(c) \/ Unexpected(c) \/ Crash(c)
    BY <1>2, <1>3 DEF InsertOrphaned, Refuse, FlushRejected, FlushOrphaned, Aborts, FlushStale, Commit,
                      Unexpected, Crash
  <1>4. CASE FindExisting(c)
    BY <1>0, <1>2, <1>4, Moved, ReachMoved DEF FindExisting
  <1>5. CASE InsertRun(c) \/ InsertCollides(c) \/ OpenConnector(c) \/ ReleaseLock(c)
    BY <1>0, <1>5, Moved, ReachMoved DEF InsertRun, InsertCollides, OpenConnector, ReleaseLock
  <1>6. CASE AcquireLock(c) \/ SkipRun(c) \/ ConnectionFails(c) \/ FlushRun(c)
    BY <1>0, <1>6, StatusRecord, ReachMoved DEF SameButStatus
  <1>7. CASE OpenStream(c)
    BY <1>0, <1>7, ReachOpened DEF ReachInv
  <1>8. CASE FlushBatch(c)
    BY <1>0, <1>8, ReachFlushed DEF FlushBatch, committed
  <1>9. CASE FinishStream(c)
    BY <1>0, <1>9, ReachFinished
  <1>10. CASE StreamFails(c)
    BY <1>0, <1>10, FailRecord, ReachMoved DEF AfterStream
  <1>11. CASE Recycle(c)
    BY <1>11 DEF Recycle, ReachOf
  <1> QED BY <1>1, <1>3, <1>4, <1>5, <1>6, <1>7, <1>8, <1>9, <1>10, <1>11
          DEF Attempt, Proceed, Insert, Failure

(* What is committed is what the attempt that commits could see.           *)
LEMMA CommitReaches ==
  ASSUME TypeInv, ReachInv, NEW c \in Conns, Commit(c)
  PROVE  /\ \A s \in present \cap timed : hwm'[s] <= now
         /\ NothingOutOfReach'
  <1> DEFINE a == att[c]
  <1>1. /\ pc[c] = "commit" /\ obs' = obs \cup a.mine /\ UNCHANGED <<table, timed, present>>
        /\ \A s \in Streams : hwm'[s] = a.mark[s] \/ hwm'[s] = hwm[s]
    BY DEF Commit, source, catalog
  <1>2. \A s \in present \cap timed :
           /\ a.mark[s] <= now
           /\ \A r \in table[s] : Stored(c, s, r) \/ r.ver >= a.mark[s]
    BY <1>1 DEF ReachInv, ReachOf
  <1>3. \A s, r : Stored(c, s, r) => Ingested(s, r)'
    BY <1>1 DEF Stored, Ingested
  <1>4. \A s, r : Ingested(s, r) => Ingested(s, r)'
    BY <1>1 DEF Ingested
  <1>5. present \subseteq Streams
    BY DEF TypeInv, TypeOK
  <1>6. \A s \in present \cap timed : hwm[s] <= now
    BY DEF ReachInv
  <1>7. \A s \in present \cap timed : \A r \in table[s] :
           Ingested(s, r) \/ r.ver >= hwm[s]
    BY DEF ReachInv, NothingOutOfReach, InReach
  <1>8. \A s \in present \cap timed : \A r \in table[s] :
           Ingested(s, r)' \/ r.ver >= hwm'[s]
    BY <1>1, <1>2, <1>3, <1>4, <1>5, <1>7
  <1> QED BY <1>1, <1>2, <1>5, <1>6, <1>8 DEF NothingOutOfReach, InReach

(* A row that is written now is at or after every mark and everything read. *)
LEMMA WriteStaysInReach ==
  ASSUME "late" \notin Events, TypeInv, ReachInv,
         NEW s \in Streams, NEW pk \in Pks, SourceWrites(s, pk) \/ SourceDeletes(s, pk)
  PROVE  ReachInv'
  <1>1. UNCHANGED <<now, timed, present, hwm, obs, pc, att>>
    BY DEF SourceWrites, SourceDeletes, catalog, committed
  <1>2. now \in Nat
    BY ConstantsAssumption DEF TypeInv, TypeOK, Times
  <1>3. ASSUME NEW u \in Streams, NEW r \in table'[u]
        PROVE  r \in table[u] \/ r.ver = now
    <2>1. table \in [Streams -> SUBSET Row]
      BY DEF TypeInv, TypeOK
    <2>2. CASE SourceWrites(s, pk)
      BY <1>3, <2>1, <2>2 DEF SourceWrites
    <2>3. CASE SourceDeletes(s, pk)
      BY <1>3, <2>1, <2>3 DEF SourceDeletes
    <2> QED BY <2>2, <2>3
  <1>4. present \subseteq Streams
    BY DEF TypeInv, TypeOK
  <1>5. \A u \in Streams : \A r \in table'[u] : r.ver <= now
    BY <1>2, <1>3 DEF ReachInv
  <1>6. \A u \in present \cap timed : hwm[u] <= now
    BY DEF ReachInv
  <1>7. NothingOutOfReach'
    <2>1. \A u \in present \cap timed : \A r \in table[u] :
             Ingested(u, r) \/ r.ver >= hwm[u]
      BY DEF ReachInv, NothingOutOfReach, InReach
    <2>2. ASSUME NEW u \in present \cap timed, NEW r \in table'[u]
          PROVE  Ingested(u, r) \/ r.ver >= hwm[u]
      <3>1. CASE r \in table[u]
        BY <2>1, <2>2, <3>1
      <3>2. CASE r.ver = now
        <4>1. hwm[u] <= now
          BY <1>6, <2>2
        <4>2. hwm[u] \in Nat
          <5>1. u \in Streams /\ hwm \in [Streams -> 0 .. MaxTime]
            BY <2>2 DEF TypeInv, TypeOK
          <5>2. hwm[u] \in 0 .. MaxTime
            BY <5>1
          <5> QED BY <5>2
        <4> QED BY <1>2, <3>2, <4>1, <4>2
      <3> QED BY <1>3, <1>4, <2>2, <3>1, <3>2
    <2> QED BY <1>1, <2>2 DEF NothingOutOfReach, InReach, Ingested
  <1>8. ASSUME NEW c \in Conns PROVE ReachOf(c)'
    <2> DEFINE a == att[c]
    <2>0. /\ pc'[c] = pc[c] /\ att'[c] = a /\ timed' = timed /\ present' = present
          /\ now' = now /\ ReachOf(c)
      BY <1>1 DEF ReachInv
    <2>1. \A u, r : Stored(c, u, r) => Stored(c, u, r)'
      BY <1>1 DEF Stored
    <2>2. ASSUME pc[c] # "idle", NEW u \in present \cap timed, NEW r \in table'[u]
          PROVE  Stored(c, u, r)' \/ r.ver >= a.mark[u]
      <3>1. CASE r \in table[u]
        BY <2>0, <2>1, <2>2, <3>1 DEF ReachOf
      <3>2. CASE r.ver = now
        <4>1. a.mark[u] <= now
          BY <2>0, <2>2 DEF ReachOf
        <4> QED BY <3>2, <4>1
      <3> QED BY <1>3, <1>4, <2>2, <3>1, <3>2
    <2>3. ASSUME pc[c] = "ingest", a.cur \in present \cap timed, NEW r \in table'[a.cur]
          PROVE  \/ Stored(c, a.cur, r)' \/ r \in a.feed
                 \/ /\ \A t \in a.times : r.ver >= t
                    /\ \A q \in a.feed : r.ver >= q.ver
      <3>0. /\ \A t \in a.times : t <= now
            /\ \A q \in a.feed : q.ver <= now
            /\ \A x \in table[a.cur] :
                  \/ Stored(c, a.cur, x) \/ x \in a.feed
                  \/ /\ \A t \in a.times : x.ver >= t
                     /\ \A q \in a.feed : x.ver >= q.ver
        BY <2>0, <2>3 DEF ReachOf
      <3>1. Stored(c, a.cur, r) => Stored(c, a.cur, r)'
        <4>1. \A u \in {a.cur} : Stored(c, u, r) => Stored(c, u, r)'
          BY <2>1
        <4> QED BY <1>1, <4>1 DEF Stored
      <3>2. CASE r \in table[a.cur]
        BY <3>0, <3>1, <3>2
      <3>3. CASE r.ver = now
        BY <3>0, <3>3
      <3> QED BY <1>1, <1>3, <1>4, <2>3, <3>2, <3>3
    <2>4. pc[c] # "idle" =>
            /\ a.timed = timed
            /\ \A u \in present \cap timed : a.mark[u] <= now
            /\ pc[c] = "ingest" /\ a.cur \in present \cap timed =>
                  /\ \A t \in a.times : t <= now
                  /\ \A q \in a.feed : q.ver <= now
      BY <2>0 DEF ReachOf
    <2> QED BY <2>0, <2>2, <2>3, <2>4 DEF ReachOf, Stored
  <1> QED BY <1>1, <1>5, <1>6, <1>7, <1>8 DEF ReachInv

LEMMA TickStaysInReach ==
  ASSUME TypeInv, ReachInv, Tick
  PROVE  ReachInv'
  <1>1. UNCHANGED <<table, timed, present, hwm, obs, pc, att>> /\ now' = now + 1
    BY DEF Tick, catalog, committed
  <1>2. now \in Nat
    BY ConstantsAssumption DEF TypeInv, TypeOK, Times
  <1>3. ASSUME NEW u \in Streams, NEW r \in table[u] PROVE r.ver <= now + 1
    <2>1. r \in Row
      BY <1>3 DEF TypeInv, TypeOK
    <2>2. r.ver \in Nat
      BY <2>1, RowFields
    <2> QED BY <1>2, <1>3, <2>2 DEF ReachInv
  <1>4. ASSUME NEW u \in present \cap timed PROVE hwm[u] <= now + 1
    <2>1. hwm[u] \in Nat
      BY <1>4, ConstantsAssumption DEF TypeInv, TypeOK
    <2> QED BY <1>2, <1>4, <2>1 DEF ReachInv
  <1>5. NothingOutOfReach'
    BY <1>1 DEF ReachInv, NothingOutOfReach, InReach, Ingested
  <1>6. ASSUME NEW c \in Conns PROVE ReachOf(c)'
    <2> DEFINE a == att[c]
    <2>0. ReachOf(c) /\ a \in Attempts /\ present \subseteq Streams
      BY DEF ReachInv, TypeInv, TypeOK
    <2>1. ASSUME pc[c] # "idle", NEW u \in present \cap timed PROVE a.mark[u] <= now + 1
      <3>1. a.mark[u] \in Nat
        BY <2>0, <2>1, ConstantsAssumption DEF Attempts
      <3> QED BY <1>2, <2>0, <2>1, <3>1 DEF ReachOf
    <2>2. ASSUME pc[c] = "ingest", a.cur \in present \cap timed
          PROVE  /\ \A t \in a.times : t <= now + 1
                 /\ \A q \in a.feed : q.ver <= now + 1
      <3>1. a.times \subseteq Nat /\ a.feed \subseteq Row
        BY <2>0, ConstantsAssumption DEF Attempts, Times
      <3>2. /\ \A t \in a.times : t <= now
            /\ \A q \in a.feed : q.ver <= now
        BY <2>0, <2>2 DEF ReachOf
      <3>3. \A q \in a.feed : q.ver \in Nat
        BY <3>1, RowFields
      <3> QED BY <1>2, <3>1, <3>2, <3>3
    <2> QED BY <1>1, <2>0, <2>1, <2>2 DEF ReachOf, Stored
  <1> QED BY <1>1, <1>3, <1>4, <1>5, <1>6 DEF ReachInv

(* With a stream go its mark and its observations, which were in no other  *)
(* stream's way.                                                           *)
LEMMA DeleteStaysInReach ==
  ASSUME TypeInv, ReachInv, NEW s \in Streams, DeleteStream(s)
  PROVE  ReachInv'
  <1>1. /\ UNCHANGED <<now, table, timed, pc, att>>
        /\ present' = present \ {s} /\ obs' = {o \in obs : o.stream # s}
    BY DEF DeleteStream, source
  <1>2. \A u \in present' : u \in present /\ hwm'[u] = hwm[u]
    BY <1>1 DEF DeleteStream, TypeInv, TypeOK
  <1>3. \A u \in present' : \A r : Ingested(u, r) => Ingested(u, r)'
    BY <1>1 DEF Ingested
  <1>4. NothingOutOfReach'
    BY <1>1, <1>2, <1>3 DEF ReachInv, NothingOutOfReach, InReach
  <1>5. ASSUME NEW c \in Conns PROVE ReachOf(c)'
    BY <1>1, ReachSame DEF ReachInv
  <1>6. \A u \in present' \cap timed' : hwm'[u] <= now
    BY <1>1, <1>2 DEF ReachInv
  <1>7. \A u \in Streams : \A r \in table[u] : r.ver <= now
    BY DEF ReachInv
  <1> QED BY <1>1, <1>4, <1>5, <1>6, <1>7 DEF ReachInv

LEMMA ReachStep ==
  ASSUME "late" \notin Events, "retime" \notin Events, TypeInv, ReachInv, [Next]_vars
  PROVE  ReachInv'
  <1>1. ASSUME NEW c \in Conns, Attempt(c) \/ Failure(c) PROVE ReachInv'
    <2>1. UNCHANGED <<now, table, timed, present>> /\ obs \subseteq obs'
      BY <1>1, OthersStay, ObservationsStay DEF TypeInv
    <2>2. ASSUME NEW d \in Conns, d # c PROVE ReachOf(d)'
      <3>1. att'[d] = att[d] /\ pc'[d] = pc[d]
        BY <1>1, <2>2, OthersStay DEF TypeInv
      <3> QED BY <2>1, <3>1, ReachSame DEF ReachInv
    <2>3. ReachOf(c)'
      BY <1>1, ReachActor
    <2>4. /\ \A s \in present \cap timed : hwm'[s] <= now
          /\ NothingOutOfReach'
      <3>1. CASE Commit(c)
        BY <3>1, CommitReaches
      <3>2. CASE UNCHANGED hwm
        BY <2>1, <3>2 DEF ReachInv, NothingOutOfReach, InReach, Ingested
      <3> QED BY <1>1, <3>1, <3>2, ObservationsStay DEF TypeInv
    <2> QED BY <2>1, <2>2, <2>3, <2>4 DEF ReachInv
  <1>2. ASSUME NEW s \in Streams, Operator(s) PROVE ReachInv'
    BY <1>2, DeleteStaysInReach DEF Operator, RetimeStream
  <1>3. CASE Customer
    BY <1>3, TickStaysInReach, WriteStaysInReach DEF Customer
  <1>4. CASE UNCHANGED vars
    BY <1>4 DEF vars, ReachInv, ReachOf, Stored, NothingOutOfReach, InReach, Ingested
  <1> QED BY <1>1, <1>2, <1>3, <1>4 DEF Next

(* An incremental read never passes over a row: whatever attempts overlap, *)
(* die or read in full, whichever streams are deleted, and however few     *)
(* rows a read is limited to, a row that is not stored is at or after the  *)
(* committed mark (ingestion/sync.py, sync_stream). It takes a customer    *)
(* that writes no row with an event time already past, which no cursor on  *)
(* event times finds, and nobody who changes the event-time column, which  *)
(* the mark survives.                                                      *)
THEOREM RowsStayInReach ==
  ASSUME "late" \notin Events, "retime" \notin Events
  PROVE  Spec => []NothingOutOfReach
  <1>1. Init => SyncInv /\ ReachInv
    BY InitSyncInv, InitReach
  <1>2. SyncInv /\ ReachInv /\ [Next]_vars => ReachInv'
    BY ReachStep DEF SyncInv
  <1>3. ReachInv => NothingOutOfReach
    BY DEF ReachInv
  <1> QED BY <1>1, <1>2, <1>3, SyncInvStep, PTL DEF Spec

-----------------------------------------------------------------------------
(* An attempt that has not read to its end has a stream left to open.      *)
Unread == {"lookup", "insert", "trylock", "connect", "select"}
WorkInv == \A c \in Conns : pc[c] \in Unread => att[c].todo # {}

LEMMA WorkStep ==
  ASSUME TypeInv, WorkInv, [Next]_vars
  PROVE  WorkInv'
  <1> USE DEF Unread
  <1>0. TypeOK
    BY DEF TypeInv
  <1>1. ASSUME NEW c \in Conns, Attempt(c) \/ Failure(c) PROVE WorkInv'
    <2>1. \A d \in Conns \ {c} : att'[d] = att[d] /\ pc'[d] = pc[d]
      BY <1>0, <1>1, OthersStay
    <2>2. pc'[c] \in Unread => att'[c].todo # {}
      <3>1. CASE LoadSource(c)
        BY <1>0, <3>1, LoadRecord, ConstantsAssumption
      <3>2. CASE End(c)
        BY <1>0, <3>2, EndRecord
      <3>3. CASE \/ InsertOrphaned(c) \/ Refuse(c) \/ FlushRejected(c) \/ FlushOrphaned(c)
                 \/ FlushStale(c) \/ Commit(c) \/ Unexpected(c) \/ Crash(c)
        BY <3>2, <3>3 DEF InsertOrphaned, Refuse, FlushRejected, FlushOrphaned, Aborts, FlushStale, Commit,
                          Unexpected, Crash
      <3>4. CASE FindExisting(c)
        BY <1>0, <3>2, <3>4, Moved DEF FindExisting, WorkInv
      <3>5. CASE InsertRun(c) \/ InsertCollides(c) \/ OpenConnector(c) \/ ReleaseLock(c)
        BY <1>0, <3>5, Moved
        DEF InsertRun, InsertCollides, OpenConnector, ReleaseLock, WorkInv
      <3>6. CASE AcquireLock(c) \/ SkipRun(c) \/ ConnectionFails(c) \/ FlushRun(c)
        BY <1>0, <3>6, StatusRecord DEF SameButStatus, WorkInv
      <3>7. CASE OpenStream(c)
        BY <1>0, <3>7, OpenRecord
      <3>8. CASE FlushBatch(c)
        BY <1>0, <3>8, BatchRecord
      <3>9. CASE FinishStream(c)
        BY <3>9, FinishRecord DEF AfterStream
      <3>10. CASE StreamFails(c)
        BY <1>0, <3>10, FailRecord DEF AfterStream
      <3>11. CASE Recycle(c)
        BY <3>11 DEF Recycle, WorkInv
      <3> QED BY <1>1, <3>1, <3>3, <3>4, <3>5, <3>6, <3>7, <3>8, <3>9, <3>10, <3>11
              DEF Attempt, Proceed, Insert, Failure
    <2> QED BY <2>1, <2>2 DEF WorkInv
  <1>2. ASSUME UNCHANGED <<pc, att>> PROVE WorkInv'
    BY <1>2 DEF WorkInv
  <1>3. ASSUME NEW s \in Streams, Operator(s) PROVE WorkInv'
    BY <1>2, <1>3 DEF Operator, DeleteStream, RetimeStream
  <1>4. CASE Customer \/ UNCHANGED vars
    BY <1>2, <1>4 DEF Customer, Tick, SourceWrites, SourceDeletes, vars
  <1> QED BY <1>1, <1>3, <1>4 DEF Next

(* Streams have a first one, and the times of a read a last one.           *)
LEMMA FirstNumber ==
  ASSUME NEW S, S \subseteq Nat, S # {}
  PROVE  \E n \in S : \A m \in S : n <= m
  <1> DEFINE T == {0 .. n : n \in S}
  <1>1. IsWellFoundedOn(StrictSubsetOrdering(Nat), FiniteSubsetsOf(Nat))
    BY FS_StrictSubsetOrderingWellFounded
  <1>2. T \subseteq FiniteSubsetsOf(Nat) /\ T # {}
    <2>1. ASSUME NEW n \in S PROVE 0 .. n \in FiniteSubsetsOf(Nat)
      BY FS_Interval DEF FiniteSubsetsOf
    <2> QED BY <2>1
  <1>3. PICK I \in T : \A J \in T : <<J, I>> \notin StrictSubsetOrdering(Nat)
    <2> HIDE DEF T
    <2> QED BY <1>1, <1>2, WFMin
  <1>4. PICK n \in S : I = 0 .. n
    OBVIOUS
  <1>5. ASSUME NEW m \in S, m < n PROVE FALSE
    <2>1. 0 .. m \in T
      OBVIOUS
    <2>2. 0 .. m \subseteq 0 .. n /\ n \notin 0 .. m /\ n \in 0 .. n
      BY <1>5
    <2>3. <<0 .. m, 0 .. n>> \in StrictSubsetOrdering(Nat)
      BY <2>2 DEF StrictSubsetOrdering
    <2> HIDE DEF T
    <2> QED BY <1>3, <1>4, <2>1, <2>3
  <1> QED BY <1>5

LEMMA LastNumber ==
  ASSUME NEW M \in Nat, NEW S, S \subseteq 0 .. M, S # {}
  PROVE  \E n \in S : \A m \in S : m <= n
  <1> DEFINE D == {M - m : m \in S}
  <1>1. D \subseteq Nat /\ D # {}
    <2>1. \A m \in S : M - m \in Nat
      OBVIOUS
    <2> QED BY <2>1
  <1>2. PICK k \in D : \A d \in D : k <= d
    <2> HIDE DEF D
    <2> QED BY <1>1, FirstNumber
  <1>3. PICK n \in S : k = M - n
    OBVIOUS
  <1>4. ASSUME NEW m \in S PROVE m <= n
    <2>1. M - m \in D
      OBVIOUS
    <2>2. M - n <= M - m
      BY <1>2, <1>3, <2>1
    <2>3. m \in Nat /\ n \in Nat
      OBVIOUS
    <2> HIDE DEF D
    <2> QED BY <2>2, <2>3
  <1> QED BY <1>4

(* Only who waits at a key, at a row or at the source row is not ready.    *)
LEMMA WhoWaits ==
  ASSUME TypeInv, WorkInv, NEW c \in Conns, pc[c] # "idle", ~Ready(c)
  PROVE  \/ pc[c] = "insert" /\ ~KeyIsFree(c)
         \/ pc[c] = "ingest" /\ ~NothingPending(c)
         \/ pc[c] = "flush" /\ ~SourceRowFree(c)
  <1> DEFINE a == att[c]
  <1>0. a \in Attempts
    BY DEF TypeInv, TypeOK
  <1>1. pc[c] = "select" => \E s \in a.todo : \A u \in a.todo : s <= u
    <2> SUFFICES ASSUME pc[c] = "select" PROVE \E s \in a.todo : \A u \in a.todo : s <= u
      OBVIOUS
    <2>1. a.todo # {} /\ a.todo \subseteq Nat
      BY <1>0, ConstantsAssumption DEF WorkInv, Unread, Attempts
    <2> QED BY <2>1, FirstNumber
  <1>2. pc[c] = "ingest" => \E t \in a.times \cup {a.mark[a.cur]} :
                               \A u \in a.times \cup {a.mark[a.cur]} : u <= t
    <2> SUFFICES ASSUME pc[c] = "ingest"
                 PROVE  \E t \in a.times \cup {a.mark[a.cur]} :
                           \A u \in a.times \cup {a.mark[a.cur]} : u <= t
      OBVIOUS
    <2> DEFINE S == a.times \cup {a.mark[a.cur]}
    <2>1. S \subseteq 0 .. MaxTime /\ S # {}
      <3>1. a.mark[a.cur] \in 0 .. MaxTime
        BY <1>0 DEF TypeInv, Underway, Attempts
      <3>2. a.times \subseteq 0 .. MaxTime
        BY <1>0 DEF Attempts, Times
      <3> QED BY <3>1, <3>2
    <2>2. MaxTime \in Nat
      BY ConstantsAssumption
    <2> HIDE DEF S
    <2>3. \E t \in S : \A u \in S : u <= t
      BY <2>1, <2>2, LastNumber
    <2> QED BY <2>3 DEF S
  <1> QED BY <1>1, <1>2 DEF Ready

(* Who waits for a row or for the source row works under the lock, so who  *)
(* it waits for does not: that one is past the lock and about to commit,   *)
(* and waits for nobody. Who waits for a key waits for somebody who has    *)
(* inserted its run, and is not waiting for a key.                         *)
LEMMA NoCircle ==
  ASSUME TypeInv, LockInv, CountInv, WorkInv
  PROVE  SomeoneReady
  <1> SUFFICES ASSUME NEW c \in Conns, pc[c] # "idle",
                      \A d \in Conns : ~Ready(d)
               PROVE  FALSE
    BY DEF SomeoneReady
  <1>1. ASSUME NEW d \in Conns PROVE pc[d] # "commit"
    BY <1>1 DEF Ready
  <1>2. ASSUME NEW d \in Conns PROVE pc[d] \notin {"ingest", "flush"}
    <2> SUFFICES ASSUME pc[d] \in {"ingest", "flush"} PROVE FALSE
      OBVIOUS
    <2>1. CASE ~SourceRowFree(d)
      BY <1>1, <2>1 DEF SourceRowFree
    <2>2. CASE ~NothingPending(d)
      <3>1. PICK e \in Conns \ {d} : att[e].mine # {}
        BY <2>2 DEF NothingPending
      <3>2. pc[e] \notin Locked
        BY DEF LockInv, Locked
      <3>3. pc[e] \notin Beginning
        BY <3>1 DEF CountInv, CountedOf
      <3>4. pc[e] \in Labels
        BY DEF TypeInv, TypeOK
      <3> QED BY <1>1, <3>2, <3>3, <3>4 DEF Labels, InTransaction, Beginning
    <2> QED BY <2>1, <2>2, WhoWaits
  <1>3. ASSUME NEW d \in Conns, pc[d] # "idle" PROVE pc[d] = "insert" /\ ~KeyIsFree(d)
    BY <1>2, <1>3, WhoWaits
  <1>4. PICK d \in Conns : pc[d] \in InTransaction
    BY <1>3 DEF KeyIsFree
  <1> QED BY <1>3, <1>4 DEF InTransaction, Locked

(* Whatever attempts are under way on a source, one of them has what it    *)
(* needs for its next step: the unique key of sync_runs, the fingerprint   *)
(* index, the source row and the advisory lock never make run_sync wait    *)
(* for itself in a circle.                                                 *)
THEOREM AttemptsNeverWaitInACircle == Spec => []SomeoneReady
  <1>1. Init => SyncInv /\ CountInv /\ WorkInv
    BY InitSyncInv, InitCount DEF Init, WorkInv, Unread
  <1>2. SyncInv /\ CountInv /\ WorkInv /\ [Next]_vars => (SyncInv /\ CountInv /\ WorkInv)'
    BY SyncInvStep, CountStep, WorkStep DEF SyncInv
  <1>3. SyncInv /\ CountInv /\ WorkInv => SomeoneReady
    BY NoCircle DEF SyncInv
  <1> QED BY <1>1, <1>2, <1>3, PTL DEF Spec

-----------------------------------------------------------------------------
(* A batch of rows that are left is not empty: one row comes first.        *)
LEMMA BatchTakes ==
  ASSUME NEW a \in Attempts, a.feed # {}
  PROVE  Batch(a) # {}
  <1> DEFINE b == a.cur \in a.timed
  <1>0. a.feed \subseteq Row /\ \A r \in Row : r.ver \in Nat /\ r.pk \in Nat
    BY RowFields DEF Attempts
  <1>1. PICK r \in a.feed : \A q \in a.feed : ~Precedes(q, r, b)
    <2> DEFINE V == {q.ver : q \in a.feed}
    <2>1. V \subseteq Nat /\ V # {}
      BY <1>0
    <2>2. PICK v \in V : \A u \in V : v <= u
      <3> HIDE DEF V
      <3> QED BY <2>1, FirstNumber
    <2> DEFINE E == {q \in a.feed : b => q.ver = v}
               P == {q.pk : q \in E}
    <2>3. P \subseteq Nat /\ P # {}
      <3>1. E \subseteq a.feed /\ E # {}
        OBVIOUS
      <3> HIDE DEF E
      <3> QED BY <1>0, <3>1
    <2>4. PICK k \in P : \A j \in P : k <= j
      <3> HIDE DEF P
      <3> QED BY <2>3, FirstNumber
    <2>5. PICK r \in E : k = r.pk
      OBVIOUS
    <2>6. ASSUME NEW q \in a.feed, Precedes(q, r, b) PROVE FALSE
      <3>1. v <= q.ver /\ q.ver \in Nat /\ q.pk \in Nat /\ r.pk \in Nat /\ v \in Nat
        BY <1>0, <2>2
      <3>2. b => r.ver = v
        OBVIOUS
      <3>3. ~(b /\ q.ver < r.ver)
        BY <3>1, <3>2
      <3>4. (b => q.ver = r.ver) /\ q.pk < r.pk
        BY <2>6, <3>3 DEF Precedes
      <3>5. q \in E
        BY <3>2, <3>4
      <3>6. r.pk <= q.pk
        BY <2>4, <2>5, <3>5
      <3> QED BY <3>1, <3>4, <3>6
    <2> QED BY <2>5, <2>6
  <1>2. {q \in a.feed : Precedes(q, r, b)} = {}
    BY <1>1
  <1>3. Cardinality({}) = 0 /\ 0 < BatchSize
    BY FS_EmptySet, ConstantsAssumption
  <1>4. r \in Batch(a)
    BY <1>2, <1>3 DEF Batch, First
  <1> QED BY <1>4

LEMMA StepForward ==
  ASSUME TypeInv, NEW c \in Conns, Attempt(c) \/ Failure(c), pc[c] # "idle"
  PROVE  Nearer(c) \/ UNCHANGED <<pc[c], att[c]>>
  <1> USE DEF Stage, Nearer
  <1>0. TypeOK /\ att[c] \in Attempts
    BY DEF TypeInv, TypeOK
  <1>1. CASE LoadSource(c)
    BY <1>1 DEF LoadSource
  <1>2. CASE End(c)
    BY <1>0, <1>2, EndRecord
  <1>3. CASE \/ InsertOrphaned(c) \/ Refuse(c) \/ FlushRejected(c) \/ FlushOrphaned(c)
             \/ FlushStale(c) \/ Commit(c) \/ Unexpected(c) \/ Crash(c)
    BY <1>2, <1>3 DEF InsertOrphaned, Refuse, FlushRejected, FlushOrphaned, Aborts, FlushStale, Commit,
                      Unexpected, Crash
  <1>4. CASE FindExisting(c)
    BY <1>0, <1>2, <1>4, Moved DEF FindExisting
  <1>5. CASE InsertRun(c) \/ InsertCollides(c) \/ OpenConnector(c) \/ ReleaseLock(c)
    BY <1>0, <1>5, Moved DEF InsertRun, InsertCollides, OpenConnector, ReleaseLock
  <1>6. CASE AcquireLock(c) \/ SkipRun(c) \/ ConnectionFails(c) \/ FlushRun(c)
    BY <1>0, <1>6, StatusRecord DEF SameButStatus
  <1>7. CASE OpenStream(c)
    BY <1>0, <1>7, OpenRecord
  <1>8. CASE FlushBatch(c)
    <2>1. att[c].feed # {} /\ Batch(att[c]) # {}
      BY <1>0, <1>8, BatchTakes DEF FlushBatch
    <2>2. Batch(att[c]) \subseteq att[c].feed
      BY FirstSubset DEF Batch
    <2> QED BY <1>0, <1>8, <2>1, <2>2, BatchRecord
  <1>9. CASE FinishStream(c)
    BY <1>9, FinishRecord DEF AfterStream
  <1>10. CASE StreamFails(c)
    BY <1>0, <1>10, FailRecord DEF AfterStream
  <1>11. CASE Recycle(c)
    BY <1>11 DEF Recycle
  <1> QED BY <1>1, <1>3, <1>4, <1>5, <1>6, <1>7, <1>8, <1>9, <1>10, <1>11
          DEF Attempt, Proceed, Insert, Failure

(* run_sync has no way back: every step of an attempt, its own or a        *)
(* failure, ends it or leaves it with fewer streams to open, at a later    *)
(* stage or with fewer rows to insert, all of which are finite; nobody     *)
(* else moves it.                                                          *)
THEOREM AttemptsOnlyMoveForward == Spec => OnlyForward
  <1>1. Init => TypeInv /\ LockInv
    BY InitTypeInv, InitLock
  <1>2. TypeInv /\ LockInv /\ [Next]_vars => (TypeInv /\ LockInv)'
    BY TypeStep, LockStep
  <1>3. TypeInv /\ [Next]_vars =>
          [\A c \in Conns :
              pc[c] # "idle" => Nearer(c) \/ UNCHANGED <<pc[c], att[c]>>]_vars
    <2> SUFFICES ASSUME TypeInv, [Next]_vars, NEW c \in Conns, pc[c] # "idle"
                 PROVE  Nearer(c) \/ UNCHANGED <<pc[c], att[c]>>
      OBVIOUS
    <2>1. CASE Attempt(c) \/ Failure(c)
      BY <2>1, StepForward
    <2>2. ASSUME NEW d \in Conns \ {c}, Attempt(d) \/ Failure(d)
          PROVE  UNCHANGED <<pc[c], att[c]>>
      BY <2>2, OthersStay DEF TypeInv
    <2>3. ASSUME NEW s \in Streams, Operator(s) PROVE UNCHANGED <<pc[c], att[c]>>
      BY <2>3 DEF Operator, DeleteStream, RetimeStream
    <2>4. CASE Customer \/ UNCHANGED vars
      BY <2>4 DEF Customer, Tick, SourceWrites, SourceDeletes, vars
    <2> QED BY <2>1, <2>2, <2>3, <2>4 DEF Next
  <1> QED BY <1>1, <1>2, <1>3, PTL DEF Spec, OnlyForward

-----------------------------------------------------------------------------
(* The contract. A run is claimed while its transaction is open, and its   *)
(* attempt works while it is locked.                                       *)
Recorded == {k \in Keys : runs[k].status # "none"}
Claim == [c \in Conns |-> IF pc[c] \in InTransaction THEN att[c].key ELSE "none"]
Working == {c \in Conns : pc[c] \in Locked}

(* What a step of an attempt makes of its claim and of its work.           *)
LEMMA ClaimAfter ==
  ASSUME TypeOK, NEW c \in Conns, Attempt(c) \/ Failure(c)
  PROVE  /\ pc'[c] \in InTransaction /\ pc[c] \in InTransaction
              /\ att'[c].key = att[c].key => Claim' = Claim
         /\ pc'[c] \notin InTransaction /\ pc[c] \notin InTransaction => Claim' = Claim
         /\ pc'[c] \notin InTransaction => Claim' = [Claim EXCEPT ![c] = "none"]
         /\ (pc'[c] \in Locked <=> pc[c] \in Locked) => Working' = Working
         /\ pc'[c] \notin Locked => Working' = Working \ {c}
  <1>1. \A d \in Conns \ {c} : att'[d] = att[d] /\ pc'[d] = pc[d]
    BY OthersStay
  <1>2. \A d \in Conns \ {c} : /\ Claim'[d] = Claim[d]
                               /\ d \in Working' <=> d \in Working
    BY <1>1 DEF Claim, Working
  <1>3. Claim'[c] = IF pc'[c] \in InTransaction THEN att'[c].key ELSE "none"
    BY DEF Claim
  <1>4. Claim[c] = IF pc[c] \in InTransaction THEN att[c].key ELSE "none"
    BY DEF Claim
  <1>5. /\ c \in Working' <=> pc'[c] \in Locked
        /\ c \in Working <=> pc[c] \in Locked
        /\ Working \subseteq Conns /\ Working' \subseteq Conns
    BY DEF Working
  <1>6. Claim = [d \in Conns |-> Claim[d]] /\ Claim' = [d \in Conns |-> Claim'[d]]
    BY DEF Claim
  <1>7. ASSUME NEW v, Claim'[c] = v PROVE Claim' = [Claim EXCEPT ![c] = v]
    BY <1>2, <1>6, <1>7
  <1>8. Claim'[c] = Claim[c] => Claim' = Claim
    BY <1>2, <1>6
  <1> QED BY <1>2, <1>3, <1>4, <1>5, <1>7, <1>8

(* Two transactions do not claim the same key, and a claim is a key.       *)
LEMMA ClaimIsKey ==
  ASSUME TypeInv, NEW c \in Conns, pc[c] \in InTransaction
  PROVE  att[c].key \in Keys /\ Claim[c] = att[c].key
  BY DEF TypeInv, Underway, InTransaction, Locked, Claim

LEMMA BeginStep ==
  ASSUME TypeInv, KeyInv, NEW c \in Conns, InsertRun(c)
  PROVE  \E k \in Keys : Contract!Begin(c, k)
  <1> USE DEF committed, InTransaction, Locked
  <1>0. TypeOK /\ (Attempt(c) \/ Failure(c))
    BY DEF TypeInv, Attempt, Proceed, Insert
  <1>1. /\ pc[c] = "insert" /\ KeyIsFree(c) /\ runs[att[c].key].status = "none"
        /\ UNCHANGED <<runs, att>> /\ pc'[c] = "trylock"
    BY <1>0, Moved DEF InsertRun
  <1>2. att[c].key \in Keys
    BY <1>1 DEF TypeInv, Underway
  <1>3. att[c].key # "none"
    BY <1>2, ConstantsAssumption
  <1>4. \A d \in Conns : Claim[d] # att[c].key
    BY <1>1, <1>3 DEF Claim, KeyIsFree
  <1>5. Claim[c] = "none" /\ Claim'[c] = att[c].key
    BY <1>1 DEF Claim
  <1>6. Claim' = [Claim EXCEPT ![c] = att[c].key]
    <2>1. \A d \in Conns \ {c} : Claim'[d] = Claim[d]
      BY <1>0, OthersStay DEF Claim
    <2>2. Claim = [d \in Conns |-> Claim[d]] /\ Claim' = [d \in Conns |-> Claim'[d]]
      BY DEF Claim
    <2> QED BY <1>5, <2>1, <2>2
  <1>7. Working' = Working
    BY <1>0, <1>1, ClaimAfter
  <1>8. att[c].key \notin Recorded /\ Recorded' = Recorded
    BY <1>1 DEF Recorded
  <1>9. PICK k \in Keys : k = att[c].key
    BY <1>2
  <1>10. Contract!Begin(c, k)
    BY <1>4, <1>5, <1>6, <1>7, <1>8, <1>9
    DEF Contract!Begin, Contract!Free, Claim, Working, Recorded
  <1> QED BY <1>10

LEMMA WorkStarts ==
  ASSUME TypeInv, LockInv, NEW c \in Conns, AcquireLock(c)
  PROVE  Contract!Work(c)
  <1> USE DEF committed, InTransaction, Locked
  <1>0. TypeOK /\ (Attempt(c) \/ Failure(c))
    BY DEF TypeInv, Attempt, Proceed
  <1>1. /\ pc[c] = "trylock" /\ pc'[c] = "connect" /\ LockAvailable(c)
        /\ UNCHANGED runs /\ att'[c].key = att[c].key
    BY <1>0, Moved, RecordKeepsMine DEF AcquireLock
  <1>2. Claim' = Claim /\ Claim[c] \in Keys
    BY <1>0, <1>1, ClaimAfter, ClaimIsKey
  <1>3. \A d \in Conns : pc[d] \notin Locked
    BY <1>1 DEF LockAvailable, LockInv, TypeInv, TypeOK
  <1>4. Working = {}
    BY <1>3 DEF Working
  <1>5. Working' = {c}
    <2>1. \A d \in Conns \ {c} : pc'[d] = pc[d]
      BY <1>0, OthersStay
    <2> QED BY <1>1, <1>3, <2>1 DEF Working
  <1>6. Recorded' = Recorded
    BY <1>1 DEF Recorded
  <1> QED BY <1>2, <1>4, <1>5, <1>6 DEF Contract!Work, Claim, Working, Recorded

LEMMA WorkRests ==
  ASSUME TypeInv, NEW c \in Conns, ReleaseLock(c)
  PROVE  Contract!Rest(c)
  <1> USE DEF committed, InTransaction, Locked
  <1>0. TypeOK /\ (Attempt(c) \/ Failure(c))
    BY DEF TypeInv, Attempt, Proceed
  <1>1. pc[c] = "unlock" /\ pc'[c] = "commit" /\ UNCHANGED <<runs, att>>
    BY <1>0, Moved DEF ReleaseLock
  <1>2. Claim' = Claim /\ Working' = Working \ {c}
    BY <1>0, <1>1, ClaimAfter
  <1>3. c \in Working /\ Recorded' = Recorded
    BY <1>1 DEF Working, Recorded
  <1> QED BY <1>2, <1>3 DEF Contract!Rest, Claim, Working, Recorded

(* The end of a transaction gives the key up, with or without a run.       *)
LEMMA ClaimEnds ==
  ASSUME TypeInv, NEW c \in Conns, Attempt(c) \/ Failure(c), End(c),
         pc[c] \in InTransaction, Recorded' \in {Recorded, Recorded \cup {att[c].key}}
  PROVE  Contract!End(c)
  <1>0. TypeOK
    BY DEF TypeInv
  <1>1. pc'[c] = "idle"
    BY <1>0, Moved DEF End
  <1>2. pc'[c] \notin InTransaction /\ pc'[c] \notin Locked
    BY <1>1 DEF InTransaction, Locked
  <1>3. Claim' = [Claim EXCEPT ![c] = "none"] /\ Working' = Working \ {c}
    BY <1>0, <1>2, ClaimAfter
  <1>4. att[c].key \in Keys /\ Claim[c] = att[c].key
    BY ClaimIsKey
  <1> QED BY <1>3, <1>4 DEF Contract!End, Claim, Working, Recorded

LEMMA CommitEnds ==
  ASSUME TypeInv, KeyInv, OwnInv, NEW c \in Conns, Commit(c)
  PROVE  Contract!End(c)
  <1> DEFINE k == att[c].key
  <1>1. /\ k \in Keys /\ runs'[k] = RunRecord(att[c])
        /\ \A j \in Keys \ {k} : runs'[j] = runs[j]
    BY CommitFacts
  <1>2. RunRecord(att[c]).status # "none"
    BY DEF TypeInv, TypeOK, Attempts, RunRecord, SyncStatus
  <1>3. Recorded' = Recorded \cup {k}
    <2>1. k \in Recorded'
      BY <1>1, <1>2 DEF Recorded
    <2>2. \A j \in Keys \ {k} : j \in Recorded' <=> j \in Recorded
      BY <1>1 DEF Recorded
    <2>3. Recorded \subseteq Keys /\ Recorded' \subseteq Keys
      BY DEF Recorded
    <2> HIDE DEF k
    <2> QED BY <1>1, <2>1, <2>2, <2>3
  <1>4. pc[c] \in InTransaction /\ End(c) /\ (Attempt(c) \/ Failure(c))
    BY DEF Commit, InTransaction, Attempt, Proceed
  <1> QED BY <1>3, <1>4, ClaimEnds

(* Every other step of an attempt leaves the contract alone, or ends it.   *)
LEMMA ContractKept ==
  ASSUME TypeInv, NEW c \in Conns, Attempt(c) \/ Failure(c),
         ~InsertRun(c), ~AcquireLock(c), ~ReleaseLock(c), ~Commit(c)
  PROVE  Contract!End(c) \/ UNCHANGED Contract!contract
  <1> USE DEF committed, InTransaction, Locked
  <1>0. TypeOK
    BY DEF TypeInv
  <1>1. Recorded' = Recorded
    <2>1. UNCHANGED runs
      BY DEF Attempt, Proceed, Insert, LoadSource, FindExisting,
         InsertCollides, InsertOrphaned, Refuse, SkipRun, OpenConnector,
         OpenStream, FlushBatch, FlushRejected, FlushOrphaned, Aborts, FinishStream, FlushRun, FlushStale,
         Failure, ConnectionFails, Unexpected, StreamFails, Crash, Recycle
    <2> QED BY <2>1 DEF Recorded
  <1>2. ASSUME Claim' = Claim, Working' = Working PROVE UNCHANGED Contract!contract
    BY <1>1, <1>2 DEF Contract!contract, Claim, Working, Recorded
  <1>3. CASE End(c)
    <2>1. CASE pc[c] \in InTransaction
      BY <1>1, <1>3, <2>1, ClaimEnds
    <2>2. CASE pc[c] \notin InTransaction
      <3>1. pc'[c] = "idle"
        BY <1>0, <1>3, Moved DEF End
      <3> QED BY <1>0, <1>2, <2>2, <3>1, ClaimAfter
    <2> QED BY <2>1, <2>2
  <1>4. CASE \/ InsertOrphaned(c) \/ Refuse(c) \/ FlushRejected(c) \/ FlushOrphaned(c)
             \/ FlushStale(c) \/ Unexpected(c) \/ Crash(c)
    BY <1>3, <1>4 DEF InsertOrphaned, Refuse, FlushRejected, FlushOrphaned, Aborts, FlushStale, Unexpected, Crash
  <1>5. CASE LoadSource(c) \/ InsertCollides(c) \/ Recycle(c)
    <2>1. pc'[c] \notin InTransaction /\ pc[c] \notin InTransaction
      BY <1>0, <1>5, Moved DEF LoadSource, InsertCollides, Recycle
    <2> QED BY <1>0, <1>2, <2>1, ClaimAfter
  <1>6. CASE FindExisting(c)
    <2>1. CASE Goto(c, "insert")
      <3>1. pc'[c] \notin InTransaction /\ pc[c] \notin InTransaction
        BY <1>0, <1>6, <2>1, Moved DEF FindExisting
      <3> QED BY <1>0, <1>2, <3>1, ClaimAfter
    <2> QED BY <1>3, <1>6, <2>1 DEF FindExisting
  <1>7. CASE \/ SkipRun(c) \/ OpenConnector(c) \/ OpenStream(c) \/ FinishStream(c)
             \/ StreamFails(c) \/ FlushRun(c) \/ ConnectionFails(c) \/ FlushBatch(c)
    <2>1. att'[c].key = att[c].key
      BY <1>0, <1>7, RecordKeepsMine, FlushRecord DEF OpenConnector
    <2>2. /\ pc'[c] \in InTransaction /\ pc[c] \in InTransaction
          /\ pc'[c] \in Locked <=> pc[c] \in Locked
      <3>1. CASE FlushBatch(c)
        BY <3>1 DEF FlushBatch
      <3>2. CASE FinishStream(c) \/ StreamFails(c)
        BY <1>0, <3>2, Moved DEF FinishStream, StreamFails, AfterStream
      <3>3. CASE SkipRun(c) \/ OpenConnector(c) \/ FlushRun(c) \/ ConnectionFails(c)
        BY <1>0, <3>3, Moved DEF SkipRun, OpenConnector, FlushRun, ConnectionFails
      <3>4. CASE OpenStream(c)
        BY <1>0, <3>4, Moved DEF OpenStream
      <3> QED BY <1>7, <3>1, <3>2, <3>3, <3>4
    <2> QED BY <1>0, <1>2, <2>1, <2>2, ClaimAfter
  <1> QED BY <1>4, <1>5, <1>6, <1>7 DEF Attempt, Proceed, Insert, Failure

LEMMA ContractStep ==
  TypeInv /\ LockInv /\ KeyInv /\ OwnInv /\ [Next]_vars
      => [Contract!Next]_(Contract!contract)
  <1> SUFFICES ASSUME TypeInv, LockInv, KeyInv, OwnInv, [Next]_vars
               PROVE  Contract!Next \/ UNCHANGED Contract!contract
    OBVIOUS
  <1>1. ASSUME NEW c \in Conns, Attempt(c) \/ Failure(c)
        PROVE  Contract!Next \/ UNCHANGED Contract!contract
    <2>1. CASE InsertRun(c)
      <3>1. \E k \in Keys : Contract!Begin(c, k)
        BY <2>1, BeginStep
      <3>2. Contract!Next
        BY <3>1 DEF Contract!Next
      <3> QED BY <3>2
    <2>2. CASE AcquireLock(c)
      BY <2>2, WorkStarts DEF Contract!Next
    <2>3. CASE ReleaseLock(c)
      BY <2>3, WorkRests DEF Contract!Next
    <2>4. CASE Commit(c)
      BY <2>4, CommitEnds DEF Contract!Next
    <2>5. CASE ~InsertRun(c) /\ ~AcquireLock(c) /\ ~ReleaseLock(c) /\ ~Commit(c)
      <3>1. Contract!End(c) \/ UNCHANGED Contract!contract
        BY <1>1, <2>5, ContractKept
      <3>2. Contract!End(c) => Contract!Next
        BY DEF Contract!Next
      <3> QED BY <3>1, <3>2
    <2> QED BY <2>1, <2>2, <2>3, <2>4, <2>5
  <1>2. ASSUME UNCHANGED <<pc, att>>, Recorded' \subseteq Recorded
        PROVE  Contract!Next
    <2>1. Claim' = Claim /\ Working' = Working
      BY <1>2 DEF Claim, Working
    <2>2. Contract!Forget
      BY <1>2, <2>1 DEF Contract!Forget, Claim, Working, Recorded
    <2> QED BY <2>2 DEF Contract!Next
  <1>3. ASSUME NEW s \in Streams, Operator(s) PROVE Contract!Next
    <2>1. UNCHANGED <<pc, att>> /\ \A k \in Keys : runs'[k] \in {runs[k], NoRun}
      BY <1>3 DEF Operator, DeleteStream, RetimeStream, committed
    <2>2. Recorded' \subseteq Recorded
      BY <2>1 DEF Recorded, NoRun
    <2> QED BY <1>2, <2>1, <2>2
  <1>4. CASE Customer \/ UNCHANGED vars
    <2>1. UNCHANGED <<pc, att, runs>>
      BY <1>4 DEF Customer, Tick, SourceWrites, SourceDeletes, vars, committed
    <2>2. Recorded' \subseteq Recorded
      BY <2>1 DEF Recorded
    <2> QED BY <1>2, <2>1, <2>2
  <1> QED BY <1>1, <1>3, <1>4 DEF Next

(* Attempts at a source keep the contract its callers rely on: a key is    *)
(* claimed when nobody has it, work begins when nobody works, a run is     *)
(* recorded by whoever claimed its key, once.                              *)
THEOREM SyncKeepsContract == Spec => KeepsContract
  <1>1. Init => SyncInv
    BY InitSyncInv
  <1>2. SyncInv /\ [Next]_vars => SyncInv'
    BY SyncInvStep
  <1>3. Init => Contract!Init
    <2> SUFFICES ASSUME Init PROVE Contract!Init
      OBVIOUS
    <2>1. \A c \in Conns : pc[c] = "idle"
      BY DEF Init
    <2>2. Claim = [c \in Conns |-> "none"] /\ Working = {} /\ Recorded = {}
      BY <2>1 DEF Init, Claim, Working, Recorded, NoRun, InTransaction, Locked
    <2> QED BY <2>2 DEF Contract!Init, Claim, Working, Recorded
  <1>4. SyncInv /\ [Next]_vars => [Contract!Next]_(Contract!contract)
    BY ContractStep DEF SyncInv
  <1> QED BY <1>1, <1>2, <1>3, <1>4, PTL DEF Spec, KeepsContract, Contract!Spec
=============================================================================
