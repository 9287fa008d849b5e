-------------------------- MODULE SchedulerProofs --------------------------
(***************************************************************************)
(* Proofs about Scheduler, for any number of instances, sources and        *)
(* streams and any intervals: the types, one run per window, one sync per  *)
(* source, and that a sync is taken to be what RunContract says.           *)
(***************************************************************************)
EXTENDS SchedulerSafety, TLAPS

(* A window starts within the cycle and not after the moment it holds.     *)
LEMMA WindowInCycle ==
    ASSUME NEW t \in Times, NEW n \in Nat \ {0}
    PROVE  FloorToWindow(t, n) \in Times
<1>1. t \in Nat /\ t < Cycle /\ Cycle \in Nat
  BY SchedulerAssumption, SMT DEF Times
<1>2. t % n \in Nat /\ t % n <= t
  <2>1. CASE t < n
    <3>1. t % n = t
      BY <1>1, <2>1, SMT
    <3> QED BY <1>1, <3>1, SMT
  <2>2. CASE ~(t < n)
    <3>1. t % n \in Nat /\ t % n < n
      BY <1>1, SMT
    <3> QED BY <1>1, <2>2, <3>1, SMT
  <2> QED BY <2>1, <2>2
<1> QED BY <1>1, <1>2, SMT DEF Times, FloorToWindow

(* What discovery returns are sources, streams and windows.                *)
LEMMA DueSourceType ==
    ASSUME TypeOK
    PROVE  Selected(FindDueSources) \subseteq DueSource
<1>1. SUFFICES ASSUME NEW s \in Streams
               PROVE  [source |-> Owner[s], streams |-> DueStreams(Owner[s]),
                       window |-> FloorToWindow(now, interval[s])] \in DueSource
  BY <1>1 DEF Selected, FindDueSources
<1>2. Owner[s] \in Sources
  BY SchedulerAssumption
<1>3. interval[s] \in Nat \ {0}
  BY SchedulerAssumption DEF TypeOK
<1>4. FloorToWindow(now, interval[s]) \in Times
  BY <1>3, WindowInCycle DEF TypeOK
<1>5. DueStreams(Owner[s]) \in SUBSET Streams
  BY DEF DueStreams
<1> QED BY <1>2, <1>4, <1>5 DEF DueSource

LEMMA NoItemType ==
    /\ NoItem.window \in Times
    /\ NoItem.streams \subseteq Streams
<1>1. 0 \in Times
  BY SchedulerAssumption, SMT DEF Times
<1> QED BY <1>1 DEF NoItem

(* Moving on to the next source keeps the loop's types.                    *)
LEMMA AdvanceType ==
    ASSUME TypeOK, NEW i \in Instances, NEW e, Advance(i, e)
    PROVE  /\ pc' \in [Instances -> Labels]
           /\ todo' \in [Instances -> SUBSET DueSource]
           /\ item' \in [Instances -> DueSource \cup {NoItem}]
           /\ reading' \in [Instances -> SUBSET Streams]
  BY DEF TypeOK, Advance, Labels

LEMMA RecordRunType ==
    ASSUME TypeOK, NEW i \in Instances, RecordRun(i)
    PROVE  keys' \in [Sources -> SUBSET ScheduledRun]
<1>1. item[i].window \in Times
  BY NoItemType DEF TypeOK, DueSource
<1>2. reading[i] \in SUBSET Streams
  BY DEF TypeOK
<1>3. [window |-> item[i].window, streams |-> reading[i]] \in ScheduledRun
  BY <1>1, <1>2 DEF ScheduledRun
<1> QED BY <1>3 DEF TypeOK, RecordRun

-----------------------------------------------------------------------------
(* Every state is of the types SchedulerSafety lists.                      *)
THEOREM SchedulerTypeCorrect == Spec => []TypeOK
<1>1. Init => TypeOK
  <2> SUFFICES ASSUME Init PROVE TypeOK
    OBVIOUS
  <2>1. 0 \in Times /\ Cycle \in 0 .. Cycle
    BY SchedulerAssumption, SMT DEF Times
  <2> QED BY <2>1 DEF Init, TypeOK, Labels
<1>2. TypeOK /\ [Next]_vars => TypeOK'
  <2> SUFFICES ASSUME TypeOK, [Next]_vars PROVE TypeOK'
    OBVIOUS
  <2>1. ASSUME NEW i \in Instances, Discover(i) PROVE TypeOK'
    <3>1. Selected(FindDueSources) \in SUBSET DueSource
      BY DueSourceType
    <3> QED BY <2>1, <3>1 DEF Discover, TypeOK, Labels, catalog
  <2>2. ASSUME NEW i \in Instances, Vanish(i) PROVE TypeOK'
    BY <2>2, AdvanceType DEF Vanish, TypeOK, catalog
  <2>3. ASSUME NEW i \in Instances, Lookup(i) PROVE TypeOK'
    <3>1. PICK e \in todo[i] :
            /\ item' = [item EXCEPT ![i] = e]
            /\ reading' = [reading EXCEPT ![i] = e.streams \cap exists]
            /\ pc' = [pc EXCEPT ![i] = IF Answered(e) THEN "answered" ELSE "insert"]
      BY <2>3 DEF Lookup
    <3>2. e \in DueSource
      BY DEF TypeOK
    <3> QED BY <2>3, <3>1, <3>2 DEF Lookup, TypeOK, Labels, catalog
  <2>4. ASSUME NEW i \in Instances, Reuse(i) PROVE TypeOK'
    BY <2>4, AdvanceType DEF Reuse, TypeOK, catalog
  <2>5. ASSUME NEW i \in Instances, StartRun(i) PROVE TypeOK'
    BY <2>5 DEF StartRun, TypeOK, Labels, catalog
  <2>6. ASSUME NEW i \in Instances, Contend(i) PROVE TypeOK'
    BY <2>6, AdvanceType, RecordRunType DEF Contend, TypeOK, catalog
  <2>7. ASSUME NEW i \in Instances, Collide(i) PROVE TypeOK'
    BY <2>7, AdvanceType DEF Collide, TypeOK, catalog
  <2>8. ASSUME NEW i \in Instances, Finish(i) PROVE TypeOK'
    <3>1. 0 \in 0 .. Cycle
      BY SchedulerAssumption, SMT
    <3>2. age' \in [Streams -> 0 .. Cycle]
      BY <2>8, <3>1 DEF Finish, TypeOK
    <3> QED BY <2>8, <3>2, AdvanceType, RecordRunType DEF Finish, TypeOK, catalog
  <2>9. ASSUME NEW i \in Instances, Raise(i) PROVE TypeOK'
    BY <2>9, AdvanceType DEF Raise, TypeOK, catalog
  <2>10. ASSUME NEW i \in Instances, Restart(i) PROVE TypeOK'
    BY <2>10 DEF Restart, TypeOK, Labels, catalog
  <2>11. ASSUME NEW d \in Sources, ManualStart(d) \/ ManualEnd(d) PROVE TypeOK'
    <3>1. 0 \in 0 .. Cycle
      BY SchedulerAssumption, SMT
    <3>2. CASE ManualStart(d)
      BY <3>2 DEF ManualStart, TypeOK, catalog, loop
    <3>3. CASE ManualEnd(d)
      <4>1. age' \in [Streams -> 0 .. Cycle]
        BY <3>1, <3>3 DEF ManualEnd, TypeOK
      <4> QED BY <3>3, <4>1 DEF ManualEnd, TypeOK, catalog, loop
    <3> QED BY <2>11, <3>2, <3>3
  <2>12. ASSUME NEW s \in Streams, Operator(s) \/ BreakOrRepair(s) PROVE TypeOK'
    <3>1. Cycle \in 0 .. Cycle
      BY SchedulerAssumption, SMT
    <3>2. CASE ConfigureStream(s)
      BY <3>1, <3>2 DEF ConfigureStream, TypeOK, loop
    <3>3. CASE DeleteStream(s)
      BY <3>3 DEF DeleteStream, TypeOK, loop
    <3>4. CASE SwitchStream(s)
      BY <3>4 DEF SwitchStream, TypeOK, loop
    <3>5. CASE Repoll(s)
      BY <3>5 DEF Repoll, TypeOK, loop
    <3>6. CASE BreakOrRepair(s)
      BY <3>6 DEF BreakOrRepair, TypeOK, catalog, loop
    <3> QED BY <2>12, <3>2, <3>3, <3>4, <3>5, <3>6 DEF Operator
  <2>13. ASSUME Tick PROVE TypeOK'
    <3>1. now' \in Times
      BY <2>13, SchedulerAssumption, SMT DEF Tick, TypeOK, Times
    <3>2. age' \in [Streams -> 0 .. Cycle]
      <4>1. \A s \in Streams :
              (IF age[s] < Cycle THEN age[s] + 1 ELSE Cycle) \in 0 .. Cycle
        BY SchedulerAssumption, SMT DEF TypeOK
      <4> QED BY <2>13, <4>1 DEF Tick
    <3>3. keys' \in [Sources -> SUBSET ScheduledRun]
      BY <2>13 DEF Tick, TypeOK
    <3>4. pc' \in [Instances -> Labels]
      BY <2>13 DEF Tick, TypeOK, Labels
    <3> QED BY <2>13, <3>1, <3>2, <3>3, <3>4 DEF Tick, TypeOK, catalog
  <2>14. CASE UNCHANGED vars
    BY <2>14 DEF vars, TypeOK
  <2> QED BY <2>1, <2>2, <2>3, <2>4, <2>5, <2>6, <2>7, <2>8, <2>9, <2>10,
             <2>11, <2>12, <2>13, <2>14 DEF Next, Pass
<1> QED BY <1>1, <1>2, PTL DEF Spec

-----------------------------------------------------------------------------
(* An instance that is attempting something attempts a due source: only    *)
(* then is the set of recorded runs an attempt looks at one of keys.       *)
Attempting == {"answered", "insert", "running"}
Itemised == \A i \in Instances : pc[i] \in Attempting => item[i] \in DueSource

LEMMA ItemisedKept == TypeOK /\ Itemised /\ [Next]_vars => Itemised'
<1> SUFFICES ASSUME TypeOK, Itemised, [Next]_vars PROVE Itemised'
  OBVIOUS
<1> USE DEF Itemised, Attempting
<1>1. ASSUME NEW i \in Instances, NEW e, Advance(i, e) PROVE Itemised'
  BY <1>1 DEF Advance, TypeOK
<1>2. ASSUME NEW i \in Instances, Pass(i) \/ Raise(i) \/ Restart(i)
      PROVE  Itemised'
  <2>1. CASE Discover(i)
    BY <2>1 DEF Discover, TypeOK
  <2>2. CASE Lookup(i)
    <3>1. PICK e \in todo[i] :
            /\ item' = [item EXCEPT ![i] = e]
            /\ pc' = [pc EXCEPT ![i] = IF Answered(e) THEN "answered" ELSE "insert"]
      BY <2>2 DEF Lookup
    <3>2. e \in DueSource
      BY DEF TypeOK
    <3> QED BY <3>1, <3>2 DEF TypeOK
  <2>3. CASE StartRun(i)
    BY <2>3 DEF StartRun, Insertable, TypeOK
  <2>4. CASE Restart(i)
    BY <2>4 DEF Restart, TypeOK
  <2>5. CASE Vanish(i) \/ Reuse(i) \/ Contend(i) \/ Collide(i) \/ Finish(i) \/ Raise(i)
    BY <2>5, <1>1 DEF Vanish, Reuse, Contend, Collide, Finish, Raise
  <2> QED BY <1>2, <2>1, <2>2, <2>3, <2>4, <2>5 DEF Pass
<1>3. ASSUME NEW d \in Sources, ManualStart(d) \/ ManualEnd(d) PROVE Itemised'
  BY <1>3 DEF ManualStart, ManualEnd, loop
<1>4. ASSUME NEW s \in Streams, Operator(s) \/ BreakOrRepair(s) PROVE Itemised'
  BY <1>4 DEF Operator, ConfigureStream, DeleteStream, SwitchStream, Repoll,
              BreakOrRepair, loop
<1>5. ASSUME Tick PROVE Itemised'
  BY <1>5 DEF Tick, TypeOK
<1>6. CASE UNCHANGED vars
  BY <1>6 DEF vars
<1> QED BY <1>2, <1>3, <1>4, <1>5, <1>6 DEF Next

(* A step that starts no run and records none keeps one run per window.    *)
LEMMA NoNewRun ==
    ASSUME Itemised, OneRunPerWindow,
           \A i \in Instances :
               pc'[i] = "running" => pc[i] = "running" /\ item'[i] = item[i],
           \A d \in Sources : keys'[d] \subseteq keys[d]
    PROVE  OneRunPerWindow'
<1>1. \A d \in Sources : \A k, l \in keys'[d] : k.window = l.window => k = l
  BY DEF OneRunPerWindow
<1>2. ASSUME NEW i \in Instances, pc'[i] = "running" PROVE ~Answered(item[i])'
  <2>1. pc[i] = "running" /\ item'[i] = item[i]
    BY <1>2
  <2>2. item[i].source \in Sources
    BY <2>1 DEF Itemised, Attempting, DueSource
  <2>3. ~ \E k \in keys[item[i].source] : k.window = item[i].window
    BY <2>1 DEF OneRunPerWindow, Answered
  <2> QED BY <2>1, <2>2, <2>3 DEF Answered
<1>3. \A i, j \in Instances :
        pc'[i] = "running" /\ InProgress(j, item[i])' => i = j
  BY DEF OneRunPerWindow, InProgress
<1> QED BY <1>1, <1>2, <1>3 DEF OneRunPerWindow

(* Recording the run of i keeps one run per window, when no other instance *)
(* has it in progress and it is not recorded yet.                          *)
LEMMA OneMoreRun ==
    ASSUME TypeOK, OneRunPerWindow, NEW i \in Instances,
           item[i] \in DueSource,
           \A j \in Instances \ {i} : ~InProgress(j, item[i]),
           ~Answered(item[i]),
           RecordRun(i), Advance(i, item[i])
    PROVE  OneRunPerWindow'
<1> DEFINE run == [window |-> item[i].window, streams |-> reading[i]]
<1>1. item[i].source \in Sources
  BY DEF DueSource
<1>2. /\ keys'[item[i].source] = keys[item[i].source] \cup {run}
      /\ \A d \in Sources \ {item[i].source} : keys'[d] = keys[d]
  BY <1>1 DEF RecordRun, TypeOK
<1>3. run.window = item[i].window
  OBVIOUS
<1>4. \A k \in keys[item[i].source] : k.window # run.window
  BY <1>3 DEF Answered
<1> HIDE DEF run
<1>5. \A d \in Sources : \A k, l \in keys'[d] : k.window = l.window => k = l
  <2>1. ASSUME NEW d \in Sources, NEW k \in keys'[d], NEW l \in keys'[d],
               k.window = l.window
        PROVE  k = l
    <3>1. CASE d = item[i].source
      BY <2>1, <3>1, <1>2, <1>4 DEF OneRunPerWindow
    <3>2. CASE d # item[i].source
      BY <2>1, <3>2, <1>2 DEF OneRunPerWindow
    <3> QED BY <3>1, <3>2
  <2> QED BY <2>1
<1>6. \A j \in Instances :
        pc'[j] = "running" => j # i /\ pc[j] = "running" /\ item'[j] = item[j]
  BY DEF Advance, TypeOK
<1>7. ASSUME NEW j \in Instances, pc'[j] = "running" PROVE ~Answered(item[j])'
  <2>1. j # i /\ pc[j] = "running" /\ item'[j] = item[j]
    BY <1>6, <1>7
  <2>2. \A k \in keys[item[j].source] : k.window # item[j].window
    BY <2>1 DEF OneRunPerWindow, Answered
  <2>3. item[j].source # item[i].source \/ item[j].window # item[i].window
    BY <2>1 DEF InProgress
  <2>4. \A k \in keys'[item[j].source] : k.window # item[j].window
    <3>1. CASE item[j].source = item[i].source
      BY <3>1, <2>2, <2>3, <1>2, <1>3
    <3>2. CASE item[j].source # item[i].source
      <4>1. keys'[item[j].source] = keys[item[j].source]
        BY <3>2, <1>1 DEF RecordRun, TypeOK
      <4> QED BY <4>1, <2>2
    <3> QED BY <3>1, <3>2
  <2> QED BY <2>1, <2>4 DEF Answered
<1>8. \A j, l \in Instances :
        pc'[j] = "running" /\ InProgress(l, item[j])' => j = l
  BY <1>6 DEF OneRunPerWindow, InProgress
<1> QED BY <1>5, <1>7, <1>8 DEF OneRunPerWindow

(* A scheduling window of a source has one run at most, whatever the       *)
(* instances, users and operators do.                                      *)
THEOREM OneRunPerWindowHolds == Spec => []OneRunPerWindow
<1> DEFINE IInv == Itemised /\ OneRunPerWindow
<1>1. Init => IInv
  BY DEF Init, Itemised, Attempting, OneRunPerWindow, Answered
<1>2. TypeOK /\ TypeOK' /\ IInv /\ [Next]_vars => IInv'
  <2> SUFFICES ASSUME TypeOK, Itemised, OneRunPerWindow, [Next]_vars
               PROVE  OneRunPerWindow'
    BY ItemisedKept
  <2>1. ASSUME NEW i \in Instances, Discover(i) PROVE OneRunPerWindow'
    BY <2>1, NoNewRun DEF Discover, TypeOK
  <2>2. ASSUME NEW i \in Instances, NEW e, Advance(i, e), keys' = keys
        PROVE  OneRunPerWindow'
    BY <2>2, NoNewRun DEF Advance, TypeOK
  <2>3. ASSUME NEW i \in Instances,
               Vanish(i) \/ Reuse(i) \/ Collide(i) \/ Raise(i)
        PROVE  OneRunPerWindow'
    BY <2>2, <2>3 DEF Vanish, Reuse, Collide, Raise
  <2>4. ASSUME NEW i \in Instances, Lookup(i) PROVE OneRunPerWindow'
    <3>1. \A j \in Instances :
            pc'[j] = "running" => pc[j] = "running" /\ item'[j] = item[j]
      BY <2>4 DEF Lookup, TypeOK
    <3>2. keys' = keys
      BY <2>4 DEF Lookup
    <3> QED BY <3>1, <3>2, NoNewRun
  <2>5. ASSUME NEW i \in Instances, StartRun(i) PROVE OneRunPerWindow'
    <3>1. /\ keys' = keys /\ item' = item
          /\ pc' = [pc EXCEPT ![i] = "running"]
          /\ ~Answered(item[i])
          /\ \A j \in Instances \ {i} : ~InProgress(j, item[i])
      BY <2>5 DEF StartRun, Insertable
    <3>2. \A j \in Instances : pc'[j] = "running" => j = i \/ pc[j] = "running"
      BY <3>1 DEF TypeOK
    <3>3. \A j \in Instances : pc'[j] = "running" => ~Answered(item[j])'
      BY <3>1, <3>2 DEF OneRunPerWindow, Answered
    <3>4. \A j, l \in Instances :
            pc'[j] = "running" /\ InProgress(l, item[j])' => j = l
      BY <3>1, <3>2 DEF OneRunPerWindow, InProgress
    <3> QED BY <3>1, <3>3, <3>4 DEF OneRunPerWindow
  <2>6. ASSUME NEW i \in Instances, Contend(i) PROVE OneRunPerWindow'
    <3>1. item[i] \in DueSource
      BY <2>6 DEF Contend, Insertable, Itemised, Attempting
    <3> QED BY <2>6, <3>1, OneMoreRun DEF Contend, Insertable
  <2>7. ASSUME NEW i \in Instances, Finish(i) PROVE OneRunPerWindow'
    <3>1. pc[i] = "running" /\ RecordRun(i) /\ Advance(i, item[i])
      BY <2>7 DEF Finish
    <3>2. item[i] \in DueSource
      BY <3>1 DEF Itemised, Attempting
    <3>3. ~Answered(item[i]) /\ \A j \in Instances \ {i} : ~InProgress(j, item[i])
      BY <3>1 DEF OneRunPerWindow
    <3> QED BY <3>1, <3>2, <3>3, OneMoreRun
  <2>8. ASSUME NEW i \in Instances, Restart(i) PROVE OneRunPerWindow'
    BY <2>8, NoNewRun DEF Restart, TypeOK
  <2>9. ASSUME NEW d \in Sources, ManualStart(d) \/ ManualEnd(d)
        PROVE  OneRunPerWindow'
    BY <2>9, NoNewRun DEF ManualStart, ManualEnd, loop
  <2>10. ASSUME NEW s \in Streams, Operator(s) \/ BreakOrRepair(s)
         PROVE  OneRunPerWindow'
    <3>1. pc' = pc /\ item' = item
      BY <2>10 DEF Operator, ConfigureStream, DeleteStream, SwitchStream, Repoll,
                   BreakOrRepair, loop
    <3>2. \A d \in Sources : keys'[d] \subseteq keys[d]
      BY <2>10 DEF Operator, ConfigureStream, DeleteStream, SwitchStream, Repoll,
                   BreakOrRepair
    <3> QED BY <3>1, <3>2, NoNewRun
  <2>11. ASSUME Tick PROVE OneRunPerWindow'
    <3>1. \A d \in Sources : keys'[d] \subseteq keys[d]
      BY <2>11 DEF Tick
    <3>2. \A i \in Instances :
            pc'[i] = "running" => pc[i] = "running" /\ item'[i] = item[i]
      BY <2>11 DEF Tick
    <3> QED BY <3>1, <3>2, NoNewRun
  <2>12. CASE UNCHANGED vars
    BY <2>12, NoNewRun DEF vars
  <2> QED BY <2>1, <2>3, <2>4, <2>5, <2>6, <2>7, <2>8, <2>9, <2>10, <2>11,
             <2>12 DEF Next, Pass
<1> QED BY <1>1, <1>2, SchedulerTypeCorrect, PTL DEF Spec

-----------------------------------------------------------------------------
(* A step after which no more attempts run, and no more users hold a lock, *)
(* keeps the syncs of a source apart.                                      *)
LEMMA NoNewSync ==
    ASSUME OneSyncPerSource,
           manual' \subseteq manual,
           \A i \in Instances :
              pc'[i] = "running" => pc[i] = "running" /\ item'[i] = item[i]
    PROVE  OneSyncPerSource'
  BY DEF OneSyncPerSource

(* Scheduled and manual syncs of a source exclude each other, whatever the *)
(* instances, users and operators do: the advisory lock is asked for by    *)
(* both and nobody starts without it.                                      *)
THEOREM OneSyncPerSourceHolds == Spec => []OneSyncPerSource
<1>1. Init => OneSyncPerSource
  BY DEF Init, OneSyncPerSource
<1>2. TypeOK /\ OneSyncPerSource /\ [Next]_vars => OneSyncPerSource'
  <2> SUFFICES ASSUME TypeOK, OneSyncPerSource, [Next]_vars
               PROVE  OneSyncPerSource'
    OBVIOUS
  <2>1. ASSUME NEW i \in Instances, Discover(i) \/ Lookup(i) \/ Restart(i)
        PROVE  OneSyncPerSource'
    <3>1. manual' = manual
      BY <2>1 DEF Discover, Lookup, Restart
    <3>2. \A j \in Instances :
            pc'[j] = "running" => pc[j] = "running" /\ item'[j] = item[j]
      BY <2>1 DEF Discover, Lookup, Restart, TypeOK
    <3> QED BY <3>1, <3>2, NoNewSync
  <2>2. ASSUME NEW i \in Instances, NEW e, Advance(i, e), manual' = manual
        PROVE  OneSyncPerSource'
    BY <2>2, NoNewSync DEF Advance, TypeOK
  <2>3. ASSUME NEW i \in Instances,
               \/ Vanish(i) \/ Reuse(i) \/ Contend(i) \/ Collide(i)
               \/ Finish(i) \/ Raise(i)
        PROVE  OneSyncPerSource'
    BY <2>2, <2>3 DEF Vanish, Reuse, Contend, Collide, Finish, Raise
  <2>4. ASSUME NEW i \in Instances, StartRun(i) PROVE OneSyncPerSource'
    <3>1. /\ manual' = manual /\ item' = item
          /\ pc' = [pc EXCEPT ![i] = "running"]
          /\ item[i].source \notin manual
          /\ \A j \in Instances :
                pc[j] = "running" => item[j].source # item[i].source
      BY <2>4 DEF StartRun, Held
    <3>2. \A j \in Instances : pc'[j] = "running" => j = i \/ pc[j] = "running"
      BY <3>1 DEF TypeOK
    <3> QED BY <3>1, <3>2 DEF OneSyncPerSource
  <2>5. ASSUME NEW d \in Sources, ManualStart(d) PROVE OneSyncPerSource'
    <3>1. /\ manual' = manual \cup {d} /\ pc' = pc /\ item' = item
          /\ \A j \in Instances : pc[j] = "running" => item[j].source # d
      BY <2>5 DEF ManualStart, Held, loop
    <3> QED BY <3>1 DEF OneSyncPerSource
  <2>6. ASSUME NEW d \in Sources, ManualEnd(d) PROVE OneSyncPerSource'
    BY <2>6, NoNewSync DEF ManualEnd, loop
  <2>7. ASSUME NEW s \in Streams, Operator(s) \/ BreakOrRepair(s)
        PROVE  OneSyncPerSource'
    BY <2>7, NoNewSync DEF Operator, ConfigureStream, DeleteStream, SwitchStream,
                           Repoll, BreakOrRepair, loop
  <2>8. ASSUME Tick PROVE OneSyncPerSource'
    BY <2>8, NoNewSync DEF Tick
  <2>9. CASE UNCHANGED vars
    BY <2>9, NoNewSync DEF vars
  <2> QED BY <2>1, <2>3, <2>4, <2>5, <2>6, <2>7, <2>8, <2>9 DEF Next, Pass
<1> QED BY <1>1, <1>2, SchedulerTypeCorrect, PTL DEF Spec

-----------------------------------------------------------------------------
(* The contract, source by source.                                         *)
RecordedOf(d) == {<<"window", k.window>> : k \in keys[d]}
ClaimOf(d) == [x \in Syncs |-> KeyOf(x, d)]
WorkingOf(d) == {x \in Syncs : KeyOf(x, d) \in SyncKeys}

LEMMA KeyOfEach ==
    ASSUME NEW d
    PROVE  /\ \A x \in Syncs : x = <<"user", 0>> \/ \E i \in Instances : x = <<"loop", i>>
           /\ <<"user", 0>> \in Syncs
           /\ KeyOf(<<"user", 0>>, d) = IF d \in manual THEN <<"own", 0>> ELSE <<"none", 0>>
           /\ \A i \in Instances :
                 /\ <<"loop", i>> \in Syncs /\ <<"loop", i>> # <<"user", 0>>
                 /\ KeyOf(<<"loop", i>>, d) =
                       IF pc[i] = "running" /\ item[i].source = d
                       THEN <<"window", item[i].window>> ELSE <<"none", 0>>
           /\ <<"own", 0>> \in SyncKeys /\ <<"none", 0>> \notin SyncKeys
           /\ \A w \in Times : <<"window", w>> \in SyncKeys
  BY DEF Syncs, SyncKeys, KeyOf

(* Nothing changes in the contract of a source that is not synced anew.    *)
LEMMA ContractOfSame ==
    ASSUME NEW d, \A x \in Syncs : KeyOf(x, d)' = KeyOf(x, d),
           RecordedOf(d)' \subseteq RecordedOf(d)
    PROVE  Contract(d)!Next
<1>1. ClaimOf(d)' = ClaimOf(d) /\ WorkingOf(d)' = WorkingOf(d)
  BY DEF ClaimOf, WorkingOf
<1>2. Contract(d)!Forget
  BY <1>1 DEF Contract!Forget, ClaimOf, WorkingOf, RecordedOf
<1> QED BY <1>2 DEF Contract!Next

(* A step that changes nothing of what runs, and only forgets runs.        *)
LEMMA ContractUntouched ==
    ASSUME NEW d, manual' = manual,
           \A i \in Instances : pc'[i] = "running" <=> pc[i] = "running",
           \A i \in Instances : pc[i] = "running" => item'[i] = item[i],
           RecordedOf(d)' \subseteq RecordedOf(d)
    PROVE  Contract(d)!Next
<1>1. ASSUME NEW x \in Syncs PROVE KeyOf(x, d)' = KeyOf(x, d)
  <2>1. CASE x = <<"user", 0>>
    BY <2>1 DEF KeyOf
  <2>2. CASE \E i \in Instances : x = <<"loop", i>>
    BY <2>2 DEF KeyOf
  <2> QED BY <2>1, <2>2, KeyOfEach
<1> QED BY <1>1, ContractOfSame

(* What one sync does to the claims and to who works.                      *)
LEMMA ClaimChanges ==
    ASSUME NEW d, NEW x \in Syncs,
           \A y \in Syncs \ {x} : KeyOf(y, d)' = KeyOf(y, d)
    PROVE  /\ ClaimOf(d)' = [ClaimOf(d) EXCEPT ![x] = KeyOf(x, d)']
           /\ KeyOf(x, d)' \in SyncKeys => WorkingOf(d)' = WorkingOf(d) \cup {x}
           /\ KeyOf(x, d)' \notin SyncKeys => WorkingOf(d)' = WorkingOf(d) \ {x}
<1>1. SyncKeys' = SyncKeys /\ Syncs' = Syncs
  BY DEF SyncKeys, Syncs, Times
<1>2. PICK v : v = KeyOf(x, d)'
  OBVIOUS
<1>3. ClaimOf(d)' = [y \in Syncs |-> IF y = x THEN v ELSE KeyOf(y, d)]
  <2>1. \A y \in Syncs : KeyOf(y, d)' = IF y = x THEN v ELSE KeyOf(y, d)
    BY <1>2
  <2> QED BY <1>1, <2>1 DEF ClaimOf
<1>4. [ClaimOf(d) EXCEPT ![x] = v] = [y \in Syncs |-> IF y = x THEN v ELSE KeyOf(y, d)]
  BY DEF ClaimOf
<1>5. ClaimOf(d)' = [ClaimOf(d) EXCEPT ![x] = KeyOf(x, d)']
  BY <1>2, <1>3, <1>4
<1>6. \A y \in Syncs : y # x =>
         (y \in WorkingOf(d)' <=> y \in WorkingOf(d))
  BY <1>1 DEF WorkingOf
<1>7. x \in WorkingOf(d)' <=> KeyOf(x, d)' \in SyncKeys
  BY <1>1 DEF WorkingOf
<1>8. WorkingOf(d) \subseteq Syncs /\ WorkingOf(d)' \subseteq Syncs
  BY <1>1 DEF WorkingOf
<1> QED BY <1>5, <1>6, <1>7, <1>8

LEMMA OthersKeep ==
    ASSUME NEW d, NEW i \in Instances, manual' = manual,
           \A j \in Instances \ {i} : pc'[j] = pc[j] /\ item'[j] = item[j]
    PROVE  \A y \in Syncs \ {<<"loop", i>>} : KeyOf(y, d)' = KeyOf(y, d)
<1> SUFFICES ASSUME NEW y \in Syncs \ {<<"loop", i>>} PROVE KeyOf(y, d)' = KeyOf(y, d)
  OBVIOUS
<1>1. CASE y = <<"user", 0>>
  BY <1>1 DEF KeyOf
<1>2. ASSUME NEW j \in Instances, y = <<"loop", j>> PROVE KeyOf(y, d)' = KeyOf(y, d)
  <2>1. j # i
    BY <1>2
  <2> QED BY <1>2, <2>1 DEF KeyOf
<1> QED BY <1>1, <1>2, KeyOfEach

(* While nobody holds the source, no key of it is claimed.                 *)
LEMMA NobodyClaims ==
    ASSUME NEW d, ~Held(d)
    PROVE  WorkingOf(d) = {} /\ \A x \in Syncs : KeyOf(x, d) = <<"none", 0>>
<1>1. ASSUME NEW x \in Syncs PROVE KeyOf(x, d) = <<"none", 0>>
  <2>1. CASE x = <<"user", 0>>
    BY <2>1, KeyOfEach DEF Held
  <2>2. ASSUME NEW i \in Instances, x = <<"loop", i>> PROVE KeyOf(x, d) = <<"none", 0>>
    BY <2>2, KeyOfEach DEF Held
  <2> QED BY <2>1, <2>2, KeyOfEach
<1> QED BY <1>1, KeyOfEach DEF WorkingOf

LEMMA StartBegins ==
    ASSUME TypeOK, Itemised, NEW i \in Instances, StartRun(i), NEW d \in Sources
    PROVE  Contract(d)!Next
<1>1. /\ pc[i] = "insert" /\ pc' = [pc EXCEPT ![i] = "running"] /\ item' = item
      /\ manual' = manual /\ keys' = keys /\ ~Answered(item[i]) /\ ~Held(item[i].source)
  BY DEF StartRun, Insertable
<1>2. /\ \A j \in Instances \ {i} : pc'[j] = pc[j]
      /\ pc'[i] = "running"
  BY <1>1 DEF TypeOK
<1>3. RecordedOf(d)' = RecordedOf(d)
  BY <1>1 DEF RecordedOf
<1>4. CASE item[i].source # d
  <2>1. ASSUME NEW y \in Syncs PROVE KeyOf(y, d)' = KeyOf(y, d)
    <3>1. CASE y = <<"loop", i>>
      BY <1>1, <1>2, <1>4, <3>1 DEF KeyOf
    <3> QED BY <1>1, <1>2, <3>1, OthersKeep
  <2> QED BY <1>3, <2>1, ContractOfSame
<1>5. CASE item[i].source = d
  <2> DEFINE x == <<"loop", i>>
             k == <<"window", item[i].window>>
  <2>1. x \in Syncs /\ k \in SyncKeys
    BY <1>1, KeyOfEach DEF Itemised, Attempting, DueSource
  <2>2. KeyOf(x, d)' = k
    BY <1>1, <1>2, <1>5 DEF KeyOf
  <2>3. WorkingOf(d) = {} /\ \A y \in Syncs : ClaimOf(d)[y] = <<"none", 0>>
    BY <1>1, <1>5, NobodyClaims DEF ClaimOf
  <2>4. ClaimOf(d)' = [ClaimOf(d) EXCEPT ![x] = k] /\ WorkingOf(d)' = {x}
    BY <1>1, <1>2, <2>1, <2>2, <2>3, OthersKeep, ClaimChanges
  <2>5. k \notin RecordedOf(d)
    BY <1>1, <1>5 DEF RecordedOf, Answered
  <2>6. k # <<"none", 0>>
    OBVIOUS
  <2>7. PICK l \in SyncKeys : l = k
    BY <2>1
  <2>8. Contract(d)!Begin(x, l)
    <3> HIDE DEF x, k
    <3> QED BY <1>3, <2>1, <2>3, <2>4, <2>5, <2>6, <2>7
            DEF Contract!Begin, Contract!Free, ClaimOf, WorkingOf, RecordedOf
  <2> QED BY <2>1, <2>8 DEF Contract!Next
<1> QED BY <1>4, <1>5

(* A run that ends gives its key up, and is recorded or not.               *)
LEMMA RunEnds ==
    ASSUME TypeOK, Itemised, NEW i \in Instances, pc[i] = "running", pc'[i] # "running",
           manual' = manual, NEW d \in Sources,
           \A j \in Instances \ {i} : pc'[j] = pc[j] /\ item'[j] = item[j],
           \/ RecordedOf(d)' = RecordedOf(d)
           \/ /\ item[i].source = d
              /\ RecordedOf(d)' = RecordedOf(d) \cup {<<"window", item[i].window>>}
    PROVE  Contract(d)!Next
<1>1. CASE item[i].source # d
  <2>1. ASSUME NEW y \in Syncs PROVE KeyOf(y, d)' = KeyOf(y, d)
    <3>1. CASE y = <<"loop", i>>
      BY <1>1, <3>1 DEF KeyOf
    <3> QED BY <3>1, OthersKeep
  <2> QED BY <1>1, <2>1, ContractOfSame
<1>2. CASE item[i].source = d
  <2> DEFINE x == <<"loop", i>>
             k == <<"window", item[i].window>>
  <2>1. x \in Syncs /\ k \in SyncKeys
    BY KeyOfEach DEF Itemised, Attempting, DueSource
  <2>2. KeyOf(x, d)' = <<"none", 0>> /\ ClaimOf(d)[x] = k
    BY <1>2, <2>1 DEF KeyOf, ClaimOf
  <2>3. ClaimOf(d)' = [ClaimOf(d) EXCEPT ![x] = <<"none", 0>>]
        /\ WorkingOf(d)' = WorkingOf(d) \ {x}
    BY <2>1, <2>2, KeyOfEach, OthersKeep, ClaimChanges
  <2>4. RecordedOf(d)' \in {RecordedOf(d), RecordedOf(d) \cup {k}}
    BY <1>2
  <2>5. Contract(d)!End(x)
    <3> HIDE DEF x, k
    <3> QED BY <2>1, <2>2, <2>3, <2>4
            DEF Contract!End, ClaimOf, WorkingOf, RecordedOf
  <2> QED BY <2>1, <2>5 DEF Contract!Next
<1> QED BY <1>1, <1>2

LEMMA RecordsRun ==
    ASSUME TypeOK, Itemised, NEW i \in Instances, pc[i] \in Attempting,
           RecordRun(i), NEW d \in Sources
    PROVE  RecordedOf(d)' = RecordedOf(d) \cup
              (IF item[i].source = d THEN {<<"window", item[i].window>>} ELSE {})
<1> DEFINE run == [window |-> item[i].window, streams |-> reading[i]]
<1>1. keys'[d] = IF item[i].source = d THEN keys[d] \cup {run} ELSE keys[d]
  BY DEF RecordRun, TypeOK
<1>2. run.window = item[i].window
  OBVIOUS
<1> HIDE DEF run
<1> QED BY <1>1, <1>2 DEF RecordedOf

(* A run that is recorded as skipped takes a key nobody has.               *)
LEMMA ContendSkips ==
    ASSUME TypeOK, Itemised, NEW i \in Instances, Contend(i), NEW d \in Sources
    PROVE  Contract(d)!Next
<1>1. /\ pc[i] = "insert" /\ manual' = manual /\ RecordRun(i) /\ Advance(i, item[i])
      /\ ~Answered(item[i]) /\ \A j \in Instances \ {i} : ~InProgress(j, item[i])
  BY DEF Contend, Insertable
<1>2. /\ \A j \in Instances \ {i} : pc'[j] = pc[j] /\ item'[j] = item[j]
      /\ pc'[i] # "running"
  BY <1>1 DEF Advance, TypeOK
<1>3. ASSUME NEW y \in Syncs PROVE KeyOf(y, d)' = KeyOf(y, d)
  <2>1. CASE y = <<"loop", i>>
    BY <1>1, <1>2, <2>1 DEF KeyOf
  <2> QED BY <1>1, <1>2, <2>1, OthersKeep
<1>4. RecordedOf(d)' = RecordedOf(d) \cup
              (IF item[i].source = d THEN {<<"window", item[i].window>>} ELSE {})
  BY <1>1, RecordsRun DEF Attempting
<1>5. CASE item[i].source # d
  BY <1>3, <1>4, <1>5, ContractOfSame
<1>6. CASE item[i].source = d
  <2> DEFINE k == <<"window", item[i].window>>
  <2>1. PICK l \in SyncKeys : l = k
    BY <1>1, KeyOfEach DEF Itemised, Attempting, DueSource
  <2>2. l \notin RecordedOf(d)
    BY <1>1, <1>6, <2>1 DEF RecordedOf, Answered
  <2>3. ASSUME NEW y \in Syncs PROVE KeyOf(y, d) # l
    <3> DEFINE w == item[i].window
    <3>3. l # <<"own", 0>> /\ l # <<"none", 0>>
      BY <2>1
    <3>1. CASE y = <<"user", 0>>
      BY <3>1, <3>3, KeyOfEach
    <3>2. ASSUME NEW j \in Instances, y = <<"loop", j>> PROVE KeyOf(y, d) # l
      <4>3. CASE ~(pc[j] = "running" /\ item[j].source = d)
        BY <3>2, <3>3, <4>3, KeyOfEach
      <4>1. CASE j = i
        BY <1>1, <4>1, <4>3
      <4>2. CASE pc[j] = "running" /\ item[j].source = d /\ j # i
        <5>1. item[j].window # w
          BY <1>1, <1>6, <4>2 DEF InProgress
        <5>2. KeyOf(y, d) = <<"window", item[j].window>>
          BY <3>2, <4>2, KeyOfEach
        <5> HIDE DEF w
        <5> QED BY <2>1, <5>1, <5>2 DEF w
      <4> QED BY <4>1, <4>2, <4>3
    <3> QED BY <3>1, <3>2, KeyOfEach
  <2>4. ClaimOf(d)' = ClaimOf(d) /\ WorkingOf(d)' = WorkingOf(d)
    BY <1>3 DEF ClaimOf, WorkingOf
  <2>5. RecordedOf(d)' = RecordedOf(d) \cup {l}
    BY <1>4, <1>6, <2>1
  <2>6. Contract(d)!Skip(l)
    <3> HIDE DEF k
    <3> QED BY <2>2, <2>3, <2>4, <2>5
            DEF Contract!Skip, Contract!Free, ClaimOf, WorkingOf, RecordedOf
  <2> QED BY <2>1, <2>6 DEF Contract!Next
<1> QED BY <1>5, <1>6

LEMMA UserBegins ==
    ASSUME TypeOK, NEW e \in Sources, ManualStart(e), NEW d \in Sources
    PROVE  Contract(d)!Next
<1>1. /\ ~Held(e) /\ manual' = manual \cup {e} /\ pc' = pc /\ item' = item
      /\ keys' = keys
  BY DEF ManualStart, loop
<1> DEFINE x == <<"user", 0>>
           k == <<"own", 0>>
<1>2. \A y \in Syncs \ {x} : KeyOf(y, d)' = KeyOf(y, d)
  BY <1>1, KeyOfEach DEF KeyOf
<1>3. RecordedOf(d)' = RecordedOf(d) /\ x \in Syncs /\ k \in SyncKeys
  BY <1>1, KeyOfEach DEF RecordedOf
<1>4. CASE d # e
  <2>1. KeyOf(x, d)' = KeyOf(x, d)
    BY <1>1, <1>4 DEF KeyOf
  <2> QED BY <1>2, <1>3, <2>1, ContractOfSame
<1>5. CASE d = e
  <2>1. KeyOf(x, d)' = k
    BY <1>1, <1>5 DEF KeyOf
  <2>2. WorkingOf(d) = {} /\ \A y \in Syncs : ClaimOf(d)[y] = <<"none", 0>>
    BY <1>1, <1>5, NobodyClaims DEF ClaimOf
  <2>3. ClaimOf(d)' = [ClaimOf(d) EXCEPT ![x] = k] /\ WorkingOf(d)' = {x}
    BY <1>2, <1>3, <2>1, <2>2, ClaimChanges
  <2>4. k \notin RecordedOf(d) /\ k # <<"none", 0>>
    BY DEF RecordedOf
  <2>5. Contract(d)!Begin(x, k)
    <3> HIDE DEF x, k
    <3> QED BY <1>3, <2>2, <2>3, <2>4
            DEF Contract!Begin, Contract!Free, ClaimOf, WorkingOf, RecordedOf
  <2> QED BY <1>3, <2>5 DEF Contract!Next
<1> QED BY <1>4, <1>5

LEMMA UserEnds ==
    ASSUME TypeOK, NEW e \in Sources, ManualEnd(e), NEW d \in Sources
    PROVE  Contract(d)!Next
<1>1. /\ e \in manual /\ manual' = manual \ {e} /\ pc' = pc /\ item' = item
      /\ keys' = keys
  BY DEF ManualEnd, loop
<1> DEFINE x == <<"user", 0>>
           k == <<"own", 0>>
<1>2. \A y \in Syncs \ {x} : KeyOf(y, d)' = KeyOf(y, d)
  BY <1>1, KeyOfEach DEF KeyOf
<1>3. RecordedOf(d)' = RecordedOf(d) /\ x \in Syncs /\ k \in SyncKeys
  BY <1>1, KeyOfEach DEF RecordedOf
<1>4. CASE d # e
  <2>1. KeyOf(x, d)' = KeyOf(x, d)
    BY <1>1, <1>4 DEF KeyOf
  <2> QED BY <1>2, <1>3, <2>1, ContractOfSame
<1>5. CASE d = e
  <2>1. KeyOf(x, d)' = <<"none", 0>> /\ ClaimOf(d)[x] = k
    BY <1>1, <1>3, <1>5 DEF KeyOf, ClaimOf
  <2>2. ClaimOf(d)' = [ClaimOf(d) EXCEPT ![x] = <<"none", 0>>]
        /\ WorkingOf(d)' = WorkingOf(d) \ {x}
    BY <1>2, <1>3, <2>1, KeyOfEach, ClaimChanges
  <2>3. Contract(d)!End(x)
    <3> HIDE DEF x, k
    <3> QED BY <1>3, <2>1, <2>2 DEF Contract!End, ClaimOf, WorkingOf, RecordedOf
  <2> QED BY <1>3, <2>3 DEF Contract!Next
<1> QED BY <1>4, <1>5

LEMMA RecordedShrinks ==
    ASSUME NEW d \in Sources, keys'[d] \subseteq keys[d]
    PROVE  RecordedOf(d)' \subseteq RecordedOf(d)
  BY DEF RecordedOf

LEMMA ContractStep ==
    ASSUME TypeOK, Itemised, Next, NEW d \in Sources
    PROVE  Contract(d)!Next
<1>1. ASSUME NEW i \in Instances, NEW e, Advance(i, e), pc[i] # "running",
             manual' = manual, keys' = keys
      PROVE  Contract(d)!Next
  <2>1. /\ \A j \in Instances : pc'[j] = "running" <=> pc[j] = "running"
        /\ \A j \in Instances : pc[j] = "running" => item'[j] = item[j]
    BY <1>1 DEF Advance, TypeOK
  <2> QED BY <1>1, <2>1, RecordedShrinks, ContractUntouched
<1>2. ASSUME NEW i \in Instances, Discover(i) \/ Lookup(i) PROVE Contract(d)!Next
  <2>1. /\ \A j \in Instances : pc'[j] = "running" <=> pc[j] = "running"
        /\ \A j \in Instances : pc[j] = "running" => item'[j] = item[j]
        /\ manual' = manual /\ keys' = keys
    BY <1>2 DEF Discover, Lookup, IsNextItem, TypeOK
  <2> QED BY <2>1, RecordedShrinks, ContractUntouched
<1>3. ASSUME NEW i \in Instances, Vanish(i) \/ Reuse(i) \/ Collide(i)
      PROVE  Contract(d)!Next
  BY <1>1, <1>3 DEF Vanish, Reuse, Collide, IsNextItem
<1>4. ASSUME NEW i \in Instances, Finish(i) \/ Raise(i) PROVE Contract(d)!Next
  <2>1. pc[i] = "running" /\ manual' = manual /\ Advance(i, item[i])
    BY <1>4 DEF Finish, Raise
  <2>2. /\ \A j \in Instances \ {i} : pc'[j] = pc[j] /\ item'[j] = item[j]
        /\ pc'[i] # "running"
    BY <2>1 DEF Advance, TypeOK
  <2>3. \/ RecordedOf(d)' = RecordedOf(d)
        \/ /\ item[i].source = d
           /\ RecordedOf(d)' = RecordedOf(d) \cup {<<"window", item[i].window>>}
    <3>1. CASE Finish(i)
      <4>1. RecordedOf(d)' = RecordedOf(d) \cup
              (IF item[i].source = d THEN {<<"window", item[i].window>>} ELSE {})
        BY <2>1, <3>1, RecordsRun DEF Finish, Attempting
      <4> QED BY <4>1
    <3>2. CASE Raise(i)
      BY <3>2 DEF Raise, RecordedOf
    <3> QED BY <1>4, <3>1, <3>2
  <2> QED BY <2>1, <2>2, <2>3, RunEnds
<1>5. ASSUME NEW i \in Instances, Restart(i) PROVE Contract(d)!Next
  <2>1. /\ \A j \in Instances \ {i} : pc'[j] = pc[j] /\ item'[j] = item[j]
        /\ pc'[i] = "awake" /\ manual' = manual /\ keys' = keys
    BY <1>5 DEF Restart, TypeOK
  <2>2. RecordedOf(d)' = RecordedOf(d)
    BY <2>1 DEF RecordedOf
  <2>3. CASE pc[i] = "running"
    BY <2>1, <2>2, <2>3, RunEnds
  <2>4. CASE pc[i] # "running"
    BY <2>1, <2>2, <2>4, ContractUntouched
  <2> QED BY <2>3, <2>4
<1>6. ASSUME NEW s \in Streams, Operator(s) \/ BreakOrRepair(s) PROVE Contract(d)!Next
  <2>1. pc' = pc /\ item' = item /\ manual' = manual /\ keys'[d] \subseteq keys[d]
    BY <1>6 DEF Operator, ConfigureStream, DeleteStream, SwitchStream, Repoll,
                BreakOrRepair, loop
  <2> QED BY <2>1, RecordedShrinks, ContractUntouched
<1>7. ASSUME Tick PROVE Contract(d)!Next
  <2>1. /\ item' = item /\ manual' = manual /\ keys'[d] \subseteq keys[d]
        /\ \A i \in Instances : pc'[i] = "running" <=> pc[i] = "running"
    BY <1>7 DEF Tick
  <2> QED BY <2>1, RecordedShrinks, ContractUntouched
<1> QED BY <1>2, <1>3, <1>4, <1>5, <1>6, <1>7, StartBegins, ContendSkips, UserBegins,
           UserEnds DEF Next, Pass

(* What the loops and users do with a source, whatever operators and the   *)
(* clock do meanwhile, is what the contract of run_sync allows: the        *)
(* scheduler takes a sync to do no more than SyncKeepsContract shows of    *)
(* Sync, and claims no window that has a run.                              *)
THEOREM SchedulerKeepsContract == Spec => KeepsContract
<1> DEFINE Kept == \A d \in Sources : [Contract(d)!Next]_(Contract(d)!contract)
<1>1. Init => Itemised
  BY DEF Init, Itemised, Attempting
<1>2. TypeOK /\ Itemised /\ [Next]_vars => Itemised'
  BY ItemisedKept
<1>3. Init => \A d \in Sources : Contract(d)!Init
  <2> SUFFICES ASSUME Init, NEW d \in Sources PROVE Contract(d)!Init
    OBVIOUS
  <2>1. ~Held(d)
    BY DEF Init, Held
  <2>2. ClaimOf(d) = [x \in Syncs |-> <<"none", 0>>] /\ WorkingOf(d) = {}
    BY <2>1, NobodyClaims DEF ClaimOf
  <2>3. RecordedOf(d) = {}
    BY DEF Init, RecordedOf
  <2> QED BY <2>2, <2>3 DEF Contract!Init, ClaimOf, WorkingOf, RecordedOf
<1>4. TypeOK /\ Itemised /\ [Next]_vars => [Kept]_vars
  BY ContractStep
<1> QED BY <1>1, <1>2, <1>3, <1>4, SchedulerTypeCorrect, PTL DEF Spec, KeepsContract
=============================================================================
