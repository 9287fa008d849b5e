----------------------------- MODULE Scheduler -----------------------------
(***************************************************************************)
(* Scheduled background syncing: the loop every API process runs           *)
(* (ingestion/scheduler.py), over the sources of all organizations.        *)
(*                                                                         *)
(* run_sync is seen from outside here: what Sync models step by step is an *)
(* attempt that looks its key up, inserts its run, takes the source's lock *)
(* or is told it is taken, and commits.                                    *)
(*                                                                         *)
(* Time is cyclic: Cycle is a common multiple of the poll intervals, and   *)
(* the key of a window is forgotten when the clock has left the window, so *)
(* that the loop can run for ever in a finite instance.                    *)
(***************************************************************************)
EXTENDS Naturals, FiniteSets

CONSTANTS
    Instances,   \* API processes
    Sources,     \* data sources, numbered in the order of their ids
    Streams,     \* streams that may be configured
    Owner,       \* Owner[s]: the source of stream s
    Intervals,   \* poll intervals an operator may choose, in ticks
    Cycle,       \* length of the clock's cycle
    PerTick,     \* sync_scheduler_max_sources_per_tick
    Events       \* what operators and the environment may do

ASSUME SchedulerAssumption ==
    /\ Sources \subseteq Nat
    /\ IsFiniteSet(Sources)
    /\ Owner \in [Streams -> Sources]
    /\ Intervals \subseteq Nat \ {0}
    /\ Intervals # {}
    /\ Cycle \in Nat \ {0}
    /\ \A n \in Intervals : n <= Cycle /\ Cycle % n = 0
    /\ PerTick \in Nat

VARIABLES
    now,       \* the clock, in ticks
    exists,    \* configured streams
    enabled,   \* streams with the enabled flag
    interval,  \* interval[s]: poll_interval_seconds
    age,       \* age[s]: time since last_synced_at, Cycle if never or longer
    broken,    \* streams whose table or database cannot be read
    keys,      \* keys[d]: committed scheduled runs of source d
    manual,    \* sources a user's sync is holding the lock of
    pc,        \* pc[i]: where instance i's loop is
    todo,      \* todo[i]: what its pass has still to attempt
    item,      \* item[i]: what it is attempting
    reading    \* reading[i]: the streams that attempt loaded

vars == <<now, exists, enabled, interval, age, broken, keys, manual, pc, todo,
          item, reading>>
catalog == <<exists, enabled, interval>>
loop == <<pc, todo, item, reading>>

-----------------------------------------------------------------------------
Times == 0 .. Cycle - 1
DueSource == [source : Sources, streams : SUBSET Streams, window : Times]
ScheduledRun == [window : Times, streams : SUBSET Streams]
NoItem == [source |-> 0, streams |-> {}, window |-> 0]

(* Mutant: rounded up.                                                     *)
CeilToWindow(t, n) == t - (t % n) + n

(* floor_to_window.                                                        *)
FloorToWindow(t, n) == t - (t % n)

(* _due_at <= now; a stream that never synced has the greatest age.        *)
IsDue(s) == s \in exists \cap enabled /\ age[s] >= interval[s]

DueStreams(d) == {s \in Streams : Owner[s] = d /\ IsDue(s)}

(* The shortest interval of a source's due streams wins.                   *)
Shortest(s) ==
    /\ s \in DueStreams(Owner[s])
    /\ \A t \in DueStreams(Owner[s]) : interval[s] <= interval[t]

FindDueSources ==
    {[source |-> Owner[s], streams |-> DueStreams(Owner[s]),
      window |-> FloorToWindow(now, interval[s])] :
        s \in {t \in Streams : Shortest(t)}}

(* due[:limit]: the sources with the smallest ids.                         *)
Selected(due) ==
    {e \in due : Cardinality({f \in due : f.source < e.source}) < PerTick}

Answered(e) == \E k \in keys[e.source] : k.window = e.window

(* An attempt that has inserted the run of e and not committed it.         *)
InProgress(j, e) ==
    pc[j] = "running" /\ item[j].source = e.source /\ item[j].window = e.window

(* Mutant: only the syncs of the scheduler itself are seen.                *)
HeldByScheduler(d) ==
    \E j \in Instances : pc[j] = "running" /\ item[j].source = d

(* The advisory lock of source d is taken.                                 *)
Held(d) ==
    d \in manual \/ \E j \in Instances : pc[j] = "running" /\ item[j].source = d

-----------------------------------------------------------------------------
Init ==
    /\ now = 0
    /\ exists \in SUBSET Streams
    /\ enabled = Streams
    /\ interval \in [Streams -> Intervals]
    /\ age = [s \in Streams |-> Cycle]
    /\ broken = {}
    /\ keys = [d \in Sources |-> {}]
    /\ manual = {}
    /\ pc = [i \in Instances |-> "awake"]
    /\ todo = [i \in Instances |-> {}]
    /\ item = [i \in Instances |-> NoItem]
    /\ reading = [i \in Instances |-> {}]

(* tick: discovery, in a session of its own.                               *)
Discover(i) ==
    LET due == Selected(FindDueSources) IN
    /\ pc[i] = "awake"
    /\ pc' = [pc EXCEPT ![i] = IF due = {} THEN "asleep" ELSE "pass"]
    /\ todo' = [todo EXCEPT ![i] = due]
    /\ UNCHANGED <<now, catalog, age, broken, keys, manual, item, reading>>

(* Mutant: the pass ends at the first source that could not be synced.     *)
AdvanceGivesUp(i, e) ==
    /\ todo' = [todo EXCEPT ![i] = {}]
    /\ pc' = [pc EXCEPT ![i] = "asleep"]
    /\ item' = [item EXCEPT ![i] = NoItem]
    /\ reading' = [reading EXCEPT ![i] = {}]

(* Whatever became of e, the pass goes on with the next source; after the  *)
(* last one the loop sleeps until the next tick.                           *)
Advance(i, e) ==
    /\ todo' = [todo EXCEPT ![i] = @ \ {e}]
    /\ pc' = [pc EXCEPT ![i] = IF todo[i] = {e} THEN "asleep" ELSE "pass"]
    /\ item' = [item EXCEPT ![i] = NoItem]
    /\ reading' = [reading EXCEPT ![i] = {}]

IsNextItem(i, e) ==
    /\ pc[i] = "pass"
    /\ e \in todo[i]
    /\ \A f \in todo[i] : e.source <= f.source

(* sync_due_source finds none of the item's streams: they were deleted.    *)
Vanish(i) ==
    /\ \E e \in todo[i] :
        /\ IsNextItem(i, e)
        /\ e.streams \cap exists = {}
        /\ Advance(i, e)
    /\ UNCHANGED <<now, catalog, age, broken, keys, manual>>

(* sync_due_source loads what is left of the item's streams, and run_sync  *)
(* looks the key up.                                                       *)
Lookup(i) ==
    /\ \E e \in todo[i] :
        /\ IsNextItem(i, e)
        /\ e.streams \cap exists # {}
        /\ item' = [item EXCEPT ![i] = e]
        /\ reading' = [reading EXCEPT ![i] = e.streams \cap exists]
        /\ pc' = [pc EXCEPT ![i] = IF Answered(e) THEN "answered" ELSE "insert"]
    /\ UNCHANGED <<now, catalog, age, broken, keys, manual, todo>>

(* The key has a run: that run is the answer and no work is done.          *)
Reuse(i) ==
    /\ pc[i] = "answered"
    /\ Advance(i, item[i])
    /\ UNCHANGED <<now, catalog, age, broken, keys, manual>>

(* Mutant: neither the constraint nor the wait for an uncommitted run.     *)
InsertableUnchecked(i) == pc[i] = "insert"

Insertable(i) ==
    /\ pc[i] = "insert"
    /\ \A j \in Instances \ {i} : ~InProgress(j, item[i])
    /\ ~Answered(item[i])

StartRun(i) ==
    /\ Insertable(i)
    /\ ~Held(item[i].source)
    /\ pc' = [pc EXCEPT ![i] = "running"]
    /\ UNCHANGED <<now, catalog, age, broken, keys, manual, todo, item, reading>>

(* The run of the item is committed.                                       *)
RecordRun(i) ==
    keys' = [keys EXCEPT ![item[i].source] =
        @ \cup {[window |-> item[i].window, streams |-> reading[i]]}]

(* Another sync holds the source: the run is recorded as skipped.          *)
Contend(i) ==
    /\ Insertable(i)
    /\ Held(item[i].source)
    /\ RecordRun(i)
    /\ Advance(i, item[i])
    /\ UNCHANGED <<now, catalog, age, broken, manual>>

(* The key was taken between the lookup and the insert: an IntegrityError. *)
Collide(i) ==
    /\ pc[i] = "insert"
    /\ Answered(item[i])
    /\ Advance(i, item[i])
    /\ UNCHANGED <<now, catalog, age, broken, keys, manual>>

(* The run commits; the streams that were read to their end are fresh. It  *)
(* is recorded whether it completed or failed.                             *)
Finish(i) ==
    LET good == reading[i] \ broken IN
    /\ pc[i] = "running"
    /\ good \subseteq exists
    /\ age' = [s \in Streams |-> IF s \in good THEN 0 ELSE age[s]]
    /\ RecordRun(i)
    /\ Advance(i, item[i])
    /\ UNCHANGED <<now, catalog, broken, manual>>

(* The attempt raises and is rolled back: a stream was deleted under it, or *)
(* the error is none the connector knows.                                  *)
Raise(i) ==
    /\ pc[i] = "running"
    /\ "raise" \in Events \/ ~(reading[i] \ broken \subseteq exists)
    /\ Advance(i, item[i])
    /\ UNCHANGED <<now, catalog, age, broken, keys, manual>>

(* The process dies and is started again; PostgreSQL rolls its work back.  *)
Restart(i) ==
    /\ "crash" \in Events
    /\ pc[i] \notin {"asleep", "awake"}
    /\ pc' = [pc EXCEPT ![i] = "awake"]
    /\ todo' = [todo EXCEPT ![i] = {}]
    /\ item' = [item EXCEPT ![i] = NoItem]
    /\ reading' = [reading EXCEPT ![i] = {}]
    /\ UNCHANGED <<now, catalog, age, broken, keys, manual>>

-----------------------------------------------------------------------------
(* trigger_sync under a key of its own holds the source's lock and stamps  *)
(* the streams it read.                                                    *)
ManualStart(d) ==
    /\ "manual" \in Events
    /\ ~Held(d)
    /\ manual' = manual \cup {d}
    /\ UNCHANGED <<now, catalog, age, broken, keys, loop>>

ManualEnd(d) ==
    /\ d \in manual
    /\ manual' = manual \ {d}
    /\ \E S \in SUBSET {s \in exists \ broken : Owner[s] = d} :
          age' = [s \in Streams |-> IF s \in S THEN 0 ELSE age[s]]
    /\ UNCHANGED <<now, catalog, broken, keys, loop>>

(* create_stream: a stream that has never synced.                          *)
ConfigureStream(s) ==
    /\ "configure" \in Events
    /\ s \notin exists
    /\ exists' = exists \cup {s}
    /\ age' = [age EXCEPT ![s] = Cycle]
    /\ enabled' = enabled \cup {s}
    /\ \E n \in Intervals : interval' = [interval EXCEPT ![s] = n]
    /\ UNCHANGED <<now, broken, keys, manual, loop>>

(* delete_stream, with the runs that were about it alone.                  *)
DeleteStream(s) ==
    /\ "delete" \in Events
    /\ s \in exists
    /\ \A i \in Instances : pc[i] = "running" => reading[i] # {s}
    /\ exists' = exists \ {s}
    /\ keys' = [d \in Sources |-> {k \in keys[d] : k.streams # {s}}]
    /\ UNCHANGED <<now, enabled, interval, age, broken, manual, loop>>

(* update_stream.                                                          *)
SwitchStream(s) ==
    /\ "switch" \in Events
    /\ s \in exists
    /\ enabled' = IF s \in enabled THEN enabled \ {s} ELSE enabled \cup {s}
    /\ UNCHANGED <<now, exists, interval, age, broken, keys, manual, loop>>

Repoll(s) ==
    /\ "repoll" \in Events
    /\ s \in exists
    /\ \E n \in Intervals \ {interval[s]} : interval' = [interval EXCEPT ![s] = n]
    /\ UNCHANGED <<now, exists, enabled, age, broken, keys, manual, loop>>

(* A customer's table or database becomes unreadable, or readable again.   *)
BreakOrRepair(s) ==
    /\ "break" \in Events
    /\ broken' = IF s \in broken THEN broken \ {s} ELSE broken \cup {s}
    /\ UNCHANGED <<now, catalog, age, keys, manual, loop>>

(* The clock, in units of sync_scheduler_tick_seconds: a loop that sleeps  *)
(* wakes up. A pass is assumed not to last a whole cycle.                  *)
Outstanding(i) == todo[i] \cup IF item[i] = NoItem THEN {} ELSE {item[i]}
Open(t, w) == \E n \in Intervals : w = FloorToWindow(t, n)

Tick ==
    LET t == (now + 1) % Cycle IN
    /\ \A i \in Instances : \A e \in Outstanding(i) : e.window # t
    /\ now' = t
    /\ age' = [s \in Streams |-> IF age[s] < Cycle THEN age[s] + 1 ELSE Cycle]
    /\ keys' = [d \in Sources |->
          {k \in keys[d] :
              /\ k.window # t
              /\ \/ Open(t, k.window)
                 \/ \E i \in Instances : \E e \in Outstanding(i) :
                       e.source = d /\ e.window = k.window}]
    /\ pc' = [i \in Instances |-> IF pc[i] = "asleep" THEN "awake" ELSE pc[i]]
    /\ UNCHANGED <<catalog, broken, manual, todo, item, reading>>

-----------------------------------------------------------------------------
Pass(i) ==
    \/ Discover(i) \/ Vanish(i) \/ Lookup(i) \/ Reuse(i) \/ StartRun(i)
    \/ Contend(i) \/ Collide(i) \/ Finish(i)

Operator(s) ==
    ConfigureStream(s) \/ DeleteStream(s) \/ SwitchStream(s) \/ Repoll(s)

Next ==
    \/ \E i \in Instances : Pass(i) \/ Raise(i) \/ Restart(i)
    \/ \E d \in Sources : ManualStart(d) \/ ManualEnd(d)
    \/ \E s \in Streams : Operator(s) \/ BreakOrRepair(s)
    \/ Tick

Spec == Init /\ [][Next]_vars

(* run_scheduler never stops, a sync ends (Sync's AttemptEnds), the clock  *)
(* moves. Nothing obliges operators or the customer to act.                *)
FairSpec ==
    /\ Spec
    /\ WF_vars(Tick)
    /\ \A i \in Instances : WF_vars(Pass(i) \/ Raise(i))
    /\ \A d \in Sources : WF_vars(ManualEnd(d))
=============================================================================
