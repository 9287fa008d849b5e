------------------------------ MODULE Reality ------------------------------
(***************************************************************************)
(* What is believed about one entity: the observations that reach it       *)
(* through its mappings, recalculations of its states by concurrent        *)
(* requests, the conflicts they record and people decide, and what else    *)
(* changes under them: syncs, deleted streams, the deletion of the entity. *)
(*                                                                         *)
(* A fact is an observation that may be made: What gives its stream, its   *)
(* row (which is what mappings name), event time and payload; it is        *)
(* observed once, at the time of its ingestion. A request is a transaction *)
(* at READ COMMITTED; what it writes appears when it commits.              *)
(***************************************************************************)
EXTENDS RealityEngine

CONSTANTS
    Facts,        \* numbered in the order of the observations' ids
    What,         \* What[f]: [stream, row, event, payload]
    Source,       \* Source[s]: the data source of stream s
    Attributes,   \* attributes that payloads state
    Workers,      \* requests that may be recalculating at a time
    MaxTime,      \* last moment of the clock
    Events,       \* what may happen besides syncs and recalculations
    NoState       \* an attribute that has no state

ASSUME RealityAssumption ==
    /\ Facts \subseteq Nat
    /\ \A f \in Facts : What[f].event \in Nat
    /\ \A f \in Facts : DOMAIN What[f].payload \subseteq Attributes
    /\ MaxTime \in Nat

VARIABLES
    now,        \* the clock
    ingested,   \* ingested[f]: when f was read, if it was
    arriving,   \* facts read by syncs that have not committed
    stored,     \* committed observations
    retired,    \* deleted streams
    mapped,     \* rows mapped to the entity
    known,      \* the entity exists
    states,     \* states[a]: reality_states
    evidence,   \* evidence[a]: reality_state_evidence
    conflicts,  \* conflicts of the entity
    work        \* work[w]: the recalculation w is at

vars == <<now, ingested, arriving, stored, retired, mapped, known, states,
          evidence, conflicts, work>>
believed == <<states, evidence, conflicts>>
observed == <<ingested, arriving, stored, retired, mapped>>

-----------------------------------------------------------------------------
Times == 0 .. MaxTime
Stream(f) == What[f].stream
Rows == {What[f].row : f \in Facts}
Streams == {Stream(f) : f \in Facts}
Reading == {"loaded", "written", "blocked"}
Idle == [phase |-> "idle", asOf |-> 0, seen |-> {}]

(* load_observations_for_entity: what is mapped to the entity, and what of *)
(* it was ingested by the knowledge cutoff t.                              *)
Resolved == {f \in stored : What[f].row \in mapped}

(* Mutant: the cutoff is on event time.                                    *)
KnownByEvent(t) == {f \in Resolved : What[f].event <= t}
KnownAt(t) == {f \in Resolved : ingested[f] <= t}

AttributesIn(S) == UNION {DOMAIN What[f].payload : f \in S}

(* to_engine_input, of the facts of S that state a.                        *)
Input(f, a) ==
    [id |-> f, source |-> Source[Stream(f)], value |-> What[f].payload[a],
     event |-> What[f].event, ingested |-> ingested[f], valid |-> TRUE]

Inputs(S, a) == {Input(f, a) : f \in {g \in S : a \in DOMAIN What[g].payload}}

EvidenceOf(O) ==
    {[id |-> e.observation.id, role |-> e.role] : e \in Evidence(O)}

(* What recalculating from S alone would write for attribute a.            *)
StateFrom(S, a, asOf) ==
    IF a \in AttributesIn(S) THEN Calculate(Inputs(S, a), asOf) ELSE NoState

(* reality_as_of: the answer for the past moment t. It writes nothing.     *)
AsOf(t) == [a \in Attributes |-> StateFrom(KnownAt(t), a, t)]

-----------------------------------------------------------------------------
Init ==
    /\ now = 0
    /\ ingested = [f \in Facts |-> 0]
    /\ arriving = {}
    /\ stored = {}
    /\ retired = {}
    /\ mapped \in SUBSET Rows
    /\ known = TRUE
    /\ states = [a \in Attributes |-> NoState]
    /\ evidence = [a \in Attributes |-> {}]
    /\ conflicts = {}
    /\ work = [w \in Workers |-> Idle]

Tick ==
    /\ now < MaxTime
    /\ now' = now + 1
    /\ UNCHANGED <<observed, known, believed, work>>

(* sync_stream reads a row: ingested_at is the time of the reading.        *)
Ingest(f) ==
    /\ f \notin stored \cup arriving
    /\ Stream(f) \notin retired
    /\ ingested' = [ingested EXCEPT ![f] = now]
    /\ arriving' = arriving \cup {f}
    /\ UNCHANGED <<now, stored, retired, mapped, known, believed, work>>

Of(s) == {f \in Facts : Stream(f) = s}
Own(x) == {f \in Facts : Source[Stream(f)] = x}

(* The sync of a source commits what it has read of its streams.           *)
CommitSync(x) ==
    /\ arriving \cap Own(x) # {}
    /\ stored' = stored \cup (arriving \cap Own(x))
    /\ arriving' = arriving \ Own(x)
    /\ UNCHANGED <<now, ingested, retired, mapped, known, believed, work>>

(* map_observations: every observation of the row resolves to the entity.  *)
MapRow(r) ==
    /\ "map" \in Events
    /\ known
    /\ r \notin mapped
    /\ \E f \in Facts : What[f].row = r /\ Stream(f) \notin retired
    /\ mapped' = mapped \cup {r}
    /\ UNCHANGED <<now, ingested, arriving, stored, retired, known, believed,
                   work>>

(* delete_stream: its observations go, their evidence and mappings with    *)
(* them. It waits for a transaction that has referred to one of them, and  *)
(* an open sync that has read one fails.                                   *)
DeleteStream(s) ==
    /\ "delete" \in Events
    /\ s \notin retired
    /\ \A w \in Workers :
          work[w].phase = "written" => work[w].seen \cap Of(s) = {}
    /\ retired' = retired \cup {s}
    /\ stored' = stored \ Of(s)
    /\ arriving' = IF arriving \cap Of(s) = {} THEN arriving
                   ELSE arriving \ Own(Source[s])
    /\ mapped' = mapped \ {What[f].row : f \in Of(s)}
    /\ evidence' = [a \in Attributes |-> {e \in evidence[a] : e.id \notin Of(s)}]
    /\ UNCHANGED <<now, ingested, known, states, conflicts, work>>

-----------------------------------------------------------------------------
(* recalculate_entity: as_of is the time of the call.                      *)
Begin(w) ==
    /\ work[w].phase = "idle"
    /\ known
    /\ work' = [work EXCEPT ![w] = [phase |-> "begun", asOf |-> now, seen |-> {}]]
    /\ UNCHANGED <<now, observed, known, believed>>

Load(w) ==
    /\ work[w].phase = "begun"
    /\ work' = [work EXCEPT ![w].phase = "loaded", ![w].seen = Resolved]
    /\ UNCHANGED <<now, observed, known, believed>>

(* Another request has replaced the state of an attribute of w's and not   *)
(* committed: the delete or the insert has to wait for it.                 *)
Overlap(v, w) == AttributesIn(work[v].seen) \cap AttributesIn(work[w].seen) # {}
Contended(w) ==
    \E v \in Workers \ {w} : work[v].phase = "written" /\ Overlap(v, w)

(* The rows that states and evidence refer to are still there.             *)
Anchored(w) == known /\ work[w].seen \subseteq stored

Write(w) ==
    /\ work[w].phase \in {"loaded", "blocked"}
    /\ ~Contended(w)
    /\ Anchored(w)
    /\ work' = [work EXCEPT ![w].phase = "written"]
    /\ UNCHANGED <<now, observed, known, believed>>

Block(w) ==
    /\ work[w].phase = "loaded"
    /\ Contended(w)
    /\ work' = [work EXCEPT ![w].phase = "blocked"]
    /\ UNCHANGED <<now, observed, known, believed>>

(* A foreign key is violated, or the request ends for another reason.      *)
Fail(w) ==
    /\ work[w].phase # "idle"
    /\ \/ work[w].phase \in {"loaded", "blocked"} /\ ~Contended(w) /\ ~Anchored(w)
       \/ "fail" \in Events
    /\ work' = [work EXCEPT ![w] = Idle]
    /\ UNCHANGED <<now, observed, known, believed>>

(* _persist_conflicts: matched by fingerprint, updated in place. The state *)
(* a conflict was linked to is gone, so one that is not found loses it.    *)
Found(w, a) == Findings(Inputs(work[w].seen, a))
Finding(c) == [type |-> c.type, positions |-> c.positions]

(* Mutant: a conflict that is seen again is opened again.                  *)
SeenAgainReopened(c, w) ==
    [c EXCEPT !.lastSeen = work[w].asOf, !.linked = TRUE, !.status = "open"]

SeenAgain(c, w) == [c EXCEPT !.lastSeen = work[w].asOf, !.linked = TRUE]

(* Mutant: the severity of an ungraded conflict in the column of its status. *)
DetectedUngraded(a, x, w) ==
    [attribute |-> a, type |-> x.type, positions |-> x.positions,
     status |-> "unspecified", linked |-> TRUE, detected |-> work[w].asOf,
     lastSeen |-> work[w].asOf]

Detected(a, x, w) ==
    [attribute |-> a, type |-> x.type, positions |-> x.positions,
     status |-> "open", linked |-> TRUE, detected |-> work[w].asOf,
     lastSeen |-> work[w].asOf]

OnAttribute(a) == {c \in conflicts : c.attribute = a}

(* Mutant: every finding is a new conflict.                                *)
PersistedTwice(a, w) ==
    {[c EXCEPT !.linked = FALSE] : c \in OnAttribute(a)}
        \cup {Detected(a, x, w) : x \in Found(w, a)}

(* Mutant: the link of a conflict that is not found is kept.               *)
PersistedLinked(a, w) ==
    {IF Finding(c) \in Found(w, a) THEN SeenAgain(c, w) ELSE c : c \in OnAttribute(a)}
        \cup {Detected(a, x, w) :
                x \in Found(w, a) \ {Finding(c) : c \in OnAttribute(a)}}

Persisted(a, w) ==
    {IF Finding(c) \in Found(w, a) THEN SeenAgain(c, w)
     ELSE [c EXCEPT !.linked = FALSE] : c \in OnAttribute(a)}
        \cup {Detected(a, x, w) :
                x \in Found(w, a) \ {Finding(c) : c \in OnAttribute(a)}}

(* Mutant: the evidence of the replaced state stays.                       *)
NewEvidenceMerged(a, w) ==
    evidence[a] \cup EvidenceOf(Inputs(work[w].seen, a))

NewEvidence(a, w) == EvidenceOf(Inputs(work[w].seen, a))

(* The request commits: the states of the attributes its observations      *)
(* state are replaced with their evidence; whoever waited for it violates  *)
(* the unique key of states and fails.                                     *)
Commit(w) ==
    LET touched == AttributesIn(work[w].seen) IN
    /\ work[w].phase = "written"
    /\ states' = [a \in Attributes |->
          IF a \in touched THEN Calculate(Inputs(work[w].seen, a), work[w].asOf)
          ELSE states[a]]
    /\ evidence' = [a \in Attributes |->
          IF a \in touched THEN NewEvidence(a, w) ELSE evidence[a]]
    /\ conflicts' = UNION {IF a \in touched THEN Persisted(a, w) ELSE OnAttribute(a) :
                              a \in Attributes}
    /\ work' = [v \in Workers |->
          IF v = w \/ (work[v].phase = "blocked" /\ Overlap(v, w)) THEN Idle
          ELSE work[v]]
    /\ UNCHANGED <<now, observed, known>>

-----------------------------------------------------------------------------
(* update_conflict_route: a person's decision. It waits for a transaction  *)
(* that has linked or unlinked the conflict.                               *)
Decisions == {"open", "acknowledged", "resolved", "dismissed"}

Touches(w, c) ==
    /\ c.attribute \in AttributesIn(work[w].seen)
    /\ c.linked \/ Finding(c) \in Found(w, c.attribute)

Decide(c, status) ==
    /\ "decide" \in Events
    /\ \A w \in Workers : work[w].phase = "written" => ~Touches(w, c)
    /\ conflicts' = (conflicts \ {c}) \cup {[c EXCEPT !.status = status]}
    /\ UNCHANGED <<now, observed, known, states, evidence, work>>

(* delete_entity_route, with all that cascades.                            *)
DeleteEntity ==
    /\ "forget" \in Events
    /\ known
    /\ \A w \in Workers : work[w].phase # "written"
    /\ known' = FALSE
    /\ mapped' = {}
    /\ states' = [a \in Attributes |-> NoState]
    /\ evidence' = [a \in Attributes |-> {}]
    /\ conflicts' = {}
    /\ UNCHANGED <<now, ingested, arriving, stored, retired, work>>

Recalculate(w) ==
    Begin(w) \/ Load(w) \/ Write(w) \/ Block(w) \/ Fail(w) \/ Commit(w)

Next ==
    \/ Tick \/ DeleteEntity
    \/ \E x \in {Source[s] : s \in Streams} : CommitSync(x)
    \/ \E f \in Facts : Ingest(f)
    \/ \E r \in Rows : MapRow(r)
    \/ \E s \in Streams : DeleteStream(s)
    \/ \E w \in Workers : Recalculate(w)
    \/ \E c \in conflicts : \E status \in Decisions \ {c.status} : Decide(c, status)

Spec == Init /\ [][Next]_vars
=============================================================================
