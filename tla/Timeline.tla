------------------------------ MODULE Timeline ------------------------------
(***************************************************************************)
(* What the timeline shows of the observations of an entity, on the axis   *)
(* of events or on that of knowledge, a page of them at a time.            *)
(***************************************************************************)
EXTENDS RealityEngine, Records

CONSTANT MaxTimeline     \* MAX_TIMELINE_EVENTS

(* Newest first on the axis, then on the other, then by id.                *)
LearnedLater(o, p) ==
    \/ o.ingested > p.ingested
    \/ o.ingested = p.ingested /\ o.event > p.event
    \/ o.ingested = p.ingested /\ o.event = p.event /\ o.id > p.id

Before(axis, o, p) == IF axis = "event" THEN Newer(o, p) ELSE LearnedLater(o, p)

(* What had happened, or was known, by then: Null asks for everything.     *)
(* Mutant: both cuts are of the time of the event.                         *)
AsOfEvents(O, event, knowledge) ==
    {o \in O : /\ event # Null => o.event <= event
               /\ knowledge # Null => o.event <= knowledge}
AsOf(O, event, knowledge) ==
    {o \in O : /\ event # Null => o.event <= event
               /\ knowledge # Null => o.ingested <= knowledge}

Bounded(limit) ==
    IF limit < 1 THEN 1 ELSE IF limit > MaxTimeline THEN MaxTimeline ELSE limit

(* The first of S on the axis.                                             *)
FirstOf(S, axis, limit) ==
    {o \in S : Cardinality({p \in S : Before(axis, p, o)}) < Bounded(limit)}

reconstruct(O, axis, event, knowledge, limit) ==
    LET S == AsOf(O, event, knowledge) IN
    [events |-> FirstOf(S, axis, limit), truncated |-> Cardinality(S) > Bounded(limit)]

ArrivedLate(o) == o.ingested > o.event

(* attribute_history keeps of a page what states the attribute.            *)
attribute_history(O, limit) ==
    {o \in reconstruct(O, "event", Null, Null, limit).events : o.value # Null}
=============================================================================
