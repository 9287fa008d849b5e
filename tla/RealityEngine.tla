--------------------------- MODULE RealityEngine ---------------------------
(***************************************************************************)
(* The Reality Engine (app/engine): a pure function from the observations  *)
(* that state an attribute of an entity to what is believed about it.      *)
(*                                                                         *)
(* The scoring specification is the one the application runs with, which   *)
(* is unavailable: nothing is weighted, so a value is selected only when   *)
(* no source contradicts it. An observation is a record with an id, the    *)
(* source, the value it states, its event and ingestion times and whether  *)
(* it is valid; values are compared by their canonical rendering, so here  *)
(* a value is one. Scores, severities and texts are left out.              *)
(***************************************************************************)
EXTENDS Naturals, FiniteSets

CONSTANT NoValue     \* the value of a state for which none was selected

Statuses == {"confirmed", "contested", "unknown"}
Roles == {"supporting", "dissenting", "excluded", "considered"}

(* Mutant: what arrived last is newest.                                    *)
NewerByArrival(o, p) ==
    \/ o.ingested > p.ingested
    \/ o.ingested = p.ingested /\ o.id > p.id

(* A source's statements are ranked by event time, ingestion time and id.  *)
Newer(o, p) ==
    \/ o.event > p.event
    \/ o.event = p.event /\ o.ingested > p.ingested
    \/ o.event = p.event /\ o.ingested = p.ingested /\ o.id > p.id

-----------------------------------------------------------------------------
(* latest_per_source: every source's most recent statement.                *)
Supersedes(o, p) == o.source = p.source /\ Newer(o, p)

(* Mutant: every statement of a source counts.                             *)
CurrentAll(O) == O

Current(O) == {o \in O : \A p \in O : ~Supersedes(p, o)}

(* Mutant: an invalid statement is dropped and an older valid one returns.  *)
EligibleFirst(O) == Current({o \in O : o.valid})

(* Invalid statements are set aside after that, not before.                *)
Eligible(O) == {o \in Current(O) : o.valid}

(* group_unranked: one candidate per distinct value.                       *)
Asserting(O, v) == {o.source : o \in {p \in Eligible(O) : p.value = v}}

Candidates(O) ==
    {[value |-> v, sources |-> Asserting(O, v)] : v \in {o.value : o \in Eligible(O)}}

(* Mutant: one of the competing values is taken.                           *)
SelectsAny(O) == Candidates(O) # {}

Selects(O) == Cardinality(Candidates(O)) = 1

Status(O) ==
    IF Eligible(O) = {} THEN "unknown"
    ELSE IF Selects(O) THEN "confirmed" ELSE "contested"

Value(O) ==
    IF Selects(O) THEN (CHOOSE c \in Candidates(O) : TRUE).value ELSE NoValue

(* _unscored_evidence, _unknown: the role of every observation considered. *)
Role(O, o) ==
    IF o \notin Eligible(O) THEN "excluded"
    ELSE IF ~Selects(O) THEN "considered"
    ELSE IF o.value = Value(O) THEN "supporting" ELSE "dissenting"

Evidence(O) == {[observation |-> o, role |-> Role(O, o)] : o \in O}

InRole(E, role) == {e \in E : e.role = role}

(* An extreme event time of a set of observations.                         *)
Earliest(S) == CHOOSE t \in {o.event : o \in S} : \A o \in S : t <= o.event
Latest(S) == CHOOSE t \in {o.event : o \in S} : \A o \in S : t >= o.event

(* When the belief became true: the moment of calculation if there is none,*)
(* the newest statement of the value selected, the first competing claim.  *)
ValidFrom(O, asOf) ==
    IF Eligible(O) = {} THEN asOf
    ELSE IF Selects(O) THEN Latest(Eligible(O)) ELSE Earliest(Eligible(O))

-----------------------------------------------------------------------------
(* conflict_fingerprint identifies a finding by its type and by who states *)
(* what.                                                                   *)
ConflictTypes == {"value_conflict", "source_disagreement"}

ValueConflict(O) ==
    IF Cardinality(Candidates(O)) < 2 THEN {}
    ELSE {[type |-> "value_conflict", positions |-> Candidates(O)]}

(* Two candidates are backed by different sources.                         *)
Disjoint(C) == \E c, d \in C : c # d /\ c.sources \cap d.sources = {}

SourceDisagreement(O) ==
    IF Cardinality(Candidates(O)) < 2 \/ ~Disjoint(Candidates(O)) THEN {}
    ELSE {[type |-> "source_disagreement", positions |-> Candidates(O)]}

Findings(O) == ValueConflict(O) \cup SourceDisagreement(O)

(* calculate.                                                              *)
Calculate(O, asOf) ==
    LET evidence == Evidence(O) IN
    [status |-> Status(O), value |-> Value(O), selected |-> Selects(O),
     validFrom |-> ValidFrom(O, asOf), calculatedAt |-> asOf,
     supporting |-> Cardinality(InRole(evidence, "supporting")),
     dissenting |-> Cardinality(InRole(evidence, "dissenting"))]
=============================================================================
