---------------------------- MODULE RealityProofs ----------------------------
(***************************************************************************)
(* Theorems of RealitySafety, for any facts, mappings and number of        *)
(* concurrent recalculations. Facts may be without bound: what is stored,  *)
(* and what a recalculation has loaded, is finite at all times.            *)
(***************************************************************************)
EXTENDS RealitySafety, FiniteSetTheorems, TLAPS

(* What is counted is finite.                                              *)
Finite ==
    /\ IsFiniteSet(stored)
    /\ IsFiniteSet(arriving)
    /\ \A w \in Workers : IsFiniteSet(work[w].seen)

(* Evidence is of committed observations that state the attribute.         *)
Grounded ==
    \A a \in Attributes : \A e \in evidence[a] :
        e.id \in stored /\ a \in DOMAIN What[e.id].payload

(* What an uncommitted recalculation refers to cannot go.                  *)
WritersAnchored ==
    \A w \in Workers : work[w].phase = "written" => Anchored(w)

RealityInv ==
    /\ TypeOK
    /\ Finite
    /\ Grounded
    /\ WritersAnchored
    /\ OneCalculation
    /\ ConflictsMatchStates
    /\ OneConflictPerDisagreement

-----------------------------------------------------------------------------
(* The engine, on a finite set of observations.                            *)
LEMMA FiniteCandidates ==
    ASSUME NEW O, IsFiniteSet(O)
    PROVE  IsFiniteSet(Candidates(O))
<1> DEFINE position == [o \in Eligible(O) |->
                          [value |-> o.value, sources |-> Asserting(O, o.value)]]
<1>1. IsFiniteSet(Eligible(O))
  BY FS_Subset DEF Eligible, Current
<1>2. position \in Surjection(Eligible(O), Candidates(O))
  BY DEF Candidates, Surjection
<1> QED BY <1>1, <1>2, FS_Surjection

(* A finite set of moments has a first and a last one: a smallest set that *)
(* had none would get one back with the moment taken from it.              *)
LEMMA Extremes ==
    ASSUME NEW T, IsFiniteSet(T), T \subseteq Nat, T # {}
    PROVE  \E lo, hi \in T : \A t \in T : lo <= t /\ t <= hi
<1> DEFINE Bounded(U) == \E lo, hi \in U : \A t \in U : lo <= t /\ t <= hi
           Bad == {U \in FiniteSubsetsOf(T) : U # {} /\ ~Bounded(U)}
<1> SUFFICES ASSUME Bad # {} PROVE FALSE
  BY DEF FiniteSubsetsOf
<1>1. PICK U \in Bad : \A V \in Bad : <<V, U>> \notin StrictSubsetOrdering(T)
  <2>1. IsWellFoundedOn(StrictSubsetOrdering(T), FiniteSubsetsOf(T))
    BY FS_StrictSubsetOrderingWellFounded
  <2>2. Bad \subseteq FiniteSubsetsOf(T)
    OBVIOUS
  <2> HIDE DEF Bad
  <2> QED BY <2>1, <2>2, WFMin
<1>2. U \subseteq T /\ IsFiniteSet(U) /\ U # {} /\ ~Bounded(U)
  BY DEF FiniteSubsetsOf
<1>3. PICK x \in U : TRUE
  BY <1>2
<1> DEFINE V == U \ {x}
<1>4. V \subseteq T /\ IsFiniteSet(V) /\ V # U
  BY <1>2, <1>3, FS_RemoveElement
<1>5. CASE V = {}
  <2>1. \A y \in U : y = x
    BY <1>5
  <2>2. x <= x
    BY <1>2
  <2> QED BY <1>2, <1>3, <2>1, <2>2
<1>6. CASE V # {}
  <2>1. <<V, U>> \in StrictSubsetOrdering(T)
    BY <1>2, <1>4 DEF StrictSubsetOrdering
  <2>2. V \notin Bad
    BY <1>1, <2>1
  <2>3. Bounded(V)
    BY <1>4, <1>6, <2>2 DEF FiniteSubsetsOf
  <2>4. PICK lo \in V, hi \in V : \A t \in V : lo <= t /\ t <= hi
    BY <2>3
  <2>5. x \in Nat /\ lo \in Nat /\ hi \in Nat /\ V \subseteq Nat
    BY <1>2, <1>4, <2>4
  <2>6. \E m \in U : m <= x /\ \A t \in V : m <= t
    <3>1. CASE x <= lo
      BY <1>3, <2>4, <2>5, <3>1
    <3>2. CASE ~(x <= lo)
      BY <2>4, <2>5, <3>2
    <3> QED BY <3>1, <3>2
  <2>7. \E m \in U : x <= m /\ \A t \in V : t <= m
    <3>1. CASE hi <= x
      BY <1>3, <2>4, <2>5, <3>1
    <3>2. CASE ~(hi <= x)
      BY <2>4, <2>5, <3>2
    <3> QED BY <3>1, <3>2
  <2>8. Bounded(U)
    BY <2>6, <2>7
  <2> QED BY <1>2, <2>8
<1> QED BY <1>5, <1>6

LEMMA EarliestAndLatest ==
    ASSUME NEW S, IsFiniteSet(S), S # {}, \A o \in S : o.event \in Nat
    PROVE  Earliest(S) \in Nat /\ Latest(S) \in Nat
<1> DEFINE T == {o.event : o \in S}
           event == [o \in S |-> o.event]
<1>1. event \in Surjection(S, T)
  BY DEF Surjection
<1>2. IsFiniteSet(T)
  BY <1>1, FS_Surjection
<1>3. T # {} /\ T \subseteq Nat
  OBVIOUS
<1>4. PICK lo \in T, hi \in T : \A t \in T : lo <= t /\ t <= hi
  <2> HIDE DEF T
  <2> QED BY <1>2, <1>3, Extremes
<1>5. \E t \in T : \A o \in S : t <= o.event
  BY <1>4
<1>6. \E t \in T : \A o \in S : t >= o.event
  <2>1. \A o \in S : hi >= o.event
    BY <1>3, <1>4
  <2> QED BY <2>1
<1>7. Earliest(S) \in T
  BY <1>5 DEF Earliest
<1>8. Latest(S) \in T
  BY <1>6 DEF Latest
<1> QED BY <1>3, <1>7, <1>8

(* Values are told apart exactly where a conflict is found.                *)
LEMMA ContestedIsFound ==
    ASSUME NEW O, IsFiniteSet(O)
    PROVE  Status(O) = "contested" <=> Findings(O) # {}
<1> DEFINE n == Cardinality(Candidates(O))
<1>1. n \in Nat
  BY FiniteCandidates, FS_CardinalityType
<1>2. n = 0 <=> Eligible(O) = {}
  <2>1. n = 0 <=> Candidates(O) = {}
    BY FiniteCandidates, FS_EmptySet
  <2>2. Candidates(O) = {} <=> Eligible(O) = {}
    BY DEF Candidates
  <2> QED BY <2>1, <2>2
<1>3. Findings(O) # {} <=> ~(n < 2)
  BY DEF Findings, ValueConflict, SourceDisagreement
<1>4. Status(O) = "contested" <=> n # 0 /\ n # 1
  BY <1>2 DEF Status, Selects
<1> QED BY <1>1, <1>3, <1>4

-----------------------------------------------------------------------------
(* What is handed to the engine, and what it makes of it.                  *)
Stating(S, a) == {f \in S : a \in DOMAIN What[f].payload}

LEMMA InputFields ==
    ASSUME NEW S, S \subseteq Facts, NEW a \in Attributes, NEW o \in Inputs(S, a)
    PROVE  /\ o.id \in Stating(S, a)
           /\ o.event \in Nat
           /\ o.value \in Values
           /\ o.source \in {Source[s] : s \in Streams}
<1>1. PICK f \in S : a \in DOMAIN What[f].payload /\ o = Input(f, a)
  BY DEF Inputs
<1>2. f \in Facts /\ What[f].event \in Nat
  BY RealityAssumption
<1>3. What[f].payload[a] \in Values
  BY <1>1, <1>2 DEF Values
<1>4. Source[Stream(f)] \in {Source[s] : s \in Streams}
  BY <1>2 DEF Streams
<1> QED BY <1>1, <1>2, <1>3, <1>4 DEF Input, Stating

LEMMA FiniteInputs ==
    ASSUME NEW S, IsFiniteSet(S), NEW a
    PROVE  IsFiniteSet(Inputs(S, a))
<1> DEFINE G == {g \in S : a \in DOMAIN What[g].payload}
           input == [f \in G |-> Input(f, a)]
<1>1. IsFiniteSet(G)
  BY FS_Subset
<1>2. input \in Surjection(G, Inputs(S, a))
  BY DEF Inputs, Surjection
<1> QED BY <1>1, <1>2, FS_Surjection

LEMMA FiniteEvidence ==
    ASSUME NEW O, IsFiniteSet(O), NEW role
    PROVE  IsFiniteSet(InRole(Evidence(O), role))
<1> DEFINE item == [o \in O |-> [observation |-> o, role |-> Role(O, o)]]
<1>1. item \in Surjection(O, Evidence(O))
  BY DEF Evidence, Surjection
<1>2. IsFiniteSet(Evidence(O))
  BY <1>1, FS_Surjection
<1> QED BY <1>2, FS_Subset DEF InRole

LEMMA CandidateFields ==
    ASSUME NEW S, S \subseteq Facts, NEW a \in Attributes
    PROVE  Candidates(Inputs(S, a)) \subseteq Position
<1> SUFFICES ASSUME NEW o \in Eligible(Inputs(S, a))
             PROVE  [value |-> o.value, sources |-> Asserting(Inputs(S, a), o.value)]
                        \in Position
  BY DEF Candidates
<1>1. Eligible(Inputs(S, a)) \subseteq Inputs(S, a)
  BY DEF Eligible, Current
<1>2. o.value \in Values
  BY <1>1, InputFields
<1>3. Asserting(Inputs(S, a), o.value) \subseteq {Source[s] : s \in Streams}
  BY <1>1, InputFields DEF Asserting
<1> QED BY <1>2, <1>3 DEF Position

LEMMA SelectsSomething ==
    ASSUME NEW O, IsFiniteSet(O), Selects(O)
    PROVE  (CHOOSE c \in Candidates(O) : TRUE) \in Candidates(O) /\ Eligible(O) # {}
<1>1. Candidates(O) # {}
  BY FS_EmptySet DEF Selects
<1>2. Eligible(O) # {}
  BY <1>1 DEF Candidates
<1> QED BY <1>1, <1>2

LEMMA CalculatedRow ==
    ASSUME NEW S, S \subseteq Facts, IsFiniteSet(S), NEW a \in Attributes,
           NEW asOf \in Times
    PROVE  Calculate(Inputs(S, a), asOf) \in StateRow
<1> DEFINE O == Inputs(S, a)
<1>1. IsFiniteSet(O)
  BY FiniteInputs
<1>2. Status(O) \in Statuses
  BY DEF Status, Statuses
<1>3. Value(O) \in Values \cup {NoValue}
  <2>1. CASE Selects(O)
    <3>1. PICK c \in Position : c = CHOOSE d \in Candidates(O) : TRUE
      BY <1>1, <2>1, SelectsSomething, CandidateFields
    <3> QED BY <2>1, <3>1 DEF Value, Position
  <2> QED BY <2>1 DEF Value
<1>4. Status(O) = "unknown" => ~Selects(O)
  BY <1>1, SelectsSomething DEF Status
<1>5. ValidFrom(O, asOf) \in Nat
  <2>1. asOf \in Nat
    BY RealityAssumption DEF Times
  <2>2. Eligible(O) \subseteq O
    BY DEF Eligible, Current
  <2>3. IsFiniteSet(Eligible(O)) /\ \A o \in Eligible(O) : o.event \in Nat
    BY <1>1, <2>2, FS_Subset, InputFields
  <2> HIDE DEF O
  <2> QED BY <2>1, <2>3, EarliestAndLatest DEF ValidFrom
<1>6. \A role : Cardinality(InRole(Evidence(O), role)) \in Nat
  BY <1>1, FiniteEvidence, FS_CardinalityType
<1>7. Selects(O) \in BOOLEAN
  BY DEF Selects
<1> HIDE DEF O
<1> SUFFICES Calculate(O, asOf) \in StateRow
  BY DEF O
<1> QED BY <1>2, <1>3, <1>4, <1>5, <1>6, <1>7 DEF Calculate, StateRow

LEMMA EvidenceFields ==
    ASSUME NEW S, S \subseteq Facts, NEW a \in Attributes
    PROVE  /\ EvidenceOf(Inputs(S, a)) \subseteq EvidenceRow
           /\ {e.id : e \in EvidenceOf(Inputs(S, a))} = Stating(S, a)
<1> DEFINE O == Inputs(S, a)
<1>1. ASSUME NEW e \in EvidenceOf(O)
      PROVE  e \in EvidenceRow /\ e.id \in Stating(S, a)
  <2>1. PICK o \in O : e = [id |-> o.id, role |-> Role(O, o)]
    BY DEF EvidenceOf, Evidence
  <2>2. Role(O, o) \in Roles
    BY DEF Role, Roles
  <2>3. o.id \in Stating(S, a)
    BY InputFields
  <2> HIDE DEF O
  <2> QED BY <2>1, <2>2, <2>3 DEF EvidenceRow, Stating
<1>2. ASSUME NEW f \in Stating(S, a)
      PROVE  \E e \in EvidenceOf(O) : e.id = f
  <2>1. PICK o \in O : o.id = f
    <3>1. Input(f, a) \in O
      BY DEF Inputs, Stating
    <3>2. Input(f, a).id = f
      BY DEF Input
    <3> QED BY <3>1, <3>2
  <2> HIDE DEF O
  <2>2. [observation |-> o, role |-> Role(O, o)] \in Evidence(O)
    BY DEF Evidence
  <2>3. [id |-> o.id, role |-> Role(O, o)] \in EvidenceOf(O)
    BY <2>2 DEF EvidenceOf
  <2> QED BY <2>1, <2>3
<1> HIDE DEF O
<1>3. /\ EvidenceOf(O) \subseteq EvidenceRow
      /\ {e.id : e \in EvidenceOf(O)} = Stating(S, a)
  BY <1>1, <1>2
<1> QED BY <1>3 DEF O

LEMMA FindingFields ==
    ASSUME NEW S, S \subseteq Facts, NEW a \in Attributes,
           NEW x \in Findings(Inputs(S, a))
    PROVE  /\ x.type \in ConflictTypes
           /\ x.positions \subseteq Position
           /\ x = [type |-> x.type, positions |-> x.positions]
BY CandidateFields DEF Findings, ValueConflict, SourceDisagreement, ConflictTypes

-----------------------------------------------------------------------------
(* What a commit makes of the conflicts of an attribute it calculated.     *)
LEMMA PersistedFields ==
    ASSUME TypeOK, NEW a \in Attributes, NEW w \in Workers,
           NEW d \in Persisted(a, w)
    PROVE  /\ d \in ConflictRow
           /\ d.attribute = a
           /\ d.linked <=> Finding(d) \in Found(w, a)
           /\ \/ /\ Finding(d) \notin {Finding(c) : c \in OnAttribute(a)}
                 /\ Finding(d) \in Found(w, a)
              \/ \E c \in OnAttribute(a) :
                    /\ Finding(c) = Finding(d)
                    /\ d = IF Finding(c) \in Found(w, a) THEN SeenAgain(c, w)
                            ELSE [c EXCEPT !.linked = FALSE]
<1>1. work[w].seen \subseteq Facts /\ work[w].asOf \in Times
  BY DEF TypeOK
<1>2. CASE d \in {Detected(a, x, w) :
                     x \in Found(w, a) \ {Finding(c) : c \in OnAttribute(a)}}
  <2>1. PICK x \in Found(w, a) \ {Finding(c) : c \in OnAttribute(a)} :
            d = Detected(a, x, w)
    BY <1>2
  <2>2. x.type \in ConflictTypes /\ x.positions \subseteq Position
        /\ x = [type |-> x.type, positions |-> x.positions]
    BY <1>1, <2>1, FindingFields DEF Found
  <2>3. Finding(d) = x /\ d.linked /\ d.attribute = a
    BY <2>1, <2>2 DEF Detected, Finding
  <2>4. d \in ConflictRow
    BY <1>1, <2>1, <2>2 DEF Detected, ConflictRow, Decisions
  <2> QED BY <2>1, <2>3, <2>4
<1>3. CASE \E c \in OnAttribute(a) :
              d = IF Finding(c) \in Found(w, a) THEN SeenAgain(c, w)
                  ELSE [c EXCEPT !.linked = FALSE]
  <2>1. PICK c \in OnAttribute(a) :
              d = IF Finding(c) \in Found(w, a) THEN SeenAgain(c, w)
                  ELSE [c EXCEPT !.linked = FALSE]
    BY <1>3
  <2>2. c \in ConflictRow /\ c.attribute = a
    BY <2>1 DEF OnAttribute, TypeOK
  <2>3. SeenAgain(c, w) \in ConflictRow /\ [c EXCEPT !.linked = FALSE] \in ConflictRow
    BY <1>1, <2>2 DEF SeenAgain, ConflictRow
  <2>4. /\ SeenAgain(c, w).type = c.type /\ SeenAgain(c, w).positions = c.positions
        /\ SeenAgain(c, w).attribute = a /\ SeenAgain(c, w).linked
    BY <2>2 DEF SeenAgain, ConflictRow
  <2>5. d.type = c.type /\ d.positions = c.positions /\ d.attribute = a
    BY <2>1, <2>2, <2>4 DEF ConflictRow
  <2>6. Finding(d) = Finding(c)
    BY <2>5 DEF Finding
  <2>7. d.linked <=> Finding(c) \in Found(w, a)
    BY <2>1, <2>2, <2>4 DEF ConflictRow
  <2> QED BY <2>1, <2>3, <2>5, <2>6, <2>7
<1> QED BY <1>2, <1>3 DEF Persisted

LEMMA PersistedKeeps ==
    ASSUME TypeOK, NEW a \in Attributes, NEW w \in Workers,
           NEW c \in OnAttribute(a)
    PROVE  \E d \in Persisted(a, w) :
              /\ d.attribute = c.attribute /\ Finding(d) = Finding(c)
              /\ d.status = c.status /\ d.detected = c.detected
<1> DEFINE d == IF Finding(c) \in Found(w, a) THEN SeenAgain(c, w)
                ELSE [c EXCEPT !.linked = FALSE]
<1>1. d \in Persisted(a, w)
  BY DEF Persisted
<1>2. c \in ConflictRow
  BY DEF OnAttribute, TypeOK
<1>3. /\ d.attribute = c.attribute /\ d.type = c.type /\ d.positions = c.positions
      /\ d.status = c.status /\ d.detected = c.detected
  BY <1>2 DEF SeenAgain, ConflictRow
<1> HIDE DEF d
<1> QED BY <1>1, <1>3 DEF Finding

LEMMA PersistedFinds ==
    ASSUME TypeOK, NEW a \in Attributes, NEW w \in Workers, NEW x \in Found(w, a)
    PROVE  \E d \in Persisted(a, w) : Finding(d) = x
<1>1. CASE x \in {Finding(c) : c \in OnAttribute(a)}
  BY <1>1, PersistedKeeps
<1>2. CASE x \notin {Finding(c) : c \in OnAttribute(a)}
  <2>1. Detected(a, x, w) \in Persisted(a, w)
    BY <1>2 DEF Persisted
  <2>2. x = [type |-> x.type, positions |-> x.positions]
    BY FindingFields DEF Found, TypeOK
  <2> QED BY <2>1, <2>2 DEF Detected, Finding
<1> QED BY <1>1, <1>2

(* After a commit an attribute it calculated has what it persisted, and    *)
(* any other has what it had.                                              *)
OnAttributeNext(a) == {c \in conflicts' : c.attribute = a}

LEMMA CommittedConflicts ==
    ASSUME TypeOK, NEW w \in Workers, Commit(w), NEW a \in Attributes
    PROVE  OnAttributeNext(a) =
              IF a \in AttributesIn(work[w].seen) THEN Persisted(a, w) ELSE OnAttribute(a)
<1> DEFINE New(b) == IF b \in AttributesIn(work[w].seen) THEN Persisted(b, w)
                     ELSE OnAttribute(b)
<1>1. conflicts' = UNION {New(b) : b \in Attributes}
  BY DEF Commit
<1>2. \A b \in Attributes : \A c \in New(b) : c.attribute = b
  BY PersistedFields DEF OnAttribute
<1> HIDE DEF New
<1>3. OnAttributeNext(a) = New(a)
  BY <1>1, <1>2 DEF OnAttributeNext
<1> QED BY <1>3 DEF New

-----------------------------------------------------------------------------
LEMMA InitInv == Init => RealityInv
<1> SUFFICES ASSUME Init PROVE RealityInv
  OBVIOUS
<1>1. 0 \in Times
  BY RealityAssumption DEF Times
<1>2. TypeOK
  BY <1>1 DEF Init, TypeOK, Idle
<1>3. Finite
  BY FS_EmptySet DEF Init, Finite, Idle
<1>4. Grounded /\ WritersAnchored
  BY DEF Init, Grounded, WritersAnchored, Idle
<1>5. \A a \in Attributes :
          Kept(a) = {} /\ Inputs(Kept(a), a) = {} /\ states[a] = NoState /\ evidence[a] = {}
  BY DEF Init, Kept, Inputs
<1>6. EvidenceOf({}) = {}
  BY DEF EvidenceOf, Evidence
<1>7. Findings({}) = {}
  <2>1. Cardinality(Candidates({})) = 0
    BY FS_EmptySet DEF Candidates, Eligible, Current
  <2> QED BY <2>1 DEF Findings, ValueConflict, SourceDisagreement
<1>8. OneCalculation
  BY <1>5, <1>6 DEF OneCalculation, StateFrom, AttributesIn
<1>9. ConflictsMatchStates
  BY <1>5, <1>7 DEF ConflictsMatchStates, Linked, OnAttribute, Init
<1>10. OneConflictPerDisagreement
  BY DEF Init, OneConflictPerDisagreement
<1> QED BY <1>2, <1>3, <1>4, <1>8, <1>9, <1>10 DEF RealityInv

LEMMA TypeStep ==
    ASSUME TypeOK, Finite, [Next]_vars
    PROVE  TypeOK'
<1>1. CASE UNCHANGED vars
  BY <1>1 DEF vars, TypeOK
<1>2. CASE Tick
  BY <1>2, RealityAssumption DEF Tick, TypeOK, Times, believed, observed, StateRow, ConflictRow
<1>3. CASE DeleteEntity
  BY <1>3 DEF DeleteEntity, TypeOK
<1>4. ASSUME NEW x \in {Source[s] : s \in Streams}, CommitSync(x) PROVE TypeOK'
  BY <1>4 DEF CommitSync, TypeOK, believed
<1>5. ASSUME NEW f \in Facts, Ingest(f) PROVE TypeOK'
  BY <1>5 DEF Ingest, TypeOK, believed
<1>6. ASSUME NEW r \in Rows, MapRow(r) PROVE TypeOK'
  BY <1>6 DEF MapRow, TypeOK, believed
<1>7. ASSUME NEW s \in Streams, DeleteStream(s) PROVE TypeOK'
  BY <1>7 DEF DeleteStream, TypeOK
<1>8. ASSUME NEW w \in Workers, Recalculate(w) PROVE TypeOK'
  <2>1. CASE Begin(w)
    BY <2>1 DEF Begin, TypeOK, observed, believed
  <2>2. CASE Load(w)
    BY <2>2 DEF Load, TypeOK, observed, believed, Resolved, Reading
  <2>3. CASE Write(w)
    BY <2>3 DEF Write, TypeOK, observed, believed, Reading
  <2>4. CASE Block(w)
    BY <2>4 DEF Block, TypeOK, observed, believed, Reading
  <2>5. CASE Fail(w)
    <3>1. 0 \in Times
      BY RealityAssumption DEF Times
    <3> QED BY <2>5, <3>1 DEF Fail, TypeOK, observed, believed, Idle
  <2>6. CASE Commit(w)
    <3>1. \A a \in Attributes :
              Calculate(Inputs(work[w].seen, a), work[w].asOf) \in StateRow
      BY CalculatedRow DEF TypeOK, Finite
    <3>2. states' \in [Attributes -> StateRow \cup {NoState}]
      BY <2>6, <3>1 DEF Commit, TypeOK
    <3>3. \A a \in Attributes : NewEvidence(a, w) \subseteq EvidenceRow
      BY EvidenceFields DEF TypeOK, NewEvidence
    <3>4. evidence' \in [Attributes -> SUBSET EvidenceRow]
      BY <2>6, <3>3 DEF Commit, TypeOK
    <3>5. conflicts' \subseteq ConflictRow
      BY <2>6, PersistedFields DEF Commit, TypeOK, OnAttribute
    <3>6. Idle \in [phase : Reading \cup {"idle", "begun"}, asOf : Times,
                     seen : SUBSET Facts]
      BY RealityAssumption DEF Times, Idle
    <3>7. work' \in [Workers -> [phase : Reading \cup {"idle", "begun"}, asOf : Times,
                                 seen : SUBSET Facts]]
      BY <2>6, <3>6 DEF Commit, TypeOK
    <3> QED BY <2>6, <3>2, <3>4, <3>5, <3>7 DEF Commit, TypeOK, observed
  <2> QED BY <1>8, <2>1, <2>2, <2>3, <2>4, <2>5, <2>6 DEF Recalculate
<1>9. ASSUME NEW c \in conflicts, NEW status \in Decisions, Decide(c, status)
      PROVE  TypeOK'
  <2>1. [c EXCEPT !.status = status] \in ConflictRow
    BY DEF TypeOK, ConflictRow
  <2> QED BY <1>9, <2>1 DEF Decide, TypeOK, observed
<1> QED BY <1>1, <1>2, <1>3, <1>4, <1>5, <1>6, <1>7, <1>8, <1>9 DEF Next

LEMMA FiniteStep ==
    ASSUME TypeOK, Finite, [Next]_vars
    PROVE  Finite'
<1>1. CASE UNCHANGED vars
  BY <1>1 DEF vars, Finite
<1>2. CASE Tick
  BY <1>2 DEF Tick, observed, Finite
<1>3. CASE DeleteEntity
  BY <1>3 DEF DeleteEntity, Finite
<1>4. ASSUME NEW x \in {Source[s] : s \in Streams}, CommitSync(x) PROVE Finite'
  <2>1. IsFiniteSet(arriving \ Own(x)) /\ IsFiniteSet(arriving \cap Own(x))
    BY FS_Subset DEF Finite
  <2> QED BY <1>4, <2>1, FS_Union DEF CommitSync, Finite
<1>5. ASSUME NEW f \in Facts, Ingest(f) PROVE Finite'
  BY <1>5, FS_AddElement DEF Ingest, Finite
<1>6. ASSUME NEW r \in Rows, MapRow(r) PROVE Finite'
  BY <1>6 DEF MapRow, Finite
<1>7. ASSUME NEW s \in Streams, DeleteStream(s) PROVE Finite'
  <2>1. stored' \subseteq stored /\ arriving' \subseteq arriving
    BY <1>7 DEF DeleteStream
  <2> QED BY <1>7, <2>1, FS_Subset DEF DeleteStream, Finite
<1>8. ASSUME NEW w \in Workers, Recalculate(w) PROVE Finite'
  <2>1. stored' = stored /\ arriving' = arriving
    BY <1>8 DEF Recalculate, Begin, Load, Write, Block, Fail, Commit, observed
  <2>2. \A v \in Workers : work'[v].seen \in {work[v].seen, {}, Resolved}
    <3>1. CASE Begin(w)
      BY <3>1 DEF Begin, TypeOK
    <3>2. CASE Load(w)
      BY <3>2 DEF Load, TypeOK
    <3>3. CASE Write(w)
      BY <3>3 DEF Write, TypeOK
    <3>4. CASE Block(w)
      BY <3>4 DEF Block, TypeOK
    <3>5. CASE Fail(w)
      BY <3>5 DEF Fail, TypeOK, Idle
    <3>6. CASE Commit(w)
      BY <3>6 DEF Commit, TypeOK, Idle
    <3> QED BY <1>8, <3>1, <3>2, <3>3, <3>4, <3>5, <3>6 DEF Recalculate
  <2>3. IsFiniteSet(Resolved)
    BY FS_Subset DEF Finite, Resolved
  <2>4. \A v \in Workers : IsFiniteSet(work'[v].seen)
    BY <2>2, <2>3, FS_EmptySet DEF Finite
  <2> QED BY <2>1, <2>4 DEF Finite
<1>9. ASSUME NEW c \in conflicts, NEW status \in Decisions, Decide(c, status)
      PROVE  Finite'
  BY <1>9 DEF Decide, observed, Finite
<1> QED BY <1>1, <1>2, <1>3, <1>4, <1>5, <1>6, <1>7, <1>8, <1>9 DEF Next

(* A recalculation that has written was let to while what it refers to was *)
(* there, and a deletion waits for it.                                     *)
LEMMA AnchoredStep ==
    ASSUME TypeOK, WritersAnchored, [Next]_vars
    PROVE  WritersAnchored'
<1> SUFFICES ASSUME NEW v \in Workers, work'[v].phase = "written"
             PROVE  known' /\ work'[v].seen \subseteq stored'
  BY DEF WritersAnchored, Anchored
<1> DEFINE Stays == work[v].phase = "written" /\ work'[v].seen = work[v].seen
<1>1. Stays => known /\ work[v].seen \subseteq stored
  BY DEF WritersAnchored, Anchored
<1>2. CASE UNCHANGED vars
  BY <1>1, <1>2 DEF vars
<1>3. CASE Tick
  BY <1>1, <1>3 DEF Tick, observed
<1>4. CASE DeleteEntity
  BY <1>4 DEF DeleteEntity
<1>5. ASSUME NEW x \in {Source[s] : s \in Streams}, CommitSync(x)
      PROVE  known' /\ work'[v].seen \subseteq stored'
  BY <1>1, <1>5 DEF CommitSync
<1>6. ASSUME NEW f \in Facts, Ingest(f) PROVE known' /\ work'[v].seen \subseteq stored'
  BY <1>1, <1>6 DEF Ingest
<1>7. ASSUME NEW r \in Rows, MapRow(r) PROVE known' /\ work'[v].seen \subseteq stored'
  BY <1>1, <1>7 DEF MapRow
<1>8. ASSUME NEW s \in Streams, DeleteStream(s)
      PROVE  known' /\ work'[v].seen \subseteq stored'
  BY <1>1, <1>8 DEF DeleteStream
<1>9. ASSUME NEW w \in Workers, Recalculate(w)
      PROVE  known' /\ work'[v].seen \subseteq stored'
  <2>1. known' = known /\ stored' = stored
    BY <1>9 DEF Recalculate, Begin, Load, Write, Block, Fail, Commit, observed
  <2>2. CASE Begin(w)
    BY <1>1, <2>1, <2>2 DEF Begin, TypeOK
  <2>3. CASE Load(w)
    BY <1>1, <2>1, <2>3 DEF Load, TypeOK
  <2>4. CASE Write(w)
    BY <1>1, <2>1, <2>4 DEF Write, TypeOK, Anchored
  <2>5. CASE Block(w)
    BY <1>1, <2>1, <2>5 DEF Block, TypeOK
  <2>6. CASE Fail(w)
    BY <1>1, <2>1, <2>6 DEF Fail, TypeOK, Idle
  <2>7. CASE Commit(w)
    BY <1>1, <2>1, <2>7 DEF Commit, TypeOK, Idle
  <2> QED BY <1>9, <2>2, <2>3, <2>4, <2>5, <2>6, <2>7 DEF Recalculate
<1>10. ASSUME NEW c \in conflicts, NEW status \in Decisions, Decide(c, status)
       PROVE  known' /\ work'[v].seen \subseteq stored'
  BY <1>1, <1>10 DEF Decide, observed
<1> QED BY <1>2, <1>3, <1>4, <1>5, <1>6, <1>7, <1>8, <1>9, <1>10 DEF Next

LEMMA GroundedStep ==
    ASSUME TypeOK, WritersAnchored, Grounded, [Next]_vars
    PROVE  Grounded'
<1>1. ASSUME evidence' = evidence, stored \subseteq stored' PROVE Grounded'
  BY <1>1 DEF Grounded
<1>2. CASE UNCHANGED vars
  BY <1>1, <1>2 DEF vars
<1>3. CASE Tick
  BY <1>1, <1>3 DEF Tick, observed, believed
<1>4. CASE DeleteEntity
  BY <1>4 DEF DeleteEntity, Grounded
<1>5. ASSUME NEW x \in {Source[s] : s \in Streams}, CommitSync(x) PROVE Grounded'
  BY <1>1, <1>5 DEF CommitSync, believed
<1>6. ASSUME NEW f \in Facts, Ingest(f) PROVE Grounded'
  BY <1>1, <1>6 DEF Ingest, believed
<1>7. ASSUME NEW r \in Rows, MapRow(r) PROVE Grounded'
  BY <1>1, <1>7 DEF MapRow, believed
<1>8. ASSUME NEW s \in Streams, DeleteStream(s) PROVE Grounded'
  BY <1>8 DEF DeleteStream, Grounded
<1>9. ASSUME NEW w \in Workers, Recalculate(w) PROVE Grounded'
  <2>1. CASE Commit(w)
    <3>1. work[w].seen \subseteq stored /\ work[w].seen \subseteq Facts
      BY <2>1 DEF Commit, WritersAnchored, Anchored, TypeOK
    <3>2. ASSUME NEW a \in Attributes, NEW e \in NewEvidence(a, w)
          PROVE  e.id \in stored /\ a \in DOMAIN What[e.id].payload
      <4>1. e.id \in {x.id : x \in EvidenceOf(Inputs(work[w].seen, a))}
        BY DEF NewEvidence
      <4>2. e.id \in Stating(work[w].seen, a)
        BY <3>1, <4>1, EvidenceFields
      <4> QED BY <3>1, <4>2 DEF Stating
    <3>3. \A a \in Attributes : evidence'[a] \in {NewEvidence(a, w), evidence[a]}
      BY <2>1 DEF Commit
    <3>4. stored' = stored
      BY <2>1 DEF Commit, observed
    <3> QED BY <3>2, <3>3, <3>4 DEF Grounded
  <2>2. CASE Begin(w) \/ Load(w) \/ Write(w) \/ Block(w) \/ Fail(w)
    BY <1>1, <2>2 DEF Begin, Load, Write, Block, Fail, observed, believed
  <2> QED BY <1>9, <2>1, <2>2 DEF Recalculate
<1>10. ASSUME NEW c \in conflicts, NEW status \in Decisions, Decide(c, status)
       PROVE  Grounded'
  BY <1>1, <1>10 DEF Decide, observed
<1> QED BY <1>2, <1>3, <1>4, <1>5, <1>6, <1>7, <1>8, <1>9, <1>10 DEF Next

-----------------------------------------------------------------------------
(* What OneCalculation and ConflictsMatchStates say of one attribute.      *)
Calculated(a) ==
    Unharmed(a) /\ known =>
        /\ states[a] = StateFrom(Kept(a), a,
              IF states[a] = NoState THEN 0 ELSE states[a].calculatedAt)
        /\ evidence[a] = EvidenceOf(Inputs(Kept(a), a))

Matched(a) ==
    /\ Unharmed(a) => Linked(a) = Findings(Inputs(Kept(a), a))
    /\ known => (Linked(a) # {} <=>
                    states[a] # NoState /\ states[a].status = "contested")

LEMMA PerAttribute ==
    /\ OneCalculation <=> \A a \in Attributes : Calculated(a)
    /\ ConflictsMatchStates <=> \A a \in Attributes : Matched(a)
    /\ OneCalculation' <=> \A a \in Attributes : Calculated(a)'
    /\ ConflictsMatchStates' <=> \A a \in Attributes : Matched(a)'
BY DEF OneCalculation, Calculated, ConflictsMatchStates, Matched

(* A step that leaves a state, its evidence and its links as they are, and *)
(* the observations that there are, keeps both.                            *)
LEMMA Undisturbed ==
    ASSUME Grounded, NEW a \in Attributes, Calculated(a), Matched(a),
           states'[a] = states[a], Linked(a)' = Linked(a), known' => known,
           Unharmed(a)' => Unharmed(a) /\ evidence'[a] = evidence[a],
           \A f \in stored : ingested'[f] = ingested[f]
    PROVE  Calculated(a)' /\ Matched(a)'
<1>1. CASE ~Unharmed(a)'
  BY <1>1 DEF Calculated, Matched
<1>2. CASE Unharmed(a)'
  <2>1. Unharmed(a) /\ evidence'[a] = evidence[a]
    BY <1>2
  <2>2. Kept(a)' = Kept(a)
    BY <2>1 DEF Kept
  <2>3. \A f \in Kept(a) : ingested'[f] = ingested[f]
    BY DEF Kept, Grounded
  <2>4. Inputs(Kept(a), a)' = Inputs(Kept(a), a)
    BY <2>2, <2>3 DEF Inputs, Input
  <2>5. \A t : StateFrom(Kept(a), a, t)' = StateFrom(Kept(a), a, t)
    BY <2>2, <2>4 DEF StateFrom
  <2> QED BY <1>2, <2>1, <2>2, <2>4, <2>5 DEF Calculated, Matched
<1> QED BY <1>1, <1>2

LEMMA DeletedIsHarm ==
    ASSUME TypeOK, Grounded, NEW s \in Streams, DeleteStream(s), NEW a \in Attributes,
           Unharmed(a)'
    PROVE  Unharmed(a) /\ evidence'[a] = evidence[a]
<1>1. retired' = retired \cup {s} /\ evidence'[a] = {e \in evidence[a] : e.id \notin Of(s)}
  BY DEF DeleteStream
<1>2. Unharmed(a)
  BY <1>1 DEF Unharmed
<1>3. \A e \in evidence[a] : e.id \notin Of(s)
  BY <1>1 DEF Unharmed, Of, Grounded
<1> QED BY <1>1, <1>2, <1>3

LEMMA DecidedIsLinked ==
    ASSUME TypeOK, NEW c \in conflicts, NEW status \in Decisions, Decide(c, status),
           NEW a \in Attributes
    PROVE  Linked(a)' = Linked(a)
<1> DEFINE decided == [c EXCEPT !.status = status]
<1>1. c \in ConflictRow
  BY DEF TypeOK
<1>2. /\ decided.attribute = c.attribute /\ decided.linked = c.linked
      /\ decided.type = c.type /\ decided.positions = c.positions
  BY <1>1 DEF ConflictRow
<1>3. conflicts' = (conflicts \ {c}) \cup {decided}
  BY DEF Decide
<1> HIDE DEF decided
<1>4. \A d : Finding(d)' = Finding(d)
  BY DEF Finding
<1>5. Linked(a) = {Finding(d) : d \in {x \in conflicts : x.attribute = a /\ x.linked}}
  BY DEF Linked, OnAttribute
<1>6. Linked(a)' = {Finding(d) : d \in {x \in conflicts' : x.attribute = a /\ x.linked}}
  BY DEF Linked, OnAttribute, Finding
<1>7. Finding(decided) = Finding(c)
  BY <1>2 DEF Finding
<1> QED BY <1>2, <1>3, <1>5, <1>6, <1>7

(* A commit gives an attribute it calculated all of one calculation.       *)
LEMMA CommittedTogether ==
    ASSUME TypeOK, Finite, WritersAnchored, NEW w \in Workers, Commit(w),
           NEW a \in Attributes, a \in AttributesIn(work[w].seen)
    PROVE  Calculated(a)' /\ Matched(a)'
<1> DEFINE S == work[w].seen
           O == Inputs(S, a)
<1>1. S \subseteq Facts /\ IsFiniteSet(S) /\ work[w].asOf \in Times
  BY DEF TypeOK, Finite
<1>2. states'[a] = Calculate(O, work[w].asOf) /\ evidence'[a] = EvidenceOf(O)
  BY DEF Commit, NewEvidence
<1>3. states'[a] \in StateRow /\ states'[a] # NoState
  BY <1>1, <1>2, CalculatedRow, NoStateIsNoRow
<1>4. Kept(a)' = Stating(S, a)
  <2>1. Kept(a)' = {e.id : e \in EvidenceOf(O)}
    BY <1>2 DEF Kept
  <2> QED BY <1>1, <2>1, EvidenceFields
<1>5. Inputs(Kept(a), a)' = O
  BY <1>4 DEF Inputs, Input, Stating, Commit, observed
<1>6. a \in AttributesIn(Stating(S, a))
  BY DEF AttributesIn, Stating
<1>7. states'[a].calculatedAt = work[w].asOf /\ states'[a].status = Status(O)
  BY <1>2 DEF Calculate
<1>8. \A t : StateFrom(Kept(a), a, t)' = Calculate(O, t)
  BY <1>4, <1>5, <1>6 DEF StateFrom
<1>9. Calculated(a)'
  BY <1>2, <1>3, <1>5, <1>7, <1>8 DEF Calculated
<1>10. OnAttributeNext(a) = Persisted(a, w)
  BY CommittedConflicts
<1>11. Linked(a)' = {Finding(d) : d \in {x \in Persisted(a, w) : x.linked}}
  <2>1. Linked(a)' = {Finding(d) : d \in {x \in OnAttributeNext(a) : x.linked}}
    BY DEF Linked, OnAttribute, OnAttributeNext, Finding
  <2> QED BY <1>10, <2>1
<1>12. Linked(a)' = Findings(O)
  <2>1. Found(w, a) = Findings(O)
    BY DEF Found
  <2>2. \A x \in Linked(a)' : x \in Found(w, a)
    BY <1>11, PersistedFields
  <2>3. \A x \in Found(w, a) : x \in Linked(a)'
    BY <1>11, PersistedFields, PersistedFinds
  <2> QED BY <2>1, <2>2, <2>3
<1>13. IsFiniteSet(O)
  BY <1>1, FiniteInputs
<1>14. Matched(a)'
  BY <1>3, <1>5, <1>7, <1>12, <1>13, ContestedIsFound DEF Matched
<1> QED BY <1>9, <1>14

LEMMA TogetherStep ==
    ASSUME TypeOK, Finite, WritersAnchored, Grounded, OneCalculation,
           ConflictsMatchStates, [Next]_vars
    PROVE  OneCalculation' /\ ConflictsMatchStates'
<1> SUFFICES ASSUME NEW a \in Attributes PROVE Calculated(a)' /\ Matched(a)'
  BY PerAttribute
<1> DEFINE Kept2 == Calculated(a)' /\ Matched(a)'
<1>1. Calculated(a) /\ Matched(a)
  BY PerAttribute
<1>2. ASSUME states' = states, evidence' = evidence, conflicts' = conflicts,
             known' = known, retired' = retired,
             \A f \in stored : ingested'[f] = ingested[f]
      PROVE  Kept2
  <2>1. Unharmed(a)' = Unharmed(a)
    BY <1>2 DEF Unharmed
  <2>2. Linked(a)' = Linked(a)
    BY <1>2 DEF Linked, OnAttribute, Finding
  <2> QED BY <1>1, <1>2, <2>1, <2>2, Undisturbed
<1>3. CASE UNCHANGED vars
  BY <1>2, <1>3 DEF vars
<1>4. CASE Tick
  BY <1>2, <1>4 DEF Tick, observed, believed
<1>5. CASE DeleteEntity
  <2>1. known' = FALSE /\ Kept(a)' = {} /\ Inputs(Kept(a), a)' = {}
    BY <1>5 DEF DeleteEntity, Kept, Inputs
  <2>2. Linked(a)' = {}
    BY <1>5 DEF DeleteEntity, Linked, OnAttribute
  <2>3. Findings({}) = {}
    <3>1. Cardinality(Candidates({})) = 0
      BY FS_EmptySet DEF Candidates, Eligible, Current
    <3> QED BY <3>1 DEF Findings, ValueConflict, SourceDisagreement
  <2> QED BY <2>1, <2>2, <2>3 DEF Calculated, Matched
<1>6. ASSUME NEW x \in {Source[s] : s \in Streams}, CommitSync(x) PROVE Kept2
  BY <1>2, <1>6 DEF CommitSync, believed
<1>7. ASSUME NEW f \in Facts, Ingest(f) PROVE Kept2
  <2>1. \A g \in stored : ingested'[g] = ingested[g]
    BY <1>7 DEF Ingest, TypeOK
  <2> QED BY <1>2, <1>7, <2>1 DEF Ingest, believed
<1>8. ASSUME NEW r \in Rows, MapRow(r) PROVE Kept2
  BY <1>2, <1>8 DEF MapRow, believed
<1>9. ASSUME NEW s \in Streams, DeleteStream(s) PROVE Kept2
  <2>1. Unharmed(a)' => Unharmed(a) /\ evidence'[a] = evidence[a]
    BY <1>9, DeletedIsHarm
  <2>2. Linked(a)' = Linked(a)
    BY <1>9 DEF DeleteStream, Linked, OnAttribute, Finding
  <2> QED BY <1>1, <1>9, <2>1, <2>2, Undisturbed DEF DeleteStream
<1>10. ASSUME NEW w \in Workers, Recalculate(w) PROVE Kept2
  <2>1. CASE Commit(w)
    <3>1. CASE a \in AttributesIn(work[w].seen)
      BY <2>1, <3>1, CommittedTogether
    <3>2. CASE a \notin AttributesIn(work[w].seen)
      <4>1. states'[a] = states[a] /\ evidence'[a] = evidence[a]
        BY <2>1, <3>2 DEF Commit
      <4>2. known' = known /\ retired' = retired /\ ingested' = ingested
        BY <2>1 DEF Commit, observed
      <4>3. OnAttributeNext(a) = OnAttribute(a)
        BY <2>1, <3>2, CommittedConflicts
      <4>4. Linked(a)' = Linked(a)
        BY <4>3 DEF Linked, OnAttribute, OnAttributeNext, Finding
      <4>5. Unharmed(a)' = Unharmed(a)
        BY <4>2 DEF Unharmed
      <4> QED BY <1>1, <4>1, <4>2, <4>4, <4>5, Undisturbed
    <3> QED BY <3>1, <3>2
  <2>2. CASE Begin(w) \/ Load(w) \/ Write(w) \/ Block(w) \/ Fail(w)
    BY <1>2, <2>2 DEF Begin, Load, Write, Block, Fail, observed, believed
  <2> QED BY <1>10, <2>1, <2>2 DEF Recalculate
<1>11. ASSUME NEW c \in conflicts, NEW status \in Decisions, Decide(c, status)
       PROVE  Kept2
  <2>1. Linked(a)' = Linked(a)
    BY <1>11, DecidedIsLinked
  <2>2. Unharmed(a)' = Unharmed(a)
    BY <1>11 DEF Decide, observed, Unharmed
  <2> QED BY <1>1, <1>11, <2>1, <2>2, Undisturbed DEF Decide, observed
<1> QED BY <1>3, <1>4, <1>5, <1>6, <1>7, <1>8, <1>9, <1>10, <1>11 DEF Next

-----------------------------------------------------------------------------
LEMMA PersistedOnce ==
    ASSUME TypeOK, OneConflictPerDisagreement, NEW a \in Attributes, NEW w \in Workers,
           NEW c \in Persisted(a, w), NEW d \in Persisted(a, w), Finding(c) = Finding(d)
    PROVE  c = d
<1>1. CASE Finding(c) \in {Finding(x) : x \in OnAttribute(a)}
  <2>1. PICK x \in OnAttribute(a) :
            /\ Finding(x) = Finding(c)
            /\ c = IF Finding(x) \in Found(w, a) THEN SeenAgain(x, w)
                    ELSE [x EXCEPT !.linked = FALSE]
    BY <1>1, PersistedFields
  <2>2. PICK y \in OnAttribute(a) :
            /\ Finding(y) = Finding(d)
            /\ d = IF Finding(y) \in Found(w, a) THEN SeenAgain(y, w)
                    ELSE [y EXCEPT !.linked = FALSE]
    BY <1>1, PersistedFields
  <2>3. x = y
    BY <2>1, <2>2 DEF OneConflictPerDisagreement, OnAttribute
  <2> QED BY <2>1, <2>2, <2>3
<1>2. CASE Finding(c) \notin {Finding(x) : x \in OnAttribute(a)}
  <2>1. ASSUME NEW p \in Persisted(a, w),
               Finding(p) \notin {Finding(x) : x \in OnAttribute(a)}
        PROVE  p = Detected(a, Finding(p), w)
    <3>1. ASSUME NEW x \in OnAttribute(a)
          PROVE  Finding(SeenAgain(x, w)) = Finding(x)
                 /\ Finding([x EXCEPT !.linked = FALSE]) = Finding(x)
      <4>1. x \in ConflictRow
        BY DEF OnAttribute, TypeOK
      <4> QED BY <4>1 DEF SeenAgain, Finding, ConflictRow
    <3>2. PICK x \in Found(w, a) : p = Detected(a, x, w)
      BY <2>1, <3>1 DEF Persisted
    <3>3. x = [type |-> x.type, positions |-> x.positions]
      BY FindingFields DEF Found, TypeOK
    <3>4. Finding(p) = x
      BY <3>2, <3>3 DEF Detected, Finding
    <3> QED BY <3>2, <3>4
  <2> QED BY <1>2, <2>1
<1> QED BY <1>1, <1>2

LEMMA OnceStep ==
    ASSUME TypeOK, OneConflictPerDisagreement, [Next]_vars
    PROVE  OneConflictPerDisagreement'
<1>1. ASSUME conflicts' = conflicts PROVE OneConflictPerDisagreement'
  BY <1>1 DEF OneConflictPerDisagreement, Finding
<1>2. CASE DeleteEntity
  BY <1>2 DEF DeleteEntity, OneConflictPerDisagreement
<1>3. ASSUME NEW w \in Workers, Commit(w) PROVE OneConflictPerDisagreement'
  <2> SUFFICES ASSUME NEW c \in conflicts', NEW d \in conflicts',
                      c.attribute = d.attribute, Finding(c) = Finding(d)
               PROVE  c = d
    BY DEF OneConflictPerDisagreement, Finding
  <2>1. TypeOK /\ c.attribute \in Attributes
    <3>1. conflicts' = UNION {IF a \in AttributesIn(work[w].seen) THEN Persisted(a, w)
                              ELSE OnAttribute(a) : a \in Attributes}
      BY <1>3 DEF Commit
    <3>2. PICK a \in Attributes : c \in Persisted(a, w) \cup OnAttribute(a)
      BY <3>1
    <3> QED BY <3>2, PersistedFields DEF OnAttribute
  <2> DEFINE a == c.attribute
  <2>2. c \in OnAttributeNext(a) /\ d \in OnAttributeNext(a)
    BY DEF OnAttributeNext
  <2>3. CASE a \in AttributesIn(work[w].seen)
    BY <1>3, <2>1, <2>2, <2>3, CommittedConflicts, PersistedOnce
  <2>4. CASE a \notin AttributesIn(work[w].seen)
    <3>1. c \in OnAttribute(a) /\ d \in OnAttribute(a)
      BY <1>3, <2>1, <2>2, <2>4, CommittedConflicts
    <3> QED BY <3>1 DEF OnAttribute, OneConflictPerDisagreement
  <2> QED BY <2>3, <2>4
<1>4. ASSUME NEW c \in conflicts, NEW status \in Decisions, Decide(c, status)
      PROVE  OneConflictPerDisagreement'
  <2> DEFINE decided == [c EXCEPT !.status = status]
  <2>1. c \in ConflictRow
    BY DEF TypeOK
  <2>2. /\ decided.attribute = c.attribute
        /\ decided.type = c.type /\ decided.positions = c.positions
    BY <2>1 DEF ConflictRow
  <2>3. conflicts' = (conflicts \ {c}) \cup {decided}
    BY <1>4 DEF Decide
  <2> HIDE DEF decided
  <2>4. Finding(decided) = Finding(c)
    BY <2>2 DEF Finding
  <2>5. ASSUME NEW x \in conflicts', NEW y \in conflicts',
               x.attribute = y.attribute, Finding(x) = Finding(y)
        PROVE  x = y
    <3>1. ASSUME NEW z \in conflicts, z.attribute = c.attribute, Finding(z) = Finding(c)
          PROVE  z = c
      BY <3>1 DEF OneConflictPerDisagreement
    <3>2. CASE x \in conflicts /\ y \in conflicts
      BY <2>5, <3>2 DEF OneConflictPerDisagreement
    <3>3. CASE x = decided
      BY <2>2, <2>3, <2>4, <2>5, <3>1, <3>3
    <3>4. CASE y = decided
      BY <2>2, <2>3, <2>4, <2>5, <3>1, <3>4
    <3> QED BY <2>3, <3>2, <3>3, <3>4
  <2> QED BY <2>5 DEF OneConflictPerDisagreement, Finding
<1>5. CASE UNCHANGED vars
  BY <1>1, <1>5 DEF vars
<1>6. CASE Tick
  BY <1>1, <1>6 DEF Tick, believed
<1>7. ASSUME NEW x \in {Source[s] : s \in Streams}, CommitSync(x) PROVE conflicts' = conflicts
  BY <1>7 DEF CommitSync, believed
<1>8. ASSUME NEW f \in Facts, Ingest(f) PROVE conflicts' = conflicts
  BY <1>8 DEF Ingest, believed
<1>9. ASSUME NEW r \in Rows, MapRow(r) PROVE conflicts' = conflicts
  BY <1>9 DEF MapRow, believed
<1>10. ASSUME NEW s \in Streams, DeleteStream(s) PROVE conflicts' = conflicts
  BY <1>10 DEF DeleteStream
<1>11. ASSUME NEW w \in Workers, Begin(w) \/ Load(w) \/ Write(w) \/ Block(w) \/ Fail(w)
       PROVE  conflicts' = conflicts
  BY <1>11 DEF Begin, Load, Write, Block, Fail, believed
<1> QED
  BY <1>1, <1>2, <1>3, <1>4, <1>5, <1>6, <1>7, <1>8, <1>9, <1>10, <1>11
  DEF Next, Recalculate

-----------------------------------------------------------------------------
LEMMA RealityInvariant == Spec => []RealityInv
<1>1. RealityInv /\ [Next]_vars => RealityInv'
  BY TypeStep, FiniteStep, AnchoredStep, GroundedStep, TogetherStep, OnceStep
  DEF RealityInv
<1> QED BY <1>1, InitInv, PTL DEF Spec

(* The types of the state, the counts of evidence among them: what is      *)
(* counted is always finite, and an unknown attribute selects nothing.     *)
THEOREM RealityTyped == Spec => []TypeOK
<1>1. RealityInv => TypeOK
  BY DEF RealityInv
<1> QED BY <1>1, RealityInvariant, PTL

(* No mixture of two recalculations is ever seen: _persist_state replaces  *)
(* a state and its evidence together.                                      *)
THEOREM StatesAreOneCalculation == Spec => []OneCalculation
<1>1. RealityInv => OneCalculation
  BY DEF RealityInv
<1> QED BY <1>1, RealityInvariant, PTL

(* A state is contested exactly if a conflict linked to it says between    *)
(* which values, and the linked ones are those of its calculation.         *)
THEOREM ContestedHasConflict == Spec => []ConflictsMatchStates
<1>1. RealityInv => ConflictsMatchStates
  BY DEF RealityInv
<1> QED BY <1>1, RealityInvariant, PTL

(* _persist_conflicts never records a disagreement twice.                  *)
THEOREM DisagreementRecordedOnce == Spec => []OneConflictPerDisagreement
<1>1. RealityInv => OneConflictPerDisagreement
  BY DEF RealityInv
<1> QED BY <1>1, RealityInvariant, PTL

(* A recalculation changes no decision and drops no conflict.              *)
THEOREM DecisionsAreKept == Spec => DecisionsStand
<1> DEFINE Kept2 ==
      work' # work =>
          \A c \in conflicts : \E d \in conflicts' :
              /\ d.attribute = c.attribute /\ Finding(d) = Finding(c)
              /\ d.status = c.status /\ d.detected = c.detected
<1>1. RealityInv /\ [Next]_vars => [Kept2]_vars
  <2> SUFFICES ASSUME RealityInv, Next, work' # work, NEW c \in conflicts
               PROVE  \E d \in conflicts' :
                        /\ d.attribute = c.attribute /\ Finding(d) = Finding(c)
                        /\ d.status = c.status /\ d.detected = c.detected
    OBVIOUS
  <2>1. PICK w \in Workers : Recalculate(w)
    BY DEF Next, Tick, DeleteEntity, CommitSync, Ingest, MapRow, DeleteStream, Decide
  <2>2. CASE Begin(w) \/ Load(w) \/ Write(w) \/ Block(w) \/ Fail(w)
    <3>1. conflicts' = conflicts
      BY <2>2 DEF Begin, Load, Write, Block, Fail, believed
    <3> QED BY <3>1
  <2>3. CASE Commit(w)
    <3> DEFINE a == c.attribute
    <3>1. a \in Attributes /\ c \in OnAttribute(a)
      BY DEF RealityInv, TypeOK, ConflictRow, OnAttribute
    <3>2. OnAttributeNext(a) =
            IF a \in AttributesIn(work[w].seen) THEN Persisted(a, w) ELSE OnAttribute(a)
      BY <2>3, <3>1, CommittedConflicts DEF RealityInv
    <3>3. \E d \in OnAttributeNext(a) :
              /\ d.attribute = c.attribute /\ Finding(d) = Finding(c)
              /\ d.status = c.status /\ d.detected = c.detected
      BY <3>1, <3>2, PersistedKeeps DEF RealityInv
    <3> QED BY <3>3 DEF OnAttributeNext
  <2> QED BY <2>1, <2>2, <2>3 DEF Recalculate
<1> QED BY <1>1, RealityInvariant, PTL DEF Spec, DecisionsStand

-----------------------------------------------------------------------------
(* The answer for t depends on the facts known by t, and when each was     *)
(* ingested.                                                               *)
LEMMA SameKnowledge ==
    ASSUME NEW t, KnownAt(t)' = KnownAt(t),
           \A f \in KnownAt(t) : ingested'[f] = ingested[f]
    PROVE  AsOf(t)' = AsOf(t)
<1>1. \A a : Inputs(KnownAt(t), a)' = Inputs(KnownAt(t), a)
  BY DEF Inputs, Input
<1>2. \A a : StateFrom(KnownAt(t), a, t)' = StateFrom(KnownAt(t), a, t)
  BY <1>1 DEF StateFrom
<1> QED BY <1>2 DEF AsOf

(* reality_as_of repeats itself, but for mappings, deletions and a sync    *)
(* that had read by the moment asked for and commits after it was asked.   *)
THEOREM PastAnswersAreSettled == Spec => PastIsSettled
<1> DEFINE Settled ==
      observed' # observed =>
          \A t \in 0 .. now - 1 :
              AsOf(t)' # AsOf(t) =>
                  \/ mapped' # mapped
                  \/ retired' # retired
                  \/ \E f \in arriving : ingested[f] <= t
<1>1. RealityInv /\ [Next]_vars => [Settled]_vars
  <2> SUFFICES ASSUME RealityInv, Next, observed' # observed, NEW t \in 0 .. now - 1,
                      mapped' = mapped, retired' = retired,
                      \A f \in arriving : ~(ingested[f] <= t)
               PROVE  AsOf(t)' = AsOf(t)
    OBVIOUS
  <2>1. CASE \E f \in Facts : Ingest(f)
    <3>1. PICK f \in Facts : Ingest(f)
      BY <2>1
    <3>2. \A g \in stored : ingested'[g] = ingested[g]
      BY <3>1 DEF Ingest, RealityInv, TypeOK
    <3>3. Resolved' = Resolved /\ Resolved \subseteq stored
      BY <3>1 DEF Ingest, Resolved
    <3>4. KnownAt(t)' = KnownAt(t) /\ KnownAt(t) \subseteq stored
      BY <3>2, <3>3 DEF KnownAt
    <3> QED BY <3>2, <3>4, SameKnowledge
  <2>2. CASE \E x \in {Source[s] : s \in Streams} : CommitSync(x)
    <3>1. PICK x \in {Source[s] : s \in Streams} : CommitSync(x)
      BY <2>2
    <3>2. ingested' = ingested /\ stored' = stored \cup (arriving \cap Own(x))
      BY <3>1 DEF CommitSync
    <3>3. KnownAt(t)' = KnownAt(t)
      BY <3>2 DEF KnownAt, Resolved
    <3> QED BY <3>2, <3>3, SameKnowledge
  <2>3. ~(\E s \in Streams : DeleteStream(s))
    BY DEF DeleteStream
  <2>4. ~(\E r \in Rows : MapRow(r))
    BY DEF MapRow
  <2>5. ~DeleteEntity
    BY DEF DeleteEntity, observed
  <2>6. ~Tick
    BY DEF Tick
  <2>7. ~(\E w \in Workers : Recalculate(w))
    BY DEF Recalculate, Begin, Load, Write, Block, Fail, Commit
  <2>8. ~(\E c \in conflicts : \E status \in Decisions \ {c.status} : Decide(c, status))
    BY DEF Decide
  <2> QED BY <2>1, <2>2, <2>3, <2>4, <2>5, <2>6, <2>7, <2>8 DEF Next
<1> QED BY <1>1, RealityInvariant, PTL DEF Spec, PastIsSettled
=============================================================================
