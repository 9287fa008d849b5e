------------------------ MODULE RealityEngineProofs ------------------------
(***************************************************************************)
(* Theorems of RealityEngineCheck and of Readings, for any sources, values *)
(* and times and any number of observations.                               *)
(***************************************************************************)
EXTENDS Readings, FiniteSetTheorems, TLAPS

(* What is given is a finite set of observations told apart by their ids.  *)
Given(O) ==
    /\ O \subseteq Observations
    /\ IsFiniteSet(O)
    /\ \A o, p \in O : o.id = p.id => o = p

LEMMA ObservationFields ==
    ASSUME NEW o \in Observations
    PROVE  o.id \in Nat /\ o.event \in Nat /\ o.ingested \in Nat
BY EngineAssumption

(* The ranking of a source's statements is a strict total order.           *)
LEMMA NewerTransitive ==
    ASSUME NEW o \in Observations, NEW p \in Observations, NEW q \in Observations,
           Newer(o, p), Newer(p, q)
    PROVE  Newer(o, q)
BY ObservationFields DEF Newer

LEMMA NewerTotal ==
    ASSUME NEW o \in Observations, NEW p \in Observations, o.id # p.id
    PROVE  Newer(o, p) \/ Newer(p, o)
BY ObservationFields DEF Newer

LEMMA NewerIrreflexive ==
    ASSUME NEW o \in Observations
    PROVE  ~Newer(o, o)
BY ObservationFields DEF Newer

-----------------------------------------------------------------------------
(* What is given is well-formed at all times.                              *)
THEOREM GivenHolds == Spec => []Given(given)
<1>1. Init => Given(given)
  BY FS_EmptySet DEF Init, Given
<1>2. Given(given) /\ [Next]_given => Given(given)'
  <2> SUFFICES ASSUME Given(given), [Next]_given PROVE Given(given')
    BY DEF Given
  <2>1. CASE UNCHANGED given
    BY <2>1 DEF Given
  <2>2. ASSUME NEW o \in Observations, Arrive(o) PROVE Given(given')
    <3>1. given' = given \cup {o} /\ \A p \in given : p.id # o.id
      BY <2>2 DEF Arrive
    <3>2. IsFiniteSet(given')
      BY <3>1, FS_AddElement DEF Given
    <3> QED BY <3>1, <3>2 DEF Given
  <2> QED BY <2>1, <2>2 DEF Next
<1> QED BY <1>1, <1>2, PTL DEF Spec

(* A source has one current statement.                                     *)
LEMMA OneCurrent ==
    ASSUME NEW O, Given(O), NEW o \in Current(O), NEW p \in Current(O),
           o.source = p.source
    PROVE  o = p
<1>1. o \in O /\ p \in O /\ o \in Observations /\ p \in Observations
  BY DEF Current, Given
<1>2. ~Newer(o, p) /\ ~Newer(p, o)
  BY <1>1 DEF Current, Supersedes
<1>3. o.id = p.id
  BY <1>1, <1>2, NewerTotal
<1> QED BY <1>1, <1>3 DEF Given

LEMMA CandidatesAreDisjoint ==
    ASSUME NEW O, Given(O), NEW c \in Candidates(O), NEW d \in Candidates(O), c # d
    PROVE  c.sources \cap d.sources = {} /\ c.value # d.value
<1>1. PICK o \in Eligible(O) : c = [value |-> o.value, sources |-> Asserting(O, o.value)]
  BY DEF Candidates
<1>2. PICK p \in Eligible(O) : d = [value |-> p.value, sources |-> Asserting(O, p.value)]
  BY DEF Candidates
<1>3. o.value # p.value
  BY <1>1, <1>2
<1>4. ASSUME NEW s \in c.sources, s \in d.sources PROVE FALSE
  <2>1. PICK x \in Eligible(O) : x.value = o.value /\ x.source = s
    BY <1>1, <1>4 DEF Asserting
  <2>2. PICK y \in Eligible(O) : y.value = p.value /\ y.source = s
    BY <1>2, <1>4 DEF Asserting
  <2>3. x = y
    BY <2>1, <2>2, OneCurrent DEF Eligible
  <2> QED BY <2>1, <2>2, <2>3, <1>3
<1> QED BY <1>1, <1>2, <1>3, <1>4

(* A source backs one candidate at most, whatever is given.                *)
THEOREM OneVoicePerSourceHolds == Spec => []OneVoicePerSource
<1>1. Given(given) => OneVoicePerSource
  BY CandidatesAreDisjoint DEF OneVoicePerSource
<1> QED BY <1>1, GivenHolds, PTL

-----------------------------------------------------------------------------
(* A statement that its source has superseded leaves what is current alone. *)
LEMMA SupersededIsInert ==
    ASSUME NEW O, O \subseteq Observations, NEW o \in Observations,
           NEW p \in O, Supersedes(p, o)
    PROVE  Current(O \cup {o}) = Current(O)
<1>1. ASSUME NEW x \in Current(O \cup {o}) PROVE x \in Current(O)
  BY <1>1 DEF Current
<1>2. ASSUME NEW x \in Current(O) PROVE x \in Current(O \cup {o})
  <2>1. x \in O /\ ~Supersedes(p, x)
    BY <1>2 DEF Current
  <2>2. ~Supersedes(o, x)
    <3> SUFFICES ASSUME Supersedes(o, x) PROVE FALSE
      OBVIOUS
    <3>1. Newer(p, x)
      BY <2>1, NewerTransitive DEF Supersedes
    <3> QED BY <2>1, <3>1 DEF Supersedes
  <2> QED BY <1>2, <2>1, <2>2 DEF Current
<1> QED BY <1>1, <1>2

(* A late arrival changes neither the state nor the conflicts.             *)
THEOREM BackfillIsInertHolds == Spec => BackfillIsInert
<1> DEFINE Inert ==
      \A o \in given' \ given : Late(o) =>
          /\ Status(given') = Status(given)
          /\ Value(given') = Value(given)
          /\ Findings(given') = Findings(given)
<1>1. Given(given) /\ [Next]_given => [Inert]_given
  <2> SUFFICES ASSUME Given(given), NEW x \in Observations, Arrive(x),
                      NEW o \in given' \ given, Late(o)
               PROVE  /\ Status(given') = Status(given)
                      /\ Value(given') = Value(given)
                      /\ Findings(given') = Findings(given)
    BY DEF Next
  <2>1. given' = given \cup {o} /\ o \in Observations
    BY DEF Arrive
  <2>2. PICK p \in given : p.source = o.source /\ p.event > o.event
    BY DEF Late
  <2>3. Supersedes(p, o)
    BY <2>2 DEF Supersedes, Newer
  <2>4. Current(given') = Current(given)
    BY <2>1, <2>3, SupersededIsInert DEF Given
  <2>5. Eligible(given') = Eligible(given)
    BY <2>4 DEF Eligible
  <2>6. Candidates(given') = Candidates(given)
    BY <2>5 DEF Candidates, Asserting
  <2> QED BY <2>5, <2>6 DEF Status, Value, Selects, Findings, ValueConflict, SourceDisagreement
<1> QED BY <1>1, GivenHolds, PTL DEF Spec, BackfillIsInert

(* What a source says anew and validly is a candidate.                     *)
LEMMA CandidateOf ==
    ASSUME NEW O, NEW o \in Eligible(O)
    PROVE  \E c \in Candidates(O) : c.value = o.value /\ o.source \in c.sources
<1> DEFINE c == [value |-> o.value, sources |-> Asserting(O, o.value)]
<1>1. c \in Candidates(O)
  BY DEF Candidates
<1>2. o.source \in c.sources
  BY DEF Asserting
<1> QED BY <1>1, <1>2

THEOREM CorrectionCountsHolds == Spec => CorrectionCounts
<1> DEFINE Heard ==
      \A o \in given' \ given :
          o.valid /\ (\A p \in given : p.source = o.source => Corrects(o, p))
              => \E c \in Candidates(given') :
                    c.value = o.value /\ o.source \in c.sources
<1>1. Given(given) /\ [Next]_given => [Heard]_given
  <2> SUFFICES ASSUME Given(given), NEW x \in Observations, Arrive(x),
                      NEW o \in given' \ given, o.valid,
                      \A p \in given : p.source = o.source => Corrects(o, p)
               PROVE  \E c \in Candidates(given') :
                          c.value = o.value /\ o.source \in c.sources
    BY DEF Next
  <2>1. given' = given \cup {o} /\ o \in Observations
    BY DEF Arrive
  <2>2. ASSUME NEW p \in given' PROVE ~Supersedes(p, o)
    <3>1. CASE p = o
      BY <2>1, <3>1, NewerIrreflexive DEF Supersedes
    <3>2. CASE p \in given
      BY <2>1, <3>2, ObservationFields DEF Given, Supersedes, Newer, Corrects
    <3> QED BY <2>1, <3>1, <3>2
  <2>3. o \in Eligible(given')
    BY <2>1, <2>2 DEF Eligible, Current
  <2> QED BY <2>3, CandidateOf
<1> QED BY <1>1, GivenHolds, PTL DEF Spec, CorrectionCounts

(* A source whose latest statement is invalid backs no candidate.          *)
THEOREM InvalidSilencesHolds == Spec => []InvalidSilences
<1>1. Given(given) => InvalidSilences
  <2> SUFFICES ASSUME Given(given), NEW o \in given, ~o.valid,
                      \A p \in given : ~Supersedes(p, o),
                      NEW c \in Candidates(given), o.source \in c.sources
               PROVE  FALSE
    BY DEF InvalidSilences
  <2>1. PICK x \in Eligible(given) : x.source = o.source
    BY DEF Candidates, Asserting
  <2>2. x = o
    BY <2>1, OneCurrent DEF Eligible, Current
  <2> QED BY <2>1, <2>2 DEF Eligible
<1> QED BY <1>1, GivenHolds, PTL

-----------------------------------------------------------------------------
LEMMA FiniteCandidates ==
    ASSUME NEW O, IsFiniteSet(O)
    PROVE  IsFiniteSet(Candidates(O))
<1> DEFINE position == [o \in Eligible(O) |->
                          [value |-> o.value, sources |-> Asserting(O, o.value)]]
<1>1. IsFiniteSet(Eligible(O))
  BY FS_Subset DEF Eligible, Current
<1>2. position \in Surjection(Eligible(O), Candidates(O))
  BY DEF Candidates, Surjection
<1> QED BY <1>1, <1>2, FS_Surjection

(* A set without two different elements has fewer than two elements.       *)
LEMMA TwoElements ==
    ASSUME NEW S, ~(Cardinality(S) < 2)
    PROVE  \E c, d \in S : c # d
<1> SUFFICES ASSUME \A c, d \in S : c = d PROVE FALSE
  OBVIOUS
<1>1. CASE S = {}
  BY <1>1, FS_EmptySet
<1>2. CASE S # {}
  <2>1. PICK x \in S : S = {x}
    BY <1>2
  <2>2. Cardinality(S) = 1
    BY <2>1, FS_Singleton
  <2> QED BY <2>2
<1> QED BY <1>1, <1>2

LEMMA SelectedValue ==
    ASSUME NEW O, IsFiniteSet(O), Selects(O), NEW o \in Eligible(O)
    PROVE  o.value = Value(O)
<1>1. PICK x : Candidates(O) = {x}
  BY FiniteCandidates, FS_Singleton DEF Selects
<1>2. PICK c \in Candidates(O) : c.value = o.value
  BY CandidateOf
<1>3. (CHOOSE y \in Candidates(O) : TRUE) = x
  BY <1>1
<1> QED BY <1>1, <1>2, <1>3 DEF Value

LEMMA ContestedBySources ==
    ASSUME NEW O, Given(O), Status(O) = "contested"
    PROVE  \E o, p \in O : o.source # p.source /\ o.value # p.value
<1>1. PICK x \in Eligible(O) : TRUE
  BY DEF Status
<1>2. ~Selects(O)
  BY DEF Status
<1>3. PICK c \in Candidates(O) : c.value = x.value
  BY <1>1, CandidateOf
<1>4. PICK d \in Candidates(O) : c # d
  <2>1. Candidates(O) # {c}
    BY <1>2, FS_Singleton DEF Selects
  <2> QED BY <2>1, <1>3
<1>5. PICK o \in Eligible(O) : c = [value |-> o.value, sources |-> Asserting(O, o.value)]
  BY DEF Candidates
<1>6. PICK p \in Eligible(O) : d = [value |-> p.value, sources |-> Asserting(O, p.value)]
  BY DEF Candidates
<1>7. c.sources \cap d.sources = {} /\ c.value # d.value
  BY <1>4, CandidatesAreDisjoint
<1>8. o.source \in c.sources /\ p.source \in d.sources
  BY <1>5, <1>6 DEF Asserting
<1>9. o \in O /\ p \in O
  BY DEF Eligible, Current
<1> QED BY <1>5, <1>6, <1>7, <1>8, <1>9

(* Selection needs unanimity; contest needs two sources that disagree.     *)
THEOREM UnanimousOrContestedHolds == Spec => []UnanimousOrContested
<1>1. Given(given) => UnanimousOrContested
  <2> SUFFICES ASSUME Given(given) PROVE UnanimousOrContested
    OBVIOUS
  <2>1. ASSUME Selects(given), NEW o \in given, o.valid,
               \A p \in given : ~Supersedes(p, o)
        PROVE  o.value = Value(given)
    <3>1. o \in Eligible(given)
      BY <2>1 DEF Eligible, Current
    <3> QED BY <2>1, <3>1, SelectedValue DEF Given
  <2> QED BY <2>1, ContestedBySources DEF UnanimousOrContested
<1> QED BY <1>1, GivenHolds, PTL

(* The engine reports a source disagreement whenever it reports a value    *)
(* conflict: the two kinds of conflict never tell cases apart.             *)
THEOREM DisagreementIsConflict ==
    Spec => [](SourceDisagreement(given) # {} <=> ValueConflict(given) # {})
<1> DEFINE Same == SourceDisagreement(given) # {} <=> ValueConflict(given) # {}
<1>1. Given(given) => Same
  <2> SUFFICES ASSUME Given(given), ~(Cardinality(Candidates(given)) < 2)
               PROVE  Disjoint(Candidates(given))
    BY DEF SourceDisagreement, ValueConflict
  <2>1. PICK c \in Candidates(given), d \in Candidates(given) : c # d
    BY TwoElements
  <2> QED BY <2>1, CandidatesAreDisjoint DEF Disjoint
<1> QED BY <1>1, GivenHolds, PTL

-----------------------------------------------------------------------------
(* What was known at a moment is not changed by what is learned later: the *)
(* timeline as of then has the same events, and is cut at the same one     *)
(* (services/timeline.py, reconstruct).                                    *)
THEOREM KnownStandsHolds == Spec => KnownStands
<1> DEFINE Stands ==
      \A k \in Moments, limit \in 1 .. 3 :
          (\A o \in given' \ given : o.ingested > k) =>
              reconstruct(given', "event", Null, k, limit)
                  = reconstruct(given, "event", Null, k, limit)
<1>1. Given(given) /\ [Next]_given => [Stands]_given
  <2> SUFFICES ASSUME Given(given), NEW x \in Observations, Arrive(x),
                      NEW k \in Moments, NEW limit \in 1 .. 3,
                      \A o \in given' \ given : o.ingested > k
               PROVE  reconstruct(given', "event", Null, k, limit)
                          = reconstruct(given, "event", Null, k, limit)
    BY DEF Next
  <2>1. given' = given \cup {x}
    BY DEF Arrive
  <2>2. x.ingested \in Nat /\ k \in Nat /\ k # Null
    BY ObservationFields, ReadingsAssumption
  <2>3. x \in given \/ ~(x.ingested <= k)
    BY <2>1, <2>2
  <2>4. AsOf(given', Null, k) = AsOf(given, Null, k)
    BY <2>1, <2>2, <2>3 DEF AsOf
  <2> QED BY <2>4 DEF reconstruct
<1> QED BY <1>1, GivenHolds, PTL DEF Spec, KnownStands

-----------------------------------------------------------------------------
(* The facts that both drivers deliver in the same class. Only numbers are *)
(* written with a scale.                                                   *)
SharedTypes == {"integer", "numeric", "text", "timestamp", "timestamptz", "date"}
SharedFacts ==
    {f \in [type : SharedTypes, is : Int, scale : Int] :
        f.type # "numeric" => f.scale = 0}

Rendered == [json : {"string", "number"}, format : {"plain", "iso", "day"},
             is : Int, scale : Int]

(* A MySQL session does not tell its zone, so it has to be UTC.            *)
ToldZones ==
    {s \in {"postgresql", "mysql"} \X Int : s[1] = "mysql" => s[2] = 0}

(* The text of a fact is the same wherever it was read.                    *)
CanonicalText(f) ==
    CASE f.type = "integer" -> Plain("number", f.is, 0)
      [] f.type = "numeric" -> Plain("string", f.is, f.scale)
      [] f.type = "text"    -> Plain("string", f.is, 0)
      [] f.type = "date"    -> Text("day", f.is, 0)
      [] OTHER              -> Text("iso", f.is, 0)

LEMMA CanonicalOfShared ==
    ASSUME Null \notin Int, Null \notin SharedFacts,
           NEW s \in ToldZones, NEW f \in SharedFacts
    PROVE  Canonical(s[1], s[2], f) = CanonicalText(f)
<1>1. /\ f.type \in SharedTypes /\ f.is \in Int /\ f.scale \in Int
      /\ s[1] \in {"postgresql", "mysql"} /\ s[2] \in Int /\ s[2] # Null /\ f # Null
      /\ s[1] = "mysql" => s[2] = 0
  BY DEF SharedFacts, ToldZones
<1> DEFINE v == Driver(s[1], s[2], f)
<1>2. /\ v.class = Class(s[1], f.type) /\ v.scale = f.scale
      /\ v.is = (IF f.type = "timestamptz" THEN f.is + s[2] ELSE f.is)
      /\ v.offset = (IF Aware(s[1], f.type) THEN s[2] ELSE Null)
  BY DEF Driver
<1>3. Canonical(s[1], s[2], f) = Normalize(Coerce(s[1], v))
  BY <1>1 DEF Canonical
<1> HIDE DEF v
<1>4. v.class # "bytes"
  BY <1>1, <1>2 DEF SharedTypes, Class
<1>5. Coerce(s[1], v) = v
  BY <1>4 DEF Coerce
<1>6. CASE f.type = "integer"
  BY <1>2, <1>3, <1>5, <1>6 DEF Class, Normalize, CanonicalText
<1>7. CASE f.type = "numeric"
  BY <1>2, <1>3, <1>5, <1>7 DEF Class, Normalize, AsDecimal, CanonicalText
<1>8. CASE f.type = "text"
  BY <1>2, <1>3, <1>5, <1>8 DEF Class, Normalize, CanonicalText
<1>9. CASE f.type = "date"
  BY <1>2, <1>3, <1>5, <1>9 DEF Class, Normalize, CanonicalText
<1>10. CASE f.type \in {"timestamp", "timestamptz"}
  <2>1. v.class = "datetime"
    BY <1>2, <1>10 DEF Class
  <2>2. InUTC(v) = f.is
    BY <1>1, <1>2, <1>10 DEF InUTC, Aware
  <2>3. Normalize(v) = UTCTime(v)
    BY <2>1 DEF Normalize
  <2> QED BY <1>3, <1>5, <1>10, <2>2, <2>3 DEF UTCTime, CanonicalText
<1> QED BY <1>1, <1>6, <1>7, <1>8, <1>9, <1>10 DEF SharedTypes

(* Two facts of a type have the same text only if they are the same.       *)
LEMMA TextTells ==
    ASSUME NEW f \in SharedFacts, NEW g \in SharedFacts, f.type = g.type,
           CanonicalText(f) = CanonicalText(g)
    PROVE  f = g
<1>1. /\ f = [type |-> f.type, is |-> f.is, scale |-> f.scale]
      /\ g = [type |-> g.type, is |-> g.is, scale |-> g.scale]
      /\ f.type # "numeric" => f.scale = 0 /\ g.scale = 0
  BY DEF SharedFacts
<1>2. CanonicalText(f).is = f.is /\ CanonicalText(g).is = g.is
  BY DEF CanonicalText, Plain, Text
<1>3. f.type = "numeric" => CanonicalText(f).scale = f.scale /\ CanonicalText(g).scale = g.scale
  BY DEF CanonicalText, Plain, Text
<1> QED BY <1>1, <1>2, <1>3

LEMMA TextIsRendered ==
    ASSUME NEW f \in SharedFacts
    PROVE  CanonicalText(f) \in Rendered
<1>1. f.is \in Int /\ f.scale \in Int
  BY DEF SharedFacts
<1>2. \A j \in {"string", "number"}, n \in Int : Plain(j, f.is, n) \in Rendered
  BY <1>1 DEF Plain, Rendered
<1>3. \A form \in {"iso", "day"} : Text(form, f.is, 0) \in Rendered
  BY <1>1 DEF Text, Rendered
<1> QED BY <1>1, <1>2, <1>3 DEF CanonicalText

(* Two current valid statements are of one candidate if their values are   *)
(* the same, and only then.                                                *)
LEMMA OneCandidate ==
    ASSUME NEW O, Given(O), NEW o \in Eligible(O), NEW p \in Eligible(O)
    PROVE  (\E c \in Candidates(O) : {o.source, p.source} \subseteq c.sources)
               <=> o.value = p.value
<1>1. ASSUME o.value = p.value
      PROVE  \E c \in Candidates(O) : {o.source, p.source} \subseteq c.sources
  <2> DEFINE c == [value |-> o.value, sources |-> Asserting(O, o.value)]
  <2>1. c \in Candidates(O)
    BY DEF Candidates
  <2>2. o.source \in c.sources /\ p.source \in c.sources
    BY <1>1 DEF Asserting
  <2> QED BY <2>1, <2>2
<1>2. ASSUME NEW c \in Candidates(O), {o.source, p.source} \subseteq c.sources
      PROVE  o.value = p.value
  <2>1. c.sources = Asserting(O, c.value)
    BY DEF Candidates
  <2>2. PICK x \in Eligible(O) : x.value = c.value /\ x.source = o.source
    BY <1>2, <2>1 DEF Asserting
  <2>3. PICK y \in Eligible(O) : y.value = c.value /\ y.source = p.source
    BY <1>2, <2>1 DEF Asserting
  <2>4. x = o /\ y = p
    BY <2>2, <2>3, OneCurrent DEF Eligible
  <2> QED BY <2>2, <2>3, <2>4
<1> QED BY <1>1, <1>2

(* Where the drivers deliver the same class and MySQL's sessions are in    *)
(* UTC, the engine sees a disagreement of any number of PostgreSQL and     *)
(* MySQL sources, in whatever zones, exactly where they hold different     *)
(* things (ingestion/normalization.py, engine/selection.py).               *)
THEOREM DisagreementIsRealHolds ==
    ASSUME Servers \subseteq ToldZones, Cells \subseteq SharedFacts \cup {Null},
           Null \notin Int, Null \notin SharedFacts, Null \notin Rendered
    PROVE  Spec => []DisagreementIsReal
<1>1. ASSUME NEW o \in ReadObservations
      PROVE  /\ o.source \in ToldZones /\ o.states \in SharedFacts \cup {Null}
             /\ o.value = IF o.states = Null THEN Null ELSE CanonicalText(o.states)
  <2>1. PICK s \in Servers, t \in Moments, c \in Cells, id \in Ids, k \in Moments, v \in BOOLEAN :
           o \in Observe(s[1], s[2], Row(t, c), FALSE, id, k, v)
    <3>1. PICK s \in Servers, t \in Moments, c \in Cells, id \in Ids, k \in Moments :
             o \in ReadFrom(s, Row(t, c), id, k)
      BY SMT DEF ReadObservations
    <3>2. \E v \in BOOLEAN : o \in Observe(s[1], s[2], Row(t, c), FALSE, id, k, v)
      BY <3>1, Zenon DEF ReadFrom
    <3> QED BY <3>1, <3>2
  <2>2. /\ o.source = <<s[1], s[2]>> /\ o.states = Row(t, c).states
        /\ o.value = Canonical(s[1], s[2], Row(t, c).states)
    <3> DEFINE said(e) ==
          [id |-> id, source |-> <<s[1], s[2]>>, event |-> e, ingested |-> k, valid |-> v,
           value |-> Canonical(s[1], s[2], Row(t, c).states), states |-> Row(t, c).states]
    <3>1. PICK e : o = said(e)
      BY <2>1, Zenon DEF Observe
    <3> QED BY <3>1
  <2>3. Row(t, c).states = c
    BY DEF Row
  <2>4. s \in ToldZones /\ <<s[1], s[2]>> = s
    BY DEF ToldZones
  <2>5. CASE c = Null
    BY <2>2, <2>3, <2>4, <2>5 DEF Canonical
  <2>6. CASE c \in SharedFacts
    <3>1. Canonical(s[1], s[2], c) = CanonicalText(c)
      BY <2>4, <2>6, CanonicalOfShared
    <3> QED BY <2>2, <2>3, <2>4, <2>6, <3>1
  <2> QED BY <2>5, <2>6
<1>2. Given(given) => DisagreementIsReal
  <2> SUFFICES ASSUME Given(given), NEW o \in Current(given), NEW p \in Current(given),
                      o.valid, p.valid, Comparable(o.states, p.states)
               PROVE  (\E c \in Candidates(given) : {o.source, p.source} \subseteq c.sources)
                          <=> o.states = p.states
    BY DEF DisagreementIsReal
  <2>1. o \in Eligible(given) /\ p \in Eligible(given)
    BY DEF Eligible
  <2>2. o \in ReadObservations /\ p \in ReadObservations
    BY ReadingsAssumption DEF Current, Given
  <2> DEFINE Means(x) == IF x.states = Null THEN Null ELSE CanonicalText(x.states)
  <2>3. /\ o.states \in SharedFacts \cup {Null} /\ o.value = Means(o)
        /\ p.states \in SharedFacts \cup {Null} /\ p.value = Means(p)
    BY <1>1, <2>2
  <2>4. o.value = p.value <=> o.states = p.states
    <3>1. CASE o.states = Null \/ p.states = Null
      BY <2>3, <3>1, TextIsRendered
    <3>2. CASE o.states # Null /\ p.states # Null
      <4>1. o.states.type = p.states.type
        BY <3>2 DEF Comparable
      <4> QED BY <2>3, <3>2, <4>1, TextTells
    <3> QED BY <3>1, <3>2
  <2> QED BY <2>1, <2>4, OneCandidate
<1> QED BY <1>2, GivenHolds, PTL

-----------------------------------------------------------------------------
LEMMA WeightedOf ==
    ASSUME NEW O, NEW asOf
    PROVE  /\ \A c \in Candidates(O) : \E w \in WeightedCandidates(O, asOf) :
                 w.value = c.value /\ w.sources = c.sources
           /\ \A w \in WeightedCandidates(O, asOf) :
                 /\ \E c \in Candidates(O) : w.value = c.value /\ w.sources = c.sources
                 /\ w.latest = Latest(Backing(O, w.value))
<1> DEFINE Weigh(c) ==
      [value |-> c.value, sources |-> c.sources,
       weight |-> TotalWeight(Backing(O, c.value), asOf),
       share |-> Share(Backing(O, c.value), O, asOf),
       latest |-> Latest(Backing(O, c.value)),
       authority |-> Min({Authority[s] : s \in c.sources})]
<1>1. WeightedCandidates(O, asOf) = {Weigh(c) : c \in Candidates(O)}
  BY Zenon DEF WeightedCandidates
<1>2. \A c : /\ Weigh(c).value = c.value /\ Weigh(c).sources = c.sources
            /\ Weigh(c).latest = Latest(Backing(O, c.value))
  OBVIOUS
<1> HIDE DEF Weigh
<1> QED BY <1>1, <1>2

LEMMA WeightedIsImage ==
    ASSUME NEW O, NEW asOf
    PROVE  \E f : WeightedCandidates(O, asOf) = {f[c] : c \in Candidates(O)}
<1> DEFINE Weigh(c) ==
      [value |-> c.value, sources |-> c.sources,
       weight |-> TotalWeight(Backing(O, c.value), asOf),
       share |-> Share(Backing(O, c.value), O, asOf),
       latest |-> Latest(Backing(O, c.value)),
       authority |-> Min({Authority[s] : s \in c.sources})]
<1>1. WeightedCandidates(O, asOf) = {Weigh(c) : c \in Candidates(O)}
  BY Zenon DEF WeightedCandidates
<1> HIDE DEF Weigh
<1>2. WeightedCandidates(O, asOf)
        = {[x \in Candidates(O) |-> Weigh(x)][c] : c \in Candidates(O)}
  BY <1>1
<1> QED BY <1>2

LEMMA ImageIsFinite ==
    ASSUME NEW S, IsFiniteSet(S), NEW f
    PROVE  IsFiniteSet({f[x] : x \in S})
<1> DEFINE g == [x \in S |-> f[x]]
<1>1. g \in Surjection(S, {f[x] : x \in S})
  BY DEF Surjection
<1> QED BY <1>1, FS_Surjection

LEMMA RankedIsSequence ==
    ASSUME NEW O, NEW asOf, NEW n \in Nat, DOMAIN Ranked(O, asOf) = 1 .. n
    PROVE  Len(Ranked(O, asOf)) = n
<1> DEFINE W == WeightedCandidates(O, asOf)
           placed(i) ==
             CHOOSE c \in W : Cardinality({d \in W \ {c} : Outranks(d, c)}) = i - 1
<1>1. Ranked(O, asOf) = [i \in 1 .. Cardinality(W) |-> placed(i)]
  BY Zenon DEF Ranked
<1> HIDE DEF W, placed
<1>2. 1 .. Cardinality(W) = 1 .. n
  BY <1>1
<1>3. Ranked(O, asOf) = [i \in 1 .. n |-> placed(i)]
  BY <1>1, <1>2
<1> QED BY <1>3

(* What is the only candidate is ranked, alone.                            *)
LEMMA RankedAlone ==
    ASSUME NEW O, IsFiniteSet(O), NEW asOf, Selects(O)
    PROVE  /\ DOMAIN Ranked(O, asOf) = 1 .. 1
           /\ Ranked(O, asOf)[1].value = Value(O)
           /\ Ranked(O, asOf)[1].latest = Latest(Backing(O, Value(O)))
<1> DEFINE W == WeightedCandidates(O, asOf)
<1>1. PICK c : Candidates(O) = {c}
  BY FiniteCandidates, FS_Singleton DEF Selects
<1>2. c.value = Value(O)
  <2>1. Value(O) = (CHOOSE y \in Candidates(O) : TRUE).value
    BY DEF Value
  <2>2. (CHOOSE y \in Candidates(O) : TRUE) = c
    BY <1>1
  <2> QED BY <2>1, <2>2
<1>3. PICK w : W = {w}
  <2>1. PICK x \in W : TRUE
    BY <1>1, WeightedOf
  <2>2. PICK f : W = {f[y] : y \in Candidates(O)}
    BY WeightedIsImage
  <2> QED BY <1>1, <2>1, <2>2
<1>4. w.value = Value(O) /\ w.latest = Latest(Backing(O, w.value))
  BY <1>1, <1>2, <1>3, WeightedOf
<1>5. Cardinality(W) = 1
  BY <1>3, FS_Singleton
<1>6. Ranked(O, asOf)[1] = w
  <2>1. {d \in W \ {w} : Outranks(d, w)} = {}
    BY <1>3
  <2>2. \E x \in W : Cardinality({d \in W \ {x} : Outranks(d, x)}) = 1 - 1
    BY <1>3, <2>1, FS_EmptySet
  <2>3. Ranked(O, asOf)[1] \in W
    BY <1>5, <2>2 DEF Ranked
  <2> QED BY <1>3, <2>3
<1> QED BY <1>4, <1>5, <1>6 DEF Ranked

(* Competing candidates are ranked, each of them.                          *)
LEMMA RankedAll ==
    ASSUME NEW O, IsFiniteSet(O), NEW asOf, Eligible(O) # {}, ~Selects(O)
    PROVE  \E n \in Nat : n > 1 /\ DOMAIN Ranked(O, asOf) = 1 .. n
<1> DEFINE W == WeightedCandidates(O, asOf)
<1>1. PICK o \in Eligible(O) : TRUE
  OBVIOUS
<1>2. PICK c \in Candidates(O) : TRUE
  BY <1>1, CandidateOf
<1>3. PICK d \in Candidates(O) : d # c
  <2>1. Candidates(O) # {c}
    BY FS_Singleton DEF Selects
  <2> QED BY <1>2, <2>1
<1>4. c.value # d.value
  BY <1>3 DEF Candidates
<1>5. PICK v \in W, w \in W : v.value = c.value /\ w.value = d.value
  BY WeightedOf
<1>6. IsFiniteSet(W)
  <2>1. PICK f : W = {f[x] : x \in Candidates(O)}
    BY WeightedIsImage
  <2> HIDE DEF W
  <2> QED BY <2>1, FiniteCandidates, ImageIsFinite
<1>7. Cardinality(W) \in Nat
  BY <1>6, FS_CardinalityType
<1>8. Cardinality(W) # 0 /\ Cardinality(W) # 1
  <2>1. W # {}
    BY <1>5
  <2>2. ~\E x : W = {x}
    BY <1>4, <1>5
  <2> HIDE DEF W
  <2> QED BY <1>6, <2>1, <2>2, FS_EmptySet, FS_Singleton
<1> WITNESS Cardinality(W) \in Nat
<1> QED BY <1>7, <1>8 DEF Ranked

(* With scores or without, what was set aside is excluded, and only that.  *)
LEMMA ExcludedAlike ==
    ASSUME NEW O, NEW winner
    PROVE  InRole({[observation |-> o, role |-> ScoredRole(O, winner, o)] : o \in O}, "excluded")
               = InRole(Evidence(O), "excluded")
<1> DEFINE scored(o) == [observation |-> o, role |-> ScoredRole(O, winner, o)]
           unscored(o) == [observation |-> o, role |-> Role(O, o)]
<1>1. ASSUME NEW o \in O
      PROVE  /\ scored(o).role = "excluded" <=> o \notin Eligible(O)
             /\ unscored(o).role = "excluded" <=> o \notin Eligible(O)
             /\ o \notin Eligible(O) => scored(o) = unscored(o)
  BY DEF ScoredRole, Role
<1>2. Evidence(O) = {unscored(o) : o \in O}
  BY DEF Evidence
<1> HIDE DEF scored, unscored
<1>3. InRole({scored(o) : o \in O}, "excluded") = InRole({unscored(o) : o \in O}, "excluded")
  BY <1>1 DEF InRole
<1> QED BY <1>2, <1>3 DEF scored

(* Weighing settles which of competing values wins, and nothing else: what *)
(* a calculation without scores believes, one with scores believes, of the *)
(* same moment, for the same reasons, and what the one cannot settle the   *)
(* other calls contested (engine/engine.py, calculate and _unscored).      *)
THEOREM ScoringOnlySettlesHolds == Spec => []ScoringOnlySettles
<1>1. Given(given) => ScoringOnlySettles
  <2> SUFFICES ASSUME Given(given), NEW asOf \in Asked, NEW known \in Specified,
                      Scores(given, asOf, known)
               PROVE  LET scored == Score(given, asOf, known)
                          unscored == Calculate(given, asOf)
                      IN  /\ scored.status = unscored.status
                          /\ InRole(scored.evidence, "excluded")
                                = InRole(Evidence(given), "excluded")
                          /\ unscored.selected =>
                                /\ scored.value = unscored.value
                                /\ scored.validFrom = unscored.validFrom
                                /\ scored.evidence = Evidence(given)
    BY DEF ScoringOnlySettles
  <2> DEFINE ranked == Ranked(given, asOf)
             winner == ranked[1]
             said(o) == [observation |-> o, role |-> ScoredRole(given, winner, o)]
  <2>1. /\ Score(given, asOf, known).status = ScoredStatus(given, ranked, known)
        /\ Score(given, asOf, known).value = winner.value
        /\ Score(given, asOf, known).validFrom = winner.latest
        /\ Score(given, asOf, known).evidence = {said(o) : o \in given}
    BY DEF Score
  <2>2. /\ Calculate(given, asOf).status = Status(given)
        /\ Calculate(given, asOf).value = Value(given)
        /\ Calculate(given, asOf).selected = Selects(given)
        /\ Calculate(given, asOf).validFrom = ValidFrom(given, asOf)
    BY DEF Calculate
  <2>3. Eligible(given) # {} /\ IsFiniteSet(given)
    BY DEF Scores, Given
  <2>4. InRole({said(o) : o \in given}, "excluded") = InRole(Evidence(given), "excluded")
    BY ExcludedAlike
  <2>5. CASE Selects(given)
    <3>1. DOMAIN ranked = 1 .. 1 /\ winner.value = Value(given)
            /\ winner.latest = Latest(Backing(given, Value(given)))
      BY <2>3, <2>5, RankedAlone
    <3>2. Len(ranked) = 1
      BY <3>1, RankedIsSequence
    <3>3. Findings(given) = {}
      BY <2>5 DEF Selects, Findings, ValueConflict, SourceDisagreement
    <3>4. FindingTypes(given, ranked, known) = {}
      BY <3>2, <3>3 DEF FindingTypes, ContestedState
    <3>5. ScoredStatus(given, ranked, known) = Status(given)
      BY <2>3, <2>5, <3>2, <3>4 DEF ScoredStatus, Status
    <3>6. Backing(given, Value(given)) = Eligible(given)
      BY <2>3, <2>5, SelectedValue DEF Backing
    <3>7. winner.latest = ValidFrom(given, asOf)
      BY <2>3, <2>5, <3>1, <3>6 DEF ValidFrom
    <3>8. \A o \in given : ScoredRole(given, winner, o) = Role(given, o)
      BY <2>5, <3>1 DEF ScoredRole, Role
    <3>9. {said(o) : o \in given} = Evidence(given)
      BY <3>8 DEF Evidence
    <3> HIDE DEF ranked, winner, said
    <3> QED BY <2>1, <2>2, <2>4, <3>1, <3>5, <3>7, <3>9
  <2>6. CASE ~Selects(given)
    <3>1. PICK n \in Nat : n > 1 /\ DOMAIN ranked = 1 .. n
      BY <2>3, <2>6, RankedAll
    <3>2. Len(ranked) # 1
      BY <3>1, RankedIsSequence
    <3>3. ScoredStatus(given, ranked, known) = Status(given)
      BY <2>3, <2>6, <3>2 DEF ScoredStatus, Status
    <3> HIDE DEF ranked, winner, said
    <3> QED BY <2>1, <2>2, <2>4, <2>6, <3>3
  <2> QED BY <2>5, <2>6
<1> QED BY <1>1, GivenHolds, PTL

-----------------------------------------------------------------------------
(* A set of finite sets, if not empty, has one that contains no other.     *)
LEMMA SmallestOf ==
    ASSUME NEW S, NEW Bad, Bad \subseteq FiniteSubsetsOf(S), Bad # {}
    PROVE  \E T \in Bad : \A V \in SUBSET T : V # T => V \notin Bad
<1>1. IsWellFoundedOn(StrictSubsetOrdering(S), FiniteSubsetsOf(S))
  BY FS_StrictSubsetOrderingWellFounded
<1>2. PICK T \in Bad : \A V \in Bad : <<V, T>> \notin StrictSubsetOrdering(S)
  BY <1>1, WFMin
<1>3. T \subseteq S
  BY <1>2 DEF FiniteSubsetsOf
<1>4. ASSUME NEW V \in SUBSET T, V # T, V \in Bad PROVE FALSE
  BY <1>2, <1>3, <1>4 DEF StrictSubsetOrdering
<1> QED BY <1>4

(* Weights are summed by a function on sets that takes away one element    *)
(* after the other; there is one such function, and the order makes no     *)
(* difference.                                                             *)
Taken(s) == CHOOSE x \in s : TRUE

IsSum(f, U, asOf) ==
    f = [s \in SUBSET U |->
            IF s = {} THEN 0
            ELSE observation_weight(Taken(s), asOf) + f[s \ {Taken(s)}]]

Sum(U, asOf) == CHOOSE f : IsSum(f, U, asOf)

LEMMA TotalIsSum ==
    ASSUME NEW S, NEW asOf
    PROVE  TotalWeight(S, asOf) = Sum(S, asOf)[S]
BY DEF TotalWeight, MapThenSumSet, MapThenFoldSet, IsSum, Sum, Taken

LEMMA TakenIn ==
    ASSUME NEW s, s # {}
    PROVE  Taken(s) \in s
BY DEF Taken

LEMMA SumIsUnique ==
    ASSUME NEW U, NEW V, NEW asOf, NEW f, NEW g, IsSum(f, U, asOf), IsSum(g, V, asOf),
           NEW s, s \subseteq U, s \subseteq V, IsFiniteSet(s)
    PROVE  f[s] = g[s]
<1> DEFINE Bad == {r \in FiniteSubsetsOf(s) : f[r] # g[r]}
<1>1. \A r \in SUBSET s :
         /\ f[r] = IF r = {} THEN 0
                   ELSE observation_weight(Taken(r), asOf) + f[r \ {Taken(r)}]
         /\ g[r] = IF r = {} THEN 0
                   ELSE observation_weight(Taken(r), asOf) + g[r \ {Taken(r)}]
  BY DEF IsSum
<1>2. CASE Bad = {}
  BY <1>2 DEF FiniteSubsetsOf
<1>3. CASE Bad # {}
  <2>1. PICK r \in Bad : \A v \in SUBSET r : v # r => v \notin Bad
    <3>1. Bad \subseteq FiniteSubsetsOf(s)
      OBVIOUS
    <3> HIDE DEF Bad
    <3> QED BY <1>3, <3>1, SmallestOf
  <2>2. r \subseteq s /\ IsFiniteSet(r) /\ f[r] # g[r]
    BY <2>1 DEF FiniteSubsetsOf
  <2>3. r # {}
    BY <1>1, <2>2
  <2> DEFINE q == r \ {Taken(r)}
  <2>4. q \in SUBSET r /\ q # r /\ IsFiniteSet(q)
    BY <2>2, <2>3, TakenIn, FS_RemoveElement
  <2>5. f[q] = g[q]
    BY <2>1, <2>2, <2>4 DEF FiniteSubsetsOf
  <2> QED BY <1>1, <2>2, <2>3, <2>5
<1> QED BY <1>2, <1>3

LEMMA SumExists ==
    ASSUME NEW S, IsFiniteSet(S), NEW asOf
    PROVE  IsSum(Sum(S, asOf), S, asOf)
<1> DEFINE Bad == {T \in FiniteSubsetsOf(S) : ~\E f : IsSum(f, T, asOf)}
<1>1. CASE Bad = {}
  BY <1>1 DEF FiniteSubsetsOf, Sum
<1>2. CASE Bad # {}
  <2>1. PICK T \in Bad : \A V \in SUBSET T : V # T => V \notin Bad
    <3>1. Bad \subseteq FiniteSubsetsOf(S)
      OBVIOUS
    <3> HIDE DEF Bad
    <3> QED BY <1>2, <3>1, SmallestOf
  <2>2. T \subseteq S /\ IsFiniteSet(T) /\ ~\E f : IsSum(f, T, asOf)
    BY <2>1 DEF FiniteSubsetsOf
  <2>3. ASSUME NEW V \in SUBSET T, V # T PROVE IsSum(Sum(V, asOf), V, asOf)
    <3>1. V \subseteq S /\ IsFiniteSet(V)
      BY <2>2, FS_Subset
    <3>2. \E f : IsSum(f, V, asOf)
      BY <2>1, <2>3, <3>1 DEF FiniteSubsetsOf
    <3> QED BY <3>2 DEF Sum
  <2> DEFINE rest(s) == s \ {Taken(s)}
             h == [s \in SUBSET T |->
                     IF s = {} THEN 0
                     ELSE observation_weight(Taken(s), asOf) + Sum(rest(s), asOf)[rest(s)]]
  <2>4. ASSUME NEW s \in SUBSET T, s # {}
        PROVE  h[rest(s)] = Sum(rest(s), asOf)[rest(s)]
    <3> DEFINE r == rest(s)
    <3>1. r \in SUBSET T /\ r # T /\ IsFiniteSet(r)
      BY <2>2, <2>4, TakenIn, FS_Subset
    <3>2. IsSum(Sum(r, asOf), r, asOf)
      BY <2>3, <3>1
    <3>3. Sum(r, asOf)[r] = IF r = {} THEN 0
            ELSE observation_weight(Taken(r), asOf) + Sum(r, asOf)[rest(r)]
      <4> HIDE DEF r
      <4> QED BY <3>2 DEF IsSum
    <3>4. CASE r = {}
      BY <3>1, <3>3, <3>4
    <3>5. CASE r # {}
      <4>1. rest(r) \in SUBSET T /\ rest(r) # T /\ IsFiniteSet(rest(r)) /\ rest(r) \subseteq r
        BY <2>2, <3>1, TakenIn, FS_Subset
      <4>2. IsSum(Sum(rest(r), asOf), rest(r), asOf)
        BY <2>3, <4>1
      <4>3. Sum(r, asOf)[rest(r)] = Sum(rest(r), asOf)[rest(r)]
        <5> HIDE DEF rest, r
        <5> QED BY <3>2, <4>1, <4>2, SumIsUnique
      <4>4. h[r] = observation_weight(Taken(r), asOf) + Sum(rest(r), asOf)[rest(r)]
        <5> HIDE DEF rest, r
        <5> QED BY <3>1, <3>5
      <4> HIDE DEF h, rest, r
      <4> QED BY <3>3, <3>5, <4>3, <4>4 DEF r
    <3> QED BY <3>4, <3>5
  <2>5. IsSum(h, T, asOf)
    <3>1. h = [s \in SUBSET T |->
                 IF s = {} THEN 0
                 ELSE observation_weight(Taken(s), asOf) + h[rest(s)]]
      <4>1. \A s \in SUBSET T : s # {} => h[rest(s)] = Sum(rest(s), asOf)[rest(s)]
        BY <2>4
      <4> DEFINE k == [s \in SUBSET T |->
                 IF s = {} THEN 0
                 ELSE observation_weight(Taken(s), asOf) + h[rest(s)]]
      <4>2. \A s \in SUBSET T : h[s] = k[s]
        BY <4>1
      <4>3. h = [s \in SUBSET T |-> h[s]] /\ k = [s \in SUBSET T |-> k[s]]
        OBVIOUS
      <4> HIDE DEF h, k
      <4>4. h = k
        BY <4>2, <4>3
      <4> QED BY <4>4 DEF k
    <3> HIDE DEF h
    <3> QED BY <3>1 DEF IsSum
  <2> QED BY <2>2, <2>5
<1> QED BY <1>1, <1>2

LEMMA TotalStep ==
    ASSUME NEW S, IsFiniteSet(S), NEW asOf
    PROVE  /\ TotalWeight({}, asOf) = 0
           /\ S # {} => TotalWeight(S, asOf) =
                 observation_weight(Taken(S), asOf) + TotalWeight(S \ {Taken(S)}, asOf)
<1>1. TotalWeight({}, asOf) = 0
  <2>1. IsSum(Sum({}, asOf), {}, asOf)
    BY SumExists, FS_EmptySet
  <2>2. Sum({}, asOf)[{}] = 0
    BY <2>1 DEF IsSum
  <2> QED BY <2>2, TotalIsSum
<1>2. ASSUME S # {}
      PROVE  TotalWeight(S, asOf) =
                observation_weight(Taken(S), asOf) + TotalWeight(S \ {Taken(S)}, asOf)
  <2> DEFINE R == S \ {Taken(S)}
  <2>1. IsFiniteSet(R) /\ R \subseteq S
    BY FS_Subset
  <2>2. IsSum(Sum(S, asOf), S, asOf) /\ IsSum(Sum(R, asOf), R, asOf)
    BY <2>1, SumExists
  <2>3. Sum(S, asOf)[S] = observation_weight(Taken(S), asOf) + Sum(S, asOf)[R]
    BY <1>2, <2>2 DEF IsSum
  <2>4. Sum(S, asOf)[R] = Sum(R, asOf)[R]
    <3> HIDE DEF R
    <3> QED BY <2>1, <2>2, SumIsUnique
  <2> QED BY <2>3, <2>4, TotalIsSum
<1> QED BY <1>1, <1>2

(* What is summed has weights that are numbers.                            *)
Weighed(S, asOf) ==
    IsFiniteSet(S) /\ \A o \in S : observation_weight(o, asOf) \in Nat

LEMMA TotalIsNumber ==
    ASSUME NEW S, NEW asOf, Weighed(S, asOf)
    PROVE  TotalWeight(S, asOf) \in Nat
<1> DEFINE Bad == {T \in FiniteSubsetsOf(S) : TotalWeight(T, asOf) \notin Nat}
<1>1. CASE Bad = {}
  BY <1>1 DEF FiniteSubsetsOf, Weighed
<1>2. CASE Bad # {}
  <2>1. PICK T \in Bad : \A V \in SUBSET T : V # T => V \notin Bad
    <3>1. Bad \subseteq FiniteSubsetsOf(S)
      OBVIOUS
    <3> HIDE DEF Bad
    <3> QED BY <1>2, <3>1, SmallestOf
  <2>2. T \subseteq S /\ IsFiniteSet(T) /\ TotalWeight(T, asOf) \notin Nat
    BY <2>1 DEF FiniteSubsetsOf
  <2>3. T # {}
    <3>1. TotalWeight({}, asOf) = 0
      BY <2>2, TotalStep
    <3>2. TotalWeight({}, asOf) \in Nat
      BY <3>1
    <3> QED BY <2>2, <3>2
  <2> DEFINE R == T \ {Taken(T)}
  <2>4. R \in SUBSET T /\ R # T /\ IsFiniteSet(R)
    BY <2>2, <2>3, TakenIn, FS_Subset
  <2>5. TotalWeight(R, asOf) \in Nat
    BY <2>1, <2>2, <2>4 DEF FiniteSubsetsOf
  <2>6. observation_weight(Taken(T), asOf) \in Nat
    BY <2>2, <2>3, TakenIn DEF Weighed
  <2> QED BY <2>2, <2>3, <2>5, <2>6, TotalStep
<1> QED BY <1>1, <1>2

LEMMA TotalWithout ==
    ASSUME NEW S, NEW asOf, Weighed(S, asOf), NEW x \in S
    PROVE  TotalWeight(S, asOf) = observation_weight(x, asOf) + TotalWeight(S \ {x}, asOf)
<1> DEFINE w(o) == observation_weight(o, asOf)
           total(T) == TotalWeight(T, asOf)
           Bad == {T \in FiniteSubsetsOf(S) :
                     \E y \in T : total(T) # w(y) + total(T \ {y})}
<1>1. CASE Bad = {}
  BY <1>1 DEF FiniteSubsetsOf, Weighed
<1>2. CASE Bad # {}
  <2>1. PICK T \in Bad : \A V \in SUBSET T : V # T => V \notin Bad
    <3>1. Bad \subseteq FiniteSubsetsOf(S)
      OBVIOUS
    <3> HIDE DEF Bad
    <3> QED BY <1>2, <3>1, SmallestOf
  <2>2. T \subseteq S /\ IsFiniteSet(T)
    BY <2>1 DEF FiniteSubsetsOf
  <2>3. PICK y \in T : total(T) # w(y) + total(T \ {y})
    BY <2>1
  <2> DEFINE z == Taken(T)
             R == T \ {y, z}
  <2>4. z \in T /\ total(T) = w(z) + total(T \ {z})
    BY <2>2, <2>3, TakenIn, TotalStep
  <2>5. y # z
    BY <2>3, <2>4
  <2>6. /\ T \ {y} \in SUBSET T /\ T \ {y} # T /\ T \ {z} \in SUBSET T /\ T \ {z} # T
        /\ IsFiniteSet(T \ {y}) /\ IsFiniteSet(T \ {z}) /\ IsFiniteSet(R)
    BY <2>2, <2>4, FS_Subset
  <2>7. /\ T \ {y} \in FiniteSubsetsOf(S) /\ T \ {z} \in FiniteSubsetsOf(S)
        /\ T \ {y} \notin Bad /\ T \ {z} \notin Bad
    BY <2>1, <2>2, <2>6 DEF FiniteSubsetsOf
  <2>8. /\ z \in T \ {y} /\ y \in T \ {z}
        /\ (T \ {y}) \ {z} = R /\ (T \ {z}) \ {y} = R
    BY <2>4, <2>5
  <2>9. total(T \ {y}) = w(z) + total(R) /\ total(T \ {z}) = w(y) + total(R)
    BY <2>7, <2>8
  <2>10. w(y) \in Nat /\ w(z) \in Nat /\ total(R) \in Nat
    <3>1. Weighed(R, asOf)
      BY <2>2, <2>6 DEF Weighed
    <3> QED BY <2>2, <2>3, <2>4, <3>1, TotalIsNumber DEF Weighed
  <2> HIDE DEF w, total, R, z, Bad
  <2> QED BY <2>3, <2>4, <2>9, <2>10
<1> QED BY <1>1, <1>2

(* More observations of a value weigh no less.                             *)
LEMMA TotalGrows ==
    ASSUME NEW S, NEW asOf, Weighed(S, asOf), NEW T, T \subseteq S
    PROVE  TotalWeight(T, asOf) <= TotalWeight(S, asOf)
<1> DEFINE Bad == {U \in FiniteSubsetsOf(S) :
                     T \subseteq U /\ ~(TotalWeight(T, asOf) <= TotalWeight(U, asOf))}
<1>1. CASE Bad = {}
  BY <1>1 DEF FiniteSubsetsOf, Weighed
<1>2. CASE Bad # {}
  <2>1. PICK U \in Bad : \A V \in SUBSET U : V # U => V \notin Bad
    <3>1. Bad \subseteq FiniteSubsetsOf(S)
      OBVIOUS
    <3> HIDE DEF Bad
    <3> QED BY <1>2, <3>1, SmallestOf
  <2>2. /\ U \subseteq S /\ IsFiniteSet(U) /\ T \subseteq U
        /\ ~(TotalWeight(T, asOf) <= TotalWeight(U, asOf))
    BY <2>1 DEF FiniteSubsetsOf
  <2>3. Weighed(U, asOf) /\ Weighed(T, asOf)
    BY <2>2, FS_Subset DEF Weighed
  <2>4. TotalWeight(U, asOf) \in Nat /\ TotalWeight(T, asOf) \in Nat
    BY <2>3, TotalIsNumber
  <2>5. PICK x \in U : x \notin T
    <3>1. U # T
      BY <2>2, <2>4
    <3> QED BY <2>2, <3>1
  <2> DEFINE R == U \ {x}
  <2>6. R \in SUBSET U /\ R # U /\ IsFiniteSet(R) /\ T \subseteq R
    BY <2>2, <2>5, FS_Subset
  <2>7. TotalWeight(T, asOf) <= TotalWeight(R, asOf)
    BY <2>1, <2>2, <2>6 DEF FiniteSubsetsOf
  <2>8. Weighed(R, asOf)
    BY <2>3, <2>6 DEF Weighed
  <2>9. TotalWeight(R, asOf) \in Nat
    BY <2>8, TotalIsNumber
  <2>10. TotalWeight(U, asOf) = observation_weight(x, asOf) + TotalWeight(R, asOf)
    BY <2>3, TotalWithout
  <2>11. observation_weight(x, asOf) \in Nat
    BY <2>3 DEF Weighed
  <2> HIDE DEF R
  <2> QED BY <2>2, <2>4, <2>7, <2>9, <2>10, <2>11
<1> QED BY <1>1, <1>2

-----------------------------------------------------------------------------
(* A finite set of numbers, if not empty, has a least and a greatest one.  *)
LEMMA LeastAndGreatest ==
    ASSUME NEW T, IsFiniteSet(T), T \subseteq Nat, T # {}
    PROVE  \E lo, hi \in T : \A t \in T : lo <= t /\ t <= hi
<1> DEFINE Spans(U) == \E lo, hi \in U : \A t \in U : lo <= t /\ t <= hi
           Bad == {U \in FiniteSubsetsOf(T) : U # {} /\ ~Spans(U)}
<1> SUFFICES ASSUME Bad # {} PROVE FALSE
  BY DEF FiniteSubsetsOf
<1>1. PICK U \in Bad : \A V \in SUBSET U : V # U => V \notin Bad
  <2>1. Bad \subseteq FiniteSubsetsOf(T)
    OBVIOUS
  <2> HIDE DEF Bad
  <2> QED BY <2>1, SmallestOf
<1>2. U \subseteq T /\ IsFiniteSet(U) /\ U # {} /\ ~Spans(U) /\ U \subseteq Nat
  BY <1>1 DEF FiniteSubsetsOf
<1>3. PICK x \in U : TRUE
  BY <1>2
<1> DEFINE V == U \ {x}
<1>4. V \in SUBSET U /\ V # U /\ IsFiniteSet(V)
  BY <1>2, <1>3, FS_Subset
<1>5. V # {}
  <2>1. V = {} => \A y \in U : y = x
    OBVIOUS
  <2> QED BY <1>2, <1>3, <2>1
<1>6. Spans(V)
  <2>1. V \in FiniteSubsetsOf(T)
    BY <1>2, <1>4 DEF FiniteSubsetsOf
  <2> QED BY <1>1, <1>4, <1>5, <2>1
<1>7. PICK lo \in V, hi \in V : \A t \in V : lo <= t /\ t <= hi
  BY <1>6
<1>8. x \in Nat /\ lo \in Nat /\ hi \in Nat /\ lo \in U /\ hi \in U /\ V \subseteq Nat
  BY <1>2, <1>3, <1>7
<1>9. PICK l \in U : l <= x /\ \A t \in V : l <= t
  <2> HIDE DEF V
  <2>1. CASE x <= lo
    <3>1. \A t \in V : x <= t
      BY <1>7, <1>8, <2>1
    <3> QED BY <1>3, <1>8, <3>1
  <2>2. CASE ~(x <= lo)
    <3>1. lo <= x
      BY <1>8, <2>2
    <3> QED BY <1>7, <1>8, <3>1
  <2> QED BY <2>1, <2>2
<1>10. PICK h \in U : x <= h /\ \A t \in V : t <= h
  <2> HIDE DEF V
  <2>1. CASE hi <= x
    <3>1. \A t \in V : t <= x
      BY <1>7, <1>8, <2>1
    <3> QED BY <1>3, <1>8, <3>1
  <2>2. CASE ~(hi <= x)
    <3>1. x <= hi
      BY <1>8, <2>2
    <3> QED BY <1>7, <1>8, <3>1
  <2> QED BY <2>1, <2>2
<1>11. \A t \in U : t = x \/ t \in V
  OBVIOUS
<1>12. Spans(U)
  <2> HIDE DEF V
  <2> QED BY <1>9, <1>10, <1>11
<1> QED BY <1>2, <1>12

(* Observations that can be weighed, at a moment.                          *)
Weighables(O, asOf) ==
    Given(O) /\ asOf \in Asked /\ Scores(O, asOf, Everything)

LEMMA EligibleIsWeighed ==
    ASSUME NEW O, NEW asOf, Weighables(O, asOf)
    PROVE  Weighed(Eligible(O), asOf) /\ Eligible(O) \subseteq Observations
<1>1. Eligible(O) \subseteq O /\ IsFiniteSet(O) /\ O \subseteq Observations
  BY DEF Weighables, Given, Eligible, Current
<1>2. ASSUME NEW o \in Eligible(O) PROVE observation_weight(o, asOf) \in Nat
  <2>1. Reliability[o.source] \in Nat /\ Quality[o.source] \in Nat
    BY <1>1, ScoringAssumption DEF Weighables, Scores, Weighable
  <2>2. Freshness[Age(o, asOf)] \in Nat
    BY <1>1, ScoringAssumption DEF Weighables
  <2>3. \A i, j \in Nat : i * j \in Nat
    OBVIOUS
  <2> QED BY <2>1, <2>2, <2>3 DEF observation_weight
<1> QED BY <1>1, <1>2, FS_Subset DEF Weighed

(* What the ranking looks at is a number.                                  *)
Keyed(c) ==
    /\ c.weight \in Int /\ c.authority \in Int /\ c.latest \in Int
    /\ Cardinality(c.sources) \in Int /\ KeyRank[c.value] \in Int

Above(c, d) ==
    \/ c.weight > d.weight
    \/ /\ c.weight = d.weight
       /\ \/ c.authority < d.authority
          \/ /\ c.authority = d.authority
             /\ \/ c.latest > d.latest
                \/ /\ c.latest = d.latest
                   /\ \/ Cardinality(c.sources) > Cardinality(d.sources)
                      \/ /\ Cardinality(c.sources) = Cardinality(d.sources)
                         /\ KeyRank[c.value] < KeyRank[d.value]

LEMMA OutranksIsAbove ==
    ASSUME NEW c, NEW d, Keyed(c), Keyed(d)
    PROVE  Outranks(c, d) <=> Above(c, d)
<1> DEFINE k == SortKey(c)
           l == SortKey(d)
<1>1. /\ k[1] = -c.weight /\ k[2] = c.authority /\ k[3] = -c.latest
      /\ k[4] = -Cardinality(c.sources) /\ k[5] = KeyRank[c.value]
      /\ l[1] = -d.weight /\ l[2] = d.authority /\ l[3] = -d.latest
      /\ l[4] = -Cardinality(d.sources) /\ l[5] = KeyRank[d.value]
  BY DEF SortKey
<1>2. Outranks(c, d) <=>
        \E i \in 1 .. 5 : k[i] < l[i] /\ \A j \in 1 .. i - 1 : k[j] = l[j]
  BY DEF Outranks
<1> HIDE DEF k, l
<1> DEFINE First5 ==
      \/ k[1] < l[1]
      \/ k[1] = l[1] /\ k[2] < l[2]
      \/ k[1] = l[1] /\ k[2] = l[2] /\ k[3] < l[3]
      \/ k[1] = l[1] /\ k[2] = l[2] /\ k[3] = l[3] /\ k[4] < l[4]
      \/ k[1] = l[1] /\ k[2] = l[2] /\ k[3] = l[3] /\ k[4] = l[4] /\ k[5] < l[5]
<1>3. (\E i \in 1 .. 5 : k[i] < l[i] /\ \A j \in 1 .. i - 1 : k[j] = l[j]) <=> First5
  <2>1. ASSUME NEW i \in 1 .. 5, k[i] < l[i], \A j \in 1 .. i - 1 : k[j] = l[j]
        PROVE  First5
    <3>1. i = 1 \/ i = 2 \/ i = 3 \/ i = 4 \/ i = 5
      OBVIOUS
    <3> QED BY <2>1, <3>1
  <2>2. ASSUME First5
        PROVE  \E i \in 1 .. 5 : k[i] < l[i] /\ \A j \in 1 .. i - 1 : k[j] = l[j]
    <3>1. \A j \in 1 .. 1 - 1 : FALSE
      OBVIOUS
    <3>2. \A j \in 1 .. 2 - 1 : j = 1
      OBVIOUS
    <3>3. \A j \in 1 .. 3 - 1 : j = 1 \/ j = 2
      OBVIOUS
    <3>4. \A j \in 1 .. 4 - 1 : j = 1 \/ j = 2 \/ j = 3
      OBVIOUS
    <3>5. \A j \in 1 .. 5 - 1 : j = 1 \/ j = 2 \/ j = 3 \/ j = 4
      OBVIOUS
    <3> QED BY <2>2, <3>1, <3>2, <3>3, <3>4, <3>5
  <2> QED BY <2>1, <2>2
<1>4. First5 <=> Above(c, d)
  BY <1>1 DEF Above, Keyed
<1> QED BY <1>2, <1>3, <1>4

LEMMA AboveIsOrder ==
    ASSUME NEW c, NEW d, Keyed(c), Keyed(d)
    PROVE  /\ ~(Above(c, d) /\ Above(d, c))
           /\ KeyRank[c.value] # KeyRank[d.value] => Above(c, d) \/ Above(d, c)
BY DEF Keyed, Above

LEMMA AboveTransitive ==
    ASSUME NEW b, NEW c, NEW d, Keyed(b), Keyed(c), Keyed(d), Above(b, c), Above(c, d)
    PROVE  Above(b, d)
BY DEF Keyed, Above

(* A candidate that is no worse in anything the ranking looks at.          *)
NoWorse(c, d) ==
    /\ c.weight >= d.weight /\ c.authority <= d.authority /\ c.latest >= d.latest
    /\ Cardinality(c.sources) >= Cardinality(d.sources) /\ c.value = d.value

LEMMA NoWorseStaysAbove ==
    ASSUME NEW a, NEW b, NEW c, NEW d, Keyed(a), Keyed(b), Keyed(c), Keyed(d),
           NoWorse(a, c), Above(c, d), NoWorse(d, b)
    PROVE  Above(a, b)
BY DEF Keyed, Above, NoWorse

-----------------------------------------------------------------------------
LEMMA WeightedFields ==
    ASSUME NEW O, NEW asOf, NEW w \in WeightedCandidates(O, asOf)
    PROVE  /\ \E o \in Eligible(O) : w.value = o.value
           /\ w.sources = Asserting(O, w.value)
           /\ w.weight = TotalWeight(Backing(O, w.value), asOf)
           /\ w.latest = Latest(Backing(O, w.value))
           /\ w.authority = Min({Authority[s] : s \in w.sources})
           /\ \A x \in WeightedCandidates(O, asOf) : x.value = w.value => x = w
<1> DEFINE Weigh(c) ==
      [value |-> c.value, sources |-> c.sources,
       weight |-> TotalWeight(Backing(O, c.value), asOf),
       share |-> Share(Backing(O, c.value), O, asOf),
       latest |-> Latest(Backing(O, c.value)),
       authority |-> Min({Authority[s] : s \in c.sources})]
<1>1. WeightedCandidates(O, asOf) = {Weigh(c) : c \in Candidates(O)}
  BY Zenon DEF WeightedCandidates
<1>2. \A c : /\ Weigh(c).value = c.value /\ Weigh(c).sources = c.sources
            /\ Weigh(c).latest = Latest(Backing(O, c.value))
            /\ Weigh(c).weight = TotalWeight(Backing(O, c.value), asOf)
            /\ Weigh(c).authority = Min({Authority[s] : s \in c.sources})
  OBVIOUS
<1>3. \A c \in Candidates(O) : /\ c = [value |-> c.value, sources |-> Asserting(O, c.value)]
                               /\ \E o \in Eligible(O) : c.value = o.value
  BY DEF Candidates
<1>4. PICK c \in Candidates(O) : w = Weigh(c)
  BY <1>1
<1>5. ASSUME NEW x \in WeightedCandidates(O, asOf), x.value = w.value PROVE x = w
  <2>1. PICK d \in Candidates(O) : x = Weigh(d)
    BY <1>1
  <2> HIDE DEF Weigh
  <2>2. d.value = c.value
    BY <1>2, <1>4, <1>5, <2>1
  <2>3. d = c
    BY <1>3, <2>2
  <2> QED BY <1>4, <2>1, <2>3
<1> HIDE DEF Weigh
<1>6. /\ w.value = c.value /\ w.sources = c.sources
      /\ w.weight = TotalWeight(Backing(O, w.value), asOf)
      /\ w.latest = Latest(Backing(O, w.value))
      /\ w.authority = Min({Authority[s] : s \in w.sources})
  BY <1>2, <1>4
<1>7. c.sources = Asserting(O, c.value) /\ \E o \in Eligible(O) : c.value = o.value
  BY <1>3
<1> QED BY <1>5, <1>6, <1>7

LEMMA LatestOf ==
    ASSUME NEW S, S \subseteq Observations, IsFiniteSet(S), S # {}
    PROVE  /\ \E o \in S : Latest(S) = o.event
           /\ \A o \in S : Latest(S) >= o.event
           /\ Latest(S) \in Nat
<1> DEFINE T == {o.event : o \in S}
           at == [o \in S |-> o.event]
<1>1. IsFiniteSet(T)
  <2>1. at \in Surjection(S, T)
    BY DEF Surjection
  <2> QED BY <2>1, FS_Surjection
<1>2. T \subseteq Nat /\ T # {}
  BY ObservationFields
<1>3. PICK hi \in T : \A t \in T : t <= hi
  <2> HIDE DEF T
  <2> QED BY <1>1, <1>2, LeastAndGreatest
<1>4. \A o \in S : hi >= o.event
  BY <1>2, <1>3
<1>5. Latest(S) \in T /\ \A o \in S : Latest(S) >= o.event
  BY <1>3, <1>4 DEF Latest
<1> QED BY <1>2, <1>5

LEMMA BestAuthority ==
    ASSUME NEW S, IsFiniteSet(S), S # {}, \A s \in S : Authority[s] \in Nat
    PROVE  /\ \E s \in S : Min({Authority[t] : t \in S}) = Authority[s]
           /\ \A s \in S : Min({Authority[t] : t \in S}) <= Authority[s]
<1> DEFINE A == {Authority[s] : s \in S}
<1>1. IsFiniteSet(A)
  BY ImageIsFinite
<1>2. A \subseteq Nat /\ A # {}
  OBVIOUS
<1>3. \E lo \in A : \A a \in A : lo <= a
  <2> HIDE DEF A
  <2> QED BY <1>1, <1>2, LeastAndGreatest
<1>4. Min(A) \in A /\ \A a \in A : Min(A) <= a
  <2> HIDE DEF A
  <2> QED BY <1>3 DEF Min
<1> QED BY <1>4

LEMMA BackingOf ==
    ASSUME NEW O, NEW asOf, Weighables(O, asOf), NEW v
    PROVE  /\ Weighed(Backing(O, v), asOf) /\ Backing(O, v) \subseteq Observations
           /\ Asserting(O, v) = {o.source : o \in Backing(O, v)}
           /\ IsFiniteSet(Asserting(O, v))
           /\ \A s \in Asserting(O, v) : Authority[s] \in Nat
<1> DEFINE said == [o \in Backing(O, v) |-> o.source]
<1>1. Weighed(Backing(O, v), asOf) /\ Backing(O, v) \subseteq Observations
  BY EligibleIsWeighed, FS_Subset DEF Backing, Weighed
<1>2. Asserting(O, v) = {o.source : o \in Backing(O, v)}
  BY DEF Asserting, Backing
<1>3. said \in Surjection(Backing(O, v), Asserting(O, v))
  BY <1>2 DEF Surjection
<1>4. IsFiniteSet(Asserting(O, v))
  BY <1>1, <1>3, FS_Surjection DEF Weighed
<1> QED BY <1>1, <1>2, <1>4, ScoringAssumption

LEMMA WeightedKeyed ==
    ASSUME NEW O, NEW asOf, Weighables(O, asOf), NEW w \in WeightedCandidates(O, asOf)
    PROVE  /\ Keyed(w) /\ Backing(O, w.value) # {}
           /\ w.value \in {o.value : o \in Observations}
<1> DEFINE B == Backing(O, w.value)
<1>1. PICK o \in Eligible(O) : w.value = o.value
  BY WeightedFields
<1>2. o \in B /\ o \in Observations
  BY <1>1, EligibleIsWeighed DEF Backing
<1>3. Weighed(B, asOf) /\ B \subseteq Observations
  BY BackingOf
<1>4. w.weight \in Int
  <2>1. w.weight = TotalWeight(B, asOf)
    BY WeightedFields
  <2>2. TotalWeight(B, asOf) \in Nat
    BY <1>3, TotalIsNumber
  <2> QED BY <2>1, <2>2
<1>5. w.latest \in Int
  <2>1. w.latest = Latest(B)
    BY WeightedFields
  <2>2. Latest(B) \in Nat
    BY <1>2, <1>3, LatestOf DEF Weighed
  <2> QED BY <2>1, <2>2
<1>6. /\ IsFiniteSet(w.sources) /\ w.sources # {}
      /\ \A s \in w.sources : Authority[s] \in Nat
  <2>1. w.sources = Asserting(O, w.value)
    BY WeightedFields
  <2> QED BY <1>2, <2>1, BackingOf
<1>7. w.authority \in Int
  <2>1. w.authority = Min({Authority[s] : s \in w.sources})
    BY WeightedFields
  <2> QED BY <1>6, <2>1, BestAuthority
<1>8. Cardinality(w.sources) \in Int
  BY <1>6, FS_CardinalityType
<1>9. KeyRank[w.value] \in Int
  BY <1>1, <1>2, ScoringAssumption
<1> QED BY <1>1, <1>2, <1>4, <1>5, <1>7, <1>8, <1>9 DEF Keyed

(* Of two candidates one outranks the other, and not the other way round.  *)
LEMMA NoTie ==
    ASSUME NEW O, NEW asOf, Weighables(O, asOf),
           NEW c \in WeightedCandidates(O, asOf), NEW d \in WeightedCandidates(O, asOf)
    PROVE  /\ c # d => Outranks(c, d) \/ Outranks(d, c)
           /\ ~(Outranks(c, d) /\ Outranks(d, c))
<1>1. /\ Keyed(c) /\ Keyed(d)
      /\ c.value \in {o.value : o \in Observations}
      /\ d.value \in {o.value : o \in Observations}
  BY WeightedKeyed
<1>2. c # d => c.value # d.value
  BY WeightedFields
<1>3. c # d => KeyRank[c.value] # KeyRank[d.value]
  BY <1>1, <1>2, ScoringAssumption
<1> QED BY <1>1, <1>3, AboveIsOrder, OutranksIsAbove

LEMMA FiniteWeighted ==
    ASSUME NEW O, NEW asOf, Weighables(O, asOf)
    PROVE  IsFiniteSet(WeightedCandidates(O, asOf)) /\ WeightedCandidates(O, asOf) # {}
<1> DEFINE W == WeightedCandidates(O, asOf)
<1>1. PICK f : W = {f[x] : x \in Candidates(O)}
  BY WeightedIsImage
<1>2. IsFiniteSet(O)
  BY DEF Weighables, Given
<1>3. PICK o \in Eligible(O) : TRUE
  BY DEF Weighables, Scores
<1>4. Candidates(O) # {}
  BY <1>3, CandidateOf
<1>5. W # {}
  BY <1>4, WeightedOf
<1>6. IsFiniteSet(W)
  <2> HIDE DEF W
  <2> QED BY <1>1, <1>2, FiniteCandidates, ImageIsFinite
<1> QED BY <1>5, <1>6

(* So one of them outranks all others, and that is the winner.             *)
LEMMA WinnerLeads ==
    ASSUME NEW O, NEW asOf, Weighables(O, asOf)
    PROVE  /\ Winner(O, asOf) \in WeightedCandidates(O, asOf)
           /\ \A d \in WeightedCandidates(O, asOf) \ {Winner(O, asOf)} :
                 Outranks(Winner(O, asOf), d)
<1> DEFINE W == WeightedCandidates(O, asOf)
           Led(T) == \E c \in T : \A d \in T \ {c} : Outranks(c, d)
           Bad == {T \in FiniteSubsetsOf(W) : T # {} /\ ~Led(T)}
<1>1. IsFiniteSet(W) /\ W # {}
  BY FiniteWeighted
<1>2. CASE Bad # {}
  <2>1. PICK T \in Bad : \A V \in SUBSET T : V # T => V \notin Bad
    <3>1. Bad \subseteq FiniteSubsetsOf(W)
      OBVIOUS
    <3> HIDE DEF Bad
    <3> QED BY <1>2, <3>1, SmallestOf
  <2>2. T \subseteq W /\ IsFiniteSet(T) /\ T # {} /\ ~Led(T)
    BY <2>1 DEF FiniteSubsetsOf
  <2>3. PICK x \in T : TRUE
    BY <2>2
  <2> DEFINE V == T \ {x}
  <2>4. V \in SUBSET T /\ V # T /\ IsFiniteSet(V)
    BY <2>2, <2>3, FS_Subset
  <2>5. V # {}
    <3>1. V = {} => \A d \in T \ {x} : FALSE
      OBVIOUS
    <3> QED BY <2>2, <2>3, <3>1
  <2>6. Led(V)
    <3>1. V \in FiniteSubsetsOf(W)
      BY <2>2, <2>4 DEF FiniteSubsetsOf
    <3> QED BY <2>1, <2>4, <2>5, <3>1
  <2>7. PICK c \in V : \A d \in V \ {c} : Outranks(c, d)
    BY <2>6
  <2>8. c # x /\ c \in W /\ x \in W /\ c \in T /\ \A d \in T : d \in W
    BY <2>2, <2>3, <2>7
  <2>9. CASE Outranks(c, x)
    <3>1. \A d \in T \ {c} : Outranks(c, d)
      BY <2>7, <2>9
    <3> QED BY <2>2, <2>8, <3>1
  <2>10. CASE Outranks(x, c)
    <3>1. ASSUME NEW d \in T \ {x} PROVE Outranks(x, d)
      <4>1. CASE d = c
        BY <2>10, <4>1
      <4>2. CASE d # c
        <5>1. Outranks(c, d) /\ d \in W
          BY <2>7, <2>8, <4>2
        <5>2. Keyed(x) /\ Keyed(c) /\ Keyed(d)
          BY <2>8, <5>1, WeightedKeyed
        <5> QED BY <2>10, <5>1, <5>2, OutranksIsAbove, AboveTransitive
      <4> QED BY <4>1, <4>2
    <3> QED BY <2>2, <2>3, <3>1
  <2> QED BY <2>8, <2>9, <2>10, NoTie
<1>3. CASE Bad = {}
  <2>1. Led(W)
    BY <1>1, <1>3 DEF FiniteSubsetsOf
  <2> QED BY <2>1 DEF Winner
<1> QED BY <1>2, <1>3

LEMMA WinnerIs ==
    ASSUME NEW O, NEW asOf, Weighables(O, asOf), NEW c \in WeightedCandidates(O, asOf),
           \A d \in WeightedCandidates(O, asOf) \ {c} : Outranks(c, d)
    PROVE  Winner(O, asOf) = c
BY WinnerLeads, NoTie

-----------------------------------------------------------------------------
(* A voice that joins a value joins its backing, and no other value gains. *)
LEMMA NewVoice ==
    ASSUME NEW O, NEW o, o \in Eligible(O \cup {o}),
           o.source \notin Asserting(O, o.value)
    PROVE  /\ Backing(O, o.value) \subseteq Backing(O \cup {o}, o.value)
           /\ \A u : u # o.value => Backing(O \cup {o}, u) \subseteq Backing(O, u)
<1> DEFINE P == O \cup {o}
<1>1. ASSUME NEW p \in Backing(O, o.value) PROVE p \in Backing(P, o.value)
  <2>1. p \in Eligible(O) /\ p.value = o.value
    BY <1>1 DEF Backing
  <2>2. p.source # o.source
    BY <2>1 DEF Asserting
  <2>3. p \in O /\ p.valid /\ \A q \in O : ~Supersedes(q, p)
    BY <2>1 DEF Eligible, Current
  <2>4. ~Supersedes(o, p)
    BY <2>2 DEF Supersedes
  <2>5. p \in Eligible(P)
    BY <2>3, <2>4 DEF Eligible, Current
  <2> QED BY <2>1, <2>5 DEF Backing
<1>2. ASSUME NEW u, u # o.value, NEW p \in Backing(P, u) PROVE p \in Backing(O, u)
  <2>1. p \in Eligible(P) /\ p.value = u
    BY <1>2 DEF Backing
  <2>2. p \in O
    BY <1>2, <2>1 DEF Eligible, Current
  <2>3. p \in Eligible(O)
    BY <2>1, <2>2 DEF Eligible, Current
  <2> QED BY <2>1, <2>3 DEF Backing
<1> QED BY <1>1, <1>2

(* A candidate that is backed by more is no worse.                         *)
LEMMA BackedByMore ==
    ASSUME NEW O, NEW P, NEW asOf, Weighables(O, asOf), Weighables(P, asOf),
           NEW c \in WeightedCandidates(O, asOf), NEW d \in WeightedCandidates(P, asOf),
           c.value = d.value, Backing(O, c.value) \subseteq Backing(P, c.value)
    PROVE  NoWorse(d, c)
<1> DEFINE B == Backing(O, c.value)
           C == Backing(P, c.value)
<1>1. /\ Weighed(B, asOf) /\ Weighed(C, asOf)
      /\ B \subseteq Observations /\ C \subseteq Observations
      /\ Asserting(O, c.value) = {o.source : o \in B}
      /\ Asserting(P, c.value) = {o.source : o \in C}
      /\ IsFiniteSet(Asserting(O, c.value)) /\ IsFiniteSet(Asserting(P, c.value))
      /\ \A s \in Asserting(P, c.value) : Authority[s] \in Nat
  BY BackingOf
<1>2. /\ c.sources = Asserting(O, c.value) /\ d.sources = Asserting(P, c.value)
      /\ c.weight = TotalWeight(B, asOf) /\ d.weight = TotalWeight(C, asOf)
      /\ c.latest = Latest(B) /\ d.latest = Latest(C)
      /\ c.authority = Min({Authority[s] : s \in c.sources})
      /\ d.authority = Min({Authority[s] : s \in d.sources})
  <2>1. /\ c.sources = Asserting(O, c.value) /\ c.weight = TotalWeight(B, asOf)
        /\ c.latest = Latest(B)
        /\ c.authority = Min({Authority[s] : s \in c.sources})
    BY WeightedFields
  <2>2. /\ d.sources = Asserting(P, d.value)
        /\ d.weight = TotalWeight(Backing(P, d.value), asOf)
        /\ d.latest = Latest(Backing(P, d.value))
        /\ d.authority = Min({Authority[s] : s \in d.sources})
    BY WeightedFields
  <2>3. d.value = c.value
    OBVIOUS
  <2> QED BY <2>1, <2>2, <2>3
<1>3. B # {} /\ C # {}
  BY WeightedKeyed
<1>4. d.weight >= c.weight
  <2>1. TotalWeight(B, asOf) <= TotalWeight(C, asOf)
    BY <1>1, TotalGrows
  <2>2. TotalWeight(B, asOf) \in Nat /\ TotalWeight(C, asOf) \in Nat
    BY <1>1, TotalIsNumber
  <2> QED BY <1>2, <2>1, <2>2
<1>5. d.latest >= c.latest
  <2>1. PICK o \in B : Latest(B) = o.event
    BY <1>1, <1>3, LatestOf DEF Weighed
  <2>2. \A p \in C : Latest(C) >= p.event
    BY <1>1, <1>3, LatestOf DEF Weighed
  <2> QED BY <1>2, <2>1, <2>2
<1>6. c.sources \subseteq d.sources /\ IsFiniteSet(d.sources) /\ c.sources # {}
  BY <1>1, <1>2, <1>3
<1>7. d.authority <= c.authority
  <2>1. /\ IsFiniteSet(c.sources) /\ \A s \in d.sources : Authority[s] \in Nat
        /\ \A s \in c.sources : Authority[s] \in Nat
    BY <1>1, <1>2, <1>6
  <2>2. PICK s \in c.sources : c.authority = Authority[s]
    BY <1>2, <1>6, <2>1, BestAuthority
  <2>3. s \in d.sources /\ d.sources # {}
    BY <1>6
  <2>4. d.authority <= Authority[s]
    BY <1>2, <1>6, <2>1, <2>3, BestAuthority
  <2> QED BY <2>2, <2>4
<1>8. Cardinality(d.sources) >= Cardinality(c.sources)
  <2>1. Cardinality(c.sources) <= Cardinality(d.sources)
    BY <1>6, FS_Subset
  <2>2. Cardinality(c.sources) \in Int /\ Cardinality(d.sources) \in Int
    BY WeightedKeyed DEF Keyed
  <2> QED BY <2>1, <2>2
<1> QED BY <1>4, <1>5, <1>7, <1>8 DEF NoWorse

(* A value that is backed is that of a candidate, and conversely.          *)
LEMMA BackedIsWeighted ==
    ASSUME NEW O, NEW asOf, NEW v
    PROVE  Backing(O, v) # {} <=> \E w \in WeightedCandidates(O, asOf) : w.value = v
<1>1. ASSUME NEW o \in Backing(O, v)
      PROVE  \E w \in WeightedCandidates(O, asOf) : w.value = v
  <2>1. o \in Eligible(O) /\ o.value = v
    BY <1>1 DEF Backing
  <2>2. PICK c \in Candidates(O) : c.value = v
    BY <2>1, CandidateOf
  <2> QED BY <2>2, WeightedOf
<1>2. ASSUME NEW w \in WeightedCandidates(O, asOf), w.value = v
      PROVE  Backing(O, v) # {}
  <2>1. PICK o \in Eligible(O) : w.value = o.value
    BY WeightedFields
  <2> QED BY <1>2, <2>1 DEF Backing
<1> QED BY <1>1, <1>2

(* A source that comes to say what is believed does not unseat it,         *)
(* whatever it said before and however little its word weighs.             *)
THEOREM SupportHelpsHolds == Spec => SupportHelps
<1> DEFINE Helps ==
      \A o \in given' \ given, asOf \in Asked :
          /\ o \in Eligible(given')
          /\ Scores(given, asOf, Everything) /\ Scores(given', asOf, Everything)
          /\ o.value = Winner(given, asOf).value
          /\ o.source \notin Asserting(given, o.value)
          => Winner(given', asOf).value = o.value
<1>1. Given(given) /\ Given(given') /\ [Next]_given => [Helps]_given
  <2> SUFFICES ASSUME Given(given), Given(given'), NEW x \in Observations, Arrive(x),
                      NEW o \in given' \ given, NEW asOf \in Asked,
                      o \in Eligible(given'),
                      Scores(given, asOf, Everything), Scores(given', asOf, Everything),
                      o.value = Winner(given, asOf).value,
                      o.source \notin Asserting(given, o.value)
               PROVE  Winner(given', asOf).value = o.value
    BY DEF Next
  <2> DEFINE W == WeightedCandidates(given, asOf)
             V == WeightedCandidates(given', asOf)
             c == Winner(given, asOf)
  <2>1. Weighables(given, asOf) /\ Weighables(given', asOf)
    BY DEF Weighables
  <2>2. given' = given \cup {o}
    BY DEF Arrive
  <2>3. /\ Backing(given, o.value) \subseteq Backing(given', o.value)
        /\ \A u : u # o.value => Backing(given', u) \subseteq Backing(given, u)
    BY <2>2, NewVoice
  <2>4. c \in W /\ \A d \in W \ {c} : Outranks(c, d)
    BY <2>1, WinnerLeads
  <2>5. PICK a \in V : a.value = o.value
    <3>1. Backing(given', o.value) # {}
      BY DEF Backing
    <3> QED BY <3>1, BackedIsWeighted
  <2>6. NoWorse(a, c)
    BY <2>1, <2>3, <2>4, <2>5, BackedByMore
  <2>7. ASSUME NEW b \in V \ {a} PROVE Outranks(a, b)
    <3>1. b.value # o.value
      <4>1. \A d \in V : d.value = a.value => d = a
        BY <2>5, WeightedFields
      <4> QED BY <2>5, <4>1
    <3>2. Backing(given', b.value) # {} /\ Backing(given', b.value) \subseteq Backing(given, b.value)
      BY <2>3, <3>1, BackedIsWeighted
    <3>3. PICK d \in W : d.value = b.value
      <4>1. Backing(given, b.value) # {}
        BY <3>2
      <4> QED BY <4>1, BackedIsWeighted
    <3>4. NoWorse(d, b)
      BY <2>1, <3>2, <3>3, BackedByMore
    <3>5. Outranks(c, d)
      BY <2>4, <3>1, <3>3
    <3>6. Keyed(a) /\ Keyed(b) /\ Keyed(c) /\ Keyed(d)
      BY <2>1, <2>4, <2>5, <3>3, WeightedKeyed
    <3>7. Above(c, d)
      BY <3>5, <3>6, OutranksIsAbove
    <3>8. Above(a, b)
      BY <2>6, <3>4, <3>6, <3>7, NoWorseStaysAbove
    <3> QED BY <3>6, <3>8, OutranksIsAbove
  <2>8. Winner(given', asOf) = a
    BY <2>1, <2>5, <2>7, WinnerIs
  <2> QED BY <2>5, <2>8
<1>2. Given(given)' <=> Given(given')
  BY DEF Given
<1> QED BY <1>1, <1>2, GivenHolds, PTL DEF Spec, SupportHelps

(* Of two candidates one outranks the other, and the first outranks all    *)
(* others (engine/selection.py, _candidate_sort_key).                      *)
THEOREM RankingNeverTiesHolds == Spec => []RankingNeverTies
<1>1. Given(given) => RankingNeverTies
  <2> SUFFICES ASSUME Given(given), NEW asOf \in Asked,
                      Scores(given, asOf, Everything)
               PROVE  LET W == WeightedCandidates(given, asOf)
                          first == Ranked(given, asOf)[1]
                      IN  /\ \A c, d \in W :
                                c # d => (Outranks(c, d) <=> ~Outranks(d, c))
                          /\ first \in W /\ \A d \in W \ {first} : Outranks(first, d)
    BY DEF RankingNeverTies
  <2> DEFINE W == WeightedCandidates(given, asOf)
             w == Winner(given, asOf)
             First(c) == Cardinality({d \in W \ {c} : Outranks(d, c)}) = 0
  <2>1. Weighables(given, asOf)
    BY DEF Weighables
  <2>2. \A c, d \in W : c # d => (Outranks(c, d) <=> ~Outranks(d, c))
    BY <2>1, NoTie
  <2>3. w \in W /\ \A d \in W \ {w} : Outranks(w, d)
    BY <2>1, WinnerLeads
  <2>4. First(w)
    <3>1. {d \in W \ {w} : Outranks(d, w)} = {}
      BY <2>2, <2>3
    <3> QED BY <3>1, FS_EmptySet
  <2>5. IsFiniteSet(W) /\ Cardinality(W) \in Nat \ {0}
    BY <2>1, <2>3, FiniteWeighted, FS_CardinalityType, FS_EmptySet
  <2>6. ASSUME NEW c \in W, First(c) PROVE c = w
    <3>1. IsFiniteSet({d \in W \ {c} : Outranks(d, c)})
      BY <2>5, FS_Subset
    <3>2. {d \in W \ {c} : Outranks(d, c)} = {}
      BY <2>6, <3>1, FS_EmptySet
    <3> QED BY <2>3, <3>2
  <2>7. Ranked(given, asOf)[1] = CHOOSE c \in W : First(c)
    <3>1. 1 \in 1 .. Cardinality(W) /\ 1 - 1 = 0
      BY <2>5
    <3> QED BY <3>1 DEF Ranked
  <2>8. Ranked(given, asOf)[1] = w
    <3> HIDE DEF W, w, First
    <3> QED BY <2>3, <2>4, <2>6, <2>7
  <2> QED BY <2>2, <2>3, <2>8
<1> QED BY <1>1, GivenHolds, PTL
=============================================================================
