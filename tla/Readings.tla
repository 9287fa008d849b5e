------------------------------ MODULE Readings ------------------------------
(***************************************************************************)
(* A PostgreSQL and a MySQL source that state one attribute of an entity:  *)
(* what each holds, as an observation of what its connector reads, comes   *)
(* to the engine and to the timeline.                                      *)
(***************************************************************************)
EXTENDS RealityEngineCheck, Timeline, Scoring

CONSTANTS
    Cells,        \* facts that the attribute's column may hold, and Null
    Servers,      \* <<kind, zone>>: a source and the zone of its sessions
    Moments, Ids,
    Asked,        \* moments of calculations
    Specified     \* specifications: what is known of each

Row(moment, cell) == [at |-> Fact("timestamptz", moment, 0), states |-> cell]

(* The rows of the sources as they may be read, at any time, in any order. *)
ReadFrom(s, row, id, k) ==
    UNION {Observe(s[1], s[2], row, FALSE, id, k, v) : v \in BOOLEAN}
ReadObservations ==
    UNION {ReadFrom(s, Row(t, c), id, k) :
              s \in Servers, t \in Moments, c \in Cells, id \in Ids, k \in Moments}

(* What arrives was read from a source; a moment is a moment.              *)
ASSUME ReadingsAssumption ==
    /\ Observations \subseteq ReadObservations
    /\ Moments \subseteq Nat
    /\ Null \notin Moments

(* What is declared of sources and ages is a number, whole multiples of    *)
(* 1/Unit where it is a share, and different values have different         *)
(* canonical renderings.                                                   *)
ASSUME ScoringAssumption ==
    /\ \A o \in Observations :
          /\ {Reliability[o.source], Quality[o.source]} \subseteq Nat \cup {Undeclared}
          /\ Authority[o.source] \in Nat
          /\ KeyRank[o.value] \in Int
          /\ \A t \in Asked : Freshness[Age(o, t)] \in Nat
    /\ \A u, v \in {o.value : o \in Observations} : KeyRank[u] = KeyRank[v] => u = v

(* Two statements about different columns may differ in type.              *)
Comparable(f, g) == f # Null /\ g # Null => f.type = g.type

(* The engine sees a disagreement exactly where the databases hold         *)
(* different things: neither the zone of a session nor the kind of the     *)
(* database makes or hides one, and no digit of a number is lost           *)
(* (ingestion/normalization.py, engine/selection.py, value_key).           *)
DisagreementIsReal ==
    \A o, p \in Current(given) :
        o.valid /\ p.valid /\ Comparable(o.states, p.states) =>
            (\E c \in Candidates(given) : {o.source, p.source} \subseteq c.sources)
                <=> o.states = p.states

(* What is learned afterwards, of whatever moment, does not change what    *)
(* was known (services/timeline.py, reconstruct).                          *)
KnownStands ==
    [][\A k \in Moments, limit \in 1 .. 3 :
          (\A o \in given' \ given : o.ingested > k) =>
              reconstruct(given', "event", Null, k, limit)
                  = reconstruct(given, "event", Null, k, limit)]_given

(* What a specification of scoring would settle is which of competing      *)
(* values wins, and how sure that is: everything that is believed without  *)
(* it stands (engine/engine.py, calculate and _unscored).                  *)
Scores(O, asOf, known) == Eligible(O) # {} /\ Weighable(O, known)

ScoringOnlySettles ==
    \A asOf \in Asked, known \in Specified : Scores(given, asOf, known) =>
        LET scored == Score(given, asOf, known)
            unscored == Calculate(given, asOf)
        IN  /\ scored.status = unscored.status
            /\ InRole(scored.evidence, "excluded") = InRole(Evidence(given), "excluded")
            /\ unscored.selected =>
                  /\ scored.value = unscored.value
                  /\ scored.validFrom = unscored.validFrom
                  /\ scored.evidence = Evidence(given)

(* Another source that comes to say what is believed, having said nothing  *)
(* or something else, does not make it less believed than another value,   *)
(* however unreliable or old its word is (engine/selection.py).            *)
SupportHelps ==
    [][\A o \in given' \ given, asOf \in Asked :
          /\ o \in Eligible(given')
          /\ Scores(given, asOf, Everything) /\ Scores(given', asOf, Everything)
          /\ o.value = Winner(given, asOf).value
          /\ o.source \notin Asserting(given, o.value)
          => Winner(given', asOf).value = o.value]_given

(* The ranking never ties: of two candidates one outranks the other and    *)
(* not the other way round, and the first of the ranking outranks all      *)
(* others, so what is selected does not depend on the order in which       *)
(* observations were read (engine/selection.py, _candidate_sort_key).      *)
RankingNeverTies ==
    \A asOf \in Asked : Scores(given, asOf, Everything) =>
        LET W == WeightedCandidates(given, asOf)
            first == Ranked(given, asOf)[1]
        IN  /\ \A c, d \in W : c # d => (Outranks(c, d) <=> ~Outranks(d, c))
            /\ first \in W /\ \A d \in W \ {first} : Outranks(first, d)

-----------------------------------------------------------------------------
(* Refuted, see README.                                                    *)

(* A history is every observation that states a value, up to the limit.    *)
HistoryIsComplete ==
    \A limit \in 1 .. 3 :
        LET stated == {o \in given : o.value # Null} IN
        attribute_history(given, limit) = FirstOf(stated, "event", limit)

(* A disagreement has one fingerprint, whenever it is calculated.          *)
FingerprintStands ==
    \A t, u \in Asked : Scores(given, t, Everything) =>
        Positions(Ranked(given, t)) = Positions(Ranked(given, u))

(* The confidence is that of the winner's sources.                         *)
ConfidenceOfTheWinner ==
    [][\A asOf \in Asked :
          Scores(given, asOf, Everything) /\ Scores(given', asOf, Everything) =>
              LET c == Winner(given, asOf)
                  d == Winner(given', asOf)
              IN  Backing(given, c.value) = Backing(given', d.value)
                      /\ Cardinality(Candidates(given)) = Cardinality(Candidates(given')) =>
                      Score(given, asOf, Everything).confidence
                          = Score(given', asOf, Everything).confidence]_given

(* What both databases hold reads the same.                                *)
KindsAgree ==
    \A f \in Cells \ {Null}, s, t \in Servers :
        Canonical(s[1], s[2], f) = Canonical(t[1], t[2], f)

(* What discovery offers for event times can be read as one.               *)
OfferedIsUsable ==
    \A s \in Servers, type \in TEMPORAL_TYPE_PREFIXES, t \in Moments :
        EventTime(s[1], s[2], Fact(type, t, 0)) # Null
=============================================================================
