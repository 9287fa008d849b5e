------------------------------ MODULE Scoring ------------------------------
(***************************************************************************)
(* The engine where a specification of scoring is supplied: observations   *)
(* are weighted, candidates ranked, one is selected and, if it can be,     *)
(* scored. The application's own specification lacks all of it; what is    *)
(* known of one is a parameter, a set of the names of its sub-formulas.    *)
(*                                                                         *)
(* Declared factors are whole multiples of 1/Unit; sums and products of    *)
(* them are exact here, and means and shares have fewer digits than the    *)
(* code's.                                                                 *)
(***************************************************************************)
EXTENDS RealityEngine, Integers, SequencesExt

CONSTANTS
    Unit,             \* 1, of declared factors
    Digits,           \* 1, of shares and of scores
    Undeclared,
    Reliability, Quality,   \* of a source: 0 .. Unit, or Undeclared
    Authority,        \* of a source: 0 is the system of record
    Freshness,        \* of an age: 0 .. Unit
    Agreement(_, _),  \* of the winner's share and the candidates: 0 .. Digits
    Penalties,        \* the multipliers, 0 .. Unit each
    Threshold,        \* the margin that is contested
    KeyRank           \* of a value: the place of its canonical rendering

Everything == {"freshness", "quality", "agreement", "penalties", "margin"}

-----------------------------------------------------------------------------
(* age_hours, on the axis of events; what is still to happen is new.       *)
Age(o, asOf) == IF asOf > o.event THEN asOf - o.event ELSE 0

observation_weight(o, asOf) ==
    Reliability[o.source] * Freshness[Age(o, asOf)] * Quality[o.source]

(* Without a freshness, a quality and all that they need nothing is        *)
(* weighted, and the calculation is the one without scores.                *)
Weighable(O, known) ==
    /\ {"freshness", "quality"} \subseteq known
    /\ \A o \in Eligible(O) : Undeclared \notin {Reliability[o.source], Quality[o.source]}

Backing(O, v) == {o \in Eligible(O) : o.value = v}

(* Mutant: the mean.                                                       *)
MeanWeight(S, asOf) ==
    MapThenSumSet(LAMBDA o : observation_weight(o, asOf), S) \div Cardinality(S)
TotalWeight(S, asOf) == MapThenSumSet(LAMBDA o : observation_weight(o, asOf), S)

Share(S, O, asOf) ==
    LET all == TotalWeight(Eligible(O), asOf) IN
    IF all = 0 THEN 0 ELSE (TotalWeight(S, asOf) * Digits) \div all

(* build_candidates.                                                       *)
WeightedCandidates(O, asOf) ==
    {LET S == Backing(O, c.value) IN
     [value |-> c.value, sources |-> c.sources, weight |-> TotalWeight(S, asOf),
      share |-> Share(S, O, asOf), latest |-> Latest(S),
      authority |-> Min({Authority[s] : s \in c.sources})] : c \in Candidates(O)}

(* Weight first, then authority, time, the number of sources, the value.   *)
SortKey(c) ==
    <<-c.weight, c.authority, -c.latest, -Cardinality(c.sources), KeyRank[c.value]>>

Outranks(c, d) ==
    \E i \in 1 .. 5 : /\ SortKey(c)[i] < SortKey(d)[i]
                      /\ \A j \in 1 .. i - 1 : SortKey(c)[j] = SortKey(d)[j]

(* A candidate's place is given by the number of those that outrank it.    *)
Ranked(O, asOf) ==
    LET W == WeightedCandidates(O, asOf)
    IN  [i \in 1 .. Cardinality(W) |->
            CHOOSE c \in W : Cardinality({d \in W \ {c} : Outranks(d, c)}) = i - 1]
Winner(O, asOf) ==
    LET W == WeightedCandidates(O, asOf)
    IN  CHOOSE c \in W : \A d \in W \ {c} : Outranks(c, d)

selection_margin(ranked) ==
    IF Len(ranked) < 2 THEN Digits ELSE ranked[1].share - ranked[2].share

-----------------------------------------------------------------------------
(* A finding's fingerprint has the candidates in their order.              *)
Positions(ranked) ==
    [i \in DOMAIN ranked |-> [value |-> ranked[i].value, sources |-> ranked[i].sources]]

(* detect_contested_state.                                                 *)
ContestedState(ranked, known) ==
    /\ "margin" \in known
    /\ Len(ranked) > 1 /\ selection_margin(ranked) <= Threshold

FindingTypes(O, ranked, known) ==
    {x.type : x \in Findings(O)}
        \cup (IF ContestedState(ranked, known) THEN {"contested_state"} ELSE {})

(* Mutant: a winner that leads by more than the threshold is confirmed.    *)
StatusByMargin(O, ranked, known) ==
    IF ContestedState(ranked, known) THEN "contested" ELSE "confirmed"

(* Only what nothing disagrees with is confirmed, however clear it leads.  *)
ScoredStatus(O, ranked, known) ==
    IF Len(ranked) = 1 /\ FindingTypes(O, ranked, known) = {} THEN "confirmed"
    ELSE "contested"

(* _build_evidence.                                                        *)
ScoredRole(O, winner, o) ==
    IF o \notin Eligible(O) THEN "excluded"
    ELSE IF o.value = winner.value THEN "supporting" ELSE "dissenting"

-----------------------------------------------------------------------------
(* Each source of the winner closes a part of the doubt that is left, and  *)
(* one part of a hundred is never closed.                                  *)
Ceiling(sources) ==
    LET doubt == FoldSet(LAMBDA s, d : (d * (Unit - Reliability[s])) \div Unit,
                         Digits, sources)
    IN  Min({Digits - doubt, Digits - Digits \div 100})

Mean(f, S) == (MapThenSumSet(LAMBDA x : f[x], S) * Digits) \div (Unit * Cardinality(S))

(* Freshness and quality are those of everything that was eligible.        *)
Base(O, asOf, winner) ==
    ( 40 * Mean(Reliability, winner.sources)
    + 30 * Mean([o \in O |-> Freshness[Age(o, asOf)]], Eligible(O))
    + 15 * Mean([o \in O |-> Quality[o.source]], Eligible(O))
    + 15 * Agreement(winner.share, Cardinality(Candidates(O))) ) \div 100

apply_penalties(score) ==
    FoldLeft(LAMBDA x, multiplier : (x * multiplier) \div Unit, score, Penalties)

calculate_confidence(O, asOf, winner, known) ==
    IF ~{"agreement", "penalties"} \subseteq known THEN NoValue
    ELSE Min({apply_penalties((Ceiling(winner.sources) * Base(O, asOf, winner)) \div Digits),
              Digits - Digits \div 100})

-----------------------------------------------------------------------------
(* calculate, as far as it differs, of observations that can be weighted.  *)
Score(O, asOf, known) ==
    LET ranked == Ranked(O, asOf)
        winner == ranked[1]
    IN  [status |-> ScoredStatus(O, ranked, known), value |-> winner.value,
         validFrom |-> winner.latest, types |-> FindingTypes(O, ranked, known),
         evidence |-> {[observation |-> o, role |-> ScoredRole(O, winner, o)] : o \in O},
         confidence |-> calculate_confidence(O, asOf, winner, known)]
=============================================================================
