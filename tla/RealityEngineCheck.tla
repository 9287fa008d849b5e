------------------------- MODULE RealityEngineCheck -------------------------
(***************************************************************************)
(* The engine over every small set of observations: they arrive one after  *)
(* the other, in every order, and the engine is asked after each.          *)
(***************************************************************************)
EXTENDS RealityEngine

CONSTANT Observations    \* those that may arrive

ASSUME EngineAssumption ==
    \A o \in Observations : o.id \in Nat /\ o.event \in Nat /\ o.ingested \in Nat

VARIABLE given           \* the observations so far

Init == given = {}

Arrive(o) ==
    /\ \A p \in given : p.id # o.id
    /\ given' = given \cup {o}

Next == \E o \in Observations : Arrive(o)

Spec == Init /\ [][Next]_given

-----------------------------------------------------------------------------
(* A source speaks with one voice: it backs one candidate at most, however *)
(* many rows and tables of it state the attribute.                         *)
OneVoicePerSource ==
    \A c, d \in Candidates(given) : c # d => c.sources \cap d.sources = {}

(* A value is selected only if the latest word of every source that spoke  *)
(* validly is that value; otherwise two sources at least disagree.         *)
UnanimousOrContested ==
    /\ Selects(given) =>
          \A o \in given : o.valid /\ (\A p \in given : ~Supersedes(p, o))
              => o.value = Value(given)
    /\ Status(given) = "contested" =>
          \E o, p \in given : o.source # p.source /\ o.value # p.value

(* A late arrival, which states less than its source has since said,       *)
(* changes nothing that is believed and raises no conflict.                *)
Late(o) == \E p \in given : p.source = o.source /\ p.event > o.event

BackfillIsInert ==
    [][\A o \in given' \ given : Late(o) =>
          /\ Status(given') = Status(given)
          /\ Value(given') = Value(given)
          /\ Findings(given') = Findings(given)]_given

(* What was read of a later moment, or of the same moment afterwards.      *)
Corrects(o, p) ==
    p.event < o.event \/ (p.event = o.event /\ p.ingested < o.ingested)

(* A source that is heard anew, validly, is heard: a statement about a     *)
(* later moment than all its earlier ones, or a correction of the same     *)
(* moment, is one of the candidates, whatever the earlier ones were        *)
(* (engine/selection.py, latest_per_source).                               *)
CorrectionCounts ==
    [][\A o \in given' \ given :
          o.valid /\ (\A p \in given : p.source = o.source => Corrects(o, p))
              => \E c \in Candidates(given') :
                    c.value = o.value /\ o.source \in c.sources]_given

(* What a source withdrew by an invalid statement does not come back.      *)
InvalidSilences ==
    \A o \in given : ~o.valid /\ (\A p \in given : ~Supersedes(p, o))
        => \A c \in Candidates(given) : o.source \notin c.sources

-----------------------------------------------------------------------------
(* Statements of documents and comments that the code does not keep, which *)
(* TLC refutes in the instances README.md names.                           *)

(* Sources are reported as disagreeing when they do so repeatedly: a       *)
(* single divergence of two single statements is not such a pattern.       *)
DisagreementIsAPattern ==
    SourceDisagreement(given) # {} => Cardinality(given) > 2
=============================================================================
