--------------------------- MODULE RealitySafety ---------------------------
(***************************************************************************)
(* What is required of Reality.                                            *)
(***************************************************************************)
EXTENDS Reality

Values == UNION {{What[f].payload[a] : a \in DOMAIN What[f].payload} : f \in Facts}
Kept(a) == {e.id : e \in evidence[a]}

(* Where nothing can be used nothing is selected.                          *)
StateRow ==
    {s \in [status : Statuses, value : Values \cup {NoValue}, selected : BOOLEAN,
             validFrom : Nat, calculatedAt : Times, supporting : Nat,
             dissenting : Nat] : s.status = "unknown" => ~s.selected}
EvidenceRow == [id : Facts, role : Roles]

(* What stands for no row of a state is none.                              *)
ASSUME NoStateIsNoRow == NoState \notin StateRow

Position == [value : Values, sources : SUBSET {Source[s] : s \in Streams}]
ConflictRow ==
    [attribute : Attributes, type : ConflictTypes, positions : SUBSET Position,
     status : Decisions, linked : BOOLEAN, detected : Times, lastSeen : Times]

(* The types of the state.                                                 *)
TypeOK ==
    /\ now \in Times
    /\ ingested \in [Facts -> Times]
    /\ arriving \subseteq Facts
    /\ stored \subseteq Facts
    /\ retired \subseteq Streams
    /\ mapped \subseteq Rows
    /\ known \in BOOLEAN
    /\ work \in [Workers -> [phase : Reading \cup {"idle", "begun"}, asOf : Times,
                             seen : SUBSET Facts]]
    /\ states \in [Attributes -> StateRow \cup {NoState}]
    /\ evidence \in [Attributes -> SUBSET EvidenceRow]
    /\ conflicts \subseteq ConflictRow

(* A state and its evidence come from one calculation: unless observations *)
(* were deleted since, the evidence is of the observations from which the  *)
(* engine derives that very state, in the roles it gives them. No mixture  *)
(* of two recalculations is ever seen.                                     *)
Unharmed(a) ==
    \A f \in Facts : Stream(f) \in retired => a \notin DOMAIN What[f].payload

OneCalculation ==
    \A a \in Attributes : Unharmed(a) /\ known =>
        /\ states[a] = StateFrom(Kept(a), a,
              IF states[a] = NoState THEN 0 ELSE states[a].calculatedAt)
        /\ evidence[a] = EvidenceOf(Inputs(Kept(a), a))

(* The conflicts linked to a state are those of its calculation, so it is  *)
(* contested exactly if a linked conflict says between which values.       *)
Linked(a) == {Finding(c) : c \in {d \in OnAttribute(a) : d.linked}}

ConflictsMatchStates ==
    \A a \in Attributes :
        /\ Unharmed(a) => Linked(a) = Findings(Inputs(Kept(a), a))
        /\ known => (Linked(a) # {} <=>
                        states[a] # NoState /\ states[a].status = "contested")

(* One disagreement is one conflict, however often and by whomever it is   *)
(* detected.                                                               *)
OneConflictPerDisagreement ==
    \A c, d \in conflicts :
        c.attribute = d.attribute /\ Finding(c) = Finding(d) => c = d

(* What a person decided about a conflict stands, and the conflict stays,  *)
(* whatever recalculations detect later.                                   *)
DecisionsStand ==
    [][work' # work =>
          \A c \in conflicts : \E d \in conflicts' :
              /\ d.attribute = c.attribute /\ Finding(d) = Finding(c)
              /\ d.status = c.status /\ d.detected = c.detected]_vars

(* The answer for a past moment changes only if mappings or deletions      *)
(* change what belongs to the entity, or a sync that had read by then      *)
(* commits.                                                                *)
PastIsSettled ==
    [][observed' # observed =>
          \A t \in 0 .. now - 1 :
              AsOf(t)' # AsOf(t) =>
                  \/ mapped' # mapped
                  \/ retired' # retired
                  \/ \E f \in arriving : ingested[f] <= t]_vars

-----------------------------------------------------------------------------
(* Statements of documents and comments that the code does not keep, which *)
(* TLC refutes in the instances README.md names.                           *)

(* No claim without an explanation: a value that is believed is supported  *)
(* by an observation in its evidence.                                      *)
Explained ==
    \A a \in Attributes : states[a] # NoState /\ states[a].selected =>
        \E e \in evidence[a] : e.role = "supporting"

(* States are derived: when a recalculation over the observations there    *)
(* are commits, every state is what recalculating from nothing would give. *)
DerivedFromObservations ==
    [][\A w \in Workers : Commit(w) /\ work[w].seen = Resolved =>
          \A a \in Attributes :
              states'[a] = StateFrom(Resolved, a, work[w].asOf)]_vars

(* The table is the present tense: a state is not replaced by an older one. *)
PresentTense ==
    [][\A a \in Attributes :
          states[a] # NoState /\ states'[a] # NoState =>
              states[a].calculatedAt <= states'[a].calculatedAt]_vars

(* One question about the past has one answer, while nobody changes what   *)
(* belongs to the entity.                                                  *)
AnswersRepeat ==
    [][mapped' = mapped /\ retired' = retired =>
          \A t \in 0 .. now - 1 : AsOf(t)' = AsOf(t)]_vars

(* An attribute has one open conflict of a type.                           *)
OneOpenConflict ==
    \A c, d \in conflicts :
        /\ c.attribute = d.attribute /\ c.type = d.type
        /\ c.status = "open" /\ d.status = "open"
        => c = d
=============================================================================
