--------------------------- MODULE RateLimitProofs ---------------------------
(***************************************************************************)
(* The window of RateLimit holds for every policy, delay and number of     *)
(* attempts. The argument: an admitted attempt whose window is not over is *)
(* still in the log, so that a later one counts it, however late the       *)
(* transactions are executed.                                              *)
(***************************************************************************)
EXTENDS RateLimit, FiniteSetTheorems, TLAPS

AttemptSet == [id : Nat, at : Nat]

LimiterTypeOK ==
    /\ now \in Nat /\ tries \in Nat
    /\ log \subseteq AttemptSet /\ IsFiniteSet(log)
    /\ admitted \subseteq AttemptSet /\ IsFiniteSet(admitted)

(* What was admitted and may still count is counted.                       *)
Remembered == \A a \in admitted : a.at + Window > now => a \in log

(* WindowHolds, at every moment that there may be.                         *)
WindowHoldsAlways == \A x \in Nat : Cardinality(AdmittedWithin(x)) <= MaxAttempts

LimiterInv == LimiterTypeOK /\ Remembered /\ WindowHoldsAlways

LEMMA PolicyFacts ==
    /\ MaxAttempts \in Nat /\ MaxAttempts > 0 /\ Window \in Nat /\ Window > 0
    /\ Delay \in Nat /\ Delay <= Window
BY RateLimitAssumption

-----------------------------------------------------------------------------
(* An execution leaves of the log what still counts, and adds one attempt. *)
LEMMA ExecuteTypes ==
    ASSUME LimiterTypeOK, NEW t \in 0 .. now, Execute(t)
    PROVE  /\ t \in Nat /\ t <= now /\ now <= t + Delay
           /\ Attempt(t) \in AttemptSet
           /\ tries' \in Nat
           /\ log' \subseteq AttemptSet /\ IsFiniteSet(log')
           /\ Counted(t) \subseteq log /\ IsFiniteSet(Counted(t))
<1>1. t \in Nat /\ t <= now /\ now <= t + Delay
  BY DEF LimiterTypeOK, Execute
<1>2. Attempt(t) \in AttemptSet /\ tries' \in Nat
  BY <1>1 DEF LimiterTypeOK, Execute, Attempt, AttemptSet
<1>3. Counted(t) \in SUBSET log
  BY DEF Counted
<1>4. IsFiniteSet(Counted(t))
  BY <1>3, FS_Subset DEF LimiterTypeOK
<1>5. IsFiniteSet(Counted(t) \cup {Attempt(t)})
  BY <1>4, FS_AddElement
<1> QED BY <1>1, <1>2, <1>3, <1>4, <1>5 DEF LimiterTypeOK, Execute

(* No attempt is forgotten while its window lasts.                         *)
LEMMA ExecuteRemembers ==
    ASSUME LimiterTypeOK, Remembered, NEW t \in 0 .. now, Execute(t),
           NEW a \in admitted, a.at + Window > now
    PROVE  a \in Counted(t) /\ a \in log'
<1>1. a \in log /\ a \in AttemptSet
  BY DEF Remembered, LimiterTypeOK
<1>2. a.at + Window > t
  BY <1>1, ExecuteTypes, PolicyFacts DEF LimiterTypeOK, AttemptSet
<1> QED BY <1>1, <1>2 DEF Counted, Execute

(* What a moment finds admitted is finite.                                 *)
LEMMA WithinFinite ==
    ASSUME IsFiniteSet(admitted), NEW x
    PROVE  IsFiniteSet(AdmittedWithin(x)) /\ Cardinality(AdmittedWithin(x)) \in Nat
<1>1. AdmittedWithin(x) \in SUBSET admitted
  BY DEF AdmittedWithin
<1> QED BY <1>1, FS_Subset, FS_CardinalityType

(* Where fewer than the policy says are counted, one more may be admitted. *)
LEMMA AdmitKeepsWindow ==
    ASSUME LimiterInv, NEW t \in 0 .. now, Admit(t), NEW x \in Nat
    PROVE  Cardinality(AdmittedWithin(x)') <= MaxAttempts
<1> DEFINE new == Attempt(t)
<1> DEFINE old == AdmittedWithin(x)
<1>1. Execute(t) /\ admitted' = admitted \cup {new}
  BY DEF Admit
<1>2. t \in Nat /\ t <= now /\ now <= t + Delay /\ IsFiniteSet(Counted(t))
  BY <1>1, ExecuteTypes DEF LimiterInv
<1>3. IsFiniteSet(old) /\ Cardinality(old) \in Nat /\ Cardinality(old) <= MaxAttempts
  BY WithinFinite DEF LimiterInv, LimiterTypeOK, WindowHoldsAlways
<1>4. CASE new.at <= x /\ x < new.at + (Window - Delay)
  <2>1. AdmittedWithin(x)' = old \cup {new}
    BY <1>1, <1>4 DEF AdmittedWithin
  <2>2. ASSUME NEW a \in old PROVE a \in Counted(t)
    <3>1. a \in admitted /\ a \in AttemptSet /\ x < a.at + (Window - Delay)
      BY DEF AdmittedWithin, LimiterInv, LimiterTypeOK
    <3>2. a.at + Window > now
      BY <3>1, <1>2, <1>4, PolicyFacts DEF Attempt, AttemptSet, LimiterInv, LimiterTypeOK
    <3> QED BY <3>1, <3>2, <1>1, ExecuteRemembers DEF LimiterInv
  <2>3. old \in SUBSET Counted(t)
    BY <2>2
  <2>4. Cardinality(old) <= Cardinality(Counted(t)) /\ Cardinality(Counted(t)) \in Nat
    BY <2>3, <1>2, FS_Subset, FS_CardinalityType
  <2>5. Cardinality(Counted(t)) < MaxAttempts
    BY DEF Admit
  <2>6. Cardinality(old \cup {new}) <= Cardinality(old) + 1
    BY <1>3, FS_AddElement
  <2>7. Cardinality(old \cup {new}) \in Nat
    BY <1>3, FS_AddElement, FS_CardinalityType
  <2> QED BY <2>1, <2>4, <2>5, <2>6, <2>7, <1>3, PolicyFacts
<1>5. CASE ~(new.at <= x /\ x < new.at + (Window - Delay))
  <2>1. AdmittedWithin(x)' = old
    BY <1>1, <1>5 DEF AdmittedWithin
  <2> QED BY <2>1, <1>3
<1> QED BY <1>4, <1>5

-----------------------------------------------------------------------------
(* Every step keeps the invariant.                                         *)
LEMMA LimiterStep ==
    ASSUME LimiterInv, [RateNext]_rateVars
    PROVE  LimiterInv'
<1> USE DEF LimiterInv
<1>1. CASE LimiterTick
  <2>1. log' = log /\ tries' = tries /\ admitted' = admitted /\ now' = now + 1
    BY <1>1 DEF LimiterTick, limiter
  <2>2. Remembered'
    <3> SUFFICES ASSUME NEW a \in admitted, a.at + Window > now + 1 PROVE a \in log
      BY <2>1 DEF Remembered
    <3>1. a.at \in Nat /\ now \in Nat
      BY DEF LimiterTypeOK, AttemptSet
    <3> QED BY <3>1, PolicyFacts DEF Remembered
  <2>3. WindowHoldsAlways'
    BY <2>1 DEF WindowHoldsAlways, AdmittedWithin
  <2> QED BY <2>1, <2>2, <2>3 DEF LimiterTypeOK
<1>2. ASSUME NEW t \in 0 .. now, Admit(t), now' = now PROVE LimiterInv'
  <2>1. Execute(t) /\ admitted' = admitted \cup {Attempt(t)}
    BY <1>2 DEF Admit
  <2>2. LimiterTypeOK'
    <3>1. IsFiniteSet(admitted')
      BY <2>1, FS_AddElement DEF LimiterTypeOK
    <3> QED BY <1>2, <2>1, <3>1, ExecuteTypes DEF LimiterTypeOK
  <2>3. Remembered'
    <3> SUFFICES ASSUME NEW a \in admitted', a.at + Window > now PROVE a \in log'
      BY <1>2 DEF Remembered
    <3>1. CASE a \in admitted
      BY <3>1, <2>1, ExecuteRemembers
    <3>2. CASE a = Attempt(t)
      BY <3>2, <2>1 DEF Execute
    <3> QED BY <3>1, <3>2, <2>1
  <2>4. WindowHoldsAlways'
    BY <1>2, AdmitKeepsWindow DEF WindowHoldsAlways
  <2> QED BY <2>2, <2>3, <2>4
<1>3. ASSUME NEW t \in 0 .. now, Refuse(t) \/ Degrade(t), now' = now PROVE LimiterInv'
  <2>1. Execute(t) /\ admitted' = admitted
    BY <1>3 DEF Refuse, Degrade
  <2>2. LimiterTypeOK'
    BY <1>3, <2>1, ExecuteTypes DEF LimiterTypeOK
  <2>3. Remembered'
    BY <1>3, <2>1, ExecuteRemembers DEF Remembered
  <2>4. WindowHoldsAlways'
    BY <2>1 DEF WindowHoldsAlways, AdmittedWithin
  <2> QED BY <2>2, <2>3, <2>4
<1>4. CASE KeyExpires /\ now' = now
  <2>1. log' = {} /\ tries' = tries /\ admitted' = admitted
    BY <1>4 DEF KeyExpires
  <2>2. LimiterTypeOK'
    BY <1>4, <2>1, FS_EmptySet DEF LimiterTypeOK
  <2>3. Remembered'
    <3> SUFFICES ASSUME NEW a \in admitted, a.at + Window > now PROVE FALSE
      BY <1>4, <2>1 DEF Remembered
    <3>1. a \in log /\ a \in AttemptSet
      BY DEF Remembered, LimiterTypeOK
    <3> QED BY <3>1, <1>4, PolicyFacts DEF KeyExpires, LimiterTypeOK, AttemptSet
  <2>4. WindowHoldsAlways'
    BY <2>1 DEF WindowHoldsAlways, AdmittedWithin
  <2> QED BY <2>2, <2>3, <2>4
<1>5. CASE RedisRestarts /\ now' = now
  <2>1. log' = {} /\ tries' = tries /\ admitted' = {}
    BY <1>5 DEF RedisRestarts
  <2>2. LimiterTypeOK'
    BY <1>5, <2>1, FS_EmptySet DEF LimiterTypeOK
  <2>3. WindowHoldsAlways'
    <3> SUFFICES ASSUME NEW x \in Nat PROVE Cardinality(AdmittedWithin(x)') <= MaxAttempts
      BY DEF WindowHoldsAlways
    <3>1. AdmittedWithin(x)' = {}
      BY <2>1 DEF AdmittedWithin
    <3> QED BY <3>1, FS_EmptySet, PolicyFacts
  <2> QED BY <2>1, <2>2, <2>3 DEF Remembered
<1>6. CASE UNCHANGED rateVars
  BY <1>6 DEF rateVars, LimiterTypeOK, Remembered, WindowHoldsAlways, AdmittedWithin
<1> QED BY <1>1, <1>2, <1>3, <1>4, <1>5, <1>6 DEF RateNext, LimiterNext

(* No stretch of time as long as the window, less the delay, sees more     *)
(* attempts allowed by the count than the policy says, however they        *)
(* overtake each other (services/rate_limit.py, check).                    *)
THEOREM WindowHoldsInAnyWindow == RateSpec => []WindowHolds
<1>1. RateInit => LimiterInv
  <2> SUFFICES ASSUME RateInit PROVE LimiterInv
    OBVIOUS
  <2>1. now = 0 /\ log = {} /\ tries = 0 /\ admitted = {}
    BY DEF RateInit, LimiterInit
  <2>2. LimiterTypeOK /\ Remembered
    BY <2>1, FS_EmptySet DEF LimiterTypeOK, Remembered
  <2>3. \A x \in Nat : AdmittedWithin(x) = {}
    BY <2>1 DEF AdmittedWithin
  <2> QED BY <2>2, <2>3, FS_EmptySet, PolicyFacts DEF LimiterInv, WindowHoldsAlways
<1>2. LimiterInv /\ [RateNext]_rateVars => LimiterInv'
  BY LimiterStep
<1>3. LimiterInv => WindowHolds
  <2> SUFFICES ASSUME LimiterInv, NEW x \in 0 .. now
               PROVE  Cardinality(AdmittedWithin(x)) <= MaxAttempts
    BY DEF WindowHolds
  <2>1. x \in Nat
    BY DEF LimiterInv, LimiterTypeOK
  <2> QED BY <2>1 DEF LimiterInv, WindowHoldsAlways
<1> QED BY <1>1, <1>2, <1>3, PTL DEF RateSpec
=============================================================================
