------------------------------ MODULE RateLimit ------------------------------
(***************************************************************************)
(* The sliding window of one policy and identity: a sorted set of attempts *)
(* in Redis. An attempt reads the clock of its process and sends one       *)
(* pipeline, which Redis executes as one: at most Delay later, other       *)
(* attempts with a later clock may have come first.                        *)
(***************************************************************************)
EXTENDS Integers, FiniteSets

CONSTANTS
    MaxAttempts, Window,   \* the policy
    Delay,                 \* from reading the clock to the execution, at most
    MaxTries, MaxTime      \* bounds: attempts, and the clock

ASSUME RateLimitAssumption ==
    /\ MaxAttempts \in Nat \ {0} /\ Window \in Nat \ {0}
    /\ Delay \in Nat /\ Delay <= Window
    /\ MaxTries \in Nat /\ MaxTime \in Nat

VARIABLES
    now,        \* the clock
    log,        \* the sorted set: an id of its own and a score per attempt
    tries,      \* attempts so far
    admitted    \* those that the count allowed, since Redis last lost its data

limiter == <<log, tries, admitted>>
rateVars == <<now, log, tries, admitted>>

-----------------------------------------------------------------------------
(* What the eviction at t leaves, which is what is counted.                *)
(* Mutant: the window is a fixed one, which begins at a multiple of it.    *)
CountedInFixed(t) == {a \in log : a.at \div Window = t \div Window}
Counted(t) == {a \in log : a.at + Window > t}

Attempt(t) == [id |-> tries, at |-> t]

(* check, with the clock at t: evict, count, record, in one transaction.   *)
Execute(t) ==
    /\ tries < MaxTries
    /\ t <= now /\ now <= t + Delay
    /\ log' = Counted(t) \cup {Attempt(t)}
    /\ tries' = tries + 1

Admit(t) ==
    /\ Execute(t)
    /\ Cardinality(Counted(t)) < MaxAttempts
    /\ admitted' = admitted \cup {Attempt(t)}

Refuse(t) ==
    /\ Execute(t)
    /\ Cardinality(Counted(t)) >= MaxAttempts
    /\ UNCHANGED admitted

(* Redis does not answer, whether it executed the transaction or not: the  *)
(* attempt is allowed, by the failure and not by the count.                *)
Degrade(t) ==
    /\ Execute(t)
    /\ UNCHANGED admitted

(* The key expires when the window has passed since the last attempt.      *)
KeyExpires ==
    /\ log # {} /\ \A a \in log : a.at + Window < now
    /\ log' = {}
    /\ UNCHANGED <<tries, admitted>>

(* Redis restarts without its data, and counts from nothing.               *)
RedisRestarts ==
    /\ log # {}
    /\ log' = {} /\ admitted' = {}
    /\ UNCHANGED tries

(* What a refused client is told: when the oldest attempt leaves.          *)
Oldest == CHOOSE x \in {a.at : a \in log} : \A a \in log : x <= a.at
RetryAfter(t) ==
    IF log = {} THEN 1
    ELSE LET left == Window - (t - Oldest) + 1 IN IF left > 1 THEN left ELSE 1

-----------------------------------------------------------------------------
LimiterInit == log = {} /\ tries = 0 /\ admitted = {}
LimiterTick ==
    /\ now < MaxTime
    /\ now' = now + 1
    /\ UNCHANGED limiter

LimiterNext ==
    \/ \E t \in 0 .. now : Admit(t) \/ Refuse(t) \/ Degrade(t)
    \/ KeyExpires
    \/ RedisRestarts

RateInit == now = 0 /\ LimiterInit
RateNext == LimiterTick \/ (LimiterNext /\ UNCHANGED now)
RateSpec == RateInit /\ [][RateNext]_rateVars

-----------------------------------------------------------------------------
(* However attempts overtake each other, no stretch of time as long as the *)
(* window, less the delay, has more attempts that were allowed than the    *)
(* policy says: not even across the boundary of a window                   *)
(* (services/rate_limit.py, check).                                        *)
AdmittedWithin(x) == {a \in admitted : a.at <= x /\ x < a.at + (Window - Delay)}
WindowHolds == \A x \in 0 .. now : Cardinality(AdmittedWithin(x)) <= MaxAttempts

(* Refuted: after a refusal, the time that the client is told brings       *)
(* capacity back if nobody else tries.                                     *)
RetryAfterIsHonest ==
    [][tries' # tries /\ admitted' = admitted =>
          Cardinality({a \in log' : a.at + Window > now + RetryAfter(now)'})
              < MaxAttempts]_rateVars
=============================================================================
