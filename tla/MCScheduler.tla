---------------------------- MODULE MCScheduler ----------------------------
(* Small instances of Scheduler for TLC.                                   *)
EXTENDS SchedulerSafety, TLC

OneSource == {1}
TwoSources == {1, 2}
TwoStreams == {1, 2}
SameOwner == [s \in Streams |-> 1]
OwnOwner == [s \in Streams |-> s]
ShortAndLong == {1, 2}
Long == {2}

Turmoil ==
    {"raise", "crash", "manual", "repoll", "configure", "delete"}
Outages == {"break", "manual", "switch"}

InstanceSymmetry == Permutations(Instances)
=============================================================================
