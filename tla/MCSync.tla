------------------------------- MODULE MCSync -------------------------------
(* Small instances of Sync for TLC.                                        *)
EXTENDS SyncSafety, TLC

OneStream == {1}
TwoStreams == {1, 2}
OneRow == {1}
TwoRows == {1, 2}
NoStreams == {}
NoRows == {}
LatestOfSecond == {[pk |-> 2, ver |-> 2]}

AllStreams == {Streams}
AllOrSecond == {Streams, {2}}
Incremental == {TRUE}

CleanEvents == {"write", "remove", "crash", "connect", "stream", "unexpected", "delete"}
StreamEvents == {"stream", "delete"}
RetimeEvents == {"write", "retime", "crash", "delete"}
RemoveEvents == {"write", "remove"}
DeleteEvents == {"delete"}

ConnSymmetry == Permutations(Conns) \cup Permutations(Keys)
=============================================================================
