----------------------------- MODULE MCReadings -----------------------------
(* A small instance of Readings for TLC.                                   *)
EXTENDS Readings, TLC

Three == 1 .. 3
Two == 1 .. 2

(* A number written with one digit and with two, and a moment.             *)
ThreeFacts ==
    {Fact("numeric", 25, 1), Fact("numeric", 25, 2), Fact("timestamptz", 2, 0)}

WithNull == ThreeFacts \cup {Null}

(* Nobody tells the future. What an invalid statement says makes no         *)
(* difference: it is the moment.                                           *)
PastOnes ==
    {o \in ReadObservations : /\ o.event <= o.ingested
                              /\ o.valid \/ o.states = Fact("timestamptz", 2, 0)}

(* Every type once, binary content that is UTF-8 and that is not.          *)
EveryType ==
    {Fact("integer", 1, 0), Fact("boolean", 1, 0), Fact("text", 1, 0),
     Fact("binary", 2, 0), Fact("binary", 3, 0), Fact("date", 1, 0),
     Fact("timestamp", 1, 0)}

ThreeServers == {<<"postgresql", 0>>, <<"postgresql", 1>>, <<"mysql", 0>>}

(* A specification of scoring.                                             *)
Later == {2, 3}
Specs == {Everything, {"freshness", "quality"}}
Declared == [s \in ThreeServers |-> IF s[1] = "mysql" THEN 8 ELSE 6 - s[2]]
Full == [s \in ThreeServers |-> 10]
Ranks == [s \in ThreeServers |-> IF s[1] = "mysql" THEN 2 ELSE 1]
Decay == [age \in 0 .. 2 |-> <<10, 7, 6>>[age + 1]]
Alike(share, n) == IF n = 1 THEN 1000 ELSE share
NoPenalty == <<10, 10, 10, 9>>

(* The canonical renderings, in some order.                                *)
Renderings == {Canonical(s[1], s[2], f) : s \in ThreeServers, f \in Cells}
Place(v) ==
    1000 * [iso |-> 1, hex |-> 2, base64 |-> 3, day |-> 4, plain |-> 5][v.format]
        + 300 * [string |-> 0, number |-> 1, boolean |-> 2][v.json]
        + 10 * v.is + v.scale
Order == [v \in Renderings |-> IF v = Null THEN 0 ELSE Place(v)]
=============================================================================
