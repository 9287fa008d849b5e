----------------------------- MODULE MCReality -----------------------------
(***************************************************************************)
(* Small instances of Reality for TLC: two sources of a stream each, whose *)
(* one row states quantity and, in one version, site.                      *)
(***************************************************************************)
EXTENDS RealitySafety, TLC

Fact(stream, row, event, payload) ==
    [stream |-> stream, row |-> row, event |-> event, payload |-> payload]

Three == 1 .. 3
Reports ==
    << Fact("stock", "stock.1", 0, [quantity |-> 1, site |-> 5]),
       Fact("orders", "orders.1", 0, [quantity |-> 2]),
       Fact("stock", "stock.1", 1, [quantity |-> 2]) >>

(* The disagreement of the two changes, and never ends.                    *)
Disputes ==
    << Fact("stock", "stock.1", 0, [quantity |-> 1]),
       Fact("orders", "orders.1", 0, [quantity |-> 2]),
       Fact("stock", "stock.1", 1, [quantity |-> 3]) >>

OwnSource == [s \in {"stock", "orders"} |-> s]
Fields == {"quantity", "site"}
Removals == {"delete", "forget", "fail"}
Regroupings == {"map", "delete", "decide"}
Deletes == {"delete"}
Quiet == {}

WorkerSymmetry == Permutations(Workers)
=============================================================================
