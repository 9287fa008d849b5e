------------------------------ MODULE Records ------------------------------
(***************************************************************************)
(* From what a database holds to what an observation states: the value     *)
(* that the driver delivers, the connector's record, the canonical form.   *)
(*                                                                         *)
(* A fact is what a cell holds: a type, a number that stands for the       *)
(* content (for times, the moment) and the scale it is written with. A     *)
(* rendering stands for its text by format, content and scale: two are     *)
(* equal if, and only if, the texts are.                                   *)
(***************************************************************************)
EXTENDS Integers

CONSTANT Null      \* no value, in the database and in the payload

Fact(type, is, scale) == [type |-> type, is |-> is, scale |-> scale]

TypesOfTimes == {"timestamp", "timestamptz", "date"}

(* The column types that discovery offers for event times.                 *)
TEMPORAL_TYPE_PREFIXES == {"timestamp", "timestamptz", "date"}

(* What psycopg and aiomysql deliver. zone is that of the server's session: *)
(* PostgreSQL tells it with the time, MySQL converts and does not tell.    *)
Class(kind, type) ==
    CASE type = "boolean" -> IF kind = "mysql" THEN "int" ELSE "bool"
      [] type = "integer" -> "int"
      [] type = "numeric" -> "Decimal"
      [] type = "text"    -> "str"
      [] type = "binary"  -> "bytes"
      [] type = "date"    -> "date"
      [] OTHER            -> "datetime"

Aware(kind, type) == kind = "postgresql" /\ type = "timestamptz"

Driver(kind, zone, fact) ==
    [class |-> Class(kind, fact.type), scale |-> fact.scale,
     is    |-> IF fact.type = "timestamptz" THEN fact.is + zone ELSE fact.is,
     offset |-> IF Aware(kind, fact.type) THEN zone ELSE Null]

-----------------------------------------------------------------------------
(* A time that does not tell its offset is taken for UTC.                  *)
InUTC(v) == IF v.offset = Null THEN v.is ELSE v.is - v.offset

Text(format, is, scale) == [json |-> "string", format |-> format, is |-> is, scale |-> scale]
Plain(json, is, scale) == [json |-> json, format |-> "plain", is |-> is, scale |-> scale]

(* _coerce: MySQL's binary values are text if they are UTF-8, which those   *)
(* with an even number are here, and hex otherwise. Others stay.           *)
Coerce(kind, v) ==
    IF kind # "mysql" \/ v.class # "bytes" THEN v
    ELSE [v EXCEPT !.class = IF v.is % 2 = 0 THEN "str" ELSE "hex"]

(* _normalize_datetime. Mutant: the offset is kept.                        *)
LocalTime(v) == Text("iso", v.is, 0)
UTCTime(v) == Text("iso", InUTC(v), 0)

(* str of a Decimal keeps the scale.                                       *)
AsDecimal(v) == Plain("string", v.is, v.scale)

(* normalize_value, of the values that stay as they are and of the others. *)
Normalize(v) ==
    CASE v.class = "bool"     -> Plain("boolean", v.is, 0)
      [] v.class = "int"      -> Plain("number", v.is, 0)
      [] v.class = "Decimal"  -> AsDecimal(v)
      [] v.class = "str"      -> Plain("string", v.is, 0)
      [] v.class = "hex"      -> Text("hex", v.is, 0)
      [] v.class = "bytes"    -> Text("base64", v.is, 0)
      [] v.class = "datetime" -> UTCTime(v)
      [] v.class = "date"     -> Text("day", v.is, 0)

Canonical(kind, zone, fact) ==
    IF fact = Null THEN Null ELSE Normalize(Coerce(kind, Driver(kind, zone, fact)))

-----------------------------------------------------------------------------
(* _to_record: a MySQL day begins at midnight UTC; PostgreSQL's, or NULL,  *)
(* is no event time.                                                       *)
EventTime(kind, zone, fact) ==
    IF fact = Null THEN Null
    ELSE LET v == Driver(kind, zone, fact) IN
         CASE v.class = "datetime" -> InUTC(v)
           [] v.class = "date" /\ kind = "mysql" -> v.is
           [] OTHER -> Null

(* _resolve_event_time: without one the ingestion time stands in where the *)
(* stream says so, and the stream fails where it does not.                 *)
Resolved(time, fallback, ingested) ==
    IF time # Null THEN {time} ELSE IF fallback THEN {ingested} ELSE {}

(* The observation of a row that a source holds, if it is one.             *)
Observe(kind, zone, row, fallback, id, ingested, valid) ==
    {[id |-> id, source |-> <<kind, zone>>, event |-> t, ingested |-> ingested, valid |-> valid,
      value |-> Canonical(kind, zone, row.states), states |-> row.states] :
         t \in Resolved(EventTime(kind, zone, row.at), fallback, ingested)}
=============================================================================
