---------------------------- MODULE IngestLedger ----------------------------
(***************************************************************************)
(* What ingestion promises its readers, whatever runs concurrently: a      *)
(* ledger of facts, each stated once per stream, that only grows while its *)
(* stream exists; and at most one answer per idempotency key, which        *)
(* appears together with every fact it brought and never changes.          *)
(***************************************************************************)
CONSTANTS Keys, Streams

VARIABLES
    log,       \* entries [stream, fact, run]
    answer     \* answer[k]: the answer of key k, or NoAnswer

CONSTANT NoAnswer

ledger == <<log, answer>>

Stated(S) == {<<e.stream, e.fact>> : e \in S}

Once(S) == \A e, f \in S : e.stream = f.stream /\ e.fact = f.fact => e = f

Init == /\ log = {}
        /\ answer = [k \in Keys |-> NoAnswer]

(* A run is answered and its facts are entered, in one step.               *)
Enter(k, S) ==
    /\ answer[k] = NoAnswer
    /\ answer'[k] # NoAnswer
    /\ \A j \in Keys \ {k} : answer'[j] = answer[j]
    /\ \A e \in S : e.run = k
    /\ Stated(S) \cap Stated(log) = {}
    /\ Once(S)
    /\ log' = log \cup S

(* A stream is retired with its facts, and with the answers that were      *)
(* about it alone.                                                         *)
Retire(s) ==
    /\ log' = {e \in log : e.stream # s}
    /\ \A k \in Keys :
          \/ answer'[k] = answer[k]
          \/ answer'[k] = NoAnswer /\ \A e \in log : e.run = k => e.stream = s

Next == \/ \E k \in Keys : Enter(k, log' \ log)
        \/ \E s \in Streams : Retire(s)

Spec == Init /\ [][Next]_ledger

(* Every fact can be traced to the one answer that brought it.             *)
Traceable == \A e \in log : answer[e.run] # NoAnswer
=============================================================================
