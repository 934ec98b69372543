--------------------------- MODULE MCPersistenceGate ---------------------------
(* Small instances of the persistence gate for TLC. *)
EXTENDS PersistenceGate, FiniteSetsExt

\* The byte counters (reserve, publish, the worker's pop and fault_worker) are
\* exactly the bytes queued and reserved, and stay within the limit.
BytesAccounted ==
    LET held(states) == {t \in DOMAIN states : states[t].pc = "reserved"} IN
    /\ queued_bytes = MapThenSumSet(LAMBDA i : queue[i].cost, DOMAIN queue)
    /\ reserved_bytes = MapThenSumSet(LAMBDA c : carrier[c].cost, held(carrier))
                           + MapThenSumSet(LAMBDA k : caller[k].cost, held(caller))
    /\ reserved_records = Cardinality(held(carrier)) + Cardinality(held(caller))
    /\ queued_bytes + reserved_bytes <= MaxBytes
================================================================================
