------------------------------ MODULE AuditLog ------------------------------
(***************************************************************************)
(* InMemoryAppendOnlyAuditLog: what the AuditLog port promises its         *)
(* callers. An event is appended under a lock at the end of one list and   *)
(* carries the hash of the event before it. A hash stands for the event it *)
(* is computed from, so an event is known by the request that caused it.   *)
(***************************************************************************)
EXTENDS Integers, Sequences

CONSTANTS Request, Genesis

VARIABLE events   \* the chain: [id, prev] in the order of appending

PrevHash(log) == IF log = <<>> THEN Genesis ELSE log[Len(log)].id

LogInit == events = <<>>

AppendEvent(q) ==
  /\ \A i \in DOMAIN events : events[i].id # q
  /\ events' = Append(events, [id |-> q, prev |-> PrevHash(events)])

LogNext == \E q \in Request : AppendEvent(q)

LogSpec == LogInit /\ [][LogNext]_events

\* verify_chain walks the list from its beginning.
Linked(log) ==
  \A i \in DOMAIN log :
    log[i].prev = IF i = 1 THEN Genesis ELSE log[i - 1].id
=============================================================================
