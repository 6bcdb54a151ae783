----------------------------- MODULE PgAuditLog -----------------------------
(***************************************************************************)
(* PostgresAppendOnlyAuditLog under API instances whose requests append    *)
(* concurrently. A transaction takes an advisory lock, selects the row     *)
(* with the greatest occurred_at, stamps its event with the instance's own *)
(* clock and inserts it; verify_chain follows the rows by occurred_at.     *)
(* With clocks that agree this implements AuditLog.                        *)
(***************************************************************************)
EXTENDS Integers, FiniteSets, Sequences

CONSTANTS
  Request,      \* requests that append one event each
  Instance,     \* API instances
  InstanceOf,   \* InstanceOf[q]: the instance that serves request q
  Skew,         \* Skew[i]: how far the clock of instance i is ahead
  Genesis, Free

ASSUME PgAuditAssumption ==
  /\ InstanceOf \in [Request -> Instance]
  /\ Skew \in [Instance -> Nat]
  /\ Genesis \notin Request
  /\ Free \notin Request

VARIABLES
  rows,      \* committed rows of audit_event
  lock,      \* the transaction that holds the advisory lock
  phase,     \* where each request is
  prev,      \* the hash of the row its SELECT found
  stamp,     \* the occurred_at of its event
  now        \* time; a transaction takes longer than one unit of occurred_at

vars == <<rows, lock, phase, prev, stamp, now>>

Row == [id : Request, prev : Request \cup {Genesis}, at : Nat]
Phase == {"idle", "waiting", "locked", "selected", "stamped", "done"}

Holding == {"locked", "selected", "stamped"}

\* Types, and that exactly the holder of the lock is inside the transaction.
TypeOK ==
  /\ rows \subseteq Row
  /\ lock \in Request \cup {Free}
  /\ phase \in [Request -> Phase]
  /\ prev \in [Request -> Request \cup {Genesis}]
  /\ stamp \in [Request -> Nat]
  /\ now \in Nat
  /\ \A q \in Request : phase[q] \in Holding <=> lock = q

Init ==
  /\ rows = {}
  /\ lock = Free
  /\ phase = [q \in Request |-> "idle"]
  /\ prev = [q \in Request |-> Genesis]
  /\ stamp = [q \in Request |-> 0]
  /\ now = 0

Goto(q, from, to) ==
  /\ phase[q] = from
  /\ phase' = [phase EXCEPT ![q] = to]

Begin(q) ==
  /\ Goto(q, "idle", "waiting")
  /\ UNCHANGED <<rows, lock, prev, stamp, now>>

\* Mutant: the advisory lock is not taken.
StartUnlocked(q) ==
  /\ Goto(q, "waiting", "locked")
  /\ lock' = q
  /\ UNCHANGED <<rows, prev, stamp, now>>

Acquire(q) ==
  /\ lock = Free
  /\ Goto(q, "waiting", "locked")
  /\ lock' = q
  /\ UNCHANGED <<rows, prev, stamp, now>>

\* Rows the SELECT may return first: it orders by occurred_at alone.
Newest == {r \in rows : \A s \in rows : s.at <= r.at}

SelectPrevious(q) ==
  /\ Goto(q, "locked", "selected")
  /\ \/ rows = {} /\ prev' = [prev EXCEPT ![q] = Genesis]
     \/ \E r \in Newest : prev' = [prev EXCEPT ![q] = r.id]
  /\ UNCHANGED <<rows, lock, stamp, now>>

\* Mutant: occurred_at is truncated to a unit in which several appends fit.
StampCoarsely(q) ==
  /\ Goto(q, "selected", "stamped")
  /\ now' \in {now, now + 1}
  /\ stamp' = [stamp EXCEPT ![q] = now + Skew[InstanceOf[q]]]
  /\ UNCHANGED <<rows, lock, prev>>

\* The statements around it take more than a microsecond.
StampEvent(q) ==
  /\ Goto(q, "selected", "stamped")
  /\ now' = now + 1
  /\ stamp' = [stamp EXCEPT ![q] = now + Skew[InstanceOf[q]]]
  /\ UNCHANGED <<rows, lock, prev>>

InsertAndCommit(q) ==
  /\ Goto(q, "stamped", "done")
  /\ rows' = rows \cup {[id |-> q, prev |-> prev[q], at |-> stamp[q]]}
  /\ lock' = Free
  /\ UNCHANGED <<prev, stamp, now>>

\* Mutant: the lock is held by the session and survives its transaction.
FailHoldingLock(q) ==
  /\ phase[q] \in {"waiting"} \cup Holding
  /\ phase' = [phase EXCEPT ![q] = "done"]
  /\ UNCHANGED <<rows, lock, prev, stamp, now>>

\* The transaction fails or its instance dies; the lock goes with it.
Fail(q) ==
  /\ phase[q] \in {"waiting"} \cup Holding
  /\ phase' = [phase EXCEPT ![q] = "done"]
  /\ lock' = IF lock = q THEN Free ELSE lock
  /\ UNCHANGED <<rows, prev, stamp, now>>

RequestStep(q) ==
  \/ Acquire(q) \/ SelectPrevious(q) \/ StampEvent(q) \/ InsertAndCommit(q)

Next == \E q \in Request : Begin(q) \/ RequestStep(q) \/ Fail(q)

Spec == Init /\ [][Next]_vars

\* PostgreSQL grants a free lock to a waiting transaction, and a statement
\* ends or fails.
Fairness == \A q \in Request : SF_vars(RequestStep(q))

FairSpec == Spec /\ Fairness

(***************************************************************************)
(* Properties                                                              *)
(***************************************************************************)

\* Clocks agree: one host, or hosts whose clocks are synchronised to less
\* than the time an append takes.
ClocksAgree == \A i, j \in Instance : Skew[i] = Skew[j]

\* The row verify_chain visits before r.
IsBefore(s, r) ==
  s.at < r.at /\ \A u \in rows : u.at < r.at => u.at <= s.at

\* verify_chain finds the chain unbroken, whoever appended and whichever
\* transactions failed: each row names the one that precedes it in time.
ChainValid ==
  \A r \in rows :
    IF \E s \in rows : s.at < r.at
    THEN \E s \in rows : IsBefore(s, r) /\ r.prev = s.id
    ELSE r.prev = Genesis

\* No two rows have the same time: their order is that of occurred_at.
TimesDistinct == \A r, s \in rows : r.at = s.at => r = s

\* The chain of the rows, as AuditLog has it.
Chronicle ==
  [i \in 1 .. Cardinality(rows) |->
     LET r == CHOOSE x \in rows :
                /\ Cardinality({y \in rows : y.at < x.at}) < i
                /\ Cardinality({y \in rows : y.at <= x.at}) >= i
     IN [id |-> r.id, prev |-> r.prev]]

Log == INSTANCE AuditLog WITH events <- Chronicle

\* With clocks that agree, concurrent transactions append to one chain as the
\* log in memory does: every commit adds one event at its end.
ImplementsAuditLog == Log!LogSpec

\* No append waits forever for the lock, whichever others die holding it.
AppendsEnd ==
  \A q \in Request : phase[q] = "waiting" ~> phase[q] = "done"
=============================================================================
