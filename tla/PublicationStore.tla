-------------------------- MODULE PublicationStore --------------------------
(***************************************************************************)
(* The publications kept in PostgreSQL, and the two operations of the      *)
(* canonical repository on them: _seed_snapshot, one transaction that      *)
(* activates a candidate publication, and _hydrate_snapshot, which reads   *)
(* the active publication back with several statements.                    *)
(*                                                                         *)
(* A worker is one run of these operations: an administrator's reload in   *)
(* an API replica, the seed-mock command, the start of a replica.          *)
(* PostgreSQL runs at READ COMMITTED: a statement sees what is committed   *)
(* when it starts, a row lock is held until its transaction ends, and an   *)
(* UPDATE that waited for a lock evaluates its WHERE clause again.         *)
(***************************************************************************)
EXTENDS Naturals, FiniteSets

CONSTANTS
  Worker,     \* concurrent runs of seed and hydrate, in any process
  Pub,        \* publication ids; an id is the hash of a content
  Row,        \* canonical rows, by their stable ids
  TextRow,    \* rows of documents, versions and provisions
  ChunkRow,   \* rows of chunks, with their embeddings
  Column, Value, publication_id, \* one of the columns, if a row has it
  RowsOf,     \* RowsOf[p]: the rows the content of p consists of
  Content,    \* Content[p][r]: the columns of row r in publication p
  Order,      \* Order[p]: the rank at which the seed of p merges each row
  VersionRows,\* VersionRows[p]: text rows, of any content, of p's versions
  NoPub, NoRow, Unread, Free

\* What a row holds.
Record == [Column -> Value]

ASSUME StoreAssumption ==
  /\ TextRow \subseteq Row /\ ChunkRow \subseteq Row \ TextRow
  /\ publication_id \in Column /\ Pub \cup {NoPub} \subseteq Value
  /\ NoRow \notin Record /\ Unread \notin Record \cup {NoRow}
  /\ RowsOf \in [Pub -> SUBSET Row]
  /\ VersionRows \in [Pub -> SUBSET TextRow]
  /\ \A p \in Pub : RowsOf[p] \cap TextRow \subseteq VersionRows[p]
  /\ \A p \in Pub :
       /\ Content[p] \in [RowsOf[p] -> Record]
       /\ \A r \in RowsOf[p] :
            Content[p][r][publication_id] = IF r \in TextRow THEN NoPub ELSE p
  /\ NoPub \notin Pub
  /\ Free \notin Worker

ASSUME OrderAssumption ==
  /\ IsFiniteSet(Worker)
  /\ Order \in [Pub -> [Row -> Nat]]
  /\ \A p \in Pub : \A r, x \in RowsOf[p] :
       /\ Order[p][r] = Order[p][x] => r = x
       /\ r \in TextRow \cup ChunkRow /\ x \notin TextRow \cup ChunkRow =>
            Order[p][r] < Order[p][x]

\* Nodes and edges of the ontology: they carry a publication_id column, as
\* chunks do, and are selected by it; text rows are selected through
\* publication_member, whichever publication wrote them last.
GraphRow == Row \ (TextRow \cup ChunkRow)

VARIABLES
  status,     \* committed status of every publication row
  table,      \* table[r]: what is committed of row r, or NoRow
  pubLock,    \* the transaction that holds the lock of a publication row
  rowLock,    \* the transaction that holds the lock of a canonical row
  draft,      \* what that transaction has written there
  phase,      \* where each worker is
  cand,       \* the publication a worker seeds
  scan,       \* the rows the retiring UPDATE found when it started
  seen,       \* the status the candidate's row had when merge loaded it
  todo,       \* rows of the candidate that are still to be merged
  loaded,     \* what merge has loaded of the next one, if it differs
  readPub,    \* hydration: the active publication it selected
  readRows    \* hydration: what it has read of each row

tables == <<status, table>>
locks  == <<pubLock, rowLock, draft>>
txn    == <<cand, scan, seen, todo, loaded>>
read   == <<readPub, readRows>>
storeVars == <<status, table, pubLock, rowLock, draft, phase, cand, scan, seen,
               todo, loaded, readPub, readRows>>

Status == {"absent", "ACTIVE", "RETIRED"}
InTransaction == {"retire", "merge", "flush", "index", "rows"}
Hydrating == {"publication", "text", "graph"}
Phase == {"idle", "hydrated"} \cup InTransaction \cup Hydrating

Rows == [Row -> Record \cup {NoRow}]
NoRows == [r \in Row |-> NoRow]

\* Workers outside a transaction hold no locks and no transaction state.
NothingHeld(w) ==
  /\ \A p \in Pub : pubLock[p] # w
  /\ \A r \in Row : rowLock[r] # w
  /\ cand[w] = NoPub /\ scan[w] = {} /\ seen[w] = "absent" /\ todo[w] = {}

\* Types, and the correlation of a worker's phase with what it holds.
TypeOK ==
  /\ status \in [Pub -> Status]
  /\ table \in Rows
  /\ pubLock \in [Pub -> Worker \cup {Free}]
  /\ rowLock \in [Row -> Worker \cup {Free}]
  /\ draft \in Rows
  /\ phase \in [Worker -> Phase]
  /\ cand \in [Worker -> Pub \cup {NoPub}]
  /\ scan \in [Worker -> SUBSET Pub]
  /\ seen \in [Worker -> Status]
  /\ todo \in [Worker -> SUBSET Row]
  /\ loaded \in [Worker -> Record \cup {NoRow, Unread}]
  /\ readPub \in [Worker -> Pub \cup {NoPub}]
  /\ readRows \in [Worker -> Rows]
  /\ \A w \in Worker : phase[w] # "rows" => loaded[w] = Unread
  /\ \A w \in Worker :
       IF phase[w] \in InTransaction
       THEN /\ cand[w] \in Pub /\ scan[w] \subseteq Pub \ {cand[w]}
            /\ todo[w] \subseteq RowsOf[cand[w]]
       ELSE NothingHeld(w)

\* A migrated database that nothing has been seeded into.
Init ==
  /\ status = [p \in Pub |-> "absent"]
  /\ table = NoRows
  /\ pubLock = [p \in Pub |-> Free]
  /\ rowLock = [r \in Row |-> Free]
  /\ draft = NoRows
  /\ phase = [w \in Worker |-> "idle"]
  /\ cand = [w \in Worker |-> NoPub]
  /\ scan = [w \in Worker |-> {}]
  /\ seen = [w \in Worker |-> "absent"]
  /\ todo = [w \in Worker |-> {}]
  /\ loaded = [w \in Worker |-> Unread]
  /\ readPub = [w \in Worker |-> NoPub]
  /\ readRows = [w \in Worker |-> NoRows]

Goto(w, from, to) ==
  /\ phase[w] = from
  /\ phase' = [phase EXCEPT ![w] = to]

Active(p) == status[p] = "ACTIVE"

(***************************************************************************)
(* _seed_snapshot: one transaction                                         *)
(***************************************************************************)

\* The content on disk is parsed and the UPDATE that retires the other
\* active publications starts: it finds the rows committed ACTIVE now.
BeginSeed(w, p) ==
  /\ Goto(w, "idle", "retire")
  /\ cand' = [cand EXCEPT ![w] = p]
  /\ scan' = [scan EXCEPT ![w] = {q \in Pub \ {p} : Active(q)}]
  /\ UNCHANGED <<tables, locks, seen, todo, loaded, read>>

\* Mutant: the UPDATE that retires is committed in a transaction of its own.
RetireAndCommit(w) ==
  /\ Goto(w, "retire", "merge")
  /\ \A q \in scan[w] : pubLock[q] = Free
  /\ status' = [q \in Pub |->
       IF q \in scan[w] /\ Active(q) THEN "RETIRED" ELSE status[q]]
  /\ UNCHANGED <<table, locks, txn, read>>

\* It gets the locks of the rows it found and keeps those that still match.
RetireOthers(w) ==
  /\ Goto(w, "retire", "merge")
  /\ \A q \in scan[w] : pubLock[q] = Free
  /\ pubLock' = [q \in Pub |->
       IF q \in scan[w] /\ Active(q) THEN w ELSE pubLock[q]]
  /\ UNCHANGED <<tables, rowLock, draft, txn, read>>

\* session.merge loads the candidate's own row.
MergePublication(w) ==
  /\ Goto(w, "merge", "flush")
  /\ seen' = [seen EXCEPT ![w] = status[cand[w]]]
  /\ UNCHANGED <<tables, locks, cand, scan, todo, loaded, read>>

\* merge writes changed columns only: a candidate it loaded as ACTIVE gets a
\* new activated_at, and its status column is not part of the UPDATE.
SetsStatus(w) == seen[w] # "ACTIVE"

DuplicateKey(w) == seen[w] = "absent" /\ status[cand[w]] # "absent"

\* The row is written first, under its lock, and then its entry in the index;
\* a row whose status stays as it is needs no new entry.
LockCandidate(w) ==
  /\ Goto(w, "flush", IF SetsStatus(w) THEN "index" ELSE "rows")
  /\ pubLock[cand[w]] = Free
  /\ ~DuplicateKey(w)
  /\ pubLock' = [pubLock EXCEPT ![cand[w]] = w]
  /\ todo' = [todo EXCEPT ![w] = RowsOf[cand[w]]]
  /\ UNCHANGED <<tables, rowLock, draft, cand, scan, seen, loaded, read>>

\* The unique partial index admits one ACTIVE row. A transaction that writes
\* an entry waits, holding its candidate's row, while another one, not yet
\* ended, changes an ACTIVE row or has written the entry of its own,
InDoubt(w) ==
  {q \in Pub \ {cand[w]} :
     /\ pubLock[q] \notin {w, Free}
     /\ \/ Active(q)
        \/ /\ q = cand[pubLock[q]] /\ SetsStatus(pubLock[q])
           /\ phase[pubLock[q]] = "rows"}

\* Mutant: no unique partial index.
NoUniqueIndex(w) == FALSE

\* and fails if an ACTIVE row that it does not itself retire remains.
OtherActiveRemains(w) ==
  \E q \in Pub \ {cand[w]} : Active(q) /\ pubLock[q] # w

WriteIndexEntry(w) ==
  /\ Goto(w, "index", "rows")
  /\ InDoubt(w) = {}
  /\ ~OtherActiveRemains(w)
  /\ UNCHANGED <<tables, locks, txn, read>>

Unlocked(lock, w) == [x \in DOMAIN lock |-> IF lock[x] = w THEN Free ELSE lock[x]]

\* Mutant: a transaction that ends keeps its row locks.
EndKeepingRowLocks(w, next) ==
  /\ phase' = [phase EXCEPT ![w] = next]
  /\ pubLock' = Unlocked(pubLock, w)
  /\ UNCHANGED <<rowLock, draft>>
  /\ cand' = [cand EXCEPT ![w] = NoPub]
  /\ scan' = [scan EXCEPT ![w] = {}]
  /\ seen' = [seen EXCEPT ![w] = "absent"]
  /\ todo' = [todo EXCEPT ![w] = {}]
  /\ loaded' = [loaded EXCEPT ![w] = Unread]

EndTransaction(w, next) ==
  /\ phase' = [phase EXCEPT ![w] = next]
  /\ pubLock' = Unlocked(pubLock, w)
  /\ rowLock' = Unlocked(rowLock, w)
  /\ draft' = [r \in Row |-> IF rowLock[r] = w THEN NoRow ELSE draft[r]]
  /\ cand' = [cand EXCEPT ![w] = NoPub]
  /\ scan' = [scan EXCEPT ![w] = {}]
  /\ seen' = [seen EXCEPT ![w] = "absent"]
  /\ todo' = [todo EXCEPT ![w] = {}]
  /\ loaded' = [loaded EXCEPT ![w] = Unread]

\* An IntegrityError: the transaction rolls back and the seed fails.
FlushConflict(w) ==
  /\ \/ phase[w] = "flush" /\ pubLock[cand[w]] = Free /\ DuplicateKey(w)
     \/ phase[w] = "index" /\ InDoubt(w) = {} /\ OtherActiveRemains(w)
  /\ EndTransaction(w, "idle")
  /\ UNCHANGED <<tables, read>>

\* Mutant: the rows of a content are taken from a set.
MergeInAnyOrder(w) == todo[w]

\* The row the seed merges next, in the order of its content.
Upcoming(w) ==
  {r \in todo[w] : \A x \in todo[w] : Order[cand[w]][r] <= Order[cand[w]][x]}

\* merge selects the row as it is committed; if that is the candidate's, there
\* is nothing to write.
LoadRow(w, r) ==
  /\ phase[w] = "rows"
  /\ r \in Upcoming(w)
  /\ loaded[w] = Unread
  /\ \/ /\ table[r] = Content[cand[w]][r]
        /\ todo' = [todo EXCEPT ![w] = @ \ {r}]
        /\ UNCHANGED loaded
     \/ /\ table[r] # Content[cand[w]][r]
        /\ loaded' = [loaded EXCEPT ![w] = table[r]]
        /\ UNCHANGED todo
  /\ UNCHANGED <<tables, locks, phase, cand, scan, seen, read>>

\* Mutant: a row that exists is left as it is (ON CONFLICT DO NOTHING).
InsertOnlyMissing(w, r) ==
  IF table[r] = NoRow THEN Content[cand[w]][r] ELSE table[r]

\* The columns that differ from what was loaded are written, the others keep
\* what is committed when the row is written.
Written(w, r) ==
  [c \in Column |->
     IF loaded[w] # NoRow /\ loaded[w][c] = Content[cand[w]][r][c]
     THEN table[r][c] ELSE Content[cand[w]][r][c]]

\* A row is inserted or updated as it was missing or there when it was loaded;
\* had another seed inserted it since, the statement would fail (Rollback).
StillThere(w, r) == loaded[w] = NoRow <=> table[r] = NoRow

\* The next flush writes the row, under its lock.
WriteRow(w, r) ==
  /\ phase[w] = "rows"
  /\ r \in Upcoming(w)
  /\ loaded[w] # Unread
  /\ rowLock[r] = Free
  /\ StillThere(w, r)
  /\ rowLock' = [rowLock EXCEPT ![r] = w]
  /\ draft' = [draft EXCEPT ![r] = Written(w, r)]
  /\ todo' = [todo EXCEPT ![w] = @ \ {r}]
  /\ loaded' = [loaded EXCEPT ![w] = Unread]
  /\ UNCHANGED <<tables, pubLock, phase, cand, scan, seen, read>>

\* The private writes of w become visible and its locks are released.
StatusAfter(w) ==
  [p \in Pub |->
     IF pubLock[p] # w THEN status[p]
     ELSE IF p # cand[w] THEN "RETIRED"
     ELSE IF SetsStatus(w) THEN "ACTIVE" ELSE status[p]]

TableAfter(w) == [r \in Row |-> IF rowLock[r] = w THEN draft[r] ELSE table[r]]

CommitSeed(w) ==
  /\ phase[w] = "rows"
  /\ todo[w] = {}
  /\ status' = StatusAfter(w)
  /\ table' = TableAfter(w)
  /\ EndTransaction(w, "publication")
  /\ UNCHANGED read

\* A lost connection, a violated constraint of another table, a deadlock
\* victim or a killed process: nothing of the transaction remains.
Rollback(w) ==
  /\ phase[w] \in InTransaction
  /\ EndTransaction(w, "idle")
  /\ UNCHANGED <<tables, read>>

(***************************************************************************)
(* _hydrate_snapshot: statements that each see what is committed           *)
(***************************************************************************)

BeginHydrate(w) ==
  /\ Goto(w, "idle", "publication")
  /\ UNCHANGED <<tables, locks, txn, read>>

ReadPublication(w) ==
  \E p \in Pub :
    /\ Active(p)
    /\ Goto(w, "publication", "text")
    /\ readPub' = [readPub EXCEPT ![w] = p]
    /\ readRows' = [readRows EXCEPT ![w] = NoRows]
    /\ UNCHANGED <<tables, locks, txn>>

\* Without an active publication hydration is a ConfigurationError.
NoActivePublication(w) ==
  /\ \A p \in Pub : ~Active(p)
  /\ Goto(w, "publication", "idle")
  /\ UNCHANGED <<tables, locks, txn, read>>

\* Documents, versions and provisions, selected by the member versions: also
\* those another publication has written since, and provisions that this one
\* has no more, as a seed deletes none.
ReadText(w) ==
  /\ Goto(w, "text", "graph")
  /\ readRows' = [readRows EXCEPT ![w] =
       [r \in Row |-> IF r \in VersionRows[readPub[w]] THEN table[r] ELSE NoRow]]
  /\ UNCHANGED <<tables, locks, txn, readPub>>

WrittenFor(p, r) == table[r] # NoRow /\ table[r][publication_id] = p

\* Edges and nodes whose publication_id is the one selected.
ReadGraph(w) ==
  /\ Goto(w, "graph", "hydrated")
  /\ readRows' = [readRows EXCEPT ![w] =
       [r \in Row |-> IF r \in GraphRow /\ WrittenFor(readPub[w], r)
                      THEN table[r] ELSE readRows[w][r]]]
  /\ UNCHANGED <<tables, locks, txn, readPub>>

\* The snapshot is handed to the caller, or the caller dies first.
Finish(w) ==
  /\ phase[w] \in Hydrating \cup {"hydrated"}
  /\ phase' = [phase EXCEPT ![w] = "idle"]
  /\ readPub' = [readPub EXCEPT ![w] = NoPub]
  /\ readRows' = [readRows EXCEPT ![w] = NoRows]
  /\ UNCHANGED <<tables, locks, txn>>

SeedStep(w) ==
  \/ RetireOthers(w)
  \/ MergePublication(w)
  \/ LockCandidate(w)
  \/ WriteIndexEntry(w)
  \/ FlushConflict(w)
  \/ \E r \in Row : LoadRow(w, r) \/ WriteRow(w, r)
  \/ CommitSeed(w)

HydrateStep(w) ==
  \/ ReadPublication(w)
  \/ NoActivePublication(w)
  \/ ReadText(w)
  \/ ReadGraph(w)

Begin(w) ==
  \/ \E p \in Pub : BeginSeed(w, p)
  \/ BeginHydrate(w)

Next ==
  \E w \in Worker :
    Begin(w) \/ SeedStep(w) \/ HydrateStep(w) \/ Rollback(w) \/ Finish(w)

Spec == Init /\ [][Next]_storeVars

(***************************************************************************)
(* Properties                                                              *)
(***************************************************************************)

\* However seeds of several processes interleave, one publication at most is
\* committed ACTIVE: _hydrate_snapshot and vector_search select by it.
SingleActive == \A p, q \in Pub : Active(p) /\ Active(q) => p = q

\* Once a publication is active there is always one: no interleaving of a
\* seed that retires others with one that does not write its own status
\* leaves the database without an active publication.
NeverWithoutActive ==
  [][(\E p \in Pub : Active(p)) => (\E p \in Pub : Active(p))']_storeVars

\* The transactions whose end worker w waits for.
WaitsFor(w) ==
  LET holders ==
        CASE phase[w] = "retire" -> {pubLock[q] : q \in scan[w]}
          [] phase[w] = "flush" -> {pubLock[cand[w]]}
          [] phase[w] = "index" -> {pubLock[q] : q \in InDoubt(w)}
          [] phase[w] = "rows" /\ loaded[w] # Unread ->
               {rowLock[r] : r \in Upcoming(w)}
          [] OTHER -> {}
  IN holders \ {w, Free}

\* Contents list the rows they share in the same order.
OrdersAgree ==
  \A p, q \in Pub : \A r \in RowsOf[p] \cap RowsOf[q] : Order[p][r] = Order[q][r]

\* Two seeds of one publication have crossed: v has retired the active one and
\* is to write the row of its candidate, which w holds while it waits in the
\* index.
Crossed(v, w) ==
  /\ phase[v] = "flush" /\ phase[w] = "index"
  /\ cand[v] = cand[w] /\ pubLock[cand[v]] = w

\* Seeds wait for each other in a circle, over publication rows, the index and
\* canonical rows together, only where two of the same publication have
\* crossed: in any other set of blocked seeds one is behind one that can go
\* on. It takes contents that list the rows they share in one order.
OnlyCrossedSeedsDeadlock ==
  OrdersAgree =>
    \A S \in (SUBSET Worker) \ {{}} :
      \/ \E w \in S : WaitsFor(w) \cap S = {}
      \/ \E v, w \in S : Crossed(v, w)

\* The active publication has all the rows of its content.
ActiveComplete ==
  \A p \in Pub : Active(p) => \A r \in RowsOf[p] : table[r] = Content[p][r]

Activating(w) == phase[w] = "rows" /\ SetsStatus(w)

Pending(w, r) == IF rowLock[r] = w THEN draft[r] ELSE table[r]

\* So will have the one a seed is about to activate, as far as it has come;
\* and what it has loaded is still what it will write upon.
ActivationsComplete ==
  \A w \in Worker : Activating(w) =>
    /\ \A r \in RowsOf[cand[w]] \ todo[w] : Pending(w, r) = Content[cand[w]][r]
    /\ \A r \in Upcoming(w) : loaded[w] \in {Unread, table[r]}

Commits(w) == phase[w] = "rows" /\ phase'[w] = "publication"

\* The rows of publications are shared and rewritten by every seed: one found
\* with the candidate's content is merged without a lock, of another one only
\* the columns that differed when it was loaded are written. Yet no
\* interleaving, failure or hydration takes a row, or a column of one, from
\* the publication that is active or about to be, except the commit of a seed
\* whose own publication was retired while it waited.
OnlyRetiredSeedsTakeRows ==
  [][ActiveComplete /\ ActivationsComplete =>
       \/ (ActiveComplete /\ ActivationsComplete)'
       \/ \E w \in Worker : Commits(w) /\ status'[cand[w]] # "ACTIVE"]_storeVars

\* A seed that commits leaves its candidate active, the publication whose
\* rows it has just written.
CommitActivates ==
  [][\A w \in Worker : Commits(w) => status'[cand[w]] = "ACTIVE"]_storeVars

=============================================================================
