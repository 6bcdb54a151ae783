----------------------- MODULE PublicationStoreProofs -----------------------
(***************************************************************************)
(* Theorems about PublicationStore, for every set of workers, publications *)
(* and rows.                                                               *)
(*                                                                         *)
(* TypeOK is inductive. SingleActive and NeverWithoutActive are not: they  *)
(* need what the row locks and the unique index mean between the steps of  *)
(* a transaction, the conjuncts of IInv.                                   *)
(***************************************************************************)
EXTENDS PublicationStore, FiniteSetTheorems, WellFoundedInduction, TLAPS

\* A publication row is locked by a transaction that retires it, and it
\* remains ACTIVE, or by the one that has written it as its candidate.
LocksMeanActive ==
  \A w \in Worker : \A p \in Pub :
    pubLock[p] = w =>
      /\ phase[w] \in {"merge", "flush", "index", "rows"}
      /\ p # cand[w] => Active(p)
      /\ p = cand[w] => phase[w] \in {"index", "rows"}

\* From its flush to its end a transaction holds its candidate's row.
CandidateLocked ==
  \A w \in Worker : phase[w] \in {"index", "rows"} => pubLock[cand[w]] = w

\* The index entry of an ACTIVE row is written by one transaction at a time,
OneActivates ==
  \A v, w \in Worker : Activating(v) /\ Activating(w) => v = w

\* and that one retires every other ACTIVE row.
ActivatorRetires ==
  \A w \in Worker : Activating(w) =>
    \A q \in Pub \ {cand[w]} : Active(q) => pubLock[q] = w

\* A transaction that leaves its candidate's status alone retires nothing.
KeeperRetiresNothing ==
  \A w \in Worker :
    phase[w] \in {"flush", "index", "rows"} /\ ~SetsStatus(w) =>
      \A q \in Pub \ {cand[w]} : pubLock[q] # w

IInv ==
  /\ TypeOK
  /\ LocksMeanActive
  /\ CandidateLocked
  /\ OneActivates
  /\ ActivatorRetires
  /\ KeeperRetiresNothing
  /\ SingleActive


-----------------------------------------------------------------------------
(* Types and phases *)

\* Every way to end a transaction leaves its worker with nothing held.
LEMMA EndKeepsTypes ==
  ASSUME TypeOK, NEW w \in Worker, NEW next \in {"idle", "publication"},
         phase[w] \in InTransaction,
         status' \in [Pub -> Status],
         table' \in Rows,
         EndTransaction(w, next), UNCHANGED read
  PROVE  TypeOK'
<1> USE StoreAssumption DEF TypeOK
<1>1. /\ pubLock' \in [Pub -> Worker \cup {Free}]
      /\ rowLock' \in [Row -> Worker \cup {Free}]
      /\ draft' \in Rows
  BY DEF EndTransaction, Unlocked, Rows
<1>2. /\ phase' \in [Worker -> Phase]
      /\ cand' \in [Worker -> Pub \cup {NoPub}]
      /\ scan' \in [Worker -> SUBSET Pub]
      /\ seen' \in [Worker -> Status]
      /\ todo' \in [Worker -> SUBSET Row]
      /\ loaded' \in [Worker -> Record \cup {NoRow, Unread}]
      /\ readPub' \in [Worker -> Pub \cup {NoPub}]
      /\ readRows' \in [Worker -> Rows]
  BY DEF EndTransaction, read, Phase, Hydrating, Status
<1>3. ASSUME NEW v \in Worker
      PROVE  IF phase'[v] \in InTransaction
             THEN /\ cand'[v] \in Pub /\ scan'[v] \subseteq Pub \ {cand'[v]}
                  /\ todo'[v] \subseteq RowsOf[cand'[v]]
             ELSE NothingHeld(v)'
  <2>1. CASE v = w
    <3>1. phase'[w] \notin InTransaction
      BY DEF EndTransaction, InTransaction
    <3>2. /\ \A p \in Pub : pubLock'[p] # w
          /\ \A r \in Row : rowLock'[r] # w
      BY DEF EndTransaction, Unlocked
    <3>3. cand'[w] = NoPub /\ scan'[w] = {} /\ seen'[w] = "absent" /\ todo'[w] = {}
      BY DEF EndTransaction
    <3> QED  BY <2>1, <3>1, <3>2, <3>3 DEF NothingHeld
  <2>2. CASE v # w
    <3>1. /\ phase'[v] = phase[v] /\ cand'[v] = cand[v] /\ scan'[v] = scan[v]
          /\ seen'[v] = seen[v] /\ todo'[v] = todo[v]
      BY <2>2 DEF EndTransaction
    <3>2. NothingHeld(v) => NothingHeld(v)'
      BY <2>2, <3>1 DEF EndTransaction, Unlocked, NothingHeld
    <3> QED  BY <3>1, <3>2
  <2> QED  BY <2>1, <2>2
<1>4. \A v \in Worker : phase'[v] # "rows" => loaded'[v] = Unread
  BY DEF EndTransaction
<1> QED  BY <1>1, <1>2, <1>3, <1>4

\* What is written are the values of the candidate or those of the row.
LEMMA WrittenIsRecord ==
  ASSUME TypeOK, NEW w \in Worker, NEW r \in Row, WriteRow(w, r)
  PROVE  Written(w, r) \in Record
<1>1. /\ cand[w] \in Pub /\ r \in RowsOf[cand[w]]
  BY DEF TypeOK, WriteRow, Upcoming, InTransaction
<1>2. Content[cand[w]][r] \in Record
  BY <1>1, StoreAssumption
<1>3. ASSUME loaded[w] # NoRow PROVE table[r] \in Record
  BY <1>3, StoreAssumption DEF TypeOK, WriteRow, StillThere, Rows
<1> QED  BY <1>2, <1>3 DEF Written, Record

\* A step that goes to another phase of the same transaction, or to one
\* outside of it that holds nothing, keeps the types if it keeps the rest.
LEMMA SeedKeepsTypes ==
  ASSUME TypeOK, NEW w \in Worker, SeedStep(w)
  PROVE  TypeOK'
<1> USE StoreAssumption DEF TypeOK
<1>1. CASE RetireOthers(w)
  <2>1. /\ pubLock' \in [Pub -> Worker \cup {Free}]
        /\ phase' \in [Worker -> Phase]
        /\ UNCHANGED <<tables, rowLock, draft, txn, read>>
    BY <1>1 DEF RetireOthers, Goto, Phase, InTransaction
  <2>2. /\ phase[w] \in InTransaction /\ phase[w] # "rows"
        /\ phase'[w] \in InTransaction /\ phase'[w] # "rows"
    BY <1>1 DEF RetireOthers, Goto, InTransaction
  <2>3. ASSUME NEW v \in Worker, v # w
        PROVE  /\ phase'[v] = phase[v]
               /\ \A p \in Pub : pubLock'[p] = v => pubLock[p] = v
    BY <1>1, <2>3 DEF RetireOthers, Goto
  <2> QED  BY <2>1, <2>2, <2>3 DEF NothingHeld, tables, txn, read
<1>2. CASE MergePublication(w)
  BY <1>2 DEF MergePublication, Goto, Phase, InTransaction, Status,
              NothingHeld, tables, locks, read
<1>3. CASE LockCandidate(w)
  <2>1. /\ phase[w] = "flush" /\ phase' \in [Worker -> Phase]
        /\ phase'[w] \in InTransaction
    BY <1>3 DEF LockCandidate, Goto, Phase, InTransaction
  <2>2. cand[w] \in Pub
    BY <2>1 DEF InTransaction
  <2>3. /\ pubLock' \in [Pub -> Worker \cup {Free}]
        /\ todo' \in [Worker -> SUBSET Row] /\ todo'[w] = RowsOf[cand[w]]
        /\ UNCHANGED <<tables, rowLock, draft, cand, scan, seen, loaded, read>>
    BY <1>3, <2>2 DEF LockCandidate
  <2>4. ASSUME NEW v \in Worker, v # w
        PROVE  /\ phase'[v] = phase[v] /\ todo'[v] = todo[v]
               /\ \A p \in Pub : pubLock'[p] = v => pubLock[p] = v
    BY <1>3, <2>4 DEF LockCandidate, Goto
  <2>5. loaded[w] = Unread
    BY <2>1
  <2> QED  BY <2>1, <2>2, <2>3, <2>4, <2>5 DEF NothingHeld, tables, read, InTransaction
<1>7. CASE WriteIndexEntry(w)
  <2>1. /\ phase[w] = "index" /\ phase' \in [Worker -> Phase]
        /\ phase'[w] = "rows"
        /\ \A v \in Worker : v # w => phase'[v] = phase[v]
        /\ UNCHANGED <<tables, locks, txn, read>>
    BY <1>7 DEF WriteIndexEntry, Goto, Phase, InTransaction
  <2> QED  BY <2>1 DEF NothingHeld, InTransaction, tables, locks, txn, read
<1>4. CASE FlushConflict(w)
  BY <1>4, EndKeepsTypes DEF FlushConflict, tables, InTransaction
<1>5. ASSUME NEW r \in Row, LoadRow(w, r)
      PROVE  TypeOK'
  <2>1. /\ todo' \in [Worker -> SUBSET Row] /\ todo'[w] \subseteq todo[w]
        /\ loaded' \in [Worker -> Record \cup {NoRow, Unread}]
        /\ UNCHANGED <<tables, locks, phase, cand, scan, seen, read>>
    <3>1. table[r] \in Record \cup {NoRow}
      BY DEF Rows
    <3>2. /\ loaded' \in [Worker -> Record \cup {NoRow, Unread}]
          /\ UNCHANGED <<tables, locks, phase, cand, scan, seen, read>>
      BY <1>5, <3>1 DEF LoadRow
    <3>3. todo' \in [Worker -> SUBSET Row] /\ todo'[w] \subseteq todo[w]
      BY <1>5 DEF LoadRow
    <3> QED  BY <3>2, <3>3
  <2>2. phase[w] = "rows"
    BY <1>5 DEF LoadRow
  <2>3. ASSUME NEW v \in Worker, v # w
        PROVE  todo'[v] = todo[v] /\ loaded'[v] = loaded[v]
    BY <1>5, <2>3 DEF LoadRow
  <2> QED  BY <2>1, <2>2, <2>3 DEF NothingHeld, InTransaction, tables, locks, read
<1>8. ASSUME NEW r \in Row, WriteRow(w, r)
      PROVE  TypeOK'
  <2>1. Written(w, r) \in Record
    BY <1>8, WrittenIsRecord
  <2>2. /\ rowLock' \in [Row -> Worker \cup {Free}]
        /\ draft' \in Rows
        /\ todo' \in [Worker -> SUBSET Row] /\ todo'[w] \subseteq todo[w]
        /\ loaded' \in [Worker -> Record \cup {NoRow, Unread}]
        /\ UNCHANGED <<tables, pubLock, phase, cand, scan, seen, read>>
    BY <1>8, <2>1 DEF WriteRow, Rows
  <2>3. phase[w] = "rows"
    BY <1>8 DEF WriteRow
  <2>4. ASSUME NEW v \in Worker, v # w
        PROVE  /\ todo'[v] = todo[v] /\ loaded'[v] = loaded[v]
               /\ \A x \in Row : rowLock'[x] = v => rowLock[x] = v
    BY <1>8, <2>4 DEF WriteRow
  <2> QED  BY <2>2, <2>3, <2>4 DEF NothingHeld, InTransaction, tables, read
<1>6. CASE CommitSeed(w)
  <2>1. phase[w] \in InTransaction
    BY <1>6 DEF CommitSeed, InTransaction
  <2>2. cand[w] \in Pub
    BY <2>1
  <2>3. /\ status' \in [Pub -> Status]
        /\ table' \in Rows
    BY <1>6, <2>2 DEF CommitSeed, StatusAfter, TableAfter, Status, Rows
  <2> QED  BY <1>6, <2>1, <2>3, EndKeepsTypes DEF CommitSeed
<1> QED  BY <1>1, <1>2, <1>3, <1>4, <1>5, <1>6, <1>7, <1>8 DEF SeedStep

LEMMA OtherStepsKeepTypes ==
  ASSUME TypeOK, NEW w \in Worker,
         Begin(w) \/ HydrateStep(w) \/ Rollback(w) \/ Finish(w)
  PROVE  TypeOK'
<1> USE StoreAssumption DEF TypeOK
<1>1. ASSUME NEW p \in Pub, BeginSeed(w, p)
      PROVE  TypeOK'
  <2>1. /\ phase' \in [Worker -> Phase]
        /\ cand' \in [Worker -> Pub \cup {NoPub}]
        /\ scan' \in [Worker -> SUBSET Pub]
        /\ UNCHANGED <<tables, locks, seen, todo, loaded, read>>
    BY <1>1 DEF BeginSeed, Goto, Phase, InTransaction
  <2>2. /\ cand'[w] = p /\ scan'[w] \subseteq Pub \ {p}
        /\ phase'[w] \in InTransaction /\ phase'[w] # "rows"
        /\ todo[w] = {} /\ loaded[w] = Unread
    <3>1. phase[w] = "idle"
      BY <1>1 DEF BeginSeed, Goto
    <3>2. phase[w] \notin InTransaction
      BY <3>1 DEF InTransaction
    <3> QED  BY <1>1, <3>1, <3>2 DEF BeginSeed, Goto, InTransaction, NothingHeld
  <2>3. ASSUME NEW v \in Worker, v # w
        PROVE  phase'[v] = phase[v] /\ cand'[v] = cand[v] /\ scan'[v] = scan[v]
    BY <1>1, <2>3 DEF BeginSeed, Goto
  <2> QED  BY <2>1, <2>2, <2>3 DEF NothingHeld, tables, locks, read
<1>2. CASE BeginHydrate(w)
  BY <1>2 DEF BeginHydrate, Goto, Phase, InTransaction, Hydrating,
              NothingHeld, tables, locks, txn, read
<1>3. CASE ReadPublication(w)
  BY <1>3 DEF ReadPublication, Goto, Phase, InTransaction, Hydrating,
              NothingHeld, Rows, NoRows, tables, locks, txn
<1>4. CASE NoActivePublication(w)
  BY <1>4 DEF NoActivePublication, Goto, Phase, InTransaction, Hydrating,
              NothingHeld, tables, locks, txn, read
<1>5. CASE ReadText(w)
  <2>1. readRows' \in [Worker -> Rows]
    BY <1>5 DEF ReadText, Rows
  <2>2. /\ phase' \in [Worker -> Phase]
        /\ \A v \in Worker :
             /\ phase'[v] \in InTransaction <=> phase[v] \in InTransaction
             /\ phase'[v] # "rows" => phase[v] # "rows"
        /\ UNCHANGED <<tables, locks, txn, readPub>>
    BY <1>5 DEF ReadText, Goto, Phase, InTransaction, Hydrating
  <2> QED  BY <2>1, <2>2 DEF NothingHeld, tables, locks, txn
<1>6. CASE ReadGraph(w)
  <2>1. readRows' \in [Worker -> Rows]
    BY <1>6 DEF ReadGraph, Rows
  <2> QED  BY <1>6, <2>1 DEF ReadGraph, Goto, Phase, InTransaction, Hydrating,
                             NothingHeld, tables, locks, txn
<1>7. CASE Rollback(w)
  BY <1>7, EndKeepsTypes DEF Rollback, tables
<1>8. CASE Finish(w)
  BY <1>8 DEF Finish, Phase, InTransaction, Hydrating,
              NothingHeld, Rows, NoRows, tables, locks, txn
<1> QED  BY <1>1, <1>2, <1>3, <1>4, <1>5, <1>6, <1>7, <1>8
            DEF Begin, HydrateStep

LEMMA TypesInitially == Init => TypeOK
BY StoreAssumption
   DEF Init, TypeOK, Status, Phase, InTransaction, Hydrating, NothingHeld, Rows, NoRows

LEMMA TypesPreserved == TypeOK /\ [Next]_storeVars => TypeOK'
<1> SUFFICES ASSUME TypeOK, [Next]_storeVars
             PROVE  TypeOK'
  OBVIOUS
<1>1. CASE Next
  BY <1>1, SeedKeepsTypes, OtherStepsKeepTypes DEF Next
<1>2. CASE UNCHANGED storeVars
  BY <1>2 DEF storeVars, TypeOK, NothingHeld
<1> QED  BY <1>1, <1>2

\* In every reachable state the variables have their types, and a worker
\* outside a transaction holds no lock, whichever way its last one ended.
THEOREM TypesCorrect == Spec => []TypeOK
BY TypesInitially, TypesPreserved, PTL DEF Spec

-----------------------------------------------------------------------------
(* One active publication *)

\* What the end of a transaction leaves of the other workers' state.
LEMMA EndLeavesOthers ==
  ASSUME TypeOK, NEW w \in Worker, NEW next, EndTransaction(w, next)
  PROVE  /\ phase'[w] = next
         /\ \A p \in Pub : pubLock'[p] # w
         /\ \A v \in Worker \ {w} :
              /\ phase'[v] = phase[v] /\ cand'[v] = cand[v] /\ seen'[v] = seen[v]
              /\ \A p \in Pub : pubLock'[p] = v <=> pubLock[p] = v
BY StoreAssumption DEF TypeOK, EndTransaction, Unlocked

\* A transaction that ends without a commit.
LEMMA EndKeepsInvariant ==
  ASSUME IInv, NEW w \in Worker, EndTransaction(w, "idle"), UNCHANGED status
  PROVE  /\ LocksMeanActive'
         /\ CandidateLocked'
         /\ OneActivates'
         /\ ActivatorRetires'
         /\ KeeperRetiresNothing'
         /\ SingleActive'
<1>1. TypeOK
  BY DEF IInv
<1>2. /\ phase'[w] = "idle"
      /\ \A p \in Pub : pubLock'[p] # w
      /\ \A v \in Worker \ {w} :
           /\ phase'[v] = phase[v] /\ cand'[v] = cand[v] /\ seen'[v] = seen[v]
           /\ \A p \in Pub : pubLock'[p] = v <=> pubLock[p] = v
  BY <1>1, EndLeavesOthers
<1>3. \A v \in Worker \ {w} : phase[v] \in {"index", "rows"} => cand[v] \in Pub
  BY <1>1 DEF TypeOK, InTransaction
<1>4. LocksMeanActive'
  BY <1>2 DEF IInv, LocksMeanActive, Active
<1>5. CandidateLocked'
  BY <1>2, <1>3 DEF IInv, CandidateLocked
<1>6. OneActivates'
  BY <1>2 DEF IInv, OneActivates, Activating, SetsStatus
<1>7. ActivatorRetires'
  BY <1>2 DEF IInv, ActivatorRetires, Activating, SetsStatus, Active
<1>8. KeeperRetiresNothing'
  BY <1>2 DEF IInv, KeeperRetiresNothing, SetsStatus
<1>9. SingleActive'
  BY DEF IInv, SingleActive, Active
<1> QED  BY <1>4, <1>5, <1>6, <1>7, <1>8, <1>9

\* A commit that writes its candidate's status leaves that one alone ACTIVE;
\* one that does not write it changes no status at all.
LEMMA CommitStatus ==
  ASSUME IInv, NEW w \in Worker, CommitSeed(w)
  PROVE  /\ cand[w] \in Pub
         /\ SetsStatus(w) => \A p \in Pub : Active(p)' <=> p = cand[w]
         /\ ~SetsStatus(w) => status' = status
<1>1. phase[w] = "rows" /\ status' = StatusAfter(w) /\ TypeOK
  BY DEF CommitSeed, IInv
<1>2. cand[w] \in Pub /\ pubLock[cand[w]] = w
  BY <1>1 DEF IInv, CandidateLocked, TypeOK, InTransaction
<1>3. ASSUME SetsStatus(w)
      PROVE  \A p \in Pub : Active(p)' <=> p = cand[w]
  <2>1. \A q \in Pub \ {cand[w]} : Active(q) => pubLock[q] = w
    BY <1>1, <1>3 DEF IInv, ActivatorRetires, Activating
  <2> QED  BY <1>1, <1>2, <1>3, <2>1 DEF StatusAfter, Active
<1>4. ASSUME ~SetsStatus(w)
      PROVE  status' = status
  <2>1. \A q \in Pub \ {cand[w]} : pubLock[q] # w
    BY <1>1, <1>4 DEF IInv, KeeperRetiresNothing
  <2>2. \A p \in Pub : status'[p] = status[p]
    BY <1>1, <1>4, <2>1 DEF StatusAfter
  <2> QED  BY <1>1, <2>2 DEF StatusAfter, TypeOK
<1> QED  BY <1>2, <1>3, <1>4

LEMMA CommitKeepsInvariant ==
  ASSUME IInv, NEW w \in Worker, CommitSeed(w)
  PROVE  /\ LocksMeanActive'
         /\ CandidateLocked'
         /\ OneActivates'
         /\ ActivatorRetires'
         /\ KeeperRetiresNothing'
         /\ SingleActive'
<1>1. /\ TypeOK /\ phase[w] = "rows"
      /\ status' = StatusAfter(w)
      /\ EndTransaction(w, "publication")
  BY DEF CommitSeed, IInv
<1>2. /\ phase'[w] = "publication"
      /\ \A p \in Pub : pubLock'[p] # w
      /\ \A v \in Worker \ {w} :
           /\ phase'[v] = phase[v] /\ cand'[v] = cand[v] /\ seen'[v] = seen[v]
           /\ \A p \in Pub : pubLock'[p] = v <=> pubLock[p] = v
  BY <1>1, EndLeavesOthers
<1>3. /\ cand[w] \in Pub
      /\ SetsStatus(w) => \A p \in Pub : Active(p)' <=> p = cand[w]
      /\ ~SetsStatus(w) => status' = status
  BY CommitStatus
<1>4. \A v \in Worker \ {w} : phase[v] \in {"index", "rows"} => cand[v] \in Pub
  BY <1>1 DEF TypeOK, InTransaction
<1>5. \A p \in Pub : pubLock[p] # w => status'[p] = status[p]
  BY <1>1 DEF StatusAfter
<1>6. LocksMeanActive'
  BY <1>2, <1>5 DEF IInv, LocksMeanActive, Active
<1>7. CandidateLocked'
  BY <1>2, <1>4 DEF IInv, CandidateLocked
<1>8. OneActivates'
  BY <1>2 DEF IInv, OneActivates, Activating, SetsStatus
<1>9. ActivatorRetires'
  <2> SUFFICES ASSUME NEW v \in Worker, Activating(v)',
                      NEW q \in Pub \ {cand'[v]}, Active(q)'
               PROVE  pubLock'[q] = v
    BY DEF ActivatorRetires
  <2>1. v # w /\ Activating(v)
    BY <1>2 DEF Activating, SetsStatus
  <2>2. ~Activating(w)
    BY <2>1 DEF IInv, OneActivates
  <2>3. status' = status
    BY <1>1, <1>3, <2>2 DEF Activating
  <2> QED  BY <1>2, <2>1, <2>3 DEF IInv, ActivatorRetires, Active
<1>10. KeeperRetiresNothing'
  BY <1>2 DEF IInv, KeeperRetiresNothing, SetsStatus
<1>11. SingleActive'
  BY <1>3 DEF IInv, SingleActive, Active
<1> QED  BY <1>6, <1>7, <1>8, <1>9, <1>10, <1>11

\* The UPDATE that retires takes locks of ACTIVE rows that are free.
LEMMA RetireKeepsInvariant ==
  ASSUME IInv, NEW w \in Worker, RetireOthers(w)
  PROVE  /\ LocksMeanActive'
         /\ CandidateLocked'
         /\ OneActivates'
         /\ ActivatorRetires'
         /\ KeeperRetiresNothing'
         /\ SingleActive'
<1>1. /\ TypeOK /\ phase[w] = "retire" /\ phase'[w] = "merge"
      /\ \A v \in Worker \ {w} : phase'[v] = phase[v]
      /\ status' = status /\ cand' = cand /\ seen' = seen
  BY DEF RetireOthers, Goto, IInv, TypeOK, tables, txn
<1>2. scan[w] \subseteq Pub \ {cand[w]}
  BY <1>1 DEF TypeOK, InTransaction
<1>3. \A p \in Pub :
        \/ pubLock'[p] = pubLock[p]
        \/ pubLock[p] = Free /\ pubLock'[p] = w /\ p # cand[w] /\ Active(p)
  BY <1>2 DEF RetireOthers
<1>4. \A v \in Worker : v # Free
  BY StoreAssumption
<1>5. \A v \in Worker : phase[v] \in {"index", "rows"} => cand[v] \in Pub
  BY <1>1 DEF TypeOK, InTransaction
<1>6. LocksMeanActive'
  BY <1>1, <1>3 DEF IInv, LocksMeanActive, Active
<1>7. CandidateLocked'
  BY <1>1, <1>3, <1>4, <1>5 DEF IInv, CandidateLocked
<1>8. OneActivates'
  BY <1>1 DEF IInv, OneActivates, Activating, SetsStatus
<1>9. ActivatorRetires'
  BY <1>1, <1>3, <1>4 DEF IInv, ActivatorRetires, Activating, SetsStatus, Active
<1>10. KeeperRetiresNothing'
  BY <1>1, <1>3 DEF IInv, KeeperRetiresNothing, SetsStatus
<1>11. SingleActive'
  BY <1>1 DEF IInv, SingleActive, Active
<1> QED  BY <1>6, <1>7, <1>8, <1>9, <1>10, <1>11

\* A transaction that loads its candidate as ACTIVE holds no other row: that
\* one would be a second ACTIVE publication.
LEMMA MergeKeepsInvariant ==
  ASSUME IInv, NEW w \in Worker, MergePublication(w)
  PROVE  /\ LocksMeanActive'
         /\ CandidateLocked'
         /\ OneActivates'
         /\ ActivatorRetires'
         /\ KeeperRetiresNothing'
         /\ SingleActive'
<1>1. /\ TypeOK /\ phase[w] = "merge" /\ phase'[w] = "flush"
      /\ seen'[w] = status[cand[w]]
      /\ \A v \in Worker \ {w} : phase'[v] = phase[v] /\ seen'[v] = seen[v]
      /\ status' = status /\ cand' = cand /\ pubLock' = pubLock
  BY DEF MergePublication, Goto, IInv, TypeOK, tables, locks
<1>2. cand[w] \in Pub
  BY <1>1 DEF TypeOK, InTransaction
<1>3. \A q \in Pub \ {cand[w]} : pubLock[q] = w => Active(q)
  BY DEF IInv, LocksMeanActive
<1>4. LocksMeanActive'
  BY <1>1 DEF IInv, LocksMeanActive, Active
<1>5. CandidateLocked'
  BY <1>1 DEF IInv, CandidateLocked
<1>6. OneActivates'
  BY <1>1 DEF IInv, OneActivates, Activating, SetsStatus
<1>7. ActivatorRetires'
  BY <1>1 DEF IInv, ActivatorRetires, Activating, SetsStatus, Active
<1>8. KeeperRetiresNothing'
  <2> SUFFICES ASSUME NEW v \in Worker, phase'[v] \in {"flush", "index", "rows"},
                      ~SetsStatus(v)', NEW q \in Pub \ {cand'[v]}
               PROVE  pubLock'[q] # v
    BY DEF KeeperRetiresNothing
  <2>1. CASE v # w
    BY <1>1, <2>1 DEF IInv, KeeperRetiresNothing, SetsStatus
  <2>2. CASE v = w
    <3>1. Active(cand[w])
      BY <1>1, <2>2 DEF SetsStatus, Active
    <3> QED  BY <1>1, <1>2, <1>3, <2>2, <3>1 DEF IInv, SingleActive
  <2> QED  BY <2>1, <2>2
<1>9. SingleActive'
  BY <1>1 DEF IInv, SingleActive, Active
<1> QED  BY <1>4, <1>5, <1>6, <1>7, <1>8, <1>9

\* A transaction gets the lock of its candidate's row when nobody has it.
LEMMA LockKeepsInvariant ==
  ASSUME IInv, NEW w \in Worker, LockCandidate(w)
  PROVE  /\ LocksMeanActive'
         /\ CandidateLocked'
         /\ OneActivates'
         /\ ActivatorRetires'
         /\ KeeperRetiresNothing'
         /\ SingleActive'
<1>1. /\ TypeOK /\ phase[w] = "flush" /\ phase'[w] \in {"index", "rows"}
      /\ SetsStatus(w) => phase'[w] = "index"
      /\ \A v \in Worker \ {w} : phase'[v] = phase[v]
      /\ status' = status /\ cand' = cand /\ seen' = seen
      /\ pubLock[cand[w]] = Free
      /\ pubLock' = [pubLock EXCEPT ![cand[w]] = w]
  BY DEF LockCandidate, Goto, IInv, TypeOK, tables
<1>2. cand[w] \in Pub
  BY <1>1 DEF TypeOK, InTransaction
<1>3. /\ pubLock'[cand[w]] = w
      /\ \A p \in Pub \ {cand[w]} : pubLock'[p] = pubLock[p]
  BY <1>1, <1>2 DEF TypeOK
<1>4. \A v \in Worker : v # Free
  BY StoreAssumption
<1>5. \A v \in Worker : phase[v] \in {"index", "rows"} => cand[v] \in Pub
  BY <1>1 DEF TypeOK, InTransaction
<1>6. LocksMeanActive'
  BY <1>1, <1>3 DEF IInv, LocksMeanActive, Active
<1>7. CandidateLocked'
  BY <1>1, <1>3, <1>4, <1>5 DEF IInv, CandidateLocked
<1>8. \A v \in Worker : Activating(v)' => v # w /\ Activating(v)
  BY <1>1 DEF Activating, SetsStatus
<1>9. OneActivates'
  BY <1>8 DEF IInv, OneActivates
<1>10. ActivatorRetires'
  <2> SUFFICES ASSUME NEW v \in Worker, Activating(v)',
                      NEW q \in Pub \ {cand[v]}, Active(q)
               PROVE  pubLock'[q] = v
    BY <1>1 DEF ActivatorRetires, Active
  <2>1. pubLock[q] = v
    BY <1>8 DEF IInv, ActivatorRetires
  <2> QED  BY <1>1, <1>3, <1>4, <2>1
<1>11. KeeperRetiresNothing'
  <2> SUFFICES ASSUME NEW v \in Worker, phase'[v] \in {"flush", "index", "rows"},
                      ~SetsStatus(v), NEW q \in Pub \ {cand[v]}
               PROVE  pubLock'[q] # v
    BY <1>1 DEF KeeperRetiresNothing, SetsStatus
  <2>1. pubLock[q] # v
    BY <1>1 DEF IInv, KeeperRetiresNothing
  <2> QED  BY <1>3, <2>1
<1>12. SingleActive'
  BY <1>1 DEF IInv, SingleActive, Active
<1> QED  BY <1>6, <1>7, <1>9, <1>10, <1>11, <1>12

\* The unique index lets a transaction write an ACTIVE entry when no other
\* one has, and only if it retires every ACTIVE row there is.
LEMMA IndexKeepsInvariant ==
  ASSUME IInv, NEW w \in Worker, WriteIndexEntry(w)
  PROVE  /\ LocksMeanActive'
         /\ CandidateLocked'
         /\ OneActivates'
         /\ ActivatorRetires'
         /\ KeeperRetiresNothing'
         /\ SingleActive'
<1>1. /\ TypeOK /\ phase[w] = "index" /\ phase'[w] = "rows"
      /\ \A v \in Worker \ {w} : phase'[v] = phase[v]
      /\ status' = status /\ cand' = cand /\ seen' = seen /\ pubLock' = pubLock
  BY DEF WriteIndexEntry, Goto, IInv, TypeOK, tables, locks, txn
<1>2. \A v \in Worker : phase[v] \in {"index", "rows"} =>
        cand[v] \in Pub /\ pubLock[cand[v]] = v
  BY <1>1 DEF IInv, CandidateLocked, TypeOK, InTransaction
<1>3. \A v \in Worker : v # Free
  BY StoreAssumption
<1>4. LocksMeanActive'
  BY <1>1 DEF IInv, LocksMeanActive, Active
<1>5. CandidateLocked'
  BY <1>1 DEF IInv, CandidateLocked
<1>6. \A v \in Worker \ {w} : ~Activating(v)
  <2> SUFFICES ASSUME NEW v \in Worker \ {w}, Activating(v)
               PROVE  FALSE
    OBVIOUS
  <2>1. pubLock[cand[v]] = v /\ cand[v] \in Pub
    BY <1>2 DEF Activating
  <2>2. cand[v] # cand[w]
    BY <1>1, <1>2, <2>1
  <2>3. cand[v] \in InDoubt(w)
    BY <1>3, <2>1, <2>2 DEF InDoubt, Activating
  <2> QED  BY <2>3 DEF WriteIndexEntry
<1>7. OneActivates'
  BY <1>1, <1>6 DEF OneActivates, Activating, SetsStatus
<1>8. ActivatorRetires'
  <2> SUFFICES ASSUME NEW v \in Worker, Activating(v)',
                      NEW q \in Pub \ {cand[v]}, Active(q)
               PROVE  pubLock[q] = v
    BY <1>1 DEF ActivatorRetires, Active
  <2>1. v = w
    BY <1>1, <1>6 DEF Activating, SetsStatus
  <2> QED  BY <2>1 DEF WriteIndexEntry, OtherActiveRemains
<1>9. KeeperRetiresNothing'
  BY <1>1 DEF IInv, KeeperRetiresNothing, SetsStatus
<1>10. SingleActive'
  BY <1>1 DEF IInv, SingleActive, Active
<1> QED  BY <1>4, <1>5, <1>7, <1>8, <1>9, <1>10

\* Steps that change neither a publication row nor its locks, of a worker
\* that is not between its retiring UPDATE and its end, or stays there.
LEMMA QuietKeepsInvariant ==
  ASSUME IInv, NEW w \in Worker, UNCHANGED <<status, pubLock, seen>>,
         \A v \in Worker \ {w} : phase'[v] = phase[v] /\ cand'[v] = cand[v],
         \/ UNCHANGED <<phase, cand>>
         \/ phase[w] \notin InTransaction /\ phase'[w] \notin InTransaction \ {"retire"}
  PROVE  /\ LocksMeanActive'
         /\ CandidateLocked'
         /\ OneActivates'
         /\ ActivatorRetires'
         /\ KeeperRetiresNothing'
         /\ SingleActive'
<1>1. LocksMeanActive'
  BY DEF IInv, LocksMeanActive, Active, InTransaction
<1>2. CandidateLocked'
  BY DEF IInv, CandidateLocked, InTransaction
<1>3. OneActivates'
  BY DEF IInv, OneActivates, Activating, SetsStatus, InTransaction
<1>4. ActivatorRetires'
  BY DEF IInv, ActivatorRetires, Activating, SetsStatus, Active, InTransaction
<1>5. KeeperRetiresNothing'
  BY DEF IInv, KeeperRetiresNothing, SetsStatus, InTransaction
<1>6. SingleActive'
  BY DEF IInv, SingleActive, Active
<1> QED  BY <1>1, <1>2, <1>3, <1>4, <1>5, <1>6

LEMMA StepKeepsInvariant ==
  ASSUME IInv, NEW w \in Worker,
         Begin(w) \/ SeedStep(w) \/ HydrateStep(w) \/ Rollback(w) \/ Finish(w)
  PROVE  /\ LocksMeanActive'
         /\ CandidateLocked'
         /\ OneActivates'
         /\ ActivatorRetires'
         /\ KeeperRetiresNothing'
         /\ SingleActive'
<1>1. TypeOK
  BY DEF IInv
<1>2. CASE RetireOthers(w)
  BY <1>2, RetireKeepsInvariant
<1>3. CASE MergePublication(w)
  BY <1>3, MergeKeepsInvariant
<1>4. CASE LockCandidate(w) \/ WriteIndexEntry(w)
  BY <1>4, LockKeepsInvariant, IndexKeepsInvariant
<1>5. CASE FlushConflict(w) \/ Rollback(w)
  BY <1>5, EndKeepsInvariant DEF FlushConflict, Rollback, tables
<1>6. CASE CommitSeed(w)
  BY <1>6, CommitKeepsInvariant
<1>7. ASSUME NEW r \in Row, LoadRow(w, r) \/ WriteRow(w, r)
      PROVE  UNCHANGED <<status, pubLock, seen, phase, cand>>
  BY <1>7 DEF LoadRow, WriteRow, tables, locks
<1>8. ASSUME NEW p \in Pub, BeginSeed(w, p)
      PROVE  /\ UNCHANGED <<status, pubLock, seen>>
             /\ phase[w] \notin InTransaction /\ phase'[w] = "retire"
             /\ \A v \in Worker \ {w} : phase'[v] = phase[v] /\ cand'[v] = cand[v]
  BY <1>1, <1>8 DEF BeginSeed, Goto, TypeOK, InTransaction, tables, locks
<1>9. ASSUME BeginHydrate(w) \/ HydrateStep(w) \/ Finish(w)
      PROVE  /\ UNCHANGED <<status, pubLock, seen, cand>>
             /\ phase[w] \notin InTransaction /\ phase'[w] \notin InTransaction
             /\ \A v \in Worker \ {w} : phase'[v] = phase[v]
  BY <1>1, <1>9
     DEF BeginHydrate, HydrateStep, ReadPublication, NoActivePublication,
         ReadText, ReadGraph, Finish, Goto, TypeOK, InTransaction, Hydrating,
         tables, locks, txn
<1>10. CASE \E r \in Row : LoadRow(w, r) \/ WriteRow(w, r)
  BY <1>7, <1>10, QuietKeepsInvariant
<1>11. CASE Begin(w)
  BY <1>8, <1>9, <1>11, QuietKeepsInvariant DEF Begin
<1>12. CASE HydrateStep(w) \/ Finish(w)
  BY <1>9, <1>12, QuietKeepsInvariant
<1> QED  BY <1>2, <1>3, <1>4, <1>5, <1>6, <1>10, <1>11, <1>12 DEF SeedStep

LEMMA InvariantInitially == Init => IInv
<1> SUFFICES ASSUME Init
             PROVE  IInv
  OBVIOUS
<1>1. TypeOK
  BY TypesInitially
<1>2. /\ \A w \in Worker : phase[w] = "idle" /\ w # Free
      /\ \A p \in Pub : pubLock[p] = Free /\ ~Active(p)
  BY StoreAssumption DEF Init, Active
<1> QED  BY <1>1, <1>2 DEF IInv, LocksMeanActive, CandidateLocked, OneActivates,
            ActivatorRetires, KeeperRetiresNothing, SingleActive, Activating

LEMMA InvariantPreserved == IInv /\ [Next]_storeVars => IInv'
<1> SUFFICES ASSUME IInv, [Next]_storeVars
             PROVE  IInv'
  OBVIOUS
<1>1. TypeOK'
  BY TypesPreserved DEF IInv
<1>2. CASE Next
  BY <1>1, <1>2, StepKeepsInvariant DEF Next, IInv
<1>3. CASE UNCHANGED storeVars
  BY <1>1, <1>3
     DEF storeVars, IInv, LocksMeanActive, CandidateLocked, OneActivates,
         ActivatorRetires, KeeperRetiresNothing, SingleActive, Activating,
         SetsStatus, Active
<1> QED  BY <1>2, <1>3

LEMMA InvariantHolds == Spec => []IInv
BY InvariantInitially, InvariantPreserved, PTL DEF Spec

\* Any number of processes may seed any publications at any time: no two of
\* them are ever committed ACTIVE together.
THEOREM OneActivePublication == Spec => []SingleActive
<1>1. IInv => SingleActive
  BY DEF IInv
<1> QED  BY <1>1, InvariantHolds, PTL

LEMMA StepKeepsAnActive ==
  IInv /\ [Next]_storeVars
    => ((\E p \in Pub : Active(p)) => (\E p \in Pub : Active(p))')
<1> SUFFICES ASSUME IInv, [Next]_storeVars, \E p \in Pub : Active(p)
             PROVE  (\E p \in Pub : Active(p))'
  OBVIOUS
<1>1. ASSUME NEW w \in Worker, CommitSeed(w)
      PROVE  (\E p \in Pub : Active(p))'
  BY <1>1, CommitStatus DEF Active
<1>2. ASSUME NEW w \in Worker,
             \/ Begin(w) \/ HydrateStep(w) \/ Rollback(w) \/ Finish(w)
             \/ SeedStep(w) /\ ~CommitSeed(w)
      PROVE  status' = status
  BY <1>2
     DEF Begin, BeginSeed, BeginHydrate, HydrateStep, ReadPublication,
         NoActivePublication, ReadText, ReadGraph, Rollback, Finish, SeedStep,
         RetireOthers, MergePublication, LockCandidate, WriteIndexEntry,
         FlushConflict, LoadRow, WriteRow, tables
<1>3. CASE UNCHANGED storeVars
  BY <1>3 DEF storeVars, Active
<1> QED  BY <1>1, <1>2, <1>3 DEF Next, Active

\* The rows that a seed retires and the row that it activates change in one
\* commit, and a seed that merges its candidate as already ACTIVE retires
\* none: readers that select the active publication never find it gone.
THEOREM AlwaysAnActivePublication == Spec => NeverWithoutActive
BY InvariantHolds, StepKeepsAnActive, PTL DEF Spec, NeverWithoutActive

-----------------------------------------------------------------------------
(* Row locks and what is written under them *)

\* A seed that has got its candidate's row has yet to merge all of the content.
\* A canonical row is locked by a seed that has merged it, and what that seed
\* has still to merge comes later in its content.
RowLocksMerged ==
  \A w \in Worker :
    /\ phase[w] = "index" => todo[w] = RowsOf[cand[w]]
    /\ \A r \in Row : rowLock[r] = w =>
         /\ phase[w] = "rows" /\ r \in RowsOf[cand[w]]
         /\ \A x \in todo[w] : Order[cand[w]][r] < Order[cand[w]][x]

\* The steps that end a transaction, and those that write no canonical row.
TransactionEnds(w) == Rollback(w) \/ FlushConflict(w) \/ CommitSeed(w)
Elsewhere(w) ==
  \/ Begin(w) \/ HydrateStep(w) \/ Finish(w)
  \/ RetireOthers(w) \/ MergePublication(w) \/ LockCandidate(w) \/ WriteIndexEntry(w)
AnyStep(w) == Begin(w) \/ SeedStep(w) \/ HydrateStep(w) \/ Rollback(w) \/ Finish(w)

LEMMA KindsOfSteps ==
  ASSUME NEW w \in Worker, AnyStep(w)
  PROVE  TransactionEnds(w) \/ Elsewhere(w) \/ \E r \in Row : LoadRow(w, r) \/ WriteRow(w, r)
BY DEF AnyStep, SeedStep, TransactionEnds, Elsewhere

LEMMA ElsewhereFacts ==
  ASSUME TypeOK, NEW w \in Worker, Elsewhere(w)
  PROVE  /\ phase[w] # "rows"
         /\ UNCHANGED <<table, rowLock, draft, loaded>>
         /\ \A v \in Worker \ {w} :
              /\ phase'[v] = phase[v] /\ cand'[v] = cand[v]
              /\ seen'[v] = seen[v] /\ todo'[v] = todo[v]
BY DEF TypeOK, Elsewhere, Begin, BeginSeed, BeginHydrate, HydrateStep, ReadPublication,
     NoActivePublication, ReadText, ReadGraph, Finish, RetireOthers, MergePublication,
     LockCandidate, WriteIndexEntry, Goto, Hydrating, tables, locks, txn

\* A step of one worker leaves the others their state, locks and drafts.
LEMMA OtherTransactions ==
  ASSUME TypeOK, NEW w \in Worker, AnyStep(w), NEW v \in Worker \ {w}
  PROVE  /\ phase'[v] = phase[v] /\ cand'[v] = cand[v] /\ seen'[v] = seen[v]
         /\ todo'[v] = todo[v] /\ loaded'[v] = loaded[v]
         /\ \A r \in Row :
              /\ rowLock'[r] = v <=> rowLock[r] = v
              /\ rowLock[r] = v => draft'[r] = draft[r]
<1>1. CASE TransactionEnds(w)
  BY <1>1, StoreAssumption
  DEF TypeOK, TransactionEnds, Rollback, FlushConflict, CommitSeed, EndTransaction, Unlocked
<1>2. CASE Elsewhere(w)
  BY <1>2, ElsewhereFacts
<1>3. CASE \E r \in Row : LoadRow(w, r)
  BY <1>3 DEF TypeOK, LoadRow, locks
<1>4. CASE \E r \in Row : WriteRow(w, r)
  BY <1>4, StoreAssumption DEF TypeOK, WriteRow
<1>. QED  BY <1>1, <1>2, <1>3, <1>4, KindsOfSteps

\* The next row is one, and those after it come later.
LEMMA NextRow ==
  ASSUME TypeOK, NEW w \in Worker, phase[w] = "rows", NEW r \in Upcoming(w)
  PROVE  /\ cand[w] \in Pub /\ r \in Row /\ r \in todo[w] /\ r \in RowsOf[cand[w]]
         /\ \A x \in todo[w] \ {r} : Order[cand[w]][r] < Order[cand[w]][x]
         /\ Upcoming(w) = {r}
<1>1. /\ cand[w] \in Pub /\ r \in todo[w] /\ todo[w] \subseteq RowsOf[cand[w]]
      /\ todo[w] \subseteq Row
      /\ \A x \in todo[w] : Order[cand[w]][r] <= Order[cand[w]][x]
  BY DEF TypeOK, InTransaction, Upcoming
<1>2. Order[cand[w]] \in [Row -> Nat]
  BY <1>1, OrderAssumption
<1>3. ASSUME NEW x \in todo[w] \ {r} PROVE Order[cand[w]][r] < Order[cand[w]][x]
  <2>1. Order[cand[w]][r] # Order[cand[w]][x]
    BY <1>1, OrderAssumption
  <2>. QED  BY <1>1, <1>2, <2>1
<1>4. ASSUME NEW x \in Upcoming(w), x # r PROVE FALSE
  <2>1. x \in todo[w] /\ Order[cand[w]][x] <= Order[cand[w]][r]
    BY <1>1, <1>4 DEF Upcoming
  <2>2. Order[cand[w]][x] \in Nat /\ Order[cand[w]][r] \in Nat
    BY <1>1, <1>2, <2>1
  <2>. QED  BY <1>3, <1>4, <2>1, <2>2
<1>5. Upcoming(w) = {r}
  BY <1>4
<1>. QED  BY <1>1, <1>3, <1>5

LEMMA StepKeepsRowLocks ==
  ASSUME TypeOK, RowLocksMerged, NEW w \in Worker, AnyStep(w)
  PROVE  RowLocksMerged'
<1>1. \A v \in Worker \ {w} :
        /\ phase'[v] = "index" => todo'[v] = RowsOf[cand'[v]]
        /\ \A r \in Row : rowLock'[r] = v =>
             /\ phase'[v] = "rows" /\ r \in RowsOf[cand'[v]]
             /\ \A x \in todo'[v] : Order[cand'[v]][r] < Order[cand'[v]][x]
  BY OtherTransactions DEF RowLocksMerged
<1>2. /\ phase'[w] = "index" => todo'[w] = RowsOf[cand'[w]]
      /\ \A r \in Row : rowLock'[r] = w =>
           /\ phase'[w] = "rows" /\ r \in RowsOf[cand'[w]]
           /\ \A x \in todo'[w] : Order[cand'[w]][r] < Order[cand'[w]][x]
  <2>1. CASE TransactionEnds(w)
    BY <2>1, StoreAssumption
    DEF TypeOK, TransactionEnds, Rollback, FlushConflict, CommitSeed, EndTransaction, Unlocked
  <2>2. CASE Elsewhere(w)
    <3>1. \A r \in Row : rowLock'[r] # w
      BY <2>2, ElsewhereFacts DEF RowLocksMerged
    <3>2. ASSUME phase'[w] = "index" PROVE LockCandidate(w)
      BY <2>2, <3>2 DEF TypeOK, Elsewhere, Begin, BeginSeed, BeginHydrate, HydrateStep,
           ReadPublication, NoActivePublication, ReadText, ReadGraph, Finish,
           RetireOthers, MergePublication, WriteIndexEntry, Goto
    <3>3. LockCandidate(w) => todo'[w] = RowsOf[cand'[w]]
      BY DEF TypeOK, LockCandidate
    <3>. QED  BY <3>1, <3>2, <3>3
  <2>3. ASSUME NEW r \in Row, LoadRow(w, r) PROVE <1>2!1 /\ <1>2!2
    <3>1. phase' = phase /\ cand' = cand /\ rowLock' = rowLock /\ todo'[w] \subseteq todo[w]
          /\ phase[w] = "rows"
      BY <2>3 DEF TypeOK, LoadRow, locks
    <3>. QED  BY <3>1 DEF RowLocksMerged
  <2>4. ASSUME NEW r \in Row, WriteRow(w, r) PROVE <1>2!1 /\ <1>2!2
    <3>1. /\ phase[w] = "rows" /\ phase' = phase /\ cand' = cand
          /\ todo'[w] = todo[w] \ {r} /\ r \in Upcoming(w)
          /\ \A x \in Row : rowLock'[x] = w => rowLock[x] = w \/ x = r
      BY <2>4 DEF WriteRow, TypeOK
    <3>2. /\ r \in RowsOf[cand[w]]
          /\ \A x \in todo[w] \ {r} : Order[cand[w]][r] < Order[cand[w]][x]
      BY <3>1, NextRow
    <3>. QED  BY <3>1, <3>2 DEF RowLocksMerged
  <2>. QED  BY <2>1, <2>2, <2>3, <2>4, KindsOfSteps
<1>. QED  BY <1>1, <1>2 DEF RowLocksMerged

LEMMA RowLocksHold == Spec => []RowLocksMerged
<1>1. Init => RowLocksMerged
  BY StoreAssumption DEF Init, RowLocksMerged
<1>2. TypeOK /\ RowLocksMerged /\ [Next]_storeVars => RowLocksMerged'
  <2>. SUFFICES ASSUME TypeOK, RowLocksMerged, [Next]_storeVars PROVE RowLocksMerged'
    OBVIOUS
  <2>1. CASE UNCHANGED storeVars
    BY <2>1 DEF RowLocksMerged, storeVars
  <2>. QED  BY <2>1, StepKeepsRowLocks DEF Next, AnyStep
<1>. QED  BY <1>1, <1>2, TypesCorrect, PTL DEF Spec

\* What a seed has written in a row it holds are, column by column, the values
\* of its candidate, or what the row holds.
DraftsMix ==
  \A w \in Worker : \A r \in Row : rowLock[r] = w =>
    /\ draft[r] \in Record
    /\ \A c \in Column :
         \/ draft[r][c] = Content[cand[w]][r][c]
         \/ table[r] # NoRow /\ draft[r][c] = table[r][c]

LEMMA StepKeepsDrafts ==
  ASSUME TypeOK, RowLocksMerged, DraftsMix, NEW w \in Worker, AnyStep(w)
  PROVE  DraftsMix'
<1>. DEFINE Mixed(r, v) ==
              /\ draft'[r] \in Record
              /\ \A c \in Column :
                   \/ draft'[r][c] = Content[cand'[v]][r][c]
                   \/ table'[r] # NoRow /\ draft'[r][c] = table'[r][c]
<1>1. ASSUME NEW v \in Worker \ {w}, NEW r \in Row, rowLock'[r] = v
      PROVE  Mixed(r, v)
  <2>1. rowLock[r] = v /\ cand'[v] = cand[v] /\ draft'[r] = draft[r]
    BY <1>1, OtherTransactions
  <2>2. table'[r] = table[r]
    <3>1. CASE Elsewhere(w)
      BY <3>1, ElsewhereFacts
    <3>2. CASE TransactionEnds(w)
      BY <2>1, <3>2 DEF TransactionEnds, Rollback, FlushConflict, CommitSeed, TableAfter, tables
    <3>3. CASE \E x \in Row : LoadRow(w, x) \/ WriteRow(w, x)
      BY <3>3 DEF LoadRow, WriteRow, tables
    <3>. QED  BY <3>1, <3>2, <3>3, KindsOfSteps
  <2>. QED  BY <2>1, <2>2 DEF DraftsMix
<1>2. ASSUME NEW r \in Row, rowLock'[r] = w
      PROVE  Mixed(r, w)
  <2>1. ~TransactionEnds(w)
    BY <1>2, StoreAssumption
    DEF TypeOK, TransactionEnds, Rollback, FlushConflict, CommitSeed, EndTransaction, Unlocked
  <2>2. ~Elsewhere(w)
    BY <1>2, ElsewhereFacts DEF RowLocksMerged
  <2>3. CASE \E x \in Row : LoadRow(w, x)
    BY <1>2, <2>3 DEF LoadRow, DraftsMix, tables, locks
  <2>4. ASSUME NEW x \in Row, WriteRow(w, x) PROVE Mixed(r, w)
    <3>1. CASE r = x
      <4>1. Written(w, r) \in Record /\ draft'[r] = Written(w, r)
        BY <2>4, <3>1, WrittenIsRecord DEF TypeOK, WriteRow, Rows
      <4>2. cand' = cand /\ table' = table /\ StillThere(w, r)
        BY <2>4, <3>1 DEF WriteRow, tables
      <4>. QED  BY <4>1, <4>2 DEF Written, StillThere
    <3>2. CASE r # x
      <4>1. /\ rowLock[r] = w /\ draft'[r] = draft[r]
            /\ cand' = cand /\ table' = table
        BY <1>2, <2>4, <3>2 DEF TypeOK, WriteRow, Rows, tables
      <4>. QED  BY <4>1 DEF DraftsMix
    <3>. QED  BY <3>1, <3>2
  <2>. QED  BY <2>1, <2>2, <2>3, <2>4, KindsOfSteps
<1>. QED  BY <1>1, <1>2 DEF DraftsMix

LEMMA DraftsHold == Spec => []DraftsMix
<1>1. Init => DraftsMix
  BY StoreAssumption DEF Init, DraftsMix
<1>2. TypeOK /\ RowLocksMerged /\ DraftsMix /\ [Next]_storeVars => DraftsMix'
  <2>. SUFFICES ASSUME TypeOK, RowLocksMerged, DraftsMix, [Next]_storeVars
                PROVE  DraftsMix'
    OBVIOUS
  <2>1. CASE UNCHANGED storeVars
    BY <2>1 DEF DraftsMix, storeVars
  <2>. QED  BY <2>1, StepKeepsDrafts DEF Next, AnyStep
<1>. QED  BY <1>1, <1>2, TypesCorrect, RowLocksHold, PTL DEF Spec

-----------------------------------------------------------------------------
(* Rows of the active publication *)

Whole == ActiveComplete /\ ActivationsComplete

\* A seed that leaves its candidate active has, locked or found, every row of
\* it, and no other seed is about to activate: the index and the row of the
\* candidate see to that.
LEMMA CommitKeepsWhole ==
  ASSUME IInv, DraftsMix, Whole, NEW w \in Worker, CommitSeed(w),
         status'[cand[w]] = "ACTIVE"
  PROVE  Whole'
<1>1. /\ phase[w] = "rows" /\ todo[w] = {} /\ TypeOK
      /\ table' = TableAfter(w)
      /\ phase' = [phase EXCEPT ![w] = "publication"]
      /\ seen' = [seen EXCEPT ![w] = "absent"]
  BY DEF CommitSeed, EndTransaction, IInv
<1>2. /\ cand[w] \in Pub /\ pubLock[cand[w]] = w
      /\ SetsStatus(w) => \A p \in Pub : Active(p)' <=> p = cand[w]
      /\ ~SetsStatus(w) => status' = status
  BY <1>1, CommitStatus DEF IInv, CandidateLocked
<1>3. \A r \in RowsOf[cand[w]] : r \in Row /\ table'[r] = Pending(w, r)
  BY <1>1, <1>2, StoreAssumption DEF TableAfter, Pending
<1>4. \A v \in Worker : Activating(v)' => v # w /\ Activating(v)
  BY <1>1 DEF TypeOK, Activating, SetsStatus
<1>5. CASE SetsStatus(w)
  <2>1. Activating(w)
    BY <1>1, <1>5 DEF Activating
  <2>2. \A r \in RowsOf[cand[w]] : table'[r] = Content[cand[w]][r]
    BY <1>1, <1>3, <2>1 DEF Whole, ActivationsComplete
  <2>3. ActiveComplete'
    BY <1>2, <1>5, <2>2 DEF ActiveComplete
  <2>4. ~ \E v \in Worker : Activating(v)'
    BY <1>4, <2>1 DEF IInv, OneActivates
  <2>. QED  BY <2>3, <2>4 DEF Whole, ActivationsComplete
<1>6. CASE ~SetsStatus(w)
  <2>1. status' = status /\ Active(cand[w])
    BY <1>2, <1>6 DEF Active
  <2>2. \A p \in Pub : Active(p) => p = cand[w]
    BY <1>2, <2>1 DEF IInv, SingleActive
  <2>3. ASSUME NEW r \in RowsOf[cand[w]] PROVE table'[r] = Content[cand[w]][r]
    <3>1. table[r] = Content[cand[w]][r] /\ r \in Row
      BY <1>2, <1>3, <2>1 DEF Whole, ActiveComplete
    <3>2. CASE rowLock[r] = w
      <4>1. /\ draft[r] \in Record
            /\ \A c \in Column : draft[r][c] = Content[cand[w]][r][c]
        BY <3>1, <3>2 DEF DraftsMix
      <4>2. Content[cand[w]][r] \in Record
        BY <1>2, StoreAssumption
      <4>3. draft[r] = Content[cand[w]][r]
        BY <4>1, <4>2 DEF Record
      <4>. QED  BY <1>3, <3>2, <4>3 DEF Pending
    <3>3. CASE rowLock[r] # w
      BY <1>3, <3>1, <3>3 DEF Pending
    <3>. QED  BY <3>2, <3>3
  <2>4. ActiveComplete'
    BY <2>1, <2>2, <2>3 DEF ActiveComplete, Active
  <2>5. ~ \E v \in Worker : Activating(v)'
    <3>. SUFFICES ASSUME NEW v \in Worker, v # w, Activating(v) PROVE FALSE
      BY <1>4
    <3>1. pubLock[cand[v]] = v
      BY DEF Activating, IInv, CandidateLocked
    <3>2. cand[w] # cand[v] => pubLock[cand[w]] = v
      BY <1>2, <2>1 DEF IInv, ActivatorRetires
    <3>. QED  BY <1>2, <3>1, <3>2
  <2>. QED  BY <2>4, <2>5 DEF Whole, ActivationsComplete
<1>. QED  BY <1>5, <1>6

\* What the steps before a commit leave: nobody's lock is taken from it, and
\* a row that a seed is about to write is still the one it has loaded.
LEMMA StepKeepsWhole ==
  ASSUME TypeOK, RowLocksMerged, Whole, NEW w \in Worker, AnyStep(w), ~CommitSeed(w)
  PROVE  Whole'
<1>. DEFINE Done(v) ==
              /\ \A r \in RowsOf[cand'[v]] \ todo'[v] :
                   Pending(v, r)' = Content[cand'[v]][r]
              /\ \A r \in Upcoming(v)' : loaded'[v] \in {Unread, table'[r]}
<1>1. UNCHANGED <<status, table>>
  BY DEF AnyStep, Begin, BeginSeed, BeginHydrate, HydrateStep, ReadPublication,
         NoActivePublication, ReadText, ReadGraph, Rollback, Finish, SeedStep,
         RetireOthers, MergePublication, LockCandidate, WriteIndexEntry,
         FlushConflict, LoadRow, WriteRow, tables
<1>2. ActiveComplete'
  BY <1>1 DEF ActiveComplete, Active, Whole
<1>3. ASSUME NEW v \in Worker, v # w, Activating(v)' PROVE Done(v)
  <2>1. /\ cand'[v] = cand[v] /\ todo'[v] = todo[v] /\ loaded'[v] = loaded[v]
        /\ \A r \in Row : /\ rowLock'[r] = v <=> rowLock[r] = v
                          /\ rowLock[r] = v => draft'[r] = draft[r]
        /\ Activating(v)
    BY <1>3, OtherTransactions DEF Activating, SetsStatus
  <2>2. cand[v] \in Pub /\ RowsOf[cand[v]] \subseteq Row
    BY <2>1, StoreAssumption DEF TypeOK, Activating, InTransaction
  <2>3. Upcoming(v)' = Upcoming(v)
    BY <2>1 DEF Upcoming
  <2>. QED  BY <1>1, <2>1, <2>2, <2>3 DEF Whole, ActivationsComplete, Pending
<1>4. ASSUME Activating(w)' PROVE Done(w)
  <2>1. phase'[w] = "rows" /\ SetsStatus(w)'
    BY <1>4 DEF Activating
  <2>2. ~TransactionEnds(w)
    BY <2>1 DEF TypeOK, TransactionEnds, Rollback, FlushConflict, EndTransaction
  <2>3. CASE Elsewhere(w)
    <3>1. WriteIndexEntry(w)
      BY <2>1, <2>3 DEF TypeOK, Elsewhere, Begin, BeginSeed, BeginHydrate, HydrateStep,
           ReadPublication, NoActivePublication, ReadText, ReadGraph, Finish,
           RetireOthers, MergePublication, LockCandidate, SetsStatus, Goto
    <3>2. cand' = cand /\ todo' = todo /\ loaded' = loaded /\ phase[w] = "index"
      BY <3>1 DEF WriteIndexEntry, Goto, txn
    <3>3. todo'[w] = RowsOf[cand'[w]] /\ loaded'[w] = Unread
      BY <3>2 DEF RowLocksMerged, TypeOK
    <3>. QED  BY <3>3
  <2>4. ASSUME NEW x \in Row, LoadRow(w, x) PROVE Done(w)
    <3>1. /\ phase[w] = "rows" /\ cand' = cand /\ seen' = seen /\ x \in Upcoming(w)
          /\ rowLock' = rowLock /\ draft' = draft /\ loaded[w] = Unread
          /\ Activating(w)
      BY <2>1, <2>4 DEF LoadRow, locks, Activating, SetsStatus
    <3>2. /\ cand[w] \in Pub /\ x \in todo[w] /\ x \in RowsOf[cand[w]]
          /\ Upcoming(w) = {x}
      BY <3>1, NextRow
    <3>3. ASSUME NEW r \in RowsOf[cand[w]] \ todo[w]
          PROVE  Pending(w, r)' = Content[cand[w]][r]
      BY <1>1, <3>1, <3>3 DEF Whole, ActivationsComplete, Pending
    <3>4. CASE table[x] = Content[cand[w]][x] /\ todo'[w] = todo[w] \ {x} /\ loaded' = loaded
      <4>1. rowLock[x] # w
        <5>1. Order[cand[w]][x] \in Nat
          BY <3>2, OrderAssumption
        <5>. QED  BY <3>2, <5>1 DEF RowLocksMerged
      <4>2. Pending(w, x)' = Content[cand[w]][x]
        BY <1>1, <3>1, <3>4, <4>1 DEF Pending
      <4>. QED  BY <3>1, <3>3, <3>4, <4>2
    <3>5. CASE loaded'[w] = table[x] /\ todo' = todo
      <4>1. Upcoming(w)' = {x}
        BY <3>1, <3>2, <3>5 DEF Upcoming
      <4>. QED  BY <1>1, <3>1, <3>3, <3>5, <4>1
    <3>. QED  BY <2>4, <3>4, <3>5 DEF LoadRow, TypeOK
  <2>5. ASSUME NEW x \in Row, WriteRow(w, x) PROVE Done(w)
    <3>1. /\ phase[w] = "rows" /\ cand' = cand /\ x \in Upcoming(w)
          /\ todo'[w] = todo[w] \ {x} /\ loaded'[w] = Unread /\ loaded[w] # Unread
          /\ rowLock'[x] = w /\ draft'[x] = Written(w, x)
          /\ \A r \in Row \ {x} : rowLock'[r] = rowLock[r] /\ draft'[r] = draft[r]
          /\ Activating(w)
      BY <2>1, <2>5 DEF TypeOK, Rows, WriteRow, Activating, SetsStatus
    <3>2. /\ cand[w] \in Pub /\ x \in RowsOf[cand[w]] /\ RowsOf[cand[w]] \subseteq Row
      BY <3>1, NextRow, StoreAssumption
    <3>3. loaded[w] = table[x]
      BY <3>1 DEF Whole, ActivationsComplete
    <3>4. Written(w, x) = Content[cand[w]][x]
      <4>1. \A c \in Column : Written(w, x)[c] = Content[cand[w]][x][c]
        BY <3>3 DEF Written
      <4>2. Content[cand[w]][x] \in [Column -> Value]
        BY <3>2, StoreAssumption DEF Record
      <4>3. Written(w, x) = [c \in Column |-> Written(w, x)[c]]
        BY DEF Written
      <4>. QED  BY <4>1, <4>2, <4>3
    <3>5. ASSUME NEW r \in RowsOf[cand[w]] \ todo'[w]
          PROVE  Pending(w, r)' = Content[cand[w]][r]
      <4>1. CASE r = x
        BY <3>1, <3>4, <4>1 DEF Pending
      <4>2. CASE r # x
        <5>1. Pending(w, r) = Content[cand[w]][r] /\ r \in Row
          BY <3>1, <3>2, <3>5, <4>2 DEF Whole, ActivationsComplete
        <5>. QED  BY <1>1, <3>1, <4>2, <5>1 DEF Pending
      <4>. QED  BY <4>1, <4>2
    <3>. QED  BY <3>1, <3>5
  <2>. QED  BY <2>2, <2>3, <2>4, <2>5, KindsOfSteps
<1>5. ActivationsComplete'
  BY <1>3, <1>4 DEF ActivationsComplete
<1>. QED  BY <1>2, <1>5 DEF Whole

\* No interleaving of seeds takes a row from the publication that is active
\* or about to be, but for the commit of one that was retired itself.
THEOREM RowsStayWithTheActive == Spec => OnlyRetiredSeedsTakeRows
<1>. DEFINE RetiredCommits ==
              \E w \in Worker : Commits(w) /\ status'[cand[w]] # "ACTIVE"
<1>1. ASSUME IInv, RowLocksMerged, DraftsMix, [Next]_storeVars, Whole, ~RetiredCommits
      PROVE  Whole'
  <2>1. CASE UNCHANGED storeVars
    BY <1>1, <2>1 DEF Whole, ActiveComplete, ActivationsComplete, Active, Activating,
         SetsStatus, Pending, Upcoming, storeVars
  <2>2. ASSUME NEW w \in Worker, CommitSeed(w) PROVE Whole'
    <3>1. Commits(w)
      BY <1>1, <2>2 DEF Commits, CommitSeed, EndTransaction, IInv, TypeOK
    <3>. QED  BY <1>1, <2>2, <3>1, CommitKeepsWhole
  <2>3. ASSUME NEW w \in Worker, AnyStep(w), ~CommitSeed(w)
        PROVE  Whole'
    BY <1>1, <2>3, StepKeepsWhole DEF IInv
  <2>. QED  BY <1>1, <2>1, <2>2, <2>3 DEF Next, AnyStep
<1>2. IInv /\ RowLocksMerged /\ DraftsMix /\ [Next]_storeVars
        => (Whole => Whole' \/ RetiredCommits)
  BY <1>1
<1>. QED  BY <1>2, InvariantHolds, RowLocksHold, DraftsHold, PTL DEF Spec, OnlyRetiredSeedsTakeRows, Whole

-----------------------------------------------------------------------------
(* Waiting *)

\* Whom a transaction waits for holds its lock; it has got its candidate's row
\* if that is the lock, and has written its index entry if the wait is for a
\* canonical row.
LEMMA AwaitedHolds ==
  ASSUME IInv, RowLocksMerged, NEW w \in Worker, NEW v \in WaitsFor(w)
  PROVE  /\ v \in Worker \ {w}
         /\ \/ phase[w] = "retire" /\ \E q \in Pub : pubLock[q] = v
            \/ phase[w] = "flush" /\ cand[w] \in Pub /\ pubLock[cand[w]] = v
            \/ phase[w] = "index" /\ \E q \in InDoubt(w) : pubLock[q] = v
            \/ /\ phase[w] = "rows" /\ phase[v] = "rows"
               /\ \E r \in Upcoming(w) : rowLock[r] = v
<1>. USE StoreAssumption
<1>1. TypeOK
  BY DEF IInv
<1>2. v # w /\ v # Free
  BY DEF WaitsFor
<1>3. CASE phase[w] = "retire"
  <2>1. PICK q \in scan[w] : pubLock[q] = v
    BY <1>3 DEF WaitsFor
  <2>2. q \in Pub /\ v \in Worker
    BY <1>1, <1>2, <2>1 DEF TypeOK
  <2>. QED  BY <1>2, <1>3, <2>1, <2>2
<1>4. CASE phase[w] = "flush"
  <2>1. pubLock[cand[w]] = v
    BY <1>4 DEF WaitsFor
  <2>2. cand[w] \in Pub
    BY <1>1, <1>4 DEF TypeOK, InTransaction
  <2>3. v \in Worker
    BY <1>1, <1>2, <2>1, <2>2 DEF TypeOK
  <2>. QED  BY <1>2, <1>4, <2>1, <2>2, <2>3
<1>5. CASE phase[w] = "index"
  <2>1. PICK q \in InDoubt(w) : pubLock[q] = v
    BY <1>5 DEF WaitsFor
  <2>2. v \in Worker
    BY <1>1, <1>2, <2>1 DEF TypeOK, InDoubt
  <2>. QED  BY <1>2, <1>5, <2>1, <2>2
<1>6. CASE phase[w] = "rows"
  <2>1. PICK r \in Upcoming(w) : rowLock[r] = v
    BY <1>6 DEF WaitsFor
  <2>2. r \in Row
    BY <1>1, <2>1 DEF TypeOK, Upcoming
  <2>3. v \in Worker
    BY <1>1, <1>2, <2>1, <2>2 DEF TypeOK
  <2>. QED  BY <1>2, <1>6, <2>1, <2>2, <2>3 DEF RowLocksMerged
<1>7. CASE phase[w] \notin {"retire", "flush", "index", "rows"}
  BY <1>7 DEF WaitsFor
<1>. QED  BY <1>3, <1>4, <1>5, <1>6, <1>7

\* One of finitely many numbers is greatest.
LEMMA GreatestExists ==
  ASSUME NEW T, IsFiniteSet(T), T # {}, NEW rank \in [T -> Nat]
  PROVE  \E w \in T : \A v \in T : rank[v] <= rank[w]
<1>. DEFINE Above(w) == {v \in T : rank[v] > rank[w]}
            Sets == {Above(w) : w \in T}
            R == StrictSubsetOrdering(T)
<1>1. Sets \subseteq FiniteSubsetsOf(T) /\ Sets # {}
  <2>1. \A w : Above(w) \subseteq T
    OBVIOUS
  <2>2. \A w : IsFiniteSet(Above(w))
    BY <2>1, FS_Subset
  <2>3. Sets # {}
    <3>1. PICK w \in T : TRUE
      OBVIOUS
    <3>2. Above(w) \in Sets
      OBVIOUS
    <3>. QED  BY <3>2
  <2>4. \A m \in Sets : \E w : m = Above(w)
    OBVIOUS
  <2>. HIDE DEF Above, Sets
  <2>. QED  BY <2>1, <2>2, <2>3, <2>4 DEF FiniteSubsetsOf
<1>2. \E m \in Sets : \A n \in Sets : ~ (<<n, m>> \in R)
  <2>1. IsWellFoundedOn(R, FiniteSubsetsOf(T))
    BY FS_StrictSubsetOrderingWellFounded
  <2>. HIDE DEF Sets, R
  <2>. QED  BY <1>1, <2>1, WFMin
<1>3. PICK w \in T : \A v \in T : ~ (<<Above(v), Above(w)>> \in R)
  BY <1>2
<1>4. ASSUME NEW v \in T, ~ (rank[v] <= rank[w]) PROVE FALSE
  <2>1. rank[v] \in Nat /\ rank[w] \in Nat
    OBVIOUS
  <2>2. v \in Above(w) /\ v \notin Above(v)
    BY <1>4, <2>1
  <2>3. Above(v) \subseteq Above(w)
    BY <1>4
  <2>4. <<Above(v), Above(w)>> \in R
    BY <2>2, <2>3 DEF StrictSubsetOrdering
  <2>. QED  BY <1>3, <2>4
<1>. QED  BY <1>4

\* Among transactions that all wait for one another, of which no two have
\* crossed, some merge rows: before that, a wait is for the one that retires
\* the active publication, and that one is itself behind nobody but a seed of
\* its own candidate.
LEMMA SomeMergesRows ==
  ASSUME IInv, RowLocksMerged, NEW S \in SUBSET Worker, S # {},
         \A w \in S : WaitsFor(w) \cap S # {},
         ~ \E v, w \in S : Crossed(v, w)
  PROVE  \E w \in S : phase[w] = "rows"
<1>1. SUFFICES ASSUME \A w \in S : phase[w] # "rows" PROVE FALSE
  OBVIOUS
<1>2. \A w \in S : phase[w] # "merge"
  BY DEF WaitsFor
<1>3. ASSUME NEW w \in S, phase[w] = "index"
      PROVE  \E v \in S \ {w} : \E q \in Pub : Active(q) /\ pubLock[q] = v
  <2>1. PICK v \in S : v \in WaitsFor(w)
    OBVIOUS
  <2>2. PICK q \in InDoubt(w) : v # w /\ pubLock[q] = v
    BY <1>3, <2>1, AwaitedHolds
  <2>. QED  BY <1>1, <2>2 DEF InDoubt
<1>4. ASSUME NEW w \in S, phase[w] = "flush"
      PROVE  \E v \in S \ {w} : Active(cand[w]) /\ pubLock[cand[w]] = v /\ cand[w] \in Pub
  <2>1. PICK v \in S : v \in WaitsFor(w)
    OBVIOUS
  <2>2. v # w /\ cand[w] \in Pub /\ pubLock[cand[w]] = v
    BY <1>4, <2>1, AwaitedHolds
  <2>3. CASE cand[v] = cand[w]
    <3>1. phase[v] = "index"
      BY <1>1, <2>2, <2>3 DEF IInv, LocksMeanActive
    <3>. QED  BY <1>4, <2>2, <2>3, <3>1 DEF Crossed
  <2>4. CASE cand[v] # cand[w]
    BY <2>2, <2>4 DEF IInv, LocksMeanActive
  <2>. QED  BY <2>2, <2>3, <2>4
<1>5. ASSUME NEW w \in S, NEW q \in Pub, Active(q), pubLock[q] = w PROVE FALSE
  <2>1. phase[w] \in {"flush", "index"}
    BY <1>1, <1>2, <1>5 DEF IInv, LocksMeanActive
  <2>2. PICK v \in S \ {w}, p \in Pub : Active(p) /\ pubLock[p] = v
    BY <1>3, <1>4, <2>1
  <2>3. p = q
    BY <1>5, <2>2 DEF IInv, SingleActive
  <2>. QED  BY <1>5, <2>2, <2>3
<1>6. \A w \in S : phase[w] \notin {"flush", "index"}
  BY <1>3, <1>4, <1>5
<1>7. PICK w \in S, v \in S : v \in WaitsFor(w)
  OBVIOUS
<1>8. PICK q \in Pub : pubLock[q] = v
  BY <1>1, <1>6, <1>7, AwaitedHolds
<1>. QED  BY <1>1, <1>2, <1>6, <1>8 DEF IInv, LocksMeanActive

\* Row by row seeds wait upwards in the order their contents agree on.
LEMMA NoCircle ==
  ASSUME IInv, RowLocksMerged
  PROVE  OnlyCrossedSeedsDeadlock
<1>. SUFFICES ASSUME OrdersAgree, NEW S \in SUBSET Worker, S # {},
                     \A w \in S : WaitsFor(w) \cap S # {},
                     ~ \E v, w \in S : Crossed(v, w)
              PROVE  FALSE
  BY DEF OnlyCrossedSeedsDeadlock
<1>. DEFINE T == {w \in S : phase[w] = "rows"}
            next == [w \in T |-> CHOOSE r : r \in Upcoming(w)]
            rank == [w \in T |-> Order[cand[w]][next[w]]]
<1>1. T # {} /\ IsFiniteSet(T)
  BY SomeMergesRows, FS_Subset, OrderAssumption
<1>2. ASSUME NEW w \in T
      PROVE  /\ cand[w] \in Pub /\ Order[cand[w]] \in [Row -> Nat]
             /\ todo[w] \subseteq RowsOf[cand[w]] /\ todo[w] \subseteq Row
  BY StoreAssumption, OrderAssumption DEF IInv, TypeOK, InTransaction
<1>3. ASSUME NEW w \in T
      PROVE  \E v \in T : \E r \in Upcoming(w) : rowLock[r] = v
  <2>1. PICK v \in S : v \in WaitsFor(w)
    OBVIOUS
  <2>. QED  BY <2>1, AwaitedHolds
<1>4. ASSUME NEW w \in T, NEW r \in Upcoming(w)
      PROVE  r \in todo[w] /\ r \in RowsOf[cand[w]] /\ rank[w] = Order[cand[w]][r]
  <2>1. next[w] \in Upcoming(w)
    BY <1>4
  <2>2. r \in todo[w] /\ next[w] \in todo[w]
    BY <2>1 DEF Upcoming
  <2>3. /\ Order[cand[w]][r] <= Order[cand[w]][next[w]]
        /\ Order[cand[w]][next[w]] <= Order[cand[w]][r]
    BY <2>1, <2>2 DEF Upcoming
  <2>4. Order[cand[w]][r] \in Nat /\ Order[cand[w]][next[w]] \in Nat
    BY <1>2, <2>2
  <2>5. rank[w] = Order[cand[w]][next[w]]
    OBVIOUS
  <2>. HIDE DEF next, rank
  <2>. QED  BY <1>2, <2>2, <2>3, <2>4, <2>5
<1>. HIDE DEF next, rank
<1>5. rank \in [T -> Nat]
  <2>1. \A w \in T : rank[w] \in Nat
    BY <1>2, <1>3, <1>4
  <2>. QED  BY <2>1 DEF rank
<1>6. PICK w \in T : \A v \in T : rank[v] <= rank[w]
  <2>. HIDE DEF T
  <2>. QED  BY <1>1, <1>5, GreatestExists
<1>7. PICK v \in T, r \in Upcoming(w) : rowLock[r] = v
  BY <1>3
<1>8. PICK x \in Upcoming(v) : TRUE
  BY <1>3
<1>9. /\ r \in Row /\ r \in RowsOf[cand[w]] /\ rank[w] = Order[cand[w]][r]
      /\ x \in todo[v] /\ rank[v] = Order[cand[v]][x]
  BY <1>2, <1>4
<1>10. r \in RowsOf[cand[v]] /\ Order[cand[v]][r] < Order[cand[v]][x]
  BY <1>7, <1>9 DEF RowLocksMerged
<1>11. Order[cand[w]][r] = Order[cand[v]][r]
  BY <1>2, <1>9, <1>10 DEF OrdersAgree
<1>12. rank[v] \in Nat /\ rank[w] \in Nat /\ rank[v] <= rank[w] /\ rank[w] < rank[v]
  BY <1>5, <1>6, <1>9, <1>10, <1>11
<1>. QED  BY <1>12

\* If contents list the rows they share in one order, seeds deadlock only where
\* two of one publication have crossed, one holding its row and the other the
\* active publication's: however many there are, and whatever rows they share.
THEOREM DeadlocksAreCrossings == Spec => []OnlyCrossedSeedsDeadlock
<1>1. IInv /\ RowLocksMerged => OnlyCrossedSeedsDeadlock
  BY NoCircle
<1>. QED  BY <1>1, InvariantHolds, RowLocksHold, PTL

=============================================================================
