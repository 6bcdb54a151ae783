----------------------- MODULE PublicationReloadProofs -----------------------
(***************************************************************************)
(* Theorems about the replicas over the publication store, for any number  *)
(* of workers, replicas, publications, rows, reloads and faults.           *)
(*                                                                         *)
(* Every step of a job is a step of the store or none of its business, so  *)
(* the invariants of PublicationStoreProofs hold here too. On top of them  *)
(* comes what each job has read, what is in Neo4j and what is served: as   *)
(* long as no seed has raced, it is whole.                                 *)
(***************************************************************************)
EXTENDS PublicationReload, PublicationStoreProofs

\* The content of no publication lacks a text row of its own versions.
NothingRemoved == \A p \in Pub : VersionRows[p] \subseteq RowsOf[p]

\* A row with the id of a publication is in its content.
RowsOwned ==
  \A r \in Row : \A p \in Pub : WrittenFor(p, r) => r \in RowsOf[p]

\* These rows are those of p, and text rows of its versions perhaps.
RowsAs(rows, p) ==
  /\ \A r \in RowsOf[p] \ ChunkRow : rows[r] = Content[p][r]
  /\ \A r \in Row \ (RowsOf[p] \ ChunkRow) : rows[r] = NoRow \/ r \in VersionRows[p]

\* A reload goes on to Neo4j and the audit log with what it has hydrated.
JobsHydrated ==
  \A w \in Worker : job[w] \in {"project", "audit"} => phase[w] = "hydrated"

Reading == {"text", "graph", "hydrated"}

\* What a job has read so far of the active publication is all there is.
ReadWhole(w) ==
  /\ phase[w] \in Reading => readPub[w] \in Pub /\ Active(readPub[w])
  /\ phase[w] = "graph" =>
       /\ \A r \in RowsOf[readPub[w]] \cap TextRow :
            readRows[w][r] = Content[readPub[w]][r]
       /\ \A r \in Row \ VersionRows[readPub[w]] : readRows[w][r] = NoRow
  /\ phase[w] = "hydrated" => RowsAs(readRows[w], readPub[w])

ReadsWhole == \A w \in Running : ReadWhole(w)

\* The graph the watermark names is the one of that publication.
ProjectionWhole ==
  watermark # NoPub => stored[watermark] = GraphOf(Served(watermark))

\* A reload finds its own publication where it has put it.
ReloadsAligned ==
  \A w \in Worker :
    /\ job[w] \in {"project", "audit"} => snapshot[at[w]].pub = readPub[w]
    /\ job[w] = "audit" => watermark = readPub[w]

SnapshotsWhole ==
  \A i \in Replica : replica[i] = "up" =>
    snapshot[i].pub \in Pub /\ RowsAs(snapshot[i].rows, snapshot[i].pub)

Uncontested ==
  /\ Whole
  /\ ReadsWhole
  /\ ProjectionWhole
  /\ ReloadsAligned
  /\ SnapshotsWhole

ReloadInv ==
  /\ IInv
  /\ RowLocksMerged
  /\ DraftsMix
  /\ ReloadTypeOK
  /\ RowsOwned
  /\ JobsHydrated
  /\ ~raced => Uncontested

-----------------------------------------------------------------------------
(* Jobs and the store *)

WorkerAction(w) ==
  \/ \E i \in Replica, p \in Pub : Boot(w, i, p) \/ RequestReload(w, i, p)
  \/ JobStep(w)
  \/ StoreFails(w)
  \/ AuditFails(w)

\* Whatever a job does, it takes one step of its own worker in the store, or
\* leaves the store alone.
LEMMA JobsTakeStoreSteps ==
  ASSUME NEW w \in Worker, WorkerAction(w)
  PROVE  StoreStep(w) \/ Begin(w) \/ Rollback(w) \/ Finish(w) \/ UNCHANGED storeVars
<1>1. CASE \E i \in Replica, p \in Pub : Boot(w, i, p) \/ RequestReload(w, i, p)
  BY <1>1 DEF Boot, RequestReload, Begin
<1>2. CASE StoreFails(w) \/ AuditFails(w)
  BY <1>2 DEF StoreFails, AuditFails
<1>3. CASE JobStep(w)
  <2>1. CASE StoreStep(w) \/ StartHydrates(w) \/ Reap(w)
    BY <2>1 DEF StartHydrates, Reap, Begin
  <2>2. CASE JobFails(w) \/ AssignReloaded(w) \/ ProjectReloaded(w) \/ SeedMockRetries(w)
    BY <2>2 DEF JobFails, AssignReloaded, ProjectReloaded, SeedMockRetries
  <2>3. CASE \/ ProjectionFails(w) \/ AuditReload(w) \/ SeedMockProjects(w)
             \/ SeedMockDegrades(w) \/ StartServes(w)
    BY <2>3 DEF ProjectionFails, AuditReload, SeedMockProjects, SeedMockDegrades,
                SeedMockEnds, StartServes
  <2>. QED  BY <1>3, <2>1, <2>2, <2>3 DEF JobStep
<1>. QED  BY <1>1, <1>2, <1>3 DEF WorkerAction

LEMMA ReloadStepsTheStore == [ReloadNext]_vars => [Next]_storeVars
<1>. SUFFICES ASSUME [ReloadNext]_vars PROVE [Next]_storeVars
  OBVIOUS
<1>1. CASE UNCHANGED vars
  BY <1>1 DEF vars
<1>2. CASE \E i \in Replica : Crash(i)
  BY <1>2 DEF Crash
<1>. QED  BY <1>1, <1>2, JobsTakeStoreSteps DEF ReloadNext, Next, WorkerAction, StoreStep

\* With jobs, replicas, Neo4j and crashes around it the store is the store:
\* its theorems hold of every run of the replicas.
THEOREM ReloadImplementsStore == ReloadSpec => Spec
<1>1. ReloadInit => Init
  BY DEF ReloadInit
<1>. QED  BY <1>1, ReloadStepsTheStore, PTL DEF ReloadSpec, Spec

-----------------------------------------------------------------------------
(* Types *)

LEMMA ReloadTypesInitially == ReloadInit => ReloadTypeOK
<1>. SUFFICES ASSUME ReloadInit PROVE ReloadTypeOK
  OBVIOUS
<1>1. TypeOK
  BY TypesInitially DEF ReloadInit
<1>2. snapshot \in [Replica -> [pub : Pub \cup {NoPub}, rows : Rows]]
  BY DEF ReloadInit, NoSnapshot, Rows, NoRows
<1>3. job \in [Worker -> Job] /\ stored \in [Pub -> Rows]
  BY DEF ReloadInit, Job, Rows, NoRows
<1>4. attempt \in [Worker -> 0 .. GraphAttempts - 1]
  BY ReloadAssumption DEF ReloadInit
<1>5. reloads \in 0 .. MaxReloads /\ faults \in 0 .. MaxFaults
  BY ReloadAssumption DEF ReloadInit
<1>6. /\ replica \in [Replica -> {"down", "booting", "up"}]
      /\ at \in [Worker -> Replica \cup {NoReplica}]
      /\ \A w \in Worker : job[w] = "none" <=> at[w] = NoReplica
      /\ watermark \in Pub \cup {NoPub}
  BY DEF ReloadInit
<1>7. raced \in BOOLEAN
  BY DEF ReloadInit
<1>. QED  BY <1>1, <1>2, <1>3, <1>4, <1>5, <1>6, <1>7 DEF ReloadTypeOK

\* A step keeps the types if it keeps those of what it changes.
LEMMA ReloadStepTypes ==
  ASSUME ReloadTypeOK, TypeOK', NEW w \in Worker, WorkerAction(w)
  PROVE  ReloadTypeOK'
<1>. USE ReloadAssumption
<1>1. /\ readPub[w] \in Pub \cup {NoPub} /\ readRows[w] \in Rows
      /\ GraphOf(readRows[w]) \in Rows
      /\ job[w] # "none" => at[w] \in Replica
  BY DEF ReloadTypeOK, TypeOK, Rows, GraphOf
<1>2. ASSUME ReplaceProjection(w) \/ UNCHANGED graph
      PROVE  stored' \in [Pub -> Rows] /\ watermark' \in Pub \cup {NoPub}
  BY <1>1, <1>2 DEF ReloadTypeOK, ReplaceProjection, graph
<1>3. ASSUME NEW i \in Replica, NEW p \in Pub, Boot(w, i, p) \/ RequestReload(w, i, p)
      PROVE  ReloadTypeOK'
  <2>1. job' \in [Worker -> Job] /\ at' \in [Worker -> Replica \cup {NoReplica}]
    BY <1>3 DEF Boot, RequestReload, Begins, ReloadTypeOK, Job
  <2>2. \A v \in Worker : job'[v] = "none" <=> at'[v] = NoReplica
    BY <1>3 DEF Boot, RequestReload, Begins, ReloadTypeOK
  <2>3. CASE Boot(w, i, p)
    BY <2>1, <2>2, <2>3 DEF Boot, SetReplica, ReloadTypeOK, graph, counters
  <2>4. CASE RequestReload(w, i, p)
    BY <2>1, <2>2, <2>4 DEF RequestReload, ReloadTypeOK, graph
  <2>. QED  BY <1>3, <2>3, <2>4
<1>4. CASE StoreStep(w) \/ StoreFails(w)
  <2>1. raced' \in BOOLEAN
    BY <1>4 DEF StoreStep, StoreFails, ReloadTypeOK
  <2>. QED  BY <1>4, <2>1 DEF StoreStep, StoreFails, ReloadTypeOK, graph, counters
<1>5. CASE AuditFails(w) \/ AuditReload(w)
  BY <1>5 DEF AuditFails, AuditReload, Ends, ReloadTypeOK, Job, graph, counters
<1>6. CASE JobFails(w)
  BY <1>1, <1>6 DEF JobFails, Ends, SetReplica, ReloadTypeOK, Job, graph, counters
<1>7. CASE AssignReloaded(w)
  BY <1>1, <1>7 DEF AssignReloaded, Becomes, ReloadTypeOK, Job, graph, counters
<1>8. CASE ProjectReloaded(w) \/ ProjectionFails(w)
  BY <1>2, <1>8 DEF ProjectReloaded, ProjectionFails, Becomes, Ends, ReloadTypeOK, Job, counters
<1>9. CASE SeedMockProjects(w) \/ SeedMockDegrades(w)
  BY <1>2, <1>9 DEF SeedMockProjects, SeedMockDegrades, SeedMockEnds, Becomes,
     ReloadTypeOK, Job, counters
<1>10. CASE SeedMockRetries(w)
  <2>1. attempt' \in [Worker -> 0 .. GraphAttempts - 1]
    BY <1>10 DEF SeedMockRetries, ReloadTypeOK
  <2>. QED  BY <1>2, <1>10, <2>1 DEF SeedMockRetries, ReloadTypeOK, counters
<1>11. CASE StartHydrates(w)
  BY <1>11 DEF StartHydrates, Becomes, ReloadTypeOK, Job, graph, counters
<1>12. CASE StartServes(w)
  BY <1>1, <1>12 DEF StartServes, Ends, SetReplica, ReloadTypeOK, Job, graph, counters
<1>13. CASE Reap(w)
  BY <1>13 DEF Reap, Ends, ReloadTypeOK, Job, graph, counters
<1>. QED  BY <1>3, <1>4, <1>5, <1>6, <1>7, <1>8, <1>9, <1>10, <1>11, <1>12, <1>13 DEF JobStep, WorkerAction

LEMMA CrashTypes ==
  ASSUME ReloadTypeOK, TypeOK', NEW i \in Replica, Crash(i)
  PROVE  ReloadTypeOK'
<1>. USE StoreAssumption, ReloadAssumption
<1>1. job' \in [Worker -> Job]
  BY DEF Crash, ReloadTypeOK, Job
<1>2. \A w \in Worker : job'[w] = "none" <=> at'[w] = NoReplica
  BY DEF Crash, ReloadTypeOK
<1>3. snapshot' \in [Replica -> [pub : Pub \cup {NoPub}, rows : Rows]]
  BY DEF Crash, ReloadTypeOK, NoSnapshot, Rows, NoRows
<1>. QED  BY <1>1, <1>2, <1>3 DEF Crash, ReloadTypeOK, graph

LEMMA ReloadTypesPreserved == ReloadTypeOK /\ [ReloadNext]_vars => ReloadTypeOK'
<1>. SUFFICES ASSUME ReloadTypeOK, [ReloadNext]_vars PROVE ReloadTypeOK'
  OBVIOUS
<1>1. TypeOK'
  BY ReloadStepsTheStore, TypesPreserved DEF ReloadTypeOK
<1>2. CASE UNCHANGED vars
  BY <1>1, <1>2 DEF vars, replicaVars, graph, counters, ReloadTypeOK
<1>. QED  BY <1>1, <1>2, ReloadStepTypes, CrashTypes DEF ReloadNext, WorkerAction

\* Whichever jobs overlap, fail or die, exactly the workers with a job belong
\* to a replica, and the retries of the projection stay within their limit.
THEOREM ReloadTypesCorrect == ReloadSpec => []ReloadTypeOK
BY ReloadTypesInitially, ReloadTypesPreserved, PTL DEF ReloadSpec

-----------------------------------------------------------------------------
(* What a job reads *)

LEMMA OthersRead ==
  ASSUME TypeOK, NEW w \in Worker, AnyStep(w), NEW v \in Worker, v # w
  PROVE  phase'[v] = phase[v] /\ readPub'[v] = readPub[v] /\ readRows'[v] = readRows[v]
<1>1. CASE Begin(w) \/ HydrateStep(w) \/ Finish(w)
  BY <1>1 DEF TypeOK, Begin, BeginSeed, BeginHydrate, HydrateStep, ReadPublication,
     NoActivePublication, ReadText, ReadGraph, Finish, Goto, read
<1>2. CASE Rollback(w) \/ FlushConflict(w) \/ CommitSeed(w)
  BY <1>2 DEF TypeOK, Rollback, FlushConflict, CommitSeed, EndTransaction, read
<1>3. CASE \/ RetireOthers(w) \/ MergePublication(w) \/ LockCandidate(w)
           \/ WriteIndexEntry(w) \/ \E r \in Row : LoadRow(w, r) \/ WriteRow(w, r)
  BY <1>3 DEF TypeOK, RetireOthers, MergePublication, LockCandidate,
     WriteIndexEntry, LoadRow, WriteRow, Goto, read
<1>. QED  BY <1>1, <1>2, <1>3 DEF AnyStep, SeedStep

\* Only hydration reads.
LEMMA SeedsDoNotRead ==
  ASSUME TypeOK, NEW w \in Worker,
         Begin(w) \/ SeedStep(w) \/ Rollback(w) \/ Finish(w)
  PROVE  phase'[w] \notin Reading
<1>1. CASE Begin(w) \/ Finish(w)
  BY <1>1 DEF TypeOK, Begin, BeginSeed, BeginHydrate, Finish, Goto, Reading
<1>2. CASE Rollback(w) \/ FlushConflict(w) \/ CommitSeed(w)
  BY <1>2 DEF TypeOK, Rollback, FlushConflict, CommitSeed, EndTransaction, Reading
<1>3. CASE \/ RetireOthers(w) \/ MergePublication(w) \/ LockCandidate(w)
           \/ WriteIndexEntry(w) \/ \E r \in Row : LoadRow(w, r) \/ WriteRow(w, r)
  BY <1>3 DEF TypeOK, RetireOthers, MergePublication, LockCandidate,
     WriteIndexEntry, LoadRow, WriteRow, Goto, Reading
<1>. QED  BY <1>1, <1>2, <1>3 DEF SeedStep

LEMMA OnlyCommitsWrite ==
  ASSUME NEW w \in Worker, AnyStep(w), ~CommitSeed(w)
  PROVE  UNCHANGED tables
BY DEF AnyStep, Begin, BeginSeed, BeginHydrate, HydrateStep, ReadPublication,
   NoActivePublication, ReadText, ReadGraph, Rollback, Finish, SeedStep,
   RetireOthers, MergePublication, LockCandidate, WriteIndexEntry, FlushConflict,
   LoadRow, WriteRow, tables

\* A seed writes, under its locks, rows of its own candidate.
LEMMA RowsStayOwned ==
  ASSUME TypeOK, RowLocksMerged, DraftsMix, RowsOwned, NEW w \in Worker, AnyStep(w)
  PROVE  RowsOwned'
<1>1. CASE ~CommitSeed(w)
  BY <1>1, OnlyCommitsWrite DEF RowsOwned, WrittenFor, tables
<1>2. ASSUME CommitSeed(w), NEW r \in Row, NEW p \in Pub, WrittenFor(p, r)'
      PROVE  r \in RowsOf[p]
  <2>1. /\ table'[r] = IF rowLock[r] = w THEN draft[r] ELSE table[r]
        /\ table'[r][publication_id] = p
    BY <1>2 DEF CommitSeed, TableAfter, WrittenFor
  <2>2. CASE rowLock[r] # w
    BY <1>2, <2>1, <2>2 DEF RowsOwned, WrittenFor
  <2>3. CASE rowLock[r] = w
    <3>1. phase[w] = "rows" /\ r \in RowsOf[cand[w]] /\ cand[w] \in Pub
      BY <2>3 DEF RowLocksMerged, TypeOK, InTransaction
    <3>2. \/ p = Content[cand[w]][r][publication_id]
          \/ WrittenFor(p, r)
      BY <2>1, <2>3, StoreAssumption DEF DraftsMix, WrittenFor
    <3>3. Content[cand[w]][r][publication_id] \in {NoPub, cand[w]}
      BY <3>1, StoreAssumption
    <3>. QED  BY <3>1, <3>2, <3>3, StoreAssumption DEF RowsOwned
  <2>. QED  BY <2>2, <2>3
<1>. QED  BY <1>1, <1>2 DEF RowsOwned

\* The rows of the active publication are found by both statements, and no
\* row of another one has its id.
LEMMA HydrateReadsWhole ==
  ASSUME TypeOK, ActiveComplete, RowsOwned, NEW w \in Worker, ReadWhole(w), HydrateStep(w)
  PROVE  ReadWhole(w)'
<1>. USE StoreAssumption DEF Reading
<1>1. CASE NoActivePublication(w)
  BY <1>1 DEF TypeOK, NoActivePublication, Goto, ReadWhole
<1>2. CASE ReadPublication(w)
  BY <1>2 DEF TypeOK, ReadPublication, Goto, ReadWhole, Active, tables
<1>3. CASE ReadText(w)
  <2>1. /\ phase[w] = "text" /\ phase'[w] = "graph"
        /\ readPub' = readPub /\ status' = status
        /\ readRows'[w] = [r \in Row |->
             IF r \in VersionRows[readPub[w]] THEN table[r] ELSE NoRow]
    BY <1>3 DEF TypeOK, ReadText, Goto, tables
  <2>2. readPub[w] \in Pub /\ Active(readPub[w])
    BY <2>1 DEF ReadWhole
  <2>3. \A r \in RowsOf[readPub[w]] \cap TextRow :
          readRows'[w][r] = Content[readPub[w]][r]
    BY <2>1, <2>2 DEF ActiveComplete
  <2>. QED  BY <2>1, <2>2, <2>3 DEF ReadWhole, Active
<1>4. CASE ReadGraph(w)
  <2>1. /\ phase[w] = "graph" /\ phase'[w] = "hydrated"
        /\ readPub' = readPub /\ status' = status
        /\ readRows'[w] = [r \in Row |->
             IF r \in GraphRow /\ WrittenFor(readPub[w], r)
             THEN table[r] ELSE readRows[w][r]]
    BY <1>4 DEF TypeOK, ReadGraph, Goto, tables
  <2>2. /\ readPub[w] \in Pub /\ Active(readPub[w])
        /\ \A r \in RowsOf[readPub[w]] \cap TextRow :
             readRows[w][r] = Content[readPub[w]][r]
        /\ \A r \in Row \ VersionRows[readPub[w]] : readRows[w][r] = NoRow
    BY <2>1 DEF ReadWhole
  <2>3. ASSUME NEW r \in RowsOf[readPub[w]] \ ChunkRow
        PROVE  readRows'[w][r] = Content[readPub[w]][r]
    <3>1. r \in Row /\ table[r] = Content[readPub[w]][r]
      BY <2>2 DEF ActiveComplete
    <3>2. CASE r \in TextRow
      BY <2>1, <2>2, <3>1, <3>2 DEF GraphRow
    <3>3. CASE r \notin TextRow
      <4>1. /\ Content[readPub[w]][r][publication_id] = readPub[w]
            /\ Content[readPub[w]][r] # NoRow
        BY <2>2, <2>3, <3>3
      <4>. QED  BY <2>1, <3>1, <3>3, <4>1 DEF GraphRow, WrittenFor
    <3>. QED  BY <3>2, <3>3
  <2>4. ASSUME NEW r \in Row \ (RowsOf[readPub[w]] \ ChunkRow), r \notin VersionRows[readPub[w]]
        PROVE  readRows'[w][r] = NoRow
    <3>1. ~(r \in GraphRow /\ WrittenFor(readPub[w], r))
      BY <2>2, <2>4 DEF RowsOwned, GraphRow
    <3>. QED  BY <2>1, <2>2, <2>4, <3>1
  <2>5. RowsAs(readRows'[w], readPub[w])
    BY <2>3, <2>4 DEF RowsAs
  <2>. QED  BY <2>1, <2>2, <2>5 DEF ReadWhole, Active
<1>. QED  BY <1>1, <1>2, <1>3, <1>4 DEF HydrateStep

\* The graph rows among those of p are the graph of p,
LEMMA GraphRowsAs ==
  ASSUME NEW p \in Pub, NEW rows, RowsAs(rows, p)
  PROVE  GraphOf(rows) = GraphOf(Served(p))
<1>1. ASSUME NEW r \in GraphRow PROVE rows[r] = Served(p)[r]
  <2>1. r \in Row /\ r \notin ChunkRow /\ r \notin VersionRows[p]
    BY StoreAssumption DEF GraphRow
  <2>. QED  BY <2>1 DEF RowsAs, Served
<1>. QED  BY <1>1 DEF GraphOf

\* and if no version has lost a row, they all are what is to be served of p.
LEMMA ServedRowsAs ==
  ASSUME NothingRemoved, NEW p \in Pub, NEW rows \in Rows, RowsAs(rows, p)
  PROVE  rows = Served(p)
<1>1. ASSUME NEW r \in Row PROVE rows[r] = Served(p)[r]
  <2>1. r \in VersionRows[p] => r \in RowsOf[p] \ ChunkRow
    BY StoreAssumption DEF NothingRemoved
  <2>. QED  BY <2>1 DEF RowsAs, Served
<1>. QED  BY <1>1 DEF Served, Rows

-----------------------------------------------------------------------------
(* Jobs *)

LEMMA OthersUntouched ==
  ASSUME ReloadTypeOK, NEW w \in Worker, WorkerAction(w), NEW v \in Worker, v # w
  PROVE  /\ job'[v] = job[v] /\ at'[v] = at[v] /\ phase'[v] = phase[v]
         /\ readPub'[v] = readPub[v] /\ readRows'[v] = readRows[v]
<1>1. phase'[v] = phase[v] /\ readPub'[v] = readPub[v] /\ readRows'[v] = readRows[v]
  BY JobsTakeStoreSteps, OthersRead DEF ReloadTypeOK, StoreStep, AnyStep, storeVars
<1>2. job'[v] = job[v] /\ at'[v] = at[v]
  <2>1. CASE \E i \in Replica, p \in Pub : Boot(w, i, p) \/ RequestReload(w, i, p)
    BY <2>1 DEF ReloadTypeOK, Boot, RequestReload, Begins
  <2>2. CASE StoreFails(w) \/ AuditFails(w)
    BY <2>2 DEF ReloadTypeOK, StoreFails, AuditFails, Ends
  <2>3. CASE JobStep(w)
    <3>1. CASE StoreStep(w) \/ StartHydrates(w) \/ StartServes(w) \/ Reap(w) \/ JobFails(w)
      BY <3>1 DEF ReloadTypeOK, StoreStep, StartHydrates, StartServes, Reap, JobFails,
         Becomes, Ends
    <3>2. CASE \/ AssignReloaded(w) \/ ProjectReloaded(w) \/ ProjectionFails(w)
               \/ AuditReload(w)
      BY <3>2 DEF ReloadTypeOK, AssignReloaded, ProjectReloaded, ProjectionFails,
         AuditReload, Becomes, Ends
    <3>3. CASE SeedMockProjects(w) \/ SeedMockRetries(w) \/ SeedMockDegrades(w)
      BY <3>3 DEF ReloadTypeOK, SeedMockProjects, SeedMockRetries, SeedMockDegrades,
         SeedMockEnds, Becomes
    <3>. QED  BY <2>3, <3>1, <3>2, <3>3 DEF JobStep
  <2>. QED  BY <2>1, <2>2, <2>3 DEF WorkerAction
<1>. QED  BY <1>1, <1>2

\* A worker that has hydrated takes no step of a seed or a hydration.
LEMMA HydratedIsDone ==
  ASSUME TypeOK, NEW w \in Worker, SeedStep(w) \/ HydrateStep(w)
  PROVE  phase[w] # "hydrated"
BY DEF SeedStep, RetireOthers, MergePublication, LockCandidate, WriteIndexEntry,
   FlushConflict, LoadRow, WriteRow, CommitSeed, HydrateStep, ReadPublication, NoActivePublication, ReadText,
   ReadGraph, Goto

\* A job that is now running was, or begins a seed.
LEMMA RunningBegan ==
  ASSUME ReloadTypeOK, NEW w \in Worker, WorkerAction(w), job'[w] \notin {"none", "dead"}
  PROVE  w \in Running \/ phase'[w] \notin Reading
<1>1. CASE \E i \in Replica, p \in Pub : Boot(w, i, p) \/ RequestReload(w, i, p)
  BY <1>1 DEF ReloadTypeOK, TypeOK, Boot, RequestReload, BeginSeed, Goto, Reading
<1>2. CASE StoreFails(w) \/ AuditFails(w)
  BY <1>2 DEF ReloadTypeOK, StoreFails, AuditFails, Ends
<1>3. CASE JobStep(w)
  BY <1>3 DEF ReloadTypeOK, Running, JobStep, StoreStep, StartHydrates, StartServes, Reap,
     JobFails, AssignReloaded, ProjectReloaded, ProjectionFails, AuditReload,
     SeedMockProjects, SeedMockRetries, SeedMockDegrades, SeedMockEnds, Becomes, Ends
<1>. QED  BY <1>1, <1>2, <1>3 DEF WorkerAction

\* The reload whose graph or audit event is next is hydrated, and keeps what
\* it has read.
LEMMA ReloadGoesOn ==
  ASSUME ReloadTypeOK, JobsHydrated, NEW w \in Worker, WorkerAction(w),
         job'[w] \in {"project", "audit"}
  PROVE  /\ phase[w] = "hydrated" /\ UNCHANGED storeVars /\ w \in Running
         /\ at'[w] = at[w]
         /\ job'[w] = "project" => AssignReloaded(w)
         /\ job'[w] = "audit" => ProjectReloaded(w)
<1>1. CASE \E i \in Replica, p \in Pub : Boot(w, i, p) \/ RequestReload(w, i, p)
  BY <1>1 DEF ReloadTypeOK, Boot, RequestReload, Begins
<1>2. CASE AuditFails(w) \/ StartHydrates(w) \/ StartServes(w) \/ Reap(w) \/ JobFails(w)
  BY <1>2 DEF ReloadTypeOK, AuditFails, StartHydrates, StartServes, Reap, JobFails,
     Becomes, Ends
<1>3. CASE \/ ProjectionFails(w) \/ AuditReload(w) \/ SeedMockProjects(w)
           \/ SeedMockRetries(w) \/ SeedMockDegrades(w)
  BY <1>3 DEF ReloadTypeOK, ProjectionFails, AuditReload, SeedMockProjects,
     SeedMockRetries, SeedMockDegrades, SeedMockEnds, Becomes, Ends
<1>4. CASE StoreStep(w) \/ StoreFails(w)
  <2>1. job' = job /\ phase[w] = "hydrated"
    BY <1>4 DEF StoreStep, StoreFails, JobsHydrated
  <2>2. ~StoreStep(w)
    BY <2>1, HydratedIsDone DEF StoreStep, ReloadTypeOK
  <2>. QED  BY <1>4, <2>1, <2>2 DEF StoreFails, Rollback, InTransaction, Hydrating
<1>5. CASE AssignReloaded(w)
  BY <1>5 DEF ReloadTypeOK, AssignReloaded, Becomes, Running
<1>6. CASE ProjectReloaded(w)
  BY <1>6 DEF ReloadTypeOK, JobsHydrated, ProjectReloaded, Becomes, Running
<1>. QED  BY <1>1, <1>2, <1>3, <1>4, <1>5, <1>6 DEF WorkerAction, JobStep

LEMMA JobsStayHydrated ==
  ASSUME ReloadTypeOK, JobsHydrated, NEW w \in Worker, WorkerAction(w)
  PROVE  JobsHydrated'
BY OthersUntouched, ReloadGoesOn DEF JobsHydrated, storeVars

-----------------------------------------------------------------------------
(* Without a race *)

LEMMA UntouchedReads ==
  ASSUME NEW v \in Worker, ReadWhole(v), status' = status,
         phase'[v] = phase[v], readPub'[v] = readPub[v], readRows'[v] = readRows[v]
  PROVE  ReadWhole(v)'
BY DEF ReadWhole, Active

\* A commit that does not race finds nobody reading; the other steps leave
\* what is read as it is, and hydration reads the whole publication.
LEMMA StoreStaysWhole ==
  ASSUME ReloadInv, NEW w \in Worker, WorkerAction(w), ~raced, ~raced'
  PROVE  Whole' /\ ReadsWhole'
<1>1. /\ IInv /\ TypeOK /\ ReloadTypeOK /\ RowsOwned /\ Whole /\ ActiveComplete
      /\ RowLocksMerged /\ DraftsMix
      /\ \A v \in Running : ReadWhole(v)
  BY DEF ReloadInv, ReloadTypeOK, Uncontested, ReadsWhole, Whole
<1>2. ASSUME NEW v \in Running', v # w
      PROVE  /\ v \in Running /\ phase'[v] = phase[v]
             /\ status' = status => ReadWhole(v)'
  BY <1>1, <1>2, OthersUntouched, UntouchedReads DEF Running
<1>3. w \in Running' => w \in Running \/ phase'[w] \notin Reading
  BY <1>1, RunningBegan DEF Running
<1>4. phase'[w] \notin Reading => ReadWhole(w)'
  BY DEF ReadWhole, Reading
<1>5. CASE UNCHANGED storeVars
  <2>1. Whole'
    BY <1>1, <1>5 DEF Whole, ActiveComplete, ActivationsComplete, Active, Activating,
       SetsStatus, Pending, Upcoming, storeVars
  <2>2. w \in Running => ReadWhole(w)'
    BY <1>1, <1>5, UntouchedReads DEF storeVars, Running
  <2>. QED  BY <1>2, <1>3, <1>4, <1>5, <2>1, <2>2 DEF ReadsWhole, storeVars
<1>6. CASE Begin(w) \/ Rollback(w) \/ Finish(w)
  <2>1. /\ status' = status /\ phase'[w] \notin Reading
        /\ AnyStep(w) /\ ~CommitSeed(w)
    BY <1>1, <1>6, SeedsDoNotRead
    DEF Begin, BeginSeed, BeginHydrate, Rollback, Finish, EndTransaction, CommitSeed,
        Goto, TypeOK, AnyStep, tables
  <2>. QED  BY <1>1, <1>2, <1>4, <1>6, <2>1, StepKeepsWhole DEF ReadsWhole
<1>7. CASE StoreStep(w) /\ ~CommitSeed(w)
  <2>1. status' = status /\ w \in Running /\ AnyStep(w)
    BY <1>7, OnlyCommitsWrite DEF StoreStep, AnyStep, tables
  <2>2. CASE SeedStep(w)
    BY <1>1, <1>2, <1>4, <1>7, <2>1, <2>2, SeedsDoNotRead, StepKeepsWhole DEF ReadsWhole
  <2>3. CASE HydrateStep(w)
    BY <1>1, <1>2, <1>7, <2>1, <2>3, HydrateReadsWhole, StepKeepsWhole DEF ReadsWhole
  <2>. QED  BY <1>7, <2>2, <2>3 DEF StoreStep
<1>8. CASE StoreStep(w) /\ CommitSeed(w)
  <2>1. Commits(w) /\ phase'[w] = "publication" /\ ~Races(w)
    BY <1>1, <1>8 DEF TypeOK, Commits, CommitSeed, EndTransaction, StoreStep
  <2>2. /\ status'[cand[w]] = "ACTIVE"
        /\ \A v \in Running \ {w} : phase[v] \notin Reading
    BY <2>1 DEF Races, Hydrating, Reading
  <2>3. \A v \in Running' : phase'[v] \notin Reading
    BY <1>2, <2>1, <2>2 DEF Reading
  <2>. QED  BY <1>1, <1>8, <2>2, <2>3, CommitKeepsWhole DEF ReadsWhole, ReadWhole, Reading
<1>. QED  BY <1>5, <1>6, <1>7, <1>8, JobsTakeStoreSteps

\* Only a job that has hydrated writes to Neo4j, and only what it has read,
LEMMA ProjectionSteps ==
  ASSUME ReloadTypeOK, JobsHydrated, NEW w \in Worker, WorkerAction(w)
  PROVE  UNCHANGED graph \/ (ReplaceProjection(w) /\ w \in Running /\ phase[w] = "hydrated")
<1>1. CASE \E i \in Replica, p \in Pub : Boot(w, i, p) \/ RequestReload(w, i, p)
  BY <1>1 DEF Boot, RequestReload
<1>2. CASE \/ StoreFails(w) \/ AuditFails(w) \/ StoreStep(w) \/ JobFails(w)
           \/ AssignReloaded(w) \/ AuditReload(w) \/ StartHydrates(w) \/ StartServes(w)
           \/ Reap(w)
  BY <1>2 DEF StoreFails, AuditFails, StoreStep, JobFails, AssignReloaded, AuditReload,
     StartHydrates, StartServes, Reap
<1>3. CASE ProjectReloaded(w) \/ ProjectionFails(w)
  BY <1>3 DEF ProjectReloaded, ProjectionFails, Becomes, Ends, JobsHydrated, Running
<1>4. CASE SeedMockProjects(w) \/ SeedMockRetries(w) \/ SeedMockDegrades(w)
  BY <1>4 DEF SeedMockProjects, SeedMockRetries, SeedMockDegrades, SeedMockEnds, Becomes,
     Running
<1>. QED  BY <1>1, <1>2, <1>3, <1>4 DEF WorkerAction, JobStep

Serves(w) ==
  /\ w \in Running /\ phase[w] = "hydrated"
  /\ snapshot' = [snapshot EXCEPT ![at[w]] = [pub |-> readPub[w], rows |-> readRows[w]]]

\* and only such a job replaces a snapshot.
LEMMA SnapshotSteps ==
  ASSUME ReloadTypeOK, NEW w \in Worker, WorkerAction(w)
  PROVE  /\ UNCHANGED snapshot \/ Serves(w)
         /\ \A i \in Replica :
              replica'[i] = "up" => replica[i] = "up" \/ (i = at[w] /\ Serves(w))
<1>1. CASE \E i \in Replica, p \in Pub : Boot(w, i, p) \/ RequestReload(w, i, p)
  BY <1>1 DEF ReloadTypeOK, Boot, RequestReload, SetReplica
<1>2. CASE \/ StoreFails(w) \/ AuditFails(w) \/ StoreStep(w) \/ ProjectReloaded(w)
           \/ ProjectionFails(w) \/ AuditReload(w) \/ StartHydrates(w) \/ Reap(w)
  BY <1>2 DEF StoreFails, AuditFails, StoreStep, ProjectReloaded, ProjectionFails,
     AuditReload, StartHydrates, Reap
<1>3. CASE SeedMockProjects(w) \/ SeedMockRetries(w) \/ SeedMockDegrades(w)
  BY <1>3 DEF SeedMockProjects, SeedMockRetries, SeedMockDegrades
<1>4. CASE JobFails(w)
  BY <1>4 DEF ReloadTypeOK, JobFails, SetReplica
<1>5. CASE AssignReloaded(w)
  BY <1>5 DEF AssignReloaded, Becomes, Running, Serves
<1>6. CASE StartServes(w)
  BY <1>6 DEF ReloadTypeOK, StartServes, Ends, Running, Serves, SetReplica
<1>. QED  BY <1>1, <1>2, <1>3, <1>4, <1>5, <1>6 DEF WorkerAction, JobStep

\* Whatever is hydrated and running has read the one active publication.
LEMMA ReadTheSame ==
  ASSUME IInv, ReadsWhole, NEW v \in Running, NEW w \in Running,
         phase[v] = "hydrated", phase[w] = "hydrated"
  PROVE  readPub[v] \in Pub /\ readPub[v] = readPub[w]
BY DEF ReadsWhole, ReadWhole, Reading, IInv, SingleActive

LEMMA ReplicasStayWhole ==
  ASSUME ReloadInv, NEW w \in Worker, WorkerAction(w), ~raced
  PROVE  ProjectionWhole' /\ ReloadsAligned' /\ SnapshotsWhole'
<1>1. /\ IInv /\ TypeOK /\ ReloadTypeOK /\ JobsHydrated
      /\ ReadsWhole /\ ProjectionWhole /\ ReloadsAligned /\ SnapshotsWhole
  BY DEF ReloadInv, ReloadTypeOK, Uncontested
<1>2. w \in Running /\ phase[w] = "hydrated" =>
        /\ readPub[w] \in Pub /\ at[w] \in Replica
        /\ RowsAs(readRows[w], readPub[w])
        /\ GraphOf(readRows[w]) = GraphOf(Served(readPub[w]))
  BY <1>1, GraphRowsAs DEF ReadsWhole, ReadWhole, Reading, Running, ReloadTypeOK
<1>3. ProjectionWhole'
  BY <1>1, <1>2, ProjectionSteps DEF ProjectionWhole, graph, ReplaceProjection, ReloadTypeOK
<1>4. SnapshotsWhole'
  <2>. SUFFICES ASSUME NEW i \in Replica, replica'[i] = "up"
                PROVE  snapshot'[i].pub \in Pub /\ RowsAs(snapshot'[i].rows, snapshot'[i].pub)
    BY DEF SnapshotsWhole
  <2>1. CASE Serves(w) /\ i = at[w]
    <3>1. snapshot'[i] = [pub |-> readPub[w], rows |-> readRows[w]]
      BY <1>1, <2>1 DEF Serves, ReloadTypeOK
    <3>. QED  BY <1>2, <2>1, <3>1 DEF Serves
  <2>2. CASE ~(Serves(w) /\ i = at[w])
    <3>1. replica[i] = "up"
      BY <1>1, <2>2, SnapshotSteps
    <3>2. snapshot'[i] = snapshot[i]
      BY <1>1, <2>2, SnapshotSteps DEF Serves, ReloadTypeOK
    <3>. QED  BY <1>1, <3>1, <3>2 DEF SnapshotsWhole
  <2>. QED  BY <2>1, <2>2
<1>5. ASSUME NEW v \in Worker, job'[v] \in {"project", "audit"}
      PROVE  /\ snapshot'[at'[v]].pub = readPub'[v]
             /\ job'[v] = "audit" => watermark' = readPub'[v]
  <2>1. CASE v # w
    <3>1. /\ job[v] = job'[v] /\ at'[v] = at[v] /\ readPub'[v] = readPub[v]
          /\ phase[v] = "hydrated" /\ v \in Running /\ at[v] \in Replica
      BY <1>1, <1>5, <2>1, OthersUntouched DEF JobsHydrated, Running, ReloadTypeOK
    <3>2. /\ snapshot[at[v]].pub = readPub[v]
          /\ job[v] = "audit" => watermark = readPub[v]
      BY <1>1, <1>5, <3>1 DEF ReloadsAligned
    <3>3. w \in Running /\ phase[w] = "hydrated" => readPub[w] = readPub[v]
      BY <1>1, <3>1, ReadTheSame
    <3>4. snapshot'[at[v]].pub = readPub[v]
      <4>1. Serves(w) => \/ snapshot'[at[v]] = [pub |-> readPub[w], rows |-> readRows[w]]
                         \/ snapshot'[at[v]] = snapshot[at[v]]
        BY <1>1, <3>1 DEF Serves, ReloadTypeOK
      <4>2. Serves(w) => readPub[w] = readPub[v]
        BY <3>3 DEF Serves
      <4>3. UNCHANGED snapshot \/ Serves(w)
        BY <1>1, SnapshotSteps
      <4>. QED  BY <3>2, <4>1, <4>2, <4>3
    <3>5. job[v] = "audit" => watermark' = readPub[v]
      BY <1>1, <3>2, <3>3, ProjectionSteps DEF graph, ReplaceProjection
    <3>. QED  BY <3>1, <3>4, <3>5
  <2>2. CASE v = w
    <3>1. /\ phase[w] = "hydrated" /\ at'[w] = at[w] /\ readPub' = readPub
          /\ job'[w] = "project" => AssignReloaded(w)
          /\ job'[w] = "audit" => ProjectReloaded(w)
      BY <1>1, <1>5, <2>2, ReloadGoesOn DEF storeVars
    <3>2. CASE job'[w] = "project"
      <4>1. snapshot' = [snapshot EXCEPT ![at[w]] = [pub |-> readPub[w], rows |-> readRows[w]]]
        BY <3>1, <3>2 DEF AssignReloaded
      <4>2. at[w] \in Replica
        BY <1>1, <3>1, <3>2 DEF AssignReloaded, Becomes, ReloadTypeOK
      <4>. QED  BY <1>1, <2>2, <3>1, <3>2, <4>1, <4>2 DEF ReloadTypeOK
    <3>3. CASE job'[w] = "audit"
      BY <1>1, <2>2, <3>1, <3>3
      DEF ProjectReloaded, Becomes, ReplaceProjection, ReloadsAligned
    <3>. QED  BY <1>5, <2>2, <3>2, <3>3
  <2>. QED  BY <2>1, <2>2
<1>6. ReloadsAligned'
  BY <1>5 DEF ReloadsAligned
<1>. QED  BY <1>3, <1>4, <1>6

LEMMA CrashKeepsWhole ==
  ASSUME ReloadInv, NEW i \in Replica, Crash(i)
  PROVE  JobsHydrated' /\ (~raced => Uncontested')
<1>1. /\ UNCHANGED storeVars /\ UNCHANGED graph /\ at' = at /\ ReloadTypeOK /\ JobsHydrated
      /\ \A w \in Worker : job'[w] # "dead" => job'[w] = job[w] /\ at[w] # i
      /\ \A j \in Replica \ {i} : replica'[j] = replica[j] /\ snapshot'[j] = snapshot[j]
      /\ replica'[i] = "down"
  BY DEF Crash, ReloadInv, ReloadTypeOK
<1>2. JobsHydrated'
  BY <1>1 DEF JobsHydrated, storeVars
<1>3. ASSUME ~raced PROVE Uncontested'
  <2>1. Whole /\ ReadsWhole /\ ProjectionWhole /\ ReloadsAligned /\ SnapshotsWhole
    BY <1>3 DEF ReloadInv, Uncontested
  <2>2. Whole'
    BY <1>1, <2>1 DEF Whole, ActiveComplete, ActivationsComplete, Active, Activating,
       SetsStatus, Pending, Upcoming, storeVars
  <2>3. ReadsWhole'
    BY <1>1, <2>1 DEF ReadsWhole, ReadWhole, Running, Active, storeVars
  <2>4. ProjectionWhole' /\ SnapshotsWhole'
    BY <1>1, <2>1 DEF ProjectionWhole, SnapshotsWhole, graph
  <2>5. ReloadsAligned'
    <3>. SUFFICES ASSUME NEW v \in Worker, job'[v] \in {"project", "audit"}
                  PROVE  /\ snapshot'[at'[v]].pub = readPub'[v]
                         /\ job'[v] = "audit" => watermark' = readPub'[v]
      BY DEF ReloadsAligned
    <3>1. job[v] = job'[v] /\ at[v] \in Replica \ {i}
      BY <1>1 DEF ReloadTypeOK
    <3>. QED  BY <1>1, <2>1, <3>1 DEF ReloadsAligned, storeVars, graph
  <2>. QED  BY <2>2, <2>3, <2>4, <2>5 DEF Uncontested
<1>. QED  BY <1>2, <1>3

LEMMA ReloadInitially == ReloadInit => ReloadInv
<1>. SUFFICES ASSUME ReloadInit PROVE ReloadInv
  OBVIOUS
<1>1. Init /\ IInv /\ ReloadTypeOK
  BY InvariantInitially, ReloadTypesInitially DEF ReloadInit
<1>2. RowLocksMerged /\ DraftsMix /\ RowsOwned /\ Whole
  BY <1>1, StoreAssumption DEF Init, RowLocksMerged, DraftsMix, RowsOwned, WrittenFor,
     NoRows, Whole, ActiveComplete, ActivationsComplete, Active, Activating
<1>3. JobsHydrated /\ Running = {} /\ ProjectionWhole /\ ReloadsAligned /\ SnapshotsWhole
  BY DEF ReloadInit, JobsHydrated, Running, ProjectionWhole, ReloadsAligned, SnapshotsWhole
<1>. QED  BY <1>1, <1>2, <1>3 DEF ReloadInv, Uncontested, ReadsWhole

LEMMA RacesRemembered ==
  ASSUME NEW w \in Worker, WorkerAction(w), ~raced'
  PROVE  ~raced
BY DEF WorkerAction, Boot, RequestReload, StoreFails, AuditFails, JobStep, StoreStep,
   JobFails, AssignReloaded, ProjectReloaded, ProjectionFails, AuditReload,
   SeedMockProjects, SeedMockRetries, SeedMockDegrades, StartHydrates, StartServes, Reap

LEMMA ReloadPreserved == ReloadInv /\ [ReloadNext]_vars => ReloadInv'
<1>. SUFFICES ASSUME ReloadInv, [ReloadNext]_vars PROVE ReloadInv'
  OBVIOUS
<1>1. /\ IInv /\ TypeOK /\ RowLocksMerged /\ DraftsMix /\ RowsOwned /\ ReloadTypeOK
      /\ JobsHydrated
      /\ ~raced => Uncontested
  BY DEF ReloadInv, ReloadTypeOK
<1>2. IInv' /\ ReloadTypeOK'
  BY <1>1, InvariantPreserved, ReloadStepsTheStore, ReloadTypesPreserved
<1>3. CASE UNCHANGED vars
  BY <1>1, <1>2, <1>3 DEF vars, replicaVars, graph, storeVars, ReloadInv, RowLocksMerged,
     DraftsMix, RowsOwned, WrittenFor, JobsHydrated, Uncontested, Whole, ActiveComplete,
     ActivationsComplete, Active, Activating, SetsStatus, Pending, Upcoming, ReadsWhole, ReadWhole, Running, ProjectionWhole,
     ReloadsAligned, SnapshotsWhole
<1>4. ASSUME NEW w \in Worker, WorkerAction(w) PROVE ReloadInv'
  <2>1. RowLocksMerged' /\ DraftsMix' /\ RowsOwned'
    <3>1. CASE UNCHANGED storeVars
      BY <1>1, <3>1 DEF storeVars, RowLocksMerged, DraftsMix, RowsOwned, WrittenFor
    <3>2. CASE AnyStep(w)
      BY <1>1, <3>2, StepKeepsRowLocks, StepKeepsDrafts, RowsStayOwned
    <3>. QED  BY <1>4, <3>1, <3>2, JobsTakeStoreSteps DEF AnyStep, StoreStep
  <2>2. JobsHydrated'
    BY <1>1, <1>4, JobsStayHydrated
  <2>3. ~raced' => Uncontested'
    BY <1>4, RacesRemembered, StoreStaysWhole, ReplicasStayWhole DEF Uncontested
  <2>. QED  BY <1>2, <2>1, <2>2, <2>3 DEF ReloadInv
<1>5. ASSUME NEW i \in Replica, Crash(i) PROVE ReloadInv'
  <2>1. RowLocksMerged' /\ DraftsMix' /\ RowsOwned' /\ raced' = raced
    BY <1>1, <1>5 DEF Crash, storeVars, RowLocksMerged, DraftsMix, RowsOwned, WrittenFor
  <2>. QED  BY <1>2, <1>5, <2>1, CrashKeepsWhole DEF ReloadInv
<1>. QED  BY <1>3, <1>4, <1>5 DEF ReloadNext, WorkerAction

LEMMA ReloadInvHolds == ReloadSpec => []ReloadInv
BY ReloadInitially, ReloadPreserved, PTL DEF ReloadSpec

\* Any number of reloads, retries and lost answers of Neo4j: a replica that
\* reports its graph healthy finds there all of its publication's graph.
THEOREM HealthyGraphsComplete == ReloadSpec => []HealthyIsComplete
<1>1. ReloadInv => HealthyIsComplete
  BY StoreAssumption
  DEF ReloadInv, Uncontested, HealthyIsComplete, GraphHealthy, ProjectionWhole, SnapshotsWhole
<1>. QED  BY <1>1, ReloadInvHolds, PTL

\* A reload is audited as a success only where PostgreSQL, the replica and
\* Neo4j agree on its publication, unless a seed raced.
THEOREM AuditedReloadsAligned == ReloadSpec => []AuditedReloadAligned
<1>1. ReloadInv => AuditedReloadAligned
  BY DEF ReloadInv, Uncontested, AuditedReloadAligned, ReloadsAligned, JobsHydrated,
     ReadsWhole, ReadWhole, Reading, Running
<1>. QED  BY <1>1, ReloadInvHolds, PTL

-----------------------------------------------------------------------------
(* Contents that remove no provision *)

LEMMA ServedSnapshot ==
  ASSUME NothingRemoved
  PROVE  ReloadInv => SnapshotComplete
<1>. SUFFICES ASSUME ReloadInv, NEW i \in Replica, replica[i] = "up", ~raced
              PROVE  /\ snapshot[i].pub \in Pub
                     /\ snapshot[i].rows = Served(snapshot[i].pub)
  BY DEF SnapshotComplete
<1>1. snapshot[i].rows \in Rows
  BY DEF ReloadInv, ReloadTypeOK
<1>2. snapshot[i].pub \in Pub /\ RowsAs(snapshot[i].rows, snapshot[i].pub)
  BY DEF ReloadInv, Uncontested, SnapshotsWhole
<1>. QED  BY <1>1, <1>2, ServedRowsAs

\* Each replica serves the whole content of one publication, every row as
\* that one has it, and no other row, whichever seeds overlap, wait, fail or
\* die without a race.
THEOREM SnapshotsComplete ==
  ASSUME NothingRemoved
  PROVE  ReloadSpec => []SnapshotComplete
<1>1. ReloadInv => SnapshotComplete
  BY ServedSnapshot
<1>. QED  BY <1>1, ReloadInvHolds, PTL

\* The chunks a vector query selects from are all those of the publication
\* the replica serves, or none, unless a seed raced.
THEOREM VectorLanesWhole == ReloadSpec => []VectorLaneWhole
<1>1. ASSUME ReloadInv, ~raced, NEW i \in Replica, replica[i] = "up"
      PROVE  VectorHits(i) \in {{}, RowsOf[snapshot[i].pub] \cap ChunkRow}
  <2>1. snapshot[i].pub \in Pub
    BY <1>1 DEF ReloadInv, Uncontested, SnapshotsWhole
  <2>2. CASE ~Active(snapshot[i].pub)
    BY <2>2 DEF VectorHits, OfActivePublication
  <2>3. CASE Active(snapshot[i].pub)
    <3>1. \A r \in RowsOf[snapshot[i].pub] : table[r] = Content[snapshot[i].pub][r]
      BY <1>1, <2>1, <2>3 DEF ReloadInv, Uncontested, Whole, ActiveComplete
    <3>2. ASSUME NEW r \in RowsOf[snapshot[i].pub] \cap ChunkRow
          PROVE  WrittenFor(snapshot[i].pub, r)
      <4>1. /\ Content[snapshot[i].pub][r][publication_id] = snapshot[i].pub
            /\ Content[snapshot[i].pub][r] # NoRow
        BY <2>1, StoreAssumption
      <4>. QED  BY <3>1, <4>1 DEF WrittenFor
    <3>3. \A r \in ChunkRow : WrittenFor(snapshot[i].pub, r) => r \in RowsOf[snapshot[i].pub]
      BY <1>1, <2>1, StoreAssumption DEF ReloadInv, RowsOwned
    <3>. QED  BY <2>3, <3>2, <3>3 DEF VectorHits, OfActivePublication
  <2>. QED  BY <2>2, <2>3
<1>2. ReloadInv => VectorLaneWhole
  BY <1>1 DEF VectorLaneWhole
<1>. QED  BY <1>2, ReloadInvHolds, PTL

=============================================================================
