------------------------- MODULE PublicationReload -------------------------
(***************************************************************************)
(* API replicas over the publication store: the container command          *)
(* (seed-mock, then the API), POST /admin/mock-data/reload, the Neo4j      *)
(* projection, the audit event of a reload, and replicas that die between  *)
(* any two steps.                                                          *)
(*                                                                         *)
(* A worker of PublicationStore runs one job at a time, in any replica:    *)
(* "cli" is seed-mock, "start" the construction of the API, "reload" a     *)
(* reload request. The jobs of a replica that died are "dead": PostgreSQL  *)
(* rolls their transactions back when it notices.                          *)
(***************************************************************************)
EXTENDS PublicationStore

CONSTANTS
  Replica, NoReplica,
  GraphAttempts, \* _GRAPH_SEED_ATTEMPTS of the seed-mock command
  MaxReloads,    \* bound: reload requests
  MaxFaults      \* bound: crashes and failed transactions

ASSUME ReloadAssumption ==
  /\ NoReplica \notin Replica
  /\ GraphAttempts \in Nat \ {0}
  /\ {MaxReloads, MaxFaults} \subseteq Nat

VARIABLES
  replica,     \* whether each replica is down, booting or up
  snapshot,    \* the publication and rows each replica serves
  job,         \* what each worker runs
  at,          \* the replica it runs in
  attempt,     \* projection attempts of the seed-mock command that failed
  stored,      \* Neo4j: the graph rows stored under every publication id
  watermark,   \* Neo4j: publication of the watermark node
  raced,       \* history: a seed was committed in the middle of another job
  reloads, faults

graph == <<stored, watermark>>
counters == <<reloads, faults>>
replicaVars == <<replica, snapshot, job, at, attempt, graph, raced, counters>>
vars == <<storeVars, replicaVars>>

Job == {"none", "cli", "starting", "start", "reload", "project", "audit", "dead"}
NoSnapshot == [pub |-> NoPub, rows |-> NoRows]

\* The graph rows of a snapshot: what the projection writes.
GraphOf(rows) == [r \in Row |-> IF r \in GraphRow THEN rows[r] ELSE NoRow]

ReloadTypeOK ==
  /\ TypeOK
  /\ replica \in [Replica -> {"down", "booting", "up"}]
  /\ snapshot \in [Replica -> [pub : Pub \cup {NoPub}, rows : Rows]]
  /\ job \in [Worker -> Job]
  /\ at \in [Worker -> Replica \cup {NoReplica}]
  /\ \A w \in Worker : job[w] = "none" <=> at[w] = NoReplica
  /\ attempt \in [Worker -> 0 .. GraphAttempts - 1]
  /\ stored \in [Pub -> Rows]
  /\ watermark \in Pub \cup {NoPub}
  /\ raced \in BOOLEAN
  /\ reloads \in 0 .. MaxReloads
  /\ faults \in 0 .. MaxFaults

ReloadInit ==
  /\ Init
  /\ replica = [i \in Replica |-> "down"]
  /\ snapshot = [i \in Replica |-> NoSnapshot]
  /\ job = [w \in Worker |-> "none"]
  /\ at = [w \in Worker |-> NoReplica]
  /\ attempt = [w \in Worker |-> 0]
  /\ stored = [p \in Pub |-> NoRows]
  /\ watermark = NoPub
  /\ raced = FALSE
  /\ reloads = 0
  /\ faults = 0

Running == {w \in Worker : job[w] \notin {"none", "dead"}}

Begins(w, i, kind) ==
  /\ job[w] = "none"
  /\ job' = [job EXCEPT ![w] = kind]
  /\ at' = [at EXCEPT ![w] = i]

Becomes(w, from, to) ==
  /\ job[w] = from
  /\ job' = [job EXCEPT ![w] = to]
  /\ UNCHANGED at

Ends(w, from) ==
  /\ job[w] = from
  /\ job' = [job EXCEPT ![w] = "none"]
  /\ at' = [at EXCEPT ![w] = NoReplica]

SetReplica(i, state) == replica' = [replica EXCEPT ![i] = state]

(***************************************************************************)
(* Jobs                                                                    *)
(***************************************************************************)

\* The container starts with its image's content p: seed-mock comes first.
Boot(w, i, p) ==
  /\ replica[i] = "down"
  /\ Begins(w, i, "cli")
  /\ SetReplica(i, "booting")
  /\ BeginSeed(w, p)
  /\ UNCHANGED <<snapshot, attempt, graph, raced, counters>>

\* An administrator's request finds content p in the data directory.
RequestReload(w, i, p) ==
  /\ reloads < MaxReloads
  /\ replica[i] = "up"
  /\ Begins(w, i, "reload")
  /\ reloads' = reloads + 1
  /\ BeginSeed(w, p)
  /\ UNCHANGED <<replica, snapshot, attempt, graph, raced, faults>>

\* A seed is committed while another job goes on with what it has read, or
\* for a publication that was retired while it waited.
Races(w) ==
  /\ Commits(w)
  /\ \/ \E v \in Running \ {w} : phase[v] \in Hydrating \cup {"hydrated"}
     \/ status'[cand[w]] # "ACTIVE"

StoreStep(w) ==
  /\ w \in Running
  /\ SeedStep(w) \/ HydrateStep(w)
  /\ raced' = (raced \/ Races(w))
  /\ UNCHANGED <<replica, snapshot, job, at, attempt, graph, counters>>

\* A statement fails: the seed is rolled back, or it is committed and the
\* hydration after it gives up.
StoreFails(w) ==
  /\ w \in Running
  /\ faults < MaxFaults
  /\ faults' = faults + 1
  /\ \/ Rollback(w)
     \/ phase[w] \in Hydrating /\ Finish(w)
  /\ UNCHANGED <<replica, snapshot, job, at, attempt, graph, raced, reloads>>

\* The exception ends the job: an error response, or the container exits.
JobFails(w) ==
  /\ phase[w] = "idle"
  /\ \/ Ends(w, "reload") /\ UNCHANGED replica
     \/ \E kind \in {"cli", "start"} : Ends(w, kind) /\ SetReplica(at[w], "down")
  /\ UNCHANGED <<storeVars, snapshot, attempt, graph, raced, counters>>

\* Mutant: the snapshot gets the new publication id and keeps its rows.
AssignPublicationOnly(w) ==
  /\ phase[w] = "hydrated"
  /\ Becomes(w, "reload", "project")
  /\ snapshot' = [snapshot EXCEPT ![at[w]].pub = readPub[w]]
  /\ UNCHANGED <<storeVars, replica, attempt, graph, raced, counters>>

\* reload() replaces the replica's snapshot, under its lock.
AssignReloaded(w) ==
  /\ phase[w] = "hydrated"
  /\ Becomes(w, "reload", "project")
  /\ snapshot' = [snapshot EXCEPT ![at[w]] =
                    [pub |-> readPub[w], rows |-> readRows[w]]]
  /\ UNCHANGED <<storeVars, replica, attempt, graph, raced, counters>>

\* Mutant: rows and watermark are two transactions, the first one may fail.
ReplaceInTwoTransactions(w) ==
  /\ \/ stored' = [stored EXCEPT ![readPub[w]] = GraphOf(readRows[w])]
     \/ UNCHANGED stored
  /\ watermark' = readPub[w]

\* One Neo4j write transaction: the rows of this publication id are replaced
\* and the watermark is moved; what other publications stored stays.
ReplaceProjection(w) ==
  /\ stored' = [stored EXCEPT ![readPub[w]] = GraphOf(readRows[w])]
  /\ watermark' = readPub[w]

\* Mutant: an error of the projection is logged and the reload goes on.
ProjectOrIgnore(w) ==
  /\ Becomes(w, "project", "audit")
  /\ ReplaceProjection(w) \/ UNCHANGED graph
  /\ UNCHANGED <<storeVars, replica, snapshot, attempt, raced, counters>>

ProjectReloaded(w) ==
  /\ Becomes(w, "project", "audit")
  /\ ReplaceProjection(w)
  /\ UNCHANGED <<storeVars, replica, snapshot, attempt, raced, counters>>

\* Neo4j reports an error; if only the answer was lost, it did commit.
ProjectionFails(w) ==
  /\ Ends(w, "project")
  /\ ReplaceProjection(w) \/ UNCHANGED graph
  /\ Finish(w)
  /\ UNCHANGED <<replica, snapshot, attempt, raced, counters>>

AuditReload(w) ==
  /\ Ends(w, "audit")
  /\ Finish(w)
  /\ UNCHANGED <<replica, snapshot, attempt, graph, raced, counters>>

AuditFails(w) ==
  /\ faults < MaxFaults
  /\ faults' = faults + 1
  /\ Ends(w, "audit")
  /\ Finish(w)
  /\ UNCHANGED <<replica, snapshot, attempt, graph, raced, reloads>>

\* seed-mock projects what it hydrated, and ends; the API starts next.
SeedMockEnds(w) ==
  /\ Becomes(w, "cli", "starting")
  /\ attempt' = [attempt EXCEPT ![w] = 0]
  /\ Finish(w)

SeedMockProjects(w) ==
  /\ phase[w] = "hydrated"
  /\ SeedMockEnds(w)
  /\ ReplaceProjection(w)
  /\ UNCHANGED <<replica, snapshot, raced, counters>>

\* Mutant: off by one in the comparison with _GRAPH_SEED_ATTEMPTS.
RetriesOnceMore(w) ==
  /\ job[w] = "cli"
  /\ phase[w] = "hydrated"
  /\ attempt[w] < GraphAttempts
  /\ attempt' = [attempt EXCEPT ![w] = @ + 1]
  /\ ReplaceProjection(w) \/ UNCHANGED graph
  /\ UNCHANGED <<storeVars, replica, snapshot, job, at, raced, counters>>

\* A failed attempt is retried after a second; after the last one seed-mock
\* reports a degraded graph and ends all the same.
SeedMockRetries(w) ==
  /\ job[w] = "cli"
  /\ phase[w] = "hydrated"
  /\ attempt[w] + 1 < GraphAttempts
  /\ attempt' = [attempt EXCEPT ![w] = @ + 1]
  /\ ReplaceProjection(w) \/ UNCHANGED graph
  /\ UNCHANGED <<storeVars, replica, snapshot, job, at, raced, counters>>

\* Mutant: the command fails, and its container with it.
SeedMockExits(w) ==
  /\ phase[w] = "hydrated"
  /\ attempt[w] + 1 = GraphAttempts
  /\ Ends(w, "cli")
  /\ SetReplica(at[w], "down")
  /\ attempt' = [attempt EXCEPT ![w] = 0]
  /\ ReplaceProjection(w) \/ UNCHANGED graph
  /\ Finish(w)
  /\ UNCHANGED <<snapshot, raced, counters>>

SeedMockDegrades(w) ==
  /\ phase[w] = "hydrated"
  /\ attempt[w] + 1 = GraphAttempts
  /\ SeedMockEnds(w)
  /\ ReplaceProjection(w) \/ UNCHANGED graph
  /\ UNCHANGED <<replica, snapshot, raced, counters>>

\* The API hydrates and does not seed: AUTO_SEED is false in the container.
StartHydrates(w) ==
  /\ Becomes(w, "starting", "start")
  /\ BeginHydrate(w)
  /\ UNCHANGED <<replica, snapshot, attempt, graph, raced, counters>>

StartServes(w) ==
  /\ phase[w] = "hydrated"
  /\ Ends(w, "start")
  /\ SetReplica(at[w], "up")
  /\ snapshot' = [snapshot EXCEPT ![at[w]] =
                    [pub |-> readPub[w], rows |-> readRows[w]]]
  /\ Finish(w)
  /\ UNCHANGED <<attempt, graph, raced, counters>>

(***************************************************************************)
(* vector_search, asked by a replica during retrieval                      *)
(***************************************************************************)

\* Mutant: the publication's own status is not looked at.
OfAnyPublication(p) == TRUE

OfActivePublication(p) == Active(p)

\* Chunks written last by the seed of the publication the replica serves.
\* The policy of the request, and the limit, only take rows away.
VectorHits(i) ==
  {r \in ChunkRow :
     /\ WrittenFor(snapshot[i].pub, r)
     /\ OfActivePublication(snapshot[i].pub)}

(***************************************************************************)
(* Crashes                                                                 *)
(***************************************************************************)

Crash(i) ==
  /\ faults < MaxFaults
  /\ replica[i] # "down"
  /\ faults' = faults + 1
  /\ replica' = [replica EXCEPT ![i] = "down"]
  /\ snapshot' = [snapshot EXCEPT ![i] = NoSnapshot]
  /\ job' = [w \in Worker |-> IF at[w] = i THEN "dead" ELSE job[w]]
  /\ UNCHANGED <<storeVars, at, attempt, graph, raced, reloads>>

\* The server side of a dead worker's connection is cleaned up.
Reap(w) ==
  /\ Ends(w, "dead")
  /\ attempt' = [attempt EXCEPT ![w] = 0]
  /\ \/ Rollback(w)
     \/ Finish(w)
     \/ phase[w] = "idle" /\ UNCHANGED storeVars
  /\ UNCHANGED <<replica, snapshot, graph, raced, counters>>

JobStep(w) ==
  \/ StoreStep(w)
  \/ JobFails(w)
  \/ AssignReloaded(w)
  \/ ProjectReloaded(w)
  \/ ProjectionFails(w)
  \/ AuditReload(w)
  \/ SeedMockProjects(w)
  \/ SeedMockRetries(w)
  \/ SeedMockDegrades(w)
  \/ StartHydrates(w)
  \/ StartServes(w)
  \/ Reap(w)

ReloadNext ==
  \/ \E w \in Worker :
       \/ \E i \in Replica, p \in Pub : Boot(w, i, p) \/ RequestReload(w, i, p)
       \/ JobStep(w)
       \/ StoreFails(w)
       \/ AuditFails(w)
  \/ \E i \in Replica : Crash(i)

ReloadSpec == ReloadInit /\ [][ReloadNext]_vars

\* A thread that can run does run, and "restart: unless-stopped" restarts a
\* container that exited. Requests and faults are not fair.
Fairness ==
  /\ \A w \in Worker : WF_vars(JobStep(w))
  /\ \A i \in Replica : WF_vars(\E w \in Worker, p \in Pub : Boot(w, i, p))

FairReloadSpec == ReloadSpec /\ Fairness

(***************************************************************************)
(* Properties. Jobs overlap in any way; what a replica serves and queries  *)
(* is whole unless a seed is committed while another job works with what   *)
(* it has read, or after its publication was retired. Seeds that overlap,  *)
(* wait for each other, fail or die are safe.                              *)
(***************************************************************************)

\* What a replica is to serve of a publication: its content, but for the
\* chunks, which are queried where they are.
Served(p) ==
  [r \in Row |-> IF r \in RowsOf[p] \ ChunkRow THEN Content[p][r] ELSE NoRow]

\* A replica serves the whole content of one publication, not rows of two,
\* nor rows another one has rewritten: retrieval, QA and the graph policy all
\* read this one snapshot. The run has contents that add rows to a version
\* and remove none.
SnapshotComplete ==
  \A i \in Replica :
    replica[i] = "up" /\ ~raced =>
      /\ snapshot[i].pub \in Pub
      /\ snapshot[i].rows = Served(snapshot[i].pub)

\* Neo4jProjectionAdapter.status, asked by a replica for its own snapshot.
GraphHealthy(i) == replica[i] = "up" /\ watermark = snapshot[i].pub

\* A replica that reports a healthy graph queries one that holds exactly the
\* nodes and edges of its publication, also after lost answers and retries.
HealthyIsComplete ==
  \A i \in Replica :
    GraphHealthy(i) /\ ~raced => stored[watermark] = GraphOf(Served(watermark))

\* When a reload is audited as a success, the publication it names is the
\* active one of PostgreSQL, of the replica and of the Neo4j watermark.
AuditedReloadAligned ==
  \A w \in Worker :
    job[w] = "audit" /\ ~raced =>
      /\ Active(readPub[w])
      /\ watermark = readPub[w]
      /\ snapshot[at[w]].pub = readPub[w]

\* The chunks a vector query selects from, before its limit and the index of
\* the vectors have their say, are all those of the publication the replica
\* serves, or none when a later seed has retired it: the lane never ranks the
\* provisions a later content has left alone above those it has taken over.
VectorLaneWhole ==
  \A i \in Replica :
    replica[i] = "up" /\ ~raced =>
      VectorHits(i) \in {{}, RowsOf[snapshot[i].pub] \cap ChunkRow}

\* No row a replica serves is outside the content of its publication: a
\* provision that a reload has removed from a version is no longer found.
OnlyOwnRows ==
  \A i \in Replica :
    replica[i] = "up" =>
      \A r \in Row \ RowsOf[snapshot[i].pub] : snapshot[i].rows[r] = NoRow

\* A replica that is down serves again, with Neo4j or degraded without it.
ReplicaRecovers == \A i \in Replica : replica[i] = "down" ~> replica[i] = "up"

\* A reload whose graph build fails does not leave its publication active,
\* unless Neo4j holds the graph of that publication.
FailedProjectionNotActive ==
  [][\A w \in Worker :
       job[w] = "project" /\ job'[w] = "none" =>
         \/ ~Active(readPub[w])
         \/ stored'[readPub[w]] = GraphOf(Served(readPub[w]))]_vars

=============================================================================
