# RegOntology: TLA+ models, model checking and proofs

This directory holds a formal model of RegOntology: a service that answers
questions about regulations from a canonical PostgreSQL store, a Neo4j
projection of an ontology and a language model, with every answer cited,
recorded and audited. Paths below are relative to `src/backend/app/` unless they
say otherwise.

## The system

| Component | State | Operations | Module |
|---|---|---|---|
| Canonical store `infrastructure/postgres/repository.py`, `models.py`, migrations | rows of `publication` (ACTIVE or RETIRED), of documents, versions, provisions, nodes and edges | `_seed_snapshot` (one transaction), `_hydrate_snapshot` (several statements), `vector_search` | `PublicationStore` |
| API replica `main.py`, `api/router.py`, `cli.py`, `docker-compose.yml` | the snapshot it serves | start (`seed-mock`, then the API), `POST /admin/mock-data/reload`, crash and restart | `PublicationReload` |
| Neo4j projection `infrastructure/neo4j/projection.py` | graph rows by publication id, a watermark node | `replace_projection`, `status`, `one_hop` | `PublicationReload`, `OntologyGraph` |
| Version timeline `mock_repository.py`, `domain/models.py`, migration 0001 | periods of the versions of a document | overlap check of `_load`, exclusion constraint, `effective_version` | `VersionTimeline` |
| Question answering `application/services.py` (`QAService`), `postgres/qa_store.py` | `qa_run`, `qa_citation` | `answer`, `get` | `QaAnswer` |
| Hybrid retrieval `retrieval.py`, `vector_search` of `postgres/repository.py` | none of its own | `retrieve_with_status` and the gate of `answer` | `Retrieval` |
| Access policy `Principal.can_read`, `is_effective`, `active_provisions`, the WHERE clause of `vector_search`, `compile_graph_access_scope` | none | pure functions of a publication | `AccessPolicy` |
| Audit log `infrastructure/audit.py`, `postgres/audit.py` | a hash chain of events | `append`, `verify_chain`, `list` | `AuditLog`, `PgAuditLog` |
| Ontology `services.py` (`OntologyService`), `graph_policy.py` | none of its own | `subgraph`, and `node`, which is `subgraph` with one seed; `search` is not modelled | `OntologyGraph` |
| Regulation browsing `services.py` (`RegulationService`), `api/router.py` | none of its own | list, document, version, provisions; search and single provision are not modelled | `RegulationBrowsing` |
| Settings, embeddings, lexical similarity | none | pure functions | constants of the models |
| Web frontend `src/frontend` | library and detail pages, chat turns, view state | loads of several requests with a timeout and one retry, links of citations; the chat's turns are not modelled | `RegulationBrowsing` |

How they interact. A reload parses the files, seeds PostgreSQL, hydrates, swaps
the replica's snapshot under a lock, projects to Neo4j and appends an audit
event; each of these commits by itself. Request threads never hold that lock: every
helper reads `repository.snapshot` again, so a request may see several
publications. Replicas share PostgreSQL and Neo4j and nothing else.

What is hard to test is listed line by line under `hazards` in `PROJECT.json`:
concurrent seeds, statements that see different commits, snapshots read twice,
a store that fails after another one committed, lost answers, restarts, and
boundaries of periods, depths and limits.

## Modules

### PublicationStore

A *worker* is one run of seed and hydrate, in any process. PostgreSQL is
modelled at READ COMMITTED: `scan` is what the retiring UPDATE found when it
started, `seen` the status `session.merge` loaded, `pubLock` and `rowLock` the row
locks, `table` the committed rows and `draft` what the holder of a row lock has written
there. The private writes to publication rows follow from the locks and the candidate
(`StatusAfter`); `CommitSeed` makes both visible. `BeginSeed`, `RetireOthers`, `MergePublication`,
`LockCandidate`, `WriteIndexEntry` or `FlushConflict`, `LoadRow` and `WriteRow` for every row,
and `CommitSeed` are the statements of `_seed_snapshot` in their order. The
publication row is flushed by the autoflush of the first document merge: the row is locked
first, and the transaction then waits, holding it, in the unique partial index of
migration 0002, which is `InDoubt` (wait for a writer that has not ended) and
`OtherActiveRemains` (fail). A candidate that was ACTIVE when `merge` loaded it does not write
its status, since an UPDATE leaves out columns that have not changed, and needs no new entry.

A row has columns (`Record`). `merge` selects it (`LoadRow`), and the flush, later and under the row's
lock, writes the columns that differ from what was selected (`Written`, `WriteRow`): between the
two another seed may commit, and the row then has columns of both contents. An INSERT of
a row that another seed has inserted since fails, which is `Rollback`. A row found with the candidate's
content is not written and not locked. A seed merges its rows in the order of its content (`Order`,
`Upcoming`), text rows (documents, versions, provisions) and chunks before graph rows. Text rows
are hydrated by the member versions, whichever publication wrote them last, with rows a
later content has removed; graph rows, and chunks in a vector query, by their column
`publication_id` (`WrittenFor`).

### PublicationReload

Extends `PublicationStore` with replicas and jobs. A worker of the store is one of a
pool: it runs one job at a time, in the replica `at` names, and is free again when the job
ends, so that the jobs of one replica overlap as its request threads do. A job is `cli`
(seed-mock), `start` (construction of the API) or `reload`, then `project` and
`audit`. `raced` is a history variable: a seed was committed while another job was
between its hydration and its end, or for a publication that was retired while it
waited. `VectorHits(i)` is what PostgreSQL has for the vector lane of replica
`i`: the chunks that the seed of its publication wrote last, if that is ACTIVE. `stored` has the
nodes and edges Neo4j holds for each publication id, row by row (`GraphOf`).
A Neo4j write may commit although its answer was lost. seed-mock retries
the projection and ends degraded after `GraphAttempts` failures; the reload request
does not retry. `Crash` takes a replica down with its snapshot; its transactions
linger (`dead`) until PostgreSQL reaps them. Errors of Neo4j other than those
of `_is_runtime_connectivity_error` are not modelled.

### VersionTimeline

The versions of one document. A content is the sequence of version records in the
order the seed writes them; `work` is the table as the seed transaction sees it. The
exclusion constraint is checked by every statement; a hydration selects the
publication and later reads its versions, so a commit may come between.

### QaAnswer

One thread runs `answer` with a step for each place where the code reads
`repository.snapshot`: `active_provisions` and, per document, `effective_version`;
`retrieve_with_status`; `compile_graph_access_scope`; `denied_scope_has_evidence`;
`_pack_primary_article`; `_add_cross_references`, `find_article_paragraphs` and
the version it asks for; the trace. A lookup that fails because two of these differ
(`NotFoundError`, `KeyError`) is `lookup_error`. A *hit* is a provision with the
publication its text was read from. What the code ranks, what the language model
returns and what the principal may read are choices. `CommitReload` and
`AssignSnapshot` are the two moments of a reload that others see. A reader loads
a recorded result (`LoadResult`, with the integrity check of `_citation_from_row`) and
checks it against the snapshot (`ReturnResult`). The reads of one `LoadResult` are
one step: each citation is compared with its own hash. `stable` is a history
variable. Claims are checked one at a time, as `_verify` does: the bodies of the sources a claim cites are joined
in its order (`Supports`), and the claim must be a passage of one of them, stand over
a seam of the join (`Seams`) or be its normalized form (`Normalized`, which is
`grounded_normalization`), and have no number that is not found there. A passage that begins or ends within a number
(`Cut`) shows why the code compares numbers after it has found the text: "4" is in
a body that says "24".

### RegulationBrowsing

Extends `QaAnswer`: a thread serves a question, as there, or the loads of one page,
under the same snapshot, reloads and crashes. The library page makes one request:
`ListRegulations` takes the documents of one snapshot, `ListRegulation` looks up each
effective version in the snapshot of its moment (`NotFoundError` if the document has
left it), `LibraryShown` answers with the first entries, by document code, that the page asks for (`FirstOf`: 50, `api.ts:164`). The detail page makes two: `GetDocument`,
`ListVersions` and `AuditRead` are `get_document` and the `regulation.read` event of the
handler; `Choose` is the page picking a version from the answer; `GetDocument` again,
`ListVersionsAgain`, `GetVersion` and `GetProvisions` are `get_provisions` with what it
calls, a snapshot each; the text is that of the first provisions the page asks for
(`FirstPage`: 100, `api.ts:208`), chapters and articles counted (`Position`). `page` is where a load is, `listing` and `text` what it has
collected, each entry with the publication it was read from.

`FollowCitation` opens the detail page from an answer the same thread was shown: the link has
the document and the version of the citation (`CitationLink`), and `cited` remembers the
citation. A version asked for that the document no longer has is replaced by another
one in `Choose`, without a word to the reader; that is why
`CitationsOpenTheirText` is about text that is still published, and within the limit.

`TimeOut` is the abort of the client: the page has failed, the server goes on and may
still store its event. `Retry` is the query client's `retry: 1`, which repeats the whole
load. A `KeyError` and a `NotFoundError` both end a request (`failed`); what else ends
one (a crash, a write that fails, a timeout) is `lost`. The demonstration fallback is off
in the image that is served (`src/deploy/docker/frontend.Dockerfile:24`) and left out. If no version
of a document is effective, the response has an empty version and the page shows one it
makes up, `v1.0` with a period of its own; `MadeUp` is the version that has this id, if there
is one, and the second request asks for it. `stable` (from `QaAnswer`) and `seen`, the
publications served during a load, are history variables.

### AuditLog and PgAuditLog

`AuditLog` is the log in memory and the contract of the port: a list under a lock.
`PgAuditLog` is the PostgreSQL one: advisory lock, SELECT of the latest
`occurred_at`, a timestamp of the instance's own clock, INSERT. A hash stands for the
event it is computed from, since `verify_chain` compares hashes and recomputes none. An
append takes longer than one unit of `occurred_at` (a microsecond). The abstract
list is the sequence of the rows by time (`Chronicle`); the run and the refinement
assume that clocks agree, and a run without that assumption shows the chain break.

### OntologyGraph

Extends `AccessPolicy`. `subgraph` for one request: `CompileScope` is `compile_graph_access_scope` with the
choice of seeds, `AskStatus`, `Hop`, `HopFails` and `EndHops` are `_runtime_edges`,
`Visit`, `VisitAgain`, `Truncate` and `EndSearch` the breadth-first search. Around it
the snapshot, the projection and single rows change and Neo4j comes and goes.
`subgraph` reads the snapshot itself (`base`) before the policy does
(`scope`): the nodes shown are in both. The scope is compiled in one step here;
its internal second reads are those `QaAnswer` has in `LookUp`. It is a record of the
publication, the documents, the nodes and the edges in it (`AccessScope`). The list caps inside
`one_hop` (200 to 1000 entries) are left out. A row of Neo4j is compared as a whole.

### AccessPolicy

Who may read what on a day, over publications that are constants, and the places that
apply it, each translated from its own code: `ActiveProvisions` (lexical lane),
`Searchable` (the SQL of `vector_search`, with `EffectiveDocumentScope`),
`ScopeDocuments` and `HasActiveProvenance` (graph lane), `DeniedProvisions`
(`denied_scope_has_evidence`). It has no variables; that the places agree is what
the first part of `OntologyGraphProofs` and the properties of `Retrieval` are about. An article may have
no paragraphs, which is why a version has both.

### Retrieval

Extends `OntologyGraph`, whose snapshot, projection and scope it shares: the replica
serves a subgraph or a question. `BeginRetrieve` (`active_provisions`), `Bind`,
`SearchVectors`, `MatchLabels` and `CompileGraphScope` take a snapshot each, as the code
does; `searched` is the publication the SQL names, `active` the one that is ACTIVE in
PostgreSQL. `SearchVectors` returns any rows the SQL admits, `VectorLimit` at most (`Scanned`): PostgreSQL
may scan the HNSW index of migration 0001, which yields near vectors of all publications and classes and
not surely the nearest, and test the conditions afterwards, so allowed rows may be missing.
`UseCanonicalLane`, `SkipQuery`, `AskLaneStatus`, `QueryLane` and
`QueryFails` are the graph lane without and with Neo4j; `Fuse` and `Gate` rank the hits
and decide on an answer. A question is its scores in hundredths, the similarity functions being
left out. Sums are in millionths: reciprocal ranks are rounded down, which moves
a sum by less than three millionths, and the weights are exact. Documents and versions that
the later snapshots no longer have are `lookup_error`, as in `QaAnswer`.

## Runs

| Run | Question | Bounds |
|---|---|---|
| `store_race` | Do concurrent seeds keep one active publication and its rows, and where can they deadlock? | 3 workers, 3 publications that share a row of two columns, of which two differ from the third in one column each, and that share a chunk; any number of rollbacks; workers and those two symmetric (1,145,611 states) |
| `store_relabel` (violation) | Does a committed seed leave its publication active? | 2 workers, 2 publications over the same rows |
| `reload_overlap` | Do store, snapshot, vectors, projection and audit stay aligned while jobs overlap, and does the replica come back? | 1 replica, 2 jobs at a time, 2 contents over two text rows, two chunks, a node and an edge, one text changed between them, 2 reloads, 2 faults, 2 projection attempts (293,857 states) |
| `reload_failed_projection` (violation) | Is a publication whose graph build failed inactive? | 1 reload, no other fault |
| `reload_removed_provision` (violation) | Is only the publication's own content served? | a content that takes a provision out of a version |
| `qa_answer` | Are answers supported, recorded and stable? Does a page show what was served, is its read audited, and does a citation open the text it quotes? | 1 query and the page of one of its citations, or 1 page, with 2 loads; 1 reader, 3 publications, 2 reloads, 1 fault, 2 sources at most, 2 cited by a claim, 1 document and 2 provisions to a page (1,337,304 states) |
| `qa_trace` (violation) | Does the trace name the publication of the quotes? | 1 query, 1 reload |
| `version_timeline` | Is at most one version effective, and are amendments accepted? | 3 versions, contents that close, shorten, add and overlap |
| `timeline_rollback` (violation) | Can an earlier publication be activated again? | the same contents |
| `audit_chain` | Do concurrent appends build one chain, and end? | 4 requests on 2 instances, each of which may fail |
| `audit_skew` (violation) | Is the chain valid if one clock is ahead? | the same, skewed |
| `ontology_graph` | Does a response have only approved edges, and cover those verified for it? Do the lanes agree on what may be read, and is strong evidence answered? | 2 publications, 4 nodes, depth 2, 3 nodes at most, 5 edges of budget, 6 paragraphs, 6 questions, 3 requesters, 3 restrictions, limits of 2 in every lane, 2 changes (655,307 states) |

Every bound is a named constant (`MaxReloads`, `MaxFaults`, `MaxPast`,
`MaxCited`, `MaxSeeds`, `MaxChanges`, `Requesters`, `Restrictions`, `TypeFilters`,
`Questions`) or a constant of the code made small
(`GraphAttempts` is 10, `EdgeBudget` 400, `FrontierCap` 200, `MaxSources` 7, `VectorLimit`
and `LaneLimit` 50, `MatchLimit` 25, `EdgeLimit` 100, `HitLimit` 12, `DocumentLimit` 50, `ProvisionLimit` 100 in the code;
`Retries` is 1 there and here).
They suffice for the cases meant: three publications are the least with which a seed
can be retired by one worker and overtaken by another; with three workers two
seeds of one publication cross while a third is still under way; one text column that each of two contents changes
is the least with which a row becomes mixed; two sources are the least that have a seam; a page of two provisions
leaves out a third; two reloads are the least with
which a thread reads three publications; two faults are the least for a failure during
the recovery from one; the budgets are small enough to be used up. Requests,
reloads and appends end, so most runs switch off deadlock checking; `store_race`
never stops and checks it.

`SnapshotComplete`, `HealthyIsComplete`, `AuditedReloadAligned` and `VectorLaneWhole`
are claimed of every overlap of seeds and reloads in which no seed commits in the middle of
another job (`~raced`): seeds may wait for each other, fail, die and be
rolled back in any order. When one does commit there, the contents of rows
and the order of assignment are decided by whoever comes last, and they fail; that is listed
under hazards. In the store alone, `OnlyRetiredSeedsTakeRows` says who can
take rows from the publication that is active or about to be: no step but the commit of a seed
that was itself retired while it waited. It speaks of the one about to be active
(`ActivationsComplete`) because a retired seed may take a row that an activating one has
already found in order; the row is then missing only when the latter commits. A row of mixed columns is
such a taken row: it takes a seed that selected it before, and was retired while it waited to write it. `store_race` needs
two rows for a circle of waits over rows. The contents of `reload_overlap` add rows and change one, and remove none.

`OnlyCrossedSeedsDeadlock` is what is true of deadlocks: worker `u` reloads B while A is active, and `w` reloads A;
`u` commits before `w` selects A's row, which `w` finds RETIRED; a third worker `v` reloads A too and locks B's row to retire it.
Then `w` writes A's row and waits in the index for `v`, and `v` waits for A's row. TLC finds such circles where
the property does not except `Crossed`, also when A is new; with contents that agree on the order of shared rows there is no other.

The questions of `ontology_graph` are chosen around the threshold: 51 against
19 in every lane, hits of one lane only, equal scores, no hit. The
principals differ in class, in their own list of documents and in the day, so that each
condition of the policy excludes something; the projection may be stale, altered or down
between any two steps.

### Findings

1. `CommitActivates`: `session.merge` omits a status it believes unchanged, so a
   seed of the active publication that races with another one commits retired.
2. `FailedProjectionNotActive`: a reload activates before it projects; the requirements
   say a failed graph build leaves the publication inactive.
3. `OnlyOwnRows`: provisions removed from a version are hydrated into the next
   snapshot, since seeds delete none and hydration selects by version.
4. `TraceNamesSource`: the trace is taken from a snapshot read after the sources.
5. `PastPublicationsAccepted`: the exclusion constraint also counts versions of retired
   publications and refuses to go back.
6. `ChainValid` with skewed clocks: the chain is ordered by `occurred_at`.

### Fairness

Only two runs need it. `reload_overlap`: a thread that can take a step takes one (weak
fairness of each worker's job), and `restart: unless-stopped` restarts a container that
exited (weak fairness of the boot of each replica, whichever worker of the pool and content it
takes); requests, crashes and
failures are not fair, they are bounded. The projection's failures need no bound:
attempts are counted. `audit_chain`: PostgreSQL grants a free lock to a queued waiter, which
is strong fairness of each request's steps, since the lock is taken and freed in between.

## Proofs

`tlapm` checks the following for every value of the constants. Every invariant and every safety property
of a passing run is stated by a theorem, and so is the refinement of `AuditLog`.

**`PublicationStoreProofs`.** `TypesCorrect`, `OneActivePublication`
(`Spec => []SingleActive`) and `AlwaysAnActivePublication` (`Spec => NeverWithoutActive`).
`SingleActive` is not inductive: whether a commit keeps it depends on what
the transaction has locked. `IInv` adds: a lock on another publication's row
means that row is committed ACTIVE (`LocksMeanActive`); a transaction that has flushed its
candidate's row holds it, also while it waits in the index (`CandidateLocked`); two transactions that
write ACTIVE cannot both have their index entry (`OneActivates`, which is what the
unique index gives); one that does holds every other ACTIVE row
(`ActivatorRetires`); one that does not, retires nothing (`KeeperRetiresNothing`). The
proof has a lemma per kind of step, and `CommitStatus` says what a commit leaves.
`RowsStayWithTheActive` (`Spec => OnlyRetiredSeedsTakeRows`) rests on the same invariant: while
one seed is activating, no other one that commits can leave its publication active.
`RowLocksMerged` says that a row is locked by a seed that has merged it and that what this seed has still to
merge comes later, and `DraftsMix` that what it has written is, column by column, its candidate's or what the
table holds, so that a mixed row can come only of a seed that loses.
`DeadlocksAreCrossings` (`Spec => []OnlyCrossedSeedsDeadlock`): only one transaction that has not got
to its rows holds a lock others of another candidate wait for, the one that retires; where no two seeds of one publication have crossed,
some of a circle therefore merge rows (`SomeMergesRows`), and those wait row by row, upwards in the
common order (`NoCircle`).

**`PublicationReloadProofs`.** `ReloadImplementsStore` (`ReloadSpec => Spec`): each step of a job
is a step of the store or leaves it alone (`JobsTakeStoreSteps`), so the theorems above hold with
replicas, Neo4j and crashes around the store. `ReloadTypesCorrect`, `HealthyGraphsComplete`
(`HealthyIsComplete`) and `AuditedReloadsAligned` (`AuditedReloadAligned`) need no more. Their
invariant `ReloadInv` says of every state without a race (`~raced`, part of the properties themselves)
that the store's active publication is whole (`Whole`), that what each job has read of it is all there is
(`ReadsWhole`), that the graph the watermark names is that publication's (`ProjectionWhole`), that a
job finds its publication where it has put it (`ReloadsAligned`) and that served snapshots have its rows as it
has them, and beside them text rows of its versions at most (`SnapshotsWhole`). `VectorLanesWhole`
(`VectorLaneWhole`) needs in addition that a row with the id of a publication is in its content
(`RowsOwned`). `SnapshotsComplete` (`SnapshotComplete`) assumes `NothingRemoved`, that no
content lacks a text row of a version it keeps; the run `reload_removed_provision` shows what happens without
it. Of a seed that raced nothing of the kind is proved: text rows are hydrated whichever publication
wrote them last, so that a snapshot may then hold another one's text.

**`QaAnswerProofs`.** `QuestionTypesCorrect`, `EveryClaimSupported` (`ClaimsSupported`),
`EveryRereadUnchanged` (`RereadUnchanged`), `EveryAnswerRecorded` (`AnswersRecorded`) and
`StableQueriesUnmixed` (`StableQueriesConsistent`), all from `QaInv` (`QuestionsInvariant`): hits are
text of the publication they were read in (`HitsPublished`), claims were verified against the hits they
are answered with (`Verified`), a result is saved once, before its event, and is what the thread
found (`Recorded`), what clients have is what is recorded (`GivenAsRecorded`), and, as long as no
snapshot is assigned during a query, all it has read is of the current one (`Unmixed`).

**`RegulationBrowsingProofs`.** `EveryPageAudited` (`BrowsingSpec => []PagesAudited`) and
`EveryPageServed` (`BrowsingSpec => []PagesWereServed`). For the first, the invariant says that
a detail page past its first request has its read on record (`ReadsRecorded`) and never
takes the steps of the library's request (`LibraryRequests`). The second needs to know what each
step of a load leaves behind: the current snapshot is among those seen (`SnapshotSeen`), once
`get_document` has passed a publication that lets the document be read was seen
(`ReadableSeen`), once `get_version` has passed the version is the document's
(`VersionOfDocument`), and the text is the first page of the version in a publication seen (`TextSeen`). The publications
of `ReadableSeen` and `TextSeen` may differ, which is why the property has two witnesses.
A page's step touches one thread (`PageStep`); reloads and crashes only let `seen` grow
(`SeenServed`). `OthersKeepSnapshot` covers the questions that run alongside.
`BrowsingTypesCorrect`, `EveryStablePageConsistent` (`StablePagesConsistent`) and `EveryCitationOpens`
(`CitationsOpenTheirText`) come from `BrowsingInv`, which adds to `QaInv` how far a load over one
snapshot has got (`StableList`, `StableDetail`), for which reasons alone it fails (`StableFailure`),
and that a citation's version is listed and chosen while it is published (`CitedOpens`).
`QuestionsBesidePages` gives the properties of `QaAnswerProofs` for this system, since a page is
opened only before its thread's question or after its answer (`PageApart`).

**`VersionTimelineProofs`.** `TimelineTypesCorrect` and `OneEffectiveVersion`
(`Spec => []SnapshotUnambiguous`). The invariant is that no two published rows overlap, in the
table and in the seed's own view of it; the lemma `CommonDayOverlaps` says
that a common effective day is an overlap, and `EndsBeforeLater` that
comparing neighbours is enough because a content is sorted by its first days.
`EveryAmendmentAccepted` (`Spec => AmendmentsAccepted`) adds that the seed sees the records it
has written and the committed rows of the versions it has yet to write (`WrittenSoFar`): the
former end before the row that is written next, the latter start after it ends (`AmendingRowFits`).
The proof makes no use of how the old periods end, so the property does not restrict it.

**`PgAuditLogProofs`.** `AuditTypesCorrect`, and, assuming `ClocksAgree`,
`ChainUnbroken` (`Spec => []ChainValid`) and `OrderIsTotal`. The invariant adds that rows are in the
past, that the hash the holder of the lock has read is that of the newest
row, and that its stamp is later than every row; `InsertExtendsChain` is the
step that uses all of them. `RowsImplementLog` (`Spec => ImplementsAuditLog`), under the same
assumption, is the refinement: `ChronicleInv` adds that the rows are finitely many, that their requests are
over (`RowsDone`) and that each place in the order of time is taken (`PlacesTaken`), so `Chronicle` has
one entry for each row at the place of its time (`ChronicleOfRows`). A commit leaves
every place and takes the next (`CommitTakesNextPlace`), which is an append linked to the last
entry (`CommitAppends`); every other step stutters. `RowsAreLinked` carries `Linked`, which the log in
memory checks, over to the rows.

**`OntologyGraphProofs`.** Of the access policy: `SearchableIsActive`: for every publication,
principal, day and restriction, the WHERE clause of `vector_search` admits exactly the paragraphs of
`active_provisions`. The step that needs care is that a list of ids may be absent in the
request, in the principal or in both (`ScopeIsIntersection`). `EvidenceSplits`: a paragraph in
force among the documents asked for is either readable or counted as denied, never both.
`ProvenanceIsActive`: an edge in scope that is taken from a paragraph is taken from one
the lexical lane returns. An edge taken from an article may be in scope although
the article has no paragraph; it then ranks nothing.

Of `subgraph`: `ApprovedEdgesOnly` (`Spec => []OnlyApprovedEdges`). The invariant
`GraphInv` says that the scope is the one compiled for its publication
(`ScopeIsCompiled`), that what is queued, selected and verified is in it (`WithinScope`), that
nothing is found before the search (`Untried`), and that the verified edges were
received, or nothing was and they are canonical (`OneOrigin`). `GraphTypesCorrect` is
`Spec => []GraphTypeOK`, with the limits on nodes, hops and edges.

`EverySearchCoversVerified` (`Spec => []SearchCoversVerified`): the invariant `SearchInv` of the breadth-first
search says that what is queued at a depth is at most that far away (`QueuedWithin`), that seeds
and neighbours of what is selected are selected or queued no deeper than they have to be (`NothingLost`),
and that the flag goes with the limit (`Flagged`); at the end the nodes are all within the depth or the
flag is set (`Finished`). `Ball` is a recursive function of the distance: `LayersExist` shows, by a least
counterexample, that the recursion has a solution, and `BallIsLayer` that `Ball` is it.

`IntactProjectionAgrees` (`Spec => []ProjectionAgrees`) assumes `MaxNodes <= FrontierCap`, as in the
code, where both are 200 (`services.py:350`, `router.py:231`): with a smaller cap a hop would ask for a part
of its frontier. `ProjectionInv` says that without a change the projection is that of the start
(`Pristine`), that the frontier is reached over verified edges in the hops made (`FrontierReached`), that
every edge at a node asked for is verified and followed (`AllFollowed`), so that after the last hop all
edges are verified that the depth can reach (`AllVerified`). A frontier that was cut reaches more
nodes than a response holds, whose flag is then set.

**`RetrievalProofs`.** `RetrievalTypes`, `GraphLaneIsCanonical`
(`RetrievalSpec => []GraphLaneAgrees`) and, for the subgraph beside questions,
`ApprovedEdgesBesideRetrieval`, `GraphTypesBesideRetrieval`, `SearchBesideRetrieval` and
`ProjectionBesideRetrieval` (with the assumption above). `RetrievalInv` adds to `GraphInv` that a subgraph and a question
are never under way together (`OneRequest`), what the request is (`Asked`) and what the lanes hold
(`RowsAllowed`, `LaneInv`). The heart is `IntactProjection`: the allow lists `one_hop` is given,
its limit and the comparison of rows take nothing away from an intact projection.
`VectorPoliciesAgree` (`RetrievalSpec => []VectorPolicyAgrees`): the rows PostgreSQL returns, and all those it may choose them
from, are what the lexical lane may read of the publication searched (`SearchableIsActive`). How many of them
the index yields is left to it, and nothing is proved of that.

`StrongEvidenceIsAnswered` (`RetrievalSpec => []StrongEvidenceAnswered`): `answer`
looks at the best hit alone, yet a paragraph among the lexical ranks with a score of at
least 0.51 is answered whatever the other scores are. The best hit exists because ranks follow a
strict order on a finite set (`FirstExists`). If it is irrelevant, it comes after the strong
paragraph in the lexical lane, so its share of that lane is no larger (`ShareFollowsScore`), and the
rest of its sum is at most 2 · 16,393 + 19 · 4,500 + 19 · 2,000 + 35 · 2,000 = 226,286 millionths
(`FinalScoreBounds`), less than the 51 · 4,500 = 229,500 of the strong one. 0.51 is the least: with
0.50 an irrelevant paragraph that leads the vector and the graph lane comes first, and model
and code abstain.

The assumptions are those of the modules (`StoreAssumption`, `OrderAssumption`, `ReloadAssumption`,
`TimelineAssumption`, `PgAuditAssumption`, `QaAssumption`, `BrowsingAssumption`, `PolicyAssumption`,
`GraphAssumption`, `RetrievalAssumption`), which TLC evaluates on its runs, and three hypotheses:
`NothingRemoved` and `ClocksAgree`, which the instances of the passing runs satisfy, and
`MaxNodes <= FrontierCap`. `ontology_graph` makes the cap smaller than the limit, 2 and 3, so that it
cuts a frontier among four nodes; `UncutFrontierAgrees`, without the hypothesis, is what is proved of
such a cap, and TLC finds `ProjectionAgrees` true there. `BrowsingAssumption` says that an effective
version is a version of its document, as `effective_version` picks it among those of the
document (`mock_repository.py:332`). Each inductive invariant was model-checked before it was
proved, the parts of `GateInv` through the properties they imply.

Only model-checked: liveness (`ReplicaRecovers`, `AppendsEnd`), which is out
of the prover's reach, and the counterexamples of the violation runs. The similarity functions and other
recursive or numeric code on text are neither.

## Not modelled

The similarity functions, embeddings and the labels' match, whose results are
inputs of `Retrieval` (a label is taken to be the same in all publications); a repository without
`vector_search`, which the demonstration data uses and the served image does not; the search and the single
provision of `RegulationService`, which read one snapshot once; `search` of the ontology; parsing of the
regulation files; the HTTP layer and the headers that make a principal;
settings; the frontend's chat turns, cache and graph view; continuous integration. In `Retrieval`,
`active_provisions` is one read; the several it makes are `QaAnswer`'s `LookUp`.
`PROJECT.json` gives the reason for each part.

## Observations

Met while modelling. They are properties of the code that a reader of the properties above should know, since the
properties stop short of them; where one disagrees with a document, the document is named.

- A claim that stands over the seam of two joined bodies, or equals `grounded_normalization` of them, passes `_verify`
  (`services.py:636`) although no quote contains it. AC-NFR-002-01 (`src/docs/01-product/REQUIREMENTS.md`) has
  the verifier block an answer whose citation does not support it. `ClaimsSupported` admits both.
- `get_provisions` returns `items[:limit]` and the page asks for 100 (`services.py:160`, `api.ts:208`): a
  citation of a later provision opens a page without it, against AC-FR-010-01. `CitationsOpenTheirText` is
  about the first 100; the longest version of the data has 28.
- `list_regulations` returns `items[:limit]` and the library asks for 50 (`services.py:94`, `api.ts:164`): later documents
  are not listed, and the page has no way to ask for more.
- The vectors are found by an HNSW index and the policy is applied afterwards (migration 0001, `repository.py:406`):
  fewer than 50 allowed rows may come back because of rows the caller may not use. `src/docs/04-architecture/RAG_PIPELINE.md:123`
  says that filtering afterwards alone is not allowed.
- A row of the active publication may come to hold columns of two contents, if a seed that was retired while it waited
  writes only what differed when it selected the row; `src/docs/04-architecture/DATA_MODEL.md:11` makes versions immutable.
- When the edge budget of `_runtime_edges` is used up (`services.py:345`), or Neo4j is lost between two hops, edges are
  missing and nodes behind them are left out; `truncated` stays false, and in the first case the status is healthy.
- Two seeds of one publication deadlock if a third commits another one after the first has started and the second
  retires that one; see `OnlyCrossedSeedsDeadlock`. PostgreSQL ends one of them and its reload fails.
- `OntologyService.node` shows the edges between two neighbours when it uses the canonical
  edges, and not when Neo4j answers: a depth of one asks Neo4j for edges at the seed only.
- `normalizeQaResponse` of the frontend shows `graph_mode` as healthy where `graph_status` of the
  answer is unavailable, if the mode says so.
- The header `X-Publication-ID` (`main.py`) is read from the snapshot after the
  response was built; the page does not read it.
- Seeds of contents that list the rows they share in different orders can deadlock, when one
  of them was retired while it waited; without `OrdersAgree` TLC finds such a circle.
  PostgreSQL ends one of the seeds and its reload fails.
- A question whose best evidence is between 0.20 and 0.50 may be abstained from, since only the
  best fused hit is compared with the threshold.

## Plan

The order was: the store and the race of its seeds; replicas, reload and
projection over it; answers over a snapshot that changes; periods; audit and
its refinement; the graph; the pages over the regulations; overlapping reloads; the access policy
and retrieval. What comes next:

1. Proofs: what is left of `ReloadInv` when seeds race, and
   what `PublicationReload` promises as an abstract snapshot that only reloads replace.
2. Parsing of the regulation files (`_parse_provisions`), as a fold over their lines.
3. The frontend's question page: request timeout and turns.
4. The searches of `RegulationService` and of the ontology.
