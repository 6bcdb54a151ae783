--------------------------- MODULE OntologyGraph ---------------------------
(***************************************************************************)
(* OntologyService.subgraph: the access scope compiled from the snapshot,  *)
(* the edges taken from Neo4j hop by hop within it, each row compared with *)
(* the canonical edge, and the breadth-first selection of nodes. Neo4j is  *)
(* replaced, altered or lost between any two of its answers.               *)
(*                                                                         *)
(* A row of Neo4j is compared as a whole; the locator and the status are   *)
(* among its fields. Edge ids are numbers, in the order of the ids.        *)
(***************************************************************************)
EXTENDS AccessPolicy

CONSTANTS
  Node, Edge, RelType,
  NodeClass,    \* NodeClass[p]: nodes of publication p, with their class
  Edges,        \* Edges[p]: its edges, records of Edge
  Altered,      \* rows Neo4j may hold that are no edge of a publication
  FirstPub,
  EdgesPerNode, EdgeBudget,   \* 4 and 400 in _runtime_edges
  FrontierCap,                \* 200 in _runtime_edges
  DefaultSeeds,               \* 50 in subgraph
  MaxDepth, MaxNodes,         \* of a request: 2 and 200 in the router
  Requesters,                 \* bound: principals and the days they ask about
  TypeFilters,                \* bound: relation types of a request
  MaxSeeds, MaxChanges        \* bounds: seeds of a request, changes around it

EdgeRecord == [id : Nat, source : Node, target : Node, type : RelType,
               doc : Doc, anchor : {Metadata} \cup (Nat \X Nat),
               approved : BOOLEAN]

ASSUME GraphAssumption ==
  /\ Edge \subseteq EdgeRecord /\ Altered \subseteq EdgeRecord
  /\ Edges \in [Pub -> SUBSET Edge]
  /\ \A p \in Pub :
       /\ DOMAIN NodeClass[p] \subseteq Node
       /\ NodeClass[p] \in [DOMAIN NodeClass[p] -> Class]
       /\ IsFiniteSet(Edges[p])
       /\ \A e, f \in Edges[p] : e.id = f.id => e = f
  /\ TypeFilters \subseteq SUBSET RelType
  /\ Requesters # {} /\ Requesters \subseteq [who : Principal, day : Nat]
  /\ FirstPub \in Pub
  /\ {EdgesPerNode, EdgeBudget, FrontierCap, DefaultSeeds, MaxDepth, MaxNodes}
       \subseteq Nat \ {0}
  /\ {MaxSeeds, MaxChanges} \subseteq Nat

VARIABLES
  snapshot,   \* the publication of the replica's snapshot
  stored,     \* Neo4j: rows stored under every publication id
  watermark,  \* Neo4j: the publication projected last
  up,         \* Neo4j answers
  changes,
  phase,
  ask,        \* the request
  base,       \* the snapshot subgraph reads
  scope,      \* the access scope compiled for it
  initial,    \* the seeds that are allowed
  frontier, queried, budget, hop,    \* _runtime_edges
  verified,   \* edges accepted so far
  received,   \* history: rows Neo4j has returned
  queue, selected, truncated, status

neo4j == <<stored, watermark, up>>
runtime == <<frontier, queried, budget, hop, verified, received>>
search == <<queue, selected, truncated>>
vars == <<snapshot, neo4j, changes, phase, ask, base, scope, initial, runtime,
          search, status>>

Request == [seeds : SUBSET Node, depth : 1 .. MaxDepth, max : 1 .. MaxNodes,
            types : SUBSET RelType, from : Requesters, docs : Restriction]

GraphAccessScope == [publication : Pub, documents : SUBSET Doc, nodes : SUBSET Node,
                     edges : SUBSET Edge]

\* Types, and that no node deeper than the request asks for is queued.
GraphTypeOK ==
  /\ snapshot \in Pub /\ watermark \in Pub /\ up \in BOOLEAN
  /\ \A p \in Pub : stored[p] \subseteq Edge \cup Altered
  /\ phase \in {"idle", "compile", "edges", "hops", "search", "done"}
  /\ ask \in Request
  /\ base \in Pub /\ scope \in GraphAccessScope
  /\ {initial, frontier, queried, selected} \subseteq SUBSET Node
  /\ queried \subseteq frontier
  /\ budget \in 0 .. EdgeBudget /\ hop \in 0 .. MaxDepth
  /\ verified \subseteq Edge /\ received \subseteq Edge \cup Altered
  /\ queue \subseteq Node \X (0 .. ask.depth)
  /\ truncated \in BOOLEAN
  /\ status \in {"healthy", "stale", "unavailable"}

Init ==
  /\ snapshot = FirstPub /\ watermark = FirstPub /\ up = TRUE
  /\ stored = [p \in Pub |-> IF p = FirstPub THEN Edges[p] ELSE {}]
  /\ changes = 0
  /\ phase = "idle"
  /\ ask = CHOOSE r \in Request : r.seeds = {} /\ r.docs = Unrestricted
  /\ base = FirstPub
  /\ scope = [publication |-> FirstPub, documents |-> {}, nodes |-> {}, edges |-> {}]
  /\ initial = {} /\ frontier = {} /\ queried = {} /\ budget = 0 /\ hop = 0
  /\ verified = {} /\ received = {}
  /\ queue = {} /\ selected = {} /\ truncated = FALSE /\ status = "healthy"

Goto(from, to) == phase = from /\ phase' = to

(***************************************************************************)
(* compile_graph_access_scope                                              *)
(***************************************************************************)

Nodes(p) == DOMAIN NodeClass[p]

Ends(es) == {e.source : e \in es} \cup {e.target : e \in es}

AccessScope(p, who, day, docs) ==
  LET documents  == ScopeDocuments(p, who, day, docs)
      provenance == {e \in Edges[p] : /\ e.approved /\ e.doc \in documents
                                      /\ HasActiveProvenance(p, e.doc, day, e.anchor)}
      nodes      == {n \in Nodes(p) : NodeClass[p][n] \in who.classes}
                      \cap Ends(provenance)
  IN [publication |-> p, documents |-> documents, nodes |-> nodes,
      edges |-> {e \in provenance : {e.source, e.target} \subseteq nodes}]

\* The scope of the request over publication p.
Compiled(p) == AccessScope(p, ask.from.who, ask.from.day, ask.docs)

OfTypes(es) == {e \in es : ask.types = {} \/ e.type \in ask.types}

\* The first k edges by id.
First(k, es) == {e \in es : Cardinality({f \in es : f.id < e.id}) < k}

CandidateEdges(seeds, limit) ==
  First(limit, {e \in OfTypes(scope.edges) :
                  e.source \in seeds \/ e.target \in seeds})

\* Mutant: a row is recognised by its id.
VerifyIds(rows, candidates) ==
  {e \in candidates : \E r \in rows : r.id = e.id}

\* A row counts if every field is that of the canonical edge of its id.
VerifyRows(rows, candidates) == rows \cap candidates

(***************************************************************************)
(* subgraph                                                                *)
(***************************************************************************)

BeginSubgraph(request) ==
  /\ Goto("idle", "compile")
  /\ ask' = request
  /\ base' = snapshot
  /\ UNCHANGED <<snapshot, neo4j, changes, scope, initial, runtime, search, status>>

Shown(allowed) == allowed.nodes \cap Nodes(base)

Least(ns) == CHOOSE n \in ns : \A m \in ns : n <= m

\* The seeds asked for that are allowed, or the first allowed nodes.
CompileScope ==
  LET allowed == Compiled(snapshot)
      shown   == Shown(allowed)
  IN /\ Goto("compile", "edges")
     /\ scope' = allowed
     /\ \E ids \in SUBSET shown :
          /\ IF ask.seeds # {} THEN ids = ask.seeds \cap shown
             ELSE Cardinality(ids) = Least({Cardinality(shown), DefaultSeeds, ask.max})
          /\ initial' = ids
          /\ frontier' = ids
          /\ queue' = ids \X {0}
     /\ budget' = Least({EdgeBudget, ask.max * EdgesPerNode})
     /\ UNCHANGED <<snapshot, neo4j, changes, ask, base, queried, hop, verified,
                    received, selected, truncated, status>>

\* Without Neo4j the canonical edges are used as they are.
UseCanonicalEdges ==
  /\ Goto("edges", "search")
  /\ verified' = OfTypes(scope.edges)
  /\ UNCHANGED <<snapshot, neo4j, changes, ask, base, scope, initial, frontier,
                 queried, budget, hop, received, search, status>>

ProjectionStatus ==
  IF ~up THEN "unavailable" ELSE IF watermark = scope.publication THEN "healthy" ELSE "stale"

AskStatus ==
  LET answer == IF initial = {} \/ scope.documents = {} THEN "healthy"
                ELSE ProjectionStatus
  IN /\ Goto("edges", IF answer = "healthy" THEN "hops" ELSE "search")
     /\ status' = answer
     /\ UNCHANGED <<snapshot, neo4j, changes, ask, base, scope, initial,
                    runtime, search>>

\* Mutant: only rows that start at a seed.
OneHopOutgoing(seeds, candidates, limit) ==
  First(limit,
    {r \in stored[scope.publication] : /\ r.source \in seeds
                           /\ r.target \in seeds \cup Ends(candidates)
                           /\ \E e \in candidates : r.id = e.id
                           /\ r.approved})

\* one_hop: rows stored under the publication id, at a seed, that pass the
\* allow lists the query is given.
OneHop(seeds, candidates, limit) ==
  First(limit,
    {r \in stored[scope.publication] :
       /\ {r.source, r.target} \cap seeds # {}
       /\ {r.source, r.target} \subseteq seeds \cup Ends(candidates)
       /\ \E e \in candidates : r.id = e.id
       /\ \E e \in candidates : r.doc = e.doc
       /\ \E e \in candidates : r.type = e.type
       /\ r.approved})

\* Neither the hops nor the budget are used up and there is a node to ask
\* for, with edges at it.
MoreHops(current) ==
  /\ hop < ask.depth /\ budget > 0
  /\ current # {} /\ CandidateEdges(current, budget) # {}

\* Mutant: edges are followed from their source only.
ReachedTargets(from, es) == {e.target : e \in {x \in es : x.source \in from}}

Reached(from, es) ==
  {e.target : e \in {x \in es : x.source \in from}} \cup
  {e.source : e \in {x \in es : x.target \in from}}

Hop(current) ==
  LET candidates == CandidateEdges(current, budget)
      rows       == OneHop(current, candidates, budget)
      accepted   == VerifyRows(rows, candidates)
  IN /\ phase = "hops" /\ up
     /\ MoreHops(current)
     /\ queried' = queried \cup current
     /\ verified' = verified \cup accepted
     /\ received' = received \cup rows
     /\ frontier' = frontier \cup Reached(current, accepted)
     /\ budget' = budget - Cardinality(accepted)
     /\ hop' = hop + 1
     /\ UNCHANGED <<snapshot, neo4j, changes, phase, ask, base, scope, initial,
                    search, status>>

\* The query fails; what was verified before is kept.
HopFails(current) ==
  /\ MoreHops(current)
  /\ ~up
  /\ Goto("hops", "search")
  /\ status' = "unavailable"
  /\ UNCHANGED <<snapshot, neo4j, changes, ask, base, scope, initial, runtime,
                 search>>

EndHops(current) ==
  /\ ~MoreHops(current)
  /\ Goto("hops", "search")
  /\ UNCHANGED <<snapshot, neo4j, changes, ask, base, scope, initial, runtime,
                 search, status>>

\* At most FrontierCap of the nodes not asked for yet.
RuntimeStep ==
  \E current \in SUBSET (frontier \ queried) :
    /\ \/ current = frontier \ queried /\ Cardinality(current) <= FrontierCap
       \/ current # frontier \ queried /\ Cardinality(current) = FrontierCap
    /\ Hop(current) \/ HopFails(current) \/ EndHops(current)

Neighbours(n, es) == Reached({n}, es)

\* Mutant: the nodes found last are visited first.
DeepestFirst(entry) == \A other \in queue : other[2] <= entry[2]

\* The deque is first in, first out, so depths come in ascending order.
ComesFirst(entry) == \A other \in queue : entry[2] <= other[2]

\* Mutant: nodes at the requested depth are expanded too.
ExpandsAtLimit(entry) == entry[2] <= ask.depth

Expands(entry) == entry[2] < ask.depth

Visit(entry) ==
  LET found == IF Expands(entry)
               THEN (Neighbours(entry[1], verified) \cap Shown(scope))
                      \ (selected \cup {entry[1]})
               ELSE {}
  IN /\ phase = "search"
     /\ entry \in queue /\ ComesFirst(entry)
     /\ entry[1] \notin selected
     /\ Cardinality(selected) < ask.max
     /\ selected' = selected \cup {entry[1]}
     /\ queue' = (queue \ {entry}) \cup (found \X {entry[2] + 1})
     /\ UNCHANGED <<snapshot, neo4j, changes, phase, ask, base, scope, initial,
                    runtime, truncated, status>>

VisitAgain(entry) ==
  /\ phase = "search"
  /\ entry \in queue /\ ComesFirst(entry)
  /\ entry[1] \in selected
  /\ queue' = queue \ {entry}
  /\ UNCHANGED <<snapshot, neo4j, changes, phase, ask, base, scope, initial,
                 runtime, selected, truncated, status>>

\* A further node is left when the limit is reached.
Truncate(entry) ==
  /\ Goto("search", "done")
  /\ entry \in queue /\ ComesFirst(entry)
  /\ entry[1] \notin selected
  /\ Cardinality(selected) >= ask.max
  /\ truncated' = TRUE
  /\ UNCHANGED <<snapshot, neo4j, changes, ask, base, scope, initial, runtime,
                 queue, selected, status>>

EndSearch ==
  /\ queue = {}
  /\ Goto("search", "done")
  /\ UNCHANGED <<snapshot, neo4j, changes, ask, base, scope, initial, runtime,
                 search, status>>

SelectedEdges == {e \in verified : {e.source, e.target} \subseteq selected}

(***************************************************************************)
(* What happens around the request                                         *)
(***************************************************************************)

Change ==
  /\ phase # "done"
  /\ changes < MaxChanges
  /\ changes' = changes + 1
  /\ UNCHANGED <<phase, ask, base, scope, initial, runtime, search, status>>

AssignSnapshot(p) ==
  /\ Change
  /\ snapshot' = p
  /\ UNCHANGED neo4j

ReplaceProjection(p) ==
  /\ Change
  /\ stored' = [stored EXCEPT ![p] = Edges[p]]
  /\ watermark' = p
  /\ UNCHANGED <<snapshot, up>>

AlterRow(p, r) ==
  /\ Change
  /\ stored' = [stored EXCEPT ![p] = {e \in @ : e.id # r.id} \cup {r}]
  /\ UNCHANGED <<snapshot, watermark, up>>

LoseNeo4j ==
  /\ Change
  /\ up' = ~up
  /\ UNCHANGED <<snapshot, stored, watermark>>

Requests ==
  [seeds : {ns \in SUBSET Node : Cardinality(ns) <= MaxSeeds}, depth : 1 .. MaxDepth,
   max : 1 .. MaxNodes, types : TypeFilters, from : Requesters, docs : {Unrestricted}]

Subgraph ==
  \/ phase = "idle" /\ \E r \in Requests : BeginSubgraph(r)
  \/ CompileScope \/ UseCanonicalEdges \/ AskStatus \/ RuntimeStep
  \/ \E entry \in queue : Visit(entry) \/ VisitAgain(entry) \/ Truncate(entry)
  \/ EndSearch

Environment ==
  \/ \E p \in Pub :
       \/ AssignSnapshot(p) \/ ReplaceProjection(p)
       \/ \E r \in Altered : AlterRow(p, r)
  \/ LoseNeo4j

Next == Subgraph \/ Environment

Spec == Init /\ [][Next]_vars

(***************************************************************************)
(* Properties                                                              *)
(***************************************************************************)

\* Whatever Neo4j holds, a response has only edges that are canonical,
\* approved and between nodes in scope, and only rows Neo4j really returned.
OnlyApprovedEdges ==
  phase = "done" =>
    /\ selected \subseteq Compiled(scope.publication).nodes
    /\ SelectedEdges \subseteq Compiled(scope.publication).edges
    /\ received # {} => SelectedEdges \subseteq received

Around(from, es) ==
  {n \in Shown(scope) : \E e \in es : {e.source, e.target} \cap from # {}
                                     /\ n \in {e.source, e.target}}

\* The nodes at most ask.depth edges of es away from the initial ones.
Ball(es) ==
  LET ball[k \in 0 .. MaxDepth] ==
        IF k = 0 THEN initial
        ELSE ball[k - 1] \cup
             Around(ball[k - 1], es)
  IN ball[ask.depth]

\* The search over the edges verified for this request: without the flag the
\* response has exactly the nodes within the requested depth over them, with
\* it as many as were asked for. Edges the budget dropped, or a lost Neo4j
\* never returned, are not among them, and the flag does not tell of them.
SearchCoversVerified ==
  phase = "done" =>
    /\ truncated => Cardinality(selected) = ask.max
    /\ ~truncated => selected = Ball(verified)

Untouched == stored[scope.publication] = Edges[scope.publication] /\ changes = 0

\* A graph taken from an intact projection is the one the canonical edges
\* give, as long as the edge budget was not used up.
ProjectionAgrees ==
  phase = "done" /\ Untouched /\ status = "healthy" /\ budget > 0 /\ ~truncated
    => selected = Ball(OfTypes(scope.edges))
=============================================================================
