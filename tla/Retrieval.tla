----------------------------- MODULE Retrieval -----------------------------
(***************************************************************************)
(* HybridRetriever.retrieve_with_status beside OntologyService.subgraph:   *)
(* the lexical, vector and graph lanes, their fusion by reciprocal ranks,  *)
(* and the gate QAService.answer puts on the best hit. Each lane takes its *)
(* own snapshot; PostgreSQL answers for its ACTIVE publication, Neo4j for  *)
(* whatever is stored there.                                               *)
(*                                                                         *)
(* A question is what the similarity functions make of it: scores in       *)
(* hundredths, by paragraph, and the nodes whose label matches. Paragraphs *)
(* are numbers, in the order of their ids. Fused scores are in millionths. *)
(***************************************************************************)
EXTENDS OntologyGraph

CONSTANTS
  Questions,     \* [lexical, vector : Prov -> 0 .. 100, nodes : SUBSET Node]
  Restrictions,  \* bound: document ids a request may ask for
  VectorLimit,   \* 50 rows of vector_search
  LaneLimit,     \* 50 ranks of a lane that count
  MatchLimit,    \* 25 nodes whose label matches
  EdgeLimit,     \* 100 edges of the graph lane
  HitLimit       \* 12 hits

ASSUME RetrievalAssumption ==
  /\ Prov \subseteq Nat /\ IsFiniteSet(Prov) /\ Questions # {}
  /\ \A q \in Questions : /\ {q.lexical, q.vector} \subseteq [Prov -> 0 .. 100]
                          /\ q.nodes \subseteq Node
  /\ Restrictions \subseteq Restriction
  /\ {VectorLimit, LaneLimit, MatchLimit, EdgeLimit, HitLimit} \subseteq Nat \ {0}

VARIABLES
  active,      \* the publication that is ACTIVE in PostgreSQL
  stage,
  question,
  candidates,  \* active_provisions
  searched,    \* the publication vector_search asks for
  vectors,     \* its rows
  lane,        \* paragraphs of the graph lane
  hits

retrieval == <<stage, question, candidates, searched, vectors, lane, hits>>
rvars == <<vars, active, retrieval>>

Over == {"answered", "abstained", "lookup_error"}

\* Types, and that every lane ranks only what active_provisions returned.
RetrievalTypeOK ==
  /\ active \in Pub /\ searched \in Pub
  /\ stage \in {"idle", "bind", "vectors", "labels", "scope", "lane", "query",
                "fuse", "gate"} \cup Over
  /\ question \in Questions
  /\ candidates \subseteq Prov /\ vectors \subseteq Prov
  /\ lane \subseteq candidates /\ hits \subseteq candidates

RetrievalInit ==
  /\ Init
  /\ active = FirstPub /\ searched = FirstPub
  /\ stage = "idle"
  /\ question = CHOOSE q \in Questions : TRUE
  /\ candidates = {} /\ vectors = {} /\ lane = {} /\ hits = {}

Stage(from, to) == stage = from /\ stage' = to

around == <<snapshot, neo4j, changes, active>>
graphvars == <<phase, frontier, queried, budget, hop, verified, received, search>>

(***************************************************************************)
(* The lexical and the vector lane                                         *)
(***************************************************************************)

\* active_provisions, over the first snapshot
BeginRetrieve(q, request) ==
  /\ phase = "idle"
  /\ Stage("idle", "bind")
  /\ question' = q
  /\ ask' = request
  /\ candidates' = ActiveProvisions(snapshot, request.from.who, request.from.day,
                                    request.docs)
  /\ UNCHANGED <<around, graphvars, base, scope, initial, status, searched,
                 vectors, lane, hits>>

\* the snapshot documents and versions are looked up in
Bind ==
  /\ Stage("bind", "vectors")
  /\ base' = snapshot
  /\ UNCHANGED <<around, graphvars, ask, scope, initial, status, question,
                 candidates, searched, vectors, lane, hits>>

\* Higher scores come first, then smaller ids.
Rank(x, xs, score) ==
  1 + Cardinality({z \in xs : score[z] > score[x] \/ (score[z] = score[x] /\ z < x)})

Best(k, xs, score) == {x \in xs : Rank(x, xs, score) <= k}

\* PostgreSQL may scan the HNSW index, which yields near vectors of all
\* publications and classes, not surely the nearest, and test the conditions
\* on what it yielded: any of the rows may be missing. So may none.
Scanned(limit, rows) == {found \in SUBSET rows : Cardinality(found) <= limit}

\* Rows of the publication of the snapshot taken now, if that is the ACTIVE
\* one.
SearchVectors ==
  /\ Stage("vectors", IF \A x \in candidates : Place[x].doc \in Docs(base)
                      THEN "labels" ELSE "lookup_error")
  /\ searched' = snapshot
  /\ vectors' \in IF active # snapshot THEN {{}}
                  ELSE Scanned(VectorLimit,
                               Searchable(snapshot, ask.from.who, ask.from.day, ask.docs))
  /\ UNCHANGED <<around, graphvars, ask, base, scope, initial, status, question,
                 candidates, lane, hits>>

(***************************************************************************)
(* The graph lane                                                          *)
(***************************************************************************)

MatchLabels ==
  /\ Stage("labels", "scope")
  /\ initial' = question.nodes \cap Nodes(snapshot)
  /\ UNCHANGED <<around, graphvars, ask, base, scope, status, question,
                 candidates, searched, vectors, lane, hits>>

\* The first of the nodes that match and are allowed
CompileGraphScope ==
  LET allowed == Compiled(snapshot)
      matched == initial \cap allowed.nodes
  IN /\ Stage("scope", "lane")
     /\ scope' = allowed
     /\ \E ids \in SUBSET matched :
          /\ Cardinality(ids) = Least({Cardinality(matched), MatchLimit})
          /\ initial' = ids
     /\ UNCHANGED <<around, graphvars, ask, base, status, question, candidates,
                    searched, vectors, lane, hits>>

LaneEdges == CandidateEdges(initial, EdgeLimit)

\* The edge is taken from the article or the paragraph with this locator.
TakenFrom(e, locator) ==
  e.anchor # Metadata /\ locator[1] = e.anchor[1] /\ e.anchor[2] \in {0, locator[2]}

\* Mutant: paragraphs that are no candidates of the request are ranked too.
AllProvisionsOf(edges) ==
  {x \in Prov : \E e \in edges : e.doc = Place[x].doc /\ TakenFrom(e, Place[x].locator)}

ProvisionsOf(edges) ==
  {x \in candidates :
     \E e \in edges : e.doc = Place[x].doc /\ TakenFrom(e, Place[x].locator)}

EndLane(from, edges, answer) ==
  /\ Stage(from, "fuse")
  /\ lane' = ProvisionsOf(edges)
  /\ status' = answer
  /\ UNCHANGED <<around, graphvars, ask, base, scope, initial, question,
                 candidates, searched, vectors, hits>>

\* Without Neo4j the canonical edges are used as they are.
UseCanonicalLane == EndLane("lane", LaneEdges, "healthy")

LaneStatus == IF scope.documents = {} THEN "healthy" ELSE ProjectionStatus

Queries == LaneStatus = "healthy" /\ scope.documents # {} /\ LaneEdges # {}

SkipQuery == ~Queries /\ EndLane("lane", {}, LaneStatus)

AskLaneStatus ==
  /\ Queries
  /\ Stage("lane", "query")
  /\ UNCHANGED <<around, graphvars, ask, base, scope, initial, status, question,
                 candidates, searched, vectors, lane, hits>>

QueriedEdges == VerifyRows(OneHop(initial, LaneEdges, EdgeLimit), LaneEdges)

QueryLane == up /\ EndLane("query", QueriedEdges, "healthy")

QueryFails == ~up /\ EndLane("query", {}, "unavailable")

(***************************************************************************)
(* Fusion and the gate                                                     *)
(***************************************************************************)

\* Ranks below LaneLimit do not count in these two lanes.
LexicalLane ==
  Best(LaneLimit, {x \in candidates : question.lexical[x] > 0}, question.lexical)
VectorLane ==
  Best(LaneLimit, {x \in candidates \cap vectors : question.vector[x] > 0},
       question.vector)

Score(x, ranked, score) == IF x \in ranked THEN score[x] ELSE 0

Share(x, ranked, score) ==
  IF x \in ranked THEN 1000000 \div (60 + Rank(x, ranked, score)) ELSE 0

GraphScore == [x \in Prov |-> 35]

\* Mutant: the weights of the lexical and the vector lane are swapped.
FinalScoreSwapped(x) ==
  Share(x, LexicalLane, question.lexical) + Share(x, VectorLane, question.vector)
    + Share(x, lane, GraphScore)
    + 2000 * Score(x, LexicalLane, question.lexical)
    + 4500 * Score(x, VectorLane, question.vector)
    + 2000 * Score(x, lane, GraphScore)

FinalScore(x) ==
  Share(x, LexicalLane, question.lexical) + Share(x, VectorLane, question.vector)
    + Share(x, lane, GraphScore)
    + 4500 * Score(x, LexicalLane, question.lexical)
    + 2000 * Score(x, VectorLane, question.vector)
    + 2000 * Score(x, lane, GraphScore)

Fused == LexicalLane \cup VectorLane \cup lane

Fuse ==
  /\ Stage("fuse", IF \A x \in Fused : \E v \in Versions[base] : v.id = Place[x].version
                   THEN "gate" ELSE "lookup_error")
  /\ hits' = Best(HitLimit, Fused, [x \in Fused |-> FinalScore(x)])
  /\ UNCHANGED <<around, graphvars, ask, base, scope, initial, status, question,
                 candidates, searched, vectors, lane>>

\* The graph lane does not count for the relevance of a hit.
Relevant(x) ==
  \/ Score(x, LexicalLane, question.lexical) >= 20
  \/ Score(x, VectorLane, question.vector) >= 20

Foremost(x) == Rank(x, hits, [z \in hits |-> FinalScore(z)]) = 1

\* Only the best hit decides whether the question is answered.
Gate ==
  /\ Stage("gate", IF \E x \in hits : Foremost(x) /\ Relevant(x)
                   THEN "answered" ELSE "abstained")
  /\ UNCHANGED <<around, graphvars, ask, base, scope, initial, status, question,
                 candidates, searched, vectors, lane, hits>>

(***************************************************************************)
(* Around a question                                                       *)
(***************************************************************************)

\* A subgraph does not read the database; its requests need no such change.
DatabaseActivates(p) ==
  /\ phase = "idle" /\ stage \notin Over
  /\ Change
  /\ active' = p
  /\ UNCHANGED <<snapshot, neo4j, retrieval>>

\* What is asked: all types of edges, and no seeds.
RetrievalRequests ==
  [seeds : {{}}, depth : {1}, max : {1}, types : {{}}, from : Requesters,
   docs : Restrictions]

RetrieveStep ==
  \/ /\ stage = "idle"
     /\ \E q \in Questions, request \in RetrievalRequests : BeginRetrieve(q, request)
  \/ Bind \/ SearchVectors
  \/ MatchLabels \/ CompileGraphScope
  \/ UseCanonicalLane \/ SkipQuery \/ AskLaneStatus \/ QueryLane \/ QueryFails
  \/ Fuse \/ Gate

RetrievalNext ==
  \/ RetrieveStep
  \/ \E p \in Pub : DatabaseActivates(p)
  \/ stage = "idle" /\ Subgraph /\ UNCHANGED <<active, retrieval>>
  \/ stage \notin Over /\ Environment /\ UNCHANGED <<active, retrieval>>

RetrievalSpec == RetrievalInit /\ [][RetrievalNext]_rvars

(***************************************************************************)
(* Properties                                                              *)
(***************************************************************************)

\* The two encodings of the access policy agree: the SQL of vector_search
\* admits what active_provisions returns, no row more and no row less, whoever
\* asks, about whichever day, documents and publication; and every row that
\* came back, whatever the index yielded, is one of these.
VectorPolicyAgrees ==
  LET allowed == ActiveProvisions(searched, ask.from.who, ask.from.day, ask.docs)
  IN /\ vectors \subseteq allowed
     /\ Searchable(searched, ask.from.who, ask.from.day, ask.docs) = allowed

\* The lane Neo4j gives is the lane of the canonical edges whenever it holds
\* the publication of the scope intact, whatever else was altered or lost;
\* and it never ranks a paragraph the canonical edges would not.
GraphLaneAgrees ==
  /\ stage = "query" /\ stored[scope.publication] = Edges[scope.publication] =>
       ProvisionsOf(QueriedEdges) = ProvisionsOf(LaneEdges)
  /\ stage \in {"fuse", "gate"} => lane \subseteq ProvisionsOf(LaneEdges)

\* The fewest hundredths no irrelevant hit can outweigh: it may lead the vector
\* and the graph lane, its scores are below 20, and it comes later in the
\* lexical lane. With 50 it comes first.
StrongEvidence == 51

\* The gate looks at the best hit alone, yet a paragraph with strong lexical
\* evidence is not abstained from: no irrelevant hit comes before it.
StrongEvidenceAnswered ==
  stage = "abstained" =>
    \A x \in LexicalLane : question.lexical[x] < StrongEvidence

=============================================================================
