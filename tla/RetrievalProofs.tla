--------------------------- MODULE RetrievalProofs ---------------------------
(***************************************************************************)
(* What retrieval reads agrees with the policy: the rows of PostgreSQL and *)
(* the lane of Neo4j, for every policy, question, content of the two       *)
(* databases and order of changes. The theorems about the subgraph carry   *)
(* over to the composition. StrongEvidenceAnswered holds for every set of  *)
(* paragraphs, questions and limits: the arithmetic of the fusion, and a   *)
(* best hit that exists.                                                   *)
(***************************************************************************)
EXTENDS Retrieval, OntologyGraphProofs, WellFoundedInduction

Compiling == {"idle", "bind", "vectors", "labels", "scope"}
Ranking == {"lane", "query", "fuse", "gate", "answered", "abstained"}

\* One request at a time, and nothing of it before it begins.
OneRequest ==
  /\ stage # "idle" => phase = "idle"
  /\ stage = "idle" => vectors = {} /\ lane = {} /\ hits = {}
  /\ lane # {} \/ hits # {} => stage \notin Compiling

Asked == ask.from \in Requesters /\ ask.docs \in Restriction

RowsAllowed ==
  vectors \subseteq ActiveProvisions(searched, ask.from.who, ask.from.day, ask.docs)

LaneInv ==
  /\ stage \in Ranking => scope.publication \in Pub /\ scope = Compiled(scope.publication)
  /\ stage \in {"fuse", "gate"} => lane \subseteq ProvisionsOf(LaneEdges)

RetrievalInv ==
  /\ GraphInv /\ OneRequest /\ RetrievalTypeOK
  /\ snapshot \in Pub /\ Asked /\ RowsAllowed /\ LaneInv

(***************************************************************************)
(* The operators                                                           *)
(***************************************************************************)

LEMMA ActiveProvisionsType ==
  ASSUME NEW p \in Pub, NEW who, NEW day, NEW docs
  PROVE  ActiveProvisions(p, who, day, docs) \subseteq Prov
  BY PolicyAssumption DEF ActiveProvisions, ParagraphsOn, EffectiveVersions, VersionRecord

\* Neo4j answers with exactly the candidates if it holds the publication.
LEMMA IntactProjection ==
  ASSUME scope.publication \in Pub,
         scope = Compiled(scope.publication),
         stored[scope.publication] = Edges[scope.publication]
  PROVE  QueriedEdges = LaneEdges
  BY IntactRows, RetrievalAssumption DEF QueriedEdges, LaneEdges

(***************************************************************************)
(* The steps                                                               *)
(***************************************************************************)

LEMMA InitRetrievalInv == RetrievalInit => RetrievalInv
<1>. SUFFICES ASSUME RetrievalInit PROVE RetrievalInv
  OBVIOUS
<1>1. GraphInv
  BY InitGraphInv DEF RetrievalInit
<1>2. question \in Questions
  BY RetrievalAssumption DEF RetrievalInit
<1>3. Asked
  <2>1. PICK from \in Requesters : TRUE
    BY GraphAssumption
  <2>. DEFINE blank == [seeds |-> {}, depth |-> 1, max |-> 1, types |-> {},
                        from |-> from, docs |-> Unrestricted]
  <2>2. 1 \in 1 .. MaxDepth /\ 1 \in 1 .. MaxNodes
    BY GraphAssumption
  <2>3. blank \in Request /\ blank.seeds = {} /\ blank.docs = Unrestricted
    BY <2>2 DEF Request, Restriction
  <2>4. ask \in Request
    BY <2>3 DEF RetrievalInit, Init
  <2>. QED  BY <2>4 DEF Asked, Request
<1>. QED
  BY <1>1, <1>2, <1>3, GraphAssumption
  DEF RetrievalInit, Init, RetrievalInv, OneRequest, RetrievalTypeOK, RowsAllowed,
      LaneInv, Over, Compiling, Ranking

\* The rest of the model while a question is looked up: the request is not the
\* subgraph's.
LEMMA IdleGraphInv ==
  ASSUME GraphInv, phase = "idle", UNCHANGED graphvars
  PROVE  GraphInv'
  BY DEF GraphInv, ScopeIsCompiled, WithinScope, Untried, OneOrigin, graphvars, search

LEMMA BeginKeeps ==
  ASSUME NEW q \in Questions, NEW request \in RetrievalRequests
  PROVE  RetrievalInv /\ BeginRetrieve(q, request) => RetrievalInv'
<1>. SUFFICES ASSUME RetrievalInv, BeginRetrieve(q, request) PROVE RetrievalInv'
  OBVIOUS
<1>1. /\ phase = "idle" /\ phase' = "idle" /\ stage = "idle" /\ stage' = "bind"
      /\ question' = q /\ ask' = request
      /\ candidates' = ActiveProvisions(snapshot, request.from.who, request.from.day,
                                        request.docs)
      /\ UNCHANGED <<graphvars, snapshot, active, searched, vectors, lane, hits>>
  BY DEF BeginRetrieve, Stage, around, graphvars
<1>2. GraphInv'
  BY <1>1, IdleGraphInv DEF RetrievalInv
<1>3. lane' = {} /\ hits' = {} /\ vectors' = {}
  BY <1>1 DEF RetrievalInv, OneRequest
<1>4. candidates' \subseteq Prov
  BY <1>1, ActiveProvisionsType DEF RetrievalInv
<1>5. Asked'
  BY <1>1, RetrievalAssumption DEF RetrievalRequests, Asked
<1>. QED
  BY <1>1, <1>2, <1>3, <1>4, <1>5
  DEF RetrievalInv, OneRequest, RetrievalTypeOK, RowsAllowed, LaneInv, Ranking

LEMMA BindKeeps == RetrievalInv /\ Bind => RetrievalInv'
<1>. SUFFICES ASSUME RetrievalInv, Bind PROVE RetrievalInv'
  OBVIOUS
<1>1. /\ phase = "idle" /\ phase' = "idle" /\ stage = "bind" /\ stage' = "vectors"
      /\ UNCHANGED <<graphvars, snapshot, active, ask, question, candidates, searched,
                     vectors, lane, hits>>
  BY DEF Bind, Stage, around, graphvars, RetrievalInv, OneRequest
<1>2. GraphInv'
  BY <1>1, IdleGraphInv DEF RetrievalInv
<1>. QED
  BY <1>1, <1>2
  DEF RetrievalInv, OneRequest, RetrievalTypeOK, Asked, RowsAllowed, LaneInv, Ranking,
      Compiling

\* The rows are those of the policy: SearchableIsActive.
LEMMA SearchKeeps == RetrievalInv /\ SearchVectors => RetrievalInv'
<1>. SUFFICES ASSUME RetrievalInv, SearchVectors PROVE RetrievalInv'
  OBVIOUS
<1>. DEFINE rows == Searchable(snapshot, ask.from.who, ask.from.day, ask.docs)
<1>1. /\ phase = "idle" /\ phase' = "idle" /\ stage = "vectors"
      /\ stage' \in {"labels", "lookup_error"}
      /\ searched' = snapshot
      /\ UNCHANGED <<graphvars, snapshot, active, ask, question, candidates, lane, hits>>
  BY DEF SearchVectors, Stage, around, graphvars, RetrievalInv, OneRequest
<1>2. GraphInv'
  BY <1>1, IdleGraphInv DEF RetrievalInv
<1>3. lane' = {} /\ hits' = {}
  BY <1>1 DEF RetrievalInv, OneRequest, Compiling
<1>4. vectors' \subseteq rows
  BY DEF SearchVectors, Scanned
<1>5. ask.from.who \in Principal /\ ask.from.day \in Nat /\ ask.docs \in Restriction
  BY GraphAssumption DEF RetrievalInv, Asked
<1>6. rows = ActiveProvisions(snapshot, ask.from.who, ask.from.day, ask.docs)
  BY <1>5, SearchableIsActive DEF RetrievalInv
<1>7. RowsAllowed'
  BY <1>1, <1>4, <1>6 DEF RowsAllowed
<1>8. vectors' \subseteq Prov
  BY <1>4, <1>6, ActiveProvisionsType DEF RetrievalInv
<1>. QED
  BY <1>1, <1>2, <1>3, <1>7, <1>8
  DEF RetrievalInv, OneRequest, RetrievalTypeOK, Asked, LaneInv, Ranking, Over

LEMMA MatchKeeps == RetrievalInv /\ MatchLabels => RetrievalInv'
<1>. SUFFICES ASSUME RetrievalInv, MatchLabels PROVE RetrievalInv'
  OBVIOUS
<1>1. /\ phase = "idle" /\ phase' = "idle" /\ stage = "labels" /\ stage' = "scope"
      /\ UNCHANGED <<graphvars, snapshot, active, ask, question, candidates, searched,
                     vectors, lane, hits>>
  BY DEF MatchLabels, Stage, around, graphvars, RetrievalInv, OneRequest
<1>2. GraphInv'
  BY <1>1, IdleGraphInv DEF RetrievalInv
<1>. QED
  BY <1>1, <1>2
  DEF RetrievalInv, OneRequest, RetrievalTypeOK, Asked, RowsAllowed, LaneInv, Ranking,
      Compiling

LEMMA CompileKeeps == RetrievalInv /\ CompileGraphScope => RetrievalInv'
<1>. SUFFICES ASSUME RetrievalInv, CompileGraphScope PROVE RetrievalInv'
  OBVIOUS
<1>1. /\ phase = "idle" /\ phase' = "idle" /\ stage = "scope" /\ stage' = "lane"
      /\ scope' = Compiled(snapshot)
      /\ UNCHANGED <<graphvars, snapshot, active, ask, question, candidates, searched,
                     vectors, lane, hits>>
  BY DEF CompileGraphScope, Stage, around, graphvars, RetrievalInv, OneRequest
<1>2. GraphInv'
  BY <1>1, IdleGraphInv DEF RetrievalInv
<1>3. scope'.publication = snapshot /\ scope' = Compiled(scope.publication)'
  BY <1>1, CompiledRecord DEF Compiled
<1>4. LaneInv'
  BY <1>1, <1>3 DEF LaneInv, RetrievalInv
<1>. QED
  BY <1>1, <1>2, <1>4
  DEF RetrievalInv, OneRequest, RetrievalTypeOK, Asked, RowsAllowed, Compiling

\* A lane of some of the edges there are is a lane of the request.
LEMMA EndLaneKeeps ==
  ASSUME NEW from \in {"lane", "query"}, NEW edges, edges \subseteq LaneEdges, NEW answer
  PROVE  RetrievalInv /\ EndLane(from, edges, answer) => RetrievalInv'
<1>. SUFFICES ASSUME RetrievalInv, EndLane(from, edges, answer) PROVE RetrievalInv'
  OBVIOUS
<1>1. /\ phase = "idle" /\ phase' = "idle" /\ stage = from /\ stage' = "fuse"
      /\ lane' = ProvisionsOf(edges)
      /\ UNCHANGED <<graphvars, snapshot, active, ask, scope, initial, question,
                     candidates, searched, vectors, hits>>
  BY DEF EndLane, Stage, around, graphvars, RetrievalInv, OneRequest
<1>2. GraphInv'
  BY <1>1, IdleGraphInv DEF RetrievalInv
<1>3. lane' \subseteq ProvisionsOf(LaneEdges) /\ lane' \subseteq candidates
  BY <1>1 DEF ProvisionsOf
<1>4. ProvisionsOf(LaneEdges)' = ProvisionsOf(LaneEdges)
  BY <1>1 DEF ProvisionsOf, LaneEdges, CandidateEdges, OfTypes, First, TakenFrom
<1>5. LaneInv'
  BY <1>1, <1>3, <1>4 DEF LaneInv, RetrievalInv, Ranking, Compiled
<1>. QED
  BY <1>1, <1>2, <1>3, <1>5
  DEF RetrievalInv, OneRequest, RetrievalTypeOK, Asked, RowsAllowed, Compiling

LEMMA AskLaneKeeps == RetrievalInv /\ AskLaneStatus => RetrievalInv'
<1>. SUFFICES ASSUME RetrievalInv, AskLaneStatus PROVE RetrievalInv'
  OBVIOUS
<1>1. /\ phase = "idle" /\ phase' = "idle" /\ stage = "lane" /\ stage' = "query"
      /\ UNCHANGED <<graphvars, snapshot, active, ask, scope, initial, question,
                     candidates, searched, vectors, lane, hits>>
  BY DEF AskLaneStatus, Stage, around, graphvars, RetrievalInv, OneRequest
<1>2. GraphInv'
  BY <1>1, IdleGraphInv DEF RetrievalInv
<1>3. LaneInv'
  BY <1>1 DEF LaneInv, RetrievalInv, Ranking, Compiled
<1>. QED
  BY <1>1, <1>2, <1>3
  DEF RetrievalInv, OneRequest, RetrievalTypeOK, Asked, RowsAllowed, Compiling

LEMMA FuseKeeps == RetrievalInv /\ Fuse => RetrievalInv'
<1>. SUFFICES ASSUME RetrievalInv, Fuse PROVE RetrievalInv'
  OBVIOUS
<1>1. /\ phase = "idle" /\ phase' = "idle" /\ stage = "fuse"
      /\ stage' \in {"gate", "lookup_error"}
      /\ UNCHANGED <<graphvars, snapshot, active, ask, scope, initial, question,
                     candidates, searched, vectors, lane>>
  BY DEF Fuse, Stage, around, graphvars, RetrievalInv, OneRequest
<1>2. GraphInv'
  BY <1>1, IdleGraphInv DEF RetrievalInv
<1>3. hits' \subseteq Fused
  BY DEF Fuse, Best
<1>4. Fused \subseteq candidates
  BY DEF Fused, LexicalLane, VectorLane, Best, RetrievalInv, RetrievalTypeOK
<1>5. ProvisionsOf(LaneEdges)' = ProvisionsOf(LaneEdges)
  BY <1>1 DEF ProvisionsOf, LaneEdges, CandidateEdges, OfTypes, First, TakenFrom
<1>6. LaneInv'
  BY <1>1, <1>5 DEF LaneInv, RetrievalInv, Ranking, Compiled
<1>. QED
  BY <1>1, <1>2, <1>3, <1>4, <1>6
  DEF RetrievalInv, OneRequest, RetrievalTypeOK, Asked, RowsAllowed, Compiling, Over

LEMMA GateKeeps == RetrievalInv /\ Gate => RetrievalInv'
<1>. SUFFICES ASSUME RetrievalInv, Gate PROVE RetrievalInv'
  OBVIOUS
<1>1. /\ phase = "idle" /\ phase' = "idle" /\ stage = "gate"
      /\ stage' \in {"answered", "abstained"}
      /\ UNCHANGED <<graphvars, snapshot, active, ask, scope, initial, question,
                     candidates, searched, vectors, lane, hits>>
  BY DEF Gate, Stage, around, graphvars, RetrievalInv, OneRequest
<1>2. GraphInv'
  BY <1>1, IdleGraphInv DEF RetrievalInv
<1>3. LaneInv'
  BY <1>1 DEF LaneInv, RetrievalInv, Ranking, Compiled
<1>. QED
  BY <1>1, <1>2, <1>3
  DEF RetrievalInv, OneRequest, RetrievalTypeOK, Asked, RowsAllowed, Compiling, Over

LEMMA RetrieveStepKeeps == RetrievalInv /\ RetrieveStep => RetrievalInv'
<1>. SUFFICES ASSUME RetrievalInv, RetrieveStep PROVE RetrievalInv'
  OBVIOUS
<1>1. ASSUME NEW q \in Questions, NEW request \in RetrievalRequests,
             BeginRetrieve(q, request)
      PROVE  RetrievalInv'
  BY <1>1, BeginKeeps
<1>2. CASE UseCanonicalLane
  BY <1>2, EndLaneKeeps DEF UseCanonicalLane
<1>3. CASE SkipQuery
  BY <1>3, EndLaneKeeps DEF SkipQuery
<1>4. CASE QueryLane
  BY <1>4, EndLaneKeeps DEF QueryLane, QueriedEdges, VerifyRows
<1>5. CASE QueryFails
  BY <1>5, EndLaneKeeps DEF QueryFails
<1>. QED
  BY <1>1, <1>2, <1>3, <1>4, <1>5, BindKeeps, SearchKeeps, MatchKeeps, CompileKeeps,
     AskLaneKeeps, FuseKeeps, GateKeeps
  DEF RetrieveStep

\* What happens around the request leaves what it has read alone.
LEMMA AroundKeeps ==
  ASSUME snapshot' \in Pub, active' \in Pub,
         UNCHANGED <<observed, initial, retrieval>>
  PROVE  RetrievalInv => RetrievalInv'
<1>. SUFFICES ASSUME RetrievalInv PROVE RetrievalInv'
  OBVIOUS
<1>1. GraphInv'
  BY UnchangedKeeps DEF RetrievalInv
<1>2. UNCHANGED <<phase, ask, scope, initial, stage, question, candidates, searched,
                  vectors, lane, hits>>
  BY DEF observed, retrieval
<1>3. ProvisionsOf(LaneEdges)' = ProvisionsOf(LaneEdges)
  BY <1>2 DEF ProvisionsOf, LaneEdges, CandidateEdges, OfTypes, First, TakenFrom
<1>4. LaneInv'
  BY <1>2, <1>3 DEF LaneInv, RetrievalInv, Compiled
<1>. QED
  BY <1>1, <1>2, <1>4
  DEF RetrievalInv, OneRequest, RetrievalTypeOK, Asked, RowsAllowed

LEMMA EnvironmentSnapshot == snapshot \in Pub /\ Environment => snapshot' \in Pub
  BY DEF Environment, AssignSnapshot, ReplaceProjection, AlterRow, LoseNeo4j, neo4j

\* A subgraph, while no question is asked.
LEMMA SubgraphKeeps ==
  RetrievalInv /\ stage = "idle" /\ Subgraph /\ UNCHANGED <<active, retrieval>>
    => RetrievalInv'
<1>. SUFFICES ASSUME RetrievalInv, stage = "idle", Subgraph, UNCHANGED <<active, retrieval>>
              PROVE  RetrievalInv'
  OBVIOUS
<1>1. GraphInv'
  BY NextKeeps DEF RetrievalInv, Next
<1>2. UNCHANGED <<stage, question, candidates, searched, vectors, lane, hits, active>>
  BY DEF retrieval
<1>3. snapshot' = snapshot
  BY DEF Subgraph, BeginSubgraph, CompileScope, UseCanonicalEdges, AskStatus, RuntimeStep,
         Hop, HopFails, EndHops, Visit, VisitAgain, Truncate, EndSearch
<1>4. Asked'
  <2>1. CASE phase = "idle" /\ \E r \in Requests : BeginSubgraph(r)
    BY <2>1 DEF BeginSubgraph, Requests, Asked, Restriction
  <2>2. CASE UNCHANGED ask
    BY <2>2 DEF Asked, RetrievalInv
  <2>3. \/ phase = "idle" /\ \E r \in Requests : BeginSubgraph(r)
        \/ UNCHANGED ask
    BY DEF Subgraph, CompileScope, UseCanonicalEdges, AskStatus, RuntimeStep,
           Hop, HopFails, EndHops, Visit, VisitAgain, Truncate, EndSearch
  <2>. QED  BY <2>1, <2>2, <2>3
<1>. QED
  BY <1>1, <1>2, <1>3, <1>4
  DEF RetrievalInv, OneRequest, RetrievalTypeOK, RowsAllowed, LaneInv, Ranking, Compiling

LEMMA RetrievalNextKeeps == RetrievalInv /\ [RetrievalNext]_rvars => RetrievalInv'
<1>. SUFFICES ASSUME RetrievalInv, [RetrievalNext]_rvars PROVE RetrievalInv'
  OBVIOUS
<1>1. CASE RetrieveStep
  BY <1>1, RetrieveStepKeeps
<1>2. ASSUME NEW p \in Pub, DatabaseActivates(p) PROVE RetrievalInv'
  <2>1. UNCHANGED <<observed, initial, retrieval>> /\ snapshot' \in Pub /\ active' \in Pub
    BY <1>2 DEF DatabaseActivates, Change, observed, runtime, search, RetrievalInv
  <2>. QED  BY <2>1, AroundKeeps
<1>3. CASE stage = "idle" /\ Subgraph /\ UNCHANGED <<active, retrieval>>
  BY <1>3, SubgraphKeeps
<1>4. CASE stage \notin Over /\ Environment /\ UNCHANGED <<active, retrieval>>
  <2>1. Change
    BY <1>4 DEF Environment, AssignSnapshot, ReplaceProjection, AlterRow, LoseNeo4j
  <2>2. UNCHANGED <<observed, initial, retrieval>>
    BY <1>4, <2>1 DEF Change, observed, runtime, search
  <2>3. snapshot' \in Pub /\ active' \in Pub
    BY <1>4, EnvironmentSnapshot DEF RetrievalInv, RetrievalTypeOK
  <2>. QED  BY <2>2, <2>3, AroundKeeps
<1>5. CASE UNCHANGED rvars
  <2>1. UNCHANGED <<observed, initial, retrieval>> /\ snapshot' \in Pub /\ active' \in Pub
    BY <1>5 DEF rvars, vars, observed, runtime, search, RetrievalInv, RetrievalTypeOK
  <2>. QED  BY <2>1, AroundKeeps
<1>. QED
  BY <1>1, <1>2, <1>3, <1>4, <1>5 DEF RetrievalNext

LEMMA RetrievalInvHolds == RetrievalSpec => []RetrievalInv
  BY InitRetrievalInv, RetrievalNextKeeps, PTL DEF RetrievalSpec

(***************************************************************************)
(* The theorems                                                            *)
(***************************************************************************)

\* Every lane ranks candidates of the request, through every order of steps
\* of the retrieval and its surroundings.
THEOREM RetrievalTypes == RetrievalSpec => []RetrievalTypeOK
<1>1. RetrievalInv => RetrievalTypeOK
  BY DEF RetrievalInv
<1>. QED  BY <1>1, RetrievalInvHolds, PTL

\* For every policy, requester, day, restriction and publication, whatever the
\* index yields: the SQL admits what active_provisions returns, and nothing is
\* ranked because of a row the lexical lane may not read.
THEOREM VectorPoliciesAgree == RetrievalSpec => []VectorPolicyAgrees
<1>1. ASSUME RetrievalInv PROVE VectorPolicyAgrees
  <2>1. ask.from.who \in Principal /\ ask.from.day \in Nat /\ ask.docs \in Restriction
    BY <1>1, GraphAssumption DEF RetrievalInv, Asked
  <2>2. searched \in Pub
    BY <1>1 DEF RetrievalInv, RetrievalTypeOK
  <2>3. Searchable(searched, ask.from.who, ask.from.day, ask.docs)
          = ActiveProvisions(searched, ask.from.who, ask.from.day, ask.docs)
    BY <2>1, <2>2, SearchableIsActive
  <2>. QED  BY <1>1, <2>3 DEF VectorPolicyAgrees, RetrievalInv, RowsAllowed
<1>. QED  BY <1>1, RetrievalInvHolds, PTL

\* Neo4j gives the lane of the canonical edges whenever it holds the
\* publication of the scope intact, and never a larger one.
THEOREM GraphLaneIsCanonical == RetrievalSpec => []GraphLaneAgrees
<1>1. RetrievalInv => GraphLaneAgrees
  BY IntactProjection DEF RetrievalInv, LaneInv, GraphLaneAgrees, Ranking
<1>. QED  BY <1>1, RetrievalInvHolds, PTL

\* Questions beside it do not widen what subgraph shows.
THEOREM ApprovedEdgesBesideRetrieval == RetrievalSpec => []OnlyApprovedEdges
<1>1. RetrievalInv => OnlyApprovedEdges
  BY GraphInvImplies DEF RetrievalInv
<1>. QED  BY <1>1, RetrievalInvHolds, PTL

(***************************************************************************)
(* Ranks                                                                   *)
(***************************************************************************)

Ahead(x, xs, score) == {z \in xs : score[z] > score[x] \/ (score[z] = score[x] /\ z < x)}

LEMMA RankType ==
  ASSUME NEW xs, IsFiniteSet(xs), NEW score, NEW x
  PROVE  /\ IsFiniteSet(Ahead(x, xs, score))
         /\ Rank(x, xs, score) = 1 + Cardinality(Ahead(x, xs, score))
         /\ Rank(x, xs, score) \in Nat \ {0}
<1>1. Ahead(x, xs, score) \subseteq xs
  BY DEF Ahead
<1>2. IsFiniteSet(Ahead(x, xs, score))
  BY <1>1, FS_Subset
<1>3. Cardinality(Ahead(x, xs, score)) \in Nat
  BY <1>2, FS_CardinalityType
<1>4. Rank(x, xs, score) = 1 + Cardinality(Ahead(x, xs, score))
  BY DEF Rank, Ahead
<1>. QED  BY <1>2, <1>3, <1>4

\* Who is ahead of one that is ahead is ahead.
LEMMA AheadGrows ==
  ASSUME NEW xs, xs \subseteq Nat, NEW score, \A x \in xs : score[x] \in Nat,
         NEW x \in xs, NEW y \in Ahead(x, xs, score)
  PROVE  /\ Ahead(y, xs, score) \subseteq Ahead(x, xs, score)
         /\ y \in xs /\ y \notin Ahead(y, xs, score)
<1>1. y \in xs /\ y \in Nat /\ x \in Nat /\ score[x] \in Nat /\ score[y] \in Nat
  BY DEF Ahead
<1>2. score[y] > score[x] \/ (score[y] = score[x] /\ y < x)
  BY DEF Ahead
<1>3. ASSUME NEW w \in Ahead(y, xs, score) PROVE w \in Ahead(x, xs, score)
  <2>1. w \in xs /\ w \in Nat /\ score[w] \in Nat
    BY <1>3 DEF Ahead
  <2>2. score[w] > score[y] \/ (score[w] = score[y] /\ w < y)
    BY <1>3 DEF Ahead
  <2>3. score[w] > score[x] \/ (score[w] = score[x] /\ w < x)
    BY <1>1, <1>2, <2>1, <2>2
  <2>. QED  BY <2>1, <2>3 DEF Ahead
<1>4. y \notin Ahead(y, xs, score)
  BY <1>1 DEF Ahead
<1>. QED  BY <1>1, <1>3, <1>4

\* Who is ahead has a smaller rank.
LEMMA RankFollows ==
  ASSUME NEW xs, xs \subseteq Nat, IsFiniteSet(xs), NEW score, \A x \in xs : score[x] \in Nat,
         NEW x \in xs, NEW y \in Ahead(x, xs, score)
  PROVE  Rank(y, xs, score) < Rank(x, xs, score)
<1>. DEFINE A == Ahead(x, xs, score)
            B == Ahead(y, xs, score)
<1>1. B \subseteq A /\ y \in A /\ y \notin B
  BY AheadGrows
<1>2. IsFiniteSet(A) /\ IsFiniteSet(B)
  BY RankType
<1>3. Rank(x, xs, score) = 1 + Cardinality(A) /\ Rank(y, xs, score) = 1 + Cardinality(B)
  BY RankType
<1>. HIDE DEF A, B
<1>4. Cardinality(A) \in Nat /\ Cardinality(B) \in Nat
  BY <1>2, FS_CardinalityType
<1>5. Cardinality(B) <= Cardinality(A) /\ Cardinality(B) # Cardinality(A)
  BY <1>1, <1>2, FS_Subset
<1>. QED  BY <1>3, <1>4, <1>5

\* Ranks are one to one with the numbers from 1 on.
LEMMA RanksAreNumbers ==
  ASSUME NEW xs, xs \subseteq Nat, IsFiniteSet(xs), NEW score, \A x \in xs : score[x] \in Nat
  PROVE  [x \in xs |-> Rank(x, xs, score)] \in Bijection(xs, 1 .. Cardinality(xs))
<1>. DEFINE n == Cardinality(xs)
            places == 1 .. n
            r == [x \in xs |-> Rank(x, xs, score)]
<1>1. n \in Nat
  BY FS_CardinalityType
<1>2. IsFiniteSet(places) /\ Cardinality(places) = n
  BY <1>1, FS_Interval
<1>3. ASSUME NEW x \in xs PROVE Rank(x, xs, score) \in places
  <2>. DEFINE A == Ahead(x, xs, score)
  <2>1. A \subseteq xs /\ x \notin A
    <3>1. x \in Nat /\ score[x] \in Nat
      OBVIOUS
    <3>. QED  BY <3>1 DEF Ahead
  <2>2. Rank(x, xs, score) = 1 + Cardinality(A) /\ Cardinality(A) \in Nat
    BY RankType, FS_CardinalityType
  <2>. HIDE DEF A
  <2>3. Cardinality(A) <= n /\ Cardinality(A) # n
    BY <2>1, FS_Subset
  <2>. QED  BY <1>1, <2>2, <2>3
<1>4. ASSUME NEW x \in xs, NEW y \in xs, x # y PROVE r[x] # r[y]
  <2>1. x \in Ahead(y, xs, score) \/ y \in Ahead(x, xs, score)
    <3>1. x \in Nat /\ y \in Nat /\ score[x] \in Nat /\ score[y] \in Nat
      OBVIOUS
    <3>2. \/ score[x] > score[y] \/ (score[x] = score[y] /\ x < y)
          \/ score[y] > score[x] \/ (score[y] = score[x] /\ y < x)
      BY <1>4, <3>1
    <3>. QED  BY <3>2 DEF Ahead
  <2>2. Rank(x, xs, score) \in Nat /\ Rank(y, xs, score) \in Nat
    BY RankType
  <2>3. Rank(x, xs, score) < Rank(y, xs, score) \/ Rank(y, xs, score) < Rank(x, xs, score)
    BY <2>1, RankFollows
  <2>. QED  BY <2>2, <2>3
<1>5. r \in Injection(xs, places)
  BY <1>3, <1>4 DEF Injection, IsInjective
<1>. HIDE DEF r, places, n
<1>6. r \in Surjection(xs, places)
  BY <1>2, <1>5, FS_Injection DEF n
<1>. QED  BY <1>5, <1>6 DEF Bijection, r, places, n

\* Some paragraph comes before all others.
LEMMA FirstExists ==
  ASSUME NEW xs, xs \subseteq Nat, IsFiniteSet(xs), xs # {}, NEW score \in [xs -> Nat]
  PROVE  \E x \in xs : Ahead(x, xs, score) = {}
<1>. DEFINE n == Cardinality(xs)
            r == [x \in xs |-> Rank(x, xs, score)]
<1>1. n \in Nat /\ n # 0
  BY FS_CardinalityType, FS_EmptySet
<1>2. r \in Bijection(xs, 1 .. n)
  BY RanksAreNumbers
<1>3. PICK x \in xs : r[x] = 1
  <2>. HIDE DEF n, r
  <2>. QED  BY <1>1, <1>2 DEF Bijection, Surjection
<1>4. /\ IsFiniteSet(Ahead(x, xs, score))
      /\ 1 = 1 + Cardinality(Ahead(x, xs, score))
  BY <1>3, RankType
<1>5. Cardinality(Ahead(x, xs, score)) = 0
  BY <1>4, FS_CardinalityType
<1>. QED  BY <1>4, <1>5, FS_EmptySet

LEMMA RankOfFirst ==
  ASSUME NEW xs, NEW score, NEW x, Ahead(x, xs, score) = {}
  PROVE  Rank(x, xs, score) = 1
  BY FS_EmptySet DEF Rank, Ahead

(***************************************************************************)
(* Scores                                                                  *)
(***************************************************************************)

\* What the first rank of a lane is worth.
MaxShare == 16393

LEMMA ShareBound ==
  ASSUME NEW n \in Nat \ {0}
  PROVE  1000000 \div (60 + n) \in Nat /\ 1000000 \div (60 + n) <= 16393
<1>. DEFINE k == 60 + n
            q == 1000000 \div k
<1>1. k \in Nat /\ k >= 61
  BY SMT
<1>2. q \in Nat /\ k * q <= 1000000
  BY SMT, <1>1
<1>3. 61 * q <= k * q
  BY SMT, <1>1, <1>2
<1>. QED  BY SMT, <1>2, <1>3

LEMMA ShareType ==
  ASSUME NEW x, NEW ranked, IsFiniteSet(ranked), NEW score
  PROVE  Share(x, ranked, score) \in Nat /\ Share(x, ranked, score) <= MaxShare
<1>. DEFINE n == Rank(x, ranked, score)
            share == 1000000 \div (60 + n)
<1>1. n \in Nat \ {0}
  BY RankType
<1>2. Share(x, ranked, score) = IF x \in ranked THEN share ELSE 0
  BY SMT DEF Share
<1>3. share \in Nat /\ share <= 16393
  <2>. HIDE DEF n
  <2>. QED  BY SMT, <1>1, ShareBound
<1>. HIDE DEF share
<1>. QED  BY SMT, <1>2, <1>3 DEF MaxShare

\* A later rank is worth no more.
LEMMA ShareFalls ==
  ASSUME NEW m \in Nat \ {0}, NEW n \in Nat \ {0}, m <= n
  PROVE  1000000 \div (60 + n) <= 1000000 \div (60 + m)
<1>. DEFINE i == 60 + m
            j == 60 + n
            q == 1000000 \div i
            s == 1000000 \div j
<1>1. i \in Nat /\ j \in Nat /\ 0 < i /\ i <= j
  BY SMT
<1>2. q \in Nat /\ 1000000 < i * (q + 1)
  BY SMT, <1>1
<1>3. s \in Nat /\ j * s <= 1000000
  BY SMT, <1>1
<1>4. i * s <= j * s
  BY SMT, <1>1, <1>3
<1>5. i * s < i * (q + 1)
  <2>. HIDE DEF i, j, q, s
  <2>. QED  BY SMT, <1>1, <1>2, <1>3, <1>4
<1>6. s < q + 1
  <2>. HIDE DEF i, j, q, s
  <2>. QED  BY SMT, <1>1, <1>2, <1>3, <1>5
<1>. QED  BY SMT, <1>2, <1>3, <1>6

\* A paragraph with a better score gets at least the share of another one.
LEMMA ShareFollowsScore ==
  ASSUME NEW ranked, ranked \subseteq Nat, IsFiniteSet(ranked),
         NEW score \in [Prov -> Nat], ranked \subseteq Prov,
         NEW y \in ranked, NEW x, x \in ranked => score[x] < score[y]
  PROVE  Share(x, ranked, score) <= Share(y, ranked, score)
<1>1. CASE x \notin ranked
  <2>1. Share(x, ranked, score) = 0
    BY <1>1 DEF Share
  <2>2. Share(y, ranked, score) \in Nat
    BY ShareType
  <2>. QED  BY SMT, <2>1, <2>2
<1>2. CASE x \in ranked
  <2>. DEFINE m == Rank(y, ranked, score)
              n == Rank(x, ranked, score)
  <2>1. Ahead(y, ranked, score) \subseteq Ahead(x, ranked, score)
    <3>. SUFFICES ASSUME NEW z \in Ahead(y, ranked, score)
                  PROVE  z \in Ahead(x, ranked, score)
      OBVIOUS
    <3>1. z \in ranked /\ score[z] \in Nat /\ score[x] \in Nat /\ score[y] \in Nat
      BY <1>2 DEF Ahead
    <3>2. score[z] > score[y] \/ score[z] = score[y]
      BY DEF Ahead
    <3>. QED  BY SMT, <1>2, <3>1, <3>2 DEF Ahead
  <2>2. m \in Nat \ {0} /\ n \in Nat \ {0} /\ m <= n
    <3>1. /\ IsFiniteSet(Ahead(x, ranked, score))
          /\ m = 1 + Cardinality(Ahead(y, ranked, score))
          /\ n = 1 + Cardinality(Ahead(x, ranked, score))
          /\ m \in Nat \ {0} /\ n \in Nat \ {0}
      BY RankType
    <3>2. IsFiniteSet(Ahead(y, ranked, score))
      BY RankType
    <3>3. /\ Cardinality(Ahead(y, ranked, score)) <= Cardinality(Ahead(x, ranked, score))
          /\ Cardinality(Ahead(y, ranked, score)) \in Nat
          /\ Cardinality(Ahead(x, ranked, score)) \in Nat
      BY <2>1, <3>1, <3>2, FS_Subset, FS_CardinalityType
    <3>. QED  BY SMT, <3>1, <3>3
  <2>3. /\ Share(x, ranked, score) = 1000000 \div (60 + n)
        /\ Share(y, ranked, score) = 1000000 \div (60 + m)
    BY SMT, <1>2 DEF Share
  <2>. HIDE DEF m, n
  <2>. QED  BY SMT, <2>2, <2>3, ShareFalls
<1>. QED  BY <1>1, <1>2

LexicalShare(x) == Share(x, LexicalLane, question.lexical)

\* Beside the share of its lexical rank an irrelevant paragraph has at most
\* 2 * 16393 + 19 * 4500 + 19 * 2000 + 35 * 2000, and one with strong lexical
\* evidence at least 51 * 4500.
LEMMA FinalScoreBounds ==
  ASSUME RetrievalTypeOK, NEW x \in Prov
  PROVE  /\ FinalScore(x) \in Nat /\ LexicalShare(x) \in Nat
         /\ ~Relevant(x) => FinalScore(x) <= LexicalShare(x) + 226286
         /\ x \in LexicalLane /\ question.lexical[x] >= StrongEvidence
              => FinalScore(x) >= LexicalShare(x) + 229500
<1>. DEFINE lex == Score(x, LexicalLane, question.lexical)
            vec == Score(x, VectorLane, question.vector)
            gra == Score(x, lane, GraphScore)
            s1 == Share(x, LexicalLane, question.lexical)
            s2 == Share(x, VectorLane, question.vector)
            s3 == Share(x, lane, GraphScore)
<1>1. /\ LexicalLane \subseteq Prov /\ VectorLane \subseteq Prov /\ lane \subseteq Prov
  BY SMT DEF LexicalLane, VectorLane, Best, RetrievalTypeOK
<1>2. IsFiniteSet(Prov)
  BY RetrievalAssumption
<1>10. IsFiniteSet(LexicalLane) /\ IsFiniteSet(VectorLane) /\ IsFiniteSet(lane)
  BY <1>1, <1>2, FS_Subset
<1>3. /\ s1 \in Nat /\ s1 <= MaxShare
      /\ s2 \in Nat /\ s2 <= MaxShare
      /\ s3 \in Nat /\ s3 <= MaxShare
  BY <1>10, ShareType
<1>4. question.lexical[x] \in 0 .. 100 /\ question.vector[x] \in 0 .. 100
  BY SMT, RetrievalAssumption DEF RetrievalTypeOK
<1>5. lex \in 0 .. 100 /\ vec \in 0 .. 100
  BY SMT, <1>4 DEF Score
<1>6. gra \in {0, 35}
  BY SMT DEF Score, GraphScore
<1>7. FinalScore(x) = s1 + s2 + s3 + 4500 * lex + 2000 * vec + 2000 * gra
  BY SMT DEF FinalScore
<1>8. ~Relevant(x) => lex < 20 /\ vec < 20
  BY SMT, <1>5 DEF Relevant
<1>9. x \in LexicalLane => lex = question.lexical[x]
  BY SMT DEF Score
<1>. HIDE DEF lex, vec, gra, s1, s2, s3
<1>13. FinalScore(x) \in Nat
  BY SMT, <1>3, <1>5, <1>6, <1>7 DEF MaxShare
<1>11. ASSUME ~Relevant(x) PROVE FinalScore(x) <= s1 + 226286
  <2>1. lex \in Nat /\ vec \in Nat /\ lex <= 19 /\ vec <= 19
    BY SMT, <1>5, <1>8, <1>11
  <2>2. gra \in Nat /\ gra <= 35
    BY SMT, <1>6
  <2>. QED  BY SMT, <1>3, <1>7, <2>1, <2>2 DEF MaxShare
<1>12. x \in LexicalLane /\ question.lexical[x] >= 51 => FinalScore(x) >= s1 + 229500
  BY SMT, <1>3, <1>5, <1>6, <1>7, <1>9 DEF MaxShare
<1>14. LexicalShare(x) = s1
  BY DEF LexicalShare, s1
<1>. QED  BY SMT, <1>3, <1>13, <1>11, <1>12, <1>14 DEF StrongEvidence

(***************************************************************************)
(* The gate                                                                *)
(***************************************************************************)

AnsweredBy(x) == Foremost(x) /\ Relevant(x)

\* The hits are the best of what was fused, and the gate looked at them.
GateInv ==
  /\ stage \in {"gate", "abstained"} =>
       hits = Best(HitLimit, Fused, [x \in Fused |-> FinalScore(x)])
  /\ stage = "abstained" => ~ \E x \in hits : AnsweredBy(x)

\* What GateInv reads.
ranked == <<stage, question, candidates, vectors, lane, hits>>

\* Scores depend on the question and the lanes only.
LEMMA ScoresKept ==
  ASSUME UNCHANGED <<question, candidates, vectors, lane>>
  PROVE  /\ Fused' = Fused
         /\ \A x : FinalScore(x)' = FinalScore(x)
         /\ \A x : Relevant(x)' <=> Relevant(x)
<1>1. LexicalLane' = LexicalLane
  BY DEF LexicalLane, Best, Rank
<1>2. VectorLane' = VectorLane
  BY DEF VectorLane, Best, Rank
<1>3. Fused' = Fused
  BY <1>1, <1>2 DEF Fused
<1>4. \A x : /\ Share(x, LexicalLane, question.lexical)' = Share(x, LexicalLane, question.lexical)
             /\ Share(x, VectorLane, question.vector)' = Share(x, VectorLane, question.vector)
             /\ Share(x, lane, GraphScore)' = Share(x, lane, GraphScore)
  BY SMT, <1>1, <1>2 DEF Share, Rank, GraphScore
<1>5. \A x : /\ Score(x, LexicalLane, question.lexical)' = Score(x, LexicalLane, question.lexical)
             /\ Score(x, VectorLane, question.vector)' = Score(x, VectorLane, question.vector)
             /\ Score(x, lane, GraphScore)' = Score(x, lane, GraphScore)
  BY <1>1, <1>2 DEF Score, GraphScore
<1>6. ASSUME NEW x PROVE FinalScore(x)' = FinalScore(x)
  BY SMT, <1>4, <1>5 DEF FinalScore
<1>7. \A x : Relevant(x)' <=> Relevant(x)
  BY <1>5 DEF Relevant
<1>. QED  BY <1>3, <1>6, <1>7

LEMMA HitsKept ==
  ASSUME UNCHANGED <<question, candidates, vectors, lane, hits>>
  PROVE  /\ Best(HitLimit, Fused, [x \in Fused |-> FinalScore(x)])'
              = Best(HitLimit, Fused, [x \in Fused |-> FinalScore(x)])
         /\ \A x : AnsweredBy(x)' <=> AnsweredBy(x)
<1>1. Fused' = Fused /\ \A x : FinalScore(x)' = FinalScore(x)
  BY ScoresKept
<1>2. [x \in Fused |-> FinalScore(x)]' = [x \in Fused |-> FinalScore(x)]
  BY <1>1
<1>3. [z \in hits |-> FinalScore(z)]' = [z \in hits |-> FinalScore(z)]
  BY <1>1
<1>4. \A x : Foremost(x)' <=> Foremost(x)
  BY <1>3 DEF Foremost, Rank
<1>5. \A x : AnsweredBy(x)' <=> AnsweredBy(x)
  BY <1>4, ScoresKept DEF AnsweredBy
<1>. QED  BY <1>1, <1>2, <1>5 DEF Best, Rank

LEMMA RankedKeeps == GateInv /\ UNCHANGED ranked => GateInv'
  BY HitsKept DEF ranked, GateInv

LEMMA RetrievalNextGate == GateInv /\ [RetrievalNext]_rvars => GateInv'
<1>. SUFFICES ASSUME GateInv, [RetrievalNext]_rvars PROVE GateInv'
  OBVIOUS
<1>1. CASE Fuse
  <2>1. /\ stage' \in {"gate", "lookup_error"}
        /\ hits' = Best(HitLimit, Fused, [x \in Fused |-> FinalScore(x)])
        /\ UNCHANGED <<question, candidates, vectors, lane>>
    BY <1>1 DEF Fuse, Stage
  <2>2. Fused' = Fused /\ \A x : FinalScore(x)' = FinalScore(x)
    BY <2>1, ScoresKept
  <2>3. [x \in Fused |-> FinalScore(x)]' = [x \in Fused |-> FinalScore(x)]
    BY <2>2
  <2>4. Best(HitLimit, Fused, [x \in Fused |-> FinalScore(x)])'
          = Best(HitLimit, Fused, [x \in Fused |-> FinalScore(x)])
    BY <2>2, <2>3 DEF Best, Rank
  <2>. QED  BY <2>1, <2>4 DEF GateInv
<1>2. CASE Gate
  <2>1. /\ stage = "gate"
        /\ stage' = IF \E x \in hits : AnsweredBy(x) THEN "answered" ELSE "abstained"
        /\ UNCHANGED <<question, candidates, vectors, lane, hits>>
    BY <1>2 DEF Gate, Stage, AnsweredBy
  <2>. QED  BY <2>1, HitsKept DEF GateInv
<1>3. CASE stage' \notin {"gate", "abstained"}
  BY <1>3 DEF GateInv
<1>4. CASE UNCHANGED ranked
  BY <1>4, RankedKeeps
<1>5. Fuse \/ Gate \/ stage' \notin {"gate", "abstained"} \/ UNCHANGED ranked
  <2>1. CASE RetrieveStep
    BY <2>1 DEF RetrieveStep, BeginRetrieve, Bind, SearchVectors, MatchLabels,
                CompileGraphScope, UseCanonicalLane, SkipQuery, AskLaneStatus, QueryLane,
                QueryFails, EndLane, Stage
  <2>2. CASE ~RetrieveStep
    BY <2>2 DEF RetrievalNext, DatabaseActivates, rvars, retrieval, ranked
  <2>. QED  BY <2>1, <2>2
<1>. QED  BY <1>1, <1>2, <1>3, <1>4, <1>5

\* The best hit exists, and no irrelevant paragraph weighs as much as one with
\* strong lexical evidence.
LEMMA StrongEvidenceWins ==
  RetrievalTypeOK /\ GateInv => StrongEvidenceAnswered
<1>. SUFFICES ASSUME RetrievalTypeOK, GateInv, stage = "abstained",
                     NEW strong \in LexicalLane,
                     ~ (question.lexical[strong] < StrongEvidence)
              PROVE  FALSE
  BY DEF StrongEvidenceAnswered
<1>. DEFINE final == [x \in Fused |-> FinalScore(x)]
<1>1. Fused \subseteq Prov /\ strong \in Fused
  BY DEF Fused, LexicalLane, VectorLane, Best, RetrievalTypeOK
<1>2. IsFiniteSet(Fused) /\ Fused \subseteq Nat /\ Fused # {}
  BY <1>1, FS_Subset, RetrievalAssumption
<1>3. final \in [Fused -> Nat]
  BY <1>1, FinalScoreBounds
<1>4. PICK x \in Fused : Ahead(x, Fused, final) = {}
  <2>. HIDE DEF final
  <2>. QED  BY <1>2, <1>3, FirstExists
<1>5. hits = Best(HitLimit, Fused, final)
  BY DEF GateInv
<1>6. x \in hits
  <2>1. Rank(x, Fused, final) = 1
    BY <1>4, RankOfFirst
  <2>. QED  BY <1>5, <2>1, RetrievalAssumption DEF Best
<1>7. Foremost(x)
  <2>1. hits \subseteq Fused
    BY <1>5 DEF Best
  <2>2. Ahead(x, hits, [z \in hits |-> FinalScore(z)]) = {}
    BY <1>4, <1>6, <2>1 DEF Ahead
  <2>. QED  BY <2>2, RankOfFirst DEF Foremost
<1>8. ~Relevant(x)
  BY <1>6, <1>7 DEF GateInv, AnsweredBy
<1>9. /\ FinalScore(x) \in Nat /\ LexicalShare(x) \in Nat
      /\ FinalScore(x) <= LexicalShare(x) + 226286
  BY <1>1, <1>8, FinalScoreBounds
<1>10. /\ strong \in Prov /\ question.lexical[strong] \in 0 .. 100
       /\ question.lexical[strong] >= StrongEvidence
  <2>1. strong \in Prov /\ question.lexical[strong] \in 0 .. 100
    BY <1>1, RetrievalAssumption DEF RetrievalTypeOK
  <2>. QED  BY SMT, <2>1 DEF StrongEvidence
<1>11. /\ FinalScore(strong) \in Nat /\ LexicalShare(strong) \in Nat
       /\ FinalScore(strong) >= LexicalShare(strong) + 229500
  BY <1>10, FinalScoreBounds
<1>14. LexicalShare(x) <= LexicalShare(strong)
  <2>1. question.lexical \in [Prov -> Nat]
    <3>1. question \in Questions
      BY DEF RetrievalTypeOK
    <3>2. question.lexical \in [Prov -> 0 .. 100]
      BY <3>1, RetrievalAssumption
    <3>3. 0 .. 100 \subseteq Nat
      BY SMT
    <3>. HIDE DEF final
    <3>. QED  BY <3>2, <3>3
  <2>2. LexicalLane \subseteq Prov /\ LexicalLane \subseteq Nat /\ IsFiniteSet(LexicalLane)
    BY FS_Subset, RetrievalAssumption DEF RetrievalTypeOK, LexicalLane, Best
  <2>3. x \in LexicalLane => question.lexical[x] < question.lexical[strong]
    <3>. SUFFICES ASSUME x \in LexicalLane
                  PROVE  question.lexical[x] < question.lexical[strong]
      OBVIOUS
    <3>1. question.lexical[x] \in Nat /\ question.lexical[x] < 20
      BY SMT, <1>1, <1>8, <2>1 DEF Relevant, Score
    <3>. QED  BY SMT, <1>10, <3>1 DEF StrongEvidence
  <2>. QED  BY <2>1, <2>2, <2>3, ShareFollowsScore DEF LexicalShare
<1>12. final[x] < final[strong]
  BY SMT, <1>1, <1>9, <1>11, <1>14
<1>13. strong \in Ahead(x, Fused, final)
  BY SMT, <1>1, <1>3, <1>12 DEF Ahead
<1>. QED  BY <1>4, <1>13

\* A question with strong lexical evidence is answered, whatever the other
\* lanes rank and whichever paragraph is best.
THEOREM StrongEvidenceIsAnswered == RetrievalSpec => []StrongEvidenceAnswered
<1>1. RetrievalInit => GateInv
  BY DEF RetrievalInit, GateInv
<1>2. RetrievalSpec => []GateInv
  BY <1>1, RetrievalNextGate, PTL DEF RetrievalSpec
<1>. QED  BY <1>2, RetrievalTypes, StrongEvidenceWins, PTL

(***************************************************************************)
(* The subgraph beside questions                                           *)
(***************************************************************************)

SubgraphInv == GraphTypeInv /\ SearchInv /\ ProjectionInv

LEMMA InitSubgraphInv == RetrievalInit => SubgraphInv
  BY InitGraphTypes, InitSearchInv, InitProjection DEF RetrievalInit, SubgraphInv

\* A retrieval has the request and the scope to itself: nothing is traversed.
LEMMA RetrieveTouches ==
  ASSUME RetrievalInv, SubgraphInv, RetrieveStep
  PROVE  /\ phase = "idle" /\ UNCHANGED <<graphvars, snapshot, neo4j, changes>>
         /\ ask' \in Request /\ base' \in {base, snapshot}
         /\ scope' \in {scope, Compiled(snapshot)}
         /\ initial' \subseteq Node
         /\ status' \in {"healthy", "stale", "unavailable"}
<1>1. phase = "idle" /\ UNCHANGED <<graphvars, snapshot, neo4j, changes>>
  BY DEF RetrievalInv, OneRequest, RetrieveStep, BeginRetrieve, Bind, SearchVectors, MatchLabels,
         CompileGraphScope, UseCanonicalLane, SkipQuery, AskLaneStatus, QueryLane, QueryFails,
         EndLane, Fuse, Gate, Stage, around
<1>2. ask' \in Request
  <2>1. RetrievalRequests \subseteq Request
    BY GraphAssumption, RetrievalAssumption DEF RetrievalRequests, Request
  <2>. QED
    BY <2>1
    DEF SubgraphInv, GraphTypeInv, GraphTypeOK, RetrieveStep, BeginRetrieve, Bind, SearchVectors,
        MatchLabels, CompileGraphScope, UseCanonicalLane, SkipQuery, AskLaneStatus, QueryLane,
        QueryFails, EndLane, Fuse, Gate
<1>3. base' \in {base, snapshot} /\ scope' \in {scope, Compiled(snapshot)}
  BY DEF RetrieveStep, BeginRetrieve, Bind, SearchVectors, MatchLabels, CompileGraphScope,
         UseCanonicalLane, SkipQuery, AskLaneStatus, QueryLane, QueryFails, EndLane, Fuse, Gate
<1>4. initial' \subseteq Node
  <2>1. initial \subseteq Node
    BY DEF SubgraphInv, GraphTypeInv, GraphTypeOK
  <2>2. CASE MatchLabels
    BY <2>2, RetrievalAssumption DEF MatchLabels, RetrievalInv, RetrievalTypeOK
  <2>3. CASE CompileGraphScope
    BY <2>1, <2>3 DEF CompileGraphScope
  <2>4. MatchLabels \/ CompileGraphScope \/ UNCHANGED initial
    BY DEF RetrieveStep, BeginRetrieve, Bind, SearchVectors, UseCanonicalLane, SkipQuery,
           AskLaneStatus, QueryLane, QueryFails, EndLane, Fuse, Gate
  <2>. QED  BY <2>1, <2>2, <2>3, <2>4
<1>5. status' \in {"healthy", "stale", "unavailable"}
  <2>1. status \in {"healthy", "stale", "unavailable"}
    BY DEF SubgraphInv, GraphTypeInv, GraphTypeOK
  <2>2. LaneStatus \in {"healthy", "stale", "unavailable"}
    BY DEF LaneStatus, ProjectionStatus
  <2>. QED
    BY <2>1, <2>2
    DEF RetrieveStep, BeginRetrieve, Bind, SearchVectors, MatchLabels, CompileGraphScope,
        UseCanonicalLane, SkipQuery, AskLaneStatus, QueryLane, QueryFails, EndLane, Fuse, Gate
<1>. QED  BY <1>1, <1>2, <1>3, <1>4, <1>5

LEMMA RetrieveStepSubgraph == RetrievalInv /\ SubgraphInv /\ RetrieveStep => SubgraphInv'
<1>. SUFFICES ASSUME RetrievalInv, SubgraphInv, RetrieveStep PROVE SubgraphInv'
  OBVIOUS
<1>1. /\ phase = "idle"
      /\ UNCHANGED <<phase, frontier, queried, budget, hop, verified, received, queue, selected,
                     truncated, snapshot, stored, watermark, up, changes>>
  BY RetrieveTouches DEF graphvars, search, neo4j
<1>2. /\ ask' \in Request /\ base' \in {base, snapshot}
      /\ scope' \in {scope, Compiled(snapshot)} /\ initial' \subseteq Node
      /\ status' \in {"healthy", "stale", "unavailable"}
  BY RetrieveTouches
<1>3. queue = {} /\ selected = {}
  BY <1>1 DEF RetrievalInv, GraphInv, Untried
<1>4. scope' \in GraphAccessScope
  BY <1>2, CompiledType DEF SubgraphInv, GraphTypeInv, GraphTypeOK
<1>5. GraphTypeInv'
  BY <1>1, <1>2, <1>3, <1>4 DEF SubgraphInv, GraphTypeInv, GraphTypeOK, Blank
<1>6. SearchInv'
  <2>1. ask'.max \in Nat
    BY <1>2 DEF Request
  <2>. QED
    BY <1>1, <1>3, <2>1, FS_EmptySet DEF SubgraphInv, SearchInv, Seeded, Flagged
<1>7. ProjectionInv'
  BY <1>1, <1>2, CompiledRecord DEF SubgraphInv, ProjectionInv, Pristine
<1>. QED  BY <1>5, <1>6, <1>7 DEF SubgraphInv

LEMMA RetrievalNextSubgraph ==
  RetrievalInv /\ SubgraphInv /\ [RetrievalNext]_rvars => SubgraphInv'
<1>. SUFFICES ASSUME RetrievalInv, SubgraphInv, [RetrievalNext]_rvars PROVE SubgraphInv'
  OBVIOUS
<1>1. CASE RetrieveStep
  BY <1>1, RetrieveStepSubgraph
<1>2. ASSUME NEW p \in Pub, DatabaseActivates(p) PROVE SubgraphInv'
  <2>1. /\ changes' = changes + 1
        /\ UNCHANGED <<phase, ask, base, scope, initial, runtime, search, status, snapshot,
                       stored, watermark, up>>
    BY <1>2 DEF DatabaseActivates, Change, neo4j
  <2>2. GraphTypeInv'
    <3>1. /\ snapshot \in Pub /\ watermark \in Pub /\ up \in BOOLEAN
          /\ \A q \in Pub : stored[q] \subseteq Edge \cup Altered
      BY DEF SubgraphInv, GraphTypeInv, GraphTypeOK
    <3>. QED  BY <2>1, <3>1, UnchangedTypes DEF SubgraphInv
  <2>3. SearchInv'
    BY <2>1, UnchangedSearches DEF SubgraphInv, runtime, search
  <2>4. changes' \in Nat /\ changes' # 0
    BY <2>1 DEF SubgraphInv, ProjectionInv
  <2>5. ProjectionInv'
    BY <2>1, <2>4 DEF SubgraphInv, ProjectionInv, Pristine, runtime
  <2>. QED  BY <2>2, <2>3, <2>5 DEF SubgraphInv
<1>3. CASE [Next]_vars
  BY <1>3, NextTypes, NextSearches, NextProjects DEF RetrievalInv, SubgraphInv
<1>. QED
  BY <1>1, <1>2, <1>3 DEF RetrievalNext, Next, rvars

LEMMA SubgraphInvHolds == RetrievalSpec => []SubgraphInv
  BY InitSubgraphInv, RetrievalInvHolds, RetrievalNextSubgraph, PTL DEF RetrievalSpec

\* Questions and subgraphs share the request and the scope, and spoil neither
\* the types nor the limits of a traversal.
THEOREM GraphTypesBesideRetrieval == RetrievalSpec => []GraphTypeOK
<1>1. SubgraphInv => GraphTypeOK
  BY DEF SubgraphInv, GraphTypeInv
<1>. QED  BY <1>1, SubgraphInvHolds, PTL

\* The search of a response covers the edges verified for it beside questions,
\* too.
THEOREM SearchBesideRetrieval == RetrievalSpec => []SearchCoversVerified
<1>1. SubgraphInv => SearchCoversVerified
  BY SearchInvImplies DEF SubgraphInv
<1>. QED  BY <1>1, SubgraphInvHolds, PTL

\* And a graph from an intact projection stays the canonical one.
THEOREM ProjectionBesideRetrieval ==
  ASSUME MaxNodes <= FrontierCap
  PROVE  RetrievalSpec => []ProjectionAgrees
<1>1. SubgraphInv => ProjectionAgrees
  BY ProjectionInvImplies DEF SubgraphInv
<1>. QED  BY <1>1, SubgraphInvHolds, PTL

=============================================================================
