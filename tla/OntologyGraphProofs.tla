------------------------- MODULE OntologyGraphProofs -------------------------
(***************************************************************************)
(* The encodings of the access policy agree, whatever is published and     *)
(* whoever asks about whichever day and documents.                         *)
(*                                                                         *)
(* Of subgraph, for every policy, every content of Neo4j and every order   *)
(* of changes around the request: it shows approved edges only, the search *)
(* covers the edges that were verified, and an intact projection gives     *)
(* what the canonical edges give. None is inductive. What is shown at the  *)
(* end rests on what was queued and verified under the scope, the search   *)
(* on what it has yet to visit (SearchInv), and the projection on how far  *)
(* each hop has led (ProjectionInv).                                       *)
(***************************************************************************)
EXTENDS OntologyGraph, FiniteSetTheorems, TLAPS

(***************************************************************************)
(* The access policy                                                       *)
(***************************************************************************)

\* The scope vector_search computes and the rule of can_read, document by
\* document: a document id passes the list exactly if it is asked for and on
\* the principal's own list.
LEMMA ScopeIsIntersection ==
  ASSUME NEW own \in {Unrestricted} \cup SUBSET Doc,
         NEW requested \in Restriction,
         NEW d \in Doc
  PROVE  (EffectiveDocumentScope(own, requested) # Unrestricted
            => d \in EffectiveDocumentScope(own, requested))
         <=> /\ requested # Unrestricted => d \in requested
             /\ own # Unrestricted => d \in own
<1>. DEFINE reach == EffectiveDocumentScope(own, requested)
<1>1. CASE requested = Unrestricted
  BY <1>1 DEF EffectiveDocumentScope
<1>2. CASE requested # Unrestricted /\ own = Unrestricted
  BY <1>2 DEF EffectiveDocumentScope
<1>3. CASE requested # Unrestricted /\ own # Unrestricted
  <2>1. requested \cap own \in SUBSET Doc
    BY <1>3 DEF Restriction
  <2>2. reach = requested \cap own /\ reach # Unrestricted
    BY <1>3, <2>1, PolicyAssumption DEF EffectiveDocumentScope
  <2>. QED  BY <1>3, <2>2
<1>. QED  BY <1>1, <1>2, <1>3

\* A version passes the dates of the WHERE clause if and only if is_effective
\* holds of it.
LEMMA DatesAgree ==
  ASSUME NEW v \in VersionRecord, NEW day \in Nat
  PROVE  IsEffective(v, day) <=>
           v.status = "published" /\ v.from <= day /\ (v.to = Open \/ v.to > day)
<1>1. v.to = Open \/ v.to \in Nat
  BY DEF VersionRecord
<1>. QED  BY <1>1 DEF IsEffective

\* What vector_search may rank for the ACTIVE publication is what
\* active_provisions gives the lexical lane: the hand-written WHERE clause and
\* the domain's can_read and is_effective are one policy.
THEOREM SearchableIsActive ==
  ASSUME NEW p \in Pub, NEW who \in Principal, NEW day \in Nat, NEW docs \in Restriction
  PROVE  Searchable(p, who, day, docs) = ActiveProvisions(p, who, day, docs)
<1>. DEFINE reach == EffectiveDocumentScope(who.docs, docs)
            Found(v) == /\ v.status = "published"
                        /\ v.from <= day
                        /\ v.to = Open \/ v.to > day
                        /\ ClassOf[p][v.doc] \in who.classes
                        /\ reach # Unrestricted => v.doc \in reach
<1>1. who.docs \in {Unrestricted} \cup SUBSET Doc
  BY DEF Principal
<1>2. \A v \in Versions[p] :
        Found(v) <=> v.doc \in Readable(p, who, docs) /\ IsEffective(v, day)
  <2>. SUFFICES ASSUME NEW v \in Versions[p]
                PROVE  Found(v) <=> v.doc \in Readable(p, who, docs) /\ IsEffective(v, day)
    OBVIOUS
  <2>1. v \in VersionRecord /\ v.doc \in Docs(p) /\ v.doc \in Doc
    BY PolicyAssumption DEF Docs, VersionRecord
  <2>2. (reach # Unrestricted => v.doc \in reach)
          <=> /\ docs # Unrestricted => v.doc \in docs
              /\ who.docs # Unrestricted => v.doc \in who.docs
    BY <1>1, <2>1, ScopeIsIntersection
  <2>3. v.doc \in Readable(p, who, docs)
          <=> /\ ClassOf[p][v.doc] \in who.classes
              /\ reach # Unrestricted => v.doc \in reach
    BY <2>1, <2>2 DEF Readable, AskedFor, CanRead
  <2>4. IsEffective(v, day) <=>
          v.status = "published" /\ v.from <= day /\ (v.to = Open \/ v.to > day)
    BY <2>1, DatesAgree
  <2>. QED  BY <2>3, <2>4
<1>3. \A x : x \in Searchable(p, who, day, docs)
               <=> \E v \in Versions[p] : Found(v) /\ x \in v.paragraphs
  BY DEF Searchable
<1>4. \A x : x \in ActiveProvisions(p, who, day, docs)
               <=> \E v \in Versions[p] : /\ v.doc \in Readable(p, who, docs)
                                          /\ IsEffective(v, day)
                                          /\ x \in v.paragraphs
  BY DEF ActiveProvisions, ParagraphsOn, EffectiveVersions
<1>. QED  BY <1>2, <1>3, <1>4

\* A paragraph in force is either evidence the principal may use or evidence
\* denied_scope_has_evidence may hint at, never both: a refusal tells only of
\* documents no lane could have read.
THEOREM EvidenceSplits ==
  ASSUME NEW p \in Pub, NEW who \in Principal, NEW day \in Nat, NEW docs \in Restriction
  PROVE  /\ ActiveProvisions(p, who, day, docs) \cap DeniedProvisions(p, who, day, docs) = {}
         /\ ActiveProvisions(p, who, day, docs) \cup DeniedProvisions(p, who, day, docs)
              = UNION {ParagraphsOn(p, d, day) : d \in AskedFor(p, docs)}
<1>1. \A d, x : x \in ParagraphsOn(p, d, day) => Place[x].doc = d
  BY PolicyAssumption DEF ParagraphsOn, EffectiveVersions
<1>2. Readable(p, who, docs) \subseteq AskedFor(p, docs)
  BY DEF Readable
<1>3. \A x : x \in ActiveProvisions(p, who, day, docs)
               => x \in ParagraphsOn(p, Place[x].doc, day) /\ Place[x].doc \in Readable(p, who, docs)
  BY <1>1 DEF ActiveProvisions
<1>4. \A x : x \in DeniedProvisions(p, who, day, docs)
               => Place[x].doc \notin Readable(p, who, docs)
  BY <1>1 DEF DeniedProvisions
<1>5. ActiveProvisions(p, who, day, docs) \cap DeniedProvisions(p, who, day, docs) = {}
  BY <1>3, <1>4
<1>6. \A x : x \in ActiveProvisions(p, who, day, docs) \cup DeniedProvisions(p, who, day, docs)
               <=> \E d \in AskedFor(p, docs) : x \in ParagraphsOn(p, d, day)
  BY <1>2 DEF ActiveProvisions, DeniedProvisions
<1>. QED  BY <1>5, <1>6

\* The graph lane reads no further than the lexical lane: an edge in scope that
\* is taken from a paragraph is taken from one active_provisions returns.
THEOREM ProvenanceIsActive ==
  ASSUME NEW p \in Pub, NEW who \in Principal, NEW day \in Nat, NEW docs \in Restriction,
         NEW d \in ScopeDocuments(p, who, day, docs),
         NEW article \in Nat, NEW paragraph \in Nat, paragraph # 0,
         <<article, paragraph>> # Metadata,
         HasActiveProvenance(p, d, day, <<article, paragraph>>)
  PROVE  \E x \in ActiveProvisions(p, who, day, docs) :
           Place[x].doc = d /\ Place[x].locator = <<article, paragraph>>
<1>1. d \in Readable(p, who, docs)
  BY DEF ScopeDocuments
<1>2. PICK x \in ParagraphsOn(p, d, day) : Place[x].locator = <<article, paragraph>>
  BY DEF HasActiveProvenance, Locators
<1>3. Place[x].doc = d
  BY PolicyAssumption DEF ParagraphsOn, EffectiveVersions
<1>4. x \in ActiveProvisions(p, who, day, docs)
  BY <1>1 DEF ActiveProvisions
<1>. QED  BY <1>2, <1>3, <1>4

(***************************************************************************)
(* Traversal                                                               *)
(***************************************************************************)

\* The scope in use is the one the request asks for over its publication.
ScopeIsCompiled ==
  phase \in {"edges", "hops", "search", "done"} => scope = Compiled(scope.publication)

\* Nothing is verified, queued or selected that is not in scope.
WithinScope ==
  /\ verified \subseteq scope.edges
  /\ \A entry \in queue : entry[1] \in scope.nodes
  /\ selected \subseteq scope.nodes

\* Nothing of it before the scope is compiled or Neo4j is asked.
Untried ==
  /\ phase \in {"idle", "compile"} => queue = {} /\ selected = {}
  /\ phase \in {"idle", "compile", "edges"} => verified = {} /\ received = {}

\* Edges are canonical as a whole, or all returned by Neo4j.
OneOrigin ==
  /\ phase = "hops" => verified \subseteq received
  /\ received # {} => verified \subseteq received

GraphInv == ScopeIsCompiled /\ WithinScope /\ Untried /\ OneOrigin

LEMMA InitGraphInv == Init => GraphInv
  BY DEF Init, GraphInv, ScopeIsCompiled, WithinScope, Untried, OneOrigin

LEMMA CompiledRecord ==
  ASSUME NEW p
  PROVE  Compiled(p).publication = p
  BY DEF Compiled, AccessScope

LEMMA CompileScopeKeeps == GraphInv /\ CompileScope => GraphInv'
<1>. SUFFICES ASSUME GraphInv, CompileScope PROVE GraphInv'
  OBVIOUS
<1>. DEFINE shown == Shown(Compiled(snapshot))
<1>1. PICK ids \in SUBSET shown : queue' = ids \X {0}
  BY DEF CompileScope
<1>2. /\ phase = "compile" /\ phase' = "edges"
      /\ scope' = Compiled(snapshot)
      /\ UNCHANGED <<ask, base, verified, received, selected>>
  BY DEF CompileScope, Goto
<1>3. ScopeIsCompiled'
  BY <1>2, CompiledRecord DEF ScopeIsCompiled, Compiled
<1>4. verified = {} /\ received = {} /\ selected = {}
  BY <1>2 DEF GraphInv, Untried
<1>5. \A entry \in queue' : entry[1] \in scope'.nodes
  BY <1>1, <1>2 DEF Shown
<1>. QED
  BY <1>2, <1>3, <1>4, <1>5 DEF GraphInv, WithinScope, Untried, OneOrigin

LEMMA HopKeeps == ASSUME NEW current PROVE GraphInv /\ Hop(current) => GraphInv'
<1>. SUFFICES ASSUME GraphInv, Hop(current) PROVE GraphInv'
  OBVIOUS
<1>. DEFINE candidates == CandidateEdges(current, budget)
            rows == OneHop(current, candidates, budget)
            accepted == VerifyRows(rows, candidates)
<1>1. /\ phase = "hops" /\ phase' = "hops"
      /\ verified' = verified \cup accepted
      /\ received' = received \cup rows
      /\ UNCHANGED <<ask, scope, queue, selected>>
  BY DEF Hop, search
<1>2. accepted \subseteq rows /\ accepted \subseteq scope.edges
  BY DEF VerifyRows, CandidateEdges, First, OfTypes
<1>3. ScopeIsCompiled'
  BY <1>1 DEF GraphInv, ScopeIsCompiled, Compiled
<1>4. WithinScope'
  BY <1>1, <1>2 DEF GraphInv, WithinScope
<1>5. OneOrigin'
  BY <1>1, <1>2 DEF GraphInv, OneOrigin
<1>. QED
  BY <1>1, <1>3, <1>4, <1>5 DEF GraphInv, Untried

LEMMA VisitKeeps == ASSUME NEW entry PROVE GraphInv /\ Visit(entry) => GraphInv'
<1>. SUFFICES ASSUME GraphInv, Visit(entry) PROVE GraphInv'
  OBVIOUS
<1>. DEFINE found == IF Expands(entry)
                     THEN (Neighbours(entry[1], verified) \cap Shown(scope))
                            \ (selected \cup {entry[1]})
                     ELSE {}
<1>1. /\ phase = "search" /\ phase' = "search"
      /\ entry \in queue
      /\ selected' = selected \cup {entry[1]}
      /\ queue' = (queue \ {entry}) \cup (found \X {entry[2] + 1})
      /\ UNCHANGED <<ask, scope, verified, received>>
  BY DEF Visit, runtime
<1>2. found \subseteq scope.nodes
  BY DEF Shown
<1>3. \A other \in queue' : other[1] \in scope.nodes
  BY <1>1, <1>2 DEF GraphInv, WithinScope
<1>4. WithinScope'
  BY <1>1, <1>3 DEF GraphInv, WithinScope
<1>5. ScopeIsCompiled'
  BY <1>1 DEF GraphInv, ScopeIsCompiled, Compiled
<1>. QED
  BY <1>1, <1>4, <1>5 DEF GraphInv, Untried, OneOrigin

\* What GraphInv reads.
observed == <<phase, ask, scope, verified, received, queue, selected>>

LEMMA UnchangedKeeps == GraphInv /\ UNCHANGED observed => GraphInv'
  BY DEF observed, GraphInv, ScopeIsCompiled, Compiled, WithinScope, Untried, OneOrigin

\* Neither changes around the request nor its remaining steps let in an edge
\* or a node from outside its scope.
LEMMA NextKeeps == GraphInv /\ [Next]_vars => GraphInv'
<1>. SUFFICES ASSUME GraphInv, [Next]_vars PROVE GraphInv'
  OBVIOUS
<1>. USE DEF GraphInv, ScopeIsCompiled, Compiled, WithinScope, Untried, OneOrigin
<1>1. ASSUME NEW r \in Requests, BeginSubgraph(r) PROVE GraphInv'
  BY <1>1 DEF BeginSubgraph, Goto, runtime, search
<1>2. CASE CompileScope
  BY <1>2, CompileScopeKeeps
<1>3. CASE UseCanonicalEdges
  BY <1>3 DEF UseCanonicalEdges, Goto, search, OfTypes
<1>4. CASE AskStatus
  BY <1>4 DEF AskStatus, Goto, runtime, search
<1>5. CASE RuntimeStep
  <2>1. PICK current : Hop(current) \/ HopFails(current) \/ EndHops(current)
    BY <1>5 DEF RuntimeStep
  <2>2. CASE Hop(current)
    BY <2>2, HopKeeps
  <2>3. CASE HopFails(current)
    BY <2>3 DEF HopFails, Goto, runtime, search
  <2>4. CASE EndHops(current)
    BY <2>4 DEF EndHops, Goto, runtime, search
  <2>. QED  BY <2>1, <2>2, <2>3, <2>4
<1>6. ASSUME NEW entry \in queue, Visit(entry) PROVE GraphInv'
  BY <1>6, VisitKeeps
<1>7. ASSUME NEW entry \in queue, VisitAgain(entry) PROVE GraphInv'
  BY <1>7 DEF VisitAgain, runtime
<1>8. ASSUME NEW entry \in queue, Truncate(entry) PROVE GraphInv'
  BY <1>8 DEF Truncate, Goto, runtime
<1>9. CASE EndSearch
  BY <1>9 DEF EndSearch, Goto, runtime, search
<1>10. CASE Environment
  <2>1. Change
    BY <1>10 DEF Environment, AssignSnapshot, ReplaceProjection, AlterRow, LoseNeo4j
  <2>2. UNCHANGED observed
    BY <2>1 DEF Change, observed, runtime, search
  <2>. QED  BY <2>2, UnchangedKeeps
<1>11. CASE UNCHANGED vars
  <2>1. UNCHANGED observed
    BY <1>11 DEF vars, observed, runtime, search
  <2>. QED  BY <2>1, UnchangedKeeps
<1>. QED
  BY <1>1, <1>2, <1>3, <1>4, <1>5, <1>6, <1>7, <1>8, <1>9, <1>10, <1>11
  DEF Next, Subgraph

LEMMA GraphInvImplies == GraphInv => OnlyApprovedEdges
  BY DEF GraphInv, ScopeIsCompiled, WithinScope, OneOrigin, OnlyApprovedEdges, SelectedEdges

\* Whatever Neo4j holds and whenever it, the snapshot or the projection is
\* changed, subgraph shows only nodes and edges in scope.
THEOREM ApprovedEdgesOnly == Spec => []OnlyApprovedEdges
<1>1. Init => GraphInv
  BY InitGraphInv
<1>2. GraphInv /\ [Next]_vars => GraphInv'
  BY NextKeeps
<1>3. GraphInv => OnlyApprovedEdges
  BY GraphInvImplies
<1>. QED  BY <1>1, <1>2, <1>3, PTL DEF Spec

(***************************************************************************)
(* Numbers and finite sets                                                 *)
(***************************************************************************)

\* Some member of a family of subsets of a finite set has none below it.
LEMMA MinimalSubset ==
  ASSUME NEW S, IsFiniteSet(S), NEW T, T \subseteq SUBSET S, T # {}
  PROVE  \E m \in T : \A n \in T : n \subseteq m => n = m
<1>. DEFINE R == StrictSubsetOrdering(S)
<1>1. FiniteSubsetsOf(S) = SUBSET S
  BY FS_FiniteSubsetsOfFinite
<1>2. IsWellFoundedOn(R, SUBSET S)
  BY <1>1, FS_StrictSubsetOrderingWellFounded
<1>3. PICK m \in T : \A n \in T : ~ (<<n, m>> \in R)
  <2>. HIDE DEF R
  <2>. QED  BY <1>2, WFMin
<1>. QED  BY <1>3 DEF StrictSubsetOrdering

\* Every set of numbers has a least one.
LEMMA LeastExists ==
  ASSUME NEW S, S \subseteq Nat, S # {}
  PROVE  \E n \in S : \A m \in S : n <= m
<1>1. PICK s \in S : s \in Nat
  OBVIOUS
<1>. DEFINE below(x) == {z \in S : z < x}
            T == {below(x) : x \in {z \in S : z <= s}}
            range == 0 .. s
<1>2. IsFiniteSet(range)
  BY <1>1, FS_Interval
<1>3. T \subseteq SUBSET range /\ T # {}
  <2>1. ASSUME NEW x \in S, x <= s PROVE below(x) \subseteq range
    <3>. SUFFICES ASSUME NEW w \in S, w < x PROVE w \in range
      OBVIOUS
    <3>1. w \in Nat /\ x \in Nat
      OBVIOUS
    <3>. QED  BY <1>1, <2>1, <3>1
  <2>. HIDE DEF range, below
  <2>. QED  BY <1>1, <2>1
<1>4. PICK m \in T : \A n \in T : n \subseteq m => n = m
  <2>. HIDE DEF T, range
  <2>. QED  BY <1>2, <1>3, MinimalSubset
<1>5. PICK x \in S : x <= s /\ m = below(x)
  OBVIOUS
<1>6. ASSUME NEW z \in S, z < x PROVE FALSE
  <2>1. z \in Nat /\ x \in Nat /\ z <= s
    BY <1>1, <1>5, <1>6
  <2>2. below(z) \in T
    BY <2>1
  <2>3. below(z) \subseteq below(x)
    <3>. SUFFICES ASSUME NEW w \in S, w < z PROVE w < x
      OBVIOUS
    <3>. QED  BY <1>6, <2>1
  <2>4. z \in below(x) /\ z \notin below(z)
    BY <1>6, <2>1
  <2>. QED  BY <1>4, <1>5, <2>2, <2>3, <2>4
<1>. QED  BY <1>6

\* Induction, over a set of numbers.
LEMMA SetInduction ==
  ASSUME NEW S, 0 \in S, \A k \in Nat : k \in S => k + 1 \in S
  PROVE  Nat \subseteq S
<1>. SUFFICES ASSUME Nat \ S # {} PROVE FALSE
  OBVIOUS
<1>1. PICK n \in Nat \ S : \A m \in Nat \ S : n <= m
  <2>. DEFINE outside == Nat \ S
  <2>1. outside \subseteq Nat /\ outside # {}
    OBVIOUS
  <2>. HIDE DEF outside
  <2>2. \E n \in outside : \A m \in outside : n <= m
    BY <2>1, LeastExists
  <2>. QED  BY <2>2 DEF outside
<1>2. n # 0 /\ n - 1 \in Nat
  BY <1>1
<1>3. n - 1 \in S
  BY <1>1, <1>2
<1>4. (n - 1) + 1 \in S
  BY <1>2, <1>3
<1>. QED  BY <1>1, <1>4

(***************************************************************************)
(* The first edges                                                         *)
(***************************************************************************)

\* Edges as one publication has them: ids tell them apart.
Listed(es) ==
  /\ IsFiniteSet(es) /\ \A e \in es : e.id \in Nat
  /\ \A e, f \in es : e.id = f.id => e = f

LEMMA ListedSubset == ASSUME NEW es, Listed(es), NEW fs, fs \subseteq es PROVE Listed(fs)
  BY FS_Subset DEF Listed

\* A limit is kept.
LEMMA FirstAtMost ==
  ASSUME NEW k \in Nat, NEW es, Listed(es)
  PROVE  /\ IsFiniteSet(First(k, es)) /\ Cardinality(First(k, es)) \in Nat
         /\ Cardinality(First(k, es)) <= k
<1>. DEFINE taken == First(k, es)
            after(e) == {f \in taken : f.id > e.id}
            before(e) == {f \in es : f.id < e.id}
            T == {after(e) : e \in taken}
<1>1. taken \subseteq es
  BY DEF First
<1>2. IsFiniteSet(taken) /\ Cardinality(taken) \in Nat
  BY <1>1, FS_Subset, FS_CardinalityType DEF Listed
<1>3. CASE taken = {}
  BY <1>2, <1>3, FS_EmptySet
<1>4. CASE taken # {}
  <2>1. T \subseteq SUBSET taken /\ T # {}
    BY <1>4
  <2>2. PICK m \in T : \A n \in T : n \subseteq m => n = m
    <3>. HIDE DEF T, taken
    <3>. QED  BY <1>2, <2>1, MinimalSubset
  <2>3. PICK e \in taken : m = after(e)
    BY <2>2
  <2>4. ASSUME NEW f \in after(e) PROVE FALSE
    <3>. HIDE DEF taken
    <3>1. f \in taken /\ f.id \in Nat /\ e.id \in Nat /\ f.id > e.id
      BY <1>1, <2>3, <2>4 DEF Listed
    <3>2. \A g \in taken : g.id \in Nat
      BY <1>1 DEF Listed
    <3>3. after(f) \subseteq after(e) /\ f \notin after(f)
      BY <3>1, <3>2
    <3>. QED  BY <2>2, <2>3, <2>4, <3>1, <3>3
  <2>5. taken \ {e} \subseteq before(e)
    <3>. SUFFICES ASSUME NEW f \in taken, f # e PROVE f \in before(e)
      OBVIOUS
    <3>1. f \in es /\ e \in es /\ f.id \in Nat /\ e.id \in Nat /\ f.id # e.id
      BY <1>1, <2>3 DEF Listed
    <3>2. ~ (f.id > e.id)
      BY <2>4
    <3>. QED  BY <3>1, <3>2
  <2>6. IsFiniteSet(before(e))
    BY FS_Subset DEF Listed
  <2>7. Cardinality(before(e)) < k
    BY <2>3 DEF First
  <2>. HIDE DEF taken, before
  <2>8. Cardinality(taken \ {e}) = Cardinality(taken) - 1
    BY <1>2, <2>3, FS_RemoveElement
  <2>9. Cardinality(taken \ {e}) <= Cardinality(before(e))
    BY <2>5, <2>6, FS_Subset
  <2>10. Cardinality(before(e)) \in Nat
    BY <2>6, FS_CardinalityType
  <2>11. Cardinality(taken) <= k
    BY <1>2, <2>7, <2>8, <2>9, <2>10
  <2>. QED  BY <1>2, <2>11 DEF taken
<1>. QED  BY <1>2, <1>3, <1>4

\* A limit that is not reached leaves nothing out.
LEMMA FirstBelowLimit ==
  ASSUME NEW k \in Nat, NEW es, Listed(es), Cardinality(First(k, es)) < k
  PROVE  First(k, es) = es
<1>. DEFINE taken == First(k, es)
            before(e) == {f \in es : f.id < e.id}
            left == {f \in es \ taken : TRUE}
            ids == {f.id : f \in left}
<1>1. taken \subseteq es
  BY DEF First
<1>. SUFFICES ASSUME left # {} PROVE FALSE
  BY <1>1
<1>2. ids \subseteq Nat /\ ids # {}
  BY DEF Listed
<1>3. PICK n \in ids : \A m \in ids : n <= m
  <2>. HIDE DEF ids
  <2>. QED  BY <1>2, LeastExists
<1>4. PICK e \in left : n = e.id
  BY <1>3
<1>5. before(e) \subseteq taken
  <2>. SUFFICES ASSUME NEW f \in es, f.id < e.id, f \notin taken PROVE FALSE
    OBVIOUS
  <2>1. f.id \in ids /\ f.id \in Nat /\ e.id \in Nat
    BY <1>4 DEF Listed
  <2>. QED  BY <1>3, <1>4, <2>1
<1>6. IsFiniteSet(taken) /\ Cardinality(taken) \in Nat
  BY FirstAtMost
<1>7. Cardinality(before(e)) <= Cardinality(taken) /\ Cardinality(before(e)) \in Nat
  <2>. HIDE DEF taken, before
  <2>. QED  BY <1>5, <1>6, FS_Subset, FS_CardinalityType
<1>8. Cardinality(before(e)) < k
  BY <1>6, <1>7
<1>. QED  BY <1>4, <1>8 DEF First

(***************************************************************************)
(* Types                                                                   *)
(***************************************************************************)

\* Before the scope is compiled nothing of a request is left.
Blank ==
  phase \in {"idle", "compile"} => frontier = {} /\ queried = {} /\ hop = 0 /\ budget = 0

GraphTypeInv == GraphTypeOK /\ Blank

LEMMA InitGraphTypes == Init => GraphTypeInv
<1>. SUFFICES ASSUME Init PROVE GraphTypeInv
  OBVIOUS
<1>1. ask \in Request
  <2>1. PICK from \in Requesters : TRUE
    BY GraphAssumption
  <2>. DEFINE blank == [seeds |-> {}, depth |-> 1, max |-> 1, types |-> {},
                        from |-> from, docs |-> Unrestricted]
  <2>2. 1 \in 1 .. MaxDepth /\ 1 \in 1 .. MaxNodes
    BY GraphAssumption
  <2>3. blank \in Request /\ blank.seeds = {} /\ blank.docs = Unrestricted
    BY <2>2 DEF Request, Restriction
  <2>. QED  BY <2>3 DEF Init
<1>2. /\ EdgeBudget \in Nat /\ MaxDepth \in Nat
      /\ 0 \in 0 .. EdgeBudget /\ 0 \in 0 .. MaxDepth
  BY GraphAssumption
<1>3. scope \in GraphAccessScope
  BY GraphAssumption DEF Init, GraphAccessScope
<1>4. \A p \in Pub : stored[p] \subseteq Edge \cup Altered
  BY GraphAssumption DEF Init
<1>5. snapshot \in Pub /\ watermark \in Pub /\ base \in Pub
  BY GraphAssumption DEF Init
<1>. QED
  BY <1>1, <1>2, <1>3, <1>4, <1>5 DEF Init, GraphTypeInv, GraphTypeOK, Blank

\* A publication's scope, of whatever request.
LEMMA CompiledType ==
  ASSUME NEW p \in Pub
  PROVE  /\ Compiled(p) \in GraphAccessScope
         /\ Compiled(p).edges \subseteq Edges[p]
         /\ Compiled(p).nodes \subseteq Nodes(p)
         /\ Listed(Compiled(p).edges)
<1>. DEFINE sc == Compiled(p)
<1>1. sc.documents \subseteq Docs(p) /\ sc.edges \subseteq Edges[p] /\ sc.nodes \subseteq Nodes(p)
  BY DEF Compiled, AccessScope, ScopeDocuments, Readable, AskedFor
<1>2. Docs(p) \subseteq Doc /\ Edges[p] \subseteq Edge /\ Nodes(p) \subseteq Node
  BY PolicyAssumption, GraphAssumption DEF Docs, Nodes
<1>3. sc = [publication |-> sc.publication, documents |-> sc.documents,
            nodes |-> sc.nodes, edges |-> sc.edges]
      /\ sc.publication = p
  BY DEF Compiled, AccessScope
<1>4. Listed(Edges[p])
  BY GraphAssumption DEF Listed, EdgeRecord
<1>5. Listed(sc.edges)
  BY <1>1, <1>4, ListedSubset
<1>. HIDE DEF sc
<1>6. sc \in GraphAccessScope
  BY <1>1, <1>2, <1>3 DEF GraphAccessScope
<1>. QED  BY <1>1, <1>5, <1>6 DEF sc

LEMMA LeastIs ==
  ASSUME NEW ns, ns \subseteq Nat, ns # {}
  PROVE  Least(ns) \in ns /\ \A n \in ns : Least(ns) <= n
  BY LeastExists DEF Least

LEMMA CompileScopeTypes == GraphTypeInv /\ CompileScope => GraphTypeInv'
<1>. SUFFICES ASSUME GraphTypeInv, CompileScope PROVE GraphTypeInv'
  OBVIOUS
<1>. DEFINE limits == {EdgeBudget, ask.max * EdgesPerNode}
<1>1. PICK ids \in SUBSET Shown(Compiled(snapshot)) :
        initial' = ids /\ frontier' = ids /\ queue' = ids \X {0}
  BY DEF CompileScope
<1>2. /\ phase = "compile" /\ phase' = "edges" /\ scope' = Compiled(snapshot)
      /\ budget' = Least(limits)
      /\ UNCHANGED <<snapshot, stored, watermark, up, ask, base, queried, hop,
                     verified, received, selected, truncated, status>>
  BY DEF CompileScope, Goto, neo4j
<1>3. Compiled(snapshot) \in GraphAccessScope
  BY CompiledType DEF GraphTypeInv, GraphTypeOK
<1>4. ids \subseteq Node
  BY <1>3 DEF GraphAccessScope, Shown
<1>5. budget' \in 0 .. EdgeBudget
  <2>1. EdgeBudget \in Nat /\ EdgesPerNode \in Nat /\ ask.max \in Nat
    BY GraphAssumption DEF GraphTypeInv, GraphTypeOK, Request
  <2>2. ask.max * EdgesPerNode \in Nat
    BY <2>1
  <2>3. limits \subseteq Nat /\ limits # {} /\ EdgeBudget \in limits
    BY <2>1, <2>2
  <2>4. Least(limits) \in limits /\ Least(limits) <= EdgeBudget
    <3>. HIDE DEF limits
    <3>. QED  BY <2>3, LeastIs
  <2>. QED  BY <1>2, <2>1, <2>3, <2>4
<1>6. ask.depth \in Nat
  BY DEF GraphTypeInv, GraphTypeOK, Request
<1>7. queue' \subseteq Node \X (0 .. ask'.depth)
  BY <1>1, <1>2, <1>4, <1>6
<1>8. queried = {}
  BY <1>2 DEF GraphTypeInv, Blank
<1>. QED
  BY <1>1, <1>2, <1>3, <1>4, <1>5, <1>7, <1>8 DEF GraphTypeInv, GraphTypeOK, Blank

LEMMA HopTypes ==
  ASSUME NEW current \in SUBSET (frontier \ queried)
  PROVE  GraphInv /\ GraphTypeInv /\ Hop(current) => GraphTypeInv'
<1>. SUFFICES ASSUME GraphInv, GraphTypeInv, Hop(current) PROVE GraphTypeInv'
  OBVIOUS
<1>. DEFINE touching == {e \in OfTypes(scope.edges) : e.source \in current \/ e.target \in current}
            candidates == CandidateEdges(current, budget)
            rows == OneHop(current, candidates, budget)
            accepted == VerifyRows(rows, candidates)
<1>1. /\ phase = "hops" /\ phase' = "hops" /\ hop < ask.depth
      /\ queried' = queried \cup current
      /\ verified' = verified \cup accepted
      /\ received' = received \cup rows
      /\ frontier' = frontier \cup Reached(current, accepted)
      /\ budget' = budget - Cardinality(accepted)
      /\ hop' = hop + 1
      /\ UNCHANGED <<snapshot, stored, watermark, up, ask, base, scope, initial,
                     queue, selected, truncated, status>>
  BY DEF Hop, MoreHops, neo4j, search
<1>2. /\ candidates = First(budget, touching) /\ touching \subseteq scope.edges
      /\ candidates \subseteq touching /\ accepted \subseteq candidates
      /\ rows \subseteq stored[scope.publication]
  BY DEF CandidateEdges, First, OfTypes, OneHop, VerifyRows
<1>3. scope.publication \in Pub /\ scope.edges \subseteq Edge
  BY DEF GraphTypeInv, GraphTypeOK, GraphAccessScope
<1>4. Listed(scope.edges)
  <2>1. scope = Compiled(scope.publication)
    BY <1>1 DEF GraphInv, ScopeIsCompiled
  <2>. QED  BY <1>3, <2>1, CompiledType
<1>5. Listed(touching)
  BY <1>2, <1>4, ListedSubset
<1>6. budget \in Nat /\ budget <= EdgeBudget /\ EdgeBudget \in Nat
  BY GraphAssumption DEF GraphTypeInv, GraphTypeOK
<1>7. /\ IsFiniteSet(candidates) /\ Cardinality(candidates) \in Nat
      /\ Cardinality(candidates) <= budget
  <2>. HIDE DEF touching, candidates
  <2>. QED  BY <1>2, <1>5, <1>6, FirstAtMost
<1>8. Cardinality(accepted) \in Nat /\ Cardinality(accepted) <= Cardinality(candidates)
  <2>. HIDE DEF candidates, accepted
  <2>. QED  BY <1>2, <1>7, FS_Subset, FS_CardinalityType
<1>9. budget' \in 0 .. EdgeBudget
  BY <1>1, <1>6, <1>7, <1>8
<1>10. hop' \in 0 .. MaxDepth
  <2>1. hop \in Nat /\ ask.depth \in Nat /\ ask.depth <= MaxDepth /\ MaxDepth \in Nat
    BY GraphAssumption DEF GraphTypeInv, GraphTypeOK, Request
  <2>. QED  BY <1>1, <2>1
<1>11. verified' \subseteq Edge /\ accepted \subseteq Edge
  BY <1>1, <1>2, <1>3 DEF GraphTypeInv, GraphTypeOK
<1>12. received' \subseteq Edge \cup Altered
  BY <1>1, <1>2, <1>3 DEF GraphTypeInv, GraphTypeOK
<1>13. Reached(current, accepted) \subseteq Node
  BY <1>11, GraphAssumption DEF Reached, EdgeRecord
<1>. HIDE DEF accepted
<1>14. frontier' \subseteq Node /\ queried' \subseteq frontier' /\ queried' \subseteq Node
  BY <1>1, <1>13 DEF GraphTypeInv, GraphTypeOK
<1>. HIDE DEF rows
<1>. QED
  BY <1>1, <1>9, <1>10, <1>11, <1>12, <1>14 DEF GraphTypeInv, GraphTypeOK, Blank

LEMMA VisitTypes ==
  ASSUME NEW entry \in queue
  PROVE  GraphTypeInv /\ Visit(entry) => GraphTypeInv'
<1>. SUFFICES ASSUME GraphTypeInv, Visit(entry) PROVE GraphTypeInv'
  OBVIOUS
<1>. DEFINE found == IF Expands(entry)
                     THEN (Neighbours(entry[1], verified) \cap Shown(scope))
                            \ (selected \cup {entry[1]})
                     ELSE {}
<1>1. /\ phase = "search"
      /\ selected' = selected \cup {entry[1]}
      /\ queue' = (queue \ {entry}) \cup (found \X {entry[2] + 1})
      /\ UNCHANGED <<phase, snapshot, stored, watermark, up, ask, base, scope, initial,
                     frontier, queried, budget, hop, verified, received, truncated, status>>
  BY DEF Visit, neo4j, runtime
<1>2. entry[1] \in Node /\ entry[2] \in Nat /\ ask.depth \in Nat
  BY DEF GraphTypeInv, GraphTypeOK, Request
<1>3. found \subseteq Node
  BY DEF Shown, GraphTypeInv, GraphTypeOK, GraphAccessScope
<1>4. found # {} => entry[2] + 1 \in 0 .. ask.depth
  BY <1>2 DEF Expands
<1>. HIDE DEF found
<1>5. queue' \subseteq Node \X (0 .. ask'.depth)
  BY <1>1, <1>3, <1>4 DEF GraphTypeInv, GraphTypeOK
<1>. QED
  BY <1>1, <1>2, <1>5 DEF GraphTypeInv, GraphTypeOK, Blank

\* What GraphTypeInv reads.
LEMMA UnchangedTypes ==
  GraphTypeInv /\ snapshot' \in Pub /\ watermark' \in Pub /\ up' \in BOOLEAN
    /\ (\A p \in Pub : stored'[p] \subseteq Edge \cup Altered)
    /\ UNCHANGED <<phase, ask, base, scope, initial, runtime, search, status>>
    => GraphTypeInv'
  BY DEF GraphTypeInv, GraphTypeOK, Blank, runtime, search

LEMMA EnvironmentTypes == GraphTypeInv /\ Environment => GraphTypeInv'
<1>. SUFFICES ASSUME GraphTypeInv, Environment PROVE GraphTypeInv'
  OBVIOUS
<1>1. UNCHANGED <<phase, ask, base, scope, initial, runtime, search, status>>
  BY DEF Environment, AssignSnapshot, ReplaceProjection, AlterRow, LoseNeo4j, Change
<1>2. snapshot' \in Pub /\ watermark' \in Pub /\ up' \in BOOLEAN
  BY DEF Environment, AssignSnapshot, ReplaceProjection, AlterRow, LoseNeo4j, neo4j,
         GraphTypeInv, GraphTypeOK
<1>3. \A q \in Pub : stored[q] \subseteq Edge \cup Altered
  BY DEF GraphTypeInv, GraphTypeOK
<1>4. ASSUME NEW q \in Pub PROVE stored'[q] \subseteq Edge \cup Altered
  <2>1. CASE UNCHANGED stored
    BY <1>3, <2>1
  <2>2. ASSUME NEW p \in Pub, ReplaceProjection(p) PROVE stored'[q] \subseteq Edge \cup Altered
    BY <1>3, <2>2, GraphAssumption DEF ReplaceProjection
  <2>3. ASSUME NEW p \in Pub, NEW r \in Altered, AlterRow(p, r)
        PROVE  stored'[q] \subseteq Edge \cup Altered
    BY <1>3, <2>3 DEF AlterRow
  <2>. QED
    BY <2>1, <2>2, <2>3 DEF Environment, AssignSnapshot, LoseNeo4j, neo4j
<1>. QED  BY <1>1, <1>2, <1>4, UnchangedTypes

LEMMA RequestsTyped == Requests \subseteq Request
  BY GraphAssumption DEF Requests, Request, Restriction

LEMMA NextTypes == GraphInv /\ GraphTypeInv /\ [Next]_vars => GraphTypeInv'
<1>. SUFFICES ASSUME GraphInv, GraphTypeInv, [Next]_vars PROVE GraphTypeInv'
  OBVIOUS
<1>1. ASSUME phase = "idle", NEW r \in Requests, BeginSubgraph(r) PROVE GraphTypeInv'
  <2>1. queue = {}
    BY <1>1 DEF GraphInv, Untried
  <2>2. /\ ask' \in Request /\ base' \in Pub /\ phase' = "compile"
        /\ UNCHANGED <<snapshot, stored, watermark, up, scope, initial, frontier, queried,
                       budget, hop, verified, received, queue, selected, truncated, status>>
    BY <1>1, RequestsTyped DEF BeginSubgraph, Goto, neo4j, runtime, search, GraphTypeInv,
                               GraphTypeOK
  <2>. QED  BY <1>1, <2>1, <2>2 DEF GraphTypeInv, GraphTypeOK, Blank
<1>2. CASE CompileScope
  BY <1>2, CompileScopeTypes
<1>3. CASE UseCanonicalEdges
  <2>1. verified' \subseteq Edge
    BY <1>3 DEF UseCanonicalEdges, OfTypes, GraphTypeInv, GraphTypeOK, GraphAccessScope
  <2>. QED
    BY <1>3, <2>1 DEF UseCanonicalEdges, Goto, neo4j, search, GraphTypeInv, GraphTypeOK, Blank
<1>4. CASE AskStatus
  <2>1. status' \in {"healthy", "stale", "unavailable"} /\ phase' \in {"hops", "search"}
    BY <1>4 DEF AskStatus, ProjectionStatus, Goto
  <2>. QED
    BY <1>4, <2>1 DEF AskStatus, neo4j, runtime, search, GraphTypeInv, GraphTypeOK, Blank
<1>5. CASE RuntimeStep
  <2>1. PICK current \in SUBSET (frontier \ queried) :
          Hop(current) \/ HopFails(current) \/ EndHops(current)
    BY <1>5 DEF RuntimeStep
  <2>2. CASE Hop(current)
    BY <2>2, HopTypes
  <2>3. CASE HopFails(current)
    BY <2>3 DEF HopFails, Goto, neo4j, runtime, search, GraphTypeInv, GraphTypeOK, Blank
  <2>4. CASE EndHops(current)
    BY <2>4 DEF EndHops, Goto, neo4j, runtime, search, GraphTypeInv, GraphTypeOK, Blank
  <2>. QED  BY <2>1, <2>2, <2>3, <2>4
<1>6. ASSUME NEW entry \in queue, Visit(entry) PROVE GraphTypeInv'
  BY <1>6, VisitTypes
<1>7. ASSUME NEW entry \in queue, VisitAgain(entry) PROVE GraphTypeInv'
  BY <1>7 DEF VisitAgain, neo4j, runtime, GraphTypeInv, GraphTypeOK, Blank
<1>8. ASSUME NEW entry \in queue, Truncate(entry) PROVE GraphTypeInv'
  BY <1>8 DEF Truncate, Goto, neo4j, runtime, GraphTypeInv, GraphTypeOK, Blank
<1>9. CASE EndSearch
  BY <1>9 DEF EndSearch, Goto, neo4j, runtime, search, GraphTypeInv, GraphTypeOK, Blank
<1>10. CASE Environment
  BY <1>10, EnvironmentTypes
<1>11. CASE UNCHANGED vars
  <2>1. UNCHANGED <<phase, ask, base, scope, initial, runtime, search, status>>
        /\ snapshot' \in Pub /\ watermark' \in Pub /\ up' \in BOOLEAN /\ stored' = stored
    BY <1>11 DEF vars, neo4j, GraphTypeInv, GraphTypeOK
  <2>2. \A p \in Pub : stored[p] \subseteq Edge \cup Altered
    BY DEF GraphTypeInv, GraphTypeOK
  <2>. QED  BY <2>1, <2>2, UnchangedTypes
<1>. QED
  BY <1>1, <1>2, <1>3, <1>4, <1>5, <1>6, <1>7, <1>8, <1>9, <1>10, <1>11
  DEF Next, Subgraph

\* The budget of _runtime_edges is never overdrawn, nothing is asked for twice,
\* and no node deeper than the request asks for is queued.
THEOREM GraphTypesCorrect == Spec => []GraphTypeOK
<1>1. Spec => [](GraphInv /\ GraphTypeInv)
  BY InitGraphInv, InitGraphTypes, NextKeeps, NextTypes, PTL DEF Spec
<1>2. GraphTypeInv => GraphTypeOK
  BY DEF GraphTypeInv
<1>. QED  BY <1>1, <1>2, PTL

(***************************************************************************)
(* Distances                                                               *)
(***************************************************************************)

\* The nodes at most k edges of es away, for every k.
Layers(es) ==
  LET layer[k \in 0 .. MaxDepth] ==
        IF k = 0 THEN initial ELSE layer[k - 1] \cup Around(layer[k - 1], es)
  IN layer

\* The recursion of Ball is well defined.
LEMMA LayersExist ==
  ASSUME NEW es
  PROVE  Layers(es) = [k \in 0 .. MaxDepth |->
                         IF k = 0 THEN initial
                         ELSE Layers(es)[k - 1] \cup Around(Layers(es)[k - 1], es)]
<1>. DEFINE next(f, k) == IF k = 0 THEN initial ELSE f[k - 1] \cup Around(f[k - 1], es)
            built == {n \in Nat : \E f : f = [k \in 0 .. n |-> next(f, k)]}
<1>1. 0 \in built
  <2>. DEFINE f == [k \in 0 .. 0 |-> initial]
  <2>1. f = [k \in 0 .. 0 |-> next(f, k)]
    OBVIOUS
  <2>. QED  BY <2>1
<1>2. ASSUME NEW n \in Nat, n \in built PROVE n + 1 \in built
  <2>1. PICK f : f = [k \in 0 .. n |-> next(f, k)]
    BY <1>2
  <2>. DEFINE g == [k \in 0 .. n + 1 |-> IF k = n + 1 THEN next(f, k) ELSE f[k]]
  <2>2. ASSUME NEW k \in 0 .. n + 1 PROVE g[k] = next(g, k)
    <3>1. CASE k = 0
      <4>1. k \in 0 .. n /\ k # n + 1
        BY <3>1
      <4>2. f[k] = next(f, k)
        BY <2>1, <4>1
      <4>. QED  BY <3>1, <4>1, <4>2
    <3>2. CASE k # 0 /\ k # n + 1
      <4>1. k \in 0 .. n /\ k - 1 \in 0 .. n + 1 /\ k - 1 # n + 1
        BY <3>2
      <4>2. g[k - 1] = f[k - 1] /\ g[k] = f[k]
        BY <3>2, <4>1
      <4>3. f[k] = next(f, k)
        BY <2>1, <4>1
      <4>. HIDE DEF g
      <4>. QED  BY <3>2, <4>2, <4>3
    <3>3. CASE k = n + 1
      <4>1. k - 1 \in 0 .. n + 1 /\ k - 1 # n + 1 /\ k # 0
        BY <3>3
      <4>2. g[k - 1] = f[k - 1] /\ g[k] = next(f, k)
        BY <3>3, <4>1
      <4>. HIDE DEF g
      <4>. QED  BY <4>1, <4>2
    <3>. QED  BY <3>1, <3>2, <3>3
  <2>3. g = [k \in 0 .. n + 1 |-> next(g, k)]
    <3>1. g = [k \in 0 .. n + 1 |-> g[k]]
      OBVIOUS
    <3>. HIDE DEF g, next
    <3>. QED  BY <2>2, <3>1
  <2>. HIDE DEF g, next
  <2>. QED  BY <2>3
<1>3. MaxDepth \in built
  <2>. HIDE DEF built
  <2>. QED  BY <1>1, <1>2, SetInduction, GraphAssumption
<1>4. PICK f : f = [k \in 0 .. MaxDepth |-> next(f, k)]
  BY <1>3
<1>. QED  BY <1>4 DEF Layers

LEMMA BallIsLayer ==
  ASSUME NEW es
  PROVE  Ball(es) = Layers(es)[ask.depth]
  BY DEF Ball, Layers

LEMMA LayersStep ==
  ASSUME NEW es
  PROVE  /\ Layers(es)[0] = initial
         /\ \A k \in 0 .. MaxDepth - 1 :
              Layers(es)[k + 1] = Layers(es)[k] \cup Around(Layers(es)[k], es)
<1>. DEFINE L == Layers(es)
<1>1. L = [k \in 0 .. MaxDepth |-> IF k = 0 THEN initial ELSE L[k - 1] \cup Around(L[k - 1], es)]
  BY LayersExist
<1>2. MaxDepth \in Nat \ {0}
  BY GraphAssumption
<1>. HIDE DEF L
<1>3. L[0] = initial
  BY <1>1, <1>2
<1>4. ASSUME NEW k \in 0 .. MaxDepth - 1 PROVE L[k + 1] = L[k] \cup Around(L[k], es)
  <2>1. k + 1 \in 0 .. MaxDepth /\ k + 1 # 0 /\ (k + 1) - 1 = k
    BY <1>2
  <2>. QED  BY <1>1, <2>1
<1>. QED  BY <1>3, <1>4 DEF L

StartsAtSeeds == Layers(verified)[0] = initial

LEMMA NearestLayer == StartsAtSeeds
  BY LayersStep DEF StartsAtSeeds

LEMMA NearestLayerPrimed == StartsAtSeeds'
  BY NearestLayer, PTL

\* Farther layers hold the nearer ones.
LEMMA LayersGrow ==
  ASSUME NEW es, NEW k \in 0 .. MaxDepth, NEW j \in 0 .. k
  PROVE  Layers(es)[j] \subseteq Layers(es)[k]
<1>. DEFINE L == Layers(es)
            grown == {n \in Nat : n <= MaxDepth => \A i \in 0 .. n : L[i] \subseteq L[n]}
<1>1. MaxDepth \in Nat /\ k \in Nat /\ k <= MaxDepth
  BY GraphAssumption
<1>2. 0 \in grown
  OBVIOUS
<1>3. ASSUME NEW n \in Nat, n \in grown PROVE n + 1 \in grown
  <2>. SUFFICES ASSUME n + 1 <= MaxDepth, NEW i \in 0 .. n + 1
                PROVE  L[i] \subseteq L[n + 1]
    OBVIOUS
  <2>1. n \in 0 .. MaxDepth - 1 /\ n <= MaxDepth
    BY <1>1
  <2>2. L[n] \subseteq L[n + 1]
    BY <2>1, LayersStep
  <2>3. i = n + 1 \/ i \in 0 .. n
    OBVIOUS
  <2>4. i \in 0 .. n => L[i] \subseteq L[n]
    BY <1>3, <2>1
  <2>. HIDE DEF L
  <2>. QED  BY <2>2, <2>3, <2>4
<1>4. k \in grown
  <2>. HIDE DEF grown
  <2>. QED  BY <1>1, <1>2, <1>3, SetInduction
<1>. QED  BY <1>1, <1>4

\* Of one layer the next has every neighbour that is shown.
LEMMA AroundOne ==
  ASSUME NEW from, NEW es, NEW m \in Around(from, es)
  PROVE  \E n \in from : m \in Around({n}, es)
  BY DEF Around

(***************************************************************************)
(* The search                                                              *)
(***************************************************************************)

\* Until the search the queue has the seeds, and nothing is selected.
Seeded == phase \in {"edges", "hops"} => queue = initial \X {0} /\ selected = {}

\* A flag is raised at the end, with the limit reached.
Flagged ==
  /\ IsFiniteSet(selected) /\ Cardinality(selected) <= ask.max
  /\ truncated => phase = "done" /\ Cardinality(selected) = ask.max

\* What is queued at a depth is at most that far away.
QueuedWithin ==
  /\ \A entry \in queue : entry[1] \in Layers(verified)[entry[2]]
  /\ selected \subseteq Layers(verified)[ask.depth]

\* Seeds and the neighbours of what is selected are selected or queued, no
\* deeper than they have to be.
Kept(n, k) == n \in selected \/ \E j \in 0 .. k : <<n, j>> \in queue

NothingLost ==
  /\ \A n \in initial : Kept(n, 0)
  /\ \A k \in 0 .. ask.depth - 1 : \A n \in selected \cap Layers(verified)[k] :
       \A m \in Around({n}, verified) : Kept(m, k + 1)

Finished == truncated \/ selected = Layers(verified)[ask.depth]

SearchInv ==
  /\ Seeded /\ Flagged
  /\ phase = "search" => QueuedWithin /\ NothingLost
  /\ phase = "done" => Finished

LEMMA InitSearchInv == Init => SearchInv
<1>. SUFFICES ASSUME Init PROVE SearchInv
  OBVIOUS
<1>1. ask.max \in Nat
  BY InitGraphTypes DEF GraphTypeInv, GraphTypeOK, Request
<1>. QED
  BY <1>1, FS_EmptySet DEF Init, SearchInv, Seeded, Flagged

\* What is near and not selected waits behind something no deeper.
LEMMA Pending ==
  ASSUME GraphTypeInv, NothingLost,
         NEW k \in 0 .. ask.depth, NEW n \in Layers(verified)[k], n \notin selected
  PROVE  \E j \in 0 .. k, m \in Node : <<m, j>> \in queue
<1>. DEFINE L == Layers(verified)
            waits(i) == \E j \in 0 .. i, m \in Node : <<m, j>> \in queue
            done == {i \in Nat : i <= ask.depth => L[i] \subseteq selected \/ waits(i)}
<1>1. /\ ask.depth \in Nat /\ ask.depth <= MaxDepth /\ MaxDepth \in Nat
      /\ queue \subseteq Node \X (0 .. ask.depth)
  BY GraphAssumption DEF GraphTypeInv, GraphTypeOK, Request
<1>2. \A i \in Nat : \A m : Kept(m, i) => m \in selected \/ waits(i)
  BY <1>1 DEF Kept
<1>3. 0 \in done
  <2>1. L[0] = initial
    BY LayersStep
  <2>. QED  BY <1>2, <2>1 DEF NothingLost
<1>4. ASSUME NEW i \in Nat, i \in done PROVE i + 1 \in done
  <2>. SUFFICES ASSUME i + 1 <= ask.depth, NEW m \in L[i + 1], m \notin selected
                PROVE  waits(i + 1)
    OBVIOUS
  <2>1. i \in 0 .. ask.depth - 1 /\ i \in 0 .. MaxDepth - 1 /\ i <= ask.depth
    BY <1>1
  <2>2. CASE waits(i)
    BY <2>1, <2>2
  <2>3. CASE ~ waits(i)
    <3>1. L[i] \subseteq selected
      BY <1>4, <2>1, <2>3
    <3>2. L[i + 1] = L[i] \cup Around(L[i], verified)
      BY <2>1, LayersStep
    <3>3. m \in Around(L[i], verified)
      BY <3>1, <3>2
    <3>4. PICK p \in L[i] : m \in Around({p}, verified)
      <4>. HIDE DEF L
      <4>. QED  BY <3>3, AroundOne
    <3>5. Kept(m, i + 1)
      BY <2>1, <3>1, <3>4 DEF NothingLost
    <3>. QED  BY <1>2, <3>5
  <2>. QED  BY <2>2, <2>3
<1>5. k \in Nat /\ k <= ask.depth
  BY <1>1
<1>6. k \in done
  <2>. HIDE DEF done
  <2>. QED  BY <1>3, <1>4, <1>5, SetInduction
<1>. QED  BY <1>5, <1>6

LEMMA LayersKept ==
  ASSUME UNCHANGED <<base, scope, initial, verified>>
  PROVE  /\ Layers(verified)' = Layers(verified)
         /\ \A from : Around(from, verified)' = Around(from, verified)
  BY DEF Layers, Around, Shown, Nodes

LEMMA VisitSearches ==
  ASSUME NEW entry \in queue
  PROVE  GraphTypeInv /\ SearchInv /\ Visit(entry) => SearchInv'
<1>. SUFFICES ASSUME GraphTypeInv, SearchInv, Visit(entry) PROVE SearchInv'
  OBVIOUS
<1>. DEFINE n == entry[1]
            d == entry[2]
            found == IF Expands(entry)
                     THEN (Neighbours(n, verified) \cap Shown(scope)) \ (selected \cup {n})
                     ELSE {}
            L == Layers(verified)
<1>1. /\ phase = "search" /\ phase' = "search"
      /\ ComesFirst(entry) /\ n \notin selected /\ Cardinality(selected) < ask.max
      /\ selected' = selected \cup {n}
      /\ queue' = (queue \ {entry}) \cup (found \X {d + 1})
      /\ UNCHANGED <<ask, base, scope, initial, verified, truncated>>
  BY DEF Visit, runtime
<1>2. /\ ask.depth \in Nat /\ ask.depth <= MaxDepth /\ MaxDepth \in Nat /\ ask.max \in Nat
      /\ queue \subseteq Node \X (0 .. ask.depth)
  BY GraphAssumption DEF GraphTypeInv, GraphTypeOK, Request
<1>3. entry = <<n, d>> /\ n \in Node /\ d \in Nat /\ d <= ask.depth
  BY <1>2
<1>4. QueuedWithin /\ NothingLost
  BY <1>1 DEF SearchInv
<1>5. /\ Layers(verified)' = L
      /\ \A from : Around(from, verified)' = Around(from, verified)
  BY <1>1, LayersKept
<1>6. n \in L[d]
  BY <1>4 DEF QueuedWithin
<1>7. Expands(entry) <=> d < ask.depth
  BY DEF Expands
<1>8. d < ask.depth => found \subseteq L[d + 1]
  <2>. SUFFICES ASSUME d < ask.depth PROVE found \subseteq L[d + 1]
    OBVIOUS
  <2>1. d \in 0 .. MaxDepth - 1
    BY <1>2, <1>3
  <2>2. L[d + 1] = L[d] \cup Around(L[d], verified)
    BY <2>1, LayersStep
  <2>. HIDE DEF L
  <2>3. found \subseteq Around(L[d], verified)
    BY <1>6 DEF Neighbours, Reached, Around
  <2>. QED  BY <2>2, <2>3
<1>9. QueuedWithin'
  <2>1. L[d] \subseteq L[ask.depth]
    BY <1>2, <1>3, LayersGrow
  <2>2. ASSUME NEW other \in queue' PROVE other[1] \in L[other[2]]
    <3>1. CASE other \in queue
      BY <1>4, <3>1 DEF QueuedWithin
    <3>2. CASE other \in found \X {d + 1}
      <4>1. other[1] \in found /\ other[2] = d + 1
        BY <3>2
      <4>2. d < ask.depth
        BY <1>7, <4>1
      <4>. HIDE DEF L, found
      <4>. QED  BY <1>8, <4>1, <4>2
    <3>. QED  BY <1>1, <2>2, <3>1, <3>2
  <2>. HIDE DEF L, n, d
  <2>3. selected' \subseteq L[ask.depth]
    BY <1>1, <1>4, <1>6, <2>1 DEF QueuedWithin, L
  <2>. QED  BY <1>1, <1>5, <2>2, <2>3 DEF QueuedWithin
<1>10. ASSUME NEW m, NEW k \in Nat, Kept(m, k) PROVE Kept(m, k)'
  BY <1>1, <1>3, <1>10 DEF Kept
<1>11. ASSUME NEW k \in 0 .. ask.depth - 1, n \in L[k], NEW m \in Around({n}, verified)
       PROVE  Kept(m, k + 1)'
  <2>1. k \in 0 .. ask.depth /\ k \in Nat /\ k < ask.depth
    BY <1>2
  <2>2. PICK j \in 0 .. k, p \in Node : <<p, j>> \in queue
    BY <1>1, <1>4, <1>11, <2>1, Pending
  <2>3. d <= j
    BY <1>1, <2>2 DEF ComesFirst
  <2>4. d <= k /\ Expands(entry) /\ d + 1 \in 0 .. k + 1
    <3>1. d \in Nat /\ j \in Nat /\ ask.depth \in Nat
      BY <1>2, <1>3
    <3>. HIDE DEF d
    <3>. QED  BY <1>7, <2>1, <2>2, <2>3, <3>1
  <2>5. m = n \/ m \in Neighbours(n, verified) \cap Shown(scope)
    <3>. HIDE DEF n
    <3>. QED  BY <1>11 DEF Around, Neighbours, Reached
  <2>6. CASE m \in selected'
    BY <2>6 DEF Kept
  <2>7. CASE m \notin selected'
    <3>1. m \in found
      BY <1>1, <2>4, <2>5, <2>7
    <3>. HIDE DEF found
    <3>2. <<m, d + 1>> \in queue'
      BY <1>1, <3>1
    <3>. QED  BY <2>4, <3>2 DEF Kept
  <2>. QED  BY <2>6, <2>7
<1>12. NothingLost'
  <2>1. \A i \in initial' : Kept(i, 0)'
    BY <1>1, <1>4, <1>10 DEF NothingLost
  <2>2. ASSUME NEW k \in 0 .. ask.depth - 1, NEW i \in selected' \cap L[k],
               NEW m \in Around({i}, verified)
        PROVE  Kept(m, k + 1)'
    <3>1. CASE i \in selected
      <4>1. Kept(m, k + 1)
        BY <1>4, <2>2, <3>1 DEF NothingLost
      <4>2. k + 1 \in Nat
        BY <1>2
      <4>. QED  BY <1>10, <4>1, <4>2
    <3>2. CASE i = n
      BY <1>11, <2>2, <3>2
    <3>. QED  BY <1>1, <2>2, <3>1, <3>2
  <2>. HIDE DEF L, n, d
  <2>. QED  BY <1>1, <1>5, <2>1, <2>2 DEF NothingLost
<1>13. Flagged'
  <2>2. IsFiniteSet(selected) /\ ~truncated
    BY <1>1 DEF SearchInv, Flagged
  <2>3. Cardinality(selected) \in Nat
    BY <2>2, FS_CardinalityType
  <2>4. IsFiniteSet(selected \cup {n}) /\ Cardinality(selected \cup {n}) = Cardinality(selected) + 1
    BY <1>1, <2>2, FS_AddElement
  <2>5. Cardinality(selected') <= ask.max
    BY <1>1, <1>2, <2>3, <2>4
  <2>. QED  BY <1>1, <2>2, <2>4, <2>5 DEF Flagged
<1>. QED  BY <1>1, <1>9, <1>12, <1>13 DEF SearchInv, Seeded

Unsearched == queue = initial \X {0} /\ selected = {}

\* A search that starts with the seeds has lost nothing.
LEMMA SearchStarts == Unsearched => QueuedWithin /\ NothingLost
<1>. SUFFICES ASSUME Unsearched PROVE QueuedWithin /\ NothingLost
  OBVIOUS
<1>1. Layers(verified)[0] = initial
  BY LayersStep
<1>2. QueuedWithin
  BY <1>1 DEF Unsearched, QueuedWithin
<1>3. \A n \in initial : Kept(n, 0)
  BY DEF Unsearched, Kept
<1>. QED  BY <1>2, <1>3 DEF Unsearched, NothingLost

LEMMA SearchStartsPrimed == Unsearched' => QueuedWithin' /\ NothingLost'
  BY SearchStarts, PTL

\* Nothing is left to search: every node within the depth is selected.
LEMMA SearchEnds ==
  GraphTypeInv /\ QueuedWithin /\ NothingLost /\ queue = {}
    => selected = Layers(verified)[ask.depth]
<1>. SUFFICES ASSUME GraphTypeInv, QueuedWithin, NothingLost, queue = {}
              PROVE  Layers(verified)[ask.depth] \subseteq selected
  BY DEF QueuedWithin
<1>1. ask.depth \in 0 .. ask.depth
  BY DEF GraphTypeInv, GraphTypeOK, Request
<1>. QED  BY <1>1, Pending

\* What SearchInv reads.
LEMMA UnchangedSearches ==
  SearchInv /\ UNCHANGED <<phase, ask, base, scope, initial, verified, queue, selected, truncated>>
    => SearchInv'
<1>. SUFFICES ASSUME SearchInv, UNCHANGED <<phase, ask, base, scope, initial, verified, queue,
                                            selected, truncated>>
              PROVE  SearchInv'
  OBVIOUS
<1>1. /\ Layers(verified)' = Layers(verified)
      /\ \A from : Around(from, verified)' = Around(from, verified)
  BY LayersKept
<1>2. QueuedWithin => QueuedWithin'
  BY <1>1 DEF QueuedWithin
<1>3. NothingLost => NothingLost'
  BY <1>1 DEF NothingLost, Kept
<1>4. Finished => Finished'
  BY <1>1 DEF Finished
<1>. QED  BY <1>2, <1>3, <1>4 DEF SearchInv, Seeded, Flagged

\* What is between the scope and the search leaves the queue alone.
LEMMA WaitingSearches ==
  ASSUME SearchInv, phase \in {"edges", "hops"}, phase' \in {"hops", "search"},
         UNCHANGED <<ask, initial, queue, selected, truncated>>
  PROVE  SearchInv'
<1>1. Unsearched'
  BY DEF SearchInv, Seeded, Unsearched
<1>2. QueuedWithin' /\ NothingLost'
  BY <1>1, SearchStartsPrimed
<1>. QED  BY <1>1, <1>2 DEF SearchInv, Seeded, Flagged, Unsearched

LEMMA NextSearches == GraphInv /\ GraphTypeInv /\ SearchInv /\ [Next]_vars => SearchInv'
<1>. SUFFICES ASSUME GraphInv, GraphTypeInv, SearchInv, [Next]_vars PROVE SearchInv'
  OBVIOUS
<1>1. ASSUME phase = "idle", NEW r \in Requests, BeginSubgraph(r) PROVE SearchInv'
  <2>1. r.max \in Nat
    BY RequestsTyped DEF Request
  <2>2. /\ selected' = {} /\ ask' = r /\ phase' = "compile" /\ truncated' = truncated
    BY <1>1 DEF BeginSubgraph, Goto, search, GraphInv, Untried
  <2>3. ~truncated
    BY <1>1 DEF SearchInv, Flagged
  <2>. QED  BY <2>1, <2>2, <2>3, FS_EmptySet DEF SearchInv, Seeded, Flagged
<1>2. CASE CompileScope
  <2>1. Unsearched' /\ phase = "compile" /\ phase' = "edges" /\ UNCHANGED <<ask, selected, truncated>>
    BY <1>2 DEF CompileScope, Goto, GraphInv, Untried, Unsearched
  <2>. QED  BY <2>1 DEF SearchInv, Seeded, Flagged, Unsearched
<1>3. CASE UseCanonicalEdges
  BY <1>3, WaitingSearches DEF UseCanonicalEdges, Goto, search
<1>4. CASE AskStatus
  BY <1>4, WaitingSearches DEF AskStatus, Goto, search
<1>5. CASE RuntimeStep
  <2>1. /\ phase = "hops" /\ phase' \in {"hops", "search"}
        /\ UNCHANGED <<ask, initial, queue, selected, truncated>>
    BY <1>5 DEF RuntimeStep, Hop, HopFails, EndHops, Goto, search
  <2>. QED  BY <2>1, WaitingSearches
<1>6. ASSUME NEW entry \in queue, Visit(entry) PROVE SearchInv'
  BY <1>6, VisitSearches
<1>7. ASSUME NEW entry \in queue, VisitAgain(entry) PROVE SearchInv'
  <2>1. /\ phase = "search" /\ phase' = "search" /\ entry[1] \in selected
        /\ queue' = queue \ {entry}
        /\ UNCHANGED <<ask, base, scope, initial, verified, selected, truncated>>
    BY <1>7 DEF VisitAgain, runtime
  <2>2. /\ Layers(verified)' = Layers(verified)
        /\ \A from : Around(from, verified)' = Around(from, verified)
    BY <2>1, LayersKept
  <2>3. ASSUME NEW m, NEW k, Kept(m, k) PROVE Kept(m, k)'
    BY <2>1, <2>3 DEF Kept
  <2>4. QueuedWithin /\ NothingLost
    BY <2>1 DEF SearchInv
  <2>5. QueuedWithin'
    BY <2>1, <2>2, <2>4 DEF QueuedWithin
  <2>6. NothingLost'
    BY <2>1, <2>2, <2>3, <2>4 DEF NothingLost
  <2>. QED  BY <2>1, <2>5, <2>6 DEF SearchInv, Seeded, Flagged
<1>8. ASSUME NEW entry \in queue, Truncate(entry) PROVE SearchInv'
  <2>1. /\ phase = "search" /\ phase' = "done" /\ truncated' = TRUE
        /\ Cardinality(selected) >= ask.max
        /\ UNCHANGED <<ask, selected>>
    BY <1>8 DEF Truncate, Goto
  <2>2. /\ IsFiniteSet(selected) /\ Cardinality(selected) <= ask.max
        /\ Cardinality(selected) \in Nat /\ ask.max \in Nat
    BY FS_CardinalityType DEF SearchInv, Flagged, GraphTypeInv, GraphTypeOK, Request
  <2>3. Cardinality(selected) = ask.max
    BY <2>1, <2>2
  <2>. QED  BY <2>1, <2>2, <2>3 DEF SearchInv, Seeded, Flagged, Finished
<1>9. CASE EndSearch
  <2>1. /\ phase = "search" /\ phase' = "done" /\ queue = {}
        /\ UNCHANGED <<ask, base, scope, initial, verified, selected, truncated>>
    BY <1>9 DEF EndSearch, Goto, runtime, search
  <2>2. selected = Layers(verified)[ask.depth]
    BY <2>1, SearchEnds DEF SearchInv
  <2>3. Layers(verified)' = Layers(verified)
    BY <2>1, LayersKept
  <2>. QED  BY <2>1, <2>2, <2>3 DEF SearchInv, Seeded, Flagged, Finished
<1>10. CASE Environment
  <2>1. UNCHANGED <<phase, ask, base, scope, initial, verified, queue, selected, truncated>>
    BY <1>10 DEF Environment, AssignSnapshot, ReplaceProjection, AlterRow, LoseNeo4j, Change,
                 runtime, search
  <2>. QED  BY <2>1, UnchangedSearches
<1>11. CASE UNCHANGED vars
  BY <1>11, UnchangedSearches DEF vars, runtime, search
<1>. QED
  BY <1>1, <1>2, <1>3, <1>4, <1>5, <1>6, <1>7, <1>8, <1>9, <1>10, <1>11
  DEF Next, Subgraph

LEMMA SearchInvImplies == SearchInv => SearchCoversVerified
<1>. SUFFICES ASSUME SearchInv PROVE SearchCoversVerified
  OBVIOUS
<1>1. Ball(verified) = Layers(verified)[ask.depth]
  BY BallIsLayer
<1>. QED  BY <1>1 DEF SearchInv, Flagged, Finished, SearchCoversVerified

LEMMA TraversalInvariant == Spec => [](GraphInv /\ GraphTypeInv /\ SearchInv)
  BY InitGraphInv, InitGraphTypes, InitSearchInv, NextKeeps, NextTypes, NextSearches, PTL
  DEF Spec

\* For every graph and every request, a response without the flag has exactly
\* the nodes within the depth over the edges verified for it, whatever order
\* the nodes of one depth are visited in and however often they are queued.
\* Which edges were verified is not part of it: a budget used up leaves edges
\* out with the flag FALSE.
THEOREM EverySearchCoversVerified == Spec => []SearchCoversVerified
  BY TraversalInvariant, SearchInvImplies, PTL

\* The first k of the first k are the first k.
LEMMA FirstOfFirst ==
  ASSUME NEW k \in Nat, NEW es, IsFiniteSet(es)
  PROVE  First(k, First(k, es)) = First(k, es)
<1>. SUFFICES ASSUME NEW e \in First(k, es) PROVE e \in First(k, First(k, es))
  BY DEF First
<1>. DEFINE before == {f \in es : f.id < e.id}
            within == {f \in First(k, es) : f.id < e.id}
<1>1. within \subseteq before /\ before \subseteq es
  BY DEF First
<1>2. IsFiniteSet(before)
  BY <1>1, FS_Subset
<1>3. Cardinality(within) <= Cardinality(before)
  BY <1>1, <1>2, FS_Subset
<1>4. Cardinality(before) \in Nat /\ Cardinality(within) \in Nat
  BY <1>1, <1>2, FS_Subset, FS_CardinalityType
<1>5. Cardinality(before) < k
  BY DEF First
<1>. QED  BY <1>3, <1>4, <1>5 DEF First

\* Neo4j returns every edge it is asked for if it holds the publication.
LEMMA IntactRows ==
  ASSUME NEW seeds, NEW k \in Nat,
         scope.publication \in Pub,
         scope = Compiled(scope.publication),
         stored[scope.publication] = Edges[scope.publication]
  PROVE  VerifyRows(OneHop(seeds, CandidateEdges(seeds, k), k), CandidateEdges(seeds, k))
           = CandidateEdges(seeds, k)
<1>. DEFINE p == scope.publication
            asked == CandidateEdges(seeds, k)
            touching == {e \in OfTypes(scope.edges) : e.source \in seeds \/ e.target \in seeds}
            rows == {r \in stored[p] :
                       /\ {r.source, r.target} \cap seeds # {}
                       /\ {r.source, r.target} \subseteq seeds \cup Ends(asked)
                       /\ \E e \in asked : r.id = e.id
                       /\ \E e \in asked : r.doc = e.doc
                       /\ \E e \in asked : r.type = e.type
                       /\ r.approved}
<1>1. scope.edges \subseteq Edges[p] /\ \A e \in scope.edges : e.approved
  <2>1. scope.edges = Compiled(p).edges
    OBVIOUS
  <2>. QED  BY <2>1 DEF Compiled, AccessScope
<1>2. asked = First(k, touching)
  BY DEF CandidateEdges
<1>3. asked \subseteq touching /\ touching \subseteq scope.edges
  BY <1>2 DEF First, OfTypes
<1>4. rows \subseteq asked
  <2>. SUFFICES ASSUME NEW r \in rows PROVE r \in asked
    OBVIOUS
  <2>1. PICK e \in asked : r.id = e.id
    OBVIOUS
  <2>2. r \in Edges[p] /\ e \in Edges[p]
    BY <1>1, <1>3
  <2>3. r = e
    BY <2>1, <2>2, GraphAssumption
  <2>. QED  BY <2>3
<1>5. asked \subseteq rows
  <2>. SUFFICES ASSUME NEW e \in asked PROVE e \in rows
    OBVIOUS
  <2>1. e \in stored[p] /\ e.approved
    BY <1>1, <1>3
  <2>2. e.source \in seeds \/ e.target \in seeds
    BY <1>3
  <2>3. e.source \in Ends(asked) /\ e.target \in Ends(asked)
    BY DEF Ends
  <2>. QED  BY <2>1, <2>2, <2>3
<1>6. IsFiniteSet(touching)
  BY <1>1, <1>3, GraphAssumption, FS_Subset
<1>7. OneHop(seeds, asked, k) = First(k, asked)
  BY <1>4, <1>5 DEF OneHop
<1>8. First(k, asked) = asked
  BY <1>2, <1>6, FirstOfFirst
<1>. QED  BY <1>7, <1>8 DEF VerifyRows

(***************************************************************************)
(* The projection                                                          *)
(***************************************************************************)

\* The edges a request may follow.
Canonical == OfTypes(scope.edges)

Touches(e, ns) == e.source \in ns \/ e.target \in ns

\* Without a change the projection is the one of the start.
Pristine ==
  changes = 0 =>
    /\ snapshot = FirstPub /\ base = FirstPub /\ scope.publication = FirstPub
    /\ up = TRUE /\ stored[FirstPub] = Edges[FirstPub]

\* The frontier is reached over verified edges, in as many hops as were made.
FrontierReached ==
  /\ verified \subseteq Canonical
  /\ IsFiniteSet(frontier) /\ initial \subseteq frontier
  /\ frontier \subseteq Layers(verified)[hop]
  /\ hop <= ask.depth

\* All edges at the nodes asked for are verified and followed.
AllFollowed ==
  /\ \A e \in Canonical : Touches(e, queried) => e \in verified
  /\ Reached(queried, verified) \subseteq frontier
  /\ hop > 0 => Layers(Canonical)[hop - 1] \subseteq queried

\* All edges that matter for the request are verified.
AllVerified ==
  \A k \in 0 .. ask.depth - 1 : \A e \in Canonical :
    Touches(e, Layers(Canonical)[k]) => e \in verified

Ample == budget > 0 /\ Cardinality(frontier) <= FrontierCap

ProjectionInv ==
  /\ changes \in Nat /\ Pristine
  /\ phase = "edges" => queried = {} /\ hop = 0
  /\ changes = 0 /\ phase \in {"edges", "hops", "search", "done"} => FrontierReached
  /\ changes = 0 /\ phase \in {"edges", "hops"} /\ Ample => AllFollowed
  /\ changes = 0 /\ phase \in {"search", "done"} /\ status = "healthy" /\ Ample => AllVerified

LEMMA InitProjection == Init => ProjectionInv
  BY GraphAssumption DEF Init, ProjectionInv, Pristine

\* More edges lead farther.
LEMMA LayersMonotone ==
  ASSUME NEW es, NEW fs, es \subseteq fs, NEW k \in 0 .. MaxDepth
  PROVE  Layers(es)[k] \subseteq Layers(fs)[k]
<1>. DEFINE L == Layers(es)
            M == Layers(fs)
            within == {n \in Nat : n <= MaxDepth => L[n] \subseteq M[n]}
<1>1. MaxDepth \in Nat /\ k \in Nat /\ k <= MaxDepth
  BY GraphAssumption
<1>2. 0 \in within
  BY LayersStep
<1>3. ASSUME NEW n \in Nat, n \in within PROVE n + 1 \in within
  <2>. SUFFICES ASSUME n + 1 <= MaxDepth PROVE L[n + 1] \subseteq M[n + 1]
    OBVIOUS
  <2>1. n \in 0 .. MaxDepth - 1 /\ n <= MaxDepth
    BY <1>1
  <2>2. L[n + 1] = L[n] \cup Around(L[n], es) /\ M[n + 1] = M[n] \cup Around(M[n], fs)
    BY <2>1, LayersStep
  <2>3. L[n] \subseteq M[n]
    BY <1>3, <2>1
  <2>. HIDE DEF L, M
  <2>4. Around(L[n], es) \subseteq Around(M[n], fs)
    BY <2>3 DEF Around
  <2>. QED  BY <2>2, <2>3, <2>4
<1>4. k \in within
  <2>. HIDE DEF within
  <2>. QED  BY <1>1, <1>2, <1>3, SetInduction
<1>. QED  BY <1>1, <1>4

\* A scope is finite and closed: its edges end at its nodes.
LEMMA CompiledClosed ==
  ASSUME NEW p \in Pub
  PROVE  /\ \A e \in Compiled(p).edges :
              e.source \in Compiled(p).nodes /\ e.target \in Compiled(p).nodes
         /\ IsFiniteSet(Compiled(p).nodes)
<1>. DEFINE documents == ScopeDocuments(p, ask.from.who, ask.from.day, ask.docs)
            provenance == {e \in Edges[p] :
                             /\ e.approved /\ e.doc \in documents
                             /\ HasActiveProvenance(p, e.doc, ask.from.day, e.anchor)}
            sources == {e.source : e \in provenance}
            targets == {e.target : e \in provenance}
<1>1. \A e \in Compiled(p).edges :
        e.source \in Compiled(p).nodes /\ e.target \in Compiled(p).nodes
  BY DEF Compiled, AccessScope
<1>2. Compiled(p).nodes \subseteq sources \cup targets
  BY DEF Compiled, AccessScope, Ends
<1>3. IsFiniteSet(provenance)
  BY GraphAssumption, FS_Subset
<1>. HIDE DEF provenance
<1>4. IsFiniteSet(sources)
  <2>. DEFINE f == [e \in provenance |-> e.source]
  <2>1. f \in Surjection(provenance, sources)
    BY DEF Surjection
  <2>. HIDE DEF f, sources
  <2>. QED  BY <1>3, <2>1, FS_Surjection
<1>5. IsFiniteSet(targets)
  <2>. DEFINE f == [e \in provenance |-> e.target]
  <2>1. f \in Surjection(provenance, targets)
    BY DEF Surjection
  <2>. HIDE DEF f, targets
  <2>. QED  BY <1>3, <2>1, FS_Surjection
<1>. HIDE DEF sources, targets
<1>6. IsFiniteSet(sources \cup targets)
  BY <1>4, <1>5, FS_Union
<1>7. IsFiniteSet(Compiled(p).nodes)
  BY <1>2, <1>6, FS_Subset
<1>. QED  BY <1>1, <1>7

LEMMA CompileScopeProjects ==
  GraphInv /\ GraphTypeInv /\ ProjectionInv /\ CompileScope => ProjectionInv'
<1>. SUFFICES ASSUME GraphInv, GraphTypeInv, ProjectionInv, CompileScope PROVE ProjectionInv'
  OBVIOUS
<1>1. PICK ids \in SUBSET Shown(Compiled(snapshot)) : initial' = ids /\ frontier' = ids
  BY DEF CompileScope
<1>2. /\ phase = "compile" /\ phase' = "edges" /\ scope' = Compiled(snapshot)
      /\ UNCHANGED <<snapshot, stored, up, changes, ask, base, queried, hop, verified>>
  BY DEF CompileScope, Goto, neo4j
<1>3. verified = {} /\ queried = {} /\ hop = 0
  BY <1>2 DEF GraphInv, Untried, GraphTypeInv, Blank
<1>4. IsFiniteSet(ids)
  <2>1. IsFiniteSet(Compiled(snapshot).nodes)
    BY CompiledClosed DEF GraphTypeInv, GraphTypeOK
  <2>2. ids \subseteq Compiled(snapshot).nodes
    BY DEF Shown
  <2>. QED  BY <2>1, <2>2, FS_Subset
<1>5. Layers(verified)'[0] = initial'
  BY NearestLayerPrimed DEF StartsAtSeeds
<1>6. 0 <= ask.depth
  BY DEF GraphTypeInv, GraphTypeOK, Request
<1>7. FrontierReached'
  BY <1>1, <1>2, <1>3, <1>4, <1>5, <1>6 DEF FrontierReached
<1>8. AllFollowed'
  BY <1>2, <1>3 DEF AllFollowed, Touches, Reached
<1>9. Pristine'
  BY <1>2, CompiledRecord DEF Pristine, ProjectionInv
<1>. QED  BY <1>2, <1>3, <1>7, <1>8, <1>9 DEF ProjectionInv

\* The frontier is within its cap before a hop if it is after it.
LEMMA CapKept ==
  ASSUME NEW ns, IsFiniteSet(ns), NEW ms, ns \subseteq ms, IsFiniteSet(ms),
         Cardinality(ms) <= FrontierCap
  PROVE  Cardinality(ns) <= FrontierCap
<1>1. Cardinality(ns) \in Nat /\ Cardinality(ms) \in Nat /\ FrontierCap \in Nat
  BY FS_CardinalityType, GraphAssumption
<1>2. Cardinality(ns) <= Cardinality(ms)
  BY FS_Subset
<1>. QED  BY <1>1, <1>2

\* A frontier within the cap is asked for as a whole.
LEMMA WholeFrontier ==
  ASSUME NEW current \in SUBSET (frontier \ queried),
         \/ current = frontier \ queried /\ Cardinality(current) <= FrontierCap
         \/ current # frontier \ queried /\ Cardinality(current) = FrontierCap,
         IsFiniteSet(frontier), Cardinality(frontier) <= FrontierCap
  PROVE  current = frontier \ queried
<1>. SUFFICES ASSUME current # frontier, Cardinality(current) = FrontierCap PROVE FALSE
  OBVIOUS
<1>1. current \subseteq frontier
  OBVIOUS
<1>2. Cardinality(current) <= Cardinality(frontier) /\ Cardinality(current) # Cardinality(frontier)
  BY <1>1, FS_Subset
<1>3. Cardinality(frontier) \in Nat /\ FrontierCap \in Nat
  BY FS_CardinalityType, GraphAssumption
<1>. QED  BY <1>2, <1>3

\* The layer that was reached is in the frontier.
LEMMA LayerInFrontier ==
  ASSUME GraphTypeInv, FrontierReached, AllFollowed
  PROVE  Layers(Canonical)[hop] \subseteq frontier
<1>. DEFINE L == Layers(Canonical)
<1>1. hop \in Nat /\ hop <= MaxDepth /\ MaxDepth \in Nat
  BY GraphAssumption DEF GraphTypeInv, GraphTypeOK
<1>2. CASE hop = 0
  BY <1>2, LayersStep DEF FrontierReached
<1>3. CASE hop > 0
  <2>1. hop - 1 \in 0 .. MaxDepth - 1 /\ (hop - 1) + 1 = hop
    BY <1>1, <1>3
  <2>2. L[hop] = L[hop - 1] \cup Around(L[hop - 1], Canonical)
    BY <2>1, LayersStep
  <2>3. L[hop - 1] \subseteq queried /\ queried \subseteq frontier
    BY <1>3 DEF AllFollowed, GraphTypeInv, GraphTypeOK
  <2>. HIDE DEF L
  <2>4. Around(L[hop - 1], Canonical) \subseteq frontier
    <3>. SUFFICES ASSUME NEW e \in Canonical, NEW n \in {e.source, e.target},
                         {e.source, e.target} \cap L[hop - 1] # {}
                  PROVE  n \in frontier
      BY DEF Around
    <3>1. Touches(e, queried)
      BY <2>3 DEF Touches
    <3>2. e \in verified
      BY <3>1 DEF AllFollowed
    <3>3. n \in queried \/ n \in Reached(queried, verified)
      BY <3>1, <3>2 DEF Touches, Reached
    <3>. QED  BY <2>3, <3>3 DEF AllFollowed
  <2>. QED  BY <2>2, <2>3, <2>4 DEF L
<1>. QED  BY <1>1, <1>2, <1>3

LEMMA HopReaches ==
  ASSUME NEW current \in SUBSET (frontier \ queried),
         GraphInv, GraphTypeInv, Pristine, changes = 0, FrontierReached, Hop(current)
  PROVE  FrontierReached'
<1>. DEFINE candidates == CandidateEdges(current, budget)
            accepted == VerifyRows(OneHop(current, candidates, budget), candidates)
            seen == verified \cup accepted
<1>1. /\ phase = "hops" /\ hop < ask.depth
      /\ verified' = seen
      /\ frontier' = frontier \cup Reached(current, accepted)
      /\ hop' = hop + 1
      /\ UNCHANGED <<ask, base, scope, initial>>
  BY DEF Hop, MoreHops, neo4j, search
<1>2. /\ hop \in Nat /\ hop <= MaxDepth /\ MaxDepth \in Nat
      /\ ask.depth \in Nat /\ ask.depth <= MaxDepth
  BY GraphAssumption DEF GraphTypeInv, GraphTypeOK, Request
<1>3. Layers(verified)' = Layers(seen)
  BY <1>1 DEF Layers, Around, Shown, Nodes
<1>4. scope = Compiled(scope.publication) /\ scope.publication \in Pub
      /\ base = scope.publication
  BY <1>1 DEF GraphInv, ScopeIsCompiled, GraphTypeInv, GraphTypeOK, GraphAccessScope, Pristine
<1>5. /\ scope.nodes \subseteq Shown(scope) /\ IsFiniteSet(scope.nodes)
      /\ \A e \in scope.edges : e.source \in scope.nodes /\ e.target \in scope.nodes
  <2>1. scope.nodes \subseteq Nodes(base)
    BY <1>4, CompiledType
  <2>. QED  BY <1>4, <2>1, CompiledClosed DEF Shown
<1>6. accepted \subseteq Canonical /\ Canonical \subseteq scope.edges
  BY DEF VerifyRows, CandidateEdges, First, OfTypes, Canonical
<1>. HIDE DEF accepted
<1>7. Reached(current, accepted) \subseteq scope.nodes
  BY <1>5, <1>6 DEF Reached
<1>8. IsFiniteSet(frontier')
  <2>1. IsFiniteSet(Reached(current, accepted))
    BY <1>5, <1>7, FS_Subset
  <2>. QED  BY <1>1, <2>1, FS_Union DEF FrontierReached
<1>9. hop \in 0 .. MaxDepth - 1
  BY <1>1, <1>2
<1>10. Layers(seen)[hop + 1] = Layers(seen)[hop] \cup Around(Layers(seen)[hop], seen)
  BY <1>9, LayersStep
<1>11. frontier \subseteq Layers(seen)[hop]
  <2>1. hop \in 0 .. MaxDepth
    BY <1>2
  <2>2. Layers(verified)[hop] \subseteq Layers(seen)[hop]
    BY <2>1, LayersMonotone
  <2>. QED  BY <2>2 DEF FrontierReached
<1>12. Reached(current, accepted) \subseteq Around(Layers(seen)[hop], seen)
  <2>. SUFFICES ASSUME NEW e \in accepted, NEW n \in {e.source, e.target},
                       e.source \in current \/ e.target \in current
                PROVE  n \in Around(Layers(seen)[hop], seen)
    BY DEF Reached
  <2>1. n \in Shown(scope)
    BY <1>5, <1>6
  <2>2. {e.source, e.target} \cap Layers(seen)[hop] # {}
    BY <1>11
  <2>. QED  BY <2>1, <2>2 DEF Around
<1>13. frontier' \subseteq Layers(verified)'[hop']
  <2>. HIDE DEF seen
  <2>. QED  BY <1>1, <1>3, <1>10, <1>11, <1>12
<1>14. verified' \subseteq Canonical'
  BY <1>1, <1>6 DEF FrontierReached, Canonical, OfTypes
<1>15. initial' \subseteq frontier' /\ hop' <= ask'.depth
  BY <1>1, <1>2 DEF FrontierReached
<1>. QED  BY <1>8, <1>13, <1>14, <1>15 DEF FrontierReached

\* Within the budget and the cap a hop verifies every edge at the nodes it
\* asks for.
LEMMA HopFollows ==
  ASSUME NEW current \in SUBSET (frontier \ queried),
         \/ current = frontier \ queried /\ Cardinality(current) <= FrontierCap
         \/ current # frontier \ queried /\ Cardinality(current) = FrontierCap,
         GraphInv, GraphTypeInv, Pristine, changes = 0, FrontierReached, FrontierReached',
         Ample => AllFollowed, Hop(current), Ample'
  PROVE  AllFollowed'
<1>. DEFINE touching == {e \in Canonical : e.source \in current \/ e.target \in current}
            candidates == CandidateEdges(current, budget)
            accepted == VerifyRows(OneHop(current, candidates, budget), candidates)
<1>1. /\ phase = "hops"
      /\ verified' = verified \cup accepted
      /\ queried' = queried \cup current
      /\ frontier' = frontier \cup Reached(current, accepted)
      /\ budget' = budget - Cardinality(accepted)
      /\ hop' = hop + 1
      /\ UNCHANGED <<ask, base, scope, initial>>
  BY DEF Hop, neo4j, search
<1>2. scope = Compiled(scope.publication) /\ scope.publication \in Pub
      /\ stored[scope.publication] = Edges[scope.publication]
  BY <1>1 DEF GraphInv, ScopeIsCompiled, GraphTypeInv, GraphTypeOK, GraphAccessScope, Pristine
<1>3. budget \in Nat /\ hop \in Nat
  BY GraphAssumption DEF GraphTypeInv, GraphTypeOK
<1>4. accepted = candidates
  BY <1>2, <1>3, IntactRows
<1>5. candidates = First(budget, touching)
  BY DEF CandidateEdges, Canonical
<1>6. Listed(touching)
  <2>1. Listed(scope.edges)
    BY <1>2, CompiledType
  <2>2. touching \subseteq scope.edges
    BY DEF Canonical, OfTypes
  <2>. HIDE DEF touching
  <2>. QED  BY <2>1, <2>2, ListedSubset
<1>7. Cardinality(candidates) \in Nat
  <2>. HIDE DEF touching, candidates
  <2>. QED  BY <1>3, <1>5, <1>6, FirstAtMost
<1>8. Cardinality(candidates) < budget /\ budget > 0
  BY <1>1, <1>3, <1>4, <1>7 DEF Ample
<1>9. accepted = touching
  <2>. HIDE DEF touching, candidates, accepted
  <2>. QED  BY <1>3, <1>4, <1>5, <1>6, <1>8, FirstBelowLimit
<1>. HIDE DEF accepted, candidates
<1>10. Cardinality(frontier) <= FrontierCap
  BY <1>1, CapKept DEF FrontierReached, Ample
<1>11. current = frontier \ queried
  BY <1>10, WholeFrontier DEF FrontierReached
<1>12. AllFollowed
  BY <1>8, <1>10 DEF Ample
<1>13. \A e \in Canonical : Touches(e, queried') => e \in verified'
  BY <1>1, <1>9, <1>12 DEF AllFollowed, Touches
<1>14. Reached(queried', verified') \subseteq frontier'
  <2>. SUFFICES ASSUME NEW e \in verified',
                       NEW n,
                       \/ e.source \in queried' /\ n = e.target
                       \/ e.target \in queried' /\ n = e.source
                PROVE  n \in frontier'
    BY DEF Reached
  <2>1. e \in Canonical
    BY <1>1, <1>9 DEF FrontierReached
  <2>2. PICK x \in queried' : \/ x = e.source /\ n = e.target
                              \/ x = e.target /\ n = e.source
    OBVIOUS
  <2>3. CASE x \in queried
    <3>1. e \in verified
      BY <1>12, <2>1, <2>2, <2>3 DEF AllFollowed, Touches
    <3>2. n \in Reached(queried, verified)
      BY <2>2, <2>3, <3>1 DEF Reached
    <3>. QED  BY <1>1, <1>12, <3>2 DEF AllFollowed
  <2>4. CASE x \in current
    <3>1. e \in accepted
      BY <1>9, <2>1, <2>2, <2>4
    <3>2. n \in Reached(current, accepted)
      BY <2>2, <2>4, <3>1 DEF Reached
    <3>. QED  BY <1>1, <3>2
  <2>. QED  BY <1>1, <2>2, <2>3, <2>4
<1>15. Layers(Canonical)[hop] \subseteq queried'
  BY <1>1, <1>11, <1>12, LayerInFrontier
<1>16. Canonical' = Canonical /\ Layers(Canonical)' = Layers(Canonical)
  BY <1>1 DEF Canonical, OfTypes, Layers, Around, Shown, Nodes
<1>17. hop' - 1 = hop
  BY <1>1, <1>3
<1>. HIDE DEF touching
<1>18. hop' > 0 => Layers(Canonical)'[hop' - 1] \subseteq queried'
  BY <1>15, <1>16, <1>17
<1>. QED  BY <1>13, <1>14, <1>16, <1>18 DEF AllFollowed

\* A frontier at which no further edge is left to verify holds every layer.
LEMMA FrontierClosed ==
  ASSUME GraphTypeInv, FrontierReached, AllFollowed,
         \A e \in Canonical : Touches(e, frontier) => Touches(e, queried),
         NEW k \in 0 .. MaxDepth
  PROVE  Layers(Canonical)[k] \subseteq frontier
<1>. DEFINE L == Layers(Canonical)
            held == {n \in Nat : n <= MaxDepth => L[n] \subseteq frontier}
<1>1. MaxDepth \in Nat /\ k \in Nat /\ k <= MaxDepth
  BY GraphAssumption
<1>2. 0 \in held
  BY LayersStep DEF FrontierReached
<1>3. ASSUME NEW n \in Nat, n \in held PROVE n + 1 \in held
  <2>. SUFFICES ASSUME n + 1 <= MaxDepth PROVE L[n + 1] \subseteq frontier
    OBVIOUS
  <2>1. n \in 0 .. MaxDepth - 1 /\ n <= MaxDepth
    BY <1>1
  <2>2. L[n + 1] = L[n] \cup Around(L[n], Canonical)
    BY <2>1, LayersStep
  <2>3. L[n] \subseteq frontier
    BY <1>3, <2>1
  <2>. HIDE DEF L
  <2>4. Around(L[n], Canonical) \subseteq frontier
    <3>. SUFFICES ASSUME NEW e \in Canonical, NEW m \in {e.source, e.target},
                         {e.source, e.target} \cap L[n] # {}
                  PROVE  m \in frontier
      BY DEF Around
    <3>1. Touches(e, queried)
      BY <2>3 DEF Touches
    <3>2. e \in verified
      BY <3>1 DEF AllFollowed
    <3>3. m \in queried \/ m \in Reached(queried, verified)
      BY <3>1, <3>2 DEF Touches, Reached
    <3>. QED  BY <3>3 DEF AllFollowed, GraphTypeInv, GraphTypeOK
  <2>. QED  BY <2>2, <2>3, <2>4
<1>4. k \in held
  <2>. HIDE DEF held
  <2>. QED  BY <1>1, <1>2, <1>3, SetInduction
<1>. QED  BY <1>1, <1>4

\* The hops end when all that matters is verified.
LEMMA EndVerifies ==
  ASSUME NEW current \in SUBSET (frontier \ queried),
         \/ current = frontier \ queried /\ Cardinality(current) <= FrontierCap
         \/ current # frontier \ queried /\ Cardinality(current) = FrontierCap,
         GraphInv, GraphTypeInv, phase = "hops", FrontierReached, AllFollowed, Ample,
         ~MoreHops(current)
  PROVE  AllVerified
<1>. DEFINE L == Layers(Canonical)
            touching == {e \in Canonical : e.source \in current \/ e.target \in current}
<1>1. current = frontier \ queried
  BY WholeFrontier DEF FrontierReached, Ample
<1>2. /\ hop \in Nat /\ hop <= MaxDepth /\ MaxDepth \in Nat /\ budget \in Nat
      /\ ask.depth \in Nat /\ ask.depth <= MaxDepth
  BY GraphAssumption DEF GraphTypeInv, GraphTypeOK, Request
<1>. SUFFICES ASSUME NEW k \in 0 .. ask.depth - 1, NEW e \in Canonical, Touches(e, L[k])
              PROVE  e \in verified
  BY DEF AllVerified
<1>3. CASE hop = ask.depth
  <2>1. hop - 1 \in 0 .. MaxDepth /\ k \in 0 .. hop - 1 /\ hop > 0
    BY <1>2, <1>3
  <2>2. L[k] \subseteq L[hop - 1]
    BY <2>1, LayersGrow
  <2>3. L[hop - 1] \subseteq queried
    BY <2>1 DEF AllFollowed
  <2>. HIDE DEF L
  <2>. QED  BY <2>2, <2>3 DEF AllFollowed, Touches
<1>4. CASE hop # ask.depth
  <2>1. current = {} \/ CandidateEdges(current, budget) = {}
    BY <1>2, <1>4 DEF MoreHops, Ample, FrontierReached
  <2>2. touching = {}
    <3>1. CASE current = {}
      BY <3>1
    <3>2. CASE CandidateEdges(current, budget) = {}
      <4>1. First(budget, touching) = {}
        BY <3>2 DEF CandidateEdges, Canonical
      <4>2. Listed(scope.edges)
        BY CompiledType
        DEF GraphInv, ScopeIsCompiled, GraphTypeInv, GraphTypeOK, GraphAccessScope
      <4>3. touching \subseteq scope.edges
        BY DEF Canonical, OfTypes
      <4>. HIDE DEF touching
      <4>4. Listed(touching)
        BY <4>2, <4>3, ListedSubset
      <4>5. Cardinality(First(budget, touching)) < budget
        BY <1>2, <4>1, FS_EmptySet DEF Ample
      <4>. QED  BY <1>2, <4>1, <4>4, <4>5, FirstBelowLimit
    <3>. QED  BY <2>1, <3>1, <3>2
  <2>3. \A f \in Canonical : Touches(f, frontier) => Touches(f, queried)
    BY <1>1, <2>2 DEF Touches
  <2>4. k \in 0 .. MaxDepth
    BY <1>2
  <2>5. L[k] \subseteq frontier
    BY <2>3, <2>4, FrontierClosed
  <2>. HIDE DEF L
  <2>6. Touches(e, queried)
    BY <2>3, <2>5 DEF Touches
  <2>. QED  BY <2>6 DEF AllFollowed
<1>. QED  BY <1>3, <1>4

\* Steps that leave the traversal alone.
fetched == <<phase, ask, base, scope, initial, frontier, queried, budget, hop, verified, status>>

LEMMA FetchedKept ==
  ASSUME UNCHANGED <<ask, base, scope, initial, frontier, queried, budget, hop, verified>>
  PROVE  /\ FrontierReached => FrontierReached'
         /\ AllFollowed => AllFollowed'
         /\ AllVerified => AllVerified'
         /\ Ample' <=> Ample
<1>1. Layers(verified)' = Layers(verified) /\ Canonical' = Canonical
  BY DEF Layers, Around, Shown, Nodes, Canonical, OfTypes
<1>2. Layers(Canonical)' = Layers(Canonical)
  BY <1>1 DEF Layers, Around, Shown, Nodes
<1>3. FrontierReached => FrontierReached'
  BY <1>1 DEF FrontierReached
<1>4. AllFollowed => AllFollowed'
  BY <1>1, <1>2 DEF AllFollowed, Touches, Reached
<1>5. AllVerified => AllVerified'
  BY <1>1, <1>2 DEF AllVerified, Touches
<1>6. Ample' <=> Ample
  BY DEF Ample
<1>. QED  BY <1>3, <1>4, <1>5, <1>6

\* Whoever does not change the projection, the snapshot or what was fetched.
LEMMA UnchangedProjects ==
  ProjectionInv /\ UNCHANGED <<snapshot, stored, up, changes, fetched>> => ProjectionInv'
<1>. SUFFICES ASSUME ProjectionInv, UNCHANGED <<snapshot, stored, up, changes, fetched>>
              PROVE  ProjectionInv'
  OBVIOUS
<1>1. UNCHANGED <<phase, ask, base, scope, initial, frontier, queried, budget, hop, verified,
                  status>>
  BY DEF fetched
<1>. QED  BY <1>1, FetchedKept DEF ProjectionInv, Pristine

LEMMA RuntimeProjects ==
  GraphInv /\ GraphTypeInv /\ ProjectionInv /\ RuntimeStep => ProjectionInv'
<1>. SUFFICES ASSUME GraphInv, GraphTypeInv, ProjectionInv, RuntimeStep PROVE ProjectionInv'
  OBVIOUS
<1>1. PICK current \in SUBSET (frontier \ queried) :
        /\ \/ current = frontier \ queried /\ Cardinality(current) <= FrontierCap
           \/ current # frontier \ queried /\ Cardinality(current) = FrontierCap
        /\ Hop(current) \/ HopFails(current) \/ EndHops(current)
  BY DEF RuntimeStep
<1>2. phase = "hops" /\ phase' \in {"hops", "search"}
      /\ UNCHANGED <<snapshot, stored, up, changes, ask, base, scope, initial>>
  BY <1>1 DEF Hop, HopFails, EndHops, Goto, neo4j
<1>3. changes' \in Nat /\ Pristine /\ Pristine'
  BY <1>2 DEF ProjectionInv, Pristine
<1>4. changes = 0 => FrontierReached /\ (Ample => AllFollowed)
  BY <1>2 DEF ProjectionInv
<1>5. CASE Hop(current)
  <2>1. phase' = "hops"
    BY <1>2, <1>5 DEF Hop
  <2>2. changes = 0 => FrontierReached'
    BY <1>3, <1>4, <1>5, HopReaches
  <2>3. changes = 0 /\ Ample' => AllFollowed'
    BY <1>1, <1>3, <1>4, <1>5, <2>2, HopFollows
  <2>. QED  BY <1>2, <1>3, <2>1, <2>2, <2>3 DEF ProjectionInv
<1>6. CASE HopFails(current)
  <2>1. phase' = "search" /\ status' = "unavailable"
        /\ UNCHANGED <<frontier, queried, budget, hop, verified>>
    BY <1>6 DEF HopFails, Goto, runtime
  <2>. QED  BY <1>2, <1>3, <1>4, <2>1, FetchedKept DEF ProjectionInv
<1>7. CASE EndHops(current)
  <2>1. phase' = "search" /\ ~MoreHops(current)
        /\ UNCHANGED <<frontier, queried, budget, hop, verified>>
    BY <1>7 DEF EndHops, Goto, runtime
  <2>2. changes = 0 /\ Ample => AllVerified
    BY <1>1, <1>2, <1>4, <2>1, EndVerifies
  <2>. QED  BY <1>2, <1>3, <1>4, <2>1, <2>2, FetchedKept DEF ProjectionInv
<1>. QED  BY <1>1, <1>5, <1>6, <1>7

LEMMA CanonicalProjects ==
  GraphInv /\ GraphTypeInv /\ ProjectionInv /\ UseCanonicalEdges => ProjectionInv'
<1>. SUFFICES ASSUME GraphInv, GraphTypeInv, ProjectionInv, UseCanonicalEdges
              PROVE  ProjectionInv'
  OBVIOUS
<1>1. /\ phase = "edges" /\ phase' = "search" /\ verified' = Canonical
      /\ UNCHANGED <<snapshot, stored, up, changes, ask, base, scope, initial, frontier,
                     queried, budget, hop, status>>
  BY DEF UseCanonicalEdges, Goto, Canonical, neo4j
<1>2. hop = 0 /\ (changes = 0 => FrontierReached)
  BY <1>1 DEF ProjectionInv
<1>3. Canonical' = Canonical
  BY <1>1 DEF Canonical, OfTypes
<1>4. changes = 0 => FrontierReached'
  BY <1>1, <1>2, <1>3, NearestLayer, NearestLayerPrimed DEF FrontierReached, StartsAtSeeds
<1>5. AllVerified'
  BY <1>1, <1>3 DEF AllVerified
<1>. QED  BY <1>1, <1>4, <1>5 DEF ProjectionInv, Pristine

LEMMA NextProjects ==
  GraphInv /\ GraphTypeInv /\ ProjectionInv /\ [Next]_vars => ProjectionInv'
<1>. SUFFICES ASSUME GraphInv, GraphTypeInv, ProjectionInv, [Next]_vars PROVE ProjectionInv'
  OBVIOUS
<1>1. ASSUME NEW r \in Requests, BeginSubgraph(r) PROVE ProjectionInv'
  BY <1>1 DEF BeginSubgraph, Goto, neo4j, ProjectionInv, Pristine
<1>2. CASE CompileScope
  BY <1>2, CompileScopeProjects
<1>3. CASE UseCanonicalEdges
  BY <1>3, CanonicalProjects
<1>4. CASE AskStatus
  <2>1. /\ phase = "edges"
        /\ \/ phase' = "hops"
           \/ phase' = "search" /\ status' # "healthy"
        /\ UNCHANGED <<snapshot, stored, up, changes, ask, base, scope, initial, frontier,
                       queried, budget, hop, verified>>
    BY <1>4 DEF AskStatus, Goto, neo4j, runtime
  <2>. QED  BY <2>1, FetchedKept DEF ProjectionInv, Pristine
<1>5. CASE RuntimeStep
  BY <1>5, RuntimeProjects
<1>6. ASSUME NEW entry \in queue, Visit(entry) \/ VisitAgain(entry) PROVE ProjectionInv'
  <2>1. UNCHANGED <<snapshot, stored, up, changes, fetched>>
    BY <1>6 DEF Visit, VisitAgain, neo4j, runtime, fetched
  <2>. QED  BY <2>1, UnchangedProjects
<1>7. ASSUME NEW entry \in queue, Truncate(entry) PROVE ProjectionInv'
  <2>1. /\ phase = "search" /\ phase' = "done"
        /\ UNCHANGED <<snapshot, stored, up, changes, ask, base, scope, initial, frontier,
                       queried, budget, hop, verified, status>>
    BY <1>7 DEF Truncate, Goto, neo4j, runtime
  <2>. QED  BY <2>1, FetchedKept DEF ProjectionInv, Pristine
<1>8. CASE EndSearch
  <2>1. /\ phase = "search" /\ phase' = "done"
        /\ UNCHANGED <<snapshot, stored, up, changes, ask, base, scope, initial, frontier,
                       queried, budget, hop, verified, status>>
    BY <1>8 DEF EndSearch, Goto, neo4j, runtime
  <2>. QED  BY <2>1, FetchedKept DEF ProjectionInv, Pristine
<1>9. CASE Environment
  <2>1. changes' = changes + 1 /\ UNCHANGED <<phase, queried, hop>>
    BY <1>9 DEF Environment, AssignSnapshot, ReplaceProjection, AlterRow, LoseNeo4j, Change,
                runtime
  <2>2. changes' \in Nat /\ changes' # 0
    BY <2>1 DEF ProjectionInv
  <2>. QED  BY <2>1, <2>2 DEF ProjectionInv, Pristine
<1>10. CASE UNCHANGED vars
  BY <1>10, UnchangedProjects DEF vars, neo4j, runtime, fetched
<1>. QED
  BY <1>1, <1>2, <1>3, <1>4, <1>5, <1>6, <1>7, <1>8, <1>9, <1>10 DEF Next, Subgraph

\* Verified edges that matter lead as far as the canonical ones.
LEMMA VerifiedLeadAsFar ==
  ASSUME GraphTypeInv, FrontierReached, AllVerified
  PROVE  Layers(verified)[ask.depth] = Layers(Canonical)[ask.depth]
<1>. DEFINE L == Layers(Canonical)
            M == Layers(verified)
            same == {n \in Nat : n <= ask.depth => L[n] \subseteq M[n]}
<1>1. /\ MaxDepth \in Nat /\ ask.depth \in Nat /\ ask.depth <= MaxDepth
      /\ ask.depth \in 0 .. MaxDepth
  BY GraphAssumption DEF GraphTypeInv, GraphTypeOK, Request
<1>2. M[ask.depth] \subseteq L[ask.depth]
  BY <1>1, LayersMonotone DEF FrontierReached
<1>3. 0 \in same
  BY LayersStep
<1>4. ASSUME NEW n \in Nat, n \in same PROVE n + 1 \in same
  <2>. SUFFICES ASSUME n + 1 <= ask.depth PROVE L[n + 1] \subseteq M[n + 1]
    OBVIOUS
  <2>1. n \in 0 .. MaxDepth - 1 /\ n \in 0 .. ask.depth - 1 /\ n <= ask.depth
    BY <1>1
  <2>2. L[n + 1] = L[n] \cup Around(L[n], Canonical) /\ M[n + 1] = M[n] \cup Around(M[n], verified)
    BY <2>1, LayersStep
  <2>3. L[n] \subseteq M[n]
    BY <1>4, <2>1
  <2>4. \A e \in Canonical : Touches(e, L[n]) => e \in verified
    BY <2>1 DEF AllVerified
  <2>. HIDE DEF L, M
  <2>5. Around(L[n], Canonical) \subseteq Around(M[n], verified)
    BY <2>3, <2>4 DEF Around, Touches
  <2>. QED  BY <2>2, <2>3, <2>5
<1>5. ask.depth \in same
  <2>. HIDE DEF same
  <2>. QED  BY <1>1, <1>3, <1>4, SetInduction
<1>6. L[ask.depth] \subseteq M[ask.depth]
  BY <1>1, <1>5
<1>. HIDE DEF L, M
<1>7. L[ask.depth] = M[ask.depth]
  BY <1>2, <1>6
<1>. QED  BY <1>7 DEF L, M

\* What was verified from a frontier that was never cut is all there is.
LEMMA UncutProjectionAgrees ==
  GraphTypeInv /\ SearchInv /\ ProjectionInv =>
    (Cardinality(frontier) <= FrontierCap => ProjectionAgrees)
<1>. SUFFICES ASSUME GraphTypeInv, SearchInv, ProjectionInv,
                     Cardinality(frontier) <= FrontierCap,
                     phase = "done", changes = 0, status = "healthy", budget > 0, ~truncated
              PROVE  selected = Ball(Canonical)
  BY DEF ProjectionAgrees, Untouched, Canonical
<1>1. selected = Layers(verified)[ask.depth]
  BY DEF SearchInv, Finished
<1>2. FrontierReached /\ AllVerified
  BY DEF ProjectionInv, Ample
<1>3. Ball(Canonical) = Layers(Canonical)[ask.depth]
  BY BallIsLayer
<1>. QED  BY <1>1, <1>2, <1>3, VerifiedLeadAsFar

\* A frontier that was cut reaches more than a response may hold.
LEMMA ProjectionInvImplies ==
  ASSUME MaxNodes <= FrontierCap
  PROVE  GraphTypeInv /\ SearchInv /\ ProjectionInv => ProjectionAgrees
<1>. SUFFICES ASSUME GraphTypeInv, SearchInv, ProjectionInv,
                     phase = "done", changes = 0, ~truncated
              PROVE  ProjectionAgrees
  BY DEF ProjectionAgrees, Untouched
<1>1. selected = Layers(verified)[ask.depth]
  BY DEF SearchInv, Finished
<1>2. FrontierReached
  BY DEF ProjectionInv
<1>3. frontier \subseteq selected
  <2>1. hop \in 0 .. ask.depth /\ ask.depth \in 0 .. MaxDepth
    BY <1>2, GraphAssumption DEF GraphTypeInv, GraphTypeOK, Request, FrontierReached
  <2>2. Layers(verified)[hop] \subseteq Layers(verified)[ask.depth]
    BY <2>1, LayersGrow
  <2>. QED  BY <1>1, <1>2, <2>2 DEF FrontierReached
<1>4. Cardinality(frontier) <= FrontierCap
  <2>1. IsFiniteSet(selected) /\ Cardinality(selected) <= ask.max
    BY DEF SearchInv, Flagged
  <2>2. Cardinality(frontier) <= Cardinality(selected)
        /\ Cardinality(frontier) \in Nat /\ Cardinality(selected) \in Nat
    BY <1>2, <1>3, <2>1, FS_Subset, FS_CardinalityType DEF FrontierReached
  <2>3. ask.max \in Nat /\ ask.max <= MaxNodes /\ MaxNodes \in Nat /\ FrontierCap \in Nat
    BY GraphAssumption DEF GraphTypeInv, GraphTypeOK, Request
  <2>. QED  BY <2>1, <2>2, <2>3
<1>. QED  BY <1>4, UncutProjectionAgrees

LEMMA ProjectionInvariant == Spec => [](GraphTypeInv /\ SearchInv /\ ProjectionInv)
<1>1. Spec => []ProjectionInv
  BY TraversalInvariant, InitProjection, NextProjects, PTL DEF Spec
<1>. QED  BY <1>1, TraversalInvariant, PTL

\* A graph from an intact projection is the canonical one, for every
\* publication, policy and request, unless a limit was met and the response or
\* the budget shows it. The frontier may not be cut below what a response may
\* hold: in the code both are 200.
THEOREM IntactProjectionAgrees ==
  ASSUME MaxNodes <= FrontierCap
  PROVE  Spec => []ProjectionAgrees
<1>1. GraphTypeInv /\ SearchInv /\ ProjectionInv => ProjectionAgrees
  BY ProjectionInvImplies
<1>. QED  BY <1>1, ProjectionInvariant, PTL

\* Whatever the cap is, it takes nothing away from a response whose frontier it
\* has not cut.
THEOREM UncutFrontierAgrees ==
  Spec => [](Cardinality(frontier) <= FrontierCap => ProjectionAgrees)
BY UncutProjectionAgrees, ProjectionInvariant, PTL

=============================================================================
