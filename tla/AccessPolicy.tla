---------------------------- MODULE AccessPolicy ----------------------------
(***************************************************************************)
(* Who may read what on a day: Principal.can_read, is_effective, and the   *)
(* four places that apply them, each in its own way: active_provisions for *)
(* the lexical lane, the WHERE clause of vector_search, the scope compiled *)
(* for the graph lane, and the search for evidence out of reach.           *)
(*                                                                         *)
(* Publications are constants. Provisions are paragraphs; the locator of   *)
(* one is its article and its number in it, of an article <<article, 0>>.  *)
(***************************************************************************)
EXTENDS Naturals, FiniteSets

CONSTANTS
  Pub, Doc, Class, Version, Prov,
  Unrestricted,  \* None: no list of document ids
  Open,          \* None: the period of a version has no end
  Metadata,      \* the source locator of an edge that is taken from no article
  ClassOf,       \* ClassOf[p]: the documents of publication p, with their class
  Versions,      \* Versions[p]: its versions
  Place          \* Place[x]: document, version and locator of paragraph x

Principal == [classes : (SUBSET Class) \ {{}}, docs : {Unrestricted} \cup SUBSET Doc]

\* Document ids a request asks for. Its empty list is taken for none.
Restriction == {Unrestricted} \cup ((SUBSET Doc) \ {{}})

VersionRecord == [id : Version, doc : Doc, status : {"published", "draft"}, 
                  from : Nat, to : {Open} \cup Nat,
                  articles : SUBSET (Nat \ {0}), paragraphs : SUBSET Prov]

ASSUME PolicyAssumption ==
  /\ \A ds \in SUBSET Doc : ds # Unrestricted
  /\ Place \in [Prov -> [doc : Doc, version : Version,
                          locator : (Nat \ {0}) \X (Nat \ {0})]]
  /\ \A p \in Pub :
       /\ ClassOf[p] \in [DOMAIN ClassOf[p] -> Class]
       /\ DOMAIN ClassOf[p] \subseteq Doc
       /\ Versions[p] \subseteq VersionRecord
       /\ \A v \in Versions[p] :
            /\ v.doc \in DOMAIN ClassOf[p]
            /\ \A x \in v.paragraphs : Place[x].doc = v.doc /\ Place[x].version = v.id

Docs(p) == DOMAIN ClassOf[p]

CanRead(who, p, d) ==
  /\ ClassOf[p][d] \in who.classes
  /\ who.docs # Unrestricted => d \in who.docs

IsEffective(v, day) ==
  /\ v.status = "published"
  /\ v.from <= day
  /\ v.to # Open => day < v.to

AskedFor(p, docs) == {d \in Docs(p) : docs # Unrestricted => d \in docs}

\* Mutant: only the ids that were asked for decide.
ReadableIfAskedFor(p, who, docs) ==
  {d \in AskedFor(p, docs) : ClassOf[p][d] \in who.classes}

Readable(p, who, docs) == {d \in AskedFor(p, docs) : CanRead(who, p, d)}

\* effective_version, of which there is at most one (SnapshotUnambiguous).
EffectiveVersions(p, d, day) == {v \in Versions[p] : v.doc = d /\ IsEffective(v, day)}

ParagraphsOn(p, d, day) == UNION {v.paragraphs : v \in EffectiveVersions(p, d, day)}

\* active_provisions
ActiveProvisions(p, who, day, docs) ==
  UNION {ParagraphsOn(p, d, day) : d \in Readable(p, who, docs)}

\* Mutant: the principal's own list, if it has one, is taken for the scope.
OwnScope(own, requested) == IF own = Unrestricted THEN requested ELSE own

EffectiveDocumentScope(own, requested) ==
  IF requested = Unrestricted THEN own
  ELSE IF own = Unrestricted THEN requested
  ELSE requested \cap own

\* The rows vector_search ranks when p is the ACTIVE publication: every
\* condition of its WHERE clause, and the list it adds if there is a scope.
Searchable(p, who, day, docs) ==
  LET scope == EffectiveDocumentScope(who.docs, docs)
  IN UNION {v.paragraphs : v \in
       {w \in Versions[p] :
          /\ w.status = "published"
          /\ w.from <= day
          /\ w.to = Open \/ w.to > day
          /\ ClassOf[p][w.doc] \in who.classes
          /\ scope # Unrestricted => w.doc \in scope}}

\* compile_graph_access_scope: documents with a version in force
ScopeDocuments(p, who, day, docs) ==
  {d \in Readable(p, who, docs) : EffectiveVersions(p, d, day) # {}}

\* and the locators of the articles and paragraphs of that version. An article
\* may have no paragraph.
Locators(p, d, day) ==
  {Place[x].locator : x \in ParagraphsOn(p, d, day)}
    \cup {<<n, 0>> : n \in UNION {v.articles : v \in EffectiveVersions(p, d, day)}}

HasActiveProvenance(p, d, day, anchor) ==
  anchor = Metadata \/ anchor \in Locators(p, d, day)

\* denied_scope_has_evidence: what the principal may not read.
DeniedProvisions(p, who, day, docs) ==
  UNION {ParagraphsOn(p, d, day) : d \in AskedFor(p, docs) \ Readable(p, who, docs)}

=============================================================================
