------------------------------ MODULE QaAnswer ------------------------------
(***************************************************************************)
(* QAService in one API replica: answer, which reads the repository's      *)
(* snapshot anew in each of its stages, records its result and audits it,  *)
(* and get, which loads a recorded result and checks it against the        *)
(* canonical rows and the snapshot of that moment. A reload replaces the   *)
(* canonical rows and then the snapshot between any two of these reads.    *)
(*                                                                         *)
(* Provisions are paragraphs; a body is a set of passages, the texts that  *)
(* stand in it. Ranking, the access policy and the language model are      *)
(* nondeterministic choices among what they may return.                    *)
(***************************************************************************)
EXTENDS Naturals, FiniteSets, Sequences

CONSTANTS
  Thread,       \* request threads; each answers one query
  Reader,       \* requests for a recorded result that pass the owner check
  Pub, Doc, Version, Prov, Passage, Article,
  Place,        \* Place[x]: document, version and article of a provision
  Content,      \* Content[p]: documents, versions and bodies published by p
  Mentions,     \* Mentions[t]: articles a passage refers to by title
  Numbers,      \* Numbers[t]: the numbers found in a passage
  Cut,          \* passages that begin or end within a number
  Seams(_),     \* what stands in the join of some bodies and in none of them
  Normalized(_),  \* grounded_normalization of that join, if it changes it
  FirstPub,     \* the publication that is active when the replica starts
  None,
  MaxSources,   \* 7 in _add_cross_references
  MaxCited,     \* bound: sources one claim cites
  MaxReloads,   \* bound: reloads
  MaxFaults     \* bound: failed writes and crashes

\* A publication: its documents, those the principal may read, its versions,
\* the version of each document effective at the query's as_of, and bodies.
WellFormed(c) ==
  /\ c.docs \subseteq Doc /\ c.readable \subseteq c.docs
  /\ c.versions \subseteq Version
  /\ c.effective \in [Doc -> Version \cup {None}]
  /\ \A d \in c.docs : c.effective[d] \in c.versions \cup {None}
  /\ DOMAIN c.body \subseteq Prov
  /\ \A x \in DOMAIN c.body :
       /\ Place[x].doc \in c.docs /\ Place[x].version \in c.versions
       /\ c.body[x] \subseteq Passage

ASSUME QaAssumption ==
  /\ Place \in [Prov -> [doc : Doc, version : Version, article : Article]]
  /\ DOMAIN Content = Pub
  /\ \A p \in Pub : WellFormed(Content[p])
  /\ Mentions \in [Passage -> SUBSET (Doc \X Article)]
  /\ FirstPub \in Pub
  /\ Numbers \in [Passage -> SUBSET Nat]
  /\ None \notin Version \cup Pub
  /\ None \notin [prov : Prov, pub : Pub]
  /\ {MaxSources, MaxCited, MaxReloads, MaxFaults} \subseteq Nat

VARIABLES
  snapshot,   \* repository.snapshot of the replica
  canonical,  \* canonical[x]: the publication whose seed last wrote row x
  hydrated,   \* a reload that is committed and not yet assigned
  phase,      \* where each thread is in answer
  bound,      \* the snapshot a stage reads at its start
  local,      \* the snapshot its innermost helper has read
  docs,       \* documents whose effective version is still to be looked up
  refs,       \* cross references still to be followed
  hits,       \* provisions found or selected, with where they were read
  claims,     \* claims of the generator
  results,    \* qa_run and qa_citation rows, by thread
  events,     \* threads whose qa.query audit event is stored
  fetched,    \* what each reader has loaded and not yet checked
  shown,      \* results clients have been given
  stable,     \* history: no snapshot was assigned since the query began
  reloads, faults

repository == <<snapshot, canonical, hydrated>>
stores == <<results, events>>
query == <<bound, local, docs, refs, hits, claims>>
readers == <<fetched, shown>>
vars == <<repository, phase, query, stores, readers, stable, reloads, faults>>

Hit == [prov : Prov, pub : Pub]
Claim == [text : Passage, sources : Seq(Hit)]
Citation == [prov : Prov, quote : SUBSET Passage]
Answered == [citations : SUBSET Citation, claims : SUBSET Claim, trace : Pub]

Phase == {"idle", "active", "bind", "graph", "rank", "denied", "pack", "cross",
          "refs", "version", "generate", "trace", "abstain", "save", "audit",
          "returned", "lookup_error", "failed"}
Ended == {"returned", "lookup_error", "failed"}

\* Types, and that a result has citations exactly if it makes a claim.
QaTypeOK ==
  /\ snapshot \in Pub
  /\ canonical \in [Prov -> Pub \cup {None}]
  /\ hydrated \in Pub \cup {None}
  /\ phase \in [Thread -> Phase]
  /\ bound \in [Thread -> Pub] /\ local \in [Thread -> Pub]
  /\ docs \in [Thread -> SUBSET Doc]
  /\ refs \in [Thread -> SUBSET (Doc \X Article)]
  /\ \A t \in Thread : hits[t] \subseteq Hit /\ claims[t] \subseteq Claim
  /\ DOMAIN results \subseteq Thread
  /\ \A t \in DOMAIN results :
       /\ results[t].citations \subseteq Citation
       /\ results[t].claims \subseteq Claim
       /\ results[t].trace \in Pub
       /\ results[t].claims = {} <=> results[t].citations = {}
  /\ events \subseteq Thread
  /\ DOMAIN fetched \subseteq Reader
  /\ stable \in [Thread -> BOOLEAN]
  /\ reloads \in 0 .. MaxReloads /\ faults \in 0 .. MaxFaults

Init ==
  /\ snapshot = FirstPub
  /\ canonical = [x \in Prov |->
       IF x \in DOMAIN Content[FirstPub].body THEN FirstPub ELSE None]
  /\ hydrated = None
  /\ phase = [t \in Thread |-> "idle"]
  /\ bound = [t \in Thread |-> FirstPub]
  /\ local = [t \in Thread |-> FirstPub]
  /\ docs = [t \in Thread |-> {}]
  /\ refs = [t \in Thread |-> {}]
  /\ hits = [t \in Thread |-> {}]
  /\ claims = [t \in Thread |-> {}]
  /\ results = <<>>
  /\ events = {}
  /\ fetched = <<>>
  /\ shown = {}
  /\ stable = [t \in Thread |-> TRUE]
  /\ reloads = 0 /\ faults = 0

Goto(t, from, to) ==
  /\ phase[t] = from
  /\ phase' = [phase EXCEPT ![t] = to]

Set(f, t, value) == [f EXCEPT ![t] = value]
environment == <<repository, stores, readers, stable, reloads, faults>>

Quote(h) == Content[h.pub].body[h.prov]
ParagraphsOf(p, v) == {x \in DOMAIN Content[p].body : Place[x].version = v}
HitsIn(p, xs) == {[prov |-> x, pub |-> p] : x \in xs}
ProvsOf(hs) == {h.prov : h \in hs}

(***************************************************************************)
(* Reload: the seed commits, then the replica's snapshot is assigned       *)
(***************************************************************************)

CommitReload(p) ==
  /\ hydrated = None
  /\ reloads < MaxReloads
  /\ reloads' = reloads + 1
  /\ canonical' = [x \in Prov |->
       IF x \in DOMAIN Content[p].body THEN p ELSE canonical[x]]
  /\ hydrated' = p
  /\ UNCHANGED <<snapshot, phase, query, stores, readers, stable, faults>>

AssignSnapshot ==
  /\ hydrated # None
  /\ snapshot' = hydrated
  /\ hydrated' = None
  /\ stable' = [t \in Thread |-> FALSE]
  /\ UNCHANGED <<canonical, phase, query, stores, readers, reloads, faults>>

(***************************************************************************)
(* answer: retrieval                                                       *)
(***************************************************************************)

\* active_provisions takes a snapshot and then, document by document, asks
\* effective_version, which takes another.
BeginAnswer(t) ==
  /\ Goto(t, "idle", "active")
  /\ local' = Set(local, t, snapshot)
  /\ docs' = Set(docs, t, Content[snapshot].readable)
  /\ stable' = Set(stable, t, TRUE)
  /\ UNCHANGED <<repository, bound, refs, hits, claims, stores, readers,
                 reloads, faults>>

Looking == {"active", "graph", "denied"}

\* The document is gone (NotFoundError), or the version that is effective now
\* is not one of the snapshot read before (KeyError).
LookupFails(d, p) ==
  \/ d \notin Content[snapshot].docs
  \/ /\ Content[snapshot].effective[d] # None
     /\ Content[snapshot].effective[d] \notin Content[p].versions

LookUp(t, d) ==
  /\ phase[t] \in Looking
  /\ d \in docs[t]
  /\ ~LookupFails(d, local[t])
  /\ docs' = [docs EXCEPT ![t] = @ \ {d}]
  /\ hits' = IF phase[t] = "active"
             THEN [hits EXCEPT ![t] = @ \cup HitsIn(local[t],
                     ParagraphsOf(local[t], Content[snapshot].effective[d]))]
             ELSE hits
  /\ UNCHANGED <<phase, bound, local, refs, claims, environment>>

LookupError(t, d) ==
  /\ phase[t] \in Looking
  /\ d \in docs[t]
  /\ LookupFails(d, local[t])
  /\ phase' = Set(phase, t, "lookup_error")
  /\ UNCHANGED <<query, environment>>

\* retrieve_with_status takes its own snapshot for the provisions found.
BindSnapshot(t) ==
  /\ phase[t] = "active" /\ docs[t] = {}
  /\ bound' = Set(bound, t, snapshot)
  /\ phase' = Set(phase, t,
       IF \A h \in hits[t] : Place[h.prov].doc \in Content[snapshot].docs
       THEN "bind" ELSE "lookup_error")
  /\ UNCHANGED <<local, docs, refs, hits, claims, environment>>

\* Mutant: the scope is compiled for the ids asked for, known or not.
GraphLaneOfAll(t) ==
  /\ Goto(t, "bind", "graph")
  /\ local' = Set(local, t, snapshot)
  /\ docs' = Set(docs, t, Doc)
  /\ UNCHANGED <<bound, refs, hits, claims, environment>>

\* compile_graph_access_scope, with its own snapshot. An outage of Neo4j
\* leaves the graph lane empty; the lane only ranks provisions found above.
BeginGraphLane(t) ==
  /\ Goto(t, "bind", "graph")
  /\ local' = Set(local, t, snapshot)
  /\ docs' = Set(docs, t, Content[snapshot].readable)
  /\ UNCHANGED <<bound, refs, hits, claims, environment>>

EndGraphLane(t) ==
  /\ docs[t] = {}
  /\ Goto(t, "graph", "rank")
  /\ UNCHANGED <<query, environment>>

\* Some provisions are hits; each is given its version in the snapshot bound.
Rank(t) ==
  \E found \in SUBSET hits[t] \ {{}} :
    /\ phase[t] = "rank"
    /\ hits' = Set(hits, t, found)
    /\ phase' = Set(phase, t,
         IF \A h \in found : Place[h.prov].version \in Content[bound[t]].versions
         THEN "pack" ELSE "lookup_error")
    /\ UNCHANGED <<bound, local, docs, refs, claims, environment>>

\* No hit is relevant enough; the documents out of scope are looked at.
NoEvidence(t) ==
  /\ Goto(t, "rank", "denied")
  /\ hits' = Set(hits, t, {})
  /\ local' = Set(local, t, snapshot)
  /\ docs' = Set(docs, t, Content[snapshot].docs \ Content[snapshot].readable)
  /\ UNCHANGED <<bound, refs, claims, environment>>

\* Evidence was found there (access_limited) or there is none.
EndDenied(t) ==
  /\ Goto(t, "denied", "abstain")
  /\ docs' = Set(docs, t, {})
  /\ UNCHANGED <<bound, local, refs, hits, claims, environment>>

(***************************************************************************)
(* answer: the sources of the answer                                       *)
(***************************************************************************)

Siblings(p, x) ==
  {y \in ParagraphsOf(p, Place[x].version) : Place[y].article = Place[x].article}

\* The best hit's article, in a snapshot taken now; hits keep their text.
PackPrimaryArticle(t) ==
  \E primary \in hits[t] :
    LET siblings == Siblings(snapshot, primary.prov)
        known    == {h \in hits[t] : h.prov \in siblings}
        packed   == known \cup HitsIn(snapshot, siblings \ ProvsOf(known))
    IN /\ phase[t] = "pack"
       /\ hits' = Set(hits, t, IF packed = {} THEN {primary} ELSE packed)
       /\ phase' = Set(phase, t,
            IF Place[primary.prov].version \in Content[snapshot].versions
            THEN "cross" ELSE "lookup_error")
       /\ UNCHANGED <<bound, local, docs, refs, claims, environment>>

\* Titles are those of a snapshot taken now.
BeginCrossReferences(t) ==
  /\ Goto(t, "cross", "refs")
  /\ bound' = Set(bound, t, snapshot)
  /\ refs' = Set(refs, t,
       {m \in UNION {Mentions[s] : s \in UNION {Quote(h) : h \in hits[t]}} :
          m[1] \in Content[snapshot].docs})
  /\ UNCHANGED <<local, docs, hits, claims, environment>>

\* find_article_paragraphs takes a snapshot; a document it does not have, or
\* that may not be read, is skipped,
FindArticle(t, ref) ==
  /\ ref \in refs[t]
  /\ phase[t] = "refs"
  /\ IF ref[1] \in Content[snapshot].readable
     THEN /\ phase' = Set(phase, t, "version")
          /\ local' = Set(local, t, snapshot)
          /\ docs' = Set(docs, t, {ref[1]})
          /\ UNCHANGED refs
     ELSE /\ refs' = [refs EXCEPT ![t] = @ \ {ref}]
          /\ UNCHANGED <<phase, local, docs>>
  /\ UNCHANGED <<bound, hits, claims, environment>>

Room(hs) == IF Cardinality(hs) < MaxSources THEN MaxSources - Cardinality(hs) ELSE 0

\* Document and version of every provision are in publication p.
Listed(xs, p) ==
  \A x \in xs : /\ Place[x].doc \in Content[p].docs
                /\ Place[x].version \in Content[p].versions

\* and the version is the one effective in yet another snapshot.
AddParagraphs(t, ref) ==
  /\ ref \in refs[t] /\ docs[t] = {ref[1]}
  /\ phase[t] = "version"
  /\ LET effective == Content[snapshot].effective[ref[1]]
         added == {x \in ParagraphsOf(local[t], effective) :
                     Place[x].article = ref[2]} \ ProvsOf(hits[t])
         count == IF Cardinality(added) < Room(hits[t])
                  THEN Cardinality(added) ELSE Room(hits[t])
     IN \E xs \in {ys \in SUBSET added : Cardinality(ys) = count} :
          IF LookupFails(ref[1], local[t]) \/ ~Listed(xs, bound[t])
          THEN /\ phase' = Set(phase, t, "lookup_error")
               /\ UNCHANGED <<hits, refs, docs>>
          ELSE /\ phase' = Set(phase, t, "refs")
               /\ hits' = [hits EXCEPT ![t] = @ \cup HitsIn(local[t], xs)]
               /\ refs' = [refs EXCEPT ![t] = @ \ {ref}]
               /\ docs' = Set(docs, t, {})
  /\ UNCHANGED <<bound, local, claims, environment>>

EndCrossReferences(t) ==
  /\ refs[t] = {}
  /\ Goto(t, "refs", "generate")
  /\ UNCHANGED <<query, environment>>

(***************************************************************************)
(* answer: generation and verification                                     *)
(***************************************************************************)

Elements(xs) == {xs[i] : i \in DOMAIN xs}

NumbersIn(quote) == UNION {Numbers[s] : s \in quote \ Cut}

\* The quotes, joined in this order, have the text in them, within one or over
\* a seam, or are normalized to it; and it has no number they have not.
Supports(quotes, s) ==
  /\ s \in UNION Elements(quotes) \cup Seams(quotes) \cup Normalized(quotes)
  /\ Numbers[s] \subseteq UNION {NumbersIn(q) : q \in Elements(quotes)}

\* Mutant: a claim is looked for in the text of all sources together.
VerifyPooled(cs, hs) ==
  /\ cs # {}
  /\ \A c \in cs :
       /\ c.sources # <<>> /\ Elements(c.sources) \subseteq hs
       /\ c.text \in UNION {Quote(h) : h \in hs}

\* Every claim cites sources it was given, and their text supports it.
Verify(cs, hs) ==
  /\ cs # {}
  /\ \A c \in cs :
       /\ c.sources # <<>> /\ Elements(c.sources) \subseteq hs
       /\ Supports([i \in DOMAIN c.sources |-> Quote(c.sources[i])], c.text)

\* An id that is not one of those given stands for None.
Sources(hs) == UNION {[1 .. n -> hs \cup {None}] : n \in 0 .. MaxCited}

Claims(hs) == [text : Passage, sources : Sources(hs)]

\* The generator returns no claim or one; each is verified by itself.
Generate(t) ==
  \E cs \in {{}} \cup {{c} : c \in Claims(hits[t])} :
    /\ Goto(t, "generate", IF Verify(cs, hits[t]) THEN "trace" ELSE "abstain")
    /\ claims' = Set(claims, t, IF Verify(cs, hits[t]) THEN cs ELSE {})
    /\ UNCHANGED <<bound, local, docs, refs, hits, environment>>

ProviderUnavailable(t) ==
  /\ Goto(t, "generate", "abstain")
  /\ UNCHANGED <<query, environment>>

\* The trace names the publication of the snapshot taken last.
TraceAnswer(t) ==
  /\ Goto(t, "trace", "save")
  /\ bound' = Set(bound, t, snapshot)
  /\ UNCHANGED <<local, docs, refs, hits, claims, environment>>

Abstain(t) ==
  /\ Goto(t, "abstain", "save")
  /\ bound' = Set(bound, t, snapshot)
  /\ hits' = Set(hits, t, {})
  /\ claims' = Set(claims, t, {})
  /\ UNCHANGED <<local, docs, refs, environment>>

(***************************************************************************)
(* _record: the result is saved, then audited, in two transactions         *)
(***************************************************************************)

Result(t) ==
  [citations |-> {[prov |-> h.prov, quote |-> Quote(h)] : h \in hits[t]},
   claims    |-> claims[t],
   trace     |-> bound[t]]

Extend(f, x, value) == [y \in DOMAIN f \cup {x} |-> IF y = x THEN value ELSE f[y]]
Without(f, x) == [y \in DOMAIN f \ {x} |-> f[y]]

\* Mutant: a result that cannot be saved is answered all the same.
SaveIfPossible(t) ==
  /\ Goto(t, "save", "audit")
  /\ results' = Extend(results, t, Result(t)) \/ results' = results
  /\ UNCHANGED <<repository, query, events, readers, stable, reloads, faults>>

SaveResult(t) ==
  /\ Goto(t, "save", "audit")
  /\ results' = Extend(results, t, Result(t))
  /\ UNCHANGED <<repository, query, events, readers, stable, reloads, faults>>

Shown(t, r) == [id |-> t, citations |-> r.citations, claims |-> r.claims]

AppendEvent(t) ==
  /\ Goto(t, "audit", "returned")
  /\ events' = events \cup {t}
  /\ shown' = shown \cup {Shown(t, Result(t))}
  /\ UNCHANGED <<repository, query, results, fetched, stable, reloads, faults>>

RecordFails(t) ==
  /\ faults < MaxFaults
  /\ phase[t] \in {"save", "audit"}
  /\ phase' = Set(phase, t, "failed")
  /\ faults' = faults + 1
  /\ UNCHANGED <<repository, query, stores, readers, stable, reloads>>

\* The replica dies; it starts again with the active publication.
Crash ==
  /\ faults < MaxFaults
  /\ faults' = faults + 1
  /\ snapshot' = IF hydrated = None THEN snapshot ELSE hydrated
  /\ hydrated' = None
  /\ phase' = [t \in Thread |->
       IF phase[t] \in Ended \cup {"idle"} THEN phase[t] ELSE "failed"]
  /\ fetched' = <<>>
  /\ stable' = [t \in Thread |-> FALSE]
  /\ UNCHANGED <<canonical, query, stores, shown, reloads>>

(***************************************************************************)
(* get                                                                     *)
(***************************************************************************)

\* Mutant: the canonical row has to exist; its hash is not compared.
RowsExist(r) == \A c \in r.citations : canonical[c.prov] # None

\* The quote is the canonical body now, if its hash is the recorded one.
IntegrityHolds(r) ==
  \A c \in r.citations :
    /\ canonical[c.prov] # None
    /\ Content[canonical[c.prov]].body[c.prov] = c.quote

FromCanonical(r) ==
  [r EXCEPT !.citations =
     {[prov |-> c.prov, quote |-> Content[canonical[c.prov]].body[c.prov]] :
        c \in r.citations}]

LoadResult(r, t) ==
  /\ r \notin DOMAIN fetched
  /\ t \in DOMAIN results
  /\ IntegrityHolds(results[t])
  /\ fetched' = Extend(fetched, r, Shown(t, FromCanonical(results[t])))
  /\ UNCHANGED <<repository, phase, query, stores, shown, stable, reloads, faults>>

\* Citations that left the snapshot, or may not be read, are not found.
CitationsCurrent(x) ==
  \A c \in x.citations :
    /\ Place[c.prov].doc \in Content[snapshot].readable
    /\ Place[c.prov].version \in Content[snapshot].versions
    /\ c.prov \in DOMAIN Content[snapshot].body

ReturnResult(r) ==
  /\ r \in DOMAIN fetched
  /\ fetched' = Without(fetched, r)
  /\ shown' = IF CitationsCurrent(fetched[r]) THEN shown \cup {fetched[r]} ELSE shown
  /\ UNCHANGED <<repository, phase, query, stores, stable, reloads, faults>>

AnswerStep(t) ==
  \/ BeginAnswer(t)
  \/ \E d \in Doc : LookUp(t, d) \/ LookupError(t, d)
  \/ BindSnapshot(t) \/ BeginGraphLane(t) \/ EndGraphLane(t)
  \/ Rank(t) \/ NoEvidence(t) \/ EndDenied(t)
  \/ PackPrimaryArticle(t) \/ BeginCrossReferences(t)
  \/ \E ref \in Doc \X Article : FindArticle(t, ref) \/ AddParagraphs(t, ref)
  \/ EndCrossReferences(t)
  \/ Generate(t) \/ ProviderUnavailable(t) \/ TraceAnswer(t) \/ Abstain(t)
  \/ SaveResult(t) \/ AppendEvent(t)

Next ==
  \/ \E t \in Thread : AnswerStep(t) \/ RecordFails(t)
  \/ \E p \in Pub : CommitReload(p)
  \/ AssignSnapshot
  \/ Crash
  \/ \E r \in Reader : ReturnResult(r) \/ \E t \in Thread : LoadResult(r, t)

Spec == Init /\ [][Next]_vars

(***************************************************************************)
(* Properties                                                              *)
(***************************************************************************)

SupportedBy(c, citations) ==
  \E quotes \in [DOMAIN c.sources -> {q.quote : q \in citations}] :
    /\ \A i \in DOMAIN quotes :
         [prov |-> c.sources[i].prov, quote |-> quotes[i]] \in citations
    /\ Supports(quotes, c.text)

\* What a client reads as a claim is supported by quotes it reads with it, at
\* once or later, whatever was reloaded, re-seeded or lost in between: those
\* of the sources the claim cites, in their order, although they may come from
\* several snapshots. It may stand over the seam of two quotes, in none.
ClaimsSupported == \A x \in shown : \A c \in x.claims : SupportedBy(c, x.citations)

\* A result read again is the result that was answered, or it is not shown:
\* a body republished under the same provision id never takes its place.
RereadUnchanged == \A x, y \in shown : x.id = y.id => x = y

\* No client has an answer that was not recorded and audited, and no audit
\* event names a result that is not recorded, across failures and crashes.
AnswersRecorded ==
  /\ events \subseteq DOMAIN results
  /\ \A x \in shown : x.id \in DOMAIN results
  /\ \A t \in Thread : phase[t] = "returned" => t \in events

\* A query over which no snapshot is assigned never fails on a lookup, and
\* all it quotes is text of the publication its trace names.
StableQueriesConsistent ==
  \A t \in Thread : stable[t] =>
    /\ phase[t] # "lookup_error"
    /\ phase[t] = "audit" =>
         \A c \in results[t].citations :
           /\ c.prov \in DOMAIN Content[results[t].trace].body
           /\ c.quote = Content[results[t].trace].body[c.prov]

\* The quotes of a recorded answer are those of the publication in its trace.
TraceNamesSource ==
  \A t \in DOMAIN results : \A c \in results[t].citations :
    /\ c.prov \in DOMAIN Content[results[t].trace].body
    /\ c.quote = Content[results[t].trace].body[c.prov]

=============================================================================
