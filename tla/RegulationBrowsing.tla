-------------------------- MODULE RegulationBrowsing --------------------------
(***************************************************************************)
(* The library and detail pages of the web application over the API        *)
(* replica of QaAnswer: RegulationService, which reads the repository's    *)
(* snapshot anew at each step of a request, the audit event of a document  *)
(* read, and the page, which builds one view from the answers of two       *)
(* requests and repeats the load once when it times out or fails. Reloads  *)
(* and the death of the replica come between any two of these steps.       *)
(*                                                                         *)
(* A thread serves a question, as in QaAnswer, or the loads of one page,   *)
(* which may be the one a citation of its answer links to.                 *)
(* Versions are published ones; a search text, which leaves out documents  *)
(* by their score, is not given. The image served beside the API is built  *)
(* without the demonstration fallback.                                     *)
(***************************************************************************)
EXTENDS QaAnswer

CONSTANTS
  MadeUp,   \* MadeUp[d]: the version with the id "<d>:v1.0", if there is one
  Retries,  \* retry of queryClient: 1
  Code,     \* Code[d]: place of a document in the order of document codes
  Position,       \* Position[p][x]: place of a provision in its version's list,
                  \* chapters and articles counted, in publication p
  DocumentLimit,  \* 50 documents the page asks for
  ProvisionLimit  \* 100 provisions it asks for

\* Every version has provisions, which say whose version it is.
VersionsOf(p, d) ==
  {v \in Content[p].versions :
     \E x \in Prov : Place[x].version = v /\ Place[x].doc = d}

\* The effective version of a document is chosen among its own versions.
ASSUME BrowsingAssumption ==
  /\ MadeUp \in [Doc -> Version \cup {None}]
  /\ {Retries, DocumentLimit, ProvisionLimit} \subseteq Nat
  /\ Code \in [Doc -> Nat]
  /\ Position \in [Pub -> [Prov -> Nat]]
  /\ \A p \in Pub : \A d \in Content[p].docs :
       Content[p].effective[d] \in VersionsOf(p, d) \cup {None}

VARIABLES
  page,      \* how far each page is
  route,     \* the page: documents that match its filters, or one document
  cited,     \* the citation whose link opened the page, if it was one
  tries,     \* loads that were repeated
  listing,   \* documents and versions answered so far, with where they were read
  chosen,    \* the version whose text a detail page asks for
  text,      \* its provisions, with where they were read
  reads,     \* threads whose regulation.read audit event is stored
  seen       \* history: publications the replica served during the load

pages == <<page, route, cited, tries, listing, chosen, text, reads, seen>>
browsingVars == <<vars, pages>>

Route ==
  [detail : {FALSE}, docs : SUBSET Doc, version : {None}] \cup
  [detail : {TRUE}, docs : {{d} : d \in Doc}, version : Version \cup {None}]

Entry == [doc : Doc, version : Version, pub : Pub]

ReadRequest == {"document", "versions", "audit"}
TextRequest == {"permit", "again", "version", "provisions"}
InFlight == {"library", "list"} \cup ReadRequest \cup TextRequest

BrowsingTypeOK ==
  /\ QaTypeOK
  /\ page \in [Thread -> InFlight \cup {"none", "choose", "shown", "failed", "lost"}]
  /\ route \in [Thread -> Route]
  /\ \A t \in Thread : cited[t] \subseteq Citation
  /\ tries \in [Thread -> 0 .. Retries]
  /\ \A t \in Thread : listing[t] \subseteq Entry /\ text[t] \subseteq Hit
  /\ chosen \in [Thread -> Version \cup {None}]
  /\ reads \subseteq Thread
  /\ seen \in [Thread -> SUBSET Pub]

BrowsingInit ==
  /\ Init
  /\ page = [t \in Thread |-> "none"]
  /\ route = [t \in Thread |-> [detail |-> FALSE, docs |-> {}, version |-> None]]
  /\ cited = [t \in Thread |-> {}]
  /\ tries = [t \in Thread |-> 0]
  /\ listing = [t \in Thread |-> {}]
  /\ chosen = [t \in Thread |-> None]
  /\ text = [t \in Thread |-> {}]
  /\ reads = {}
  /\ seen = [t \in Thread |-> {}]

Document(t) == CHOOSE d \in route[t].docs : TRUE

\* A step of thread t's request that reads the snapshot: the request goes on
\* if what it looks for is there, and else answers with an error.
Step(t, from, to, found) ==
  /\ page[t] = from
  /\ page' = Set(page, t, IF found THEN to ELSE "failed")

server == <<repository, phase, bound, refs, hits, claims, stores, readers,
            reloads, faults>>

(***************************************************************************)
(* The page                                                                *)
(***************************************************************************)

FirstRequest(r) == IF r.detail THEN "document" ELSE "library"

StartLoad(t, r) ==
  /\ page' = Set(page, t, FirstRequest(r))
  /\ listing' = Set(listing, t, {})
  /\ text' = Set(text, t, {})
  /\ chosen' = Set(chosen, t, None)
  /\ stable' = Set(stable, t, TRUE)
  /\ seen' = Set(seen, t, {snapshot})
  /\ UNCHANGED <<server, local, docs, reads>>

Open(t, r) ==
  /\ page[t] = "none" /\ phase[t] = "idle"
  /\ route' = Set(route, t, r)
  /\ StartLoad(t, r)
  /\ UNCHANGED <<cited, tries>>

\* citationLink: the document and version of a citation in the answer shown,
\* with the provision to scroll to.
CitationLink(c) ==
  [detail |-> TRUE, docs |-> {Place[c.prov].doc}, version |-> Place[c.prov].version]

FollowCitation(t, c) ==
  /\ page[t] = "none" /\ phase[t] = "returned"
  /\ \E answer \in shown : answer.id = t /\ c \in answer.citations
  /\ route' = Set(route, t, CitationLink(c))
  /\ cited' = Set(cited, t, {c})
  /\ StartLoad(t, CitationLink(c))
  /\ UNCHANGED tries

\* Mutant: the first load is not counted.
RetryOnceMore(t) ==
  /\ page[t] \in {"failed", "lost"}
  /\ tries[t] <= Retries
  /\ tries' = [tries EXCEPT ![t] = @ + 1]
  /\ StartLoad(t, route[t])
  /\ UNCHANGED <<route, cited>>

\* The whole load is repeated, not the request that failed.
Retry(t) ==
  /\ page[t] \in {"failed", "lost"}
  /\ tries[t] < Retries
  /\ tries' = [tries EXCEPT ![t] = @ + 1]
  /\ StartLoad(t, route[t])
  /\ UNCHANGED <<route, cited>>

\* The request is aborted after REQUEST_TIMEOUT; the server goes on with it,
\* and may or may not get as far as its audit event.
TimeOut(t) ==
  /\ page[t] \in InFlight
  /\ page' = Set(page, t, "lost")
  /\ \/ page[t] \in ReadRequest /\ reads' = reads \cup {t}
     \/ UNCHANGED reads
  /\ UNCHANGED <<server, local, docs, stable, route, cited, tries, listing, chosen,
                 text, seen>>

EffectiveVersion(t) ==
  {e.version : e \in {x \in listing[t] : x.version = Content[x.pub].effective[x.doc]}}

\* Mutant: the version in force is preferred to the one in the address.
ChooseEffective(t) ==
  /\ page[t] = "choose"
  /\ page' = Set(page, t, "permit")
  /\ chosen' = Set(chosen, t,
       IF EffectiveVersion(t) # {} THEN CHOOSE v \in EffectiveVersion(t) : TRUE
       ELSE MadeUp[Document(t)])
  /\ UNCHANGED <<server, local, docs, stable, route, cited, tries, listing, text,
                 reads, seen>>

\* The version in the address, else the listed one that is effective, else
\* the version normalizeVersion makes up of no answer at all.
Choose(t) ==
  /\ page[t] = "choose"
  /\ page' = Set(page, t, "permit")
  /\ chosen' = Set(chosen, t,
       IF \E e \in listing[t] : e.version = route[t].version THEN route[t].version
       ELSE IF EffectiveVersion(t) # {} THEN CHOOSE v \in EffectiveVersion(t) : TRUE
       ELSE MadeUp[Document(t)])
  /\ UNCHANGED <<server, local, docs, stable, route, cited, tries, listing, text,
                 reads, seen>>

(***************************************************************************)
(* RegulationService                                                       *)
(***************************************************************************)

\* Mutant: the list is not restricted to what the principal may read.
ListWithoutScope(t) ==
  /\ Step(t, "library", "list", TRUE)
  /\ local' = Set(local, t, snapshot)
  /\ docs' = Set(docs, t, route[t].docs \cap Content[snapshot].docs)
  /\ UNCHANGED <<server, stable, route, cited, tries, listing, chosen, text, reads, seen>>

\* list_regulations: documents of one snapshot,
ListRegulations(t) ==
  /\ Step(t, "library", "list", TRUE)
  /\ local' = Set(local, t, snapshot)
  /\ docs' = Set(docs, t, route[t].docs \cap Content[snapshot].readable)
  /\ UNCHANGED <<server, stable, route, cited, tries, listing, chosen, text, reads, seen>>

\* and the effective version of each in the snapshot of that moment: if the
\* document has left it, the whole list is answered with NotFoundError.
ListRegulation(t, d) ==
  /\ d \in docs[t]
  /\ Step(t, "list", "list", d \in Content[snapshot].docs)
  /\ docs' = [docs EXCEPT ![t] = @ \ {d}]
  /\ listing' = [listing EXCEPT ![t] = @ \cup
       {[doc |-> d, version |-> v, pub |-> snapshot] :
          v \in {Content[snapshot].effective[d]} \ {None}}]
  /\ UNCHANGED <<server, local, stable, route, cited, tries, chosen, text, reads, seen>>

\* The first entries by document code, as many as the page asks for.
FirstOf(entries) ==
  {e \in entries :
     Cardinality({f \in entries : Code[f.doc] < Code[e.doc]}) < DocumentLimit}

LibraryShown(t) ==
  /\ docs[t] = {}
  /\ Step(t, "list", "shown", TRUE)
  /\ listing' = Set(listing, t, FirstOf(listing[t]))
  /\ UNCHANGED <<server, local, docs, stable, route, cited, tries, chosen,
                 text, reads, seen>>

Unread == <<server, local, docs, stable, route, cited, tries, seen>>

\* Mutant: get_document forgets can_read.
KnownDocument(t, from, to) ==
  /\ Step(t, from, to, Document(t) \in Content[snapshot].docs)
  /\ UNCHANGED <<Unread, listing, chosen, text, reads>>

\* get_document: the document, if it may be read,
GetDocument(t, from, to) ==
  /\ Step(t, from, to, Document(t) \in Content[snapshot].readable)
  /\ UNCHANGED <<Unread, listing, chosen, text, reads>>

\* with its versions in another snapshot,
ListVersions(t) ==
  /\ Step(t, "versions", "audit", Document(t) \in Content[snapshot].docs)
  /\ listing' = Set(listing, t,
       {[doc |-> Document(t), version |-> v, pub |-> snapshot] :
          v \in VersionsOf(snapshot, Document(t))})
  /\ UNCHANGED <<Unread, chosen, text, reads>>

\* Mutant: the document is answered although its read was not recorded.
AuditReadIfPossible(t) ==
  /\ Step(t, "audit", "choose", TRUE)
  /\ reads' = reads \cup {t} \/ UNCHANGED reads
  /\ UNCHANGED <<Unread, listing, chosen, text>>

\* answered once regulation.read is stored.
AuditRead(t) ==
  /\ Step(t, "audit", "choose", TRUE)
  /\ reads' = reads \cup {t}
  /\ UNCHANGED <<Unread, listing, chosen, text>>

AuditReadFails(t) ==
  /\ faults < MaxFaults
  /\ faults' = faults + 1
  /\ page[t] = "audit"
  /\ page' = Set(page, t, "lost")
  /\ UNCHANGED <<repository, phase, query, stores, readers, stable, reloads,
                 route, cited, tries, listing, chosen, text, reads, seen>>

\* get_provisions calls get_version, which calls get_document for its checks,
ListVersionsAgain(t) ==
  /\ Step(t, "again", "version", Document(t) \in Content[snapshot].docs)
  /\ UNCHANGED <<Unread, listing, chosen, text, reads>>

GetVersion(t) ==
  /\ Step(t, "version", "provisions", chosen[t] \in VersionsOf(snapshot, Document(t)))
  /\ UNCHANGED <<Unread, listing, chosen, text, reads>>

\* The paragraphs among the first provisions of v, as many as the page asks for.
FirstPage(p, v) == {x \in ParagraphsOf(p, v) : Position[p][x] <= ProvisionLimit}

\* and looks the version up once more: a KeyError if it has gone since.
GetProvisions(t) ==
  /\ Step(t, "provisions", "shown", chosen[t] \in Content[snapshot].versions)
  /\ text' = Set(text, t, HitsIn(snapshot, FirstPage(snapshot, chosen[t])))
  /\ UNCHANGED <<Unread, listing, chosen, reads>>

BrowseStep(t) ==
  \/ \E r \in Route : Open(t, r)
  \/ \E answer \in shown : \E c \in answer.citations : FollowCitation(t, c)
  \/ Retry(t) \/ TimeOut(t) \/ Choose(t)
  \/ ListRegulations(t) \/ LibraryShown(t)
  \/ \E d \in Doc : ListRegulation(t, d)
  \/ GetDocument(t, "document", "versions")
  \/ ListVersions(t) \/ AuditRead(t) \/ AuditReadFails(t)
  \/ GetDocument(t, "permit", "again")
  \/ ListVersionsAgain(t) \/ GetVersion(t) \/ GetProvisions(t)

(***************************************************************************)
(* The replica: questions, reloads and crashes are those of QaAnswer       *)
(***************************************************************************)

Question(t) ==
  /\ page[t] = "none"
  /\ AnswerStep(t) \/ RecordFails(t)
  /\ UNCHANGED pages

Loading(t) == page[t] \in InFlight \cup {"choose"}

\* The next snapshot is added to what each unfinished load may have read.
SeenNext ==
  seen' = [t \in Thread |-> IF Loading(t) THEN seen[t] \cup {snapshot'} ELSE seen[t]]

Reload ==
  \/ /\ \E p \in Pub : CommitReload(p)
     /\ UNCHANGED pages
  \/ /\ AssignSnapshot
     /\ SeenNext
     /\ UNCHANGED <<page, route, cited, tries, listing, chosen, text, reads>>

\* The requests in flight are lost; a page between its requests goes on.
Restart ==
  /\ Crash
  /\ page' = [t \in Thread |-> IF page[t] \in InFlight THEN "lost" ELSE page[t]]
  /\ SeenNext
  /\ UNCHANGED <<route, cited, tries, listing, chosen, text, reads>>

Reread ==
  /\ \E r \in Reader : ReturnResult(r) \/ \E t \in Thread : LoadResult(r, t)
  /\ UNCHANGED pages

BrowsingNext ==
  \/ \E t \in Thread : BrowseStep(t) \/ Question(t)
  \/ Reload
  \/ Restart
  \/ Reread

BrowsingSpec == BrowsingInit /\ [][BrowsingNext]_browsingVars

(***************************************************************************)
(* Properties                                                              *)
(***************************************************************************)

\* What a detail page shows was served: its text is the beginning of its
\* version, up to the limit of the page, in one publication that was current
\* during the load, and its document could be read in one that was, however
\* reloads and crashes fall between the seven snapshots that the two requests
\* take.
PagesWereServed ==
  \A t \in Thread : page[t] = "shown" /\ route[t].detail =>
    /\ \E p \in seen[t] : Document(t) \in Content[p].readable
    /\ \E p \in seen[t] :
         /\ chosen[t] \in VersionsOf(p, Document(t))
         /\ text[t] = HitsIn(p, FirstPage(p, chosen[t]))

\* A load over which no snapshot is assigned lists, of the documents that match
\* and may be read, the effective versions of the first ones, no more than
\* the page asks for: a document without one, or one that may not be read,
\* takes no place. It shows the text of the publication it listed, and fails
\* only for a document that may not be read or has no version at the date.
StablePagesConsistent ==
  \A t \in Thread : stable[t] /\ page[t] # "none" =>
    LET now == Content[snapshot]
        readable == route[t].docs \cap now.readable
    IN /\ page[t] = "failed" =>
            /\ route[t].detail
            /\ readable = {} \/ now.effective[Document(t)] = None
       /\ page[t] = "shown" /\ ~route[t].detail =>
            listing[t] = FirstOf(
              {[doc |-> d, version |-> now.effective[d], pub |-> snapshot] :
                 d \in {x \in readable : now.effective[x] # None}})
       /\ page[t] = "shown" /\ route[t].detail =>
            \A h \in text[t] : \A e \in listing[t] : h.pub = e.pub

\* The publications served during the load of t have the cited text as it was
\* quoted, within what the page asks for.
StillPublished(t, c) ==
  \A p \in seen[t] : /\ c.prov \in DOMAIN Content[p].body
                     /\ Content[p].body[c.prov] = c.quote
                     /\ Position[p][c.prov] <= ProvisionLimit

\* A citation opens the version it is from and finds the quoted text there,
\* also when another version has come into force since the answer, or comes
\* into force during the load: unless a reload has changed or removed the
\* text, or it comes after the first provisions, which are all the page asks
\* for, the quote is in the page at the provision it scrolls to.
CitationsOpenTheirText ==
  \A t \in Thread : page[t] = "shown" =>
    \A c \in cited[t] : StillPublished(t, c) =>
      /\ chosen[t] = Place[c.prov].version
      /\ \E h \in text[t] : h.prov = c.prov /\ Quote(h) = c.quote

\* No detail page is shown whose read is not audited, whichever of its loads
\* timed out or was repeated.
PagesAudited ==
  \A t \in Thread : page[t] = "shown" /\ route[t].detail => t \in reads

===============================================================================
