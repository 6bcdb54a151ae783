----------------------- MODULE RegulationBrowsingProofs -----------------------
(***************************************************************************)
(* Proofs about RegulationBrowsing: a document read is audited before it   *)
(* is shown, what a detail page shows was served during its load, a load   *)
(* over which no snapshot is assigned shows one publication, and a         *)
(* citation opens the text it quotes. The questions asked beside the pages *)
(* keep what QaAnswerProofs says of them.                                  *)
(***************************************************************************)
EXTENDS RegulationBrowsing, QaAnswerProofs

FunctionsOK ==
  /\ DOMAIN page = Thread
  /\ DOMAIN route = Thread
  /\ DOMAIN chosen = Thread
  /\ DOMAIN text = Thread
  /\ DOMAIN seen = Thread

\* The steps of the library's request are not those of a detail page.
LibraryRequests ==
  \A t \in Thread : page[t] \in {"library", "list"} => ~route[t].detail

\* Past its first request, a detail page has its read on record.
ReadsRecorded ==
  \A t \in Thread :
    page[t] \in TextRequest \cup {"choose", "shown"} /\ route[t].detail => t \in reads

AuditInv == FunctionsOK /\ LibraryRequests /\ ReadsRecorded

\* A load that is going on has seen the snapshot that is current.
SnapshotSeen == \A t \in Thread : Loading(t) => snapshot \in seen[t]

\* Once get_document has let the second request pass, a publication in which
\* the document may be read has been seen.
ReadableSeen ==
  \A t \in Thread :
    page[t] \in {"again", "version", "provisions", "shown"} /\ route[t].detail =>
      \E p \in seen[t] : Document(t) \in Content[p].readable

\* Once get_version has passed, the version is one of the document.
VersionOfDocument ==
  \A t \in Thread :
    page[t] \in {"provisions", "shown"} /\ route[t].detail =>
      \E x \in Prov : Place[x].version = chosen[t] /\ Place[x].doc = Document(t)

TextSeen ==
  \A t \in Thread :
    page[t] = "shown" /\ route[t].detail =>
      \E p \in seen[t] :
        /\ chosen[t] \in VersionsOf(p, Document(t))
        /\ text[t] = HitsIn(p, FirstPage(p, chosen[t]))

ServedInv ==
  /\ FunctionsOK /\ LibraryRequests
  /\ SnapshotSeen /\ ReadableSeen /\ VersionOfDocument /\ TextSeen

(***************************************************************************)
(* Steps that leave the pages alone                                        *)
(***************************************************************************)

\* Answering a question and reading a result again leave the snapshot alone.
LEMMA OthersKeepSnapshot ==
  ASSUME NEW t \in Thread, AnswerStep(t) \/ RecordFails(t)
  PROVE  UNCHANGED snapshot
<1>1. CASE BeginAnswer(t) \/ BindSnapshot(t) \/ BeginGraphLane(t) \/ EndGraphLane(t)
  BY <1>1 DEF BeginAnswer, BindSnapshot, BeginGraphLane, EndGraphLane, environment, repository
<1>2. CASE \E d \in Doc : LookUp(t, d) \/ LookupError(t, d)
  BY <1>2 DEF LookUp, LookupError, environment, repository
<1>3. CASE Rank(t) \/ NoEvidence(t) \/ EndDenied(t) \/ PackPrimaryArticle(t)
  BY <1>3 DEF Rank, NoEvidence, EndDenied, PackPrimaryArticle, environment, repository
<1>4. CASE BeginCrossReferences(t) \/ EndCrossReferences(t)
  BY <1>4 DEF BeginCrossReferences, EndCrossReferences, environment, repository
<1>5. CASE \E ref \in Doc \X Article : FindArticle(t, ref) \/ AddParagraphs(t, ref)
  BY <1>5 DEF FindArticle, AddParagraphs, environment, repository
<1>6. CASE Generate(t) \/ ProviderUnavailable(t) \/ TraceAnswer(t) \/ Abstain(t)
  BY <1>6 DEF Generate, ProviderUnavailable, TraceAnswer, Abstain, environment, repository
<1>7. CASE SaveResult(t) \/ AppendEvent(t) \/ RecordFails(t)
  BY <1>7 DEF SaveResult, AppendEvent, RecordFails, repository
<1> QED
  BY <1>1, <1>2, <1>3, <1>4, <1>5, <1>6, <1>7 DEF AnswerStep

LEMMA IdleSteps ==
  ASSUME \/ \E t \in Thread : Question(t)
         \/ \E p \in Pub : CommitReload(p) /\ UNCHANGED pages
         \/ Reread
         \/ UNCHANGED browsingVars
  PROVE  UNCHANGED <<snapshot, pages>>
<1>1. CASE \E t \in Thread : Question(t)
  BY <1>1, OthersKeepSnapshot DEF Question
<1>2. CASE \E p \in Pub : CommitReload(p) /\ UNCHANGED pages
  BY <1>2 DEF CommitReload
<1>3. CASE Reread
  BY <1>3 DEF Reread, ReturnResult, LoadResult, repository
<1>4. CASE UNCHANGED browsingVars
  BY <1>4 DEF browsingVars, vars, repository
<1> QED
  BY <1>1, <1>2, <1>3, <1>4

(***************************************************************************)
(* Reads are audited                                                       *)
(***************************************************************************)

LEMMA AuditInitially == BrowsingInit => AuditInv
BY DEF BrowsingInit, AuditInv, FunctionsOK, LibraryRequests, ReadsRecorded, TextRequest

LEMMA AuditPreserved ==
  ASSUME AuditInv, [BrowsingNext]_browsingVars
  PROVE  AuditInv'
<1> USE DEF AuditInv, FunctionsOK, LibraryRequests, ReadsRecorded, TextRequest, Set
<1>1. ASSUME NEW t \in Thread, BrowseStep(t)
      PROVE  AuditInv'
  <2>1. ASSUME NEW r \in Route, Open(t, r)
        PROVE  AuditInv'
    BY <2>1 DEF Open, StartLoad, FirstRequest
  <2>16. ASSUME NEW c, FollowCitation(t, c)
         PROVE  AuditInv'
    BY <2>16 DEF FollowCitation, CitationLink, StartLoad, FirstRequest
  <2>2. CASE Retry(t)
    BY <2>2 DEF Retry, StartLoad, FirstRequest
  <2>3. CASE TimeOut(t)
    BY <2>3 DEF TimeOut
  <2>4. CASE Choose(t)
    BY <2>4 DEF Choose
  <2>5. CASE ListRegulations(t)
    BY <2>5 DEF ListRegulations, Step
  <2>6. CASE LibraryShown(t)
    BY <2>6 DEF LibraryShown, Step
  <2>7. ASSUME NEW d \in Doc, ListRegulation(t, d)
        PROVE  AuditInv'
    BY <2>7 DEF ListRegulation, Step
  <2>8. CASE GetDocument(t, "document", "versions")
    BY <2>8 DEF GetDocument, Unread, Step
  <2>9. CASE ListVersions(t)
    BY <2>9 DEF ListVersions, Unread, Step
  <2>10. CASE AuditRead(t)
    BY <2>10 DEF AuditRead, Unread, Step
  <2>11. CASE AuditReadFails(t)
    BY <2>11 DEF AuditReadFails
  <2>12. CASE GetDocument(t, "permit", "again")
    BY <2>12 DEF GetDocument, Unread, Step
  <2>13. CASE ListVersionsAgain(t)
    BY <2>13 DEF ListVersionsAgain, Unread, Step
  <2>14. CASE GetVersion(t)
    BY <2>14 DEF GetVersion, Unread, Step
  <2>15. CASE GetProvisions(t)
    BY <2>15 DEF GetProvisions, Unread, Step
  <2> QED
    BY <1>1, <2>1, <2>2, <2>3, <2>4, <2>5, <2>6, <2>7, <2>8, <2>9, <2>10,
       <2>11, <2>12, <2>13, <2>14, <2>15, <2>16 DEF BrowseStep
<1>2. CASE AssignSnapshot /\ SeenNext /\ UNCHANGED <<page, route, cited, tries, listing, chosen, text, reads>>
  BY <1>2 DEF SeenNext
<1>3. CASE Restart
  BY <1>3 DEF Restart, SeenNext
<1>4. CASE UNCHANGED <<snapshot, pages>>
  BY <1>4 DEF pages
<1> QED
  BY <1>1, <1>2, <1>3, <1>4, IdleSteps DEF BrowsingNext, Reload

\* Whichever of its loads timed out, failed or was repeated, a detail page is
\* shown only after regulation.read was stored for it.
THEOREM EveryPageAudited == BrowsingSpec => []PagesAudited
<1>1. AuditInv => PagesAudited
  BY DEF AuditInv, ReadsRecorded, PagesAudited
<1> QED
  BY <1>1, AuditInitially, AuditPreserved, PTL DEF BrowsingSpec

(***************************************************************************)
(* Pages were served                                                       *)
(***************************************************************************)

LEMMA ServedInitially == BrowsingInit => ServedInv
BY DEF BrowsingInit, ServedInv, FunctionsOK, LibraryRequests, SnapshotSeen, ReadableSeen,
       VersionOfDocument, TextSeen, Loading, InFlight, ReadRequest, TextRequest

\* The conjuncts of the invariant about one thread.
ThreadServed(t) ==
  /\ page[t] \in {"library", "list"} => ~route[t].detail
  /\ Loading(t) => snapshot \in seen[t]
  /\ page[t] \in {"again", "version", "provisions", "shown"} /\ route[t].detail =>
       \E p \in seen[t] : Document(t) \in Content[p].readable
  /\ page[t] \in {"provisions", "shown"} /\ route[t].detail =>
       \E x \in Prov : Place[x].version = chosen[t] /\ Place[x].doc = Document(t)
  /\ page[t] = "shown" /\ route[t].detail =>
       \E p \in seen[t] :
         /\ chosen[t] \in VersionsOf(p, Document(t))
         /\ text[t] = HitsIn(p, FirstPage(p, chosen[t]))

LEMMA ServedByThread ==
  ServedInv <=> FunctionsOK /\ \A t \in Thread : ThreadServed(t)
BY DEF ServedInv, LibraryRequests, SnapshotSeen, ReadableSeen, VersionOfDocument,
       TextSeen, ThreadServed

\* Whatever happens to the other threads, a thread whose page, text and seen
\* publications stay as they are keeps its part of the invariant.
LEMMA UntouchedThread ==
  ASSUME NEW u \in Thread, ThreadServed(u), snapshot' = snapshot,
         page'[u] = page[u], route'[u] = route[u], chosen'[u] = chosen[u],
         text'[u] = text[u], seen'[u] = seen[u]
  PROVE  ThreadServed(u)'
<1>1. Document(u)' = Document(u)
  BY DEF Document
<1> QED
  BY <1>1 DEF ThreadServed, Loading

\* A step of one page keeps the invariant if it keeps that thread's part.
LEMMA PageStep ==
  ASSUME ServedInv, NEW t \in Thread, FunctionsOK', snapshot' = snapshot,
         \A u \in Thread \ {t} :
           /\ page'[u] = page[u] /\ route'[u] = route[u] /\ chosen'[u] = chosen[u]
           /\ text'[u] = text[u] /\ seen'[u] = seen[u],
         ThreadServed(t)'
  PROVE  ServedInv'
<1>1. ASSUME NEW u \in Thread, u # t
      PROVE  ThreadServed(u)'
  BY <1>1, UntouchedThread, ServedByThread
<1>2. \A u \in Thread : ThreadServed(u)'
  BY <1>1
<1> QED
  BY <1>2 DEF ServedInv, LibraryRequests, SnapshotSeen, ReadableSeen,
              VersionOfDocument, TextSeen, ThreadServed

LEMMA SameDocument ==
  ASSUME NEW t \in Thread, route' = route
  PROVE  Document(t)' = Document(t)
BY DEF Document

\* A new load has seen the current snapshot and shows nothing yet.
LEMMA LoadServed ==
  ASSUME ServedInv, NEW t \in Thread, NEW r, StartLoad(t, r), r = route'[t],
         route' = [route EXCEPT ![t] = r] \/ route' = route
  PROVE  ServedInv'
<1>1. FunctionsOK'
  BY DEF ServedInv, FunctionsOK, StartLoad, Set
<1>2. ThreadServed(t)'
  BY DEF ServedInv, FunctionsOK, StartLoad, Set, FirstRequest, ThreadServed, server, repository
<1> QED
  BY <1>1, <1>2, PageStep DEF ServedInv, FunctionsOK, StartLoad, Set, server, repository

\* Lookups that do not end the load: the page goes on or fails.
LEMMA LookupServed ==
  ASSUME ServedInv, NEW t \in Thread, NEW from, NEW to, NEW found,
         Step(t, from, to, found), UNCHANGED <<snapshot, route, chosen, text, seen>>,
         from \in InFlight, to \in InFlight \cup {"choose"},
         to \in {"library", "list"} => ~route[t].detail,
         to \in {"again", "version", "provisions"} =>
           from \in {"again", "version", "provisions"}
             \/ (found => Document(t) \in Content[snapshot].readable),
         to = "provisions" =>
           from = "provisions" \/ (found => chosen[t] \in VersionsOf(snapshot, Document(t)))
  PROVE  ServedInv'
<1>1. FunctionsOK'
  BY DEF ServedInv, FunctionsOK, Step, Set
<1>2. page' = [page EXCEPT ![t] = IF found THEN to ELSE "failed"] /\ page[t] = from
  BY DEF Step, Set
<1>3. Document(t)' = Document(t)
  BY SameDocument
<1>4. snapshot \in seen[t]
  BY <1>2 DEF ServedInv, SnapshotSeen, Loading
<1>5. ThreadServed(t)'
  <2>1. CASE ~found
    BY <2>1, <1>2 DEF ServedInv, FunctionsOK, ThreadServed, Loading, InFlight, ReadRequest, TextRequest
  <2>2. CASE found
    BY <2>2, <1>2, <1>3, <1>4 DEF ServedInv, FunctionsOK, ReadableSeen, VersionOfDocument,
       VersionsOf, ThreadServed, Loading, InFlight, ReadRequest, TextRequest
  <2> QED
    BY <2>1, <2>2
<1> QED
  BY <1>1, <1>2, <1>5, PageStep DEF ServedInv, FunctionsOK

\* The text a detail page is answered with is read when it is shown.
LEMMA TextServed ==
  ASSUME ServedInv, NEW t \in Thread, GetProvisions(t)
  PROVE  ServedInv'
<1> DEFINE ok == chosen[t] \in Content[snapshot].versions
<1>1. /\ page[t] = "provisions"
      /\ page' = [page EXCEPT ![t] = IF ok THEN "shown" ELSE "failed"]
      /\ text' = [text EXCEPT ![t] = HitsIn(snapshot, FirstPage(snapshot, chosen[t]))]
      /\ UNCHANGED <<snapshot, route, chosen, seen>>
  BY DEF GetProvisions, Step, Set, Unread, server, repository
<1>2. FunctionsOK'
  BY <1>1 DEF ServedInv, FunctionsOK
<1>3. Document(t)' = Document(t)
  BY <1>1, SameDocument
<1>4. snapshot \in seen[t]
  BY <1>1 DEF ServedInv, SnapshotSeen, Loading, InFlight, TextRequest
<1>5. ThreadServed(t)'
  <2>1. CASE ~ok
    BY <2>1, <1>1 DEF ServedInv, FunctionsOK, ThreadServed, Loading, InFlight,
                      ReadRequest, TextRequest
  <2>2. CASE ok
    <3>1. page'[t] = "shown"
      BY <2>2, <1>1 DEF ServedInv, FunctionsOK
    <3>2. ~Loading(t)'
      BY <3>1 DEF Loading, InFlight, ReadRequest, TextRequest
    <3>3. ASSUME route[t].detail
          PROVE  /\ \E p \in seen[t] : Document(t) \in Content[p].readable
                 /\ \E x \in Prov : Place[x].version = chosen[t] /\ Place[x].doc = Document(t)
      BY <3>3, <1>1 DEF ServedInv, ReadableSeen, VersionOfDocument
    <3>4. route[t].detail => chosen[t] \in VersionsOf(snapshot, Document(t))
      BY <3>3, <2>2 DEF VersionsOf
    <3>5. text'[t] = HitsIn(snapshot, FirstPage(snapshot, chosen[t]))
      BY <1>1 DEF ServedInv, FunctionsOK
    <3> QED
      BY <3>1, <3>2, <3>3, <3>4, <3>5, <1>1, <1>3, <1>4 DEF ThreadServed
  <2> QED
    BY <2>1, <2>2
<1> QED
  BY <1>1, <1>2, <1>5, PageStep DEF ServedInv, FunctionsOK

\* Reloads and crashes: what a load has seen only grows, and includes the
\* snapshot that comes next.
LEMMA SeenServed ==
  ASSUME ServedInv, SeenNext, UNCHANGED <<route, chosen, text>>, DOMAIN page' = Thread,
         \A t \in Thread : page'[t] = page[t] \/ page'[t] = "lost"
  PROVE  ServedInv'
<1>1. FunctionsOK'
  BY DEF ServedInv, FunctionsOK, SeenNext
<1>2. ASSUME NEW t \in Thread
      PROVE  ThreadServed(t)'
  <2>1. Document(t)' = Document(t)
    BY SameDocument
  <2>2. seen[t] \subseteq seen'[t] /\ (Loading(t) => snapshot' \in seen'[t])
    BY DEF SeenNext
  <2>3. CASE page'[t] = "lost"
    BY <2>3 DEF ThreadServed, Loading, InFlight, ReadRequest, TextRequest
  <2>4. CASE page'[t] = page[t]
    <3>1. Loading(t)' => Loading(t)
      BY <2>4 DEF Loading
    <3>2. ThreadServed(t)
      BY ServedByThread
    <3> QED
      BY <3>1, <3>2, <2>1, <2>2, <2>4 DEF ThreadServed
  <2> QED
    BY <2>3, <2>4
<1> QED
  BY <1>1, <1>2 DEF ServedInv, LibraryRequests, SnapshotSeen, ReadableSeen,
                    VersionOfDocument, TextSeen, ThreadServed

LEMMA BrowseServed ==
  ASSUME ServedInv, NEW t \in Thread, BrowseStep(t)
  PROVE  ServedInv'
<1> USE DEF InFlight, ReadRequest, TextRequest
<1>1. ASSUME NEW r \in Route, Open(t, r)
      PROVE  ServedInv'
  BY <1>1, LoadServed DEF Open, Set, ServedInv, FunctionsOK
<1>16. ASSUME NEW c, FollowCitation(t, c)
       PROVE  ServedInv'
  BY <1>16, LoadServed DEF FollowCitation, Set, ServedInv, FunctionsOK
<1>2. CASE Retry(t)
  BY <1>2, LoadServed DEF Retry
<1>3. CASE TimeOut(t)
  <2>1. FunctionsOK' /\ ThreadServed(t)'
    BY <1>3 DEF TimeOut, Set, ServedInv, FunctionsOK, ThreadServed, Loading
  <2> QED
    BY <1>3, <2>1, PageStep DEF TimeOut, Set, ServedInv, FunctionsOK, server, repository
<1>4. CASE AuditReadFails(t)
  <2>1. FunctionsOK' /\ ThreadServed(t)'
    BY <1>4 DEF AuditReadFails, Set, ServedInv, FunctionsOK, ThreadServed, Loading
  <2> QED
    BY <1>4, <2>1, PageStep DEF AuditReadFails, Set, ServedInv, FunctionsOK, repository
<1>5. CASE Choose(t)
  <2>1. page[t] = "choose" /\ page' = [page EXCEPT ![t] = "permit"]
        /\ UNCHANGED <<snapshot, route, text, seen>>
    BY <1>5 DEF Choose, Set, server, repository
  <2>2. FunctionsOK'
    BY <1>5, <2>1 DEF Choose, Set, ServedInv, FunctionsOK
  <2>3. ThreadServed(t)'
    BY <2>1 DEF ServedInv, FunctionsOK, SnapshotSeen, ThreadServed, Loading
  <2> QED
    BY <1>5, <2>1, <2>2, <2>3, PageStep DEF Choose, Set, ServedInv, FunctionsOK
<1>6. CASE LibraryShown(t)
  <2>1. page[t] = "list" /\ page' = [page EXCEPT ![t] = "shown"]
        /\ UNCHANGED <<snapshot, route, chosen, text, seen>>
    BY <1>6 DEF LibraryShown, Step, Set, server, repository
  <2>2. FunctionsOK' /\ ThreadServed(t)'
    BY <2>1 DEF ServedInv, FunctionsOK, LibraryRequests, ThreadServed, Loading
  <2> QED
    BY <2>1, <2>2, PageStep DEF ServedInv, FunctionsOK
<1>7. CASE ListRegulations(t)
  BY <1>7, LookupServed DEF ListRegulations, Step, ServedInv, LibraryRequests, server, repository
<1>8. ASSUME NEW d \in Doc, ListRegulation(t, d)
      PROVE  ServedInv'
  BY <1>8, LookupServed DEF ListRegulation, Step, ServedInv, LibraryRequests, server, repository
<1>9. CASE GetDocument(t, "document", "versions")
  BY <1>9, LookupServed DEF GetDocument, Unread, server, repository
<1>10. CASE ListVersions(t)
  BY <1>10, LookupServed DEF ListVersions, Unread, server, repository
<1>11. CASE AuditRead(t)
  BY <1>11, LookupServed DEF AuditRead, Unread, server, repository
<1>12. CASE GetDocument(t, "permit", "again")
  BY <1>12, LookupServed DEF GetDocument, Unread, server, repository
<1>13. CASE ListVersionsAgain(t)
  BY <1>13, LookupServed DEF ListVersionsAgain, Unread, server, repository
<1>14. CASE GetVersion(t)
  BY <1>14, LookupServed DEF GetVersion, Unread, server, repository
<1>15. CASE GetProvisions(t)
  BY <1>15, TextServed
<1> QED
  BY <1>1, <1>2, <1>3, <1>4, <1>5, <1>6, <1>7, <1>8, <1>9, <1>10, <1>11, <1>12,
     <1>13, <1>14, <1>15, <1>16 DEF BrowseStep

LEMMA ServedPreserved ==
  ASSUME ServedInv, [BrowsingNext]_browsingVars
  PROVE  ServedInv'
<1>1. CASE \E t \in Thread : BrowseStep(t)
  BY <1>1, BrowseServed
<1>2. CASE AssignSnapshot /\ SeenNext /\ UNCHANGED <<page, route, cited, tries, listing, chosen, text, reads>>
  BY <1>2, SeenServed DEF ServedInv, FunctionsOK
<1>3. CASE Restart
  BY <1>3, SeenServed DEF Restart
<1>4. CASE UNCHANGED <<snapshot, pages>>
  <2>1. FunctionsOK'
    BY <1>4 DEF ServedInv, FunctionsOK, pages
  <2>2. ASSUME NEW t \in Thread
        PROVE  ThreadServed(t)'
    BY <1>4, UntouchedThread, ServedByThread DEF pages
  <2> QED
    BY <2>1, <2>2 DEF ServedInv, LibraryRequests, SnapshotSeen, ReadableSeen,
                      VersionOfDocument, TextSeen, ThreadServed
<1> QED
  BY <1>1, <1>2, <1>3, <1>4, IdleSteps DEF BrowsingNext, Reload

\* However reloads, crashes, timeouts and the repeated load fall between the
\* snapshots of its two requests, a detail page shows the text of one version of
\* its document, from its beginning as far as the page asks for it, as one
\* publication had it during the load, and the document could be read in a
\* publication of that time.
THEOREM EveryPageServed == BrowsingSpec => []PagesWereServed
<1>1. ServedInv => PagesWereServed
  BY DEF ServedInv, ReadableSeen, TextSeen, PagesWereServed
<1> QED
  BY <1>1, ServedInitially, ServedPreserved, PTL DEF BrowsingSpec

(***************************************************************************)
(* Questions beside pages, and what stable loads and citations open        *)
(***************************************************************************)

PageTypes ==
  /\ page \in [Thread -> InFlight \cup {"none", "choose", "shown", "failed", "lost"}]
  /\ route \in [Thread -> Route]
  /\ DOMAIN cited = Thread /\ DOMAIN listing = Thread /\ DOMAIN text = Thread
  /\ \A t \in Thread :
       cited[t] \subseteq Citation /\ listing[t] \subseteq Entry /\ text[t] \subseteq Hit
  /\ tries \in [Thread -> 0 .. Retries]
  /\ chosen \in [Thread -> Version \cup {None}]
  /\ reads \subseteq Thread
  /\ seen \in [Thread -> SUBSET Pub]

\* A page is opened before its thread asks a question or once it has its
\* answer, and only a detail page has the requests of one.
PageApart(t) ==
  /\ page[t] # "none" => phase[t] \in {"idle", "returned"}
  /\ page[t] \in ReadRequest \cup TextRequest \cup {"choose"} => route[t].detail

ListedEntries(p, ds) ==
  {[doc |-> d, version |-> Content[p].effective[d], pub |-> p] :
     d \in {x \in ds : Content[p].effective[x] # None}}

VersionEntries(p, d) == {[doc |-> d, version |-> v, pub |-> p] : v \in VersionsOf(p, d)}

Matching(t) == route[t].docs \cap Content[snapshot].readable

\* How far the library's list is, over one snapshot,
StableList(t) ==
  stable[t] =>
    /\ page[t] = "library" => listing[t] = {}
    /\ page[t] = "list" =>
         /\ local[t] = snapshot /\ docs[t] \subseteq Matching(t)
         /\ listing[t] = ListedEntries(snapshot, Matching(t) \ docs[t])
    /\ page[t] = "shown" /\ ~route[t].detail =>
         listing[t] = FirstOf(ListedEntries(snapshot, Matching(t)))

\* and a detail page: its document may be read, all its versions are listed,
\* and the one chosen is among them unless none is effective.
StableDetail(t) ==
  stable[t] =>
    /\ page[t] \in (ReadRequest \ {"document"}) \cup {"choose"} \cup TextRequest =>
         Document(t) \in Content[snapshot].readable
    /\ page[t] \in {"audit", "choose"} \cup TextRequest =>
         listing[t] = VersionEntries(snapshot, Document(t))
    /\ page[t] \in TextRequest =>
         \/ chosen[t] \in VersionsOf(snapshot, Document(t))
         \/ Content[snapshot].effective[Document(t)] = None
    /\ page[t] = "provisions" => chosen[t] \in VersionsOf(snapshot, Document(t))
    /\ page[t] = "shown" /\ route[t].detail =>
         /\ \A e \in listing[t] : e.pub = snapshot
         /\ \A h \in text[t] : h.pub = snapshot

\* A load over one snapshot fails for what the snapshot does not have.
StableFailure(t) ==
  stable[t] /\ page[t] = "failed" =>
    /\ route[t].detail
    /\ Matching(t) = {} \/ Content[snapshot].effective[Document(t)] = None

\* While what it cites is published, a citation's version is listed and chosen.
CitedOpens(t) ==
  /\ page[t] = "none" => cited[t] = {}
  /\ \A c \in cited[t] :
       /\ route[t] = CitationLink(c)
       /\ StillPublished(t, c) =>
            /\ page[t] \in {"audit", "choose"} =>
                 \E e \in listing[t] : e.version = Place[c.prov].version
            /\ page[t] \in TextRequest \cup {"shown"} => chosen[t] = Place[c.prov].version

LoadInv(t) ==
  PageApart(t) /\ StableList(t) /\ StableDetail(t) /\ StableFailure(t) /\ CitedOpens(t)

BrowsingInv == QaInv /\ PageTypes /\ \A t \in Thread : LoadInv(t)

\* The document of a detail page is the one document of its route.
LEMMA RouteDocument ==
  ASSUME NEW t \in Thread, route[t] \in Route, route[t].detail
  PROVE  Document(t) \in Doc /\ route[t].docs = {Document(t)}
<1>1. PICK d \in Doc : route[t].docs = {d}
  BY DEF Route
<1>. QED  BY <1>1 DEF Document

LEMMA LinkIsRoute ==
  ASSUME NEW c \in Citation
  PROVE  CitationLink(c) \in Route
BY QaAssumption DEF CitationLink, Citation, Route

PageUntouched(u) ==
  /\ page'[u] = page[u] /\ route'[u] = route[u] /\ cited'[u] = cited[u]
  /\ listing'[u] = listing[u] /\ chosen'[u] = chosen[u] /\ text'[u] = text[u]
  /\ seen'[u] = seen[u]
  /\ phase'[u] = phase[u] /\ stable'[u] = stable[u]
  /\ local'[u] = local[u] /\ docs'[u] = docs[u]

LEMMA PageUntouchedKeeps ==
  ASSUME NEW u \in Thread, LoadInv(u), PageUntouched(u), UNCHANGED snapshot
  PROVE  LoadInv(u)'
<1>1. Document(u)' = Document(u)
  BY DEF PageUntouched, Document
<1>2. Matching(u)' = Matching(u)
  BY DEF PageUntouched, Matching
<1>3. \A c : StillPublished(u, c)' <=> StillPublished(u, c)
  BY DEF PageUntouched, StillPublished
<1>. QED  BY <1>1, <1>2, <1>3
          DEF PageUntouched, LoadInv, PageApart, StableList, StableDetail, StableFailure, CitedOpens

\* A question's step leaves the other threads alone.
LEMMA QuestionKeepsOthers ==
  ASSUME QueryTypes, NEW t \in Thread, AnswerStep(t) \/ RecordFails(t)
  PROVE  \A u \in Thread \ {t} : Untouched(u)
<1>. USE DEF Set, Goto, query, environment, QueryTypes, Untouched
<1>1. CASE BeginAnswer(t) \/ BindSnapshot(t) \/ BeginGraphLane(t) \/ EndGraphLane(t)
  BY <1>1 DEF BeginAnswer, BindSnapshot, BeginGraphLane, EndGraphLane
<1>2. CASE \E d \in Doc : LookUp(t, d) \/ LookupError(t, d)
  BY <1>2 DEF LookUp, LookupError
<1>3. CASE Rank(t) \/ NoEvidence(t) \/ EndDenied(t) \/ PackPrimaryArticle(t)
  BY <1>3 DEF Rank, NoEvidence, EndDenied, PackPrimaryArticle
<1>4. CASE BeginCrossReferences(t) \/ EndCrossReferences(t)
  BY <1>4 DEF BeginCrossReferences, EndCrossReferences
<1>5. CASE \E ref \in Doc \X Article : FindArticle(t, ref) \/ AddParagraphs(t, ref)
  BY <1>5 DEF FindArticle, AddParagraphs
<1>6. CASE Generate(t) \/ ProviderUnavailable(t) \/ TraceAnswer(t) \/ Abstain(t)
  BY <1>6 DEF Generate, ProviderUnavailable, TraceAnswer, Abstain
<1>7. CASE SaveResult(t) \/ AppendEvent(t) \/ RecordFails(t)
  BY <1>7 DEF SaveResult, AppendEvent, RecordFails
<1>. QED  BY <1>1, <1>2, <1>3, <1>4, <1>5, <1>6, <1>7 DEF AnswerStep

\* A page's step leaves the queries of its thread ended or not begun.
LEMMA PageKeepsQuestions ==
  ASSUME QaInv, NEW t \in Thread, phase[t] \in {"idle", "returned"},
         UNCHANGED <<repository, phase, bound, refs, hits, claims, stores, readers, reloads>>,
         faults' \in 0 .. MaxFaults,
         local' \in [Thread -> Pub], docs' \in [Thread -> SUBSET Doc],
         stable' \in [Thread -> BOOLEAN],
         \A u \in Thread \ {t} :
           local'[u] = local[u] /\ docs'[u] = docs[u] /\ stable'[u] = stable[u]
  PROVE  QaInv'
<1>1. QaTypeOK' /\ GivenAsRecorded'
  BY DEF QaInv, QaTypeOK, GivenAsRecorded, IsRecorded, Shown, repository, stores, readers
<1>2. \A u \in Thread : Recorded(u)'
  BY UntouchedRecord DEF QaInv, stores
<1>3. ASSUME NEW u \in Thread, u # t
      PROVE  HitsPublished(u)' /\ Verified(u)' /\ Unmixed(u)'
  BY <1>3, UntouchedKeeps DEF QaInv, Untouched, repository
<1>4. HitsPublished(t)' /\ Verified(t)' /\ Unmixed(t)'
  BY DEF QaInv, HitsPublished, Verified, Unmixed, Looking, Ended
<1>. QED  BY <1>1, <1>2, <1>3, <1>4 DEF QaInv

\* A step of one page keeps the invariant if it keeps that page's part.
LEMMA PageStepKeeps ==
  ASSUME BrowsingInv, NEW t \in Thread, QaInv', PageTypes', UNCHANGED snapshot,
         \A u \in Thread \ {t} : PageUntouched(u), LoadInv(t)'
  PROVE  BrowsingInv'
<1>1. ASSUME NEW u \in Thread, u # t PROVE LoadInv(u)'
  BY <1>1, PageUntouchedKeeps DEF BrowsingInv
<1>. QED  BY <1>1 DEF BrowsingInv

\* A new load begins with nothing listed, whatever the last one found.
LEMMA LoadKeeps ==
  ASSUME BrowsingInv, NEW t \in Thread, StartLoad(t, route'[t]),
         phase[t] \in {"idle", "returned"},
         route' \in [Thread -> Route], DOMAIN cited' = Thread,
         cited'[t] \subseteq Citation, \A c \in cited'[t] : route'[t] = CitationLink(c),
         \A u \in Thread \ {t} : route'[u] = route[u] /\ cited'[u] = cited[u],
         tries' \in [Thread -> 0 .. Retries]
  PROVE  BrowsingInv'
<1>1. /\ page' = [page EXCEPT ![t] = FirstRequest(route'[t])]
      /\ listing' = [listing EXCEPT ![t] = {}] /\ text' = [text EXCEPT ![t] = {}]
      /\ chosen' = [chosen EXCEPT ![t] = None] /\ stable' = [stable EXCEPT ![t] = TRUE]
      /\ seen' = [seen EXCEPT ![t] = {snapshot}]
      /\ UNCHANGED <<server, local, docs, reads>>
  BY DEF StartLoad, Set
<1>2. PageTypes /\ QaInv /\ QaTypeOK
  BY DEF BrowsingInv, QaInv
<1>3. QaInv'
  BY <1>1, <1>2, PageKeepsQuestions DEF QaTypeOK, server
<1>4. PageTypes'
  <2>1. page' \in [Thread -> InFlight \cup {"none", "choose", "shown", "failed", "lost"}]
    BY <1>1, <1>2 DEF PageTypes, FirstRequest, InFlight, ReadRequest
  <2>2. DOMAIN listing' = Thread /\ DOMAIN text' = Thread /\ reads' = reads
        /\ chosen' \in [Thread -> Version \cup {None}] /\ seen' \in [Thread -> SUBSET Pub]
    BY <1>1, <1>2 DEF PageTypes, QaTypeOK
  <2>3. \A u \in Thread :
          cited'[u] \subseteq Citation /\ listing'[u] \subseteq Entry /\ text'[u] \subseteq Hit
    BY <1>1, <1>2 DEF PageTypes
  <2>. QED  BY <1>2, <2>1, <2>2, <2>3 DEF PageTypes
<1>5. \A u \in Thread \ {t} : PageUntouched(u)
  BY <1>1, <1>2 DEF PageTypes, QaTypeOK, PageUntouched, server
<1>6. LoadInv(t)'
  <2>1. /\ (page'[t] = "document" /\ route'[t].detail) \/ page'[t] = "library"
        /\ listing'[t] = {} /\ phase'[t] = phase[t]
    BY <1>1, <1>2 DEF PageTypes, FirstRequest, server
  <2>. QED  BY <2>1 DEF LoadInv, PageApart, StableList, StableDetail, StableFailure, CitedOpens,
                        ReadRequest, TextRequest
<1>. QED  BY <1>1, <1>3, <1>4, <1>5, <1>6, PageStepKeeps DEF server, repository

LEMMA OpeningKeeps ==
  ASSUME BrowsingInv, NEW t \in Thread,
         \/ \E r \in Route : Open(t, r)
         \/ \E answer \in shown : \E c \in answer.citations : FollowCitation(t, c)
         \/ Retry(t)
  PROVE  BrowsingInv'
<1>1. PageTypes /\ LoadInv(t)
  BY DEF BrowsingInv
<1>. USE DEF Set
<1>2. ASSUME NEW r \in Route, Open(t, r)
      PROVE  BrowsingInv'
  <2>1. /\ page[t] = "none" /\ phase[t] = "idle" /\ route' = [route EXCEPT ![t] = r]
        /\ StartLoad(t, r) /\ cited' = cited /\ tries' = tries
    BY <1>2 DEF Open
  <2>2. cited[t] = {}
    BY <1>1, <2>1 DEF LoadInv, CitedOpens
  <2>3. route'[t] = r
    BY <1>1, <2>1 DEF PageTypes
  <2>. QED  BY <1>1, <2>1, <2>2, <2>3, LoadKeeps DEF PageTypes
<1>3. ASSUME NEW answer \in shown, NEW c \in answer.citations, FollowCitation(t, c)
      PROVE  BrowsingInv'
  <2>1. /\ page[t] = "none" /\ phase[t] = "returned"
        /\ route' = [route EXCEPT ![t] = CitationLink(c)] /\ cited' = [cited EXCEPT ![t] = {c}]
        /\ StartLoad(t, CitationLink(c)) /\ tries' = tries
    BY <1>3 DEF FollowCitation
  <2>2. c \in Citation
    <3>1. answer.id \in DOMAIN results /\ answer.citations = results[answer.id].citations
      BY DEF BrowsingInv, QaInv, GivenAsRecorded, IsRecorded, Shown
    <3>2. results[answer.id].citations \subseteq Citation
      BY <3>1 DEF BrowsingInv, QaInv, QaTypeOK
    <3>. QED  BY <3>1, <3>2
  <2>3. CitationLink(c) \in Route
    BY <2>2, LinkIsRoute
  <2>4. /\ route'[t] = CitationLink(c) /\ cited'[t] = {c}
        /\ route' \in [Thread -> Route] /\ DOMAIN cited' = Thread
        /\ \A u \in Thread \ {t} : route'[u] = route[u] /\ cited'[u] = cited[u]
        /\ tries' \in [Thread -> 0 .. Retries]
    BY <1>1, <2>1, <2>3 DEF PageTypes
  <2>. QED  BY <2>1, <2>2, <2>4, LoadKeeps
<1>4. CASE Retry(t)
  <2>1. /\ page[t] \in {"failed", "lost"} /\ tries[t] < Retries
        /\ tries' = [tries EXCEPT ![t] = @ + 1]
        /\ StartLoad(t, route[t]) /\ route' = route /\ cited' = cited
    BY <1>4 DEF Retry
  <2>2. phase[t] \in {"idle", "returned"}
    BY <1>1, <2>1 DEF LoadInv, PageApart
  <2>3. tries' \in [Thread -> 0 .. Retries]
    BY <1>1, <2>1, BrowsingAssumption DEF PageTypes
  <2>4. \A c \in cited[t] : route[t] = CitationLink(c)
    BY <1>1 DEF LoadInv, CitedOpens
  <2>. QED  BY <1>1, <2>1, <2>2, <2>3, <2>4, LoadKeeps DEF PageTypes
<1>. QED  BY <1>2, <1>3, <1>4

\* A step that moves a page on, and may choose, list or find text for it.
Turn(t, to) ==
  /\ UNCHANGED <<vars, route, cited, tries, seen>>
  /\ page' = [page EXCEPT ![t] = to]
  /\ PageTypes'
  /\ \A u \in Thread \ {t} :
       listing'[u] = listing[u] /\ chosen'[u] = chosen[u] /\ text'[u] = text[u]

LEMMA TurnKeeps ==
  ASSUME BrowsingInv, NEW t \in Thread, NEW to, Turn(t, to), LoadInv(t)'
  PROVE  BrowsingInv'
<1>1. UNCHANGED <<snapshot, phase, stable, local, docs>>
  BY DEF Turn, vars, repository, query
<1>2. QaInv'
  BY QaUnchanged DEF BrowsingInv, Turn
<1>3. \A u \in Thread \ {t} : PageUntouched(u)
  BY <1>1 DEF Turn, PageUntouched, BrowsingInv, PageTypes
<1>. QED  BY <1>1, <1>2, <1>3, PageStepKeeps DEF Turn

\* What a turn leaves as it was.
LEMMA TurnLeaves ==
  ASSUME BrowsingInv, NEW t \in Thread, NEW to, Turn(t, to)
  PROVE  /\ UNCHANGED <<snapshot, phase, stable, local, docs, route, cited, seen>>
         /\ page'[t] = to
         /\ Document(t)' = Document(t) /\ Matching(t)' = Matching(t)
         /\ \A c : StillPublished(t, c)' <=> StillPublished(t, c)
BY DEF Turn, vars, repository, query, BrowsingInv, PageTypes, Document, Matching, StillPublished

\* The steps that only move the page on, and those that end its load.
LEMMA LookupKeeps ==
  ASSUME BrowsingInv, ServedInv, NEW t \in Thread,
         \/ GetDocument(t, "document", "versions") \/ GetDocument(t, "permit", "again")
         \/ ListVersionsAgain(t) \/ GetVersion(t) \/ AuditRead(t) \/ TimeOut(t)
  PROVE  BrowsingInv'
<1>. USE DEF Set, Step, Unread
<1>1. /\ PageTypes /\ LoadInv(t) /\ snapshot \in Pub
      /\ Content[snapshot].readable \subseteq Content[snapshot].docs
  BY Published DEF BrowsingInv, QaInv, QaTypeOK
<1>2. UNCHANGED <<vars, route, cited, tries, seen, listing, chosen, text>>
  BY DEF GetDocument, ListVersionsAgain, GetVersion, AuditRead, TimeOut, server, query, vars
<1>3. ASSUME NEW to \in InFlight \cup {"choose", "failed", "lost"},
             page' = [page EXCEPT ![t] = to], reads' \subseteq Thread
      PROVE  Turn(t, to)
  BY <1>1, <1>2, <1>3 DEF PageTypes, Turn
<1>4. reads' \subseteq Thread
  BY <1>1 DEF GetDocument, ListVersionsAgain, GetVersion, AuditRead, TimeOut, PageTypes
<1>5. route[t].detail => Document(t) \in Doc /\ route[t].docs = {Document(t)}
  BY <1>1, RouteDocument DEF PageTypes
<1>. USE DEF InFlight, ReadRequest, TextRequest
<1>6. CASE GetDocument(t, "document", "versions")
  <2>. DEFINE to == IF Document(t) \in Content[snapshot].readable THEN "versions" ELSE "failed"
  <2>1. page[t] = "document" /\ page' = [page EXCEPT ![t] = to]
    BY <1>6 DEF GetDocument
  <2>2. Turn(t, to)
    BY <1>3, <1>4, <2>1
  <2>3. LoadInv(t)'
    <3>1. route[t].detail
      BY <1>1, <2>1 DEF LoadInv, PageApart
    <3>2. to = "failed" => Matching(t) = {}
      BY <1>5, <3>1 DEF Matching
    <3>. QED  BY <1>1, <1>2, <2>1, <2>2, <3>1, <3>2, TurnLeaves
              DEF LoadInv, PageApart, StableList, StableDetail, StableFailure, CitedOpens
  <2>. QED  BY <2>2, <2>3, TurnKeeps
<1>7. CASE GetDocument(t, "permit", "again")
  <2>. DEFINE to == IF Document(t) \in Content[snapshot].readable THEN "again" ELSE "failed"
  <2>1. page[t] = "permit" /\ page' = [page EXCEPT ![t] = to]
    BY <1>7 DEF GetDocument
  <2>2. Turn(t, to)
    BY <1>3, <1>4, <2>1
  <2>3. stable[t] => to = "again"
    BY <1>1, <2>1 DEF LoadInv, StableDetail
  <2>4. LoadInv(t)'
    BY <1>1, <1>2, <2>1, <2>2, <2>3, TurnLeaves
    DEF LoadInv, PageApart, StableList, StableDetail, StableFailure, CitedOpens
  <2>. QED  BY <2>2, <2>4, TurnKeeps
<1>8. CASE ListVersionsAgain(t)
  <2>. DEFINE to == IF Document(t) \in Content[snapshot].docs THEN "version" ELSE "failed"
  <2>1. page[t] = "again" /\ page' = [page EXCEPT ![t] = to]
    BY <1>8 DEF ListVersionsAgain
  <2>2. Turn(t, to)
    BY <1>3, <1>4, <2>1
  <2>3. stable[t] => to = "version"
    BY <1>1, <2>1 DEF LoadInv, StableDetail
  <2>4. LoadInv(t)'
    BY <1>1, <1>2, <2>1, <2>2, <2>3, TurnLeaves
    DEF LoadInv, PageApart, StableList, StableDetail, StableFailure, CitedOpens
  <2>. QED  BY <2>2, <2>4, TurnKeeps
<1>9. CASE GetVersion(t)
  <2>. DEFINE to == IF chosen[t] \in VersionsOf(snapshot, Document(t)) THEN "provisions" ELSE "failed"
  <2>1. page[t] = "version" /\ page' = [page EXCEPT ![t] = to]
    BY <1>9 DEF GetVersion
  <2>2. Turn(t, to)
    BY <1>3, <1>4, <2>1
  <2>3. route[t].detail
    BY <1>1, <2>1 DEF LoadInv, PageApart
  <2>4. stable[t] /\ to = "failed" => Content[snapshot].effective[Document(t)] = None
    BY <1>1, <2>1 DEF LoadInv, StableDetail
  <2>5. LoadInv(t)'
    BY <1>1, <1>2, <2>1, <2>2, <2>3, <2>4, TurnLeaves
    DEF LoadInv, PageApart, StableList, StableDetail, StableFailure, CitedOpens
  <2>. QED  BY <2>2, <2>5, TurnKeeps
<1>10. CASE AuditRead(t)
  <2>1. page[t] = "audit" /\ page' = [page EXCEPT ![t] = "choose"]
    BY <1>10 DEF AuditRead
  <2>2. Turn(t, "choose")
    BY <1>3, <1>4, <2>1
  <2>3. LoadInv(t)'
    BY <1>1, <1>2, <2>1, <2>2, TurnLeaves
    DEF LoadInv, PageApart, StableList, StableDetail, StableFailure, CitedOpens
  <2>. QED  BY <2>2, <2>3, TurnKeeps
<1>11. CASE TimeOut(t)
  <2>1. page[t] \in InFlight /\ page' = [page EXCEPT ![t] = "lost"]
    BY <1>11 DEF TimeOut
  <2>2. Turn(t, "lost")
    BY <1>3, <1>4, <2>1
  <2>3. LoadInv(t)'
    BY <1>1, <1>2, <2>1, <2>2, TurnLeaves
    DEF LoadInv, PageApart, StableList, StableDetail, StableFailure, CitedOpens
  <2>. QED  BY <2>2, <2>3, TurnKeeps
<1>. QED  BY <1>6, <1>7, <1>8, <1>9, <1>10, <1>11

LEMMA TextKeeps ==
  ASSUME BrowsingInv, ServedInv, NEW t \in Thread, GetProvisions(t)
  PROVE  BrowsingInv'
<1>. DEFINE ok == chosen[t] \in Content[snapshot].versions
            found == FirstPage(snapshot, chosen[t])
<1>1. PageTypes /\ LoadInv(t) /\ snapshot \in Pub
  BY DEF BrowsingInv, QaInv, QaTypeOK
<1>2. /\ page[t] = "provisions" /\ page' = [page EXCEPT ![t] = IF ok THEN "shown" ELSE "failed"]
      /\ text' = [text EXCEPT ![t] = HitsIn(snapshot, found)]
      /\ UNCHANGED <<vars, route, cited, tries, seen, listing, chosen, reads>>
  BY DEF GetProvisions, Step, Set, Unread, server, query, vars
<1>3. /\ HitsIn(snapshot, found) \subseteq Hit
      /\ \A h \in HitsIn(snapshot, found) : h.pub = snapshot
  BY <1>1, ParagraphsPublished DEF FirstPage, ParagraphsOf
<1>. HIDE DEF found
<1>4. Turn(t, IF ok THEN "shown" ELSE "failed")
  BY <1>1, <1>2, <1>3 DEF Turn, PageTypes
<1>5. stable[t] => ok
  BY <1>1, <1>2 DEF LoadInv, StableDetail, VersionsOf
<1>6. stable[t] => \A e \in listing[t] : e.pub = snapshot
  BY <1>1, <1>2 DEF LoadInv, StableDetail, VersionEntries, TextRequest
<1>7. route[t].detail /\ text'[t] = HitsIn(snapshot, found)
  BY <1>1, <1>2 DEF LoadInv, PageApart, TextRequest, PageTypes
<1>8. LoadInv(t)'
  BY <1>1, <1>2, <1>3, <1>4, <1>5, <1>6, <1>7, TurnLeaves
  DEF LoadInv, PageApart, StableList, StableDetail, StableFailure, CitedOpens,
      ReadRequest, TextRequest
<1>. QED  BY <1>4, <1>8, TurnKeeps

LEMMA VersionsKeep ==
  ASSUME BrowsingInv, ServedInv, NEW t \in Thread, ListVersions(t)
  PROVE  BrowsingInv'
<1>. DEFINE ok == Document(t) \in Content[snapshot].docs
            found == VersionEntries(snapshot, Document(t))
<1>1. /\ PageTypes /\ LoadInv(t) /\ snapshot \in Pub
      /\ Content[snapshot].readable \subseteq Content[snapshot].docs
  BY Published DEF BrowsingInv, QaInv, QaTypeOK
<1>2. /\ page[t] = "versions" /\ page' = [page EXCEPT ![t] = IF ok THEN "audit" ELSE "failed"]
      /\ listing' = [listing EXCEPT ![t] = found]
      /\ UNCHANGED <<vars, route, cited, tries, seen, chosen, text, reads>>
  BY DEF ListVersions, VersionEntries, Step, Set, Unread, server, query, vars
<1>3. route[t].detail /\ Document(t) \in Doc
  BY <1>1, <1>2, RouteDocument DEF LoadInv, PageApart, ReadRequest, PageTypes
<1>4. found \subseteq Entry
  BY <1>1, <1>3, QaAssumption DEF VersionEntries, VersionsOf, Entry, WellFormed
<1>5. ASSUME NEW c \in cited[t], StillPublished(t, c)
      PROVE  \E e \in found : e.version = Place[c.prov].version
  <2>1. snapshot \in seen[t]
    BY <1>2 DEF ServedInv, SnapshotSeen, Loading, InFlight, ReadRequest
  <2>2. c.prov \in DOMAIN Content[snapshot].body
    BY <1>5, <2>1 DEF StillPublished
  <2>3. c.prov \in Prov /\ Place[c.prov].version \in Content[snapshot].versions
    BY <1>1, <2>2, Published
  <2>4. Document(t) = Place[c.prov].doc
    <3>1. route[t] = CitationLink(c)
      BY <1>1, <1>5 DEF LoadInv, CitedOpens
    <3>2. route[t].docs = {Place[c.prov].doc}
      BY <3>1 DEF CitationLink
    <3>. QED  BY <3>2 DEF Document
  <2>5. Place[c.prov].version \in VersionsOf(snapshot, Document(t))
    BY <2>3, <2>4 DEF VersionsOf
  <2>. DEFINE e == [doc |-> Document(t), version |-> Place[c.prov].version, pub |-> snapshot]
  <2>6. e \in found
    BY <2>5 DEF VersionEntries
  <2>7. e.version = Place[c.prov].version
    OBVIOUS
  <2>. QED  BY <2>6, <2>7
<1>. HIDE DEF found
<1>6. Turn(t, IF ok THEN "audit" ELSE "failed")
  BY <1>1, <1>2, <1>4 DEF Turn, PageTypes, InFlight, ReadRequest
<1>7. stable[t] => ok
  BY <1>1, <1>2 DEF LoadInv, StableDetail, ReadRequest
<1>8. listing'[t] = found
  BY <1>1, <1>2 DEF PageTypes
<1>9. found' = found
  BY <1>6, TurnLeaves DEF found, VersionEntries, VersionsOf
<1>10. StableDetail(t)'
  BY <1>1, <1>2, <1>6, <1>7, <1>8, TurnLeaves
  DEF LoadInv, StableDetail, ReadRequest, TextRequest, found
<1>11. CitedOpens(t)'
  BY <1>1, <1>2, <1>5, <1>6, <1>8, TurnLeaves DEF LoadInv, CitedOpens, TextRequest
<1>12. PageApart(t)' /\ StableList(t)' /\ StableFailure(t)'
  BY <1>1, <1>2, <1>3, <1>6, <1>7, TurnLeaves
  DEF LoadInv, PageApart, StableList, StableFailure, ReadRequest, TextRequest
<1>. QED  BY <1>6, <1>10, <1>11, <1>12, TurnKeeps DEF LoadInv

LEMMA ChoiceKeeps ==
  ASSUME BrowsingInv, ServedInv, NEW t \in Thread, Choose(t)
  PROVE  BrowsingInv'
<1>. DEFINE asked == \E e \in listing[t] : e.version = route[t].version
            best == CHOOSE v \in EffectiveVersion(t) : TRUE
            choice == IF asked THEN route[t].version
                      ELSE IF EffectiveVersion(t) # {} THEN best ELSE MadeUp[Document(t)]
<1>1. /\ PageTypes /\ LoadInv(t) /\ snapshot \in Pub
      /\ Content[snapshot].readable \subseteq Content[snapshot].docs
  BY Published DEF BrowsingInv, QaInv, QaTypeOK
<1>2. /\ page[t] = "choose" /\ page' = [page EXCEPT ![t] = "permit"]
      /\ chosen' = [chosen EXCEPT ![t] = choice]
      /\ UNCHANGED <<vars, route, cited, tries, seen, listing, text, reads>>
  BY DEF Choose, Set, server, query, vars
<1>3. route[t].detail /\ Document(t) \in Doc
  BY <1>1, <1>2, RouteDocument DEF LoadInv, PageApart, PageTypes
<1>4. EffectiveVersion(t) # {} => best \in EffectiveVersion(t)
  OBVIOUS
<1>5. \A v \in EffectiveVersion(t) :
        \E e \in listing[t] : e.version = v /\ v = Content[e.pub].effective[e.doc]
  BY DEF EffectiveVersion
<1>6. choice \in Version \cup {None}
  <2>1. asked => choice \in Version \cup {None}
    BY <1>1 DEF PageTypes, Route
  <2>2. ~asked /\ EffectiveVersion(t) # {} => choice \in Version
    BY <1>1, <1>4, <1>5 DEF PageTypes, Entry
  <2>3. ~asked /\ EffectiveVersion(t) = {} => choice \in Version \cup {None}
    BY <1>3, BrowsingAssumption
  <2>. QED  BY <2>1, <2>2, <2>3
<1>7. stable[t] => \/ choice \in VersionsOf(snapshot, Document(t))
                   \/ Content[snapshot].effective[Document(t)] = None
  <2>. SUFFICES ASSUME stable[t], Content[snapshot].effective[Document(t)] # None
                PROVE  choice \in VersionsOf(snapshot, Document(t))
    OBVIOUS
  <2>1. /\ Document(t) \in Content[snapshot].docs
        /\ listing[t] = VersionEntries(snapshot, Document(t))
    BY <1>1, <1>2 DEF LoadInv, StableDetail
  <2>2. \A e \in listing[t] : e.version \in VersionsOf(snapshot, Document(t))
    BY <2>1 DEF VersionEntries
  <2>3. Content[snapshot].effective[Document(t)] \in VersionsOf(snapshot, Document(t))
    BY <1>1, <2>1, BrowsingAssumption
  <2>4. EffectiveVersion(t) # {}
    <3>. DEFINE v == Content[snapshot].effective[Document(t)]
                e == [doc |-> Document(t), version |-> v, pub |-> snapshot]
    <3>1. e \in listing[t]
      BY <2>1, <2>3 DEF VersionEntries
    <3>2. e.version = Content[e.pub].effective[e.doc]
      OBVIOUS
    <3>. QED  BY <3>1, <3>2 DEF EffectiveVersion
  <2>. QED  BY <1>4, <1>5, <2>2, <2>4
<1>8. ASSUME NEW c \in cited[t], StillPublished(t, c)
      PROVE  choice = Place[c.prov].version
  <2>1. route[t] = CitationLink(c) /\ \E e \in listing[t] : e.version = Place[c.prov].version
    BY <1>1, <1>2, <1>8 DEF LoadInv, CitedOpens
  <2>2. route[t].version = Place[c.prov].version
    BY <2>1 DEF CitationLink
  <2>. QED  BY <2>1, <2>2
<1>. HIDE DEF choice
<1>9. Turn(t, "permit")
  BY <1>1, <1>2, <1>6 DEF Turn, PageTypes, InFlight, TextRequest
<1>10. chosen'[t] = choice
  BY <1>1, <1>2 DEF PageTypes
<1>11. VersionsOf(snapshot, Document(t))' = VersionsOf(snapshot, Document(t))
  BY <1>9, TurnLeaves DEF VersionsOf
<1>12. StableDetail(t)'
  BY <1>1, <1>2, <1>7, <1>9, <1>10, <1>11, TurnLeaves
  DEF LoadInv, StableDetail, VersionEntries, ReadRequest, TextRequest
<1>13. CitedOpens(t)'
  BY <1>1, <1>2, <1>8, <1>9, <1>10, TurnLeaves DEF LoadInv, CitedOpens, TextRequest
<1>14. PageApart(t)' /\ StableList(t)' /\ StableFailure(t)'
  BY <1>1, <1>2, <1>3, <1>9, TurnLeaves
  DEF LoadInv, PageApart, StableList, StableFailure, ReadRequest, TextRequest
<1>. QED  BY <1>9, <1>12, <1>13, <1>14, TurnKeeps DEF LoadInv

EffectiveEntry(p, d) ==
  {[doc |-> d, version |-> v, pub |-> p] : v \in {Content[p].effective[d]} \ {None}}

\* One more document is listed with its effective version, if it has one.
LEMMA OneMoreListed ==
  ASSUME NEW p, NEW before, NEW d, NEW after, after = before \cup {d}
  PROVE  ListedEntries(p, after) = ListedEntries(p, before) \cup EffectiveEntry(p, d)
<1>. DEFINE entry(x) == [doc |-> x, version |-> Content[p].effective[x], pub |-> p]
            has(x) == Content[p].effective[x] # None
<1>1. /\ ListedEntries(p, after) = {entry(x) : x \in {y \in after : has(y)}}
      /\ ListedEntries(p, before) = {entry(x) : x \in {y \in before : has(y)}}
  BY DEF ListedEntries
<1>2. EffectiveEntry(p, d) = {entry(x) : x \in {y \in {d} : has(y)}}
  BY DEF EffectiveEntry
<1>. HIDE DEF entry, has
<1>. QED  BY <1>1, <1>2

LEMMA LibraryKeeps ==
  ASSUME BrowsingInv, ServedInv, NEW t \in Thread,
         ListRegulations(t) \/ LibraryShown(t) \/ \E d \in Doc : ListRegulation(t, d)
  PROVE  BrowsingInv'
<1>. USE DEF Set, Step
<1>1. /\ PageTypes /\ LoadInv(t) /\ snapshot \in Pub /\ QaInv /\ QaTypeOK
      /\ Content[snapshot].docs \subseteq Doc
      /\ Content[snapshot].readable \subseteq Content[snapshot].docs
  BY Published DEF BrowsingInv, QaInv, QaTypeOK
<1>2. page[t] \in {"library", "list"} /\ ~route[t].detail /\ phase[t] \in {"idle", "returned"}
  BY <1>1 DEF ListRegulations, LibraryShown, ListRegulation, ServedInv, LibraryRequests,
              LoadInv, PageApart
<1>3. UNCHANGED <<server, stable, route, cited, tries, chosen, text, reads, seen>>
  BY DEF ListRegulations, LibraryShown, ListRegulation
<1>4. ASSUME NEW to \in {"list", "shown", "failed"}, page' = [page EXCEPT ![t] = to],
             listing' = listing \/ \E new \in SUBSET Entry : listing' = [listing EXCEPT ![t] = new],
             local' \in [Thread -> Pub], docs' \in [Thread -> SUBSET Doc],
             \A u \in Thread \ {t} : local'[u] = local[u] /\ docs'[u] = docs[u],
             StableList(t)', StableFailure(t)'
      PROVE  BrowsingInv'
  <2>1. QaInv'
    BY <1>1, <1>2, <1>3, <1>4, PageKeepsQuestions DEF QaTypeOK, server
  <2>2. PageTypes'
    BY <1>1, <1>3, <1>4 DEF PageTypes, InFlight
  <2>3. \A u \in Thread \ {t} : PageUntouched(u)
    BY <1>1, <1>3, <1>4 DEF PageTypes, PageUntouched, server
  <2>4. page'[t] = to /\ phase'[t] = phase[t] /\ route'[t] = route[t] /\ cited'[t] = cited[t]
    BY <1>1, <1>3, <1>4 DEF PageTypes, server
  <2>5. cited[t] = {}
    <3>1. \A c : CitationLink(c).detail
      BY DEF CitationLink
    <3>. QED  BY <1>1, <1>2, <3>1 DEF LoadInv, CitedOpens
  <2>6. LoadInv(t)'
    BY <1>2, <1>4, <2>4, <2>5 DEF LoadInv, PageApart, StableDetail, CitedOpens,
       ReadRequest, TextRequest
  <2>. QED  BY <1>1, <1>3, <2>1, <2>2, <2>3, <2>6, PageStepKeeps DEF server, repository
<1>5. /\ snapshot' = snapshot /\ stable' = stable /\ Matching(t)' = Matching(t)
      /\ route'[t] = route[t]
  BY <1>3 DEF server, repository, Matching
<1>6. CASE ListRegulations(t)
  <2>1. /\ page[t] = "library" /\ page' = [page EXCEPT ![t] = "list"]
        /\ local' = [local EXCEPT ![t] = snapshot] /\ docs' = [docs EXCEPT ![t] = Matching(t)]
        /\ listing' = listing
    BY <1>6 DEF ListRegulations, Matching
  <2>2. Matching(t) \subseteq Doc
    BY <1>1 DEF Matching
  <2>3. page'[t] = "list" /\ local'[t] = snapshot /\ docs'[t] = Matching(t)
    BY <1>1, <2>1 DEF PageTypes, QaTypeOK
  <2>4. ListedEntries(snapshot, Matching(t) \ Matching(t)) = {}
    BY DEF ListedEntries
  <2>5. ListedEntries(snapshot, Matching(t) \ docs[t])' = ListedEntries(snapshot, Matching(t) \ Matching(t))
    BY <1>5, <2>3 DEF ListedEntries
  <2>6. StableList(t)' /\ StableFailure(t)'
    BY <1>1, <1>5, <2>1, <2>3, <2>4, <2>5 DEF LoadInv, StableList, StableFailure
  <2>. QED  BY <1>1, <1>4, <2>1, <2>2, <2>6 DEF QaTypeOK
<1>7. CASE LibraryShown(t)
  <2>1. /\ page[t] = "list" /\ docs[t] = {} /\ page' = [page EXCEPT ![t] = "shown"]
        /\ listing' = [listing EXCEPT ![t] = FirstOf(listing[t])]
        /\ UNCHANGED <<local, docs>>
    BY <1>7 DEF LibraryShown
  <2>2. /\ page'[t] = "shown" /\ listing'[t] = FirstOf(listing[t])
        /\ FirstOf(listing[t]) \in SUBSET Entry
    BY <1>1, <2>1 DEF PageTypes, FirstOf
  <2>3. Matching(t) \ docs[t] = Matching(t)
    BY <2>1
  <2>4. ListedEntries(snapshot, Matching(t))' = ListedEntries(snapshot, Matching(t) \ docs[t])
    BY <1>5, <2>3 DEF ListedEntries
  <2>5. FirstOf(ListedEntries(snapshot, Matching(t)))'
          = FirstOf(ListedEntries(snapshot, Matching(t) \ docs[t]))
    BY <2>4 DEF FirstOf
  <2>6. StableList(t)' /\ StableFailure(t)'
    BY <1>1, <1>5, <2>1, <2>2, <2>5 DEF LoadInv, StableList, StableFailure
  <2>. QED  BY <1>1, <1>4, <2>1, <2>2, <2>6 DEF QaTypeOK
<1>8. ASSUME NEW d \in Doc, ListRegulation(t, d)
      PROVE  BrowsingInv'
  <2>. DEFINE ok == d \in Content[snapshot].docs
              row == EffectiveEntry(snapshot, d)
              to == IF ok THEN "list" ELSE "failed"
  <2>1. /\ d \in docs[t] /\ page[t] = "list" /\ page' = [page EXCEPT ![t] = to]
        /\ docs' = [docs EXCEPT ![t] = @ \ {d}] /\ local' = local
        /\ listing' = [listing EXCEPT ![t] = @ \cup row]
    BY <1>8 DEF ListRegulation, EffectiveEntry
  <2>2. row \subseteq Entry
    BY <1>1, QaAssumption DEF EffectiveEntry, Entry, WellFormed
  <2>. HIDE DEF row
  <2>3. /\ page'[t] = to /\ docs'[t] = docs[t] \ {d} /\ local'[t] = local[t]
        /\ listing'[t] = listing[t] \cup row
    BY <1>1, <2>1 DEF PageTypes, QaTypeOK
  <2>4. listing[t] \cup row \in SUBSET Entry
    BY <1>1, <2>2 DEF PageTypes
  <2>5. stable[t] => /\ local[t] = snapshot /\ docs[t] \subseteq Matching(t)
                     /\ listing[t] = ListedEntries(snapshot, Matching(t) \ docs[t])
    BY <1>1, <2>1 DEF LoadInv, StableList
  <2>6. stable[t] => ok
    BY <1>1, <2>1, <2>5 DEF Matching
  <2>7. stable[t] => listing'[t] = ListedEntries(snapshot, Matching(t) \ (docs[t] \ {d}))
    <3>. SUFFICES ASSUME stable[t]
                  PROVE  listing'[t] = ListedEntries(snapshot, Matching(t) \ (docs[t] \ {d}))
      OBVIOUS
    <3>. DEFINE before == Matching(t) \ docs[t]
                after == Matching(t) \ (docs[t] \ {d})
    <3>1. after = before \cup {d}
      BY <2>1, <2>5
    <3>. HIDE DEF before, after
    <3>2. ListedEntries(snapshot, after)
            = ListedEntries(snapshot, before) \cup EffectiveEntry(snapshot, d)
      BY <3>1, OneMoreListed
    <3>. QED  BY <2>3, <2>5, <3>2 DEF row, before, after
  <2>8. ListedEntries(snapshot, Matching(t) \ docs[t])'
          = ListedEntries(snapshot, Matching(t) \ (docs[t] \ {d}))
    BY <1>5, <2>3 DEF ListedEntries
  <2>9. StableList(t)' /\ StableFailure(t)'
    BY <1>5, <2>3, <2>5, <2>6, <2>7, <2>8 DEF StableList, StableFailure
  <2>10. docs' \in [Thread -> SUBSET Doc] /\ \A u \in Thread \ {t} : docs'[u] = docs[u]
    BY <1>1, <2>1 DEF QaTypeOK
  <2>11. to \in {"list", "shown", "failed"}
    OBVIOUS
  <2>. HIDE DEF to
  <2>. QED  BY <1>1, <1>4, <2>1, <2>4, <2>9, <2>10, <2>11 DEF QaTypeOK
<1>. QED  BY <1>6, <1>7, <1>8

LEMMA AuditFailureKeeps ==
  ASSUME BrowsingInv, NEW t \in Thread, AuditReadFails(t)
  PROVE  BrowsingInv'
<1>1. PageTypes /\ LoadInv(t) /\ QaInv /\ QaTypeOK
  BY DEF BrowsingInv, QaInv
<1>2. /\ faults < MaxFaults /\ faults' = faults + 1
      /\ page[t] = "audit" /\ page' = [page EXCEPT ![t] = "lost"]
      /\ UNCHANGED <<repository, phase, query, stores, readers, stable, reloads,
                     route, cited, tries, listing, chosen, text, reads, seen>>
  BY DEF AuditReadFails, Set
<1>3. phase[t] \in {"idle", "returned"}
  BY <1>1, <1>2 DEF LoadInv, PageApart
<1>4. QaInv'
  <2>1. faults' \in 0 .. MaxFaults
    BY <1>1, <1>2, QaAssumption DEF QaTypeOK
  <2>. QED  BY <1>1, <1>2, <1>3, <2>1, PageKeepsQuestions DEF QaTypeOK, query
<1>5. PageTypes' /\ page'[t] = "lost" /\ \A u \in Thread \ {t} : PageUntouched(u)
  BY <1>1, <1>2 DEF PageTypes, PageUntouched, query
<1>6. LoadInv(t)'
  BY <1>1, <1>2, <1>3, <1>5 DEF LoadInv, PageApart, StableList, StableDetail, StableFailure,
     CitedOpens, ReadRequest, TextRequest
<1>. QED  BY <1>2, <1>4, <1>5, <1>6, PageStepKeeps DEF repository

LEMMA BrowseKeeps ==
  ASSUME BrowsingInv, ServedInv, NEW t \in Thread, BrowseStep(t)
  PROVE  BrowsingInv'
BY OpeningKeeps, LookupKeeps, TextKeeps, VersionsKeep, ChoiceKeeps, LibraryKeeps,
   AuditFailureKeeps DEF BrowseStep

\* Reloads and crashes end the stability of every load and add to what it has
\* seen; a page is lost or stays where it is.
LEMMA SeenKeeps ==
  ASSUME BrowsingInv, QaInv', SeenNext,
         page' = page \/ page' = [t \in Thread |-> IF page[t] \in InFlight THEN "lost" ELSE page[t]],
         UNCHANGED <<route, cited, tries, listing, chosen, text, reads>>,
         \A t \in Thread :
           /\ ~stable'[t]
           /\ phase[t] \in {"idle", "returned"} => phase'[t] = phase[t]
  PROVE  BrowsingInv'
<1>1. PageTypes /\ snapshot' \in Pub
  BY DEF BrowsingInv, QaInv, QaTypeOK
<1>2. PageTypes'
  <2>1. page' \in [Thread -> InFlight \cup {"none", "choose", "shown", "failed", "lost"}]
    BY <1>1 DEF PageTypes
  <2>2. seen' \in [Thread -> SUBSET Pub]
    BY <1>1 DEF PageTypes, SeenNext
  <2>. QED  BY <1>1, <2>1, <2>2 DEF PageTypes
<1>3. ASSUME NEW t \in Thread
      PROVE  LoadInv(t)'
  <2>1. /\ LoadInv(t) /\ seen[t] \subseteq seen'[t]
        /\ page'[t] = page[t] \/ (page[t] # "none" /\ page'[t] = "lost")
    BY DEF BrowsingInv, SeenNext, InFlight, ReadRequest, TextRequest
  <2>2. PageApart(t)'
    BY <2>1 DEF LoadInv, PageApart, ReadRequest, TextRequest
  <2>3. CitedOpens(t)'
    BY <2>1 DEF LoadInv, CitedOpens, StillPublished, TextRequest
  <2>. QED  BY <2>2, <2>3 DEF LoadInv, StableList, StableDetail, StableFailure
<1>. QED  BY <1>2, <1>3 DEF BrowsingInv

LEMMA PagesUnchangedKeep ==
  ASSUME BrowsingInv, QaInv', UNCHANGED <<snapshot, pages>>,
         \A u \in Thread : page[u] # "none" =>
           /\ phase'[u] = phase[u] /\ stable'[u] = stable[u]
           /\ local'[u] = local[u] /\ docs'[u] = docs[u]
  PROVE  BrowsingInv'
<1>1. UNCHANGED <<page, route, cited, tries, listing, chosen, text, reads, seen>>
  BY DEF pages
<1>2. PageTypes'
  BY <1>1 DEF BrowsingInv, PageTypes
<1>3. ASSUME NEW u \in Thread
      PROVE  LoadInv(u)'
  <2>1. LoadInv(u)
    BY DEF BrowsingInv
  <2>2. CASE page[u] = "none"
    BY <1>1, <2>1, <2>2 DEF LoadInv, PageApart, StableList, StableDetail, StableFailure,
       CitedOpens, ReadRequest, TextRequest
  <2>3. CASE page[u] # "none"
    BY <1>1, <2>1, <2>3, PageUntouchedKeeps DEF PageUntouched
  <2>. QED  BY <2>2, <2>3
<1>. QED  BY <1>2, <1>3 DEF BrowsingInv

LEMMA BrowsingInitially == BrowsingInit => BrowsingInv
<1>. SUFFICES ASSUME BrowsingInit PROVE BrowsingInv
  OBVIOUS
<1>1. QaInv
  BY QaInitially DEF BrowsingInit
<1>2. PageTypes
  <2>1. route \in [Thread -> Route]
    BY DEF BrowsingInit, Route
  <2>2. tries \in [Thread -> 0 .. Retries]
    BY BrowsingAssumption DEF BrowsingInit
  <2>. QED  BY <2>1, <2>2 DEF BrowsingInit, PageTypes
<1>3. \A t \in Thread : LoadInv(t)
  BY DEF BrowsingInit, LoadInv, PageApart, StableList, StableDetail, StableFailure, CitedOpens,
         ReadRequest, TextRequest
<1>. QED  BY <1>1, <1>2, <1>3 DEF BrowsingInv

LEMMA BrowsingPreserved ==
  ASSUME BrowsingInv, ServedInv, [BrowsingNext]_browsingVars
  PROVE  BrowsingInv'
<1>1. QaInv /\ QaTypeOK /\ QueryTypes
  BY DEF BrowsingInv, QaInv, QaTypeOK, QueryTypes
<1>2. ASSUME NEW t \in Thread, Question(t)
      PROVE  BrowsingInv'
  <2>1. page[t] = "none" /\ UNCHANGED <<snapshot, pages>>
    BY <1>2, IdleSteps DEF Question
  <2>2. QaInv'
    BY <1>1, <1>2, QuestionSteps DEF Question
  <2>3. \A u \in Thread \ {t} : Untouched(u)
    BY <1>1, <1>2, QuestionKeepsOthers DEF Question
  <2>. QED  BY <2>1, <2>2, <2>3, PagesUnchangedKeep DEF Untouched
<1>3. CASE Reload
  <2>1. QaInv'
    BY <1>1, <1>3, ReloadSteps DEF Reload
  <2>2. CASE (\E p \in Pub : CommitReload(p)) /\ UNCHANGED pages
    BY <2>1, <2>2, PagesUnchangedKeep DEF CommitReload, query
  <2>3. CASE AssignSnapshot /\ SeenNext
               /\ UNCHANGED <<page, route, cited, tries, listing, chosen, text, reads>>
    <3>1. \A t \in Thread : ~stable'[t] /\ phase'[t] = phase[t]
      BY <2>3 DEF AssignSnapshot
    <3>. QED  BY <2>1, <2>3, <3>1, SeenKeeps
  <2>. QED  BY <1>3, <2>2, <2>3 DEF Reload
<1>4. CASE Restart
  <2>1. QaInv'
    BY <1>1, <1>4, ReloadSteps DEF Restart
  <2>2. \A t \in Thread : /\ ~stable'[t]
                          /\ phase[t] \in {"idle", "returned"} => phase'[t] = phase[t]
    BY <1>4 DEF Restart, Crash, Ended
  <2>. QED  BY <1>4, <2>1, <2>2, SeenKeeps DEF Restart
<1>5. CASE Reread
  <2>1. QaInv'
    BY <1>1, <1>5, ReaderSteps DEF Reread
  <2>2. UNCHANGED <<snapshot, phase, stable, local, docs, pages>>
    BY <1>5 DEF Reread, ReturnResult, LoadResult, repository, query
  <2>. QED  BY <2>1, <2>2, PagesUnchangedKeep
<1>6. CASE UNCHANGED browsingVars
  <2>1. UNCHANGED <<vars, snapshot, phase, stable, local, docs, pages>>
    BY <1>6 DEF browsingVars, vars, repository, query
  <2>2. QaInv'
    BY <1>1, <2>1, QaUnchanged
  <2>. QED  BY <2>1, <2>2, PagesUnchangedKeep
<1>. QED  BY <1>2, <1>3, <1>4, <1>5, <1>6, BrowseKeeps DEF BrowsingNext

LEMMA BrowsingInvariant == BrowsingSpec => [](BrowsingInv /\ ServedInv)
BY BrowsingInitially, ServedInitially, BrowsingPreserved, ServedPreserved, PTL DEF BrowsingSpec

\* Types of the questions and of the pages, with their listings and texts.
THEOREM BrowsingTypesCorrect == BrowsingSpec => []BrowsingTypeOK
<1>1. BrowsingInv => BrowsingTypeOK
  BY DEF BrowsingInv, QaInv, PageTypes, BrowsingTypeOK
<1>. QED  BY <1>1, BrowsingInvariant, PTL

\* Beside the pages of the same thread, too, every claim answered is one that
\* the text of its sources supports, together or normalized, results are read as they were answered, answers are recorded before they are
\* given, and stable queries do not mix publications.
THEOREM QuestionsBesidePages ==
  BrowsingSpec => [](ClaimsSupported /\ RereadUnchanged /\ AnswersRecorded /\ StableQueriesConsistent)
<1>1. BrowsingInv => ClaimsSupported /\ RereadUnchanged /\ AnswersRecorded /\ StableQueriesConsistent
  BY RecordedClaims, RecordedOnce, RecordedFirst, UnmixedAnswers DEF BrowsingInv
<1>. QED  BY <1>1, BrowsingInvariant, PTL

\* A load over which no snapshot is assigned lists the effective versions of
\* the first documents that match and may be read, no more than the page asks
\* for, shows the text of the publication it listed, and fails only for what
\* that publication does not have.
THEOREM EveryStablePageConsistent == BrowsingSpec => []StablePagesConsistent
<1>1. BrowsingInv /\ ServedInv => StablePagesConsistent
  <2>. SUFFICES ASSUME BrowsingInv, NEW t \in Thread, stable[t], page[t] # "none"
                PROVE
         LET now == Content[snapshot]
             readable == route[t].docs \cap now.readable
         IN /\ page[t] = "failed" =>
                 /\ route[t].detail
                 /\ readable = {} \/ now.effective[Document(t)] = None
            /\ page[t] = "shown" /\ ~route[t].detail =>
                 listing[t] = FirstOf(
                   {[doc |-> d, version |-> now.effective[d], pub |-> snapshot] :
                      d \in {x \in readable : now.effective[x] # None}})
            /\ page[t] = "shown" /\ route[t].detail =>
                 \A h \in text[t] : \A e \in listing[t] : h.pub = e.pub
    BY DEF StablePagesConsistent
  <2>1. LoadInv(t)
    BY DEF BrowsingInv
  <2>2. page[t] = "failed" =>
          /\ route[t].detail
          /\ Matching(t) = {} \/ Content[snapshot].effective[Document(t)] = None
    BY <2>1 DEF LoadInv, StableFailure
  <2>3. page[t] = "shown" /\ ~route[t].detail =>
          listing[t] = FirstOf(ListedEntries(snapshot, Matching(t)))
    BY <2>1 DEF LoadInv, StableList
  <2>4. page[t] = "shown" /\ route[t].detail =>
          \A h \in text[t] : \A e \in listing[t] : h.pub = e.pub
    BY <2>1 DEF LoadInv, StableDetail
  <2>. QED  BY <2>2, <2>3, <2>4 DEF Matching, ListedEntries
<1>. QED  BY <1>1, BrowsingInvariant, PTL

\* A citation opens the version it is from and its quote is in the text shown,
\* unless a reload changed or removed it or it comes after the first provisions,
\* which are all the page asks for: also when another version has come into
\* force in the meantime.
THEOREM EveryCitationOpens == BrowsingSpec => []CitationsOpenTheirText
<1>1. BrowsingInv /\ ServedInv => CitationsOpenTheirText
  <2>. SUFFICES ASSUME BrowsingInv, ServedInv, NEW t \in Thread, page[t] = "shown",
                       NEW c \in cited[t], StillPublished(t, c)
                PROVE  /\ chosen[t] = Place[c.prov].version
                       /\ \E h \in text[t] : h.prov = c.prov /\ Quote(h) = c.quote
    BY DEF CitationsOpenTheirText
  <2>1. chosen[t] = Place[c.prov].version /\ route[t] = CitationLink(c)
    BY DEF BrowsingInv, LoadInv, CitedOpens
  <2>2. route[t].detail
    BY <2>1 DEF CitationLink
  <2>3. PICK p \in seen[t] : text[t] = HitsIn(p, FirstPage(p, chosen[t]))
    BY <2>2 DEF ServedInv, TextSeen
  <2>4. /\ c.prov \in DOMAIN Content[p].body /\ Content[p].body[c.prov] = c.quote
        /\ Position[p][c.prov] <= ProvisionLimit
    BY <2>3 DEF StillPublished
  <2>5. [prov |-> c.prov, pub |-> p] \in text[t]
    BY <2>1, <2>3, <2>4 DEF HitsIn, FirstPage, ParagraphsOf
  <2>. QED  BY <2>1, <2>4, <2>5 DEF Quote
<1>. QED  BY <1>1, BrowsingInvariant, PTL

=============================================================================
