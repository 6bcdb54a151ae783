---------------------------- MODULE QaAnswerProofs ----------------------------
(***************************************************************************)
(* Proofs about QaAnswer: what a client is given is what was recorded and  *)
(* audited, its claims are supported by its quotes, and a query over which *)
(* no snapshot is assigned does not mix publications; for any contents,    *)
(* threads, readers, reloads and faults. The lemmas are about single steps *)
(* and serve RegulationBrowsing, which has the same steps beside others.   *)
(***************************************************************************)
EXTENDS QaAnswer, TLAPS

\* Hits are provisions of the publication they were read in.
HitsPublished(t) ==
  \A h \in hits[t] : h.prov \in DOMAIN Content[h.pub].body

Supported(r) == \A c \in r.claims : SupportedBy(c, r.citations)

\* A result is saved once, before its event, and is what the thread found.
Recorded(t) ==
  /\ phase[t] \in {"audit", "returned"} => t \in DOMAIN results
  /\ t \in DOMAIN results => phase[t] \in {"audit", "returned", "failed"}
  /\ phase[t] = "audit" => results[t] = Result(t)
  /\ phase[t] = "returned" => t \in events
  /\ t \in events => t \in DOMAIN results
  /\ t \in DOMAIN results => results[t] \in Answered /\ Supported(results[t])

\* Claims are verified against the hits they are answered with.
Verified(t) ==
  /\ phase[t] = "idle" => hits[t] = {}
  /\ phase[t] = "trace" => Verify(claims[t], hits[t])
  /\ phase[t] \in {"save", "audit"} =>
       Verify(claims[t], hits[t]) \/ (claims[t] = {} /\ hits[t] = {})

\* Without a reload all that a query has read is of the current snapshot.
Unmixed(t) ==
  stable[t] =>
    /\ phase[t] # "lookup_error"
    /\ phase[t] \notin {"idle"} \cup Ended => \A h \in hits[t] : h.pub = snapshot
    /\ phase[t] \in Looking \cup {"version"} =>
         local[t] = snapshot /\ docs[t] \subseteq Content[snapshot].docs
    /\ phase[t] \in {"bind", "graph", "rank", "refs", "version", "save", "audit"} =>
         bound[t] = snapshot

IsRecorded(x) == x.id \in DOMAIN results /\ x = Shown(x.id, results[x.id])

\* Whatever a client has, or is about to be given, is the recorded result.
GivenAsRecorded ==
  /\ \A x \in shown : IsRecorded(x)
  /\ \A r \in DOMAIN fetched : IsRecorded(fetched[r])

QaInv ==
  /\ QaTypeOK
  /\ DOMAIN hits = Thread /\ DOMAIN claims = Thread
  /\ GivenAsRecorded
  /\ \A t \in Thread : HitsPublished(t) /\ Recorded(t) /\ Verified(t) /\ Unmixed(t)

-----------------------------------------------------------------------------
(* Published content *)

LEMMA Published ==
  ASSUME NEW p \in Pub
  PROVE  /\ Content[p].docs \subseteq Doc /\ Content[p].readable \subseteq Content[p].docs
         /\ \A d \in Content[p].docs :
              Content[p].effective[d] \in Content[p].versions \cup {None}
         /\ \A x \in DOMAIN Content[p].body :
              /\ x \in Prov
              /\ Place[x].doc \in Content[p].docs /\ Place[x].version \in Content[p].versions
              /\ Content[p].body[x] \subseteq Passage
BY QaAssumption DEF WellFormed

LEMMA ParagraphsPublished ==
  ASSUME NEW p \in Pub, NEW xs, xs \subseteq DOMAIN Content[p].body
  PROVE  /\ HitsIn(p, xs) \subseteq Hit
         /\ \A h \in HitsIn(p, xs) : h.pub = p /\ h.prov \in xs
BY Published DEF HitsIn, Hit

LEMMA QuoteType ==
  ASSUME NEW h \in Hit, h.prov \in DOMAIN Content[h.pub].body
  PROVE  Quote(h) \subseteq Passage
BY Published DEF Quote, Hit

-----------------------------------------------------------------------------
(* Steps of a query that record nothing *)

Untouched(u) ==
  /\ phase'[u] = phase[u] /\ bound'[u] = bound[u] /\ local'[u] = local[u]
  /\ docs'[u] = docs[u] /\ hits'[u] = hits[u] /\ claims'[u] = claims[u]
  /\ stable'[u] = stable[u]

QueryTypes ==
  /\ phase \in [Thread -> Phase]
  /\ bound \in [Thread -> Pub] /\ local \in [Thread -> Pub]
  /\ docs \in [Thread -> SUBSET Doc]
  /\ refs \in [Thread -> SUBSET (Doc \X Article)]
  /\ DOMAIN hits = Thread /\ DOMAIN claims = Thread
  /\ \A t \in Thread : hits[t] \subseteq Hit /\ claims[t] \subseteq Claim
  /\ stable \in [Thread -> BOOLEAN]

Recording == {"audit", "returned", "failed"}

Quiet(t) ==
  /\ UNCHANGED <<repository, stores, readers, reloads, faults>>
  /\ QueryTypes'
  /\ \A u \in Thread \ {t} : Untouched(u)
  /\ phase[t] \notin Recording /\ phase'[t] \notin Recording

LEMMA UntouchedKeeps ==
  ASSUME NEW u \in Thread, Untouched(u), UNCHANGED snapshot,
         HitsPublished(u), Verified(u), Unmixed(u)
  PROVE  HitsPublished(u)' /\ Verified(u)' /\ Unmixed(u)'
BY DEF Untouched, HitsPublished, Verified, Unmixed

LEMMA UntouchedRecord ==
  ASSUME NEW u \in Thread, Recorded(u), phase'[u] = phase[u], hits'[u] = hits[u],
         claims'[u] = claims[u], bound'[u] = bound[u],
         u \in DOMAIN results' <=> u \in DOMAIN results,
         u \in DOMAIN results => results'[u] = results[u],
         u \in events' <=> u \in events
  PROVE  Recorded(u)'
BY DEF Recorded, Result, Quote, Supported

LEMMA QuietStep ==
  ASSUME QaInv, NEW t \in Thread, Quiet(t),
         HitsPublished(t)', Verified(t)', Unmixed(t)'
  PROVE  QaInv'
<1>1. QaTypeOK'
  BY DEF QaInv, QaTypeOK, Quiet, QueryTypes, repository, stores, readers
<1>2. GivenAsRecorded'
  BY DEF QaInv, GivenAsRecorded, IsRecorded, Shown, Quiet, stores, readers
<1>3. Recorded(t)'
  BY DEF QaInv, Recorded, Quiet, Recording, stores
<1>4. ASSUME NEW u \in Thread, u # t
      PROVE  HitsPublished(u)' /\ Recorded(u)' /\ Verified(u)' /\ Unmixed(u)'
  BY <1>4, UntouchedKeeps, UntouchedRecord DEF QaInv, Quiet, Untouched, repository, stores
<1>5. DOMAIN hits' = Thread /\ DOMAIN claims' = Thread
  BY DEF Quiet, QueryTypes
<1>. QED  BY <1>1, <1>2, <1>3, <1>4, <1>5 DEF QaInv

\* Lookups find what they look for while the snapshot stays the one they are
\* made over.
LEMMA StableLookup ==
  ASSUME NEW p \in Pub, snapshot = p, NEW d \in Content[p].docs
  PROVE  ~LookupFails(d, p)
BY Published DEF LookupFails

LEMMA RetrievalSteps ==
  ASSUME QaInv, NEW t \in Thread,
         \/ BeginAnswer(t)
         \/ \E d \in Doc : LookUp(t, d) \/ LookupError(t, d)
         \/ BindSnapshot(t) \/ BeginGraphLane(t) \/ EndGraphLane(t)
         \/ Rank(t) \/ NoEvidence(t) \/ EndDenied(t)
  PROVE  QaInv'
<1>. USE DEF Set, Goto
<1>1. /\ QueryTypes /\ snapshot \in Pub /\ local[t] \in Pub
      /\ HitsPublished(t) /\ Verified(t) /\ Unmixed(t)
      /\ \A p \in Pub : Content[p].docs \subseteq Doc /\ Content[p].readable \subseteq Content[p].docs
  BY Published DEF QaInv, QaTypeOK, QueryTypes
<1>2. SUFFICES Quiet(t) /\ HitsPublished(t)' /\ Verified(t)' /\ Unmixed(t)'
  BY QuietStep
<1>3. CASE BeginAnswer(t)
  <2>1. Quiet(t)
    BY <1>1, <1>3 DEF BeginAnswer, Quiet, QueryTypes, Untouched, Recording, Phase
  <2>2. phase'[t] = "active" /\ hits'[t] = {} /\ hits' = hits
    BY <1>1, <1>3 DEF BeginAnswer, QueryTypes, Verified
  <2>3. local'[t] = snapshot /\ docs'[t] = Content[snapshot].readable /\ snapshot' = snapshot
    BY <1>1, <1>3 DEF BeginAnswer, QueryTypes, repository
  <2>. QED  BY <1>1, <2>1, <2>2, <2>3 DEF HitsPublished, Verified, Unmixed, Looking, Ended
<1>4. ASSUME NEW d \in Doc, LookUp(t, d)
      PROVE  Quiet(t) /\ HitsPublished(t)' /\ Verified(t)' /\ Unmixed(t)'
  <2>. DEFINE found == ParagraphsOf(local[t], Content[snapshot].effective[d])
  <2>1. /\ HitsIn(local[t], found) \subseteq Hit
        /\ \A h \in HitsIn(local[t], found) :
             h.pub = local[t] /\ h.prov \in DOMAIN Content[local[t]].body
    BY <1>1, ParagraphsPublished DEF ParagraphsOf
  <2>2. /\ phase[t] \in Looking /\ phase' = phase /\ bound' = bound /\ local' = local
        /\ refs' = refs /\ claims' = claims
        /\ docs' = [docs EXCEPT ![t] = @ \ {d}]
        /\ UNCHANGED environment
    BY <1>4 DEF LookUp
  <2>3. \/ /\ phase[t] = "active"
           /\ hits' = [hits EXCEPT ![t] = @ \cup HitsIn(local[t], found)]
        \/ phase[t] # "active" /\ hits' = hits
    BY <1>4 DEF LookUp
  <2>. HIDE DEF found
  <2>4. Quiet(t)
    <3>1. QueryTypes'
      BY <1>1, <2>1, <2>2, <2>3 DEF QueryTypes, environment
    <3>2. \A u \in Thread \ {t} : Untouched(u)
      BY <1>1, <2>2, <2>3 DEF QueryTypes, Untouched, environment
    <3>. QED  BY <2>2, <3>1, <3>2 DEF Quiet, environment, Looking, Recording
  <2>5. \A h \in hits'[t] : h \in hits[t] \/ (phase[t] = "active" /\ h \in HitsIn(local[t], found))
    BY <1>1, <2>2, <2>3 DEF QueryTypes
  <2>6. snapshot' = snapshot /\ stable' = stable /\ docs'[t] \subseteq docs[t]
    BY <1>1, <2>2 DEF environment, repository, QueryTypes
  <2>. QED  BY <1>1, <2>1, <2>2, <2>4, <2>5, <2>6
            DEF HitsPublished, Verified, Unmixed, Looking, Ended
<1>5. ASSUME NEW d \in Doc, LookupError(t, d)
      PROVE  Quiet(t) /\ HitsPublished(t)' /\ Verified(t)' /\ Unmixed(t)'
  <2>1. Quiet(t)
    BY <1>1, <1>5 DEF LookupError, Looking, query, environment, Quiet, QueryTypes, Untouched,
       Recording, Phase
  <2>2. ~stable[t]
    BY <1>1, <1>5, StableLookup DEF LookupError, Unmixed
  <2>. QED  BY <1>1, <1>5, <2>1, <2>2
            DEF LookupError, query, environment, QueryTypes, HitsPublished, Verified, Unmixed
<1>6. CASE BindSnapshot(t)
  <2>1. Quiet(t)
    BY <1>1, <1>6 DEF BindSnapshot, environment, Quiet, QueryTypes, Untouched, Recording, Phase
  <2>2. /\ phase[t] = "active" /\ bound'[t] = snapshot /\ hits' = hits
        /\ snapshot' = snapshot /\ stable' = stable
        /\ phase'[t] = "bind" \/ (/\ phase'[t] = "lookup_error"
                                  /\ \E h \in hits[t] : Place[h.prov].doc \notin Content[snapshot].docs)
    BY <1>1, <1>6 DEF BindSnapshot, environment, repository, QueryTypes
  <2>3. stable[t] => phase'[t] = "bind"
    BY <1>1, <2>2, Published DEF Unmixed, HitsPublished, Ended
  <2>. QED  BY <1>1, <2>1, <2>2, <2>3 DEF HitsPublished, Verified, Unmixed, Looking, Ended
<1>7. CASE BeginGraphLane(t)
  <2>1. Quiet(t)
    BY <1>1, <1>7 DEF BeginGraphLane, environment, Quiet, QueryTypes, Untouched, Recording, Phase
  <2>2. /\ phase[t] = "bind" /\ phase'[t] = "graph" /\ bound' = bound /\ hits' = hits
        /\ local'[t] = snapshot /\ docs'[t] = Content[snapshot].readable
        /\ snapshot' = snapshot /\ stable' = stable
    BY <1>1, <1>7 DEF BeginGraphLane, environment, repository, QueryTypes
  <2>. QED  BY <1>1, <2>1, <2>2 DEF HitsPublished, Verified, Unmixed, Looking, Ended
<1>8. CASE EndGraphLane(t)
  <2>1. Quiet(t)
    BY <1>1, <1>8 DEF EndGraphLane, query, environment, Quiet, QueryTypes, Untouched, Recording,
       Phase
  <2>2. /\ phase[t] = "graph" /\ phase'[t] = "rank" /\ bound' = bound /\ hits' = hits
        /\ snapshot' = snapshot /\ stable' = stable
    BY <1>1, <1>8 DEF EndGraphLane, query, environment, repository, QueryTypes
  <2>. QED  BY <1>1, <2>1, <2>2 DEF HitsPublished, Verified, Unmixed, Looking, Ended
<1>9. CASE Rank(t)
  <2>1. PICK found \in SUBSET hits[t] \ {{}} :
          /\ phase[t] = "rank"
          /\ hits' = [hits EXCEPT ![t] = found]
          /\ phase' = [phase EXCEPT ![t] =
               IF \A h \in found : Place[h.prov].version \in Content[bound[t]].versions
               THEN "pack" ELSE "lookup_error"]
          /\ UNCHANGED <<bound, local, docs, refs, claims, environment>>
    BY <1>9 DEF Rank
  <2>2. found \subseteq hits[t] /\ hits'[t] = found
    BY <1>1, <2>1 DEF QueryTypes
  <2>3. Quiet(t)
    BY <1>1, <2>1, <2>2 DEF environment, Quiet, QueryTypes, Untouched, Recording, Phase
  <2>4. stable[t] => phase'[t] = "pack"
    BY <1>1, <2>1, <2>2, Published DEF QueryTypes, Unmixed, HitsPublished, Ended
  <2>. QED  BY <1>1, <2>1, <2>2, <2>3, <2>4
            DEF environment, repository, HitsPublished, Verified, Unmixed, Looking, Ended, QueryTypes
<1>10. CASE NoEvidence(t)
  <2>1. Quiet(t)
    BY <1>1, <1>10 DEF NoEvidence, environment, Quiet, QueryTypes, Untouched, Recording, Phase
  <2>2. /\ phase'[t] = "denied" /\ hits'[t] = {} /\ local'[t] = snapshot
        /\ docs'[t] \subseteq Content[snapshot].docs /\ snapshot' = snapshot
    BY <1>1, <1>10 DEF NoEvidence, environment, repository, QueryTypes
  <2>. QED  BY <1>1, <2>1, <2>2 DEF HitsPublished, Verified, Unmixed, Looking, Ended
<1>11. CASE EndDenied(t)
  <2>1. Quiet(t)
    BY <1>1, <1>11 DEF EndDenied, environment, Quiet, QueryTypes, Untouched, Recording, Phase
  <2>2. /\ phase[t] = "denied" /\ phase'[t] = "abstain" /\ hits' = hits
        /\ snapshot' = snapshot /\ stable' = stable
    BY <1>1, <1>11 DEF EndDenied, environment, repository, QueryTypes
  <2>. QED  BY <1>1, <2>1, <2>2 DEF HitsPublished, Verified, Unmixed, Looking, Ended
<1>. QED  BY <1>3, <1>4, <1>5, <1>6, <1>7, <1>8, <1>9, <1>10, <1>11

LEMMA SourceSteps ==
  ASSUME QaInv, NEW t \in Thread,
         \/ PackPrimaryArticle(t) \/ BeginCrossReferences(t)
         \/ \E ref \in Doc \X Article : FindArticle(t, ref) \/ AddParagraphs(t, ref)
         \/ EndCrossReferences(t)
  PROVE  QaInv'
<1>. USE DEF Set, Goto
<1>1. /\ QueryTypes /\ snapshot \in Pub /\ local[t] \in Pub
      /\ HitsPublished(t) /\ Verified(t) /\ Unmixed(t)
      /\ \A p \in Pub : Content[p].docs \subseteq Doc /\ Content[p].readable \subseteq Content[p].docs
  BY Published DEF QaInv, QaTypeOK, QueryTypes
<1>2. SUFFICES Quiet(t) /\ HitsPublished(t)' /\ Verified(t)' /\ Unmixed(t)'
  BY QuietStep
<1>3. CASE PackPrimaryArticle(t)
  <2>1. PICK primary \in hits[t] :
          LET siblings == Siblings(snapshot, primary.prov)
              known    == {h \in hits[t] : h.prov \in siblings}
              packed   == known \cup HitsIn(snapshot, siblings \ ProvsOf(known))
          IN /\ phase[t] = "pack"
             /\ hits' = [hits EXCEPT ![t] = IF packed = {} THEN {primary} ELSE packed]
             /\ phase' = [phase EXCEPT ![t] =
                  IF Place[primary.prov].version \in Content[snapshot].versions
                  THEN "cross" ELSE "lookup_error"]
             /\ UNCHANGED <<bound, local, docs, refs, claims, environment>>
    BY <1>3 DEF PackPrimaryArticle
  <2>. DEFINE siblings == Siblings(snapshot, primary.prov)
              known    == {h \in hits[t] : h.prov \in siblings}
              others   == siblings \ ProvsOf(known)
              added    == HitsIn(snapshot, others)
  <2>2. others \subseteq DOMAIN Content[snapshot].body
    BY DEF Siblings, ParagraphsOf
  <2>3. hits'[t] \subseteq hits[t] \cup added
    BY <1>1, <2>1 DEF QueryTypes
  <2>. HIDE DEF siblings, others
  <2>4. /\ added \subseteq Hit
        /\ \A h \in added : h.pub = snapshot /\ h.prov \in DOMAIN Content[snapshot].body
    BY <1>1, <2>2, ParagraphsPublished
  <2>. HIDE DEF added
  <2>5. Quiet(t)
    <3>1. hits'[t] \subseteq Hit
      BY <1>1, <2>3, <2>4 DEF QueryTypes
    <3>. QED  BY <1>1, <2>1, <3>1 DEF environment, Quiet, QueryTypes, Untouched, Recording, Phase
  <2>6. stable[t] => phase'[t] = "cross"
    BY <1>1, <2>1, Published DEF QueryTypes, Unmixed, HitsPublished, Ended
  <2>7. /\ snapshot' = snapshot /\ stable' = stable /\ phase'[t] \in {"cross", "lookup_error"}
        /\ phase[t] = "pack"
    BY <1>1, <2>1 DEF environment, repository, QueryTypes
  <2>. QED  BY <1>1, <2>3, <2>4, <2>5, <2>6, <2>7
            DEF HitsPublished, Verified, Unmixed, Looking, Ended
<1>4. CASE BeginCrossReferences(t)
  <2>1. refs'[t] \subseteq Doc \X Article
    <3>1. \A h \in hits[t] : Quote(h) \subseteq Passage
      BY <1>1, QuoteType DEF HitsPublished, QueryTypes
    <3>. DEFINE said == UNION {Mentions[x] : x \in UNION {Quote(h) : h \in hits[t]}}
    <3>2. said \subseteq Doc \X Article
      BY <3>1, QaAssumption
    <3>3. refs'[t] = {m \in said : m[1] \in Content[snapshot].docs}
      BY <1>1, <1>4 DEF BeginCrossReferences, QueryTypes
    <3>. QED  BY <3>2, <3>3
  <2>2. refs' \in [Thread -> SUBSET (Doc \X Article)]
    BY <1>1, <1>4, <2>1 DEF BeginCrossReferences, QueryTypes
  <2>3. Quiet(t)
    BY <1>1, <1>4, <2>2
    DEF BeginCrossReferences, environment, Quiet, QueryTypes, Untouched, Recording, Phase
  <2>4. /\ phase[t] = "cross" /\ phase'[t] = "refs" /\ bound'[t] = snapshot /\ hits' = hits
        /\ snapshot' = snapshot /\ stable' = stable
    BY <1>1, <1>4 DEF BeginCrossReferences, environment, repository, QueryTypes
  <2>. QED  BY <1>1, <2>3, <2>4 DEF HitsPublished, Verified, Unmixed, Looking, Ended
<1>5. ASSUME NEW ref \in Doc \X Article, FindArticle(t, ref)
      PROVE  Quiet(t) /\ HitsPublished(t)' /\ Verified(t)' /\ Unmixed(t)'
  <2>1. phase[t] = "refs" /\ UNCHANGED <<bound, hits, claims, environment>>
    BY <1>5 DEF FindArticle
  <2>2. \/ /\ ref[1] \in Content[snapshot].readable
           /\ phase' = [phase EXCEPT ![t] = "version"]
           /\ local' = [local EXCEPT ![t] = snapshot]
           /\ docs' = [docs EXCEPT ![t] = {ref[1]}]
           /\ refs' = refs
        \/ refs' = [refs EXCEPT ![t] = @ \ {ref}] /\ UNCHANGED <<phase, local, docs>>
    BY <1>5 DEF FindArticle
  <2>3. QueryTypes'
    BY <1>1, <2>1, <2>2 DEF environment, QueryTypes, Phase
  <2>4. \A u \in Thread \ {t} : Untouched(u)
    BY <1>1, <2>1, <2>2 DEF environment, QueryTypes, Untouched
  <2>5. phase'[t] = "refs" \/ (/\ phase'[t] = "version" /\ local'[t] = snapshot
                               /\ docs'[t] \subseteq Content[snapshot].docs)
    BY <1>1, <2>1, <2>2 DEF QueryTypes
  <2>6. Quiet(t)
    BY <2>1, <2>3, <2>4, <2>5 DEF environment, Quiet, Recording
  <2>7. snapshot' = snapshot /\ stable' = stable
    BY <2>1 DEF environment, repository
  <2>. QED  BY <1>1, <2>1, <2>5, <2>6, <2>7
            DEF HitsPublished, Verified, Unmixed, Looking, Ended
<1>6. ASSUME NEW ref \in Doc \X Article, AddParagraphs(t, ref)
      PROVE  Quiet(t) /\ HitsPublished(t)' /\ Verified(t)' /\ Unmixed(t)'
  <2>. DEFINE added == {x \in ParagraphsOf(local[t], Content[snapshot].effective[ref[1]]) :
                          Place[x].article = ref[2]} \ ProvsOf(hits[t])
  <2>1. PICK xs \in SUBSET added :
          IF LookupFails(ref[1], local[t]) \/ ~Listed(xs, bound[t])
          THEN /\ phase' = [phase EXCEPT ![t] = "lookup_error"]
               /\ UNCHANGED <<hits, refs, docs>>
          ELSE /\ phase' = [phase EXCEPT ![t] = "refs"]
               /\ hits' = [hits EXCEPT ![t] = @ \cup HitsIn(local[t], xs)]
               /\ refs' = [refs EXCEPT ![t] = @ \ {ref}]
               /\ docs' = [docs EXCEPT ![t] = {}]
    BY <1>6 DEF AddParagraphs
  <2>2. /\ phase[t] = "version" /\ docs[t] = {ref[1]}
        /\ UNCHANGED <<bound, local, claims, environment>>
    BY <1>6 DEF AddParagraphs
  <2>3. xs \subseteq DOMAIN Content[local[t]].body
    BY DEF ParagraphsOf
  <2>. HIDE DEF added
  <2>4. /\ HitsIn(local[t], xs) \subseteq Hit
        /\ \A h \in HitsIn(local[t], xs) :
             h.pub = local[t] /\ h.prov \in DOMAIN Content[local[t]].body
    BY <1>1, <2>3, ParagraphsPublished
  <2>5. \A h \in hits'[t] : h \in hits[t] \/ h \in HitsIn(local[t], xs)
    BY <1>1, <2>1 DEF QueryTypes
  <2>6. QueryTypes'
    BY <1>1, <2>1, <2>2, <2>4 DEF environment, QueryTypes, Phase
  <2>7. \A u \in Thread \ {t} : Untouched(u)
    BY <1>1, <2>1, <2>2 DEF environment, QueryTypes, Untouched
  <2>8. Quiet(t) /\ phase'[t] \in {"refs", "lookup_error"}
    BY <1>1, <2>1, <2>2, <2>6, <2>7 DEF environment, Quiet, Recording, QueryTypes
  <2>9. snapshot' = snapshot /\ stable' = stable /\ bound' = bound
    BY <2>2 DEF environment, repository
  <2>10. ASSUME stable[t] PROVE phase'[t] # "lookup_error" /\ local[t] = snapshot
    <3>1. local[t] = snapshot /\ bound[t] = snapshot /\ ref[1] \in Content[snapshot].docs
      BY <1>1, <2>2, <2>10 DEF Unmixed
    <3>2. ~LookupFails(ref[1], local[t])
      BY <1>1, <3>1, StableLookup
    <3>3. Listed(xs, bound[t])
      BY <1>1, <2>3, <3>1, Published DEF Listed
    <3>. QED  BY <1>1, <2>1, <3>1, <3>2, <3>3 DEF QueryTypes
  <2>. QED  BY <1>1, <2>2, <2>4, <2>5, <2>8, <2>9, <2>10
            DEF HitsPublished, Verified, Unmixed, Looking, Ended
<1>7. CASE EndCrossReferences(t)
  <2>1. Quiet(t)
    BY <1>1, <1>7 DEF EndCrossReferences, query, environment, Quiet, QueryTypes, Untouched,
       Recording, Phase
  <2>2. /\ phase[t] = "refs" /\ phase'[t] = "generate" /\ hits' = hits
        /\ snapshot' = snapshot /\ stable' = stable
    BY <1>1, <1>7 DEF EndCrossReferences, query, environment, repository, QueryTypes
  <2>. QED  BY <1>1, <2>1, <2>2 DEF HitsPublished, Verified, Unmixed, Looking, Ended
<1>. QED  BY <1>3, <1>4, <1>5, <1>6, <1>7

LEMMA GenerationSteps ==
  ASSUME QaInv, NEW t \in Thread,
         Generate(t) \/ ProviderUnavailable(t) \/ TraceAnswer(t) \/ Abstain(t)
  PROVE  QaInv'
<1>. USE DEF Set, Goto
<1>1. /\ QueryTypes /\ snapshot \in Pub
      /\ HitsPublished(t) /\ Verified(t) /\ Unmixed(t)
  BY DEF QaInv, QaTypeOK, QueryTypes
<1>2. SUFFICES Quiet(t) /\ HitsPublished(t)' /\ Verified(t)' /\ Unmixed(t)'
  BY QuietStep
<1>3. CASE Generate(t)
  <2>1. PICK cs \in {{}} \cup {{c} : c \in Claims(hits[t])} :
          /\ phase[t] = "generate"
          /\ phase' = [phase EXCEPT ![t] = IF Verify(cs, hits[t]) THEN "trace" ELSE "abstain"]
          /\ claims' = [claims EXCEPT ![t] = IF Verify(cs, hits[t]) THEN cs ELSE {}]
          /\ UNCHANGED <<bound, local, docs, refs, hits, environment>>
    BY <1>3 DEF Generate
  <2>2. (IF Verify(cs, hits[t]) THEN cs ELSE {}) \subseteq Claim
    <3>. SUFFICES ASSUME Verify(cs, hits[t]), NEW c \in cs PROVE c \in Claim
      OBVIOUS
    <3>1. c \in Claims(hits[t])
      BY <2>1
    <3>2. c \in [text : Passage, sources : Sources(hits[t])]
      BY <3>1 DEF Claims
    <3>3. Elements(c.sources) \subseteq hits[t] /\ hits[t] \subseteq Hit
      BY <1>1 DEF Verify, QueryTypes
    <3>4. PICK n \in 0 .. MaxCited : c.sources \in [1 .. n -> hits[t] \cup {None}]
      BY <3>2 DEF Sources
    <3>5. c.sources \in [1 .. n -> Hit] /\ n \in Nat
      BY <3>3, <3>4, QaAssumption DEF Elements
    <3>6. c.sources \in Seq(Hit)
      BY <3>5
    <3>. QED  BY <3>2, <3>6 DEF Claim
  <2>3. Quiet(t)
    BY <1>1, <2>1, <2>2 DEF environment, Quiet, QueryTypes, Untouched, Recording, Phase
  <2>4. \/ phase'[t] = "trace" /\ Verify(cs, hits[t]) /\ claims'[t] = cs
        \/ phase'[t] = "abstain"
    BY <1>1, <2>1 DEF QueryTypes
  <2>5. /\ hits' = hits /\ snapshot' = snapshot /\ stable' = stable /\ phase[t] = "generate"
    BY <2>1 DEF environment, repository
  <2>6. Verified(t)'
    BY <2>4, <2>5 DEF Verified
  <2>. QED  BY <1>1, <2>3, <2>4, <2>5, <2>6 DEF HitsPublished, Unmixed, Looking, Ended
<1>4. CASE ProviderUnavailable(t)
  <2>1. Quiet(t)
    BY <1>1, <1>4 DEF ProviderUnavailable, query, environment, Quiet, QueryTypes, Untouched,
       Recording, Phase
  <2>2. /\ phase[t] = "generate" /\ phase'[t] = "abstain" /\ hits' = hits
        /\ snapshot' = snapshot /\ stable' = stable
    BY <1>1, <1>4 DEF ProviderUnavailable, query, environment, repository, QueryTypes
  <2>. QED  BY <1>1, <2>1, <2>2 DEF HitsPublished, Verified, Unmixed, Looking, Ended
<1>5. CASE TraceAnswer(t)
  <2>1. Quiet(t)
    BY <1>1, <1>5 DEF TraceAnswer, environment, Quiet, QueryTypes, Untouched, Recording, Phase
  <2>2. /\ phase[t] = "trace" /\ phase'[t] = "save" /\ hits' = hits /\ claims' = claims
        /\ bound'[t] = snapshot /\ snapshot' = snapshot /\ stable' = stable
    BY <1>1, <1>5 DEF TraceAnswer, environment, repository, QueryTypes
  <2>3. Verified(t)'
    BY <1>1, <2>2 DEF Verified
  <2>. QED  BY <1>1, <2>1, <2>2, <2>3 DEF HitsPublished, Unmixed, Looking, Ended
<1>6. CASE Abstain(t)
  <2>1. Quiet(t)
    BY <1>1, <1>6 DEF Abstain, environment, Quiet, QueryTypes, Untouched, Recording, Phase
  <2>2. /\ phase'[t] = "save" /\ hits'[t] = {} /\ claims'[t] = {}
        /\ bound'[t] = snapshot /\ snapshot' = snapshot
    BY <1>1, <1>6 DEF Abstain, environment, repository, QueryTypes
  <2>. QED  BY <1>1, <2>1, <2>2 DEF HitsPublished, Verified, Unmixed, Looking, Ended
<1>. QED  BY <1>3, <1>4, <1>5, <1>6

-----------------------------------------------------------------------------
(* The record *)

\* What a thread has found and verified is a result of the right type.
LEMMA ResultOfThread ==
  ASSUME QaInv, NEW t \in Thread, phase[t] \in {"save", "audit"}
  PROVE  /\ Result(t) \in Answered /\ Supported(Result(t))
         /\ Result(t).claims = {} <=> Result(t).citations = {}
<1>1. /\ hits[t] \subseteq Hit /\ claims[t] \subseteq Claim /\ bound[t] \in Pub
      /\ \A h \in hits[t] : h.prov \in DOMAIN Content[h.pub].body
  BY DEF QaInv, QaTypeOK, HitsPublished
<1>2. Verify(claims[t], hits[t]) \/ (claims[t] = {} /\ hits[t] = {})
  BY DEF QaInv, Verified
<1>3. \A h \in hits[t] : [prov |-> h.prov, quote |-> Quote(h)] \in Citation
  BY <1>1, QuoteType DEF Citation, Hit
<1>4. Result(t) \in Answered
  BY <1>1, <1>3 DEF Result, Answered
<1>5. Supported(Result(t))
  <2>. SUFFICES ASSUME NEW c \in claims[t]
                PROVE  SupportedBy(c, Result(t).citations)
    BY DEF Supported, Result
  <2>. DEFINE quotes == [i \in DOMAIN c.sources |-> Quote(c.sources[i])]
              cs == Result(t).citations
  <2>1. Elements(c.sources) \subseteq hits[t] /\ Supports(quotes, c.text)
    BY <1>2 DEF Verify
  <2>2. \A h \in hits[t] : [prov |-> h.prov, quote |-> Quote(h)] \in cs
    BY DEF Result
  <2>3. \A i \in DOMAIN c.sources :
          [prov |-> c.sources[i].prov, quote |-> quotes[i]] \in cs
    BY <2>1, <2>2 DEF Elements
  <2>. HIDE DEF cs
  <2>4. quotes \in [DOMAIN c.sources -> {q.quote : q \in cs}]
    <3>. SUFFICES ASSUME NEW i \in DOMAIN c.sources
                  PROVE  quotes[i] \in {q.quote : q \in cs}
      OBVIOUS
    <3>1. [prov |-> c.sources[i].prov, quote |-> quotes[i]].quote = quotes[i]
      OBVIOUS
    <3>. QED  BY <2>3, <3>1
  <2>5. DOMAIN quotes = DOMAIN c.sources
    OBVIOUS
  <2>. HIDE DEF quotes
  <2>6. SupportedBy(c, cs)
    BY <2>1, <2>3, <2>4, <2>5 DEF SupportedBy
  <2>. QED  BY <2>6 DEF cs
<1>6. claims[t] = {} <=> hits[t] = {}
  <2>. SUFFICES ASSUME Verify(claims[t], hits[t]) PROVE claims[t] # {} /\ hits[t] # {}
    BY <1>2
  <2>1. PICK c \in claims[t] : c.sources # <<>> /\ Elements(c.sources) \subseteq hits[t]
    BY DEF Verify
  <2>2. c.sources \in Seq(Hit)
    BY <1>1 DEF Claim
  <2>3. 1 \in DOMAIN c.sources
    BY <2>1, <2>2
  <2>. QED  BY <2>1, <2>3 DEF Elements
<1>. QED  BY <1>4, <1>5, <1>6 DEF Result

LEMMA RecordSteps ==
  ASSUME QaInv, NEW t \in Thread, SaveResult(t) \/ AppendEvent(t) \/ RecordFails(t)
  PROVE  QaInv'
<1>. USE DEF Set, Goto
<1>1. /\ QueryTypes /\ QaTypeOK /\ GivenAsRecorded
      /\ \A u \in Thread : HitsPublished(u) /\ Recorded(u) /\ Verified(u) /\ Unmixed(u)
  BY DEF QaInv, QaTypeOK, QueryTypes
<1>2. UNCHANGED <<snapshot, hits, claims, bound, local, docs, refs, stable>>
  BY DEF SaveResult, AppendEvent, RecordFails, repository, query
<1>3. ASSUME NEW u \in Thread, u # t
      PROVE  /\ HitsPublished(u)' /\ Verified(u)' /\ Unmixed(u)'
             /\ phase'[u] = phase[u]
  <2>1. phase'[u] = phase[u]
    BY <1>1, <1>3 DEF SaveResult, AppendEvent, RecordFails, QueryTypes
  <2>. QED  BY <1>1, <1>2, <2>1, UntouchedKeeps DEF Untouched
<1>4. HitsPublished(t)'
  BY <1>1, <1>2 DEF HitsPublished
<1>5. CASE SaveResult(t)
  <2>1. /\ phase[t] = "save" /\ phase' = [phase EXCEPT ![t] = "audit"]
        /\ results' = Extend(results, t, Result(t)) /\ events' = events
        /\ UNCHANGED <<repository, readers, reloads, faults>>
    BY <1>5 DEF SaveResult
  <2>2. /\ t \notin DOMAIN results /\ DOMAIN results' = DOMAIN results \cup {t}
        /\ results'[t] = Result(t)
        /\ \A u \in DOMAIN results : results'[u] = results[u]
    BY <1>1, <2>1 DEF Recorded, Extend
  <2>3. QaTypeOK'
    <3>1. \A u \in DOMAIN results' :
            /\ results'[u].citations \subseteq Citation
            /\ results'[u].claims \subseteq Claim
            /\ results'[u].trace \in Pub
            /\ results'[u].claims = {} <=> results'[u].citations = {}
      BY <1>1, <2>1, <2>2, ResultOfThread DEF QaTypeOK, Answered
    <3>2. phase' \in [Thread -> Phase] /\ DOMAIN results' \subseteq Thread
      BY <1>1, <2>1, <2>2 DEF QaTypeOK, Phase
    <3>. QED  BY <1>1, <1>2, <2>1, <3>1, <3>2 DEF QaTypeOK, repository, readers
  <2>4. GivenAsRecorded'
    BY <1>1, <2>1, <2>2 DEF GivenAsRecorded, IsRecorded, Shown, readers
  <2>5. \A u \in Thread \ {t} : Recorded(u)'
    BY <1>1, <1>2, <1>3, <2>1, <2>2, UntouchedRecord
  <2>6. Result(t)' = Result(t) /\ phase'[t] = "audit"
    BY <1>1, <1>2, <2>1 DEF Result, Quote, QueryTypes
  <2>7. Recorded(t)' /\ Verified(t)' /\ Unmixed(t)'
    <3>1. Supported(results[t])' /\ results'[t] \in Answered
      BY <2>1, <2>2, ResultOfThread DEF Supported, QaInv
    <3>2. Recorded(t)'
      BY <1>1, <2>1, <2>2, <2>6, <3>1 DEF Recorded
    <3>3. Verified(t)' /\ Unmixed(t)'
      BY <1>1, <1>2, <2>1, <2>6 DEF Verified, Unmixed, Looking, Ended
    <3>. QED  BY <3>2, <3>3
  <2>. QED  BY <1>1, <1>2, <1>3, <1>4, <2>3, <2>4, <2>5, <2>7 DEF QaInv, QueryTypes
<1>6. CASE AppendEvent(t)
  <2>1. /\ phase[t] = "audit" /\ phase' = [phase EXCEPT ![t] = "returned"]
        /\ events' = events \cup {t} /\ shown' = shown \cup {Shown(t, Result(t))}
        /\ UNCHANGED <<repository, results, fetched, reloads, faults>>
    BY <1>6 DEF AppendEvent
  <2>2. t \in DOMAIN results /\ results[t] = Result(t) /\ phase'[t] = "returned"
    BY <1>1, <2>1 DEF Recorded, QueryTypes
  <2>3. QaTypeOK'
    BY <1>1, <1>2, <2>1 DEF QaTypeOK, repository, Phase
  <2>4. GivenAsRecorded'
    BY <1>1, <2>1, <2>2 DEF GivenAsRecorded, IsRecorded, Shown
  <2>5. \A u \in Thread \ {t} : Recorded(u)'
    BY <1>1, <1>2, <1>3, <2>1, UntouchedRecord
  <2>6. Recorded(t)'
    BY <1>1, <2>1, <2>2 DEF Recorded, Supported
  <2>7. Verified(t)' /\ Unmixed(t)'
    BY <2>2 DEF Verified, Unmixed, Looking, Ended
  <2>. QED  BY <1>1, <1>2, <1>3, <1>4, <2>3, <2>4, <2>5, <2>6, <2>7 DEF QaInv, QueryTypes
<1>7. CASE RecordFails(t)
  <2>1. /\ phase[t] \in {"save", "audit"} /\ phase' = [phase EXCEPT ![t] = "failed"]
        /\ faults < MaxFaults /\ faults' = faults + 1
        /\ UNCHANGED <<repository, stores, readers, reloads>>
    BY <1>7 DEF RecordFails
  <2>2. phase'[t] = "failed"
    BY <1>1, <2>1 DEF QueryTypes
  <2>3. QaTypeOK'
    BY <1>1, <1>2, <2>1, QaAssumption DEF QaTypeOK, repository, stores, readers, Phase
  <2>4. GivenAsRecorded'
    BY <1>1, <2>1 DEF GivenAsRecorded, IsRecorded, Shown, stores, readers
  <2>5. \A u \in Thread \ {t} : Recorded(u)'
    BY <1>1, <1>2, <1>3, <2>1, UntouchedRecord DEF stores
  <2>6. Recorded(t)' /\ Verified(t)' /\ Unmixed(t)'
    BY <1>1, <2>1, <2>2 DEF Recorded, Supported, stores, Verified, Unmixed, Looking, Ended
  <2>. QED  BY <1>1, <1>2, <1>3, <1>4, <2>3, <2>4, <2>5, <2>6 DEF QaInv, QueryTypes
<1>. QED  BY <1>5, <1>6, <1>7

LEMMA QuestionSteps ==
  ASSUME QaInv, NEW t \in Thread, AnswerStep(t) \/ RecordFails(t)
  PROVE  QaInv'
BY RetrievalSteps, SourceSteps, GenerationSteps, RecordSteps DEF AnswerStep

-----------------------------------------------------------------------------
(* Reloads, crashes and readers *)

LEMMA ReloadSteps ==
  ASSUME QaInv, (\E p \in Pub : CommitReload(p)) \/ AssignSnapshot \/ Crash
  PROVE  QaInv'
<1>1. /\ QaTypeOK /\ GivenAsRecorded
      /\ \A u \in Thread : HitsPublished(u) /\ Recorded(u) /\ Verified(u) /\ Unmixed(u)
  BY DEF QaInv
<1>2. /\ UNCHANGED <<hits, claims, bound, local, docs, refs, results, events, shown>>
      /\ fetched' = fetched \/ fetched' = <<>>
  BY DEF CommitReload, AssignSnapshot, Crash, query, stores, readers
<1>3. QaTypeOK'
  <2>1. CASE \E p \in Pub : CommitReload(p)
    BY <1>1, <2>1, QaAssumption DEF QaTypeOK, CommitReload, query, stores, readers
  <2>2. CASE AssignSnapshot
    BY <1>1, <2>2 DEF QaTypeOK, AssignSnapshot, query, stores, readers
  <2>3. CASE Crash
    <3>1. phase' \in [Thread -> Phase]
      BY <1>1, <2>3 DEF QaTypeOK, Crash, Phase
    <3>2. faults' \in 0 .. MaxFaults /\ DOMAIN fetched' = {}
      BY <1>1, <2>3, QaAssumption DEF QaTypeOK, Crash
    <3>. QED  BY <1>1, <2>3, <3>1, <3>2 DEF QaTypeOK, Crash, query, stores
  <2>. QED  BY <2>1, <2>2, <2>3
<1>4. GivenAsRecorded'
  BY <1>1, <1>2 DEF GivenAsRecorded, IsRecorded, Shown
<1>5. ASSUME NEW u \in Thread
      PROVE  HitsPublished(u)' /\ Recorded(u)' /\ Verified(u)' /\ Unmixed(u)'
  <2>1. HitsPublished(u)'
    BY <1>1, <1>2 DEF HitsPublished
  <2>2. CASE phase'[u] = phase[u]
    <3>1. Recorded(u)'
      BY <1>1, <1>2, <2>2, UntouchedRecord
    <3>2. Verified(u)'
      BY <1>1, <1>2, <2>2 DEF Verified
    <3>3. stable'[u] => stable[u] /\ snapshot' = snapshot
      BY DEF CommitReload, AssignSnapshot, Crash
    <3>4. Unmixed(u)'
      BY <1>1, <1>2, <2>2, <3>3 DEF Unmixed
    <3>. QED  BY <2>1, <3>1, <3>2, <3>4
  <2>3. CASE phase'[u] # phase[u]
    <3>1. phase'[u] = "failed" /\ phase[u] # "returned" /\ ~stable'[u]
      BY <2>3 DEF CommitReload, AssignSnapshot, Crash, Ended
    <3>. QED  BY <1>1, <1>2, <2>1, <3>1 DEF Recorded, Supported, Verified, Unmixed
  <2>. QED  BY <2>2, <2>3
<1>. QED  BY <1>2, <1>3, <1>4, <1>5 DEF QaInv

\* A result whose rows still have the recorded text is read as recorded.
LEMMA CanonicalAsRecorded ==
  ASSUME NEW r \in Answered, IntegrityHolds(r), NEW t
  PROVE  Shown(t, FromCanonical(r)) = Shown(t, r)
<1>1. FromCanonical(r).citations = r.citations
  <2>. DEFINE body(c) == Content[canonical[c.prov]].body[c.prov]
  <2>1. \A c \in r.citations : [prov |-> c.prov, quote |-> body(c)] = c
    BY DEF IntegrityHolds, Answered, Citation
  <2>2. FromCanonical(r).citations = {[prov |-> c.prov, quote |-> body(c)] : c \in r.citations}
    BY DEF FromCanonical, Answered
  <2>. HIDE DEF body
  <2>. QED  BY <2>1, <2>2
<1>2. FromCanonical(r).claims = r.claims
  BY DEF FromCanonical, Answered
<1>. QED  BY <1>1, <1>2 DEF Shown

LEMMA ReaderSteps ==
  ASSUME QaInv, NEW r \in Reader, ReturnResult(r) \/ \E t \in Thread : LoadResult(r, t)
  PROVE  QaInv'
<1>1. /\ QaTypeOK /\ GivenAsRecorded
      /\ \A u \in Thread : HitsPublished(u) /\ Recorded(u) /\ Verified(u) /\ Unmixed(u)
  BY DEF QaInv
<1>2. UNCHANGED <<repository, phase, query, stores, stable, reloads, faults>>
  BY DEF ReturnResult, LoadResult
<1>3. ASSUME NEW u \in Thread
      PROVE  HitsPublished(u)' /\ Recorded(u)' /\ Verified(u)' /\ Unmixed(u)'
  BY <1>1, <1>2, UntouchedKeeps, UntouchedRecord DEF Untouched, repository, query, stores
<1>4. CASE ReturnResult(r)
  <2>1. /\ DOMAIN fetched' \subseteq DOMAIN fetched
        /\ \A x \in DOMAIN fetched' : fetched'[x] = fetched[x]
        /\ r \in DOMAIN fetched
        /\ \A x \in shown' : x \in shown \/ x = fetched[r]
    BY <1>4 DEF ReturnResult, Without
  <2>2. GivenAsRecorded'
    BY <1>1, <1>2, <2>1 DEF GivenAsRecorded, IsRecorded, Shown, stores
  <2>. QED  BY <1>1, <1>2, <1>3, <2>1, <2>2
            DEF QaInv, QaTypeOK, repository, query, stores
<1>5. ASSUME NEW t \in Thread, LoadResult(r, t)
      PROVE  QaInv'
  <2>1. /\ t \in DOMAIN results /\ results[t] \in Answered /\ IntegrityHolds(results[t])
        /\ DOMAIN fetched' = DOMAIN fetched \cup {r} /\ shown' = shown
        /\ fetched'[r] = Shown(t, FromCanonical(results[t]))
        /\ \A x \in DOMAIN fetched : x # r => fetched'[x] = fetched[x]
    BY <1>1, <1>5 DEF LoadResult, Extend, Recorded
  <2>2. fetched'[r] = Shown(t, results[t])
    BY <2>1, CanonicalAsRecorded
  <2>3. GivenAsRecorded'
    BY <1>1, <1>2, <2>1, <2>2 DEF GivenAsRecorded, IsRecorded, Shown, stores
  <2>. QED  BY <1>1, <1>2, <1>3, <2>1, <2>3
            DEF QaInv, QaTypeOK, repository, query, stores
<1>. QED  BY <1>4, <1>5

-----------------------------------------------------------------------------
(* The invariant, and what follows from it *)

LEMMA QaInitially == Init => QaInv
<1>. SUFFICES ASSUME Init PROVE QaInv
  OBVIOUS
<1>1. /\ DOMAIN results = {} /\ DOMAIN fetched = {} /\ shown = {} /\ events = {}
      /\ \A t \in Thread : phase[t] = "idle" /\ hits[t] = {}
  BY DEF Init
<1>2. QaTypeOK
  BY <1>1, QaAssumption DEF Init, QaTypeOK, Phase
<1>3. GivenAsRecorded
  BY <1>1 DEF GivenAsRecorded
<1>4. \A t \in Thread : HitsPublished(t) /\ Recorded(t) /\ Verified(t) /\ Unmixed(t)
  BY <1>1 DEF HitsPublished, Recorded, Verified, Unmixed, Looking
<1>. QED  BY <1>2, <1>3, <1>4 DEF Init, QaInv

LEMMA QaUnchanged ==
  ASSUME QaInv, UNCHANGED vars
  PROVE  QaInv'
<1>1. UNCHANGED <<repository, phase, bound, local, docs, refs, hits, claims, stores, readers,
                  stable, reloads, faults>>
  BY DEF vars, query
<1>2. QaTypeOK' /\ GivenAsRecorded'
  BY <1>1 DEF QaInv, QaTypeOK, GivenAsRecorded, IsRecorded, Shown, repository, stores, readers
<1>3. ASSUME NEW u \in Thread
      PROVE  HitsPublished(u)' /\ Recorded(u)' /\ Verified(u)' /\ Unmixed(u)'
  BY <1>1, UntouchedKeeps, UntouchedRecord DEF QaInv, Untouched, repository, stores
<1>. QED  BY <1>1, <1>2, <1>3 DEF QaInv

LEMMA QaPreserved == QaInv /\ [Next]_vars => QaInv'
BY QuestionSteps, ReloadSteps, ReaderSteps, QaUnchanged DEF Next

\* What clients are given is recorded, and recorded claims are supported.
LEMMA RecordedClaims == QaInv => ClaimsSupported
BY DEF QaInv, GivenAsRecorded, IsRecorded, Shown, Recorded, Supported, QaTypeOK, ClaimsSupported

LEMMA RecordedOnce == QaInv => RereadUnchanged
BY DEF QaInv, GivenAsRecorded, IsRecorded, RereadUnchanged

LEMMA RecordedFirst == QaInv => AnswersRecorded
BY DEF QaInv, QaTypeOK, GivenAsRecorded, IsRecorded, Recorded, AnswersRecorded

LEMMA UnmixedAnswers == QaInv => StableQueriesConsistent
<1>. SUFFICES ASSUME QaInv, NEW t \in Thread, stable[t], phase[t] = "audit",
                     NEW c \in results[t].citations
              PROVE  /\ c.prov \in DOMAIN Content[results[t].trace].body
                     /\ c.quote = Content[results[t].trace].body[c.prov]
  BY DEF StableQueriesConsistent, QaInv, Unmixed
<1>1. results[t] = Result(t) /\ bound[t] = snapshot
  BY DEF QaInv, Recorded, Unmixed
<1>2. PICK h \in hits[t] : c = [prov |-> h.prov, quote |-> Quote(h)]
  BY <1>1 DEF Result
<1>3. h.pub = snapshot /\ h.prov \in DOMAIN Content[h.pub].body
  BY DEF QaInv, HitsPublished, Unmixed, Ended
<1>4. results[t].trace = snapshot
  BY <1>1 DEF Result
<1>. QED  BY <1>2, <1>3, <1>4 DEF Quote

\* The inductive invariant: types, and that hits are published text, results
\* what their threads found and verified, and stable queries of one snapshot.
THEOREM QuestionsInvariant == Spec => []QaInv
BY QaInitially, QaPreserved, PTL DEF Spec

\* Types, and that a recorded result has citations exactly if it has a claim.
THEOREM QuestionTypesCorrect == Spec => []QaTypeOK
<1>1. QaInv => QaTypeOK
  BY DEF QaInv
<1>. QED  BY <1>1, QuestionsInvariant, PTL

\* Whatever is reloaded, re-seeded or lost between the stages of an answer or
\* before it is read again, a claim is supported by the quotes, given with it,
\* of the sources it cites: it stands in one, over the seam of two, or is the
\* normalization of their text, and has no number they have not.
THEOREM EveryClaimSupported == Spec => []ClaimsSupported
BY RecordedClaims, QuestionsInvariant, PTL

\* A result that is read again is the one that was answered.
THEOREM EveryRereadUnchanged == Spec => []RereadUnchanged
BY RecordedOnce, QuestionsInvariant, PTL

\* Answers are recorded and audited before a client has them.
THEOREM EveryAnswerRecorded == Spec => []AnswersRecorded
BY RecordedFirst, QuestionsInvariant, PTL

\* A query over which no snapshot is assigned fails on no lookup and quotes
\* the publication its trace names.
THEOREM StableQueriesUnmixed == Spec => []StableQueriesConsistent
BY UnmixedAnswers, QuestionsInvariant, PTL

=============================================================================
