----------------------- MODULE VersionTimelineProofs -----------------------
(***************************************************************************)
(* Theorems about VersionTimeline, for every content and every date: the   *)
(* check of _load looks at neighbours only, the exclusion constraint at    *)
(* the row that is written only, either keeps a snapshot unambiguous, and  *)
(* together they refuse no amendment.                                      *)
(***************************************************************************)
EXTENDS VersionTimeline, TLAPS

\* No two published rows have a day in common.
NoOverlap(t) ==
  \A u, v \in Version :
    u # v /\ t[u] # None /\ t[v] # None => ~Overlaps(t[u], t[v])

TimelineInv ==
  /\ TimelineTypeOK
  /\ NoOverlap(table)
  /\ NoOverlap(work)
  /\ SnapshotUnambiguous

-----------------------------------------------------------------------------
(* The two checks *)

\* Records with a common effective day have periods that overlap.
LEMMA CommonDayOverlaps ==
  ASSUME NEW r \in Record, NEW s \in Record, CommonDay(r, s)
  PROVE  Overlaps(r, s)
<1>1. PICK day \in {r.from, s.from} : IsEffective(r, day) /\ IsEffective(s, day)
  BY DEF CommonDay
<1>2. /\ day \in Nat /\ r.from \in Nat /\ s.from \in Nat
      /\ r.to \in Nat \cup {Open} /\ s.to \in Nat \cup {Open}
  BY <1>1 DEF Record
<1>3. /\ r.status = "published" /\ s.status = "published"
      /\ r.from <= day /\ s.from <= day
      /\ r.to # Open => day < r.to
      /\ s.to # Open => day < s.to
  BY <1>1 DEF IsEffective, Before
<1> QED  BY <1>2, <1>3, TimelineAssumption DEF Overlaps, NonEmpty, Before

LEMMA OverlapsSymmetric ==
  ASSUME NEW r, NEW s, Overlaps(r, s)
  PROVE  Overlaps(s, r)
BY DEF Overlaps

\* Comparing neighbours is enough in a content sorted by first days: every period
\* ends before each later one starts.
LEMMA EndsBeforeLater ==
  ASSUME NEW p \in Pub, LoadAccepts(Content[p]),
         NEW k \in 1 .. Len(Content[p]), NEW m \in 1 .. Len(Content[p]), k < m
  PROVE  /\ Content[p][k].to # Open /\ Content[p][k].to <= Content[p][m].from
         /\ ~Overlaps(Content[p][k], Content[p][m])
<1> DEFINE c == Content[p]
<1>1. c \in Seq(Record) /\ Len(c) \in Nat
  BY TimelineAssumption
<1>2. c[k] \in Record /\ c[m] \in Record /\ c[k + 1] \in Record
  BY <1>1
<1>3. c[k].to # Open /\ c[k].to <= c[k + 1].from
  BY <1>1 DEF LoadAccepts
<1>4. c[k + 1].from <= c[m].from
  <2>1. CASE k + 1 = m
    BY <1>2, <2>1 DEF Record
  <2>2. CASE k + 1 < m
    BY <1>1, <2>2, TimelineAssumption
  <2> QED  BY <1>1, <2>1, <2>2
<1>5. c[k].to <= c[m].from
  BY <1>2, <1>3, <1>4, TimelineAssumption DEF Record
<1>6. ~Overlaps(c[k], c[m])
  BY <1>2, <1>3, <1>5, TimelineAssumption DEF Overlaps, Before, Record
<1> QED  BY <1>3, <1>5, <1>6

\* Sorted periods each of which ends before the next one starts are disjoint,
\* also if some of them are empty or end before they start.
LEMMA AcceptedContentUnambiguous ==
  ASSUME NEW p \in Pub, LoadAccepts(Content[p]),
         NEW r \in RecordsOf(p), NEW s \in RecordsOf(p), CommonDay(r, s)
  PROVE  r = s
<1> DEFINE c == Content[p]
<1>1. c \in Seq(Record) /\ Len(c) \in Nat
  BY TimelineAssumption
<1>2. PICK i \in 1 .. Len(c), j \in 1 .. Len(c) : r = c[i] /\ s = c[j]
  BY DEF RecordsOf
<1>3. r \in Record /\ s \in Record
  BY <1>1, <1>2
<1>4. Overlaps(r, s) /\ Overlaps(s, r)
  BY <1>3, CommonDayOverlaps, OverlapsSymmetric
<1> QED  BY <1>1, <1>2, <1>4, EndsBeforeLater

-----------------------------------------------------------------------------
(* Types *)

LEMMA TimelineTypesInitially == Init => TimelineTypeOK
BY TimelineAssumption DEF Init, TimelineTypeOK, Rows

LEMMA ContentIsRecords ==
  ASSUME NEW p \in Pub, NEW i \in 1 .. Len(Content[p])
  PROVE  Content[p][i] \in Record /\ Content[p][i].id \in Version
<1>1. Content[p] \in Seq(Record)
  BY TimelineAssumption
<1>2. Content[p][i] \in Record
  BY <1>1
<1> QED  BY <1>2 DEF Record

LEMMA MembersAreVersions ==
  ASSUME NEW p \in Pub
  PROVE  Members(p) \subseteq Version
BY ContentIsRecords DEF Members

LEMMA CurrentIsRecord ==
  ASSUME TimelineTypeOK, Writing
  PROVE  Current \in Record /\ Current.id \in Version /\ Current # None
<1>1. seeding \in Pub
  BY DEF TimelineTypeOK, Writing
<1>2. Len(Content[seeding]) \in Nat
  BY <1>1, TimelineAssumption
<1>3. next \in 1 .. Len(Content[seeding])
  BY <1>2 DEF TimelineTypeOK, Writing
<1>4. Current \in Record /\ Current.id \in Version
  BY <1>1, <1>3, ContentIsRecords DEF Current
<1> QED  BY <1>4, TimelineAssumption

LEMMA TimelineTypesPreserved ==
  TimelineTypeOK /\ [Next]_vars => TimelineTypeOK'
<1> SUFFICES ASSUME TimelineTypeOK, [Next]_vars
             PROVE  TimelineTypeOK'
  OBVIOUS
<1> USE TimelineAssumption DEF TimelineTypeOK
<1>1. ASSUME NEW p \in Pub, LoadSnapshot(p)
      PROVE  TimelineTypeOK'
  <2>1. served' \subseteq Record
    BY <1>1 DEF LoadSnapshot, RecordsOf
  <2> QED  BY <1>1, <2>1 DEF LoadSnapshot
<1>2. ASSUME NEW p \in Pub, BeginSeed(p)
      PROVE  TimelineTypeOK'
  <2>1. 1 \in 1 .. Len(Content[p]) + 1
    OBVIOUS
  <2> QED  BY <1>2, <2>1 DEF BeginSeed
<1>3. CASE WriteVersion
  <2>1. Current \in Record /\ Current.id \in Version /\ Current # None
    BY <1>3, CurrentIsRecord DEF WriteVersion
  <2>2. work' \in Rows
    BY <1>3, <2>1 DEF WriteVersion, Rows
  <2>3. \A v \in Version : work'[v] # None => work'[v].id = v
    BY <1>3, <2>1 DEF WriteVersion, Rows
  <2>4. next' \in 1 .. Len(Content[seeding]) + 1 /\ next' \in Nat
    BY <1>3 DEF WriteVersion, Writing
  <2> QED  BY <1>3, <2>2, <2>3, <2>4 DEF WriteVersion, Writing
<1>4. CASE ExclusionConflict
  BY <1>4 DEF ExclusionConflict, Abandon, Rows
<1>5. CASE CommitSeed
  BY <1>5 DEF CommitSeed, Abandon, Rows
<1>6. CASE Rollback
  BY <1>6 DEF Rollback, Abandon, Rows
<1>7. CASE SelectPublication
  BY <1>7 DEF SelectPublication
<1>8. CASE ReadVersions
  <2>1. Members(reading) \subseteq Version
    BY <1>8, MembersAreVersions DEF ReadVersions
  <2>2. served' \subseteq Record
    BY <1>8, <2>1 DEF ReadVersions, Rows
  <2> QED  BY <1>8, <2>2 DEF ReadVersions
<1>9. CASE UNCHANGED vars
  BY <1>9 DEF vars
<1> QED  BY <1>1, <1>2, <1>3, <1>4, <1>5, <1>6, <1>7, <1>8, <1>9 DEF Next

\* In every reachable state the variables have their types and no rows are
\* pending outside a seed transaction.
THEOREM TimelineTypesCorrect == Spec => []TimelineTypeOK
BY TimelineTypesInitially, TimelineTypesPreserved, PTL DEF Spec

-----------------------------------------------------------------------------
(* The rows and the snapshot *)

LEMMA RowsStayDisjoint ==
  ASSUME TimelineInv, [Next]_vars
  PROVE  NoOverlap(table') /\ NoOverlap(work')
<1>1. CASE WriteVersion
  <2>1. Current \in Record /\ Current.id \in Version /\ Current # None
    BY <1>1, CurrentIsRecord DEF WriteVersion, TimelineInv
  <2>2. /\ work \in Rows /\ table' = table
        /\ work' = [work EXCEPT ![Current.id] = Current]
    BY <1>1 DEF WriteVersion, TimelineInv, TimelineTypeOK
  <2>3. \A v \in Version \ {Current.id} :
          work[v] # None => ~Overlaps(Current, work[v])
    BY <1>1, <2>1 DEF WriteVersion, Excluded
  <2>4. ASSUME NEW u \in Version, NEW v \in Version, u # v,
               work'[u] # None, work'[v] # None
        PROVE  ~Overlaps(work'[u], work'[v])
    <3>1. CASE u = Current.id
      BY <2>1, <2>2, <2>3, <2>4, <3>1 DEF Rows
    <3>2. CASE v = Current.id
      BY <2>1, <2>2, <2>3, <2>4, <3>2, OverlapsSymmetric DEF Rows
    <3>3. CASE u # Current.id /\ v # Current.id
      BY <2>2, <2>4, <3>3 DEF Rows, TimelineInv, NoOverlap
    <3> QED  BY <3>1, <3>2, <3>3
  <2> QED  BY <2>2, <2>4 DEF TimelineInv, NoOverlap
<1>2. ASSUME NEW t, \A v \in Version : t[v] = None
      PROVE  NoOverlap(t)
  BY <1>2 DEF NoOverlap
<1>3. CASE ExclusionConflict \/ CommitSeed \/ Rollback
  <2>1. \A v \in Version : work'[v] = None
    BY <1>3 DEF ExclusionConflict, CommitSeed, Rollback, Abandon
  <2>2. table' = table \/ table' = work
    BY <1>3 DEF ExclusionConflict, CommitSeed, Rollback
  <2> QED  BY <1>2, <2>1, <2>2 DEF TimelineInv
<1>4. CASE \/ \E p \in Pub : LoadSnapshot(p) \/ BeginSeed(p)
           \/ SelectPublication \/ ReadVersions \/ UNCHANGED vars
  <2>1. table' = table /\ (work' = work \/ work' = table)
    BY <1>4 DEF LoadSnapshot, BeginSeed, SelectPublication, ReadVersions, vars
  <2> QED  BY <2>1 DEF TimelineInv
<1> QED  BY <1>1, <1>3, <1>4 DEF Next

LEMMA SnapshotStaysUnambiguous ==
  ASSUME TimelineInv, [Next]_vars
  PROVE  SnapshotUnambiguous'
<1>1. ASSUME NEW p \in Pub, LoadSnapshot(p)
      PROVE  SnapshotUnambiguous'
  BY <1>1, AcceptedContentUnambiguous DEF LoadSnapshot, SnapshotUnambiguous
<1>2. CASE ReadVersions
  <2> SUFFICES ASSUME NEW r \in served', NEW s \in served', CommonDay(r, s)
               PROVE  r.id = s.id
    BY DEF SnapshotUnambiguous
  <2>1. reading \in Pub /\ Members(reading) \subseteq Version
    BY <1>2, MembersAreVersions DEF ReadVersions, TimelineInv, TimelineTypeOK
  <2>2. PICK u \in Version, v \in Version :
          /\ r = table[u] /\ table[u] # None
          /\ s = table[v] /\ table[v] # None
    BY <1>2, <2>1 DEF ReadVersions
  <2>3. r \in Record /\ s \in Record
    BY <2>2 DEF TimelineInv, TimelineTypeOK, Rows
  <2>4. Overlaps(r, s)
    BY <2>3, CommonDayOverlaps
  <2> QED  BY <2>2, <2>4 DEF TimelineInv, NoOverlap
<1>3. CASE \/ \E p \in Pub : BeginSeed(p)
           \/ WriteVersion \/ ExclusionConflict \/ CommitSeed \/ Rollback
           \/ SelectPublication \/ UNCHANGED vars
  <2>1. served' = served
    BY <1>3 DEF BeginSeed, WriteVersion, ExclusionConflict, CommitSeed,
                Rollback, SelectPublication, vars
  <2> QED  BY <2>1 DEF TimelineInv, SnapshotUnambiguous
<1> QED  BY <1>1, <1>2, <1>3 DEF Next

LEMMA TimelineInitially == Init => TimelineInv
BY TimelineTypesInitially DEF Init, TimelineInv, NoOverlap, SnapshotUnambiguous

LEMMA TimelinePreserved == TimelineInv /\ [Next]_vars => TimelineInv'
BY TimelineTypesPreserved, RowsStayDisjoint, SnapshotStaysUnambiguous
   DEF TimelineInv, NoOverlap

\* Whatever contents are loaded, seeded and read back, and however hydrations
\* fall between commits, effective_version finds one version at most.
THEOREM OneEffectiveVersion == Spec => []SnapshotUnambiguous
<1>1. TimelineInv => SnapshotUnambiguous
  BY DEF TimelineInv
<1> QED  BY <1>1, TimelineInitially, TimelinePreserved, PTL DEF Spec

-----------------------------------------------------------------------------
(* Amendments *)

WrittenAt(v, i) == i \in 1 .. next - 1 /\ Content[seeding][i].id = v

\* The seed transaction sees the records it has written and the committed rows
\* of the versions it has yet to write.
WrittenSoFar ==
  seeding # None =>
    /\ LoadAccepts(Content[seeding])
    /\ \A v \in Version :
         \/ \E i \in 1 .. Len(Content[seeding]) :
              WrittenAt(v, i) /\ work[v] = Content[seeding][i]
         \/ work[v] = table[v]
              /\ \A i \in 1 .. Len(Content[seeding]) : ~WrittenAt(v, i)

LEMMA WrittenInitially == Init => WrittenSoFar
BY DEF Init, WrittenSoFar

LEMMA WrittenPreserved ==
  TimelineTypeOK /\ TimelineTypeOK' /\ WrittenSoFar /\ [Next]_vars => WrittenSoFar'
<1> SUFFICES ASSUME TimelineTypeOK, TimelineTypeOK', WrittenSoFar, [Next]_vars
             PROVE  WrittenSoFar'
  OBVIOUS
<1>1. ASSUME NEW p \in Pub, BeginSeed(p)
      PROVE  WrittenSoFar'
  <2>1. /\ seeding' = p /\ next' = 1 /\ work' = table /\ table' = table
        /\ LoadAccepts(Content[p])
    BY <1>1 DEF BeginSeed
  <2>2. \A v, i : ~WrittenAt(v, i)'
    BY <2>1 DEF WrittenAt
  <2> QED  BY <2>1, <2>2 DEF WrittenSoFar
<1>2. CASE WriteVersion
  <2> DEFINE c == Content[seeding]
  <2>1. /\ seeding' = seeding /\ table' = table /\ seeding # None /\ next' = next + 1
        /\ work' = [work EXCEPT ![c[next].id] = c[next]] /\ next <= Len(c)
    BY <1>2 DEF WriteVersion, Writing, Current
  <2>2. /\ next \in 1 .. Len(c) /\ work \in Rows /\ c[next].id \in Version
        /\ \A i \in 1 .. Len(c) : i # next => c[i].id # c[next].id
    <3>1. seeding \in Pub
      BY <2>1 DEF TimelineTypeOK
    <3>2. next \in 1 .. Len(c) /\ work \in Rows
      BY <2>1, <3>1, TimelineAssumption DEF TimelineTypeOK
    <3>3. \A i \in 1 .. Len(c) : i # next => c[i].id # c[next].id
      <4> SUFFICES ASSUME NEW i \in 1 .. Len(c), i # next
                   PROVE  c[i].id # c[next].id
        OBVIOUS
      <4>1. CASE i < next
        BY <3>1, <3>2, <4>1, TimelineAssumption
      <4>2. CASE next < i
        BY <3>1, <3>2, <4>2, TimelineAssumption
      <4> QED  BY <3>2, <4>1, <4>2
    <3> QED  BY <3>1, <3>2, <3>3, ContentIsRecords
  <2>3. ASSUME NEW v \in Version, NEW i \in 1 .. Len(c)
        PROVE  WrittenAt(v, i)' <=> WrittenAt(v, i) \/ (i = next /\ v = c[next].id)
    BY <2>1, <2>2 DEF WrittenAt
  <2>4. ASSUME NEW v \in Version
        PROVE  \/ \E i \in 1 .. Len(c) : WrittenAt(v, i)' /\ work'[v] = c[i]
               \/ work'[v] = table[v] /\ \A i \in 1 .. Len(c) : ~WrittenAt(v, i)'
    <3>1. CASE v = c[next].id
      BY <2>1, <2>2, <2>3, <3>1 DEF Rows
    <3>2. CASE v # c[next].id
      <4>1. work'[v] = work[v] /\ \A i \in 1 .. Len(c) : WrittenAt(v, i)' <=> WrittenAt(v, i)
        BY <2>1, <2>2, <2>3, <3>2 DEF Rows
      <4> QED  BY <2>1, <4>1 DEF WrittenSoFar
    <3> QED  BY <3>1, <3>2
  <2> QED  BY <2>1, <2>4 DEF WrittenSoFar
<1>3. CASE ExclusionConflict \/ CommitSeed \/ Rollback
  <2>1. seeding' = None
    BY <1>3 DEF ExclusionConflict, CommitSeed, Rollback, Abandon
  <2> QED  BY <2>1 DEF WrittenSoFar
<1>4. CASE \/ \E p \in Pub : LoadSnapshot(p)
           \/ SelectPublication \/ ReadVersions \/ UNCHANGED vars
  <2>1. UNCHANGED <<seeding, next, work, table>>
    BY <1>4 DEF LoadSnapshot, SelectPublication, ReadVersions, vars
  <2> QED  BY <2>1 DEF WrittenSoFar, WrittenAt
<1> QED  BY <1>1, <1>2, <1>3, <1>4 DEF Next

\* What is written next meets no row: those written before end before it starts,
\* those still to be written start, as they did, after it ends.
LEMMA AmendingRowFits ==
  ASSUME TimelineTypeOK, WrittenSoFar, Writing, Amends(seeding),
         \A r \in RecordsOf(seeding) : ValidRange(r)
  PROVE  ~Excluded(Current)
<1> DEFINE c == Content[seeding]
<1>1. seeding \in Pub /\ seeding # None /\ LoadAccepts(c)
  BY DEF TimelineTypeOK, Writing, WrittenSoFar
<1>2. Len(c) \in Nat /\ next \in 1 .. Len(c) /\ Current = c[next]
  BY <1>1, TimelineAssumption DEF TimelineTypeOK, Writing, Current
<1>3. ValidRange(Current)
  BY <1>2 DEF RecordsOf
<1> SUFFICES ASSUME NEW v \in Version \ {Current.id}, work[v] # None
             PROVE  ~Overlaps(Current, work[v])
  BY <1>3 DEF Excluded
<1>4. CASE \E i \in 1 .. Len(c) : WrittenAt(v, i) /\ work[v] = c[i]
  <2>1. PICK i \in 1 .. Len(c) : i < next /\ work[v] = c[i]
    BY <1>2, <1>4 DEF WrittenAt
  <2>2. ~Overlaps(c[i], c[next])
    BY <1>1, <1>2, <2>1, EndsBeforeLater
  <2> QED  BY <1>2, <2>1, <2>2, OverlapsSymmetric
<1>5. CASE work[v] = table[v] /\ \A i \in 1 .. Len(c) : ~WrittenAt(v, i)
  <2>1. PICK r \in RecordsOf(seeding) : r.id = v /\ r.from = work[v].from
    BY <1>5 DEF Amends
  <2>2. PICK j \in 1 .. Len(c) : r = c[j]
    BY <2>1 DEF RecordsOf
  <2>3. next < j
    BY <1>2, <1>5, <2>1, <2>2 DEF WrittenAt
  <2>4. c[next].to # Open /\ c[next].to <= work[v].from
    BY <1>1, <1>2, <2>1, <2>2, <2>3, EndsBeforeLater
  <2>5. work[v] \in Record /\ c[next] \in Record
    BY <1>1, <1>2, ContentIsRecords DEF TimelineTypeOK, Rows
  <2> QED  BY <1>2, <2>4, <2>5, TimelineAssumption DEF Overlaps, Before, Record
<1> QED  BY <1>1, <1>4, <1>5 DEF WrittenSoFar

\* A seed that keeps the versions there are and their first days is never refused
\* by the exclusion constraint, whatever periods it closes, shortens or opens and
\* whatever versions it adds, since it writes them in the order of their first days.
THEOREM EveryAmendmentAccepted == Spec => AmendmentsAccepted
<1>1. TimelineTypeOK /\ WrittenSoFar /\ [Next]_vars =>
        [Writing /\ Excluded(Current) /\ seeding' = None /\ UNCHANGED table
           => \/ ~Amends(seeding)
              \/ \E r \in RecordsOf(seeding) : ~ValidRange(r)]_vars
  BY AmendingRowFits
<1>2. Spec => []TimelineTypeOK
  BY TimelineTypesCorrect
<1> QED  BY <1>1, <1>2, WrittenInitially, WrittenPreserved, PTL DEF Spec, AmendmentsAccepted

=============================================================================
