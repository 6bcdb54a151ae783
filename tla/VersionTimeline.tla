-------------------------- MODULE VersionTimeline --------------------------
(***************************************************************************)
(* The versions of one document in time: the overlap check of _load, the   *)
(* rows of regulation_version under their exclusion constraint while       *)
(* _seed_snapshot rewrites them one by one, the snapshots that             *)
(* _hydrate_snapshot reads from them meanwhile, and effective_version.     *)
(*                                                                         *)
(* Dates are numbers. The status a version is given other than "published" *)
(* is "draft". Sorting is external: a content is given as the sequence     *)
(* that sorted() makes of it, by effective_from.                           *)
(***************************************************************************)
EXTENDS Integers, Sequences, FiniteSets

CONSTANTS
  Version,    \* version ids: document id and label
  Pub,        \* publications
  Content,    \* Content[p]: the version records of p, by effective_from
  Open, None,
  MaxPast     \* bound: publications that have been active

Record == [id : Version, from : Nat, to : Nat \cup {Open},
           status : {"published", "draft"}]

ASSUME TimelineAssumption ==
  /\ Content \in [Pub -> Seq(Record)]
  /\ \A p \in Pub : \A i, j \in 1 .. Len(Content[p]) : i < j =>
       /\ Content[p][i].from <= Content[p][j].from
       /\ Content[p][i].id # Content[p][j].id
  /\ Open \notin Nat
  /\ None \notin Pub \cup Record
  /\ MaxPast \in Nat

VARIABLES
  table,    \* committed rows of regulation_version, by id
  active,   \* the publication committed ACTIVE
  seeding,  \* the publication of the seed transaction under way
  next,     \* the record it writes next
  work,     \* the rows as that transaction sees them
  reading,  \* hydration: the active publication it has selected
  served,   \* the version records of the snapshot that is served
  past      \* rows of publication: those that have been active

vars == <<table, active, seeding, next, work, reading, served, past>>

Rows == [Version -> Record \cup {None}]

\* Types, and that without a seed transaction nothing is pending.
TimelineTypeOK ==
  /\ table \in Rows /\ work \in Rows
  /\ \A v \in Version : /\ table[v] # None => table[v].id = v
                        /\ work[v] # None => work[v].id = v
  /\ active \in Pub \cup {None} /\ seeding \in Pub \cup {None}
  /\ next \in Nat
  /\ seeding = None => next = 1 /\ \A v \in Version : work[v] = None
  /\ seeding # None => next \in 1 .. Len(Content[seeding]) + 1
  /\ reading \in Pub \cup {None}
  /\ served \subseteq Record
  /\ past \subseteq Pub

Init ==
  /\ table = [v \in Version |-> None] /\ work = table
  /\ active = None /\ seeding = None /\ next = 1 /\ reading = None
  /\ served = {}
  /\ past = {}

\* The end of a period is exclusive.
Before(day, to) == to # Open => day < to

\* RegulationVersion.is_effective
IsEffective(r, day) ==
  r.status = "published" /\ r.from <= day /\ Before(day, r.to)

\* Mutant: a period may start on or before the day the one before it ends.
OverlapByDay(s) ==
  \A i \in 1 .. Len(s) - 1 : s[i].to # Open /\ s[i].to <= s[i + 1].from + 1

\* The check of _load: each period ends before its successor starts.
LoadAccepts(s) ==
  \A i \in 1 .. Len(s) - 1 : s[i].to # Open /\ s[i].to <= s[i + 1].from

Members(p) == {Content[p][i].id : i \in 1 .. Len(Content[p])}
RecordsOf(p) == {Content[p][i] : i \in 1 .. Len(Content[p])}

\* Mock mode: reload parses the files and assigns what it has parsed.
LoadSnapshot(p) ==
  /\ LoadAccepts(Content[p])
  /\ served' = RecordsOf(p)
  /\ UNCHANGED <<table, active, seeding, next, work, reading, past>>

BeginSeed(p) ==
  /\ seeding = None
  /\ LoadAccepts(Content[p])
  /\ Cardinality(past \cup {p}) <= MaxPast
  /\ seeding' = p
  /\ next' = 1
  /\ work' = table
  /\ UNCHANGED <<table, active, reading, served, past>>

\* daterange refuses a period that ends before it starts; it is evaluated for
\* published rows only.
ValidRange(r) == r.status = "published" /\ r.to # Open => r.from <= r.to
NonEmpty(r) == r.to # Open => r.from < r.to

\* Ranges of published rows may not have a day in common.
Overlaps(r, s) ==
  /\ r.status = "published" /\ s.status = "published"
  /\ NonEmpty(r) /\ NonEmpty(s)
  /\ Before(r.from, s.to) /\ Before(s.from, r.to)

\* Mutant: the constraint compares a row with the older ones only.
ExcludedByOlder(r) ==
  \/ ~ValidRange(r)
  \/ \E v \in Version \ {r.id} :
       work[v] # None /\ work[v].from < r.from /\ Overlaps(r, work[v])

\* regulation_version_no_published_overlap, checked by every statement.
Excluded(r) ==
  \/ ~ValidRange(r)
  \/ \E v \in Version \ {r.id} : work[v] # None /\ Overlaps(r, work[v])

\* Mutant: versions are written from the latest one back.
LatestFirst == Content[seeding][Len(Content[seeding]) + 1 - next]

\* The seed writes the versions in the order of their first days.
Current == Content[seeding][next]

Writing == seeding # None /\ next <= Len(Content[seeding])

WriteVersion ==
  /\ Writing
  /\ ~Excluded(Current)
  /\ work' = [work EXCEPT ![Current.id] = Current]
  /\ next' = next + 1
  /\ UNCHANGED <<table, active, seeding, reading, served, past>>

\* Mutant: rows that were written stay in the session.
AbandonKeepingRows ==
  /\ seeding' = None
  /\ next' = 1
  /\ work' = work

Abandon ==
  /\ seeding' = None
  /\ next' = 1
  /\ work' = [v \in Version |-> None]

\* The statement fails and the transaction is rolled back.
ExclusionConflict ==
  /\ Writing
  /\ Excluded(Current)
  /\ Abandon
  /\ UNCHANGED <<table, active, reading, served, past>>

CommitSeed ==
  /\ seeding # None /\ ~Writing
  /\ table' = work
  /\ active' = seeding
  /\ past' = past \cup {seeding}
  /\ Abandon
  /\ UNCHANGED <<reading, served>>

Rollback ==
  /\ seeding # None
  /\ Abandon
  /\ UNCHANGED <<table, active, reading, served, past>>

SelectPublication ==
  /\ reading = None /\ active # None
  /\ reading' = active
  /\ UNCHANGED <<table, active, seeding, next, work, served, past>>

\* Rows of the publication's member versions, as they are committed now.
ReadVersions ==
  /\ reading # None
  /\ served' = {table[v] : v \in {x \in Members(reading) : table[x] # None}}
  /\ reading' = None
  /\ UNCHANGED <<table, active, seeding, next, work, past>>

Next ==
  \/ \E p \in Pub : LoadSnapshot(p) \/ BeginSeed(p)
  \/ WriteVersion \/ ExclusionConflict \/ CommitSeed \/ Rollback
  \/ SelectPublication \/ ReadVersions

Spec == Init /\ [][Next]_vars

(***************************************************************************)
(* Properties                                                              *)
(***************************************************************************)

\* Two periods that have a day in common have the later of their first days.
CommonDay(r, s) ==
  \E day \in {r.from, s.from} : IsEffective(r, day) /\ IsEffective(s, day)

\* On no day are two versions of the document effective in a snapshot, so
\* effective_version never raises: not even in one that was hydrated across
\* the commit of a seed that changed the periods of its versions.
SnapshotUnambiguous ==
  \A r, s \in served : CommonDay(r, s) => r.id = s.id

\* p keeps the versions that are in the table with their first days; it may
\* end their periods on other days and add versions.
Amends(p) ==
  \A v \in Version : table[v] # None =>
    \E r \in RecordsOf(p) :
      r.id = v /\ r.from = table[v].from /\ r.status = table[v].status

\* A new version that takes over from the one in force is never refused by
\* the exclusion constraint: the period it succeeds is closed before it is
\* written. Only a published period that is itself malformed is refused.
AmendmentsAccepted ==
  [][Writing /\ Excluded(Current) /\ seeding' = None /\ UNCHANGED table
       => \/ ~Amends(seeding)
          \/ \E r \in RecordsOf(seeding) : ~ValidRange(r)]_vars

\* A publication that has been active can be made active again.
PastPublicationsAccepted ==
  [][Writing /\ Excluded(Current) /\ seeding' = None => seeding \notin past]_vars

=============================================================================
