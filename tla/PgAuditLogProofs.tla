------------------------- MODULE PgAuditLogProofs -------------------------
(***************************************************************************)
(* Theorems about PgAuditLog, for every number of requests and instances   *)
(* whose clocks agree: the chain is unbroken, and the rows in the order of *)
(* time are the log in memory, step by step. Without that assumption the   *)
(* chain breaks: see the run audit_skew.                                   *)
(***************************************************************************)
EXTENDS PgAuditLog, FiniteSetTheorems, SequenceTheorems, TLAPS

\* Rows carry times that have passed on every clock.
RowsInThePast ==
  \A r \in rows : \A q \in Request : r.at < now + Skew[InstanceOf[q]]

\* Inside its transaction a request knows the newest row there is,
PrevIsNewest ==
  \A q \in Request :
    phase[q] \in {"selected", "stamped"} =>
      IF rows = {} THEN prev[q] = Genesis
                   ELSE \E r \in Newest : prev[q] = r.id

\* and its stamp is later than all of them.
StampIsLatest ==
  \A q \in Request :
    phase[q] = "stamped" =>
      /\ \A r \in rows : r.at < stamp[q]
      /\ \A p \in Request : stamp[q] < now + Skew[InstanceOf[p]]

AuditInv ==
  /\ TypeOK
  /\ RowsInThePast
  /\ PrevIsNewest
  /\ StampIsLatest
  /\ TimesDistinct
  /\ ChainValid

-----------------------------------------------------------------------------
(* Types and the lock *)

LEMMA AuditTypesInitially == Init => TypeOK
BY PgAuditAssumption DEF Init, TypeOK, Phase, Holding

LEMMA SkewIsNat ==
  ASSUME NEW q \in Request
  PROVE  Skew[InstanceOf[q]] \in Nat
BY PgAuditAssumption

LEMMA AuditTypesPreserved == TypeOK /\ [Next]_vars => TypeOK'
<1> SUFFICES ASSUME TypeOK, [Next]_vars
             PROVE  TypeOK'
  OBVIOUS
<1> USE PgAuditAssumption DEF TypeOK
<1>1. ASSUME NEW q \in Request, Begin(q)
      PROVE  TypeOK'
  BY <1>1 DEF Begin, Goto, Phase, Holding
<1>2. ASSUME NEW q \in Request, Acquire(q)
      PROVE  TypeOK'
  BY <1>2 DEF Acquire, Goto, Phase, Holding
<1>3. ASSUME NEW q \in Request, SelectPrevious(q)
      PROVE  TypeOK'
  <2>1. prev' \in [Request -> Request \cup {Genesis}]
    BY <1>3 DEF SelectPrevious, Newest, Row
  <2> QED  BY <1>3, <2>1 DEF SelectPrevious, Goto, Phase, Holding
<1>4. ASSUME NEW q \in Request, StampEvent(q)
      PROVE  TypeOK'
  <2>1. now' \in Nat /\ stamp' \in [Request -> Nat]
    BY <1>4, SkewIsNat DEF StampEvent
  <2> QED  BY <1>4, <2>1 DEF StampEvent, Goto, Phase, Holding
<1>5. ASSUME NEW q \in Request, InsertAndCommit(q)
      PROVE  TypeOK'
  <2>1. rows' \subseteq Row
    BY <1>5 DEF InsertAndCommit, Row
  <2>2. lock = q /\ \A p \in Request \ {q} : phase[p] \notin Holding
    BY <1>5 DEF InsertAndCommit, Goto, Holding
  <2> QED  BY <1>5, <2>1, <2>2 DEF InsertAndCommit, Goto, Phase, Holding
<1>6. ASSUME NEW q \in Request, Fail(q)
      PROVE  TypeOK'
  BY <1>6 DEF Fail, Phase, Holding
<1>7. CASE UNCHANGED vars
  BY <1>7 DEF vars
<1> QED  BY <1>1, <1>2, <1>3, <1>4, <1>5, <1>6, <1>7 DEF Next, RequestStep

\* In every reachable state the advisory lock is held by exactly the request
\* that is inside its transaction, however others have failed.
THEOREM AuditTypesCorrect == Spec => []TypeOK
BY AuditTypesInitially, AuditTypesPreserved, PTL DEF Spec

-----------------------------------------------------------------------------
(* The chain *)

\* A row that names the newest one and is later than all extends the chain.
LEMMA InsertExtendsChain ==
  ASSUME AuditInv, NEW q \in Request, InsertAndCommit(q)
  PROVE  TimesDistinct' /\ ChainValid'
<1>1. PICK new :
        /\ rows' = rows \cup {new} /\ new.at = stamp[q] /\ new.prev = prev[q]
        /\ rows \subseteq Row /\ stamp[q] \in Nat
  <2>1. rows' = rows \cup {[id |-> q, prev |-> prev[q], at |-> stamp[q]]}
    BY DEF InsertAndCommit
  <2> QED  BY <2>1 DEF AuditInv, TypeOK
<1>2. \A r \in rows : r.at < new.at
  BY <1>1 DEF InsertAndCommit, Goto, AuditInv, StampIsLatest
<1>3. IF rows = {} THEN new.prev = Genesis
                   ELSE \E r \in Newest : new.prev = r.id
  BY <1>1 DEF InsertAndCommit, Goto, AuditInv, PrevIsNewest
<1>4. \A r \in rows : r.at \in Nat
  BY <1>1 DEF Row
<1>5. TimesDistinct'
  BY <1>1, <1>2, <1>4 DEF AuditInv, TimesDistinct
<1>6. \A r \in rows, s \in rows' : s.at < r.at => s \in rows
  BY <1>1, <1>2, <1>4
<1>7. \A r, s \in rows : IsBefore(s, r) => IsBefore(s, r)'
  BY <1>6 DEF IsBefore
<1>8. ASSUME NEW r \in rows
      PROVE  IF \E s \in rows' : s.at < r.at
             THEN \E s \in rows' : IsBefore(s, r)' /\ r.prev = s.id
             ELSE r.prev = Genesis
  BY <1>1, <1>6, <1>7 DEF AuditInv, ChainValid
<1>9. IF \E s \in rows' : s.at < new.at
      THEN \E s \in rows' : IsBefore(s, new)' /\ new.prev = s.id
      ELSE new.prev = Genesis
  <2>1. CASE rows = {}
    BY <1>1, <1>3, <2>1
  <2>2. CASE rows # {}
    <3>1. PICK s \in Newest : new.prev = s.id
      BY <1>3, <2>2
    <3>2. s \in rows' /\ s.at < new.at
      BY <1>1, <1>2, <3>1 DEF Newest
    <3>3. IsBefore(s, new)'
      BY <1>1, <3>1, <3>2 DEF IsBefore, Newest
    <3> QED  BY <3>1, <3>2, <3>3
  <2> QED  BY <2>1, <2>2
<1> QED  BY <1>1, <1>5, <1>8, <1>9 DEF ChainValid

LEMMA AuditInitially == Init => AuditInv
BY AuditTypesInitially
   DEF Init, AuditInv, RowsInThePast, PrevIsNewest, StampIsLatest,
       TimesDistinct, ChainValid

LEMMA AuditPreserved ==
  ASSUME ClocksAgree
  PROVE  AuditInv /\ [Next]_vars => AuditInv'
<1> SUFFICES ASSUME AuditInv, [Next]_vars
             PROVE  AuditInv'
  OBVIOUS
<1>1. TypeOK /\ TypeOK'
  BY AuditTypesPreserved DEF AuditInv
<1>2. \A p, q \in Request : Skew[InstanceOf[p]] = Skew[InstanceOf[q]]
  BY PgAuditAssumption DEF ClocksAgree
<1>3. \A r \in rows : r.at \in Nat
  BY <1>1 DEF TypeOK, Row
<1>4. now \in Nat /\ \A q \in Request : stamp[q] \in Nat
  BY <1>1 DEF TypeOK
<1>5. ASSUME NEW q \in Request, StampEvent(q)
      PROVE  AuditInv'
  <2>1. /\ now' = now + 1 /\ rows' = rows /\ prev' = prev
        /\ stamp'[q] = now + Skew[InstanceOf[q]]
        /\ phase[q] = "selected" /\ phase'[q] = "stamped"
        /\ \A p \in Request \ {q} : phase'[p] = phase[p] /\ stamp'[p] = stamp[p]
    BY <1>1, <1>5 DEF StampEvent, Goto, TypeOK
  <2>2. RowsInThePast'
    BY <1>3, <1>4, <2>1, SkewIsNat DEF AuditInv, RowsInThePast
  <2>3. PrevIsNewest'
    BY <2>1 DEF AuditInv, PrevIsNewest, Newest
  <2>4. StampIsLatest'
    <3> SUFFICES ASSUME NEW p \in Request, phase'[p] = "stamped"
                 PROVE  /\ \A r \in rows : r.at < stamp'[p]
                        /\ \A u \in Request : stamp'[p] < now + 1 + Skew[InstanceOf[u]]
      BY <2>1 DEF StampIsLatest
    <3>1. CASE p = q
      BY <1>2, <1>4, <2>1, <3>1, SkewIsNat DEF AuditInv, RowsInThePast
    <3>2. CASE p # q
      BY <1>4, <2>1, <3>2, SkewIsNat DEF AuditInv, StampIsLatest
    <3> QED  BY <3>1, <3>2
  <2>5. TimesDistinct' /\ ChainValid'
    BY <2>1 DEF AuditInv, TimesDistinct, ChainValid, IsBefore
  <2> QED  BY <1>1, <2>2, <2>3, <2>4, <2>5 DEF AuditInv
<1>6. ASSUME NEW q \in Request, InsertAndCommit(q)
      PROVE  AuditInv'
  <2>1. /\ rows' = rows \cup {[id |-> q, prev |-> prev[q], at |-> stamp[q]]}
        /\ phase[q] = "stamped" /\ phase'[q] = "done"
        /\ UNCHANGED <<prev, stamp, now>>
        /\ \A p \in Request \ {q} : phase'[p] = phase[p]
    BY <1>1, <1>6 DEF InsertAndCommit, Goto, TypeOK
  <2>2. \A p \in Request : phase'[p] \notin {"selected", "stamped"}
    BY <1>1, <2>1 DEF TypeOK, Holding
  <2>3. RowsInThePast'
    BY <2>1 DEF AuditInv, RowsInThePast, StampIsLatest
  <2>4. PrevIsNewest' /\ StampIsLatest'
    BY <2>2 DEF PrevIsNewest, StampIsLatest
  <2> QED  BY <1>1, <1>6, <2>3, <2>4, InsertExtendsChain DEF AuditInv
<1>7. ASSUME NEW q \in Request, SelectPrevious(q)
      PROVE  AuditInv'
  <2>1. /\ UNCHANGED <<rows, stamp, now>>
        /\ phase'[q] = "selected"
        /\ IF rows = {} THEN prev'[q] = Genesis
                        ELSE \E r \in Newest : prev'[q] = r.id
        /\ \A p \in Request \ {q} : phase'[p] = phase[p] /\ prev'[p] = prev[p]
    BY <1>1, <1>7 DEF SelectPrevious, Goto, TypeOK, Newest
  <2>2. PrevIsNewest'
    BY <2>1 DEF AuditInv, PrevIsNewest, Newest
  <2>3. RowsInThePast' /\ StampIsLatest'
    BY <2>1 DEF AuditInv, RowsInThePast, StampIsLatest
  <2>4. TimesDistinct' /\ ChainValid'
    BY <2>1 DEF AuditInv, TimesDistinct, ChainValid, IsBefore
  <2> QED  BY <1>1, <2>2, <2>3, <2>4 DEF AuditInv
<1>8. ASSUME NEW q \in Request, Begin(q) \/ Acquire(q) \/ Fail(q)
      PROVE  AuditInv'
  <2>1. /\ UNCHANGED <<rows, prev, stamp, now>>
        /\ phase'[q] \notin {"selected", "stamped"}
        /\ \A p \in Request \ {q} : phase'[p] = phase[p]
    BY <1>1, <1>8 DEF Begin, Acquire, Fail, Goto, TypeOK
  <2>2. PrevIsNewest'
    BY <2>1 DEF AuditInv, PrevIsNewest, Newest
  <2>3. RowsInThePast' /\ StampIsLatest'
    BY <2>1 DEF AuditInv, RowsInThePast, StampIsLatest
  <2>4. TimesDistinct' /\ ChainValid'
    BY <2>1 DEF AuditInv, TimesDistinct, ChainValid, IsBefore
  <2> QED  BY <1>1, <2>2, <2>3, <2>4 DEF AuditInv
<1>9. CASE UNCHANGED vars
  BY <1>1, <1>9 DEF vars, AuditInv, RowsInThePast, PrevIsNewest, StampIsLatest,
                    TimesDistinct, ChainValid, IsBefore, Newest
<1> QED  BY <1>5, <1>6, <1>7, <1>8, <1>9 DEF Next, RequestStep

\* Requests of any number of instances append concurrently and fail anywhere:
\* verify_chain finds one unbroken chain if the clocks agree.
THEOREM ChainUnbroken ==
  ASSUME ClocksAgree
  PROVE  Spec => []ChainValid
<1>1. AuditInv /\ [Next]_vars => AuditInv'
  BY AuditPreserved
<1>2. AuditInv => ChainValid
  BY DEF AuditInv
<1> QED  BY <1>1, <1>2, AuditInitially, PTL DEF Spec

\* No two events get the same occurred_at, so the order of the chain is that
\* of its times.
THEOREM OrderIsTotal ==
  ASSUME ClocksAgree
  PROVE  Spec => []TimesDistinct
<1>1. AuditInv /\ [Next]_vars => AuditInv'
  BY AuditPreserved
<1>2. AuditInv => TimesDistinct
  BY DEF AuditInv
<1> QED  BY <1>1, <1>2, AuditInitially, PTL DEF Spec

-----------------------------------------------------------------------------
(* The chronicle of the rows *)

Before(x) == {y \in rows : y.at < x.at}
Until(x) == {y \in rows : y.at <= x.at}

\* A request is over once its row is there.
RowsDone == \A r \in rows : phase[r.id] = "done"

\* Every place in the chronicle is taken.
PlacesTaken == \A i \in 1 .. Cardinality(rows) : \E r \in rows : Cardinality(Before(r)) = i - 1

ChronicleInv == AuditInv /\ IsFiniteSet(rows) /\ RowsDone /\ PlacesTaken

\* Its own row is the one row that ends what happened until then.
LEMMA UntilIsBefore ==
  ASSUME ChronicleInv, NEW x \in rows
  PROVE  /\ Until(x) = Before(x) \cup {x} /\ x \notin Before(x)
         /\ IsFiniteSet(Before(x)) /\ Cardinality(Before(x)) \in Nat
         /\ Cardinality(Until(x)) = Cardinality(Before(x)) + 1
         /\ Cardinality(rows) \in Nat /\ Cardinality(Before(x)) < Cardinality(rows)
<1>1. \A r \in rows : r.at \in Nat
  BY DEF ChronicleInv, AuditInv, TypeOK, Row
<1>2. Until(x) = Before(x) \cup {x} /\ x \notin Before(x)
  BY <1>1 DEF Until, Before, ChronicleInv, AuditInv, TimesDistinct
<1>3. Before(x) \subseteq rows /\ IsFiniteSet(rows)
  BY DEF Before, ChronicleInv
<1>4. IsFiniteSet(Before(x)) /\ Cardinality(Before(x)) \in Nat /\ Cardinality(rows) \in Nat
  BY <1>3, FS_Subset, FS_CardinalityType
<1>5. Cardinality(Until(x)) = Cardinality(Before(x)) + 1
  BY <1>2, <1>4, FS_AddElement
<1>6. Cardinality(Before(x)) <= Cardinality(rows) /\ Cardinality(Before(x)) # Cardinality(rows)
  BY <1>2, <1>3, FS_Subset
<1>. QED  BY <1>2, <1>4, <1>5, <1>6

\* No place is taken twice.
LEMMA PlaceOfOne ==
  ASSUME ChronicleInv, NEW x \in rows, NEW y \in rows,
         Cardinality(Before(x)) = Cardinality(Before(y))
  PROVE  x = y
<1>1. ASSUME NEW u \in rows, NEW v \in rows, u.at < v.at
      PROVE  Cardinality(Before(u)) # Cardinality(Before(v))
  <2>1. \A r \in rows : r.at \in Nat
    BY DEF ChronicleInv, AuditInv, TypeOK, Row
  <2>2. Until(u) \subseteq Before(v)
    BY <1>1, <2>1 DEF Until, Before
  <2>3. Cardinality(Until(u)) <= Cardinality(Before(v))
    BY <2>2, UntilIsBefore, FS_Subset
  <2>. QED  BY <2>3, UntilIsBefore
<1>2. x.at \in Nat /\ y.at \in Nat
  BY DEF ChronicleInv, AuditInv, TypeOK, Row
<1>3. x.at = y.at
  BY <1>1, <1>2
<1>. QED  BY <1>3 DEF ChronicleInv, AuditInv, TimesDistinct

Entry == [id : Request, prev : Request \cup {Genesis}]

\* The chronicle has one entry for each row, at the place of its time.
ChronicleLists ==
  /\ Chronicle \in Seq(Entry) /\ Len(Chronicle) = Cardinality(rows)
  /\ \A x \in rows : Chronicle[Cardinality(Before(x)) + 1] = [id |-> x.id, prev |-> x.prev]

LEMMA ChronicleOfRows == ChronicleInv => ChronicleLists
<1>. SUFFICES ASSUME ChronicleInv PROVE ChronicleLists
  OBVIOUS
<1>. DEFINE n == Cardinality(rows)
            nth(i) == CHOOSE x \in rows :
                        /\ Cardinality({y \in rows : y.at < x.at}) < i
                        /\ Cardinality({y \in rows : y.at <= x.at}) >= i
<1>1. n \in Nat
  BY FS_CardinalityType DEF ChronicleInv
<1>2. Chronicle = [i \in 1 .. n |-> [id |-> nth(i).id, prev |-> nth(i).prev]]
  BY DEF Chronicle
<1>3. ASSUME NEW x \in rows PROVE nth(Cardinality(Before(x)) + 1) = x
  <2>. DEFINE i == Cardinality(Before(x)) + 1
              y == nth(i)
  <2>1. Cardinality(Before(x)) < i /\ Cardinality(Until(x)) >= i
    BY <1>3, UntilIsBefore
  <2>2. y \in rows /\ Cardinality(Before(y)) < i /\ Cardinality(Until(y)) >= i
    BY <2>1 DEF Before, Until
  <2>. HIDE DEF y, nth
  <2>3. Cardinality(Before(y)) = Cardinality(Before(x))
    BY <1>3, <2>2, UntilIsBefore
  <2>4. y = x
    BY <1>3, <2>2, <2>3, PlaceOfOne
  <2>. QED  BY <2>4 DEF y
<1>. HIDE DEF nth
<1>4. \A x \in rows : Cardinality(Before(x)) + 1 \in 1 .. n
  BY <1>1, UntilIsBefore
<1>5. \A i \in 1 .. n : nth(i) \in rows
  <2>. SUFFICES ASSUME NEW i \in 1 .. n PROVE nth(i) \in rows
    OBVIOUS
  <2>1. PICK x \in rows : Cardinality(Before(x)) = i - 1
    BY DEF ChronicleInv, PlacesTaken
  <2>2. i = Cardinality(Before(x)) + 1
    BY <1>1, <2>1
  <2>. QED  BY <1>3, <2>2
<1>6. \A r \in rows : [id |-> r.id, prev |-> r.prev] \in Entry
  BY DEF ChronicleInv, AuditInv, TypeOK, Row, Entry
<1>7. Chronicle \in [1 .. n -> Entry]
  BY <1>2, <1>5, <1>6
<1>8. Chronicle \in Seq(Entry) /\ Len(Chronicle) = n
  BY <1>1, <1>7
<1>9. \A x \in rows : Chronicle[Cardinality(Before(x)) + 1] = [id |-> x.id, prev |-> x.prev]
  BY <1>2, <1>3, <1>4
<1>. QED  BY <1>8, <1>9 DEF ChronicleLists

LEMMA ChronicleInitially == Init => ChronicleInv /\ Chronicle = <<>>
<1>. SUFFICES ASSUME Init PROVE ChronicleInv /\ Chronicle = <<>>
  OBVIOUS
<1>1. AuditInv
  BY AuditInitially
<1>2. rows = {} /\ IsFiniteSet(rows) /\ Cardinality(rows) = 0
  BY FS_EmptySet DEF Init
<1>3. ChronicleInv
  BY <1>1, <1>2 DEF ChronicleInv, RowsDone, PlacesTaken
<1>4. Chronicle \in Seq(Entry) /\ Len(Chronicle) = 0
  BY <1>2, <1>3, ChronicleOfRows DEF ChronicleLists
<1>. QED  BY <1>3, <1>4

\* A commit leaves every row at its place and puts its own after them.
LEMMA CommitTakesNextPlace ==
  ASSUME ChronicleInv, NEW q \in Request, InsertAndCommit(q),
         NEW new, new = [id |-> q, prev |-> prev[q], at |-> stamp[q]]
  PROVE  /\ rows' = rows \cup {new} /\ new \notin rows
         /\ \A x \in rows : Before(x)' = Before(x)
         /\ Before(new)' = rows
         /\ IsFiniteSet(rows') /\ Cardinality(rows') = Cardinality(rows) + 1
<1>1. rows' = rows \cup {new} /\ new.at = stamp[q]
  BY DEF InsertAndCommit
<1>2. \A r \in rows : r.at < new.at
  BY <1>1 DEF InsertAndCommit, Goto, ChronicleInv, AuditInv, StampIsLatest
<1>3. (\A r \in rows : r.at \in Nat) /\ new.at \in Nat
  BY <1>1 DEF ChronicleInv, AuditInv, TypeOK, Row
<1>4. new \notin rows
  BY <1>2, <1>3
<1>5. \A x \in rows : ~(new.at < x.at)
  BY <1>2, <1>3
<1>6. \A x \in rows : Before(x)' = Before(x)
  BY <1>1, <1>5 DEF Before
<1>7. Before(new)' = rows
  BY <1>1, <1>2, <1>3 DEF Before
<1>8. IsFiniteSet(rows') /\ Cardinality(rows') = Cardinality(rows) + 1
  BY <1>1, <1>4, FS_AddElement DEF ChronicleInv
<1>. QED  BY <1>1, <1>4, <1>6, <1>7, <1>8

LEMMA ChroniclePreserved ==
  ASSUME ClocksAgree
  PROVE  ChronicleInv /\ [Next]_vars => ChronicleInv'
<1>. SUFFICES ASSUME ChronicleInv, [Next]_vars PROVE ChronicleInv'
  OBVIOUS
<1>1. AuditInv /\ AuditInv'
  BY AuditPreserved DEF ChronicleInv
<1>2. \A p \in Request : phase[p] = "done" => phase'[p] = "done"
  <2>1. \A p \in Request : phase \in [Request -> Phase]
    BY <1>1 DEF AuditInv, TypeOK
  <2>. QED  BY <2>1 DEF Next, RequestStep, Begin, Acquire, SelectPrevious, StampEvent,
                       InsertAndCommit, Fail, Goto, Holding, vars
<1>3. ASSUME UNCHANGED rows PROVE ChronicleInv'
  <2>1. \A r \in rows : r.id \in Request
    BY <1>1 DEF AuditInv, TypeOK, Row
  <2>2. RowsDone'
    BY <1>2, <1>3, <2>1 DEF ChronicleInv, RowsDone
  <2>3. PlacesTaken' /\ IsFiniteSet(rows')
    BY <1>3 DEF ChronicleInv, PlacesTaken, Before
  <2>. QED  BY <1>1, <2>2, <2>3 DEF ChronicleInv
<1>4. ASSUME NEW q \in Request, InsertAndCommit(q) PROVE ChronicleInv'
  <2>1. PICK new : new = [id |-> q, prev |-> prev[q], at |-> stamp[q]]
    OBVIOUS
  <2>2. /\ rows' = rows \cup {new} /\ new \notin rows
        /\ \A x \in rows : Before(x)' = Before(x)
        /\ Before(new)' = rows
        /\ IsFiniteSet(rows') /\ Cardinality(rows') = Cardinality(rows) + 1
    BY <1>4, <2>1, CommitTakesNextPlace
  <2>3. RowsDone'
    <3>1. new.id = q /\ phase'[q] = "done"
      BY <1>1, <1>4, <2>1 DEF InsertAndCommit, Goto, AuditInv, TypeOK
    <3>2. \A r \in rows : r.id \in Request
      BY <1>1 DEF AuditInv, TypeOK, Row
    <3>. QED  BY <1>2, <2>2, <3>1, <3>2 DEF ChronicleInv, RowsDone
  <2>4. Cardinality(rows) \in Nat
    BY FS_CardinalityType DEF ChronicleInv
  <2>5. PlacesTaken'
    <3>. SUFFICES ASSUME NEW i \in 1 .. Cardinality(rows) + 1
                  PROVE  \E r \in rows' : Cardinality(Before(r)') = i - 1
      BY <2>2 DEF PlacesTaken
    <3>1. CASE i = Cardinality(rows) + 1
      BY <2>2, <2>4, <3>1
    <3>2. CASE i # Cardinality(rows) + 1
      <4>1. i \in 1 .. Cardinality(rows)
        BY <2>4, <3>2
      <4>2. PICK r \in rows : Cardinality(Before(r)) = i - 1
        BY <4>1 DEF ChronicleInv, PlacesTaken
      <4>. QED  BY <2>2, <4>2
    <3>. QED  BY <3>1, <3>2
  <2>. QED  BY <1>1, <2>2, <2>3, <2>5 DEF ChronicleInv
<1>5. UNCHANGED rows \/ \E q \in Request : InsertAndCommit(q)
  BY DEF Next, RequestStep, Begin, Acquire, SelectPrevious, StampEvent, Fail, vars
<1>. QED  BY <1>3, <1>4, <1>5

\* The newest row is the last entry.
LEMMA NewestIsLast ==
  ASSUME ChronicleInv, NEW r \in Newest
  PROVE  Cardinality(rows) # 0 /\ Chronicle[Cardinality(rows)].id = r.id
<1>1. r \in rows /\ \A s \in rows : s.at <= r.at
  BY DEF Newest
<1>2. Until(r) = rows
  BY <1>1 DEF Until
<1>3. Cardinality(rows) = Cardinality(Before(r)) + 1 /\ Cardinality(Before(r)) \in Nat
  BY <1>1, <1>2, UntilIsBefore
<1>4. Chronicle[Cardinality(Before(r)) + 1] = [id |-> r.id, prev |-> r.prev]
  BY <1>1, ChronicleOfRows DEF ChronicleLists
<1>. QED  BY <1>3, <1>4

\* Each entry is a row's, of a request that is over.
LEMMA EntriesAreOver ==
  ASSUME ChronicleInv, NEW i \in DOMAIN Chronicle
  PROVE  Chronicle[i].id \in Request /\ phase[Chronicle[i].id] = "done"
<1>1. i \in 1 .. Cardinality(rows) /\ Cardinality(rows) \in Nat
  BY FS_CardinalityType, ChronicleOfRows DEF ChronicleInv, ChronicleLists
<1>2. PICK r \in rows : Cardinality(Before(r)) = i - 1
  BY <1>1 DEF ChronicleInv, PlacesTaken
<1>3. i = Cardinality(Before(r)) + 1
  BY <1>1, <1>2
<1>4. Chronicle[i] = [id |-> r.id, prev |-> r.prev]
  BY <1>3, ChronicleOfRows DEF ChronicleLists
<1>. QED  BY <1>4 DEF ChronicleInv, RowsDone, AuditInv, TypeOK, Row

\* A commit is an append of the log in memory.
LEMMA CommitAppends ==
  ASSUME ChronicleInv, ChronicleInv', NEW q \in Request, InsertAndCommit(q)
  PROVE  Log!AppendEvent(q)
<1>. DEFINE n == Cardinality(rows)
            entry == [id |-> q, prev |-> prev[q]]
<1>1. PICK new : new = [id |-> q, prev |-> prev[q], at |-> stamp[q]]
  OBVIOUS
<1>2. /\ rows' = rows \cup {new} /\ \A x \in rows : Before(x)' = Before(x)
      /\ Before(new)' = rows /\ Cardinality(rows') = n + 1
  BY <1>1, CommitTakesNextPlace
<1>3. /\ n \in Nat /\ Chronicle \in Seq(Entry) /\ Len(Chronicle) = n
      /\ \A x \in rows : Chronicle[Cardinality(Before(x)) + 1] = [id |-> x.id, prev |-> x.prev]
  BY ChronicleOfRows, FS_CardinalityType DEF ChronicleInv, ChronicleLists
<1>4. ChronicleLists'
  BY ChronicleOfRows, PTL
<1>5. /\ Chronicle' \in Seq(Entry) /\ Len(Chronicle') = n + 1
      /\ \A x \in rows' : Chronicle'[Cardinality(Before(x)') + 1] = [id |-> x.id, prev |-> x.prev]
  BY <1>2, <1>4 DEF ChronicleLists
<1>6. entry \in Entry
  BY DEF ChronicleInv, AuditInv, TypeOK, Entry
<1>7. \A i \in 1 .. n : Chronicle'[i] = Chronicle[i]
  <2>. SUFFICES ASSUME NEW i \in 1 .. n PROVE Chronicle'[i] = Chronicle[i]
    OBVIOUS
  <2>1. PICK x \in rows : Cardinality(Before(x)) = i - 1
    BY DEF ChronicleInv, PlacesTaken
  <2>2. i = Cardinality(Before(x)) + 1
    BY <1>3, <2>1
  <2>3. Chronicle[i] = [id |-> x.id, prev |-> x.prev]
    BY <1>3, <2>2
  <2>4. x \in rows' /\ i = Cardinality(Before(x)') + 1
    BY <1>2, <2>2
  <2>5. Chronicle'[i] = [id |-> x.id, prev |-> x.prev]
    BY <1>5, <2>4
  <2>. QED  BY <2>3, <2>5
<1>8. Chronicle'[n + 1] = entry
  BY <1>1, <1>2, <1>5
<1>9. Chronicle' = Append(Chronicle, entry)
  <2>. HIDE DEF n, entry
  <2>1. /\ Append(Chronicle, entry) \in Seq(Entry) /\ Len(Append(Chronicle, entry)) = n + 1
        /\ \A i \in 1 .. n : Append(Chronicle, entry)[i] = Chronicle[i]
        /\ Append(Chronicle, entry)[n + 1] = entry
    BY <1>3, <1>6, AppendProperties
  <2>2. \A i \in 1 .. n + 1 : Chronicle'[i] = Append(Chronicle, entry)[i]
    BY <1>3, <1>7, <1>8, <2>1
  <2>. QED  BY <1>5, <2>1, <2>2, SeqEqual
<1>10. Log!PrevHash(Chronicle) = prev[q]
  <2>1. IF rows = {} THEN prev[q] = Genesis ELSE \E r \in Newest : prev[q] = r.id
    BY DEF InsertAndCommit, Goto, ChronicleInv, AuditInv, PrevIsNewest
  <2>2. CASE rows = {}
    <3>1. Len(Chronicle) = 0
      BY <1>3, <2>2, FS_EmptySet
    <3>. QED  BY <1>3, <2>1, <2>2, <3>1 DEF Log!PrevHash
  <2>3. CASE rows # {}
    <3>1. Chronicle # <<>> /\ Chronicle[Len(Chronicle)].id = prev[q]
      BY <1>3, <2>1, <2>3, NewestIsLast
    <3>. QED  BY <3>1 DEF Log!PrevHash
  <2>. QED  BY <2>2, <2>3
<1>11. \A i \in DOMAIN Chronicle : Chronicle[i].id # q
  BY EntriesAreOver DEF InsertAndCommit, Goto
<1>. QED  BY <1>9, <1>10, <1>11 DEF Log!AppendEvent

\* PostgresAppendOnlyAuditLog keeps what the AuditLog port promises: whichever
\* requests append concurrently and whichever fail, their rows read in the order of
\* time are a log to which every commit appends one event, linked to the one before
\* it, and which nothing else changes, if the clocks agree.
THEOREM RowsImplementLog ==
  ASSUME ClocksAgree
  PROVE  Spec => ImplementsAuditLog
<1>1. Init => ChronicleInv
  BY ChronicleInitially
<1>2. Init => Log!LogInit
  BY ChronicleInitially DEF Log!LogInit
<1>3. ChronicleInv /\ [Next]_vars => ChronicleInv'
  BY ChroniclePreserved
<1>4. ChronicleInv /\ ChronicleInv' /\ [Next]_vars => [Log!LogNext]_Chronicle
  <2>. SUFFICES ASSUME ChronicleInv, ChronicleInv', [Next]_vars
                PROVE  [Log!LogNext]_Chronicle
    OBVIOUS
  <2>1. ASSUME NEW q \in Request, InsertAndCommit(q) PROVE Log!LogNext
    BY <2>1, CommitAppends DEF Log!LogNext
  <2>2. ASSUME UNCHANGED rows PROVE UNCHANGED Chronicle
    BY <2>2 DEF Chronicle
  <2>3. UNCHANGED rows \/ \E q \in Request : InsertAndCommit(q)
    BY DEF Next, RequestStep, Begin, Acquire, SelectPrevious, StampEvent, Fail, vars
  <2>. QED  BY <2>1, <2>2, <2>3
<1>. QED  BY <1>1, <1>2, <1>3, <1>4, PTL DEF Spec, ImplementsAuditLog, Log!LogSpec

LEMMA AppendKeepsLinked ==
  ASSUME ChronicleInv, NEW q \in Request, Log!AppendEvent(q), Log!Linked(Chronicle)
  PROVE  Log!Linked(Chronicle)'
<1>. DEFINE n == Cardinality(rows)
            entry == [id |-> q, prev |-> Log!PrevHash(Chronicle)]
<1>1. n \in Nat /\ Chronicle \in Seq(Entry) /\ Len(Chronicle) = n
  BY ChronicleOfRows, FS_CardinalityType DEF ChronicleInv, ChronicleLists
<1>2. Chronicle' = Append(Chronicle, entry)
  BY DEF Log!AppendEvent
<1>. HIDE DEF n
<1>3. /\ DOMAIN Chronicle' = 1 .. n + 1 /\ Chronicle'[n + 1] = entry
      /\ \A i \in 1 .. n : Chronicle'[i] = Chronicle[i]
  BY <1>1, <1>2
<1>4. entry.prev = IF n = 0 THEN Genesis ELSE Chronicle[n].id
  BY <1>1 DEF Log!PrevHash
<1>. HIDE DEF entry
<1>5. ASSUME NEW i \in 1 .. n + 1
      PROVE  Chronicle'[i].prev = IF i = 1 THEN Genesis ELSE Chronicle'[i - 1].id
  <2>1. CASE i = n + 1
    BY <1>1, <1>3, <1>4, <2>1
  <2>2. CASE i # n + 1
    BY <1>1, <1>3, <2>2 DEF Log!Linked
  <2>. QED  BY <2>1, <2>2
<1>. QED  BY <1>3, <1>5 DEF Log!Linked

\* What verify_chain of the log in memory checks holds of the rows read in the
\* order of time: the first names the genesis hash, each later one its predecessor.
THEOREM RowsAreLinked ==
  ASSUME ClocksAgree
  PROVE  Spec => []Log!Linked(Chronicle)
<1>1. Init => ChronicleInv /\ Log!Linked(Chronicle)
  BY ChronicleInitially DEF Log!Linked
<1>2. ChronicleInv /\ [Next]_vars => ChronicleInv'
  BY ChroniclePreserved
<1>3. ChronicleInv /\ ChronicleInv' /\ Log!Linked(Chronicle) /\ [Next]_vars
        => Log!Linked(Chronicle)'
  <2>. SUFFICES ASSUME ChronicleInv, ChronicleInv', Log!Linked(Chronicle), [Next]_vars
                PROVE  Log!Linked(Chronicle)'
    OBVIOUS
  <2>1. ASSUME NEW q \in Request, InsertAndCommit(q) PROVE Log!Linked(Chronicle)'
    BY <2>1, CommitAppends, AppendKeepsLinked
  <2>2. ASSUME UNCHANGED rows PROVE Log!Linked(Chronicle)'
    <3>1. Chronicle' = Chronicle
      BY <2>2 DEF Chronicle
    <3>. QED  BY <3>1 DEF Log!Linked
  <2>3. UNCHANGED rows \/ \E q \in Request : InsertAndCommit(q)
    BY DEF Next, RequestStep, Begin, Acquire, SelectPrevious, StampEvent, Fail, vars
  <2>. QED  BY <2>1, <2>2, <2>3
<1>. QED  BY <1>1, <1>2, <1>3, PTL DEF Spec

=============================================================================
