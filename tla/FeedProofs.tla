----------------------------- MODULE FeedProofs -----------------------------
(***************************************************************************)
(* Proofs about TransactionFeed, for any sales and browsers, any page size,*)
(* any number of snapshots kept, and every bound.                          *)
(*                                                                         *)
(* How a list is ordered is not looked into: what matters is that the same *)
(* rows are listed, at the same times.                                     *)
(***************************************************************************)
EXTENDS TransactionFeed, FiniteSetTheorems, WellFoundedInduction, TLAPS

USE SalesOrdered, FeedSizes, FeedBounds, NoRow

-----------------------------------------------------------------------------
(***************************************************************************)
(* The boundary.                                                           *)
(***************************************************************************)

Less == {pair \in Nat \X Nat : pair[1] < pair[2]}

LEMMA LeastNumber ==
  ASSUME NEW S, S \subseteq Nat, S # {}
  PROVE  \E n \in S : \A k \in S : n <= k
<1>1. Less = OpToRel(<, Nat)
  BY DEF Less, OpToRel
<1>2. IsWellFoundedOn(Less, Nat)
  BY <1>1, NatLessThanWellFounded
<1>3. PICK n \in S : \A k \in S : <<k, n>> \notin Less
  BY <1>2, WFMin
<1>4. \A k \in S : ~ (k < n)
  BY <1>3 DEF Less
<1>5. QED
  BY <1>3, <1>4

(* Some row has the largest of the row ids, if there are any.              *)
LEMMA LargestNumber ==
  ASSUME NEW S, S \subseteq Nat, S # {}, NEW n \in Nat, \A k \in S : k <= n
  PROVE  \E m \in S : \A k \in S : k <= m
<1> DEFINE T == {m \in Nat : \A k \in S : k <= m}
<1>1. T \subseteq Nat /\ n \in T
  OBVIOUS
<1>2. PICK m \in T : \A k \in T : m <= k
  BY <1>1, LeastNumber
<1>3. m \in Nat /\ \A k \in S : k <= m
  BY <1>2
<1>4. m \in S
  <2>1. SUFFICES ASSUME m \notin S PROVE FALSE
    OBVIOUS
  <2>2. \A k \in S : k # m /\ k \in Nat /\ k <= m
    BY <1>3, <2>1
  <2>3. m # 0
    <3>1. PICK k \in S : TRUE
      OBVIOUS
    <3>2. QED
      BY <1>3, <2>2, <3>1
  <2>4. m - 1 \in T
    <3>1. m - 1 \in Nat
      BY <1>3, <2>3
    <3>2. \A k \in S : k <= m - 1
      BY <1>3, <2>2, <3>1
    <3>3. QED
      BY <3>1, <3>2
  <2>5. m <= m - 1
    BY <1>2, <2>4
  <2>6. QED
    BY <1>3, <2>5
<1>5. QED
  BY <1>3, <1>4

RowTypes == row \in [Sales -> Row \union {None}]

(* Row ids are bounded: there are finitely many.                           *)
Bounded == \E n \in Nat : \A k \in RowIds : k <= n

LEMMA PresentRows == ASSUME RowTypes PROVE \A s \in Present : row[s] \in Row
BY DEF RowTypes, Present

Top(ids) == IF ids = {} THEN 0 ELSE CHOOSE n \in ids : \A k \in ids : k <= n

LEMMA TopLargest ==
  ASSUME NEW ids, ids \subseteq Nat, NEW n \in Nat, \A k \in ids : k <= n
  PROVE  Top(ids) \in Nat /\ Top(ids) \in ids \union {0} /\ \A k \in ids : k <= Top(ids)
<1>1. CASE ids = {}
  BY <1>1 DEF Top
<1>2. CASE ids # {}
  <2>1. \E m \in ids : \A k \in ids : k <= m
    BY <1>2, LargestNumber
  <2>2. Top(ids) \in ids /\ \A k \in ids : k <= Top(ids)
    BY <1>2, <2>1 DEF Top
  <2>3. QED
    BY <2>2
<1>3. QED
  BY <1>1, <1>2

LEMMA RowIdTypes == ASSUME RowTypes PROVE RowIds \subseteq Nat
<1>1. \A s \in Present : row[s].rowid \in Nat
  BY PresentRows DEF Row
<1>2. QED
  BY <1>1 DEF RowIds

LEMMA BoundaryLargest ==
  ASSUME RowTypes, Bounded
  PROVE  /\ Boundary \in Nat /\ Boundary \in RowIds \union {0}
         /\ \A k \in RowIds : k <= Boundary
         /\ \A s \in Present : row[s].rowid <= Boundary
<1>1. Boundary = Top(RowIds)
  BY DEF Boundary, Top
<1>2. Boundary \in Nat /\ Boundary \in RowIds \union {0} /\ \A k \in RowIds : k <= Boundary
  BY <1>1, RowIdTypes, TopLargest DEF Bounded
<1>3. \A s \in Present : row[s].rowid \in RowIds
  BY DEF RowIds
<1>4. QED
  BY <1>2, <1>3

(* Rows may come: the boundary does not shrink.                            *)
LEMMA BoundaryGrows ==
  ASSUME RowTypes, Bounded, RowIds' \subseteq Nat, Bounded', RowIds \subseteq RowIds'
  PROVE  Boundary' \in Nat /\ Boundary <= Boundary'
<1>1. Boundary' = Top(RowIds')
  BY DEF Boundary, Top
<1>2. PICK n \in Nat : \A k \in RowIds' : k <= n
  BY DEF Bounded
<1>3. Boundary' \in Nat /\ \A k \in RowIds' : k <= Boundary'
  BY <1>1, <1>2, TopLargest
<1>4. QED
  BY <1>3, BoundaryLargest

-----------------------------------------------------------------------------
(***************************************************************************)
(* Snapshots.                                                              *)
(***************************************************************************)

Snapshot == [id : Nat \ {0}, revision : Nat, boundary : Nat, filter : Filters, age : Nat]

(* Rows of a set have ids and ages of their own.                           *)
Distinct(rows) ==
  \A x, y \in rows : (x.id = y.id => x = y) /\ (x.age = y.age => x = y)

(* The rows that the operators take and return.                            *)
Table(rows) == rows \subseteq Snapshot /\ IsFiniteSet(rows) /\ Distinct(rows)

Same(x, y) ==
  x.id = y.id /\ x.revision = y.revision /\ x.boundary = y.boundary /\ x.filter = y.filter

Younger(rows, x) == {other \in rows : other.age < x.age}

LEMMA YoungerCount ==
  ASSUME NEW rows, Table(rows), NEW x \in rows
  PROVE  /\ IsFiniteSet(Younger(rows, x))
         /\ Cardinality(Younger(rows, x)) \in Nat
         /\ Cardinality(Younger(rows, x)) < Cardinality(rows)
<1>1. x.age \in Nat
  BY DEF Table, Snapshot
<1>2. Younger(rows, x) \subseteq rows /\ x \notin Younger(rows, x)
  BY <1>1 DEF Younger
<1>3. IsFiniteSet(rows)
  BY DEF Table
<1>4. /\ IsFiniteSet(Younger(rows, x)) /\ Cardinality(Younger(rows, x)) <= Cardinality(rows)
      /\ Cardinality(rows) = Cardinality(Younger(rows, x)) => rows = Younger(rows, x)
  BY <1>2, <1>3, FS_Subset
<1>5. Cardinality(Younger(rows, x)) \in Nat /\ Cardinality(rows) \in Nat
  BY <1>3, <1>4, FS_CardinalityType
<1>6. QED
  BY <1>2, <1>4, <1>5

(* Of two rows the older has more rows before it.                          *)
LEMMA YoungerOrder ==
  ASSUME NEW rows, Table(rows), NEW x \in rows, NEW y \in rows, x.age < y.age
  PROVE  Cardinality(Younger(rows, x)) < Cardinality(Younger(rows, y))
<1>1. \A z \in rows : z.age \in Nat
  BY DEF Table, Snapshot
<1>2. Younger(rows, x) \subseteq Younger(rows, y)
  BY <1>1 DEF Younger
<1>3. x \in Younger(rows, y) /\ x \notin Younger(rows, x)
  BY <1>1 DEF Younger
<1>4. IsFiniteSet(Younger(rows, y)) /\ IsFiniteSet(Younger(rows, x))
  BY YoungerCount
<1>5. /\ Cardinality(Younger(rows, x)) <= Cardinality(Younger(rows, y))
      /\ Cardinality(Younger(rows, y)) = Cardinality(Younger(rows, x))
           => Younger(rows, y) = Younger(rows, x)
  BY <1>2, <1>4, FS_Subset
<1>6. Cardinality(Younger(rows, x)) \in Nat /\ Cardinality(Younger(rows, y)) \in Nat
  BY YoungerCount
<1>7. QED
  BY <1>3, <1>5, <1>6

Rerank(rows, x) == [x EXCEPT !.age = Cardinality(Younger(rows, x))]

LEMMA RerankRow ==
  ASSUME NEW rows, Table(rows), NEW x \in rows
  PROVE  /\ Rerank(rows, x) \in Snapshot
         /\ Same(Rerank(rows, x), x)
         /\ Rerank(rows, x).age = Cardinality(Younger(rows, x))
<1> DEFINE n == Cardinality(Younger(rows, x))
<1>1. n \in Nat
  BY YoungerCount
<1>2. x \in Snapshot
  BY DEF Table
<1> HIDE DEF n
<1>3. [x EXCEPT !.age = n] \in Snapshot
  BY <1>1, <1>2 DEF Snapshot
<1>4. /\ [x EXCEPT !.age = n].age = n /\ Same([x EXCEPT !.age = n], x)
  BY <1>2 DEF Snapshot, Same
<1>5. QED
  BY <1>3, <1>4 DEF n, Rerank

LEMMA RankedRows ==
  ASSUME NEW rows
  PROVE  Ranked(rows) = {Rerank(rows, x) : x \in rows}
BY DEF Ranked, Rerank, Younger

(* Rows that are left keep everything but their ages.                      *)
LEMMA RankedKeeps ==
  ASSUME NEW rows, Table(rows)
  PROVE  /\ Table(Ranked(rows))
         /\ Cardinality(Ranked(rows)) <= Cardinality(rows)
         /\ \A y \in Ranked(rows) : y.age < Cardinality(rows)
         /\ \A y \in Ranked(rows) : \E x \in rows : Same(y, x)
<1>1. \A y \in Ranked(rows) : \E x \in rows : y = Rerank(rows, x)
  BY RankedRows
<1>2. Ranked(rows) \subseteq Snapshot
  BY <1>1, RerankRow
<1>3. \A y \in Ranked(rows) : \E x \in rows : Same(y, x)
  BY <1>1, RerankRow
<1>4. \A y \in Ranked(rows) : y.age < Cardinality(rows)
  BY <1>1, RerankRow, YoungerCount
<1>5. Distinct(Ranked(rows))
  <2>1. ASSUME NEW x \in rows, NEW y \in rows
        PROVE  /\ Rerank(rows, x).id = Rerank(rows, y).id => x = y
               /\ Rerank(rows, x).age = Rerank(rows, y).age => x = y
    <3>1. Rerank(rows, x).id = x.id /\ Rerank(rows, y).id = y.id
      BY RerankRow DEF Same
    <3>2. x.id = y.id => x = y
      BY DEF Table, Distinct
    <3>3. x.age \in Nat /\ y.age \in Nat /\ (x.age = y.age => x = y)
      BY DEF Table, Distinct, Snapshot
    <3>4. /\ Cardinality(Younger(rows, x)) \in Nat /\ Cardinality(Younger(rows, y)) \in Nat
          /\ x.age < y.age => Cardinality(Younger(rows, x)) < Cardinality(Younger(rows, y))
          /\ y.age < x.age => Cardinality(Younger(rows, y)) < Cardinality(Younger(rows, x))
      BY YoungerCount, YoungerOrder
    <3>5. /\ Rerank(rows, x).age = Cardinality(Younger(rows, x))
          /\ Rerank(rows, y).age = Cardinality(Younger(rows, y))
      BY RerankRow
    <3>6. QED
      BY <3>1, <3>2, <3>3, <3>4, <3>5
  <2>2. QED
    BY <1>1, <2>1 DEF Distinct
<1>6. IsFiniteSet(Ranked(rows)) /\ Cardinality(Ranked(rows)) <= Cardinality(rows)
  <2> DEFINE f == [x \in rows |-> Rerank(rows, x)]
  <2>1. Ranked(rows) = {f[x] : x \in rows}
    BY RankedRows
  <2>2. f \in Surjection(rows, Ranked(rows))
    BY <2>1, RankedRows DEF Surjection
  <2>3. IsFiniteSet(rows)
    BY DEF Table
  <2>4. QED
    BY <2>2, <2>3, FS_Surjection
<1>7. QED
  BY <1>2, <1>3, <1>4, <1>5, <1>6 DEF Table

(* The rows besides one.                                                   *)
LEMMA OthersKeep ==
  ASSUME Table(snapshots), NEW snap
  PROVE  /\ Table(Others(snap))
         /\ \A y \in Others(snap) : \E x \in snapshots : Same(y, x) /\ x.id # snap.id
<1> DEFINE rest == {other \in snapshots : other.id # snap.id}
<1>1. IsFiniteSet(rest)
  BY FS_Subset DEF Table
<1>2. Table(rest)
  BY <1>1 DEF Table, Distinct
<1>3. \A y \in Ranked(rest) : \E x \in rest : Same(y, x)
  BY <1>2, RankedKeeps
<1>4. Table(Ranked(rest))
  BY <1>2, RankedKeeps
<1>5. QED
  BY <1>3, <1>4 DEF Others

Older(other) == [other EXCEPT !.age = @ + 1]

LEMMA OlderRow ==
  ASSUME NEW x \in Snapshot
  PROVE  Older(x) \in Snapshot /\ Same(Older(x), x) /\ Older(x).age = x.age + 1
<1> DEFINE n == x.age + 1
<1>1. n \in Nat /\ Older(x) = [x EXCEPT !.age = n]
  BY DEF Snapshot, Older
<1> HIDE DEF n
<1>2. Older(x) \in Snapshot /\ Same(Older(x), x) /\ Older(x).age = n
  BY <1>1 DEF Snapshot, Same
<1>3. QED
  BY <1>2 DEF n

Used(snap) == [snap EXCEPT !.age = 0]

LEMMA UsedRow ==
  ASSUME NEW snap \in Snapshot
  PROVE  Used(snap) \in Snapshot /\ Same(Used(snap), snap) /\ Used(snap).age = 0
BY DEF Snapshot, Same, Used

(* Ages that differ, below a limit, leave no room for more rows than that. *)
LEMMA AgesBound ==
  ASSUME NEW rows, rows \subseteq Snapshot, Distinct(rows),
         NEW n \in Nat, \A x \in rows : x.age < n
  PROVE  IsFiniteSet(rows) /\ Cardinality(rows) <= n
<1> DEFINE T == 0 .. n - 1
           f == [x \in rows |-> x.age]
<1>1. IsFiniteSet(T) /\ Cardinality(T) = n
  BY FS_Interval
<1>2. \A x \in rows : x.age \in T
  BY DEF Snapshot
<1>3. f \in Injection(rows, T)
  <2> HIDE DEF T
  <2>1. f \in [rows -> T]
    BY <1>2
  <2>2. \A x, y \in rows : f[x] = f[y] => x = y
    BY DEF Distinct
  <2>3. QED
    BY <2>1, <2>2 DEF Injection, IsInjective
<1> HIDE DEF T, f
<1>4. QED
  BY <1>1, <1>3, FS_Injection

(* The rows after one was used: it and some of the others, not too many.   *)
LEMMA RefreshedKeeps ==
  ASSUME Table(snapshots), NEW snap \in Snapshot
  PROVE  /\ Table(Refreshed(snap))
         /\ Cardinality(Refreshed(snap)) <= MaxSnapshots
         /\ \A y \in Refreshed(snap) :
              Same(y, snap) \/ (\E x \in snapshots : Same(y, x) /\ x.id # snap.id)
<1> DEFINE kept == {o \in Others(snap) : o.age < MaxSnapshots - 1}
<1>1. Table(Others(snap)) /\ kept \subseteq Others(snap) /\ kept \subseteq Snapshot
  BY OthersKeep DEF Table
<1>2. \A o \in kept : o.age < MaxSnapshots - 1
  OBVIOUS
<1>3. Refreshed(snap) = {Older(o) : o \in kept} \union {Used(snap)}
  BY DEF Refreshed, Older, Used
<1>4. \A x, y \in kept : (x.id = y.id => x = y) /\ (x.age = y.age => x = y)
  BY <1>1 DEF Table, Distinct
<1>5. \A o \in kept : \E x \in snapshots : Same(o, x) /\ x.id # snap.id
  BY OthersKeep
<1> HIDE DEF kept
<1>6. \A y \in Refreshed(snap) : y = Used(snap) \/ \E o \in kept : y = Older(o)
  BY <1>3
<1>7. Refreshed(snap) \subseteq Snapshot
  BY <1>1, <1>6, OlderRow, UsedRow
<1>8. ASSUME NEW o \in kept
      PROVE  /\ Older(o).id # snap.id /\ Older(o).age = o.age + 1 /\ o.age \in Nat
             /\ Older(o).age < MaxSnapshots
             /\ Older(o).id = o.id
             /\ \E x \in snapshots : Same(Older(o), x) /\ x.id # snap.id
  <2>1. Same(Older(o), o) /\ Older(o).age = o.age + 1 /\ o.age \in Nat
    BY <1>1, OlderRow DEF Snapshot
  <2>2. PICK x \in snapshots : Same(o, x) /\ x.id # snap.id
    BY <1>5
  <2>3. Same(Older(o), x)
    BY <2>1, <2>2 DEF Same
  <2>4. QED
    BY <1>2, <2>1, <2>2, <2>3 DEF Same
<1>9. Used(snap).id = snap.id /\ Used(snap).age = 0
  BY UsedRow DEF Same
<1>10. Distinct(Refreshed(snap))
  <2>1. ASSUME NEW x \in Refreshed(snap), NEW y \in Refreshed(snap)
        PROVE  (x.id = y.id => x = y) /\ (x.age = y.age => x = y)
    <3>1. CASE x = Used(snap) /\ y = Used(snap)
      BY <3>1
    <3>2. ASSUME NEW o \in kept, {x, y} = {Used(snap), Older(o)}
          PROVE  x.id # y.id /\ x.age # y.age
      BY <1>8, <1>9, <3>2
    <3>3. ASSUME NEW o \in kept, NEW p \in kept, x = Older(o), y = Older(p)
          PROVE  (x.id = y.id => x = y) /\ (x.age = y.age => x = y)
      BY <1>4, <1>8, <3>3
    <3>4. QED
      BY <1>6, <3>1, <3>2, <3>3
  <2>2. QED
    BY <2>1 DEF Distinct
<1>11. \A y \in Refreshed(snap) : y.age < MaxSnapshots
  BY <1>6, <1>8, <1>9
<1>12. IsFiniteSet(Refreshed(snap)) /\ Cardinality(Refreshed(snap)) <= MaxSnapshots
  BY <1>7, <1>10, <1>11, AgesBound
<1>13. \A y \in Refreshed(snap) :
         Same(y, snap) \/ (\E x \in snapshots : Same(y, x) /\ x.id # snap.id)
  BY <1>6, <1>8, UsedRow
<1>14. QED
  BY <1>7, <1>10, <1>12, <1>13 DEF Table

-----------------------------------------------------------------------------
(***************************************************************************)
(* Lists, as functions of the rows there are.                              *)
(***************************************************************************)

Matches(rows, b, f, s) ==
  /\ rows[s] # None /\ rows[s].rowid <= b
  /\ f \in {Everything, rows[s].tag, rows[s].note}

ListingOf(rows, b, f) ==
  Ordered({<<rows[s].ts, s>> : s \in {q \in Sales : Matches(rows, b, f, q)}})

LEMMA ListingIs ==
  ASSUME NEW b, NEW f
  PROVE  Listing(b, f) = ListingOf(row, b, f)
<1>1. Matching(b, f) = {q \in Sales : Matches(row, b, f, q)}
  BY DEF Matching, Present, Matches
<1>2. QED
  BY <1>1 DEF Listing, ListingOf

-----------------------------------------------------------------------------
(***************************************************************************)
(* The invariant.                                                          *)
(***************************************************************************)

Numbers == revision \in Nat /\ nextId \in Nat \ {0}

(* A snapshot is older than the next, and no row is beyond its boundary    *)
(* that was there before it.                                               *)
Snapshots ==
  /\ Table(snapshots) /\ Cardinality(snapshots) <= MaxSnapshots
  /\ \A snap \in snapshots : snap.id < nextId /\ snap.boundary <= Boundary

(* A browser, field by field.                                              *)
Fields(b) ==
  b = [pc |-> b.pc, filter |-> b.filter, snap |-> b.snap, offset |-> b.offset,
       page |-> b.page, more |-> b.more, list |-> b.list, next |-> b.next]

(* A browser knows no snapshot, or one that there is or was.               *)
Browsers ==
  /\ reader = [r \in Readers |-> reader[r]]
  /\ \A r \in Readers :
       /\ Fields(reader[r]) /\ reader[r].filter \in Filters
       /\ reader[r].snap \in Nat /\ reader[r].snap < nextId

(* As long as the snapshot of a browser is kept, it is of the list that    *)
(* the browser's page is of.                                               *)
ListsKept ==
  \A r \in Readers, snap \in snapshots :
    (reader[r].snap = snap.id /\ reader[r].filter = snap.filter)
      => ListingOf(row, snap.boundary, snap.filter) = reader[r].list

(* What an editor has read is the note of now, or an earlier one.          *)
ReadBefore(x) ==
  /\ row[x.sale] # None
  /\ x.rev <= row[x.sale].rev
  /\ x.rev = row[x.sale].rev => x.note = row[x.sale].note

EditorRow ==
  [pc : {"idle", "editing"}, sale : Sales \union {None}, note : Notes, rev : Nat, erased : BOOLEAN]

Edits ==
  /\ editor \in [Readers -> EditorRow]
  /\ \A e \in Readers : editor[e].pc = "editing" =>
       editor[e].sale \in Sales /\ (editor[e].erased \/ ReadBefore(editor[e]))

RowsInv == RowTypes /\ Bounded /\ Numbers

PagingInv == Snapshots /\ Browsers /\ ListsKept /\ PagesExact

IInv == RowsInv /\ PagingInv /\ Edits

-----------------------------------------------------------------------------
(***************************************************************************)
(* Changes of rows.                                                        *)
(***************************************************************************)

LEMMA RowChange ==
  ASSUME RowTypes, NEW s \in Sales, NEW new \in Row, row' = [row EXCEPT ![s] = new]
  PROVE  /\ RowTypes' /\ Present' = Present \union {s} /\ row'[s] = new
         /\ \A q \in Sales : q # s => row'[q] = row[q]
<1>1. RowTypes' /\ row'[s] = new /\ \A q \in Sales : q # s => row'[q] = row[q]
  BY DEF RowTypes
<1>2. row'[s] # None
  BY <1>1
<1>3. Present' = Present \union {s}
  BY <1>1, <1>2 DEF Present
<1>4. QED
  BY <1>1, <1>3

(* What survives a change, and of which filters.                           *)
LEMMA SurvivingKeeps ==
  ASSUME Snapshots, NEW retimed \in BOOLEAN, NEW changed \in BOOLEAN
  PROVE  /\ Table(Surviving(retimed, changed))
         /\ Cardinality(Surviving(retimed, changed)) <= MaxSnapshots
         /\ \A y \in Surviving(retimed, changed) :
              \E x \in snapshots : Same(y, x) /\ ~ retimed /\ (changed => ~ Filtered(x))
<1>1. CASE retimed
  <2>1. Surviving(retimed, changed) = {}
    BY <1>1 DEF Surviving
  <2>2. IsFiniteSet({}) /\ Cardinality({}) = 0
    BY FS_EmptySet
  <2>3. QED
    BY <2>1, <2>2 DEF Table, Distinct
<1>2. CASE ~ retimed /\ changed
  <2> DEFINE rest == {snap \in snapshots : ~ Filtered(snap)}
  <2>1. IsFiniteSet(snapshots)
    BY DEF Snapshots, Table
  <2>2. IsFiniteSet(rest) /\ Cardinality(rest) <= Cardinality(snapshots)
    BY <2>1, FS_Subset
  <2>3. Table(rest)
    BY <2>2 DEF Snapshots, Table, Distinct
  <2>4. /\ Table(Ranked(rest)) /\ Cardinality(Ranked(rest)) <= Cardinality(rest)
        /\ \A y \in Ranked(rest) : \E x \in rest : Same(y, x)
    BY <2>3, RankedKeeps
  <2>5. Surviving(retimed, changed) = Ranked(rest)
    BY <1>2 DEF Surviving
  <2>6. /\ Cardinality(Ranked(rest)) \in Nat /\ Cardinality(rest) \in Nat
        /\ Cardinality(snapshots) \in Nat
    BY <2>1, <2>2, <2>4, FS_CardinalityType DEF Table
  <2>7. Cardinality(Ranked(rest)) <= MaxSnapshots
    BY <2>2, <2>4, <2>6 DEF Snapshots
  <2>8. \A y \in Ranked(rest) : \E x \in snapshots : Same(y, x) /\ ~ Filtered(x)
    BY <2>4
  <2> HIDE DEF rest
  <2>9. QED
    BY <1>2, <2>4, <2>5, <2>7, <2>8
<1>3. CASE ~ retimed /\ ~ changed
  BY <1>3 DEF Surviving, Snapshots, Same
<1>4. QED
  BY <1>1, <1>2, <1>3

(* A browser that shows what it showed, perhaps without its snapshot.      *)
Shows(now, old) ==
  /\ Fields(now) /\ now.filter = old.filter /\ now.snap \in {old.snap, NoSnapshot}
  /\ now.page = old.page /\ now.offset = old.offset
  /\ now.more = old.more /\ now.list = old.list

ShowAsBefore ==
  reader' = [r \in Readers |-> reader'[r]] /\ \A r \in Readers : Shows(reader'[r], reader[r])

LEMMA ShowUnchanged == ASSUME Browsers, UNCHANGED reader PROVE ShowAsBefore
BY DEF Browsers, ShowAsBefore, Shows

LEMMA LoadingShows ==
  ASSUME Browsers, NEW r \in Readers, NEW snap \in {reader[r].snap, NoSnapshot}, NEW o
  PROVE  Shows(Loading(r, snap, o), reader[r])
<1> DEFINE old == reader[r]
<1>1. Fields(old)
  BY DEF Browsers
<1>2. Loading(r, snap, o) =
        [pc |-> "load", filter |-> old.filter, snap |-> snap, offset |-> old.offset,
         page |-> old.page, more |-> old.more, list |-> old.list, next |-> o]
  <2>1. Loading(r, snap, o) = [old EXCEPT !.pc = "load", !.snap = snap, !.next = o]
    BY DEF Loading
  <2> HIDE DEF old
  <2>2. QED
    BY <1>1, <2>1 DEF Fields
<1> HIDE DEF old
<1>3. QED
  BY <1>2 DEF Shows, Fields, old

(* One browser is to load a page, and shows what it showed.                *)
LEMMA LoadShows ==
  ASSUME Browsers, NEW r \in Readers, NEW now, Shows(now, reader[r]),
         reader' = [reader EXCEPT ![r] = now]
  PROVE  ShowAsBefore
<1>1. /\ reader'[r] = now /\ reader' = [q \in Readers |-> reader'[q]]
      /\ \A q \in Readers : q # r => reader'[q] = reader[q]
  BY DEF Browsers
<1>2. \A q \in Readers : Shows(reader[q], reader[q])
  BY DEF Browsers, Shows
<1>3. QED
  BY <1>1, <1>2 DEF ShowAsBefore

(* A change of the rows: the browsers' pages are what they were, and the   *)
(* snapshots that are left list what they listed.                          *)
LEMMA PagingKept ==
  ASSUME PagingInv, nextId \in Nat \ {0}, UNCHANGED nextId, ShowAsBefore,
         Boundary \in Nat, Boundary' \in Nat, Boundary <= Boundary' \/ snapshots' = {},
         Table(snapshots'), Cardinality(snapshots') <= MaxSnapshots,
         \A y \in snapshots' : \E x \in snapshots :
           Same(y, x) /\ ListingOf(row', x.boundary, x.filter) = ListingOf(row, x.boundary, x.filter)
  PROVE  PagingInv'
<1>1. ASSUME NEW y \in snapshots' PROVE y.id < nextId' /\ y.boundary <= Boundary'
  <2>1. PICK x \in snapshots : Same(y, x)
    OBVIOUS
  <2>2. x.boundary \in Nat /\ y.boundary = x.boundary /\ y.id = x.id
    BY <2>1 DEF PagingInv, Snapshots, Table, Snapshot, Same
  <2>3. x.id < nextId /\ x.boundary <= Boundary
    BY DEF PagingInv, Snapshots
  <2>4. QED
    BY <2>2, <2>3
<1>2. Snapshots'
  BY <1>1 DEF Snapshots
<1>3. Browsers' /\ PagesExact'
  BY DEF PagingInv, Browsers, PagesExact, ShowAsBefore, Shows, NoSnapshot
<1>4. ASSUME NEW r \in Readers, NEW y \in snapshots',
             reader'[r].snap = y.id, reader'[r].filter = y.filter
      PROVE  ListingOf(row', y.boundary, y.filter) = reader'[r].list
  <2>1. PICK x \in snapshots :
          Same(y, x) /\ ListingOf(row', x.boundary, x.filter) = ListingOf(row, x.boundary, x.filter)
    OBVIOUS
  <2>2. y.id = x.id /\ y.boundary = x.boundary /\ y.filter = x.filter
    BY <2>1 DEF Same
  <2>3. /\ reader'[r].filter = reader[r].filter /\ reader'[r].list = reader[r].list
        /\ reader'[r].snap \in {reader[r].snap, NoSnapshot}
    BY DEF ShowAsBefore, Shows
  <2>4. x.id # NoSnapshot
    BY DEF PagingInv, Snapshots, Table, Snapshot, NoSnapshot
  <2>5. ListingOf(row, x.boundary, x.filter) = reader[r].list
    BY <1>4, <2>2, <2>3, <2>4 DEF PagingInv, ListsKept
  <2>6. QED
    BY <2>1, <2>2, <2>3, <2>5
<1>5. ListsKept'
  BY <1>4 DEF ListsKept
<1>6. QED
  BY <1>2, <1>3, <1>5 DEF PagingInv

Unaffected(old, new, b, f) ==
  \/ new = old
  \/ old = None /\ new \in Row /\ new.rowid > b
  \/ /\ old # None /\ new # None /\ new.rowid = old.rowid /\ new.ts = old.ts
     /\ (f = Everything \/ (new.tag = old.tag /\ new.note = old.note))

RowsUnaffected(rows, after, b, f) == \A q \in Sales : Unaffected(rows[q], after[q], b, f)

(* Rows beyond the boundary, and those that change in what neither the     *)
(* filter nor the order looks at, leave a list as it was.                  *)
LEMMA ListingKept ==
  ASSUME NEW rows, NEW after, NEW b \in Nat, NEW f,
         RowsUnaffected(rows, after, b, f)
  PROVE  ListingOf(after, b, f) = ListingOf(rows, b, f)
<1>1. ASSUME NEW q \in Sales
      PROVE  /\ Matches(after, b, f, q) <=> Matches(rows, b, f, q)
             /\ Matches(rows, b, f, q) => after[q].ts = rows[q].ts
  <2>1. CASE after[q] = rows[q]
    BY <2>1 DEF Matches
  <2>2. CASE rows[q] = None /\ after[q] \in Row /\ after[q].rowid > b
    <3>1. after[q].rowid \in Nat /\ ~ (after[q].rowid <= b)
      BY <2>2 DEF Row
    <3>2. QED
      BY <2>2, <3>1 DEF Matches
  <2>3. CASE /\ rows[q] # None /\ after[q] # None
             /\ after[q].rowid = rows[q].rowid /\ after[q].ts = rows[q].ts
             /\ (f = Everything \/ (after[q].tag = rows[q].tag /\ after[q].note = rows[q].note))
    <3>1. (f \in {Everything, after[q].tag, after[q].note})
            <=> (f \in {Everything, rows[q].tag, rows[q].note})
      BY <2>3
    <3>2. QED
      BY <2>3, <3>1 DEF Matches
  <2>4. QED
    BY <2>1, <2>2, <2>3 DEF RowsUnaffected, Unaffected
<1> DEFINE old == {q \in Sales : Matches(rows, b, f, q)}
           now == {q \in Sales : Matches(after, b, f, q)}
<1>2. now = old /\ \A q \in old : after[q].ts = rows[q].ts
  BY <1>1
<1>3. {<<after[q].ts, q>> : q \in now} = {<<rows[q].ts, q>> : q \in old}
  <2> HIDE DEF old, now
  <2>1. QED
    BY <1>2
<1>4. QED
  BY <1>3 DEF ListingOf

(* What upsert_payment writes.                                             *)
LEMMA UpsertRow ==
  ASSUME RowsInv, NEW s \in Sales, NEW t \in Times, NEW g \in Tags, Upsert(s, t, g)
  PROVE  \E new \in Row :
           /\ row' = [row EXCEPT ![s] = new]
           /\ new.ts = t /\ new.tag = g
           /\ row[s] = None => new.rowid = Boundary + 1
           /\ row[s] # None => /\ new.rowid = row[s].rowid /\ new.note = row[s].note
                               /\ new.rev = row[s].rev
<1>1. CASE row[s] = None
  <2> DEFINE new == [rowid |-> Boundary + 1, ts |-> t, tag |-> g, note |-> Empty, rev |-> 0]
  <2>1. Boundary \in Nat /\ Empty \in Notes
    BY BoundaryLargest, FilterKinds DEF RowsInv
  <2>2. new \in Row
    BY <2>1 DEF Row
  <2>3. row' = [row EXCEPT ![s] = new]
    BY <1>1 DEF Upsert
  <2>4. QED
    BY <1>1, <2>2, <2>3
<1>2. CASE row[s] # None
  <2> DEFINE new == [row[s] EXCEPT !.ts = t, !.tag = g]
  <2>1. row[s] \in Row
    BY <1>2 DEF RowsInv, RowTypes
  <2>2. /\ new \in Row /\ new.ts = t /\ new.tag = g
        /\ new.rowid = row[s].rowid /\ new.note = row[s].note /\ new.rev = row[s].rev
    BY <2>1 DEF Row
  <2>3. row' = [row EXCEPT ![s] = new]
    BY <1>2 DEF Upsert
  <2> HIDE DEF new
  <2>4. QED
    BY <1>2, <2>2, <2>3
<1>3. QED
  BY <1>1, <1>2

(* The row ids after a row was inserted or changed.                        *)
LEMMA RowIdsGrow ==
  ASSUME RowTypes, Bounded, NEW s \in Sales, NEW new \in Row, row' = [row EXCEPT ![s] = new],
         row[s] # None => new.rowid = row[s].rowid
  PROVE  /\ RowTypes' /\ Bounded' /\ RowIds \subseteq RowIds'
         /\ Boundary' \in Nat /\ Boundary <= Boundary'
<1>1. /\ RowTypes' /\ Present' = Present \union {s} /\ row'[s] = new
      /\ \A q \in Sales : q # s => row'[q] = row[q]
  BY RowChange
<1>2. Present \subseteq Sales
  BY DEF Present
<1>3. RowIds \subseteq RowIds'
  <2>1. ASSUME NEW q \in Present PROVE row[q].rowid \in RowIds'
    <3>1. q \in Present' /\ row'[q].rowid = row[q].rowid
      BY <1>1, <1>2, <2>1 DEF Present
    <3>2. QED
      BY <3>1 DEF RowIds
  <2>2. QED
    BY <2>1 DEF RowIds
<1>4. RowIds' \subseteq RowIds \union {new.rowid}
  <2>1. ASSUME NEW q \in Present' PROVE row'[q].rowid \in RowIds \union {new.rowid}
    BY <1>1, <1>2 DEF RowIds
  <2>2. QED
    BY <2>1 DEF RowIds
<1>5. RowIds' \subseteq Nat
  BY <1>4, RowIdTypes DEF Row
<1>6. Bounded'
  <2>1. PICK n \in Nat : \A k \in RowIds : k <= n
    BY DEF Bounded
  <2>2. new.rowid \in Nat /\ RowIds \subseteq Nat
    BY RowIdTypes DEF Row
  <2>3. n + new.rowid \in Nat /\ \A k \in RowIds' : k <= n + new.rowid
    BY <1>4, <2>1, <2>2
  <2>4. QED
    BY <2>3 DEF Bounded
<1>7. QED
  BY <1>1, <1>3, <1>5, <1>6, BoundaryGrows

LEMMA UpsertKeeps ==
  ASSUME IInv, NEW s \in Sales, NEW t \in Times, NEW g \in Tags, Upsert(s, t, g)
  PROVE  IInv'
<1> DEFINE retimed == row[s] # None /\ row[s].ts # t
           retagged == row[s] # None /\ row[s].tag # g
<1>1. PICK new \in Row :
        /\ row' = [row EXCEPT ![s] = new]
        /\ new.ts = t /\ new.tag = g
        /\ row[s] = None => new.rowid = Boundary + 1
        /\ row[s] # None => /\ new.rowid = row[s].rowid /\ new.note = row[s].note
                            /\ new.rev = row[s].rev
  BY UpsertRow DEF IInv
<1>2. RowTypes /\ Bounded
  BY DEF IInv, RowsInv
<1>3. RowTypes' /\ Bounded' /\ Boundary' \in Nat /\ Boundary <= Boundary'
  BY <1>1, <1>2, RowIdsGrow
<1>4. Boundary \in Nat
  BY <1>2, BoundaryLargest
<1>5. /\ snapshots' = Surviving(retimed, retagged) /\ UNCHANGED <<nextId, reader, editor>>
      /\ revision' \in {revision, revision + 1}
  BY DEF Upsert
<1>6. Numbers'
  BY <1>5 DEF IInv, RowsInv, Numbers
<1>7. ASSUME NEW x \in snapshots, ~ retimed, retagged => ~ Filtered(x)
      PROVE  ListingOf(row', x.boundary, x.filter) = ListingOf(row, x.boundary, x.filter)
  <2>1. x.boundary \in Nat /\ x.boundary <= Boundary
    BY DEF IInv, PagingInv, Snapshots, Table, Snapshot
  <2>2. /\ row'[s] = new /\ new # None
        /\ \A q \in Sales : q # s => row'[q] = row[q]
    BY <1>1, <1>2, RowChange
  <2>3. Unaffected(row[s], row'[s], x.boundary, x.filter)
    <3>1. CASE row[s] = None
      <4>1. new.rowid > x.boundary
        BY <1>1, <1>4, <2>1, <3>1
      <4>2. QED
        BY <1>1, <2>2, <3>1, <4>1 DEF Unaffected
    <3>2. CASE row[s] # None
      BY <1>1, <1>7, <2>2, <3>2 DEF Unaffected, Filtered
    <3>3. QED
      BY <3>1, <3>2
  <2>4. \A q \in Sales : Unaffected(row[q], row'[q], x.boundary, x.filter)
    <3>1. ASSUME NEW q \in Sales, q # s PROVE Unaffected(row[q], row'[q], x.boundary, x.filter)
      BY <2>2, <3>1 DEF Unaffected
    <3>2. QED
      BY <2>3, <3>1
  <2>5. RowsUnaffected(row, row', x.boundary, x.filter)
    BY <2>4 DEF RowsUnaffected
  <2>6. QED
    BY <2>1, <2>5, ListingKept
<1>8. retimed \in BOOLEAN /\ retagged \in BOOLEAN
  OBVIOUS
<1> HIDE DEF retimed, retagged
<1>9. /\ Table(snapshots') /\ Cardinality(snapshots') <= MaxSnapshots
      /\ \A y \in snapshots' :
           \E x \in snapshots : Same(y, x) /\ ~ retimed /\ (retagged => ~ Filtered(x))
  BY <1>5, <1>8, SurvivingKeeps DEF IInv, PagingInv
<1>10. PagingInv'
  <2>1. ShowAsBefore
    BY <1>5, ShowUnchanged DEF IInv, PagingInv
  <2>2. QED
    BY <1>3, <1>4, <1>5, <1>7, <1>9, <2>1, PagingKept DEF IInv, RowsInv, Numbers
<1>11. Edits'
  <2>1. ASSUME NEW e \in Readers, editor[e].pc = "editing", ~ editor[e].erased
        PROVE  ReadBefore(editor[e])'
    <3>1. editor[e].sale \in Sales /\ ReadBefore(editor[e])
      BY <2>1 DEF IInv, Edits
    <3>2. CASE editor[e].sale # s
      <4>1. row'[editor[e].sale] = row[editor[e].sale]
        BY <1>1, <1>2, <3>1, <3>2, RowChange
      <4>2. QED
        BY <1>5, <3>1, <4>1 DEF ReadBefore
    <3>3. CASE editor[e].sale = s
      <4>1. row[s] # None /\ row'[s] = new /\ new # None
        <5>1. row[s] # None
          BY <3>1, <3>3 DEF ReadBefore
        <5>2. row'[s] = new /\ new # None
          BY <1>1, <1>2, RowChange
        <5>3. QED
          BY <5>1, <5>2
      <4>2. new.note = row[s].note /\ new.rev = row[s].rev
        BY <1>1, <4>1
      <4>3. QED
        BY <1>5, <3>1, <3>3, <4>1, <4>2 DEF ReadBefore
    <3>4. QED
      BY <3>2, <3>3
  <2>2. QED
    BY <1>5, <2>1 DEF IInv, Edits
<1>12. QED
  BY <1>3, <1>6, <1>10, <1>11 DEF IInv, RowsInv

(* What set_transaction_note writes.                                       *)
LEMMA NoteRow ==
  ASSUME RowTypes, NEW s \in Sales, row[s] # None, NEW n \in Notes,
         row' = [row EXCEPT ![s].note = n, ![s].rev = NextRevision(s)]
  PROVE  \E new \in Row :
           /\ row' = [row EXCEPT ![s] = new]
           /\ new.rowid = row[s].rowid /\ new.ts = row[s].ts /\ new.tag = row[s].tag
           /\ new.note = n /\ new.rev = row[s].rev + 1
<1> DEFINE next == row[s].rev + 1
           new == [row[s] EXCEPT !.note = n, !.rev = next]
<1>1. row[s] \in Row /\ next \in Nat
  BY DEF RowTypes, Row
<1>2. row' = [row EXCEPT ![s] = new]
  BY DEF RowTypes, NextRevision
<1> HIDE DEF next
<1>3. /\ new \in Row /\ new.rowid = row[s].rowid /\ new.ts = row[s].ts
      /\ new.tag = row[s].tag /\ new.note = n /\ new.rev = next
  BY <1>1 DEF Row
<1> HIDE DEF new
<1>4. QED
  BY <1>2, <1>3 DEF next

(* An editor that was closed.                                              *)
LEMMA NoEditTypes == NoEdit \in EditorRow /\ NoEdit.pc # "editing"
BY FilterKinds DEF NoEdit, EditorRow

(* A note that is replaced.                                                *)
LEMMA NoteKeeps ==
  ASSUME IInv, NEW e \in Readers, NEW s \in Sales, row[s] # None, NEW new \in Row,
         row' = [row EXCEPT ![s] = new], snapshots' = Surviving(FALSE, TRUE),
         editor' = [editor EXCEPT ![e] = NoEdit], UNCHANGED <<revision, nextId>>, ShowAsBefore,
         new.rowid = row[s].rowid, new.ts = row[s].ts, new.tag = row[s].tag,
         new.rev = row[s].rev + 1
  PROVE  IInv'
<1>1. RowTypes /\ Bounded
  BY DEF IInv, RowsInv
<1>3. editor' = [editor EXCEPT ![e] = NoEdit] /\ UNCHANGED <<revision, nextId>> /\ ShowAsBefore
  OBVIOUS
<1>4. /\ new.rowid = row[s].rowid /\ new.ts = row[s].ts /\ new.tag = row[s].tag
      /\ new.rev = row[s].rev + 1
  OBVIOUS
<1>5. RowTypes' /\ Bounded' /\ Boundary' \in Nat /\ Boundary <= Boundary'
  BY <1>1, <1>4, RowIdsGrow
<1>6. Boundary \in Nat
  BY <1>1, BoundaryLargest
<1>7. /\ row'[s] = new /\ new # None
      /\ \A q \in Sales : q # s => row'[q] = row[q]
  BY <1>1, <1>4, RowChange
<1>8. ASSUME NEW x \in snapshots, ~ Filtered(x)
      PROVE  ListingOf(row', x.boundary, x.filter) = ListingOf(row, x.boundary, x.filter)
  <2>1. x.boundary \in Nat
    BY DEF IInv, PagingInv, Snapshots, Table, Snapshot
  <2>2. Unaffected(row[s], row'[s], x.boundary, x.filter)
    BY <1>1, <1>4, <1>7, <1>8 DEF Unaffected, Filtered
  <2>3. \A q \in Sales : Unaffected(row[q], row'[q], x.boundary, x.filter)
    <3>1. ASSUME NEW q \in Sales, q # s PROVE Unaffected(row[q], row'[q], x.boundary, x.filter)
      BY <1>7, <3>1 DEF Unaffected
    <3>2. QED
      BY <2>2, <3>1
  <2>4. RowsUnaffected(row, row', x.boundary, x.filter)
    BY <2>3 DEF RowsUnaffected
  <2>5. QED
    BY <2>1, <2>4, ListingKept
<1>9. /\ Table(snapshots') /\ Cardinality(snapshots') <= MaxSnapshots
      /\ \A y \in snapshots' : \E x \in snapshots : Same(y, x) /\ ~ Filtered(x)
  BY SurvivingKeeps DEF IInv, PagingInv
<1>10. PagingInv'
  BY <1>3, <1>5, <1>6, <1>8, <1>9, PagingKept DEF IInv, RowsInv, Numbers
<1>11. ASSUME NEW d \in Readers, editor'[d].pc = "editing"
       PROVE  editor'[d].sale \in Sales /\ (editor'[d].erased \/ ReadBefore(editor[d])')
  <2>1. d # e /\ editor'[d] = editor[d]
    BY <1>3, <1>11, NoEditTypes DEF IInv, Edits
  <2>2. editor[d].sale \in Sales /\ (editor[d].erased \/ ReadBefore(editor[d]))
    BY <1>11, <2>1 DEF IInv, Edits
  <2>3. CASE editor[d].erased
    BY <2>1, <2>2, <2>3
  <2>4. CASE ~ editor[d].erased /\ editor[d].sale # s
    <3>1. row'[editor[d].sale] = row[editor[d].sale]
      BY <1>7, <2>2, <2>4
    <3>2. QED
      BY <2>1, <2>2, <2>4, <3>1 DEF ReadBefore
  <2>5. CASE ~ editor[d].erased /\ editor[d].sale = s
    <3>1. row[s].rev \in Nat
      BY <1>1 DEF RowTypes, Row
    <3>2. editor[d].rev \in Nat /\ editor[d].rev <= row[s].rev
      BY <2>2, <2>5 DEF IInv, Edits, EditorRow, ReadBefore
    <3>3. row'[s].rev = row[s].rev + 1
      BY <1>4, <1>7
    <3>4. QED
      BY <1>7, <2>1, <2>2, <2>5, <3>1, <3>2, <3>3 DEF ReadBefore
  <2>6. QED
    BY <2>3, <2>4, <2>5
<1>12. Edits'
  <2>1. editor' \in [Readers -> EditorRow]
    BY <1>3, NoEditTypes DEF IInv, Edits
  <2>2. QED
    BY <1>11, <2>1 DEF Edits
<1>13. Numbers'
  BY <1>3 DEF IInv, RowsInv, Numbers
<1>14. QED
  BY <1>5, <1>10, <1>12, <1>13 DEF IInv, RowsInv

(* Steps that change no row, number or snapshot, and no browser's page.    *)
LEMMA OnlyEditors ==
  ASSUME IInv, UNCHANGED <<row, revision, nextId, snapshots>>, ShowAsBefore
  PROVE  RowsInv' /\ PagingInv'
<1>1. RowIds' = RowIds /\ Boundary' = Boundary
  BY DEF RowIds, Present, Boundary
<1>2. RowsInv'
  BY <1>1 DEF IInv, RowsInv, RowTypes, Bounded, Numbers
<1>3. Boundary \in Nat
  BY BoundaryLargest DEF IInv, RowsInv
<1>4. Table(snapshots) /\ Cardinality(snapshots) <= MaxSnapshots
  BY DEF IInv, PagingInv, Snapshots
<1>5. \A y \in snapshots : Same(y, y)
  BY DEF Same
<1>6. PagingInv /\ nextId \in Nat \ {0}
  BY DEF IInv, RowsInv, Numbers
<1>7. PagingInv'
  BY <1>1, <1>3, <1>4, <1>5, <1>6, PagingKept
<1>8. QED
  BY <1>2, <1>7

LEMMA SaveNoteKeeps ==
  ASSUME IInv, NEW e \in Readers, NEW n \in Notes, SaveNote(e, n)
  PROVE  IInv'
<1> DEFINE s == editor[e].sale
<1>1. /\ editor[e].pc = "editing" /\ editor' = [editor EXCEPT ![e] = NoEdit]
      /\ UNCHANGED <<revision, nextId>>
  BY DEF SaveNote
<1>2. s \in Sales
  BY <1>1 DEF IInv, Edits
<1> DEFINE loading == Loading(e, NoSnapshot, reader[e].offset)
<1>9. ShowAsBefore
  <2>1. Browsers
    BY DEF IInv, PagingInv
  <2>2. reader' = reader \/ reader' = [reader EXCEPT ![e] = loading]
    BY DEF SaveNote
  <2>3. Shows(loading, reader[e])
    BY <2>1, LoadingShows
  <2> HIDE DEF loading
  <2>4. QED
    BY <2>1, <2>2, <2>3, ShowUnchanged, LoadShows
<1> HIDE DEF loading
<1>3. CASE /\ row[s] # None
           /\ row' = [row EXCEPT ![s].note = n, ![s].rev = NextRevision(s)]
           /\ snapshots' = Surviving(FALSE, TRUE)
  <2>1. RowTypes
    BY DEF IInv, RowsInv
  <2>2. \E new \in Row :
           /\ row' = [row EXCEPT ![s] = new]
           /\ new.rowid = row[s].rowid /\ new.ts = row[s].ts /\ new.tag = row[s].tag
           /\ new.note = n /\ new.rev = row[s].rev + 1
    BY <1>2, <1>3, <2>1, NoteRow
  <2> HIDE DEF s
  <2>3. QED
    BY <1>1, <1>2, <1>3, <1>9, <2>2, NoteKeeps
<1>4. CASE row' = row /\ snapshots' = snapshots
  <2>1. RowsInv' /\ PagingInv'
    BY <1>1, <1>4, <1>9, OnlyEditors
  <2>2. editor' \in [Readers -> EditorRow]
    BY <1>1, NoEditTypes DEF IInv, Edits
  <2>3. ASSUME NEW d \in Readers, editor'[d].pc = "editing" PROVE editor'[d] = editor[d]
    BY <1>1, <2>3, NoEditTypes DEF IInv, Edits
  <2>4. Edits'
    BY <1>4, <2>2, <2>3 DEF IInv, Edits, ReadBefore
  <2>5. QED
    BY <2>1, <2>4 DEF IInv
<1>5. QED
  BY <1>3, <1>4 DEF SaveNote

(* The account is switched: nothing is left.                               *)
LEMMA EraseKeeps == ASSUME IInv, Erase PROVE IInv'
<1>1. /\ row' = [s \in Sales |-> None] /\ snapshots' = {} /\ UNCHANGED <<nextId, reader>>
      /\ editor' = [e \in Readers |-> [editor[e] EXCEPT !.erased = editor[e].pc = "editing"]]
      /\ revision' = revision + Cardinality(Present)
  BY DEF Erase
<1>2. Present' = {}
  BY <1>1 DEF Present
<1>3. RowIds' = {}
  BY <1>2 DEF RowIds
<1>4. RowTypes' /\ Bounded' /\ Boundary' = 0
  BY <1>1, <1>3 DEF RowTypes, Bounded, Boundary
<1>5. Boundary \in Nat
  BY BoundaryLargest DEF IInv, RowsInv
<1>6. Numbers'
  <2>1. IsFiniteSet(Present)
    BY FS_Subset DEF Present
  <2>2. Cardinality(Present) \in Nat
    BY <2>1, FS_CardinalityType
  <2>3. QED
    BY <1>1, <2>2 DEF IInv, RowsInv, Numbers
<1>7. Table(snapshots') /\ Cardinality(snapshots') <= MaxSnapshots
  <2>1. IsFiniteSet({}) /\ Cardinality({}) = 0
    BY FS_EmptySet
  <2>2. QED
    BY <1>1, <2>1 DEF Table, Distinct
<1>8. PagingInv'
  <2>1. ShowAsBefore
    BY <1>1, ShowUnchanged DEF IInv, PagingInv
  <2>2. QED
    BY <1>1, <1>4, <1>5, <1>7, <2>1, PagingKept DEF IInv, RowsInv, Numbers
<1>9. Edits'
  <2>1. ASSUME NEW e \in Readers
        PROVE  /\ editor'[e] \in EditorRow
               /\ editor'[e].pc = "editing" => editor'[e].sale \in Sales /\ editor'[e].erased
    <3> DEFINE was == editor[e].pc = "editing"
               now == [editor[e] EXCEPT !.erased = was]
    <3>1. editor'[e] = now
      BY <1>1
    <3>2. editor[e] \in EditorRow /\ was \in BOOLEAN
      BY DEF IInv, Edits
    <3>3. was => editor[e].sale \in Sales
      BY DEF IInv, Edits
    <3>4. editor[e].pc = "editing" => was
      OBVIOUS
    <3> HIDE DEF was
    <3>5. now \in EditorRow /\ now.pc = editor[e].pc /\ now.sale = editor[e].sale /\ now.erased = was
      BY <3>2 DEF EditorRow
    <3> HIDE DEF now
    <3>6. QED
      BY <3>1, <3>3, <3>4, <3>5
  <2>2. editor' \in [Readers -> EditorRow]
    BY <1>1, <2>1
  <2>3. QED
    BY <2>1, <2>2 DEF Edits
<1>10. QED
  BY <1>4, <1>6, <1>8, <1>9 DEF IInv, RowsInv

-----------------------------------------------------------------------------
(***************************************************************************)
(* Pages.                                                                  *)
(***************************************************************************)

(* Steps that leave the rows and the editors alone.                        *)
LEMMA OnlyPages ==
  ASSUME IInv, UNCHANGED <<row, revision, editor>>, nextId' \in Nat \ {0}
  PROVE  RowsInv' /\ Edits' /\ Boundary' = Boundary
<1>1. RowIds' = RowIds /\ Boundary' = Boundary
  BY DEF RowIds, Present, Boundary
<1>2. RowsInv'
  BY <1>1 DEF IInv, RowsInv, RowTypes, Bounded, Numbers
<1>3. Edits'
  BY DEF IInv, Edits, ReadBefore
<1>4. QED
  BY <1>1, <1>2, <1>3

(* Twelve hours pass: fewer snapshots are left.                            *)
LEMMA ExpireKeeps == ASSUME IInv, Expire PROVE IInv'
<1>1. PICK oldest \in snapshots : snapshots' = {snap \in snapshots : snap.age < oldest.age}
  BY DEF Expire
<1>2. UNCHANGED <<row, revision, nextId, reader, editor>>
  BY DEF Expire, table
<1>3. nextId \in Nat \ {0}
  BY DEF IInv, RowsInv, Numbers
<1>4. RowsInv' /\ Edits' /\ Boundary' = Boundary
  BY <1>2, <1>3, OnlyPages
<1>5. Boundary \in Nat
  BY BoundaryLargest DEF IInv, RowsInv
<1>6. Table(snapshots) /\ Cardinality(snapshots) <= MaxSnapshots /\ snapshots' \subseteq snapshots
  BY <1>1 DEF IInv, PagingInv, Snapshots
<1>7. IsFiniteSet(snapshots') /\ Cardinality(snapshots') <= MaxSnapshots
  <2>1. IsFiniteSet(snapshots)
    BY <1>6 DEF Table
  <2>2. IsFiniteSet(snapshots') /\ Cardinality(snapshots') <= Cardinality(snapshots)
    BY <1>6, <2>1, FS_Subset
  <2>3. Cardinality(snapshots') \in Nat /\ Cardinality(snapshots) \in Nat
    BY <2>1, <2>2, FS_CardinalityType
  <2>4. QED
    BY <1>6, <2>2, <2>3
<1>8. Table(snapshots')
  BY <1>6, <1>7 DEF Table, Distinct
<1>9. \A y \in snapshots' : \E x \in snapshots :
        Same(y, x) /\ ListingOf(row', x.boundary, x.filter) = ListingOf(row, x.boundary, x.filter)
  BY <1>2, <1>6 DEF Same
<1>10. PagingInv'
  <2>1. ShowAsBefore
    BY <1>2, ShowUnchanged DEF IInv, PagingInv
  <2>2. QED
    BY <1>2, <1>3, <1>4, <1>5, <1>7, <1>8, <1>9, <2>1, PagingKept DEF IInv
<1>11. QED
  BY <1>4, <1>10 DEF IInv

(* A browser is shown a page of the list that a snapshot is of, or is to   *)
(* load the page before.                                                   *)
LEMMA ReadPageKeeps ==
  ASSUME IInv, UNCHANGED <<row, revision, editor>>,
         NEW r \in Readers, NEW snap \in Snapshot, snap.boundary <= Boundary,
         snap \in snapshots \/ snap.id = nextId,
         nextId' \in Nat, nextId <= nextId', snap.id < nextId',
         NEW o, NEW list, list = ListingOf(row, snap.boundary, snap.filter),
         ReadPage(r, snap.filter, snap, o, list, list)
  PROVE  IInv'
<1> DEFINE page == Shown(snap.filter, snap, o, list, list)
           loading == Loading(r, reader[r].snap, Before(o))
<1>1. RowsInv' /\ Edits' /\ Boundary' = Boundary
  BY OnlyPages DEF IInv, RowsInv, Numbers
<1>2. /\ Table(snapshots) /\ \A x \in snapshots : x.id < nextId /\ x.boundary <= Boundary
      /\ nextId \in Nat
  BY DEF IInv, PagingInv, Snapshots, RowsInv, Numbers
<1>3. /\ Table(snapshots') /\ Cardinality(snapshots') <= MaxSnapshots
      /\ \A y \in snapshots' :
           Same(y, snap) \/ (\E x \in snapshots : Same(y, x) /\ x.id # snap.id)
  BY <1>2, RefreshedKeeps DEF ReadPage
<1>4. /\ Fields(page) /\ page.filter = snap.filter /\ page.snap = snap.id /\ page.list = list
      /\ page.page = Slice(page.list, page.offset)
      /\ page.more <=> page.offset + PageSize < Len(page.list)
  BY DEF Shown, Fields
<1>5. Shows(loading, reader[r])
  BY LoadingShows DEF IInv, PagingInv
<1>6. \E now \in {page, loading} : reader' = [reader EXCEPT ![r] = now]
  BY DEF ReadPage
<1> HIDE DEF page, loading
<1>7. PICK now \in {page, loading} : reader' = [reader EXCEPT ![r] = now]
  BY <1>6
<1>8. /\ reader'[r] = now /\ reader' = [q \in Readers |-> reader'[q]]
      /\ \A q \in Readers : q # r => reader'[q] = reader[q]
  BY <1>7 DEF IInv, PagingInv, Browsers
<1>9. Snapshots'
  <2>1. ASSUME NEW y \in snapshots' PROVE y.id < nextId' /\ y.boundary <= Boundary'
    <3>1. CASE Same(y, snap)
      BY <1>1, <3>1 DEF Same
    <3>2. ASSUME NEW x \in snapshots, Same(y, x) PROVE y.id < nextId' /\ y.boundary <= Boundary'
      <4>1. x.id \in Nat /\ x.id < nextId /\ x.boundary <= Boundary
        BY <1>2 DEF Table, Snapshot
      <4>2. QED
        BY <1>1, <1>2, <3>2, <4>1 DEF Same
    <3>3. QED
      BY <1>3, <3>1, <3>2
  <2>2. QED
    BY <1>3, <2>1 DEF Snapshots
<1>10. /\ Fields(reader[r]) /\ reader[r].filter \in Filters
       /\ reader[r].snap \in Nat /\ reader[r].snap < nextId
       /\ reader[r].page = Slice(reader[r].list, reader[r].offset)
       /\ reader[r].more <=> reader[r].offset + PageSize < Len(reader[r].list)
  BY DEF IInv, PagingInv, Browsers, PagesExact
<1>11. /\ Fields(now) /\ now.filter \in Filters /\ now.snap \in Nat /\ now.snap < nextId'
       /\ now.page = Slice(now.list, now.offset)
       /\ now.more <=> now.offset + PageSize < Len(now.list)
  <2>1. CASE now = page
    BY <1>4, <2>1 DEF Snapshot
  <2>2. CASE now = loading
    BY <1>2, <1>5, <1>10, <2>2 DEF Shows, NoSnapshot
  <2>3. QED
    BY <2>1, <2>2
<1>12. Browsers'
  <2>1. ASSUME NEW q \in Readers, q # r
        PROVE  /\ Fields(reader'[q]) /\ reader'[q].filter \in Filters
               /\ reader'[q].snap \in Nat /\ reader'[q].snap < nextId'
    BY <1>2, <1>8, <2>1 DEF IInv, PagingInv, Browsers
  <2>2. QED
    BY <1>8, <1>11, <2>1 DEF Browsers
<1>13. PagesExact'
  BY <1>8, <1>11 DEF IInv, PagingInv, PagesExact
<1>14. ASSUME NEW q \in Readers, NEW y \in snapshots',
              reader[q].snap = y.id, reader[q].filter = y.filter
       PROVE  ListingOf(row', y.boundary, y.filter) = reader[q].list
  <2>1. ASSUME NEW x \in snapshots, Same(y, x)
        PROVE  ListingOf(row', y.boundary, y.filter) = reader[q].list
    <3>1. y.id = x.id /\ y.filter = x.filter /\ y.boundary = x.boundary
      BY <2>1 DEF Same
    <3>2. ListingOf(row, x.boundary, x.filter) = reader[q].list
      BY <1>14, <3>1 DEF IInv, PagingInv, ListsKept
    <3>3. QED
      BY <3>1, <3>2
  <2>2. CASE Same(y, snap)
    <3>1. CASE snap \in snapshots
      BY <2>1, <2>2, <3>1
    <3>2. CASE snap.id = nextId
      <4>1. reader[q].snap = nextId /\ reader[q].snap < nextId
        BY <1>14, <2>2, <3>2 DEF Same, IInv, PagingInv, Browsers
      <4>2. QED
        BY <1>2, <4>1
    <3>3. QED
      BY <3>1, <3>2
  <2>3. QED
    BY <1>3, <2>1, <2>2
<1>15. ASSUME NEW y \in snapshots', now.snap = y.id, now.filter = y.filter
       PROVE  ListingOf(row', y.boundary, y.filter) = now.list
  <2>1. CASE now = page
    <3>1. Same(y, snap)
      BY <1>3, <1>4, <1>15, <2>1 DEF Same
    <3>2. QED
      BY <1>4, <2>1, <3>1 DEF Same
  <2>2. CASE now = loading
    <3>1. y.id # NoSnapshot
      BY <1>3 DEF Table, Snapshot, NoSnapshot
    <3>2. now.snap = reader[r].snap /\ now.filter = reader[r].filter /\ now.list = reader[r].list
      BY <1>5, <1>15, <2>2, <3>1 DEF Shows
    <3>3. QED
      BY <1>14, <1>15, <3>2
  <2>3. QED
    BY <2>1, <2>2
<1>16. ListsKept'
  BY <1>8, <1>14, <1>15 DEF ListsKept
<1>17. QED
  BY <1>1, <1>9, <1>12, <1>13, <1>16 DEF IInv, PagingInv

LEMMA FreshPageKeeps ==
  ASSUME IInv, UNCHANGED <<row, revision, editor>>,
         NEW r \in Readers, NEW f \in Filters, NEW o, FreshPage(r, f, o)
  PROVE  IInv'
<1>1. PICK snap \in Current(f) :
        /\ nextId' = IF snap.id = nextId THEN nextId + 1 ELSE nextId
        /\ ReadPage(r, f, snap, o, Listing(snap.boundary, f), Listing(snap.boundary, f))
  BY DEF FreshPage
<1>2. Boundary \in Nat /\ nextId \in Nat \ {0} /\ revision \in Nat
  BY BoundaryLargest DEF IInv, RowsInv, Numbers
<1>3. /\ snap \in Snapshot /\ snap.boundary = Boundary /\ snap.filter = f
      /\ snap \in snapshots \/ snap.id = nextId
  <2>1. CASE ByKey(f) # {}
    BY <2>1, <1>1 DEF Current, ByKey, IInv, PagingInv, Snapshots, Table
  <2>2. CASE ByKey(f) = {}
    BY <2>2, <1>1, <1>2 DEF Current, Snapshot
  <2>3. QED
    BY <2>1, <2>2
<1>4. snap.id < nextId' /\ nextId <= nextId' /\ nextId' \in Nat
  <2>1. snap.id \in Nat /\ (snap.id < nextId \/ snap.id = nextId)
    BY <1>2, <1>3 DEF Snapshot, IInv, PagingInv, Snapshots
  <2>2. QED
    BY <1>1, <1>2, <2>1
<1>5. Listing(snap.boundary, f) = ListingOf(row, snap.boundary, snap.filter)
  BY <1>3, ListingIs
<1>6. snap.boundary <= Boundary
  BY <1>2, <1>3
<1>7. ReadPage(r, snap.filter, snap, o, Listing(snap.boundary, f), Listing(snap.boundary, f))
  BY <1>1, <1>3
<1>8. QED
  BY <1>3, <1>4, <1>5, <1>6, <1>7, ReadPageKeeps

LEMMA LaterPageKeeps ==
  ASSUME IInv, UNCHANGED <<row, revision, editor>>, NEW r \in Readers, NEW o, LaterPage(r, o)
  PROVE  IInv'
<1> DEFINE found == {snap \in ById(reader[r].snap) : snap.filter = reader[r].filter}
<1>1. nextId' = nextId /\ nextId \in Nat \ {0}
  BY DEF LaterPage, IInv, RowsInv, Numbers
<1>2. CASE reader' = [reader EXCEPT ![r] = StartAgain(r)] /\ UNCHANGED snapshots
  <2>1. Browsers
    BY DEF IInv, PagingInv
  <2>2. Shows(StartAgain(r), reader[r])
    BY <2>1, LoadingShows DEF StartAgain
  <2>3. ShowAsBefore
    BY <1>2, <2>1, <2>2, LoadShows
  <2>4. RowsInv' /\ PagingInv'
    BY <1>1, <1>2, <2>3, OnlyEditors
  <2>5. Edits'
    BY <1>1, OnlyPages
  <2>6. QED
    BY <2>4, <2>5 DEF IInv
<1>3. ASSUME NEW snap \in found,
             ReadPage(r, snap.filter, snap, o, Listing(snap.boundary, snap.filter), reader[r].list)
      PROVE  IInv'
  <2>1. snap \in snapshots /\ snap.id = reader[r].snap /\ snap.filter = reader[r].filter
    BY DEF ById
  <2>2. /\ snap \in Snapshot /\ snap.id < nextId /\ snap.boundary <= Boundary
        /\ ListingOf(row, snap.boundary, snap.filter) = reader[r].list
    BY <2>1 DEF IInv, PagingInv, Snapshots, Table, ListsKept
  <2>3. Listing(snap.boundary, snap.filter) = reader[r].list
    BY <2>2, ListingIs
  <2>4. nextId' \in Nat /\ nextId <= nextId' /\ snap.id < nextId'
    BY <1>1, <2>2
  <2>5. ReadPage(r, snap.filter, snap, o, reader[r].list, reader[r].list)
    BY <1>3, <2>3
  <2> HIDE DEF found
  <2>6. QED
    BY <2>1, <2>2, <2>4, <2>5, ReadPageKeeps
<1>4. QED
  BY <1>2, <1>3 DEF LaterPage

LEMMA PageKeeps ==
  ASSUME IInv, UNCHANGED <<row, revision, editor>>, NEW r \in Readers, NEW o, Page(r, o)
  PROVE  IInv'
<1>1. reader[r].filter \in Filters
  BY DEF IInv, PagingInv, Browsers
<1>2. ASSUME FreshPage(r, reader[r].filter, o) PROVE IInv'
  BY <1>1, <1>2, FreshPageKeeps
<1>3. ASSUME LaterPage(r, o) PROVE IInv'
  BY <1>3, LaterPageKeeps
<1>4. QED
  BY <1>2, <1>3 DEF Page

LEMMA FieldsReopened ==
  ASSUME NEW old, Fields(old)
  PROVE  [old EXCEPT !.pc = "open", !.next = 0] =
           [pc |-> "open", filter |-> old.filter, snap |-> old.snap, offset |-> old.offset,
            page |-> old.page, more |-> old.more, list |-> old.list, next |-> 0]
<1> DEFINE now == [old EXCEPT !.pc = "open", !.next = 0]
<1>1. now = [z \in DOMAIN old |-> IF z = "pc" THEN "open" ELSE IF z = "next" THEN 0 ELSE old[z]]
  OBVIOUS
<1> HIDE DEF now
<1>2. now = [pc |-> "open", filter |-> old.filter, snap |-> old.snap, offset |-> old.offset,
             page |-> old.page, more |-> old.more, list |-> old.list, next |-> 0]
  BY <1>1 DEF Fields
<1>3. QED
  BY <1>2 DEF now

(* A load fails: the browser shows what it showed.                         *)
LEMMA LoadFailsKeeps == ASSUME IInv, NEW r \in Readers, LoadFails(r) PROVE IInv'
<1> DEFINE old == reader[r]
           now == [old EXCEPT !.pc = "open", !.next = 0]
<1>1. Browsers /\ nextId \in Nat \ {0}
  BY DEF IInv, PagingInv, RowsInv, Numbers
<1>9. Fields(old)
  BY <1>1 DEF Browsers
<1>2. reader' = [reader EXCEPT ![r] = now] /\ UNCHANGED <<row, revision, editor, nextId, snapshots>>
  BY <1>1 DEF LoadFails, table, Browsers
<1> HIDE DEF old
<1>3. now = [pc |-> "open", filter |-> old.filter, snap |-> old.snap, offset |-> old.offset,
             page |-> old.page, more |-> old.more, list |-> old.list, next |-> 0]
  BY <1>9, FieldsReopened
<1> HIDE DEF now
<1>4. Shows(now, reader[r])
  BY <1>3 DEF Shows, Fields, old
<1>5. ShowAsBefore
  BY <1>1, <1>2, <1>4, LoadShows
<1>6. RowsInv' /\ PagingInv'
  BY <1>2, <1>5, OnlyEditors
<1>7. Edits'
  BY <1>1, <1>2, OnlyPages
<1>8. QED
  BY <1>6, <1>7 DEF IInv

LEMMA PagesKeep ==
  ASSUME IInv, NEW r \in Readers,
         \/ \E f \in Filters : Open(r, f)
         \/ NextPage(r) \/ Load(r) \/ LoadFails(r) \/ Reload(r)
  PROVE  IInv'
<1>1. ASSUME NEW f \in Filters, Open(r, f) PROVE IInv'
  BY <1>1, FreshPageKeeps DEF Open, table
<1>2. ASSUME NextPage(r) PROVE IInv'
  BY <1>2, PageKeeps DEF NextPage, table
<1>3. ASSUME Load(r) PROVE IInv'
  BY <1>3, PageKeeps DEF Load, table
<1>4. ASSUME Reload(r) PROVE IInv'
  <2>1. UNCHANGED <<row, revision, editor>> /\ \E o : Page(r, o)
    BY <1>4 DEF Reload, table
  <2>2. QED
    BY <2>1, PageKeeps
<1>5. QED
  BY <1>1, <1>2, <1>3, <1>4, LoadFailsKeeps

LEMMA OpenEditorKeeps ==
  ASSUME IInv, NEW e \in Readers, NEW s \in Sales, OpenEditor(e, s)
  PROVE  IInv'
<1> DEFINE new == [pc |-> "editing", sale |-> s, note |-> row[s].note,
                   rev |-> row[s].rev, erased |-> FALSE]
<1>1. /\ editor' = [editor EXCEPT ![e] = new] /\ row[s] # None
      /\ UNCHANGED <<row, revision, nextId, snapshots, reader>>
  BY DEF OpenEditor, table
<1>2. RowsInv' /\ PagingInv'
  BY <1>1, ShowUnchanged, OnlyEditors DEF IInv, PagingInv
<1>3. row[s] \in Row
  BY <1>1 DEF IInv, RowsInv, RowTypes
<1>4. new \in EditorRow
  BY <1>3 DEF Row, EditorRow
<1>5. ReadBefore(new)
  <2>1. row[s].rev \in Nat
    BY <1>3 DEF Row
  <2>2. QED
    BY <1>1, <2>1 DEF ReadBefore
<1>6. new.sale \in Sales
  OBVIOUS
<1> HIDE DEF new
<1>7. /\ editor' \in [Readers -> EditorRow] /\ editor'[e] = new
      /\ \A d \in Readers : d # e => editor'[d] = editor[d]
  BY <1>1, <1>4 DEF IInv, Edits
<1>8. ASSUME NEW d \in Readers, editor'[d].pc = "editing"
      PROVE  editor'[d].sale \in Sales /\ (editor'[d].erased \/ ReadBefore(editor[d])')
  BY <1>1, <1>5, <1>6, <1>7, <1>8 DEF IInv, Edits, ReadBefore
<1>9. Edits'
  BY <1>7, <1>8 DEF Edits
<1>10. QED
  BY <1>2, <1>9 DEF IInv

-----------------------------------------------------------------------------
(***************************************************************************)
(* The first state, and every step.                                        *)
(***************************************************************************)

LEMMA InitIInv == ASSUME Init PROVE IInv
<1>1. row = [s \in Sales |->
               IF s \in Known
               THEN [rowid |-> Cardinality({k \in Known : k <= s}),
                     ts |-> 1, tag |-> KnownTag, note |-> Empty, rev |-> 0]
               ELSE None]
  BY DEF Init
<1> DEFINE upTo(s) == {k \in Known : k <= s}
           first(s) == [rowid |-> Cardinality(upTo(s)), ts |-> 1, tag |-> KnownTag,
                        note |-> Empty, rev |-> 0]
<1>2. IsFiniteSet(Known) /\ Cardinality(Known) \in Nat
  BY FS_Subset, FS_CardinalityType
<1>3. ASSUME NEW s \in Known
      PROVE  Cardinality(upTo(s)) \in Nat \ {0} /\ Cardinality(upTo(s)) <= Cardinality(Known)
  <2>1. upTo(s) \subseteq Known /\ s \in upTo(s)
    OBVIOUS
  <2>2. IsFiniteSet(upTo(s)) /\ Cardinality(upTo(s)) <= Cardinality(Known)
    BY <1>2, <2>1, FS_Subset
  <2>3. Cardinality(upTo(s)) \in Nat /\ (Cardinality(upTo(s)) = 0 <=> upTo(s) = {})
    BY <2>2, FS_CardinalityType, FS_EmptySet
  <2> HIDE DEF upTo
  <2>4. QED
    BY <2>1, <2>2, <2>3
<1>4. row = [s \in Sales |-> IF s \in Known THEN first(s) ELSE None]
  BY <1>1
<1> HIDE DEF upTo
<1>5. ASSUME NEW s \in Known
      PROVE  first(s) \in Row /\ first(s).rowid \in Nat /\ first(s).rowid <= Cardinality(Known)
  BY <1>3, FilterKinds, FirstTag DEF Row, Times
<1> HIDE DEF first
<1>6. RowTypes
  BY <1>4, <1>5 DEF RowTypes
<1>7. Bounded
  <2>1. \A s \in Present : s \in Known /\ row[s] = first(s)
    BY <1>4 DEF Present
  <2>2. \A k \in RowIds : k <= Cardinality(Known)
    BY <1>5, <2>1 DEF RowIds
  <2>3. QED
    BY <1>2, <2>2 DEF Bounded
<1>8. /\ revision = 0 /\ nextId = 1 /\ snapshots = {}
      /\ reader = [r \in Readers |-> Closed] /\ editor = [e \in Readers |-> NoEdit]
  BY DEF Init
<1>9. Numbers
  BY <1>8 DEF Numbers
<1>10. IsFiniteSet({}) /\ Cardinality({}) = 0
  BY FS_EmptySet
<1>11. Snapshots
  BY <1>8, <1>10 DEF Snapshots, Table, Distinct
<1>12. \A r \in Readers : reader[r] = Closed
  BY <1>8
<1>13. Browsers /\ ListsKept
  <2>1. Fields(Closed) /\ Closed.filter = Everything /\ Closed.snap = 0
    BY DEF Closed, Fields, NoSnapshot
  <2>2. QED
    BY <1>8, <1>12, <2>1, FilterKinds DEF Browsers, ListsKept
<1>14. PagesExact
  <2>1. Len(<<>>) = 0 /\ ~ (0 + PageSize < 0) /\ SubSeq(<<>>, 0 + 1, 0) = <<>>
    OBVIOUS
  <2>2. Slice(<<>>, 0) = <<>>
    BY <2>1 DEF Slice
  <2>3. QED
    BY <1>12, <2>1, <2>2 DEF PagesExact, Closed
<1>15. Edits
  BY <1>8, NoEditTypes DEF Edits
<1>16. QED
  BY <1>6, <1>7, <1>9, <1>11, <1>13, <1>14, <1>15 DEF IInv, RowsInv, PagingInv

LEMMA NextIInv == ASSUME IInv, [Next]_vars PROVE IInv'
<1>1. ASSUME NEW s \in Sales, NEW t \in Times, NEW g \in Tags, Upsert(s, t, g) PROVE IInv'
  BY <1>1, UpsertKeeps
<1>2. CASE Erase
  BY <1>2, EraseKeeps
<1>3. CASE Expire
  BY <1>3, ExpireKeeps
<1>4. ASSUME NEW r \in Readers,
             \/ \E f \in Filters : Open(r, f)
             \/ NextPage(r) \/ Load(r) \/ LoadFails(r) \/ Reload(r)
      PROVE  IInv'
  BY <1>4, PagesKeep
<1>5. ASSUME NEW e \in Readers, NEW s \in Sales, OpenEditor(e, s) PROVE IInv'
  BY <1>5, OpenEditorKeeps
<1>6. ASSUME NEW e \in Readers, NEW n \in Notes, SaveNote(e, n) PROVE IInv'
  BY <1>6, SaveNoteKeeps
<1>7. CASE UNCHANGED vars
  <2>1. RowsInv' /\ PagingInv'
    BY <1>7, ShowUnchanged, OnlyEditors DEF vars, table, IInv, PagingInv
  <2>2. Edits'
    BY <1>7 DEF vars, table, IInv, Edits, ReadBefore
  <2>3. QED
    BY <2>1, <2>2 DEF IInv
<1>8. QED
  BY <1>1, <1>2, <1>3, <1>4, <1>5, <1>6, <1>7 DEF Next

(* The invariant, as of every reachable state.                             *)
THEOREM Invariant == Spec => []IInv
<1>1. Init => IInv
  BY InitIInv
<1>2. IInv /\ [Next]_vars => IInv'
  BY NextIInv
<1>3. QED
  BY <1>1, <1>2, PTL DEF Spec

(* Rows, numbers and snapshots have their types; there are never more      *)
(* than MaxSnapshots snapshots, and no two have an id in common            *)
(* (transaction_feed_snapshots and its pruning).                           *)
THEOREM TypeCorrect == Spec => []TypeOK
<1>1. IInv => TypeOK
  BY DEF IInv, RowsInv, RowTypes, Numbers, PagingInv, Snapshots, Table, Distinct, TypeOK
<1>2. QED
  BY <1>1, Invariant, PTL

(* Every page a browser shows is a part of the list that its snapshot was  *)
(* opened on: turning pages with a snapshot neither repeats nor skips a    *)
(* sale, and another list is read only after the snapshot was given up     *)
(* (list_transactions_page and loadTransactions).                          *)
THEOREM PagingIsExact == Spec => []PagesExact
<1>1. IInv => PagesExact
  BY DEF IInv, PagingInv
<1>2. QED
  BY <1>1, Invariant, PTL

(* set_transaction_note replaces a note only when the editor was opened on *)
(* that very note, or the sale was erased under it.                        *)
THEOREM NotesNotLost == Spec => NoUnseenOverwrite
<1> DEFINE Seen ==
      \A r \in Readers :
        LET s == editor[r].sale IN
        (editor[r].pc = "editing" /\ editor'[r].pc = "idle" /\ row'[s] # row[s])
          => row[s].note = editor[r].note \/ editor[r].erased
<1>1. ASSUME IInv, [Next]_vars, NEW e \in Readers,
             editor[e].pc = "editing", editor'[e].pc = "idle",
             row'[editor[e].sale] # row[editor[e].sale]
      PROVE  row[editor[e].sale].note = editor[e].note \/ editor[e].erased
  <2>1. editor[e].erased \/ ReadBefore(editor[e])
    BY <1>1 DEF IInv, Edits
  <2>2. ~ (editor' = editor)
    BY <1>1
  <2>3. ASSUME NEW n \in Notes, SaveNote(e, n)
        PROVE  row[editor[e].sale].note = editor[e].note \/ editor[e].erased
    <3>1. row[editor[e].sale].rev = editor[e].rev
      BY <1>1, <2>3 DEF SaveNote
    <3>2. QED
      BY <2>1, <3>1 DEF ReadBefore
  <2>4. ASSUME NEW d \in Readers, NEW n \in Notes, SaveNote(d, n) PROVE d = e
    BY <1>1, <2>4 DEF SaveNote, IInv, Edits
  <2>5. ~ Erase
    <3>1. SUFFICES ASSUME Erase PROVE editor'[e].pc = editor[e].pc
      BY <1>1
    <3> DEFINE was == editor[e].pc = "editing"
    <3>2. editor'[e] = [editor[e] EXCEPT !.erased = was] /\ editor[e] \in EditorRow
      BY <1>1, <3>1 DEF Erase, IInv, Edits
    <3> HIDE DEF was
    <3>3. QED
      BY <3>2 DEF EditorRow
  <2>6. ASSUME NEW d \in Readers, NEW s \in Sales PROVE ~ OpenEditor(d, s)
    BY <1>1 DEF OpenEditor, IInv, Edits
  <2>7. /\ ~ Expire /\ ~ UNCHANGED vars
        /\ \A s \in Sales, t \in Times, g \in Tags : ~ Upsert(s, t, g)
        /\ \A r \in Readers :
             /\ ~ NextPage(r) /\ ~ Load(r) /\ ~ LoadFails(r) /\ ~ Reload(r)
             /\ \A f \in Filters : ~ Open(r, f)
    BY <2>2 DEF Expire, Upsert, NextPage, Load, LoadFails, Reload, Open, vars
  <2>8. QED
    BY <1>1, <2>3, <2>4, <2>5, <2>6, <2>7 DEF Next
<1>2. IInv /\ [Next]_vars => Seen
  BY <1>1
<1>3. IInv /\ [Next]_vars => [Seen]_vars
  BY <1>2
<1> HIDE DEF Seen
<1>4. Spec => [][Seen]_vars
  BY <1>3, Invariant, PTL DEF Spec
<1>5. QED
  BY <1>4, PTL DEF Seen, NoUnseenOverwrite
=============================================================================
