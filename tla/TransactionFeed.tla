--------------------------- MODULE TransactionFeed ---------------------------
(***************************************************************************)
(* The transaction feed: browsers page through the sales, newest first,    *)
(* while polls insert and change them, administrators edit notes and a     *)
(* switch of the account deletes every row.  A page is a query bounded by  *)
(* the row id that was the largest when the first page was read; snapshots *)
(* of that boundary are kept until a change would shift their pages.       *)
(*                                                                         *)
(* Of a sale only its time, one searched column (status, location, device  *)
(* or last four digits) and its note are kept.  Whether an update is stale *)
(* is a matter of SquareSync: only accepted ones appear here.              *)
(***************************************************************************)
EXTENDS Naturals, FiniteSets, Sequences, SequencesExt

CONSTANTS
  Sales,          \* payment ids, which break ties of time
  Tags,           \* values of the searched column
  Notes,          \* texts of notes, the empty one among them
  Filters,        \* filters the browsers use: Everything, a tag or a note
  Everything,
  Readers,        \* browsers, each with at most one note editor open
  None,
  PageSize,       \* rows shown; the browser asks for one more
  MaxSnapshots,   \* snapshots kept
  Empty,          \* the note of a new sale
  Known, KnownTag, \* the sales in the database at the start, and their tag
  MaxTime,        \* bounds: times of sales;
  MaxSteps        \* changes, notes saved, filters changed, pages read again or lost

ASSUME SalesOrdered == Sales \subseteq Nat /\ IsFiniteSet(Sales) /\ Known \subseteq Sales
ASSUME FeedSizes == PageSize \in Nat \ {0} /\ MaxSnapshots \in Nat \ {0}
ASSUME FeedBounds == MaxTime \in Nat \ {0} /\ MaxSteps \in Nat
ASSUME FilterKinds ==
  /\ Everything \in Filters /\ Filters \subseteq {Everything} \union Tags \union Notes
  /\ Empty \in Notes \ Filters
ASSUME FirstTag == KnownTag \in Tags

Times == 1 .. MaxTime
Row == [rowid : Nat \ {0}, ts : Times, tag : Tags, note : Notes, rev : Nat]

ASSUME NoRow == None \notin Row

VARIABLES
  row,            \* transactions, None where there is no row
  revision,       \* transaction_feed_state.order_revision
  nextId,         \* AUTOINCREMENT of transaction_feed_snapshots
  snapshots,      \* transaction_feed_snapshots
  reader,         \* what each browser shows and is loading; ghost: the list of the
                  \* snapshot its page was read from
  editor,         \* the note editor open in each browser
  steps

table == <<row, revision>>
vars == <<table, nextId, snapshots, reader, editor, steps>>

(* transactionSnapshot is null.                                            *)
NoSnapshot == 0

Closed == [pc |-> "closed", filter |-> Everything, snap |-> NoSnapshot, offset |-> 0,
           page |-> <<>>, more |-> FALSE, list |-> <<>>, next |-> 0]
NoEdit == [pc |-> "idle", sale |-> None, note |-> Empty, rev |-> 0, erased |-> FALSE]

(* The program starts with some sales in its database.                      *)
Init ==
  /\ row = [s \in Sales |->
              IF s \in Known
              THEN [rowid |-> Cardinality({k \in Known : k <= s}),
                    ts |-> 1, tag |-> KnownTag, note |-> Empty, rev |-> 0]
              ELSE None]
  /\ revision = 0 /\ nextId = 1 /\ snapshots = {}
  /\ reader = [r \in Readers |-> Closed]
  /\ editor = [r \in Readers |-> NoEdit]
  /\ steps = 0

(***************************************************************************)
(* Queries.                                                                *)
(***************************************************************************)

Present == {s \in Sales : row[s] # None}
RowIds == {row[s].rowid : s \in Present}
Boundary == IF RowIds = {} THEN 0 ELSE CHOOSE n \in RowIds : \A k \in RowIds : k <= n

Matching(boundary, filter) ==
  {s \in Present : row[s].rowid <= boundary /\ filter \in {Everything, row[s].tag, row[s].note}}

(* ORDER BY ts_ms DESC, id DESC: a page shows times and ids.               *)
Newer(x, y) == x[1] > y[1] \/ (x[1] = y[1] /\ x[2] > y[2])
Ordered(pairs) == SetToSortSeq(pairs, Newer)
Listing(boundary, filter) == Ordered({<<row[s].ts, s>> : s \in Matching(boundary, filter)})

Slice(list, offset) ==
  SubSeq(list, offset + 1, IF offset + PageSize < Len(list) THEN offset + PageSize ELSE Len(list))

(***************************************************************************)
(* Snapshots: found by id or by their key, refreshed, capped.  Of          *)
(* last_accessed_at the order matters: the age of a row is the number of   *)
(* rows used after it.                                                     *)
(***************************************************************************)

ById(id) == {snap \in snapshots : snap.id = id}
ByKey(filter) ==
  {snap \in snapshots : /\ snap.revision = revision
                        /\ snap.boundary = Boundary
                        /\ snap.filter = filter}

(* What is left of the rows, in the same order.                            *)
Ranked(kept) ==
  {[snap EXCEPT !.age = Cardinality({other \in kept : other.age < snap.age})] : snap \in kept}

Others(snap) == Ranked({other \in snapshots : other.id # snap.id})

(* Mutation: nothing is evicted.                                           *)
AllKept(snap) ==
  {[other EXCEPT !.age = @ + 1] : other \in Others(snap)} \union {[snap EXCEPT !.age = 0]}

(* The snapshot just used comes first; MaxSnapshots - 1 others survive.    *)
Refreshed(snap) ==
  {[other EXCEPT !.age = @ + 1] : other \in {o \in Others(snap) : o.age < MaxSnapshots - 1}}
    \union {[snap EXCEPT !.age = 0]}

Filtered(snap) == snap.filter # Everything

(* Mutation: a sale that changes column stays where searches found it.     *)
OnlyRetimed(retimed, changed) == IF retimed THEN {} ELSE snapshots

(* What survives a change of a sale's time, or of what filters look at.    *)
Surviving(retimed, changed) ==
  IF retimed THEN {}
  ELSE IF changed THEN Ranked({snap \in snapshots : ~ Filtered(snap)})
  ELSE snapshots

(***************************************************************************)
(* Sales.                                                                  *)
(***************************************************************************)

(* upsert_payment accepts a payment: its effects on the feed.              *)
Upsert(s, t, g) ==
  LET new == row[s] = None
      retimed == ~ new /\ row[s].ts # t
      retagged == ~ new /\ row[s].tag # g
  IN  /\ steps < MaxSteps
      /\ new \/ retimed \/ retagged
      /\ row' = [row EXCEPT ![s] =
                   IF new
                   THEN [rowid |-> Boundary + 1, ts |-> t, tag |-> g, note |-> Empty, rev |-> 0]
                   ELSE [@ EXCEPT !.ts = t, !.tag = g]]
      /\ revision' = IF new \/ retimed THEN revision + 1 ELSE revision
      /\ snapshots' = Surviving(retimed, retagged)
      /\ steps' = steps + 1
      /\ UNCHANGED <<nextId, reader, editor>>

(* The account is switched: the trigger on transactions counts every       *)
(* deleted row, and row ids start anew.                                    *)
Erase ==
  /\ steps < MaxSteps
  /\ Present # {}
  /\ row' = [s \in Sales |-> None]
  /\ revision' = revision + Cardinality(Present)
  /\ snapshots' = {}
  /\ editor' = [r \in Readers |-> [editor[r] EXCEPT !.erased = editor[r].pc = "editing"]]
  /\ steps' = steps + 1
  /\ UNCHANGED <<nextId, reader>>

(***************************************************************************)
(* Pages.                                                                  *)
(***************************************************************************)

(* Twelve hours pass: the request that prunes expired snapshots looks its  *)
(* own up only afterwards, so nobody sees one expire later than this.      *)
Expire ==
  /\ steps < MaxSteps
  /\ \E oldest \in snapshots : snapshots' = {snap \in snapshots : snap.age < oldest.age}
  /\ steps' = steps + 1
  /\ UNCHANGED <<table, nextId, reader, editor>>

(* A page of a query's rows; ghost: the list of its snapshot.              *)
Shown(f, snap, offset, rows, list) ==
  [pc |-> "open", filter |-> f, snap |-> snap.id, offset |-> offset,
   page |-> Slice(rows, offset), more |-> offset + PageSize < Len(rows),
   list |-> list, next |-> 0]

(* What the browser is to load next; until then it shows what it has.      *)
Loading(r, snap, o) == [reader[r] EXCEPT !.pc = "load", !.snap = snap, !.next = o]

Before(o) == IF o > PageSize THEN o - PageSize ELSE 0

(* A page that turns out to be empty is not shown: the one before is read. *)
ReadPage(r, f, snap, o, rows, list) ==
  /\ snapshots' = Refreshed(snap)
  /\ reader' = [reader EXCEPT ![r] =
       IF o > 0 /\ Len(rows) <= o THEN Loading(r, reader[r].snap, Before(o))
       ELSE Shown(f, snap, o, rows, list)]

(* The snapshot of the present boundary, new or not.                       *)
Current(f) ==
  IF ByKey(f) # {} THEN ByKey(f)
  ELSE {[id |-> nextId, revision |-> revision, boundary |-> Boundary, filter |-> f, age |-> 0]}

(* A page without a snapshot, at whatever offset: of the list as it is now.*)
FreshPage(r, f, o) ==
  \E snap \in Current(f) :
    LET rows == Listing(snap.boundary, f)
    IN  /\ nextId' = IF snap.id = nextId THEN nextId + 1 ELSE nextId
        /\ ReadPage(r, f, snap, o, rows, rows)

(* Mutation: the browser stays where it is when its page is refused.       *)
StayOnPage(r) == reader[r]

StartAgain(r) == Loading(r, NoSnapshot, 0)

(* A page with a snapshot, which must still be there, with the same filter;*)
(* else 409, and the browser starts again.                                 *)
LaterPage(r, o) ==
  LET found == {snap \in ById(reader[r].snap) : snap.filter = reader[r].filter}
  IN  /\ UNCHANGED nextId
      /\ \/ /\ found = {}
            /\ reader' = [reader EXCEPT ![r] = StartAgain(r)]
            /\ UNCHANGED snapshots
         \/ \E snap \in found :
              LET rows == Listing(snap.boundary, snap.filter)
              IN  ReadPage(r, snap.filter, snap, o, rows, reader[r].list)

(* The browser sends the snapshot it has with every page but the first.    *)
Page(r, o) ==
  IF o = 0 \/ reader[r].snap = NoSnapshot THEN FreshPage(r, reader[r].filter, o)
  ELSE LaterPage(r, o)

(* The user opens the feed, which counts for no step, or another filter.   *)
Open(r, f) ==
  /\ steps < MaxSteps
  /\ FreshPage(r, f, 0)
  /\ steps' = IF reader[r].pc = "closed" THEN steps ELSE steps + 1
  /\ UNCHANGED <<table, editor>>

(* The browser asked for one row more than it shows.                       *)
NextPage(r) ==
  /\ reader[r].pc = "open" /\ reader[r].more
  /\ UNCHANGED <<table, editor, steps>>
  /\ Page(r, reader[r].offset + PageSize)

(* The load that a note, a refusal or an empty page asked for ...          *)
Load(r) ==
  /\ reader[r].pc = "load"
  /\ UNCHANGED <<table, editor, steps>>
  /\ Page(r, reader[r].next)

(* ... which may fail: the old page stays, perhaps without its snapshot.   *)
LoadFails(r) ==
  /\ steps < MaxSteps
  /\ reader[r].pc = "load"
  /\ reader' = [reader EXCEPT ![r].pc = "open", ![r].next = 0]
  /\ steps' = steps + 1
  /\ UNCHANGED <<table, nextId, snapshots, editor>>

(* The previous page, or the timer that reads the present one again.       *)
Reload(r) ==
  /\ steps < MaxSteps
  /\ reader[r].pc = "open"
  /\ \E o \in {reader[r].offset, Before(reader[r].offset)} : Page(r, o)
  /\ steps' = steps + 1
  /\ UNCHANGED <<table, editor>>

(***************************************************************************)
(* Notes.                                                                  *)
(***************************************************************************)

(* An administrator opens the editor of a sale the page shows.             *)
OpenEditor(r, s) ==
  /\ editor[r].pc = "idle" /\ row[s] # None
  /\ \E shown \in ToSet(reader[r].page) : shown[2] = s
  /\ editor' = [editor EXCEPT ![r] = [pc |-> "editing", sale |-> s, note |-> row[s].note,
                                       rev |-> row[s].rev, erased |-> FALSE]]
  /\ UNCHANGED <<table, nextId, snapshots, reader, steps>>

(* Mutation: the revision counts nothing.                                  *)
SameRevision(s) == row[s].rev

NextRevision(s) == row[s].rev + 1

(* set_transaction_note: 404, 409, nothing to do, or the new note.  But    *)
(* for the 404 the browser drops its snapshot and loads its page again.    *)
SaveNote(r, n) ==
  LET s == editor[r].sale
      accepted == row[s] # None /\ row[s].rev = editor[r].rev /\ row[s].note # n
  IN  /\ editor[r].pc = "editing"
      /\ steps < MaxSteps
      /\ editor' = [editor EXCEPT ![r] = NoEdit]
      /\ row' = IF accepted
                THEN [row EXCEPT ![s].note = n, ![s].rev = NextRevision(s)] ELSE row
      /\ snapshots' = IF accepted THEN Surviving(FALSE, TRUE) ELSE snapshots
      /\ reader' = IF row[s] = None THEN reader
                   ELSE [reader EXCEPT ![r] = Loading(r, NoSnapshot, reader[r].offset)]
      /\ steps' = steps + 1
      /\ UNCHANGED <<revision, nextId>>

Next ==
  \/ \E s \in Sales, t \in Times, g \in Tags : Upsert(s, t, g)
  \/ Erase \/ Expire
  \/ \E r \in Readers :
       \/ \E f \in Filters : Open(r, f)
       \/ NextPage(r) \/ Load(r) \/ LoadFails(r) \/ Reload(r)
       \/ \E s \in Sales : OpenEditor(r, s)
       \/ \E n \in Notes : SaveNote(r, n)

(* A user pages on, and the browser loads what it is to load.              *)
Spec ==
  /\ Init /\ [][Next]_vars
  /\ \A r \in Readers : WF_vars(NextPage(r)) /\ WF_vars(Load(r))

(***************************************************************************)
(* Properties.                                                             *)
(***************************************************************************)

(* Types; never more than MaxSnapshots snapshots, each with its own id.    *)
TypeOK ==
  /\ row \in [Sales -> Row \union {None}]
  /\ revision \in Nat /\ nextId \in Nat
  /\ Cardinality(snapshots) <= MaxSnapshots
  /\ \A snap, other \in snapshots : snap.id = other.id => snap = other
  /\ \A snap \in snapshots : snap.id < nextId

(* Whatever a browser shows is the part, at its offset, of one list: that  *)
(* of the sales there were when its snapshot was opened.  Turning pages    *)
(* with a snapshot in hand neither repeats nor skips a sale, whatever      *)
(* polls, notes, switches and other browsers do meanwhile; to read another *)
(* list a browser must have given its snapshot up, as it does after a      *)
(* refusal and after its own user's notes.                                 *)
PagesExact ==
  \A r \in Readers :
    /\ reader[r].page = Slice(reader[r].list, reader[r].offset)
    /\ reader[r].more <=> reader[r].offset + PageSize < Len(reader[r].list)

(* A note is replaced only by somebody who has read it, unless the row was *)
(* deleted, and its revisions started anew, since it was read.             *)
NoUnseenOverwrite ==
  [][\A r \in Readers :
       LET s == editor[r].sale IN
       (editor[r].pc = "editing" /\ editor'[r].pc = "idle" /\ row'[s] # row[s])
         => row[s].note = editor[r].note \/ editor[r].erased]_vars

(* Who keeps asking for the next page reaches the last one: changes and    *)
(* other readers send a browser back to the first page finitely often.     *)
ReadersFinish ==
  \A r \in Readers :
    reader[r].pc = "open" ~> (reader[r].pc = "open" /\ ~ reader[r].more)
=============================================================================
