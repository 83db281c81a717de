------------------------------- MODULE PageWalk -------------------------------
(***************************************************************************)
(* A client that reads a listing page by page (applyListQuery and the       *)
(* pagination envelope) while other clients create, change and delete rows. *)
(*                                                                         *)
(* Every collection is listed this way: parse the query string, filter,     *)
(* sort, cut out one page.  The order is the store's (oldest first: an id   *)
(* never moves in the Map), a sort field up or down, or, for files, newest  *)
(* first.  A row keeps a field to filter by and one, rank, to sort by.      *)
(*                                                                         *)
(* GET /search is a listing too: of all resources, one after the other, so  *)
(* that a new row comes in the middle.  There the store stands for all the  *)
(* stores, kind for a row's resource, the filter for the rows whose text    *)
(* contains the term; it cannot be sorted.                                  *)
(*                                                                         *)
(* A query parameter is the sequence of the values it was given: none when  *)
(* it is absent, several when it is repeated.  A value of page or limit is  *)
(* the number Number() makes of it, or NotANumber.                          *)
(***************************************************************************)
EXTENDS Stores, SequencesExt

CONSTANTS
  Kind,              \* values of a field to filter by; in a search, resources in order
  Rank,              \* values of the field a listing sorts by
  RawQueries,        \* the query strings clients send
  NotANumber,        \* a page or limit that is no integer
  MaxId              \* bound: ids handed out

Row == [kind : Kind, rank : Rank]

Order == {"oldest", "newest", "up", "down", "resource"}
RawNumber == Seq(Int \cup {NotANumber})
RawSort == Seq([field : STRING, descending : BOOLEAN])

\* byDefault is the collection's own order; filter, the rows let through; term, the
\* values of q.
RawQuery == [byDefault : {"oldest", "newest", "resource"}, filter : SUBSET Row,
             term : Seq({"", "text"}), page : RawNumber, limit : RawNumber, sort : RawSort]

ASSUME FieldAssumption == Kind \subseteq Nat /\ Rank \subseteq Nat /\ MaxId \in Nat
ASSUME QueryAssumption == RawQueries \subseteq RawQuery /\ NotANumber \notin Int

VARIABLES
  store,             \* the collection
  walk               \* the client: its query, next page, and what it has seen

vars == <<store, walk>>

\* start, inserted, removed and changed remember what went on during the walk.
Idle == [on |-> FALSE]
Walk == [on : {TRUE}, query : RawQueries, page : Nat \ {0}, more : BOOLEAN,
         seen : Seq(1 .. MaxId), start : Seq(1 .. MaxId),
         inserted : BOOLEAN, removed : BOOLEAN, changed : BOOLEAN]

-----------------------------------------------------------------------------
(* The query string. *)

\* The last of several values wins.
LastQueryValue(raw) == Last(raw)

ParsePositiveInt(raw, default) == IF raw = <<>> THEN default ELSE LastQueryValue(raw)

ParseSort(raw, byDefault) ==
  IF raw = <<>> THEN byDefault
  ELSE IF LastQueryValue(raw).descending THEN "down" ELSE "up"

IsSearch(raw) == raw.byDefault = "resource"

\* A search needs a term, and offers no field to sort by.
ValidSearch(raw) == raw.term # <<>> /\ LastQueryValue(raw.term) # "" /\ raw.sort = <<>>

\* Every parameter is absent or, in its last value, valid; anything else is a 400.
ValidQuery(raw) ==
  /\ IsSearch(raw) => ValidSearch(raw)
  /\ raw.page # <<>> => LastQueryValue(raw.page) \in Nat \ {0}
  /\ raw.limit # <<>> => LastQueryValue(raw.limit) \in 1 .. 100
  /\ raw.sort # <<>> => LastQueryValue(raw.sort).field = "rank"

ParseListQuery(raw) ==
  [page |-> ParsePositiveInt(raw.page, 1),
   limit |-> ParsePositiveInt(raw.limit, 20),
   order |-> ParseSort(raw.sort, raw.byDefault),
   filter |-> raw.filter]

-----------------------------------------------------------------------------
(* The pipeline. *)

\* Mutant: a descending sort turns ties around.
TiesTurned(i, j, order) == IF order = "down" THEN i > j ELSE i < j

\* The sort is stable, in both directions: ties stay in the order of the store.
Ties(i, j, order) == i < j

\* collectResults: users, customers, products, and so on, each in its own order.
ResourceFirst(i, j) ==
  LET a == store.rows[i].kind
      b == store.rows[j].kind
  IN  a < b \/ (a = b /\ i < j)

Precedes(i, j, order) ==
  LET a == store.rows[i].rank
      b == store.rows[j].rank
  IN CASE order = "oldest" -> i < j
       [] order = "newest" -> i > j
       [] order = "up" -> a < b \/ (a = b /\ Ties(i, j, order))
       [] order = "down" -> a > b \/ (a = b /\ Ties(i, j, order))
       [] order = "resource" -> ResourceFirst(i, j)

Matching(filter) == {i \in DOMAIN store.rows : store.rows[i] \in filter}

Listing(query) ==
  Sorted(Matching(query.filter), LAMBDA i, j : Precedes(i, j, query.order))

\* Array.slice stops at the end of the array.
Slice(seq, from, to) == SubSeq(seq, from, IF to > Len(seq) THEN Len(seq) ELSE to)

\* Mutants: pages counted from 0, and pages that overlap by one row.
PageFromZero(listing, page, limit) ==
  Slice(listing, page * limit + 1, (page + 1) * limit)
PageOverlapping(listing, page, limit) ==
  Slice(listing, (page - 1) * limit + 1, page * limit + 1)

Page(listing, page, limit) == Slice(listing, (page - 1) * limit + 1, page * limit)

TotalPages(total, limit) == (total + limit - 1) \div limit

\* Mutant: the last page says there is another.
HasNextInclusive(page, total, limit) == page <= TotalPages(total, limit)

HasNext(page, total, limit) == page < TotalPages(total, limit)

-----------------------------------------------------------------------------
(* The client. *)

\* The walk begins at the page asked for; it is a whole one from the first page.
StartWalk(raw) ==
  LET query == ParseListQuery(raw) IN
  /\ ~ walk.on
  /\ ValidQuery(raw)
  /\ walk' = [on |-> TRUE, query |-> raw, page |-> query.page, more |-> TRUE,
              seen |-> <<>>, start |-> Listing(query),
              inserted |-> FALSE, removed |-> FALSE, changed |-> FALSE]
  /\ UNCHANGED store

RefuseQuery(raw) ==
  /\ ~ walk.on
  /\ ~ ValidQuery(raw)
  /\ UNCHANGED vars

FetchPage ==
  /\ walk.on /\ walk.more
  /\ LET query == ParseListQuery(walk.query)
         listing == Listing(query)
     IN walk' = [walk EXCEPT !.seen = @ \o Page(listing, walk.page, query.limit),
                             !.more = HasNext(walk.page, Len(listing), query.limit),
                             !.page = @ + 1]
  /\ UNCHANGED store

EndWalk ==
  /\ walk.on
  /\ walk' = Idle
  /\ UNCHANGED store

(* The other clients. *)

Note(insert, remove, change) ==
  walk' = IF walk.on
          THEN [walk EXCEPT !.inserted = @ \/ insert, !.removed = @ \/ remove,
                            !.changed = @ \/ change]
          ELSE walk

CreateRow(row) ==
  /\ store.next <= MaxId
  /\ store' = Insert(store, row)
  /\ Note(TRUE, FALSE, FALSE)

ChangeRow(id, row) ==
  /\ store' = UpdateRow(store, id, row)
  /\ Note(FALSE, FALSE, TRUE)

DeleteRow(id) ==
  /\ store' = DropRow(store, id)
  /\ Note(FALSE, TRUE, FALSE)

Init ==
  /\ store = ResetRows(EmptyStore)
  /\ walk = Idle

Next ==
  \/ \E raw \in RawQueries : StartWalk(raw) \/ RefuseQuery(raw)
  \/ FetchPage
  \/ EndWalk
  \/ \E row \in Row : CreateRow(row)
  \/ \E id \in DOMAIN store.rows : DeleteRow(id) \/ \E row \in Row : ChangeRow(id, row)

Spec == Init /\ [][Next]_vars

-----------------------------------------------------------------------------
(* Properties. *)

AskedPage == ParseListQuery(walk.query).page
AskedLimit == ParseListQuery(walk.query).limit

\* Ids stay below the next one, pages have a size, and no client is sent past the
\* last page there can be.
TypeOK ==
  /\ store.next \in 1 .. MaxId + 1
  /\ DOMAIN store.rows \subseteq 1 .. store.next - 1
  /\ \A i \in DOMAIN store.rows : store.rows[i] \in Row
  /\ walk = Idle \/ walk \in Walk
  /\ walk.on => AskedLimit \in 1 .. 100
  /\ walk.on /\ walk.more /\ walk.page # AskedPage
       => walk.page \in 1 .. TotalPages(MaxId, AskedLimit)

Finished == walk.on /\ ~ walk.more
FromTheTop == AskedPage = 1
Unchanged == ~ walk.changed
Seen == ToSet(walk.seen)

\* The order a query string asks for: what its last sort says, if it has one.
OrderAsked(raw) ==
  IF raw.sort = <<>> THEN raw.byDefault
  ELSE IF raw.sort[Len(raw.sort)].descending THEN "down" ELSE "up"

\* The rows of a store in the order a query asks for, said without sorting: each
\* row once, no row before one it should follow, ties oldest first.
IsListing(seq, raw) ==
  /\ ToSet(seq) = Matching(raw.filter)
  /\ Len(seq) = Cardinality(Matching(raw.filter))
  /\ \A i, j \in DOMAIN seq : i < j =>
       LET a == store.rows[seq[i]].rank
           b == store.rows[seq[j]].rank
           order == OrderAsked(raw)
       IN CASE order = "oldest" -> seq[i] < seq[j]
            [] order = "newest" -> seq[i] > seq[j]
            [] order = "up" -> a <= b /\ (a = b => seq[i] < seq[j])
            [] order = "down" -> a >= b /\ (a = b => seq[i] < seq[j])
            [] order = "resource" ->
                 LET first == store.rows[seq[i]].kind
                     second == store.rows[seq[j]].kind
                 IN  first <= second /\ (first = second => seq[i] < seq[j])

\* When nobody interferes, the pages put together are the listing, whatever the
\* filter, the order and the page size, and however often each was given.
QuietWalkIsTheListing ==
  Finished /\ FromTheTop /\ ~ walk.inserted /\ ~ walk.removed /\ Unchanged
    => IsListing(walk.seen, walk.query)

\* Rows created during a walk may be missed, but they push no older row past
\* the client: as long as nothing is deleted or changed, all that was there
\* when it began is seen.
NothingSkippedUnlessRemoved ==
  Finished /\ FromTheTop /\ ~ walk.removed /\ Unchanged => ToSet(walk.start) \subseteq Seen

\* Rows deleted during a walk may pull others past the client, but none is shown
\* twice: that takes a row created ahead of the client, which oldest-first
\* listings do not have, but a search does.
NothingRepeatedUnlessInserted ==
  walk.on /\ Unchanged /\ (walk.inserted => OrderAsked(walk.query) = "oldest")
    => Cardinality(Seen) = Len(walk.seen)
=============================================================================
