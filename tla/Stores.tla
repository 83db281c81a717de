-------------------------------- MODULE Stores --------------------------------
(***************************************************************************)
(* The two in-memory stores every service is built on.                      *)
(*                                                                         *)
(* A keyed store (data/keyedStore.ts) is a function from the ids present    *)
(* to their records; an auto-numbered store (data/inMemoryStore.ts) is such *)
(* a function, rows, with the next id to hand out, next.  The insertion     *)
(* order of the underlying Map is not kept: only listings show it.          *)
(***************************************************************************)
EXTENDS Integers, FiniteSets

EmptyStore == [id \in {} |-> {}]

\* Map.set: adds the record, or overwrites the one with the same id.
Put(store, id, record) ==
  [i \in DOMAIN store \cup {id} |-> IF i = id THEN record ELSE store[i]]

\* replace / patch: nothing happens when the id is absent.
Update(store, id, record) ==
  IF id \in DOMAIN store THEN [store EXCEPT ![id] = record] ELSE store

\* Map.delete.
Drop(store, id) == [i \in DOMAIN store \ {id} |-> store[i]]

-----------------------------------------------------------------------------
\* Mutant: the next id is not advanced.
InsertKeepingNext(store, record) ==
  [rows |-> Put(store.rows, store.next, record), next |-> store.next]

\* Mutant: the id is the number of rows, plus one.
InsertAtSize(store, record) ==
  [rows |-> Put(store.rows, Cardinality(DOMAIN store.rows) + 1, record),
   next |-> store.next + 1]

\* The auto-numbered store: an id is handed out once between two resets.
Insert(store, record) ==
  [rows |-> Put(store.rows, store.next, record), next |-> store.next + 1]

UpdateRow(store, id, record) ==
  [store EXCEPT !.rows = Update(store.rows, id, record)]

DropRow(store, id) == [store EXCEPT !.rows = Drop(store.rows, id)]

\* reset: the seed rows, numbering resumed after the largest of their ids.
ResetRows(rows) ==
  [rows |-> rows,
   next |-> 1 + CHOOSE m \in DOMAIN rows \cup {0} :
                  \A i \in DOMAIN rows \cup {0} : i <= m]

-----------------------------------------------------------------------------
\* Array.sort: the members of a set in an order in which of any two one comes first.
Sorted(S, ComesFirst(_, _)) ==
  CHOOSE seq \in [1 .. Cardinality(S) -> S] :
    \A i, j \in 1 .. Cardinality(S) : i < j => ComesFirst(seq[i], seq[j])
=============================================================================
