----------------------------- MODULE MCPageWalk ------------------------------
(* Page walks on a small instance. *)
EXTENDS PageWalk

Up == [field |-> "rank", descending |-> FALSE]
Down == [field |-> "rank", descending |-> TRUE]
Unknown == [field |-> "colour", descending |-> FALSE]

Plain == [byDefault |-> "oldest", filter |-> Row, term |-> <<>>, page |-> <<>>,
          limit |-> <<2>>, sort |-> <<>>]

OfKind(kinds) == {row \in Row : row.kind \in kinds}
OfRank(ranks) == {row \in Row : row.rank \in ranks}

\* Every order with every filter, in pages of two.
Listings ==
  UNION {{[Plain EXCEPT !.filter = OfKind(kinds)],
          [Plain EXCEPT !.filter = OfKind(kinds), !.byDefault = "newest"],
          [Plain EXCEPT !.filter = OfKind(kinds), !.sort = <<Up>>],
          [Plain EXCEPT !.filter = OfKind(kinds), !.sort = <<Up, Down>>]} : kinds \in SUBSET Kind}

\* Searches that find some rows of every resource, or all of them.
Searches ==
  {[Plain EXCEPT !.byDefault = "resource", !.filter = OfRank(ranks), !.term = <<"text">>] :
     ranks \in SUBSET Rank}

Search == [Plain EXCEPT !.byDefault = "resource"]

\* Defaults, repeated values, a page past the end, and what must be refused.
Edges ==
  {[Plain EXCEPT !.limit = <<>>],
   [Plain EXCEPT !.limit = <<0, 1>>],
   [Plain EXCEPT !.page = <<NotANumber, 3>>],
   [Plain EXCEPT !.page = <<0>>],
   [Plain EXCEPT !.page = <<NotANumber>>],
   [Plain EXCEPT !.limit = <<2, 0>>],
   [Plain EXCEPT !.limit = <<101>>],
   [Plain EXCEPT !.sort = <<Up, Unknown>>],
   Search,
   [Search EXCEPT !.term = <<"text", "">>],
   [Search EXCEPT !.term = <<"text">>, !.sort = <<Up>>]}

SmallQueries == Listings \cup Searches \cup Edges
=============================================================================
