----------------------------- MODULE StoresProofs -----------------------------
(***************************************************************************)
(* What the store operators return, for every store, id and record, what it *)
(* is to be put in order (Sorted), and what sums and turns come to, for     *)
(* every finite set.                                                        *)
(*                                                                         *)
(* Facts about every finite set are proved without induction: were there a  *)
(* set without the property, there would be a smallest one (LeastNat), and  *)
(* a member less it would have it.                                          *)
(***************************************************************************)
EXTENDS Stores, TLAPS, WellFoundedInduction, FiniteSetTheorems, FunctionTheorems

\* The empty store holds nothing.
LEMMA EmptyStoreFacts ==
  /\ DOMAIN EmptyStore = {}
  /\ \A R : EmptyStore \in [{} -> R]
BY DEF EmptyStore

\* create writes exactly one record and keeps every other one.
LEMMA PutFacts ==
  ASSUME NEW store, NEW id, NEW record
  PROVE  /\ DOMAIN Put(store, id, record) = DOMAIN store \cup {id}
         /\ Put(store, id, record)[id] = record
         /\ \A i \in DOMAIN store \ {id} : Put(store, id, record)[i] = store[i]
BY DEF Put

\* create keeps the records of a store in their type.
LEMMA PutType ==
  ASSUME NEW R, NEW store, store \in [DOMAIN store -> R],
         NEW id, NEW record \in R
  PROVE  Put(store, id, record) \in [DOMAIN store \cup {id} -> R]
BY DEF Put

\* replace and patch never add nor remove an id, and touch one record.
LEMMA UpdateFacts ==
  ASSUME NEW store, NEW id, NEW record
  PROVE  /\ DOMAIN Update(store, id, record) = DOMAIN store
         /\ id \in DOMAIN store => Update(store, id, record)[id] = record
         /\ \A i \in DOMAIN store \ {id} : Update(store, id, record)[i] = store[i]
BY DEF Update

\* replace and patch keep the records of a store in their type.
LEMMA UpdateType ==
  ASSUME NEW R, NEW store, store \in [DOMAIN store -> R],
         NEW id, NEW record \in R
  PROVE  Update(store, id, record) \in [DOMAIN store -> R]
BY DEF Update

\* remove takes away one id and keeps every other record.
LEMMA DropFacts ==
  ASSUME NEW store, NEW id
  PROVE  /\ DOMAIN Drop(store, id) = DOMAIN store \ {id}
         /\ \A i \in DOMAIN store \ {id} : Drop(store, id)[i] = store[i]
BY DEF Drop

\* remove keeps the records of a store in their type.
LEMMA DropType ==
  ASSUME NEW R, NEW store, store \in [DOMAIN store -> R], NEW id
  PROVE  Drop(store, id) \in [DOMAIN store \ {id} -> R]
BY DEF Drop

-----------------------------------------------------------------------------
\* A set of natural numbers has a least member.
LEMMA LeastNat ==
  ASSUME NEW S \in SUBSET Nat, S # {}
  PROVE  \E m \in S : \A i \in S : m <= i
<1> DEFINE R == OpToRel(<, Nat)
<1>1. \E x \in S : \A y \in S : ~ (<<y, x>> \in R)
  BY NatLessThanWellFounded, WFMin
<1>2. \A x, y \in Nat : y < x => <<y, x>> \in R
  BY DEF OpToRel
<1> HIDE DEF R
<1>3. PICK x \in S : \A y \in S : ~ (<<y, x>> \in R)
  BY <1>1
<1>4. \A y \in S : ~ (y < x)
  BY <1>2, <1>3
<1> QED BY <1>3, <1>4

\* A bounded one has a greatest.
LEMMA GreatestNat ==
  ASSUME NEW n \in Nat, NEW S \in SUBSET (0 .. n), S # {}
  PROVE  \E m \in S : \A i \in S : i <= m
<1> DEFINE T == {n - i : i \in S}
<1>1. T \subseteq Nat
  <2> SUFFICES ASSUME NEW i \in S PROVE n - i \in Nat
    OBVIOUS
  <2>1. i \in Int /\ 0 <= i /\ i <= n
    OBVIOUS
  <2> QED BY <2>1
<1>2. T # {}
  OBVIOUS
<1> HIDE DEF T
<1>3. PICK k \in T : \A j \in T : k <= j
  BY <1>1, <1>2, LeastNat
<1>4. PICK m \in S : k = n - m
  BY <1>3 DEF T
<1>5. \A i \in S : n - m <= n - i
  BY <1>3, <1>4 DEF T
<1> QED BY <1>4, <1>5

\* reset resumes the numbering after the largest id of the seed.
LEMMA ResetRowsFacts ==
  ASSUME NEW n \in Nat, NEW rows, DOMAIN rows \subseteq 1 .. n
  PROVE  /\ ResetRows(rows).rows = rows
         /\ ResetRows(rows).next \in 1 .. n + 1
         /\ DOMAIN rows \subseteq 1 .. ResetRows(rows).next - 1
<1> DEFINE ids == DOMAIN rows \cup {0}
           largest == CHOOSE m \in ids : \A i \in ids : i <= m
<1>1. ids \in SUBSET (0 .. n) /\ ids # {}
  OBVIOUS
<1>2. \E m \in ids : \A i \in ids : i <= m
  BY <1>1, GreatestNat
<1>3. largest \in ids /\ \A i \in ids : i <= largest
  BY <1>2
<1>4. /\ ResetRows(rows).rows = rows
      /\ ResetRows(rows).next = 1 + largest
  BY DEF ResetRows
<1> HIDE DEF ids, largest
<1>5. largest \in 0 .. n
  BY <1>1, <1>3
<1>6. \A i \in DOMAIN rows : i \in 1 .. largest
  BY <1>1, <1>3, <1>5 DEF ids
<1> QED BY <1>4, <1>5, <1>6

-----------------------------------------------------------------------------
\* R orders S: no member precedes itself, and of any two one precedes the other.
Orders(R, S) ==
  /\ \A x \in S : <<x, x>> \notin R
  /\ \A x, y \in S : x # y => <<x, y>> \in R \/ <<y, x>> \in R
  /\ \A x, y, z \in S : <<x, y>> \in R /\ <<y, z>> \in R => <<x, z>> \in R

\* The members of S that precede x.
Predecessors(S, R, x) == {y \in S : <<y, x>> \in R}

\* seq lists S in that order.
Lists(seq, S, R) ==
  /\ seq \in [1 .. Cardinality(S) -> S]
  /\ \A i, j \in 1 .. Cardinality(S) : i < j => <<seq[i], seq[j]>> \in R

\* A member that precedes another is preceded by fewer.
LEMMA FewerPredecessors ==
  ASSUME NEW S, IsFiniteSet(S), NEW R, Orders(R, S), NEW x \in S, NEW y \in S
  PROVE  /\ IsFiniteSet(Predecessors(S, R, x)) /\ Cardinality(Predecessors(S, R, x)) \in Nat
         /\ Cardinality(Predecessors(S, R, x)) < Cardinality(S)
         /\ <<x, y>> \in R => Cardinality(Predecessors(S, R, x)) < Cardinality(Predecessors(S, R, y))
<1>1. \A z \in S : Predecessors(S, R, z) \in SUBSET S /\ z \notin Predecessors(S, R, z)
  BY DEF Predecessors, Orders
<1>2. \A z \in S : IsFiniteSet(Predecessors(S, R, z)) /\ Cardinality(Predecessors(S, R, z)) \in Nat
  BY <1>1, FS_Subset, FS_CardinalityType
<1>3. Cardinality(Predecessors(S, R, x)) < Cardinality(S)
  <2>1. Predecessors(S, R, x) # S
    BY <1>1
  <2> QED BY <2>1, <1>1, <1>2, FS_Subset, FS_CardinalityType
<1>4. ASSUME <<x, y>> \in R
      PROVE  Cardinality(Predecessors(S, R, x)) < Cardinality(Predecessors(S, R, y))
  <2>1. Predecessors(S, R, x) \in SUBSET Predecessors(S, R, y)
    BY <1>4 DEF Predecessors, Orders
  <2>2. x \in Predecessors(S, R, y) /\ x \notin Predecessors(S, R, x)
    BY <1>1, <1>4 DEF Predecessors
  <2> QED BY <2>1, <2>2, <1>2, FS_Subset
<1> QED BY <1>2, <1>3, <1>4

\* A finite set can be put in order.
LEMMA CanBeSorted ==
  ASSUME NEW S, IsFiniteSet(S), NEW R, Orders(R, S)
  PROVE  \E seq : Lists(seq, S, R)
<1> DEFINE n == Cardinality(S)
           place == [x \in S |-> Cardinality(Predecessors(S, R, x)) + 1]
<1>1. n \in Nat
  BY FS_CardinalityType
<1>2. place \in [S -> 1 .. n]
  <2> SUFFICES ASSUME NEW x \in S PROVE Cardinality(Predecessors(S, R, x)) + 1 \in 1 .. n
    OBVIOUS
  <2>1. Cardinality(Predecessors(S, R, x)) \in Nat /\ Cardinality(Predecessors(S, R, x)) < n
    BY FewerPredecessors
  <2> QED BY <2>1, <1>1
<1>3. \A x, y \in S : <<x, y>> \in R => place[x] < place[y]
  <2> SUFFICES ASSUME NEW x \in S, NEW y \in S, <<x, y>> \in R
               PROVE  Cardinality(Predecessors(S, R, x)) + 1 < Cardinality(Predecessors(S, R, y)) + 1
    OBVIOUS
  <2>1. /\ Cardinality(Predecessors(S, R, x)) \in Nat /\ Cardinality(Predecessors(S, R, y)) \in Nat
        /\ Cardinality(Predecessors(S, R, x)) < Cardinality(Predecessors(S, R, y))
    BY FewerPredecessors
  <2> QED BY <2>1
<1>4. ASSUME NEW x \in S, NEW y \in S, place[x] = place[y]
      PROVE  x = y
  <2>1. place[x] \in Int /\ place[y] \in Int
    BY <1>2
  <2> HIDE DEF place
  <2>2. <<x, y>> \notin R /\ <<y, x>> \notin R
    BY <2>1, <1>3, <1>4
  <2> QED BY <2>2 DEF Orders
<1>5. IsFiniteSet(1 .. n) /\ Cardinality(1 .. n) = n
  BY <1>1, FS_Interval
<1> HIDE DEF place
<1>6. place \in Surjection(S, 1 .. n)
  BY <1>2, <1>4, <1>5, Fun_IsInj, FS_Injection
<1>7. \A i \in 1 .. n : \E x \in S : place[x] = i
  BY <1>6, Fun_SurjectionProperties
<1> DEFINE seq == [i \in 1 .. n |-> CHOOSE x \in S : place[x] = i]
<1>8. \A i \in 1 .. n : seq[i] \in S /\ place[seq[i]] = i
  BY <1>7
<1>9. seq \in [1 .. n -> S]
  BY <1>8
<1> HIDE DEF seq
<1>10. ASSUME NEW i \in 1 .. n, NEW j \in 1 .. n, i < j
       PROVE  <<seq[i], seq[j]>> \in R
  <2>1. seq[i] # seq[j]
    BY <1>8, <1>10
  <2>2. <<seq[j], seq[i]>> \notin R
    BY <1>3, <1>8, <1>10
  <2> QED BY <2>1, <2>2, <1>8 DEF Orders
<1> QED BY <1>9, <1>10 DEF Lists

\* What is put in order is all there, each member once, after those before it.
LEMMA SortedFacts ==
  ASSUME NEW S, IsFiniteSet(S), NEW R, Orders(R, S), NEW seq, Lists(seq, S, R)
  PROVE  /\ Cardinality(S) \in Nat
         /\ \A i, j \in 1 .. Cardinality(S) : seq[i] = seq[j] => i = j
         /\ \A x \in S : \E i \in 1 .. Cardinality(S) : seq[i] = x
         /\ \A i \in 1 .. Cardinality(S) : Cardinality(Predecessors(S, R, seq[i])) = i - 1
<1> DEFINE n == Cardinality(S)
<1>0. /\ seq \in [1 .. n -> S]
      /\ \A i, j \in 1 .. n : i < j => <<seq[i], seq[j]>> \in R
  BY DEF Lists
<1> USE <1>0
<1>1. n \in Nat /\ IsFiniteSet(1 .. n) /\ Cardinality(1 .. n) = n
  BY FS_CardinalityType, FS_Interval
<1>2. ASSUME NEW i \in 1 .. n, NEW j \in 1 .. n, seq[i] = seq[j]
      PROVE  i = j
  <2>1. seq[i] \in S /\ <<seq[i], seq[i]>> \notin R
    BY DEF Orders
  <2>2. ~ (i < j) /\ ~ (j < i)
    BY <2>1, <1>2
  <2> QED BY <2>2, <1>1
<1>3. seq \in Injection(1 .. n, S)
  BY <1>2, Fun_IsInj
<1>4. \A x \in S : \E i \in 1 .. n : seq[i] = x
  BY <1>1, <1>3, FS_Injection, Fun_SurjectionProperties
<1>5. ASSUME NEW k \in 1 .. n
      PROVE  Cardinality(Predecessors(S, R, seq[k])) = k - 1
  <2> DEFINE T == Predecessors(S, R, seq[k])
             low == [i \in 1 .. k - 1 |-> seq[i]]
  <2>1. ASSUME NEW i \in 1 .. n
        PROVE  i < k <=> <<seq[i], seq[k]>> \in R
    <3>1. i < k => <<seq[i], seq[k]>> \in R
      OBVIOUS
    <3>2. k < i => <<seq[k], seq[i]>> \in R
      OBVIOUS
    <3>3. seq[i] \in S /\ seq[k] \in S /\ <<seq[i], seq[i]>> \notin R
      BY DEF Orders
    <3>4. ~ (<<seq[i], seq[k]>> \in R /\ <<seq[k], seq[i]>> \in R)
      BY <3>3 DEF Orders
    <3> QED BY <3>1, <3>2, <3>3, <3>4, <1>1
  <2>2. low \in [1 .. k - 1 -> T]
    BY <1>1, <2>1 DEF Predecessors
  <2>3. \A x \in T : \E i \in 1 .. k - 1 : low[i] = x
    <3> SUFFICES ASSUME NEW x \in S, <<x, seq[k]>> \in R
                 PROVE  \E i \in 1 .. k - 1 : low[i] = x
      BY DEF Predecessors
    <3>1. PICK i \in 1 .. n : seq[i] = x
      BY <1>4
    <3> QED BY <3>1, <2>1, <1>1
  <2>4. \A i, j \in 1 .. k - 1 : low[i] = low[j] => i = j
    BY <1>1, <1>2
  <2>5. IsFiniteSet(1 .. k - 1) /\ Cardinality(1 .. k - 1) = k - 1
    <3>1. 1 \in Int /\ k - 1 \in Int /\ k >= 1
      BY <1>1
    <3>2. Cardinality(1 .. k - 1) = IF 1 > k - 1 THEN 0 ELSE (k - 1) - 1 + 1
      BY <3>1, FS_Interval
    <3> QED BY <3>1, <3>2, FS_Interval
  <2> HIDE DEF T, low
  <2>6. low \in Bijection(1 .. k - 1, T)
    BY <2>2, <2>3, <2>4, Fun_IsBij
  <2>7. ExistsBijection(1 .. k - 1, T)
    BY <2>6 DEF ExistsBijection
  <2> QED BY <2>5, <2>7, FS_Bijection DEF T
<1> QED BY <1>1, <1>2, <1>4, <1>5

-----------------------------------------------------------------------------
(* Sums.  A fold removes one member after the other; the order is the one   *)
(* picked, and makes no difference to a sum.                                *)

\* pick takes a member out of every subset of S that has one.
Picks(pick, S) == \A s \in SUBSET S : s # {} => pick[s] \in s

\* fold adds up what the members of a subset are worth, in the order picked.
AddsUp(fold, S, worth, pick) ==
  /\ fold[{}] = 0
  /\ \A s \in SUBSET S : s # {} =>
       \/ fold[s] = worth[pick[s]] + fold[s \ {pick[s]}]
       \/ fold[s] = fold[s \ {pick[s]}] + worth[pick[s]]

\* The fold that is defined where nothing else is.
Folding(fold, S, worth, pick) ==
  fold = [s \in SUBSET S |->
            IF s = {} THEN 0 ELSE worth[pick[s]] + fold[s \ {pick[s]}]]

\* A member less.
LEMMA OneLess ==
  ASSUME NEW S, IsFiniteSet(S), NEW s \in SUBSET S, NEW x \in s
  PROVE  /\ s \ {x} \in SUBSET S
         /\ Cardinality(s) \in Nat /\ Cardinality(s \ {x}) \in Nat
         /\ Cardinality(s \ {x}) < Cardinality(s)
<1>1. IsFiniteSet(s) /\ IsFiniteSet(s \ {x})
  BY FS_Subset, FS_RemoveElement
<1>2. Cardinality(s \ {x}) = Cardinality(s) - 1
  BY <1>1, FS_RemoveElement
<1> QED BY <1>1, <1>2, FS_CardinalityType

\* Whatever the order, there is such a sum.
LEMMA FoldExists ==
  ASSUME NEW S, IsFiniteSet(S), NEW worth, NEW pick, Picks(pick, S)
  PROVE  \E fold : Folding(fold, S, worth, pick)
<1> DEFINE Up(n) == {s \in SUBSET S : Cardinality(s) <= n}
           Value(g, s) == IF s = {} THEN 0 ELSE worth[pick[s]] + g[s \ {pick[s]}]
           Reached(n) == \E g : g = [s \in Up(n) |-> Value(g, s)]
<1>1. \A s \in SUBSET S : Cardinality(s) \in Nat /\ (s # {} => Cardinality(s) > 0)
  BY FS_Subset, FS_CardinalityType, FS_EmptySet
<1>2. Reached(0)
  <2>1. Up(0) = {{}}
    BY <1>1, FS_EmptySet
  <2>2. [s \in Up(0) |-> 0] = [s \in Up(0) |-> Value([t \in Up(0) |-> 0], s)]
    BY <2>1
  <2> QED BY <2>2
<1>3. ASSUME NEW n \in Nat, Reached(n)
      PROVE  Reached(n + 1)
  <2>1. PICK g : g = [s \in Up(n) |-> Value(g, s)]
    BY <1>3
  <2> DEFINE h == [s \in Up(n + 1) |-> IF s \in Up(n) THEN g[s] ELSE Value(g, s)]
  <2>2. ASSUME NEW s \in Up(n + 1)
        PROVE  h[s] = Value(h, s)
    <3>1. CASE s = {}
      BY <2>1, <3>1
    <3>2. CASE s # {}
      <4>1. pick[s] \in s
        BY <3>2 DEF Picks
      <4>2. s \ {pick[s]} \in Up(n)
        BY <4>1, OneLess, <1>3
      <4>3. s \ {pick[s]} \in Up(n + 1)
        BY <4>2, <1>3, <1>1
      <4>4. h[s \ {pick[s]}] = g[s \ {pick[s]}]
        BY <4>2, <4>3
      <4>5. h[s] = Value(g, s)
        BY <2>1
      <4> QED BY <4>4, <4>5
    <3> QED BY <3>1, <3>2
  <2>3. h = [s \in Up(n + 1) |-> Value(h, s)]
    <3>1. h = [s \in Up(n + 1) |-> h[s]]
      OBVIOUS
    <3> HIDE DEF h, Value
    <3> QED BY <2>2, <3>1
  <2> HIDE DEF h
  <2> QED BY <2>3
<1>4. \A n \in Nat : Reached(n)
  <2> DEFINE Missed == {n \in Nat : ~ Reached(n)}
  <2> HIDE DEF Reached
  <2> SUFFICES ASSUME Missed # {} PROVE FALSE
    OBVIOUS
  <2>1. PICK m \in Missed : \A i \in Missed : m <= i
    <3>1. Missed \in SUBSET Nat
      OBVIOUS
    <3> HIDE DEF Missed
    <3> QED BY <3>1, LeastNat
  <2>2. m # 0
    BY <1>2
  <2>3. m - 1 \in Nat /\ Reached(m - 1) /\ (m - 1) + 1 = m
    BY <2>1, <2>2
  <2> QED BY <2>3, <1>3
<1>5. Cardinality(S) \in Nat /\ \A s \in SUBSET S : Cardinality(s) <= Cardinality(S)
  BY FS_Subset, FS_CardinalityType
<1>6. Up(Cardinality(S)) = SUBSET S
  BY <1>5
<1>7. \E g : g = [s \in SUBSET S |-> Value(g, s)]
  BY <1>4, <1>5, <1>6
<1> QED BY <1>7 DEF Folding

\* It is a number, and each member counts, whichever is picked.
LEMMA FoldFacts ==
  ASSUME NEW S, IsFiniteSet(S), NEW worth, \A x \in S : worth[x] \in Int,
         NEW pick, Picks(pick, S), NEW fold, AddsUp(fold, S, worth, pick)
  PROVE  /\ fold[{}] = 0
         /\ \A s \in SUBSET S : fold[s] \in Int
         /\ (\A x \in S : worth[x] >= 0) => \A s \in SUBSET S : fold[s] >= 0
         /\ \A s \in SUBSET S : \A x \in s : fold[s] = worth[x] + fold[s \ {x}]
<1> DEFINE Fine(s) == /\ fold[s] \in Int
                      /\ (\A x \in S : worth[x] >= 0) => fold[s] >= 0
                      /\ \A x \in s : fold[s] = worth[x] + fold[s \ {x}]
           Sizes == {n \in Nat : \E s \in SUBSET S : Cardinality(s) = n /\ ~ Fine(s)}
<1>1. fold[{}] = 0
  BY DEF AddsUp
<1>2. \A s \in SUBSET S : Cardinality(s) \in Nat
  BY FS_Subset, FS_CardinalityType
<1>3. ASSUME NEW s \in SUBSET S, \A u \in SUBSET S : Cardinality(u) < Cardinality(s) => Fine(u)
      PROVE  Fine(s)
  <2>1. CASE s = {}
    <3>1. fold[s] = 0
      BY <1>1, <2>1
    <3> QED BY <2>1, <3>1
  <2>2. CASE s # {}
    <3> DEFINE p == pick[s]
    <3>1. p \in s /\ p \in S
      BY <2>2 DEF Picks
    <3>2. fold[s] = worth[p] + fold[s \ {p}] \/ fold[s] = fold[s \ {p}] + worth[p]
      BY <2>2 DEF AddsUp
    <3> HIDE DEF p
    <3>3. Fine(s \ {p})
      <4>1. s \ {p} \in SUBSET S /\ Cardinality(s \ {p}) < Cardinality(s)
        BY <3>1, OneLess
      <4> HIDE DEF Fine
      <4> QED BY <1>3, <4>1
    <3>4. fold[s] = worth[p] + fold[s \ {p}]
      BY <3>1, <3>2, <3>3
    <3>5. ASSUME NEW x \in s, x # p
          PROVE  fold[s] = worth[x] + fold[s \ {x}]
      <4>1. Fine(s \ {x})
        <5>1. /\ s \ {x} \in SUBSET S
              /\ Cardinality(s) \in Nat /\ Cardinality(s \ {x}) \in Nat
              /\ Cardinality(s \ {x}) < Cardinality(s)
          BY OneLess
        <5> HIDE DEF Fine
        <5> QED BY <1>3, <5>1
      <4>2. fold[s \ {p}] = worth[x] + fold[(s \ {p}) \ {x}]
        BY <3>3, <3>5
      <4>3. fold[s \ {x}] = worth[p] + fold[(s \ {x}) \ {p}]
        BY <3>1, <3>5, <4>1
      <4>4. (s \ {x}) \ {p} = (s \ {p}) \ {x}
        OBVIOUS
      <4>5. Fine((s \ {p}) \ {x})
        <5>1. /\ (s \ {p}) \ {x} \in SUBSET S
              /\ Cardinality((s \ {p}) \ {x}) < Cardinality(s \ {p})
              /\ Cardinality(s \ {p}) < Cardinality(s)
              /\ Cardinality((s \ {p}) \ {x}) \in Nat /\ Cardinality(s \ {p}) \in Nat
              /\ Cardinality(s) \in Nat
          BY <3>1, <3>5, OneLess
        <5> HIDE DEF Fine
        <5> QED BY <5>1, <1>3
      <4>6. worth[x] \in Int /\ worth[p] \in Int /\ fold[(s \ {p}) \ {x}] \in Int
        BY <3>1, <4>5
      <4>7. /\ fold[s] = worth[p] + (worth[x] + fold[(s \ {p}) \ {x}])
            /\ fold[s \ {x}] = worth[p] + fold[(s \ {p}) \ {x}]
        BY <3>4, <4>2, <4>3, <4>4
      <4> QED BY <4>6, <4>7
    <3>6. fold[s] \in Int /\ ((\A x \in S : worth[x] >= 0) => fold[s] >= 0)
      BY <3>1, <3>3, <3>4
    <3> QED BY <3>4, <3>5, <3>6
  <2> QED BY <2>1, <2>2
<1> HIDE DEF Fine
<1>4. Sizes = {}
  <2> SUFFICES ASSUME Sizes # {} PROVE FALSE
    OBVIOUS
  <2>1. PICK m \in Sizes : \A i \in Sizes : m <= i
    <3>1. Sizes \in SUBSET Nat
      OBVIOUS
    <3> HIDE DEF Sizes
    <3> QED BY <3>1, LeastNat
  <2>2. PICK s \in SUBSET S : Cardinality(s) = m /\ ~ Fine(s)
    BY <2>1
  <2>3. \A u \in SUBSET S : Cardinality(u) < m => Fine(u)
    <3> SUFFICES ASSUME NEW u \in SUBSET S, Cardinality(u) < m, ~ Fine(u) PROVE FALSE
      OBVIOUS
    <3>1. Cardinality(u) \in Sizes
      BY <1>2
    <3>2. m \in Nat /\ Cardinality(u) \in Nat
      BY <1>2
    <3> HIDE DEF Sizes
    <3> QED BY <3>1, <3>2, <2>1
  <2> QED BY <2>2, <2>3, <1>3
<1>5. \A s \in SUBSET S : Fine(s)
  BY <1>2, <1>4
<1>6. fold[{}] = 0
  BY <1>1
<1> QED BY <1>5, <1>6 DEF Fine

\* So two sums of the same are the same.
LEMMA FoldsAgree ==
  ASSUME NEW S, IsFiniteSet(S), NEW worth, \A x \in S : worth[x] \in Int,
         NEW pick, Picks(pick, S), NEW fold, AddsUp(fold, S, worth, pick),
         NEW pick2, Picks(pick2, S), NEW fold2, AddsUp(fold2, S, worth, pick2)
  PROVE  fold[S] = fold2[S]
<1> DEFINE Sizes == {n \in Nat : \E s \in SUBSET S : Cardinality(s) = n /\ fold[s] # fold2[s]}
<1>1. /\ fold[{}] = 0
      /\ \A s \in SUBSET S : fold[s] \in Int
      /\ (\A x \in S : worth[x] >= 0) => \A s \in SUBSET S : fold[s] >= 0
      /\ \A s \in SUBSET S : \A x \in s : fold[s] = worth[x] + fold[s \ {x}]
  BY FoldFacts
<1>2. /\ fold2[{}] = 0
      /\ \A s \in SUBSET S : fold2[s] \in Int
      /\ (\A x \in S : worth[x] >= 0) => \A s \in SUBSET S : fold2[s] >= 0
      /\ \A s \in SUBSET S : \A x \in s : fold2[s] = worth[x] + fold2[s \ {x}]
  BY FoldFacts
<1>3. Sizes = {}
  <2> SUFFICES ASSUME Sizes # {} PROVE FALSE
    OBVIOUS
  <2>1. PICK m \in Sizes : \A i \in Sizes : m <= i
    <3>1. Sizes \in SUBSET Nat
      OBVIOUS
    <3> HIDE DEF Sizes
    <3> QED BY <3>1, LeastNat
  <2>2. PICK s \in SUBSET S : Cardinality(s) = m /\ fold[s] # fold2[s]
    BY <2>1
  <2>3. PICK x : x \in s
    BY <1>1, <1>2, <2>2
  <2>4. fold[s \ {x}] # fold2[s \ {x}]
    BY <1>1, <1>2, <2>2, <2>3
  <2>5. Cardinality(s \ {x}) \in Sizes /\ Cardinality(s \ {x}) < m /\ m \in Nat
    BY <2>2, <2>3, <2>4, OneLess
  <2> HIDE DEF Sizes
  <2> QED BY <2>1, <2>5, OneLess, <2>2, <2>3
<1>4. S \in SUBSET S /\ Cardinality(S) \in Nat
  BY FS_CardinalityType
<1> QED BY <1>3, <1>4

-----------------------------------------------------------------------------
(* Rounds: what a row comes to when rows are taken in turn. *)

\* x is q rounds of u, and r.
Rounds(x, u, q, r) == q \in Int /\ r \in 0 .. u - 1 /\ x = u * q + r

\* Division gives one.
LEMMA RoundsExist ==
  ASSUME NEW x \in Int, NEW u \in Nat \ {0}
  PROVE  \E q : Rounds(x, u, q, x % u)
<1>1. x = u * (x \div u) + (x % u) /\ x % u \in 0 .. u - 1 /\ x \div u \in Int
  OBVIOUS
<1> QED BY <1>1 DEF Rounds

\* There is only one.
LEMMA RoundsOnce ==
  ASSUME NEW u \in Nat \ {0}, NEW x, NEW q, NEW r, NEW p, NEW s,
         Rounds(x, u, q, r), Rounds(x, u, p, s)
  PROVE  r = s
<1>1. ASSUME NEW a \in Int, NEW b \in Int, a > b PROVE u * a >= u * b + u
  <2>1. PICK d \in Nat : a = b + 1 + d
    <3>1. a - b - 1 \in Nat
      BY <1>1
    <3> QED BY <3>1
  <2>2. u * a = u * b + u + u * d
    BY <2>1
  <2>3. u * d >= 0 /\ u * b \in Int /\ u * d \in Int
    OBVIOUS
  <2> QED BY <2>2, <2>3
<1>2. /\ q \in Int /\ p \in Int /\ r \in 0 .. u - 1 /\ s \in 0 .. u - 1
      /\ u * q + r = u * p + s /\ u * q \in Int /\ u * p \in Int
  BY DEF Rounds
<1>3. ~ (q > p)
  <2> SUFFICES ASSUME q > p PROVE FALSE
    OBVIOUS
  <2>1. u * q >= u * p + u
    BY <1>1, <1>2
  <2> QED BY <1>2, <2>1
<1>4. ~ (p > q)
  <2> SUFFICES ASSUME p > q PROVE FALSE
    OBVIOUS
  <2>1. u * p >= u * q + u
    BY <1>1, <1>2
  <2> QED BY <1>2, <2>1
<1>5. q = p
  BY <1>2, <1>3, <1>4
<1> QED BY <1>2, <1>5

\* d further in the same round, or in the round before.
LEMMA SameRound ==
  ASSUME NEW x \in Int, NEW u \in Nat \ {0}, NEW d \in Int, (x % u) + d \in 0 .. u - 1
  PROVE  (x + d) % u = (x % u) + d /\ (x - u + d) % u = (x % u) + d
<1>1. PICK q : Rounds(x, u, q, x % u)
  BY RoundsExist
<1>2. (x % u) \in Int
  OBVIOUS
<1>3. Rounds(x + d, u, q, (x % u) + d)
  BY <1>1, <1>2 DEF Rounds
<1>4. Rounds(x - u + d, u, q - 1, (x % u) + d)
  <2>1. q \in Int /\ u * (q - 1) = u * q - u /\ u * q \in Int
    BY <1>1 DEF Rounds
  <2> QED BY <1>1, <1>2, <2>1 DEF Rounds
<1>5. x + d \in Int /\ x - u + d \in Int
  OBVIOUS
<1>6. PICK p : Rounds(x + d, u, p, (x + d) % u)
  BY <1>5, RoundsExist
<1>7. PICK o : Rounds(x - u + d, u, o, (x - u + d) % u)
  BY <1>5, RoundsExist
<1> QED BY <1>3, <1>4, <1>6, <1>7, RoundsOnce

\* What is left over after some rounds: all of it, or a round less at least.
LEMMA RestFacts ==
  ASSUME NEW x \in Nat, NEW u \in Nat \ {0}
  PROVE  x % u = x \/ (x % u) + u <= x
<1>1. PICK q : Rounds(x, u, q, x % u)
  <2>1. x \in Int
    OBVIOUS
  <2> QED BY <2>1, RoundsExist
<1>2. q \in Int /\ x = u * q + (x % u) /\ x % u \in 0 .. u - 1
  BY <1>1 DEF Rounds
<1>3. CASE q = 0
  BY <1>2, <1>3
<1>4. CASE q > 0
  <2>1. PICK d \in Nat : q = 1 + d
    <3>1. q - 1 \in Nat
      BY <1>2, <1>4
    <3> QED BY <1>2, <3>1
  <2>2. u * q = u + u * d /\ u * d >= 0 /\ u * d \in Int
    BY <2>1
  <2> QED BY <1>2, <2>2
<1>5. CASE q < 0
  <2>1. PICK d \in Nat : q = 0 - 1 - d
    <3>1. 0 - 1 - q \in Nat
      BY <1>2, <1>5
    <3> QED BY <1>2, <3>1
  <2>2. u * q = 0 - u - u * d /\ u * d >= 0 /\ u * d \in Int
    BY <2>1
  <2> QED BY <1>2, <2>2
<1> QED BY <1>2, <1>3, <1>4, <1>5

\* A set that shifts into another has no more members.
LEMMA ShiftedInto ==
  ASSUME NEW S, NEW T, IsFiniteSet(T), NEW d \in Int,
         \A id \in S : id \in Int /\ id + d \in T
  PROVE  IsFiniteSet(S) /\ Cardinality(S) <= Cardinality(T)
<1> DEFINE f == [id \in S |-> id + d]
<1>1. f \in [S -> T] /\ DOMAIN f = S
  OBVIOUS
<1>2. \A id \in S, other \in S : f[id] = f[other] => id = other
  <2> SUFFICES ASSUME NEW id \in S, NEW other \in S, f[id] = f[other] PROVE id = other
    OBVIOUS
  <2>1. id + d = other + d /\ id \in Int /\ other \in Int
    OBVIOUS
  <2> QED BY <2>1
<1> HIDE DEF f
<1>3. f \in Injection(S, T)
  BY <1>1, <1>2 DEF Injection, IsInjective
<1> QED BY <1>3, FS_Injection

=============================================================================
