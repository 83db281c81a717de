----------------------------- MODULE ListingsProofs -----------------------------
(***************************************************************************)
(* Theorems about the listings: of files (Files), for every number of       *)
(* connections and every limit, and of any collection, read page by page    *)
(* (PageWalk), for every query, field and number of rows.                   *)
(*                                                                         *)
(* Files.  The capacity is kept because it is checked in the very step that *)
(* stores the file, however many uploads are under way.  The invariant adds *)
(* to it that a file stored later has the higher sequence number, on which  *)
(* the order of the listing rests.                                         *)
(*                                                                         *)
(* PageWalk.  A row has a place: Ahead, the number of rows the listing shows *)
(* before it.  A page is the rows whose places are between its bounds, so a *)
(* client has Reached the places below (page - 1) * limit.  The invariant   *)
(* says what that means for rows: undisturbed, the rows seen are those with *)
(* the places reached, in order; a row there from the start and not seen    *)
(* has a place still to come, for a row created moves others back only; a   *)
(* row seen has a place reached already, for a row deleted moves others     *)
(* forward only.                                                            *)
(***************************************************************************)
EXTENDS Files, PageWalk, StoresProofs, SequenceTheorems

-----------------------------------------------------------------------------
(* Files. *)

\* Ids are drawn in the order in which uploads end.
FinishedInOrder ==
  /\ finished \in Seq(Nat)
  /\ \A m, n \in DOMAIN finished : m < n => finished[m] < finished[n]

\* Of two stored files, the one whose upload ended later has the higher sequence number.
LaterIsHigher ==
  \A i, j \in DOMAIN files : i < j => files[i].sequence < files[j].sequence

FilesInv ==
  /\ FilesTypeOK /\ FinishedInOrder /\ LaterIsHigher
  /\ IsFiniteSet(DOMAIN files) /\ CapacityIsKept

-----------------------------------------------------------------------------
\* What has been finished, after one more.
LEMMA FinishedFacts ==
  ASSUME NEW s \in Seq(Nat), NEW e \in Nat
  PROVE  /\ Append(s, e) \in Seq(Nat)
         /\ ToSet(Append(s, e)) = ToSet(s) \cup {e}
<1>1. /\ Append(s, e) \in Seq(Nat) /\ Len(s) \in Nat
      /\ DOMAIN s = 1 .. Len(s) /\ DOMAIN Append(s, e) = 1 .. Len(s) + 1
      /\ Append(s, e)[Len(s) + 1] = e
      /\ \A i \in 1 .. Len(s) : Append(s, e)[i] = s[i]
  OBVIOUS
<1>2. ToSet(Append(s, e)) \subseteq ToSet(s) \cup {e}
  BY <1>1 DEF ToSet
<1>3. ToSet(s) \cup {e} \subseteq ToSet(Append(s, e))
  BY <1>1 DEF ToSet
<1> QED BY <1>1, <1>2, <1>3

\* What StoreUpload does: the one step that adds a file.
LEMMA StoreEffect ==
  ASSUME FilesInv, NEW u \in Upload, StoreUpload(u)
  PROVE  /\ drawn' = drawn + 1 /\ drawn < MaxDrawn
         /\ nextSequence' = nextSequence + 1
         /\ drawn + 1 \notin DOMAIN files
         /\ DOMAIN files' = DOMAIN files \cup {drawn + 1}
         /\ files'[drawn + 1] = [size |-> uploads[u].size, sequence |-> nextSequence + 1]
         /\ \A i \in DOMAIN files : files'[i] = files[i]
         /\ files'[drawn + 1] \in File
<1>1. drawn + 1 \notin DOMAIN files
  BY DEF FilesInv, FilesTypeOK
<1>2. uploads[u].size \in 0 .. MaxFileSize
  BY DEF StoreUpload, FilesInv, FilesTypeOK, Part
<1>3. files' = Put(files, drawn + 1, [size |-> uploads[u].size, sequence |-> nextSequence + 1])
  BY DEF StoreUpload, LastSequence
<1>4. nextSequence \in Nat
  BY DEF FilesInv, FilesTypeOK
<1> QED BY <1>1, <1>2, <1>3, <1>4 DEF StoreUpload, LastSequence, Put, File

\* Uploads that are gathered, refused or given up touch no file.
LEMMA UploadsPreserve ==
  ASSUME FilesInv, UNCHANGED <<files, nextSequence, drawn, finished>>,
         DOMAIN uploads' \subseteq Upload, \A u \in DOMAIN uploads' : uploads'[u] \in Part
  PROVE  FilesInv'
BY DEF FilesInv, FilesTypeOK, FinishedInOrder, LaterIsHigher, CapacityIsKept

\* The connections, after one of them was let go.
LEMMA LetGoFacts ==
  ASSUME FilesInv, NEW u \in Upload, uploads' = Drop(uploads, u)
  PROVE  /\ DOMAIN uploads' \subseteq Upload
         /\ \A x \in DOMAIN uploads' : uploads'[x] \in Part
BY DEF FilesInv, FilesTypeOK, Drop

\* Whatever becomes of an upload, the invariant stays.
LEMMA UploadPreserves ==
  ASSUME FilesInv, NEW u \in Upload,
         \/ StartUpload(u) \/ ReceiveChunk(u) \/ Abort(u)
         \/ RejectTooLarge(u) \/ RejectUnnamed(u) \/ RejectFull(u)
  PROVE  FilesInv'
<1>1. CASE StartUpload(u)
  <2>1. PICK named \in BOOLEAN :
          uploads' = Put(uploads, u, [size |-> 0, named |-> named, full |-> StoreFull])
    BY <1>1 DEF StartUpload
  <2>2. [size |-> 0, named |-> named, full |-> StoreFull] \in Part
    BY ConfigAssumption DEF Part, StoreFull
  <2>3. /\ DOMAIN uploads' = DOMAIN uploads \cup {u}
        /\ \A x \in DOMAIN uploads' : uploads'[x] \in Part
    BY <2>1, <2>2 DEF Put, FilesInv, FilesTypeOK
  <2> QED BY <1>1, <2>3, UploadsPreserve DEF StartUpload, FilesInv, FilesTypeOK
<1>2. CASE ReceiveChunk(u)
  <2>1. /\ u \in DOMAIN uploads /\ uploads[u] \in Part /\ uploads[u].size < MaxFileSize
        /\ uploads' = [uploads EXCEPT ![u].size = @ + 1]
    BY <1>2 DEF ReceiveChunk, FilesInv, FilesTypeOK
  <2>2. [uploads[u] EXCEPT !.size = @ + 1] \in Part
    BY <2>1, ConfigAssumption DEF Part
  <2>3. /\ DOMAIN uploads' = DOMAIN uploads
        /\ \A x \in DOMAIN uploads' : uploads'[x] \in Part
    BY <2>1, <2>2 DEF FilesInv, FilesTypeOK
  <2> QED BY <1>2, <2>3, UploadsPreserve DEF ReceiveChunk, FilesInv, FilesTypeOK
<1>3. CASE Abort(u) \/ RejectTooLarge(u) \/ RejectUnnamed(u) \/ RejectFull(u)
  <2>1. uploads' = Drop(uploads, u) /\ UNCHANGED <<files, nextSequence, drawn, finished>>
    BY <1>3 DEF Abort, RejectTooLarge, RejectUnnamed, RejectFull, AfterRefusal
  <2> QED BY <2>1, LetGoFacts, UploadsPreserve
<1> QED BY <1>1, <1>2, <1>3

\* A complete upload is stored only where there is room.
LEMMA FileStorePreserves ==
  ASSUME FilesInv, NEW u \in Upload, StoreUpload(u)
  PROVE  FilesInv'
<1>0. /\ drawn' = drawn + 1 /\ drawn < MaxDrawn /\ drawn \in Nat
      /\ nextSequence' = nextSequence + 1 /\ nextSequence \in Nat
      /\ drawn + 1 \notin DOMAIN files
      /\ DOMAIN files' = DOMAIN files \cup {drawn + 1}
      /\ files'[drawn + 1].sequence = nextSequence + 1
      /\ files'[drawn + 1] \in File
      /\ \A i \in DOMAIN files : files'[i] = files[i]
  <2>1. drawn \in Nat /\ nextSequence \in Nat
    BY DEF FilesInv, FilesTypeOK
  <2>2. files'[drawn + 1] = [size |-> uploads[u].size, sequence |-> nextSequence + 1]
    BY StoreEffect
  <2> QED BY <2>1, <2>2, StoreEffect
<1>1. FilesTypeOK' /\ FinishedInOrder'
  <2>1. /\ drawn + 1 \in Nat /\ finished' = Append(finished, drawn + 1)
        /\ finished \in Seq(Nat)
    BY DEF StoreUpload, FilesInv, FilesTypeOK, FinishedInOrder
  <2>2. finished' \in Seq(Nat) /\ ToSet(finished') = ToSet(finished) \cup {drawn + 1}
    BY <2>1, FinishedFacts
  <2>3. uploads' = Drop(uploads, u)
    BY DEF StoreUpload
  <2>4. /\ DOMAIN uploads' \subseteq Upload
        /\ \A x \in DOMAIN uploads' : uploads'[x] \in Part
    BY <2>3, LetGoFacts
  <2>5. \A i \in DOMAIN files' : files'[i] \in File /\ files'[i].sequence <= nextSequence'
    <3>1. \A i \in DOMAIN files : files[i] \in File /\ files[i].sequence <= nextSequence
      BY DEF FilesInv, FilesTypeOK
    <3>2. \A i \in DOMAIN files : files[i].sequence \in Nat
      BY <3>1 DEF File
    <3> QED BY <1>0, <3>1, <3>2
  <2>6. drawn' \in 0 .. MaxDrawn /\ ToSet(finished') \subseteq 1 .. drawn' /\ nextSequence' \in Nat
    BY <1>0, <2>2, ConfigAssumption DEF FilesInv, FilesTypeOK
  <2>7. DOMAIN files' \subseteq ToSet(finished')
    BY <1>0, <2>2 DEF FilesInv, FilesTypeOK
  <2>8. ASSUME NEW m \in DOMAIN finished', NEW n \in DOMAIN finished', m < n
        PROVE  finished'[m] < finished'[n]
    <3>1. /\ Len(finished) \in Nat /\ DOMAIN finished = 1 .. Len(finished)
          /\ DOMAIN finished' = 1 .. Len(finished) + 1
          /\ finished'[Len(finished) + 1] = drawn + 1
          /\ \A i \in 1 .. Len(finished) : finished'[i] = finished[i]
      BY <2>1
    <3>2. \A i \in 1 .. Len(finished) : finished[i] \in 1 .. drawn
      BY <3>1 DEF FilesInv, FilesTypeOK, ToSet
    <3>3. CASE n \in 1 .. Len(finished)
      <4>1. m \in 1 .. Len(finished)
        BY <2>8, <3>1, <3>3
      <4> QED BY <2>8, <3>1, <3>3, <4>1 DEF FilesInv, FinishedInOrder
    <3>4. CASE n = Len(finished) + 1
      <4>1. m \in 1 .. Len(finished)
        BY <2>8, <3>1, <3>4
      <4> QED BY <3>1, <3>2, <3>4, <4>1, <1>0
    <3> QED BY <3>1, <3>3, <3>4
  <2> QED BY <2>2, <2>4, <2>5, <2>6, <2>7, <2>8 DEF FilesTypeOK, FinishedInOrder
<1>2. LaterIsHigher'
  <2>1. \A i \in DOMAIN files : /\ i \in 1 .. drawn
                                /\ files[i].sequence \in Nat
                                /\ files[i].sequence <= nextSequence
    BY DEF FilesInv, FilesTypeOK, File
  <2> QED BY <1>0, <2>1 DEF FilesInv, LaterIsHigher
<1>3. IsFiniteSet(DOMAIN files')
  BY <1>0, FS_AddElement DEF FilesInv
<1>4. CapacityIsKept'
  <2>1. /\ Cardinality(DOMAIN files') = Cardinality(DOMAIN files) + 1
        /\ Cardinality(DOMAIN files) \in Nat
    BY <1>0, FS_AddElement, FS_CardinalityType DEF FilesInv
  <2>2. ~ (Cardinality(DOMAIN files) >= MaxStoredFiles)
    BY DEF StoreUpload, Full, StoreFull
  <2> QED BY <2>1, <2>2, ConfigAssumption DEF CapacityIsKept
<1> QED BY <1>1, <1>2, <1>3, <1>4 DEF FilesInv

\* A delete makes room.
LEMMA FileDeletePreserves ==
  ASSUME FilesInv, NEW id \in DOMAIN files, DeleteFileById(id)
  PROVE  FilesInv'
<1>1. /\ DOMAIN files' = DOMAIN files \ {id}
      /\ \A i \in DOMAIN files' : files'[i] = files[i]
      /\ UNCHANGED <<nextSequence, drawn, finished, uploads>>
  BY DEF DeleteFileById, Drop
<1>2. FilesTypeOK' /\ FinishedInOrder' /\ LaterIsHigher'
  BY <1>1 DEF FilesInv, FilesTypeOK, FinishedInOrder, LaterIsHigher
<1>3. /\ IsFiniteSet(DOMAIN files')
      /\ Cardinality(DOMAIN files') = Cardinality(DOMAIN files) - 1
      /\ Cardinality(DOMAIN files) \in Nat
  BY <1>1, FS_RemoveElement, FS_CardinalityType DEF FilesInv
<1>4. CapacityIsKept'
  BY <1>3, ConfigAssumption DEF FilesInv, CapacityIsKept
<1> QED BY <1>2, <1>3, <1>4 DEF FilesInv

\* A reset takes every file away and lets the uploads go on.
LEMMA FilesResetPreserves ==
  ASSUME FilesInv, Reset
  PROVE  FilesInv'
<1>1. /\ DOMAIN files' = {} /\ nextSequence' = 0 /\ finished' = <<>>
      /\ UNCHANGED <<drawn, uploads>>
  BY EmptyStoreFacts DEF Reset, FilesAfterReset
<1>2. ToSet(finished') = {} /\ finished' \in Seq(Nat)
  BY <1>1 DEF ToSet
<1>3. IsFiniteSet(DOMAIN files') /\ Cardinality(DOMAIN files') = 0
  BY <1>1, FS_EmptySet
<1> QED BY <1>1, <1>2, <1>3, ConfigAssumption
        DEF FilesInv, FilesTypeOK, FinishedInOrder, LaterIsHigher, CapacityIsKept

\* Every request preserves the invariant.
LEMMA FilesStepPreserves == FilesInv /\ [FilesNext]_filesVars => FilesInv'
<1> SUFFICES ASSUME FilesInv, [FilesNext]_filesVars PROVE FilesInv'
  OBVIOUS
<1>1. CASE Missing \/ UNCHANGED filesVars
  BY <1>1 DEF Missing, filesVars, FilesInv, FilesTypeOK, FinishedInOrder, LaterIsHigher, CapacityIsKept
<1> QED BY <1>1, UploadPreserves, FileStorePreserves, FileDeletePreserves, FilesResetPreserves DEF FilesNext

\* The server starts without files.
LEMMA FilesInitHolds == FilesInit => FilesInv
<1> SUFFICES ASSUME FilesInit PROVE FilesInv
  OBVIOUS
<1>1. /\ DOMAIN files = {} /\ DOMAIN uploads = {} /\ ToSet(finished) = {}
      /\ finished \in Seq(Nat)
  BY EmptyStoreFacts DEF FilesInit, ToSet
<1> QED BY <1>1, FS_EmptySet, ConfigAssumption
        DEF FilesInit, FilesInv, FilesTypeOK, FinishedInOrder, LaterIsHigher, CapacityIsKept

\* The invariant holds along every run.
THEOREM FilesInvariance == FilesSpec => []FilesInv
BY FilesInitHolds, FilesStepPreserves, PTL DEF FilesSpec

\* Stored files are finished uploads of at most the size allowed, and no two have the same
\* sequence number: it rises from upload to upload.
THEOREM FilesTypeCorrect == FilesSpec => [](FilesTypeOK /\ LaterIsHigher)
<1>1. FilesInv => FilesTypeOK /\ LaterIsHigher
  BY DEF FilesInv
<1> QED BY <1>1, FilesInvariance, PTL

\* However many uploads end at once, there are never more files than allowed.
THEOREM CapacityKept == FilesSpec => []CapacityIsKept
<1>1. FilesInv => CapacityIsKept
  BY DEF FilesInv
<1> QED BY <1>1, FilesInvariance, PTL

\* A listing holds every file once, the newer ones first.
LEMMA FileListingFacts ==
  ASSUME FilesInv
  PROVE  /\ Cardinality(DOMAIN files) \in Nat
         /\ FileListing \in [1 .. Cardinality(DOMAIN files) -> DOMAIN files]
         /\ \A x \in DOMAIN files : \E i \in 1 .. Cardinality(DOMAIN files) : FileListing[i] = x
         /\ \A i, j \in 1 .. Cardinality(DOMAIN files) :
              i < j => Newer(FileListing[i], FileListing[j])
<1> DEFINE S == DOMAIN files
           R == {p \in S \X S : Newer(p[1], p[2])}
<1>1. \A x, y \in S : <<x, y>> \in R <=> Newer(x, y)
  OBVIOUS
<1>2. \A x \in S : x \in Int /\ files[x].sequence \in Int
  BY DEF FilesInv, FilesTypeOK, File
<1> HIDE DEF R
<1>3. Orders(R, S)
  BY <1>1, <1>2 DEF Orders, Newer
<1>4. IsFiniteSet(S)
  BY DEF FilesInv
<1>5. \E seq \in [1 .. Cardinality(S) -> S] :
        \A i, j \in 1 .. Cardinality(S) : i < j => Newer(seq[i], seq[j])
  <2>1. PICK seq : Lists(seq, S, R)
    BY <1>3, <1>4, CanBeSorted
  <2> QED BY <1>1, <2>1 DEF Lists
<1>6. /\ FileListing \in [1 .. Cardinality(S) -> S]
      /\ \A i, j \in 1 .. Cardinality(S) : i < j => Newer(FileListing[i], FileListing[j])
  BY <1>5 DEF FileListing, Sorted
<1>7. Lists(FileListing, S, R)
  BY <1>1, <1>6 DEF Lists
<1>8. /\ Cardinality(S) \in Nat
      /\ \A x \in S : \E i \in 1 .. Cardinality(S) : FileListing[i] = x
  BY <1>3, <1>4, <1>7, SortedFacts
<1> QED BY <1>6, <1>8

\* Sorting by sequence is sorting by the order in which uploads ended: GET /files
\* shows every file there is, each once, latest first (listFiles).
THEOREM NewestFirst == FilesSpec => []ListedNewestFirst
<1> SUFFICES FilesInv => ListedNewestFirst
  BY FilesInvariance, PTL
<1> SUFFICES ASSUME FilesInv PROVE ListedNewestFirst
  OBVIOUS
<1> DEFINE n == Cardinality(DOMAIN files)
<1>1. /\ n \in Nat /\ FileListing \in [1 .. n -> DOMAIN files] /\ DOMAIN FileListing = 1 .. n
      /\ \A x \in DOMAIN files : \E i \in 1 .. n : FileListing[i] = x
      /\ \A i, j \in 1 .. n : i < j => Newer(FileListing[i], FileListing[j])
  BY FileListingFacts
<1> HIDE DEF n
<1>2. ToSet(FileListing) = DOMAIN files
  BY <1>1 DEF ToSet
<1>3. Len(FileListing) = n
  BY <1>1
<1>4. \A x, y \in DOMAIN files : Newer(x, y) => x > y
  <2>1. \A x \in DOMAIN files : x \in Int /\ files[x].sequence \in Int
    BY DEF FilesInv, FilesTypeOK, File
  <2> QED BY <2>1 DEF FilesInv, LaterIsHigher, Newer
<1>5. ASSUME NEW i \in 1 .. n, NEW j \in 1 .. n, i < j,
             NEW k \in DOMAIN finished, NEW l \in DOMAIN finished,
             finished[k] = FileListing[i], finished[l] = FileListing[j]
      PROVE  k > l
  <2>1. finished[k] > finished[l]
    BY <1>1, <1>4, <1>5
  <2>2. k \in Int /\ l \in Int /\ finished[k] \in Int /\ finished[l] \in Int
    BY DEF FilesInv, FinishedInOrder
  <2>3. ~ (k < l) /\ k # l
    BY <2>1, <2>2 DEF FilesInv, FinishedInOrder
  <2> QED BY <2>2, <2>3
<1> QED BY <1>1, <1>2, <1>3, <1>5 DEF ListedNewestFirst, n

-----------------------------------------------------------------------------
\* A refusal leaves every file, and only a delete or a reset takes one away.
THEOREM NothingEvicted == FilesSpec => OnlyDeleteRemoves
<1> DEFINE Kept == \A id \in DOMAIN files : id \in DOMAIN files' /\ files'[id] = files[id]
           Step == /\ reply'.op = "upload" /\ reply'.status # 201 => files' = files
                   /\ reply'.op \notin {"delete", "reset"} => Kept
<1>1. ASSUME FilesInv, NEW u \in Upload, StoreUpload(u) PROVE Step
  <2>1. reply' = [op |-> "upload", status |-> 201]
    BY <1>1 DEF StoreUpload, Respond
  <2> QED BY <1>1, <2>1, StoreEffect
<1>2. ASSUME NEW u \in Upload,
             \/ StartUpload(u) \/ ReceiveChunk(u) \/ Abort(u)
             \/ RejectTooLarge(u) \/ RejectUnnamed(u) \/ RejectFull(u)
      PROVE  Step
  BY <1>2 DEF StartUpload, ReceiveChunk, Abort, RejectTooLarge, RejectUnnamed, RejectFull,
              AfterRefusal
<1>3. ASSUME NEW id \in DOMAIN files, DeleteFileById(id) PROVE Step
  BY <1>3 DEF DeleteFileById, Respond
<1>4. ASSUME Reset PROVE Step
  BY <1>4 DEF Reset, Respond
<1>5. ASSUME Missing PROVE Step
  BY <1>5 DEF Missing
<1>6. FilesInv /\ [FilesNext]_filesVars => [Step]_filesVars
  BY <1>1, <1>2, <1>3, <1>4, <1>5 DEF FilesNext
<1> QED BY <1>6, FilesInvariance, PTL DEF FilesSpec, OnlyDeleteRemoves

-----------------------------------------------------------------------------
(* PageWalk. *)

\* The rows there are have a kind and a rank, and ids that were handed out.
RowsAreTyped ==
  /\ store.next \in 1 .. MaxId + 1
  /\ DOMAIN store.rows \subseteq 1 .. store.next - 1
  /\ \A i \in DOMAIN store.rows : store.rows[i] \in Row

\* The rows a listing shows before x, and how many they are.
Earlier(x, query) == {y \in Matching(query.filter) : Precedes(y, x, query.order)}
Ahead(x, query) == Cardinality(Earlier(x, query))

\* The order of a query, as a relation.
Precedence(query) ==
  {p \in Matching(query.filter) \X Matching(query.filter) : Precedes(p[1], p[2], query.order)}

-----------------------------------------------------------------------------
\* Kinds and ranks can be compared.
LEMMA FieldsAreNumbers == (\A k \in Kind : k \in Int) /\ (\A k \in Rank : k \in Int)
BY FieldAssumption

\* Precedes, said of the fields alone.
FieldsPrecede(x, y, kind, rank, order) ==
  \/ order = "oldest" /\ x < y
  \/ order = "newest" /\ x > y
  \/ order = "up" /\ (rank[x] < rank[y] \/ (rank[x] = rank[y] /\ x < y))
  \/ order = "down" /\ (rank[x] > rank[y] \/ (rank[x] = rank[y] /\ x < y))
  \/ order = "resource" /\ (kind[x] < kind[y] \/ (kind[x] = kind[y] /\ x < y))

\* Every order there is puts any two rows in order, whatever their fields.
LEMMA EveryOrderOrders ==
  ASSUME NEW M, M \subseteq Int, NEW kind \in [M -> Int], NEW rank \in [M -> Int],
         NEW order \in Order
  PROVE  Orders({p \in M \X M : FieldsPrecede(p[1], p[2], kind, rank, order)}, M)
<1>1. \A x \in M : ~ FieldsPrecede(x, x, kind, rank, order)
  BY DEF FieldsPrecede
<1>2. \A x, y \in M : x # y =>
        FieldsPrecede(x, y, kind, rank, order) \/ FieldsPrecede(y, x, kind, rank, order)
  BY DEF Order, FieldsPrecede
<1>3. \A x, y, z \in M :
        FieldsPrecede(x, y, kind, rank, order) /\ FieldsPrecede(y, z, kind, rank, order)
          => FieldsPrecede(x, z, kind, rank, order)
  BY DEF FieldsPrecede
<1> QED BY <1>1, <1>2, <1>3 DEF Orders

\* Each of the five orders puts the rows that match one after the other.
LEMMA PrecedenceOrders ==
  ASSUME RowsAreTyped, NEW query, query.order \in Order
  PROVE  /\ Orders(Precedence(query), Matching(query.filter))
         /\ \A x, y \in Matching(query.filter) :
              <<x, y>> \in Precedence(query) <=> Precedes(x, y, query.order)
<1> DEFINE M == Matching(query.filter)
           kind == [x \in M |-> store.rows[x].kind]
           rank == [x \in M |-> store.rows[x].rank]
<1>1. \A x, y \in M : <<x, y>> \in Precedence(query) <=> Precedes(x, y, query.order)
  BY DEF Precedence
<1>2. M \subseteq Int /\ kind \in [M -> Int] /\ rank \in [M -> Int]
  <2> SUFFICES ASSUME NEW x \in DOMAIN store.rows
               PROVE  x \in Int /\ store.rows[x].rank \in Int /\ store.rows[x].kind \in Int
    BY DEF Matching
  <2>1. x \in 1 .. store.next - 1 /\ store.next \in Int /\ store.rows[x] \in Row
    BY FieldAssumption DEF RowsAreTyped
  <2>2. store.rows[x].kind \in Kind /\ store.rows[x].rank \in Rank
    BY <2>1 DEF Row
  <2> QED BY <2>1, <2>2, FieldsAreNumbers
<1>3. ASSUME NEW x \in M, NEW y \in M
      PROVE  Precedes(x, y, query.order) <=> FieldsPrecede(x, y, kind, rank, query.order)
  <2>1. kind[x] = store.rows[x].kind /\ kind[y] = store.rows[y].kind
        /\ rank[x] = store.rows[x].rank /\ rank[y] = store.rows[y].rank
    OBVIOUS
  <2> HIDE DEF kind, rank, M
  <2> QED BY <2>1 DEF Precedes, ResourceFirst, Ties, Order, FieldsPrecede
<1>4. Orders({p \in M \X M : FieldsPrecede(p[1], p[2], kind, rank, query.order)}, M)
  <2> HIDE DEF M, kind, rank
  <2> QED BY <1>2, EveryOrderOrders
<1>5. Precedence(query) = {p \in M \X M : FieldsPrecede(p[1], p[2], kind, rank, query.order)}
  <2> HIDE DEF kind, rank
  <2> QED BY <1>3 DEF Precedence
<1> QED BY <1>1, <1>4, <1>5

\* Only so many rows can be told from a finite set of ids.
LEMMA MatchingFinite ==
  ASSUME RowsAreTyped, NEW filter
  PROVE  /\ IsFiniteSet(Matching(filter)) /\ Cardinality(Matching(filter)) \in 0 .. MaxId
         /\ Matching(filter) \subseteq 1 .. store.next - 1
         /\ Matching(filter) \subseteq 1 .. MaxId
<1>1. Matching(filter) \subseteq 1 .. MaxId /\ Matching(filter) \subseteq 1 .. store.next - 1
  BY FieldAssumption DEF RowsAreTyped, Matching
<1>2. IsFiniteSet(1 .. MaxId) /\ Cardinality(1 .. MaxId) = MaxId
  BY FieldAssumption, FS_Interval
<1>3. /\ IsFiniteSet(Matching(filter))
      /\ Cardinality(Matching(filter)) <= Cardinality(1 .. MaxId)
      /\ Cardinality(Matching(filter)) \in Nat
  BY <1>1, <1>2, FS_Subset, FS_CardinalityType
<1> QED BY <1>1, <1>2, <1>3, FieldAssumption

\* A row precedes another when fewer rows are ahead of it.
LEMMA AheadFacts ==
  ASSUME RowsAreTyped, NEW query, query.order \in Order,
         NEW x \in Matching(query.filter), NEW y \in Matching(query.filter)
  PROVE  /\ IsFiniteSet(Earlier(x, query)) /\ Ahead(x, query) \in Nat
         /\ Ahead(x, query) < Cardinality(Matching(query.filter))
         /\ Precedes(x, y, query.order) <=> Ahead(x, query) < Ahead(y, query)
         /\ Ahead(x, query) = Ahead(y, query) => x = y
<1> DEFINE M == Matching(query.filter)
           R == Precedence(query)
<1>1. IsFiniteSet(M) /\ Orders(R, M)
  BY MatchingFinite, PrecedenceOrders
<1>2. \A z \in M : Earlier(z, query) = Predecessors(M, R, z)
  BY PrecedenceOrders DEF Earlier, Predecessors
<1> HIDE DEF M, R
<1>3. \A u, v \in M :
        /\ IsFiniteSet(Predecessors(M, R, u)) /\ Cardinality(Predecessors(M, R, u)) \in Nat
        /\ Cardinality(Predecessors(M, R, u)) < Cardinality(M)
        /\ <<u, v>> \in R =>
             Cardinality(Predecessors(M, R, u)) < Cardinality(Predecessors(M, R, v))
  BY <1>1, FewerPredecessors
<1>4. x \in M /\ y \in M
  BY DEF M
<1>5. x = y \/ <<x, y>> \in R \/ <<y, x>> \in R
  BY <1>1, <1>4 DEF Orders
<1>6. <<x, y>> \in R <=> Precedes(x, y, query.order)
  BY <1>4, PrecedenceOrders DEF M, R
<1> QED BY <1>2, <1>3, <1>4, <1>5, <1>6 DEF Ahead, M

\* A listing shows every row once, each in the place that the rows ahead of it leave.
LEMMA ListingFacts ==
  ASSUME RowsAreTyped, NEW query, query.order \in Order
  PROVE  /\ Listing(query) \in Seq(Matching(query.filter))
         /\ Len(Listing(query)) = Cardinality(Matching(query.filter))
         /\ \A x \in Matching(query.filter) :
              Ahead(x, query) + 1 \in 1 .. Len(Listing(query))
              /\ Listing(query)[Ahead(x, query) + 1] = x
         /\ \A i \in 1 .. Len(Listing(query)) : Ahead(Listing(query)[i], query) = i - 1
<1> DEFINE M == Matching(query.filter)
           R == Precedence(query)
           n == Cardinality(M)
<1>1. IsFiniteSet(M) /\ Orders(R, M) /\ n \in Nat
  BY MatchingFinite, PrecedenceOrders
<1>2. \A x, y \in M : <<x, y>> \in R <=> Precedes(x, y, query.order)
  BY PrecedenceOrders
<1>3. Listing(query) = CHOOSE seq \in [1 .. n -> M] :
                         \A i, j \in 1 .. n : i < j => Precedes(seq[i], seq[j], query.order)
  BY DEF Listing, Sorted
<1> HIDE DEF M, R
<1>4. \E seq \in [1 .. n -> M] :
        \A i, j \in 1 .. n : i < j => Precedes(seq[i], seq[j], query.order)
  <2>1. PICK seq : Lists(seq, M, R)
    BY <1>1, CanBeSorted
  <2> QED BY <1>2, <2>1 DEF Lists
<1>5. /\ Listing(query) \in [1 .. n -> M]
      /\ \A i, j \in 1 .. n : i < j => Precedes(Listing(query)[i], Listing(query)[j], query.order)
  BY <1>3, <1>4
<1>6. Lists(Listing(query), M, R)
  BY <1>2, <1>5 DEF Lists
<1>7. /\ \A x \in M : \E i \in 1 .. n : Listing(query)[i] = x
      /\ \A i \in 1 .. n : Cardinality(Predecessors(M, R, Listing(query)[i])) = i - 1
  BY <1>1, <1>6, SortedFacts
<1>8. \A z \in M : Earlier(z, query) = Predecessors(M, R, z)
  BY PrecedenceOrders DEF Earlier, Predecessors, M, R
<1>9. \A i \in 1 .. n : Listing(query)[i] \in M /\ Ahead(Listing(query)[i], query) = i - 1
  BY <1>5, <1>7, <1>8 DEF Ahead
<1>10. Listing(query) \in Seq(M) /\ Len(Listing(query)) = n
  BY <1>1, <1>5
<1>11. \A x \in M : Ahead(x, query) + 1 \in 1 .. n /\ Listing(query)[Ahead(x, query) + 1] = x
  <2> SUFFICES ASSUME NEW x \in M
               PROVE  Ahead(x, query) + 1 \in 1 .. n /\ Listing(query)[Ahead(x, query) + 1] = x
    OBVIOUS
  <2>1. PICK i \in 1 .. n : Listing(query)[i] = x
    BY <1>7
  <2>2. Ahead(x, query) = i - 1
    BY <1>9, <2>1
  <2> QED BY <1>1, <2>1, <2>2
<1> QED BY <1>9, <1>10, <1>11 DEF M

-----------------------------------------------------------------------------
\* What a query string that is accepted asks for.
LEMMA QueryFacts ==
  ASSUME NEW raw \in RawQueries, ValidQuery(raw)
  PROVE  /\ ParseListQuery(raw).page \in Nat \ {0}
         /\ ParseListQuery(raw).limit \in 1 .. 100
         /\ ParseListQuery(raw).order \in Order
         /\ ParseListQuery(raw).order = OrderAsked(raw)
         /\ ParseListQuery(raw).filter = raw.filter
<1>1. raw \in RawQuery
  BY QueryAssumption
<1>2. raw.page = <<>> \/ raw.page[Len(raw.page)] \in Nat \ {0}
  BY DEF ValidQuery, LastQueryValue, Last
<1>3. raw.limit = <<>> \/ raw.limit[Len(raw.limit)] \in 1 .. 100
  BY DEF ValidQuery, LastQueryValue, Last
<1>4. raw.byDefault \in Order
  BY <1>1 DEF RawQuery, Order
<1>5. /\ ParseListQuery(raw).page = IF raw.page = <<>> THEN 1 ELSE raw.page[Len(raw.page)]
      /\ ParseListQuery(raw).limit = IF raw.limit = <<>> THEN 20 ELSE raw.limit[Len(raw.limit)]
      /\ ParseListQuery(raw).order = OrderAsked(raw)
      /\ ParseListQuery(raw).filter = raw.filter
  BY DEF ParseListQuery, ParsePositiveInt, ParseSort, OrderAsked, LastQueryValue, Last
<1>6. OrderAsked(raw) \in Order
  BY <1>4 DEF OrderAsked, Order
<1> QED BY <1>2, <1>3, <1>5, <1>6

\* There is another page when this one does not reach the end.
LEMMA HasNextFacts ==
  ASSUME NEW page \in Nat, NEW total \in Nat, NEW limit \in Nat \ {0}
  PROVE  /\ TotalPages(total, limit) \in Nat
         /\ HasNext(page, total, limit) <=> page * limit < total
<1> DEFINE n == total + limit - 1
           q == n \div limit
           r == n % limit
<1>1. n \in Nat /\ TotalPages(total, limit) = q
  BY DEF TotalPages
<1> HIDE DEF n
<1>2. q \in Int /\ r \in 0 .. limit - 1 /\ n = limit * q + r
  BY <1>1
<1> HIDE DEF q, r
<1>3. q >= 0
  <2> SUFFICES ASSUME q <= -1 PROVE FALSE
    BY <1>2
  <2>1. limit * q <= limit * (-1)
    BY <1>2
  <2> QED BY <2>1, <1>1, <1>2
<1>4. ASSUME page < q PROVE page * limit < total
  <2>1. limit * (page + 1) <= limit * q
    BY <1>2, <1>4
  <2>2. limit * (page + 1) = page * limit + limit /\ page * limit \in Int /\ limit * q \in Int
    BY <1>2
  <2> QED BY <2>1, <2>2, <1>1, <1>2 DEF n
<1>5. ASSUME q <= page PROVE total <= page * limit
  <2>1. limit * q <= limit * page
    BY <1>2, <1>5
  <2>2. limit * page = page * limit /\ page * limit \in Int /\ limit * q \in Int
    BY <1>2
  <2> QED BY <2>1, <2>2, <1>1, <1>2 DEF n
<1> QED
  <2>1. page * limit \in Int
    OBVIOUS
  <2> QED BY <2>1, <1>1, <1>2, <1>3, <1>4, <1>5 DEF HasNext

\* A shorter listing has no more pages.
LEMMA FewerPages ==
  ASSUME NEW total \in Nat, NEW larger \in Nat, total <= larger, NEW limit \in Nat \ {0}
  PROVE  TotalPages(total, limit) <= TotalPages(larger, limit)
<1> DEFINE q == TotalPages(larger, limit)
<1>1. q \in Nat /\ TotalPages(total, limit) \in Nat
  BY HasNextFacts
<1> SUFFICES ASSUME q < TotalPages(total, limit) PROVE FALSE
  BY <1>1
<1> HIDE DEF q
<1>2. q * limit \in Int /\ q * limit < total
  BY <1>1, HasNextFacts DEF HasNext
<1>3. q < TotalPages(larger, limit)
  <2>1. q * limit < larger
    BY <1>2
  <2> QED BY <2>1, <1>1, HasNextFacts DEF HasNext
<1> QED BY <1>1, <1>3 DEF q

\* The rows of a listing from one place to another, and which they are: those
\* that have as many ahead of them as their place says.
RowsBetween(query, from, to) == Slice(Listing(query), from + 1, to)

ShowsPlaces(rows, query, from, to) ==
  LET n == Cardinality(Matching(query.filter))
  IN  /\ rows \in Seq(Matching(query.filter))
      /\ Len(rows) = IF from >= n THEN 0 ELSE (IF to > n THEN n ELSE to) - from
      /\ \A i \in 1 .. Len(rows) :
           rows[i] \in Matching(query.filter) /\ Ahead(rows[i], query) = from + i - 1
      /\ \A x \in Matching(query.filter) :
           from <= Ahead(x, query) /\ Ahead(x, query) < to =>
             Ahead(x, query) - from + 1 \in 1 .. Len(rows)
             /\ rows[Ahead(x, query) - from + 1] = x

\* A page is the rows with the places between its bounds.
LEMMA PageFacts ==
  ASSUME RowsAreTyped, NEW query, query.order \in Order,
         NEW from \in Nat, NEW to \in Nat, from <= to
  PROVE  ShowsPlaces(RowsBetween(query, from, to), query, from, to)
<1> DEFINE M == Matching(query.filter)
           list == Listing(query)
           n == Cardinality(M)
           rows == RowsBetween(query, from, to)
           first == from + 1
           end == IF to > n THEN n ELSE to
<1>2. /\ list \in Seq(M) /\ Len(list) = n
      /\ \A x \in M : Ahead(x, query) + 1 \in 1 .. n /\ list[Ahead(x, query) + 1] = x
      /\ \A i \in 1 .. n : list[i] \in M /\ Ahead(list[i], query) = i - 1
  <2>1. /\ list \in Seq(M) /\ Len(list) = n
        /\ \A x \in M : Ahead(x, query) + 1 \in 1 .. Len(list) /\ list[Ahead(x, query) + 1] = x
        /\ \A i \in 1 .. Len(list) : Ahead(list[i], query) = i - 1
    BY ListingFacts
  <2> HIDE DEF list
  <2> QED BY <2>1
<1>3. n \in Nat
  BY MatchingFinite, FieldAssumption
<1>4. rows = SubSeq(list, from + 1, end)
  BY <1>2 DEF Slice, RowsBetween
<1>5. from + 1 \in Int /\ end \in Int /\ \A i \in from + 1 .. end : i \in 1 .. n
  BY <1>3
<1>ahead. \A x \in M : Ahead(x, query) \in Int
  BY AheadFacts
<1> HIDE DEF list, M, n, rows
<1>6. /\ rows \in Seq(M)
      /\ Len(rows) = IF from + 1 <= end THEN end - (from + 1) + 1 ELSE 0
      /\ \A i \in 1 .. end - (from + 1) + 1 : rows[i] = list[from + 1 + i - 1]
  <2>1. \A i \in from + 1 .. end : list[i] \in M
    BY <1>2, <1>5
  <2>2. rows = SubSeq(list, first, end)
    BY <1>4
  <2>3. first \in Int /\ end \in Int /\ \A i \in first .. end : list[i] \in M
    BY <1>5, <2>1
  <2> HIDE DEF end, first
  <2>4. /\ rows \in Seq(M)
        /\ Len(rows) = IF first <= end THEN end - first + 1 ELSE 0
        /\ \A i \in 1 .. end - first + 1 : rows[i] = list[first + i - 1]
    BY <2>2, <2>3, SubSeqProperties
  <2> QED BY <2>4 DEF first
<1>7. Len(rows) = IF from >= n THEN 0 ELSE end - from
  BY <1>3, <1>6
<1>8. ASSUME NEW i \in 1 .. Len(rows)
      PROVE  rows[i] \in M /\ Ahead(rows[i], query) = from + i - 1
  <2>1. /\ i \in Int /\ from + i \in 1 .. n /\ rows[i] = list[from + i]
    BY <1>3, <1>6, <1>7
  <2> QED BY <2>1, <1>2
<1>9. ASSUME NEW x \in M, from <= Ahead(x, query), Ahead(x, query) < to
      PROVE  /\ Ahead(x, query) - from + 1 \in 1 .. Len(rows)
             /\ rows[Ahead(x, query) - from + 1] = x
  <2> DEFINE a == Ahead(x, query)
             k == a - from + 1
  <2>1. a \in Int /\ a + 1 \in 1 .. n /\ list[a + 1] = x
    BY <1>2, <1>ahead
  <2>2. from <= a /\ a < to
    BY <1>9
  <2> HIDE DEF a
  <2>3. k \in 1 .. Len(rows)
    BY <2>1, <2>2, <1>3, <1>7
  <2>4. k \in 1 .. end - (from + 1) + 1 /\ from + 1 + k - 1 = a + 1
    BY <2>1, <2>2, <1>3
  <2>5. rows[k] = list[a + 1]
    BY <2>4, <1>6
  <2> QED BY <2>1, <2>3, <2>5 DEF a
<1> QED BY <1>6, <1>7, <1>8, <1>9 DEF list, M, n, rows, ShowsPlaces

-----------------------------------------------------------------------------
\* What the client asked for, and how many rows its pages have gone past.
Query == ParseListQuery(walk.query)
Asked == Matching(Query.filter)
Reached == (walk.page - 1) * Query.limit

WalkIsValid ==
  walk.on => ValidQuery(walk.query) /\ Seen \cup ToSet(walk.start) \subseteq 1 .. store.next - 1

\* Undisturbed, the client has seen the listing as far as it went.
SeenIsListed ==
  walk.on /\ FromTheTop /\ ~ walk.inserted /\ ~ walk.removed /\ Unchanged =>
    /\ Len(walk.seen) = IF Reached <= Cardinality(Asked) THEN Reached ELSE Cardinality(Asked)
    /\ \A i \in 1 .. Len(walk.seen) : walk.seen[i] \in Asked /\ Ahead(walk.seen[i], Query) = i - 1
    /\ ~ walk.more => Cardinality(Asked) <= Reached

\* A row that was there from the start and was not seen is still to come.
UnseenIsAhead ==
  walk.on /\ FromTheTop /\ ~ walk.removed /\ Unchanged =>
    \A x \in ToSet(walk.start) :
      x \in Asked /\ (x \notin Seen => walk.more /\ Reached <= Ahead(x, Query))

\* A row that was seen is behind the client, unless one came in ahead of it.
SeenIsBehind ==
  walk.on /\ Unchanged /\ (walk.inserted => OrderAsked(walk.query) = "oldest") =>
    /\ \A i, j \in 1 .. Len(walk.seen) : walk.seen[i] = walk.seen[j] => i = j
    /\ \A x \in Seen \cap Asked : Ahead(x, Query) < Reached

IInv == TypeOK /\ WalkIsValid /\ SeenIsListed /\ UnseenIsAhead /\ SeenIsBehind

-----------------------------------------------------------------------------
\* What the invariant says of a walk that is under way.
LEMMA WalkFacts ==
  ASSUME IInv
  PROVE  /\ RowsAreTyped
         /\ walk.on =>
              /\ walk \in Walk /\ ValidQuery(walk.query) /\ walk.query \in RawQueries
              /\ walk.page \in Nat \ {0} /\ walk.seen \in Seq(1 .. MaxId)
              /\ Query.page \in Nat \ {0} /\ Query.limit \in 1 .. 100 /\ Query.order \in Order
              /\ Query.order = OrderAsked(walk.query) /\ Query.filter = walk.query.filter
              /\ Reached \in Nat
              /\ Seen \subseteq 1 .. store.next - 1
              /\ ToSet(walk.start) \subseteq 1 .. store.next - 1
<1>1. RowsAreTyped
  BY DEF IInv, TypeOK, RowsAreTyped
<1>2. ASSUME walk.on
      PROVE  /\ walk \in Walk /\ ValidQuery(walk.query) /\ walk.query \in RawQueries
             /\ walk.page \in Nat \ {0} /\ walk.seen \in Seq(1 .. MaxId)
  <2>1. walk # Idle
    BY <1>2 DEF Idle
  <2>2. walk \in Walk /\ ValidQuery(walk.query)
    BY <1>2, <2>1 DEF IInv, TypeOK, WalkIsValid
  <2> QED BY <2>2 DEF Walk
<1>3. ASSUME walk.on
      PROVE  /\ Query.page \in Nat \ {0} /\ Query.limit \in 1 .. 100 /\ Query.order \in Order
             /\ Query.order = OrderAsked(walk.query) /\ Query.filter = walk.query.filter
  BY <1>2, <1>3, QueryFacts DEF Query
<1>4. ASSUME walk.on PROVE Reached \in Nat
  <2>1. walk.page \in Nat \ {0}
    BY <1>2, <1>4
  <2>2. Query.limit \in 1 .. 100
    BY <1>3, <1>4
  <2>3. walk.page - 1 \in Nat /\ Query.limit \in Nat
    BY <2>1, <2>2
  <2> QED BY <2>3 DEF Reached
<1> QED BY <1>1, <1>2, <1>3, <1>4 DEF IInv, WalkIsValid

\* As long as the rows stay, so do the listings.
LEMMA SameRows ==
  ASSUME UNCHANGED store
  PROVE  /\ \A filter : Matching(filter)' = Matching(filter)
         /\ \A x, query : Ahead(x, query)' = Ahead(x, query)
<1>1. \A filter : Matching(filter)' = Matching(filter)
  BY DEF Matching
<1>2. \A x, y, order : Precedes(x, y, order)' = Precedes(x, y, order)
  BY DEF Precedes, ResourceFirst, Ties
<1>3. \A x, query : Earlier(x, query)' = Earlier(x, query)
  BY <1>1, <1>2 DEF Earlier
<1> QED BY <1>1, <1>3 DEF Ahead

\* A walk starts before the first row.
LEMMA StartPreserves ==
  ASSUME IInv, NEW raw \in RawQueries, StartWalk(raw)
  PROVE  IInv'
<1> DEFINE query == ParseListQuery(raw)
<1>1. /\ ValidQuery(raw) /\ UNCHANGED store
      /\ walk' = [on |-> TRUE, query |-> raw, page |-> query.page, more |-> TRUE,
                  seen |-> <<>>, start |-> Listing(query),
                  inserted |-> FALSE, removed |-> FALSE, changed |-> FALSE]
  BY DEF StartWalk
<1>2. RowsAreTyped
  BY WalkFacts
<1>3. /\ query.page \in Nat \ {0} /\ query.limit \in 1 .. 100 /\ query.order \in Order
  BY <1>1, QueryFacts
<1>4. /\ Listing(query) \in Seq(Matching(query.filter))
      /\ Matching(query.filter) \subseteq 1 .. MaxId
      /\ Matching(query.filter) \subseteq 1 .. store.next - 1
  BY <1>2, <1>3, ListingFacts, MatchingFinite
<1>5. /\ Listing(query) \in Seq(1 .. MaxId)
      /\ ToSet(Listing(query)) \subseteq Matching(query.filter)
  <2> DEFINE list == Listing(query)
             M == Matching(query.filter)
  <2>1. list \in Seq(M) /\ M \subseteq 1 .. MaxId
    BY <1>4
  <2> HIDE DEF list, M
  <2>2. list \in Seq(1 .. MaxId)
    BY <2>1, SeqMonotonic
  <2>3. ToSet(list) \subseteq M
    BY <2>1 DEF ToSet
  <2> QED BY <2>2, <2>3 DEF list, M
<1>6. /\ \A filter : Matching(filter)' = Matching(filter)
      /\ \A x, q : Ahead(x, q)' = Ahead(x, q)
  BY <1>1, SameRows
<1>7. Query' = query /\ Asked' = Matching(query.filter)
  <2>1. Query' = query
    BY <1>1 DEF Query
  <2> QED BY <2>1, <1>6 DEF Asked
<1> HIDE DEF query
<1>8. AskedPage' = query.page /\ AskedLimit' = query.limit
  BY <1>7 DEF AskedPage, AskedLimit, Query
<1>9. TypeOK'
  <2>1. walk' \in Walk
    BY <1>1, <1>3, <1>5 DEF Walk
  <2>2. walk'.page = AskedPage'
    BY <1>1, <1>8
  <2> QED BY <2>1, <2>2, <1>1, <1>3, <1>8 DEF IInv, TypeOK
<1>10. WalkIsValid'
  <2>1. Seen' = {} /\ ToSet(walk'.start) \subseteq 1 .. store'.next - 1
    BY <1>1, <1>4, <1>5 DEF Seen, ToSet
  <2>2. walk'.query = raw
    BY <1>1
  <2> QED BY <1>1, <2>1, <2>2 DEF WalkIsValid, ValidQuery, IsSearch, ValidSearch, LastQueryValue
<1>11. FromTheTop' => Reached' = 0
  <2>1. Reached' = (query.page - 1) * query.limit
    BY <1>1, <1>7 DEF Reached
  <2>2. FromTheTop' => query.page - 1 = 0
    BY <1>8 DEF FromTheTop
  <2>3. 0 * query.limit = 0
    BY <1>3
  <2> QED BY <2>1, <2>2, <2>3
<1>12. SeenIsListed'
  <2>1. Cardinality(Asked') \in Nat
    BY <1>2, <1>7, MatchingFinite, FieldAssumption
  <2> QED BY <1>1, <1>11, <2>1 DEF SeenIsListed
<1>13. UnseenIsAhead'
  <2> SUFFICES ASSUME FromTheTop', NEW x \in ToSet(Listing(query))
               PROVE  x \in Asked' /\ 0 <= Ahead(x, query)
    BY <1>1, <1>6, <1>7, <1>11 DEF UnseenIsAhead
  <2>1. x \in Matching(query.filter)
    BY <1>5
  <2> QED BY <2>1, <1>2, <1>3, <1>7, AheadFacts
<1>14. SeenIsBehind'
  BY <1>1 DEF SeenIsBehind, Seen, ToSet
<1> QED BY <1>9, <1>10, <1>12, <1>13, <1>14 DEF IInv

\* A page takes the client one page further.
LEMMA FetchPreserves ==
  ASSUME IInv, FetchPage
  PROVE  IInv'
<1> DEFINE n == Cardinality(Asked)
           rows == Page(Listing(Query), walk.page, Query.limit)
           from == (walk.page - 1) * Query.limit
           to == walk.page * Query.limit
<1>1. /\ walk.on /\ walk.more /\ UNCHANGED store
      /\ walk' = [walk EXCEPT !.seen = @ \o rows,
                             !.more = HasNext(walk.page, Len(Listing(Query)), Query.limit),
                             !.page = @ + 1]
  BY DEF FetchPage, Query
<1>2. /\ RowsAreTyped /\ walk \in Walk /\ ValidQuery(walk.query) /\ walk.query \in RawQueries
      /\ walk.page \in Nat \ {0} /\ walk.seen \in Seq(1 .. MaxId)
      /\ Query.limit \in 1 .. 100 /\ Query.order \in Order
      /\ Seen \subseteq 1 .. store.next - 1
      /\ ToSet(walk.start) \subseteq 1 .. store.next - 1
  BY <1>1, WalkFacts
<1>range. Query.limit \in 1 .. 100
  BY <1>2
<1>limit. Query.limit \in Nat \ {0}
  BY <1>range
<1>page. walk.page \in Nat \ {0}
  BY <1>2
<1>typed. walk.seen \in Seq(1 .. MaxId) /\ walk.start \in Seq(1 .. MaxId)
  BY <1>2 DEF Walk
<1>3. /\ IsFiniteSet(Asked) /\ n \in 0 .. MaxId /\ n \in Nat /\ MaxId \in Nat
      /\ Asked \subseteq 1 .. store.next - 1 /\ Asked \subseteq 1 .. MaxId
      /\ Len(Listing(Query)) = n
  BY <1>2, MatchingFinite, ListingFacts, FieldAssumption DEF Asked
<1>4. /\ rows \in Seq(Asked) /\ from \in Nat /\ to \in Nat /\ to = from + Query.limit
      /\ Len(rows) = IF from >= n THEN 0 ELSE (IF to > n THEN n ELSE to) - from
      /\ \A i \in 1 .. Len(rows) : rows[i] \in Asked /\ Ahead(rows[i], Query) = from + i - 1
      /\ \A x \in Asked : from <= Ahead(x, Query) /\ Ahead(x, Query) < to =>
           Ahead(x, Query) - from + 1 \in 1 .. Len(rows)
           /\ rows[Ahead(x, Query) - from + 1] = x
  <2>1. RowsAreTyped /\ Query.order \in Order
    BY <1>2
  <2>2. from \in Nat /\ to \in Nat /\ to = from + Query.limit
    <3>1. walk.page - 1 \in Nat /\ Query.limit \in Nat /\ walk.page \in Nat
      BY <1>limit, <1>page
    <3>2. walk.page * Query.limit = (walk.page - 1) * Query.limit + Query.limit
      BY <3>1
    <3> QED BY <3>1, <3>2
  <2>3. rows = RowsBetween(Query, from, to)
    BY DEF RowsBetween, Page
  <2> HIDE DEF from, to, rows
  <2>4. from <= to
    BY <1>limit, <2>2
  <2>5. ShowsPlaces(rows, Query, from, to)
    BY <2>1, <2>2, <2>3, <2>4, PageFacts
  <2> QED BY <2>2, <2>5 DEF ShowsPlaces, Asked
<1>5. \A x \in Asked : Ahead(x, Query) \in Nat /\ Ahead(x, Query) < n
  BY <1>2, AheadFacts DEF Asked
<1>6. HasNext(walk.page, n, Query.limit) <=> to < n
  <2>1. walk.page \in Nat
    BY <1>page
  <2> QED BY <1>limit, <1>3, <2>1, HasNextFacts
<1> HIDE DEF n, rows, from, to
<1>7. /\ walk' \in Walk /\ walk'.on /\ walk'.query = walk.query
      /\ walk'.page = walk.page + 1 /\ walk'.more = HasNext(walk.page, n, Query.limit)
      /\ walk'.seen = walk.seen \o rows /\ walk'.start = walk.start
      /\ walk'.inserted = walk.inserted /\ walk'.removed = walk.removed
      /\ walk'.changed = walk.changed
  <2>1. rows \in Seq(1 .. MaxId)
    BY <1>3, <1>4, SeqMonotonic
  <2>2. walk.seen \o rows \in Seq(1 .. MaxId)
    BY <1>typed, <2>1
  <2>3. HasNext(walk.page, n, Query.limit) \in BOOLEAN
    BY DEF HasNext
  <2>4. walk.page + 1 \in Nat \ {0}
    BY <1>page
  <2>5. walk' = [walk EXCEPT !.seen = walk.seen \o rows,
                             !.more = HasNext(walk.page, n, Query.limit),
                             !.page = walk.page + 1]
    BY <1>1, <1>3
  <2>6. walk \in Walk
    BY <1>2
  <2> QED BY <2>2, <2>3, <2>4, <2>5, <2>6 DEF Walk
<1>8. Query' = Query /\ Reached' = to /\ Reached = from
  <2>1. Query' = Query
    BY <1>7 DEF Query
  <2>2. walk'.page - 1 = walk.page
    BY <1>2, <1>7
  <2> QED BY <2>1, <2>2 DEF Reached, from, to
<1>9. /\ Asked' = Asked /\ \A x : Ahead(x, Query)' = Ahead(x, Query)
      /\ FromTheTop' = FromTheTop /\ Unchanged' = Unchanged
  BY <1>1, <1>7, <1>8, SameRows DEF Asked, FromTheTop, AskedPage, Unchanged, Query
<1>10. /\ Len(rows) \in Nat /\ Len(walk.seen) \in Nat
       /\ Len(walk'.seen) = Len(walk.seen) + Len(rows)
       /\ \A i \in 1 .. Len(walk.seen) : walk'.seen[i] = walk.seen[i]
       /\ \A i \in 1 .. Len(rows) : walk'.seen[Len(walk.seen) + i] = rows[i]
       /\ \A i \in 1 .. Len(walk'.seen) :
            \/ i \in 1 .. Len(walk.seen)
            \/ \E k \in 1 .. Len(rows) : i = Len(walk.seen) + k
  <2>1. /\ Len(rows) \in Nat /\ Len(walk.seen) \in Nat
        /\ Len(walk'.seen) = Len(walk.seen) + Len(rows)
        /\ \A i \in 1 .. Len(walk.seen) : walk'.seen[i] = walk.seen[i]
        /\ \A i \in 1 .. Len(rows) : walk'.seen[Len(walk.seen) + i] = rows[i]
    <3>1. rows \in Seq(Asked) /\ walk'.seen = walk.seen \o rows
      BY <1>4, <1>7
    <3> QED BY <1>typed, <3>1
  <2>2. ASSUME NEW i \in 1 .. Len(walk.seen) + Len(rows), i \notin 1 .. Len(walk.seen)
        PROVE  i - Len(walk.seen) \in 1 .. Len(rows) /\ i = Len(walk.seen) + (i - Len(walk.seen))
    BY <2>1, <2>2
  <2> QED BY <2>1, <2>2
<1>11. Seen' = Seen \cup ToSet(rows) /\ ToSet(rows) \subseteq Asked
  <2>1. DOMAIN rows = 1 .. Len(rows) /\ DOMAIN walk.seen = 1 .. Len(walk.seen)
        /\ DOMAIN walk'.seen = 1 .. Len(walk'.seen)
    <3>1. rows \in Seq(Asked) /\ walk'.seen = walk.seen \o rows
      BY <1>4, <1>7
    <3> QED BY <1>typed, <3>1
  <2>2. Seen' \subseteq Seen \cup ToSet(rows)
    <3> SUFFICES ASSUME NEW i \in 1 .. Len(walk'.seen)
                 PROVE  walk'.seen[i] \in Seen \cup ToSet(rows)
      BY <2>1 DEF Seen, ToSet
    <3>1. CASE i \in 1 .. Len(walk.seen)
      BY <1>10, <2>1, <3>1 DEF Seen, ToSet
    <3>2. ASSUME NEW j \in 1 .. Len(rows), i = Len(walk.seen) + j
          PROVE  walk'.seen[i] \in ToSet(rows)
      BY <1>10, <2>1, <3>2 DEF ToSet
    <3> QED BY <1>10, <3>1, <3>2
  <2>3. Seen \subseteq Seen'
    <3>1. \A i \in 1 .. Len(walk.seen) : i \in 1 .. Len(walk'.seen)
      BY <1>10
    <3> QED BY <1>10, <2>1, <3>1 DEF Seen, ToSet
  <2>4. ToSet(rows) \subseteq Seen'
    <3>1. \A i \in 1 .. Len(rows) : Len(walk.seen) + i \in 1 .. Len(walk'.seen)
      BY <1>10
    <3> QED BY <1>10, <2>1, <3>1 DEF Seen, ToSet
  <2>5. ToSet(rows) \subseteq Asked
    BY <1>4, <2>1 DEF ToSet
  <2> QED BY <2>2, <2>3, <2>4, <2>5
<1>12. TypeOK'
  <2>1. walk'.more => walk'.page \in 1 .. TotalPages(MaxId, Query.limit)
    <3>2. /\ TotalPages(n, Query.limit) <= TotalPages(MaxId, Query.limit)
          /\ TotalPages(n, Query.limit) \in Nat /\ TotalPages(MaxId, Query.limit) \in Nat
      BY <1>3, <1>limit, HasNextFacts, FewerPages
    <3>3. walk'.more => walk.page < TotalPages(n, Query.limit)
      BY <1>7 DEF HasNext
    <3> QED BY <1>page, <1>7, <3>2, <3>3
  <2>2. AskedLimit' = Query.limit
    BY <1>8 DEF AskedLimit, Query
  <2> QED BY <1>1, <1>2, <1>7, <2>1, <2>2 DEF IInv, TypeOK
<1>13. WalkIsValid'
  <2>1. ValidQuery(walk.query)'
    <3>1. walk'.query = walk.query /\ ValidQuery(walk.query)
      BY <1>2, <1>7
    <3> QED BY <3>1 DEF ValidQuery, IsSearch, ValidSearch, LastQueryValue
  <2>2. Seen' \subseteq 1 .. store'.next - 1
    BY <1>1, <1>2, <1>3, <1>11
  <2> QED BY <1>1, <1>2, <1>7, <2>1, <2>2 DEF WalkIsValid
<1>14. SeenIsListed'
  <2> SUFFICES ASSUME FromTheTop, ~ walk.inserted, ~ walk.removed, Unchanged
               PROVE  /\ Len(walk'.seen) = IF to <= n THEN to ELSE n
                      /\ \A i \in 1 .. Len(walk'.seen) :
                           walk'.seen[i] \in Asked /\ Ahead(walk'.seen[i], Query) = i - 1
                      /\ ~ walk'.more => n <= to
    BY <1>7, <1>8, <1>9 DEF SeenIsListed, n
  <2>1. /\ Len(walk.seen) = IF from <= n THEN from ELSE n
        /\ \A i \in 1 .. Len(walk.seen) :
             walk.seen[i] \in Asked /\ Ahead(walk.seen[i], Query) = i - 1
    BY <1>1, <1>8 DEF IInv, SeenIsListed, n
  <2>2. Len(walk'.seen) = IF to <= n THEN to ELSE n
    BY <1>limit, <1>3, <1>4, <1>10, <2>1
  <2>3. ASSUME NEW i \in 1 .. Len(walk'.seen)
        PROVE  walk'.seen[i] \in Asked /\ Ahead(walk'.seen[i], Query) = i - 1
    <3>1. CASE i \in 1 .. Len(walk.seen)
      BY <1>10, <2>1, <3>1
    <3>2. ASSUME NEW j \in 1 .. Len(rows), i = Len(walk.seen) + j
          PROVE  walk'.seen[i] \in Asked /\ Ahead(walk'.seen[i], Query) = i - 1
      <4>1. walk'.seen[i] = rows[j]
        BY <1>10, <3>2
      <4>2. Len(walk.seen) = from
        BY <1>3, <1>4, <2>1
      <4> QED BY <1>4, <3>2, <4>1, <4>2
    <3> QED BY <1>10, <3>1, <3>2
  <2>4. ~ walk'.more => n <= to
    BY <1>3, <1>4, <1>6, <1>7
  <2> QED BY <2>2, <2>3, <2>4
<1>15. UnseenIsAhead'
  <2> SUFFICES ASSUME FromTheTop, ~ walk.removed, Unchanged, NEW x \in ToSet(walk.start)
               PROVE  x \in Asked /\ (x \notin Seen' => walk'.more /\ to <= Ahead(x, Query))
    BY <1>7, <1>8, <1>9 DEF UnseenIsAhead
  <2>1. x \in Asked /\ (x \notin Seen => from <= Ahead(x, Query))
    BY <1>1, <1>8 DEF IInv, UnseenIsAhead
  <2>2. ASSUME x \notin Seen' PROVE to <= Ahead(x, Query)
    <3> SUFFICES ASSUME Ahead(x, Query) < to PROVE FALSE
      BY <1>4, <1>5, <2>1
    <3>1. from <= Ahead(x, Query)
      BY <1>11, <2>1, <2>2
    <3>2. x \in ToSet(rows)
      <4>1. /\ Ahead(x, Query) - from + 1 \in 1 .. Len(rows)
            /\ rows[Ahead(x, Query) - from + 1] = x
        BY <1>4, <2>1, <3>1
      <4>2. DOMAIN rows = 1 .. Len(rows)
        BY <1>4
      <4> QED BY <4>1, <4>2 DEF ToSet
    <3> QED BY <1>11, <2>2, <3>2
  <2>3. x \notin Seen' => walk'.more
    BY <1>3, <1>4, <1>5, <1>6, <1>7, <2>1, <2>2
  <2> QED BY <2>1, <2>2, <2>3
<1>16. SeenIsBehind'
  <2> SUFFICES ASSUME Unchanged, walk.inserted => OrderAsked(walk.query) = "oldest"
               PROVE  /\ \A i, j \in 1 .. Len(walk'.seen) :
                           walk'.seen[i] = walk'.seen[j] => i = j
                      /\ \A x \in Seen' \cap Asked : Ahead(x, Query) < to
    BY <1>7, <1>8, <1>9 DEF SeenIsBehind, OrderAsked
  <2>1. /\ \A i, j \in 1 .. Len(walk.seen) : walk.seen[i] = walk.seen[j] => i = j
        /\ \A x \in Seen \cap Asked : Ahead(x, Query) < from
    BY <1>1, <1>8 DEF IInv, SeenIsBehind
  <2>2. \A i \in 1 .. Len(walk.seen) : walk.seen[i] \in Seen
    <3>1. DOMAIN walk.seen = 1 .. Len(walk.seen)
      BY <1>typed
    <3> QED BY <3>1 DEF Seen, ToSet
  <2>3. \A j \in 1 .. Len(rows) : rows[j] \in Asked /\ from <= Ahead(rows[j], Query)
    BY <1>4
  <2>4. \A i \in 1 .. Len(walk.seen), j \in 1 .. Len(rows) : walk.seen[i] # rows[j]
    <3> SUFFICES ASSUME NEW i \in 1 .. Len(walk.seen), NEW j \in 1 .. Len(rows),
                        walk.seen[i] = rows[j]
                 PROVE  FALSE
      OBVIOUS
    <3>1. rows[j] \in Asked /\ from <= Ahead(rows[j], Query) /\ Ahead(rows[j], Query) < from
      BY <2>1, <2>2, <2>3
    <3> QED BY <1>4, <1>5, <3>1
  <2>5. \A i, j \in 1 .. Len(rows) : rows[i] = rows[j] => i = j
    <3> SUFFICES ASSUME NEW i \in 1 .. Len(rows), NEW j \in 1 .. Len(rows), rows[i] = rows[j]
                 PROVE  i = j
      OBVIOUS
    <3>1. from + i - 1 = from + j - 1
      BY <1>4
    <3> QED BY <1>4, <1>10, <3>1
  <2>6. ASSUME NEW i \in 1 .. Len(walk'.seen), NEW j \in 1 .. Len(walk'.seen),
               walk'.seen[i] = walk'.seen[j]
        PROVE  i = j
    <3>1. CASE i \in 1 .. Len(walk.seen) /\ j \in 1 .. Len(walk.seen)
      BY <1>10, <2>1, <2>6, <3>1
    <3>2. ASSUME NEW k \in 1 .. Len(rows), i = Len(walk.seen) + k, j \in 1 .. Len(walk.seen)
          PROVE  FALSE
      <4>1. walk.seen[j] = rows[k]
        BY <1>10, <2>6, <3>2
      <4> QED BY <2>4, <3>2, <4>1
    <3>3. ASSUME NEW k \in 1 .. Len(rows), j = Len(walk.seen) + k, i \in 1 .. Len(walk.seen)
          PROVE  FALSE
      <4>1. walk.seen[i] = rows[k]
        BY <1>10, <2>6, <3>3
      <4> QED BY <2>4, <3>3, <4>1
    <3>4. ASSUME NEW k \in 1 .. Len(rows), i = Len(walk.seen) + k,
                 NEW l \in 1 .. Len(rows), j = Len(walk.seen) + l
          PROVE  i = j
      <4>1. rows[k] = rows[l]
        BY <1>10, <2>6, <3>4
      <4> QED BY <2>5, <3>4, <4>1
    <3> QED BY <1>10, <3>1, <3>2, <3>3, <3>4
  <2>7. ASSUME NEW x \in Seen' \cap Asked PROVE Ahead(x, Query) < to
    <3>1. CASE x \in Seen
      BY <1>limit, <1>4, <1>5, <2>1, <2>7, <3>1
    <3>2. CASE x \in ToSet(rows)
      <4>1. PICK j \in 1 .. Len(rows) : rows[j] = x
        <5>1. DOMAIN rows = 1 .. Len(rows)
          BY <1>4
        <5> QED BY <3>2, <5>1 DEF ToSet
      <4>2. Ahead(x, Query) = from + j - 1
        BY <1>4, <4>1
      <4> QED BY <1>3, <1>4, <4>2
    <3> QED BY <1>11, <2>7, <3>1, <3>2
  <2> QED BY <2>6, <2>7
<1> QED BY <1>12, <1>13, <1>14, <1>15, <1>16 DEF IInv

\* A client that stops has nothing left to rely on.
LEMMA EndPreserves ==
  ASSUME IInv, EndWalk
  PROVE  IInv'
<1>1. walk' = Idle /\ ~ walk'.on /\ UNCHANGED store
  BY DEF EndWalk, Idle
<1> QED BY <1>1 DEF IInv, TypeOK, WalkIsValid, SeenIsListed, UnseenIsAhead, SeenIsBehind

\* What the other clients leave of a walk.
LEMMA NoteFacts ==
  ASSUME IInv, NEW insert \in BOOLEAN, NEW remove \in BOOLEAN, NEW change \in BOOLEAN,
         Note(insert, remove, change)
  PROVE  /\ walk' = Idle \/ walk' \in Walk
         /\ walk'.on <=> walk.on
         /\ walk.on =>
              /\ walk'.query = walk.query /\ walk'.page = walk.page /\ walk'.more = walk.more
              /\ walk'.seen = walk.seen /\ walk'.start = walk.start
              /\ walk'.inserted <=> walk.inserted \/ insert
              /\ walk'.removed <=> walk.removed \/ remove
              /\ walk'.changed <=> walk.changed \/ change
              /\ Query' = Query /\ Reached' = Reached /\ Seen' = Seen
              /\ FromTheTop' = FromTheTop
<1>1. CASE ~ walk.on
  BY <1>1 DEF Note, IInv, TypeOK
<1>2. CASE walk.on
  <2>1. walk \in Walk
    BY <1>2, WalkFacts
  <2>2. walk' = [walk EXCEPT !.inserted = @ \/ insert, !.removed = @ \/ remove,
                             !.changed = @ \/ change]
    BY <1>2 DEF Note
  <2>3. /\ walk' \in Walk /\ walk'.on
        /\ walk'.query = walk.query /\ walk'.page = walk.page /\ walk'.more = walk.more
        /\ walk'.seen = walk.seen /\ walk'.start = walk.start
        /\ walk'.inserted = (walk.inserted \/ insert)
        /\ walk'.removed = (walk.removed \/ remove)
        /\ walk'.changed = (walk.changed \/ change)
    BY <2>1, <2>2 DEF Walk
  <2>4. Query' = Query
    BY <2>3 DEF Query
  <2> QED BY <1>2, <2>3, <2>4 DEF Reached, Seen, FromTheTop, AskedPage, Query
<1> QED BY <1>1, <1>2

\* Of the typing, what is left to show when the rows change under a walk.
LEMMA OthersKeepTypes ==
  ASSUME IInv, NEW insert \in BOOLEAN, NEW remove \in BOOLEAN, NEW change \in BOOLEAN,
         Note(insert, remove, change), RowsAreTyped', store.next <= store'.next
  PROVE  TypeOK' /\ WalkIsValid'
<1>1. /\ walk' = Idle \/ walk' \in Walk
      /\ walk'.on <=> walk.on
      /\ walk.on =>
           /\ walk'.query = walk.query /\ walk'.page = walk.page /\ walk'.more = walk.more
           /\ walk'.start = walk.start /\ Query' = Query /\ Seen' = Seen
  BY NoteFacts
<1>2. store.next \in Int /\ store'.next \in Int
  BY WalkFacts, FieldAssumption DEF RowsAreTyped
<1>3. TypeOK'
  <2>1. walk.on => AskedLimit' = AskedLimit /\ AskedPage' = AskedPage
    BY <1>1 DEF AskedLimit, AskedPage, Query
  <2> QED BY <1>1, <2>1 DEF IInv, TypeOK, RowsAreTyped
<1>4. WalkIsValid'
  <2> SUFFICES ASSUME walk.on
               PROVE  ValidQuery(walk.query)' /\ Seen \cup ToSet(walk.start) \subseteq 1 .. store'.next - 1
    BY <1>1 DEF WalkIsValid
  <2>1. walk'.query = walk.query /\ ValidQuery(walk.query)
    BY <1>1, WalkFacts
  <2>2. ValidQuery(walk.query)'
    BY <2>1 DEF ValidQuery, IsSearch, ValidSearch, LastQueryValue
  <2>3. Seen \cup ToSet(walk.start) \subseteq 1 .. store.next - 1
    BY WalkFacts
  <2> QED BY <1>2, <2>2, <2>3
<1> QED BY <1>3, <1>4

\* A row changed under it, a walk has nothing left to rely on.
LEMMA ChangePreserves ==
  ASSUME IInv, NEW id \in DOMAIN store.rows, NEW row \in Row, ChangeRow(id, row)
  PROVE  IInv'
<1>1. /\ store' = UpdateRow(store, id, row) /\ Note(FALSE, FALSE, TRUE)
  BY DEF ChangeRow
<1>2. RowsAreTyped' /\ store'.next = store.next
  <2>1. RowsAreTyped
    BY WalkFacts
  <2> QED BY <1>1, <2>1 DEF RowsAreTyped, UpdateRow, Update
<1>3. store.next <= store'.next
  BY <1>2, WalkFacts, FieldAssumption DEF RowsAreTyped
<1>4. TypeOK' /\ WalkIsValid'
  BY <1>1, <1>2, <1>3, OthersKeepTypes
<1>5. walk'.on => ~ Unchanged'
  BY <1>1, NoteFacts DEF Unchanged
<1> QED BY <1>4, <1>5 DEF IInv, SeenIsListed, UnseenIsAhead, SeenIsBehind

\* A row gone, the others move towards the front.
LEMMA DeletePreserves ==
  ASSUME IInv, NEW id \in DOMAIN store.rows, DeleteRow(id)
  PROVE  IInv'
<1>1. store' = DropRow(store, id) /\ Note(FALSE, TRUE, FALSE)
  BY DEF DeleteRow
<1>2. /\ RowsAreTyped
      /\ store.next \in Int
  BY WalkFacts, FieldAssumption DEF RowsAreTyped
<1>3. /\ store'.next = store.next /\ DOMAIN store'.rows = DOMAIN store.rows \ {id}
      /\ \A i \in DOMAIN store'.rows : store'.rows[i] = store.rows[i]
  BY <1>1 DEF DropRow, Drop
<1>4. RowsAreTyped' /\ store.next <= store'.next
  BY <1>2, <1>3 DEF RowsAreTyped
<1>5. TypeOK' /\ WalkIsValid'
  BY <1>1, <1>4, OthersKeepTypes
<1>6. walk'.on => walk'.removed
  BY <1>1, NoteFacts
<1>7. SeenIsBehind'
  <2> SUFFICES ASSUME walk.on, Unchanged, walk.inserted => OrderAsked(walk.query) = "oldest"
               PROVE  /\ \A i, j \in 1 .. Len(walk.seen) : walk.seen[i] = walk.seen[j] => i = j
                      /\ \A x \in Seen \cap Asked' : Ahead(x, Query)' < Reached
    BY <1>1, NoteFacts DEF SeenIsBehind, Unchanged, OrderAsked
  <2>1. /\ \A i, j \in 1 .. Len(walk.seen) : walk.seen[i] = walk.seen[j] => i = j
        /\ \A x \in Seen \cap Asked : Ahead(x, Query) < Reached
    BY DEF IInv, SeenIsBehind
  <2>2. Query' = Query /\ Query.order \in Order /\ Reached \in Nat
    BY <1>1, NoteFacts, WalkFacts
  <2>3. ASSUME NEW x \in Asked' PROVE x \in Asked /\ Earlier(x, Query)' \subseteq Earlier(x, Query)
    <3>1. Asked' \subseteq Asked /\ Asked' \subseteq DOMAIN store'.rows
      BY <1>3, <2>2 DEF Asked, Matching
    <3>2. ASSUME NEW y \in Asked', Precedes(y, x, Query.order)'
          PROVE  Precedes(y, x, Query.order)
      BY <1>3, <2>2, <2>3, <3>1, <3>2 DEF Precedes, ResourceFirst, Ties
    <3> QED BY <2>2, <2>3, <3>1, <3>2 DEF Earlier, Asked
  <2>4. ASSUME NEW x \in Seen \cap Asked' PROVE Ahead(x, Query)' < Reached
    <3>1. x \in Asked /\ Earlier(x, Query)' \subseteq Earlier(x, Query)
      BY <2>3, <2>4
    <3>2. /\ IsFiniteSet(Earlier(x, Query)) /\ Ahead(x, Query) \in Nat
          /\ Ahead(x, Query) < Reached
      BY <1>2, <2>1, <2>2, <2>4, <3>1, AheadFacts DEF Asked
    <3>3. /\ Cardinality(Earlier(x, Query)') <= Cardinality(Earlier(x, Query))
          /\ Cardinality(Earlier(x, Query)') \in Nat
      BY <3>1, <3>2, FS_Subset, FS_CardinalityType
    <3>4. Ahead(x, Query)' = Cardinality(Earlier(x, Query)')
      BY DEF Ahead
    <3> QED BY <2>2, <3>2, <3>3, <3>4 DEF Ahead
  <2> QED BY <2>1, <2>4
<1> QED BY <1>5, <1>6, <1>7 DEF IInv, SeenIsListed, UnseenIsAhead

\* A new row moves others back, but none where the oldest come first.
LEMMA CreatePreserves ==
  ASSUME IInv, NEW row \in Row, CreateRow(row)
  PROVE  IInv'
<1>0. PICK new : new = store.next
  OBVIOUS
<1>1. /\ store.next <= MaxId /\ store' = Insert(store, row) /\ Note(TRUE, FALSE, FALSE)
  BY DEF CreateRow
<1>2. RowsAreTyped /\ new \in Nat /\ new \in 1 .. MaxId + 1
  BY <1>0, WalkFacts, FieldAssumption DEF RowsAreTyped
<1>3. \A i \in DOMAIN store.rows : i \in Int /\ i < new
  BY <1>0, <1>2 DEF RowsAreTyped
<1>4. /\ store'.next = new + 1 /\ DOMAIN store'.rows = DOMAIN store.rows \cup {new}
      /\ store'.rows[new] = row /\ \A i \in DOMAIN store.rows : store'.rows[i] = store.rows[i]
  BY <1>0, <1>1, <1>3 DEF Insert, Put
<1>5. RowsAreTyped' /\ store.next <= store'.next
  <2>1. store'.next \in 1 .. MaxId + 1
    BY <1>0, <1>1, <1>2, <1>4, FieldAssumption
  <2>2. DOMAIN store'.rows \subseteq 1 .. store'.next - 1
    BY <1>0, <1>2, <1>4 DEF RowsAreTyped
  <2>3. \A i \in DOMAIN store'.rows : store'.rows[i] \in Row
    BY <1>0, <1>2, <1>4 DEF RowsAreTyped
  <2> QED BY <1>0, <1>2, <1>4, <2>1, <2>2, <2>3 DEF RowsAreTyped
<1>6. TypeOK' /\ WalkIsValid'
  BY <1>1, <1>5, OthersKeepTypes
<1>7. walk'.on => walk'.inserted
  BY <1>1, NoteFacts
<1>8. ASSUME walk.on
      PROVE  /\ Query' = Query /\ Query.order \in Order /\ Reached \in Nat
             /\ Query.order = OrderAsked(walk.query)
             /\ Seen \subseteq 1 .. new - 1 /\ ToSet(walk.start) \subseteq 1 .. new - 1
  BY <1>0, <1>1, <1>8, NoteFacts, WalkFacts
<1>9. ASSUME walk.on, NEW x, x \in Asked
      PROVE  /\ x \in Asked' /\ Earlier(x, Query) \subseteq Earlier(x, Query)'
             /\ Earlier(x, Query)' \subseteq Earlier(x, Query) \cup {new}
             /\ Query.order = "oldest" => Earlier(x, Query)' = Earlier(x, Query)
  <2>1. Asked \subseteq Asked' /\ Asked' \subseteq Asked \cup {new} /\ Asked \subseteq DOMAIN store.rows
    BY <1>4, <1>8, <1>9 DEF Asked, Matching
  <2>2. ASSUME NEW y \in Asked
        PROVE  Precedes(y, x, Query.order)' <=> Precedes(y, x, Query.order)
    BY <1>4, <1>8, <1>9, <2>1 DEF Precedes, ResourceFirst, Ties
  <2>3. Query.order = "oldest" => ~ Precedes(new, x, Query.order)'
    <3>1. x \in Int /\ x < new /\ new \in Int
      BY <1>2, <1>3, <1>9, <2>1
    <3>2. Query.order = "oldest" => Query'.order = "oldest"
      BY <1>8, <1>9
    <3>3. Query'.order = "oldest" => (Precedes(new, x, Query.order)' <=> new < x)
      BY DEF Precedes
    <3> QED BY <3>1, <3>2, <3>3
  <2>4. /\ Earlier(x, Query) = {y \in Asked : Precedes(y, x, Query.order)}
        /\ Earlier(x, Query)' = {y \in Asked' : Precedes(y, x, Query.order)'}
    BY DEF Earlier, Asked
  <2> QED BY <1>9, <2>1, <2>2, <2>3, <2>4
<1>10. ASSUME walk.on, NEW x, x \in Asked
       PROVE  /\ Ahead(x, Query) \in Nat /\ Ahead(x, Query)' \in Nat
              /\ Ahead(x, Query) <= Ahead(x, Query)'
              /\ Query.order = "oldest" => Ahead(x, Query)' = Ahead(x, Query)
  <2>1. IsFiniteSet(Earlier(x, Query)) /\ Ahead(x, Query) \in Nat
    BY <1>2, <1>8, <1>10, AheadFacts DEF Asked
  <2>2. /\ Earlier(x, Query) \subseteq Earlier(x, Query)'
        /\ Earlier(x, Query)' \subseteq Earlier(x, Query) \cup {new}
        /\ Query.order = "oldest" => Earlier(x, Query)' = Earlier(x, Query)
    BY <1>9, <1>10
  <2>3. IsFiniteSet(Earlier(x, Query)')
    BY <2>1, <2>2, FS_AddElement, FS_Subset
  <2>4. /\ Cardinality(Earlier(x, Query)) <= Cardinality(Earlier(x, Query)')
        /\ Cardinality(Earlier(x, Query)') \in Nat
    BY <2>2, <2>3, FS_Subset, FS_CardinalityType
  <2>5. Ahead(x, Query)' = Cardinality(Earlier(x, Query)')
    BY DEF Ahead
  <2> QED BY <2>1, <2>2, <2>4, <2>5 DEF Ahead
<1>11. UnseenIsAhead'
  <2> SUFFICES ASSUME walk.on, FromTheTop, ~ walk.removed, Unchanged, NEW x \in ToSet(walk.start)
               PROVE  x \in Asked' /\ (x \notin Seen => walk.more /\ Reached <= Ahead(x, Query)')
    BY <1>1, NoteFacts DEF UnseenIsAhead, Unchanged
  <2>1. x \in Asked /\ (x \notin Seen => walk.more /\ Reached <= Ahead(x, Query))
    BY DEF IInv, UnseenIsAhead
  <2>2. x \in Asked' /\ Ahead(x, Query) \in Nat /\ Ahead(x, Query)' \in Nat
        /\ Ahead(x, Query) <= Ahead(x, Query)'
    BY <1>9, <1>10, <2>1
  <2> QED BY <1>8, <2>1, <2>2
<1>12. SeenIsBehind'
  <2> SUFFICES ASSUME walk.on, Unchanged, OrderAsked(walk.query) = "oldest"
               PROVE  /\ \A i, j \in 1 .. Len(walk.seen) : walk.seen[i] = walk.seen[j] => i = j
                      /\ \A x \in Seen \cap Asked' : Ahead(x, Query)' < Reached
    BY <1>1, NoteFacts DEF SeenIsBehind, Unchanged, OrderAsked
  <2>1. /\ \A i, j \in 1 .. Len(walk.seen) : walk.seen[i] = walk.seen[j] => i = j
        /\ \A x \in Seen \cap Asked : Ahead(x, Query) < Reached
    BY DEF IInv, SeenIsBehind
  <2>2. ASSUME NEW x \in Seen \cap Asked' PROVE Ahead(x, Query)' < Reached
    <3>1. x # new
      BY <1>2, <1>8, <2>2
    <3>2. x \in Asked
      BY <1>4, <1>8, <2>2, <3>1 DEF Asked, Matching
    <3> QED BY <1>8, <1>10, <2>1, <2>2, <3>2
  <2> QED BY <2>1, <2>2
<1> QED BY <1>6, <1>7, <1>11, <1>12 DEF IInv, SeenIsListed

\* A refused query changes nothing, and so does a step that is not the listing's.
LEMMA NothingPreserves ==
  ASSUME IInv, UNCHANGED vars
  PROVE  IInv'
<1>1. store' = store /\ walk' = walk
  BY DEF vars
<1>2. TypeOK' /\ WalkIsValid'
  BY <1>1 DEF IInv, TypeOK, WalkIsValid, AskedPage, AskedLimit, Seen, ValidQuery
<1>3. /\ Query' = Query /\ Asked' = Asked /\ Reached' = Reached /\ Seen' = Seen
      /\ AskedPage' = AskedPage
  BY <1>1 DEF Query, Asked, Reached, Seen, AskedPage, Matching
<1>4. \A x : Ahead(x, Query)' = Ahead(x, Query)
  BY <1>1, <1>3, SameRows
<1> QED BY <1>1, <1>2, <1>3, <1>4
        DEF IInv, SeenIsListed, UnseenIsAhead, SeenIsBehind, FromTheTop, Unchanged

\* Every step of the client and of the others keeps the invariant.
LEMMA WalkStepPreserves ==
  ASSUME IInv, [Next]_vars
  PROVE  IInv'
<1>1. ASSUME NEW raw \in RawQueries, StartWalk(raw) PROVE IInv'
  BY <1>1, StartPreserves
<1>2. ASSUME NEW raw \in RawQueries, RefuseQuery(raw) PROVE IInv'
  BY <1>2, NothingPreserves DEF RefuseQuery
<1>3. ASSUME FetchPage PROVE IInv'
  BY <1>3, FetchPreserves
<1>4. ASSUME EndWalk PROVE IInv'
  BY <1>4, EndPreserves
<1>5. ASSUME NEW row \in Row, CreateRow(row) PROVE IInv'
  BY <1>5, CreatePreserves
<1>6. ASSUME NEW id \in DOMAIN store.rows, DeleteRow(id) PROVE IInv'
  BY <1>6, DeletePreserves
<1>7. ASSUME NEW id \in DOMAIN store.rows, NEW row \in Row, ChangeRow(id, row) PROVE IInv'
  BY <1>7, ChangePreserves
<1> QED BY <1>1, <1>2, <1>3, <1>4, <1>5, <1>6, <1>7, NothingPreserves DEF Next

\* It holds before the first request.
LEMMA WalkInitHolds == Init => IInv
<1> SUFFICES ASSUME Init PROVE IInv
  OBVIOUS
<1>1. /\ store.rows = EmptyStore /\ store.next = 1 /\ walk = Idle /\ ~ walk.on
  BY ResetRowsFacts, EmptyStoreFacts, FS_EmptySet DEF Init, Idle, ResetRows
<1> QED BY <1>1, EmptyStoreFacts, FieldAssumption
        DEF IInv, TypeOK, WalkIsValid, SeenIsListed, UnseenIsAhead, SeenIsBehind

\* Whatever the query, the fields, the rows and the interference, the invariant holds.
THEOREM PageWalkInvariance == Spec => []IInv
<1>1. IInv /\ [Next]_vars => IInv'
  BY WalkStepPreserves
<1> QED BY WalkInitHolds, <1>1, PTL DEF Spec

\* Ids stay below the next one, pages have a size from 1 to 100, and no client is
\* sent past the last page there can be: what TypeOK says, for every query string,
\* every kind and rank, and any number of rows.
THEOREM PageWalkTypeCorrect == Spec => []TypeOK
<1>1. IInv => TypeOK
  BY DEF IInv
<1> QED BY PageWalkInvariance, <1>1, PTL

\* Nobody interfered: the pages put together are the listing.
LEMMA QuietWalkFacts == IInv => QuietWalkIsTheListing
<1> SUFFICES ASSUME IInv, Finished, FromTheTop, ~ walk.inserted, ~ walk.removed, Unchanged
             PROVE  IsListing(walk.seen, walk.query)
  BY DEF QuietWalkIsTheListing
<1> DEFINE M == Matching(walk.query.filter)
           n == Cardinality(M)
<1>1. /\ RowsAreTyped /\ walk.seen \in Seq(1 .. MaxId)
      /\ Query.order \in Order /\ Query.order = OrderAsked(walk.query) /\ M = Asked
      /\ Reached \in Nat
  BY WalkFacts DEF Finished, Asked
<1>2. IsFiniteSet(M) /\ n \in Nat
  BY <1>1, MatchingFinite
<1>3. /\ Len(walk.seen) = IF Reached <= n THEN Reached ELSE n
      /\ \A i \in 1 .. Len(walk.seen) : walk.seen[i] \in M /\ Ahead(walk.seen[i], Query) = i - 1
      /\ n <= Reached
  BY <1>1 DEF IInv, SeenIsListed, Finished
<1>4. Len(walk.seen) = n
  BY <1>1, <1>2, <1>3
<1>5. \A x \in M : x \in ToSet(walk.seen)
  <2> SUFFICES ASSUME NEW x \in M PROVE x \in ToSet(walk.seen)
    OBVIOUS
  <2>1. Ahead(x, Query) \in Nat /\ Ahead(x, Query) < n
    BY <1>1, AheadFacts DEF Asked
  <2>2. Ahead(x, Query) + 1 \in 1 .. n
    BY <1>2, <2>1
  <2>3. PICK i \in 1 .. n : i = Ahead(x, Query) + 1
    BY <2>2
  <2>4. walk.seen[i] \in M /\ Ahead(walk.seen[i], Query) = Ahead(x, Query)
    BY <1>3, <1>4, <2>1, <2>3
  <2>5. walk.seen[i] = x
    BY <1>1, <2>4, AheadFacts DEF Asked
  <2> QED BY <1>1, <1>4, <2>3, <2>5 DEF ToSet
<1>6. ToSet(walk.seen) = M
  BY <1>1, <1>3, <1>5 DEF ToSet
<1>7. ASSUME NEW i \in DOMAIN walk.seen, NEW j \in DOMAIN walk.seen, i < j
      PROVE  /\ walk.seen[i] \in DOMAIN store.rows /\ walk.seen[j] \in DOMAIN store.rows
             /\ Precedes(walk.seen[i], walk.seen[j], Query.order)
  <2>1. i \in 1 .. Len(walk.seen) /\ j \in 1 .. Len(walk.seen)
    BY <1>1
  <2>2. /\ walk.seen[i] \in M /\ Ahead(walk.seen[i], Query) = i - 1
        /\ walk.seen[j] \in M /\ Ahead(walk.seen[j], Query) = j - 1
    BY <1>3, <2>1
  <2>3. Ahead(walk.seen[i], Query) < Ahead(walk.seen[j], Query)
    BY <1>7, <2>1, <2>2
  <2> QED BY <1>1, <2>2, <2>3, AheadFacts DEF Asked, Matching
<1>8. ASSUME NEW i \in DOMAIN walk.seen, NEW j \in DOMAIN walk.seen, i < j
      PROVE  LET a == store.rows[walk.seen[i]].rank
                 b == store.rows[walk.seen[j]].rank
                 order == OrderAsked(walk.query)
             IN CASE order = "oldest" -> walk.seen[i] < walk.seen[j]
                  [] order = "newest" -> walk.seen[i] > walk.seen[j]
                  [] order = "up" -> a <= b /\ (a = b => walk.seen[i] < walk.seen[j])
                  [] order = "down" -> a >= b /\ (a = b => walk.seen[i] < walk.seen[j])
                  [] order = "resource" ->
                       LET first == store.rows[walk.seen[i]].kind
                           second == store.rows[walk.seen[j]].kind
                       IN  first <= second /\ (first = second => walk.seen[i] < walk.seen[j])
  <2>1. /\ walk.seen[i] \in DOMAIN store.rows /\ walk.seen[j] \in DOMAIN store.rows
        /\ Precedes(walk.seen[i], walk.seen[j], Query.order)
    BY <1>7, <1>8
  <2>2. /\ store.rows[walk.seen[i]] \in Row /\ store.rows[walk.seen[j]] \in Row
    BY <1>1, <2>1 DEF RowsAreTyped
  <2>3. /\ store.rows[walk.seen[i]].rank \in Int /\ store.rows[walk.seen[j]].rank \in Int
        /\ store.rows[walk.seen[i]].kind \in Int /\ store.rows[walk.seen[j]].kind \in Int
    BY <2>2, FieldsAreNumbers DEF Row
  <2>4. PICK i1, j1, a, b, first, second :
          /\ i1 = walk.seen[i] /\ j1 = walk.seen[j]
          /\ a = store.rows[i1].rank /\ b = store.rows[j1].rank
          /\ first = store.rows[i1].kind /\ second = store.rows[j1].kind
    OBVIOUS
  <2>5. PICK order : order = Query.order
    OBVIOUS
  <2>6. /\ order = "oldest" => i1 < j1
        /\ order = "newest" => i1 > j1
        /\ order = "up" => a < b \/ (a = b /\ i1 < j1)
        /\ order = "down" => a > b \/ (a = b /\ i1 < j1)
        /\ order = "resource" => first < second \/ (first = second /\ i1 < j1)
    BY <2>1, <2>4, <2>5 DEF Precedes, Ties, ResourceFirst
  <2>7. a \in Int /\ b \in Int /\ first \in Int /\ second \in Int
    BY <2>3, <2>4
  <2>8. i1 \in Int /\ j1 \in Int
    BY <1>1, <2>1, <2>4 DEF RowsAreTyped
  <2>9. /\ order \in Order /\ order = OrderAsked(walk.query)
    BY <1>1, <2>5
  <2>10. /\ order = "oldest" => i1 < j1
         /\ order = "newest" => i1 > j1
         /\ order = "up" => a <= b /\ (a = b => i1 < j1)
         /\ order = "down" => a >= b /\ (a = b => i1 < j1)
         /\ order = "resource" => first <= second /\ (first = second => i1 < j1)
    BY <2>6, <2>7, <2>8
  <2> QED BY <2>4, <2>9, <2>10 DEF Order
<1> HIDE DEF M, n
<1>9. M = Matching(walk.query.filter) /\ n = Cardinality(M)
  BY DEF M, n
<1> QED BY <1>4, <1>6, <1>8, <1>9 DEF IsListing

\* Undisturbed, the pages put together are the listing: each row once, in the order
\* asked for, ties oldest first (applyListQuery and the pagination envelope).
THEOREM QuietWalk == Spec => []QuietWalkIsTheListing
BY PageWalkInvariance, QuietWalkFacts, PTL

\* As long as nothing is deleted or changed, a walk from the first page to the last
\* sees every row that was there when it began, whatever was created meanwhile.
THEOREM NothingSkipped == Spec => []NothingSkippedUnlessRemoved
<1>1. IInv => NothingSkippedUnlessRemoved
  BY DEF IInv, UnseenIsAhead, NothingSkippedUnlessRemoved, Finished
<1> QED BY PageWalkInvariance, <1>1, PTL

\* As long as nothing is changed, and nothing created ahead of the client, no row is
\* shown twice, whatever was deleted meanwhile.
THEOREM NothingRepeated == Spec => []NothingRepeatedUnlessInserted
<1>1. IInv => NothingRepeatedUnlessInserted
  <2> SUFFICES ASSUME IInv, walk.on, Unchanged, walk.inserted => OrderAsked(walk.query) = "oldest"
               PROVE  Cardinality(Seen) = Len(walk.seen)
    BY DEF NothingRepeatedUnlessInserted
  <2>1. walk.seen \in Seq(1 .. MaxId) /\ Len(walk.seen) \in Nat
    BY WalkFacts
  <2>2. \A i, j \in 1 .. Len(walk.seen) : walk.seen[i] = walk.seen[j] => i = j
    BY DEF IInv, SeenIsBehind
  <2>3. /\ walk.seen \in [1 .. Len(walk.seen) -> Seen]
        /\ \A x \in Seen : \E i \in 1 .. Len(walk.seen) : walk.seen[i] = x
    BY <2>1 DEF Seen, ToSet
  <2>4. walk.seen \in Bijection(1 .. Len(walk.seen), Seen)
    BY <2>2, <2>3, Fun_IsBij
  <2> QED BY <2>1, <2>4, FS_CountingElements DEF ExistsBijection
<1> QED BY PageWalkInvariance, <1>1, PTL
=============================================================================
