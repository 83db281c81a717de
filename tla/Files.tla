--------------------------------- MODULE Files ---------------------------------
(***************************************************************************)
(* POST /files, GET /files, GET and DELETE /files/:id, and the file half of *)
(* POST /admin/reset.                                                       *)
(*                                                                         *)
(* An upload is the only request that takes more than one step: multer      *)
(* gathers the body in memory, chunk by chunk, while other requests are     *)
(* handled; the handler itself (postFile) runs when the part is complete.   *)
(* A client may go away before that.  A file id is never drawn twice        *)
(* (randomUUID): `drawn` counts them, and `finished` remembers, in order,   *)
(* the files stored since the last reset.                                   *)
(***************************************************************************)
EXTENDS Stores, SequencesExt

CONSTANTS
  Upload,            \* connections that may be uploading at the same time
  MaxStoredFiles,    \* config.maxStoredFiles
  MaxFileSize,       \* config.maxFileSize, in chunks
  MaxDrawn           \* bound: file ids drawn

ASSUME ConfigAssumption ==
  MaxStoredFiles \in Nat \ {0} /\ MaxFileSize \in Nat \ {0} /\ MaxDrawn \in Nat

VARIABLES
  files,             \* fileStore: id -> [size, sequence]
  nextSequence,
  drawn,
  finished,
  uploads,           \* upload -> [size, named, full]: what multer holds so far
  reply              \* the latest response

filesVars == <<files, nextSequence, drawn, finished, uploads, reply>>

File == [size : 0 .. MaxFileSize, sequence : Nat \ {0}]

\* named: the part is called "upload".  full (no state of the code): whether the
\* store was full when the request began.
Part == [size : 0 .. MaxFileSize, named : BOOLEAN, full : BOOLEAN]

Respond(op, status) == reply' = [op |-> op, status |-> status]

StoreFull == Cardinality(DOMAIN files) >= MaxStoredFiles

-----------------------------------------------------------------------------
\* Mutant: the limit is checked before the body is read.
FullAtStart(u) == uploads[u].full

\* The limit is checked when the body is complete.
Full(u) == StoreFull

\* Mutant: sequence numbers count the files there are.
SequenceFromSize == Cardinality(DOMAIN files)

\* nextFileSequence: the counter, advanced by one.
LastSequence == nextSequence

\* GET /files: newest first, by sequence; ties, if there were any, in the order of
\* the store.
Newer(i, j) ==
  \/ files[i].sequence > files[j].sequence
  \/ files[i].sequence = files[j].sequence /\ i < j

FileListing == Sorted(DOMAIN files, Newer)

\* Mutant: a refusal makes room for the retry.
RoomMade == Drop(files, Last(FileListing))

AfterRefusal == files

FilesAfterReset == EmptyStore

-----------------------------------------------------------------------------
FilesInit ==
  /\ files = EmptyStore
  /\ nextSequence = 0
  /\ drawn = 0
  /\ finished = <<>>
  /\ uploads = EmptyStore
  /\ reply = [op |-> "start", status |-> 200]

StartUpload(u) ==
  /\ u \notin DOMAIN uploads
  /\ \E named \in BOOLEAN :
       uploads' = Put(uploads, u, [size |-> 0, named |-> named, full |-> StoreFull])
  /\ UNCHANGED <<files, nextSequence, drawn, finished, reply>>

ReceiveChunk(u) ==
  /\ u \in DOMAIN uploads
  /\ uploads[u].named
  /\ uploads[u].size < MaxFileSize
  /\ uploads' = [uploads EXCEPT ![u].size = @ + 1]
  /\ UNCHANGED <<files, nextSequence, drawn, finished, reply>>

\* LIMIT_FILE_SIZE: 413, and what was gathered is let go.
RejectTooLarge(u) ==
  /\ u \in DOMAIN uploads
  /\ uploads[u].named
  /\ uploads[u].size = MaxFileSize
  /\ uploads' = Drop(uploads, u)
  /\ Respond("upload", 413)
  /\ UNCHANGED <<files, nextSequence, drawn, finished>>

\* A part of another name (LIMIT_UNEXPECTED_FILE), or none at all.
RejectUnnamed(u) ==
  /\ u \in DOMAIN uploads
  /\ ~ uploads[u].named
  /\ uploads' = Drop(uploads, u)
  /\ Respond("upload", 400)
  /\ UNCHANGED <<files, nextSequence, drawn, finished>>

Abort(u) ==
  /\ u \in DOMAIN uploads
  /\ uploads' = Drop(uploads, u)
  /\ UNCHANGED <<files, nextSequence, drawn, finished, reply>>

\* uploadFile; a file of no bytes is a file.
StoreUpload(u) ==
  /\ u \in DOMAIN uploads
  /\ uploads[u].named
  /\ ~ Full(u)
  /\ drawn < MaxDrawn
  /\ drawn' = drawn + 1
  /\ nextSequence' = LastSequence + 1
  /\ files' = Put(files, drawn + 1, [size |-> uploads[u].size, sequence |-> LastSequence + 1])
  /\ finished' = Append(finished, drawn + 1)
  /\ uploads' = Drop(uploads, u)
  /\ Respond("upload", 201)

RejectFull(u) ==
  /\ u \in DOMAIN uploads
  /\ uploads[u].named
  /\ Full(u)
  /\ files' = AfterRefusal
  /\ uploads' = Drop(uploads, u)
  /\ Respond("upload", 409)
  /\ UNCHANGED <<nextSequence, drawn, finished>>

DeleteFileById(id) ==
  /\ id \in DOMAIN files
  /\ files' = Drop(files, id)
  /\ Respond("delete", 204)
  /\ UNCHANGED <<nextSequence, drawn, finished, uploads>>

\* GET or DELETE of an id that is not there (404) or no id at all (400).
Missing ==
  /\ \E status \in {400, 404} : Respond("missing", status)
  /\ UNCHANGED <<files, nextSequence, drawn, finished, uploads>>

\* fileStore.reset([]), resetFileSequence(): uploads that are under way go on.
Reset ==
  /\ files' = FilesAfterReset
  /\ nextSequence' = 0
  /\ finished' = <<>>
  /\ Respond("reset", 200)
  /\ UNCHANGED <<drawn, uploads>>

FilesNext ==
  \/ \E u \in Upload :
       \/ StartUpload(u) \/ ReceiveChunk(u) \/ Abort(u) \/ StoreUpload(u)
       \/ RejectTooLarge(u) \/ RejectUnnamed(u) \/ RejectFull(u)
  \/ \E id \in DOMAIN files : DeleteFileById(id)
  \/ Missing
  \/ Reset

FilesSpec == FilesInit /\ [][FilesNext]_filesVars

-----------------------------------------------------------------------------
(* Properties. *)

\* Stored files are finished uploads of at most the size allowed.
FilesTypeOK ==
  /\ DOMAIN files \subseteq ToSet(finished)
  /\ \A id \in DOMAIN files : files[id] \in File /\ files[id].sequence <= nextSequence
  /\ drawn \in 0 .. MaxDrawn /\ ToSet(finished) \subseteq 1 .. drawn
  /\ DOMAIN uploads \subseteq Upload
  /\ \A u \in DOMAIN uploads : uploads[u] \in Part
  /\ nextSequence \in Nat

\* However many uploads were under way when the store filled up, it never holds
\* more than MAX_STORED_FILES.
CapacityIsKept == Cardinality(DOMAIN files) <= MaxStoredFiles

\* The listing shows the files in the reverse order of their completion, however
\* uploads overlap, whatever is deleted in between, also right after a reset.
ListedNewestFirst ==
  /\ ToSet(FileListing) = DOMAIN files
  /\ Len(FileListing) = Cardinality(DOMAIN files)
  /\ \A i, j \in DOMAIN FileListing : i < j =>
       \A m, n \in DOMAIN finished :
         finished[m] = FileListing[i] /\ finished[n] = FileListing[j] => m > n

\* A refused upload leaves no trace and evicts nothing: only a delete or a reset
\* makes a file go.
OnlyDeleteRemoves ==
  [][/\ reply'.op = "upload" /\ reply'.status # 201 => files' = files
     /\ reply'.op \notin {"delete", "reset"} =>
          \A id \in DOMAIN files : id \in DOMAIN files' /\ files'[id] = files[id]]_filesVars
=============================================================================
