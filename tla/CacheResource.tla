---------------------------- MODULE CacheResource -----------------------------
(***************************************************************************)
(* /cache/resource: one resource with two validators, its version (ETag)    *)
(* and the millisecond of its last write (Last-Modified), read by caching   *)
(* clients with conditional requests, and set back by POST /admin/reset.    *)
(*                                                                         *)
(* A client keeps the last full answer with its validators, and sends back  *)
(* either, both, or a header the server cannot read.  `epoch` counts resets *)
(* and is no state of the code.                                             *)
(***************************************************************************)
EXTENDS Stores

CONSTANTS
  Client,
  Content,
  SeedContent,       \* SEED_CONTENT
  LastClock,          \* bound on the clock
  MaxVersion,        \* bound on the version
  MaxEpoch           \* bound on resets

ASSUME ContentAssumption == SeedContent \in Content
ASSUME CacheBoundAssumption == {LastClock, MaxVersion} \subseteq Nat \ {0} /\ MaxEpoch \in Nat

VARIABLES
  resource,          \* [content, version, updatedAt]
  clock,
  epoch,
  copies,            \* client -> its cached answer
  answer              \* the latest answer to a GET

cacheVars == <<resource, clock, epoch, copies, answer>>

\* The seeded timestamp lies before the server's start.
SeedDate == 0

Resource == [content : Content, version : Nat \ {0}, updatedAt : SeedDate .. LastClock]
Copy == [content : Content, version : Nat \ {0}, updatedAt : SeedDate .. LastClock,
         epoch : 0 .. MaxEpoch]

\* What a client puts into a conditional header: its copy's validator, garbage,
\* or no header.
Header == {"own", "garbage", "none"}

NoReply == [status |-> 0]

-----------------------------------------------------------------------------
(* The resource. *)

Seed == [content |-> SeedContent, version |-> 1, updatedAt |-> SeedDate]

Updated(content) ==
  [content |-> content, version |-> resource.version + 1, updatedAt |-> clock]

EtagMatches(copy, header) == header = "own" /\ copy.version = resource.version

\* Mutant: strictly later.
LaterThanModified(copy, header) == header = "own" /\ copy.updatedAt > resource.updatedAt

NotModifiedSince(copy, header) == header = "own" /\ copy.updatedAt >= resource.updatedAt

\* Mutant: either header may match.
EitherMatches(copy, etag, date) ==
  EtagMatches(copy, etag) \/ NotModifiedSince(copy, date)

\* If-None-Match decides alone when it is there.
MatchesConditional(copy, etag, date) ==
  IF etag # "none" THEN EtagMatches(copy, etag) ELSE NotModifiedSince(copy, date)

-----------------------------------------------------------------------------
CacheInit ==
  /\ resource = Seed
  /\ clock = SeedDate + 1
  /\ epoch = 0
  /\ copies = EmptyStore
  /\ answer = NoReply

Answer(c, status, etag, date) ==
  answer' = [status |-> status, etag |-> etag, date |-> date,
            copy |-> IF c \in DOMAIN copies THEN copies[c] ELSE NoReply]

\* 200: the client keeps the answer.
GetFull(c, etag, date) ==
  /\ c \in DOMAIN copies => ~ MatchesConditional(copies[c], etag, date)
  /\ c \notin DOMAIN copies => etag # "own" /\ date # "own"
  /\ copies' = Put(copies, c, [content |-> resource.content, version |-> resource.version,
                               updatedAt |-> resource.updatedAt, epoch |-> epoch])
  /\ Answer(c, 200, etag, date)
  /\ UNCHANGED <<resource, clock, epoch>>

\* 304: the client goes on showing its copy.
GetNotModified(c, etag, date) ==
  /\ c \in DOMAIN copies
  /\ MatchesConditional(copies[c], etag, date)
  /\ Answer(c, 304, etag, date)
  /\ UNCHANGED <<resource, clock, epoch, copies>>

PutCacheResource(content) ==
  /\ resource.version < MaxVersion
  /\ resource' = Updated(content)
  /\ answer' = NoReply
  /\ UNCHANGED <<clock, epoch, copies>>

\* cacheResourceStore.reset
ResetCache ==
  /\ epoch < MaxEpoch
  /\ resource' = Seed
  /\ epoch' = epoch + 1
  /\ answer' = NoReply
  /\ UNCHANGED <<clock, copies>>

ClockTick ==
  /\ clock < LastClock
  /\ clock' = clock + 1
  /\ answer' = NoReply
  /\ UNCHANGED <<resource, epoch, copies>>

CacheNext ==
  \/ \E c \in Client, etag, date \in Header :
       GetFull(c, etag, date) \/ GetNotModified(c, etag, date)
  \/ \E content \in Content : PutCacheResource(content)
  \/ ResetCache
  \/ ClockTick

CacheSpec == CacheInit /\ [][CacheNext]_cacheVars

-----------------------------------------------------------------------------
(* Properties. *)

\* The resource has been written in the past, and so has every copy.
CacheTypeOK ==
  /\ resource \in Resource /\ resource.updatedAt <= clock
  /\ DOMAIN copies \subseteq Client
  /\ \A c \in DOMAIN copies : copies[c] \in Copy /\ copies[c].updatedAt <= clock
  /\ clock \in SeedDate + 1 .. LastClock /\ epoch \in 0 .. MaxEpoch

\* The answer is about a copy of this life of the resource.
AboutCurrentLife == answer.status # 0 /\ answer.copy # NoReply /\ answer.copy.epoch = epoch

\* Between two resets a client that is told 304 shows what the server has,
\* unless it asked by date alone and the resource was written again in the very
\* millisecond of its copy.
NotModifiedIsTrue ==
  AboutCurrentLife /\ answer.status = 304 =>
    \/ answer.copy.content = resource.content /\ answer.copy.version = resource.version
    \/ answer.etag = "none" /\ answer.copy.updatedAt = resource.updatedAt

\* Between two resets nobody fetches twice what it already has: 200 means that
\* the resource was written since, or that the client's headers said nothing.
FullOnlyWhenNeeded ==
  AboutCurrentLife /\ answer.status = 200 =>
    \/ answer.copy.version < resource.version
    \/ answer.etag = "garbage"
    \/ answer.etag = "none" /\ answer.date # "own"
=============================================================================
