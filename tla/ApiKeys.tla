-------------------------------- MODULE ApiKeys --------------------------------
(***************************************************************************)
(* API keys: POST /auth/api-key, POST /auth/api-key/revoke, the apiKeyAuth  *)
(* middleware in front of GET /api-key/protected, and the key half of       *)
(* POST /admin/auth/reset.                                                  *)
(*                                                                         *)
(* A key is the 256 random bits it is looked up by, never drawn twice.  The *)
(* label, the key id and the time of issue are left out; an expiry lies     *)
(* EXPIRED_OFFSET_MS in the past when it is set, so the clock is too.       *)
(*                                                                         *)
(* Two variables are history, not state of the code: `kindOf` remembers     *)
(* every key handed out, with the kind it was asked for, also after the     *)
(* server has forgotten it; `told` remembers, of every key a response was   *)
(* ever about, what the latest one since the last reset said of it.         *)
(***************************************************************************)
EXTENDS Stores

CONSTANTS
  ApiKey,            \* key values
  NoApiKey           \* the header is absent or empty

ASSUME NoKeyAssumption == NoApiKey \notin ApiKey

VARIABLES
  apiKeys,           \* apiKeyStore: key -> [revoked, expires]
  kindOf,            \* keys handed out since the start -> the kind asked for
  told               \* keys asked about since the last reset -> the latest answer

vars == <<apiKeys, kindOf, told>>

Kinds == {"valid", "expired", "revoked"}
Statuses == {"active", "expired", "revoked"}
Standings == Statuses \cup {"missing", "unrecognized"}

Record == [revoked : BOOLEAN, expires : BOOLEAN]

-----------------------------------------------------------------------------
\* The three cases of issueApiKey.
Stored(kind) == [revoked |-> kind = "revoked", expires |-> kind = "expired"]

\* Mutant: revoking toggles.
Toggled(k) == Update(apiKeys, k, [apiKeys[k] EXCEPT !.revoked = ~ @])

\* Mutant: the record is changed in place, and keys of one kind share theirs.
RevokedInPlace(k) ==
  [i \in DOMAIN apiKeys |->
     IF apiKeys[i] = apiKeys[k] THEN [apiKeys[i] EXCEPT !.revoked = TRUE] ELSE apiKeys[i]]

Revoked(k) == Update(apiKeys, k, [apiKeys[k] EXCEPT !.revoked = TRUE])

\* A revoked key is revoked, expired or not.
ComputeStatus(record) ==
  IF record.revoked THEN "revoked" ELSE IF record.expires THEN "expired" ELSE "active"

\* What apiKeyAuth makes of a key: it lets "active" pass.
Standing(k) ==
  IF k = NoApiKey THEN "missing"
  ELSE IF k \notin DOMAIN apiKeys THEN "unrecognized"
  ELSE ComputeStatus(apiKeys[k])

\* A response about a key; without one there is nothing it could be about.
Tell(k, status) == told' = IF k = NoApiKey THEN told ELSE Put(told, k, status)

-----------------------------------------------------------------------------
Init ==
  /\ apiKeys = EmptyStore
  /\ kindOf = EmptyStore
  /\ told = EmptyStore

IssueApiKey(kind) ==
  \E k \in ApiKey \ DOMAIN kindOf :
    /\ apiKeys' = Put(apiKeys, k, Stored(kind))
    /\ kindOf' = Put(kindOf, k, kind)
    /\ Tell(k, ComputeStatus(Stored(kind)))

\* Revoking a key again changes nothing, and answers 200 again.
RevokeApiKey(k) ==
  /\ k \in DOMAIN apiKeys
  /\ apiKeys' = Revoked(k)
  /\ Tell(k, "revoked")
  /\ UNCHANGED kindOf

\* 401 without a key, 404 for one the server does not know.
RevokeRefused(k) ==
  /\ k \notin DOMAIN apiKeys
  /\ Tell(k, "unrecognized")
  /\ UNCHANGED <<apiKeys, kindOf>>

GetProtected(k) ==
  /\ Tell(k, Standing(k))
  /\ UNCHANGED <<apiKeys, kindOf>>

\* apiKeyStore.reset([])
ResetAuthStores ==
  /\ apiKeys' = EmptyStore
  /\ told' = EmptyStore
  /\ UNCHANGED kindOf

Next ==
  \/ \E kind \in Kinds : IssueApiKey(kind)
  \/ \E k \in ApiKey \cup {NoApiKey} :
       RevokeApiKey(k) \/ RevokeRefused(k) \/ GetProtected(k)
  \/ ResetAuthStores

Spec == Init /\ [][Next]_vars

-----------------------------------------------------------------------------
(* Properties. *)

\* The server knows only keys it handed out, and a key of kind "revoked" only
\* as revoked.
TypeOK ==
  /\ DOMAIN apiKeys \subseteq DOMAIN kindOf
  /\ \A k \in DOMAIN apiKeys : /\ apiKeys[k] \in Record
                               /\ kindOf[k] = "revoked" => apiKeys[k].revoked
  /\ \A k \in DOMAIN kindOf : k \in ApiKey /\ kindOf[k] \in Kinds
  /\ \A k \in DOMAIN told : k \in ApiKey /\ told[k] \in Standings

\* From the standing on the left a key can only come to one on the right.
Worsens == [active |-> Standings, expired |-> {"expired", "revoked", "unrecognized"},
            revoked |-> {"revoked", "unrecognized"}, unrecognized |-> {"unrecognized"}]

\* Once handed out, a key only ever loses: refused once it is refused for ever,
\* a revoked key never reads as merely expired, and a forgotten one is never
\* known again.
StandingOnlyWorsens ==
  [][\A k \in DOMAIN kindOf : Standing(k)' \in Worsens[Standing(k)]]_vars

\* The server never takes back what it said of a key: the latest answer about it, at its issue,
\* at a revocation or from the middleware, stays what apiKeyAuth makes of it until a reset,
\* however many requests come in between and whatever they do to other keys.
LastWordHolds == \A k \in DOMAIN told : Standing(k) = told[k]

Handout == INSTANCE Credentials
             WITH Credential <- ApiKey,
                  held <- DOMAIN kindOf,
                  good <- {k \in DOMAIN kindOf : Standing(k) = "active"}

\* A key is a credential: good from the moment it is handed out or never, and once
\* refused never accepted again (the proofs show this, and Server relies on it).
KeepsCredentials == Handout!Spec
=============================================================================
