------------------------------ MODULE Credentials ------------------------------
(***************************************************************************)
(* What every kind of credential the server hands out promises (JWT access  *)
(* tokens: Sessions; API keys: ApiKeys): it may be good from the moment it  *)
(* is handed out, and once it is not good it never is again.                *)
(***************************************************************************)
CONSTANT Credential

VARIABLES
  held,              \* credentials in the hands of clients, for ever
  good               \* those the server would accept

vars == <<held, good>>

TypeOK == held \subseteq Credential /\ good \subseteq held

Init == held = {} /\ good = {}

\* Some are handed out, and may be good; any may expire, be revoked or be forgotten.
Next ==
  /\ held \subseteq held' /\ held' \subseteq Credential
  /\ good' \subseteq good \cup (held' \ held)

Spec == Init /\ [][Next]_vars
=============================================================================
