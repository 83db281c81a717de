------------------------------ MODULE Gatekeeper ------------------------------
(***************************************************************************)
(* What the gates of the core resources promise, without routes, requests   *)
(* or middlewares: rows change only because of a credential that is good at *)
(* that very moment and entitled to the change, or all at once to the seed. *)
(***************************************************************************)
EXTENDS Credentials

CONSTANTS
  Resource,
  Entitlement,       \* triples: credential, resource, "write" or "execute"
  Seed               \* resource -> ids of its seed rows

VARIABLE rows        \* resource -> (id -> content)

gateVars == <<held, good, rows>>

GateInit == Init /\ \A r \in Resource : DOMAIN rows[r] = Seed[r]

Entitled(r, deed) == \E c \in good : <<c, r, deed>> \in Entitlement

OthersKept(r) == \A other \in Resource \ {r} : rows'[other] = rows[other]

\* Rows are added or overwritten, none goes.
Write(r) ==
  /\ Entitled(r, "write")
  /\ DOMAIN rows[r] \subseteq DOMAIN rows'[r]
  /\ OthersKept(r)
  /\ UNCHANGED vars

\* Rows go, none is touched or added.
Delete(r) ==
  /\ Entitled(r, "execute")
  /\ DOMAIN rows'[r] \subseteq DOMAIN rows[r]
  /\ \A id \in DOMAIN rows'[r] : rows'[r][id] = rows[r][id]
  /\ OthersKept(r)
  /\ UNCHANGED vars

\* The data reset.
Restore ==
  /\ \A r \in Resource : DOMAIN rows'[r] = Seed[r]
  /\ UNCHANGED vars

GateNext ==
  \/ Next /\ UNCHANGED rows
  \/ \E r \in Resource : Write(r) \/ Delete(r)
  \/ Restore

GateSpec == GateInit /\ [][GateNext]_gateVars
=============================================================================
