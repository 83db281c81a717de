---------------------------- MODULE SessionPromise ----------------------------
(***************************************************************************)
(* What the /auth routes promise, with no tokens, clock or store in it: a   *)
(* session is opened once and closed once, and while it is open at most one *)
(* ticket, its refresh token, can be redeemed, once, for the next ticket.   *)
(***************************************************************************)
CONSTANTS Sid, Jti, NoJti

VARIABLES
  status,   \* of each session: unused, then open or closed for ever
  ticket,   \* the one redeemable refresh token of each open session
  dead      \* the tickets that can never be redeemed again

promiseVars == <<status, ticket, dead>>

Tickets == {ticket[s] : s \in Sid} \ {NoJti}

NewTicket == Jti \ (dead \cup Tickets)

Init ==
  /\ status = [s \in Sid |-> "unused"]
  /\ ticket = [s \in Sid |-> NoJti]
  /\ dead = {}

\* A login; with NoJti, a convenience token that cannot be refreshed.
Open(s, j) ==
  /\ status[s] = "unused"
  /\ status' = [status EXCEPT ![s] = "open"]
  /\ ticket' = [ticket EXCEPT ![s] = j]
  /\ UNCHANGED dead

\* A convenience token of kind "revoked".
OpenClosed(s) ==
  /\ status[s] = "unused"
  /\ status' = [status EXCEPT ![s] = "closed"]
  /\ UNCHANGED <<ticket, dead>>

Redeem(s, j) ==
  /\ status[s] = "open"
  /\ ticket[s] # NoJti
  /\ ticket' = [ticket EXCEPT ![s] = j]
  /\ dead' = dead \cup {ticket[s]}
  /\ UNCHANGED status

\* A logout closes one session, an administrative reset all of them.
Close(S) ==
  /\ status' = [s \in Sid |-> IF s \in S THEN "closed" ELSE status[s]]
  /\ ticket' = [s \in Sid |-> IF s \in S THEN NoJti ELSE ticket[s]]
  /\ dead' = dead \cup ({ticket[s] : s \in S} \ {NoJti})

Next ==
  \/ \E s \in Sid : \E j \in NewTicket \cup {NoJti} : Open(s, j)
  \/ \E s \in Sid : OpenClosed(s)
  \/ \E s \in Sid : \E j \in NewTicket : Redeem(s, j)
  \/ \E S \in SUBSET {s \in Sid : status[s] = "open"} : Close(S)

Spec == Init /\ [][Next]_promiseVars
=============================================================================
