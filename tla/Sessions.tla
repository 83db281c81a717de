------------------------------- MODULE Sessions -------------------------------
(***************************************************************************)
(* JWT sessions: POST /auth/login, /auth/logout, /auth/refresh, /auth/token,*)
(* GET /auth/token-info, the authenticate middleware every protected route  *)
(* runs, and the session half of POST /admin/auth/reset.                    *)
(*                                                                         *)
(* The server keeps only `sessions`.  Clients keep the tokens: `issued` is  *)
(* every token that ever left the server, and any of them may be presented  *)
(* to any endpoint, in any order and any number of times, even after the    *)
(* server has forgotten its session.  A handler is synchronous, so one      *)
(* request is one step.  `reply` is the outcome of the latest request.      *)
(***************************************************************************)
EXTENDS Stores

CONSTANTS
  Sid,               \* session ids (randomUUID: none is drawn twice)
  Jti,               \* token ids (randomUUID: none is drawn twice)
  NoJti,             \* null
  Claims,            \* the (sub, role, scopes) triples a token can carry
  AccountClaims,     \* those of the demo accounts
  AccessLife,        \* config.jwtExpiresIn
  Multiplier,        \* REFRESH_LIFETIME_MULTIPLIER
  ExpiredOffset,     \* - EXPIRED_OFFSET_SECONDS
  MaxClock           \* bound on the clock

ASSUME ClaimsAssumption == AccountClaims \subseteq Claims
ASSUME NullAssumption == NoJti \notin Jti
ASSUME LifeAssumption ==
  /\ AccessLife \in Nat \ {0}
  /\ Multiplier \in Nat \ {0}
  /\ ExpiredOffset \in Nat
  /\ MaxClock \in Nat

VARIABLES
  sessions,          \* sessionStore
  issued,            \* the tokens in the hands of clients
  now,               \* the clock jsonwebtoken reads, in seconds
  reply              \* the latest response

vars == <<sessions, issued, now, reply>>

Session == [revoked : BOOLEAN, currentRefreshJti : Jti \cup {NoJti}]

Token == [jti : Jti, type : {"access", "refresh"}, sid : Sid,
          claims : Claims, exp : Int, signed : BOOLEAN]

Kinds == {"valid", "expired", "invalid", "revoked"}

Reply == [op : {"start", "login", "logout", "refresh", "token", "token-info",
                "protected", "reset"},
          outcome : {"ok", "missing", "bad-request", "bad-credentials",
                     "invalid-signature", "expired", "wrong-token-type",
                     "revoked", "valid", "rotated"}]

Respond(op, outcome) == reply' = [op |-> op, outcome |-> outcome]

-----------------------------------------------------------------------------
(* Tokens. *)

UsedSid == {t.sid : t \in issued}
UsedJti == {t.jti : t \in issued}

\* Mutant: session ids only unique among the sessions in the store.
SidFreeInStore == Sid \ DOMAIN sessions

FreshSid == Sid \ UsedSid
FreshJti == Jti \ UsedJti

Sign(type, c, s, j, life) ==
  [jti |-> j, type |-> type, sid |-> s, claims |-> c,
   exp |-> now + life, signed |-> TRUE]

SignAccess(c, s, j) == Sign("access", c, s, j, AccessLife)

SignRefresh(c, s, j) == Sign("refresh", c, s, j, AccessLife * Multiplier)

CorruptSignature(t) == [t EXCEPT !.signed = FALSE]

\* verifyToken succeeds.
Verifies(t, type) == t.signed /\ now < t.exp /\ t.type = type

\* verifyToken fails: the signature is checked before expiry, the type last.
VerifyReason(t) ==
  IF ~ t.signed THEN "invalid-signature"
  ELSE IF now >= t.exp THEN "expired"
  ELSE "wrong-token-type"

-----------------------------------------------------------------------------
(* What each endpoint makes of a token. *)

Live(s) == s \in DOMAIN sessions /\ ~ sessions[s].revoked

\* authenticate lets the request through.
Authenticated(t) == Verifies(t, "access") /\ Live(t.sid)

AuthenticateOutcome(t) ==
  IF Authenticated(t) THEN "ok"
  ELSE IF Verifies(t, "access") THEN "revoked"
  ELSE VerifyReason(t)

\* Mutant: the jti is not compared with the session's current one.
RedeemableBySession(t) == Verifies(t, "refresh") /\ Live(t.sid)

\* refresh accepts the token.
Redeemable(t) ==
  /\ Verifies(t, "refresh")
  /\ Live(t.sid)
  /\ t.jti = sessions[t.sid].currentRefreshJti

RefreshOutcome(t) ==
  IF Redeemable(t) THEN "ok"
  ELSE IF Verifies(t, "refresh") THEN "rotated"
  ELSE VerifyReason(t)

\* getTokenInfo: a session that is gone is not a revoked one.
TokenInfo(t) ==
  IF ~ Verifies(t, "access") THEN VerifyReason(t)
  ELSE IF t.sid \in DOMAIN sessions /\ sessions[t.sid].revoked THEN "revoked"
  ELSE "valid"

-----------------------------------------------------------------------------
(* The store's records. *)

NewSession(j) == [revoked |-> FALSE, currentRefreshJti |-> j]

ConvenienceSession(kind) ==
  [revoked |-> kind = "revoked", currentRefreshJti |-> NoJti]

\* Mutant: logout forgets the refresh token and leaves the session live.
ForgetRefresh(session) == [session EXCEPT !.currentRefreshJti = NoJti]

\* Mutant: a second logout takes the first one back.
Toggled(session) == [session EXCEPT !.revoked = ~ @]

Revoked(session) == [session EXCEPT !.revoked = TRUE]

\* Mutant: the new refresh token is handed out but not recorded.
Unrotated(session, j) == session

Rotated(session, j) == [session EXCEPT !.currentRefreshJti = j]

\* Mutant: the new pair is minted for a demo account, not for the caller.
SomeAccount(t) == CHOOSE c \in AccountClaims : TRUE

CarriedClaims(t) == t.claims

-----------------------------------------------------------------------------
(* The handlers. *)

Init ==
  /\ sessions = EmptyStore
  /\ issued = {}
  /\ now = 0
  /\ reply = [op |-> "start", outcome |-> "ok"]

\* POST /auth/login with the credentials of a demo account.
Login(c, s, a, r) ==
  /\ a # r
  /\ issued' = issued \cup {SignAccess(c, s, a), SignRefresh(c, s, r)}
  /\ sessions' = Put(sessions, s, NewSession(r))
  /\ Respond("login", "ok")
  /\ UNCHANGED now

\* POST /auth/token: a token of any claims, with a session of its own.
IssueConvenienceToken(c, kind, s, j) ==
  /\ issued' = issued \cup
       {CASE kind = "expired" -> Sign("access", c, s, j, - ExpiredOffset)
          [] kind = "invalid" -> CorruptSignature(SignAccess(c, s, j))
          [] OTHER            -> SignAccess(c, s, j)}
  /\ sessions' = Put(sessions, s, ConvenienceSession(kind))
  /\ Respond("token", "ok")
  /\ UNCHANGED now

\* POST /auth/logout: not gated by the session, so it may be repeated, and a
\* session that is gone is no error.
Logout(t) ==
  /\ Verifies(t, "access")
  /\ sessions' = IF t.sid \in DOMAIN sessions
                 THEN Update(sessions, t.sid, Revoked(sessions[t.sid]))
                 ELSE sessions
  /\ Respond("logout", "ok")
  /\ UNCHANGED <<issued, now>>

LogoutRefused(t) ==
  /\ ~ Verifies(t, "access")
  /\ Respond("logout", VerifyReason(t))
  /\ UNCHANGED <<sessions, issued, now>>

\* POST /auth/refresh: a new pair for the same session.
Refresh(t, a, r) ==
  /\ Redeemable(t)
  /\ a # r
  /\ issued' = issued \cup {SignAccess(CarriedClaims(t), t.sid, a),
                            SignRefresh(CarriedClaims(t), t.sid, r)}
  /\ sessions' = Update(sessions, t.sid, Rotated(sessions[t.sid], r))
  /\ Respond("refresh", "ok")
  /\ UNCHANGED now

RefreshRefused(t) ==
  /\ ~ Redeemable(t)
  /\ Respond("refresh", RefreshOutcome(t))
  /\ UNCHANGED <<sessions, issued, now>>

\* GET /auth/token-info: never gated.
GetTokenInfo(t) ==
  /\ Respond("token-info", TokenInfo(t))
  /\ UNCHANGED <<sessions, issued, now>>

\* authenticate, in front of GET /auth/me, /protected, /role and /scope: "ok" passes
\* the request on, to the check of its role or scopes if the route has one.
Protected(t) ==
  /\ Respond("protected", AuthenticateOutcome(t))
  /\ UNCHANGED <<sessions, issued, now>>

\* Requests that carry no token, no body or no valid credentials.
Unreadable ==
  /\ \/ Respond("login", "bad-request") \/ Respond("login", "bad-credentials")
     \/ Respond("token", "bad-request") \/ Respond("refresh", "bad-request")
     \/ Respond("token-info", "bad-request")
     \/ Respond("logout", "missing") \/ Respond("protected", "missing")
  /\ UNCHANGED <<sessions, issued, now>>

\* POST /admin/auth/reset (the sessions; ApiKeys has the other store).
ResetSessions ==
  /\ sessions' = EmptyStore
  /\ Respond("reset", "ok")
  /\ UNCHANGED <<issued, now>>

Tick ==
  /\ now < MaxClock
  /\ now' = now + 1
  /\ UNCHANGED <<sessions, issued, reply>>

Next ==
  \/ \E c \in AccountClaims, s \in FreshSid, a, r \in FreshJti : Login(c, s, a, r)
  \/ \E c \in Claims, kind \in Kinds, s \in FreshSid, j \in FreshJti :
       IssueConvenienceToken(c, kind, s, j)
  \/ \E t \in issued : Logout(t)
  \/ \E t \in issued : LogoutRefused(t)
  \/ \E t \in issued, a, r \in FreshJti : Refresh(t, a, r)
  \/ \E t \in issued : RefreshRefused(t)
  \/ \E t \in issued : GetTokenInfo(t)
  \/ \E t \in issued : Protected(t)
  \/ Unreadable
  \/ ResetSessions
  \/ Tick

Spec == Init /\ [][Next]_vars

-----------------------------------------------------------------------------
(* Properties. *)

\* The store holds session records, clients hold tokens the server signed.
TypeOK ==
  /\ DOMAIN sessions \subseteq Sid
  /\ sessions \in [DOMAIN sessions -> Session]
  /\ issued \subseteq Token
  /\ now \in 0 .. MaxClock
  /\ reply \in Reply

\* Rotation (refresh, jti check): whatever clients have hoarded, a session
\* has at most one refresh token that POST /auth/refresh would accept.
OneRedeemableToken ==
  \A t, u \in issued :
    Redeemable(t) /\ Redeemable(u) /\ t.sid = u.sid => t = u

\* No escalation (refresh copies the claims): every token of a session, after
\* any number of refreshes, carries the identity, role and scopes of its login.
ClaimsFollowSession ==
  \A t, u \in issued : t.sid = u.sid => t.claims = u.claims

\* A token, once refused by authenticate or by refresh, is refused for ever:
\* no refresh, logout, reset or passage of time brings it back to life.
RefusalIsFinal ==
  [][\A t \in issued : /\ ~ Authenticated(t) => ~ Authenticated(t)'
                       /\ ~ Redeemable(t) => ~ Redeemable(t)']_vars

\* A refresh token buys one pair: replaying it, as a client that lost the
\* answer would, is refused.
RedeemedOnce ==
  [][\A t \in issued : (\E a, r \in FreshJti : Refresh(t, a, r))
                         => ~ Redeemable(t)']_vars

\* Logging out with any access token of a session, even one that predates a
\* refresh, silences every token of that session, access and refresh alike.
LogoutSilencesSession ==
  [][\A t \in issued : Logout(t) =>
       \A u \in issued : u.sid = t.sid =>
         ~ Authenticated(u)' /\ ~ Redeemable(u)']_vars

-----------------------------------------------------------------------------
(* The abstract view: the ticket of a session is the refresh token it       *)
(* currently accepts; a refresh token that no session accepts is dead.      *)

TicketOf(s) == IF Live(s) THEN sessions[s].currentRefreshJti ELSE NoJti

StatusOf(s) ==
  IF s \notin UsedSid THEN "unused" ELSE IF Live(s) THEN "open" ELSE "closed"

DeadTickets ==
  {t.jti : t \in {u \in issued : u.type = "refresh"}} \ {TicketOf(s) : s \in Sid}

Promise == INSTANCE SessionPromise
             WITH status <- [s \in Sid |-> StatusOf(s)],
                  ticket <- [s \in Sid |-> TicketOf(s)],
                  dead <- DeadTickets

\* The handlers implement the promise: a session opens once, closes once, and
\* its single ticket is redeemed at most once.
KeepsPromise == Promise!Spec

Handout == INSTANCE Credentials
             WITH Credential <- Token,
                  held <- issued,
                  good <- {t \in issued : Authenticated(t)}

\* A token is a credential: authenticate takes it from the moment it is handed out
\* or never, and once it has refused it never takes it again (the proofs show this,
\* and Server relies on it).
KeepsCredentials == Handout!Spec

-----------------------------------------------------------------------------
(* What the documents say and the code does not do. *)

\* specs/005-jwt-auth-roles-scopes/spec.md FR-017: a revoked token shows as
\* revoked in token-info.  It must not turn "valid" again.
RevokedStaysRevoked ==
  [][\A t \in issued : TokenInfo(t) = "revoked" => TokenInfo(t)' # "valid"]_vars
=============================================================================
