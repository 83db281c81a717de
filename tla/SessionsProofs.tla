---------------------------- MODULE SessionsProofs ----------------------------
(***************************************************************************)
(* Theorems about Sessions, for every set of session and token ids, every   *)
(* set of claims and every lifetime.                                        *)
(*                                                                         *)
(* The inductive invariant adds two facts to the type invariant: a session  *)
(* in the store has a token in somebody's hands (so a fresh id is fresh     *)
(* for the store too), and a token id names one token.                      *)
(***************************************************************************)
EXTENDS Sessions, StoresProofs

SessionsWereIssued == DOMAIN sessions \subseteq UsedSid

JtiIsUnique == \A t, u \in issued : t.jti = u.jti => t = u

IInv == TypeOK /\ SessionsWereIssued /\ JtiIsUnique /\ ClaimsFollowSession

-----------------------------------------------------------------------------
\* Signing yields a well-formed token that expires `life` from now.
LEMMA SignFacts ==
  ASSUME NEW type \in {"access", "refresh"}, NEW c \in Claims, NEW s \in Sid,
         NEW j \in Jti, NEW life \in Int, now \in Int
  PROVE  /\ Sign(type, c, s, j, life) \in Token
         /\ Sign(type, c, s, j, life).jti = j
         /\ Sign(type, c, s, j, life).sid = s
         /\ Sign(type, c, s, j, life).claims = c
         /\ Sign(type, c, s, j, life).type = type
BY DEF Sign, Token

\* A fresh session id is known neither to a client nor to the store.
LEMMA FreshSidFacts ==
  ASSUME IInv, NEW s \in FreshSid
  PROVE  /\ s \in Sid
         /\ s \notin DOMAIN sessions
         /\ \A t \in issued : t.sid # s
BY DEF IInv, SessionsWereIssued, FreshSid, UsedSid

\* A fresh token id is no token's.
LEMMA FreshJtiFacts ==
  ASSUME NEW j \in FreshJti
  PROVE  j \in Jti /\ \A t \in issued : t.jti # j
BY DEF FreshJti, UsedJti

-----------------------------------------------------------------------------
\* Logging in hands out two new tokens of a new session.
LEMMA LoginPreserves ==
  ASSUME IInv, NEW c \in AccountClaims, NEW s \in FreshSid,
         NEW a \in FreshJti, NEW r \in FreshJti, Login(c, s, a, r)
  PROVE  IInv'
<1> DEFINE ta == SignAccess(c, s, a)
           tr == SignRefresh(c, s, r)
<1> c \in Claims
  BY ClaimsAssumption
<1>0. /\ s \in Sid /\ s \notin DOMAIN sessions /\ \A t \in issued : t.sid # s
      /\ a \in Jti /\ r \in Jti /\ a # r
      /\ \A t \in issued : t.jti # a /\ t.jti # r
  BY FreshSidFacts, FreshJtiFacts DEF Login
<1>1. now \in Int /\ AccessLife \in Int /\ AccessLife * Multiplier \in Int
  BY LifeAssumption DEF IInv, TypeOK
<1>2. /\ ta \in Token /\ ta.jti = a /\ ta.sid = s /\ ta.claims = c
      /\ tr \in Token /\ tr.jti = r /\ tr.sid = s /\ tr.claims = c
  BY <1>0, <1>1, SignFacts DEF SignAccess, SignRefresh
<1>3. issued' = issued \cup {ta, tr}
  BY DEF Login
<1> HIDE DEF ta, tr
<1>4. NewSession(r) \in Session
  BY <1>0 DEF NewSession, Session
<1>5. /\ DOMAIN sessions' = DOMAIN sessions \cup {s}
      /\ sessions' \in [DOMAIN sessions \cup {s} -> Session]
  <2>1. sessions' = Put(sessions, s, NewSession(r))
    BY DEF Login
  <2>2. sessions \in [DOMAIN sessions -> Session]
    BY DEF IInv, TypeOK
  <2> QED BY <2>1, <2>2, <1>4, PutFacts, PutType
<1>6. TypeOK'
  <2>1. reply' \in Reply /\ now' = now
    BY DEF Login, Respond, Reply
  <2> QED BY <2>1, <1>0, <1>2, <1>3, <1>5 DEF IInv, TypeOK
<1>7. SessionsWereIssued'
  BY <1>2, <1>3, <1>5 DEF IInv, SessionsWereIssued, UsedSid
<1>8. JtiIsUnique'
  BY <1>0, <1>2, <1>3 DEF IInv, JtiIsUnique
<1>9. ClaimsFollowSession'
  BY <1>0, <1>2, <1>3 DEF IInv, ClaimsFollowSession
<1> QED BY <1>6, <1>7, <1>8, <1>9 DEF IInv

\* A convenience token of any kind is one new token of a new session.
LEMMA ConveniencePreserves ==
  ASSUME IInv, NEW c \in Claims, NEW kind \in Kinds, NEW s \in FreshSid,
         NEW j \in FreshJti, IssueConvenienceToken(c, kind, s, j)
  PROVE  IInv'
<1>0. /\ s \in Sid /\ s \notin DOMAIN sessions /\ \A t \in issued : t.sid # s
      /\ j \in Jti /\ \A t \in issued : t.jti # j
  BY FreshSidFacts, FreshJtiFacts
<1>1. now \in Int /\ AccessLife \in Int /\ - ExpiredOffset \in Int
  BY LifeAssumption DEF IInv, TypeOK
<1>2. PICK u : /\ issued' = issued \cup {u}
               /\ u \in Token /\ u.jti = j /\ u.sid = s /\ u.claims = c
  <2> DEFINE good == SignAccess(c, s, j)
             past == Sign("access", c, s, j, - ExpiredOffset)
  <2>1. good \in Token /\ good.jti = j /\ good.sid = s /\ good.claims = c
    BY <1>0, <1>1, SignFacts DEF SignAccess
  <2>2. past \in Token /\ past.jti = j /\ past.sid = s /\ past.claims = c
    BY <1>0, <1>1, SignFacts
  <2>3. issued' \in {issued \cup {good}, issued \cup {past},
                     issued \cup {CorruptSignature(good)}}
    BY DEF IssueConvenienceToken, Kinds
  <2> HIDE DEF good, past
  <2>4. LET bad == CorruptSignature(good) IN
          bad \in Token /\ bad.jti = j /\ bad.sid = s /\ bad.claims = c
    BY <2>1 DEF CorruptSignature, Token
  <2> QED BY <2>1, <2>2, <2>3, <2>4
<1>3. ConvenienceSession(kind) \in Session
  BY DEF ConvenienceSession, Session
<1>5. /\ DOMAIN sessions' = DOMAIN sessions \cup {s}
      /\ sessions' \in [DOMAIN sessions \cup {s} -> Session]
  <2>1. sessions' = Put(sessions, s, ConvenienceSession(kind))
    BY DEF IssueConvenienceToken
  <2>2. sessions \in [DOMAIN sessions -> Session]
    BY DEF IInv, TypeOK
  <2> QED BY <2>1, <2>2, <1>3, PutFacts, PutType
<1>6. TypeOK'
  <2>1. reply' \in Reply /\ now' = now
    BY DEF IssueConvenienceToken, Respond, Reply
  <2> QED BY <2>1, <1>0, <1>2, <1>5 DEF IInv, TypeOK
<1>7. SessionsWereIssued'
  BY <1>2, <1>5 DEF IInv, SessionsWereIssued, UsedSid
<1>8. JtiIsUnique'
  BY <1>0, <1>2 DEF IInv, JtiIsUnique
<1>9. ClaimsFollowSession'
  BY <1>0, <1>2 DEF IInv, ClaimsFollowSession
<1> QED BY <1>6, <1>7, <1>8, <1>9 DEF IInv

\* A logout writes a record of the same type under the same id, or nothing.
LEMMA LogoutPreserves ==
  ASSUME IInv, NEW t \in issued, Logout(t)
  PROVE  IInv'
<1>1. /\ DOMAIN sessions' = DOMAIN sessions
      /\ sessions' \in [DOMAIN sessions -> Session]
  <2>1. sessions \in [DOMAIN sessions -> Session]
    BY DEF IInv, TypeOK
  <2>2. CASE t.sid \in DOMAIN sessions
    <3>1. Revoked(sessions[t.sid]) \in Session
      BY <2>1, <2>2 DEF Revoked, Session
    <3>2. sessions' = Update(sessions, t.sid, Revoked(sessions[t.sid]))
      BY <2>2 DEF Logout
    <3> QED BY <2>1, <3>1, <3>2, UpdateFacts, UpdateType
  <2>3. CASE t.sid \notin DOMAIN sessions
    BY <2>1, <2>3 DEF Logout
  <2> QED BY <2>2, <2>3
<1>2. reply' \in Reply /\ now' = now /\ issued' = issued
  BY DEF Logout, Respond, Reply
<1> QED BY <1>1, <1>2
  DEF IInv, TypeOK, SessionsWereIssued, UsedSid, JtiIsUnique, ClaimsFollowSession

\* A refresh hands out two new tokens of the session it was asked for.
LEMMA RefreshPreserves ==
  ASSUME IInv, NEW t \in issued, NEW a \in FreshJti, NEW r \in FreshJti,
         Refresh(t, a, r)
  PROVE  IInv'
<1> DEFINE ta == SignAccess(t.claims, t.sid, a)
           tr == SignRefresh(t.claims, t.sid, r)
<1>0. /\ a \in Jti /\ r \in Jti /\ a # r
      /\ \A u \in issued : u.jti # a /\ u.jti # r
  BY FreshJtiFacts DEF Refresh
<1>1. /\ now \in Int /\ AccessLife \in Int /\ AccessLife * Multiplier \in Int
      /\ t.claims \in Claims /\ t.sid \in Sid
  BY LifeAssumption DEF IInv, TypeOK, Token
<1>2. /\ ta \in Token /\ ta.jti = a /\ ta.sid = t.sid /\ ta.claims = t.claims
      /\ tr \in Token /\ tr.jti = r /\ tr.sid = t.sid /\ tr.claims = t.claims
  BY <1>0, <1>1, SignFacts DEF SignAccess, SignRefresh
<1>3. issued' = issued \cup {ta, tr}
  BY DEF Refresh, CarriedClaims
<1> HIDE DEF ta, tr
<1>5. /\ DOMAIN sessions' = DOMAIN sessions
      /\ sessions' \in [DOMAIN sessions -> Session]
  <2>1. sessions \in [DOMAIN sessions -> Session]
    BY DEF IInv, TypeOK
  <2>2. t.sid \in DOMAIN sessions
    BY DEF Refresh, Redeemable, Live
  <2>3. Rotated(sessions[t.sid], r) \in Session
    BY <2>1, <2>2, <1>0 DEF Rotated, Session
  <2>4. sessions' = Update(sessions, t.sid, Rotated(sessions[t.sid], r))
    BY DEF Refresh
  <2> QED BY <2>1, <2>3, <2>4, UpdateFacts, UpdateType
<1>6. TypeOK'
  <2>1. reply' \in Reply /\ now' = now
    BY DEF Refresh, Respond, Reply
  <2> QED BY <2>1, <1>2, <1>3, <1>5 DEF IInv, TypeOK
<1>7. SessionsWereIssued'
  BY <1>3, <1>5 DEF IInv, SessionsWereIssued, UsedSid
<1>8. JtiIsUnique'
  BY <1>0, <1>2, <1>3 DEF IInv, JtiIsUnique
<1>9. ClaimsFollowSession'
  BY <1>2, <1>3 DEF IInv, ClaimsFollowSession
<1> QED BY <1>6, <1>7, <1>8, <1>9 DEF IInv

\* The requests that change nothing answer with a well-formed reply.
LEMMA ReadsPreserve ==
  ASSUME IInv,
         \/ \E t \in issued : LogoutRefused(t) \/ RefreshRefused(t)
                                \/ GetTokenInfo(t) \/ Protected(t)
         \/ Unreadable
  PROVE  IInv'
<1>1. reply' \in Reply
  BY DEF LogoutRefused, RefreshRefused, GetTokenInfo, Protected, Unreadable,
         Respond, Reply, VerifyReason, RefreshOutcome, TokenInfo,
         AuthenticateOutcome
<1>2. UNCHANGED <<sessions, issued, now>>
  BY DEF LogoutRefused, RefreshRefused, GetTokenInfo, Protected, Unreadable
<1> QED BY <1>1, <1>2
  DEF IInv, TypeOK, SessionsWereIssued, UsedSid, JtiIsUnique, ClaimsFollowSession

\* The reset empties the store and takes no token out of a client's hands.
LEMMA ResetPreserves ==
  ASSUME IInv, ResetSessions
  PROVE  IInv'
<1>1. DOMAIN sessions' = {} /\ sessions' \in [{} -> Session]
  BY EmptyStoreFacts DEF ResetSessions
<1>2. reply' \in Reply /\ UNCHANGED <<issued, now>>
  BY DEF ResetSessions, Respond, Reply
<1> QED BY <1>1, <1>2
  DEF IInv, TypeOK, SessionsWereIssued, UsedSid, JtiIsUnique, ClaimsFollowSession

\* Every step of the server and of the clock preserves the invariant.
LEMMA StepPreserves == IInv /\ [Next]_vars => IInv'
<1> SUFFICES ASSUME IInv, [Next]_vars PROVE IInv'
  OBVIOUS
<1>1. CASE \E c \in AccountClaims, s \in FreshSid, a, r \in FreshJti : Login(c, s, a, r)
  BY <1>1, LoginPreserves
<1>2. CASE \E c \in Claims, kind \in Kinds, s \in FreshSid, j \in FreshJti :
             IssueConvenienceToken(c, kind, s, j)
  BY <1>2, ConveniencePreserves
<1>3. CASE \E t \in issued : Logout(t)
  BY <1>3, LogoutPreserves
<1>4. CASE \E t \in issued, a, r \in FreshJti : Refresh(t, a, r)
  BY <1>4, RefreshPreserves
<1>5. CASE \/ \E t \in issued : LogoutRefused(t) \/ RefreshRefused(t)
                                  \/ GetTokenInfo(t) \/ Protected(t)
           \/ Unreadable
  BY <1>5, ReadsPreserve
<1>6. CASE ResetSessions
  BY <1>6, ResetPreserves
<1>7. CASE Tick
  <2>1. now' \in 0 .. MaxClock
    BY <1>7, LifeAssumption DEF Tick, IInv, TypeOK
  <2> QED BY <1>7, <2>1
    DEF Tick, IInv, TypeOK, SessionsWereIssued, UsedSid, JtiIsUnique, ClaimsFollowSession
<1>8. CASE UNCHANGED vars
  BY <1>8 DEF vars, IInv, TypeOK, SessionsWereIssued, UsedSid, JtiIsUnique,
              ClaimsFollowSession
<1> QED BY <1>1, <1>2, <1>3, <1>4, <1>5, <1>6, <1>7, <1>8 DEF Next

\* The server starts with no session and no token.
LEMMA InitHolds == Init => IInv
BY EmptyStoreFacts, LifeAssumption
  DEF Init, IInv, TypeOK, Reply, SessionsWereIssued, UsedSid, JtiIsUnique,
      ClaimsFollowSession

\* The inductive invariant holds in every reachable state.
THEOREM Invariance == Spec => []IInv
BY InitHolds, StepPreserves, PTL DEF Spec

-----------------------------------------------------------------------------
\* The store holds session records and clients hold tokens the server signed.
THEOREM TypeCorrect == Spec => []TypeOK
<1>1. IInv => TypeOK
  BY DEF IInv
<1> QED BY <1>1, Invariance, PTL

\* No refresh ever changes the identity, role or scopes a session was opened
\* with.
THEOREM NoEscalation == Spec => []ClaimsFollowSession
<1>1. IInv => ClaimsFollowSession
  BY DEF IInv
<1> QED BY <1>1, Invariance, PTL

\* Whatever refresh tokens clients have kept, a session accepts one at most.
THEOREM Rotation == Spec => []OneRedeemableToken
<1>1. IInv => OneRedeemableToken
  BY DEF IInv, JtiIsUnique, OneRedeemableToken, Redeemable
<1> QED BY <1>1, Invariance, PTL

-----------------------------------------------------------------------------
\* How a step may change what the server thinks of a token already issued: its
\* session may stop being live but never start, its current refresh token may
\* only be replaced by one that was just minted, and the clock never goes back.
LEMMA SessionsOnlyWane ==
  ASSUME IInv, [Next]_vars, NEW t \in issued
  PROVE  /\ Live(t.sid)' => /\ Live(t.sid)
                            /\ \/ sessions'[t.sid].currentRefreshJti
                                    = sessions[t.sid].currentRefreshJti
                               \/ sessions'[t.sid].currentRefreshJti \notin UsedJti
         /\ now \in Int /\ now' \in Int /\ now <= now'
<1> USE DEF Live
<1>0. now \in Int /\ sessions \in [DOMAIN sessions -> Session]
  BY DEF IInv, TypeOK
<1>1. ASSUME UNCHANGED sessions, now' = now
      PROVE  /\ Live(t.sid)' => /\ Live(t.sid)
                                /\ sessions'[t.sid].currentRefreshJti
                                     = sessions[t.sid].currentRefreshJti
             /\ now <= now'
  BY <1>0, <1>1
<1>2. CASE \E c \in AccountClaims, s \in FreshSid, a, r \in FreshJti : Login(c, s, a, r)
  <2> PICK c \in AccountClaims, s \in FreshSid, a \in FreshJti, r \in FreshJti :
             Login(c, s, a, r)
    BY <1>2
  <2>1. t.sid # s
    BY FreshSidFacts
  <2>2. sessions' = Put(sessions, s, NewSession(r)) /\ now' = now
    BY DEF Login
  <2>3. /\ DOMAIN sessions' = DOMAIN sessions \cup {s}
        /\ \A i \in DOMAIN sessions \ {s} : sessions'[i] = sessions[i]
    BY <2>2 DEF Put
  <2> QED BY <1>0, <2>1, <2>2, <2>3
<1>3. CASE \E c \in Claims, kind \in Kinds, s \in FreshSid, j \in FreshJti :
             IssueConvenienceToken(c, kind, s, j)
  <2> PICK c \in Claims, kind \in Kinds, s \in FreshSid, j \in FreshJti :
             IssueConvenienceToken(c, kind, s, j)
    BY <1>3
  <2>1. t.sid # s
    BY FreshSidFacts
  <2>2. sessions' = Put(sessions, s, ConvenienceSession(kind)) /\ now' = now
    BY DEF IssueConvenienceToken
  <2>3. /\ DOMAIN sessions' = DOMAIN sessions \cup {s}
        /\ \A i \in DOMAIN sessions \ {s} : sessions'[i] = sessions[i]
    BY <2>2 DEF Put
  <2> QED BY <1>0, <2>1, <2>2, <2>3
<1>4. CASE \E u \in issued : Logout(u)
  <2> PICK u \in issued : Logout(u)
    BY <1>4
  <2>1. now' = now
    BY DEF Logout
  <2>2. CASE u.sid \in DOMAIN sessions
    <3>0. sessions' = Update(sessions, u.sid, Revoked(sessions[u.sid]))
      BY <2>2 DEF Logout
    <3>1. /\ DOMAIN sessions' = DOMAIN sessions
          /\ sessions'[u.sid] = Revoked(sessions[u.sid])
          /\ \A s \in DOMAIN sessions \ {u.sid} : sessions'[s] = sessions[s]
      BY <2>2, <3>0, UpdateFacts
    <3>2. Revoked(sessions[u.sid]).revoked = TRUE
      BY <1>0, <2>2 DEF Revoked, Session
    <3> QED BY <1>0, <2>1, <3>1, <3>2
  <2>3. CASE u.sid \notin DOMAIN sessions
    BY <1>0, <2>1, <2>3 DEF Logout
  <2> QED BY <2>2, <2>3
<1>5. CASE \E u \in issued, a, r \in FreshJti : Refresh(u, a, r)
  <2> PICK u \in issued, a \in FreshJti, r \in FreshJti : Refresh(u, a, r)
    BY <1>5
  <2>1. /\ now' = now /\ u.sid \in DOMAIN sessions
        /\ sessions' = Update(sessions, u.sid, Rotated(sessions[u.sid], r))
    BY DEF Refresh, Redeemable
  <2>2. /\ DOMAIN sessions' = DOMAIN sessions
        /\ sessions'[u.sid] = Rotated(sessions[u.sid], r)
        /\ \A s \in DOMAIN sessions \ {u.sid} : sessions'[s] = sessions[s]
    BY <2>1, UpdateFacts
  <2>3. /\ Rotated(sessions[u.sid], r).revoked = sessions[u.sid].revoked
        /\ Rotated(sessions[u.sid], r).currentRefreshJti = r
    BY <1>0, <2>1 DEF Rotated, Session
  <2>4. r \notin UsedJti
    BY DEF FreshJti
  <2> QED BY <1>0, <2>1, <2>2, <2>3, <2>4
<1>6. CASE \/ \E u \in issued : LogoutRefused(u) \/ RefreshRefused(u)
                                  \/ GetTokenInfo(u) \/ Protected(u)
           \/ Unreadable
  <2>1. UNCHANGED sessions /\ now' = now
    BY <1>6 DEF LogoutRefused, RefreshRefused, GetTokenInfo, Protected, Unreadable
  <2> QED BY <1>0, <1>1, <2>1
<1>7. CASE ResetSessions
  BY <1>0, <1>7, EmptyStoreFacts DEF ResetSessions
<1>8. CASE Tick
  <2>1. now' = now + 1 /\ UNCHANGED sessions
    BY <1>8 DEF Tick
  <2> QED BY <1>0, <2>1
<1>9. CASE UNCHANGED vars
  BY <1>0, <1>1, <1>9 DEF vars
<1> QED BY <1>2, <1>3, <1>4, <1>5, <1>6, <1>7, <1>8, <1>9 DEF Next

\* Whatever step is taken, a token that is refused goes on being refused.
LEMMA RefusedStaysRefused ==
  ASSUME IInv, [Next]_vars, NEW t \in issued
  PROVE  /\ Authenticated(t)' => Authenticated(t)
         /\ Redeemable(t)' => Redeemable(t)
<1>1. t.exp \in Int /\ t.jti \in UsedJti
  BY DEF IInv, TypeOK, Token, UsedJti
<1>2. \A type : Verifies(t, type)' => Verifies(t, type)
  BY <1>1, SessionsOnlyWane DEF Verifies
<1>3. Authenticated(t)' => Authenticated(t)
  BY <1>2, SessionsOnlyWane DEF Authenticated
<1>4. Redeemable(t)' => Redeemable(t)
  BY <1>1, <1>2, SessionsOnlyWane DEF Redeemable
<1> QED BY <1>3, <1>4

\* A token refused once is refused for ever, whatever requests, resets and
\* time may come after.
THEOREM Finality == Spec => RefusalIsFinal
<1>1. IInv /\ [Next]_vars =>
        [\A t \in issued : /\ ~ Authenticated(t) => ~ Authenticated(t)'
                           /\ ~ Redeemable(t) => ~ Redeemable(t)']_vars
  BY RefusedStaysRefused
<1> QED BY <1>1, Invariance, PTL DEF Spec, RefusalIsFinal

\* Tokens are handed out, never taken back.
LEMMA IssuedGrows == IInv /\ [Next]_vars => issued \subseteq issued'
BY DEF Next, Login, IssueConvenienceToken, Logout, LogoutRefused, Refresh, RefreshRefused,
       GetTokenInfo, Protected, Unreadable, ResetSessions, Tick, vars

\* Tokens are credentials: handed out once, good at first or never, and never good again.
THEOREM TokensAreCredentials == Spec => KeepsCredentials
<1>1. Init => Handout!Init
  BY DEF Init, Handout!Init
<1>2. IInv /\ [Next]_vars => Handout!Next
  <2> SUFFICES ASSUME IInv, [Next]_vars PROVE Handout!Next
    OBVIOUS
  <2>1. issued \subseteq issued' /\ issued' \subseteq Token
    BY IssuedGrows, StepPreserves DEF IInv, TypeOK
  <2>2. \A t \in issued : Authenticated(t)' => Authenticated(t)
    BY RefusedStaysRefused
  <2> QED BY <2>1, <2>2 DEF Handout!Next
<1> QED BY <1>1, <1>2, Invariance, PTL DEF Spec, KeepsCredentials, Handout!Spec

\* A refresh token that was just redeemed cannot be redeemed again.
THEOREM SingleUse == Spec => RedeemedOnce
<1>1. ASSUME IInv, NEW t \in issued, NEW a \in FreshJti, NEW r \in FreshJti,
             Refresh(t, a, r)
      PROVE  ~ Redeemable(t)'
  <2>0. sessions \in [DOMAIN sessions -> Session] /\ t.sid \in DOMAIN sessions
    BY <1>1 DEF IInv, TypeOK, Refresh, Redeemable, Live
  <2>1. sessions'[t.sid].currentRefreshJti = r
    <3>1. sessions' = Update(sessions, t.sid, Rotated(sessions[t.sid], r))
      BY <1>1 DEF Refresh
    <3>2. Rotated(sessions[t.sid], r).currentRefreshJti = r
      BY <2>0 DEF Rotated, Session
    <3> QED BY <2>0, <3>1, <3>2, UpdateFacts
  <2>2. t.jti # r
    BY <1>1, FreshJtiFacts
  <2> QED BY <2>1, <2>2 DEF Redeemable
<1>2. IInv /\ [Next]_vars =>
        [\A t \in issued : (\E a, r \in FreshJti : Refresh(t, a, r))
                             => ~ Redeemable(t)']_vars
  BY <1>1
<1> QED BY <1>2, Invariance, PTL DEF Spec, RedeemedOnce

\* Logging out with any access token of a session leaves none of its tokens
\* good for anything.
THEOREM LogoutIsComplete == Spec => LogoutSilencesSession
<1>1. ASSUME IInv, NEW t \in issued, Logout(t),
             NEW u \in issued, u.sid = t.sid
      PROVE  ~ Authenticated(u)' /\ ~ Redeemable(u)'
  <2>0. sessions \in [DOMAIN sessions -> Session]
    BY <1>1 DEF IInv, TypeOK
  <2>1. ~ Live(t.sid)'
    <3>1. CASE t.sid \in DOMAIN sessions
      <4>1. Revoked(sessions[t.sid]).revoked = TRUE
        BY <2>0, <3>1 DEF Revoked, Session
      <4>2. sessions' = Update(sessions, t.sid, Revoked(sessions[t.sid]))
        BY <1>1, <3>1 DEF Logout
      <4> QED BY <3>1, <4>1, <4>2, UpdateFacts DEF Live
    <3>2. CASE t.sid \notin DOMAIN sessions
      BY <1>1, <3>2 DEF Logout, Live
    <3> QED BY <3>1, <3>2
  <2> QED BY <1>1, <2>1 DEF Authenticated, Redeemable
<1>2. IInv /\ [Next]_vars =>
        [\A t \in issued : Logout(t) =>
           \A u \in issued : u.sid = t.sid =>
             ~ Authenticated(u)' /\ ~ Redeemable(u)']_vars
  BY <1>1
<1> QED BY <1>2, Invariance, PTL DEF Spec, LogoutSilencesSession

-----------------------------------------------------------------------------
(* The /auth handlers implement SessionPromise: logins open a session,      *)
(* refreshes redeem its ticket, logouts and resets close it, and nothing    *)
(* else shows.                                                              *)

\* The refresh token a session accepts is one that was handed out for it.
CurrentWasIssued ==
  \A s \in DOMAIN sessions : sessions[s].currentRefreshJti # NoJti =>
    \E t \in issued : /\ t.type = "refresh" /\ t.sid = s
                      /\ t.jti = sessions[s].currentRefreshJti

RInv == IInv /\ CurrentWasIssued

IsRefreshJti(j) == \E t \in issued : t.type = "refresh" /\ t.jti = j

\* A step hands out an access token and the refresh token r of session s.
HandsOutPair(s, r) ==
  \E ta, tr : /\ issued' = issued \cup {ta, tr}
              /\ ta.type = "access"
              /\ tr.type = "refresh" /\ tr.jti = r /\ tr.sid = s

\* A step hands out an access token.
HandsOutAccess == \E t : issued' = issued \cup {t} /\ t.type = "access"

-----------------------------------------------------------------------------
\* What each handler that changes something does to the store and to the
\* tokens, in the terms the promise is about.
LEMMA LoginEffect ==
  ASSUME IInv, NEW c \in AccountClaims, NEW s \in FreshSid,
         NEW a \in FreshJti, NEW r \in FreshJti, Login(c, s, a, r)
  PROVE  /\ s \in Sid /\ s \notin DOMAIN sessions /\ s \notin UsedSid
         /\ r \in Jti /\ r # NoJti /\ ~ IsRefreshJti(r)
         /\ DOMAIN sessions' = DOMAIN sessions \cup {s}
         /\ sessions'[s] = NewSession(r)
         /\ \A x \in DOMAIN sessions : sessions'[x] = sessions[x]
         /\ UsedSid' = UsedSid \cup {s}
         /\ HandsOutPair(s, r)
<1>1. /\ s \in Sid /\ s \notin DOMAIN sessions /\ \A t \in issued : t.sid # s
      /\ a \in Jti /\ r \in Jti
      /\ \A t \in issued : t.jti # a /\ t.jti # r
  BY FreshSidFacts, FreshJtiFacts
<1>2. sessions' = Put(sessions, s, NewSession(r))
  BY DEF Login
<1> DEFINE ta == SignAccess(c, s, a)
           tr == SignRefresh(c, s, r)
<1>3. /\ ta.type = "access" /\ ta.sid = s
      /\ tr.type = "refresh" /\ tr.jti = r /\ tr.sid = s
  BY DEF SignAccess, SignRefresh, Sign
<1>4. issued' = issued \cup {ta, tr}
  BY DEF Login
<1> HIDE DEF ta, tr
<1>5. /\ DOMAIN sessions' = DOMAIN sessions \cup {s}
      /\ sessions'[s] = NewSession(r)
      /\ \A x \in DOMAIN sessions : sessions'[x] = sessions[x]
  BY <1>1, <1>2 DEF Put
<1>6. UsedSid' = UsedSid \cup {s}
  BY <1>3, <1>4 DEF UsedSid
<1>7. s \notin UsedSid /\ r # NoJti /\ ~ IsRefreshJti(r)
  BY <1>1, NullAssumption DEF UsedSid, IsRefreshJti
<1>8. HandsOutPair(s, r)
  BY <1>3, <1>4 DEF HandsOutPair
<1> QED BY <1>1, <1>5, <1>6, <1>7, <1>8

LEMMA ConvenienceEffect ==
  ASSUME IInv, NEW c \in Claims, NEW kind \in Kinds, NEW s \in FreshSid,
         NEW j \in FreshJti, IssueConvenienceToken(c, kind, s, j)
  PROVE  /\ s \in Sid /\ s \notin DOMAIN sessions /\ s \notin UsedSid
         /\ DOMAIN sessions' = DOMAIN sessions \cup {s}
         /\ sessions'[s] = ConvenienceSession(kind)
         /\ \A x \in DOMAIN sessions : sessions'[x] = sessions[x]
         /\ UsedSid' = UsedSid \cup {s}
         /\ HandsOutAccess
<1>1. s \in Sid /\ s \notin DOMAIN sessions /\ \A t \in issued : t.sid # s
  BY FreshSidFacts
<1>2. sessions' = Put(sessions, s, ConvenienceSession(kind))
  BY DEF IssueConvenienceToken
<1>3. \E t : issued' = issued \cup {t} /\ t.type = "access" /\ t.sid = s
  <2> DEFINE good == SignAccess(c, s, j)
             past == Sign("access", c, s, j, - ExpiredOffset)
  <2>1. good \in Token /\ good.type = "access" /\ good.sid = s
    <3>1. j \in Jti /\ now \in Int /\ AccessLife \in Int
      BY FreshJtiFacts, LifeAssumption DEF IInv, TypeOK
    <3> QED BY <1>1, <3>1, SignFacts DEF SignAccess
  <2>2. past.type = "access" /\ past.sid = s
    BY DEF Sign
  <2>3. issued' \in {issued \cup {good}, issued \cup {past},
                     issued \cup {CorruptSignature(good)}}
    BY DEF IssueConvenienceToken, Kinds
  <2> HIDE DEF good, past
  <2>4. CorruptSignature(good).type = "access" /\ CorruptSignature(good).sid = s
    BY <2>1 DEF CorruptSignature, Token
  <2> QED BY <2>1, <2>2, <2>3, <2>4
<1>4. /\ DOMAIN sessions' = DOMAIN sessions \cup {s}
      /\ sessions'[s] = ConvenienceSession(kind)
      /\ \A x \in DOMAIN sessions : sessions'[x] = sessions[x]
  BY <1>1, <1>2 DEF Put
<1>5. UsedSid' = UsedSid \cup {s} /\ s \notin UsedSid
  BY <1>1, <1>3 DEF UsedSid
<1>6. HandsOutAccess
  BY <1>3 DEF HandsOutAccess
<1> QED BY <1>1, <1>4, <1>5, <1>6

LEMMA LogoutEffect ==
  ASSUME IInv, NEW t \in issued, Logout(t)
  PROVE  /\ DOMAIN sessions' = DOMAIN sessions
         /\ \A x \in DOMAIN sessions \ {t.sid} : sessions'[x] = sessions[x]
         /\ t.sid \in DOMAIN sessions =>
              /\ sessions'[t.sid].revoked
              /\ sessions'[t.sid].currentRefreshJti = sessions[t.sid].currentRefreshJti
         /\ issued' = issued /\ t.sid \in Sid
<1>1. issued' = issued /\ t.sid \in Sid
  BY DEF Logout, IInv, TypeOK, Token
<1>2. sessions \in [DOMAIN sessions -> Session]
  BY DEF IInv, TypeOK
<1>3. CASE t.sid \in DOMAIN sessions
  <2>1. sessions' = Update(sessions, t.sid, Revoked(sessions[t.sid]))
    BY <1>3 DEF Logout
  <2>2. /\ Revoked(sessions[t.sid]).revoked
        /\ Revoked(sessions[t.sid]).currentRefreshJti = sessions[t.sid].currentRefreshJti
    BY <1>2, <1>3 DEF Revoked, Session
  <2> HIDE DEF Revoked
  <2>3. /\ DOMAIN sessions' = DOMAIN sessions
        /\ sessions'[t.sid] = Revoked(sessions[t.sid])
        /\ \A x \in DOMAIN sessions \ {t.sid} : sessions'[x] = sessions[x]
    BY <1>3, <2>1 DEF Update
  <2> QED BY <1>1, <2>2, <2>3
<1>4. CASE t.sid \notin DOMAIN sessions
  BY <1>1, <1>4 DEF Logout
<1> QED BY <1>3, <1>4

LEMMA RefreshEffect ==
  ASSUME IInv, NEW t \in issued, NEW a \in FreshJti, NEW r \in FreshJti,
         Refresh(t, a, r)
  PROVE  /\ t.sid \in Sid /\ Live(t.sid) /\ t.type = "refresh"
         /\ sessions[t.sid].currentRefreshJti = t.jti
         /\ r \in Jti /\ r # NoJti /\ ~ IsRefreshJti(r)
         /\ DOMAIN sessions' = DOMAIN sessions
         /\ sessions'[t.sid].revoked = sessions[t.sid].revoked
         /\ sessions'[t.sid].currentRefreshJti = r
         /\ \A x \in DOMAIN sessions \ {t.sid} : sessions'[x] = sessions[x]
         /\ UsedSid' = UsedSid
         /\ HandsOutPair(t.sid, r)
<1>1. /\ r \in Jti /\ \A u \in issued : u.jti # r
  BY FreshJtiFacts
<1>2. /\ Live(t.sid) /\ t.sid \in DOMAIN sessions /\ t.type = "refresh" /\ t.sid \in Sid
      /\ sessions[t.sid].currentRefreshJti = t.jti
  BY DEF Refresh, Redeemable, Verifies, Live, IInv, TypeOK, Token
<1>3. sessions' = Update(sessions, t.sid, Rotated(sessions[t.sid], r))
  BY DEF Refresh
<1>4. sessions[t.sid] \in Session
  BY <1>2 DEF IInv, TypeOK
<1>5. /\ Rotated(sessions[t.sid], r).revoked = sessions[t.sid].revoked
      /\ Rotated(sessions[t.sid], r).currentRefreshJti = r
  BY <1>4 DEF Rotated, Session
<1>6. /\ DOMAIN sessions' = DOMAIN sessions
      /\ sessions'[t.sid] = Rotated(sessions[t.sid], r)
      /\ \A x \in DOMAIN sessions \ {t.sid} : sessions'[x] = sessions[x]
  BY <1>2, <1>3 DEF Update
<1> DEFINE ta == SignAccess(CarriedClaims(t), t.sid, a)
           tr == SignRefresh(CarriedClaims(t), t.sid, r)
<1>7. /\ ta.type = "access" /\ ta.sid = t.sid
      /\ tr.type = "refresh" /\ tr.jti = r /\ tr.sid = t.sid
  BY DEF SignAccess, SignRefresh, Sign
<1>8. issued' = issued \cup {ta, tr}
  BY DEF Refresh
<1> HIDE DEF ta, tr
<1>9. UsedSid' = UsedSid
  BY <1>7, <1>8 DEF UsedSid
<1>10. r # NoJti /\ ~ IsRefreshJti(r)
  BY <1>1, NullAssumption DEF IsRefreshJti
<1>11. HandsOutPair(t.sid, r)
  BY <1>7, <1>8 DEF HandsOutPair
<1> QED BY <1>1, <1>2, <1>5, <1>6, <1>9, <1>10, <1>11

-----------------------------------------------------------------------------
\* Every step keeps the session's current refresh token among those issued.
LEMMA CurrentPreserved == RInv /\ [Next]_vars => CurrentWasIssued'
<1> SUFFICES ASSUME RInv, [Next]_vars PROVE CurrentWasIssued'
  OBVIOUS
<1> USE DEF RInv
<1>1. CASE \E c \in AccountClaims, s \in FreshSid, a, r \in FreshJti : Login(c, s, a, r)
  <2> PICK c \in AccountClaims, s \in FreshSid, a \in FreshJti, r \in FreshJti :
             Login(c, s, a, r)
    BY <1>1
  <2>1. /\ DOMAIN sessions' = DOMAIN sessions \cup {s}
        /\ sessions'[s] = NewSession(r)
        /\ \A x \in DOMAIN sessions : sessions'[x] = sessions[x]
        /\ HandsOutPair(s, r)
    BY LoginEffect
  <2>2. NewSession(r).currentRefreshJti = r
    BY DEF NewSession
  <2> QED BY <2>1, <2>2 DEF CurrentWasIssued, HandsOutPair
<1>2. CASE \E c \in Claims, kind \in Kinds, s \in FreshSid, j \in FreshJti :
             IssueConvenienceToken(c, kind, s, j)
  <2> PICK c \in Claims, kind \in Kinds, s \in FreshSid, j \in FreshJti :
             IssueConvenienceToken(c, kind, s, j)
    BY <1>2
  <2>1. /\ DOMAIN sessions' = DOMAIN sessions \cup {s}
        /\ sessions'[s] = ConvenienceSession(kind)
        /\ \A x \in DOMAIN sessions : sessions'[x] = sessions[x]
        /\ HandsOutAccess
    BY ConvenienceEffect
  <2>2. ConvenienceSession(kind).currentRefreshJti = NoJti
    BY DEF ConvenienceSession
  <2> QED BY <2>1, <2>2 DEF CurrentWasIssued, HandsOutAccess
<1>3. CASE \E t \in issued : Logout(t)
  BY <1>3, LogoutEffect DEF CurrentWasIssued
<1>4. CASE \E t \in issued, a, r \in FreshJti : Refresh(t, a, r)
  <2> PICK t \in issued, a \in FreshJti, r \in FreshJti : Refresh(t, a, r)
    BY <1>4
  <2>1. /\ DOMAIN sessions' = DOMAIN sessions
        /\ sessions'[t.sid].currentRefreshJti = r
        /\ \A x \in DOMAIN sessions \ {t.sid} : sessions'[x] = sessions[x]
        /\ HandsOutPair(t.sid, r)
    BY RefreshEffect
  <2> QED BY <2>1 DEF CurrentWasIssued, HandsOutPair
<1>5. CASE ResetSessions
  BY <1>5, EmptyStoreFacts DEF ResetSessions, CurrentWasIssued
<1>6. CASE UNCHANGED <<sessions, issued>>
  BY <1>6 DEF CurrentWasIssued
<1> QED BY <1>1, <1>2, <1>3, <1>4, <1>5, <1>6
  DEF Next, LogoutRefused, RefreshRefused, GetTokenInfo, Protected, Unreadable, Tick, vars

\* The stronger invariant holds in every reachable state.
THEOREM StrongInvariance == Spec => []RInv
<1>1. Init => RInv
  BY InitHolds, EmptyStoreFacts DEF Init, RInv, CurrentWasIssued
<1>2. RInv /\ [Next]_vars => RInv'
  BY StepPreserves, CurrentPreserved DEF RInv
<1> QED BY <1>1, <1>2, PTL DEF Spec

-----------------------------------------------------------------------------
\* A session that is not the subject of a step looks the same after it.
LEMMA SameSession ==
  ASSUME NEW x \in Sid, x \in UsedSid <=> x \in UsedSid',
         x \in DOMAIN sessions <=> x \in DOMAIN sessions',
         x \in DOMAIN sessions => sessions'[x] = sessions[x]
  PROVE  StatusOf(x)' = StatusOf(x) /\ TicketOf(x)' = TicketOf(x)
BY DEF StatusOf, TicketOf, Live

\* A session in the store has been issued, and two sessions never accept the
\* same refresh token.
LEMMA TicketFacts ==
  ASSUME RInv
  PROVE  /\ ~ IsRefreshJti(NoJti)
         /\ \A s \in Sid : Live(s) <=> StatusOf(s) = "open"
         /\ \A s \in Sid : TicketOf(s) # NoJti => IsRefreshJti(TicketOf(s)) /\ Live(s)
         /\ \A s, x \in Sid : TicketOf(s) = TicketOf(x) /\ TicketOf(s) # NoJti => s = x
<1>0. ~ IsRefreshJti(NoJti)
  BY NullAssumption DEF RInv, IInv, TypeOK, Token, IsRefreshJti
<1>1. \A s \in Sid : Live(s) <=> StatusOf(s) = "open"
  BY DEF RInv, IInv, SessionsWereIssued, StatusOf, Live
<1>2. \A s \in Sid : TicketOf(s) # NoJti => IsRefreshJti(TicketOf(s)) /\ Live(s)
  BY DEF RInv, CurrentWasIssued, TicketOf, Live, IsRefreshJti
<1>3. \A s, x \in Sid : TicketOf(s) = TicketOf(x) /\ TicketOf(s) # NoJti => s = x
  BY DEF RInv, IInv, JtiIsUnique, CurrentWasIssued, TicketOf, Live
<1> QED BY <1>0, <1>1, <1>2, <1>3

\* A dead ticket is a refresh token no session accepts.
LEMMA DeadFacts ==
  /\ \A j : j \in DeadTickets <=> IsRefreshJti(j) /\ \A s \in Sid : TicketOf(s) # j
  /\ \A j : j \in DeadTickets' <=> IsRefreshJti(j)' /\ \A s \in Sid : TicketOf(s)' # j
<1>1. \A j : j \in DeadTickets <=> IsRefreshJti(j) /\ \A s \in Sid : TicketOf(s) # j
  BY DEF DeadTickets, IsRefreshJti
<1>2. \A j : j \in DeadTickets' <=> IsRefreshJti(j)' /\ \A s \in Sid : TicketOf(s)' # j
  BY DEF DeadTickets, IsRefreshJti
<1> QED BY <1>1, <1>2

-----------------------------------------------------------------------------
\* A login opens a session with its first ticket.
LEMMA LoginMaps ==
  ASSUME RInv, NEW c \in AccountClaims, NEW s \in FreshSid,
         NEW a \in FreshJti, NEW r \in FreshJti, Login(c, s, a, r)
  PROVE  r \in Promise!NewTicket /\ Promise!Open(s, r)
<1>1. /\ s \in Sid /\ s \notin DOMAIN sessions /\ s \notin UsedSid
      /\ r \in Jti /\ r # NoJti /\ ~ IsRefreshJti(r)
      /\ DOMAIN sessions' = DOMAIN sessions \cup {s}
      /\ sessions'[s] = NewSession(r)
      /\ \A x \in DOMAIN sessions : sessions'[x] = sessions[x]
      /\ UsedSid' = UsedSid \cup {s}
      /\ HandsOutPair(s, r)
  BY LoginEffect DEF RInv
<1>3. \A x \in Sid \ {s} : StatusOf(x)' = StatusOf(x) /\ TicketOf(x)' = TicketOf(x)
  BY <1>1, SameSession
<1>4. /\ StatusOf(s) = "unused" /\ StatusOf(s)' = "open"
      /\ TicketOf(s) = NoJti /\ TicketOf(s)' = r
  BY <1>1 DEF StatusOf, TicketOf, Live, NewSession
<1>5. \A j : IsRefreshJti(j)' <=> IsRefreshJti(j) \/ j = r
  BY <1>1 DEF IsRefreshJti, HandsOutPair
<1>6. DeadTickets' = DeadTickets
  BY <1>1, <1>3, <1>4, <1>5, DeadFacts, TicketFacts
<1>7. r \in Promise!NewTicket
  BY <1>1, DeadFacts, TicketFacts DEF Promise!NewTicket, Promise!Tickets
<1>8. [x \in Sid |-> StatusOf(x)'] = [[x \in Sid |-> StatusOf(x)] EXCEPT ![s] = "open"]
  BY <1>1, <1>3, <1>4
<1>9. [x \in Sid |-> TicketOf(x)'] = [[x \in Sid |-> TicketOf(x)] EXCEPT ![s] = r]
  <2>1. s \in Sid /\ TicketOf(s)' = r /\ \A x \in Sid \ {s} : TicketOf(x)' = TicketOf(x)
    BY <1>1, <1>3, <1>4
  <2> QED BY ONLY <2>1
<1> QED BY <1>1, <1>4, <1>6, <1>7, <1>8, <1>9 DEF Promise!Open

\* A convenience token opens a session without a ticket, or a closed one.
LEMMA ConvenienceMaps ==
  ASSUME RInv, NEW c \in Claims, NEW kind \in Kinds, NEW s \in FreshSid,
         NEW j \in FreshJti, IssueConvenienceToken(c, kind, s, j)
  PROVE  s \in Sid /\ (Promise!Open(s, NoJti) \/ Promise!OpenClosed(s))
<1>1. /\ s \in Sid /\ s \notin DOMAIN sessions /\ s \notin UsedSid
      /\ DOMAIN sessions' = DOMAIN sessions \cup {s}
      /\ sessions'[s] = ConvenienceSession(kind)
      /\ \A x \in DOMAIN sessions : sessions'[x] = sessions[x]
      /\ UsedSid' = UsedSid \cup {s}
  BY ConvenienceEffect DEF RInv
<1>2. \A k : IsRefreshJti(k)' <=> IsRefreshJti(k)
  <2>1. HandsOutAccess
    BY ConvenienceEffect DEF RInv
  <2> QED BY <2>1 DEF IsRefreshJti, HandsOutAccess
<1>3. \A x \in Sid \ {s} : StatusOf(x)' = StatusOf(x) /\ TicketOf(x)' = TicketOf(x)
  BY <1>1, SameSession
<1>4. /\ StatusOf(s) = "unused" /\ TicketOf(s) = NoJti /\ TicketOf(s)' = NoJti
      /\ StatusOf(s)' = IF kind = "revoked" THEN "closed" ELSE "open"
  <2>1. /\ ConvenienceSession(kind).currentRefreshJti = NoJti
        /\ ConvenienceSession(kind).revoked <=> kind = "revoked"
    BY DEF ConvenienceSession
  <2> HIDE DEF ConvenienceSession
  <2>2. /\ StatusOf(s) = "unused" /\ TicketOf(s) = NoJti /\ TicketOf(s)' = NoJti
    BY <1>1, <2>1 DEF StatusOf, TicketOf, Live
  <2>3. s \in UsedSid' /\ s \in DOMAIN sessions' /\ (sessions'[s].revoked <=> kind = "revoked")
    BY <1>1, <2>1
  <2>4. StatusOf(s)' = IF kind = "revoked" THEN "closed" ELSE "open"
    BY <2>3 DEF StatusOf, Live
  <2> QED BY <2>2, <2>4
<1>5. DeadTickets' = DeadTickets
  BY <1>1, <1>2, <1>3, <1>4, DeadFacts
<1>6. CASE kind = "revoked"
  BY <1>1, <1>3, <1>4, <1>5, <1>6 DEF Promise!OpenClosed
<1>7. CASE kind # "revoked"
  BY <1>1, <1>3, <1>4, <1>5, <1>7 DEF Promise!Open
<1> QED BY <1>1, <1>6, <1>7

\* A refresh redeems the session's ticket for the next one.
LEMMA RefreshMaps ==
  ASSUME RInv, NEW t \in issued, NEW a \in FreshJti, NEW r \in FreshJti,
         Refresh(t, a, r)
  PROVE  t.sid \in Sid /\ r \in Promise!NewTicket /\ Promise!Redeem(t.sid, r)
<1> DEFINE s == t.sid
<1>1. /\ s \in Sid /\ Live(s) /\ t.type = "refresh"
      /\ sessions[s].currentRefreshJti = t.jti
      /\ r \in Jti /\ r # NoJti /\ ~ IsRefreshJti(r)
      /\ DOMAIN sessions' = DOMAIN sessions
      /\ sessions'[s].revoked = sessions[s].revoked
      /\ sessions'[s].currentRefreshJti = r
      /\ \A x \in DOMAIN sessions \ {s} : sessions'[x] = sessions[x]
      /\ UsedSid' = UsedSid
      /\ HandsOutPair(s, r)
  BY RefreshEffect DEF RInv
<1>0. t.jti # NoJti
  BY NullAssumption DEF RInv, IInv, TypeOK, Token
<1> HIDE DEF s
<1>3. \A x \in Sid \ {s} : StatusOf(x)' = StatusOf(x) /\ TicketOf(x)' = TicketOf(x)
  BY <1>1, SameSession
<1>4. /\ StatusOf(s) = "open" /\ StatusOf(s)' = "open"
      /\ TicketOf(s) = t.jti /\ TicketOf(s)' = r
  <2>1. StatusOf(s) = "open"
    BY <1>1, TicketFacts
  <2> QED BY <1>1, <2>1 DEF StatusOf, TicketOf, Live
<1>5. \A j : IsRefreshJti(j)' <=> IsRefreshJti(j) \/ j = r
  BY <1>1 DEF IsRefreshJti, HandsOutPair
<1>6. DeadTickets' = DeadTickets \cup {TicketOf(s)}
  BY <1>0, <1>1, <1>3, <1>4, <1>5, DeadFacts, TicketFacts
<1>7. r \in Promise!NewTicket
  BY <1>1, DeadFacts, TicketFacts DEF Promise!NewTicket, Promise!Tickets
<1> QED BY <1>0, <1>1, <1>3, <1>4, <1>6, <1>7 DEF Promise!Redeem, s

\* Ending the life of some live sessions, and issuing nothing, closes them.
LEMMA CloseMaps ==
  ASSUME RInv, NEW S \in SUBSET {s \in Sid : Live(s)}, issued' = issued,
         \A s \in S : ~ Live(s)',
         \A s \in Sid \ S : StatusOf(s)' = StatusOf(s) /\ TicketOf(s)' = TicketOf(s)
  PROVE  /\ S \in SUBSET {s \in Sid : [x \in Sid |-> StatusOf(x)][s] = "open"}
         /\ Promise!Close(S)
<1>1. \A s \in S : StatusOf(s)' = "closed" /\ TicketOf(s)' = NoJti
  BY DEF StatusOf, TicketOf, RInv, IInv, SessionsWereIssued, UsedSid, Live
<1>2. \A j : IsRefreshJti(j)' <=> IsRefreshJti(j)
  BY DEF IsRefreshJti
<1>3. DeadTickets' = DeadTickets \cup ({TicketOf(s) : s \in S} \ {NoJti})
  <2>1. \A j : j \in DeadTickets' <=> j \in DeadTickets \/ (j # NoJti /\ \E s \in S : TicketOf(s) = j)
    BY <1>1, <1>2, DeadFacts, TicketFacts
  <2> QED BY <2>1
<1>4. S \in SUBSET {s \in Sid : StatusOf(s) = "open"}
  BY TicketFacts
<1> QED BY <1>1, <1>3, <1>4 DEF Promise!Close

\* A logout closes the session, if it was open.
LEMMA LogoutMaps ==
  ASSUME RInv, NEW t \in issued, Logout(t)
  PROVE  \E S \in SUBSET {s \in Sid : [x \in Sid |-> StatusOf(x)][s] = "open"} :
           Promise!Close(S)
<1>1. /\ DOMAIN sessions' = DOMAIN sessions
      /\ \A x \in DOMAIN sessions \ {t.sid} : sessions'[x] = sessions[x]
      /\ t.sid \in DOMAIN sessions => sessions'[t.sid].revoked
      /\ issued' = issued /\ t.sid \in Sid
  BY LogoutEffect DEF RInv
<1>2. \A x \in Sid \ {t.sid} : StatusOf(x)' = StatusOf(x) /\ TicketOf(x)' = TicketOf(x)
  BY <1>1, SameSession DEF UsedSid
<1>3. ~ Live(t.sid)'
  BY <1>1 DEF Live
<1>4. CASE Live(t.sid)
  <2> DEFINE S == {t.sid}
  <2>1. S \in SUBSET {s \in Sid : Live(s)}
    BY <1>1, <1>4
  <2>2. /\ \A s \in S : ~ Live(s)'
        /\ \A s \in Sid \ S : StatusOf(s)' = StatusOf(s) /\ TicketOf(s)' = TicketOf(s)
    BY <1>2, <1>3
  <2> HIDE DEF S
  <2> QED BY <1>1, <2>1, <2>2, CloseMaps
<1>5. CASE ~ Live(t.sid)
  <2>1. StatusOf(t.sid)' = StatusOf(t.sid) /\ TicketOf(t.sid)' = TicketOf(t.sid)
    BY <1>1, <1>3, <1>5 DEF StatusOf, TicketOf, UsedSid
  <2>2. \A x \in Sid : StatusOf(x)' = StatusOf(x) /\ TicketOf(x)' = TicketOf(x)
    BY <1>2, <2>1
  <2> DEFINE S == {}
  <2>3. /\ S \in SUBSET {s \in Sid : Live(s)}
        /\ \A s \in S : ~ Live(s)'
        /\ \A s \in Sid \ S : StatusOf(s)' = StatusOf(s) /\ TicketOf(s)' = TicketOf(s)
    BY <2>2
  <2> HIDE DEF S
  <2> QED BY <1>1, <2>3, CloseMaps
<1> QED BY <1>4, <1>5

\* A reset closes every open session.
LEMMA ResetMaps ==
  ASSUME RInv, ResetSessions
  PROVE  \E S \in SUBSET {s \in Sid : [x \in Sid |-> StatusOf(x)][s] = "open"} :
           Promise!Close(S)
<1> DEFINE S == {s \in Sid : Live(s)}
<1>1. DOMAIN sessions' = {} /\ issued' = issued
  BY EmptyStoreFacts DEF ResetSessions
<1>2. \A s \in Sid : ~ Live(s)'
  BY <1>1 DEF Live
<1>3. \A s \in Sid \ S : StatusOf(s)' = StatusOf(s) /\ TicketOf(s)' = TicketOf(s)
  BY <1>1, <1>2 DEF StatusOf, TicketOf, UsedSid
<1> QED BY <1>1, <1>2, <1>3, CloseMaps

\* Whatever keeps the store and the tokens is a stutter of the promise.
LEMMA StutterMaps ==
  ASSUME UNCHANGED <<sessions, issued>>
  PROVE  UNCHANGED <<[s \in Sid |-> StatusOf(s)], [s \in Sid |-> TicketOf(s)], DeadTickets>>
BY DEF StatusOf, TicketOf, DeadTickets, Live, UsedSid

\* Every step of the handlers is a step of the promise, or none.
LEMMA StepMaps == RInv /\ [Next]_vars => [Promise!Next]_(Promise!promiseVars)
<1> SUFFICES ASSUME RInv, [Next]_vars PROVE Promise!Next \/ UNCHANGED Promise!promiseVars
  OBVIOUS
<1>1. CASE \E c \in AccountClaims, s \in FreshSid, a, r \in FreshJti : Login(c, s, a, r)
  <2> PICK c \in AccountClaims, s \in FreshSid, a \in FreshJti, r \in FreshJti :
             Login(c, s, a, r)
    BY <1>1
  <2>1. s \in Sid
    BY DEF FreshSid
  <2>2. r \in Promise!NewTicket /\ Promise!Open(s, r)
    BY LoginMaps
  <2> QED BY <2>1, <2>2 DEF Promise!Next
<1>2. CASE \E c \in Claims, kind \in Kinds, s \in FreshSid, j \in FreshJti :
             IssueConvenienceToken(c, kind, s, j)
  <2> PICK c \in Claims, kind \in Kinds, s \in FreshSid, j \in FreshJti :
             IssueConvenienceToken(c, kind, s, j)
    BY <1>2
  <2>1. s \in Sid /\ (Promise!Open(s, NoJti) \/ Promise!OpenClosed(s))
    BY ConvenienceMaps
  <2> QED BY <2>1 DEF Promise!Next
<1>3. CASE \E t \in issued : Logout(t)
  BY <1>3, LogoutMaps DEF Promise!Next
<1>4. CASE \E t \in issued, a, r \in FreshJti : Refresh(t, a, r)
  <2> PICK t \in issued, a \in FreshJti, r \in FreshJti : Refresh(t, a, r)
    BY <1>4
  <2>1. t.sid \in Sid /\ r \in Promise!NewTicket /\ Promise!Redeem(t.sid, r)
    BY RefreshMaps
  <2> QED BY <2>1 DEF Promise!Next
<1>5. CASE ResetSessions
  BY <1>5, ResetMaps DEF Promise!Next
<1>6. CASE UNCHANGED <<sessions, issued>>
  BY <1>6, StutterMaps DEF Promise!promiseVars
<1> QED BY <1>1, <1>2, <1>3, <1>4, <1>5, <1>6
  DEF Next, LogoutRefused, RefreshRefused, GetTokenInfo, Protected, Unreadable, Tick, vars

\* The handlers keep the promise: a session opens once and closes once, and its
\* single ticket is redeemed at most once.
THEOREM Refinement == Spec => KeepsPromise
<1>1. Init => Promise!Init
  BY EmptyStoreFacts DEF Init, Promise!Init, StatusOf, TicketOf, DeadTickets, UsedSid, Live
<1> QED BY <1>1, StepMaps, StrongInvariance, PTL DEF Spec, KeepsPromise, Promise!Spec
=============================================================================
