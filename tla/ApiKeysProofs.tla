----------------------------- MODULE ApiKeysProofs -----------------------------
(***************************************************************************)
(* Theorems about ApiKeys, for every set of key values.                     *)
(*                                                                         *)
(* The inductive invariant is the type invariant and the one about the last *)
(* word.  The type invariant holds the fact that makes both inductive: the  *)
(* server knows only keys it handed out, so a fresh key is fresh for the    *)
(* store too, and its record does not replace one that was talked about.    *)
(***************************************************************************)
EXTENDS ApiKeys, StoresProofs

IInv == TypeOK /\ LastWordHolds

-----------------------------------------------------------------------------
\* What the stores hold after each kind of step that writes.
LEMMA IssueFacts ==
  ASSUME TypeOK, NEW kind \in Kinds, IssueApiKey(kind)
  PROVE  \E k \in ApiKey \ DOMAIN kindOf :
           /\ DOMAIN apiKeys' = DOMAIN apiKeys \cup {k}
           /\ apiKeys'[k] = Stored(kind)
           /\ \A x \in DOMAIN apiKeys : apiKeys'[x] = apiKeys[x] /\ x # k
           /\ DOMAIN kindOf' = DOMAIN kindOf \cup {k}
           /\ kindOf'[k] = kind
           /\ \A x \in DOMAIN kindOf : kindOf'[x] = kindOf[x]
           /\ told' = Put(told, k, ComputeStatus(Stored(kind)))
<1>1. PICK k \in ApiKey \ DOMAIN kindOf :
        /\ apiKeys' = Put(apiKeys, k, Stored(kind))
        /\ kindOf' = Put(kindOf, k, kind)
        /\ Tell(k, ComputeStatus(Stored(kind)))
  BY DEF IssueApiKey
<1>2. k \notin DOMAIN apiKeys /\ k \notin DOMAIN kindOf
  BY DEF TypeOK
<1>3. WITNESS k \in ApiKey \ DOMAIN kindOf
<1>4. /\ DOMAIN apiKeys' = DOMAIN apiKeys \cup {k}
      /\ apiKeys'[k] = Stored(kind)
      /\ \A x \in DOMAIN apiKeys : apiKeys'[x] = apiKeys[x] /\ x # k
  BY <1>1, <1>2 DEF Put
<1>5. /\ DOMAIN kindOf' = DOMAIN kindOf \cup {k}
      /\ kindOf'[k] = kind
      /\ \A x \in DOMAIN kindOf : kindOf'[x] = kindOf[x]
  BY <1>1, <1>2 DEF Put
<1>6. told' = Put(told, k, ComputeStatus(Stored(kind)))
  BY <1>1, NoKeyAssumption DEF Tell
<1> QED BY <1>4, <1>5, <1>6

LEMMA RevokeFacts ==
  ASSUME TypeOK, NEW k \in ApiKey \cup {NoApiKey}, RevokeApiKey(k)
  PROVE  /\ k \in ApiKey /\ k \in DOMAIN apiKeys /\ kindOf' = kindOf
         /\ DOMAIN apiKeys' = DOMAIN apiKeys
         /\ apiKeys'[k] \in Record /\ apiKeys'[k].revoked = TRUE
         /\ \A x \in DOMAIN apiKeys \ {k} : apiKeys'[x] = apiKeys[x]
         /\ told' = Put(told, k, "revoked")
<1>1. apiKeys' = Update(apiKeys, k, [apiKeys[k] EXCEPT !.revoked = TRUE])
  BY DEF RevokeApiKey, Revoked
<1>2. k \in DOMAIN apiKeys /\ apiKeys[k] \in Record
  BY DEF RevokeApiKey, TypeOK
<1>3. /\ [apiKeys[k] EXCEPT !.revoked = TRUE] \in Record
      /\ [apiKeys[k] EXCEPT !.revoked = TRUE].revoked = TRUE
  BY <1>2 DEF Record
<1>4. /\ DOMAIN apiKeys' = DOMAIN apiKeys
      /\ apiKeys'[k] = [apiKeys[k] EXCEPT !.revoked = TRUE]
      /\ \A x \in DOMAIN apiKeys \ {k} : apiKeys'[x] = apiKeys[x]
  BY <1>1, <1>2 DEF Update
<1>5. k \in ApiKey /\ told' = Put(told, k, "revoked")
  BY <1>2, NoKeyAssumption DEF RevokeApiKey, Tell, TypeOK
<1> QED BY <1>2, <1>3, <1>4, <1>5 DEF RevokeApiKey

\* A status is one of the three, and the middleware has two more.
LEMMA StatusFacts ==
  /\ \A r \in Record : ComputeStatus(r) \in Statuses
  /\ \A kind \in Kinds : Stored(kind) \in Record
  /\ TypeOK => \A k : Standing(k) \in Standings
BY DEF ComputeStatus, Statuses, Standings, Standing, Stored, Kinds, Record, TypeOK

\* What the history holds after an answer.
LEMMA ToldFacts ==
  ASSUME NEW k, NEW STATE status, told' = Put(told, k, status)
  PROVE  /\ DOMAIN told' = DOMAIN told \cup {k}
         /\ told'[k] = status
         /\ \A x \in DOMAIN told \ {k} : told'[x] = told[x]
BY DEF Put

LEMMA ToldTypes ==
  ASSUME TypeOK, NEW k \in ApiKey, NEW STATE status, status \in Standings,
         told' = Put(told, k, status)
  PROVE  \A x \in DOMAIN told' : x \in ApiKey /\ told'[x] \in Standings
<1>1. /\ DOMAIN told' = DOMAIN told \cup {k} /\ told'[k] = status
      /\ \A x \in DOMAIN told \ {k} : told'[x] = told[x]
  BY ToldFacts
<1> QED BY <1>1 DEF TypeOK

\* Requests that are refused, and reads, tell the standing as it is.
LEMMA TellingFacts ==
  ASSUME NEW k \in ApiKey \cup {NoApiKey}, RevokeRefused(k) \/ GetProtected(k)
  PROVE  /\ UNCHANGED <<apiKeys, kindOf>>
         /\ \/ told' = told
            \/ k \in ApiKey /\ told' = Put(told, k, Standing(k))
BY DEF RevokeRefused, GetProtected, Tell, Standing

-----------------------------------------------------------------------------
\* Every request keeps the stores in their type.
LEMMA TypePreserved == TypeOK /\ [Next]_vars => TypeOK'
<1> SUFFICES ASSUME TypeOK, [Next]_vars PROVE TypeOK'
  OBVIOUS
<1>1. ASSUME NEW kind \in Kinds, IssueApiKey(kind) PROVE TypeOK'
  <2>1. PICK k \in ApiKey \ DOMAIN kindOf :
          /\ DOMAIN apiKeys' = DOMAIN apiKeys \cup {k}
          /\ apiKeys'[k] = Stored(kind)
          /\ \A x \in DOMAIN apiKeys : apiKeys'[x] = apiKeys[x] /\ x # k
          /\ DOMAIN kindOf' = DOMAIN kindOf \cup {k}
          /\ kindOf'[k] = kind
          /\ \A x \in DOMAIN kindOf : kindOf'[x] = kindOf[x]
          /\ told' = Put(told, k, ComputeStatus(Stored(kind)))
    BY <1>1, IssueFacts
  <2>2. /\ Stored(kind) \in Record /\ ComputeStatus(Stored(kind)) \in Standings
        /\ kind = "revoked" => Stored(kind).revoked
    BY StatusFacts DEF Stored, Standings
  <2>3. ASSUME NEW x \in DOMAIN apiKeys'
        PROVE  apiKeys'[x] \in Record /\ (kindOf'[x] = "revoked" => apiKeys'[x].revoked)
    <3>1. CASE x = k
      BY <2>1, <2>2, <3>1
    <3>2. CASE x \in DOMAIN apiKeys
      BY <2>1, <3>2 DEF TypeOK
    <3> QED BY <2>1, <3>1, <3>2
  <2>4. \A x \in DOMAIN kindOf' : x \in ApiKey /\ kindOf'[x] \in Kinds
    BY <2>1 DEF TypeOK
  <2>5. \A x \in DOMAIN told' : x \in ApiKey /\ told'[x] \in Standings
    BY <2>1, <2>2, ToldTypes
  <2> QED BY <2>1, <2>3, <2>4, <2>5 DEF TypeOK
<1>2. ASSUME NEW k \in ApiKey \cup {NoApiKey}, RevokeApiKey(k) PROVE TypeOK'
  <2>1. ASSUME NEW x \in DOMAIN apiKeys
        PROVE  apiKeys'[x] \in Record /\ (kindOf'[x] = "revoked" => apiKeys'[x].revoked)
    BY <1>2, RevokeFacts DEF TypeOK
  <2>2. /\ DOMAIN apiKeys' = DOMAIN apiKeys /\ kindOf' = kindOf
    BY <1>2, RevokeFacts
  <2>3. \A x \in DOMAIN told' : x \in ApiKey /\ told'[x] \in Standings
    <3>1. k \in ApiKey /\ told' = Put(told, k, "revoked") /\ "revoked" \in Standings
      BY <1>2, RevokeFacts DEF Standings, Statuses
    <3> QED BY <3>1, ToldTypes
  <2> QED BY <2>1, <2>2, <2>3 DEF TypeOK
<1>3. ASSUME NEW k \in ApiKey \cup {NoApiKey}, RevokeRefused(k) \/ GetProtected(k)
      PROVE  TypeOK'
  <2>1. \A x \in DOMAIN told' : x \in ApiKey /\ told'[x] \in Standings
    BY <1>3, TellingFacts, StatusFacts, ToldTypes DEF TypeOK
  <2> QED BY <1>3, <2>1, TellingFacts DEF TypeOK
<1>4. CASE ResetAuthStores
  BY <1>4, EmptyStoreFacts DEF ResetAuthStores, TypeOK
<1>5. CASE UNCHANGED vars
  BY <1>5 DEF vars, TypeOK
<1> QED BY <1>1, <1>2, <1>3, <1>4, <1>5 DEF Next

\* An answer tells the standing its key has after the request, and no request but one that
\* tells so changes the standing of a key.
LEMMA AnswersAreTrue == TypeOK /\ LastWordHolds /\ [Next]_vars => LastWordHolds'
<1> SUFFICES ASSUME TypeOK, LastWordHolds, [Next]_vars PROVE LastWordHolds'
  OBVIOUS
<1>1. ASSUME NEW kind \in Kinds, IssueApiKey(kind) PROVE LastWordHolds'
  <2>1. PICK k \in ApiKey \ DOMAIN kindOf :
          /\ DOMAIN apiKeys' = DOMAIN apiKeys \cup {k}
          /\ apiKeys'[k] = Stored(kind)
          /\ \A x \in DOMAIN apiKeys : apiKeys'[x] = apiKeys[x] /\ x # k
          /\ told' = Put(told, k, ComputeStatus(Stored(kind)))
    BY <1>1, IssueFacts
  <2>2. Standing(k)' = told'[k]
    BY <2>1, ToldFacts, NoKeyAssumption DEF Standing
  <2>3. ASSUME NEW x \in DOMAIN told \ {k} PROVE Standing(x)' = told'[x]
    <3>1. Standing(x)' = Standing(x)
      BY <2>1, <2>3 DEF Standing
    <3> QED BY <2>1, <3>1, ToldFacts DEF LastWordHolds
  <2>4. DOMAIN told' = DOMAIN told \cup {k}
    BY <2>1, ToldFacts
  <2>5. \A x \in DOMAIN told' : Standing(x)' = told'[x]
    BY <2>2, <2>3, <2>4
  <2> QED BY <2>5 DEF LastWordHolds
<1>2. ASSUME NEW k \in ApiKey \cup {NoApiKey}, RevokeApiKey(k) PROVE LastWordHolds'
  <2>1. k # NoApiKey /\ k \in DOMAIN apiKeys' /\ told' = Put(told, k, "revoked")
    BY <1>2, RevokeFacts, NoKeyAssumption
  <2>2. ComputeStatus(apiKeys'[k]) = "revoked"
    BY <1>2, RevokeFacts DEF ComputeStatus
  <2>3. Standing(k)' = told'[k]
    BY <2>1, <2>2, ToldFacts DEF Standing
  <2>4. ASSUME NEW x \in DOMAIN told \ {k} PROVE Standing(x)' = told'[x]
    <3>1. Standing(x)' = Standing(x)
      BY <1>2, <2>4, RevokeFacts DEF Standing
    <3> QED BY <2>1, <3>1, ToldFacts DEF LastWordHolds
  <2>5. DOMAIN told' = DOMAIN told \cup {k}
    BY <2>1, ToldFacts
  <2>6. \A x \in DOMAIN told' : Standing(x)' = told'[x]
    BY <2>3, <2>4, <2>5
  <2> QED BY <2>6 DEF LastWordHolds
<1>3. ASSUME NEW k \in ApiKey \cup {NoApiKey}, RevokeRefused(k) \/ GetProtected(k)
      PROVE  LastWordHolds'
  <2>1. \A x : Standing(x)' = Standing(x)
    BY <1>3, TellingFacts DEF Standing
  <2>2. CASE told' = told
    BY <2>1, <2>2 DEF LastWordHolds
  <2>3. CASE told' = Put(told, k, Standing(k))
    <3>1. /\ DOMAIN told' = DOMAIN told \cup {k} /\ told'[k] = Standing(k)
          /\ \A x \in DOMAIN told \ {k} : told'[x] = told[x]
      BY <2>3 DEF Put
    <3>2. \A x \in DOMAIN told' : Standing(x)' = told'[x]
      BY <2>1, <3>1 DEF LastWordHolds
    <3> QED BY <3>2 DEF LastWordHolds
  <2> QED BY <1>3, <2>2, <2>3, TellingFacts
<1>4. CASE ResetAuthStores
  BY <1>4, EmptyStoreFacts DEF ResetAuthStores, LastWordHolds
<1>5. CASE UNCHANGED vars
  BY <1>5 DEF vars, LastWordHolds, Standing
<1> QED BY <1>1, <1>2, <1>3, <1>4, <1>5 DEF Next

\* The server starts without a key.
LEMMA InitHolds == Init => IInv
BY EmptyStoreFacts DEF Init, IInv, TypeOK, LastWordHolds, Standings

\* The invariant holds along every run.
THEOREM Invariance == Spec => []IInv
BY InitHolds, TypePreserved, AnswersAreTrue, PTL DEF Spec, IInv

\* The server knows only keys it handed out, and those of kind "revoked" only as revoked.
THEOREM TypeCorrect == Spec => []TypeOK
<1>1. IInv => TypeOK
  BY DEF IInv
<1> QED BY <1>1, Invariance, PTL

\* What a response last said of a key is what apiKeyAuth makes of it, until the next reset.
THEOREM LastWord == Spec => []LastWordHolds
<1>1. IInv => LastWordHolds
  BY DEF IInv
<1> QED BY <1>1, Invariance, PTL

-----------------------------------------------------------------------------
\* No request betters the standing of a key that was handed out.
LEMMA StandingWanes ==
  ASSUME TypeOK, [Next]_vars, NEW k \in DOMAIN kindOf
  PROVE  Standing(k)' \in Worsens[Standing(k)]
<1>1. /\ k \in ApiKey /\ k # NoApiKey
      /\ Standing(k) \in {"active", "expired", "revoked", "unrecognized"}
  BY NoKeyAssumption DEF TypeOK, Standing, ComputeStatus
<1>2. \A s \in {"active", "expired", "revoked", "unrecognized"} : s \in Worsens[s]
  BY DEF Worsens, Standings, Statuses
<1>3. CASE Standing(k)' = Standing(k)
  BY <1>1, <1>2, <1>3
<1>4. ASSUME NEW kind \in Kinds, IssueApiKey(kind) PROVE Standing(k)' = Standing(k)
  <2>1. PICK new \in ApiKey \ DOMAIN kindOf :
          /\ DOMAIN apiKeys' = DOMAIN apiKeys \cup {new}
          /\ \A x \in DOMAIN apiKeys : apiKeys'[x] = apiKeys[x]
    BY <1>4, IssueFacts
  <2> QED BY <2>1 DEF Standing
<1>5. ASSUME NEW x \in ApiKey \cup {NoApiKey}, RevokeApiKey(x)
      PROVE  Standing(k)' \in Worsens[Standing(k)]
  <2>1. CASE x # k
    BY <1>3, <1>5, <2>1, RevokeFacts DEF Standing
  <2>2. CASE x = k
    <3>1. Standing(k)' = "revoked" /\ Standing(k) \in {"active", "expired", "revoked"}
      <4>1. k \in DOMAIN apiKeys /\ DOMAIN apiKeys' = DOMAIN apiKeys
        BY <1>5, <2>2, RevokeFacts
      <4>2. ComputeStatus(apiKeys'[k]) = "revoked"
        BY <1>5, <2>2, RevokeFacts DEF ComputeStatus
      <4> QED BY <1>1, <4>1, <4>2 DEF Standing, ComputeStatus
    <3> QED BY <3>1 DEF Worsens, Standings, Statuses
  <2> QED BY <2>1, <2>2
<1>6. ASSUME NEW x \in ApiKey \cup {NoApiKey}, RevokeRefused(x) \/ GetProtected(x)
      PROVE  Standing(k)' = Standing(k)
  BY <1>6 DEF RevokeRefused, GetProtected, Standing
<1>7. CASE ResetAuthStores
  <2>1. Standing(k)' = "unrecognized"
    BY <1>1, <1>7, EmptyStoreFacts DEF ResetAuthStores, Standing
  <2> QED BY <1>1, <2>1 DEF Worsens, Standings
<1>8. CASE UNCHANGED vars
  BY <1>3, <1>8 DEF vars, Standing
<1> QED BY <1>3, <1>4, <1>5, <1>6, <1>7, <1>8 DEF Next

\* Once handed out, a key only ever loses.
THEOREM OnlyWorse == Spec => StandingOnlyWorsens
<1>1. TypeOK /\ [Next]_vars
        => [\A k \in DOMAIN kindOf : Standing(k)' \in Worsens[Standing(k)]]_vars
  BY StandingWanes
<1> QED BY <1>1, TypeCorrect, PTL DEF Spec, StandingOnlyWorsens

-----------------------------------------------------------------------------
\* A key is handed out once, and never accepted again after it was refused.
LEMMA StepMaps == TypeOK /\ [Next]_vars => [Handout!Next]_(Handout!vars)
<1> SUFFICES ASSUME TypeOK, [Next]_vars PROVE Handout!Next
  OBVIOUS
<1>1. \A k \in DOMAIN kindOf : Standing(k)' = "active" => Standing(k) = "active"
  <2> SUFFICES ASSUME NEW k \in DOMAIN kindOf, Standing(k)' = "active"
               PROVE  Standing(k) = "active"
    OBVIOUS
  <2>1. Standing(k) \in {"active", "expired", "revoked", "unrecognized"}
    BY NoKeyAssumption DEF TypeOK, Standing, ComputeStatus
  <2> QED BY <2>1, StandingWanes DEF Worsens
<1>2. DOMAIN kindOf \subseteq DOMAIN kindOf'
  <2>1. ASSUME NEW kind \in Kinds, IssueApiKey(kind) PROVE DOMAIN kindOf \subseteq DOMAIN kindOf'
    BY <2>1, IssueFacts
  <2> QED BY <2>1
        DEF Next, RevokeApiKey, RevokeRefused, GetProtected, ResetAuthStores, vars
<1>3. DOMAIN kindOf' \subseteq ApiKey
  BY TypePreserved DEF TypeOK
<1> QED BY <1>1, <1>2, <1>3 DEF Handout!Next

\* Keys are credentials: handed out once, good at first or never, and never good again.
THEOREM KeysAreCredentials == Spec => KeepsCredentials
<1>1. Init => Handout!Init
  BY EmptyStoreFacts DEF Init, Handout!Init
<1> QED BY <1>1, StepMaps, TypeCorrect, PTL DEF Spec, KeepsCredentials, Handout!Spec
=============================================================================
