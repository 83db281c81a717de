--------------------------------- MODULE Server ---------------------------------
(***************************************************************************)
(* A request's way through the server (app.ts): CORS, the JSON body, the    *)
(* route, its gates, its handler, errorHandler; with the credentials that   *)
(* come and go meanwhile and the rows of the core resources it may change.  *)
(*                                                                         *)
(* Everything up to the body, and everything after it, is one synchronous   *)
(* step.  A body arrives in between: `arriving` are the requests whose body *)
(* is on its way.  They are judged by what holds when it has arrived.       *)
(*                                                                         *)
(* A credential is an access token or an API key.  Sessions and ApiKeys say *)
(* how it comes by its standing; each token here has a session of its own.  *)
(* CoreResources says what the stores may have against a body.              *)
(***************************************************************************)
EXTENDS Routes, Registry, Stores

CONSTANTS
  Token,             \* access tokens
  ApiKey,            \* API keys
  RoleOf,            \* token -> role
  ScopesOf,          \* token -> scopes
  Content,           \* what a row can hold
  SeedRows,          \* resource -> its seeded rows
  Configs,           \* values of apiPrefix, and whether corsOrigin is a list
  Requests,          \* the requests clients make
  MaxArriving,       \* bound: requests whose body is on its way
  MaxId              \* bound: ids handed out

Resource == {"users", "products", "customers", "orders"}

Credential == Token \cup ApiKey

\* Proofs that are no credential of the two kinds.
Nothing == "nothing"
AdminToken == "the admin token"
WrongAdminToken == "another admin token"
DemoAccount == "the basic demo account"
WrongAccount == "another basic account"

Proof == Credential \cup {Nothing, AdminToken, WrongAdminToken, DemoAccount, WrongAccount}

\* Bodies that are no content: none, one that fails its schema, no JSON, too long.
NoBody == "none"
BadBody == "bad"
Malformed == "malformed"
TooLarge == "too large"

Body == Content \cup {NoBody, BadBody, Malformed, TooLarge}

NoOrigin == "none"

Request == [method : {"GET", "HEAD", "POST", "PUT", "PATCH", "DELETE", "OPTIONS"},
            path : Seq(STRING), proof : Proof, body : Body,
            origin : {NoOrigin, "listed", "unlisted"}]

Standings == {"unissued", "good", "void", "expired"}

DefaultPrefix == <<"api", "v1">>

Prefixes == {c.prefix : c \in Configs}

ASSUME CredentialAssumption ==
  /\ Token \cap ApiKey = {}
  /\ Credential \cap {Nothing, AdminToken, WrongAdminToken, DemoAccount, WrongAccount} = {}
ASSUME ContentAssumption ==
  Content \cap {NoBody, BadBody, Malformed, TooLarge} = {}
ASSUME ClaimAssumption ==
  RoleOf \in [Token -> USER_ROLES] /\ ScopesOf \in [Token -> SUBSET SCOPES]
ASSUME RequestAssumption == Requests \subseteq Request
ASSUME SeedAssumption ==
  /\ DOMAIN SeedRows = Resource
  /\ \A r \in Resource : /\ DOMAIN SeedRows[r] \subseteq 1 .. MaxId
                         /\ \A id \in DOMAIN SeedRows[r] : SeedRows[r][id] \in Content
\* A prefix starts with a slash and may end with one; doubled slashes are left out.
ASSUME ConfigAssumption ==
  \A c \in Configs :
    /\ DOMAIN c = {"prefix", "corsList"} /\ c.corsList \in BOOLEAN
    /\ c.prefix \in Seq(STRING) \ {<<>>}
    /\ \A i \in 1 .. Len(c.prefix) - 1 : c.prefix[i] # ""
ASSUME BoundAssumption == MaxArriving \in Nat /\ MaxId \in Nat

VARIABLES
  config,            \* read once, at the start
  standing,          \* credential -> what the server makes of it
  stores,            \* resource -> its auto-numbered store
  arriving           \* requests whose body is on its way

vars == <<config, standing, stores, arriving>>

-----------------------------------------------------------------------------
(* Gates. *)

Passed == 0

Good(c) == c \in Credential /\ standing[c] = "good"

GoodToken(q) == q.proof \in Token /\ Good(q.proof)

\* What reading req.auth comes to if no gate has set it.
Unauthenticated == errorHandler(OtherError("TypeError"))

ScopeRefusal(q, scope, authenticated) ==
  IF ~ authenticated THEN Unauthenticated
  ELSE IF HasScope(ScopesOf[q.proof], scope) THEN Passed ELSE 403

RoleRefusal(q, role, authenticated) ==
  IF ~ authenticated THEN Unauthenticated
  ELSE IF RoleOf[q.proof] = role THEN Passed ELSE 403

AdminRefusal(q) ==
  IF q.proof = AdminToken THEN Passed ELSE IF q.proof = WrongAdminToken THEN 403 ELSE 401

\* What a gate answers a request with, or that it lets it pass.
Refusal(gate, q, arg, authenticated) ==
  CASE gate.name = "authenticate" -> IF GoodToken(q) THEN Passed ELSE 401
    [] gate.name = "requireScope" -> ScopeRefusal(q, gate.needs, authenticated)
    [] gate.name = "requireRole" -> RoleRefusal(q, gate.needs, authenticated)
    [] gate.name = "validateRoleParam" -> IF parseRoleParam(arg) THEN Passed ELSE 400
    [] gate.name = "validateScopeParam" -> IF parseScopeParam(arg) THEN Passed ELSE 400
    [] gate.name = "requireMatchingRole" -> RoleRefusal(q, arg, authenticated)
    [] gate.name = "requireMatchingScope" -> ScopeRefusal(q, arg, authenticated)
    [] gate.name = "adminAuth" -> AdminRefusal(q)
    [] gate.name = "apiKeyAuth" -> IF q.proof \in ApiKey /\ Good(q.proof) THEN Passed ELSE 401
    [] gate.name = "basicAuth" -> IF q.proof = DemoAccount THEN Passed ELSE 401

\* req.auth is set when the i-th gate is asked: authenticate came before, and passed.
Authenticated(gates, i, q) == GoodToken(q) /\ \E j \in 1 .. i - 1 : gates[j] = authenticate

\* The gates are asked in order, up to the first that refuses.
GatesAnswer(gates, q, arg) ==
  LET refusal(i) == Refusal(gates[i], q, arg, Authenticated(gates, i, q))
      refusing == {i \in DOMAIN gates : refusal(i) # Passed}
  IN  IF refusing = {} THEN Passed
      ELSE refusal(CHOOSE i \in refusing : \A j \in refusing : i <= j)

-----------------------------------------------------------------------------
(* The way of a request to its handler. *)

CorsRefuses(q) == config.corsList /\ q.origin = "unlisted"

\* express.json cannot read the body.
Unreadable(q) == q.body \in {Malformed, TooLarge}

BodyError(q) ==
  errorHandler(OtherError(IF q.body = TooLarge THEN "entity.too.large"
                          ELSE "entity.parse.failed"))

Targets == {<<q.method, q.path>> : q \in Requests}

\* The route of every request under every prefix, and the segment of its parameter.
Resolved ==
  [p \in Prefixes |->
     [t \in Targets |->
        LET route == RouteOf(p, t[1], t[2])
        IN  [route |-> route, argument |-> ArgumentOf(p, route, t[2])]]]

\* The status a request is answered with before its handler is called, or that it passes.
StopOf(q, route, argument) ==
  CASE CorsRefuses(q) -> errorHandler(HttpError(403))
    [] ~ CorsRefuses(q) /\ q.method = "OPTIONS" -> 204
    [] ~ CorsRefuses(q) /\ q.method # "OPTIONS" ->
         IF Unreadable(q) THEN BodyError(q)
         ELSE IF route = NoRoute THEN 404
         ELSE IF argument = Undecodable THEN errorHandler(OtherError("URIError"))
         ELSE IF ~ Serves(route, q.method) THEN 405
         ELSE GatesAnswer(EntryOf(route, q.method).gates, q, argument)

\* What a request comes to, were it to be dealt with now.
WayOf(q) ==
  LET found == Resolved[config.prefix][<<q.method, q.path>>]
      served == Serves(found.route, q.method)
  IN  [argument |-> found.argument,
       stop |-> StopOf(q, found.route, found.argument),
       handler |-> IF served THEN EntryOf(found.route, q.method).handler ELSE OpenapiDocument]

-----------------------------------------------------------------------------
(* Handlers, given a request and its way. *)

Rows(r) == stores[r].rows

Present(way) == NumberOf(way.argument) \in DOMAIN Rows(way.handler.on)

\* A body the schema of the handler takes; an empty one will do for a patch.
Valid(q, way) == q.body \in Content \/ (q.body = NoBody /\ way.handler.does = "patch")

\* The statuses a handler of a core resource may answer with: 400 also for what
\* other rows have against a valid body.
CoreAnswers(q, way) ==
  CASE way.handler.does = "list" -> way.handler.answers
    [] way.handler.does = "get" -> IF Present(way) THEN {200} ELSE {404}
    [] way.handler.does = "delete" -> IF Present(way) THEN {204} ELSE {404}
    [] way.handler.does = "create" -> IF Valid(q, way) THEN {201, 400} ELSE {400}
    [] way.handler.does \in {"replace", "patch"} ->
         IF ~ Valid(q, way) THEN {400} ELSE IF Present(way) THEN {200, 400} ELSE {400, 404}

\* Logout verifies the token and does not ask its session.
LogoutAnswers(q) ==
  IF q.proof \in Token /\ standing[q.proof] \in {"good", "void"} THEN {200} ELSE {401}

\* A key that is void may be revoked still, or forgotten.
RevokeAnswers(q) ==
  IF q.proof \notin ApiKey THEN {401}
  ELSE IF standing[q.proof] = "unissued" THEN {404}
  ELSE IF standing[q.proof] = "good" THEN {200} ELSE {200, 404}

\* Whatever token it is; a text that is none cannot be decoded.
TokenInfoAnswers(q) ==
  IF q.proof \notin Token THEN {400}
  ELSE IF standing[q.proof] = "unissued" THEN {200, 400} ELSE {200}

HandlerAnswers(q, way) ==
  IF ~ Accepts(way.handler.parser, way.argument) THEN {400}
  ELSE IF way.handler.on \in Resource THEN CoreAnswers(q, way)
  ELSE IF way.handler.does = "logout" THEN LogoutAnswers(q)
  ELSE IF way.handler.does = "revoke" THEN RevokeAnswers(q)
  ELSE IF way.handler.does = "tokenInfo" THEN TokenInfoAnswers(q)
  ELSE way.handler.answers

\* The statuses a request may be answered with.
Answers(q, way) == IF way.stop # Passed THEN {way.stop} ELSE HandlerAnswers(q, way)

-----------------------------------------------------------------------------
(* Steps. *)

Init ==
  /\ config \in Configs
  /\ standing = [c \in Credential |-> "unissued"]
  /\ stores = [r \in Resource |-> ResetRows(SeedRows[r])]
  /\ arriving = {}

\* login, refresh, issueConvenienceToken, issueApiKey: of a kind asked for.
Issue(c, s) ==
  /\ standing[c] = "unissued"
  /\ standing' = [standing EXCEPT ![c] = s]
  /\ UNCHANGED <<config, stores, arriving>>

\* A token runs out; a key does not after it is issued.
Expire(t) ==
  /\ standing[t] \in {"good", "void"}
  /\ standing' = [standing EXCEPT ![t] = "expired"]
  /\ UNCHANGED <<config, stores, arriving>>

\* A request that express.json has to wait for.
Begin(q) ==
  /\ q.body # NoBody /\ q.method # "OPTIONS" /\ ~ CorsRefuses(q)
  /\ Cardinality(arriving) < MaxArriving
  /\ arriving' = arriving \cup {q}
  /\ UNCHANGED <<config, standing, stores>>

\* The client gives up: there is nobody left to answer, and nothing happens.
Abort(q) ==
  /\ q \in arriving
  /\ arriving' = arriving \ {q}
  /\ UNCHANGED <<config, standing, stores>>

\* The answer is given now.
Answered(q) ==
  /\ q \in arriving \/ q.body = NoBody \/ q.method = "OPTIONS" \/ CorsRefuses(q)
  /\ arriving' = arriving \ {q}
  /\ UNCHANGED config

Deeds == {"create", "replace", "patch", "delete", "resetData", "resetAuth", "logout", "revoke"}

\* The state a handler writes to is among that of this module.
Writes(way) ==
  /\ way.handler.does \in Deeds
  /\ way.handler.on \in Resource \cup {"all", "sessions", "apiKeys"}

\* Mutant: a gate that refuses for want of a role or scope calls next() all the same.
DoingUngated(q, way, deed, status) ==
  /\ way.stop \in {Passed, 403} /\ way.handler.does = deed
  /\ Writes(way) /\ status \in HandlerAnswers(q, way)

\* The handler is called, does its deed and answers with the status.
Doing(q, way, deed, status) ==
  /\ way.stop = Passed /\ way.handler.does = deed
  /\ Writes(way) /\ status \in HandlerAnswers(q, way)

CreateRow(q, way) ==
  /\ Answered(q) /\ Doing(q, way, "create", 201)
  /\ stores[way.handler.on].next <= MaxId
  /\ stores' = [stores EXCEPT ![way.handler.on] = Insert(@, q.body)]
  /\ UNCHANGED standing

\* PUT and PATCH; an empty patch writes the row again.
OverwriteRow(q, way) ==
  /\ Answered(q) /\ (Doing(q, way, "replace", 200) \/ Doing(q, way, "patch", 200))
  /\ LET id == NumberOf(way.argument)
         content == IF q.body = NoBody THEN Rows(way.handler.on)[id] ELSE q.body
     IN  stores' = [stores EXCEPT ![way.handler.on] = UpdateRow(@, id, content)]
  /\ UNCHANGED standing

DeleteRow(q, way) ==
  /\ Answered(q) /\ Doing(q, way, "delete", 204)
  /\ stores' = [stores EXCEPT ![way.handler.on] = DropRow(@, NumberOf(way.argument))]
  /\ UNCHANGED standing

ResetData(q, way) ==
  /\ Answered(q) /\ Doing(q, way, "resetData", 200)
  /\ stores' = [r \in Resource |-> ResetRows(SeedRows[r])]
  /\ UNCHANGED standing

\* Sessions and keys are forgotten, what clients hold of them is void.
ResetAuth(q, way) ==
  /\ Answered(q) /\ Doing(q, way, "resetAuth", 200)
  /\ standing' = [c \in Credential |-> IF standing[c] = "good" THEN "void" ELSE standing[c]]
  /\ UNCHANGED stores

\* POST /auth/logout and /auth/api-key/revoke.
GiveUp(q, way) ==
  /\ Answered(q) /\ (Doing(q, way, "logout", 200) \/ Doing(q, way, "revoke", 200))
  /\ standing' = [standing EXCEPT ![q.proof] = "void"]
  /\ UNCHANGED stores

\* Any other answer leaves things as they are: a read, an error.
Tell(q, way) ==
  /\ Answered(q)
  /\ way.stop = Passed /\ Writes(way) => \E status \in HandlerAnswers(q, way) : status >= 400
  /\ UNCHANGED <<standing, stores>>

Next ==
  \/ \E c \in Credential, s \in {"good", "void", "expired"} : Issue(c, s)
  \/ \E t \in Token : Expire(t)
  \/ \E q \in Requests : Begin(q)
  \/ \E q \in Requests : Abort(q)
  \/ \E q \in Requests : CreateRow(q, WayOf(q))
  \/ \E q \in Requests : OverwriteRow(q, WayOf(q))
  \/ \E q \in Requests : DeleteRow(q, WayOf(q))
  \/ \E q \in Requests : ResetData(q, WayOf(q))
  \/ \E q \in Requests : ResetAuth(q, WayOf(q))
  \/ \E q \in Requests : GiveUp(q, WayOf(q))
  \/ \E q \in Requests : Tell(q, WayOf(q))

Spec == Init /\ [][Next]_vars

-----------------------------------------------------------------------------
(* Properties. *)

\* The stores number their rows upwards, and only requests with a body are waited for.
TypeOK ==
  /\ config \in Configs
  /\ standing \in [Credential -> Standings]
  /\ DOMAIN stores = Resource
  /\ \A r \in Resource : /\ DOMAIN stores[r] = {"rows", "next"}
                         /\ stores[r].next \in 1 .. MaxId + 1
                         /\ DOMAIN Rows(r) \subseteq 1 .. stores[r].next - 1
                         /\ \A id \in DOMAIN Rows(r) : Rows(r)[id] \in Content
  /\ arriving \subseteq {q \in Requests : q.body # NoBody}

\* A scope of that resource and at least that level.
Grants(scopes, r, rank) ==
  "admin" \in scopes \/
  \E s \in LeveledScopes : s.text \in scopes /\ s.resource = r /\ s.rank >= rank

\* Who may write or delete what.
Entitled ==
  {e \in Token \X Resource \X {"write", "execute"} :
     Grants(ScopesOf[e[1]], e[2], IF e[3] = "write" THEN 2 ELSE 3)}

SeedIds == [r \in Resource |-> DOMAIN SeedRows[r]]

Keeper == INSTANCE Gatekeeper
           WITH held <- {c \in Credential : standing[c] # "unissued"},
                good <- {c \in Credential : standing[c] = "good"},
                rows <- [r \in Resource |-> Rows(r)],
                Entitlement <- Entitled,
                Seed <- SeedIds

\* Whatever the order of logins, logouts, expiries, resets and slow bodies, a row is
\* written only for a token that is good then, with the level of that resource's
\* scope: a token that went bad while its request arrived changes nothing.
KeepsGate == Keeper!GateSpec

\* The entries of GET /routes that list a request.
Entries ==
  [t \in Targets |->
     {e \in routeRegistry : /\ Fits(e.path, t[2])
                            /\ e.method = IF t[1] = "HEAD" THEN "GET" ELSE t[1]}]

ListedFor(q) == Entries[<<q.method, q.path>>]

\* The two that list the authentication they take without refusing what is no longer good.
GivingUp(e) == e.path \in {<<"auth", "logout">>, <<"auth", "api-key", "revoke">>}

\* The proof is of the kind listed, and good.
Identified(auth, q) ==
  CASE auth.type \in {"jwt", "role", "scope"} -> GoodToken(q)
    [] auth.type = "apiKey" -> q.proof \in ApiKey /\ Good(q.proof)
    [] auth.type = "basic" -> q.proof = DemoAccount
    [] auth.type = "adminToken" -> q.proof \in {AdminToken, WrongAdminToken}

\* The one identified has the role or the scope listed.
Admitted(auth, q, argument) ==
  CASE auth.type = "role" ->
         RoleOf[q.proof] = IF auth.detail = ":role" THEN argument ELSE auth.detail
    [] auth.type = "scope" ->
         LET named == IF auth.detail = ":scope" THEN argument ELSE auth.detail
         IN  \/ named \in ScopesOf[q.proof]
             \/ \E s \in LeveledScopes : /\ s.text = named
                                        /\ Grants(ScopesOf[q.proof], s.resource, s.rank)
             \/ "admin" \in ScopesOf[q.proof]
    [] auth.type = "adminToken" -> q.proof = AdminToken
    [] OTHER -> TRUE

\* Requests the router and not a gate has the say on.
ReachesGates(q, e, argument) ==
  /\ ~ CorsRefuses(q) /\ ~ Unreadable(q)
  /\ argument # Undecodable
  /\ e.auth.detail = ":role" => parseRoleParam(argument)
  /\ e.auth.detail = ":scope" => parseScopeParam(argument)

\* GET /routes tells the truth, under the default prefix: a request is answered 401
\* if and only if it lacks the authentication listed for it, 403 if and only if it
\* lacks the role or scope, and where none is listed it gets to the handler, whoever asks.
AnswersFitRegistry ==
  config.prefix = DefaultPrefix =>
    \A q \in Requests : \A e \in ListedFor(q), way \in {WayOf(q)} :
      ReachesGates(q, e, way.argument) /\ ~ GivingUp(e) =>
        IF e.auth.type = "none"
        THEN \A p \in Proof : WayOf([q EXCEPT !.proof = p]).stop = Passed
        ELSE IF ~ Identified(e.auth, q) THEN Answers(q, way) = {401}
        ELSE IF ~ Admitted(e.auth, q, way.argument) THEN Answers(q, way) = {403}
        ELSE Answers(q, way) \cap {401, 403} = {}

\* A path that a pattern takes.
Sample(pattern) == [i \in DOMAIN pattern |-> IF pattern[i] \in Params THEN "1" ELSE pattern[i]]

MetaRoutes == {swaggerUi} \cup UNION {metaRouters[i] : i \in DOMAIN metaRouters}
ApiRoutes == UNION {apiRouters[i] : i \in DOMAIN apiRouters}

\* The routes that a request for them does not get to.
Unreached ==
  [p \in Prefixes |->
     {r \in MetaRoutes : \E m \in DOMAIN r.serves : RouteOf(p, m, Sample(r.pattern)) # r} \cup
     {r \in ApiRoutes : \E m \in DOMAIN r.serves :
                         RouteOf(p, m, MountPoint(p) \o Sample(r.pattern)) # r}]

\* Swagger UI takes what lies below its path, whatever else is there.
BehindDocs(prefix) == Under(<<"docs">>, MountPoint(prefix))

\* Wherever API_PREFIX puts the API, every route of every router is reached: none hides
\* another, unless the prefix is the name of a meta endpoint with a parameter, which
\* then takes the routes of one segment, or /api-key, which has a /protected of its own,
\* or starts with /docs: then the whole API is gone.
EveryRouteReached ==
  Unreached[config.prefix] =
    {r \in ApiRoutes :
       \/ BehindDocs(config.prefix)
       \/ /\ Len(r.pattern) = 1
          /\ MountPoint(config.prefix) \in
               {<<"delay">>, <<"payload">>, <<"content">>, <<"files">>}
       \/ r.pattern = <<"protected">> /\ MountPoint(config.prefix) = <<"api-key">>}

\* A client that follows a redirect demo is answered by the same endpoint's demo of 200
\* (statusCode.service.ts), also if API_PREFIX ends in a slash; if it is nothing but a
\* slash, the Location names another host, and below /docs there are no demos.
RedirectsResolve ==
  config.prefix # <<"">> /\ ~ BehindDocs(config.prefix) =>
    LET path == RedirectTarget(config.prefix)
        route == RouteOf(config.prefix, "GET", path)
    IN  /\ route \in statusCodeRouter
        /\ Accepts(EntryOf(route, "GET").handler.parser, ArgumentOf(config.prefix, route, path))
=============================================================================
