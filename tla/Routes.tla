--------------------------------- MODULE Routes ---------------------------------
(***************************************************************************)
(* The route tables (routes/*.routes.ts), the order app.ts mounts them in,  *)
(* and the inventory GET /routes serves (data/routeRegistry.catalog.ts).    *)
(*                                                                         *)
(* A path is a sequence of segments, a pattern may have one parameter.  A   *)
(* router is the set of its routes: no two of one router match one path.    *)
(***************************************************************************)
EXTENDS Demos, Controllers

(* Gates, the middlewares between a route and its handler. *)
Gate(name, needs) == [name |-> name, needs |-> needs]

authenticate == Gate("authenticate", "none")
requireScope(scope) == Gate("requireScope", scope)
requireRole(role) == Gate("requireRole", role)
adminAuth == Gate("adminAuth", "none")
apiKeyAuth == Gate("apiKeyAuth", "none")
basicAuth == Gate("basicAuth", "none")
validateRoleParam == Gate("validateRoleParam", "none")
validateScopeParam == Gate("validateScopeParam", "none")
requireMatchingRole == Gate("requireMatchingRole", "none")
requireMatchingScope == Gate("requireMatchingScope", "none")

\* A route of Router({ strict: true }) that ends in methodNotAllowedHandler.
Route(pattern, serves) ==
  [pattern |-> pattern, serves |-> serves, strict |-> TRUE, closed |-> TRUE]

\* One of Router(): a slash may follow the path.
LenientRoute(pattern, serves) == [Route(pattern, serves) EXCEPT !.strict = FALSE]

\* One without methodNotAllowedHandler: another method passes it by.
UnclosedRoute(pattern, serves) == [LenientRoute(pattern, serves) EXCEPT !.closed = FALSE]

Through(gates, handler) == [gates |-> gates, handler |-> handler]

Open(handler) == Through(<<>>, handler)

\* Mutant: requireScope is put in front of a handler without authenticate.
ScopedAlone(scope, handler) == Through(<<requireScope(scope)>>, handler)

Scoped(scope, handler) == Through(<<authenticate, requireScope(scope)>>, handler)

-----------------------------------------------------------------------------
(* The core resources. *)

userRouter ==
  {Route(<<"users">>, [GET |-> Scoped("users:read", UserController.list),
                       POST |-> Scoped("users:write", UserController.create)]),
   Route(<<"users", ":id">>, [GET |-> Scoped("users:read", UserController.get),
                              PUT |-> Scoped("users:write", UserController.replace),
                              PATCH |-> Scoped("users:write", UserController.patch),
                              DELETE |-> Scoped("users:execute", UserController.delete)])}

productRouter ==
  {Route(<<"products">>, [GET |-> Scoped("products:read", ProductController.list),
                          POST |-> Scoped("products:write", ProductController.create)]),
   Route(<<"products", ":id">>,
         [GET |-> Scoped("products:read", ProductController.get),
          PUT |-> Scoped("products:write", ProductController.replace),
          PATCH |-> Scoped("products:write", ProductController.patch),
          DELETE |-> Scoped("products:execute", ProductController.delete)])}

customerRouter ==
  {Route(<<"customers">>, [GET |-> Scoped("customers:read", CustomerController.list),
                           POST |-> Scoped("customers:write", CustomerController.create)]),
   Route(<<"customers", ":id">>,
         [GET |-> Scoped("customers:read", CustomerController.get),
          PUT |-> Scoped("customers:write", CustomerController.replace),
          PATCH |-> Scoped("customers:write", CustomerController.patch),
          DELETE |-> Scoped("customers:execute", CustomerController.delete)])}

orderRouter ==
  {Route(<<"orders">>, [GET |-> Scoped("orders:read", OrderController.list),
                        POST |-> Scoped("orders:write", OrderController.create)]),
   Route(<<"orders", ":id">>,
         [GET |-> Scoped("orders:read", OrderController.get),
          PUT |-> Scoped("orders:write", OrderController.replace),
          PATCH |-> Scoped("orders:write", OrderController.patch),
          DELETE |-> Scoped("orders:execute", OrderController.delete)]),
   Route(<<"users", ":id", "orders">>, [GET |-> Scoped("orders:read", OrderController.forUser)]),
   Route(<<"orders", ":id", "products">>,
         [GET |-> Scoped("orders:read", OrderController.products)])}

-----------------------------------------------------------------------------
(* Resources without a gate. *)

categoryRouter ==
  {Route(<<"categories">>, [GET |-> Open(CategoryController.list)]),
   Route(<<"categories", ":slug">>, [GET |-> Open(CategoryController.get)]),
   Route(<<"products", ":id", "category">>, [GET |-> Open(CategoryController.forProduct)])}

postRouter ==
  {Route(<<"posts">>, [GET |-> Open(PostController.list)]),
   Route(<<"posts", ":id">>, [GET |-> Open(PostController.get)]),
   Route(<<"users", ":id", "posts">>, [GET |-> Open(PostController.forUser),
                                       POST |-> Open(PostController.createForUser)])}

commentRouter ==
  {Route(<<"comments">>, [GET |-> Open(CommentController.list)]),
   Route(<<"comments", ":id">>, [GET |-> Open(CommentController.get)]),
   Route(<<"posts", ":id", "comments">>, [GET |-> Open(CommentController.forPost),
                                          POST |-> Open(CommentController.createForPost)])}

reviewRouter ==
  {Route(<<"reviews">>, [GET |-> Open(ReviewController.list)]),
   Route(<<"reviews", ":id">>, [GET |-> Open(ReviewController.get)]),
   Route(<<"reviews", "by-rating", ":rating">>, [GET |-> Open(ReviewController.byRating)]),
   Route(<<"products", ":id", "reviews">>, [GET |-> Open(ReviewController.forProduct)])}

paymentRouter ==
  {Route(<<"payments">>, [GET |-> Open(PaymentController.list),
                          POST |-> Open(PaymentController.post)]),
   Route(<<"payments", ":id">>, [GET |-> Open(PaymentController.get)]),
   Route(<<"payments", "by-date", ":date">>, [GET |-> Open(PaymentController.byDate)])}

filesRouter ==
  {Route(<<"files">>, [POST |-> Open(FileController.post), GET |-> Open(FileController.list)]),
   Route(<<"files", ":id">>, [GET |-> Open(FileController.get),
                              DELETE |-> Open(FileController.delete)])}

searchRouter == {Route(<<"search">>, [GET |-> Open(SearchController.search)])}

-----------------------------------------------------------------------------
(* Authentication and administration. *)

authRouter ==
  {Route(<<"auth", "login">>, [POST |-> Open(AuthController.login)]),
   Route(<<"auth", "logout">>, [POST |-> Open(AuthController.logout)]),
   Route(<<"auth", "refresh">>, [POST |-> Open(AuthController.refresh)]),
   Route(<<"auth", "me">>, [GET |-> Through(<<authenticate>>, AuthController.me)]),
   Route(<<"auth", "token">>, [POST |-> Open(AuthController.token)]),
   Route(<<"auth", "token-info">>, [GET |-> Open(AuthController.tokenInfo)])}

apiKeyRouter ==
  {Route(<<"auth", "api-key">>, [POST |-> Open(ApiKeyController.issue)]),
   Route(<<"api-key", "protected">>,
         [GET |-> Through(<<apiKeyAuth>>, ApiKeyController.protected)]),
   Route(<<"auth", "api-key", "revoke">>, [POST |-> Open(ApiKeyController.revoke)])}

basicAuthRouter ==
  {Route(<<"auth-test", "basic">>, [GET |-> Through(<<basicAuth>>, BasicAuthController.demo)])}

protectedRouter ==
  {Route(<<"protected">>,
         [GET |-> Through(<<authenticate, requireRole("admin")>>, ProtectedController.get)])}

roleRouter ==
  {Route(<<"role", ":role">>,
         [GET |-> Through(<<validateRoleParam, authenticate, requireMatchingRole>>,
                          RoleController.demo)])}

scopeRouter ==
  {Route(<<"scope", ":scope">>,
         [GET |-> Through(<<validateScopeParam, authenticate, requireMatchingScope>>,
                          ScopeController.demo)])}

adminRouter ==
  {Route(<<"admin", "reset">>, [POST |-> Through(<<adminAuth>>, AdminController.reset)]),
   Route(<<"admin", "auth", "reset">>,
         [POST |-> Through(<<adminAuth>>, AdminController.authReset)])}

-----------------------------------------------------------------------------
(* Demos and the service itself. *)

healthRouter ==
  {LenientRoute(<<"health">>, [GET |-> Open(HealthController.health)]),
   LenientRoute(<<"health", "live">>, [GET |-> Open(HealthController.live)]),
   LenientRoute(<<"health", "ready">>, [GET |-> Open(HealthController.ready)])}

versionRouter == {LenientRoute(<<"version">>, [GET |-> Open(VersionController.get)])}

infoRouter == {LenientRoute(<<"info">>, [GET |-> Open(InfoController.get)])}

routesRouter == {LenientRoute(<<"routes">>, [GET |-> Open(RoutesController.get)])}

delayRouter ==
  {Route(<<"delay", ":ms">>, [GET |-> Open(DelayController.byPath)]),
   Route(<<"delay">>, [GET |-> Open(DelayController.byQuery)])}

payloadRouter ==
  {Route(<<"payload", ":preset">>, [GET |-> Open(PayloadController.byPreset)]),
   Route(<<"payload">>, [GET |-> Open(PayloadController.bySize),
                         POST |-> Open(PayloadController.post)])}

contentRouter ==
  {Route(<<"content", ":type">>, [GET |-> Open(ContentController.get),
                                  POST |-> Open(ContentController.post)])}

headersRouter == {Route(<<"headers">>, [GET |-> Open(HeadersController.get)])}

cookiesRouter ==
  {Route(<<"cookies">>, [GET |-> Open(CookiesController.get),
                         POST |-> Open(CookiesController.post),
                         DELETE |-> Open(CookiesController.delete)])}

rateLimitRouter == {Route(<<"rate-limit">>, [GET |-> Open(RateLimitController.get)])}

flakyRouter == {Route(<<"flaky">>, [GET |-> Open(FlakyController.get)])}

cacheRouter ==
  {Route(<<"cache", "resource">>, [GET |-> Open(CacheController.get),
                                   PUT |-> Open(CacheController.put)])}

errorsRouter ==
  {Route(<<"errors", seg>>,
         [GET |-> Open(ErrorsController(SCENARIO_FIXED_STATUS(ERROR_ENDPOINT_SCENARIOS(seg))))])
     : seg \in ErrorEndpoints}

statusCodeRouter ==
  {Route(<<"status", ":code">>,
         [GET |-> Open(StatusCodeController(DOCUMENTED_STATUS_CODES).get)])}

testScenarioRouter ==
  {Route(<<"test">>, [GET |-> Open(TestScenarioController(TestAnswers \cup {400}).get)])}

\* openapiRouter is these two and, asked last, swaggerUi.
openapiRouter ==
  {UnclosedRoute(<<"openapi.yaml">>, [GET |-> Open(OpenapiDocument)]),
   UnclosedRoute(<<"openapi.json">>, [GET |-> Open(OpenapiDocument)])}

\* A use, not a get: of every method, at its path and everywhere below it.
swaggerUi ==
  UnclosedRoute(<<"docs">>, [m \in {"GET", "POST", "PUT", "PATCH", "DELETE", "OPTIONS"} |->
                               Open(SwaggerUi)])

-----------------------------------------------------------------------------
(* app.ts: the order the routers are mounted in. *)

metaRouters ==
  <<healthRouter, versionRouter, authRouter, apiKeyRouter, basicAuthRouter, delayRouter,
    payloadRouter, contentRouter, headersRouter, cookiesRouter, rateLimitRouter, flakyRouter,
    cacheRouter, filesRouter, errorsRouter, adminRouter, openapiRouter>>

\* Under config.apiPrefix.
apiRouters ==
  <<infoRouter, routesRouter, userRouter, productRouter, customerRouter, orderRouter,
    categoryRouter, postRouter, commentRouter, reviewRouter, paymentRouter, searchRouter,
    statusCodeRouter, testScenarioRouter, protectedRouter, roleRouter, scopeRouter>>

-----------------------------------------------------------------------------
(* Finding the route of a path. *)

\* Mutant: a route also matches what lies below its path (use for get).
MatchesBelow(route, path) ==
  /\ Len(route.pattern) <= Len(path)
  /\ \A i \in 1 .. Len(route.pattern) : route.pattern[i] \in {path[i]} \cup Params

\* A parameter stands for one segment that is not empty.
Fits(pattern, path) ==
  /\ Len(pattern) = Len(path)
  /\ \A i \in 1 .. Len(pattern) :
       \/ pattern[i] = path[i]
       \/ pattern[i] \in Params /\ path[i] # ""

Matches(route, path) ==
  \/ Fits(route.pattern, path)
  \/ ~ route.strict /\ Fits(route.pattern \o <<"">>, path)

\* HEAD is served by the handler of GET.
Serves(route, method) == (IF method = "HEAD" THEN "GET" ELSE method) \in DOMAIN route.serves

EntryOf(route, method) == route.serves[IF method = "HEAD" THEN "GET" ELSE method]

NoRoute == [pattern |-> <<>>, serves |-> [none |-> Open(OpenapiDocument)],
            strict |-> TRUE, closed |-> FALSE]

\* The routes of a router that take the request.
Taking(router, method, path) ==
  {r \in router : Matches(r, path) /\ (r.closed \/ Serves(r, method))}

\* The first router, in the order they are mounted, with a route for the request.
FirstRoute(routers, method, path) ==
  LET taking(i) == Taking(routers[i], method, path)
      found == UNION {taking(i) : i \in {i \in DOMAIN routers :
                                            \A j \in 1 .. i - 1 : taking(j) = {}}}
  IN  IF found = {} THEN NoRoute ELSE CHOOSE r \in found : TRUE

\* app.use drops a slash at the end of the path it mounts at.
MountPoint(prefix) ==
  IF prefix # <<>> /\ prefix[Len(prefix)] = "" THEN SubSeq(prefix, 1, Len(prefix) - 1) ELSE prefix

Under(mount, path) ==
  Len(mount) <= Len(path) /\ SubSeq(path, 1, Len(mount)) = mount

\* What is left of the path; app.use lets a second slash follow the mount point.
Below(mount, path) ==
  LET rest == SubSeq(path, Len(mount) + 1, Len(path))
  IN  IF mount # <<>> /\ Len(rest) > 1 /\ rest[1] = "" THEN Tail(rest) ELSE rest

\* The route that takes a request, the meta endpoints first, Swagger UI the last of them.
RouteOf(prefix, method, path) ==
  LET mount == MountPoint(prefix)
      meta == FirstRoute(metaRouters, method, path)
  IN  IF meta # NoRoute THEN meta
      ELSE IF Under(<<"docs">>, path) THEN swaggerUi
      ELSE IF Under(mount, path) THEN FirstRoute(apiRouters, method, Below(mount, path))
      ELSE NoRoute

\* The segment the parameter of a route stands for.
ArgumentOf(prefix, route, path) ==
  LET rest == IF \E i \in DOMAIN metaRouters : route \in metaRouters[i]
              THEN path ELSE Below(MountPoint(prefix), path)
      places == {i \in DOMAIN route.pattern : route.pattern[i] \in Params}
  IN  IF places = {} THEN "" ELSE rest[CHOOSE i \in places : TRUE]

\* Mutant: the default prefix, whatever is configured.
DefaultTarget(prefix) == <<"api", "v1", "status", "200">>

\* renderStatusCodeDemo: the Location of a redirect, the prefix as it is written.
RedirectTarget(prefix) == prefix \o <<"status", "200">>
=============================================================================
