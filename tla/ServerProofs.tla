----------------------------- MODULE ServerProofs -----------------------------
(***************************************************************************)
(* Theorems about Server, for every set of tokens and keys, every claim,    *)
(* every configuration and every set of requests: rows change only for a    *)
(* token that is good in that very step and entitled to the change; every   *)
(* route is reached, but for the few that some prefixes hide; a redirect    *)
(* leads where it should; and GET /routes tells the truth.                  *)
(*                                                                         *)
(* The argument: a request reaches a handler only through the gates of one  *)
(* of the routes; in every route table a handler that changes a row of a    *)
(* core resource stands behind authenticate and requireScope with the scope *)
(* of that resource and that deed; and those two let only a good, entitled  *)
(* token pass.  The middle part is a fact about all the tables: Safe.       *)
(*                                                                         *)
(* For the routes: every path has one router that may take it, its Owner,   *)
(* which can be told from the first and the last of its segments.  That     *)
(* each router Owns its paths is proved table by table; then the order they *)
(* are mounted in does not matter, and no meta endpoint takes a path of the *)
(* API, but for those MetaUnderPrefix finds, nor Swagger UI, but for those   *)
(* PlacedDocs finds.  That what an entry of the registry says is Backed by   *)
(* the gates of its route is proved entry by entry.                         *)
(***************************************************************************)
EXTENDS Server, StoresProofs, SequenceTheorems

Changes == {"create", "replace", "patch"}

WriteScope ==
  [users |-> "users:write", products |-> "products:write",
   customers |-> "customers:write", orders |-> "orders:write"]

ExecuteScope ==
  [users |-> "users:execute", products |-> "products:execute",
   customers |-> "customers:execute", orders |-> "orders:execute"]

\* A handler that changes rows changes those of one resource, behind its scope.
Gated(e) ==
  /\ e.handler.does \in Changes \cup {"delete"} =>
       e.handler.on \notin {"all", "sessions", "apiKeys"}
  /\ e.handler.on \in Resource /\ e.handler.does \in Changes =>
       e.gates = <<authenticate, requireScope(WriteScope[e.handler.on])>>
  /\ e.handler.on \in Resource /\ e.handler.does = "delete" =>
       e.gates = <<authenticate, requireScope(ExecuteScope[e.handler.on])>>

Safe(router) == \A r \in router : \A m \in DOMAIN r.serves : Gated(r.serves[m])

-----------------------------------------------------------------------------
(* The route tables. *)

\* The four routers of the core resources.
LEMMA CoreTables ==
  /\ Safe(userRouter) /\ Safe(productRouter) /\ Safe(customerRouter) /\ Safe(orderRouter)
<1> USE DEF Safe, Gated, Changes, Resource, WriteScope, ExecuteScope, Route, Scoped, Through,
            Handler, List, Nested, Get, Create, Replace, Patch, Delete
<1>1. Safe(userRouter)
  BY DEF userRouter, UserController
<1>2. Safe(productRouter)
  BY DEF productRouter, ProductController
<1>3. Safe(customerRouter)
  BY DEF customerRouter, CustomerController
<1>4. Safe(orderRouter)
  BY DEF orderRouter, OrderController
<1> QED BY <1>1, <1>2, <1>3, <1>4

\* The resources without gates: what they change is no core resource.
LEMMA OpenTables ==
  /\ Safe(categoryRouter) /\ Safe(postRouter) /\ Safe(commentRouter)
  /\ Safe(reviewRouter) /\ Safe(paymentRouter) /\ Safe(filesRouter) /\ Safe(searchRouter)
<1> USE DEF Safe, Gated, Changes, Resource, Route, Open, Through,
            Handler, List, Nested, Get, Create, Delete
<1>1. Safe(categoryRouter)
  BY DEF categoryRouter, CategoryController
<1>2. Safe(postRouter)
  BY DEF postRouter, PostController
<1>3. Safe(commentRouter)
  BY DEF commentRouter, CommentController
<1>4. Safe(reviewRouter)
  BY DEF reviewRouter, ReviewController
<1>5. Safe(paymentRouter)
  BY DEF paymentRouter, PaymentController
<1>6. Safe(filesRouter)
  BY DEF filesRouter, FileController
<1>7. Safe(searchRouter)
  BY DEF searchRouter, SearchController
<1> QED BY <1>1, <1>2, <1>3, <1>4, <1>5, <1>6, <1>7

\* Authentication and administration: no rows of one resource.
LEMMA AuthTables ==
  /\ Safe(authRouter) /\ Safe(apiKeyRouter) /\ Safe(basicAuthRouter)
  /\ Safe(protectedRouter) /\ Safe(roleRouter) /\ Safe(scopeRouter) /\ Safe(adminRouter)
<1> USE DEF Safe, Gated, Changes, Resource, Route, Open, Through, Handler, Demo
<1>1. Safe(authRouter)
  BY DEF authRouter, AuthController
<1>2. Safe(apiKeyRouter)
  BY DEF apiKeyRouter, ApiKeyController
<1>3. Safe(basicAuthRouter) /\ Safe(protectedRouter)
  BY DEF basicAuthRouter, BasicAuthController, protectedRouter, ProtectedController
<1>4. Safe(roleRouter) /\ Safe(scopeRouter)
  BY DEF roleRouter, RoleController, scopeRouter, ScopeController
<1>5. Safe(adminRouter)
  BY DEF adminRouter, AdminController
<1> QED BY <1>1, <1>2, <1>3, <1>4, <1>5

\* The demos change no rows at all.
LEMMA DemoTables ==
  /\ Safe(healthRouter) /\ Safe(versionRouter) /\ Safe(infoRouter) /\ Safe(routesRouter)
  /\ Safe(delayRouter) /\ Safe(payloadRouter) /\ Safe(contentRouter) /\ Safe(headersRouter)
  /\ Safe(cookiesRouter) /\ Safe(rateLimitRouter) /\ Safe(flakyRouter) /\ Safe(cacheRouter)
  /\ Safe(errorsRouter) /\ Safe(statusCodeRouter) /\ Safe(testScenarioRouter)
  /\ Safe(openapiRouter)
<1> USE DEF Safe, Gated, Changes, Resource, Route, LenientRoute, Open, Through, Handler, Demo
<1>1. Safe(healthRouter) /\ Safe(versionRouter) /\ Safe(infoRouter) /\ Safe(routesRouter)
  BY DEF healthRouter, HealthController, versionRouter, VersionController,
         infoRouter, InfoController, routesRouter, RoutesController
<1>2. Safe(delayRouter) /\ Safe(payloadRouter)
  BY DEF delayRouter, DelayController, payloadRouter, PayloadController
<1>3. Safe(contentRouter) /\ Safe(headersRouter) /\ Safe(cookiesRouter)
  BY DEF contentRouter, ContentController, headersRouter, HeadersController,
         cookiesRouter, CookiesController
<1>4. Safe(rateLimitRouter) /\ Safe(flakyRouter) /\ Safe(cacheRouter)
  BY DEF rateLimitRouter, RateLimitController, flakyRouter, FlakyController,
         cacheRouter, CacheController
<1>5. Safe(errorsRouter)
  BY DEF errorsRouter, ErrorsController
<1>6. Safe(statusCodeRouter) /\ Safe(testScenarioRouter)
  BY DEF statusCodeRouter, StatusCodeController, testScenarioRouter, TestScenarioController
<1>7. Safe(openapiRouter)
  <2>1. \A pattern, serves : UnclosedRoute(pattern, serves).serves = serves
    BY DEF UnclosedRoute
  <2>2. \A r \in openapiRouter : r.serves = [GET |-> Open(OpenapiDocument)]
    BY <2>1 DEF openapiRouter
  <2>3. Gated(Open(OpenapiDocument))
    BY DEF OpenapiDocument
  <2> QED BY <2>2, <2>3
<1> QED BY <1>1, <1>2, <1>3, <1>4, <1>5, <1>6, <1>7

\* Swagger UI neither.
LEMMA DocsTable == Safe({swaggerUi})
<1>1. \A m \in DOMAIN swaggerUi.serves : swaggerUi.serves[m] = Open(SwaggerUi)
  BY DEF swaggerUi, UnclosedRoute, LenientRoute, Route
<1>2. Gated(Open(SwaggerUi))
  BY DEF Gated, Changes, Resource, Open, Through, SwaggerUi, Demo, Handler
<1> QED BY <1>1, <1>2 DEF Safe

\* Every router that app.ts mounts is safe.
LEMMA AllTables ==
  /\ \A i \in DOMAIN metaRouters : Safe(metaRouters[i])
  /\ \A i \in DOMAIN apiRouters : Safe(apiRouters[i])
BY CoreTables, OpenTables, AuthTables, DemoTables DEF metaRouters, apiRouters

-----------------------------------------------------------------------------
(* From the request to the handler. *)

\* The route found is a route of one of the routers.
LEMMA FirstRouteFacts ==
  ASSUME NEW routers, NEW m, NEW path, FirstRoute(routers, m, path) # NoRoute
  PROVE  \E i \in DOMAIN routers : FirstRoute(routers, m, path) \in routers[i]
BY DEF FirstRoute, Taking

\* Whatever the path and the prefix, the entry found is a gated one.
LEMMA RouteFacts ==
  ASSUME NEW prefix, NEW m, NEW path,
         RouteOf(prefix, m, path) # NoRoute, Serves(RouteOf(prefix, m, path), m)
  PROVE  Gated(EntryOf(RouteOf(prefix, m, path), m))
<1> DEFINE route == RouteOf(prefix, m, path)
<1>1. \/ \E i \in DOMAIN metaRouters : route \in metaRouters[i]
      \/ \E i \in DOMAIN apiRouters : route \in apiRouters[i]
      \/ route \in {swaggerUi}
  BY FirstRouteFacts DEF RouteOf
<1>2. \A serving \in DOMAIN route.serves : Gated(route.serves[serving])
  BY <1>1, AllTables, DocsTable DEF Safe
<1> QED BY <1>2 DEF Serves, EntryOf

\* A request that gets to a handler has passed the gates before it.
LEMMA WayFacts ==
  ASSUME config \in Configs, NEW q \in Requests, WayOf(q).stop = Passed
  PROVE  \E e : /\ Gated(e) /\ WayOf(q).handler = e.handler
                /\ GatesAnswer(e.gates, q, WayOf(q).argument) = Passed
<1> DEFINE route == RouteOf(config.prefix, q.method, q.path)
           argument == ArgumentOf(config.prefix, route, q.path)
           found == Resolved[config.prefix][<<q.method, q.path>>]
<1>1. found.route = route /\ found.argument = argument
  <2>1. config.prefix \in Prefixes
    BY DEF Prefixes
  <2>2. <<q.method, q.path>> \in Targets
    BY DEF Targets
  <2>3. found = [route |-> route, argument |-> argument]
    BY <2>1, <2>2 DEF Resolved
  <2> HIDE DEF found, route, argument
  <2> QED BY <2>3
<1> HIDE DEF route, argument
<1>2. /\ WayOf(q).argument = argument
      /\ WayOf(q).stop = StopOf(q, route, argument)
      /\ Serves(route, q.method) => WayOf(q).handler = EntryOf(route, q.method).handler
  BY <1>1 DEF WayOf
<1>3. /\ route # NoRoute /\ Serves(route, q.method)
      /\ GatesAnswer(EntryOf(route, q.method).gates, q, argument) = Passed
  <2>1. StopOf(q, route, argument) = 0
    BY <1>2 DEF Passed
  <2>2. /\ errorHandler(HttpError(403)) = 403
        /\ errorHandler(OtherError("URIError")) = 500
        /\ BodyError(q) \in {400, 413}
    BY DEF errorHandler, HttpError, OtherError, BodyError
  <2> QED BY <2>1, <2>2 DEF StopOf, Passed
<1>4. Gated(EntryOf(route, q.method))
  BY <1>3, RouteFacts DEF route
<1> QED BY <1>2, <1>3, <1>4

\* authenticate and requireScope let only a good token with that scope pass.
LEMMA ScopeGate ==
  ASSUME NEW q, NEW arg, NEW scope,
         GatesAnswer(<<authenticate, requireScope(scope)>>, q, arg) = Passed
  PROVE  GoodToken(q) /\ HasScope(ScopesOf[q.proof], scope)
<1> DEFINE gates == <<authenticate, requireScope(scope)>>
           refusal(i) == Refusal(gates[i], q, arg, Authenticated(gates, i, q))
           refusing == {i \in DOMAIN gates : refusal(i) # Passed}
           first == CHOOSE i \in refusing : \A j \in refusing : i <= j
<1>1. refusing \subseteq {1, 2}
  OBVIOUS
<1>2. refusing # {} => first \in refusing
  <2> HIDE DEF refusing
  <2> SUFFICES ASSUME refusing # {} PROVE \E i \in refusing : \A j \in refusing : i <= j
    OBVIOUS
  <2>1. CASE 1 \in refusing
    BY <1>1, <2>1
  <2>2. CASE 1 \notin refusing
    <3>1. refusing = {2}
      BY <1>1, <2>2
    <3> QED BY <3>1
  <2> QED BY <2>1, <2>2
<1>3. refusing = {}
  BY <1>2 DEF GatesAnswer
<1>4. Refusal(requireScope(scope), q, arg, Authenticated(gates, 2, q)) = Passed
  BY <1>3
<1> HIDE DEF gates
<1>5. ScopeRefusal(q, scope, Authenticated(gates, 2, q)) = Passed
  BY <1>4 DEF Refusal, requireScope, Gate
<1>6. Unauthenticated # Passed /\ 403 # Passed
  BY DEF Unauthenticated, errorHandler, OtherError, Passed
<1>7. Authenticated(gates, 2, q) /\ HasScope(ScopesOf[q.proof], scope)
  BY <1>5, <1>6 DEF ScopeRefusal
<1> QED BY <1>7 DEF Authenticated

\* Having the scope of a deed is having its level on that very resource.
LEMMA ScopeFacts ==
  ASSUME NEW scopes, NEW r \in Resource
  PROVE  /\ HasScope(scopes, WriteScope[r]) => Grants(scopes, r, 2)
         /\ HasScope(scopes, ExecuteScope[r]) => Grants(scopes, r, 3)
<1>1. \E s \in LeveledScopes : s.text = WriteScope[r] /\ s.resource = r /\ s.rank = 2
  BY DEF LeveledScopes, Leveled, WriteScope, Resource
<1>2. \E s \in LeveledScopes : s.text = ExecuteScope[r] /\ s.resource = r /\ s.rank = 3
  BY DEF LeveledScopes, Leveled, ExecuteScope, Resource
<1>3. \A s, t \in LeveledScopes : s.text = t.text => s = t
  BY DEF LeveledScopes, Leveled
<1>4. \A s \in LeveledScopes : s.rank \in Int
  BY DEF LeveledScopes, Leveled
<1>5. HasScope(scopes, WriteScope[r]) => Grants(scopes, r, 2)
  BY <1>1, <1>3, <1>4 DEF HasScope, Grants
<1>6. HasScope(scopes, ExecuteScope[r]) => Grants(scopes, r, 3)
  BY <1>2, <1>3, <1>4 DEF HasScope, Grants
<1> QED BY <1>5, <1>6

\* A handler that changes rows is called only for a good token with the right level.
LEMMA Gatekept ==
  ASSUME config \in Configs, NEW q \in Requests, WayOf(q).stop = Passed, Writes(WayOf(q))
  PROVE  LET handler == WayOf(q).handler
         IN  /\ handler.does \in Changes =>
                  /\ handler.on \in Resource /\ GoodToken(q)
                  /\ Grants(ScopesOf[q.proof], handler.on, 2)
             /\ handler.does = "delete" =>
                  /\ handler.on \in Resource /\ GoodToken(q)
                  /\ Grants(ScopesOf[q.proof], handler.on, 3)
<1> DEFINE handler == WayOf(q).handler
<1>1. PICK e : /\ Gated(e) /\ handler = e.handler
               /\ GatesAnswer(e.gates, q, WayOf(q).argument) = Passed
  BY WayFacts
<1>2. handler.on \in Resource \cup {"all", "sessions", "apiKeys"}
  BY DEF Writes
<1> HIDE DEF handler
<1>3. CASE handler.does \in Changes
  <2>1. handler.on \in Resource
    BY <1>1, <1>2, <1>3 DEF Gated
  <2>2. e.gates = <<authenticate, requireScope(WriteScope[handler.on])>>
    BY <1>1, <1>3, <2>1 DEF Gated
  <2>3. GoodToken(q) /\ HasScope(ScopesOf[q.proof], WriteScope[handler.on])
    BY <1>1, <2>2, ScopeGate
  <2> QED BY <1>3, <2>1, <2>3, ScopeFacts DEF handler, Changes
<1>4. CASE handler.does = "delete"
  <2>1. handler.on \in Resource
    BY <1>1, <1>2, <1>4 DEF Gated
  <2>2. e.gates = <<authenticate, requireScope(ExecuteScope[handler.on])>>
    BY <1>1, <1>4, <2>1 DEF Gated
  <2>3. GoodToken(q) /\ HasScope(ScopesOf[q.proof], ExecuteScope[handler.on])
    BY <1>1, <2>2, ScopeGate
  <2> QED BY <1>4, <2>1, <2>3, ScopeFacts DEF handler, Changes
<1> QED BY <1>3, <1>4 DEF handler

-----------------------------------------------------------------------------
(* What the three handlers that change one row do. *)

\* A row is created of a body that is content, in the store of its resource.
LEMMA CreateFacts ==
  ASSUME config \in Configs, NEW q \in Requests, CreateRow(q, WayOf(q))
  PROVE  \E r \in Resource :
           /\ GoodToken(q) /\ Grants(ScopesOf[q.proof], r, 2)
           /\ q.body \in Content
           /\ stores[r].next <= MaxId
           /\ stores' = [stores EXCEPT ![r] = Insert(stores[r], q.body)]
           /\ UNCHANGED standing
<1> DEFINE way == WayOf(q)
           r == way.handler.on
<1>1. Doing(q, way, "create", 201)
  BY DEF CreateRow
<1>2. r \in Resource /\ GoodToken(q) /\ Grants(ScopesOf[q.proof], r, 2)
  BY <1>1, Gatekept DEF Doing, Changes
<1>3. q.body \in Content
  <2> HIDE DEF way
  <2>1. 201 \in CoreAnswers(q, way) /\ way.handler.does = "create"
    BY <1>1, <1>2 DEF Doing, HandlerAnswers
  <2> QED BY <2>1 DEF CoreAnswers, Valid
<1>4. /\ stores[r].next <= MaxId
      /\ stores' = [stores EXCEPT ![r] = Insert(stores[r], q.body)]
      /\ UNCHANGED standing
  BY DEF CreateRow
<1> QED BY <1>2, <1>3, <1>4

\* A row that is there is overwritten, by a body that is content or by itself.
LEMMA OverwriteFacts ==
  ASSUME config \in Configs, NEW q \in Requests, OverwriteRow(q, WayOf(q))
  PROVE  \E r \in Resource : \E id \in DOMAIN stores[r].rows :
           \E content \in Content \cup {stores[r].rows[id]} :
             /\ GoodToken(q) /\ Grants(ScopesOf[q.proof], r, 2)
             /\ stores' = [stores EXCEPT ![r] = UpdateRow(stores[r], id, content)]
             /\ UNCHANGED standing
<1> DEFINE way == WayOf(q)
           r == way.handler.on
           id == NumberOf(way.argument)
           content == IF q.body = NoBody THEN stores[r].rows[id] ELSE q.body
<1>1. Doing(q, way, "replace", 200) \/ Doing(q, way, "patch", 200)
  BY DEF OverwriteRow
<1>2. r \in Resource /\ GoodToken(q) /\ Grants(ScopesOf[q.proof], r, 2)
  BY <1>1, Gatekept DEF Doing, Changes
<1>3. /\ stores' = [stores EXCEPT ![r] = UpdateRow(stores[r], id, content)]
      /\ UNCHANGED standing
  BY DEF OverwriteRow, Rows
<1>4. Valid(q, way) /\ Present(way)
  <2> HIDE DEF way
  <2>1. 200 \in CoreAnswers(q, way) /\ way.handler.does \in {"replace", "patch"}
    BY <1>1, <1>2 DEF Doing, HandlerAnswers
  <2> QED BY <2>1 DEF CoreAnswers
<1>5. id \in DOMAIN stores[r].rows /\ content \in Content \cup {stores[r].rows[id]}
  BY <1>4 DEF Valid, Present, Rows
<1> HIDE DEF r, id, content
<1> QED BY <1>2, <1>3, <1>5

\* A row goes that was there.
LEMMA DeleteFacts ==
  ASSUME config \in Configs, NEW q \in Requests, DeleteRow(q, WayOf(q))
  PROVE  \E r \in Resource :
           /\ GoodToken(q) /\ Grants(ScopesOf[q.proof], r, 3)
           /\ stores' = [stores EXCEPT ![r] = DropRow(@, NumberOf(WayOf(q).argument))]
           /\ UNCHANGED standing
<1> DEFINE way == WayOf(q)
           r == way.handler.on
<1>1. Doing(q, way, "delete", 204)
  BY DEF DeleteRow
<1>2. r \in Resource /\ GoodToken(q) /\ Grants(ScopesOf[q.proof], r, 3)
  BY <1>1, Gatekept DEF Doing
<1>3. /\ stores' = [stores EXCEPT ![r] = DropRow(@, NumberOf(way.argument))]
      /\ UNCHANGED standing
  BY DEF DeleteRow
<1> QED BY <1>2, <1>3

-----------------------------------------------------------------------------
(* Types. *)

\* The stores as they are seeded, at the start and by every data reset.
LEMMA SeedFacts ==
  LET seeded == [r \in Resource |-> ResetRows(SeedRows[r])]
  IN  /\ DOMAIN seeded = Resource
      /\ \A r \in Resource :
           /\ seeded[r].rows = SeedRows[r]
           /\ seeded[r].next \in 1 .. MaxId + 1
           /\ DOMAIN SeedRows[r] \subseteq 1 .. seeded[r].next - 1
<1> SUFFICES ASSUME NEW r \in Resource
             PROVE  /\ ResetRows(SeedRows[r]).rows = SeedRows[r]
                    /\ ResetRows(SeedRows[r]).next \in 1 .. MaxId + 1
                    /\ DOMAIN SeedRows[r] \subseteq 1 .. ResetRows(SeedRows[r]).next - 1
  OBVIOUS
<1> QED BY SeedAssumption, BoundAssumption, ResetRowsFacts

StoreOK(store) ==
  /\ DOMAIN store = {"rows", "next"}
  /\ store.next \in 1 .. MaxId + 1
  /\ DOMAIN store.rows \subseteq 1 .. store.next - 1
  /\ \A id \in DOMAIN store.rows : store.rows[id] \in Content

\* The three changes of a row keep a store's numbering and its contents.
LEMMA ChangeType ==
  ASSUME NEW store, StoreOK(store), NEW content \in Content, NEW id
  PROVE  /\ store.next <= MaxId => StoreOK(Insert(store, content))
         /\ StoreOK(UpdateRow(store, id, content))
         /\ StoreOK(DropRow(store, id))
<1>0. store.next \in Int /\ MaxId \in Int
  BY BoundAssumption DEF StoreOK
<1>1. store.next <= MaxId => StoreOK(Insert(store, content))
  <2> DEFINE added == Put(store.rows, store.next, content)
  <2>1. /\ DOMAIN added = DOMAIN store.rows \cup {store.next}
        /\ added[store.next] = content
        /\ \A i \in DOMAIN store.rows \ {store.next} : added[i] = store.rows[i]
    BY DEF Put
  <2>2. Insert(store, content) = [rows |-> added, next |-> store.next + 1]
    BY DEF Insert
  <2> HIDE DEF added
  <2>3. \A i \in DOMAIN added : added[i] \in Content
    BY <2>1 DEF StoreOK
  <2> QED BY <1>0, <2>1, <2>2, <2>3 DEF StoreOK
<1>2. StoreOK(UpdateRow(store, id, content))
  <2> DEFINE updated == Update(store.rows, id, content)
  <2>1. /\ DOMAIN updated = DOMAIN store.rows
        /\ id \in DOMAIN store.rows => updated[id] = content
        /\ \A i \in DOMAIN store.rows \ {id} : updated[i] = store.rows[i]
    BY UpdateFacts
  <2>2. UpdateRow(store, id, content) = [store EXCEPT !.rows = updated]
    BY DEF UpdateRow
  <2> HIDE DEF updated
  <2>3. \A i \in DOMAIN updated : updated[i] \in Content
    BY <2>1 DEF StoreOK
  <2> QED BY <2>1, <2>2, <2>3 DEF StoreOK
<1>3. StoreOK(DropRow(store, id))
  <2> DEFINE left == Drop(store.rows, id)
  <2>1. /\ DOMAIN left = DOMAIN store.rows \ {id}
        /\ \A i \in DOMAIN store.rows \ {id} : left[i] = store.rows[i]
    BY DropFacts
  <2>2. DropRow(store, id) = [store EXCEPT !.rows = left]
    BY DEF DropRow
  <2> HIDE DEF left
  <2>3. \A i \in DOMAIN left : left[i] \in Content
    BY <2>1 DEF StoreOK
  <2> QED BY <2>1, <2>2, <2>3 DEF StoreOK
<1> QED BY <1>1, <1>2, <1>3

LEMMA TypeIsStores ==
  TypeOK <=> /\ config \in Configs
             /\ standing \in [Credential -> Standings]
             /\ DOMAIN stores = Resource /\ \A r \in Resource : StoreOK(stores[r])
             /\ arriving \subseteq {q \in Requests : q.body # NoBody}
BY DEF TypeOK, StoreOK, Rows

\* Init establishes the type invariant.
LEMMA TypeInit == Init => TypeOK
<1> SUFFICES ASSUME Init PROVE TypeOK
  OBVIOUS
<1>1. config \in Configs /\ standing \in [Credential -> Standings] /\ arriving = {}
  BY DEF Init, Standings
<1>2. stores = [r \in Resource |-> ResetRows(SeedRows[r])]
  BY DEF Init
<1>3. DOMAIN stores = Resource /\ \A r \in Resource : StoreOK(stores[r])
  BY <1>2, SeedFacts, SeedAssumption DEF StoreOK, ResetRows
<1> QED BY <1>1, <1>3, TypeIsStores

\* A store changed by an allowed change leaves the others as they are.
LEMMA OneStoreChanged ==
  ASSUME TypeOK, NEW r \in Resource, NEW store, StoreOK(store),
         stores' = [stores EXCEPT ![r] = store]
  PROVE  DOMAIN stores' = Resource /\ \A other \in Resource : StoreOK(stores'[other])
BY TypeIsStores

\* Every step preserves the type invariant.
LEMMA TypeStep == TypeOK /\ [Next]_vars => TypeOK'
<1> SUFFICES ASSUME TypeOK, [Next]_vars PROVE TypeOK'
  OBVIOUS
<1> DEFINE StoresKept == DOMAIN stores' = Resource /\ \A r \in Resource : StoreOK(stores'[r])
           Waiting == arriving' \subseteq {q \in Requests : q.body # NoBody}
<1>0. SUFFICES /\ config' \in Configs /\ standing' \in [Credential -> Standings]
               /\ StoresKept /\ Waiting
  BY TypeIsStores DEF TypeOK, StoreOK, Rows
<1>t. /\ config \in Configs /\ standing \in [Credential -> Standings]
      /\ DOMAIN stores = Resource /\ \A r \in Resource : StoreOK(stores[r])
      /\ arriving \subseteq {q \in Requests : q.body # NoBody}
  BY TypeIsStores
<1>a. ASSUME NEW q, Answered(q) PROVE config' = config /\ Waiting
  BY <1>t, <1>a DEF Answered
<1>1. ASSUME NEW c \in Credential, NEW s \in {"good", "void", "expired"}, Issue(c, s)
      PROVE  config' = config /\ standing' \in [Credential -> Standings] /\ StoresKept /\ Waiting
  BY <1>t, <1>1 DEF Issue, Standings
<1>2. ASSUME NEW t \in Token, Expire(t)
      PROVE  config' = config /\ standing' \in [Credential -> Standings] /\ StoresKept /\ Waiting
  BY <1>t, <1>2 DEF Expire, Standings
<1>3. ASSUME NEW q \in Requests, Begin(q) \/ Abort(q)
      PROVE  config' = config /\ standing' \in [Credential -> Standings] /\ StoresKept /\ Waiting
  BY <1>t, <1>3 DEF Begin, Abort
<1>4. ASSUME NEW q \in Requests, CreateRow(q, WayOf(q))
      PROVE  standing' = standing /\ StoresKept
  <2>1. PICK r \in Resource : /\ q.body \in Content
                              /\ stores[r].next <= MaxId
                              /\ stores' = [stores EXCEPT ![r] = Insert(stores[r], q.body)]
                              /\ UNCHANGED standing
    BY <1>t, <1>4, CreateFacts
  <2>2. StoreOK(Insert(stores[r], q.body))
    BY <1>t, <2>1, ChangeType
  <2> QED BY <2>1, <2>2, OneStoreChanged
<1>5. ASSUME NEW q \in Requests, OverwriteRow(q, WayOf(q))
      PROVE  standing' = standing /\ StoresKept
  <2>1. PICK r \in Resource :
          \E id \in DOMAIN stores[r].rows : \E content \in Content \cup {stores[r].rows[id]} :
            /\ stores' = [stores EXCEPT ![r] = UpdateRow(stores[r], id, content)]
            /\ UNCHANGED standing
    BY <1>t, <1>5, OverwriteFacts
  <2>2. PICK id \in DOMAIN stores[r].rows : \E content \in Content \cup {stores[r].rows[id]} :
          /\ stores' = [stores EXCEPT ![r] = UpdateRow(stores[r], id, content)]
          /\ UNCHANGED standing
    BY <2>1
  <2>3. PICK content \in Content \cup {stores[r].rows[id]} :
          /\ stores' = [stores EXCEPT ![r] = UpdateRow(stores[r], id, content)]
          /\ UNCHANGED standing
    BY <2>2
  <2>4. StoreOK(stores[r]) /\ content \in Content
    BY <1>t DEF StoreOK
  <2>5. StoreOK(UpdateRow(stores[r], id, content))
    BY <2>4, ChangeType
  <2> QED BY <2>3, <2>5, OneStoreChanged
<1>6. ASSUME NEW q \in Requests, DeleteRow(q, WayOf(q))
      PROVE  standing' = standing /\ StoresKept
  <2> DEFINE id == NumberOf(WayOf(q).argument)
  <2>1. PICK r \in Resource : /\ stores' = [stores EXCEPT ![r] = DropRow(stores[r], id)]
                              /\ UNCHANGED standing
    BY <1>t, <1>6, DeleteFacts
  <2> HIDE DEF id
  <2>2. StoreOK(DropRow(stores[r], id))
    <3>1. StoreOK(stores[r])
      BY <1>t
    <3> QED BY <3>1, DropType DEF StoreOK, DropRow, Drop
  <2> QED BY <2>1, <2>2, OneStoreChanged
<1>7. ASSUME NEW q \in Requests, ResetData(q, WayOf(q))
      PROVE  standing' = standing /\ StoresKept
  <2>1. stores' = [r \in Resource |-> ResetRows(SeedRows[r])] /\ standing' = standing
    BY <1>7 DEF ResetData
  <2>2. StoresKept
    BY <2>1, SeedFacts, SeedAssumption DEF StoreOK, ResetRows
  <2> QED BY <2>1, <2>2
<1>8. ASSUME NEW q \in Requests, ResetAuth(q, WayOf(q)) \/ GiveUp(q, WayOf(q))
      PROVE  standing' \in [Credential -> Standings] /\ StoresKept
  BY <1>t, <1>8 DEF ResetAuth, GiveUp, Standings
<1>9. ASSUME NEW q \in Requests, Tell(q, WayOf(q))
      PROVE  standing' = standing /\ StoresKept
  BY <1>t, <1>9 DEF Tell
<1>10. CASE UNCHANGED vars
  BY <1>t, <1>10 DEF vars
<1>11. CASE Next
  <2>1. ASSUME NEW q \in Requests,
               \/ CreateRow(q, WayOf(q)) \/ OverwriteRow(q, WayOf(q)) \/ DeleteRow(q, WayOf(q))
               \/ ResetData(q, WayOf(q)) \/ ResetAuth(q, WayOf(q)) \/ GiveUp(q, WayOf(q))
               \/ Tell(q, WayOf(q))
        PROVE  config' = config /\ Waiting
    BY <1>a, <2>1 DEF CreateRow, OverwriteRow, DeleteRow, ResetData, ResetAuth, GiveUp, Tell
  <2> HIDE DEF StoresKept, Waiting
  <2> QED BY <1>t, <1>1, <1>2, <1>3, <1>4, <1>5, <1>6, <1>7, <1>8, <1>9, <1>11, <2>1 DEF Next
<1> QED BY <1>10, <1>11

\* Rows keep their numbers below the next one and hold nothing but content, whatever
\* requests are made and whenever their bodies arrive.
THEOREM TypeCorrect == Spec => []TypeOK
<1> QED BY TypeInit, TypeStep, PTL DEF Spec

-----------------------------------------------------------------------------
(* The gates keep the promise of Gatekeeper. *)

held == {c \in Credential : standing[c] # "unissued"}
good == {c \in Credential : standing[c] = "good"}
rows == [r \in Resource |-> Rows(r)]

\* The first state of the server is a first state of Gatekeeper.
LEMMA GateInitially == Init => Keeper!GateInit
<1> SUFFICES ASSUME Init PROVE Keeper!GateInit
  OBVIOUS
<1>1. /\ standing = [c \in Credential |-> "unissued"]
      /\ stores = [r \in Resource |-> ResetRows(SeedRows[r])]
  BY DEF Init
<1>2. held = {} /\ good = {}
  BY <1>1 DEF held, good
<1>3. \A r \in Resource : DOMAIN rows[r] = SeedIds[r]
  BY <1>1 DEF rows, Rows, SeedIds, ResetRows
<1> QED BY <1>2, <1>3 DEF Keeper!GateInit, Keeper!Init, held, good, rows

\* Credentials are handed out, or cease to be good.
LEMMA CredentialStep ==
  ASSUME TypeOK, standing' \in [Credential -> Standings],
         \A c \in Credential : \/ standing'[c] = standing[c]
                              \/ standing[c] = "unissued"
                              \/ standing'[c] \in {"void", "expired"},
         stores' = stores
  PROVE  Keeper!GateNext
<1>1. /\ held \subseteq held' /\ held' \subseteq Credential
      /\ good' \subseteq good \cup (held' \ held)
  BY DEF held, good, TypeOK
<1>2. rows' = rows
  BY DEF rows, Rows
<1> QED BY <1>1, <1>2 DEF Keeper!GateNext, Keeper!Next, held, good, rows

\* Whoever made a change is entitled to it, and good.
LEMMA GoodIsEntitled ==
  ASSUME NEW q, NEW r \in Resource, GoodToken(q)
  PROVE  /\ Grants(ScopesOf[q.proof], r, 2) => Keeper!Entitled(r, "write")
         /\ Grants(ScopesOf[q.proof], r, 3) => Keeper!Entitled(r, "execute")
<1>1. q.proof \in good /\ q.proof \in Token
  BY DEF GoodToken, Good, good
<1>2. Grants(ScopesOf[q.proof], r, 2) => <<q.proof, r, "write">> \in Entitled
  BY <1>1 DEF Entitled
<1>3. Grants(ScopesOf[q.proof], r, 3) => <<q.proof, r, "execute">> \in Entitled
  BY <1>1 DEF Entitled
<1> QED BY <1>1, <1>2, <1>3 DEF Keeper!Entitled, good

\* A created or overwritten row is written.
LEMMA WriteStep ==
  ASSUME TypeOK, NEW q \in Requests, CreateRow(q, WayOf(q)) \/ OverwriteRow(q, WayOf(q))
  PROVE  Keeper!GateNext
<1> DEFINE OnlyStore(r) ==
             /\ GoodToken(q) /\ Grants(ScopesOf[q.proof], r, 2)
             /\ stores' = [stores EXCEPT ![r] = stores'[r]] /\ UNCHANGED standing
             /\ DOMAIN stores[r].rows \subseteq DOMAIN stores'[r].rows
<1>0. config \in Configs /\ DOMAIN stores = Resource /\ \A r \in Resource : StoreOK(stores[r])
  BY TypeIsStores
<1>1. \E r \in Resource : OnlyStore(r)
  <2>1. CASE CreateRow(q, WayOf(q))
    <3>1. PICK r \in Resource : /\ GoodToken(q) /\ Grants(ScopesOf[q.proof], r, 2)
                                /\ stores' = [stores EXCEPT ![r] = Insert(stores[r], q.body)]
                                /\ UNCHANGED standing
      BY <1>0, <2>1, CreateFacts
    <3>2. DOMAIN stores[r].rows \subseteq DOMAIN Insert(stores[r], q.body).rows
      BY DEF Insert, Put
    <3>3. stores'[r] = Insert(stores[r], q.body)
      BY <1>0, <3>1
    <3> QED BY <3>1, <3>2, <3>3
  <2>2. CASE OverwriteRow(q, WayOf(q))
    <3>1. PICK r \in Resource :
            \E id \in DOMAIN stores[r].rows : \E content \in Content \cup {stores[r].rows[id]} :
              /\ GoodToken(q) /\ Grants(ScopesOf[q.proof], r, 2)
              /\ stores' = [stores EXCEPT ![r] = UpdateRow(stores[r], id, content)]
              /\ UNCHANGED standing
      BY <1>0, <2>2, OverwriteFacts
    <3>2. PICK id, content : /\ GoodToken(q) /\ Grants(ScopesOf[q.proof], r, 2)
                             /\ stores' = [stores EXCEPT ![r] = UpdateRow(stores[r], id, content)]
                             /\ UNCHANGED standing
      BY <3>1
    <3>3. StoreOK(stores[r])
      BY <1>0
    <3>4. DOMAIN UpdateRow(stores[r], id, content).rows = DOMAIN stores[r].rows
      BY <3>3, UpdateFacts DEF StoreOK, UpdateRow
    <3>5. stores'[r] = UpdateRow(stores[r], id, content)
      BY <1>0, <3>2
    <3> QED BY <3>2, <3>4, <3>5
  <2> QED BY <2>1, <2>2
<1>3. PICK r \in Resource : OnlyStore(r)
  BY <1>1
<1>4. Keeper!Entitled(r, "write")
  BY <1>3, GoodIsEntitled
<1>5. rows' = [rows EXCEPT ![r] = stores'[r].rows]
  BY <1>0, <1>3 DEF rows, Rows
<1>6. DOMAIN rows[r] \subseteq DOMAIN rows'[r]
        /\ \A other \in Resource \ {r} : rows'[other] = rows[other]
  BY <1>3, <1>5 DEF rows, Rows
<1>7. held' = held /\ good' = good
  BY <1>3 DEF held, good
<1>8. Keeper!Write(r)
  BY <1>4, <1>6, <1>7 DEF Keeper!Write, Keeper!OthersKept, Keeper!vars, held, good, rows
<1> QED BY <1>8 DEF Keeper!GateNext

\* A deleted row goes.
LEMMA DeleteStep ==
  ASSUME TypeOK, NEW q \in Requests, DeleteRow(q, WayOf(q))
  PROVE  Keeper!GateNext
<1>0. config \in Configs /\ DOMAIN stores = Resource /\ \A r \in Resource : StoreOK(stores[r])
  BY TypeIsStores
<1> DEFINE id == NumberOf(WayOf(q).argument)
<1>1. PICK r \in Resource : /\ GoodToken(q) /\ Grants(ScopesOf[q.proof], r, 3)
                            /\ stores' = [stores EXCEPT ![r] = DropRow(stores[r], id)]
                            /\ UNCHANGED standing
  BY <1>0, DeleteFacts
<1> HIDE DEF id
<1>2. Keeper!Entitled(r, "execute")
  BY <1>1, GoodIsEntitled
<1>3. StoreOK(stores[r])
  BY <1>0
<1>4. rows' = [rows EXCEPT ![r] = Drop(rows[r], id)]
  BY <1>0, <1>1, <1>3 DEF rows, Rows, DropRow, StoreOK
<1>5. /\ DOMAIN rows'[r] \subseteq DOMAIN rows[r]
      /\ \A i \in DOMAIN rows'[r] : rows'[r][i] = rows[r][i]
      /\ \A other \in Resource \ {r} : rows'[other] = rows[other]
  <2>1. rows'[r] = Drop(rows[r], id) /\ \A other \in Resource \ {r} : rows'[other] = rows[other]
    BY <1>4 DEF rows
  <2>2. /\ DOMAIN Drop(rows[r], id) = DOMAIN rows[r] \ {id}
        /\ \A i \in DOMAIN rows[r] \ {id} : Drop(rows[r], id)[i] = rows[r][i]
    BY DropFacts
  <2> QED BY <2>1, <2>2
<1>6. held' = held /\ good' = good
  BY <1>1 DEF held, good
<1>7. Keeper!Delete(r)
  BY <1>2, <1>5, <1>6 DEF Keeper!Delete, Keeper!OthersKept, Keeper!vars, held, good, rows
<1> QED BY <1>7 DEF Keeper!GateNext

\* A data reset brings the seed back.
LEMMA RestoreStep ==
  ASSUME NEW q \in Requests, ResetData(q, WayOf(q))
  PROVE  Keeper!GateNext
<1>1. stores' = [r \in Resource |-> ResetRows(SeedRows[r])] /\ standing' = standing
  BY DEF ResetData
<1>2. \A r \in Resource : DOMAIN rows'[r] = SeedIds[r]
  BY <1>1 DEF rows, Rows, SeedIds, ResetRows
<1>3. held' = held /\ good' = good
  BY <1>1 DEF held, good
<1>4. Keeper!Restore
  BY <1>2, <1>3 DEF Keeper!Restore, Keeper!vars, held, good, rows
<1> QED BY <1>4 DEF Keeper!GateNext

\* Every step of the server is a step of Gatekeeper, or none.
LEMMA GateStep == TypeOK /\ TypeOK' /\ [Next]_vars => [Keeper!GateNext]_(Keeper!gateVars)
<1> SUFFICES ASSUME TypeOK, TypeOK', [Next]_vars
             PROVE  Keeper!GateNext \/ UNCHANGED Keeper!gateVars
  OBVIOUS
<1>0. standing \in [Credential -> Standings] /\ standing' \in [Credential -> Standings]
  BY DEF TypeOK
<1>1. ASSUME standing' = standing, stores' = stores PROVE UNCHANGED Keeper!gateVars
  <2>1. held' = held /\ good' = good /\ rows' = rows
    BY <1>1 DEF held, good, rows, Rows
  <2> QED BY <2>1 DEF Keeper!gateVars, held, good, rows
<1>2. ASSUME NEW c \in Credential, NEW s \in {"good", "void", "expired"}, Issue(c, s)
      PROVE  Keeper!GateNext
  BY <1>0, <1>2, CredentialStep DEF Issue
<1>3. ASSUME NEW t \in Token, Expire(t) PROVE Keeper!GateNext
  BY <1>0, <1>3, CredentialStep DEF Expire
<1>4. ASSUME NEW q \in Requests, ResetAuth(q, WayOf(q)) \/ GiveUp(q, WayOf(q))
      PROVE  Keeper!GateNext
  BY <1>0, <1>4, CredentialStep DEF ResetAuth, GiveUp
<1>5. ASSUME NEW q \in Requests, Begin(q) \/ Abort(q) \/ Tell(q, WayOf(q))
      PROVE  standing' = standing /\ stores' = stores
  BY <1>5 DEF Begin, Abort, Tell
<1>6. CASE UNCHANGED vars
  BY <1>1, <1>6 DEF vars
<1>7. CASE Next
  BY <1>1, <1>2, <1>3, <1>4, <1>5, <1>7, WriteStep, DeleteStep, RestoreStep DEF Next
<1> QED BY <1>6, <1>7

\* Whatever requests are made, whenever their bodies arrive and whatever becomes of the
\* tokens meanwhile: rows change for a good, entitled token only.
THEOREM GateKept == Spec => KeepsGate
<1>1. Spec => []TypeOK
  BY TypeCorrect
<1> QED BY <1>1, GateInitially, GateStep, PTL DEF Spec, KeepsGate, Keeper!GateSpec

-----------------------------------------------------------------------------
(* Matching. *)

\* What a slash at the end leaves behind it.
Blank == ""

\* What one segment of a pattern takes.
Takes(part, segment) == part = segment \/ (part \in Params /\ segment # Blank)

\* A path fits a pattern of the same length, part by part.
LEMMA FitsFacts ==
  ASSUME NEW pattern, NEW path
  PROVE  Fits(pattern, path) <=>
           /\ Len(pattern) = Len(path)
           /\ \A i \in 1 .. Len(pattern) : Takes(pattern[i], path[i])
BY Zenon DEF Fits, Takes, Blank

LEMMA FitsOne ==
  \A a, path : Fits(<<a>>, path) <=> Len(path) = 1 /\ Takes(a, path[1])
<1> SUFFICES ASSUME NEW a, NEW path
             PROVE  Fits(<<a>>, path) <=> Len(path) = 1 /\ Takes(a, path[1])
  OBVIOUS
<1>1. Len(<<a>>) = 1 /\ <<a>>[1] = a /\ \A i \in 1 .. 1 : i = 1
  OBVIOUS
<1> HIDE DEF Takes
<1>2. 1 \in 1 .. 1
  OBVIOUS
<1>3. PICK p : p = <<a>>
  OBVIOUS
<1> QED BY <1>1, <1>2, <1>3, FitsFacts

LEMMA FitsTwo ==
  \A a, b, path : Fits(<<a, b>>, path) <=> Len(path) = 2 /\ Takes(a, path[1]) /\ Takes(b, path[2])
<1> SUFFICES ASSUME NEW a, NEW b, NEW path
             PROVE  Fits(<<a, b>>, path) <=>
                      Len(path) = 2 /\ Takes(a, path[1]) /\ Takes(b, path[2])
  OBVIOUS
<1>1. PICK p : p = <<a, b>>
  OBVIOUS
<1>2. Len(p) = 2 /\ p[1] = a /\ p[2] = b
  BY <1>1
<1>3. 1 .. 2 = {1, 2}
  OBVIOUS
<1>4. Fits(p, path) <=> Len(path) = 2 /\ Takes(p[1], path[1]) /\ Takes(p[2], path[2])
  BY <1>2, <1>3, FitsFacts
<1> QED BY <1>1, <1>2, <1>4

LEMMA FitsThree ==
  \A a, b, c, path :
    Fits(<<a, b, c>>, path) <=>
      Len(path) = 3 /\ Takes(a, path[1]) /\ Takes(b, path[2]) /\ Takes(c, path[3])
<1> SUFFICES ASSUME NEW a, NEW b, NEW c, NEW path
             PROVE  Fits(<<a, b, c>>, path) <=>
                      Len(path) = 3 /\ Takes(a, path[1]) /\ Takes(b, path[2]) /\ Takes(c, path[3])
  OBVIOUS
<1>1. PICK p : p = <<a, b, c>>
  OBVIOUS
<1>2. Len(p) = 3 /\ p[1] = a /\ p[2] = b /\ p[3] = c
  BY <1>1
<1>3. 1 .. 3 = {1, 2, 3}
  OBVIOUS
<1>4. Fits(p, path) <=>
        Len(path) = 3 /\ Takes(p[1], path[1]) /\ Takes(p[2], path[2]) /\ Takes(p[3], path[3])
  BY <1>2, <1>3, FitsFacts
<1> QED BY <1>1, <1>2, <1>4

\* A short sequence, by its members.
LEMMA ShortFacts ==
  ASSUME NEW S, NEW a \in S, NEW b \in S, NEW c \in S
  PROVE  /\ <<a>> \in Seq(S) /\ Len(<<a>>) = 1 /\ <<a>>[1] = a
         /\ <<a, b>> \in Seq(S) /\ Len(<<a, b>>) = 2 /\ <<a, b>>[1] = a /\ <<a, b>>[2] = b
         /\ <<a, b, c>> \in Seq(S) /\ Len(<<a, b, c>>) = 3
         /\ <<a, b, c>>[1] = a /\ <<a, b, c>>[2] = b /\ <<a, b, c>>[3] = c
<1>1. <<a>> \in Seq(S) /\ Len(<<a>>) = 1 /\ <<a>>[1] = a
  OBVIOUS
<1>2. <<a, b>> \in Seq(S) /\ Len(<<a, b>>) = 2 /\ <<a, b>>[1] = a /\ <<a, b>>[2] = b
  OBVIOUS
<1>3. <<a, b, c>> \in Seq(S) /\ Len(<<a, b, c>>) = 3
  OBVIOUS
<1>4. <<a, b, c>>[1] = a /\ <<a, b, c>>[2] = b /\ <<a, b, c>>[3] = c
  OBVIOUS
<1> QED BY <1>1, <1>2, <1>3, <1>4

\* Short sequences are equal only if they are so member by member.
LEMMA ShortEqual ==
  /\ \A a, d, e : <<a>> # <<d, e>>
  /\ \A a, d, e, f : <<a>> # <<d, e, f>>
  /\ \A a, b, d, e, f : <<a, b>> # <<d, e, f>>
  /\ \A a, d : <<a>> = <<d>> => a = d
  /\ \A a, b, d, e : <<a, b>> = <<d, e>> => a = d /\ b = e
  /\ \A a, b, c, d, e, f : <<a, b, c>> = <<d, e, f>> => a = d /\ b = e /\ c = f
<1>1. \A a, b, c : Len(<<a>>) = 1 /\ Len(<<a, b>>) = 2 /\ Len(<<a, b, c>>) = 3
  OBVIOUS
<1>2. \A a : <<a>>[1] = a
  OBVIOUS
<1>3. \A a, b : <<a, b>>[1] = a /\ <<a, b>>[2] = b
  OBVIOUS
<1>4. \A a, b, c : <<a, b, c>>[1] = a /\ <<a, b, c>>[2] = b /\ <<a, b, c>>[3] = c
  OBVIOUS
<1>5. \A a, d, e : <<a>> # <<d, e>>
  BY <1>1
<1>6. \A a, d, e, f : <<a>> # <<d, e, f>>
  BY <1>1
<1>7. \A a, b, d, e, f : <<a, b>> # <<d, e, f>>
  BY <1>1
<1>8. \A a, d : <<a>> = <<d>> => a = d
  BY <1>2
<1>9. \A a, b, d, e : <<a, b>> = <<d, e>> => a = d /\ b = e
  BY <1>3
<1>10. \A a, b, c, d, e, f : <<a, b, c>> = <<d, e, f>> => a = d /\ b = e /\ c = f
  BY <1>4
<1> QED BY <1>5, <1>6, <1>7, <1>8, <1>9, <1>10

LEMMA OneMore ==
  /\ \A a, c : <<a>> \o <<c>> = <<a, c>>
  /\ \A a, b, c : <<a, b>> \o <<c>> = <<a, b, c>>
<1> SUFFICES ASSUME NEW a, NEW b, NEW c
             PROVE  <<a>> \o <<c>> = <<a, c>> /\ <<a, b>> \o <<c>> = <<a, b, c>>
  OBVIOUS
<1>1. PICK S : a \in S /\ b \in S /\ c \in S
  <2>1. a \in {a, b, c} /\ b \in {a, b, c} /\ c \in {a, b, c}
    OBVIOUS
  <2> QED BY <2>1
<1>2. PICK one, two, three, last, ends :
        one = <<a>> /\ two = <<a, b>> /\ three = <<a, b, c>> /\ last = <<c>> /\ ends = <<a, c>>
  OBVIOUS
<1>3. /\ one \in Seq(S) /\ Len(one) = 1 /\ one[1] = a
      /\ last \in Seq(S) /\ Len(last) = 1 /\ last[1] = c
  BY <1>1, <1>2, ShortFacts
<1>4. two \in Seq(S) /\ Len(two) = 2 /\ two[1] = a /\ two[2] = b
  BY <1>1, <1>2, ShortFacts
<1>5. ends \in Seq(S) /\ Len(ends) = 2 /\ ends[1] = a /\ ends[2] = c
  BY <1>1, <1>2, ShortFacts
<1>6. three \in Seq(S) /\ Len(three) = 3 /\ three[1] = a /\ three[2] = b /\ three[3] = c
  BY <1>1, <1>2, ShortFacts
<1>7. 1 .. 2 = {1, 2} /\ 1 .. 3 = {1, 2, 3}
  OBVIOUS
<1>8. one \o last = ends
  <2>1. /\ one \o last \in Seq(S) /\ Len(one \o last) = 2
        /\ (one \o last)[1] = a /\ (one \o last)[2] = c
    BY <1>3, <1>7, ConcatProperties
  <2> QED BY <1>5, <1>7, <2>1, SeqEqual
<1>9. two \o last = three
  <2>1. /\ two \o last \in Seq(S) /\ Len(two \o last) = 3
        /\ (two \o last)[1] = a /\ (two \o last)[2] = b /\ (two \o last)[3] = c
    BY <1>3, <1>4, <1>7, ConcatProperties
  <2> QED BY <1>6, <1>7, <2>1, SeqEqual
<1> QED BY <1>2, <1>8, <1>9

\* Which paths a route takes: a lenient one, also with a slash at the end.
LEMMA TakenFacts ==
  ASSUME NEW r, NEW path, Matches(r, path)
  PROVE  /\ \A a : r.pattern = <<a>> =>
              /\ Takes(a, path[1])
              /\ Len(path) = 1 \/ (~ r.strict /\ Len(path) = 2 /\ path[2] = Blank)
         /\ \A a, b : r.pattern = <<a, b>> =>
              /\ Takes(a, path[1]) /\ Takes(b, path[2])
              /\ Len(path) = 2 \/ (~ r.strict /\ Len(path) = 3 /\ path[3] = Blank)
         /\ \A a, b, c : r.pattern = <<a, b, c>> /\ r.strict =>
              /\ Takes(a, path[1]) /\ Takes(b, path[2]) /\ Takes(c, path[3])
              /\ Len(path) = 3
<1>1. \A s : Takes(Blank, s) <=> s = Blank
  BY Zenon DEF Takes, Params, Blank
<1>2. Fits(r.pattern, path) \/ (~ r.strict /\ Fits(r.pattern \o <<Blank>>, path))
  BY Zenon DEF Matches, Blank
<1>3. ASSUME NEW a, r.pattern = <<a>>
      PROVE  /\ Takes(a, path[1])
             /\ Len(path) = 1 \/ (~ r.strict /\ Len(path) = 2 /\ path[2] = Blank)
  <2>1. r.pattern \o <<Blank>> = <<a, Blank>>
    BY <1>3, OneMore
  <2>2. Fits(<<a>>, path) \/ (~ r.strict /\ Fits(<<a, Blank>>, path))
    BY <1>2, <1>3, <2>1
  <2> QED BY <1>1, <2>2, FitsOne, FitsTwo
<1>4. ASSUME NEW a, NEW b, r.pattern = <<a, b>>
      PROVE  /\ Takes(a, path[1]) /\ Takes(b, path[2])
             /\ Len(path) = 2 \/ (~ r.strict /\ Len(path) = 3 /\ path[3] = Blank)
  <2>1. r.pattern \o <<Blank>> = <<a, b, Blank>>
    BY <1>4, OneMore
  <2>2. Fits(<<a, b>>, path) \/ (~ r.strict /\ Fits(<<a, b, Blank>>, path))
    BY <1>2, <1>4, <2>1
  <2> QED BY <1>1, <2>2, FitsTwo, FitsThree
<1>5. ASSUME NEW a, NEW b, NEW c, r.pattern = <<a, b, c>>, r.strict
      PROVE  /\ Takes(a, path[1]) /\ Takes(b, path[2]) /\ Takes(c, path[3])
             /\ Len(path) = 3
  BY <1>2, <1>5, FitsThree
<1> QED BY <1>3, <1>4, <1>5

\* The one router that may take a path: the meta endpoints and the API share no
\* first segment, and where routers share one, the rest of the path decides.
Owner(path) ==
  CASE path[1] = "health" -> healthRouter
    [] path[1] = "version" -> versionRouter
    [] path[1] = "auth" -> IF path[2] = "api-key" THEN apiKeyRouter ELSE authRouter
    [] path[1] = "api-key" -> apiKeyRouter
    [] path[1] = "auth-test" -> basicAuthRouter
    [] path[1] = "delay" -> delayRouter
    [] path[1] = "payload" -> payloadRouter
    [] path[1] = "content" -> contentRouter
    [] path[1] = "headers" -> headersRouter
    [] path[1] = "cookies" -> cookiesRouter
    [] path[1] = "rate-limit" -> rateLimitRouter
    [] path[1] = "flaky" -> flakyRouter
    [] path[1] = "cache" -> cacheRouter
    [] path[1] = "files" -> filesRouter
    [] path[1] = "errors" -> errorsRouter
    [] path[1] = "admin" -> adminRouter
    [] path[1] \in {"openapi.yaml", "openapi.json"} -> openapiRouter
    [] path[1] = "info" -> infoRouter
    [] path[1] = "routes" -> routesRouter
    [] path[1] = "users" -> IF Len(path) # 3 THEN userRouter
                            ELSE IF path[3] = "orders" THEN orderRouter ELSE postRouter
    [] path[1] = "products" -> IF Len(path) # 3 THEN productRouter
                               ELSE IF path[3] = "category" THEN categoryRouter ELSE reviewRouter
    [] path[1] = "customers" -> customerRouter
    [] path[1] = "orders" -> orderRouter
    [] path[1] = "categories" -> categoryRouter
    [] path[1] = "posts" -> IF Len(path) # 3 THEN postRouter ELSE commentRouter
    [] path[1] = "comments" -> commentRouter
    [] path[1] = "reviews" -> reviewRouter
    [] path[1] = "payments" -> paymentRouter
    [] path[1] = "search" -> searchRouter
    [] path[1] = "status" -> statusCodeRouter
    [] path[1] = "test" -> testScenarioRouter
    [] path[1] = "protected" -> protectedRouter
    [] path[1] = "role" -> roleRouter
    [] path[1] = "scope" -> scopeRouter

\* No route of another router takes a path of this one, and only one of its own does.
Owns(router) ==
  \A r, s \in router : \A path :
    Matches(r, path) => Owner(path) = router /\ (Matches(s, path) => r = s)

\* What Owner says, first segment by first segment.
LEMMA OwnerOfMeta ==
  \A path :
    /\ path[1] = "health" => Owner(path) = healthRouter
    /\ path[1] = "version" => Owner(path) = versionRouter
    /\ path[1] = "auth-test" => Owner(path) = basicAuthRouter
    /\ path[1] = "delay" => Owner(path) = delayRouter
    /\ path[1] = "payload" => Owner(path) = payloadRouter
    /\ path[1] = "content" => Owner(path) = contentRouter
    /\ path[1] = "headers" => Owner(path) = headersRouter
    /\ path[1] = "cookies" => Owner(path) = cookiesRouter
    /\ path[1] = "rate-limit" => Owner(path) = rateLimitRouter
    /\ path[1] = "flaky" => Owner(path) = flakyRouter
    /\ path[1] = "cache" => Owner(path) = cacheRouter
    /\ path[1] = "files" => Owner(path) = filesRouter
    /\ path[1] = "errors" => Owner(path) = errorsRouter
    /\ path[1] = "admin" => Owner(path) = adminRouter
    /\ path[1] = "api-key" => Owner(path) = apiKeyRouter
    /\ path[1] = "openapi.yaml" => Owner(path) = openapiRouter
    /\ path[1] = "openapi.json" => Owner(path) = openapiRouter
    /\ path[1] = "auth" /\ path[2] = "api-key" => Owner(path) = apiKeyRouter
    /\ path[1] = "auth" /\ path[2] # "api-key" => Owner(path) = authRouter
<1> SUFFICES ASSUME NEW path
             PROVE  /\ path[1] = "health" => Owner(path) = healthRouter
                    /\ path[1] = "version" => Owner(path) = versionRouter
                    /\ path[1] = "auth-test" => Owner(path) = basicAuthRouter
                    /\ path[1] = "delay" => Owner(path) = delayRouter
                    /\ path[1] = "payload" => Owner(path) = payloadRouter
                    /\ path[1] = "content" => Owner(path) = contentRouter
                    /\ path[1] = "headers" => Owner(path) = headersRouter
                    /\ path[1] = "cookies" => Owner(path) = cookiesRouter
                    /\ path[1] = "rate-limit" => Owner(path) = rateLimitRouter
                    /\ path[1] = "flaky" => Owner(path) = flakyRouter
                    /\ path[1] = "cache" => Owner(path) = cacheRouter
                    /\ path[1] = "files" => Owner(path) = filesRouter
                    /\ path[1] = "errors" => Owner(path) = errorsRouter
                    /\ path[1] = "admin" => Owner(path) = adminRouter
                    /\ path[1] = "api-key" => Owner(path) = apiKeyRouter
                    /\ path[1] = "openapi.yaml" => Owner(path) = openapiRouter
                    /\ path[1] = "openapi.json" => Owner(path) = openapiRouter
                    /\ path[1] = "auth" /\ path[2] = "api-key" => Owner(path) = apiKeyRouter
                    /\ path[1] = "auth" /\ path[2] # "api-key" => Owner(path) = authRouter
  OBVIOUS
<1>1. /\ path[1] = "health" => Owner(path) = healthRouter
      /\ path[1] = "version" => Owner(path) = versionRouter
      /\ path[1] = "auth-test" => Owner(path) = basicAuthRouter
      /\ path[1] = "delay" => Owner(path) = delayRouter
  BY DEF Owner
<1>2. /\ path[1] = "payload" => Owner(path) = payloadRouter
      /\ path[1] = "content" => Owner(path) = contentRouter
      /\ path[1] = "headers" => Owner(path) = headersRouter
      /\ path[1] = "cookies" => Owner(path) = cookiesRouter
  BY DEF Owner
<1>3. /\ path[1] = "rate-limit" => Owner(path) = rateLimitRouter
      /\ path[1] = "flaky" => Owner(path) = flakyRouter
      /\ path[1] = "cache" => Owner(path) = cacheRouter
      /\ path[1] = "files" => Owner(path) = filesRouter
  BY DEF Owner
<1>4. /\ path[1] = "errors" => Owner(path) = errorsRouter
      /\ path[1] = "admin" => Owner(path) = adminRouter
      /\ path[1] = "api-key" => Owner(path) = apiKeyRouter
      /\ path[1] = "openapi.yaml" => Owner(path) = openapiRouter
  BY DEF Owner
<1>5. /\ path[1] = "openapi.json" => Owner(path) = openapiRouter
      /\ path[1] = "auth" /\ path[2] = "api-key" => Owner(path) = apiKeyRouter
      /\ path[1] = "auth" /\ path[2] # "api-key" => Owner(path) = authRouter
  BY DEF Owner
<1> QED BY <1>1, <1>2, <1>3, <1>4, <1>5

\* The same, under the prefix of the API.
LEMMA OwnerOfApi ==
  \A path :
    /\ path[1] = "info" => Owner(path) = infoRouter
    /\ path[1] = "routes" => Owner(path) = routesRouter
    /\ path[1] = "customers" => Owner(path) = customerRouter
    /\ path[1] = "orders" => Owner(path) = orderRouter
    /\ path[1] = "categories" => Owner(path) = categoryRouter
    /\ path[1] = "comments" => Owner(path) = commentRouter
    /\ path[1] = "reviews" => Owner(path) = reviewRouter
    /\ path[1] = "payments" => Owner(path) = paymentRouter
    /\ path[1] = "search" => Owner(path) = searchRouter
    /\ path[1] = "status" => Owner(path) = statusCodeRouter
    /\ path[1] = "test" => Owner(path) = testScenarioRouter
    /\ path[1] = "protected" => Owner(path) = protectedRouter
    /\ path[1] = "role" => Owner(path) = roleRouter
    /\ path[1] = "scope" => Owner(path) = scopeRouter
    /\ path[1] = "users" /\ Len(path) # 3 => Owner(path) = userRouter
    /\ path[1] = "users" /\ Len(path) = 3 /\ path[3] = "orders" => Owner(path) = orderRouter
    /\ path[1] = "users" /\ Len(path) = 3 /\ path[3] # "orders" => Owner(path) = postRouter
    /\ path[1] = "products" /\ Len(path) # 3 => Owner(path) = productRouter
    /\ path[1] = "products" /\ Len(path) = 3 /\ path[3] = "category" => Owner(path) = categoryRouter
    /\ path[1] = "products" /\ Len(path) = 3 /\ path[3] # "category" => Owner(path) = reviewRouter
    /\ path[1] = "posts" /\ Len(path) # 3 => Owner(path) = postRouter
    /\ path[1] = "posts" /\ Len(path) = 3 => Owner(path) = commentRouter
<1> SUFFICES ASSUME NEW path
             PROVE  /\ path[1] = "info" => Owner(path) = infoRouter
                    /\ path[1] = "routes" => Owner(path) = routesRouter
                    /\ path[1] = "customers" => Owner(path) = customerRouter
                    /\ path[1] = "orders" => Owner(path) = orderRouter
                    /\ path[1] = "categories" => Owner(path) = categoryRouter
                    /\ path[1] = "comments" => Owner(path) = commentRouter
                    /\ path[1] = "reviews" => Owner(path) = reviewRouter
                    /\ path[1] = "payments" => Owner(path) = paymentRouter
                    /\ path[1] = "search" => Owner(path) = searchRouter
                    /\ path[1] = "status" => Owner(path) = statusCodeRouter
                    /\ path[1] = "test" => Owner(path) = testScenarioRouter
                    /\ path[1] = "protected" => Owner(path) = protectedRouter
                    /\ path[1] = "role" => Owner(path) = roleRouter
                    /\ path[1] = "scope" => Owner(path) = scopeRouter
                    /\ path[1] = "users" /\ Len(path) # 3 => Owner(path) = userRouter
                    /\ path[1] = "users" /\ Len(path) = 3 /\ path[3] = "orders"
                         => Owner(path) = orderRouter
                    /\ path[1] = "users" /\ Len(path) = 3 /\ path[3] # "orders"
                         => Owner(path) = postRouter
                    /\ path[1] = "products" /\ Len(path) # 3 => Owner(path) = productRouter
                    /\ path[1] = "products" /\ Len(path) = 3 /\ path[3] = "category"
                         => Owner(path) = categoryRouter
                    /\ path[1] = "products" /\ Len(path) = 3 /\ path[3] # "category"
                         => Owner(path) = reviewRouter
                    /\ path[1] = "posts" /\ Len(path) # 3 => Owner(path) = postRouter
                    /\ path[1] = "posts" /\ Len(path) = 3 => Owner(path) = commentRouter
  OBVIOUS
<1>1. /\ path[1] = "info" => Owner(path) = infoRouter
      /\ path[1] = "routes" => Owner(path) = routesRouter
      /\ path[1] = "customers" => Owner(path) = customerRouter
      /\ path[1] = "orders" => Owner(path) = orderRouter
  BY DEF Owner
<1>2. /\ path[1] = "categories" => Owner(path) = categoryRouter
      /\ path[1] = "comments" => Owner(path) = commentRouter
      /\ path[1] = "reviews" => Owner(path) = reviewRouter
      /\ path[1] = "payments" => Owner(path) = paymentRouter
  BY DEF Owner
<1>3. /\ path[1] = "search" => Owner(path) = searchRouter
      /\ path[1] = "status" => Owner(path) = statusCodeRouter
      /\ path[1] = "test" => Owner(path) = testScenarioRouter
      /\ path[1] = "protected" => Owner(path) = protectedRouter
  BY DEF Owner
<1>4. /\ path[1] = "role" => Owner(path) = roleRouter
      /\ path[1] = "scope" => Owner(path) = scopeRouter
      /\ path[1] = "users" /\ Len(path) # 3 => Owner(path) = userRouter
      /\ path[1] = "users" /\ Len(path) = 3 /\ path[3] = "orders" => Owner(path) = orderRouter
  BY DEF Owner
<1>5. /\ path[1] = "users" /\ Len(path) = 3 /\ path[3] # "orders" => Owner(path) = postRouter
      /\ path[1] = "products" /\ Len(path) # 3 => Owner(path) = productRouter
      /\ path[1] = "products" /\ Len(path) = 3 /\ path[3] = "category"
           => Owner(path) = categoryRouter
      /\ path[1] = "products" /\ Len(path) = 3 /\ path[3] # "category" => Owner(path) = reviewRouter
  BY DEF Owner
<1>6. /\ path[1] = "posts" /\ Len(path) # 3 => Owner(path) = postRouter
      /\ path[1] = "posts" /\ Len(path) = 3 => Owner(path) = commentRouter
  BY DEF Owner
<1> QED BY <1>1, <1>2, <1>3, <1>4, <1>5, <1>6

\* A sequence of one to three members.
Short(pattern) == Len(pattern) \in 1 .. 3 /\ \E S : pattern \in Seq(S)

\* What paths of the meta endpoints look like.
MetaHeads ==
  {"health", "version", "auth", "api-key", "auth-test", "delay", "payload", "content",
   "headers", "cookies", "rate-limit", "flaky", "cache", "files", "errors", "admin",
   "openapi.yaml", "openapi.json"}

MetaPath(path) ==
  /\ path[1] \in MetaHeads
  /\ \/ Len(path) = 1
     \/ Len(path) = 2 /\ path[1] \in {"delay", "payload", "content", "files"}
     \/ Len(path) = 2 /\ path[1] = "api-key" /\ path[2] = "protected"
     \/ /\ Len(path) = 2
        /\ path[2] \in {Blank, "live", "ready", "login", "logout", "refresh", "me", "token",
                        "token-info", "api-key", "basic", "resource", "reset"} \cup ErrorEndpoints
     \/ Len(path) = 3 /\ path[3] \in {Blank, "revoke", "reset"}

\* A router of the meta endpoints.
Meta(router) ==
  /\ Owns(router)
  /\ \A r \in router : \A path : Matches(r, path) => MetaPath(path)
  /\ \A r \in router : Short(r.pattern) /\ (r.closed \/ "HEAD" \notin DOMAIN r.serves)

\* What the patterns of the API look like, under its prefix.
ApiHeads ==
  {"info", "routes", "users", "products", "customers", "orders", "categories", "posts",
   "comments", "reviews", "payments", "search", "status", "test", "protected", "role", "scope"}

ApiPattern(pattern) ==
  /\ Short(pattern)
  /\ pattern[1] \in ApiHeads
  /\ Len(pattern) > 1 =>
       pattern[Len(pattern)] \in
         Params \cup {"orders", "products", "category", "posts", "comments", "reviews"}
  /\ Len(pattern) > 2 => pattern[2] \in Params \cup {"by-rating", "by-date"}

\* A router of the API.
Api(router) ==
  /\ Owns(router)
  /\ \A r \in router : ApiPattern(r.pattern) /\ r.closed /\ "GET" \in DOMAIN r.serves

\* No word of a pattern is blank.
LEMMA BlankFacts ==
  Blank \notin Params \cup ApiHeads \cup
    {"1", "200", "live", "ready", "orders", "products", "category", "posts", "comments", "reviews"}
BY Zenon DEF Blank, Params, ApiHeads

\* What a route is made of.
LEMMA PatternOf ==
  \A pattern, serves : /\ Route(pattern, serves).pattern = pattern
                       /\ LenientRoute(pattern, serves).pattern = pattern
                       /\ UnclosedRoute(pattern, serves).pattern = pattern
BY DEF Route, LenientRoute, UnclosedRoute

LEMMA StrictRoute == \A pattern, serves : Route(pattern, serves).strict
BY DEF Route

LEMMA ServedBy ==
  \A pattern, serves : /\ Route(pattern, serves).serves = serves
                       /\ LenientRoute(pattern, serves).serves = serves
                       /\ UnclosedRoute(pattern, serves).serves = serves
                       /\ Route(pattern, serves).closed /\ LenientRoute(pattern, serves).closed
BY DEF Route, LenientRoute, UnclosedRoute

\* The patterns of the tables.
LEMMA PatternFacts ==
  /\ \A a, b, c : Short(<<a>>) /\ Short(<<a, b>>) /\ Short(<<a, b, c>>)
  /\ \A h \in ApiHeads : ApiPattern(<<h>>)
  /\ \A h \in ApiHeads, p \in Params : ApiPattern(<<h, p>>)
  /\ \A h \in ApiHeads, p \in Params :
       \A t \in {"orders", "products", "category", "posts", "comments", "reviews"} :
         ApiPattern(<<h, p, t>>)
  /\ \A h \in ApiHeads, p \in Params : \A w \in {"by-rating", "by-date"} : ApiPattern(<<h, w, p>>)
<1>1. \A a, b, c : /\ Len(<<a>>) = 1 /\ Len(<<a, b>>) = 2 /\ Len(<<a, b, c>>) = 3
  OBVIOUS
<1>2. \A a, b, c : <<a>>[1] = a /\ <<a, b>>[1] = a /\ <<a, b>>[2] = b
  OBVIOUS
<1>3. \A a, b, c : <<a, b, c>>[1] = a /\ <<a, b, c>>[2] = b /\ <<a, b, c>>[3] = c
  OBVIOUS
<1>4. ASSUME NEW a, NEW b, NEW c PROVE Short(<<a>>) /\ Short(<<a, b>>) /\ Short(<<a, b, c>>)
  <2>1. PICK S : a \in S /\ b \in S /\ c \in S
    <3>1. a \in {a, b, c} /\ b \in {a, b, c} /\ c \in {a, b, c}
      OBVIOUS
    <3> QED BY <3>1
  <2>2. PICK one, two, three : one = <<a>> /\ two = <<a, b>> /\ three = <<a, b, c>>
    OBVIOUS
  <2>3. one \in Seq(S) /\ two \in Seq(S) /\ three \in Seq(S)
    BY <2>1, <2>2, ShortFacts
  <2>4. Len(one) = 1 /\ Len(two) = 2 /\ Len(three) = 3
    BY <1>1, <2>2
  <2> QED BY <2>2, <2>3, <2>4 DEF Short
<1>5. ASSUME NEW h \in ApiHeads PROVE ApiPattern(<<h>>)
  <2>1. PICK one : one = <<h>>
    OBVIOUS
  <2>2. Len(one) = 1 /\ one[1] = h /\ Short(one)
    BY <1>1, <1>2, <1>4, <2>1
  <2> QED BY <2>1, <2>2 DEF ApiPattern
<1>6. ASSUME NEW h \in ApiHeads, NEW p \in Params PROVE ApiPattern(<<h, p>>)
  BY <1>1, <1>2, <1>4 DEF ApiPattern
<1>7. ASSUME NEW h \in ApiHeads, NEW p \in Params,
             NEW t \in {"orders", "products", "category", "posts", "comments", "reviews"}
      PROVE  ApiPattern(<<h, p, t>>)
  BY <1>1, <1>3, <1>4 DEF ApiPattern
<1>8. ASSUME NEW h \in ApiHeads, NEW p \in Params, NEW w \in {"by-rating", "by-date"}
      PROVE  ApiPattern(<<h, w, p>>)
  BY <1>1, <1>3, <1>4 DEF ApiPattern
<1> QED BY <1>4, <1>5, <1>6, <1>7, <1>8

\* A router of one route, known by its first segment.
LEMMA SoleOwns ==
  ASSUME NEW route, NEW h, h \notin Params,
         route.pattern = <<h>> \/ \E b : route.pattern = <<h, b>>,
         \A path : path[1] = h => Owner(path) = {route}
  PROVE  Owns({route})
<1>1. \A path : Matches(route, path) => Takes(h, path[1])
  BY TakenFacts
<1> QED BY <1>1 DEF Owns, Takes

-----------------------------------------------------------------------------
(* The tables: what each router takes, by the words of its patterns. *)

LEMMA HealthTable == Meta(healthRouter)
<1>2. PICK health, live, ready :
        /\ healthRouter = {health, live, ready}
        /\ health.pattern = <<"health">>
        /\ live.pattern = <<"health", "live">>
        /\ ready.pattern = <<"health", "ready">>
  BY PatternOf, SMTT(30) DEF healthRouter
<1>3. ASSUME NEW r \in healthRouter, NEW path, Matches(r, path)
      PROVE  \/ r = health /\ (Len(path) = 1 \/ (Len(path) = 2 /\ path[2] = Blank))
                  /\ path[1] = "health"
             \/ r = live /\ (Len(path) = 2 \/ (Len(path) = 3 /\ path[3] = Blank))
                  /\ path[1] = "health" /\ path[2] = "live"
             \/ r = ready /\ (Len(path) = 2 \/ (Len(path) = 3 /\ path[3] = Blank))
                  /\ path[1] = "health" /\ path[2] = "ready"
  <2>1. r = health => (Len(path) = 1 \/ (Len(path) = 2 /\ path[2] = Blank))
          /\ Takes("health", path[1])
    BY <1>2, <1>3, TakenFacts
  <2>2. r = live => (Len(path) = 2 \/ (Len(path) = 3 /\ path[3] = Blank))
          /\ Takes("health", path[1]) /\ Takes("live", path[2])
    BY <1>2, <1>3, TakenFacts
  <2>3. r = ready => (Len(path) = 2 \/ (Len(path) = 3 /\ path[3] = Blank))
          /\ Takes("health", path[1]) /\ Takes("ready", path[2])
    BY <1>2, <1>3, TakenFacts
  <2> QED BY <1>2, <1>3, <2>1, <2>2, <2>3 DEF Takes, Params
<1>4. Owns(healthRouter)
  BY <1>3, BlankFacts, OwnerOfMeta DEF Owns
<1>5. \A r \in healthRouter : \A path : Matches(r, path) => MetaPath(path)
  BY <1>3 DEF MetaPath, MetaHeads
<1>6. \A r \in healthRouter : r.closed
  BY ServedBy DEF healthRouter
<1> QED BY <1>2, <1>4, <1>5, <1>6, PatternFacts DEF Meta

LEMMA VersionTable == Meta(versionRouter)
<1>2. PICK get :
        /\ versionRouter = {get}
        /\ get.pattern = <<"version">>
  BY PatternOf DEF versionRouter
<1>3. Owns(versionRouter)
  BY <1>2, SoleOwns, OwnerOfMeta DEF Params
<1>4. \A path : Matches(get, path) => MetaPath(path)
  <2>1. \A path : Matches(get, path) => (Len(path) = 1 \/ (Len(path) = 2 /\ path[2] = Blank))
          /\ Takes("version", path[1])
    BY <1>2, TakenFacts
  <2> QED BY <2>1 DEF Takes, MetaPath, MetaHeads, Params
<1>5. get.closed
  BY <1>2, ServedBy DEF versionRouter
<1> QED BY <1>2, <1>3, <1>4, <1>5, PatternFacts DEF Meta

LEMMA AuthTable == Meta(authRouter)
<1>1. \A r \in authRouter : r.strict
  BY StrictRoute DEF authRouter
<1>2. PICK login, logout, refresh, me, token, info :
        /\ authRouter = {login, logout, refresh, me, token, info}
        /\ login.pattern = <<"auth", "login">>
        /\ logout.pattern = <<"auth", "logout">>
        /\ refresh.pattern = <<"auth", "refresh">>
        /\ me.pattern = <<"auth", "me">>
        /\ token.pattern = <<"auth", "token">>
        /\ info.pattern = <<"auth", "token-info">>
  BY PatternOf, SMTT(30) DEF authRouter
<1>3. ASSUME NEW r \in authRouter, NEW path, Matches(r, path)
      PROVE  \/ r = login /\ Len(path) = 2 /\ path[1] = "auth" /\ path[2] = "login"
             \/ r = logout /\ Len(path) = 2 /\ path[1] = "auth" /\ path[2] = "logout"
             \/ r = refresh /\ Len(path) = 2 /\ path[1] = "auth" /\ path[2] = "refresh"
             \/ r = me /\ Len(path) = 2 /\ path[1] = "auth" /\ path[2] = "me"
             \/ r = token /\ Len(path) = 2 /\ path[1] = "auth" /\ path[2] = "token"
             \/ r = info /\ Len(path) = 2 /\ path[1] = "auth" /\ path[2] = "token-info"
  <2>1. r = login => Len(path) = 2 /\ Takes("auth", path[1]) /\ Takes("login", path[2])
    BY <1>1, <1>2, <1>3, TakenFacts
  <2>2. r = logout => Len(path) = 2 /\ Takes("auth", path[1]) /\ Takes("logout", path[2])
    BY <1>1, <1>2, <1>3, TakenFacts
  <2>3. r = refresh => Len(path) = 2 /\ Takes("auth", path[1]) /\ Takes("refresh", path[2])
    BY <1>1, <1>2, <1>3, TakenFacts
  <2>4. r = me => Len(path) = 2 /\ Takes("auth", path[1]) /\ Takes("me", path[2])
    BY <1>1, <1>2, <1>3, TakenFacts
  <2>5. r = token => Len(path) = 2 /\ Takes("auth", path[1]) /\ Takes("token", path[2])
    BY <1>1, <1>2, <1>3, TakenFacts
  <2>6. r = info => Len(path) = 2 /\ Takes("auth", path[1]) /\ Takes("token-info", path[2])
    BY <1>1, <1>2, <1>3, TakenFacts
  <2> QED BY <1>2, <1>3, <2>1, <2>2, <2>3, <2>4, <2>5, <2>6 DEF Takes, Params
<1>4. Owns(authRouter)
  BY <1>3, OwnerOfMeta DEF Owns
<1>5. \A r \in authRouter : \A path : Matches(r, path) => MetaPath(path)
  BY <1>3 DEF MetaPath, MetaHeads
<1>6. \A r \in authRouter : r.closed
  BY ServedBy DEF authRouter
<1> QED BY <1>2, <1>4, <1>5, <1>6, PatternFacts DEF Meta

LEMMA ApiKeyTable == Meta(apiKeyRouter)
<1>1. \A r \in apiKeyRouter : r.strict
  BY StrictRoute DEF apiKeyRouter
<1>2. PICK issue, protected, revoke :
        /\ apiKeyRouter = {issue, protected, revoke}
        /\ issue.pattern = <<"auth", "api-key">>
        /\ protected.pattern = <<"api-key", "protected">>
        /\ revoke.pattern = <<"auth", "api-key", "revoke">>
  BY PatternOf, SMTT(30) DEF apiKeyRouter
<1>3. ASSUME NEW r \in apiKeyRouter, NEW path, Matches(r, path)
      PROVE  \/ r = issue /\ Len(path) = 2 /\ path[1] = "auth" /\ path[2] = "api-key"
             \/ r = protected /\ Len(path) = 2 /\ path[1] = "api-key" /\ path[2] = "protected"
             \/ r = revoke /\ Len(path) = 3 /\ path[1] = "auth" /\ path[2] = "api-key"
                  /\ path[3] = "revoke"
  <2>1. r = issue => Len(path) = 2 /\ Takes("auth", path[1]) /\ Takes("api-key", path[2])
    BY <1>1, <1>2, <1>3, TakenFacts
  <2>2. r = protected => Len(path) = 2 /\ Takes("api-key", path[1]) /\ Takes("protected", path[2])
    BY <1>1, <1>2, <1>3, TakenFacts
  <2>3. r = revoke => Len(path) = 3 /\ Takes("auth", path[1]) /\ Takes("api-key", path[2])
          /\ Takes("revoke", path[3])
    BY <1>1, <1>2, <1>3, TakenFacts
  <2> QED BY <1>2, <1>3, <2>1, <2>2, <2>3 DEF Takes, Params
<1>4. Owns(apiKeyRouter)
  BY <1>3, OwnerOfMeta DEF Owns
<1>5. \A r \in apiKeyRouter : \A path : Matches(r, path) => MetaPath(path)
  BY <1>3 DEF MetaPath, MetaHeads
<1>6. \A r \in apiKeyRouter : r.closed
  BY ServedBy DEF apiKeyRouter
<1> QED BY <1>2, <1>4, <1>5, <1>6, PatternFacts DEF Meta

LEMMA BasicAuthTable == Meta(basicAuthRouter)
<1>2. PICK demo :
        /\ basicAuthRouter = {demo}
        /\ demo.pattern = <<"auth-test", "basic">>
        /\ demo.strict
  BY PatternOf, StrictRoute DEF basicAuthRouter
<1>3. Owns(basicAuthRouter)
  BY <1>2, SoleOwns, OwnerOfMeta DEF Params
<1>4. \A path : Matches(demo, path) => MetaPath(path)
  <2>1. \A path : Matches(demo, path) => Len(path) = 2 /\ Takes("auth-test", path[1])
          /\ Takes("basic", path[2])
    BY <1>2, TakenFacts
  <2> QED BY <2>1 DEF Takes, MetaPath, MetaHeads, Params
<1>5. demo.closed
  BY <1>2, ServedBy DEF basicAuthRouter
<1> QED BY <1>2, <1>3, <1>4, <1>5, PatternFacts DEF Meta

LEMMA DelayTable == Meta(delayRouter)
<1>1. \A r \in delayRouter : r.strict
  BY StrictRoute DEF delayRouter
<1>2. PICK byPath, byQuery :
        /\ delayRouter = {byPath, byQuery}
        /\ byPath.pattern = <<"delay", ":ms">>
        /\ byQuery.pattern = <<"delay">>
  BY PatternOf DEF delayRouter
<1>3. ASSUME NEW r \in delayRouter, NEW path, Matches(r, path)
      PROVE  \/ r = byPath /\ Len(path) = 2 /\ path[1] = "delay"
             \/ r = byQuery /\ Len(path) = 1 /\ path[1] = "delay"
  <2>1. r = byPath => Len(path) = 2 /\ Takes("delay", path[1])
    BY <1>1, <1>2, <1>3, TakenFacts
  <2>2. r = byQuery => Len(path) = 1 /\ Takes("delay", path[1])
    BY <1>1, <1>2, <1>3, TakenFacts
  <2> QED BY <1>2, <1>3, <2>1, <2>2 DEF Takes, Params
<1>4. Owns(delayRouter)
  BY <1>3, OwnerOfMeta DEF Owns
<1>5. \A r \in delayRouter : \A path : Matches(r, path) => MetaPath(path)
  BY <1>3 DEF MetaPath, MetaHeads
<1>6. \A r \in delayRouter : r.closed
  BY ServedBy DEF delayRouter
<1> QED BY <1>2, <1>4, <1>5, <1>6, PatternFacts DEF Meta

LEMMA PayloadTable == Meta(payloadRouter)
<1>1. \A r \in payloadRouter : r.strict
  BY StrictRoute DEF payloadRouter
<1>2. PICK byPreset, bySize :
        /\ payloadRouter = {byPreset, bySize}
        /\ byPreset.pattern = <<"payload", ":preset">>
        /\ bySize.pattern = <<"payload">>
  BY PatternOf DEF payloadRouter
<1>3. ASSUME NEW r \in payloadRouter, NEW path, Matches(r, path)
      PROVE  \/ r = byPreset /\ Len(path) = 2 /\ path[1] = "payload"
             \/ r = bySize /\ Len(path) = 1 /\ path[1] = "payload"
  <2>1. r = byPreset => Len(path) = 2 /\ Takes("payload", path[1])
    BY <1>1, <1>2, <1>3, TakenFacts
  <2>2. r = bySize => Len(path) = 1 /\ Takes("payload", path[1])
    BY <1>1, <1>2, <1>3, TakenFacts
  <2> QED BY <1>2, <1>3, <2>1, <2>2 DEF Takes, Params
<1>4. Owns(payloadRouter)
  BY <1>3, OwnerOfMeta DEF Owns
<1>5. \A r \in payloadRouter : \A path : Matches(r, path) => MetaPath(path)
  BY <1>3 DEF MetaPath, MetaHeads
<1>6. \A r \in payloadRouter : r.closed
  BY ServedBy DEF payloadRouter
<1> QED BY <1>2, <1>4, <1>5, <1>6, PatternFacts DEF Meta

LEMMA ContentTable == Meta(contentRouter)
<1>2. PICK byType :
        /\ contentRouter = {byType}
        /\ byType.pattern = <<"content", ":type">>
        /\ byType.strict
  BY PatternOf, StrictRoute DEF contentRouter
<1>3. Owns(contentRouter)
  BY <1>2, SoleOwns, OwnerOfMeta DEF Params
<1>4. \A path : Matches(byType, path) => MetaPath(path)
  <2>1. \A path : Matches(byType, path) => Len(path) = 2 /\ Takes("content", path[1])
    BY <1>2, TakenFacts
  <2> QED BY <2>1 DEF Takes, MetaPath, MetaHeads, Params
<1>5. byType.closed
  BY <1>2, ServedBy DEF contentRouter
<1> QED BY <1>2, <1>3, <1>4, <1>5, PatternFacts DEF Meta

LEMMA HeadersTable == Meta(headersRouter)
<1>2. PICK get :
        /\ headersRouter = {get}
        /\ get.pattern = <<"headers">>
        /\ get.strict
  BY PatternOf, StrictRoute DEF headersRouter
<1>3. Owns(headersRouter)
  BY <1>2, SoleOwns, OwnerOfMeta DEF Params
<1>4. \A path : Matches(get, path) => MetaPath(path)
  <2>1. \A path : Matches(get, path) => Len(path) = 1 /\ Takes("headers", path[1])
    BY <1>2, TakenFacts
  <2> QED BY <2>1 DEF Takes, MetaPath, MetaHeads, Params
<1>5. get.closed
  BY <1>2, ServedBy DEF headersRouter
<1> QED BY <1>2, <1>3, <1>4, <1>5, PatternFacts DEF Meta

LEMMA CookiesTable == Meta(cookiesRouter)
<1>2. PICK all :
        /\ cookiesRouter = {all}
        /\ all.pattern = <<"cookies">>
        /\ all.strict
  BY PatternOf, StrictRoute DEF cookiesRouter
<1>3. Owns(cookiesRouter)
  BY <1>2, SoleOwns, OwnerOfMeta DEF Params
<1>4. \A path : Matches(all, path) => MetaPath(path)
  <2>1. \A path : Matches(all, path) => Len(path) = 1 /\ Takes("cookies", path[1])
    BY <1>2, TakenFacts
  <2> QED BY <2>1 DEF Takes, MetaPath, MetaHeads, Params
<1>5. all.closed
  BY <1>2, ServedBy DEF cookiesRouter
<1> QED BY <1>2, <1>3, <1>4, <1>5, PatternFacts DEF Meta

LEMMA RateLimitTable == Meta(rateLimitRouter)
<1>2. PICK get :
        /\ rateLimitRouter = {get}
        /\ get.pattern = <<"rate-limit">>
        /\ get.strict
  BY PatternOf, StrictRoute DEF rateLimitRouter
<1>3. Owns(rateLimitRouter)
  BY <1>2, SoleOwns, OwnerOfMeta DEF Params
<1>4. \A path : Matches(get, path) => MetaPath(path)
  <2>1. \A path : Matches(get, path) => Len(path) = 1 /\ Takes("rate-limit", path[1])
    BY <1>2, TakenFacts
  <2> QED BY <2>1 DEF Takes, MetaPath, MetaHeads, Params
<1>5. get.closed
  BY <1>2, ServedBy DEF rateLimitRouter
<1> QED BY <1>2, <1>3, <1>4, <1>5, PatternFacts DEF Meta

LEMMA FlakyTable == Meta(flakyRouter)
<1>2. PICK get :
        /\ flakyRouter = {get}
        /\ get.pattern = <<"flaky">>
        /\ get.strict
  BY PatternOf, StrictRoute DEF flakyRouter
<1>3. Owns(flakyRouter)
  BY <1>2, SoleOwns, OwnerOfMeta DEF Params
<1>4. \A path : Matches(get, path) => MetaPath(path)
  <2>1. \A path : Matches(get, path) => Len(path) = 1 /\ Takes("flaky", path[1])
    BY <1>2, TakenFacts
  <2> QED BY <2>1 DEF Takes, MetaPath, MetaHeads, Params
<1>5. get.closed
  BY <1>2, ServedBy DEF flakyRouter
<1> QED BY <1>2, <1>3, <1>4, <1>5, PatternFacts DEF Meta

LEMMA CacheTable == Meta(cacheRouter)
<1>2. PICK resource :
        /\ cacheRouter = {resource}
        /\ resource.pattern = <<"cache", "resource">>
        /\ resource.strict
  BY PatternOf, StrictRoute DEF cacheRouter
<1>3. Owns(cacheRouter)
  BY <1>2, SoleOwns, OwnerOfMeta DEF Params
<1>4. \A path : Matches(resource, path) => MetaPath(path)
  <2>1. \A path : Matches(resource, path) => Len(path) = 2 /\ Takes("cache", path[1])
          /\ Takes("resource", path[2])
    BY <1>2, TakenFacts
  <2> QED BY <2>1 DEF Takes, MetaPath, MetaHeads, Params
<1>5. resource.closed
  BY <1>2, ServedBy DEF cacheRouter
<1> QED BY <1>2, <1>3, <1>4, <1>5, PatternFacts DEF Meta

LEMMA FilesTable == Meta(filesRouter)
<1>1. \A r \in filesRouter : r.strict
  BY StrictRoute DEF filesRouter
<1>2. PICK all, one :
        /\ filesRouter = {all, one}
        /\ all.pattern = <<"files">>
        /\ one.pattern = <<"files", ":id">>
  BY PatternOf DEF filesRouter
<1>3. ASSUME NEW r \in filesRouter, NEW path, Matches(r, path)
      PROVE  \/ r = all /\ Len(path) = 1 /\ path[1] = "files"
             \/ r = one /\ Len(path) = 2 /\ path[1] = "files"
  <2>1. r = all => Len(path) = 1 /\ Takes("files", path[1])
    BY <1>1, <1>2, <1>3, TakenFacts
  <2>2. r = one => Len(path) = 2 /\ Takes("files", path[1])
    BY <1>1, <1>2, <1>3, TakenFacts
  <2> QED BY <1>2, <1>3, <2>1, <2>2 DEF Takes, Params
<1>4. Owns(filesRouter)
  BY <1>3, OwnerOfMeta DEF Owns
<1>5. \A r \in filesRouter : \A path : Matches(r, path) => MetaPath(path)
  BY <1>3 DEF MetaPath, MetaHeads
<1>6. \A r \in filesRouter : r.closed
  BY ServedBy DEF filesRouter
<1> QED BY <1>2, <1>4, <1>5, <1>6, PatternFacts DEF Meta

LEMMA AdminTable == Meta(adminRouter)
<1>1. \A r \in adminRouter : r.strict
  BY StrictRoute DEF adminRouter
<1>2. PICK reset, authReset :
        /\ adminRouter = {reset, authReset}
        /\ reset.pattern = <<"admin", "reset">>
        /\ authReset.pattern = <<"admin", "auth", "reset">>
  BY PatternOf DEF adminRouter
<1>3. ASSUME NEW r \in adminRouter, NEW path, Matches(r, path)
      PROVE  \/ r = reset /\ Len(path) = 2 /\ path[1] = "admin" /\ path[2] = "reset"
             \/ r = authReset /\ Len(path) = 3 /\ path[1] = "admin" /\ path[2] = "auth"
                  /\ path[3] = "reset"
  <2>1. r = reset => Len(path) = 2 /\ Takes("admin", path[1]) /\ Takes("reset", path[2])
    BY <1>1, <1>2, <1>3, TakenFacts
  <2>2. r = authReset => Len(path) = 3 /\ Takes("admin", path[1]) /\ Takes("auth", path[2])
          /\ Takes("reset", path[3])
    BY <1>1, <1>2, <1>3, TakenFacts
  <2> QED BY <1>2, <1>3, <2>1, <2>2 DEF Takes, Params
<1>4. Owns(adminRouter)
  BY <1>3, OwnerOfMeta DEF Owns
<1>5. \A r \in adminRouter : \A path : Matches(r, path) => MetaPath(path)
  BY <1>3 DEF MetaPath, MetaHeads
<1>6. \A r \in adminRouter : r.closed
  BY ServedBy DEF adminRouter
<1> QED BY <1>2, <1>4, <1>5, <1>6, PatternFacts DEF Meta

LEMMA OpenapiTable == Meta(openapiRouter)
<1>2. PICK yaml, json :
        /\ openapiRouter = {yaml, json}
        /\ yaml.pattern = <<"openapi.yaml">>
        /\ json.pattern = <<"openapi.json">>
  BY PatternOf DEF openapiRouter
<1>3. ASSUME NEW r \in openapiRouter, NEW path, Matches(r, path)
      PROVE  \/ r = yaml /\ (Len(path) = 1 \/ (Len(path) = 2 /\ path[2] = Blank))
                  /\ path[1] = "openapi.yaml"
             \/ r = json /\ (Len(path) = 1 \/ (Len(path) = 2 /\ path[2] = Blank))
                  /\ path[1] = "openapi.json"
  <2>1. r = yaml => (Len(path) = 1 \/ (Len(path) = 2 /\ path[2] = Blank))
          /\ Takes("openapi.yaml", path[1])
    BY <1>2, <1>3, TakenFacts
  <2>2. r = json => (Len(path) = 1 \/ (Len(path) = 2 /\ path[2] = Blank))
          /\ Takes("openapi.json", path[1])
    BY <1>2, <1>3, TakenFacts
  <2> QED BY <1>2, <1>3, <2>1, <2>2 DEF Takes, Params
<1>4. Owns(openapiRouter)
  BY <1>3, OwnerOfMeta DEF Owns
<1>5. \A r \in openapiRouter : \A path : Matches(r, path) => MetaPath(path)
  BY <1>3 DEF MetaPath, MetaHeads
<1>6. \A r \in openapiRouter : "HEAD" \notin DOMAIN r.serves
  BY ServedBy DEF openapiRouter
<1> QED BY <1>2, <1>4, <1>5, <1>6, PatternFacts DEF Meta

\* The routes of one line for every error endpoint.
LEMMA ErrorsTable == Meta(errorsRouter)
<1>1. ASSUME NEW r \in errorsRouter
      PROVE  r.strict /\ r.closed /\ \E e \in ErrorEndpoints :
               /\ r.pattern = <<"errors", e>>
               /\ \A s \in errorsRouter : s.pattern = <<"errors", e>> => r = s
  <2>1. PICK e \in ErrorEndpoints :
          r = Route(<<"errors", e>>,
                [GET |-> Open(ErrorsController(
                            SCENARIO_FIXED_STATUS(ERROR_ENDPOINT_SCENARIOS(e))))])
    BY DEF errorsRouter
  <2>2. ASSUME NEW s \in errorsRouter, s.pattern = <<"errors", e>> PROVE r = s
    <3>1. PICK f \in ErrorEndpoints :
            s = Route(<<"errors", f>>,
                  [GET |-> Open(ErrorsController(
                            SCENARIO_FIXED_STATUS(ERROR_ENDPOINT_SCENARIOS(f))))])
      BY DEF errorsRouter
    <3>2. e = f
      BY <2>2, <3>1, PatternOf, ShortEqual
    <3> QED BY <2>1, <3>1, <3>2
  <2> QED BY <2>1, <2>2, PatternOf, StrictRoute, ServedBy
<1>2. ASSUME NEW r \in errorsRouter, NEW path, Matches(r, path)
      PROVE  /\ Len(path) = 2 /\ path[1] = "errors" /\ path[2] \in ErrorEndpoints
             /\ r.pattern = <<"errors", path[2]>>
  <2>1. PICK e \in ErrorEndpoints : r.strict /\ r.pattern = <<"errors", e>>
    BY <1>1
  <2>2. Len(path) = 2 /\ Takes("errors", path[1]) /\ Takes(e, path[2])
    BY <1>2, <2>1, TakenFacts
  <2>3. e \notin Params
    BY DEF Params, ErrorEndpoints
  <2> QED BY <2>1, <2>2, <2>3 DEF Takes, Params
<1>3. \A r, s \in errorsRouter : \A path : Matches(r, path) /\ Matches(s, path) => r = s
  BY <1>1, <1>2, ShortEqual
<1>4. Owns(errorsRouter)
  BY <1>2, <1>3, OwnerOfMeta DEF Owns
<1>5. \A r \in errorsRouter : \A path : Matches(r, path) => MetaPath(path)
  BY <1>2 DEF MetaPath, MetaHeads
<1> QED BY <1>1, <1>4, <1>5, PatternFacts DEF Meta

LEMMA InfoTable == Api(infoRouter)
<1>2. PICK get :
        /\ infoRouter = {get}
        /\ get.pattern = <<"info">>
  BY PatternOf DEF infoRouter
<1>3. Owns(infoRouter)
  BY <1>2, SoleOwns, OwnerOfApi DEF Params
<1>4. \A r \in infoRouter : r.closed /\ "GET" \in DOMAIN r.serves
  BY ServedBy DEF infoRouter
<1>5. \A r \in infoRouter : ApiPattern(r.pattern)
  BY <1>2, PatternFacts DEF ApiHeads, Params
<1> QED BY <1>3, <1>4, <1>5 DEF Api

LEMMA RoutesTable == Api(routesRouter)
<1>2. PICK get :
        /\ routesRouter = {get}
        /\ get.pattern = <<"routes">>
  BY PatternOf DEF routesRouter
<1>3. Owns(routesRouter)
  BY <1>2, SoleOwns, OwnerOfApi DEF Params
<1>4. \A r \in routesRouter : r.closed /\ "GET" \in DOMAIN r.serves
  BY ServedBy DEF routesRouter
<1>5. \A r \in routesRouter : ApiPattern(r.pattern)
  BY <1>2, PatternFacts DEF ApiHeads, Params
<1> QED BY <1>3, <1>4, <1>5 DEF Api

LEMMA UserTable == Api(userRouter)
<1>1. \A r \in userRouter : r.strict
  BY StrictRoute DEF userRouter
<1>2. PICK list, one :
        /\ userRouter = {list, one}
        /\ list.pattern = <<"users">>
        /\ one.pattern = <<"users", ":id">>
  BY PatternOf DEF userRouter
<1>3. ASSUME NEW r \in userRouter, NEW path, Matches(r, path)
      PROVE  \/ r = list /\ Len(path) = 1 /\ path[1] = "users"
             \/ r = one /\ Len(path) = 2 /\ path[1] = "users"
  <2>1. r = list => Len(path) = 1 /\ Takes("users", path[1])
    BY <1>1, <1>2, <1>3, TakenFacts
  <2>2. r = one => Len(path) = 2 /\ Takes("users", path[1])
    BY <1>1, <1>2, <1>3, TakenFacts
  <2> QED BY <1>2, <1>3, <2>1, <2>2 DEF Takes, Params
<1>4. Owns(userRouter)
  BY <1>3, OwnerOfApi DEF Owns
<1>5. \A r \in userRouter : r.closed /\ "GET" \in DOMAIN r.serves
  BY ServedBy DEF userRouter
<1>6. \A r \in userRouter : ApiPattern(r.pattern)
  BY <1>2, PatternFacts DEF ApiHeads, Params
<1> QED BY <1>4, <1>5, <1>6 DEF Api

LEMMA ProductTable == Api(productRouter)
<1>1. \A r \in productRouter : r.strict
  BY StrictRoute DEF productRouter
<1>2. PICK list, one :
        /\ productRouter = {list, one}
        /\ list.pattern = <<"products">>
        /\ one.pattern = <<"products", ":id">>
  BY PatternOf DEF productRouter
<1>3. ASSUME NEW r \in productRouter, NEW path, Matches(r, path)
      PROVE  \/ r = list /\ Len(path) = 1 /\ path[1] = "products"
             \/ r = one /\ Len(path) = 2 /\ path[1] = "products"
  <2>1. r = list => Len(path) = 1 /\ Takes("products", path[1])
    BY <1>1, <1>2, <1>3, TakenFacts
  <2>2. r = one => Len(path) = 2 /\ Takes("products", path[1])
    BY <1>1, <1>2, <1>3, TakenFacts
  <2> QED BY <1>2, <1>3, <2>1, <2>2 DEF Takes, Params
<1>4. Owns(productRouter)
  BY <1>3, OwnerOfApi DEF Owns
<1>5. \A r \in productRouter : r.closed /\ "GET" \in DOMAIN r.serves
  BY ServedBy DEF productRouter
<1>6. \A r \in productRouter : ApiPattern(r.pattern)
  BY <1>2, PatternFacts DEF ApiHeads, Params
<1> QED BY <1>4, <1>5, <1>6 DEF Api

LEMMA CustomerTable == Api(customerRouter)
<1>1. \A r \in customerRouter : r.strict
  BY StrictRoute DEF customerRouter
<1>2. PICK list, one :
        /\ customerRouter = {list, one}
        /\ list.pattern = <<"customers">>
        /\ one.pattern = <<"customers", ":id">>
  BY PatternOf DEF customerRouter
<1>3. ASSUME NEW r \in customerRouter, NEW path, Matches(r, path)
      PROVE  \/ r = list /\ Len(path) = 1 /\ path[1] = "customers"
             \/ r = one /\ Len(path) = 2 /\ path[1] = "customers"
  <2>1. r = list => Len(path) = 1 /\ Takes("customers", path[1])
    BY <1>1, <1>2, <1>3, TakenFacts
  <2>2. r = one => Len(path) = 2 /\ Takes("customers", path[1])
    BY <1>1, <1>2, <1>3, TakenFacts
  <2> QED BY <1>2, <1>3, <2>1, <2>2 DEF Takes, Params
<1>4. Owns(customerRouter)
  BY <1>3, OwnerOfApi DEF Owns
<1>5. \A r \in customerRouter : r.closed /\ "GET" \in DOMAIN r.serves
  BY ServedBy DEF customerRouter
<1>6. \A r \in customerRouter : ApiPattern(r.pattern)
  BY <1>2, PatternFacts DEF ApiHeads, Params
<1> QED BY <1>4, <1>5, <1>6 DEF Api

LEMMA OrderTable == Api(orderRouter)
<1>1. \A r \in orderRouter : r.strict
  BY StrictRoute DEF orderRouter
<1>2. PICK list, one, forUser, products :
        /\ orderRouter = {list, one, forUser, products}
        /\ list.pattern = <<"orders">>
        /\ one.pattern = <<"orders", ":id">>
        /\ forUser.pattern = <<"users", ":id", "orders">>
        /\ products.pattern = <<"orders", ":id", "products">>
  BY PatternOf, SMTT(30) DEF orderRouter
<1>3. ASSUME NEW r \in orderRouter, NEW path, Matches(r, path)
      PROVE  \/ r = list /\ Len(path) = 1 /\ path[1] = "orders"
             \/ r = one /\ Len(path) = 2 /\ path[1] = "orders"
             \/ r = forUser /\ Len(path) = 3 /\ path[1] = "users" /\ path[3] = "orders"
             \/ r = products /\ Len(path) = 3 /\ path[1] = "orders" /\ path[3] = "products"
  <2>1. r = list => Len(path) = 1 /\ Takes("orders", path[1])
    BY <1>1, <1>2, <1>3, TakenFacts
  <2>2. r = one => Len(path) = 2 /\ Takes("orders", path[1])
    BY <1>1, <1>2, <1>3, TakenFacts
  <2>3. r = forUser => Len(path) = 3 /\ Takes("users", path[1]) /\ Takes("orders", path[3])
    BY <1>1, <1>2, <1>3, TakenFacts
  <2>4. r = products => Len(path) = 3 /\ Takes("orders", path[1]) /\ Takes("products", path[3])
    BY <1>1, <1>2, <1>3, TakenFacts
  <2> QED BY <1>2, <1>3, <2>1, <2>2, <2>3, <2>4 DEF Takes, Params
<1>4. Owns(orderRouter)
  BY <1>3, OwnerOfApi DEF Owns
<1>5. \A r \in orderRouter : r.closed /\ "GET" \in DOMAIN r.serves
  BY ServedBy DEF orderRouter
<1>6. \A r \in orderRouter : ApiPattern(r.pattern)
  BY <1>2, PatternFacts DEF ApiHeads, Params
<1> QED BY <1>4, <1>5, <1>6 DEF Api

LEMMA CategoryTable == Api(categoryRouter)
<1>1. \A r \in categoryRouter : r.strict
  BY StrictRoute DEF categoryRouter
<1>2. PICK list, one, forProduct :
        /\ categoryRouter = {list, one, forProduct}
        /\ list.pattern = <<"categories">>
        /\ one.pattern = <<"categories", ":slug">>
        /\ forProduct.pattern = <<"products", ":id", "category">>
  BY PatternOf, SMTT(30) DEF categoryRouter
<1>3. ASSUME NEW r \in categoryRouter, NEW path, Matches(r, path)
      PROVE  \/ r = list /\ Len(path) = 1 /\ path[1] = "categories"
             \/ r = one /\ Len(path) = 2 /\ path[1] = "categories"
             \/ r = forProduct /\ Len(path) = 3 /\ path[1] = "products" /\ path[3] = "category"
  <2>1. r = list => Len(path) = 1 /\ Takes("categories", path[1])
    BY <1>1, <1>2, <1>3, TakenFacts
  <2>2. r = one => Len(path) = 2 /\ Takes("categories", path[1])
    BY <1>1, <1>2, <1>3, TakenFacts
  <2>3. r = forProduct => Len(path) = 3 /\ Takes("products", path[1]) /\ Takes("category", path[3])
    BY <1>1, <1>2, <1>3, TakenFacts
  <2> QED BY <1>2, <1>3, <2>1, <2>2, <2>3 DEF Takes, Params
<1>4. Owns(categoryRouter)
  BY <1>3, OwnerOfApi DEF Owns
<1>5. \A r \in categoryRouter : r.closed /\ "GET" \in DOMAIN r.serves
  BY ServedBy DEF categoryRouter
<1>6. \A r \in categoryRouter : ApiPattern(r.pattern)
  BY <1>2, PatternFacts DEF ApiHeads, Params
<1> QED BY <1>4, <1>5, <1>6 DEF Api

LEMMA PostTable == Api(postRouter)
<1>1. \A r \in postRouter : r.strict
  BY StrictRoute DEF postRouter
<1>2. PICK list, one, forUser :
        /\ postRouter = {list, one, forUser}
        /\ list.pattern = <<"posts">>
        /\ one.pattern = <<"posts", ":id">>
        /\ forUser.pattern = <<"users", ":id", "posts">>
  BY PatternOf, SMTT(30) DEF postRouter
<1>3. ASSUME NEW r \in postRouter, NEW path, Matches(r, path)
      PROVE  \/ r = list /\ Len(path) = 1 /\ path[1] = "posts"
             \/ r = one /\ Len(path) = 2 /\ path[1] = "posts"
             \/ r = forUser /\ Len(path) = 3 /\ path[1] = "users" /\ path[3] = "posts"
  <2>1. r = list => Len(path) = 1 /\ Takes("posts", path[1])
    BY <1>1, <1>2, <1>3, TakenFacts
  <2>2. r = one => Len(path) = 2 /\ Takes("posts", path[1])
    BY <1>1, <1>2, <1>3, TakenFacts
  <2>3. r = forUser => Len(path) = 3 /\ Takes("users", path[1]) /\ Takes("posts", path[3])
    BY <1>1, <1>2, <1>3, TakenFacts
  <2> QED BY <1>2, <1>3, <2>1, <2>2, <2>3 DEF Takes, Params
<1>4. Owns(postRouter)
  BY <1>3, OwnerOfApi DEF Owns
<1>5. \A r \in postRouter : r.closed /\ "GET" \in DOMAIN r.serves
  BY ServedBy DEF postRouter
<1>6. \A r \in postRouter : ApiPattern(r.pattern)
  BY <1>2, PatternFacts DEF ApiHeads, Params
<1> QED BY <1>4, <1>5, <1>6 DEF Api

LEMMA CommentTable == Api(commentRouter)
<1>1. \A r \in commentRouter : r.strict
  BY StrictRoute DEF commentRouter
<1>2. PICK list, one, forPost :
        /\ commentRouter = {list, one, forPost}
        /\ list.pattern = <<"comments">>
        /\ one.pattern = <<"comments", ":id">>
        /\ forPost.pattern = <<"posts", ":id", "comments">>
  BY PatternOf, SMTT(30) DEF commentRouter
<1>3. ASSUME NEW r \in commentRouter, NEW path, Matches(r, path)
      PROVE  \/ r = list /\ Len(path) = 1 /\ path[1] = "comments"
             \/ r = one /\ Len(path) = 2 /\ path[1] = "comments"
             \/ r = forPost /\ Len(path) = 3 /\ path[1] = "posts" /\ path[3] = "comments"
  <2>1. r = list => Len(path) = 1 /\ Takes("comments", path[1])
    BY <1>1, <1>2, <1>3, TakenFacts
  <2>2. r = one => Len(path) = 2 /\ Takes("comments", path[1])
    BY <1>1, <1>2, <1>3, TakenFacts
  <2>3. r = forPost => Len(path) = 3 /\ Takes("posts", path[1]) /\ Takes("comments", path[3])
    BY <1>1, <1>2, <1>3, TakenFacts
  <2> QED BY <1>2, <1>3, <2>1, <2>2, <2>3 DEF Takes, Params
<1>4. Owns(commentRouter)
  BY <1>3, OwnerOfApi DEF Owns
<1>5. \A r \in commentRouter : r.closed /\ "GET" \in DOMAIN r.serves
  BY ServedBy DEF commentRouter
<1>6. \A r \in commentRouter : ApiPattern(r.pattern)
  BY <1>2, PatternFacts DEF ApiHeads, Params
<1> QED BY <1>4, <1>5, <1>6 DEF Api

LEMMA ReviewTable == Api(reviewRouter)
<1>1. \A r \in reviewRouter : r.strict
  BY StrictRoute DEF reviewRouter
<1>2. PICK list, one, byRating, forProduct :
        /\ reviewRouter = {list, one, byRating, forProduct}
        /\ list.pattern = <<"reviews">>
        /\ one.pattern = <<"reviews", ":id">>
        /\ byRating.pattern = <<"reviews", "by-rating", ":rating">>
        /\ forProduct.pattern = <<"products", ":id", "reviews">>
  BY PatternOf, SMTT(30) DEF reviewRouter
<1>3. ASSUME NEW r \in reviewRouter, NEW path, Matches(r, path)
      PROVE  \/ r = list /\ Len(path) = 1 /\ path[1] = "reviews"
             \/ r = one /\ Len(path) = 2 /\ path[1] = "reviews"
             \/ r = byRating /\ Len(path) = 3 /\ path[1] = "reviews" /\ path[2] = "by-rating"
             \/ r = forProduct /\ Len(path) = 3 /\ path[1] = "products" /\ path[3] = "reviews"
  <2>1. r = list => Len(path) = 1 /\ Takes("reviews", path[1])
    BY <1>1, <1>2, <1>3, TakenFacts
  <2>2. r = one => Len(path) = 2 /\ Takes("reviews", path[1])
    BY <1>1, <1>2, <1>3, TakenFacts
  <2>3. r = byRating => Len(path) = 3 /\ Takes("reviews", path[1]) /\ Takes("by-rating", path[2])
    BY <1>1, <1>2, <1>3, TakenFacts
  <2>4. r = forProduct => Len(path) = 3 /\ Takes("products", path[1]) /\ Takes("reviews", path[3])
    BY <1>1, <1>2, <1>3, TakenFacts
  <2> QED BY <1>2, <1>3, <2>1, <2>2, <2>3, <2>4 DEF Takes, Params
<1>4. Owns(reviewRouter)
  BY <1>3, OwnerOfApi DEF Owns
<1>5. \A r \in reviewRouter : r.closed /\ "GET" \in DOMAIN r.serves
  BY ServedBy DEF reviewRouter
<1>6. \A r \in reviewRouter : ApiPattern(r.pattern)
  BY <1>2, PatternFacts DEF ApiHeads, Params
<1> QED BY <1>4, <1>5, <1>6 DEF Api

LEMMA PaymentTable == Api(paymentRouter)
<1>1. \A r \in paymentRouter : r.strict
  BY StrictRoute DEF paymentRouter
<1>2. PICK list, one, byDate :
        /\ paymentRouter = {list, one, byDate}
        /\ list.pattern = <<"payments">>
        /\ one.pattern = <<"payments", ":id">>
        /\ byDate.pattern = <<"payments", "by-date", ":date">>
  BY PatternOf, SMTT(30) DEF paymentRouter
<1>3. ASSUME NEW r \in paymentRouter, NEW path, Matches(r, path)
      PROVE  \/ r = list /\ Len(path) = 1 /\ path[1] = "payments"
             \/ r = one /\ Len(path) = 2 /\ path[1] = "payments"
             \/ r = byDate /\ Len(path) = 3 /\ path[1] = "payments" /\ path[2] = "by-date"
  <2>1. r = list => Len(path) = 1 /\ Takes("payments", path[1])
    BY <1>1, <1>2, <1>3, TakenFacts
  <2>2. r = one => Len(path) = 2 /\ Takes("payments", path[1])
    BY <1>1, <1>2, <1>3, TakenFacts
  <2>3. r = byDate => Len(path) = 3 /\ Takes("payments", path[1]) /\ Takes("by-date", path[2])
    BY <1>1, <1>2, <1>3, TakenFacts
  <2> QED BY <1>2, <1>3, <2>1, <2>2, <2>3 DEF Takes, Params
<1>4. Owns(paymentRouter)
  BY <1>3, OwnerOfApi DEF Owns
<1>5. \A r \in paymentRouter : r.closed /\ "GET" \in DOMAIN r.serves
  BY ServedBy DEF paymentRouter
<1>6. \A r \in paymentRouter : ApiPattern(r.pattern)
  BY <1>2, PatternFacts DEF ApiHeads, Params
<1> QED BY <1>4, <1>5, <1>6 DEF Api

LEMMA SearchTable == Api(searchRouter)
<1>2. PICK get :
        /\ searchRouter = {get}
        /\ get.pattern = <<"search">>
        /\ get.strict
  BY PatternOf, StrictRoute DEF searchRouter
<1>3. Owns(searchRouter)
  BY <1>2, SoleOwns, OwnerOfApi DEF Params
<1>4. \A r \in searchRouter : r.closed /\ "GET" \in DOMAIN r.serves
  BY ServedBy DEF searchRouter
<1>5. \A r \in searchRouter : ApiPattern(r.pattern)
  BY <1>2, PatternFacts DEF ApiHeads, Params
<1> QED BY <1>3, <1>4, <1>5 DEF Api

LEMMA StatusCodeTable == Api(statusCodeRouter)
<1>2. PICK demo :
        /\ statusCodeRouter = {demo}
        /\ demo.pattern = <<"status", ":code">>
        /\ demo.strict
  BY PatternOf, StrictRoute DEF statusCodeRouter
<1>3. Owns(statusCodeRouter)
  BY <1>2, SoleOwns, OwnerOfApi DEF Params
<1>4. \A r \in statusCodeRouter : r.closed /\ "GET" \in DOMAIN r.serves
  BY ServedBy DEF statusCodeRouter
<1>5. \A r \in statusCodeRouter : ApiPattern(r.pattern)
  BY <1>2, PatternFacts DEF ApiHeads, Params
<1> QED BY <1>3, <1>4, <1>5 DEF Api

LEMMA TestScenarioTable == Api(testScenarioRouter)
<1>2. PICK get :
        /\ testScenarioRouter = {get}
        /\ get.pattern = <<"test">>
        /\ get.strict
  BY PatternOf, StrictRoute DEF testScenarioRouter
<1>3. Owns(testScenarioRouter)
  BY <1>2, SoleOwns, OwnerOfApi DEF Params
<1>4. \A r \in testScenarioRouter : r.closed /\ "GET" \in DOMAIN r.serves
  BY ServedBy DEF testScenarioRouter
<1>5. \A r \in testScenarioRouter : ApiPattern(r.pattern)
  BY <1>2, PatternFacts DEF ApiHeads, Params
<1> QED BY <1>3, <1>4, <1>5 DEF Api

LEMMA ProtectedTable == Api(protectedRouter)
<1>2. PICK get :
        /\ protectedRouter = {get}
        /\ get.pattern = <<"protected">>
        /\ get.strict
  BY PatternOf, StrictRoute DEF protectedRouter
<1>3. Owns(protectedRouter)
  BY <1>2, SoleOwns, OwnerOfApi DEF Params
<1>4. \A r \in protectedRouter : r.closed /\ "GET" \in DOMAIN r.serves
  BY ServedBy DEF protectedRouter
<1>5. \A r \in protectedRouter : ApiPattern(r.pattern)
  BY <1>2, PatternFacts DEF ApiHeads, Params
<1> QED BY <1>3, <1>4, <1>5 DEF Api

LEMMA RoleTable == Api(roleRouter)
<1>2. PICK demo :
        /\ roleRouter = {demo}
        /\ demo.pattern = <<"role", ":role">>
        /\ demo.strict
  BY PatternOf, StrictRoute DEF roleRouter
<1>3. Owns(roleRouter)
  BY <1>2, SoleOwns, OwnerOfApi DEF Params
<1>4. \A r \in roleRouter : r.closed /\ "GET" \in DOMAIN r.serves
  BY ServedBy DEF roleRouter
<1>5. \A r \in roleRouter : ApiPattern(r.pattern)
  BY <1>2, PatternFacts DEF ApiHeads, Params
<1> QED BY <1>3, <1>4, <1>5 DEF Api

LEMMA ScopeTable == Api(scopeRouter)
<1>2. PICK demo :
        /\ scopeRouter = {demo}
        /\ demo.pattern = <<"scope", ":scope">>
        /\ demo.strict
  BY PatternOf, StrictRoute DEF scopeRouter
<1>3. Owns(scopeRouter)
  BY <1>2, SoleOwns, OwnerOfApi DEF Params
<1>4. \A r \in scopeRouter : r.closed /\ "GET" \in DOMAIN r.serves
  BY ServedBy DEF scopeRouter
<1>5. \A r \in scopeRouter : ApiPattern(r.pattern)
  BY <1>2, PatternFacts DEF ApiHeads, Params
<1> QED BY <1>3, <1>4, <1>5 DEF Api

\* Every router that app.ts mounts is one of the two kinds.
LEMMA AllMeta == \A i \in DOMAIN metaRouters : Meta(metaRouters[i])
BY HealthTable, VersionTable, AuthTable, ApiKeyTable, BasicAuthTable, DelayTable,
   PayloadTable, ContentTable, HeadersTable, CookiesTable, RateLimitTable, FlakyTable,
   CacheTable, FilesTable, AdminTable, OpenapiTable, ErrorsTable DEF metaRouters

LEMMA AllApi == \A i \in DOMAIN apiRouters : Api(apiRouters[i])
BY InfoTable, RoutesTable, UserTable, ProductTable, CustomerTable, OrderTable,
   CategoryTable, PostTable, CommentTable, ReviewTable, PaymentTable, SearchTable,
   StatusCodeTable, TestScenarioTable, ProtectedTable, RoleTable, ScopeTable DEF
   apiRouters

-----------------------------------------------------------------------------
(* Finding. *)

\* A route found in a list of routers that own their paths is the one that is taken,
\* whatever the order.
LEMMA FirstIs ==
  ASSUME NEW routers, NEW n \in Nat, DOMAIN routers = 1 .. n, \A i \in 1 .. n : Owns(routers[i]),
         NEW m, NEW path, NEW i \in 1 .. n, NEW r \in Taking(routers[i], m, path)
  PROVE  FirstRoute(routers, m, path) = r
<1> DEFINE taking(j) == Taking(routers[j], m, path)
           found == UNION {taking(k) : k \in {k \in DOMAIN routers :
                                                \A j \in 1 .. k - 1 : taking(j) = {}}}
<1>1. ASSUME NEW j \in 1 .. n, NEW s \in taking(j) PROVE s = r
  <2>1. /\ r \in routers[i] /\ Matches(r, path)
        /\ s \in routers[j] /\ Matches(s, path)
    BY <1>1 DEF Taking
  <2>2. Owner(path) = routers[i] /\ Owner(path) = routers[j]
    BY <2>1 DEF Owns
  <2> QED BY <2>1, <2>2 DEF Owns
<1>2. r \in found
  <2> DEFINE taken == {k \in 1 .. n : taking(k) # {}}
  <2>1. PICK k \in taken : \A j \in taken : k <= j
    <3>1. taken \in SUBSET Nat /\ i \in taken
      OBVIOUS
    <3> QED BY <3>1, LeastNat
  <2>2. r \in taking(k)
    BY <1>1, <2>1
  <2>3. \A j \in 1 .. k - 1 : taking(j) = {}
    BY <2>1
  <2> QED BY <2>1, <2>2, <2>3
<1>3. \A s \in found : s = r
  BY <1>1
<1>4. FirstRoute(routers, m, path) = IF found = {} THEN NoRoute ELSE CHOOSE s \in found : TRUE
  BY DEF FirstRoute
<1> HIDE DEF found
<1> QED BY <1>2, <1>3, <1>4

LEMMA FirstIsNone ==
  ASSUME NEW routers, NEW m, NEW path,
         \A i \in DOMAIN routers : \A r \in routers[i] : ~ Matches(r, path)
  PROVE  FirstRoute(routers, m, path) = NoRoute
BY DEF FirstRoute, Taking

\* The lists of app.ts.
LEMMA MetaFirst ==
  ASSUME NEW m, NEW path, NEW i \in DOMAIN metaRouters, NEW r \in Taking(metaRouters[i], m, path)
  PROVE  FirstRoute(metaRouters, m, path) = r /\ r # NoRoute
<1>1. DOMAIN metaRouters = 1 .. 17
  BY DEF metaRouters
<1>2. \A j \in 1 .. 17 : Owns(metaRouters[j])
  BY <1>1, AllMeta DEF Meta
<1>3. FirstRoute(metaRouters, m, path) = r
  BY <1>1, <1>2, FirstIs
<1>4. Short(r.pattern)
  BY AllMeta DEF Meta, Taking
<1>5. Len(NoRoute.pattern) = 0
  BY DEF NoRoute
<1> QED BY <1>3, <1>4, <1>5 DEF Short

LEMMA ApiFirst ==
  ASSUME NEW m, NEW path, NEW i \in DOMAIN apiRouters, NEW r \in Taking(apiRouters[i], m, path)
  PROVE  FirstRoute(apiRouters, m, path) = r
<1>1. DOMAIN apiRouters = 1 .. 17
  BY DEF apiRouters
<1>2. \A j \in 1 .. 17 : Owns(apiRouters[j])
  BY <1>1, AllApi DEF Api
<1> QED BY <1>1, <1>2, FirstIs

\* No meta endpoint takes a path that does not look like one of theirs.
LEMMA NoMeta ==
  ASSUME NEW m, NEW path, ~ MetaPath(path)
  PROVE  FirstRoute(metaRouters, m, path) = NoRoute
<1>1. \A i \in DOMAIN metaRouters : \A r \in metaRouters[i] : ~ Matches(r, path)
  BY AllMeta DEF Meta
<1> QED BY <1>1, FirstIsNone

-----------------------------------------------------------------------------
(* The path a pattern is sampled with. *)

LEMMA SampleFacts ==
  ASSUME NEW pattern, Short(pattern)
  PROVE  /\ Short(Sample(pattern)) /\ Len(Sample(pattern)) = Len(pattern)
         /\ \A i \in 1 .. Len(pattern) :
              Sample(pattern)[i] = IF pattern[i] \in Params THEN "1" ELSE pattern[i]
         /\ Fits(pattern, Sample(pattern))
<1>1. PICK S : pattern \in Seq(S)
  BY DEF Short
<1>2. Len(pattern) \in 1 .. 3 /\ DOMAIN pattern = 1 .. Len(pattern)
  BY <1>1 DEF Short
<1>3. PICK n \in Nat : n = Len(pattern)
  <2>1. Len(pattern) \in Nat
    BY <1>1
  <2> QED BY <2>1
<1>4. PICK T : T = S \cup {"1"}
  OBVIOUS
<1>5. Sample(pattern) = [i \in 1 .. n |-> IF pattern[i] \in Params THEN "1" ELSE pattern[i]]
  BY <1>2, <1>3 DEF Sample
<1>6. \A i \in 1 .. n : (IF pattern[i] \in Params THEN "1" ELSE pattern[i]) \in T
  BY <1>1, <1>3, <1>4
<1>7. Sample(pattern) \in Seq(T) /\ Len(Sample(pattern)) = n
  BY <1>5, <1>6
<1>8. \A i \in 1 .. n : Sample(pattern)[i] = IF pattern[i] \in Params THEN "1" ELSE pattern[i]
  BY <1>5
<1>9. Fits(pattern, Sample(pattern))
  BY <1>3, <1>7, <1>8 DEF Fits
<1> QED BY <1>2, <1>3, <1>7, <1>8, <1>9 DEF Short

\* The segments of a sampled path of the API.
LEMMA ApiSample ==
  ASSUME NEW pattern, ApiPattern(pattern)
  PROVE  /\ Sample(pattern)[1] = pattern[1] /\ Sample(pattern)[1] \in ApiHeads
         /\ Len(pattern) > 1 => Sample(pattern)[Len(pattern)] \in
              {"1", "orders", "products", "category", "posts", "comments", "reviews"}
<1>1. Short(pattern) /\ Len(pattern) \in 1 .. 3 /\ pattern[1] \in ApiHeads
  BY DEF ApiPattern, Short
<1>2. \A h \in ApiHeads : h \notin Params
  BY DEF ApiHeads, Params
<1>3. Sample(pattern)[1] = pattern[1]
  BY <1>1, <1>2, SampleFacts
<1>4. ASSUME Len(pattern) > 1
      PROVE  Sample(pattern)[Len(pattern)] \in
               {"1", "orders", "products", "category", "posts", "comments", "reviews"}
  <2>1. PICK last : last = pattern[Len(pattern)]
    OBVIOUS
  <2>2. last \in Params \cup {"orders", "products", "category", "posts", "comments", "reviews"}
    BY <1>4, <2>1 DEF ApiPattern
  <2>3. Sample(pattern)[Len(pattern)] = IF last \in Params THEN "1" ELSE last
    BY <1>1, <2>1, SampleFacts
  <2> QED BY <2>2, <2>3
<1> QED BY <1>1, <1>3, <1>4

\* It is served by its own router.
LEMMA SampleTaken ==
  ASSUME NEW router, NEW r \in router, NEW m, r.closed \/ Serves(r, m),
         NEW path, Fits(r.pattern, path)
  PROVE  r \in Taking(router, m, path)
BY DEF Taking, Matches

-----------------------------------------------------------------------------
(* The prefix of the API. *)

\* A path in two.
LEMMA CutFacts ==
  ASSUME NEW S, NEW path \in Seq(S), NEW front \in Seq(S), NEW rest \in Seq(S),
         NEW n \in Nat, NEW k \in Nat, Len(front) = n, Len(rest) = k, Len(path) = n + k,
         \A i \in 1 .. n : path[i] = front[i],
         \A i \in 1 .. k : path[n + i] = rest[i]
  PROVE  SubSeq(path, 1, n) = front /\ SubSeq(path, n + 1, n + k) = rest
<1>0. \A i \in 1 .. n + k : path[i] \in S
  OBVIOUS
<1>1. SubSeq(path, 1, n) = front
  <2>1. \A i \in 1 .. n : path[i] \in S
    BY <1>0
  <2>2. /\ SubSeq(path, 1, n) \in Seq(S)
        /\ Len(SubSeq(path, 1, n)) = IF 1 <= n THEN n - 1 + 1 ELSE 0
        /\ \A i \in 1 .. n - 1 + 1 : SubSeq(path, 1, n)[i] = path[1 + i - 1]
    BY <2>1, SubSeqProperties
  <2>3. PICK cut : cut = SubSeq(path, 1, n)
    OBVIOUS
  <2>4. cut \in Seq(S) /\ Len(cut) = n /\ \A i \in 1 .. n : cut[i] = front[i]
    BY <2>2, <2>3
  <2> QED BY <2>3, <2>4, SeqEqual
<1>2. SubSeq(path, n + 1, n + k) = rest
  <2>0. PICK a \in Nat, b \in Nat : a = n + 1 /\ b = n + k
    OBVIOUS
  <2>1. \A i \in a .. b : path[i] \in S
    BY <1>0, <2>0
  <2>2. /\ SubSeq(path, a, b) \in Seq(S)
        /\ Len(SubSeq(path, a, b)) = IF a <= b THEN b - a + 1 ELSE 0
        /\ \A i \in 1 .. b - a + 1 : SubSeq(path, a, b)[i] = path[a + i - 1]
    BY <2>1, SubSeqProperties
  <2>3. PICK cut : cut = SubSeq(path, a, b)
    OBVIOUS
  <2>4. cut \in Seq(S) /\ Len(cut) = k /\ \A i \in 1 .. k : cut[i] = path[n + i]
    BY <2>0, <2>2, <2>3
  <2> QED BY <2>0, <2>3, <2>4, SeqEqual
<1> QED BY <1>1, <1>2

LEMMA BelowIs ==
  \A mount, path : \A rest : rest = SubSeq(path, Len(mount) + 1, Len(path)) =>
    Below(mount, path) =
      IF mount # <<>> /\ Len(rest) > 1 /\ rest[1] = Blank THEN Tail(rest) ELSE rest
BY Zenon DEF Below, Blank

LEMMA BelowSlashed ==
  ASSUME NEW mount, NEW path, NEW tail, tail = SubSeq(path, Len(mount) + 1, Len(path)),
         mount # <<>>, Len(tail) > 1, tail[1] = Blank
  PROVE  Below(mount, path) = Tail(tail)
BY Zenon DEF Below, Blank

\* What app.use makes of a path below the mount point.
LEMMA BelowFacts ==
  ASSUME NEW S, NEW mount \in Seq(S), NEW rest \in Seq(S), Len(rest) > 0, rest[1] # Blank
  PROVE  /\ Under(mount, mount \o rest)
         /\ Below(mount, mount \o rest) = rest
<1>1. /\ mount \o rest \in Seq(S) /\ Len(mount \o rest) = Len(mount) + Len(rest)
      /\ \A i \in 1 .. Len(mount) + Len(rest) :
           (mount \o rest)[i] = IF i <= Len(mount) THEN mount[i] ELSE rest[i - Len(mount)]
  BY ConcatProperties
<1>2. PICK path : path = mount \o rest
  OBVIOUS
<1>3. Len(mount) \in Nat /\ Len(rest) \in Nat
  BY LenProperties
<1>4. PICK n \in Nat, k \in Nat : n = Len(mount) /\ k = Len(rest) /\ k > 0
  BY <1>3
<1>5. /\ path \in Seq(S) /\ Len(path) = n + k
      /\ \A i \in 1 .. n : path[i] = mount[i]
      /\ \A i \in 1 .. k : path[n + i] = rest[i]
  BY <1>1, <1>2, <1>4
<1>6. SubSeq(path, 1, n) = mount /\ SubSeq(path, n + 1, n + k) = rest
  <2>1. Len(mount) = n /\ Len(rest) = k /\ n \in Nat /\ k \in Nat
    BY <1>4
  <2> QED BY <1>5, <2>1, CutFacts
<1>7. Under(mount, path)
  BY <1>4, <1>5, <1>6 DEF Under
<1>8. Below(mount, path) = rest
  <2>1. rest = SubSeq(path, Len(mount) + 1, Len(path))
    BY <1>4, <1>5, <1>6
  <2> QED BY <2>1, BelowIs
<1> QED BY <1>2, <1>7, <1>8

\* A second slash may follow it.
LEMMA BelowSlash ==
  ASSUME NEW S, Blank \in S, NEW mount \in Seq(S), Len(mount) > 0,
         NEW rest \in Seq(S), Len(rest) > 0,
         NEW path \in Seq(S), Len(path) = Len(mount) + 1 + Len(rest),
         \A i \in 1 .. Len(mount) : path[i] = mount[i],
         path[Len(mount) + 1] = Blank,
         \A i \in 1 .. Len(rest) : path[Len(mount) + 1 + i] = rest[i]
  PROVE  Under(mount, path) /\ Below(mount, path) = rest
<1>1. Len(mount) \in Nat /\ Len(rest) \in Nat
  BY LenProperties
<1>2. PICK n \in Nat, k \in Nat : n = Len(mount) /\ n > 0 /\ k = Len(rest) /\ k > 0
  BY <1>1
<1>3. PICK tail : tail = <<Blank>> \o rest
  OBVIOUS
<1>4. <<Blank>> \in Seq(S) /\ Len(<<Blank>>) = 1 /\ <<Blank>>[1] = Blank
  OBVIOUS
<1>5. PICK slash \in Seq(S) : slash = <<Blank>> /\ Len(slash) = 1 /\ slash[1] = Blank
  BY <1>4
<1>6. /\ slash \o rest \in Seq(S) /\ Len(slash \o rest) = Len(slash) + Len(rest)
      /\ \A i \in 1 .. Len(slash) + Len(rest) :
           (slash \o rest)[i] = IF i <= Len(slash) THEN slash[i] ELSE rest[i - Len(slash)]
  BY ConcatProperties
<1>7. tail \in Seq(S) /\ Len(tail) = 1 + k /\ tail[1] = Blank
        /\ \A i \in 1 .. k : tail[1 + i] = rest[i]
  BY <1>2, <1>3, <1>5, <1>6
<1>8. \A i \in 1 .. 1 + k : path[n + i] = tail[i]
  <2>1. ASSUME NEW i \in 1 .. 1 + k, i # 1 PROVE path[n + i] = tail[i]
    <3>1. PICK j \in 1 .. k : i = 1 + j
      <4>1. i - 1 \in 1 .. k /\ i = 1 + (i - 1)
        BY <1>2, <2>1
      <4> QED BY <4>1
    <3> QED BY <1>2, <1>7, <3>1
  <2> QED BY <1>2, <1>7, <2>1
<1>9. SubSeq(path, 1, n) = mount /\ SubSeq(path, n + 1, n + (1 + k)) = tail
  <2>1. PICK l \in Nat : l = 1 + k
    BY <1>2
  <2>2. Len(path) = n + l
    BY <1>2, <2>1
  <2>5. Len(tail) = l /\ \A i \in 1 .. l : path[n + i] = tail[i]
    BY <1>7, <1>8, <2>1
  <2>3. Len(mount) = n /\ n \in Nat /\ \A i \in 1 .. n : path[i] = mount[i]
    BY <1>2
  <2>4. SubSeq(path, 1, n) = mount /\ SubSeq(path, n + 1, n + l) = tail
    BY <1>7, <2>1, <2>2, <2>3, <2>5, CutFacts
  <2> QED BY <2>1, <2>4
<1>10. Tail(tail) = rest
  <2>1. tail # <<>>
    BY <1>2, <1>7
  <2>2. Tail(tail) \in Seq(S) /\ Len(Tail(tail)) = k
          /\ \A i \in 1 .. k : Tail(tail)[i] = tail[i + 1]
    BY <1>2, <1>7, <2>1, HeadTailProperties
  <2>3. PICK t : t = Tail(tail)
    OBVIOUS
  <2>4. t \in Seq(S) /\ Len(t) = k /\ \A i \in 1 .. k : t[i] = rest[i]
    BY <1>2, <1>7, <2>2, <2>3
  <2> QED BY <1>2, <2>3, <2>4, SeqEqual
<1>11. Len(path) = n + (1 + k)
  BY <1>2
<1>12. Under(mount, path)
  BY <1>2, <1>9, <1>11 DEF Under
<1>13. mount # <<>>
  BY <1>2, EmptySeq
<1>14. Below(mount, path) = rest
  <2>1. tail = SubSeq(path, Len(mount) + 1, Len(path))
    BY <1>2, <1>9, <1>11
  <2>2. Len(tail) > 1 /\ tail[1] = Blank
    BY <1>2, <1>7
  <2> QED BY <1>10, <1>13, <2>1, <2>2, BelowSlashed
<1> QED BY <1>12, <1>14

LEMMA MountIs ==
  \A prefix : MountPoint(prefix) =
    IF prefix # <<>> /\ prefix[Len(prefix)] = Blank THEN SubSeq(prefix, 1, Len(prefix) - 1)
    ELSE prefix
BY Zenon DEF MountPoint, Blank

\* A prefix is the path it is mounted at, or that and a slash.
LEMMA MountFacts ==
  ASSUME NEW prefix \in Prefixes
  PROVE  /\ MountPoint(prefix) \in Seq(STRING)
         /\ \/ prefix = MountPoint(prefix)
            \/ /\ Len(prefix) = Len(MountPoint(prefix)) + 1 /\ prefix[Len(prefix)] = Blank
               /\ \A i \in 1 .. Len(MountPoint(prefix)) : prefix[i] = MountPoint(prefix)[i]
         /\ prefix \in Seq(STRING) /\ Len(prefix) > 0
<1>1. prefix \in Seq(STRING) /\ prefix # <<>>
  BY ConfigAssumption DEF Prefixes
<1>2. Len(prefix) \in Nat \ {0}
  BY <1>1, EmptySeq
<1>3. PICK n \in Nat : Len(prefix) = n + 1
  <2>1. Len(prefix) - 1 \in Nat /\ Len(prefix) = Len(prefix) - 1 + 1
    BY <1>2
  <2> QED BY <2>1
<1>4. CASE prefix[Len(prefix)] = Blank
  <2>1. MountPoint(prefix) = SubSeq(prefix, 1, n)
    <3>1. MountPoint(prefix) = SubSeq(prefix, 1, Len(prefix) - 1)
      BY <1>1, <1>4, MountIs
    <3> QED BY <1>3, <3>1
  <2>2. \A i \in 1 .. n : prefix[i] \in STRING
    BY <1>1, <1>3, ElementOfSeq
  <2>3. /\ SubSeq(prefix, 1, n) \in Seq(STRING)
        /\ Len(SubSeq(prefix, 1, n)) = n
        /\ \A i \in 1 .. n : SubSeq(prefix, 1, n)[i] = prefix[i]
    <3>1. /\ SubSeq(prefix, 1, n) \in Seq(STRING)
          /\ Len(SubSeq(prefix, 1, n)) = IF 1 <= n THEN n - 1 + 1 ELSE 0
          /\ \A i \in 1 .. n - 1 + 1 : SubSeq(prefix, 1, n)[i] = prefix[1 + i - 1]
      BY <1>3, <2>2, SubSeqProperties
    <3> QED BY <1>3, <3>1
  <2>4. PICK mount : mount = MountPoint(prefix)
    OBVIOUS
  <2>5. mount \in Seq(STRING) /\ Len(mount) = n /\ \A i \in 1 .. n : mount[i] = prefix[i]
    BY <2>1, <2>3, <2>4
  <2> QED BY <1>1, <1>2, <1>3, <1>4, <2>4, <2>5
<1>5. CASE prefix[Len(prefix)] # Blank
  <2>1. MountPoint(prefix) = prefix
    BY <1>5, MountIs
  <2> QED BY <1>1, <1>2, <2>1
<1> QED BY <1>4, <1>5

\* A short path below a mount point, segment by segment.
LEMMA PlacedFacts ==
  ASSUME NEW mount \in Seq(STRING), NEW rest, Short(rest),
         NEW path, path = mount \o rest
  PROVE  /\ Len(mount) \in Nat /\ Len(rest) \in 1 .. 3 /\ Len(path) = Len(mount) + Len(rest)
         /\ path[Len(path)] = rest[Len(rest)]
         /\ path[1] = IF Len(mount) = 0 THEN rest[1] ELSE mount[1]
<1>1. PICK S : rest \in Seq(S)
  BY DEF Short
<1>2. PICK T : T = S \cup STRING
  OBVIOUS
<1>3. mount \in Seq(T) /\ rest \in Seq(T)
  BY <1>1, <1>2, SeqMonotonic
<1>4. PICK n \in Nat, k \in 1 .. 3 : n = Len(mount) /\ k = Len(rest)
  <2>1. Len(mount) \in Nat /\ Len(rest) \in 1 .. 3
    BY <1>3, LenProperties DEF Short
  <2> QED BY <2>1
<1>5. /\ mount \o rest \in Seq(T) /\ Len(mount \o rest) = Len(mount) + Len(rest)
      /\ \A i \in 1 .. Len(mount) + Len(rest) :
           (mount \o rest)[i] = IF i <= Len(mount) THEN mount[i] ELSE rest[i - Len(mount)]
  BY <1>3, ConcatProperties
<1>6. /\ Len(path) = n + k
      /\ \A i \in 1 .. n + k : path[i] = IF i <= n THEN mount[i] ELSE rest[i - n]
  BY <1>4, <1>5
<1>7. path[n + k] = rest[k]
  <2>1. PICK i \in 1 .. n + k : i = n + k /\ ~ (i <= n) /\ i - n = k
    <3>1. n + k \in 1 .. n + k /\ ~ (n + k <= n) /\ n + k - n = k
      BY <1>4
    <3> QED BY <3>1
  <2>2. path[i] = rest[k]
    BY <1>6, <2>1
  <2> QED BY <2>1, <2>2
<1>8. path[1] = IF n = 0 THEN rest[1] ELSE mount[1]
  <2>1. 1 \in 1 .. n + k
    BY <1>4
  <2> QED BY <1>4, <1>6, <2>1
<1> QED BY <1>4, <1>6, <1>7, <1>8

LEMMA PlacedBelow ==
  \A mount \in Seq(STRING) : \A rest, path :
    Short(rest) /\ rest[1] # Blank /\ path = mount \o rest =>
      Under(mount, path) /\ Below(mount, path) = rest
<1> SUFFICES ASSUME NEW mount \in Seq(STRING), NEW rest, Short(rest), rest[1] # Blank
             PROVE  Under(mount, mount \o rest) /\ Below(mount, mount \o rest) = rest
  OBVIOUS
<1>1. PICK S : rest \in Seq(S)
  BY DEF Short
<1>2. PICK T : T = S \cup STRING
  OBVIOUS
<1>3. mount \in Seq(T) /\ rest \in Seq(T)
  BY <1>1, <1>2, SeqMonotonic
<1>4. Len(rest) > 0
  BY DEF Short
<1> QED BY <1>3, <1>4, BelowFacts

LEMMA SingleFacts == \A S : \A s \in Seq(S) : Len(s) = 1 => s = <<s[1]>>
OBVIOUS

\* What Swagger UI takes is told by the first segment.
LEMMA DocsFacts ==
  \A S : \A path \in Seq(S) : Len(path) > 0 => (Under(<<"docs">>, path) <=> path[1] = "docs")
<1> SUFFICES ASSUME NEW S, NEW path \in Seq(S), Len(path) > 0
             PROVE  Under(<<"docs">>, path) <=> path[1] = "docs"
  OBVIOUS
<1>1. PICK docs : docs = <<"docs">>
  OBVIOUS
<1>2. Len(docs) = 1 /\ docs[1] = "docs"
  BY <1>1
<1>3. SubSeq(path, 1, 1) = <<path[1]>>
  <2>1. PICK front : front = <<path[1]>>
    OBVIOUS
  <2>2. PICK n \in Nat : Len(path) = 1 + n
    <3>1. Len(path) \in Nat
      BY LenProperties
    <3>2. Len(path) - 1 \in Nat /\ Len(path) = 1 + (Len(path) - 1)
      BY <3>1
    <3> QED BY <3>2
  <2>3. \A i \in 1 .. 1 : path[i] = front[i] /\ path[i] \in S
    <3>1. path[1] \in S
      BY <2>2, ElementOfSeq
    <3> QED BY <2>1, <3>1
  <2>4. front \in Seq(S) /\ Len(front) = 1
    BY <2>1, <2>3
  <2>5. /\ SubSeq(path, 1, 1) \in Seq(S) /\ Len(SubSeq(path, 1, 1)) = 1
        /\ SubSeq(path, 1, 1)[1] = path[1]
    <3>1. /\ SubSeq(path, 1, 1) \in Seq(S)
          /\ Len(SubSeq(path, 1, 1)) = IF 1 <= 1 THEN 1 - 1 + 1 ELSE 0
          /\ \A i \in 1 .. 1 - 1 + 1 : SubSeq(path, 1, 1)[i] = path[1 + i - 1]
      BY <2>3, SubSeqProperties
    <3> QED BY <3>1
  <2>6. PICK cut : cut = SubSeq(path, 1, 1)
    OBVIOUS
  <2>7. cut \in Seq(S) /\ Len(cut) = 1 /\ cut[1] = path[1]
    BY <2>5, <2>6
  <2>8. cut = <<cut[1]>>
    BY <2>7, SingleFacts
  <2> QED BY <2>6, <2>7, <2>8
<1>4. Len(path) >= 1
  BY LenProperties
<1>5. Under(docs, path) <=> <<path[1]>> = docs
  BY <1>2, <1>3, <1>4 DEF Under
<1>6. <<path[1]>> = docs <=> path[1] = "docs"
  BY <1>1
<1> QED BY <1>1, <1>5, <1>6

LEMMA NotUnderDocs == \A path : Len(path) = 0 => ~ Under(<<"docs">>, path)
<1>1. Len(<<"docs">>) = 1
  OBVIOUS
<1> QED BY <1>1 DEF Under

\* So a path of the API is Swagger UI's if its mount point is.
LEMMA PlacedDocs ==
  ASSUME NEW mount \in Seq(STRING), NEW rest, Short(rest), rest[1] \in ApiHeads,
         NEW path, path = mount \o rest
  PROVE  Under(<<"docs">>, path) <=> Under(<<"docs">>, mount)
<1>1. /\ Len(mount) \in Nat /\ Len(rest) \in 1 .. 3 /\ Len(path) = Len(mount) + Len(rest)
      /\ path[1] = IF Len(mount) = 0 THEN rest[1] ELSE mount[1]
  BY PlacedFacts
<1>2. PICK T : path \in Seq(T)
  <2>1. PICK S : rest \in Seq(S)
    BY DEF Short
  <2>2. PICK T : T = S \cup STRING
    OBVIOUS
  <2>3. mount \in Seq(T) /\ rest \in Seq(T)
    BY <2>1, <2>2, SeqMonotonic
  <2> QED BY <2>3, ConcatProperties
<1>3. Under(<<"docs">>, path) <=> path[1] = "docs"
  <2>1. Len(path) > 0
    BY <1>1
  <2> QED BY <1>2, <2>1, DocsFacts
<1>4. CASE Len(mount) = 0
  <2>1. "docs" \notin ApiHeads
    BY DEF ApiHeads
  <2> QED BY <1>1, <1>3, <1>4, <2>1, NotUnderDocs
<1>5. CASE Len(mount) # 0
  <2>1. Len(mount) > 0
    BY <1>1, <1>5
  <2>2. Under(<<"docs">>, mount) <=> mount[1] = "docs"
    BY <2>1, DocsFacts
  <2> QED BY <1>1, <1>3, <1>5, <2>2
<1> QED BY <1>4, <1>5

\* A path of the API that a meta endpoint takes: one segment after the name of a meta
\* endpoint with a parameter, or /api-key/protected.
LEMMA MetaUnderPrefix ==
  ASSUME NEW mount \in Seq(STRING), NEW rest, Short(rest), rest[1] \in ApiHeads,
         Len(rest) > 1 => rest[Len(rest)] \notin {Blank, "revoke", "reset"},
         NEW path, path = mount \o rest, MetaPath(path)
  PROVE  /\ Len(rest) = 1 /\ Len(mount) = 1
         /\ \/ mount[1] \in {"delay", "payload", "content", "files"}
            \/ mount[1] = "api-key" /\ rest[1] = "protected"
<1>1. /\ Len(mount) \in Nat /\ Len(rest) \in 1 .. 3 /\ Len(path) = Len(mount) + Len(rest)
      /\ path[Len(path)] = rest[Len(rest)]
      /\ path[1] = IF Len(mount) = 0 THEN rest[1] ELSE mount[1]
  BY PlacedFacts
<1>2. /\ Blank \notin ApiHeads
      /\ \A h \in ApiHeads :
           /\ h \notin MetaHeads \cup {"revoke", "reset"} \cup ErrorEndpoints
           /\ h \notin {"live", "ready", "login", "logout", "refresh", "me", "token",
                        "token-info", "api-key", "basic", "resource", "reset"}
  BY BlankFacts DEF ApiHeads, MetaHeads, ErrorEndpoints
<1>3. Len(mount) # 0
  BY <1>1, <1>2 DEF MetaPath
<1>4. Len(path) # 3
  <2> SUFFICES ASSUME Len(path) = 3 PROVE FALSE
    OBVIOUS
  <2>1. rest[Len(rest)] \in {Blank, "revoke", "reset"}
    BY <1>1 DEF MetaPath
  <2>2. ~ (Len(rest) > 1)
    BY <2>1
  <2>3. Len(rest) = 1
    <3>1. PICK k \in 1 .. 3 : k = Len(rest)
      BY DEF Short
    <3>2. ~ (k > 1) => k = 1
      BY <3>1
    <3> QED BY <2>2, <3>1, <3>2
  <2> QED BY <1>2, <2>1, <2>3
<1>5. Len(path) = 2 /\ Len(mount) = 1 /\ Len(rest) = 1
  BY <1>1, <1>3, <1>4 DEF MetaPath
<1>6. path[1] = mount[1] /\ path[2] = rest[1]
  BY <1>1, <1>5
<1> QED BY <1>2, <1>5, <1>6 DEF MetaPath

-----------------------------------------------------------------------------
(* Every route is reached. *)

\* A route of a meta endpoint is reached under any prefix.
LEMMA MetaReached ==
  ASSUME NEW prefix, NEW r \in MetaRoutes, NEW m \in DOMAIN r.serves
  PROVE  RouteOf(prefix, m, Sample(r.pattern)) = r
<1>0. CASE r = swaggerUi
  <2>1. r.pattern = <<"docs">>
    BY <1>0, PatternOf DEF swaggerUi
  <2>2. PICK path : path = Sample(r.pattern)
    OBVIOUS
  <2>3. /\ Short(path) /\ Len(path) = 1 /\ path[1] = "docs"
    <3>1. "docs" \notin Params
      BY DEF Params
    <3>2. PICK p : p = r.pattern
      OBVIOUS
    <3>3. Short(p) /\ Len(p) = 1 /\ p[1] = "docs"
      <4>1. Len(p) = 1 /\ p[1] = "docs"
        BY <2>1, <3>2
      <4>2. Short(<<"docs">>)
        BY PatternFacts
      <4> QED BY <2>1, <3>2, <4>1, <4>2
    <3>4. /\ Short(path) /\ Len(path) = Len(p)
          /\ \A i \in 1 .. Len(p) : path[i] = IF p[i] \in Params THEN "1" ELSE p[i]
      BY <2>2, <3>2, <3>3, SampleFacts
    <3> QED BY <3>1, <3>3, <3>4
  <2>4. Under(<<"docs">>, path)
    <3>1. PICK S : path \in Seq(S)
      BY <2>3 DEF Short
    <3> QED BY <2>3, <3>1, DocsFacts
  <2>5. ~ MetaPath(path)
    BY <2>3 DEF MetaPath, MetaHeads
  <2>6. FirstRoute(metaRouters, m, path) = NoRoute
    BY <2>5, NoMeta
  <2> QED BY <1>0, <2>2, <2>4, <2>6 DEF RouteOf
<1> SUFFICES ASSUME r \notin {swaggerUi} PROVE RouteOf(prefix, m, Sample(r.pattern)) = r
  BY <1>0
<1>1. PICK i \in DOMAIN metaRouters : r \in metaRouters[i]
  <2>1. PICK mounted : mounted = UNION {metaRouters[i] : i \in DOMAIN metaRouters}
    OBVIOUS
  <2>2. MetaRoutes = {swaggerUi} \cup mounted
    BY <2>1 DEF MetaRoutes
  <2>3. r \in mounted
    BY <2>2
  <2> QED BY <2>1, <2>3
<1>2. Short(r.pattern) /\ (r.closed \/ "HEAD" \notin DOMAIN r.serves)
  BY <1>1, AllMeta DEF Meta
<1>3. r.closed \/ Serves(r, m)
  BY <1>2 DEF Serves
<1>4. PICK path : path = Sample(r.pattern)
  OBVIOUS
<1>5. Fits(r.pattern, path)
  BY <1>2, <1>4, SampleFacts
<1>6. r \in Taking(metaRouters[i], m, path)
  BY <1>1, <1>3, <1>5, SampleTaken
<1>7. FirstRoute(metaRouters, m, path) = r /\ r # NoRoute
  BY <1>1, <1>6, MetaFirst
<1> QED BY <1>4, <1>7 DEF RouteOf

\* So is a route of the API, by a path that neither a meta endpoint nor Swagger UI takes.
LEMMA ApiReached ==
  ASSUME NEW prefix, NEW r \in ApiRoutes, NEW m, NEW path, NEW rest,
         Under(MountPoint(prefix), path), Below(MountPoint(prefix), path) = rest,
         Fits(r.pattern, rest), ~ MetaPath(path), ~ Under(<<"docs">>, path)
  PROVE  RouteOf(prefix, m, path) = r
<1>1. PICK i \in DOMAIN apiRouters : r \in apiRouters[i]
  BY DEF ApiRoutes
<1>2. r.closed
  BY <1>1, AllApi DEF Api
<1>3. r \in Taking(apiRouters[i], m, rest)
  BY <1>1, <1>2, SampleTaken
<1>4. FirstRoute(apiRouters, m, rest) = r
  BY <1>1, <1>3, ApiFirst
<1>5. FirstRoute(metaRouters, m, path) = NoRoute
  BY NoMeta
<1> QED BY <1>4, <1>5 DEF RouteOf

\* The meta endpoints with a parameter, and the protected one.
LEMMA TakersOfTwo ==
  /\ \A h \in {"delay", "payload", "content", "files"} :
       \E i \in DOMAIN metaRouters : \E s \in metaRouters[i], p \in Params :
         s.pattern = <<h, p>> /\ s.closed
  /\ \E i \in DOMAIN metaRouters : \E s \in metaRouters[i] :
       s.pattern = <<"api-key", "protected">> /\ s.closed
<1>1. /\ DOMAIN metaRouters = 1 .. 17
      /\ metaRouters[4] = apiKeyRouter /\ metaRouters[6] = delayRouter
      /\ metaRouters[7] = payloadRouter /\ metaRouters[8] = contentRouter
      /\ metaRouters[14] = filesRouter
  BY DEF metaRouters
<1>2. \E s \in apiKeyRouter : s.pattern = <<"api-key", "protected">> /\ s.closed
  BY PatternOf, ServedBy DEF apiKeyRouter
<1>3. \E s \in delayRouter : s.pattern = <<"delay", ":ms">> /\ s.closed
  BY PatternOf, ServedBy DEF delayRouter
<1>4. \E s \in payloadRouter : s.pattern = <<"payload", ":preset">> /\ s.closed
  BY PatternOf, ServedBy DEF payloadRouter
<1>5. \E s \in contentRouter : s.pattern = <<"content", ":type">> /\ s.closed
  BY PatternOf, ServedBy DEF contentRouter
<1>6. \E s \in filesRouter : s.pattern = <<"files", ":id">> /\ s.closed
  BY PatternOf, ServedBy DEF filesRouter
<1>7. /\ \E i \in DOMAIN metaRouters : \E s \in metaRouters[i], p \in Params :
           s.pattern = <<"delay", p>> /\ s.closed
      /\ \E i \in DOMAIN metaRouters : \E s \in metaRouters[i], p \in Params :
           s.pattern = <<"payload", p>> /\ s.closed
  BY <1>1, <1>3, <1>4 DEF Params
<1>8. /\ \E i \in DOMAIN metaRouters : \E s \in metaRouters[i], p \in Params :
           s.pattern = <<"content", p>> /\ s.closed
      /\ \E i \in DOMAIN metaRouters : \E s \in metaRouters[i], p \in Params :
           s.pattern = <<"files", p>> /\ s.closed
  BY <1>1, <1>5, <1>6 DEF Params
<1>9. \E i \in DOMAIN metaRouters : \E s \in metaRouters[i] :
        s.pattern = <<"api-key", "protected">> /\ s.closed
  BY <1>1, <1>2
<1> QED BY <1>7, <1>8, <1>9

\* The prefixes that put a route of the API behind a meta endpoint.
Shadowed(prefix, r) ==
  \/ BehindDocs(prefix)
  \/ /\ Len(r.pattern) = 1
     /\ MountPoint(prefix) \in {<<"delay">>, <<"payload">>, <<"content">>, <<"files">>}
  \/ r.pattern = <<"protected">> /\ MountPoint(prefix) = <<"api-key">>

\* Below /docs Swagger UI answers.
LEMMA BehindDocsFacts ==
  ASSUME NEW prefix \in Prefixes, NEW r \in ApiRoutes, BehindDocs(prefix)
  PROVE  RouteOf(prefix, "GET", MountPoint(prefix) \o Sample(r.pattern)) # r
<1>1. ApiPattern(r.pattern) /\ r.closed
  BY AllApi DEF ApiRoutes, Api
<1>2. PICK rest : rest = Sample(r.pattern)
  OBVIOUS
<1>3. PICK mount \in Seq(STRING) : mount = MountPoint(prefix)
  BY MountFacts
<1>4. PICK path : path = mount \o rest
  OBVIOUS
<1>5. Short(rest) /\ rest[1] \in ApiHeads
  BY <1>1, <1>2, SampleFacts, ApiSample DEF ApiPattern
<1>6. Under(<<"docs">>, mount)
  BY <1>3 DEF BehindDocs
<1>7. Under(<<"docs">>, path)
  BY <1>4, <1>5, <1>6, PlacedDocs
<1>8. ~ MetaPath(path)
  <2>1. /\ Len(mount) \in Nat
        /\ path[1] = IF Len(mount) = 0 THEN rest[1] ELSE mount[1]
    BY <1>4, <1>5, PlacedFacts
  <2>2. Len(mount) # 0
    BY <1>6, NotUnderDocs
  <2>3. Len(mount) > 0
    BY <2>1, <2>2
  <2>4. mount[1] = "docs"
    BY <1>6, <2>3, DocsFacts
  <2>5. path[1] = "docs"
    BY <2>1, <2>2, <2>4
  <2> QED BY <2>5 DEF MetaPath, MetaHeads
<1>9. RouteOf(prefix, "GET", path) = swaggerUi
  <2>1. FirstRoute(metaRouters, "GET", path) = NoRoute
    BY <1>8, NoMeta
  <2> QED BY <1>7, <2>1 DEF RouteOf
<1>10. ~ swaggerUi.closed
  BY DEF swaggerUi, UnclosedRoute, LenientRoute, Route
<1>11. path = MountPoint(prefix) \o Sample(r.pattern)
  BY <1>2, <1>3, <1>4
<1> QED BY <1>1, <1>9, <1>10, <1>11

\* Elsewhere a meta endpoint does.
LEMMA ShadowedFacts ==
  ASSUME NEW prefix \in Prefixes, NEW r \in ApiRoutes, Shadowed(prefix, r), ~ BehindDocs(prefix)
  PROVE  RouteOf(prefix, "GET", MountPoint(prefix) \o Sample(r.pattern)) # r
<1>1. ApiPattern(r.pattern)
  BY AllApi DEF ApiRoutes, Api
<1>2. PICK rest : rest = Sample(r.pattern)
  OBVIOUS
<1>3. PICK mount \in Seq(STRING) : mount = MountPoint(prefix)
  BY MountFacts
<1>4. PICK path : path = mount \o rest
  OBVIOUS
<1>5. Len(r.pattern) = 1
  <2>1. Len(<<"protected">>) = 1
    OBVIOUS
  <2> QED BY <2>1 DEF Shadowed
<1>6. Short(rest) /\ Len(rest) = 1 /\ rest[1] = r.pattern[1] /\ rest[1] \in ApiHeads
  BY <1>1, <1>2, <1>5, SampleFacts, ApiSample DEF ApiPattern
<1>7. PICK h \in {"delay", "payload", "content", "files", "api-key"} :
        /\ mount = <<h>>
        /\ h = "api-key" => r.pattern = <<"protected">>
  BY <1>3 DEF Shadowed
<1>8. Len(mount) = 1 /\ mount[1] = h
  <2>1. \A a : Len(<<a>>) = 1 /\ <<a>>[1] = a
    OBVIOUS
  <2> QED BY <1>7, <2>1
<1>9. Len(path) = 2 /\ path[1] = h /\ path[2] = rest[1]
  <2>1. /\ Len(path) = Len(mount) + Len(rest) /\ path[Len(path)] = rest[Len(rest)]
        /\ path[1] = IF Len(mount) = 0 THEN rest[1] ELSE mount[1]
    BY <1>4, <1>6, PlacedFacts
  <2>2. Len(path) = 2
    BY <1>6, <1>8, <2>1
  <2> QED BY <1>6, <1>8, <2>1, <2>2
<1>10. \E i \in DOMAIN metaRouters : \E s \in metaRouters[i] :
         s.closed /\ Len(s.pattern) = 2 /\ Fits(s.pattern, path)
  <2>1. \A a, b : Len(<<a, b>>) = 2
    OBVIOUS
  <2>2. CASE h # "api-key"
    <3>1. PICK i \in DOMAIN metaRouters : \E s \in metaRouters[i], p \in Params :
            s.pattern = <<h, p>> /\ s.closed
      BY <1>7, <2>2, TakersOfTwo
    <3>2. PICK s \in metaRouters[i], p \in Params : s.pattern = <<h, p>> /\ s.closed
      BY <3>1
    <3>3. Takes(h, path[1]) /\ Takes(p, path[2])
      BY <1>6, <1>9, BlankFacts, <3>2 DEF Takes
    <3>4. Fits(<<h, p>>, path)
      BY <1>9, <3>3, FitsTwo
    <3> QED BY <2>1, <3>1, <3>2, <3>4
  <2>3. CASE h = "api-key"
    <3>1. PICK i \in DOMAIN metaRouters : \E s \in metaRouters[i] :
            s.pattern = <<"api-key", "protected">> /\ s.closed
      BY TakersOfTwo
    <3>2. PICK s \in metaRouters[i] : s.pattern = <<"api-key", "protected">> /\ s.closed
      BY <3>1
    <3>3. \A a : <<a>>[1] = a
      OBVIOUS
    <3>4. rest[1] = "protected"
      BY <1>6, <1>7, <2>3, <3>3
    <3>5. Takes("api-key", path[1]) /\ Takes("protected", path[2])
      BY <1>9, <2>3, <3>4 DEF Takes
    <3> QED BY <1>9, <2>1, <3>1, <3>2, <3>5, FitsTwo
  <2> QED BY <2>2, <2>3
<1>11. PICK i \in DOMAIN metaRouters : \E s \in metaRouters[i] :
         s.closed /\ Len(s.pattern) = 2 /\ Fits(s.pattern, path)
  BY <1>10
<1>12. PICK s \in metaRouters[i] : s.closed /\ Len(s.pattern) = 2 /\ Fits(s.pattern, path)
  BY <1>11
<1>13. s \in Taking(metaRouters[i], "GET", path)
  BY <1>12, SampleTaken
<1>14. FirstRoute(metaRouters, "GET", path) = s /\ s # NoRoute
  BY <1>11, <1>13, MetaFirst
<1>15. RouteOf(prefix, "GET", path) = s
  BY <1>14 DEF RouteOf
<1>16. s # r
  <2>1. Len(s.pattern) # Len(r.pattern)
    BY <1>5, <1>12
  <2> QED BY <2>1
<1>17. path = MountPoint(prefix) \o Sample(r.pattern)
  BY <1>2, <1>3, <1>4
<1> QED BY <1>15, <1>16, <1>17

\* For the others the route itself does.
LEMMA ClearFacts ==
  ASSUME NEW prefix \in Prefixes, NEW r \in ApiRoutes, ~ Shadowed(prefix, r), NEW m
  PROVE  RouteOf(prefix, m, MountPoint(prefix) \o Sample(r.pattern)) = r
<1>1. ApiPattern(r.pattern)
  BY AllApi DEF ApiRoutes, Api
<1>2. PICK rest : rest = Sample(r.pattern)
  OBVIOUS
<1>3. PICK mount \in Seq(STRING) : mount = MountPoint(prefix)
  BY MountFacts
<1>4. PICK path : path = mount \o rest
  OBVIOUS
<1>5. /\ Short(rest) /\ Len(rest) = Len(r.pattern) /\ Fits(r.pattern, rest)
      /\ rest[1] \in ApiHeads /\ rest[1] = r.pattern[1]
  BY <1>1, <1>2, SampleFacts, ApiSample DEF ApiPattern
<1>6. Len(rest) > 1 => rest[Len(rest)] \notin {Blank, "revoke", "reset"}
  BY <1>1, <1>2, <1>5, ApiSample, BlankFacts
<1>7. Under(mount, path) /\ Below(mount, path) = rest
  <2>1. rest[1] # Blank
    BY <1>5, BlankFacts
  <2>2. Short(rest)
    BY <1>5
  <2>3. mount \in Seq(STRING) /\ path = mount \o rest
    BY <1>3, <1>4
  <2> QED BY <2>1, <2>2, <2>3, PlacedBelow
<1>8. ~ MetaPath(path)
  <2> SUFFICES ASSUME MetaPath(path) PROVE FALSE
    OBVIOUS
  <2>1. /\ Len(rest) = 1 /\ Len(mount) = 1
        /\ \/ mount[1] \in {"delay", "payload", "content", "files"}
           \/ mount[1] = "api-key" /\ rest[1] = "protected"
    BY <1>4, <1>5, <1>6, MetaUnderPrefix
  <2>2. mount = <<mount[1]>>
    BY <1>3, <2>1, SingleFacts
  <2>3. r.pattern = <<r.pattern[1]>>
    <3>1. PICK S : r.pattern \in Seq(S)
      BY <1>1 DEF ApiPattern, Short
    <3> QED BY <1>5, <2>1, <3>1, SingleFacts
  <2> QED BY <1>3, <1>5, <2>1, <2>2, <2>3 DEF Shadowed
<1>9. ~ Under(<<"docs">>, path)
  <2>1. ~ Under(<<"docs">>, mount)
    BY <1>3 DEF Shadowed, BehindDocs
  <2> QED BY <1>4, <1>5, <2>1, PlacedDocs
<1> QED BY <1>2, <1>3, <1>4, <1>5, <1>7, <1>8, <1>9, ApiReached

\* Under every prefix a server can be configured with.
LEMMA ReachedUnder ==
  ASSUME NEW prefix \in Prefixes
  PROVE  Unreached[prefix] = {r \in ApiRoutes : Shadowed(prefix, r)}
<1>1. \A r \in MetaRoutes : \A m \in DOMAIN r.serves :
        RouteOf(prefix, m, Sample(r.pattern)) = r
  BY MetaReached
<1>2. \A r \in ApiRoutes : "GET" \in DOMAIN r.serves
  BY AllApi DEF ApiRoutes, Api
<1>3. Unreached[prefix] =
        {r \in MetaRoutes : \E m \in DOMAIN r.serves :
                              RouteOf(prefix, m, Sample(r.pattern)) # r} \cup
        {r \in ApiRoutes : \E m \in DOMAIN r.serves :
                             RouteOf(prefix, m, MountPoint(prefix) \o Sample(r.pattern)) # r}
  BY DEF Unreached
<1>4. ASSUME NEW r \in ApiRoutes
      PROVE  (\E m \in DOMAIN r.serves :
                RouteOf(prefix, m, MountPoint(prefix) \o Sample(r.pattern)) # r)
               <=> Shadowed(prefix, r)
  BY <1>2, BehindDocsFacts, ShadowedFacts, ClearFacts
<1> QED BY <1>1, <1>3, <1>4

\* Wherever API_PREFIX puts the API and whatever is requested, no route hides another
\* but for those prefixes: shown for every prefix, route and method, where the run
\* tries a handful of prefixes.
THEOREM RoutesReached == Spec => []EveryRouteReached
<1>1. TypeOK => EveryRouteReached
  <2> SUFFICES ASSUME TypeOK PROVE EveryRouteReached
    OBVIOUS
  <2>1. config.prefix \in Prefixes
    BY DEF TypeOK, Prefixes
  <2> QED BY <2>1, ReachedUnder DEF EveryRouteReached, Shadowed
<1>2. Spec => []TypeOK
  BY TypeCorrect
<1> QED BY <1>1, <1>2, PTL

-----------------------------------------------------------------------------
(* Redirects lead back. *)

\* The segment the second part of a pattern stands for.
LEMMA ArgumentFacts ==
  ASSUME NEW prefix, NEW route, NEW path, NEW rest,
         \A i \in DOMAIN metaRouters : route \notin metaRouters[i],
         Below(MountPoint(prefix), path) = rest,
         {i \in DOMAIN route.pattern : route.pattern[i] \in Params} = {2}
  PROVE  ArgumentOf(prefix, route, path) = rest[2]
<1>1. (CHOOSE i \in {2} : TRUE) = 2
  OBVIOUS
<1>2. {2} # {}
  OBVIOUS
<1> QED BY <1>1, <1>2, Zenon DEF ArgumentOf

\* The route of the demo, which takes the code of a path.
LEMMA DemoFacts ==
  \E demo \in ApiRoutes :
    /\ demo \in statusCodeRouter
    /\ demo.pattern = <<"status", ":code">>
    /\ Accepts(EntryOf(demo, "GET").handler.parser, "200")
<1>1. PICK demo :
        /\ demo = Route(<<"status", ":code">>,
                    [GET |-> Open(StatusCodeController(DOCUMENTED_STATUS_CODES).get)])
        /\ statusCodeRouter = {demo}
  BY DEF statusCodeRouter
<1>2. demo \in ApiRoutes
  <2>1. 13 \in DOMAIN apiRouters /\ apiRouters[13] = statusCodeRouter
    BY DEF apiRouters
  <2> QED BY <1>1, <2>1 DEF ApiRoutes
<1>3. EntryOf(demo, "GET") = Open(StatusCodeController(DOCUMENTED_STATUS_CODES).get)
  BY <1>1, ServedBy DEF EntryOf
<1>4. EntryOf(demo, "GET").handler.parser = "statusCode"
  BY <1>3 DEF Open, Through, StatusCodeController, Demo, Handler
<1>5. Accepts("statusCode", "200")
  <2>1. Accepts("statusCode", "200") = parseStatusCodeParam("200")
    BY DEF Accepts
  <2>2. NumberOf("200") = 200
    BY DEF NumberOf
  <2>3. parseStatusCodeParam("200")
    BY <2>2 DEF parseStatusCodeParam, DOCUMENTED_STATUS_CODES
  <2> QED BY <2>1, <2>3
<1> QED BY <1>1, <1>2, <1>4, <1>5, PatternOf

\* Where the Location of a redirect leads.
LEMMA TargetFacts ==
  ASSUME NEW prefix \in Prefixes, prefix # <<Blank>>, ~ BehindDocs(prefix),
         NEW rest, rest = <<"status", "200">>, NEW path, path = prefix \o rest
  PROVE  /\ Under(MountPoint(prefix), path) /\ Below(MountPoint(prefix), path) = rest
         /\ ~ MetaPath(path) /\ ~ Under(<<"docs">>, path)
<1>1. Short(rest) /\ Len(rest) = 2 /\ rest[1] = "status" /\ rest[2] = "200"
  <2>1. \A a, b : Len(<<a, b>>) = 2 /\ <<a, b>>[1] = a /\ <<a, b>>[2] = b
    OBVIOUS
  <2> QED BY <2>1, PatternFacts
<1>2. rest[1] \in ApiHeads /\ rest[1] # Blank /\ rest[2] \notin {Blank, "revoke", "reset"}
  BY <1>1, BlankFacts DEF ApiHeads
<1>3. PICK mount \in Seq(STRING) :
        /\ mount = MountPoint(prefix)
        /\ \/ prefix = mount
           \/ /\ Len(prefix) = Len(mount) + 1 /\ prefix[Len(prefix)] = Blank
              /\ \A i \in 1 .. Len(mount) : prefix[i] = mount[i]
  BY MountFacts
<1>4. prefix \in Seq(STRING)
  BY MountFacts
<1>5. CASE prefix = mount
  <2>1. Under(mount, path) /\ Below(mount, path) = rest
    BY <1>1, <1>2, <1>3, <1>5, PlacedBelow
  <2>2. ~ MetaPath(path)
    BY <1>1, <1>2, <1>3, <1>5, MetaUnderPrefix
  <2>3. ~ Under(<<"docs">>, path)
    <3>1. ~ Under(<<"docs">>, mount)
      BY <1>3 DEF BehindDocs
    <3> QED BY <1>1, <1>2, <1>3, <1>5, <3>1, PlacedDocs
  <2> QED BY <1>2, <1>3, <2>1, <2>2, <2>3
<1>6. CASE prefix # mount
  <2>1. PICK n \in Nat : n = Len(mount)
    <3>1. Len(mount) \in Nat
      BY LenProperties
    <3> QED BY <3>1
  <2>2. Len(prefix) = n + 1 /\ prefix[n + 1] = Blank /\ \A i \in 1 .. n : prefix[i] = mount[i]
    BY <1>3, <1>6, <2>1
  <2>3. n > 0
    <3> SUFFICES ASSUME n = 0 PROVE FALSE
      BY <2>1
    <3>1. Len(prefix) = 1 /\ prefix[1] = Blank
      BY <2>2
    <3> QED BY <1>4, <3>1, SingleFacts
  <2>4. PICK T : Seq(STRING) \subseteq Seq(T) /\ rest \in Seq(T) /\ Blank \in T
    <3>1. PICK S : rest \in Seq(S)
      BY <1>1 DEF Short
    <3>2. PICK T : T = S \cup STRING \cup {Blank}
      OBVIOUS
    <3>3. \A s \in Seq(STRING) : s \in Seq(T)
      BY <3>2, SeqMonotonic
    <3>4. rest \in Seq(T)
      BY <3>1, <3>2, SeqMonotonic
    <3> QED BY <3>2, <3>3, <3>4
  <2>5. prefix \in Seq(T) /\ mount \in Seq(T)
    BY <1>4, <2>4
  <2>6. /\ path \in Seq(T) /\ Len(path) = n + 1 + 2
        /\ \A i \in 1 .. n + 1 : path[i] = prefix[i]
        /\ \A i \in 1 .. 2 : path[n + 1 + i] = rest[i]
    <3>1. /\ prefix \o rest \in Seq(T) /\ Len(prefix \o rest) = Len(prefix) + Len(rest)
          /\ \A i \in 1 .. Len(prefix) + Len(rest) :
               (prefix \o rest)[i] = IF i <= Len(prefix) THEN prefix[i] ELSE rest[i - Len(prefix)]
      BY <2>4, <2>5, ConcatProperties
    <3> QED BY <1>1, <2>1, <2>2, <3>1
  <2>7. \A i \in 1 .. n : path[i] = mount[i]
    BY <2>1, <2>2, <2>6
  <2>8. path[n + 1] = Blank
    BY <2>1, <2>2, <2>6
  <2>9. Under(mount, path) /\ Below(mount, path) = rest
    <3>1. Len(mount) > 0 /\ Len(rest) > 0 /\ Len(path) = Len(mount) + 1 + Len(rest)
      BY <1>1, <2>1, <2>3, <2>6
    <3>2. path[Len(mount) + 1] = Blank /\ \A i \in 1 .. Len(mount) : path[i] = mount[i]
      BY <2>1, <2>7, <2>8
    <3>3. \A i \in 1 .. Len(rest) : path[Len(mount) + 1 + i] = rest[i]
      BY <1>1, <2>1, <2>6
    <3> QED BY <2>4, <2>5, <2>6, <3>1, <3>2, <3>3, BelowSlash
  <2>10. Len(path) > 3
    BY <2>1, <2>3, <2>6
  <2>11. ~ MetaPath(path)
    BY <2>10 DEF MetaPath
  <2>12. ~ Under(<<"docs">>, path)
    <3>1. ~ Under(<<"docs">>, mount)
      BY <1>3 DEF BehindDocs
    <3>2. Len(mount) > 0 /\ Len(path) > 0
      BY <2>1, <2>3, <2>6
    <3>3. mount[1] # "docs"
      BY <2>5, <3>1, <3>2, DocsFacts
    <3>4. path[1] = mount[1]
      <4>1. 1 \in 1 .. n
        BY <2>3
      <4> QED BY <2>7, <4>1
    <3> QED BY <2>6, <3>2, <3>3, <3>4, DocsFacts
  <2> QED BY <1>3, <2>9, <2>11, <2>12
<1> QED BY <1>5, <1>6

\* So it is answered by the demo, and with a code that is documented.
LEMMA RedirectFacts ==
  ASSUME NEW prefix \in Prefixes, prefix # <<Blank>>, ~ BehindDocs(prefix)
  PROVE  LET path == RedirectTarget(prefix)
             route == RouteOf(prefix, "GET", path)
         IN  /\ route \in statusCodeRouter
             /\ Accepts(EntryOf(route, "GET").handler.parser, ArgumentOf(prefix, route, path))
<1>1. PICK demo \in ApiRoutes :
        /\ demo \in statusCodeRouter
        /\ demo.pattern = <<"status", ":code">>
        /\ Accepts(EntryOf(demo, "GET").handler.parser, "200")
  BY DemoFacts
<1>2. PICK rest : rest = <<"status", "200">>
  OBVIOUS
<1>3. PICK path : path = prefix \o rest
  OBVIOUS
<1>4. Len(rest) = 2 /\ rest[1] = "status" /\ rest[2] = "200"
  BY <1>2
<1>5. /\ Under(MountPoint(prefix), path) /\ Below(MountPoint(prefix), path) = rest
      /\ ~ MetaPath(path) /\ ~ Under(<<"docs">>, path)
  BY <1>2, <1>3, TargetFacts
<1>6. Fits(demo.pattern, rest)
  <2>1. Takes("status", rest[1]) /\ Takes(":code", rest[2])
    BY <1>4, BlankFacts DEF Takes, Params
  <2> QED BY <1>1, <1>4, <2>1, FitsTwo
<1>7. RouteOf(prefix, "GET", path) = demo
  BY <1>5, <1>6, ApiReached
<1>8. \A i \in DOMAIN metaRouters : demo \notin metaRouters[i]
  <2> SUFFICES ASSUME NEW i \in DOMAIN metaRouters, demo \in metaRouters[i] PROVE FALSE
    OBVIOUS
  <2>1. MetaPath(rest)
    BY <1>6, AllMeta DEF Meta, Matches
  <2>2. rest[1] \in MetaHeads
    BY <2>1 DEF MetaPath
  <2> QED BY <1>4, <2>2 DEF MetaHeads
<1>9. {i \in DOMAIN demo.pattern : demo.pattern[i] \in Params} = {2}
  <2>1. PICK p : p = demo.pattern
    OBVIOUS
  <2>2. DOMAIN p = {1, 2} /\ p[1] = "status" /\ p[2] = ":code"
    BY <1>1, <2>1
  <2>3. "status" \notin Params /\ ":code" \in Params
    BY DEF Params
  <2> QED BY <2>1, <2>2, <2>3
<1>10. ArgumentOf(prefix, demo, path) = "200"
  BY <1>4, <1>5, <1>8, <1>9, ArgumentFacts
<1>11. path = RedirectTarget(prefix)
  BY <1>2, <1>3 DEF RedirectTarget
<1> QED BY <1>1, <1>7, <1>10, <1>11

\* A redirect demo leads to the demo of 200, for every prefix but the lone slash and
\* those that start with /docs, with or without a slash at its end.
THEOREM RedirectsLead == Spec => []RedirectsResolve
<1>1. TypeOK => RedirectsResolve
  <2> SUFFICES ASSUME TypeOK, config.prefix # <<Blank>>, ~ BehindDocs(config.prefix)
               PROVE  LET path == RedirectTarget(config.prefix)
                          route == RouteOf(config.prefix, "GET", path)
                      IN  /\ route \in statusCodeRouter
                          /\ Accepts(EntryOf(route, "GET").handler.parser,
                                     ArgumentOf(config.prefix, route, path))
    BY Zenon DEF RedirectsResolve, Blank
  <2>1. config.prefix \in Prefixes
    BY DEF TypeOK, Prefixes
  <2> QED BY <2>1, RedirectFacts
<1>2. Spec => []TypeOK
  BY TypeCorrect
<1> QED BY <1>1, <1>2, PTL

-----------------------------------------------------------------------------
(* The registry. *)

\* A handler that says neither 401 nor 403 of its own.
Harmless(handler) ==
  /\ handler.does \notin {"logout", "revoke", "tokenInfo"}
  /\ handler.answers \cap {401, 403} = {}
  /\ handler.on \in Resource =>
       handler.does \in {"list", "get", "create", "replace", "patch", "delete"}

\* What is served behind the gates that the authentication listed stands for.
Guarded(auth, gates) ==
  \/ auth.type = "jwt" /\ gates = <<authenticate>>
  \/ auth.type = "role" /\ auth.detail # ":role"
       /\ gates = <<authenticate, requireRole(auth.detail)>>
  \/ /\ auth.type = "role" /\ auth.detail = ":role"
     /\ gates = <<validateRoleParam, authenticate, requireMatchingRole>>
  \/ auth.type = "scope" /\ auth.detail # ":scope"
       /\ gates = <<authenticate, requireScope(auth.detail)>>
  \/ /\ auth.type = "scope" /\ auth.detail = ":scope"
     /\ gates = <<validateScopeParam, authenticate, requireMatchingScope>>
  \/ auth.type = "apiKey" /\ gates = <<apiKeyAuth>>
  \/ auth.type = "basic" /\ gates = <<basicAuth>>
  \/ auth.type = "adminToken" /\ gates = <<adminAuth>>

Honest(auth, served) ==
  \/ auth.type = "none" /\ served.gates = <<>>
  \/ Guarded(auth, served.gates) /\ Harmless(served.handler)

\* A router keeps what an entry of the registry says of one of its routes.
Keeps(router, method, pattern, auth) ==
  \E r \in router : /\ r.pattern = pattern
                    /\ method \in DOMAIN r.serves /\ Honest(auth, r.serves[method])

LEMMA AuthFacts ==
  /\ \A type, detail : Auth(type, detail).type = type /\ Auth(type, detail).detail = detail
  /\ \A type : Plain(type).type = type /\ Plain(type).detail = Blank
  /\ None.type = "none" /\ Jwt.type = "jwt"
BY Zenon DEF Auth, Plain, None, Jwt, Blank

LEMMA OpenHonest == \A handler : Honest(None, Open(handler))
BY AuthFacts DEF Honest, Open, Through

LEMMA ScopedHonest ==
  \A scope, handler :
    scope # ":scope" /\ Harmless(handler) => Honest(Scope(scope), Scoped(scope, handler))
BY AuthFacts DEF Honest, Guarded, Scoped, Through, Scope

LEMMA ThroughHonest ==
  \A auth, gates, handler :
    Guarded(auth, gates) /\ Harmless(handler) => Honest(auth, Through(gates, handler))
BY DEF Honest, Through

\* The gates of the routes that name no scope of their own.
LEMMA GuardedFacts ==
  /\ Guarded(Jwt, <<authenticate>>)
  /\ Guarded(Plain("apiKey"), <<apiKeyAuth>>)
  /\ Guarded(Plain("basic"), <<basicAuth>>)
  /\ Guarded(Plain("adminToken"), <<adminAuth>>)
  /\ Guarded(Auth("role", "admin"), <<authenticate, requireRole("admin")>>)
  /\ Guarded(Auth("role", ":role"), <<validateRoleParam, authenticate, requireMatchingRole>>)
  /\ Guarded(Auth("scope", ":scope"), <<validateScopeParam, authenticate, requireMatchingScope>>)
BY AuthFacts DEF Guarded

\* The handlers of the core resources.
CoreHandlers(controller) ==
  /\ Harmless(controller.list) /\ Harmless(controller.get) /\ Harmless(controller.create)
  /\ Harmless(controller.replace) /\ Harmless(controller.patch) /\ Harmless(controller.delete)

LEMMA CoreHarmless ==
  /\ CoreHandlers(UserController) /\ CoreHandlers(ProductController)
  /\ CoreHandlers(CustomerController) /\ CoreHandlers(OrderController)
  /\ Harmless(OrderController.forUser) /\ Harmless(OrderController.products)
<1> USE DEF CoreHandlers, Harmless, Resource, Handler, List, Nested, Get, Create, Replace, Patch,
            Delete
<1>1. CoreHandlers(UserController) /\ CoreHandlers(ProductController)
  BY DEF UserController, ProductController
<1>2. CoreHandlers(CustomerController)
  BY DEF CustomerController
<1>3. /\ CoreHandlers(OrderController)
      /\ Harmless(OrderController.forUser) /\ Harmless(OrderController.products)
  BY DEF OrderController
<1> QED BY <1>1, <1>2, <1>3

LEMMA PlainHarmless ==
  /\ Harmless(AuthController.me) /\ Harmless(ApiKeyController.protected)
  /\ Harmless(BasicAuthController.demo) /\ Harmless(ProtectedController.get)
  /\ Harmless(RoleController.demo) /\ Harmless(ScopeController.demo)
  /\ Harmless(AdminController.reset) /\ Harmless(AdminController.authReset)
<1> USE DEF Harmless, Resource, Handler, Demo
<1>1. Harmless(AuthController.me)
  BY DEF AuthController
<1>2. /\ Harmless(ApiKeyController.protected)
      /\ Harmless(BasicAuthController.demo) /\ Harmless(ProtectedController.get)
  BY DEF ApiKeyController, BasicAuthController, ProtectedController
<1>3. Harmless(RoleController.demo) /\ Harmless(ScopeController.demo)
  BY DEF RoleController, ScopeController
<1>4. Harmless(AdminController.reset) /\ Harmless(AdminController.authReset)
  BY DEF AdminController
<1> QED BY <1>1, <1>2, <1>3, <1>4

\* Some router keeps what an entry says, under the path it lists.
Backed(e) ==
  /\ e.method # "OPTIONS"
  /\ \/ \E i \in DOMAIN metaRouters : Keeps(metaRouters[i], e.method, e.path, e.auth)
     \/ \E i \in DOMAIN apiRouters :
          \E pattern : e.path = V1(pattern) /\ Keeps(apiRouters[i], e.method, pattern, e.auth)

LEMMA MetaBacked ==
  \A i \in DOMAIN metaRouters : \A method, path, auth :
    method # "OPTIONS" /\ Keeps(metaRouters[i], method, path, auth) =>
      Backed(Listed(method, path, auth))
BY DEF Backed, Listed

LEMMA ApiBacked ==
  \A i \in DOMAIN apiRouters : \A method, pattern, auth :
    method # "OPTIONS" /\ Keeps(apiRouters[i], method, pattern, auth) =>
      Backed(Listed(method, V1(pattern), auth))
BY DEF Backed, Listed

LEMMA InfoBacked ==
  Backed(Listed("GET", V1(<<"info">>), None))
<1>1. Keeps(infoRouter, "GET", <<"info">>, None)
  BY PatternOf, ServedBy, OpenHonest DEF Keeps, infoRouter
<1>2. 1 \in DOMAIN apiRouters /\ apiRouters[1] = infoRouter
  BY DEF apiRouters
<1> QED BY <1>1, <1>2, ApiBacked

LEMMA RoutesBacked ==
  Backed(Listed("GET", V1(<<"routes">>), None))
<1>1. Keeps(routesRouter, "GET", <<"routes">>, None)
  BY PatternOf, ServedBy, OpenHonest DEF Keeps, routesRouter
<1>2. 2 \in DOMAIN apiRouters /\ apiRouters[2] = routesRouter
  BY DEF apiRouters
<1> QED BY <1>1, <1>2, ApiBacked

LEMMA UserBacked ==
  /\ Backed(Listed("GET", V1(<<"users">>), Scope("users:read")))
  /\ Backed(Listed("POST", V1(<<"users">>), Scope("users:write")))
  /\ Backed(Listed("GET", V1(<<"users", ":id">>), Scope("users:read")))
  /\ Backed(Listed("PUT", V1(<<"users", ":id">>), Scope("users:write")))
  /\ Backed(Listed("PATCH", V1(<<"users", ":id">>), Scope("users:write")))
  /\ Backed(Listed("DELETE", V1(<<"users", ":id">>), Scope("users:execute")))
<1>1. /\ Keeps(userRouter, "GET", <<"users">>, Scope("users:read"))
      /\ Keeps(userRouter, "POST", <<"users">>, Scope("users:write"))
      /\ Keeps(userRouter, "GET", <<"users", ":id">>, Scope("users:read"))
      /\ Keeps(userRouter, "PUT", <<"users", ":id">>, Scope("users:write"))
      /\ Keeps(userRouter, "PATCH", <<"users", ":id">>, Scope("users:write"))
      /\ Keeps(userRouter, "DELETE", <<"users", ":id">>, Scope("users:execute"))
  BY PatternOf, ServedBy, ScopedHonest, CoreHarmless DEF Keeps, userRouter, CoreHandlers
<1>2. 3 \in DOMAIN apiRouters /\ apiRouters[3] = userRouter
  BY DEF apiRouters
<1> QED BY <1>1, <1>2, ApiBacked

LEMMA ProductBacked ==
  /\ Backed(Listed("GET", V1(<<"products">>), Scope("products:read")))
  /\ Backed(Listed("POST", V1(<<"products">>), Scope("products:write")))
  /\ Backed(Listed("GET", V1(<<"products", ":id">>), Scope("products:read")))
  /\ Backed(Listed("PUT", V1(<<"products", ":id">>), Scope("products:write")))
  /\ Backed(Listed("PATCH", V1(<<"products", ":id">>), Scope("products:write")))
  /\ Backed(Listed("DELETE", V1(<<"products", ":id">>), Scope("products:execute")))
<1>1. /\ Keeps(productRouter, "GET", <<"products">>, Scope("products:read"))
      /\ Keeps(productRouter, "POST", <<"products">>, Scope("products:write"))
      /\ Keeps(productRouter, "GET", <<"products", ":id">>, Scope("products:read"))
      /\ Keeps(productRouter, "PUT", <<"products", ":id">>, Scope("products:write"))
      /\ Keeps(productRouter, "PATCH", <<"products", ":id">>, Scope("products:write"))
      /\ Keeps(productRouter, "DELETE", <<"products", ":id">>, Scope("products:execute"))
  BY PatternOf, ServedBy, ScopedHonest, CoreHarmless DEF Keeps, productRouter, CoreHandlers
<1>2. 4 \in DOMAIN apiRouters /\ apiRouters[4] = productRouter
  BY DEF apiRouters
<1> QED BY <1>1, <1>2, ApiBacked

LEMMA CustomerBacked ==
  /\ Backed(Listed("GET", V1(<<"customers">>), Scope("customers:read")))
  /\ Backed(Listed("POST", V1(<<"customers">>), Scope("customers:write")))
  /\ Backed(Listed("GET", V1(<<"customers", ":id">>), Scope("customers:read")))
  /\ Backed(Listed("PUT", V1(<<"customers", ":id">>), Scope("customers:write")))
  /\ Backed(Listed("PATCH", V1(<<"customers", ":id">>), Scope("customers:write")))
  /\ Backed(Listed("DELETE", V1(<<"customers", ":id">>), Scope("customers:execute")))
<1>1. /\ Keeps(customerRouter, "GET", <<"customers">>, Scope("customers:read"))
      /\ Keeps(customerRouter, "POST", <<"customers">>, Scope("customers:write"))
      /\ Keeps(customerRouter, "GET", <<"customers", ":id">>, Scope("customers:read"))
      /\ Keeps(customerRouter, "PUT", <<"customers", ":id">>, Scope("customers:write"))
      /\ Keeps(customerRouter, "PATCH", <<"customers", ":id">>, Scope("customers:write"))
      /\ Keeps(customerRouter, "DELETE", <<"customers", ":id">>, Scope("customers:execute"))
  BY PatternOf, ServedBy, ScopedHonest, CoreHarmless DEF Keeps, customerRouter, CoreHandlers
<1>2. 5 \in DOMAIN apiRouters /\ apiRouters[5] = customerRouter
  BY DEF apiRouters
<1> QED BY <1>1, <1>2, ApiBacked

LEMMA OrderBacked ==
  /\ Backed(Listed("GET", V1(<<"orders">>), Scope("orders:read")))
  /\ Backed(Listed("POST", V1(<<"orders">>), Scope("orders:write")))
  /\ Backed(Listed("GET", V1(<<"orders", ":id">>), Scope("orders:read")))
  /\ Backed(Listed("PUT", V1(<<"orders", ":id">>), Scope("orders:write")))
  /\ Backed(Listed("PATCH", V1(<<"orders", ":id">>), Scope("orders:write")))
  /\ Backed(Listed("DELETE", V1(<<"orders", ":id">>), Scope("orders:execute")))
  /\ Backed(Listed("GET", V1(<<"orders", ":id", "products">>), Scope("orders:read")))
  /\ Backed(Listed("GET", V1(<<"users", ":id", "orders">>), Scope("orders:read")))
<1>1. /\ Keeps(orderRouter, "GET", <<"orders">>, Scope("orders:read"))
      /\ Keeps(orderRouter, "POST", <<"orders">>, Scope("orders:write"))
      /\ Keeps(orderRouter, "GET", <<"orders", ":id">>, Scope("orders:read"))
      /\ Keeps(orderRouter, "PUT", <<"orders", ":id">>, Scope("orders:write"))
      /\ Keeps(orderRouter, "PATCH", <<"orders", ":id">>, Scope("orders:write"))
      /\ Keeps(orderRouter, "DELETE", <<"orders", ":id">>, Scope("orders:execute"))
      /\ Keeps(orderRouter, "GET", <<"orders", ":id", "products">>, Scope("orders:read"))
      /\ Keeps(orderRouter, "GET", <<"users", ":id", "orders">>, Scope("orders:read"))
  BY PatternOf, ServedBy, ScopedHonest, CoreHarmless DEF Keeps, orderRouter, CoreHandlers
<1>2. 6 \in DOMAIN apiRouters /\ apiRouters[6] = orderRouter
  BY DEF apiRouters
<1> QED BY <1>1, <1>2, ApiBacked

LEMMA CategoryBacked ==
  /\ Backed(Listed("GET", V1(<<"categories">>), None))
  /\ Backed(Listed("GET", V1(<<"categories", ":slug">>), None))
  /\ Backed(Listed("GET", V1(<<"products", ":id", "category">>), None))
<1>1. /\ Keeps(categoryRouter, "GET", <<"categories">>, None)
      /\ Keeps(categoryRouter, "GET", <<"categories", ":slug">>, None)
      /\ Keeps(categoryRouter, "GET", <<"products", ":id", "category">>, None)
  BY PatternOf, ServedBy, OpenHonest DEF Keeps, categoryRouter
<1>2. 7 \in DOMAIN apiRouters /\ apiRouters[7] = categoryRouter
  BY DEF apiRouters
<1> QED BY <1>1, <1>2, ApiBacked

LEMMA PostBacked ==
  /\ Backed(Listed("GET", V1(<<"posts">>), None))
  /\ Backed(Listed("GET", V1(<<"posts", ":id">>), None))
  /\ Backed(Listed("GET", V1(<<"users", ":id", "posts">>), None))
  /\ Backed(Listed("POST", V1(<<"users", ":id", "posts">>), None))
<1>1. /\ Keeps(postRouter, "GET", <<"posts">>, None)
      /\ Keeps(postRouter, "GET", <<"posts", ":id">>, None)
      /\ Keeps(postRouter, "GET", <<"users", ":id", "posts">>, None)
      /\ Keeps(postRouter, "POST", <<"users", ":id", "posts">>, None)
  BY PatternOf, ServedBy, OpenHonest DEF Keeps, postRouter
<1>2. 8 \in DOMAIN apiRouters /\ apiRouters[8] = postRouter
  BY DEF apiRouters
<1> QED BY <1>1, <1>2, ApiBacked

LEMMA CommentBacked ==
  /\ Backed(Listed("GET", V1(<<"comments">>), None))
  /\ Backed(Listed("GET", V1(<<"comments", ":id">>), None))
  /\ Backed(Listed("GET", V1(<<"posts", ":id", "comments">>), None))
  /\ Backed(Listed("POST", V1(<<"posts", ":id", "comments">>), None))
<1>1. /\ Keeps(commentRouter, "GET", <<"comments">>, None)
      /\ Keeps(commentRouter, "GET", <<"comments", ":id">>, None)
      /\ Keeps(commentRouter, "GET", <<"posts", ":id", "comments">>, None)
      /\ Keeps(commentRouter, "POST", <<"posts", ":id", "comments">>, None)
  BY PatternOf, ServedBy, OpenHonest DEF Keeps, commentRouter
<1>2. 9 \in DOMAIN apiRouters /\ apiRouters[9] = commentRouter
  BY DEF apiRouters
<1> QED BY <1>1, <1>2, ApiBacked

LEMMA ReviewBacked ==
  /\ Backed(Listed("GET", V1(<<"reviews">>), None))
  /\ Backed(Listed("GET", V1(<<"reviews", ":id">>), None))
  /\ Backed(Listed("GET", V1(<<"reviews", "by-rating", ":rating">>), None))
  /\ Backed(Listed("GET", V1(<<"products", ":id", "reviews">>), None))
<1>1. /\ Keeps(reviewRouter, "GET", <<"reviews">>, None)
      /\ Keeps(reviewRouter, "GET", <<"reviews", ":id">>, None)
      /\ Keeps(reviewRouter, "GET", <<"reviews", "by-rating", ":rating">>, None)
      /\ Keeps(reviewRouter, "GET", <<"products", ":id", "reviews">>, None)
  BY PatternOf, ServedBy, OpenHonest DEF Keeps, reviewRouter
<1>2. 10 \in DOMAIN apiRouters /\ apiRouters[10] = reviewRouter
  BY DEF apiRouters
<1> QED BY <1>1, <1>2, ApiBacked

LEMMA PaymentBacked ==
  /\ Backed(Listed("GET", V1(<<"payments">>), None))
  /\ Backed(Listed("GET", V1(<<"payments", ":id">>), None))
  /\ Backed(Listed("GET", V1(<<"payments", "by-date", ":date">>), None))
  /\ Backed(Listed("POST", V1(<<"payments">>), None))
<1>1. /\ Keeps(paymentRouter, "GET", <<"payments">>, None)
      /\ Keeps(paymentRouter, "GET", <<"payments", ":id">>, None)
      /\ Keeps(paymentRouter, "GET", <<"payments", "by-date", ":date">>, None)
      /\ Keeps(paymentRouter, "POST", <<"payments">>, None)
  BY PatternOf, ServedBy, OpenHonest DEF Keeps, paymentRouter
<1>2. 11 \in DOMAIN apiRouters /\ apiRouters[11] = paymentRouter
  BY DEF apiRouters
<1> QED BY <1>1, <1>2, ApiBacked

LEMMA SearchBacked ==
  Backed(Listed("GET", V1(<<"search">>), None))
<1>1. Keeps(searchRouter, "GET", <<"search">>, None)
  BY PatternOf, ServedBy, OpenHonest DEF Keeps, searchRouter
<1>2. 12 \in DOMAIN apiRouters /\ apiRouters[12] = searchRouter
  BY DEF apiRouters
<1> QED BY <1>1, <1>2, ApiBacked

LEMMA StatusCodeBacked ==
  Backed(Listed("GET", V1(<<"status", ":code">>), None))
<1>1. Keeps(statusCodeRouter, "GET", <<"status", ":code">>, None)
  BY PatternOf, ServedBy, OpenHonest DEF Keeps, statusCodeRouter
<1>2. 13 \in DOMAIN apiRouters /\ apiRouters[13] = statusCodeRouter
  BY DEF apiRouters
<1> QED BY <1>1, <1>2, ApiBacked

LEMMA TestScenarioBacked ==
  Backed(Listed("GET", V1(<<"test">>), None))
<1>1. Keeps(testScenarioRouter, "GET", <<"test">>, None)
  BY PatternOf, ServedBy, OpenHonest DEF Keeps, testScenarioRouter
<1>2. 14 \in DOMAIN apiRouters /\ apiRouters[14] = testScenarioRouter
  BY DEF apiRouters
<1> QED BY <1>1, <1>2, ApiBacked

LEMMA ProtectedBacked ==
  Backed(Listed("GET", V1(<<"protected">>), Auth("role", "admin")))
<1>1. Keeps(protectedRouter, "GET", <<"protected">>, Auth("role", "admin"))
  BY PatternOf, ServedBy, ThroughHonest, GuardedFacts, PlainHarmless DEF Keeps, protectedRouter
<1>2. 15 \in DOMAIN apiRouters /\ apiRouters[15] = protectedRouter
  BY DEF apiRouters
<1> QED BY <1>1, <1>2, ApiBacked

LEMMA RoleBacked ==
  Backed(Listed("GET", V1(<<"role", ":role">>), Auth("role", ":role")))
<1>1. Keeps(roleRouter, "GET", <<"role", ":role">>, Auth("role", ":role"))
  BY PatternOf, ServedBy, ThroughHonest, GuardedFacts, PlainHarmless DEF Keeps, roleRouter
<1>2. 16 \in DOMAIN apiRouters /\ apiRouters[16] = roleRouter
  BY DEF apiRouters
<1> QED BY <1>1, <1>2, ApiBacked

LEMMA ScopeBacked ==
  Backed(Listed("GET", V1(<<"scope", ":scope">>), Auth("scope", ":scope")))
<1>1. Keeps(scopeRouter, "GET", <<"scope", ":scope">>, Auth("scope", ":scope"))
  BY PatternOf, ServedBy, ThroughHonest, GuardedFacts, PlainHarmless DEF Keeps, scopeRouter
<1>2. 17 \in DOMAIN apiRouters /\ apiRouters[17] = scopeRouter
  BY DEF apiRouters
<1> QED BY <1>1, <1>2, ApiBacked

LEMMA HealthBacked ==
  /\ Backed(Listed("GET", <<"health">>, None))
  /\ Backed(Listed("GET", <<"health", "live">>, None))
  /\ Backed(Listed("GET", <<"health", "ready">>, None))
<1>1. /\ Keeps(healthRouter, "GET", <<"health">>, None)
      /\ Keeps(healthRouter, "GET", <<"health", "live">>, None)
      /\ Keeps(healthRouter, "GET", <<"health", "ready">>, None)
  BY PatternOf, ServedBy, OpenHonest DEF Keeps, healthRouter
<1>2. 1 \in DOMAIN metaRouters /\ metaRouters[1] = healthRouter
  BY DEF metaRouters
<1> QED BY <1>1, <1>2, MetaBacked

LEMMA VersionBacked ==
  Backed(Listed("GET", <<"version">>, None))
<1>1. Keeps(versionRouter, "GET", <<"version">>, None)
  BY PatternOf, ServedBy, OpenHonest DEF Keeps, versionRouter
<1>2. 2 \in DOMAIN metaRouters /\ metaRouters[2] = versionRouter
  BY DEF metaRouters
<1> QED BY <1>1, <1>2, MetaBacked

LEMMA AuthBacked ==
  /\ Backed(Listed("POST", <<"auth", "login">>, None))
  /\ Backed(Listed("POST", <<"auth", "refresh">>, None))
  /\ Backed(Listed("POST", <<"auth", "token">>, None))
  /\ Backed(Listed("GET", <<"auth", "token-info">>, None))
  /\ Backed(Listed("GET", <<"auth", "me">>, Jwt))
<1>1. /\ Keeps(authRouter, "POST", <<"auth", "login">>, None)
      /\ Keeps(authRouter, "POST", <<"auth", "refresh">>, None)
      /\ Keeps(authRouter, "POST", <<"auth", "token">>, None)
      /\ Keeps(authRouter, "GET", <<"auth", "token-info">>, None)
      /\ Keeps(authRouter, "GET", <<"auth", "me">>, Jwt)
  BY PatternOf, ServedBy, OpenHonest, ThroughHonest, GuardedFacts, PlainHarmless
  DEF Keeps, authRouter, Harmless
<1>2. 3 \in DOMAIN metaRouters /\ metaRouters[3] = authRouter
  BY DEF metaRouters
<1> QED BY <1>1, <1>2, MetaBacked

LEMMA ApiKeyBacked ==
  /\ Backed(Listed("POST", <<"auth", "api-key">>, None))
  /\ Backed(Listed("GET", <<"api-key", "protected">>, Plain("apiKey")))
<1>1. /\ Keeps(apiKeyRouter, "POST", <<"auth", "api-key">>, None)
      /\ Keeps(apiKeyRouter, "GET", <<"api-key", "protected">>, Plain("apiKey"))
  BY PatternOf, ServedBy, OpenHonest, ThroughHonest, GuardedFacts, PlainHarmless
  DEF Keeps, apiKeyRouter, Harmless
<1>2. 4 \in DOMAIN metaRouters /\ metaRouters[4] = apiKeyRouter
  BY DEF metaRouters
<1> QED BY <1>1, <1>2, MetaBacked

LEMMA BasicAuthBacked ==
  Backed(Listed("GET", <<"auth-test", "basic">>, Plain("basic")))
<1>1. Keeps(basicAuthRouter, "GET", <<"auth-test", "basic">>, Plain("basic"))
  BY PatternOf, ServedBy, OpenHonest, ThroughHonest, GuardedFacts, PlainHarmless
  DEF Keeps, basicAuthRouter, Harmless
<1>2. 5 \in DOMAIN metaRouters /\ metaRouters[5] = basicAuthRouter
  BY DEF metaRouters
<1> QED BY <1>1, <1>2, MetaBacked

LEMMA DelayBacked ==
  /\ Backed(Listed("GET", <<"delay">>, None))
  /\ Backed(Listed("GET", <<"delay", ":ms">>, None))
<1>1. /\ Keeps(delayRouter, "GET", <<"delay">>, None)
      /\ Keeps(delayRouter, "GET", <<"delay", ":ms">>, None)
  BY PatternOf, ServedBy, OpenHonest DEF Keeps, delayRouter
<1>2. 6 \in DOMAIN metaRouters /\ metaRouters[6] = delayRouter
  BY DEF metaRouters
<1> QED BY <1>1, <1>2, MetaBacked

LEMMA PayloadBacked ==
  /\ Backed(Listed("GET", <<"payload">>, None))
  /\ Backed(Listed("GET", <<"payload", ":preset">>, None))
  /\ Backed(Listed("POST", <<"payload">>, None))
<1>1. /\ Keeps(payloadRouter, "GET", <<"payload">>, None)
      /\ Keeps(payloadRouter, "GET", <<"payload", ":preset">>, None)
      /\ Keeps(payloadRouter, "POST", <<"payload">>, None)
  BY PatternOf, ServedBy, OpenHonest DEF Keeps, payloadRouter
<1>2. 7 \in DOMAIN metaRouters /\ metaRouters[7] = payloadRouter
  BY DEF metaRouters
<1> QED BY <1>1, <1>2, MetaBacked

LEMMA ContentBacked ==
  /\ Backed(Listed("GET", <<"content", ":type">>, None))
  /\ Backed(Listed("POST", <<"content", ":type">>, None))
<1>1. /\ Keeps(contentRouter, "GET", <<"content", ":type">>, None)
      /\ Keeps(contentRouter, "POST", <<"content", ":type">>, None)
  BY PatternOf, ServedBy, OpenHonest DEF Keeps, contentRouter
<1>2. 8 \in DOMAIN metaRouters /\ metaRouters[8] = contentRouter
  BY DEF metaRouters
<1> QED BY <1>1, <1>2, MetaBacked

LEMMA HeadersBacked ==
  Backed(Listed("GET", <<"headers">>, None))
<1>1. Keeps(headersRouter, "GET", <<"headers">>, None)
  BY PatternOf, ServedBy, OpenHonest DEF Keeps, headersRouter
<1>2. 9 \in DOMAIN metaRouters /\ metaRouters[9] = headersRouter
  BY DEF metaRouters
<1> QED BY <1>1, <1>2, MetaBacked

LEMMA CookiesBacked ==
  /\ Backed(Listed("GET", <<"cookies">>, None))
  /\ Backed(Listed("POST", <<"cookies">>, None))
  /\ Backed(Listed("DELETE", <<"cookies">>, None))
<1>1. /\ Keeps(cookiesRouter, "GET", <<"cookies">>, None)
      /\ Keeps(cookiesRouter, "POST", <<"cookies">>, None)
      /\ Keeps(cookiesRouter, "DELETE", <<"cookies">>, None)
  BY PatternOf, ServedBy, OpenHonest DEF Keeps, cookiesRouter
<1>2. 10 \in DOMAIN metaRouters /\ metaRouters[10] = cookiesRouter
  BY DEF metaRouters
<1> QED BY <1>1, <1>2, MetaBacked

LEMMA RateLimitBacked ==
  Backed(Listed("GET", <<"rate-limit">>, None))
<1>1. Keeps(rateLimitRouter, "GET", <<"rate-limit">>, None)
  BY PatternOf, ServedBy, OpenHonest DEF Keeps, rateLimitRouter
<1>2. 11 \in DOMAIN metaRouters /\ metaRouters[11] = rateLimitRouter
  BY DEF metaRouters
<1> QED BY <1>1, <1>2, MetaBacked

LEMMA FlakyBacked ==
  Backed(Listed("GET", <<"flaky">>, None))
<1>1. Keeps(flakyRouter, "GET", <<"flaky">>, None)
  BY PatternOf, ServedBy, OpenHonest DEF Keeps, flakyRouter
<1>2. 12 \in DOMAIN metaRouters /\ metaRouters[12] = flakyRouter
  BY DEF metaRouters
<1> QED BY <1>1, <1>2, MetaBacked

LEMMA CacheBacked ==
  /\ Backed(Listed("GET", <<"cache", "resource">>, None))
  /\ Backed(Listed("PUT", <<"cache", "resource">>, None))
<1>1. /\ Keeps(cacheRouter, "GET", <<"cache", "resource">>, None)
      /\ Keeps(cacheRouter, "PUT", <<"cache", "resource">>, None)
  BY PatternOf, ServedBy, OpenHonest DEF Keeps, cacheRouter
<1>2. 13 \in DOMAIN metaRouters /\ metaRouters[13] = cacheRouter
  BY DEF metaRouters
<1> QED BY <1>1, <1>2, MetaBacked

LEMMA FilesBacked ==
  /\ Backed(Listed("GET", <<"files">>, None))
  /\ Backed(Listed("GET", <<"files", ":id">>, None))
  /\ Backed(Listed("POST", <<"files">>, None))
  /\ Backed(Listed("DELETE", <<"files", ":id">>, None))
<1>1. /\ Keeps(filesRouter, "GET", <<"files">>, None)
      /\ Keeps(filesRouter, "GET", <<"files", ":id">>, None)
      /\ Keeps(filesRouter, "POST", <<"files">>, None)
      /\ Keeps(filesRouter, "DELETE", <<"files", ":id">>, None)
  BY PatternOf, ServedBy, OpenHonest DEF Keeps, filesRouter
<1>2. 14 \in DOMAIN metaRouters /\ metaRouters[14] = filesRouter
  BY DEF metaRouters
<1> QED BY <1>1, <1>2, MetaBacked

LEMMA AdminBacked ==
  /\ Backed(Listed("POST", <<"admin", "reset">>, Plain("adminToken")))
  /\ Backed(Listed("POST", <<"admin", "auth", "reset">>, Plain("adminToken")))
<1>1. /\ Keeps(adminRouter, "POST", <<"admin", "reset">>, Plain("adminToken"))
      /\ Keeps(adminRouter, "POST", <<"admin", "auth", "reset">>, Plain("adminToken"))
  BY PatternOf, ServedBy, OpenHonest, ThroughHonest, GuardedFacts, PlainHarmless
  DEF Keeps, adminRouter, Harmless
<1>2. 16 \in DOMAIN metaRouters /\ metaRouters[16] = adminRouter
  BY DEF metaRouters
<1> QED BY <1>1, <1>2, MetaBacked

LEMMA OpenapiBacked ==
  /\ Backed(Listed("GET", <<"openapi.yaml">>, None))
  /\ Backed(Listed("GET", <<"openapi.json">>, None))
<1>1. /\ Keeps(openapiRouter, "GET", <<"openapi.yaml">>, None)
      /\ Keeps(openapiRouter, "GET", <<"openapi.json">>, None)
  BY PatternOf, ServedBy, OpenHonest DEF Keeps, openapiRouter
<1>2. 17 \in DOMAIN metaRouters /\ metaRouters[17] = openapiRouter
  BY DEF metaRouters
<1> QED BY <1>1, <1>2, MetaBacked

LEMMA ErrorsBacked == \A e \in ErrorEndpoints : Backed(Listed("GET", <<"errors", e>>, None))
<1> SUFFICES ASSUME NEW e \in ErrorEndpoints
             PROVE  Backed(Listed("GET", <<"errors", e>>, None))
  OBVIOUS
<1>1. PICK handler : handler = ErrorsController(SCENARIO_FIXED_STATUS(ERROR_ENDPOINT_SCENARIOS(e)))
  OBVIOUS
<1>3. Route(<<"errors", e>>, [GET |-> Open(handler)]) \in errorsRouter
  BY <1>1 DEF errorsRouter
<1>4. Keeps(errorsRouter, "GET", <<"errors", e>>, None)
  BY <1>3, PatternOf, ServedBy, OpenHonest DEF Keeps
<1>5. 15 \in DOMAIN metaRouters /\ metaRouters[15] = errorsRouter
  BY DEF metaRouters
<1> QED BY <1>4, <1>5, MetaBacked

\* Everything the registry lists is kept, but for what it says of giving up.
LEMMA RegistryBacked == \A e \in routeRegistry : GivingUp(e) \/ Backed(e)
<1>1. /\ \A e \in ListedResource("users", "users:read", "users:write",
                                "users:execute") : Backed(e)
      /\ \A e \in ListedResource("products", "products:read", "products:write",
                                "products:execute") : Backed(e)
      /\ \A e \in ListedResource("customers", "customers:read", "customers:write",
                                "customers:execute") : Backed(e)
      /\ \A e \in ListedResource("orders", "orders:read", "orders:write",
                                "orders:execute") : Backed(e)
  BY UserBacked, ProductBacked, CustomerBacked, OrderBacked DEF ListedResource
<1>2. \A e \in ListedErrors : Backed(e)
  BY ErrorsBacked DEF ListedErrors, ListedGets, ErrorEndpoints
<1>3. GivingUp(Listed("POST", <<"auth", "logout">>, Jwt))
      /\ GivingUp(Listed("POST", <<"auth", "api-key", "revoke">>, Plain("apiKey")))
  BY DEF GivingUp, Listed
<1> QED
  BY <1>1, <1>2, <1>3, InfoBacked, RoutesBacked, OrderBacked, CategoryBacked, PostBacked,
     CommentBacked, ReviewBacked, PaymentBacked, SearchBacked, StatusCodeBacked,
     TestScenarioBacked, ProtectedBacked, RoleBacked, ScopeBacked, HealthBacked, VersionBacked,
     AuthBacked, ApiKeyBacked, BasicAuthBacked, DelayBacked, PayloadBacked, ContentBacked,
     HeadersBacked, CookiesBacked, RateLimitBacked, FlakyBacked, CacheBacked, FilesBacked,
     AdminBacked, OpenapiBacked
  DEF routeRegistry, ListedGets, ListedPosts

-----------------------------------------------------------------------------
(* From an entry of the registry to the route that serves a request for it. *)

\* The method whose handler serves a request.
Asked(method) == IF method = "HEAD" THEN "GET" ELSE method

\* A request comes to a route that is served as the authentication listed says.
Kept(prefix, method, path, auth) ==
  LET route == RouteOf(prefix, method, path)
  IN  /\ route # NoRoute /\ Serves(route, method)
      /\ Honest(auth, EntryOf(route, method))

LEMMA MetaKept ==
  ASSUME NEW prefix, NEW method, NEW path, NEW pattern, NEW auth,
         NEW i \in DOMAIN metaRouters, Keeps(metaRouters[i], Asked(method), pattern, auth),
         Fits(pattern, path)
  PROVE  Kept(prefix, method, path, auth)
<1>1. PICK r \in metaRouters[i] :
        r.pattern = pattern /\ Asked(method) \in DOMAIN r.serves
          /\ Honest(auth, r.serves[Asked(method)])
  BY DEF Keeps
<1>2. Serves(r, method) /\ EntryOf(r, method) = r.serves[Asked(method)]
  BY <1>1 DEF Serves, EntryOf, Asked
<1>3. r \in Taking(metaRouters[i], method, path)
  BY <1>1, <1>2, SampleTaken
<1>4. FirstRoute(metaRouters, method, path) = r /\ r # NoRoute
  BY <1>3, MetaFirst
<1>5. RouteOf(prefix, method, path) = r
  BY <1>4 DEF RouteOf
<1> QED BY <1>1, <1>2, <1>4, <1>5 DEF Kept

\* A path of the default API, and what is below it.
LEMMA DefaultBelow ==
  ASSUME NEW pattern, ApiPattern(pattern), NEW path \in Seq(STRING), Fits(V1(pattern), path)
  PROVE  \E rest : /\ Under(DefaultPrefix, path) /\ Below(DefaultPrefix, path) = rest
                   /\ Fits(pattern, rest) /\ path[1] = "api"
<1>1. PICK R : pattern \in Seq(R)
  BY DEF ApiPattern, Short
<1>2. PICK S : R \subseteq S /\ STRING \subseteq S /\ "api" \in S /\ "v1" \in S
  <2>1. PICK S : S = R \cup STRING \cup {"api", "v1"}
    OBVIOUS
  <2> QED BY <2>1
<1>3. pattern \in Seq(S) /\ path \in Seq(S)
  BY <1>1, <1>2, SeqMonotonic
<1>4. PICK mount, full : mount = DefaultPrefix /\ full = V1(pattern)
  OBVIOUS
<1>5. /\ mount \in Seq(S) /\ Len(mount) = 2 /\ mount[1] = "api" /\ mount[2] = "v1"
      /\ full = mount \o pattern
  <2>1. mount = <<"api", "v1">> /\ full = <<"api", "v1">> \o pattern
    BY <1>4 DEF DefaultPrefix, V1
  <2> QED BY <1>2, <2>1, ShortFacts
<1>6. PICK k \in 1 .. 3 : k = Len(pattern)
  BY DEF ApiPattern, Short
<1>7. /\ Len(full) = k + 2 /\ full[1] = "api" /\ full[2] = "v1"
      /\ \A i \in 1 .. k : full[i + 2] = pattern[i]
  <2>1. /\ Len(mount \o pattern) = Len(mount) + Len(pattern)
        /\ \A i \in 1 .. Len(mount) + Len(pattern) :
             (mount \o pattern)[i] = IF i <= Len(mount) THEN mount[i] ELSE pattern[i - Len(mount)]
    BY <1>3, <1>5, ConcatProperties
  <2>2. /\ Len(full) = 2 + k
        /\ \A i \in 1 .. 2 + k : full[i] = IF i <= 2 THEN mount[i] ELSE pattern[i - 2]
    BY <1>5, <1>6, <2>1
  <2> QED BY <1>5, <1>6, <2>2
<1>8. Len(path) = k + 2 /\ \A i \in 1 .. k + 2 : Takes(full[i], path[i])
  <2>1. Fits(full, path)
    BY <1>4
  <2> QED BY <1>7, <2>1, FitsFacts
<1>9. path[1] = "api" /\ path[2] = "v1"
  <2>1. Takes("api", path[1]) /\ Takes("v1", path[2])
    BY <1>6, <1>7, <1>8
  <2> QED BY <2>1 DEF Takes, Params
<1>10. \A i \in 1 .. k : Takes(pattern[i], path[i + 2])
  BY <1>6, <1>7, <1>8
<1>11. PICK rest \in Seq(S) : Len(rest) = k /\ \A i \in 1 .. k : rest[i] = path[i + 2]
  <2>1. PICK b \in Int : b = k + 2
    BY <1>6
  <2>2. \A i \in 3 .. b : path[i] \in S
    BY <1>3, <1>8, <2>1, ElementOfSeq
  <2>3. /\ SubSeq(path, 3, b) \in Seq(S)
        /\ Len(SubSeq(path, 3, b)) = IF 3 <= b THEN b - 3 + 1 ELSE 0
        /\ \A i \in 1 .. b - 3 + 1 : SubSeq(path, 3, b)[i] = path[3 + i - 1]
    BY <2>1, <2>2, SubSeqProperties
  <2>4. PICK cut : cut = SubSeq(path, 3, b)
    OBVIOUS
  <2>5. cut \in Seq(S) /\ Len(cut) = k /\ \A i \in 1 .. k : cut[i] = path[i + 2]
    BY <1>6, <2>1, <2>3, <2>4
  <2> QED BY <2>5
<1>12. Fits(pattern, rest)
  BY <1>6, <1>10, <1>11, FitsFacts
<1>13. Len(rest) > 0 /\ rest[1] # Blank
  <2>1. pattern[1] \in ApiHeads /\ Takes(pattern[1], rest[1])
    BY <1>6, <1>10, <1>11 DEF ApiPattern
  <2>2. pattern[1] # Blank
    BY <2>1, BlankFacts
  <2> QED BY <1>6, <1>11, <2>1, <2>2 DEF Takes
<1>14. path = mount \o rest
  <2>1. /\ mount \o rest \in Seq(S) /\ Len(mount \o rest) = Len(mount) + Len(rest)
        /\ \A i \in 1 .. Len(mount) + Len(rest) :
             (mount \o rest)[i] = IF i <= Len(mount) THEN mount[i] ELSE rest[i - Len(mount)]
    <3>1. mount \in Seq(S) /\ rest \in Seq(S)
      BY <1>5, <1>11
    <3> QED BY <3>1, ConcatProperties
  <2>2. PICK whole : whole = mount \o rest
    OBVIOUS
  <2>3. /\ whole \in Seq(S) /\ Len(whole) = k + 2
        /\ \A i \in 1 .. k + 2 : whole[i] = IF i <= 2 THEN mount[i] ELSE rest[i - 2]
    BY <1>5, <1>6, <1>11, <2>1, <2>2
  <2>4. whole[1] = path[1] /\ whole[2] = path[2]
    BY <1>5, <1>6, <1>9, <2>3
  <2>5. ASSUME NEW i \in 3 .. k + 2 PROVE path[i] = whole[i]
    <3>1. PICK j \in 1 .. k : i = j + 2 /\ j = i - 2
      <4>1. i - 2 \in 1 .. k /\ i = i - 2 + 2
        BY <1>6
      <4> QED BY <4>1
    <3>2. rest[j] = path[j + 2]
      BY <1>11
    <3> QED BY <1>6, <2>3, <3>1, <3>2
  <2>6. \A i \in 1 .. k + 2 : path[i] = whole[i]
    <3>1. \A i \in 1 .. k + 2 : i = 1 \/ i = 2 \/ i \in 3 .. k + 2
      BY <1>6
    <3> QED BY <2>4, <2>5, <3>1
  <2> QED BY <1>3, <1>8, <2>2, <2>3, <2>6, SeqEqual
<1>15. Under(mount, path) /\ Below(mount, path) = rest
  BY <1>5, <1>11, <1>13, <1>14, BelowFacts
<1> QED BY <1>4, <1>9, <1>12, <1>15

\* It is mounted as it is written.
LEMMA DefaultMount == MountPoint(DefaultPrefix) = DefaultPrefix
<1>1. PICK prefix : prefix = DefaultPrefix
  OBVIOUS
<1>2. Len(prefix) = 2 /\ prefix[2] = "v1"
  BY <1>1 DEF DefaultPrefix
<1>3. "v1" # Blank
  BY Zenon DEF Blank
<1>4. prefix[Len(prefix)] # Blank
  BY <1>2, <1>3
<1> QED BY <1>1, <1>4, MountIs

LEMMA ApiKept ==
  ASSUME NEW method, NEW path \in Seq(STRING), NEW pattern, NEW auth,
         NEW i \in DOMAIN apiRouters, Keeps(apiRouters[i], Asked(method), pattern, auth),
         Fits(V1(pattern), path)
  PROVE  Kept(DefaultPrefix, method, path, auth)
<1>1. PICK r \in apiRouters[i] :
        r.pattern = pattern /\ Asked(method) \in DOMAIN r.serves
          /\ Honest(auth, r.serves[Asked(method)])
  BY DEF Keeps
<1>2. Serves(r, method) /\ EntryOf(r, method) = r.serves[Asked(method)]
  BY <1>1 DEF Serves, EntryOf, Asked
<1>3. ApiPattern(pattern) /\ Short(pattern) /\ r \in ApiRoutes
  BY <1>1, AllApi DEF ApiRoutes, Api, ApiPattern
<1>4. PICK rest : /\ Under(DefaultPrefix, path) /\ Below(DefaultPrefix, path) = rest
                  /\ Fits(pattern, rest) /\ path[1] = "api"
  BY <1>3, DefaultBelow
<1>5. ~ MetaPath(path)
  <2>1. "api" \notin MetaHeads
    BY DEF MetaHeads
  <2> QED BY <1>4, <2>1 DEF MetaPath
<1>5a. ~ Under(<<"docs">>, path)
  <2>1. Len(path) > 0
    <3>1. Len(DefaultPrefix) = 2 /\ Len(path) \in Nat
      BY LenProperties DEF DefaultPrefix
    <3> QED BY <1>4, <3>1 DEF Under
  <2> QED BY <1>4, <2>1, DocsFacts
<1>6. /\ Under(MountPoint(DefaultPrefix), path) /\ Below(MountPoint(DefaultPrefix), path) = rest
      /\ Fits(r.pattern, rest)
  BY <1>1, <1>4, DefaultMount
<1>7. RouteOf(DefaultPrefix, method, path) = r
  BY <1>3, <1>5, <1>5a, <1>6, ApiReached
<1>8. r # NoRoute
  <2>1. Len(NoRoute.pattern) = 0
    BY DEF NoRoute
  <2>2. Len(r.pattern) \in 1 .. 3
    BY <1>1, <1>3 DEF Short
  <2>3. 0 \notin 1 .. 3
    OBVIOUS
  <2>4. r.pattern # NoRoute.pattern
    BY <2>1, <2>2, <2>3
  <2> QED BY <2>4
<1> QED BY <1>1, <1>2, <1>7, <1>8 DEF Kept

LEMMA ListedKept ==
  ASSUME NEW q \in Requests, NEW e \in ListedFor(q), ~ GivingUp(e)
  PROVE  q.method # "OPTIONS" /\ Kept(DefaultPrefix, q.method, q.path, e.auth)
<1>1. <<q.method, q.path>> \in Targets
  BY DEF Targets
<1>2. ListedFor(q) = {d \in routeRegistry : /\ Fits(d.path, q.path)
                                           /\ d.method = IF q.method = "HEAD" THEN "GET"
                                                ELSE q.method}
  BY <1>1 DEF ListedFor, Entries
<1>3. e \in routeRegistry /\ Fits(e.path, q.path) /\ e.method = Asked(q.method)
  BY <1>2 DEF Asked
<1>4. Backed(e)
  BY <1>3, RegistryBacked
<1>5. q.path \in Seq(STRING)
  BY RequestAssumption DEF Request
<1>6. q.method # "OPTIONS"
  BY <1>3, <1>4 DEF Backed, Asked
<1>7. CASE \E i \in DOMAIN metaRouters : Keeps(metaRouters[i], e.method, e.path, e.auth)
  BY <1>3, <1>6, <1>7, MetaKept
<1>8. CASE \E i \in DOMAIN apiRouters :
             \E pattern : e.path = V1(pattern) /\ Keeps(apiRouters[i], e.method, pattern, e.auth)
  BY <1>3, <1>5, <1>6, <1>8, ApiKept
<1> QED BY <1>4, <1>7, <1>8 DEF Backed

-----------------------------------------------------------------------------
(* What the gates say. *)

\* What the i-th gate says, those before it having passed.
RefusalAt(gates, i, q, arg) == Refusal(gates[i], q, arg, Authenticated(gates, i, q))

\* The first gate that refuses has the say.
LEMMA GatesFirst ==
  ASSUME NEW gates, NEW q, NEW arg, NEW n \in Nat, DOMAIN gates = 1 .. n, NEW i \in 1 .. n,
         RefusalAt(gates, i, q, arg) # Passed,
         \A j \in 1 .. n : j < i => RefusalAt(gates, j, q, arg) = Passed
  PROVE  GatesAnswer(gates, q, arg) = RefusalAt(gates, i, q, arg)
<1> DEFINE refusing == {j \in DOMAIN gates : RefusalAt(gates, j, q, arg) # Passed}
<1>1. i \in refusing /\ \A j \in refusing : i <= j /\ j \in Int
  OBVIOUS
<1>2. GatesAnswer(gates, q, arg) =
        IF refusing = {} THEN Passed
        ELSE RefusalAt(gates, CHOOSE k \in refusing : \A j \in refusing : k <= j, q, arg)
  BY DEF GatesAnswer, RefusalAt
<1> HIDE DEF refusing
<1>3. (CHOOSE k \in refusing : \A j \in refusing : k <= j) = i
  <2>1. PICK first : first = CHOOSE k \in refusing : \A j \in refusing : k <= j
    OBVIOUS
  <2>2. first \in refusing /\ \A j \in refusing : first <= j
    BY <1>1, <2>1
  <2> QED BY <1>1, <2>1, <2>2
<1> QED BY <1>1, <1>2, <1>3

LEMMA GatesNone ==
  ASSUME NEW gates, NEW q, NEW arg, NEW n \in Nat, DOMAIN gates = 1 .. n,
         \A j \in 1 .. n : RefusalAt(gates, j, q, arg) = Passed
  PROVE  GatesAnswer(gates, q, arg) = Passed
BY DEF GatesAnswer, RefusalAt

LEMMA GateOne ==
  ASSUME NEW gates, NEW q, NEW arg, DOMAIN gates = 1 .. 1
  PROVE  GatesAnswer(gates, q, arg) = RefusalAt(gates, 1, q, arg)
<1>1. 1 \in Nat /\ 1 \in 1 .. 1 /\ \A j \in 1 .. 1 : j = 1 /\ ~ (j < 1)
  OBVIOUS
<1>2. CASE RefusalAt(gates, 1, q, arg) # Passed
  <2>1. \A j \in 1 .. 1 : j < 1 => RefusalAt(gates, j, q, arg) = Passed
    BY <1>1
  <2> QED BY <1>1, <1>2, <2>1, GatesFirst
<1>3. CASE RefusalAt(gates, 1, q, arg) = Passed
  BY <1>1, <1>3, GatesNone
<1> QED BY <1>2, <1>3

LEMMA GateTwo ==
  ASSUME NEW gates, NEW q, NEW arg, DOMAIN gates = 1 .. 2
  PROVE  GatesAnswer(gates, q, arg) =
           IF RefusalAt(gates, 1, q, arg) # Passed THEN RefusalAt(gates, 1, q, arg)
           ELSE RefusalAt(gates, 2, q, arg)
<1>1. 2 \in Nat /\ 1 \in 1 .. 2 /\ 2 \in 1 .. 2 /\ \A j \in 1 .. 2 : j = 1 \/ j = 2
  OBVIOUS
<1>2. CASE RefusalAt(gates, 1, q, arg) # Passed
  <2>1. \A j \in 1 .. 2 : j < 1 => RefusalAt(gates, j, q, arg) = Passed
    OBVIOUS
  <2>2. GatesAnswer(gates, q, arg) = RefusalAt(gates, 1, q, arg)
    BY <1>1, <1>2, <2>1, GatesFirst
  <2> QED BY <1>2, <2>2
<1>3. CASE RefusalAt(gates, 1, q, arg) = Passed /\ RefusalAt(gates, 2, q, arg) # Passed
  <2>1. \A j \in 1 .. 2 : j < 2 => RefusalAt(gates, j, q, arg) = Passed
    BY <1>1, <1>3
  <2>2. GatesAnswer(gates, q, arg) = RefusalAt(gates, 2, q, arg)
    BY <1>1, <1>3, <2>1, GatesFirst
  <2> QED BY <1>3, <2>2
<1>4. CASE RefusalAt(gates, 1, q, arg) = Passed /\ RefusalAt(gates, 2, q, arg) = Passed
  <2>1. \A j \in 1 .. 2 : RefusalAt(gates, j, q, arg) = Passed
    BY <1>1, <1>4
  <2>2. GatesAnswer(gates, q, arg) = Passed
    BY <1>1, <2>1, GatesNone
  <2> QED BY <1>4, <2>2
<1> QED BY <1>2, <1>3, <1>4

\* A third gate behind one that lets pass.
LEMMA GateThree ==
  ASSUME NEW gates, NEW q, NEW arg, DOMAIN gates = 1 .. 3, RefusalAt(gates, 1, q, arg) = Passed
  PROVE  GatesAnswer(gates, q, arg) =
           IF RefusalAt(gates, 2, q, arg) # Passed THEN RefusalAt(gates, 2, q, arg)
           ELSE RefusalAt(gates, 3, q, arg)
<1>1. /\ 3 \in Nat /\ 2 \in 1 .. 3 /\ 3 \in 1 .. 3
      /\ \A j \in 1 .. 3 : j = 1 \/ j = 2 \/ j = 3
  OBVIOUS
<1>2. CASE RefusalAt(gates, 2, q, arg) # Passed
  <2>1. \A j \in 1 .. 3 : j < 2 => RefusalAt(gates, j, q, arg) = Passed
    BY <1>1
  <2>2. GatesAnswer(gates, q, arg) = RefusalAt(gates, 2, q, arg)
    BY <1>1, <1>2, <2>1, GatesFirst
  <2> QED BY <1>2, <2>2
<1>3. CASE RefusalAt(gates, 2, q, arg) = Passed /\ RefusalAt(gates, 3, q, arg) # Passed
  <2>1. \A j \in 1 .. 3 : j < 3 => RefusalAt(gates, j, q, arg) = Passed
    BY <1>1, <1>3
  <2>2. GatesAnswer(gates, q, arg) = RefusalAt(gates, 3, q, arg)
    BY <1>1, <1>3, <2>1, GatesFirst
  <2> QED BY <1>3, <2>2
<1>4. CASE RefusalAt(gates, 2, q, arg) = Passed /\ RefusalAt(gates, 3, q, arg) = Passed
  <2>1. \A j \in 1 .. 3 : RefusalAt(gates, j, q, arg) = Passed
    BY <1>1, <1>4
  <2>2. GatesAnswer(gates, q, arg) = Passed
    BY <1>1, <2>1, GatesNone
  <2> QED BY <1>4, <2>2
<1> QED BY <1>2, <1>3, <1>4

\* Gate by gate.
LEMMA RefusalFacts ==
  ASSUME NEW gates, NEW i, NEW q, NEW arg
  PROVE  /\ gates[i] = authenticate =>
              RefusalAt(gates, i, q, arg) = IF GoodToken(q) THEN Passed ELSE 401
         /\ \A scope : gates[i] = requireScope(scope) =>
              RefusalAt(gates, i, q, arg) = ScopeRefusal(q, scope, Authenticated(gates, i, q))
         /\ \A role : gates[i] = requireRole(role) =>
              RefusalAt(gates, i, q, arg) = RoleRefusal(q, role, Authenticated(gates, i, q))
         /\ gates[i] = validateRoleParam /\ parseRoleParam(arg) =>
              RefusalAt(gates, i, q, arg) = Passed
         /\ gates[i] = validateScopeParam /\ parseScopeParam(arg) =>
              RefusalAt(gates, i, q, arg) = Passed
         /\ gates[i] = requireMatchingRole =>
              RefusalAt(gates, i, q, arg) = RoleRefusal(q, arg, Authenticated(gates, i, q))
         /\ gates[i] = requireMatchingScope =>
              RefusalAt(gates, i, q, arg) = ScopeRefusal(q, arg, Authenticated(gates, i, q))
         /\ gates[i] = adminAuth => RefusalAt(gates, i, q, arg) = AdminRefusal(q)
         /\ gates[i] = apiKeyAuth =>
              RefusalAt(gates, i, q, arg) =
                IF q.proof \in ApiKey /\ Good(q.proof) THEN Passed ELSE 401
         /\ gates[i] = basicAuth =>
              RefusalAt(gates, i, q, arg) = IF q.proof = DemoAccount THEN Passed ELSE 401
<1> USE DEF RefusalAt, Refusal, Gate
<1>1. gates[i] = authenticate =>
        RefusalAt(gates, i, q, arg) = IF GoodToken(q) THEN Passed ELSE 401
  BY DEF authenticate
<1>2. /\ \A scope : gates[i] = requireScope(scope) =>
           RefusalAt(gates, i, q, arg) = ScopeRefusal(q, scope, Authenticated(gates, i, q))
      /\ \A role : gates[i] = requireRole(role) =>
           RefusalAt(gates, i, q, arg) = RoleRefusal(q, role, Authenticated(gates, i, q))
  BY DEF requireScope, requireRole
<1>3. /\ gates[i] = validateRoleParam /\ parseRoleParam(arg) =>
           RefusalAt(gates, i, q, arg) = Passed
      /\ gates[i] = validateScopeParam /\ parseScopeParam(arg) =>
           RefusalAt(gates, i, q, arg) = Passed
  BY DEF validateRoleParam, validateScopeParam
<1>4. /\ gates[i] = requireMatchingRole =>
           RefusalAt(gates, i, q, arg) = RoleRefusal(q, arg, Authenticated(gates, i, q))
      /\ gates[i] = requireMatchingScope =>
           RefusalAt(gates, i, q, arg) = ScopeRefusal(q, arg, Authenticated(gates, i, q))
  BY DEF requireMatchingRole, requireMatchingScope
<1>5. gates[i] = adminAuth => RefusalAt(gates, i, q, arg) = AdminRefusal(q)
  BY DEF adminAuth
<1>6. gates[i] = apiKeyAuth =>
        RefusalAt(gates, i, q, arg) = IF q.proof \in ApiKey /\ Good(q.proof) THEN Passed ELSE 401
  BY DEF apiKeyAuth
<1>7. gates[i] = basicAuth =>
        RefusalAt(gates, i, q, arg) = IF q.proof = DemoAccount THEN Passed ELSE 401
  BY DEF basicAuth
<1> QED BY <1>1, <1>2, <1>3, <1>4, <1>5, <1>6, <1>7

\* req.auth is set behind authenticate, if it has passed.
LEMMA AuthenticatedFacts ==
  ASSUME NEW gates, NEW q, NEW i \in {2, 3}, gates[i - 1] = authenticate
  PROVE  Authenticated(gates, i, q) <=> GoodToken(q)
<1>1. i - 1 \in 1 .. i - 1
  OBVIOUS
<1> QED BY <1>1 DEF Authenticated

\* Having a scope is being granted what it stands for.
LEMMA ScopeIsGranted ==
  ASSUME NEW scopes, NEW named
  PROVE  HasScope(scopes, named) <=>
           \/ named \in scopes
           \/ \E s \in LeveledScopes : s.text = named /\ Grants(scopes, s.resource, s.rank)
           \/ "admin" \in scopes
BY DEF HasScope, Grants

\* What is listed and what the gates say of it.
LEMMA GuardedAnswer ==
  ASSUME NEW auth, NEW gates, NEW q, NEW arg, Guarded(auth, gates),
         auth.detail = ":role" => parseRoleParam(arg),
         auth.detail = ":scope" => parseScopeParam(arg)
  PROVE  /\ ~ Identified(auth, q) => GatesAnswer(gates, q, arg) = 401
         /\ Identified(auth, q) /\ ~ Admitted(auth, q, arg) => GatesAnswer(gates, q, arg) = 403
         /\ Identified(auth, q) /\ Admitted(auth, q, arg) => GatesAnswer(gates, q, arg) = Passed
<1> DEFINE Told == /\ ~ Identified(auth, q) => GatesAnswer(gates, q, arg) = 401
                   /\ Identified(auth, q) /\ ~ Admitted(auth, q, arg)
                        => GatesAnswer(gates, q, arg) = 403
                   /\ Identified(auth, q) /\ Admitted(auth, q, arg)
                        => GatesAnswer(gates, q, arg) = Passed
<1>0. Passed # 401 /\ Passed # 403
  BY DEF Passed
<1>1. CASE auth.type = "jwt" /\ gates = <<authenticate>>
  <2>1. GatesAnswer(gates, q, arg) = IF GoodToken(q) THEN Passed ELSE 401
    <3>1. DOMAIN gates = 1 .. 1 /\ gates[1] = authenticate
      BY <1>1
    <3> QED BY <3>1, GateOne, RefusalFacts
  <2>2. (Identified(auth, q) <=> GoodToken(q)) /\ Admitted(auth, q, arg)
    BY <1>1 DEF Identified, Admitted
  <2> QED BY <2>1, <2>2
<1>2. CASE auth.type = "role" /\ auth.detail # ":role"
             /\ gates = <<authenticate, requireRole(auth.detail)>>
  <2>1. GatesAnswer(gates, q, arg) =
          IF ~ GoodToken(q) THEN 401 ELSE IF RoleOf[q.proof] = auth.detail THEN Passed ELSE 403
    <3>1. DOMAIN gates = 1 .. 2 /\ gates[1] = authenticate /\ gates[2] = requireRole(auth.detail)
      BY <1>2
    <3>2. Authenticated(gates, 2, q) <=> GoodToken(q)
      BY <3>1, AuthenticatedFacts
    <3>3. RefusalAt(gates, 1, q, arg) = IF GoodToken(q) THEN Passed ELSE 401
      BY <3>1, RefusalFacts
    <3>4. RefusalAt(gates, 2, q, arg) =
            RoleRefusal(q, auth.detail, Authenticated(gates, 2, q))
      BY <3>1, RefusalFacts
    <3> QED BY <1>0, <3>1, <3>2, <3>3, <3>4, GateTwo DEF RoleRefusal
  <2>2. /\ Identified(auth, q) <=> GoodToken(q)
        /\ Admitted(auth, q, arg) <=> RoleOf[q.proof] = auth.detail
    BY <1>2 DEF Identified, Admitted
  <2> QED BY <2>1, <2>2
<1>3. CASE /\ auth.type = "role" /\ auth.detail = ":role"
           /\ gates = <<validateRoleParam, authenticate, requireMatchingRole>>
  <2>1. GatesAnswer(gates, q, arg) =
          IF ~ GoodToken(q) THEN 401 ELSE IF RoleOf[q.proof] = arg THEN Passed ELSE 403
    <3>1. /\ DOMAIN gates = 1 .. 3 /\ gates[1] = validateRoleParam
          /\ gates[2] = authenticate /\ gates[3] = requireMatchingRole
      BY <1>3
    <3>2. Authenticated(gates, 3, q) <=> GoodToken(q)
      BY <3>1, AuthenticatedFacts
    <3>3. RefusalAt(gates, 1, q, arg) = Passed
      BY <1>3, <3>1, RefusalFacts
    <3>4. RefusalAt(gates, 2, q, arg) = IF GoodToken(q) THEN Passed ELSE 401
      BY <3>1, RefusalFacts
    <3>5. RefusalAt(gates, 3, q, arg) = RoleRefusal(q, arg, Authenticated(gates, 3, q))
      BY <3>1, RefusalFacts
    <3> QED BY <1>0, <3>1, <3>2, <3>3, <3>4, <3>5, GateThree DEF RoleRefusal
  <2>2. /\ Identified(auth, q) <=> GoodToken(q)
        /\ Admitted(auth, q, arg) <=> RoleOf[q.proof] = arg
    BY <1>3 DEF Identified, Admitted
  <2> QED BY <2>1, <2>2
<1>4. CASE auth.type = "scope" /\ auth.detail # ":scope"
             /\ gates = <<authenticate, requireScope(auth.detail)>>
  <2>1. GatesAnswer(gates, q, arg) =
          IF ~ GoodToken(q) THEN 401 ELSE IF HasScope(ScopesOf[q.proof], auth.detail)
            THEN Passed ELSE 403
    <3>1. DOMAIN gates = 1 .. 2 /\ gates[1] = authenticate /\ gates[2] = requireScope(auth.detail)
      BY <1>4
    <3>2. Authenticated(gates, 2, q) <=> GoodToken(q)
      BY <3>1, AuthenticatedFacts
    <3>3. RefusalAt(gates, 1, q, arg) = IF GoodToken(q) THEN Passed ELSE 401
      BY <3>1, RefusalFacts
    <3>4. RefusalAt(gates, 2, q, arg) =
            ScopeRefusal(q, auth.detail, Authenticated(gates, 2, q))
      BY <3>1, RefusalFacts
    <3> QED BY <1>0, <3>1, <3>2, <3>3, <3>4, GateTwo DEF ScopeRefusal
  <2>2. /\ Identified(auth, q) <=> GoodToken(q)
        /\ Admitted(auth, q, arg) <=> HasScope(ScopesOf[q.proof], auth.detail)
    BY <1>4, ScopeIsGranted DEF Identified, Admitted
  <2> QED BY <2>1, <2>2
<1>5. CASE /\ auth.type = "scope" /\ auth.detail = ":scope"
           /\ gates = <<validateScopeParam, authenticate, requireMatchingScope>>
  <2>1. GatesAnswer(gates, q, arg) =
          IF ~ GoodToken(q) THEN 401 ELSE IF HasScope(ScopesOf[q.proof], arg) THEN Passed ELSE 403
    <3>1. /\ DOMAIN gates = 1 .. 3 /\ gates[1] = validateScopeParam
          /\ gates[2] = authenticate /\ gates[3] = requireMatchingScope
      BY <1>5
    <3>2. Authenticated(gates, 3, q) <=> GoodToken(q)
      BY <3>1, AuthenticatedFacts
    <3>3. RefusalAt(gates, 1, q, arg) = Passed
      BY <1>5, <3>1, RefusalFacts
    <3>4. RefusalAt(gates, 2, q, arg) = IF GoodToken(q) THEN Passed ELSE 401
      BY <3>1, RefusalFacts
    <3>5. RefusalAt(gates, 3, q, arg) = ScopeRefusal(q, arg, Authenticated(gates, 3, q))
      BY <3>1, RefusalFacts
    <3> QED BY <1>0, <3>1, <3>2, <3>3, <3>4, <3>5, GateThree DEF ScopeRefusal
  <2>2. /\ Identified(auth, q) <=> GoodToken(q)
        /\ Admitted(auth, q, arg) <=> HasScope(ScopesOf[q.proof], arg)
    BY <1>5, ScopeIsGranted DEF Identified, Admitted
  <2> QED BY <2>1, <2>2
<1>6. CASE auth.type = "apiKey" /\ gates = <<apiKeyAuth>>
  <2>1. GatesAnswer(gates, q, arg) = IF q.proof \in ApiKey /\ Good(q.proof) THEN Passed ELSE 401
    <3>1. DOMAIN gates = 1 .. 1 /\ gates[1] = apiKeyAuth
      BY <1>6
    <3> QED BY <3>1, GateOne, RefusalFacts
  <2>2. (Identified(auth, q) <=> q.proof \in ApiKey /\ Good(q.proof)) /\ Admitted(auth, q, arg)
    BY <1>6 DEF Identified, Admitted
  <2> QED BY <2>1, <2>2
<1>7. CASE auth.type = "basic" /\ gates = <<basicAuth>>
  <2>1. GatesAnswer(gates, q, arg) = IF q.proof = DemoAccount THEN Passed ELSE 401
    <3>1. DOMAIN gates = 1 .. 1 /\ gates[1] = basicAuth
      BY <1>7
    <3> QED BY <3>1, GateOne, RefusalFacts
  <2>2. (Identified(auth, q) <=> q.proof = DemoAccount) /\ Admitted(auth, q, arg)
    BY <1>7 DEF Identified, Admitted
  <2> QED BY <2>1, <2>2
<1>8. CASE auth.type = "adminToken" /\ gates = <<adminAuth>>
  <2>1. GatesAnswer(gates, q, arg) =
          IF q.proof = AdminToken THEN Passed ELSE IF q.proof = WrongAdminToken THEN 403 ELSE 401
    <3>1. DOMAIN gates = 1 .. 1 /\ gates[1] = adminAuth
      BY <1>8
    <3> QED BY <3>1, GateOne, RefusalFacts DEF AdminRefusal
  <2>2. /\ Identified(auth, q) <=> q.proof \in {AdminToken, WrongAdminToken}
        /\ Admitted(auth, q, arg) <=> q.proof = AdminToken
    BY <1>8 DEF Identified, Admitted
  <2> QED BY <2>1, <2>2
<1> QED BY <1>1, <1>2, <1>3, <1>4, <1>5, <1>6, <1>7, <1>8 DEF Guarded

-----------------------------------------------------------------------------
(* The answers. *)

\* The way of a request that is read and finds a route, under any proof.
LEMMA WayIs ==
  ASSUME NEW q, <<q.method, q.path>> \in Targets, config \in Configs,
         ~ CorsRefuses(q), ~ Unreadable(q), q.method # "OPTIONS",
         NEW route, route = RouteOf(config.prefix, q.method, q.path),
         route # NoRoute, Serves(route, q.method),
         NEW arg, arg = ArgumentOf(config.prefix, route, q.path), arg # Undecodable
  PROVE  /\ WayOf(q).argument = arg
         /\ WayOf(q).handler = EntryOf(route, q.method).handler
         /\ WayOf(q).stop = GatesAnswer(EntryOf(route, q.method).gates, q, arg)
<1> DEFINE found == Resolved[config.prefix][<<q.method, q.path>>]
<1>1. found.route = route /\ found.argument = arg
  <2>1. config.prefix \in Prefixes
    BY DEF Prefixes
  <2>2. found = [route |-> route, argument |-> arg]
    BY <2>1 DEF Resolved
  <2> HIDE DEF found
  <2> QED BY <2>2
<1> HIDE DEF found
<1>2. StopOf(q, found.route, found.argument) =
        GatesAnswer(EntryOf(route, q.method).gates, q, arg)
  BY <1>1 DEF StopOf
<1>3. WayOf(q) = [argument |-> found.argument,
                  stop |-> StopOf(q, found.route, found.argument),
                  handler |-> IF Serves(found.route, q.method)
                              THEN EntryOf(found.route, q.method).handler ELSE OpenapiDocument]
  BY DEF WayOf, found
<1> QED BY <1>1, <1>2, <1>3

\* A harmless handler refuses nobody.
LEMMA HarmlessAnswers ==
  ASSUME NEW q, NEW way, Harmless(way.handler)
  PROVE  HandlerAnswers(q, way) \cap {401, 403} = {}
<1>1. CASE ~ Accepts(way.handler.parser, way.argument)
  BY <1>1 DEF HandlerAnswers
<1>2. CASE Accepts(way.handler.parser, way.argument) /\ way.handler.on \in Resource
  <2>1. HandlerAnswers(q, way) = CoreAnswers(q, way)
    BY <1>2 DEF HandlerAnswers
  <2>2. way.handler.does \in {"list", "get", "create", "replace", "patch", "delete"}
    BY <1>2 DEF Harmless
  <2> QED BY <2>1, <2>2 DEF CoreAnswers, Harmless
<1>3. CASE Accepts(way.handler.parser, way.argument) /\ way.handler.on \notin Resource
  <2>1. HandlerAnswers(q, way) = way.handler.answers
    BY <1>3 DEF HandlerAnswers, Harmless
  <2> QED BY <2>1 DEF Harmless
<1> QED BY <1>1, <1>2, <1>3

\* Where there is no gate a request gets to the handler, under any proof.
LEMMA OpenPasses ==
  ASSUME NEW q \in Requests, NEW p, config \in Configs,
         ~ CorsRefuses(q), ~ Unreadable(q), q.method # "OPTIONS",
         NEW route, route = RouteOf(config.prefix, q.method, q.path),
         route # NoRoute, Serves(route, q.method),
         NEW arg, arg = ArgumentOf(config.prefix, route, q.path), arg # Undecodable,
         EntryOf(route, q.method).gates = <<>>
  PROVE  WayOf([q EXCEPT !.proof = p]).stop = Passed
<1>1. PICK other : other = [q EXCEPT !.proof = p]
  OBVIOUS
<1>2. /\ other.method = q.method /\ other.path = q.path
      /\ other.body = q.body /\ other.origin = q.origin
  BY <1>1, RequestAssumption DEF Request
<1>3. ~ CorsRefuses(other) /\ ~ Unreadable(other)
  BY <1>2 DEF CorsRefuses, Unreadable
<1>4. /\ <<other.method, other.path>> \in Targets /\ other.method # "OPTIONS"
      /\ route = RouteOf(config.prefix, other.method, other.path)
      /\ Serves(route, other.method) /\ arg = ArgumentOf(config.prefix, route, other.path)
  BY <1>2 DEF Targets
<1>5. WayOf(other).stop = GatesAnswer(EntryOf(route, other.method).gates, other, arg)
  BY <1>3, <1>4, WayIs
<1>6. GatesAnswer(<<>>, other, arg) = Passed
  BY DEF GatesAnswer
<1> QED BY <1>1, <1>2, <1>5, <1>6

\* One request and one entry that lists it.
LEMMA RegistryFits == config \in Configs => AnswersFitRegistry
<1> SUFFICES ASSUME config \in Configs, config.prefix = DefaultPrefix,
                    NEW q \in Requests, NEW e \in ListedFor(q),
                    ReachesGates(q, e, WayOf(q).argument), ~ GivingUp(e)
             PROVE  IF e.auth.type = "none"
                    THEN \A p \in Proof : WayOf([q EXCEPT !.proof = p]).stop = Passed
                    ELSE IF ~ Identified(e.auth, q) THEN Answers(q, WayOf(q)) = {401}
                    ELSE IF ~ Admitted(e.auth, q, WayOf(q).argument)
                      THEN Answers(q, WayOf(q)) = {403}
                    ELSE Answers(q, WayOf(q)) \cap {401, 403} = {}
  BY DEF AnswersFitRegistry
<1>1. q.method # "OPTIONS" /\ Kept(config.prefix, q.method, q.path, e.auth)
  BY ListedKept
<1>2. PICK route : route = RouteOf(config.prefix, q.method, q.path)
  OBVIOUS
<1>3. route # NoRoute /\ Serves(route, q.method) /\ Honest(e.auth, EntryOf(route, q.method))
  BY <1>1, <1>2 DEF Kept
<1>4. PICK arg : arg = ArgumentOf(config.prefix, route, q.path)
  OBVIOUS
<1>5. PICK way : way = WayOf(q)
  OBVIOUS
<1>6. ~ CorsRefuses(q) /\ ~ Unreadable(q) /\ way.argument # Undecodable
  BY <1>5 DEF ReachesGates
<1>7. <<q.method, q.path>> \in Targets
  BY DEF Targets
<1>8. way.argument = arg
  <2>1. PICK found : found = Resolved[config.prefix][<<q.method, q.path>>]
    OBVIOUS
  <2>2. config.prefix \in Prefixes
    BY DEF Prefixes
  <2>3. found = [route |-> route, argument |-> arg]
    BY <1>2, <1>4, <1>7, <2>1, <2>2 DEF Resolved
  <2>4. way.argument = found.argument
    BY <1>5, <2>1 DEF WayOf
  <2> QED BY <2>3, <2>4
<1>9. /\ way.handler = EntryOf(route, q.method).handler
      /\ way.stop = GatesAnswer(EntryOf(route, q.method).gates, q, arg)
  BY <1>1, <1>2, <1>3, <1>4, <1>5, <1>6, <1>7, <1>8, WayIs
<1>10. CASE e.auth.type = "none"
  <2>1. EntryOf(route, q.method).gates = <<>>
    BY <1>3, <1>10 DEF Honest, Guarded
  <2>2. \A p : WayOf([q EXCEPT !.proof = p]).stop = Passed
    BY <1>1, <1>2, <1>3, <1>4, <1>6, <1>8, <2>1, OpenPasses
  <2> QED BY <1>10, <2>2
<1>11. CASE e.auth.type # "none"
  <2>1. Guarded(e.auth, EntryOf(route, q.method).gates) /\ Harmless(way.handler)
    BY <1>3, <1>9, <1>11 DEF Honest
  <2>2. /\ e.auth.detail = ":role" => parseRoleParam(arg)
        /\ e.auth.detail = ":scope" => parseScopeParam(arg)
    BY <1>5, <1>8 DEF ReachesGates
  <2>3. /\ ~ Identified(e.auth, q) => way.stop = 401
        /\ Identified(e.auth, q) /\ ~ Admitted(e.auth, q, arg) => way.stop = 403
        /\ Identified(e.auth, q) /\ Admitted(e.auth, q, arg) => way.stop = Passed
    BY <1>9, <2>1, <2>2, GuardedAnswer
  <2>4. HandlerAnswers(q, way) \cap {401, 403} = {}
    BY <2>1, HarmlessAnswers
  <2>5. /\ ~ Identified(e.auth, q) => Answers(q, way) = {401}
        /\ Identified(e.auth, q) /\ ~ Admitted(e.auth, q, arg) => Answers(q, way) = {403}
        /\ Identified(e.auth, q) /\ Admitted(e.auth, q, arg) => Answers(q, way) \cap {401, 403} = {}
    BY <2>3, <2>4 DEF Answers, Passed
  <2> QED BY <1>5, <1>8, <1>11, <2>5
<1> QED BY <1>10, <1>11

\* GET /routes tells the truth, for every request under the default prefix, whatever
\* credentials and rows there are.
THEOREM RegistryTold == Spec => []AnswersFitRegistry
<1>1. TypeOK => config \in Configs
  BY DEF TypeOK
<1>2. TypeOK => AnswersFitRegistry
  BY <1>1, RegistryFits
<1> QED BY <1>2, TypeCorrect, PTL
=============================================================================
