------------------------------ MODULE Controllers ------------------------------
(***************************************************************************)
(* The handlers of every controller, as data: what a handler does to which  *)
(* store, the parser it gives the parameter of its path to, and the statuses*)
(* it may answer a path that parses with.  Which of them it is, and what is *)
(* done, is up to Server for the core resources and to the module of the    *)
(* component for the others.                                                *)
(***************************************************************************)
EXTENDS Integers

Handler(does, on, parser, answers) ==
  [does |-> does, on |-> on, parser |-> parser, answers |-> answers]

\* A list reads its query string (400) and cuts a page.
List(on) == Handler("list", on, "none", {200, 400})

\* A list of what belongs to the row of the path, if there is such a row.
Nested(on, parser) == Handler("list", on, parser, {200, 400, 404})

Get(on, parser) == Handler("get", on, parser, {200, 404})

\* 400: the body, or what the stores hold against it (an e-mail in use, a
\* reference to nothing).
Create(on) == Handler("create", on, "none", {201, 400})
Replace(on) == Handler("replace", on, "id", {200, 400, 404})
Patch(on) == Handler("patch", on, "id", {200, 400, 404})
Delete(on, parser) == Handler("delete", on, parser, {204, 404})

\* A handler that answers from its request alone, or from state of its own.
Demo(parser, answers) == Handler("demo", "none", parser, answers)

-----------------------------------------------------------------------------
(* Resources. *)

UserController ==
  [list |-> List("users"), get |-> Get("users", "id"), create |-> Create("users"),
   replace |-> Replace("users"), patch |-> Patch("users"), delete |-> Delete("users", "id")]

ProductController ==
  [list |-> List("products"), get |-> Get("products", "id"),
   create |-> Create("products"), replace |-> Replace("products"),
   patch |-> Patch("products"), delete |-> Delete("products", "id")]

CustomerController ==
  [list |-> List("customers"), get |-> Get("customers", "id"),
   create |-> Create("customers"), replace |-> Replace("customers"),
   patch |-> Patch("customers"), delete |-> Delete("customers", "id")]

OrderController ==
  [list |-> List("orders"), get |-> Get("orders", "id"), create |-> Create("orders"),
   replace |-> Replace("orders"), patch |-> Patch("orders"), delete |-> Delete("orders", "id"),
   forUser |-> Nested("orders", "id"), products |-> Nested("products", "id")]

CategoryController ==
  [list |-> List("categories"), get |-> Get("categories", "slug"),
   forProduct |-> Get("categories", "id")]

PostController ==
  [list |-> List("posts"), get |-> Get("posts", "uuid"), forUser |-> Nested("posts", "id"),
   createForUser |-> Handler("create", "posts", "id", {201, 400, 404})]

CommentController ==
  [list |-> List("comments"), get |-> Get("comments", "uuid"),
   forPost |-> Nested("comments", "uuid"),
   createForPost |-> Handler("create", "comments", "uuid", {201, 400, 404})]

ReviewController ==
  [list |-> List("reviews"), get |-> Get("reviews", "uuid"),
   forProduct |-> Nested("reviews", "id"),
   byRating |-> Handler("list", "reviews", "rating", {200, 400})]

PaymentController ==
  [list |-> List("payments"), get |-> Get("payments", "uuid"),
   byDate |-> Handler("list", "payments", "date", {200, 400}),
   post |-> Handler("create", "payments", "none", {200, 201, 400, 409})]

FileController ==
  [post |-> Handler("create", "files", "none", {201, 400, 409, 413}),
   list |-> List("files"), get |-> Get("files", "uuid"), delete |-> Delete("files", "uuid")]

SearchController == [search |-> List("all")]

-----------------------------------------------------------------------------
(* Authentication. *)

AuthController ==
  [login |-> Demo("none", {200, 400, 401}),
   logout |-> Handler("logout", "sessions", "none", {200, 401}),
   refresh |-> Demo("none", {200, 400, 401}),
   me |-> Demo("none", {200}),
   token |-> Demo("none", {200, 400}),
   tokenInfo |-> Handler("tokenInfo", "none", "none", {200, 400})]

ApiKeyController ==
  [issue |-> Demo("none", {201, 400}),
   protected |-> Demo("none", {200}),
   revoke |-> Handler("revoke", "apiKeys", "none", {200, 401, 404})]

BasicAuthController == [demo |-> Demo("none", {200})]

ProtectedController == [get |-> Demo("none", {200})]

RoleController == [demo |-> Demo("role", {200})]

ScopeController == [demo |-> Demo("scope", {200})]

AdminController ==
  [reset |-> Handler("resetData", "all", "none", {200}),
   authReset |-> Handler("resetAuth", "all", "none", {200})]

-----------------------------------------------------------------------------
(* Demos and the service itself. *)

HealthController ==
  [health |-> Demo("none", {200}), live |-> Demo("none", {200}),
   ready |-> Demo("none", {200, 503})]

VersionController == [get |-> Demo("none", {200})]

InfoController == [get |-> Demo("none", {200})]

RoutesController == [get |-> Demo("none", {200})]

DelayController == [byPath |-> Demo("delayMs", {200}), byQuery |-> Demo("none", {200, 400})]

PayloadController ==
  [byPreset |-> Demo("preset", {200}), bySize |-> Demo("none", {200, 400}),
   post |-> Demo("none", {200})]

ContentController ==
  [get |-> Demo("contentType", {200}), post |-> Demo("contentType", {200, 415})]

HeadersController == [get |-> Demo("none", {200})]

CookiesController ==
  [get |-> Demo("none", {200}), post |-> Demo("none", {200, 400}),
   delete |-> Demo("none", {200, 400})]

RateLimitController == [get |-> Demo("none", {200, 429})]

FlakyController == [get |-> Demo("none", {200, 400, 500, 502, 503, 504})]

CacheController == [get |-> Demo("none", {200, 304}), put |-> Demo("none", {200, 400})]

StatusCodeController(codes) == [get |-> Demo("statusCode", codes)]

TestScenarioController(codes) == [get |-> Demo("none", codes)]

\* makeErrorEndpointHandler: the one status of the scenario.
ErrorsController(code) == Demo("none", {code})

OpenapiDocument == Demo("none", {200})

\* The page, the slash that is missing after /docs, a file that is not served.
SwaggerUi == Demo("none", {200, 301, 404})
=============================================================================
