-------------------------------- MODULE Registry --------------------------------
(***************************************************************************)
(* The inventory that GET /routes serves (data/routeRegistry.catalog.ts):   *)
(* every method and path with the authentication it claims to ask for.      *)
(* It is written by hand, apart from the routers.                           *)
(***************************************************************************)
EXTENDS Sequences

\* Paths are listed in full, with the default API prefix.
V1(path) == <<"api", "v1">> \o path

Auth(type, detail) == [type |-> type, detail |-> detail]

Listed(method, path, auth) == [method |-> method, path |-> path, auth |-> auth]

Plain(type) == Auth(type, "")

None == Plain("none")
Jwt == Plain("jwt")
Scope(scope) == Auth("scope", scope)

\* The six entries of a core resource and the scopes they name.
ListedResource(on, read, write, execute) ==
  {Listed("GET", V1(<<on>>), Scope(read)), Listed("POST", V1(<<on>>), Scope(write)),
   Listed("GET", V1(<<on, ":id">>), Scope(read)), Listed("PUT", V1(<<on, ":id">>), Scope(write)),
   Listed("PATCH", V1(<<on, ":id">>), Scope(write)),
   Listed("DELETE", V1(<<on, ":id">>), Scope(execute))}

ListedGets(paths, auth) == {Listed("GET", p, auth) : p \in paths}

ListedPosts(paths, auth) == {Listed("POST", p, auth) : p \in paths}

ListedErrors ==
  ListedGets({<<"errors", e>> : e \in
    {"conflict", "forbidden", "not-found", "rate-limit", "server-error",
     "service-unavailable", "timeout", "unauthorized", "validation"}}, None)

routeRegistry ==
  ListedPosts({<<"admin", "auth", "reset">>, <<"admin", "reset">>}, Plain("adminToken"))
  \cup {Listed("GET", <<"api-key", "protected">>, Plain("apiKey")),
        Listed("POST", <<"auth", "api-key", "revoke">>, Plain("apiKey")),
        Listed("GET", <<"auth-test", "basic">>, Plain("basic"))}
  \cup ListedGets({V1(<<"categories">>), V1(<<"categories", ":slug">>), V1(<<"comments">>),
                   V1(<<"comments", ":id">>), V1(<<"info">>), V1(<<"payments">>),
                   V1(<<"payments", ":id">>), V1(<<"payments", "by-date", ":date">>),
                   V1(<<"posts">>), V1(<<"posts", ":id">>), V1(<<"posts", ":id", "comments">>),
                   V1(<<"products", ":id", "category">>), V1(<<"products", ":id", "reviews">>),
                   V1(<<"reviews">>), V1(<<"reviews", ":id">>),
                   V1(<<"reviews", "by-rating", ":rating">>), V1(<<"routes">>),
                   V1(<<"search">>), V1(<<"status", ":code">>), V1(<<"test">>),
                   V1(<<"users", ":id", "posts">>)}, None)
  \cup ListedPosts({V1(<<"payments">>), V1(<<"posts", ":id", "comments">>),
                    V1(<<"users", ":id", "posts">>)}, None)
  \cup ListedResource("users", "users:read", "users:write", "users:execute")
  \cup ListedResource("products", "products:read", "products:write", "products:execute")
  \cup ListedResource("customers", "customers:read", "customers:write", "customers:execute")
  \cup ListedResource("orders", "orders:read", "orders:write", "orders:execute")
  \cup ListedGets({V1(<<"orders", ":id", "products">>), V1(<<"users", ":id", "orders">>)},
                  Scope("orders:read"))
  \cup {Listed("GET", V1(<<"protected">>), Auth("role", "admin")),
        Listed("GET", V1(<<"role", ":role">>), Auth("role", ":role")),
        Listed("GET", V1(<<"scope", ":scope">>), Auth("scope", ":scope")),
        Listed("POST", <<"auth", "logout">>, Jwt), Listed("GET", <<"auth", "me">>, Jwt)}
  \cup ListedPosts({<<"auth", "api-key">>, <<"auth", "login">>, <<"auth", "refresh">>,
                    <<"auth", "token">>, <<"content", ":type">>, <<"cookies">>, <<"files">>,
                    <<"payload">>}, None)
  \cup ListedGets({<<"auth", "token-info">>, <<"cache", "resource">>, <<"content", ":type">>,
                   <<"cookies">>, <<"delay">>, <<"delay", ":ms">>, <<"files">>,
                   <<"files", ":id">>, <<"flaky">>, <<"headers">>, <<"health">>,
                   <<"health", "live">>, <<"health", "ready">>, <<"openapi.json">>,
                   <<"openapi.yaml">>, <<"payload">>, <<"payload", ":preset">>,
                   <<"rate-limit">>, <<"version">>}, None)
  \cup {Listed("PUT", <<"cache", "resource">>, None),
        Listed("DELETE", <<"cookies">>, None), Listed("DELETE", <<"files", ":id">>, None)}
  \cup ListedErrors
=============================================================================
