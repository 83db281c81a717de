------------------------------- MODULE MCServer -------------------------------
EXTENDS Server

MCRoleOf == [t \in Token |-> IF t = "user" THEN "user" ELSE "manager"]

\* As a demo account has them, and none but levels of one resource.
MCScopesOf ==
  [t \in Token |-> IF t = "user" THEN {"users:read", "orders:execute"} ELSE {"users:write"}]

MCSeedRows == [r \in Resource |-> IF r \in {"users", "orders"} THEN <<"x">> ELSE <<>>]

Config(prefix, corsList) == [prefix |-> prefix, corsList |-> corsList]

MCConfigs == {Config(DefaultPrefix, FALSE), Config(<<"api", "v1", "">>, TRUE),
              Config(<<"">>, FALSE), Config(<<"files">>, TRUE), Config(<<"api-key">>, FALSE),
              Config(<<"docs", "api">>, FALSE)}

Ask(method, path, proof, body) ==
  [method |-> method, path |-> path, proof |-> proof, body |-> body, origin |-> NoOrigin]

Asks(method, path, proofs, body) == {Ask(method, path, p, body) : p \in proofs}

MCRequests ==
  Asks("POST", V1(<<"users">>), Token, "y")
  \cup Asks("PUT", V1(<<"users", "1">>), Token, "y")
  \cup Asks("PATCH", V1(<<"users", "2">>), {"manager"}, "x")
  \cup Asks("DELETE", V1(<<"users", "1">>), Token \cup {Nothing, "key"}, NoBody)
  \cup Asks("PATCH", V1(<<"users", "1">>), {"manager"}, NoBody)
  \cup Asks("DELETE", V1(<<"orders", "1">>), Token, NoBody)
  \cup Asks("GET", V1(<<"users", "1">>), Token, NoBody)
  \cup Asks("HEAD", V1(<<"users", "01">>), {"user"}, NoBody)
  \cup Asks("GET", V1(<<"role", "manager">>), Token, NoBody)
  \cup Asks("GET", V1(<<"scope", "users:read">>), Token, NoBody)
  \cup Asks("GET", V1(<<"protected">>), Token, NoBody)
  \cup Asks("GET", V1(<<"status", "0200">>), {Nothing}, NoBody)
  \cup Asks("DELETE", V1(<<"users">>), {"manager"}, NoBody)
  \cup Asks("GET", V1(<<"users", Undecodable>>), {"manager"}, NoBody)
  \cup Asks("GET", V1(<<"users", "">>), {"manager"}, NoBody)
  \cup Asks("POST", V1(<<"users">>), {"manager"}, Malformed)
  \cup Asks("POST", V1(<<"users">>), {"manager"}, BadBody)
  \cup Asks("POST", <<"admin", "reset">>, {AdminToken, WrongAdminToken, Nothing}, NoBody)
  \cup Asks("POST", <<"admin", "auth", "reset">>, {AdminToken, "manager"}, NoBody)
  \cup Asks("POST", <<"auth", "logout">>, Token, NoBody)
  \cup Asks("POST", <<"auth", "api-key", "revoke">>, {"key"}, NoBody)
  \cup Asks("GET", <<"api-key", "protected">>, {"key", "user"}, NoBody)
  \cup Asks("GET", <<"auth-test", "basic">>, {DemoAccount, WrongAccount}, NoBody)
  \cup Asks("GET", <<"health", "">>, {Nothing}, NoBody)
  \cup Asks("GET", <<"files", "users">>, {Nothing}, NoBody)
  \cup Asks("GET", <<"auth", "token-info">>, {Nothing, "user"}, NoBody)
  \cup Asks("GET", <<"docs", "api", "status", "200">>, {Nothing}, NoBody)
  \cup {[Ask("POST", V1(<<"users">>), "manager", "x") EXCEPT !.origin = "unlisted"],
        Ask("OPTIONS", V1(<<"users">>), Nothing, NoBody)}
=============================================================================
