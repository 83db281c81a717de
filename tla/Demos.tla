--------------------------------- MODULE Demos ---------------------------------
(***************************************************************************)
(* The tables behind GET /status/:code, GET /errors/... and GET /test, and  *)
(* what errorHandler answers an error with.                                 *)
(***************************************************************************)
EXTENDS Parameters

\* The shapes of STATUS_CODE_DEMOS, which has an entry for every documented code.
STATUS_CODE_DEMOS ==
  [code \in DOCUMENTED_STATUS_CODES |->
     CASE code \in {200, 201, 202} -> "success"
       [] code \in {204, 304} -> "noBody"
       [] code \in {301, 302} -> "redirect"
       [] OTHER -> "error"]

\* renderStatusCodeDemo: only a redirect names another place.
Redirects == {code \in DOCUMENTED_STATUS_CODES : STATUS_CODE_DEMOS[code] = "redirect"}

NoFixedStatus == 0

FAILURE_REPRESENTING_SCENARIOS ==
  {"server-error", "service-unavailable", "rate-limit", "timeout"}

SCENARIO_FIXED_STATUS(scenario) ==
  CASE scenario = "validation-error" -> 400
    [] scenario = "unauthorized" -> 401
    [] scenario = "forbidden" -> 403
    [] scenario = "not-found" -> 404
    [] scenario = "timeout" -> 408
    [] scenario = "conflict" -> 409
    [] scenario = "rate-limit" -> 429
    [] scenario = "server-error" -> 500
    [] scenario = "service-unavailable" -> 503
    [] OTHER -> NoFixedStatus

TEST_SCENARIOS ==
  FAILURE_REPRESENTING_SCENARIOS \cup
  {"success", "validation-error", "unauthorized", "forbidden", "not-found", "conflict",
   "delayed", "large-response"}

\* The segment of an error endpoint is the name of its scenario, but for one.
ERROR_ENDPOINT_SCENARIOS(seg) == IF seg = "validation" THEN "validation-error" ELSE seg

ErrorEndpoints ==
  {"validation", "not-found", "conflict", "unauthorized", "forbidden", "rate-limit",
   "server-error", "service-unavailable", "timeout"}

\* The statuses GET /test may answer a scenario with (failureRate lets a failure
\* succeed); `override` is the documented status asked for, or none.
ScenarioAnswers(scenario, override) ==
  LET fixed == SCENARIO_FIXED_STATUS(scenario)
      asked == IF override = NoFixedStatus THEN 200 ELSE override
  IN  IF fixed = NoFixedStatus THEN {asked}
      ELSE IF override \notin {NoFixedStatus, fixed} THEN {400}
      ELSE IF scenario \in FAILURE_REPRESENTING_SCENARIOS THEN {200, fixed}
      ELSE {fixed}

TestAnswers ==
  UNION {ScenarioAnswers(s, c) :
           s \in TEST_SCENARIOS, c \in DOCUMENTED_STATUS_CODES \cup {NoFixedStatus}}

-----------------------------------------------------------------------------
(* Errors: an HttpError has its own status, the others are told by their kind.*)

HttpError(status) == [kind |-> "HttpError", status |-> status]
OtherError(kind) == [kind |-> kind, status |-> 500]

errorHandler(err) ==
  CASE err.kind = "HttpError" -> err.status
    [] err.kind = "ZodError" -> 400
    [] err.kind = "entity.parse.failed" -> 400
    [] err.kind = "entity.too.large" -> 413
    [] err.kind = "LIMIT_FILE_SIZE" -> 413
    [] err.kind = "MulterError" -> 400
    [] OTHER -> 500
=============================================================================
