------------------------------ MODULE Parameters ------------------------------
(***************************************************************************)
(* Path segments, the parsers of path parameters (utils/*Param.ts), and the *)
(* scopes and roles that some of the parameters name (models/enums.ts,      *)
(* auth/scopes.ts).                                                         *)
(*                                                                         *)
(* A segment is a string that is compared, never taken apart: what a parser *)
(* accepts is stated for the segments the model uses.                       *)
(***************************************************************************)
EXTENDS Integers, Sequences

\* A parameter in a route's path stands for any segment.
Params == {":id", ":slug", ":date", ":rating", ":code", ":role", ":scope",
           ":type", ":preset", ":ms"}

\* A segment decodeURIComponent throws on.
Undecodable == "%E0"

NotANumber == -1

\* A numeral above Number.MAX_SAFE_INTEGER.
Unsafe == -2

\* Number(raw) of a segment that matches ^\d+$.
NumberOf(seg) ==
  CASE seg = "0" -> 0
    [] seg \in {"1", "01"} -> 1
    [] seg = "2" -> 2
    [] seg = "5" -> 5
    [] seg = "6" -> 6
    [] seg \in {"200", "0200"} -> 200
    [] seg = "418" -> 418
    [] seg = "600" -> 600
    [] seg = "9007199254740993" -> Unsafe
    [] OTHER -> NotANumber

-----------------------------------------------------------------------------
(* Scopes and roles. *)

USER_ROLES == {"user", "admin", "manager", "readonly"}

\* parseLeveledScope; the rank is that of SCOPE_LEVEL_RANK: read, write, execute.
Leveled(text, resource, rank) == [text |-> text, resource |-> resource, rank |-> rank]

LeveledScopes ==
  {Leveled("users:read", "users", 1), Leveled("users:write", "users", 2),
   Leveled("users:execute", "users", 3),
   Leveled("products:read", "products", 1), Leveled("products:write", "products", 2),
   Leveled("products:execute", "products", 3),
   Leveled("orders:read", "orders", 1), Leveled("orders:write", "orders", 2),
   Leveled("orders:execute", "orders", 3),
   Leveled("customers:read", "customers", 1), Leveled("customers:write", "customers", 2),
   Leveled("customers:execute", "customers", 3)}

SCOPES == {s.text : s \in LeveledScopes} \cup {"admin"}

\* A higher level on the same resource includes the lower ones; admin is every scope.
HasScope(scopes, required) ==
  \/ "admin" \in scopes
  \/ required \in scopes
  \/ \E needed, granted \in LeveledScopes :
       /\ needed.text = required
       /\ granted.text \in scopes
       /\ granted.resource = needed.resource
       /\ granted.rank >= needed.rank

-----------------------------------------------------------------------------
(* The parsers: does each accept a segment? *)

parseIdParam(seg) == NumberOf(seg) >= 1

parseUuidParam(seg) == seg = "1f0e8a52-6c1e-4b7e-9a57-0d2f3c4b5a69"

parseRatingParam(seg) == NumberOf(seg) \in 1 .. 5

\* Lowercase letters, digits and single hyphens: all segments in use but these.
parseSlugParam(seg) ==
  seg \notin {"", "users:read", "Books"} \cup {Undecodable}

\* A day of the calendar.
parseDateParam(seg) == seg = "2024-01-31"

parseRoleParam(seg) == seg \in USER_ROLES

parseScopeParam(seg) == seg \in SCOPES

parseContentTypeParam(seg) == seg \in {"json", "text", "html", "xml"}

parsePayloadPresetParam(seg) == seg \in {"small", "medium", "large"}

\* Number may exceed no limit the model uses; no sign, no fraction.
parseDelayMsParam(seg) == NumberOf(seg) >= 0

DOCUMENTED_STATUS_CODES ==
  {200, 201, 202, 204, 301, 302, 304, 400, 401, 403, 404, 405, 406, 408, 409, 410,
   415, 422, 429, 500, 501, 502, 503, 504}

\* "0200" is refused (no leading zero), and so is a status without a demo.
parseStatusCodeParam(seg) == seg # "0200" /\ NumberOf(seg) \in DOCUMENTED_STATUS_CODES

\* Which parser a handler gives the parameter of its path to.
Accepts(parser, seg) ==
  CASE parser = "none" -> TRUE
    [] parser = "id" -> parseIdParam(seg)
    [] parser = "uuid" -> parseUuidParam(seg)
    [] parser = "rating" -> parseRatingParam(seg)
    [] parser = "slug" -> parseSlugParam(seg)
    [] parser = "date" -> parseDateParam(seg)
    [] parser = "role" -> parseRoleParam(seg)
    [] parser = "scope" -> parseScopeParam(seg)
    [] parser = "contentType" -> parseContentTypeParam(seg)
    [] parser = "preset" -> parsePayloadPresetParam(seg)
    [] parser = "delayMs" -> parseDelayMsParam(seg)
    [] parser = "statusCode" -> parseStatusCodeParam(seg)
=============================================================================
