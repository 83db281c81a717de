------------------------------ MODULE RateLimit ------------------------------
(***************************************************************************)
(* GET /rate-limit: a fixed-window counter per caller (checkRateLimit).     *)
(* A caller is the value of its X-API-Key header, or its IP address.  The   *)
(* clock counts milliseconds; Retry-After is in whole seconds.              *)
(*                                                                         *)
(* `granted` is no state of the code: it remembers when each caller was let *)
(* through, since the last reset, for the properties to count.              *)
(***************************************************************************)
EXTENDS Stores, Sequences

CONSTANTS
  Caller,
  Limit,             \* config.rateLimitRequests
  Window,            \* config.rateLimitWindowMs
  MsPerSecond,       \* 1000
  MaxClock,          \* bound on the clock
  MaxCount           \* bound on a counter, which also counts refused requests

ASSUME ConfigAssumption ==
  /\ Limit \in Nat \ {0} /\ Window \in Nat \ {0} /\ MsPerSecond \in Nat \ {0}
ASSUME BoundAssumption == MaxClock \in Nat /\ MaxCount \in Nat /\ Limit <= MaxCount

VARIABLES
  enabled,           \* config.rateLimitEnabled, fixed when the server starts
  counters,          \* rateLimitStore: caller -> [count, windowStart]
  now,
  reply,             \* the latest response
  granted            \* granted[c]: the times at which c was let through

vars == <<enabled, counters, now, reply, granted>>

Clock == 0 .. MaxClock

\* Mutant: the window that ends now has not ended.
WindowOverLate(c) ==
  c \notin DOMAIN counters \/ now > counters[c].windowStart + Window

WindowOver(c) ==
  c \notin DOMAIN counters \/ now >= counters[c].windowStart + Window

\* Mutant: every request starts its window anew.
CountedSliding(c) ==
  IF WindowOver(c) THEN [count |-> 1, windowStart |-> now]
  ELSE [count |-> counters[c].count + 1, windowStart |-> now]

Counted(c) ==
  IF WindowOver(c) THEN [count |-> 1, windowStart |-> now]
  ELSE [counters[c] EXCEPT !.count = @ + 1]

\* Mutant: one request too many.
WithinInclusive(record) == record.count <= Limit + 1

Within(record) == record.count <= Limit

CeilDiv(a, b) == (a + b - 1) \div b

RetryAfter(record) == CeilDiv(record.windowStart + Window - now, MsPerSecond)

-----------------------------------------------------------------------------
Init ==
  /\ enabled \in BOOLEAN
  /\ counters = EmptyStore
  /\ now = 0
  /\ reply = [status |-> "none"]
  /\ granted = [c \in Caller |-> <<>>]

Grant(c) ==
  granted' = [granted EXCEPT ![c] = Append(@, now)]

Allow(c) ==
  /\ enabled
  /\ Within(Counted(c))
  /\ counters' = Put(counters, c, Counted(c))
  /\ reply' = [status |-> "ok", caller |-> c, remaining |-> Limit - Counted(c).count]
  /\ Grant(c)
  /\ UNCHANGED <<enabled, now>>

\* A refused request counts too.
Refuse(c) ==
  /\ enabled
  /\ ~ Within(Counted(c))
  /\ Counted(c).count <= MaxCount
  /\ counters' = Put(counters, c, Counted(c))
  /\ reply' = [status |-> "limited", caller |-> c, at |-> now,
               retryAfter |-> RetryAfter(Counted(c))]
  /\ UNCHANGED <<enabled, now, granted>>

AllowUnlimited(c) ==
  /\ ~ enabled
  /\ reply' = [status |-> "ok", caller |-> c, remaining |-> Limit]
  /\ UNCHANGED <<enabled, counters, now, granted>>

\* POST /admin/reset
Reset ==
  /\ counters' = EmptyStore
  /\ reply' = [status |-> "none"]
  /\ granted' = [c \in Caller |-> <<>>]
  /\ UNCHANGED <<enabled, now>>

Tick ==
  /\ now < MaxClock
  /\ now' = now + 1
  /\ UNCHANGED <<enabled, counters, reply, granted>>

Next ==
  \/ \E c \in Caller : Allow(c) \/ Refuse(c) \/ AllowUnlimited(c)
  \/ Reset
  \/ Tick

Spec == Init /\ [][Next]_vars

-----------------------------------------------------------------------------
(* Properties. *)

GrantedIn(c, from, to) ==
  Cardinality({i \in DOMAIN granted[c] : granted[c][i] \in from .. to})

\* Counters are of callers, start at 1 and lie in the past.
TypeOK ==
  /\ DOMAIN counters \subseteq Caller
  /\ \A c \in DOMAIN counters : counters[c].count \in 1 .. MaxCount
                                /\ counters[c].windowStart \in 0 .. now
  /\ enabled \in BOOLEAN /\ now \in Clock
  /\ reply.status \in {"none", "ok", "limited"}

\* In the window a counter stands for, its caller was let through exactly as
\* often as the counter says, and never more than Limit times.
WindowQuota ==
  \A c \in DOMAIN counters :
    GrantedIn(c, counters[c].windowStart, now)
      = (IF counters[c].count <= Limit THEN counters[c].count ELSE Limit)

\* Wherever a client lays a span of one window's length over time, it counts at
\* most twice Limit: the burst at the seam of two windows is the worst.
SeamQuota ==
  \A c \in Caller, t \in Clock :
    t + Window - 1 <= MaxClock => GrantedIn(c, t, t + Window - 1) <= 2 * Limit

\* Retry-After is a promise: it is at least a second, a caller that waits it
\* out finds a new window, and it is never a whole second too long.
RetryAfterIsKept ==
  reply.status = "limited" =>
    LET opens == counters[reply.caller].windowStart + Window
        retry == reply.at + reply.retryAfter * MsPerSecond
    IN reply.retryAfter >= 1 /\ opens <= retry /\ retry < opens + MsPerSecond
=============================================================================
