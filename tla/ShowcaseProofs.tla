----------------------------- MODULE ShowcaseProofs -----------------------------
(***************************************************************************)
(* Theorems about the demonstration endpoints that keep state of their own: *)
(* the rate limiter (RateLimit), simulated failures (SeededFailures) and    *)
(* the cached resource (CacheResource), each for every value of its         *)
(* constants.  They share no variable.                                      *)
(*                                                                         *)
(* RateLimit: a quota is kept because the grants counted in a caller's      *)
(* window are its counter, up to Limit, and because the span of one window's *)
(* length before it saw no more than Limit either (QuotaBefore).            *)
(*                                                                         *)
(* SeededFailures: the log since a reset and the log before it draw from    *)
(* the same stream (IsLife), so that the next answers agree if all those so *)
(* far did.                                                                *)
(*                                                                         *)
(* CacheResource: what a client was told is true because its copy, until    *)
(* the next reset, is the resource or an older state of it (Faithful).      *)
(***************************************************************************)
EXTENDS RateLimit, SeededFailures, CacheResource, StoresProofs, FiniteSetTheorems

-----------------------------------------------------------------------------
(* RateLimit. *)

\* The requests of a sequence of times that fall between two times.
Positions(times, from, to) == {i \in DOMAIN times : times[i] \in from .. to}

\* A caller was let through in the past, and in no window but that of its counter
\* and the ones before it.
GrantsArePast ==
  /\ granted \in [Caller -> Seq(Nat)]
  /\ \A c \in Caller : \A i \in DOMAIN granted[c] : granted[c][i] <= now
  /\ \A c \in DOMAIN counters : \A i \in DOMAIN granted[c] :
       granted[c][i] < counters[c].windowStart + Window

\* Without a counter a caller has not been let through.
NoCounterNoGrant == \A c \in Caller \ DOMAIN counters : granted[c] = <<>>

\* The span of one window's length before a window saw at most Limit requests.
QuotaBefore ==
  \A c \in DOMAIN counters :
    GrantedIn(c, counters[c].windowStart - Window, counters[c].windowStart - 1) <= Limit

\* Any span of one window's length, wherever it lies.
QuotaAnywhere ==
  \A c \in Caller, t \in Int : GrantedIn(c, t, t + Window - 1) <= 2 * Limit

\* A refusal belongs to the window its caller's counter still stands for.
RefusedInWindow ==
  reply.status = "limited" =>
    /\ reply.caller \in DOMAIN counters
    /\ reply.at \in counters[reply.caller].windowStart
                    .. counters[reply.caller].windowStart + Window - 1
    /\ reply.retryAfter
         = CeilDiv(counters[reply.caller].windowStart + Window - reply.at, MsPerSecond)

IInv ==
  /\ TypeOK /\ GrantsArePast /\ NoCounterNoGrant
  /\ WindowQuota /\ QuotaBefore /\ QuotaAnywhere /\ RefusedInWindow

-----------------------------------------------------------------------------
\* The positions in a span are finitely many.
LEMMA PositionsFinite ==
  ASSUME NEW times \in Seq(Nat), NEW from \in Int, NEW to \in Int
  PROVE  /\ IsFiniteSet(Positions(times, from, to))
         /\ Cardinality(Positions(times, from, to)) \in Nat
<1>1. Positions(times, from, to) \subseteq 1 .. Len(times) /\ Len(times) \in Nat
  BY DEF Positions
<1>2. IsFiniteSet(1 .. Len(times))
  BY <1>1, FS_Interval
<1> QED BY <1>1, <1>2, FS_Subset, FS_CardinalityType

\* A span that catches every time another one catches counts at least as many.
LEMMA WiderCountsMore ==
  ASSUME NEW times \in Seq(Nat), NEW a \in Int, NEW b \in Int, NEW from \in Int, NEW to \in Int,
         \A i \in DOMAIN times : times[i] \in a .. b => times[i] \in from .. to
  PROVE  Cardinality(Positions(times, a, b)) <= Cardinality(Positions(times, from, to))
<1>1. Positions(times, a, b) \subseteq Positions(times, from, to)
  BY DEF Positions
<1> QED BY <1>1, PositionsFinite, FS_Subset

\* A span cut in two counts no more than its parts.
LEMMA SplitCounts ==
  ASSUME NEW times \in Seq(Nat), NEW from \in Int, NEW cut \in Int, NEW to \in Int
  PROVE  Cardinality(Positions(times, from, to))
           <= Cardinality(Positions(times, from, cut - 1)) + Cardinality(Positions(times, cut, to))
<1> DEFINE left == Positions(times, from, cut - 1)
           right == Positions(times, cut, to)
<1>1. Positions(times, from, to) \subseteq left \cup right
  BY DEF Positions
<1>2. /\ IsFiniteSet(left) /\ IsFiniteSet(right)
      /\ Cardinality(left) \in Nat /\ Cardinality(right) \in Nat
  <2>1. cut - 1 \in Int
    OBVIOUS
  <2> QED BY <2>1, PositionsFinite
<1> HIDE DEF left, right
<1>3. /\ IsFiniteSet(left \cup right)
      /\ Cardinality(left \cup right) = Cardinality(left) + Cardinality(right)
                                          - Cardinality(left \cap right)
  BY <1>2, FS_Union
<1>4. Cardinality(left \cap right) \in Nat
  BY <1>2, FS_Intersection, FS_CardinalityType
<1>5. Cardinality(Positions(times, from, to)) <= Cardinality(left \cup right)
  BY <1>1, <1>3, FS_Subset
<1>6. Cardinality(Positions(times, from, to)) \in Nat
  BY PositionsFinite
<1> QED BY <1>2, <1>3, <1>4, <1>5, <1>6 DEF left, right

\* One more time counts in the spans it falls into.
LEMMA OneMoreCounts ==
  ASSUME NEW times \in Seq(Nat), NEW t \in Nat, NEW from \in Int, NEW to \in Int
  PROVE  Cardinality(Positions(Append(times, t), from, to))
           = Cardinality(Positions(times, from, to)) + (IF t \in from .. to THEN 1 ELSE 0)
<1> DEFINE new == Len(times) + 1
           counted == Positions(times, from, to)
<1>1. /\ Len(times) \in Nat /\ DOMAIN times = 1 .. Len(times)
      /\ DOMAIN Append(times, t) = 1 .. Len(times) + 1
      /\ Append(times, t)[new] = t
      /\ \A i \in 1 .. Len(times) : Append(times, t)[i] = times[i]
  OBVIOUS
<1>2. IsFiniteSet(counted) /\ Cardinality(counted) \in Nat
  BY PositionsFinite
<1>3. new \notin counted
  BY <1>1 DEF Positions
<1>4. CASE t \in from .. to
  <2>1. Positions(Append(times, t), from, to) = counted \cup {new}
    BY <1>1, <1>4 DEF Positions
  <2> HIDE DEF counted, new
  <2>2. Cardinality(counted \cup {new}) = Cardinality(counted) + 1
    BY <1>2, <1>3, FS_AddElement
  <2> QED BY <2>1, <2>2, <1>4 DEF counted
<1>5. CASE t \notin from .. to
  <2>1. Positions(Append(times, t), from, to) = counted
    BY <1>1, <1>5 DEF Positions
  <2> QED BY <2>1, <1>2, <1>5
<1> QED BY <1>4, <1>5

\* Rounded up: at least 1, enough, and less than one too many.
LEMMA RoundedUp ==
  ASSUME NEW a \in Nat \ {0}, NEW b \in Nat \ {0}
  PROVE  /\ CeilDiv(a, b) \in Nat \ {0}
         /\ a <= CeilDiv(a, b) * b /\ CeilDiv(a, b) * b < a + b
<1> DEFINE n == a + b - 1
           q == n \div b
           r == n % b
<1>1. n \in Nat /\ n >= b
  OBVIOUS
<1>2. q \in Int /\ r \in 0 .. b - 1 /\ n = b * q + r
  OBVIOUS
<1>3. CeilDiv(a, b) = q
  BY DEF CeilDiv
<1> HIDE DEF q, r
<1>4. b * q = q * b /\ q * b \in Int
  BY <1>2
<1>5. a <= q * b /\ q * b < a + b
  BY <1>2, <1>4
<1>6. q > 0
  <2> SUFFICES ASSUME q <= 0 PROVE FALSE
    BY <1>2
  <2>1. q * b <= 0
    BY <1>2
  <2> QED BY <2>1, <1>5, <1>4
<1> QED BY <1>2, <1>3, <1>5, <1>6
-----------------------------------------------------------------------------
\* Grants are counted by position, before and after a step.
LEMMA CountByPosition ==
  /\ \A c, from, to : GrantedIn(c, from, to) = Cardinality(Positions(granted[c], from, to))
  /\ \A c, from, to : GrantedIn(c, from, to)' = Cardinality(Positions(granted'[c], from, to))
BY DEF GrantedIn, Positions

\* Nobody is let through in no time at all.
LEMMA NothingCounts ==
  ASSUME NEW from \in Int, NEW to \in Int
  PROVE  Cardinality(Positions(<<>>, from, to)) = 0
<1>1. Positions(<<>>, from, to) = {}
  BY DEF Positions
<1> QED BY <1>1, FS_EmptySet

\* What the types say of the clock and of a counter.
LEMMA StateFacts ==
  ASSUME IInv
  PROVE  /\ Limit \in Nat \ {0} /\ Window \in Nat \ {0} /\ now \in Nat
         /\ \A c \in DOMAIN counters :
              /\ c \in Caller /\ counters[c].count \in Nat \ {0}
              /\ counters[c].windowStart \in Nat /\ counters[c].windowStart <= now
         /\ \A c \in Caller : granted[c] \in Seq(Nat)
BY ConfigAssumption, BoundAssumption DEF IInv, TypeOK, GrantsArePast, Clock

\* The record a request leaves: of the window that goes on, or of a new one.
LEMMA CountedFacts ==
  ASSUME IInv, NEW c \in Caller
  PROVE  /\ Counted(c).count \in Nat \ {0}
         /\ Counted(c).windowStart \in 0 .. now
         /\ now < Counted(c).windowStart + Window
         /\ ~ WindowOver(c) => /\ c \in DOMAIN counters
                               /\ Counted(c).count = counters[c].count + 1
                               /\ Counted(c).windowStart = counters[c].windowStart
         /\ WindowOver(c) => /\ Counted(c).count = 1 /\ Counted(c).windowStart = now
                             /\ \A i \in DOMAIN granted[c] : granted[c][i] < now
<1>1. CASE WindowOver(c)
  <2>1. Counted(c) = [count |-> 1, windowStart |-> now]
    BY <1>1 DEF Counted
  <2>2. \A i \in DOMAIN granted[c] : granted[c][i] < now
    <3>1. CASE c \in DOMAIN counters
      <4>1. now >= counters[c].windowStart + Window
        BY <1>1, <3>1 DEF WindowOver
      <4>2. \A i \in DOMAIN granted[c] :
              granted[c][i] \in Nat /\ granted[c][i] < counters[c].windowStart + Window
        BY <3>1, StateFacts DEF IInv, GrantsArePast
      <4> QED BY <3>1, <4>1, <4>2, StateFacts
    <3>2. CASE c \notin DOMAIN counters
      BY <3>2 DEF IInv, NoCounterNoGrant
    <3> QED BY <3>1, <3>2
  <2> QED BY <1>1, <2>1, <2>2, StateFacts
<1>2. CASE ~ WindowOver(c)
  <2>1. c \in DOMAIN counters /\ ~ (now >= counters[c].windowStart + Window)
    BY <1>2 DEF WindowOver
  <2>2. Counted(c) = [counters[c] EXCEPT !.count = @ + 1]
    BY <1>2 DEF Counted
  <2>3. Counted(c).windowStart = counters[c].windowStart
    BY <2>2
  <2>4. Counted(c).count = counters[c].count + 1
    BY <2>2 DEF IInv, TypeOK
  <2> QED BY <1>2, <2>1, <2>3, <2>4, StateFacts
<1> QED BY <1>1, <1>2
-----------------------------------------------------------------------------
\* The quota of the caller that is let through: one more in its window, nothing
\* more before it, and never more than two windows in one span.
LEMMA AllowedQuota ==
  ASSUME IInv, NEW c \in Caller, Counted(c).count <= Limit
  PROVE  LET times == Append(granted[c], now)
             from == Counted(c).windowStart
         IN /\ Cardinality(Positions(times, from, now)) = Counted(c).count
            /\ Cardinality(Positions(times, from - Window, from - 1)) <= Limit
            /\ \A t \in Int : Cardinality(Positions(times, t, t + Window - 1)) <= 2 * Limit
<1> DEFINE past == granted[c]
           times == Append(past, now)
           from == Counted(c).windowStart
<1>1. /\ past \in Seq(Nat) /\ now \in Nat
      /\ Limit \in Nat \ {0} /\ Window \in Nat \ {0}
      /\ times \in Seq(Nat)
      /\ \A i \in DOMAIN past : past[i] \in Nat /\ past[i] <= now
      /\ \A i \in DOMAIN times : times[i] \in Nat /\ times[i] <= now
  BY StateFacts DEF IInv, GrantsArePast
<1>2. from \in Nat /\ from <= now /\ now < from + Window /\ Counted(c).count \in Nat \ {0}
  BY CountedFacts, <1>1
<1>3. /\ WindowQuota /\ QuotaBefore /\ QuotaAnywhere /\ NoCounterNoGrant
      /\ \A x, a, b : GrantedIn(x, a, b) = Cardinality(Positions(granted[x], a, b))
  BY CountByPosition DEF IInv
<1>4. Cardinality(Positions(past, from, now)) = Counted(c).count - 1
  <2>1. CASE WindowOver(c)
    <3>1. Positions(past, from, now) = {}
      BY <2>1, CountedFacts DEF Positions
    <3> QED BY <3>1, <2>1, CountedFacts, FS_EmptySet
  <2>2. CASE ~ WindowOver(c)
    <3>1. /\ c \in DOMAIN counters /\ Counted(c).count = counters[c].count + 1
          /\ from = counters[c].windowStart /\ counters[c].count \in Nat
      BY <2>2, CountedFacts, StateFacts
    <3>2. counters[c].count <= Limit
      BY <3>1, <1>1
    <3> QED BY <3>1, <3>2, <1>3 DEF WindowQuota
  <2> QED BY <2>1, <2>2
<1>5. Cardinality(Positions(past, from - Window, from - 1)) <= Limit
  <2>1. CASE ~ WindowOver(c)
    BY <2>1, <1>3, CountedFacts DEF QuotaBefore
  <2>2. CASE WindowOver(c) /\ c \in DOMAIN counters
    <3> DEFINE start == counters[c].windowStart
    <3>1. from = now /\ start \in Nat /\ start + Window <= now
      BY <2>2, CountedFacts, StateFacts DEF WindowOver
    <3>2. \A i \in DOMAIN past :
            past[i] \in from - Window .. from - 1 => past[i] \in start .. now
      BY <1>1, <3>1
    <3>3. Cardinality(Positions(past, from - Window, from - 1))
            <= Cardinality(Positions(past, start, now))
      <4>1. from - Window \in Int /\ from - 1 \in Int
        BY <1>1, <3>1
      <4> QED BY <1>1, <3>1, <3>2, <4>1, WiderCountsMore
    <3>4. Cardinality(Positions(past, start, now)) <= Limit
      BY <2>2, <1>1, <1>3, StateFacts DEF WindowQuota
    <3>5. /\ Cardinality(Positions(past, from - Window, from - 1)) \in Nat
          /\ Cardinality(Positions(past, start, now)) \in Nat
      <4>1. from - Window \in Int /\ from - 1 \in Int
        BY <1>1, <3>1
      <4> QED BY <4>1, <1>1, <3>1, PositionsFinite
    <3> QED BY <3>3, <3>4, <3>5, <1>1
  <2>3. CASE c \notin DOMAIN counters
    <3>1. past = <<>>
      BY <2>3, <1>3 DEF NoCounterNoGrant
    <3>2. from - Window \in Int /\ from - 1 \in Int
      BY <1>1, <1>2
    <3> QED BY <3>1, <3>2, NothingCounts, <1>1
  <2> QED BY <2>1, <2>2, <2>3
<1>6. Cardinality(Positions(times, from, now)) = Counted(c).count
  <2>1. now \in from .. now
    BY <1>1, <1>2
  <2> QED BY <2>1, <1>1, <1>2, <1>4, OneMoreCounts
<1>7. Cardinality(Positions(times, from - Window, from - 1)) <= Limit
  <2>1. from - Window \in Int /\ from - 1 \in Int /\ now \notin from - Window .. from - 1
    BY <1>1, <1>2
  <2> HIDE DEF from, past
  <2>2. Cardinality(Positions(times, from - Window, from - 1))
          = Cardinality(Positions(past, from - Window, from - 1)) + 0
    BY <2>1, <1>1, OneMoreCounts
  <2>3. Cardinality(Positions(past, from - Window, from - 1)) \in Nat
    BY <2>1, <1>1, PositionsFinite
  <2> QED BY <2>2, <2>3, <1>5
<1>8. ASSUME NEW t \in Int
      PROVE  Cardinality(Positions(times, t, t + Window - 1)) <= 2 * Limit
  <2> DEFINE end == t + Window - 1
  <2>0. end \in Int /\ from - 1 \in Int /\ from - Window \in Int
    BY <1>1, <1>2
  <2> HIDE DEF from, past
  <2>1. CASE now \notin t .. end
    <3>1. Cardinality(Positions(times, t, end)) = Cardinality(Positions(past, t, end)) + 0
      BY <2>0, <2>1, <1>1, OneMoreCounts
    <3>2. Cardinality(Positions(past, t, end)) <= 2 * Limit
      BY <1>3 DEF QuotaAnywhere, past
    <3>3. Cardinality(Positions(past, t, end)) \in Nat
      BY <2>0, <1>1, PositionsFinite
    <3> QED BY <3>1, <3>2, <3>3
  <2>2. CASE now \in t .. end
    <3>1. Cardinality(Positions(times, t, from - 1))
            <= Cardinality(Positions(times, from - Window, from - 1))
      <4>1. \A i \in DOMAIN times :
              times[i] \in t .. from - 1 => times[i] \in from - Window .. from - 1
        BY <2>2, <1>1, <1>2
      <4> HIDE DEF times
      <4> QED BY <4>1, <2>0, <1>1, WiderCountsMore
    <3>2. Cardinality(Positions(times, from, end)) <= Cardinality(Positions(times, from, now))
      <4>1. \A i \in DOMAIN times : times[i] \in from .. end => times[i] \in from .. now
        BY <1>1, <1>2
      <4> HIDE DEF times
      <4> QED BY <4>1, <2>0, <1>1, <1>2, WiderCountsMore
    <3>3. Cardinality(Positions(times, t, end))
            <= Cardinality(Positions(times, t, from - 1)) + Cardinality(Positions(times, from, end))
      <4> HIDE DEF times, end
      <4> QED BY <2>0, <1>1, <1>2, SplitCounts
    <3>4. /\ Cardinality(Positions(times, t, end)) \in Nat
          /\ Cardinality(Positions(times, t, from - 1)) \in Nat
          /\ Cardinality(Positions(times, from, end)) \in Nat
          /\ Cardinality(Positions(times, from - Window, from - 1)) \in Nat
      <4> HIDE DEF times, end
      <4> QED BY <2>0, <1>1, <1>2, PositionsFinite
    <3> HIDE DEF times, end
    <3>5. Cardinality(Positions(times, t, end)) <= Limit + Limit
      BY <3>1, <3>2, <3>3, <3>4, <1>1, <1>2, <1>6, <1>7
    <3> QED BY <3>5, <1>1 DEF end
  <2> QED BY <2>1, <2>2
<1> QED BY <1>6, <1>7, <1>8
-----------------------------------------------------------------------------
\* A request that is let through.
LEMMA AllowPreserves ==
  ASSUME IInv, NEW c \in Caller, Allow(c)
  PROVE  IInv'
<1> DEFINE times == Append(granted[c], now)
           from == Counted(c).windowStart
<1>1. /\ now' = now /\ enabled' = enabled
      /\ reply' = [status |-> "ok", caller |-> c, remaining |-> Limit - Counted(c).count]
      /\ DOMAIN counters' = DOMAIN counters \cup {c}
      /\ counters'[c] = Counted(c)
      /\ \A x \in DOMAIN counters \ {c} : counters'[x] = counters[x]
      /\ granted' = [granted EXCEPT ![c] = times]
      /\ Counted(c).count <= Limit
  BY DEF Allow, Put, Grant, Within
<1>2. /\ granted \in [Caller -> Seq(Nat)] /\ times \in Seq(Nat)
      /\ \A x \in DOMAIN counters : x \in Caller
      /\ now \in Nat /\ Limit \in Nat \ {0} /\ Window \in Nat \ {0}
      /\ Limit <= MaxCount /\ MaxCount \in Nat
  BY StateFacts, BoundAssumption DEF IInv, GrantsArePast
<1>3. granted'[c] = times /\ \A x \in Caller \ {c} : granted'[x] = granted[x]
  BY <1>1, <1>2
<1>4. /\ Counted(c).count \in Nat \ {0} /\ from \in 0 .. now /\ now < from + Window
  BY CountedFacts
<1>5. /\ Cardinality(Positions(times, from, now)) = Counted(c).count
      /\ Cardinality(Positions(times, from - Window, from - 1)) <= Limit
      /\ \A t \in Int : Cardinality(Positions(times, t, t + Window - 1)) <= 2 * Limit
  BY <1>1, AllowedQuota
<1>6. TypeOK'
  BY <1>1, <1>2, <1>4 DEF IInv, TypeOK
<1>7. GrantsArePast'
  <2>1. granted' \in [Caller -> Seq(Nat)]
    BY <1>1, <1>2
  <2>2. \A i \in DOMAIN times : times[i] <= now /\ times[i] < from + Window
    BY <1>2, <1>4 DEF IInv, GrantsArePast
  <2> HIDE DEF times, from
  <2> QED BY <2>1, <2>2, <1>1, <1>2, <1>3 DEF IInv, GrantsArePast, from
<1>8. NoCounterNoGrant'
  BY <1>1, <1>3 DEF IInv, NoCounterNoGrant
<1> HIDE DEF times, from
<1>9. WindowQuota' /\ QuotaBefore' /\ QuotaAnywhere'
  BY <1>1, <1>2, <1>3, <1>5, CountByPosition
     DEF IInv, WindowQuota, QuotaBefore, QuotaAnywhere, from
<1>10. RefusedInWindow'
  BY <1>1 DEF RefusedInWindow
<1> QED BY <1>6, <1>7, <1>8, <1>9, <1>10 DEF IInv

\* A refused request: counted in the window it was refused in.
LEMMA RefusePreserves ==
  ASSUME IInv, NEW c \in Caller, Refuse(c)
  PROVE  IInv'
<1> DEFINE record == Counted(c)
<1>1. /\ UNCHANGED <<enabled, now, granted>>
      /\ reply' = [status |-> "limited", caller |-> c, at |-> now,
                   retryAfter |-> RetryAfter(record)]
      /\ DOMAIN counters' = DOMAIN counters \cup {c}
      /\ counters'[c] = record
      /\ \A x \in DOMAIN counters \ {c} : counters'[x] = counters[x]
      /\ ~ (record.count <= Limit) /\ record.count <= MaxCount
  BY DEF Refuse, Put, Within
<1>2. /\ now \in Nat /\ Limit \in Nat \ {0} /\ Window \in Nat \ {0} /\ MaxCount \in Nat
      /\ record.count \in Nat \ {0} /\ record.windowStart \in 0 .. now
      /\ now < record.windowStart + Window
  BY StateFacts, CountedFacts, BoundAssumption
<1>3. ~ WindowOver(c)
  BY <1>1, <1>2, CountedFacts
<1>4. /\ c \in DOMAIN counters /\ counters[c].count \in Nat
      /\ record.count = counters[c].count + 1
      /\ record.windowStart = counters[c].windowStart
  BY <1>3, CountedFacts, StateFacts
<1> HIDE DEF record
<1>5. DOMAIN counters' = DOMAIN counters
  BY <1>1, <1>4
<1>6. TypeOK'
  BY <1>1, <1>2, <1>5 DEF IInv, TypeOK, Clock
<1>7. GrantsArePast' /\ NoCounterNoGrant'
  BY <1>1, <1>4, <1>5 DEF IInv, GrantsArePast, NoCounterNoGrant
<1>8. WindowQuota'
  <2>1. counters[c].count >= Limit /\ record.count > Limit
    BY <1>1, <1>2, <1>4
  <2>2. GrantedIn(c, counters[c].windowStart, now) = Limit
    BY <2>1, <1>2, <1>4 DEF IInv, WindowQuota
  <2> QED BY <2>1, <2>2, <1>1, <1>2, <1>4, <1>5, CountByPosition DEF IInv, WindowQuota
<1>9. QuotaBefore' /\ QuotaAnywhere'
  BY <1>1, <1>4, <1>5, CountByPosition DEF IInv, QuotaBefore, QuotaAnywhere
<1>10. RefusedInWindow'
  <2>1. reply'.retryAfter = CeilDiv(record.windowStart + Window - now, MsPerSecond)
    BY <1>1 DEF RetryAfter
  <2> QED BY <2>1, <1>1, <1>2, <1>5, <1>4 DEF RefusedInWindow
<1> QED BY <1>6, <1>7, <1>8, <1>9, <1>10 DEF IInv

\* Time passes: a window is counted as before, for nothing happens in it.
LEMMA TickPreserves ==
  ASSUME IInv, Tick
  PROVE  IInv'
<1>1. /\ UNCHANGED <<enabled, counters, reply, granted>>
      /\ now' = now + 1 /\ now < MaxClock /\ now \in Nat
  BY StateFacts DEF Tick
<1>2. TypeOK' /\ GrantsArePast'
  <2>1. TypeOK'
    BY <1>1, BoundAssumption, StateFacts DEF IInv, TypeOK, Clock
  <2>2. \A x \in Caller : \A i \in DOMAIN granted[x] :
          granted[x][i] \in Nat /\ granted[x][i] <= now
    BY DEF IInv, GrantsArePast
  <2> QED BY <1>1, <2>1, <2>2 DEF IInv, GrantsArePast
<1>3. \A x \in DOMAIN counters :
        Positions(granted[x], counters[x].windowStart, now + 1)
          = Positions(granted[x], counters[x].windowStart, now)
  <2> SUFFICES ASSUME NEW x \in DOMAIN counters
               PROVE  \A i \in DOMAIN granted[x] :
                        granted[x][i] \in counters[x].windowStart .. now + 1
                          <=> granted[x][i] \in counters[x].windowStart .. now
    BY DEF Positions
  <2>1. \A i \in DOMAIN granted[x] : granted[x][i] \in Nat /\ granted[x][i] <= now
    BY StateFacts DEF IInv, GrantsArePast
  <2> QED BY <2>1, <1>1, StateFacts
<1>4. WindowQuota'
  BY <1>1, <1>3, CountByPosition DEF IInv, WindowQuota
<1>5. NoCounterNoGrant' /\ QuotaBefore' /\ QuotaAnywhere'
  BY <1>1, CountByPosition DEF IInv, NoCounterNoGrant, QuotaBefore, QuotaAnywhere
<1>6. RefusedInWindow'
  BY <1>1 DEF IInv, RefusedInWindow
<1> QED BY <1>2, <1>4, <1>5, <1>6 DEF IInv

\* A reset leaves no counters and no grants.
LEMMA ResetPreserves ==
  ASSUME IInv, Reset
  PROVE  IInv'
<1>1. /\ enabled' \in BOOLEAN /\ now' \in Clock /\ reply' = [status |-> "none"]
      /\ DOMAIN counters' = {}
      /\ granted' = [c \in Caller |-> <<>>]
  BY DEF Reset, EmptyStore, IInv, TypeOK
<1>2. /\ TypeOK' /\ GrantsArePast' /\ NoCounterNoGrant' /\ RefusedInWindow'
      /\ WindowQuota' /\ QuotaBefore'
  BY <1>1 DEF TypeOK, GrantsArePast, NoCounterNoGrant, RefusedInWindow, WindowQuota, QuotaBefore
<1>3. QuotaAnywhere'
  <2> SUFFICES ASSUME NEW c \in Caller, NEW t \in Int
               PROVE  Cardinality(Positions(granted'[c], t, t + Window - 1)) <= 2 * Limit
    BY CountByPosition DEF QuotaAnywhere
  <2>1. t + Window - 1 \in Int /\ Limit \in Nat /\ granted'[c] = <<>>
    BY <1>1, ConfigAssumption
  <2> QED BY <2>1, NothingCounts
<1> QED BY <1>2, <1>3 DEF IInv

\* So does the start.
LEMMA InitHolds == Init => IInv
<1> SUFFICES ASSUME Init PROVE IInv
  OBVIOUS
<1>1. /\ DOMAIN counters = {} /\ now \in Clock
      /\ granted = [c \in Caller |-> <<>>] /\ reply.status = "none"
  BY BoundAssumption DEF Init, EmptyStore, Clock
<1>2. /\ TypeOK /\ GrantsArePast /\ NoCounterNoGrant /\ RefusedInWindow
      /\ WindowQuota /\ QuotaBefore
  BY <1>1 DEF Init, TypeOK, GrantsArePast, NoCounterNoGrant, RefusedInWindow, WindowQuota,
              QuotaBefore
<1>3. QuotaAnywhere
  <2> SUFFICES ASSUME NEW c \in Caller, NEW t \in Int
               PROVE  Cardinality(Positions(granted[c], t, t + Window - 1)) <= 2 * Limit
    BY CountByPosition DEF QuotaAnywhere
  <2>1. t + Window - 1 \in Int /\ Limit \in Nat /\ granted[c] = <<>>
    BY <1>1, ConfigAssumption
  <2> QED BY <2>1, NothingCounts
<1> QED BY <1>2, <1>3 DEF IInv

\* At every moment the invariant holds, for every limit, window and set of callers.
THEOREM RateLimitInvariance == Spec => []IInv
<1>1. Init => IInv
  BY InitHolds
<1>2. IInv /\ [Next]_vars => IInv'
  <2> SUFFICES ASSUME IInv, [Next]_vars PROVE IInv'
    OBVIOUS
  <2>1. ASSUME NEW c \in Caller, Allow(c) PROVE IInv'
    BY <2>1, AllowPreserves
  <2>2. ASSUME NEW c \in Caller, Refuse(c) PROVE IInv'
    BY <2>2, RefusePreserves
  <2>3. ASSUME NEW c \in Caller, AllowUnlimited(c) PROVE IInv'
    <3>1. /\ UNCHANGED <<enabled, counters, now, granted>>
          /\ reply' = [status |-> "ok", caller |-> c, remaining |-> Limit]
      BY <2>3 DEF AllowUnlimited
    <3> QED BY <3>1, CountByPosition
         DEF IInv, TypeOK, GrantsArePast, NoCounterNoGrant, WindowQuota, QuotaBefore,
             QuotaAnywhere, RefusedInWindow
  <2>4. CASE Reset
    BY <2>4, ResetPreserves
  <2>5. CASE Tick
    BY <2>5, TickPreserves
  <2>6. CASE UNCHANGED vars
    BY <2>6, CountByPosition
       DEF vars, IInv, TypeOK, GrantsArePast, NoCounterNoGrant, WindowQuota, QuotaBefore,
           QuotaAnywhere, RefusedInWindow
  <2> QED BY <2>1, <2>2, <2>3, <2>4, <2>5, <2>6 DEF Next
<1> QED BY <1>1, <1>2, PTL DEF Spec
\* Counters are of callers, count from 1 and lie in the past (checkRateLimit's
\* record), for every limit and window.
THEOREM TypeCorrect == Spec => []TypeOK
<1>1. IInv => TypeOK
  BY DEF IInv
<1> QED BY <1>1, RateLimitInvariance, PTL

\* checkRateLimit lets a caller through as often as its counter says, and at most
\* Limit times in a window.
THEOREM WindowQuotaKept == Spec => []WindowQuota
<1>1. IInv => WindowQuota
  BY DEF IInv
<1> QED BY <1>1, RateLimitInvariance, PTL

\* No span of one window's length, wherever a client lays it, sees more than
\* twice Limit: the burst at the seam of two fixed windows is the worst.
THEOREM SeamQuotaKept == Spec => []SeamQuota
<1>1. IInv => SeamQuota
  BY DEF IInv, SeamQuota, QuotaAnywhere, Clock
<1> QED BY <1>1, RateLimitInvariance, PTL

\* Retry-After is at least a second, is no earlier than the next window and less
\* than a second later, for every window length.
THEOREM RetryAfterKept == Spec => []RetryAfterIsKept
<1>1. IInv => RetryAfterIsKept
  <2> SUFFICES ASSUME IInv, reply.status = "limited" PROVE RetryAfterIsKept
    BY DEF RetryAfterIsKept
  <2> DEFINE opens == counters[reply.caller].windowStart + Window
             wait == opens - reply.at
             seconds == reply.retryAfter
  <2>1. /\ reply.caller \in DOMAIN counters
        /\ reply.at \in counters[reply.caller].windowStart .. opens - 1
        /\ seconds = CeilDiv(wait, MsPerSecond)
    <3>1. RefusedInWindow
      BY DEF IInv
    <3>2. reply.caller \in DOMAIN counters
      BY <3>1 DEF RefusedInWindow
    <3>3. counters[reply.caller].windowStart \in Nat /\ Window \in Nat
      BY <3>2, StateFacts
    <3> QED BY <3>1, <3>2, <3>3 DEF RefusedInWindow
  <2>2. /\ wait \in Nat \ {0} /\ MsPerSecond \in Nat \ {0}
        /\ reply.at \in Nat /\ opens \in Nat
    BY <2>1, StateFacts, ConfigAssumption
  <2> HIDE DEF opens, wait, seconds
  <2>3. /\ seconds \in Nat \ {0}
        /\ wait <= seconds * MsPerSecond /\ seconds * MsPerSecond < wait + MsPerSecond
    BY <2>1, <2>2, RoundedUp
  <2>4. seconds * MsPerSecond \in Nat
    BY <2>2, <2>3
  <2>5. wait = opens - reply.at
    BY DEF wait
  <2>6. /\ seconds >= 1 /\ opens <= reply.at + seconds * MsPerSecond
        /\ reply.at + seconds * MsPerSecond < opens + MsPerSecond
    BY <2>2, <2>3, <2>4, <2>5
  <2> QED BY <2>6 DEF RetryAfterIsKept, opens, seconds
<1> QED BY <1>1, RateLimitInvariance, PTL

-----------------------------------------------------------------------------
(* SeededFailures. *)

\* How many numbers a request drew.
CostOf(entry) ==
  CASE entry.op = "fixed-scenario" -> 0
    [] entry.op = "failure-scenario" -> 1
    [] entry.op = "flaky" -> IF ~ flakyEnabled THEN 0 ELSE IF entry.failed THEN 2 ELSE 1

\* Its outcome, from the place in the stream where it drew.
FailedAt(op, rate, at) ==
  CASE op = "fixed-scenario" -> TRUE
    [] op = "failure-scenario" -> RollFails(stream[at + 1], RateOf(rate))
    [] op = "flaky" -> flakyEnabled /\ RollFails(stream[at + 1], rate)

PickAt(op, rate, at) ==
  IF op = "flaky" /\ FailedAt(op, rate, at) THEN StatusIndex(stream[at + 2]) ELSE 0

\* A log is a life: it draws from the start of the stream, each request where the
\* one before it stopped, and has the outcomes of the numbers it drew.
IsLife(entries) ==
  /\ entries \in Seq(Entry)
  /\ entries # <<>> => entries[1].at = 0
  /\ \A n \in 1 .. Len(entries) - 1 : entries[n + 1].at = entries[n].at + CostOf(entries[n])
  /\ \A n \in 1 .. Len(entries) :
       LET e == entries[n]
       IN  e.failed = FailedAt(e.op, e.rate, e.at) /\ e.pick = PickAt(e.op, e.rate, e.at)

DrawnByLog ==
  drawn = IF log = <<>> THEN 0 ELSE log[Len(log)].at + CostOf(log[Len(log)])

FlakyInv ==
  /\ FlakyTypeOK /\ IsLife(log) /\ IsLife(before) /\ DrawnByLog
  /\ SameRequestsSameOutcomes

-----------------------------------------------------------------------------
\* floor(draw * 4) is a place in a pool of four.
LEMMA PickInPool ==
  ASSUME NEW roll \in 0 .. Scale - 1
  PROVE  StatusIndex(roll) \in 0 .. Pool - 1
<1> DEFINE n == roll * 4
           q == n \div Scale
           r == n % Scale
<1>1. Scale \in Nat \ {0}
  BY ScaleAssumption
<1>2. n \in Nat /\ n < 4 * Scale
  BY <1>1
<1>3. StatusIndex(roll) = q /\ Pool = 4
  BY DEF StatusIndex, Pool
<1> HIDE DEF n
<1>4. q \in Int /\ r \in 0 .. Scale - 1 /\ n = Scale * q + r
  BY <1>1, <1>2
<1> HIDE DEF q, r
<1>5. q >= 0
  <2> SUFFICES ASSUME q <= -1 PROVE FALSE
    BY <1>4
  <2>1. Scale * q <= Scale * (-1)
    BY <1>1, <1>4
  <2> QED BY <2>1, <1>1, <1>2, <1>4
<1>6. q <= 3
  <2> SUFFICES ASSUME q >= 4 PROVE FALSE
    BY <1>4
  <2>1. Scale * q >= Scale * 4
    BY <1>1, <1>4
  <2> QED BY <2>1, <1>1, <1>2, <1>4
<1> QED BY <1>3, <1>4, <1>5, <1>6

\* Two lives that were asked the same so far have answered the same.
LEMMA NextAnswerAgrees ==
  ASSUME IsLife(log), IsLife(before), SameRequestsSameOutcomes, DrawnByLog,
         NEW entry \in Entry,
         entry.at = drawn,
         entry.failed = FailedAt(entry.op, entry.rate, entry.at),
         entry.pick = PickAt(entry.op, entry.rate, entry.at),
         Len(log) + 1 <= Len(before),
         Asked(Append(log, entry), Len(log) + 1) = Asked(before, Len(log) + 1)
  PROVE  entry = before[Len(log) + 1]
<1> DEFINE m == Len(log) + 1
           old == before[m]
<1>1. /\ log \in Seq(Entry) /\ before \in Seq(Entry)
      /\ Len(log) \in Nat /\ Len(before) \in Nat
      /\ m \in 1 .. Len(before) /\ old \in Entry
      /\ Append(log, entry)[m] = entry
      /\ \A i \in 1 .. Len(log) : Append(log, entry)[i] = log[i]
  BY DEF IsLife
<1>2. \A i \in 1 .. m : <<Append(log, entry)[i].op, Append(log, entry)[i].rate>>
                          = <<before[i].op, before[i].rate>>
  <2>1. \A i \in 1 .. m : /\ Asked(Append(log, entry), m)[i]
                               = <<Append(log, entry)[i].op, Append(log, entry)[i].rate>>
                          /\ Asked(before, m)[i] = <<before[i].op, before[i].rate>>
    BY DEF Asked
  <2> QED BY <2>1
<1>3. entry.op = old.op /\ entry.rate = old.rate
  <2>1. m \in 1 .. m
    BY <1>1
  <2> QED BY <2>1, <1>1, <1>2
<1>4. entry.at = old.at
  <2>1. CASE log = <<>>
    BY <2>1, <1>1 DEF IsLife, DrawnByLog
  <2>2. CASE log # <<>>
    <3> DEFINE n == Len(log)
    <3>1. n \in 1 .. Len(log) /\ n <= Len(before) /\ n \in 1 .. Len(before) - 1
      BY <2>2, <1>1
    <3>2. Asked(log, n) = Asked(before, n)
      BY <1>1, <1>2, <3>1 DEF Asked
    <3>3. log[n] = before[n]
      BY <3>1, <3>2 DEF SameRequestsSameOutcomes
    <3>4. before[n + 1].at = before[n].at + CostOf(before[n])
      BY <3>1 DEF IsLife
    <3> QED BY <2>2, <3>3, <3>4 DEF DrawnByLog
  <2> QED BY <2>1, <2>2
<1>5. old.failed = FailedAt(old.op, old.rate, old.at) /\ old.pick = PickAt(old.op, old.rate, old.at)
  BY <1>1 DEF IsLife
<1>6. entry.failed = old.failed /\ entry.pick = old.pick
  BY <1>3, <1>4, <1>5
<1> HIDE DEF m, old
<1>7. \A e \in Entry :
        e = [op |-> e.op, rate |-> e.rate, at |-> e.at, failed |-> e.failed, pick |-> e.pick]
  BY DEF Entry
<1>8. old \in Entry
  BY <1>1
<1>9. entry = old
  BY <1>3, <1>4, <1>6, <1>7, <1>8
<1> QED BY <1>9 DEF m, old
-----------------------------------------------------------------------------
\* A logged request that draws what it costs and answers what it drew.
LEMMA LogPreserves ==
  ASSUME FlakyInv, NEW entry \in Entry,
         log' = Append(log, entry),
         UNCHANGED <<flakyEnabled, stream, before>>,
         entry.at = drawn,
         entry.failed = FailedAt(entry.op, entry.rate, entry.at),
         entry.pick = PickAt(entry.op, entry.rate, entry.at),
         drawn' = drawn + CostOf(entry), drawn' \in 0 .. StreamLength
  PROVE  FlakyInv'
<1>1. /\ IsLife(log) /\ IsLife(before) /\ SameRequestsSameOutcomes /\ DrawnByLog
      /\ log \in Seq(Entry) /\ Len(log) \in Nat
      /\ before \in Seq(Entry) /\ Len(before) \in Nat
  BY DEF FlakyInv, IsLife
<1>2. /\ log' \in Seq(Entry) /\ Len(log') = Len(log) + 1
      /\ log'[Len(log) + 1] = entry
      /\ \A i \in 1 .. Len(log) : log'[i] = log[i]
  BY <1>1
<1>3. FlakyTypeOK'
  BY <1>2 DEF FlakyInv, FlakyTypeOK, Entry
<1>4. /\ \A e : CostOf(e)' = CostOf(e)
      /\ \A op, rate, at : FailedAt(op, rate, at)' = FailedAt(op, rate, at)
      /\ \A op, rate, at : PickAt(op, rate, at)' = PickAt(op, rate, at)
  BY DEF CostOf, FailedAt, PickAt
<1>5. IsLife(before)'
  BY <1>1, <1>4 DEF IsLife
<1>6. IsLife(log)'
  <2>1. log' # <<>> => log'[1].at = 0
    BY <1>1, <1>2 DEF IsLife, DrawnByLog
  <2>2. \A n \in 1 .. Len(log') - 1 : log'[n + 1].at = log'[n].at + CostOf(log'[n])
    <3> SUFFICES ASSUME NEW n \in 1 .. Len(log)
                 PROVE  log'[n + 1].at = log'[n].at + CostOf(log'[n])
      BY <1>1, <1>2
    <3>1. CASE n < Len(log)
      <4>1. n \in 1 .. Len(log) - 1 /\ n + 1 \in 1 .. Len(log)
        BY <3>1, <1>1
      <4>2. log[n + 1].at = log[n].at + CostOf(log[n])
        BY <4>1, <1>1 DEF IsLife
      <4> QED BY <4>1, <4>2, <1>2
    <3>2. CASE n = Len(log)
      <4>1. log # <<>>
        BY <3>2
      <4> QED BY <3>2, <4>1, <1>1, <1>2 DEF DrawnByLog
    <3> QED BY <3>1, <3>2, <1>1
  <2>3. \A n \in 1 .. Len(log') :
          /\ log'[n].failed = FailedAt(log'[n].op, log'[n].rate, log'[n].at)
          /\ log'[n].pick = PickAt(log'[n].op, log'[n].rate, log'[n].at)
    BY <1>1, <1>2 DEF IsLife
  <2> QED BY <1>2, <1>4, <2>1, <2>2, <2>3 DEF IsLife
<1>7. DrawnByLog'
  BY <1>1, <1>2, <1>4 DEF DrawnByLog
<1>8. SameRequestsSameOutcomes'
  <2> SUFFICES ASSUME NEW n \in 1 .. Len(log'), n <= Len(before),
                      Asked(log', n) = Asked(before, n)
               PROVE  log'[n] = before[n]
    BY DEF SameRequestsSameOutcomes, Asked
  <2>1. CASE n \in 1 .. Len(log)
    <3>1. Asked(log', n) = Asked(log, n)
      BY <2>1, <1>1, <1>2 DEF Asked
    <3> QED BY <2>1, <3>1, <1>1, <1>2 DEF SameRequestsSameOutcomes
  <2>2. CASE n = Len(log) + 1
    BY <2>2, <1>1, <1>2, NextAnswerAgrees
  <2> QED BY <2>1, <2>2, <1>1, <1>2
<1> QED BY <1>3, <1>5, <1>6, <1>7, <1>8 DEF FlakyInv

\* Every way to answer logs such a request.
LEMMA FlakyNextPreserves ==
  ASSUME FlakyInv, FlakyNext
  PROVE  FlakyInv'
<1> USE DEF NoRate
<1>1. /\ Scale \in Nat \ {0} /\ StreamLength \in Nat /\ Draws \subseteq 0 .. Scale - 1
      /\ Rates \subseteq 0 .. Scale
      /\ stream \in [1 .. StreamLength -> Draws] /\ drawn \in 0 .. StreamLength
      /\ flakyEnabled \in BOOLEAN
  BY ScaleAssumption, DrawAssumption, StreamAssumption DEF FlakyInv, FlakyTypeOK
<1>2. ASSUME NEW rate \in Rates, FlakyOff(rate)
      PROVE  FlakyInv'
  <2> DEFINE entry == [op |-> "flaky", rate |-> rate, at |-> drawn, failed |-> FALSE, pick |-> 0]
  <2>1. /\ ~ flakyEnabled /\ log' = Append(log, entry) /\ drawn' = drawn
        /\ UNCHANGED <<flakyEnabled, stream, before>>
    BY <1>2 DEF FlakyOff, Log
  <2>2. entry \in Entry
    BY <1>1 DEF Entry, Pool
  <2>3. entry.failed = FailedAt(entry.op, entry.rate, entry.at)
    BY <2>1 DEF FailedAt
  <2>4. entry.pick = PickAt(entry.op, entry.rate, entry.at)
    BY <2>3 DEF PickAt
  <2>5. drawn' = drawn + CostOf(entry)
    BY <2>1, <1>1 DEF CostOf
  <2>6. entry.at = drawn /\ drawn' \in 0 .. StreamLength
    BY <2>1, <1>1
  <2> HIDE DEF entry
  <2> QED BY <2>1, <2>2, <2>3, <2>4, <2>5, <2>6, LogPreserves
<1>3. ASSUME NEW rate \in Rates, FlakySucceeds(rate)
      PROVE  FlakyInv'
  <2> DEFINE entry == [op |-> "flaky", rate |-> rate, at |-> drawn, failed |-> FALSE, pick |-> 0]
  <2>1. /\ flakyEnabled /\ log' = Append(log, entry)
        /\ drawn' = drawn + 1 /\ drawn + 1 <= StreamLength
        /\ ~ RollFails(stream[drawn + 1], rate)
        /\ UNCHANGED <<flakyEnabled, stream, before>>
    BY <1>3 DEF FlakySucceeds, Log, DrawNumbers
  <2>2. entry \in Entry
    BY <1>1 DEF Entry, Pool
  <2>3. entry.failed = FailedAt(entry.op, entry.rate, entry.at)
    BY <2>1 DEF FailedAt
  <2>4. entry.pick = PickAt(entry.op, entry.rate, entry.at)
    BY <2>3 DEF PickAt
  <2>5. drawn' = drawn + CostOf(entry)
    BY <2>1, <1>1 DEF CostOf
  <2>6. entry.at = drawn /\ drawn' \in 0 .. StreamLength
    BY <2>1, <1>1
  <2> HIDE DEF entry
  <2> QED BY <2>1, <2>2, <2>3, <2>4, <2>5, <2>6, LogPreserves
<1>4. ASSUME NEW rate \in Rates, FlakyFails(rate)
      PROVE  FlakyInv'
  <2> DEFINE pick == StatusIndex(stream[drawn + 2])
             entry == [op |-> "flaky", rate |-> rate, at |-> drawn, failed |-> TRUE, pick |-> pick]
  <2>1. /\ flakyEnabled /\ log' = Append(log, entry)
        /\ drawn' = drawn + 2 /\ drawn + 2 <= StreamLength
        /\ RollFails(stream[drawn + 1], rate)
        /\ UNCHANGED <<flakyEnabled, stream, before>>
    BY <1>4 DEF FlakyFails, Log, DrawNumbers
  <2>2. pick \in 0 .. Pool - 1
    <3>1. drawn + 2 \in 1 .. StreamLength
      <4>1. drawn + 2 <= StreamLength
        BY <2>1
      <4> QED BY <4>1, <1>1
    <3>2. stream[drawn + 2] \in 0 .. Scale - 1
      BY <3>1, <1>1
    <3> QED BY <3>2, PickInPool
  <2> HIDE DEF pick
  <2>3. entry \in Entry
    BY <2>2, <1>1 DEF Entry
  <2>4. entry.failed = FailedAt(entry.op, entry.rate, entry.at)
    BY <2>1 DEF FailedAt
  <2>5. entry.pick = PickAt(entry.op, entry.rate, entry.at)
    BY <2>4 DEF PickAt, pick
  <2>6. drawn' = drawn + CostOf(entry)
    BY <2>1, <1>1 DEF CostOf
  <2>7. entry.at = drawn /\ drawn' \in 0 .. StreamLength
    BY <2>1, <1>1
  <2> HIDE DEF entry
  <2> QED BY <2>1, <2>3, <2>4, <2>5, <2>6, <2>7, LogPreserves
<1>5. ASSUME NEW rate \in Rates \cup {NoRate}, FailureScenario(rate)
      PROVE  FlakyInv'
  <2> DEFINE failed == RollFails(stream[drawn + 1], RateOf(rate))
             entry == [op |-> "failure-scenario", rate |-> rate, at |-> drawn,
                       failed |-> failed, pick |-> 0]
  <2>1. /\ log' = Append(log, entry)
        /\ drawn' = drawn + 1 /\ drawn + 1 <= StreamLength
        /\ UNCHANGED <<flakyEnabled, stream, before>>
    BY <1>5 DEF FailureScenario, Log, DrawNumbers
  <2>2. failed \in BOOLEAN
    BY DEF RollFails
  <2> HIDE DEF failed
  <2>3. entry \in Entry
    BY <2>2, <1>1 DEF Entry, Pool
  <2>4. entry.failed = FailedAt(entry.op, entry.rate, entry.at)
    BY DEF FailedAt, failed
  <2>5. entry.pick = PickAt(entry.op, entry.rate, entry.at)
    BY DEF PickAt
  <2>6. drawn' = drawn + CostOf(entry)
    BY <2>1, <1>1 DEF CostOf
  <2>7. entry.at = drawn /\ drawn' \in 0 .. StreamLength
    BY <2>1, <1>1
  <2> HIDE DEF entry
  <2> QED BY <2>1, <2>3, <2>4, <2>5, <2>6, <2>7, LogPreserves
<1>6. CASE FixedScenario
  <2> DEFINE entry == [op |-> "fixed-scenario", rate |-> NoRate, at |-> drawn,
                       failed |-> TRUE, pick |-> 0]
  <2>1. /\ log' = Append(log, entry) /\ drawn' = drawn
        /\ UNCHANGED <<flakyEnabled, stream, before>>
    BY <1>6 DEF FixedScenario, Log
  <2>2. entry \in Entry
    BY <1>1 DEF Entry, Pool
  <2>3. entry.failed = FailedAt(entry.op, entry.rate, entry.at)
    BY DEF FailedAt
  <2>4. entry.pick = PickAt(entry.op, entry.rate, entry.at)
    BY DEF PickAt
  <2>5. drawn' = drawn + CostOf(entry)
    BY <2>1, <1>1 DEF CostOf
  <2>6. entry.at = drawn /\ drawn' \in 0 .. StreamLength
    BY <2>1, <1>1
  <2> HIDE DEF entry
  <2> QED BY <2>1, <2>2, <2>3, <2>4, <2>5, <2>6, LogPreserves
<1>7. CASE ResetRandom
  <2>1. /\ drawn' = 0 /\ before' = log /\ log' = <<>> /\ UNCHANGED <<flakyEnabled, stream>>
    BY <1>7 DEF ResetRandom, DrawnAfterReset
  <2>2. /\ \A e : CostOf(e)' = CostOf(e)
        /\ \A op, rate, at : FailedAt(op, rate, at)' = FailedAt(op, rate, at)
        /\ \A op, rate, at : PickAt(op, rate, at)' = PickAt(op, rate, at)
    BY <2>1 DEF CostOf, FailedAt, PickAt
  <2>3. IsLife(before)' /\ IsLife(log)'
    BY <2>1, <2>2 DEF FlakyInv, IsLife
  <2>4. FlakyTypeOK'
    BY <2>1, <1>1 DEF FlakyInv, FlakyTypeOK, Entry
  <2>5. DrawnByLog' /\ SameRequestsSameOutcomes'
    BY <2>1 DEF DrawnByLog, SameRequestsSameOutcomes
  <2> QED BY <2>3, <2>4, <2>5 DEF FlakyInv
<1> QED BY <1>2, <1>3, <1>4, <1>5, <1>6, <1>7 DEF FlakyNext

\* The same for the simulated failures.
LEMMA FlakyInvariance == FlakySpec => []FlakyInv
<1>1. FlakyInit => FlakyInv
  BY StreamAssumption
     DEF FlakyInit, FlakyInv, FlakyTypeOK, IsLife, DrawnByLog, SameRequestsSameOutcomes
<1>2. FlakyInv /\ [FlakyNext]_flakyVars => FlakyInv'
  <2>1. CASE UNCHANGED flakyVars
    BY <2>1 DEF flakyVars, FlakyInv, FlakyTypeOK, IsLife, DrawnByLog, Entry, CostOf,
                FailedAt, PickAt, SameRequestsSameOutcomes, Asked
  <2> QED BY <2>1, FlakyNextPreserves
<1> QED BY <1>1, <1>2, PTL DEF FlakySpec

\* Every draw makes one of the outcomes there are (rollFlakyOutcome and
\* resolveScenarioOutcome), for every stream and every resolution of the draws.
THEOREM FlakyTypeCorrect == FlakySpec => []FlakyTypeOK
<1>1. FlakyInv => FlakyTypeOK
  BY DEF FlakyInv
<1> QED BY <1>1, FlakyInvariance, PTL

\* resetSeededRandom makes a run reproducible: the same requests have the same
\* outcomes again, for every stream, mix of requests and number of draws.
THEOREM OutcomesRepeat == FlakySpec => []SameRequestsSameOutcomes
<1>1. FlakyInv => SameRequestsSameOutcomes
  BY DEF FlakyInv
<1> QED BY <1>1, FlakyInvariance, PTL

-----------------------------------------------------------------------------
(* CacheResource. *)

\* A copy of this life of the resource.
Current(c) == copies[c].epoch = epoch

\* It is not newer than the resource, and with the same version it is the same.
Faithful ==
  \A c \in DOMAIN copies : Current(c) =>
    /\ copies[c].version <= resource.version
    /\ copies[c].updatedAt <= resource.updatedAt
    /\ copies[c].version = resource.version =>
         /\ copies[c].content = resource.content
         /\ copies[c].updatedAt = resource.updatedAt

NoCopyFromTheFuture == \A c \in DOMAIN copies : copies[c].epoch <= epoch

CacheInv ==
  /\ CacheTypeOK /\ Faithful /\ NoCopyFromTheFuture
  /\ NotModifiedIsTrue /\ FullOnlyWhenNeeded

-----------------------------------------------------------------------------
\* What the types say of a resource and of a copy, in one place.
LEMMA CacheRecordFacts ==
  ASSUME CacheTypeOK
  PROVE  /\ resource.content \in Content
         /\ resource.version \in Nat \ {0}
         /\ resource.updatedAt \in Nat /\ resource.updatedAt <= clock
         /\ clock \in 1 .. LastClock /\ epoch \in Nat
         /\ \A c \in DOMAIN copies :
              /\ c \in Client /\ copies[c] \in Copy
              /\ copies[c].version \in Nat \ {0} /\ copies[c].updatedAt \in Nat
              /\ copies[c].epoch \in Nat /\ copies[c].updatedAt <= clock
BY CacheBoundAssumption DEF CacheTypeOK, Resource, Copy,
       SeedDate

\* An answer that says nothing of a copy breaks no promise.
LEMMA SilenceIsTrue ==
  ASSUME answer' = NoReply
  PROVE  NotModifiedIsTrue' /\ FullOnlyWhenNeeded'
BY DEF NotModifiedIsTrue, FullOnlyWhenNeeded, AboutCurrentLife, NoReply

-----------------------------------------------------------------------------
\* A full answer replaces the client's copy by the resource.
LEMMA CacheFullPreserves ==
  ASSUME CacheInv,
         NEW c \in Client, NEW etag \in Header, NEW date \in Header,
         GetFull(c, etag, date)
  PROVE  CacheInv'
<1> DEFINE new == [content |-> resource.content, version |-> resource.version,
                   updatedAt |-> resource.updatedAt, epoch |-> epoch]
<1>1. /\ copies' = Put(copies, c, new)
      /\ UNCHANGED <<resource, clock, epoch>>
  BY DEF GetFull
<1>2. /\ DOMAIN copies' = DOMAIN copies \cup {c} /\ copies'[c] = new
      /\ \A x \in DOMAIN copies \ {c} : copies'[x] = copies[x]
  BY <1>1 DEF Put
<1>3. new \in Copy
  BY DEF CacheInv, CacheTypeOK, Resource, Copy
<1>4. CacheTypeOK'
  BY <1>1, <1>2, <1>3 DEF CacheInv, CacheTypeOK
<1>5. Faithful' /\ NoCopyFromTheFuture'
  BY <1>1, <1>2, CacheRecordFacts DEF CacheInv, Faithful, NoCopyFromTheFuture, Current
<1>6. answer' = [status |-> 200, etag |-> etag, date |-> date,
                 copy |-> IF c \in DOMAIN copies THEN copies[c] ELSE NoReply]
  BY DEF GetFull, Answer
<1>7. NotModifiedIsTrue'
  BY <1>6 DEF NotModifiedIsTrue
<1>8. FullOnlyWhenNeeded'
  <2> SUFFICES ASSUME AboutCurrentLife'
               PROVE  \/ answer'.copy.version < resource.version
                      \/ etag = "garbage"
                      \/ etag = "none" /\ date # "own"
    BY <1>1, <1>6 DEF FullOnlyWhenNeeded
  <2>1. c \in DOMAIN copies /\ answer'.copy = copies[c] /\ Current(c)
    BY <1>1, <1>6 DEF AboutCurrentLife, Current
  <2>2. ~ MatchesConditional(copies[c], etag, date)
    BY <2>1 DEF GetFull
  <2>3. CASE etag = "own"
    BY <2>1, <2>2, <2>3, CacheRecordFacts
      DEF CacheInv, Faithful, MatchesConditional, EtagMatches
  <2>4. CASE etag = "none" /\ date = "own"
    BY <2>1, <2>2, <2>4, CacheRecordFacts
      DEF CacheInv, Faithful, MatchesConditional, NotModifiedSince
  <2> QED BY <2>3, <2>4 DEF Header
<1> QED BY <1>4, <1>5, <1>7, <1>8 DEF CacheInv

\* 304 is said only of a copy whose validator matches.
LEMMA CacheNotModifiedPreserves ==
  ASSUME CacheInv,
         NEW c \in Client, NEW etag \in Header, NEW date \in Header,
         GetNotModified(c, etag, date)
  PROVE  CacheInv'
<1>1. /\ UNCHANGED <<resource, clock, epoch, copies>>
      /\ c \in DOMAIN copies /\ MatchesConditional(copies[c], etag, date)
      /\ answer' = [status |-> 304, etag |-> etag, date |-> date, copy |-> copies[c]]
  BY DEF GetNotModified, Answer
<1>2. CacheTypeOK' /\ Faithful' /\ NoCopyFromTheFuture'
  BY <1>1 DEF CacheInv, CacheTypeOK, Faithful, NoCopyFromTheFuture, Current
<1>3. FullOnlyWhenNeeded'
  BY <1>1 DEF FullOnlyWhenNeeded
<1>4. NotModifiedIsTrue'
  <2> SUFFICES ASSUME Current(c)
               PROVE  \/ copies[c].content = resource.content
                         /\ copies[c].version = resource.version
                      \/ etag = "none" /\ copies[c].updatedAt = resource.updatedAt
    BY <1>1 DEF NotModifiedIsTrue, AboutCurrentLife, Current
  <2>1. CASE etag = "none"
    BY <1>1, <2>1, CacheRecordFacts
      DEF CacheInv, Faithful, MatchesConditional, NotModifiedSince
  <2>2. CASE etag # "none"
    BY <1>1, <2>2 DEF CacheInv, Faithful, MatchesConditional, EtagMatches
  <2> QED BY <2>1, <2>2
<1> QED BY <1>2, <1>3, <1>4 DEF CacheInv

\* A write makes every copy older; its time is not before the last one's.
LEMMA CacheWritePreserves ==
  ASSUME CacheInv, NEW content \in Content, PutCacheResource(content)
  PROVE  CacheInv'
<1>1. /\ resource' = [content |-> content, version |-> resource.version + 1, updatedAt |-> clock]
      /\ answer' = NoReply /\ UNCHANGED <<clock, epoch, copies>>
  BY DEF PutCacheResource, Updated
<1>2. CacheTypeOK'
  BY <1>1, CacheRecordFacts DEF CacheInv, CacheTypeOK, Resource, SeedDate
<1>3. Faithful' /\ NoCopyFromTheFuture'
  BY <1>1, CacheRecordFacts DEF CacheInv, Faithful, NoCopyFromTheFuture, Current
<1> QED BY <1>1, <1>2, <1>3, SilenceIsTrue DEF CacheInv

\* A reset starts a new life, of which nobody has a copy.
LEMMA CacheResetPreserves ==
  ASSUME CacheInv, ResetCache
  PROVE  CacheInv'
<1>1. /\ resource' = Seed /\ epoch' = epoch + 1 /\ epoch < MaxEpoch
      /\ answer' = NoReply /\ UNCHANGED <<clock, copies>>
  BY DEF ResetCache
<1>2. CacheTypeOK'
  <2>1. resource' \in Resource /\ resource'.updatedAt = 0
    BY <1>1, CacheRecordFacts, ContentAssumption, CacheBoundAssumption
       DEF CacheInv, Seed, SeedDate, Resource
  <2> QED BY <1>1, <2>1, CacheRecordFacts, CacheBoundAssumption
          DEF CacheInv, CacheTypeOK
<1>3. Faithful' /\ NoCopyFromTheFuture'
  BY <1>1, CacheRecordFacts DEF CacheInv, Faithful, NoCopyFromTheFuture, Current
<1> QED BY <1>1, <1>2, <1>3, SilenceIsTrue DEF CacheInv

\* Every request, and the clock, preserve the invariant.
LEMMA CacheStepPreserves == CacheInv /\ [CacheNext]_cacheVars => CacheInv'
<1> SUFFICES ASSUME CacheInv, [CacheNext]_cacheVars PROVE CacheInv'
  OBVIOUS
<1>1. CASE ClockTick
  <2>1. /\ clock' = clock + 1 /\ clock < LastClock /\ answer' = NoReply
        /\ UNCHANGED <<resource, epoch, copies>>
    BY <1>1 DEF ClockTick
  <2>2. CacheTypeOK'
    BY <2>1, CacheRecordFacts, CacheBoundAssumption
       DEF CacheInv, CacheTypeOK, SeedDate
  <2>3. Faithful' /\ NoCopyFromTheFuture'
    BY <2>1 DEF CacheInv, Faithful, NoCopyFromTheFuture, Current
  <2> QED BY <2>1, <2>2, <2>3, SilenceIsTrue DEF CacheInv
<1>2. CASE UNCHANGED cacheVars
  BY <1>2 DEF cacheVars, CacheInv, CacheTypeOK, Faithful, NoCopyFromTheFuture, Current,
              NotModifiedIsTrue, FullOnlyWhenNeeded, AboutCurrentLife
<1> QED BY <1>1, <1>2, CacheFullPreserves, CacheNotModifiedPreserves, CacheWritePreserves,
           CacheResetPreserves DEF CacheNext

\* The server starts with the seed, and no client has a copy.
LEMMA CacheInitHolds == CacheInit => CacheInv
<1> SUFFICES ASSUME CacheInit PROVE CacheInv
  OBVIOUS
<1>1. CacheTypeOK
  BY ContentAssumption, CacheBoundAssumption
     DEF EmptyStore, CacheInit, CacheTypeOK, Seed, SeedDate, Resource
<1>2. Faithful /\ NoCopyFromTheFuture
  BY DEF EmptyStore, CacheInit, Faithful, NoCopyFromTheFuture
<1> QED BY <1>1, <1>2
        DEF CacheInit, CacheInv, NotModifiedIsTrue, FullOnlyWhenNeeded,
            AboutCurrentLife, NoReply

\* The invariant holds along every run.
THEOREM CacheInvariance == CacheSpec => []CacheInv
<1>1. CacheInit => CacheInv
  BY CacheInitHolds
<1>2. CacheInv /\ [CacheNext]_cacheVars => CacheInv'
  BY CacheStepPreserves
<1> QED BY <1>1, <1>2, PTL DEF CacheSpec

\* The resource and every copy of it were written in the past.
THEOREM CacheTypeCorrect == CacheSpec => []CacheTypeOK
<1>1. CacheInv => CacheTypeOK
  BY DEF CacheInv
<1> QED BY <1>1, CacheInvariance, PTL

\* A client told 304 shows what the server has, but for two writes in a millisecond.
THEOREM NotModifiedTruth == CacheSpec => []NotModifiedIsTrue
<1>1. CacheInv => NotModifiedIsTrue
  BY DEF CacheInv
<1> QED BY <1>1, CacheInvariance, PTL

\* A client is sent the resource in full only when it is newer, or was asked for badly.
THEOREM NoNeedlessTransfer == CacheSpec => []FullOnlyWhenNeeded
<1>1. CacheInv => FullOnlyWhenNeeded
  BY DEF CacheInv
<1> QED BY <1>1, CacheInvariance, PTL
=============================================================================
