---------------------------- MODULE SeededFailures ----------------------------
(***************************************************************************)
(* GET /flaky and GET /test?scenario=...: simulated failures that draw from *)
(* one shared stream of pseudo-random numbers (utils/seededRandom.ts), set  *)
(* back to its start by POST /admin/reset.                                  *)
(*                                                                         *)
(* The stream is any sequence of draws, the same after every reset (the     *)
(* generator's arithmetic is left out); draws and rates are multiples of    *)
(* 1 / Scale.  `log` is no state of the code: what was asked and answered   *)
(* since the last reset, and how many numbers were drawn by then; `before`  *)
(* is the log of the life before it.                                        *)
(***************************************************************************)
EXTENDS Integers, Sequences

CONSTANTS
  Scale,             \* a draw is in 0 .. Scale - 1, a rate in 0 .. Scale
  Draws,             \* the draws a stream is made of
  Rates,             \* the rates clients ask for
  StreamLength,      \* bound: draws between two resets
  MaxLog             \* bound: requests between two resets

\* FAILURE_STATUSES: 500, 502, 503 and 504.
Pool == 4

\* A request for a failure-representing scenario, with or without a failureRate.
NoRate == -1

ASSUME ScaleAssumption == Scale \in Nat \ {0}
ASSUME DrawAssumption == Draws \subseteq 0 .. Scale - 1 /\ Rates \subseteq 0 .. Scale
ASSUME StreamAssumption == {StreamLength, MaxLog} \subseteq Nat

VARIABLES
  flakyEnabled,      \* config.flakyEnabled, fixed when the server starts
  stream,            \* the numbers the generator yields after a reset
  drawn,             \* how many of them were drawn since
  log,
  before

flakyVars == <<flakyEnabled, stream, drawn, log, before>>

-----------------------------------------------------------------------------
RollFails(roll, rate) == roll < rate

\* Mutant: rounded instead of floored.
RoundedStatusIndex(roll) ==
  (roll * Pool + Scale \div 2) \div Scale

\* floor(draw * 4)
StatusIndex(roll) == (roll * Pool) \div Scale

\* Mutant: the generator runs on.
DrawnOn == drawn

DrawnAfterReset == 0

\* A scenario without a rate fails always: its rate is 1.
RateOf(rate) == IF rate = NoRate THEN Scale ELSE rate

-----------------------------------------------------------------------------
FlakyInit ==
  /\ flakyEnabled \in BOOLEAN
  /\ stream \in [1 .. StreamLength -> Draws]
  /\ drawn = 0
  /\ log = <<>>
  /\ before = <<>>

\* Draws the next n numbers.
DrawNumbers(n) ==
  /\ drawn + n <= StreamLength
  /\ drawn' = drawn + n

\* pick is the place in the pool of the status /flaky failed with.
Log(op, rate, failed, pick) ==
  /\ Len(log) < MaxLog
  /\ log' = Append(log, [op |-> op, rate |-> rate, at |-> drawn,
                         failed |-> failed, pick |-> pick])
  /\ UNCHANGED <<flakyEnabled, stream, before>>

\* Switched off, /flaky succeeds and draws nothing.
FlakyOff(rate) ==
  /\ ~ flakyEnabled
  /\ Log("flaky", rate, FALSE, 0)
  /\ UNCHANGED drawn

FlakySucceeds(rate) ==
  /\ flakyEnabled
  /\ DrawNumbers(1)
  /\ ~ RollFails(stream[drawn + 1], rate)
  /\ Log("flaky", rate, FALSE, 0)

\* A second draw picks the status.
FlakyFails(rate) ==
  /\ flakyEnabled
  /\ DrawNumbers(2)
  /\ RollFails(stream[drawn + 1], rate)
  /\ Log("flaky", rate, TRUE, StatusIndex(stream[drawn + 2]))

\* A failure-representing scenario draws once, also without a failureRate.
FailureScenario(rate) ==
  /\ DrawNumbers(1)
  /\ Log("failure-scenario", rate, RollFails(stream[drawn + 1], RateOf(rate)), 0)

\* A scenario with a fixed error of its own fails, whatever its failureRate.
FixedScenario ==
  /\ Log("fixed-scenario", NoRate, TRUE, 0)
  /\ UNCHANGED drawn

\* resetSeededRandom
ResetRandom ==
  /\ drawn' = DrawnAfterReset
  /\ before' = log
  /\ log' = <<>>
  /\ UNCHANGED <<flakyEnabled, stream>>

FlakyNext ==
  \/ \E rate \in Rates : FlakyOff(rate) \/ FlakySucceeds(rate) \/ FlakyFails(rate)
  \/ \E rate \in Rates \cup {NoRate} : FailureScenario(rate)
  \/ FixedScenario
  \/ ResetRandom

FlakySpec == FlakyInit /\ [][FlakyNext]_flakyVars

-----------------------------------------------------------------------------
(* Properties. *)

Entry == [op : {"flaky", "failure-scenario", "fixed-scenario"},
          rate : Rates \cup {NoRate}, at : 0 .. StreamLength,
          failed : BOOLEAN, pick : 0 .. Pool - 1]

\* Every request is answered with one of the outcomes there are; in particular
\* the status /flaky picks is one of the pool, for every draw.
FlakyTypeOK ==
  /\ flakyEnabled \in BOOLEAN
  /\ stream \in [1 .. StreamLength -> Draws]
  /\ drawn \in 0 .. StreamLength
  /\ log \in Seq(Entry) /\ before \in Seq(Entry)

Asked(entries, n) == [i \in 1 .. n |-> <<entries[i].op, entries[i].rate>>]

\* After a reset the same requests have the same outcomes again, however many
\* numbers were drawn before it and however the two kinds of request are mixed.
SameRequestsSameOutcomes ==
  \A n \in 1 .. Len(log) :
    n <= Len(before) /\ Asked(log, n) = Asked(before, n) => log[n] = before[n]
=============================================================================
