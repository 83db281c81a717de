------------------------------- MODULE Payments -------------------------------
(***************************************************************************)
(* POST /payments with an Idempotency-Key, over a network that delays,      *)
(* reorders, loses and duplicates requests and answers, with clients that   *)
(* repeat a request until they hear an answer, and with data resets between *)
(* any two steps.                                                           *)
(*                                                                         *)
(* The handler (postPayment) is synchronous and is one step.  A body stands *)
(* for a request body up to the order of its keys, which is what the        *)
(* handler's canonical hash tells apart.  A payment id is never drawn twice *)
(* (randomUUID): `drawn` counts the ids drawn so far.                       *)
(***************************************************************************)
EXTENDS Stores

CONSTANTS
  Key,               \* values of the Idempotency-Key header
  NoKey,             \* the header is absent
  Body,              \* bodies that pass createPaymentRequestSchema
  BadBody,           \* a body that does not
  Purchases,         \* the requests clients make: records [key, body]
  SeedBody,          \* what a seeded payment (one per seeded order) pays
  SeedCount,         \* how many there are
  MaxInFlight,       \* bound: messages on the network
  MaxDrawn,          \* bound: payment ids drawn
  MaxEpoch           \* bound: resets

ASSUME KeyAssumption == NoKey \notin Key /\ BadBody \notin Body
ASSUME PurchaseAssumption ==
  Purchases \subseteq [key : Key \cup {NoKey}, body : Body \cup {BadBody}]
ASSUME SeedAssumption == SeedBody \in Body /\ SeedCount \in Nat
ASSUME BoundAssumption ==
  {MaxInFlight, MaxDrawn, MaxEpoch} \subseteq Nat /\ SeedCount <= MaxDrawn

VARIABLES
  payments,          \* paymentStore: payment id -> what it pays
  idempotency,       \* idempotencyStore: key -> [body, payment]
  drawn,             \* payment ids drawn so far
  epoch,             \* resets so far: tells answers of different data apart
  requests,          \* requests on the network
  answers,           \* answers on the network
  pending            \* purchases whose client still waits for an answer

serverVars == <<payments, idempotency, drawn, epoch>>
vars == <<payments, idempotency, drawn, epoch, requests, answers, pending>>

Created == 201
Replayed == 200
Invalid == 400
Conflict == 409

NoPayment == 0

Answer == [to : Purchases, status : {Created, Replayed, Invalid, Conflict},
           payment : Nat, epoch : Nat]

InFlight == Cardinality(requests) + Cardinality(answers)

-----------------------------------------------------------------------------
(* The server. *)

Valid(p) == p.key # NoKey /\ p.body # BadBody

\* Mutant: the key alone identifies the request.
SameKey(record, body) == TRUE

SameRequest(record, body) == record.body = body

\* Mutant: a payment is made and its key is not remembered.
RememberNothing(key, body, id) == idempotency

Remember(key, body, id) == Put(idempotency, key, [body |-> body, payment |-> id])

SeededPayments(first) == [id \in first + 1 .. first + SeedCount |-> SeedBody]

\* Mutant: the reset leaves the keys.
KeysKept == idempotency

KeysAfterReset == EmptyStore

\* Mutant: the replay path never ends its response.
SilentOnReplay(p, status, id) ==
  IF status = Replayed THEN answers
  ELSE answers \cup {[to |-> p, status |-> status, payment |-> id, epoch |-> epoch]}

Answered(p, status, id) ==
  answers \cup {[to |-> p, status |-> status, payment |-> id, epoch |-> epoch]}

\* The server takes a request off the network; if there is room for it and
\* for the answer, a duplicate may stay behind.
Take(p) ==
  /\ p \in requests
  /\ \/ requests' = requests \ {p}
     \/ InFlight < MaxInFlight /\ UNCHANGED requests
  /\ UNCHANGED pending

RejectInvalid(p) ==
  /\ Take(p)
  /\ ~ Valid(p)
  /\ answers' = Answered(p, Invalid, NoPayment)
  /\ UNCHANGED serverVars

RejectConflict(p) ==
  /\ Take(p)
  /\ Valid(p)
  /\ p.key \in DOMAIN idempotency
  /\ ~ SameRequest(idempotency[p.key], p.body)
  /\ answers' = Answered(p, Conflict, NoPayment)
  /\ UNCHANGED serverVars

Replay(p) ==
  /\ Take(p)
  /\ Valid(p)
  /\ p.key \in DOMAIN idempotency
  /\ SameRequest(idempotency[p.key], p.body)
  /\ answers' = Answered(p, Replayed, idempotency[p.key].payment)
  /\ UNCHANGED serverVars

CreatePayment(p) ==
  /\ drawn < MaxDrawn
  /\ Take(p)
  /\ Valid(p)
  /\ p.key \notin DOMAIN idempotency
  /\ drawn' = drawn + 1
  /\ payments' = Put(payments, drawn + 1, p.body)
  /\ idempotency' = Remember(p.key, p.body, drawn + 1)
  /\ answers' = Answered(p, Created, drawn + 1)
  /\ UNCHANGED epoch

Handle(p) ==
  RejectInvalid(p) \/ RejectConflict(p) \/ Replay(p) \/ CreatePayment(p)

\* POST /admin/reset: seedPayments, then the idempotency store is emptied.
Reset ==
  /\ epoch < MaxEpoch
  /\ drawn + SeedCount <= MaxDrawn
  /\ epoch' = epoch + 1
  /\ drawn' = drawn + SeedCount
  /\ payments' = SeededPayments(drawn)
  /\ idempotency' = KeysAfterReset
  /\ UNCHANGED <<requests, answers, pending>>

-----------------------------------------------------------------------------
(* Clients and the network. *)

\* A client makes a purchase, or repeats it because no answer came.  A full
\* network drops an older message for it.
Send(p) ==
  /\ \/ /\ p \in requests \/ InFlight < MaxInFlight
        /\ requests' = requests \cup {p}
        /\ UNCHANGED answers
     \/ /\ p \notin requests /\ InFlight >= MaxInFlight
        /\ \E a \in answers : answers' = answers \ {a}
        /\ requests' = requests \cup {p}
     \/ /\ p \notin requests /\ InFlight >= MaxInFlight
        /\ \E r \in requests : requests' = (requests \ {r}) \cup {p}
        /\ UNCHANGED answers
  /\ pending' = pending \cup {p}
  /\ UNCHANGED <<payments, idempotency, drawn, epoch>>

Resend(p) == p \in pending /\ Send(p)

\* A client hears an answer to its purchase, and stops repeating it; a
\* duplicate of the answer may stay behind.
Hear(a) ==
  /\ a \in answers
  /\ pending' = pending \ {a.to}
  /\ answers' \in {answers, answers \ {a}}
  /\ UNCHANGED <<payments, idempotency, drawn, epoch, requests>>

HearAbout(p) == \E a \in answers : a.to = p /\ Hear(a)

Lose ==
  /\ \/ /\ \E p \in requests : requests' = requests \ {p}
        /\ UNCHANGED answers
     \/ /\ \E a \in answers : answers' = answers \ {a}
        /\ UNCHANGED requests
  /\ UNCHANGED <<payments, idempotency, drawn, epoch, pending>>

-----------------------------------------------------------------------------
Init ==
  /\ payments = SeededPayments(0)
  /\ idempotency = EmptyStore
  /\ drawn = SeedCount
  /\ epoch = 0
  /\ requests = {}
  /\ answers = {}
  /\ pending = {}

Next ==
  \/ \E p \in Purchases : Send(p)
  \/ \E p \in requests : Handle(p)
  \/ \E a \in answers : Hear(a)
  \/ Lose
  \/ Reset

Spec == Init /\ [][Next]_vars

\* A client that waits keeps asking; a request, or an answer, that is sent
\* again and again is not lost every time.
Fairness ==
  \A p \in Purchases : /\ WF_vars(Resend(p))
                       /\ SF_vars(Handle(p))
                       /\ SF_vars(HearAbout(p))

FairSpec == Spec /\ Fairness

-----------------------------------------------------------------------------
(* Properties. *)

\* Ids and keys are known ones, and only validated bodies are ever recorded.
TypeOK ==
  /\ DOMAIN payments \subseteq 1 .. drawn
  /\ \A id \in DOMAIN payments : payments[id] \in Body
  /\ DOMAIN idempotency \subseteq Key
  /\ \A k \in DOMAIN idempotency :
       idempotency[k] \in [body : Body, payment : 1 .. drawn]
  /\ drawn \in 0 .. MaxDrawn /\ epoch \in 0 .. MaxEpoch
  /\ requests \subseteq Purchases /\ pending \subseteq Purchases
  /\ answers \subseteq Answer

\* However often a request is repeated or duplicated, and whatever a reset
\* does in between, the payments beyond the seed are exactly one per key.
OnePaymentPerKey ==
  /\ \A k \in DOMAIN idempotency :
       /\ idempotency[k].payment \in DOMAIN payments
       /\ payments[idempotency[k].payment] = idempotency[k].body
  /\ \A k, l \in DOMAIN idempotency :
       idempotency[k].payment = idempotency[l].payment => k = l
  /\ Cardinality(DOMAIN payments) = SeedCount + Cardinality(DOMAIN idempotency)

Succeeded(a) == a.status \in {Created, Replayed}

\* Two clients, or two tries of one, that were both told of a success under one
\* key were told of the same payment, for the same body, however long their
\* answers were delayed (a reset starts a new life of the key).
AnswersAgree ==
  \A a, b \in answers :
    Succeeded(a) /\ Succeeded(b) /\ a.to.key = b.to.key /\ a.epoch = b.epoch
      => a.payment = b.payment /\ a.to.body = b.to.body

\* An answer stays true until a reset: a payment it names is in the store with
\* the body that was sent; a conflict means the key belongs to another body.
AnswersHold ==
  \A a \in answers : a.epoch = epoch =>
    /\ Succeeded(a) => /\ a.payment \in DOMAIN payments
                       /\ payments[a.payment] = a.to.body
    /\ a.status = Conflict => /\ a.to.key \in DOMAIN idempotency
                              /\ idempotency[a.to.key].body # a.to.body

\* What Idempotency makes of the stores, and of the answers on the network.
Charges == Cardinality(DOMAIN payments) - SeedCount

Confirmations ==
  {[key |-> a.to.key, body |-> a.to.body, payment |-> a.payment, life |-> a.epoch] :
     a \in {a \in answers : Succeeded(a)}}

Denials ==
  {[key |-> a.to.key, body |-> a.to.body, life |-> a.epoch] :
     a \in {a \in answers : a.status = Conflict}}

Promised ==
  INSTANCE Idempotency
    WITH Id <- 1 .. MaxDrawn, bought <- idempotency, charges <- Charges, life <- epoch,
         confirmed <- Confirmations, denied <- Denials

\* Retries, duplicates, delays and resets included, the handler and its stores do what
\* Idempotency promises: a key buys at most once in a life of the data, is charged for it
\* once, and every answer under way is true of the life it was given in.
KeepsIdempotency == Promised!Spec

\* A client that keeps asking eventually hears, resets and losses included.
EveryPurchaseAnswered ==
  \A p \in Purchases : p \in pending ~> p \notin pending
=============================================================================
