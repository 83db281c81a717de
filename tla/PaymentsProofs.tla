---------------------------- MODULE PaymentsProofs ----------------------------
(***************************************************************************)
(* POST /payments, proved for any keys, bodies, purchases, seed and bounds:  *)
(* one payment per key, and answers that agree and hold, over a network that *)
(* loses, duplicates and reorders, with resets at any time.                  *)
(***************************************************************************)
EXTENDS Payments, StoresProofs, FiniteSetTheorems

\* Where an answer of this life of the data comes from: a success from the
\* record of its key, a conflict from the record of another body.
Justified(a) ==
  /\ Succeeded(a) =>
       /\ a.to.key \in DOMAIN idempotency
       /\ idempotency[a.to.key].payment = a.payment
       /\ idempotency[a.to.key].body = a.to.body
  /\ a.status = Conflict =>
       /\ a.to.key \in DOMAIN idempotency
       /\ idempotency[a.to.key].body # a.to.body

\* No answer is from the future, and the answers of now are justified.
AnswersJustified ==
  \A a \in answers : a.epoch <= epoch /\ (a.epoch = epoch => Justified(a))

IInv ==
  /\ TypeOK
  /\ IsFiniteSet(DOMAIN idempotency)
  /\ OnePaymentPerKey
  /\ AnswersJustified
  /\ AnswersAgree

-----------------------------------------------------------------------------
\* An answer that is sent is well-formed.
LEMMA AnswerType ==
  ASSUME IInv, NEW p \in Purchases, NEW status \in {Created, Replayed, Invalid, Conflict},
         NEW id \in Nat
  PROVE  [to |-> p, status |-> status, payment |-> id, epoch |-> epoch] \in Answer
<1>1. epoch \in Nat
  BY BoundAssumption DEF IInv, TypeOK
<1> QED BY <1>1 DEF Answer

\* As long as the server's data does not change, the invariant survives the
\* loss of any messages and the sending of one justified answer.
LEMMA MessagesPreserve ==
  ASSUME IInv, UNCHANGED serverVars,
         requests' \subseteq Purchases, pending' \subseteq Purchases,
         NEW a \in Answer, a.epoch = epoch, Justified(a),
         answers' \subseteq answers \cup {a}
  PROVE  IInv'
<1> USE DEF serverVars
<1>1. TypeOK'
  BY DEF IInv, TypeOK
<1>2. OnePaymentPerKey' /\ IsFiniteSet(DOMAIN idempotency)'
  BY DEF IInv, OnePaymentPerKey
<1>3. AnswersJustified'
  BY DEF IInv, TypeOK, AnswersJustified, Justified, Succeeded
<1>4. ASSUME NEW b \in answers', NEW c \in answers',
             Succeeded(b), Succeeded(c), b.to.key = c.to.key, b.epoch = c.epoch
      PROVE  b.payment = c.payment /\ b.to.body = c.to.body
  <2>1. CASE b \in answers /\ c \in answers
    BY <1>4, <2>1 DEF IInv, AnswersAgree
  <2>2. CASE b.epoch = epoch
    <3>1. Justified(b) /\ Justified(c)
      BY <1>4, <2>2 DEF IInv, AnswersJustified
    <3> QED BY <1>4, <3>1 DEF Justified
  <2> QED BY <1>4, <2>1, <2>2
<1>5. AnswersAgree'
  BY <1>4 DEF AnswersAgree, Succeeded
<1> QED BY <1>1, <1>2, <1>3, <1>5 DEF IInv

\* The same when nothing new is sent.
LEMMA SilencePreserves ==
  ASSUME IInv, UNCHANGED serverVars,
         requests' \subseteq Purchases, pending' \subseteq Purchases,
         answers' \subseteq answers
  PROVE  IInv'
<1> USE DEF serverVars
<1>1. TypeOK'
  BY DEF IInv, TypeOK
<1>2. OnePaymentPerKey' /\ IsFiniteSet(DOMAIN idempotency)'
  BY DEF IInv, OnePaymentPerKey
<1>3. AnswersJustified'
  BY DEF IInv, AnswersJustified, Justified, Succeeded
<1>4. AnswersAgree'
  BY DEF IInv, AnswersAgree, Succeeded
<1> QED BY <1>1, <1>2, <1>3, <1>4 DEF IInv

-----------------------------------------------------------------------------
\* Refusals and replays answer from the data as it is.
LEMMA AnswersFromData ==
  ASSUME IInv, NEW p \in requests,
         RejectInvalid(p) \/ RejectConflict(p) \/ Replay(p)
  PROVE  IInv'
<1>0. /\ p \in Purchases
      /\ requests' \subseteq Purchases /\ pending' \subseteq Purchases
      /\ UNCHANGED serverVars
  BY DEF IInv, TypeOK, RejectInvalid, RejectConflict, Replay, Take
<1>1. CASE RejectInvalid(p)
  <2> DEFINE a == [to |-> p, status |-> Invalid, payment |-> NoPayment, epoch |-> epoch]
  <2>1. a \in Answer
    BY <1>0, AnswerType DEF NoPayment
  <2>2. Justified(a) /\ a.epoch = epoch
    BY DEF Justified, Succeeded, Invalid, Conflict, Created, Replayed
  <2>3. answers' \subseteq answers \cup {a}
    BY <1>1 DEF RejectInvalid, Answered
  <2> HIDE DEF a
  <2> QED BY <1>0, <2>1, <2>2, <2>3, MessagesPreserve
<1>2. CASE RejectConflict(p)
  <2> DEFINE a == [to |-> p, status |-> Conflict, payment |-> NoPayment, epoch |-> epoch]
  <2>1. a \in Answer
    BY <1>0, AnswerType DEF NoPayment
  <2>2. Justified(a) /\ a.epoch = epoch
    BY <1>2 DEF RejectConflict, SameRequest, Justified, Succeeded, Conflict, Created, Replayed
  <2>3. answers' \subseteq answers \cup {a}
    BY <1>2 DEF RejectConflict, Answered
  <2> HIDE DEF a
  <2> QED BY <1>0, <2>1, <2>2, <2>3, MessagesPreserve
<1>3. CASE Replay(p)
  <2> DEFINE a == [to |-> p, status |-> Replayed, payment |-> idempotency[p.key].payment,
                   epoch |-> epoch]
  <2>0. idempotency[p.key].payment \in Nat
    BY <1>3 DEF Replay, IInv, TypeOK
  <2>1. a \in Answer
    BY <1>0, <2>0, AnswerType
  <2>2. Justified(a) /\ a.epoch = epoch
    BY <1>3 DEF Replay, SameRequest, Justified, Succeeded, Conflict, Created, Replayed
  <2>3. answers' \subseteq answers \cup {a}
    BY <1>3 DEF Replay, Answered
  <2> HIDE DEF a
  <2> QED BY <1>0, <2>1, <2>2, <2>3, MessagesPreserve
<1> QED BY <1>1, <1>2, <1>3

\* A payment is made under a key that is free, with an id nobody has.
LEMMA CreatePreserves ==
  ASSUME IInv, NEW p \in requests, CreatePayment(p)
  PROVE  IInv'
<1> DEFINE id == drawn + 1
           record == [body |-> p.body, payment |-> id]
           a == [to |-> p, status |-> Created, payment |-> id, epoch |-> epoch]
<1>1. /\ p \in Purchases /\ p.key \in Key /\ p.body \in Body
      /\ p.key \notin DOMAIN idempotency
      /\ requests' \subseteq Purchases /\ pending' \subseteq Purchases
  BY PurchaseAssumption DEF IInv, TypeOK, CreatePayment, Take, Valid
<1>2. /\ drawn' = id /\ id \in Nat /\ id \in 1 .. drawn' /\ drawn' \in 0 .. MaxDrawn
      /\ drawn \in Nat /\ epoch' = epoch
  BY BoundAssumption DEF IInv, TypeOK, CreatePayment
<1>3. id \notin DOMAIN payments
  BY <1>2 DEF IInv, TypeOK
<1>4. /\ payments' = Put(payments, id, p.body)
      /\ idempotency' = Put(idempotency, p.key, record)
      /\ answers' = answers \cup {a}
  BY DEF CreatePayment, Remember, Answered
<1>5. a \in Answer
  BY <1>1, <1>2, AnswerType
<1>6. record \in [body : Body, payment : 1 .. drawn']
  BY <1>1, <1>2
<1>7. /\ DOMAIN payments' = DOMAIN payments \cup {id} /\ payments'[id] = p.body
      /\ \A i \in DOMAIN payments : payments'[i] = payments[i]
  BY <1>3, <1>4 DEF Put
<1>8. /\ DOMAIN idempotency' = DOMAIN idempotency \cup {p.key}
      /\ idempotency'[p.key] = record
      /\ \A k \in DOMAIN idempotency : idempotency'[k] = idempotency[k]
  BY <1>1, <1>4 DEF Put
<1>9. \A k \in DOMAIN idempotency : idempotency[k].payment # id
  BY <1>3 DEF IInv, OnePaymentPerKey
<1> HIDE DEF a
<1>10. TypeOK'
  <2>1. /\ DOMAIN payments' \subseteq 1 .. drawn'
        /\ \A i \in DOMAIN payments' : payments'[i] \in Body
    BY <1>1, <1>2, <1>7 DEF IInv, TypeOK
  <2>2. /\ DOMAIN idempotency' \subseteq Key
        /\ \A k \in DOMAIN idempotency' :
             idempotency'[k] \in [body : Body, payment : 1 .. drawn']
    BY <1>1, <1>2, <1>6, <1>8 DEF IInv, TypeOK
  <2>3. answers' \subseteq Answer
    BY <1>4, <1>5 DEF IInv, TypeOK
  <2> QED BY <1>1, <1>2, <2>1, <2>2, <2>3 DEF IInv, TypeOK
<1>11. IsFiniteSet(DOMAIN idempotency')
  BY <1>8, FS_AddElement DEF IInv
<1>12. OnePaymentPerKey'
  <2>1. \A k \in DOMAIN idempotency' :
          /\ idempotency'[k].payment \in DOMAIN payments'
          /\ payments'[idempotency'[k].payment] = idempotency'[k].body
    BY <1>7, <1>8 DEF IInv, OnePaymentPerKey
  <2>2. \A k, l \in DOMAIN idempotency' :
          idempotency'[k].payment = idempotency'[l].payment => k = l
    BY <1>8, <1>9 DEF IInv, OnePaymentPerKey
  <2>3. IsFiniteSet(DOMAIN payments)
    <3>1. DOMAIN payments \in SUBSET (1 .. drawn)
      BY DEF IInv, TypeOK
    <3>2. IsFiniteSet(1 .. drawn)
      BY <1>2, FS_Interval
    <3> QED BY <3>1, <3>2, FS_Subset
  <2>4. /\ Cardinality(DOMAIN payments') = Cardinality(DOMAIN payments) + 1
        /\ Cardinality(DOMAIN payments) \in Nat
    BY <1>3, <1>7, <2>3, FS_AddElement, FS_CardinalityType
  <2>5. /\ Cardinality(DOMAIN idempotency') = Cardinality(DOMAIN idempotency) + 1
        /\ Cardinality(DOMAIN idempotency) \in Nat
    BY <1>1, <1>8, FS_AddElement, FS_CardinalityType DEF IInv
  <2>6. Cardinality(DOMAIN payments') = SeedCount + Cardinality(DOMAIN idempotency')
    BY <2>4, <2>5, SeedAssumption DEF IInv, OnePaymentPerKey
  <2> QED BY <2>1, <2>2, <2>6 DEF OnePaymentPerKey
<1>13. \A b \in {a} : b.epoch = epoch' /\ Justified(b)'
  <2>1. /\ a.to = p /\ a.payment = id /\ a.status # Conflict /\ a.epoch = epoch'
        /\ p.key \in DOMAIN idempotency'
        /\ idempotency'[p.key].payment = id /\ idempotency'[p.key].body = p.body
    BY <1>2, <1>8 DEF a, Created, Conflict
  <2> QED BY <2>1 DEF Justified
<1>14. \A b \in answers : b.epoch <= epoch' /\ (b.epoch = epoch' => Justified(b)')
  BY <1>2, <1>8 DEF IInv, AnswersJustified, Justified, Succeeded
<1>15. AnswersJustified'
  <2>1. \A b \in answers' : b.epoch <= epoch' /\ (b.epoch = epoch' => Justified(b)')
    <3>1. epoch' \in Nat
      BY <1>2, BoundAssumption DEF IInv, TypeOK
    <3> QED BY <1>4, <1>13, <1>14, <3>1
  <2> QED BY <2>1 DEF AnswersJustified
<1>16. ASSUME NEW b \in answers', NEW c \in answers',
              Succeeded(b), Succeeded(c), b.to.key = c.to.key, b.epoch = c.epoch
       PROVE  b.payment = c.payment /\ b.to.body = c.to.body
  <2>1. CASE b \in answers /\ c \in answers
    BY <1>16, <2>1 DEF IInv, AnswersAgree
  <2>2. CASE b.epoch = epoch'
    <3>1. Justified(b)' /\ Justified(c)'
      BY <1>4, <1>13, <1>14, <1>16, <2>2
    <3> QED BY <1>16, <3>1 DEF Justified, Succeeded
  <2> QED BY <1>4, <1>13, <1>16, <2>1, <2>2
<1>17. AnswersAgree'
  BY <1>16 DEF AnswersAgree, Succeeded
<1> QED BY <1>10, <1>11, <1>12, <1>15, <1>17 DEF IInv

\* Right after seeding, the payments are the seed's and no key is known.
LEMMA SeededFacts ==
  ASSUME NEW first \in Nat
  PROVE  /\ DOMAIN SeededPayments(first) = first + 1 .. first + SeedCount
         /\ \A id \in DOMAIN SeededPayments(first) : SeededPayments(first)[id] = SeedBody
         /\ Cardinality(DOMAIN SeededPayments(first)) = SeedCount + Cardinality(DOMAIN EmptyStore)
<1>1. DOMAIN SeededPayments(first) = first + 1 .. first + SeedCount
  BY DEF SeededPayments
<1>2. Cardinality(first + 1 .. first + SeedCount) = SeedCount
  BY SeedAssumption, FS_Interval
<1>3. Cardinality(DOMAIN EmptyStore) = 0
  BY EmptyStoreFacts, FS_EmptySet
<1> QED BY <1>1, <1>2, <1>3, SeedAssumption DEF SeededPayments

\* A reset starts a new life: no answer is of it yet.
LEMMA ResetPreserves ==
  ASSUME IInv, Reset
  PROVE  IInv'
<1>1. /\ drawn \in Nat /\ drawn' = drawn + SeedCount /\ drawn' \in 0 .. MaxDrawn
      /\ epoch \in Nat /\ epoch' = epoch + 1 /\ epoch' \in 0 .. MaxEpoch
      /\ payments' = SeededPayments(drawn) /\ idempotency' = EmptyStore
      /\ UNCHANGED <<requests, answers, pending>>
  BY SeedAssumption, BoundAssumption DEF IInv, TypeOK, Reset, KeysAfterReset
<1>2. DOMAIN payments' = drawn + 1 .. drawn + SeedCount /\ DOMAIN idempotency' = {}
  BY <1>1, SeededFacts, EmptyStoreFacts
<1>3. TypeOK'
  <2>1. DOMAIN payments' \subseteq 1 .. drawn'
    BY <1>1, <1>2, SeedAssumption
  <2>2. \A id \in DOMAIN payments' : payments'[id] \in Body
    BY <1>1, SeededFacts, SeedAssumption
  <2> QED BY <1>1, <1>2, <2>1, <2>2 DEF IInv, TypeOK
<1>4. OnePaymentPerKey' /\ IsFiniteSet(DOMAIN idempotency)'
  BY <1>1, <1>2, SeededFacts, FS_EmptySet DEF OnePaymentPerKey
<1>5. AnswersJustified'
  <2>1. \A b \in answers : b.epoch \in Nat /\ b.epoch <= epoch
    BY DEF IInv, TypeOK, Answer, AnswersJustified
  <2> QED BY <1>1, <2>1 DEF AnswersJustified
<1>6. AnswersAgree'
  BY <1>1 DEF IInv, AnswersAgree, Succeeded
<1> QED BY <1>3, <1>4, <1>5, <1>6 DEF IInv

-----------------------------------------------------------------------------
\* Every step of the server, the clients and the network preserves the invariant.
LEMMA StepPreserves == IInv /\ [Next]_vars => IInv'
<1> SUFFICES ASSUME IInv, [Next]_vars PROVE IInv'
  OBVIOUS
<1>1. CASE \E p \in Purchases : Send(p)
  BY <1>1, SilencePreserves DEF Send, serverVars, IInv, TypeOK
<1>2. CASE \E p \in requests : RejectInvalid(p) \/ RejectConflict(p) \/ Replay(p)
  BY <1>2, AnswersFromData
<1>3. CASE \E p \in requests : CreatePayment(p)
  BY <1>3, CreatePreserves
<1>4. CASE \E a \in answers : Hear(a)
  BY <1>4, SilencePreserves DEF Hear, serverVars, IInv, TypeOK
<1>5. CASE Lose
  BY <1>5, SilencePreserves DEF Lose, serverVars, IInv, TypeOK
<1>6. CASE Reset
  BY <1>6, ResetPreserves
<1>7. CASE UNCHANGED vars
  BY <1>7, SilencePreserves DEF vars, serverVars, IInv, TypeOK
<1> QED BY <1>1, <1>2, <1>3, <1>4, <1>5, <1>6, <1>7 DEF Next, Handle

\* The server starts with the seed and nothing on the network.
LEMMA InitHolds == Init => IInv
<1> SUFFICES ASSUME Init PROVE IInv
  OBVIOUS
<1>1. /\ DOMAIN payments = 1 .. drawn /\ DOMAIN idempotency = {}
      /\ \A id \in DOMAIN payments : payments[id] \in Body
      /\ drawn \in 0 .. MaxDrawn /\ epoch \in 0 .. MaxEpoch
  BY SeededFacts, EmptyStoreFacts, SeedAssumption, BoundAssumption DEF Init
<1>2. TypeOK
  BY <1>1 DEF TypeOK, Init
<1>3. OnePaymentPerKey /\ IsFiniteSet(DOMAIN idempotency)
  BY <1>1, SeededFacts, FS_EmptySet DEF Init, OnePaymentPerKey
<1> QED BY <1>2, <1>3 DEF Init, IInv, AnswersJustified, AnswersAgree

\* The inductive invariant holds in every reachable state.
THEOREM Invariance == Spec => []IInv
BY InitHolds, StepPreserves, PTL DEF Spec

\* Only validated purchases are recorded, under ids that were drawn.
THEOREM TypeCorrect == Spec => []TypeOK
<1>1. IInv => TypeOK
  BY DEF IInv
<1> QED BY <1>1, Invariance, PTL

\* Retries, duplicates and resets leave one payment per key, and none besides
\* these and the seed.
THEOREM PaidOnce == Spec => []OnePaymentPerKey
<1>1. IInv => OnePaymentPerKey
  BY DEF IInv
<1> QED BY <1>1, Invariance, PTL

\* Two answers of success under one key name one payment, for one body.
THEOREM Agreement == Spec => []AnswersAgree
<1>1. IInv => AnswersAgree
  BY DEF IInv
<1> QED BY <1>1, Invariance, PTL

\* Until a reset, what a client was told stays true.
THEOREM Truthfulness == Spec => []AnswersHold
<1>1. ASSUME IInv, NEW a \in answers, a.epoch = epoch
      PROVE  /\ Succeeded(a) => /\ a.payment \in DOMAIN payments
                                /\ payments[a.payment] = a.to.body
             /\ a.status = Conflict => /\ a.to.key \in DOMAIN idempotency
                                       /\ idempotency[a.to.key].body # a.to.body
  BY <1>1 DEF IInv, AnswersJustified, Justified, OnePaymentPerKey
<1>2. IInv => AnswersHold
  BY <1>1 DEF AnswersHold
<1> QED BY <1>2, Invariance, PTL

-----------------------------------------------------------------------------
(* The refinement. *)

\* Every payment besides the seed is some key's.
LEMMA ChargesFacts ==
  ASSUME IInv
  PROVE  Charges = Cardinality(DOMAIN idempotency) /\ Charges \in Nat
<1>1. Cardinality(DOMAIN idempotency) \in Nat
  BY FS_CardinalityType DEF IInv
<1>2. Cardinality(DOMAIN payments) = SeedCount + Cardinality(DOMAIN idempotency)
  BY DEF IInv, OnePaymentPerKey
<1> QED BY <1>1, <1>2, SeedAssumption DEF Charges

\* What one more answer says.
LEMMA OneMoreAnswer ==
  ASSUME NEW a, answers' \subseteq answers \cup {a}
  PROVE  /\ Confirmations' \subseteq Confirmations \cup
              (IF Succeeded(a)
               THEN {[key |-> a.to.key, body |-> a.to.body, payment |-> a.payment,
                      life |-> a.epoch]}
               ELSE {})
         /\ Denials' \subseteq Denials \cup
              (IF a.status = Conflict
               THEN {[key |-> a.to.key, body |-> a.to.body, life |-> a.epoch]} ELSE {})
<1>1. \A b \in answers' : b \in answers \/ b = a
  OBVIOUS
<1>2. /\ Confirmations' = {[key |-> b.to.key, body |-> b.to.body, payment |-> b.payment,
                           life |-> b.epoch] : b \in {b \in answers' : Succeeded(b)}}
      /\ Denials' = {[key |-> b.to.key, body |-> b.to.body, life |-> b.epoch] :
                       b \in {b \in answers' : b.status = Conflict}}
  BY DEF Confirmations, Denials, Succeeded
<1> QED BY <1>1, <1>2 DEF Confirmations, Denials

LEMMA FewerAnswers ==
  ASSUME answers' \subseteq answers
  PROVE  Confirmations' \subseteq Confirmations /\ Denials' \subseteq Denials
BY DEF Confirmations, Denials, Succeeded

\* As long as the stores do not change, losing messages and one justified answer is
\* telling what is so.
LEMMA AnswerTells ==
  ASSUME IInv, UNCHANGED serverVars, NEW a \in Answer, a.epoch = epoch, Justified(a),
         a.status = Conflict => a.to.body \in Body, answers' \subseteq answers \cup {a}
  PROVE  Promised!Tell
<1>1. UNCHANGED <<idempotency, Charges, epoch>>
  BY DEF serverVars, Charges
<1>2. Succeeded(a) =>
        [key |-> a.to.key, body |-> a.to.body, payment |-> a.payment, life |-> a.epoch]
          \in Promised!Receipts(idempotency, epoch)
  BY DEF Justified, Promised!Receipts
<1>3. a.status = Conflict =>
        [key |-> a.to.key, body |-> a.to.body, life |-> a.epoch]
          \in Promised!Refusals(idempotency, epoch)
  <2> SUFFICES ASSUME a.status = Conflict
               PROVE  [key |-> a.to.key, body |-> a.to.body, life |-> a.epoch]
                        \in Promised!Refusals(idempotency, epoch)
    OBVIOUS
  <2>1. a.to.key \in DOMAIN idempotency /\ idempotency[a.to.key].body # a.to.body
    BY DEF Justified
  <2> QED BY <2>1 DEF Promised!Refusals
<1>4. Promised!Speak(idempotency)
  BY <1>2, <1>3, OneMoreAnswer DEF Promised!Speak
<1> QED BY <1>1, <1>4 DEF Promised!Tell

LEMMA SilenceTells ==
  ASSUME UNCHANGED serverVars, answers' \subseteq answers
  PROVE  Promised!Tell
BY FewerAnswers DEF serverVars, Charges, Promised!Tell, Promised!Speak

\* Refusals and replays tell of the stores as they are.
LEMMA HandlerTells ==
  ASSUME IInv, NEW p \in requests,
         RejectInvalid(p) \/ RejectConflict(p) \/ Replay(p)
  PROVE  Promised!Tell
<1>0. p \in Purchases /\ UNCHANGED serverVars
  BY DEF IInv, TypeOK, RejectInvalid, RejectConflict, Replay
<1>1. CASE RejectInvalid(p)
  <2> DEFINE a == [to |-> p, status |-> Invalid, payment |-> NoPayment, epoch |-> epoch]
  <2>1. a \in Answer
    BY <1>0, AnswerType DEF NoPayment
  <2>2. Justified(a) /\ a.epoch = epoch /\ a.status # Conflict
    BY DEF Justified, Succeeded, Invalid, Conflict, Created, Replayed
  <2>3. answers' \subseteq answers \cup {a}
    BY <1>1 DEF RejectInvalid, Answered
  <2> HIDE DEF a
  <2> QED BY <1>0, <2>1, <2>2, <2>3, AnswerTells
<1>2. CASE RejectConflict(p)
  <2> DEFINE a == [to |-> p, status |-> Conflict, payment |-> NoPayment, epoch |-> epoch]
  <2>1. a \in Answer
    BY <1>0, AnswerType DEF NoPayment
  <2>2. Justified(a) /\ a.epoch = epoch
    BY <1>2 DEF RejectConflict, SameRequest, Justified, Succeeded, Conflict, Created, Replayed
  <2>3. a.to.body \in Body
    BY <1>0, <1>2, PurchaseAssumption DEF RejectConflict, Valid
  <2>4. answers' \subseteq answers \cup {a}
    BY <1>2 DEF RejectConflict, Answered
  <2> HIDE DEF a
  <2> QED BY <1>0, <2>1, <2>2, <2>3, <2>4, AnswerTells
<1>3. CASE Replay(p)
  <2> DEFINE a == [to |-> p, status |-> Replayed, payment |-> idempotency[p.key].payment,
                   epoch |-> epoch]
  <2>0. idempotency[p.key].payment \in Nat
    BY <1>3 DEF Replay, IInv, TypeOK
  <2>1. a \in Answer
    BY <1>0, <2>0, AnswerType
  <2>2. Justified(a) /\ a.epoch = epoch /\ a.status # Conflict
    BY <1>3 DEF Replay, SameRequest, Justified, Succeeded, Conflict, Created, Replayed
  <2>3. answers' \subseteq answers \cup {a}
    BY <1>3 DEF Replay, Answered
  <2> HIDE DEF a
  <2> QED BY <1>0, <2>1, <2>2, <2>3, AnswerTells
<1> QED BY <1>1, <1>2, <1>3

\* A payment that is made is a purchase, and the answer its receipt.
LEMMA CreateBuys ==
  ASSUME IInv, IInv', NEW p \in requests, CreatePayment(p)
  PROVE  \E k \in Key, b \in Body, id \in 1 .. MaxDrawn : Promised!Buy(k, b, id)
<1> DEFINE id == drawn + 1
           a == [to |-> p, status |-> Created, payment |-> id, epoch |-> epoch]
<1>1. /\ p.key \in Key /\ p.body \in Body /\ p.key \notin DOMAIN idempotency
      /\ UNCHANGED epoch
  BY PurchaseAssumption DEF IInv, TypeOK, CreatePayment, Take, Valid
<1>2. id \in 1 .. MaxDrawn
  BY BoundAssumption DEF IInv, TypeOK, CreatePayment
<1>3. id \notin Promised!Charged
  <2>1. \A k \in DOMAIN idempotency : idempotency[k].payment \in 1 .. drawn
    BY DEF IInv, TypeOK
  <2>2. drawn \in Nat
    BY BoundAssumption DEF IInv, TypeOK
  <2> QED BY <2>1, <2>2 DEF Promised!Charged
<1>4. idempotency' = [key \in DOMAIN idempotency \cup {p.key} |->
                        IF key = p.key THEN [body |-> p.body, payment |-> id]
                        ELSE idempotency[key]]
  BY <1>1 DEF CreatePayment, Remember, Put
<1>5. Charges' = Charges + 1
  <2>1. DOMAIN idempotency' = DOMAIN idempotency \cup {p.key}
    BY <1>4
  <2>2. Cardinality(DOMAIN idempotency') = Cardinality(DOMAIN idempotency) + 1
    BY <1>1, <2>1, FS_AddElement DEF IInv
  <2>3. Charges' = Cardinality(DOMAIN idempotency')
    <3>1. Cardinality(DOMAIN idempotency') \in Nat
      BY FS_CardinalityType DEF IInv
    <3>2. Cardinality(DOMAIN payments') = SeedCount + Cardinality(DOMAIN idempotency')
      BY DEF IInv, OnePaymentPerKey
    <3> QED BY <3>1, <3>2, SeedAssumption DEF Charges
  <2> QED BY <2>2, <2>3, ChargesFacts
<1>6. Promised!Speak(idempotency')
  <2>1. answers' \subseteq answers \cup {a}
    BY DEF CreatePayment, Answered
  <2>2. a.to = p /\ a.payment = id /\ a.epoch = epoch /\ a.status # Conflict
    BY DEF Created, Conflict
  <2> HIDE DEF a
  <2>3. [key |-> p.key, body |-> p.body, payment |-> id, life |-> epoch]
          \in Promised!Receipts(idempotency', epoch)
    <3>1. /\ p.key \in DOMAIN idempotency'
          /\ idempotency'[p.key].body = p.body /\ idempotency'[p.key].payment = id
      BY <1>4
    <3> QED BY <3>1 DEF Promised!Receipts
  <2>4. /\ Confirmations' \subseteq Confirmations \cup Promised!Receipts(idempotency', epoch)
        /\ Denials' \subseteq Denials
    BY <2>1, <2>2, <2>3, OneMoreAnswer
  <2> QED BY <2>4 DEF Promised!Speak
<1>7. Promised!Buy(p.key, p.body, id)
  BY <1>1, <1>3, <1>4, <1>5, <1>6 DEF Promised!Buy
<1> HIDE DEF id
<1> QED BY <1>1, <1>2, <1>7

\* A reset forgets, and leaves what is under way to tell of the life before.
LEMMA ResetForgets ==
  ASSUME IInv, IInv', Reset
  PROVE  Promised!Forget
<1>1. idempotency' = EmptyStore /\ epoch' = epoch + 1 /\ UNCHANGED answers
  BY DEF Reset, KeysAfterReset
<1>2. Charges' = 0
  <2>1. DOMAIN idempotency' = {}
    BY <1>1, EmptyStoreFacts
  <2>2. Cardinality(DOMAIN payments') = SeedCount + 0
    BY <2>1, FS_EmptySet DEF IInv, OnePaymentPerKey
  <2> QED BY <2>2, SeedAssumption DEF Charges
<1>3. UNCHANGED <<Confirmations, Denials>>
  BY <1>1 DEF Confirmations, Denials, Succeeded
<1> QED BY <1>1, <1>2, <1>3 DEF Promised!Forget, EmptyStore

\* Every step of the server, the clients and the network is a step of the promise.
LEMMA StepKeeps == IInv /\ IInv' /\ [Next]_vars => [Promised!Next]_(Promised!promiseVars)
<1> SUFFICES ASSUME IInv, IInv', [Next]_vars
             PROVE  [Promised!Next]_(Promised!promiseVars)
  OBVIOUS
<1>1. ASSUME NEW p \in Purchases, Send(p) PROVE Promised!Tell
  BY <1>1, SilenceTells DEF Send, serverVars
<1>2. ASSUME NEW p \in requests, RejectInvalid(p) \/ RejectConflict(p) \/ Replay(p)
      PROVE  Promised!Tell
  BY <1>2, HandlerTells
<1>3. ASSUME NEW p \in requests, CreatePayment(p)
      PROVE  \E k \in Key, b \in Body, id \in 1 .. MaxDrawn : Promised!Buy(k, b, id)
  BY <1>3, CreateBuys
<1>4. ASSUME NEW a \in answers, Hear(a) PROVE Promised!Tell
  BY <1>4, SilenceTells DEF Hear, serverVars
<1>5. ASSUME Lose PROVE Promised!Tell
  BY <1>5, SilenceTells DEF Lose, serverVars
<1>6. ASSUME Reset PROVE Promised!Forget
  BY <1>6, ResetForgets
<1>7. ASSUME UNCHANGED vars PROVE Promised!Tell
  BY <1>7, SilenceTells DEF vars, serverVars
<1> QED
  BY <1>1, <1>2, <1>3, <1>4, <1>5, <1>6, <1>7 DEF Next, Handle, Promised!Next

LEMMA PromiseInitially == Init => Promised!Init
<1> SUFFICES ASSUME Init PROVE Promised!Init
  OBVIOUS
<1>1. Charges = 0
  BY InitHolds, ChargesFacts, EmptyStoreFacts, FS_EmptySet DEF Init
<1>2. Confirmations = {} /\ Denials = {}
  BY DEF Init, Confirmations, Denials
<1> QED BY <1>1, <1>2 DEF Init, Promised!Init, EmptyStore

\* POST /payments is idempotent as Idempotency has it, for any keys, bodies, seed and
\* purchases, and any loss, repetition, delay and reset.
THEOREM Refinement == Spec => KeepsIdempotency
<1>1. IInv /\ IInv' /\ [Next]_vars => [Promised!Next]_(Promised!promiseVars)
  BY StepKeeps
<1> QED BY <1>1, PromiseInitially, Invariance, PTL DEF Spec, KeepsIdempotency, Promised!Spec
=============================================================================
