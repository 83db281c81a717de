----------------------------- MODULE Idempotency -----------------------------
(***************************************************************************)
(* What POST /payments promises to those who pay, with no requests, network *)
(* or stores in it: however often one asks, a key buys at most once in each *)
(* life of the data, every purchase is charged exactly once, and whoever is *)
(* told anything is told the truth about the life it was said in.           *)
(***************************************************************************)
EXTENDS Naturals

CONSTANTS Key, Body, Id

VARIABLES
  bought,            \* key -> what it bought in this life: body and payment
  charges,           \* payments made in this life
  life,              \* resets so far
  confirmed,         \* what clients may hear of purchases made
  denied             \* what they may hear of keys taken for something else

promiseVars == <<bought, charges, life, confirmed, denied>>

Charged == {bought[k].payment : k \in DOMAIN bought}

\* What may truly be said of purchases in a life.
Receipts(sales, l) ==
  {[key |-> k, body |-> sales[k].body, payment |-> sales[k].payment, life |-> l] :
     k \in DOMAIN sales}

Refusals(sales, l) ==
  {r \in [key : DOMAIN sales, body : Body, life : {l}] : sales[r.key].body # r.body}

\* Messages are sent, repeated and lost at any time; none is invented.
Speak(sales) ==
  /\ confirmed' \subseteq confirmed \cup Receipts(sales, life)
  /\ denied' \subseteq denied \cup Refusals(sales, life)

Init ==
  /\ bought = [k \in {} |-> k]
  /\ charges = 0
  /\ life = 0
  /\ confirmed = {}
  /\ denied = {}

\* A key that has bought nothing yet buys, with a payment of its own.
Buy(k, b, id) ==
  /\ k \notin DOMAIN bought
  /\ id \notin Charged
  /\ bought' = [key \in DOMAIN bought \cup {k} |->
                  IF key = k THEN [body |-> b, payment |-> id] ELSE bought[key]]
  /\ charges' = charges + 1
  /\ Speak(bought')
  /\ UNCHANGED life

Tell == Speak(bought) /\ UNCHANGED <<bought, charges, life>>

\* The data are reset: a new life, in which nothing has been bought or said.
Forget ==
  /\ bought' = [k \in {} |-> k]
  /\ charges' = 0
  /\ life' = life + 1
  /\ UNCHANGED <<confirmed, denied>>

Next ==
  \/ \E k \in Key, b \in Body, id \in Id : Buy(k, b, id)
  \/ Tell
  \/ Forget

Spec == Init /\ [][Next]_promiseVars
=============================================================================
