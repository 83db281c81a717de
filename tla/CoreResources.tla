---------------------------- MODULE CoreResources ----------------------------
(***************************************************************************)
(* The four core REST resources, which refer to each other: a customer may  *)
(* be linked to a user, an order names a customer and, in its line items,   *)
(* products, and is priced when it is written.  Deleting never cascades.    *)
(* POST /admin/reset reseeds all four, in an order that matters.            *)
(*                                                                         *)
(* Handlers are synchronous: one request is one step, validations included. *)
(* A record keeps the fields some guard or other record depends on: names,  *)
(* roles, addresses, stock, statuses and timestamps are left out.  Prices   *)
(* and totals are in cents.                                                 *)
(***************************************************************************)
EXTENDS Stores, Sequences, SequencesExt

CONSTANTS
  UserCount, CustomerCount, ProductCount, OrderCount,   \* rows seeded
  LinkEvery,         \* every LinkEvery-th seeded customer has a user (3)
  Emails,            \* e-mail addresses; seeded row i has address i
  Prices,            \* prices a client may set
  ItemLists,         \* line items a client may order
  NoUser,            \* userId: null
  Absent,            \* a field left out of a PATCH body
  MaxUser, MaxCustomer, MaxProduct, MaxOrder            \* bounds on ids

ASSUME SeedAssumption ==
  /\ UserCount \in Nat /\ OrderCount \in Nat
  /\ CustomerCount \in Nat \ {0} /\ ProductCount \in Nat \ {0}
  /\ LinkEvery \in Nat \ {0}
  /\ 1 .. UserCount \subseteq Emails /\ 1 .. CustomerCount \subseteq Emails
ASSUME InputAssumption ==
  /\ Prices \subseteq Nat
  /\ ItemLists \subseteq Seq([productId : Nat, quantity : Nat])
ASSUME NullAssumption == NoUser \notin Nat
ASSUME AbsentAssumption == Absent \notin Nat \cup Emails \cup ItemLists \cup {NoUser}
ASSUME BoundAssumption == {MaxUser, MaxCustomer, MaxProduct, MaxOrder} \subseteq Nat

VARIABLES
  users, customers, products, orders,    \* the auto-numbered stores
  reply                                  \* what the latest request was told

vars == <<users, customers, products, orders, reply>>

User == [email : Emails]
Customer == [email : Emails, userId : Nat \cup {NoUser}]
Product == [price : Nat]
LineItem == [productId : Nat, quantity : Nat]
Order == [customerId : Nat, items : Seq(LineItem), total : Nat]

Store(Row) == [rows : UNION {[S -> Row] : S \in SUBSET Nat}, next : Nat]

-----------------------------------------------------------------------------
(* Seeding.  A Map lists its entries in insertion order, which for an       *)
(* auto-numbered store is the order of the ids.                             *)

NthId(rows, n) ==
  CHOOSE i \in DOMAIN rows : Cardinality({j \in DOMAIN rows : j < i}) = n

Cost(rows, items) ==
  FoldLeft(LAMBDA sum, item : sum + rows[item.productId].price * item.quantity,
           0, items)

SeededUsers == ResetRows([i \in 1 .. UserCount |-> [email |-> i]])

SeededProducts == ResetRows([i \in 1 .. ProductCount |-> [price |-> 1000 + 150 * i]])

SeedCustomers(userRows) ==
  ResetRows([i \in 1 .. CustomerCount |->
    [email |-> i,
     userId |-> IF i % LinkEvery = 0 /\ i <= Cardinality(DOMAIN userRows)
                THEN i ELSE NoUser]])

SeedItems(i, productRows) ==
  LET size == Cardinality(DOMAIN productRows)
      first == [productId |-> NthId(productRows, (i - 1) % size),
                quantity |-> (i % 3) + 1]
      second == [productId |-> NthId(productRows, i % size),
                 quantity |-> (i % 2) + 1]
  IN IF i % 4 = 0 THEN <<first, second>> ELSE <<first>>

SeedOrders(customerRows, productRows) ==
  ResetRows([i \in 1 .. OrderCount |->
    LET items == SeedItems(i, productRows) IN
    [customerId |-> NthId(customerRows, (i - 1) % Cardinality(DOMAIN customerRows)),
     items |-> items,
     total |-> Cost(productRows, items)]])

\* Mutant: customers are reseeded before the users they link to.
CustomersReseededFirst == SeedCustomers(users.rows)

SeededCustomers == SeedCustomers(SeededUsers.rows)

SeededOrders == SeedOrders(SeededCustomers.rows, SeededProducts.rows)

-----------------------------------------------------------------------------
(* Validation. *)

UserEmailTaken(email, self) ==
  \E i \in DOMAIN users.rows \ {self} : users.rows[i].email = email

\* Mutant: the customers' check looks at the users, as its twin does.
EmailTakenByUser(email, self) ==
  \E i \in DOMAIN users.rows \ {self} : users.rows[i].email = email

CustomerEmailTaken(email, self) ==
  \E i \in DOMAIN customers.rows \ {self} : customers.rows[i].email = email

\* Mutant: an id that a user may have, not one that a user has.
UserOutOfRange(userId) == userId \notin {NoUser, Absent} \cup (1 .. MaxUser)

UserMissing(userId) == userId \notin {NoUser, Absent} \cup DOMAIN users.rows

CustomerMissing(customerId) ==
  customerId \notin {Absent} \cup DOMAIN customers.rows

ProductMissing(items) ==
  items # Absent /\ \E k \in DOMAIN items : items[k].productId \notin DOMAIN products.rows

-----------------------------------------------------------------------------
(* Responses: a body that fails validation is a 400 even when the id is     *)
(* unknown; an unknown id is a 404; neither changes anything.               *)

Respond(status) == reply' = status

Refuse(status) ==
  Respond(status) /\ UNCHANGED <<users, customers, products, orders>>

Given(value, default) == IF value = Absent THEN default ELSE value

-----------------------------------------------------------------------------
(* Users. *)

CreateUser(email) ==
  /\ users.next <= MaxUser
  /\ ~ UserEmailTaken(email, 0)
  /\ users' = Insert(users, [email |-> email])
  /\ Respond("created")
  /\ UNCHANGED <<customers, products, orders>>

CreateUserRefused(email) == UserEmailTaken(email, 0) /\ Refuse("invalid")

\* PUT, and PATCH with or without an e-mail.
WriteUser(id, email) ==
  /\ ~ UserEmailTaken(email, id)
  /\ id \in DOMAIN users.rows
  /\ users' = UpdateRow(users, id, [email |-> Given(email, users.rows[id].email)])
  /\ Respond("ok")
  /\ UNCHANGED <<customers, products, orders>>

WriteUserRefused(id, email) ==
  \/ UserEmailTaken(email, id) /\ Refuse("invalid")
  \/ /\ ~ UserEmailTaken(email, id)
     /\ id \notin DOMAIN users.rows
     /\ Refuse("not found")

DeleteUser(id) ==
  /\ id \in DOMAIN users.rows
  /\ users' = DropRow(users, id)
  /\ Respond("deleted")
  /\ UNCHANGED <<customers, products, orders>>

-----------------------------------------------------------------------------
(* Customers. *)

CreateCustomer(email, userId) ==
  /\ customers.next <= MaxCustomer
  /\ ~ CustomerEmailTaken(email, 0)
  /\ ~ UserMissing(userId)
  /\ customers' = Insert(customers, [email |-> email, userId |-> userId])
  /\ Respond("created")
  /\ UNCHANGED <<users, products, orders>>

CreateCustomerRefused(email, userId) ==
  /\ CustomerEmailTaken(email, 0) \/ UserMissing(userId)
  /\ Refuse("invalid")

\* PUT (which has every field), and PATCH with some of them.
WriteCustomer(id, email, userId) ==
  /\ ~ CustomerEmailTaken(email, id)
  /\ ~ UserMissing(userId)
  /\ id \in DOMAIN customers.rows
  /\ LET old == customers.rows[id] IN
       customers' = UpdateRow(customers, id,
                      [email |-> Given(email, old.email),
                       userId |-> Given(userId, old.userId)])
  /\ Respond("ok")
  /\ UNCHANGED <<users, products, orders>>

WriteCustomerRefused(id, email, userId) ==
  LET invalid == CustomerEmailTaken(email, id) \/ UserMissing(userId) IN
  \/ invalid /\ Refuse("invalid")
  \/ ~ invalid /\ id \notin DOMAIN customers.rows /\ Refuse("not found")

DeleteCustomer(id) ==
  /\ id \in DOMAIN customers.rows
  /\ customers' = DropRow(customers, id)
  /\ Respond("deleted")
  /\ UNCHANGED <<users, products, orders>>

-----------------------------------------------------------------------------
(* Products: nothing to validate against other rows. *)

CreateProduct(price) ==
  /\ products.next <= MaxProduct
  /\ products' = Insert(products, [price |-> price])
  /\ Respond("created")
  /\ UNCHANGED <<users, customers, orders>>

\* PUT, and PATCH with or without a price.
WriteProduct(id, price) ==
  /\ id \in DOMAIN products.rows
  /\ products' = UpdateRow(products, id,
                   [price |-> Given(price, products.rows[id].price)])
  /\ Respond("ok")
  /\ UNCHANGED <<users, customers, orders>>

DeleteProduct(id) ==
  /\ id \in DOMAIN products.rows
  /\ products' = DropRow(products, id)
  /\ Respond("deleted")
  /\ UNCHANGED <<users, customers, orders>>

-----------------------------------------------------------------------------
(* Orders. *)

NewOrder(customerId, items) ==
  [customerId |-> customerId, items |-> items, total |-> Cost(products.rows, items)]

CreateOrder(customerId, items) ==
  /\ orders.next <= MaxOrder
  /\ ~ CustomerMissing(customerId)
  /\ ~ ProductMissing(items)
  /\ orders' = Insert(orders, NewOrder(customerId, items))
  /\ Respond("created")
  /\ UNCHANGED <<users, customers, products>>

CreateOrderRefused(customerId, items) ==
  /\ CustomerMissing(customerId) \/ ProductMissing(items)
  /\ Refuse("invalid")

\* Mutant: every PATCH prices the order anew, if its products are still there.
PatchedAtPricesOfNow(old, customerId, items) ==
  LET ordered == Given(items, old.items) IN
  [customerId |-> Given(customerId, old.customerId),
   items |-> ordered,
   total |-> IF ProductMissing(ordered) THEN old.total ELSE Cost(products.rows, ordered)]

\* The total follows the prices of now only if items are given.
Patched(old, customerId, items) ==
  [customerId |-> Given(customerId, old.customerId),
   items |-> Given(items, old.items),
   total |-> IF items = Absent THEN old.total ELSE Cost(products.rows, items)]

WriteOrder(id, customerId, items) ==
  /\ ~ CustomerMissing(customerId)
  /\ ~ ProductMissing(items)
  /\ id \in DOMAIN orders.rows
  /\ orders' = UpdateRow(orders, id, Patched(orders.rows[id], customerId, items))
  /\ Respond("ok")
  /\ UNCHANGED <<users, customers, products>>

\* PUT: the order is looked up last.
ReplaceOrderRefused(id, customerId, items) ==
  LET invalid == CustomerMissing(customerId) \/ ProductMissing(items) IN
  \/ invalid /\ Refuse("invalid")
  \/ ~ invalid /\ id \notin DOMAIN orders.rows /\ Refuse("not found")

\* PATCH: the order is looked up after the customer and before the products.
PatchOrderRefused(id, customerId, items) ==
  \/ CustomerMissing(customerId) /\ Refuse("invalid")
  \/ /\ ~ CustomerMissing(customerId)
     /\ id \notin DOMAIN orders.rows
     /\ Refuse("not found")
  \/ /\ ~ CustomerMissing(customerId)
     /\ id \in DOMAIN orders.rows
     /\ ProductMissing(items)
     /\ Refuse("invalid")

DeleteOrder(id) ==
  /\ id \in DOMAIN orders.rows
  /\ orders' = DropRow(orders, id)
  /\ Respond("deleted")
  /\ UNCHANGED <<users, customers, products>>

-----------------------------------------------------------------------------
\* GET, PUT, PATCH or DELETE of an id that is not there.
NotFound ==
  /\ \E store \in {users, customers, products, orders} :
       (1 .. store.next) \ DOMAIN store.rows # {}
  /\ Refuse("not found")

\* A body that fails its schema, whatever the resource.
MalformedBody == Refuse("invalid")

\* POST /admin/reset: users, products, customers, orders, in this order.
ResetDataStores ==
  /\ users' = SeededUsers
  /\ products' = SeededProducts
  /\ customers' = SeededCustomers
  /\ orders' = SeededOrders
  /\ Respond("reset")

Init ==
  /\ users = SeededUsers
  /\ products = SeededProducts
  /\ customers = SeededCustomers
  /\ orders = SeededOrders
  /\ reply = "reset"

\* The ids clients name: for users, with one that is never handed out.
UserIds == 1 .. MaxUser + 1
CustomerIds == 1 .. MaxCustomer
ProductIds == 1 .. MaxProduct
OrderIds == 1 .. MaxOrder

Orderable == [customerId : CustomerIds, items : ItemLists]
OrderPatch == [customerId : CustomerIds \cup {Absent}, items : ItemLists \cup {Absent}]

UserRequest ==
  \/ \E email \in Emails : CreateUser(email) \/ CreateUserRefused(email)
  \/ \E id \in UserIds, email \in Emails \cup {Absent} :
       WriteUser(id, email) \/ WriteUserRefused(id, email)
  \/ \E id \in UserIds : DeleteUser(id)

CustomerRequest ==
  \/ \E email \in Emails, userId \in UserIds \cup {NoUser} :
       CreateCustomer(email, userId) \/ CreateCustomerRefused(email, userId)
  \/ \E id \in CustomerIds, email \in Emails \cup {Absent},
        userId \in UserIds \cup {NoUser, Absent} :
       WriteCustomer(id, email, userId) \/ WriteCustomerRefused(id, email, userId)
  \/ \E id \in CustomerIds : DeleteCustomer(id)

ProductRequest ==
  \/ \E price \in Prices : CreateProduct(price)
  \/ \E id \in ProductIds, price \in Prices \cup {Absent} : WriteProduct(id, price)
  \/ \E id \in ProductIds : DeleteProduct(id)

OrderRequest ==
  \/ \E b \in Orderable :
       CreateOrder(b.customerId, b.items) \/ CreateOrderRefused(b.customerId, b.items)
  \/ \E id \in OrderIds, b \in OrderPatch :
       WriteOrder(id, b.customerId, b.items) \/ PatchOrderRefused(id, b.customerId, b.items)
  \/ \E id \in OrderIds, b \in Orderable : ReplaceOrderRefused(id, b.customerId, b.items)
  \/ \E id \in OrderIds : DeleteOrder(id)

Next ==
  \/ UserRequest
  \/ CustomerRequest
  \/ ProductRequest
  \/ OrderRequest
  \/ NotFound
  \/ MalformedBody
  \/ ResetDataStores

Spec == Init /\ [][Next]_vars

-----------------------------------------------------------------------------
(* Properties. *)

StoreOK(store, Row) ==
  /\ store.rows \in [DOMAIN store.rows -> Row]
  /\ store.next \in Nat
  /\ \A i \in DOMAIN store.rows : i \in Nat /\ 0 < i /\ i < store.next

\* Each store holds rows of its kind under ids it has handed out already, so
\* the next create never overwrites a row.
TypeOK ==
  /\ StoreOK(users, User)
  /\ StoreOK(customers, Customer)
  /\ StoreOK(products, Product)
  /\ StoreOK(orders, Order)
  /\ reply \in {"created", "ok", "deleted", "invalid", "not found", "reset"}

AllDifferent(rows) ==
  \A i, j \in DOMAIN rows : rows[i].email = rows[j].email => i = j

\* No sequence of POST, PUT and PATCH gives two users, or two customers, the
\* same e-mail (assertEmailUnique in both services).
EmailsUnique == AllDifferent(users.rows) /\ AllDifferent(customers.rows)

\* What rows point at: each reference is a resource and an id.
References ==
  {<<"user", customers.rows[i].userId>> : i \in
      {j \in DOMAIN customers.rows : customers.rows[j].userId # NoUser}}
  \cup {<<"customer", orders.rows[i].customerId>> : i \in DOMAIN orders.rows}
  \cup UNION {{<<"product", orders.rows[i].items[k].productId>> :
                 k \in DOMAIN orders.rows[i].items} : i \in DOMAIN orders.rows}

Existing ==
  {<<"user", i>> : i \in DOMAIN users.rows}
  \cup {<<"customer", i>> : i \in DOMAIN customers.rows}
  \cup {<<"product", i>> : i \in DOMAIN products.rows}

Dangling == References \ Existing

\* Deletes leave dangling references (they do not cascade), but what dangles
\* never starts to denote somebody else: short of a reset, no later create gets
\* the deleted id, and no write may name it.
DanglingIsFinal ==
  [][ResetDataStores \/ (Dangling \cap References') \subseteq Dangling']_vars

\* A deleted id answers 404 until the next reset, so a client that repeats a
\* DELETE whose answer it lost cannot hit a row created since.
GoneStaysGone ==
  [][ResetDataStores \/
     \A s \in {<<users, users'>>, <<customers, customers'>>,
               <<products, products'>>, <<orders, orders'>>} :
       \A id \in 1 .. s[1].next - 1 :
         id \notin DOMAIN s[1].rows => id \notin DOMAIN s[2].rows]_vars

\* What the catalogue says these items cost.
CatalogueCost(rows, items) ==
  MapThenSumSet(LAMBDA k : items[k].quantity * rows[items[k].productId].price,
                DOMAIN items)

\* The one known state: full stores with no dangling reference, every
\* LinkEvery-th customer linked, and numbering resumed after the seed.
CoreIsSeed ==
  /\ Dangling = {}
  /\ DOMAIN users.rows = 1 .. UserCount
  /\ DOMAIN customers.rows = 1 .. CustomerCount
  /\ DOMAIN products.rows = 1 .. ProductCount
  /\ DOMAIN orders.rows = 1 .. OrderCount
  /\ {i \in DOMAIN customers.rows : customers.rows[i].userId # NoUser}
       = {i \in 1 .. CustomerCount : i <= UserCount /\ i % LinkEvery = 0}
  /\ \A i \in DOMAIN orders.rows :
       orders.rows[i].total = CatalogueCost(products.rows, orders.rows[i].items)
  /\ orders.next = OrderCount + 1

=============================================================================
