---------------------------- MODULE CatalogProofs ----------------------------
(***************************************************************************)
(* Theorems about CoreResources, OrderPricing and Catalog, for every seed,  *)
(* every set of inputs and every bound.                                     *)
(*                                                                         *)
(* The argument: an id is handed out once between two resets, because the   *)
(* rows of a store lie below `next`; and whatever rows point at lies below  *)
(* the `next` of its store, for it was there when it was written.  So what  *)
(* a create adds is new to everything that points anywhere.                 *)
(*                                                                         *)
(* Totals: the reduce of the code and the sum of the catalogue fold the     *)
(* same amounts in two orders, which makes no difference (CostFacts).       *)
(*                                                                         *)
(* A reset: rows are seeded in turn, so the posts of two authors are the    *)
(* same distance apart all the way, and one list shifts into the other.     *)
(***************************************************************************)
EXTENDS Catalog, OrderPricing, StoresProofs, FiniteSetTheorems

Numbered(store) ==
  /\ DOMAIN store = {"rows", "next"}
  /\ store.next \in Nat \ {0}
  /\ DOMAIN store.rows \subseteq 1 .. store.next - 1

\* The ids a store has handed out.
Past(store) == 1 .. store.next - 1

CustomersPointBack ==
  \A i \in DOMAIN customers.rows : customers.rows[i].userId \in Past(users) \cup {NoUser}

OrdersPointBack ==
  \A i \in DOMAIN orders.rows :
    /\ orders.rows[i].customerId \in Past(customers)
    /\ \A k \in DOMAIN orders.rows[i].items :
         orders.rows[i].items[k].productId \in Past(products)

CoreInv ==
  /\ Numbered(users) /\ Numbered(customers) /\ Numbered(products) /\ Numbered(orders)
  /\ CustomersPointBack /\ OrdersPointBack
  /\ EmailsUnique

-----------------------------------------------------------------------------
(* What becomes of a numbered store, short of a reset. *)

\* It may have one row more, under the next id.
Grows(old, new) ==
  /\ Numbered(new)
  /\ old.next <= new.next
  /\ DOMAIN new.rows \subseteq DOMAIN old.rows \cup {old.next}

\* What each operation makes of a numbered store.
LEMMA InsertGrows ==
  ASSUME NEW store, Numbered(store), NEW row
  PROVE  /\ Grows(store, Insert(store, row))
         /\ DOMAIN Insert(store, row).rows = DOMAIN store.rows \cup {store.next}
         /\ Insert(store, row).rows[store.next] = row
         /\ \A i \in DOMAIN store.rows : i # store.next /\ Insert(store, row).rows[i] = store.rows[i]
<1>1. /\ Insert(store, row).rows = Put(store.rows, store.next, row)
      /\ Insert(store, row).next = store.next + 1
      /\ DOMAIN Insert(store, row) = {"rows", "next"}
  BY DEF Insert
<1>2. \A i \in DOMAIN store.rows : i \in 1 .. store.next - 1
  BY DEF Numbered
<1>3. \A i \in DOMAIN store.rows : i # store.next
  BY <1>2 DEF Numbered
<1>4. /\ DOMAIN Insert(store, row).rows = DOMAIN store.rows \cup {store.next}
      /\ Insert(store, row).rows[store.next] = row
      /\ \A i \in DOMAIN store.rows \ {store.next} : Insert(store, row).rows[i] = store.rows[i]
  BY <1>1 DEF Put
<1>5. store.next \in Nat \ {0} /\ store.next + 1 \in Nat \ {0}
  BY DEF Numbered
<1>6. 1 .. store.next - 1 \subseteq 1 .. (store.next + 1) - 1 /\ store.next \in 1 .. (store.next + 1) - 1
  BY <1>5
<1>7. DOMAIN Insert(store, row).rows \subseteq 1 .. Insert(store, row).next - 1
  BY <1>1, <1>2, <1>4, <1>6
<1>8. Numbered(Insert(store, row)) /\ store.next <= Insert(store, row).next
  BY <1>1, <1>5, <1>7 DEF Numbered
<1> QED BY <1>3, <1>4, <1>8 DEF Grows

LEMMA UpdateGrows ==
  ASSUME NEW store, Numbered(store), NEW id, NEW row
  PROVE  /\ Grows(store, UpdateRow(store, id, row))
         /\ UpdateRow(store, id, row).next = store.next
         /\ DOMAIN UpdateRow(store, id, row).rows = DOMAIN store.rows
         /\ id \in DOMAIN store.rows => UpdateRow(store, id, row).rows[id] = row
         /\ \A i \in DOMAIN store.rows \ {id} : UpdateRow(store, id, row).rows[i] = store.rows[i]
<1>1. /\ UpdateRow(store, id, row).rows = Update(store.rows, id, row)
      /\ UpdateRow(store, id, row).next = store.next
      /\ DOMAIN UpdateRow(store, id, row) = {"rows", "next"}
  BY DEF UpdateRow, Numbered
<1> QED BY <1>1, UpdateFacts DEF Grows, Numbered

LEMMA DropGrows ==
  ASSUME NEW store, Numbered(store), NEW id
  PROVE  /\ Grows(store, DropRow(store, id))
         /\ DropRow(store, id).next = store.next
         /\ DOMAIN DropRow(store, id).rows = DOMAIN store.rows \ {id}
         /\ \A i \in DOMAIN store.rows \ {id} : DropRow(store, id).rows[i] = store.rows[i]
<1>1. /\ DropRow(store, id).rows = Drop(store.rows, id)
      /\ DropRow(store, id).next = store.next
      /\ DOMAIN DropRow(store, id) = {"rows", "next"}
  BY DEF DropRow, Numbered
<1>2. /\ DOMAIN DropRow(store, id).rows = DOMAIN store.rows \ {id}
      /\ \A i \in DOMAIN store.rows \ {id} : DropRow(store, id).rows[i] = store.rows[i]
  BY <1>1 DEF Drop
<1>3. Numbered(DropRow(store, id)) /\ store.next <= store.next
  BY <1>1, <1>2 DEF Numbered
<1> QED BY <1>1, <1>2, <1>3 DEF Grows

LEMMA SameGrows ==
  ASSUME NEW store, Numbered(store)
  PROVE  Grows(store, store)
BY DEF Grows, Numbered

-----------------------------------------------------------------------------
(* One handler after the other, short of a reset: it leaves CoreInv true,   *)
(* and the stores grow.                                                     *)

StoresGrow ==
  /\ Grows(users, users') /\ Grows(customers, customers')
  /\ Grows(products, products') /\ Grows(orders, orders')

\* What pointed back still does when the stores pointed at grow.
LEMMA StillBack ==
  ASSUME NEW old, NEW new, Numbered(old), Grows(old, new)
  PROVE  Past(old) \subseteq Past(new) /\ DOMAIN new.rows \subseteq Past(new)
<1>1. old.next \in Nat /\ new.next \in Nat /\ old.next <= new.next
  BY DEF Numbered, Grows
<1> QED BY <1>1 DEF Past, Numbered, Grows

LEMMA CreateUserStep ==
  ASSUME CoreInv, NEW email, CreateUser(email)
  PROVE  CoreInv' /\ StoresGrow
<1>1. users' = Insert(users, [email |-> email]) /\ UNCHANGED <<customers, products, orders>>
  BY DEF CreateUser
<1>2. /\ Grows(users, users')
      /\ DOMAIN users'.rows = DOMAIN users.rows \cup {users.next}
      /\ users'.rows[users.next] = [email |-> email]
      /\ \A i \in DOMAIN users.rows : i # users.next /\ users'.rows[i] = users.rows[i]
  BY <1>1, InsertGrows DEF CoreInv
<1>3. \A i \in DOMAIN users.rows : users.rows[i].email # email
  <2>1. 0 \notin DOMAIN users.rows
    BY DEF CoreInv, Numbered
  <2> QED BY <2>1 DEF CreateUser, UserEmailTaken
<1>4. EmailsUnique'
  BY <1>1, <1>2, <1>3 DEF CoreInv, EmailsUnique, AllDifferent
<1>5. CustomersPointBack' /\ OrdersPointBack'
  BY <1>1, <1>2, StillBack DEF CoreInv, CustomersPointBack, OrdersPointBack, Past
<1>6. StoresGrow
  BY <1>1, <1>2, SameGrows DEF CoreInv, StoresGrow
<1> QED BY <1>4, <1>5, <1>6 DEF CoreInv, StoresGrow, Grows

LEMMA WriteUserStep ==
  ASSUME CoreInv, NEW id, NEW email, WriteUser(id, email)
  PROVE  CoreInv' /\ StoresGrow
<1> DEFINE row == [email |-> Given(email, users.rows[id].email)]
<1>1. /\ users' = UpdateRow(users, id, row) /\ id \in DOMAIN users.rows
      /\ UNCHANGED <<customers, products, orders>>
  BY DEF WriteUser
<1>2. row.email = users.rows[id].email \/ \A i \in DOMAIN users.rows \ {id} : users.rows[i].email # row.email
  BY DEF WriteUser, UserEmailTaken, Given
<1> HIDE DEF row
<1>3. /\ Grows(users, users') /\ users'.next = users.next
      /\ DOMAIN users'.rows = DOMAIN users.rows
      /\ users'.rows[id] = row
      /\ \A i \in DOMAIN users.rows \ {id} : users'.rows[i] = users.rows[i]
  BY <1>1, UpdateGrows DEF CoreInv
<1>4. EmailsUnique'
  BY <1>1, <1>2, <1>3 DEF CoreInv, EmailsUnique, AllDifferent
<1>5. CustomersPointBack' /\ OrdersPointBack'
  BY <1>1, <1>3 DEF CoreInv, CustomersPointBack, OrdersPointBack, Past
<1>6. StoresGrow
  BY <1>1, <1>3, SameGrows DEF CoreInv, StoresGrow
<1> QED BY <1>4, <1>5, <1>6 DEF CoreInv, StoresGrow, Grows

LEMMA DeleteUserStep ==
  ASSUME CoreInv, NEW id, DeleteUser(id)
  PROVE  CoreInv' /\ StoresGrow
<1>1. users' = DropRow(users, id) /\ UNCHANGED <<customers, products, orders>>
  BY DEF DeleteUser
<1>2. /\ Grows(users, users') /\ users'.next = users.next
      /\ DOMAIN users'.rows = DOMAIN users.rows \ {id}
      /\ \A i \in DOMAIN users.rows \ {id} : users'.rows[i] = users.rows[i]
  BY <1>1, DropGrows DEF CoreInv
<1>3. EmailsUnique'
  BY <1>1, <1>2 DEF CoreInv, EmailsUnique, AllDifferent
<1>4. CustomersPointBack' /\ OrdersPointBack'
  BY <1>1, <1>2 DEF CoreInv, CustomersPointBack, OrdersPointBack, Past
<1>5. StoresGrow
  BY <1>1, <1>2, SameGrows DEF CoreInv, StoresGrow
<1> QED BY <1>3, <1>4, <1>5 DEF CoreInv, StoresGrow, Grows

LEMMA CreateCustomerStep ==
  ASSUME CoreInv, NEW email, NEW userId \in UserIds \cup {NoUser}, CreateCustomer(email, userId)
  PROVE  CoreInv' /\ StoresGrow
<1>1. /\ customers' = Insert(customers, [email |-> email, userId |-> userId])
      /\ UNCHANGED <<users, products, orders>>
  BY DEF CreateCustomer
<1>2. /\ Grows(customers, customers')
      /\ DOMAIN customers'.rows = DOMAIN customers.rows \cup {customers.next}
      /\ customers'.rows[customers.next] = [email |-> email, userId |-> userId]
      /\ \A i \in DOMAIN customers.rows : /\ i # customers.next
                                         /\ customers'.rows[i] = customers.rows[i]
  BY <1>1, InsertGrows DEF CoreInv
<1>3. \A i \in DOMAIN customers.rows : customers.rows[i].email # email
  <2>1. 0 \notin DOMAIN customers.rows
    BY DEF CoreInv, Numbered
  <2> QED BY <2>1 DEF CreateCustomer, CustomerEmailTaken
<1>4. EmailsUnique'
  BY <1>1, <1>2, <1>3 DEF CoreInv, EmailsUnique, AllDifferent
<1>5. userId \in Past(users) \cup {NoUser}
  <2>1. userId # Absent
    BY AbsentAssumption, BoundAssumption DEF UserIds
  <2> QED BY <2>1 DEF CreateCustomer, UserMissing, CoreInv, Numbered, Past
<1>6. CustomersPointBack' /\ OrdersPointBack'
  BY <1>1, <1>2, <1>5, StillBack DEF CoreInv, CustomersPointBack, OrdersPointBack, Past
<1>7. StoresGrow
  BY <1>1, <1>2, SameGrows DEF CoreInv, StoresGrow
<1> QED BY <1>4, <1>6, <1>7 DEF CoreInv, StoresGrow, Grows

LEMMA WriteCustomerStep ==
  ASSUME CoreInv, NEW id, NEW email, NEW userId, WriteCustomer(id, email, userId)
  PROVE  CoreInv' /\ StoresGrow
<1> DEFINE old == customers.rows[id]
           row == [email |-> Given(email, old.email), userId |-> Given(userId, old.userId)]
<1>1. /\ customers' = UpdateRow(customers, id, row) /\ id \in DOMAIN customers.rows
      /\ UNCHANGED <<users, products, orders>>
  BY DEF WriteCustomer
<1>2. \/ row.email = customers.rows[id].email
      \/ \A i \in DOMAIN customers.rows \ {id} : customers.rows[i].email # row.email
  BY DEF WriteCustomer, CustomerEmailTaken, Given
<1>3. row.userId \in Past(users) \cup {NoUser}
  <2>1. userId = Absent \/ userId \in DOMAIN users.rows \cup {NoUser}
    BY DEF WriteCustomer, UserMissing
  <2>2. old.userId \in Past(users) \cup {NoUser}
    BY <1>1 DEF CoreInv, CustomersPointBack
  <2> QED BY <2>1, <2>2 DEF Given, CoreInv, Numbered, Past
<1> HIDE DEF row, old
<1>4. /\ Grows(customers, customers') /\ customers'.next = customers.next
      /\ DOMAIN customers'.rows = DOMAIN customers.rows
      /\ customers'.rows[id] = row
      /\ \A i \in DOMAIN customers.rows \ {id} : customers'.rows[i] = customers.rows[i]
  BY <1>1, UpdateGrows DEF CoreInv
<1>5. EmailsUnique'
  BY <1>1, <1>2, <1>4 DEF CoreInv, EmailsUnique, AllDifferent
<1>6. CustomersPointBack' /\ OrdersPointBack'
  BY <1>1, <1>3, <1>4 DEF CoreInv, CustomersPointBack, OrdersPointBack, Past
<1>7. StoresGrow
  BY <1>1, <1>4, SameGrows DEF CoreInv, StoresGrow
<1> QED BY <1>5, <1>6, <1>7 DEF CoreInv, StoresGrow, Grows

LEMMA DeleteCustomerStep ==
  ASSUME CoreInv, NEW id, DeleteCustomer(id)
  PROVE  CoreInv' /\ StoresGrow
<1>1. customers' = DropRow(customers, id) /\ UNCHANGED <<users, products, orders>>
  BY DEF DeleteCustomer
<1>2. /\ Grows(customers, customers') /\ customers'.next = customers.next
      /\ DOMAIN customers'.rows = DOMAIN customers.rows \ {id}
      /\ \A i \in DOMAIN customers.rows \ {id} : customers'.rows[i] = customers.rows[i]
  BY <1>1, DropGrows DEF CoreInv
<1>3. EmailsUnique'
  BY <1>1, <1>2 DEF CoreInv, EmailsUnique, AllDifferent
<1>4. CustomersPointBack' /\ OrdersPointBack'
  BY <1>1, <1>2 DEF CoreInv, CustomersPointBack, OrdersPointBack, Past
<1>5. StoresGrow
  BY <1>1, <1>2, SameGrows DEF CoreInv, StoresGrow
<1> QED BY <1>3, <1>4, <1>5 DEF CoreInv, StoresGrow, Grows

\* Products point nowhere: whatever becomes of one, nothing else is touched.
LEMMA ProductStep ==
  ASSUME CoreInv, UNCHANGED <<users, customers, orders>>, Grows(products, products')
  PROVE  CoreInv' /\ StoresGrow
<1>1. OrdersPointBack'
  BY StillBack DEF CoreInv, OrdersPointBack, Past
<1>2. CustomersPointBack' /\ EmailsUnique'
  BY DEF CoreInv, CustomersPointBack, EmailsUnique, AllDifferent, Past
<1>3. StoresGrow
  BY SameGrows DEF CoreInv, StoresGrow
<1> QED BY <1>1, <1>2, <1>3 DEF CoreInv, StoresGrow, Grows

\* An order is written: its links were there.
LEMMA OrderStep ==
  ASSUME CoreInv, UNCHANGED <<users, customers, products>>, Grows(orders, orders'),
         \A i \in DOMAIN orders'.rows :
           \/ i \in DOMAIN orders.rows /\ orders'.rows[i] = orders.rows[i]
           \/ /\ orders'.rows[i].customerId \in Past(customers)
              /\ \A k \in DOMAIN orders'.rows[i].items :
                   orders'.rows[i].items[k].productId \in Past(products)
  PROVE  CoreInv' /\ StoresGrow
<1>1. OrdersPointBack'
  BY DEF CoreInv, OrdersPointBack, Past
<1>2. CustomersPointBack' /\ EmailsUnique'
  BY DEF CoreInv, CustomersPointBack, EmailsUnique, AllDifferent, Past
<1>3. StoresGrow
  BY SameGrows DEF CoreInv, StoresGrow
<1> QED BY <1>1, <1>2, <1>3 DEF CoreInv, StoresGrow, Grows

LEMMA CreateOrderStep ==
  ASSUME CoreInv, NEW customerId \in CustomerIds, NEW items \in ItemLists,
         CreateOrder(customerId, items)
  PROVE  CoreInv' /\ StoresGrow
<1> DEFINE row == NewOrder(customerId, items)
<1>1. orders' = Insert(orders, row) /\ UNCHANGED <<users, customers, products>>
  BY DEF CreateOrder
<1>2. row.customerId = customerId /\ row.items = items
  BY DEF NewOrder
<1> HIDE DEF row
<1>3. /\ Grows(orders, orders')
      /\ DOMAIN orders'.rows = DOMAIN orders.rows \cup {orders.next}
      /\ orders'.rows[orders.next] = row
      /\ \A i \in DOMAIN orders.rows : orders'.rows[i] = orders.rows[i]
  BY <1>1, InsertGrows DEF CoreInv
<1>4. customerId # Absent /\ items # Absent
  BY AbsentAssumption, BoundAssumption DEF CustomerIds
<1>5. /\ customerId \in DOMAIN customers.rows
      /\ \A k \in DOMAIN items : items[k].productId \in DOMAIN products.rows
  BY <1>4 DEF CreateOrder, CustomerMissing, ProductMissing
<1>6. DOMAIN customers.rows \subseteq Past(customers) /\ DOMAIN products.rows \subseteq Past(products)
  BY DEF CoreInv, Numbered, Past
<1> QED BY <1>1, <1>2, <1>3, <1>5, <1>6, OrderStep

LEMMA WriteOrderStep ==
  ASSUME CoreInv, NEW id, NEW customerId, NEW items, WriteOrder(id, customerId, items)
  PROVE  CoreInv' /\ StoresGrow
<1> DEFINE row == Patched(orders.rows[id], customerId, items)
<1>1. /\ orders' = UpdateRow(orders, id, row) /\ id \in DOMAIN orders.rows
      /\ UNCHANGED <<users, customers, products>>
  BY DEF WriteOrder
<1>2. /\ row.customerId = Given(customerId, orders.rows[id].customerId)
      /\ row.items = Given(items, orders.rows[id].items)
  BY DEF Patched
<1> HIDE DEF row
<1>3. /\ Grows(orders, orders')
      /\ DOMAIN orders'.rows = DOMAIN orders.rows
      /\ orders'.rows[id] = row
      /\ \A i \in DOMAIN orders.rows \ {id} : orders'.rows[i] = orders.rows[i]
  BY <1>1, UpdateGrows DEF CoreInv
<1>4. DOMAIN customers.rows \subseteq Past(customers) /\ DOMAIN products.rows \subseteq Past(products)
  BY DEF CoreInv, Numbered, Past
<1>5. row.customerId \in Past(customers)
  <2>1. customerId = Absent \/ customerId \in DOMAIN customers.rows
    BY DEF WriteOrder, CustomerMissing
  <2> QED BY <1>1, <1>2, <1>4, <2>1 DEF Given, CoreInv, OrdersPointBack
<1>6. \A k \in DOMAIN row.items : row.items[k].productId \in Past(products)
  <2>1. items = Absent \/ \A k \in DOMAIN items : items[k].productId \in DOMAIN products.rows
    BY DEF WriteOrder, ProductMissing
  <2> QED BY <1>1, <1>2, <1>4, <2>1 DEF Given, CoreInv, OrdersPointBack
<1> QED BY <1>1, <1>3, <1>5, <1>6, OrderStep

LEMMA DeleteOrderStep ==
  ASSUME CoreInv, NEW id, DeleteOrder(id)
  PROVE  CoreInv' /\ StoresGrow
<1>1. orders' = DropRow(orders, id) /\ UNCHANGED <<users, customers, products>>
  BY DEF DeleteOrder
<1>2. /\ Grows(orders, orders')
      /\ DOMAIN orders'.rows = DOMAIN orders.rows \ {id}
      /\ \A i \in DOMAIN orders.rows \ {id} : orders'.rows[i] = orders.rows[i]
  BY <1>1, DropGrows DEF CoreInv
<1> QED BY <1>1, <1>2, OrderStep

\* A step that leaves the four stores alone.
LEMMA QuietStep ==
  ASSUME CoreInv, UNCHANGED <<users, customers, products, orders>>
  PROVE  CoreInv' /\ StoresGrow
BY SameGrows DEF CoreInv, StoresGrow, CustomersPointBack, OrdersPointBack, EmailsUnique,
                 AllDifferent, Past

\* All requests, short of a reset.
CoreSteps ==
  UserRequest \/ CustomerRequest \/ ProductRequest \/ OrderRequest \/ NotFound \/ MalformedBody

LEMMA UserRequestStep ==
  ASSUME CoreInv, UserRequest
  PROVE  CoreInv' /\ StoresGrow
<1>1. ASSUME NEW email, CreateUser(email) PROVE CoreInv' /\ StoresGrow
  BY <1>1, CreateUserStep
<1>2. ASSUME NEW id, NEW email, WriteUser(id, email) PROVE CoreInv' /\ StoresGrow
  BY <1>2, WriteUserStep
<1>3. ASSUME NEW id, DeleteUser(id) PROVE CoreInv' /\ StoresGrow
  BY <1>3, DeleteUserStep
<1>4. ASSUME NEW id, NEW email, CreateUserRefused(email) \/ WriteUserRefused(id, email)
      PROVE  CoreInv' /\ StoresGrow
  BY <1>4, QuietStep DEF CreateUserRefused, WriteUserRefused, Refuse
<1> QED BY <1>1, <1>2, <1>3, <1>4 DEF UserRequest

LEMMA CustomerRequestStep ==
  ASSUME CoreInv, CustomerRequest
  PROVE  CoreInv' /\ StoresGrow
<1>1. ASSUME NEW email, NEW userId \in UserIds \cup {NoUser}, CreateCustomer(email, userId)
      PROVE  CoreInv' /\ StoresGrow
  BY <1>1, CreateCustomerStep
<1>2. ASSUME NEW id, NEW email, NEW userId, WriteCustomer(id, email, userId)
      PROVE  CoreInv' /\ StoresGrow
  BY <1>2, WriteCustomerStep
<1>3. ASSUME NEW id, DeleteCustomer(id) PROVE CoreInv' /\ StoresGrow
  BY <1>3, DeleteCustomerStep
<1>4. ASSUME NEW id, NEW email, NEW userId,
             CreateCustomerRefused(email, userId) \/ WriteCustomerRefused(id, email, userId)
      PROVE  CoreInv' /\ StoresGrow
  BY <1>4, QuietStep DEF CreateCustomerRefused, WriteCustomerRefused, Refuse
<1> QED BY <1>1, <1>2, <1>3, <1>4 DEF CustomerRequest

LEMMA ProductRequestStep ==
  ASSUME CoreInv, ProductRequest
  PROVE  CoreInv' /\ StoresGrow
<1>0. Numbered(products)
  BY DEF CoreInv
<1>1. ASSUME NEW price, CreateProduct(price) PROVE CoreInv' /\ StoresGrow
  BY <1>0, <1>1, InsertGrows, ProductStep DEF CreateProduct
<1>2. ASSUME NEW id, NEW price, WriteProduct(id, price) PROVE CoreInv' /\ StoresGrow
  BY <1>0, <1>2, UpdateGrows, ProductStep DEF WriteProduct
<1>3. ASSUME NEW id, DeleteProduct(id) PROVE CoreInv' /\ StoresGrow
  BY <1>0, <1>3, DropGrows, ProductStep DEF DeleteProduct
<1> QED BY <1>1, <1>2, <1>3 DEF ProductRequest

LEMMA OrderRequestStep ==
  ASSUME CoreInv, OrderRequest
  PROVE  CoreInv' /\ StoresGrow
<1>1. ASSUME NEW b \in Orderable, CreateOrder(b.customerId, b.items) PROVE CoreInv' /\ StoresGrow
  BY <1>1, CreateOrderStep DEF Orderable
<1>2. ASSUME NEW id, NEW b, WriteOrder(id, b.customerId, b.items) PROVE CoreInv' /\ StoresGrow
  BY <1>2, WriteOrderStep
<1>3. ASSUME NEW id, DeleteOrder(id) PROVE CoreInv' /\ StoresGrow
  BY <1>3, DeleteOrderStep
<1>4. ASSUME NEW id, NEW b, \/ CreateOrderRefused(b.customerId, b.items)
                            \/ ReplaceOrderRefused(id, b.customerId, b.items)
                            \/ PatchOrderRefused(id, b.customerId, b.items)
      PROVE  CoreInv' /\ StoresGrow
  BY <1>4, QuietStep DEF CreateOrderRefused, ReplaceOrderRefused, PatchOrderRefused, Refuse
<1> QED BY <1>1, <1>2, <1>3, <1>4 DEF OrderRequest

LEMMA CoreStep ==
  ASSUME CoreInv, CoreSteps
  PROVE  CoreInv' /\ StoresGrow
<1>1. ASSUME NotFound \/ MalformedBody PROVE CoreInv' /\ StoresGrow
  BY <1>1, QuietStep DEF NotFound, MalformedBody, Refuse
<1> QED BY <1>1, UserRequestStep, CustomerRequestStep, ProductRequestStep, OrderRequestStep
        DEF CoreSteps

-----------------------------------------------------------------------------
(* Seeds. *)

\* The n-th of consecutive ids is one of them.
LEMMA NthIdFacts ==
  ASSUME NEW a \in Nat, NEW n \in Nat, NEW rows, DOMAIN rows = a + 1 .. a + n,
         NEW k \in 0 .. n - 1
  PROVE  NthId(rows, k) \in DOMAIN rows
<1> DEFINE Below(i) == {j \in DOMAIN rows : j < i}
<1>1. a + k + 1 \in DOMAIN rows
  OBVIOUS
<1>2. Below(a + k + 1) = a + 1 .. a + k
  OBVIOUS
<1>3. Cardinality(a + 1 .. a + k) = k
  BY FS_Interval
<1>4. \E i \in DOMAIN rows : Cardinality(Below(i)) = k
  BY <1>1, <1>2, <1>3
<1> QED BY <1>4 DEF NthId

\* Rows taken in turn are rows.
LEMMA TurnFacts ==
  ASSUME NEW a \in Nat, NEW n \in Nat \ {0}, NEW rows, DOMAIN rows = a + 1 .. a + n,
         NEW i \in Nat
  PROVE  /\ Cardinality(DOMAIN rows) = n
         /\ NthId(rows, i % Cardinality(DOMAIN rows)) \in DOMAIN rows
<1>1. Cardinality(DOMAIN rows) = n
  BY FS_Interval
<1>2. i % n \in 0 .. n - 1
  OBVIOUS
<1> QED BY <1>1, <1>2, NthIdFacts

\* A seed numbered from 1 leaves a numbered store.
LEMMA SeedNumbered ==
  ASSUME NEW n \in Nat, NEW rows, DOMAIN rows = 1 .. n
  PROVE  /\ Numbered(ResetRows(rows)) /\ ResetRows(rows).rows = rows
         /\ DOMAIN rows \subseteq Past(ResetRows(rows))
<1>1. DOMAIN ResetRows(rows) = {"rows", "next"}
  BY DEF ResetRows
<1> QED BY <1>1, ResetRowsFacts DEF Numbered, Past

\* The four seeded stores.
LEMMA SeedFacts ==
  /\ Numbered(SeededUsers) /\ Numbered(SeededProducts)
  /\ Numbered(SeededCustomers) /\ Numbered(SeededOrders)
  /\ DOMAIN SeededUsers.rows = 1 .. UserCount
  /\ DOMAIN SeededProducts.rows = 1 .. ProductCount
  /\ DOMAIN SeededCustomers.rows = 1 .. CustomerCount
  /\ DOMAIN SeededOrders.rows = 1 .. OrderCount
  /\ AllDifferent(SeededUsers.rows) /\ AllDifferent(SeededCustomers.rows)
<1>1. /\ Numbered(SeededUsers) /\ Numbered(SeededProducts)
      /\ SeededUsers.rows = [i \in 1 .. UserCount |-> [email |-> i]]
      /\ DOMAIN SeededProducts.rows = 1 .. ProductCount
  BY SeedNumbered, SeedAssumption DEF SeededUsers, SeededProducts
<1>2. /\ Numbered(SeededCustomers)
      /\ DOMAIN SeededCustomers.rows = 1 .. CustomerCount
      /\ \A i \in 1 .. CustomerCount : SeededCustomers.rows[i].email = i
  BY SeedNumbered, SeedAssumption DEF SeededCustomers, SeedCustomers
<1>3. Numbered(SeededOrders) /\ DOMAIN SeededOrders.rows = 1 .. OrderCount
  BY SeedNumbered, SeedAssumption DEF SeededOrders, SeedOrders
<1>4. AllDifferent(SeededUsers.rows) /\ AllDifferent(SeededCustomers.rows)
  BY <1>1, <1>2 DEF AllDifferent
<1> QED BY <1>1, <1>2, <1>3, <1>4

\* Whom seeded customers are linked to.
LEMMA SeedLinks ==
  \A i \in 1 .. CustomerCount : SeededCustomers.rows[i].userId \in (1 .. UserCount) \cup {NoUser}
<1>1. DOMAIN SeededUsers.rows = 1 .. UserCount
  BY SeedFacts
<1>2. Cardinality(DOMAIN SeededUsers.rows) = UserCount
  BY <1>1, FS_Interval, SeedAssumption
<1>3. SeededCustomers.rows =
        [i \in 1 .. CustomerCount |->
           [email |-> i,
            userId |-> IF i % LinkEvery = 0 /\ i <= UserCount THEN i ELSE NoUser]]
  BY <1>2, SeedNumbered, SeedAssumption DEF SeededCustomers, SeedCustomers
<1> QED BY <1>3, SeedAssumption

\* What seeded orders name.
LEMMA SeedOrdered ==
  \A i \in 1 .. OrderCount :
    /\ SeededOrders.rows[i].customerId \in 1 .. CustomerCount
    /\ \A k \in DOMAIN SeededOrders.rows[i].items :
         SeededOrders.rows[i].items[k].productId \in 1 .. ProductCount
<1> SUFFICES ASSUME NEW i \in 1 .. OrderCount
             PROVE  /\ SeededOrders.rows[i].customerId \in 1 .. CustomerCount
                    /\ \A k \in DOMAIN SeededOrders.rows[i].items :
                         SeededOrders.rows[i].items[k].productId \in 1 .. ProductCount
  OBVIOUS
<1>1. i \in Nat /\ i - 1 \in Nat
  BY SeedAssumption
<1>2. DOMAIN SeededCustomers.rows = 0 + 1 .. 0 + CustomerCount
      /\ DOMAIN SeededProducts.rows = 0 + 1 .. 0 + ProductCount
  BY SeedFacts, SeedAssumption
<1>3. NthId(SeededCustomers.rows, (i - 1) % Cardinality(DOMAIN SeededCustomers.rows))
        \in 1 .. CustomerCount
  BY <1>1, <1>2, TurnFacts, SeedAssumption
<1>4. /\ NthId(SeededProducts.rows, (i - 1) % Cardinality(DOMAIN SeededProducts.rows))
          \in 1 .. ProductCount
      /\ NthId(SeededProducts.rows, i % Cardinality(DOMAIN SeededProducts.rows))
          \in 1 .. ProductCount
  <2>1. \A j \in Nat : NthId(SeededProducts.rows, j % Cardinality(DOMAIN SeededProducts.rows))
                         \in DOMAIN SeededProducts.rows
    BY <1>2, TurnFacts, SeedAssumption
  <2> QED BY <1>1, <1>2, <2>1, SeedAssumption
<1>5. \A k \in DOMAIN SeedItems(i, SeededProducts.rows) :
        SeedItems(i, SeededProducts.rows)[k].productId \in 1 .. ProductCount
  BY <1>4 DEF SeedItems
<1>6. /\ SeededOrders.rows[i].customerId =
           NthId(SeededCustomers.rows, (i - 1) % Cardinality(DOMAIN SeededCustomers.rows))
      /\ SeededOrders.rows[i].items = SeedItems(i, SeededProducts.rows)
  BY SeedNumbered, SeedAssumption DEF SeededOrders, SeedOrders
<1> QED BY <1>3, <1>5, <1>6

\* The seed points back, before and after a reset.
LEMMA SeedPointsBack ==
  /\ \A i \in DOMAIN SeededCustomers.rows :
       SeededCustomers.rows[i].userId \in Past(SeededUsers) \cup {NoUser}
  /\ \A i \in DOMAIN SeededOrders.rows :
       /\ SeededOrders.rows[i].customerId \in Past(SeededCustomers)
       /\ \A k \in DOMAIN SeededOrders.rows[i].items :
            SeededOrders.rows[i].items[k].productId \in Past(SeededProducts)
<1>1. /\ 1 .. UserCount \subseteq Past(SeededUsers)
      /\ 1 .. CustomerCount \subseteq Past(SeededCustomers)
      /\ 1 .. ProductCount \subseteq Past(SeededProducts)
  BY SeedFacts DEF Numbered, Past
<1> QED BY <1>1, SeedFacts, SeedLinks, SeedOrdered

LEMMA SeedHolds ==
  /\ Init => CoreInv
  /\ ResetDataStores => CoreInv'
<1>1. Init => CoreInv
  BY SeedFacts, SeedPointsBack
     DEF Init, CoreInv, CustomersPointBack, OrdersPointBack, EmailsUnique
<1>2. ResetDataStores => CoreInv'
  BY SeedFacts, SeedPointsBack
     DEF ResetDataStores, CoreInv, CustomersPointBack, OrdersPointBack, EmailsUnique, Past
<1> QED BY <1>1, <1>2

-----------------------------------------------------------------------------
(* The core resources by themselves. *)

LEMMA CorePreserved == CoreInv /\ [Next]_vars => CoreInv' /\ (ResetDataStores \/ StoresGrow)
<1> SUFFICES ASSUME CoreInv, [Next]_vars PROVE CoreInv' /\ (ResetDataStores \/ StoresGrow)
  OBVIOUS
<1>1. CASE CoreSteps
  BY <1>1, CoreStep
<1>2. CASE ResetDataStores
  BY <1>2, SeedHolds
<1>3. CASE UNCHANGED vars
  BY <1>3, QuietStep DEF vars
<1> QED BY <1>1, <1>2, <1>3 DEF Next, CoreSteps

\* Ids are handed out upwards, rows point at ids handed out, e-mails differ.
THEOREM CoreInvariance == Spec => []CoreInv
BY SeedHolds, CorePreserved, PTL DEF Spec

\* A store that grows brings no id back.
LEMMA NoneComesBack ==
  ASSUME NEW old, NEW new, Numbered(old), Grows(old, new),
         NEW id \in 1 .. old.next - 1, id \notin DOMAIN old.rows
  PROVE  id \notin DOMAIN new.rows
<1>1. id # old.next
  BY DEF Numbered
<1> QED BY <1>1 DEF Grows

\* A deleted id of any of the four resources answers 404 until the next reset.
THEOREM GoneForGood == Spec => GoneStaysGone
<1>1. CoreInv /\ [Next]_vars =>
        [ResetDataStores \/
         \A s \in {<<users, users'>>, <<customers, customers'>>,
                   <<products, products'>>, <<orders, orders'>>} :
           \A id \in 1 .. s[1].next - 1 :
             id \notin DOMAIN s[1].rows => id \notin DOMAIN s[2].rows]_vars
  <2> SUFFICES ASSUME CoreInv, StoresGrow
               PROVE  \A s \in {<<users, users'>>, <<customers, customers'>>,
                                <<products, products'>>, <<orders, orders'>>} :
                        \A id \in 1 .. s[1].next - 1 :
                          id \notin DOMAIN s[1].rows => id \notin DOMAIN s[2].rows
    BY CorePreserved
  <2>1. \A s \in {<<users, users'>>, <<customers, customers'>>,
                  <<products, products'>>, <<orders, orders'>>} :
          Numbered(s[1]) /\ Grows(s[1], s[2])
    BY DEF CoreInv, StoresGrow
  <2> QED BY <2>1, NoneComesBack
<1> QED BY <1>1, CoreInvariance, PTL DEF Spec, GoneStaysGone

-----------------------------------------------------------------------------
(* The core resources under posts, comments and reviews. *)

AuthorsPointBack == \A id \in DOMAIN posts : posts[id].userId \in Past(users)

CommentsHavePosts == \A id \in DOMAIN comments.rows : comments.rows[id].postId \in DOMAIN posts

CatalogInv == CoreInv /\ AuthorsPointBack /\ CommentsHavePosts /\ drawn \in Nat

\* Seeded posts have seeded authors, seeded comments seeded posts.
LEMMA SeededPostFacts ==
  ASSUME NEW rows, DOMAIN rows = 1 .. UserCount, NEW i \in Nat \ {0}
  PROVE  InTurn(rows, i) \in 1 .. UserCount
<1>1. UserCount \in Nat \ {0} /\ i - 1 \in Nat /\ DOMAIN rows = 0 + 1 .. 0 + UserCount
  BY SeedAssumption, CatalogAssumption
<1>2. NthId(rows, (i - 1) % Cardinality(DOMAIN rows)) \in DOMAIN rows
  BY <1>1, TurnFacts
<1> QED BY <1>2 DEF InTurn

LEMMA SeededCommentFacts ==
  ASSUME NEW postRows, NEW userRows, NEW a \in Nat, DOMAIN postRows = a + 1 .. a + PostCount
  PROVE  LET seeded == SeedComments(postRows, userRows)
         IN  \A id \in DOMAIN seeded.rows : seeded.rows[id].postId \in DOMAIN postRows
<1> DEFINE row(i) == [postId |-> InTurn(postRows, i), userId |-> InTurn(userRows, i)]
<1>1. SeedComments(postRows, userRows).rows = [i \in 1 .. CommentCount |-> row(i)]
  BY SeedNumbered, CatalogAssumption DEF SeedComments
<1>2. \A i \in 1 .. CommentCount : i - 1 \in Nat
  BY CatalogAssumption
<1>3. \A i \in 1 .. CommentCount : InTurn(postRows, i) \in DOMAIN postRows
  BY <1>2, TurnFacts, CatalogAssumption DEF InTurn
<1> QED BY <1>1, <1>3

LEMMA CatalogInitially == CatalogInit => CatalogInv
<1> SUFFICES ASSUME CatalogInit PROVE CatalogInv
  OBVIOUS
<1>1. CoreInv /\ users = SeededUsers
  BY SeedHolds DEF CatalogInit, Init
<1>2. DOMAIN users.rows = 1 .. UserCount
  BY <1>1, SeedFacts
<1>3. AuthorsPointBack
  <2>1. \A id \in 1 .. PostCount : InTurn(users.rows, id) \in Past(users)
    BY <1>1, <1>2, SeededPostFacts, CatalogAssumption DEF CoreInv, Numbered, Past
  <2> QED BY <2>1 DEF CatalogInit, AuthorsPointBack
<1>4. CommentsHavePosts
  <2>1. DOMAIN posts = 0 + 1 .. 0 + PostCount
    BY CatalogAssumption DEF CatalogInit
  <2> QED BY <2>1, SeededCommentFacts DEF CatalogInit, CommentsHavePosts
<1> QED BY <1>1, <1>3, <1>4, CatalogAssumption DEF CatalogInv, CatalogInit

LEMMA ResetHolds ==
  ASSUME CatalogInv, ResetCatalog
  PROVE  CatalogInv'
<1>1. CoreInv' /\ users' = SeededUsers
  BY SeedHolds DEF ResetCatalog, ResetDataStores
<1>2. DOMAIN SeededUsers.rows = 1 .. UserCount
  BY SeedFacts
<1>3. DOMAIN SeededPosts = drawn + 1 .. drawn + PostCount
  BY DEF SeededPosts, SeedPosts
<1>4. drawn \in Nat /\ drawn' \in Nat
  BY CatalogAssumption DEF CatalogInv, ResetCatalog
<1>5. AuthorsPointBack'
  <2>1. \A id \in drawn + 1 .. drawn + PostCount : id - drawn \in Nat \ {0}
    BY <1>4, CatalogAssumption
  <2>2. \A id \in DOMAIN SeededPosts : SeededPosts[id].userId \in 1 .. UserCount
    BY <1>2, <1>3, <2>1, SeededPostFacts DEF SeededPosts, SeedPosts
  <2>3. 1 .. UserCount \subseteq Past(SeededUsers)
    BY SeedFacts DEF Numbered, Past
  <2> QED BY <1>1, <2>2, <2>3 DEF ResetCatalog, AuthorsPointBack, Past
<1>6. CommentsHavePosts'
  BY <1>3, <1>4, SeededCommentFacts DEF ResetCatalog, SeededComments, CommentsHavePosts
<1> QED BY <1>1, <1>4, <1>5, <1>6 DEF CatalogInv

\* A request to the core leaves posts and comments alone.
LEMMA CoreRequestHolds ==
  ASSUME CatalogInv, CoreRequest
  PROVE  CatalogInv' /\ StoresGrow
<1>1. CoreInv' /\ StoresGrow /\ UNCHANGED <<posts, comments, drawn>>
  BY CoreStep DEF CoreRequest, CoreSteps, CatalogInv, catalog
<1>2. Past(users) \subseteq Past(users')
  BY <1>1, StillBack DEF CatalogInv, CoreInv, StoresGrow
<1>3. AuthorsPointBack' /\ CommentsHavePosts'
  BY <1>1, <1>2 DEF CatalogInv, AuthorsPointBack, CommentsHavePosts
<1> QED BY <1>1, <1>3 DEF CatalogInv

\* Posts and comments only come, and the core stays as it is.
LEMMA PostRequestHolds ==
  ASSUME CatalogInv, PostRequest
  PROVE  CatalogInv' /\ UNCHANGED <<users, customers, products, orders>>
<1>1. UNCHANGED <<users, customers, products, orders>>
  BY DEF PostRequest, CreatePostForUser, CreatePostRefused, Refuse
<1>2. CoreInv'
  BY <1>1, QuietStep DEF CatalogInv
<1>3. CASE UNCHANGED catalog
  BY <1>1, <1>2, <1>3 DEF CatalogInv, AuthorsPointBack, CommentsHavePosts, catalog, Past
<1>4. ASSUME NEW userId, CreatePostForUser(userId)
      PROVE  AuthorsPointBack' /\ CommentsHavePosts' /\ drawn' \in Nat
  <2>1. userId \in Past(users)
    BY <1>4 DEF CreatePostForUser, UserExists, CatalogInv, CoreInv, Numbered, Past
  <2>2. /\ DOMAIN posts' = DOMAIN posts \cup {drawn'}
        /\ \A id \in DOMAIN posts' : posts'[id] = [userId |-> userId] \/
             (id \in DOMAIN posts /\ posts'[id] = posts[id])
    BY <1>4 DEF CreatePostForUser, Put
  <2>3. AuthorsPointBack'
    BY <1>1, <2>1, <2>2 DEF CatalogInv, AuthorsPointBack, Past
  <2>4. CommentsHavePosts'
    BY <1>4, <2>2 DEF CatalogInv, CommentsHavePosts, CreatePostForUser
  <2> QED BY <1>4, <2>3, <2>4 DEF CatalogInv, CreatePostForUser
<1> QED BY <1>1, <1>2, <1>3, <1>4 DEF PostRequest, CreatePostRefused, CatalogInv

LEMMA CommentRequestHolds ==
  ASSUME CatalogInv, CommentRequest
  PROVE  CatalogInv' /\ UNCHANGED <<users, customers, products, orders>>
<1>1. UNCHANGED <<users, customers, products, orders>>
  BY DEF CommentRequest, CreateCommentForPost, CreateCommentRefused, Refuse
<1>2. CoreInv'
  BY <1>1, QuietStep DEF CatalogInv
<1>3. CASE UNCHANGED catalog
  BY <1>1, <1>2, <1>3 DEF CatalogInv, AuthorsPointBack, CommentsHavePosts, catalog, Past
<1>4. ASSUME NEW postId, NEW userId, CreateCommentForPost(postId, userId)
      PROVE  AuthorsPointBack' /\ CommentsHavePosts' /\ drawn' \in Nat
  <2>1. \A id \in DOMAIN comments'.rows :
          \/ comments'.rows[id].postId = postId
          \/ id \in DOMAIN comments.rows /\ comments'.rows[id] = comments.rows[id]
    BY <1>4 DEF CreateCommentForPost, Insert, Put
  <2>2. CommentsHavePosts'
    BY <1>4, <2>1 DEF CatalogInv, CommentsHavePosts, CreateCommentForPost
  <2> QED BY <1>1, <1>4, <2>2 DEF CatalogInv, AuthorsPointBack, CreateCommentForPost, Past
<1> QED BY <1>1, <1>2, <1>3, <1>4 DEF CommentRequest, CreateCommentRefused, CatalogInv

LEMMA CatalogPreserved ==
  CatalogInv /\ [CatalogNext]_catalogVars =>
    CatalogInv' /\ (ResetCatalog \/ StoresGrow)
<1> SUFFICES ASSUME CatalogInv, [CatalogNext]_catalogVars
             PROVE  CatalogInv' /\ (ResetCatalog \/ StoresGrow)
  OBVIOUS
<1>1. CASE CoreRequest
  BY <1>1, CoreRequestHolds
<1>2. CASE PostRequest
  BY <1>2, PostRequestHolds, QuietStep DEF CatalogInv
<1>3. CASE CommentRequest
  BY <1>3, CommentRequestHolds, QuietStep DEF CatalogInv
<1>4. CASE ResetCatalog
  BY <1>4, ResetHolds
<1>5. CASE UNCHANGED catalogVars
  BY <1>5, QuietStep
     DEF catalogVars, vars, catalog, CatalogInv, AuthorsPointBack, CommentsHavePosts, Past
<1> QED BY <1>1, <1>2, <1>3, <1>4, <1>5 DEF CatalogNext

\* The same of all resources, and comments answer posts that exist.
THEOREM CatalogInvariance == CatalogSpec => []CatalogInv
BY CatalogInitially, CatalogPreserved, PTL DEF CatalogSpec

\* No sequence of requests and resets gives two users, or two customers, one e-mail.
THEOREM EmailsStayUnique == CatalogSpec => []EmailsUnique
<1>1. CatalogInv => EmailsUnique
  BY DEF CatalogInv, CoreInv
<1> QED BY <1>1, CatalogInvariance, PTL

\* Every comment is in one thread that can be listed.
THEOREM ThreadsStayWhole == CatalogSpec => []ThreadsAddUp
<1>1. CatalogInv => ThreadsAddUp
  <2> SUFFICES ASSUME CatalogInv PROVE ThreadsAddUp
    OBVIOUS
  <2>1. \A id \in DOMAIN posts :
          /\ ListCommentsForPost(id).status = "ok"
          /\ ListCommentsForPost(id).ids = {c \in DOMAIN comments.rows : comments.rows[c].postId = id}
    BY DEF ListCommentsForPost, Found
  <2>2. UNION {ListCommentsForPost(id).ids : id \in DOMAIN posts} = DOMAIN comments.rows
    BY <2>1 DEF CatalogInv, CommentsHavePosts
  <2> QED BY <2>1, <2>2 DEF ThreadsAddUp
<1> QED BY <1>1, CatalogInvariance, PTL

-----------------------------------------------------------------------------
(* What dangles. *)

\* What is pointed at has been handed out.
LEMMA ReferencesAreOld ==
  ASSUME CoreInv
  PROVE  /\ <<"user", users.next>> \notin References
         /\ <<"customer", customers.next>> \notin References
         /\ <<"product", products.next>> \notin References
<1>1. /\ users.next \notin Past(users) /\ customers.next \notin Past(customers)
      /\ products.next \notin Past(products)
  BY DEF CoreInv, Numbered, Past
<1>2. \A i \in DOMAIN customers.rows :
        customers.rows[i].userId # NoUser => customers.rows[i].userId # users.next
  BY <1>1 DEF CoreInv, CustomersPointBack
<1>3. \A i \in DOMAIN orders.rows :
        /\ orders.rows[i].customerId # customers.next
        /\ \A k \in DOMAIN orders.rows[i].items : orders.rows[i].items[k].productId # products.next
  BY <1>1 DEF CoreInv, OrdersPointBack
<1> QED BY <1>2, <1>3 DEF References

\* Short of a reset, what dangles dangles on, or is no longer named.
THEOREM DanglingStays == CatalogSpec => DanglingIsFinal
<1>1. CatalogInv /\ [CatalogNext]_catalogVars =>
        [ResetDataStores \/ (Dangling \cap References') \subseteq Dangling']_vars
  <2> SUFFICES ASSUME CoreInv, StoresGrow,
                      NEW r \in Dangling, r \in References'
               PROVE  r \notin Existing'
    BY CatalogPreserved DEF Dangling, CatalogInv, ResetCatalog
  <2>1. Existing' \subseteq Existing \cup
          {<<"user", users.next>>, <<"customer", customers.next>>, <<"product", products.next>>}
    BY DEF Existing, StoresGrow, Grows
  <2> QED BY <2>1, ReferencesAreOld DEF Dangling
<1> QED BY <1>1, CatalogInvariance, PTL DEF CatalogSpec, DanglingIsFinal

-----------------------------------------------------------------------------
(* Who inherits. *)

\* A request that adds a user changes no customer and no order.
LEMMA OnlyUserIsNew ==
  ASSUME CatalogInv, CoreRequest, NEW id \in DOMAIN users'.rows \ DOMAIN users.rows
  PROVE  UNCHANGED <<customers, orders, posts>> /\ id = users.next
<1>1. CoreInv /\ UNCHANGED <<posts, comments, reviews, drawn>>
  BY DEF CatalogInv, CoreRequest, catalog
<1>2. users' # users
  OBVIOUS
<1>3. UserRequest
  <2>1. ASSUME CustomerRequest \/ ProductRequest \/ OrderRequest \/ NotFound \/ MalformedBody
        PROVE  UNCHANGED users
    <3>1. CASE CustomerRequest
      BY <3>1 DEF CustomerRequest, CreateCustomer, CreateCustomerRefused, WriteCustomer,
                  WriteCustomerRefused, DeleteCustomer, Refuse
    <3>2. CASE ProductRequest
      BY <3>2 DEF ProductRequest, CreateProduct, WriteProduct, DeleteProduct
    <3>3. CASE OrderRequest
      BY <3>3 DEF OrderRequest, CreateOrder, CreateOrderRefused, WriteOrder, PatchOrderRefused,
                  ReplaceOrderRefused, DeleteOrder, Refuse
    <3>4. CASE NotFound \/ MalformedBody
      BY <3>4 DEF NotFound, MalformedBody, Refuse
    <3> QED BY <2>1, <3>1, <3>2, <3>3, <3>4
  <2> QED BY <1>2, <2>1 DEF CoreRequest
<1>4. UNCHANGED <<customers, orders>>
  BY <1>3 DEF UserRequest, CreateUser, CreateUserRefused, WriteUser, WriteUserRefused,
              DeleteUser, Refuse
<1>5. StoresGrow
  BY CoreRequestHolds
<1> QED BY <1>1, <1>4, <1>5 DEF StoresGrow, Grows

\* A user who was not there a step ago has no posts and no orders.
THEOREM NoInheritance == CatalogSpec => NobodyInherits
<1>1. CatalogInv /\ [CatalogNext]_catalogVars =>
        [ResetCatalog \/
         \A id \in DOMAIN users'.rows \ DOMAIN users.rows :
           ListPostsForUser(id)'.ids = {} /\ ListOrdersForUser(id)'.ids = {}]_catalogVars
  <2> SUFFICES ASSUME CatalogInv, CatalogNext, ~ ResetCatalog,
                      NEW id \in DOMAIN users'.rows \ DOMAIN users.rows
               PROVE  ListPostsForUser(id)'.ids = {} /\ ListOrdersForUser(id)'.ids = {}
    OBVIOUS
  <2>1. CoreRequest
    BY PostRequestHolds, CommentRequestHolds DEF CatalogNext
  <2>2. UNCHANGED <<customers, orders, posts>> /\ id = users.next
    BY <2>1, OnlyUserIsNew
  <2>3. id \notin Past(users) /\ id \in Nat
    BY <2>2 DEF CatalogInv, CoreInv, Numbered, Past
  <2>4. \A p \in DOMAIN posts : posts[p].userId # id
    BY <2>3 DEF CatalogInv, AuthorsPointBack
  <2>5. \A c \in DOMAIN customers.rows : customers.rows[c].userId # id
    BY <2>3, NullAssumption DEF CatalogInv, CoreInv, CustomersPointBack
  <2>6. ListPostsForUser(id)'.ids = {}
    BY <2>2, <2>4 DEF ListPostsForUser, UserExists, Found, Missing
  <2>7. ListOrdersForUser(id)'.ids = {}
    BY <2>2, <2>5 DEF ListOrdersForUser, UserExists, Found, Missing
  <2> QED BY <2>6, <2>7
<1> QED BY <1>1, CatalogInvariance, PTL DEF CatalogSpec, NobodyInherits

-----------------------------------------------------------------------------
(* What items cost. *)

Priced(rows, items) ==
  \A k \in DOMAIN items : /\ items[k].productId \in DOMAIN rows
                          /\ items[k].quantity \in Nat
                          /\ rows[items[k].productId].price \in Nat

LineCost(rows, items) ==
  [k \in DOMAIN items |-> rows[items[k].productId].price * items[k].quantity]

\* The largest of a set of positions is one of them.
LEMMA MaxPicks ==
  ASSUME NEW n \in Nat, NEW s \in SUBSET (1 .. n), s # {}
  PROVE  Max(s) \in s
<1>1. s \in SUBSET (0 .. n)
  OBVIOUS
<1>2. \E m \in s : \A i \in s : i <= m
  BY <1>1, GreatestNat
<1>3. \E m \in s : \A i \in s : m >= i
  BY <1>2
<1> QED BY <1>3 DEF Max

\* What a fold over positions is worth, however it is written.
LEMMA LineCostFacts ==
  ASSUME NEW rows, NEW items, Priced(rows, items)
  PROVE  \A k \in DOMAIN items :
           /\ LineCost(rows, items)[k] \in Int /\ LineCost(rows, items)[k] >= 0
           /\ LineCost(rows, items)[k]
                = rows[items[k].productId].price * items[k].quantity
           /\ LineCost(rows, items)[k]
                = items[k].quantity * rows[items[k].productId].price
<1> SUFFICES ASSUME NEW k \in DOMAIN items
             PROVE  /\ LineCost(rows, items)[k] \in Int /\ LineCost(rows, items)[k] >= 0
                    /\ LineCost(rows, items)[k]
                         = rows[items[k].productId].price * items[k].quantity
                    /\ LineCost(rows, items)[k]
                         = items[k].quantity * rows[items[k].productId].price
  OBVIOUS
<1>1. PICK p \in Nat, q \in Nat : p = rows[items[k].productId].price /\ q = items[k].quantity
  BY DEF Priced
<1>2. LineCost(rows, items)[k] = p * q
  BY <1>1 DEF LineCost
<1>3. p * q \in Int /\ p * q >= 0 /\ p * q = q * p
  OBVIOUS
<1> QED BY <1>1, <1>2, <1>3

\* The reduce of the code, from left to right.
LEMMA CostFolds ==
  ASSUME NEW rows, NEW items, Priced(rows, items), NEW n \in Nat, DOMAIN items = 1 .. n
  PROVE  \E pick, fold :
           /\ Picks(pick, 1 .. n)
           /\ AddsUp(fold, 1 .. n, LineCost(rows, items), pick)
           /\ Cost(rows, items) = fold[1 .. n]
<1> DEFINE worth == LineCost(rows, items)
           pick == [s \in SUBSET (1 .. n) |-> Max(s)]
           line(s) == rows[items[Max(s)].productId].price * items[Max(s)].quantity
           Adds(iter) == iter = [s \in SUBSET (1 .. n) |->
                                   IF s = {} THEN 0 ELSE iter[s \ {Max(s)}] + line(s)]
           total == CHOOSE iter : Adds(iter)
<1>1. Cost(rows, items) = total[1 .. n]
  BY DEF Cost, FoldLeft, MapThenFoldSet
<1>2. \A s \in SUBSET (1 .. n) : s # {} => Max(s) \in s
  BY MaxPicks
<1>12. IsFiniteSet(1 .. n)
  BY FS_Interval
<1>3. Picks(pick, 1 .. n)
  BY <1>2 DEF Picks
<1>4. \A x \in 1 .. n : worth[x] \in Int
  BY LineCostFacts
<1>5. ASSUME NEW s \in SUBSET (1 .. n), s # {}
      PROVE  pick[s] = Max(s) /\ line(s) = worth[pick[s]]
  <2>1. pick[s] = Max(s) /\ Max(s) \in DOMAIN items
    BY <1>2, <1>5
  <2>2. line(s) = worth[Max(s)]
    BY <2>1, LineCostFacts
  <2> QED BY <2>1, <2>2
<1> HIDE DEF worth, line
<1>6. PICK fold : Folding(fold, 1 .. n, worth, pick)
  <2> HIDE DEF pick
  <2> QED BY <1>12, <1>3, FoldExists
<1>7. AddsUp(fold, 1 .. n, worth, pick)
  BY <1>6 DEF AddsUp, Folding
<1>8. \A s \in SUBSET (1 .. n) : fold[s] \in Int
  <2> HIDE DEF pick
  <2> QED BY <1>12, <1>3, <1>4, <1>7, FoldFacts
<1>9. Adds(fold)
  <2>1. ASSUME NEW s \in SUBSET (1 .. n), s # {}
        PROVE  worth[pick[s]] + fold[s \ {pick[s]}] = fold[s \ {Max(s)}] + line(s)
    <3>1. pick[s] = Max(s) /\ line(s) = worth[Max(s)] /\ Max(s) \in 1 .. n
      BY <1>2, <1>5, <2>1
    <3>2. worth[Max(s)] \in Int /\ fold[s \ {Max(s)}] \in Int
      BY <1>4, <1>8, <3>1
    <3> QED BY <3>1, <3>2
  <2>2. fold = [s \in SUBSET (1 .. n) |->
                  IF s = {} THEN 0 ELSE fold[s \ {Max(s)}] + line(s)]
    <3> HIDE DEF pick
    <3> QED BY <1>6, <2>1 DEF Folding
  <2> QED BY <2>2
<1>10. Adds(total)
  BY <1>9
<1>11. AddsUp(total, 1 .. n, worth, pick)
  <2>1. \A s \in SUBSET (1 .. n) :
          total[s] = IF s = {} THEN 0 ELSE total[s \ {Max(s)}] + line(s)
    <3> HIDE DEF total
    <3> QED BY <1>10
  <2> HIDE DEF total
  <2> QED BY <1>5, <2>1 DEF AddsUp
<1> QED BY <1>1, <1>3, <1>11 DEF worth

\* The sum of the catalogue, in any order.
LEMMA CatalogueFolds ==
  ASSUME NEW rows, NEW items, Priced(rows, items), NEW n \in Nat, DOMAIN items = 1 .. n
  PROVE  \E pick, fold :
           /\ Picks(pick, 1 .. n)
           /\ AddsUp(fold, 1 .. n, LineCost(rows, items), pick)
           /\ CatalogueCost(rows, items) = fold[1 .. n]
<1> DEFINE worth == LineCost(rows, items)
           some(s) == CHOOSE x \in s : TRUE
           pick == [s \in SUBSET (1 .. n) |-> some(s)]
           line(s) == items[some(s)].quantity * rows[items[some(s)].productId].price
           Adds(iter) == iter = [s \in SUBSET (1 .. n) |->
                                   IF s = {} THEN 0 ELSE line(s) + iter[s \ {some(s)}]]
           total == CHOOSE iter : Adds(iter)
<1>1. CatalogueCost(rows, items) = total[1 .. n]
  BY DEF CatalogueCost, MapThenSumSet, MapThenFoldSet
<1>2. \A s \in SUBSET (1 .. n) : s # {} => some(s) \in s
  OBVIOUS
<1>12. IsFiniteSet(1 .. n)
  BY FS_Interval
<1>3. Picks(pick, 1 .. n)
  BY <1>2 DEF Picks
<1>4. \A x \in 1 .. n : worth[x] \in Int
  BY LineCostFacts
<1>5. ASSUME NEW s \in SUBSET (1 .. n), s # {}
      PROVE  pick[s] = some(s) /\ line(s) = worth[pick[s]]
  <2>1. pick[s] = some(s) /\ some(s) \in DOMAIN items
    BY <1>2, <1>5
  <2>2. line(s) = worth[some(s)]
    BY <2>1, LineCostFacts
  <2> QED BY <2>1, <2>2
<1> HIDE DEF worth, line, some
<1>6. PICK fold : Folding(fold, 1 .. n, worth, pick)
  <2> HIDE DEF pick
  <2> QED BY <1>12, <1>3, FoldExists
<1>7. Adds(fold)
  BY <1>5, <1>6 DEF Folding
<1>8. Adds(total)
  BY <1>7
<1>9. AddsUp(total, 1 .. n, worth, pick)
  <2>1. \A s \in SUBSET (1 .. n) :
          total[s] = IF s = {} THEN 0 ELSE line(s) + total[s \ {some(s)}]
    <3> HIDE DEF total
    <3> QED BY <1>8
  <2> HIDE DEF total
  <2> QED BY <1>5, <2>1 DEF AddsUp
<1> QED BY <1>1, <1>3, <1>9 DEF worth

\* The code's total is what the catalogue says the items cost.
LEMMA CostFacts ==
  ASSUME NEW rows, NEW items, Priced(rows, items), NEW n \in Nat, DOMAIN items = 1 .. n
  PROVE  Cost(rows, items) \in Nat /\ Cost(rows, items) = CatalogueCost(rows, items)
<1>1. PICK pick, fold : /\ Picks(pick, 1 .. n)
                        /\ AddsUp(fold, 1 .. n, LineCost(rows, items), pick)
                        /\ Cost(rows, items) = fold[1 .. n]
  BY CostFolds
<1>2. PICK pick2, fold2 : /\ Picks(pick2, 1 .. n)
                          /\ AddsUp(fold2, 1 .. n, LineCost(rows, items), pick2)
                          /\ CatalogueCost(rows, items) = fold2[1 .. n]
  BY CatalogueFolds
<1> DEFINE worth == LineCost(rows, items)
<1>3. IsFiniteSet(1 .. n) /\ \A x \in 1 .. n : worth[x] \in Int /\ worth[x] >= 0
  BY FS_Interval, LineCostFacts
<1>4. AddsUp(fold, 1 .. n, worth, pick) /\ AddsUp(fold2, 1 .. n, worth, pick2)
  BY <1>1, <1>2
<1> HIDE DEF worth
<1>5. fold[1 .. n] \in Int /\ fold[1 .. n] >= 0
  BY <1>1, <1>3, <1>4, FoldFacts
<1>6. fold[1 .. n] = fold2[1 .. n]
  BY <1>1, <1>2, <1>3, <1>4, FoldsAgree
<1> QED BY <1>1, <1>2, <1>5, <1>6

-----------------------------------------------------------------------------
(* Types. *)

\* What the operations make of a store of rows of one kind.
LEMMA StoreTypes ==
  ASSUME NEW store, NEW Row, Numbered(store), StoreOK(store, Row), NEW row \in Row, NEW id
  PROVE  /\ StoreOK(Insert(store, row), Row)
         /\ StoreOK(UpdateRow(store, id, row), Row)
<1>1. /\ \A i \in DOMAIN store.rows : store.rows[i] \in Row /\ i \in Nat /\ 0 < i /\ i < store.next
      /\ store.next \in Nat \ {0}
  BY DEF StoreOK, Numbered
<1>2. StoreOK(Insert(store, row), Row)
  <2>1. /\ Insert(store, row).rows = Put(store.rows, store.next, row)
        /\ Insert(store, row).next = store.next + 1
    BY DEF Insert
  <2>2. Put(store.rows, store.next, row) \in [DOMAIN store.rows \cup {store.next} -> Row]
    BY <1>1 DEF Put
  <2>3. \A i \in DOMAIN store.rows \cup {store.next} : i \in Nat /\ 0 < i /\ i < store.next + 1
    BY <1>1
  <2> QED BY <1>1, <2>1, <2>2, <2>3 DEF StoreOK
<1>3. StoreOK(UpdateRow(store, id, row), Row)
  <2>1. /\ UpdateRow(store, id, row).rows = Update(store.rows, id, row)
        /\ UpdateRow(store, id, row).next = store.next
    BY DEF UpdateRow, Numbered
  <2>2. Update(store.rows, id, row) \in [DOMAIN store.rows -> Row]
    BY <1>1 DEF Update, StoreOK
  <2> QED BY <1>1, <2>1, <2>2 DEF StoreOK
<1> QED BY <1>2, <1>3

LEMMA DropTypes ==
  ASSUME NEW store, NEW Row, Numbered(store), StoreOK(store, Row), NEW id
  PROVE  StoreOK(DropRow(store, id), Row)
<1>1. /\ DropRow(store, id).rows = Drop(store.rows, id)
      /\ DropRow(store, id).next = store.next
  BY DEF DropRow, Numbered
<1>2. Drop(store.rows, id) \in [DOMAIN store.rows \ {id} -> Row]
  BY DEF Drop, StoreOK
<1> QED BY <1>1, <1>2 DEF StoreOK

\* The items of an order on rows of the catalogue can be priced.
LEMMA PricedFacts ==
  ASSUME StoreOK(products, Product), NEW items \in Seq(LineItem),
         \A k \in DOMAIN items : items[k].productId \in DOMAIN products.rows
  PROVE  /\ Cost(products.rows, items) \in Nat
         /\ Cost(products.rows, items) = CatalogueCost(products.rows, items)
<1>1. Priced(products.rows, items)
  <2>1. \A k \in DOMAIN items : items[k].quantity \in Nat
    <3>1. \A k \in DOMAIN items : items[k] \in LineItem
      OBVIOUS
    <3> QED BY <3>1 DEF LineItem
  <2>2. \A id \in DOMAIN products.rows : products.rows[id].price \in Nat
    BY DEF StoreOK, Product
  <2> QED BY <2>1, <2>2 DEF Priced
<1>2. Len(items) \in Nat /\ DOMAIN items = 1 .. Len(items)
  OBVIOUS
<1> QED BY <1>1, <1>2, CostFacts

LEMMA UserTypes ==
  ASSUME CoreInv, TypeOK, UserRequest
  PROVE  TypeOK'
<1>1. Numbered(users) /\ StoreOK(users, User)
  BY DEF CoreInv, TypeOK
<1>2. ASSUME NEW email \in Emails, CreateUser(email) PROVE TypeOK'
  <2>1. [email |-> email] \in User
    BY DEF User
  <2>2. StoreOK(users', User)
    BY <1>1, <1>2, <2>1, StoreTypes DEF CreateUser
  <2> QED BY <1>2, <2>2 DEF TypeOK, CreateUser, Respond
<1>3. ASSUME NEW id, NEW email \in Emails \cup {Absent}, WriteUser(id, email) PROVE TypeOK'
  <2>1. users.rows[id].email \in Emails
    BY <1>1, <1>3 DEF WriteUser, StoreOK, User
  <2>2. [email |-> Given(email, users.rows[id].email)] \in User
    BY <2>1 DEF User, Given
  <2>3. StoreOK(users', User)
    BY <1>1, <1>3, <2>2, StoreTypes DEF WriteUser
  <2> QED BY <1>3, <2>3 DEF TypeOK, WriteUser, Respond
<1>4. ASSUME NEW id, DeleteUser(id) PROVE TypeOK'
  <2>1. StoreOK(users', User)
    BY <1>1, <1>4, DropTypes DEF DeleteUser
  <2> QED BY <1>4, <2>1 DEF TypeOK, DeleteUser, Respond
<1>5. ASSUME NEW id, NEW email, CreateUserRefused(email) \/ WriteUserRefused(id, email)
      PROVE  TypeOK'
  BY <1>5 DEF CreateUserRefused, WriteUserRefused, Refuse, Respond, TypeOK
<1> QED BY <1>2, <1>3, <1>4, <1>5 DEF UserRequest

LEMMA CustomerTypes ==
  ASSUME CoreInv, TypeOK, CustomerRequest
  PROVE  TypeOK'
<1>1. Numbered(customers) /\ StoreOK(customers, Customer)
  BY DEF CoreInv, TypeOK
<1>2. UserIds \subseteq Nat
  BY BoundAssumption DEF UserIds
<1>3. ASSUME NEW email \in Emails, NEW userId \in UserIds \cup {NoUser},
             CreateCustomer(email, userId)
      PROVE  TypeOK'
  <2>1. [email |-> email, userId |-> userId] \in Customer
    BY <1>2 DEF Customer
  <2>2. StoreOK(customers', Customer)
    BY <1>1, <1>3, <2>1, StoreTypes DEF CreateCustomer
  <2> QED BY <1>3, <2>2 DEF TypeOK, CreateCustomer, Respond
<1>4. ASSUME NEW id, NEW email \in Emails \cup {Absent},
             NEW userId \in UserIds \cup {NoUser, Absent}, WriteCustomer(id, email, userId)
      PROVE  TypeOK'
  <2>1. customers.rows[id] \in Customer
    BY <1>1, <1>4 DEF WriteCustomer, StoreOK
  <2>2. [email |-> Given(email, customers.rows[id].email),
         userId |-> Given(userId, customers.rows[id].userId)] \in Customer
    BY <1>2, <2>1 DEF Customer, Given
  <2>3. StoreOK(customers', Customer)
    BY <1>1, <1>4, <2>2, StoreTypes DEF WriteCustomer
  <2> QED BY <1>4, <2>3 DEF TypeOK, WriteCustomer, Respond
<1>5. ASSUME NEW id, DeleteCustomer(id) PROVE TypeOK'
  <2>1. StoreOK(customers', Customer)
    BY <1>1, <1>5, DropTypes DEF DeleteCustomer
  <2> QED BY <1>5, <2>1 DEF TypeOK, DeleteCustomer, Respond
<1>6. ASSUME NEW id, NEW email, NEW userId,
             CreateCustomerRefused(email, userId) \/ WriteCustomerRefused(id, email, userId)
      PROVE  TypeOK'
  BY <1>6 DEF CreateCustomerRefused, WriteCustomerRefused, Refuse, Respond, TypeOK
<1> QED BY <1>3, <1>4, <1>5, <1>6 DEF CustomerRequest

LEMMA ProductTypes ==
  ASSUME CoreInv, TypeOK, ProductRequest
  PROVE  TypeOK'
<1>1. Numbered(products) /\ StoreOK(products, Product)
  BY DEF CoreInv, TypeOK
<1>2. ASSUME NEW price \in Prices, CreateProduct(price) PROVE TypeOK'
  <2>1. [price |-> price] \in Product
    BY InputAssumption DEF Product
  <2>2. StoreOK(products', Product)
    BY <1>1, <1>2, <2>1, StoreTypes DEF CreateProduct
  <2> QED BY <1>2, <2>2 DEF TypeOK, CreateProduct, Respond
<1>3. ASSUME NEW id, NEW price \in Prices \cup {Absent}, WriteProduct(id, price) PROVE TypeOK'
  <2>1. products.rows[id].price \in Nat
    BY <1>1, <1>3 DEF WriteProduct, StoreOK, Product
  <2>2. [price |-> Given(price, products.rows[id].price)] \in Product
    BY <2>1, InputAssumption DEF Product, Given
  <2>3. StoreOK(products', Product)
    BY <1>1, <1>3, <2>2, StoreTypes DEF WriteProduct
  <2> QED BY <1>3, <2>3 DEF TypeOK, WriteProduct, Respond
<1>4. ASSUME NEW id, DeleteProduct(id) PROVE TypeOK'
  <2>1. StoreOK(products', Product)
    BY <1>1, <1>4, DropTypes DEF DeleteProduct
  <2> QED BY <1>4, <2>1 DEF TypeOK, DeleteProduct, Respond
<1> QED BY <1>2, <1>3, <1>4 DEF ProductRequest

\* A row of an order that is written, and what it costs.
LEMMA NewOrderFacts ==
  ASSUME CoreInv, TypeOK, NEW customerId \in CustomerIds, NEW items \in ItemLists,
         CreateOrder(customerId, items)
  PROVE  /\ NewOrder(customerId, items) \in Order
         /\ NewOrder(customerId, items).items = items
         /\ NewOrder(customerId, items).total = CatalogueCost(products.rows, items)
<1>1. customerId \in Nat /\ items \in Seq(LineItem) /\ items # Absent
  BY InputAssumption, BoundAssumption, AbsentAssumption DEF CustomerIds, LineItem
<1>2. \A k \in DOMAIN items : items[k].productId \in DOMAIN products.rows
  BY <1>1 DEF CreateOrder, ProductMissing
<1>3. /\ Cost(products.rows, items) \in Nat
      /\ Cost(products.rows, items) = CatalogueCost(products.rows, items)
  BY <1>1, <1>2, PricedFacts DEF TypeOK
<1> QED BY <1>1, <1>3 DEF NewOrder, Order

LEMMA PatchedFacts ==
  ASSUME CoreInv, TypeOK, NEW id, NEW customerId \in CustomerIds \cup {Absent},
         NEW items \in ItemLists \cup {Absent}, WriteOrder(id, customerId, items)
  PROVE  LET new == Patched(orders.rows[id], customerId, items)
         IN  /\ new \in Order
             /\ new.total = IF items = Absent THEN orders.rows[id].total
                            ELSE CatalogueCost(products.rows, items)
<1>1. PICK old \in Order : old = orders.rows[id]
  BY DEF WriteOrder, TypeOK, StoreOK
<1>2. CustomerIds \subseteq Nat /\ ItemLists \subseteq Seq(LineItem)
  BY InputAssumption, BoundAssumption DEF CustomerIds, LineItem
<1>3. Given(customerId, old.customerId) \in Nat /\ Given(items, old.items) \in Seq(LineItem)
  BY <1>2 DEF Given, Order
<1>4. CASE items = Absent
  <2>1. Patched(old, customerId, items) =
          [customerId |-> Given(customerId, old.customerId), items |-> old.items,
           total |-> old.total]
    BY <1>4 DEF Patched, Given
  <2>2. Patched(old, customerId, items) \in Order
    BY <1>1, <1>3, <1>4, <2>1 DEF Order, Given
  <2>3. Patched(old, customerId, items).total = old.total
    BY <2>1
  <2> QED BY <1>1, <1>4, <2>2, <2>3
<1>5. CASE items # Absent
  <2>1. items \in Seq(LineItem)
    BY <1>2, <1>5
  <2>2. \A k \in DOMAIN items : items[k].productId \in DOMAIN products.rows
    BY <1>5 DEF WriteOrder, ProductMissing
  <2>3. /\ Cost(products.rows, items) \in Nat
        /\ Cost(products.rows, items) = CatalogueCost(products.rows, items)
    BY <2>1, <2>2, PricedFacts DEF TypeOK
  <2>4. Patched(old, customerId, items) =
          [customerId |-> Given(customerId, old.customerId), items |-> items,
           total |-> Cost(products.rows, items)]
    BY <1>5 DEF Patched, Given
  <2>5. Patched(old, customerId, items) \in Order
    BY <1>1, <1>3, <2>1, <2>3, <2>4 DEF Order
  <2>6. Patched(old, customerId, items).total = CatalogueCost(products.rows, items)
    BY <2>3, <2>4
  <2> QED BY <1>1, <1>5, <2>5, <2>6
<1> QED BY <1>4, <1>5

LEMMA OrderTypes ==
  ASSUME CoreInv, TypeOK, OrderRequest
  PROVE  TypeOK'
<1>1. Numbered(orders) /\ StoreOK(orders, Order)
  BY DEF CoreInv, TypeOK
<1>2. ASSUME NEW customerId \in CustomerIds, NEW items \in ItemLists,
             CreateOrder(customerId, items)
      PROVE  TypeOK'
  <2>1. StoreOK(orders', Order)
    BY <1>1, <1>2, NewOrderFacts, StoreTypes DEF CreateOrder
  <2> QED BY <1>2, <2>1 DEF TypeOK, CreateOrder, Respond
<1>3. ASSUME NEW id, NEW customerId \in CustomerIds \cup {Absent},
             NEW items \in ItemLists \cup {Absent}, WriteOrder(id, customerId, items)
      PROVE  TypeOK'
  <2>1. StoreOK(orders', Order)
    BY <1>1, <1>3, PatchedFacts, StoreTypes DEF WriteOrder
  <2> QED BY <1>3, <2>1 DEF TypeOK, WriteOrder, Respond
<1>4. ASSUME NEW id, DeleteOrder(id) PROVE TypeOK'
  <2>1. StoreOK(orders', Order)
    BY <1>1, <1>4, DropTypes DEF DeleteOrder
  <2> QED BY <1>4, <2>1 DEF TypeOK, DeleteOrder, Respond
<1>5. ASSUME NEW id, NEW b, \/ CreateOrderRefused(b.customerId, b.items)
                            \/ ReplaceOrderRefused(id, b.customerId, b.items)
                            \/ PatchOrderRefused(id, b.customerId, b.items)
      PROVE  TypeOK'
  BY <1>5 DEF CreateOrderRefused, ReplaceOrderRefused, PatchOrderRefused, Refuse, Respond, TypeOK
<1>6. /\ \A b \in Orderable : b.customerId \in CustomerIds /\ b.items \in ItemLists
      /\ \A b \in OrderPatch : /\ b.customerId \in CustomerIds \cup {Absent}
                               /\ b.items \in ItemLists \cup {Absent}
  BY DEF Orderable, OrderPatch
<1> QED BY <1>2, <1>3, <1>4, <1>5, <1>6 DEF OrderRequest

LEMMA CoreTypes ==
  ASSUME CoreInv, TypeOK, CoreSteps
  PROVE  TypeOK'
<1>1. ASSUME NotFound \/ MalformedBody PROVE TypeOK'
  BY <1>1 DEF NotFound, MalformedBody, Refuse, Respond, TypeOK
<1> QED BY <1>1, UserTypes, CustomerTypes, ProductTypes, OrderTypes DEF CoreSteps

\* The seed is of the same types, and priced.
LEMMA SeedTypes ==
  /\ StoreOK(SeededUsers, User) /\ StoreOK(SeededCustomers, Customer)
  /\ StoreOK(SeededProducts, Product) /\ StoreOK(SeededOrders, Order)
  /\ \A i \in DOMAIN SeededOrders.rows :
       SeededOrders.rows[i].total = CatalogueCost(SeededProducts.rows, SeededOrders.rows[i].items)
<1> DEFINE Kept(store) == /\ store.next \in Nat
                         /\ \A i \in DOMAIN store.rows : i \in Nat /\ 0 < i /\ i < store.next
<1>1. \A store : Numbered(store) => Kept(store)
  BY DEF Numbered
<1>2. Kept(SeededUsers) /\ Kept(SeededCustomers) /\ Kept(SeededProducts) /\ Kept(SeededOrders)
  BY <1>1, SeedFacts
<1>3. StoreOK(SeededUsers, User)
  <2>1. SeededUsers.rows = [i \in 1 .. UserCount |-> [email |-> i]]
    BY SeedNumbered, SeedAssumption DEF SeededUsers
  <2> QED BY <1>2, <2>1, SeedAssumption DEF StoreOK, User
<1>4. StoreOK(SeededCustomers, Customer)
  <2>1. SeededCustomers.rows \in [1 .. CustomerCount -> Customer]
    <3> DEFINE link(i) == IF i % LinkEvery = 0 /\ i <= Cardinality(DOMAIN SeededUsers.rows)
                          THEN i ELSE NoUser
    <3>1. SeededCustomers.rows = [i \in 1 .. CustomerCount |-> [email |-> i, userId |-> link(i)]]
      BY SeedNumbered, SeedAssumption DEF SeededCustomers, SeedCustomers
    <3>2. \A i \in 1 .. CustomerCount : i \in Emails /\ link(i) \in Nat \cup {NoUser}
      BY SeedAssumption
    <3> HIDE DEF link
    <3> QED BY <3>1, <3>2 DEF Customer
  <2> QED BY <1>2, <2>1 DEF StoreOK
<1>5. StoreOK(SeededProducts, Product)
  <2>1. SeededProducts.rows = [i \in 1 .. ProductCount |-> [price |-> 1000 + 150 * i]]
    BY SeedNumbered, SeedAssumption DEF SeededProducts
  <2>2. \A i \in 1 .. ProductCount : 1000 + 150 * i \in Nat
    BY SeedAssumption
  <2> QED BY <1>2, <2>1, <2>2 DEF StoreOK, Product
<1>6. ASSUME NEW i \in 1 .. OrderCount
      PROVE  /\ SeededOrders.rows[i] \in Order
             /\ SeededOrders.rows[i].total
                  = CatalogueCost(SeededProducts.rows, SeededOrders.rows[i].items)
  <2> DEFINE items == SeedItems(i, SeededProducts.rows)
             customerId == NthId(SeededCustomers.rows,
                                 (i - 1) % Cardinality(DOMAIN SeededCustomers.rows))
  <2>1. SeededOrders.rows[i] =
          [customerId |-> customerId, items |-> items, total |-> Cost(SeededProducts.rows, items)]
    BY SeedNumbered, SeedAssumption DEF SeededOrders, SeedOrders
  <2> HIDE DEF items, customerId
  <2>2. /\ customerId \in 1 .. CustomerCount
        /\ \A k \in DOMAIN items : items[k].productId \in 1 .. ProductCount
    BY <2>1, SeedOrdered
  <2>3. /\ \E n \in Nat : DOMAIN items = 1 .. n
        /\ \A k \in DOMAIN items : items[k].quantity \in Nat
    <3>1. (i % 3) + 1 \in Nat /\ (i % 2) + 1 \in Nat
      BY SeedAssumption
    <3>2. PICK first, second : /\ first.quantity = (i % 3) + 1 /\ second.quantity = (i % 2) + 1
                               /\ items = <<first, second>> \/ items = <<first>>
      BY DEF items, SeedItems
    <3>3. CASE items = <<first, second>>
      <4>1. DOMAIN items = 1 .. 2 /\ items[1] = first /\ items[2] = second
        BY <3>3
      <4> QED BY <3>1, <3>2, <4>1
    <3>4. CASE items = <<first>>
      <4>1. DOMAIN items = 1 .. 1 /\ items[1] = first
        BY <3>4
      <4> QED BY <3>1, <3>2, <4>1
    <3> QED BY <3>2, <3>3, <3>4
  <2>4. items \in Seq(LineItem)
    <3>1. (i % 3) + 1 \in Nat /\ (i % 2) + 1 \in Nat
      BY SeedAssumption
    <3>2. PICK p, q : items = << [productId |-> p, quantity |-> (i % 3) + 1],
                                 [productId |-> q, quantity |-> (i % 2) + 1] >>
                   \/ items = << [productId |-> p, quantity |-> (i % 3) + 1] >>
      BY DEF items, SeedItems
    <3> DEFINE first == [productId |-> p, quantity |-> (i % 3) + 1]
               second == [productId |-> q, quantity |-> (i % 2) + 1]
    <3>3. CASE items = <<first, second>>
      <4>1. items[1] = first /\ items[2] = second /\ DOMAIN items = 1 .. 2
        BY <3>3
      <4>2. first.productId \in Nat /\ second.productId \in Nat
        BY <2>2, <4>1, SeedAssumption
      <4>3. first \in LineItem /\ second \in LineItem
        BY <3>1, <4>2 DEF LineItem
      <4> HIDE DEF first, second
      <4> QED BY <3>3, <4>3
    <3>4. CASE items = <<first>>
      <4>1. items[1] = first /\ DOMAIN items = 1 .. 1
        BY <3>4
      <4>2. first.productId \in Nat
        BY <2>2, <4>1, SeedAssumption
      <4>3. first \in LineItem
        BY <3>1, <4>2 DEF LineItem
      <4> HIDE DEF first
      <4> QED BY <3>4, <4>3
    <3> QED BY <3>2, <3>3, <3>4
  <2>5. Priced(SeededProducts.rows, items)
    BY <1>5, <2>2, <2>3, SeedFacts DEF Priced, StoreOK, Product
  <2>6. /\ Cost(SeededProducts.rows, items) \in Nat
        /\ Cost(SeededProducts.rows, items) = CatalogueCost(SeededProducts.rows, items)
    BY <2>3, <2>5, CostFacts
  <2>7. customerId \in Nat
    BY <2>2, SeedAssumption
  <2> QED BY <2>1, <2>4, <2>6, <2>7 DEF Order
<1>7. StoreOK(SeededOrders, Order)
  <2>1. SeededOrders.rows \in [1 .. OrderCount -> Order]
    <3>1. SeededOrders.rows = [i \in 1 .. OrderCount |-> SeededOrders.rows[i]]
      BY SeedNumbered, SeedAssumption DEF SeededOrders, SeedOrders
    <3> QED BY <1>6, <3>1
  <2> QED BY <1>2, <2>1 DEF StoreOK
<1> QED BY <1>3, <1>4, <1>5, <1>6, <1>7, SeedFacts

-----------------------------------------------------------------------------
(* What the types and the prices come to. *)

LEMMA CoreTypesPreserved == CoreInv /\ TypeOK /\ [Next]_vars => TypeOK'
<1> SUFFICES ASSUME CoreInv, TypeOK, [Next]_vars PROVE TypeOK'
  OBVIOUS
<1>1. CASE CoreSteps
  BY <1>1, CoreTypes
<1>2. CASE ResetDataStores
  BY <1>2, SeedTypes DEF ResetDataStores, Respond, TypeOK
<1>3. CASE UNCHANGED vars
  BY <1>3 DEF vars, TypeOK
<1> QED BY <1>1, <1>2, <1>3 DEF Next, CoreSteps

\* Every row of the core has its fields, for every seed, input and bound; totals are
\* whole numbers of cents, whatever an order's items are.
THEOREM CoreTypeCorrect == Spec => []TypeOK
<1>1. Init => TypeOK
  BY SeedTypes DEF Init, TypeOK
<1> QED BY <1>1, CoreTypesPreserved, CoreInvariance, PTL DEF Spec

\* The quotes follow the orders.
LEMMA PlacedAsQuoted ==
  ASSUME CoreInv, TypeOK, PricedWhenWritten,
         NEW customerId \in CustomerIds, NEW items \in ItemLists, OrderPlaced(customerId, items)
  PROVE  PricedWhenWritten'
<1> DEFINE row == NewOrder(customerId, items)
<1>1. /\ orders' = Insert(orders, row)
      /\ quoted' = Put(quoted, orders.next, CatalogueCost(products.rows, items))
      /\ row.total = CatalogueCost(products.rows, items)
  BY NewOrderFacts DEF OrderPlaced, CreateOrder
<1> HIDE DEF row
<1>2. Numbered(orders)
  BY DEF CoreInv
<1>3. /\ DOMAIN orders'.rows = DOMAIN orders.rows \cup {orders.next}
      /\ orders'.rows[orders.next] = row
      /\ \A id \in DOMAIN orders.rows : id # orders.next /\ orders'.rows[id] = orders.rows[id]
  BY <1>1, <1>2, InsertGrows
<1>4. /\ DOMAIN quoted' = DOMAIN quoted \cup {orders.next}
      /\ quoted'[orders.next] = row.total
      /\ \A id \in DOMAIN quoted : id # orders.next => quoted'[id] = quoted[id]
  BY <1>1 DEF Put
<1> QED BY <1>3, <1>4 DEF PricedWhenWritten

LEMMA GivenAsQuoted ==
  ASSUME CoreInv, TypeOK, PricedWhenWritten, NEW id, NEW customerId \in CustomerIds \cup {Absent},
         NEW items \in ItemLists \cup {Absent},
         \/ ItemsGiven(id, customerId, items)
         \/ items = Absent /\ ItemsLeft(id, customerId)
  PROVE  PricedWhenWritten'
<1> DEFINE row == Patched(orders.rows[id], customerId, items)
<1>1. /\ WriteOrder(id, customerId, items)
      /\ row.total = IF items = Absent THEN orders.rows[id].total
                     ELSE CatalogueCost(products.rows, items)
  BY PatchedFacts DEF ItemsGiven, ItemsLeft
<1>2. orders' = UpdateRow(orders, id, row) /\ id \in DOMAIN orders.rows
  BY <1>1 DEF WriteOrder
<1> HIDE DEF row
<1>3. /\ DOMAIN orders'.rows = DOMAIN orders.rows
      /\ orders'.rows[id] = row
      /\ \A other \in DOMAIN orders.rows \ {id} : orders'.rows[other] = orders.rows[other]
  BY <1>2, UpdateGrows DEF CoreInv
<1>4. CASE items = Absent
  <2>1. quoted' = quoted
    BY <1>4 DEF ItemsGiven, ItemsLeft
  <2>2. orders'.rows[id].total = quoted[id]
    BY <1>1, <1>2, <1>3, <1>4 DEF PricedWhenWritten
  <2> QED BY <1>3, <2>1, <2>2 DEF PricedWhenWritten
<1>5. CASE items # Absent
  <2>1. quoted' = Update(quoted, id, CatalogueCost(products.rows, items))
    BY <1>5 DEF ItemsGiven
  <2>2. /\ DOMAIN quoted' = DOMAIN quoted
        /\ quoted'[id] = CatalogueCost(products.rows, items)
        /\ \A other \in DOMAIN quoted \ {id} : quoted'[other] = quoted[other]
    BY <1>2, <2>1 DEF Update, PricedWhenWritten
  <2> QED BY <1>1, <1>3, <1>5, <2>2 DEF PricedWhenWritten
<1> QED BY <1>4, <1>5

LEMMA WithdrawnAsQuoted ==
  ASSUME CoreInv, PricedWhenWritten, NEW id, OrderWithdrawn(id)
  PROVE  PricedWhenWritten'
<1>1. orders'.rows = Drop(orders.rows, id)
  BY DEF OrderWithdrawn, DeleteOrder, DropRow, CoreInv, Numbered
<1> QED BY <1>1 DEF PricedWhenWritten, OrderWithdrawn, Drop

LEMMA OthersAsQuoted ==
  ASSUME PricedWhenWritten, OtherRequest \/ OrderRefused
  PROVE  PricedWhenWritten'
<1>1. UNCHANGED <<orders, quoted>>
  <2>1. CASE OtherRequest /\ UserRequest
    BY <2>1 DEF OtherRequest, UserRequest, CreateUser, CreateUserRefused, WriteUser,
                WriteUserRefused, DeleteUser, Refuse
  <2>2. CASE OtherRequest /\ CustomerRequest
    BY <2>2 DEF OtherRequest, CustomerRequest, CreateCustomer, CreateCustomerRefused, WriteCustomer,
                WriteCustomerRefused, DeleteCustomer, Refuse
  <2>3. CASE OtherRequest /\ ProductRequest
    BY <2>3 DEF OtherRequest, ProductRequest, CreateProduct, WriteProduct, DeleteProduct
  <2>4. CASE OtherRequest /\ (NotFound \/ MalformedBody)
    BY <2>4 DEF OtherRequest, NotFound, MalformedBody, Refuse
  <2>5. CASE OrderRefused
    BY <2>5 DEF OrderRefused, CreateOrderRefused, ReplaceOrderRefused, PatchOrderRefused, Refuse
  <2> QED BY <2>1, <2>2, <2>3, <2>4, <2>5 DEF OtherRequest
<1> QED BY <1>1 DEF PricedWhenWritten

LEMMA ReseededAsQuoted == OrdersReseeded => PricedWhenWritten'
<1> SUFFICES ASSUME OrdersReseeded PROVE PricedWhenWritten'
  OBVIOUS
<1>1. orders' = SeededOrders /\ quoted' = Quotes(SeededOrders.rows, SeededProducts.rows)
  BY DEF OrdersReseeded, ResetDataStores
<1> QED BY <1>1, SeedTypes DEF PricedWhenWritten, Quotes

LEMMA PricingStep ==
  CoreInv /\ TypeOK /\ PricedWhenWritten /\ [PricingNext]_pricingVars => PricedWhenWritten'
<1> SUFFICES ASSUME CoreInv, TypeOK, PricedWhenWritten, [PricingNext]_pricingVars
             PROVE  PricedWhenWritten'
  OBVIOUS
<1>1. /\ \A b \in Orderable : b.customerId \in CustomerIds /\ b.items \in ItemLists
      /\ \A b \in OrderPatch : /\ b.customerId \in CustomerIds \cup {Absent}
                               /\ b.items \in ItemLists \cup {Absent}
  BY DEF Orderable, OrderPatch
<1>2. ASSUME NEW b \in Orderable, OrderPlaced(b.customerId, b.items) PROVE PricedWhenWritten'
  BY <1>1, <1>2, PlacedAsQuoted
<1>3. ASSUME NEW id, NEW b \in OrderPatch, ItemsGiven(id, b.customerId, b.items)
      PROVE  PricedWhenWritten'
  BY <1>1, <1>3, GivenAsQuoted
<1>4. ASSUME NEW id, NEW customerId \in CustomerIds \cup {Absent}, ItemsLeft(id, customerId)
      PROVE  PricedWhenWritten'
  BY <1>4, GivenAsQuoted
<1>5. ASSUME NEW id, OrderWithdrawn(id) PROVE PricedWhenWritten'
  BY <1>5, WithdrawnAsQuoted
<1>6. CASE UNCHANGED pricingVars
  BY <1>6 DEF pricingVars, vars, PricedWhenWritten
<1>7. CASE PricedOrderRequest
  BY <1>2, <1>3, <1>4, <1>5, <1>7, OthersAsQuoted DEF PricedOrderRequest
<1> QED BY <1>6, <1>7, OthersAsQuoted, ReseededAsQuoted DEF PricingNext

\* Without the quotes, the steps are those of the core.
LEMMA PricingIsCore == PricingSpec => Spec
<1>1. PricingInit => Init
  BY DEF PricingInit
<1>2. [PricingNext]_pricingVars => [Next]_vars
  <2>1. PricedOrderRequest => OrderRequest
    <3>1. ASSUME NEW id \in OrderIds, NEW customerId \in CustomerIds \cup {Absent},
                 ItemsLeft(id, customerId)
          PROVE  OrderRequest
      <4> DEFINE b == [customerId |-> customerId, items |-> Absent]
      <4>1. b \in OrderPatch
        BY DEF OrderPatch
      <4>2. WriteOrder(id, b.customerId, b.items)
        BY <3>1 DEF ItemsLeft
      <4> HIDE DEF b
      <4> QED BY <4>1, <4>2 DEF OrderRequest
    <3> QED BY <3>1 DEF PricedOrderRequest, OrderPlaced, ItemsGiven, OrderWithdrawn, OrderRefused,
                        OrderRequest
  <2>2. OtherRequest => Next
    BY DEF OtherRequest, Next
  <2>3. OrdersReseeded => Next
    BY DEF OrdersReseeded, Next
  <2>4. UNCHANGED pricingVars => UNCHANGED vars
    BY DEF pricingVars
  <2> QED BY <2>1, <2>2, <2>3, <2>4 DEF PricingNext, Next
<1> QED BY <1>1, <1>2, PTL DEF PricingSpec, Spec

\* An order costs what the catalogue asked for its items when a request last gave them, whatever
\* happened since to the products, to other orders or to its other fields (patchOrder).
THEOREM PricesStand == PricingSpec => []PricedWhenWritten
<1>1. PricingInit => PricedWhenWritten
  BY SeedTypes DEF PricingInit, Init, Quotes, PricedWhenWritten
<1> QED BY <1>1, PricingStep, PricingIsCore, CoreInvariance, CoreTypeCorrect, PTL DEF PricingSpec

-----------------------------------------------------------------------------
(* Types of the catalogue: what a reset seeds. *)

\* The k-th of consecutive ids.
LEMMA NthIdExact ==
  ASSUME NEW a \in Nat, NEW n \in Nat, NEW rows, DOMAIN rows = a + 1 .. a + n,
         NEW k \in 0 .. n - 1
  PROVE  NthId(rows, k) = a + k + 1
<1> DEFINE Below(i) == {j \in DOMAIN rows : j < i}
<1>1. \A i \in DOMAIN rows : Cardinality(Below(i)) = i - a - 1
  <2> SUFFICES ASSUME NEW i \in DOMAIN rows PROVE Cardinality(Below(i)) = i - a - 1
    OBVIOUS
  <2>1. Below(i) = a + 1 .. i - 1
    OBVIOUS
  <2> HIDE DEF Below
  <2>2. a + 1 \in Int /\ i - 1 \in Int
    OBVIOUS
  <2>3. Cardinality(a + 1 .. i - 1) = IF a + 1 > i - 1 THEN 0 ELSE (i - 1) - (a + 1) + 1
    BY <2>2, FS_Interval
  <2> QED BY <2>1, <2>3
<1>2. a + k + 1 \in DOMAIN rows
  OBVIOUS
<1>3. NthId(rows, k) = CHOOSE i \in DOMAIN rows : Cardinality(Below(i)) = k
  BY DEF NthId
<1> HIDE DEF Below
<1>4. \A i \in DOMAIN rows : Cardinality(Below(i)) = k <=> i = a + k + 1
  <2> SUFFICES ASSUME NEW i \in DOMAIN rows
               PROVE  Cardinality(Below(i)) = k <=> i = a + k + 1
    OBVIOUS
  <2>1. Cardinality(Below(i)) = i - a - 1 /\ i \in Int
    BY <1>1
  <2> QED BY <2>1
<1> QED BY <1>2, <1>3, <1>4

\* Rows taken in turn.
LEMMA InTurnFacts ==
  ASSUME NEW a \in Nat, NEW n \in Nat \ {0}, NEW rows, DOMAIN rows = a + 1 .. a + n,
         NEW i \in Nat \ {0}
  PROVE  InTurn(rows, i) = a + ((i - 1) % n) + 1 /\ InTurn(rows, i) \in DOMAIN rows
<1>1. Cardinality(DOMAIN rows) = n
  BY FS_Interval
<1>2. (i - 1) % n \in 0 .. n - 1
  OBVIOUS
<1>3. NthId(rows, (i - 1) % n) = a + ((i - 1) % n) + 1
  BY <1>2, NthIdExact
<1>4. InTurn(rows, i) = a + ((i - 1) % n) + 1
  BY <1>1, <1>3 DEF InTurn
<1> QED BY <1>2, <1>4

\* The first products are reviewed.
LEMMA ReviewedFacts ==
  /\ \E n \in Nat \ {0} : /\ Reviewed(SeededProducts.rows) = 1 .. n
                          /\ n <= ReviewedProductCount /\ n <= ProductCount
<1> DEFINE rows == SeededProducts.rows
           n == IF ProductCount <= ReviewedProductCount THEN ProductCount
                ELSE ReviewedProductCount
<1>1. DOMAIN rows = 1 .. ProductCount
  BY SeedFacts
<1> HIDE DEF rows
<1>2. \A id \in DOMAIN rows : Cardinality({j \in DOMAIN rows : j < id}) = id - 1
  <2> SUFFICES ASSUME NEW id \in DOMAIN rows
               PROVE  Cardinality({j \in DOMAIN rows : j < id}) = id - 1
    OBVIOUS
  <2>1. id \in Nat \ {0} /\ id - 1 \in Nat /\ 1 \in Int /\ id - 1 \in Int
    BY <1>1, SeedAssumption
  <2>2. {j \in DOMAIN rows : j < id} = 1 .. id - 1
    BY <1>1, SeedAssumption
  <2>3. Cardinality(1 .. id - 1) = IF 1 > id - 1 THEN 0 ELSE (id - 1) - 1 + 1
    BY <2>1, FS_Interval
  <2>4. Cardinality(1 .. id - 1) = id - 1
    BY <2>1, <2>3
  <2> QED BY <2>2, <2>4
<1>3. Reviewed(rows) = {id \in 1 .. ProductCount : id - 1 < ReviewedProductCount}
  BY <1>1, <1>2 DEF Reviewed
<1>4. Reviewed(rows) = 1 .. n
  BY <1>3, SeedAssumption, CatalogAssumption
<1>5. n \in Nat \ {0} /\ n <= ReviewedProductCount /\ n <= ProductCount
  BY SeedAssumption, CatalogAssumption
<1> QED BY <1>4, <1>5 DEF rows

\* The seeded posts, comments and reviews.
LEMMA SeededPostTypes ==
  ASSUME NEW a \in Nat, NEW seeded,
         seeded = [id \in a + 1 .. a + PostCount |-> [userId |-> InTurn(SeededUsers.rows, id - a)]]
  PROVE  /\ DOMAIN seeded = a + 1 .. a + PostCount
         /\ seeded \in [DOMAIN seeded -> Post]
         /\ \A id \in DOMAIN seeded : seeded[id].userId = ((id - a - 1) % UserCount) + 1
<1>1. \A id \in a + 1 .. a + PostCount : id - a \in Nat \ {0}
  BY CatalogAssumption
<1>2. DOMAIN SeededUsers.rows = 0 + 1 .. 0 + UserCount /\ UserCount \in Nat \ {0}
  BY SeedFacts, SeedAssumption, CatalogAssumption
<1>3. \A id \in a + 1 .. a + PostCount :
        /\ InTurn(SeededUsers.rows, id - a) = 0 + ((id - a - 1) % UserCount) + 1
        /\ InTurn(SeededUsers.rows, id - a) \in DOMAIN SeededUsers.rows
  BY <1>1, <1>2, InTurnFacts
<1>4. \A id \in a + 1 .. a + PostCount :
        /\ InTurn(SeededUsers.rows, id - a) = ((id - a - 1) % UserCount) + 1
        /\ InTurn(SeededUsers.rows, id - a) \in Nat
  BY <1>2, <1>3
<1> QED BY <1>4 DEF Post

LEMMA SeededCommentTypes ==
  ASSUME NEW a \in Nat, NEW postRows, DOMAIN postRows = a + 1 .. a + PostCount
  PROVE  /\ Numbered(SeedComments(postRows, SeededUsers.rows))
         /\ StoreOK(SeedComments(postRows, SeededUsers.rows), Comment)
<1> DEFINE row(i) == [postId |-> InTurn(postRows, i), userId |-> InTurn(SeededUsers.rows, i)]
           rows == [i \in 1 .. CommentCount |-> row(i)]
           seeded == SeedComments(postRows, SeededUsers.rows)
<1>1. seeded = ResetRows(rows)
  BY DEF SeedComments
<1>2. \A i \in 1 .. CommentCount : i \in Nat \ {0}
  BY CatalogAssumption
<1>3. DOMAIN SeededUsers.rows = 0 + 1 .. 0 + UserCount /\ UserCount \in Nat \ {0}
  BY SeedFacts, SeedAssumption, CatalogAssumption
<1>4. \A i \in 1 .. CommentCount : InTurn(postRows, i) \in DOMAIN postRows
  BY <1>2, InTurnFacts, CatalogAssumption
<1>5. \A i \in 1 .. CommentCount : InTurn(SeededUsers.rows, i) \in DOMAIN SeededUsers.rows
  BY <1>2, <1>3, InTurnFacts
<1>6. rows \in [1 .. CommentCount -> Comment]
  BY <1>3, <1>4, <1>5, CatalogAssumption DEF Comment
<1>7. DOMAIN rows = 1 .. CommentCount
  OBVIOUS
<1> HIDE DEF rows, seeded
<1>8. Numbered(seeded) /\ seeded.rows = rows
  BY <1>1, <1>7, SeedNumbered, CatalogAssumption
<1>9. StoreOK(seeded, Comment)
  <2>1. seeded.next \in Nat \ {0} /\ 1 .. CommentCount \subseteq 1 .. seeded.next - 1
    BY <1>7, <1>8 DEF Numbered
  <2>2. \A i \in 1 .. CommentCount : i \in Nat /\ 0 < i /\ i < seeded.next
    BY <1>2, <2>1
  <2> QED BY <1>6, <1>7, <1>8, <2>1, <2>2 DEF StoreOK
<1> QED BY <1>8, <1>9 DEF seeded

LEMMA SeededReviewTypes ==
  /\ Numbered(SeededReviews) /\ StoreOK(SeededReviews, Review)
  /\ DOMAIN SeededReviews.rows = 1 .. ReviewCount
  /\ \A i \in 1 .. ReviewCount :
       /\ SeededReviews.rows[i].productId \in 1 .. ReviewedProductCount
       /\ SeededReviews.rows[i].productId \in 1 .. ProductCount
       /\ SeededReviews.rows[i].rating \in 1 .. 5
<1>1. PICK n \in Nat \ {0} : /\ Reviewed(SeededProducts.rows) = 1 .. n
                             /\ n <= ReviewedProductCount /\ n <= ProductCount
  BY ReviewedFacts
<1> DEFINE some == [id \in Reviewed(SeededProducts.rows) |-> SeededProducts.rows[id]]
           row(i) == [productId |-> InTurn(some, i), userId |-> InTurn(SeededUsers.rows, i),
                      rating |-> ((i - 1) % 5) + 1]
           rows == [i \in 1 .. ReviewCount |-> row(i)]
<1>2. SeededReviews = ResetRows(rows)
  BY DEF SeededReviews, SeedReviews
<1>3. \A i \in 1 .. ReviewCount : i \in Nat \ {0}
  BY CatalogAssumption
<1>4. DOMAIN SeededUsers.rows = 0 + 1 .. 0 + UserCount /\ UserCount \in Nat \ {0}
  BY SeedFacts, SeedAssumption, CatalogAssumption
<1>5. DOMAIN some = 0 + 1 .. 0 + n
  BY <1>1
<1> HIDE DEF some
<1>6. \A i \in 1 .. ReviewCount : InTurn(some, i) \in 1 .. n
  <2>1. \A i \in Nat \ {0} : InTurn(some, i) \in DOMAIN some
    BY <1>5, InTurnFacts
  <2>2. 0 + 1 .. 0 + n = 1 .. n
    OBVIOUS
  <2> QED BY <1>3, <1>5, <2>1, <2>2
<1>7. \A i \in 1 .. ReviewCount : InTurn(SeededUsers.rows, i) \in Nat
  <2>1. \A i \in 1 .. ReviewCount : InTurn(SeededUsers.rows, i) \in DOMAIN SeededUsers.rows
    BY <1>3, <1>4, InTurnFacts
  <2> QED BY <1>4, <2>1
<1>8. \A i \in 1 .. ReviewCount : ((i - 1) % 5) + 1 \in 1 .. 5
  BY <1>3
<1>9. rows \in [1 .. ReviewCount -> Review]
  BY <1>1, <1>6, <1>7, <1>8 DEF Review
<1>10. \A i \in 1 .. ReviewCount : rows[i].productId \in 1 .. n /\ rows[i].rating \in 1 .. 5
  BY <1>6, <1>8
<1>11. DOMAIN rows = 1 .. ReviewCount
  OBVIOUS
<1> HIDE DEF rows
<1>12. Numbered(SeededReviews) /\ SeededReviews.rows = rows
  BY <1>2, <1>11, SeedNumbered, CatalogAssumption
<1>13. StoreOK(SeededReviews, Review)
  <2>1. SeededReviews.next \in Nat \ {0} /\ 1 .. ReviewCount \subseteq 1 .. SeededReviews.next - 1
    BY <1>11, <1>12 DEF Numbered
  <2>2. \A i \in 1 .. ReviewCount : i \in Nat /\ 0 < i /\ i < SeededReviews.next
    BY <1>3, <2>1
  <2> QED BY <1>9, <1>11, <1>12, <2>1, <2>2 DEF StoreOK
<1>14. \A i \in 1 .. n : i \in 1 .. ReviewedProductCount /\ i \in 1 .. ProductCount
  BY <1>1, SeedAssumption, CatalogAssumption
<1> QED BY <1>10, <1>11, <1>12, <1>13, <1>14

\* Types of the whole catalogue; the comments are numbered like the core's stores.
CatalogTypes == CatalogTypeOK /\ Numbered(comments)

\* Answers change no store.
LEMMA SameTypes ==
  ASSUME TypeOK, UNCHANGED <<users, customers, products, orders>>,
         reply' \in {"created", "invalid", "not found"}
  PROVE  TypeOK'
BY DEF TypeOK

LEMMA CatalogTypesInitially == CatalogInit => CatalogTypes
<1> SUFFICES ASSUME CatalogInit PROVE CatalogTypes
  OBVIOUS
<1>1. TypeOK /\ users = SeededUsers /\ products = SeededProducts
  BY SeedTypes DEF CatalogInit, Init, TypeOK
<1>2. posts = [id \in 0 + 1 .. 0 + PostCount |-> [userId |-> InTurn(SeededUsers.rows, id - 0)]]
  <2>1. 0 + 1 .. 0 + PostCount = 1 .. PostCount /\ \A id \in 1 .. PostCount : id - 0 = id
    BY CatalogAssumption
  <2> QED BY <1>1, <2>1 DEF CatalogInit
<1>3. DOMAIN posts = 0 + 1 .. 0 + PostCount /\ posts \in [DOMAIN posts -> Post]
  BY <1>2, SeededPostTypes
<1>4. StoreOK(comments, Comment) /\ Numbered(comments)
  BY <1>1, <1>3, SeededCommentTypes DEF CatalogInit
<1>5. StoreOK(reviews, Review)
  BY <1>1, SeededReviewTypes DEF CatalogInit, SeededReviews
<1>6. drawn \in 0 .. MaxDrawn /\ DOMAIN posts \subseteq 1 .. drawn
  BY <1>3, CatalogAssumption DEF CatalogInit
<1> QED BY <1>1, <1>3, <1>4, <1>5, <1>6 DEF CatalogTypes, CatalogTypeOK

\* What a reset leaves of the catalogue.
LEMMA ResetFacts ==
  ASSUME drawn \in Nat, ResetCatalog
  PROVE  /\ users' = SeededUsers /\ products' = SeededProducts
         /\ customers' = SeededCustomers /\ orders' = SeededOrders
         /\ DOMAIN posts' = drawn + 1 .. drawn + PostCount
         /\ posts' \in [DOMAIN posts' -> Post]
         /\ \A id \in DOMAIN posts' : posts'[id].userId = ((id - drawn - 1) % UserCount) + 1
         /\ StoreOK(comments', Comment) /\ Numbered(comments')
         /\ reviews' = SeededReviews
<1>1. posts' = [id \in drawn + 1 .. drawn + PostCount |->
                  [userId |-> InTurn(SeededUsers.rows, id - drawn)]]
  BY DEF ResetCatalog, SeededPosts, SeedPosts
<1>2. /\ DOMAIN posts' = drawn + 1 .. drawn + PostCount
      /\ posts' \in [DOMAIN posts' -> Post]
      /\ \A id \in DOMAIN posts' : posts'[id].userId = ((id - drawn - 1) % UserCount) + 1
  <2>1. PICK a, seeded : a = drawn /\ seeded = posts'
    OBVIOUS
  <2>2. /\ DOMAIN seeded = a + 1 .. a + PostCount
        /\ seeded \in [DOMAIN seeded -> Post]
        /\ \A id \in DOMAIN seeded : seeded[id].userId = ((id - a - 1) % UserCount) + 1
    <3>1. a \in Nat /\ seeded = [id \in a + 1 .. a + PostCount |->
                                   [userId |-> InTurn(SeededUsers.rows, id - a)]]
      BY <1>1, <2>1
    <3> QED BY <3>1, SeededPostTypes
  <2> QED BY <2>1, <2>2
<1>3. StoreOK(comments', Comment) /\ Numbered(comments')
  <2>1. DOMAIN SeededPosts = drawn + 1 .. drawn + PostCount
    BY <1>2 DEF ResetCatalog
  <2>2. comments' = SeedComments(SeededPosts, SeededUsers.rows)
    BY DEF ResetCatalog, SeededComments
  <2> QED BY <2>1, <2>2, SeededCommentTypes
<1> QED BY <1>2, <1>3 DEF ResetCatalog, ResetDataStores

LEMMA CatalogTypesPreserved ==
  CatalogInv /\ CatalogTypes /\ [CatalogNext]_catalogVars => CatalogTypes'
<1> SUFFICES ASSUME CatalogInv, CatalogTypes, [CatalogNext]_catalogVars
             PROVE  CatalogTypes'
  OBVIOUS
<1>0. /\ CoreInv /\ TypeOK /\ drawn \in 0 .. MaxDrawn /\ drawn \in Nat /\ Numbered(comments)
      /\ posts \in [DOMAIN posts -> Post] /\ DOMAIN posts \subseteq 1 .. drawn
      /\ StoreOK(comments, Comment) /\ StoreOK(reviews, Review)
  BY CatalogAssumption DEF CatalogInv, CatalogTypes, CatalogTypeOK
<1>1. ASSUME UNCHANGED catalog, TypeOK' PROVE CatalogTypes'
  BY <1>0, <1>1 DEF catalog, CatalogTypes, CatalogTypeOK
<1>2. CASE CoreRequest
  <2>1. TypeOK'
    BY <1>0, <1>2, CoreTypes DEF CoreRequest, CoreSteps
  <2> QED BY <1>1, <1>2, <2>1 DEF CoreRequest
<1>3. CASE PostRequest
  <2>1. PICK userId \in UserIds : CreatePostForUser(userId) \/ CreatePostRefused(userId)
    BY <1>3 DEF PostRequest
  <2>2. TypeOK'
    <3>1. UNCHANGED <<users, customers, products, orders>>
      BY <2>1 DEF CreatePostForUser, CreatePostRefused, Refuse
    <3>2. reply' \in {"created", "invalid", "not found"}
      BY <2>1 DEF CreatePostForUser, CreatePostRefused, Refuse, Respond
    <3> QED BY <1>0, <3>1, <3>2, SameTypes
  <2>3. CASE CreatePostForUser(userId)
    <3>1. userId \in Nat
      BY <1>0, <2>3 DEF CreatePostForUser, UserExists, CoreInv, Numbered
    <3>2. /\ drawn' = drawn + 1 /\ drawn' \in 0 .. MaxDrawn
          /\ posts' = Put(posts, drawn', [userId |-> userId]) /\ UNCHANGED <<comments, reviews>>
      BY <1>0, <2>3, CatalogAssumption DEF CreatePostForUser
    <3>3. [userId |-> userId] \in Post
      BY <3>1 DEF Post
    <3>4. posts' \in [DOMAIN posts \cup {drawn'} -> Post]
      BY <1>0, <3>2, <3>3 DEF Put
    <3>5. posts' \in [DOMAIN posts' -> Post] /\ DOMAIN posts' \subseteq 1 .. drawn'
      BY <1>0, <3>2, <3>4
    <3> QED BY <1>0, <2>2, <3>2, <3>5 DEF CatalogTypes, CatalogTypeOK
  <2> QED BY <1>1, <2>1, <2>2, <2>3 DEF CreatePostRefused
<1>4. CASE CommentRequest
  <2>1. PICK postId \in 1 .. MaxDrawn :
          \/ \E userId \in UserIds : CreateCommentForPost(postId, userId)
          \/ CreateCommentRefused(postId)
    BY <1>4 DEF CommentRequest
  <2>2. TypeOK'
    <3>1. UNCHANGED <<users, customers, products, orders>>
      BY <2>1 DEF CreateCommentForPost, CreateCommentRefused, Refuse
    <3>2. reply' \in {"created", "invalid", "not found"}
      BY <2>1 DEF CreateCommentForPost, CreateCommentRefused, Refuse, Respond
    <3> QED BY <1>0, <3>1, <3>2, SameTypes
  <2>3. ASSUME NEW userId \in UserIds, CreateCommentForPost(postId, userId)
        PROVE  CatalogTypes'
    <3>1. [postId |-> postId, userId |-> userId] \in Comment
      BY BoundAssumption, CatalogAssumption DEF Comment, UserIds
    <3>2. /\ comments' = Insert(comments, [postId |-> postId, userId |-> userId])
          /\ UNCHANGED <<posts, reviews, drawn>>
      BY <2>3 DEF CreateCommentForPost
    <3>3. StoreOK(comments', Comment)
      BY <1>0, <3>1, <3>2, StoreTypes
    <3>4. Numbered(comments')
      BY <1>0, <3>2, InsertGrows DEF Grows
    <3> QED BY <1>0, <2>2, <3>2, <3>3, <3>4 DEF CatalogTypes, CatalogTypeOK
  <2> QED BY <1>1, <2>1, <2>2, <2>3 DEF CreateCommentRefused
<1>5. CASE ResetCatalog
  <2>1. TypeOK'
    BY <1>5, SeedTypes DEF ResetCatalog, ResetDataStores, Respond, TypeOK
  <2>2. /\ DOMAIN posts' = drawn + 1 .. drawn + PostCount
        /\ posts' \in [DOMAIN posts' -> Post]
        /\ StoreOK(comments', Comment) /\ Numbered(comments') /\ reviews' = SeededReviews
    BY <1>0, <1>5, ResetFacts
  <2>3. drawn' \in 0 .. MaxDrawn /\ DOMAIN posts' \subseteq 1 .. drawn'
    BY <1>0, <1>5, <2>2, CatalogAssumption DEF ResetCatalog
  <2> QED BY <2>1, <2>2, <2>3, SeededReviewTypes DEF CatalogTypes, CatalogTypeOK
<1>6. CASE UNCHANGED catalogVars
  <2>1. UNCHANGED catalog /\ UNCHANGED vars
    BY <1>6 DEF catalogVars
  <2>2. TypeOK'
    BY <1>0, <2>1 DEF vars, TypeOK
  <2> QED BY <1>1, <2>1, <2>2
<1> QED BY <1>2, <1>3, <1>4, <1>5, <1>6 DEF CatalogNext

\* Every row of the catalogue has its fields, under an id handed out, for every seed.
THEOREM CatalogTypeCorrect == CatalogSpec => []CatalogTypeOK
<1>1. CatalogTypes => CatalogTypeOK
  BY DEF CatalogTypes
<1> QED BY <1>1, CatalogTypesInitially, CatalogTypesPreserved, CatalogInvariance, PTL
        DEF CatalogSpec

\* A seed numbered from 1 to n resumes with n + 1.
LEMMA SeedNext ==
  ASSUME NEW n \in Nat, NEW rows, DOMAIN rows = 1 .. n
  PROVE  ResetRows(rows).next = n + 1
<1> DEFINE ids == DOMAIN rows \cup {0}
           largest == CHOOSE m \in ids : \A i \in ids : i <= m
<1>1. ids = 0 .. n
  OBVIOUS
<1>2. ResetRows(rows).next = 1 + largest
  BY DEF ResetRows
<1>3. n \in ids /\ \A i \in ids : i <= n
  BY <1>1
<1>4. \A m \in ids : (\A i \in ids : i <= m) => m = n
  BY <1>1, <1>3
<1> HIDE DEF ids
<1>5. largest = n
  BY <1>3, <1>4
<1> HIDE DEF largest
<1> QED BY <1>2, <1>5

\* The core after a reset.
LEMMA SeededCore ==
  ASSUME ResetDataStores
  PROVE  CoreIsSeed'
<1>1. /\ users' = SeededUsers /\ products' = SeededProducts
      /\ customers' = SeededCustomers /\ orders' = SeededOrders
  BY DEF ResetDataStores
<1>2. Dangling' = {}
  <2>1. \A i \in DOMAIN customers'.rows :
          customers'.rows[i].userId # NoUser => customers'.rows[i].userId \in DOMAIN users'.rows
    BY <1>1, SeedFacts, SeedLinks
  <2>2. \A i \in DOMAIN orders'.rows :
          /\ orders'.rows[i].customerId \in DOMAIN customers'.rows
          /\ \A k \in DOMAIN orders'.rows[i].items :
               orders'.rows[i].items[k].productId \in DOMAIN products'.rows
    BY <1>1, SeedFacts, SeedOrdered
  <2>3. References' \subseteq Existing'
    BY <2>1, <2>2 DEF References, Existing
  <2> QED BY <2>3 DEF Dangling
<1>3. {i \in DOMAIN customers'.rows : customers'.rows[i].userId # NoUser}
        = {i \in 1 .. CustomerCount : i <= UserCount /\ i % LinkEvery = 0}
  <2>1. Cardinality(DOMAIN SeededUsers.rows) = UserCount
    BY SeedFacts, FS_Interval, SeedAssumption
  <2>2. SeededCustomers.rows =
          [i \in 1 .. CustomerCount |->
             [email |-> i,
              userId |-> IF i % LinkEvery = 0 /\ i <= UserCount THEN i ELSE NoUser]]
    BY <2>1, SeedNumbered, SeedAssumption DEF SeededCustomers, SeedCustomers
  <2>3. \A i \in 1 .. CustomerCount : i # NoUser
    BY NullAssumption
  <2> QED BY <1>1, <2>2, <2>3
<1>4. orders'.next = OrderCount + 1
  BY <1>1, SeedNext, SeedAssumption DEF SeededOrders, SeedOrders
<1>5. \A i \in DOMAIN orders'.rows :
        orders'.rows[i].total = CatalogueCost(products'.rows, orders'.rows[i].items)
  BY <1>1, SeedTypes
<1> QED BY <1>1, <1>2, <1>3, <1>4, <1>5, SeedFacts DEF CoreIsSeed

-----------------------------------------------------------------------------
(* Posts are shared out evenly: those of two authors are the same distance  *)
(* apart all the way, so one list shifts into the other, but for its first  *)
(* post when it starts earlier.                                             *)

\* The posts of author i among n posts, numbered from a + 1, written in turn by u authors.
Share(a, n, u, i) == {id \in a + 1 .. a + n : ((id - a - 1) % u) + 1 = i}

LEMMA SharesFinite ==
  ASSUME NEW a \in Nat, NEW n \in Nat, NEW u, NEW i
  PROVE  /\ IsFiniteSet(Share(a, n, u, i))
         /\ Cardinality(Share(a, n, u, i)) \in Nat
<1>1. IsFiniteSet(a + 1 .. a + n) /\ Share(a, n, u, i) \subseteq a + 1 .. a + n
  BY FS_Interval DEF Share
<1> QED BY <1>1, FS_Subset, FS_CardinalityType

\* A post of author i in terms of the turn it was written in.
LEMMA ShareFacts ==
  ASSUME NEW a \in Nat, NEW n \in Nat, NEW u \in Nat \ {0}, NEW i \in 1 .. u,
         NEW id \in Share(a, n, u, i)
  PROVE  /\ id \in a + 1 .. a + n /\ id - a - 1 \in Nat
         /\ (id - a - 1) % u = i - 1
         /\ id - a - 1 = i - 1 \/ id - a - 1 >= u + (i - 1)
<1>1. id \in a + 1 .. a + n /\ id - a - 1 \in Nat
  BY DEF Share
<1>2. (id - a - 1) % u = i - 1
  <2>1. ((id - a - 1) % u) + 1 = i /\ (id - a - 1) % u \in Int
    BY <1>1 DEF Share
  <2> QED BY <2>1
<1> QED BY <1>1, <1>2, RestFacts

\* Author i takes turns after author j: no more posts.
LEMMA LaterShare ==
  ASSUME NEW a \in Nat, NEW n \in Nat, NEW u \in Nat \ {0}, NEW i \in 1 .. u, NEW j \in 1 .. u,
         j <= i
  PROVE  Cardinality(Share(a, n, u, i)) <= Cardinality(Share(a, n, u, j))
<1>1. ASSUME NEW id \in Share(a, n, u, i)
      PROVE  id \in Int /\ id + (j - i) \in Share(a, n, u, j)
  <2>1. PICK x \in Nat : x = id - a - 1
    BY ShareFacts
  <2>2. /\ id \in a + 1 .. a + n /\ x % u = i - 1
        /\ x = i - 1 \/ x >= u + (i - 1)
    BY <2>1, ShareFacts
  <2>3. (x + (j - i)) % u = j - 1
    <3>1. x \in Int /\ j - i \in Int /\ (x % u) + (j - i) = j - 1 /\ j - 1 \in 0 .. u - 1
      BY <2>2
    <3> QED BY <3>1, SameRound
  <2>4. id + (j - i) \in a + 1 .. a + n /\ (id + (j - i)) - a - 1 = x + (j - i)
    BY <2>1, <2>2
  <2> QED BY <2>3, <2>4 DEF Share
<1>2. j - i \in Int
  OBVIOUS
<1> QED BY <1>1, <1>2, SharesFinite, ShiftedInto

\* Author i takes turns before author j: one post more at most.
LEMMA EarlierShare ==
  ASSUME NEW a \in Nat, NEW n \in Nat, NEW u \in Nat \ {0}, NEW i \in 1 .. u, NEW j \in 1 .. u,
         i < j
  PROVE  Cardinality(Share(a, n, u, i)) <= Cardinality(Share(a, n, u, j)) + 1
<1> DEFINE rest == Share(a, n, u, i) \ {a + i}
<1>1. ASSUME NEW id \in rest
      PROVE  id \in Int /\ id + (j - i - u) \in Share(a, n, u, j)
  <2>1. PICK x \in Nat : x = id - a - 1
    BY ShareFacts
  <2>2. /\ id \in a + 1 .. a + n /\ x % u = i - 1
        /\ x = i - 1 \/ x >= u + (i - 1)
    BY <2>1, ShareFacts
  <2>3. x >= u + (i - 1)
    BY <2>1, <2>2
  <2>4. (x - u + (j - i)) % u = j - 1
    <3>1. x \in Int /\ j - i \in Int /\ (x % u) + (j - i) = j - 1 /\ j - 1 \in 0 .. u - 1
      BY <2>2
    <3> QED BY <3>1, SameRound
  <2>5. /\ id + (j - i - u) \in a + 1 .. a + n
        /\ (id + (j - i - u)) - a - 1 = x - u + (j - i)
    BY <2>1, <2>2, <2>3
  <2> QED BY <2>2, <2>4, <2>5 DEF Share
<1>2. j - i - u \in Int
  OBVIOUS
<1>3. IsFiniteSet(rest) /\ Cardinality(rest) <= Cardinality(Share(a, n, u, j))
  <2> HIDE DEF rest
  <2> QED BY <1>1, <1>2, SharesFinite, ShiftedInto
<1>4. Cardinality(Share(a, n, u, i)) <= Cardinality(rest) + 1
  <2>1. IsFiniteSet(Share(a, n, u, i)) /\ Cardinality(Share(a, n, u, i)) \in Nat
    BY SharesFinite
  <2> QED BY <2>1, FS_RemoveElement
<1>5. Cardinality(rest) \in Nat
  BY <1>3, FS_CardinalityType
<1> HIDE DEF rest
<1> QED BY <1>3, <1>4, <1>5, SharesFinite

LEMMA SharedOutEvenly ==
  ASSUME NEW a \in Nat, NEW n \in Nat, NEW u \in Nat \ {0}, NEW i \in 1 .. u, NEW j \in 1 .. u
  PROVE  Cardinality(Share(a, n, u, i)) <= Cardinality(Share(a, n, u, j)) + 1
<1>1. CASE j <= i
  BY <1>1, LaterShare, SharesFinite
<1>2. CASE i < j
  BY <1>2, EarlierShare
<1> QED BY <1>1, <1>2

-----------------------------------------------------------------------------
(* What a reset rebuilds. *)

LEMMA PostsRebuilt ==
  ASSUME drawn \in Nat, ResetCatalog
  PROVE  /\ DOMAIN posts' = UNION {ListPostsForUser(id)'.ids : id \in DOMAIN users'.rows}
         /\ \A i, j \in DOMAIN users'.rows :
              Cardinality(ListPostsForUser(i)'.ids)
                <= Cardinality(ListPostsForUser(j)'.ids) + 1
<1>1. /\ users' = SeededUsers /\ DOMAIN posts' = drawn + 1 .. drawn + PostCount
      /\ \A id \in DOMAIN posts' : posts'[id].userId = ((id - drawn - 1) % UserCount) + 1
  BY ResetFacts
<1>2. DOMAIN users'.rows = 1 .. UserCount /\ UserCount \in Nat \ {0}
  BY <1>1, SeedFacts, SeedAssumption, CatalogAssumption
<1>3. \A i \in DOMAIN users'.rows :
        ListPostsForUser(i)'.ids = Share(drawn, PostCount, UserCount, i)
  <2>1. \A i \in DOMAIN users'.rows :
          ListPostsForUser(i)'.ids = {id \in DOMAIN posts' : posts'[id].userId = i}
    BY DEF ListPostsForUser, UserExists, Found
  <2> QED BY <1>1, <2>1 DEF Share
<1>4. \A id \in DOMAIN posts' : posts'[id].userId \in DOMAIN users'.rows
  <2>1. \A id \in DOMAIN posts' : id - drawn - 1 \in Int
    BY <1>1
  <2> QED BY <1>1, <1>2, <2>1
<1>5. DOMAIN posts' = UNION {ListPostsForUser(id)'.ids : id \in DOMAIN users'.rows}
  <2>1. \A id \in DOMAIN users'.rows :
          ListPostsForUser(id)'.ids = {p \in DOMAIN posts' : posts'[p].userId = id}
    BY DEF ListPostsForUser, UserExists, Found
  <2>2. ASSUME NEW p \in DOMAIN posts'
        PROVE  \E id \in DOMAIN users'.rows : p \in ListPostsForUser(id)'.ids
    <3>1. PICK author \in DOMAIN users'.rows : author = posts'[p].userId
      BY <1>4
    <3> QED BY <2>1, <3>1
  <2>3. \A id \in DOMAIN users'.rows : ListPostsForUser(id)'.ids \subseteq DOMAIN posts'
    BY <2>1
  <2> QED BY <2>2, <2>3
<1>6. ASSUME NEW i \in DOMAIN users'.rows, NEW j \in DOMAIN users'.rows
      PROVE  Cardinality(ListPostsForUser(i)'.ids) <= Cardinality(ListPostsForUser(j)'.ids) + 1
  BY <1>2, <1>3, SharedOutEvenly, CatalogAssumption
<1> QED BY <1>5, <1>6

LEMMA ReviewsRebuilt ==
  ASSUME drawn \in Nat, ResetCatalog
  PROVE  /\ DOMAIN reviews'.rows
              = UNION {ListReviewsForProduct(id)'.ids : id \in 1 .. ReviewedProductCount}
         /\ DOMAIN reviews'.rows = UNION {ListReviewsByRating(r)'.ids : r \in 1 .. 5}
<1>1. reviews' = SeededReviews /\ DOMAIN products'.rows = 1 .. ProductCount
  BY ResetFacts, SeedFacts
<1>2. \A i \in DOMAIN reviews'.rows :
        /\ reviews'.rows[i].productId \in 1 .. ReviewedProductCount
        /\ reviews'.rows[i].productId \in DOMAIN products'.rows
        /\ reviews'.rows[i].rating \in 1 .. 5
  BY <1>1, SeededReviewTypes
<1>3. \A id : ListReviewsForProduct(id)'.ids \subseteq DOMAIN reviews'.rows
  BY DEF ListReviewsForProduct, Found, Missing
<1>4. \A r : ListReviewsByRating(r)'.ids = {i \in DOMAIN reviews'.rows : reviews'.rows[i].rating = r}
  BY DEF ListReviewsByRating, Found
<1>5. ASSUME NEW i \in DOMAIN reviews'.rows
      PROVE  /\ \E id \in 1 .. ReviewedProductCount : i \in ListReviewsForProduct(id)'.ids
             /\ \E r \in 1 .. 5 : i \in ListReviewsByRating(r)'.ids
  <2>1. PICK id \in 1 .. ReviewedProductCount : id = reviews'.rows[i].productId
    BY <1>2
  <2>2. PICK r \in 1 .. 5 : r = reviews'.rows[i].rating
    BY <1>2
  <2>3. id \in DOMAIN products'.rows
    BY <1>2, <2>1
  <2>4. i \in ListReviewsForProduct(id)'.ids
    BY <2>1, <2>3 DEF ListReviewsForProduct, Found
  <2>5. i \in ListReviewsByRating(r)'.ids
    BY <1>4, <2>2
  <2> QED BY <2>4, <2>5
<1>6. \A r : ListReviewsByRating(r)'.ids \subseteq DOMAIN reviews'.rows
  BY <1>4
<1>7. DOMAIN reviews'.rows
        = UNION {ListReviewsForProduct(id)'.ids : id \in 1 .. ReviewedProductCount}
  BY <1>3, <1>5
<1>8. DOMAIN reviews'.rows = UNION {ListReviewsByRating(r)'.ids : r \in 1 .. 5}
  BY <1>5, <1>6
<1> QED BY <1>7, <1>8

LEMMA OrdersRebuilt ==
  ASSUME ResetDataStores
  PROVE  \A id \in DOMAIN orders'.rows : ListProductsForOrder(id)'.ids # {}
<1>1. orders' = SeededOrders /\ products' = SeededProducts
  BY DEF ResetDataStores
<1> SUFFICES ASSUME NEW id \in DOMAIN orders'.rows
             PROVE  ListProductsForOrder(id)'.ids # {}
  OBVIOUS
<1>2. id \in 1 .. OrderCount
  BY <1>1, SeedFacts
<1>3. orders'.rows[id].items = SeedItems(id, SeededProducts.rows)
  BY <1>1, <1>2, SeedNumbered, SeedAssumption DEF SeededOrders, SeedOrders
<1>4. PICK items : items = orders'.rows[id].items
  OBVIOUS
<1>5. 1 \in DOMAIN items
  BY <1>3, <1>4 DEF SeedItems
<1>6. items[1].productId \in DOMAIN products'.rows
  BY <1>1, <1>2, <1>4, <1>5, SeedOrdered, SeedFacts
<1>7. items[1] \in ToSet(items)
  BY <1>5 DEF ToSet
<1>8. ListProductsForOrder(id)'.ids =
        {item.productId : item \in ToSet(items)} \cap DOMAIN products'.rows
  BY <1>4 DEF ListProductsForOrder, Found
<1> QED BY <1>6, <1>7, <1>8

\* A reset rebuilds the seed, whatever had been deleted or written before.
THEOREM ResetRestores == CatalogSpec => ResetRebuildsCatalog
<1>1. CatalogInv /\ [CatalogNext]_catalogVars =>
        [ResetCatalog =>
           /\ CoreIsSeed'
           /\ DOMAIN posts' = UNION {ListPostsForUser(id)'.ids : id \in DOMAIN users'.rows}
           /\ \A i, j \in DOMAIN users'.rows :
                Cardinality(ListPostsForUser(i)'.ids)
                  <= Cardinality(ListPostsForUser(j)'.ids) + 1
           /\ DOMAIN reviews'.rows
                = UNION {ListReviewsForProduct(id)'.ids : id \in 1 .. ReviewedProductCount}
           /\ DOMAIN reviews'.rows = UNION {ListReviewsByRating(r)'.ids : r \in 1 .. 5}
           /\ \A id \in DOMAIN orders'.rows : ListProductsForOrder(id)'.ids # {}]_catalogVars
  <2> SUFFICES ASSUME CatalogInv, ResetCatalog
               PROVE  /\ CoreIsSeed'
                      /\ DOMAIN posts' = UNION {ListPostsForUser(id)'.ids : id \in DOMAIN users'.rows}
                      /\ \A i, j \in DOMAIN users'.rows :
                           Cardinality(ListPostsForUser(i)'.ids)
                             <= Cardinality(ListPostsForUser(j)'.ids) + 1
                      /\ DOMAIN reviews'.rows
                           = UNION {ListReviewsForProduct(id)'.ids : id \in 1 .. ReviewedProductCount}
                      /\ DOMAIN reviews'.rows = UNION {ListReviewsByRating(r)'.ids : r \in 1 .. 5}
                      /\ \A id \in DOMAIN orders'.rows : ListProductsForOrder(id)'.ids # {}
    OBVIOUS
  <2>1. drawn \in Nat /\ ResetDataStores
    BY DEF CatalogInv, ResetCatalog
  <2> QED BY <2>1, SeededCore, PostsRebuilt, ReviewsRebuilt, OrdersRebuilt
<1> QED BY <1>1, CatalogInvariance, PTL DEF CatalogSpec, ResetRebuildsCatalog

=============================================================================
