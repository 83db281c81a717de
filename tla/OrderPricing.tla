----------------------------- MODULE OrderPricing -----------------------------
(***************************************************************************)
(* What the total of an order means.  The steps are those of CoreResources; *)
(* a history variable remembers what the catalogue said an order's items    *)
(* cost when a request (or the seeder) last gave them.  Nothing reads it.   *)
(***************************************************************************)
EXTENDS CoreResources

VARIABLE quoted      \* the id of each stored order -> what its items cost then

pricingVars == <<vars, quoted>>

\* What the catalogue asks for the items of every order of a store, now.
Quotes(orderRows, productRows) ==
  [id \in DOMAIN orderRows |-> CatalogueCost(productRows, orderRows[id].items)]

PricingInit == Init /\ quoted = Quotes(orders.rows, products.rows)

OrderPlaced(customerId, items) ==
  /\ CreateOrder(customerId, items)
  /\ quoted' = Put(quoted, orders.next, CatalogueCost(products.rows, items))

\* PUT, and PATCH with items.
ItemsGiven(id, customerId, items) ==
  /\ items # Absent
  /\ WriteOrder(id, customerId, items)
  /\ quoted' = Update(quoted, id, CatalogueCost(products.rows, items))

\* PATCH without items.
ItemsLeft(id, customerId) == WriteOrder(id, customerId, Absent) /\ UNCHANGED quoted

OrderWithdrawn(id) == DeleteOrder(id) /\ quoted' = Drop(quoted, id)

OrderRefused ==
  /\ UNCHANGED quoted
  /\ \/ \E b \in Orderable : CreateOrderRefused(b.customerId, b.items)
     \/ \E id \in OrderIds, b \in OrderPatch : PatchOrderRefused(id, b.customerId, b.items)
     \/ \E id \in OrderIds, b \in Orderable : ReplaceOrderRefused(id, b.customerId, b.items)

PricedOrderRequest ==
  \/ \E b \in Orderable : OrderPlaced(b.customerId, b.items)
  \/ \E id \in OrderIds, b \in OrderPatch : ItemsGiven(id, b.customerId, b.items)
  \/ \E id \in OrderIds, customerId \in CustomerIds \cup {Absent} : ItemsLeft(id, customerId)
  \/ \E id \in OrderIds : OrderWithdrawn(id)
  \/ OrderRefused

\* Whatever happens to users, customers and products.
OtherRequest ==
  /\ UserRequest \/ CustomerRequest \/ ProductRequest \/ NotFound \/ MalformedBody
  /\ UNCHANGED quoted

OrdersReseeded ==
  /\ ResetDataStores
  /\ quoted' = Quotes(SeededOrders.rows, SeededProducts.rows)

PricingNext == PricedOrderRequest \/ OtherRequest \/ OrdersReseeded

PricingSpec == PricingInit /\ [][PricingNext]_pricingVars

-----------------------------------------------------------------------------
\* An order costs what the catalogue asked for its items when a request last gave them: no
\* later change or deletion of a product, write of another order, or PATCH that leaves the items
\* out reprices it, and every request that gives items does (resolveItemsAndTotal, patchOrder).
PricedWhenWritten ==
  /\ DOMAIN quoted = DOMAIN orders.rows
  /\ \A id \in DOMAIN orders.rows : orders.rows[id].total = quoted[id]
=============================================================================
