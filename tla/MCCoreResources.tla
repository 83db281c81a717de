--------------------------- MODULE MCCoreResources ---------------------------
(* The core resources on a small instance. *)
EXTENDS OrderPricing

Item(p, q) == [productId |-> p, quantity |-> q]

\* One item, and two items of different products.
SmallOrders == {<<Item(1, 1)>>, <<Item(2, 1), Item(1, 2)>>}
=============================================================================
