\* Customers, products and orders; one user.
CONSTANTS
  UserCount = 0
  CustomerCount = 1
  ProductCount = 1
  OrderCount = 1
  LinkEvery = 3
  Emails = {1, 2}
  Prices = {2000}
  ItemLists <- SmallOrders
  NoUser = NoUser
  Absent = Absent
  MaxUser = 1
  MaxCustomer = 2
  MaxProduct = 2
  MaxOrder = 2
SPECIFICATION PricingSpec
INVARIANT PricedWhenWritten
PROPERTY GoneStaysGone
