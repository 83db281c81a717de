\* Users, their links, posts and comments; one product, no orders; resets of everything.
CONSTANTS
  UserCount = 1
  CustomerCount = 2
  ProductCount = 1
  OrderCount = 1
  LinkEvery = 1
  Emails = {1, 2}
  Prices = {}
  ItemLists = {}
  NoUser = NoUser
  Absent = Absent
  MaxUser = 2
  MaxCustomer = 2
  MaxProduct = 1
  MaxOrder = 1
  PostCount = 1
  CommentCount = 1
  ReviewCount = 2
  ReviewedProductCount = 1
  MaxDrawn = 3
  MaxComment = 2
SPECIFICATION CatalogSpec
INVARIANTS CatalogTypeOK EmailsUnique ThreadsAddUp
PROPERTIES DanglingIsFinal NobodyInherits ResetRebuildsCatalog
