SPECIFICATION Spec
CONSTANTS
  ann = ann
  bob = bob
  root = root
  k1 = k1
  k2 = k2
  h1 = h1
  h2 = h2
  Users = {ann, bob}
  Admins = {root}
  Products = {1, 2, 3}
  Categories = {1, 2}
  OrderIds = {1, 2, 3, 4}
  Keys = {k1, k2}
  Hashes = {h1, h2}
  Prices = {1, 2}
  MaxQuantity = 2
  MaxCartLines = 2
  Null = Null
  Omitted = Omitted
  Conns = {c1, c2, c3}
  Requests <- SellingRequests
  CategoryPatches <- MCCategoryPatches
  ProductPatches <- MCProductPatches
  InitialProducts <- MCInitialProducts
  InitialCarts <- FullCarts
  MaxRequests = 4
SYMMETRY ConnSymmetry
INVARIANTS TypeOK ReadsStillTrue AnswersAgree
