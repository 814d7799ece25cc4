SPECIFICATION Spec
CONSTANTS
  c1 = c1
  c2 = c2
  c3 = c3
  k1 = k1
  k2 = k2
  p1 = p1
  s0 = s0
  None = None
  Processes = {c1, c2, c3}
  Casts <- MCCasts
  Slugs = {"a", "b", "demo"}
  Skus = {"x", "y", "demo"}
  Names = {"ann", "bob", "demo"}
  Titles = {"n"}
  Emails = {"u1", "u2", "demo@"}
  FirstCategories <- MCCategories
  FirstProducts <- MCProducts
  FirstUsers <- MCUsers
  FirstSuggestions <- MCSuggestions
  DemoCategories = {"b", "demo"}
  DemoUsers <- MCDemoUsers
  DemoProducts <- MCDemoProducts
  Purchases <- MCPurchases
INVARIANTS TypeOK OneVerdict RefusedLeavesNothing HiddenTakesNothing DuplicatesOverlap SeedFailsOnlyInRace
