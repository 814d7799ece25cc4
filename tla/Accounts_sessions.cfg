SPECIFICATION Spec
CONSTANTS
  Users = {u1}
  Passwords = {p1, p2}
  Tokens = {k1, k2, k3}
  Sessions = {s1}
  Clients = {c1, c2}
  MaxVersion = 2
  None = None
SYMMETRY Interchangeable
INVARIANTS TypeOK OnlyCurrentPassword SpentOnce PendingUntilRedeemed
PROPERTIES RefusedForGood
