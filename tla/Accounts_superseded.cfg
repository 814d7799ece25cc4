SPECIFICATION Spec
CONSTANTS
  Users = {u1}
  Passwords = {p1, p2}
  Tokens = {k1, k2, k3}
  Sessions = {s1}
  Clients = {c1}
  MaxVersion = 1
  None = None
INVARIANTS NoDeadLink
