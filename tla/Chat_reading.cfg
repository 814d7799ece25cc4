SPECIFICATION Spec
CONSTANTS
  ann = ann
  bob = bob
  root = root
  phone = phone
  desk = desk
  Customers = {ann}
  Admins = {root}
  Conversations = {c1}
  Messages = {1, 2}
  Keys = {k1}
  Bodies = {hello}
  Clients = {r1}
  Apps = {phone}
  Owner <- MCOwner
  PageLimit = 1
  Micros = 2
  MaxTime = 1
  MaxRestarts = 1
  None = None
SYMMETRY Interchangeable
INVARIANTS NoGap HistoryComplete
