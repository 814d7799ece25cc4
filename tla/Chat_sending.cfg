SPECIFICATION Spec
CONSTANTS
  ann = ann
  bob = bob
  root = root
  phone = phone
  desk = desk
  Customers = {ann, bob}
  Admins = {root}
  Conversations = {c1, c2}
  Messages = {1, 2}
  Keys = {k1}
  Bodies = {hello, bye}
  Clients = {r1, r2}
  Apps = {}
  Owner <- MCOwner
  PageLimit = 1
  Micros = 2
  MaxTime = 1
  MaxRestarts = 1
  None = None
SYMMETRY Senders
INVARIANTS TypeOK AnswersMatch
PROPERTIES ClosedTakesNothing
