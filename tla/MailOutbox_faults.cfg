SPECIFICATION Spec
CONSTANTS
  Notifications = {n1}
  Instances = {i1, i2}
  MaxAttempts = 3
  BatchSize = 1
  MaxFaults = 3
  NoJob = NoJob
  Waiting = Waiting
SYMMETRY InstanceSymmetry
INVARIANTS TypeOK WithinBudget OutcomeTrue OnceUnlessFaults
PROPERTIES OutcomeFinal
