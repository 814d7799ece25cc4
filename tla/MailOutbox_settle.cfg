SPECIFICATION FairSpec
CONSTANTS
  Notifications = {n1, n2}
  Instances = {i1}
  MaxAttempts = 2
  BatchSize = 1
  MaxFaults = 1
  NoJob = NoJob
  Waiting = Waiting
PROPERTIES EverySettled
