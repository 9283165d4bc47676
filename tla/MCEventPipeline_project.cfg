SPECIFICATION Spec
CONSTANTS
  Events <- TwoEvents
  Runs <- TwoRuns
  Impact <- GrowingImpact
  CreatedBy <- GrowingCreatedBy
  ProjectionEvents = {1, 2}
  AvailabilityEvents = {1}
  Relays = {w1}
  Consumers = {c1}
  Admins = {adm1, adm2}
  Readers = {}
  Apis = {api1}
  NoWorker = NoWorker
  MaxAttempts = 2
  RelayBatch = 2
  ConsumerBatch = 1
  MaxDeliveries = 2
  Built = FALSE
  PageLimit = 1
  MaxFaults = 0
  MaxCommands = 3
  MaxRequests = 0
SYMMETRY AdminSymmetry
INVARIANTS ProjectionCurrent
CHECK_DEADLOCK FALSE
