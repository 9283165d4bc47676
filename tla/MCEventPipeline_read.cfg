SPECIFICATION Spec
CONSTANTS
  Events <- OneEvent
  Runs <- OneRun
  Impact <- OneImpact
  CreatedBy <- OneCreatedBy
  ProjectionEvents = {1}
  AvailabilityEvents = {1}
  Relays = {w1}
  Consumers = {c1}
  Admins = {}
  Readers = {q1, q2}
  Apis = {api1, api2}
  NoWorker = NoWorker
  MaxAttempts = 2
  RelayBatch = 2
  ConsumerBatch = 1
  MaxDeliveries = 2
  Built = TRUE
  PageLimit = 2
  MaxFaults = 0
  MaxCommands = 0
  MaxRequests = 3
SYMMETRY ReadSymmetry
INVARIANTS CacheEntriesFresh AnswersFresh
CHECK_DEADLOCK FALSE
