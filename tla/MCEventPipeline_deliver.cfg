SPECIFICATION FairSpec
CONSTANTS
  Events <- OneEvent
  Runs <- TwoRuns
  Impact <- WideImpact
  CreatedBy <- WideCreatedBy
  ProjectionEvents = {1}
  AvailabilityEvents = {1}
  Relays = {w1, w2}
  Consumers = {c1, c2}
  Admins = {}
  Readers = {}
  Apis = {api1}
  NoWorker = NoWorker
  MaxAttempts = 2
  RelayBatch = 2
  ConsumerBatch = 1
  MaxDeliveries = 2
  Built = FALSE
  PageLimit = 1
  MaxFaults = 2
  MaxCommands = 0
  MaxRequests = 0
INVARIANTS ReceiptMeansApplied NoEventLost
PROPERTIES EventsFinish
CHECK_DEADLOCK FALSE
