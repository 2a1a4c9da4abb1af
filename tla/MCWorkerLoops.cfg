\* One delivery with its replays, one job over two times, two items in two batches.
SPECIFICATION LoopsSpec
CONSTANTS
  Consumer = {c1}  Event = {e1}  Subscription <- AllSubscribed
  Runner = {r1, r2}  w1 = w1  WorkerId = {w1}  InstanceOf <- SameInstance
  Key = {k1}  MaximumAttempts = 2  BatchSize = 2  MaxReplay = 2  MaxFaults = 1
  NoOwner = NoOwner  NoDelivery = NoDelivery  NoRequest = NoRequest
  AllConsumers = AllConsumers
  Job = {j1}  Worker = {w1, w2}  RunMaximum = 2  MaxTime = 1  MaxRunFaults = 2
  NoWorker = NoWorker
  Item = {i1, i2}  Batch = {b1, b2}  Preparer = {p1, p2}  Deliverer = {r1}
  DigestMaximum = 2  MaxDigestFaults = 1
INVARIANT AttemptsMatchEvidence
INVARIANT OneLiveAttempt
INVARIANT NoItemLost
INVARIANT DigestSendBudget
PROPERTY BatchesSettleOrStrand
PROPERTY InboxImplementsContract
PROPERTY DeliveriesSettle
PROPERTY SchedulerImplementsContract
PROPERTY RunsSettle
CHECK_DEADLOCK FALSE
