\* One or two rows of each queue, two cycles of each, one or two faults.
SPECIFICATION QueuesSpec
CONSTANTS
  Endpoint = {p1}  WebhookEvent = {e1}  Wants <- MCWants
  WebhookCycle = {c1, c2}  WebhookMaximum = 2  MaxWebhookFaults = 2
  Entity = {x1}  Content = {v1, v2}  Refresh = {r1, r2}  Unlisted = Unlisted
  SearchDocument = {d1}  MaxOperations = 2
  PublisherCycle = {b1, b2}  SearchMaximum = 2  MaxSearchFaults = 2
  ExportJob = {j1, j2}  ExportCycle = {w1, w2}  ExportMaximum = 2  MaxExportFaults = 1
INVARIANT ExportEvidenceOnce
PROPERTY WebhooksImplementContract
PROPERTY WebhooksSettle
PROPERTY ProjectionCatchesUp
PROPERTY SearchImplementsContract
PROPERTY OperationsSettleOrStrand
PROPERTY ExportsImplementContract
PROPERTY ExportsSettle
CHECK_DEADLOCK FALSE
