\* Two clerks and two authors: three learners for one place, two lessons.
SPECIFICATION RecordsSpec
CONSTANTS
  Moving = {"enrolment", "studio"}
  Keeper = {k1}  RenditionJob = {}  MediaCycle = {}  MediaMaximum = 1
  ScanRequired = TRUE  AccessRequired = TRUE  MaxMediaFaults = 0
  Learner = {a, b, l3}  Run = {r1}  Offering = {}  Clerk = {a, b}
  OfferingRun <- MCOfferingRun  RunCapacity <- MCRunCapacity
  OfferingCapacity <- MCOfferingCapacity  WaitlistEnabled = {}  MaxEnrolments = 3
  Lesson = {s1, s2}  Author = {a, b}  MaxRevisions = 2  MaxSnapshots = 2
  Officer = {f1}  Role = {"first"}  MaxAttempts = 0  MaxExtra = 0  MaxFiles = 0
  MaxMarks = 0  MaxResults = 0  MaxCertificates = 0
  Person = {h1}  Child = {}  Link = {}  Profile = {}  MaxMerges = 0
  Member = {e1}  e1 = e1  Founder = e1  AccessRequest = {}  Grants = {}
  Hold = {}  Limited = {}  Desk = {}
  Version = {}  NoVersion = none  Migrated = {}  Operator = {}  MaxTargets = 0  MaxDate = 0
  Ends = {FALSE}
SYMMETRY MCSymmetry
INVARIANT OverbookingBounded
INVARIANT SnapshotsApproved
INVARIANT PublishedAsSeen
CHECK_DEADLOCK FALSE
