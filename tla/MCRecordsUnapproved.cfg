\* Two lessons and two authors; what a rollback leaves published.
SPECIFICATION RecordsSpec
CONSTANTS
  Moving = {"studio"}
  Keeper = {a}  RenditionJob = {}  MediaCycle = {}  MediaMaximum = 1
  ScanRequired = TRUE  AccessRequired = TRUE  MaxMediaFaults = 0
  Learner = {l1}  Run = {r1}  Offering = {o1}  Clerk = {c1}
  OfferingRun <- MCOfferingRun  RunCapacity <- MCRunCapacity
  OfferingCapacity <- MCOfferingCapacity  WaitlistEnabled = {o1}  MaxEnrolments = 0
  Lesson = {s1, s2}  Author = {u1, u2}  MaxRevisions = 2  MaxSnapshots = 3
  Officer = {f1}  Role = {"first"}  MaxAttempts = 0  MaxExtra = 0  MaxFiles = 0
  MaxMarks = 0  MaxResults = 0  MaxCertificates = 0
  Person = {h1}  Child = {}  Link = {}  Profile = {}  MaxMerges = 0
  Member = {e1}  e1 = e1  Founder = e1  AccessRequest = {}  Grants = {}
  Hold = {}  Limited = {}  Desk = {}
  Version = {}  NoVersion = none  Migrated = {}  Operator = {}  MaxTargets = 0  MaxDate = 0
  Ends = {FALSE}
SYMMETRY MCSymmetry
INVARIANT PublishedLessonApproved
CHECK_DEADLOCK FALSE
