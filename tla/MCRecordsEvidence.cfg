\* Two of everybody but one clerk, one place with a waitlist, two merges of three people.
SPECIFICATION RecordsSpec
CONSTANTS
  Moving = {"media", "enrolment", "assessment", "people", "owners",
            "retention", "releases"}
  Keeper = {a, b}  RenditionJob = {}  MediaCycle = {m1}  MediaMaximum = 2
  ScanRequired = TRUE  AccessRequired = TRUE  MaxMediaFaults = 1
  Learner = {a, b}  Run = {r1}  Offering = {o1}  Clerk = {c1}
  OfferingRun <- MCOfferingRun  RunCapacity <- MCRunCapacity
  OfferingCapacity <- MCOfferingCapacity  WaitlistEnabled = {o1}  MaxEnrolments = 3
  Lesson = {s1}  Author = {a, b}  MaxRevisions = 0  MaxSnapshots = 0
  Officer = {a, b}  Role = {"first"}  MaxAttempts = 1  MaxExtra = 1  MaxFiles = 1
  MaxMarks = 2  MaxResults = 2  MaxCertificates = 1
  Person = {a, b, h3}  Child = {k1}  Link = {"link"}  Profile = {"learner"}  MaxMerges = 2
  Member = {e1, e2}  e1 = e1  Founder = e1  AccessRequest = {a, b}  Grants = {"held", "limited"}
  Hold = {w1, w2}  Limited = {w2}  Desk = {a, b}
  Version = {v1, v2}  NoVersion = none  Migrated = {v1, v2}  Operator = {a, b}  MaxTargets = 2  MaxDate = 1
  Ends = {TRUE}
SYMMETRY MCSymmetry
INVARIANT ReadyIsEvidenced
INVARIANT DeletionApproved
INVARIANT SubmittedIsWhole
INVARIANT ResultsOneChain
INVARIANT MergedOwnsNothing
INVARIANT ChainsEndAlive
INVARIANT RingShowsWhatRuns
PROPERTY EndedEnrolmentsStay
PROPERTY LastOwnerLeaves
PROPERTY HoldsDecideDeletions
CHECK_DEADLOCK FALSE
