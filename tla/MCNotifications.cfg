SPECIFICATION FairSpec
CONSTANTS
    i1 = i1
    r1 = r1
    r2 = r2
    f1 = f1
    w1 = w1
    smtp = smtp
    NoOwner = NoOwner
    NoDelivery = NoDelivery
    NoFeedback = NoFeedback
    email = email
    sms = sms
    Intent = {i1}
    Channel = {email, sms}
    DigestChannel = {email}
    ProviderOf <- OwnProvider
    NoTemplate = {i1}
    Runner = {r1, r2}
    WorkerId = {w1}
    InstanceOf <- SameInstance
    FeedbackId = {f1}
    FeedbackType = {"bounce", "deferred"}
    MaximumAttempts = 2
    MaxReopens = 1
    MaxFaults = 1
INVARIANT ClosedIntentsAreQuiet
INVARIANT OneSender
INVARIANT AttemptBudget
PROPERTY SuppressedStaysUnsent
PROPERTY IntentsSettle
