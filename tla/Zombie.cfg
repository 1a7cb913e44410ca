SPECIFICATION Spec
CONSTANTS
    c1 = c1  c2 = c2  p1 = p1  p2 = p2  s1 = s1  s2 = s2  s3 = s3
    Campaigns = {c1}
    Contacts = {p1}
    Senders = {s1, s2}
    NoSender = NoSender
    NoCampaign = NoCampaign
    Pool <- OnePool
    FileCampaigns = {}
    MaxAttempts = 2
    ResolveRotationCap = 2
    ColdFailReleaseCap = 2
    MaxRows = 2
    Budget <- BudgetClaims

CHECK_DEADLOCK FALSE
INVARIANT NoPendingAfterFinish
