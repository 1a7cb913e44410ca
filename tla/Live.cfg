SPECIFICATION LiveSpec
CONSTANTS
    c1 = c1  c2 = c2  p1 = p1  p2 = p2  s1 = s1  s2 = s2  s3 = s3
    Campaigns = {c1}
    Contacts = {p1}
    Senders = {s1, s2}
    NoSender = NoSender
    NoCampaign = NoCampaign
    Pool <- OnePool
    FileCampaigns = {}
    MaxAttempts = 1
    ResolveRotationCap = 2
    ColdFailReleaseCap = 2
    MaxRows = 1
    Budget <- BudgetLive

    t1 = t1  t2 = t2
    NumMsgs = 2
    Tasks = {t1, t2}
    NoTask = NoTask
    MaxPings = 1
    MaxActs = 0
    MaxFaults = 0
CHECK_DEADLOCK FALSE
PROPERTIES HeldRowSettles StrandedIsEvacuated MessageIsAnswered
