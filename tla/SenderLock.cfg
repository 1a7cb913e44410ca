SPECIFICATION Spec
CONSTANTS
    c1 = c1  c2 = c2  s1 = s1  s2 = s2  r1 = r1  r2 = r2
    Campaigns = {c1, c2}
    Senders = {s1, s2}
    Requests = {r1, r2}
    NoCampaign = NoCampaign
    NoSender = NoSender
    MaxIssued = 2
    MaxOpen = 2
SYMMETRY LifecycleSymmetry
CHECK_DEADLOCK FALSE
INVARIANT SendersAreLocked
