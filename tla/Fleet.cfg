SPECIFICATION FleetSpec
CONSTANTS
    k1 = k1  n1 = n1  n2 = n2  w1 = w1  w2 = w2  acc1 = acc1  acc2 = acc2  extra1 = extra1  port1 = port1  f = f  g = g
    i1 = i1  o1 = o1  d1 = d1  d2 = d2  m1 = m1  m2 = m2
    x1 = x1  x2 = x2  l1 = l1  l2 = l2
    NoChecker = NoChecker
    Phones = {n1, n2}
    Checkers = {k1}
    Workers = {w1, w2}
    MinBatch = 2
    MaxBad = 2
    Accounts = {acc1, acc2}
    Extra = {extra1}
    Ports = {port1}
    Own = Own
    None = None
    Files = {f, g}
    Holder <- OneHolder
    MaxOps = 2
    MaxFaults = 1
    NumJobs = 2
    Importers = {i1}
    Flows = {o1}
    NumDocs = 2
    KbWorkers = {d1, d2}
    MaxKbOps = 4
    MaxKbFaults = 1
    Members = {m1, m2}
    NobodyYet = NobodyYet
    MaxSessions = 2
    TargetMessages = 2
    MaxWarmOps = 2
    MaxWarmFaults = 1
    Addrs = {x1, x2}
    NoAddr = NoAddr
    Loops = {l1, l2}
    NoLoop = NoLoop
    MaxSwitches = 1
    MaxDrops = 1
SYMMETRY ImportSymmetry
CHECK_DEADLOCK FALSE
INVARIANTS FleetTypeOK OneCheckPerContact NoThrottledVerdict PoisonIsPurged
    OneAccountPerPort ProgressIsExact CancelIsFinal CountIsRows TurnsAreDeliveries
    RemovedIsLeftAlone
PROPERTIES ImportAddsStrangers SendsFromOneAddress
