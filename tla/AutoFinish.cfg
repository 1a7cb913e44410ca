CONSTANTS
    t1 = t1  t2 = t2  t3 = t3
    NumMsgs = 1
    Tasks = {t1, t2}
    NoTask = NoTask
    MaxPings = 1
    MaxActs = 0
    MaxFaults = 0
SPECIFICATION Spec
PROPERTIES AutoFinishSparesReplies
CHECK_DEADLOCK FALSE
