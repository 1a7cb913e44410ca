CONSTANTS
    t1 = t1  t2 = t2  t3 = t3
    NumMsgs = 2
    Tasks = {t1, t2}
    NoTask = NoTask
    MaxPings = 1
    MaxActs = 1
    MaxFaults = 1
SPECIFICATION Spec
INVARIANTS DialogTypeOK BufferIsScheduled OneAnswerAtATime AnswersOnlyItsOwn NothingForgotten
PROPERTIES OutcomeStays DismissRestores
CHECK_DEADLOCK FALSE
