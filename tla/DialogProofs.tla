---------------------------- MODULE DialogProofs ----------------------------
(***************************************************************************)
(* Proofs about Dialog, for any number of messages, tasks, pings, requests *)
(* and faults: no buffered message without somebody to pop it, one answer  *)
(* at a time, answers to what was the AI's only, nothing forgotten,        *)
(* decided statuses and dismissed leads.                                   *)
(***************************************************************************)
EXTENDS Dialog, FiniteSetTheorems, TLAPS

HandlerRow == [pc: {"unsent", "read", "saved", "buffered", "wait", "done"}, ai: BOOLEAN, st: Status]
JobRow == [pc: {"none", "timer", "gen", "hold", "sent"}, msgs: SUBSET Msgs, hist: SUBSET Msgs]
FuRow == [pc: {"idle", "picked", "composing"}, st: Open, pings: 0..MaxPings,
          locked: BOOLEAN, answered: BOOLEAN]

\* The memory of the listener, with what it relates to; and the dialog's row, with the
\* work of follow-up worker and manager on it.
MemoryType ==
    /\ saved \subseteq Msgs /\ buffer \subseteq saved /\ covered \subseteq saved
    /\ handler \in [Msgs -> HandlerRow] /\ ctx \in BOOLEAN
    /\ job \in [Tasks -> JobRow]
    /\ tracked \in Tasks \cup {NoTask} /\ (tracked # NoTask => job[tracked].pc # "none")
    /\ raced \subseteq {"popped", "direct", "double", "restart"}

RowType ==
    /\ kind \in {"person", "bot"} /\ conv \in Conversation
    /\ lastBy \in {"ai", "contact", "human"} /\ ping \in {"none", "pending", "answered"}
    /\ fu \in FuRow /\ ui \in {"idle", "sending"}
    /\ acts \in 0..MaxActs /\ faults \in 0..MaxFaults /\ origin \in Status \cup {"unknown"}

-----------------------------------------------------------------------------
(* The inductive invariant.                                                 *)

\* A message that came so far is in its table, and so is what a task has read there.
Stored ==
    /\ \A m \in Msgs : /\ handler[m].pc \in {"saved", "buffered", "wait"} => m \in saved
                       /\ handler[m].pc = "done" /\ handler[m].ai => m \in saved \/ "restart" \in raced
                       /\ handler[m].pc = "unsent" => ~handler[m].ai
    /\ \A t \in Tasks : /\ job[t].hist \subseteq saved
                        /\ job[t].pc \in {"hold", "sent"} => job[t].hist \subseteq covered

\* A task is started by a handler that ends with it, so tasks do not run out.
Busy == {t \in Tasks : job[t].pc # "none"}
Ended == {m \in Msgs : handler[m].pc = "done"}
TasksSuffice == Cardinality(Busy) <= Cardinality(Ended)

\* What waits for an answer, or gets one, passed the gate.
Passed(m) == handler[m].ai /\ handler[m].st = "active" /\ handler[m].pc \in {"buffered", "wait", "done"}
OnlyPassed ==
    /\ \A m \in buffer : Passed(m)
    /\ \A t \in Tasks : \A m \in job[t].msgs : Passed(m)

\* A buffer without a context is one whose messages have yet to be scheduled.
ContextStands == ~ctx => \A m \in buffer : handler[m].pc = "buffered"

\* The task a new message would cancel is the only one.
OneTask == raced \cap {"direct", "double"} = {} => \A t \in Busy : t = tracked

\* A message that is about to schedule is in the buffer.
Waiting ==
    raced \cap {"popped", "restart"} = {} =>
        \A m \in Msgs : handler[m].pc = "buffered" => m \in buffer

MemoryIInv ==
    /\ MemoryType /\ Stored /\ TasksSuffice /\ OnlyPassed /\ ContextStands
    /\ BufferIsScheduled /\ OneTask /\ Waiting /\ NothingForgotten

\* While one mark is open the row holds the status it had.
MarkStands ==
    origin # "unknown" => /\ conv.status = "lead_pending" /\ conv.pre = origin
                          /\ origin # "lead_pending"

\* A tick at work knows how many pings have gone out, and composes one that is left.
TickKnows ==
    /\ fu.pc # "idle" => fu.pings = conv.pings
    /\ fu.pc = "composing" => fu.pings < MaxPings

RowIInv == RowType /\ MarkStands /\ TickKnows

MemoryParts == <<saved, covered, raced, handler, buffer, ctx, job, tracked>>

LEMMA MemoryRests == MemoryIInv /\ UNCHANGED MemoryParts => MemoryIInv'
<1>. SUFFICES ASSUME MemoryIInv, UNCHANGED MemoryParts PROVE MemoryIInv'
    OBVIOUS
<1>. USE DEF MemoryParts
<1>1. MemoryType' /\ Stored'
    BY DEF MemoryIInv, MemoryType, Stored
<1>2. TasksSuffice'
    BY DEF MemoryIInv, TasksSuffice, Busy, Ended
<1>3. OnlyPassed' /\ ContextStands'
    BY DEF MemoryIInv, OnlyPassed, Passed, ContextStands
<1>4. BufferIsScheduled' /\ OneTask' /\ Waiting'
    BY DEF MemoryIInv, BufferIsScheduled, OneTask, Waiting, Busy
<1>5. NothingForgotten'
    BY DEF MemoryIInv, NothingForgotten, Unanswered, Answering
<1>. QED BY <1>1, <1>2, <1>3, <1>4, <1>5 DEF MemoryIInv

-----------------------------------------------------------------------------
(* Tasks do not run out.                                                    *)

LEMMA MsgsFinite == IsFiniteSet(Msgs) /\ Cardinality(Msgs) = NumMsgs
<1>1. NumMsgs \in Nat
    BY DialogCounts
<1>2. IsFiniteSet(1..NumMsgs) /\ Cardinality(1..NumMsgs) = IF 1 > NumMsgs THEN 0 ELSE NumMsgs - 1 + 1
    BY <1>1, FS_Interval
<1>. QED BY <1>1, <1>2 DEF Msgs

LEMMA Counts ==
    /\ IsFiniteSet(Busy) /\ IsFiniteSet(Ended) /\ IsFiniteSet(Busy') /\ IsFiniteSet(Ended')
    /\ Cardinality(Busy) \in Nat /\ Cardinality(Ended) \in Nat
    /\ Cardinality(Busy') \in Nat /\ Cardinality(Ended') \in Nat
<1>1. Busy \subseteq Tasks /\ Busy' \subseteq Tasks /\ Ended \subseteq Msgs /\ Ended' \subseteq Msgs
    BY DEF Busy, Ended
<1>2. IsFiniteSet(Busy) /\ IsFiniteSet(Ended) /\ IsFiniteSet(Busy') /\ IsFiniteSet(Ended')
    BY <1>1, MsgsFinite, EnoughTasks, FS_Subset
<1>. QED BY <1>2, FS_CardinalityType

LEMMA NoMoreTasks ==
    ASSUME TasksSuffice, Busy' \subseteq Busy, Ended \subseteq Ended'
    PROVE  TasksSuffice'
<1>1. Cardinality(Busy') <= Cardinality(Busy) /\ Cardinality(Ended) <= Cardinality(Ended')
    BY Counts, FS_Subset
<1>. QED BY <1>1, Counts DEF TasksSuffice

LEMMA OneMoreTask ==
    ASSUME TasksSuffice, NEW t, NEW m \in Msgs \ Ended, Busy' \subseteq Busy \cup {t},
           Ended' = Ended \cup {m}
    PROVE  TasksSuffice'
<1>1. Cardinality(Ended') = Cardinality(Ended) + 1
    BY Counts, FS_AddElement
<1>2. IsFiniteSet(Busy \cup {t}) /\ Cardinality(Busy \cup {t}) <= Cardinality(Busy) + 1
  <2>1. Cardinality(Busy \cup {t}) = IF t \in Busy THEN Cardinality(Busy) ELSE Cardinality(Busy) + 1
      BY Counts, FS_AddElement
  <2>2. IsFiniteSet(Busy \cup {t})
      BY Counts, FS_AddElement
  <2>. QED BY <2>1, <2>2, Counts
<1>3. Cardinality(Busy') <= Cardinality(Busy \cup {t})
    BY <1>2, FS_Subset
<1>4. Cardinality(Busy \cup {t}) \in Nat
    BY <1>2, FS_CardinalityType
<1>. QED BY <1>1, <1>2, <1>3, <1>4, Counts DEF TasksSuffice

\* The task a handler starts, which the code creates and the model chooses.
Spare == CHOOSE x \in Tasks : job[x].pc = "none"

LEMMA SpareTask ==
    ASSUME TasksSuffice, NEW m \in Msgs \ Ended
    PROVE  Spare \in Tasks /\ job[Spare].pc = "none"
<1>1. Cardinality(Ended) < Cardinality(Msgs)
  <2>1. Cardinality(Ended) <= Cardinality(Msgs) /\ Cardinality(Ended) # Cardinality(Msgs)
    <3>1. Ended \subseteq Msgs /\ Ended # Msgs
        BY DEF Ended
    <3>. QED BY <3>1, MsgsFinite, FS_Subset
  <2>. QED BY <2>1, Counts, MsgsFinite, DialogCounts
<1>2. Busy # Tasks
  <2>1. SUFFICES ASSUME Busy = Tasks PROVE FALSE
      OBVIOUS
  <2>2. Cardinality(Tasks) \in Nat
      BY EnoughTasks, FS_CardinalityType
  <2>. QED BY <1>1, <2>1, <2>2, Counts, MsgsFinite, EnoughTasks, DialogCounts DEF TasksSuffice
<1>3. \E x \in Tasks : job[x].pc = "none"
    BY <1>2 DEF Busy
<1>. QED BY <1>3 DEF Spare

-----------------------------------------------------------------------------
(* Steps of a handler before it schedules.                                  *)

LEMMA HandlerMoves ==
    ASSUME MemoryIInv, NEW m \in Msgs, NEW x \in HandlerRow,
           handler[m].pc \in {"unsent", "read", "saved"},
           x.pc \in {"read", "saved", "done"}, x.pc = "done" => ~x.ai,
           handler' = [handler EXCEPT ![m] = x],
           saved' = saved \/ saved' = saved \cup {m},
           x.pc = "saved" => m \in saved',
           UNCHANGED <<covered, raced, buffer, ctx, job, tracked>>
    PROVE  MemoryIInv'
<1>1. handler' \in [Msgs -> HandlerRow] /\ handler'[m] = x
      /\ \A k \in Msgs \ {m} : handler'[k] = handler[k]
    BY DEF MemoryIInv, MemoryType
<1>2. saved \subseteq saved' /\ saved' \subseteq Msgs
    BY DEF MemoryIInv, MemoryType
<1>3. MemoryType'
    BY <1>1, <1>2 DEF MemoryIInv, MemoryType
<1>4. Stored'
  <2>1. \A k \in Msgs : /\ handler'[k].pc \in {"saved", "buffered", "wait"} => k \in saved'
                        /\ handler'[k].pc = "done" /\ handler'[k].ai => k \in saved' \/ "restart" \in raced'
                        /\ handler'[k].pc = "unsent" => ~handler'[k].ai
      BY <1>1, <1>2 DEF MemoryIInv, Stored
  <2>2. \A t \in Tasks : /\ job'[t].hist \subseteq saved'
                         /\ job'[t].pc \in {"hold", "sent"} => job'[t].hist \subseteq covered'
      BY <1>2 DEF MemoryIInv, Stored
  <2>. QED BY <2>1, <2>2 DEF Stored
<1>5. TasksSuffice'
  <2>1. Busy' \subseteq Busy /\ Ended \subseteq Ended'
      BY <1>1 DEF Busy, Ended
  <2>. QED BY <2>1, NoMoreTasks DEF MemoryIInv
<1>6. OnlyPassed' /\ ContextStands'
  <2>1. \A k \in Msgs : Passed(k) => k # m /\ Passed(k)'
      BY <1>1 DEF Passed
  <2>2. buffer \subseteq Msgs /\ \A t \in Tasks : job[t].msgs \subseteq Msgs
      BY DEF MemoryIInv, MemoryType, JobRow
  <2>3. OnlyPassed'
      BY <2>1, <2>2 DEF MemoryIInv, OnlyPassed
  <2>4. ContextStands'
      BY <1>1, <2>2 DEF MemoryIInv, ContextStands
  <2>. QED BY <2>3, <2>4
<1>7. BufferIsScheduled' /\ OneTask' /\ Waiting'
  <2>1. BufferIsScheduled'
      BY <1>1 DEF MemoryIInv, BufferIsScheduled
  <2>2. OneTask'
      BY DEF MemoryIInv, OneTask, Busy
  <2>3. Waiting'
      BY <1>1 DEF MemoryIInv, Waiting
  <2>. QED BY <2>1, <2>2, <2>3
<1>8. NothingForgotten'
  <2>1. Unanswered' \subseteq Unanswered /\ Answering' = Answering
      BY <1>1 DEF Unanswered, Answering
  <2>. QED BY <2>1 DEF MemoryIInv, NothingForgotten
<1>. QED BY <1>3, <1>4, <1>5, <1>6, <1>7, <1>8 DEF MemoryIInv

LEMMA GateOpen ==
    ASSUME MemoryIInv, NEW m \in Msgs, NEW x \in HandlerRow, handler[m].pc = "saved",
           x.pc = "buffered", x.ai, x.st = "active",
           handler' = [handler EXCEPT ![m] = x], buffer' = buffer \cup {m},
           UNCHANGED <<saved, covered, raced, ctx, job, tracked>>
    PROVE  MemoryIInv'
<1>1. handler' \in [Msgs -> HandlerRow] /\ handler'[m] = x
      /\ \A k \in Msgs \ {m} : handler'[k] = handler[k]
    BY DEF MemoryIInv, MemoryType
<1>2. m \in saved
    BY DEF MemoryIInv, Stored
<1>3. MemoryType'
    BY <1>1, <1>2 DEF MemoryIInv, MemoryType
<1>4. Stored'
    BY <1>1, <1>2 DEF MemoryIInv, Stored
<1>5. TasksSuffice'
  <2>1. Busy' \subseteq Busy /\ Ended \subseteq Ended'
      BY <1>1 DEF Busy, Ended
  <2>. QED BY <2>1, NoMoreTasks DEF MemoryIInv
<1>6. OnlyPassed' /\ ContextStands'
  <2>1. Passed(m)' /\ \A k \in Msgs : Passed(k) => Passed(k)'
      BY <1>1 DEF Passed
  <2>2. buffer \subseteq Msgs /\ \A t \in Tasks : job[t].msgs \subseteq Msgs
      BY DEF MemoryIInv, MemoryType, JobRow
  <2>3. OnlyPassed'
      BY <2>1, <2>2 DEF MemoryIInv, OnlyPassed
  <2>4. ContextStands'
      BY <1>1, <2>2 DEF MemoryIInv, ContextStands
  <2>. QED BY <2>3, <2>4
<1>7. BufferIsScheduled' /\ OneTask' /\ Waiting'
  <2>1. BufferIsScheduled'
      BY <1>1 DEF BufferIsScheduled
  <2>2. OneTask'
      BY DEF MemoryIInv, OneTask, Busy
  <2>3. Waiting'
      BY <1>1 DEF MemoryIInv, Waiting
  <2>. QED BY <2>1, <2>2, <2>3
<1>8. NothingForgotten'
    BY DEF NothingForgotten
<1>. QED BY <1>3, <1>4, <1>5, <1>6, <1>7, <1>8 DEF MemoryIInv

LEMMA GateKeepsMemory ==
    ASSUME MemoryIInv, RowType, NEW m \in Msgs, RevertAndGate(m)
    PROVE  MemoryIInv'
<1>0. /\ handler \in [Msgs -> HandlerRow] /\ handler[m].pc = "saved"
      /\ UNCHANGED <<saved, covered, raced, ctx, job, tracked>>
    BY DEF RevertAndGate, MemoryIInv, MemoryType
<1>1. PICK st \in Status :
         IF Answerable(m, st)
         THEN /\ buffer' = buffer \cup {m}
              /\ handler' = [handler EXCEPT ![m] = [@ EXCEPT !.pc = "buffered", !.st = st]]
         ELSE /\ handler' = [handler EXCEPT ![m] = NoHandler("done")]
              /\ UNCHANGED buffer
  <2>1. "active" \in Status /\ handler[m].st \in Status
      BY <1>0 DEF HandlerRow, Status, Open
  <2>. QED BY <2>1 DEF RevertAndGate
<1>2. CASE ~Answerable(m, st)
  <2>1. NoHandler("done") \in HandlerRow /\ NoHandler("done").pc = "done" /\ ~NoHandler("done").ai
      BY DEF NoHandler, HandlerRow, Status, Open
  <2>2. handler' = [handler EXCEPT ![m] = NoHandler("done")] /\ UNCHANGED buffer
      BY <1>1, <1>2
  <2>. QED BY <1>0, <2>1, <2>2, HandlerMoves
<1>3. CASE Answerable(m, st)
  <2>. DEFINE x == [handler[m] EXCEPT !.pc = "buffered", !.st = st]
  <2>1. x \in HandlerRow /\ x.pc = "buffered" /\ x.ai /\ x.st = "active"
      BY <1>0, <1>3 DEF HandlerRow, Answerable
  <2>2. buffer' = buffer \cup {m} /\ handler' = [handler EXCEPT ![m] = x]
      BY <1>1, <1>3
  <2>. HIDE DEF x
  <2>. QED BY <1>0, <2>1, <2>2, GateOpen
<1>. QED BY <1>2, <1>3

-----------------------------------------------------------------------------
(* Steps of a task that leave the handlers alone.                           *)

LEMMA NoJobRow == NoJob \in JobRow /\ NoJob.pc = "none" /\ NoJob.msgs = {} /\ NoJob.hist = {}
BY DEF NoJob, JobRow

\* A task ends, its answer generated or not taken on; or goes on.
LEMMA TaskMoves ==
    ASSUME MemoryIInv, NEW t \in Tasks, NEW x \in JobRow,
           job[t].pc \in {"gen", "hold", "sent"}, x.pc \in {"none", "hold", "sent"},
           x.msgs \subseteq job[t].msgs, x.hist \subseteq job[t].hist,
           covered' = covered \cup job[t].hist,
           job' = [job EXCEPT ![t] = x],
           tracked' = IF x.pc = "none" /\ tracked = t THEN NoTask ELSE tracked,
           UNCHANGED <<saved, raced, handler, buffer, ctx>>
    PROVE  MemoryIInv'
<1>1. job' \in [Tasks -> JobRow] /\ job'[t] = x /\ \A u \in Tasks \ {t} : job'[u] = job[u]
    BY DEF MemoryIInv, MemoryType
<1>2. covered \subseteq covered' /\ covered' \subseteq saved
    BY DEF MemoryIInv, MemoryType, Stored
<1>3. MemoryType'
  <2>1. tracked' # NoTask => tracked' \in Tasks /\ job'[tracked'].pc # "none"
      BY <1>1 DEF MemoryIInv, MemoryType
  <2>. QED BY <1>1, <1>2, <2>1 DEF MemoryIInv, MemoryType
<1>4. Stored'
  <2>1. \A u \in Tasks : /\ job'[u].hist \subseteq saved'
                         /\ job'[u].pc \in {"hold", "sent"} => job'[u].hist \subseteq covered'
      BY <1>1, <1>2 DEF MemoryIInv, Stored
  <2>. QED BY <2>1 DEF MemoryIInv, Stored
<1>5. Busy' \subseteq Busy
    BY <1>1 DEF Busy
<1>6. TasksSuffice'
    BY <1>5, NoMoreTasks DEF MemoryIInv, Ended
<1>7. OnlyPassed' /\ ContextStands' /\ Waiting'
    BY <1>1 DEF MemoryIInv, OnlyPassed, Passed, ContextStands, Waiting
<1>8. BufferIsScheduled'
    BY <1>1 DEF MemoryIInv, BufferIsScheduled
<1>9. OneTask'
  <2>1. \A u \in Busy' : u = tracked => u = tracked'
      BY <1>1 DEF Busy
  <2>. QED BY <1>5, <2>1 DEF MemoryIInv, OneTask
<1>10. NothingForgotten'
  <2>1. \A m \in Unanswered' : m \in Unanswered /\ m \notin job[t].hist
      BY DEF Unanswered
  <2>2. \A u \in Answering \ {t} : u \in Answering' /\ job'[u] = job[u]
      BY <1>1 DEF Answering
  <2>. QED BY <2>1, <2>2 DEF MemoryIInv, NothingForgotten
<1>. QED BY <1>3, <1>4, <1>6, <1>7, <1>8, <1>9, <1>10 DEF MemoryIInv

LEMMA GenerateKeepsMemory ==
    ASSUME MemoryIInv, NEW t \in Tasks, Generate(t)
    PROVE  MemoryIInv'
<1>0. job \in [Tasks -> JobRow] /\ job[t].pc = "gen" /\ covered' = covered \cup job[t].hist
      /\ UNCHANGED <<saved, raced, handler, buffer, ctx>>
    BY DEF Generate, MemoryIInv, MemoryType
<1>1. PICK reply \in BOOLEAN :
          /\ job' = [job EXCEPT ![t] = IF reply THEN [@ EXCEPT !.pc = "hold"] ELSE NoJob]
          /\ tracked' = IF ~reply /\ tracked = t THEN NoTask ELSE tracked
    BY DEF Generate
<1>2. CASE reply
  <2>. DEFINE x == [job[t] EXCEPT !.pc = "hold"]
  <2>1. x \in JobRow /\ x.pc = "hold" /\ x.msgs = job[t].msgs /\ x.hist = job[t].hist
      BY <1>0 DEF JobRow
  <2>2. job' = [job EXCEPT ![t] = x] /\ tracked' = tracked
      BY <1>1, <1>2
  <2>. HIDE DEF x
  <2>. QED BY <1>0, <2>1, <2>2, TaskMoves
<1>3. CASE ~reply
  <2>1. job' = [job EXCEPT ![t] = NoJob] /\ tracked' = IF tracked = t THEN NoTask ELSE tracked
      BY <1>1, <1>3
  <2>. QED BY <1>0, <2>1, NoJobRow, TaskMoves
<1>. QED BY <1>2, <1>3

LEMMA DeliverKeepsMemory ==
    ASSUME MemoryIInv, NEW t \in Tasks, Deliver(t) \/ RecordAnswer(t)
    PROVE  MemoryIInv'
<1>0. job \in [Tasks -> JobRow] /\ job[t].pc \in {"hold", "sent"}
      /\ UNCHANGED <<saved, covered, raced, handler, buffer, ctx>>
    BY DEF Deliver, RecordAnswer, MemoryIInv, MemoryType
<1>1. covered' = covered \cup job[t].hist
    BY <1>0 DEF MemoryIInv, Stored
<1>2. PICK ok \in BOOLEAN :
          /\ job' = [job EXCEPT ![t] = IF ok THEN [@ EXCEPT !.pc = "sent"] ELSE NoJob]
          /\ tracked' = IF ~ok /\ tracked = t THEN NoTask ELSE tracked
    BY DEF Deliver, RecordAnswer
<1>3. CASE ok
  <2>. DEFINE x == [job[t] EXCEPT !.pc = "sent"]
  <2>1. x \in JobRow /\ x.pc = "sent" /\ x.msgs = job[t].msgs /\ x.hist = job[t].hist
      BY <1>0 DEF JobRow
  <2>2. job' = [job EXCEPT ![t] = x] /\ tracked' = tracked
      BY <1>2, <1>3
  <2>. HIDE DEF x
  <2>. QED BY <1>0, <1>1, <2>1, <2>2, TaskMoves
<1>4. CASE ~ok
  <2>1. job' = [job EXCEPT ![t] = NoJob] /\ tracked' = IF tracked = t THEN NoTask ELSE tracked
      BY <1>2, <1>4
  <2>. QED BY <1>0, <1>1, <2>1, NoJobRow, TaskMoves
<1>. QED BY <1>3, <1>4

-----------------------------------------------------------------------------
(* Debounce.                                                                *)

\* The buffer is popped in task t, which was free or a timer, on behalf of handler own.
LEMMA PopKeepsMemory ==
    ASSUME MemoryIInv, NEW t \in Tasks, job[t].pc \in {"none", "timer"},
           NEW own, NEW hasCtx \in BOOLEAN, NEW race \in SUBSET {"popped", "direct", "double", "restart"},
           Pop(t, own, hasCtx, race),
           handler' \in [Msgs -> HandlerRow],
           \A m \in Msgs : \/ handler'[m] = handler[m]
                           \/ /\ m = own /\ handler[m].pc \in {"buffered", "wait"}
                              /\ handler'[m] = [handler[m] EXCEPT !.pc = "done"],
           own \in Msgs => handler'[own].pc = "done",
           ~hasCtx => \A m \in buffer : m # own /\ handler[m].pc = "buffered",
           job[t].pc = "timer" \/ "direct" \in race,
           TasksSuffice', UNCHANGED <<saved, covered>>
    PROVE  MemoryIInv'
<1>0. /\ handler \in [Msgs -> HandlerRow] /\ job \in [Tasks -> JobRow]
      /\ buffer' = {} /\ ctx' = FALSE /\ raced \cup race \subseteq raced'
      /\ raced' \subseteq {"popped", "direct", "double", "restart"}
      /\ buffer \subseteq saved /\ saved \subseteq Msgs
    BY DEF Pop, MemoryIInv, MemoryType
<1>1. PICK x \in JobRow :
        /\ job' = [job EXCEPT ![t] = x]
        /\ \/ (buffer = {} \/ ~hasCtx) /\ x = NoJob /\ tracked' = IF tracked = t THEN NoTask ELSE tracked
           \/ buffer # {} /\ hasCtx /\ x = [pc |-> "gen", msgs |-> buffer, hist |-> saved] /\ tracked' = tracked
  <2>1. CASE buffer = {} \/ ~hasCtx
      BY <2>1, NoJobRow DEF Pop
  <2>2. CASE ~(buffer = {} \/ ~hasCtx)
    <3>1. [pc |-> "gen", msgs |-> buffer, hist |-> saved] \in JobRow
        BY <1>0 DEF JobRow
    <3>. QED BY <2>2, <3>1 DEF Pop, History
  <2>. QED BY <2>1, <2>2
<1>2. /\ job' \in [Tasks -> JobRow] /\ job'[t] = x /\ \A u \in Tasks \ {t} : job'[u] = job[u]
      /\ x.pc \in {"none", "gen"} /\ x.hist \subseteq saved /\ x.msgs \subseteq buffer
    BY <1>0, <1>1, NoJobRow
<1>3. \A m \in Msgs : /\ handler'[m].ai = handler[m].ai /\ handler'[m].st = handler[m].st
                      /\ handler'[m].pc # handler[m].pc =>
                            m = own /\ handler[m].pc \in {"buffered", "wait"} /\ handler'[m].pc = "done"
    BY <1>0 DEF HandlerRow
<1>4. MemoryType'
  <2>1. tracked' \in Tasks \cup {NoTask} /\ (tracked' # NoTask => job'[tracked'].pc # "none")
      BY <1>1, <1>2 DEF MemoryIInv, MemoryType
  <2>. QED BY <1>0, <1>2, <2>1 DEF MemoryIInv, MemoryType
<1>5. Stored'
  <2>1. \A u \in Tasks : /\ job'[u].hist \subseteq saved'
                         /\ job'[u].pc \in {"hold", "sent"} => job'[u].hist \subseteq covered'
      BY <1>2 DEF MemoryIInv, Stored
  <2>2. \A m \in Msgs : /\ handler'[m].pc \in {"saved", "buffered", "wait"} => m \in saved'
                        /\ handler'[m].pc = "done" /\ handler'[m].ai => m \in saved' \/ "restart" \in raced'
                        /\ handler'[m].pc = "unsent" => ~handler'[m].ai
      BY <1>0, <1>3 DEF MemoryIInv, Stored
  <2>. QED BY <2>1, <2>2 DEF Stored
<1>6. OnlyPassed' /\ ContextStands' /\ BufferIsScheduled'
  <2>1. \A m \in Msgs : Passed(m) => Passed(m)'
      BY <1>3 DEF Passed
  <2>2. \A u \in Tasks : \A m \in job'[u].msgs : Passed(m)'
    <3>1. \A u \in Tasks : job[u].msgs \subseteq Msgs
        BY <1>0 DEF JobRow
    <3>. QED BY <1>0, <1>2, <2>1, <3>1 DEF MemoryIInv, OnlyPassed
  <2>. QED BY <1>0, <2>2 DEF OnlyPassed, ContextStands, BufferIsScheduled
<1>7. OneTask'
  <2>1. CASE job[t].pc = "timer"
    <3>1. Busy' \subseteq Busy /\ t \in Busy
        BY <1>2, <2>1 DEF Busy
    <3>2. OneTask => (raced \cap {"direct", "double"} = {} => tracked = t /\ Busy = {t})
        BY <3>1 DEF OneTask
    <3>3. t \in Busy' => tracked' = tracked
        BY <1>1, <1>2, NoJobRow DEF Busy
    <3>. QED BY <1>0, <3>1, <3>2, <3>3 DEF MemoryIInv, OneTask
  <2>2. CASE "direct" \in race
      BY <1>0, <2>2 DEF OneTask
  <2>. QED BY <2>1, <2>2
<1>8. raced' \cap {"popped", "restart"} = {} =>
          /\ raced \cap {"popped", "restart"} = {}
          /\ \A m \in buffer \ {own} : handler[m].pc # "buffered"
    BY <1>0 DEF Pop
<1>9. Waiting'
    BY <1>0, <1>3, <1>8 DEF MemoryIInv, Waiting
<1>10. NothingForgotten'
  <2>. SUFFICES ASSUME raced' \cap {"popped", "restart"} = {}, NEW m \in Unanswered'
                PROVE  \E u \in Answering' : m \in job'[u].hist
      BY DEF NothingForgotten
  <2>1. m \in Unanswered /\ m \in saved
      BY <1>0, <1>3, <1>8 DEF Unanswered, MemoryIInv, Stored
  <2>2. CASE buffer # {}
    <3>1. hasCtx
        BY <1>8, <2>2
    <3>2. x.pc = "gen" /\ x.hist = saved
        BY <1>1, <2>2, <3>1
    <3>. QED BY <1>2, <2>1, <3>2 DEF Answering
  <2>3. CASE buffer = {}
    <3>1. PICK u \in Answering : m \in job[u].hist
        BY <1>8, <2>1, <2>3 DEF MemoryIInv, NothingForgotten
    <3>2. u # t /\ u \in Tasks
        BY <3>1 DEF Answering
    <3>. QED BY <1>2, <3>1, <3>2 DEF Answering
  <2>. QED BY <2>2, <2>3
<1>. QED BY <1>4, <1>5, <1>6, <1>7, <1>9, <1>10 DEF MemoryIInv

LEMMA FireKeepsMemory ==
    ASSUME MemoryIInv, NEW t \in Tasks, Fire(t)
    PROVE  MemoryIInv'
<1>1. handler \in [Msgs -> HandlerRow] /\ ctx \in BOOLEAN /\ job[t].pc = "timer"
      /\ UNCHANGED <<handler, saved, covered>> /\ Pop(t, 0, ctx, {})
    BY DEF Fire, MemoryIInv, MemoryType
<1>2. 0 \notin Msgs /\ \A m \in buffer : m # 0
    BY DEF MemoryIInv, MemoryType, Msgs
<1>3. ~ctx => \A m \in buffer : m # 0 /\ handler[m].pc = "buffered"
    BY <1>2 DEF MemoryIInv, ContextStands
<1>4. TasksSuffice'
  <2>1. Busy' \subseteq Busy
      BY <1>1 DEF Busy, Pop, MemoryIInv, MemoryType
  <2>. QED BY <1>1, <2>1, NoMoreTasks DEF MemoryIInv, Ended
<1>. QED BY <1>1, <1>2, <1>3, <1>4, PopKeepsMemory

\* A handler ends by starting a timer.
LEMMA TimerKeepsMemory ==
    ASSUME MemoryIInv, NEW t \in Tasks, job[t].pc = "none",
           NEW m \in Msgs, handler[m].pc \in {"buffered", "wait"},
           NEW hasCtx \in BOOLEAN, NEW race \in SUBSET {"popped", "direct", "double", "restart"},
           ~hasCtx => \A k \in buffer : k # m /\ handler[k].pc = "buffered",
           tracked = NoTask \/ "double" \in race,
           handler' = [handler EXCEPT ![m].pc = "done"],
           job' = [job EXCEPT ![t] = [pc |-> "timer", msgs |-> {}, hist |-> {}]],
           tracked' = t, ctx' = hasCtx, raced' = raced \cup race, TasksSuffice',
           UNCHANGED <<saved, covered, buffer>>
    PROVE  MemoryIInv'
<1>. DEFINE x == [pc |-> "timer", msgs |-> {}, hist |-> {}]
<1>0. /\ handler \in [Msgs -> HandlerRow] /\ job \in [Tasks -> JobRow] /\ x \in JobRow
      /\ x.pc = "timer" /\ x.msgs = {} /\ x.hist = {} /\ buffer \subseteq Msgs
    BY DEF MemoryIInv, MemoryType, JobRow
<1>1. job' \in [Tasks -> JobRow] /\ job'[t] = x /\ \A u \in Tasks \ {t} : job'[u] = job[u]
    BY <1>0
<1>2. /\ handler' \in [Msgs -> HandlerRow] /\ handler'[m] = [handler[m] EXCEPT !.pc = "done"]
      /\ \A k \in Msgs \ {m} : handler'[k] = handler[k]
    BY <1>0 DEF HandlerRow
<1>3. handler'[m].pc = "done" /\ handler'[m].ai = handler[m].ai /\ handler'[m].st = handler[m].st
    BY <1>0, <1>2 DEF HandlerRow
<1>. HIDE DEF x
<1>4. MemoryType'
    BY <1>0, <1>1, <1>2 DEF MemoryIInv, MemoryType
<1>5. Stored'
  <2>1. \A u \in Tasks : /\ job'[u].hist \subseteq saved'
                         /\ job'[u].pc \in {"hold", "sent"} => job'[u].hist \subseteq covered'
      BY <1>0, <1>1 DEF MemoryIInv, Stored
  <2>2. \A k \in Msgs : /\ handler'[k].pc \in {"saved", "buffered", "wait"} => k \in saved'
                        /\ handler'[k].pc = "done" /\ handler'[k].ai => k \in saved' \/ "restart" \in raced'
                        /\ handler'[k].pc = "unsent" => ~handler'[k].ai
      BY <1>2, <1>3 DEF MemoryIInv, Stored
  <2>. QED BY <2>1, <2>2 DEF Stored
<1>6. OnlyPassed'
  <2>1. \A k \in Msgs : Passed(k) => Passed(k)'
      BY <1>2, <1>3 DEF Passed
  <2>2. \A u \in Tasks : job[u].msgs \subseteq Msgs
      BY <1>0 DEF JobRow
  <2>. QED BY <1>0, <1>1, <2>1, <2>2 DEF MemoryIInv, OnlyPassed
<1>7. ContextStands' /\ BufferIsScheduled'
  <2>1. ~hasCtx => \A k \in buffer : handler'[k].pc = "buffered"
      BY <1>0, <1>2
  <2>2. hasCtx => ctx' /\ job'[t].pc = "timer"
      BY <1>0, <1>1
  <2>. QED BY <1>0, <2>1, <2>2 DEF ContextStands, BufferIsScheduled
<1>8. OneTask'
  <2>1. Busy' = Busy \cup {t}
      BY <1>0, <1>1 DEF Busy
  <2>2. tracked = NoTask => (OneTask => raced \cap {"direct", "double"} # {} \/ Busy = {})
      BY DialogTasks DEF OneTask, Busy
  <2>. QED BY <2>1, <2>2 DEF MemoryIInv, OneTask
<1>9. Waiting'
    BY <1>2, <1>3 DEF MemoryIInv, Waiting
<1>10. NothingForgotten'
  <2>1. Unanswered' \subseteq Unanswered
      BY <1>2, <1>3 DEF Unanswered
  <2>2. \A u \in Answering : u \in Answering' /\ job'[u].hist = job[u].hist
      BY <1>1 DEF Answering
  <2>. QED BY <2>1, <2>2 DEF MemoryIInv, NothingForgotten
<1>. QED BY <1>4, <1>5, <1>6, <1>7, <1>8, <1>9, <1>10, TasksSuffice' DEF MemoryIInv

LEMMA BeginKeepsMemory ==
    ASSUME MemoryIInv, NEW m \in Msgs, handler[m].pc \in {"buffered", "wait"},
           NEW hasCtx \in BOOLEAN, NEW race \in SUBSET {"double"},
           ~hasCtx => \A k \in buffer : k # m /\ handler[k].pc = "buffered",
           tracked = NoTask \/ "double" \in race,
           Begin(m, hasCtx, race), UNCHANGED <<saved, covered>>
    PROVE  MemoryIInv'
<1>0. handler \in [Msgs -> HandlerRow] /\ job \in [Tasks -> JobRow] /\ m \in Msgs \ Ended
    BY DEF MemoryIInv, MemoryType, Ended
<1>1. Spare \in Tasks /\ job[Spare].pc = "none"
    BY <1>0, SpareTask DEF MemoryIInv
<1>2. /\ handler' = [handler EXCEPT ![m].pc = "done"]
      /\ \/ buffer # {} /\ Pop(Spare, m, hasCtx, race \cup {"direct"})
         \/ /\ job' = [job EXCEPT ![Spare] = [pc |-> "timer", msgs |-> {}, hist |-> {}]]
            /\ tracked' = Spare /\ ctx' = hasCtx /\ raced' = raced \cup race
            /\ UNCHANGED buffer
    BY DEF Begin, Spare
<1>. DEFINE t == Spare
<1>3. t \in Tasks /\ job[t].pc = "none"
    BY <1>1
<1>4. /\ handler' \in [Msgs -> HandlerRow] /\ handler'[m] = [handler[m] EXCEPT !.pc = "done"]
      /\ handler'[m].pc = "done" /\ \A k \in Msgs \ {m} : handler'[k] = handler[k]
    BY <1>0, <1>2 DEF HandlerRow
<1>5. TasksSuffice'
  <2>1. Ended' = Ended \cup {m}
      BY <1>0, <1>4 DEF Ended, HandlerRow
  <2>2. Busy' \subseteq Busy \cup {t}
      BY <1>0, <1>2, <1>3 DEF Busy, Pop
  <2>. QED BY <1>0, <2>1, <2>2, OneMoreTask DEF MemoryIInv
<1>6. CASE Pop(t, m, hasCtx, race \cup {"direct"})
  <2>1. race \cup {"direct"} \in SUBSET {"popped", "direct", "double", "restart"}
      OBVIOUS
  <2>2. \A k \in Msgs : \/ handler'[k] = handler[k]
                        \/ /\ k = m /\ handler[k].pc \in {"buffered", "wait"}
                           /\ handler'[k] = [handler[k] EXCEPT !.pc = "done"]
      BY <1>4
  <2>3. handler' \in [Msgs -> HandlerRow] /\ (m \in Msgs => handler'[m].pc = "done")
      BY <1>4
  <2>. HIDE DEF t
  <2>. QED BY <1>3, <1>5, <1>6, <2>1, <2>2, <2>3, PopKeepsMemory
<1>7. CASE /\ job' = [job EXCEPT ![t] = [pc |-> "timer", msgs |-> {}, hist |-> {}]]
           /\ tracked' = t /\ ctx' = hasCtx /\ raced' = raced \cup race
           /\ UNCHANGED buffer
  <2>. HIDE DEF t
  <2>. QED BY <1>2, <1>3, <1>5, <1>7, TimerKeepsMemory
<1>. QED BY <1>2, <1>6, <1>7

\* A handler cancels the task before it, and waits.
LEMMA CancelKeepsMemory ==
    ASSUME MemoryIInv, NEW m \in Msgs, handler[m].pc = "buffered", tracked # NoTask,
           Cancel(m), UNCHANGED <<saved, covered>>
    PROVE  MemoryIInv'
<1>0. /\ handler \in [Msgs -> HandlerRow] /\ job \in [Tasks -> JobRow] /\ tracked \in Tasks
      /\ job' = [job EXCEPT ![tracked] = NoJob] /\ tracked' = NoTask /\ ctx' = TRUE
      /\ handler' = [handler EXCEPT ![m].pc = "wait"] /\ UNCHANGED <<buffer, raced>>
      /\ buffer \subseteq Msgs
    BY DEF Cancel, MemoryIInv, MemoryType
<1>1. /\ job' \in [Tasks -> JobRow] /\ job'[tracked] = NoJob
      /\ \A u \in Tasks \ {tracked} : job'[u] = job[u]
    BY <1>0, NoJobRow
<1>2. /\ handler' \in [Msgs -> HandlerRow] /\ \A k \in Msgs \ {m} : handler'[k] = handler[k]
      /\ handler'[m].pc = "wait" /\ handler'[m].ai = handler[m].ai /\ handler'[m].st = handler[m].st
    BY <1>0 DEF HandlerRow
<1>3. MemoryType'
    BY <1>0, <1>1, <1>2 DEF MemoryIInv, MemoryType
<1>4. Stored'
  <2>1. \A u \in Tasks : /\ job'[u].hist \subseteq saved'
                         /\ job'[u].pc \in {"hold", "sent"} => job'[u].hist \subseteq covered'
      BY <1>1, NoJobRow DEF MemoryIInv, Stored
  <2>2. \A k \in Msgs : /\ handler'[k].pc \in {"saved", "buffered", "wait"} => k \in saved'
                        /\ handler'[k].pc = "done" /\ handler'[k].ai => k \in saved' \/ "restart" \in raced'
                        /\ handler'[k].pc = "unsent" => ~handler'[k].ai
      BY <1>0, <1>2 DEF MemoryIInv, Stored
  <2>. QED BY <2>1, <2>2 DEF Stored
<1>5. TasksSuffice' /\ OneTask'
  <2>1. Busy' \subseteq Busy \ {tracked} /\ Ended' = Ended
      BY <1>1, <1>2, NoJobRow DEF Busy, Ended
  <2>2. TasksSuffice'
      BY <2>1, NoMoreTasks DEF MemoryIInv
  <2>3. OneTask'
      BY <1>0, <2>1 DEF MemoryIInv, OneTask
  <2>. QED BY <2>2, <2>3
<1>6. OnlyPassed'
  <2>1. \A k \in Msgs : Passed(k) => Passed(k)'
      BY <1>2 DEF Passed
  <2>2. \A u \in Tasks : job[u].msgs \subseteq Msgs
      BY <1>0 DEF JobRow
  <2>. QED BY <1>0, <1>1, <2>1, <2>2, NoJobRow DEF MemoryIInv, OnlyPassed
<1>7. ContextStands' /\ BufferIsScheduled' /\ Waiting'
    BY <1>0, <1>2 DEF MemoryIInv, ContextStands, BufferIsScheduled, Waiting
<1>8. NothingForgotten'
  <2>1. raced \cap {"popped", "restart"} = {} => buffer' # {}
      BY <1>0 DEF MemoryIInv, Waiting
  <2>. QED BY <1>0, <2>1 DEF NothingForgotten
<1>. QED BY <1>3, <1>4, <1>5, <1>6, <1>7, <1>8 DEF MemoryIInv

LEMMA ScheduleKeepsMemory ==
    ASSUME MemoryIInv, NEW m \in Msgs, Schedule(m) \/ Resume(m)
    PROVE  MemoryIInv'
<1>0. ctx \in BOOLEAN /\ UNCHANGED <<saved, covered>>
    BY DEF MemoryIInv, MemoryType, Schedule, Resume
<1>1. CASE Resume(m)
  <2>. DEFINE race == IF tracked = NoTask THEN {} ELSE {"double"}
  <2>1. race \in SUBSET {"double"} /\ (tracked = NoTask \/ "double" \in race)
      OBVIOUS
  <2>2. Begin(m, ctx, race) /\ handler[m].pc = "wait"
      BY <1>1 DEF Resume
  <2>3. ~ctx => \A k \in buffer : k # m /\ handler[k].pc = "buffered"
      BY <2>2 DEF MemoryIInv, ContextStands
  <2>. HIDE DEF race
  <2>. QED BY <1>0, <2>1, <2>2, <2>3, BeginKeepsMemory
<1>2. CASE Schedule(m) /\ tracked = NoTask
    BY <1>0, <1>2, BeginKeepsMemory DEF Schedule, BeginOrCancel
<1>3. CASE Schedule(m) /\ tracked # NoTask
    BY <1>0, <1>3, CancelKeepsMemory DEF Schedule, BeginOrCancel
<1>. QED BY <1>1, <1>2, <1>3

LEMMA RestartKeepsMemory ==
    ASSUME MemoryIInv, RestartListener
    PROVE  MemoryIInv'
<1>0. /\ handler \in [Msgs -> HandlerRow]
      /\ handler' = [m \in Msgs |-> IF handler[m].pc = "unsent" THEN handler[m]
                                    ELSE [handler[m] EXCEPT !.pc = "done"]]
      /\ buffer' = {} /\ ctx' = FALSE /\ job' = [t \in Tasks |-> NoJob] /\ tracked' = NoTask
      /\ raced' = raced \cup {"restart"} /\ UNCHANGED <<saved, covered>>
    BY DEF RestartListener, MemoryIInv, MemoryType
<1>1. handler' \in [Msgs -> HandlerRow]
    BY <1>0 DEF HandlerRow
<1>2. \A m \in Msgs : handler'[m].pc = "done" \/ (handler[m].pc = "unsent" /\ handler'[m] = handler[m])
    BY <1>0 DEF HandlerRow
<1>3. MemoryType'
    BY <1>0, <1>1, NoJobRow DEF MemoryIInv, MemoryType
<1>4. Stored'
    BY <1>0, <1>2, NoJobRow DEF MemoryIInv, Stored
<1>5. Busy' = {}
    BY <1>0, NoJobRow DEF Busy
<1>6. TasksSuffice'
    BY <1>5, Counts, FS_EmptySet DEF TasksSuffice
<1>7. OnlyPassed' /\ ContextStands' /\ BufferIsScheduled' /\ OneTask'
    BY <1>0, <1>5, NoJobRow DEF OnlyPassed, ContextStands, BufferIsScheduled, OneTask
<1>8. Waiting' /\ NothingForgotten'
    BY <1>0 DEF Waiting, NothingForgotten
<1>. QED BY <1>3, <1>4, <1>6, <1>7, <1>8 DEF MemoryIInv

LEMMA HandlersKeepMemory ==
    ASSUME MemoryIInv, RowType, NEW m \in Msgs, Arrive(m) \/ SaveInbound(m) \/ BotMessage(m)
    PROVE  MemoryIInv'
<1>0. handler \in [Msgs -> HandlerRow] /\ UNCHANGED <<covered, raced, buffer, ctx, job, tracked>>
    BY DEF MemoryIInv, MemoryType, Arrive, SaveInbound, BotMessage
<1>1. CASE Arrive(m)
  <2>. DEFINE x == [pc |-> "read", ai |-> conv.ai, st |-> conv.status]
              y == [handler[m] EXCEPT !.pc = "done"]
  <2>1. x \in HandlerRow /\ x.pc = "read"
      BY DEF HandlerRow, RowType, Conversation
  <2>2. y \in HandlerRow /\ y.pc = "done" /\ ~y.ai /\ handler[m].pc = "unsent"
      BY <1>0, <1>1 DEF HandlerRow, Arrive, MemoryIInv, Stored
  <2>3. handler' = [handler EXCEPT ![m] = x] \/ handler' = [handler EXCEPT ![m] = y]
      BY <1>1 DEF Arrive
  <2>4. saved' = saved
      BY <1>1 DEF Arrive
  <2>. HIDE DEF x, y
  <2>. QED BY <1>0, <2>1, <2>2, <2>3, <2>4, HandlerMoves
<1>2. CASE SaveInbound(m)
  <2>. DEFINE x == [handler[m] EXCEPT !.pc = "saved"]
  <2>1. x \in HandlerRow /\ x.pc = "saved" /\ handler[m].pc = "read"
      BY <1>0, <1>2 DEF HandlerRow, SaveInbound
  <2>2. handler' = [handler EXCEPT ![m] = x] /\ saved' = saved \cup {m}
      BY <1>2 DEF SaveInbound, Store
  <2>. HIDE DEF x
  <2>. QED BY <1>0, <2>1, <2>2, HandlerMoves
<1>3. CASE BotMessage(m)
  <2>. DEFINE x == [handler[m] EXCEPT !.pc = "done"]
  <2>1. x \in HandlerRow /\ x.pc = "done" /\ ~x.ai /\ handler[m].pc = "unsent"
      BY <1>0, <1>3 DEF HandlerRow, BotMessage, MemoryIInv, Stored
  <2>2. handler' = [handler EXCEPT ![m] = x] /\ saved' = saved \cup {m}
      BY <1>3 DEF BotMessage, Store
  <2>. HIDE DEF x
  <2>. QED BY <1>0, <2>1, <2>2, HandlerMoves
<1>. QED BY <1>1, <1>2, <1>3

LEMMA NextKeepsMemory ==
    ASSUME MemoryIInv, RowType, Next
    PROVE  MemoryIInv'
<1>1. CASE ListenerNext
  <2>1. CASE ManagerTypes
      BY <2>1, MemoryRests DEF ManagerTypes, memory, MemoryParts
  <2>. QED BY <1>1, <2>1, HandlersKeepMemory, GateKeepsMemory, ScheduleKeepsMemory, FireKeepsMemory,
              GenerateKeepsMemory, DeliverKeepsMemory, RestartKeepsMemory DEF ListenerNext
<1>2. CASE FollowUpNext
  <2>1. UNCHANGED MemoryParts
      BY <1>2 DEF FollowUpNext, Mark, PickDialog, EarlierRowEnds, LeaveAlone, AutoFinish, ComposePing,
                  NoPingText, EnqueuePing, TickDies, SendPing, memory, MemoryParts
  <2>. QED BY <2>1, MemoryRests
<1>3. CASE InboxNext
  <2>1. UNCHANGED MemoryParts
      BY <1>3 DEF InboxNext, DisableAi, EnableAi, MarkLead, ConfirmLead, DismissLead, FinishDialog,
                  PatchDialog, SendFromInbox, RecordFromInbox, Request, memory, MemoryParts
  <2>. QED BY <2>1, MemoryRests
<1>. QED BY <1>1, <1>2, <1>3 DEF Next

-----------------------------------------------------------------------------
(* The dialog's row.                                                        *)

RowParts == <<kind, conv, lastBy, ping, fu, ui, acts, faults, origin>>

LEMMA RowRests == RowIInv /\ UNCHANGED RowParts => RowIInv'
BY DEF RowIInv, RowType, MarkStands, TickKnows, RowParts

LEMMA NoStatusIsNone == NoStatus \notin Status /\ "unknown" \notin Status
BY DEF NoStatus, Status, Open, Outcome

\* What a step may do to the conversations row.
LEMMA RowChange ==
    ASSUME RowIInv, conv' \in Conversation, conv'.pings = conv.pings,
           origin' \in Status \cup {"unknown"},
           origin' # "unknown" =>
               /\ conv'.status = "lead_pending" /\ conv'.pre = origin' /\ origin' # "lead_pending",
           fu' \in FuRow, fu'.pc \in {"idle", fu.pc}, fu'.pings = fu.pings \/ fu'.pc = "idle",
           lastBy' \in {"ai", "contact", "human"}, ping' \in {"none", "pending", "answered"},
           ui' \in {"idle", "sending"}, acts' \in 0..MaxActs, faults' \in 0..MaxFaults, kind' = kind
    PROVE  RowIInv'
<1>1. RowType'
    BY DEF RowIInv, RowType
<1>2. MarkStands'
    BY DEF MarkStands
<1>3. TickKnows'
    BY DEF RowIInv, TickKnows
<1>. QED BY <1>1, <1>2, <1>3 DEF RowIInv

\* One mark, of a dialog that was not marked, saves the status it had.
LEMMA MarkSaves ==
    ASSUME RowType
    PROVE  /\ MarkedLead(conv) \in Conversation /\ MarkedLead(conv).pings = conv.pings
           /\ MarkedLead(conv).status = "lead_pending" /\ MarkedLead(conv).pre = conv.status
           /\ LeadOrigin \in Status \cup {"unknown"}
           /\ LeadOrigin # "unknown" => LeadOrigin = conv.status /\ LeadOrigin # "lead_pending"
BY DEF RowType, MarkedLead, LeadOrigin, Conversation, Status, Open, Outcome

LEMMA SignalsKeepType ==
    ASSUME RowType, NEW S \in SUBSET Signal
    PROVE  /\ AfterSignals(conv, S) \in Conversation
           /\ AfterSignals(conv, S).pings = conv.pings
           /\ S = {} => AfterSignals(conv, S) = conv
           /\ S = {"lead"} => AfterSignals(conv, S) = MarkedLead(conv)
<1>. DEFINE marked == IF "lead" \in S THEN MarkedLead(conv) ELSE conv
<1>1. marked \in Conversation /\ marked.pings = conv.pings
    BY MarkSaves DEF RowType
<1>2. [marked EXCEPT !.status = "finished", !.ai = FALSE] \in Conversation
      /\ [marked EXCEPT !.status = "handoff", !.ai = FALSE] \in Conversation
      /\ [marked EXCEPT !.status = "finished", !.ai = FALSE].pings = conv.pings
      /\ [marked EXCEPT !.status = "handoff", !.ai = FALSE].pings = conv.pings
  <2>. HIDE DEF marked
  <2>. QED BY <1>1 DEF Conversation, Status, Outcome
<1>3. \/ "finish" \in S /\ AfterSignals(conv, S) = [marked EXCEPT !.status = "finished", !.ai = FALSE]
      \/ "finish" \notin S /\ "handoff" \in S
         /\ AfterSignals(conv, S) = [marked EXCEPT !.status = "handoff", !.ai = FALSE]
      \/ S \subseteq {"lead"} /\ AfterSignals(conv, S) = marked
  <2>1. CASE "finish" \in S
      BY <2>1 DEF AfterSignals
  <2>2. CASE "finish" \notin S /\ "handoff" \in S
      BY <2>2 DEF AfterSignals
  <2>3. CASE S \subseteq {"lead"}
    <3>1. "finish" \notin S /\ "handoff" \notin S
        BY <2>3
    <3>. QED BY <2>3, <3>1 DEF AfterSignals
  <2>. QED BY <2>1, <2>2, <2>3 DEF Signal
<1>4. S = {} => AfterSignals(conv, S) = conv
    BY DEF AfterSignals
<1>5. S = {"lead"} => AfterSignals(conv, S) = MarkedLead(conv)
    BY DEF AfterSignals
<1>. QED BY <1>1, <1>2, <1>3, <1>4, <1>5

LEMMA ListenerKeepsRow ==
    ASSUME RowIInv, ListenerNext
    PROVE  RowIInv'
<1>. USE DEF RowIInv
<1>0. RowType /\ MarkStands /\ conv \in Conversation /\ fu \in FuRow
    BY DEF RowType
<1>1. ASSUME NEW m \in Msgs, Arrive(m) \/ Schedule(m) \/ Resume(m)
      PROVE  RowIInv'
    BY <1>1, RowRests DEF Arrive, Schedule, Resume, RowParts
<1>2. ASSUME NEW t \in Tasks, Fire(t) \/ Deliver(t)
      PROVE  RowIInv'
    BY <1>2, RowRests DEF Fire, Deliver, RowParts
<1>3. CASE RestartListener
  <2>1. faults' \in 0..MaxFaults /\ UNCHANGED <<kind, conv, lastBy, ping, fu, ui, acts, origin>>
      BY <1>0, <1>3, DialogCounts DEF RestartListener, RowType
  <2>. QED BY <1>0, <2>1, RowChange DEF RowType, MarkStands
<1>4. CASE ManagerTypes
  <2>1. /\ acts' \in 0..MaxActs /\ lastBy' \in {"ai", "contact", "human"}
        /\ UNCHANGED <<kind, conv, ping, fu, ui, faults, origin>>
      BY <1>0, <1>4, DialogCounts DEF ManagerTypes, RowType
  <2>. QED BY <1>0, <2>1, RowChange DEF RowType, MarkStands
<1>5. ASSUME NEW t \in Tasks, RecordAnswer(t)
      PROVE  RowIInv'
  <2>1. lastBy' = "ai" /\ UNCHANGED <<kind, conv, ping, fu, ui, acts, faults, origin>>
      BY <1>5 DEF RecordAnswer
  <2>. QED BY <1>0, <2>1, RowChange DEF RowType, MarkStands
<1>6. ASSUME NEW m \in Msgs, Store(m)
      PROVE  /\ fu' \in FuRow /\ fu'.pc = fu.pc /\ fu'.pings = fu.pings
             /\ lastBy' = "contact" /\ ping' \in {"none", "answered"}
    BY <1>0, <1>6 DEF Store, FuRow, RowType
<1>7. ASSUME NEW m \in Msgs, SaveInbound(m)
      PROVE  RowIInv'
  <2>1. Store(m) /\ UNCHANGED <<kind, conv, ui, acts, faults, origin>>
      BY <1>7 DEF SaveInbound
  <2>. QED BY <1>0, <1>6, <2>1, RowChange DEF RowType, MarkStands
<1>8. ASSUME NEW m \in Msgs, BotMessage(m)
      PROVE  RowIInv'
  <2>1. Store(m) /\ UNCHANGED <<kind, ui, acts, faults, origin>>
      BY <1>8 DEF BotMessage
  <2>2. \/ conv' = conv
        \/ conv.status = "active" /\ conv' = [conv EXCEPT !.status = "bot_ignored", !.ai = FALSE]
      BY <1>8 DEF BotMessage
  <2>3. conv' \in Conversation /\ conv'.pings = conv.pings
        /\ (conv.status = "lead_pending" => conv' = conv)
      BY <1>0, <2>2 DEF Conversation, Status, Outcome
  <2>. QED BY <1>0, <1>6, <2>1, <2>3, RowChange DEF RowType, MarkStands
<1>9. ASSUME NEW m \in Msgs, RevertAndGate(m)
      PROVE  RowIInv'
  <2>1. /\ conv' = conv \/ conv' = Reverted(conv)
        /\ ping' \in {"none", ping} /\ UNCHANGED <<kind, lastBy, fu, ui, acts, origin>>
        /\ faults' \in 0..MaxFaults
      BY <1>0, <1>9, DialogCounts DEF RevertAndGate, RowType
  <2>2. \/ Reverted(conv) = conv
        \/ conv.status = "no_reply" /\ Reverted(conv) = [conv EXCEPT !.status = "active"]
      BY DEF Reverted
  <2>3. conv' \in Conversation /\ conv'.pings = conv.pings
        /\ (conv.status = "lead_pending" => conv' = conv)
      BY <1>0, <2>1, <2>2 DEF Conversation, Status, Open
  <2>. QED BY <1>0, <2>1, <2>3, RowChange DEF RowType, MarkStands
<1>10. ASSUME NEW t \in Tasks, Generate(t)
       PROVE  RowIInv'
  <2>1. PICK S \in SUBSET Signal :
            /\ conv' = AfterSignals(conv, S)
            /\ origin' = IF S = {} THEN origin ELSE IF S = {"lead"} THEN LeadOrigin ELSE "unknown"
      BY <1>10 DEF Generate
  <2>2. UNCHANGED <<kind, lastBy, ping, fu, ui, acts, faults>>
      BY <1>10 DEF Generate
  <2>3. conv' \in Conversation /\ conv'.pings = conv.pings
      BY <1>0, <2>1, SignalsKeepType
  <2>4. /\ origin' \in Status \cup {"unknown"}
        /\ origin' # "unknown" =>
               /\ conv'.status = "lead_pending" /\ conv'.pre = origin' /\ origin' # "lead_pending"
    <3>1. CASE S = {}
        BY <1>0, <2>1, <3>1, SignalsKeepType DEF RowType, MarkStands
    <3>2. CASE S = {"lead"}
        BY <1>0, <2>1, <3>2, SignalsKeepType, MarkSaves
    <3>3. CASE S # {} /\ S # {"lead"}
        BY <2>1, <3>3
    <3>. QED BY <3>1, <3>2, <3>3
  <2>. QED BY <1>0, <2>2, <2>3, <2>4, RowChange DEF RowType
<1>. QED BY <1>1, <1>2, <1>3, <1>4, <1>5, <1>7, <1>8, <1>9, <1>10 DEF ListenerNext

LEMMA FollowUpKeepsRow ==
    ASSUME RowIInv, FollowUpNext
    PROVE  RowIInv'
<1>. USE DEF RowIInv
<1>0. RowType /\ MarkStands /\ TickKnows /\ conv \in Conversation /\ fu \in FuRow
    BY DEF RowType
<1>1. FuIdle \in FuRow /\ FuIdle.pc = "idle"
    BY DialogCounts DEF FuIdle, FuRow, Open
<1>2. CASE Mark
  <2>1. UNCHANGED <<kind, lastBy, ping, fu, ui, acts, faults, origin>>
      BY <1>2 DEF Mark
  <2>2. conv' \in Conversation /\ conv'.pings = conv.pings /\ conv.status # "lead_pending"
      BY <1>0, <1>2 DEF Mark, Conversation, Status, Open
  <2>. QED BY <1>0, <2>1, <2>2, RowChange DEF RowType, MarkStands
<1>3. CASE PickDialog
  <2>1. /\ UNCHANGED <<kind, conv, lastBy, ping, ui, acts, faults, origin>>
        /\ fu' \in FuRow /\ fu'.pc = "picked" /\ fu'.pings = conv.pings
      BY <1>0, <1>3 DEF PickDialog, FuRow, Conversation
  <2>. QED BY <1>0, <2>1 DEF RowType, MarkStands, TickKnows
<1>4. CASE EarlierRowEnds
  <2>1. /\ UNCHANGED <<kind, conv, lastBy, ping, ui, acts, faults, origin>>
        /\ fu' \in FuRow /\ fu'.pc = fu.pc /\ fu'.pings = fu.pings
      BY <1>0, <1>4 DEF EarlierRowEnds, FuRow
  <2>. QED BY <1>0, <2>1, RowChange DEF RowType, MarkStands
<1>5. CASE LeaveAlone \/ NoPingText \/ TickDies
  <2>1. fu' = FuIdle /\ UNCHANGED <<kind, conv, lastBy, ping, ui, acts, faults, origin>>
      BY <1>5 DEF LeaveAlone, NoPingText, TickDies
  <2>. QED BY <1>0, <1>1, <2>1, RowChange DEF RowType, MarkStands
<1>6. CASE AutoFinish
  <2>1. fu' = FuIdle /\ ping' = "none" /\ conv' = AutoFinished
        /\ UNCHANGED <<kind, lastBy, ui, acts, faults, origin>>
      BY <1>6 DEF AutoFinish
  <2>2. conv' \in Conversation /\ conv'.pings = conv.pings
        /\ (conv.status = "lead_pending" => conv' = conv)
      BY <1>0, <2>1 DEF AutoFinished, Conversation, Status, Open, Outcome
  <2>. QED BY <1>0, <1>1, <2>1, <2>2, RowChange DEF RowType, MarkStands
<1>7. CASE ComposePing
  <2>1. /\ UNCHANGED <<kind, conv, lastBy, ping, ui, acts, faults, origin>>
        /\ fu' \in FuRow /\ fu'.pings = fu.pings /\ fu.pings < MaxPings /\ fu.pc = "picked"
      BY <1>0, <1>7 DEF ComposePing, PingsLeft, FuRow
  <2>. QED BY <1>0, <2>1 DEF RowType, MarkStands, TickKnows
<1>8. CASE EnqueuePing
  <2>1. /\ fu' = FuIdle /\ ping' \in {"answered", "pending"}
        /\ UNCHANGED <<kind, lastBy, ui, acts, faults, origin>>
      BY <1>8 DEF EnqueuePing
  <2>2. conv.pings + 1 \in 0..MaxPings
      BY <1>0, <1>8, DialogCounts DEF EnqueuePing, TickKnows, Conversation
  <2>3. /\ conv' \in Conversation /\ conv'.pre = conv.pre
        /\ conv'.status = conv.status \/ conv.status = "active"
      BY <1>0, <1>8, <2>2 DEF EnqueuePing, Conversation, Status, Open
  <2>. QED BY <1>0, <1>1, <2>1, <2>3 DEF RowType, MarkStands, TickKnows
<1>9. CASE SendPing
  <2>1. /\ ping' = "none" /\ lastBy' \in {"ai", lastBy}
        /\ UNCHANGED <<kind, conv, fu, ui, acts, faults, origin>>
      BY <1>9 DEF SendPing
  <2>. QED BY <1>0, <2>1, RowChange DEF RowType, MarkStands
<1>. QED BY <1>2, <1>3, <1>4, <1>5, <1>6, <1>7, <1>8, <1>9 DEF FollowUpNext

\* A request leaves the mark alone, makes a single one, or forgets it.
LEMMA RequestKeepsRow ==
    ASSUME RowIInv, NEW c2 \in Conversation, c2.pings = conv.pings,
           NEW ping2 \in {"none", "pending", "answered"},
           NEW origin2 \in Status \cup {"unknown"},
           c2.status = "lead_pending" /\ origin2 # "unknown" =>
               c2.pre = origin2 /\ origin2 # "lead_pending",
           Request(c2, ping2, origin2), ui' \in {"idle", "sending"}
    PROVE  RowIInv'
<1>1. /\ conv' = c2 /\ ping' = ping2 /\ UNCHANGED <<kind, lastBy, fu, faults>>
      /\ origin' = (IF c2.status = "lead_pending" THEN origin2 ELSE "unknown")
    BY DEF Request
<1>2. acts' \in 0..MaxActs
    BY DialogCounts DEF Request, RowIInv, RowType
<1>. QED BY <1>1, <1>2, RowChange DEF RowIInv, RowType

LEMMA InboxKeepsRow ==
    ASSUME RowIInv, InboxNext
    PROVE  RowIInv'
<1>. USE DEF RowIInv
<1>0. RowType /\ MarkStands /\ conv \in Conversation /\ ping \in {"none", "pending", "answered"}
      /\ origin \in Status \cup {"unknown"} /\ ui \in {"idle", "sending"}
    BY DEF RowType
<1>1. CASE DisableAi
  <2>1. TakenOver(conv) \in Conversation /\ TakenOver(conv).status = "manual"
        /\ TakenOver(conv).pings = conv.pings
      BY <1>0 DEF TakenOver, Conversation, Status, Outcome
  <2>. QED BY <1>0, <1>1, <2>1, RequestKeepsRow DEF DisableAi
<1>2. CASE EnableAi
  <2>. DEFINE c == [conv EXCEPT !.ai = TRUE,
                                !.status = IF @ \in {"manual", "handoff"} THEN "active" ELSE @]
  <2>1. c \in Conversation /\ c.pings = conv.pings /\ c.pre = conv.pre
        /\ (c.status = "lead_pending" => conv.status = "lead_pending")
      BY <1>0 DEF Conversation, Status, Open
  <2>2. Request(c, ping, origin) /\ UNCHANGED ui
      BY <1>2 DEF EnableAi
  <2>. HIDE DEF c
  <2>. QED BY <1>0, <2>1, <2>2, RequestKeepsRow DEF MarkStands
<1>3. CASE MarkLead
    BY <1>0, <1>3, MarkSaves, RequestKeepsRow DEF MarkLead
<1>4. CASE ConfirmLead
  <2>. DEFINE c == [conv EXCEPT !.status = "lead", !.pre = NoStatus]
  <2>1. c \in Conversation /\ c.pings = conv.pings /\ c.status = "lead"
      BY <1>0 DEF Conversation, Status, Outcome
  <2>2. Request(c, ping, origin) /\ UNCHANGED ui
      BY <1>4 DEF ConfirmLead
  <2>. HIDE DEF c
  <2>. QED BY <1>0, <2>1, <2>2, RequestKeepsRow
<1>5. CASE DismissLead
  <2>1. Dismissed \in Conversation /\ Dismissed.pings = conv.pings
        /\ (Dismissed.status = "lead_pending" => conv.pre = "lead_pending")
      BY <1>0, NoStatusIsNone DEF Dismissed, Conversation, Status, Open
  <2>2. Dismissed.status = "lead_pending" => origin = "unknown"
      BY <1>0, <2>1 DEF MarkStands
  <2>3. Request(Dismissed, ping, origin) /\ UNCHANGED ui
      BY <1>5 DEF DismissLead
  <2>. QED BY <1>0, <2>1, <2>2, <2>3, RequestKeepsRow
<1>6. CASE FinishDialog
  <2>. DEFINE c == [conv EXCEPT !.status = "finished", !.ai = FALSE]
  <2>1. c \in Conversation /\ c.pings = conv.pings /\ c.status = "finished"
      BY <1>0 DEF Conversation, Status, Outcome
  <2>2. Request(c, ping, origin) /\ UNCHANGED ui
      BY <1>6 DEF FinishDialog
  <2>. HIDE DEF c
  <2>. QED BY <1>0, <2>1, <2>2, RequestKeepsRow
<1>7. CASE PatchDialog
  <2>1. ASSUME NEW on \in BOOLEAN, Request([conv EXCEPT !.ai = on], ping, origin), UNCHANGED ui
        PROVE  RowIInv'
    <3>. DEFINE c == [conv EXCEPT !.ai = on]
    <3>1. c \in Conversation /\ c.pings = conv.pings /\ c.pre = conv.pre /\ c.status = conv.status
        BY <1>0 DEF Conversation
    <3>2. Request(c, ping, origin)
        BY <2>1
    <3>. HIDE DEF c
    <3>. QED BY <1>0, <2>1, <3>1, <3>2, RequestKeepsRow DEF MarkStands
  <2>2. ASSUME NEW st \in Status \ {"no_reply"}, Request([conv EXCEPT !.status = st], ping, "unknown"),
               UNCHANGED ui
        PROVE  RowIInv'
    <3>. DEFINE c == [conv EXCEPT !.status = st]
    <3>1. c \in Conversation /\ c.pings = conv.pings
        BY <1>0 DEF Conversation
    <3>2. Request(c, ping, "unknown")
        BY <2>2
    <3>. HIDE DEF c
    <3>. QED BY <1>0, <2>2, <3>1, <3>2, RequestKeepsRow
  <2>. QED BY <1>7, <2>1, <2>2 DEF PatchDialog
<1>8. CASE SendFromInbox
  <2>1. TakenOver(conv) \in Conversation /\ TakenOver(conv).status = "manual"
        /\ TakenOver(conv).pings = conv.pings
      BY <1>0 DEF TakenOver, Conversation, Status, Outcome
  <2>. QED BY <1>0, <1>8, <2>1, RequestKeepsRow DEF SendFromInbox
<1>9. CASE RecordFromInbox
  <2>1. /\ lastBy' \in {"human", lastBy} /\ ui' = "idle"
        /\ UNCHANGED <<kind, conv, ping, fu, acts, faults, origin>>
      BY <1>9 DEF RecordFromInbox
  <2>. QED BY <1>0, <2>1, RowChange DEF RowType, MarkStands
<1>. QED BY <1>1, <1>2, <1>3, <1>4, <1>5, <1>6, <1>7, <1>8, <1>9 DEF InboxNext

-----------------------------------------------------------------------------
(* The invariant and the theorems.                                          *)

LEMMA InitHolds == InitState => MemoryIInv /\ RowIInv
<1>. SUFFICES ASSUME InitState PROVE MemoryIInv /\ RowIInv
    OBVIOUS
<1>0. \A m \in Msgs : handler[m] = NoHandler("unsent")
    BY DEF InitState
<1>1. \A t \in Tasks : job[t] = NoJob
    BY DEF InitState, NoJob
<1>2. /\ saved = {} /\ buffer = {} /\ covered = {} /\ raced = {} /\ ctx = FALSE
      /\ tracked = NoTask /\ origin = "unknown"
    BY DEF InitState
<1>3. MemoryType
  <2>1. handler \in [Msgs -> HandlerRow] /\ job \in [Tasks -> JobRow]
      BY NoJobRow DEF InitState, NoHandler, HandlerRow, JobRow, Status, Open, NoJob
  <2>. QED BY <1>2, <2>1 DEF MemoryType
<1>4. Stored
    BY <1>0, <1>1, NoJobRow DEF Stored, NoHandler
<1>5. TasksSuffice
  <2>1. Busy = {}
      BY <1>1, NoJobRow DEF Busy
  <2>. QED BY <2>1, Counts, FS_EmptySet DEF TasksSuffice
<1>6. OnlyPassed /\ ContextStands /\ BufferIsScheduled
    BY <1>1, <1>2, NoJobRow DEF OnlyPassed, ContextStands, BufferIsScheduled
<1>7. OneTask /\ Waiting
    BY <1>0, <1>1, NoJobRow DEF OneTask, Waiting, Busy, NoHandler
<1>8. NothingForgotten
    BY <1>0 DEF NothingForgotten, Unanswered, NoHandler
<1>9. RowType
  <2>1. conv \in Conversation
      BY DialogCounts DEF InitState, Conversation, Status, Open
  <2>2. fu \in FuRow
      BY DialogCounts DEF InitState, FuIdle, FuRow, Open
  <2>. QED BY <2>1, <2>2, DialogCounts DEF InitState, RowType
<1>10. MarkStands /\ TickKnows
    BY <1>2 DEF InitState, FuIdle, MarkStands, TickKnows
<1>. QED BY <1>3, <1>4, <1>5, <1>6, <1>7, <1>8, <1>9, <1>10 DEF MemoryIInv, RowIInv

LEMMA NextKeepsAll == MemoryIInv /\ RowIInv /\ [Next]_vars => MemoryIInv' /\ RowIInv'
<1>. SUFFICES ASSUME MemoryIInv, RowIInv, [Next]_vars PROVE MemoryIInv' /\ RowIInv'
    OBVIOUS
<1>1. CASE Next
    BY <1>1, NextKeepsMemory, ListenerKeepsRow, FollowUpKeepsRow, InboxKeepsRow DEF Next, RowIInv
<1>2. CASE UNCHANGED vars
    BY <1>2, MemoryRests, RowRests DEF vars, MemoryParts, RowParts
<1>. QED BY <1>1, <1>2

\* Whatever listener, follow-up worker, queue worker and manager do to a dialog in
\* whatever order, the listener's memory and the row keep their relations.
THEOREM DialogInvariant == Spec => [](MemoryIInv /\ RowIInv)
<1>. QED BY InitHolds, NextKeepsAll, PTL DEF Spec

\* Types: pings never exceed follow_up_max_pings although the counter is raised from a
\* dialog read before the language model was asked, and no task is tracked that ended.
THEOREM DialogTypes == Spec => []DialogTypeOK
<1>1. MemoryIInv /\ RowIInv => DialogTypeOK
    BY DEF MemoryIInv, RowIInv, MemoryType, RowType, HandlerRow, JobRow, FuRow, DialogTypeOK
<1>. QED BY <1>1, DialogInvariant, PTL

\* debounce: a message in message_buffers is never stranded there, however cancels,
\* timers, refused takes and restarts follow each other.
THEOREM BufferNeverStranded == Spec => []BufferIsScheduled
<1>1. MemoryIInv => BufferIsScheduled
    BY DEF MemoryIInv
<1>. QED BY <1>1, DialogInvariant, PTL

\* debounce_tasks: two tasks answer one contact at once only after an over-old buffer
\* was processed by its handler, or after two handlers awaited one cancelled task.
THEOREM AnswersOneAtATime == Spec => []OneAnswerAtATime
<1>1. ASSUME MemoryIInv PROVE OneAnswerAtATime
  <2>1. SUFFICES ASSUME raced \cap {"direct", "double"} = {} PROVE Cardinality(Answering) <= 1
      BY DEF OneAnswerAtATime
  <2>2. Answering \subseteq Busy /\ Busy \subseteq {tracked}
      BY <1>1, <2>1 DEF MemoryIInv, OneTask, Answering, Busy
  <2>3. IsFiniteSet({tracked}) /\ Cardinality({tracked}) = 1
      BY FS_Singleton
  <2>4. Answering \subseteq {tracked}
      BY <2>2
  <2>. QED BY <2>3, <2>4, FS_Subset
<1>. QED BY <1>1, DialogInvariant, PTL

\* _send_to_ai asks nobody whether the dialog is still the AI's: what it answers was
\* buffered while it was.
THEOREM AnswersStayOwn == Spec => []AnswersOnlyItsOwn
<1>1. MemoryIInv => AnswersOnlyItsOwn
    BY DEF MemoryIInv, OnlyPassed, Passed, AnswersOnlyItsOwn, Answering
<1>. QED BY <1>1, DialogInvariant, PTL

\* schedule_ai_response may cancel a task at the model, while typing or after Telegram
\* took the reply: what it was about to answer is in the history of the next answer.
THEOREM NothingIsForgotten == Spec => []NothingForgotten
<1>1. MemoryIInv => NothingForgotten
    BY DEF MemoryIInv
<1>. QED BY <1>1, DialogInvariant, PTL

\* follow_up.py and handle_no_reply_revert write the status from what they read before;
\* a status somebody decided on in between survives them.
THEOREM OutcomesStay == Spec => OutcomeStays
<1>1. ASSUME MemoryIInv, RowIInv, [Next]_vars, conv.status \in Outcome,
             conv'.status # conv.status
      PROVE  acts' # acts \/ \E t \in Tasks : job[t].pc = "gen" /\ job'[t] # job[t]
  <2>0. conv \in Conversation /\ job \in [Tasks -> JobRow] /\ conv.status \notin Open
        /\ acts \in Nat
      BY <1>1 DEF RowIInv, RowType, MemoryIInv, MemoryType, Outcome, Open
  <2>1. CASE ListenerNext
    <3>1. ASSUME NEW m \in Msgs, RevertAndGate(m)
          PROVE  conv' = conv
        BY <2>0, <3>1 DEF RevertAndGate, Reverted, Open
    <3>2. ASSUME NEW m \in Msgs, BotMessage(m)
          PROVE  conv' = conv
        BY <2>0, <3>2 DEF BotMessage, Open
    <3>3. ASSUME NEW m \in Msgs, Arrive(m) \/ SaveInbound(m) \/ Schedule(m) \/ Resume(m)
          PROVE  conv' = conv
        BY <3>3 DEF Arrive, SaveInbound, Schedule, Resume
    <3>4. ASSUME NEW t \in Tasks, Fire(t) \/ Deliver(t) \/ RecordAnswer(t)
          PROVE  conv' = conv
        BY <3>4 DEF Fire, Deliver, RecordAnswer
    <3>5. ManagerTypes \/ RestartListener => conv' = conv
        BY DEF ManagerTypes, RestartListener
    <3>6. PICK t \in Tasks : Generate(t)
        BY <1>1, <2>1, <3>1, <3>2, <3>3, <3>4, <3>5 DEF ListenerNext
    <3>7. job[t].pc = "gen" /\ job'[t].pc \in {"hold", "none"}
        BY <2>0, <3>6, NoJobRow DEF Generate, JobRow
    <3>. QED BY <3>7
  <2>2. CASE FollowUpNext
    <3>1. conv'.status = conv.status
        BY <2>0, <2>2 DEF FollowUpNext, Mark, PickDialog, EarlierRowEnds, LeaveAlone, AutoFinish,
               AutoFinished, ComposePing, NoPingText, EnqueuePing, TickDies, SendPing, Open,
               Conversation
    <3>. QED BY <1>1, <3>1
  <2>3. CASE InboxNext
    <3>1. CASE RecordFromInbox
        BY <1>1, <3>1 DEF RecordFromInbox
    <3>2. CASE ~RecordFromInbox
      <4>1. acts' = acts + 1
          BY <2>3, <3>2 DEF InboxNext, DisableAi, EnableAi, MarkLead, ConfirmLead, DismissLead,
                 FinishDialog, PatchDialog, SendFromInbox, Request
      <4>. QED BY <2>0, <4>1
    <3>. QED BY <3>1, <3>2
  <2>4. CASE UNCHANGED vars
      BY <1>1, <2>4 DEF vars
  <2>. QED BY <1>1, <2>1, <2>2, <2>3, <2>4 DEF Next
<1>. QED BY <1>1, DialogInvariant, PTL DEF Spec, OutcomeStays

\* pre_lead_status: dismissing a detected lead brings back the status it had when it
\* was detected, whatever sweeps, pings, replies and requests came in between.
THEOREM DismissBringsBack == Spec => DismissRestores
<1>1. ASSUME RowIInv, DismissLead
      PROVE  origin = "unknown" \/ conv'.status = origin
  <2>1. conv' = Dismissed /\ conv \in Conversation /\ origin \in Status \cup {"unknown"} /\ MarkStands
      BY <1>1 DEF DismissLead, Request, RowIInv, RowType
  <2>2. SUFFICES ASSUME origin # "unknown" PROVE conv'.status = origin
      OBVIOUS
  <2>3. conv.pre = origin /\ origin \in Status
      BY <2>1, <2>2 DEF MarkStands
  <2>4. conv.pre # NoStatus
      BY <2>3, NoStatusIsNone
  <2>. QED BY <2>1, <2>3, <2>4 DEF Dismissed, Conversation
<1>2. RowIInv /\ [Next]_vars => [DismissLead => origin = "unknown" \/ conv'.status = origin]_vars
    BY <1>1
<1>. QED BY <1>2, DialogInvariant, PTL DEF Spec, DismissRestores
=============================================================================
