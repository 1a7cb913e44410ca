------------------------ MODULE OutreachContactProofs -----------------------
(***************************************************************************)
(* Theorems about what the outreach pipeline owes one contact, for any     *)
(* number of campaigns, contacts, accounts and rows and any budgets: how   *)
(* many accounts try it, which account writes to it, how many rows and how *)
(* many openers it costs.  The last two count over all rows of the         *)
(* contact, so that they need sums over a set of rows: every row beyond    *)
(* the failed ones is paid for, and every copy of its message.             *)
(***************************************************************************)
EXTENDS OutreachQueueProofs, NaturalsInduction

-----------------------------------------------------------------------------
(* The cap of a rotation.                                                   *)

\* No account was restricted or lost so far.
Calm == spent["flag"] = 0 /\ spent["auth"] = 0

\* A row was tried by at most the cap of senders; at the cap, it stays with one of them.
TriedWithin(r) ==
    /\ IsFiniteSet(r.tried) /\ Cardinality(r.tried) <= ResolveRotationCap
    /\ Cardinality(r.tried) = ResolveRotationCap => r.s \in r.tried

CalmRotation ==
    Calm =>
        /\ \A s \in Senders : online[s] /\ restriction[s] = "none"
        /\ worker.pc \notin {"flagged", "evacuated", "failing", "authdead"}
        /\ \A i \in Ids : TriedWithin(queue[i])
        /\ \A k \in DOMAIN enq.rows : enq.rows[k].tried = {}

\* No transaction is open that serves a restriction.
CalmTxns == Calm => txn["listener"].op = "none" /\ txn["enqueue"].op # "failover"

\* A row that waits for its next sender was not tried by the cap of them.
BelowTheCap == worker.pc = "unresolved" => ~RotatedOut

LEMMA UntriedIsWithin ==
    ASSUME NEW r, r.tried = {}
    PROVE  TriedWithin(r)
BY FS_EmptySet, BoundAssumption DEF TriedWithin

\* One more sender, the one the row is with.
LEMMA StampIsWithin ==
    ASSUME NEW r \in Row, TriedWithin(r)
    PROVE  TriedWithin(Stamped(r, r.s))
<1>. DEFINE n == Cardinality(r.tried)
            m == Cardinality(r.tried \cup {r.s})
<1>1. Stamped(r, r.s).tried = r.tried \cup {r.s} /\ Stamped(r, r.s).s = r.s
    BY DEF Stamped, Row
<1>2. IsFiniteSet(r.tried) /\ n \in Nat
    BY FS_CardinalityType DEF TriedWithin
<1>3. /\ IsFiniteSet(r.tried \cup {r.s}) /\ m \in Nat
      /\ IF r.s \in r.tried THEN m = n ELSE m = n + 1
    BY <1>2, FS_AddElement, FS_CardinalityType
<1>4. n <= ResolveRotationCap /\ (n = ResolveRotationCap => r.s \in r.tried)
    BY DEF TriedWithin
<1>. HIDE DEF n, m
<1>5. m <= ResolveRotationCap
    BY <1>2, <1>3, <1>4, BoundAssumption
<1>. QED BY <1>1, <1>3, <1>5 DEF TriedWithin, m

\* Events are only ever counted up.
LEMMA CalmBefore ==
    ASSUME IInv, Calm', spent' = spent \/ \E e \in Events : Spend(e)
    PROVE  Calm /\ ~Spend("flag") /\ ~Spend("auth")
<1>1. spent \in [Events -> Nat] /\ {"flag", "auth"} \subseteq Events
    BY DEF IInv, TypeOK, Events
<1>2. ASSUME NEW e \in Events, Spend(e)
      PROVE  spent'[e] = spent[e] + 1 /\ \A d \in Events \ {e} : spent'[d] = spent[d]
    BY <1>1, <1>2 DEF Spend
<1>. QED BY <1>1, <1>2 DEF Calm

LEMMA EventsAreCounted ==
    ASSUME [Next]_vars
    PROVE  spent' = spent \/ \E e \in Events : Spend(e)
<1>1. ASSUME NEW e, Spend(e), e \in {"crash", "lost", "flag", "verdict", "auth", "requeue",
                                     "takeover", "inbound"}
      PROVE  spent' = spent \/ \E d \in Events : Spend(d)
    BY <1>1 DEF Events
<1>2. CASE WorkerNext
    BY <1>1, <1>2
    DEF WorkerNext, Gate, Pick, PickNothing, PauseExpired, Restart, SendStep, RefuseOffline,
             RefuseTakenOver, Proceed, Deliver, CommitSent, LoseCommit, RejectSend, LoseAnswer,
             FloodWait, PrivacyRestricted, NotResolved, Reroute, RerouteNowhere, NotRegistered,
             Restricted, EvacuationReads, EvacuateFlagged, RollbackReads, RollbackSuspects,
             FailFlagged, AuthError, FailAllOfSender
<1>3. CASE EnqueueNext
    BY <1>3 DEF EnqueueNext, EnqueueStep, SweepReads, Sweep, EvenSplitReads, EvenSplit,
             Autopause, OpenBatch, StageContact, SkipContact, CommitBatch
<1>4. CASE ApiNext
    BY <1>1, <1>4 DEF ApiNext, Start, Pause, Finish, RequeueFailed, Takeover, EnableAi, Inbound,
             SignalReads, AntispamSignal, ClearReads, Clear, Escalate, GoOffline, GoOnline
<1>5. CASE UNCHANGED vars
    BY <1>5 DEF vars
<1>. QED BY <1>2, <1>3, <1>4, <1>5 DEF Next

LEMMA TxnsStayCalm ==
    ASSUME IInv, CalmRotation, CalmTxns, [Next]_vars
    PROVE  CalmTxns'
<1>. SUFFICES ASSUME Calm'
              PROVE  txn'["listener"].op = "none" /\ txn'["enqueue"].op # "failover"
    BY DEF CalmTxns
<1>0. /\ Calm /\ ~Spend("flag") /\ ~Spend("auth")
      /\ txn \in [Movers -> Txn] /\ Movers = {"worker", "enqueue", "listener"}
    BY EventsAreCounted, CalmBefore DEF IInv, TypeOK, Movers
<1>1. /\ \A s \in Senders : online[s] /\ restriction[s] = "none"
      /\ txn["listener"].op = "none" /\ txn["enqueue"].op # "failover"
    BY <1>0 DEF CalmRotation, CalmTxns
<1>2. NoTxn.op = "none"
    BY DEF NoTxn
<1>3. CASE txn' = txn
    BY <1>1, <1>3
<1>4. ASSUME NEW op, NEW x, Commits("worker", op, x) \/ Commits("enqueue", op, x)
      PROVE  txn'["listener"].op = "none" /\ txn'["enqueue"].op # "failover"
    BY <1>0, <1>1, <1>2, <1>4 DEF Commits
<1>5. ASSUME NEW op, NEW x, NEW pool, NEW running,
             \/ Opens("worker", op, x, pool, running)
             \/ op = "even" /\ Opens("enqueue", op, x, pool, running)
      PROVE  txn'["listener"].op = "none" /\ txn'["enqueue"].op # "failover"
    BY <1>0, <1>1, <1>5 DEF Opens
<1>6. CASE Restart
  <2>1. txn'["listener"] = txn["listener"] /\ txn'["enqueue"] = NoTxn
      BY <1>0, <1>6 DEF Restart
  <2>. QED BY <1>1, <1>2, <2>1
<1>7. CASE WorkerNext /\ ~Restart
    BY <1>0, <1>3, <1>4, <1>5, <1>7 DEF WorkerNext, Gate, Pick, PickNothing, PauseExpired, SendStep,
             RefuseOffline, RefuseTakenOver, Proceed, Deliver, CommitSent, LoseCommit, RejectSend,
             LoseAnswer, FloodWait, PrivacyRestricted, NotResolved, Reroute, RerouteNowhere,
             NotRegistered, Restricted, EvacuationReads, EvacuateFlagged, RollbackReads,
             RollbackSuspects, FailFlagged, AuthError, FailAllOfSender
<1>8. CASE EnqueueNext
  <2>1. ASSUME NEW s \in Senders PROVE ~SweepReads(s)
      BY <1>1 DEF SweepReads, Stranding, Healthy
  <2>. QED BY <1>3, <1>4, <1>5, <1>8, <2>1 DEF EnqueueNext, EnqueueStep, Sweep, EvenSplitReads,
              EvenSplit, Autopause, OpenBatch, StageContact, SkipContact, CommitBatch
<1>9. CASE ApiNext
    BY <1>0, <1>1, <1>3, <1>9 DEF ApiNext, Start, Pause, Finish, RequeueFailed, Takeover, EnableAi,
             Inbound, SignalReads, AntispamSignal, ClearReads, Clear, Commits, Escalate, GoOffline,
             GoOnline
<1>10. CASE UNCHANGED vars
    BY <1>3, <1>10 DEF vars
<1>. QED BY <1>6, <1>7, <1>8, <1>9, <1>10 DEF Next

LEMMA StaysBelowTheCap ==
    ASSUME IInv, BelowTheCap, [Next]_vars
    PROVE  BelowTheCap'
<1>1. CASE worker' = worker /\ RowsKept
  <2>1. worker.pc = "unresolved" => Held' = Held
      BY <1>1, HeldStays
  <2>. QED BY <1>1, <2>1 DEF BelowTheCap, RotatedOut
<1>2. CASE worker'.pc # "unresolved"
    BY <1>2 DEF BelowTheCap
<1>3. CASE NotResolved
  <2>1. worker'.id = worker.id /\ worker'.s = worker.s /\ queue' = queue
      BY <1>3 DEF NotResolved, Goto, IInv, TypeOK, Worker
  <2>. QED BY <1>3, <2>1 DEF NotResolved, BelowTheCap, RotatedOut, Held
<1>4. CASE WorkerNext /\ ~NotResolved
  <2>1. ASSUME NEW pc, Goto(pc) PROVE worker'.pc = pc
      BY <2>1 DEF Goto, IInv, TypeOK, Worker
  <2>2. IdleWorker.pc = "idle"
      BY DEF IdleWorker
  <2>3. worker'.pc # "unresolved" \/ \E c \in Campaigns : PauseExpired(c)
    <3>1. CASE SendStep
        BY <1>4, <2>1, <2>2, <3>1 DEF SendStep, RefuseOffline,
             RefuseTakenOver, Proceed, Deliver, CommitSent, LoseCommit, RejectSend, LoseAnswer,
             FloodWait, PrivacyRestricted, Reroute, RerouteNowhere, NotRegistered, Restricted,
             EvacuationReads, EvacuateFlagged, RollbackReads, RollbackSuspects, FailFlagged,
             AuthError, FailAllOfSender
    <3>. QED BY <1>4, <2>2, <3>1 DEF WorkerNext, Gate, Pick, PickNothing, Restart
  <2>4. ASSUME NEW c \in Campaigns, PauseExpired(c)
        PROVE  worker' = worker /\ RowsKept
      BY <2>4, SameQueueKeeps DEF PauseExpired
  <2>. QED BY <1>1, <1>2, <2>3, <2>4
<1>5. CASE EnqueueNext
  <2>1. worker' = worker
      BY <1>5 DEF EnqueueNext, EnqueueStep, SweepReads, Sweep, EvenSplitReads, EvenSplit, Autopause,
             OpenBatch, StageContact, SkipContact, CommitBatch
  <2>. QED BY <1>1, <1>5, <2>1, StepTxn, EnqueueKeeps
<1>6. CASE ApiNext
  <2>1. worker' = worker
      BY <1>6 DEF ApiNext, Start, Pause, Finish, RequeueFailed, Takeover, EnableAi, Inbound,
             SignalReads, AntispamSignal, ClearReads, Clear, Escalate, GoOffline, GoOnline
  <2>. QED BY <1>1, <1>6, <2>1, StepTxn, ApiKeeps
<1>7. CASE UNCHANGED vars
    BY <1>1, <1>7, SameQueueKeeps DEF vars
<1>. QED BY <1>3, <1>4, <1>5, <1>6, <1>7 DEF Next

\* Rows that keep whom they tried, and move only when nobody did.
RotationKept ==
    \A i \in DOMAIN queue' :
        /\ i \in Ids
        /\ queue'[i].tried = queue[i].tried
        /\ queue'[i].s = queue[i].s \/ queue[i].tried = {}

LEMMA KeptIsWithin ==
    ASSUME RotationKept, \A i \in Ids : TriedWithin(queue[i])
    PROVE  \A i \in DOMAIN queue' : TriedWithin(queue'[i])
<1>1. ASSUME NEW i \in DOMAIN queue' PROVE TriedWithin(queue'[i])
  <2>1. CASE queue[i].tried = {}
      BY <2>1, UntriedIsWithin DEF RotationKept
  <2>2. CASE queue[i].tried # {}
      BY <2>2 DEF RotationKept, TriedWithin
  <2>. QED BY <2>1, <2>2
<1>. QED BY <1>1

LEMMA RotationOfApi ==
    ASSUME IInv, CalmRotation, CalmTxns, ApiNext, Calm'
    PROVE  CalmRotation'
<1>0. /\ TypeOK /\ \A i \in Ids : queue[i] \in Row
      /\ Calm /\ ~Spend("flag") /\ ~Spend("auth")
    BY IdsAreNumbers, EventsAreCounted, CalmBefore DEF IInv, Next
<1>1. /\ \A s \in Senders : online[s] /\ restriction[s] = "none"
      /\ worker.pc \notin {"flagged", "evacuated", "failing", "authdead"}
      /\ \A i \in Ids : TriedWithin(queue[i])
      /\ \A k \in DOMAIN enq.rows : enq.rows[k].tried = {}
      /\ txn["listener"].op = "none" /\ txn["enqueue"].op # "failover"
    BY <1>0 DEF CalmRotation, CalmTxns
<1>a. \A s \in Senders : ~Clear(s) /\ \A status : ~AntispamSignal(s, status)
    BY <1>1 DEF Clear, Commits, AntispamSignal
<1>2. UNCHANGED <<online, restriction, worker, enq>>
    BY <1>0, <1>1, <1>a DEF ApiNext, Start, Pause, Finish, RequeueFailed, Takeover, EnableAi, Inbound,
             SignalReads, AntispamSignal, ClearReads, Clear, Escalate, GoOffline, GoOnline
<1>3. RotationKept
  <2>1. ASSUME NEW c \in Campaigns, Finish(c)
        PROVE  RotationKept
      BY <1>0, <2>1 DEF Finish, RotationKept, Row
  <2>2. ASSUME NEW c \in Campaigns, RequeueFailed(c)
        PROVE  RotationKept
    <3>. DEFINE M == Requeued(c)
    <3>1. queue' = [i \in Ids |-> IF i \in M
                        THEN [queue[i] EXCEPT !.st = "pending", !.att = 0, !.reopens = @ + 1]
                        ELSE queue[i]]
        BY <2>2 DEF RequeueFailed
    <3>. HIDE DEF M
    <3>. QED BY <1>0, <3>1 DEF RotationKept, Row
  <2>3. ASSUME NEW s \in Senders, NEW p \in Contacts, NEW cs, Takeover(s, p) \/ Inbound(s, p, cs)
        PROVE  RotationKept
      BY <1>0, <2>3 DEF Takeover, Inbound, RotationKept, Row
  <2>4. CASE queue' = queue
      BY <2>4 DEF RotationKept, Ids
  <2>. QED
      BY <1>0, <1>1, <1>a, <2>1, <2>2, <2>3, <2>4
      DEF ApiNext, Start, Pause, EnableAi, SignalReads, ClearReads, Escalate, GoOffline, GoOnline
<1>. QED BY <1>1, <1>2, <1>3, KeptIsWithin DEF CalmRotation, Ids

LEMMA RotationOfEnqueue ==
    ASSUME IInv, CalmRotation, CalmTxns, EnqueueNext, Calm'
    PROVE  CalmRotation'
<1>0. /\ TypeOK /\ \A i \in Ids : queue[i] \in Row
      /\ Calm
    BY IdsAreNumbers, EventsAreCounted, CalmBefore DEF IInv, Next
<1>1. /\ \A s \in Senders : online[s] /\ restriction[s] = "none"
      /\ worker.pc \notin {"flagged", "evacuated", "failing", "authdead"}
      /\ \A i \in Ids : TriedWithin(queue[i])
      /\ \A k \in DOMAIN enq.rows : enq.rows[k].tried = {}
      /\ txn["listener"].op = "none" /\ txn["enqueue"].op # "failover"
    BY <1>0 DEF CalmRotation, CalmTxns
<1>2. UNCHANGED <<online, restriction, worker>>
    BY DEF EnqueueNext, EnqueueStep, SweepReads, Sweep, EvenSplitReads, EvenSplit,
             Autopause, OpenBatch, StageContact, SkipContact, CommitBatch
<1>3. ASSUME NEW s \in Senders, Sweep(s)
      PROVE  FALSE
    BY <1>1, <1>3 DEF Sweep, Commits
<1>4. ASSUME NEW c \in Campaigns, EvenSplit(c)
      PROVE  CalmRotation'
  <2>. DEFINE pool == Pool[c] \cap txn["enqueue"].pool
  <2>1. PICK M \in SUBSET {i \in Ids : Movable(i)} : \E recv \in [M -> pool] :
            queue' = [i \in Ids |-> IF i \in M THEN [queue[i] EXCEPT !.s = recv[i]] ELSE queue[i]]
      BY <1>4 DEF EvenSplit
  <2>2. RotationKept
    <3>1. \A i \in M : queue[i].tried = {}
        BY <2>1 DEF Movable
    <3>. QED BY <1>0, <2>1, <3>1 DEF RotationKept, Row
  <2>3. enq' = enq
      BY <1>4 DEF EvenSplit
  <2>. QED BY <1>1, <1>2, <2>2, <2>3, KeptIsWithin DEF CalmRotation, Ids
<1>5. CASE CommitBatch
  <2>1. queue \in Seq(Row) /\ enq.rows \in Seq(Row) /\ queue' = queue \o enq.rows
      BY <1>0, <1>5 DEF CommitBatch, TypeOK, Batch
  <2>2. ASSUME NEW i \in DOMAIN queue'
        PROVE  TriedWithin(queue'[i])
    <3>1. DOMAIN queue' = 1 .. (Len(queue) + Len(enq.rows)) /\ Len(queue) \in Nat /\ Len(enq.rows) \in Nat
        BY <2>1
    <3>2. CASE i <= Len(queue)
        BY <1>1, <2>1, <3>1, <3>2 DEF Ids
    <3>3. CASE ~(i <= Len(queue))
      <4>1. i - Len(queue) \in DOMAIN enq.rows /\ queue'[i] = enq.rows[i - Len(queue)]
          BY <2>1, <3>1, <3>3
      <4>. QED BY <1>1, <4>1, UntriedIsWithin
    <3>. QED BY <3>2, <3>3
  <2>3. \A k \in DOMAIN enq'.rows : enq'.rows[k].tried = {}
      BY <1>5 DEF CommitBatch, NoBatch
  <2>. QED BY <1>1, <1>2, <2>2, <2>3 DEF CalmRotation, Ids
<1>6. ASSUME queue' = queue, \A k \in DOMAIN enq'.rows : enq'.rows[k].tried = {}
      PROVE  CalmRotation'
    BY <1>1, <1>2, <1>6 DEF CalmRotation, Ids
<1>7. ASSUME NEW p \in Contacts, NEW s \in Senders, StageContact(p, s)
      PROVE  \A k \in DOMAIN enq'.rows : enq'.rows[k].tried = {}
  <2>1. enq.rows \in Seq(Row) /\ enq \in Batch
      BY <1>0 DEF TypeOK, Batch
  <2>. DEFINE r == NewRow(enq.c, p, s)
  <2>2. enq'.rows = enq.rows \/ enq'.rows = Append(enq.rows, r)
      BY <1>7, <2>1 DEF StageContact, Batch
  <2>3. r.tried = {}
      BY DEF NewRow
  <2>. HIDE DEF r
  <2>4. ASSUME NEW k \in DOMAIN Append(enq.rows, r)
        PROVE  Append(enq.rows, r)[k].tried = {}
    <3>1. /\ Len(enq.rows) \in Nat
          /\ DOMAIN Append(enq.rows, r) = 1 .. (Len(enq.rows) + 1)
          /\ DOMAIN enq.rows = 1 .. Len(enq.rows)
          /\ \A j \in 1 .. Len(enq.rows) : Append(enq.rows, r)[j] = enq.rows[j]
          /\ Append(enq.rows, r)[Len(enq.rows) + 1] = r
        BY <2>1
    <3>2. k \in 1 .. Len(enq.rows) \/ k = Len(enq.rows) + 1
        BY <3>1
    <3>. QED BY <1>1, <2>3, <3>1, <3>2
  <2>. QED BY <1>1, <2>2, <2>4
<1>8. ASSUME NEW c \in Campaigns, Autopause(c)
      PROVE  CalmRotation'
    BY <1>1, <1>6, <1>8 DEF Autopause
<1>9. ASSUME NEW c \in Campaigns, NEW todo \in SUBSET Contacts, OpenBatch(c, todo)
      PROVE  CalmRotation'
    BY <1>6, <1>9 DEF OpenBatch
<1>10. ASSUME NEW p \in Contacts, SkipContact(p)
       PROVE  CalmRotation'
  <2>1. enq'.rows = enq.rows /\ queue' = queue
      BY <1>0, <1>10 DEF SkipContact, TypeOK, Batch
  <2>. QED BY <1>1, <1>6, <2>1
<1>11. ASSUME NEW p \in Contacts, NEW s \in Senders, StageContact(p, s)
       PROVE  CalmRotation'
    BY <1>6, <1>7, <1>11 DEF StageContact
<1>12. CASE (\E s \in Senders : SweepReads(s)) \/ \E c \in Campaigns : EvenSplitReads(c)
    BY <1>1, <1>6, <1>12 DEF SweepReads, EvenSplitReads
<1>. QED BY <1>12, <1>3, <1>4, <1>5, <1>8, <1>9, <1>10, <1>11 DEF EnqueueNext, EnqueueStep

LEMMA RotationOfWorker ==
    ASSUME IInv, CalmRotation, BelowTheCap, WorkerNext, Calm'
    PROVE  CalmRotation'
<1>0. /\ TypeOK /\ queue \in Seq(Row) /\ \A i \in Ids : queue[i] \in Row
      /\ Calm /\ ~Spend("flag") /\ ~Spend("auth")
    BY IdsAreNumbers, EventsAreCounted, CalmBefore DEF IInv, Next, TypeOK
<1>1. /\ \A s \in Senders : online[s] /\ restriction[s] = "none"
      /\ worker.pc \notin {"flagged", "evacuated", "failing", "authdead"}
      /\ \A i \in Ids : TriedWithin(queue[i])
      /\ \A k \in DOMAIN enq.rows : enq.rows[k].tried = {}
    BY <1>0 DEF CalmRotation
<1>2. /\ ~EvacuationReads /\ ~EvacuateFlagged /\ ~RollbackReads /\ ~RollbackSuspects
      /\ ~FailFlagged /\ ~FailAllOfSender /\ ~AuthError
      /\ \A status \in {"spam_limited", "frozen"} : ~Restricted(status)
    BY <1>0, <1>1 DEF EvacuationReads, EvacuateFlagged, RollbackReads, RollbackSuspects,
           FailFlagged, FailAllOfSender, AuthError, Restricted
<1>3. /\ UNCHANGED <<online, restriction>>
      /\ enq' = enq \/ enq' = NoBatch
    BY <1>2 DEF WorkerNext, Gate, Pick, PickNothing, PauseExpired, Restart, SendStep, RefuseOffline,
             RefuseTakenOver, Proceed, Deliver, CommitSent, LoseCommit, RejectSend, LoseAnswer,
             FloodWait, PrivacyRestricted, NotResolved, Reroute, RerouteNowhere, NotRegistered
<1>4. worker'.pc \notin {"flagged", "evacuated", "failing", "authdead"}
  <2>1. \/ worker' = IdleWorker \/ worker'.pc \in {"gated", "picked"} \/ worker' = worker
        \/ \E pc \in {"sending", "acked", "unresolved"} : Goto(pc)
    <3>1. CASE SendStep
      <4>1. worker' = IdleWorker \/ \E pc \in {"sending", "acked", "unresolved"} : Goto(pc)
          BY <1>2, <3>1 DEF SendStep, RefuseOffline, RefuseTakenOver, Proceed, Deliver, CommitSent,
                 LoseCommit, RejectSend, LoseAnswer, FloodWait, PrivacyRestricted, NotResolved,
                 Reroute, RerouteNowhere, NotRegistered
      <4>. QED BY <4>1
    <3>2. ASSUME NEW s \in Senders, Gate(s) PROVE worker'.pc = "gated"
        BY <3>2 DEF Gate
    <3>3. ASSUME NEW i \in Ids, Pick(i) PROVE worker'.pc = "picked"
        BY <3>3 DEF Pick
    <3>. QED BY <3>1, <3>2, <3>3 DEF WorkerNext, PickNothing, PauseExpired, Restart
  <2>. QED BY <1>0, <1>1, <2>1 DEF Goto, IdleWorker, TypeOK, Worker
<1>5. \A k \in DOMAIN enq'.rows : enq'.rows[k].tried = {}
    BY <1>1, <1>3 DEF NoBatch
<1>6. ASSUME \A i \in DOMAIN queue' : TriedWithin(queue'[i])
      PROVE  CalmRotation'
    BY <1>1, <1>3, <1>4, <1>5, <1>6 DEF CalmRotation, Ids
<1>7. ASSUME worker.id \in Ids, NEW r, TriedWithin(r), queue' = [queue EXCEPT ![worker.id] = r]
      PROVE  CalmRotation'
    BY <1>0, <1>1, <1>6, <1>7 DEF Ids
<1>8. ASSUME NEW r \in Row, TriedWithin(r)
      PROVE  TriedWithin(AfterFailure(r))
  <2>1. AfterFailure(r).tried = r.tried /\ AfterFailure(r).s = r.s
      BY DEF AfterFailure, Row
  <2>. QED BY <1>8, <2>1 DEF TriedWithin
<1>9. ASSUME worker.pc \notin {"idle", "gated"}
      PROVE  worker.id \in Ids /\ Held \in Row /\ TriedWithin(Held) /\ Held.s = worker.s
    BY <1>1, <1>9, HeldFacts DEF Held
<1>10. CASE RefuseOffline \/ RejectSend
  <2>1. /\ worker.pc \notin {"idle", "gated"}
        /\ queue' = [queue EXCEPT ![worker.id] = AfterFailure(Held)]
      BY <1>10 DEF RefuseOffline, RejectSend, FailItem
  <2>. QED BY <1>7, <1>8, <1>9, <2>1
<1>11. CASE LoseAnswer
  <2>. DEFINE r == [Held EXCEPT !.copies = @ + 1]
  <2>1. worker.pc \notin {"idle", "gated"} /\ queue' = [queue EXCEPT ![worker.id] = AfterFailure(r)]
      BY <1>11 DEF LoseAnswer, FailItem
  <2>2. r \in Row /\ r.tried = Held.tried /\ r.s = Held.s
      BY <1>9, <2>1 DEF Row
  <2>. HIDE DEF r
  <2>3. TriedWithin(r)
      BY <1>9, <2>1, <2>2 DEF TriedWithin
  <2>. QED BY <1>7, <1>8, <1>9, <2>1, <2>2, <2>3
<1>12. ASSUME PrivacyRestricted \/ \E fromCache \in BOOLEAN : NotRegistered(fromCache)
       PROVE  CalmRotation'
  <2>1. /\ worker.pc \notin {"idle", "gated"}
        /\ queue' = [queue EXCEPT ![worker.id] = AfterFailure(Stamped(Held, worker.s))]
      BY <1>12 DEF PrivacyRestricted, NotRegistered, FailItem
  <2>2. Stamped(Held, worker.s) \in Row
      BY <1>9, <2>1, StampedRow, HeldFacts
  <2>3. TriedWithin(Stamped(Held, worker.s))
      BY <1>9, <2>1, StampIsWithin
  <2>. QED BY <1>7, <1>8, <1>9, <2>1, <2>2, <2>3
<1>n. CASE RerouteNowhere
  <2>1. /\ worker.pc \notin {"idle", "gated"}
        /\ queue' = [queue EXCEPT ![worker.id] = AfterFailure(Stamped(Held, worker.s))]
      BY <1>n DEF RerouteNowhere, FailItem
  <2>2. Stamped(Held, worker.s) \in Row
      BY <1>9, <2>1, StampedRow, HeldFacts
  <2>3. TriedWithin(Stamped(Held, worker.s))
      BY <1>9, <2>1, StampIsWithin
  <2>. QED BY <1>7, <1>8, <1>9, <2>1, <2>2, <2>3
<1>13. CASE Reroute
  <2>1. PICK new \in RerouteTargets :
            queue' = [queue EXCEPT ![worker.id] =
                [Held EXCEPT !.st = "pending", !.s = new, !.att = 0,
                             !.tried = @ \cup {worker.s}, !.mark = new]]
      BY <1>13 DEF Reroute
  <2>. DEFINE r == [Held EXCEPT !.st = "pending", !.s = new, !.att = 0,
                             !.tried = @ \cup {worker.s}, !.mark = new]
  <2>2. worker.pc \notin {"idle", "gated"}
      BY <1>13 DEF Reroute
  <2>3. r.tried = Held.tried \cup {worker.s}
      BY <1>9, <2>2 DEF Row
  <2>4. ~(Cardinality(Held.tried \cup {worker.s}) >= ResolveRotationCap)
      BY <1>13 DEF Reroute, BelowTheCap, RotatedOut
  <2>5. /\ IsFiniteSet(Held.tried \cup {worker.s})
        /\ Cardinality(Held.tried \cup {worker.s}) \in Nat
      BY <1>9, <2>2, FS_AddElement, FS_CardinalityType DEF TriedWithin
  <2>. HIDE DEF r
  <2>6. TriedWithin(r)
    <3>. DEFINE n == Cardinality(r.tried)
    <3>1. n \in Nat /\ ~(n >= ResolveRotationCap) /\ IsFiniteSet(r.tried)
        BY <2>3, <2>4, <2>5
    <3>. HIDE DEF n
    <3>2. n <= ResolveRotationCap /\ n # ResolveRotationCap
        BY <3>1, BoundAssumption
    <3>. QED BY <3>1, <3>2 DEF TriedWithin, n
  <2>. QED BY <1>7, <1>9, <2>1, <2>2, <2>6 DEF r
<1>14. ASSUME NEW i \in Ids, NEW r, r.tried = queue[i].tried, r.s = queue[i].s,
              queue' = [queue EXCEPT ![i] = r]
       PROVE  CalmRotation'
  <2>1. TriedWithin(r)
      BY <1>1, <1>14 DEF TriedWithin
  <2>. QED BY <1>0, <1>1, <1>6, <1>14, <2>1 DEF Ids
<1>15. CASE RefuseTakenOver \/ CommitSent \/ FloodWait \/ Deliver
  <2>1. /\ worker.pc \notin {"idle", "gated"}
        /\ \/ \E st \in {"failed", "sent", "pending"} :
                 queue' = [queue EXCEPT ![worker.id] = [Held EXCEPT !.st = st]]
           \/ queue' = [queue EXCEPT ![worker.id] = [Held EXCEPT !.copies = @ + 1]]
      BY <1>15 DEF RefuseTakenOver, CommitSent, FloodWait, Deliver, Held
  <2>2. Held \in Row /\ Held = queue[worker.id] /\ worker.id \in Ids
      BY <1>9, <2>1 DEF Held
  <2>3. ASSUME NEW st, queue' = [queue EXCEPT ![worker.id] = [Held EXCEPT !.st = st]]
        PROVE  CalmRotation'
    <3>. DEFINE r == [Held EXCEPT !.st = st]
    <3>1. r.tried = queue[worker.id].tried /\ r.s = queue[worker.id].s
        BY <2>2 DEF Row
    <3>. HIDE DEF r
    <3>. QED BY <1>14, <2>2, <2>3, <3>1 DEF r
  <2>4. ASSUME queue' = [queue EXCEPT ![worker.id] = [Held EXCEPT !.copies = @ + 1]]
        PROVE  CalmRotation'
    <3>. DEFINE r == [Held EXCEPT !.copies = @ + 1]
    <3>1. r.tried = queue[worker.id].tried /\ r.s = queue[worker.id].s
        BY <2>2 DEF Row
    <3>. HIDE DEF r
    <3>. QED BY <1>14, <2>2, <2>4, <3>1 DEF r
  <2>. QED BY <2>1, <2>3, <2>4
<1>16. ASSUME NEW i \in Ids, Pick(i)
       PROVE  CalmRotation'
  <2>. DEFINE r == [queue[i] EXCEPT !.st = "processing"]
  <2>1. r.tried = queue[i].tried /\ r.s = queue[i].s
      BY <1>0 DEF Row
  <2>2. queue' = [queue EXCEPT ![i] = r]
      BY <1>16 DEF Pick
  <2>. HIDE DEF r
  <2>. QED BY <1>14, <2>1, <2>2
<1>17. CASE Restart
  <2>1. PICK old \in SUBSET WithStatus("processing") :
            queue' = [i \in Ids |-> IF i \in old THEN [queue[i] EXCEPT !.st = "pending"] ELSE queue[i]]
      BY <1>17 DEF Restart
  <2>2. RotationKept
      BY <1>0, <2>1 DEF RotationKept, Row
  <2>. QED BY <1>1, <1>6, <2>2, KeptIsWithin
<1>18. CASE queue' = queue
    BY <1>1, <1>6, <1>18 DEF Ids
<1>. QED BY <1>2, <1>10, <1>11, <1>12, <1>n, <1>13, <1>15, <1>16, <1>17, <1>18
         DEF WorkerNext, SendStep, Gate, PickNothing, PauseExpired, Proceed, LoseCommit, NotResolved

LEMMA StepRotation ==
    ASSUME IInv, CalmRotation, CalmTxns, BelowTheCap, [Next]_vars
    PROVE  CalmRotation'
<1>1. CASE ~Calm'
    BY <1>1 DEF CalmRotation
<1>2. CASE UNCHANGED vars
    BY <1>2 DEF vars, CalmRotation, Calm, Ids
<1>. QED BY <1>1, <1>2, RotationOfApi, RotationOfEnqueue, RotationOfWorker DEF Next

\* While no account is restricted or lost, at most the cap of senders tries a row: the
\* reroute counts the sender that has just failed, and every other mover leaves tried rows
\* where they are.
THEOREM RotationIsCapped == Spec => []RotationCap
<1>1. Init => CalmRotation /\ CalmTxns /\ BelowTheCap
  <2>1. /\ {"listener", "enqueue"} \subseteq Movers /\ NoTxn.op = "none"
        /\ IdleWorker.pc = "idle"
      BY DEF Movers, NoTxn, IdleWorker
  <2>2. Init => CalmRotation
      BY <2>1 DEF Init, CalmRotation, NoBatch, Ids
  <2>. QED BY <2>1, <2>2 DEF Init, CalmTxns, BelowTheCap
<1>2. IInv /\ CalmRotation /\ CalmTxns /\ BelowTheCap /\ [Next]_vars
          => (CalmRotation /\ CalmTxns /\ BelowTheCap)'
    BY StepRotation, TxnsStayCalm, StaysBelowTheCap
<1>3. CalmRotation => RotationCap
    BY DEF CalmRotation, RotationCap, Calm, TriedWithin
<1>. QED BY <1>1, <1>2, <1>3, Invariant, PTL DEF Spec

-----------------------------------------------------------------------------
(* Queue and assignments.                                                   *)

Open(r) == r.st \in {"pending", "processing"}
Unreopened(i) == \A j \in SameContact(i) : queue[j].reopens = 0

\* A contact none of whose rows was put back has one open row at most, and that is with the
\* account the contact is assigned to.
OneWriter ==
    \A i \in Ids : Open(queue[i]) /\ Unreopened(i) =>
        /\ cca[queue[i].c][queue[i].p] = queue[i].s
        /\ \A j \in SameContact(i) : Open(queue[j]) => j = i

\* Contacts of the open batch have no assignment, those staged get one row at most.
BatchUnassigned ==
    enq.c # NoCampaign =>
        /\ \A p \in enq.todo : cca[enq.c][p] = NoSender /\ \A s \in Senders : <<p, s>> \notin enq.cca
        /\ \A p \in Contacts, s \in Senders : <<p, s>> \in enq.cca =>
              /\ cca[enq.c][p] = NoSender
              /\ \A t \in Senders : <<p, t>> \in enq.cca => t = s
        /\ \A k \in DOMAIN enq.rows :
              /\ enq.rows[k].c = enq.c /\ enq.rows[k].reopens = 0
              /\ <<enq.rows[k].p, enq.rows[k].s>> \in enq.cca
              /\ \A l \in DOMAIN enq.rows : enq.rows[l].p = enq.rows[k].p => l = k

Assignments == OneWriter /\ BatchUnassigned

\* Who has no assignment gets none.
FreesKept ==
    \A c \in Campaigns, p \in Contacts : cca[c][p] = NoSender => cca'[c][p] = NoSender

\* Rows that keep contact and history; none opens without being counted as put back.
ContactsKept ==
    /\ DOMAIN queue' = Ids
    /\ \A i \in Ids :
          /\ queue'[i].c = queue[i].c /\ queue'[i].p = queue[i].p
          /\ queue[i].reopens # 0 => queue'[i].reopens # 0
          /\ Open(queue'[i]) => Open(queue[i]) \/ queue'[i].reopens # 0

\* The assignment of i's contact is still where i is, i being its only open row.
StillAgrees(i) ==
    /\ Open(queue'[i])
    /\ cca[queue[i].c][queue[i].p] = queue[i].s
    /\ \A j \in SameContact(i) : queue'[j].reopens = 0 /\ (Open(queue[j]) => j = i)
    => cca'[queue[i].c][queue[i].p] = queue'[i].s

LEMMA ContactsLock ==
    ASSUME OneWriter, ContactsKept, \A i \in Ids : StillAgrees(i)
    PROVE  OneWriter'
<1>. SUFFICES ASSUME NEW i \in Ids, Open(queue'[i]), Unreopened(i)'
              PROVE  /\ cca'[queue'[i].c][queue'[i].p] = queue'[i].s
                     /\ \A j \in SameContact(i)' : Open(queue'[j]) => j = i
    BY DEF OneWriter, ContactsKept, Ids
<1>1. SameContact(i)' = SameContact(i) /\ i \in SameContact(i)
    BY DEF SameContact, ContactsKept, Ids
<1>2. \A j \in SameContact(i) : j \in Ids /\ queue'[j].reopens = 0 /\ queue[j].reopens = 0
    BY <1>1 DEF Unreopened, ContactsKept, SameContact
<1>3. Open(queue[i]) /\ Unreopened(i)
    BY <1>1, <1>2 DEF ContactsKept, Unreopened
<1>4. \A j \in SameContact(i) : Open(queue'[j]) => Open(queue[j])
    BY <1>2 DEF ContactsKept
<1>. QED BY <1>1, <1>2, <1>3, <1>4 DEF OneWriter, StillAgrees, ContactsKept

\* A batch outlives what leaves it alone and assigns nobody.
LEMMA BatchStays ==
    ASSUME TypeOK, BatchUnassigned, enq' = enq \/ enq' = NoBatch, FreesKept
    PROVE  BatchUnassigned'
<1>1. CASE enq' = NoBatch
    BY <1>1 DEF NoBatch, BatchUnassigned
<1>2. CASE enq' = enq /\ enq.c # NoCampaign
  <2>1. enq.c \in Campaigns /\ enq.todo \subseteq Contacts
      BY <1>2 DEF TypeOK, Batch
  <2>. QED BY <1>2, <2>1 DEF BatchUnassigned, FreesKept
<1>3. CASE enq' = enq /\ enq.c = NoCampaign
    BY <1>3 DEF BatchUnassigned
<1>. QED BY <1>1, <1>2, <1>3

\* Rows that change neither hands nor, without being put back, from closed to open.
LEMMA ClosingAssigns ==
    ASSUME TypeOK, Assignments, cca' = cca, enq' = enq \/ enq' = NoBatch, ContactsKept,
           \A i \in Ids : queue'[i].s = queue[i].s
    PROVE  Assignments'
<1>1. \A i \in Ids : StillAgrees(i)
    BY DEF StillAgrees
<1>2. FreesKept
    BY DEF FreesKept
<1>. QED BY <1>1, <1>2, ContactsLock, BatchStays DEF Assignments

\* Where the assignment goes when rows change hands.
LEMMA CcaFollowsOne ==
    ASSUME TypeOK, NEW M \in SUBSET Ids, NEW recv \in [M -> Senders],
           NEW c \in Campaigns, NEW p \in Contacts
    PROVE  /\ cca[c][p] = NoSender => CcaFollows(M, recv)[c][p] = NoSender
           /\ (\A i \in M : ~(queue[i].c = c /\ queue[i].p = p))
                => CcaFollows(M, recv)[c][p] = cca[c][p]
           /\ cca[c][p] # NoSender =>
                \A i \in M :
                    (\A j \in M : queue[j].c = c /\ queue[j].p = p <=> j = i)
                        => CcaFollows(M, recv)[c][p] = recv[i]
<1>. DEFINE ids == {i \in M : queue[i].c = c /\ queue[i].p = p}
            last == CHOOSE i \in ids : \A j \in ids : j <= i
<1>1. CcaFollows(M, recv)[c][p] =
          IF ids = {} \/ cca[c][p] = NoSender THEN cca[c][p] ELSE recv[last]
    BY DEF CcaFollows
<1>2. ASSUME NEW i \in M, \A j \in M : queue[j].c = c /\ queue[j].p = p <=> j = i
      PROVE  ids # {} /\ last = i
  <2>1. ids = {i} /\ i \in Nat
      BY <1>2, IdsAreNumbers
  <2>. HIDE DEF ids
  <2>2. \A j \in ids : j <= i
      BY <2>1
  <2>3. last \in ids
      BY <2>1, <2>2
  <2>. QED BY <2>1, <2>3
<1>. QED BY <1>1, <1>2

\* The open rows of M change hands, or come back into others, and the assignment follows.
LEMMA HandoverAssigns ==
    ASSUME TypeOK, Assignments, NEW M \in SUBSET Ids, NEW recv \in [M -> Senders],
           cca' = CcaFollows(M, recv), enq' = enq, ContactsKept,
           \A i \in M : queue'[i].s = recv[i] /\ (Open(queue[i]) \/ queue'[i].reopens # 0),
           \A i \in Ids \ M : queue'[i].s = queue[i].s
    PROVE  Assignments'
<1>1. FreesKept
    BY CcaFollowsOne DEF FreesKept
<1>2. ASSUME NEW i \in Ids, Open(queue'[i]),
             cca[queue[i].c][queue[i].p] = queue[i].s,
             \A j \in SameContact(i) : queue'[j].reopens = 0 /\ (Open(queue[j]) => j = i)
      PROVE  cca'[queue[i].c][queue[i].p] = queue'[i].s
  <2>1. queue[i].c \in Campaigns /\ queue[i].p \in Contacts /\ queue[i].s # NoSender
      BY IdsAreNumbers, NullAssumption DEF Row
  <2>2. \A j \in M : queue[j].c = queue[i].c /\ queue[j].p = queue[i].p => j = i
      BY <1>2 DEF SameContact
  <2>. DEFINE c == queue[i].c
              p == queue[i].p
  <2>5. cca[c][p] # NoSender
      BY <1>2, <2>1
  <2>3. CASE i \in M
    <3>0. /\ c \in Campaigns /\ p \in Contacts /\ queue[i].c = c /\ queue[i].p = p
          /\ cca[c][p] # NoSender /\ i \in M
          /\ \A j \in M : queue[j].c = c /\ queue[j].p = p <=> j = i
        BY <2>1, <2>2, <2>3, <2>5
    <3>1. CcaFollows(M, recv)[c][p] = recv[i]
      <4>. HIDE DEF c, p
      <4>. QED BY <3>0, CcaFollowsOne
    <3>. QED BY <2>3, <3>1
  <2>4. CASE i \notin M
    <3>1. \A j \in M : ~(queue[j].c = c /\ queue[j].p = p)
        BY <2>2, <2>4
    <3>2. CcaFollows(M, recv)[c][p] = cca[c][p]
        BY <2>1, <3>1, CcaFollowsOne
    <3>. QED BY <1>2, <2>4, <3>2
  <2>. QED BY <2>3, <2>4
<1>3. \A i \in Ids : StillAgrees(i)
    BY <1>2 DEF StillAgrees
<1>. QED BY <1>1, <1>3, ContactsLock, BatchStays DEF Assignments

\* A failed attempt: the contact is let go only with its one open row.
LEMMA FailItemAssigns ==
    ASSUME TypeOK, Assignments, NEW i \in Ids, NEW row \in Row, FailItem(i, row), enq' = enq,
           Open(queue[i]), row.c = queue[i].c, row.p = queue[i].p, row.s = queue[i].s,
           row.reopens = queue[i].reopens
    PROVE  Assignments'
<1>. DEFINE r == AfterFailure(row)
<1>1. /\ r.c = queue[i].c /\ r.p = queue[i].p /\ r.s = queue[i].s /\ r.reopens = queue[i].reopens
      /\ r.st \in {"pending", "failed"}
    BY DEF AfterFailure, Row
<1>2. /\ queue' = [queue EXCEPT ![i] = r]
      /\ cca' = IF r.st = "failed" /\ ReleasesContact(i)
                THEN [cca EXCEPT ![row.c][row.p] = NoSender]
                ELSE cca
    BY DEF FailItem
<1>. HIDE DEF r
<1>3. /\ DOMAIN queue' = Ids
      /\ \A j \in Ids : queue'[j] = IF j = i THEN r ELSE queue[j]
    BY <1>2 DEF TypeOK, Ids
<1>4. ContactsKept /\ \A j \in Ids : queue'[j].s = queue[j].s
    BY <1>1, <1>3 DEF ContactsKept
<1>5. CASE cca' = cca
    BY <1>4, <1>5, ClosingAssigns
<1>6. CASE r.st = "failed" /\ cca' = [cca EXCEPT ![row.c][row.p] = NoSender]
  <2>1. \A c \in Campaigns, p \in Contacts :
            cca'[c][p] = IF c = row.c /\ p = row.p THEN NoSender ELSE cca[c][p]
      BY <1>6 DEF TypeOK
  <2>2. FreesKept
      BY <2>1 DEF FreesKept
  <2>3. ASSUME NEW j \in Ids, Open(queue'[j]), cca[queue[j].c][queue[j].p] = queue[j].s,
               \A k \in SameContact(j) : queue'[k].reopens = 0 /\ (Open(queue[k]) => k = j)
        PROVE  cca'[queue[j].c][queue[j].p] = queue'[j].s
    <3>1. j # i
        BY <1>3, <1>6, <2>3 DEF Open
    <3>2. i \notin SameContact(j)
        BY <2>3, <3>1
    <3>3. queue[j].c \in Campaigns /\ queue[j].p \in Contacts
        BY IdsAreNumbers DEF Row
    <3>. QED BY <1>3, <2>1, <2>3, <3>1, <3>2, <3>3 DEF SameContact
  <2>4. \A j \in Ids : StillAgrees(j)
      BY <2>3 DEF StillAgrees
  <2>. QED BY <1>4, <2>2, <2>4, ContactsLock, BatchStays DEF Assignments
<1>. QED BY <1>2, <1>5, <1>6

LEMMA FailoverAssigns ==
    ASSUME TypeOK, Assignments, NEW s \in Senders, NEW read, Failover(s, read), enq' = enq
    PROVE  Assignments'
<1>. DEFINE M == {i \in Ids : queue[i].s = s /\ Failoverable(i)
                               /\ Pool[queue[i].c] \cap read # {}}
<1>1. PICK recv \in [M -> Senders] :
          /\ queue' = [i \in Ids |-> IF i \in M THEN [queue[i] EXCEPT !.s = recv[i], !.att = 0]
                                     ELSE queue[i]]
          /\ cca' = CcaFollows(M, recv)
    BY DEF Failover
<1>2. M \in SUBSET Ids /\ \A i \in M : Open(queue[i])
    BY DEF Failoverable, Open
<1>. HIDE DEF M
<1>3. /\ ContactsKept
      /\ \A i \in M : queue'[i].s = recv[i]
      /\ \A i \in Ids \ M : queue'[i].s = queue[i].s
    BY <1>1, <1>2, IdsAreNumbers DEF ContactsKept, Row, Open
<1>. QED BY <1>1, <1>2, <1>3, HandoverAssigns

\* Rows in M, pending, change hands and nothing else.
LEMMA PassingAssigns ==
    ASSUME TypeOK, Assignments, NEW M \in SUBSET WithStatus("pending"), NEW recv \in [M -> Senders],
           queue' = [i \in Ids |-> IF i \in M THEN [queue[i] EXCEPT !.s = recv[i]] ELSE queue[i]],
           cca' = CcaFollows(M, recv), enq' = enq
    PROVE  Assignments'
<1>1. M \in SUBSET Ids /\ \A i \in M : Open(queue[i])
    BY DEF WithStatus, Open
<1>2. /\ ContactsKept
      /\ \A i \in M : queue'[i].s = recv[i]
      /\ \A i \in Ids \ M : queue'[i].s = queue[i].s
    BY <1>1, IdsAreNumbers DEF ContactsKept, Row, Open
<1>. QED BY <1>1, <1>2, HandoverAssigns

LEMMA ApiAssigns ==
    ASSUME IInv, Assignments, ApiNext
    PROVE  Assignments'
<1>0. TypeOK /\ \A i \in Ids : queue[i] \in Row
    BY IdsAreNumbers DEF IInv
<1>1. ASSUME NEW c \in Campaigns, Finish(c)
      PROVE  Assignments'
  <2>1. ContactsKept /\ \A i \in Ids : queue'[i].s = queue[i].s
      BY <1>0, <1>1 DEF Finish, ContactsKept, Row, Open
  <2>. QED BY <1>0, <1>1, <2>1, ClosingAssigns DEF Finish
<1>2. ASSUME NEW c \in Campaigns, RequeueFailed(c)
      PROVE  Assignments'
  <2>. DEFINE M == Requeued(c)
  <2>1. queue' = [i \in Ids |-> IF i \in M
                      THEN [queue[i] EXCEPT !.st = "pending", !.att = 0, !.reopens = @ + 1]
                      ELSE queue[i]]
      BY <1>2 DEF RequeueFailed
  <2>. HIDE DEF M
  <2>2. ContactsKept /\ \A i \in Ids : queue'[i].s = queue[i].s
    <3>1. \A n \in Nat : n + 1 # 0
        OBVIOUS
    <3>. QED BY <1>0, <2>1, <3>1 DEF ContactsKept, Row, Open
  <2>. QED BY <1>0, <1>2, <2>2, ClosingAssigns DEF RequeueFailed
<1>3. ASSUME NEW s \in Senders, NEW p \in Contacts, NEW cs, Takeover(s, p) \/ Inbound(s, p, cs)
      PROVE  Assignments'
  <2>1. ContactsKept /\ \A i \in Ids : queue'[i].s = queue[i].s
      BY <1>0, <1>3 DEF Takeover, Inbound, ContactsKept, Row, Open
  <2>. QED BY <1>0, <1>3, <2>1, ClosingAssigns DEF Takeover, Inbound
<1>4. ASSUME NEW s \in Senders, NEW status, AntispamSignal(s, status)
      PROVE  Assignments'
    BY <1>0, <1>4, FailoverAssigns DEF AntispamSignal
<1>5. ASSUME NEW s \in Senders, Clear(s)
      PROVE  Assignments'
    BY <1>0, <1>5, PullBackHandsOver, PassingAssigns DEF Clear
<1>6. ASSUME queue' = queue, cca' = cca, enq' = enq
      PROVE  Assignments'
  <2>1. ContactsKept /\ \A i \in Ids : queue'[i].s = queue[i].s
      BY <1>6 DEF ContactsKept, Ids
  <2>. QED BY <1>0, <1>6, <2>1, ClosingAssigns
<1>. QED BY <1>1, <1>2, <1>3, <1>4, <1>5, <1>6 DEF ApiNext, Start, Pause, EnableAi, Escalate,
         GoOffline, GoOnline, SignalReads, ClearReads

\* The batch that commits assigns whom nobody writes to, one row each.
LEMMA CommitAssigns ==
    ASSUME IInv, Assignments, BatchIsPending, CommitBatch
    PROVE  Assignments'
<1>0. /\ TypeOK /\ queue \in Seq(Row) /\ enq.rows \in Seq(Row) /\ enq.c \in Campaigns
      /\ enq.c # NoCampaign /\ queue' = queue \o enq.rows /\ cca' = Assigned(enq.cca) /\ enq' = NoBatch
    BY DEF IInv, TypeOK, Batch, CommitBatch, Between
<1>. DEFINE n == Len(queue)
<1>1. /\ n \in Nat /\ Ids = 1..n
      /\ \A i \in Ids : i \in DOMAIN queue' /\ queue'[i] = queue[i] /\ queue[i] \in Row
      /\ \A i \in DOMAIN queue' \ Ids : i - n \in DOMAIN enq.rows /\ queue'[i] = enq.rows[i - n]
      /\ \A i \in DOMAIN queue' : i \in Nat
    BY <1>0 DEF Ids
<1>2. \A k \in DOMAIN enq.rows : enq.rows[k] \in Row
    BY <1>0
<1>. HIDE DEF n
<1>3. \A c \in Campaigns, p \in Contacts : cca'[c][p] =
          IF c = enq.c /\ cca[c][p] = NoSender /\ \E s \in Senders : <<p, s>> \in enq.cca
          THEN CHOOSE s \in Senders : <<p, s>> \in enq.cca
          ELSE cca[c][p]
    BY <1>0 DEF Assigned, TypeOK
<1>4. ASSUME NEW k \in DOMAIN enq.rows
      PROVE  /\ cca[enq.c][enq.rows[k].p] = NoSender
             /\ cca'[enq.c][enq.rows[k].p] = enq.rows[k].s
  <2>1. enq.rows[k].p \in Contacts /\ enq.rows[k].s \in Senders
      BY <1>2 DEF Row
  <2>2. <<enq.rows[k].p, enq.rows[k].s>> \in enq.cca
      BY <1>0 DEF Assignments, BatchUnassigned
  <2>3. /\ cca[enq.c][enq.rows[k].p] = NoSender
        /\ \A t \in Senders : <<enq.rows[k].p, t>> \in enq.cca => t = enq.rows[k].s
      BY <1>0, <2>1, <2>2 DEF Assignments, BatchUnassigned
  <2>4. (CHOOSE s \in Senders : <<enq.rows[k].p, s>> \in enq.cca) = enq.rows[k].s
      BY <2>1, <2>2, <2>3
  <2>. QED BY <1>0, <1>3, <2>1, <2>2, <2>3, <2>4
<1>5. ASSUME NEW i \in Ids, Open(queue[i]), Unreopened(i)
      PROVE  /\ cca[queue[i].c][queue[i].p] # NoSender
             /\ cca'[queue[i].c][queue[i].p] = queue[i].s
  <2>1. queue[i].c \in Campaigns /\ queue[i].p \in Contacts /\ queue[i].s \in Senders
      BY <1>1 DEF Row
  <2>2. cca[queue[i].c][queue[i].p] = queue[i].s
      BY <1>5 DEF Assignments, OneWriter
  <2>. QED BY <1>3, <2>1, <2>2, NullAssumption
<1>6. ASSUME NEW i \in DOMAIN queue', Unreopened(i)', NEW j \in SameContact(i)', j \in Ids
      PROVE  Unreopened(j)
    BY <1>1, <1>6 DEF Unreopened, SameContact, Ids
<1>7. \A i \in DOMAIN queue' : i \in SameContact(i)'
    BY DEF SameContact, Ids
<1>8. ASSUME NEW i \in DOMAIN queue', Open(queue'[i]), Unreopened(i)'
      PROVE  /\ cca'[queue'[i].c][queue'[i].p] = queue'[i].s
             /\ \A j \in SameContact(i)' : Open(queue'[j]) => j = i
  <2>0. \A j \in SameContact(i)' : j \in DOMAIN queue' /\ queue'[j].c = queue'[i].c
                                   /\ queue'[j].p = queue'[i].p
      BY DEF SameContact, Ids
  <2>1. CASE i \in Ids
    <3>1. Unreopened(i) /\ queue'[i] = queue[i]
        BY <1>1, <1>6, <1>7, <1>8, <2>1
    <3>2. /\ cca[queue[i].c][queue[i].p] # NoSender
          /\ cca'[queue[i].c][queue[i].p] = queue[i].s
        BY <1>5, <1>8, <2>1, <3>1
    <3>3. ASSUME NEW j \in SameContact(i)', Open(queue'[j])
          PROVE  j = i
      <4>1. j \in Ids
        <5>1. SUFFICES ASSUME j \notin Ids PROVE FALSE
            OBVIOUS
        <5>2. j - n \in DOMAIN enq.rows /\ queue'[j] = enq.rows[j - n]
            BY <1>1, <2>0, <5>1
        <5>3. enq.rows[j - n].c = enq.c
            BY <1>0, <5>2 DEF Assignments, BatchUnassigned
        <5>. QED BY <1>4, <2>0, <3>1, <3>2, <5>2, <5>3
      <4>2. j \in SameContact(i)
          BY <1>1, <2>0, <2>1, <4>1 DEF SameContact
      <4>. QED BY <1>1, <1>8, <2>1, <3>1, <3>3, <4>1, <4>2 DEF Assignments, OneWriter
    <3>. QED BY <3>1, <3>2, <3>3
  <2>2. CASE i \notin Ids
    <3>1. i - n \in DOMAIN enq.rows /\ queue'[i] = enq.rows[i - n]
        BY <1>1, <2>2
    <3>2. enq.rows[i - n].c = enq.c
        BY <1>0, <3>1 DEF Assignments, BatchUnassigned
    <3>3. ASSUME NEW j \in SameContact(i)', Open(queue'[j])
          PROVE  j = i
      <4>1. CASE j \in Ids
        <5>1. Unreopened(j)
            BY <1>6, <1>8, <4>1
        <5>2. queue'[j] = queue[j]
            BY <1>1, <4>1
        <5>. QED BY <1>4, <1>5, <2>0, <3>1, <3>2, <3>3, <4>1, <5>1, <5>2
      <4>2. CASE j \notin Ids
        <5>1. j - n \in DOMAIN enq.rows /\ queue'[j] = enq.rows[j - n]
            BY <1>1, <2>0, <4>2
        <5>2. enq.rows[j - n].p = enq.rows[i - n].p
            BY <2>0, <3>1, <5>1
        <5>3. j - n = i - n
            BY <1>0, <3>1, <5>1, <5>2 DEF Assignments, BatchUnassigned
        <5>4. i \in Nat /\ j \in Nat /\ n \in Nat
            BY <1>1, <2>0
        <5>. QED BY <5>3, <5>4
      <4>. QED BY <4>1, <4>2
    <3>. QED BY <1>4, <3>1, <3>2, <3>3
  <2>. QED BY <2>1, <2>2
<1>9. OneWriter'
    BY <1>8 DEF OneWriter, Ids
<1>10. BatchUnassigned'
    BY <1>0 DEF BatchUnassigned, NoBatch
<1>. QED BY <1>9, <1>10 DEF Assignments

\* Staging: each contact leaves todo with one pair, and one row at most.
LEMMA StageAssigns ==
    ASSUME IInv, BatchUnassigned, NEW p \in Contacts, NEW s \in Senders, StageContact(p, s)
    PROVE  BatchUnassigned'
<1>. DEFINE r == NewRow(enq.c, p, s)
<1>0. /\ enq \in Batch /\ enq.rows \in Seq(Row) /\ enq.c # NoCampaign /\ p \in enq.todo
      /\ cca' = cca
    BY DEF IInv, TypeOK, Batch, StageContact, Between
<1>1. /\ enq'.c = enq.c /\ enq'.todo = enq.todo \ {p} /\ enq'.cca = enq.cca \cup {<<p, s>>}
      /\ enq'.rows = enq.rows \/ enq'.rows = Append(enq.rows, r)
    BY <1>0 DEF StageContact, Batch
<1>2. r.c = enq.c /\ r.p = p /\ r.s = s /\ r.reopens = 0
    BY DEF NewRow
<1>. HIDE DEF r
<1>3. cca[enq.c][p] = NoSender /\ \A t \in Senders : <<p, t>> \notin enq.cca
    BY <1>0 DEF BatchUnassigned
<1>4. \A q \in enq'.todo : cca'[enq'.c][q] = NoSender /\ \A t \in Senders : <<q, t>> \notin enq'.cca
    BY <1>0, <1>1 DEF BatchUnassigned
<1>5. ASSUME NEW q \in Contacts, NEW t \in Senders, <<q, t>> \in enq'.cca
      PROVE  /\ cca'[enq'.c][q] = NoSender
             /\ \A u \in Senders : <<q, u>> \in enq'.cca => u = t
    BY <1>0, <1>1, <1>3, <1>5 DEF BatchUnassigned
<1>6. ASSUME NEW k \in DOMAIN enq.rows
      PROVE  /\ enq.rows[k].c = enq.c /\ enq.rows[k].reopens = 0
             /\ <<enq.rows[k].p, enq.rows[k].s>> \in enq.cca
             /\ enq.rows[k].p # p
             /\ \A l \in DOMAIN enq.rows : enq.rows[l].p = enq.rows[k].p => l = k
  <2>0. enq.rows[k] \in Row
      BY <1>0
  <2>1. enq.rows[k].s \in Senders
      BY <2>0 DEF Row
  <2>. QED BY <1>0, <1>3, <2>1 DEF BatchUnassigned
<1>7. ASSUME NEW k \in DOMAIN enq'.rows
      PROVE  /\ enq'.rows[k].c = enq.c /\ enq'.rows[k].reopens = 0
             /\ <<enq'.rows[k].p, enq'.rows[k].s>> \in enq'.cca
             /\ \A l \in DOMAIN enq'.rows : enq'.rows[l].p = enq'.rows[k].p => l = k
  <2>1. CASE enq'.rows = enq.rows
      BY <1>1, <1>6, <1>7, <2>1
  <2>2. CASE enq'.rows = Append(enq.rows, r)
    <3>. DEFINE n == Len(enq.rows)
    <3>1. /\ n \in Nat /\ DOMAIN enq'.rows = 1 .. (n + 1) /\ DOMAIN enq.rows = 1..n
          /\ \A j \in 1..n : enq'.rows[j] = enq.rows[j]
          /\ enq'.rows[n + 1] = r
        BY <1>0, <2>2
    <3>. HIDE DEF n
    <3>2. \A j \in DOMAIN enq'.rows : j \in 1..n \/ j = n + 1
        BY <3>1
    <3>3. CASE k \in 1..n
      <4>1. enq'.rows[k] = enq.rows[k] /\ k \in DOMAIN enq.rows
          BY <3>1, <3>3
      <4>2. ASSUME NEW l \in DOMAIN enq'.rows, enq'.rows[l].p = enq'.rows[k].p
            PROVE  l = k
          BY <1>2, <1>6, <3>1, <3>2, <4>1, <4>2
      <4>. QED BY <1>1, <1>6, <4>1, <4>2
    <3>4. CASE k = n + 1
      <4>1. enq'.rows[k] = r
          BY <3>1, <3>4
      <4>2. ASSUME NEW l \in DOMAIN enq'.rows, enq'.rows[l].p = enq'.rows[k].p
            PROVE  l = k
          BY <1>2, <1>6, <3>1, <3>2, <3>4, <4>1, <4>2
      <4>. QED BY <1>1, <1>2, <4>1, <4>2
    <3>. QED BY <1>7, <3>2, <3>3, <3>4
  <2>. QED BY <1>1, <2>1, <2>2
<1>. QED BY <1>1, <1>4, <1>5, <1>7 DEF BatchUnassigned

LEMMA EnqueueAssigns ==
    ASSUME IInv, Assignments, BatchIsPending, EnqueueNext
    PROVE  Assignments'
<1>0. TypeOK /\ \A i \in Ids : queue[i] \in Row
    BY IdsAreNumbers DEF IInv
<1>1. ASSUME NEW s \in Senders, Sweep(s)
      PROVE  Assignments'
    BY <1>0, <1>1, FailoverAssigns DEF Sweep
<1>2. ASSUME NEW c \in Campaigns, EvenSplit(c)
      PROVE  Assignments'
  <2>. DEFINE pool == Pool[c] \cap txn["enqueue"].pool
  <2>1. PICK M \in SUBSET {i \in Ids : Movable(i)} : \E recv \in [M -> pool] :
            /\ queue' = [i \in Ids |-> IF i \in M THEN [queue[i] EXCEPT !.s = recv[i]] ELSE queue[i]]
            /\ cca' = CcaFollows(M, recv)
      BY <1>2 DEF EvenSplit
  <2>2. M \in SUBSET WithStatus("pending")
      BY <2>1 DEF Movable, Cold, WithStatus
  <2>3. pool \subseteq Senders
      BY PoolAssumption
  <2>4. PICK recv \in [M -> Senders] :
            /\ queue' = [i \in Ids |-> IF i \in M THEN [queue[i] EXCEPT !.s = recv[i]] ELSE queue[i]]
            /\ cca' = CcaFollows(M, recv)
      BY <2>1, <2>3
  <2>. QED BY <1>0, <1>2, <2>2, <2>4, PassingAssigns DEF EvenSplit
<1>3. ASSUME queue' = queue, cca' = cca
      PROVE  OneWriter'
    BY <1>3 DEF Assignments, OneWriter, Open, Unreopened, SameContact, Ids
<1>4. ASSUME NEW c \in Campaigns, Autopause(c)
      PROVE  Assignments'
    BY <1>3, <1>4 DEF Autopause, Assignments, BatchUnassigned
<1>5. ASSUME NEW c \in Campaigns, NEW todo \in SUBSET Contacts, OpenBatch(c, todo)
      PROVE  Assignments'
  <2>1. BatchUnassigned'
      BY <1>5 DEF OpenBatch, Enqueueable, BatchUnassigned
  <2>. QED BY <1>3, <1>5, <2>1 DEF OpenBatch, Assignments
<1>6. ASSUME NEW p \in Contacts, SkipContact(p)
      PROVE  Assignments'
  <2>1. /\ enq'.c = enq.c /\ enq'.cca = enq.cca /\ enq'.rows = enq.rows
        /\ enq'.todo \subseteq enq.todo
      BY <1>0, <1>6 DEF SkipContact, TypeOK, Batch
  <2>2. BatchUnassigned'
      BY <1>6, <2>1 DEF SkipContact, Assignments, BatchUnassigned
  <2>. QED BY <1>3, <1>6, <2>2 DEF SkipContact, Assignments
<1>7. ASSUME NEW p \in Contacts, NEW s \in Senders, StageContact(p, s)
      PROVE  Assignments'
    BY <1>3, <1>7, StageAssigns DEF StageContact, Assignments
<1>8. CASE (\E s \in Senders : SweepReads(s)) \/ \E c \in Campaigns : EvenSplitReads(c)
    BY <1>3, <1>8 DEF SweepReads, EvenSplitReads, Assignments, BatchUnassigned
<1>. QED BY <1>1, <1>2, <1>4, <1>5, <1>6, <1>7, <1>8, CommitAssigns DEF EnqueueNext, EnqueueStep

LEMMA WorkerAssigns ==
    ASSUME IInv, Assignments, WorkerNext
    PROVE  Assignments'
<1>0. TypeOK /\ queue \in Seq(Row) /\ \A i \in Ids : queue[i] \in Row
    BY IdsAreNumbers DEF IInv, TypeOK
<1>1. ASSUME worker.pc \notin {"idle", "gated"}
      PROVE  /\ worker.id \in Ids /\ Held = queue[worker.id] /\ Held \in Row
             /\ Held.s = worker.s /\ worker.s \in Senders /\ Open(queue[worker.id])
    BY <1>1, HeldFacts DEF Held, Open
<1>2. ASSUME NEW i \in Ids, NEW r, queue' = [queue EXCEPT ![i] = r], cca' = cca, enq' = enq,
             r.c = queue[i].c, r.p = queue[i].p, r.s = queue[i].s, r.reopens = queue[i].reopens,
             Open(queue[i])
      PROVE  Assignments'
  <2>1. ContactsKept /\ \A j \in Ids : queue'[j].s = queue[j].s
      BY <1>0, <1>2 DEF ContactsKept, Ids
  <2>. QED BY <1>0, <1>2, <2>1, ClosingAssigns
<1>3. CASE queue' = queue /\ cca' = cca /\ enq' = enq
  <2>1. ContactsKept /\ \A i \in Ids : queue'[i].s = queue[i].s
      BY <1>3 DEF ContactsKept, Ids
  <2>. QED BY <1>0, <1>3, <2>1, ClosingAssigns
<1>4. CASE RefuseOffline \/ RejectSend \/ FailFlagged
    BY <1>0, <1>1, <1>4, FailItemAssigns DEF RefuseOffline, RejectSend, FailFlagged
<1>5. CASE LoseAnswer
  <2>. DEFINE r == [Held EXCEPT !.copies = @ + 1]
  <2>1. worker.pc \notin {"idle", "gated"} /\ FailItem(worker.id, r) /\ enq' = enq
      BY <1>5 DEF LoseAnswer
  <2>2. r \in Row /\ r.c = Held.c /\ r.p = Held.p /\ r.s = Held.s /\ r.reopens = Held.reopens
      BY <1>1, <2>1 DEF Row
  <2>. HIDE DEF r
  <2>. QED BY <1>0, <1>1, <2>1, <2>2, FailItemAssigns
<1>6. ASSUME PrivacyRestricted \/ \E fromCache \in BOOLEAN : NotRegistered(fromCache)
      PROVE  Assignments'
  <2>. DEFINE r == Stamped(Held, worker.s)
  <2>1. worker.pc \notin {"idle", "gated"} /\ FailItem(worker.id, r) /\ enq' = enq
      BY <1>6 DEF PrivacyRestricted, NotRegistered
  <2>2. r \in Row
      BY <1>1, <2>1, StampedRow
  <2>3. r.c = Held.c /\ r.p = Held.p /\ r.s = Held.s /\ r.reopens = Held.reopens
      BY <1>1, <2>1 DEF Row, Stamped
  <2>. HIDE DEF r
  <2>. QED BY <1>0, <1>1, <2>1, <2>2, <2>3, FailItemAssigns
<1>n. CASE RerouteNowhere
  <2>. DEFINE r == Stamped(Held, worker.s)
  <2>1. worker.pc \notin {"idle", "gated"} /\ FailItem(worker.id, r) /\ enq' = enq
      BY <1>n DEF RerouteNowhere
  <2>2. r \in Row
      BY <1>1, <2>1, StampedRow
  <2>3. r.c = Held.c /\ r.p = Held.p /\ r.s = Held.s /\ r.reopens = Held.reopens
      BY <1>1, <2>1 DEF Row, Stamped
  <2>. HIDE DEF r
  <2>. QED BY <1>0, <1>1, <2>1, <2>2, <2>3, FailItemAssigns
<1>7. CASE RefuseTakenOver \/ CommitSent \/ FloodWait \/ Deliver
  <2>1. /\ worker.pc \notin {"idle", "gated"} /\ cca' = cca /\ enq' = enq
        /\ \/ \E st \in {"failed", "sent", "pending"} :
                 queue' = [queue EXCEPT ![worker.id] = [Held EXCEPT !.st = st]]
           \/ queue' = [queue EXCEPT ![worker.id] = [Held EXCEPT !.copies = @ + 1]]
      BY <1>7 DEF RefuseTakenOver, CommitSent, FloodWait, Deliver, Held
  <2>2. ASSUME NEW st, queue' = [queue EXCEPT ![worker.id] = [Held EXCEPT !.st = st]]
        PROVE  Assignments'
    <3>. DEFINE r == [Held EXCEPT !.st = st]
    <3>1. r.c = Held.c /\ r.p = Held.p /\ r.s = Held.s /\ r.reopens = Held.reopens
        BY <1>1, <2>1 DEF Row
    <3>. HIDE DEF r
    <3>. QED BY <1>1, <1>2, <2>1, <2>2, <3>1 DEF r
  <2>3. ASSUME queue' = [queue EXCEPT ![worker.id] = [Held EXCEPT !.copies = @ + 1]]
        PROVE  Assignments'
    <3>. DEFINE r == [Held EXCEPT !.copies = @ + 1]
    <3>1. r.c = Held.c /\ r.p = Held.p /\ r.s = Held.s /\ r.reopens = Held.reopens
        BY <1>1, <2>1 DEF Row
    <3>. HIDE DEF r
    <3>. QED BY <1>1, <1>2, <2>1, <2>3, <3>1 DEF r
  <2>. QED BY <2>1, <2>2, <2>3
<1>8. ASSUME NEW i \in Ids, Pick(i)
      PROVE  Assignments'
  <2>. DEFINE r == [queue[i] EXCEPT !.st = "processing"]
  <2>1. r.c = queue[i].c /\ r.p = queue[i].p /\ r.s = queue[i].s /\ r.reopens = queue[i].reopens
      BY <1>0 DEF Row
  <2>2. queue' = [queue EXCEPT ![i] = r] /\ cca' = cca /\ enq' = enq /\ Open(queue[i])
      BY <1>8 DEF Pick, MayPick, Open
  <2>. HIDE DEF r
  <2>. QED BY <1>2, <2>1, <2>2
<1>9. CASE Reroute
  <2>1. PICK new \in RerouteTargets :
            /\ queue' = [queue EXCEPT ![worker.id] =
                [Held EXCEPT !.st = "pending", !.s = new, !.att = 0,
                             !.tried = @ \cup {worker.s}, !.mark = new]]
            /\ cca' = CcaFollows({worker.id}, [i \in {worker.id} |-> new])
      BY <1>9 DEF Reroute
  <2>. DEFINE r == [Held EXCEPT !.st = "pending", !.s = new, !.att = 0,
                             !.tried = @ \cup {worker.s}, !.mark = new]
              M == {worker.id}
              recv == [i \in M |-> new]
  <2>2. worker.pc \notin {"idle", "gated"} /\ enq' = enq
      BY <1>9 DEF Reroute
  <2>3. r.c = Held.c /\ r.p = Held.p /\ r.s = new /\ r.reopens = Held.reopens
      BY <1>1, <2>2 DEF Row
  <2>4. new \in Senders
    <3>1. new \in Pool[Held.c]
        BY <2>1 DEF RerouteTargets
    <3>2. Held.c \in Campaigns
        BY <1>1, <2>2 DEF Row
    <3>. QED BY <3>1, <3>2, PoolAssumption
  <2>5. M \in SUBSET Ids /\ recv \in [M -> Senders] /\ recv[worker.id] = new
      BY <1>1, <2>2, <2>4
  <2>6. \A i \in Ids : queue'[i] = IF i = worker.id THEN r ELSE queue[i]
      BY <1>0, <2>1 DEF Ids
  <2>7. DOMAIN queue' = Ids
      BY <1>0, <2>1 DEF Ids
  <2>. HIDE DEF r
  <2>8. /\ ContactsKept
        /\ \A i \in M : queue'[i].s = recv[i] /\ Open(queue[i])
        /\ \A i \in Ids \ M : queue'[i].s = queue[i].s
      BY <1>1, <2>2, <2>3, <2>5, <2>6, <2>7 DEF ContactsKept
  <2>9. cca' = CcaFollows(M, recv)
      BY <2>1
  <2>. HIDE DEF M, recv
  <2>. QED BY <1>0, <2>2, <2>5, <2>8, <2>9, HandoverAssigns
<1>10. CASE EvacuateFlagged
    BY <1>0, <1>1, <1>10, FailoverAssigns DEF EvacuateFlagged
<1>11. CASE RollbackSuspects
  <2>1. PICK M \in SUBSET Ids : \E recv \in [M -> Senders] :
            /\ queue' = [i \in Ids |-> IF i \in M
                    THEN [queue[i] EXCEPT !.st = "pending", !.s = recv[i],
                                          !.att = 0, !.reopens = @ + 1]
                    ELSE queue[i]]
            /\ cca' = CcaFollows(M, recv)
      BY <1>11 DEF RollbackSuspects, Suspects, WithStatus
  <2>2. PICK recv \in [M -> Senders] :
            /\ queue' = [i \in Ids |-> IF i \in M
                    THEN [queue[i] EXCEPT !.st = "pending", !.s = recv[i],
                                          !.att = 0, !.reopens = @ + 1]
                    ELSE queue[i]]
            /\ cca' = CcaFollows(M, recv)
      BY <2>1
  <2>3. \A n \in Nat : n + 1 # 0
      OBVIOUS
  <2>4. /\ ContactsKept
        /\ \A i \in M : queue'[i].s = recv[i] /\ queue'[i].reopens # 0
        /\ \A i \in Ids \ M : queue'[i].s = queue[i].s
      BY <1>0, <2>2, <2>3 DEF ContactsKept, Row, Open
  <2>. QED BY <1>0, <1>11, <2>2, <2>4, HandoverAssigns DEF RollbackSuspects
<1>12. CASE FailAllOfSender
  <2>1. ContactsKept /\ \A i \in Ids : queue'[i].s = queue[i].s
      BY <1>0, <1>12 DEF FailAllOfSender, ContactsKept, Row, Open
  <2>. QED BY <1>0, <1>12, <2>1, ClosingAssigns DEF FailAllOfSender
<1>13. CASE Restart
  <2>1. PICK old \in SUBSET WithStatus("processing") :
            queue' = [i \in Ids |-> IF i \in old THEN [queue[i] EXCEPT !.st = "pending"] ELSE queue[i]]
      BY <1>13 DEF Restart
  <2>2. \A i \in old : Open(queue[i])
      BY <2>1 DEF WithStatus, Open
  <2>3. ContactsKept /\ \A i \in Ids : queue'[i].s = queue[i].s
      BY <1>0, <2>1, <2>2 DEF ContactsKept, Row, Open
  <2>. QED BY <1>0, <1>13, <2>3, ClosingAssigns DEF Restart
<1>. QED BY <1>3, <1>4, <1>5, <1>6, <1>n, <1>7, <1>8, <1>9, <1>10, <1>11, <1>12, <1>13
         DEF WorkerNext, SendStep, Gate, PickNothing, PauseExpired, Proceed, LoseCommit, Restricted,
             AuthError, NotResolved, EvacuationReads, RollbackReads

LEMMA StepAssigns ==
    ASSUME IInv, Assignments, BatchIsPending, [Next]_vars
    PROVE  Assignments'
<1>1. CASE UNCHANGED vars
    BY <1>1 DEF vars, Assignments, OneWriter, BatchUnassigned, Open, Unreopened, SameContact, Ids
<1>. QED BY <1>1, ApiAssigns, EnqueueAssigns, WorkerAssigns DEF Next

\* Queue and sticky assignment agree on who writes to a contact, none of whose rows was put
\* back: whoever moves a row moves the assignment with it, whoever lets the contact go closes
\* its last open row, and a batch stages only whom nobody has.
THEOREM QueueFollowsAssignment == Spec => []LockStep
<1>1. Init => BatchIsPending /\ Assignments
    BY DEF Init, BatchIsPending, NoBatch, Assignments, OneWriter, BatchUnassigned, Ids
<1>2. IInv /\ BatchIsPending /\ Assignments /\ [Next]_vars => (BatchIsPending /\ Assignments)'
    BY BatchStaysPending, StepAssigns
<1>3. Assignments => LockStep
    BY DEF Assignments, OneWriter, LockStep, Open, Unreopened
<1>. QED BY <1>1, <1>2, <1>3, Invariant, PTL DEF Spec

-----------------------------------------------------------------------------
(* Sums over finite sets.  A sum is a fold by a function chosen over the    *)
(* whole set, so what one more member adds is proved by a least set that    *)
(* it fails for.                                                           *)

\* A nonempty set of numbers has a least one.
LEMMA LeastNumber ==
    ASSUME NEW U \in SUBSET Nat, U # {}
    PROVE  \E n \in U : \A m \in U : n <= m
<1>. DEFINE R == OpToRel(<, Nat)
<1>1. IsWellFoundedOn(R, Nat)
    BY NatLessThanWellFounded
<1>2. \A x, y \in Nat : x < y => <<x, y>> \in R
    BY DEF OpToRel
<1>. HIDE DEF R
<1>3. PICK n \in U : \A m \in U : ~(<<m, n>> \in R)
    BY <1>1, WFMin
<1>4. ASSUME NEW m \in U, ~(n <= m) PROVE FALSE
  <2>1. m \in Nat /\ n \in Nat /\ m < n
      BY <1>4
  <2>. QED BY <1>2, <1>3, <2>1
<1>. QED BY <1>4

\* What SumFunctionOnSet of the community modules computes: the values taken out one by
\* one, in an order of its own.
First(S) == CHOOSE x \in S : TRUE
Sums(f, a, S) == a = [T \in SUBSET S |-> IF T = {} THEN 0 ELSE f[First(T)] + a[T \ {First(T)}]]
Sum(f, S) == SumFunctionOnSet(f, S)

LEMMA SumIsChosen ==
    ASSUME NEW f, NEW S
    PROVE  Sum(f, S) = (CHOOSE a : Sums(f, a, S))[S]
    BY DEF Sum, SumFunctionOnSet, FoldFunctionOnSet, MapThenFoldSet, Sums, First

LEMMA FirstIsIn ==
    ASSUME NEW S, S # {}
    PROVE  First(S) \in S
    BY DEF First

\* Among the finite sets that have a property, some have the least cardinality.
LEMMA LeastSet ==
    ASSUME NEW F, F # {}, \A S \in F : IsFiniteSet(S)
    PROVE  \E S \in F : \A T \in F : Cardinality(S) <= Cardinality(T)
<1>. DEFINE U == {Cardinality(S) : S \in F}
<1>1. U \in SUBSET Nat /\ U # {}
    BY FS_CardinalityType
<1>2. PICK n \in U : \A m \in U : n <= m
    BY <1>1, LeastNumber
<1>. QED BY <1>2

\* There is one way to sum up, on every subset of a finite set.
LEMMA SumsAgree ==
    ASSUME NEW f, NEW S, IsFiniteSet(S), NEW T, NEW a, NEW b, Sums(f, a, S), Sums(f, b, T)
    PROVE  \A X \in (SUBSET S) \cap (SUBSET T) : a[X] = b[X]
<1>. DEFINE F == {X \in (SUBSET S) \cap (SUBSET T) : a[X] # b[X]}
<1>0. /\ \A X \in SUBSET S : a[X] = IF X = {} THEN 0 ELSE f[First(X)] + a[X \ {First(X)}]
      /\ \A X \in SUBSET T : b[X] = IF X = {} THEN 0 ELSE f[First(X)] + b[X \ {First(X)}]
    BY Zenon DEF Sums
<1>1. SUFFICES ASSUME F # {} PROVE FALSE
    OBVIOUS
<1>2. \A X \in F : IsFiniteSet(X)
    BY FS_Subset
<1>3. PICK X \in F : \A Y \in F : Cardinality(X) <= Cardinality(Y)
  <2>. HIDE DEF F
  <2>. QED BY <1>1, <1>2, LeastSet
<1>4. X # {}
    BY <1>0
<1>. DEFINE x == First(X)
            Y == X \ {x}
<1>5. x \in X
    BY <1>4, FirstIsIn
<1>6. Cardinality(Y) = Cardinality(X) - 1 /\ Cardinality(X) \in Nat
    BY <1>2, <1>5, FS_RemoveElement, FS_CardinalityType
<1>7. Y \notin F
    BY <1>3, <1>6
<1>8. Y \in (SUBSET S) \cap (SUBSET T)
    OBVIOUS
<1>9. a[Y] = b[Y]
    BY <1>7, <1>8
<1>10. a[X] = f[x] + a[Y] /\ b[X] = f[x] + b[Y]
    BY <1>0, <1>4
<1>. QED BY <1>9, <1>10

\* Where there is a way to sum up, it unfolds.
LEMMA SumUnfolds ==
    ASSUME NEW f, NEW S, IsFiniteSet(S), \E a : Sums(f, a, S),
           NEW T \in SUBSET S, T # {}, \E b : Sums(f, b, T), 
           \E b : Sums(f, b, T \ {First(T)})
    PROVE  Sum(f, T) = f[First(T)] + Sum(f, T \ {First(T)})
<1>. DEFINE x == First(T)
            Y == T \ {x}
<1>1. PICK a : Sums(f, a, T) /\ Sum(f, T) = a[T]
    BY SumIsChosen
<1>2. PICK b : Sums(f, b, Y) /\ Sum(f, Y) = b[Y]
    BY SumIsChosen
<1>3. a[T] = f[x] + a[Y]
    BY <1>1 DEF Sums
<1>4. a[Y] = b[Y]
  <2>1. IsFiniteSet(T) /\ Y \in (SUBSET T) \cap (SUBSET Y)
      BY FS_Subset
  <2>. HIDE DEF Y
  <2>. QED BY <1>1, <1>2, <2>1, SumsAgree
<1>. QED BY <1>1, <1>2, <1>3, <1>4

\* And there always is.
LEMMA SumsExist ==
    ASSUME NEW f, NEW S, IsFiniteSet(S)
    PROVE  \E a : Sums(f, a, S)
<1>. DEFINE F == {X \in SUBSET S : ~\E a : Sums(f, a, X)}
<1>1. SUFFICES ASSUME F # {} PROVE FALSE
    OBVIOUS
<1>2. \A X \in SUBSET S : IsFiniteSet(X)
    BY FS_Subset
<1>3. PICK X \in F : \A Y \in F : Cardinality(X) <= Cardinality(Y)
  <2>. HIDE DEF F
  <2>1. \A Z \in F : IsFiniteSet(Z)
    BY <1>2 DEF F
  <2>. QED BY <1>1, <2>1, LeastSet
<1>4. \A Y \in SUBSET X : Y # X => \E a : Sums(f, a, Y)
  <2>. SUFFICES ASSUME NEW Y \in SUBSET X, Y # X, Y \in F PROVE FALSE
      OBVIOUS
  <2>1. Cardinality(Y) < Cardinality(X)
    <3>1. Cardinality(Y) <= Cardinality(X) /\ Cardinality(Y) # Cardinality(X)
        BY <1>2, FS_Subset
    <3>2. Cardinality(Y) \in Nat /\ Cardinality(X) \in Nat
        BY <1>2, FS_CardinalityType
    <3>. QED BY <3>1, <3>2
  <2>2. Cardinality(Y) \in Nat /\ Cardinality(X) \in Nat
      BY <1>2, FS_CardinalityType
  <2>. QED BY <1>3, <2>1, <2>2
<1>5. ASSUME NEW Y \in SUBSET X, Y # X, Y # {}
      PROVE  Sum(f, Y) = f[First(Y)] + Sum(f, Y \ {First(Y)})
  <2>1. Y \ {First(Y)} \in SUBSET X /\ Y \ {First(Y)} # X
      BY <1>5
  <2>. QED BY <1>2, <1>4, <1>5, <2>1, SumUnfolds
<1>6. Sum(f, {}) = 0 
  <2>. DEFINE z == [T \in SUBSET {} |-> 0]
  <2>1. Sums(f, z, {})
      BY DEF Sums
  <2>2. PICK a : Sums(f, a, {}) /\ Sum(f, {}) = a[{}]
      BY <2>1, SumIsChosen
  <2>. QED BY <2>2 DEF Sums
<1>. DEFINE total == f[First(X)] + Sum(f, X \ {First(X)})
            z == [T \in SUBSET X |-> IF T = {} THEN 0 ELSE IF T = X THEN total ELSE Sum(f, T)]
<1>7. \A T \in SUBSET X : T # {} => First(T) \in T
    BY FirstIsIn
<1>8. \A T \in SUBSET X : z[T] = IF T = {} THEN 0 ELSE f[First(T)] + z[T \ {First(T)}]
  <2>. SUFFICES ASSUME NEW T \in SUBSET X, T # {}
                PROVE  z[T] = f[First(T)] + z[T \ {First(T)}]
      OBVIOUS
  <2>1. T \ {First(T)} \in SUBSET X /\ T \ {First(T)} # X
      BY <1>7
  <2>2. z[T \ {First(T)}] = Sum(f, T \ {First(T)})
      BY <1>6, <2>1
  <2>3. CASE T = X
      BY <2>2, <2>3
  <2>4. CASE T # X
      BY <1>5, <2>2, <2>4
  <2>. QED BY <2>3, <2>4
<1>9. Sums(f, z, X)
  <2>. HIDE DEF total
  <2>1. z = [T \in SUBSET X |-> z[T]]
      OBVIOUS
  <2>. HIDE DEF z
  <2>. QED BY <1>8, <2>1, Zenon DEF Sums
<1>. QED BY <1>3, <1>9

\* The sum is taken one value at a time.
LEMMA SumStep ==
    ASSUME NEW f, NEW S, IsFiniteSet(S)
    PROVE  /\ Sum(f, {}) = 0
           /\ S # {} => Sum(f, S) = f[First(S)] + Sum(f, S \ {First(S)})
<1>1. \A X \in SUBSET S : IsFiniteSet(X)
    BY FS_Subset
<1>2. \E a : Sums(f, a, {})
    BY <1>1, SumsExist
<1>3. PICK a : Sums(f, a, {}) /\ Sum(f, {}) = a[{}]
    BY <1>2, SumIsChosen
<1>4. Sum(f, {}) = 0
    BY <1>3 DEF Sums
<1>5. S \ {First(S)} \in SUBSET S
    OBVIOUS
<1>. QED BY <1>1, <1>4, <1>5, SumsExist, SumUnfolds

\* Numbers sum up to a number, and the order does not matter.
LEMMA SumTakes ==
    ASSUME NEW S, IsFiniteSet(S), NEW f, \A x \in S : f[x] \in Nat
    PROVE  /\ Sum(f, S) \in Nat
           /\ \A y \in S : Sum(f, S) = f[y] + Sum(f, S \ {y})
<1>. DEFINE F == {X \in SUBSET S : ~(/\ Sum(f, X) \in Nat
                                     /\ \A y \in X : Sum(f, X) = f[y] + Sum(f, X \ {y}))}
<1>1. SUFFICES ASSUME F # {} PROVE FALSE
    OBVIOUS
<1>2. \A X \in SUBSET S : IsFiniteSet(X)
    BY FS_Subset
<1>3. PICK X \in F : \A Y \in F : Cardinality(X) <= Cardinality(Y)
  <2>. HIDE DEF F
  <2>1. \A Z \in F : IsFiniteSet(Z)
    BY <1>2 DEF F
  <2>. QED BY <1>1, <2>1, LeastSet
<1>4. ASSUME NEW x \in X 
      PROVE  /\ Sum(f, X \ {x}) \in Nat
             /\ \A y \in X \ {x} : Sum(f, X \ {x}) = f[y] + Sum(f, (X \ {x}) \ {y})
  <2>1. Cardinality(X \ {x}) = Cardinality(X) - 1 /\ Cardinality(X) \in Nat
      BY <1>2, FS_RemoveElement, FS_CardinalityType
  <2>2. X \ {x} \in SUBSET S /\ X \ {x} \notin F
      BY <1>3, <2>1
  <2>. QED BY <2>2
<1>5. X # {}
  <2>1. Sum(f, {}) = 0
      BY SumStep
  <2>. QED BY <1>3, <2>1
<1>. DEFINE x == First(X)
<1>6. x \in X /\ x \in S /\ f[x] \in Nat
    BY <1>5, FirstIsIn
<1>7. Sum(f, X) = f[x] + Sum(f, X \ {x})
    BY <1>2, <1>5, SumStep
<1>8. Sum(f, X) \in Nat
    BY <1>4, <1>6, <1>7
<1>9. ASSUME NEW y \in X, y # x 
      PROVE  Sum(f, X) = f[y] + Sum(f, X \ {y})
  <2>. DEFINE Z == X \ {x, y}
  <2>1. (X \ {x}) \ {y} = Z /\ (X \ {y}) \ {x} = Z
      OBVIOUS
  <2>2. Sum(f, X \ {x}) = f[y] + Sum(f, Z)
      BY <1>4, <1>6, <1>9, <2>1
  <2>3. Sum(f, X \ {y}) = f[x] + Sum(f, Z)
      BY <1>4, <1>6, <1>9, <2>1
  <2>4. Sum(f, X \ {y}) \in Nat /\ Sum(f, X \ {x}) \in Nat /\ f[y] \in Nat
      BY <1>4, <1>6
  <2>5. Sum(f, Z) \in Nat
    <3>1. Z \in SUBSET X /\ Z # X
        BY <1>6
    <3>2. Cardinality(Z) < Cardinality(X) /\ Cardinality(Z) \in Nat /\ Cardinality(X) \in Nat
      <4>1. Cardinality(Z) <= Cardinality(X) /\ Cardinality(Z) # Cardinality(X)
          BY <1>2, <3>1, FS_Subset
      <4>2. Cardinality(Z) \in Nat /\ Cardinality(X) \in Nat
          BY <1>2, FS_CardinalityType
      <4>. QED BY <4>1, <4>2
    <3>3. Z \notin F
      <4>. HIDE DEF F, Z
      <4>. QED BY <1>3, <3>2
    <3>. QED BY <3>3
  <2>. HIDE DEF Z, x
  <2>. QED BY <1>6, <1>7, <2>2, <2>3, <2>4, <2>5
<1>. QED BY <1>3, <1>7, <1>8, <1>9

\* The sum over a set whose elements in M have got one more.
LEMMA SumRises ==
    ASSUME NEW S, IsFiniteSet(S), NEW f, \A x \in S : f[x] \in Nat, NEW g, NEW M,
           \A x \in S : g[x] = IF x \in M THEN f[x] + 1 ELSE f[x]
    PROVE  Sum(g, S) = Sum(f, S) + Cardinality(S \cap M)
<1>. DEFINE F == {X \in SUBSET S : Sum(g, X) # Sum(f, X) + Cardinality(X \cap M)}
<1>1. SUFFICES ASSUME F # {} PROVE FALSE
    OBVIOUS
<1>2. \A X \in SUBSET S : IsFiniteSet(X)
    BY FS_Subset
<1>3. PICK X \in F : \A Y \in F : Cardinality(X) <= Cardinality(Y)
  <2>. HIDE DEF F
  <2>1. \A Z \in F : IsFiniteSet(Z)
    BY <1>2 DEF F
  <2>. QED BY <1>1, <2>1, LeastSet
<1>5. X # {}
  <2>1. Sum(f, {}) = 0 /\ Sum(g, {}) = 0
      BY SumStep
  <2>2. Cardinality({} \cap M) = 0
      BY FS_EmptySet
  <2>. QED BY <1>3, <2>1, <2>2
<1>6. PICK x \in X : TRUE
    BY <1>5
<1>. DEFINE Y == X \ {x}
<1>7. Cardinality(Y) = Cardinality(X) - 1 /\ Cardinality(X) \in Nat
    BY <1>2, FS_RemoveElement, FS_CardinalityType
<1>8. Sum(g, Y) = Sum(f, Y) + Cardinality(Y \cap M)
    BY <1>3, <1>7
<1>9. \A z \in S : f[z] \in Nat /\ g[z] \in Nat
    OBVIOUS
<1>10. /\ Sum(f, X) = f[x] + Sum(f, Y) /\ Sum(g, X) = g[x] + Sum(g, Y)
       /\ Sum(f, Y) \in Nat
    BY <1>2, <1>9, SumTakes
<1>11. Cardinality(X \cap M) = Cardinality(Y \cap M) + (IF x \in M THEN 1 ELSE 0)
       /\ Cardinality(Y \cap M) \in Nat
  <2>1. IsFiniteSet(Y \cap M)
      BY <1>2
  <2>2. X \cap M = IF x \in M THEN (Y \cap M) \cup {x} ELSE Y \cap M
      OBVIOUS
  <2>3. x \notin Y \cap M /\ Cardinality(Y \cap M) \in Nat
      BY <2>1, FS_CardinalityType
  <2>. DEFINE W == Y \cap M
  <2>4. Cardinality(W \cup {x}) = Cardinality(W) + 1
    <3>. HIDE DEF W
    <3>1. IsFiniteSet(W) /\ x \notin W
        BY <2>1, <2>3 DEF W
    <3>. QED BY <3>1, FS_AddElement
  <2>. QED BY <2>2, <2>3, <2>4
<1>12. x \in S /\ g[x] = f[x] + (IF x \in M THEN 1 ELSE 0) /\ f[x] \in Nat
    OBVIOUS
<1>13. Sum(g, X) = Sum(f, X) + Cardinality(X \cap M)
  <2>. HIDE DEF Y
  <2>. QED BY <1>8, <1>10, <1>11, <1>12
<1>. QED BY <1>3, <1>13

LEMMA SumSame ==
    ASSUME NEW S, IsFiniteSet(S), NEW f, NEW g, \A x \in S : f[x] \in Nat /\ g[x] = f[x]
    PROVE  Sum(g, S) = Sum(f, S)
<1>. DEFINE M == {}
<1>0. \A x \in S : f[x] \in Nat
    OBVIOUS
<1>1. \A x \in S : g[x] = IF x \in M THEN f[x] + 1 ELSE f[x]
    OBVIOUS
<1>2. Cardinality(S \cap M) = 0 /\ Sum(f, S) \in Nat
    BY <1>0, FS_EmptySet, SumTakes
<1>. HIDE DEF M
<1>3. Sum(g, S) = Sum(f, S) + Cardinality(S \cap M)
    BY <1>0, <1>1, SumRises
<1>. QED BY <1>2, <1>3

-----------------------------------------------------------------------------
(* What is counted per contact.                                             *)

\* Rows of a contact that have not failed, and rows whose first copy is paid for.
Unfailed(c, p) == {i \in RowsOf(c, p) : queue[i].st # "failed"}
DeliveredOf(c, p) == {i \in RowsOf(c, p) : Delivered(i)}
Taken(c, p) == IF cca[c][p] = NoSender THEN 0 ELSE 1

\* A row that has not failed is paid for by the assignment or by having been put back, a row
\* that has failed by the cap.
RowsCounted ==
    \A c \in Campaigns, p \in Contacts :
        /\ Cardinality(Unfailed(c, p)) <= Reopens(c, p) + Taken(c, p)
        /\ Cardinality(RowsOf(c, p)) + 1 <= ColdFailReleaseCap + Reopens(c, p) + Taken(c, p)

\* A copy is paid for by a fault or by its row's delivery.
CopiesCounted ==
    \A c \in Campaigns, p \in Contacts :
        Copies(c, p) <= Faults + Cardinality(DeliveredOf(c, p))

ContactsStay ==
    /\ DOMAIN queue' = Ids
    /\ \A i \in Ids : queue'[i].c = queue[i].c /\ queue'[i].p = queue[i].p

\* The rows of M are put back once more; no other row stops being failed.
ReopensBy(M) ==
    \A i \in Ids :
        /\ queue'[i].reopens = IF i \in M THEN queue[i].reopens + 1 ELSE queue[i].reopens
        /\ queue'[i].st # "failed" => queue[i].st # "failed" \/ i \in M

\* The rows of M are delivered once more.
CopiesBy(M) ==
    \A i \in Ids :
        queue'[i].copies = IF i \in M THEN queue[i].copies + 1 ELSE queue[i].copies

\* Nobody loses the assignment.
TakenKept ==
    \A c \in Campaigns, p \in Contacts : cca[c][p] # NoSender => cca'[c][p] # NoSender

\* A row fails for good and its contact, nobody else, loses the assignment.
Releases(i) ==
    /\ queue[i].st # "failed" /\ queue'[i].st = "failed"
    /\ \A j \in Ids \ {i} : queue'[j] = queue[j]
    /\ ReleasesContact(i)
    /\ \A c \in Campaigns, p \in Contacts :
          ~(c = queue[i].c /\ p = queue[i].p) => cca'[c][p] = cca[c][p]

LEMMA RowsOfFinite ==
    ASSUME TypeOK, NEW c, NEW p
    PROVE  /\ IsFiniteSet(Ids) /\ IsFiniteSet(RowsOf(c, p)) /\ RowsOf(c, p) \subseteq Ids
           /\ \A i \in Ids : queue[i] \in Row
<1>1. queue \in Seq(Row) /\ Ids = 1..Len(queue) /\ Len(queue) \in Nat
    BY DEF TypeOK, Ids
<1>2. IsFiniteSet(Ids)
    BY <1>1, FS_Interval
<1>. QED BY <1>1, <1>2, FS_Subset DEF RowsOf

\* Rows that keep their contact: what the two sums become.
LEMMA SumsMove ==
    ASSUME TypeOK, ContactsStay, NEW c, NEW p
    PROVE  /\ RowsOf(c, p)' = RowsOf(c, p)
           /\ Reopens(c, p) \in Nat /\ Copies(c, p) \in Nat
           /\ \A M \in SUBSET Ids : ReopensBy(M) =>
                 Reopens(c, p)' = Reopens(c, p) + Cardinality(RowsOf(c, p) \cap M)
           /\ \A M \in SUBSET Ids : CopiesBy(M) =>
                 Copies(c, p)' = Copies(c, p) + Cardinality(RowsOf(c, p) \cap M)
<1>1. RowsOf(c, p)' = RowsOf(c, p)
    BY DEF RowsOf, ContactsStay, Ids
<1>. DEFINE S == RowsOf(c, p)
            r0 == [i \in Ids |-> queue[i].reopens]
            r1 == [i \in Ids |-> queue'[i].reopens]
            k0 == [i \in Ids |-> queue[i].copies]
            k1 == [i \in Ids |-> queue'[i].copies]
<1>2. IsFiniteSet(S) /\ S \subseteq Ids /\ \A i \in S : r0[i] \in Nat /\ k0[i] \in Nat
    BY RowsOfFinite DEF Row
<1>3. /\ Reopens(c, p) = Sum(r0, S) /\ Reopens(c, p)' = Sum(r1, S)
      /\ Copies(c, p) = Sum(k0, S) /\ Copies(c, p)' = Sum(k1, S)
    BY <1>1 DEF Reopens, Copies, Sum, ContactsStay, Ids
<1>4. ASSUME NEW M \in SUBSET Ids, ReopensBy(M)
      PROVE  Sum(r1, S) = Sum(r0, S) + Cardinality(S \cap M)
  <2>1. \A i \in S : r1[i] = IF i \in M THEN r0[i] + 1 ELSE r0[i]
      BY <1>2, <1>4 DEF ReopensBy
  <2>2. IsFiniteSet(S) /\ \A i \in S : r0[i] \in Nat
      BY <1>2
  <2>. HIDE DEF r0, r1, k0, k1, S
  <2>. QED BY <2>1, <2>2, SumRises
<1>5. ASSUME NEW M \in SUBSET Ids, CopiesBy(M)
      PROVE  Sum(k1, S) = Sum(k0, S) + Cardinality(S \cap M)
  <2>1. \A i \in S : k1[i] = IF i \in M THEN k0[i] + 1 ELSE k0[i]
      BY <1>2, <1>5 DEF CopiesBy
  <2>2. IsFiniteSet(S) /\ \A i \in S : k0[i] \in Nat
      BY <1>2
  <2>. HIDE DEF r0, r1, k0, k1, S
  <2>. QED BY <2>1, <2>2, SumRises
<1>6. Sum(r0, S) \in Nat /\ Sum(k0, S) \in Nat
  <2>. HIDE DEF k0, r0, S
  <2>. QED BY <1>2, SumTakes
<1>. QED BY <1>1, <1>3, <1>4, <1>5, <1>6

\* Rows are put back, nobody is let go.
LEMMA ReopeningCounts ==
    ASSUME TypeOK, RowsCounted, ContactsStay, TakenKept, NEW M \in SUBSET Ids, ReopensBy(M)
    PROVE  RowsCounted'
<1>. SUFFICES ASSUME NEW c \in Campaigns, NEW p \in Contacts
              PROVE  /\ Cardinality(Unfailed(c, p))' <= Reopens(c, p)' + Taken(c, p)'
                     /\ Cardinality(RowsOf(c, p))' + 1
                            <= ColdFailReleaseCap + Reopens(c, p)' + Taken(c, p)'
    BY DEF RowsCounted
<1>. DEFINE S == RowsOf(c, p)
            U == Unfailed(c, p)
            V == Unfailed(c, p)'
<1>1. /\ RowsOf(c, p)' = S /\ Reopens(c, p) \in Nat
      /\ Reopens(c, p)' = Reopens(c, p) + Cardinality(S \cap M)
    BY SumsMove
<1>2. IsFiniteSet(S) /\ S \subseteq Ids /\ U \subseteq S
    BY RowsOfFinite DEF Unfailed
<1>3. V \subseteq U \cup (S \cap M)
    BY <1>1, <1>2 DEF Unfailed, ReopensBy
<1>. DEFINE W == S \cap M
<1>4. /\ IsFiniteSet(U) /\ IsFiniteSet(W) /\ IsFiniteSet(U \cup W) /\ IsFiniteSet(V)
      /\ Cardinality(U) \in Nat /\ Cardinality(W) \in Nat /\ Cardinality(U \cup W) \in Nat
      /\ Cardinality(V) \in Nat /\ Cardinality(S) \in Nat
  <2>. HIDE DEF S, U, V
  <2>1. IsFiniteSet(U) /\ IsFiniteSet(W)
      BY <1>2, FS_Subset
  <2>. HIDE DEF W
  <2>2. IsFiniteSet(U \cup W)
      BY <2>1, FS_Union
  <2>3. IsFiniteSet(V)
      BY <2>2, <1>3, FS_Subset DEF W
  <2>. QED BY <1>2, <2>1, <2>2, <2>3, FS_CardinalityType
<1>5. Cardinality(V) <= Cardinality(U) + Cardinality(W)
  <2>1. V \subseteq U \cup W
      BY <1>3
  <2>. HIDE DEF S, U, V, W
  <2>2. Cardinality(V) <= Cardinality(U \cup W)
      BY <1>4, <2>1, FS_Subset
  <2>3. Cardinality(U \cup W) = Cardinality(U) + Cardinality(W) - Cardinality(U \cap W)
      BY <1>4, FS_Union
  <2>4. Cardinality(U \cap W) \in Nat
      BY <1>4, FS_Intersection, FS_CardinalityType
  <2>. QED BY <1>4, <2>2, <2>3, <2>4
<1>6. Taken(c, p) \in Nat /\ Taken(c, p)' \in Nat /\ Taken(c, p) <= Taken(c, p)'
    BY DEF Taken, TakenKept
<1>7. /\ Cardinality(U) <= Reopens(c, p) + Taken(c, p)
      /\ Cardinality(S) + 1 <= ColdFailReleaseCap + Reopens(c, p) + Taken(c, p)
    BY DEF RowsCounted
<1>. HIDE DEF S, U, V, W
<1>8. /\ Cardinality(Unfailed(c, p))' = Cardinality(V) /\ Cardinality(RowsOf(c, p))' = Cardinality(S)
      /\ Reopens(c, p)' = Reopens(c, p) + Cardinality(W)
    BY <1>1 DEF V, S, W
<1>9. ColdFailReleaseCap \in Nat
    BY BoundAssumption
<1>. QED BY <1>1, <1>4, <1>5, <1>6, <1>7, <1>8, <1>9

\* A contact is let go with its last open row but those put back, and below the cap.
LEMMA ReleasingCounts ==
    ASSUME TypeOK, RowsCounted, ContactsStay, ReopensBy({}), NEW i \in Ids, Releases(i)
    PROVE  RowsCounted'
<1>. SUFFICES ASSUME NEW c \in Campaigns, NEW p \in Contacts
              PROVE  /\ Cardinality(Unfailed(c, p))' <= Reopens(c, p)' + Taken(c, p)'
                     /\ Cardinality(RowsOf(c, p))' + 1
                            <= ColdFailReleaseCap + Reopens(c, p)' + Taken(c, p)'
    BY DEF RowsCounted
<1>. DEFINE S == RowsOf(c, p)
            U == Unfailed(c, p)
            V == Unfailed(c, p)'
<1>1. /\ RowsOf(c, p)' = S /\ Reopens(c, p) \in Nat /\ Reopens(c, p)' = Reopens(c, p)
  <2>1. Cardinality(S \cap {}) = 0
      BY FS_EmptySet
  <2>. QED BY <2>1, SumsMove
<1>2. IsFiniteSet(S) /\ S \subseteq Ids /\ U \subseteq S /\ V \subseteq U
    BY <1>1, RowsOfFinite DEF Unfailed, ReopensBy
<1>3. /\ IsFiniteSet(U) /\ IsFiniteSet(V) /\ Cardinality(V) <= Cardinality(U)
      /\ Cardinality(U) \in Nat /\ Cardinality(V) \in Nat /\ Cardinality(S) \in Nat
  <2>. HIDE DEF S, U, V
  <2>. QED BY <1>2, FS_Subset, FS_CardinalityType
<1>4. /\ Cardinality(U) <= Reopens(c, p) + Taken(c, p)
      /\ Cardinality(S) + 1 <= ColdFailReleaseCap + Reopens(c, p) + Taken(c, p)
    BY DEF RowsCounted
<1>5. Taken(c, p) \in {0, 1} /\ Taken(c, p)' \in {0, 1} /\ ColdFailReleaseCap \in Nat
    BY BoundAssumption DEF Taken
<1>6. CASE ~(c = queue[i].c /\ p = queue[i].p)
  <2>1. Taken(c, p)' = Taken(c, p)
      BY <1>6 DEF Releases, Taken
  <2>. HIDE DEF S
  <2>. QED BY <1>1, <1>3, <1>4, <1>5, <2>1 DEF S
<1>7. CASE c = queue[i].c /\ p = queue[i].p
  <2>1. S = SameContact(i) /\ i \in S
      BY <1>7 DEF SameContact, RowsOf
  <2>. DEFINE X == {j \in SameContact(i) \ {i} : queue[j].st = "failed"}
  <2>2. i \in U /\ V = U \ {i} /\ S = (X \cup V) \cup {i} /\ i \notin X \cup V /\ X \cap V = {}
    <3>1. \A j \in Ids : queue'[j].st # "failed" <=> queue[j].st # "failed" /\ j # i
        BY DEF Releases
    <3>. QED BY <1>1, <1>2, <2>1, <3>1 DEF Unfailed, Releases
  <2>3. Cardinality(X) + 1 < ColdFailReleaseCap
      BY DEF Releases, ReleasesContact
  <2>4. X \subseteq S
      BY <2>1
  <2>. HIDE DEF S, U, V, X
  <2>5. Cardinality(V) = Cardinality(U) - 1
      BY <1>3, <2>2, FS_RemoveElement
  <2>6. IsFiniteSet(X) /\ Cardinality(X) \in Nat
      BY <1>2, <2>4, FS_Subset, FS_CardinalityType
  <2>7. IsFiniteSet(X \cup V) /\ Cardinality(X \cup V) = Cardinality(X) + Cardinality(V)
    <3>1. Cardinality(X \cap V) = 0
        BY <2>2, FS_EmptySet
    <3>. QED BY <1>3, <2>6, <3>1, FS_Union
  <2>8. Cardinality(S) = Cardinality(X \cup V) + 1
      BY <2>2, <2>7, FS_AddElement
  <2>9. Cardinality(Unfailed(c, p))' = Cardinality(V) /\ Cardinality(RowsOf(c, p))' = Cardinality(S)
      BY <1>1 DEF V, S
  <2>. QED BY <1>1, <1>3, <1>4, <1>5, <2>3, <2>5, <2>6, <2>7, <2>8, <2>9
<1>. QED BY <1>6, <1>7

\* Copies are made and deliveries forgotten, each for a fault.
LEMMA FaultsPayCopies ==
    ASSUME TypeOK, CopiesCounted, ContactsStay, NEW M \in SUBSET Ids, CopiesBy(M),
           NEW L \in SUBSET Ids, \A i \in Ids \ L : Delivered(i) => Delivered(i)',
           Faults \in Nat, Faults' \in Nat, Faults + Cardinality(M) + Cardinality(L) <= Faults'
    PROVE  CopiesCounted'
<1>. SUFFICES ASSUME NEW c \in Campaigns, NEW p \in Contacts
              PROVE  Copies(c, p)' <= Faults' + Cardinality(DeliveredOf(c, p))'
    BY DEF CopiesCounted
<1>. DEFINE S == RowsOf(c, p)
            D == DeliveredOf(c, p)
            E == DeliveredOf(c, p)'
            W == S \cap M
<1>1. /\ RowsOf(c, p)' = S /\ Copies(c, p) \in Nat
      /\ Copies(c, p)' = Copies(c, p) + Cardinality(W)
    BY SumsMove
<1>2. /\ IsFiniteSet(Ids) /\ S \subseteq Ids /\ D \subseteq Ids /\ E \subseteq Ids /\ W \subseteq M
      /\ D \subseteq E \cup L
    BY <1>1, RowsOfFinite DEF DeliveredOf
<1>3. /\ IsFiniteSet(D) /\ IsFiniteSet(E) /\ IsFiniteSet(L) /\ IsFiniteSet(M)
      /\ Cardinality(W) <= Cardinality(M) /\ Cardinality(W) \in Nat
      /\ Cardinality(D) \in Nat /\ Cardinality(E) \in Nat /\ Cardinality(L) \in Nat
      /\ Cardinality(M) \in Nat
  <2>. HIDE DEF S, D, E, W
  <2>1. IsFiniteSet(D) /\ IsFiniteSet(E) /\ IsFiniteSet(L) /\ IsFiniteSet(M)
      BY <1>2, FS_Subset
  <2>2. IsFiniteSet(W) /\ Cardinality(W) <= Cardinality(M)
      BY <1>2, <2>1, FS_Subset
  <2>. QED BY <2>1, <2>2, FS_CardinalityType
<1>4. Cardinality(D) <= Cardinality(E) + Cardinality(L)
  <2>. HIDE DEF S, D, E, W
  <2>1. IsFiniteSet(E \cup L)
        /\ Cardinality(E \cup L) = Cardinality(E) + Cardinality(L) - Cardinality(E \cap L)
      BY <1>3, FS_Union
  <2>2. Cardinality(D) <= Cardinality(E \cup L)
      BY <1>2, <2>1, FS_Subset
  <2>3. Cardinality(E \cap L) \in Nat
      BY <1>3, FS_Intersection, FS_CardinalityType
  <2>. QED BY <1>3, <2>1, <2>2, <2>3
<1>5. Copies(c, p) <= Faults + Cardinality(D)
    BY DEF CopiesCounted
<1>6. Cardinality(DeliveredOf(c, p))' = Cardinality(E)
    OBVIOUS
<1>. HIDE DEF S, D, E, W
<1>. QED BY <1>1, <1>3, <1>4, <1>5, <1>6

\* A copy is made of a row that counts as delivered from then on.
LEMMA DeliveryPaysCopy ==
    ASSUME TypeOK, CopiesCounted, ContactsStay, NEW i \in Ids, CopiesBy({i}),
           ~Delivered(i), Delivered(i)', \A j \in Ids : Delivered(j) => Delivered(j)',
           Faults \in Nat, Faults' = Faults
    PROVE  CopiesCounted'
<1>. SUFFICES ASSUME NEW c \in Campaigns, NEW p \in Contacts
              PROVE  Copies(c, p)' <= Faults' + Cardinality(DeliveredOf(c, p))'
    BY DEF CopiesCounted
<1>. DEFINE S == RowsOf(c, p)
            D == DeliveredOf(c, p)
            E == DeliveredOf(c, p)'
            W == S \cap {i}
<1>1. /\ RowsOf(c, p)' = S /\ Copies(c, p) \in Nat
      /\ Copies(c, p)' = Copies(c, p) + Cardinality(W)
    BY SumsMove
<1>2. /\ IsFiniteSet(Ids) /\ S \subseteq Ids /\ D \subseteq Ids /\ E \subseteq Ids
      /\ D \cup W \subseteq E /\ D \cap W = {} /\ IsFiniteSet(W)
    BY <1>1, RowsOfFinite, FS_Singleton, FS_Subset DEF DeliveredOf
<1>3. Copies(c, p) <= Faults + Cardinality(D)
    BY DEF CopiesCounted
<1>4. Cardinality(DeliveredOf(c, p))' = Cardinality(E)
    OBVIOUS
<1>. HIDE DEF S, D, E, W
<1>5. IsFiniteSet(D) /\ IsFiniteSet(E) /\ IsFiniteSet(D \cup W)
    BY <1>2, FS_Subset, FS_Union
<1>6. Cardinality(D \cup W) = Cardinality(D) + Cardinality(W)
  <2>1. Cardinality(D \cap W) = 0
      BY <1>2, FS_EmptySet
  <2>2. Cardinality(D) \in Nat /\ Cardinality(W) \in Nat
      BY <1>2, <1>5, FS_CardinalityType
  <2>. QED BY <1>2, <1>5, <2>1, <2>2, FS_Union
<1>7. Cardinality(D \cup W) <= Cardinality(E) /\ Cardinality(W) \in Nat /\ Cardinality(D) \in Nat
      /\ Cardinality(E) \in Nat
    BY <1>2, <1>5, FS_Subset, FS_CardinalityType
<1>. QED BY <1>1, <1>3, <1>4, <1>6, <1>7

\* Rows that keep contact and history.
RowsTallied == ContactsStay /\ ReopensBy({}) /\ CopiesBy({})

\* A failed attempt closes its row, and may let its contact go.
LEMMA FailItemTallies ==
    ASSUME TypeOK, NEW i \in Ids, NEW row \in Row, FailItem(i, row), queue[i].st = "processing",
           row.c = queue[i].c, row.p = queue[i].p, row.reopens = queue[i].reopens
    PROVE  /\ ContactsStay /\ ReopensBy({}) /\ (TakenKept \/ Releases(i))
           /\ row.copies = queue[i].copies => CopiesBy({})
           /\ row.copies = queue[i].copies + 1 => CopiesBy({i})
<1>. DEFINE r == AfterFailure(row)
<1>1. r.c = queue[i].c /\ r.p = queue[i].p /\ r.reopens = queue[i].reopens /\ r.copies = row.copies
    BY DEF AfterFailure, Row
<1>2. /\ queue' = [queue EXCEPT ![i] = r]
      /\ cca' = IF r.st = "failed" /\ ReleasesContact(i)
                THEN [cca EXCEPT ![row.c][row.p] = NoSender]
                ELSE cca
    BY DEF FailItem
<1>. HIDE DEF r
<1>3. /\ DOMAIN queue' = Ids
      /\ \A j \in Ids : queue'[j] = IF j = i THEN r ELSE queue[j]
    BY <1>2 DEF TypeOK, Ids
<1>4. ContactsStay /\ ReopensBy({})
    BY <1>1, <1>3 DEF ContactsStay, ReopensBy
<1>5. /\ row.copies = queue[i].copies => CopiesBy({})
      /\ row.copies = queue[i].copies + 1 => CopiesBy({i})
    BY <1>1, <1>3 DEF CopiesBy
<1>6. CASE cca' = cca
    BY <1>4, <1>5, <1>6 DEF TakenKept
<1>7. CASE r.st = "failed" /\ ReleasesContact(i) /\ cca' = [cca EXCEPT ![row.c][row.p] = NoSender]
  <2>1. \A c \in Campaigns, p \in Contacts :
            cca'[c][p] = IF c = row.c /\ p = row.p THEN NoSender ELSE cca[c][p]
      BY <1>7 DEF TypeOK
  <2>2. Releases(i)
      BY <1>3, <1>7, <2>1 DEF Releases
  <2>. QED BY <1>4, <1>5, <2>2
<1>. QED BY <1>2, <1>6, <1>7

LEMMA FollowingTakes ==
    ASSUME TypeOK, NEW M \in SUBSET Ids, NEW recv \in [M -> Senders], cca' = CcaFollows(M, recv)
    PROVE  TakenKept
<1>. SUFFICES ASSUME NEW c \in Campaigns, NEW p \in Contacts, cca[c][p] # NoSender
              PROVE  cca'[c][p] # NoSender
    BY DEF TakenKept
<1>. DEFINE ids == {i \in M : queue[i].c = c /\ queue[i].p = p}
            last == CHOOSE i \in ids : \A j \in ids : j <= i
<1>1. CcaFollows(M, recv)[c][p] = IF ids = {} THEN cca[c][p] ELSE recv[last]
    BY DEF CcaFollows
<1>2. CASE ids # {}
  <2>1. Ids = 1..Len(queue) /\ Len(queue) \in Nat
      BY DEF TypeOK, Ids
  <2>2. \E i \in ids : \A j \in ids : j <= i
    <3>1. ids \in SUBSET (1..Len(queue))
        BY <2>1
    <3>. HIDE DEF ids
    <3>. QED BY <1>2, <2>1, <3>1, GreatestId
  <2>3. last \in ids
    <3>. HIDE DEF ids
    <3>. QED BY <2>2
  <2>. QED BY <1>1, <1>2, <2>3, NullAssumption
<1>. QED BY <1>1, <1>2

LEMMA FailoverTallies ==
    ASSUME TypeOK, NEW s \in Senders, NEW read, Failover(s, read)
    PROVE  RowsTallied /\ TakenKept
<1>. DEFINE M == {i \in Ids : queue[i].s = s /\ Failoverable(i)
                               /\ Pool[queue[i].c] \cap read # {}}
<1>1. PICK recv \in [M -> Senders] :
          /\ queue' = [i \in Ids |-> IF i \in M THEN [queue[i] EXCEPT !.s = recv[i], !.att = 0]
                                     ELSE queue[i]]
          /\ cca' = CcaFollows(M, recv)
    BY DEF Failover
<1>2. M \in SUBSET Ids
    OBVIOUS
<1>. HIDE DEF M
<1>3. RowsTallied
    BY <1>1, <1>2, IdsAreNumbers DEF RowsTallied, ContactsStay, ReopensBy, CopiesBy, Row
<1>. QED BY <1>1, <1>2, <1>3, FollowingTakes

LEMMA PassingTallies ==
    ASSUME TypeOK, NEW M \in SUBSET Ids, NEW recv \in [M -> Senders],
           queue' = [i \in Ids |-> IF i \in M THEN [queue[i] EXCEPT !.s = recv[i]] ELSE queue[i]],
           cca' = CcaFollows(M, recv)
    PROVE  RowsTallied /\ TakenKept
<1>1. RowsTallied
    BY IdsAreNumbers DEF RowsTallied, ContactsStay, ReopensBy, CopiesBy, Row
<1>. QED BY <1>1, FollowingTakes

\* Rows put back and nothing else.
LEMMA ReopeningTallies ==
    ASSUME TypeOK, NEW M \in SUBSET Ids, TakenKept, DOMAIN queue' = Ids,
           \A i \in Ids \ M : queue'[i] = queue[i],
           \A i \in M : /\ queue'[i].c = queue[i].c /\ queue'[i].p = queue[i].p
                        /\ queue'[i].copies = queue[i].copies
                        /\ queue'[i].reopens = queue[i].reopens + 1
    PROVE  ContactsStay /\ ReopensBy(M) /\ CopiesBy({}) /\ TakenKept
    BY DEF ContactsStay, ReopensBy, CopiesBy

\* What the steps of the system do to the counts, but those that add rows, make a copy or let
\* a contact go.
Tallied == /\ ContactsStay /\ CopiesBy({}) /\ TakenKept
           /\ \E M \in SUBSET Ids : ReopensBy(M)

LEMMA SameTallied ==
    ASSUME queue' = queue, cca' = cca
    PROVE  Tallied
<1>1. ReopensBy({}) /\ {} \in SUBSET Ids
    BY DEF ReopensBy
<1>. QED BY <1>1 DEF Tallied, ContactsStay, CopiesBy, TakenKept, Ids

LEMMA ApiTallies ==
    ASSUME IInv, ApiNext
    PROVE  Tallied
<1>0. TypeOK /\ \A i \in Ids : queue[i] \in Row
    BY IdsAreNumbers DEF IInv
<1>00. RowsTallied /\ TakenKept => Tallied
  <2>1. {} \in SUBSET Ids
      OBVIOUS
  <2>. QED BY <2>1 DEF RowsTallied, Tallied
<1>1. ASSUME NEW c \in Campaigns, Finish(c)
      PROVE  Tallied
  <2>1. RowsTallied /\ TakenKept
      BY <1>0, <1>1 DEF Finish, RowsTallied, ContactsStay, ReopensBy, CopiesBy, TakenKept, Row
  <2>. QED BY <2>1, <1>00
<1>2. ASSUME NEW c \in Campaigns, RequeueFailed(c)
      PROVE  Tallied
  <2>. DEFINE M == Requeued(c)
  <2>1. /\ queue' = [i \in Ids |-> IF i \in M
                      THEN [queue[i] EXCEPT !.st = "pending", !.att = 0, !.reopens = @ + 1]
                      ELSE queue[i]]
        /\ M \in SUBSET Ids /\ TakenKept
      BY <1>2 DEF RequeueFailed, Requeued, WithStatus, TakenKept
  <2>. HIDE DEF M
  <2>2. /\ DOMAIN queue' = Ids /\ \A i \in Ids \ M : queue'[i] = queue[i]
        /\ \A i \in M : /\ queue'[i].c = queue[i].c /\ queue'[i].p = queue[i].p
                        /\ queue'[i].copies = queue[i].copies
                        /\ queue'[i].reopens = queue[i].reopens + 1
      BY <1>0, <2>1 DEF Row
  <2>. QED BY <1>0, <2>1, <2>2, ReopeningTallies DEF Tallied
<1>3. ASSUME NEW s \in Senders, NEW p \in Contacts, NEW cs, Takeover(s, p) \/ Inbound(s, p, cs)
      PROVE  Tallied
  <2>1. RowsTallied /\ TakenKept
      BY <1>0, <1>3 DEF Takeover, Inbound, RowsTallied, ContactsStay, ReopensBy, CopiesBy,
                        TakenKept, Row
  <2>. QED BY <2>1, <1>00
<1>4. ASSUME NEW s \in Senders, NEW status, AntispamSignal(s, status)
      PROVE  Tallied
    BY <1>0, <1>00, <1>4, FailoverTallies DEF AntispamSignal
<1>5. ASSUME NEW s \in Senders, Clear(s)
      PROVE  Tallied
  <2>1. PICK M \in SUBSET WithStatus("pending") : \E recv \in [M -> Senders] :
            /\ queue' = [i \in Ids |-> IF i \in M THEN [queue[i] EXCEPT !.s = recv[i]] ELSE queue[i]]
            /\ cca' = CcaFollows(M, recv)
      BY <1>0, <1>5, PullBackHandsOver DEF Clear
  <2>2. M \in SUBSET Ids
      BY DEF WithStatus
  <2>. QED BY <1>0, <1>00, <2>1, <2>2, PassingTallies
<1>. QED BY <1>1, <1>2, <1>3, <1>4, <1>5, SameTallied DEF ApiNext, Start, Pause, EnableAi,
         SignalReads, ClearReads, Escalate, GoOffline, GoOnline

LEMMA EnqueueTallies ==
    ASSUME IInv, EnqueueNext, ~CommitBatch
    PROVE  Tallied
<1>0. TypeOK /\ \A i \in Ids : queue[i] \in Row
    BY IdsAreNumbers DEF IInv
<1>00. RowsTallied /\ TakenKept => Tallied
  <2>1. {} \in SUBSET Ids
      OBVIOUS
  <2>. QED BY <2>1 DEF RowsTallied, Tallied
<1>1. ASSUME NEW s \in Senders, Sweep(s)
      PROVE  Tallied
    BY <1>0, <1>00, <1>1, FailoverTallies DEF Sweep
<1>2. ASSUME NEW c \in Campaigns, EvenSplit(c)
      PROVE  Tallied
  <2>. DEFINE pool == Pool[c] \cap txn["enqueue"].pool
  <2>1. PICK M \in SUBSET Ids : \E recv \in [M -> pool] :
            /\ queue' = [i \in Ids |-> IF i \in M THEN [queue[i] EXCEPT !.s = recv[i]] ELSE queue[i]]
            /\ cca' = CcaFollows(M, recv)
      BY <1>2 DEF EvenSplit
  <2>2. pool \subseteq Senders
      BY PoolAssumption
  <2>3. PICK recv \in [M -> Senders] :
            /\ queue' = [i \in Ids |-> IF i \in M THEN [queue[i] EXCEPT !.s = recv[i]] ELSE queue[i]]
            /\ cca' = CcaFollows(M, recv)
      BY <2>1, <2>2
  <2>. QED BY <1>0, <1>00, <2>3, PassingTallies
<1>. QED BY <1>1, <1>2, SameTallied DEF EnqueueNext, EnqueueStep, SweepReads, EvenSplitReads,
         Autopause, OpenBatch, StageContact, SkipContact

\* The worker's steps: the counts, the copies made, the contacts let go.
LEMMA WorkerTallies ==
    ASSUME IInv, WorkerNext
    PROVE  /\ ContactsStay
           /\ \/ CopiesBy({})
              \/ (Deliver \/ LoseAnswer) /\ worker.id \in Ids /\ CopiesBy({worker.id})
           /\ \/ TakenKept /\ \E M \in SUBSET Ids : ReopensBy(M)
              \/ ReopensBy({}) /\ worker.id \in Ids /\ Releases(worker.id)
<1>. DEFINE Goal == /\ ContactsStay
                    /\ \/ CopiesBy({})
                       \/ (Deliver \/ LoseAnswer) /\ worker.id \in Ids /\ CopiesBy({worker.id})
                    /\ \/ TakenKept /\ \E M \in SUBSET Ids : ReopensBy(M)
                       \/ ReopensBy({}) /\ worker.id \in Ids /\ Releases(worker.id)
<1>0. TypeOK /\ queue \in Seq(Row) /\ (\A i \in Ids : queue[i] \in Row) /\ {} \in SUBSET Ids
    BY IdsAreNumbers DEF IInv, TypeOK
<1>1. ASSUME worker.pc \notin {"idle", "gated"}
      PROVE  /\ worker.id \in Ids /\ Held = queue[worker.id] /\ Held \in Row
             /\ Held.s = worker.s /\ worker.s \in Senders /\ queue[worker.id].st = "processing"
    BY <1>1, HeldFacts DEF Held
<1>2. RowsTallied /\ TakenKept => Goal
    BY <1>0 DEF RowsTallied
<1>3. ASSUME NEW row \in Row, FailItem(worker.id, row), worker.pc \notin {"idle", "gated"},
             row.c = Held.c, row.p = Held.p, row.reopens = Held.reopens,
             row.copies = Held.copies \/ (LoseAnswer /\ row.copies = Held.copies + 1)
      PROVE  Goal
  <2>1. /\ ContactsStay /\ ReopensBy({}) /\ (TakenKept \/ Releases(worker.id))
        /\ row.copies = Held.copies => CopiesBy({})
        /\ row.copies = Held.copies + 1 => CopiesBy({worker.id})
      BY <1>0, <1>1, <1>3, FailItemTallies
  <2>. QED BY <1>0, <1>1, <1>3, <2>1
<1>4. ASSUME NEW i \in Ids, NEW r, queue' = [queue EXCEPT ![i] = r], r.c = queue[i].c,
             r.p = queue[i].p, r.reopens = queue[i].reopens,
             r.st # "failed" => queue[i].st # "failed"
      PROVE  /\ ContactsStay /\ ReopensBy({})
             /\ r.copies = queue[i].copies => CopiesBy({})
             /\ r.copies = queue[i].copies + 1 => CopiesBy({i})
  <2>1. DOMAIN queue' = Ids /\ \A j \in Ids : queue'[j] = IF j = i THEN r ELSE queue[j]
      BY <1>0, <1>4 DEF Ids
  <2>. QED BY <1>4, <2>1 DEF ContactsStay, ReopensBy, CopiesBy
<1>5. cca' = cca => TakenKept
    BY DEF TakenKept
<1>6. ASSUME NEW i \in Ids, NEW st, queue[i].st # "failed", cca' = cca,
             queue' = [queue EXCEPT ![i].st = st]
      PROVE  Goal
  <2>. DEFINE r == [queue[i] EXCEPT !.st = st]
  <2>1. r.c = queue[i].c /\ r.p = queue[i].p /\ r.reopens = queue[i].reopens
        /\ r.copies = queue[i].copies /\ queue' = [queue EXCEPT ![i] = r]
      BY <1>0, <1>6 DEF Row
  <2>. HIDE DEF r
  <2>. QED BY <1>2, <1>4, <1>5, <1>6, <2>1 DEF RowsTallied
<1>7. CASE RefuseOffline \/ RejectSend \/ FailFlagged
    BY <1>1, <1>3, <1>7 DEF RefuseOffline, RejectSend, FailFlagged
<1>8. CASE LoseAnswer
  <2>. DEFINE r == [Held EXCEPT !.copies = @ + 1]
  <2>1. worker.pc \notin {"idle", "gated"} /\ FailItem(worker.id, r)
      BY <1>8 DEF LoseAnswer
  <2>2. /\ r \in Row /\ r.c = Held.c /\ r.p = Held.p /\ r.reopens = Held.reopens
        /\ r.copies = Held.copies + 1
      BY <1>1, <2>1 DEF Row
  <2>. HIDE DEF r
  <2>. QED BY <1>3, <1>8, <2>1, <2>2
<1>9. ASSUME PrivacyRestricted \/ \E fromCache \in BOOLEAN : NotRegistered(fromCache)
      PROVE  Goal
  <2>. DEFINE r == Stamped(Held, worker.s)
  <2>1. worker.pc \notin {"idle", "gated"} /\ FailItem(worker.id, r)
      BY <1>9 DEF PrivacyRestricted, NotRegistered
  <2>2. r \in Row
      BY <1>1, <2>1, StampedRow
  <2>3. r.c = Held.c /\ r.p = Held.p /\ r.reopens = Held.reopens /\ r.copies = Held.copies
      BY <1>1, <2>1 DEF Row, Stamped
  <2>. HIDE DEF r
  <2>. QED BY <1>3, <2>1, <2>2, <2>3
<1>n. CASE RerouteNowhere
  <2>. DEFINE r == Stamped(Held, worker.s)
  <2>1. worker.pc \notin {"idle", "gated"} /\ FailItem(worker.id, r)
      BY <1>n DEF RerouteNowhere
  <2>2. r \in Row
      BY <1>1, <2>1, StampedRow
  <2>3. r.c = Held.c /\ r.p = Held.p /\ r.reopens = Held.reopens /\ r.copies = Held.copies
      BY <1>1, <2>1 DEF Row, Stamped
  <2>. HIDE DEF r
  <2>. QED BY <1>3, <2>1, <2>2, <2>3
<1>10. CASE RefuseTakenOver \/ CommitSent \/ FloodWait
  <2>1. /\ worker.pc \notin {"idle", "gated"} /\ cca' = cca
        /\ \E st \in {"failed", "sent", "pending"} : queue' = [queue EXCEPT ![worker.id].st = st]
      BY <1>10 DEF RefuseTakenOver, CommitSent, FloodWait
  <2>. QED BY <1>1, <1>6, <2>1
<1>11. CASE Deliver
  <2>. DEFINE r == [Held EXCEPT !.copies = @ + 1]
  <2>1. worker.pc \notin {"idle", "gated"} /\ cca' = cca /\ queue' = [queue EXCEPT ![worker.id] = r]
      BY <1>11 DEF Deliver, Held
  <2>2. /\ r.c = Held.c /\ r.p = Held.p /\ r.reopens = Held.reopens /\ r.st = Held.st
        /\ r.copies = Held.copies + 1
      BY <1>1, <2>1 DEF Row
  <2>. HIDE DEF r
  <2>3. ContactsStay /\ ReopensBy({}) /\ CopiesBy({worker.id})
      BY <1>1, <1>4, <2>1, <2>2
  <2>. QED BY <1>0, <1>1, <1>5, <1>11, <2>1, <2>3
<1>12. ASSUME NEW i \in Ids, Pick(i)
       PROVE  Goal
    BY <1>6, <1>12 DEF Pick, MayPick
<1>13. CASE Reroute
  <2>1. PICK new \in RerouteTargets :
            /\ queue' = [queue EXCEPT ![worker.id] =
                [Held EXCEPT !.st = "pending", !.s = new, !.att = 0,
                             !.tried = @ \cup {worker.s}, !.mark = new]]
            /\ cca' = CcaFollows({worker.id}, [i \in {worker.id} |-> new])
      BY <1>13 DEF Reroute
  <2>. DEFINE r == [Held EXCEPT !.st = "pending", !.s = new, !.att = 0,
                             !.tried = @ \cup {worker.s}, !.mark = new]
              M == {worker.id}
              recv == [i \in M |-> new]
  <2>2. worker.pc \notin {"idle", "gated"}
      BY <1>13 DEF Reroute
  <2>3. r.c = Held.c /\ r.p = Held.p /\ r.reopens = Held.reopens /\ r.copies = Held.copies
      BY <1>1, <2>2 DEF Row
  <2>4. new \in Senders
    <3>1. new \in Pool[Held.c]
        BY <2>1 DEF RerouteTargets
    <3>2. Held.c \in Campaigns
        BY <1>1, <2>2 DEF Row
    <3>. QED BY <3>1, <3>2, PoolAssumption
  <2>5. M \in SUBSET Ids /\ recv \in [M -> Senders] /\ cca' = CcaFollows(M, recv)
      BY <1>1, <2>1, <2>2, <2>4
  <2>6. queue' = [queue EXCEPT ![worker.id] = r]
      BY <2>1
  <2>. HIDE DEF r, M, recv
  <2>7. RowsTallied
      BY <1>1, <1>4, <2>2, <2>3, <2>6 DEF RowsTallied
  <2>8. TakenKept
      BY <1>0, <2>5, FollowingTakes
  <2>. QED BY <1>2, <2>7, <2>8
<1>14. CASE EvacuateFlagged
    BY <1>0, <1>1, <1>2, <1>14, FailoverTallies DEF EvacuateFlagged
<1>15. CASE RollbackSuspects
  <2>1. PICK M \in SUBSET Ids : \E recv \in [M -> Senders] :
            /\ queue' = [i \in Ids |-> IF i \in M
                    THEN [queue[i] EXCEPT !.st = "pending", !.s = recv[i],
                                          !.att = 0, !.reopens = @ + 1]
                    ELSE queue[i]]
            /\ cca' = CcaFollows(M, recv)
      BY <1>15 DEF RollbackSuspects, Suspects, WithStatus
  <2>2. PICK recv \in [M -> Senders] :
            /\ queue' = [i \in Ids |-> IF i \in M
                    THEN [queue[i] EXCEPT !.st = "pending", !.s = recv[i],
                                          !.att = 0, !.reopens = @ + 1]
                    ELSE queue[i]]
            /\ cca' = CcaFollows(M, recv)
      BY <2>1
  <2>3. /\ DOMAIN queue' = Ids /\ \A i \in Ids \ M : queue'[i] = queue[i]
        /\ \A i \in M : /\ queue'[i].c = queue[i].c /\ queue'[i].p = queue[i].p
                        /\ queue'[i].copies = queue[i].copies
                        /\ queue'[i].reopens = queue[i].reopens + 1
      BY <1>0, <2>2 DEF Row
  <2>4. TakenKept
      BY <1>0, <2>2, FollowingTakes
  <2>. QED BY <1>0, <2>3, <2>4, ReopeningTallies
<1>16. CASE FailAllOfSender
  <2>1. RowsTallied
      BY <1>0, <1>16 DEF FailAllOfSender, RowsTallied, ContactsStay, ReopensBy, CopiesBy, Row
  <2>. QED BY <1>2, <1>5, <1>16, <2>1 DEF FailAllOfSender
<1>17. CASE Restart
  <2>1. PICK old \in SUBSET WithStatus("processing") :
            queue' = [i \in Ids |-> IF i \in old THEN [queue[i] EXCEPT !.st = "pending"] ELSE queue[i]]
      BY <1>17 DEF Restart
  <2>2. RowsTallied
      BY <1>0, <2>1 DEF RowsTallied, ContactsStay, ReopensBy, CopiesBy, Row, WithStatus
  <2>. QED BY <1>2, <1>5, <1>17, <2>2 DEF Restart
<1>18. CASE queue' = queue /\ cca' = cca
    BY <1>0, <1>18, SameTallied DEF Tallied
<1>. QED BY <1>7, <1>8, <1>9, <1>n, <1>10, <1>11, <1>12, <1>13, <1>14, <1>15, <1>16, <1>17, <1>18
         DEF WorkerNext, SendStep, Gate, PickNothing, PauseExpired, Proceed, LoseCommit, Restricted,
             AuthError, NotResolved, EvacuationReads, RollbackReads

\* A batch adds one row at most per contact, to contacts nobody has, and assigns them.
LEMMA CommitCounts ==
    ASSUME IInv, Assignments, RowsCounted, CopiesCounted, CommitBatch
    PROVE  RowsCounted' /\ CopiesCounted'
<1>0. /\ TypeOK /\ queue \in Seq(Row) /\ enq.rows \in Seq(Row) /\ enq.c \in Campaigns
      /\ enq.c # NoCampaign /\ queue' = queue \o enq.rows /\ cca' = Assigned(enq.cca)
      /\ worker' = worker /\ Faults' = Faults /\ Faults \in Nat
    BY DEF IInv, TypeOK, Batch, CommitBatch, Between, Faults, Events
<1>. DEFINE n == Len(queue)
<1>1. /\ n \in Nat /\ Ids = 1..n
      /\ \A i \in Ids : i \in DOMAIN queue' /\ queue'[i] = queue[i] /\ queue[i] \in Row
      /\ \A i \in DOMAIN queue' \ Ids : i - n \in DOMAIN enq.rows /\ queue'[i] = enq.rows[i - n]
      /\ \A i \in DOMAIN queue' : i \in Nat
      /\ \A k \in DOMAIN enq.rows : n + k \in DOMAIN queue' \ Ids /\ (n + k) - n = k
    BY <1>0 DEF Ids
<1>. HIDE DEF n
<1>2. \A k \in DOMAIN enq.rows : /\ enq.rows[k] \in Row /\ enq.rows[k].copies = 0
                                  /\ enq.rows[k].reopens = 0 /\ enq.rows[k].c = enq.c
  <2>1. \A k \in DOMAIN enq.rows : enq.rows[k] \in Row
      BY <1>0
  <2>2. \A k \in DOMAIN enq.rows : enq.rows[k].copies = 0
      BY DEF IInv, BatchIsFresh
  <2>3. \A k \in DOMAIN enq.rows : enq.rows[k].reopens = 0 /\ enq.rows[k].c = enq.c
      BY <1>0 DEF Assignments, BatchUnassigned
  <2>. QED BY <2>1, <2>2, <2>3
<1>3. \A c \in Campaigns, p \in Contacts : cca'[c][p] =
          IF c = enq.c /\ cca[c][p] = NoSender /\ \E s \in Senders : <<p, s>> \in enq.cca
          THEN CHOOSE s \in Senders : <<p, s>> \in enq.cca
          ELSE cca[c][p]
    BY <1>0 DEF Assigned, TypeOK
<1>4. ASSUME NEW k \in DOMAIN enq.rows
      PROVE  /\ cca[enq.c][enq.rows[k].p] = NoSender
             /\ cca'[enq.c][enq.rows[k].p] # NoSender
  <2>1. enq.rows[k].p \in Contacts /\ enq.rows[k].s \in Senders
      BY <1>2 DEF Row
  <2>2. <<enq.rows[k].p, enq.rows[k].s>> \in enq.cca
      BY <1>0 DEF Assignments, BatchUnassigned
  <2>3. cca[enq.c][enq.rows[k].p] = NoSender
      BY <1>0, <2>1, <2>2 DEF Assignments, BatchUnassigned
  <2>4. (CHOOSE s \in Senders : <<enq.rows[k].p, s>> \in enq.cca) \in Senders
      BY <2>1, <2>2
  <2>. QED BY <1>0, <1>3, <2>1, <2>2, <2>3, <2>4, NullAssumption
<1>5. TakenKept
  <2>. SUFFICES ASSUME NEW c \in Campaigns, NEW p \in Contacts, cca[c][p] # NoSender
                PROVE  cca'[c][p] # NoSender
      BY DEF TakenKept
  <2>. QED BY <1>3
<1>. SUFFICES ASSUME NEW c \in Campaigns, NEW p \in Contacts
              PROVE  /\ Cardinality(Unfailed(c, p))' <= Reopens(c, p)' + Taken(c, p)'
                     /\ Cardinality(RowsOf(c, p))' + 1
                            <= ColdFailReleaseCap + Reopens(c, p)' + Taken(c, p)'
                     /\ Copies(c, p)' <= Faults' + Cardinality(DeliveredOf(c, p))'
    BY DEF RowsCounted, CopiesCounted
<1>. DEFINE S == RowsOf(c, p)
            T == RowsOf(c, p)'
            U == Unfailed(c, p)
            V == Unfailed(c, p)'
            D == DeliveredOf(c, p)
            E == DeliveredOf(c, p)'
            r0 == [i \in Ids |-> queue[i].reopens]
            r1 == [i \in DOMAIN queue' |-> queue'[i].reopens]
            k0 == [i \in Ids |-> queue[i].copies]
            k1 == [i \in DOMAIN queue' |-> queue'[i].copies]
<1>6. S \subseteq Ids /\ IsFiniteSet(S) /\ U \subseteq S /\ D \subseteq S
    BY <1>0, RowsOfFinite DEF Unfailed, DeliveredOf
<1>7. /\ S \subseteq T /\ T \cap Ids = S /\ U \subseteq V /\ V \cap Ids = U
      /\ D \subseteq E /\ V \subseteq T /\ E \subseteq T /\ T \subseteq DOMAIN queue'
    BY <1>0, <1>1, <1>6 DEF RowsOf, Unfailed, DeliveredOf, Delivered, Ids
<1>8. ASSUME NEW x \in T \ S
      PROVE  /\ x \notin Ids /\ T = S \cup {x} /\ r1[x] = 0 /\ k1[x] = 0
             /\ Taken(c, p) = 0 /\ Taken(c, p)' = 1
  <2>1. x \notin Ids /\ x \in DOMAIN queue' /\ queue'[x].c = c /\ queue'[x].p = p
      BY <1>7 DEF RowsOf, Ids
  <2>2. x - n \in DOMAIN enq.rows /\ queue'[x] = enq.rows[x - n]
      BY <1>1, <2>1
  <2>3. c = enq.c /\ p = enq.rows[x - n].p /\ r1[x] = 0 /\ k1[x] = 0
      BY <1>2, <2>1, <2>2
  <2>4. Taken(c, p) = 0 /\ Taken(c, p)' = 1
      BY <1>4, <2>2, <2>3 DEF Taken
  <2>5. ASSUME NEW y \in T \ S
        PROVE  y = x
    <3>1. y \notin Ids /\ y \in DOMAIN queue' /\ queue'[y].p = p
        BY <1>7 DEF RowsOf, Ids
    <3>2. y - n \in DOMAIN enq.rows /\ queue'[y] = enq.rows[y - n]
        BY <1>1, <3>1
    <3>3. y - n = x - n
        BY <1>0, <2>2, <2>3, <3>1, <3>2 DEF Assignments, BatchUnassigned
    <3>4. y \in Nat /\ x \in Nat /\ n \in Nat
        BY <1>1, <2>1, <3>1
    <3>. QED BY <3>3, <3>4
  <2>. HIDE DEF S, T, r1, k1
  <2>6. T = S \cup {x}
      BY <1>7, <2>5
  <2>. QED BY <2>1, <2>3, <2>4, <2>6
<1>9. /\ \A i \in S : r0[i] \in Nat /\ k0[i] \in Nat /\ r1[i] = r0[i] /\ k1[i] = k0[i]
      /\ Reopens(c, p) = Sum(r0, S) /\ Reopens(c, p)' = Sum(r1, T)
      /\ Copies(c, p) = Sum(k0, S) /\ Copies(c, p)' = Sum(k1, T)
    BY <1>1, <1>6 DEF Reopens, Copies, Sum, Ids, Row
<1>10. /\ Cardinality(U) <= Reopens(c, p) + Taken(c, p)
       /\ Cardinality(S) + 1 <= ColdFailReleaseCap + Reopens(c, p) + Taken(c, p)
       /\ Copies(c, p) <= Faults + Cardinality(D)
    BY DEF RowsCounted, CopiesCounted
<1>11. Taken(c, p) \in {0, 1} /\ Taken(c, p)' \in {0, 1} /\ Taken(c, p) <= Taken(c, p)'
       /\ ColdFailReleaseCap \in Nat
    BY <1>5, BoundAssumption DEF Taken, TakenKept
<1>12. /\ Cardinality(Unfailed(c, p))' = Cardinality(V) /\ Cardinality(RowsOf(c, p))' = Cardinality(T)
       /\ Cardinality(DeliveredOf(c, p))' = Cardinality(E)
    OBVIOUS
<1>. HIDE DEF S, T, U, V, D, E, r0, r1, k0, k1
<1>13. Sum(r1, S) = Sum(r0, S) /\ Sum(r0, S) \in Nat /\ Sum(k1, S) = Sum(k0, S) /\ Sum(k0, S) \in Nat
  <2>1. (\A i \in S : r0[i] \in Nat /\ r1[i] = r0[i]) /\ \A i \in S : k0[i] \in Nat /\ k1[i] = k0[i]
      BY <1>9
  <2>. QED BY <1>6, <2>1, SumTakes, SumSame
<1>14. Cardinality(S) \in Nat /\ Cardinality(U) \in Nat /\ Cardinality(D) \in Nat
       /\ IsFiniteSet(U) /\ IsFiniteSet(D)
    BY <1>6, FS_Subset, FS_CardinalityType
<1>15. CASE T = S
  <2>1. V = U
      BY <1>6, <1>7, <1>15
  <2>2. IsFiniteSet(E) /\ Cardinality(D) <= Cardinality(E) /\ Cardinality(E) \in Nat
      BY <1>6, <1>7, <1>15, FS_Subset, FS_CardinalityType
  <2>3. Reopens(c, p)' = Reopens(c, p) /\ Copies(c, p)' = Copies(c, p)
      BY <1>9, <1>13, <1>15
  <2>4. Cardinality(Unfailed(c, p))' = Cardinality(U) /\ Cardinality(RowsOf(c, p))' = Cardinality(S)
      BY <1>12, <1>15, <2>1
  <2>5. Reopens(c, p) \in Nat /\ Copies(c, p) \in Nat
      BY <1>9, <1>13
  <2>. QED BY <1>0, <1>10, <1>11, <1>12, <1>14, <2>2, <2>3, <2>4, <2>5, SMTT(30)
<1>16. ASSUME NEW x \in T \ S
       PROVE  /\ Cardinality(V) <= Sum(r1, T) + Taken(c, p)'
              /\ Cardinality(T) + 1 <= ColdFailReleaseCap + Sum(r1, T) + Taken(c, p)'
              /\ Sum(k1, T) <= Faults + Cardinality(E)
  <2>1. /\ x \notin Ids /\ T = S \cup {x} /\ x \notin S /\ r1[x] = 0 /\ k1[x] = 0
        /\ Taken(c, p) = 0 /\ Taken(c, p)' = 1
      BY <1>8
  <2>2. IsFiniteSet(T) /\ Cardinality(T) = Cardinality(S) + 1 /\ T \ {x} = S
      BY <1>6, <2>1, FS_AddElement
  <2>3. IsFiniteSet(V) /\ Cardinality(V) <= Cardinality(U) + 1 /\ Cardinality(V) \in Nat
    <3>1. V \subseteq U \cup {x}
        BY <1>6, <1>7, <2>1
    <3>2. IsFiniteSet(U \cup {x}) /\ Cardinality(U \cup {x}) <= Cardinality(U) + 1
      <4>1. IsFiniteSet(U \cup {x}) /\ Cardinality(U \cup {x}) =
                IF x \in U THEN Cardinality(U) ELSE Cardinality(U) + 1
          BY <1>14, FS_AddElement
      <4>. QED BY <1>14, <4>1
    <3>3. Cardinality(V) <= Cardinality(U \cup {x}) /\ IsFiniteSet(V)
        BY <3>1, <3>2, FS_Subset
    <3>4. Cardinality(V) \in Nat /\ Cardinality(U \cup {x}) \in Nat
        BY <3>2, <3>3, FS_CardinalityType
    <3>. QED BY <1>14, <3>2, <3>3, <3>4
  <2>4. IsFiniteSet(E) /\ Cardinality(D) <= Cardinality(E) /\ Cardinality(E) \in Nat
      BY <1>7, <2>2, FS_Subset, FS_CardinalityType
  <2>5. \A i \in T : r1[i] \in Nat /\ k1[i] \in Nat
      BY <1>9, <2>1
  <2>6. Sum(r1, T) = r1[x] + Sum(r1, S) /\ Sum(k1, T) = k1[x] + Sum(k1, S)
      BY <2>1, <2>2, <2>5, SumTakes
  <2>7. Sum(r1, T) = Sum(r0, S) /\ Sum(k1, T) = Sum(k0, S)
      BY <1>13, <2>1, <2>6
  <2>8. Taken(c, p) = 0 /\ Taken(c, p)' = 1 /\ Cardinality(T) = Cardinality(S) + 1
        /\ Sum(r1, T) = Reopens(c, p) /\ Sum(k1, T) = Copies(c, p)
        /\ Reopens(c, p) \in Nat /\ Copies(c, p) \in Nat
      BY <1>9, <1>13, <2>1, <2>2, <2>7
  <2>9. Cardinality(V) <= Sum(r1, T) + Taken(c, p)'
      BY <1>10, <1>14, <2>3, <2>8
  <2>10. Cardinality(T) + 1 <= ColdFailReleaseCap + Sum(r1, T) + Taken(c, p)'
      BY <1>10, <1>11, <1>14, <2>8
  <2>11. Sum(k1, T) <= Faults + Cardinality(E)
      BY <1>0, <1>10, <1>14, <2>4, <2>8
  <2>. QED BY <2>9, <2>10, <2>11
<1>. QED BY <1>0, <1>7, <1>9, <1>12, <1>15, <1>16

LEMMA CountsAreNumbers ==
    ASSUME TypeOK, NEW c, NEW p
    PROVE  Reopens(c, p) \in Nat /\ Copies(c, p) \in Nat
<1>. DEFINE S == RowsOf(c, p)
            r0 == [i \in Ids |-> queue[i].reopens]
            k0 == [i \in Ids |-> queue[i].copies]
<1>1. IsFiniteSet(S) /\ S \subseteq Ids /\ \A i \in S : r0[i] \in Nat /\ k0[i] \in Nat
    BY RowsOfFinite DEF Row
<1>2. Reopens(c, p) = Sum(r0, S) /\ Copies(c, p) = Sum(k0, S)
    BY DEF Reopens, Copies, Sum
<1>. HIDE DEF S, r0, k0
<1>. QED BY <1>1, <1>2, SumTakes

LEMMA StepCountsRows ==
    ASSUME IInv, Assignments, RowsCounted, CopiesCounted, [Next]_vars
    PROVE  RowsCounted'
<1>0. TypeOK
    BY DEF IInv
<1>1. ASSUME Tallied
      PROVE  RowsCounted'
    BY <1>0, <1>1, ReopeningCounts DEF Tallied
<1>2. CASE WorkerNext
  <2>1. /\ ContactsStay
        /\ \/ TakenKept /\ \E M \in SUBSET Ids : ReopensBy(M)
           \/ ReopensBy({}) /\ worker.id \in Ids /\ Releases(worker.id)
      BY <1>2, WorkerTallies
  <2>. QED BY <1>0, <2>1, ReopeningCounts, ReleasingCounts
<1>3. CASE UNCHANGED vars
    BY <1>1, <1>3, SameTallied DEF vars
<1>. QED BY <1>1, <1>2, <1>3, ApiTallies, EnqueueTallies, CommitCounts DEF Next, EnqueueNext

\* Faults are only ever counted up, and each of those of the worker is counted.
LEMMA FaultsOnlyGrow ==
    ASSUME IInv, [Next]_vars
    PROVE  /\ Faults \in Nat /\ Faults' \in Nat /\ Faults <= Faults'
           /\ LoseAnswer \/ LoseCommit \/ Restart => Faults' = Faults + 1
<1>0. TypeOK /\ Faults \in Nat
    BY TypedTables DEF IInv
<1>1. ASSUME NEW e \in Events, Spend(e)
      PROVE  /\ Faults' \in Nat /\ Faults <= Faults'
             /\ e \in {"crash", "lost"} => Faults' = Faults + 1
    BY <1>0, <1>1, SpendCounts
<1>2. spent' = spent => Faults' = Faults
    BY TypedTables
<1>3. \A m \in Nat : m <= m
    OBVIOUS
<1>4. Faults' \in Nat /\ Faults <= Faults'
    BY <1>0, <1>1, <1>2, <1>3, EventsAreCounted
<1>5. ASSUME LoseAnswer \/ LoseCommit \/ Restart
      PROVE  Faults' = Faults + 1
    BY <1>1, <1>5 DEF LoseAnswer, LoseCommit, Restart, Events
<1>. QED BY <1>0, <1>4, <1>5

LEMMA StepCountsCopies ==
    ASSUME IInv, Assignments, RowsCounted, CopiesCounted, [Next]_vars
    PROVE  CopiesCounted'
<1>0. TypeOK /\ SentKept /\ {} \in SUBSET Ids /\ IsFiniteSet(Ids)
    BY StepInvariant, RowsOfFinite DEF IInv
<1>1. /\ Faults \in Nat /\ Faults' \in Nat /\ Faults <= Faults'
      /\ LoseAnswer \/ LoseCommit \/ Restart => Faults' = Faults + 1
    BY FaultsOnlyGrow
<1>2. Cardinality({}) = 0 /\ \A i \in Ids : {i} \in SUBSET Ids /\ Cardinality({i}) = 1
    BY FS_EmptySet, FS_Singleton
<1>3. (worker.pc = "acked" => worker'.pc = "acked" /\ worker'.id = worker.id)
        => \A i \in Ids : Delivered(i) => Delivered(i)'
    BY <1>0 DEF Delivered, SentKept
<1>4. ASSUME ContactsStay, CopiesBy({}), \A i \in Ids : Delivered(i) => Delivered(i)'
      PROVE  CopiesCounted'
    BY <1>0, <1>1, <1>2, <1>4, FaultsPayCopies
<1>5. CASE worker' = worker /\ Tallied
    BY <1>3, <1>4, <1>5 DEF Tallied
<1>6. CASE WorkerNext
  <2>1. /\ ContactsStay
        /\ \/ CopiesBy({})
           \/ (Deliver \/ LoseAnswer) /\ worker.id \in Ids /\ CopiesBy({worker.id})
      BY <1>6, WorkerTallies
  <2>2. CASE Deliver /\ worker.id \in Ids /\ CopiesBy({worker.id})
    <3>1. worker.pc = "sending" /\ Faults' = Faults /\ worker'.pc = "acked" /\ worker'.id = worker.id
        BY <1>0, <2>2, TypedTables DEF Deliver, Goto, TypeOK, Worker
    <3>2. queue[worker.id].st = "processing"
        BY <3>1 DEF IInv, WorkerOwnsItsRow, Held
    <3>5. PICK h \in Ids : h = worker.id
        BY <2>2
    <3>3. ~Delivered(h) /\ Delivered(h)' /\ CopiesBy({h})
        BY <2>2, <3>1, <3>2, <3>5 DEF Delivered
    <3>4. \A i \in Ids : Delivered(i) => Delivered(i)'
        BY <1>3, <3>1
    <3>. QED BY <1>0, <1>1, <2>1, <2>2, <3>1, <3>3, <3>4, DeliveryPaysCopy
  <2>3. CASE LoseAnswer /\ worker.id \in Ids /\ CopiesBy({worker.id})
    <3>1. worker.pc = "sending"
        BY <2>3 DEF LoseAnswer
    <3>2. \A i \in Ids : Delivered(i) => Delivered(i)'
        BY <1>3, <3>1
    <3>3. Faults + Cardinality({worker.id}) + Cardinality({}) <= Faults'
        BY <1>1, <1>2, <2>3
    <3>. QED BY <1>0, <1>1, <1>2, <2>1, <2>3, <3>2, <3>3, FaultsPayCopies
  <2>4. CASE CopiesBy({}) /\ (LoseCommit \/ Restart)
    <3>1. CASE worker.pc = "acked"
      <4>1. worker.id \in Ids
          BY <3>1 DEF IInv, WorkerOwnsItsRow
      <4>2. \A i \in Ids \ {worker.id} : Delivered(i) => Delivered(i)'
          BY <1>0 DEF Delivered, SentKept
      <4>3. Faults + Cardinality({}) + Cardinality({worker.id}) <= Faults'
          BY <1>1, <1>2, <2>4, <4>1
      <4>. QED BY <1>0, <1>1, <1>2, <2>1, <2>4, <4>1, <4>2, <4>3, FaultsPayCopies
    <3>2. CASE worker.pc # "acked"
        BY <1>3, <1>4, <2>1, <2>4, <3>2
    <3>. QED BY <3>1, <3>2
  <2>5. CASE CopiesBy({}) /\ CommitSent
    <3>1. queue'[worker.id].st = "sent"
      <4>1. worker.id \in Ids /\ queue' = [queue EXCEPT ![worker.id].st = "sent"] /\ queue[worker.id] \in Row
          BY <2>5, HeldFacts DEF CommitSent, Held
      <4>. QED BY <1>0, <4>1 DEF TypeOK, Ids, Row
    <3>2. \A i \in Ids : Delivered(i) => Delivered(i)'
        BY <1>0, <3>1 DEF Delivered, SentKept
    <3>. QED BY <1>4, <2>1, <2>5, <3>2
  <2>6. CASE CopiesBy({}) /\ ~LoseCommit /\ ~Restart /\ ~CommitSent
    <3>1. worker.pc = "acked" => worker' = worker
        BY <1>6, <2>6 DEF WorkerNext, SendStep, Gate, Pick, PickNothing, PauseExpired, RefuseOffline,
             RefuseTakenOver, Proceed, Deliver, RejectSend, LoseAnswer, FloodWait, PrivacyRestricted,
             NotResolved, Reroute, RerouteNowhere, NotRegistered, Restricted, EvacuationReads,
             EvacuateFlagged, RollbackReads, RollbackSuspects, FailFlagged, AuthError, FailAllOfSender
    <3>. QED BY <1>3, <1>4, <2>1, <2>6, <3>1
  <2>. QED BY <2>1, <2>2, <2>3, <2>4, <2>5, <2>6
<1>7. CASE ApiNext
  <2>1. worker' = worker
      BY <1>7 DEF ApiNext, Start, Pause, Finish, RequeueFailed, Takeover, EnableAi, Inbound,
                  SignalReads, AntispamSignal, ClearReads, Clear, Escalate, GoOffline, GoOnline
  <2>. QED BY <1>5, <1>7, <2>1, ApiTallies
<1>8. CASE EnqueueNext /\ ~CommitBatch
  <2>1. worker' = worker
      BY <1>8 DEF EnqueueNext, EnqueueStep, SweepReads, Sweep, EvenSplitReads, EvenSplit,
             Autopause, OpenBatch, StageContact, SkipContact
  <2>. QED BY <1>5, <1>8, <2>1, EnqueueTallies
<1>9. CASE UNCHANGED vars
    BY <1>5, <1>9, SameTallied DEF vars
<1>. QED BY <1>6, <1>7, <1>8, <1>9, CommitCounts DEF Next

\* Nothing is counted at first.
LEMMA InitCounts ==
    ASSUME Init
    PROVE  BatchIsPending /\ Assignments /\ RowsCounted /\ CopiesCounted
<1>1. Ids = {} /\ Faults = 0 /\ \A c \in Campaigns, p \in Contacts : cca[c][p] = NoSender
    BY DEF Init, Ids, Faults, Events
<1>2. BatchIsPending /\ Assignments
    BY <1>1 DEF Init, BatchIsPending, NoBatch, Assignments, OneWriter, BatchUnassigned
<1>3. ASSUME NEW c \in Campaigns, NEW p \in Contacts
      PROVE  /\ RowsOf(c, p) = {} /\ Unfailed(c, p) = {} /\ DeliveredOf(c, p) = {}
             /\ Reopens(c, p) = 0 /\ Copies(c, p) = 0 /\ Taken(c, p) = 0
  <2>1. RowsOf(c, p) = {} /\ Unfailed(c, p) = {} /\ DeliveredOf(c, p) = {}
      BY <1>1 DEF RowsOf, Unfailed, DeliveredOf
  <2>2. Sum([i \in Ids |-> queue[i].reopens], {}) = 0 /\ Sum([i \in Ids |-> queue[i].copies], {}) = 0
      BY FS_EmptySet, SumStep
  <2>. QED BY <1>1, <2>1, <2>2 DEF Reopens, Copies, Sum, Taken
<1>4. Cardinality({}) = 0 /\ ColdFailReleaseCap \in Nat \ {0}
    BY FS_EmptySet, BoundAssumption
<1>5. \A m \in Nat \ {0} : 0 <= 0 + 0 /\ 0 + 1 <= m + 0 + 0
    OBVIOUS
<1>6. RowsCounted
    BY <1>3, <1>4, <1>5 DEF RowsCounted
<1>7. CopiesCounted
    BY <1>1, <1>3, <1>4, <1>5 DEF CopiesCounted
<1>. QED BY <1>2, <1>6, <1>7

Counted == BatchIsPending /\ Assignments /\ RowsCounted /\ CopiesCounted

\* The counts stay paid for.
LEMMA CountsHold == Spec => []Counted
<1>1. Init => Counted
    BY InitCounts DEF Counted
<1>2. IInv /\ Counted /\ [Next]_vars => Counted'
    BY BatchStaysPending, StepAssigns, StepCountsRows, StepCountsCopies DEF Counted
<1>. QED BY <1>1, <1>2, Invariant, PTL DEF Spec

\* A contact costs at most the cap of rows per campaign, plus one for each time one was put
\* back: every row beyond the failed ones is paid for by the assignment or by having been put
\* back, and the assignment is released only below the cap.
THEOREM ContactsCostTheCap == Spec => []ContactRowCap
<1>1. IInv /\ Counted => ContactRowCap
  <2>. SUFFICES ASSUME IInv, RowsCounted, NEW c \in Campaigns, NEW p \in Contacts
                PROVE  Cardinality(RowsOf(c, p)) <= ColdFailReleaseCap + Reopens(c, p)
      BY DEF Counted, ContactRowCap
  <2>1. Cardinality(RowsOf(c, p)) + 1 <= ColdFailReleaseCap + Reopens(c, p) + Taken(c, p)
      BY DEF RowsCounted
  <2>2. Cardinality(RowsOf(c, p)) \in Nat /\ ColdFailReleaseCap \in Nat /\ Taken(c, p) \in {0, 1}
      BY RowsOfFinite, FS_CardinalityType, BoundAssumption DEF IInv, Taken
  <2>3. Reopens(c, p) \in Nat
      BY CountsAreNumbers DEF IInv
  <2>. QED BY <2>1, <2>2, <2>3
<1>. QED BY <1>1, CountsHold, Invariant, PTL

\* A contact gets one opener per campaign, over all its rows: every copy is paid for by a fault
\* or by its row's delivery, and every delivered row by the assignment or by having been put
\* back.
THEOREM OneOpenerPerContact == Spec => []OpenerOnce
<1>1. IInv /\ Counted => OpenerOnce
  <2>. SUFFICES ASSUME IInv, RowsCounted, CopiesCounted, NEW c \in Campaigns, NEW p \in Contacts
                PROVE  Copies(c, p) <= 1 + Faults + Reopens(c, p)
      BY DEF Counted, OpenerOnce
  <2>1. /\ Cardinality(Unfailed(c, p)) <= Reopens(c, p) + Taken(c, p)
        /\ Copies(c, p) <= Faults + Cardinality(DeliveredOf(c, p))
      BY DEF RowsCounted, CopiesCounted
  <2>2. DeliveredOf(c, p) \subseteq Unfailed(c, p) /\ Unfailed(c, p) \subseteq RowsOf(c, p)
      BY DEF DeliveredOf, Unfailed, Delivered, IInv, WorkerOwnsItsRow, Held
  <2>3. IsFiniteSet(RowsOf(c, p))
      BY RowsOfFinite DEF IInv
  <2>4. IsFiniteSet(Unfailed(c, p)) /\ IsFiniteSet(DeliveredOf(c, p))
        /\ Cardinality(DeliveredOf(c, p)) <= Cardinality(Unfailed(c, p))
      BY <2>2, <2>3, FS_Subset
  <2>5. Cardinality(DeliveredOf(c, p)) \in Nat /\ Cardinality(Unfailed(c, p)) \in Nat
      BY <2>4, FS_CardinalityType
  <2>6. Reopens(c, p) \in Nat /\ Copies(c, p) \in Nat /\ Faults \in Nat /\ Taken(c, p) \in {0, 1}
      BY CountsAreNumbers, TypedTables DEF IInv, Taken
  <2>. QED BY <2>1, <2>4, <2>5, <2>6
<1>. QED BY <1>1, CountsHold, Invariant, PTL
=============================================================================
