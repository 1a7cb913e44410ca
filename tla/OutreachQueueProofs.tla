------------------------- MODULE OutreachQueueProofs -------------------------
(***************************************************************************)
(* Theorems about the outreach pipeline, for any number of campaigns,      *)
(* contacts, accounts and rows and any budgets.  The inductive invariant   *)
(* says what the rest of the system leaves to the queue worker while a row *)
(* is in flight, and which copies of a message have been paid for by a     *)
(* fault.  Every action is either one of the many that leave rows in       *)
(* flight and delivered rows alone (RowsKept), or a step of the worker     *)
(* that settles the row it holds.                                          *)
(***************************************************************************)
EXTENDS OutreachQueue, WellFoundedInduction, FiniteSetTheorems, TLAPS

-----------------------------------------------------------------------------
(* The inductive invariant.                                                 *)

\* A worker that is not idle has a sender.
HolderHasSender == worker.pc # "idle" => worker.s \in Senders

\* An open row has an attempt left.
OpenHasAttempt(q) ==
    \A i \in DOMAIN q :
        q[i].st \in {"pending", "processing"} => q[i].att < MaxAttempts

\* Rows of an uncommitted batch have not been touched by anybody.
BatchIsFresh ==
    \A k \in DOMAIN enq.rows : enq.rows[k].att = 0 /\ enq.rows[k].copies = 0

\* The first copy of row i is paid for by recording it, or about to be.
Delivered(i) == queue[i].st = "sent" \/ (worker.pc = "acked" /\ worker.id = i)

\* Every other copy is paid for by a fault.
CopiesArePaid ==
    \A i \in Ids :
        /\ queue[i].copies <= Faults + 1
        /\ queue[i].copies <= Faults \/ Delivered(i)

IInv ==
    /\ TypeOK
    /\ HolderHasSender
    /\ WorkerOwnsItsRow
    /\ OpenHasAttempt(queue)
    /\ BatchIsFresh
    /\ CopiesArePaid

\* Rows may be added, reassigned, closed or reopened, but not those in flight or
\* delivered, and no copy is made.
RowsKept ==
    /\ queue' \in Seq(Row)
    /\ OpenHasAttempt(queue')
    /\ Ids \subseteq DOMAIN queue'
    /\ \A i \in Ids :
          /\ queue'[i].copies = queue[i].copies
          /\ queue[i].st \in {"processing", "sent"} => queue'[i] = queue[i]
    /\ \A i \in DOMAIN queue' \ Ids : queue'[i].copies = 0

\* No delivered row is lost or changes status.
SentKept ==
    \A i \in Ids : queue[i].st = "sent" =>
        i \in DOMAIN queue' /\ queue'[i].st = "sent"

-----------------------------------------------------------------------------
(* Data.                                                                    *)

\* A nonempty set of row ids has a greatest one.
LEMMA GreatestId ==
    ASSUME NEW n \in Nat, NEW T \in SUBSET (1..n), T # {}
    PROVE  \E i \in T : \A j \in T : j <= i
<1> DEFINE R == OpToRel(<, Nat)
           U == {n - i : i \in T}
<1>1. IsWellFoundedOn(R, Nat)
    BY NatLessThanWellFounded
<1>2. \A x, y \in Nat : x < y => <<x, y>> \in R
    BY DEF OpToRel
<1>3. \A i \in T : n - i \in Nat
    OBVIOUS
<1>4. U \subseteq Nat /\ U # {}
    BY <1>3
<1> HIDE DEF R
<1>5. \E x \in U : \A y \in U : ~(<<y, x>> \in R)
  <2> HIDE DEF U
  <2> QED BY <1>1, <1>4, WFMin
<1>6. PICK i \in T : \A j \in T : ~(<<n - j, n - i>> \in R)
    BY <1>5
<1>7. ASSUME NEW j \in T, ~(j <= i)
      PROVE  FALSE
  <2>1. n - j < n - i /\ i \in Nat /\ j \in Nat
      BY <1>7
  <2> QED
      BY <2>1, <1>2, <1>3, <1>6
<1> QED
    BY <1>7

\* A function over the ids of a sequence is a sequence of the same length.
LEMMA RowwiseUpdate ==
    ASSUME NEW S, NEW q \in Seq(S), NEW f, f \in [DOMAIN q -> S]
    PROVE  f \in Seq(S) /\ DOMAIN f = DOMAIN q
    OBVIOUS

\* Ids are the numbers up to the length of the queue.
LEMMA IdsAreNumbers ==
    ASSUME TypeOK
    PROVE  /\ Len(queue) \in Nat
           /\ Ids = 1..Len(queue)
           /\ \A i \in Ids : i \in Nat /\ queue[i] \in Row
    BY DEF TypeOK, Ids

\* The assignment keeps its type when it follows moved rows.
LEMMA CcaFollowsType ==
    ASSUME TypeOK, NEW M \in SUBSET Ids, NEW recv \in [M -> Senders]
    PROVE  CcaFollows(M, recv) \in [Campaigns -> [Contacts -> Senders \cup {NoSender}]]
<1>1. ASSUME NEW c \in Campaigns, NEW p \in Contacts
      PROVE  CcaFollows(M, recv)[c][p] \in Senders \cup {NoSender}
  <2> DEFINE ids == {i \in M : queue[i].c = c /\ queue[i].p = p}
             last == CHOOSE i \in ids : \A j \in ids : j <= i
  <2>1. CcaFollows(M, recv)[c][p] =
            IF ids = {} \/ cca[c][p] = NoSender THEN cca[c][p] ELSE recv[last]
      BY DEF CcaFollows
  <2>2. ids # {} => last \in M
    <3>1. ids \in SUBSET (1..Len(queue)) /\ Len(queue) \in Nat
        BY IdsAreNumbers
    <3>2. ids # {} => \E i \in ids : \A j \in ids : j <= i
        BY <3>1, GreatestId
    <3> QED
        BY <3>2
  <2>3. cca[c][p] \in Senders \cup {NoSender}
      BY DEF TypeOK
  <2> QED
      BY <2>1, <2>2, <2>3
<1>2. CcaFollows(M, recv) = [c \in Campaigns |-> [p \in Contacts |->
          CcaFollows(M, recv)[c][p]]]
    BY DEF CcaFollows
<1> QED
    BY <1>1, <1>2

\* An event is counted; only crashes and lost answers are faults.
LEMMA SpendCounts ==
    ASSUME TypeOK, NEW e \in Events, Spend(e)
    PROVE  /\ spent' \in [Events -> Nat]
           /\ Faults \in Nat /\ Faults' \in Nat
           /\ e \in {"crash", "lost"} => Faults' = Faults + 1
           /\ e \notin {"crash", "lost"} => Faults' = Faults
<1>1. spent \in [Events -> Nat] /\ spent' = [spent EXCEPT ![e] = @ + 1]
    BY DEF TypeOK, Spend
<1>2. spent' \in [Events -> Nat]
    BY <1>1
<1>3. {"crash", "lost"} \subseteq Events /\ "crash" # "lost"
    BY DEF Events
<1>4. Faults = spent["crash"] + spent["lost"] /\ Faults' = spent'["crash"] + spent'["lost"]
    BY DEF Faults
<1> QED
    BY <1>1, <1>2, <1>3, <1>4

-----------------------------------------------------------------------------
(* The transactions that have read a pool.                                  *)

\* An account that an open transaction read as eligible still is, unless it has
\* lapsed since; the one exception is the account being cleared, which is
\* eligible once its own transaction commits.
PoolsAreKnown ==
    \A m \in Movers : \A t \in txn[m].pool :
        \/ Healthy(t) \/ t \in txn[m].lapsed
        \/ m = "listener" /\ txn[m].op = "clear" /\ t = txn[m].on /\ online[t]

\* The transaction that flags an account has not read it as a receiver.
SignalledIsOut ==
    txn["listener"].op = "signal" => txn["listener"].on \notin txn["listener"].pool

PoolInv == PoolsAreKnown /\ SignalledIsOut

LEMMA OpensTxn ==
    ASSUME TypeOK, NEW m \in Movers, NEW op, NEW x, NEW pool \in SUBSET Senders,
           NEW running \in SUBSET Campaigns,
           op \in {"failover", "rollback", "reroute", "even", "signal", "clear"},
           x \in Senders \cup Campaigns, Opens(m, op, x, pool, running)
    PROVE  /\ txn' \in [Movers -> Txn]
           /\ txn'[m].pool = pool /\ txn'[m].op = op /\ txn'[m].on = x
           /\ \A k \in Movers \ {m} : txn'[k] = txn[k]
<1> DEFINE t == [op |-> op, on |-> x, pool |-> pool, running |-> running, lapsed |-> {}]
<1>1. t \in Txn /\ t.pool = pool /\ t.op = op /\ t.on = x
    BY DEF Txn
<1>2. txn' = [txn EXCEPT ![m] = t] /\ txn \in [Movers -> Txn]
    BY DEF Opens, TypeOK
<1> HIDE DEF t
<1> QED
    BY <1>1, <1>2

LEMMA CommitsTxn ==
    ASSUME TypeOK, NEW m \in Movers, NEW op, NEW x, Commits(m, op, x)
    PROVE  /\ txn' \in [Movers -> Txn]
           /\ txn'[m].pool = {} /\ txn'[m].op = "none"
           /\ \A k \in Movers \ {m} : txn'[k] = txn[k]
<1>1. NoTxn \in Txn /\ NoTxn.pool = {} /\ NoTxn.op = "none"
    BY DEF NoTxn, Txn
<1>2. txn' = [txn EXCEPT ![m] = NoTxn] /\ txn \in [Movers -> Txn]
    BY DEF Commits, TypeOK
<1> QED
    BY <1>1, <1>2

LEMMA LapsingTxn ==
    ASSUME TypeOK, NEW s \in Senders
    PROVE  /\ Lapsing(s) \in [Movers -> Txn]
           /\ \A m \in Movers :
                /\ Lapsing(s)[m].pool = txn[m].pool /\ Lapsing(s)[m].op = txn[m].op
                /\ Lapsing(s)[m].on = txn[m].on
                /\ Lapsing(s)[m].lapsed = txn[m].lapsed \cup (txn[m].pool \cap {s})
<1>1. ASSUME NEW m \in Movers
      PROVE  /\ Lapsing(s)[m] \in Txn
             /\ Lapsing(s)[m].pool = txn[m].pool /\ Lapsing(s)[m].op = txn[m].op
             /\ Lapsing(s)[m].on = txn[m].on
             /\ Lapsing(s)[m].lapsed = txn[m].lapsed \cup (txn[m].pool \cap {s})
  <2>1. txn[m] \in Txn
      BY DEF TypeOK
  <2>2. Lapsing(s)[m] = [txn[m] EXCEPT !.lapsed = @ \cup (txn[m].pool \cap {s})]
      BY DEF Lapsing
  <2>3. txn[m].lapsed \cup (txn[m].pool \cap {s}) \in SUBSET Senders
      BY <2>1 DEF Txn
  <2> QED
      BY <2>1, <2>2, <2>3 DEF Txn
<1>2. Lapsing(s) = [m \in Movers |-> Lapsing(s)[m]]
    BY DEF Lapsing
<1> QED
    BY <1>1, <1>2

\* Accounts and transactions as they were, or better.
LEMMA PoolsStay ==
    ASSUME PoolInv, txn' = txn, \A t \in Senders : online[t] => online'[t],
           \A t \in Senders : Healthy(t) => Healthy(t)', TypeOK
    PROVE  PoolInv'
<1>1. \A m \in Movers : txn[m].pool \subseteq Senders
    BY DEF TypeOK, Txn
<1> QED
    BY <1>1 DEF PoolInv, PoolsAreKnown, SignalledIsOut

\* A pool is read.
LEMMA ReadingKnows ==
    ASSUME TypeOK, NEW m \in Movers, NEW op, NEW x, NEW pool \in SUBSET Senders,
           NEW running \in SUBSET Campaigns,
           op \in {"failover", "rollback", "reroute", "even", "signal", "clear"},
           x \in Senders \cup Campaigns, Opens(m, op, x, pool, running),
           UNCHANGED <<online, restriction>>,
           op = "signal" => x \notin pool,
           \A t \in pool : Healthy(t) \/ (m = "listener" /\ op = "clear" /\ t = x /\ online[t])
    PROVE  txn' \in [Movers -> Txn] /\ (PoolInv => PoolInv')
<1>1. /\ txn' \in [Movers -> Txn]
      /\ txn'[m].pool = pool /\ txn'[m].op = op /\ txn'[m].on = x
      /\ \A k \in Movers \ {m} : txn'[k] = txn[k]
    BY OpensTxn
<1>2. ASSUME PoolInv PROVE PoolInv'
  <2>1. ASSUME NEW k \in Movers, NEW t \in txn'[k].pool
        PROVE  \/ Healthy(t)' \/ t \in txn'[k].lapsed
               \/ k = "listener" /\ txn'[k].op = "clear" /\ t = txn'[k].on /\ online'[t]
    <3>1. Healthy(t)' <=> Healthy(t)
        BY DEF Healthy
    <3>2. CASE k = m
        BY <1>1, <2>1, <3>1, <3>2
    <3>3. CASE k # m
        BY <1>1, <1>2, <2>1, <3>1, <3>3 DEF PoolInv, PoolsAreKnown
    <3> QED
        BY <3>2, <3>3
  <2>2. SignalledIsOut'
    <3>1. CASE m = "listener"
        BY <1>1, <3>1 DEF SignalledIsOut
    <3>2. CASE m # "listener"
      <4>1. txn'["listener"] = txn["listener"]
          BY <1>1, <3>2 DEF Movers
      <4> QED
          BY <1>2, <4>1 DEF SignalledIsOut, PoolInv
    <3> QED
        BY <3>1, <3>2
  <2> QED
      BY <2>1, <2>2 DEF PoolInv, PoolsAreKnown
<1> QED
    BY <1>1, <1>2

\* A transaction ends.
LEMMA CommittingKnows ==
    ASSUME TypeOK, NEW m \in Movers, NEW op, NEW x, Commits(m, op, x),
           \A t \in Senders : online[t] => online'[t],
           \A t \in Senders : Healthy(t) => Healthy(t)'
    PROVE  txn' \in [Movers -> Txn] /\ (PoolInv => PoolInv')
<1>1. /\ txn' \in [Movers -> Txn]
      /\ txn'[m].pool = {} /\ txn'[m].op = "none"
      /\ \A k \in Movers \ {m} : txn'[k] = txn[k]
    BY CommitsTxn
<1>2. \A k \in Movers : txn[k].pool \subseteq Senders
    BY DEF TypeOK, Txn
<1>3. ASSUME PoolInv PROVE PoolInv'
  <2>1. ASSUME NEW k \in Movers, NEW t \in txn'[k].pool
        PROVE  \/ Healthy(t)' \/ t \in txn'[k].lapsed
               \/ k = "listener" /\ txn'[k].op = "clear" /\ t = txn'[k].on /\ online'[t]
    <3>1. k # m /\ txn'[k] = txn[k] /\ t \in Senders
        BY <1>1, <1>2, <2>1
    <3> QED
        BY <1>3, <2>1, <3>1 DEF PoolInv, PoolsAreKnown
  <2>2. SignalledIsOut'
    <3>1. CASE m = "listener"
        BY <1>1, <3>1 DEF SignalledIsOut
    <3>2. CASE m # "listener"
      <4>1. txn'["listener"] = txn["listener"]
          BY <1>1, <3>2 DEF Movers
      <4> QED
          BY <1>3, <4>1 DEF SignalledIsOut, PoolInv
    <3> QED
        BY <3>1, <3>2
  <2> QED
      BY <2>1, <2>2 DEF PoolInv, PoolsAreKnown
<1> QED
    BY <1>1, <1>3

\* An account becomes ineligible, in view of the open transactions.
LEMMA LapsingKnows ==
    ASSUME TypeOK, NEW s \in Senders, txn' = Lapsing(s),
           \A t \in Senders \ {s} : online'[t] = online[t] /\ restriction'[t] = restriction[t]
    PROVE  txn' \in [Movers -> Txn] /\ (PoolInv => PoolInv')
<1>1. /\ txn' \in [Movers -> Txn]
      /\ \A m \in Movers :
            /\ txn'[m].pool = txn[m].pool /\ txn'[m].op = txn[m].op /\ txn'[m].on = txn[m].on
            /\ txn'[m].lapsed = txn[m].lapsed \cup (txn[m].pool \cap {s})
    BY LapsingTxn
<1>2. \A k \in Movers : txn[k].pool \subseteq Senders
    BY DEF TypeOK, Txn
<1>3. ASSUME PoolInv PROVE PoolInv'
  <2>1. ASSUME NEW k \in Movers, NEW t \in txn'[k].pool
        PROVE  \/ Healthy(t)' \/ t \in txn'[k].lapsed
               \/ k = "listener" /\ txn'[k].op = "clear" /\ t = txn'[k].on /\ online'[t]
    <3>1. t \in txn[k].pool /\ t \in Senders
        BY <1>1, <1>2, <2>1
    <3>2. CASE t = s
        BY <1>1, <3>1, <3>2
    <3>3. CASE t # s
      <4>1. (Healthy(t)' <=> Healthy(t)) /\ online'[t] = online[t]
          BY <3>1, <3>3 DEF Healthy
      <4> QED
          BY <1>1, <1>3, <3>1, <4>1 DEF PoolInv, PoolsAreKnown
    <3> QED
        BY <3>2, <3>3
  <2>2. SignalledIsOut'
    <3>1. "listener" \in Movers
        BY DEF Movers
    <3> QED
        BY <1>1, <1>3, <3>1 DEF SignalledIsOut, PoolInv
  <2> QED
      BY <2>1, <2>2 DEF PoolInv, PoolsAreKnown
<1> QED
    BY <1>1, <1>3

\* Nothing but reading, committing and lapsing happens to these transactions.
LEMMA StepTxn ==
    ASSUME IInv, [Next]_vars
    PROVE  txn' \in [Movers -> Txn] /\ (PoolInv => PoolInv')
<1>0. TypeOK /\ txn \in [Movers -> Txn] /\ Movers = {"worker", "enqueue", "listener"}
    BY DEF IInv, TypeOK, Movers
<1>a. Eligible \subseteq Senders /\ Running \subseteq Campaigns /\ \A t \in Eligible : Healthy(t)
    BY DEF Eligible, Running
<1>b. ASSUME txn' = txn, UNCHANGED <<online, restriction>>
      PROVE  txn' \in [Movers -> Txn] /\ (PoolInv => PoolInv')
  <2>1. \A t \in Senders : Healthy(t) => Healthy(t)'
      BY <1>b DEF Healthy
  <2> QED
      BY <1>0, <1>b, <2>1, PoolsStay
<1>c. ASSUME UNCHANGED <<online, restriction>>, NEW m \in Movers, NEW op, NEW x, Commits(m, op, x)
      PROVE  txn' \in [Movers -> Txn] /\ (PoolInv => PoolInv')
  <2>1. \A t \in Senders : Healthy(t) => Healthy(t)'
      BY <1>c DEF Healthy
  <2> QED
      BY <1>0, <1>c, <2>1, CommittingKnows
<1>d. ASSUME UNCHANGED <<online, restriction>>, NEW m \in Movers, NEW op, NEW x,
             NEW running \in SUBSET Campaigns, Opens(m, op, x, Eligible, running),
             op \in {"failover", "rollback", "reroute", "even"}, x \in Senders \cup Campaigns
      PROVE  txn' \in [Movers -> Txn] /\ (PoolInv => PoolInv')
    BY <1>0, <1>a, <1>d, ReadingKnows
<1>1. CASE WorkerNext
  <2>1. CASE \/ \E s \in Senders : Gate(s)
             \/ \E i \in Ids : Pick(i)
             \/ PickNothing
             \/ \E c \in Campaigns : PauseExpired(c)
      BY <1>b, <2>1 DEF Gate, Pick, PickNothing, PauseExpired
  <2>2. CASE Restart
    <3> DEFINE t1 == [txn EXCEPT !["worker"] = NoTxn]
    <3>1. NoTxn \in Txn /\ NoTxn.pool = {} /\ NoTxn.op = "none"
        BY DEF NoTxn, Txn
    <3>2. /\ txn' \in [Movers -> Txn] /\ txn'["worker"] = NoTxn /\ txn'["enqueue"] = NoTxn
          /\ txn'["listener"] = txn["listener"]
        BY <1>0, <2>2, <3>1 DEF Restart
    <3>3. ASSUME PoolInv PROVE PoolInv'
      <4>1. \A t : Healthy(t)' <=> Healthy(t)
          BY <2>2 DEF Restart, Healthy
      <4> QED
          BY <1>0, <2>2, <3>1, <3>2, <3>3, <4>1 DEF PoolInv, PoolsAreKnown, SignalledIsOut, Restart
    <3> QED
        BY <3>2, <3>3
  <2>3. CASE SendStep
    <3>1. worker.pc # "idle" => worker.s \in Senders
        BY DEF IInv, HolderHasSender
    <3>2. CASE \/ RefuseOffline \/ RefuseTakenOver \/ Proceed \/ Deliver \/ CommitSent \/ LoseCommit
               \/ RejectSend \/ LoseAnswer \/ FloodWait \/ PrivacyRestricted
               \/ \E fromCache \in BOOLEAN : NotRegistered(fromCache)
               \/ FailFlagged \/ FailAllOfSender
        BY <1>b, <3>2 DEF RefuseOffline, RefuseTakenOver, Proceed, Deliver, CommitSent, LoseCommit,
              RejectSend, LoseAnswer, FloodWait, PrivacyRestricted, NotRegistered, FailFlagged,
              FailAllOfSender
    <3>3. CASE NotResolved \/ EvacuationReads \/ RollbackReads
        BY <1>0, <1>a, <1>d, <3>1, <3>3 DEF NotResolved, EvacuationReads, RollbackReads
    <3>4. CASE Reroute \/ RerouteNowhere \/ EvacuateFlagged \/ RollbackSuspects
        BY <1>0, <1>c, <3>4 DEF Reroute, RerouteNowhere, EvacuateFlagged, RollbackSuspects
    <3>5. ASSUME NEW status \in {"spam_limited", "frozen"}, Restricted(status)
          PROVE  txn' \in [Movers -> Txn] /\ (PoolInv => PoolInv')
      <4>1. worker.s \in Senders /\ txn' = Lapsing(worker.s)
          BY <3>1, <3>5 DEF Restricted
      <4>2. \A t \in Senders \ {worker.s} : online'[t] = online[t] /\ restriction'[t] = restriction[t]
          BY <1>0, <3>5 DEF Restricted, TypeOK
      <4> QED
          BY <1>0, <4>1, <4>2, LapsingKnows
    <3>6. CASE AuthError
      <4>1. worker.s \in Senders /\ txn' = Lapsing(worker.s)
          BY <3>1, <3>6 DEF AuthError
      <4>2. \A t \in Senders \ {worker.s} : online'[t] = online[t] /\ restriction'[t] = restriction[t]
          BY <1>0, <3>6 DEF AuthError, TypeOK
      <4> QED
          BY <1>0, <4>1, <4>2, LapsingKnows
    <3> QED
        BY <2>3, <3>2, <3>3, <3>4, <3>5, <3>6 DEF SendStep
  <2> QED
      BY <1>1, <2>1, <2>2, <2>3 DEF WorkerNext
<1>2. CASE EnqueueNext
  <2>1. CASE \/ \E s \in Senders : SweepReads(s)
             \/ \E c \in Campaigns : EvenSplitReads(c)
      BY <1>0, <1>a, <1>d, <2>1 DEF SweepReads, EvenSplitReads
  <2>2. CASE \/ \E s \in Senders : Sweep(s)
             \/ \E c \in Campaigns : EvenSplit(c)
      BY <1>0, <1>c, <2>2 DEF Sweep, EvenSplit
  <2>3. CASE \/ \E c \in Campaigns : Autopause(c)
             \/ \E c \in Campaigns, todo \in SUBSET Contacts : OpenBatch(c, todo)
             \/ \E p \in Contacts, s \in Senders : StageContact(p, s)
             \/ \E p \in Contacts : SkipContact(p)
             \/ CommitBatch
      BY <1>b, <2>3 DEF Autopause, OpenBatch, StageContact, SkipContact, CommitBatch
  <2> QED
      BY <1>2, <2>1, <2>2, <2>3 DEF EnqueueNext, EnqueueStep
<1>3. CASE ApiNext
  <2>1. CASE \/ \E c \in Campaigns : Start(c) \/ Pause(c) \/ Finish(c) \/ RequeueFailed(c)
             \/ \E s \in Senders, p \in Contacts :
                   \/ Takeover(s, p) \/ EnableAi(s, p)
                   \/ \E cs \in {Campaigns} \cup {{c} : c \in Campaigns} : Inbound(s, p, cs)
      BY <1>b, <2>1 DEF Start, Pause, Finish, RequeueFailed, Takeover, EnableAi, Inbound
  <2>2. ASSUME NEW s \in Senders, NEW status \in {"spam_limited", "frozen"},
               AntispamSignal(s, status)
        PROVE  txn' \in [Movers -> Txn] /\ (PoolInv => PoolInv')
    <3>1. txn' = [Lapsing(s) EXCEPT !["listener"] = NoTxn]
        BY <2>2 DEF AntispamSignal
    <3>2. /\ Lapsing(s) \in [Movers -> Txn]
          /\ \A m \in Movers :
                /\ Lapsing(s)[m].pool = txn[m].pool /\ Lapsing(s)[m].op = txn[m].op
                /\ Lapsing(s)[m].on = txn[m].on
                /\ Lapsing(s)[m].lapsed = txn[m].lapsed \cup (txn[m].pool \cap {s})
        BY <1>0, LapsingTxn
    <3>3. NoTxn \in Txn /\ NoTxn.pool = {} /\ NoTxn.op = "none"
        BY DEF NoTxn, Txn
    <3>4. /\ txn' \in [Movers -> Txn] /\ txn'["listener"] = NoTxn
          /\ \A m \in Movers \ {"listener"} : txn'[m] = Lapsing(s)[m]
        BY <1>0, <3>1, <3>2, <3>3
    <3>5. \A t \in Senders \ {s} : Healthy(t)' <=> Healthy(t)
        BY <1>0, <2>2 DEF AntispamSignal, Healthy, TypeOK
    <3>6. \A m \in Movers : txn[m].pool \subseteq Senders
        BY <1>0 DEF Txn
    <3>7. ASSUME PoolInv PROVE PoolInv'
      <4>1. ASSUME NEW m \in Movers, NEW t \in txn'[m].pool
            PROVE  Healthy(t)' \/ t \in txn'[m].lapsed
        <5>1. m # "listener" /\ t \in txn[m].pool /\ t \in Senders
            BY <3>2, <3>3, <3>4, <3>6, <4>1
        <5>2. txn'[m].lapsed = txn[m].lapsed \cup (txn[m].pool \cap {s})
            BY <3>2, <3>4, <5>1
        <5>3. Healthy(t) \/ t \in txn[m].lapsed
            BY <3>7, <5>1 DEF PoolInv, PoolsAreKnown
        <5> QED
            BY <3>5, <5>1, <5>2, <5>3
      <4>2. SignalledIsOut'
          BY <3>3, <3>4 DEF SignalledIsOut
      <4> QED
          BY <4>1, <4>2 DEF PoolInv, PoolsAreKnown
    <3> QED
        BY <3>4, <3>7
  <2>3. ASSUME NEW s \in Senders, SignalReads(s)
        PROVE  txn' \in [Movers -> Txn] /\ (PoolInv => PoolInv')
    <3>1. Opens("listener", "signal", s, Eligible \ {s}, {}) /\ UNCHANGED <<online, restriction>>
        BY <2>3 DEF SignalReads
    <3>2. Eligible \ {s} \in SUBSET Senders /\ {} \in SUBSET Campaigns
              /\ s \notin Eligible \ {s} /\ \A t \in Eligible \ {s} : Healthy(t)
        BY <1>a
    <3> QED
        BY <1>0, <3>1, <3>2, ReadingKnows
  <2>4. ASSUME NEW s \in Senders, ClearReads(s)
        PROVE  txn' \in [Movers -> Txn] /\ (PoolInv => PoolInv')
    <3> DEFINE pool == Eligible \cup {t \in {s} : online[t]}
    <3>1. Opens("listener", "clear", s, pool, {}) /\ UNCHANGED <<online, restriction>>
        BY <2>4 DEF ClearReads
    <3>2. pool \in SUBSET Senders /\ {} \in SUBSET Campaigns
              /\ \A t \in pool : Healthy(t) \/ (t = s /\ online[t])
        BY <1>a
    <3> HIDE DEF pool
    <3> QED
        BY <1>0, <3>1, <3>2, ReadingKnows
  <2>5. ASSUME NEW s \in Senders, Clear(s)
        PROVE  txn' \in [Movers -> Txn] /\ (PoolInv => PoolInv')
    <3>1. Commits("listener", "clear", s) /\ online' = online
              /\ restriction' = [restriction EXCEPT ![s] = "none"]
        BY <2>5 DEF Clear
    <3>2. \A t \in Senders : Healthy(t) => Healthy(t)'
        BY <1>0, <3>1 DEF Healthy, TypeOK
    <3> QED
        BY <1>0, <3>1, <3>2, CommittingKnows
  <2>6. ASSUME NEW s \in Senders, Escalate(s) \/ GoOnline(s)
        PROVE  txn' \in [Movers -> Txn] /\ (PoolInv => PoolInv')
    <3>1. \A t \in Senders : Healthy(t) => Healthy(t)'
        BY <1>0, <2>6 DEF Escalate, GoOnline, Healthy, TypeOK
    <3>2. \A t \in Senders : online[t] => online'[t]
        BY <1>0, <2>6 DEF Escalate, GoOnline, TypeOK
    <3>3. txn' = txn
        BY <2>6 DEF Escalate, GoOnline
    <3> QED
        BY <1>0, <3>1, <3>2, <3>3, PoolsStay
  <2>7. ASSUME NEW s \in Senders, GoOffline(s)
        PROVE  txn' \in [Movers -> Txn] /\ (PoolInv => PoolInv')
    <3>1. \A t \in Senders \ {s} : online'[t] = online[t] /\ restriction'[t] = restriction[t]
        BY <1>0, <2>7 DEF GoOffline, TypeOK
    <3> QED
        BY <1>0, <2>7, <3>1, LapsingKnows DEF GoOffline
  <2> QED
      BY <1>3, <2>1, <2>2, <2>3, <2>4, <2>5, <2>6, <2>7 DEF ApiNext
<1>4. CASE UNCHANGED vars
    BY <1>b, <1>4 DEF vars
<1> QED
    BY <1>1, <1>2, <1>3, <1>4 DEF Next

-----------------------------------------------------------------------------
(* Two ways to keep the invariant.                                          *)

\* What the row-by-row UPDATEs of the services have in common.
LEMMA RowwiseKeeps ==
    ASSUME TypeOK, OpenHasAttempt(queue), queue' \in [Ids -> Row],
           \A i \in Ids :
              /\ queue'[i].copies = queue[i].copies
              /\ queue[i].st \in {"processing", "sent"} => queue'[i] = queue[i]
              /\ queue[i].st \notin {"processing", "sent"} /\ queue'[i].st # "pending"
                    => queue'[i].st \notin {"processing"}
              /\ queue'[i].st = "pending" => queue'[i].att < MaxAttempts
    PROVE  RowsKept
<1>1. queue' \in Seq(Row) /\ DOMAIN queue' = Ids
    BY RowwiseUpdate DEF TypeOK, Ids
<1>2. OpenHasAttempt(queue')
    BY <1>1 DEF OpenHasAttempt, Ids
<1> QED
    BY <1>1, <1>2 DEF RowsKept

\* An untouched queue is kept.
LEMMA SameQueueKeeps ==
    ASSUME IInv, queue' = queue
    PROVE  RowsKept
    BY DEF IInv, TypeOK, RowsKept, OpenHasAttempt, Ids

\* First way: rows kept, the worker where it was.
LEMMA BystanderKeeps ==
    ASSUME IInv, TypeOK', RowsKept, worker' = worker, BatchIsFresh',
           Faults \in Nat, Faults' \in Nat, Faults <= Faults'
    PROVE  IInv'
<1>1. HolderHasSender'
    BY DEF IInv, HolderHasSender
<1>2. WorkerOwnsItsRow'
    BY DEF IInv, WorkerOwnsItsRow, RowsKept, Held, Ids
<1>3. OpenHasAttempt(queue)'
    BY DEF RowsKept, OpenHasAttempt
<1>4. CopiesArePaid'
  <2> SUFFICES ASSUME NEW i \in DOMAIN queue'
               PROVE  /\ queue'[i].copies <= Faults' + 1
                      /\ queue'[i].copies <= Faults' \/ Delivered(i)'
      BY DEF CopiesArePaid, Ids
  <2>1. CASE i \in Ids
    <3>1. queue'[i].copies = queue[i].copies /\ queue[i].copies \in Nat
        BY <2>1, IdsAreNumbers DEF IInv, RowsKept, Row
    <3>2. Delivered(i) => Delivered(i)'
      <4>1. queue[i].st = "sent" => queue'[i].st = "sent"
          BY <2>1 DEF RowsKept
      <4> QED
          BY <4>1 DEF Delivered
    <3> QED
        BY <2>1, <3>1, <3>2 DEF IInv, CopiesArePaid
  <2>2. CASE i \notin Ids
    <3>1. queue'[i].copies = 0
        BY <2>2 DEF RowsKept
    <3>2. \A n \in Nat : 0 <= n /\ 0 <= n + 1
        OBVIOUS
    <3> QED
        BY <3>1, <3>2
  <2> QED
      BY <2>1, <2>2
<1> QED
    BY <1>1, <1>2, <1>3, <1>4 DEF IInv

\* Second way: the worker writes the outcome r into its row and lets go.
LEMMA OutcomeKeeps ==
    ASSUME IInv, TypeOK', worker.pc \notin {"idle", "gated"}, NEW r \in Row,
           queue' = [queue EXCEPT ![worker.id] = r], worker' = IdleWorker,
           r.st \in {"pending", "processing"} => r.att < MaxAttempts,
           r.copies <= Faults' + 1, r.copies <= Faults' \/ r.st = "sent",
           enq' = enq,
           Faults \in Nat, Faults' \in Nat, Faults <= Faults'
    PROVE  IInv' /\ SentKept
<1>1. worker.id \in Ids /\ queue \in Seq(Row) /\ DOMAIN queue' = Ids
    BY DEF IInv, WorkerOwnsItsRow, TypeOK, Ids
<1>2. \A i \in Ids : queue'[i] = IF i = worker.id THEN r ELSE queue[i]
    BY <1>1 DEF Ids
<1>3. HolderHasSender' /\ WorkerOwnsItsRow'
    BY DEF HolderHasSender, WorkerOwnsItsRow, IdleWorker
<1>4. OpenHasAttempt(queue)'
    BY <1>1, <1>2 DEF IInv, OpenHasAttempt, Ids
<1>5. BatchIsFresh'
    BY DEF IInv, BatchIsFresh
<1>6. CopiesArePaid'
  <2> SUFFICES ASSUME NEW i \in Ids
               PROVE  /\ queue'[i].copies <= Faults' + 1
                      /\ queue'[i].copies <= Faults' \/ Delivered(i)'
      BY <1>1 DEF CopiesArePaid, Ids
  <2>1. CASE i = worker.id
      BY <2>1, <1>2 DEF Delivered
  <2>2. CASE i # worker.id
    <3>1. queue'[i] = queue[i] /\ queue[i].copies \in Nat
        BY <2>2, <1>2, IdsAreNumbers DEF IInv, Row
    <3>2. Delivered(i) => Delivered(i)'
        BY <2>2, <3>1 DEF Delivered
    <3> QED
        BY <3>1, <3>2 DEF IInv, CopiesArePaid
  <2> QED
      BY <2>1, <2>2
<1>7. SentKept
    BY <1>1, <1>2 DEF SentKept, IInv, WorkerOwnsItsRow, Held
<1> QED
    BY <1>3, <1>4, <1>5, <1>6, <1>7 DEF IInv

\* The tables beside message_queue keep their types.
TablesTyped ==
    /\ campaign \in [Campaigns -> {"draft", "running", "paused", "done"}]
    /\ restriction \in [Senders -> {"none", "spam_limited", "frozen"}]
    /\ online \in [Senders -> BOOLEAN]
    /\ cca \in [Campaigns -> [Contacts -> Senders \cup {NoSender}]]
    /\ conv \in [Senders -> [Contacts -> {"none", "ai", "manual"}]]
    /\ spent \in [Events -> Nat]
    /\ txn \in [Movers -> Txn]

LEMMA TypedTables ==
    ASSUME IInv
    PROVE  /\ TablesTyped /\ Faults \in Nat
           /\ spent' = spent => Faults' = Faults
    BY DEF IInv, TypeOK, TablesTyped, Faults, Events

LEMMA HandlerKeeps ==
    ASSUME IInv, RowsKept, TablesTyped', Faults' = Faults, UNCHANGED <<worker, enq, late>>
    PROVE  IInv'
<1>1. Faults \in Nat /\ Faults' \in Nat /\ Faults <= Faults'
  <2>1. \A n \in Nat : n <= n
      OBVIOUS
  <2> QED
      BY <2>1, TypedTables
<1>2. TypeOK'
    BY DEF IInv, TypeOK, TablesTyped, RowsKept
<1>3. BatchIsFresh'
    BY DEF IInv, BatchIsFresh
<1> QED
    BY <1>1, <1>2, <1>3, BystanderKeeps

\* The edits the services make to a row leave a row.
LEMMA RowEdits ==
    ASSUME NEW r \in Row
    PROVE  /\ \A st \in RowStatus : [r EXCEPT !.st = st] \in Row
           /\ \A s \in Senders : [r EXCEPT !.s = s] \in Row
           /\ \A s \in Senders : [r EXCEPT !.s = s, !.att = 0] \in Row
           /\ \A st \in RowStatus : [r EXCEPT !.st = st, !.att = 0, !.reopens = @ + 1] \in Row
           /\ \A st \in RowStatus, s \in Senders :
                 [r EXCEPT !.st = st, !.s = s, !.att = 0, !.reopens = @ + 1] \in Row
           /\ \A st \in RowStatus, a \in 0..MaxAttempts :
                 [r EXCEPT !.att = a, !.st = st] \in Row
<1>1. 0 \in 0..MaxAttempts
    BY BoundAssumption
<1>2. r.reopens + 1 \in Nat
    BY DEF Row
<1> QED
    BY <1>1, <1>2 DEF Row

\* What a failover does to the queue: some pending rows get a sender each and
\* start their attempts over, and the assignments follow.
LEMMA FailoverShape ==
    ASSUME NEW s, NEW read, Failover(s, read)
    PROVE  \E M \in SUBSET Ids : \E recv \in [M -> Senders] :
               /\ \A i \in M : queue[i].st = "pending"
               /\ \A i \in M : recv[i] \in Pool[queue[i].c] \cap read
               /\ queue' = [i \in Ids |->
                     IF i \in M THEN [queue[i] EXCEPT !.s = recv[i], !.att = 0] ELSE queue[i]]
               /\ cca' = CcaFollows(M, recv)
<1> DEFINE pool(c) == Pool[c] \cap read
           M == {i \in Ids : queue[i].s = s /\ Failoverable(i) /\ pool(queue[i].c) # {}}
<1>1. M \in SUBSET Ids /\ \A i \in M : queue[i].st = "pending"
    BY DEF Failoverable
<1>2. PICK recv \in [M -> Senders] :
          /\ \A i \in M : recv[i] \in pool(queue[i].c)
          /\ queue' = [i \in Ids |->
                IF i \in M THEN [queue[i] EXCEPT !.s = recv[i], !.att = 0] ELSE queue[i]]
          /\ cca' = CcaFollows(M, recv)
    BY DEF Failover
<1> HIDE DEF M
<1> QED
    BY <1>1, <1>2

\* Failover moves pending rows and restarts their attempts.
LEMMA FailoverKeeps ==
    ASSUME IInv, NEW s \in Senders, NEW read, Failover(s, read)
    PROVE  RowsKept /\ cca' \in [Campaigns -> [Contacts -> Senders \cup {NoSender}]]
<1>0. PICK M \in SUBSET Ids : \E recv \in [M -> Senders] :
          /\ \A i \in M : queue[i].st = "pending"
          /\ \A i \in M : recv[i] \in Pool[queue[i].c] \cap read
          /\ queue' = [i \in Ids |->
                IF i \in M THEN [queue[i] EXCEPT !.s = recv[i], !.att = 0] ELSE queue[i]]
          /\ cca' = CcaFollows(M, recv)
    BY FailoverShape
<1>1. PICK recv \in [M -> Senders] :
          /\ \A i \in M : queue[i].st = "pending"
          /\ queue' = [i \in Ids |->
                IF i \in M THEN [queue[i] EXCEPT !.s = recv[i], !.att = 0] ELSE queue[i]]
          /\ cca' = CcaFollows(M, recv)
    BY <1>0
<1>2. \A i \in Ids : queue[i] \in Row
    BY IdsAreNumbers DEF IInv
<1>3. queue' \in [Ids -> Row]
    BY <1>1, <1>2, RowEdits
<1>4. ASSUME NEW i \in Ids
      PROVE  /\ queue'[i].copies = queue[i].copies
             /\ queue'[i].st = queue[i].st
             /\ queue[i].st # "pending" => queue'[i] = queue[i]
             /\ queue'[i].att \in {0, queue[i].att}
    BY <1>1, <1>2 DEF Row
<1>5. \A i \in Ids : queue[i].st = "pending" => queue[i].att < MaxAttempts
    BY DEF IInv, OpenHasAttempt, Ids
<1>6. 0 < MaxAttempts
    BY BoundAssumption
<1>7. RowsKept
    BY <1>3, <1>4, <1>5, <1>6, RowwiseKeeps DEF IInv
<1> QED
    BY <1>1, <1>7, CcaFollowsType DEF IInv

-----------------------------------------------------------------------------
(* The endpoints and the listener.                                          *)

\* Rows that only change status, to a closed one, from pending.
LEMMA ClosingKeeps ==
    ASSUME IInv, NEW M \in SUBSET WithStatus("pending"), NEW st \in {"cancelled", "failed"},
           queue' = [i \in Ids |->
                IF i \in M THEN [queue[i] EXCEPT !.st = st] ELSE queue[i]]
    PROVE  RowsKept
<1>1. \A i \in Ids : queue[i] \in Row
    BY IdsAreNumbers DEF IInv
<1>2. queue' \in [Ids -> Row]
    BY <1>1, RowEdits DEF RowStatus
<1>3. ASSUME NEW i \in Ids
      PROVE  /\ queue'[i].copies = queue[i].copies
             /\ i \notin M => queue'[i] = queue[i]
             /\ i \in M => queue[i].st = "pending" /\ queue'[i].st = st
    BY <1>1 DEF Row, WithStatus
<1>4. \A i \in Ids : queue[i].st = "pending" => queue[i].att < MaxAttempts
    BY DEF IInv, OpenHasAttempt, Ids
<1> QED
    BY <1>2, <1>3, <1>4, RowwiseKeeps DEF IInv

\* Rows in M, pending, change hands.
LEMMA HandoverKeeps ==
    ASSUME IInv, NEW M \in SUBSET WithStatus("pending"), NEW recv \in [M -> Senders],
           queue' = [i \in Ids |->
                IF i \in M THEN [queue[i] EXCEPT !.s = recv[i]] ELSE queue[i]]
    PROVE  RowsKept /\ CcaFollows(M, recv)
                           \in [Campaigns -> [Contacts -> Senders \cup {NoSender}]]
<1>1. \A i \in Ids : queue[i] \in Row
    BY IdsAreNumbers DEF IInv
<1>2. queue' \in [Ids -> Row]
    BY <1>1, RowEdits
<1>3. ASSUME NEW i \in Ids
      PROVE  /\ queue'[i].copies = queue[i].copies
             /\ i \notin M => queue'[i] = queue[i]
             /\ i \in M => queue[i].st = "pending"
             /\ queue'[i].st = queue[i].st /\ queue'[i].att = queue[i].att
    BY <1>1 DEF Row, WithStatus
<1>4. \A i \in Ids : queue[i].st = "pending" => queue[i].att < MaxAttempts
    BY DEF IInv, OpenHasAttempt, Ids
<1>5. RowsKept
    BY <1>2, <1>3, <1>4, RowwiseKeeps DEF IInv
<1>6. M \in SUBSET Ids
    BY DEF WithStatus
<1> QED
    BY <1>5, <1>6, CcaFollowsType DEF IInv

\* Once an account is clear, pending rows change hands.
LEMMA PullBackHandsOver ==
    ASSUME NEW s \in Senders, NEW read, PullBack(s, read)
    PROVE  \E M \in SUBSET WithStatus("pending") : \E recv \in [M -> Senders] :
              /\ queue' = [i \in Ids |->
                    IF i \in M THEN [queue[i] EXCEPT !.s = recv[i]] ELSE queue[i]]
              /\ cca' = CcaFollows(M, recv)
<1> DEFINE pool(c) == Pool[c] \cap read
           mine == {c \in Campaigns : s \in pool(c)}
           stranded == {i \in Ids : queue[i].c \in mine /\ Cold(i)
                                    /\ queue[i].s \notin pool(queue[i].c)}
           movable == {i \in Ids : queue[i].c \in mine /\ Movable(i)
                                   /\ queue[i].s \in pool(queue[i].c) \ {s}}
<1>1. PICK extra \in SUBSET movable : \E recv \in [stranded \cup extra -> Senders] :
          /\ queue' = [i \in Ids |-> IF i \in stranded \cup extra
                                     THEN [queue[i] EXCEPT !.s = recv[i]] ELSE queue[i]]
          /\ cca' = CcaFollows(stranded \cup extra, recv)
    BY DEF PullBack
<1>2. stranded \cup extra \in SUBSET WithStatus("pending")
    BY DEF Cold, Movable, WithStatus
<1> QED
    BY <1>1, <1>2

LEMMA PullBackKeeps ==
    ASSUME IInv, NEW s \in Senders, NEW read, PullBack(s, read)
    PROVE  RowsKept /\ cca' \in [Campaigns -> [Contacts -> Senders \cup {NoSender}]]
BY PullBackHandsOver, HandoverKeeps

\* No handler outside the two workers touches a row in flight or a delivered one.
LEMMA ApiKeeps ==
    ASSUME IInv, ApiNext, txn' \in [Movers -> Txn]
    PROVE  IInv' /\ RowsKept
<1> USE TypedTables DEF TablesTyped
<1>1. ASSUME NEW c \in Campaigns, Start(c) \/ Pause(c)
      PROVE  IInv' /\ RowsKept
    BY <1>1, SameQueueKeeps, HandlerKeeps DEF Start, Pause
<1>2. ASSUME NEW c \in Campaigns, Finish(c)
      PROVE  IInv' /\ RowsKept
  <2>1. RowsKept
    <3> DEFINE M == {i \in Ids : queue[i].c = c /\ queue[i].st = "pending"}
    <3>1. M \in SUBSET WithStatus("pending")
        BY DEF WithStatus
    <3>2. queue' = [i \in Ids |->
              IF i \in M THEN [queue[i] EXCEPT !.st = "cancelled"] ELSE queue[i]]
        BY <1>2 DEF Finish
    <3> QED
        BY <3>1, <3>2, ClosingKeeps
  <2> QED
      BY <1>2, <2>1, HandlerKeeps DEF Finish
<1>3. ASSUME NEW c \in Campaigns, RequeueFailed(c)
      PROVE  IInv' /\ RowsKept
  <2>1. \A i \in Ids : queue[i] \in Row
      BY IdsAreNumbers DEF IInv
  <2>2. \A i \in Requeued(c) : queue[i].st = "failed"
      BY DEF Requeued, WithStatus
  <2>3. queue' \in [Ids -> Row]
      BY <1>3, <2>1, RowEdits DEF RequeueFailed, RowStatus
  <2>4. ASSUME NEW i \in Ids
        PROVE  /\ queue'[i].copies = queue[i].copies
               /\ i \notin Requeued(c) => queue'[i] = queue[i]
               /\ i \in Requeued(c) => queue'[i].st = "pending" /\ queue'[i].att = 0
      BY <1>3, <2>1 DEF RequeueFailed, Row
  <2>5. 0 < MaxAttempts
      BY BoundAssumption
  <2>6. \A i \in Ids : queue[i].st = "pending" => queue[i].att < MaxAttempts
      BY DEF IInv, OpenHasAttempt, Ids
  <2>7. RowsKept
      BY <2>2, <2>3, <2>4, <2>5, <2>6, RowwiseKeeps DEF IInv
  <2>8. spent' \in [Events -> Nat] /\ Faults' = Faults
      BY <1>3, SpendCounts DEF RequeueFailed, Events, IInv
  <2> QED
      BY <1>3, <2>7, <2>8, HandlerKeeps DEF RequeueFailed
<1>4. ASSUME NEW s \in Senders, NEW p \in Contacts, Takeover(s, p)
      PROVE  IInv' /\ RowsKept
  <2>1. RowsKept
    <3> DEFINE M == {i \in Ids : queue[i].p = p /\ queue[i].st = "pending"}
    <3>1. M \in SUBSET WithStatus("pending")
        BY DEF WithStatus
    <3>2. queue' = [i \in Ids |->
              IF i \in M THEN [queue[i] EXCEPT !.st = "failed"] ELSE queue[i]]
        BY <1>4 DEF Takeover
    <3> QED
        BY <3>1, <3>2, ClosingKeeps
  <2>2. spent' \in [Events -> Nat] /\ Faults' = Faults
      BY <1>4, SpendCounts DEF Takeover, Events, IInv
  <2> QED
      BY <1>4, <2>1, <2>2, HandlerKeeps DEF Takeover
<1>5. ASSUME NEW s \in Senders, NEW p \in Contacts, EnableAi(s, p)
      PROVE  IInv' /\ RowsKept
    BY <1>5, SameQueueKeeps, HandlerKeeps DEF EnableAi
<1>6. ASSUME NEW s \in Senders, NEW p \in Contacts, NEW cs, Inbound(s, p, cs)
      PROVE  IInv' /\ RowsKept
  <2>1. RowsKept
    <3> DEFINE M == {i \in Ids : queue[i].s = s /\ queue[i].p = p /\ queue[i].c \in cs
                                 /\ queue[i].st = "pending"}
    <3>1. M \in SUBSET WithStatus("pending")
        BY DEF WithStatus
    <3>2. queue' = [i \in Ids |->
              IF i \in M THEN [queue[i] EXCEPT !.st = "cancelled"] ELSE queue[i]]
        BY <1>6 DEF Inbound
    <3> QED
        BY <3>1, <3>2, ClosingKeeps
  <2>2. spent' \in [Events -> Nat] /\ Faults' = Faults
      BY <1>6, SpendCounts DEF Inbound, Events, IInv
  <2> QED
      BY <1>6, <2>1, <2>2, HandlerKeeps DEF Inbound
<1>7. ASSUME NEW s \in Senders, NEW status \in {"spam_limited", "frozen"},
             AntispamSignal(s, status)
      PROVE  IInv' /\ RowsKept
  <2>1. RowsKept /\ cca' \in [Campaigns -> [Contacts -> Senders \cup {NoSender}]]
      BY <1>7, FailoverKeeps DEF AntispamSignal
  <2> QED
      BY <1>7, <2>1, HandlerKeeps DEF AntispamSignal
<1>8. ASSUME NEW s \in Senders, Clear(s)
      PROVE  IInv' /\ RowsKept
  <2>1. RowsKept /\ cca' \in [Campaigns -> [Contacts -> Senders \cup {NoSender}]]
      BY <1>8, PullBackKeeps DEF Clear
  <2> QED
      BY <1>8, <2>1, HandlerKeeps DEF Clear
<1>9. ASSUME NEW s \in Senders, Escalate(s)
      PROVE  IInv' /\ RowsKept
    BY <1>9, SameQueueKeeps, HandlerKeeps DEF Escalate
<1>10. ASSUME NEW s \in Senders, GoOffline(s)
       PROVE  IInv' /\ RowsKept
  <2>1. spent' \in [Events -> Nat] /\ Faults' = Faults
      BY <1>10, SpendCounts DEF GoOffline, Events, IInv
  <2> QED
      BY <1>10, <2>1, SameQueueKeeps, HandlerKeeps DEF GoOffline
<1>11. ASSUME NEW s \in Senders, GoOnline(s)
       PROVE  IInv' /\ RowsKept
    BY <1>11, SameQueueKeeps, HandlerKeeps DEF GoOnline
<1>12. ASSUME NEW s \in Senders, SignalReads(s)
       PROVE  IInv' /\ RowsKept
  <2>1. spent' \in [Events -> Nat] /\ Faults' = Faults
      BY <1>12, SpendCounts DEF SignalReads, Events, IInv
  <2> QED
      BY <1>12, <2>1, SameQueueKeeps, HandlerKeeps DEF SignalReads
<1>13. ASSUME NEW s \in Senders, ClearReads(s)
       PROVE  IInv' /\ RowsKept
    BY <1>13, SameQueueKeeps, HandlerKeeps DEF ClearReads
<1> QED
    BY <1>1, <1>2, <1>3, <1>4, <1>5, <1>6, <1>7, <1>8, <1>9, <1>10, <1>11, <1>12, <1>13
       DEF ApiNext

-----------------------------------------------------------------------------
(* The enqueue worker.                                                      *)

LEMMA EvenSplitKeeps ==
    ASSUME IInv, NEW c \in Campaigns, EvenSplit(c)
    PROVE  RowsKept /\ cca' \in [Campaigns -> [Contacts -> Senders \cup {NoSender}]]
<1> DEFINE pool == Pool[c] \cap txn["enqueue"].pool
           movable == {i \in Ids : queue[i].c = c /\ Movable(i) /\ queue[i].s \in pool}
<1>1. PICK M \in SUBSET movable : \E recv \in [M -> pool] :
          /\ queue' = [i \in Ids |->
                IF i \in M THEN [queue[i] EXCEPT !.s = recv[i]] ELSE queue[i]]
          /\ cca' = CcaFollows(M, recv)
    BY DEF EvenSplit
<1>2. M \in SUBSET WithStatus("pending")
    BY DEF Movable, Cold, WithStatus
<1>3. pool \subseteq Senders
    BY PoolAssumption
<1> HIDE DEF pool
<1>4. PICK recv \in [M -> Senders] :
          /\ queue' = [i \in Ids |->
                IF i \in M THEN [queue[i] EXCEPT !.s = recv[i]] ELSE queue[i]]
          /\ cca' = CcaFollows(M, recv)
    BY <1>1, <1>3
<1> QED
    BY <1>2, <1>4, HandoverKeeps

\* A batch that grows by a fresh row, or by none.
LEMMA StagingKeeps ==
    ASSUME IInv, UNCHANGED <<campaign, restriction, online, queue, cca, conv, worker, spent, late>>,
           enq' \in Batch, BatchIsFresh', txn' \in [Movers -> Txn]
    PROVE  IInv' /\ RowsKept
<1>1. RowsKept
    BY SameQueueKeeps
<1>2. TypeOK'
    BY <1>1 DEF IInv, TypeOK, RowsKept
<1>3. Faults \in Nat /\ Faults' = Faults
    BY TypedTables
<1>4. \A n \in Nat : n <= n
    OBVIOUS
<1>5. Faults' \in Nat /\ Faults <= Faults'
    BY <1>3, <1>4
<1> QED
    BY <1>1, <1>2, <1>3, <1>5, BystanderKeeps

\* The commit appends the rows of the batch.
LEMMA CommitBatchKeeps ==
    ASSUME IInv, CommitBatch, txn' \in [Movers -> Txn]
    PROVE  IInv' /\ RowsKept
<1>1. queue \in Seq(Row) /\ enq.rows \in Seq(Row) /\ queue' = queue \o enq.rows
    BY DEF IInv, TypeOK, Batch, CommitBatch
<1>2. /\ queue' \in Seq(Row)
      /\ Ids \subseteq DOMAIN queue'
      /\ \A i \in Ids : queue'[i] = queue[i]
      /\ \A i \in DOMAIN queue' \ Ids : \E k \in DOMAIN enq.rows : queue'[i] = enq.rows[k]
  <2>1. queue' \in Seq(Row) /\ Len(queue') = Len(queue) + Len(enq.rows)
      BY <1>1
  <2>2. ASSUME NEW i \in DOMAIN queue', i \notin Ids
        PROVE  \E k \in DOMAIN enq.rows : queue'[i] = enq.rows[k]
    <3>1. i - Len(queue) \in DOMAIN enq.rows /\ queue'[i] = enq.rows[i - Len(queue)]
        BY <1>1, <2>1, <2>2 DEF Ids
    <3> QED
        BY <3>1
  <2>3. Ids \subseteq DOMAIN queue'
      BY <1>1, <2>1 DEF Ids
  <2>4. ASSUME NEW i \in Ids
        PROVE  queue'[i] = queue[i]
      BY <1>1, <2>4 DEF Ids
  <2> QED
      BY <2>1, <2>2, <2>3, <2>4
<1>3. RowsKept
  <2>1. \A i \in Ids : queue[i].st \in {"pending", "processing"} => queue[i].att < MaxAttempts
      BY DEF IInv, OpenHasAttempt, Ids
  <2>2. \A i \in DOMAIN queue' \ Ids : queue'[i].copies = 0 /\ queue'[i].att = 0
      BY <1>2 DEF IInv, BatchIsFresh
  <2>3. 0 < MaxAttempts
      BY BoundAssumption
  <2>4. OpenHasAttempt(queue')
      BY <1>2, <2>1, <2>2, <2>3 DEF OpenHasAttempt
  <2> QED
      BY <1>2, <2>2, <2>4 DEF RowsKept
<1>4. cca' \in [Campaigns -> [Contacts -> Senders \cup {NoSender}]]
  <2>1. cca \in [Campaigns -> [Contacts -> Senders \cup {NoSender}]]
      BY DEF IInv, TypeOK
  <2>2. Assigned(enq.cca) \in [Campaigns -> [Contacts -> Senders \cup {NoSender}]]
    <3> DEFINE chosen(p) ==
              IF cca[enq.c][p] = NoSender /\ \E s \in Senders : <<p, s>> \in enq.cca
              THEN CHOOSE s \in Senders : <<p, s>> \in enq.cca
              ELSE cca[enq.c][p]
    <3>1. enq.c \in Campaigns
        BY DEF IInv, TypeOK, Batch, CommitBatch, Between
    <3>2. \A p \in Contacts : chosen(p) \in Senders \cup {NoSender}
        BY <2>1, <3>1
    <3>3. Assigned(enq.cca) = [cca EXCEPT ![enq.c] = [p \in Contacts |-> chosen(p)]]
        BY <2>1, <3>1 DEF Assigned
    <3> HIDE DEF chosen
    <3> QED
        BY <2>1, <3>1, <3>2, <3>3
  <2> QED
      BY <2>2 DEF CommitBatch
<1>5. BatchIsFresh' /\ enq' \in Batch
    BY DEF CommitBatch, BatchIsFresh, NoBatch, Batch
<1>6. TypeOK'
    BY <1>3, <1>4, <1>5 DEF IInv, TypeOK, RowsKept, CommitBatch
<1>7. Faults \in Nat /\ Faults' = Faults
    BY TypedTables DEF CommitBatch
<1>8. \A n \in Nat : n <= n
    OBVIOUS
<1>9. Faults' \in Nat /\ Faults <= Faults'
    BY <1>7, <1>8
<1> QED
    BY <1>3, <1>5, <1>6, <1>7, <1>9, BystanderKeeps DEF CommitBatch

LEMMA EnqueueKeeps ==
    ASSUME IInv, EnqueueNext, txn' \in [Movers -> Txn]
    PROVE  IInv' /\ RowsKept
<1>1. ASSUME NEW s \in Senders, Sweep(s)
      PROVE  IInv' /\ RowsKept
  <2>1. RowsKept /\ cca' \in [Campaigns -> [Contacts -> Senders \cup {NoSender}]]
      BY <1>1, FailoverKeeps DEF Sweep
  <2> QED
      BY <1>1, <2>1, TypedTables, HandlerKeeps DEF Sweep, TablesTyped
<1>2. ASSUME NEW c \in Campaigns, EvenSplit(c)
      PROVE  IInv' /\ RowsKept
  <2>1. RowsKept /\ cca' \in [Campaigns -> [Contacts -> Senders \cup {NoSender}]]
      BY <1>2, EvenSplitKeeps
  <2> QED
      BY <1>2, <2>1, TypedTables, HandlerKeeps DEF EvenSplit, TablesTyped
<1>3. ASSUME NEW c \in Campaigns, Autopause(c)
      PROVE  IInv' /\ RowsKept
    BY <1>3, SameQueueKeeps, TypedTables, HandlerKeeps DEF Autopause, TablesTyped
<1>4. ASSUME NEW c \in Campaigns, NEW todo \in SUBSET Contacts, OpenBatch(c, todo)
      PROVE  IInv' /\ RowsKept
  <2>1. enq' \in Batch /\ BatchIsFresh'
      BY <1>4 DEF OpenBatch, Batch, BatchIsFresh
  <2> QED
      BY <1>4, <2>1, StagingKeeps DEF OpenBatch
<1>5. ASSUME NEW p \in Contacts, NEW s \in Senders, StageContact(p, s)
      PROVE  IInv' /\ RowsKept
  <2>1. enq \in Batch /\ enq.c \in Campaigns
      BY <1>5 DEF IInv, TypeOK, StageContact, Between, Batch
  <2> DEFINE row == NewRow(enq.c, p, s)
  <2>2. row \in Row /\ row.att = 0 /\ row.copies = 0
      BY <2>1, BoundAssumption DEF NewRow, Row, RowStatus
  <2> DEFINE rows == IF campaign[enq.c] = "running" THEN Append(enq.rows, row) ELSE enq.rows
  <2>a. enq' = [c |-> enq.c, todo |-> enq.todo \ {p},
                cca |-> enq.cca \cup {<<p, s>>}, rows |-> rows]
      BY <1>5, <2>1 DEF StageContact, Batch
  <2>3. enq'.rows = rows /\ (rows = enq.rows \/ rows = Append(enq.rows, row))
      BY <2>a
  <2> HIDE DEF row, rows
  <2>4. rows \in Seq(Row) /\ enq.rows \in Seq(Row)
      BY <2>1, <2>2, <2>3 DEF Batch
  <2>5. enq' \in Batch
    <3>2. enq.todo \ {p} \in SUBSET Contacts
        BY <2>1 DEF Batch
    <3>3. enq.cca \cup {<<p, s>>} \in SUBSET (Contacts \X Senders)
        BY <2>1 DEF Batch
    <3> QED
        BY <2>1, <2>a, <2>4, <3>2, <3>3 DEF Batch
  <2>6. BatchIsFresh'
    <3>1. \A k \in DOMAIN enq.rows : enq.rows[k].att = 0 /\ enq.rows[k].copies = 0
        BY DEF IInv, BatchIsFresh
    <3>2. ASSUME NEW k \in DOMAIN rows
          PROVE  rows[k].att = 0 /\ rows[k].copies = 0
      <4>1. rows[k] = row \/ (k \in DOMAIN enq.rows /\ rows[k] = enq.rows[k])
          BY <2>2, <2>3, <2>4, <3>2
      <4> QED
          BY <2>2, <3>1, <4>1
    <3> QED
        BY <2>3, <3>2 DEF BatchIsFresh
  <2> QED
      BY <1>5, <2>5, <2>6, StagingKeeps DEF StageContact
<1>6. ASSUME NEW p \in Contacts, SkipContact(p)
      PROVE  IInv' /\ RowsKept
  <2>1. enq' \in Batch /\ BatchIsFresh'
      BY <1>6 DEF IInv, TypeOK, SkipContact, Batch, BatchIsFresh
  <2> QED
      BY <1>6, <2>1, StagingKeeps DEF SkipContact
<1>7. ASSUME CommitBatch
      PROVE  IInv' /\ RowsKept
    BY <1>7, CommitBatchKeeps
<1>8. ASSUME \/ \E s \in Senders : SweepReads(s)
             \/ \E c \in Campaigns : EvenSplitReads(c)
      PROVE  IInv' /\ RowsKept
    BY <1>8, SameQueueKeeps, TypedTables, HandlerKeeps DEF SweepReads, EvenSplitReads, TablesTyped
<1> QED
    BY <1>1, <1>2, <1>3, <1>4, <1>5, <1>6, <1>7, <1>8 DEF EnqueueNext, EnqueueStep

-----------------------------------------------------------------------------
(* The queue worker.                                                        *)

\* What is known of the row it holds.
LEMMA HeldFacts ==
    ASSUME IInv, worker.pc \notin {"idle", "gated"}
    PROVE  /\ worker.id \in Ids /\ worker.s \in Senders
           /\ Held \in Row /\ Held.st = "processing" /\ Held.s = worker.s
           /\ Held.att < MaxAttempts
           /\ Held.copies <= Faults + 1
           /\ worker.pc # "acked" => Held.copies <= Faults
           /\ Faults \in Nat
<1>1. worker.id \in Ids /\ Held.st = "processing" /\ Held.s = worker.s
    BY DEF IInv, WorkerOwnsItsRow
<1>2. worker.s \in Senders
    BY DEF IInv, HolderHasSender
<1>3. Held \in Row
    BY <1>1, IdsAreNumbers DEF IInv, Held
<1>4. Held.att < MaxAttempts
    BY <1>1 DEF IInv, OpenHasAttempt, Held, Ids
<1>5. Held.copies <= Faults + 1 /\ (worker.pc # "acked" => Held.copies <= Faults)
    BY <1>1 DEF IInv, CopiesArePaid, Delivered, Held
<1> QED
    BY <1>1, <1>2, <1>3, <1>4, <1>5, TypedTables

\* The types of queue and worker after an outcome.
LEMMA OutcomeTypes ==
    ASSUME IInv, worker.pc \notin {"idle", "gated"}, NEW r \in Row,
           queue' = [queue EXCEPT ![worker.id] = r], worker' = IdleWorker,
           enq' = enq, late' \in Nat, TablesTyped'
    PROVE  TypeOK'
<1>1. queue' \in Seq(Row)
    BY HeldFacts DEF IInv, TypeOK, Ids
<1>2. worker' \in Worker
    BY DEF Worker, IdleWorker
<1> QED
    BY <1>1, <1>2 DEF IInv, TypeOK, TablesTyped

\* A failed attempt, of the held row or of it with the worker's stamps.
LEMMA FailItemKeeps ==
    ASSUME IInv, worker.pc \notin {"idle", "gated"}, NEW row \in Row,
           row.att = Held.att, FailItem(worker.id, row),
           worker' = IdleWorker, enq' = enq, late' \in Nat,
           UNCHANGED <<campaign, restriction, conv>>,
           online' \in [Senders -> BOOLEAN], spent' \in [Events -> Nat],
           Faults \in Nat, Faults' \in Nat, Faults <= Faults',
           row.copies <= Faults', row.copies <= Faults' + 1, txn' \in [Movers -> Txn]
    PROVE  IInv' /\ SentKept
<1> DEFINE r == AfterFailure(row)
<1>1. r \in Row /\ r.copies = row.copies
       /\ (r.st \in {"pending", "processing"} => r.att < MaxAttempts)
  <2> DEFINE st == IF row.att + 1 >= MaxAttempts THEN "failed" ELSE "pending"
             a == row.att + 1
  <2>1. a \in 0..MaxAttempts /\ st \in RowStatus
      BY HeldFacts, BoundAssumption DEF Row, RowStatus
  <2>2. st \in {"pending", "processing"} => a < MaxAttempts
      BY <2>1, BoundAssumption
  <2>3. r = [row EXCEPT !.att = a, !.st = st]
      BY DEF AfterFailure
  <2> HIDE DEF st, a, r
  <2>4. r \in Row
      BY <2>1, <2>3, RowEdits
  <2>5. r.copies = row.copies /\ r.st = st /\ r.att = a
      BY <2>3 DEF Row
  <2> QED
      BY <2>2, <2>4, <2>5
<1>2. queue' = [queue EXCEPT ![worker.id] = r]
    BY DEF FailItem
<1> HIDE DEF r
<1>3. cca' \in [Campaigns -> [Contacts -> Senders \cup {NoSender}]]
    BY DEF FailItem, IInv, TypeOK
<1>4. TablesTyped'
    BY <1>3, TypedTables DEF TablesTyped
<1>5. TypeOK'
    BY <1>1, <1>2, <1>4, OutcomeTypes
<1> QED
    BY <1>1, <1>2, <1>5, OutcomeKeeps

\* Rows kept, while the worker takes its row one position further (or lets go of
\* a sender it had only gated).
LEMMA MovingOnKeeps ==
    ASSUME IInv, RowsKept, TablesTyped', UNCHANGED <<enq, late>>, Faults' = Faults,
           worker' \in Worker, worker'.pc # "idle" => worker'.s \in Senders,
           \/ worker'.pc \in {"idle", "gated"} /\ worker.pc \in {"idle", "gated"}
           \/ /\ worker.pc \notin {"idle", "gated", "acked"} /\ worker'.pc # "acked"
              /\ worker'.id = worker.id /\ worker'.s = worker.s
    PROVE  IInv' /\ SentKept
<1>1. TypeOK'
    BY DEF IInv, TypeOK, TablesTyped, RowsKept
<1>2. HolderHasSender'
    BY DEF HolderHasSender
<1>3. WorkerOwnsItsRow'
  <2>1. CASE worker'.pc \in {"idle", "gated"}
      BY <2>1 DEF WorkerOwnsItsRow
  <2>2. CASE worker'.pc \notin {"idle", "gated"}
    <3>1. worker.id \in Ids /\ queue[worker.id].st = "processing"
              /\ queue[worker.id].s = worker.s
        BY <2>2, HeldFacts DEF Held
    <3>2. worker.id \in DOMAIN queue' /\ queue'[worker.id] = queue[worker.id]
        BY <3>1 DEF RowsKept
    <3> QED
        BY <2>2, <3>1, <3>2 DEF WorkerOwnsItsRow, Held, Ids
  <2> QED
      BY <2>1, <2>2
<1>4. OpenHasAttempt(queue)' /\ BatchIsFresh'
    BY DEF RowsKept, OpenHasAttempt, IInv, BatchIsFresh
<1>5. CopiesArePaid'
  <2> SUFFICES ASSUME NEW i \in DOMAIN queue'
               PROVE  /\ queue'[i].copies <= Faults + 1
                      /\ queue'[i].copies <= Faults \/ Delivered(i)'
      BY DEF CopiesArePaid, Ids
  <2>1. CASE i \in Ids
    <3>1. queue'[i].copies = queue[i].copies
        BY <2>1 DEF RowsKept
    <3>2. Delivered(i) => Delivered(i)'
      <4>1. queue[i].st = "sent" => queue'[i].st = "sent"
          BY <2>1 DEF RowsKept
      <4> QED
          BY <4>1 DEF Delivered
    <3> QED
        BY <2>1, <3>1, <3>2 DEF IInv, CopiesArePaid
  <2>2. CASE i \notin Ids
    <3>1. queue'[i].copies = 0
        BY <2>2 DEF RowsKept
    <3> QED
        BY <3>1, TypedTables
  <2> QED
      BY <2>1, <2>2
<1>6. SentKept
    BY DEF RowsKept, SentKept
<1> QED
    BY <1>1, <1>2, <1>3, <1>4, <1>5, <1>6 DEF IInv

\* Choosing a row.
LEMMA ChoosingKeeps ==
    ASSUME IInv, \/ \E s \in Senders : Gate(s)
                 \/ \E i \in Ids : Pick(i)
                 \/ PickNothing
                 \/ \E c \in Campaigns : PauseExpired(c),
           txn' \in [Movers -> Txn]
    PROVE  IInv' /\ SentKept
<1>1. ASSUME NEW s \in Senders, Gate(s)
      PROVE  IInv' /\ SentKept
  <2>1. worker' \in Worker /\ worker'.s = s /\ worker'.pc = "gated"
      BY <1>1 DEF Gate, Worker
  <2> QED
      BY <1>1, <2>1, SameQueueKeeps, TypedTables, MovingOnKeeps DEF Gate, TablesTyped
<1>2. ASSUME NEW i \in Ids, Pick(i)
      PROVE  IInv' /\ SentKept
  <2>1. queue \in Seq(Row) /\ queue[i] \in Row /\ queue[i].st = "pending"
            /\ queue[i].s = worker.s /\ worker.s \in Senders /\ i \in Nat
      BY <1>2, IdsAreNumbers DEF IInv, TypeOK, Pick, MayPick, HolderHasSender
  <2>2. queue' = [queue EXCEPT ![i].st = "processing"]
            /\ worker' = [pc |-> "picked", s |-> worker.s, id |-> i]
      BY <1>2 DEF Pick
  <2>3. queue'[i] \in Row /\ queue'[i] = [queue[i] EXCEPT !.st = "processing"]
            /\ DOMAIN queue' = Ids
      BY <2>1, <2>2, RowEdits DEF RowStatus, Ids
  <2>4. queue'[i].st = "processing" /\ queue'[i].s = worker.s
            /\ queue'[i].att = queue[i].att /\ queue'[i].copies = queue[i].copies
      BY <2>1, <2>3 DEF Row
  <2>5. \A j \in Ids : j # i => queue'[j] = queue[j]
      BY <2>1, <2>2 DEF Ids
  <2>6. queue' \in Seq(Row)
      BY <2>1, <2>2, <2>3 DEF Ids
  <2>7. TypeOK'
      BY <1>2, <2>1, <2>2, <2>6 DEF IInv, TypeOK, Pick, Worker
  <2>8. HolderHasSender' /\ WorkerOwnsItsRow' /\ BatchIsFresh'
      BY <1>2, <2>1, <2>2, <2>3, <2>4
         DEF HolderHasSender, WorkerOwnsItsRow, Held, Ids, IInv, BatchIsFresh, Pick
  <2>9. OpenHasAttempt(queue)'
      BY <2>1, <2>3, <2>4, <2>5 DEF IInv, OpenHasAttempt, Ids
  <2>10. Faults' = Faults
      BY <1>2, TypedTables DEF Pick
  <2>11. CopiesArePaid'
    <3> SUFFICES ASSUME NEW j \in Ids
                 PROVE  /\ queue'[j].copies <= Faults + 1
                        /\ queue'[j].copies <= Faults \/ Delivered(j)'
        BY <2>3, <2>10 DEF CopiesArePaid, Ids
    <3>1. queue'[j].copies = queue[j].copies
        BY <2>4, <2>5
    <3>2. Delivered(j) => Delivered(j)'
      <4>1. worker.pc # "acked"
          BY <1>2 DEF Pick
      <4>2. queue[j].st = "sent" => queue'[j].st = "sent"
          BY <2>1, <2>5
      <4> QED
          BY <4>1, <4>2 DEF Delivered
    <3> QED
        BY <3>1, <3>2 DEF IInv, CopiesArePaid
  <2>12. SentKept
      BY <2>1, <2>3, <2>5 DEF SentKept
  <2> QED
      BY <2>7, <2>8, <2>9, <2>11, <2>12 DEF IInv
<1>3. ASSUME PickNothing
      PROVE  IInv' /\ SentKept
  <2>1. worker' \in Worker /\ worker'.pc = "idle"
      BY <1>3 DEF PickNothing, Worker, IdleWorker
  <2> QED
      BY <1>3, <2>1, SameQueueKeeps, TypedTables, MovingOnKeeps DEF PickNothing, TablesTyped
<1>4. ASSUME NEW c \in Campaigns, PauseExpired(c)
      PROVE  IInv' /\ SentKept
  <2>1. worker' \in Worker /\ (worker'.pc # "idle" => worker'.s \in Senders)
      BY <1>4 DEF PauseExpired, IInv, TypeOK, HolderHasSender
  <2> QED
      BY <1>4, <2>1, SameQueueKeeps, TypedTables, MovingOnKeeps DEF PauseExpired, TablesTyped
<1> QED
    BY <1>1, <1>2, <1>3, <1>4

\* An outcome that only writes the row.
LEMMA PlainOutcomeKeeps ==
    ASSUME IInv, worker.pc \notin {"idle", "gated"}, NEW r \in Row,
           queue' = [queue EXCEPT ![worker.id] = r], worker' = IdleWorker,
           r.st \in {"pending", "processing"} => r.att < MaxAttempts,
           r.copies <= Faults + 1, r.copies <= Faults \/ r.st = "sent",
           TablesTyped', Faults' = Faults, UNCHANGED <<enq, late>>
    PROVE  IInv' /\ SentKept
<1>1. Faults \in Nat /\ late \in Nat
    BY TypedTables DEF IInv, TypeOK
<1>2. \A n \in Nat : n <= n
    OBVIOUS
<1>3. TypeOK'
    BY <1>1, OutcomeTypes
<1> QED
    BY <1>1, <1>2, <1>3, OutcomeKeeps

\* A failed attempt of the row as it is, or with a stamp, no fault involved.
LEMMA FailedAttemptKeeps ==
    ASSUME IInv, worker.pc \notin {"idle", "gated", "acked"}, NEW row \in Row,
           row.att = Held.att, row.copies = Held.copies, FailItem(worker.id, row),
           worker' = IdleWorker, UNCHANGED <<campaign, restriction, online, conv, enq, late>>,
           spent' \in [Events -> Nat], Faults' = Faults, txn' \in [Movers -> Txn]
    PROVE  IInv' /\ SentKept
<1>1. Faults \in Nat /\ late \in Nat /\ online \in [Senders -> BOOLEAN]
    BY TypedTables DEF IInv, TypeOK
<1>2. \A n \in Nat : n <= n
    OBVIOUS
<1>3. Held.copies <= Faults /\ Held.copies <= Faults + 1
    BY HeldFacts
<1> QED
    BY <1>1, <1>2, <1>3, FailItemKeeps

LEMMA StampedRow ==
    ASSUME NEW r \in Row, NEW s \in Senders
    PROVE  /\ Stamped(r, s) \in Row
           /\ Stamped(r, s).att = r.att /\ Stamped(r, s).copies = r.copies
<1>1. r.tried \cup {s} \in SUBSET Senders
    BY DEF Row
<1> QED
    BY <1>1 DEF Row, Stamped

\* Telegram takes the message: the one copy the row may have unpaid.
LEMMA DeliverKeeps ==
    ASSUME IInv, Deliver, txn' \in [Movers -> Txn]
    PROVE  IInv' /\ SentKept
<1> DEFINE r == [Held EXCEPT !.copies = @ + 1]
<1>1. worker.pc = "sending" /\ queue \in Seq(Row)
    BY DEF Deliver, IInv, TypeOK
<1>2. worker.id \in Ids /\ Held \in Row /\ Held.copies <= Faults /\ Held.st = "processing"
          /\ Held.s = worker.s /\ worker.s \in Senders /\ Held.att < MaxAttempts
          /\ Faults \in Nat
    BY <1>1, HeldFacts
<1>3. r \in Row /\ r.st = "processing" /\ r.s = worker.s /\ r.att = Held.att
          /\ r.copies <= Faults + 1
  <2>1. Held.copies + 1 \in Nat
      BY <1>2 DEF Row
  <2>2. r \in Row /\ r.copies = Held.copies + 1
      BY <1>2, <2>1 DEF Row
  <2> QED
      BY <1>2, <2>2 DEF Row
<1>4. queue' = [queue EXCEPT ![worker.id] = r] /\ worker' = [worker EXCEPT !.pc = "acked"]
    BY DEF Deliver, Held, Goto
<1> HIDE DEF r
<1>5. DOMAIN queue' = Ids /\ queue'[worker.id] = r
          /\ \A i \in Ids : i # worker.id => queue'[i] = queue[i]
    BY <1>1, <1>2, <1>4 DEF Ids
<1>6. worker' \in Worker /\ worker'.pc = "acked" /\ worker'.id = worker.id
          /\ worker'.s = worker.s
    BY <1>4 DEF IInv, TypeOK, Worker
<1>7. TypeOK'
  <2>1. queue' \in Seq(Row)
      BY <1>1, <1>2, <1>3, <1>4 DEF Ids
  <2>2. late' \in Nat
      BY DEF Deliver, IInv, TypeOK
  <2> QED
      BY <1>6, <2>1, <2>2 DEF Deliver, IInv, TypeOK
<1>8. HolderHasSender' /\ WorkerOwnsItsRow' /\ BatchIsFresh'
    BY <1>2, <1>3, <1>5, <1>6
       DEF HolderHasSender, WorkerOwnsItsRow, Held, Ids, Deliver, IInv, BatchIsFresh
<1>9. OpenHasAttempt(queue)'
    BY <1>2, <1>3, <1>5 DEF IInv, OpenHasAttempt, Ids
<1>10. Faults' = Faults
    BY TypedTables DEF Deliver
<1>11. CopiesArePaid'
  <2> SUFFICES ASSUME NEW i \in Ids
               PROVE  /\ queue'[i].copies <= Faults + 1
                      /\ queue'[i].copies <= Faults \/ Delivered(i)'
      BY <1>5, <1>10 DEF CopiesArePaid, Ids
  <2>1. CASE i = worker.id
      BY <2>1, <1>3, <1>5, <1>6 DEF Delivered
  <2>2. CASE i # worker.id
    <3>1. Delivered(i) => Delivered(i)'
        BY <2>2, <1>1, <1>5 DEF Delivered
    <3> QED
        BY <2>2, <3>1, <1>5 DEF IInv, CopiesArePaid
  <2> QED
      BY <2>1, <2>2
<1>12. SentKept
    BY <1>2, <1>5 DEF SentKept, Held
<1> QED
    BY <1>7, <1>8, <1>9, <1>11, <1>12 DEF IInv

\* The commit is lost: the copy is paid for by the fault.
LEMMA LoseCommitKeeps ==
    ASSUME IInv, LoseCommit, txn' \in [Movers -> Txn]
    PROVE  IInv' /\ SentKept
<1>1. worker.pc = "acked" /\ Spend("lost") /\ worker' = IdleWorker
          /\ UNCHANGED <<campaign, restriction, online, queue, cca, conv, enq, late>>
    BY DEF LoseCommit
<1>2. worker.id \in Ids /\ Held \in Row /\ Held.copies <= Faults + 1
          /\ Held.att < MaxAttempts /\ Faults \in Nat
    BY <1>1, HeldFacts
<1>3. spent' \in [Events -> Nat] /\ Faults' \in Nat /\ Faults' = Faults + 1
    BY <1>1, SpendCounts DEF Events, IInv
<1>4. queue' = [queue EXCEPT ![worker.id] = Held]
    BY <1>1, <1>2 DEF IInv, TypeOK, Held, Ids
<1>5. TablesTyped' /\ late' \in Nat
    BY <1>1, <1>3, TypedTables DEF TablesTyped, IInv, TypeOK
<1>6. TypeOK'
    BY <1>1, <1>2, <1>4, <1>5, OutcomeTypes
<1>7. \A n \in Nat, k \in Nat : k <= n + 1 => k <= n + 1 + 1 /\ n <= n + 1
    OBVIOUS
<1>8. Held.copies \in Nat
    BY <1>2 DEF Row
<1>9. Held.copies <= Faults' /\ Held.copies <= Faults' + 1 /\ Faults <= Faults'
    BY <1>2, <1>3, <1>7, <1>8
<1> QED
    BY <1>1, <1>2, <1>3, <1>4, <1>6, <1>9, OutcomeKeeps

\* The answer is lost: so is this one.
LEMMA LoseAnswerKeeps ==
    ASSUME IInv, LoseAnswer, txn' \in [Movers -> Txn]
    PROVE  IInv' /\ SentKept
<1> DEFINE row == [Held EXCEPT !.copies = @ + 1]
<1>1. worker.pc = "sending" /\ Spend("lost") /\ FailItem(worker.id, row)
          /\ worker' = IdleWorker /\ late' \in Nat
          /\ UNCHANGED <<campaign, restriction, online, conv, enq>>
    BY DEF LoseAnswer, IInv, TypeOK
<1>2. Held \in Row /\ Held.copies <= Faults /\ Held.copies \in Nat /\ Faults \in Nat
    BY <1>1, HeldFacts DEF Row
<1>3. spent' \in [Events -> Nat] /\ Faults' \in Nat /\ Faults' = Faults + 1
    BY <1>1, SpendCounts DEF Events, IInv
<1>4. row \in Row /\ row.att = Held.att /\ row.copies = Held.copies + 1
  <2>1. Held.copies + 1 \in Nat
      BY <1>2
  <2> QED
      BY <1>2, <2>1 DEF Row
<1> HIDE DEF row
<1>5. \A n \in Nat, k \in Nat : k <= n => k + 1 <= n + 1 /\ k + 1 <= n + 1 + 1 /\ n <= n + 1
    OBVIOUS
<1>6. row.copies <= Faults' /\ row.copies <= Faults' + 1 /\ Faults <= Faults'
    BY <1>2, <1>3, <1>4, <1>5
<1>7. online' \in [Senders -> BOOLEAN]
    BY <1>1 DEF IInv, TypeOK
<1> QED
    BY <1>1, <1>2, <1>3, <1>4, <1>6, <1>7, FailItemKeeps

\* The row rotates to another account.
LEMMA RerouteKeeps ==
    ASSUME IInv, Reroute, txn' \in [Movers -> Txn]
    PROVE  IInv' /\ SentKept
<1>1. PICK new \in RerouteTargets :
          /\ queue' = [queue EXCEPT ![worker.id] =
                [Held EXCEPT !.st = "pending", !.s = new, !.att = 0,
                             !.tried = @ \cup {worker.s}, !.mark = new]]
          /\ cca' = CcaFollows({worker.id}, [i \in {worker.id} |-> new])
    BY DEF Reroute
<1>2. worker.pc = "unresolved" /\ worker' = IdleWorker
          /\ UNCHANGED <<campaign, restriction, online, conv, enq, spent, late>>
    BY DEF Reroute
<1>3. worker.id \in Ids /\ worker.s \in Senders /\ Held \in Row /\ Held.copies <= Faults
          /\ Held.copies <= Faults + 1
    BY <1>2, HeldFacts
<1>4. new \in Senders
    BY <1>1, <1>3, PoolAssumption DEF RerouteTargets, Row
<1> DEFINE r == [Held EXCEPT !.st = "pending", !.s = new, !.att = 0,
                             !.tried = @ \cup {worker.s}, !.mark = new]
<1>5. r \in Row /\ r.att = 0 /\ r.copies = Held.copies
  <2>1. 0 \in 0..MaxAttempts
      BY BoundAssumption
  <2>2. Held.tried \cup {worker.s} \in SUBSET Senders
      BY <1>3 DEF Row
  <2> QED
      BY <1>3, <1>4, <2>1, <2>2 DEF Row, RowStatus
<1>6. queue' = [queue EXCEPT ![worker.id] = r]
    BY <1>1
<1>7. cca' \in [Campaigns -> [Contacts -> Senders \cup {NoSender}]]
  <2>1. {worker.id} \in SUBSET Ids
            /\ [i \in {worker.id} |-> new] \in [{worker.id} -> Senders]
      BY <1>3, <1>4
  <2> QED
      BY <1>1, <2>1, CcaFollowsType DEF IInv
<1>8. spent' \in [Events -> Nat] /\ Faults' = Faults
    BY <1>2, TypedTables DEF TablesTyped
<1>9. TablesTyped'
    BY <1>2, <1>7, <1>8, TypedTables DEF TablesTyped
<1>10. 0 < MaxAttempts
    BY BoundAssumption
<1> HIDE DEF r
<1> QED
    BY <1>2, <1>3, <1>5, <1>6, <1>8, <1>9, <1>10, PlainOutcomeKeeps

\* The suspect rollback reopens failed rows only.
LEMMA RollbackKeeps ==
    ASSUME IInv, RollbackSuspects
    PROVE  RowsKept /\ cca' \in [Campaigns -> [Contacts -> Senders \cup {NoSender}]]
<1>1. PICK M \in SUBSET WithStatus("failed") : \E recv \in [M -> Senders] :
          /\ queue' = [i \in Ids |-> IF i \in M
                  THEN [queue[i] EXCEPT !.st = "pending", !.s = recv[i],
                                        !.att = 0, !.reopens = @ + 1]
                  ELSE queue[i]]
          /\ cca' = CcaFollows(M, recv)
  <2>1. PICK recent \in SUBSET Suspects(worker.s) :
          LET M == {i \in recent : SuspectTargets(i, worker.s) # {}}
          IN  \E recv \in [M -> Senders] :
                /\ \A i \in M : recv[i] \in SuspectTargets(i, worker.s)
                /\ queue' = [i \in Ids |->
                        IF i \in M
                        THEN [queue[i] EXCEPT !.st = "pending", !.s = recv[i],
                                              !.att = 0, !.reopens = @ + 1]
                        ELSE queue[i]]
                /\ cca' = CcaFollows(M, recv)
      BY DEF RollbackSuspects
  <2>2. {i \in recent : SuspectTargets(i, worker.s) # {}} \in SUBSET WithStatus("failed")
      BY DEF Suspects
  <2> QED
      BY <2>1, <2>2
<1>2. PICK recv \in [M -> Senders] :
          /\ queue' = [i \in Ids |-> IF i \in M
                  THEN [queue[i] EXCEPT !.st = "pending", !.s = recv[i],
                                        !.att = 0, !.reopens = @ + 1]
                  ELSE queue[i]]
          /\ cca' = CcaFollows(M, recv)
    BY <1>1
<1>3. \A i \in Ids : queue[i] \in Row
    BY IdsAreNumbers DEF IInv
<1>4. queue' \in [Ids -> Row]
    BY <1>2, <1>3, RowEdits DEF RowStatus
<1>5. ASSUME NEW i \in Ids
      PROVE  /\ queue'[i].copies = queue[i].copies
             /\ i \notin M => queue'[i] = queue[i]
             /\ i \in M => /\ queue[i].st = "failed" /\ queue'[i].st = "pending"
                           /\ queue'[i].att = 0
    BY <1>2, <1>3 DEF Row, WithStatus
<1>6. \A i \in Ids : queue[i].st = "pending" => queue[i].att < MaxAttempts
    BY DEF IInv, OpenHasAttempt, Ids
<1>7. 0 < MaxAttempts
    BY BoundAssumption
<1>8. RowsKept
    BY <1>4, <1>5, <1>6, <1>7, RowwiseKeeps DEF IInv
<1>9. M \in SUBSET Ids
    BY DEF WithStatus
<1> QED
    BY <1>2, <1>8, <1>9, CcaFollowsType DEF IInv

\* Steps after which the worker holds nothing, and open rows changed status.
LEMMA LettingGoKeeps ==
    ASSUME IInv, queue' \in Seq(Row), DOMAIN queue' = Ids, worker' = IdleWorker,
           worker.pc # "acked" \/ Faults' = Faults + 1,
           \A i \in Ids :
              /\ queue'[i].copies = queue[i].copies /\ queue'[i].att = queue[i].att
              /\ queue[i].st = "sent" => queue'[i].st = "sent"
              /\ queue'[i].st \in {"pending", "processing"}
                    => queue[i].st \in {"pending", "processing"},
           enq' \in Batch, BatchIsFresh', TablesTyped', late' = late,
           Faults' \in Nat, Faults' = Faults \/ Faults' = Faults + 1
    PROVE  IInv' /\ SentKept
<1>1. TypeOK'
    BY DEF IInv, TypeOK, TablesTyped, Worker, IdleWorker
<1>2. HolderHasSender' /\ WorkerOwnsItsRow'
    BY DEF HolderHasSender, WorkerOwnsItsRow, IdleWorker
<1>3. OpenHasAttempt(queue)'
    BY DEF IInv, OpenHasAttempt, Ids
<1>4. CopiesArePaid'
  <2> SUFFICES ASSUME NEW i \in Ids
               PROVE  /\ queue'[i].copies <= Faults' + 1
                      /\ queue'[i].copies <= Faults' \/ Delivered(i)'
      BY DEF CopiesArePaid, Ids
  <2>1. queue'[i].copies = queue[i].copies /\ queue[i].copies \in Nat /\ Faults \in Nat
      BY IdsAreNumbers, TypedTables DEF IInv, Row
  <2>2. queue[i].copies <= Faults + 1
            /\ (queue[i].copies <= Faults \/ Delivered(i))
      BY DEF IInv, CopiesArePaid
  <2>3. CASE Faults' = Faults
    <3>1. Delivered(i) => Delivered(i)'
        BY <2>1, <2>3 DEF Delivered
    <3> QED
        BY <2>1, <2>2, <2>3, <3>1
  <2>4. CASE Faults' = Faults + 1
    <3>1. \A n \in Nat, k \in Nat : k <= n + 1 => k <= n + 1 + 1
        OBVIOUS
    <3> QED
        BY <2>1, <2>2, <2>4, <3>1
  <2> QED
      BY <2>3, <2>4
<1>5. SentKept
    BY DEF SentKept
<1> QED
    BY <1>1, <1>2, <1>3, <1>4, <1>5 DEF IInv

LEMMA FailAllKeeps ==
    ASSUME IInv, FailAllOfSender, txn' \in [Movers -> Txn]
    PROVE  IInv' /\ SentKept
<1>1. worker.pc = "authdead" /\ worker' = IdleWorker
          /\ UNCHANGED <<campaign, restriction, online, cca, conv, enq, spent, late>>
    BY DEF FailAllOfSender
<1> DEFINE M == {i \in Ids : queue[i].s = worker.s /\ queue[i].st \in {"pending", "processing"}}
<1>2. queue' = [i \in Ids |-> IF i \in M THEN [queue[i] EXCEPT !.st = "failed"] ELSE queue[i]]
    BY DEF FailAllOfSender
<1>3. \A i \in Ids : queue[i] \in Row
    BY IdsAreNumbers DEF IInv
<1>4. queue' \in Seq(Row) /\ DOMAIN queue' = Ids
  <2>1. queue' \in [Ids -> Row]
      BY <1>2, <1>3, RowEdits DEF RowStatus
  <2> QED
      BY <2>1, RowwiseUpdate DEF IInv, TypeOK, Ids
<1>5. ASSUME NEW i \in Ids
      PROVE  /\ queue'[i].copies = queue[i].copies /\ queue'[i].att = queue[i].att
             /\ queue[i].st = "sent" => queue'[i].st = "sent"
             /\ queue'[i].st \in {"pending", "processing"}
                   => queue[i].st \in {"pending", "processing"}
    BY <1>2, <1>3 DEF Row
<1>6. BatchIsFresh' /\ enq' \in Batch /\ TablesTyped' /\ Faults' = Faults /\ Faults \in Nat
    BY <1>1, TypedTables DEF IInv, TypeOK, BatchIsFresh, TablesTyped
<1> HIDE DEF M
<1> QED
    BY <1>1, <1>4, <1>5, <1>6, LettingGoKeeps

\* A crash pays for the copy the worker had not recorded.
LEMMA RestartKeeps ==
    ASSUME IInv, Restart, txn' \in [Movers -> Txn]
    PROVE  IInv' /\ SentKept
<1>1. Spend("crash") /\ worker' = IdleWorker /\ enq' = NoBatch
          /\ UNCHANGED <<campaign, restriction, online, cca, conv, late>>
    BY DEF Restart
<1>2. PICK old \in SUBSET WithStatus("processing") :
          queue' = [i \in Ids |->
              IF i \in old THEN [queue[i] EXCEPT !.st = "pending"] ELSE queue[i]]
    BY DEF Restart
<1>3. \A i \in Ids : queue[i] \in Row
    BY IdsAreNumbers DEF IInv
<1>4. queue' \in Seq(Row) /\ DOMAIN queue' = Ids
  <2>1. queue' \in [Ids -> Row]
      BY <1>2, <1>3, RowEdits DEF RowStatus
  <2> QED
      BY <2>1, RowwiseUpdate DEF IInv, TypeOK, Ids
<1>5. ASSUME NEW i \in Ids
      PROVE  /\ queue'[i].copies = queue[i].copies /\ queue'[i].att = queue[i].att
             /\ queue[i].st = "sent" => queue'[i].st = "sent"
             /\ queue'[i].st \in {"pending", "processing"}
                   => queue[i].st \in {"pending", "processing"}
    BY <1>2, <1>3 DEF Row, WithStatus
<1>6. spent' \in [Events -> Nat] /\ Faults' \in Nat /\ Faults' = Faults + 1
    BY <1>1, SpendCounts DEF Events, IInv
<1>7. BatchIsFresh' /\ enq' \in Batch
    BY <1>1 DEF BatchIsFresh, NoBatch, Batch
<1>8. TablesTyped'
    BY <1>1, <1>6, TypedTables DEF TablesTyped
<1> QED
    BY <1>1, <1>4, <1>5, <1>6, <1>7, <1>8, LettingGoKeeps

\* Guards and answers.
LEMMA SendStepKeeps ==
    ASSUME IInv, SendStep, txn' \in [Movers -> Txn]
    PROVE  IInv' /\ SentKept
<1>1. ASSUME RefuseOffline
      PROVE  IInv' /\ SentKept
  <2>1. worker.pc \notin {"idle", "gated", "acked"} /\ spent' \in [Events -> Nat] /\ Faults' = Faults
      BY <1>1, TypedTables DEF RefuseOffline, TablesTyped
  <2> QED
      BY <1>1, <2>1, HeldFacts, FailedAttemptKeeps DEF RefuseOffline
<1>2. ASSUME RefuseTakenOver
      PROVE  IInv' /\ SentKept
  <2> DEFINE r == [Held EXCEPT !.st = "failed"]
  <2>1. worker.pc \notin {"idle", "gated", "acked"} /\ Faults' = Faults /\ TablesTyped'
      BY <1>2, TypedTables DEF RefuseTakenOver, TablesTyped
  <2>2. r \in Row /\ r.st = "failed" /\ r.copies = Held.copies
    <3>1. Held \in Row
        BY <2>1, HeldFacts
    <3>2. r \in Row
        BY <3>1, RowEdits DEF RowStatus
    <3> QED
        BY <3>1, <3>2 DEF Row
  <2>3. queue' = [queue EXCEPT ![worker.id] = r]
      BY <1>2 DEF RefuseTakenOver, Held
  <2> HIDE DEF r
  <2> QED
      BY <1>2, <2>1, <2>2, <2>3, HeldFacts, PlainOutcomeKeeps DEF RefuseTakenOver
<1>3. ASSUME Proceed
      PROVE  IInv' /\ SentKept
  <2>1. worker' \in Worker /\ worker'.pc = "sending" /\ worker'.id = worker.id
            /\ worker'.s = worker.s /\ worker.pc = "picked"
      BY <1>3 DEF Proceed, Goto, IInv, TypeOK, Worker
  <2> QED
      BY <1>3, <2>1, HeldFacts, SameQueueKeeps, TypedTables, MovingOnKeeps
         DEF Proceed, TablesTyped
<1>4. ASSUME Deliver
      PROVE  IInv' /\ SentKept
    BY <1>4, DeliverKeeps
<1>5. ASSUME CommitSent
      PROVE  IInv' /\ SentKept
  <2> DEFINE r == [Held EXCEPT !.st = "sent"]
  <2>1. worker.pc = "acked"
      BY <1>5 DEF CommitSent
  <2>2. r \in Row /\ r.st = "sent" /\ r.copies = Held.copies
    <3>1. Held \in Row
        BY <2>1, HeldFacts
    <3>2. r \in Row
        BY <3>1, RowEdits DEF RowStatus
    <3> QED
        BY <3>1, <3>2 DEF Row
  <2>3. queue' = [queue EXCEPT ![worker.id] = r]
      BY <1>5 DEF CommitSent, Held
  <2>4. conv' \in [Senders -> [Contacts -> {"none", "ai", "manual"}]]
    <3>1. conv \in [Senders -> [Contacts -> {"none", "ai", "manual"}]]
        BY DEF IInv, TypeOK
    <3>2. worker.s \in Senders /\ Held.p \in Contacts
        BY <2>1, HeldFacts DEF Row
    <3> QED
        BY <1>5, <3>1, <3>2 DEF CommitSent, Upserted
  <2>5. TablesTyped' /\ Faults' = Faults
      BY <1>5, <2>4, TypedTables DEF CommitSent, TablesTyped
  <2> HIDE DEF r
  <2> QED
      BY <1>5, <2>1, <2>2, <2>3, <2>5, HeldFacts, PlainOutcomeKeeps DEF CommitSent
<1>6. ASSUME LoseCommit
      PROVE  IInv' /\ SentKept
    BY <1>6, LoseCommitKeeps
<1>7. ASSUME RejectSend
      PROVE  IInv' /\ SentKept
  <2>1. worker.pc \notin {"idle", "gated", "acked"} /\ spent' \in [Events -> Nat] /\ Faults' = Faults
      BY <1>7, TypedTables DEF RejectSend, TablesTyped
  <2> QED
      BY <1>7, <2>1, HeldFacts, FailedAttemptKeeps DEF RejectSend
<1>8. ASSUME LoseAnswer
      PROVE  IInv' /\ SentKept
    BY <1>8, LoseAnswerKeeps
<1>9. ASSUME FloodWait
      PROVE  IInv' /\ SentKept
  <2> DEFINE r == [Held EXCEPT !.st = "pending"]
  <2>1. worker.pc \notin {"idle", "gated", "acked"} /\ Faults' = Faults /\ TablesTyped'
      BY <1>9, TypedTables DEF FloodWait, TablesTyped
  <2>2. r \in Row /\ r.att = Held.att /\ r.copies = Held.copies
    <3>1. Held \in Row
        BY <2>1, HeldFacts
    <3>2. r \in Row
        BY <3>1, RowEdits DEF RowStatus
    <3> QED
        BY <3>1, <3>2 DEF Row
  <2>3. queue' = [queue EXCEPT ![worker.id] = r]
      BY <1>9 DEF FloodWait, Held
  <2> HIDE DEF r
  <2> QED
      BY <1>9, <2>1, <2>2, <2>3, HeldFacts, PlainOutcomeKeeps DEF FloodWait
<1>10. ASSUME PrivacyRestricted \/ \E fromCache \in BOOLEAN : NotRegistered(fromCache)
       PROVE  IInv' /\ SentKept
  <2>1. /\ worker.pc = "sending" /\ Spend("verdict")
        /\ FailItem(worker.id, Stamped(Held, worker.s)) /\ worker' = IdleWorker
        /\ UNCHANGED <<campaign, restriction, online, conv, enq, late>>
      BY <1>10 DEF PrivacyRestricted, NotRegistered
  <2>2. spent' \in [Events -> Nat] /\ Faults' = Faults
      BY <2>1, SpendCounts DEF Events, IInv
  <2>3. Held \in Row /\ worker.s \in Senders
      BY <2>1, HeldFacts
  <2> QED
      BY <2>1, <2>2, <2>3, StampedRow, FailedAttemptKeeps
<1>11. ASSUME Reroute
       PROVE  IInv' /\ SentKept
    BY <1>11, RerouteKeeps
<1>12. ASSUME NEW status \in {"spam_limited", "frozen"}, Restricted(status)
       PROVE  IInv' /\ SentKept
  <2>1. worker' \in Worker /\ worker'.pc = "flagged" /\ worker'.id = worker.id
            /\ worker'.s = worker.s /\ worker.pc = "sending"
      BY <1>12 DEF Restricted, Goto, IInv, TypeOK, Worker
  <2>2. spent' \in [Events -> Nat] /\ Faults' = Faults
      BY <1>12, SpendCounts DEF Restricted, Events, IInv
  <2> QED
      BY <1>12, <2>1, <2>2, HeldFacts, SameQueueKeeps, TypedTables, MovingOnKeeps
         DEF Restricted, TablesTyped
<1>13. ASSUME EvacuateFlagged
       PROVE  IInv' /\ SentKept
  <2>1. worker' \in Worker /\ worker'.pc = "evacuated" /\ worker'.id = worker.id
            /\ worker'.s = worker.s /\ worker.pc = "flagged"
      BY <1>13 DEF EvacuateFlagged, Goto, IInv, TypeOK, Worker
  <2>2. RowsKept /\ cca' \in [Campaigns -> [Contacts -> Senders \cup {NoSender}]]
      BY <1>13, <2>1, HeldFacts, FailoverKeeps DEF EvacuateFlagged
  <2> QED
      BY <1>13, <2>1, <2>2, HeldFacts, TypedTables, MovingOnKeeps
         DEF EvacuateFlagged, TablesTyped
<1>14. ASSUME RollbackSuspects
       PROVE  IInv' /\ SentKept
  <2>1. worker' \in Worker /\ worker'.pc = "failing" /\ worker'.id = worker.id
            /\ worker'.s = worker.s /\ worker.pc = "evacuated"
      BY <1>14 DEF RollbackSuspects, Goto, IInv, TypeOK, Worker
  <2>2. RowsKept /\ cca' \in [Campaigns -> [Contacts -> Senders \cup {NoSender}]]
      BY <1>14, RollbackKeeps
  <2> QED
      BY <1>14, <2>1, <2>2, HeldFacts, TypedTables, MovingOnKeeps
         DEF RollbackSuspects, TablesTyped
<1>15. ASSUME FailFlagged
       PROVE  IInv' /\ SentKept
  <2>1. worker.pc \notin {"idle", "gated", "acked"} /\ spent' \in [Events -> Nat] /\ Faults' = Faults
      BY <1>15, TypedTables DEF FailFlagged, TablesTyped
  <2> QED
      BY <1>15, <2>1, HeldFacts, FailedAttemptKeeps DEF FailFlagged
<1>16. ASSUME AuthError
       PROVE  IInv' /\ SentKept
  <2>1. worker' \in Worker /\ worker'.pc = "authdead" /\ worker'.id = worker.id
            /\ worker'.s = worker.s /\ worker.pc = "sending"
      BY <1>16 DEF AuthError, Goto, IInv, TypeOK, Worker
  <2>2. spent' \in [Events -> Nat] /\ Faults' = Faults
      BY <1>16, SpendCounts DEF AuthError, Events, IInv
  <2> QED
      BY <1>16, <2>1, <2>2, HeldFacts, SameQueueKeeps, TypedTables, MovingOnKeeps
         DEF AuthError, TablesTyped
<1>17. ASSUME FailAllOfSender
       PROVE  IInv' /\ SentKept
    BY <1>17, FailAllKeeps
<1>18. ASSUME NotResolved
       PROVE  IInv' /\ SentKept
  <2>1. worker' \in Worker /\ worker'.pc = "unresolved" /\ worker'.id = worker.id
            /\ worker'.s = worker.s /\ worker.pc = "sending"
      BY <1>18 DEF NotResolved, Goto, IInv, TypeOK, Worker
  <2>2. spent' \in [Events -> Nat] /\ Faults' = Faults
      BY <1>18, SpendCounts DEF NotResolved, Events, IInv
  <2> QED
      BY <1>18, <2>1, <2>2, HeldFacts, SameQueueKeeps, TypedTables, MovingOnKeeps
         DEF NotResolved, TablesTyped
<1>19. ASSUME RerouteNowhere
       PROVE  IInv' /\ SentKept
  <2>1. /\ worker.pc = "unresolved"
        /\ FailItem(worker.id, Stamped(Held, worker.s)) /\ worker' = IdleWorker
        /\ UNCHANGED <<campaign, restriction, online, conv, enq, spent, late>>
      BY <1>19 DEF RerouteNowhere
  <2>2. spent' \in [Events -> Nat] /\ Faults' = Faults
      BY <2>1, TypedTables DEF TablesTyped
  <2>3. Held \in Row /\ worker.s \in Senders
      BY <2>1, HeldFacts
  <2> QED
      BY <2>1, <2>2, <2>3, StampedRow, FailedAttemptKeeps
<1>20. ASSUME EvacuationReads \/ RollbackReads
       PROVE  IInv' /\ SentKept
  <2>1. worker' \in Worker /\ worker' = worker /\ worker.pc \in {"flagged", "evacuated"}
      BY <1>20 DEF EvacuationReads, RollbackReads, IInv, TypeOK
  <2> QED
      BY <1>20, <2>1, HeldFacts, SameQueueKeeps, TypedTables, MovingOnKeeps
         DEF EvacuationReads, RollbackReads, TablesTyped
<1> QED
    BY <1>1, <1>2, <1>3, <1>4, <1>5, <1>6, <1>7, <1>8, <1>9, <1>10, <1>11, <1>12,
       <1>13, <1>14, <1>15, <1>16, <1>17, <1>18, <1>19, <1>20 DEF SendStep

-----------------------------------------------------------------------------
(* The theorems.                                                            *)

LEMMA InitInvariant == Init => IInv
<1> SUFFICES ASSUME Init
             PROVE  IInv
    OBVIOUS
<1>1. IdleWorker \in Worker /\ NoBatch \in Batch
    BY DEF IdleWorker, Worker, NoBatch, Batch
<1>2. TypeOK
    BY <1>1 DEF Init, TypeOK, NoTxn, Txn
<1> QED
    BY <1>2 DEF Init, IInv, HolderHasSender, WorkerOwnsItsRow, OpenHasAttempt, BatchIsFresh,
                CopiesArePaid, IdleWorker, NoBatch, Ids

LEMMA StepInvariant == IInv /\ [Next]_vars => IInv' /\ SentKept
<1> SUFFICES ASSUME IInv, [Next]_vars
             PROVE  IInv' /\ SentKept
    OBVIOUS
<1>0. txn' \in [Movers -> Txn]
    BY StepTxn
<1>1. CASE WorkerNext
    BY <1>0, <1>1, ChoosingKeeps, SendStepKeeps, RestartKeeps DEF WorkerNext
<1>2. CASE EnqueueNext
    BY <1>0, <1>2, EnqueueKeeps DEF RowsKept, SentKept
<1>3. CASE ApiNext
    BY <1>0, <1>3, ApiKeeps DEF RowsKept, SentKept
<1>4. CASE UNCHANGED vars
  <2>1. IInv'
      BY <1>4 DEF vars, IInv, TypeOK, HolderHasSender, WorkerOwnsItsRow, Held, Ids,
                  OpenHasAttempt, BatchIsFresh, CopiesArePaid, Delivered, Faults
  <2>2. SentKept
      BY <1>4 DEF vars, SentKept, Ids
  <2> QED
      BY <2>1, <2>2
<1> QED
    BY <1>1, <1>2, <1>3, <1>4 DEF Next

\* The inductive invariant holds in every reachable state.
THEOREM Invariant == Spec => []IInv
<1> QED
    BY InitInvariant, StepInvariant, PTL DEF Spec

\* Every table keeps its type; an open row always has an attempt left.
THEOREM TypeCorrect == Spec => []TypeOK
<1>1. IInv => TypeOK
    BY DEF IInv
<1> QED
    BY <1>1, Invariant, PTL

\* The row in flight is the worker's alone, whatever endpoints, listener, enqueue
\* worker and recovery do (the blind UPDATE by id of queue.py:1668 is safe).
THEOREM RowInFlightIsOwned == Spec => []WorkerOwnsItsRow
<1>1. IInv => WorkerOwnsItsRow
    BY DEF IInv
<1> QED
    BY <1>1, Invariant, PTL

\* A row is delivered once, plus once for each crash or lost acknowledgement.
THEOREM NoUnpaidDuplicate == Spec => []DuplicateOnlyAfterFault
<1>1. IInv => DuplicateOnlyAfterFault
  <2> SUFFICES ASSUME IInv, NEW i \in Ids
               PROVE  queue[i].copies <= 1 + Faults
      BY DEF DuplicateOnlyAfterFault
  <2>1. queue[i].copies <= Faults + 1 /\ queue[i].copies \in Nat /\ Faults \in Nat
      BY IdsAreNumbers, TypedTables DEF IInv, CopiesArePaid, Row
  <2> QED
      BY <2>1
<1> QED
    BY <1>1, Invariant, PTL

\* A recorded delivery is never re-pended, failed, cancelled or removed.
THEOREM DeliveryIsFinal == Spec => SentIsFinal
<1>1. IInv /\ [Next]_vars => [SentKept]_vars
    BY StepInvariant
<1>2. SentKept => \A i \in Ids : queue[i].st = "sent" =>
                     i \in DOMAIN queue' /\ queue'[i].st = "sent"
    BY DEF SentKept
<1> QED
    BY <1>1, <1>2, Invariant, PTL DEF Spec, SentIsFinal, SentKept

-----------------------------------------------------------------------------
\* No row changes its sender.
SendersStay == \A i \in Ids : i \in DOMAIN queue' => queue'[i].s = queue[i].s

\* Those that do get one of the pool that can send, unless it lapsed meanwhile.
MovesWell ==
    \A i \in Ids :
        i \in DOMAIN queue' /\ queue'[i].s # queue[i].s =>
            /\ queue'[i].s \in Pool[queue[i].c]
            /\ \/ online'[queue'[i].s] /\ restriction'[queue'[i].s] = "none"
               \/ \E m \in Movers : txn'[m] # txn[m] /\ queue'[i].s \in txn[m].lapsed

\* Every row that changes hands goes to an account mover m had read in its pool.
MovedTo(m) ==
    \A i \in Ids :
        i \in DOMAIN queue' /\ queue'[i].s # queue[i].s =>
            queue'[i].s \in Pool[queue[i].c] \cap txn[m].pool

LEMMA StayingIsWell == SendersStay => MovesWell
BY DEF SendersStay, MovesWell

\* What is the same for every row edited in place.
LEMMA EditStays ==
    ASSUME TypeOK, NEW r, queue' = [queue EXCEPT ![worker.id] = r], r.s = Held.s
    PROVE  SendersStay
BY DEF TypeOK, SendersStay, Held, Ids

LEMMA FailItemStays ==
    ASSUME TypeOK, NEW r \in Row, r.s = Held.s, FailItem(worker.id, r)
    PROVE  SendersStay
<1>1. AfterFailure(r).s = r.s
    BY DEF AfterFailure, Row
<1>. QED BY <1>1, EditStays DEF FailItem

LEMMA MovedToKnownIsWell ==
    ASSUME NEW m \in Movers, MovedTo(m), txn'[m] # txn[m],
           \A t \in txn[m].pool : Healthy(t)' \/ t \in txn[m].lapsed
    PROVE  MovesWell
BY DEF MovedTo, MovesWell, Healthy

\* A commit that touches no account.
LEMMA CommitMovesWell ==
    ASSUME TypeOK, PoolInv, NEW m \in Movers, NEW op, NEW x, Commits(m, op, x), MovedTo(m),
           op \notin {"none", "clear"}, UNCHANGED <<online, restriction>>
    PROVE  MovesWell
<1>1. txn[m].op = op /\ txn'[m].op = "none"
    BY CommitsTxn DEF Commits
<1>2. ASSUME NEW t \in txn[m].pool
      PROVE  Healthy(t)' \/ t \in txn[m].lapsed
  <2>1. Healthy(t)' <=> Healthy(t)
      BY DEF Healthy
  <2>. QED BY <1>1, <1>2, <2>1 DEF PoolInv, PoolsAreKnown
<1>. QED BY <1>1, <1>2, MovedToKnownIsWell

\* The receivers of a failover have been read.
LEMMA FailoverMovesTo ==
    ASSUME TypeOK, NEW s \in Senders, NEW m \in Movers, Failover(s, txn[m].pool)
    PROVE  MovedTo(m)
<1>1. PICK M \in SUBSET Ids : \E recv \in [M -> Senders] :
          /\ \A i \in M : queue[i].st = "pending"
          /\ \A i \in M : recv[i] \in Pool[queue[i].c] \cap txn[m].pool
          /\ queue' = [i \in Ids |->
                IF i \in M THEN [queue[i] EXCEPT !.s = recv[i], !.att = 0] ELSE queue[i]]
          /\ cca' = CcaFollows(M, recv)
    BY FailoverShape
<1>2. PICK recv \in [M -> Senders] :
          /\ \A i \in M : recv[i] \in Pool[queue[i].c] \cap txn[m].pool
          /\ queue' = [i \in Ids |->
                          IF i \in M THEN [queue[i] EXCEPT !.s = recv[i], !.att = 0]
                          ELSE queue[i]]
    BY <1>1
<1>3. ASSUME NEW i \in Ids, queue'[i].s # queue[i].s
      PROVE  queue'[i].s \in Pool[queue[i].c] \cap txn[m].pool
  <2>1. i \in M
      BY <1>2, <1>3
  <2>2. queue'[i].s = recv[i]
      BY <1>2, <2>1, IdsAreNumbers DEF Row
  <2>. QED BY <1>2, <2>1, <2>2
<1>. QED BY <1>3 DEF MovedTo

LEMMA EvenSplitMovesTo ==
    ASSUME TypeOK, NEW c \in Campaigns, EvenSplit(c)
    PROVE  MovedTo("enqueue")
<1>. DEFINE pool == Pool[c] \cap txn["enqueue"].pool
<1>1. PICK M \in SUBSET {i \in Ids : queue[i].c = c} : \E recv \in [M -> pool] :
          queue' = [i \in Ids |-> IF i \in M THEN [queue[i] EXCEPT !.s = recv[i]] ELSE queue[i]]
    BY DEF EvenSplit
<1>2. PICK recv \in [M -> pool] :
          queue' = [i \in Ids |-> IF i \in M THEN [queue[i] EXCEPT !.s = recv[i]] ELSE queue[i]]
    BY <1>1
<1>3. ASSUME NEW i \in Ids, queue'[i].s # queue[i].s
      PROVE  queue'[i].s \in Pool[queue[i].c] \cap txn["enqueue"].pool
  <2>1. i \in M /\ queue[i].c = c
      BY <1>2, <1>3
  <2>2. queue'[i].s = recv[i]
      BY <1>2, <2>1, IdsAreNumbers DEF Row
  <2>. QED BY <1>2, <2>1, <2>2
<1>. QED BY <1>3 DEF MovedTo

LEMMA ClearMovesTo ==
    ASSUME TypeOK, NEW s \in Senders, Clear(s)
    PROVE  MovedTo("listener")
<1>. DEFINE pool(c) == Pool[c] \cap txn["listener"].pool
<1>1. PICK M \in SUBSET Ids : \E recv \in [M -> Senders] :
          /\ \A i \in M : recv[i] \in pool(queue[i].c)
          /\ queue' = [i \in Ids |-> IF i \in M THEN [queue[i] EXCEPT !.s = recv[i]] ELSE queue[i]]
  <2>. DEFINE mine == {c \in Campaigns : s \in pool(c)}
              stranded == {i \in Ids : queue[i].c \in mine /\ Cold(i)
                                       /\ queue[i].s \notin pool(queue[i].c)}
              movable == {i \in Ids : queue[i].c \in mine /\ Movable(i)
                                      /\ queue[i].s \in pool(queue[i].c) \ {s}}
  <2>1. PICK extra \in SUBSET movable : \E recv \in [stranded \cup extra -> Senders] :
            /\ \A i \in stranded : recv[i] \in pool(queue[i].c)
            /\ \A i \in extra : recv[i] = s
            /\ queue' = [i \in Ids |-> IF i \in stranded \cup extra
                                       THEN [queue[i] EXCEPT !.s = recv[i]] ELSE queue[i]]
      BY DEF Clear, PullBack
  <2>2. \A i \in extra : s \in pool(queue[i].c)
      BY <2>1
  <2>3. stranded \cup extra \in SUBSET Ids
      BY <2>1
  <2>4. PICK recv \in [stranded \cup extra -> Senders] :
            /\ \A i \in stranded : recv[i] \in pool(queue[i].c)
            /\ \A i \in extra : recv[i] = s
            /\ queue' = [i \in Ids |-> IF i \in stranded \cup extra
                                       THEN [queue[i] EXCEPT !.s = recv[i]] ELSE queue[i]]
      BY <2>1
  <2>5. \A i \in stranded \cup extra : recv[i] \in pool(queue[i].c)
      BY <2>2, <2>4
  <2>. HIDE DEF pool, stranded, movable
  <2>. WITNESS stranded \cup extra \in SUBSET Ids
  <2>. QED BY <2>4, <2>5
<1>2. PICK recv \in [M -> Senders] :
          /\ \A i \in M : recv[i] \in pool(queue[i].c)
          /\ queue' = [i \in Ids |-> IF i \in M THEN [queue[i] EXCEPT !.s = recv[i]] ELSE queue[i]]
    BY <1>1
<1>3. ASSUME NEW i \in Ids, queue'[i].s # queue[i].s
      PROVE  queue'[i].s \in Pool[queue[i].c] \cap txn["listener"].pool
  <2>1. i \in M
      BY <1>2, <1>3
  <2>2. queue'[i].s = recv[i]
      BY <1>2, <2>1, IdsAreNumbers DEF Row
  <2>. QED BY <1>2, <2>1, <2>2
<1>. QED BY <1>3 DEF MovedTo

LEMMA RollbackMovesTo ==
    ASSUME TypeOK, RollbackSuspects
    PROVE  MovedTo("worker")
<1>1. PICK M \in SUBSET Ids : \E recv \in [M -> Senders] :
          /\ \A i \in M : recv[i] \in SuspectTargets(i, worker.s)
          /\ queue' = [i \in Ids |->
                  IF i \in M
                  THEN [queue[i] EXCEPT !.st = "pending", !.s = recv[i],
                                        !.att = 0, !.reopens = @ + 1]
                  ELSE queue[i]]
    BY DEF RollbackSuspects, Suspects, WithStatus
<1>2. PICK recv \in [M -> Senders] :
          /\ \A i \in M : recv[i] \in SuspectTargets(i, worker.s)
          /\ queue' = [i \in Ids |->
                  IF i \in M
                  THEN [queue[i] EXCEPT !.st = "pending", !.s = recv[i],
                                        !.att = 0, !.reopens = @ + 1]
                  ELSE queue[i]]
    BY <1>1
<1>3. ASSUME NEW i \in Ids, queue'[i].s # queue[i].s
      PROVE  queue'[i].s \in Pool[queue[i].c] \cap txn["worker"].pool
  <2>1. i \in M
      BY <1>2, <1>3
  <2>2. queue'[i].s = recv[i]
      BY <1>2, <2>1, IdsAreNumbers DEF Row
  <2>. QED BY <1>2, <2>1, <2>2 DEF SuspectTargets
<1>. QED BY <1>3 DEF MovedTo

LEMMA RerouteMovesTo ==
    ASSUME IInv, Reroute
    PROVE  MovedTo("worker")
<1>0. TypeOK /\ worker.id \in Ids
    BY DEF IInv, WorkerOwnsItsRow, Reroute
<1>1. PICK new \in RerouteTargets :
          queue' = [queue EXCEPT ![worker.id] =
                [Held EXCEPT !.st = "pending", !.s = new, !.att = 0,
                             !.tried = @ \cup {worker.s}, !.mark = new]]
    BY DEF Reroute
<1>2. new \in Pool[Held.c] \cap txn["worker"].pool
    BY <1>1 DEF RerouteTargets
<1>3. queue'[worker.id].s = new /\ \A i \in Ids \ {worker.id} : queue'[i] = queue[i]
    BY <1>0, <1>1, IdsAreNumbers DEF TypeOK, Ids, Held, Row
<1>. QED BY <1>0, <1>2, <1>3 DEF MovedTo, Held

LEMMA StepMovesWell == IInv /\ PoolInv /\ [Next]_vars => MovesWell
<1>. SUFFICES ASSUME IInv, PoolInv, [Next]_vars PROVE MovesWell
    OBVIOUS
<1>0. TypeOK /\ queue \in Seq(Row) /\ Movers = {"worker", "enqueue", "listener"}
    BY DEF IInv, TypeOK, Movers
<1>a. queue' = queue => SendersStay
    BY DEF SendersStay
<1>1. CASE WorkerNext
  <2>1. CASE \E s \in Senders : Gate(s)
      BY <1>a, <2>1, StayingIsWell DEF Gate
  <2>2. ASSUME NEW i \in Ids, Pick(i)
        PROVE  SendersStay
      BY <1>0, <2>2, IdsAreNumbers DEF Pick, SendersStay, Row, Ids
  <2>3. CASE PickNothing \/ \E c \in Campaigns : PauseExpired(c)
      BY <1>a, <2>3, StayingIsWell DEF PickNothing, PauseExpired
  <2>4. CASE Restart
      BY <1>0, <2>4, IdsAreNumbers, StayingIsWell DEF Restart, SendersStay, Row
  <2>5. CASE SendStep
    <3>0. worker.pc \notin {"idle", "gated"} /\ worker.id \in Ids /\ Held \in Row /\ worker.s \in Senders
      <4>1. worker.pc \notin {"idle", "gated"}
          BY <2>5 DEF SendStep, RefuseOffline, RefuseTakenOver, Proceed, Deliver, CommitSent,
                 LoseCommit, RejectSend, LoseAnswer, FloodWait, PrivacyRestricted, NotResolved,
                 Reroute, RerouteNowhere, NotRegistered, Restricted, EvacuationReads,
                 EvacuateFlagged, RollbackReads, RollbackSuspects, FailFlagged, AuthError,
                 FailAllOfSender
      <4>. QED BY <4>1, IdsAreNumbers DEF IInv, WorkerOwnsItsRow, HolderHasSender, Held
    <3>1. CASE Proceed \/ LoseCommit \/ AuthError \/ NotResolved \/ EvacuationReads \/ RollbackReads
               \/ \E status \in {"spam_limited", "frozen"} : Restricted(status)
        BY <1>a, <3>1, StayingIsWell DEF Proceed, LoseCommit, AuthError, Restricted, NotResolved,
              EvacuationReads, RollbackReads
    <3>2. CASE RefuseTakenOver \/ Deliver \/ CommitSent \/ FloodWait
      <4>1. ASSUME NEW st \in RowStatus, queue' = [queue EXCEPT ![worker.id].st = st]
            PROVE  MovesWell
        <5>. DEFINE r == [Held EXCEPT !.st = st]
        <5>1. queue' = [queue EXCEPT ![worker.id] = r] /\ r.s = Held.s
            BY <3>0, <4>1 DEF Held, Row
        <5>. HIDE DEF r
        <5>. QED BY <1>0, <5>1, EditStays, StayingIsWell
      <4>2. CASE Deliver
        <5>. DEFINE r == [Held EXCEPT !.copies = @ + 1]
        <5>1. queue' = [queue EXCEPT ![worker.id] = r] /\ r.s = Held.s
            BY <3>0, <4>2 DEF Deliver, Held, Row
        <5>. HIDE DEF r
        <5>. QED BY <1>0, <5>1, EditStays, StayingIsWell
      <4>. QED BY <3>2, <4>1, <4>2 DEF RefuseTakenOver, CommitSent, FloodWait, RowStatus
    <3>3. CASE RefuseOffline \/ RejectSend \/ FailFlagged
        BY <1>0, <3>0, <3>3, FailItemStays, StayingIsWell DEF RefuseOffline, RejectSend, FailFlagged
    <3>4. CASE LoseAnswer
      <4>1. [Held EXCEPT !.copies = @ + 1] \in Row /\ [Held EXCEPT !.copies = @ + 1].s = Held.s
          BY <3>0 DEF Row
      <4>2. FailItem(worker.id, [Held EXCEPT !.copies = @ + 1])
          BY <3>4 DEF LoseAnswer
      <4>3. SendersStay
          BY <1>0, <4>1, <4>2, FailItemStays
      <4>. QED BY <4>3, StayingIsWell
    <3>5. CASE PrivacyRestricted \/ RerouteNowhere \/ \E fromCache \in BOOLEAN : NotRegistered(fromCache)
      <4>. DEFINE r == Stamped(Held, worker.s)
      <4>1. r \in Row /\ r.s = Held.s
        <5>1. Held.tried \cup {worker.s} \in SUBSET Senders
            BY <3>0 DEF Row
        <5>. QED BY <3>0, <5>1 DEF Stamped, Row
      <4>2. FailItem(worker.id, r)
          BY <3>5 DEF PrivacyRestricted, NotRegistered, RerouteNowhere
      <4>. HIDE DEF r
      <4>3. SendersStay
          BY <1>0, <4>1, <4>2, FailItemStays
      <4>. QED BY <4>3, StayingIsWell
    <3>6. CASE Reroute
      <4>1. MovedTo("worker")
          BY <1>0, <3>6, RerouteMovesTo
      <4>2. Commits("worker", "reroute", worker.s) /\ UNCHANGED <<online, restriction>>
          BY <3>6 DEF Reroute
      <4>3. "worker" \in Movers /\ "reroute" \notin {"none", "clear"}
          BY DEF Movers
      <4>. QED BY <1>0, <4>1, <4>2, <4>3, CommitMovesWell
    <3>7. CASE EvacuateFlagged
      <4>1. MovedTo("worker")
          BY <1>0, <3>0, <3>7, FailoverMovesTo DEF EvacuateFlagged, Movers
      <4>2. Commits("worker", "failover", worker.s) /\ UNCHANGED <<online, restriction>>
          BY <3>7 DEF EvacuateFlagged
      <4>3. "worker" \in Movers /\ "failover" \notin {"none", "clear"}
          BY DEF Movers
      <4>. QED BY <1>0, <4>1, <4>2, <4>3, CommitMovesWell
    <3>8. CASE RollbackSuspects
      <4>1. MovedTo("worker")
          BY <1>0, <3>8, RollbackMovesTo
      <4>2. Commits("worker", "rollback", worker.s) /\ UNCHANGED <<online, restriction>>
          BY <3>8 DEF RollbackSuspects
      <4>3. "worker" \in Movers /\ "rollback" \notin {"none", "clear"}
          BY DEF Movers
      <4>. QED BY <1>0, <4>1, <4>2, <4>3, CommitMovesWell
    <3>9. CASE FailAllOfSender
        BY <1>0, <3>9, IdsAreNumbers, StayingIsWell DEF FailAllOfSender, SendersStay, Row
    <3>. QED BY <2>5, <3>1, <3>2, <3>3, <3>4, <3>5, <3>6, <3>7, <3>8, <3>9 DEF SendStep
  <2>. QED BY <1>1, <2>1, <2>2, <2>3, <2>4, <2>5, StayingIsWell DEF WorkerNext
<1>2. CASE EnqueueNext
  <2>1. ASSUME NEW s \in Senders, Sweep(s)
        PROVE  MovesWell
    <3>1. MovedTo("enqueue")
        BY <1>0, <2>1, FailoverMovesTo DEF Sweep, Movers
    <3>2. Commits("enqueue", "failover", s) /\ UNCHANGED <<online, restriction>>
        BY <2>1 DEF Sweep
    <3>3. "enqueue" \in Movers /\ "failover" \notin {"none", "clear"}
        BY DEF Movers
    <3>. QED BY <1>0, <3>1, <3>2, <3>3, CommitMovesWell
  <2>2. ASSUME NEW c \in Campaigns, EvenSplit(c)
        PROVE  MovesWell
    <3>1. MovedTo("enqueue")
        BY <1>0, <2>2, EvenSplitMovesTo
    <3>2. Commits("enqueue", "even", c) /\ UNCHANGED <<online, restriction>>
        BY <2>2 DEF EvenSplit
    <3>3. "enqueue" \in Movers /\ "even" \notin {"none", "clear"}
        BY DEF Movers
    <3>. QED BY <1>0, <3>1, <3>2, <3>3, CommitMovesWell
  <2>3. CASE \/ \E c \in Campaigns : Autopause(c) \/ EvenSplitReads(c)
             \/ \E s \in Senders : SweepReads(s)
             \/ \E c \in Campaigns, todo \in SUBSET Contacts : OpenBatch(c, todo)
             \/ \E p \in Contacts, s \in Senders : StageContact(p, s)
             \/ \E p \in Contacts : SkipContact(p)
      BY <1>a, <2>3, StayingIsWell DEF Autopause, OpenBatch, StageContact, SkipContact, SweepReads,
            EvenSplitReads
  <2>4. CASE CommitBatch
    <3>1. enq.rows \in Seq(Row) /\ queue' = queue \o enq.rows
        BY <2>4 DEF CommitBatch, IInv, TypeOK, Batch
    <3>2. \A i \in Ids : queue'[i] = queue[i]
        BY <1>0, <3>1 DEF Ids
    <3>. QED BY <3>2, StayingIsWell DEF SendersStay
  <2>. QED BY <1>2, <2>1, <2>2, <2>3, <2>4 DEF EnqueueNext, EnqueueStep
<1>3. CASE ApiNext
  <2>1. CASE \E c \in Campaigns : Start(c) \/ Pause(c)
      BY <1>a, <2>1, StayingIsWell DEF Start, Pause
  <2>2. CASE \E c \in Campaigns : Finish(c) \/ RequeueFailed(c)
      BY <1>0, <2>2, IdsAreNumbers, StayingIsWell DEF Finish, RequeueFailed, SendersStay, Row
  <2>3. CASE \E s \in Senders, p \in Contacts : Takeover(s, p)
      BY <1>0, <2>3, IdsAreNumbers, StayingIsWell DEF Takeover, SendersStay, Row
  <2>4. CASE \E s \in Senders, p \in Contacts : EnableAi(s, p)
      BY <1>a, <2>4, StayingIsWell DEF EnableAi
  <2>5. ASSUME NEW s \in Senders, NEW p \in Contacts, NEW cs, Inbound(s, p, cs)
        PROVE  MovesWell
      BY <1>0, <2>5, IdsAreNumbers, StayingIsWell DEF Inbound, SendersStay, Row
  <2>6. ASSUME NEW s \in Senders, NEW status, AntispamSignal(s, status)
        PROVE  MovesWell
    <3>1. txn["listener"].op = "signal" /\ s \notin txn["listener"].pool
        BY <2>6 DEF AntispamSignal, PoolInv, SignalledIsOut
    <3>2. txn'["listener"].op = "none"
      <4>1. NoTxn.op = "none" /\ Lapsing(s) \in [Movers -> Txn]
          BY <1>0, LapsingTxn DEF NoTxn
      <4>. QED BY <1>0, <2>6, <4>1 DEF AntispamSignal
    <3>3. ASSUME NEW t \in txn["listener"].pool
          PROVE  Healthy(t)' \/ t \in txn["listener"].lapsed
      <4>1. t \in Senders \ {s}
          BY <1>0, <3>1, <3>3 DEF TypeOK, Txn
      <4>2. Healthy(t)' <=> Healthy(t)
          BY <1>0, <2>6, <4>1 DEF AntispamSignal, TypeOK, Healthy
      <4>. QED BY <1>0, <3>1, <3>3, <4>2 DEF PoolInv, PoolsAreKnown
    <3>4. MovedTo("listener")
        BY <1>0, <2>6, FailoverMovesTo DEF AntispamSignal
    <3>. QED BY <1>0, <3>1, <3>2, <3>3, <3>4, MovedToKnownIsWell
  <2>7. ASSUME NEW s \in Senders, Clear(s)
        PROVE  MovesWell
    <3>1. /\ txn["listener"].op = "clear" /\ txn["listener"].on = s /\ txn'["listener"].op = "none"
          /\ online' = online /\ restriction' = [restriction EXCEPT ![s] = "none"]
        BY <1>0, <2>7, CommitsTxn DEF Clear, Commits
    <3>2. ASSUME NEW t \in txn["listener"].pool
          PROVE  Healthy(t)' \/ t \in txn["listener"].lapsed
      <4>1. t \in Senders
          BY <1>0, <3>2 DEF TypeOK, Txn
      <4>2. Healthy(t) \/ (t = s /\ online[t]) => Healthy(t)'
          BY <1>0, <3>1, <4>1 DEF TypeOK, Healthy
      <4>. QED BY <1>0, <3>1, <3>2, <4>2 DEF PoolInv, PoolsAreKnown
    <3>. QED BY <1>0, <2>7, <3>1, <3>2, ClearMovesTo, MovedToKnownIsWell
  <2>8. CASE \E s \in Senders : \/ Escalate(s) \/ GoOffline(s) \/ GoOnline(s)
                                \/ SignalReads(s) \/ ClearReads(s)
      BY <1>a, <2>8, StayingIsWell DEF Escalate, GoOffline, GoOnline, SignalReads, ClearReads
  <2>. QED BY <1>3, <2>1, <2>2, <2>3, <2>4, <2>5, <2>6, <2>7, <2>8 DEF ApiNext
<1>4. CASE UNCHANGED vars
    BY <1>a, <1>4, StayingIsWell DEF vars
<1>. QED BY <1>1, <1>2, <1>3, <1>4 DEF Next

\* failover.py, send_suspect.py, rebalance.py and the rotation of queue.py each read a
\* pool of their own and move rows some statements later; whichever of them moves a row,
\* it moves it to an account of its campaign that can send, the account being flagged or
\* cleared in the same transaction included, or that could when the pool was read and
\* was flagged, paused or lost before the rows were committed.
THEOREM MovesGoToHealthyUnlessOvertaken == Spec => MovesToHealthyUnlessOvertaken
<1>1. Init => PoolInv
  <2>1. NoTxn.pool = {} /\ NoTxn.op = "none"
      BY DEF NoTxn
  <2>. QED BY <2>1 DEF Init, PoolInv, PoolsAreKnown, SignalledIsOut, Movers
<1>2. IInv /\ PoolInv /\ [Next]_vars => PoolInv'
    BY StepTxn
<1>3. IInv /\ PoolInv /\ [Next]_vars => [MovesWell]_vars
    BY StepMovesWell
<1>. QED BY <1>1, <1>2, <1>3, Invariant, PTL DEF Spec, MovesToHealthyUnlessOvertaken, MovesWell

-----------------------------------------------------------------------------
\* What recording a delivery rests on, and what a batch commits.
AckedWasDelivered == worker.pc = "acked" => Held.copies > 0
BatchIsPending == \A k \in DOMAIN enq.rows : enq.rows[k].st = "pending"

PhaseOf(st) ==
    IF st \in {"pending", "processing"} THEN "open" ELSE IF st = "sent" THEN "sent" ELSE "closed"

States == [i \in 1..MaxRows |-> Phase(i)]
Copied == [i \in 1..MaxRows |-> IF i \in Ids THEN queue[i].copies ELSE 0]

LEMMA PhaseIs ==
    ASSUME TypeOK
    PROVE  /\ \A i \in Ids : Phase(i) = PhaseOf(queue[i].st)
           /\ \A i : i \notin Ids => Phase(i) = "none"
<1>1. ASSUME NEW i \in Ids PROVE Phase(i) = PhaseOf(queue[i].st)
  <2>1. queue[i].st \in RowStatus
      BY IdsAreNumbers DEF Row
  <2>. QED BY <2>1 DEF Phase, PhaseOf, WithStatus, RowStatus
<1>2. ASSUME NEW i, i \notin Ids PROVE Phase(i) = "none"
    BY <1>2 DEF Phase, WithStatus
<1>. QED BY <1>1, <1>2

\* The rows S go from one phase to another, and nothing is delivered.
Turned(S, from, to) ==
    /\ S \subseteq DOMAIN queue' /\ Ids \subseteq DOMAIN queue'
    /\ \A i \in S : Phase(i) = from /\ PhaseOf(queue'[i].st) = to
    /\ \A i \in DOMAIN queue' \ S : i \in Ids /\ PhaseOf(queue'[i].st) = PhaseOf(queue[i].st)
    /\ \A i \in Ids : queue'[i].copies = queue[i].copies
    /\ \A i \in DOMAIN queue' \ Ids : queue'[i].copies = 0

LEMMA PhaseWillBe ==
    ASSUME TypeOK'
    PROVE  /\ \A i \in DOMAIN queue' : Phase(i)' = PhaseOf(queue'[i].st)
           /\ \A i : i \notin DOMAIN queue' => Phase(i)' = "none"
<1>1. ASSUME NEW i \in DOMAIN queue' PROVE Phase(i)' = PhaseOf(queue'[i].st)
  <2>0. queue' \in Seq(Row)
      BY DEF TypeOK
  <2>1. queue'[i] \in Row
      BY <2>0
  <2>2. queue'[i].st \in RowStatus
      BY <2>1 DEF Row
  <2>. QED BY <2>2 DEF Phase, PhaseOf, WithStatus, RowStatus, Ids
<1>2. ASSUME NEW i, i \notin DOMAIN queue' PROVE Phase(i)' = "none"
    BY <1>2 DEF Phase, WithStatus, Ids
<1>. QED BY <1>1, <1>2

LEMMA TurnedTurns ==
    ASSUME TypeOK, TypeOK', NEW S, NEW from, NEW to, Turned(S, from, to)
    PROVE  Contract!Turn(S \cap (1..MaxRows), from, to) /\ Copied' = Copied
<1>1. ASSUME NEW i \in 1..MaxRows
      PROVE  Phase(i)' = IF i \in S THEN to ELSE Phase(i)
  <2>1. CASE i \in DOMAIN queue'
      BY <2>1, PhaseIs, PhaseWillBe DEF Turned
  <2>2. CASE i \notin DOMAIN queue'
      BY <2>2, PhaseIs, PhaseWillBe DEF Turned
  <2>. QED BY <2>1, <2>2
<1>2. States' = [i \in 1..MaxRows |-> IF i \in S \cap (1..MaxRows) THEN to ELSE States[i]]
    BY <1>1 DEF States
<1>3. \A i \in S \cap (1..MaxRows) : States[i] = from
    BY DEF States, Turned
<1>4. Contract!Turn(S \cap (1..MaxRows), from, to)
    BY <1>2, <1>3 DEF Contract!Turn, States
<1>5. ASSUME NEW i \in 1..MaxRows
      PROVE  (IF i \in DOMAIN queue' THEN queue'[i].copies ELSE 0)
                 = (IF i \in Ids THEN queue[i].copies ELSE 0)
    BY DEF Turned
<1>6. Copied' = Copied
    BY <1>5 DEF Copied, Ids
<1>. QED BY <1>4, <1>6

-----------------------------------------------------------------------------
(* What a step of the contract is made of.                                  *)

ContractStep == Contract!Next \/ UNCHANGED Contract!cvars

LEMMA TurnIsStep ==
    ASSUME TypeOK, TypeOK', NEW S, NEW from, NEW to, Turned(S, from, to), Faults' = Faults,
           <<from, to>> \in {<<"none", "open">>, <<"open", "closed">>, <<"closed", "open">>}
    PROVE  ContractStep
<1>1. Contract!Turn(S \cap (1..MaxRows), from, to) /\ Copied' = Copied
    BY TurnedTurns
<1>2. S \cap (1..MaxRows) \in SUBSET (1..MaxRows)
    OBVIOUS
<1>3. \/ Contract!Accept(S \cap (1..MaxRows)) \/ Contract!Close(S \cap (1..MaxRows))
      \/ Contract!Reopen(S \cap (1..MaxRows))
    BY <1>1 DEF Contract!Accept, Contract!Close, Contract!Reopen, Copied
<1>. QED BY <1>2, <1>3 DEF Contract!Next, ContractStep

Quiet == Turned({}, "open", "closed")

LEMMA QuietStates ==
    ASSUME TypeOK, TypeOK', Quiet
    PROVE  States' = States /\ Copied' = Copied
<1>1. Contract!Turn({}, "open", "closed") /\ Copied' = Copied
  <2>1. {} \cap (1..MaxRows) = {}
      OBVIOUS
  <2>. QED BY <2>1, TurnedTurns DEF Quiet
<1>2. States' = [i \in 1..MaxRows |-> States[i]]
    BY <1>1 DEF Contract!Turn, States
<1>. QED BY <1>1, <1>2 DEF States

LEMMA QuietIsStep ==
    ASSUME TypeOK, TypeOK', Quiet, Faults' = Faults \/ Faults' = Faults + 1
    PROVE  ContractStep
<1>1. States' = States /\ Copied' = Copied
    BY QuietStates
<1>2. CASE Faults' = Faults
    BY <1>1, <1>2 DEF ContractStep, Contract!cvars, States, Copied
<1>3. CASE Faults' = Faults + 1
  <2>1. Contract!Fault
      BY <1>1, <1>3 DEF Contract!Fault, States, Copied
  <2>. QED BY <2>1 DEF Contract!Next, ContractStep
<1>. QED BY <1>2, <1>3

LEMMA SameQueueIsQuiet == TypeOK /\ queue' = queue => Quiet
BY DEF Quiet, Turned, Ids

\* The worker writes r into its row.
LEMMA EditTurns ==
    ASSUME TypeOK, worker.id \in Ids, Held.st = "processing", NEW r,
           queue' = [queue EXCEPT ![worker.id] = r], r.copies = Held.copies
    PROVE  /\ r.st \in {"pending", "processing"} => Quiet
           /\ r.st = "failed" => Turned({worker.id}, "open", "closed")
           /\ r.st = "sent" => Turned({worker.id}, "open", "sent")
<1>1. /\ DOMAIN queue' = Ids /\ queue'[worker.id] = r
      /\ \A i \in Ids \ {worker.id} : queue'[i] = queue[i]
    BY DEF TypeOK, Ids
<1>2. Phase(worker.id) = "open" /\ PhaseOf(queue[worker.id].st) = "open"
    BY PhaseIs DEF Held, PhaseOf
<1>3. ASSUME r.st \in {"pending", "processing"} PROVE Quiet
    BY <1>1, <1>2, <1>3 DEF Quiet, Turned, PhaseOf, Held
<1>4. ASSUME r.st = "failed" PROVE Turned({worker.id}, "open", "closed")
    BY <1>1, <1>2, <1>4 DEF Turned, PhaseOf, Held
<1>5. ASSUME r.st = "sent" PROVE Turned({worker.id}, "open", "sent")
    BY <1>1, <1>2, <1>5 DEF Turned, PhaseOf, Held
<1>. QED BY <1>3, <1>4, <1>5

LEMMA EditIsStep ==
    ASSUME IInv, TypeOK', worker.pc \notin {"idle", "gated"}, NEW r,
           queue' = [queue EXCEPT ![worker.id] = r], r.copies = Held.copies,
           r.st \in {"pending", "processing", "failed"}, Faults' = Faults
    PROVE  ContractStep
<1>0. TypeOK /\ worker.id \in Ids /\ Held.st = "processing"
    BY HeldFacts DEF IInv
<1>1. Quiet \/ Turned({worker.id}, "open", "closed")
    BY <1>0, EditTurns
<1>. QED BY <1>0, <1>1, QuietIsStep, TurnIsStep

LEMMA FailItemIsStep ==
    ASSUME IInv, TypeOK', worker.pc \notin {"idle", "gated"}, NEW r \in Row,
           r.copies = Held.copies, FailItem(worker.id, r), Faults' = Faults
    PROVE  ContractStep
<1>. DEFINE f == AfterFailure(r)
<1>1. f.copies = r.copies /\ f.st \in {"failed", "pending"}
    BY DEF AfterFailure, Row
<1>2. queue' = [queue EXCEPT ![worker.id] = f]
    BY DEF FailItem
<1>. HIDE DEF f
<1>. QED BY <1>1, <1>2, EditIsStep

\* A failover moves rows and changes nothing the contract sees.
LEMMA FailoverIsQuiet ==
    ASSUME TypeOK, NEW s, NEW read, Failover(s, read)
    PROVE  Quiet
<1>1. PICK M \in SUBSET Ids : \E recv \in [M -> Senders] :
          /\ \A i \in M : queue[i].st = "pending"
          /\ \A i \in M : recv[i] \in Pool[queue[i].c] \cap read
          /\ queue' = [i \in Ids |->
                IF i \in M THEN [queue[i] EXCEPT !.s = recv[i], !.att = 0] ELSE queue[i]]
          /\ cca' = CcaFollows(M, recv)
    BY FailoverShape
<1>2. PICK recv \in [M -> Senders] :
          queue' = [i \in Ids |-> IF i \in M THEN [queue[i] EXCEPT !.s = recv[i], !.att = 0]
                                 ELSE queue[i]]
    BY <1>1
<1>3. DOMAIN queue' = Ids
      /\ \A i \in Ids : queue'[i].st = queue[i].st /\ queue'[i].copies = queue[i].copies
    BY <1>2, IdsAreNumbers DEF Row
<1>. QED BY <1>3 DEF Quiet, Turned

LEMMA ReassignIsQuiet ==
    ASSUME TypeOK, NEW M, NEW recv,
           queue' = [i \in Ids |-> IF i \in M THEN [queue[i] EXCEPT !.s = recv[i]] ELSE queue[i]]
    PROVE  Quiet
<1>1. DOMAIN queue' = Ids
      /\ \A i \in Ids : queue'[i].st = queue[i].st /\ queue'[i].copies = queue[i].copies
    BY IdsAreNumbers DEF Row
<1>. QED BY <1>1 DEF Quiet, Turned

\* Rows closed together.
LEMMA ClosingTurns ==
    ASSUME TypeOK, NEW M \in SUBSET Ids, NEW st \in {"failed", "cancelled"},
           \A i \in M : queue[i].st \in {"pending", "processing"},
           queue' = [i \in Ids |-> IF i \in M THEN [queue[i] EXCEPT !.st = st] ELSE queue[i]]
    PROVE  Turned(M, "open", "closed")
<1>1. /\ DOMAIN queue' = Ids /\ \A i \in Ids \ M : queue'[i] = queue[i]
      /\ \A i \in M : queue'[i].st = st /\ queue'[i].copies = queue[i].copies
    BY IdsAreNumbers DEF Row
<1>2. \A i \in M : Phase(i) = "open" /\ PhaseOf(queue'[i].st) = "closed"
    BY <1>1, PhaseIs DEF PhaseOf
<1>. QED BY <1>1, <1>2 DEF Turned

\* Rows reopened together.
LEMMA ReopeningTurns ==
    ASSUME TypeOK, NEW M \in SUBSET Ids, DOMAIN queue' = Ids,
           \A i \in M : queue[i].st = "failed" /\ queue'[i].st = "pending",
           \A i \in Ids \ M : queue'[i] = queue[i],
           \A i \in Ids : queue'[i].copies = queue[i].copies
    PROVE  Turned(M, "closed", "open")
<1>1. \A i \in M : Phase(i) = "closed" /\ PhaseOf(queue'[i].st) = "open"
    BY PhaseIs DEF PhaseOf
<1>. QED BY <1>1 DEF Turned

-----------------------------------------------------------------------------
(* Every step is one of the contract, or none.                              *)

LEMMA DeliverIsStep ==
    ASSUME IInv, TypeOK', Deliver
    PROVE  ContractStep
<1>0. /\ worker.id \in Ids /\ worker.id \in Nat /\ Held \in Row /\ Held.st = "processing"
      /\ Held.copies <= Faults /\ Faults \in Nat /\ Faults' = Faults /\ TypeOK
    BY HeldFacts, IdsAreNumbers, TypedTables DEF Deliver, IInv
<1>. DEFINE r == [Held EXCEPT !.copies = @ + 1]
<1>1. queue' = [queue EXCEPT ![worker.id] = r] /\ r.copies = Held.copies + 1 /\ r.st = "processing"
    BY <1>0 DEF Deliver, Held, Row
<1>. HIDE DEF r
<1>2. /\ DOMAIN queue' = Ids /\ queue'[worker.id] = r
      /\ \A i \in Ids \ {worker.id} : queue'[i] = queue[i]
    BY <1>0, <1>1 DEF TypeOK, Ids
<1>3. States' = States
  <2>1. ASSUME NEW i \in 1..MaxRows PROVE Phase(i)' = Phase(i)
      BY <1>0, <1>1, <1>2, PhaseIs, PhaseWillBe DEF Held, PhaseOf
  <2>. QED BY <2>1 DEF States
<1>4. CASE worker.id \in 1..MaxRows
  <2>0. PICK k \in 1..MaxRows : k = worker.id
      BY <1>4
  <2>1. ASSUME NEW i \in 1..MaxRows
        PROVE  (IF i \in DOMAIN queue' THEN queue'[i].copies ELSE 0)
                   = IF i = worker.id THEN Copied[i] + 1 ELSE Copied[i]
      BY <1>0, <1>1, <1>2 DEF Copied, Held
  <2>2. Copied' = [Copied EXCEPT ![worker.id] = @ + 1]
      BY <1>4, <2>1 DEF Copied, Ids
  <2>3. States[worker.id] = "open" /\ Copied[worker.id] <= Faults
      BY <1>0, <1>4, PhaseIs DEF States, Copied, Held, PhaseOf
  <2>4. Contract!Deliver(k)
      BY <1>0, <1>3, <2>0, <2>2, <2>3 DEF Contract!Deliver, States, Copied
  <2>. QED BY <2>4 DEF Contract!Next, ContractStep
<1>5. CASE worker.id \notin 1..MaxRows
  <2>1. ASSUME NEW i \in 1..MaxRows
        PROVE  (IF i \in DOMAIN queue' THEN queue'[i].copies ELSE 0)
                   = IF i \in Ids THEN queue[i].copies ELSE 0
      BY <1>2, <1>5
  <2>2. Copied' = Copied
      BY <2>1 DEF Copied, Ids
  <2>. QED BY <1>0, <1>3, <2>2 DEF ContractStep, Contract!cvars, States, Copied
<1>. QED BY <1>4, <1>5

LEMMA LoseAnswerIsStep ==
    ASSUME IInv, TypeOK', LoseAnswer
    PROVE  ContractStep
<1>0. /\ worker.id \in Ids /\ worker.id \in Nat /\ Held \in Row /\ Held.st = "processing"
      /\ Held.copies <= Faults /\ Faults \in Nat /\ Faults' = Faults + 1 /\ TypeOK
  <2>1. "lost" \in Events /\ Spend("lost") /\ TypeOK
      BY DEF Events, LoseAnswer, IInv
  <2>2. Faults' = Faults + 1
      BY <2>1, SpendCounts
  <2>. QED BY <2>1, <2>2, HeldFacts, IdsAreNumbers DEF LoseAnswer
<1>. DEFINE l == [Held EXCEPT !.copies = @ + 1]
            r == AfterFailure(l)
<1>1. /\ queue' = [queue EXCEPT ![worker.id] = r] /\ r.copies = Held.copies + 1
      /\ r.st \in {"failed", "pending"}
  <2>1. l \in Row /\ l.copies = Held.copies + 1
      BY <1>0 DEF Row
  <2>2. queue' = [queue EXCEPT ![worker.id] = r]
      BY DEF LoseAnswer, FailItem
  <2>. HIDE DEF l
  <2>. QED BY <2>1, <2>2 DEF AfterFailure, Row
<1>. HIDE DEF r
<1>2. /\ DOMAIN queue' = Ids /\ queue'[worker.id] = r
      /\ \A i \in Ids \ {worker.id} : queue'[i] = queue[i]
    BY <1>0, <1>1 DEF TypeOK, Ids
<1>k. PICK k \in Ids : k = worker.id
    BY <1>0
<1>3. Phase(k) = "open" /\ Phase(k)' \in {"open", "closed"}
    BY <1>0, <1>k, <1>1, <1>2, PhaseIs, PhaseWillBe DEF Held, PhaseOf
<1>4. \A i \in (1..MaxRows) \ {k} : Phase(i)' = Phase(i)
    BY <1>0, <1>2, <1>k, PhaseIs, PhaseWillBe
<1>5. CASE k \in 1..MaxRows
  <2>1. ASSUME NEW i \in 1..MaxRows
        PROVE  (IF i \in DOMAIN queue' THEN queue'[i].copies ELSE 0)
                   = IF i = k THEN Copied[i] + 1 ELSE Copied[i]
      BY <1>0, <1>1, <1>2, <1>k DEF Copied, Held
  <2>2. Copied' = [Copied EXCEPT ![k] = @ + 1]
      BY <1>5, <2>1 DEF Copied, Ids
  <2>3. States[k] = "open" /\ Copied[k] <= Faults
      BY <1>0, <1>3, <1>5, <1>k DEF States, Copied, Held
  <2>4. States' = States \/ Contract!Turn({k}, "open", "closed")
    <3>1. CASE Phase(k)' = "open"
      <4>1. \A i \in 1..MaxRows : Phase(i)' = Phase(i)
          BY <1>3, <1>4, <3>1
      <4>. QED BY <4>1 DEF States
    <3>2. CASE Phase(k)' = "closed"
      <4>1. \A i \in 1..MaxRows : Phase(i)' = IF i \in {k} THEN "closed" ELSE States[i]
          BY <1>4, <3>2 DEF States
      <4>2. States' = [i \in 1..MaxRows |-> IF i \in {k} THEN "closed" ELSE States[i]]
          BY <4>1 DEF States
      <4>. QED BY <2>3, <4>2 DEF Contract!Turn, States
    <3>. QED BY <1>3, <3>1, <3>2
  <2>5. Contract!DeliverUnseen(k)
      BY <1>0, <2>2, <2>3, <2>4 DEF Contract!DeliverUnseen, States, Copied
  <2>. QED BY <1>5, <2>5 DEF Contract!Next, ContractStep
<1>6. CASE k \notin 1..MaxRows
  <2>1. ASSUME NEW i \in 1..MaxRows
        PROVE  (IF i \in DOMAIN queue' THEN queue'[i].copies ELSE 0)
                   = IF i \in Ids THEN queue[i].copies ELSE 0
      BY <1>2, <1>6, <1>k
  <2>2. Copied' = Copied
      BY <2>1 DEF Copied, Ids
  <2>3. States' = States
    <3>1. \A i \in 1..MaxRows : Phase(i)' = Phase(i)
        BY <1>4, <1>6
    <3>. QED BY <3>1 DEF States
  <2>4. Contract!Fault
      BY <1>0, <2>2, <2>3 DEF Contract!Fault, States, Copied
  <2>. QED BY <2>4 DEF Contract!Next, ContractStep
<1>. QED BY <1>5, <1>6

LEMMA CommitSentIsStep ==
    ASSUME IInv, AckedWasDelivered, TypeOK', CommitSent
    PROVE  ContractStep
<1>0. /\ worker.id \in Ids /\ worker.id \in Nat /\ Held \in Row /\ Held.st = "processing"
      /\ Held.copies > 0 /\ Faults' = Faults /\ TypeOK
    BY HeldFacts, IdsAreNumbers, TypedTables DEF CommitSent, IInv, AckedWasDelivered
<1>. DEFINE r == [Held EXCEPT !.st = "sent"]
<1>1. queue' = [queue EXCEPT ![worker.id] = r] /\ r.copies = Held.copies /\ r.st = "sent"
    BY <1>0 DEF CommitSent, Held, Row
<1>. HIDE DEF r
<1>2. Turned({worker.id}, "open", "sent")
    BY <1>0, <1>1, EditTurns
<1>3. Contract!Turn({worker.id} \cap (1..MaxRows), "open", "sent") /\ Copied' = Copied
    BY <1>0, <1>2, TurnedTurns
<1>4. CASE worker.id \in 1..MaxRows
  <2>1. {worker.id} \cap (1..MaxRows) = {worker.id} /\ Copied[worker.id] > 0
      BY <1>0, <1>4 DEF Copied, Held
  <2>2. Contract!Confirm(worker.id)
      BY <1>0, <1>3, <2>1 DEF Contract!Confirm, Copied
  <2>. QED BY <1>4, <2>2 DEF Contract!Next, ContractStep
<1>5. CASE worker.id \notin 1..MaxRows
  <2>1. {worker.id} \cap (1..MaxRows) = {}
      BY <1>5
  <2>2. States' = [i \in 1..MaxRows |-> States[i]]
      BY <1>3, <2>1 DEF Contract!Turn, States
  <2>3. States' = States
      BY <2>2 DEF States
  <2>. QED BY <1>0, <1>3, <2>3 DEF ContractStep, Contract!cvars, States, Copied
<1>. QED BY <1>4, <1>5

LEMMA CommitBatchIsStep ==
    ASSUME IInv, BatchIsPending, TypeOK', CommitBatch
    PROVE  ContractStep
<1>0. TypeOK /\ Faults' = Faults
    BY TypedTables DEF CommitBatch, IInv
<1>1. queue \in Seq(Row) /\ enq.rows \in Seq(Row) /\ queue' = queue \o enq.rows
    BY DEF IInv, TypeOK, Batch, CommitBatch
<1>2. Ids \subseteq DOMAIN queue' /\ \A i \in Ids : queue'[i] = queue[i]
    BY <1>1 DEF Ids
<1>3. ASSUME NEW i \in DOMAIN queue' \ Ids
      PROVE  queue'[i].st = "pending" /\ queue'[i].copies = 0
  <2>1. i - Len(queue) \in DOMAIN enq.rows /\ queue'[i] = enq.rows[i - Len(queue)]
      BY <1>1, <1>3 DEF Ids
  <2>. QED BY <2>1 DEF BatchIsPending, IInv, BatchIsFresh
<1>4. Turned(DOMAIN queue' \ Ids, "none", "open")
  <2>1. \A i \in DOMAIN queue' \ Ids : Phase(i) = "none" /\ PhaseOf(queue'[i].st) = "open"
      BY <1>0, <1>3, PhaseIs DEF PhaseOf
  <2>. QED BY <1>2, <1>3, <2>1 DEF Turned
<1>. QED BY <1>0, <1>4, TurnIsStep

LEMMA SendStepIsStep ==
    ASSUME IInv, AckedWasDelivered, TypeOK', SendStep
    PROVE  ContractStep
<1>0. /\ worker.pc \notin {"idle", "gated"} /\ worker.id \in Ids /\ Held \in Row /\ TypeOK
      /\ worker.s \in Senders
  <2>1. worker.pc \notin {"idle", "gated"}
      BY DEF SendStep, RefuseOffline, RefuseTakenOver, Proceed, Deliver, CommitSent, LoseCommit,
             RejectSend, LoseAnswer, FloodWait, PrivacyRestricted, NotResolved, Reroute,
             RerouteNowhere, NotRegistered, Restricted, EvacuationReads, EvacuateFlagged,
             RollbackReads, RollbackSuspects, FailFlagged, AuthError, FailAllOfSender
  <2>. QED BY <2>1, HeldFacts DEF IInv
<1>a. ASSUME NEW e \in {"flag", "verdict", "auth"}, Spend(e)
      PROVE  Faults' = Faults
    BY <1>0, <1>a, SpendCounts DEF Events
<1>b. spent' = spent => Faults' = Faults
    BY TypedTables
<1>1. CASE Proceed
    BY <1>0, <1>b, <1>1, SameQueueIsQuiet, QuietIsStep DEF Proceed
<1>2. CASE LoseCommit
  <2>1. Faults' = Faults + 1
      BY <1>0, <1>2, SpendCounts DEF LoseCommit, Events
  <2>. QED BY <1>0, <1>2, <2>1, SameQueueIsQuiet, QuietIsStep DEF LoseCommit
<1>3. CASE AuthError \/ \E status \in {"spam_limited", "frozen"} : Restricted(status)
    BY <1>0, <1>a, <1>3, SameQueueIsQuiet, QuietIsStep DEF AuthError, Restricted
<1>r. CASE NotResolved \/ EvacuationReads \/ RollbackReads
    BY <1>0, <1>a, <1>b, <1>r, SameQueueIsQuiet, QuietIsStep
    DEF NotResolved, EvacuationReads, RollbackReads
<1>4. CASE RefuseTakenOver
  <2>. DEFINE r == [Held EXCEPT !.st = "failed"]
  <2>1. queue' = [queue EXCEPT ![worker.id] = r] /\ r.copies = Held.copies /\ r.st = "failed"
      BY <1>0, <1>4 DEF RefuseTakenOver, Held, Row
  <2>. HIDE DEF r
  <2>. QED BY <1>0, <1>b, <1>4, <2>1, EditIsStep DEF RefuseTakenOver
<1>5. CASE FloodWait
  <2>. DEFINE r == [Held EXCEPT !.st = "pending"]
  <2>1. queue' = [queue EXCEPT ![worker.id] = r] /\ r.copies = Held.copies /\ r.st = "pending"
      BY <1>0, <1>5 DEF FloodWait, Held, Row
  <2>. HIDE DEF r
  <2>. QED BY <1>0, <1>b, <1>5, <2>1, EditIsStep DEF FloodWait
<1>6. CASE RefuseOffline \/ RejectSend \/ FailFlagged
    BY <1>0, <1>b, <1>6, FailItemIsStep DEF RefuseOffline, RejectSend, FailFlagged
<1>7. CASE PrivacyRestricted \/ \E fromCache \in BOOLEAN : NotRegistered(fromCache)
  <2>1. Stamped(Held, worker.s) \in Row /\ Stamped(Held, worker.s).copies = Held.copies
      BY <1>0 DEF Stamped, Row
  <2>2. FailItem(worker.id, Stamped(Held, worker.s)) /\ Spend("verdict")
      BY <1>7 DEF PrivacyRestricted, NotRegistered
  <2>. QED BY <1>0, <1>a, <2>1, <2>2, FailItemIsStep
<1>n. CASE RerouteNowhere
  <2>1. Stamped(Held, worker.s) \in Row /\ Stamped(Held, worker.s).copies = Held.copies
      BY <1>0 DEF Stamped, Row
  <2>2. FailItem(worker.id, Stamped(Held, worker.s)) /\ Faults' = Faults
      BY <1>b, <1>n DEF RerouteNowhere
  <2>. QED BY <1>0, <2>1, <2>2, FailItemIsStep
<1>8. CASE Reroute
  <2>1. PICK new \in RerouteTargets :
            queue' = [queue EXCEPT ![worker.id] =
                  [Held EXCEPT !.st = "pending", !.s = new, !.att = 0,
                               !.tried = @ \cup {worker.s}, !.mark = new]]
      BY <1>8 DEF Reroute
  <2>. DEFINE r == [Held EXCEPT !.st = "pending", !.s = new, !.att = 0,
                                !.tried = @ \cup {worker.s}, !.mark = new]
  <2>2. r.copies = Held.copies /\ r.st = "pending" /\ queue' = [queue EXCEPT ![worker.id] = r]
      BY <1>0, <2>1 DEF Row
  <2>3. Faults' = Faults
      BY <1>b, <1>8 DEF Reroute
  <2>. HIDE DEF r
  <2>. QED BY <1>0, <2>2, <2>3, EditIsStep
<1>9. CASE EvacuateFlagged
    BY <1>0, <1>b, <1>9, FailoverIsQuiet, QuietIsStep DEF EvacuateFlagged
<1>10. CASE RollbackSuspects
  <2>1. PICK M \in SUBSET Suspects(worker.s) : \E recv \in [M -> Senders] :
            queue' = [i \in Ids |->
                    IF i \in M
                    THEN [queue[i] EXCEPT !.st = "pending", !.s = recv[i],
                                          !.att = 0, !.reopens = @ + 1]
                    ELSE queue[i]]
      BY <1>10 DEF RollbackSuspects
  <2>2. PICK recv \in [M -> Senders] :
            queue' = [i \in Ids |->
                    IF i \in M
                    THEN [queue[i] EXCEPT !.st = "pending", !.s = recv[i],
                                          !.att = 0, !.reopens = @ + 1]
                    ELSE queue[i]]
      BY <2>1
  <2>3. M \in SUBSET Ids /\ \A i \in M : queue[i].st = "failed"
      BY DEF Suspects, WithStatus
  <2>4. /\ DOMAIN queue' = Ids /\ \A i \in Ids \ M : queue'[i] = queue[i]
        /\ \A i \in M : queue'[i].st = "pending" /\ queue'[i].copies = queue[i].copies
      BY <1>0, <2>2, <2>3, IdsAreNumbers DEF Row
  <2>5. Turned(M, "closed", "open")
      BY <1>0, <2>3, <2>4, ReopeningTurns
  <2>. QED BY <1>0, <1>b, <1>10, <2>5, TurnIsStep DEF RollbackSuspects
<1>11. CASE FailAllOfSender
  <2>. DEFINE M == {i \in Ids : queue[i].s = worker.s /\ queue[i].st \in {"pending", "processing"}}
  <2>1. queue' = [i \in Ids |-> IF i \in M THEN [queue[i] EXCEPT !.st = "failed"] ELSE queue[i]]
      BY <1>11 DEF FailAllOfSender
  <2>2. M \in SUBSET Ids /\ \A i \in M : queue[i].st \in {"pending", "processing"}
      OBVIOUS
  <2>. HIDE DEF M
  <2>3. Turned(M, "open", "closed")
      BY <1>0, <2>1, <2>2, ClosingTurns
  <2>. QED BY <1>0, <1>b, <1>11, <2>3, TurnIsStep DEF FailAllOfSender
<1>. QED BY <1>1, <1>2, <1>3, <1>r, <1>4, <1>5, <1>6, <1>7, <1>n, <1>8, <1>9, <1>10, <1>11,
            DeliverIsStep, LoseAnswerIsStep, CommitSentIsStep DEF SendStep

LEMMA WorkerIsStep ==
    ASSUME IInv, AckedWasDelivered, TypeOK', WorkerNext
    PROVE  ContractStep
<1>0. TypeOK /\ (spent' = spent => Faults' = Faults)
    BY TypedTables DEF IInv
<1>1. CASE \/ \E s \in Senders : Gate(s)
           \/ PickNothing \/ \E c \in Campaigns : PauseExpired(c)
    BY <1>0, <1>1, SameQueueIsQuiet, QuietIsStep DEF Gate, PickNothing, PauseExpired
<1>2. ASSUME NEW i \in Ids, Pick(i)
      PROVE  ContractStep
  <2>1. /\ DOMAIN queue' = Ids /\ \A j \in Ids \ {i} : queue'[j] = queue[j]
        /\ queue'[i].copies = queue[i].copies /\ queue[i].st = "pending"
        /\ queue'[i].st = "processing"
    <3>1. queue[i] \in Row /\ queue \in Seq(Row)
        BY <1>0, IdsAreNumbers DEF TypeOK
    <3>2. queue' = [queue EXCEPT ![i].st = "processing"] /\ queue[i].st = "pending"
        BY <1>2 DEF Pick, MayPick
    <3>. QED BY <3>1, <3>2 DEF Ids, Row
  <2>2. Quiet
      BY <2>1 DEF Quiet, Turned, PhaseOf
  <2>. QED BY <1>0, <1>2, <2>2, QuietIsStep DEF Pick
<1>3. CASE Restart
  <2>1. PICK old \in SUBSET WithStatus("processing") :
            queue' = [i \in Ids |-> IF i \in old THEN [queue[i] EXCEPT !.st = "pending"] ELSE queue[i]]
      BY <1>3 DEF Restart
  <2>2. /\ DOMAIN queue' = Ids
        /\ \A i \in Ids : /\ queue'[i].copies = queue[i].copies
                          /\ \/ queue'[i].st = queue[i].st
                             \/ queue[i].st = "processing" /\ queue'[i].st = "pending"
      BY <1>0, <2>1, IdsAreNumbers DEF Row, WithStatus
  <2>3. Quiet
      BY <2>2 DEF Quiet, Turned, PhaseOf
  <2>4. Faults' = Faults + 1
      BY <1>0, <1>3, SpendCounts DEF Restart, Events
  <2>. QED BY <1>0, <2>3, <2>4, QuietIsStep
<1>. QED BY <1>1, <1>2, <1>3, SendStepIsStep DEF WorkerNext

LEMMA EnqueueIsStep ==
    ASSUME IInv, BatchIsPending, TypeOK', EnqueueNext
    PROVE  ContractStep
<1>0. TypeOK /\ (spent' = spent => Faults' = Faults)
    BY TypedTables DEF IInv
<1>1. CASE \/ \E s \in Senders : SweepReads(s)
           \/ \E c \in Campaigns : EvenSplitReads(c) \/ Autopause(c)
           \/ \E c \in Campaigns, todo \in SUBSET Contacts : OpenBatch(c, todo)
           \/ \E p \in Contacts, s \in Senders : StageContact(p, s)
           \/ \E p \in Contacts : SkipContact(p)
    BY <1>0, <1>1, SameQueueIsQuiet, QuietIsStep
    DEF SweepReads, EvenSplitReads, Autopause, OpenBatch, StageContact, SkipContact
<1>2. ASSUME NEW s \in Senders, Sweep(s)
      PROVE  ContractStep
    BY <1>0, <1>2, FailoverIsQuiet, QuietIsStep DEF Sweep
<1>3. ASSUME NEW c \in Campaigns, EvenSplit(c)
      PROVE  ContractStep
  <2>. DEFINE pool == Pool[c] \cap txn["enqueue"].pool
  <2>1. Quiet
    <3>1. PICK M \in SUBSET Ids : \E recv \in [M -> pool] :
              queue' = [i \in Ids |-> IF i \in M THEN [queue[i] EXCEPT !.s = recv[i]] ELSE queue[i]]
        BY <1>3 DEF EvenSplit
    <3>2. PICK recv \in [M -> pool] :
              queue' = [i \in Ids |-> IF i \in M THEN [queue[i] EXCEPT !.s = recv[i]] ELSE queue[i]]
        BY <3>1
    <3>. QED BY <1>0, <3>2, ReassignIsQuiet
  <2>. QED BY <1>0, <1>3, <2>1, QuietIsStep DEF EvenSplit
<1>. QED BY <1>1, <1>2, <1>3, CommitBatchIsStep DEF EnqueueNext, EnqueueStep

LEMMA ApiIsStep ==
    ASSUME IInv, TypeOK', ApiNext
    PROVE  ContractStep
<1>0. TypeOK /\ (spent' = spent => Faults' = Faults)
    BY TypedTables DEF IInv
<1>a. ASSUME NEW e \in {"flag", "auth", "requeue", "takeover", "inbound"}, Spend(e)
      PROVE  Faults' = Faults
    BY <1>0, <1>a, SpendCounts DEF Events
<1>b. ASSUME NEW M \in SUBSET Ids, NEW st \in {"failed", "cancelled"},
             \A i \in M : queue[i].st = "pending", Faults' = Faults,
             queue' = [i \in Ids |-> IF i \in M THEN [queue[i] EXCEPT !.st = st] ELSE queue[i]]
      PROVE  ContractStep
    BY <1>0, <1>b, ClosingTurns, TurnIsStep
<1>1. CASE \/ \E c \in Campaigns : Start(c) \/ Pause(c)
           \/ \E s \in Senders, p \in Contacts : EnableAi(s, p)
           \/ \E s \in Senders : ClearReads(s) \/ Escalate(s) \/ GoOnline(s)
    BY <1>0, <1>1, SameQueueIsQuiet, QuietIsStep
    DEF Start, Pause, EnableAi, ClearReads, Escalate, GoOnline
<1>2. ASSUME NEW s \in Senders, GoOffline(s) \/ SignalReads(s)
      PROVE  ContractStep
    BY <1>0, <1>a, <1>2, SameQueueIsQuiet, QuietIsStep DEF GoOffline, SignalReads
<1>3. ASSUME NEW c \in Campaigns, Finish(c)
      PROVE  ContractStep
  <2>. DEFINE M == {i \in Ids : queue[i].c = c /\ queue[i].st = "pending"}
  <2>1. queue' = [i \in Ids |-> IF i \in M THEN [queue[i] EXCEPT !.st = "cancelled"] ELSE queue[i]]
        /\ M \in SUBSET Ids /\ \A i \in M : queue[i].st = "pending"
      BY <1>3 DEF Finish
  <2>. HIDE DEF M
  <2>. QED BY <1>0, <1>b, <1>3, <2>1 DEF Finish
<1>4. ASSUME NEW c \in Campaigns, RequeueFailed(c)
      PROVE  ContractStep
  <2>. DEFINE M == Requeued(c)
  <2>1. M \in SUBSET Ids /\ \A i \in M : queue[i].st = "failed"
      BY DEF Requeued, WithStatus
  <2>2. queue' = [i \in Ids |->
                IF i \in M THEN [queue[i] EXCEPT !.st = "pending", !.att = 0, !.reopens = @ + 1]
                ELSE queue[i]]
      BY <1>4 DEF RequeueFailed
  <2>. HIDE DEF M
  <2>3. /\ DOMAIN queue' = Ids /\ \A i \in Ids \ M : queue'[i] = queue[i]
        /\ \A i \in M : queue'[i].st = "pending" /\ queue'[i].copies = queue[i].copies
      BY <1>0, <2>1, <2>2, IdsAreNumbers DEF Row
  <2>4. Turned(M, "closed", "open")
      BY <1>0, <2>1, <2>3, ReopeningTurns
  <2>. QED BY <1>0, <1>a, <1>4, <2>4, TurnIsStep DEF RequeueFailed
<1>5. ASSUME NEW s \in Senders, NEW p \in Contacts, Takeover(s, p)
      PROVE  ContractStep
  <2>. DEFINE M == {i \in Ids : queue[i].p = p /\ queue[i].st = "pending"}
  <2>1. queue' = [i \in Ids |-> IF i \in M THEN [queue[i] EXCEPT !.st = "failed"] ELSE queue[i]]
        /\ M \in SUBSET Ids /\ \A i \in M : queue[i].st = "pending"
      BY <1>5 DEF Takeover
  <2>. HIDE DEF M
  <2>. QED BY <1>a, <1>b, <1>5, <2>1 DEF Takeover
<1>6. ASSUME NEW s \in Senders, NEW p \in Contacts, NEW cs, Inbound(s, p, cs)
      PROVE  ContractStep
  <2>. DEFINE M == {i \in Ids : queue[i].s = s /\ queue[i].p = p /\ queue[i].c \in cs
                               /\ queue[i].st = "pending"}
  <2>1. queue' = [i \in Ids |-> IF i \in M THEN [queue[i] EXCEPT !.st = "cancelled"] ELSE queue[i]]
        /\ M \in SUBSET Ids /\ \A i \in M : queue[i].st = "pending"
      BY <1>6 DEF Inbound
  <2>. HIDE DEF M
  <2>. QED BY <1>a, <1>b, <1>6, <2>1 DEF Inbound
<1>7. ASSUME NEW s \in Senders, NEW status, AntispamSignal(s, status)
      PROVE  ContractStep
    BY <1>0, <1>a, <1>7, FailoverIsQuiet, QuietIsStep DEF AntispamSignal
<1>8. ASSUME NEW s \in Senders, Clear(s)
      PROVE  ContractStep
  <2>1. Quiet
    <3>. DEFINE pool(c) == Pool[c] \cap txn["listener"].pool
                mine == {c \in Campaigns : s \in pool(c)}
                stranded == {i \in Ids : queue[i].c \in mine /\ Cold(i)
                                         /\ queue[i].s \notin pool(queue[i].c)}
                movable == {i \in Ids : queue[i].c \in mine /\ Movable(i)
                                        /\ queue[i].s \in pool(queue[i].c) \ {s}}
    <3>1. PICK extra \in SUBSET movable : \E recv \in [stranded \cup extra -> Senders] :
              queue' = [i \in Ids |-> IF i \in stranded \cup extra
                                     THEN [queue[i] EXCEPT !.s = recv[i]] ELSE queue[i]]
        BY <1>8 DEF Clear, PullBack
    <3>2. PICK recv \in [stranded \cup extra -> Senders] :
              queue' = [i \in Ids |-> IF i \in stranded \cup extra
                                     THEN [queue[i] EXCEPT !.s = recv[i]] ELSE queue[i]]
        BY <3>1
    <3>. HIDE DEF stranded, movable
    <3>. QED BY <1>0, <3>2, ReassignIsQuiet
  <2>. QED BY <1>0, <1>8, <2>1, QuietIsStep DEF Clear
<1>. QED BY <1>1, <1>2, <1>3, <1>4, <1>5, <1>6, <1>7, <1>8 DEF ApiNext

LEMMA InitIsContract == Init => Contract!Init
<1>. SUFFICES ASSUME Init PROVE Contract!Init
    OBVIOUS
<1>1. Ids = {} /\ Faults = 0
    BY DEF Init, Ids, Faults, Events
<1>2. \A i : Phase(i) = "none"
    BY <1>1 DEF Phase, WithStatus
<1>. QED BY <1>1, <1>2 DEF Contract!Init

\* What the contract needs of a step beyond the invariant.
LEMMA BatchStaysPending ==
    ASSUME IInv, BatchIsPending, [Next]_vars
    PROVE  BatchIsPending'
<1>1. CASE enq' = enq
    BY <1>1 DEF BatchIsPending
<1>2. CASE enq' = NoBatch
    BY <1>2 DEF BatchIsPending, NoBatch
<1>3. ASSUME NEW c, NEW todo, OpenBatch(c, todo)
      PROVE  BatchIsPending'
    BY <1>3 DEF OpenBatch, BatchIsPending
<1>4. ASSUME NEW p, SkipContact(p)
      PROVE  BatchIsPending'
    BY <1>4 DEF SkipContact, BatchIsPending, IInv, TypeOK, Batch
<1>5. ASSUME NEW p \in Contacts, NEW s \in Senders, StageContact(p, s)
      PROVE  BatchIsPending'
  <2>1. enq.rows \in Seq(Row) /\ enq \in Batch
      BY DEF IInv, TypeOK, Batch
  <2>2. \/ enq'.rows = enq.rows
        \/ enq'.rows = Append(enq.rows, NewRow(enq.c, p, s))
      BY <1>5, <2>1 DEF StageContact, Batch
  <2>3. NewRow(enq.c, p, s).st = "pending"
      BY DEF NewRow
  <2>. HIDE DEF NewRow
  <2>4. CASE enq'.rows = enq.rows
      BY <2>4 DEF BatchIsPending
  <2>5. CASE enq'.rows = Append(enq.rows, NewRow(enq.c, p, s))
    <3>. DEFINE r == NewRow(enq.c, p, s)
    <3>0. /\ Len(Append(enq.rows, r)) = Len(enq.rows) + 1
          /\ \A k \in 1 .. Len(enq.rows) : Append(enq.rows, r)[k] = enq.rows[k]
          /\ Append(enq.rows, r)[Len(enq.rows) + 1] = r
          /\ DOMAIN Append(enq.rows, r) = 1 .. (Len(enq.rows) + 1)
          /\ DOMAIN enq.rows = 1 .. Len(enq.rows)
        <4>. HIDE DEF r
        <4>. QED BY <2>1
    <3>. HIDE DEF r
    <3>1. ASSUME NEW k \in DOMAIN enq'.rows
          PROVE  \/ enq'.rows[k] = r
                 \/ k \in DOMAIN enq.rows /\ enq'.rows[k] = enq.rows[k]
        <4>1. Len(enq.rows) \in Nat
            BY <2>1
        <4>2. k \in 1 .. Len(enq.rows) \/ k = Len(enq.rows) + 1
            BY <2>5, <3>0, <3>1, <4>1 DEF r
        <4>. QED BY <2>5, <3>0, <4>2 DEF r
    <3>2. r.st = "pending"
        BY <2>3 DEF r
    <3>. QED BY <3>1, <3>2 DEF BatchIsPending
  <2>. QED BY <2>2, <2>4, <2>5
<1>6. CASE WorkerNext
  <2>1. enq' = enq \/ enq' = NoBatch
      BY <1>6 DEF WorkerNext, Gate, Pick, PickNothing, PauseExpired, Restart, SendStep, RefuseOffline,
             RefuseTakenOver, Proceed, Deliver, CommitSent, LoseCommit, RejectSend, LoseAnswer,
             FloodWait, PrivacyRestricted, NotResolved, Reroute, RerouteNowhere,
             NotRegistered, Restricted, EvacuationReads,
             EvacuateFlagged, RollbackReads, RollbackSuspects, FailFlagged, AuthError, FailAllOfSender
  <2>. QED BY <1>1, <1>2, <2>1
<1>7. CASE EnqueueNext
    BY <1>1, <1>2, <1>3, <1>4, <1>5, <1>7
    DEF EnqueueNext, EnqueueStep, SweepReads, Sweep, EvenSplitReads, EvenSplit, Autopause, CommitBatch
<1>8. CASE ApiNext
    BY <1>1, <1>8 DEF ApiNext, Start, Pause, Finish, RequeueFailed, Takeover, EnableAi, Inbound,
       SignalReads, AntispamSignal, ClearReads, Clear, Escalate, GoOffline, GoOnline
<1>9. CASE UNCHANGED vars
    BY <1>1, <1>9 DEF vars
<1>. QED BY <1>6, <1>7, <1>8, <1>9 DEF Next

LEMMA AckedStaysDelivered ==
    ASSUME IInv, AckedWasDelivered, [Next]_vars
    PROVE  AckedWasDelivered'
<1>1. CASE worker' = worker /\ RowsKept
    BY <1>1 DEF AckedWasDelivered, RowsKept, IInv, WorkerOwnsItsRow, Held
<1>2. CASE worker'.pc # "acked"
    BY <1>2 DEF AckedWasDelivered
<1>3. CASE Deliver
  <2>1. worker.id \in Ids /\ Held \in Row /\ queue \in Seq(Row)
      BY <1>3, HeldFacts DEF Deliver, IInv, TypeOK
  <2>2. queue'[worker.id].copies = Held.copies + 1
      BY <1>3, <2>1 DEF Deliver, Held, Ids, Row
  <2>3. worker'.id = worker.id
      BY <1>3 DEF Deliver, Goto, IInv, TypeOK, Worker
  <2>. QED BY <2>1, <2>2, <2>3 DEF AckedWasDelivered, Held, Row
<1>4. CASE WorkerNext /\ ~Deliver
  <2>1. ASSUME NEW pc, Goto(pc) PROVE worker'.pc = pc
      BY <2>1 DEF Goto, IInv, TypeOK, Worker
  <2>2. IdleWorker.pc = "idle"
      BY DEF IdleWorker
  <2>3. worker'.pc # "acked" \/ \E c \in Campaigns : PauseExpired(c)
    <3>1. CASE SendStep
        BY <1>4, <2>1, <2>2, <3>1 DEF SendStep, RefuseOffline,
             RefuseTakenOver, Proceed, CommitSent, LoseCommit, RejectSend, LoseAnswer,
             FloodWait, PrivacyRestricted, NotResolved, Reroute, RerouteNowhere,
             NotRegistered, Restricted, EvacuationReads,
             EvacuateFlagged, RollbackReads, RollbackSuspects, FailFlagged, AuthError, FailAllOfSender
    <3>. QED BY <1>4, <2>2, <3>1 DEF WorkerNext, Gate, Pick, PickNothing, Restart
  <2>4. ASSUME NEW c \in Campaigns, PauseExpired(c)
        PROVE  worker' = worker /\ RowsKept
      BY <2>4, SameQueueKeeps DEF PauseExpired
  <2>. QED BY <1>1, <1>2, <2>3, <2>4
<1>5. CASE EnqueueNext
  <2>1. worker' = worker
      BY <1>5 DEF EnqueueNext, EnqueueStep, SweepReads, Sweep, EvenSplitReads, EvenSplit,
             Autopause, OpenBatch, StageContact, SkipContact, CommitBatch
  <2>. QED BY <1>1, <1>5, <2>1, StepTxn, EnqueueKeeps
<1>6. CASE ApiNext
  <2>1. worker' = worker
      BY <1>6 DEF ApiNext, Start, Pause, Finish, RequeueFailed, Takeover, EnableAi, Inbound,
             SignalReads, AntispamSignal, ClearReads, Clear, Escalate, GoOffline, GoOnline
  <2>. QED BY <1>1, <1>6, <2>1, StepTxn, ApiKeeps
<1>7. CASE UNCHANGED vars
    BY <1>1, <1>7, SameQueueKeeps DEF vars
<1>. QED BY <1>3, <1>4, <1>5, <1>6, <1>7 DEF Next

LEMMA StepKeepsContract ==
    IInv /\ BatchIsPending /\ AckedWasDelivered /\ [Next]_vars
        => BatchIsPending' /\ AckedWasDelivered' /\ [Contract!Next]_(Contract!cvars)
<1>. SUFFICES ASSUME IInv, BatchIsPending, AckedWasDelivered, [Next]_vars
              PROVE  BatchIsPending' /\ AckedWasDelivered' /\ ContractStep
    BY DEF ContractStep
<1>1. TypeOK /\ TypeOK'
    BY StepInvariant DEF IInv
<1>2. CASE UNCHANGED vars
  <2>1. queue' = queue /\ Faults' = Faults
      BY <1>2 DEF vars, Faults
  <2>. QED BY <1>1, <2>1, BatchStaysPending, AckedStaysDelivered, SameQueueIsQuiet, QuietIsStep
<1>. QED BY <1>1, <1>2, BatchStaysPending, AckedStaysDelivered, WorkerIsStep, EnqueueIsStep, ApiIsStep
        DEF Next

\* The queue keeps its contract: whatever workers, endpoints, listener, restarts and lost
\* answers do, each step opens, closes, reopens, delivers or records rows as DeliveryContract
\* allows, and a copy is made only of an open row whose earlier copies faults account for.
THEOREM QueueKeepsContract == Spec => ImplementsContract
<1>1. Init => BatchIsPending /\ AckedWasDelivered
    BY DEF Init, NoBatch, IdleWorker, BatchIsPending, AckedWasDelivered
<1>2. Spec => [](IInv /\ BatchIsPending /\ AckedWasDelivered)
    BY <1>1, InitInvariant, StepInvariant, StepKeepsContract, PTL DEF Spec
<1>. QED BY <1>2, InitIsContract, StepKeepsContract, PTL DEF Spec, ImplementsContract, Contract!Spec

-----------------------------------------------------------------------------
(* Takeover.                                                                *)

\* A message about to go out into a dialog that a manager holds passed the guard before
\* that takeover, which nothing late has used up yet.
LateIsCovered ==
    /\ late <= spent["takeover"]
    /\ worker.pc = "sending" /\ Overwrites => late < spent["takeover"]

\* A row in flight stays as it is when others act.
LEMMA HeldStays ==
    ASSUME IInv, RowsKept, worker' = worker, worker.pc \notin {"idle", "gated"}
    PROVE  Held' = Held
BY HeldFacts DEF RowsKept, Held

\* Who leaves late alone and makes nobody enter or lose a takeover.
LEMMA LateStays ==
    ASSUME IInv, LateIsCovered, late' = late, spent'["takeover"] = spent["takeover"],
           worker'.pc = "sending" /\ Overwrites' => worker.pc = "sending" /\ Overwrites
    PROVE  LateIsCovered'
BY DEF LateIsCovered

LEMMA BystanderCovers ==
    ASSUME IInv, LateIsCovered, RowsKept, worker' = worker, late' = late,
           spent'["takeover"] = spent["takeover"],
           \A s \in Senders, p \in Contacts : conv'[s][p] = "manual" => conv[s][p] = "manual"
    PROVE  LateIsCovered'
<1>1. ASSUME worker.pc = "sending", Overwrites' PROVE Overwrites
  <2>1. Held' = Held /\ worker.s \in Senders /\ Held \in Row
      BY <1>1, HeldFacts, HeldStays
  <2>2. Held.p \in Contacts
      BY <2>1 DEF Row
  <2>3. conv'[worker.s][Held.p] = "manual"
      BY <1>1, <2>1 DEF Overwrites
  <2>. QED BY <2>1, <2>2, <2>3 DEF Overwrites
<1>. QED BY <1>1, LateStays

LEMMA TakeoverCovers ==
    ASSUME IInv, LateIsCovered, NEW s \in Senders, NEW p \in Contacts, Takeover(s, p)
    PROVE  LateIsCovered'
<1>1. late' = late /\ late \in Nat /\ spent["takeover"] \in Nat
    BY DEF Takeover, IInv, TypeOK, Events
<1>2. spent'["takeover"] = spent["takeover"] + 1
    BY DEF Takeover, Spend, IInv, TypeOK, Events
<1>. QED BY <1>1, <1>2 DEF LateIsCovered

LEMMA ApiCovers ==
    ASSUME IInv, LateIsCovered, ApiNext
    PROVE  LateIsCovered'
<1>0. RowsKept
    BY StepTxn, ApiKeeps DEF Next
<1>1. ASSUME NEW e \in Events \ {"takeover"}, Spend(e)
      PROVE  spent'["takeover"] = spent["takeover"]
    BY <1>1 DEF Spend, IInv, TypeOK
<1>2. {"requeue", "inbound", "flag", "auth"} \subseteq Events \ {"takeover"}
    BY DEF Events
<1>3. ASSUME NEW c \in Campaigns, Start(c) \/ Pause(c) \/ Finish(c) \/ RequeueFailed(c)
      PROVE  LateIsCovered'
  <2>1. worker' = worker /\ late' = late /\ conv' = conv
      BY <1>3 DEF Start, Pause, Finish, RequeueFailed
  <2>2. spent'["takeover"] = spent["takeover"]
      BY <1>1, <1>2, <1>3 DEF Start, Pause, Finish, RequeueFailed
  <2>. QED BY <1>0, <2>1, <2>2, BystanderCovers
<1>4. ASSUME NEW s \in Senders, NEW p \in Contacts, EnableAi(s, p)
      PROVE  LateIsCovered'
  <2>1. worker' = worker /\ late' = late /\ spent' = spent
      BY <1>4 DEF EnableAi
  <2>2. \A t \in Senders, q \in Contacts : conv'[t][q] = "manual" => conv[t][q] = "manual"
      BY <1>4 DEF EnableAi, IInv, TypeOK
  <2>. QED BY <1>0, <2>1, <2>2, BystanderCovers
<1>5. ASSUME NEW s \in Senders, NEW p \in Contacts, NEW cs, Inbound(s, p, cs)
      PROVE  LateIsCovered'
  <2>1. worker' = worker /\ late' = late /\ spent'["takeover"] = spent["takeover"]
      BY <1>1, <1>2, <1>5 DEF Inbound
  <2>2. \A t \in Senders, q \in Contacts : conv'[t][q] = "manual" => conv[t][q] = "manual"
      BY <1>5 DEF Inbound, IInv, TypeOK
  <2>. QED BY <1>0, <2>1, <2>2, BystanderCovers
<1>6. ASSUME NEW s \in Senders, NEW status, AntispamSignal(s, status)
      PROVE  LateIsCovered'
  <2>1. worker' = worker /\ late' = late /\ conv' = conv /\ spent' = spent
      BY <1>6 DEF AntispamSignal
  <2>. QED BY <1>0, <2>1, BystanderCovers
<1>7. ASSUME NEW s \in Senders, ClearReads(s) \/ Clear(s) \/ Escalate(s) \/ GoOnline(s)
      PROVE  LateIsCovered'
  <2>1. worker' = worker /\ late' = late /\ conv' = conv /\ spent' = spent
      BY <1>7 DEF ClearReads, Clear, Escalate, GoOnline
  <2>. QED BY <1>0, <2>1, BystanderCovers
<1>8. ASSUME NEW s \in Senders, GoOffline(s) \/ SignalReads(s)
      PROVE  LateIsCovered'
  <2>1. worker' = worker /\ late' = late /\ conv' = conv /\ spent'["takeover"] = spent["takeover"]
      BY <1>1, <1>2, <1>8 DEF GoOffline, SignalReads
  <2>. QED BY <1>0, <2>1, BystanderCovers
<1>. QED BY <1>3, <1>4, <1>5, <1>6, <1>7, <1>8, TakeoverCovers DEF ApiNext

\* The worker: the guard lets nothing through to a manager's dialog, and what is late was
\* covered.
LEMMA WorkerCovers ==
    ASSUME IInv, LateIsCovered, WorkerNext
    PROVE  LateIsCovered'
<1>1. ASSUME NEW e \in Events \ {"takeover"}, Spend(e)
      PROVE  spent'["takeover"] = spent["takeover"]
    BY <1>1 DEF Spend, IInv, TypeOK
<1>2. {"crash", "lost", "verdict", "flag", "auth"} \subseteq Events \ {"takeover"}
    BY DEF Events
<1>3. ASSUME NEW pc, Goto(pc) PROVE worker'.pc = pc /\ worker'.s = worker.s /\ worker'.id = worker.id
    BY <1>3 DEF Goto, IInv, TypeOK, Worker
<1>4. IdleWorker.pc = "idle"
    BY DEF IdleWorker
<1>5. CASE Deliver \/ LoseAnswer
  <2>1. worker.pc = "sending" /\ late' = late + (IF Overwrites THEN 1 ELSE 0)
      BY <1>5 DEF Deliver, LoseAnswer
  <2>2. worker'.pc # "sending"
      BY <1>3, <1>4, <1>5 DEF Deliver, LoseAnswer
  <2>3. spent'["takeover"] = spent["takeover"]
      BY <1>1, <1>2, <1>5 DEF Deliver, LoseAnswer
  <2>4. late \in Nat /\ spent["takeover"] \in Nat
      BY DEF IInv, TypeOK, Events
  <2>. QED BY <2>1, <2>2, <2>3, <2>4 DEF LateIsCovered
<1>6. CASE Proceed
  <2>1. worker'.s = worker.s /\ worker'.id = worker.id /\ UNCHANGED <<queue, conv, late, spent>>
      BY <1>3, <1>6 DEF Proceed
  <2>2. ~Overwrites
      BY <1>6 DEF Proceed, Overwrites
  <2>3. ~Overwrites'
      BY <2>1, <2>2 DEF Overwrites, Held
  <2>. QED BY <2>1, <2>3, LateStays
<1>7. ASSUME NEW c \in Campaigns, PauseExpired(c)
      PROVE  LateIsCovered'
    BY <1>7, SameQueueKeeps, BystanderCovers DEF PauseExpired
<1>8. CASE SendStep /\ ~(Deliver \/ LoseAnswer \/ Proceed)
  <2>0. \/ worker' = IdleWorker
        \/ worker' = worker /\ worker.pc # "sending"
        \/ \E pc \in {"unresolved", "flagged", "evacuated", "failing", "authdead"} : Goto(pc)
      BY <1>8 DEF SendStep, RefuseOffline,
             RefuseTakenOver, CommitSent, LoseCommit, RejectSend,
             FloodWait, PrivacyRestricted, NotResolved, Reroute, RerouteNowhere,
             NotRegistered, Restricted, EvacuationReads,
             EvacuateFlagged, RollbackReads, RollbackSuspects, FailFlagged, AuthError, FailAllOfSender
  <2>1. worker'.pc # "sending"
      BY <1>3, <1>4, <2>0
  <2>2. late' = late
      BY <1>8 DEF SendStep, RefuseOffline,
             RefuseTakenOver, CommitSent, LoseCommit, RejectSend,
             FloodWait, PrivacyRestricted, NotResolved, Reroute, RerouteNowhere,
             NotRegistered, Restricted, EvacuationReads,
             EvacuateFlagged, RollbackReads, RollbackSuspects, FailFlagged, AuthError, FailAllOfSender
  <2>3. spent'["takeover"] = spent["takeover"]
      BY <1>1, <1>2, <1>8 DEF SendStep, RefuseOffline,
             RefuseTakenOver, CommitSent, LoseCommit, RejectSend,
             FloodWait, PrivacyRestricted, NotResolved, Reroute, RerouteNowhere,
             NotRegistered, Restricted, EvacuationReads,
             EvacuateFlagged, RollbackReads, RollbackSuspects, FailFlagged, AuthError, FailAllOfSender
  <2>. QED BY <2>1, <2>2, <2>3, LateStays
<1>9. CASE Restart \/ (\E s \in Senders : Gate(s)) \/ (\E i \in Ids : Pick(i)) \/ PickNothing
  <2>1. worker'.pc # "sending" /\ late' = late
      BY <1>4, <1>9 DEF Restart, Gate, Pick, PickNothing
  <2>2. spent'["takeover"] = spent["takeover"]
      BY <1>1, <1>2, <1>9 DEF Restart, Gate, Pick, PickNothing
  <2>. QED BY <2>1, <2>2, LateStays
<1>. QED BY <1>5, <1>6, <1>7, <1>8, <1>9 DEF WorkerNext

LEMMA StepCovers ==
    ASSUME IInv, LateIsCovered, [Next]_vars
    PROVE  LateIsCovered'
<1>1. CASE EnqueueNext
  <2>1. UNCHANGED <<worker, conv, spent, late>>
      BY <1>1 DEF EnqueueNext, EnqueueStep, SweepReads, Sweep, EvenSplitReads, EvenSplit,
             Autopause, OpenBatch, StageContact, SkipContact, CommitBatch
  <2>. QED BY <1>1, <2>1, StepTxn, EnqueueKeeps, BystanderCovers
<1>2. CASE UNCHANGED vars
    BY <1>2 DEF vars, LateIsCovered, Overwrites, Held
<1>. QED BY <1>1, <1>2, ApiCovers, WorkerCovers DEF Next

\* A takeover lets at most the one message through that had passed the guard before it.
THEOREM TakeoverIsHeeded == Spec => []TakeoverLetsOneThrough
<1>1. Init => LateIsCovered
    BY DEF Init, LateIsCovered, IdleWorker, Events
<1>2. IInv /\ LateIsCovered /\ [Next]_vars => LateIsCovered'
    BY StepCovers
<1>3. LateIsCovered => TakeoverLetsOneThrough
    BY DEF LateIsCovered, TakeoverLetsOneThrough
<1>. QED BY <1>1, <1>2, <1>3, Invariant, PTL DEF Spec

-----------------------------------------------------------------------------
(* Rows left in flight.                                                     *)

\* Rows in flight that nobody holds, each left by a fault.
Orphans == {i \in WithStatus("processing") : worker.pc \in {"idle", "gated"} \/ i # worker.id}
OrphansArePaid == Cardinality(Orphans) <= Faults

\* No row is taken up.
NoneTaken ==
    \A i \in DOMAIN queue' : queue'[i].st = "processing" => i \in Ids /\ queue[i].st = "processing"

LEMMA OrphansAreFew ==
    ASSUME TypeOK
    PROVE  IsFiniteSet(Orphans) /\ Cardinality(Orphans) \in Nat
<1>1. IsFiniteSet(Ids)
    BY IdsAreNumbers, FS_Interval
<1>2. IsFiniteSet(Orphans)
    BY <1>1, FS_Subset DEF Orphans, WithStatus
<1>. QED BY <1>2, FS_CardinalityType

LEMMA NoNewOrphan ==
    ASSUME IInv, IInv', OrphansArePaid, Orphans' \subseteq Orphans, Faults <= Faults'
    PROVE  OrphansArePaid'
<1>1. Cardinality(Orphans') <= Cardinality(Orphans)
    BY OrphansAreFew, FS_Subset DEF IInv
<1>2. Cardinality(Orphans) \in Nat /\ Cardinality(Orphans') \in Nat
    BY OrphansAreFew, FS_Subset, FS_CardinalityType DEF IInv
<1>3. Faults \in Nat /\ Faults' \in Nat
  <2>1. spent \in [Events -> Nat] /\ spent' \in [Events -> Nat]
      BY DEF IInv, TypeOK
  <2>2. {"crash", "lost"} \subseteq Events
      BY DEF Events
  <2>. QED BY <2>1, <2>2 DEF Faults
<1>. QED BY <1>1, <1>2, <1>3 DEF OrphansArePaid

LEMMA OneMoreOrphan ==
    ASSUME IInv, OrphansArePaid, Orphans' \subseteq Orphans \cup {worker.id}, Faults' = Faults + 1
    PROVE  OrphansArePaid'
<1>1. IsFiniteSet(Orphans) /\ Cardinality(Orphans) \in Nat /\ Faults \in Nat
    BY OrphansAreFew, TypedTables DEF IInv
<1>2. /\ IsFiniteSet(Orphans \cup {worker.id})
      /\ Cardinality(Orphans \cup {worker.id}) <= Cardinality(Orphans) + 1
    BY <1>1, FS_AddElement
<1>3. Cardinality(Orphans') <= Cardinality(Orphans \cup {worker.id})
    BY <1>2, FS_Subset
<1>4. Cardinality(Orphans') \in Nat /\ Cardinality(Orphans \cup {worker.id}) \in Nat
    BY <1>2, FS_Subset, FS_CardinalityType
<1>. QED BY <1>1, <1>2, <1>3, <1>4 DEF OrphansArePaid

LEMMA FailoverTakesNone ==
    ASSUME TypeOK, NEW s \in Senders, NEW read, Failover(s, read)
    PROVE  NoneTaken
<1>1. PICK M \in SUBSET Ids : \E recv \in [M -> Senders] :
          /\ \A i \in M : queue[i].st = "pending"
          /\ \A i \in M : recv[i] \in Pool[queue[i].c] \cap read
          /\ queue' = [i \in Ids |->
                IF i \in M THEN [queue[i] EXCEPT !.s = recv[i], !.att = 0] ELSE queue[i]]
          /\ cca' = CcaFollows(M, recv)
    BY FailoverShape
<1>. QED BY <1>1, IdsAreNumbers DEF NoneTaken, Row

LEMMA ApiTakesNone ==
    ASSUME IInv, ApiNext
    PROVE  NoneTaken
<1>0. TypeOK /\ \A i \in Ids : queue[i] \in Row
    BY IdsAreNumbers DEF IInv
<1>1. ASSUME NEW c \in Campaigns, Finish(c) \/ RequeueFailed(c)
      PROVE  NoneTaken
  <2>1. CASE Finish(c)
      BY <1>0, <2>1 DEF Finish, NoneTaken, Row
  <2>2. CASE RequeueFailed(c)
    <3>. DEFINE M == Requeued(c)
    <3>1. queue' = [i \in Ids |-> IF i \in M
                        THEN [queue[i] EXCEPT !.st = "pending", !.att = 0, !.reopens = @ + 1]
                        ELSE queue[i]]
        BY <2>2 DEF RequeueFailed
    <3>. HIDE DEF M
    <3>. QED BY <1>0, <3>1 DEF NoneTaken, Row
  <2>. QED BY <1>1, <2>1, <2>2
<1>2. ASSUME NEW s \in Senders, NEW p \in Contacts, NEW cs, Takeover(s, p) \/ Inbound(s, p, cs)
      PROVE  NoneTaken
    BY <1>0, <1>2 DEF Takeover, Inbound, NoneTaken, Row
<1>3. ASSUME NEW s \in Senders, Clear(s)
      PROVE  NoneTaken
  <2>1. PICK M \in SUBSET WithStatus("pending") : \E recv \in [M -> Senders] :
            queue' = [i \in Ids |-> IF i \in M THEN [queue[i] EXCEPT !.s = recv[i]] ELSE queue[i]]
      BY <1>3, PullBackHandsOver DEF Clear
  <2>. QED BY <1>0, <2>1 DEF NoneTaken, Row
<1>4. ASSUME NEW s \in Senders, NEW status, AntispamSignal(s, status)
      PROVE  NoneTaken
    BY <1>0, <1>4, FailoverTakesNone DEF AntispamSignal
<1>5. CASE queue' = queue
    BY <1>5 DEF NoneTaken, Ids
<1>. QED
    BY <1>1, <1>2, <1>3, <1>4, <1>5 DEF ApiNext, Start, Pause, EnableAi, SignalReads, ClearReads,
           Escalate, GoOffline, GoOnline

LEMMA EnqueueTakesNone ==
    ASSUME IInv, BatchIsPending, EnqueueNext
    PROVE  NoneTaken
<1>0. TypeOK /\ \A i \in Ids : queue[i] \in Row
    BY IdsAreNumbers DEF IInv
<1>1. ASSUME NEW s \in Senders, Sweep(s)
      PROVE  NoneTaken
    BY <1>0, <1>1, FailoverTakesNone DEF Sweep
<1>2. ASSUME NEW c \in Campaigns, EvenSplit(c)
      PROVE  NoneTaken
  <2>. DEFINE pool == Pool[c] \cap txn["enqueue"].pool
  <2>1. PICK M \in SUBSET {i \in Ids : queue[i].c = c} : \E recv \in [M -> pool] :
            queue' = [i \in Ids |-> IF i \in M THEN [queue[i] EXCEPT !.s = recv[i]] ELSE queue[i]]
      BY <1>2 DEF EvenSplit
  <2>. QED BY <1>0, <2>1 DEF NoneTaken, Row
<1>3. CASE CommitBatch
  <2>1. queue \in Seq(Row) /\ enq.rows \in Seq(Row) /\ queue' = queue \o enq.rows
      BY <1>0, <1>3 DEF CommitBatch, TypeOK, Batch
  <2>2. ASSUME NEW i \in DOMAIN queue'
        PROVE  \/ i \in Ids /\ queue'[i] = queue[i]
               \/ \E k \in DOMAIN enq.rows : queue'[i] = enq.rows[k]
    <3>1. DOMAIN queue' = 1 .. (Len(queue) + Len(enq.rows)) /\ Len(queue) \in Nat /\ Len(enq.rows) \in Nat
        BY <2>1
    <3>2. CASE i <= Len(queue)
        BY <2>1, <3>1, <3>2 DEF Ids
    <3>3. CASE ~(i <= Len(queue))
      <4>1. i - Len(queue) \in DOMAIN enq.rows /\ queue'[i] = enq.rows[i - Len(queue)]
          BY <2>1, <3>1, <3>3
      <4>. QED BY <4>1
    <3>. QED BY <3>2, <3>3
  <2>. QED BY <2>2 DEF NoneTaken, BatchIsPending
<1>4. CASE queue' = queue
    BY <1>4 DEF NoneTaken, Ids
<1>. QED
    BY <1>1, <1>2, <1>3, <1>4 DEF EnqueueNext, EnqueueStep, SweepReads, EvenSplitReads, Autopause,
           OpenBatch, StageContact, SkipContact

\* The worker takes up the row it picks and no other, and gives it another status before it
\* lets go, short of a fault.
LEMMA WorkerPays ==
    ASSUME IInv, IInv', OrphansArePaid, WorkerNext
    PROVE  OrphansArePaid'
<1>0. TypeOK /\ queue \in Seq(Row) /\ \A i \in Ids : queue[i] \in Row
    BY IdsAreNumbers DEF IInv, TypeOK
<1>1. \A f \in Nat : f <= f /\ f <= f + 1
    OBVIOUS
<1>2. Faults \in Nat /\ (spent' = spent => Faults' = Faults)
    BY TypedTables
<1>3. ASSUME NEW e \in Events \ {"crash", "lost"}, Spend(e)
      PROVE  Faults' = Faults
    BY <1>0, <1>3, SpendCounts
<1>4. {"verdict", "flag", "auth"} \subseteq Events \ {"crash", "lost"} /\ {"crash", "lost"} \subseteq Events
    BY DEF Events
<1>5. IdleWorker.pc = "idle"
    BY DEF IdleWorker
<1>6. ASSUME worker.pc \notin {"idle", "gated"}, NEW r, r.st # "processing",
             queue' = [queue EXCEPT ![worker.id] = r], worker' = IdleWorker
      PROVE  Orphans' \subseteq Orphans
    BY <1>0, <1>5, <1>6, HeldFacts DEF Orphans, WithStatus, Ids
<1>7. ASSUME NEW r \in Row, FailItem(worker.id, r)
      PROVE  AfterFailure(r).st # "processing" /\ queue' = [queue EXCEPT ![worker.id] = AfterFailure(r)]
    BY <1>7 DEF FailItem, AfterFailure, Row
<1>8. ASSUME NEW r \in Row, FailItem(worker.id, r), worker.pc \notin {"idle", "gated"},
             worker' = IdleWorker
      PROVE  Orphans' \subseteq Orphans
    BY <1>6, <1>7, <1>8
<1>9. CASE RefuseOffline \/ RejectSend \/ FailFlagged
  <2>1. Orphans' \subseteq Orphans
      BY <1>8, <1>9, HeldFacts DEF RefuseOffline, RejectSend, FailFlagged
  <2>. QED BY <1>1, <1>2, <1>9, <2>1, NoNewOrphan DEF RefuseOffline, RejectSend, FailFlagged
<1>10. ASSUME NEW fromCache \in BOOLEAN, PrivacyRestricted \/ NotRegistered(fromCache)
       PROVE  OrphansArePaid'
  <2>1. Held \in Row /\ worker.s \in Senders /\ worker.pc \notin {"idle", "gated"}
      BY <1>10, HeldFacts DEF PrivacyRestricted, NotRegistered
  <2>2. Stamped(Held, worker.s) \in Row
      BY <2>1, StampedRow
  <2>3. Orphans' \subseteq Orphans
      BY <1>8, <1>10, <2>1, <2>2 DEF PrivacyRestricted, NotRegistered
  <2>4. Faults' = Faults
      BY <1>3, <1>4, <1>10 DEF PrivacyRestricted, NotRegistered
  <2>. QED BY <1>1, <1>2, <2>3, <2>4, NoNewOrphan
<1>n. CASE RerouteNowhere
  <2>1. /\ Held \in Row /\ worker.s \in Senders /\ worker.pc \notin {"idle", "gated"}
        /\ worker' = IdleWorker /\ Faults' = Faults
      BY <1>2, <1>n, HeldFacts DEF RerouteNowhere
  <2>2. Stamped(Held, worker.s) \in Row
      BY <2>1, StampedRow
  <2>3. Orphans' \subseteq Orphans
      BY <1>8, <1>n, <2>1, <2>2 DEF RerouteNowhere
  <2>. QED BY <1>1, <1>2, <2>1, <2>3, NoNewOrphan
<1>11. CASE LoseAnswer
  <2>1. Held \in Row /\ worker.pc \notin {"idle", "gated"}
      BY <1>11, HeldFacts DEF LoseAnswer
  <2>2. [Held EXCEPT !.copies = @ + 1] \in Row
      BY <2>1 DEF Row
  <2>3. Orphans' \subseteq Orphans
      BY <1>8, <1>11, <2>1, <2>2 DEF LoseAnswer
  <2>4. Faults' = Faults + 1
      BY <1>0, <1>4, <1>11, SpendCounts DEF LoseAnswer
  <2>. QED BY <1>1, <1>2, <2>3, <2>4, NoNewOrphan
<1>12. CASE RefuseTakenOver \/ CommitSent \/ FloodWait
  <2>1. worker.pc \notin {"idle", "gated"} /\ worker' = IdleWorker /\ Faults' = Faults
      BY <1>2, <1>12 DEF RefuseTakenOver, CommitSent, FloodWait
  <2>2. PICK st \in {"failed", "sent", "pending"} :
            queue' = [queue EXCEPT ![worker.id] = [Held EXCEPT !.st = st]]
      BY <1>12 DEF RefuseTakenOver, CommitSent, FloodWait, Held
  <2>. DEFINE r == [Held EXCEPT !.st = st]
  <2>4. r.st # "processing"
      BY <2>1, HeldFacts DEF Row
  <2>. HIDE DEF r
  <2>3. Orphans' \subseteq Orphans
      BY <1>6, <2>1, <2>2, <2>4 DEF r
  <2>. QED BY <1>1, <1>2, <2>1, <2>3, NoNewOrphan
<1>13. CASE Reroute
  <2>1. worker.pc \notin {"idle", "gated"} /\ worker' = IdleWorker /\ Faults' = Faults
      BY <1>2, <1>13 DEF Reroute
  <2>2. PICK new : queue' = [queue EXCEPT ![worker.id] =
                [Held EXCEPT !.st = "pending", !.s = new, !.att = 0,
                             !.tried = @ \cup {worker.s}, !.mark = new]]
      BY <1>13 DEF Reroute
  <2>. DEFINE r == [Held EXCEPT !.st = "pending", !.s = new, !.att = 0,
                                !.tried = @ \cup {worker.s}, !.mark = new]
  <2>4. r.st # "processing"
      BY <2>1, HeldFacts DEF Row
  <2>. HIDE DEF r
  <2>3. Orphans' \subseteq Orphans
      BY <1>6, <2>1, <2>2, <2>4 DEF r
  <2>. QED BY <1>1, <1>2, <2>1, <2>3, NoNewOrphan
<1>14. CASE Proceed \/ Deliver \/ NotResolved \/ EvacuateFlagged \/ RollbackSuspects \/ AuthError
            \/ (\E status \in {"spam_limited", "frozen"} : Restricted(status))
  <2>1. /\ worker'.id = worker.id
        /\ worker'.pc \notin {"idle", "gated"} /\ worker.pc \notin {"idle", "gated"}
    <3>1. \E pc \in {"sending", "acked", "unresolved", "flagged", "evacuated", "failing", "authdead"} :
              Goto(pc)
        BY <1>14 DEF Proceed, Deliver, NotResolved, EvacuateFlagged, RollbackSuspects, AuthError,
                     Restricted
    <3>2. worker.pc \notin {"idle", "gated"}
        BY <1>14 DEF Proceed, Deliver, NotResolved, EvacuateFlagged, RollbackSuspects, AuthError,
                     Restricted
    <3>. QED BY <1>0, <3>1, <3>2 DEF Goto, TypeOK, Worker
  <2>2. Faults' = Faults
      BY <1>2, <1>3, <1>4, <1>14
      DEF Proceed, Deliver, NotResolved, EvacuateFlagged, RollbackSuspects, AuthError, Restricted
  <2>3. NoneTaken
    <3>1. CASE queue' = queue
        BY <3>1 DEF NoneTaken, Ids
    <3>2. CASE Deliver
      <4>1. queue' = [queue EXCEPT ![worker.id] = [Held EXCEPT !.copies = @ + 1]]
          BY <3>2 DEF Deliver, Held
      <4>2. worker.id \in Ids /\ queue[worker.id].st = "processing"
          BY <2>1, HeldFacts DEF Held
      <4>3. \A i \in Ids \ {worker.id} : queue'[i] = queue[i]
          BY <1>0, <4>1 DEF Ids
      <4>4. DOMAIN queue' = Ids
          BY <1>0, <4>1 DEF Ids
      <4>. QED BY <4>2, <4>3, <4>4 DEF NoneTaken
    <3>3. CASE EvacuateFlagged
        BY <1>0, <2>1, <3>3, FailoverTakesNone, HeldFacts DEF EvacuateFlagged
    <3>4. CASE RollbackSuspects
      <4>1. PICK M : \E recv : queue' = [i \in Ids |-> IF i \in M
                        THEN [queue[i] EXCEPT !.st = "pending", !.s = recv[i],
                                              !.att = 0, !.reopens = @ + 1]
                        ELSE queue[i]]
          BY <3>4 DEF RollbackSuspects
      <4>. QED BY <1>0, <4>1 DEF NoneTaken, Row
    <3>. QED BY <1>14, <3>1, <3>2, <3>3, <3>4 DEF Proceed, NotResolved, AuthError, Restricted
  <2>4. Orphans' \subseteq Orphans
      BY <2>1, <2>3 DEF Orphans, NoneTaken, WithStatus, Ids
  <2>. QED BY <1>1, <1>2, <2>2, <2>4, NoNewOrphan
<1>r. CASE EvacuationReads \/ RollbackReads
  <2>1. queue' = queue /\ worker' = worker /\ Faults' = Faults
      BY <1>2, <1>r DEF EvacuationReads, RollbackReads
  <2>2. Orphans' \subseteq Orphans
      BY <2>1 DEF Orphans, WithStatus, Ids
  <2>. QED BY <1>1, <1>2, <2>1, <2>2, NoNewOrphan
<1>15. CASE FailAllOfSender
  <2>1. /\ worker' = IdleWorker /\ Faults' = Faults /\ worker.pc \notin {"idle", "gated"}
        /\ queue' = [i \in Ids |->
              IF queue[i].s = worker.s /\ queue[i].st \in {"pending", "processing"}
              THEN [queue[i] EXCEPT !.st = "failed"]
              ELSE queue[i]]
      BY <1>2, <1>15 DEF FailAllOfSender
  <2>2. queue[worker.id].s = worker.s
      BY <2>1, HeldFacts DEF Held
  <2>3. Orphans' \subseteq Orphans
      BY <1>0, <1>5, <2>1, <2>2 DEF Orphans, WithStatus, Ids, Row
  <2>. QED BY <1>1, <1>2, <2>1, <2>3, NoNewOrphan
<1>16. CASE LoseCommit
  <2>1. Orphans' \subseteq Orphans \cup {worker.id}
      BY <1>16 DEF LoseCommit, Orphans, WithStatus, Ids
  <2>2. Faults' = Faults + 1
      BY <1>0, <1>4, <1>16, SpendCounts DEF LoseCommit
  <2>. QED BY <2>1, <2>2, OneMoreOrphan
<1>17. CASE Restart
  <2>1. PICK old \in SUBSET WithStatus("processing") :
            queue' = [i \in Ids |-> IF i \in old THEN [queue[i] EXCEPT !.st = "pending"] ELSE queue[i]]
      BY <1>17 DEF Restart
  <2>2. Orphans' \subseteq Orphans \cup {worker.id}
      BY <1>0, <2>1 DEF Orphans, WithStatus, Ids, Row
  <2>3. Faults' = Faults + 1
      BY <1>0, <1>4, <1>17, SpendCounts DEF Restart
  <2>. QED BY <2>2, <2>3, OneMoreOrphan
<1>18. CASE (\E s \in Senders : Gate(s)) \/ PickNothing \/ (\E c \in Campaigns : PauseExpired(c))
  <2>1. queue' = queue /\ worker.pc \in {"idle", "gated"} /\ Faults' = Faults
      BY <1>2, <1>18 DEF Gate, PickNothing, PauseExpired
  <2>2. Orphans' \subseteq Orphans
      BY <2>1 DEF Orphans, WithStatus, Ids
  <2>. QED BY <1>1, <1>2, <2>1, <2>2, NoNewOrphan
<1>19. ASSUME NEW i \in Ids, Pick(i)
       PROVE  OrphansArePaid'
  <2>1. /\ worker.pc = "gated" /\ worker'.pc = "picked" /\ worker'.id = i /\ Faults' = Faults
        /\ queue' = [queue EXCEPT ![i] = [queue[i] EXCEPT !.st = "processing"]]
      BY <1>2, <1>19 DEF Pick
  <2>2. Orphans' \subseteq Orphans
      BY <1>0, <2>1 DEF Orphans, WithStatus, Ids
  <2>. QED BY <1>1, <1>2, <2>1, <2>2, NoNewOrphan
<1>. QED BY <1>9, <1>10, <1>n, <1>11, <1>12, <1>13, <1>14, <1>r, <1>15, <1>16, <1>17, <1>18, <1>19
         DEF WorkerNext, SendStep

LEMMA StepPaysOrphans ==
    ASSUME IInv, IInv', BatchIsPending, OrphansArePaid, [Next]_vars
    PROVE  OrphansArePaid'
<1>1. ASSUME NoneTaken, worker' = worker, Faults' = Faults
      PROVE  OrphansArePaid'
  <2>1. Orphans' \subseteq Orphans
      BY <1>1 DEF Orphans, WithStatus, NoneTaken, Ids
  <2>2. Faults \in Nat /\ \A f \in Nat : f <= f
      BY TypedTables
  <2>. QED BY <1>1, <2>1, <2>2, NoNewOrphan
<1>2. CASE EnqueueNext
  <2>1. worker' = worker /\ spent' = spent
      BY <1>2 DEF EnqueueNext, EnqueueStep, SweepReads, Sweep, EvenSplitReads, EvenSplit,
             Autopause, OpenBatch, StageContact, SkipContact, CommitBatch
  <2>. QED BY <1>1, <1>2, <2>1, EnqueueTakesNone, TypedTables
<1>3. CASE ApiNext
  <2>1. worker' = worker
      BY <1>3 DEF ApiNext, Start, Pause, Finish, RequeueFailed, Takeover, EnableAi, Inbound,
             SignalReads, AntispamSignal, ClearReads, Clear, Escalate, GoOffline, GoOnline
  <2>2. ASSUME NEW e \in {"requeue", "takeover", "inbound", "flag", "auth"}, Spend(e)
        PROVE  Faults' = Faults
      BY <2>2, SpendCounts DEF IInv, Events
  <2>3. Faults' = Faults
      BY <1>3, <2>2, TypedTables
      DEF ApiNext, Start, Pause, Finish, RequeueFailed, Takeover, EnableAi, Inbound, SignalReads, AntispamSignal, ClearReads, Clear, Escalate, GoOffline, GoOnline
  <2>. QED BY <1>1, <1>3, <2>1, <2>3, ApiTakesNone
<1>4. CASE UNCHANGED vars
    BY <1>4 DEF vars, OrphansArePaid, Orphans, WithStatus, Ids, Faults
<1>. QED BY <1>2, <1>3, <1>4, WorkerPays DEF Next

\* Rows are left in flight without a worker only by crashes, lost commits and lost answers,
\* at most one row by each.
THEOREM OrphansAreBounded == Spec => []OrphansComeFromFaults
<1>1. Init => BatchIsPending /\ OrphansArePaid
  <2>. SUFFICES ASSUME Init PROVE BatchIsPending /\ OrphansArePaid
      OBVIOUS
  <2>1. Orphans = {} /\ Faults = 0
      BY DEF Init, Orphans, WithStatus, Ids, Faults, Events
  <2>2. BatchIsPending
      BY DEF Init, BatchIsPending, NoBatch
  <2>. QED BY <2>1, <2>2, FS_EmptySet DEF OrphansArePaid
<1>2. IInv /\ IInv' /\ BatchIsPending /\ OrphansArePaid /\ [Next]_vars
          => (BatchIsPending /\ OrphansArePaid)'
    BY BatchStaysPending, StepPaysOrphans
<1>3. OrphansArePaid => OrphansComeFromFaults
    BY DEF OrphansArePaid, OrphansComeFromFaults, Orphans
<1>. QED BY <1>1, <1>2, <1>3, Invariant, PTL DEF Spec
=============================================================================
