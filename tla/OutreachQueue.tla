---------------------------- MODULE OutreachQueue ----------------------------
(***************************************************************************)
(* The outreach pipeline: the queue worker, the campaign enqueue worker    *)
(* and the API and listener handlers over the shared tables.               *)
(***************************************************************************)
EXTENDS QueueWorker, CampaignEnqueue, OutreachApi, FiniteSetsExt

Init ==
    /\ campaign = [c \in Campaigns |-> "draft"]
    /\ restriction = [s \in Senders |-> "none"]
    /\ online = [s \in Senders |-> TRUE]
    /\ queue = <<>>
    /\ cca = [c \in Campaigns |-> [p \in Contacts |-> NoSender]]
    /\ conv = [s \in Senders |-> [p \in Contacts |-> "none"]]
    /\ worker = IdleWorker
    /\ enq = NoBatch
    /\ txn = [m \in Movers |-> NoTxn]
    /\ spent = [e \in Events |-> 0]
    /\ late = 0

Next == WorkerNext \/ EnqueueNext \/ ApiNext

Spec == Init /\ [][Next]_vars

\* The loops never give up: a worker that holds a row takes its next step, the
\* enqueue worker finishes the transaction it opened, and every tick of it
\* begins with the sweep, so a sender that stays stranding is swept.
Fairness ==
    /\ WF_vars(SendStep)
    /\ WF_vars(EnqueueStep)
    /\ \A s \in Senders : SF_vars(SweepReads(s))

FairSpec == Spec /\ Fairness

-----------------------------------------------------------------------------
(* Types and the worker's hold on its row.                                  *)

\* Every table keeps the shape its schema gives it.
TypeOK ==
    /\ campaign \in [Campaigns -> {"draft", "running", "paused", "done"}]
    /\ restriction \in [Senders -> {"none", "spam_limited", "frozen"}]
    /\ online \in [Senders -> BOOLEAN]
    /\ queue \in Seq(Row)
    /\ cca \in [Campaigns -> [Contacts -> Senders \cup {NoSender}]]
    /\ conv \in [Senders -> [Contacts -> {"none", "ai", "manual"}]]
    /\ worker \in Worker
    /\ enq \in Batch
    /\ txn \in [Movers -> Txn]
    /\ spent \in [Events -> Nat]
    /\ late \in Nat

Faults == spent["crash"] + spent["lost"]

\* Between the pick and the outcome the worker's row stays 'processing', stays
\* its sender's and keeps an attempt: no endpoint, sweep, failover, finish or
\* takeover writes to it, so the blind UPDATE ... WHERE id of the outcome
\* overwrites nobody's decision (queue.py:1668).
WorkerOwnsItsRow ==
    worker.pc \notin {"idle", "gated"} =>
        /\ worker.id \in Ids
        /\ Held.st = "processing" /\ Held.s = worker.s

\* A row is left 'processing' without a worker only by a crash or a lost commit
\* (the rows recover_stuck_jobs exists for, queue.py:2074).
OrphansComeFromFaults ==
    Cardinality({i \in WithStatus("processing") :
                    worker.pc \in {"idle", "gated"} \/ i # worker.id}) <= Faults

-----------------------------------------------------------------------------
(* Delivery.                                                                *)

\* One row is delivered at most once, plus once for every crash, lost commit or
\* lost Telegram answer: no interleaving of retries, failovers, reroutes,
\* rollbacks, requeues and takeovers resends a delivered message.
DuplicateOnlyAfterFault ==
    \A i \in Ids : queue[i].copies <= 1 + Faults

\* A recorded delivery is final: nothing re-pends, fails or cancels a sent row.
SentIsFinal ==
    [][\A i \in Ids : queue[i].st = "sent" =>
            i \in DOMAIN queue' /\ queue'[i].st = "sent"]_vars

\* How often finished rows of a contact were put back to pending, by the suspect
\* rollback or by requeue_failed, and the copies Telegram delivered to it.
RowsOf(c, p) == {i \in Ids : queue[i].c = c /\ queue[i].p = p}
Reopens(c, p) == SumFunctionOnSet([i \in Ids |-> queue[i].reopens], RowsOf(c, p))
Copies(c, p) == SumFunctionOnSet([i \in Ids |-> queue[i].copies], RowsOf(c, p))

\* A contact gets one opener per campaign, over all the rows it ever had there:
\* a second copy takes a fault or a row that was put back to pending.
OpenerOnce ==
    \A c \in Campaigns, p \in Contacts :
        Copies(c, p) <= 1 + Faults + Reopens(c, p)

\* A manager's takeover lets at most the one message through that had already
\* passed the guard of __send_item_inner (queue.py:859).
TakeoverLetsOneThrough == late <= spent["takeover"]

\* The rows of message_queue, seen as the contract sees them.
Phase(i) ==
    CASE i \notin Ids -> "none"
      [] i \in WithStatus("pending") \cup WithStatus("processing") -> "open"
      [] i \in WithStatus("failed") \cup WithStatus("cancelled") -> "closed"
      [] i \in WithStatus("sent") -> "sent"

Contract == INSTANCE DeliveryContract WITH
    Rows <- 1..MaxRows,
    state <- [i \in 1..MaxRows |-> Phase(i)],
    copies <- [i \in 1..MaxRows |-> IF i \in Ids THEN queue[i].copies ELSE 0],
    faults <- Faults

\* Every step of every actor is a step of the delivery contract, or none.
ImplementsContract == Contract!Spec

-----------------------------------------------------------------------------
(* Who sends.                                                               *)

\* A row moves to an ineligible account only when that account was flagged,
\* paused or lost after the moving transaction had read the pool (failover.py:150,
\* rebalance.py:116): no failover, sweep, even split, pull-back, reroute or suspect
\* rollback hands an opener to an account that was out before, nor to the one
\* being flagged in the same transaction, nor to one outside the pool.
MovesToHealthyUnlessOvertaken ==
    [][\A i \in Ids :
        i \in DOMAIN queue' /\ queue'[i].s # queue[i].s =>
            /\ queue'[i].s \in Pool[queue[i].c]
            /\ \/ online'[queue'[i].s] /\ restriction'[queue'[i].s] = "none"
               \/ \E m \in Movers : txn'[m] # txn[m] /\ queue'[i].s \in txn[m].lapsed]_vars

\* The queue and the sticky assignment agree on who writes to a contact as long
\* as none of its rows was put back to pending (failover.py:9, rebalance.py:187).
LockStep ==
    \A i \in Ids :
        /\ queue[i].st \in {"pending", "processing"}
        /\ \A j \in SameContact(i) : queue[j].reopens = 0
        => cca[queue[i].c][queue[i].p] = queue[i].s

-----------------------------------------------------------------------------
(* The three bounds that end a hopeless contact.                            *)

\* COLD_FAIL_RELEASE_CAP: a contact costs at most that many rows per campaign,
\* plus one for each time one of them was put back to pending.
ContactRowCap ==
    \A c \in Campaigns, p \in Contacts :
        Cardinality(RowsOf(c, p)) <= ColdFailReleaseCap + Reopens(c, p)

\* RESOLVE_ROTATION_CAP: at most that many senders return NOT_REGISTERED for one
\* row while no account is restricted or lost.
RotationCap ==
    spent["flag"] = 0 /\ spent["auth"] = 0 =>
        \A i \in Ids : Cardinality(queue[i].tried) <= ResolveRotationCap

-----------------------------------------------------------------------------
(* Liveness.                                                                *)

\* A row the worker took leaves 'processing' unless a fault orphaned it.
HeldRowSettles ==
    \A i \in 1..MaxRows :
        i \in WithStatus("processing")
            ~> (i \notin WithStatus("processing") \/ Faults > 0)

\* EVAC-03: a cold opener of a running campaign does not stay on an ineligible
\* sender while the pool has an eligible one, whatever made it ineligible
\* (campaign_enqueue.py:89).
Stranded(i) ==
    /\ i \in Ids /\ Failoverable(i)
    /\ campaign[queue[i].c] = "running"
    /\ ~Healthy(queue[i].s) /\ EligiblePool(queue[i].c) # {}

StrandedIsEvacuated == \A i \in 1..MaxRows : Stranded(i) ~> ~Stranded(i)

-----------------------------------------------------------------------------
(* What comments and docstrings of the code say, and the code does not do.  *)

\* "an EXISTS-miss is a no-op" (campaign_enqueue.py:455): an assignment always
\* comes with a row.
ExistsMissIsNoOp ==
    \A c \in Campaigns, p \in Contacts : cca[c][p] # NoSender => RowsOf(c, p) # {}

\* "prevents zombie 'pending' rows lingering forever after finish/stop/delete"
\* (routers/campaigns.py:115).
NoPendingAfterFinish ==
    \A i \in WithStatus("pending") : campaign[queue[i].c] # "done"

\* "a soft signal must not downgrade a hard freeze" (listener.py:1232).
FreezeNotDowngraded ==
    [][\A s \in Senders :
        restriction[s] = "frozen" => restriction'[s] # "spam_limited"]_vars
=============================================================================
