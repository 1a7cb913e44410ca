--------------------------- MODULE CampaignEnqueue ---------------------------
(***************************************************************************)
(* app/services/campaign_enqueue.py CampaignEnqueueWorker with rotation.py *)
(* and the even split of rebalance.py.  A tick sweeps stranded rows, evens *)
(* the load, auto-pauses blocked campaigns, and then opens one transaction *)
(* per running campaign in which contacts get a sender and a queue row;    *)
(* the rows become visible when that transaction commits.                  *)
(***************************************************************************)
EXTENDS QueueState

\* No per-campaign transaction is open: the tick's own session steps run.
Between == enq.c = NoCampaign
Free == Between /\ txn["enqueue"] = NoTxn

\* Slip: only spam_limited senders are swept.
StrandingLimited(s) ==
    /\ restriction[s] = "spam_limited"
    /\ \E i \in WithStatus("pending") :
          /\ queue[i].s = s /\ queue[i].c \notin FileCampaigns
          /\ campaign[queue[i].c] = "running"

\* _sweep_stranded_cold_backlog: an ineligible sender still holds pending
\* openers of a running campaign; failover runs over all its campaigns.
Stranding(s) ==
    /\ ~Healthy(s)
    /\ \E i \in WithStatus("pending") :
          /\ queue[i].s = s /\ queue[i].c \notin FileCampaigns
          /\ campaign[queue[i].c] = "running"

SweepReads(s) ==
    /\ Free
    /\ Stranding(s)
    /\ Opens("enqueue", "failover", s, Eligible, {})
    /\ UNCHANGED <<campaign, restriction, online, queue, cca, conv, worker, enq, spent, late>>

Sweep(s) ==
    /\ Commits("enqueue", "failover", s)
    /\ Failover(s, txn["enqueue"].pool)
    /\ UNCHANGED <<campaign, restriction, online, conv, worker, enq, spent, late>>

\* rebalance_campaign_even: with two eligible senders or more, movable rows
\* change hands among them.  How many and which is left open here; attempts are
\* kept, and the status of the campaign is not looked at again.
EvenSplitReads(c) ==
    /\ Free
    /\ campaign[c] = "running"
    /\ Cardinality(EligiblePool(c)) >= 2
    /\ \E i \in Ids : queue[i].c = c /\ Movable(i) /\ Healthy(queue[i].s)
    /\ Opens("enqueue", "even", c, Eligible, {})
    /\ UNCHANGED <<campaign, restriction, online, queue, cca, conv, worker, enq, spent, late>>

EvenSplit(c) ==
    /\ Commits("enqueue", "even", c)
    /\ LET pool == Pool[c] \cap txn["enqueue"].pool
       IN  \E M \in SUBSET {i \in Ids : queue[i].c = c /\ Movable(i) /\ queue[i].s \in pool} :
           \E recv \in [M -> pool] :
              /\ \A i \in M : recv[i] # queue[i].s
              /\ queue' = [i \in Ids |-> IF i \in M THEN [queue[i] EXCEPT !.s = recv[i]]
                                         ELSE queue[i]]
              /\ cca' = CcaFollows(M, recv)
    /\ UNCHANGED <<campaign, restriction, online, conv, worker, enq, spent, late>>

\* _maybe_autopause: nobody can send, and there is work: open rows, or contacts
\* without an assignment.
Blocked(c) ==
    /\ campaign[c] = "running"
    /\ EligiblePool(c) = {}
    /\ \/ \E i \in Ids : queue[i].c = c /\ queue[i].st \in {"pending", "processing"}
       \/ \E p \in Contacts : cca[c][p] = NoSender

Autopause(c) ==
    /\ Free
    /\ Blocked(c)
    /\ campaign' = [campaign EXCEPT ![c] = "paused"]
    /\ UNCHANGED <<restriction, online, queue, cca, conv, worker, enq, spent, late, txn>>

-----------------------------------------------------------------------------
(* _tick_one_campaign: one transaction over a batch of contacts.            *)

\* Slip: deduplicated by conversations alone.
EnqueueableByDialog(c) ==
    {p \in Contacts : \A s \in Pool[c] : conv[s][p] = "none"}

\* The contact SELECT: no assignment in this campaign, and no conversation
\* with a sender of its pool (allow_recontact off).
Enqueueable(c) ==
    {p \in Contacts : cca[c][p] = NoSender /\ \A s \in Pool[c] : conv[s][p] = "none"}

OpenBatch(c, todo) ==
    /\ Free
    /\ campaign[c] = "running" /\ ~Blocked(c)
    /\ todo \subseteq Enqueueable(c) /\ todo # {}
    /\ Len(queue) + Cardinality(todo) <= MaxRows
    /\ enq' = [c |-> c, todo |-> todo, cca |-> {}, rows |-> <<>>]
    /\ UNCHANGED <<campaign, restriction, online, queue, cca, conv, worker, spent, late, txn>>

\* get_or_assign_sender and INSERT ... WHERE EXISTS (campaign running): when the
\* campaign has stopped meanwhile, the assignment is kept and the row is not.
StageContact(p, s) ==
    /\ ~Between /\ p \in enq.todo
    /\ s \in EligiblePool(enq.c)
    /\ enq' = [enq EXCEPT
                !.todo = @ \ {p},
                !.cca = @ \cup {<<p, s>>},
                !.rows = IF campaign[enq.c] = "running"
                         THEN Append(@, NewRow(enq.c, p, s)) ELSE @]
    /\ UNCHANGED <<campaign, restriction, online, queue, cca, conv, worker, spent, late, txn>>

\* No sender is available (or the savepoint of this contact was rolled back).
SkipContact(p) ==
    /\ ~Between /\ p \in enq.todo
    /\ enq' = [enq EXCEPT !.todo = @ \ {p}]
    /\ UNCHANGED <<campaign, restriction, online, queue, cca, conv, worker, spent, late, txn>>

\* INSERT ... ON CONFLICT DO NOTHING of the batch's assignments.
Assigned(staged) ==
    [cca EXCEPT ![enq.c] = [p \in Contacts |->
        IF @[p] = NoSender /\ \E s \in Senders : <<p, s>> \in staged
        THEN CHOOSE s \in Senders : <<p, s>> \in staged
        ELSE @[p]]]

CommitBatch ==
    /\ ~Between /\ enq.todo = {}
    /\ queue' = queue \o enq.rows
    /\ cca' = Assigned(enq.cca)
    /\ enq' = NoBatch
    /\ UNCHANGED <<campaign, restriction, online, conv, worker, spent, late, txn>>

\* What ends a transaction the worker has opened.
EnqueueStep ==
    \/ \E s \in Senders : Sweep(s)
    \/ \E c \in Campaigns : EvenSplit(c)
    \/ \E p \in Contacts, s \in Senders : StageContact(p, s)
    \/ \E p \in Contacts : SkipContact(p)
    \/ CommitBatch

EnqueueNext ==
    \/ \E s \in Senders : SweepReads(s)
    \/ \E c \in Campaigns : EvenSplitReads(c) \/ Autopause(c)
    \/ \E c \in Campaigns, todo \in SUBSET Contacts : OpenBatch(c, todo)
    \/ EnqueueStep
=============================================================================
