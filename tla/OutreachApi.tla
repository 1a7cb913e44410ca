----------------------------- MODULE OutreachApi -----------------------------
(***************************************************************************)
(* What reaches the shared tables from outside the two workers: the        *)
(* campaign endpoints (routers/campaigns.py), the inbox endpoints          *)
(* (routers/conversations.py), and the listener process                    *)
(* (services/listener.py), which hears about restrictions and replies.     *)
(***************************************************************************)
EXTENDS QueueState

-----------------------------------------------------------------------------
(* Campaign lifecycle: each endpoint is one transaction.                    *)

\* _check_sender_lock: no other running campaign shares a sender.
LockFree(c) ==
    \A d \in Campaigns \ {c} : campaign[d] = "running" => Pool[c] \cap Pool[d] = {}

\* start (draft or paused, at least one sender) and resume (paused only).
Start(c) ==
    /\ \/ campaign[c] \in {"draft", "paused"} /\ Pool[c] # {}
       \/ campaign[c] = "paused"
    /\ LockFree(c)
    /\ campaign' = [campaign EXCEPT ![c] = "running"]
    /\ UNCHANGED <<restriction, online, queue, cca, conv, worker, enq, spent, late, txn>>

Pause(c) ==
    /\ campaign[c] = "running"
    /\ campaign' = [campaign EXCEPT ![c] = "paused"]
    /\ UNCHANGED <<restriction, online, queue, cca, conv, worker, enq, spent, late, txn>>

\* Slip: every row of the campaign is cancelled, not only the pending ones.
FinishAll(c) ==
    /\ campaign[c] \in {"running", "paused"}
    /\ campaign' = [campaign EXCEPT ![c] = "done"]
    /\ queue' = [i \in Ids |->
            IF queue[i].c = c THEN [queue[i] EXCEPT !.st = "cancelled"] ELSE queue[i]]
    /\ UNCHANGED <<restriction, online, cca, conv, worker, enq, spent, late, txn>>

\* finish and its alias stop, with _cancel_pending_queue in the same transaction.
Finish(c) ==
    /\ campaign[c] \in {"running", "paused"}
    /\ campaign' = [campaign EXCEPT ![c] = "done"]
    /\ queue' = [i \in Ids |->
            IF queue[i].c = c /\ queue[i].st = "pending"
            THEN [queue[i] EXCEPT !.st = "cancelled"] ELSE queue[i]]
    /\ UNCHANGED <<restriction, online, cca, conv, worker, enq, spent, late, txn>>

\* Slip: the newest finished row, delivered or not.
RequeuedFinished(c) ==
    {i \in WithStatus("failed") \cup WithStatus("sent") :
        /\ queue[i].c = c
        /\ \A j \in SameContact(i) : queue[j].st = "failed" => j <= i}

\* requeue_failed: per recipient the newest failed row of the campaign.
Requeued(c) ==
    {i \in WithStatus("failed") :
        /\ queue[i].c = c
        /\ \A j \in SameContact(i) : queue[j].st = "failed" => j <= i}

RequeueFailed(c) ==
    /\ Requeued(c) # {}
    /\ Spend("requeue")
    /\ queue' = [i \in Ids |->
            IF i \in Requeued(c)
            THEN [queue[i] EXCEPT !.st = "pending", !.att = 0, !.reopens = @ + 1]
            ELSE queue[i]]
    /\ UNCHANGED <<campaign, restriction, online, cca, conv, worker, enq, late, txn>>

-----------------------------------------------------------------------------
(* Inbox: takeover by a manager, and back.                                  *)

\* Slip: rows in flight are failed too.
TakeoverInFlight(s, p) ==
    /\ conv[s][p] # "none"
    /\ Spend("takeover")
    /\ conv' = [conv EXCEPT ![s][p] = "manual"]
    /\ queue' = [i \in Ids |->
            IF queue[i].p = p /\ queue[i].st \in {"pending", "processing"}
            THEN [queue[i] EXCEPT !.st = "failed"] ELSE queue[i]]
    /\ UNCHANGED <<campaign, restriction, online, cca, worker, enq, late, txn>>

\* disable_ai, and the takeover half of send: AI off, and every pending row
\* for the phone fails, whoever its sender is.
Takeover(s, p) ==
    /\ conv[s][p] # "none"
    /\ Spend("takeover")
    /\ conv' = [conv EXCEPT ![s][p] = "manual"]
    /\ queue' = [i \in Ids |->
            IF queue[i].p = p /\ queue[i].st = "pending"
            THEN [queue[i] EXCEPT !.st = "failed"] ELSE queue[i]]
    /\ UNCHANGED <<campaign, restriction, online, cca, worker, enq, late, txn>>

EnableAi(s, p) ==
    /\ conv[s][p] = "manual"
    /\ conv' = [conv EXCEPT ![s][p] = "ai"]
    /\ UNCHANGED <<campaign, restriction, online, queue, cca, worker, enq, spent, late, txn>>

-----------------------------------------------------------------------------
(* Listener.                                                                *)

\* An inbound message: the dialog exists from now on, and handle_no_reply_revert
\* cancels the pending rows of that sender and phone (of one campaign when the
\* conversation knows its campaign, else of all).
Inbound(s, p, cs) ==
    /\ Spend("inbound")
    /\ conv' = [conv EXCEPT ![s][p] = IF @ = "none" THEN "ai" ELSE @]
    /\ queue' = [i \in Ids |->
            IF queue[i].s = s /\ queue[i].p = p /\ queue[i].c \in cs
               /\ queue[i].st = "pending"
            THEN [queue[i] EXCEPT !.st = "cancelled"] ELSE queue[i]]
    /\ UNCHANGED <<campaign, restriction, online, cca, worker, enq, late, txn>>

\* _handle_antispam_signal: flag (a frozen sender stays frozen) and failover in
\* one transaction, which does not see s in the pool it reads.
SignalReads(s) ==
    /\ Spend("flag")
    /\ Opens("listener", "signal", s, Eligible \ {s}, {})
    /\ UNCHANGED <<campaign, restriction, online, queue, cca, conv, worker, enq, late>>

AntispamSignal(s, status) ==
    /\ txn["listener"].op = "signal" /\ txn["listener"].on = s
    /\ txn' = [Lapsing(s) EXCEPT !["listener"] = NoTxn]
    /\ restriction' = [restriction EXCEPT ![s] = IF @ = "frozen" THEN @ ELSE status]
    /\ Failover(s, txn["listener"].pool)
    /\ UNCHANGED <<campaign, online, conv, worker, enq, spent, late>>

\* rebalance_on_attach for the campaigns of s once it is healthy again, after the
\* pool SELECT returned read: cold rows of senders outside the pool are evacuated
\* to the pool, and some movable rows (how many is left open here) come over to s.
PullBack(s, read) ==
    LET pool(c) == Pool[c] \cap read
        mine == {c \in Campaigns : s \in pool(c)}
        stranded == {i \in Ids : queue[i].c \in mine /\ Cold(i)
                                 /\ queue[i].s \notin pool(queue[i].c)}
        movable == {i \in Ids : queue[i].c \in mine /\ Movable(i)
                                /\ queue[i].s \in pool(queue[i].c) \ {s}}
    IN  \E extra \in SUBSET movable :
        \E recv \in [stranded \cup extra -> Senders] :
            /\ \A i \in stranded : recv[i] \in pool(queue[i].c)
            /\ \A i \in extra : recv[i] = s
            /\ queue' = [i \in Ids |-> IF i \in stranded \cup extra
                                       THEN [queue[i] EXCEPT !.s = recv[i]] ELSE queue[i]]
            /\ cca' = CcaFollows(stranded \cup extra, recv)

\* _restriction_reconcile_tick and the SpamBot endpoint, SpamBot says free: the
\* transaction reads s as unrestricted already.
ClearReads(s) ==
    /\ restriction[s] # "none"
    /\ Opens("listener", "clear", s, Eligible \cup {t \in {s} : online[t]}, {})
    /\ UNCHANGED <<campaign, restriction, online, queue, cca, conv, worker, enq, spent, late>>

Clear(s) ==
    /\ Commits("listener", "clear", s)
    /\ restriction' = [restriction EXCEPT ![s] = "none"]
    /\ PullBack(s, txn["listener"].pool)
    /\ UNCHANGED <<campaign, online, conv, worker, enq, spent, late>>

\* _restriction_reconcile_tick, SpamBot reports a freeze on a limited sender.
Escalate(s) ==
    /\ restriction[s] = "spam_limited" /\ ~Locked(s)
    /\ restriction' = [restriction EXCEPT ![s] = "frozen"]
    /\ UNCHANGED <<campaign, online, queue, cca, conv, worker, enq, spent, late, txn>>

\* A sender is paused, banned (SpamBot: suspended) or loses its session.
GoOffline(s) ==
    /\ online[s] /\ ~Locked(s)
    /\ Spend("auth")
    /\ online' = [online EXCEPT ![s] = FALSE]
    /\ txn' = Lapsing(s)
    /\ UNCHANGED <<campaign, restriction, queue, cca, conv, worker, enq, late>>

\* It is activated or logged in again.
GoOnline(s) ==
    /\ ~online[s] /\ ~Locked(s)
    /\ online' = [online EXCEPT ![s] = TRUE]
    /\ UNCHANGED <<campaign, restriction, queue, cca, conv, worker, enq, spent, late, txn>>

ApiNext ==
    \/ \E c \in Campaigns : Start(c) \/ Pause(c) \/ Finish(c) \/ RequeueFailed(c)
    \/ \E s \in Senders, p \in Contacts :
          \/ Takeover(s, p) \/ EnableAi(s, p)
          \/ \E cs \in {Campaigns} \cup {{c} : c \in Campaigns} : Inbound(s, p, cs)
    \/ \E s \in Senders :
          \/ \E status \in {"spam_limited", "frozen"} : AntispamSignal(s, status)
          \/ SignalReads(s) \/ ClearReads(s) \/ Clear(s) \/ Escalate(s) \/ GoOffline(s) \/ GoOnline(s)
=============================================================================
