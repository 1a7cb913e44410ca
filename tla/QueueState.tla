----------------------------- MODULE QueueState -----------------------------
(***************************************************************************)
(* The database tables the outreach pipeline shares, and the predicates    *)
(* its workers evaluate over them.                                         *)
(*                                                                         *)
(*   message_queue                 -> queue, a sequence of rows by id      *)
(*   campaign_contact_assignments  -> cca, the sticky sender of a contact  *)
(*   campaigns.status              -> campaign                             *)
(*   senders.restriction_status    -> restriction                          *)
(*   senders lifecycle and auth    -> online                               *)
(*   conversations                 -> conv                                 *)
(*                                                                         *)
(* Two asyncio tasks keep a position of their own: the queue worker        *)
(* (worker) and the campaign enqueue worker (enq, its open transaction).   *)
(* One transaction of the code is one action, unless it reads the accounts *)
(* first and moves rows to them later (txn); what a coroutine does between *)
(* two commits or around a Telegram call is several actions.  Clock time   *)
(* (scheduled_at, working windows, pacing) is abstracted: a row that is    *)
(* pending may or may not be due.                                          *)
(***************************************************************************)
EXTENDS Integers, Sequences, FiniteSets

CONSTANTS
    Campaigns,          \* campaign ids
    Contacts,           \* identity keys (phone or @username) of the folder
    Senders,            \* Telegram accounts of the workspace
    NoSender,           \* "no row" in campaign_contact_assignments
    NoCampaign,         \* the enqueue worker has no open transaction
    Pool,               \* campaign_senders: the accounts of each campaign
    FileCampaigns,      \* campaigns with an attachment (item_type = 'file')
    MaxAttempts,        \* queue.py MAX_ATTEMPTS
    ResolveRotationCap, \* queue.py RESOLVE_ROTATION_CAP
    ColdFailReleaseCap, \* queue.py COLD_FAIL_RELEASE_CAP
    MaxRows,            \* bound: rows message_queue may hold
    Budget              \* bound: how often each environment event occurs

Events == {"crash", "lost", "flag", "verdict", "auth", "requeue",
           "takeover", "inbound"}

ASSUME PoolAssumption == Pool \in [Campaigns -> SUBSET Senders]
ASSUME NullAssumption == NoSender \notin Senders /\ NoCampaign \notin Campaigns
ASSUME FileAssumption == FileCampaigns \subseteq Campaigns
ASSUME BoundAssumption ==
    /\ MaxAttempts \in Nat \ {0}
    /\ ResolveRotationCap \in Nat \ {0}
    /\ ColdFailReleaseCap \in Nat \ {0}
    /\ MaxRows \in Nat
    /\ Budget \in [Events -> Nat]

VARIABLES
    campaign,     \* campaigns.status
    restriction,  \* senders.restriction_status
    online,       \* lifecycle 'active' and auth 'ok'; role stays 'sender'
    queue,        \* message_queue
    cca,          \* campaign_contact_assignments
    conv,         \* conversations with at least one message, by sender and contact
    worker,       \* the queue worker: where it stands, its sender and row
    enq,          \* the enqueue worker's open per-campaign transaction
    txn,          \* transactions that have read the accounts and not moved rows yet
    spent,        \* environment events so far, at most Budget of each
    late          \* history: messages delivered into a taken-over conversation

vars == <<campaign, restriction, online, queue, cca, conv, worker, enq, spent, late, txn>>

-----------------------------------------------------------------------------
(* Rows.  copies and reopens are history, read by properties only: how      *)
(* many times Telegram delivered the row, and how many times a finished row *)
(* was put back to pending.                                                 *)

RowStatus == {"pending", "processing", "sent", "failed", "cancelled"}

Row == [st: RowStatus, c: Campaigns, p: Contacts, s: Senders,
        att: 0..MaxAttempts,              \* attempts
        tried: SUBSET Senders,            \* extra_data.nr_tried_senders
        mark: Senders \cup {NoSender},    \* extra_data.resolve_fail_sender
        copies: Nat, reopens: Nat]

NewRow(c, p, s) ==
    [st |-> "pending", c |-> c, p |-> p, s |-> s, att |-> 0, tried |-> {},
     mark |-> NoSender, copies |-> 0, reopens |-> 0]

Ids == DOMAIN queue
WithStatus(st) == {i \in Ids : queue[i].st = st}
SameContact(i) == {j \in Ids : queue[j].c = queue[i].c /\ queue[j].p = queue[i].p}

Worker == [pc: {"idle", "gated", "picked", "sending", "acked", "unresolved",
                "flagged", "evacuated", "failing", "authdead"},
           s: Senders \cup {NoSender}, id: Nat]
IdleWorker == [pc |-> "idle", s |-> NoSender, id |-> 0]

Batch == [c: Campaigns \cup {NoCampaign}, todo: SUBSET Contacts,
          cca: SUBSET (Contacts \X Senders), rows: Seq(Row)]
NoBatch == [c |-> NoCampaign, todo |-> {}, cca |-> {}, rows |-> <<>>]

(* Moving rows: a service reads the eligible accounts with one SELECT, then *)
(* locks and updates rows, and commits; nothing locks the accounts.  A      *)
(* transaction keeps what it has read: the eligible accounts and, where it  *)
(* looked at the status, the running campaigns; lapsed is history, the      *)
(* accounts of the pool that have become ineligible since.  The pools of    *)
(* all the campaigns one transaction serves are read at once here, and the  *)
(* listener process has at most one such transaction open.                  *)
Movers == {"worker", "enqueue", "listener"}
Txn == [op: {"none", "failover", "rollback", "reroute", "even", "signal", "clear"},
        on: Senders \cup Campaigns \cup {NoSender},
        pool: SUBSET Senders, running: SUBSET Campaigns, lapsed: SUBSET Senders]
NoTxn == [op |-> "none", on |-> NoSender, pool |-> {}, running |-> {}, lapsed |-> {}]

\* The environment event e happens once more, within its bound.
Spend(e) ==
    /\ spent[e] < Budget[e]
    /\ spent' = [spent EXCEPT ![e] = @ + 1]

-----------------------------------------------------------------------------
(* Predicates copied into every query of the services. *)

\* The eligible pool: lifecycle active, auth ok, role sender, unrestricted.
Healthy(s) == online[s] /\ restriction[s] = "none"
EligiblePool(c) == {s \in Pool[c] : Healthy(s)}

\* Slip: whoever is logged in counts.
ReadsOnline == {s \in Senders : online[s]}

\* What the pool SELECT of every mover returns.
Eligible == {s \in Senders : Healthy(s)}
Running == {c \in Campaigns : campaign[c] = "running"}

\* Mover m has read the accounts for operation op on x.
Opens(m, op, x, pool, running) ==
    /\ txn[m] = NoTxn
    /\ txn' = [txn EXCEPT ![m] = [op |-> op, on |-> x, pool |-> pool,
                                  running |-> running, lapsed |-> {}]]

\* Its transaction commits.
Commits(m, op, x) ==
    /\ txn[m].op = op /\ txn[m].on = x
    /\ txn' = [txn EXCEPT ![m] = NoTxn]

\* Account s becomes ineligible after transactions have read it in their pool.
Lapsing(s) ==
    [m \in Movers |-> [txn[m] EXCEPT !.lapsed = @ \cup (txn[m].pool \cap {s})]]

\* The listener has written the row of s and not committed: writers of it wait.
Locked(s) == txn["listener"].op # "none" /\ txn["listener"].on = s

\* A conversation with messages exists for the phone anywhere in the workspace.
HasDialog(p) == \E s \in Senders : conv[s][p] # "none"

\* failover.py: a cold opener nobody has sent or is sending; files are left out.
Failoverable(i) ==
    /\ queue[i].st = "pending"
    /\ queue[i].c \notin FileCampaigns
    /\ \A j \in SameContact(i) : queue[j].st \notin {"sent", "processing"}
    /\ ~HasDialog(queue[i].p)

\* rebalance.py: the same idea, files included, a row in flight ignored.
Cold(i) ==
    /\ queue[i].st = "pending"
    /\ \A j \in SameContact(i) : queue[j].st # "sent"
    /\ ~HasDialog(queue[i].p)

\* rebalance.py: a row in resolve rotation is pinned to its sender.
Movable(i) == Cold(i) /\ queue[i].tried = {}

-----------------------------------------------------------------------------
(* Writes shared by several services. *)

\* Slip: the queue moves, the assignment does not.
CcaStays(M, recv) == cca

\* UPDATE campaign_contact_assignments for the moved rows M: no row, no effect.
CcaFollows(M, recv) ==
    [c \in Campaigns |-> [p \in Contacts |->
        LET ids == {i \in M : queue[i].c = c /\ queue[i].p = p}
        IN  IF ids = {} \/ cca[c][p] = NoSender THEN cca[c][p]
            ELSE recv[CHOOSE i \in ids : \A j \in ids : j <= i]]]

\* failover.py _failover after its pool SELECT returned read: the cold backlog of
\* s, in all its campaigns, goes to those accounts; attempts restart, campaigns
\* without a receiver are skipped.
Failover(s, read) ==
    LET pool(c) == Pool[c] \cap read
        M == {i \in Ids : queue[i].s = s /\ Failoverable(i) /\ pool(queue[i].c) # {}}
    IN  \E recv \in [M -> Senders] :
            /\ \A i \in M : recv[i] \in pool(queue[i].c)
            /\ queue' = [i \in Ids |->
                            IF i \in M THEN [queue[i] EXCEPT !.s = recv[i], !.att = 0]
                            ELSE queue[i]]
            /\ cca' = CcaFollows(M, recv)

\* Slip: the cap compared with <=, one row more.
ReleasesOneTooMany(i) ==
    /\ \A j \in SameContact(i) : queue[j].st # "sent"
    /\ Cardinality({j \in SameContact(i) \ {i} : queue[j].st = "failed"}) + 1
          <= ColdFailReleaseCap

\* The CCA is released by a terminal failure of row i: nothing was ever sent
\* for the contact and fewer than the cap of its rows have failed.
ReleasesContact(i) ==
    /\ \A j \in SameContact(i) : queue[j].st # "sent"
    /\ Cardinality({j \in SameContact(i) \ {i} : queue[j].st = "failed"}) + 1
          < ColdFailReleaseCap

\* Slip: the attempts compared with > instead of >=.
AfterOneMoreFailure(row) ==
    [row EXCEPT !.att = @ + 1,
                !.st = IF row.att + 1 > MaxAttempts THEN "failed" ELSE "pending"]

\* The outcome of _fail_item for a row: retried, or failed for good.
AfterFailure(row) ==
    [row EXCEPT !.att = @ + 1,
                !.st = IF row.att + 1 >= MaxAttempts THEN "failed" ELSE "pending"]

\* _fail_item: one transaction over the row (row carries the caller's stamps,
\* written in the same transaction) and the contact's assignment.
FailItem(i, row) ==
    /\ queue' = [queue EXCEPT ![i] = AfterFailure(row)]
    /\ cca' = IF AfterFailure(row).st = "failed" /\ ReleasesContact(i)
              THEN [cca EXCEPT ![row.c][row.p] = NoSender]
              ELSE cca
=============================================================================
