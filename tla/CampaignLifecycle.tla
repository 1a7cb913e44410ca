-------------------------- MODULE CampaignLifecycle --------------------------
(***************************************************************************)
(* The campaign endpoints (routers/campaigns.py) as the requests they are: *)
(* each loads the campaign, checks what it must, and writes at its commit, *)
(* under READ COMMITTED and without row locks, while other requests and    *)
(* the workers commit in between.  The write of campaigns.status is an ORM *)
(* UPDATE by id: it does not look at the status again.  OutreachApi has    *)
(* the same endpoints as single steps.  POST /send is one request more.    *)
(* An opener is cold while nothing was sent to its recipient and they have *)
(* no conversation: only for those does a detach wait (D-04, D-05).        *)
(* Accounts are not deleted here.                                          *)
(***************************************************************************)
EXTENDS Naturals, FiniteSets

CONSTANTS
    Campaigns,      \* campaign ids
    Senders,        \* Telegram accounts of the workspace
    Requests,       \* HTTP requests that may be in flight at once
    NoCampaign,     \* auto-pause has not decided on any
    NoSender,       \* the request names no sender
    MaxIssued,      \* bound: requests in a behaviour
    MaxOpen         \* bound: openers cold, held, parked and in a batch, together

ASSUME NullAssumption == NoCampaign \notin Campaigns /\ NoSender \notin Senders
ASSUME FiniteAssumption == IsFiniteSet(Senders)
ASSUME BoundAssumption == MaxIssued \in Nat /\ MaxOpen \in Nat

VARIABLES
    status,     \* campaigns.status; "gone" once deleted
    pool,       \* campaign_senders
    cold,       \* <<c, s>>: s has cold pending openers in c
    sending,    \* <<c, s>>: the queue worker holds a cold opener of s in c
    parked,     \* <<c, s>>: openers of s in c that failed, or got a conversation
    batch,      \* openers a worker has written and not committed, of one campaign
    decided,    \* the campaign _maybe_autopause found blocked, before its UPDATE
    req,        \* the requests in flight
    issued,     \* requests so far
    raced       \* history: kinds of conflicting transactions that overlapped

vars == <<status, pool, cold, sending, parked, batch, decided, req, issued, raced>>

\* The bound on the openers, in the guard of every action that adds some.
Few == Cardinality(cold) + Cardinality(sending) + Cardinality(parked)
         + Cardinality(batch) <= MaxOpen

-----------------------------------------------------------------------------
(* Requests.                                                                *)

Starting == {"start", "resume"}
PoolOp == {"attach", "detach"}
SenderOp == PoolOp \cup {"send"}
\* These read nothing more that decides.
Unchecked == {"pause", "finish", "delete", "requeue", "send"}
Op == Starting \cup PoolOp \cup Unchecked

\* seen is the status the endpoint loaded.
Idle == [pc |-> "idle"]
Request == [pc: {"loaded", "checked"}, op: Op, c: Campaigns,
            s: Senders \cup {NoSender}, seen: {"draft", "running", "paused", "done"}]

InFlight == {r \in Requests : req[r] # Idle}

\* Slip: a running campaign may be deleted.
AcceptsAnyDelete(op, st) ==
    CASE op = "start" -> st \in {"draft", "paused"}
      [] op = "resume" -> st = "paused"
      [] op \in {"pause", "send"} -> st = "running"
      [] op = "finish" -> st \in {"running", "paused"}
      [] op \in PoolOp \cup {"delete", "requeue"} -> TRUE

\* INVALID_TRANSITION, CAMPAIGN_RUNNING and CAMPAIGN_NOT_RUNNING, decided on the loaded status.
Accepts(op, st) ==
    CASE op = "start" -> st \in {"draft", "paused"}
      [] op = "resume" -> st = "paused"
      [] op \in {"pause", "send"} -> st = "running"
      [] op = "finish" -> st \in {"running", "paused"}
      [] op = "delete" -> st # "running"
      [] op \in PoolOp \cup {"requeue"} -> TRUE

\* The overlaps that matter, between a request and another transaction.
LockOps == Starting \cup {"attach"}

Races(x, y) ==
    LET ops == {x.op, y.op}
        among(k, S) == IF S THEN {k} ELSE {}
    IN  among("lock", /\ ops \subseteq LockOps
                      /\ x.c = y.c => "attach" \in ops /\ ops # {"attach"})
        \cup among("revive", /\ x.c = y.c /\ "finish" \in ops
                             /\ ops \cap (Starting \cup {"pause"}) # {})
        \cup among("delete", x.c = y.c /\ "delete" \in ops /\ ops \cap Starting # {})
        \cup among("lastsender", /\ x.c = y.c /\ "detach" \in ops
                                 /\ ops \subseteq Starting \cup {"detach"})
        \cup among("strand", x.c = y.c /\ ops = PoolOp)

\* Openers of c are written while a detach from c is in flight.
StrandRace(c) ==
    IF \E r \in InFlight : req[r].op = "detach" /\ req[r].c = c THEN {"strand"} ELSE {}

\* Openers W of c are written for whoever has them, in the pool or not.
AstrayRace(c, W) ==
    StrandRace(c) \cup (IF \A w \in W : w[2] \in pool[c] THEN {} ELSE {"astray"})

\* _load_campaign and the transition guard.
Load(r, op, c, s) ==
    /\ req[r] = Idle
    /\ issued < MaxIssued
    /\ status[c] # "gone"
    /\ Accepts(op, status[c])
    /\ LET x == [pc |-> IF op \in Unchecked THEN "checked" ELSE "loaded", op |-> op,
                 c |-> c, s |-> s, seen |-> status[c]]
       IN  /\ req' = [req EXCEPT ![r] = x]
           /\ raced' = raced \cup (UNION {Races(x, req[q]) : q \in InFlight})
                  \cup (IF op = "detach" /\ \E t \in Senders : <<c, t>> \in batch
                        THEN {"strand"} ELSE {})
    /\ issued' = issued + 1
    /\ UNCHANGED <<status, pool, cold, sending, parked, batch, decided>>

\* _check_sender_lock: no other running campaign holds one of these senders.
LockFree(c, senders) ==
    \A d \in Campaigns \ {c} : status[d] = "running" => pool[d] \cap senders = {}

\* Slip: a pool of one counts as enough.
MayDetachLast(x) ==
    /\ x.seen = "running" => Cardinality(pool[x.c]) >= 1
    /\ <<x.c, x.s>> \notin cold

\* Slip: waiting openers are not looked at.
MayDetachLoaded(x) == x.seen = "running" => Cardinality(pool[x.c]) > 1

\* The detach guards: the last sender of a campaign loaded as running, and
\* openers of the sender still waiting.
MayDetach(x) ==
    /\ x.seen = "running" => Cardinality(pool[x.c]) > 1
    /\ <<x.c, x.s>> \notin cold

\* Slip: attach looks at the pool before its own insert, as start does.
PassesWithoutInsert(x) ==
    CASE x.op = "start" -> pool[x.c] # {} /\ LockFree(x.c, pool[x.c])
      [] x.op = "resume" -> LockFree(x.c, pool[x.c])
      [] x.op = "attach" -> x.s \notin pool[x.c] /\ LockFree(x.c, pool[x.c])
      [] x.op = "detach" -> MayDetach(x)

\* What each endpoint reads before it writes.
Passes(x) ==
    CASE x.op = "start" -> pool[x.c] # {} /\ LockFree(x.c, pool[x.c])
      [] x.op = "resume" -> LockFree(x.c, pool[x.c])
      [] x.op = "attach" -> x.s \notin pool[x.c] /\ LockFree(x.c, {x.s})
      [] x.op = "detach" -> MayDetach(x)

Check(r) ==
    /\ req[r] # Idle /\ req[r].pc = "loaded"
    /\ Passes(req[r])
    /\ req' = [req EXCEPT ![r].pc = "checked"]
    /\ raced' = raced \cup (IF req[r].op = "detach" /\ <<req[r].c, req[r].s>> \in sending
                           THEN {"sending"} ELSE {})
    /\ UNCHANGED <<status, pool, cold, sending, parked, batch, decided, issued>>

\* 4xx: a check failed, here or in a part not modelled (readiness, warmup gate,
\* checker role); or the process restarted and the transaction rolled back.
Refuse(r) ==
    /\ req[r] # Idle
    /\ req' = [req EXCEPT ![r] = Idle]
    /\ UNCHANGED <<status, pool, cold, sending, parked, batch, decided, issued, raced>>

Checked(r, ops) ==
    /\ req[r] # Idle /\ req[r].pc = "checked" /\ req[r].op \in ops
    /\ status[req[r].c] # "gone"    \* else the UPDATE or the insert fails
    /\ req' = [req EXCEPT ![r] = Idle]

\* start, resume and pause: one status, whatever it has become since.
WriteStatus(r) ==
    /\ Checked(r, Starting \cup {"pause"})
    /\ status' = [status EXCEPT ![req[r].c] =
                    IF req[r].op = "pause" THEN "paused" ELSE "running"]
    /\ UNCHANGED <<pool, cold, sending, parked, batch, decided, issued, raced>>

\* finish, and its alias stop: done, and the visible pending rows cancelled.
WriteFinish(r) ==
    /\ Checked(r, {"finish"})
    /\ status' = [status EXCEPT ![req[r].c] = "done"]
    /\ cold' = {w \in cold : w[1] # req[r].c}
    /\ UNCHANGED <<pool, sending, parked, batch, decided, issued, raced>>

\* Slip: campaign_senders does not cascade.
DeleteKeepsPool(r) ==
    /\ Checked(r, {"delete"})
    /\ \A w \in batch : w[1] # req[r].c
    /\ status' = [status EXCEPT ![req[r].c] = "gone"]
    /\ cold' = {w \in cold : w[1] # req[r].c}
    /\ sending' = {w \in sending : w[1] # req[r].c}
    /\ parked' = {w \in parked : w[1] # req[r].c}
    /\ UNCHANGED <<pool, batch, decided, issued, raced>>

\* delete: campaign_senders cascades, rows are cancelled or lose the campaign.
\* The DELETE waits for the rows and the key-share lock an open batch holds.
WriteDelete(r) ==
    /\ Checked(r, {"delete"})
    /\ \A w \in batch : w[1] # req[r].c
    /\ status' = [status EXCEPT ![req[r].c] = "gone"]
    /\ pool' = [pool EXCEPT ![req[r].c] = {}]
    /\ cold' = {w \in cold : w[1] # req[r].c}
    /\ sending' = {w \in sending : w[1] # req[r].c}
    /\ parked' = {w \in parked : w[1] # req[r].c}
    /\ UNCHANGED <<batch, decided, issued, raced>>

\* attach: the insert, and, when the campaign was loaded as running,
\* rebalance_on_attach: rows of ineligible or overloaded accounts go to the pool.
\* Who is eligible is left open.
WriteAttach(r) ==
    /\ Checked(r, {"attach"})
    /\ LET c == req[r].c
           grown == pool[c] \cup {req[r].s}
           mine == {w \in cold : w[1] = c}
       IN  /\ pool' = [pool EXCEPT ![c] = grown]
           /\ IF req[r].seen = "running"
              THEN \E left \in SUBSET mine, to \in SUBSET ({c} \X grown) :
                      /\ (left # mine => to # {}) /\ (to # {} => mine # {})
                      /\ cold' = left \cup to \cup (cold \ mine)
              ELSE cold' = cold
    /\ UNCHANGED <<status, sending, parked, batch, decided, issued, raced>>
    /\ Few'

WriteDetach(r) ==
    /\ Checked(r, {"detach"})
    /\ pool' = [pool EXCEPT ![req[r].c] = @ \ {req[r].s}]
    /\ UNCHANGED <<status, cold, sending, parked, batch, decided, issued, raced>>

\* requeue_failed: failed rows are pending again, the last of each recipient,
\* on the senders they had.  Neither the status nor the pool is looked at.
WriteRequeue(r) ==
    /\ Checked(r, {"requeue"})
    /\ \E W \in SUBSET {w \in parked : w[1] = req[r].c} :
          /\ cold' = cold \cup W
          /\ parked' \in {parked, parked \ W}
          /\ raced' = raced \cup AstrayRace(req[r].c, W)
    /\ UNCHANGED <<status, pool, sending, batch, decided, issued>>
    /\ Few'

\* send_message: one row for the account the request names, which need not be
\* in the pool; a recipient with a conversation makes it no cold opener.
WriteSend(r) ==
    /\ Checked(r, {"send"})
    /\ LET w == <<req[r].c, req[r].s>>
       IN  /\ \E hidden \in SUBSET {w} :
                 cold' = cold \cup ({w} \ hidden) /\ parked' = parked \cup hidden
           /\ raced' = raced \cup AstrayRace(req[r].c, {w})
    /\ UNCHANGED <<status, pool, sending, batch, decided, issued>>
    /\ Few'

-----------------------------------------------------------------------------
(* Workers, and what befalls the openers.                                   *)

Writes(c, t) ==
    /\ \A w \in batch : w[1] = c
    /\ t \in pool[c]
    /\ batch' = batch \cup {<<c, t>>}
    /\ raced' = raced \cup StrandRace(c)
    /\ UNCHANGED <<status, pool, cold, sending, parked, decided, req, issued>>
    /\ Few'

\* _tick_one_campaign: a row for a sender of the pool, guarded by the status.
Stage(c, t) == status[c] = "running" /\ Writes(c, t)

\* Failover, reroute and the even split, and the suspect rollback of failed
\* openers: openers of s go to a sender of the pool.
Move(c, s, t) == <<c, s>> \in cold \cup sending \cup parked /\ s # t /\ Writes(c, t)

\* The rows the batch moved leave the senders they had.
CommitBatch ==
    /\ batch # {}
    /\ \E left \in SUBSET {w \in cold : \E b \in batch : b[1] = w[1]} :
          cold' = (cold \ left) \cup batch
    /\ batch' = {}
    /\ UNCHANGED <<status, pool, sending, parked, decided, req, issued, raced>>

\* The queue worker claims an opener, one of several perhaps.
Claim(c, s) ==
    /\ status[c] = "running" /\ <<c, s>> \in cold
    /\ \E more \in SUBSET {<<c, s>>} : cold' = (cold \ {<<c, s>>}) \cup more
    /\ sending' = sending \cup {<<c, s>>}
    /\ UNCHANGED <<status, pool, parked, batch, decided, req, issued, raced>>
    /\ Few'

\* It is sent or fails, or goes back to pending: a failed attempt, FLOOD_WAIT,
\* a restart.  Nothing here looks at the pool or the status.
Settle(c, s) ==
    /\ <<c, s>> \in sending
    /\ \E back, more, lost \in SUBSET {<<c, s>>} :
          /\ cold' = cold \cup back
          /\ sending' = (sending \ {<<c, s>>}) \cup more
          /\ parked' = parked \cup lost
    /\ UNCHANGED <<status, pool, batch, decided, req, issued, raced>>
    /\ Few'

\* The recipient gets a conversation, or a takeover fails the pending opener.
Park(c, s) ==
    /\ <<c, s>> \in cold
    /\ \E more \in SUBSET {<<c, s>>} : cold' = (cold \ {<<c, s>>}) \cup more
    /\ parked' = parked \cup {<<c, s>>}
    /\ UNCHANGED <<status, pool, sending, batch, decided, req, issued, raced>>
    /\ Few'

\* The conversation is deleted: its opener is cold again, pending or held.
Forget(c, s) ==
    /\ <<c, s>> \in parked
    /\ \E held \in SUBSET {<<c, s>>} :
          /\ cold' = cold \cup ({<<c, s>>} \ held)
          /\ sending' = sending \cup held
    /\ parked' \in {parked, parked \ {<<c, s>>}}
    /\ raced' = raced \cup AstrayRace(c, {<<c, s>>})
    /\ UNCHANGED <<status, pool, batch, decided, req, issued>>
    /\ Few'

\* _maybe_autopause: no sender can send (restrictions are left open here).
Decide(c) ==
    /\ decided = NoCampaign
    /\ status[c] = "running"
    /\ decided' = c
    /\ UNCHANGED <<status, pool, cold, sending, parked, batch, req, issued, raced>>

\* Slip: the UPDATE without AND status = 'running'.
AutopauseBlind ==
    /\ decided # NoCampaign
    /\ status' = [status EXCEPT ![decided] = IF @ # "gone" THEN "paused" ELSE @]
    /\ decided' = NoCampaign
    /\ UNCHANGED <<pool, cold, sending, parked, batch, req, issued, raced>>

\* Its UPDATE ... AND status = 'running'.
Autopause ==
    /\ decided # NoCampaign
    /\ status' = [status EXCEPT ![decided] = IF @ = "running" THEN "paused" ELSE @]
    /\ decided' = NoCampaign
    /\ UNCHANGED <<pool, cold, sending, parked, batch, req, issued, raced>>

\* _pause_expired_campaigns: the stop date has passed.
Expire(c) ==
    /\ status[c] = "running"
    /\ status' = [status EXCEPT ![c] = "paused"]
    /\ UNCHANGED <<pool, cold, sending, parked, batch, decided, req, issued, raced>>

-----------------------------------------------------------------------------

\* Drafts, with the senders create_campaign was given.
Init ==
    /\ status = [c \in Campaigns |-> "draft"]
    /\ pool \in [Campaigns -> SUBSET Senders]
    /\ cold = {} /\ sending = {} /\ parked = {} /\ batch = {} /\ decided = NoCampaign
    /\ req = [r \in Requests |-> Idle]
    /\ issued = 0
    /\ raced = {}

RequestStep(r) ==
    \/ \E c \in Campaigns :
          \/ \E op \in SenderOp, s \in Senders : Load(r, op, c, s)
          \/ \E op \in Op \ SenderOp : Load(r, op, c, NoSender)
    \/ Check(r) \/ Refuse(r)
    \/ WriteStatus(r) \/ WriteFinish(r) \/ WriteDelete(r)
    \/ WriteAttach(r) \/ WriteDetach(r)
    \/ WriteRequeue(r) \/ WriteSend(r)

WorkerStep ==
    \/ \E c \in Campaigns, s \in Senders :
          Stage(c, s) \/ Claim(c, s) \/ Settle(c, s) \/ Park(c, s) \/ Forget(c, s)
    \/ \E c \in Campaigns, s, t \in Senders : Move(c, s, t)
    \/ \E c \in Campaigns : Decide(c) \/ Expire(c)
    \/ CommitBatch \/ Autopause

Next == WorkerStep \/ \E r \in Requests : RequestStep(r)

Spec == Init /\ [][Next]_vars

-----------------------------------------------------------------------------
(* Properties.                                                              *)

\* Every table has its shape, and a deleted campaign left no pool, openers or
\* open inserts (the foreign keys of campaign_senders and message_queue).
LifecycleTypeOK ==
    /\ status \in [Campaigns -> {"draft", "running", "paused", "done", "gone"}]
    /\ pool \in [Campaigns -> SUBSET Senders]
    /\ cold \cup sending \cup parked \cup batch \subseteq Campaigns \X Senders
    /\ decided \in Campaigns \cup {NoCampaign}
    /\ req \in [Requests -> Request \cup {Idle}]
    /\ issued \in 0..MaxIssued
    /\ raced \subseteq {"lock", "revive", "delete", "lastsender", "strand", "sending",
                  "astray"}
    /\ \A c \in Campaigns : status[c] = "gone" =>
          pool[c] = {} /\ \A w \in cold \cup sending \cup parked \cup batch : w[1] # c

\* "running campaigns share no sender" (CAMP-04, tests/test_sender_lock.py:4).
SendersAreLocked ==
    \A c, d \in Campaigns :
        status[c] = "running" /\ status[d] = "running" /\ c # d
            => pool[c] \cap pool[d] = {}

\* The sender lock holds unless two of start, resume and attach overlapped: no
\* pause, finish, delete, detach or worker can break it.
LockUnlessRaced == "lock" \notin raced => SendersAreLocked

\* A finished campaign stays finished unless the finish overlapped a start, a
\* resume or a pause that had loaded it before: the workers never revive it.
DoneUnlessRaced ==
    [][\A c \in Campaigns :
        status[c] = "done" /\ "revive" \notin raced => status'[c] \in {"done", "gone"}]_vars

\* A running campaign is deleted only by a delete that overlapped its start.
RunningNotDeleted ==
    [][\A c \in Campaigns :
        status[c] = "running" /\ "delete" \notin raced => status'[c] # "gone"]_vars

\* A running campaign loses its last sender only to two detaches at once, or to
\* a detach that overlapped its start (MIN_POOL_GUARD, campaigns.py:1573).
KeepsLastSender ==
    [][\A c \in Campaigns :
        status[c] = "running" /\ pool[c] # {} /\ "lastsender" \notin raced
            => pool'[c] # {} \/ status'[c] = "gone"]_vars

\* Cold openers wait only on attached senders, with three ways around the detach
\* guard.  strand: openers of the campaign are written while a detach is in flight.
\* sending: one is being sent and its attempt fails, the guard looks for pending
\* rows only (D-04).  astray: requeue-failed, a direct send, or deleting the
\* conversation that hid an opener from the guard gives openers to a sender that
\* is not in the pool: none of them looks there (campaigns.py:873, send.py:163).
OpenersOnPool ==
    raced \cap {"strand", "sending", "astray"} = {}
        => \A w \in cold \cup sending \cup batch : w[2] \in pool[w[1]]
=============================================================================
