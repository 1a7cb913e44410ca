# Formal model of the outreach platform

The platform sends opening messages from many Telegram accounts to the contacts
of a campaign, keeps each contact with one account, moves work away from
accounts Telegram restricts, answers dialogs by an AI until a manager takes
over, and keeps a stock of accounts alive: imported or logged in, each on its own
proxy, warmed up, some of them checking which contacts exist. This directory
holds a TLA+ model of the parts where that is decided, the TLC runs that check
it and the theorems TLAPS proves about it.

## The system

One Python process (`src/app/main.py`) serves the API and runs about ten asyncio
workers; a second process runs the Telegram listener. They share nothing but
PostgreSQL: no queue server, no locks beyond row locks, and most workers read,
await a network call, and write by id.

| component | state it keeps | operations | interacts through | hard part |
|---|---|---|---|---|
| queue worker, `services/queue.py`, `failover.py`, `send_suspect.py` | `message_queue`, `senders.long_pause_until` | pick a due row, guard, send, write the outcome, retry, rotate, evacuate, recover | rows, sender flags, assignments, conversations | Telegram call outside any transaction; outcome written by id |
| enqueue worker, `campaign_enqueue.py`, `rotation.py`, `rebalance.py` | one open transaction | sweep, even split, autopause, assign a sender, insert rows | rows, assignments, campaign status | rows are invisible until the batch commits |
| campaign endpoints, `routers/campaigns.py` | `campaigns.status` | start, resume, pause, finish, requeue failed, attach, detach, delete | all of the above | check-then-act, no row locks |
| listener: dialogs, `services/listener.py`, `ai_engine.py` | message buffers, debounce tasks (memory) | inbound message, debounce, answer, signals | conversations, messages, rows | a task is cancelled wherever it waits; memory is lost on restart |
| listener: sessions, `listener.py`, `telegram.py` | clients, connected ids, proxy snapshot (memory) | connect, reconcile, follow a proxy switch, drop a dead key | sender flags | Telegram kills a key seen on two addresses |
| follow-up worker, `follow_up.py` | ping counter of a dialog | ping, mark no-reply, finish | rows, conversations | reply during composition |
| inbox endpoints, `routers/conversations.py` | `conversations` | take over, give back, send by hand, leads | rows of the phone | an answer or a row already in flight |
| contact checker, `contact_check_worker.py`, `checker.py` | claim time per contact, cache | claim, check, judge the batch, bench and recover checkers | contacts, cache, sender flags | a throttled account answers "not registered" |
| accounts, `routers/senders.py`, `proxy_pool.py` | `senders`, `proxy_pool` | create, delete, pause, assign and reclaim ports | sender flags | ports marked after they were chosen |
| account import, `account_import.py`, `account_import_worker.py` | jobs, items | preview, confirm, claim, import one account | senders, ports | dedup before an insert that comes later; crash while processing |
| login wizard, `routers/onboarding.py` | flow rows, one client in memory | phone, QR, 2FA, re-auth, cancel, expire | senders, ports | cancel while Telegram is asked |
| knowledge base, `kb_ingest_worker.py`, `routers/knowledge_base.py` | documents, chunks | add, reindex, delete, ingest | own tables | chunks replaced in a transaction open across the embedding call |
| warmup, `warmup.py`, `routers/warmup.py` | pool, sessions, messages | pair accounts, exchange messages, complete | sender flags | recorded before sent, rolled back by id |
| rate gate, pacing, windows, grades (`queue.py`, `grade_ladder.py`, `send_stagger.py`) | counters read from rows | allow or defer | pick | boundaries of time |
| templates, CSV import, analytics, webhooks, settings, frontend | none of interest | text, reports, CRUD | - | - |

What makes the core correct: a message is not delivered twice; a recorded
delivery is final; a row in flight is written by its worker alone; a manager who
takes over is not talked over; queue and assignment name the same account; rows
go only to accounts that can send; nothing hopeless is retried for ever; nothing
sendable, and no message of a contact, waits for ever. Beside it: a contact is not
written off on the word of a throttled checker; two accounts do not share an
address, nor does one account appear on two; an import neither overwrites an account
nor adds one twice; counters say what happened. `PROJECT.json` lists the hazards
behind these, each at its line, and the properties that watch it.

## Modules

| module | models | state / actions |
|---|---|---|
| `QueueState` | the shared tables, the transactions that move rows, and the predicates and writes several services copy | variables; `Opens`, `Commits`, `Lapsing`, `Locked`; `Failover`, `FailItem`, `CcaFollows`, `Eligible`, `Failoverable`, `Movable` |
| `QueueWorker` | `QueueWorker` of `queue.py`, `send_suspect.py` | `Gate`, `Pick`, the guards, `Deliver`, `CommitSent`, one action per Telegram answer, `NotResolved` / `Reroute`, `EvacuationReads` / `EvacuateFlagged`, `RollbackReads` / `RollbackSuspects`, `Restart` |
| `CampaignEnqueue` | `CampaignEnqueueWorker`, `get_or_assign_sender`, even split | `SweepReads` / `Sweep`, `EvenSplitReads` / `EvenSplit`, `Autopause`, `OpenBatch`, `StageContact`, `CommitBatch` |
| `OutreachApi` | campaign and inbox endpoints, listener handlers | `Start`, `Pause`, `Finish`, `RequeueFailed`, `Takeover`, `Inbound`, `SignalReads` / `AntispamSignal`, `ClearReads` / `Clear`, ... |
| `OutreachQueue` | the composition, its fairness, its properties | `Next` is the disjunction of the three |
| `DeliveryContract` | what the queue promises for each row | open, closed, sent; copies against faults |
| `CampaignLifecycle` | the campaign endpoints as requests in flight, and the workers they meet | `Load`, `Check`, `Refuse`, `WriteStatus`, `WriteFinish`, `WriteDelete`, `WriteAttach`, `WriteDetach`, `WriteRequeue`, `WriteSend`; `Stage`, `Move`, `CommitBatch`, `Claim`, `Settle`, `Park`, `Forget`, `Decide`, `Autopause`, `Expire` |
| `DialogState` | the dialog row, its messages, a waiting ping, the memory of the tasks | variables; `MarkedLead`, `Locked` |
| `DialogListener` | inbound messages, debounce, AI answer, restart (`listener.py`, `ai_engine.py`) | `Arrive`, `SaveInbound`, `RevertAndGate`, `Schedule`, `Resume`, `Fire`, `Generate`, `Deliver`, `RecordAnswer`, `ManagerTypes`, `BotMessage`, `RestartListener` |
| `FollowUp` | `follow_up.py` and the queue's last look at a ping | `Mark`, `PickDialog`, `ComposePing`, `EnqueuePing`, `AutoFinish`, `SendPing`, `TickDies`, ... |
| `InboxApi` | the manager's requests on a dialog | `DisableAi`, `EnableAi`, `MarkLead`, `ConfirmLead`, `DismissLead`, `FinishDialog`, `PatchDialog`, `SendFromInbox`, `RecordFromInbox` |
| `Dialog` | the composition of these, its fairness and properties | `Next` |
| `ContactCheck` | the checker worker and its accounts | `StartRound`, `Recover`, `Probe`, `ClaimBatch`, `FromCache`, `FromTelegram`, `Judge`, `Apply`, `Rest`, `ClaimAges`, `Recheck`, `Crash`, ... |
| `AccountPool` | accounts and proxy ports | creation in steps, deletion, assign, reclaim, quarantine |
| `AccountImport` | archive to accounts | preview, confirm, claim, the steps of one item, crash |
| `Onboarding` | the login wizard | the calls of a flow, cancel, expiry, recovery of the client, how the account is written |
| `Accounts` | the three on one pool | `AccountsNext` |
| `KbIngest` | ingest of documents | add, reindex, delete, claim, extract, open, replace, store, fail, crash |
| `Warmup` | warmup sessions | due session, compose, record, send, roll back, open sessions, pool requests |
| `AccountSession` | the connections of one account | `ReconcileReads`, `ReconcileActs`, `LoopConnects`, `ConfirmSwitch`, `KeyDead`, `SendGate`, `SendConnects`, ... |
| `MCQueue`, `MCLifecycle`, `MCDialog`, `MCFleet`, `MCLive` | budgets, pools, symmetry and the sums of independent components for TLC | - |
| `OutreachQueueProofs`, `OutreachContactProofs`, `CampaignLifecycleProofs`, `DialogProofs`, `ContactCheckProofs`, `AccountsProofs`, `WarmupProofs`, `FleetProofs` (sessions, ingest, and the composition) | theorems and proofs | - |

One committed transaction is one action unless it reads, without a lock, what another
may change before it writes; then it is two (below). One call of Telegram or of a model
is one action, and whatever a coroutine does between them may interleave with everything
else. The queue worker's position is `worker.pc`: `gated` (rate limits passed), `picked`
(row is `processing`), `sending` (guards passed, the Telegram call is under way),
`acked` (Telegram accepted, nothing recorded), `unresolved` (not registered, the pool
for a rotation is read), `flagged`, `evacuated`, `failing`
(the four transactions of PEER_FLOOD and ACCOUNT_FROZEN), `authdead` (session
lost, mass fail to come). `copies`, `reopens`, `late` and `spent` are history:
no guard of the system reads them (budgets only bound the environment).

### Abstractions

- Clock time is left open: `scheduled_at`, working windows, pacing, the 15
  minutes of the suspect rollback and the 10 minutes of the recovery are
  nondeterministic choices, so every property holds whatever the timing.
- "Least loaded" is any eligible account; the even split and the pull-back move
  any subset of the movable rows. The code's choice is one of these.
- Pools are fixed, `allow_recontact` is off, rows are openers (pings are in
  `FollowUp`), a campaign's attachment is fixed (`FileCampaigns`).
- API handlers are single steps beside the queue; `CampaignLifecycle` takes the
  campaign endpoints apart and abstracts the queue instead.
- Failover, sweep, even split, pull-back, reroute and suspect rollback read the pool
  in a SELECT of their own and write the rows in later statements, at READ COMMITTED
  and with no lock on `senders`. Each is two actions: the read opens a transaction in
  `txn` with the accounts that were eligible (and, where the query asks for it, the
  campaigns that were running), the other writes from that and commits. In between
  anything else may happen; `lapsed` is history and remembers which accounts of the
  pool were flagged, paused or lost meanwhile. Who may have one open: the queue worker,
  the enqueue worker, and the listener, with the SpamBot endpoint. The last have one
  place between them: two accounts signalled or cleared in the same moment are left out,
  while a restriction that the queue worker records beside them is in. The rows are
  claimed by `FOR UPDATE`, so their status is that of the commit. A transaction that
  covers several campaigns reads each pool in turn; here it reads them together, at the
  first read.
- The sweep's discovery SELECT and the pool SELECT of its failover are one read; each
  sender the sweep found is a read of its own.
- An account's `online` is lifecycle `active` and `auth_status` `ok`. The pool queries
  also ask for the role `sender`, the gate of a pick (`queue.py:705`) does not: the role
  is fixed to `sender` here, so a queue row of an account turned checker is not met.
- `lost` covers both ways an acknowledgement disappears: the answer of Telegram,
  and the commit behind a swallowed database error.
- Slips: a definition marked "Slip" is a plausible bug, used to confirm that the
  property beside it would notice. No specification uses one.

### Campaign endpoints

`CampaignLifecycle` keeps of the queue only which senders have openers in which
campaign: `cold` (pending, to a recipient nothing was sent to and who has no
conversation: the openers a detach waits for), `sending` (those claimed by the queue
worker), `batch` (written by a worker, not committed), `parked` (failed, or hidden from
the guard by a conversation). An endpoint is a request that goes through
`Load` (reads the campaign, decides on its status), `Check` (reads pool, lock or
openers) and one `Write...`, its commit; `requeue-failed` (`WriteRequeue`) and the
direct send (`WriteSend`) are requests like the others, and look at neither pool nor
openers. PostgreSQL runs at READ COMMITTED, the
code takes no lock on campaigns, and SQLAlchemy writes `UPDATE campaigns SET
status ... WHERE id`, so the write overwrites whatever committed in between.
`raced` is history: it records, when a request enters or a worker writes, which
conflicting pair is now in flight. Each promise of the endpoints is then stated as
"unless this pair overlapped", which says both what the code guarantees when
requests come one after the other and exactly which overlaps it does not survive.

Simplifications: the two reads of a detach are one `Check`; `DELETE` waits for an
open batch (row and key-share locks) and does not wait for an attach that has
inserted and not committed, which then fails instead of being cascaded; failover,
reroute and rebalance share one open batch with the enqueue worker; the readiness,
warmup and checker-role checks are inside `Refuse`. A direct send by rotation and one
by name are one action, for any account; a call for a recipient whose row is open,
which inserts nothing, is left out. `Park` and `Forget` stand for whatever gives the
recipient a conversation or takes it away (messages, takeovers, deleting a dialog)
without saying whose. Pausing and deleting an account are not in the module.

Three ways lead an opener to a sender outside the pool, and `OpenersOnPool` names them:
`strand`, a writer of openers beside a detach in flight; `sending`, a detach let through
while an opener is being sent, whose failed attempt makes it pending again; and
`astray`, for which nothing need overlap: an opener fails for good, its sender is
detached (the guard looks for pending rows only), and requeue-failed makes it pending
where it was; a direct send names a detached account; or a conversation that hid an
opener from the guard is deleted after the detach. `astray` is recorded only when an
opener is given to a sender that is not in the pool at that moment (`AstrayRace`).

Even one after the other the endpoints allow a running campaign with an empty
pool: pause, detach the last sender (the guard is for running campaigns only),
resume (which, unlike start, does not count the pool). Auto-pause then stops it.
`KeepsLastSender` therefore speaks of the step that empties a running pool.

### Dialog

One dialog, because nothing in the code relates two. Handlers run concurrently on
one event loop, so an action of `DialogListener` ends where the coroutine awaits:
`Schedule` is `schedule_ai_response` up to the await of the task it cancelled,
`Resume` the rest, by which time another handler may have started a task of its
own. `get_context` closes its session, and thereby suspends, between
`add_to_buffer` and the schedule: a buffered message can be popped by an older
task before its own handler has scheduled (`popped` in `raced`).

The follow-up tick holds its rows FOR UPDATE until the session first commits
(`Locked`). That blocks every UPDATE of the row and every INSERT into `messages`
(the foreign key locks the row), but after the first dialog of the batch the rest
is worked through unlocked. A ping's `created_at` is the start of its transaction,
so the queue's second guard catches a reply that came while it was composed; this
is why `Store` marks a ping `answered` from the pick on.

What the code does that a reader may not expect, all of it in the model: the tick
asks for no "last message outbound"; a message the manager types on the phone
right after one of ours is taken for its echo; `lead_pending` silences the AI; a
lead marked twice is dismissed to `lead_pending`; a reply is generated and its
signals are written without looking at the status again.

### Contact checker

A contact stands for its phone. `trusted` and `doubted` are history: which negative
rows of the cache come from a batch that showed no throttle signal or that nobody
judged, and which contacts carry a verdict nobody could have trusted.
Usernames are not modelled: a contact with one is imported as registered, is
never pending, and its cache key escapes the confidence gate. Two instances of the
worker are in the model, since nothing but the row lock and the claim window keeps
them apart; a recovery of one instance between two batches of the other lets a
poisoned batch survive (`recovered` in `races`). The escalating cooldown and the
daily cap are left out.

### Accounts, import, login

Account creation reads a free port in one statement and marks it later; an import
also connects in between; the wizard and `assign-proxy` give a port out by name and
do not mark it. `overlap` remembers each port given out twice at once, and
`OneAccountPerPort` says that the steps that mark are safe among themselves
otherwise. An import looks for the phone, connects, looks for the telegram id and
inserts under a slug made of it; an account created by hand has another slug and no
telegram id until a re-auth or never. `ImportAddsStrangers` says that no
interleaving of imports, logins and requests makes the insert overwrite an account
or add one a row of any slug is known to be; `learned` is the one way round it, a
re-auth that fills the id in between the second look and the insert (the column has
no unique constraint), after which two rows hold one account.
Also in the model: an import confirmed with no file is never done; an importer
that dies leaves its item `processing` and its job open; a cancel while the
client is being rebuilt after a restart is not final; re-authentication after the
reclaim sweep leaves an account `ok` without a proxy; a QR re-authentication does
not compare the telegram id. PATCH of an account's phone is not modelled.

### Sessions

`AccountSession` is one account: the listener's loops, its books (`client`,
`connected`, `snapshot`), the reconcile tick, and one short client of a send, a
request or a warmup message. `proxy_switch_pending_at` holds the senders until the
listener has followed. `waived` names what leaves that promise void: the flag ages,
PATCH of the proxy raises none, the switch comes after the gate, or a second loop
is started because the first has never connected and is in no book. Warmup never
passes a proxy to `get_client` (`warmup.py:918`), so it connects directly whatever the
account has, where the listener refuses to connect without one (`listener.py:1658`).
A send loads its account's row (`queue.py:845`), runs the guards of the dialog and then
connects (`queue.py:1029`); `SendConnects` is both in one, so a switch between them is
not met as such, while one between gate and load is (`meanwhile`).

### Warmup and ingest

Warmup writes the message, the counter and the next turn, commits, sends, and takes
all of it back when the send fails, over whatever happened meanwhile: `revived` are
sessions the worker wrote over after a removal had completed them (so
`RemovedIsLeftAlone` does not deny that overwrite; it speaks of the completion and of
the sessions opened from a pool read earlier), `unsure` those with a send that failed and
may have arrived or a crash between commit and send. The pool and the switch are
not read again at send time. The daily limit and the new-chat budget are
nondeterministic.

An ingest run deletes and inserts the chunks in one transaction and stores the
count at its end. Two runs on one document (two workers after a reindex) double
its chunks; a reindex during a run is lost; deleting a document under a run either
waits or is refused as a deadlock, both of which are in the model. Search and
attachment only read.

### Fleet

`MCFleet` checks five components in one run. They write no common row, except the
sender flags each abstracts, so a behaviour of all five is an interleaving in which
each sees only its own steps; a state invariant or step property of one holds of
the interleaving iff it holds of its own steps. `focus` therefore lets one of them
move and leaves the others in their first state, and the states are the sum rather
than the product. `MCLive` does the same for the queue and one dialog.

## Runs

| run | instance | shows |
|---|---|---|
| `delivery` | 2 accounts, 1 contact, 3 rows, 2 attempts; one crash, lost answer or commit, requeue, takeover each | no double delivery without a fault, sent is final, the row in flight is the worker's, a takeover lets one message through, orphans come from faults only, a contact costs no more rows than the cap |
| `rotation` | 3 accounts, 1 contact, 2 rows, one attempt; 3 resolve verdicts, 1 restriction, 1 lost account | queue and assignment in step, moves to ineligible accounts only when flagged between read and commit, rotation cap |
| `shared` | 2 campaigns sharing an account, one with files; a lost answer or commit, a restriction, a reply | refinement of `DeliveryContract` |
| `live` | 2 accounts, 1 row; one dialog with 2 messages; with fairness | held rows settle, stranded openers are evacuated, a message of a live dialog is answered |
| `lifecycle` | 2 campaigns, 2 accounts, 3 requests, 2 at once, 2 openers wherever they are | the sender lock, finished and running states, the last sender and the openers' pool, each unless a named overlap |
| `dialog` | 2 messages, 2 answering tasks, 1 ping, one request, one fault | the buffer always has somebody to pop it, one answer at a time, the AI answers only what was its own to answer, nothing is forgotten, decided statuses stay, a dismissed lead goes back; each up to the named races |
| `fleet` | checker: 1 account, 2 contacts, 2 instances; pool: 2 accounts, 1 port, 2 files, 1 importer, 2 jobs, 1 login; 2 documents, 2 ingest workers; 2 warmup members, 2 sessions; 2 addresses, 2 loops | see below |
| `sender_lock` | the same, 2 requests | two starts at once break the sender lock |
| `zombie`, `exists_miss`, `freeze` | 2 accounts | the three comments of the code that it does not keep |
| `auto_finish` | one dialog | a comment of the follow-up worker that it does not keep |

Bounds. Two accounts are the least for a failover, three for a rotation that has
somewhere to go after the cap; two rows per contact are the least for a released
and re-enqueued contact, three for the cap plus one reopening. Two attempts
distinguish first and last (`rotation`, `shared` and `live` use one: their question is
where rows go and whether they get on; retries are covered by `delivery`). Two openers
are the least for one that a detach sees and one it does not. Two campaigns and two
accounts are the least for a lock conflict and for a pool with a last sender; a
promise of the endpoints is broken by two requests at once after at most one that
set the state up, hence three. Budgets bound only the environment and are spent in
any order; each is at least one more than the scenario of its hazard needs.
`CHECK_DEADLOCK FALSE`: with all campaigns done and the budgets spent the system
has rightly nothing to do.

In `dialog`, two messages are the least for a debounce that cancels, two tasks the
least for two answers at once (`EnoughTasks`: a task per message, so `Begin` always
finds one); one ping, one request and one restart can each meet any of them. The
run has 2.25 million states.

`fleet` answers, component by component: two checker instances never look at one
contact, poisoned cache rows are purged, nobody is written off on them; marked
ports have one account, imports overwrite nobody and add no account that is known,
job counters are exact, a cancelled login is not accepted; chunk counts are exact;
warmup messages alternate and match deliveries, a removed account is left alone; a
send uses no second address. Two of each actor is the least for a race; budgets (`MaxBad`, `MaxOps`,
`MaxFaults` and their like) bound requests and faults only. A lone checker instance
meets two faults, two instances one. Larger instances were checked once, outside the
listed runs: two checker instances with two faults (3.87 million states) and three
switches with two drops in `AccountSession` (9.35 million).

Fairness. `WF(SendStep)`: a row is held by a coroutine that runs to its end, every
branch of which ends in a commit. `WF(EnqueueStep)`: the same for the batch.
`SF(SweepReads(s))`: every tick of the enqueue worker starts with the sweep and looks
at all senders, while an open batch disables it in between, so weak fairness
would say too little; what the sweep has read it commits by `WF(EnqueueStep)`. In the dialog, `WF` of `Schedule`, `Resume`, `Fire` and
`Generate`: the event loop runs what is ready, timers run out, and the model answers
or fails within its timeout. Arrival, save and gate are not fair, since they wait for
the follow-up tick's lock (`Locked`): the promise starts at `buffered`. Nothing else
is fair: neither picks nor endpoints nor Telegram's verdicts have to come.

`LockStep`, `OpenerOnce` and `ContactRowCap` carry a term for reopened rows. It is
what the code does: the suspect rollback and `requeue-failed` re-pend a failed row
without looking at the assignment, which the failure may have released and the
next tick given to a new row. A contact can then have two live rows, and receive
the opener from both. `RotationCap` is stated for a run without restrictions: a
failover moves a stamped row to an account it was not tried on, past the cap.

## Disagreements

- `zombie`: finishing a campaign does leave pending rows behind, when a batch is
  open, a row is in flight, or failed rows are requeued afterwards.
- `exists_miss`: pausing between selection and insert keeps the assignment, so the
  contact gets no opener after resume.
- `freeze`: PEER_FLOOD downgrades a freeze recorded during the send.
- `auto_finish`: the guard that should spare a dialog answered meanwhile accepts
  `active`, which is what a reply makes it: it is finished and the webhook fires.
- `sender_lock`: overlapping starts let two running campaigns share an account.

The endpoints' properties name further overlaps that break a promise (see
`Races`): a finish overwritten by a stale pause or resume, a delete of a campaign
just started, two detaches that empty a running pool, a detach beside a writer of
openers. Two are not overlaps of transactions: a detach is let through while an
opener of the sender is being sent, and a failed attempt puts it back to pending; and
requeue-failed, a direct send or a deleted conversation give openers to a sender
detached before (`astray`).

`rebalance.py:112` copies the eligibility filter "so a spam_limited / frozen /
non-sender account never receives moved rows". That holds of the moment of the SELECT.
An account flagged between it and the commit receives the rows; the next sweep takes
them off it again, file openers excepted. `MovesToHealthyUnlessOvertaken` says that
this is the only way: drop its second disjunct and the `rotation` run shows it.

Met while modelling and not stated as a run: the docstring of `generate_response`
that a reply is sent before the status flips (it is after); warmup's connections without a
proxy, named above; a late "key is dead" of an old session overwrites a
re-authentication; a dead key of a language model is flagged by workspace, for every
agent of it.

## Proofs

`OutreachQueueProofs` proves, for any number of accounts, campaigns, contacts, rows
and attempts: types (`TypeCorrect`), that nobody but the worker writes to the row it
holds (`RowInFlightIsOwned`), that a row is delivered at most once plus once per
fault (`NoUnpaidDuplicate`), and that `sent` is final (`DeliveryIsFinal`).
Assumptions are those the modules name about the constants: the type of the pools,
null values outside the sets, positive caps. `Invariant` is the inductive one:

- `TypeOK` and `HolderHasSender`: a busy worker names a sender;
- `WorkerOwnsItsRow`: the row it names is `processing` (a picked row) and nobody
  else's action touches such a row;
- `OpenHasAttempt`: an open row has an attempt left, needed for the type of the
  counter that `_fail_item` raises;
- `BatchIsFresh`: rows of the open batch have never been delivered;
- `CopiesArePaid`: copies of a row are covered by its being sent, by the delivery
  the worker has just made, or by a crash or loss already counted in `spent`.
  `DuplicateOnlyAfterFault` follows, and is not inductive without it, as it says
  nothing of a row that is delivered and not yet recorded.

Four further results of that module rest on it. `MovesGoToHealthyUnlessOvertaken`:
every move of a waiting row (failover after a restriction or a dead session, sweep,
evacuation, even split, recovery, reroute, suspect rollback) takes its receiver from the
pool its transaction has read. The invariant it needs, `PoolInv`, says of each open
transaction that an account of its pool is eligible still, or recorded as lapsed, or the
one it is about to clear; the account it flags is not among them. `QueueKeepsContract`: the pipeline implements `DeliveryContract`. Each action turns
a set of rows from one phase to another and copies nothing (`Turned`), or is the
delivery, its recording or a fault; the proof needs besides `IInv` that a row about
to be recorded has been delivered (`AckedWasDelivered`) and that a batch commits
pending rows only (`BatchIsPending`). `TakeoverIsHeeded`: a message about to go out
into a dialog that a manager holds passed the guard before that takeover, and nothing
that went out late has used this takeover up (`LateIsCovered`). `OrphansAreBounded`: only a crash
or a lost commit parts the worker from its row, one row each (`OrphansArePaid`); it is
a count, so each step shows how the set of orphans changes, by nothing or by the row
in hand.

`OutreachContactProofs` has what the pipeline owes one contact, over all of its rows:

- `RotationIsCapped` (`RotationCap`). While no account is restricted or lost nobody
  but the rotation moves a row, so a row that was tried by as many senders as the cap
  allows is with one of them, and its next failure adds nobody (`CalmRotation`,
  `TriedWithin`). Reads made before are part of it: no open transaction serves a
  restriction (`CalmTxns`), and a row that waits for its next sender is below the cap
  (`BelowTheCap`).
- `QueueFollowsAssignment` (`LockStep`). As stated the property is not inductive: two
  open rows of a contact could be moved one by one. The invariant adds that a contact
  none of whose rows was put back has one open row (`OneWriter`), and that the open
  batch stages each contact once, with the sender it stages the row for, and only
  contacts nobody has (`BatchUnassigned`).
- `ContactsCostTheCap` (`ContactRowCap`) and `OneOpenerPerContact` (`OpenerOnce`).
  Rows of a contact that have not failed are no more than its assignment (one or none)
  and the times its rows were put back, all its rows no more than that and the cap, less
  one (`RowsCounted`); copies are no more than the faults and the delivered rows
  (`CopiesCounted`). The release of an assignment is the step that needs the cap, the
  staging of a row the one that needs the assignment free.

The last two add up a field over a set of rows. `SumFunctionOnSet` is a fold by a
recursive function the library chooses for each set, and the induction theorems cannot
be used, so the lemmas about sums (`SumsAgree`, `SumsExist`, `SumUnfolds`, then
`SumStep`, `SumSame`, `SumRises`) take a counterexample of the least cardinality. What an
action does to the rows of each contact is one of a few patterns (rows change status
and nothing else, one row is put back, a row fails and its contact is let go, a batch
commits), each with a lemma.

The step has one case per action. Actions of endpoints and of the enqueue worker
only add rows or change `pending` and `failed` ones (`RowsKept`); a lemma about
bystanders carries the invariant over. Outcomes of a send share `OutcomeKeeps`,
which says what must hold of the row they write. `CcaFollows` chooses the greatest
row id, which exists by well-foundedness of the naturals.

`CampaignLifecycleProofs` proves all six properties of the `lifecycle` run, for any
number of campaigns, accounts and requests in flight, from finiteness of the
accounts and distinct null values. Its invariant says of each request what it has
read and why that still holds: the lock it found free is free (`LockStands`), the
campaign it will pause or start is not done (`ReviveStands`), the one it will
delete does not run (`DeleteStands`), another sender remains (`LastSenderStands`),
no opener has come (`StrandStands`; a detach that read no opener meets none, up to
`strand`, `sending` and `astray`), each unless its kind is in `raced`; and
`Tracked`, that `raced` knows every conflict of requests now in flight. One lemma
per action; a write is at odds with another request in flight only if `Races` of
the two is in `raced`, by `Tracked`.

`DialogProofs` proves all seven properties of the `dialog` run, for any number of
messages, pings, requests and faults and at least a task per message. The invariant
has two halves, which share no variable but what `Arrive` reads. Of the memory:
a task is started by a handler that ends with it, so those that run are no more
than the handlers that ended (`TasksSuffice`), and `Begin` finds one; what is
buffered or being answered passed the gate (`OnlyPassed`); the context is gone only
while every buffered message has its handler still to schedule (`ContextStands`,
without which a `Resume` could throw a buffer away); a handler about to schedule
finds its message (`Waiting`); without the named races the tracked task is the only
one (`OneTask`); what a task sends is covered and what it read is saved (`Stored`).
Of the row: while one mark is open the row holds the status it had (`MarkStands`),
and the tick's count of pings is the row's (`TickKnows`), so the counter stays
within its bound although the ping is composed outside any lock.

The five components of the fleet are proved the same way, each for any number of
everything in it:

- `ContactCheckProofs`, from the constants' types: all three properties. The
  invariant adds to them that what an instance holds is claimed, that a checker it
  has benched is still flagged (so it works on one only after the other's
  recovery), that a negative verdict is certain and a doubted one is not, and that a
  negative answer is read from the cache only for a certain contact. Poison in the
  cache belongs to a batch under way (`PoisonIsPurged`), whose contacts nobody else
  holds, so nobody is served it: this is how the three meet.
- `AccountsProofs`, from finiteness of the files: `OneAccountPerPort`,
  `ProgressIsExact`, `CancelIsFinal`, `ImportAddsStrangers`. The invariant says that a
  port outside the named overlaps has one user at most, an account that exists and for
  which the pool row, while there is one, is marked (`PortsAreMarked`): this is why a
  row that reads free is free, whatever the sweep, a deletion or another import did
  since; that an item in process
  is held by one importer or left by a fault and that a job's counters are those of
  its items (`Counted`, `HeldOnce`); that a login cut off while Telegram was asked
  has no client (`CutOff`); and that what the second look of an import found still
  stands at its insert (`LooksStand`): whoever writes a telegram id writes it into
  the row of that slug, which the insert will meet, or has `learned` it.
- `WarmupProofs`, from finiteness of the members: `TurnsAreDeliveries`,
  `RemovedIsLeftAlone`. The invariant relates the step the worker is in to the row
  it will write back: the message it takes away is the last one recorded.
- `FleetProofs`, the ingest: `CountIsRows`. Runs not recorded as overlapping are alone
  on their document, so the chunks they are about to replace are those that are there.
- `FleetProofs`, the sessions of an account: `SendsFromOneAddress`. Unless something is
  waived, there is one loop at most, the flag is not stale, and while there is no flag
  every loop with an address is on the row's proxy (`Followers`); a send past its gate
  would still find no flag (`GateStands`).
- `FleetProofs`, the composition: a behaviour of `MCFleet` is one of each component,
  which stutters while another moves (`FleetIsItsParts`), so all of the above holds of
  what the `fleet` run explores, its type invariant `FleetTypeOK` among it.

Every invariant and every action property of the passing runs is thus proved.
Only model-checked are the three liveness properties, `HeldRowSettles`,
`StrandedIsEvacuated` and `MessageIsAnswered`: they need fairness and ENABLED, which
the prover does not handle.

## Not modelled

- Rate limits, pacing, stagger, working windows, grades: functions of the clock and
  of counters, behind a pick that may find nothing. The exact shares of the two
  rebalancing functions.
- Usernames, cooldown lengths and the daily cap of the checker; PATCH of a phone;
  profile, photo, 2FA and recovery e-mail of an account, which are calls to Telegram
  with a cached copy.
- Account deletion beside a campaign start. The direct send beside the queue: it is a
  request of `CampaignLifecycle`, but rows of the queue modules all come from the
  enqueue worker.
- Text: templates, variation, tools and prompts of the model, media. Reading,
  search, analytics, webhooks, settings, encryption, start-up.

## Plan

1. `RateGate`: limits and windows as functions over small counters and hours,
   checked against reference definitions.
2. Account deletion as a further request of `CampaignLifecycle`, and the direct send as
   a further source of rows in `OutreachApi`.
