----------------------------- MODULE DialogState -----------------------------
(***************************************************************************)
(* One dialog between an account and a contact: the conversations row, its *)
(* messages, the follow-up ping that may wait in message_queue, and what   *)
(* the processes that write to them keep in memory.  The listener, the     *)
(* follow-up worker and the inbox endpoints extend this module; Dialog     *)
(* composes them.                                                          *)
(***************************************************************************)
EXTENDS Naturals, FiniteSets

CONSTANTS
    NumMsgs,        \* messages the contact writes
    Tasks,          \* asyncio tasks that answer the dialog
    NoTask,         \* debounce_tasks has no entry, or a finished one
    MaxPings,       \* follow_up_max_pings of the campaign
    MaxActs,        \* bound: requests of the manager
    MaxFaults       \* bound: restarts and failed transactions

ASSUME DialogCounts ==
    NumMsgs \in Nat /\ MaxPings \in Nat /\ MaxActs \in Nat /\ MaxFaults \in Nat
ASSUME DialogTasks == NoTask \notin Tasks

VARIABLES
    kind,       \* what Telegram says the contact is
    conv,       \* the conversations row
    saved,      \* inbound messages in the messages table
    lastBy,     \* sent_by of the newest messages row
    ping,       \* the follow-up row in message_queue: none, pending, or pending with a
                \* reply saved after its created_at
    handler,    \* per inbound message: the event handler that carries it
    buffer,     \* message_buffers, messages not yet handed to the model
    ctx,        \* pending_contexts has an entry
    job,        \* the answering tasks
    tracked,    \* debounce_tasks: the task a new message cancels
    fu,         \* the follow-up tick's work on this dialog
    ui,         \* a manager's message between takeover and its insert
    acts, faults,   \* bounded counters
    raced,      \* history: what may break the promise to answer
    covered,    \* history: messages an answer has been generated over
    origin      \* history: while a lead is pending, the status before it was detected

memory == <<handler, buffer, ctx, job, tracked>>
vars == <<kind, conv, saved, lastBy, ping, handler, buffer, ctx, job, tracked,
          fu, ui, acts, faults, raced, covered, origin>>

Msgs == 1..NumMsgs
\* conversations.status, and the statuses somebody decided on.
Open == {"active", "no_reply"}
Outcome == {"lead_pending", "lead", "handoff", "finished", "manual", "bot_ignored"}
Status == Open \cup Outcome
NoStatus == "null"
Conversation == [status: Status, pre: Status \cup {NoStatus}, ai: BOOLEAN,
                 pings: 0..MaxPings]

NoHandler(pc) == [pc |-> pc, ai |-> FALSE, st |-> "active"]
FuIdle == [pc |-> "idle", st |-> "active", pings |-> 0, locked |-> FALSE,
           answered |-> FALSE]

\* The tick selects the row FOR UPDATE and keeps the lock until its session
\* first commits.  Until then every other UPDATE of the row waits, and so does an
\* INSERT into messages, whose foreign key locks the same row.
Locked == fu.pc # "idle" /\ fu.locked

\* Slip: a status saved before is kept.
MarkedLeadOnce(c) ==
    [c EXCEPT !.pre = IF @ = NoStatus THEN c.status ELSE @, !.status = "lead_pending"]

\* mark_as_lead and mark-lead: the status is saved, also when it is lead_pending.
MarkedLead(c) == [c EXCEPT !.pre = c.status, !.status = "lead_pending"]

\* History: the status a dismissal should lead back to, while one mark is open.
LeadOrigin == IF conv.status = "lead_pending" THEN "unknown" ELSE conv.status

InitState ==
    /\ kind \in {"person", "bot"}
    \* The opener has been sent and the dialog upserted by the queue worker.
    /\ conv = [status |-> "active", pre |-> NoStatus, ai |-> TRUE, pings |-> 0]
    /\ saved = {} /\ lastBy = "ai" /\ ping = "none"
    /\ handler = [m \in Msgs |-> NoHandler("unsent")]
    /\ buffer = {} /\ ctx = FALSE
    /\ job = [t \in Tasks |-> [pc |-> "none", msgs |-> {}, hist |-> {}]]
    /\ tracked = NoTask
    /\ fu = FuIdle /\ ui = "idle" /\ acts = 0 /\ faults = 0
    /\ raced = {} /\ covered = {} /\ origin = "unknown"
=============================================================================
