--------------------------- MODULE DialogListener ---------------------------
(***************************************************************************)
(* The listener's part of a dialog (services/listener.py and the answering *)
(* half of services/ai_engine.py).  Event handlers run concurrently on one *)
(* event loop: an action ends where the coroutine awaits something.        *)
(***************************************************************************)
EXTENDS DialogState

-----------------------------------------------------------------------------
(* An inbound message: read the dialog, save, revert no_reply, gate, buffer. *)

\* get_or_create_conversation; a voice note is first transcribed, and dropped
\* when that fails.
Arrive(m) ==
    /\ kind = "person"
    /\ handler[m].pc = "unsent"
    /\ m > 1 => handler[m - 1].pc # "unsent"
    /\ handler' \in {[handler EXCEPT ![m] = [pc |-> "read", ai |-> conv.ai, st |-> conv.status]],
                     [handler EXCEPT ![m].pc = "done"]}
    /\ UNCHANGED <<kind, conv, saved, lastBy, ping, buffer, ctx, job, tracked, fu, ui,
                   acts, faults, raced, covered, origin>>

\* The message row; a tick at work and a waiting ping are older than it.
Store(m) ==
    /\ saved' = saved \cup {m} /\ lastBy' = "contact"
    /\ fu' = [fu EXCEPT !.answered = fu.pc # "idle"]
    /\ ping' = IF ping = "none" THEN ping ELSE "answered"

\* save_message.  A message Telegram delivers again is a duplicate and stops here.
SaveInbound(m) ==
    /\ handler[m].pc = "read" /\ ~Locked
    /\ handler' = [handler EXCEPT ![m].pc = "saved"]
    /\ Store(m)
    /\ UNCHANGED <<kind, conv, buffer, ctx, job, tracked, ui, acts, faults, raced, covered,
                   origin>>

\* handle_no_reply_revert: the status goes back to active and the pending rows of the
\* contact are cancelled.
Reverted(c) == IF c.status = "no_reply" THEN [c EXCEPT !.status = "active"] ELSE c

\* Slip: the dialog's own switch is forgotten.
AnswerableByStatus(m, st) == st = "active"

\* The gate looks at the dialog as it was read, with the revert applied.
Answerable(m, st) == handler[m].ai /\ st = "active"

\* The revert, the gate and add_to_buffer; the last two do not await.  A revert
\* that fails is logged and the handler goes on.
RevertAndGate(m) ==
    /\ handler[m].pc = "saved" /\ ~Locked
    /\ \E failed \in {b \in BOOLEAN : b => faults < MaxFaults} :
          LET st == IF ~failed /\ conv.status = "no_reply" THEN "active" ELSE handler[m].st
          IN  /\ conv' = IF failed THEN conv ELSE Reverted(conv)
              /\ ping' = IF failed THEN ping ELSE "none"
              /\ faults' = IF failed THEN faults + 1 ELSE faults
              /\ IF Answerable(m, st)
                 THEN /\ buffer' = buffer \cup {m}
                      /\ handler' = [handler EXCEPT ![m] = [@ EXCEPT !.pc = "buffered", !.st = st]]
                 ELSE /\ handler' = [handler EXCEPT ![m] = NoHandler("done")]
                      /\ UNCHANGED buffer
    /\ UNCHANGED <<kind, saved, lastBy, ctx, job, tracked, fu, ui, acts, raced, covered, origin>>

-----------------------------------------------------------------------------
(* Debounce.                                                                *)

NoJob == [pc |-> "none", msgs |-> {}, hist |-> {}]
Answering == {t \in Tasks : job[t].pc \in {"gen", "hold", "sent"}}

\* Slip: the model sees the buffered messages only.
HistoryOfBuffer == buffer

\* get_conversation_history: the newest messages of the dialog, more than the bound here.
History == saved

\* process_buffered_messages in task t, on behalf of the handler of `own` (0 for a
\* timer): buffer and context are popped together, and without either there is
\* nothing to do.  A popped message whose handler has yet to schedule is exposed:
\* that handler is about to cancel the task that took it.
Pop(t, own, hasCtx, race) ==
    /\ buffer' = {} /\ ctx' = FALSE
    /\ raced' = raced \cup race \cup
          (IF \E m \in buffer \ {own} : handler[m].pc = "buffered" THEN {"popped"} ELSE {})
    /\ IF buffer = {} \/ ~hasCtx
       THEN /\ job' = [job EXCEPT ![t] = NoJob]
            /\ tracked' = IF tracked = t THEN NoTask ELSE tracked
       ELSE /\ job' = [job EXCEPT ![t] = [pc |-> "gen", msgs |-> buffer, hist |-> History]]
            /\ UNCHANGED tracked

\* The second half of schedule_ai_response: a buffer older than MAX_BUFFER_TIME is
\* processed by the handler itself, in no task a later message could cancel;
\* otherwise a new timer takes the entry in debounce_tasks.
Begin(m, hasCtx, race) ==
    LET t == CHOOSE x \in Tasks : job[x].pc = "none"
    IN  /\ handler' = [handler EXCEPT ![m].pc = "done"]
        /\ \/ buffer # {} /\ Pop(t, m, hasCtx, race \cup {"direct"})
           \/ /\ job' = [job EXCEPT ![t] = [pc |-> "timer", msgs |-> {}, hist |-> {}]]
              /\ tracked' = t /\ ctx' = hasCtx
              /\ raced' = raced \cup race
              /\ UNCHANGED buffer

\* Slip: the CancelledError of the awaited task ends the handler too.
CancelRaises(m) ==
    /\ job' = [job EXCEPT ![tracked] = NoJob]
    /\ tracked' = NoTask /\ ctx' = TRUE
    /\ handler' = [handler EXCEPT ![m].pc = "done"]
    /\ UNCHANGED <<buffer, raced>>

\* The task is cancelled wherever it waits: in its timer, at the model, while
\* "typing", or between Telegram's answer and the insert of it.
Cancel(m) ==
    /\ job' = [job EXCEPT ![tracked] = NoJob]
    /\ tracked' = NoTask /\ ctx' = TRUE
    /\ handler' = [handler EXCEPT ![m].pc = "wait"]
    /\ UNCHANGED <<buffer, raced>>

\* Slip: the previous task is left alone.
BeginWithoutCancel(m) == handler[m].pc = "buffered" /\ Begin(m, TRUE, {})

\* schedule_ai_response up to its await; it awaits only a task that still runs.
BeginOrCancel(m) ==
    handler[m].pc = "buffered" /\ IF tracked = NoTask THEN Begin(m, TRUE, {}) ELSE Cancel(m)

Schedule(m) ==
    /\ BeginOrCancel(m)
    /\ UNCHANGED <<kind, conv, saved, lastBy, ping, fu, ui, acts, faults, covered, origin>>

\* The cancelled task has ended; another handler may have started its own meanwhile.
Resume(m) ==
    /\ handler[m].pc = "wait"
    /\ Begin(m, ctx, IF tracked = NoTask THEN {} ELSE {"double"})
    /\ UNCHANGED <<kind, conv, saved, lastBy, ping, fu, ui, acts, faults, covered, origin>>

\* _debounce_timer runs out.
Fire(t) ==
    /\ job[t].pc = "timer"
    /\ Pop(t, 0, ctx, {})
    /\ UNCHANGED <<kind, conv, saved, lastBy, ping, handler, fu, ui, acts, faults, covered,
                   origin>>

-----------------------------------------------------------------------------
(* The answer.                                                              *)

Signal == {"lead", "handoff", "finish"}

\* _handle_builtin_signal, for each signal of the reply, finish last: the status is
\* overwritten whatever it is by now.
AfterSignals(c, S) ==
    LET marked == IF "lead" \in S THEN MarkedLead(c) ELSE c
    IN  CASE "finish" \in S -> [marked EXCEPT !.status = "finished", !.ai = FALSE]
          [] "handoff" \in S /\ "finish" \notin S ->
                [marked EXCEPT !.status = "handoff", !.ai = FALSE]
          [] S \subseteq {"lead"} -> marked

\* _send_to_ai up to the reply: generate_response, which never looks at the status or
\* at ai_enabled.  A provider error, an empty reply after its one retry, or a
\* signal without farewell text end the task.
Generate(t) ==
    /\ job[t].pc = "gen"
    /\ \E S \in SUBSET Signal, reply \in BOOLEAN :
          /\ S # {} => ~Locked
          /\ conv' = AfterSignals(conv, S)
          /\ origin' = IF S = {} THEN origin ELSE IF S = {"lead"} THEN LeadOrigin ELSE "unknown"
          /\ job' = [job EXCEPT ![t] = IF reply THEN [@ EXCEPT !.pc = "hold"] ELSE NoJob]
          /\ tracked' = IF ~reply /\ tracked = t THEN NoTask ELSE tracked
    /\ covered' = covered \cup job[t].hist
    /\ UNCHANGED <<kind, saved, lastBy, ping, handler, buffer, ctx, fu, ui, acts, faults,
                   raced>>

\* After the typing hold: Telegram takes the reply, or refuses it (FloodWait, blocked).
Deliver(t) ==
    /\ job[t].pc = "hold"
    /\ \E ok \in BOOLEAN :
          /\ job' = [job EXCEPT ![t] = IF ok THEN [@ EXCEPT !.pc = "sent"] ELSE NoJob]
          /\ tracked' = IF ~ok /\ tracked = t THEN NoTask ELSE tracked
    /\ UNCHANGED <<kind, conv, saved, lastBy, ping, handler, buffer, ctx, fu, ui, acts,
                   faults, raced, covered, origin>>

RecordAnswer(t) ==
    /\ job[t].pc = "sent" /\ ~Locked
    /\ lastBy' = "ai"
    /\ job' = [job EXCEPT ![t] = NoJob]
    /\ tracked' = IF tracked = t THEN NoTask ELSE tracked
    /\ UNCHANGED <<kind, conv, saved, ping, handler, buffer, ctx, fu, ui, acts, faults,
                   raced, covered, origin>>

-----------------------------------------------------------------------------
(* Everything else the listener does to a dialog.                           *)

\* handle_outgoing_message: the manager types on the phone.  Right after a message
\* of ours it is taken for the echo of that one and not saved.
ManagerTypes ==
    /\ acts < MaxActs /\ ~Locked
    /\ lastBy' = IF lastBy = "ai" THEN lastBy ELSE "human"
    /\ acts' = acts + 1
    /\ UNCHANGED <<kind, conv, saved, ping, memory, fu, ui, faults, raced, covered, origin>>

\* _handle_bot_message.
BotMessage(m) ==
    /\ kind = "bot" /\ handler[m].pc = "unsent" /\ ~Locked
    /\ m > 1 => handler[m - 1].pc # "unsent"
    /\ handler' = [handler EXCEPT ![m].pc = "done"]
    /\ Store(m)
    /\ conv' = IF conv.status = "active"
               THEN [conv EXCEPT !.status = "bot_ignored", !.ai = FALSE] ELSE conv
    /\ UNCHANGED <<kind, buffer, ctx, job, tracked, ui, acts, faults, raced, covered,
                   origin>>

\* The listener process dies and starts again: buffers and tasks were in memory.
RestartListener ==
    /\ faults < MaxFaults
    /\ \E m \in Msgs : handler[m].pc \notin {"unsent", "done"} \/ m \in buffer
    /\ faults' = faults + 1
    /\ handler' = [m \in Msgs |-> IF handler[m].pc = "unsent" THEN handler[m]
                                  ELSE [handler[m] EXCEPT !.pc = "done"]]
    /\ buffer' = {} /\ ctx' = FALSE
    /\ job' = [t \in Tasks |-> NoJob] /\ tracked' = NoTask
    /\ raced' = raced \cup {"restart"}
    /\ UNCHANGED <<kind, conv, saved, lastBy, ping, fu, ui, acts, covered, origin>>

ListenerNext ==
    \/ \E m \in Msgs : \/ Arrive(m) \/ SaveInbound(m) \/ RevertAndGate(m)
                       \/ Schedule(m) \/ Resume(m) \/ BotMessage(m)
    \/ \E t \in Tasks : Fire(t) \/ Generate(t) \/ Deliver(t) \/ RecordAnswer(t)
    \/ ManagerTypes
    \/ RestartListener
=============================================================================
