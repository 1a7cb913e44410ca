------------------------------- MODULE Dialog -------------------------------
(***************************************************************************)
(* A dialog as listener, follow-up worker, queue worker and manager share  *)
(* it: one row, written by all of them, most of them from values they read *)
(* seconds earlier.                                                        *)
(***************************************************************************)
EXTENDS DialogListener, FollowUp, InboxApi

ASSUME EnoughTasks == IsFiniteSet(Tasks) /\ Cardinality(Tasks) >= NumMsgs

Next == ListenerNext \/ FollowUpNext \/ InboxNext

\* A coroutine that can go on does: Telegram, the model and the database answer or
\* fail within their timeouts.
Fairness ==
    /\ \A m \in Msgs : WF_vars(Schedule(m)) /\ WF_vars(Resume(m))
    /\ \A t \in Tasks : WF_vars(Fire(t)) /\ WF_vars(Generate(t))

Spec == InitState /\ [][Next]_vars /\ Fairness

-----------------------------------------------------------------------------
DialogTypeOK ==
    /\ kind \in {"person", "bot"}
    /\ conv \in Conversation
    /\ saved \subseteq Msgs /\ buffer \subseteq saved /\ covered \subseteq saved
    /\ lastBy \in {"ai", "contact", "human"}
    /\ ping \in {"none", "pending", "answered"}
    /\ handler \in [Msgs -> [pc: {"unsent", "read", "saved", "buffered", "wait", "done"},
                             ai: BOOLEAN, st: Status]]
    /\ ctx \in BOOLEAN
    /\ job \in [Tasks -> [pc: {"none", "timer", "gen", "hold", "sent"},
                          msgs: SUBSET Msgs, hist: SUBSET Msgs]]
    /\ tracked \in Tasks \cup {NoTask}
    /\ tracked # NoTask => job[tracked].pc # "none"
    /\ fu \in [pc: {"idle", "picked", "composing"}, st: Open, pings: 0..MaxPings,
               locked: BOOLEAN, answered: BOOLEAN]
    /\ ui \in {"idle", "sending"}
    /\ acts \in 0..MaxActs /\ faults \in 0..MaxFaults
    /\ raced \subseteq {"popped", "direct", "double", "restart"}
    /\ origin \in Status \cup {"unknown"}

\* A buffered message is never without somebody who will pop it: a handler that has
\* yet to schedule, or a running timer with its context.  (debounce, listener.py:262)
BufferIsScheduled ==
    buffer # {} =>
        \/ \E m \in Msgs : handler[m].pc \in {"buffered", "wait"}
        \/ ctx /\ \E t \in Tasks : job[t].pc = "timer"

\* The contact is not answered by two tasks at once, unless the buffer was older than
\* MAX_BUFFER_TIME or two handlers waited for the same cancelled task.
OneAnswerAtATime ==
    Cardinality(Answering) <= 1 \/ raced \cap {"direct", "double"} # {}

\* What reaches the contact from the model answers only messages that arrived while
\* the dialog was the AI's, however late the answer comes after a takeover.
AnswersOnlyItsOwn ==
    \A t \in Answering : \A m \in job[t].msgs : handler[m].ai /\ handler[m].st = "active"

\* A status somebody decided on changes only by a request of the manager or by a
\* signal of an answer; the sweeps, the ping, the revert and the auto-finish, which
\* act on what they read before, leave it alone.
OutcomeStays ==
    [][conv.status \in Outcome /\ conv'.status # conv.status =>
          acts' # acts \/ \E t \in Tasks : job[t].pc = "gen" /\ job'[t] # job[t]]_vars

\* Dismissing a detected lead brings back the status it had when it was detected,
\* unless it was marked twice or patched into the banner.
DismissRestores ==
    [][DismissLead => origin = "unknown" \/ conv'.status = origin]_vars

\* While a message that passed the gate has no answer generated over it, one is still
\* to come: it is in an answering task, or a buffer will be popped.  The exceptions
\* are a task that took a message before its handler had scheduled, and a restart.
Unanswered == {m \in Msgs : handler[m].ai /\ handler[m].pc \in {"buffered", "wait", "done"}}
                  \ covered
NothingForgotten ==
    \/ raced \cap {"popped", "restart"} # {}
    \/ \A m \in Unanswered : buffer # {} \/ \E t \in Answering : m \in job[t].hist

\* A message handed to the debounce is covered by a generated answer, with the same
\* exceptions.
AnsweredUnlessRaced ==
    \A m \in Msgs : handler[m].pc = "buffered"
                        ~> m \in covered \/ raced \cap {"popped", "restart"} # {}

\* follow_up.py:284: the auto-finish is guarded against a reply since the SELECT.
AutoFinishSparesReplies == [][AutoFinish /\ fu.answered => conv' = conv]_vars
=============================================================================
