------------------------------ MODULE FollowUp ------------------------------
(***************************************************************************)
(* The follow-up worker on one dialog of a running campaign with follow-up *)
(* enabled (services/follow_up.py), and the queue worker's last look at a  *)
(* ping.  A tick marks, selects all its dialogs under row locks, and works *)
(* through them one by one; the first commit releases every lock, so a     *)
(* dialog later in the batch is processed unlocked, from old values.       *)
(***************************************************************************)
EXTENDS DialogState

\* _mark_no_reply_pass.
Mark ==
    /\ fu.pc = "idle"
    /\ \/ conv.status = "active" /\ lastBy # "contact"
          /\ conv' = [conv EXCEPT !.status = "no_reply"]
       \/ conv.status = "no_reply" /\ lastBy = "contact"
          /\ conv' = [conv EXCEPT !.status = "active"]
    /\ UNCHANGED <<kind, saved, lastBy, ping, memory, fu, ui, acts, faults, raced, covered,
                   origin>>

\* The SELECT ... FOR UPDATE SKIP LOCKED of tick.
PickDialog ==
    /\ fu.pc = "idle"
    /\ conv.status \in Open
    /\ fu' = [pc |-> "picked", st |-> conv.status, pings |-> conv.pings, locked |-> TRUE,
              answered |-> FALSE]
    /\ UNCHANGED <<kind, conv, saved, lastBy, ping, memory, ui, acts, faults, raced,
                   covered, origin>>

\* An earlier dialog of the batch commits, or rolls back on an error.
EarlierRowEnds ==
    /\ fu.pc = "picked" /\ fu.locked
    /\ fu' = [fu EXCEPT !.locked = FALSE]
    /\ UNCHANGED <<kind, conv, saved, lastBy, ping, memory, ui, acts, faults, raced,
                   covered, origin>>

\* Slip: one ping too many.
PingsLeftInclusive == fu.pings <= MaxPings

PingsLeft == fu.pings < MaxPings

\* Not due yet, the account is frozen, a ping already waits, or the row fails.
LeaveAlone ==
    /\ fu.pc = "picked" /\ PingsLeft
    /\ fu' = FuIdle
    /\ UNCHANGED <<kind, conv, saved, lastBy, ping, memory, ui, acts, faults, raced,
                   covered, origin>>

\* Slip: the status selected decides, not the status now.
FinishedBlind == [conv EXCEPT !.status = "finished"]

\* The guarded UPDATE of _auto_finish.
AutoFinished ==
    IF conv.status \in Open THEN [conv EXCEPT !.status = "finished"] ELSE conv

\* _auto_finish: silent for auto_finish_hours, or out of pings.  The pending row is
\* cancelled and the webhook fired whether or not the UPDATE found the dialog open.
AutoFinish ==
    /\ fu.pc = "picked"
    /\ conv' = AutoFinished
    /\ ping' = "none"
    /\ fu' = FuIdle
    /\ UNCHANGED <<kind, saved, lastBy, memory, ui, acts, faults, raced, covered, origin>>

\* _ping up to the language model.
ComposePing ==
    /\ fu.pc = "picked" /\ PingsLeft
    /\ ping = "none"
    /\ fu' = [fu EXCEPT !.pc = "composing"]
    /\ UNCHANGED <<kind, conv, saved, lastBy, ping, memory, ui, acts, faults, raced,
                   covered, origin>>

\* generate_followup_ping returned nothing: no change, next tick tries again.
NoPingText ==
    /\ fu.pc = "composing"
    /\ fu' = FuIdle
    /\ UNCHANGED <<kind, conv, saved, lastBy, ping, memory, ui, acts, faults, raced,
                   covered, origin>>

\* The rest of _ping, one transaction with enqueue_message: the flip to no_reply, the
\* counter and the row.
EnqueuePing ==
    /\ fu.pc = "composing"
    /\ conv' = [conv EXCEPT !.pings = @ + 1,
                            !.status = IF fu.st = "active" /\ @ = "active"
                                       THEN "no_reply" ELSE @]
    /\ ping' = IF fu.answered THEN "answered" ELSE "pending"
    /\ fu' = FuIdle
    /\ UNCHANGED <<kind, saved, lastBy, memory, ui, acts, faults, raced, covered, origin>>

\* The process dies or the row's transaction fails: nothing was committed.
TickDies ==
    /\ fu.pc # "idle"
    /\ fu' = FuIdle
    /\ UNCHANGED <<kind, conv, saved, lastBy, ping, memory, ui, acts, faults, raced,
                   covered, origin>>

\* __send_item_inner on a ping: the takeover guard, then the second follow-up guard: a
\* dialog that was closed, or a reply since the row was made.
MaySendPing == conv.ai /\ conv.status \in Open /\ ping = "pending"

\* The queue worker takes the ping; Telegram may still refuse it.
SendPing ==
    /\ ping # "none" /\ ~Locked
    /\ ping' = "none"
    /\ lastBy' \in IF MaySendPing THEN {"ai", lastBy} ELSE {lastBy}
    /\ UNCHANGED <<kind, conv, saved, memory, fu, ui, acts, faults, raced, covered, origin>>

FollowUpNext ==
    \/ Mark \/ PickDialog \/ EarlierRowEnds \/ LeaveAlone \/ AutoFinish
    \/ ComposePing \/ NoPingText \/ EnqueuePing \/ TickDies \/ SendPing
=============================================================================
