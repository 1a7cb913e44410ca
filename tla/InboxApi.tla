------------------------------ MODULE InboxApi ------------------------------
(***************************************************************************)
(* The inbox endpoints on one dialog (routers/conversations.py).  Each is  *)
(* one transaction; a message from the inbox is one before Telegram and    *)
(* one after.  Pending queue rows of the contact are failed by a takeover. *)
(***************************************************************************)
EXTENDS DialogState

\* A request changes the row, fails or keeps the pending ping, and counts.
Request(c2, ping2, origin2) ==
    /\ acts < MaxActs /\ ~Locked
    /\ conv' = c2 /\ ping' = ping2
    /\ origin' = IF c2.status = "lead_pending" THEN origin2 ELSE "unknown"
    /\ acts' = acts + 1
    /\ UNCHANGED <<kind, saved, lastBy, memory, fu, faults, raced, covered>>

TakenOver(c) == [c EXCEPT !.status = "manual", !.ai = FALSE]

DisableAi == Request(TakenOver(conv), "none", origin) /\ UNCHANGED ui

\* Both takeover statuses end; an outcome stays.
EnableAi ==
    /\ Request([conv EXCEPT !.ai = TRUE,
                            !.status = IF @ \in {"manual", "handoff"} THEN "active" ELSE @],
               ping, origin)
    /\ UNCHANGED ui

MarkLead == Request(MarkedLead(conv), ping, LeadOrigin) /\ UNCHANGED ui

ConfirmLead ==
    /\ conv.status = "lead_pending"
    /\ Request([conv EXCEPT !.status = "lead", !.pre = NoStatus], ping, origin)
    /\ UNCHANGED ui

Dismissed ==
    [conv EXCEPT !.status = IF conv.pre = NoStatus THEN "active" ELSE conv.pre,
                 !.pre = NoStatus]

\* dismiss-lead: back to the saved status, or to active when none was saved.
DismissLead ==
    /\ conv.status = "lead_pending"
    /\ Request(Dismissed, ping, origin)
    /\ UNCHANGED ui

FinishDialog ==
    /\ Request([conv EXCEPT !.status = "finished", !.ai = FALSE], ping, origin)
    /\ UNCHANGED ui

\* PATCH: the switch, or any status of CONVERSATION_STATUSES, which has no no_reply.
PatchDialog ==
    /\ \/ \E on \in BOOLEAN : Request([conv EXCEPT !.ai = on], ping, origin)
       \/ \E st \in Status \ {"no_reply"} :
             Request([conv EXCEPT !.status = st], ping,
                     "unknown")
    /\ UNCHANGED ui

\* send and send-file: the takeover is committed before Telegram is asked.
SendFromInbox ==
    /\ ui = "idle"
    /\ Request(TakenOver(conv), "none", origin)
    /\ ui' = "sending"

\* Telegram took the message, or did not.
RecordFromInbox ==
    /\ ui = "sending" /\ ~Locked
    /\ lastBy' \in {"human", lastBy}
    /\ ui' = "idle"
    /\ UNCHANGED <<kind, conv, saved, ping, memory, fu, acts, faults, raced, covered, origin>>

InboxNext ==
    \/ DisableAi \/ EnableAi \/ MarkLead \/ ConfirmLead \/ DismissLead \/ FinishDialog
    \/ PatchDialog \/ SendFromInbox \/ RecordFromInbox
=============================================================================
