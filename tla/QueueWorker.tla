---------------------------- MODULE QueueWorker ----------------------------
(***************************************************************************)
(* app/services/queue.py QueueWorker with send_suspect.py: one loop that   *)
(* takes a due row, sends it through Telegram outside any transaction, and *)
(* writes down what happened.  Each action is one committed transaction or *)
(* one Telegram call, so every other actor may run in between.             *)
(***************************************************************************)
EXTENDS QueueState

Held == queue[worker.id]

Goto(pc) == worker' = [worker EXCEPT !.pc = pc]

-----------------------------------------------------------------------------
(* Choosing a row: _tick, _check_rate_limits, _process_next_for_sender.     *)

\* The sender has written to this phone before, in any campaign.
KnownPeer(i) ==
    \E j \in WithStatus("sent") : queue[j].s = queue[i].s /\ queue[j].p = queue[i].p

\* _tick found due rows of s, _check_rate_limits lets s through: offline and
\* frozen senders skip the tick, spam_limited ones do not.
Gate(s) ==
    /\ worker.pc = "idle"
    /\ \E i \in WithStatus("pending") :
            queue[i].s = s /\ campaign[queue[i].c] = "running"
    /\ online[s] /\ restriction[s] # "frozen"
    /\ worker' = [pc |-> "gated", s |-> s, id |-> 0]
    /\ UNCHANGED <<campaign, restriction, online, queue, cca, conv, enq, spent, late, txn>>

\* The pick SELECT of _process_next_for_sender: restriction is read again, but
\* only spam_limited is looked at, and only for a new dialog.
MayPick(i) ==
    /\ queue[i].st = "pending" /\ queue[i].s = worker.s
    /\ campaign[queue[i].c] = "running"
    /\ KnownPeer(i) \/ restriction[worker.s] # "spam_limited"

Pick(i) ==
    /\ worker.pc = "gated"
    /\ MayPick(i)
    /\ queue' = [queue EXCEPT ![i].st = "processing"]
    /\ worker' = [pc |-> "picked", s |-> worker.s, id |-> i]
    /\ UNCHANGED <<campaign, restriction, online, cca, conv, enq, spent, late, txn>>

\* No row is due for this sender: rate limits, pacing, window or an empty SELECT.
PickNothing ==
    /\ worker.pc = "gated"
    /\ worker' = IdleWorker
    /\ UNCHANGED <<campaign, restriction, online, queue, cca, conv, enq, spent, late, txn>>

\* _pause_expired_campaigns: past its stop_date a running campaign is paused
\* and its rows stay pending (from _tick and from the pick).
PauseExpired(c) ==
    /\ worker.pc \in {"idle", "gated"}
    /\ campaign[c] = "running"
    /\ campaign' = [campaign EXCEPT ![c] = "paused"]
    /\ UNCHANGED <<restriction, online, queue, cca, conv, worker, enq, spent, late, txn>>

-----------------------------------------------------------------------------
(* Before the send: the guards of __send_item_inner.                        *)

\* The sender went offline since the pick: an ordinary failed attempt.
RefuseOffline ==
    /\ worker.pc = "picked"
    /\ ~online[worker.s]
    /\ FailItem(worker.id, Held)
    /\ worker' = IdleWorker
    /\ UNCHANGED <<campaign, restriction, online, conv, enq, spent, late, txn>>

\* A manager took the dialog over: the row fails at once, the CCA stays.
RefuseTakenOver ==
    /\ worker.pc = "picked"
    /\ online[worker.s] /\ conv[worker.s][Held.p] = "manual"
    /\ queue' = [queue EXCEPT ![worker.id].st = "failed"]
    /\ worker' = IdleWorker
    /\ UNCHANGED <<campaign, restriction, online, cca, conv, enq, spent, late, txn>>

\* Slip: without the takeover guard.
ProceedRegardless ==
    /\ worker.pc = "picked"
    /\ online[worker.s]
    /\ Goto("sending")
    /\ UNCHANGED <<campaign, restriction, online, queue, cca, conv, enq, spent, late, txn>>

\* Neither the campaign nor the restriction is looked at again.
Proceed ==
    /\ worker.pc = "picked"
    /\ online[worker.s] /\ conv[worker.s][Held.p] # "manual"
    /\ Goto("sending")
    /\ UNCHANGED <<campaign, restriction, online, queue, cca, conv, enq, spent, late, txn>>

-----------------------------------------------------------------------------
(* The send and its success.                                                *)

Overwrites == conv[worker.s][Held.p] = "manual"

\* Telegram delivered the message; nothing is recorded yet.
Deliver ==
    /\ worker.pc = "sending"
    /\ queue' = [queue EXCEPT ![worker.id].copies = @ + 1]
    /\ late' = late + (IF Overwrites THEN 1 ELSE 0)
    /\ Goto("acked")
    /\ UNCHANGED <<campaign, restriction, online, cca, conv, enq, spent, txn>>

\* _upsert_conversation: an existing dialog is reused as it is.
Upserted(s, p) ==
    [conv EXCEPT ![s][p] = IF @ = "none" THEN "ai" ELSE @]

CommitSent ==
    /\ worker.pc = "acked"
    /\ queue' = [queue EXCEPT ![worker.id].st = "sent"]
    /\ conv' = Upserted(worker.s, Held.p)
    /\ worker' = IdleWorker
    /\ UNCHANGED <<campaign, restriction, online, cca, enq, spent, late, txn>>

\* _upsert_conversation swallows a database error; the transaction is aborted
\* and the commit that follows records nothing.
LoseCommit ==
    /\ worker.pc = "acked"
    /\ Spend("lost")
    /\ worker' = IdleWorker
    /\ UNCHANGED <<campaign, restriction, online, queue, cca, conv, enq, late, txn>>

-----------------------------------------------------------------------------
(* What Telegram may answer instead.                                        *)

\* USER_IS_BLOCKED, an unknown error code, or an exception: a failed attempt.
RejectSend ==
    /\ worker.pc = "sending"
    /\ FailItem(worker.id, Held)
    /\ worker' = IdleWorker
    /\ UNCHANGED <<campaign, restriction, online, conv, enq, spent, late, txn>>

\* The message was delivered but the answer was lost (timeout, disconnect):
\* the exception branch counts a failed attempt.
LoseAnswer ==
    /\ worker.pc = "sending"
    /\ Spend("lost")
    /\ FailItem(worker.id, [Held EXCEPT !.copies = @ + 1])
    /\ late' = late + (IF Overwrites THEN 1 ELSE 0)
    /\ worker' = IdleWorker
    /\ UNCHANGED <<campaign, restriction, online, conv, enq, txn>>

\* Slip: the wait is noted, the status is not set back.
FloodWaitKeepsStatus ==
    /\ worker.pc = "sending"
    /\ worker' = IdleWorker
    /\ UNCHANGED <<campaign, restriction, online, queue, cca, conv, enq, spent, late, txn>>

\* FLOOD_WAIT: back to pending, the attempt is not counted.
FloodWait ==
    /\ worker.pc = "sending"
    /\ queue' = [queue EXCEPT ![worker.id].st = "pending"]
    /\ worker' = IdleWorker
    /\ UNCHANGED <<campaign, restriction, online, cca, conv, enq, spent, late, txn>>

\* _stamp_resolve_fail: the sender failed to resolve this contact.
Stamped(row, s) == [row EXCEPT !.tried = @ \cup {s}, !.mark = s]

\* PRIVACY_RESTRICTED: stamped, then a failed attempt, in one transaction.
PrivacyRestricted ==
    /\ worker.pc = "sending"
    /\ Spend("verdict")
    /\ FailItem(worker.id, Stamped(Held, worker.s))
    /\ worker' = IdleWorker
    /\ UNCHANGED <<campaign, restriction, online, conv, enq, late, txn>>

\* Slip: the cap counts the senders tried before this one.
RotatedOutLate == Cardinality(Held.tried) >= ResolveRotationCap

\* RESOLVE_ROTATION_CAP: this sender is the last the row may fail on.
RotatedOut == Cardinality(Held.tried \cup {worker.s}) >= ResolveRotationCap

\* RECIPIENT_NOT_IN_TELEGRAM from a live lookup, below the cap: the pool SELECT of
\* _reroute_resolve_fail, which asks for a running campaign too.
NotResolved ==
    /\ worker.pc = "sending"
    /\ ~RotatedOut
    /\ Spend("verdict")
    /\ Opens("worker", "reroute", worker.s, Eligible, Running)
    /\ Goto("unresolved")
    /\ UNCHANGED <<campaign, restriction, online, queue, cca, conv, enq, late>>

\* The pool senders a NOT_REGISTERED row may rotate to.
RerouteTargets ==
    IF Held.c \in txn["worker"].running
    THEN (Pool[Held.c] \cap txn["worker"].pool) \ (Held.tried \cup {worker.s})
    ELSE {}

\* _reroute_resolve_fail: rotated to an untried sender of that pool.
Reroute ==
    /\ worker.pc = "unresolved"
    /\ Commits("worker", "reroute", worker.s)
    /\ \E new \in RerouteTargets :
          /\ queue' = [queue EXCEPT ![worker.id] =
                [Held EXCEPT !.st = "pending", !.s = new, !.att = 0,
                             !.tried = @ \cup {worker.s}, !.mark = new]]
          /\ cca' = CcaFollows({worker.id}, [i \in {worker.id} |-> new])
    /\ worker' = IdleWorker
    /\ UNCHANGED <<campaign, restriction, online, conv, enq, spent, late>>

\* Nowhere to rotate: stamped, then a failed attempt, in the same transaction.
RerouteNowhere ==
    /\ worker.pc = "unresolved"
    /\ Commits("worker", "reroute", worker.s)
    /\ RerouteTargets = {}
    /\ FailItem(worker.id, Stamped(Held, worker.s))
    /\ worker' = IdleWorker
    /\ UNCHANGED <<campaign, restriction, online, conv, enq, spent, late>>

\* RECIPIENT_NOT_IN_TELEGRAM from the workspace cache, or at the cap.
NotRegistered(fromCache) ==
    /\ worker.pc = "sending"
    /\ fromCache \/ RotatedOut
    /\ Spend("verdict")
    /\ FailItem(worker.id, Stamped(Held, worker.s))
    /\ worker' = IdleWorker
    /\ UNCHANGED <<campaign, restriction, online, conv, enq, late, txn>>

-----------------------------------------------------------------------------
(* PEER_FLOOD and ACCOUNT_FROZEN: four transactions one after the other.    *)

Restricted(status) ==
    /\ worker.pc = "sending" /\ ~Locked(worker.s)
    /\ Spend("flag")
    /\ restriction' = [restriction EXCEPT ![worker.s] = status]
    /\ txn' = Lapsing(worker.s)
    /\ Goto("flagged")
    /\ UNCHANGED <<campaign, online, queue, cca, conv, enq, late>>

EvacuationReads ==
    /\ worker.pc = "flagged"
    /\ Opens("worker", "failover", worker.s, Eligible, {})
    /\ UNCHANGED <<campaign, restriction, online, queue, cca, conv, worker, enq, spent, late>>

EvacuateFlagged ==
    /\ worker.pc = "flagged"
    /\ Commits("worker", "failover", worker.s)
    /\ Failover(worker.s, txn["worker"].pool)
    /\ Goto("evacuated")
    /\ UNCHANGED <<campaign, restriction, online, conv, enq, spent, late>>

\* send_suspect.py: failed rows whose last resolve verdict came from s, in the
\* campaigns that were running when they were claimed.
Suspects(s) ==
    {i \in WithStatus("failed") :
        queue[i].s = s /\ queue[i].mark = s /\ queue[i].c \in txn["worker"].running}

\* Senders of the pool that have not failed on the row.
SuspectTargets(i, s) ==
    ((Pool[queue[i].c] \cap txn["worker"].pool) \ queue[i].tried) \ {s}

RollbackReads ==
    /\ worker.pc = "evacuated"
    /\ Opens("worker", "rollback", worker.s, Eligible, Running)
    /\ UNCHANGED <<campaign, restriction, online, queue, cca, conv, worker, enq, spent, late>>

\* rollback_suspect_resolve_fails: those of the last 15 minutes (any subset)
\* go back to pending on an untried sender of the pool.
RollbackSuspects ==
    /\ worker.pc = "evacuated"
    /\ Commits("worker", "rollback", worker.s)
    /\ \E recent \in SUBSET Suspects(worker.s) :
        LET M == {i \in recent : SuspectTargets(i, worker.s) # {}}
        IN  \E recv \in [M -> Senders] :
                /\ \A i \in M : recv[i] \in SuspectTargets(i, worker.s)
                /\ queue' = [i \in Ids |->
                        IF i \in M
                        THEN [queue[i] EXCEPT !.st = "pending", !.s = recv[i],
                                              !.att = 0, !.reopens = @ + 1]
                        ELSE queue[i]]
                /\ cca' = CcaFollows(M, recv)
    /\ Goto("failing")
    /\ UNCHANGED <<campaign, restriction, online, conv, enq, spent, late>>

\* Slip: returning after the rollback without _fail_item.
ForgetFlagged ==
    /\ worker.pc = "failing"
    /\ worker' = IdleWorker
    /\ UNCHANGED <<campaign, restriction, online, queue, cca, conv, enq, spent, late, txn>>

\* Only now the row itself counts a failed attempt, still on the flagged sender.
FailFlagged ==
    /\ worker.pc = "failing"
    /\ FailItem(worker.id, Held)
    /\ worker' = IdleWorker
    /\ UNCHANGED <<campaign, restriction, online, conv, enq, spent, late, txn>>

-----------------------------------------------------------------------------
(* SessionAuthError: the session is dead, all open rows of the sender fail. *)

AuthError ==
    /\ worker.pc = "sending" /\ ~Locked(worker.s)
    /\ Spend("auth")
    /\ online' = [online EXCEPT ![worker.s] = FALSE]
    /\ txn' = Lapsing(worker.s)
    /\ Goto("authdead")
    /\ UNCHANGED <<campaign, restriction, queue, cca, conv, enq, late>>

FailAllOfSender ==
    /\ worker.pc = "authdead"
    /\ queue' = [i \in Ids |->
            IF queue[i].s = worker.s /\ queue[i].st \in {"pending", "processing"}
            THEN [queue[i] EXCEPT !.st = "failed"]
            ELSE queue[i]]
    /\ worker' = IdleWorker
    /\ UNCHANGED <<campaign, restriction, online, cca, conv, enq, spent, late, txn>>

-----------------------------------------------------------------------------
\* The process dies and starts again: recover_stuck_jobs returns the rows that
\* have been processing for more than ten minutes (any subset), the transaction
\* the two workers had open are gone; the listener is another process.
Restart ==
    /\ Spend("crash")
    /\ \E old \in SUBSET WithStatus("processing") :
        queue' = [i \in Ids |->
            IF i \in old THEN [queue[i] EXCEPT !.st = "pending"] ELSE queue[i]]
    /\ worker' = IdleWorker
    /\ enq' = NoBatch
    /\ txn' = [txn EXCEPT !["worker"] = NoTxn, !["enqueue"] = NoTxn]
    /\ UNCHANGED <<campaign, restriction, online, cca, conv, late>>

SendStep ==
    \/ RefuseOffline \/ RefuseTakenOver \/ Proceed
    \/ Deliver \/ CommitSent \/ LoseCommit
    \/ RejectSend \/ LoseAnswer \/ FloodWait \/ PrivacyRestricted
    \/ NotResolved \/ Reroute \/ RerouteNowhere
    \/ \E fromCache \in BOOLEAN : NotRegistered(fromCache)
    \/ \E status \in {"spam_limited", "frozen"} : Restricted(status)
    \/ EvacuationReads \/ EvacuateFlagged \/ RollbackReads \/ RollbackSuspects \/ FailFlagged
    \/ AuthError \/ FailAllOfSender

WorkerNext ==
    \/ \E s \in Senders : Gate(s)
    \/ \E i \in Ids : Pick(i)
    \/ PickNothing
    \/ \E c \in Campaigns : PauseExpired(c)
    \/ SendStep
    \/ Restart
=============================================================================
