------------------------------- MODULE Warmup -------------------------------
(***************************************************************************)
(* Warmup of one workspace: its accounts write to each other in sessions,  *)
(* so that Telegram sees them live.  One worker goes through the due       *)
(* sessions and then opens missing ones; the manager changes the pool      *)
(* meanwhile (services/warmup.py, routers/warmup.py).                      *)
(*                                                                         *)
(* Left out: working hours, the grade of the daily limit, what is written. *)
(* The budget of new chats is computed from the outreach queue alone, so   *)
(* it is an input.                                                         *)
(***************************************************************************)
EXTENDS Naturals, Sequences, SequencesExt, FiniteSets

CONSTANTS
    Members,        \* accounts with role sender
    NobodyYet,      \* last_sender_id of a session nobody wrote in
    MaxSessions,    \* bound: rows of warmup_sessions
    TargetMessages, \* target_messages (4 to 10 in the code)
    MaxWarmOps,     \* bound: requests of the manager
    MaxWarmFaults   \* bound: accounts lost or recovered, failed calls, crashes

ASSUME WarmCounts == MaxSessions \in Nat /\ TargetMessages \in Nat \ {0} /\ MaxWarmOps \in Nat
                        /\ MaxWarmFaults \in Nat
ASSUME NobodyIsNoMember == NobodyYet \notin Members
ASSUME WarmMembers == IsFiniteSet(Members)

VARIABLES
    enabled,        \* warmup_settings.enabled
    warmPool,           \* warmup_pool: out, or in and active or not
    fit,            \* members the account checks let write: lifecycle, auth, restriction
    session,        \* warmup_sessions
    written,        \* warmup_messages of each session: who wrote, in order
    young,          \* members whose last warmup_messages row is younger than MIN_DELAY
    known,          \* sender_first_contacts
    tick,           \* what the worker holds between two awaits
    warmOps, warmFaults,
    told,           \* history: messages delivered in each session
    unsure,         \* history: sessions with a message delivered and not kept, or kept and
                    \* not delivered
    revived         \* history: sessions of a removed account that the worker wrote from what
                    \* it had read before

warmVars == <<enabled, warmPool, fit, session, written, young, known, tick, warmOps, warmFaults,
              told, unsure, revived>>

SessionIds == 1..MaxSessions
NoSession == [st |-> "none", a |-> NobodyYet, b |-> NobodyYet, sent |-> 0, last |-> NobodyYet,
              due |-> FALSE]
AtRest == [pc |-> "idle", todo |-> {}, s |-> 0, prev |-> NobodyYet, pairs |-> {}]

\* A workspace that has just switched its warmup on.
InitWarmup ==
    /\ enabled = TRUE
    /\ warmPool = [m \in Members |-> "on"]
    /\ fit = Members
    /\ session = [s \in SessionIds |-> NoSession]
    /\ written = [s \in SessionIds |-> <<>>]
    /\ young = {} /\ known = {}
    /\ tick = AtRest
    /\ warmOps = 0 /\ warmFaults = 0
    /\ told = [s \in SessionIds |-> 0]
    /\ unsure = {} /\ revived = {}

Active == {s \in SessionIds : session[s].st = "active"}
Of(s) == {session[s].a, session[s].b}

WarmFault(n) == warmFaults + n <= MaxWarmFaults /\ warmFaults' = warmFaults + n

-----------------------------------------------------------------------------
(* The manager.                                                             *)

WarmAsked == warmOps < MaxWarmOps /\ warmOps' = warmOps + 1

AddToPool(m) ==
    /\ WarmAsked /\ warmPool' = [warmPool EXCEPT ![m] = "on"]
    /\ UNCHANGED <<enabled, fit, session, written, young, known, tick, warmFaults, told, unsure,
                   revived>>

\* Slip: the sessions of the account run on.
RunOn(m) == UNCHANGED session

\* Sessions complete first; one whose message is being composed is taken up again by the
\* write that follows.
Complete(m) ==
    session' = [s \in SessionIds |->
                    IF s \in Active /\ m \in Of(s) THEN [session[s] EXCEPT !.st = "completed"]
                    ELSE session[s]]

RemoveFromPool(m) ==
    /\ WarmAsked /\ warmPool[m] # "out"
    /\ Complete(m)
    /\ warmPool' = [warmPool EXCEPT ![m] = "out"]
    /\ UNCHANGED <<enabled, fit, written, young, known, tick, warmFaults, told, unsure, revived>>

\* A member switched off opens no new session; those it has go on, as they do when the
\* whole warmup is switched off.
ToggleMember(m) ==
    /\ WarmAsked /\ warmPool[m] # "out"
    /\ warmPool' = [warmPool EXCEPT ![m] = IF @ = "on" THEN "off" ELSE "on"]
    /\ UNCHANGED <<enabled, fit, session, written, young, known, tick, warmFaults, told, unsure,
                   revived>>

UpdateSettings ==
    /\ WarmAsked /\ enabled' = ~enabled
    /\ UNCHANGED <<warmPool, fit, session, written, young, known, tick, warmFaults, told, unsure,
                   revived>>

-----------------------------------------------------------------------------
(* Time and the accounts.                                                   *)

\* next_message_at passes.
Due(s) ==
    /\ s \in Active /\ ~session[s].due
    /\ session' = [session EXCEPT ![s].due = TRUE]
    /\ UNCHANGED <<enabled, warmPool, fit, written, young, known, tick, warmOps, warmFaults, told,
                   unsure, revived>>

\* MIN_DELAY passes since the last message of an account.
Ages(m) ==
    /\ tick.pc # "send" /\ m \in young /\ young' = young \ {m}
    /\ UNCHANGED <<enabled, warmPool, fit, session, written, known, tick, warmOps, warmFaults, told,
                   unsure, revived>>

FitnessChanges(m) ==
    /\ WarmFault(1)
    /\ fit' = IF m \in fit THEN fit \ {m} ELSE fit \cup {m}
    /\ UNCHANGED <<enabled, warmPool, session, written, young, known, tick, warmOps, told, unsure,
                   revived>>

-----------------------------------------------------------------------------
(* _tick: the due sessions, then the new ones.                              *)

\* The rows are read at once; of what is read here only the status can be changed by
\* somebody else before its session is reached, and it is not read again.
StartTick ==
    /\ tick.pc = "idle"
    /\ tick' = [AtRest EXCEPT !.pc = "pick", !.todo = {s \in Active : session[s].due}]
    /\ UNCHANGED <<enabled, warmPool, fit, session, written, young, known, warmOps, warmFaults, told,
                   unsure, revived>>

\* Writers take turns.
Author(s) == IF session[s].last = session[s].a THEN session[s].b ELSE session[s].a

\* An account writes once in MIN_DELAY over all its sessions.
Paced(m) == m \notin young

\* _process_session up to the model call: a session whose accounts may not write, whose
\* author has just written, or has used up the day, waits; the lists are read again, but
\* neither the pool nor the switch.
Compose(s) ==
    /\ tick.pc = "pick" /\ s \in tick.todo
    /\ \/ /\ Of(s) \subseteq fit /\ Paced(Author(s))
          /\ tick' = [tick EXCEPT !.pc = "compose", !.todo = @ \ {s}, !.s = s]
          /\ UNCHANGED session
       \/ /\ session' = [session EXCEPT ![s].due = FALSE]
          /\ tick' = [tick EXCEPT !.todo = @ \ {s}]
    /\ UNCHANGED <<enabled, warmPool, fit, written, young, known, warmOps, warmFaults, told, unsure,
                   revived>>

\* The model has nothing: nothing is written, the session stays due.
NoText ==
    /\ tick.pc = "compose"
    /\ tick' = [tick EXCEPT !.pc = "pick", !.s = 0]
    /\ UNCHANGED <<enabled, warmPool, fit, session, written, young, known, warmOps, warmFaults, told,
                   unsure, revived>>

\* A session of a removed account is written as if it were still there.
Revives(s) ==
    revived' = IF \E m \in Of(s) : warmPool[m] = "out" THEN revived \cup {s} ELSE revived

\* Row, counter, status and turn in one commit, before the message is sent.
RecordMessage ==
    LET s == tick.s
        m == Author(s)
        n == session[s].sent + 1
    IN  /\ tick.pc = "compose"
        /\ written' = [written EXCEPT ![s] = Append(@, m)]
        /\ session' = [session EXCEPT ![s] = [@ EXCEPT !.sent = n, !.last = m, !.due = FALSE,
                            !.st = IF n >= TargetMessages THEN "completed" ELSE "active"]]
        /\ young' = young \cup {m}
        /\ tick' = [tick EXCEPT !.pc = "send", !.prev = session[s].last]
        /\ Revives(s)
        /\ UNCHANGED <<enabled, warmPool, fit, known, warmOps, warmFaults, told, unsure>>

Sent ==
    /\ tick.pc = "send"
    /\ told' = [told EXCEPT ![tick.s] = @ + 1]
    /\ tick' = [tick EXCEPT !.pc = "pick", !.s = 0, !.prev = NobodyYet]
    /\ UNCHANGED <<enabled, warmPool, fit, session, written, young, known, warmOps, warmFaults, unsure,
                   revived>>

\* Slip: the message that did not arrive stays on record.
LeavesRow(s) == written

TakesRowBack(s) == [written EXCEPT ![s] = SubSeq(@, 1, Len(@) - 1)]

\* The send failed, perhaps after Telegram took the message, perhaps with a flood wait that
\* puts off every active session of the author: the row is deleted, counter and turn go
\* back, and the session is active again whatever it was meanwhile.
SendFails ==
    LET s == tick.s
        m == session[s].last
    IN  /\ tick.pc = "send" /\ WarmFault(1)
        /\ written' = TakesRowBack(s)
        /\ \E flood, arrived \in BOOLEAN :
            /\ ~(flood /\ arrived)
            /\ session' = [r \in SessionIds |->
                    IF r = s THEN [session[s] EXCEPT !.st = "active", !.sent = @ - 1, !.due = FALSE,
                                                     !.last = tick.prev]
                    ELSE IF flood /\ r \in Active /\ m \in Of(r) THEN [session[r] EXCEPT !.due = FALSE]
                    ELSE session[r]]
            /\ told' = [told EXCEPT ![s] = IF arrived THEN @ + 1 ELSE @]
            /\ unsure' = IF arrived THEN unsure \cup {s} ELSE unsure
        \* the row before it was not young, or this one would not have been written
        /\ young' = young \ {m}
        /\ tick' = [tick EXCEPT !.pc = "pick", !.s = 0, !.prev = NobodyYet]
        /\ Revives(s)
        /\ UNCHANGED <<enabled, warmPool, fit, known, warmOps>>

-----------------------------------------------------------------------------
(* _create_new_sessions: a session for every pair that has none.            *)

FreePairs == {p \in SUBSET Members : Cardinality(p) = 2 /\ \A s \in Active : Of(s) # p}

ReadPool ==
    LET in == {m \in fit : enabled /\ warmPool[m] = "on"} IN
    /\ tick.pc = "pick" /\ tick.todo = {}
    /\ tick' = [tick EXCEPT !.pc = "open", !.pairs = {p \in FreePairs : p \subseteq in}]
    /\ UNCHANGED <<enabled, warmPool, fit, session, written, young, known, warmOps, warmFaults, told,
                   unsure, revived>>

\* Pairs that met before are free; a new one needs an initiator with budget left, and
\* none of those opened in one tick is charged.  All are inserted in one commit.
OpenSessions ==
    LET used == Cardinality({s \in SessionIds : session[s].st # "none"}) IN
    /\ tick.pc = "open"
    /\ \E new \in SUBSET tick.pairs : \E first \in [new -> Members] :
        LET q == SetToSeq(new)
            Opened(i) == [NoSession EXCEPT !.st = "active", !.a = first[q[i]],
                                           !.b = CHOOSE m \in q[i] : m # first[q[i]]]
        IN  /\ tick.pairs \cap known \subseteq new /\ \A p \in new : first[p] \in p
            /\ used + Len(q) <= MaxSessions
            /\ session' = [s \in SessionIds |->
                    IF s - used \in 1..Len(q) THEN Opened(s - used) ELSE session[s]]
            /\ known' = known \cup new
            /\ revived' = revived \cup {used + i : i \in {j \in 1..Len(q) :
                                            \E m \in q[j] : warmPool[m] = "out"}}
    /\ tick' = AtRest
    /\ UNCHANGED <<enabled, warmPool, fit, written, young, warmOps, warmFaults, told, unsure>>

\* The process dies; a message recorded may have left or not.
WarmCrash ==
    /\ tick.pc # "idle" /\ WarmFault(1)
    /\ IF tick.pc = "send"
       THEN \/ told' = [told EXCEPT ![tick.s] = @ + 1] /\ UNCHANGED unsure
            \/ unsure' = unsure \cup {tick.s} /\ UNCHANGED told
       ELSE UNCHANGED <<told, unsure>>
    /\ tick' = AtRest
    /\ UNCHANGED <<enabled, warmPool, fit, session, written, young, known, warmOps, revived>>

-----------------------------------------------------------------------------
WarmupNext ==
    \/ \E m \in Members : AddToPool(m) \/ RemoveFromPool(m) \/ ToggleMember(m) \/ Ages(m)
                                \/ FitnessChanges(m)
    \/ UpdateSettings
    \/ \E s \in SessionIds : Due(s) \/ Compose(s)
    \/ StartTick \/ NoText \/ RecordMessage \/ Sent \/ SendFails \/ ReadPool \/ OpenSessions \/ WarmCrash

WarmupSpec == InitWarmup /\ [][WarmupNext]_warmVars

-----------------------------------------------------------------------------
WarmupTypeOK ==
    LET Person == Members \cup {NobodyYet} IN
    /\ enabled \in BOOLEAN /\ warmPool \in [Members -> {"out", "on", "off"}]
    /\ fit \subseteq Members /\ young \subseteq Members /\ known \subseteq SUBSET Members
    /\ session \in [SessionIds -> [st: {"none", "active", "completed"}, a: Person, b: Person,
                                   sent: 0..TargetMessages, last: Person, due: BOOLEAN]]
    /\ \A s \in SessionIds : Len(written[s]) <= TargetMessages
    /\ tick.pc \in {"idle", "pick", "compose", "send", "open"} /\ tick.todo \subseteq SessionIds
    /\ warmOps \in 0..MaxWarmOps /\ warmFaults \in 0..MaxWarmFaults
    /\ unsure \cup revived \subseteq SessionIds

\* The messages of a session are written in turns, and as many are recorded and counted
\* as were delivered, however sends fail; unless a failed send arrived all the same or
\* the process died between record and send.
TurnsAreDeliveries ==
    \A s \in SessionIds :
        /\ session[s].sent = Len(written[s])
        /\ \A i \in 1..Len(written[s]) :
                written[s][i] = IF i % 2 = 1 THEN session[s].a ELSE session[s].b
        /\ s \notin unsure =>
                Len(written[s]) = told[s] + IF tick.pc = "send" /\ tick.s = s THEN 1 ELSE 0

\* An account taken out of the pool is in no active session, except one the worker wrote
\* after it had looked.  (remove_from_pool, routers/warmup.py:203)
RemovedIsLeftAlone ==
    \A s \in Active : \A m \in Of(s) : warmPool[m] = "out" => s \in revived
=============================================================================
