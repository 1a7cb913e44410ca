---------------------------- MODULE ContactCheck ----------------------------
(***************************************************************************)
(* The contact checker of one workspace: workers that claim pending        *)
(* contacts, resolve them on a checker account through a cache, judge the  *)
(* batch, and bench a checker that Telegram throttles                      *)
(* (services/contact_check_worker.py, services/checker.py,                 *)
(* routers/check_contacts.py).  Contacts are unique by phone, so a contact *)
(* stands for its phone as well.                                           *)
(*                                                                         *)
(* Left out: usernames (a contact with one is imported as registered and   *)
(* is never claimed), the escalating length of a cooldown, the daily cap.  *)
(***************************************************************************)
EXTENDS Naturals, FiniteSets

CONSTANTS
    Phones,       \* contacts of the workspace, one phone each
    Checkers,       \* accounts with role checker
    Workers,        \* instances of the worker: one, or two by mistake
    NoChecker,      \* a worker that works on no checker
    MinBatch,       \* ANOMALY_MIN_BATCH
    MaxBad          \* bound: throttled, failed or raising calls, crashes, expired claims,
                    \* requests of a manager

ASSUME CheckCounts == MinBatch \in Nat \ {0} /\ MaxBad \in Nat
ASSUME CheckNoChecker == NoChecker \notin Checkers

VARIABLES
    contact,    \* contacts: tg_status, whether the last verdict was certain (tg_confidence high,
                \* tg_probe_state clean, always written together), tg_checked_at not yet old
    checker,    \* senders: restriction, cooldown, lifecycle, rest, auth
    cache,      \* contacts_cache, one row per checker and phone
    checking,     \* what an instance holds between two awaits
    misses,     \* _consecutive_misses of each instance
    controls,   \* the control set was found at start
    bad,        \* bounded counter
    trusted,    \* history: negative rows whose batch showed no throttle signal, or was
                \* cut off before anybody could judge it
    doubted,    \* history: contacts whose negative verdict nobody could have trusted
    races       \* history: a claim ran out while its batch was under way, or one instance
                \* recovered a checker another had just benched

checkVars == <<contact, checker, cache, checking, misses, controls, bad, trusted, doubted,
          races>>

Answers == {"none", "live", "dead", "bad", "cached live", "cached dead"}
NoRound == [pc |-> "idle", k |-> NoChecker, todo |-> {}, degraded |-> {}, suspect |-> FALSE,
         flood |-> FALSE, batch |-> {}, res |-> [c \in Phones |-> "none"]]

\* Contacts imported while the workspace had a checker; some of the supply of faults may
\* be spent.
InitCheck ==
    /\ contact = [c \in Phones |-> [st |-> "pending", certain |-> FALSE, claimed |-> FALSE]]
    /\ checker = [k \in Checkers |-> [limited |-> FALSE, cooling |-> FALSE, paused |-> FALSE,
                                      resting |-> FALSE, dead |-> FALSE]]
    /\ cache = [k \in Checkers |-> [c \in Phones |-> "none"]]
    /\ checking = [w \in Workers |-> NoRound]
    /\ misses = [w \in Workers |-> [k \in Checkers |-> 0]]
    /\ controls \in BOOLEAN
    /\ bad \in 0..MaxBad
    /\ trusted = {} /\ doubted = {} /\ races = {}

-----------------------------------------------------------------------------
(* Benching.                                                                *)

\* The gate of _tick, of the probe and of select_eligible_checkers.
Eligible(k) ==
    LET s == checker[k] IN ~s.dead /\ ~s.limited /\ ~s.paused /\ ~s.cooling /\ ~s.resting

\* The write of _flag_checker_degraded.
Flagged(k) == [checker EXCEPT ![k] = [@ EXCEPT !.limited = TRUE, !.cooling = TRUE, !.paused = TRUE]]

\* Slip: the false negatives already written stay.
KeepCache(k) == UNCHANGED <<cache, trusted>>

\* The purge in the same transaction takes the negative rows of the last half hour: the
\* rows of the batch at hand, and the earlier ones that are young enough.
Purge(k) ==
    \E old \in SUBSET {c \in Phones : <<k, c>> \in trusted} :
        /\ cache' = [cache EXCEPT ![k] =
                        [c \in Phones |-> IF @[c] = "dead" /\ c \notin old THEN "none" ELSE @[c]]]
        /\ trusted' = trusted \ {<<k, c>> : c \in Phones \ old}

Flag(k) == checker' = Flagged(k) /\ Purge(k)

\* A fault of Telegram or of the process, out of a bounded supply.
CheckFault(n) == bad + n <= MaxBad /\ bad' = bad + n

-----------------------------------------------------------------------------
(* One round of _run: recover, probe, tick.                                 *)

Cooled == {k \in Checkers : checker[k].limited /\ ~checker[k].cooling}

\* The SELECT of _recover_checkers, in vain without a control set.
StartRound(w) ==
    /\ checking[w].pc = "idle"
    /\ checking' = [checking EXCEPT ![w] = [NoRound EXCEPT !.pc = "recover",
                                        !.todo = IF controls THEN Cooled ELSE {}]]
    /\ UNCHANGED <<contact, checker, cache, misses, controls, bad, trusted, doubted, races>>

\* A recovery probe: clean, still throttled, or an exception.  Each outcome is written
\* by id, whatever happened to the account since the SELECT.
Recover(w, k) ==
    /\ checking[w].pc = "recover" /\ k \in checking[w].todo
    /\ checking' = [checking EXCEPT ![w].todo = @ \ {k}]
    /\ \/ /\ ~checker[k].dead
          /\ checker' = [checker EXCEPT ![k] = [@ EXCEPT !.limited = FALSE, !.cooling = FALSE,
                                                         !.paused = FALSE]]
          /\ misses' = [misses EXCEPT ![w][k] = 0]
          /\ races' = IF \E v \in Workers \ {w} : k \in checking[v].degraded
                      THEN races \cup {"recovered"} ELSE races
          /\ UNCHANGED <<cache, trusted, bad>>
       \/ CheckFault(1) /\ Flag(k) /\ UNCHANGED <<misses, races>>
       \/ /\ IF checker[k].dead THEN UNCHANGED bad ELSE CheckFault(1)
          /\ checker' = [checker EXCEPT ![k].cooling = TRUE]
          /\ UNCHANGED <<cache, trusted, misses, races>>
    /\ UNCHANGED <<contact, controls, doubted>>

\* _probe_cycle selects; a checker probed within the interval is passed over.
StartProbes(w) ==
    /\ checking[w].pc = "recover" /\ checking[w].todo = {}
    /\ \E due \in SUBSET {k \in Checkers : controls /\ Eligible(k)} :
          checking' = [checking EXCEPT ![w] = [NoRound EXCEPT !.pc = "probe", !.todo = due]]
    /\ UNCHANGED <<contact, checker, cache, misses, controls, bad, trusted, doubted, races>>

\* probe_checker: a clean probe forgets the misses, the second miss in a row benches,
\* an exception is neither.
Probe(w, k) ==
    /\ checking[w].pc = "probe" /\ k \in checking[w].todo
    /\ \/ /\ misses' = [misses EXCEPT ![w][k] = 0]
          /\ checking' = [checking EXCEPT ![w].todo = @ \ {k}]
          /\ UNCHANGED <<checker, cache, trusted, bad>>
       \/ /\ CheckFault(1)
          /\ misses' = [misses EXCEPT ![w][k] = IF @ = 0 THEN 1 ELSE 2]
          /\ IF misses[w][k] = 0
             THEN /\ checking' = [checking EXCEPT ![w].todo = @ \ {k}]
                  /\ UNCHANGED <<checker, cache, trusted>>
             ELSE /\ checking' = [checking EXCEPT ![w].todo = @ \ {k}, ![w].degraded = @ \cup {k}]
                  /\ Flag(k)
       \/ /\ CheckFault(1)
          /\ checking' = [checking EXCEPT ![w].todo = @ \ {k}]
          /\ UNCHANGED <<checker, cache, trusted, misses>>
    /\ UNCHANGED <<contact, controls, doubted, races>>

\* The rows the SELECT of _tick may return.
Claimable == {c \in Phones : contact[c].st = "pending" /\ ~contact[c].claimed}

\* Slip: the claim is left to the row lock, which ends with the transaction.
Unclaimed(batch) == contact

\* tg_checked_at says who is being looked at; the status may not.
Claimed(batch) == [c \in Phones |-> IF c \in batch THEN [contact[c] EXCEPT !.claimed = TRUE]
                                      ELSE contact[c]]

\* All contacts of a workspace get the same checker.  The batch is what the limit and
\* the other instance's locks leave.
ClaimBatch(w) ==
    /\ checking[w].pc = "probe" /\ checking[w].todo = {}
    /\ \E k \in {j \in Checkers : Eligible(j)}, batch \in SUBSET Claimable \ {{}} :
          /\ checking' = [checking EXCEPT ![w] = [@ EXCEPT !.pc = "check", !.k = k, !.batch = batch,
                                                       !.suspect = k \in checking[w].degraded]]
          /\ contact' = Claimed(batch)
    /\ UNCHANGED <<checker, cache, misses, controls, bad, trusted, doubted, races>>

NothingToClaim(w) ==
    /\ checking[w].pc = "probe" /\ checking[w].todo = {}
    /\ Claimable = {} \/ \A k \in Checkers : ~Eligible(k)
    /\ checking' = [checking EXCEPT ![w] = NoRound]
    /\ UNCHANGED <<contact, checker, cache, misses, controls, bad, trusted, doubted, races>>

-----------------------------------------------------------------------------
(* The batch: check_phones, one phone at a time, then the verdict.          *)

Begun(w) == checking[w].pc = "check" /\ ~checking[w].flood
Unresolved(w) == {c \in checking[w].batch : checking[w].res[c] = "none"}
Answer(w, c, r) == checking' = [checking EXCEPT ![w].res[c] = r]

\* _lookup_cache: the newest row of the workspace, of whatever checker; a negative one only
\* for a contact whose last verdict was certain.
Served(c, r) ==
    \E k \in Checkers :
        /\ cache[k][c] = r
        /\ r = "dead" => contact[c].certain

FromCache(w, c) ==
    /\ Begun(w) /\ c \in Unresolved(w)
    /\ \E r \in {"live", "dead"} :
          /\ Served(c, r)
          /\ Answer(w, c, IF r = "live" THEN "cached live" ELSE "cached dead")
          /\ doubted' = IF r = "dead" /\ ~\E k \in Checkers : <<k, c>> \in trusted
                        THEN doubted \cup {c} ELSE doubted
    /\ UNCHANGED <<contact, checker, cache, misses, controls, bad, trusted, races>>

\* resolve_phone_with_fallback, and the row saved at once; an invalid number leaves none.
FromTelegram(w, c) ==
    /\ Begun(w) /\ c \in Unresolved(w)
    /\ ~checker[checking[w].k].dead
    /\ \A r \in {"live", "dead"} : ~Served(c, r)
    /\ \E r \in {"live", "dead", "bad"} :
          /\ Answer(w, c, r)
          /\ IF r = "bad" THEN UNCHANGED <<cache, trusted>>
             ELSE /\ cache' = [cache EXCEPT ![checking[w].k][c] = r]
                  /\ trusted' = trusted \ {<<checking[w].k, c>>}
    /\ UNCHANGED <<contact, checker, misses, controls, bad, doubted, races>>

\* A FloodWait ends the batch with what it has.
Flood(w) ==
    /\ Begun(w) /\ Unresolved(w) # {} /\ CheckFault(1)
    /\ checking' = [checking EXCEPT ![w].flood = TRUE]
    /\ UNCHANGED <<contact, checker, cache, misses, controls, trusted, doubted, races>>

\* The negative rows the batch has written.
Written(w) == {<<checking[w].k, c>> : c \in {d \in checking[w].batch :
                  checking[w].res[d] = "dead" /\ cache[checking[w].k][d] = "dead"}}

\* Any other exception throws the results away and rests the checker; a session found
\* dead is marked.
Raise(w) ==
    /\ Begun(w)
    /\ \/ CheckFault(1) /\ checker' \in {[checker EXCEPT ![checking[w].k] = [@ EXCEPT !.resting = TRUE,
                                                              !.dead = d]] : d \in BOOLEAN}
       \/ checker[checking[w].k].dead /\ UNCHANGED bad
          /\ checker' = [checker EXCEPT ![checking[w].k].resting = TRUE]
    /\ trusted' = trusted \cup Written(w)
    /\ checking' = [checking EXCEPT ![w] = NoRound]
    /\ UNCHANGED <<contact, cache, misses, controls, doubted, races>>

Live(w) == {c \in checking[w].batch : checking[w].res[c] \in {"live", "dead", "bad"}}

\* _is_throttle_signal.
SignsOfThrottle(w) ==
    \/ checking[w].flood
    \/ Cardinality(Live(w)) >= MinBatch /\ \A c \in Live(w) : checking[w].res[c] # "live"

\* Slip: the verdict of the probe stands, whatever the batch showed.
ProbeVerdict(w) == checking[w].suspect

Suspect(w) == SignsOfThrottle(w) \/ checking[w].suspect

\* _maybe_degrade_on_signal: benched, or only rested when nothing could bring the
\* checker back; not a second time in one tick.
Judge(w) ==
    LET k == checking[w].k
        again == k \in checking[w].degraded
    IN  /\ checking[w].pc = "check" /\ (Unresolved(w) = {} \/ checking[w].flood)
        /\ checking' = [checking EXCEPT ![w] = [@ EXCEPT !.pc = "apply", !.suspect = Suspect(w),
                          !.degraded = checking[w].degraded \cup (IF SignsOfThrottle(w) THEN {k} ELSE {})]]
        /\ CASE ~SignsOfThrottle(w) -> trusted' = trusted \cup Written(w) /\ UNCHANGED <<checker, cache>>
             [] SignsOfThrottle(w) /\ again -> UNCHANGED <<checker, cache, trusted>>
             [] SignsOfThrottle(w) /\ ~again /\ controls -> Flag(k)
             [] SignsOfThrottle(w) /\ ~again /\ ~controls ->
                    checker' = [checker EXCEPT ![k].resting = TRUE] /\ Purge(k)
        /\ UNCHANGED <<contact, misses, controls, bad, doubted, races>>

\* _apply_results for one contact: only a negative answer waits for a clean checker.
Verdict(w, c) ==
    LET r == checking[w].res[c]
        old == contact[c]
    IN  CASE r = "none" -> old
          [] r = "bad" -> [old EXCEPT !.st = "error", !.claimed = TRUE]
          [] r \in {"live", "cached live"} ->
                [st |-> "registered", certain |-> ~checking[w].suspect, claimed |-> TRUE]
          [] r \in {"dead", "cached dead"} /\ checking[w].suspect ->
                [st |-> "pending", certain |-> FALSE, claimed |-> FALSE]
          [] r \in {"dead", "cached dead"} /\ ~checking[w].suspect ->
                [st |-> "not_registered", certain |-> TRUE, claimed |-> TRUE]

\* Written by id: nobody asks whether the contact is still pending or still claimed.
Apply(w) ==
    LET told == {c \in checking[w].batch : checking[w].res[c] # "none"}
        unsure == {c \in told : checking[w].res[c] = "dead" /\ SignsOfThrottle(w)}
    IN  /\ checking[w].pc = "apply"
        /\ contact' = [c \in Phones |-> IF c \in told THEN Verdict(w, c) ELSE contact[c]]
        /\ doubted' = (doubted \ {c \in told : checking[w].res[c] # "cached dead"}) \cup unsure
        /\ checking' = [checking EXCEPT ![w] = [NoRound EXCEPT !.pc = "rest", !.k = checking[w].k,
                                                        !.degraded = checking[w].degraded]]
        /\ UNCHANGED <<checker, cache, misses, controls, bad, trusted, races>>

\* _rest_checker after a batch that did not raise.
Rest(w) ==
    /\ checking[w].pc = "rest"
    /\ checker' = [checker EXCEPT ![checking[w].k].resting = TRUE]
    /\ checking' = [checking EXCEPT ![w] = NoRound]
    /\ UNCHANGED <<contact, cache, misses, controls, bad, trusted, doubted, races>>

-----------------------------------------------------------------------------
(* Time, managers, the process.                                             *)

\* The shortest cooldown, a quarter of an hour, outlasts any round.
Cool(k) ==
    /\ checker[k].cooling
    /\ \A w \in Workers : k \notin checking[w].degraded
    /\ checker' = [checker EXCEPT ![k].cooling = FALSE]
    /\ UNCHANGED <<contact, cache, checking, misses, controls, bad, trusted, doubted, races>>

RestOver(k) ==
    /\ checker[k].resting
    /\ checker' = [checker EXCEPT ![k].resting = FALSE]
    /\ UNCHANGED <<contact, cache, checking, misses, controls, bad, trusted, doubted, races>>

\* The contacts whose verdict an instance still has to write.
Holds(w) == IF checking[w].pc \in {"check", "apply"} THEN checking[w].batch ELSE {}

\* Five minutes pass over tg_checked_at, as a fault during the very check.
ClaimAges(c) ==
    LET held == \E w \in Workers : c \in Holds(w)
    IN  /\ contact[c].claimed
        /\ IF held THEN CheckFault(1) ELSE UNCHANGED bad
        /\ contact' = [contact EXCEPT ![c].claimed = FALSE]
        /\ races' = IF held THEN races \cup {"expired"} ELSE races
        /\ UNCHANGED <<checker, cache, checking, misses, controls, trusted, doubted>>

\* recheck_contacts, by id or by folder: the old verdict and the claim stay.
Recheck(C) ==
    /\ CheckFault(1)
    /\ contact' = [c \in Phones |-> IF c \in C THEN [contact[c] EXCEPT !.st = "pending"]
                                       ELSE contact[c]]
    /\ UNCHANGED <<checker, cache, checking, misses, controls, trusted, doubted, races>>

\* pause_sender, resume_sender on a checker.
SetPaused(k) ==
    /\ CheckFault(1)
    /\ checker' = [checker EXCEPT ![k].paused = ~@]
    /\ UNCHANGED <<contact, cache, checking, misses, controls, trusted, doubted, races>>

\* The process ends; the memory of the instance is gone, what it committed stays.
Crash(w) ==
    /\ checking[w].pc # "idle" /\ CheckFault(1)
    /\ checking' = [checking EXCEPT ![w] = NoRound]
    /\ misses' = [misses EXCEPT ![w] = [k \in Checkers |-> 0]]
    /\ trusted' = IF checking[w].pc = "check" THEN trusted \cup Written(w) ELSE trusted
    /\ UNCHANGED <<contact, checker, cache, controls, doubted, races>>

Round(w) ==
    \/ StartRound(w) \/ StartProbes(w) \/ ClaimBatch(w) \/ NothingToClaim(w)
    \/ \E k \in Checkers : Recover(w, k) \/ Probe(w, k)
    \/ \E c \in Phones : FromCache(w, c) \/ FromTelegram(w, c)
    \/ Flood(w) \/ Raise(w) \/ Judge(w) \/ Apply(w) \/ Rest(w)

CheckNext ==
    \/ \E w \in Workers : Round(w) \/ Crash(w)
    \/ \E k \in Checkers : Cool(k) \/ RestOver(k) \/ SetPaused(k)
    \/ \E c \in Phones : ClaimAges(c)
    \/ \E C \in SUBSET Phones \ {{}} : Recheck(C)

CheckSpec == InitCheck /\ [][CheckNext]_checkVars

-----------------------------------------------------------------------------
CheckTypeOK ==
    /\ contact \in [Phones -> [st : {"pending", "registered", "not_registered", "error"},
                                 certain : BOOLEAN, claimed : BOOLEAN]]
    /\ checker \in [Checkers -> [limited : BOOLEAN, cooling : BOOLEAN, paused : BOOLEAN,
                                 resting : BOOLEAN, dead : BOOLEAN]]
    /\ cache \in [Checkers -> [Phones -> {"none", "live", "dead"}]]
    /\ checking \in [Workers -> [pc : {"idle", "recover", "probe", "check", "apply", "rest"},
                               k : Checkers \cup {NoChecker}, todo : SUBSET Checkers,
                               degraded : SUBSET Checkers, suspect : BOOLEAN, flood : BOOLEAN,
                               batch : SUBSET Phones, res : [Phones -> Answers]]]
    /\ misses \in [Workers -> [Checkers -> 0..2]]
    /\ controls \in BOOLEAN /\ races \subseteq {"expired", "recovered"}
    /\ bad \in 0..MaxBad
    /\ trusted \subseteq Checkers \X Phones /\ doubted \subseteq Phones

\* Two instances never look at one contact at once, unless a claim ran out under way.
\* (the claim window of _tick, contact_check_worker.py:235)
OneCheckPerContact ==
    \A v, w \in Workers : v # w /\ Holds(v) \cap Holds(w) # {} => "expired" \in races

\* No contact is written off on a batch that showed the throttle signal, nor on a cached
\* answer of one, unless two instances raced.
NoThrottledVerdict == \A c \in doubted : contact[c].st = "not_registered" => races # {}

\* The negative rows of a batch that showed the signal do not outlive its judgement, unless
\* the checker, benched by this instance, was recovered by the other one.
PoisonIsPurged ==
    \A k \in Checkers, c \in Phones :
        cache[k][c] = "dead" =>
            \/ <<k, c>> \in trusted \/ "recovered" \in races
            \/ \E w \in Workers : checking[w].pc = "check" /\ <<k, c>> \in Written(w)
=============================================================================
