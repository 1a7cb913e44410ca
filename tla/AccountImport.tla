---------------------------- MODULE AccountImport ----------------------------
(***************************************************************************)
(* Bulk import: a staged archive becomes a job with an item per file pair, *)
(* and a worker imports one item at a time (routers/account_import.py,     *)
(* services/account_import_worker.py, services/account_import.py).         *)
(* Left out: proxies and fingerprints of the vendor files, 2FA passwords.  *)
(***************************************************************************)
EXTENDS AccountPool

CONSTANTS
    NumJobs,    \* bound: account_import_jobs, numbered as they are confirmed
    Importers   \* instances of the worker

Jobs == 1..NumJobs
ASSUME ImportJobs == NumJobs \in Nat /\ None \notin Jobs
ASSUME ImportFiles == IsFiniteSet(Files)

VARIABLES
    staged,     \* the preview: its pairs, and whether it expired
    job,        \* account_import_jobs
    item,       \* account_import_items
    imp         \* what an instance holds between two awaits

importVars == <<staged, job, item, imp>>

\* The seven failures of the code end an item alike.
Good == {"imported", "already_connected"}
Terminal == {"ok", "failed"}
IdleImport == [pc |-> "idle", j |-> None, f |-> None, port |-> None, result |-> None]

InitImport ==
    /\ staged = [pairs |-> {}, st |-> "none"]
    /\ job = [j \in Jobs |-> [st |-> "none", total |-> 0, processed |-> 0]]
    /\ item = [j \in Jobs |-> [f \in Files |-> "none"]]
    /\ imp = [w \in Importers |-> IdleImport]

-----------------------------------------------------------------------------
(* The two steps of the endpoint.                                           *)

\* import_preview: what unpack_and_pair matches, perhaps nothing; an archive it
\* refuses is not staged.
Preview(F) ==
    /\ staged.st = "none"
    /\ staged' = [pairs |-> F, st |-> "staged"]
    /\ UNCHANGED <<poolVars, job, item, imp>>

StagingExpires ==
    /\ staged.st = "staged" /\ staged' = [pairs |-> {}, st |-> "expired"]
    /\ UNCHANGED <<poolVars, job, item, imp>>

\* import_confirm: as often as it is asked, each time a job of its own.
Confirm(j) ==
    /\ Asks /\ staged.st = "staged" /\ job[j].st = "none" /\ \A i \in 1..j-1 : job[i].st # "none"
    /\ job' = [job EXCEPT ![j] = [st |-> "running", total |-> Cardinality(staged.pairs), processed |-> 0]]
    /\ item' = [item EXCEPT ![j] = [f \in Files |-> IF f \in staged.pairs THEN "pending" ELSE "none"]]
    /\ UNCHANGED <<sender, port, post, faults, overlap, learned, staged, imp>>

-----------------------------------------------------------------------------
(* The worker.                                                              *)

Step(w, pc) == imp' = [imp EXCEPT ![w].pc = pc]
Ends(w, result) == imp' = [imp EXCEPT ![w].pc = "record", ![w].result = result]

\* The oldest pending item; those of a job are equally old.
ClaimItem(w) ==
    /\ imp[w].pc = "idle"
    /\ \E j \in Jobs, f \in Files :
          /\ item[j][f] = "pending" /\ \A i \in 1..j-1, g \in Files : item[i][g] # "pending"
          /\ item' = [item EXCEPT ![j][f] = "processing"]
          /\ imp' = [imp EXCEPT ![w] = [IdleImport EXCEPT !.pc = "claimed", !.j = j, !.f = f]]
    /\ UNCHANGED <<poolVars, staged, job>>

\* Broken JSON ends it, then a phone that is known, before the session is looked at, then
\* a broken session.  Otherwise a free port is read and not yet marked.
LookUp(w) ==
    LET known == \E r \in On : sender[r].phone = imp[w].f
    IN
    /\ imp[w].pc = "claimed"
    /\ \/ Ends(w, "failed")
       \/ known /\ Ends(w, "already_connected")
       \/ ~known /\ \/ Ends(w, "failed")
                    \/ \E p \in FreeOrNone :
                          imp' = [imp EXCEPT ![w].pc = "connect", ![w].port = p]
    /\ UNCHANGED <<poolVars, staged, job, item>>

\* connect, get_me, each with ways to fail; every other session of the account is
\* terminated on the way, before anybody asks whether the account is one of ours.
Connect(w) ==
    /\ imp[w].pc = "connect"
    /\ Ends(w, "failed") \/ Step(w, "connected")
    /\ UNCHANGED <<poolVars, staged, job, item>>

\* Slip: the account is looked for under the name it would get.
HasSlug(a) == sender[a].on

HasRow(a) == \E r \in On : sender[r].tg = a

\* The second look, by telegram id.
LookAgain(w) ==
    LET a == Holder[imp[w].f]
    IN  /\ imp[w].pc = "connected"
        /\ IF HasRow(a) THEN Ends(w, "already_connected") /\ UNCHANGED learned
                       ELSE Step(w, "insert") /\ learned' = learned \ {a}
        /\ UNCHANGED <<sender, port, post, ops, faults, overlap, staged, job, item>>

\* The flush meets the unique slug; the port read before the connect is marked now.
Insert(w) ==
    LET a == Holder[imp[w].f]
        p == imp[w].port
    IN  /\ imp[w].pc = "insert"
        /\ IF sender[a].on
           THEN Ends(w, "already_connected") /\ UNCHANGED <<sender, port, overlap>>
           ELSE /\ sender' = [sender EXCEPT ![a] = [on |-> TRUE, key |-> a, tg |-> a, phone |-> imp[w].f,
                                                    auth |-> "ok", proxy |-> p]]
                /\ port' = Marked(p, a)
                /\ overlap' = Clash(p, a)
                /\ Ends(w, "imported")
        /\ UNCHANGED <<post, ops, faults, learned, staged, job, item>>

\* Anything else import_one_account runs into.
ImportFails(w) ==
    /\ imp[w].pc \in {"claimed", "connect", "connected", "insert"}
    /\ Fault /\ Ends(w, "failed")
    /\ UNCHANGED <<sender, port, post, ops, overlap, learned, staged, job, item>>

\* Slip: the counter is compared before it is bumped.
DoneBefore(j) == job[j].processed >= job[j].total

Done(j) == job[j].processed + 1 >= job[j].total

\* One transaction: the item, the counter, the end of the job.
Record(w) ==
    LET j == imp[w].j
    IN  /\ imp[w].pc = "record"
        /\ item' = [item EXCEPT ![j][imp[w].f] = IF imp[w].result \in Good THEN "ok" ELSE "failed"]
        /\ job' = [job EXCEPT ![j].processed = @ + 1, ![j].st = IF Done(j) THEN "done" ELSE @]
        /\ imp' = [imp EXCEPT ![w] = IdleImport]
        /\ UNCHANGED <<poolVars, staged>>

\* The transaction fails, or the process ends, and the item is claimed for good.
ImportDies(w) ==
    /\ imp[w].pc # "idle" /\ Fault
    /\ imp' = [imp EXCEPT ![w] = IdleImport]
    /\ UNCHANGED <<sender, port, post, ops, overlap, learned, staged, job, item>>

ImportNext ==
    \/ \E F \in SUBSET Files : Preview(F)
    \/ StagingExpires
    \/ \E j \in Jobs : Confirm(j)
    \/ \E w \in Importers :
          \/ ClaimItem(w) \/ LookUp(w) \/ Connect(w) \/ LookAgain(w) \/ Insert(w)
          \/ ImportFails(w) \/ Record(w) \/ ImportDies(w)

-----------------------------------------------------------------------------
ImportTypeOK ==
    /\ staged \in [pairs : SUBSET Files, st : {"none", "staged", "expired"}]
    /\ job \in [Jobs -> [st : {"none", "running", "done"}, total : 0..Cardinality(Files),
                         processed : 0..Cardinality(Files)]]
    /\ item \in [Jobs -> [Files -> {"none", "pending", "processing"} \cup Terminal]]
    /\ imp \in [Importers -> [pc : {"idle", "claimed", "connect", "connected", "insert", "record"},
                              j : Jobs \cup {None}, f : Files \cup {None}, port : Ports \cup {None},
                              result : Good \cup {"failed", None}]]
=============================================================================
