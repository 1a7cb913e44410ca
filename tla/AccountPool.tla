---------------------------- MODULE AccountPool ----------------------------
(***************************************************************************)
(* The accounts and the proxy ports of one workspace, which bulk import,   *)
(* the login wizard, the manager's requests and the reclaim sweep write    *)
(* (models ProxyPool and Sender, routers/senders.py,                       *)
(* services/proxy_reclaim.py).                                             *)
(*                                                                         *)
(* A row of senders is named by its slug.  The slug of an imported or      *)
(* logged-in account is derived from its telegram id, so such a row is     *)
(* named by the account; rows of Extra have another slug.                  *)
(***************************************************************************)
EXTENDS Naturals, FiniteSets

CONSTANTS
    Accounts,   \* Telegram accounts
    Extra,      \* rows whose slug is not an account's
    Ports,      \* rows of proxy_pool, UNIQUE (host, port)
    Own,        \* an address outside the pool
    None,       \* NULL
    Files,      \* basenames of vendor files, which become the phone of a row
    Holder,     \* the account whose session a vendor file holds
    MaxOps,     \* bound: requests of managers
    MaxFaults   \* bound: crashes, failed writes, dead sessions

ASSUME PoolCounts == MaxOps \in Nat /\ MaxFaults \in Nat
ASSUME PoolNames == {None, Own} \cap (Accounts \cup Extra \cup Ports \cup Files) = {} /\ None # Own
ASSUME PoolHolder == Holder \in [Files -> Accounts]

SenderRows == Accounts \cup Extra

VARIABLES
    sender,     \* senders: key is the account whose session is stored, tg is telegram_id
    port,       \* proxy_pool: the row exists, who has it, quarantined
    post,       \* the POST /senders in progress: its row, and the port it read as free
    ops, faults,
    overlap,    \* history: ports given to an account by a step that did not look at the pool
                \* row, or had looked earlier
    learned     \* history: accounts whose telegram id a re-auth wrote into an old row, unless
                \* an import has looked for it since

poolVars == <<sender, port, post, ops, faults, overlap, learned>>

Absent == [on |-> FALSE, key |-> None, tg |-> None, phone |-> None, auth |-> "ok", proxy |-> None]
NoPost == [pc |-> "idle", row |-> None, port |-> None]

\* A pool, and perhaps an account that took a port from it; a row with another slug may
\* lack the telegram id.
InitPool ==
    /\ \E r \in SenderRows \cup {None}, k \in Accounts, tg \in Accounts \cup {None}, p \in Ports :
          /\ tg # k => tg = None /\ r \in Extra
          /\ r \in Accounts => r = k
          /\ sender = [s \in SenderRows |-> IF s = r THEN [Absent EXCEPT !.on = TRUE, !.key = k, !.tg = tg,
                                                                !.proxy = p] ELSE Absent]
          /\ port = [o \in Ports |-> [on |-> TRUE, at |-> IF o = p THEN r ELSE None, rests |-> FALSE]]
    /\ post = NoPost /\ ops = 0 /\ faults = 0
    /\ overlap = {} /\ learned = {}

\* A request of a manager, and a fault, out of a bounded supply.
Asks == ops < MaxOps /\ ops' = ops + 1
Fault == faults < MaxFaults /\ faults' = faults + 1

On == {r \in SenderRows : sender[r].on}
Users(p) == {r \in On : sender[r].proxy = p}

\* The WHERE of create_sender and of resolve_import_proxy.
Free(p) == port[p].on /\ port[p].at = None /\ ~port[p].rests

\* LIMIT 1, without a lock: any free row, or none.
FreeOrNone == IF \E p \in Ports : Free(p) THEN {p \in Ports : Free(p)} ELSE {None}

\* The pool row p is marked for row r; a row deleted meanwhile is not.
Marked(p, r) == [q \in Ports |-> IF q = p /\ port[q].on THEN [port[q] EXCEPT !.at = r] ELSE port[q]]

\* Row r comes to use p while the pool row is not free and not its own.
Clash(p, r) == IF p \in Ports /\ ~(Free(p) \/ port[p].at = r) THEN overlap \cup {p} ELSE overlap

-----------------------------------------------------------------------------
(* routers/senders.py.                                                      *)

\* create_sender commits the row, then looks for a port, then commits again.
PostSender(x, k) ==
    /\ Asks /\ post.pc = "idle" /\ ~sender[x].on
    /\ \E own \in BOOLEAN :
          /\ sender' = [sender EXCEPT ![x] = [Absent EXCEPT !.on = TRUE, !.key = k,
                                                            !.proxy = IF own THEN Own ELSE None]]
          /\ post' = IF own THEN post ELSE [NoPost EXCEPT !.pc = "created", !.row = x]
    /\ UNCHANGED <<port, faults, overlap, learned>>

PostReadsPool ==
    /\ post.pc = "created"
    /\ \E p \in FreeOrNone : post' = IF p = None THEN NoPost ELSE [post EXCEPT !.pc = "read", !.port = p]
    /\ UNCHANGED <<sender, port, ops, faults, overlap, learned>>

\* A row deleted meanwhile makes the second commit fail.
PostTakesPort ==
    LET p == post.port
        x == post.row
    IN  /\ post.pc = "read"
        /\ post' = NoPost
        /\ IF sender[x].on /\ port[p].on
           THEN /\ sender' = [sender EXCEPT ![x].proxy = p]
                /\ port' = Marked(p, x)
                /\ overlap' = Clash(p, x)
           ELSE UNCHANGED <<sender, port, overlap>>
        /\ UNCHANGED <<ops, faults, learned>>

\* assign_proxy: any row of the pool, taken or not; the port the account had stays
\* marked as its own.
AssignProxy(r, p) ==
    /\ Asks /\ sender[r].on /\ port[p].on
    /\ sender' = [sender EXCEPT ![r].proxy = p]
    /\ port' = Marked(p, r)
    /\ overlap' = IF Users(p) \ {r} # {} \/ post.port = p THEN overlap \cup {p} ELSE overlap
    /\ UNCHANGED <<post, faults, learned>>

\* update_sender with a proxy or a session.
PatchSender(r, k) ==
    /\ Asks /\ sender[r].on
    /\ \/ sender' = [sender EXCEPT ![r].proxy = Own]
       \/ sender' = [sender EXCEPT ![r].key = k]
    /\ UNCHANGED <<port, post, faults, overlap, learned>>

\* delete_sender, with no running campaign; ON DELETE SET NULL frees the ports.
DeleteSender(r) ==
    /\ Asks /\ sender[r].on
    /\ sender' = [sender EXCEPT ![r] = Absent]
    /\ port' = [p \in Ports |-> IF port[p].at = r THEN [port[p] EXCEPT !.at = None] ELSE port[p]]
    /\ UNCHANGED <<post, faults, overlap, learned>>

\* delete_proxy leaves the address with the accounts that use it.
DeleteProxy(p) ==
    /\ Asks /\ port[p].on
    /\ port' = [port EXCEPT ![p] = [on |-> FALSE, at |-> None, rests |-> FALSE]]
    /\ UNCHANGED <<sender, post, faults, overlap, learned>>

CreateProxy(p) ==
    /\ Asks /\ ~port[p].on
    /\ port' = [port EXCEPT ![p].on = TRUE]
    /\ overlap' = overlap \cup {p}
    /\ UNCHANGED <<sender, post, faults, learned>>

-----------------------------------------------------------------------------
(* Death of a session, and the sweep.                                       *)

Dies(r) ==
    /\ Fault /\ sender[r].on /\ sender[r].auth = "ok"
    /\ sender' = [sender EXCEPT ![r].auth = "dead"]
    /\ UNCHANGED <<port, post, ops, overlap, learned>>

Dead == {r \in On : sender[r].auth = "dead"}

\* Slip: the port goes back, its address stays with the dead account.
KeepAddress == sender

\* The second UPDATE of _RECLAIM_SQL.
Unproxied == [r \in SenderRows |-> IF r \in Dead /\ \E p \in Ports : port[p].at = r
                             THEN [sender[r] EXCEPT !.proxy = None] ELSE sender[r]]

\* _RECLAIM_SQL: the ports of dead accounts are free, after a quarantine.
Reclaim ==
    /\ \E p \in Ports : port[p].at \in Dead
    /\ port' = [p \in Ports |-> IF port[p].at \in Dead
                                THEN [port[p] EXCEPT !.at = None, !.rests = TRUE] ELSE port[p]]
    /\ sender' = Unproxied
    /\ UNCHANGED <<post, ops, faults, overlap, learned>>

QuarantineEnds(p) ==
    /\ port[p].rests
    /\ port' = [port EXCEPT ![p].rests = FALSE]
    /\ UNCHANGED <<sender, post, ops, faults, overlap, learned>>

PoolNext ==
    \/ \E x \in Extra, k \in Accounts : PostSender(x, k)
    \/ PostReadsPool \/ PostTakesPort \/ Reclaim
    \/ \E r \in SenderRows : DeleteSender(r) \/ Dies(r)
    \/ \E r \in SenderRows, k \in Accounts : PatchSender(r, k)
    \/ \E r \in SenderRows, p \in Ports : AssignProxy(r, p)
    \/ \E p \in Ports : DeleteProxy(p) \/ CreateProxy(p) \/ QuarantineEnds(p)

-----------------------------------------------------------------------------
PoolTypeOK ==
    /\ sender \in [SenderRows -> [on : BOOLEAN, key : Accounts \cup {None}, tg : Accounts \cup {None},
                            phone : Files \cup {None}, auth : {"ok", "dead"},
                            proxy : Ports \cup {Own, None}]]
    /\ port \in [Ports -> [on : BOOLEAN, at : SenderRows \cup {None}, rests : BOOLEAN]]
    /\ post \in [pc : {"idle", "created", "read"}, row : Extra \cup {None}, port : Ports \cup {None}]
    /\ ops \in 0..MaxOps /\ faults \in 0..MaxFaults
    /\ overlap \subseteq Ports /\ learned \subseteq Accounts \cup {None}
=============================================================================
