--------------------------- MODULE AccountSession ---------------------------
(***************************************************************************)
(* One account and its connections to Telegram: the client the listener    *)
(* keeps up, reconnects and reconciles with the database, and the short    *)
(* ones of a send, a manager's request or a warmup message.  Telegram      *)
(* kills a key it sees on two addresses, so a switch of the proxy is       *)
(* flagged until the listener has followed (services/listener.py,          *)
(* services/telegram.py, services/queue.py, routers/senders.py).           *)
(***************************************************************************)
EXTENDS Naturals, FiniteSets

CONSTANTS
    Addrs,          \* proxies the account may be given
    NoAddr,         \* senders.proxy NULL; a connection without it is a direct one
    Loops,          \* bound: runs of start_client for the account
    NoLoop,
    MaxSwitches,    \* bound: requests of a manager
    MaxDrops        \* bound: lost connections, failed calls, dead keys

ASSUME SessionNulls == NoAddr \notin Addrs /\ NoLoop \notin Loops
ASSUME SessionCounts == MaxSwitches \in Nat /\ MaxDrops \in Nat

VARIABLES
    proxy,          \* senders.proxy
    pending,        \* proxy_switch_pending_at: unset, younger than its TTL, or older
    active, authOk, \* lifecycle_status = active, auth_status = ok
    loop,           \* start_client: where it is and the proxy it read
    client,         \* self.clients[slug]: the loop that registered it
    connected,      \* _connected_sender_ids
    snapshot,       \* _proxy_snapshot
    recon,          \* what a reconcile tick has read
    call,           \* one temporary client
    switches, drops,
    waived          \* history: what leaves the promise of the flag void

sessionVars == <<proxy, pending, active, authOk, loop, client, connected, snapshot, recon, call,
                 switches, drops, waived>>

NotRun == [pc |-> "none", addr |-> NoAddr]
Asleep == [pc |-> "sleep", addr |-> NoAddr]
NoTick == [on |-> FALSE, desired |-> FALSE, addr |-> NoAddr]
NoCall == [pc |-> "none", addr |-> NoAddr]

InitSession ==
    /\ proxy \in Addrs /\ pending = "unset" /\ active = TRUE /\ authOk = TRUE
    /\ loop = [l \in Loops |-> NotRun]
    /\ client = NoLoop /\ connected = FALSE /\ snapshot = NoAddr
    /\ recon = NoTick /\ call = NoCall
    /\ switches = 0 /\ drops = 0 /\ waived = {}

\* Loops whose client holds a connection.
Up == {l \in Loops : loop[l].pc \in {"joined", "up"}}
Started == {l \in Loops : loop[l].pc # "none"}

Switch == switches < MaxSwitches /\ switches' = switches + 1
LinkFault == drops < MaxDrops /\ drops' = drops + 1
Waive(why, when) == waived' = IF when THEN waived \cup {why} ELSE waived

listenerVars == <<loop, client, connected, snapshot, recon>>

-----------------------------------------------------------------------------
(* The manager and the sweeps.                                              *)

\* The flag is raised in the transaction of the new proxy; a send past its gate does not
\* see it any more.
AssignNewProxy(a) ==
    /\ Switch /\ proxy' = a /\ pending' = "fresh"
    /\ Waive("meanwhile", call.pc = "gated")
    /\ UNCHANGED <<active, authOk, listenerVars, call, drops>>

\* update_sender writes the proxy of its request and raises no flag.
PatchProxy(a) ==
    /\ Switch /\ proxy' = a
    /\ Waive("patched", TRUE)
    /\ UNCHANGED <<pending, active, authOk, listenerVars, call, drops>>

SetActive(b) ==
    /\ Switch /\ active # b /\ active' = b
    /\ UNCHANGED <<proxy, pending, authOk, listenerVars, call, drops, waived>>

\* A dead key is logged in again; meanwhile the sweep may have taken its proxy.
ReclaimProxy ==
    /\ ~authOk /\ proxy # NoAddr /\ proxy' = NoAddr
    /\ Waive("meanwhile", call.pc = "gated")
    /\ UNCHANGED <<pending, active, authOk, listenerVars, call, switches, drops>>

ReauthDone ==
    /\ Switch /\ ~authOk /\ authOk' = TRUE
    /\ UNCHANGED <<proxy, pending, active, listenerVars, call, drops, waived>>

\* The TTL runs out before the listener has followed: the gates take the flag for none.
FlagAges ==
    /\ pending = "fresh" /\ pending' = "stale"
    /\ Waive("ttl", TRUE)
    /\ UNCHANGED <<proxy, active, authOk, listenerVars, call, switches, drops>>

-----------------------------------------------------------------------------
(* _reconcile_tick.                                                         *)

\* The sweep of stale flags and the SELECT of get_active_senders.
ReconcileReads ==
    /\ ~recon.on
    /\ pending' = IF pending = "stale" THEN "unset" ELSE pending
    /\ recon' = [on |-> TRUE, desired |-> active /\ authOk, addr |-> proxy]
    /\ UNCHANGED <<proxy, active, authOk, loop, client, connected, snapshot, call, switches,
                   drops, waived>>

\* _disconnect_sender closes the client that registered last and forgets it; its loop
\* sleeps and connects again.
Disconnect ==
    /\ loop' = [l \in Loops |-> IF l = client /\ l \in Up THEN Asleep
                                ELSE loop[l]]
    /\ client' = NoLoop /\ connected' = FALSE /\ snapshot' = NoAddr

\* A loop that has not connected yet is not in the books, so another one is started.
Spawn ==
    /\ \E l \in Loops \ Started : loop' = [loop EXCEPT ![l] = [pc |-> "start", addr |-> NoAddr]]
    /\ Waive("double", Started # {})
    /\ UNCHANGED <<client, connected, snapshot>>

ReconcileActs ==
    /\ recon.on /\ recon' = NoTick
    /\ IF recon.desired /\ ~connected
       THEN \/ Spawn
            \/ Started = Loops /\ UNCHANGED <<loop, client, connected, snapshot, waived>>
       ELSE /\ IF connected /\ (~recon.desired \/ recon.addr # snapshot)
               THEN Disconnect ELSE UNCHANGED <<loop, client, connected, snapshot>>
            /\ UNCHANGED waived
    /\ UNCHANGED <<proxy, pending, active, authOk, call, switches, drops>>

-----------------------------------------------------------------------------
(* start_client.                                                            *)

Forget == client' = NoLoop /\ connected' = FALSE /\ snapshot' = NoAddr

\* Every attempt reads the proxy anew; without one, or without an answer, the loop gives
\* way to the next tick.
ReadProxy(l) ==
    /\ loop[l].pc = "start"
    /\ \/ /\ proxy # NoAddr
          /\ loop' = [loop EXCEPT ![l] = [pc |-> "connect", addr |-> proxy]]
          /\ UNCHANGED <<client, connected, snapshot, drops>>
       \/ /\ IF proxy = NoAddr THEN UNCHANGED drops ELSE LinkFault
          /\ loop' = [loop EXCEPT ![l] = NotRun] /\ Forget
    /\ UNCHANGED <<proxy, pending, active, authOk, recon, call, switches, waived>>

LoopConnects(l) ==
    /\ loop[l].pc = "connect"
    /\ loop' = [loop EXCEPT ![l].pc = "joined"]
    /\ client' = l /\ connected' = TRUE /\ snapshot' = loop[l].addr
    /\ UNCHANGED <<proxy, pending, active, authOk, recon, call, switches, drops, waived>>

\* Slip: a live connection lifts the flag, on whatever proxy it is.
Alive(l) == TRUE

\* The UPDATE compares the proxy the client is on with the one of the row.
Followed(l) == loop[l].addr = proxy

ConfirmSwitch(l) ==
    /\ loop[l].pc = "joined"
    /\ loop' = [loop EXCEPT ![l].pc = "up"]
    /\ pending' = IF Followed(l) THEN "unset" ELSE pending
    /\ UNCHANGED <<proxy, active, authOk, client, connected, snapshot, recon, call, switches,
                   drops, waived>>

\* Any other error, or a lost connection: the loop sleeps; the books stay as they are.
ConnectionLost(l) ==
    /\ loop[l].pc \in {"connect", "joined", "up"} /\ LinkFault
    /\ loop' = [loop EXCEPT ![l] = Asleep]
    /\ UNCHANGED <<proxy, pending, active, authOk, client, connected, snapshot, recon, call,
                   switches, waived>>

Retry(l) ==
    /\ loop[l].pc = "sleep"
    /\ loop' = [loop EXCEPT ![l].pc = "start"]
    /\ UNCHANGED <<proxy, pending, active, authOk, client, connected, snapshot, recon, call,
                   switches, drops, waived>>

\* Telegram refuses the key: the loop ends, and clears the books if it was told so by an
\* exception.
KeyDead(l) ==
    /\ loop[l].pc \in {"connect", "joined", "up"} /\ LinkFault
    /\ authOk' = FALSE
    /\ loop' = [loop EXCEPT ![l] = NotRun]
    /\ \/ Forget
       \/ loop[l].pc = "connect" /\ UNCHANGED <<client, connected, snapshot>>
    /\ UNCHANGED <<proxy, pending, active, recon, call, switches, waived>>

-----------------------------------------------------------------------------
(* Temporary clients of get_client.                                         *)

\* _check_rate_limits, run before the pick; the proxy is loaded with the row that is sent.
SendGate ==
    /\ call = NoCall /\ active /\ authOk /\ pending # "fresh" /\ proxy # NoAddr
    /\ call' = [call EXCEPT !.pc = "gated"]
    /\ UNCHANGED <<proxy, pending, active, authOk, listenerVars, switches, drops, waived>>

SendConnects ==
    /\ call.pc = "gated"
    /\ call' = [pc |-> "send", addr |-> proxy]
    /\ UNCHANGED <<proxy, pending, active, authOk, listenerVars, switches, drops, waived>>

\* Profile, 2FA, SpamBot and inbox requests ask for nothing and use the proxy of the row.
RequestConnects ==
    /\ call = NoCall /\ Switch
    /\ call' = [pc |-> "request", addr |-> proxy]
    /\ UNCHANGED <<proxy, pending, active, authOk, listenerVars, drops, waived>>

\* _send_via_telethon passes no proxy to get_client.
WarmupConnects ==
    /\ call = NoCall /\ active /\ authOk
    /\ call' = [pc |-> "warmup", addr |-> NoAddr]
    /\ UNCHANGED <<proxy, pending, active, authOk, listenerVars, switches, drops, waived>>

CallEnds ==
    /\ call.pc \in {"send", "request", "warmup"} /\ call' = NoCall
    /\ UNCHANGED <<proxy, pending, active, authOk, listenerVars, switches, drops, waived>>

\* get_client is refused and flags the account, whoever logged it in again meanwhile.
CallFindsKeyDead ==
    /\ call.pc \in {"send", "request", "warmup"} /\ LinkFault
    /\ authOk' = FALSE /\ call' = NoCall
    /\ UNCHANGED <<proxy, pending, active, listenerVars, switches, waived>>

-----------------------------------------------------------------------------
SessionNext ==
    \/ \E a \in Addrs : AssignNewProxy(a) \/ PatchProxy(a)
    \/ \E b \in BOOLEAN : SetActive(b)
    \/ ReclaimProxy \/ ReauthDone \/ FlagAges \/ ReconcileReads \/ ReconcileActs
    \/ \E l \in Loops : ReadProxy(l) \/ LoopConnects(l) \/ ConfirmSwitch(l) \/ ConnectionLost(l) \/ Retry(l)
                            \/ KeyDead(l)
    \/ SendGate \/ SendConnects \/ RequestConnects \/ WarmupConnects \/ CallEnds \/ CallFindsKeyDead

SessionSpec == InitSession /\ [][SessionNext]_sessionVars

-----------------------------------------------------------------------------
SessionTypeOK ==
    LET Address == Addrs \cup {NoAddr} IN
    /\ proxy \in Address /\ snapshot \in Address
    /\ pending \in {"unset", "fresh", "stale"} /\ active \in BOOLEAN /\ authOk \in BOOLEAN
    /\ loop \in [Loops -> [pc: {"none", "start", "connect", "joined", "up", "sleep"}, addr: Address]]
    /\ client \in Loops \cup {NoLoop} /\ connected \in BOOLEAN
    /\ recon \in [on: BOOLEAN, desired: BOOLEAN, addr: Address]
    /\ call \in [pc: {"none", "gated", "send", "request", "warmup"}, addr: Address]
    /\ switches \in 0..MaxSwitches /\ drops \in 0..MaxDrops
    /\ waived \subseteq {"meanwhile", "patched", "ttl", "double"}

\* The queue does not open an address beside another one the listener is on: the flag
\* holds it until the listener has followed; unless it aged, was not raised, came
\* after the gate, or more than one loop was started.  (migration 062)
SendsFromOneAddress ==
    [][SendConnects => waived # {} \/ \A l \in Up : loop[l].addr = proxy]_sessionVars
=============================================================================
