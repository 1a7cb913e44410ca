---------------------------- MODULE FleetProofs ----------------------------
(***************************************************************************)
(* Proofs about the two smaller components of the fleet, the sessions of   *)
(* an account and the ingest of documents, and about the fleet: whatever   *)
(* part moves, each part behaves as its own specification says, so that    *)
(* what is proved of the parts holds of the fleet.                         *)
(***************************************************************************)
EXTENDS MCFleet, AccountsProofs, ContactCheckProofs, WarmupProofs

-----------------------------------------------------------------------------
(* AccountSession, for any addresses, loops, switches and lost connections: *)
(* the queue connects where the listener is, unless the flag was not        *)
(* raised, aged, came too late, or a second loop was started.               *)

\* Loops whose client has an address, registered or not.
Addressed == {l \in Loops : loop[l].pc \in {"connect", "joined", "up"}}

\* One loop at a time, and without a flag the loop is where the row says.
Followers ==
    waived = {} =>
        /\ \A k, l \in Started : k = l
        /\ pending # "stale"
        /\ pending = "unset" => proxy = NoAddr \/ \A l \in Addressed : loop[l].addr = proxy

\* A send past the gate still finds what the gate saw.
GateStands ==
    waived = {} /\ call.pc = "gated" => pending = "unset" /\ proxy # NoAddr

SessionIInv == SessionTypeOK /\ Followers /\ GateStands

-----------------------------------------------------------------------------
LEMMA SessionInitIInv == InitSession => SessionIInv
<1>. SUFFICES ASSUME InitSession PROVE SessionIInv
    OBVIOUS
<1>1. SessionTypeOK
  <2>1. 0 \in 0..MaxSwitches /\ 0 \in 0..MaxDrops
      BY SessionCounts
  <2>2. loop \in [Loops -> [pc: {"none", "start", "connect", "joined", "up", "sleep"},
                            addr: Addrs \cup {NoAddr}]]
      BY DEF InitSession, NotRun
  <2>3. /\ recon \in [on: BOOLEAN, desired: BOOLEAN, addr: Addrs \cup {NoAddr}]
        /\ call \in [pc: {"none", "gated", "send", "request", "warmup"},
                     addr: Addrs \cup {NoAddr}]
      BY DEF InitSession, NoTick, NoCall
  <2>4. waived \subseteq {"meanwhile", "patched", "ttl", "double"}
      BY DEF InitSession
  <2>. QED BY <2>1, <2>2, <2>3, <2>4 DEF InitSession, SessionTypeOK
<1>2. Started = {} /\ Addressed = {}
    BY DEF InitSession, Started, Addressed, NotRun
<1>3. Followers /\ GateStands
    BY <1>2 DEF InitSession, Followers, GateStands, NoCall
<1>. QED BY <1>1, <1>3 DEF SessionIInv

\* The bounded counters.
LEMMA CountersType ==
    /\ Switch /\ switches \in 0..MaxSwitches => switches' \in 0..MaxSwitches
    /\ LinkFault /\ drops \in 0..MaxDrops => drops' \in 0..MaxDrops
BY SessionCounts DEF Switch, LinkFault

\* Waive keeps the type, and what was waived stays so.
LEMMA WaiveType ==
    ASSUME waived \subseteq {"meanwhile", "patched", "ttl", "double"},
           NEW why \in {"meanwhile", "patched", "ttl", "double"}, NEW when \in BOOLEAN,
           Waive(why, when)
    PROVE  /\ waived' \subseteq {"meanwhile", "patched", "ttl", "double"}
           /\ waived' = {} => waived = {} /\ ~when
BY DEF Waive

-----------------------------------------------------------------------------
(* The manager and the sweeps.                                              *)

LEMMA ManagerKeeps ==
    ASSUME SessionIInv,
           \/ \E a \in Addrs : AssignNewProxy(a) \/ PatchProxy(a)
           \/ \E b \in BOOLEAN : SetActive(b)
           \/ ReclaimProxy \/ ReauthDone \/ FlagAges
    PROVE  SessionIInv'
<1>1. SessionTypeOK
    BY DEF SessionIInv
<1>2. UNCHANGED <<loop, client, connected, snapshot, recon, call>>
    BY DEF AssignNewProxy, PatchProxy, SetActive, ReclaimProxy, ReauthDone, FlagAges, listenerVars
<1>3. Started' = Started /\ Addressed' = Addressed
    BY <1>2 DEF Started, Addressed
<1>4. ASSUME NEW a \in Addrs, AssignNewProxy(a) PROVE SessionIInv'
  <2>1. waived' \subseteq {"meanwhile", "patched", "ttl", "double"}
        /\ (waived' = {} => waived = {} /\ call.pc # "gated")
      BY <1>1, <1>4, WaiveType DEF AssignNewProxy, SessionTypeOK
  <2>2. SessionTypeOK'
      BY <1>1, <1>2, <1>4, <2>1, CountersType DEF AssignNewProxy, SessionTypeOK
  <2>3. Followers' /\ GateStands'
      BY <1>2, <1>3, <1>4, <2>1 DEF AssignNewProxy, SessionIInv, Followers, GateStands
  <2>. QED BY <2>2, <2>3 DEF SessionIInv
<1>5. ASSUME NEW a \in Addrs, PatchProxy(a) PROVE SessionIInv'
  <2>1. waived' \subseteq {"meanwhile", "patched", "ttl", "double"} /\ waived' # {}
      BY <1>1, <1>5, WaiveType DEF PatchProxy, SessionTypeOK
  <2>2. SessionTypeOK'
      BY <1>1, <1>2, <1>5, <2>1, CountersType DEF PatchProxy, SessionTypeOK
  <2>. QED BY <2>1, <2>2 DEF SessionIInv, Followers, GateStands
<1>6. ASSUME NEW b \in BOOLEAN, SetActive(b) PROVE SessionIInv'
  <2>1. SessionTypeOK'
      BY <1>1, <1>2, <1>6, CountersType DEF SetActive, SessionTypeOK
  <2>2. Followers' /\ GateStands'
      BY <1>2, <1>3, <1>6 DEF SetActive, SessionIInv, Followers, GateStands
  <2>. QED BY <2>1, <2>2 DEF SessionIInv
<1>7. CASE ReclaimProxy
  <2>1. waived' \subseteq {"meanwhile", "patched", "ttl", "double"}
        /\ (waived' = {} => waived = {} /\ call.pc # "gated")
      BY <1>1, <1>7, WaiveType DEF ReclaimProxy, SessionTypeOK
  <2>2. SessionTypeOK'
      BY <1>1, <1>2, <1>7, <2>1 DEF ReclaimProxy, SessionTypeOK
  <2>3. Followers' /\ GateStands'
      BY <1>2, <1>3, <1>7, <2>1 DEF ReclaimProxy, SessionIInv, Followers, GateStands
  <2>. QED BY <2>2, <2>3 DEF SessionIInv
<1>8. CASE ReauthDone
  <2>1. SessionTypeOK'
      BY <1>1, <1>2, <1>8, CountersType DEF ReauthDone, SessionTypeOK
  <2>2. Followers' /\ GateStands'
      BY <1>2, <1>3, <1>8 DEF ReauthDone, SessionIInv, Followers, GateStands
  <2>. QED BY <2>1, <2>2 DEF SessionIInv
<1>9. CASE FlagAges
  <2>1. waived' \subseteq {"meanwhile", "patched", "ttl", "double"} /\ waived' # {}
      BY <1>1, <1>9, WaiveType DEF FlagAges, SessionTypeOK
  <2>2. SessionTypeOK'
      BY <1>1, <1>2, <1>9, <2>1 DEF FlagAges, SessionTypeOK
  <2>. QED BY <2>1, <2>2 DEF SessionIInv, Followers, GateStands
<1>. QED BY <1>4, <1>5, <1>6, <1>7, <1>8, <1>9

-----------------------------------------------------------------------------
(* The reconcile tick.                                                      *)

LEMMA ReconcileReadsKeeps ==
    ASSUME SessionIInv, ReconcileReads
    PROVE  SessionIInv'
<1>1. /\ pending' = IF pending = "stale" THEN "unset" ELSE pending
      /\ UNCHANGED <<proxy, active, authOk, loop, client, connected, snapshot, call, switches,
                     drops, waived>>
      /\ recon' = [on |-> TRUE, desired |-> active /\ authOk, addr |-> proxy]
    BY DEF ReconcileReads
<1>2. (active /\ authOk) \in BOOLEAN
    OBVIOUS
<1>3. SessionTypeOK'
    BY <1>1, <1>2 DEF SessionIInv, SessionTypeOK
<1>4. Started' = Started /\ Addressed' = Addressed
    BY <1>1 DEF Started, Addressed
<1>5. Followers' /\ GateStands'
    BY <1>1, <1>4 DEF SessionIInv, Followers, GateStands
<1>. QED BY <1>3, <1>5 DEF SessionIInv

\* A loop whose step leaves it without an address, and adds no loop, harms nobody.
LEMMA LoopLeaves ==
    ASSUME SessionIInv, UNCHANGED <<proxy, pending, call, waived>>,
           \A l \in Loops : \/ loop'[l] = loop[l]
                            \/ loop[l].pc # "none" /\ loop'[l].pc \in {"none", "start", "sleep"}
    PROVE  Followers' /\ GateStands'
<1>1. /\ Started' \subseteq Started
      /\ Addressed' \subseteq Addressed /\ \A l \in Addressed' : loop'[l] = loop[l]
    BY DEF Started, Addressed
<1>. QED BY <1>1 DEF SessionIInv, Followers, GateStands

LEMMA ReconcileActsKeeps ==
    ASSUME SessionIInv, ReconcileActs
    PROVE  SessionIInv'
<1>1. /\ recon' = NoTick
      /\ UNCHANGED <<proxy, pending, active, authOk, call, switches, drops>>
      /\ \/ Spawn
         \/ Disconnect /\ UNCHANGED waived
         \/ UNCHANGED <<loop, client, connected, snapshot, waived>>
    BY DEF ReconcileActs
<1>2. CASE Spawn
  <2>1. PICK l \in Loops \ Started : loop' = [loop EXCEPT ![l] = [pc |-> "start", addr |-> NoAddr]]
      BY <1>2 DEF Spawn
  <2>2. /\ UNCHANGED <<client, connected, snapshot>>
        /\ waived' \subseteq {"meanwhile", "patched", "ttl", "double"}
        /\ waived' = {} => waived = {} /\ Started = {}
      BY <1>2, WaiveType DEF Spawn, SessionIInv, SessionTypeOK
  <2>3. SessionTypeOK'
      BY <1>1, <2>1, <2>2 DEF SessionIInv, SessionTypeOK, NoTick
  <2>4. Started' = Started \cup {l} /\ Addressed' = Addressed /\ l \notin Addressed
        /\ \A k \in Loops \ {l} : loop'[k] = loop[k]
      BY <2>1 DEF SessionIInv, SessionTypeOK, Started, Addressed
  <2>5. Followers' /\ GateStands'
      BY <1>1, <2>2, <2>4 DEF SessionIInv, Followers, GateStands, Addressed
  <2>. QED BY <2>3, <2>5 DEF SessionIInv
<1>3. CASE Disconnect /\ UNCHANGED waived
  <2>1. /\ \A l \in Loops : loop'[l] = IF l = client /\ l \in Up THEN Asleep ELSE loop[l]
        /\ client' = NoLoop /\ connected' = FALSE /\ snapshot' = NoAddr
        /\ loop' \in [Loops -> [pc: {"none", "start", "connect", "joined", "up", "sleep"},
                                addr: Addrs \cup {NoAddr}]]
      BY <1>3 DEF Disconnect, Asleep, SessionIInv, SessionTypeOK
  <2>2. SessionTypeOK'
      BY <1>1, <1>3, <2>1 DEF SessionIInv, SessionTypeOK, NoTick
  <2>3. Followers' /\ GateStands'
      BY <1>1, <1>3, <2>1, LoopLeaves DEF Up, Asleep
  <2>. QED BY <2>2, <2>3 DEF SessionIInv
<1>4. CASE UNCHANGED <<loop, client, connected, snapshot, waived>>
  <2>1. SessionTypeOK'
      BY <1>1, <1>4 DEF SessionIInv, SessionTypeOK, NoTick
  <2>2. Followers' /\ GateStands'
      BY <1>1, <1>4, LoopLeaves
  <2>. QED BY <2>1, <2>2 DEF SessionIInv
<1>. QED BY <1>1, <1>2, <1>3, <1>4

-----------------------------------------------------------------------------
(* start_client.                                                            *)

LEMMA LoopKeeps ==
    ASSUME SessionIInv, NEW l \in Loops,
           \/ ReadProxy(l) \/ LoopConnects(l) \/ ConfirmSwitch(l) \/ ConnectionLost(l)
           \/ Retry(l) \/ KeyDead(l)
    PROVE  SessionIInv'
<1>. DEFINE Place == [pc: {"none", "start", "connect", "joined", "up", "sleep"},
                      addr: Addrs \cup {NoAddr}]
<1>0. /\ SessionTypeOK /\ loop[l] \in Place
      /\ UNCHANGED <<proxy, active, recon, call, switches, waived>>
    BY DEF SessionIInv, SessionTypeOK, ReadProxy, LoopConnects, ConfirmSwitch, ConnectionLost,
           Retry, KeyDead
<1>1. ASSUME NEW x \in Place, loop' = [loop EXCEPT ![l] = x]
      PROVE  /\ loop' \in [Loops -> Place]
             /\ loop'[l] = x /\ \A k \in Loops \ {l} : loop'[k] = loop[k]
    BY <1>0, <1>1 DEF SessionTypeOK
<1>2. ASSUME UNCHANGED pending, loop[l].pc # "none",
             NEW x \in Place, loop' = [loop EXCEPT ![l] = x], x.pc \in {"none", "start", "sleep"}
      PROVE  Followers' /\ GateStands'
    BY <1>0, <1>1, <1>2, LoopLeaves
<1>3. CASE ReadProxy(l)
  <2>1. pending' = pending /\ authOk' = authOk
      BY <1>3 DEF ReadProxy
  <2>2. CASE proxy # NoAddr /\ loop' = [loop EXCEPT ![l] = [pc |-> "connect", addr |-> proxy]]
             /\ UNCHANGED <<client, connected, snapshot, drops>>
    <3>. DEFINE x == [pc |-> "connect", addr |-> proxy]
    <3>1. x \in Place /\ loop' = [loop EXCEPT ![l] = x]
        BY <1>0, <2>2 DEF SessionTypeOK
    <3>0. loop' \in [Loops -> Place] /\ loop'[l] = x
          /\ \A k \in Loops \ {l} : loop'[k] = loop[k]
        BY <1>1, <3>1
    <3>2. SessionTypeOK'
      <4>. HIDE DEF x
      <4>. QED BY <1>0, <2>1, <2>2, <3>0 DEF SessionTypeOK
    <3>3. /\ Started' = Started /\ Addressed' = Addressed \cup {l}
          /\ loop'[l].addr = proxy /\ \A k \in Loops \ {l} : loop'[k] = loop[k]
        BY <3>0, <1>3 DEF Started, Addressed, ReadProxy
    <3>4. Followers' /\ GateStands'
        BY <1>0, <2>1, <3>3 DEF SessionIInv, Followers, GateStands, Addressed
    <3>. QED BY <3>2, <3>4 DEF SessionIInv
  <2>3. CASE loop' = [loop EXCEPT ![l] = NotRun] /\ Forget /\ drops' \in 0..MaxDrops
    <3>1. NotRun \in Place /\ NotRun.pc = "none" /\ loop[l].pc # "none"
        BY <1>3 DEF NotRun, ReadProxy
    <3>2. SessionTypeOK'
        BY <1>0, <1>1, <2>1, <2>3, <3>1, ZenonT(40) DEF SessionTypeOK, Forget
    <3>. QED BY <1>2, <2>1, <2>3, <3>1, <3>2 DEF SessionIInv
  <2>4. drops' \in 0..MaxDrops
      BY <1>0, <1>3, CountersType DEF ReadProxy, SessionTypeOK
  <2>. QED BY <1>3, <2>2, <2>3, <2>4 DEF ReadProxy
<1>4. CASE LoopConnects(l)
  <2>. DEFINE x == [loop[l] EXCEPT !.pc = "joined"]
  <2>1. x \in Place /\ loop' = [loop EXCEPT ![l] = x] /\ x.addr = loop[l].addr /\ x.pc = "joined"
      BY <1>0, <1>4 DEF LoopConnects
  <2>2. SessionTypeOK'
      BY <1>0, <1>1, <1>4, <2>1 DEF SessionTypeOK, LoopConnects
  <2>3. /\ Started' = Started /\ Addressed' = Addressed
        /\ \A k \in Loops : loop'[k].addr = loop[k].addr
      BY <1>1, <1>4, <2>1 DEF Started, Addressed, LoopConnects
  <2>4. Followers' /\ GateStands'
      BY <1>0, <1>4, <2>3 DEF SessionIInv, Followers, GateStands, Addressed, LoopConnects
  <2>. QED BY <2>2, <2>4 DEF SessionIInv
<1>5. CASE ConfirmSwitch(l)
  <2>. DEFINE x == [loop[l] EXCEPT !.pc = "up"]
  <2>1. x \in Place /\ loop' = [loop EXCEPT ![l] = x] /\ x.addr = loop[l].addr /\ x.pc = "up"
      BY <1>0, <1>5 DEF ConfirmSwitch
  <2>2. SessionTypeOK'
      BY <1>0, <1>1, <1>5, <2>1 DEF SessionTypeOK, ConfirmSwitch
  <2>3. /\ Started' = Started /\ Addressed' = Addressed /\ l \in Started
        /\ \A k \in Loops : loop'[k].addr = loop[k].addr
      BY <1>1, <1>5, <2>1 DEF Started, Addressed, ConfirmSwitch
  <2>4. Addressed \subseteq Started
      BY DEF Addressed, Started
  <2>5. Followers' /\ GateStands'
      BY <1>0, <1>5, <2>3, <2>4 DEF SessionIInv, Followers, GateStands, ConfirmSwitch, Followed, Addressed
  <2>. QED BY <2>2, <2>5 DEF SessionIInv
<1>6. CASE ConnectionLost(l)
  <2>1. Asleep \in Place /\ Asleep.pc = "sleep" /\ loop[l].pc # "none"
      BY <1>6 DEF Asleep, ConnectionLost
  <2>2. SessionTypeOK'
      BY <1>0, <1>1, <1>6, <2>1, CountersType DEF SessionTypeOK, ConnectionLost
  <2>. QED BY <1>2, <1>6, <2>1, <2>2 DEF SessionIInv, ConnectionLost
<1>7. CASE Retry(l)
  <2>. DEFINE x == [loop[l] EXCEPT !.pc = "start"]
  <2>1. x \in Place /\ loop' = [loop EXCEPT ![l] = x] /\ x.pc = "start" /\ loop[l].pc # "none"
      BY <1>0, <1>7 DEF Retry
  <2>2. SessionTypeOK'
      BY <1>0, <1>1, <1>7, <2>1 DEF SessionTypeOK, Retry
  <2>. QED BY <1>2, <1>7, <2>1, <2>2 DEF SessionIInv, Retry
<1>8. CASE KeyDead(l)
  <2>1. NotRun \in Place /\ NotRun.pc = "none" /\ loop[l].pc # "none"
      BY <1>8 DEF NotRun, KeyDead
  <2>2. SessionTypeOK'
      BY <1>0, <1>1, <1>8, <2>1, CountersType DEF SessionTypeOK, KeyDead, Forget
  <2>. QED BY <1>2, <1>8, <2>1, <2>2 DEF SessionIInv, KeyDead
<1>. QED BY <1>3, <1>4, <1>5, <1>6, <1>7, <1>8

-----------------------------------------------------------------------------
(* Temporary clients.                                                       *)

LEMMA CallKeeps ==
    ASSUME SessionIInv,
           \/ SendGate \/ SendConnects \/ RequestConnects \/ WarmupConnects \/ CallEnds
           \/ CallFindsKeyDead
    PROVE  SessionIInv'
<1>1. /\ UNCHANGED <<proxy, pending, active, loop, client, connected, snapshot, recon, waived>>
      /\ SessionTypeOK /\ authOk' \in BOOLEAN
      /\ switches' \in 0..MaxSwitches /\ drops' \in 0..MaxDrops
    BY CountersType DEF SessionIInv, SessionTypeOK, SendGate, SendConnects, RequestConnects,
           WarmupConnects, CallEnds, CallFindsKeyDead, listenerVars
<1>2. /\ call' \in [pc: {"none", "gated", "send", "request", "warmup"}, addr: Addrs \cup {NoAddr}]
      /\ call'.pc = "gated" => pending # "fresh" /\ proxy # NoAddr
    BY <1>1 DEF SessionTypeOK, SendGate, SendConnects, RequestConnects, WarmupConnects, CallEnds,
           CallFindsKeyDead, NoCall
<1>3. SessionTypeOK'
    BY <1>1, <1>2 DEF SessionTypeOK
<1>4. Started' = Started /\ Addressed' = Addressed
    BY <1>1 DEF Started, Addressed
<1>5. Followers'
    BY <1>1, <1>4 DEF SessionIInv, Followers
<1>6. GateStands'
    BY <1>1, <1>2 DEF SessionIInv, Followers, GateStands, SessionTypeOK
<1>. QED BY <1>3, <1>5, <1>6 DEF SessionIInv

-----------------------------------------------------------------------------
LEMMA SessionNextIInv == SessionIInv /\ [SessionNext]_sessionVars => SessionIInv'
<1>. SUFFICES ASSUME SessionIInv, [SessionNext]_sessionVars PROVE SessionIInv'
    OBVIOUS
<1>1. CASE SessionNext
    BY <1>1, ManagerKeeps, ReconcileReadsKeeps, ReconcileActsKeeps, LoopKeeps, CallKeeps
       DEF SessionNext
<1>2. CASE UNCHANGED sessionVars
    BY <1>2 DEF sessionVars, SessionIInv, SessionTypeOK, Followers, GateStands, Started, Addressed
<1>. QED BY <1>1, <1>2

\* The inductive invariant: as long as nothing waived the promise, one loop runs, and where
\* no flag is up its client is on the address of the row.
THEOREM SessionInvariant == SessionSpec => []SessionIInv
BY SessionInitIInv, SessionNextIInv, PTL DEF SessionSpec

\* The books of the listener, the flag and the calls keep their types.
THEOREM SessionTypeCorrect == SessionSpec => []SessionTypeOK
<1>1. SessionIInv => SessionTypeOK
    BY DEF SessionIInv
<1>. QED BY <1>1, SessionInvariant, PTL

\* The queue connects from the address the listener is on, unless what the property names
\* happened; for any number of switches, reconnects, reclaims, logins and calls.
THEOREM OneAddressAtATime == SessionSpec => SendsFromOneAddress
<1>1. SessionIInv /\ SendConnects => waived # {} \/ \A l \in Up : loop[l].addr = proxy
    BY DEF SessionIInv, Followers, GateStands, SendConnects, Up, Addressed
<1>2. SessionIInv /\ [SessionNext]_sessionVars =>
        [SendConnects => waived # {} \/ \A l \in Up : loop[l].addr = proxy]_sessionVars
    BY <1>1
<1>. QED BY <1>2, SessionInvariant, PTL DEF SessionSpec, SendsFromOneAddress

-----------------------------------------------------------------------------
(* KbIngest, for any documents, workers, requests and faults: a document on *)
(* which no two runs overlapped has the chunks its row counts.              *)

\* A worker is at rest or has a document and a number.
Working ==
    \A w \in KbWorkers : run[w].pc = "idle" \/ (run[w].d \in Docs /\ run[w].id \in 1..runs)

\* Two runs on one document are on record.
AloneUnlessOverlapped ==
    \A v, w \in KbWorkers :
        v # w /\ run[v].d = run[w].d /\ run[v].d \in Docs => run[v].d \in overlapped

\* Nothing has happened to a document that was not added.
Untouched ==
    \A d \in Docs : doc[d].st = "none" => chunks[d] = {} /\ \A w \in KbWorkers : run[w].d # d

\* What a run is about to replace is what is there.
ReplacesAll ==
    \A w \in KbWorkers :
        run[w].pc \in {"open", "waits"} /\ run[w].d \in DocRows \ overlapped =>
            run[w].gone = chunks[run[w].d]

KbIInv == /\ KbTypeOK /\ Working /\ AloneUnlessOverlapped /\ Untouched /\ ReplacesAll
          /\ CountIsRows

-----------------------------------------------------------------------------
LEMMA KbInitIInv == InitKb => KbIInv
<1>. SUFFICES ASSUME InitKb PROVE KbIInv
    OBVIOUS
<1>1. 0 \notin Docs
    BY DEF Docs
<1>2. KbTypeOK
    BY KbCounts DEF InitKb, KbTypeOK, NoDoc, NoRun
<1>3. DocRows = {}
    BY DEF InitKb, DocRows, NoDoc
<1>4. \A w \in KbWorkers : run[w].pc = "idle" /\ run[w].d = 0
    BY DEF InitKb, NoRun
<1>5. Working /\ AloneUnlessOverlapped /\ ReplacesAll /\ CountIsRows
    BY <1>1, <1>3, <1>4 DEF Working, AloneUnlessOverlapped, ReplacesAll, CountIsRows
<1>6. Untouched
    BY <1>1, <1>4 DEF InitKb, Untouched
<1>. QED BY <1>2, <1>5, <1>6 DEF KbIInv

\* The runs so far are among the runs to come.
LEMMA RunsGrow ==
    ASSUME NEW n \in Nat
    PROVE  1..n \subseteq 1..(n + 1) /\ 0..n \subseteq 0..(n + 1) /\ n + 1 \in 1..(n + 1)
OBVIOUS

-----------------------------------------------------------------------------
(* The manager.                                                             *)

\* The counters of requests and faults stay within their bounds.
LEMMA KbCountersType ==
    /\ Asked /\ kbOps \in 0..MaxKbOps => kbOps' \in 0..MaxKbOps
    /\ \A n \in 0..MaxKbFaults : n < MaxKbFaults => n + 1 \in 0..MaxKbFaults
BY KbCounts DEF Asked

LEMMA AddKeeps ==
    ASSUME KbIInv, NEW d \in Docs, NEW content \in {"text", "blank", "broken"},
           AddDocument(d, content)
    PROVE  KbIInv'
<1>1. /\ doc' = [doc EXCEPT ![d] = [text |-> content, st |-> "pending", count |-> 0]]
      /\ UNCHANGED <<chunks, run, runs, kbFaults, overlapped>>
      /\ doc[d].st = "none"
    BY DEF AddDocument
<1>2. KbTypeOK'
    BY <1>1, KbCountersType DEF KbIInv, KbTypeOK, AddDocument
<1>3. DocRows' = DocRows \cup {d} /\ doc'[d].count = 0
    BY <1>1 DEF DocRows, KbIInv, KbTypeOK
<1>4. chunks[d] = {} /\ \A w \in KbWorkers : run[w].d # d
    BY <1>1 DEF KbIInv, Untouched
<1>5. Untouched'
    BY <1>1 DEF KbIInv, KbTypeOK, Untouched
<1>6. ReplacesAll'
    BY <1>1, <1>3, <1>4 DEF KbIInv, ReplacesAll
<1>7. CountIsRows'
  <2>. SUFFICES ASSUME NEW e \in DocRows', e \notin overlapped'
                PROVE  doc'[e].count = Cardinality(chunks'[e])
      BY DEF CountIsRows
  <2>1. CASE e = d
      BY <1>1, <1>3, <1>4, <2>1, FS_EmptySet
  <2>2. CASE e # d
      BY <1>1, <1>3, <2>2 DEF KbIInv, KbTypeOK, CountIsRows, DocRows
  <2>. QED BY <2>1, <2>2
<1>8. Working' /\ AloneUnlessOverlapped'
    BY <1>1 DEF KbIInv, Working, AloneUnlessOverlapped
<1>. QED BY <1>2, <1>5, <1>6, <1>7, <1>8 DEF KbIInv

\* The row goes back to pending, its count and its chunks stay.
LEMMA ReindexKeeps ==
    ASSUME KbIInv, NEW d \in Docs, Reindex(d)
    PROVE  KbIInv'
<1>1. /\ doc' = [doc EXCEPT ![d].st = "pending"] /\ d \in DocRows
      /\ UNCHANGED <<chunks, run, runs, kbFaults, overlapped>>
    BY DEF Reindex
<1>2. KbTypeOK'
    BY <1>1, KbCountersType DEF KbIInv, KbTypeOK, Reindex
<1>3. DocRows' = DocRows /\ \A e \in Docs : doc'[e].count = doc[e].count
    BY <1>1 DEF DocRows, KbIInv, KbTypeOK
<1>4. Untouched'
    BY <1>1 DEF KbIInv, KbTypeOK, Untouched
<1>5. Working' /\ AloneUnlessOverlapped' /\ ReplacesAll' /\ CountIsRows'
    BY <1>1, <1>3 DEF KbIInv, Working, AloneUnlessOverlapped, ReplacesAll, CountIsRows, DocRows
<1>. QED BY <1>2, <1>4, <1>5 DEF KbIInv

\* Documents that are deleted are no rows any more.
LEMMA DeleteKeeps ==
    ASSUME KbIInv, NEW ds \in SUBSET DocRows, Delete(ds), Asked,
           UNCHANGED <<run, runs, kbFaults, overlapped>>
    PROVE  KbIInv'
<1>1. /\ doc' = [d \in Docs |-> IF d \in ds THEN [doc[d] EXCEPT !.st = "gone"] ELSE doc[d]]
      /\ chunks' = [d \in Docs |-> IF d \in ds THEN {} ELSE chunks[d]]
    BY DEF Delete
<1>2. KbTypeOK'
    BY <1>1, KbCountersType DEF KbIInv, KbTypeOK
<1>3. DocRows' = DocRows \ ds /\ \A e \in DocRows' : doc'[e] = doc[e] /\ chunks'[e] = chunks[e]
    BY <1>1 DEF DocRows, KbIInv, KbTypeOK
<1>4. Untouched'
    BY <1>1 DEF KbIInv, KbTypeOK, Untouched
<1>5. Working' /\ AloneUnlessOverlapped' /\ ReplacesAll' /\ CountIsRows'
    BY <1>3 DEF KbIInv, Working, AloneUnlessOverlapped, ReplacesAll, CountIsRows
<1>. QED BY <1>2, <1>4, <1>5 DEF KbIInv

-----------------------------------------------------------------------------
(* The workers.                                                             *)

\* A claim on a document somebody works on is put on record.
LEMMA ClaimKeeps ==
    ASSUME KbIInv, NEW w \in KbWorkers, ClaimDocument(w)
    PROVE  KbIInv'
<1>. DEFINE Next(d) == [pc |-> "extract", d |-> d, id |-> runs + 1, gone |-> {}]
<1>1. PICK d \in Pending :
        /\ doc' = [doc EXCEPT ![d].st = "processing"]
        /\ run' = [run EXCEPT ![w] = Next(d)]
        /\ overlapped' = IF WorkedOn(d) THEN overlapped \cup {d} ELSE overlapped
    BY DEF ClaimDocument
<1>2. UNCHANGED <<chunks, kbOps, kbFaults>> /\ runs' = runs + 1
    BY DEF ClaimDocument
<1>3. d \in Docs /\ d \in DocRows /\ overlapped \subseteq overlapped'
    BY <1>1 DEF Pending, DocRows
<1>4. /\ run'[w] = Next(d) /\ \A v \in KbWorkers \ {w} : run'[v] = run[v]
      /\ DocRows' = DocRows /\ \A e \in Docs : doc'[e].count = doc[e].count
    BY <1>1, <1>3 DEF DocRows, KbIInv, KbTypeOK
<1>5. KbTypeOK'
  <2>1. runs \in Nat /\ runs + 1 \in Nat
      BY DEF KbIInv, KbTypeOK
  <2>2. 1..runs \subseteq 1..runs' /\ 0..runs \subseteq 0..runs' /\ runs' \in 0..runs'
      BY <1>2, <2>1, RunsGrow
  <2>3. chunks' \in [Docs -> SUBSET (1..runs')]
      BY <1>2, <2>2 DEF KbIInv, KbTypeOK
  <2>4. run' \in [KbWorkers -> [pc: {"idle", "extract", "waits", "open"}, d: Docs \cup {0},
                                id: 0..runs', gone: SUBSET (1..runs')]]
      BY <1>1, <1>2, <1>3, <2>2 DEF KbIInv, KbTypeOK
  <2>5. doc' \in [Docs -> [text: {"text", "blank", "broken"}, count: 0..1,
                  st: {"none", "pending", "processing", "indexed", "failed", "gone"}]]
      BY <1>1, <1>3 DEF KbIInv, KbTypeOK
  <2>. QED BY <1>1, <1>2, <1>3, <2>1, <2>3, <2>4, <2>5 DEF KbIInv, KbTypeOK
<1>6. Working'
  <2>1. runs \in Nat /\ 1..runs \subseteq 1..runs' /\ runs' \in 1..runs' /\ run'[w].id = runs'
      BY <1>2, <1>4, RunsGrow DEF KbIInv, KbTypeOK
  <2>. QED BY <1>3, <1>4, <2>1 DEF KbIInv, Working
<1>7. AloneUnlessOverlapped'
  <2>. SUFFICES ASSUME NEW u \in KbWorkers, NEW v \in KbWorkers, u # v,
                       run'[u].d = run'[v].d, run'[u].d \in Docs
                PROVE  run'[u].d \in overlapped'
      BY DEF AloneUnlessOverlapped
  <2>1. CASE u # w /\ v # w
      BY <1>3, <1>4, <2>1 DEF KbIInv, AloneUnlessOverlapped
  <2>2. CASE u = w \/ v = w
      BY <1>1, <1>4, <2>2 DEF WorkedOn
  <2>. QED BY <2>1, <2>2
<1>8. Untouched'
    BY <1>1, <1>2, <1>3, <1>4 DEF KbIInv, KbTypeOK, Untouched, DocRows
<1>9. ReplacesAll' /\ CountIsRows'
    BY <1>2, <1>3, <1>4 DEF KbIInv, ReplacesAll, CountIsRows, DocRows
<1>. QED BY <1>5, <1>6, <1>7, <1>8, <1>9 DEF KbIInv

\* Extracting notes what the transaction deletes.
LEMMA ExtractKeeps ==
    ASSUME KbIInv, NEW w \in KbWorkers, Extract(w) \/ Unblocked(w)
    PROVE  KbIInv'
<1>1. /\ UNCHANGED <<doc, chunks, runs, kbOps, kbFaults, overlapped>>
      /\ run[w].pc # "idle" /\ run'[w].d = run[w].d /\ run'[w].id = run[w].id
      /\ \A v \in KbWorkers \ {w} : run'[v] = run[v]
      /\ run' \in [KbWorkers -> [pc: {"idle", "extract", "waits", "open"}, d: Docs \cup {0},
                                 id: 0..runs, gone: SUBSET (1..runs)]]
      /\ run'[w].gone = IF run[w].pc = "extract" THEN chunks[run[w].d] ELSE run[w].gone
      /\ run'[w].pc # "idle" /\ run[w].pc \in {"extract", "waits"}
  <2>1. run[w].pc # "idle" /\ run[w].d \in Docs
      BY DEF Extract, Unblocked, KbIInv, Working
  <2>2. CASE Extract(w)
      BY <2>1, <2>2 DEF Extract, Replaced, KbIInv, KbTypeOK
  <2>3. CASE Unblocked(w)
      BY <2>1, <2>3 DEF Unblocked, KbIInv, KbTypeOK
  <2>. QED BY <2>2, <2>3
<1>2. KbTypeOK'
    BY <1>1 DEF KbIInv, KbTypeOK
<1>3. \A v \in KbWorkers : /\ run'[v].d = run[v].d /\ run'[v].id = run[v].id
                            /\ run'[v].pc = "idle" <=> run[v].pc = "idle"
    BY <1>1
<1>4. Working' /\ AloneUnlessOverlapped' /\ Untouched'
    BY <1>1, <1>3 DEF KbIInv, Working, AloneUnlessOverlapped, Untouched
<1>5. DocRows' = DocRows
    BY <1>1 DEF DocRows
<1>6. ReplacesAll' /\ CountIsRows'
    BY <1>1, <1>5 DEF KbIInv, ReplacesAll, CountIsRows
<1>. QED BY <1>2, <1>4, <1>6 DEF KbIInv

\* A run that ends leaves the other runs as they were.
LEMMA RunEnds ==
    ASSUME KbIInv, NEW w \in KbWorkers, run' = [run EXCEPT ![w] = NoRun]
    PROVE  /\ run'[w] = NoRun /\ \A v \in KbWorkers \ {w} : run'[v] = run[v]
           /\ runs' = runs => Working'
           /\ overlapped' = overlapped => AloneUnlessOverlapped'
           /\ runs' = runs =>
                run' \in [KbWorkers -> [pc: {"idle", "extract", "waits", "open"}, d: Docs \cup {0},
                                        id: 0..runs', gone: SUBSET (1..runs')]]
<1>1. 0 \notin Docs
    BY DEF Docs
<1>2. run'[w] = NoRun /\ \A v \in KbWorkers \ {w} : run'[v] = run[v]
    BY DEF KbIInv, KbTypeOK
<1>3. runs' = runs => Working'
  <2>1. run'[w].pc = "idle"
      BY <1>2 DEF NoRun
  <2>. QED BY <1>2, <2>1 DEF KbIInv, Working
<1>4. overlapped' = overlapped => AloneUnlessOverlapped'
    BY <1>1, <1>2 DEF KbIInv, AloneUnlessOverlapped, NoRun
<1>5. runs' = runs => run' \in [KbWorkers -> [pc: {"idle", "extract", "waits", "open"},
                                 d: Docs \cup {0}, id: 0..runs', gone: SUBSET (1..runs')]]
    BY DEF KbIInv, KbTypeOK, NoRun
<1>. QED BY <1>2, <1>3, <1>4, <1>5

\* The rows of this run take the place of all there were.
LEMMA StoreKeeps ==
    ASSUME KbIInv, NEW w \in KbWorkers, Store(w)
    PROVE  KbIInv'
<1>. DEFINE d == run[w].d
            new == IF doc[d].text = "blank" THEN {} ELSE {run[w].id}
<1>1. /\ run[w].pc = "open" /\ run' = [run EXCEPT ![w] = NoRun] /\ d \in Docs
      /\ UNCHANGED <<runs, kbOps, kbFaults, overlapped>>
    BY DEF Store, KbIInv, Working
<1>2. CASE d \notin DocRows
  <2>1. UNCHANGED <<doc, chunks>>
      BY <1>2 DEF Store
  <2>2. KbTypeOK'
      BY <1>1, <2>1, RunEnds DEF KbIInv, KbTypeOK
  <2>3. DocRows' = DocRows
      BY <2>1 DEF DocRows
  <2>4. Untouched' /\ ReplacesAll' /\ CountIsRows'
      BY <1>1, <2>1, <2>3, RunEnds DEF KbIInv, Untouched, ReplacesAll, CountIsRows, NoRun, Docs
  <2>. QED BY <1>1, <2>2, <2>4, RunEnds DEF KbIInv
<1>3. CASE d \in DocRows
  <2>1. /\ doc' = [doc EXCEPT ![d].st = "indexed", ![d].count = CountOf(d)]
        /\ chunks' = [chunks EXCEPT ![d] = (@ \ run[w].gone) \cup new]
      BY <1>3 DEF Store
  <2>2. new \subseteq 1..runs /\ CountOf(d) \in 0..1
    <3>1. CountOf(d) \in 0..1
        BY DEF CountOf
    <3>2. run[w].id \in 1..runs
        BY <1>1 DEF KbIInv, Working
    <3>. QED BY <3>1, <3>2
  <2>3. KbTypeOK'
    <3>1. doc' \in [Docs -> [text: {"text", "blank", "broken"}, count: 0..1,
                     st: {"none", "pending", "processing", "indexed", "failed", "gone"}]]
        BY <1>1, <2>1, <2>2 DEF KbIInv, KbTypeOK
    <3>2. chunks' \in [Docs -> SUBSET (1..runs')]
        BY <1>1, <2>1, <2>2 DEF KbIInv, KbTypeOK
    <3>. QED BY <1>1, <3>1, <3>2, RunEnds DEF KbIInv, KbTypeOK
  <2>4. /\ doc'[d].count = CountOf(d) /\ chunks'[d] = (chunks[d] \ run[w].gone) \cup new
        /\ DocRows' = DocRows
        /\ \A e \in Docs \ {d} : doc'[e] = doc[e] /\ chunks'[e] = chunks[e]
      BY <1>1, <1>3, <2>1 DEF KbIInv, KbTypeOK, DocRows
  <2>5. d \notin overlapped => chunks'[d] = new
      BY <1>1, <1>3, <2>4 DEF KbIInv, ReplacesAll
  <2>6. CountOf(d) = Cardinality(new)
      BY FS_EmptySet, FS_Singleton DEF CountOf
  <2>7. CountIsRows'
      BY <1>1, <2>4, <2>5, <2>6 DEF KbIInv, CountIsRows, DocRows
  <2>8. ReplacesAll'
    <3>. SUFFICES ASSUME NEW v \in KbWorkers, run'[v].pc \in {"open", "waits"},
                         run'[v].d \in DocRows' \ overlapped'
                  PROVE  run'[v].gone = chunks'[run'[v].d]
        BY DEF ReplacesAll
    <3>1. v # w /\ run'[v] = run[v]
        BY <1>1, RunEnds DEF NoRun
    <3>2. run[v].d # d /\ run[v].d \in Docs
        BY <1>1, <3>1, <2>4 DEF KbIInv, AloneUnlessOverlapped, DocRows
    <3>. QED BY <1>1, <2>4, <3>1, <3>2 DEF KbIInv, ReplacesAll
  <2>9. Untouched'
      BY <1>1, <1>3, <2>1, <2>4, RunEnds, SMTT(30) DEF KbIInv, KbTypeOK, Untouched, NoRun, DocRows, Docs
  <2>. QED BY <1>1, <2>3, <2>7, <2>8, <2>9, RunEnds DEF KbIInv
<1>. QED BY <1>2, <1>3

\* A failure is written beside the chunks it leaves alone, a crash is written nowhere.
LEMMA FailureKeeps ==
    ASSUME KbIInv, NEW w \in KbWorkers, IngestFails(w) \/ KbCrash(w)
    PROVE  KbIInv'
<1>1. /\ run' = [run EXCEPT ![w] = NoRun] /\ run[w].d \in Docs
      /\ UNCHANGED <<chunks, runs, kbOps, overlapped>>
      /\ kbFaults' \in 0..MaxKbFaults
    BY KbCountersType DEF IngestFails, KbCrash, KbIInv, KbTypeOK, Working
<1>2. PICK d \in Docs : doc' = doc \/ (d \in DocRows /\ doc' = [doc EXCEPT ![d].st = "failed"])
  <2>1. CASE IngestFails(w)
      BY <1>1, <2>1 DEF IngestFails
  <2>2. CASE KbCrash(w)
      BY <1>1, <2>2 DEF KbCrash
  <2>. QED BY <2>1, <2>2
<1>3. KbTypeOK'
  <2>1. doc' \in [Docs -> [text: {"text", "blank", "broken"}, count: 0..1,
                   st: {"none", "pending", "processing", "indexed", "failed", "gone"}]]
    <3>1. CASE doc' = doc
        BY <3>1 DEF KbIInv, KbTypeOK
    <3>2. CASE d \in DocRows /\ doc' = [doc EXCEPT ![d].st = "failed"]
        BY <3>2 DEF KbIInv, KbTypeOK
    <3>. QED BY <1>2, <3>1, <3>2
  <2>. QED BY <1>1, <2>1, RunEnds DEF KbIInv, KbTypeOK
<1>4. \A e \in Docs : /\ doc'[e].count = doc[e].count
                      /\ doc'[e].st = doc[e].st \/ (e \in DocRows /\ doc'[e].st = "failed")
  <2>. SUFFICES ASSUME NEW e \in Docs
                PROVE  /\ doc'[e].count = doc[e].count
                       /\ doc'[e].st = doc[e].st \/ (e \in DocRows /\ doc'[e].st = "failed")
      OBVIOUS
  <2>1. CASE doc' = doc
      BY <2>1
  <2>2. CASE d \in DocRows /\ doc' = [doc EXCEPT ![d].st = "failed"]
    <3>1. doc'[e] = IF e = d THEN [doc[d] EXCEPT !.st = "failed"] ELSE doc[e]
        BY <2>2 DEF KbIInv, KbTypeOK
    <3>2. doc[d] \in [text: {"text", "blank", "broken"}, count: 0..1,
                     st: {"none", "pending", "processing", "indexed", "failed", "gone"}]
        BY DEF KbIInv, KbTypeOK
    <3>. QED BY <2>2, <3>1, <3>2
  <2>. QED BY <1>2, <2>1, <2>2
<1>7. DocRows' = DocRows
    BY <1>4 DEF DocRows
<1>5. Untouched'
  <2>0. run'[w] = NoRun /\ \A v \in KbWorkers \ {w} : run'[v] = run[v]
      BY <1>1, RunEnds
  <2>1. run'[w].d = 0 /\ 0 \notin Docs
      BY <2>0 DEF NoRun, Docs
  <2>2. \A e \in Docs : doc'[e].st = "none" => doc[e].st = "none"
      BY <1>4
  <2>. QED BY <1>1, <2>0, <2>1, <2>2 DEF KbIInv, Untouched
<1>6. ReplacesAll' /\ CountIsRows'
    BY <1>1, <1>4, <1>7, RunEnds DEF KbIInv, ReplacesAll, CountIsRows, NoRun, DocRows
<1>. QED BY <1>1, <1>3, <1>5, <1>6, RunEnds DEF KbIInv

-----------------------------------------------------------------------------
LEMMA KbNextIInv == KbIInv /\ [KbNext]_kbVars => KbIInv'
<1>. SUFFICES ASSUME KbIInv, [KbNext]_kbVars PROVE KbIInv'
    OBVIOUS
<1>1. ASSUME NEW d \in Docs, NEW content \in {"text", "blank", "broken"}, AddDocument(d, content)
      PROVE  KbIInv'
    BY <1>1, AddKeeps
<1>2. ASSUME NEW d \in Docs, Reindex(d) PROVE KbIInv'
    BY <1>2, ReindexKeeps
<1>3. ASSUME NEW d \in Docs, DeleteDocument(d) PROVE KbIInv'
    BY <1>3, DeleteKeeps DEF DeleteDocument
<1>4. CASE DeleteBase
    BY <1>4, DeleteKeeps DEF DeleteBase
<1>5. ASSUME NEW w \in KbWorkers,
             \/ ClaimDocument(w) \/ Extract(w) \/ Unblocked(w) \/ Store(w)
             \/ IngestFails(w) \/ KbCrash(w)
      PROVE  KbIInv'
    BY <1>5, ClaimKeeps, ExtractKeeps, StoreKeeps, FailureKeeps
<1>6. CASE UNCHANGED kbVars
    BY <1>6 DEF kbVars, KbIInv, KbTypeOK, Working, AloneUnlessOverlapped, Untouched,
                ReplacesAll, CountIsRows, DocRows
<1>. QED BY <1>1, <1>2, <1>3, <1>4, <1>5, <1>6 DEF KbNext

\* The inductive invariant of the ingest: two runs on one document are on record, and what
\* any other run replaces is everything that is there.
THEOREM KbInvariant == KbSpec => []KbIInv
BY KbInitIInv, KbNextIInv, PTL DEF KbSpec

\* The tables keep their types.
THEOREM KbTypeCorrect == KbSpec => []KbTypeOK
<1>1. KbIInv => KbTypeOK
    BY DEF KbIInv
<1>. QED BY <1>1, KbInvariant, PTL

\* chunk_count says how many chunks a document has, unless two runs overlapped on it; for
\* any number of documents, workers, reindexes, deletions, failures and crashes.
THEOREM CountIsExact == KbSpec => []CountIsRows
<1>1. KbIInv => CountIsRows
    BY DEF KbIInv
<1>. QED BY <1>1, KbInvariant, PTL

-----------------------------------------------------------------------------
(* The fleet.                                                               *)

\* A behaviour of the fleet is one of each of its parts, which stutters while another moves.
THEOREM FleetIsItsParts ==
    FleetSpec => CheckSpec /\ AccountsSpec /\ KbSpec /\ WarmupSpec /\ SessionSpec
<1>1. FleetInit => InitCheck /\ InitAccounts /\ InitKb /\ InitWarmup /\ InitSession
    BY DEF FleetInit
<1>2. [FleetNext]_fleetVars =>
        /\ [CheckNext]_checkVars /\ [AccountsNext]_accountVars /\ [KbNext]_kbVars
        /\ [WarmupNext]_warmVars /\ [SessionNext]_sessionVars
    BY DEF FleetNext, fleetVars
<1>. QED BY <1>1, <1>2, PTL DEF FleetSpec, CheckSpec, AccountsSpec, KbSpec, WarmupSpec, SessionSpec

\* The part that moves keeps its types, whichever it is: by the type theorem of each.
THEOREM FleetTypes == FleetSpec => []FleetTypeOK
<1>. DEFINE Named == focus \in {"check", "lone check", "accounts", "kb", "warmup", "session"}
<1>1. FleetInit => Named
    BY DEF FleetInit
<1>2. Named /\ [FleetNext]_fleetVars => Named'
    BY DEF FleetNext, fleetVars
<1>3. /\ Named /\ CheckTypeOK /\ AccountsTypeOK /\ KbTypeOK /\ WarmupTypeOK /\ SessionTypeOK
      => FleetTypeOK
    BY DEF FleetTypeOK
<1>. HIDE DEF Named
<1>. QED BY <1>1, <1>2, <1>3, FleetIsItsParts, CheckTypeCorrect, AccountsTypeCorrect,
            KbTypeCorrect, WarmupTypeCorrect, SessionTypeCorrect, PTL DEF FleetSpec
=============================================================================
