----------------------- MODULE CampaignLifecycleProofs -----------------------
(***************************************************************************)
(* Proofs about CampaignLifecycle: for any number of campaigns, senders    *)
(* and concurrent requests, each promise of the endpoints can be broken    *)
(* only by the overlaps its property names.                                *)
(***************************************************************************)
EXTENDS CampaignLifecycle, FiniteSetTheorems, TLAPS

-----------------------------------------------------------------------------
(* The inductive invariant.                                                 *)

On(r, ops, c) == r \in InFlight /\ req[r].op \in ops /\ req[r].c = c

\* raced knows every conflict of the transactions now in flight.
Tracked ==
    /\ \A r, q \in InFlight : r # q => Races(req[r], req[q]) \subseteq raced
    /\ \A c \in Campaigns, r \in InFlight, w \in batch :
          On(r, {"detach"}, c) /\ w[1] = c => "strand" \in raced

\* What a request checked about the lock still holds when it writes.
LockStands ==
    "lock" \notin raced =>
        /\ SendersAreLocked
        /\ \A r \in InFlight : req[r].pc = "checked" =>
              /\ req[r].op \in Starting => LockFree(req[r].c, pool[req[r].c])
              /\ req[r].op = "attach" => LockFree(req[r].c, {req[r].s})

\* A request that would revive a campaign was not overtaken by its finish.
ReviveStands ==
    "revive" \notin raced =>
        \A r \in InFlight :
            req[r].op \in Starting \cup {"pause"} => status[req[r].c] # "done"

\* A delete was not overtaken by a start.
DeleteStands ==
    "delete" \notin raced =>
        \A r \in InFlight : req[r].op = "delete" => status[req[r].c] # "running"

\* A detach that may empty the pool belongs to a campaign that does not run.
LastSenderStands ==
    "lastsender" \notin raced =>
        \A r \in InFlight : req[r].op = "detach" /\ status[req[r].c] = "running" =>
            /\ req[r].seen = "running"
            /\ req[r].pc = "checked" => pool[req[r].c] \ {req[r].s} # {}

\* A checked detach still finds no openers.
StrandStands ==
    raced \cap {"strand", "sending", "astray"} = {} =>
        /\ OpenersOnPool
        /\ \A r \in InFlight : req[r].op = "detach" /\ req[r].pc = "checked" =>
              <<req[r].c, req[r].s>> \notin cold \cup sending

\* A pool request and a direct send name a sender.
NamesSender ==
    \A r \in InFlight : req[r].op \in SenderOp => req[r].s \in Senders

IInv ==
    /\ LifecycleTypeOK /\ NamesSender /\ Tracked
    /\ LockStands /\ ReviveStands /\ DeleteStands /\ LastSenderStands /\ StrandStands

-----------------------------------------------------------------------------
(* Races, one conflict at a time.                                           *)

\* Races is symmetric.
LEMMA RacesSymmetric ==
    ASSUME NEW x, NEW y
    PROVE  Races(x, y) = Races(y, x)
<1>1. {x.op, y.op} = {y.op, x.op}
    OBVIOUS
<1>. QED BY <1>1, Zenon DEF Races

\* Only the operations and the campaigns count.
LEMMA RacesByOp ==
    ASSUME NEW x, NEW y, NEW v, NEW w,
           v.op = x.op, v.c = x.c, w.op = y.op, w.c = y.c
    PROVE  Races(v, w) = Races(x, y)
BY ZenonT(40) DEF Races

\* The five names are all there are.
LEMMA RacesType ==
    ASSUME NEW x, NEW y
    PROVE  Races(x, y) \subseteq {"lock", "revive", "delete", "lastsender", "strand"}
BY DEF Races

\* Two lock-taking requests that do not conflict are of the same kind on one
\* campaign.
LEMMA RacesLock ==
    ASSUME NEW x, NEW y, x.op \in LockOps, y.op \in LockOps,
           "lock" \notin Races(x, y)
    PROVE  x.c = y.c /\ (x.op = "attach" <=> y.op = "attach")
BY DEF Races, LockOps, Starting

\* What the other four names stand for.
LEMMA RacesOnCampaign ==
    ASSUME NEW x, NEW y, x.c = y.c
    PROVE  /\ x.op = "finish" /\ y.op \in Starting \cup {"pause"}
                => "revive" \in Races(x, y)
           /\ x.op = "delete" /\ y.op \in Starting => "delete" \in Races(x, y)
           /\ x.op = "detach" /\ y.op \in Starting \cup {"detach"}
                => "lastsender" \in Races(x, y)
           /\ x.op = "detach" /\ y.op = "attach" => "strand" \in Races(x, y)
<1>1. x.op = "finish" /\ y.op \in Starting \cup {"pause"} => "revive" \in Races(x, y)
    BY DEF Races, Starting
<1>2. x.op = "delete" /\ y.op \in Starting => "delete" \in Races(x, y)
    BY DEF Races, Starting
<1>3. x.op = "detach" /\ y.op \in Starting \cup {"detach"} => "lastsender" \in Races(x, y)
    BY DEF Races, Starting
<1>4. x.op = "detach" /\ y.op = "attach" => "strand" \in Races(x, y)
    BY DEF Races, PoolOp
<1>. QED BY <1>1, <1>2, <1>3, <1>4

-----------------------------------------------------------------------------
(* What a step does to the requests.                                        *)

\* A request in flight is a record, Idle is none of them.
LEMMA InFlightIsRequest ==
    ASSUME LifecycleTypeOK, NEW r \in InFlight
    PROVE  r \in Requests /\ req[r] \in Request
BY DEF LifecycleTypeOK, InFlight

LEMMA RequestIsNotIdle ==
    ASSUME NEW x \in Request
    PROVE  x # Idle
<1>1. x.op \in Op /\ DOMAIN x = {"pc", "op", "c", "s", "seen"}
    BY DEF Request
<1>2. DOMAIN Idle = {"pc"}
    BY DEF Idle
<1>. QED BY <1>1, <1>2

\* A request that ends leaves the others as they were.
LEMMA Ended ==
    ASSUME LifecycleTypeOK, NEW r \in InFlight, req' = [req EXCEPT ![r] = Idle]
    PROVE  /\ InFlight' = InFlight \ {r}
           /\ \A q \in InFlight \ {r} : req'[q] = req[q]
           /\ req' \in [Requests -> Request \cup {Idle}]
BY DEF LifecycleTypeOK, InFlight

\* With it, what raced knows stays enough while the batch does not grow.
LEMMA TrackedEnded ==
    ASSUME LifecycleTypeOK, Tracked, NEW r \in InFlight,
           req' = [req EXCEPT ![r] = Idle], batch' = batch, raced \subseteq raced'
    PROVE  Tracked'
<1>1. InFlight' = InFlight \ {r} /\ \A q \in InFlight \ {r} : req'[q] = req[q]
    BY Ended
<1>2. \A a, q \in InFlight' : a # q => Races(req'[a], req'[q]) \subseteq raced'
    BY <1>1 DEF Tracked
<1>3. \A c \in Campaigns, a \in InFlight', w \in batch' :
          req'[a].op \in {"detach"} /\ req'[a].c = c /\ w[1] = c => "strand" \in raced'
    BY <1>1 DEF Tracked, On
<1>. QED BY <1>2, <1>3 DEF Tracked, On

-----------------------------------------------------------------------------
(* Steps of a request.                                                      *)

\* What the guards of a write say, for all seven of them.
LEMMA Writing ==
    ASSUME IInv, NEW r \in Requests, NEW ops, Checked(r, ops), raced \subseteq raced'
    PROVE  /\ r \in InFlight /\ req[r] \in Request
           /\ req[r].pc = "checked" /\ req[r].op \in ops /\ req[r].c \in Campaigns
           /\ status[req[r].c] # "gone"
           /\ InFlight' = InFlight \ {r}
           /\ req' \in [Requests -> Request \cup {Idle}]
           /\ \A q \in InFlight' :
                 /\ q \in InFlight /\ req'[q] = req[q] /\ req[q] \in Request
                 /\ q # r
                 /\ Races(req[r], req[q]) \subseteq raced
                 /\ Races(req[q], req[r]) \subseteq raced
           /\ NamesSender'
           /\ batch' = batch => Tracked'
<1>1. r \in InFlight /\ req' = [req EXCEPT ![r] = Idle] /\ LifecycleTypeOK
    BY DEF Checked, InFlight, IInv
<1>2. req[r] \in Request /\ \A q \in InFlight : req[q] \in Request
    BY <1>1, InFlightIsRequest
<1>3. /\ req[r].pc = "checked" /\ req[r].op \in ops /\ req[r].c \in Campaigns
      /\ status[req[r].c] # "gone"
    BY <1>2 DEF Checked, Request
<1>4. /\ InFlight' = InFlight \ {r}
      /\ \A q \in InFlight \ {r} : req'[q] = req[q]
      /\ req' \in [Requests -> Request \cup {Idle}]
    BY <1>1, Ended
<1>5. \A q \in InFlight' : /\ Races(req[r], req[q]) \subseteq raced
                           /\ Races(req[q], req[r]) \subseteq raced
    BY <1>1, <1>4 DEF IInv, Tracked
<1>6. NamesSender'
    BY <1>4 DEF IInv, NamesSender
<1>7. batch' = batch => Tracked'
    BY <1>1, TrackedEnded DEF IInv
<1>. QED BY <1>1, <1>2, <1>3, <1>4, <1>5, <1>6, <1>7

\* Load records every conflict it starts, and its guard speaks of the status.
LEMMA LoadKeeps ==
    ASSUME IInv, NEW r \in Requests, NEW op \in Op, NEW c \in Campaigns,
           NEW s \in Senders \cup {NoSender}, op \in SenderOp => s \in Senders,
           Load(r, op, c, s)
    PROVE  IInv'
<1>. DEFINE x == [pc |-> IF op \in Unchecked THEN "checked" ELSE "loaded", op |-> op,
                  c |-> c, s |-> s, seen |-> status[c]]
<1>0. LifecycleTypeOK /\ UNCHANGED <<status, pool, cold, sending, parked, batch, decided>>
    BY DEF IInv, Load
<1>1. req' = [req EXCEPT ![r] = x] /\ r \notin InFlight /\ Accepts(op, status[c])
    BY DEF Load, InFlight
<1>2. x \in Request
  <2>1. status[c] \in {"draft", "running", "paused", "done"}
    BY <1>0 DEF LifecycleTypeOK, Load
  <2>. QED BY <2>1 DEF Request
<1>3. /\ InFlight' = InFlight \cup {r} /\ req'[r] = x
      /\ \A q \in InFlight : q # r /\ req'[q] = req[q]
  <2>1. x # Idle
    BY <1>2, RequestIsNotIdle
  <2>. QED BY <1>0, <1>1, <2>1 DEF InFlight, LifecycleTypeOK
<1>4. raced \subseteq raced' /\ \A q \in InFlight : Races(x, req[q]) \subseteq raced'
    BY DEF Load
<1>5. op = "detach" /\ (\E w \in batch : w[1] = c) => "strand" \in raced'
    BY <1>0 DEF Load, LifecycleTypeOK
<1>6. LifecycleTypeOK'
  <2>1. raced' \subseteq {"lock", "revive", "delete", "lastsender", "strand", "sending", "astray"}
    <3>1. \A q \in InFlight :
             Races(x, req[q]) \subseteq {"lock", "revive", "delete", "lastsender", "strand"}
        BY RacesType
    <3>2. \A k \in raced' : \/ k \in raced \/ k = "strand"
                            \/ \E q \in InFlight : k \in Races(x, req[q])
        BY DEF Load
    <3>3. raced \subseteq {"lock", "revive", "delete", "lastsender", "strand", "sending", "astray"}
        BY <1>0 DEF LifecycleTypeOK
    <3>. QED BY <3>1, <3>2, <3>3
  <2>2. issued' \in 0..MaxIssued
    BY <1>0, BoundAssumption DEF Load, LifecycleTypeOK
  <2>. QED BY <1>0, <1>1, <1>2, <2>1, <2>2 DEF LifecycleTypeOK
<1>7. NamesSender'
    BY <1>3 DEF IInv, NamesSender
<1>8. Tracked'
  <2>1. ASSUME NEW a \in InFlight', NEW b \in InFlight', a # b
        PROVE  Races(req'[a], req'[b]) \subseteq raced'
    <3>1. CASE a = r
        BY <1>3, <1>4, <2>1, <3>1
    <3>2. CASE b = r
        BY <1>3, <1>4, <2>1, <3>2, RacesSymmetric
    <3>3. CASE a # r /\ b # r
        BY <1>3, <1>4, <2>1, <3>3 DEF IInv, Tracked
    <3>. QED BY <3>1, <3>2, <3>3
  <2>2. ASSUME NEW d \in Campaigns, NEW a \in InFlight', NEW w \in batch',
               req'[a].op = "detach" /\ req'[a].c = d /\ w[1] = d
        PROVE  "strand" \in raced'
    <3>1. CASE a = r
        BY <1>0, <1>3, <1>5, <2>2, <3>1
    <3>2. CASE a # r
        BY <1>0, <1>3, <1>4, <2>2, <3>2 DEF IInv, Tracked, On
    <3>. QED BY <3>1, <3>2
  <2>. QED BY <2>1, <2>2 DEF Tracked, On
<1>9. LockStands'
  <2>1. x.pc = "checked" => x.op \notin Starting \cup {"attach"}
    BY DEF Unchecked, Starting
  <2>. QED BY <1>0, <1>3, <1>4, <2>1
       DEF IInv, LockStands, SendersAreLocked, LockFree
<1>10. ReviveStands'
  <2>1. op \in {"start", "resume", "pause"} => status[c] # "done"
    BY <1>1 DEF Accepts, PoolOp
  <2>. QED BY <1>0, <1>3, <1>4, <2>1 DEF IInv, ReviveStands, Starting
<1>11. DeleteStands'
  <2>1. x.op = "delete" => status[c] # "running"
    BY <1>1 DEF Accepts, PoolOp
  <2>. QED BY <1>0, <1>3, <1>4, <2>1 DEF IInv, DeleteStands
<1>12. x.op = "detach" => x.pc = "loaded" /\ x.seen = status[c]
    BY DEF Unchecked
<1>13. LastSenderStands'
    BY <1>0, <1>3, <1>4, <1>12 DEF IInv, LastSenderStands
<1>14. StrandStands'
    BY <1>0, <1>3, <1>4, <1>12 DEF IInv, StrandStands, OpenersOnPool
<1>. QED BY <1>6, <1>7, <1>8, <1>9, <1>10, <1>11, <1>13, <1>14 DEF IInv

\* A pool of more than one is not emptied by taking one away.
LEMMA MoreThanOne ==
    ASSUME NEW S, IsFiniteSet(S), Cardinality(S) > 1, NEW e
    PROVE  S \ {e} # {}
<1>1. SUFFICES ASSUME S \subseteq {e} PROVE FALSE
    OBVIOUS
<1>2. Cardinality({e}) = 1 /\ IsFiniteSet({e})
    BY FS_Singleton
<1>3. Cardinality(S) <= 1 /\ Cardinality(S) \in Nat
    BY <1>1, <1>2, FS_Subset, FS_CardinalityType
<1>. QED BY <1>3

\* Check establishes what its write relies on.
LEMMA CheckKeeps ==
    ASSUME IInv, NEW r \in Requests, Check(r)
    PROVE  IInv'
<1>1. /\ r \in InFlight /\ req' = [req EXCEPT ![r].pc = "checked"] /\ Passes(req[r])
      /\ UNCHANGED <<status, pool, cold, sending, parked, batch, decided, issued>>
      /\ raced \subseteq raced' /\ raced' \subseteq raced \cup {"sending"}
      /\ req[r].op = "detach" /\ <<req[r].c, req[r].s>> \in sending => "sending" \in raced'
    BY DEF Check, InFlight
<1>2. LifecycleTypeOK /\ req[r] \in Request
    BY <1>1, InFlightIsRequest DEF IInv
<1>. DEFINE x == [req[r] EXCEPT !.pc = "checked"]
<1>3. /\ x \in Request /\ x.op = req[r].op /\ x.c = req[r].c /\ x.s = req[r].s
      /\ x.seen = req[r].seen /\ x.c \in Campaigns
    BY <1>2 DEF Request
<1>4. /\ InFlight' = InFlight /\ req'[r] = x
      /\ \A q \in InFlight : q # r => req'[q] = req[q]
  <2>1. x # Idle
    BY <1>3, RequestIsNotIdle
  <2>2. req' = [req EXCEPT ![r] = x]
    BY <1>1
  <2>. QED BY <1>1, <1>2, <2>1, <2>2 DEF InFlight, LifecycleTypeOK
<1>5. \A q \in InFlight : /\ req'[q].op = req[q].op /\ req'[q].c = req[q].c
                          /\ req'[q].s = req[q].s /\ req'[q].seen = req[q].seen
    BY <1>3, <1>4
<1>6. LifecycleTypeOK'
    BY <1>1, <1>2, <1>3 DEF LifecycleTypeOK
<1>7. NamesSender'
    BY <1>4, <1>5 DEF IInv, NamesSender
<1>8. Tracked'
  <2>1. \A a, b \in InFlight : Races(req'[a], req'[b]) = Races(req[a], req[b])
    BY <1>5, RacesByOp
  <2>. QED BY <1>1, <1>4, <1>5, <2>1 DEF IInv, Tracked, On
<1>9. LockStands'
  <2>1. /\ x.op \in Starting => LockFree(x.c, pool[x.c])
        /\ x.op = "attach" => LockFree(x.c, {x.s})
    BY <1>1, <1>3 DEF Passes, Starting
  <2>. QED BY <1>1, <1>4, <2>1 DEF IInv, LockStands, SendersAreLocked, LockFree
<1>10. ReviveStands' /\ DeleteStands'
    BY <1>1, <1>4, <1>5 DEF IInv, ReviveStands, DeleteStands
<1>11. x.op = "detach" => MayDetach(req[r])
    BY <1>1, <1>3 DEF Passes
<1>12. LastSenderStands'
  <2>1. x.op = "detach" /\ x.seen = "running" => pool[x.c] \ {x.s} # {}
    <3>1. IsFiniteSet(pool[x.c])
        BY <1>2, <1>3, FiniteAssumption, FS_Subset DEF LifecycleTypeOK
    <3>. QED BY <1>3, <1>11, <3>1, MoreThanOne DEF MayDetach
  <2>. QED BY <1>1, <1>4, <1>5, <2>1 DEF IInv, LastSenderStands
<1>13. StrandStands'
    BY <1>1, <1>3, <1>4, <1>5, <1>11 DEF IInv, StrandStands, OpenersOnPool, MayDetach
<1>. QED BY <1>6, <1>7, <1>8, <1>9, <1>10, <1>12, <1>13 DEF IInv

\* A refused request leaves nothing behind.
LEMMA RefuseKeeps ==
    ASSUME IInv, NEW r \in Requests, Refuse(r)
    PROVE  IInv'
<1>1. /\ r \in InFlight /\ req' = [req EXCEPT ![r] = Idle] /\ LifecycleTypeOK
      /\ UNCHANGED <<status, pool, cold, sending, parked, batch, decided, issued, raced>>
    BY DEF Refuse, InFlight, IInv
<1>2. /\ InFlight' = InFlight \ {r}
      /\ \A q \in InFlight \ {r} : req'[q] = req[q]
      /\ req' \in [Requests -> Request \cup {Idle}]
    BY <1>1, Ended
<1>3. LifecycleTypeOK'
    BY <1>1, <1>2 DEF LifecycleTypeOK
<1>4. Tracked' /\ NamesSender'
    BY <1>1, <1>2, TrackedEnded DEF IInv, NamesSender
<1>5. LockStands' /\ ReviveStands' /\ DeleteStands'
    BY <1>1, <1>2
    DEF IInv, LockStands, SendersAreLocked, LockFree, ReviveStands, DeleteStands
<1>6. LastSenderStands' /\ StrandStands'
    BY <1>1, <1>2 DEF IInv, LastSenderStands, StrandStands, OpenersOnPool
<1>. QED BY <1>3, <1>4, <1>5, <1>6 DEF IInv

\* The status written now is the one the checks were about.
LEMMA WriteStatusKeeps ==
    ASSUME IInv, NEW r \in Requests, WriteStatus(r)
    PROVE  IInv'
<1>. DEFINE c == req[r].c
            to == IF req[r].op = "pause" THEN "paused" ELSE "running"
<1>0. /\ LifecycleTypeOK /\ Checked(r, Starting \cup {"pause"})
      /\ status' = [status EXCEPT ![c] = to]
      /\ UNCHANGED <<pool, cold, sending, parked, batch, decided, issued, raced>>
    BY DEF WriteStatus, IInv
<1>1. /\ r \in InFlight /\ req[r].pc = "checked" /\ req[r].op \in Starting \cup {"pause"}
      /\ c \in Campaigns /\ status[c] # "gone"
      /\ req' \in [Requests -> Request \cup {Idle}] /\ NamesSender' /\ Tracked'
    BY <1>0, Writing
<1>2. \A q \in InFlight' : /\ q \in InFlight /\ q # r
                           /\ req'[q] = req[q] /\ req[q] \in Request
                           /\ Races(req[r], req[q]) \subseteq raced
                           /\ Races(req[q], req[r]) \subseteq raced
    BY <1>0, Writing
<1>3. /\ status' \in [Campaigns -> {"draft", "running", "paused", "done", "gone"}]
      /\ status'[c] = to /\ \A d \in Campaigns \ {c} : status'[d] = status[d]
    BY <1>0, <1>1 DEF LifecycleTypeOK
<1>4. to # "running" <=> req[r].op = "pause"
    OBVIOUS
<1>5. LifecycleTypeOK'
    BY <1>0, <1>1, <1>3 DEF LifecycleTypeOK
<1>6. LockStands'
  <2>1. SUFFICES ASSUME "lock" \notin raced
                 PROVE  /\ SendersAreLocked'
                        /\ \A q \in InFlight' : req[q].pc = "checked" =>
                            /\ req[q].op \in Starting => LockFree(req[q].c, pool[req[q].c])'
                            /\ req[q].op = "attach" => LockFree(req[q].c, {req[q].s})'
    BY <1>0, <1>2 DEF LockStands, LockFree
  <2>2. to = "running" => req[r].op \in Starting /\ LockFree(c, pool[c])
    BY <1>1, <2>1 DEF IInv, LockStands
  <2>3. SendersAreLocked
    BY <2>1 DEF IInv, LockStands
  <2>4. SendersAreLocked'
    BY <1>0, <1>3, <2>2, <2>3 DEF SendersAreLocked, LockFree
  <2>5. ASSUME NEW q \in InFlight', req[q].pc = "checked", req[q].op \in LockOps
        PROVE  \A d \in Campaigns \ {req[q].c} : status'[d] = "running" => status[d] = "running"
    <3>1. CASE to = "running"
      <4>1. req[q].c = c
        BY <1>2, <2>1, <2>2, <2>5, <3>1, RacesLock DEF LockOps
      <4>. QED BY <1>3, <4>1
    <3>2. CASE to # "running"
        BY <1>3, <3>2
    <3>. QED BY <3>1, <3>2
  <2>. QED BY <1>0, <1>2, <2>1, <2>4, <2>5 DEF IInv, LockStands, LockFree, LockOps
<1>7. ReviveStands'
    BY <1>0, <1>2, <1>3 DEF IInv, ReviveStands, Request
<1>8. DeleteStands'
  <2>1. ASSUME NEW q \in InFlight', req[q].op = "delete", req[q].c = c, to = "running"
        PROVE  "delete" \in raced
    BY <1>1, <1>2, <2>1, RacesOnCampaign
  <2>. QED BY <1>0, <1>2, <1>3, <2>1 DEF IInv, DeleteStands, Request
<1>9. LastSenderStands'
  <2>1. ASSUME NEW q \in InFlight', req[q].op = "detach", req[q].c = c, to = "running"
        PROVE  "lastsender" \in raced
    BY <1>1, <1>2, <2>1, RacesOnCampaign
  <2>. QED BY <1>0, <1>2, <1>3, <2>1 DEF IInv, LastSenderStands, Request
<1>10. StrandStands'
    BY <1>0, <1>2 DEF IInv, StrandStands, OpenersOnPool
<1>. QED BY <1>1, <1>5, <1>6, <1>7, <1>8, <1>9, <1>10 DEF IInv

\* Fewer running campaigns and smaller pools keep what was checked about the lock.
LEMMA LockShrinks ==
    ASSUME LockStands, raced' = raced,
           \A c \in Campaigns : /\ status'[c] = "running" => status[c] = "running"
                                /\ pool'[c] \subseteq pool[c],
           \A q \in InFlight' : /\ q \in InFlight /\ req'[q] = req[q]
                                /\ req[q].c \in Campaigns
    PROVE  LockStands'
<1>1. SendersAreLocked => SendersAreLocked'
    BY DEF SendersAreLocked
<1>. QED BY <1>1 DEF LockStands, LockFree

\* A finish leaves no request that could revive the campaign unnoticed.
LEMMA WriteFinishKeeps ==
    ASSUME IInv, NEW r \in Requests, WriteFinish(r)
    PROVE  IInv'
<1>. DEFINE c == req[r].c
<1>0. /\ LifecycleTypeOK /\ Checked(r, {"finish"})
      /\ status' = [status EXCEPT ![c] = "done"]
      /\ cold' = {w \in cold : w[1] # c}
      /\ UNCHANGED <<pool, sending, parked, batch, decided, issued, raced>>
    BY DEF WriteFinish, IInv
<1>1. /\ r \in InFlight /\ req[r].op = "finish" /\ c \in Campaigns /\ status[c] # "gone"
      /\ req' \in [Requests -> Request \cup {Idle}] /\ NamesSender' /\ Tracked'
    BY <1>0, Writing
<1>2. \A q \in InFlight' : /\ q \in InFlight /\ q # r
                           /\ req'[q] = req[q] /\ req[q] \in Request
                           /\ req[q].c \in Campaigns
                           /\ Races(req[r], req[q]) \subseteq raced
    BY <1>0, Writing DEF Request
<1>3. /\ status' \in [Campaigns -> {"draft", "running", "paused", "done", "gone"}]
      /\ status'[c] = "done" /\ \A d \in Campaigns \ {c} : status'[d] = status[d]
    BY <1>0, <1>1 DEF LifecycleTypeOK
<1>4. LifecycleTypeOK'
    BY <1>0, <1>1, <1>3 DEF LifecycleTypeOK
<1>5. LockStands'
    BY <1>0, <1>2, <1>3, LockShrinks DEF IInv
<1>6. ReviveStands'
  <2>1. ASSUME NEW q \in InFlight', req[q].op \in Starting \cup {"pause"}, req[q].c = c
        PROVE  "revive" \in raced
    BY <1>1, <1>2, <2>1, RacesOnCampaign
  <2>. QED BY <1>0, <1>2, <1>3, <2>1 DEF IInv, ReviveStands
<1>7. DeleteStands' /\ LastSenderStands'
    BY <1>0, <1>2, <1>3 DEF IInv, DeleteStands, LastSenderStands
<1>8. StrandStands'
    BY <1>0, <1>2 DEF IInv, StrandStands, OpenersOnPool
<1>. QED BY <1>1, <1>4, <1>5, <1>6, <1>7, <1>8 DEF IInv

\* A delete takes the pool and the openers with it.
LEMMA WriteDeleteKeeps ==
    ASSUME IInv, NEW r \in Requests, WriteDelete(r)
    PROVE  IInv'
<1>. DEFINE c == req[r].c
<1>0. /\ LifecycleTypeOK /\ Checked(r, {"delete"}) /\ \A w \in batch : w[1] # c
      /\ status' = [status EXCEPT ![c] = "gone"]
      /\ pool' = [pool EXCEPT ![c] = {}]
      /\ cold' = {w \in cold : w[1] # c}
      /\ sending' = {w \in sending : w[1] # c}
      /\ parked' = {w \in parked : w[1] # c}
      /\ UNCHANGED <<batch, decided, issued, raced>>
    BY DEF WriteDelete, IInv
<1>1. /\ r \in InFlight /\ c \in Campaigns
      /\ req' \in [Requests -> Request \cup {Idle}] /\ NamesSender' /\ Tracked'
    BY <1>0, Writing
<1>2. \A q \in InFlight' : /\ q \in InFlight /\ q # r
                           /\ req'[q] = req[q] /\ req[q].c \in Campaigns
    BY <1>0, Writing DEF Request
<1>3. /\ status' \in [Campaigns -> {"draft", "running", "paused", "done", "gone"}]
      /\ status'[c] = "gone" /\ \A d \in Campaigns \ {c} : status'[d] = status[d]
      /\ pool' \in [Campaigns -> SUBSET Senders]
      /\ pool'[c] = {} /\ \A d \in Campaigns \ {c} : pool'[d] = pool[d]
    BY <1>0, <1>1 DEF LifecycleTypeOK
<1>4. LifecycleTypeOK'
    BY <1>0, <1>1, <1>3 DEF LifecycleTypeOK
<1>5. LockStands'
  <2>1. \A d \in Campaigns : /\ status'[d] = "running" => status[d] = "running"
                             /\ pool'[d] \subseteq pool[d]
    BY <1>3
  <2>. QED BY <1>0, <1>2, <2>1, LockShrinks DEF IInv
<1>6. ReviveStands' /\ DeleteStands' /\ LastSenderStands'
    BY <1>0, <1>2, <1>3 DEF IInv, ReviveStands, DeleteStands, LastSenderStands
<1>7. StrandStands'
  <2>1. \A w \in cold' \cup sending' \cup batch' :
            w \in cold \cup sending \cup batch /\ w[1] \in Campaigns \ {c}
    BY <1>0 DEF LifecycleTypeOK
  <2>. QED BY <1>0, <1>2, <1>3, <2>1 DEF IInv, StrandStands, OpenersOnPool
<1>. QED BY <1>1, <1>4, <1>5, <1>6, <1>7 DEF IInv

\* A new sender belongs to no other running campaign, and openers go to the pool.
LEMMA WriteAttachKeeps ==
    ASSUME IInv, NEW r \in Requests, WriteAttach(r)
    PROVE  IInv'
<1>. DEFINE c == req[r].c
            grown == pool[c] \cup {req[r].s}
<1>0. /\ LifecycleTypeOK /\ Checked(r, {"attach"})
      /\ pool' = [pool EXCEPT ![c] = grown]
      /\ UNCHANGED <<status, sending, parked, batch, decided, issued, raced>>
    BY DEF WriteAttach, IInv
<1>1. /\ r \in InFlight /\ req[r].pc = "checked" /\ req[r].op = "attach"
      /\ c \in Campaigns /\ status[c] # "gone"
      /\ req' \in [Requests -> Request \cup {Idle}] /\ NamesSender' /\ Tracked'
    BY <1>0, Writing
<1>2. \A q \in InFlight' : /\ q \in InFlight /\ q # r
                           /\ req'[q] = req[q] /\ req[q] \in Request
                           /\ req[q].c \in Campaigns
                           /\ Races(req[r], req[q]) \subseteq raced
                           /\ Races(req[q], req[r]) \subseteq raced
    BY <1>0, Writing DEF Request
<1>3. req[r].s \in Senders /\ grown \subseteq Senders
    BY <1>0, <1>1 DEF IInv, NamesSender, SenderOp, PoolOp, LifecycleTypeOK
<1>4. /\ pool' \in [Campaigns -> SUBSET Senders]
      /\ pool'[c] = grown /\ \A d \in Campaigns \ {c} : pool'[d] = pool[d]
    BY <1>0, <1>1, <1>3 DEF LifecycleTypeOK
<1>5. cold' \subseteq cold \cup ({c} \X grown)
  <2>1. CASE req[r].seen = "running"
    <3>. DEFINE mine == {w \in cold : w[1] = c}
    <3>1. PICK left \in SUBSET mine, to \in SUBSET ({c} \X grown) :
             cold' = left \cup to \cup (cold \ mine)
        BY <2>1 DEF WriteAttach
    <3>. QED BY <3>1
  <2>2. CASE req[r].seen # "running"
        BY <2>2 DEF WriteAttach
  <2>. QED BY <2>1, <2>2
<1>6. \A w \in cold' : w \in Campaigns \X Senders
    BY <1>0, <1>1, <1>3, <1>5 DEF LifecycleTypeOK
<1>7. \A w \in cold' : w[1] = c \/ w \in cold
    BY <1>5
<1>8. LifecycleTypeOK'
  <2>1. \A d \in Campaigns : status[d] = "gone" =>
            pool'[d] = {} /\ \A w \in cold' \cup sending \cup parked \cup batch : w[1] # d
    BY <1>0, <1>1, <1>4, <1>7 DEF LifecycleTypeOK
  <2>. QED BY <1>0, <1>1, <1>4, <1>6, <2>1 DEF LifecycleTypeOK
<1>9. LockStands'
  <2>1. SUFFICES ASSUME "lock" \notin raced
                 PROVE  /\ SendersAreLocked'
                        /\ \A q \in InFlight' : req[q].pc = "checked" =>
                            /\ req[q].op \in Starting => LockFree(req[q].c, pool[req[q].c])'
                            /\ req[q].op = "attach" => LockFree(req[q].c, {req[q].s})'
    BY <1>0, <1>2 DEF LockStands, LockFree
  <2>2. SendersAreLocked /\ LockFree(c, {req[r].s})
    BY <1>1, <2>1 DEF IInv, LockStands
  <2>3. SendersAreLocked'
    BY <1>0, <1>4, <2>2 DEF SendersAreLocked, LockFree
  <2>4. ASSUME NEW q \in InFlight', req[q].op \in LockOps
        PROVE  req[q].c = c /\ req[q].op = "attach"
    BY <1>1, <1>2, <2>1, <2>4, RacesLock DEF LockOps
  <2>5. ASSUME NEW q \in InFlight', req[q].pc = "checked", req[q].op = "attach"
        PROVE  LockFree(req[q].c, {req[q].s})'
    <3>1. req[q].c = c /\ LockFree(c, {req[q].s})
        BY <1>2, <2>1, <2>4, <2>5 DEF IInv, LockStands, LockOps
    <3>. QED BY <1>0, <1>2, <1>4, <3>1 DEF LockFree
  <2>6. \A q \in InFlight' : req[q].op \notin Starting
    BY <2>4 DEF LockOps, Starting
  <2>. QED BY <2>3, <2>5, <2>6
<1>10. ReviveStands' /\ DeleteStands'
    BY <1>0, <1>2 DEF IInv, ReviveStands, DeleteStands
<1>11. LastSenderStands'
    BY <1>0, <1>2, <1>4 DEF IInv, LastSenderStands
<1>12. StrandStands'
  <2>1. SUFFICES ASSUME raced \cap {"strand", "sending", "astray"} = {}
                 PROVE  /\ \A w \in cold' \cup sending \cup batch : w[2] \in pool'[w[1]]
                        /\ \A q \in InFlight' :
                              req[q].op = "detach" /\ req[q].pc = "checked" =>
                                <<req[q].c, req[q].s>> \notin cold' \cup sending
    BY <1>0, <1>2 DEF StrandStands, OpenersOnPool
  <2>2. \A w \in cold \cup sending \cup batch : w[2] \in pool[w[1]] /\ w[1] \in Campaigns
    BY <1>0, <2>1 DEF IInv, StrandStands, OpenersOnPool, LifecycleTypeOK
  <2>3. \A w \in cold \cup sending \cup batch : w[2] \in pool'[w[1]]
    BY <1>4, <2>2
  <2>4. \A w \in cold' : w[2] \in pool'[w[1]]
    BY <1>4, <1>5, <2>3, <1>6, <1>7
  <2>5. ASSUME NEW q \in InFlight', req[q].op = "detach", req[q].pc = "checked"
        PROVE  <<req[q].c, req[q].s>> \notin cold' \cup sending
    <3>1. req[q].c # c
        BY <1>1, <1>2, <2>1, <2>5, RacesOnCampaign
    <3>2. <<req[q].c, req[q].s>> \notin cold \cup sending
        BY <1>2, <2>1, <2>5 DEF IInv, StrandStands
    <3>. QED BY <1>7, <3>1, <3>2
  <2>. QED BY <2>3, <2>4, <2>5
<1>. QED BY <1>1, <1>8, <1>9, <1>10, <1>11, <1>12 DEF IInv

\* A detach removes a sender that has no openers, and another one remains.
LEMMA WriteDetachKeeps ==
    ASSUME IInv, NEW r \in Requests, WriteDetach(r)
    PROVE  IInv'
<1>. DEFINE c == req[r].c
<1>0. /\ LifecycleTypeOK /\ Checked(r, {"detach"})
      /\ pool' = [pool EXCEPT ![c] = pool[c] \ {req[r].s}]
      /\ UNCHANGED <<status, cold, sending, parked, batch, decided, issued, raced>>
    BY DEF WriteDetach, IInv
<1>1. /\ r \in InFlight /\ req[r].pc = "checked" /\ req[r].op = "detach"
      /\ c \in Campaigns
      /\ req' \in [Requests -> Request \cup {Idle}] /\ NamesSender' /\ Tracked'
    BY <1>0, Writing
<1>2. \A q \in InFlight' : /\ q \in InFlight /\ q # r
                           /\ req'[q] = req[q] /\ req[q] \in Request
                           /\ req[q].c \in Campaigns
                           /\ Races(req[r], req[q]) \subseteq raced
    BY <1>0, Writing DEF Request
<1>3. /\ pool' \in [Campaigns -> SUBSET Senders]
      /\ pool'[c] = pool[c] \ {req[r].s}
      /\ \A d \in Campaigns \ {c} : pool'[d] = pool[d]
    BY <1>0, <1>1 DEF LifecycleTypeOK
<1>4. LifecycleTypeOK'
    BY <1>0, <1>1, <1>3 DEF LifecycleTypeOK
<1>5. LockStands'
    BY <1>0, <1>2, <1>3, LockShrinks DEF IInv
<1>6. ReviveStands' /\ DeleteStands'
    BY <1>0, <1>2 DEF IInv, ReviveStands, DeleteStands
<1>7. LastSenderStands'
  <2>1. ASSUME NEW q \in InFlight', req[q].op = "detach", req[q].c = c
        PROVE  "lastsender" \in raced
    BY <1>1, <1>2, <2>1, RacesOnCampaign
  <2>. QED BY <1>0, <1>2, <1>3, <2>1 DEF IInv, LastSenderStands
<1>8. StrandStands'
  <2>1. ASSUME raced \cap {"strand", "sending", "astray"} = {}, NEW w \in cold \cup sending \cup batch
        PROVE  w[2] \in pool'[w[1]]
    <3>1. w \in Campaigns \X Senders /\ w[2] \in pool[w[1]]
        BY <1>0, <2>1 DEF IInv, StrandStands, OpenersOnPool, LifecycleTypeOK
    <3>2. w # <<c, req[r].s>>
        BY <1>1, <2>1 DEF IInv, Tracked, On, StrandStands
    <3>. QED BY <1>3, <3>1, <3>2
  <2>. QED BY <1>0, <1>2, <2>1 DEF IInv, StrandStands, OpenersOnPool
<1>. QED BY <1>1, <1>4, <1>5, <1>6, <1>7, <1>8 DEF IInv

\* Openers W of c come from outside the guards: whoever is not in the pool makes
\* them astray, and a detach in flight is known to raced.
LEMMA AddedKeeps ==
    ASSUME IInv, NEW c \in Campaigns, NEW W \in SUBSET ({c} \X Senders), status[c] # "gone",
           cold' \cup sending' \subseteq cold \cup sending \cup W,
           parked' \subseteq parked \cup W, raced' = raced \cup AstrayRace(c, W),
           UNCHANGED <<status, pool, batch, decided, issued>>,
           req' \in [Requests -> Request \cup {Idle}],
           \A q \in InFlight' : q \in InFlight /\ req'[q] = req[q] /\ req[q].c \in Campaigns,
           Tracked', NamesSender'
    PROVE  IInv'
<1>0. LifecycleTypeOK /\ raced \subseteq raced' /\ StrandRace(c) \subseteq raced'
    BY DEF IInv, AstrayRace
<1>1. LifecycleTypeOK'
  <2>1. \A w \in W : w \in Campaigns \X Senders /\ w[1] = c
    OBVIOUS
  <2>2. raced' \subseteq raced \cup {"strand", "astray"}
    BY DEF AstrayRace, StrandRace
  <2>3. \A w \in cold' \cup sending' \cup parked' \cup batch' :
            w \in cold \cup sending \cup parked \cup batch \/ w \in W
    OBVIOUS
  <2>. QED BY <1>0, <2>1, <2>2, <2>3 DEF LifecycleTypeOK
<1>2. SendersAreLocked => SendersAreLocked'
    BY DEF SendersAreLocked
<1>3. LockStands'
    BY <1>0, <1>2 DEF IInv, LockStands, LockFree
<1>4. ReviveStands' /\ DeleteStands'
    BY <1>0 DEF IInv, ReviveStands, DeleteStands
<1>5. LastSenderStands'
    BY <1>0 DEF IInv, LastSenderStands
<1>6. StrandStands'
  <2>1. SUFFICES ASSUME raced' \cap {"strand", "sending", "astray"} = {}
                 PROVE  /\ \A w \in cold' \cup sending' \cup batch : w[2] \in pool[w[1]]
                        /\ \A q \in InFlight' :
                              req[q].op = "detach" /\ req[q].pc = "checked" =>
                                <<req[q].c, req[q].s>> \notin cold' \cup sending'
    BY DEF StrandStands, OpenersOnPool
  <2>2. \A w \in W : w[1] = c /\ w[2] \in pool[c]
    BY <2>1 DEF AstrayRace
  <2>3. \A w \in cold \cup sending \cup batch : w[2] \in pool[w[1]]
    BY <1>0, <2>1 DEF IInv, StrandStands, OpenersOnPool
  <2>4. ASSUME NEW q \in InFlight', req[q].op = "detach", req[q].pc = "checked"
        PROVE  <<req[q].c, req[q].s>> \notin cold' \cup sending'
    <3>1. req[q].c # c
        BY <1>0, <2>1, <2>4 DEF StrandRace
    <3>2. <<req[q].c, req[q].s>> \notin cold \cup sending
        BY <1>0, <2>1, <2>4 DEF IInv, StrandStands
    <3>3. <<req[q].c, req[q].s>> \notin W
        BY <3>1
    <3>. QED BY <3>2, <3>3
  <2>. QED BY <2>2, <2>3, <2>4
<1>. QED BY <1>1, <1>3, <1>4, <1>5, <1>6 DEF IInv

\* Failed openers return to the senders they had.
LEMMA WriteRequeueKeeps ==
    ASSUME IInv, NEW r \in Requests, WriteRequeue(r)
    PROVE  IInv'
<1>. DEFINE c == req[r].c
<1>1. PICK W \in SUBSET {w \in parked : w[1] = c} :
        /\ cold' = cold \cup W /\ parked' \in {parked, parked \ W}
        /\ raced' = raced \cup AstrayRace(c, W)
    BY DEF WriteRequeue
<1>2. /\ LifecycleTypeOK /\ Checked(r, {"requeue"})
      /\ UNCHANGED <<status, pool, sending, batch, decided, issued>>
    BY DEF WriteRequeue, IInv
<1>3. /\ c \in Campaigns /\ status[c] # "gone"
      /\ req' \in [Requests -> Request \cup {Idle}] /\ NamesSender' /\ Tracked'
    BY <1>1, <1>2, Writing
<1>4. \A q \in InFlight' : q \in InFlight /\ req'[q] = req[q] /\ req[q].c \in Campaigns
    BY <1>1, <1>2, Writing DEF Request
<1>5. W \in SUBSET ({c} \X Senders)
    BY <1>1, <1>2 DEF LifecycleTypeOK
<1>6. cold' \cup sending' \subseteq cold \cup sending \cup W /\ parked' \subseteq parked \cup W
    BY <1>1, <1>2
<1>. HIDE DEF c
<1>. QED BY <1>1, <1>2, <1>3, <1>4, <1>5, <1>6, AddedKeeps

\* A direct send writes one opener.
LEMMA WriteSendKeeps ==
    ASSUME IInv, NEW r \in Requests, WriteSend(r)
    PROVE  IInv'
<1>. DEFINE c == req[r].c
            W == {<<c, req[r].s>>}
<1>1. /\ cold' \subseteq cold \cup W /\ parked' \subseteq parked \cup W
      /\ raced' = raced \cup AstrayRace(c, W)
    BY DEF WriteSend
<1>2. /\ LifecycleTypeOK /\ Checked(r, {"send"})
      /\ UNCHANGED <<status, pool, sending, batch, decided, issued>>
    BY DEF WriteSend, IInv
<1>3. /\ r \in InFlight /\ req[r].op = "send" /\ c \in Campaigns /\ status[c] # "gone"
      /\ req' \in [Requests -> Request \cup {Idle}] /\ NamesSender' /\ Tracked'
    BY <1>1, <1>2, Writing
<1>4. \A q \in InFlight' : q \in InFlight /\ req'[q] = req[q] /\ req[q].c \in Campaigns
    BY <1>1, <1>2, Writing DEF Request
<1>5. W \in SUBSET ({c} \X Senders)
  <2>1. req[r].s \in Senders
    BY <1>3 DEF IInv, NamesSender, SenderOp
  <2>. QED BY <2>1
<1>6. cold' \cup sending' \subseteq cold \cup sending \cup W
    BY <1>1, <1>2
<1>. HIDE DEF c, W
<1>. QED BY <1>1, <1>2, <1>3, <1>4, <1>5, <1>6, AddedKeeps

-----------------------------------------------------------------------------
(* Steps of the workers.                                                    *)

\* A step that leaves the requests alone keeps what relates them.
LEMMA RequestsStay ==
    ASSUME IInv, UNCHANGED <<req, pool>>, raced \subseteq raced',
           \A c \in Campaigns : /\ status'[c] = "running" => status[c] = "running"
                                /\ status'[c] = "done" => status[c] = "done"
    PROVE  NamesSender' /\ LockStands' /\ ReviveStands' /\ DeleteStands' /\ LastSenderStands'
<1>1. InFlight' = InFlight /\ LifecycleTypeOK
    BY DEF InFlight, IInv
<1>2. \A q \in InFlight : req[q].c \in Campaigns
    BY <1>1, InFlightIsRequest DEF Request
<1>3. NamesSender' /\ ReviveStands' /\ DeleteStands'
    BY <1>1, <1>2 DEF IInv, NamesSender, ReviveStands, DeleteStands
<1>4. LastSenderStands'
    BY <1>1, <1>2 DEF IInv, LastSenderStands
<1>5. SendersAreLocked => SendersAreLocked'
    BY DEF SendersAreLocked
<1>6. LockStands'
    BY <1>1, <1>2, <1>5 DEF IInv, LockStands, LockFree
<1>. QED BY <1>3, <1>4, <1>6

\* Openers are written only for senders of the pool, and a detach then in
\* flight is known to raced.
LEMMA WritesKeeps ==
    ASSUME IInv, NEW c \in Campaigns, NEW t \in Senders, status[c] # "gone", Writes(c, t)
    PROVE  IInv'
<1>0. /\ LifecycleTypeOK /\ InFlight' = InFlight /\ t \in pool[c]
      /\ batch' = batch \cup {<<c, t>>} /\ raced' = raced \cup StrandRace(c)
      /\ UNCHANGED <<status, pool, cold, sending, parked, decided, req, issued>>
    BY DEF Writes, IInv, InFlight
<1>1. NamesSender' /\ LockStands' /\ ReviveStands' /\ DeleteStands' /\ LastSenderStands'
    BY <1>0, RequestsStay
<1>2. LifecycleTypeOK'
    BY <1>0 DEF LifecycleTypeOK, StrandRace
<1>3. Tracked'
    BY <1>0 DEF IInv, Tracked, On, StrandRace
<1>4. StrandStands'
    BY <1>0 DEF IInv, StrandStands, OpenersOnPool
<1>. QED BY <1>1, <1>2, <1>3, <1>4 DEF IInv

\* Committed rows belong to no campaign a detach was checked on.
LEMMA CommitBatchKeeps ==
    ASSUME IInv, CommitBatch
    PROVE  IInv'
<1>0. /\ LifecycleTypeOK /\ InFlight' = InFlight
      /\ cold' \subseteq cold \cup batch /\ batch' = {}
      /\ UNCHANGED <<status, pool, sending, parked, decided, req, issued, raced>>
    BY DEF CommitBatch, IInv, InFlight
<1>1. NamesSender' /\ LockStands' /\ ReviveStands' /\ DeleteStands' /\ LastSenderStands'
    BY <1>0, RequestsStay
<1>2. LifecycleTypeOK' /\ Tracked'
    BY <1>0 DEF LifecycleTypeOK, IInv, Tracked, On
<1>3. StrandStands'
  <2>1. ASSUME "strand" \notin raced, NEW q \in InFlight, req[q].op = "detach"
        PROVE  <<req[q].c, req[q].s>> \notin batch
    <3>1. req[q].c \in Campaigns
        BY <1>0, InFlightIsRequest DEF Request
    <3>. QED BY <2>1, <3>1 DEF IInv, Tracked, On
  <2>. QED BY <1>0, <2>1 DEF IInv, StrandStands, OpenersOnPool
<1>. QED BY <1>1, <1>2, <1>3 DEF IInv

\* The queue worker only passes openers between pending and processing, and some
\* are parked.
LEMMA DrainKeeps ==
    ASSUME IInv, NEW c \in Campaigns, NEW s \in Senders,
           Claim(c, s) \/ Settle(c, s) \/ Park(c, s)
    PROVE  IInv'
<1>0. /\ LifecycleTypeOK /\ InFlight' = InFlight
      /\ cold' \cup sending' \subseteq cold \cup sending
      /\ parked' \subseteq parked \cup cold \cup sending
      /\ UNCHANGED <<status, pool, batch, decided, req, issued, raced>>
    BY DEF Claim, Settle, Park, IInv, InFlight
<1>1. NamesSender' /\ LockStands' /\ ReviveStands' /\ DeleteStands' /\ LastSenderStands'
    BY <1>0, RequestsStay
<1>2. LifecycleTypeOK' /\ Tracked'
    BY <1>0 DEF LifecycleTypeOK, IInv, Tracked, On
<1>3. StrandStands'
    BY <1>0 DEF IInv, StrandStands, OpenersOnPool
<1>. QED BY <1>1, <1>2, <1>3 DEF IInv

\* A deleted conversation gives its opener back to whoever has it.
LEMMA ForgetKeeps ==
    ASSUME IInv, NEW c \in Campaigns, NEW s \in Senders, Forget(c, s)
    PROVE  IInv'
<1>. DEFINE W == {<<c, s>>}
<1>1. /\ LifecycleTypeOK /\ InFlight' = InFlight /\ <<c, s>> \in parked
      /\ cold' \cup sending' \subseteq cold \cup sending \cup W
      /\ parked' \subseteq parked \cup W /\ raced' = raced \cup AstrayRace(c, W)
      /\ UNCHANGED <<status, pool, batch, decided, req, issued>>
    BY DEF Forget, IInv, InFlight
<1>2. status[c] # "gone" /\ W \in SUBSET ({c} \X Senders)
    BY <1>1 DEF LifecycleTypeOK
<1>3. req' \in [Requests -> Request \cup {Idle}]
    BY <1>1 DEF LifecycleTypeOK
<1>4. \A q \in InFlight' : q \in InFlight /\ req'[q] = req[q] /\ req[q].c \in Campaigns
    BY <1>1, InFlightIsRequest DEF Request
<1>5. NamesSender'
    BY <1>1 DEF IInv, NamesSender
<1>6. Tracked'
    BY <1>1 DEF IInv, Tracked, On
<1>. HIDE DEF W
<1>. QED BY <1>1, <1>2, <1>3, <1>4, <1>5, <1>6, AddedKeeps

\* Fewer running campaigns: Decide, Autopause, Expire.
LEMMA QuietStepKeeps ==
    ASSUME IInv, UNCHANGED <<pool, cold, sending, parked, batch, req, issued, raced>>,
           decided' \in Campaigns \cup {NoCampaign},
           status' \in [Campaigns -> {"draft", "running", "paused", "done", "gone"}],
           \A c \in Campaigns : \/ status'[c] = status[c]
                                \/ status[c] = "running" /\ status'[c] = "paused"
    PROVE  IInv'
<1>0. LifecycleTypeOK /\ InFlight' = InFlight
    BY DEF IInv, InFlight
<1>1. NamesSender' /\ LockStands' /\ ReviveStands' /\ DeleteStands' /\ LastSenderStands'
    BY RequestsStay
<1>2. LifecycleTypeOK'
    BY <1>0 DEF LifecycleTypeOK
<1>3. Tracked' /\ StrandStands'
    BY <1>0 DEF IInv, Tracked, On, StrandStands, OpenersOnPool
<1>. QED BY <1>1, <1>2, <1>3 DEF IInv

\* Every step of a worker.
LEMMA WorkerKeeps ==
    ASSUME IInv, WorkerStep
    PROVE  IInv'
<1>0. LifecycleTypeOK
    BY DEF IInv
<1>1. ASSUME NEW c \in Campaigns, NEW s \in Senders,
             Stage(c, s) \/ Claim(c, s) \/ Settle(c, s) \/ Park(c, s) \/ Forget(c, s)
      PROVE  IInv'
    BY <1>1, WritesKeeps, DrainKeeps, ForgetKeeps DEF Stage
<1>2. ASSUME NEW c \in Campaigns, NEW s \in Senders, NEW t \in Senders, Move(c, s, t)
      PROVE  IInv'
  <2>1. status[c] # "gone"
    BY <1>0, <1>2 DEF Move, LifecycleTypeOK
  <2>. QED BY <1>2, <2>1, WritesKeeps DEF Move
<1>3. ASSUME NEW c \in Campaigns, Decide(c)
      PROVE  IInv'
    BY <1>0, <1>3, QuietStepKeeps DEF Decide, LifecycleTypeOK
<1>4. ASSUME NEW c \in Campaigns, Expire(c)
      PROVE  IInv'
    BY <1>0, <1>4, QuietStepKeeps DEF Expire, LifecycleTypeOK
<1>5. ASSUME Autopause
      PROVE  IInv'
    BY <1>0, <1>5, QuietStepKeeps DEF Autopause, LifecycleTypeOK
<1>. QED BY <1>1, <1>2, <1>3, <1>4, <1>5, CommitBatchKeeps DEF WorkerStep

-----------------------------------------------------------------------------
(* The theorems.                                                            *)

\* Drafts, no requests: nothing has raced.
LEMMA InitIInv == Init => IInv
<1>. SUFFICES ASSUME Init PROVE IInv
    OBVIOUS
<1>1. InFlight = {}
    BY DEF Init, InFlight
<1>2. LifecycleTypeOK
    BY BoundAssumption DEF Init, LifecycleTypeOK
<1>3. SendersAreLocked /\ OpenersOnPool
    BY DEF Init, SendersAreLocked, OpenersOnPool
<1>. QED BY <1>1, <1>2, <1>3
         DEF Init, IInv, NamesSender, Tracked, On, LockStands, ReviveStands, DeleteStands,
             LastSenderStands, StrandStands

\* Every step of the system keeps the invariant.
LEMMA NextIInv == IInv /\ [Next]_vars => IInv'
<1>. SUFFICES ASSUME IInv, [Next]_vars PROVE IInv'
    OBVIOUS
<1>1. CASE WorkerStep
    BY <1>1, WorkerKeeps
<1>2. ASSUME NEW r \in Requests, RequestStep(r)
      PROVE  IInv'
  <2>1. ASSUME NEW c \in Campaigns, NEW op \in SenderOp, NEW s \in Senders, Load(r, op, c, s)
        PROVE  IInv'
    BY <2>1, LoadKeeps DEF Op, SenderOp, Unchecked
  <2>2. ASSUME NEW c \in Campaigns, NEW op \in Op \ SenderOp, Load(r, op, c, NoSender)
        PROVE  IInv'
    BY <2>2, LoadKeeps
  <2>. QED BY <1>2, <2>1, <2>2, CheckKeeps, RefuseKeeps, WriteStatusKeeps, WriteFinishKeeps,
              WriteDeleteKeeps, WriteAttachKeeps, WriteDetachKeeps, WriteRequeueKeeps,
              WriteSendKeeps DEF RequestStep
<1>3. CASE UNCHANGED vars
  <2>. USE <1>3 DEF vars, InFlight, On
  <2>1. LifecycleTypeOK' /\ NamesSender' /\ Tracked'
    BY DEF IInv, LifecycleTypeOK, NamesSender, Tracked
  <2>2. LockStands'
    BY DEF IInv, LockStands, SendersAreLocked, LockFree
  <2>3. ReviveStands' /\ DeleteStands' /\ LastSenderStands'
    BY DEF IInv, ReviveStands, DeleteStands, LastSenderStands
  <2>4. StrandStands'
    BY DEF IInv, StrandStands, OpenersOnPool
  <2>. QED BY <2>1, <2>2, <2>3, <2>4 DEF IInv
<1>. QED BY <1>1, <1>2, <1>3 DEF Next

\* The strengthened invariant holds for any number of campaigns and requests.
THEOREM LifecycleInvariant == Spec => []IInv
BY InitIInv, NextIInv, PTL DEF Spec

\* The tables keep their shape, and a deleted campaign leaves no row behind.
THEOREM LifecycleTypeCorrect == Spec => []LifecycleTypeOK
<1>1. IInv => LifecycleTypeOK
    BY DEF IInv
<1>. QED BY <1>1, LifecycleInvariant, PTL

\* Running campaigns share no sender unless start, resume or attach overlapped.
THEOREM LockHolds == Spec => []LockUnlessRaced
<1>1. IInv => LockUnlessRaced
    BY DEF IInv, LockStands, LockUnlessRaced
<1>. QED BY <1>1, LifecycleInvariant, PTL

\* Openers wait only on attached senders unless a detach overlapped their insert.
THEOREM OpenersStayOnPool == Spec => []OpenersOnPool
<1>1. IInv => OpenersOnPool
    BY DEF IInv, StrandStands, OpenersOnPool
<1>. QED BY <1>1, LifecycleInvariant, PTL

\* What one step does to the status of a campaign.
LEMMA StatusSteps ==
    ASSUME IInv, Next, NEW c \in Campaigns, status'[c] # status[c]
    PROVE  \/ status[c] = "running" /\ status'[c] = "paused"
           \/ status'[c] = "done"
           \/ \E r \in InFlight :
                /\ req[r].c = c
                /\ \/ req[r].op \in Starting \cup {"pause"} /\ status'[c] # "gone"
                   \/ req[r].op = "delete" /\ status'[c] = "gone"
<1>0. LifecycleTypeOK
    BY DEF IInv
<1>1. CASE WorkerStep
  <2>1. CASE Autopause
    BY <1>0, <2>1 DEF Autopause, LifecycleTypeOK
  <2>2. ASSUME NEW d \in Campaigns, Expire(d)
        PROVE  status[c] = "running" /\ status'[c] = "paused"
    BY <1>0, <2>2 DEF Expire, LifecycleTypeOK
  <2>3. ~Autopause /\ (\A d \in Campaigns : ~Expire(d)) => UNCHANGED status
    BY <1>1 DEF WorkerStep, Stage, CommitBatch, Move, Writes, Claim, Settle, Park, Forget,
                Decide
  <2>. QED BY <2>1, <2>2, <2>3
<1>2. ASSUME NEW r \in Requests, RequestStep(r)
      PROVE  \/ status'[c] = "done"
             \/ /\ r \in InFlight /\ req[r].c = c
                /\ \/ req[r].op \in Starting \cup {"pause"} /\ status'[c] # "gone"
                   \/ req[r].op = "delete" /\ status'[c] = "gone"
  <2>1. CASE WriteStatus(r)
    BY <1>0, <2>1 DEF WriteStatus, Checked, LifecycleTypeOK, InFlight
  <2>2. CASE WriteFinish(r)
    BY <1>0, <2>2 DEF WriteFinish, LifecycleTypeOK
  <2>3. CASE WriteDelete(r)
    BY <1>0, <2>3 DEF WriteDelete, Checked, LifecycleTypeOK, InFlight
  <2>4. ~WriteStatus(r) /\ ~WriteFinish(r) /\ ~WriteDelete(r) => UNCHANGED status
    BY <1>2 DEF RequestStep, Load, Check, Refuse, WriteAttach, WriteDetach,
                WriteRequeue, WriteSend
  <2>. QED BY <2>1, <2>2, <2>3, <2>4
<1>. QED BY <1>1, <1>2 DEF Next

\* A finished campaign is revived only by a request its finish overlapped.
THEOREM DoneStaysDone == Spec => DoneUnlessRaced
<1>1. ASSUME IInv, [Next]_vars, NEW c \in Campaigns,
             status[c] = "done", "revive" \notin raced
      PROVE  status'[c] \in {"done", "gone"}
  <2>1. CASE Next
    BY <1>1, <2>1, StatusSteps DEF IInv, ReviveStands
  <2>2. CASE UNCHANGED vars
    BY <1>1, <2>2 DEF vars
  <2>. QED BY <1>1, <2>1, <2>2
<1>2. IInv /\ [Next]_vars =>
        [\A c \in Campaigns :
            status[c] = "done" /\ "revive" \notin raced => status'[c] \in {"done", "gone"}]_vars
    BY <1>1
<1>. QED BY <1>2, LifecycleInvariant, PTL DEF Spec, DoneUnlessRaced

\* A running campaign is deleted only by a delete that overlapped its start.
THEOREM RunningStays == Spec => RunningNotDeleted
<1>1. ASSUME IInv, [Next]_vars, NEW c \in Campaigns,
             status[c] = "running", "delete" \notin raced
      PROVE  status'[c] # "gone"
  <2>1. CASE Next
    BY <1>1, <2>1, StatusSteps DEF IInv, DeleteStands
  <2>2. CASE UNCHANGED vars
    BY <1>1, <2>2 DEF vars
  <2>. QED BY <1>1, <2>1, <2>2
<1>2. IInv /\ [Next]_vars =>
        [\A c \in Campaigns :
            status[c] = "running" /\ "delete" \notin raced => status'[c] # "gone"]_vars
    BY <1>1
<1>. QED BY <1>2, LifecycleInvariant, PTL DEF Spec, RunningNotDeleted

\* Only a delete and a detach that saw another sender take from a running pool.
LEMMA PoolSteps ==
    ASSUME IInv, Next, NEW c \in Campaigns, pool'[c] = {}, pool[c] # {}
    PROVE  \/ status'[c] = "gone"
           \/ \E r \in InFlight :
                /\ req[r].c = c /\ req[r].op = "detach" /\ req[r].pc = "checked"
                /\ pool'[c] = pool[c] \ {req[r].s}
<1>0. LifecycleTypeOK
    BY DEF IInv
<1>1. CASE WorkerStep
    BY <1>1 DEF WorkerStep, Stage, CommitBatch, Move, Writes, Claim, Settle, Park, Forget, Decide, Expire, Autopause
<1>2. ASSUME NEW r \in Requests, RequestStep(r)
      PROVE  \/ status'[c] = "gone"
             \/ /\ r \in InFlight /\ req[r].c = c
                /\ req[r].op = "detach" /\ req[r].pc = "checked"
                /\ pool'[c] = pool[c] \ {req[r].s}
  <2>1. CASE WriteDelete(r)
    BY <1>0, <2>1 DEF WriteDelete, LifecycleTypeOK
  <2>2. CASE WriteAttach(r)
    BY <1>0, <2>2 DEF WriteAttach, LifecycleTypeOK
  <2>3. CASE WriteDetach(r)
    BY <1>0, <2>3 DEF WriteDetach, Checked, LifecycleTypeOK, InFlight
  <2>4. ~WriteDelete(r) /\ ~WriteAttach(r) /\ ~WriteDetach(r) => UNCHANGED pool
    BY <1>2 DEF RequestStep, Load, Check, Refuse, WriteStatus, WriteFinish,
                WriteRequeue, WriteSend
  <2>. QED BY <2>1, <2>2, <2>3, <2>4
<1>. QED BY <1>1, <1>2 DEF Next

\* A running campaign loses its last sender only to overlapping requests.
THEOREM LastSenderStays == Spec => KeepsLastSender
<1>1. ASSUME IInv, [Next]_vars, NEW c \in Campaigns,
             status[c] = "running", pool[c] # {}, "lastsender" \notin raced
      PROVE  pool'[c] # {} \/ status'[c] = "gone"
  <2>1. CASE Next
    BY <1>1, <2>1, PoolSteps DEF IInv, LastSenderStands
  <2>2. CASE UNCHANGED vars
    BY <1>1, <2>2 DEF vars
  <2>. QED BY <1>1, <2>1, <2>2
<1>2. IInv /\ [Next]_vars =>
        [\A c \in Campaigns :
            status[c] = "running" /\ pool[c] # {} /\ "lastsender" \notin raced
                => pool'[c] # {} \/ status'[c] = "gone"]_vars
    BY <1>1
<1>. QED BY <1>2, LifecycleInvariant, PTL DEF Spec, KeepsLastSender
=============================================================================
