---------------------------- MODULE WarmupProofs ----------------------------
(***************************************************************************)
(* Proofs about Warmup, for any pool, number of sessions and length of a   *)
(* chat: an account taken out of the pool is left alone unless the worker  *)
(* held its session, and the two of a session write in turns, with as many *)
(* messages on record as were delivered.                                   *)
(***************************************************************************)
EXTENDS Warmup, FiniteSetTheorems, SequenceTheorems, TLAPS

LEMMA SetToSeqIs ==
    ASSUME NEW S, IsFiniteSet(S)
    PROVE  SetToSeq(S) \in [1..Cardinality(S) -> S] /\ Cardinality(S) \in Nat
<1>1. Cardinality(S) \in Nat /\ ExistsBijection(1..Cardinality(S), S)
    BY FS_CardinalityType
<1>2. \E f \in [1..Cardinality(S) -> S] : IsInjective(f)
    BY <1>1 DEF ExistsBijection, Bijection, Injection
<1>. QED BY <1>1, <1>2 DEF SetToSeq

-----------------------------------------------------------------------------
(* The inductive invariant.                                                 *)

Person == Members \cup {NobodyYet}
SessionRow == [st : {"none", "active", "completed"}, a : Person, b : Person,
               sent : 0..TargetMessages, last : Person, due : BOOLEAN]
TickRow == [pc : {"idle", "pick", "compose", "send", "open"}, todo : SUBSET SessionIds,
            s : 0..MaxSessions, prev : Person, pairs : SUBSET (SUBSET Members)]

WarmTypes ==
    /\ enabled \in BOOLEAN /\ warmPool \in [Members -> {"out", "on", "off"}]
    /\ fit \subseteq Members /\ young \subseteq Members /\ known \subseteq SUBSET Members
    /\ session \in [SessionIds -> SessionRow]
    /\ written \in [SessionIds -> Seq(Members)] /\ told \in [SessionIds -> Nat]
    /\ tick \in TickRow
    /\ warmOps \in 0..MaxWarmOps /\ warmFaults \in 0..MaxWarmFaults
    /\ unsure \subseteq SessionIds /\ revived \subseteq SessionIds

\* Rows fill up from the first one.
Numbered == \E n \in 0..MaxSessions : \A s \in SessionIds : session[s].st # "none" <=> s <= n

\* A row is empty or joins two members.
Paired(s) ==
    IF session[s].st = "none"
    THEN session[s] = NoSession /\ written[s] = <<>> /\ told[s] = 0
    ELSE session[s].a \in Members /\ session[s].b \in Members /\ session[s].a # session[s].b

Turns(s) ==
    /\ session[s].sent = Len(written[s])
    /\ \A i \in 1..Len(written[s]) : written[s][i] = IF i % 2 = 1 THEN session[s].a ELSE session[s].b
    /\ session[s].last = IF Len(written[s]) = 0 THEN NobodyYet ELSE written[s][Len(written[s])]

Delivered(s) ==
    s \notin unsure => Len(written[s]) = told[s] + IF tick.pc = "send" /\ tick.s = s THEN 1 ELSE 0

\* The session at hand exists and has a message to go; while its message is on the way,
\* the worker remembers who wrote before.
AtWork ==
    /\ tick.pc \in {"compose", "send"} =>
            tick.s \in SessionIds \ tick.todo /\ session[tick.s].st # "none"
    /\ \A s \in tick.todo : session[s].st # "none" /\ session[s].sent < TargetMessages
    /\ tick.pc = "compose" => session[tick.s].sent < TargetMessages
    /\ tick.pc = "send" =>
            LET n == Len(written[tick.s]) IN
            n >= 1 /\ tick.prev = IF n = 1 THEN NobodyYet ELSE written[tick.s][n - 1]
    /\ \A s \in Active : session[s].sent < TargetMessages
    /\ \A p \in tick.pairs : Cardinality(p) = 2

WarmIInv ==
    /\ WarmTypes /\ Numbered /\ AtWork /\ RemovedIsLeftAlone
    /\ \A s \in SessionIds : Paired(s) /\ Turns(s) /\ Delivered(s)

LEMMA WarmConstants ==
    /\ MaxSessions \in Nat /\ TargetMessages \in Nat /\ TargetMessages > 0
    /\ 0 \in 0..MaxSessions /\ 0 \in 0..TargetMessages /\ 0 \in 0..MaxWarmOps /\ 0 \in 0..MaxWarmFaults
BY WarmCounts

LEMMA RowConstants == NoSession \in SessionRow /\ AtRest \in TickRow
BY WarmConstants DEF NoSession, AtRest, SessionRow, TickRow, Person

LEMMA WarmInitIInv == InitWarmup => WarmIInv
<1>. SUFFICES ASSUME InitWarmup PROVE WarmIInv
    OBVIOUS
<1>1. \A s \in SessionIds : session[s] = NoSession /\ written[s] = <<>> /\ told[s] = 0
    BY DEF InitWarmup
<1>2. WarmTypes
  <2>1. /\ warmPool \in [Members -> {"out", "on", "off"}] /\ session \in [SessionIds -> SessionRow]
        /\ written \in [SessionIds -> Seq(Members)] /\ told \in [SessionIds -> Nat]
      BY RowConstants DEF InitWarmup
  <2>2. tick \in TickRow
      BY RowConstants DEF InitWarmup
  <2>3. warmOps \in 0..MaxWarmOps /\ warmFaults \in 0..MaxWarmFaults
      BY WarmConstants DEF InitWarmup
  <2>. QED BY <2>1, <2>2, <2>3 DEF InitWarmup, WarmTypes
<1>3. Numbered
  <2>1. \A s \in SessionIds : session[s].st = "none" /\ ~(s <= 0)
      BY <1>1, WarmConstants DEF NoSession, SessionIds
  <2>. QED BY <2>1, WarmConstants DEF Numbered
<1>4. Active = {} /\ tick.pc = "idle" /\ tick.todo = {} /\ tick.pairs = {}
    BY <1>1 DEF Active, NoSession, InitWarmup, AtRest
<1>5. AtWork /\ RemovedIsLeftAlone
    BY <1>4 DEF AtWork, RemovedIsLeftAlone
<1>6. \A s \in SessionIds : Paired(s) /\ Turns(s) /\ Delivered(s)
  <2>. SUFFICES ASSUME NEW s \in SessionIds PROVE Paired(s) /\ Turns(s) /\ Delivered(s)
      OBVIOUS
  <2>1. Len(written[s]) = 0 /\ session[s].st = "none" /\ session[s].sent = 0
        /\ session[s].last = NobodyYet
      BY <1>1 DEF NoSession
  <2>2. Turns(s)
      BY <2>1 DEF Turns
  <2>3. Paired(s) /\ Delivered(s)
      BY <1>1, <1>4, <2>1 DEF Paired, Delivered
  <2>. QED BY <2>2, <2>3
<1>. QED BY <1>2, <1>3, <1>5, <1>6 DEF WarmIInv

-----------------------------------------------------------------------------
(* Steps that write no message.                                             *)

\* The counters.
LEMMA SupplyKeeps ==
    ASSUME WarmTypes
    PROVE  (WarmAsked => warmOps' \in 0..MaxWarmOps) /\ (WarmFault(1) => warmFaults' \in 0..MaxWarmFaults)
<1>1. warmOps \in 0..MaxWarmOps /\ MaxWarmOps \in Nat /\ warmFaults \in 0..MaxWarmFaults /\ MaxWarmFaults \in Nat
    BY WarmCounts DEF WarmTypes
<1>2. ASSUME WarmAsked PROVE warmOps' \in 0..MaxWarmOps
    BY <1>1, <1>2 DEF WarmAsked
<1>3. ASSUME WarmFault(1) PROVE warmFaults' \in 0..MaxWarmFaults
    BY <1>1, <1>3 DEF WarmFault
<1>. QED BY <1>2, <1>3

\* A step that at most completes sessions or moves their due dates.
Softly ==
    /\ session' \in [SessionIds -> SessionRow]
    /\ \A s \in SessionIds :
          /\ session'[s].a = session[s].a /\ session'[s].b = session[s].b
          /\ session'[s].sent = session[s].sent /\ session'[s].last = session[s].last
          /\ session'[s].st = "none" <=> session[s].st = "none"
          /\ session'[s].st = "active" => session[s].st = "active"
          /\ session[s].st = "none" => session'[s] = session[s]
    /\ UNCHANGED written

LEMMA SoftlyKeeps ==
    ASSUME WarmIInv, Softly
    PROVE  /\ Numbered'
           /\ \A s \in SessionIds : Turns(s)' /\ (told'[s] = told[s] => Paired(s)')
           /\ \A s \in Active' : s \in Active /\ session'[s].sent < TargetMessages
                                 /\ {session[s].a, session[s].b} = Of(s)'
           /\ tick' = tick => AtWork'
           /\ tick' = tick /\ UNCHANGED <<told, unsure>> => \A s \in SessionIds : Delivered(s)'
<1>1. Numbered'
    BY DEF WarmIInv, Softly, Numbered
<1>2. \A s \in SessionIds : Turns(s)' /\ (told'[s] = told[s] => Paired(s)')
    BY DEF WarmIInv, Softly, Turns, Paired
<1>3. \A s \in Active' : s \in Active /\ session'[s].sent < TargetMessages
                        /\ {session[s].a, session[s].b} = Of(s)'
    BY DEF WarmIInv, Softly, Active, AtWork, Of
<1>4. ASSUME tick' = tick PROVE AtWork'
    BY <1>3, <1>4 DEF WarmIInv, Softly, AtWork, WarmTypes, TickRow
<1>5. ASSUME tick' = tick, UNCHANGED <<told, unsure>> PROVE \A s \in SessionIds : Delivered(s)'
    BY <1>5 DEF WarmIInv, Softly, Delivered
<1>. QED BY <1>1, <1>2, <1>3, <1>4, <1>5

\* Nothing at all.
LEMMA SameIsSoft == ASSUME WarmIInv, UNCHANGED <<session, written>> PROVE Softly
BY DEF WarmIInv, WarmTypes, Softly

\* The due date of one session moves.
LEMMA DueIsSoft ==
    ASSUME WarmIInv, NEW s \in SessionIds, session[s].st # "none", NEW d \in BOOLEAN,
           session' = [session EXCEPT ![s].due = d], UNCHANGED written
    PROVE  Softly
<1>. DEFINE x == [session[s] EXCEPT !.due = d]
<1>1. session \in [SessionIds -> SessionRow] /\ session[s] \in SessionRow
    BY DEF WarmIInv, WarmTypes
<1>2. /\ x \in SessionRow /\ x.a = session[s].a /\ x.b = session[s].b
      /\ x.sent = session[s].sent /\ x.last = session[s].last /\ x.st = session[s].st
    BY <1>1 DEF SessionRow
<1>3. session' = [session EXCEPT ![s] = x]
    OBVIOUS
<1>. HIDE DEF x
<1>4. session' \in [SessionIds -> SessionRow] /\ session'[s] = x
      /\ \A r \in SessionIds \ {s} : session'[r] = session[r]
    BY <1>1, <1>2, <1>3
<1>. QED BY <1>2, <1>4 DEF Softly

LEMMA ManagerKeepsWarm ==
    ASSUME WarmIInv,
           \/ \E m \in Members : AddToPool(m) \/ RemoveFromPool(m) \/ ToggleMember(m) \/ Ages(m)
                                \/ FitnessChanges(m)
           \/ UpdateSettings \/ \E s \in SessionIds : Due(s)
    PROVE  WarmIInv'
<1>0. WarmTypes /\ UNCHANGED <<tick, told, unsure, revived, written, known>>
    BY DEF WarmIInv, AddToPool, RemoveFromPool, ToggleMember, Ages, FitnessChanges, UpdateSettings, Due
<1>1. ASSUME Softly, UNCHANGED enabled \/ enabled' \in BOOLEAN,
             warmPool' \in [Members -> {"out", "on", "off"}], fit' \subseteq Members,
             young' \subseteq Members, warmOps' \in 0..MaxWarmOps, warmFaults' \in 0..MaxWarmFaults,
             RemovedIsLeftAlone'
      PROVE  WarmIInv'
  <2>1. WarmTypes'
      BY <1>0, <1>1 DEF WarmTypes, Softly
  <2>. QED BY <1>0, <1>1, <2>1, SoftlyKeeps DEF WarmIInv
<1>2. ASSUME UNCHANGED session PROVE Softly
    BY <1>0, <1>2, SameIsSoft
<1>3. ASSUME NEW m \in Members, AddToPool(m) PROVE WarmIInv'
  <2>1. warmPool' \in [Members -> {"out", "on", "off"}]
        /\ \A k \in Members : warmPool'[k] = "out" => warmPool[k] = "out"
      BY <1>0, <1>3 DEF AddToPool, WarmTypes
  <2>2. RemovedIsLeftAlone'
    <3>1. \A s \in Active : Of(s) \subseteq Members
        BY DEF WarmIInv, Active, Paired, Of
    <3>. QED BY <1>3, <2>1, <3>1 DEF WarmIInv, AddToPool, RemovedIsLeftAlone, Active, Of
  <2>. QED BY <1>0, <1>1, <1>2, <1>3, <2>1, <2>2, SupplyKeeps DEF AddToPool, WarmTypes
<1>4. ASSUME NEW m \in Members, ToggleMember(m) PROVE WarmIInv'
  <2>1. warmPool' \in [Members -> {"out", "on", "off"}]
        /\ \A k \in Members : warmPool'[k] = "out" => warmPool[k] = "out"
      BY <1>0, <1>4 DEF ToggleMember, WarmTypes
  <2>2. RemovedIsLeftAlone'
    <3>1. \A s \in Active : Of(s) \subseteq Members
        BY DEF WarmIInv, Active, Paired, Of
    <3>. QED BY <1>4, <2>1, <3>1 DEF WarmIInv, ToggleMember, RemovedIsLeftAlone, Active, Of
  <2>. QED BY <1>0, <1>1, <1>2, <1>4, <2>1, <2>2, SupplyKeeps DEF ToggleMember, WarmTypes
<1>5. ASSUME NEW m \in Members, RemoveFromPool(m) PROVE WarmIInv'
  <2>0. session \in [SessionIds -> SessionRow]
      BY <1>0 DEF WarmTypes
  <2>1. /\ session' = [s \in SessionIds |->
                         IF s \in Active /\ m \in Of(s) THEN [session[s] EXCEPT !.st = "completed"]
                         ELSE session[s]]
        /\ warmPool' = [warmPool EXCEPT ![m] = "out"]
      BY <1>5 DEF RemoveFromPool, Complete
  <2>2. warmPool' \in [Members -> {"out", "on", "off"}]
        /\ \A k \in Members \ {m} : warmPool'[k] = warmPool[k]
      BY <1>0, <2>1 DEF WarmTypes
  <2>3. Softly
    <3>1. \A s \in SessionIds : [session[s] EXCEPT !.st = "completed"] \in SessionRow
        BY <2>0 DEF SessionRow
    <3>2. session' \in [SessionIds -> SessionRow]
        BY <2>0, <2>1, <3>1
    <3>3. \A s \in SessionIds :
            LET x == [session[s] EXCEPT !.st = "completed"] IN
            x.a = session[s].a /\ x.b = session[s].b /\ x.sent = session[s].sent /\ x.last = session[s].last
            /\ x.st = "completed"
        BY <2>0 DEF SessionRow
    <3>. QED BY <1>0, <2>1, <3>2, <3>3 DEF Softly, Active
  <2>4. RemovedIsLeftAlone'
    <3>. SUFFICES ASSUME NEW s \in Active', NEW k \in Of(s)', warmPool'[k] = "out" PROVE s \in revived
        BY <1>0 DEF RemovedIsLeftAlone
    <3>1. s \in Active /\ k \in Of(s) /\ k # m
      <4>1. s \in Active /\ k \in Of(s)
          BY <2>3, SoftlyKeeps DEF Of
      <4>2. session'[s].st = "active" /\ s \in SessionIds
          BY DEF Active
      <4>3. [session[s] EXCEPT !.st = "completed"].st = "completed"
          BY <2>0, <4>2 DEF SessionRow
      <4>4. m \notin Of(s)
          BY <2>1, <4>1, <4>2, <4>3
      <4>. QED BY <4>1, <4>4
    <3>2. k \in Members
        BY <3>1 DEF WarmIInv, Active, Paired, Of
    <3>. QED BY <2>2, <3>1, <3>2 DEF WarmIInv, RemovedIsLeftAlone
  <2>. QED BY <1>0, <1>1, <1>5, <2>2, <2>3, <2>4, SupplyKeeps DEF RemoveFromPool, WarmTypes
<1>6. ASSUME NEW m \in Members, Ages(m) \/ FitnessChanges(m) PROVE WarmIInv'
  <2>1. RemovedIsLeftAlone'
      BY <1>0, <1>6 DEF WarmIInv, Ages, FitnessChanges, RemovedIsLeftAlone, Active, Of
  <2>. QED BY <1>0, <1>1, <1>2, <1>6, <2>1, SupplyKeeps DEF Ages, FitnessChanges, WarmTypes
<1>7. ASSUME UpdateSettings PROVE WarmIInv'
  <2>1. RemovedIsLeftAlone'
      BY <1>0, <1>7 DEF WarmIInv, UpdateSettings, RemovedIsLeftAlone, Active, Of
  <2>2. enabled' \in BOOLEAN
      BY <1>7 DEF UpdateSettings
  <2>. QED BY <1>0, <1>1, <1>2, <1>7, <2>1, <2>2, SupplyKeeps DEF UpdateSettings, WarmTypes
<1>8. ASSUME NEW s \in SessionIds, Due(s) PROVE WarmIInv'
  <2>1. Softly
      BY <1>0, <1>8, DueIsSoft DEF Due, Active
  <2>2. RemovedIsLeftAlone'
      BY <1>0, <1>8, <2>1, SoftlyKeeps DEF WarmIInv, Due, RemovedIsLeftAlone, Of
  <2>. QED BY <1>0, <1>1, <1>8, <2>1, <2>2 DEF Due, WarmTypes
<1>. QED BY <1>3, <1>4, <1>5, <1>6, <1>7, <1>8

\* The worker between two messages.
LEMMA TickKeepsWarm ==
    ASSUME WarmIInv,
           StartTick \/ NoText \/ ReadPool \/ \E s \in SessionIds : Compose(s)
    PROVE  WarmIInv'
<1>0. WarmTypes /\ tick \in TickRow
      /\ UNCHANGED <<enabled, warmPool, fit, young, known, warmOps, warmFaults, told, unsure, revived, written>>
    BY DEF WarmIInv, WarmTypes, StartTick, NoText, ReadPool, Compose
<1>1. ASSUME Softly, tick' \in TickRow, AtWork', tick.pc # "send", tick'.pc # "send"
      PROVE  WarmIInv'
  <2>1. WarmTypes'
      BY <1>0, <1>1 DEF WarmTypes, Softly
  <2>2. RemovedIsLeftAlone'
      BY <1>0, <1>1, SoftlyKeeps DEF WarmIInv, RemovedIsLeftAlone, Of
  <2>3. \A s \in SessionIds : Delivered(s)'
      BY <1>0, <1>1 DEF WarmIInv, Delivered
  <2>. QED BY <1>0, <1>1, <2>1, <2>2, <2>3, SoftlyKeeps DEF WarmIInv
<1>2. ASSUME UNCHANGED session PROVE Softly
    BY <1>0, <1>2, SameIsSoft
<1>3. CASE StartTick
  <2>1. tick' \in TickRow /\ tick'.pc = "pick" /\ tick'.pairs = {}
        /\ tick'.todo = {s \in Active : session[s].due} /\ tick.pc = "idle"
      BY <1>3, RowConstants DEF StartTick, AtRest, TickRow, Active
  <2>2. AtWork'
      BY <1>3, <2>1 DEF WarmIInv, StartTick, AtWork, Active
  <2>. QED BY <1>1, <1>2, <1>3, <2>1, <2>2 DEF StartTick
<1>4. CASE NoText
  <2>1. tick' \in TickRow /\ tick'.pc = "pick" /\ tick'.pairs = tick.pairs /\ tick'.todo = tick.todo
        /\ tick.pc = "compose"
      BY <1>0, <1>4, WarmConstants DEF NoText, TickRow
  <2>2. AtWork'
      BY <1>4, <2>1 DEF WarmIInv, NoText, AtWork, Active
  <2>. QED BY <1>1, <1>2, <1>4, <2>1, <2>2 DEF NoText
<1>5. CASE ReadPool
  <2>. DEFINE new == {p \in FreePairs : p \subseteq {m \in fit : enabled /\ warmPool[m] = "on"}}
  <2>1. new \subseteq SUBSET Members /\ \A p \in new : Cardinality(p) = 2
      BY DEF FreePairs
  <2>2. tick' = [tick EXCEPT !.pc = "open", !.pairs = new] /\ tick.pc = "pick" /\ tick.todo = {}
      BY <1>5 DEF ReadPool
  <2>. HIDE DEF new
  <2>3. tick' \in TickRow /\ tick'.pc = "open" /\ tick'.pairs = new /\ tick'.todo = {}
      BY <1>0, <2>1, <2>2 DEF TickRow
  <2>4. AtWork'
      BY <1>5, <2>1, <2>3 DEF WarmIInv, ReadPool, AtWork, Active
  <2>. QED BY <1>1, <1>2, <1>5, <2>2, <2>3, <2>4 DEF ReadPool
<1>6. ASSUME NEW s \in SessionIds, Compose(s) PROVE WarmIInv'
  <2>0. session[s].st # "none" /\ session[s].sent < TargetMessages /\ tick.pc = "pick" /\ s \in tick.todo
      BY <1>6 DEF WarmIInv, AtWork, Compose
  <2>1. CASE tick' = [tick EXCEPT !.pc = "compose", !.todo = @ \ {s}, !.s = s] /\ UNCHANGED session
    <3>1. s \in 0..MaxSessions
        BY WarmConstants DEF SessionIds
    <3>2. tick' \in TickRow /\ tick'.pc = "compose" /\ tick'.s = s /\ tick'.todo = tick.todo \ {s}
          /\ tick'.pairs = tick.pairs
        BY <1>0, <2>1, <3>1 DEF TickRow
    <3>3. AtWork'
        BY <2>0, <2>1, <3>2 DEF WarmIInv, AtWork, Active
    <3>. QED BY <1>1, <1>2, <2>0, <2>1, <3>2, <3>3
  <2>2. CASE session' = [session EXCEPT ![s].due = FALSE] /\ tick' = [tick EXCEPT !.todo = @ \ {s}]
    <3>1. Softly
        BY <1>0, <2>0, <2>2, DueIsSoft
    <3>2. tick' \in TickRow /\ tick'.pc = "pick" /\ tick'.todo = tick.todo \ {s}
          /\ tick'.pairs = tick.pairs
        BY <1>0, <2>0, <2>2 DEF TickRow
    <3>3. \A r \in tick'.todo : session'[r].st # "none" /\ session'[r].sent < TargetMessages
        BY <1>0, <3>1, <3>2 DEF WarmIInv, AtWork, Softly, TickRow
    <3>4. AtWork'
        BY <3>1, <3>2, <3>3, SoftlyKeeps DEF WarmIInv, AtWork
    <3>. QED BY <1>1, <2>0, <3>1, <3>2, <3>4
  <2>. QED BY <1>6, <2>1, <2>2 DEF Compose
<1>. QED BY <1>3, <1>4, <1>5, <1>6

-----------------------------------------------------------------------------
(* A message.                                                               *)

LEMMA Parity == \A n \in Nat : (n + 1) % 2 = 1 <=> n % 2 # 1
OBVIOUS

\* Whose turn it is follows from how many messages there are.
LEMMA AuthorIs ==
    ASSUME WarmIInv, NEW s \in SessionIds, session[s].st # "none"
    PROVE  /\ Author(s) \in Members /\ Len(written[s]) \in Nat
           /\ Author(s) = IF (Len(written[s]) + 1) % 2 = 1 THEN session[s].a ELSE session[s].b
<1>. DEFINE n == Len(written[s])
<1>1. n \in Nat
    BY DEF WarmIInv, WarmTypes
<1>2. session[s].a \in Members /\ session[s].b \in Members /\ session[s].a # session[s].b /\ Turns(s)
    BY DEF WarmIInv, Paired
<1>3. CASE n = 0
  <2>1. (n + 1) % 2 = 1
      BY <1>3
  <2>2. session[s].last = NobodyYet
      BY <1>2, <1>3 DEF Turns
  <2>. QED BY <1>1, <1>2, <2>1, <2>2, NobodyIsNoMember DEF Author
<1>4. CASE n # 0
  <2>1. (n + 1) % 2 = 1 <=> n % 2 # 1
      BY <1>1, Parity
  <2>2. n \in 1..n
      BY <1>1, <1>4
  <2>3. session[s].last = IF n % 2 = 1 THEN session[s].a ELSE session[s].b
      BY <1>2, <1>4, <2>2 DEF Turns
  <2>. QED BY <1>1, <1>2, <2>1, <2>3 DEF Author
<1>. QED BY <1>3, <1>4

LEMMA RecordKeepsWarm ==
    ASSUME WarmIInv, RecordMessage, NEW s \in SessionIds, s = tick.s
    PROVE  WarmIInv'
<1>. DEFINE m == Author(s)
            n == session[s].sent + 1
            st == IF n >= TargetMessages THEN "completed" ELSE "active"
            x == [session[s] EXCEPT !.sent = n, !.last = m, !.due = FALSE, !.st = st]
            v == Append(written[s], m)
<1>0. /\ session \in [SessionIds -> SessionRow] /\ written \in [SessionIds -> Seq(Members)]
      /\ tick \in TickRow /\ tick.pc = "compose"
      /\ s \in SessionIds \ tick.todo /\ session[s].st # "none" /\ session[s].sent < TargetMessages
    BY DEF WarmIInv, WarmTypes, AtWork, RecordMessage
<1>1. /\ m \in Members /\ Len(written[s]) \in Nat /\ session[s].sent = Len(written[s])
      /\ m = IF (Len(written[s]) + 1) % 2 = 1 THEN session[s].a ELSE session[s].b
    BY <1>0, AuthorIs DEF WarmIInv, Turns
<1>2. n \in 0..TargetMessages /\ n = Len(written[s]) + 1 /\ (st = "active" => n < TargetMessages)
    BY <1>0, <1>1, WarmConstants
<1>3. /\ session' = [session EXCEPT ![s] = x] /\ written' = [written EXCEPT ![s] = v]
      /\ young' = young \cup {m} /\ tick' = [tick EXCEPT !.pc = "send", !.prev = session[s].last]
      /\ Revives(s) /\ UNCHANGED <<enabled, warmPool, fit, known, warmOps, warmFaults, told, unsure>>
    BY DEF RecordMessage
<1>4. v \in Seq(Members) /\ Len(v) = n /\ v[n] = m /\ \A i \in 1..Len(written[s]) : v[i] = written[s][i]
  <2>1. written[s] \in Seq(Members)
      BY <1>0
  <2>2. m \in Members
      BY <1>1
  <2>. HIDE DEF m, n
  <2>3. /\ v \in Seq(Members) /\ Len(v) = Len(written[s]) + 1 /\ v[Len(written[s]) + 1] = m
        /\ \A i \in 1..Len(written[s]) : v[i] = written[s][i]
      BY ONLY <2>1, <2>2, AppendProperties
  <2>. QED BY <1>2, <2>3
<1>. HIDE DEF n, v, m
<1>5. st \in {"active", "completed"} /\ m \in Person /\ session[s] \in SessionRow
    BY <1>0, <1>1 DEF Person
<1>. HIDE DEF st
<1>6. /\ x \in SessionRow /\ x.a = session[s].a /\ x.b = session[s].b /\ x.sent = n /\ x.last = m /\ x.st = st
    BY <1>2, <1>5 DEF SessionRow
<1>. HIDE DEF x
<1>7. /\ session' \in [SessionIds -> SessionRow] /\ session'[s] = x
      /\ written' \in [SessionIds -> Seq(Members)] /\ written'[s] = v
      /\ \A r \in SessionIds \ {s} : session'[r] = session[r] /\ written'[r] = written[r]
    BY <1>0, <1>3, <1>4, <1>6
<1>8. session[s].last \in Person
    BY <1>5 DEF SessionRow
<1>9. /\ tick' \in TickRow /\ tick'.pc = "send" /\ tick'.s = s /\ tick'.todo = tick.todo
      /\ tick'.pairs = tick.pairs /\ tick'.prev = session[s].last
    BY <1>0, <1>3, <1>8 DEF TickRow
<1>10. revived \subseteq revived' /\ revived' \subseteq SessionIds
       /\ \A k \in Of(s) : warmPool[k] = "out" => s \in revived'
    BY <1>0, <1>3 DEF Revives, WarmIInv, WarmTypes
<1>11. WarmTypes'
    BY <1>1, <1>3, <1>7, <1>9, <1>10 DEF WarmIInv, WarmTypes
<1>12. Numbered'
    BY <1>0, <1>5, <1>6, <1>7 DEF WarmIInv, Numbered
<1>13. \A r \in SessionIds : Paired(r)'
    BY <1>0, <1>3, <1>5, <1>6, <1>7 DEF WarmIInv, Paired
<1>14. \A r \in SessionIds : Turns(r)'
  <2>1. ASSUME NEW r \in SessionIds \ {s} PROVE Turns(r)'
      BY <1>7, <2>1 DEF WarmIInv, Turns
  <2>2. Turns(s)'
    <3>1. \A i \in 1..n : v[i] = IF i % 2 = 1 THEN session[s].a ELSE session[s].b
      <4>. SUFFICES ASSUME NEW i \in 1..n PROVE v[i] = IF i % 2 = 1 THEN session[s].a ELSE session[s].b
          OBVIOUS
      <4>1. CASE i = n
          BY <1>1, <1>2, <1>4, <4>1
      <4>2. CASE i # n
        <5>1. i \in 1..Len(written[s])
            BY <1>1, <1>2, <4>2
        <5>. QED BY <1>0, <1>4, <5>1 DEF WarmIInv, Turns
      <4>. QED BY <4>1, <4>2
    <3>2. n # 0 /\ n \in Nat
        BY <1>1, <1>2
    <3>. QED BY <1>4, <1>6, <1>7, <3>1, <3>2 DEF Turns
  <2>. QED BY <2>1, <2>2
<1>15. \A r \in SessionIds : Delivered(r)'
  <2>1. \A r \in SessionIds \ {s} : Delivered(r)'
      BY <1>0, <1>3, <1>7, <1>9 DEF WarmIInv, Delivered
  <2>2. Delivered(s)'
    <3>1. s \notin unsure => Len(written[s]) = told[s] /\ told[s] \in Nat
        BY <1>0, <1>1 DEF WarmIInv, Delivered, WarmTypes
    <3>2. Len(v) = Len(written[s]) + 1
        BY <1>2, <1>4
    <3>. QED BY <1>3, <1>7, <1>9, <3>1, <3>2 DEF Delivered
  <2>. QED BY <2>1, <2>2
<1>16. AtWork'
  <2>1. n >= 1 /\ session[s].last = IF n = 1 THEN NobodyYet ELSE v[n - 1]
    <3>1. Turns(s) /\ n - 1 = Len(written[s]) /\ n >= 1
        BY <1>0, <1>1, <1>2 DEF WarmIInv
    <3>2. CASE n = 1
        BY <1>1, <1>2, <3>1, <3>2 DEF Turns
    <3>3. CASE n # 1
      <4>1. Len(written[s]) \in 1..Len(written[s]) /\ Len(written[s]) # 0
          BY <1>1, <1>2, <3>3
      <4>. QED BY <1>4, <3>1, <3>3, <4>1 DEF Turns
    <3>. QED BY <3>1, <3>2, <3>3
  <2>2. \A r \in tick.todo : session'[r].st # "none" /\ session'[r].sent < TargetMessages
      BY <1>0, <1>7 DEF WarmIInv, AtWork, TickRow
  <2>3. \A r \in Active' : session'[r].sent < TargetMessages
      BY <1>2, <1>6, <1>7 DEF WarmIInv, AtWork, Active
  <2>4. session'[s].st # "none"
      BY <1>5, <1>6, <1>7
  <2>. QED BY <1>0, <1>4, <1>7, <1>9, <2>1, <2>2, <2>3, <2>4 DEF WarmIInv, AtWork
<1>17. RemovedIsLeftAlone'
    BY <1>3, <1>6, <1>7, <1>10 DEF WarmIInv, RemovedIsLeftAlone, Active, Of
<1>. QED BY <1>11, <1>12, <1>13, <1>14, <1>15, <1>16, <1>17 DEF WarmIInv

\* A message that arrives, and a process that ends: only the history and the work at hand.
LEMMA SentKeepsWarm ==
    ASSUME WarmIInv, Sent \/ WarmCrash
    PROVE  WarmIInv'
<1>0. /\ WarmTypes /\ tick \in TickRow /\ told \in [SessionIds -> Nat]
      /\ tick.pc = "send" => tick.s \in SessionIds /\ session[tick.s].st # "none"
      /\ UNCHANGED <<enabled, warmPool, fit, session, written, young, known, warmOps, revived>>
    BY DEF WarmIInv, WarmTypes, AtWork, Sent, WarmCrash
<1>1. /\ tick' \in TickRow /\ tick'.pc \in {"pick", "idle"} /\ tick'.todo \subseteq tick.todo
      /\ tick'.pairs \subseteq tick.pairs
  <2>1. CASE Sent
      BY <1>0, <2>1, WarmConstants DEF Sent, TickRow, Person
  <2>2. CASE WarmCrash
      BY <2>2, RowConstants DEF WarmCrash, AtRest
  <2>. QED BY <2>1, <2>2
<1>2. warmFaults' \in 0..MaxWarmFaults
    BY <1>0, SupplyKeeps DEF Sent, WarmCrash, WarmTypes
<1>3. \/ tick.pc # "send" /\ UNCHANGED <<told, unsure>>
      \/ tick.pc = "send" /\ told' = [told EXCEPT ![tick.s] = @ + 1] /\ UNCHANGED unsure
      \/ tick.pc = "send" /\ unsure' = unsure \cup {tick.s} /\ UNCHANGED told
    BY DEF Sent, WarmCrash
<1>4. told' \in [SessionIds -> Nat] /\ unsure' \subseteq SessionIds
  <2>1. unsure \subseteq SessionIds /\ \A s \in SessionIds : told[s] + 1 \in Nat
      BY <1>0 DEF WarmTypes
  <2>2. ASSUME NEW s \in SessionIds, told' = [told EXCEPT ![s] = @ + 1]
        PROVE  told' \in [SessionIds -> Nat]
      BY <1>0, <2>1, <2>2
  <2>. QED BY <1>0, <1>3, <2>1, <2>2
<1>5. WarmTypes'
    BY <1>0, <1>1, <1>2, <1>4 DEF WarmTypes
<1>6. Numbered' /\ RemovedIsLeftAlone'
    BY <1>0 DEF WarmIInv, Numbered, RemovedIsLeftAlone, Active, Of
<1>7. AtWork'
    BY <1>0, <1>1 DEF WarmIInv, AtWork, Active
<1>8. ASSUME NEW s \in SessionIds PROVE Paired(s)' /\ Turns(s)' /\ Delivered(s)'
  <2>1. Turns(s)'
      BY <1>0 DEF WarmIInv, Turns
  <2>2. session[s].st = "none" => told'[s] = told[s]
      BY <1>0, <1>3
  <2>3. Paired(s)'
      BY <1>0, <2>2 DEF WarmIInv, Paired
  <2>4. Len(written[s]) \in Nat /\ told[s] \in Nat /\ Delivered(s)
      BY <1>0 DEF WarmIInv, WarmTypes
  <2>5. CASE tick.pc = "send" /\ tick.s = s
    <3>1. s \notin unsure => Len(written[s]) = told[s] + 1
        BY <2>4, <2>5 DEF Delivered
    <3>2. s \in unsure' \/ (told'[s] = told[s] + 1 /\ s \notin unsure)
        BY <1>0, <1>3, <2>5
    <3>3. s \notin unsure' => Len(written'[s]) = told'[s] + 0
        BY <1>0, <2>4, <3>1, <3>2
    <3>. QED BY <1>1, <2>1, <2>3, <3>3 DEF Delivered
  <2>6. CASE ~(tick.pc = "send" /\ tick.s = s)
    <3>1. told'[s] = told[s] /\ (s \in unsure' <=> s \in unsure)
        BY <1>0, <1>3, <2>6
    <3>. QED BY <1>0, <1>1, <2>1, <2>3, <2>4, <2>6, <3>1 DEF Delivered
  <2>. QED BY <2>5, <2>6
<1>. QED BY <1>5, <1>6, <1>7, <1>8 DEF WarmIInv

\* A row taken back: what is left of the messages.
LEMMA FrontKeeps ==
    ASSUME NEW q \in Seq(Members), Len(q) >= 1
    PROVE  LET v == SubSeq(q, 1, Len(q) - 1) IN
           /\ v \in Seq(Members) /\ Len(v) = Len(q) - 1
           /\ \A i \in 1..(Len(q) - 1) : v[i] = q[i]
<1>1. PICK k \in Nat : k = Len(q) - 1
    OBVIOUS
<1>2. \A i \in 1..k : q[i] \in Members
    BY <1>1
<1>3. /\ SubSeq(q, 1, k) \in Seq(Members)
      /\ Len(SubSeq(q, 1, k)) = IF 1 <= k THEN k - 1 + 1 ELSE 0
      /\ \A i \in 1..(k - 1 + 1) : SubSeq(q, 1, k)[i] = q[1 + i - 1]
    BY <1>2, SubSeqProperties
<1>4. (IF 1 <= k THEN k - 1 + 1 ELSE 0) = k /\ \A i \in 1..k : i \in 1..(k - 1 + 1) /\ 1 + i - 1 = i
    OBVIOUS
<1>5. SubSeq(q, 1, k) \in Seq(Members) /\ Len(SubSeq(q, 1, k)) = k /\ \A i \in 1..k : SubSeq(q, 1, k)[i] = q[i]
    BY <1>3, <1>4
<1>. QED BY <1>1, <1>5

LEMMA OnceAtLeast == \A k \in Nat : k # 0 => k \in 1..k
OBVIOUS

LEMMA FailureKeepsWarm ==
    ASSUME WarmIInv, SendFails, NEW s \in SessionIds, s = tick.s
    PROVE  WarmIInv'
<1>. DEFINE m == session[s].last
            n == session[s].sent - 1
            v == SubSeq(written[s], 1, Len(written[s]) - 1)
            x == [session[s] EXCEPT !.st = "active", !.sent = n, !.due = FALSE, !.last = tick.prev]
            Put(r) == [session[r] EXCEPT !.due = FALSE]
<1>0. /\ session \in [SessionIds -> SessionRow] /\ written \in [SessionIds -> Seq(Members)]
      /\ told \in [SessionIds -> Nat] /\ tick \in TickRow /\ tick.pc = "send"
      /\ s \notin tick.todo /\ session[s].st # "none"
    BY DEF WarmIInv, WarmTypes, AtWork, SendFails
<1>1. /\ session[s].sent = Len(written[s]) /\ Len(written[s]) \in Nat /\ Len(written[s]) >= 1
      /\ session[s].sent \in 0..TargetMessages
      /\ tick.prev = IF Len(written[s]) = 1 THEN NobodyYet ELSE written[s][Len(written[s]) - 1]
    BY <1>0 DEF WarmIInv, Turns, AtWork, SessionRow
<1>2. n \in 0..TargetMessages /\ n < TargetMessages /\ n = Len(written[s]) - 1 /\ n \in Nat
    BY <1>1, WarmConstants
<1>3. v \in Seq(Members) /\ Len(v) = n /\ \A i \in 1..n : v[i] = written[s][i]
    BY <1>0, <1>1, <1>2, FrontKeeps
<1>4. PICK flood \in BOOLEAN, arrived \in BOOLEAN :
          /\ session' = [r \in SessionIds |->
                  IF r = s THEN x
                  ELSE IF flood /\ r \in Active /\ m \in Of(r) THEN Put(r) ELSE session[r]]
          /\ told' = [told EXCEPT ![s] = IF arrived THEN @ + 1 ELSE @]
          /\ unsure' = IF arrived THEN unsure \cup {s} ELSE unsure
    BY DEF SendFails
<1>5. /\ written' = [written EXCEPT ![s] = v] /\ young' = young \ {m}
      /\ tick' = [tick EXCEPT !.pc = "pick", !.s = 0, !.prev = NobodyYet]
      /\ Revives(s) /\ UNCHANGED <<enabled, warmPool, fit, known, warmOps>> /\ WarmFault(1)
    BY DEF SendFails, TakesRowBack
<1>. HIDE DEF n, v, m
<1>6. session[s] \in SessionRow /\ tick.prev \in Person
    BY <1>0 DEF TickRow
<1>7. /\ x \in SessionRow /\ x.a = session[s].a /\ x.b = session[s].b /\ x.sent = n
      /\ x.last = tick.prev /\ x.st = "active"
    BY <1>2, <1>6 DEF SessionRow
<1>8. \A r \in SessionIds : /\ Put(r) \in SessionRow /\ Put(r).a = session[r].a
                             /\ Put(r).b = session[r].b /\ Put(r).sent = session[r].sent
                             /\ Put(r).last = session[r].last /\ Put(r).st = session[r].st
    BY <1>0 DEF SessionRow
<1>. HIDE DEF x, Put
<1>9. /\ session' \in [SessionIds -> SessionRow] /\ session'[s] = x
      /\ \A r \in SessionIds \ {s} :
            /\ session'[r].a = session[r].a /\ session'[r].b = session[r].b
            /\ session'[r].sent = session[r].sent /\ session'[r].last = session[r].last
            /\ session'[r].st = session[r].st
            /\ session[r].st = "none" => session'[r] = session[r]
    BY <1>0, <1>4, <1>7, <1>8 DEF Active
<1>9a. \A r \in SessionIds : session'[r].st = "none" <=> session[r].st = "none"
    BY <1>0, <1>7, <1>9
<1>10. /\ written' \in [SessionIds -> Seq(Members)] /\ written'[s] = v
       /\ \A r \in SessionIds \ {s} : written'[r] = written[r]
    BY <1>0, <1>3, <1>5
<1>11. /\ tick' \in TickRow /\ tick'.pc = "pick" /\ tick'.todo = tick.todo /\ tick'.pairs = tick.pairs
    BY <1>0, <1>5, WarmConstants DEF TickRow, Person
<1>12. revived \subseteq revived' /\ revived' \subseteq SessionIds
       /\ \A k \in Of(s) : warmPool[k] = "out" => s \in revived'
    BY <1>0, <1>5 DEF Revives, WarmIInv, WarmTypes
<1>13. /\ told' \in [SessionIds -> Nat] /\ \A r \in SessionIds \ {s} : told'[r] = told[r]
       /\ ~arrived => told'[s] = told[s]
       /\ unsure' \subseteq SessionIds /\ unsure \subseteq unsure' /\ (arrived => s \in unsure')
       /\ \A r \in SessionIds \ {s} : r \in unsure' => r \in unsure
  <2>1. told[s] + 1 \in Nat /\ told[s] \in Nat /\ unsure \subseteq SessionIds
      BY <1>0 DEF WarmIInv, WarmTypes
  <2>2. (IF arrived THEN told[s] + 1 ELSE told[s]) \in Nat
      BY <2>1
  <2>. QED BY <1>0, <1>4, <2>1, <2>2
<1>14. WarmTypes'
  <2>1. warmFaults' \in 0..MaxWarmFaults
      BY <1>5, SupplyKeeps DEF WarmIInv
  <2>. QED BY <1>5, <1>9, <1>10, <1>11, <1>12, <1>13, <2>1 DEF WarmIInv, WarmTypes
<1>15. Numbered'
    BY <1>9a DEF WarmIInv, Numbered
<1>16. \A r \in SessionIds : Paired(r)'
  <2>1. Paired(s)'
      BY <1>0, <1>7, <1>9, <1>9a DEF WarmIInv, Paired
  <2>2. ASSUME NEW r \in SessionIds \ {s} PROVE Paired(r)'
    <3>1. Paired(r)
        BY DEF WarmIInv
    <3>. QED BY <1>9, <1>10, <1>13, <1>9a, <2>2, <3>1 DEF Paired
  <2>. QED BY <2>1, <2>2
<1>17. \A r \in SessionIds : Turns(r)'
  <2>1. ASSUME NEW r \in SessionIds \ {s} PROVE Turns(r)'
      BY <1>9, <1>10, <2>1 DEF WarmIInv, Turns
  <2>2. Turns(s)'
    <3>1. \A i \in 1..n : i \in 1..Len(written[s])
        BY <1>1, <1>2
    <3>2. \A i \in 1..n : v[i] = IF i % 2 = 1 THEN session[s].a ELSE session[s].b
        BY <1>3, <3>1 DEF WarmIInv, Turns
    <3>3. tick.prev = IF n = 0 THEN NobodyYet ELSE v[n]
      <4>1. n = 0 <=> Len(written[s]) = 1
          BY <1>1, <1>2
      <4>2. n # 0 => n \in 1..n
          BY <1>2, OnceAtLeast
      <4>. QED BY <1>1, <1>2, <1>3, <4>1, <4>2
    <3>. QED BY <1>3, <1>7, <1>9, <1>10, <3>2, <3>3 DEF Turns
  <2>. QED BY <2>1, <2>2
<1>18. \A r \in SessionIds : Delivered(r)'
  <2>1. ASSUME NEW r \in SessionIds \ {s} PROVE Delivered(r)'
      BY <1>0, <1>10, <1>11, <1>13, <2>1 DEF WarmIInv, Delivered
  <2>2. Delivered(s)'
    <3>1. s \notin unsure => Len(written[s]) = told[s] + 1 /\ told[s] \in Nat
        BY <1>0 DEF WarmIInv, Delivered
    <3>2. s \notin unsure' => s \notin unsure /\ told'[s] = told[s]
        BY <1>13
    <3>3. s \notin unsure' => Len(v) = told'[s] + 0
        BY <1>1, <1>2, <1>3, <3>1, <3>2
    <3>. QED BY <1>10, <1>11, <3>3 DEF Delivered
  <2>. QED BY <2>1, <2>2
<1>19. AtWork'
  <2>1. \A r \in tick.todo : session'[r].st # "none" /\ session'[r].sent < TargetMessages
    <3>1. \A r \in tick.todo : r \in SessionIds \ {s} /\ session[r].st # "none"
                               /\ session[r].sent < TargetMessages
        BY <1>0 DEF WarmIInv, AtWork, TickRow
    <3>2. \A r \in SessionIds \ {s} : session'[r].sent = session[r].sent
        BY <1>9
    <3>. QED BY <1>9a, <3>1, <3>2
  <2>2. \A r \in Active' : session'[r].sent < TargetMessages
      BY <1>2, <1>7, <1>9 DEF WarmIInv, AtWork, Active
  <2>. QED BY <1>11, <2>1, <2>2 DEF WarmIInv, AtWork
<1>20. RemovedIsLeftAlone'
    BY <1>5, <1>7, <1>9, <1>12 DEF WarmIInv, RemovedIsLeftAlone, Active, Of
<1>. QED BY <1>14, <1>15, <1>16, <1>17, <1>18, <1>19, <1>20 DEF WarmIInv

-----------------------------------------------------------------------------
(* New sessions.                                                            *)

\* A pair has another half.
LEMMA OtherHalf ==
    ASSUME NEW p, IsFiniteSet(p), Cardinality(p) = 2, NEW f \in p
    PROVE  (CHOOSE m \in p : m # f) \in p /\ (CHOOSE m \in p : m # f) # f
<1>1. \E m \in p : m # f
  <2>. SUFFICES ASSUME \A m \in p : m = f PROVE FALSE
      OBVIOUS
  <2>1. p = {f}
      OBVIOUS
  <2>. QED BY <2>1, FS_Singleton
<1>. QED BY <1>1

\* The rows in use are the first ones.
LEMMA UsedRows ==
    ASSUME NEW n \in 0..MaxSessions, \A s \in SessionIds : session[s].st # "none" <=> s <= n
    PROVE  Cardinality({s \in SessionIds : session[s].st # "none"}) = n
<1>1. n \in Nat /\ n <= MaxSessions /\ MaxSessions \in Nat
    BY WarmConstants
<1>2. {s \in SessionIds : session[s].st # "none"} = 1..n
    BY <1>1 DEF SessionIds
<1>3. Cardinality(1..n) = IF 1 > n THEN 0 ELSE n - 1 + 1
    BY <1>1, FS_Interval
<1>4. (IF 1 > n THEN 0 ELSE n - 1 + 1) = n
    BY <1>1
<1>5. Cardinality(1..n) = n
    BY <1>3, <1>4
<1>. QED BY <1>2, <1>5

LEMMA OpenKeepsWarm ==
    ASSUME WarmIInv, OpenSessions
    PROVE  WarmIInv'
<1>. DEFINE used == Cardinality({s \in SessionIds : session[s].st # "none"})
            Half(p, f) == CHOOSE m \in p : m # f
            Row(p, f) == [NoSession EXCEPT !.st = "active", !.a = f, !.b = Half(p, f)]
<1>0. /\ session \in [SessionIds -> SessionRow] /\ tick \in TickRow /\ tick.pc = "open"
      /\ UNCHANGED <<enabled, warmPool, fit, written, young, warmOps, warmFaults, told, unsure>>
      /\ tick' = AtRest
    BY DEF WarmIInv, WarmTypes, OpenSessions
<1>1. PICK n \in 0..MaxSessions : \A s \in SessionIds : session[s].st # "none" <=> s <= n
    BY DEF WarmIInv, Numbered
<1>2. used = n /\ n \in Nat /\ MaxSessions \in Nat
    BY <1>1, UsedRows, WarmConstants
<1>3. PICK new \in SUBSET tick.pairs : \E first \in [new -> Members] :
        LET q == SetToSeq(new)
        IN  /\ \A p \in new : first[p] \in p
            /\ used + Len(q) <= MaxSessions
            /\ session' = [s \in SessionIds |->
                    IF s - used \in 1..Len(q) THEN Row(q[s - used], first[q[s - used]]) ELSE session[s]]
            /\ known' = known \cup new
            /\ revived' = revived \cup {used + i : i \in {j \in 1..Len(q) :
                                            \E m \in q[j] : warmPool[m] = "out"}}
    BY DEF OpenSessions
<1>. DEFINE q == SetToSeq(new)
<1>4. PICK first \in [new -> Members] :
            /\ \A p \in new : first[p] \in p
            /\ used + Len(q) <= MaxSessions
            /\ session' = [s \in SessionIds |->
                    IF s - used \in 1..Len(q) THEN Row(q[s - used], first[q[s - used]]) ELSE session[s]]
            /\ known' = known \cup new
            /\ revived' = revived \cup {used + i : i \in {j \in 1..Len(q) :
                                            \E m \in q[j] : warmPool[m] = "out"}}
    BY <1>3
<1>5. \A p \in new : p \subseteq Members /\ IsFiniteSet(p) /\ Cardinality(p) = 2
    BY <1>0, WarmMembers, FS_Subset DEF WarmIInv, AtWork, TickRow
<1>6. \A i \in 1..Len(q) : q[i] \in new
  <2>1. IsFiniteSet(SUBSET Members)
      BY WarmMembers, FS_SUBSET
  <2>2. new \subseteq SUBSET Members
      BY <1>5
  <2>3. IsFiniteSet(new)
      BY <2>1, <2>2, FS_Subset
  <2>4. q \in [1..Cardinality(new) -> new] /\ Cardinality(new) \in Nat
      BY <2>3, SetToSeqIs
  <2>. HIDE DEF q
  <2>5. q \in Seq(new)
      BY <2>4, SeqDef
  <2>. QED BY <2>5, ElementOfSeq
<1>7. Len(q) \in Nat
  <2>1. IsFiniteSet(SUBSET Members)
      BY WarmMembers, FS_SUBSET
  <2>2. new \subseteq SUBSET Members
      BY <1>5
  <2>3. IsFiniteSet(new)
      BY <2>1, <2>2, FS_Subset
  <2>4. q \in [1..Cardinality(new) -> new] /\ Cardinality(new) \in Nat
      BY <2>3, SetToSeqIs
  <2>. HIDE DEF q
  <2>5. q \in Seq(new)
      BY <2>4, SeqDef
  <2>. QED BY <2>5
<1>8. ASSUME NEW p \in new
      PROVE  LET f == first[p] IN
             /\ Row(p, f) \in SessionRow /\ Row(p, f).st = "active" /\ Row(p, f).sent = 0
             /\ Row(p, f).last = NobodyYet /\ Row(p, f).a = f /\ Row(p, f).b = Half(p, f)
             /\ f \in p /\ Half(p, f) \in p /\ f # Half(p, f) /\ p \subseteq Members
  <2>. DEFINE f == first[p]
              h == Half(p, f)
  <2>1. f \in p /\ p \subseteq Members
      BY <1>4, <1>5
  <2>. HIDE DEF f
  <2>2. h \in p /\ f # h
      BY <1>5, <2>1, OtherHalf
  <2>. HIDE DEF h
  <2>. DEFINE x == [NoSession EXCEPT !.st = "active", !.a = f, !.b = h]
  <2>3. /\ x \in SessionRow /\ x.st = "active" /\ x.sent = 0 /\ x.last = NobodyYet /\ x.a = f /\ x.b = h
      BY <2>1, <2>2, WarmConstants DEF NoSession, SessionRow, Person
  <2>. QED BY <2>1, <2>2, <2>3 DEF f, h
<1>. HIDE DEF used, Row, Half, q
\* The rows of this tick, and the others.
<1>. DEFINE Fresh == {s \in SessionIds : s - n \in 1..Len(q)}
            At(s) == q[s - n]
<1>9. /\ \A s \in Fresh : /\ At(s) \in new /\ session'[s] = Row(At(s), first[At(s)])
                           /\ session[s].st = "none"
      /\ \A s \in SessionIds \ Fresh : session'[s] = session[s]
  <2>1. session' = [s \in SessionIds |->
                    IF s - n \in 1..Len(q) THEN Row(q[s - n], first[q[s - n]]) ELSE session[s]]
      BY <1>2, <1>4
  <2>2. \A s \in Fresh : At(s) \in new
      BY <1>6
  <2>3. \A s \in Fresh : ~(s <= n)
      BY <1>2, <1>7 DEF SessionIds
  <2>4. \A s \in Fresh : session[s].st = "none"
      BY <1>1, <2>3
  <2>. QED BY <2>1, <2>2, <2>4
<1>10. \A s \in SessionIds : s \in Fresh <=> s > n /\ s <= n + Len(q)
    BY <1>2, <1>7 DEF SessionIds
<1>11. revived \subseteq revived' /\ revived' \subseteq SessionIds
       /\ \A s \in Fresh : (\E m \in At(s) : warmPool[m] = "out") => s \in revived'
  <2>. DEFINE Out == {j \in 1..Len(q) : \E m \in q[j] : warmPool[m] = "out"}
  <2>1. revived' = revived \cup {n + i : i \in Out}
      BY <1>2, <1>4
  <2>2. \A i \in Out : n + i \in SessionIds
      BY <1>2, <1>4, <1>7 DEF SessionIds
  <2>3. \A s \in Fresh : n + (s - n) = s
      BY <1>2 DEF SessionIds
  <2>4. \A s \in Fresh : (\E m \in At(s) : warmPool[m] = "out") => s - n \in Out
      OBVIOUS
  <2>. HIDE DEF Out, Fresh
  <2>5. revived \subseteq SessionIds
      BY DEF WarmIInv, WarmTypes
  <2>6. revived \subseteq revived' /\ revived' \subseteq SessionIds
      BY <2>1, <2>2, <2>5
  <2>7. ASSUME NEW s \in Fresh, \E m \in At(s) : warmPool[m] = "out" PROVE s \in revived'
    <3>1. s - n \in Out
        BY <2>4, <2>7
    <3>2. n + (s - n) \in {n + i : i \in Out}
        BY <3>1
    <3>. QED BY <2>1, <2>3, <3>2
  <2>. QED BY <2>6, <2>7
<1>. HIDE DEF Fresh, At
<1>12. Fresh \subseteq SessionIds
    BY DEF Fresh
<1>13. session' \in [SessionIds -> SessionRow]
  <2>1. \A s \in SessionIds : session'[s] \in SessionRow
      BY <1>0, <1>8, <1>9
  <2>2. DOMAIN session' = SessionIds /\ session' = [s \in SessionIds |-> session'[s]]
      BY <1>4
  <2>. QED BY <2>1, <2>2
<1>14. WarmTypes'
    BY <1>0, <1>4, <1>5, <1>11, <1>13, RowConstants DEF WarmIInv, WarmTypes
<1>15. Numbered'
  <2>1. n + Len(q) \in 0..MaxSessions
      BY <1>2, <1>4, <1>7
  <2>2. ASSUME NEW s \in SessionIds PROVE session'[s].st # "none" <=> s <= n + Len(q)
    <3>1. CASE s \in Fresh
        BY <1>8, <1>9, <1>10, <3>1
    <3>2. CASE s \notin Fresh
      <4>1. ~(s > n /\ s <= n + Len(q)) /\ s \in Nat
          BY <1>10, <3>2 DEF SessionIds
      <4>2. s <= n <=> s <= n + Len(q)
          BY <1>2, <1>7, <4>1
      <4>. QED BY <1>1, <1>9, <3>2, <4>2
    <3>. QED BY <3>1, <3>2
  <2>. QED BY <2>1, <2>2 DEF Numbered
<1>16. ASSUME NEW s \in SessionIds PROVE Paired(s)' /\ Turns(s)' /\ Delivered(s)'
  <2>0. Paired(s) /\ Turns(s) /\ Delivered(s)
      BY DEF WarmIInv
  <2>1. Delivered(s)'
      BY <1>0, <2>0 DEF Delivered, AtRest
  <2>2. CASE s \notin Fresh
      BY <1>0, <1>9, <2>0, <2>1, <2>2 DEF Paired, Turns
  <2>3. CASE s \in Fresh
    <3>1. written'[s] = <<>> /\ Len(written'[s]) = 0
        BY <1>0, <1>9, <2>0, <2>3 DEF Paired
    <3>2. /\ session'[s].st = "active" /\ session'[s].sent = 0 /\ session'[s].last = NobodyYet
          /\ session'[s].a \in Members /\ session'[s].b \in Members /\ session'[s].a # session'[s].b
        BY <1>8, <1>9, <2>3
    <3>3. Turns(s)'
        BY <3>1, <3>2 DEF Turns
    <3>. QED BY <2>1, <3>2, <3>3 DEF Paired
  <2>. QED BY <2>2, <2>3
<1>17. AtWork'
  <2>1. \A s \in Active' : session'[s].sent < TargetMessages
    <3>. SUFFICES ASSUME NEW s \in SessionIds, session'[s].st = "active"
                  PROVE  session'[s].sent < TargetMessages
        BY DEF Active
    <3>1. CASE s \in Fresh
        BY <1>8, <1>9, <3>1, WarmConstants
    <3>2. CASE s \notin Fresh
        BY <1>9, <3>2 DEF WarmIInv, AtWork, Active
    <3>. QED BY <3>1, <3>2
  <2>. QED BY <1>0, <2>1 DEF AtWork, AtRest
<1>18. RemovedIsLeftAlone'
  <2>. SUFFICES ASSUME NEW s \in Active', NEW m \in Of(s)', warmPool'[m] = "out" PROVE s \in revived'
      BY DEF RemovedIsLeftAlone
  <2>0. s \in SessionIds /\ session'[s].st = "active" /\ m \in {session'[s].a, session'[s].b}
      BY DEF Active, Of
  <2>1. CASE s \in Fresh
    <3>1. m \in At(s)
        BY <1>8, <1>9, <2>0, <2>1
    <3>. QED BY <1>0, <1>11, <2>1, <3>1
  <2>2. CASE s \notin Fresh
    <3>1. s \in Active /\ m \in Of(s)
        BY <1>9, <2>0, <2>2 DEF Active, Of
    <3>. QED BY <1>0, <1>11, <3>1 DEF WarmIInv, RemovedIsLeftAlone
  <2>. QED BY <2>1, <2>2
<1>. QED BY <1>14, <1>15, <1>16, <1>17, <1>18 DEF WarmIInv

-----------------------------------------------------------------------------
LEMMA WarmStep == WarmIInv /\ [WarmupNext]_warmVars => WarmIInv'
<1>. SUFFICES ASSUME WarmIInv, [WarmupNext]_warmVars PROVE WarmIInv'
    OBVIOUS
<1>1. CASE RecordMessage \/ SendFails
  <2>1. tick.s \in SessionIds
      BY <1>1 DEF WarmIInv, AtWork, RecordMessage, SendFails
  <2>. QED BY <1>1, <2>1, RecordKeepsWarm, FailureKeepsWarm
<1>2. CASE UNCHANGED warmVars
  <2>1. UNCHANGED <<enabled, warmPool, fit, session, written, young, known, tick, warmOps, warmFaults,
                    told, unsure, revived>>
      BY <1>2 DEF warmVars
  <2>2. WarmTypes' /\ RemovedIsLeftAlone'
      BY <2>1 DEF WarmIInv, WarmTypes, RemovedIsLeftAlone, Active, Of
  <2>. QED BY <2>1, <2>2, SameIsSoft, SoftlyKeeps DEF WarmIInv
<1>. QED BY <1>1, <1>2, ManagerKeepsWarm, TickKeepsWarm, SentKeepsWarm, OpenKeepsWarm DEF WarmupNext

\* Along every behaviour: rows fill up in order and join two members, messages alternate,
\* and the worker's session, turn and count stand behind what it does next.
THEOREM WarmupInvariant == WarmupSpec => []WarmIInv
<1>. QED BY WarmInitIInv, WarmStep, PTL DEF WarmupSpec

\* Every variable of the warmup keeps its type.
THEOREM WarmupTypeCorrect == WarmupSpec => []WarmupTypeOK
<1>1. WarmIInv => WarmupTypeOK
  <2>. SUFFICES ASSUME WarmIInv PROVE WarmupTypeOK
      OBVIOUS
  <2>1. \A s \in SessionIds : Len(written[s]) <= TargetMessages
      BY WarmConstants DEF WarmIInv, WarmTypes, Turns, SessionRow
  <2>. QED BY <2>1 DEF WarmIInv, WarmTypes, WarmupTypeOK, SessionRow, TickRow, Person
<1>. QED BY <1>1, WarmupInvariant, PTL

\* The two accounts of a session write in turns, and as many messages are on record and
\* counted as were delivered (RecordMessage, SendFails), unless a failed send arrived or the
\* process died between record and send.
THEOREM TurnsMatchDeliveries == WarmupSpec => []TurnsAreDeliveries
<1>1. WarmIInv => TurnsAreDeliveries
    BY DEF WarmIInv, Turns, Delivered, TurnsAreDeliveries
<1>. QED BY <1>1, WarmupInvariant, PTL

\* An account out of the pool has no active session, except one the worker wrote from what
\* it had read before (remove_from_pool, _process_session).
THEOREM RemovedStaysAlone == WarmupSpec => []RemovedIsLeftAlone
<1>1. WarmIInv => RemovedIsLeftAlone
    BY DEF WarmIInv
<1>. QED BY <1>1, WarmupInvariant, PTL
=============================================================================
