--------------------------- MODULE AccountsProofs ---------------------------
(***************************************************************************)
(* Proofs about Accounts, for any accounts, ports, archives, instances and *)
(* logins: two accounts share a port only where somebody said so, an       *)
(* import changes no account that exists and adds none that is known, a    *)
(* cancelled login is not accepted, and the progress of a job is what its  *)
(* items say.                                                              *)
(***************************************************************************)
EXTENDS Accounts, FiniteSetTheorems, TLAPS

Address == Ports \cup {Own, None}
SenderRow == [on : BOOLEAN, key : Accounts \cup {None}, tg : Accounts \cup {None},
              phone : Files \cup {None}, auth : {"ok", "dead"}, proxy : Address]
PortRow == [on : BOOLEAN, at : SenderRows \cup {None}, rests : BOOLEAN]
FlowRow == [pc : {"none", "code_sent", "awaiting_2fa", "failed"},
            key : Accounts \cup {None}, row : SenderRows \cup {None}, proxy : Address,
            hot : BOOLEAN, task : BOOLEAN,
            call : {"idle", "recovering", "asking", "signed"}, cut : BOOLEAN]

-----------------------------------------------------------------------------
(* The pool of accounts and ports.                                          *)

LEMMA SenderRowKeeps ==
    ASSUME NEW r \in SenderRow
    PROVE  /\ \A p \in Address : [r EXCEPT !.proxy = p] \in SenderRow
           /\ \A k \in Accounts \cup {None} : [r EXCEPT !.key = k] \in SenderRow
           /\ [r EXCEPT !.auth = "dead"] \in SenderRow
BY DEF SenderRow

LEMMA PortRowKeeps ==
    ASSUME NEW r \in PortRow
    PROVE  /\ \A s \in SenderRows \cup {None} : [r EXCEPT !.at = s] \in PortRow
           /\ [r EXCEPT !.on = TRUE] \in PortRow
           /\ [r EXCEPT !.rests = FALSE] \in PortRow
           /\ [r EXCEPT !.at = None, !.rests = TRUE] \in PortRow
BY DEF PortRow

\* What the steps of import and login have in common with those of the pool.
LEMMA PoolHelpers ==
    ASSUME PoolTypeOK
    PROVE  /\ sender \in [SenderRows -> SenderRow] /\ port \in [Ports -> PortRow]
           /\ \A p, q : \A r \in SenderRows \cup {None} : Marked(p, r) \in [Ports -> PortRow]
           /\ \A p, r : Clash(p, r) \subseteq Ports
           /\ FreeOrNone \subseteq Ports \cup {None}
           /\ Asks => ops' \in 0..MaxOps
           /\ Fault => faults' \in 0..MaxFaults
<1>1. sender \in [SenderRows -> SenderRow] /\ port \in [Ports -> PortRow]
    BY DEF PoolTypeOK, SenderRow, PortRow, Address
<1>2. \A p : \A r \in SenderRows \cup {None} : Marked(p, r) \in [Ports -> PortRow]
    BY <1>1, PortRowKeeps DEF Marked
<1>3. \A p, r : Clash(p, r) \subseteq Ports
    BY DEF Clash, PoolTypeOK
<1>4. FreeOrNone \subseteq Ports \cup {None}
    BY DEF FreeOrNone
<1>5. (Asks => ops' \in 0..MaxOps) /\ (Fault => faults' \in 0..MaxFaults)
  <2>1. ops \in 0..MaxOps /\ faults \in 0..MaxFaults /\ MaxOps \in Nat /\ MaxFaults \in Nat
      BY PoolCounts DEF PoolTypeOK
  <2>2. ASSUME Asks PROVE ops' \in 0..MaxOps
      BY <2>1, <2>2 DEF Asks
  <2>3. ASSUME Fault PROVE faults' \in 0..MaxFaults
      BY <2>1, <2>3 DEF Fault
  <2>. QED BY <2>2, <2>3
<1>. QED BY <1>1, <1>2, <1>3, <1>4, <1>5

LEMMA PoolInitType == InitPool => PoolTypeOK
<1>. SUFFICES ASSUME InitPool PROVE PoolTypeOK
    OBVIOUS
<1>1. PICK r \in SenderRows \cup {None}, k \in Accounts, tg \in Accounts \cup {None}, p \in Ports :
        /\ tg # k => tg = None /\ r \in Extra
        /\ r \in Accounts => r = k
        /\ sender = [s \in SenderRows |-> IF s = r THEN [Absent EXCEPT !.on = TRUE, !.key = k, !.tg = tg,
                                                         !.proxy = p] ELSE Absent]
        /\ port = [o \in Ports |-> [on |-> TRUE, at |-> IF o = p THEN r ELSE None, rests |-> FALSE]]
    BY DEF InitPool
<1>2. Absent \in SenderRow
    BY DEF Absent, SenderRow, Address
<1>3. [Absent EXCEPT !.on = TRUE, !.key = k, !.tg = tg, !.proxy = p] \in SenderRow
    BY DEF Absent, SenderRow, Address
<1>5. sender \in [SenderRows -> SenderRow]
    BY <1>1, <1>2, <1>3
<1>6. port \in [Ports -> PortRow]
    BY <1>1 DEF PortRow, SenderRows
<1>7. /\ post = NoPost /\ ops = 0 /\ faults = 0 /\ overlap = {} /\ learned = {}
    BY DEF InitPool
<1>0. 0 \in 0..MaxOps /\ 0 \in 0..MaxFaults
    BY PoolCounts
<1>8. post \in [pc : {"idle", "created", "read"}, row : Extra \cup {None}, port : Ports \cup {None}]
    BY <1>7 DEF NoPost
<1>. QED BY <1>0, <1>5, <1>6, <1>7, <1>8 DEF PoolTypeOK, SenderRow, PortRow, Address

LEMMA RequestsKeepPool ==
    ASSUME PoolTypeOK,
           \/ \E x \in Extra, k \in Accounts : PostSender(x, k)
           \/ PostReadsPool \/ PostTakesPort
           \/ \E r \in SenderRows, p \in Ports : AssignProxy(r, p)
           \/ \E r \in SenderRows, k \in Accounts : PatchSender(r, k)
    PROVE  PoolTypeOK'
<1>. DEFINE Posts == [pc : {"idle", "created", "read"}, row : Extra \cup {None},
                      port : Ports \cup {None}]
<1>. USE DEF Posts
<1>0. /\ sender \in [SenderRows -> SenderRow] /\ port \in [Ports -> PortRow]
      /\ post \in Posts /\ overlap \subseteq Ports /\ learned \subseteq Accounts \cup {None}
      /\ ops \in 0..MaxOps /\ faults \in 0..MaxFaults
    BY PoolHelpers DEF PoolTypeOK
<1>1. SUFFICES /\ sender' \in [SenderRows -> SenderRow] /\ port' \in [Ports -> PortRow]
               /\ post' \in Posts
               /\ overlap' \subseteq Ports /\ learned' \subseteq Accounts \cup {None}
               /\ ops' \in 0..MaxOps /\ faults' \in 0..MaxFaults
    BY DEF PoolTypeOK, SenderRow, PortRow, Address
<1>2. CASE \E x \in Extra, k \in Accounts : PostSender(x, k)
  <2>1. PICK x \in Extra, k \in Accounts : PostSender(x, k)
      BY <1>2
  <2>2. PICK own \in BOOLEAN :
          /\ sender' = [sender EXCEPT ![x] = [Absent EXCEPT !.on = TRUE, !.key = k,
                                                            !.proxy = IF own THEN Own ELSE None]]
          /\ post' = IF own THEN post ELSE [NoPost EXCEPT !.pc = "created", !.row = x]
      BY <2>1 DEF PostSender
  <2>3. [Absent EXCEPT !.on = TRUE, !.key = k, !.proxy = IF own THEN Own ELSE None] \in SenderRow
      BY DEF Absent, SenderRow, Address
  <2>4. [NoPost EXCEPT !.pc = "created", !.row = x] \in Posts
      BY DEF NoPost
  <2>5. sender' \in [SenderRows -> SenderRow] /\ post' \in Posts
      BY <1>0, <2>2, <2>3, <2>4
  <2>. QED BY <1>0, <2>1, <2>5, PoolHelpers DEF PostSender
<1>3. CASE PostReadsPool
  <2>1. PICK p \in Ports \cup {None} :
            post' = IF p = None THEN NoPost ELSE [post EXCEPT !.pc = "read", !.port = p]
      BY <1>3, PoolHelpers DEF PostReadsPool
  <2>2. post' \in Posts
      BY <1>0, <2>1 DEF NoPost
  <2>. QED BY <1>0, <1>3, <2>2 DEF PostReadsPool
<1>4. CASE PostTakesPort
  <2>1. post' \in Posts
      BY <1>4 DEF PostTakesPort, NoPost
  <2>2. CASE sender[post.row].on /\ port[post.port].on
    <3>1. /\ sender' = [sender EXCEPT ![post.row].proxy = post.port]
          /\ port' = Marked(post.port, post.row) /\ overlap' = Clash(post.port, post.row)
          /\ UNCHANGED <<ops, faults, learned>>
        BY <1>4, <2>2 DEF PostTakesPort
    <3>2. post.row \in SenderRows \cup {None} /\ post.port \in Address
        BY <1>0 DEF SenderRows, Address
    <3>3. sender' \in [SenderRows -> SenderRow]
        BY <1>0, <3>1, <3>2, SenderRowKeeps
    <3>. QED BY <1>0, <2>1, <3>1, <3>2, <3>3, PoolHelpers
  <2>3. CASE ~(sender[post.row].on /\ port[post.port].on)
      BY <1>0, <1>4, <2>1, <2>3 DEF PostTakesPort
  <2>. QED BY <2>2, <2>3
<1>5. CASE \E r \in SenderRows, p \in Ports : AssignProxy(r, p)
  <2>1. PICK r \in SenderRows, p \in Ports : AssignProxy(r, p)
      BY <1>5
  <2>2. sender' \in [SenderRows -> SenderRow]
      BY <1>0, <2>1, SenderRowKeeps DEF AssignProxy, Address
  <2>3. port' \in [Ports -> PortRow] /\ overlap' \subseteq Ports
      BY <1>0, <2>1, PoolHelpers DEF AssignProxy
  <2>. QED BY <1>0, <2>1, <2>2, <2>3, PoolHelpers DEF AssignProxy
<1>6. CASE \E r \in SenderRows, k \in Accounts : PatchSender(r, k)
  <2>1. PICK r \in SenderRows, k \in Accounts : PatchSender(r, k)
      BY <1>6
  <2>2. sender' \in [SenderRows -> SenderRow]
    <3>1. CASE sender' = [sender EXCEPT ![r].proxy = Own]
        BY <1>0, <3>1, SenderRowKeeps DEF Address
    <3>2. CASE sender' = [sender EXCEPT ![r].key = k]
        BY <1>0, <3>2, SenderRowKeeps
    <3>. QED BY <2>1, <3>1, <3>2 DEF PatchSender
  <2>. QED BY <1>0, <2>1, <2>2, PoolHelpers DEF PatchSender
<1>. QED BY <1>2, <1>3, <1>4, <1>5, <1>6

LEMMA PoolKeepsPool ==
    ASSUME PoolTypeOK, PoolNext
    PROVE  PoolTypeOK'
<1>0. /\ sender \in [SenderRows -> SenderRow] /\ port \in [Ports -> PortRow]
      /\ overlap \subseteq Ports /\ learned \subseteq Accounts \cup {None}
      /\ ops \in 0..MaxOps /\ faults \in 0..MaxFaults
      /\ post \in [pc : {"idle", "created", "read"}, row : Extra \cup {None}, port : Ports \cup {None}]
    BY PoolHelpers DEF PoolTypeOK
<1>1. ASSUME /\ sender' \in [SenderRows -> SenderRow] /\ port' \in [Ports -> PortRow]
             /\ overlap' \subseteq Ports /\ learned' \subseteq Accounts \cup {None}
             /\ ops' \in 0..MaxOps /\ faults' \in 0..MaxFaults
             /\ post' = post
      PROVE  PoolTypeOK'
    BY <1>0, <1>1 DEF PoolTypeOK, SenderRow, PortRow, Address
<1>2. ASSUME NEW r \in SenderRows, DeleteSender(r) \/ Dies(r) PROVE PoolTypeOK'
  <2>1. Absent \in SenderRow /\ \A p \in Ports : [port[p] EXCEPT !.at = None] \in PortRow
      BY <1>0, PortRowKeeps DEF Absent, SenderRow, Address
  <2>2. CASE DeleteSender(r)
    <3>1. sender' \in [SenderRows -> SenderRow] /\ port' \in [Ports -> PortRow]
        BY <1>0, <2>1, <2>2 DEF DeleteSender
    <3>. QED BY <1>0, <1>1, <2>2, <3>1, PoolHelpers DEF DeleteSender
  <2>3. CASE Dies(r)
    <3>1. sender' \in [SenderRows -> SenderRow]
        BY <1>0, <2>3, SenderRowKeeps DEF Dies
    <3>. QED BY <1>0, <1>1, <2>3, <3>1, PoolHelpers DEF Dies
  <2>. QED BY <1>2, <2>2, <2>3
<1>3. ASSUME NEW p \in Ports, DeleteProxy(p) \/ CreateProxy(p) \/ QuarantineEnds(p) PROVE PoolTypeOK'
  <2>1. [on |-> FALSE, at |-> None, rests |-> FALSE] \in PortRow
      BY DEF PortRow
  <2>2. port' \in [Ports -> PortRow]
    <3>1. CASE DeleteProxy(p)
        BY <1>0, <2>1, <3>1 DEF DeleteProxy
    <3>2. CASE CreateProxy(p)
        BY <1>0, <3>2, PortRowKeeps DEF CreateProxy
    <3>3. CASE QuarantineEnds(p)
        BY <1>0, <3>3, PortRowKeeps DEF QuarantineEnds
    <3>. QED BY <1>3, <3>1, <3>2, <3>3
  <2>. QED BY <1>0, <1>1, <1>3, <2>2, PoolHelpers DEF DeleteProxy, CreateProxy, QuarantineEnds
<1>4. ASSUME Reclaim PROVE PoolTypeOK'
  <2>1. sender' \in [SenderRows -> SenderRow]
      BY <1>0, <1>4, SenderRowKeeps DEF Reclaim, Unproxied, Address
  <2>2. port' \in [Ports -> PortRow]
      BY <1>0, <1>4, PortRowKeeps DEF Reclaim
  <2>. QED BY <1>0, <1>1, <1>4, <2>1, <2>2 DEF Reclaim
<1>. QED BY <1>2, <1>3, <1>4, RequestsKeepPool DEF PoolNext

-----------------------------------------------------------------------------
(* Jobs and their items.                                                    *)

ImpRow == [pc : {"idle", "claimed", "connect", "connected", "insert", "record"},
           j : Jobs \cup {None}, f : Files \cup {None}, port : Ports \cup {None},
           result : Good \cup {"failed", None}]
JobRow == [st : {"none", "running", "done"}, total : 0..Cardinality(Files),
           processed : 0..Cardinality(Files)]

Listed(j) == {f \in Files : item[j][f] # "none"}
Over(j) == {f \in Files : item[j][f] \in Terminal}

\* The counters of a job are what its items say.
Counted(j) ==
    /\ job[j].total = Cardinality(Listed(j)) /\ job[j].processed = Cardinality(Over(j))
    /\ job[j].st = "done" <=> job[j].total > 0 /\ job[j].processed = job[j].total
    /\ job[j].st = "none" => Listed(j) = {}

\* An instance at work holds an item of its own, and an item in process is held, unless
\* there was a fault.
Held(w, j, f) == imp[w].pc # "idle" /\ imp[w].j = j /\ imp[w].f = f

HeldOnce ==
    /\ \A w \in Importers : imp[w].pc # "idle" =>
            imp[w].j \in Jobs /\ imp[w].f \in Files /\ item[imp[w].j][imp[w].f] = "processing"
    /\ \A v, w \in Importers : v # w /\ imp[v].pc # "idle" /\ imp[w].pc # "idle" =>
            imp[v].j # imp[w].j \/ imp[v].f # imp[w].f
    /\ \A j \in Jobs, f \in Files : item[j][f] = "processing" =>
            faults > 0 \/ \E w \in Importers : Held(w, j, f)

ImportIInv == ImportTypeOK /\ (\A j \in Jobs : Counted(j)) /\ HeldOnce

LEMMA ImportShape ==
    /\ ImportTypeOK => /\ imp \in [Importers -> ImpRow] /\ job \in [Jobs -> JobRow]
                       /\ item \in [Jobs -> [Files -> {"none", "pending", "processing"} \cup Terminal]]
    /\ \A j : Over(j) \subseteq Listed(j) /\ Listed(j) \subseteq Files
    /\ None \notin Jobs /\ None \notin Files
<1>1. \A j : Over(j) \subseteq Listed(j) /\ Listed(j) \subseteq Files
    BY DEF Over, Listed, Terminal
<1>2. None \notin Jobs /\ None \notin Files
    BY ImportJobs, PoolNames
<1>3. ImportTypeOK => /\ imp \in [Importers -> ImpRow] /\ job \in [Jobs -> JobRow]
                      /\ item \in [Jobs -> [Files -> {"none", "pending", "processing"} \cup Terminal]]
    BY DEF ImportTypeOK, ImpRow, JobRow
<1>. QED BY <1>1, <1>2, <1>3

\* Any set of files is counted by a number that fits the counters.
LEMMA FilesCount ==
    ASSUME NEW F \in SUBSET Files
    PROVE  IsFiniteSet(F) /\ Cardinality(F) \in 0..Cardinality(Files)
<1>1. IsFiniteSet(F) /\ Cardinality(F) <= Cardinality(Files)
    BY ImportFiles, FS_Subset
<1>2. Cardinality(F) \in Nat /\ Cardinality(Files) \in Nat
    BY <1>1, ImportFiles, FS_CardinalityType
<1>. QED BY <1>1, <1>2

LEMMA ImportInitIInv == InitPool /\ InitImport => ImportIInv
<1>. SUFFICES ASSUME InitPool, InitImport PROVE ImportIInv
    OBVIOUS
<1>1. Cardinality({}) = 0 /\ 0 \in 0..Cardinality(Files)
    BY FS_EmptySet, FilesCount
<1>2. \A w \in Importers : imp[w] = IdleImport
    BY DEF InitImport
<1>3. ImportTypeOK
  <2>1. IdleImport \in ImpRow
      BY DEF IdleImport, ImpRow
  <2>2. imp \in [Importers -> ImpRow]
      BY <2>1 DEF InitImport
  <2>3. job \in [Jobs -> JobRow]
      BY <1>1 DEF InitImport, JobRow
  <2>. QED BY <2>2, <2>3 DEF InitImport, ImportTypeOK, ImpRow, JobRow
<1>4. \A j \in Jobs : Counted(j)
  <2>. SUFFICES ASSUME NEW j \in Jobs PROVE Counted(j)
      OBVIOUS
  <2>1. Listed(j) = {} /\ Over(j) = {}
      BY DEF InitImport, Listed, Over, Terminal
  <2>2. job[j].total = 0 /\ job[j].processed = 0 /\ job[j].st = "none"
      BY DEF InitImport
  <2>. QED BY <1>1, <2>1, <2>2 DEF Counted
<1>5. HeldOnce
  <2>1. \A w \in Importers : imp[w].pc = "idle"
      BY <1>2 DEF IdleImport
  <2>2. \A j \in Jobs, f \in Files : item[j][f] # "processing"
      BY DEF InitImport
  <2>. QED BY <2>1, <2>2 DEF HeldOnce
<1>. QED BY <1>3, <1>4, <1>5 DEF ImportIInv

\* An instance goes on with its item.
LEMMA WorkGoesOn ==
    ASSUME ImportIInv, NEW w \in Importers, imp[w].pc # "idle",
           NEW x \in ImpRow, x.pc # "idle", x.j = imp[w].j, x.f = imp[w].f,
           imp' = [imp EXCEPT ![w] = x], faults > 0 => faults' > 0,
           UNCHANGED <<staged, job, item>>
    PROVE  ImportIInv'
<1>1. imp \in [Importers -> ImpRow]
    BY ImportShape DEF ImportIInv
<1>2. /\ imp' \in [Importers -> ImpRow] /\ imp'[w] = x
      /\ \A v \in Importers \ {w} : imp'[v] = imp[v]
    BY <1>1
<1>3. ImportTypeOK'
    BY <1>2 DEF ImportIInv, ImportTypeOK, ImpRow
<1>4. \A j \in Jobs : Counted(j)'
    BY DEF ImportIInv, Counted, Listed, Over
<1>5. \A v \in Importers : (imp'[v].pc = "idle" <=> imp[v].pc = "idle") /\ imp'[v].j = imp[v].j
                              /\ imp'[v].f = imp[v].f
    BY <1>2
<1>6. \A v \in Importers : \A j, f : Held(v, j, f) => Held(v, j, f)'
    BY <1>5 DEF Held
<1>7. HeldOnce'
    BY <1>5, <1>6 DEF ImportIInv, HeldOnce
<1>. QED BY <1>3, <1>4, <1>7 DEF ImportIInv

LEMMA ClaimKeepsImport ==
    ASSUME ImportIInv, NEW w \in Importers, ClaimItem(w)
    PROVE  ImportIInv'
<1>0. /\ imp \in [Importers -> ImpRow] /\ job \in [Jobs -> JobRow]
      /\ item \in [Jobs -> [Files -> {"none", "pending", "processing"} \cup Terminal]]
    BY ImportShape DEF ImportIInv
<1>1. PICK j \in Jobs, f \in Files :
          /\ item[j][f] = "pending"
          /\ item' = [item EXCEPT ![j][f] = "processing"]
          /\ imp' = [imp EXCEPT ![w] = [IdleImport EXCEPT !.pc = "claimed", !.j = j, !.f = f]]
    BY DEF ClaimItem
<1>2. imp[w].pc = "idle" /\ UNCHANGED <<staged, job, faults>>
    BY DEF ClaimItem, poolVars
<1>3. DEFINE x == [IdleImport EXCEPT !.pc = "claimed", !.j = j, !.f = f]
<1>4. x \in ImpRow /\ x.pc = "claimed" /\ x.j = j /\ x.f = f
    BY DEF IdleImport, ImpRow
<1>5. imp' = [imp EXCEPT ![w] = x]
    BY <1>1
<1>. HIDE DEF x
<1>6. imp' \in [Importers -> ImpRow] /\ imp'[w] = x /\ \A v \in Importers \ {w} : imp'[v] = imp[v]
    BY <1>0, <1>4, <1>5
<1>7. /\ item' \in [Jobs -> [Files -> {"none", "pending", "processing"} \cup Terminal]]
      /\ item'[j][f] = "processing"
      /\ \A i \in Jobs, g \in Files : i # j \/ g # f => item'[i][g] = item[i][g]
    BY <1>0, <1>1
<1>8. ImportTypeOK'
    BY <1>2, <1>6, <1>7 DEF ImportIInv, ImportTypeOK, ImpRow
<1>9. \A i \in Jobs : Counted(i)'
  <2>. SUFFICES ASSUME NEW i \in Jobs PROVE Counted(i)'
      OBVIOUS
  <2>1. Listed(i)' = Listed(i) /\ Over(i)' = Over(i)
      BY <1>1, <1>7 DEF Listed, Over, Terminal
  <2>. QED BY <1>2, <2>1 DEF ImportIInv, Counted
<1>10. HeldOnce'
  <2>1. \A v \in Importers \ {w} : imp[v].pc # "idle" => imp[v].j # j \/ imp[v].f # f
      BY <1>1 DEF ImportIInv, HeldOnce
  <2>2. ASSUME NEW v \in Importers, imp'[v].pc # "idle"
        PROVE  imp'[v].j \in Jobs /\ imp'[v].f \in Files /\ item'[imp'[v].j][imp'[v].f] = "processing"
      BY <1>4, <1>6, <1>7, <2>1, <2>2 DEF ImportIInv, HeldOnce
  <2>3. ASSUME NEW v \in Importers, NEW u \in Importers, v # u,
               imp'[v].pc # "idle", imp'[u].pc # "idle"
        PROVE  imp'[v].j # imp'[u].j \/ imp'[v].f # imp'[u].f
      BY <1>4, <1>6, <2>1, <2>3 DEF ImportIInv, HeldOnce
  <2>4. ASSUME NEW i \in Jobs, NEW g \in Files, item'[i][g] = "processing"
        PROVE  faults' > 0 \/ \E v \in Importers : Held(v, i, g)'
    <3>1. CASE i = j /\ g = f
        BY <1>4, <1>6, <3>1 DEF Held
    <3>2. CASE i # j \/ g # f
        BY <1>2, <1>6, <1>7, <2>4, <3>2 DEF ImportIInv, HeldOnce, Held
    <3>. QED BY <3>1, <3>2
  <2>. QED BY <2>2, <2>3, <2>4 DEF HeldOnce
<1>. QED BY <1>8, <1>9, <1>10 DEF ImportIInv

LEMMA RecordKeepsImport ==
    ASSUME ImportIInv, NEW w \in Importers, Record(w)
    PROVE  ImportIInv'
<1>0. /\ imp \in [Importers -> ImpRow] /\ job \in [Jobs -> JobRow]
      /\ item \in [Jobs -> [Files -> {"none", "pending", "processing"} \cup Terminal]]
    BY ImportShape DEF ImportIInv
<1>1. PICK j \in Jobs, f \in Files : imp[w].j = j /\ imp[w].f = f /\ item[j][f] = "processing"
                                   /\ imp[w].pc # "idle"
    BY DEF ImportIInv, HeldOnce, Record
<1>2. PICK r \in Terminal : item' = [item EXCEPT ![j][f] = r]
    BY <1>1 DEF Record, Terminal
<1>3. /\ job' = [job EXCEPT ![j].processed = @ + 1, ![j].st = IF Done(j) THEN "done" ELSE @]
      /\ imp' = [imp EXCEPT ![w] = IdleImport]
      /\ UNCHANGED <<staged, faults>>
    BY <1>1 DEF Record, poolVars
<1>4. IdleImport \in ImpRow /\ IdleImport.pc = "idle"
    BY DEF IdleImport, ImpRow
<1>5. imp' \in [Importers -> ImpRow] /\ imp'[w].pc = "idle"
      /\ \A v \in Importers \ {w} : imp'[v] = imp[v]
    BY <1>0, <1>3, <1>4
<1>6. /\ item' \in [Jobs -> [Files -> {"none", "pending", "processing"} \cup Terminal]]
      /\ item'[j][f] = r
      /\ \A i \in Jobs, g \in Files : i # j \/ g # f => item'[i][g] = item[i][g]
    BY <1>0, <1>2
<1>7. Listed(j)' = Listed(j) /\ Over(j)' = Over(j) \cup {f} /\ f \notin Over(j)
    BY <1>1, <1>6 DEF Listed, Over, Terminal
<1>. DEFINE n == Cardinality(Over(j))
            t == Cardinality(Listed(j))
<1>8. Cardinality(Over(j) \cup {f}) = n + 1 /\ n + 1 <= t /\ n \in Nat /\ t \in 0..Cardinality(Files)
      /\ Cardinality(Files) \in Nat
  <2>1. Over(j) \cup {f} \subseteq Listed(j) /\ Listed(j) \subseteq Files /\ Over(j) \subseteq Files
      BY <1>1, ImportShape DEF Listed
  <2>2. IsFiniteSet(Over(j)) /\ IsFiniteSet(Listed(j)) /\ t \in 0..Cardinality(Files)
      BY <2>1, FilesCount
  <2>3. Cardinality(Over(j) \cup {f}) = n + 1
      BY <1>7, <2>2, FS_AddElement
  <2>4. Cardinality(Over(j) \cup {f}) <= t
      BY <2>1, <2>2, FS_Subset
  <2>5. n \in Nat /\ Cardinality(Files) \in Nat
      BY <2>2, ImportFiles, FS_CardinalityType
  <2>. QED BY <2>2, <2>3, <2>4, <2>5
<1>9. job[j].total = t /\ job[j].processed = n /\ job[j].st # "none" /\ job[j].st # "done"
  <2>1. Counted(j) /\ f \in Listed(j)
      BY <1>1 DEF ImportIInv, Listed
  <2>. QED BY <1>8, <2>1 DEF Counted
<1>10. /\ job'[j].total = t /\ job'[j].processed = n + 1 /\ (job'[j].st = "done" <=> n + 1 >= t)
       /\ job'[j].st # "none"
       /\ \A i \in Jobs \ {j} : job'[i] = job[i]
    BY <1>0, <1>3, <1>9 DEF Done, JobRow
<1>11. job' \in [Jobs -> JobRow]
  <2>1. n + 1 \in 0..Cardinality(Files)
      BY <1>8
  <2>. QED BY <1>0, <1>3, <1>9, <2>1 DEF JobRow
<1>12. ImportTypeOK'
    BY <1>3, <1>5, <1>6, <1>11 DEF ImportIInv, ImportTypeOK, ImpRow, JobRow
<1>13. \A i \in Jobs : Counted(i)'
  <2>. SUFFICES ASSUME NEW i \in Jobs PROVE Counted(i)'
      OBVIOUS
  <2>1. CASE i = j
    <3>1. n + 1 >= t <=> t > 0 /\ n + 1 = t
        BY <1>8
    <3>. QED BY <1>7, <1>8, <1>10, <2>1, <3>1 DEF Counted
  <2>2. CASE i # j
    <3>1. Listed(i)' = Listed(i) /\ Over(i)' = Over(i)
        BY <1>6, <2>2 DEF Listed, Over
    <3>. QED BY <1>10, <2>2, <3>1 DEF ImportIInv, Counted
  <2>. QED BY <2>1, <2>2
<1>14. HeldOnce'
  <2>1. \A v \in Importers \ {w} : imp[v].pc # "idle" => imp[v].j # j \/ imp[v].f # f
      BY <1>1 DEF ImportIInv, HeldOnce
  <2>2. ASSUME NEW v \in Importers, imp'[v].pc # "idle"
        PROVE  imp'[v].j \in Jobs /\ imp'[v].f \in Files /\ item'[imp'[v].j][imp'[v].f] = "processing"
      BY <1>5, <1>6, <2>1, <2>2 DEF ImportIInv, HeldOnce
  <2>3. ASSUME NEW v \in Importers, NEW u \in Importers, v # u,
               imp'[v].pc # "idle", imp'[u].pc # "idle"
        PROVE  imp'[v].j # imp'[u].j \/ imp'[v].f # imp'[u].f
      BY <1>5, <2>3 DEF ImportIInv, HeldOnce
  <2>4. ASSUME NEW i \in Jobs, NEW g \in Files, item'[i][g] = "processing"
        PROVE  faults' > 0 \/ \E v \in Importers : Held(v, i, g)'
    <3>1. item[i][g] = "processing" /\ (i # j \/ g # f)
        BY <1>6, <2>4 DEF Terminal
    <3>2. faults > 0 \/ \E v \in Importers : Held(v, i, g)
        BY <3>1 DEF ImportIInv, HeldOnce
    <3>. QED BY <1>1, <1>3, <1>5, <3>1, <3>2 DEF Held
  <2>. QED BY <2>2, <2>3, <2>4 DEF HeldOnce
<1>. QED BY <1>12, <1>13, <1>14 DEF ImportIInv

\* The steps of an instance in the middle of its item.
MidWork(w) == LookUp(w) \/ Connect(w) \/ LookAgain(w) \/ Insert(w) \/ ImportFails(w)

LEMMA MidWorkImp ==
    ASSUME PoolTypeOK, ImportIInv, NEW w \in Importers, MidWork(w)
    PROVE  \E x \in ImpRow : /\ x.pc # "idle" /\ x.j = imp[w].j /\ x.f = imp[w].f
                             /\ imp' = [imp EXCEPT ![w] = x]
<1>0. imp[w] \in ImpRow
    BY ImportShape DEF ImportIInv
<1>1. ASSUME NEW r \in {"already_connected", "imported", "failed"}, Ends(w, r)
      PROVE  \E x \in ImpRow : /\ x.pc # "idle" /\ x.j = imp[w].j /\ x.f = imp[w].f
                               /\ imp' = [imp EXCEPT ![w] = x]
  <2>. DEFINE x == [imp[w] EXCEPT !.pc = "record", !.result = r]
  <2>1. x \in ImpRow /\ x.pc # "idle" /\ x.j = imp[w].j /\ x.f = imp[w].f
      BY <1>0 DEF ImpRow, Good
  <2>2. imp' = [imp EXCEPT ![w] = x]
      BY <1>1 DEF Ends
  <2>. QED BY <2>1, <2>2
<1>2. ASSUME NEW pc \in {"connected", "insert"}, Step(w, pc)
      PROVE  \E x \in ImpRow : /\ x.pc # "idle" /\ x.j = imp[w].j /\ x.f = imp[w].f
                               /\ imp' = [imp EXCEPT ![w] = x]
  <2>. DEFINE x == [imp[w] EXCEPT !.pc = pc]
  <2>1. x \in ImpRow /\ x.pc # "idle" /\ x.j = imp[w].j /\ x.f = imp[w].f
      BY <1>0 DEF ImpRow
  <2>2. imp' = [imp EXCEPT ![w] = x]
      BY <1>2 DEF Step
  <2>. QED BY <2>1, <2>2
<1>3. ASSUME NEW p \in FreeOrNone, imp' = [imp EXCEPT ![w].pc = "connect", ![w].port = p]
      PROVE  \E x \in ImpRow : /\ x.pc # "idle" /\ x.j = imp[w].j /\ x.f = imp[w].f
                               /\ imp' = [imp EXCEPT ![w] = x]
  <2>. DEFINE x == [imp[w] EXCEPT !.pc = "connect", !.port = p]
  <2>1. x \in ImpRow /\ x.pc # "idle" /\ x.j = imp[w].j /\ x.f = imp[w].f
      BY <1>0, PoolHelpers DEF ImpRow
  <2>2. imp' = [imp EXCEPT ![w] = x]
      BY <1>3
  <2>. QED BY <2>1, <2>2
<1>. QED BY <1>1, <1>2, <1>3 DEF MidWork, LookUp, Connect, LookAgain, Insert, ImportFails

LEMMA ImportKeepsImport ==
    ASSUME PoolTypeOK, ImportIInv, ImportNext
    PROVE  ImportIInv'
<1>0. /\ imp \in [Importers -> ImpRow] /\ job \in [Jobs -> JobRow]
      /\ item \in [Jobs -> [Files -> {"none", "pending", "processing"} \cup Terminal]]
      /\ faults \in Nat
    BY ImportShape DEF ImportIInv, PoolTypeOK
<1>1. ASSUME (\E F \in SUBSET Files : Preview(F)) \/ StagingExpires PROVE ImportIInv'
  <2>1. UNCHANGED <<faults, job, item, imp>> /\ staged' \in [pairs : SUBSET Files,
                                                              st : {"none", "staged", "expired"}]
      BY <1>1 DEF Preview, StagingExpires, poolVars
  <2>2. ImportTypeOK'
      BY <2>1 DEF ImportIInv, ImportTypeOK
  <2>3. \A j \in Jobs : Counted(j)'
    <3>1. \A j \in Jobs : Listed(j)' = Listed(j) /\ Over(j)' = Over(j)
        BY <2>1 DEF Listed, Over
    <3>. QED BY <2>1, <3>1 DEF ImportIInv, Counted
  <2>4. HeldOnce'
      BY <2>1 DEF ImportIInv, HeldOnce, Held
  <2>. QED BY <2>2, <2>3, <2>4 DEF ImportIInv
<1>2. ASSUME NEW j \in Jobs, Confirm(j) PROVE ImportIInv'
  <2>. DEFINE F == staged.pairs
              y == [st |-> "running", total |-> Cardinality(F), processed |-> 0]
              z == [f \in Files |-> IF f \in F THEN "pending" ELSE "none"]
  <2>1. /\ job' = [job EXCEPT ![j] = y] /\ item' = [item EXCEPT ![j] = z]
        /\ UNCHANGED <<faults, staged, imp>> /\ job[j].st = "none"
      BY <1>2 DEF Confirm
  <2>2. F \in SUBSET Files /\ Cardinality(F) \in 0..Cardinality(Files) /\ 0 \in 0..Cardinality(Files)
      BY FilesCount, FS_EmptySet DEF ImportIInv, ImportTypeOK
  <2>3. y \in JobRow /\ y.st = "running" /\ y.total = Cardinality(F) /\ y.processed = 0
      BY <2>2 DEF JobRow
  <2>4. z \in [Files -> {"none", "pending", "processing"} \cup Terminal]
        /\ \A f \in Files : z[f] # "processing" /\ z[f] \notin Terminal /\ (z[f] # "none" <=> f \in F)
      BY DEF Terminal
  <2>. HIDE DEF y, z
  <2>5. /\ job' \in [Jobs -> JobRow] /\ job'[j] = y /\ item'[j] = z
        /\ item' \in [Jobs -> [Files -> {"none", "pending", "processing"} \cup Terminal]]
        /\ \A i \in Jobs \ {j} : job'[i] = job[i] /\ item'[i] = item[i]
      BY <1>0, <2>1, <2>3, <2>4
  <2>6. ImportTypeOK'
      BY <2>1, <2>5 DEF ImportIInv, ImportTypeOK, JobRow
  <2>7. \A i \in Jobs : Counted(i)'
    <3>. SUFFICES ASSUME NEW i \in Jobs PROVE Counted(i)'
        OBVIOUS
    <3>1. CASE i = j
      <4>1. Listed(j)' = F /\ Over(j)' = {}
          BY <2>2, <2>4, <2>5 DEF Listed, Over
      <4>2. y.st # "none" /\ y.st # "done" /\ (0 = Cardinality(F) => ~(Cardinality(F) > 0))
          BY <2>2, <2>3
      <4>. QED BY <2>3, <2>5, <3>1, <4>1, <4>2, FS_EmptySet DEF Counted
    <3>2. CASE i # j
      <4>1. Listed(i)' = Listed(i) /\ Over(i)' = Over(i) /\ job'[i] = job[i]
          BY <2>5, <3>2 DEF Listed, Over
      <4>. QED BY <4>1 DEF ImportIInv, Counted
    <3>. QED BY <3>1, <3>2
  <2>8. \A v \in Importers : imp[v].pc # "idle" => imp[v].j # j
      BY <2>1 DEF ImportIInv, HeldOnce, Counted, Listed
  <2>9. HeldOnce'
      BY <2>1, <2>4, <2>5, <2>8 DEF ImportIInv, HeldOnce, Held
  <2>. QED BY <2>6, <2>7, <2>9 DEF ImportIInv
<1>3. ASSUME NEW w \in Importers, MidWork(w) PROVE ImportIInv'
  <2>1. /\ UNCHANGED <<staged, job, item>> /\ imp[w].pc # "idle"
        /\ UNCHANGED faults \/ Fault
      BY <1>3 DEF MidWork, LookUp, Connect, LookAgain, Insert, ImportFails, poolVars
  <2>2. faults > 0 => faults' > 0
      BY <1>0, <2>1 DEF Fault
  <2>. QED BY <1>3, <2>1, <2>2, MidWorkImp, WorkGoesOn
<1>4. ASSUME NEW w \in Importers, ImportDies(w) PROVE ImportIInv'
  <2>1. imp' = [imp EXCEPT ![w] = IdleImport] /\ UNCHANGED <<staged, job, item>>
      BY <1>4 DEF ImportDies
  <2>2. faults' > 0
      BY <1>0, <1>4 DEF ImportDies, Fault
  <2>3. IdleImport \in ImpRow /\ IdleImport.pc = "idle"
      BY DEF IdleImport, ImpRow
  <2>4. imp' \in [Importers -> ImpRow] /\ imp'[w].pc = "idle"
        /\ \A v \in Importers \ {w} : imp'[v] = imp[v]
      BY <1>0, <2>1, <2>3
  <2>5. ImportTypeOK'
      BY <2>1, <2>4 DEF ImportIInv, ImportTypeOK, ImpRow
  <2>6. (\A i \in Jobs : Counted(i)') /\ HeldOnce'
      BY <2>1, <2>2, <2>4 DEF ImportIInv, Counted, Listed, Over, HeldOnce
  <2>. QED BY <2>5, <2>6 DEF ImportIInv
<1>. QED BY <1>1, <1>2, <1>3, <1>4, ClaimKeepsImport, RecordKeepsImport DEF ImportNext, MidWork

LEMMA ImportKeepsPool ==
    ASSUME PoolTypeOK, ImportIInv, ImportNext
    PROVE  PoolTypeOK'
<1>1. ASSUME UNCHANGED poolVars PROVE PoolTypeOK'
    BY <1>1 DEF PoolTypeOK, poolVars
<1>2. ASSUME UNCHANGED <<sender, port, post, overlap, learned>>,
             (Asks /\ UNCHANGED faults) \/ (Fault /\ UNCHANGED ops)
      PROVE  PoolTypeOK'
  <2>1. ops' \in 0..MaxOps /\ faults' \in 0..MaxFaults
      BY <1>2, PoolHelpers DEF PoolTypeOK
  <2>. QED BY <1>2, <2>1 DEF PoolTypeOK
<1>3. ASSUME NEW w \in Importers, Insert(w) PROVE PoolTypeOK'
  <2>. DEFINE a == Holder[imp[w].f]
              p == imp[w].port
              x == [on |-> TRUE, key |-> a, tg |-> a, phone |-> imp[w].f, auth |-> "ok", proxy |-> p]
  <2>1. imp[w].f \in Files /\ p \in Ports \cup {None} /\ a \in Accounts
      BY <1>3, ImportShape, PoolHolder DEF ImportIInv, HeldOnce, Insert, ImpRow
  <2>2. x \in SenderRow /\ a \in SenderRows
      BY <2>1 DEF SenderRow, Address, SenderRows
  <2>3. CASE sender[a].on
      BY <1>1, <1>3, <2>3 DEF Insert, poolVars
  <2>4. CASE ~sender[a].on
    <3>1. /\ sender' = [sender EXCEPT ![a] = x] /\ port' = Marked(p, a) /\ overlap' = Clash(p, a)
          /\ UNCHANGED <<post, ops, faults, learned>>
        BY <1>3, <2>4 DEF Insert
    <3>. HIDE DEF x, a, p
    <3>2. sender' \in [SenderRows -> SenderRow] /\ port' \in [Ports -> PortRow] /\ overlap' \subseteq Ports
        BY <2>2, <3>1, PoolHelpers
    <3>. QED BY <3>1, <3>2 DEF PoolTypeOK, SenderRow, PortRow, Address
  <2>. QED BY <2>3, <2>4
<1>4. ASSUME NEW w \in Importers,
             ClaimItem(w) \/ LookUp(w) \/ Connect(w) \/ Record(w)
      PROVE  PoolTypeOK'
    BY <1>1, <1>4 DEF ClaimItem, LookUp, Connect, Record
<1>5. ASSUME NEW w \in Importers, ImportFails(w) \/ ImportDies(w) PROVE PoolTypeOK'
    BY <1>2, <1>5 DEF ImportFails, ImportDies
<1>6. ASSUME (\E F \in SUBSET Files : Preview(F)) \/ StagingExpires PROVE PoolTypeOK'
    BY <1>1, <1>6 DEF Preview, StagingExpires
<1>7. ASSUME NEW j \in Jobs, Confirm(j) PROVE PoolTypeOK'
    BY <1>2, <1>7 DEF Confirm
<1>8. ASSUME NEW w \in Importers, LookAgain(w) PROVE PoolTypeOK'
  <2>1. learned' \subseteq learned /\ UNCHANGED <<sender, port, post, ops, faults, overlap>>
      BY <1>8 DEF LookAgain
  <2>. QED BY <2>1 DEF PoolTypeOK
<1>. QED BY <1>3, <1>4, <1>5, <1>6, <1>7, <1>8 DEF ImportNext

-----------------------------------------------------------------------------
(* What an import learned by its second look.                               *)

\* An import that is about to insert an account found no other row with its telegram id, and
\* none has got it since, unless by a re-auth; a row that does not exist has none.
LooksStand ==
    /\ \A r \in SenderRows : ~sender[r].on => sender[r].tg = None
    /\ \A w \in Importers : imp[w].pc = "insert" =>
          \A r \in SenderRows : sender[r].tg = Holder[imp[w].f] => r = sender[r].tg \/ sender[r].tg \in learned

\* A step that writes a telegram id only into the row of that name, or as one learned.
LEMMA LooksKept ==
    ASSUME LooksStand, ImportIInv,
           \A r \in SenderRows : sender'[r].tg \in {sender[r].tg, None, r} \cup learned',
           \A r \in SenderRows : ~sender'[r].on => sender'[r].tg = None,
           learned \subseteq learned',
           \A w \in Importers : imp'[w].pc = "insert" => imp[w].pc = "insert" /\ imp'[w].f = imp[w].f
    PROVE  LooksStand'
<1>1. \A w \in Importers : imp[w].pc = "insert" => Holder[imp[w].f] # None
    BY PoolHolder, PoolNames DEF ImportIInv, HeldOnce
<1>2. ASSUME NEW w \in Importers, imp'[w].pc = "insert", NEW r \in SenderRows,
             sender'[r].tg = Holder[imp'[w].f]
      PROVE  r = sender'[r].tg \/ sender'[r].tg \in learned'
    BY <1>1, <1>2 DEF LooksStand
<1>. QED BY <1>2 DEF LooksStand

LEMMA PoolKeepsLooks ==
    ASSUME LooksStand, PoolTypeOK, ImportIInv, PoolNext, UNCHANGED importVars
    PROVE  LooksStand'
<1>0. sender \in [SenderRows -> SenderRow]
    BY PoolHelpers
<1>. DEFINE Kept == \A r \in SenderRows :
                        \/ sender'[r].tg = None
                        \/ sender'[r].tg = sender[r].tg /\ sender'[r].on = sender[r].on
<1>2. learned' = learned /\ Kept
  <2>1. ASSUME NEW x \in Extra, NEW k \in Accounts, PostSender(x, k) PROVE Kept
      BY <1>0, <2>1 DEF PostSender, Absent
  <2>2. CASE PostReadsPool
      BY <2>2 DEF PostReadsPool
  <2>3. CASE PostTakesPort
      BY <1>0, <2>3 DEF PostTakesPort, SenderRow
  <2>4. CASE Reclaim
      BY <1>0, <2>4 DEF Reclaim, Unproxied, SenderRow
  <2>5. ASSUME NEW r \in SenderRows, DeleteSender(r) \/ Dies(r) PROVE Kept
      BY <1>0, <2>5 DEF DeleteSender, Dies, Absent, SenderRow
  <2>6. ASSUME NEW r \in SenderRows, NEW k \in Accounts, PatchSender(r, k) PROVE Kept
      BY <1>0, <2>6 DEF PatchSender, SenderRow
  <2>7. ASSUME NEW r \in SenderRows, NEW p \in Ports, AssignProxy(r, p) PROVE Kept
      BY <1>0, <2>7 DEF AssignProxy, SenderRow
  <2>8. ASSUME NEW p \in Ports, DeleteProxy(p) \/ CreateProxy(p) \/ QuarantineEnds(p) PROVE Kept
      BY <2>8 DEF DeleteProxy, CreateProxy, QuarantineEnds
  <2>9. learned' = learned
      BY DEF PoolNext, PostSender, PostReadsPool, PostTakesPort, Reclaim, DeleteSender, Dies, PatchSender,
             AssignProxy, DeleteProxy, CreateProxy, QuarantineEnds
  <2>. QED BY <2>1, <2>2, <2>3, <2>4, <2>5, <2>6, <2>7, <2>8, <2>9 DEF PoolNext
<1>. QED BY <1>2, LooksKept DEF LooksStand, importVars

LEMMA LooksInit == InitPool /\ InitImport => LooksStand
<1>. SUFFICES ASSUME InitPool, InitImport PROVE LooksStand
    OBVIOUS
<1>1. \A w \in Importers : imp[w].pc = "idle"
    BY DEF InitImport, IdleImport
<1>2. \A r \in SenderRows : ~sender[r].on => sender[r].tg = None
  <2>1. PICK r \in SenderRows \cup {None}, k \in Accounts, tg \in Accounts \cup {None}, p \in Ports :
        /\ tg # k => tg = None /\ r \in Extra
        /\ r \in Accounts => r = k
        /\ sender = [s \in SenderRows |-> IF s = r THEN [Absent EXCEPT !.on = TRUE, !.key = k, !.tg = tg,
                                                         !.proxy = p] ELSE Absent]
        /\ port = [o \in Ports |-> [on |-> TRUE, at |-> IF o = p THEN r ELSE None, rests |-> FALSE]]
      BY DEF InitPool
  <2>2. [Absent EXCEPT !.on = TRUE, !.key = k, !.tg = tg, !.proxy = p].on /\ Absent.tg = None
      BY DEF Absent
  <2>. QED BY <2>1, <2>2
<1>. QED BY <1>1, <1>2 DEF LooksStand

LEMMA ImportKeepsLooks ==
    ASSUME LooksStand, PoolTypeOK, ImportIInv, ImportNext
    PROVE  LooksStand'
<1>0. sender \in [SenderRows -> SenderRow] /\ imp \in [Importers -> ImpRow]
    BY PoolHelpers, ImportShape DEF ImportIInv
<1>1. ASSUME UNCHANGED <<sender, learned>>,
             \A w \in Importers : imp'[w].pc = "insert" => imp[w].pc = "insert" /\ imp'[w].f = imp[w].f
      PROVE  LooksStand'
    BY <1>1 DEF LooksStand
<1>2. ASSUME UNCHANGED imp, UNCHANGED <<sender, learned>> PROVE LooksStand'
    BY <1>1, <1>2
<1>3. ASSUME NEW w \in Importers, NEW x, x.pc # "insert", imp' = [imp EXCEPT ![w] = x]
      PROVE  \A v \in Importers : imp'[v].pc = "insert" => imp[v].pc = "insert" /\ imp'[v].f = imp[v].f
    BY <1>0, <1>3
<1>4. ASSUME NEW w \in Importers, NEW pc, pc # "insert", imp' = [imp EXCEPT ![w].pc = pc]
      PROVE  \A v \in Importers : imp'[v].pc = "insert" => imp[v].pc = "insert" /\ imp'[v].f = imp[v].f
    BY <1>0, <1>4 DEF ImpRow
<1>5. ASSUME NEW w \in Importers, NEW r, Ends(w, r)
      PROVE  \A v \in Importers : imp'[v].pc = "insert" => imp[v].pc = "insert" /\ imp'[v].f = imp[v].f
    BY <1>0, <1>5 DEF ImpRow, Ends
<1>6. ASSUME NEW w \in Importers, ClaimItem(w) PROVE LooksStand'
  <2>1. \E x : x.pc # "insert" /\ imp' = [imp EXCEPT ![w] = x]
    <3>1. PICK j \in Jobs, f \in Files :
            imp' = [imp EXCEPT ![w] = [IdleImport EXCEPT !.pc = "claimed", !.j = j, !.f = f]]
        BY <1>6 DEF ClaimItem
    <3>2. [IdleImport EXCEPT !.pc = "claimed", !.j = j, !.f = f].pc = "claimed"
        BY DEF IdleImport
    <3>. QED BY <3>1, <3>2
  <2>. QED BY <1>1, <1>3, <1>6, <2>1 DEF ClaimItem, poolVars
<1>7. ASSUME NEW w \in Importers, LookUp(w) PROVE LooksStand'
  <2>1. CASE \E r : Ends(w, r)
      BY <1>1, <1>5, <1>7, <2>1 DEF LookUp, poolVars
  <2>2. CASE \E p \in FreeOrNone : imp' = [imp EXCEPT ![w].pc = "connect", ![w].port = p]
    <3>1. \A v \in Importers : imp'[v].pc = "insert" => imp[v].pc = "insert" /\ imp'[v].f = imp[v].f
        BY <1>0, <2>2 DEF ImpRow
    <3>. QED BY <1>1, <1>7, <3>1 DEF LookUp, poolVars
  <2>. QED BY <1>7, <2>1, <2>2 DEF LookUp
<1>8. ASSUME NEW w \in Importers, Connect(w) PROVE LooksStand'
    BY <1>1, <1>4, <1>5, <1>8 DEF Connect, Step, poolVars
<1>9. ASSUME NEW w \in Importers, LookAgain(w) PROVE LooksStand'
  <2>. DEFINE a == Holder[imp[w].f]
  <2>1. CASE HasRow(a)
      BY <1>1, <1>5, <1>9, <2>1 DEF LookAgain
  <2>2. CASE ~HasRow(a)
    <3>1. sender' = sender /\ learned' = learned \ {a} /\ imp' = [imp EXCEPT ![w].pc = "insert"]
        BY <1>9, <2>2 DEF LookAgain, Step
    <3>2. a # None
        BY <1>9, PoolHolder, PoolNames DEF ImportIInv, HeldOnce, LookAgain
    <3>3. \A r \in SenderRows : sender[r].tg # a
        BY <2>2, <3>2 DEF LooksStand, HasRow, On
    <3>4. \A v \in Importers : imp'[v].f = imp[v].f /\ (v # w => imp'[v] = imp[v])
        BY <1>0, <3>1 DEF ImpRow
    <3>. HIDE DEF a
    <3>5. ASSUME NEW v \in Importers, imp'[v].pc = "insert", NEW r \in SenderRows,
                 sender'[r].tg = Holder[imp'[v].f]
          PROVE  r = sender'[r].tg \/ sender'[r].tg \in learned'
      <4>1. CASE v = w
          BY <3>1, <3>3, <3>4, <3>5, <4>1 DEF a
      <4>2. CASE v # w
          BY <3>1, <3>3, <3>4, <3>5, <4>2 DEF LooksStand
      <4>. QED BY <4>1, <4>2
    <3>. QED BY <3>1, <3>5 DEF LooksStand
  <2>. QED BY <2>1, <2>2
<1>10. ASSUME NEW w \in Importers, Insert(w) PROVE LooksStand'
  <2>. DEFINE a == Holder[imp[w].f]
  <2>1. \A v \in Importers : imp'[v].pc = "insert" => imp[v].pc = "insert" /\ imp'[v].f = imp[v].f
      BY <1>5, <1>10 DEF Insert
  <2>2. CASE sender[a].on
      BY <1>1, <1>10, <2>1, <2>2 DEF Insert
  <2>3. CASE ~sender[a].on
    <3>1. PICK x : x.on /\ x.tg = a /\ sender' = [sender EXCEPT ![a] = x] /\ learned' = learned
        BY <1>10, <2>3 DEF Insert
    <3>. HIDE DEF a
    <3>2. \A r \in SenderRows : sender'[r] = IF r = a THEN x ELSE sender[r]
        BY <1>0, <3>1
    <3>. QED BY <2>1, <3>1, <3>2, LooksKept DEF LooksStand
  <2>. QED BY <2>2, <2>3
<1>11. ASSUME NEW w \in Importers, ImportFails(w) PROVE LooksStand'
    BY <1>1, <1>5, <1>11 DEF ImportFails
<1>12. ASSUME NEW w \in Importers, Record(w) \/ ImportDies(w) PROVE LooksStand'
  <2>1. IdleImport.pc # "insert" /\ imp' = [imp EXCEPT ![w] = IdleImport] /\ UNCHANGED <<sender, learned>>
      BY <1>12 DEF Record, ImportDies, IdleImport, poolVars
  <2>. QED BY <1>1, <1>3, <2>1
<1>13. ASSUME \/ \E F \in SUBSET Files : Preview(F)
              \/ StagingExpires
              \/ \E j \in Jobs : Confirm(j)
       PROVE  LooksStand'
    BY <1>2, <1>13 DEF Preview, StagingExpires, Confirm, poolVars
<1>. QED BY <1>6, <1>7, <1>8, <1>9, <1>10, <1>11, <1>12, <1>13 DEF ImportNext

-----------------------------------------------------------------------------
(* Logins.                                                                  *)

\* A login cut off while Telegram was asked waits for an answer that does not come.
CutOff == \A s \in Flows : flow[s].cut => flow[s].call = "asking" /\ ~flow[s].hot /\ flow[s].pc = "none"

LoginIInv == OnboardingTypeOK /\ CutOff

LEMMA FlowShape == OnboardingTypeOK <=> flow \in [Flows -> FlowRow]
BY DEF OnboardingTypeOK, FlowRow, Address

LEMMA LoginInitIInv == InitOnboarding => LoginIInv
<1>1. Gone \in FlowRow /\ ~Gone.cut
    BY DEF Gone, FlowRow, Address
<1>. QED BY <1>1, FlowShape DEF InitOnboarding, LoginIInv, CutOff

\* A step that writes one flow.
LEMMA FlowWritten ==
    ASSUME LoginIInv, NEW s \in Flows, NEW x \in FlowRow,
           x.cut => x.call = "asking" /\ ~x.hot /\ x.pc = "none",
           flow' = [flow EXCEPT ![s] = x]
    PROVE  LoginIInv'
<1>1. flow' \in [Flows -> FlowRow] /\ flow'[s] = x /\ \A r \in Flows \ {s} : flow'[r] = flow[r]
    BY FlowShape DEF LoginIInv
<1>2. OnboardingTypeOK'
    BY <1>1 DEF OnboardingTypeOK, FlowRow, Address
<1>3. CutOff'
    BY <1>1 DEF LoginIInv, CutOff
<1>. QED BY <1>2, <1>3 DEF LoginIInv

\* The writes of a flow that the steps below make.
LEMMA FlowRowKeeps ==
    ASSUME NEW r \in FlowRow
    PROVE  /\ \A c \in {"idle", "recovering", "asking", "signed"} :
                  LET x == [r EXCEPT !.call = c] IN
                  x \in FlowRow /\ x.cut = r.cut /\ x.hot = r.hot /\ x.pc = r.pc /\ x.call = c
           /\ LET x == [r EXCEPT !.call = "asking", !.hot = TRUE] IN x \in FlowRow /\ x.cut = r.cut
           /\ LET x == [r EXCEPT !.pc = "none"] IN
                 x \in FlowRow /\ x.cut = r.cut /\ x.hot = r.hot /\ x.call = r.call /\ x.pc = "none"
           /\ LET x == [r EXCEPT !.hot = FALSE, !.task = FALSE, !.call = "idle"] IN
                 x \in FlowRow /\ x.cut = r.cut
BY DEF FlowRow

LEMMA GoneFlow == Gone \in FlowRow /\ ~Gone.cut
BY DEF Gone, FlowRow, Address

LEMMA BeginKeepsLogin ==
    ASSUME PoolTypeOK, LoginIInv, NEW s \in Flows, NEW via \in {"phone", "qr"}, NEW k \in Accounts,
           NEW r \in SenderRows \cup {None}, NEW p \in Address, Begin(s, via, k, r, p)
    PROVE  PoolTypeOK' /\ LoginIInv'
<1>. DEFINE x == [Gone EXCEPT !.pc = "code_sent", !.key = k, !.row = r,
                              !.proxy = p, !.hot = TRUE, !.task = (via = "qr"),
                              !.call = IF via = "qr" THEN "asking" ELSE "idle"]
<1>1. x \in FlowRow /\ ~x.cut
    BY DEF Gone, FlowRow
<1>2. flow' = [flow EXCEPT ![s] = x]
    BY DEF Begin
<1>. HIDE DEF x
<1>3. LoginIInv'
    BY <1>1, <1>2, FlowWritten
<1>4. PoolTypeOK'
  <2>1. Asks /\ UNCHANGED <<sender, port, post, faults, overlap, learned>>
      BY DEF Begin
  <2>2. ops' \in 0..MaxOps
      BY <2>1, PoolHelpers
  <2>. QED BY <2>1, <2>2 DEF PoolTypeOK
<1>. QED BY <1>3, <1>4

\* The steps of a login that leave the pool alone.
LEMMA SignInKeepsLogin ==
    ASSUME LoginIInv, NEW s \in Flows,
           \/ Verify(s) \/ Recovered(s) \/ AskedFor2FA(s) \/ WrongCode(s) \/ SignInFails(s)
           \/ SignedIn(s) \/ FlowExpires(s) \/ Ended(s)
    PROVE  LoginIInv'
<1>0. flow[s] \in FlowRow /\ (flow[s].cut => flow[s].call = "asking" /\ ~flow[s].hot /\ flow[s].pc = "none")
    BY FlowShape DEF LoginIInv, CutOff
<1>1. ASSUME flow' = [flow EXCEPT ![s] = Gone] PROVE LoginIInv'
    BY <1>1, GoneFlow, FlowWritten
<1>2. ASSUME NEW pc \in {"code_sent", "awaiting_2fa", "failed"}, Returns(s, pc) PROVE LoginIInv'
  <2>1. CASE Open(s)
    <3>. DEFINE x == [flow[s] EXCEPT !.pc = pc, !.call = "idle", !.task = FALSE,
                                     !.hot = flow[s].hot /\ ~flow[s].task]
    <3>1. x.cut = flow[s].cut /\ ~flow[s].cut /\ x \in FlowRow
        BY <1>0, <2>1 DEF FlowRow, Open
    <3>2. flow' = [flow EXCEPT ![s] = x]
        BY <1>2, <2>1 DEF Returns
    <3>. HIDE DEF x
    <3>. QED BY <3>1, <3>2, FlowWritten
  <2>2. CASE ~Open(s)
      BY <1>1, <1>2, <2>2 DEF Returns
  <2>. QED BY <2>1, <2>2
<1>3. CASE Verify(s) \/ SignedIn(s)
  <2>1. PICK c \in {"asking", "recovering", "signed"} : flow' = [flow EXCEPT ![s].call = c]
      BY <1>3 DEF Verify, SignedIn
  <2>. DEFINE x == [flow[s] EXCEPT !.call = c]
  <2>2. x \in FlowRow /\ ~x.cut
      BY <1>0, <1>3 DEF FlowRow, Verify, SignedIn
  <2>3. flow' = [flow EXCEPT ![s] = x]
      BY <2>1
  <2>. HIDE DEF x
  <2>. QED BY <2>2, <2>3, FlowWritten
<1>4. CASE Recovered(s)
  <2>. DEFINE x == [flow[s] EXCEPT !.call = "asking", !.hot = TRUE]
  <2>1. x \in FlowRow /\ ~x.cut
      BY <1>0, <1>4 DEF FlowRow, Recovered
  <2>2. flow' = [flow EXCEPT ![s] = x]
      BY <1>4 DEF Recovered
  <2>. HIDE DEF x
  <2>. QED BY <2>1, <2>2, FlowWritten
<1>5. CASE AskedFor2FA(s)
    BY <1>2, <1>5 DEF AskedFor2FA
<1>6. CASE WrongCode(s)
    BY <1>1, <1>2, <1>6 DEF WrongCode, Returns, Open
<1>7. CASE SignInFails(s)
    BY <1>1, <1>2, <1>7 DEF SignInFails, Returns, Open
<1>8. CASE FlowExpires(s)
  <2>. DEFINE x == [flow[s] EXCEPT !.pc = "none"]
  <2>1. x \in FlowRow /\ ~x.cut
      BY <1>0, <1>8 DEF FlowRow, FlowExpires, Open
  <2>2. flow' = [flow EXCEPT ![s] = Gone] \/ flow' = [flow EXCEPT ![s] = x]
      BY <1>8 DEF FlowExpires
  <2>. HIDE DEF x
  <2>. QED BY <1>1, <2>1, <2>2, FlowWritten
<1>9. CASE Ended(s)
    BY <1>1, <1>9 DEF Ended
<1>. QED BY <1>3, <1>4, <1>5, <1>6, <1>7, <1>8, <1>9

LEMMA CancelKeepsLogin ==
    ASSUME LoginIInv, NEW s \in Flows, Cancel(s)
    PROVE  LoginIInv'
<1>. DEFINE x == [flow[s] EXCEPT !.pc = "none", !.hot = FALSE,
                                 !.cut = flow[s].cut \/ flow[s].call = "asking"]
<1>1. flow[s] \in FlowRow /\ ~flow[s].cut
    BY FlowShape DEF LoginIInv, CutOff, Cancel, Open
<1>2. x \in FlowRow /\ x.pc = "none" /\ ~x.hot /\ x.call = flow[s].call
      /\ x.cut = (flow[s].cut \/ flow[s].call = "asking")
    BY <1>1 DEF FlowRow
<1>3. flow' = [flow EXCEPT ![s] = Gone] \/ flow' = [flow EXCEPT ![s] = x]
    BY DEF Cancel, LeftConnected
<1>. HIDE DEF x
<1>. QED BY <1>1, <1>2, <1>3, GoneFlow, FlowWritten

LEMMA RestartKeepsLogin ==
    ASSUME LoginIInv, RestartApi
    PROVE  LoginIInv'
<1>. DEFINE Stopped(s) == [flow[s] EXCEPT !.hot = FALSE, !.task = FALSE, !.call = "idle"]
<1>1. \A s \in Flows : Open(s) => Stopped(s) \in FlowRow /\ ~Stopped(s).cut
  <2>. SUFFICES ASSUME NEW s \in Flows, Open(s) PROVE Stopped(s) \in FlowRow /\ ~Stopped(s).cut
      OBVIOUS
  <2>1. flow[s] \in FlowRow /\ ~flow[s].cut
      BY FlowShape DEF LoginIInv, CutOff, Open
  <2>. QED BY <2>1 DEF FlowRow
<1>2. flow' = [s \in Flows |-> IF Open(s) THEN Stopped(s) ELSE Gone]
    BY DEF RestartApi
<1>. HIDE DEF Stopped
<1>3. flow' \in [Flows -> FlowRow] /\ \A s \in Flows : ~flow'[s].cut
    BY <1>1, <1>2, GoneFlow
<1>. QED BY <1>3 DEF LoginIInv, OnboardingTypeOK, CutOff, FlowRow, Address

\* The writes of a login to the accounts.
LEMMA FinishKeepsPool ==
    ASSUME PoolTypeOK, LoginIInv, NEW s \in Flows, FinishReauth(s) \/ FinishLogin(s)
    PROVE  PoolTypeOK'
<1>. DEFINE k == flow[s].key
            p == flow[s].proxy
            r == flow[s].row
<1>0. /\ k \in Accounts \cup {None} /\ p \in Address /\ r \in SenderRows \cup {None}
      /\ sender \in [SenderRows -> SenderRow]
    BY FlowShape, PoolHelpers DEF LoginIInv, FlowRow
<1>1. \A x \in SenderRow : WithProxy(x, p) \in SenderRow
    BY <1>0, SenderRowKeeps DEF WithProxy
<1>2. \A t : Unmarked(p, t) \subseteq Ports
    BY DEF Unmarked, PoolTypeOK
<1>3. ASSUME NEW t \in SenderRows, NEW x \in SenderRow, sender' = [sender EXCEPT ![t] = WithProxy(x, p)],
             overlap' = Unmarked(p, t), learned' \subseteq Accounts \cup {None}, UNCHANGED <<port, post, ops, faults>>
      PROVE  PoolTypeOK'
  <2>1. sender' \in [SenderRows -> SenderRow]
      BY <1>0, <1>1, <1>3
  <2>. QED BY <1>2, <1>3, <2>1 DEF PoolTypeOK, SenderRow, Address
<1>. HIDE DEF p, k
<1>4. CASE FinishReauth(s)
  <2>1. PICK known \in Knows(s) :
            /\ sender' = [sender EXCEPT ![r] = WithProxy(Refreshed(r, k, known), p)]
            /\ learned' = IF known /\ sender[r].tg = None THEN learned \cup {k} ELSE learned
      BY <1>4 DEF FinishReauth, k, p
  <2>2. r \in SenderRows /\ known \in BOOLEAN
      BY <1>0, <1>4 DEF FinishReauth, Knows
  <2>3. Refreshed(r, k, known) \in SenderRow
      BY <1>0, <2>2, ZenonT(40) DEF Refreshed, SenderRow
  <2>4. learned' \subseteq Accounts \cup {None}
      BY <1>0, <2>1 DEF PoolTypeOK, k
  <2>5. overlap' = Unmarked(p, r) /\ UNCHANGED <<port, post, ops, faults>>
      BY <1>4 DEF FinishReauth, p
  <2>. QED BY <1>3, <2>1, <2>2, <2>3, <2>4, <2>5
<1>5. CASE FinishLogin(s)
  <2>1. PICK known \in Knows(s) : \E t \in TargetRow(k, known) :
              /\ sender' = [sender EXCEPT ![t] = WithProxy(LoggedIn(t, k, known), p)]
              /\ overlap' = Unmarked(p, t)
      BY <1>5 DEF FinishLogin, k, p
  <2>2. PICK t \in TargetRow(k, known) :
              /\ sender' = [sender EXCEPT ![t] = WithProxy(LoggedIn(t, k, known), p)]
              /\ overlap' = Unmarked(p, t)
      BY <2>1
  <2>3. CASE t \in SenderRows
    <3>1. LoggedIn(t, k, known) \in SenderRow
        BY <1>0, <2>3 DEF LoggedIn, SenderRow
    <3>2. learned' \subseteq Accounts \cup {None} /\ UNCHANGED <<port, post, ops, faults>>
        BY <1>5 DEF FinishLogin, PoolTypeOK
    <3>. QED BY <1>3, <2>2, <2>3, <3>1, <3>2
  <2>4. CASE t \notin SenderRows
    <3>1. sender' = sender
        BY <1>0, <2>2, <2>4
    <3>2. overlap' \subseteq Ports
        BY <1>2, <2>2
    <3>. QED BY <1>5, <3>1, <3>2 DEF FinishLogin, PoolTypeOK
  <2>. QED BY <2>3, <2>4
<1>. QED BY <1>4, <1>5

LEMMA OnboardingKeeps ==
    ASSUME PoolTypeOK, LoginIInv, OnboardingNext
    PROVE  PoolTypeOK' /\ LoginIInv'
<1>1. ASSUME UNCHANGED poolVars PROVE PoolTypeOK'
    BY <1>1 DEF PoolTypeOK, poolVars
<1>2. ASSUME NEW s \in Flows, NEW via \in {"phone", "qr"}, NEW k \in Accounts,
             Start(s, via, k) \/ \E r \in SenderRows : Reauth(s, via, k, r)
      PROVE  PoolTypeOK' /\ LoginIInv'
  <2>1. CASE Start(s, via, k)
      BY <2>1, BeginKeepsLogin DEF Start, Address
  <2>2. CASE \E r \in SenderRows : Reauth(s, via, k, r)
    <3>1. PICK r \in SenderRows : Reauth(s, via, k, r)
        BY <2>2
    <3>2. sender[r].proxy \in Address
        BY PoolHelpers DEF SenderRow
    <3>. QED BY <3>1, <3>2, BeginKeepsLogin DEF Reauth
  <2>. QED BY <1>2, <2>1, <2>2
<1>3. ASSUME NEW s \in Flows, \/ Verify(s) \/ Recovered(s) \/ AskedFor2FA(s) \/ WrongCode(s)
                              \/ SignInFails(s) \/ SignedIn(s) \/ FinishUnwanted(s) \/ FlowExpires(s)
      PROVE  PoolTypeOK' /\ LoginIInv'
  <2>1. UNCHANGED poolVars
      BY <1>3 DEF Verify, Recovered, AskedFor2FA, WrongCode, SignInFails, SignedIn, FinishUnwanted,
                  FlowExpires
  <2>2. FinishUnwanted(s) => Ended(s)
      BY DEF FinishUnwanted
  <2>. QED BY <1>1, <1>3, <2>1, <2>2, SignInKeepsLogin
<1>4. ASSUME NEW s \in Flows, FinishReauth(s) \/ FinishLogin(s) PROVE PoolTypeOK' /\ LoginIInv'
  <2>1. Ended(s)
      BY <1>4 DEF FinishReauth, FinishLogin
  <2>. QED BY <1>4, <2>1, FinishKeepsPool, SignInKeepsLogin
<1>5. ASSUME NEW s \in Flows, Cancel(s) PROVE PoolTypeOK' /\ LoginIInv'
  <2>1. Asks /\ UNCHANGED <<sender, port, post, faults, overlap, learned>>
      BY <1>5 DEF Cancel
  <2>2. ops' \in 0..MaxOps
      BY <2>1, PoolHelpers
  <2>3. PoolTypeOK'
      BY <2>1, <2>2 DEF PoolTypeOK
  <2>. QED BY <1>5, <2>3, CancelKeepsLogin
<1>6. ASSUME RestartApi PROVE PoolTypeOK' /\ LoginIInv'
  <2>1. Fault /\ UNCHANGED <<sender, port, post, ops, overlap, learned>>
      BY <1>6 DEF RestartApi
  <2>2. faults' \in 0..MaxFaults
      BY <2>1, PoolHelpers
  <2>3. PoolTypeOK'
      BY <2>1, <2>2 DEF PoolTypeOK
  <2>. QED BY <1>6, <2>3, RestartKeepsLogin
<1>. QED BY <1>2, <1>3, <1>4, <1>5, <1>6 DEF OnboardingNext

LEMMA LoginKeepsLooks ==
    ASSUME LooksStand, PoolTypeOK, ImportIInv, LoginIInv, OnboardingNext, UNCHANGED importVars
    PROVE  LooksStand'
<1>0. sender \in [SenderRows -> SenderRow]
    BY PoolHelpers
<1>1. ASSUME UNCHANGED <<sender, learned>> PROVE LooksStand'
    BY <1>1 DEF LooksStand, importVars
<1>2. \A x, p : x \in SenderRow => WithProxy(x, p).tg = x.tg /\ WithProxy(x, p).on = x.on
    BY DEF WithProxy, SenderRow
<1>3. ASSUME NEW t \in SenderRows, NEW x \in SenderRow, NEW p, x.on, learned \subseteq learned',
             x.tg \in {sender[t].tg, t} \cup learned', sender' = [sender EXCEPT ![t] = WithProxy(x, p)]
      PROVE  LooksStand'
  <2>1. \A r \in SenderRows : /\ r = t => sender'[r].tg = x.tg /\ sender'[r].on
                              /\ r # t => sender'[r] = sender[r]
      BY <1>0, <1>2, <1>3
  <2>. QED BY <1>3, <2>1, LooksKept DEF LooksStand, importVars
<1>4. ASSUME NEW s \in Flows, FinishReauth(s) PROVE LooksStand'
  <2>. DEFINE r == flow[s].row
              k == flow[s].key
  <2>1. PICK known \in Knows(s) :
            /\ sender' = [sender EXCEPT ![r] = WithProxy(Refreshed(r, k, known), flow[s].proxy)]
            /\ learned' = IF known /\ sender[r].tg = None THEN learned \cup {k} ELSE learned
      BY <1>4 DEF FinishReauth
  <2>2. r \in SenderRows /\ k \in Accounts \cup {None} /\ sender[r].on /\ known \in BOOLEAN
      BY <1>4, FlowShape DEF LoginIInv, FlowRow, FinishReauth, Knows
  <2>. HIDE DEF r, k
  <2>3. /\ Refreshed(r, k, known) \in SenderRow /\ Refreshed(r, k, known).on
        /\ Refreshed(r, k, known).tg = IF known /\ sender[r].tg = None THEN k ELSE sender[r].tg
      BY <1>0, <2>2 DEF Refreshed, SenderRow
  <2>4. CASE known /\ sender[r].tg = None
    <3>1. Refreshed(r, k, known).tg \in learned' /\ learned \subseteq learned'
        BY <2>1, <2>3, <2>4
    <3>. QED BY <1>3, <2>1, <2>2, <2>3, <3>1
  <2>5. CASE ~(known /\ sender[r].tg = None)
    <3>1. Refreshed(r, k, known).tg = sender[r].tg /\ learned' = learned
        BY <2>1, <2>3, <2>5
    <3>. QED BY <1>3, <2>1, <2>2, <2>3, <3>1
  <2>. QED BY <2>4, <2>5
<1>5. ASSUME NEW s \in Flows, FinishLogin(s) PROVE LooksStand'
  <2>. DEFINE k == flow[s].key
  <2>1. PICK known \in Knows(s) : \E t \in TargetRow(k, known) :
            sender' = [sender EXCEPT ![t] = WithProxy(LoggedIn(t, k, known), flow[s].proxy)]
      BY <1>5 DEF FinishLogin
  <2>2. PICK t \in TargetRow(k, known) :
            sender' = [sender EXCEPT ![t] = WithProxy(LoggedIn(t, k, known), flow[s].proxy)]
      BY <2>1
  <2>3. k \in Accounts \cup {None} /\ learned' = learned /\ (known => t = k)
      BY <1>5, FlowShape DEF LoginIInv, FlowRow, FinishLogin, TargetRow
  <2>. HIDE DEF k
  <2>4. CASE t \in SenderRows
    <3>1. /\ LoggedIn(t, k, known) \in SenderRow /\ LoggedIn(t, k, known).on
          /\ LoggedIn(t, k, known).tg = IF known THEN t ELSE sender[t].tg
        BY <1>0, <2>3, <2>4 DEF LoggedIn, SenderRow
    <3>. QED BY <1>3, <2>2, <2>3, <2>4, <3>1
  <2>5. CASE t \notin SenderRows
      BY <1>0, <1>1, <2>2, <2>3, <2>5
  <2>. QED BY <2>4, <2>5
<1>6. (\E s \in Flows : FinishReauth(s) \/ FinishLogin(s)) \/ UNCHANGED <<sender, learned>>
    BY ZenonT(40) DEF OnboardingNext, poolVars, RestartApi, Start, Reauth, Begin, Verify, Recovered,
           AskedFor2FA, WrongCode, SignInFails, SignedIn, FinishUnwanted, Cancel, FlowExpires
<1>. QED BY <1>1, <1>4, <1>5, <1>6

-----------------------------------------------------------------------------
(* Who uses a port.                                                         *)

\* A port that nobody gave out by name has at most one user, an account that exists, and
\* its row, as long as there is one, says so; only a row that exists is marked.
PortsAreMarked ==
    /\ \A r, s \in SenderRows : sender[r].proxy \in Ports \ overlap =>
          /\ sender[r].on
          /\ port[sender[r].proxy].on => port[sender[r].proxy].at = r
          /\ sender[s].proxy = sender[r].proxy => s = r
    /\ \A p \in Ports : port[p].at # None => port[p].on

\* Nobody comes to use a port, and the rows of those in use stay as they are.
LEMMA MarksStay ==
    ASSUME PortsAreMarked, overlap \subseteq overlap',
           \A r \in SenderRows : sender'[r].proxy \in Ports \ overlap' =>
              /\ sender'[r].proxy = sender[r].proxy /\ (sender'[r].on <=> sender[r].on)
              /\ port'[sender[r].proxy].on =>
                    /\ port[sender[r].proxy].on
                    /\ port'[sender[r].proxy].at = port[sender[r].proxy].at,
           \A p \in Ports : port'[p].at # None => port'[p].on
    PROVE  PortsAreMarked'
BY DEF PortsAreMarked

\* A row comes to use an address: if it is a port that stays out of the overlap, it was
\* free, or nobody else used it, and it is marked for the row.
LEMMA PortIsTaken ==
    ASSUME PortsAreMarked, NEW x \in SenderRows, NEW p \in Address, overlap \subseteq overlap',
           sender'[x].on, sender'[x].proxy = p,
           \A r \in SenderRows \ {x} : sender'[r] = sender[r],
           \A q \in Ports \ {p} : port'[q] = port[q],
           p \in Ports => (port'[p].on <=> port[p].on) /\ (port'[p].at # None => port'[p].on),
           p \in Ports \ overlap' =>
              /\ port[p].on => port'[p].at = x
              /\ \A s \in SenderRows \ {x} : sender[s].proxy # p
    PROVE  PortsAreMarked'
<1>1. ASSUME NEW r \in SenderRows, NEW s \in SenderRows, sender'[r].proxy \in Ports \ overlap'
      PROVE  /\ sender'[r].on
             /\ port'[sender'[r].proxy].on => port'[sender'[r].proxy].at = r
             /\ sender'[s].proxy = sender'[r].proxy => s = r
  <2>1. CASE r = x
      BY <1>1, <2>1
  <2>2. CASE r # x
    <3>1. sender'[r] = sender[r] /\ sender[r].proxy # p /\ sender[r].proxy \in Ports \ overlap
        BY <1>1, <2>2
    <3>2. port'[sender[r].proxy] = port[sender[r].proxy]
        BY <3>1
    <3>3. sender'[s].proxy = sender'[r].proxy => s # x /\ sender'[s] = sender[s]
        BY <3>1
    <3>. QED BY <3>1, <3>2, <3>3 DEF PortsAreMarked
  <2>. QED BY <2>1, <2>2
<1>2. \A q \in Ports : port'[q].at # None => port'[q].on
    BY DEF PortsAreMarked
<1>. QED BY <1>1, <1>2 DEF PortsAreMarked

\* A port that is free or the row's own is used by no other row.
LEMMA NobodyElse ==
    ASSUME PoolTypeOK, PortsAreMarked, NEW p \in Ports \ overlap, NEW x \in SenderRows,
           Free(p) \/ port[p].at = x
    PROVE  port[p].on /\ \A s \in SenderRows \ {x} : sender[s].proxy # p
<1>1. None \notin SenderRows
    BY PoolNames DEF SenderRows
<1>2. port[p].on /\ port[p].at \in {None, x}
    BY <1>1 DEF Free, PortsAreMarked
<1>. QED BY <1>1, <1>2 DEF PortsAreMarked

\* What Marked and Clash do to the other rows.
LEMMA MarkedClashed ==
    ASSUME PoolTypeOK, PortsAreMarked, NEW p \in Address, NEW x \in SenderRows,
           port' = Marked(p, x), overlap' = Clash(p, x)
    PROVE  /\ overlap \subseteq overlap'
           /\ \A q \in Ports \ {p} : port'[q] = port[q]
           /\ p \in Ports => (port'[p].on <=> port[p].on) /\ (port'[p].at # None => port'[p].on)
           /\ p \in Ports \ overlap' =>
                 /\ port[p].on => port'[p].at = x
                 /\ \A s \in SenderRows \ {x} : sender[s].proxy # p
<1>1. port \in [Ports -> PortRow]
    BY PoolHelpers
<1>2. overlap \subseteq overlap' /\ (p \in Ports \ overlap' => p \notin overlap /\ (Free(p) \/ port[p].at = x))
    BY DEF Clash
<1>3. \A q \in Ports \ {p} : port'[q] = port[q]
    BY <1>1 DEF Marked
<1>4. ASSUME p \in Ports PROVE /\ port'[p].on <=> port[p].on
                               /\ port[p].on => port'[p].at = x
                               /\ port'[p].at # None => port'[p].on
  <2>1. port'[p] = IF port[p].on THEN [port[p] EXCEPT !.at = x] ELSE port[p]
      BY <1>1, <1>4 DEF Marked
  <2>. QED BY <1>1, <1>4, <2>1 DEF PortRow, PortsAreMarked
<1>5. p \in Ports \ overlap' => \A s \in SenderRows \ {x} : sender[s].proxy # p
    BY <1>2, NobodyElse
<1>. QED BY <1>2, <1>3, <1>4, <1>5

LEMMA PortsInit == InitPool => PortsAreMarked
<1>. SUFFICES ASSUME InitPool PROVE PortsAreMarked
    OBVIOUS
<1>1. PICK r \in SenderRows \cup {None}, k \in Accounts, tg \in Accounts \cup {None}, p \in Ports :
        /\ tg # k => tg = None /\ r \in Extra
        /\ r \in Accounts => r = k
        /\ sender = [s \in SenderRows |-> IF s = r THEN [Absent EXCEPT !.on = TRUE, !.key = k, !.tg = tg,
                                                         !.proxy = p] ELSE Absent]
        /\ port = [o \in Ports |-> [on |-> TRUE, at |-> IF o = p THEN r ELSE None, rests |-> FALSE]]
    BY DEF InitPool
<1>0. Absent.proxy = None /\ None \notin Ports
    BY PoolNames DEF Absent
<1>a. /\ [Absent EXCEPT !.on = TRUE, !.key = k, !.tg = tg, !.proxy = p].on
      /\ [Absent EXCEPT !.on = TRUE, !.key = k, !.tg = tg, !.proxy = p].proxy = p
    BY DEF Absent
<1>2. \A s \in SenderRows : sender[s].proxy \in Ports => s = r /\ sender[s].proxy = p /\ sender[s].on
    BY <1>0, <1>1, <1>a
<1>3. \A o \in Ports : port[o].on /\ port[o].at = IF o = p THEN r ELSE None
    BY <1>1
<1>. QED BY <1>2, <1>3 DEF PortsAreMarked

LEMMA PoolKeepsPorts ==
    ASSUME PoolTypeOK, PortsAreMarked, PoolNext
    PROVE  PortsAreMarked'
<1>0. /\ sender \in [SenderRows -> SenderRow] /\ port \in [Ports -> PortRow]
      /\ post \in [pc : {"idle", "created", "read"}, row : Extra \cup {None}, port : Ports \cup {None}]
    BY PoolHelpers DEF PoolTypeOK
<1>n. None \notin Ports /\ Own \notin Ports /\ None \notin SenderRows
    BY PoolNames DEF SenderRows
<1>m. \A p \in Ports : port[p].at # None => port[p].on
    BY DEF PortsAreMarked
<1>1. ASSUME NEW x \in Extra, NEW k \in Accounts, PostSender(x, k) PROVE PortsAreMarked'
  <2>1. x \in SenderRows /\ UNCHANGED <<port, overlap>>
      BY <1>1 DEF PostSender, SenderRows
  <2>2. PICK own \in BOOLEAN : sender' = [sender EXCEPT ![x] = [Absent EXCEPT !.on = TRUE, !.key = k,
                                                            !.proxy = IF own THEN Own ELSE None]]
      BY <1>1 DEF PostSender
  <2>3. \A r \in SenderRows : sender'[r] = sender[r] \/ sender'[r].proxy \notin Ports
      BY <1>0, <1>n, <2>1, <2>2 DEF Absent
  <2>. QED BY <1>m, <2>1, <2>3, MarksStay
<1>2. ASSUME PostReadsPool PROVE PortsAreMarked'
    BY <1>m, <1>2, MarksStay DEF PostReadsPool
<1>3. ASSUME PostTakesPort PROVE PortsAreMarked'
  <2>. DEFINE p == post.port
              x == post.row
  <2>1. CASE sender[x].on /\ port[p].on /\ x \in SenderRows
    <3>1. /\ sender' = [sender EXCEPT ![x].proxy = p]
          /\ port' = Marked(p, x) /\ overlap' = Clash(p, x)
        BY <1>3, <2>1 DEF PostTakesPort
    <3>2. p \in Address
        BY <1>0 DEF Address
    <3>. HIDE DEF p, x
    <3>3. /\ sender'[x].on /\ sender'[x].proxy = p
          /\ \A r \in SenderRows \ {x} : sender'[r] = sender[r]
        BY <1>0, <2>1, <3>1 DEF SenderRow
    <3>. QED BY <2>1, <3>1, <3>2, <3>3, MarkedClashed, PortIsTaken
  <2>2. CASE UNCHANGED <<sender, port, overlap>>
      BY <1>m, <2>2, MarksStay
  <2>3. CASE x \notin SenderRows /\ sender[x].on /\ port[p].on
    <3>1. /\ sender' = [sender EXCEPT ![x].proxy = p]
          /\ port' = Marked(p, x) /\ overlap' = Clash(p, x)
        BY <1>3, <2>3 DEF PostTakesPort
    <3>2. x = None
        BY <1>0, <2>3 DEF SenderRows
    <3>. HIDE DEF p, x
    <3>3. sender' = sender
        BY <1>0, <2>3, <3>1
    <3>4. \A q \in Ports : q # p => port'[q] = port[q]
        BY <1>0, <3>1 DEF Marked
    <3>5. p \in Ports => port'[p].at = None
      <4>1. p \in Ports => port'[p] = [port[p] EXCEPT !.at = None]
          BY <1>0, <2>3, <3>1, <3>2 DEF Marked
      <4>. QED BY <1>0, <4>1 DEF PortRow
    <3>6. overlap \subseteq overlap' /\ (p \in Ports \ overlap' => port[p].at = None)
        BY <3>1, <3>2 DEF Clash, Free
    <3>7. p \in Ports \ overlap' => \A r \in SenderRows : sender[r].proxy # p
        BY <1>n, <2>3, <3>6 DEF PortsAreMarked
    <3>8. \A q \in Ports : port'[q].at # None => port'[q].on
        BY <1>m, <3>4, <3>5
    <3>. QED BY <3>3, <3>4, <3>6, <3>7, <3>8, MarksStay
  <2>. QED BY <1>3, <2>1, <2>2, <2>3 DEF PostTakesPort
<1>4. ASSUME NEW r \in SenderRows, NEW p \in Ports, AssignProxy(r, p) PROVE PortsAreMarked'
  <2>1. /\ sender' = [sender EXCEPT ![r].proxy = p] /\ port' = Marked(p, r)
        /\ sender[r].on /\ port[p].on /\ overlap \subseteq overlap'
        /\ p \notin overlap' => Users(p) \ {r} = {}
      BY <1>4 DEF AssignProxy
  <2>2. /\ sender'[r].on /\ sender'[r].proxy = p
        /\ \A s \in SenderRows \ {r} : sender'[s] = sender[s]
      BY <1>0, <2>1 DEF SenderRow
  <2>3. \A q \in Ports \ {p} : port'[q] = port[q]
      BY <1>0, <2>1 DEF Marked
  <2>4. port'[p].on /\ port'[p].at = r
      BY <1>0, <2>1 DEF Marked, PortRow
  <2>5. p \notin overlap' => \A s \in SenderRows \ {r} : sender[s].proxy # p
      BY <2>1 DEF Users, On, PortsAreMarked
  <2>. QED BY <2>1, <2>2, <2>3, <2>4, <2>5, PortIsTaken DEF Address
<1>5. ASSUME NEW r \in SenderRows, NEW k \in Accounts, PatchSender(r, k) PROVE PortsAreMarked'
  <2>1. \A s \in SenderRows : sender'[s].proxy \in Ports =>
            sender'[s].proxy = sender[s].proxy /\ (sender'[s].on <=> sender[s].on)
    <3>1. CASE sender' = [sender EXCEPT ![r].proxy = Own]
        BY <1>0, <1>n, <3>1 DEF SenderRow
    <3>2. CASE sender' = [sender EXCEPT ![r].key = k]
        BY <1>0, <3>2 DEF SenderRow
    <3>. QED BY <1>5, <3>1, <3>2 DEF PatchSender
  <2>2. UNCHANGED <<port, overlap>>
      BY <1>5 DEF PatchSender
  <2>. QED BY <1>m, <2>1, <2>2, MarksStay
<1>6. ASSUME NEW r \in SenderRows, DeleteSender(r) PROVE PortsAreMarked'
  <2>1. /\ sender' = [sender EXCEPT ![r] = Absent] /\ overlap' = overlap
        /\ port' = [p \in Ports |-> IF port[p].at = r THEN [port[p] EXCEPT !.at = None] ELSE port[p]]
      BY <1>6 DEF DeleteSender
  <2>2. \A s \in SenderRows : sender'[s].proxy \in Ports => s # r /\ sender'[s] = sender[s]
      BY <1>0, <1>n, <2>1 DEF Absent
  <2>3. \A p \in Ports : /\ port[p].at # r => port'[p] = port[p]
                         /\ port[p].at = r => port'[p].at = None
      BY <1>0, <2>1 DEF PortRow
  <2>4. ASSUME NEW s \in SenderRows, sender'[s].proxy \in Ports \ overlap', port'[sender[s].proxy].on
        PROVE  port'[sender[s].proxy] = port[sender[s].proxy]
    <3>1. s # r /\ sender[s].proxy \in Ports \ overlap
        BY <2>1, <2>2, <2>4
    <3>2. port[sender[s].proxy].at \in {None, s}
        BY <1>m, <3>1 DEF PortsAreMarked
    <3>. QED BY <1>n, <2>3, <3>1, <3>2
  <2>. QED BY <1>m, <2>1, <2>2, <2>3, <2>4, MarksStay
<1>7. ASSUME NEW r \in SenderRows, Dies(r) PROVE PortsAreMarked'
  <2>1. \A s \in SenderRows : sender'[s].proxy = sender[s].proxy /\ (sender'[s].on <=> sender[s].on)
      BY <1>0, <1>7 DEF Dies, SenderRow
  <2>2. UNCHANGED <<port, overlap>>
      BY <1>7 DEF Dies
  <2>. QED BY <1>m, <2>1, <2>2, MarksStay
<1>8. ASSUME Reclaim PROVE PortsAreMarked'
  <2>1. /\ overlap' = overlap /\ sender' = Unproxied
        /\ port' = [p \in Ports |-> IF port[p].at \in Dead
                                THEN [port[p] EXCEPT !.at = None, !.rests = TRUE] ELSE port[p]]
      BY <1>8 DEF Reclaim
  <2>2. \A s \in SenderRows : sender'[s].proxy \in Ports =>
            sender'[s] = sender[s] /\ ~(s \in Dead /\ \E p \in Ports : port[p].at = s)
    <3>. SUFFICES ASSUME NEW s \in SenderRows, sender'[s].proxy \in Ports
                  PROVE  sender'[s] = sender[s] /\ ~(s \in Dead /\ \E p \in Ports : port[p].at = s)
        OBVIOUS
    <3>1. CASE s \in Dead /\ \E p \in Ports : port[p].at = s
      <4>1. sender'[s] = [sender[s] EXCEPT !.proxy = None]
          BY <2>1, <3>1 DEF Unproxied
      <4>. QED BY <1>0, <1>n, <4>1 DEF SenderRow
    <3>2. CASE ~(s \in Dead /\ \E p \in Ports : port[p].at = s)
        BY <2>1, <3>2 DEF Unproxied
    <3>. QED BY <3>1, <3>2
  <2>3. \A p \in Ports : /\ port[p].at \notin Dead => port'[p] = port[p]
                         /\ port[p].at \in Dead => port'[p].at = None
      BY <1>0, <2>1 DEF PortRow
  <2>4. ASSUME NEW s \in SenderRows, sender'[s].proxy \in Ports \ overlap', port'[sender[s].proxy].on
        PROVE  port'[sender[s].proxy] = port[sender[s].proxy]
    <3>1. sender[s].proxy \in Ports \ overlap
        BY <2>1, <2>2, <2>4
    <3>2. port[sender[s].proxy].at \in {None, s}
        BY <1>m, <3>1 DEF PortsAreMarked
    <3>3. port[sender[s].proxy].at \notin Dead
        BY <1>n, <2>2, <2>4, <3>1, <3>2 DEF Dead, On
    <3>. QED BY <2>3, <3>1, <3>3
  <2>. QED BY <1>m, <2>1, <2>2, <2>3, <2>4, MarksStay
<1>9. ASSUME NEW p \in Ports, DeleteProxy(p) \/ CreateProxy(p) \/ QuarantineEnds(p) PROVE PortsAreMarked'
  <2>1. sender' = sender /\ overlap \subseteq overlap' /\ (CreateProxy(p) => p \in overlap')
      BY <1>9 DEF DeleteProxy, CreateProxy, QuarantineEnds
  <2>2. /\ \A q \in Ports \ {p} : port'[q] = port[q]
        /\ port'[p].at # None => port'[p].on
        /\ CreateProxy(p) \/ (port'[p].on => port[p].on /\ port'[p].at = port[p].at)
    <3>1. CASE DeleteProxy(p)
        BY <1>0, <3>1 DEF DeleteProxy, PortRow
    <3>2. CASE CreateProxy(p)
        BY <1>0, <1>m, <3>2 DEF CreateProxy, PortRow
    <3>3. CASE QuarantineEnds(p)
        BY <1>0, <1>m, <3>3 DEF QuarantineEnds, PortRow
    <3>. QED BY <1>9, <3>1, <3>2, <3>3
  <2>. QED BY <1>m, <2>1, <2>2, MarksStay
<1>. QED BY <1>1, <1>2, <1>3, <1>4, <1>5, <1>6, <1>7, <1>8, <1>9 DEF PoolNext

LEMMA ImportKeepsPorts ==
    ASSUME PoolTypeOK, ImportIInv, PortsAreMarked, ImportStep
    PROVE  PortsAreMarked'
<1>0. sender \in [SenderRows -> SenderRow] /\ port \in [Ports -> PortRow] /\ imp \in [Importers -> ImpRow]
    BY PoolHelpers, ImportShape DEF ImportIInv
<1>m. \A p \in Ports : port[p].at # None => port[p].on
    BY DEF PortsAreMarked
<1>1. ASSUME NEW w \in Importers, Insert(w), ~UNCHANGED <<sender, port, overlap>>
      PROVE  PortsAreMarked'
  <2>. DEFINE a == Holder[imp[w].f]
              p == imp[w].port
              row == [on |-> TRUE, key |-> a, tg |-> a, phone |-> imp[w].f, auth |-> "ok", proxy |-> p]
  <2>1. sender' = [sender EXCEPT ![a] = row] /\ port' = Marked(p, a) /\ overlap' = Clash(p, a)
      BY <1>1 DEF Insert
  <2>2. p \in Address
      BY <1>0 DEF ImpRow, Address
  <2>3. row.on /\ row.proxy = p
      OBVIOUS
  <2>4. a \in SenderRows
    <3>1. imp[w].f \in Files
        BY <1>1 DEF Insert, ImportIInv, HeldOnce
    <3>. QED BY <3>1, PoolHolder DEF SenderRows
  <2>. HIDE DEF a, p, row
  <2>5. /\ sender'[a].on /\ sender'[a].proxy = p
        /\ \A r \in SenderRows \ {a} : sender'[r] = sender[r]
      BY <1>0, <2>1, <2>3, <2>4
  <2>. QED BY <2>1, <2>2, <2>4, <2>5, MarkedClashed, PortIsTaken
<1>2. (\E w \in Importers : Insert(w)) \/ UNCHANGED <<sender, port, overlap>>
    BY DEF ImportStep, ImportNext, Preview, StagingExpires, Confirm, ClaimItem, LookUp,
           Connect, LookAgain, ImportFails, Record, ImportDies, poolVars
<1>3. CASE UNCHANGED <<sender, port, overlap>>
    BY <1>m, <1>3, MarksStay
<1>. QED BY <1>1, <1>2, <1>3

LEMMA LoginKeepsPorts ==
    ASSUME PoolTypeOK, OnboardingTypeOK, PortsAreMarked, OnboardingNext
    PROVE  PortsAreMarked'
<1>0. sender \in [SenderRows -> SenderRow] /\ port \in [Ports -> PortRow] /\ flow \in [Flows -> FlowRow]
    BY PoolHelpers, FlowShape
<1>n. None \notin Ports /\ Own \notin Ports /\ None \notin SenderRows
    BY PoolNames DEF SenderRows
<1>m. \A p \in Ports : port[p].at # None => port[p].on
    BY DEF PortsAreMarked
\* The row keeps what it used, or takes a port that is marked for it already.
<1>1. ASSUME NEW t \in SenderRows, NEW x \in SenderRow, NEW p \in Address,
             sender' = [sender EXCEPT ![t] = WithProxy(x, p)], x.on, x.proxy = sender[t].proxy,
             overlap' = Unmarked(p, t), port' = port
      PROVE  PortsAreMarked'
  <2>0. overlap \subseteq overlap' /\ (p \in Ports \ overlap' => p \notin overlap /\ port[p].at = t)
      BY <1>1 DEF Unmarked
  <2>1. CASE p = None
    <3>1. sender'[t] = x /\ \A r \in SenderRows \ {t} : sender'[r] = sender[r]
        BY <1>0, <1>1, <2>1 DEF WithProxy
    <3>2. \A r \in SenderRows : sender'[r].proxy \in Ports \ overlap' =>
              sender'[r].proxy = sender[r].proxy /\ (sender'[r].on <=> sender[r].on)
        BY <1>1, <2>0, <3>1 DEF PortsAreMarked
    <3>. QED BY <1>m, <1>1, <2>0, <3>2, MarksStay
  <2>2. CASE p # None
    <3>1. sender'[t] = [x EXCEPT !.proxy = p] /\ \A r \in SenderRows \ {t} : sender'[r] = sender[r]
        BY <1>0, <1>1, <2>2 DEF WithProxy
    <3>2. sender'[t].on /\ sender'[t].proxy = p
        BY <1>1, <3>1 DEF SenderRow
    <3>3. p \in Ports \ overlap' => \A s \in SenderRows \ {t} : sender[s].proxy # p
        BY <2>0, NobodyElse
    <3>4. \A q \in Ports : port'[q] = port[q]
        BY <1>1
    <3>. QED BY <1>m, <1>1, <2>0, <3>1, <3>2, <3>3, <3>4, PortIsTaken
  <2>. QED BY <2>1, <2>2
<1>2. ASSUME NEW s \in Flows, FinishReauth(s) PROVE PortsAreMarked'
  <2>. DEFINE r == flow[s].row
              p == flow[s].proxy
  <2>1. PICK known \in BOOLEAN :
            sender' = [sender EXCEPT ![r] = WithProxy(Refreshed(r, flow[s].key, known), p)]
      BY <1>2 DEF FinishReauth, Knows
  <2>2. r \in SenderRows /\ sender[r].on /\ overlap' = Unmarked(p, r) /\ port' = port
      BY <1>0, <1>2 DEF FinishReauth, FlowRow
  <2>3. p \in Address /\ flow[s].key \in Accounts \cup {None}
      BY <1>0 DEF FlowRow
  <2>. HIDE DEF r, p
  <2>4. /\ Refreshed(r, flow[s].key, known) \in SenderRow
        /\ Refreshed(r, flow[s].key, known).on
        /\ Refreshed(r, flow[s].key, known).proxy = sender[r].proxy
      BY <1>0, <2>2, <2>3 DEF Refreshed, SenderRow
  <2>. QED BY <1>1, <2>1, <2>2, <2>3, <2>4
<1>3. ASSUME NEW s \in Flows, FinishLogin(s) PROVE PortsAreMarked'
  <2>. DEFINE k == flow[s].key
              p == flow[s].proxy
  <2>0. PICK known \in BOOLEAN : \E t \in TargetRow(k, known) :
            /\ sender' = [sender EXCEPT ![t] = WithProxy(LoggedIn(t, k, known), p)]
            /\ overlap' = Unmarked(p, t)
      BY <1>3 DEF FinishLogin, Knows
  <2>1. PICK t \in TargetRow(k, known) :
            /\ sender' = [sender EXCEPT ![t] = WithProxy(LoggedIn(t, k, known), p)]
            /\ overlap' = Unmarked(p, t)
      BY <2>0
  <2>2. p \in Address /\ k \in Accounts \cup {None} /\ port' = port
      BY <1>0, <1>3 DEF FlowRow, FinishLogin
  <2>. HIDE DEF k, p
  <2>3. CASE t \in SenderRows
    <3>1. /\ LoggedIn(t, k, known) \in SenderRow
          /\ LoggedIn(t, k, known).on
          /\ LoggedIn(t, k, known).proxy = sender[t].proxy
        BY <1>0, <2>2, <2>3 DEF LoggedIn, SenderRow
    <3>. QED BY <1>1, <2>1, <2>2, <2>3, <3>1
  <2>4. CASE t \notin SenderRows
    <3>1. sender' = sender
        BY <1>0, <2>1, <2>4
    <3>2. overlap \subseteq overlap'
        BY <2>1 DEF Unmarked
    <3>. QED BY <1>m, <2>2, <3>1, <3>2, MarksStay
  <2>. QED BY <2>3, <2>4
<1>4. (\E s \in Flows : FinishReauth(s) \/ FinishLogin(s)) \/ UNCHANGED <<sender, port, overlap>>
  <2>1. CASE RestartApi
      BY <2>1 DEF RestartApi
  <2>2. ASSUME NEW s \in Flows, NEW via \in {"phone", "qr"}, NEW k \in Accounts,
               Start(s, via, k) \/ \E r \in SenderRows : Reauth(s, via, k, r)
        PROVE  UNCHANGED <<sender, port, overlap>>
      BY <2>2 DEF Start, Reauth, Begin
  <2>3. ASSUME NEW s \in Flows,
               \/ Verify(s) \/ Recovered(s) \/ AskedFor2FA(s) \/ WrongCode(s) \/ SignInFails(s)
               \/ SignedIn(s) \/ FinishUnwanted(s) \/ Cancel(s) \/ FlowExpires(s)
        PROVE  UNCHANGED <<sender, port, overlap>>
      BY <2>3 DEF poolVars, Verify, Recovered, AskedFor2FA, WrongCode, SignInFails, SignedIn,
                  FinishUnwanted, Cancel, FlowExpires
  <2>. QED BY <2>1, <2>2, <2>3 DEF OnboardingNext
<1>5. CASE UNCHANGED <<sender, port, overlap>>
    BY <1>m, <1>5, MarksStay
<1>. QED BY <1>2, <1>3, <1>4, <1>5

-----------------------------------------------------------------------------
(* The composition.                                                         *)

AccountsIInv == PoolTypeOK /\ ImportIInv /\ LoginIInv /\ LooksStand /\ PortsAreMarked

LEMMA AccountsInit == InitAccounts => AccountsIInv
BY PoolInitType, ImportInitIInv, LoginInitIInv, LooksInit, PortsInit DEF InitAccounts, AccountsIInv

LEMMA AccountsStep == AccountsIInv /\ [AccountsNext]_accountVars => AccountsIInv'
<1>. SUFFICES ASSUME AccountsIInv, [AccountsNext]_accountVars PROVE AccountsIInv'
    OBVIOUS
<1>1. ASSUME UNCHANGED importVars, faults > 0 => faults' > 0 PROVE ImportIInv'
  <2>1. UNCHANGED <<staged, job, item, imp>>
      BY <1>1 DEF importVars
  <2>2. ImportTypeOK'
      BY <2>1 DEF AccountsIInv, ImportIInv, ImportTypeOK
  <2>3. \A j \in Jobs : Counted(j)'
    <3>1. \A j \in Jobs : Listed(j)' = Listed(j) /\ Over(j)' = Over(j)
        BY <2>1 DEF Listed, Over
    <3>. QED BY <2>1, <3>1 DEF AccountsIInv, ImportIInv, Counted
  <2>4. HeldOnce'
      BY <1>1, <2>1 DEF AccountsIInv, ImportIInv, HeldOnce, Held
  <2>. QED BY <2>2, <2>3, <2>4 DEF ImportIInv
<1>2. ASSUME UNCHANGED flow PROVE LoginIInv'
    BY <1>2 DEF AccountsIInv, LoginIInv, OnboardingTypeOK, CutOff
<1>3. faults \in Nat /\ (Fault => faults' > 0)
  <2>1. faults \in Nat
      BY DEF AccountsIInv, PoolTypeOK
  <2>. QED BY <2>1 DEF Fault
<1>4. CASE PoolNext /\ UNCHANGED <<importVars, flow>>
  <2>1. UNCHANGED faults \/ Fault
      BY <1>4 DEF PoolNext, PostSender, PostReadsPool, PostTakesPort, AssignProxy, PatchSender,
                  DeleteSender, DeleteProxy, CreateProxy, Dies, Reclaim, QuarantineEnds
  <2>. QED BY <1>1, <1>2, <1>3, <1>4, <2>1, PoolKeepsPool, PoolKeepsLooks, PoolKeepsPorts DEF AccountsIInv
<1>5. CASE ImportStep
    BY <1>2, <1>5, ImportKeepsPool, ImportKeepsImport, ImportKeepsLooks, ImportKeepsPorts
       DEF AccountsIInv, ImportStep
<1>6. CASE OnboardingNext /\ UNCHANGED importVars
  <2>1. UNCHANGED faults \/ Fault
      BY <1>6, ZenonT(40) DEF OnboardingNext, poolVars, RestartApi, Start, Reauth, Begin, Verify, Recovered,
                  AskedFor2FA, WrongCode, SignInFails, SignedIn, FinishReauth, FinishLogin,
                  FinishUnwanted, Cancel, FlowExpires
  <2>. QED BY <1>1, <1>3, <1>6, <2>1, OnboardingKeeps, LoginKeepsLooks, LoginKeepsPorts
           DEF AccountsIInv, LoginIInv
<1>7. CASE UNCHANGED accountVars
  <2>1. UNCHANGED <<poolVars, importVars, flow>> /\ UNCHANGED faults
      BY <1>7 DEF accountVars, poolVars
  <2>2. PoolTypeOK'
      BY <2>1 DEF AccountsIInv, PoolTypeOK, poolVars
  <2>3. LooksStand'
      BY <2>1 DEF AccountsIInv, LooksStand, poolVars, importVars
  <2>4. PortsAreMarked'
      BY <2>1 DEF AccountsIInv, PortsAreMarked, poolVars
  <2>. QED BY <1>1, <1>2, <2>1, <2>2, <2>3, <2>4 DEF AccountsIInv
<1>. QED BY <1>4, <1>5, <1>6, <1>7 DEF AccountsNext

\* Along every behaviour of import, logins, requests and sweep: the types, the counters of
\* the jobs, who works on which item, what its second look found, what a cut login waits
\* for, and for whom a port in use is marked.
THEOREM AccountsInvariant == AccountsSpec => []AccountsIInv
<1>. QED BY AccountsInit, AccountsStep, PTL DEF AccountsSpec

\* Every variable of pool, import and login keeps its type.
THEOREM AccountsTypeCorrect == AccountsSpec => []AccountsTypeOK
<1>1. AccountsIInv => AccountsTypeOK
    BY DEF AccountsIInv, AccountsTypeOK, ImportIInv, LoginIInv
<1>. QED BY <1>1, AccountsInvariant, PTL

\* Two accounts use one port of the pool only after a step gave it out by name or raced for
\* it: the account that uses any other port is the one its row is marked for, and only a
\* free row is handed out (create_sender, resolve_import_proxy, _RECLAIM_SQL).
THEOREM PortsAreNotShared == AccountsSpec => []OneAccountPerPort
<1>1. AccountsIInv => OneAccountPerPort
  <2>. SUFFICES ASSUME AccountsIInv, NEW r \in On, NEW s \in On, r # s,
                       sender[r].proxy = sender[s].proxy
                PROVE  sender[r].proxy \in overlap \cup {None, Own}
      BY DEF OneAccountPerPort
  <2>1. r \in SenderRows /\ s \in SenderRows
      BY DEF On
  <2>2. sender[r].proxy \in Ports \cup {Own, None}
      BY <2>1, PoolHelpers DEF AccountsIInv, SenderRow, Address
  <2>3. sender[r].proxy \notin Ports \ overlap
      BY <2>1 DEF AccountsIInv, PortsAreMarked
  <2>. QED BY <2>2, <2>3
<1>. QED BY <1>1, AccountsInvariant, PTL

\* The counter of an import job counts its terminal items, the job is done when all are,
\* and an item nobody works on is left over from a fault (Record, ImportDies).
THEOREM JobsAreCounted == AccountsSpec => []ProgressIsExact
<1>1. AccountsIInv => ProgressIsExact
  <2>. SUFFICES ASSUME AccountsIInv, NEW j \in Jobs
                PROVE  /\ job[j].processed = Cardinality(Over(j))
                       /\ job[j].st = "done" <=> job[j].total > 0 /\ job[j].processed = job[j].total
                       /\ \A f \in Files : item[j][f] = "processing" =>
                             faults > 0 \/ \E w \in Importers : imp[w].j = j /\ imp[w].f = f
      BY DEF ProgressIsExact, Over
  <2>1. Counted(j)
      BY DEF AccountsIInv, ImportIInv
  <2>2. \A f \in Files : item[j][f] = "processing" =>
            faults > 0 \/ \E w \in Importers : imp[w].j = j /\ imp[w].f = f
      BY DEF AccountsIInv, ImportIInv, HeldOnce, Held
  <2>. QED BY <2>1, <2>2 DEF Counted
<1>. QED BY <1>1, AccountsInvariant, PTL

\* A login cancelled while Telegram was asked is not accepted afterwards: nothing gives the
\* cut client back (Cancel, _get_or_recover_client).
THEOREM CancelledStaysOut == AccountsSpec => []CancelIsFinal
<1>1. AccountsIInv => CancelIsFinal
    BY DEF AccountsIInv, LoginIInv, CutOff, CancelIsFinal
<1>. QED BY <1>1, AccountsInvariant, PTL

\* An import step changes no account that exists, and adds none that another row is known to
\* be, unless by a re-auth since its second look: only Insert writes accounts, its slug is
\* unique, and what the look found still stands.
THEOREM ImportIsHarmless == AccountsSpec => ImportAddsStrangers
<1>1. AccountsIInv /\ [AccountsNext]_accountVars
        => [ImportStep => \A r \in SenderRows :
               /\ r \in On => sender'[r] = sender[r]
               /\ r \notin On /\ sender'[r].on => r \in learned \/ \A s \in On : sender[s].tg # r]_accountVars
  <2>. DEFINE Kept(r) == r \in On => sender'[r] = sender[r]
              Strange(r) == r \notin On /\ sender'[r].on => r \in learned \/ \A s \in On : sender[s].tg # r
  <2>. SUFFICES ASSUME AccountsIInv, ImportStep, NEW r \in SenderRows PROVE Kept(r) /\ Strange(r)
      OBVIOUS
  <2>1. sender \in [SenderRows -> SenderRow]
      BY PoolHelpers DEF AccountsIInv
  <2>2. ASSUME NEW w \in Importers, Insert(w), sender' # sender PROVE Kept(r) /\ Strange(r)
    <3>. DEFINE a == Holder[imp[w].f]
    <3>1. PICK x : sender' = [sender EXCEPT ![a] = x]
        BY <2>2 DEF Insert
    <3>2. ~sender[a].on
        BY <2>2 DEF Insert
    <3>3. \A s \in On : sender[s].tg = a => s = a \/ a \in learned
        BY <2>2 DEF AccountsIInv, LooksStand, Insert, On
    <3>. HIDE DEF a
    <3>. QED BY <2>1, <3>1, <3>2, <3>3 DEF On
  <2>3. sender' = sender \/ \E w \in Importers : Insert(w)
      BY DEF ImportStep, ImportNext, Preview, StagingExpires, Confirm, ClaimItem, LookUp,
             Connect, LookAgain, ImportFails, Record, ImportDies, poolVars
  <2>4. CASE sender' = sender
      BY <2>4 DEF On
  <2>. QED BY <2>2, <2>3, <2>4
<1>. QED BY <1>1, AccountsInvariant, PTL DEF AccountsSpec, ImportAddsStrangers
=============================================================================
