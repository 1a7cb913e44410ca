------------------------ MODULE ContactCheckProofs ------------------------
(***************************************************************************)
(* Proofs about ContactCheck, for any number of contacts, checkers,        *)
(* instances and faults: what two instances may hold at once, which cached *)
(* answers survive, and whom a throttled checker writes off.               *)
(***************************************************************************)
EXTENDS ContactCheck, TLAPS

Pc == {"idle", "recover", "probe", "check", "apply", "rest"}
ContactRow == [st : {"pending", "registered", "not_registered", "error"},
               certain : BOOLEAN, claimed : BOOLEAN]
CheckerRow == [limited : BOOLEAN, cooling : BOOLEAN, paused : BOOLEAN, resting : BOOLEAN,
               dead : BOOLEAN]
RoundRow == [pc : Pc, k : Checkers \cup {NoChecker}, todo : SUBSET Checkers,
             degraded : SUBSET Checkers, suspect : BOOLEAN, flood : BOOLEAN,
             batch : SUBSET Phones, res : [Phones -> Answers]]

\* What an instance knows of its round: it starts without answers; whom it benched is
\* benched, so it works on a benched checker only after the other instance's recovery;
\* its verdict is judged.
RoundStands(w) ==
    /\ checking[w].pc \in {"idle", "recover"} => checking[w].degraded = {}
    /\ checking[w].pc = "probe" => \A c \in Phones : checking[w].res[c] = "none"
    /\ checking[w].pc = "probe" =>
          \A k \in checking[w].degraded : checker[k].limited \/ "recovered" \in races
    /\ checking[w].pc = "check" /\ checking[w].k \in checking[w].degraded =>
          "recovered" \in races
    /\ checking[w].pc \in {"check", "apply", "rest"} => checking[w].k \in Checkers
    /\ checking[w].pc = "apply" /\ SignsOfThrottle(w) => checking[w].suspect

\* A contact an instance holds is claimed, unless the claim ran out.
HeldIsClaimed ==
    "expired" \in races \/ \A w \in Workers : \A c \in Holds(w) : contact[c].claimed

\* A negative answer was taken from the cache for a contact whose verdict was certain.
CachedIsCertain ==
    races # {} \/ \A w \in Workers : \A c \in Holds(w) :
        checking[w].res[c] = "cached dead" => contact[c].certain

\* A negative verdict is written as certain.
WrittenOffIsCertain == \A c \in Phones : contact[c].st = "not_registered" => contact[c].certain

\* A contact whose negative answer nobody trusts has no certain verdict.
DoubtedIsUncertain == races # {} \/ \A c \in doubted : ~contact[c].certain

CheckIInv ==
    /\ CheckTypeOK
    /\ \A w \in Workers : RoundStands(w)
    /\ HeldIsClaimed /\ OneCheckPerContact /\ CachedIsCertain
    /\ WrittenOffIsCertain /\ DoubtedIsUncertain
    /\ PoisonIsPurged

ContactPart == /\ HeldIsClaimed /\ OneCheckPerContact /\ CachedIsCertain
               /\ WrittenOffIsCertain /\ DoubtedIsUncertain

LEMMA CheckShape ==
    CheckTypeOK <=>
        /\ contact \in [Phones -> ContactRow] /\ checker \in [Checkers -> CheckerRow]
        /\ cache \in [Checkers -> [Phones -> {"none", "live", "dead"}]]
        /\ checking \in [Workers -> RoundRow]
        /\ misses \in [Workers -> [Checkers -> 0..2]]
        /\ controls \in BOOLEAN /\ races \subseteq {"expired", "recovered"}
        /\ bad \in 0..MaxBad
        /\ trusted \subseteq Checkers \X Phones /\ doubted \subseteq Phones
BY DEF CheckTypeOK, ContactRow, CheckerRow, RoundRow, Pc

\* The same after a step.
LEMMA CheckShapeNext ==
    ASSUME contact' \in [Phones -> ContactRow], checker' \in [Checkers -> CheckerRow],
           cache' \in [Checkers -> [Phones -> {"none", "live", "dead"}]],
           checking' \in [Workers -> RoundRow], misses' \in [Workers -> [Checkers -> 0..2]],
           controls' \in BOOLEAN, races' \subseteq {"expired", "recovered"},
           bad' \in 0..MaxBad, trusted' \subseteq Checkers \X Phones, doubted' \subseteq Phones
    PROVE  CheckTypeOK'
BY DEF CheckTypeOK, ContactRow, CheckerRow, RoundRow, Pc

LEMMA NoRoundType == NoRound \in RoundRow
BY DEF NoRound, RoundRow, Pc, Answers

\* Changes of a round that keep its type.
LEMMA RoundTypes ==
    ASSUME NEW x \in RoundRow
    PROVE  /\ \A T \in SUBSET Checkers : [x EXCEPT !.todo = T] \in RoundRow
           /\ \A T, D \in SUBSET Checkers :
                  [x EXCEPT !.todo = T, !.degraded = D] \in RoundRow
           /\ \A p \in Pc, T \in SUBSET Checkers : [x EXCEPT !.pc = p, !.todo = T] \in RoundRow
           /\ \A k \in Checkers, B \in SUBSET Phones, s \in BOOLEAN :
                  [x EXCEPT !.pc = "check", !.k = k, !.batch = B, !.suspect = s] \in RoundRow
           /\ \A f \in BOOLEAN : [x EXCEPT !.flood = f] \in RoundRow
           /\ \A s \in BOOLEAN, D \in SUBSET Checkers :
                  [x EXCEPT !.pc = "apply", !.suspect = s, !.degraded = D] \in RoundRow
           /\ \A k \in Checkers, D \in SUBSET Checkers :
                  [x EXCEPT !.pc = "rest", !.k = k, !.degraded = D] \in RoundRow
BY DEF RoundRow, Pc

LEMMA FaultCounted == ASSUME bad \in 0..MaxBad, NEW n \in Nat, CheckFault(n)
                      PROVE  bad' \in 0..MaxBad
BY CheckCounts DEF CheckFault

LEMMA CheckInitIInv == InitCheck => CheckIInv
<1>. SUFFICES ASSUME InitCheck PROVE CheckIInv
    OBVIOUS
<1>1. CheckTypeOK
  <2>1. contact \in [Phones -> ContactRow] /\ checker \in [Checkers -> CheckerRow]
      BY DEF InitCheck, ContactRow, CheckerRow
  <2>2. checking \in [Workers -> RoundRow]
      BY NoRoundType DEF InitCheck
  <2>3. misses \in [Workers -> [Checkers -> 0..2]]
      BY DEF InitCheck
  <2>. QED BY <2>1, <2>2, <2>3, CheckShape DEF InitCheck
<1>2. \A w \in Workers : checking[w].pc = "idle" /\ checking[w].degraded = {}
    BY DEF InitCheck, NoRound
<1>3. \A w \in Workers : RoundStands(w)
    BY <1>2 DEF RoundStands
<1>4. ContactPart
    BY <1>2 DEF ContactPart, HeldIsClaimed, OneCheckPerContact, CachedIsCertain,
                WrittenOffIsCertain, DoubtedIsUncertain, Holds, InitCheck
<1>5. PoisonIsPurged
    BY DEF PoisonIsPurged, InitCheck
<1>. QED BY <1>1, <1>3, <1>4, <1>5 DEF CheckIInv, ContactPart

-----------------------------------------------------------------------------
(* What a step has to say to keep each part.                                *)

\* Contacts: nobody holds more than before, no negative answer is read from the cache, no
\* verdict changes but back to pending.
LEMMA ContactsStand ==
    ASSUME CheckIInv, doubted' = doubted, races \subseteq races',
           \A c \in Phones :
               /\ contact'[c].claimed = contact[c].claimed
               /\ contact'[c].certain = contact[c].certain
               /\ contact'[c].st = "not_registered" => contact[c].st = "not_registered",
           \A w \in Workers : \A c \in Holds(w)' :
               /\ c \in Holds(w)
               /\ checking'[w].res[c] = "cached dead" => checking[w].res[c] = "cached dead"
    PROVE  ContactPart'
<1>0. \A w \in Workers : Holds(w) \subseteq Phones
    BY CheckShape DEF CheckIInv, Holds, RoundRow
<1>1. HeldIsClaimed'
    BY <1>0 DEF CheckIInv, HeldIsClaimed
<1>2. OneCheckPerContact'
    BY DEF CheckIInv, OneCheckPerContact
<1>3. CachedIsCertain'
    BY <1>0 DEF CheckIInv, CachedIsCertain
<1>4. WrittenOffIsCertain'
    BY DEF CheckIInv, WrittenOffIsCertain
<1>5. DoubtedIsUncertain'
    BY CheckShape DEF CheckIInv, DoubtedIsUncertain
<1>. QED BY <1>1, <1>2, <1>3, <1>4, <1>5 DEF ContactPart

\* The cache: as it was, or purged of one checker's negative rows, while whoever stops
\* checking vouches for what he wrote.
LEMMA PoisonStands ==
    ASSUME CheckIInv, races \subseteq races',
           \/ cache' = cache /\ trusted \subseteq trusted'
           \/ \E k \in Checkers : Purge(k),
           \A w \in Workers : checking[w].pc = "check" =>
               \/ /\ checking'[w].pc = "check"
                  /\ checking'[w].k = checking[w].k /\ checking'[w].batch = checking[w].batch
                  /\ \A c \in checking[w].batch :
                        checking[w].res[c] = "dead" => checking'[w].res[c] = "dead"
               \/ "recovered" \in races
               \/ \A c \in Phones :
                      <<checking[w].k, c>> \in Written(w) /\ cache'[checking[w].k][c] = "dead"
                          => <<checking[w].k, c>> \in trusted'
    PROVE  PoisonIsPurged'
<1>. SUFFICES ASSUME NEW k \in Checkers, NEW c \in Phones, cache'[k][c] = "dead",
                     <<k, c>> \notin trusted', "recovered" \notin races'
              PROVE  \E w \in Workers : checking'[w].pc = "check" /\ <<k, c>> \in Written(w)'
    BY DEF PoisonIsPurged
<1>1. cache \in [Checkers -> [Phones -> {"none", "live", "dead"}]]
    BY CheckShape DEF CheckIInv
<1>2. cache[k][c] = "dead" /\ <<k, c>> \notin trusted
  <2>1. CASE cache' = cache /\ trusted \subseteq trusted'
      BY <2>1
  <2>2. ASSUME NEW j \in Checkers, Purge(j) PROVE cache[k][c] = "dead" /\ <<k, c>> \notin trusted
    <3>1. PICK old \in SUBSET {d \in Phones : <<j, d>> \in trusted} :
              /\ cache' = [cache EXCEPT ![j] =
                     [d \in Phones |-> IF cache[j][d] = "dead" /\ d \notin old
                                       THEN "none" ELSE cache[j][d]]]
              /\ trusted' = trusted \ {<<j, d>> : d \in Phones \ old}
        BY <2>2 DEF Purge
    <3>2. CASE k = j
      <4>1. cache'[k][c] = IF cache[k][c] = "dead" /\ c \notin old THEN "none" ELSE cache[k][c]
          BY <3>1, <3>2, <1>1
      <4>2. c \in old /\ <<k, c>> \in trusted
          BY <4>1, <3>1, <3>2
      <4>3. <<k, c>> \in trusted'
          BY <4>2, <3>1, <3>2
      <4>. QED BY <4>3
    <3>3. CASE k # j
      <4>1. cache'[k] = cache[k]
          BY <3>1, <3>3, <1>1
      <4>2. <<k, c>> \in trusted => <<k, c>> \in trusted'
          BY <3>1, <3>3
      <4>. QED BY <4>1, <4>2
    <3>. QED BY <3>2, <3>3
  <2>. QED BY <2>1, <2>2
<1>3. PICK w \in Workers : checking[w].pc = "check" /\ <<k, c>> \in Written(w)
    BY <1>2 DEF CheckIInv, PoisonIsPurged
<1>4. /\ k = checking[w].k /\ c \in checking[w].batch
      /\ checking[w].res[c] = "dead"
    BY <1>3 DEF Written
<1>5. /\ checking'[w].pc = "check"
      /\ checking'[w].k = checking[w].k /\ checking'[w].batch = checking[w].batch
      /\ checking'[w].res[c] = "dead"
    BY <1>3, <1>4
<1>6. <<k, c>> \in Written(w)'
    BY <1>4, <1>5 DEF Written
<1>. QED BY <1>5, <1>6

\* An instance that does nothing stands where it stood, if whom it benched stays benched.
LEMMA OtherStands ==
    ASSUME NEW v, RoundStands(v), checking'[v] = checking[v], races \subseteq races',
           \A k \in checking[v].degraded :
               checker[k].limited => checker'[k].limited \/ "recovered" \in races'
    PROVE  RoundStands(v)'
BY DEF RoundStands, SignsOfThrottle, Live

\* One instance writes its row.
LEMMA RowChanged ==
    ASSUME CheckTypeOK, NEW w \in Workers, NEW x \in RoundRow,
           checking' = [checking EXCEPT ![w] = x]
    PROVE  /\ checking' \in [Workers -> RoundRow] /\ checking'[w] = x
           /\ \A v \in Workers \ {w} : checking'[v] = checking[v]
BY CheckShape

\* A step of one instance that decides on no contact.
LEMMA RowStep ==
    ASSUME CheckIInv, NEW w \in Workers, NEW x \in RoundRow,
           checking' = [checking EXCEPT ![w] = x],
           UNCHANGED <<contact, controls, doubted>>,
           checker' \in [Checkers -> CheckerRow],
           cache' \in [Checkers -> [Phones -> {"none", "live", "dead"}]],
           trusted' \subseteq Checkers \X Phones,
           misses' \in [Workers -> [Checkers -> 0..2]], bad' \in 0..MaxBad,
           races \subseteq races', races' \subseteq {"expired", "recovered"},
           \A v \in Workers \ {w} : \A k \in checking[v].degraded :
               checker[k].limited => checker'[k].limited \/ "recovered" \in races',
           RoundStands(w)',
           x.pc \in {"check", "apply"} =>
               /\ checking[w].pc \in {"check", "apply"} /\ x.batch = checking[w].batch
               /\ x.res = checking[w].res,
           \/ cache' = cache /\ trusted \subseteq trusted'
           \/ \E k \in Checkers : Purge(k),
           checking[w].pc = "check" =>
               \/ x.pc = "check" /\ x.k = checking[w].k
               \/ "recovered" \in races
               \/ \A c \in Phones :
                      <<checking[w].k, c>> \in Written(w) /\ cache'[checking[w].k][c] = "dead"
                          => <<checking[w].k, c>> \in trusted'
    PROVE  CheckIInv'
<1>1. /\ checking' \in [Workers -> RoundRow] /\ checking'[w] = x
      /\ \A v \in Workers \ {w} : checking'[v] = checking[v]
    BY RowChanged DEF CheckIInv
<1>2. CheckTypeOK'
  <2>1. contact' \in [Phones -> ContactRow] /\ controls' \in BOOLEAN /\ doubted' \subseteq Phones
      BY CheckShape DEF CheckIInv
  <2>. QED BY <1>1, <2>1, CheckShapeNext
<1>3. \A v \in Workers : RoundStands(v)'
  <2>. SUFFICES ASSUME NEW v \in Workers, v # w PROVE RoundStands(v)'
      OBVIOUS
  <2>. QED BY <1>1, OtherStands DEF CheckIInv
<1>4. ContactPart'
  <2>1. \A v \in Workers : \A c \in Holds(v)' :
            /\ c \in Holds(v)
            /\ checking'[v].res[c] = "cached dead" => checking[v].res[c] = "cached dead"
    <3>1. CASE x.pc \in {"check", "apply"}
        BY <1>1, <3>1 DEF Holds
    <3>2. CASE x.pc \notin {"check", "apply"}
        BY <1>1, <3>2 DEF Holds
    <3>. QED BY <3>1, <3>2
  <2>. QED BY <2>1, ContactsStand
<1>5. PoisonIsPurged'
  <2>1. \A v \in Workers : checking[v].pc = "check" =>
            \/ /\ checking'[v].pc = "check"
               /\ checking'[v].k = checking[v].k /\ checking'[v].batch = checking[v].batch
               /\ \A c \in checking[v].batch :
                     checking[v].res[c] = "dead" => checking'[v].res[c] = "dead"
            \/ "recovered" \in races
            \/ \A c \in Phones :
                   <<checking[v].k, c>> \in Written(v) /\ cache'[checking[v].k][c] = "dead"
                       => <<checking[v].k, c>> \in trusted'
    <3>. SUFFICES ASSUME NEW v \in Workers, checking[v].pc = "check"
                  PROVE  \/ /\ checking'[v].pc = "check"
                            /\ checking'[v].k = checking[v].k /\ checking'[v].batch = checking[v].batch
                            /\ \A c \in checking[v].batch :
                                  checking[v].res[c] = "dead" => checking'[v].res[c] = "dead"
                         \/ "recovered" \in races
                         \/ \A c \in Phones :
                                <<checking[v].k, c>> \in Written(v)
                                    /\ cache'[checking[v].k][c] = "dead"
                                    => <<checking[v].k, c>> \in trusted'
        OBVIOUS
    <3>1. CASE v # w
        BY <1>1, <3>1
    <3>2. CASE v = w
        BY <1>1, <3>2
    <3>. QED BY <3>1, <3>2
  <2>. QED BY <2>1, PoisonStands
<1>. QED BY <1>2, <1>3, <1>4, <1>5 DEF CheckIInv, ContactPart

\* Benching keeps the types.
LEMMA PurgeTypes ==
    ASSUME CheckTypeOK, NEW k \in Checkers, Purge(k)
    PROVE  /\ cache' \in [Checkers -> [Phones -> {"none", "live", "dead"}]]
           /\ trusted' \subseteq Checkers \X Phones
<1>1. PICK old \in SUBSET {c \in Phones : <<k, c>> \in trusted} :
          /\ cache' = [cache EXCEPT ![k] =
                 [c \in Phones |-> IF cache[k][c] = "dead" /\ c \notin old
                                   THEN "none" ELSE cache[k][c]]]
          /\ trusted' = trusted \ {<<k, c>> : c \in Phones \ old}
    BY DEF Purge
<1>. QED BY <1>1, CheckShape

\* No row of the checker survives its purge but a trusted one.
LEMMA PurgeLeavesTrusted ==
    ASSUME CheckTypeOK, NEW k \in Checkers, Purge(k), NEW c \in Phones, cache'[k][c] = "dead"
    PROVE  <<k, c>> \in trusted'
<1>1. PICK old \in SUBSET {d \in Phones : <<k, d>> \in trusted} :
          /\ cache' = [cache EXCEPT ![k] =
                 [d \in Phones |-> IF cache[k][d] = "dead" /\ d \notin old
                                   THEN "none" ELSE cache[k][d]]]
          /\ trusted' = trusted \ {<<k, d>> : d \in Phones \ old}
    BY DEF Purge
<1>2. cache'[k][c] = IF cache[k][c] = "dead" /\ c \notin old THEN "none" ELSE cache[k][c]
    BY <1>1, CheckShape
<1>3. c \in old
    BY <1>2
<1>. QED BY <1>1, <1>3

LEMMA FlagTypes ==
    ASSUME CheckTypeOK, NEW k \in Checkers, Flag(k)
    PROVE  /\ checker' \in [Checkers -> CheckerRow]
           /\ \A j \in Checkers : checker[j].limited => checker'[j].limited
           /\ checker'[k].limited
<1>1. checker \in [Checkers -> CheckerRow]
    BY CheckShape
<1>2. checker' = [checker EXCEPT ![k] = [checker[k] EXCEPT !.limited = TRUE, !.cooling = TRUE,
                                                          !.paused = TRUE]]
    BY DEF Flag, Flagged
<1>. QED BY <1>1, <1>2 DEF CheckerRow

-----------------------------------------------------------------------------
(* Recovery and probes.                                                     *)

LEMMA StartRoundKeeps ==
    ASSUME CheckIInv, NEW w \in Workers, StartRound(w)
    PROVE  CheckIInv'
<1>. DEFINE x == [NoRound EXCEPT !.pc = "recover", !.todo = IF controls THEN Cooled ELSE {}]
<1>1. x \in RoundRow /\ x.pc = "recover" /\ x.degraded = {}
  <2>1. (IF controls THEN Cooled ELSE {}) \in SUBSET Checkers /\ "recover" \in Pc
      BY DEF Cooled, Pc
  <2>2. x \in RoundRow
      BY <2>1, NoRoundType, RoundTypes
  <2>. QED BY <2>2 DEF NoRound
<1>2. checking' = [checking EXCEPT ![w] = x] /\ checking[w].pc = "idle"
      /\ UNCHANGED <<contact, checker, cache, misses, controls, bad, trusted, doubted, races>>
    BY DEF StartRound
<1>3. RoundStands(w)'
    BY <1>1, <1>2, RowChanged DEF RoundStands, CheckIInv
<1>. HIDE DEF x
<1>. QED BY <1>1, <1>2, <1>3, RowStep, CheckShape DEF CheckIInv

LEMMA StartProbesKeeps ==
    ASSUME CheckIInv, NEW w \in Workers, StartProbes(w)
    PROVE  CheckIInv'
<1>1. PICK due \in SUBSET Checkers :
          checking' = [checking EXCEPT ![w] = [NoRound EXCEPT !.pc = "probe", !.todo = due]]
    BY DEF StartProbes
<1>. DEFINE x == [NoRound EXCEPT !.pc = "probe", !.todo = due]
<1>2. x \in RoundRow /\ x.pc = "probe" /\ x.degraded = {}
      /\ \A c \in Phones : x.res[c] = "none"
  <2>1. "probe" \in Pc
      BY DEF Pc
  <2>2. x \in RoundRow
      BY <2>1, NoRoundType, RoundTypes
  <2>. QED BY <2>2 DEF NoRound
<1>3. checking[w].pc = "recover"
      /\ UNCHANGED <<contact, checker, cache, misses, controls, bad, trusted, doubted, races>>
    BY DEF StartProbes
<1>4. RoundStands(w)'
    BY <1>1, <1>2, RowChanged DEF RoundStands, CheckIInv
<1>5. checking' = [checking EXCEPT ![w] = x]
    BY <1>1
<1>. HIDE DEF x
<1>. QED BY <1>2, <1>3, <1>4, <1>5, RowStep, CheckShape DEF CheckIInv

LEMMA RecoverKeeps ==
    ASSUME CheckIInv, NEW w \in Workers, NEW k \in Checkers, Recover(w, k)
    PROVE  CheckIInv'
<1>. DEFINE x == [checking[w] EXCEPT !.todo = checking[w].todo \ {k}]
<1>0. CheckTypeOK /\ checking[w] \in RoundRow /\ checker \in [Checkers -> CheckerRow]
    BY CheckShape DEF CheckIInv
<1>1. x \in RoundRow /\ x.pc = "recover" /\ x.degraded = {}
  <2>1. checking[w].pc = "recover" /\ checking[w].degraded = {}
      BY DEF Recover, CheckIInv, RoundStands
  <2>. QED BY <1>0, <2>1 DEF RoundRow
<1>2. checking' = [checking EXCEPT ![w] = x] /\ checking[w].pc = "recover"
      /\ UNCHANGED <<contact, controls, doubted>>
    BY DEF Recover
<1>3. RoundStands(w)'
    BY <1>0, <1>1, <1>2, RowChanged DEF RoundStands
<1>. HIDE DEF x
<1>4. CASE /\ checker' = [checker EXCEPT ![k] = [checker[k] EXCEPT !.limited = FALSE,
                                        !.cooling = FALSE, !.paused = FALSE]]
           /\ misses' = [misses EXCEPT ![w][k] = 0]
           /\ races' = IF \E v \in Workers \ {w} : k \in checking[v].degraded
                       THEN races \cup {"recovered"} ELSE races
           /\ UNCHANGED <<cache, trusted, bad>>
  <2>1. checker' \in [Checkers -> CheckerRow] /\ \A j \in Checkers \ {k} : checker'[j] = checker[j]
      BY <1>0, <1>4 DEF CheckerRow
  <2>2. misses' \in [Workers -> [Checkers -> 0..2]]
      BY <1>0, <1>4, CheckShape
  <2>3. races \subseteq races' /\ races' \subseteq {"expired", "recovered"}
      BY <1>0, <1>4, CheckShape
  <2>4. \A v \in Workers \ {w} : \A j \in checking[v].degraded :
            checker[j].limited => checker'[j].limited \/ "recovered" \in races'
    <3>. SUFFICES ASSUME NEW v \in Workers \ {w}, NEW j \in checking[v].degraded
                  PROVE  checker[j].limited => checker'[j].limited \/ "recovered" \in races'
        OBVIOUS
    <3>1. j \in Checkers
        BY <1>0, CheckShape DEF RoundRow
    <3>2. j = k => "recovered" \in races'
        BY <1>4
    <3>. QED BY <3>1, <3>2, <2>1
  <2>. QED BY <1>0, <1>1, <1>2, <1>3, <1>4, <2>1, <2>2, <2>3, <2>4, RowStep, CheckShape
<1>5. CASE CheckFault(1) /\ Flag(k) /\ UNCHANGED <<misses, races>>
  <2>1. bad' \in 0..MaxBad
      BY <1>0, <1>5, FaultCounted, CheckShape
  <2>2. \A v \in Workers \ {w} : \A j \in checking[v].degraded :
            checker[j].limited => checker'[j].limited
      BY <1>0, <1>5, FlagTypes, CheckShape DEF RoundRow
  <2>3. checker' \in [Checkers -> CheckerRow] /\ Purge(k)
      BY <1>0, <1>5, FlagTypes DEF Flag
  <2>4. misses' \in [Workers -> [Checkers -> 0..2]] /\ races \subseteq races'
        /\ races' \subseteq {"expired", "recovered"}
      BY <1>0, <1>5, CheckShape
  <2>5. /\ cache' \in [Checkers -> [Phones -> {"none", "live", "dead"}]]
        /\ trusted' \subseteq Checkers \X Phones
      BY <1>0, <2>3, PurgeTypes
  <2>. QED BY <1>1, <1>2, <1>3, <2>1, <2>2, <2>3, <2>4, <2>5, RowStep
<1>6. CASE /\ IF checker[k].dead THEN UNCHANGED bad ELSE CheckFault(1)
           /\ checker' = [checker EXCEPT ![k].cooling = TRUE]
           /\ UNCHANGED <<cache, trusted, misses, races>>
  <2>1. bad' \in 0..MaxBad
      BY <1>0, <1>6, FaultCounted, CheckShape
  <2>2. checker' \in [Checkers -> CheckerRow]
        /\ \A j \in Checkers : checker'[j].limited = checker[j].limited
      BY <1>0, <1>6 DEF CheckerRow
  <2>3. \A v \in Workers \ {w} : \A j \in checking[v].degraded :
            checker[j].limited => checker'[j].limited
      BY <1>0, <2>2, CheckShape DEF RoundRow
  <2>. QED BY <1>0, <1>1, <1>2, <1>3, <1>6, <2>1, <2>2, <2>3, RowStep, CheckShape
<1>. QED BY <1>4, <1>5, <1>6 DEF Recover

LEMMA ProbeKeeps ==
    ASSUME CheckIInv, NEW w \in Workers, NEW k \in Checkers, Probe(w, k)
    PROVE  CheckIInv'
<1>. DEFINE x(D) == [checking[w] EXCEPT !.todo = checking[w].todo \ {k}, !.degraded = D]
            old == checking[w].degraded
<1>0. CheckTypeOK /\ checking[w] \in RoundRow /\ checker \in [Checkers -> CheckerRow]
      /\ misses \in [Workers -> [Checkers -> 0..2]] /\ checking \in [Workers -> RoundRow]
    BY CheckShape DEF CheckIInv
<1>1. checking[w].pc = "probe" /\ UNCHANGED <<contact, controls, doubted, races>>
    BY DEF Probe
<1>2. old \in SUBSET Checkers /\ old \cup {k} \in SUBSET Checkers
    BY <1>0 DEF RoundRow
<1>3. \A D \in SUBSET Checkers : x(D) \in RoundRow /\ x(D).pc = "probe" /\ x(D).degraded = D
                                 /\ x(D).res = checking[w].res
  <2>. TAKE D \in SUBSET Checkers
  <2>1. checking[w].todo \ {k} \in SUBSET Checkers
      BY <1>0 DEF RoundRow
  <2>2. x(D) \in RoundRow
      BY <1>0, <2>1, RoundTypes
  <2>. QED BY <1>0, <1>1, <2>2 DEF RoundRow
<1>4. [checking EXCEPT ![w].todo = checking[w].todo \ {k}] = [checking EXCEPT ![w] = x(old)]
    BY <1>0 DEF RoundRow
<1>5. RoundStands(w)
    BY DEF CheckIInv
<1>6. races \subseteq races' /\ races' \subseteq {"expired", "recovered"}
    BY <1>0, <1>1, CheckShape
<1>7. misses' \in [Workers -> [Checkers -> 0..2]] /\ bad' \in 0..MaxBad
  <2>1. bad' \in 0..MaxBad
      BY <1>0, FaultCounted, CheckShape DEF Probe
  <2>. QED BY <1>0, <2>1 DEF Probe
<1>8. CASE /\ checking' = [checking EXCEPT ![w].todo = checking[w].todo \ {k}]
           /\ UNCHANGED <<checker, cache, trusted>>
  <2>1. checking' = [checking EXCEPT ![w] = x(old)]
      BY <1>4, <1>8
  <2>. HIDE DEF x
  <2>2. checking'[w] = x(old)
      BY <1>0, <1>2, <1>3, <2>1, RowChanged
  <2>3. RoundStands(w)'
      BY <1>1, <1>2, <1>3, <1>5, <1>8, <2>2 DEF RoundStands
  <2>. QED BY <1>0, <1>1, <1>2, <1>3, <1>6, <1>7, <1>8, <2>1, <2>3, RowStep, CheckShape
<1>9. CASE /\ checking' = [checking EXCEPT ![w].todo = checking[w].todo \ {k},
                                           ![w].degraded = checking[w].degraded \cup {k}]
           /\ Flag(k)
  <2>1. checking' = [checking EXCEPT ![w] = x(old \cup {k})]
      BY <1>0, <1>9 DEF RoundRow
  <2>. HIDE DEF x
  <2>2. checking'[w] = x(old \cup {k})
      BY <1>0, <1>2, <1>3, <2>1, RowChanged
  <2>3. /\ checker' \in [Checkers -> CheckerRow] /\ Purge(k) /\ checker'[k].limited
        /\ \A j \in Checkers : checker[j].limited => checker'[j].limited
      BY <1>0, <1>9, FlagTypes DEF Flag
  <2>4. RoundStands(w)'
    <3>1. \A j \in old \cup {k} : checker'[j].limited \/ "recovered" \in races'
        BY <1>1, <1>2, <1>5, <2>3 DEF RoundStands
    <3>2. \A c \in Phones : checking'[w].res[c] = "none"
        BY <1>1, <1>2, <1>3, <1>5, <2>2 DEF RoundStands
    <3>. QED BY <1>2, <1>3, <2>2, <3>1, <3>2 DEF RoundStands
  <2>5. /\ cache' \in [Checkers -> [Phones -> {"none", "live", "dead"}]]
        /\ trusted' \subseteq Checkers \X Phones
      BY <1>0, <2>3, PurgeTypes
  <2>6. \A v \in Workers \ {w} : \A j \in checking[v].degraded :
            checker[j].limited => checker'[j].limited
      BY <1>0, <2>3 DEF RoundRow
  <2>. QED BY <1>1, <1>2, <1>3, <1>6, <1>7, <2>1, <2>3, <2>4, <2>5, <2>6, RowStep
<1>. QED BY <1>8, <1>9 DEF Probe

-----------------------------------------------------------------------------
(* The batch.                                                               *)

LEMMA ClaimBatchKeeps ==
    ASSUME CheckIInv, NEW w \in Workers, ClaimBatch(w)
    PROVE  CheckIInv'
<1>1. PICK k \in {j \in Checkers : Eligible(j)}, batch \in SUBSET Claimable \ {{}} :
          /\ checking' = [checking EXCEPT ![w] = [checking[w] EXCEPT !.pc = "check", !.k = k,
                                 !.batch = batch, !.suspect = k \in checking[w].degraded]]
          /\ contact' = Claimed(batch)
    BY DEF ClaimBatch
<1>2. /\ checking[w].pc = "probe"
      /\ UNCHANGED <<checker, cache, misses, controls, bad, trusted, doubted, races>>
    BY DEF ClaimBatch
<1>. DEFINE x == [checking[w] EXCEPT !.pc = "check", !.k = k,
                                 !.batch = batch, !.suspect = k \in checking[w].degraded]
<1>3. /\ CheckTypeOK /\ RoundStands(w) /\ checking[w] \in RoundRow
      /\ contact \in [Phones -> ContactRow]
    BY CheckShape DEF CheckIInv
<1>4. /\ x \in RoundRow /\ x.pc = "check" /\ x.k = k /\ x.batch = batch
      /\ x.degraded = checking[w].degraded /\ x.res = checking[w].res
  <2>1. k \in Checkers /\ batch \in SUBSET Phones /\ (k \in checking[w].degraded) \in BOOLEAN
      BY DEF Claimable
  <2>2. x \in RoundRow
      BY <1>3, <2>1, RoundTypes
  <2>. QED BY <1>3, <2>2 DEF RoundRow
<1>5. checking' = [checking EXCEPT ![w] = x]
    BY <1>1
<1>. HIDE DEF x
<1>6. /\ checking' \in [Workers -> RoundRow] /\ checking'[w] = x
      /\ \A v \in Workers \ {w} : checking'[v] = checking[v]
    BY <1>3, <1>4, <1>5, RowChanged
<1>7. /\ contact' \in [Phones -> ContactRow]
      /\ \A c \in Phones :
            /\ contact'[c].st = contact[c].st /\ contact'[c].certain = contact[c].certain
            /\ contact'[c].claimed = (contact[c].claimed \/ c \in batch)
    BY <1>1, <1>3 DEF Claimed, ContactRow
<1>8. CheckTypeOK'
    BY <1>2, <1>3, <1>6, <1>7, CheckShape, CheckShapeNext
<1>9. \A v \in Workers : RoundStands(v)'
  <2>1. RoundStands(w)'
      BY <1>2, <1>3, <1>4, <1>6 DEF RoundStands, Eligible
  <2>2. ASSUME NEW v \in Workers, v # w PROVE RoundStands(v)'
      BY <1>2, <1>6, <2>2, OtherStands DEF CheckIInv
  <2>. QED BY <2>1, <2>2
<1>10. /\ Holds(w)' = batch /\ \A v \in Workers \ {w} : Holds(v)' = Holds(v)
       /\ \A v \in Workers : Holds(v) \subseteq Phones
  <2>1. \A v \in Workers : Holds(v) \subseteq Phones
      BY <1>3, CheckShape DEF Holds, RoundRow
  <2>. QED BY <1>4, <1>6, <2>1 DEF Holds
<1>11. batch \subseteq Phones /\ \A c \in batch : ~contact[c].claimed
    BY DEF Claimable
<1>12. HeldIsClaimed'
    BY <1>2, <1>7, <1>10, <1>11 DEF CheckIInv, HeldIsClaimed
<1>13. OneCheckPerContact'
  <2>. SUFFICES ASSUME NEW u \in Workers, NEW v \in Workers, u # v,
                       Holds(u)' \cap Holds(v)' # {}, "expired" \notin races
                PROVE  FALSE
      BY <1>2 DEF OneCheckPerContact
  <2>1. \A y \in Workers : \A c \in Holds(y) : contact[c].claimed
      BY DEF CheckIInv, HeldIsClaimed
  <2>2. u # w /\ v # w => FALSE
      BY <1>10 DEF CheckIInv, OneCheckPerContact
  <2>. QED BY <2>1, <2>2, <1>10, <1>11
<1>14. CachedIsCertain'
  <2>. SUFFICES ASSUME races = {}, NEW v \in Workers, NEW c \in Holds(v)',
                       checking'[v].res[c] = "cached dead"
                PROVE  contact'[c].certain
      BY <1>2 DEF CachedIsCertain
  <2>1. v # w
      BY <1>2, <1>3, <1>4, <1>6, <1>10, <1>11 DEF RoundStands
  <2>. QED BY <2>1, <1>6, <1>7, <1>10 DEF CheckIInv, CachedIsCertain
<1>15. WrittenOffIsCertain'
    BY <1>7 DEF CheckIInv, WrittenOffIsCertain
<1>16. DoubtedIsUncertain'
    BY <1>2, <1>3, <1>7, CheckShape DEF CheckIInv, DoubtedIsUncertain
<1>17. PoisonIsPurged'
    BY <1>2, <1>6, PoisonStands
<1>. QED BY <1>8, <1>9, <1>12, <1>13, <1>14, <1>15, <1>16, <1>17 DEF CheckIInv

\* One more answer in a row.
LEMMA AnswerRow ==
    ASSUME CheckIInv, NEW w \in Workers, NEW c \in Phones, NEW r \in Answers, Answer(w, c, r),
           checking[w].pc = "check", checker' = checker, races' = races
    PROVE  /\ checking' \in [Workers -> RoundRow]
           /\ \A v \in Workers \ {w} : checking'[v] = checking[v]
           /\ checking'[w].pc = "check" /\ checking'[w].k = checking[w].k
           /\ checking'[w].batch = checking[w].batch
           /\ checking'[w].degraded = checking[w].degraded
           /\ checking'[w].res[c] = r
           /\ \A d \in Phones \ {c} : checking'[w].res[d] = checking[w].res[d]
           /\ \A v \in Workers : RoundStands(v)' /\ Holds(v)' = Holds(v) /\ Holds(v) \subseteq Phones
<1>. DEFINE x == [checking[w] EXCEPT !.res = [checking[w].res EXCEPT ![c] = r]]
<1>1. /\ CheckTypeOK /\ checking \in [Workers -> RoundRow] /\ checking[w] \in RoundRow
      /\ checking[w].res \in [Phones -> Answers]
    BY CheckShape DEF CheckIInv, RoundRow
<1>2. checking' = [checking EXCEPT ![w] = x]
    BY <1>1 DEF Answer, RoundRow
<1>3. /\ x \in RoundRow /\ x.pc = checking[w].pc /\ x.k = checking[w].k
      /\ x.batch = checking[w].batch /\ x.degraded = checking[w].degraded
      /\ x.res = [checking[w].res EXCEPT ![c] = r]
    BY <1>1 DEF RoundRow
<1>. HIDE DEF x
<1>4. /\ checking' \in [Workers -> RoundRow] /\ checking'[w] = x
      /\ \A v \in Workers \ {w} : checking'[v] = checking[v]
    BY <1>1, <1>2, <1>3, RowChanged
<1>5. \A v \in Workers : RoundStands(v)'
  <2>1. RoundStands(w)'
      BY <1>3, <1>4 DEF RoundStands, CheckIInv
  <2>2. ASSUME NEW v \in Workers, v # w PROVE RoundStands(v)'
      BY <1>4, <2>2, OtherStands DEF CheckIInv
  <2>. QED BY <2>1, <2>2
<1>6. \A v \in Workers : Holds(v)' = Holds(v) /\ Holds(v) \subseteq Phones
    BY <1>1, <1>3, <1>4 DEF Holds, RoundRow
<1>. QED BY <1>1, <1>3, <1>4, <1>5, <1>6

LEMMA FromCacheKeeps ==
    ASSUME CheckIInv, NEW w \in Workers, NEW c \in Phones, FromCache(w, c)
    PROVE  CheckIInv'
<1>1. PICK r \in {"live", "dead"} :
          /\ Served(c, r)
          /\ Answer(w, c, IF r = "live" THEN "cached live" ELSE "cached dead")
          /\ doubted' = IF r = "dead" /\ ~\E k \in Checkers : <<k, c>> \in trusted
                        THEN doubted \cup {c} ELSE doubted
    BY DEF FromCache
<1>2. /\ checking[w].pc = "check" /\ c \in checking[w].batch /\ checking[w].res[c] = "none"
      /\ UNCHANGED <<contact, checker, cache, misses, controls, bad, trusted, races>>
    BY DEF FromCache, Begun, Unresolved
<1>. DEFINE a == IF r = "live" THEN "cached live" ELSE "cached dead"
<1>3. a \in Answers /\ Answer(w, c, a)
    BY <1>1 DEF Answers
<1>4. /\ checking' \in [Workers -> RoundRow]
      /\ \A v \in Workers \ {w} : checking'[v] = checking[v]
      /\ checking'[w].pc = "check" /\ checking'[w].k = checking[w].k
      /\ checking'[w].batch = checking[w].batch /\ checking'[w].res[c] = a
      /\ \A d \in Phones \ {c} : checking'[w].res[d] = checking[w].res[d]
      /\ \A v \in Workers : RoundStands(v)' /\ Holds(v)' = Holds(v) /\ Holds(v) \subseteq Phones
    BY <1>2, <1>3, AnswerRow
<1>5. CheckTypeOK /\ CheckTypeOK'
    BY <1>1, <1>2, <1>4, CheckShape, CheckShapeNext DEF CheckIInv
<1>6. races = {} => doubted' = doubted
  <2>. SUFFICES ASSUME races = {}, r = "dead", ~\E k \in Checkers : <<k, c>> \in trusted
                PROVE  FALSE
      BY <1>1
  <2>1. PICK k \in Checkers : cache[k][c] = "dead"
      BY <1>1 DEF Served
  <2>2. PICK v \in Workers : checking[v].pc = "check" /\ <<k, c>> \in Written(v)
      BY <2>1 DEF CheckIInv, PoisonIsPurged
  <2>3. c \in checking[v].batch /\ checking[v].res[c] = "dead"
      BY <2>2 DEF Written
  <2>4. v # w /\ c \in Holds(v) \cap Holds(w)
      BY <1>2, <2>2, <2>3 DEF Holds
  <2>. QED BY <2>4 DEF CheckIInv, OneCheckPerContact
<1>7. HeldIsClaimed'
    BY <1>2, <1>4 DEF CheckIInv, HeldIsClaimed
<1>8. OneCheckPerContact'
    BY <1>2, <1>4 DEF CheckIInv, OneCheckPerContact
<1>9. CachedIsCertain'
  <2>. SUFFICES ASSUME races = {}, NEW v \in Workers, NEW d \in Holds(v),
                       checking'[v].res[d] = "cached dead"
                PROVE  contact[d].certain
      BY <1>2, <1>4 DEF CachedIsCertain
  <2>1. CASE v = w /\ d = c
    <3>1. r = "dead"
        BY <1>4, <2>1
    <3>. QED BY <1>1, <2>1, <3>1 DEF Served
  <2>2. CASE v # w \/ d # c
    <3>1. checking[v].res[d] = "cached dead"
        BY <1>4, <2>2
    <3>. QED BY <3>1 DEF CheckIInv, CachedIsCertain
  <2>. QED BY <2>1, <2>2
<1>10. WrittenOffIsCertain' /\ DoubtedIsUncertain'
    BY <1>2, <1>6 DEF CheckIInv, WrittenOffIsCertain, DoubtedIsUncertain
<1>11. PoisonIsPurged'
  <2>1. \A d \in checking[w].batch :
            checking[w].res[d] = "dead" => checking'[w].res[d] = "dead"
    <3>1. checking[w].batch \subseteq Phones
        BY <1>2, <1>4 DEF Holds
    <3>. QED BY <1>2, <1>4, <3>1
  <2>. QED BY <1>2, <1>4, <2>1, PoisonStands
<1>. QED BY <1>4, <1>5, <1>7, <1>8, <1>9, <1>10, <1>11 DEF CheckIInv

LEMMA FromTelegramKeeps ==
    ASSUME CheckIInv, NEW w \in Workers, NEW c \in Phones, FromTelegram(w, c)
    PROVE  CheckIInv'
<1>. DEFINE k == checking[w].k
<1>1. PICK r \in {"live", "dead", "bad"} :
          /\ Answer(w, c, r)
          /\ IF r = "bad" THEN UNCHANGED <<cache, trusted>>
             ELSE /\ cache' = [cache EXCEPT ![k][c] = r]
                  /\ trusted' = trusted \ {<<k, c>>}
    BY DEF FromTelegram
<1>2. /\ checking[w].pc = "check" /\ c \in checking[w].batch /\ checking[w].res[c] = "none"
      /\ UNCHANGED <<contact, checker, misses, controls, bad, doubted, races>>
    BY DEF FromTelegram, Begun, Unresolved
<1>3. r \in Answers
    BY DEF Answers
<1>4. /\ checking' \in [Workers -> RoundRow]
      /\ \A v \in Workers \ {w} : checking'[v] = checking[v]
      /\ checking'[w].pc = "check" /\ checking'[w].k = k
      /\ checking'[w].batch = checking[w].batch /\ checking'[w].res[c] = r
      /\ \A d \in Phones \ {c} : checking'[w].res[d] = checking[w].res[d]
      /\ \A v \in Workers : RoundStands(v)' /\ Holds(v)' = Holds(v) /\ Holds(v) \subseteq Phones
    BY <1>1, <1>2, <1>3, AnswerRow
<1>5. k \in Checkers /\ CheckTypeOK
      /\ cache \in [Checkers -> [Phones -> {"none", "live", "dead"}]]
    BY <1>2, CheckShape DEF CheckIInv, RoundStands
<1>6. /\ cache' \in [Checkers -> [Phones -> {"none", "live", "dead"}]]
      /\ trusted' \subseteq Checkers \X Phones
  <2>1. trusted \subseteq Checkers \X Phones
      BY <1>5, CheckShape
  <2>2. CASE r = "bad"
      BY <1>1, <1>5, <2>1, <2>2
  <2>3. CASE r \in {"live", "dead"}
    <3>1. cache' = [cache EXCEPT ![k][c] = r] /\ trusted' = trusted \ {<<k, c>>}
        BY <1>1, <2>3
    <3>2. [cache[k] EXCEPT ![c] = r] \in [Phones -> {"none", "live", "dead"}]
        BY <1>5, <2>3
    <3>. QED BY <1>5, <2>1, <3>1, <3>2
  <2>. QED BY <2>2, <2>3
<1>7. CheckTypeOK'
    BY <1>2, <1>4, <1>5, <1>6, CheckShape, CheckShapeNext
<1>8. ContactPart'
  <2>1. \A v \in Workers : \A d \in Holds(v)' :
            /\ d \in Holds(v)
            /\ checking'[v].res[d] = "cached dead" => checking[v].res[d] = "cached dead"
    <3>. SUFFICES ASSUME NEW v \in Workers, NEW d \in Holds(v)
                  PROVE  checking'[v].res[d] = "cached dead" => checking[v].res[d] = "cached dead"
        BY <1>4
    <3>. QED BY <1>4
  <2>. QED BY <1>2, <2>1, ContactsStand
<1>9. PoisonIsPurged'
  <2>. SUFFICES ASSUME NEW j \in Checkers, NEW d \in Phones, cache'[j][d] = "dead",
                       <<j, d>> \notin trusted', "recovered" \notin races
                PROVE  \E v \in Workers : checking'[v].pc = "check" /\ <<j, d>> \in Written(v)'
      BY <1>2 DEF PoisonIsPurged
  <2>1. CASE r # "bad" /\ j = k /\ d = c
    <3>1. cache'[k][c] = r
        BY <1>1, <1>5, <2>1
    <3>2. <<j, d>> \in Written(w)'
        BY <1>2, <1>4, <2>1, <3>1 DEF Written
    <3>. QED BY <1>4, <3>2
  <2>2. CASE r = "bad" \/ j # k \/ d # c
    <3>1. cache[j][d] = "dead" /\ <<j, d>> \notin trusted
      <4>1. CASE r = "bad"
          BY <1>1, <4>1
      <4>2. CASE r # "bad"
        <5>1. cache'[j][d] = cache[j][d]
            BY <1>1, <1>5, <2>2, <4>2
        <5>. QED BY <1>1, <2>2, <4>2, <5>1
      <4>. QED BY <4>1, <4>2
    <3>2. PICK v \in Workers : checking[v].pc = "check" /\ <<j, d>> \in Written(v)
        BY <1>2, <3>1 DEF CheckIInv, PoisonIsPurged
    <3>3. j = checking[v].k /\ d \in checking[v].batch /\ checking[v].res[d] = "dead"
        BY <3>2 DEF Written
    <3>4. /\ checking'[v].pc = "check" /\ checking'[v].k = j /\ d \in checking'[v].batch
          /\ checking'[v].res[d] = "dead"
        BY <1>2, <1>4, <3>2, <3>3
    <3>5. <<j, d>> \in Written(v)'
        BY <3>4 DEF Written
    <3>. QED BY <3>4, <3>5
  <2>. QED BY <2>1, <2>2
<1>. QED BY <1>4, <1>7, <1>8, <1>9 DEF CheckIInv, ContactPart

LEMMA FloodKeeps ==
    ASSUME CheckIInv, NEW w \in Workers, Flood(w)
    PROVE  CheckIInv'
<1>. DEFINE x == [checking[w] EXCEPT !.flood = TRUE]
<1>1. CheckTypeOK /\ RoundStands(w) /\ checking[w] \in RoundRow
    BY CheckShape DEF CheckIInv
<1>2. /\ checking[w].pc = "check" /\ CheckFault(1)
      /\ UNCHANGED <<contact, checker, cache, misses, controls, trusted, doubted, races>>
    BY DEF Flood, Begun
<1>3. /\ x \in RoundRow /\ x.pc = "check" /\ x.k = checking[w].k
      /\ x.batch = checking[w].batch /\ x.res = checking[w].res
      /\ x.degraded = checking[w].degraded
    BY <1>1, <1>2 DEF RoundRow
<1>4. checking' = [checking EXCEPT ![w] = x]
    BY <1>1, CheckShape DEF Flood, RoundRow
<1>. HIDE DEF x
<1>5. checking'[w] = x
    BY <1>1, <1>3, <1>4, RowChanged
<1>6. RoundStands(w)'
    BY <1>1, <1>2, <1>3, <1>5 DEF RoundStands
<1>7. bad' \in 0..MaxBad
    BY <1>1, <1>2, FaultCounted, CheckShape
<1>. QED BY <1>1, <1>2, <1>3, <1>4, <1>6, <1>7, RowStep, CheckShape

\* The row of an instance that starts over.
LEMMA RestingKeeps ==
    ASSUME CheckTypeOK, NEW w \in Workers, checking' = [checking EXCEPT ![w] = NoRound]
    PROVE  NoRound.pc = "idle" /\ RoundStands(w)'
<1>1. checking'[w] = NoRound
    BY NoRoundType, RowChanged
<1>. QED BY <1>1 DEF NoRound, RoundStands

\* The rows of one batch.
LEMMA WrittenTypes ==
    ASSUME CheckTypeOK, NEW w \in Workers, RoundStands(w), checking[w].pc = "check"
    PROVE  Written(w) \subseteq Checkers \X Phones
BY CheckShape DEF Written, RoundStands, RoundRow

LEMMA RaiseKeeps ==
    ASSUME CheckIInv, NEW w \in Workers, Raise(w)
    PROVE  CheckIInv'
<1>1. CheckTypeOK /\ RoundStands(w) /\ checking[w] \in RoundRow
    BY CheckShape DEF CheckIInv
<1>2. /\ checking[w].pc = "check"
      /\ checking' = [checking EXCEPT ![w] = NoRound] /\ trusted' = trusted \cup Written(w)
      /\ UNCHANGED <<contact, cache, misses, controls, doubted, races>>
    BY DEF Raise, Begun
<1>3. /\ checker' \in [Checkers -> CheckerRow]
      /\ \A j \in Checkers : checker'[j].limited = checker[j].limited
  <2>1. checker \in [Checkers -> CheckerRow]
      BY <1>1, CheckShape
  <2>2. CASE \E d \in BOOLEAN : checker' = [checker EXCEPT ![checking[w].k] =
                 [checker[checking[w].k] EXCEPT !.resting = TRUE, !.dead = d]]
    <3>1. PICK d \in BOOLEAN : checker' = [checker EXCEPT ![checking[w].k] =
                 [checker[checking[w].k] EXCEPT !.resting = TRUE, !.dead = d]]
        BY <2>2
    <3>. QED BY <2>1, <3>1 DEF CheckerRow
  <2>3. CASE checker' = [checker EXCEPT ![checking[w].k].resting = TRUE]
      BY <2>1, <2>3 DEF CheckerRow
  <2>. QED BY <2>2, <2>3 DEF Raise
<1>4. bad' \in 0..MaxBad
    BY <1>1, FaultCounted, CheckShape DEF Raise
<1>5. \A v \in Workers \ {w} : \A j \in checking[v].degraded :
          checker[j].limited => checker'[j].limited
    BY <1>1, <1>3, CheckShape DEF RoundRow
<1>6. NoRound.pc = "idle" /\ RoundStands(w)'
    BY <1>1, <1>2, RestingKeeps
<1>7. trusted' \subseteq Checkers \X Phones
    BY <1>1, <1>2, WrittenTypes, CheckShape
<1>. QED BY <1>1, <1>2, <1>3, <1>4, <1>5, <1>6, <1>7, NoRoundType, RowStep, CheckShape

LEMMA JudgeKeeps ==
    ASSUME CheckIInv, NEW w \in Workers, Judge(w)
    PROVE  CheckIInv'
<1>. DEFINE k == checking[w].k
            D == checking[w].degraded \cup (IF SignsOfThrottle(w) THEN {k} ELSE {})
            x == [checking[w] EXCEPT !.pc = "apply", !.suspect = Suspect(w), !.degraded = D]
<1>1. CheckTypeOK /\ RoundStands(w) /\ checking[w] \in RoundRow
    BY CheckShape DEF CheckIInv
<1>2. /\ checking[w].pc = "check" /\ checking' = [checking EXCEPT ![w] = x]
      /\ UNCHANGED <<contact, misses, controls, bad, doubted, races>>
    BY DEF Judge
<1>3. k \in Checkers /\ D \in SUBSET Checkers /\ Suspect(w) \in BOOLEAN
    BY <1>1, <1>2 DEF RoundStands, RoundRow, Suspect, SignsOfThrottle
<1>4. /\ x \in RoundRow /\ x.pc = "apply" /\ x.k = k /\ x.batch = checking[w].batch
      /\ x.res = checking[w].res /\ x.flood = checking[w].flood /\ x.suspect = Suspect(w)
  <2>1. x \in RoundRow
      BY <1>1, <1>3, RoundTypes
  <2>. QED BY <1>1, <2>1 DEF RoundRow
<1>. HIDE DEF x
<1>5. checking'[w] = x
    BY <1>1, <1>2, <1>4, RowChanged
<1>6. RoundStands(w)'
  <2>1. SignsOfThrottle(w)' <=> SignsOfThrottle(w)
      BY <1>4, <1>5 DEF SignsOfThrottle, Live
  <2>2. SignsOfThrottle(w) => Suspect(w)
      BY DEF Suspect
  <2>. QED BY <1>3, <1>4, <1>5, <2>1, <2>2 DEF RoundStands
<1>7. CASE ~SignsOfThrottle(w)
  <2>1. trusted' = trusted \cup Written(w) /\ UNCHANGED <<checker, cache>>
      BY <1>7 DEF Judge
  <2>2. trusted' \subseteq Checkers \X Phones
      BY <1>1, <1>2, <2>1, WrittenTypes, CheckShape
  <2>. QED BY <1>1, <1>2, <1>4, <1>6, <2>1, <2>2, RowStep, CheckShape
<1>8. CASE SignsOfThrottle(w) /\ k \in checking[w].degraded
  <2>1. UNCHANGED <<checker, cache, trusted>>
      BY <1>8 DEF Judge
  <2>2. "recovered" \in races
      BY <1>1, <1>2, <1>8 DEF RoundStands
  <2>. QED BY <1>1, <1>2, <1>4, <1>6, <2>1, <2>2, RowStep, CheckShape
<1>9. CASE SignsOfThrottle(w) /\ k \notin checking[w].degraded
  <2>1. Purge(k) /\ checker' \in [Checkers -> CheckerRow]
        /\ \A j \in Checkers : checker[j].limited => checker'[j].limited
    <3>1. CASE controls
      <4>1. Flag(k)
          BY <1>9, <3>1 DEF Judge
      <4>. QED BY <1>1, <1>3, <4>1, FlagTypes DEF Flag
    <3>2. CASE ~controls
      <4>1. checker' = [checker EXCEPT ![k].resting = TRUE] /\ Purge(k)
          BY <1>9, <3>2 DEF Judge
      <4>. QED BY <1>1, <4>1, CheckShape DEF CheckerRow
    <3>. QED BY <3>1, <3>2
  <2>2. /\ cache' \in [Checkers -> [Phones -> {"none", "live", "dead"}]]
        /\ trusted' \subseteq Checkers \X Phones
      BY <1>1, <1>3, <2>1, PurgeTypes
  <2>3. \A v \in Workers \ {w} : \A j \in checking[v].degraded :
            checker[j].limited => checker'[j].limited
      BY <1>1, <2>1, CheckShape DEF RoundRow
  <2>4. \A c \in Phones : cache'[k][c] = "dead" => <<k, c>> \in trusted'
      BY <1>1, <1>3, <2>1, PurgeLeavesTrusted
  <2>5. misses' \in [Workers -> [Checkers -> 0..2]] /\ bad' \in 0..MaxBad
        /\ races' \subseteq {"expired", "recovered"}
      BY <1>1, <1>2, CheckShape
  <2>. QED BY <1>2, <1>3, <1>4, <1>6, <2>1, <2>2, <2>3, <2>4, <2>5, RowStep
<1>. QED BY <1>7, <1>8, <1>9

\* What Apply writes about one contact.
LEMMA VerdictWritten ==
    ASSUME CheckIInv, NEW w \in Workers, NEW c \in Phones
    PROVE  /\ Verdict(w, c) \in ContactRow
           /\ Verdict(w, c).st = "not_registered" => Verdict(w, c).certain
           /\ checking[w].res[c] = "dead" /\ checking[w].suspect => ~Verdict(w, c).certain
<1>1. /\ contact[c] \in ContactRow /\ checking[w].res[c] \in Answers
      /\ checking[w].suspect \in BOOLEAN
    BY CheckShape DEF CheckIInv, RoundRow
<1>2. contact[c].st = "not_registered" => contact[c].certain
    BY DEF CheckIInv, WrittenOffIsCertain
<1>3. CASE checking[w].res[c] = "none"
    BY <1>1, <1>2, <1>3 DEF Verdict
<1>4. CASE checking[w].res[c] = "bad"
    BY <1>1, <1>4 DEF Verdict, ContactRow
<1>5. CASE checking[w].res[c] \in {"live", "cached live"}
    BY <1>1, <1>5 DEF Verdict, ContactRow
<1>6. CASE checking[w].res[c] \in {"dead", "cached dead"} /\ checking[w].suspect
    BY <1>1, <1>6 DEF Verdict, ContactRow
<1>7. CASE checking[w].res[c] \in {"dead", "cached dead"} /\ ~checking[w].suspect
    BY <1>1, <1>7 DEF Verdict, ContactRow
<1>. QED BY <1>1, <1>3, <1>4, <1>5, <1>6, <1>7 DEF Answers

LEMMA ApplyKeeps ==
    ASSUME CheckIInv, NEW w \in Workers, Apply(w)
    PROVE  CheckIInv'
<1>. DEFINE told == {c \in checking[w].batch : checking[w].res[c] # "none"}
            unsure == {c \in told : checking[w].res[c] = "dead" /\ SignsOfThrottle(w)}
            x == [NoRound EXCEPT !.pc = "rest", !.k = checking[w].k,
                                 !.degraded = checking[w].degraded]
<1>1. /\ CheckTypeOK /\ RoundStands(w) /\ checking[w] \in RoundRow
      /\ checking[w].batch \subseteq Phones /\ contact \in [Phones -> ContactRow]
    BY CheckShape DEF CheckIInv, RoundRow
<1>2. /\ checking[w].pc = "apply"
      /\ contact' = [c \in Phones |-> IF c \in told THEN Verdict(w, c) ELSE contact[c]]
      /\ doubted' = (doubted \ {c \in told : checking[w].res[c] # "cached dead"}) \cup unsure
      /\ checking' = [checking EXCEPT ![w] = x]
      /\ UNCHANGED <<checker, cache, misses, controls, bad, trusted, races>>
    BY DEF Apply
<1>3. x \in RoundRow /\ x.pc = "rest" /\ x.k \in Checkers
  <2>1. checking[w].k \in Checkers /\ checking[w].degraded \in SUBSET Checkers
      BY <1>1, <1>2 DEF RoundStands, RoundRow
  <2>2. x \in RoundRow
      BY <2>1, NoRoundType, RoundTypes
  <2>. QED BY <2>1, <2>2 DEF NoRound
<1>. HIDE DEF x
<1>4. /\ checking' \in [Workers -> RoundRow] /\ checking'[w] = x
      /\ \A v \in Workers \ {w} : checking'[v] = checking[v]
    BY <1>1, <1>2, <1>3, RowChanged
<1>5. contact' \in [Phones -> ContactRow]
    BY <1>1, <1>2, VerdictWritten
<1>6. CheckTypeOK'
    BY <1>1, <1>2, <1>4, <1>5, CheckShape, CheckShapeNext
<1>7. \A v \in Workers : RoundStands(v)'
  <2>1. RoundStands(w)'
      BY <1>3, <1>4 DEF RoundStands
  <2>2. ASSUME NEW v \in Workers, v # w PROVE RoundStands(v)'
      BY <1>2, <1>4, <2>2, OtherStands DEF CheckIInv
  <2>. QED BY <2>1, <2>2
<1>8. /\ Holds(w) = checking[w].batch /\ Holds(w)' = {}
      /\ \A v \in Workers \ {w} : Holds(v)' = Holds(v)
      /\ \A v \in Workers : Holds(v) \subseteq Phones
  <2>1. \A v \in Workers : Holds(v) \subseteq Phones
      BY <1>1, CheckShape DEF Holds, RoundRow
  <2>. QED BY <1>2, <1>3, <1>4, <2>1 DEF Holds
\* Contacts of other instances are left alone.
<1>9. "expired" \notin races =>
          \A v \in Workers : \A c \in Holds(v)' : v # w /\ c \in Holds(v) /\ contact'[c] = contact[c]
  <2>. SUFFICES ASSUME "expired" \notin races, NEW v \in Workers, NEW c \in Holds(v)'
                PROVE  v # w /\ c \in Holds(v) /\ contact'[c] = contact[c]
      OBVIOUS
  <2>1. v # w /\ c \in Holds(v)
      BY <1>8
  <2>2. c \notin told
      BY <1>8, <2>1 DEF CheckIInv, OneCheckPerContact
  <2>. QED BY <1>2, <1>8, <2>1, <2>2
<1>10. HeldIsClaimed'
    BY <1>2, <1>9 DEF CheckIInv, HeldIsClaimed
<1>11. OneCheckPerContact'
    BY <1>2, <1>8, <1>9 DEF CheckIInv, OneCheckPerContact
<1>12. CachedIsCertain'
    BY <1>2, <1>4, <1>9 DEF CheckIInv, CachedIsCertain
<1>13. WrittenOffIsCertain'
    BY <1>2, VerdictWritten DEF CheckIInv, WrittenOffIsCertain
<1>14. DoubtedIsUncertain'
  <2>. SUFFICES ASSUME races = {}, NEW c \in doubted' PROVE ~contact'[c].certain
      BY <1>2 DEF DoubtedIsUncertain
  <2>1. CASE c \in unsure
    <3>1. checking[w].suspect /\ checking[w].res[c] = "dead" /\ c \in Phones
        BY <1>1, <1>2, <2>1 DEF RoundStands
    <3>2. contact'[c] = Verdict(w, c)
        BY <1>2, <2>1, <3>1
    <3>. QED BY <3>1, <3>2, VerdictWritten
  <2>2. CASE c \notin unsure
    <3>1. c \in doubted /\ (c \in told => checking[w].res[c] = "cached dead")
        BY <1>2, <2>2
    <3>2. ~contact[c].certain /\ c \in Phones
        BY <1>1, <3>1, CheckShape DEF CheckIInv, DoubtedIsUncertain
    <3>3. c \notin told
        BY <1>8, <3>1, <3>2 DEF CheckIInv, CachedIsCertain
    <3>. QED BY <1>2, <3>2, <3>3
  <2>. QED BY <2>1, <2>2
<1>15. PoisonIsPurged'
    BY <1>2, <1>4, PoisonStands
<1>. QED BY <1>6, <1>7, <1>10, <1>11, <1>12, <1>13, <1>14, <1>15 DEF CheckIInv

-----------------------------------------------------------------------------
(* Ends of a round, time and managers.                                      *)

LEMMA RestKeeps ==
    ASSUME CheckIInv, NEW w \in Workers, Rest(w)
    PROVE  CheckIInv'
<1>1. CheckTypeOK /\ checker \in [Checkers -> CheckerRow]
    BY CheckShape DEF CheckIInv
<1>2. /\ checking[w].pc = "rest" /\ checking' = [checking EXCEPT ![w] = NoRound]
      /\ checker' = [checker EXCEPT ![checking[w].k].resting = TRUE]
      /\ UNCHANGED <<contact, cache, misses, controls, bad, trusted, doubted, races>>
    BY DEF Rest
<1>3. /\ checker' \in [Checkers -> CheckerRow]
      /\ \A j \in Checkers : checker'[j].limited = checker[j].limited
    BY <1>1, <1>2 DEF CheckerRow
<1>4. \A v \in Workers \ {w} : \A j \in checking[v].degraded :
          checker[j].limited => checker'[j].limited
    BY <1>1, <1>3, CheckShape DEF RoundRow
<1>5. NoRound.pc = "idle" /\ RoundStands(w)'
    BY <1>1, <1>2, RestingKeeps
<1>. QED BY <1>1, <1>2, <1>3, <1>4, <1>5, NoRoundType, RowStep, CheckShape

LEMMA NothingToClaimKeeps ==
    ASSUME CheckIInv, NEW w \in Workers, NothingToClaim(w)
    PROVE  CheckIInv'
<1>1. /\ checking[w].pc = "probe" /\ checking' = [checking EXCEPT ![w] = NoRound]
      /\ UNCHANGED <<contact, checker, cache, misses, controls, bad, trusted, doubted, races>>
    BY DEF NothingToClaim
<1>2. CheckTypeOK /\ NoRound.pc = "idle" /\ RoundStands(w)'
    BY <1>1, RestingKeeps DEF CheckIInv
<1>. QED BY <1>1, <1>2, NoRoundType, RowStep, CheckShape

LEMMA CrashKeeps ==
    ASSUME CheckIInv, NEW w \in Workers, Crash(w)
    PROVE  CheckIInv'
<1>1. CheckTypeOK /\ RoundStands(w)
    BY DEF CheckIInv
<1>2. /\ checking' = [checking EXCEPT ![w] = NoRound] /\ CheckFault(1)
      /\ misses' = [misses EXCEPT ![w] = [k \in Checkers |-> 0]]
      /\ trusted' = IF checking[w].pc = "check" THEN trusted \cup Written(w) ELSE trusted
      /\ UNCHANGED <<contact, checker, cache, controls, doubted, races>>
    BY DEF Crash
<1>3. bad' \in 0..MaxBad /\ misses' \in [Workers -> [Checkers -> 0..2]]
    BY <1>1, <1>2, FaultCounted, CheckShape
<1>4. trusted' \subseteq Checkers \X Phones /\ trusted \subseteq trusted'
    BY <1>1, <1>2, WrittenTypes, CheckShape
<1>5. NoRound.pc = "idle" /\ RoundStands(w)'
    BY <1>1, <1>2, RestingKeeps
<1>. QED BY <1>1, <1>2, <1>3, <1>4, <1>5, NoRoundType, RowStep, CheckShape

\* Nobody but the recovery makes a benched checker eligible.
LEMMA CheckerStep ==
    ASSUME CheckIInv, checker' \in [Checkers -> CheckerRow], bad' \in 0..MaxBad,
           \A j \in Checkers : checker[j].limited => checker'[j].limited,
           UNCHANGED <<contact, cache, checking, misses, controls, trusted, doubted, races>>
    PROVE  CheckIInv'
<1>1. CheckTypeOK /\ CheckTypeOK'
    BY CheckShape, CheckShapeNext DEF CheckIInv
<1>2. \A v \in Workers : RoundStands(v)'
  <2>. SUFFICES ASSUME NEW v \in Workers PROVE RoundStands(v)'
      OBVIOUS
  <2>1. checking[v].degraded \subseteq Checkers
      BY <1>1, CheckShape DEF RoundRow
  <2>. QED BY <2>1, OtherStands DEF CheckIInv
<1>3. \A v \in Workers : Holds(v)' = Holds(v)
    BY DEF Holds
<1>4. ContactPart'
  <2>1. \A v \in Workers : \A c \in Holds(v)' :
            c \in Holds(v)
            /\ (checking'[v].res[c] = "cached dead" => checking[v].res[c] = "cached dead")
      BY <1>3
  <2>. QED BY <2>1, ContactsStand
<1>5. PoisonIsPurged'
    BY PoisonStands
<1>. QED BY <1>1, <1>2, <1>4, <1>5 DEF CheckIInv, ContactPart

LEMMA CoolKeeps ==
    ASSUME CheckIInv, NEW k \in Checkers, Cool(k) \/ RestOver(k) \/ SetPaused(k)
    PROVE  CheckIInv'
<1>1. CheckTypeOK /\ checker \in [Checkers -> CheckerRow] /\ bad \in 0..MaxBad
    BY CheckShape DEF CheckIInv
<1>2. bad' \in 0..MaxBad
    BY <1>1, FaultCounted DEF Cool, RestOver, SetPaused
<1>3. checker' \in [Checkers -> CheckerRow]
      /\ \A j \in Checkers : checker'[j].limited = checker[j].limited
  <2>1. CASE Cool(k)
      BY <1>1, <2>1 DEF Cool, CheckerRow
  <2>2. CASE RestOver(k)
      BY <1>1, <2>2 DEF RestOver, CheckerRow
  <2>3. CASE SetPaused(k)
      BY <1>1, <2>3 DEF SetPaused, CheckerRow
  <2>. QED BY <2>1, <2>2, <2>3
<1>4. UNCHANGED <<contact, cache, checking, misses, controls, trusted, doubted, races>>
    BY DEF Cool, RestOver, SetPaused
<1>. QED BY <1>2, <1>3, <1>4, CheckerStep

LEMMA ClaimAgesKeeps ==
    ASSUME CheckIInv, NEW c \in Phones, ClaimAges(c)
    PROVE  CheckIInv'
<1>1. CheckTypeOK /\ contact \in [Phones -> ContactRow]
      /\ \A v \in Workers : Holds(v) \subseteq Phones
    BY CheckShape DEF CheckIInv, Holds, RoundRow
<1>2. /\ contact' = [contact EXCEPT ![c].claimed = FALSE]
      /\ UNCHANGED <<checker, cache, checking, misses, controls, trusted, doubted>>
      /\ races \subseteq races' /\ races' \subseteq races \cup {"expired"}
      /\ "expired" \in races' \/ (races' = races /\ \A w \in Workers : c \notin Holds(w))
    BY DEF ClaimAges
<1>3. bad' \in 0..MaxBad
    BY <1>1, FaultCounted, CheckShape DEF ClaimAges
<1>4. /\ contact' \in [Phones -> ContactRow]
      /\ \A d \in Phones : contact'[d].st = contact[d].st /\ contact'[d].certain = contact[d].certain
      /\ \A d \in Phones \ {c} : contact'[d] = contact[d]
    BY <1>1, <1>2 DEF ContactRow
<1>5. CheckTypeOK'
    BY <1>1, <1>2, <1>3, <1>4, CheckShape, CheckShapeNext
<1>6. \A v \in Workers : RoundStands(v)' /\ Holds(v)' = Holds(v)
    BY <1>2, OtherStands DEF CheckIInv, Holds
<1>7. HeldIsClaimed'
    BY <1>1, <1>2, <1>4, <1>6 DEF CheckIInv, HeldIsClaimed
<1>8. OneCheckPerContact'
    BY <1>2, <1>6 DEF CheckIInv, OneCheckPerContact
<1>9. CachedIsCertain'
    BY <1>1, <1>2, <1>4, <1>6 DEF CheckIInv, CachedIsCertain
<1>10. WrittenOffIsCertain' /\ DoubtedIsUncertain'
    BY <1>1, <1>2, <1>4, CheckShape DEF CheckIInv, WrittenOffIsCertain, DoubtedIsUncertain
<1>11. PoisonIsPurged'
    BY <1>2, PoisonStands
<1>. QED BY <1>5, <1>6, <1>7, <1>8, <1>9, <1>10, <1>11 DEF CheckIInv

LEMMA RecheckKeeps ==
    ASSUME CheckIInv, NEW C \in SUBSET Phones, Recheck(C)
    PROVE  CheckIInv'
<1>1. CheckTypeOK /\ contact \in [Phones -> ContactRow]
    BY CheckShape DEF CheckIInv
<1>2. /\ contact' = [c \in Phones |-> IF c \in C THEN [contact[c] EXCEPT !.st = "pending"]
                                                 ELSE contact[c]]
      /\ UNCHANGED <<checker, cache, checking, misses, controls, trusted, doubted, races>>
    BY DEF Recheck
<1>3. bad' \in 0..MaxBad
    BY <1>1, FaultCounted, CheckShape DEF Recheck
<1>4. /\ contact' \in [Phones -> ContactRow]
      /\ \A d \in Phones :
            /\ contact'[d].claimed = contact[d].claimed
            /\ contact'[d].certain = contact[d].certain
            /\ contact'[d].st = "not_registered" => contact[d].st = "not_registered"
    BY <1>1, <1>2 DEF ContactRow
<1>5. CheckTypeOK'
    BY <1>1, <1>2, <1>3, <1>4, CheckShape, CheckShapeNext
<1>6. \A v \in Workers : RoundStands(v)' /\ Holds(v)' = Holds(v)
    BY <1>2, OtherStands DEF CheckIInv, Holds
<1>7. ContactPart'
  <2>1. \A v \in Workers : \A c \in Holds(v)' :
            c \in Holds(v)
            /\ (checking'[v].res[c] = "cached dead" => checking[v].res[c] = "cached dead")
      BY <1>2, <1>6
  <2>. QED BY <1>2, <1>4, <2>1, ContactsStand
<1>8. PoisonIsPurged'
    BY <1>2, PoisonStands
<1>. QED BY <1>5, <1>6, <1>7, <1>8 DEF CheckIInv, ContactPart

-----------------------------------------------------------------------------
(* Theorems.                                                                *)

LEMMA CheckStep == CheckIInv /\ [CheckNext]_checkVars => CheckIInv'
<1>. SUFFICES ASSUME CheckIInv, [CheckNext]_checkVars PROVE CheckIInv'
    OBVIOUS
<1>1. CASE UNCHANGED checkVars
  <2>1. UNCHANGED <<contact, checker, cache, checking, misses, controls, bad, trusted, doubted,
                    races>>
      BY <1>1 DEF checkVars
  <2>2. checker' \in [Checkers -> CheckerRow] /\ bad' \in 0..MaxBad
      BY <2>1, CheckShape DEF CheckIInv
  <2>. QED BY <2>1, <2>2, CheckerStep
<1>2. ASSUME NEW w \in Workers, Round(w) PROVE CheckIInv'
  <2>1. CASE StartRound(w)
      BY <2>1, StartRoundKeeps
  <2>2. CASE StartProbes(w)
      BY <2>2, StartProbesKeeps
  <2>3. CASE ClaimBatch(w)
      BY <2>3, ClaimBatchKeeps
  <2>4. CASE NothingToClaim(w)
      BY <2>4, NothingToClaimKeeps
  <2>5. ASSUME NEW k \in Checkers, Recover(w, k) \/ Probe(w, k) PROVE CheckIInv'
      BY <2>5, RecoverKeeps, ProbeKeeps
  <2>6. ASSUME NEW c \in Phones, FromCache(w, c) \/ FromTelegram(w, c) PROVE CheckIInv'
      BY <2>6, FromCacheKeeps, FromTelegramKeeps
  <2>7. CASE Flood(w) \/ Raise(w) \/ Judge(w)
      BY <2>7, FloodKeeps, RaiseKeeps, JudgeKeeps
  <2>8. CASE Apply(w) \/ Rest(w)
      BY <2>8, ApplyKeeps, RestKeeps
  <2>. QED BY <1>2, <2>1, <2>2, <2>3, <2>4, <2>5, <2>6, <2>7, <2>8 DEF Round
<1>3. ASSUME NEW w \in Workers, Crash(w) PROVE CheckIInv'
    BY <1>3, CrashKeeps
<1>4. ASSUME NEW k \in Checkers, Cool(k) \/ RestOver(k) \/ SetPaused(k) PROVE CheckIInv'
    BY <1>4, CoolKeeps
<1>5. ASSUME NEW c \in Phones, ClaimAges(c) PROVE CheckIInv'
    BY <1>5, ClaimAgesKeeps
<1>6. ASSUME NEW C \in SUBSET Phones, Recheck(C) PROVE CheckIInv'
    BY <1>6, RecheckKeeps
<1>. QED BY <1>1, <1>2, <1>3, <1>4, <1>5, <1>6 DEF CheckNext

\* The inductive invariant: what an instance holds, whom it benched, which answers it
\* read from the cache, and which rows of the cache somebody vouches for.
THEOREM CheckInvariant == CheckSpec => []CheckIInv
<1>. QED BY CheckInitIInv, CheckStep, PTL DEF CheckSpec

\* Every variable of the checker keeps its type.
THEOREM CheckTypeCorrect == CheckSpec => []CheckTypeOK
<1>1. CheckIInv => CheckTypeOK
    BY DEF CheckIInv
<1>. QED BY <1>1, CheckInvariant, PTL

\* Two instances never look at one contact at once, unless a claim ran out under way: the
\* claim window of _tick, for any number of instances.
THEOREM ClaimsAreExclusive == CheckSpec => []OneCheckPerContact
<1>1. CheckIInv => OneCheckPerContact
    BY DEF CheckIInv
<1>. QED BY <1>1, CheckInvariant, PTL

\* The negative rows of a throttled batch do not outlive its judgement, unless the other
\* instance recovered the checker.
THEOREM ThrottledRowsArePurged == CheckSpec => []PoisonIsPurged
<1>1. CheckIInv => PoisonIsPurged
    BY DEF CheckIInv
<1>. QED BY <1>1, CheckInvariant, PTL

\* No contact is written off on a throttled batch or on a cached answer of one, unless two
\* instances raced.
THEOREM NobodyIsWrittenOff == CheckSpec => []NoThrottledVerdict
<1>1. CheckIInv => NoThrottledVerdict
  <2>. SUFFICES ASSUME CheckIInv, NEW c \in doubted, contact[c].st = "not_registered"
                PROVE  races # {}
      BY DEF NoThrottledVerdict
  <2>1. c \in Phones
      BY CheckShape DEF CheckIInv
  <2>2. contact[c].certain
      BY <2>1 DEF CheckIInv, WrittenOffIsCertain
  <2>. QED BY <2>2 DEF CheckIInv, DoubtedIsUncertain
<1>. QED BY <1>1, CheckInvariant, PTL
=============================================================================
