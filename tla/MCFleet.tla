------------------------------- MODULE MCFleet -------------------------------
(***************************************************************************)
(* One instance of every component that works on accounts beside the       *)
(* outreach pipeline.  The components share no table row here, so that a   *)
(* behaviour of the system is an interleaving of theirs in which each part *)
(* sees only its own steps: it is enough to let one part move at a time.   *)
(* focus names it, the others stay in one initial state.  A lone instance  *)
(* of the contact checker meets more faults than two.                      *)
(***************************************************************************)
EXTENDS ContactCheck, Accounts, KbIngest, Warmup, AccountSession, TLC

CONSTANTS k1, n1, n2, w1, w2, acc1, acc2, extra1, port1, f, g, i1, o1, d1, d2, m1, m2,
          x1, x2, l1, l2

OneHolder == [h \in Files |-> acc1]
ImportSymmetry == Permutations({f, g})

VARIABLE focus

fleetVars == <<focus, checkVars, accountVars, kbVars, warmVars, sessionVars>>

FleetInit ==
    /\ InitCheck /\ InitAccounts /\ InitKb /\ InitWarmup /\ InitSession
    /\ focus \in {"check", "lone check", "accounts", "kb", "warmup", "session"}
    /\ focus \notin {"check", "lone check"} => controls
    /\ bad = IF focus = "check" THEN MaxBad - 1 ELSE 0
    /\ focus # "accounts" => On = {}
    /\ \A r \in On \cap Extra : sender[r].key = acc1
    /\ focus # "session" => proxy = x1

FleetNext ==
    /\ \/ /\ focus \in {"check", "lone check"} /\ CheckNext
          /\ focus = "lone check" => checking'[w2] = checking[w2]
          /\ UNCHANGED <<accountVars, kbVars, warmVars, sessionVars>>
       \/ focus = "accounts" /\ AccountsNext
                             /\ UNCHANGED <<checkVars, kbVars, warmVars, sessionVars>>
       \/ focus = "kb"       /\ KbNext
                             /\ UNCHANGED <<checkVars, accountVars, warmVars, sessionVars>>
       \/ focus = "warmup"   /\ WarmupNext
                             /\ UNCHANGED <<checkVars, accountVars, kbVars, sessionVars>>
       \/ focus = "session"  /\ SessionNext
                             /\ UNCHANGED <<checkVars, accountVars, kbVars, warmVars>>
    /\ UNCHANGED focus

FleetSpec == FleetInit /\ [][FleetNext]_fleetVars

\* The moving part keeps its types.
FleetTypeOK ==
    CASE focus \in {"check", "lone check"} -> CheckTypeOK
      [] focus = "accounts" -> AccountsTypeOK
      [] focus = "kb"       -> KbTypeOK
      [] focus = "warmup"   -> WarmupTypeOK
      [] focus = "session"  -> SessionTypeOK
=============================================================================
