------------------------------ MODULE Accounts ------------------------------
(***************************************************************************)
(* How accounts and their proxy ports come and go: import, login, manager  *)
(* and reclaim sweep on one pool, without a lock between them.             *)
(***************************************************************************)
EXTENDS AccountImport, Onboarding

accountVars == <<poolVars, importVars, flow>>

InitAccounts == InitPool /\ InitImport /\ InitOnboarding

ImportStep == ImportNext /\ UNCHANGED flow

AccountsNext ==
    \/ PoolNext /\ UNCHANGED <<importVars, flow>>
    \/ ImportStep
    \/ OnboardingNext /\ UNCHANGED importVars

AccountsSpec == InitAccounts /\ [][AccountsNext]_accountVars

-----------------------------------------------------------------------------
AccountsTypeOK == PoolTypeOK /\ ImportTypeOK /\ OnboardingTypeOK

\* Two accounts do not share an address of the pool, unless a step gave it out by name
\* (assign_proxy, the login wizard, a pool row made anew) or raced for it.
\* (ProxyPool, models/__init__.py:560: each row is one static IP)
OneAccountPerPort ==
    \A r, s \in On : r # s /\ sender[r].proxy = sender[s].proxy =>
        sender[r].proxy \in overlap \cup {None, Own}

\* The counter of a job counts its terminal items and the job is done exactly when all
\* are, an empty one never; an item nobody works on is left over from a fault.
ProgressIsExact ==
    \A j \in Jobs :
        LET ended == {f \in Files : item[j][f] \in Terminal}
        IN  /\ job[j].processed = Cardinality(ended)
            /\ job[j].st = "done" <=> job[j].total > 0 /\ job[j].processed = job[j].total
            /\ \A f \in Files : item[j][f] = "processing" =>
                  faults > 0 \/ \E w \in Importers : imp[w].j = j /\ imp[w].f = f

\* However often an archive is confirmed, and whoever logs in meanwhile, an import changes
\* no account that exists, and adds none whose telegram id a row of any slug has, unless a
\* re-auth filled the id in after the import had looked.
\* (import_one_account, account_import.py:596, 663)
ImportAddsStrangers ==
    [][ImportStep => \A r \in SenderRows :
           /\ r \in On => sender'[r] = sender[r]
           /\ r \notin On /\ sender'[r].on => r \in learned \/ \A s \in On : sender[s].tg # r]_accountVars

\* Telegram does not accept a login that was cancelled while it was asked, unless the
\* client was still being rebuilt after a restart.
CancelIsFinal == \A s \in Flows : flow[s].cut => flow[s].call # "signed"
=============================================================================
