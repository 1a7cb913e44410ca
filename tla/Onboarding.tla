----------------------------- MODULE Onboarding -----------------------------
(***************************************************************************)
(* The login wizard: a row with a TTL, a Telegram client that lives in the *)
(* process, and a sign-in that ends in a new account or in a new session   *)
(* for an old one (routers/onboarding.py, services/onboarding_state.py).   *)
(* Left out: role and name of the account, what its profile caches.        *)
(***************************************************************************)
EXTENDS AccountPool

CONSTANT Flows      \* onboarding_sessions

VARIABLE flow

Gone == [pc |-> "none", key |-> None, row |-> None, proxy |-> None, hot |-> FALSE,
         task |-> FALSE, call |-> "idle", cut |-> FALSE]

InitOnboarding == flow = [s \in Flows |-> Gone]

\* An onboarding row that load_state finds.
Open(s) == flow[s].pc \in {"code_sent", "awaiting_2fa", "failed"}

-----------------------------------------------------------------------------
(* Starting: start_onboarding and qr_start for an account, reauth_start and *)
(* reauth_qr for a row.  A failed connect leaves nothing behind.            *)

Begin(s, via, k, r, p) ==
    /\ Asks /\ flow[s] = Gone
    /\ flow' = [flow EXCEPT ![s] = [Gone EXCEPT !.pc = "code_sent", !.key = k, !.row = r,
                                    !.proxy = p, !.hot = TRUE, !.task = (via = "qr"),
                                    !.call = IF via = "qr" THEN "asking" ELSE "idle"]]
    /\ UNCHANGED <<sender, port, post, faults, overlap, learned>>

\* _resolve_proxy takes any row of the pool and marks none.
Start(s, via, k) == \E p \in {None} \cup {q \in Ports : port[q].on} : Begin(s, via, k, None, p)

\* The code goes to the phone of the row; a QR is scanned by whoever holds it.  The proxy
\* is the one the row has now.
Reauth(s, via, k, r) ==
    /\ sender[r].on /\ (via = "phone" => k = sender[r].key)
    /\ Begin(s, via, k, r, sender[r].proxy)

-----------------------------------------------------------------------------
(* Signing in: verify_code, verify_2fa, and the task _wait_for_qr.          *)

\* The client is in the process, or is rebuilt from the row.
Verify(s) ==
    /\ flow[s].pc \in {"code_sent", "awaiting_2fa"} /\ flow[s].call = "idle"
    /\ flow' = [flow EXCEPT ![s].call = IF flow[s].hot THEN "asking" ELSE "recovering"]
    /\ UNCHANGED poolVars

\* _get_or_recover_client, whatever became of the row.
Recovered(s) ==
    /\ flow[s].call = "recovering"
    /\ flow' = [flow EXCEPT ![s] = [@ EXCEPT !.call = "asking", !.hot = TRUE]]
    /\ UNCHANGED poolVars

\* A call returns with status pc; the QR task drops its client; a row that is gone is
\* written in vain.
Returns(s, pc) ==
    flow' = [flow EXCEPT ![s] = IF ~Open(s) THEN Gone
                                ELSE [@ EXCEPT !.pc = pc, !.call = "idle", !.task = FALSE,
                                               !.hot = flow[s].hot /\ ~flow[s].task]]

AskedFor2FA(s) ==
    /\ flow[s].call = "asking" /\ flow[s].hot /\ flow[s].pc # "awaiting_2fa"
    /\ Returns(s, "awaiting_2fa")
    /\ UNCHANGED poolVars

\* A wrong code or password, to be tried again.
WrongCode(s) ==
    /\ flow[s].call = "asking" /\ flow[s].hot /\ ~flow[s].task
    /\ Returns(s, flow[s].pc)
    /\ UNCHANGED poolVars

\* Anything else, the end of the QR's two minutes included.
SignInFails(s) ==
    /\ flow[s].call \in {"asking", "recovering"}
    /\ Returns(s, IF flow[s].call = "asking" THEN "failed" ELSE flow[s].pc)
    /\ UNCHANGED poolVars

SignedIn(s) ==
    /\ flow[s].call = "asking" /\ flow[s].hot
    /\ flow' = [flow EXCEPT ![s].call = "signed"]
    /\ UNCHANGED poolVars

-----------------------------------------------------------------------------
(* _finalize_onboarding_or_reauth.                                          *)

\* _refresh_sender_session: the telegram id is filled in where there was none, and not
\* compared where there was one.
Refreshed(r, k, known) ==
    [sender[r] EXCEPT !.key = k, !.auth = "ok", !.tg = IF known /\ @ = None THEN k ELSE @]

\* _create_sender_from_session: the row of the account by its slug, or a new one; a slug
\* of its own when get_me failed.
TargetRow(k, known) == IF known THEN {k} ELSE {x \in Extra : ~sender[x].on}

LoggedIn(t, k, known) ==
    [sender[t] EXCEPT !.on = TRUE, !.key = k, !.auth = "ok", !.tg = IF known THEN k ELSE @]

\* The proxy of the flow replaces the row's, unless the flow had none; the pool is not told.
WithProxy(row, p) == IF p = None THEN row ELSE [row EXCEPT !.proxy = p]
Unmarked(p, r) == IF p \in Ports /\ port[p].at # r THEN overlap \cup {p} ELSE overlap

\* A client cut off meanwhile cannot say whose it is; another may fail to.
Knows(s) == IF flow[s].hot THEN BOOLEAN ELSE {FALSE}

\* _wait_for_qr looks for its row before it creates anything; the endpoints do not.
Wanted(s) == flow[s].task => Open(s)

Ended(s) == flow[s].call = "signed" /\ flow' = [flow EXCEPT ![s] = Gone]

FinishReauth(s) ==
    LET r == flow[s].row
    IN  /\ Ended(s) /\ Wanted(s) /\ r # None /\ sender[r].on
        /\ \E known \in Knows(s) :
              /\ sender' = [sender EXCEPT ![r] = WithProxy(Refreshed(r, flow[s].key, known), flow[s].proxy)]
              /\ learned' = IF known /\ sender[r].tg = None THEN learned \cup {flow[s].key} ELSE learned
        /\ overlap' = Unmarked(flow[s].proxy, r)
        /\ UNCHANGED <<port, post, ops, faults>>

\* An account deleted meanwhile is created again.
FinishLogin(s) ==
    LET r == flow[s].row
        k == flow[s].key
    IN  /\ Ended(s) /\ Wanted(s) /\ (r # None => ~sender[r].on)
        /\ \E known \in Knows(s) : \E t \in TargetRow(k, known) :
              /\ sender' = [sender EXCEPT ![t] = WithProxy(LoggedIn(t, k, known), flow[s].proxy)]
              /\ overlap' = Unmarked(flow[s].proxy, t)
        /\ UNCHANGED <<port, post, ops, faults, learned>>

FinishUnwanted(s) == Ended(s) /\ ~Wanted(s) /\ UNCHANGED poolVars

-----------------------------------------------------------------------------
(* Ending without an account.                                               *)

\* Slip: the row goes, the client stays.
KeepsClient(s) == flow[s].hot

\* The client that cancel_onboarding finds in the process is cut off.
LeftConnected(s) == FALSE

Cancel(s) ==
    /\ Asks /\ Open(s)
    /\ flow' = [flow EXCEPT ![s] = IF @.call = "idle" THEN Gone
                   ELSE [@ EXCEPT !.pc = "none", !.hot = LeftConnected(s),
                                  !.cut = flow[s].cut \/ flow[s].call = "asking"]]
    /\ UNCHANGED <<sender, port, post, faults, overlap, learned>>

\* OnboardingCleanupWorker, after ten minutes.
FlowExpires(s) ==
    /\ Open(s)
    /\ flow' = [flow EXCEPT ![s] = IF @.call = "idle" THEN Gone ELSE [@ EXCEPT !.pc = "none"]]
    /\ UNCHANGED poolVars

\* The process ends: the clients, the calls and the waiting for a QR end with it.
RestartApi ==
    /\ Fault /\ \E s \in Flows : flow[s].hot \/ flow[s].call # "idle"
    /\ flow' = [s \in Flows |-> IF Open(s) THEN [flow[s] EXCEPT !.hot = FALSE, !.task = FALSE,
                                                                !.call = "idle"]
                                ELSE Gone]
    /\ UNCHANGED <<sender, port, post, ops, overlap, learned>>

OnboardingNext ==
    \/ RestartApi
    \/ \E s \in Flows :
          \/ \E via \in {"phone", "qr"}, k \in Accounts :
                Start(s, via, k) \/ \E r \in SenderRows : Reauth(s, via, k, r)
          \/ Verify(s) \/ Recovered(s) \/ AskedFor2FA(s) \/ WrongCode(s) \/ SignInFails(s)
          \/ SignedIn(s) \/ FinishReauth(s) \/ FinishLogin(s) \/ FinishUnwanted(s)
          \/ Cancel(s) \/ FlowExpires(s)

OnboardingTypeOK ==
    flow \in [Flows -> [pc : {"none", "code_sent", "awaiting_2fa", "failed"},
                        key : Accounts \cup {None}, row : SenderRows \cup {None},
                        proxy : Ports \cup {Own, None}, hot : BOOLEAN, task : BOOLEAN,
                        call : {"idle", "recovering", "asking", "signed"}, cut : BOOLEAN]]
=============================================================================
