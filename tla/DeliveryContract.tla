-------------------------- MODULE DeliveryContract --------------------------
(***************************************************************************)
(* What the queue promises for each row, whatever senders, campaigns and   *)
(* workers do: a row is open until it is closed or sent; a sent row never  *)
(* changes; only an open row is delivered, and only if each copy delivered *)
(* before is accounted for by a fault (a crash or a lost acknowledgement). *)
(***************************************************************************)
EXTENDS Integers

CONSTANT Rows

VARIABLES state,   \* what has become of each row
          copies,  \* how often its message was delivered
          faults   \* crashes and lost acknowledgements so far

cvars == <<state, copies, faults>>

Init ==
    /\ state = [r \in Rows |-> "none"]
    /\ copies = [r \in Rows |-> 0]
    /\ faults = 0

\* Rows S leave one state for another together.
Turn(S, from, to) ==
    /\ \A r \in S : state[r] = from
    /\ state' = [r \in Rows |-> IF r \in S THEN to ELSE state[r]]

Accept(S) == Turn(S, "none", "open") /\ UNCHANGED <<copies, faults>>
Close(S)  == Turn(S, "open", "closed") /\ UNCHANGED <<copies, faults>>
Reopen(S) == Turn(S, "closed", "open") /\ UNCHANGED <<copies, faults>>

Confirm(r) ==
    /\ copies[r] > 0
    /\ Turn({r}, "open", "sent")
    /\ UNCHANGED <<copies, faults>>

Deliver(r) ==
    /\ state[r] = "open" /\ copies[r] <= faults
    /\ copies' = [copies EXCEPT ![r] = @ + 1]
    /\ UNCHANGED <<state, faults>>

\* The message arrives, the acknowledgement does not; the row may be given up.
DeliverUnseen(r) ==
    /\ state[r] = "open" /\ copies[r] <= faults
    /\ copies' = [copies EXCEPT ![r] = @ + 1]
    /\ faults' = faults + 1
    /\ state' = state \/ Turn({r}, "open", "closed")

Fault == faults' = faults + 1 /\ UNCHANGED <<state, copies>>

Next ==
    \/ \E S \in SUBSET Rows : Accept(S) \/ Close(S) \/ Reopen(S)
    \/ \E r \in Rows : Confirm(r) \/ Deliver(r) \/ DeliverUnseen(r)
    \/ Fault

Spec == Init /\ [][Next]_cvars
=============================================================================
