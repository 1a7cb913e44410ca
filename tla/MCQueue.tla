------------------------------- MODULE MCQueue -------------------------------
(* Instances of OutreachQueue for TLC: event budgets and pools. *)
EXTENDS OutreachQueue, TLC

CONSTANTS s1, s2, s3, c1, c2, p1, p2

OnePool == [c \in Campaigns |-> Senders]

\* The named events happen n times each, the others never.
Only(n, es) == [e \in Events |-> IF e \in es THEN n ELSE 0]

BudgetDelivery == Only(1, {"crash", "lost", "requeue", "takeover"})
BudgetRotation == [Only(1, {"flag", "auth"}) EXCEPT !["verdict"] = 3]
BudgetShared == Only(1, {"lost", "flag", "inbound"})
BudgetClaims == Only(2, {"flag"})
BudgetLive == Only(1, {"flag", "auth", "verdict", "crash"})
SenderSymmetry == Permutations(Senders)

\* Two campaigns share account s1; the second one sends files.
SharedPool == c1 :> {s1} @@ c2 :> {s1, s2}
=============================================================================
