----------------------------- MODULE MCOrderSync -----------------------------
(* OrderSync for TLC: two sessions, and what each of them may run.         *)
EXTENDS OrderSync, TLC

CONSTANTS p1, p2, c1, c2

MCProcs == {p1, p2}
OneCode == {c1}
TwoCodes == {c1, c2}

\* Beat's sync or a fulfilment against every task and another.
MCCalls == p1 :> {"sync", "fulfil"}
        @@ p2 :> {"byid", "reconcile", "fulfil"}

\* Beat's sync against a user.
MCLiveCalls == p1 :> {"sync"} @@ p2 :> {"manual"}

\* For the violations: what each of them takes, and nothing else.
MCFulfilCalls    == p1 :> {"sync"} @@ p2 :> {"fulfil"}
MCReconcileCalls == p1 :> {"sync"} @@ p2 :> {"reconcile", "manual"}

MCStates == {"paid", "canceled"}
MCLiveStates == {"paid"}
=============================================================================
