--------------------------- MODULE MCTokenRefresh ---------------------------
(* TokenRefresh for TLC.  Each process makes some of the kinds of call.    *)
EXTENDS TokenRefresh, TLC

CONSTANTS p1, p2

MCProcs == {p1, p2}

\* Two refreshes of any kind, or one and a new grant.
MCCalls == p1 :> {"client", "forced"} @@ p2 :> {"hourly", "callback"}

\* Rows that are deleted and inserted again under a refresh, a client or a grant.
MCLiveCalls == p1 :> {"client", "callback"} @@ p2 :> {"hourly", "disconnect"}
=============================================================================
