---------------------------- MODULE MCEtsyGateway ----------------------------
(* EtsyGateway for TLC: two calls in one worker, a third in another.       *)
EXTENDS EtsyGateway, TLC

CONSTANTS p1, p2, p3, w1, w2

MCProcs == {p1, p2, p3}
MCWorkers == {w1, w2}
MCWorkerOf == p1 :> w1 @@ p2 :> w1 @@ p3 :> w2
=============================================================================
