------------------------------ MODULE MCDelivery ------------------------------
(* Delivery for TLC: two requests of the browser, one event and one mail,  *)
(* of which two are posted, and two POSTs at a time.                       *)
EXTENDS Delivery, TLC

CONSTANTS a, b, event1, mail, c1, c2

MCClicks == {a, b}
MCHooks  == {event1}
MCMails  == {mail}
MCCalls  == {c1, c2}
Routed   == {event1, mail}
Nobody   == {}
Symmetry == Permutations(MCCalls) \cup Permutations(MCClicks)
=============================================================================
