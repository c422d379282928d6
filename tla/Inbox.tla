--------------------------------- MODULE Inbox ---------------------------------
(***************************************************************************)
(* What a sender may expect of the API: a message it has accepted is       *)
(* carried out, and carried out once, unless a fault of a known kind has   *)
(* excused it; and nobody is told of success before.                       *)
(***************************************************************************)
EXTENDS Naturals

CONSTANTS Messages,
          Repeatable  \* those that a fault may have carried out once more

VARIABLES
  effects,  \* how often each message has been carried out
  open,     \* accepted, still to be carried out
  excused,  \* met a fault after which it may be repeated or lost
  settled   \* carried out, or dismissed on purpose

vars == <<effects, open, excused, settled>>

Init ==
  /\ effects = [m \in Messages |-> 0]
  /\ open = {} /\ excused = {} /\ settled = {}

Accept(m) ==
  /\ m \notin open
  /\ open' = open \cup {m}
  /\ UNCHANGED <<effects, excused, settled>>

CarryOut(m) ==
  /\ effects[m] = 0 \/ m \in excused \cap Repeatable
  /\ effects' = [effects EXCEPT ![m] = @ + 1]
  /\ settled' = settled \cup {m}
  /\ excused' \in {excused, excused \cup {m}}
  /\ UNCHANGED open

\* The book on an accepted message is closed.
Close(m) ==
  /\ m \in open /\ m \in settled
  /\ open' = open \ {m}
  /\ UNCHANGED <<effects, excused, settled>>

Dismiss(m) ==
  /\ open' \in {open, open \ {m}}
  /\ settled' = settled \cup {m}
  /\ UNCHANGED <<effects, excused>>

\* A fault may undo a dismissal, but nothing that was carried out.
Fault(m) ==
  /\ excused' = excused \cup {m}
  /\ open' \in {open, open \ {m}}
  /\ settled' \in {settled} \cup (IF effects[m] = 0 THEN {settled \ {m}} ELSE {})
  /\ UNCHANGED effects

Next == \E m \in Messages : Accept(m) \/ CarryOut(m) \/ Close(m) \/ Dismiss(m) \/ Fault(m)

Spec == Init /\ [][Next]_vars

\* What all this is for: a message is carried out at most once, unless it may be
\* repeated and has met a fault.
AtMostOnce ==
  \A m \in Messages : effects[m] \in {0, 1} \/ m \in excused \cap Repeatable
=============================================================================
