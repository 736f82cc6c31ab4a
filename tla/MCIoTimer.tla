----------------------------- MODULE MCIoTimer -----------------------------
(* Instances of IoTimer for TLC. *)
EXTENDS IoTimer

CONSTANTS r1, r2

\* Both requests time out, the second one a second later.
Timeouts == [r \in {r1, r2} |-> IF r = r1 THEN 0 ELSE 1]

\* Both requests time out at the next tick.
Immediate == [r \in {r1, r2} |-> 0]
=============================================================================
