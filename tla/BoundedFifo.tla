----------------------------- MODULE BoundedFifo -----------------------------
(***************************************************************************)
(* What a queue between producers and one consumer promises: items come    *)
(* out in the order in which they went in, each once, and at most Cap of   *)
(* them are inside.                                                        *)
(***************************************************************************)
EXTENDS Naturals, Sequences

CONSTANTS
    Cap,   \* capacity
    Items  \* what may be put

VARIABLES
    q,     \* the items inside
    last   \* the item that came out last

Init == q = <<>> /\ last = {}

Put(x) ==
    /\ Len(q) < Cap
    /\ q' = Append(q, x)
    /\ UNCHANGED last

Get ==
    /\ q # <<>>
    /\ last' = {Head(q)}
    /\ q' = Tail(q)

Next == Get \/ \E x \in Items : Put(x)

Spec == Init /\ [][Next]_<<q, last>>
=============================================================================
