----------------------------- MODULE MCShmQueue -----------------------------
(* Instances of ShmQueue for TLC, and its refinement of BoundedFifo. *)
EXTENDS ShmQueue, SequencesExt

\* Producers are interchangeable.
Symmetry == Permutations(Prods)

\* The published indices that the consumer has not claimed yet, and those it has.
Pending == SetToSortSeq({i \in ok : i >= ch}, <)
Claimed == {i \in ok : i < ch}

\* The item at a claimed index: what Dequeue returned, or is about to return.
ItemAt(i) == IF \E x \in out : x[1] = i THEN (CHOOSE x \in out : x[1] = i)[2] ELSE data[Slot(i)]

Fifo == INSTANCE BoundedFifo WITH
            Items <- 0 .. MaxHead,
            q <- [k \in DOMAIN Pending |-> data[Slot(Pending[k])]],
            last <- IF Claimed = {} THEN {} ELSE {ItemAt(CHOOSE i \in Claimed : \A j \in Claimed : j <= i)}

\* The ring implements a bounded queue: Enqueue takes effect when prod.tail is moved past its
\* index, Dequeue when cons.head is, and a killed producer is as if it had never come.
IsFifo == Fifo!Spec
=============================================================================
