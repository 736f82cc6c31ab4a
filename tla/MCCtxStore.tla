----------------------------- MODULE MCCtxStore -----------------------------
(* Instances of CtxStore for TLC. *)
EXTENDS CtxStore, TLC

\* Threads are interchangeable, and so are the objects of the pool.
Symmetry == Permutations(Threads) \cup Permutations(Ctxs)
=============================================================================
