--------------------------- MODULE IoTimerProofs ----------------------------
(***************************************************************************)
(* Proofs about IoTimer, for any number of requests, timeouts and queues:  *)
(* when senders are through PrepareTimerContext before the sweep, expiry   *)
(* and clean-up (Prompt), no timer is given back while anyone points to    *)
(* it or twice, no callback is used twice, and the sweep of a broken       *)
(* channel leaves no request behind.  Each follows from IInv of IoTimer.   *)
(* IInv is needed because the properties say nothing of the count: that it *)
(* equals the number of places that own a reference is what makes the      *)
(* DecreaseRef that reaches zero the last one.                             *)
(*                                                                         *)
(* There is one lemma per action; under it TypeOK, PlaceInv, SweepInv, and *)
(* for each request its part of the invariant: where its timer is, who     *)
(* owns its references (Io, Lk, Qu), who may use its callback.             *)
(***************************************************************************)
EXTENDS IoTimer, TLAPS

\* Senders are prompt, and the pool fails only blocking calls (an asynchronous call that
\* is retried uses its callback again).
Assumed == Prompt /\ (PoolMayFail => Sync = Reqs)

\* The numbers of owners are natural numbers, before and after a step.
LEMMA OwnersNat ==
    ASSUME NEW r
    PROVE  /\ Io(r) \in Nat /\ Lk(r) \in Nat /\ Qu(r) \in Nat
           /\ Io(r)' \in Nat /\ Lk(r)' \in Nat /\ Qu(r)' \in Nat
  BY DEF Io, Lk, Qu, B

-----------------------------------------------------------------------------
(* The callers *)

\* NextWorkerPollEp touches neither references nor places.
LEMMA SelectStep == ASSUME Assumed, IInv, NEW q \in Reqs, Select(q) PROVE IInv'
<1> USE DEF Assumed, UserPcs, Preparing, user, per, brk, Select, Goto, DeleteCallBack
<1> TypeOK /\ PlaceInv /\ SweepInv BY Zenon DEF IInv
<1> PrepInv(q) BY Zenon DEF IInv
<1>1. TypeOK' /\ PlaceInv' BY DEF TypeOK, PlaceInv, PrepInv
<1>2. SweepInv' BY DEF TypeOK, PlaceInv, SweepInv
<1>3. ASSUME NEW r \in Reqs PROVE PrepInv(r)' /\ RefInv(r)' /\ CallbackInv(r)'
  <2> PrepInv(r) /\ RefInv(r) /\ CallbackInv(r) BY <1>3, Zenon DEF IInv
  <2>1. PrepInv(r)' BY DEF TypeOK, PlaceInv, PrepInv, SweepInv
  <2>2. CallbackInv(r)' BY DEF TypeOK, PlaceInv, PrepInv, RefInv, Io, B, CallbackInv
  <2>3. Io(r)' = Io(r) /\ Lk(r)' = Lk(r) /\ Qu(r)' = Qu(r)
    BY DEF TypeOK, PlaceInv, PrepInv, Io, Lk, Qu, B
  <2>4. QED BY <2>1, <2>2, <2>3, OwnersNat DEF TypeOK, PrepInv, RefInv
<1>4. QED BY <1>1, <1>2, <1>3, Zenon DEF IInv

\* The new timer enters the store, owned by nobody until IncreaseRef.
LEMMA AllocStep == ASSUME Assumed, IInv, NEW q \in Reqs, Alloc(q) PROVE IInv'
<1> USE TimeoutAssumption DEF Assumed, UserPcs, Preparing, user, per, brk, Alloc, Goto
<1> TypeOK /\ PlaceInv /\ SweepInv BY Zenon DEF IInv
<1> PrepInv(q) BY Zenon DEF IInv
<1>1. TypeOK' /\ PlaceInv' BY DEF TypeOK, PlaceInv, PrepInv
<1>2. SweepInv' BY DEF TypeOK, PlaceInv, SweepInv
<1>3. ASSUME NEW r \in Reqs PROVE PrepInv(r)' /\ RefInv(r)' /\ CallbackInv(r)'
  <2> PrepInv(r) /\ RefInv(r) /\ CallbackInv(r) BY <1>3, Zenon DEF IInv
  <2>1. PrepInv(r)' BY DEF TypeOK, PlaceInv, PrepInv
  <2>2. CallbackInv(r)' BY Zenon DEF TypeOK, PlaceInv, PrepInv, RefInv, Io, B, CallbackInv
  <2>3. Io(r)' = Io(r) /\ Lk(r)' = Lk(r) /\ Qu(r)' = Qu(r)
    BY DEF TypeOK, PlaceInv, PrepInv, Io, Lk, Qu, B
  <2>4. QED BY <2>1, <2>2, <2>3, OwnersNat, Zenon DEF TypeOK, PrepInv, RefInv
<1>4. QED BY <1>1, <1>2, <1>3, Zenon DEF IInv

\* A failed allocation leaves the request as it was; its callback is deleted.
LEMMA AllocFailStep == ASSUME Assumed, IInv, NEW q \in Reqs, AllocFail(q) PROVE IInv'
<1> USE DEF Assumed, UserPcs, Preparing, user, per, brk, AllocFail, Goto, DeleteCallBack
<1> TypeOK /\ PlaceInv /\ SweepInv BY Zenon DEF IInv
<1> PrepInv(q) BY Zenon DEF IInv
<1>1. TypeOK' /\ PlaceInv' BY DEF TypeOK, PlaceInv, PrepInv
<1>2. SweepInv' BY Zenon DEF TypeOK, PlaceInv, SweepInv
<1>3. ASSUME NEW r \in Reqs PROVE PrepInv(r)' /\ RefInv(r)' /\ CallbackInv(r)'
  <2> PrepInv(r) /\ RefInv(r) /\ CallbackInv(r) BY <1>3, Zenon DEF IInv
  <2>1. PrepInv(r)' BY DEF TypeOK, PlaceInv, PrepInv
  <2>2. CallbackInv(r)' BY Zenon DEF TypeOK, PlaceInv, PrepInv, RefInv, Io, B, CallbackInv
  <2>3. Io(r)' = Io(r) /\ Lk(r)' = Lk(r) /\ Qu(r)' = Qu(r)
    BY DEF TypeOK, PlaceInv, PrepInv, Io, Lk, Qu, B
  <2>4. QED BY <2>1, <2>2, <2>3, OwnersNat, Zenon DEF TypeOK, PrepInv, RefInv
<1>4. QED BY <1>1, <1>2, <1>3, Zenon DEF IInv

\* A retried blocking call has a fresh callback.
LEMMA RetryStep == ASSUME Assumed, IInv, NEW q \in Reqs, Retry(q) PROVE IInv'
<1> USE DEF Assumed, UserPcs, Preparing, user, per, brk, Retry, Goto
<1> TypeOK /\ PlaceInv /\ SweepInv BY Zenon DEF IInv
<1> PrepInv(q) BY Zenon DEF IInv
<1>1. TypeOK' /\ PlaceInv' BY DEF TypeOK, PlaceInv, PrepInv
<1>2. SweepInv' BY DEF TypeOK, PlaceInv, SweepInv
<1>3. ASSUME NEW r \in Reqs PROVE PrepInv(r)' /\ RefInv(r)' /\ CallbackInv(r)'
  <2> PrepInv(r) /\ RefInv(r) /\ CallbackInv(r) BY <1>3, Zenon DEF IInv
  <2>1. PrepInv(r)' BY DEF TypeOK, PlaceInv, PrepInv
  <2>2. CallbackInv(r)' BY DEF TypeOK, PlaceInv, PrepInv, RefInv, Io, B, CallbackInv
  <2>3. Io(r)' = Io(r) /\ Lk(r)' = Lk(r) /\ Qu(r)' = Qu(r)
    BY DEF TypeOK, PlaceInv, PrepInv, Io, Lk, Qu, B
  <2>4. QED BY <2>1, <2>2, <2>3, OwnersNat DEF TypeOK, PrepInv, RefInv
<1>4. QED BY <1>1, <1>2, <1>3, Zenon DEF IInv

\* The io reference is taken for a timer no other thread has.
LEMMA IoRefStep == ASSUME Assumed, IInv, NEW q \in Reqs, IoRef(q) PROVE IInv'
<1> USE DEF Assumed, UserPcs, Preparing, user, per, brk, IoRef, Goto, IncreaseRef
<1> TypeOK /\ PlaceInv /\ SweepInv BY Zenon DEF IInv
<1> PrepInv(q) BY Zenon DEF IInv
<1>1. TypeOK' /\ PlaceInv' BY DEF TypeOK, PlaceInv, PrepInv
<1>2. SweepInv' BY Zenon DEF TypeOK, PlaceInv, SweepInv
<1>3. ASSUME NEW r \in Reqs PROVE PrepInv(r)' /\ RefInv(r)' /\ CallbackInv(r)'
  <2> PrepInv(r) /\ RefInv(r) /\ CallbackInv(r) BY <1>3, Zenon DEF IInv
  <2>1. PrepInv(r)' BY DEF TypeOK, PlaceInv, PrepInv
  <2>2. CallbackInv(r)' BY Zenon DEF TypeOK, PlaceInv, PrepInv, RefInv, Io, B, CallbackInv
  <2>3. /\ Io(r)' = (IF r = q THEN 1 ELSE Io(r)) /\ (r = q => Io(r) = 0)
        /\ Lk(r)' = Lk(r)
        /\ Qu(r)' = Qu(r)
    BY DEF TypeOK, PlaceInv, PrepInv, Io, Lk, Qu, B
  <2>4. CASE r = q
    BY <2>1, <2>2, <2>3, <2>4, OwnersNat DEF TypeOK, PrepInv, RefInv
  <2>5. CASE r # q
    BY <2>1, <2>2, <2>3, <2>5, OwnersNat DEF TypeOK, PrepInv, RefInv
  <2>6. QED BY <2>4, <2>5, Zenon
<1>4. QED BY <1>1, <1>2, <1>3, Zenon DEF IInv

\* AddTimer's checks change only the choice of the queue.
LEMMA ValidateStep == ASSUME Assumed, IInv, NEW q \in Reqs, Validate(q) PROVE IInv'
<1> USE NBAssumption DEF Assumed, UserPcs, Preparing, user, per, brk, Validate, Goto
<1> TypeOK /\ PlaceInv /\ SweepInv BY Zenon DEF IInv
<1> PrepInv(q) BY Zenon DEF IInv
<1>1. TypeOK' /\ PlaceInv' BY DEF TypeOK, PlaceInv, PrepInv
<1>2. SweepInv' BY Zenon DEF TypeOK, PlaceInv, SweepInv
<1>3. ASSUME NEW r \in Reqs PROVE PrepInv(r)' /\ RefInv(r)' /\ CallbackInv(r)'
  <2> PrepInv(r) /\ RefInv(r) /\ CallbackInv(r) BY <1>3, Zenon DEF IInv
  <2>1. PrepInv(r)' BY DEF TypeOK, PlaceInv, PrepInv
  <2>2. CallbackInv(r)' BY Zenon DEF TypeOK, PlaceInv, PrepInv, RefInv, Io, B, CallbackInv
  <2>3. Io(r)' = Io(r) /\ Lk(r)' = Lk(r) /\ Qu(r)' = Qu(r)
    BY DEF TypeOK, PlaceInv, PrepInv, Io, Lk, Qu, B
  <2>4. QED BY <2>1, <2>2, <2>3, OwnersNat DEF TypeOK, PrepInv, RefInv
<1>4. QED BY <1>1, <1>2, <1>3, Zenon DEF IInv

\* A refused AddTimer erases and returns a timer that has no other owner.
LEMMA ValidateFailStep == ASSUME Assumed, IInv, NEW q \in Reqs, ValidateFail(q) PROVE IInv'
<1> USE DEF Assumed, UserPcs, Preparing, user, per, brk, ValidateFail, Goto, DeleteCallBack
<1> TypeOK /\ PlaceInv /\ SweepInv BY Zenon DEF IInv
<1> PrepInv(q) BY Zenon DEF IInv
<1>1. TypeOK' /\ PlaceInv' BY DEF TypeOK, PlaceInv, PrepInv
<1>2. SweepInv' BY Zenon DEF TypeOK, PlaceInv, SweepInv
<1>3. ASSUME NEW r \in Reqs PROVE PrepInv(r)' /\ RefInv(r)' /\ CallbackInv(r)'
  <2> PrepInv(r) /\ RefInv(r) /\ CallbackInv(r) BY <1>3, Zenon DEF IInv
  <2>1. PrepInv(r)' BY DEF TypeOK, PlaceInv, PrepInv
  <2>2. CallbackInv(r)' BY Zenon DEF TypeOK, PlaceInv, PrepInv, RefInv, Io, B, CallbackInv
  <2>3. /\ Io(r)' = (IF r = q THEN 0 ELSE Io(r))
        /\ Lk(r)' = (IF r = q THEN 0 ELSE Lk(r))
        /\ Qu(r)' = (IF r = q THEN 0 ELSE Qu(r))
    BY DEF TypeOK, PlaceInv, PrepInv, Io, Lk, Qu, B
  <2>4. CASE r = q
    BY <2>1, <2>2, <2>3, <2>4, OwnersNat DEF TypeOK, PrepInv, RefInv
  <2>5. CASE r # q
    BY <2>1, <2>2, <2>3, <2>5, OwnersNat, Zenon DEF TypeOK, PrepInv, RefInv
  <2>6. QED BY <2>4, <2>5, Zenon
<1>4. QED BY <1>1, <1>2, <1>3, Zenon DEF IInv

\* AddTimerCtx: the list gets the timer, its reference follows.
LEMMA LinkStep == ASSUME Assumed, IInv, NEW q \in Reqs, Link(q) PROVE IInv'
<1> USE DEF Assumed, UserPcs, Preparing, user, per, brk, Link, Goto
<1> TypeOK /\ PlaceInv /\ SweepInv BY Zenon DEF IInv
<1> PrepInv(q) BY Zenon DEF IInv
<1>1. TypeOK' /\ PlaceInv' BY DEF TypeOK, PlaceInv, PrepInv
<1>2. SweepInv' BY Zenon DEF TypeOK, PlaceInv, SweepInv
<1>3. ASSUME NEW r \in Reqs PROVE PrepInv(r)' /\ RefInv(r)' /\ CallbackInv(r)'
  <2> PrepInv(r) /\ RefInv(r) /\ CallbackInv(r) BY <1>3, Zenon DEF IInv
  <2>1. PrepInv(r)' BY DEF TypeOK, PlaceInv, PrepInv
  <2>2. CallbackInv(r)' BY Zenon DEF TypeOK, PlaceInv, PrepInv, RefInv, Io, B, CallbackInv
  <2>3. Io(r)' = Io(r) /\ Lk(r)' = Lk(r) /\ Qu(r)' = Qu(r)
    BY DEF TypeOK, PlaceInv, PrepInv, Io, Lk, Qu, B
  <2>4. QED BY <2>1, <2>2, <2>3, OwnersNat, Zenon DEF TypeOK, PrepInv, RefInv
<1>4. QED BY <1>1, <1>2, <1>3, Zenon DEF IInv

\* AddTimerCtx: the list's reference is taken.
LEMMA LinkRefStep == ASSUME Assumed, IInv, NEW q \in Reqs, LinkRef(q) PROVE IInv'
<1> USE DEF Assumed, UserPcs, Preparing, user, per, brk, LinkRef, Goto, IncreaseRef
<1> TypeOK /\ PlaceInv /\ SweepInv BY Zenon DEF IInv
<1> PrepInv(q) BY Zenon DEF IInv
<1>1. TypeOK' /\ PlaceInv' BY DEF TypeOK, PlaceInv, PrepInv
<1>2. SweepInv' BY Zenon DEF TypeOK, PlaceInv, SweepInv
<1>3. ASSUME NEW r \in Reqs PROVE PrepInv(r)' /\ RefInv(r)' /\ CallbackInv(r)'
  <2> PrepInv(r) /\ RefInv(r) /\ CallbackInv(r) BY <1>3, Zenon DEF IInv
  <2>1. PrepInv(r)' BY DEF TypeOK, PlaceInv, PrepInv
  <2>2. CallbackInv(r)' BY Zenon DEF TypeOK, PlaceInv, PrepInv, RefInv, Io, B, CallbackInv
  <2>3. /\ Io(r)' = Io(r)
        /\ Lk(r)' = (IF r = q THEN Lk(r) + 1 ELSE Lk(r))
        /\ Qu(r)' = Qu(r)
    BY DEF TypeOK, PlaceInv, PrepInv, Io, Lk, Qu, B
  <2>4. CASE r = q
    BY <2>1, <2>2, <2>3, <2>4, OwnersNat DEF TypeOK, PrepInv, RefInv
  <2>5. CASE r # q
    BY <2>1, <2>2, <2>3, <2>5, OwnersNat, Zenon DEF TypeOK, PrepInv, RefInv
  <2>6. QED BY <2>4, <2>5, Zenon
<1>4. QED BY <1>1, <1>2, <1>3, Zenon DEF IInv

\* AddTimer: the queue gets the timer, its reference follows.
LEMMA PushStep == ASSUME Assumed, IInv, NEW q \in Reqs, Push(q) PROVE IInv'
<1> USE DEF Assumed, UserPcs, Preparing, user, per, brk, Push, Goto
<1> TypeOK /\ PlaceInv /\ SweepInv BY Zenon DEF IInv
<1> PrepInv(q) BY Zenon DEF IInv
<1>1. TypeOK' /\ PlaceInv' BY DEF TypeOK, PlaceInv, PrepInv
<1>2. SweepInv' BY Zenon DEF TypeOK, PlaceInv, SweepInv
<1>3. ASSUME NEW r \in Reqs PROVE PrepInv(r)' /\ RefInv(r)' /\ CallbackInv(r)'
  <2> PrepInv(r) /\ RefInv(r) /\ CallbackInv(r) BY <1>3, Zenon DEF IInv
  <2>1. PrepInv(r)' BY DEF TypeOK, PlaceInv, PrepInv
  <2>2. CallbackInv(r)' BY Zenon DEF TypeOK, PlaceInv, PrepInv, RefInv, Io, B, CallbackInv
  <2>3. Io(r)' = Io(r) /\ Lk(r)' = Lk(r) /\ Qu(r)' = Qu(r)
    BY DEF TypeOK, PlaceInv, PrepInv, Io, Lk, Qu, B
  <2>4. QED BY <2>1, <2>2, <2>3, OwnersNat, Zenon DEF TypeOK, PrepInv, RefInv
<1>4. QED BY <1>1, <1>2, <1>3, Zenon DEF IInv

\* PrepareTimerContext: the queue's reference is taken.
LEMMA QueueRefStep == ASSUME Assumed, IInv, NEW q \in Reqs, QueueRef(q) PROVE IInv'
<1> USE DEF Assumed, UserPcs, Preparing, user, per, brk, QueueRef, Goto, IncreaseRef
<1> TypeOK /\ PlaceInv /\ SweepInv BY Zenon DEF IInv
<1> PrepInv(q) BY Zenon DEF IInv
<1>1. TypeOK' /\ PlaceInv' BY DEF TypeOK, PlaceInv, PrepInv
<1>2. SweepInv' BY Zenon DEF TypeOK, PlaceInv, SweepInv
<1>3. ASSUME NEW r \in Reqs PROVE PrepInv(r)' /\ RefInv(r)' /\ CallbackInv(r)'
  <2> PrepInv(r) /\ RefInv(r) /\ CallbackInv(r) BY <1>3, Zenon DEF IInv
  <2>1. PrepInv(r)' BY DEF TypeOK, PlaceInv, PrepInv
  <2>2. CallbackInv(r)' BY Zenon DEF TypeOK, PlaceInv, PrepInv, RefInv, Io, B, CallbackInv
  <2>3. /\ Io(r)' = Io(r)
        /\ Lk(r)' = Lk(r)
        /\ Qu(r)' = (IF r = q THEN Qu(r) + 1 ELSE Qu(r))
    BY DEF TypeOK, PlaceInv, PrepInv, Io, Lk, Qu, B
  <2>4. CASE r = q
    BY <2>1, <2>2, <2>3, <2>4, OwnersNat DEF TypeOK, PrepInv, RefInv
  <2>5. CASE r # q
    BY <2>1, <2>2, <2>3, <2>5, OwnersNat, Zenon DEF TypeOK, PrepInv, RefInv
  <2>6. QED BY <2>4, <2>5, Zenon
<1>4. QED BY <1>1, <1>2, <1>3, Zenon DEF IInv

\* Posting puts the request on the network and leaves the timer alone.
LEMMA PostStep == ASSUME Assumed, IInv, NEW q \in Reqs, Post(q) PROVE IInv'
<1> USE DEF Assumed, UserPcs, Preparing, user, per, brk, Post, Goto
<1> TypeOK /\ PlaceInv /\ SweepInv BY Zenon DEF IInv
<1> PrepInv(q) BY Zenon DEF IInv
<1>1. TypeOK' /\ PlaceInv' BY DEF TypeOK, PlaceInv, PrepInv
<1>2. SweepInv' BY DEF TypeOK, PlaceInv, SweepInv
<1>3. ASSUME NEW r \in Reqs PROVE PrepInv(r)' /\ RefInv(r)' /\ CallbackInv(r)'
  <2> PrepInv(r) /\ RefInv(r) /\ CallbackInv(r) BY <1>3, Zenon DEF IInv
  <2>1. PrepInv(r)' BY DEF TypeOK, PlaceInv, PrepInv
  <2>2. CallbackInv(r)' BY Zenon DEF TypeOK, PlaceInv, PrepInv, RefInv, Io, B, CallbackInv
  <2>3. Io(r)' = Io(r) /\ Lk(r)' = Lk(r) /\ Qu(r)' = Qu(r)
    BY DEF TypeOK, PlaceInv, PrepInv, Io, Lk, Qu, B
  <2>4. QED BY <2>1, <2>2, <2>3, OwnersNat, Zenon DEF TypeOK, PrepInv, RefInv
<1>4. QED BY <1>1, <1>2, <1>3, Zenon DEF IInv

\* A failed post leaves the timer alone.
LEMMA PostFailStep == ASSUME Assumed, IInv, NEW q \in Reqs, PostFail(q) PROVE IInv'
<1> USE DEF Assumed, UserPcs, Preparing, user, per, brk, PostFail, Goto
<1> TypeOK /\ PlaceInv /\ SweepInv BY Zenon DEF IInv
<1> PrepInv(q) BY Zenon DEF IInv
<1>1. TypeOK' /\ PlaceInv' BY DEF TypeOK, PlaceInv, PrepInv
<1>2. SweepInv' BY DEF TypeOK, PlaceInv, SweepInv
<1>3. ASSUME NEW r \in Reqs PROVE PrepInv(r)' /\ RefInv(r)' /\ CallbackInv(r)'
  <2> PrepInv(r) /\ RefInv(r) /\ CallbackInv(r) BY <1>3, Zenon DEF IInv
  <2>1. PrepInv(r)' BY Zenon DEF TypeOK, PlaceInv, PrepInv
  <2>2. CallbackInv(r)' BY Zenon DEF TypeOK, PlaceInv, PrepInv, RefInv, Io, B, CallbackInv
  <2>3. Io(r)' = Io(r) /\ Lk(r)' = Lk(r) /\ Qu(r)' = Qu(r)
    BY DEF TypeOK, PlaceInv, PrepInv, Io, Lk, Qu, B
  <2>4. QED BY <2>1, <2>2, <2>3, OwnersNat, Zenon DEF TypeOK, PrepInv, RefInv
<1>4. QED BY <1>1, <1>2, <1>3, Zenon DEF IInv

\* DestroyTimerContext: the erase moves the io reference to the user thread, or fails.
LEMMA DestroyEraseStep == ASSUME Assumed, IInv, NEW q \in Reqs, DestroyErase(q) PROVE IInv'
<1> USE DEF Assumed, UserPcs, Preparing, user, per, brk, DestroyErase, Goto
<1> TypeOK /\ PlaceInv /\ SweepInv BY Zenon DEF IInv
<1> PrepInv(q) BY Zenon DEF IInv
<1>1. TypeOK' /\ PlaceInv' BY DEF TypeOK, PlaceInv, PrepInv
<1>2. SweepInv' BY DEF TypeOK, PlaceInv, SweepInv
<1>3. ASSUME NEW r \in Reqs PROVE PrepInv(r)' /\ RefInv(r)' /\ CallbackInv(r)'
  <2> PrepInv(r) /\ RefInv(r) /\ CallbackInv(r) BY <1>3, Zenon DEF IInv
  <2>1. PrepInv(r)' BY Zenon DEF TypeOK, PlaceInv, PrepInv
  <2>2. CallbackInv(r)' BY Zenon DEF TypeOK, PlaceInv, PrepInv, RefInv, Io, B, CallbackInv
  <2>3. Io(r)' = Io(r) /\ Lk(r)' = Lk(r) /\ Qu(r)' = Qu(r)
    BY DEF TypeOK, PlaceInv, PrepInv, Io, Lk, Qu, B
  <2>4. QED BY <2>1, <2>2, <2>3, OwnersNat, Zenon DEF TypeOK, PrepInv, RefInv
<1>4. QED BY <1>1, <1>2, <1>3, Zenon DEF IInv

\* DestroyTimerContext: who erased deletes the callback.
LEMMA DestroyDeleteStep == ASSUME Assumed, IInv, NEW q \in Reqs, DestroyDelete(q) PROVE IInv'
<1> USE DEF Assumed, UserPcs, Preparing, user, per, brk, DestroyDelete, Goto, DeleteCallBack, MarkFinished
<1> TypeOK /\ PlaceInv /\ SweepInv BY Zenon DEF IInv
<1> PrepInv(q) BY Zenon DEF IInv
<1>1. TypeOK' /\ PlaceInv' BY DEF TypeOK, PlaceInv, PrepInv
<1>2. SweepInv' BY DEF TypeOK, PlaceInv, SweepInv
<1>3. ASSUME NEW r \in Reqs PROVE PrepInv(r)' /\ RefInv(r)' /\ CallbackInv(r)'
  <2> PrepInv(r) /\ RefInv(r) /\ CallbackInv(r) BY <1>3, Zenon DEF IInv
  <2>1. PrepInv(r)' BY Zenon DEF TypeOK, PlaceInv, PrepInv
  <2>2. CallbackInv(r)' BY DEF TypeOK, PlaceInv, PrepInv, RefInv, Io, B, CallbackInv
  <2>3. Io(r)' = Io(r) /\ Lk(r)' = Lk(r) /\ Qu(r)' = Qu(r)
    BY DEF TypeOK, PlaceInv, PrepInv, Io, Lk, Qu, B
  <2>4. QED BY <2>1, <2>2, <2>3, OwnersNat, Zenon DEF TypeOK, PrepInv, RefInv
<1>4. QED BY <1>1, <1>2, <1>3, Zenon DEF IInv

\* DestroyTimerContext: the io reference is dropped.
LEMMA DestroyUnrefStep == ASSUME Assumed, IInv, NEW q \in Reqs, DestroyUnref(q) PROVE IInv'
<1> USE DEF Assumed, UserPcs, Preparing, user, per, brk, DestroyUnref, Goto, DecreaseRef
<1> TypeOK /\ PlaceInv /\ SweepInv BY Zenon DEF IInv
<1> PrepInv(q) BY Zenon DEF IInv
<1>1. TypeOK' /\ PlaceInv' BY DEF TypeOK, PlaceInv, PrepInv
<1>2. SweepInv' BY DEF TypeOK, PlaceInv, SweepInv
<1>3. ASSUME NEW r \in Reqs PROVE PrepInv(r)' /\ RefInv(r)' /\ CallbackInv(r)'
  <2> PrepInv(r) /\ RefInv(r) /\ CallbackInv(r) BY <1>3, Zenon DEF IInv
  <2>1. PrepInv(r)' BY DEF TypeOK, PlaceInv, PrepInv
  <2>2. CallbackInv(r)' BY Zenon DEF TypeOK, PlaceInv, PrepInv, RefInv, Io, B, CallbackInv
  <2>3. /\ Io(r)' = (IF r = q THEN Io(r) - 1 ELSE Io(r))
        /\ Lk(r)' = Lk(r)
        /\ Qu(r)' = Qu(r)
    BY DEF TypeOK, PlaceInv, PrepInv, Io, Lk, Qu, B
  <2>4. CASE r = q
    BY <2>1, <2>2, <2>3, <2>4, OwnersNat DEF TypeOK, PrepInv, RefInv
  <2>5. CASE r # q
    BY <2>1, <2>2, <2>3, <2>5, OwnersNat DEF TypeOK, PrepInv, RefInv
  <2>6. QED BY <2>4, <2>5, Zenon
<1>4. QED BY <1>1, <1>2, <1>3, Zenon DEF IInv

\* Returning from syncParam.Wait leaves the timer alone.
LEMMA WakeStep == ASSUME Assumed, IInv, NEW q \in Reqs, Wake(q) PROVE IInv'
<1> USE DEF Assumed, UserPcs, Preparing, user, per, brk, Wake, Goto
<1> TypeOK /\ PlaceInv /\ SweepInv BY Zenon DEF IInv
<1> PrepInv(q) BY Zenon DEF IInv
<1>1. TypeOK' /\ PlaceInv' BY DEF TypeOK, PlaceInv, PrepInv
<1>2. SweepInv' BY DEF TypeOK, PlaceInv, SweepInv
<1>3. ASSUME NEW r \in Reqs PROVE PrepInv(r)' /\ RefInv(r)' /\ CallbackInv(r)'
  <2> PrepInv(r) /\ RefInv(r) /\ CallbackInv(r) BY <1>3, Zenon DEF IInv
  <2>1. PrepInv(r)' BY Zenon DEF TypeOK, PlaceInv, PrepInv
  <2>2. CallbackInv(r)' BY Zenon DEF TypeOK, PlaceInv, PrepInv, RefInv, Io, B, CallbackInv
  <2>3. Io(r)' = Io(r) /\ Lk(r)' = Lk(r) /\ Qu(r)' = Qu(r)
    BY DEF TypeOK, PlaceInv, PrepInv, Io, Lk, Qu, B
  <2>4. QED BY <2>1, <2>2, <2>3, OwnersNat, Zenon DEF TypeOK, PrepInv, RefInv
<1>4. QED BY <1>1, <1>2, <1>3, Zenon DEF IInv

\* A step of the user thread of q preserves the invariant.
LEMMA UserStep == ASSUME Assumed, IInv, NEW q \in Reqs, User(q) PROVE IInv'
  BY SelectStep, AllocStep, AllocFailStep, RetryStep, IoRefStep, ValidateStep, ValidateFailStep, LinkStep, LinkRefStep, PushStep, QueueRefStep, PostStep, PostFailStep, DestroyEraseStep, DestroyDeleteStep, DestroyUnrefStep, WakeStep, Zenon
    DEF User

-----------------------------------------------------------------------------
(* The workers *)

\* GetSeqNoAndRemove moves the io reference from the store to the worker.
LEMMA ReceiveStep == ASSUME Assumed, IInv, NEW q \in Reqs, Receive(q) PROVE IInv'
<1> USE DEF Assumed, UserPcs, Preparing, user, per, brk, Receive
<1> TypeOK /\ PlaceInv /\ SweepInv BY Zenon DEF IInv
<1> PrepInv(q) BY Zenon DEF IInv
<1>1. TypeOK' /\ PlaceInv' BY DEF TypeOK, PlaceInv, PrepInv
<1>2. SweepInv' BY Zenon DEF TypeOK, PlaceInv, SweepInv
<1>3. ASSUME NEW r \in Reqs PROVE PrepInv(r)' /\ RefInv(r)' /\ CallbackInv(r)'
  <2> PrepInv(r) /\ RefInv(r) /\ CallbackInv(r) BY <1>3, Zenon DEF IInv
  <2>1. PrepInv(r)' BY Zenon DEF TypeOK, PlaceInv, PrepInv
  <2>2. CallbackInv(r)' BY Zenon DEF TypeOK, PlaceInv, PrepInv, RefInv, Io, B, CallbackInv
  <2>3. Io(r)' = Io(r) /\ Lk(r)' = Lk(r) /\ Qu(r)' = Qu(r)
    BY DEF TypeOK, PlaceInv, PrepInv, Io, Lk, Qu, B
  <2>4. QED BY <2>1, <2>2, <2>3, OwnersNat, Zenon DEF TypeOK, PrepInv, RefInv
<1>4. QED BY <1>1, <1>2, <1>3, Zenon DEF IInv

\* The worker that erased runs the callback.
LEMMA WorkerRunStep == ASSUME Assumed, IInv, NEW q \in Reqs, WorkerRun(q) PROVE IInv'
<1> USE DEF Assumed, UserPcs, Preparing, user, per, brk, WorkerRun, RunCallBack
<1> TypeOK /\ PlaceInv /\ SweepInv BY Zenon DEF IInv
<1> PrepInv(q) BY Zenon DEF IInv
<1>1. TypeOK' /\ PlaceInv' BY DEF TypeOK, PlaceInv, PrepInv
<1>2. SweepInv' BY Zenon DEF TypeOK, PlaceInv, SweepInv
<1>3. ASSUME NEW r \in Reqs PROVE PrepInv(r)' /\ RefInv(r)' /\ CallbackInv(r)'
  <2> PrepInv(r) /\ RefInv(r) /\ CallbackInv(r) BY <1>3, Zenon DEF IInv
  <2>1. PrepInv(r)' BY Zenon DEF TypeOK, PlaceInv, PrepInv
  <2>2. CallbackInv(r)' BY DEF TypeOK, PlaceInv, PrepInv, RefInv, Io, B, CallbackInv
  <2>3. Io(r)' = Io(r) /\ Lk(r)' = Lk(r) /\ Qu(r)' = Qu(r)
    BY DEF TypeOK, PlaceInv, PrepInv, Io, Lk, Qu, B
  <2>4. QED BY <2>1, <2>2, <2>3, OwnersNat, Zenon DEF TypeOK, PrepInv, RefInv
<1>4. QED BY <1>1, <1>2, <1>3, Zenon DEF IInv

\* MarkFinished only lets the timeout thread collect the timer.
LEMMA WorkerMarkStep == ASSUME Assumed, IInv, NEW q \in Reqs, WorkerMark(q) PROVE IInv'
<1> USE DEF Assumed, UserPcs, Preparing, user, per, brk, WorkerMark, MarkFinished
<1> TypeOK /\ PlaceInv /\ SweepInv BY Zenon DEF IInv
<1> PrepInv(q) BY Zenon DEF IInv
<1>1. TypeOK' /\ PlaceInv' BY DEF TypeOK, PlaceInv, PrepInv
<1>2. SweepInv' BY Zenon DEF TypeOK, PlaceInv, SweepInv
<1>3. ASSUME NEW r \in Reqs PROVE PrepInv(r)' /\ RefInv(r)' /\ CallbackInv(r)'
  <2> PrepInv(r) /\ RefInv(r) /\ CallbackInv(r) BY <1>3, Zenon DEF IInv
  <2>1. PrepInv(r)' BY Zenon DEF TypeOK, PlaceInv, PrepInv
  <2>2. CallbackInv(r)' BY Zenon DEF TypeOK, PlaceInv, PrepInv, RefInv, Io, B, CallbackInv
  <2>3. Io(r)' = Io(r) /\ Lk(r)' = Lk(r) /\ Qu(r)' = Qu(r)
    BY DEF TypeOK, PlaceInv, PrepInv, Io, Lk, Qu, B
  <2>4. QED BY <2>1, <2>2, <2>3, OwnersNat, Zenon DEF TypeOK, PrepInv, RefInv
<1>4. QED BY <1>1, <1>2, <1>3, Zenon DEF IInv

\* The worker drops the io reference.
LEMMA WorkerUnrefStep == ASSUME Assumed, IInv, NEW q \in Reqs, WorkerUnref(q) PROVE IInv'
<1> USE DEF Assumed, UserPcs, Preparing, user, per, brk, WorkerUnref, DecreaseRef
<1> TypeOK /\ PlaceInv /\ SweepInv BY Zenon DEF IInv
<1> PrepInv(q) BY Zenon DEF IInv
<1>1. TypeOK' /\ PlaceInv' BY DEF TypeOK, PlaceInv, PrepInv
<1>2. SweepInv' BY Zenon DEF TypeOK, PlaceInv, SweepInv
<1>3. ASSUME NEW r \in Reqs PROVE PrepInv(r)' /\ RefInv(r)' /\ CallbackInv(r)'
  <2> PrepInv(r) /\ RefInv(r) /\ CallbackInv(r) BY <1>3, Zenon DEF IInv
  <2>1. PrepInv(r)' BY Zenon DEF TypeOK, PlaceInv, PrepInv
  <2>2. CallbackInv(r)' BY Zenon DEF TypeOK, PlaceInv, PrepInv, RefInv, Io, B, CallbackInv
  <2>3. /\ Io(r)' = (IF r = q THEN Io(r) - 1 ELSE Io(r))
        /\ Lk(r)' = Lk(r)
        /\ Qu(r)' = Qu(r)
    BY DEF TypeOK, PlaceInv, PrepInv, Io, Lk, Qu, B
  <2>4. CASE r = q
    BY <2>1, <2>2, <2>3, <2>4, OwnersNat DEF TypeOK, PrepInv, RefInv
  <2>5. CASE r # q
    BY <2>1, <2>2, <2>3, <2>5, OwnersNat DEF TypeOK, PrepInv, RefInv
  <2>6. QED BY <2>4, <2>5, Zenon
<1>4. QED BY <1>1, <1>2, <1>3, Zenon DEF IInv

\* A step of a worker that serves q preserves the invariant.
LEMMA WorkerStep == ASSUME Assumed, IInv, NEW q \in Reqs, Receive(q) \/ Worker(q) PROVE IInv'
  BY ReceiveStep, WorkerRunStep, WorkerMarkStep, WorkerUnrefStep, Zenon DEF Worker

-----------------------------------------------------------------------------
(* The timeout thread *)

\* Starting a round touches no timer.
LEMMA RoundBeginStep == ASSUME Assumed, IInv, RoundBegin PROVE IInv'
<1> USE NBAssumption DEF Assumed, UserPcs, Preparing, user, per, brk, RoundBegin
<1> TypeOK /\ PlaceInv /\ SweepInv BY Zenon DEF IInv
<1>1. TypeOK' /\ PlaceInv' BY DEF TypeOK, PlaceInv, PrepInv
<1>2. SweepInv' BY Zenon DEF TypeOK, PlaceInv, SweepInv
<1>3. ASSUME NEW r \in Reqs PROVE PrepInv(r)' /\ RefInv(r)' /\ CallbackInv(r)'
  <2> PrepInv(r) /\ RefInv(r) /\ CallbackInv(r) BY <1>3, Zenon DEF IInv
  <2>1. PrepInv(r)' BY Zenon DEF TypeOK, PlaceInv, PrepInv
  <2>2. CallbackInv(r)' BY Zenon DEF TypeOK, PlaceInv, PrepInv, RefInv, Io, B, CallbackInv
  <2>3. Io(r)' = Io(r) /\ Lk(r)' = Lk(r) /\ Qu(r)' = Qu(r)
    BY Zenon DEF TypeOK, PlaceInv, PrepInv, Io, Lk, Qu, B
  <2>4. QED BY <2>1, <2>2, <2>3, OwnersNat, Zenon DEF TypeOK, PrepInv, RefInv
<1>4. QED BY <1>1, <1>2, <1>3, Zenon DEF IInv

\* Finished and timed-out timers move from the queue to the timeout thread; none of them is
\* being prepared.
LEMMA CollectStep == ASSUME Assumed, IInv, Collect PROVE IInv'
<1> USE NBAssumption DEF Assumed, UserPcs, Preparing, user, per, brk, Collect, Popped, InBucket, IsTimeOut
<1> TypeOK /\ PlaceInv /\ SweepInv BY Zenon DEF IInv
<1>1. TypeOK' /\ PlaceInv' BY DEF TypeOK, PlaceInv, PrepInv
<1>2. SweepInv' BY Zenon DEF TypeOK, PlaceInv, SweepInv
<1>3. ASSUME NEW r \in Reqs PROVE PrepInv(r)' /\ RefInv(r)' /\ CallbackInv(r)'
  <2> PrepInv(r) /\ RefInv(r) /\ CallbackInv(r) BY <1>3, Zenon DEF IInv
  <2>1. PrepInv(r)' BY DEF TypeOK, PlaceInv, PrepInv
  <2>2. CallbackInv(r)' BY Zenon DEF TypeOK, PlaceInv, PrepInv, RefInv, Io, B, CallbackInv
  <2>3. Io(r)' = Io(r) /\ Lk(r)' = Lk(r) /\ Qu(r)' = Qu(r)
    BY DEF TypeOK, PlaceInv, PrepInv, Io, Lk, Qu, B
  <2>4. QED BY <2>1, <2>2, <2>3, OwnersNat, Zenon DEF TypeOK, PrepInv, RefInv
<1>4. QED BY <1>1, <1>2, <1>3, Zenon DEF IInv

\* The clean-up takes a whole queue; senders are through.
LEMMA CleanUpStep == ASSUME Assumed, IInv, CleanUp PROVE IInv'
<1> USE DEF Assumed, UserPcs, Preparing, user, per, brk, CleanUp, Quiet, InBucket
<1> TypeOK /\ PlaceInv /\ SweepInv BY Zenon DEF IInv
<1>1. TypeOK' /\ PlaceInv' BY Zenon DEF TypeOK, PlaceInv, PrepInv
<1>2. SweepInv' BY Zenon DEF TypeOK, PlaceInv, SweepInv
<1>3. ASSUME NEW r \in Reqs PROVE PrepInv(r)' /\ RefInv(r)' /\ CallbackInv(r)'
  <2> PrepInv(r) /\ RefInv(r) /\ CallbackInv(r) BY <1>3, Zenon DEF IInv
  <2>1. PrepInv(r)' BY Zenon DEF TypeOK, PlaceInv, PrepInv
  <2>2. CallbackInv(r)' BY Zenon DEF TypeOK, PlaceInv, PrepInv, RefInv, Io, B, CallbackInv
  <2>3. Io(r)' = Io(r) /\ Lk(r)' = Lk(r) /\ Qu(r)' = Qu(r)
    BY DEF TypeOK, PlaceInv, PrepInv, Io, Lk, Qu, B
  <2>4. QED BY <2>1, <2>2, <2>3, OwnersNat, Zenon DEF TypeOK, PrepInv, RefInv
<1>4. QED BY <1>1, <1>2, <1>3, Zenon DEF IInv

\* EraseSeqNoWithRet moves the io reference to the timeout thread, or fails.
LEMMA HandleEraseStep == ASSUME Assumed, IInv, NEW q \in Reqs, HandleErase(q) PROVE IInv'
<1> USE NoneAssumption DEF Assumed, UserPcs, Preparing, user, per, brk, HandleErase
<1> TypeOK /\ PlaceInv /\ SweepInv BY Zenon DEF IInv
<1> PrepInv(q) BY Zenon DEF IInv
<1>1. TypeOK' /\ PlaceInv' BY DEF TypeOK, PlaceInv, PrepInv
<1>2. SweepInv' BY Zenon DEF TypeOK, PlaceInv, SweepInv
<1>3. ASSUME NEW r \in Reqs PROVE PrepInv(r)' /\ RefInv(r)' /\ CallbackInv(r)'
  <2> PrepInv(r) /\ RefInv(r) /\ CallbackInv(r) BY <1>3, Zenon DEF IInv
  <2>1. PrepInv(r)' BY Zenon DEF TypeOK, PlaceInv, PrepInv
  <2>2. CallbackInv(r)' BY Zenon DEF TypeOK, PlaceInv, PrepInv, RefInv, Io, B, CallbackInv
  <2>3. Io(r)' = Io(r) /\ Lk(r)' = Lk(r) /\ Qu(r)' = Qu(r)
    BY DEF TypeOK, PlaceInv, PrepInv, Io, Lk, Qu, B
  <2>4. QED BY <2>1, <2>2, <2>3, OwnersNat, Zenon DEF TypeOK, PrepInv, RefInv
<1>4. QED BY <1>1, <1>2, <1>3, Zenon DEF IInv

\* The timeout thread runs the callback of the timer it erased.
LEMMA HandleRunStep == ASSUME Assumed, IInv, HandleRun PROVE IInv'
<1> USE NoneAssumption DEF Assumed, UserPcs, Preparing, user, per, brk, HandleRun, MarkTimeout, RunCallBack
<1> TypeOK /\ PlaceInv /\ SweepInv BY Zenon DEF IInv
<1>1. TypeOK' /\ PlaceInv' BY DEF TypeOK, PlaceInv, PrepInv
<1>2. SweepInv' BY Zenon DEF TypeOK, PlaceInv, SweepInv
<1>3. ASSUME NEW r \in Reqs PROVE PrepInv(r)' /\ RefInv(r)' /\ CallbackInv(r)'
  <2> PrepInv(r) /\ RefInv(r) /\ CallbackInv(r) BY <1>3, Zenon DEF IInv
  <2>1. PrepInv(r)' BY Zenon DEF TypeOK, PlaceInv, PrepInv
  <2>2. CallbackInv(r)' BY DEF TypeOK, PlaceInv, PrepInv, RefInv, Io, B, CallbackInv
  <2>3. Io(r)' = Io(r) /\ Lk(r)' = Lk(r) /\ Qu(r)' = Qu(r)
    BY Zenon DEF TypeOK, PlaceInv, PrepInv, Io, Lk, Qu, B
  <2>4. QED BY <2>1, <2>2, <2>3, OwnersNat, Zenon DEF TypeOK, PrepInv, RefInv
<1>4. QED BY <1>1, <1>2, <1>3, Zenon DEF IInv

\* The timeout thread drops the io reference.
LEMMA HandleUnrefStep == ASSUME Assumed, IInv, HandleUnref PROVE IInv'
<1> USE NoneAssumption DEF Assumed, UserPcs, Preparing, user, per, brk, HandleUnref, DecreaseRef
<1> TypeOK /\ PlaceInv /\ SweepInv BY Zenon DEF IInv
<1>1. TypeOK' /\ PlaceInv' BY DEF TypeOK, PlaceInv, PrepInv
<1>2. SweepInv' BY Zenon DEF TypeOK, PlaceInv, SweepInv
<1>3. ASSUME NEW r \in Reqs PROVE PrepInv(r)' /\ RefInv(r)' /\ CallbackInv(r)'
  <2> PrepInv(r) /\ RefInv(r) /\ CallbackInv(r) BY <1>3, Zenon DEF IInv
  <2>1. PrepInv(r)' BY Zenon DEF TypeOK, PlaceInv, PrepInv
  <2>2. CallbackInv(r)' BY Zenon DEF TypeOK, PlaceInv, PrepInv, RefInv, Io, B, CallbackInv
  <2>3. /\ Io(r)' = (IF r = pcur THEN Io(r) - 1 ELSE Io(r))
        /\ Lk(r)' = Lk(r)
        /\ Qu(r)' = Qu(r)
    BY DEF TypeOK, PlaceInv, PrepInv, Io, Lk, Qu, B
  <2>4. CASE r = pcur
    BY <2>1, <2>2, <2>3, <2>4, OwnersNat DEF TypeOK, PrepInv, RefInv
  <2>5. CASE r # pcur
    BY <2>1, <2>2, <2>3, <2>5, OwnersNat DEF TypeOK, PrepInv, RefInv
  <2>6. QED BY <2>4, <2>5, Zenon
<1>4. QED BY <1>1, <1>2, <1>3, Zenon DEF IInv

\* RemoveTimerCtx moves the list's reference to the timeout thread if the timer was linked.
LEMMA UnlinkStep == ASSUME Assumed, IInv, Unlink PROVE IInv'
<1> USE NoneAssumption DEF Assumed, UserPcs, Preparing, user, per, brk, Unlink
<1> TypeOK /\ PlaceInv /\ SweepInv BY Zenon DEF IInv
<1>1. TypeOK' /\ PlaceInv' BY DEF TypeOK, PlaceInv, PrepInv
<1>2. SweepInv' BY Zenon DEF TypeOK, PlaceInv, SweepInv
<1>3. ASSUME NEW r \in Reqs PROVE PrepInv(r)' /\ RefInv(r)' /\ CallbackInv(r)'
  <2> PrepInv(r) /\ RefInv(r) /\ CallbackInv(r) BY <1>3, Zenon DEF IInv
  <2>1. PrepInv(r)' BY Zenon DEF TypeOK, PlaceInv, PrepInv
  <2>2. CallbackInv(r)' BY Zenon DEF TypeOK, PlaceInv, PrepInv, RefInv, Io, B, CallbackInv
  <2>3. Io(r)' = Io(r) /\ Lk(r)' = Lk(r) /\ Qu(r)' = Qu(r)
    BY DEF TypeOK, PlaceInv, PrepInv, Io, Lk, Qu, B
  <2>4. QED BY <2>1, <2>2, <2>3, OwnersNat, Zenon DEF TypeOK, PrepInv, RefInv
<1>4. QED BY <1>1, <1>2, <1>3, Zenon DEF IInv

\* The timeout thread drops the list's reference.
LEMMA LinkUnrefStep == ASSUME Assumed, IInv, LinkUnref PROVE IInv'
<1> USE NoneAssumption DEF Assumed, UserPcs, Preparing, user, per, brk, LinkUnref, DecreaseRef
<1> TypeOK /\ PlaceInv /\ SweepInv BY Zenon DEF IInv
<1>1. TypeOK' /\ PlaceInv' BY DEF TypeOK, PlaceInv, PrepInv
<1>2. SweepInv' BY Zenon DEF TypeOK, PlaceInv, SweepInv
<1>3. ASSUME NEW r \in Reqs PROVE PrepInv(r)' /\ RefInv(r)' /\ CallbackInv(r)'
  <2> PrepInv(r) /\ RefInv(r) /\ CallbackInv(r) BY <1>3, Zenon DEF IInv
  <2>1. PrepInv(r)' BY Zenon DEF TypeOK, PlaceInv, PrepInv
  <2>2. CallbackInv(r)' BY Zenon DEF TypeOK, PlaceInv, PrepInv, RefInv, Io, B, CallbackInv
  <2>3. /\ Io(r)' = Io(r)
        /\ Lk(r)' = (IF r = pcur THEN Lk(r) - 1 ELSE Lk(r))
        /\ Qu(r)' = Qu(r)
    BY DEF TypeOK, PlaceInv, PrepInv, Io, Lk, Qu, B
  <2>4. CASE r = pcur
    BY <2>1, <2>2, <2>3, <2>4, OwnersNat DEF TypeOK, PrepInv, RefInv
  <2>5. CASE r # pcur
    BY <2>1, <2>2, <2>3, <2>5, OwnersNat DEF TypeOK, PrepInv, RefInv
  <2>6. QED BY <2>4, <2>5, Zenon
<1>4. QED BY <1>1, <1>2, <1>3, Zenon DEF IInv

\* The timeout thread drops the queue's reference.
LEMMA QueueUnrefStep == ASSUME Assumed, IInv, QueueUnref PROVE IInv'
<1> USE NoneAssumption DEF Assumed, UserPcs, Preparing, user, per, brk, QueueUnref, DecreaseRef
<1> TypeOK /\ PlaceInv /\ SweepInv BY Zenon DEF IInv
<1>1. TypeOK' /\ PlaceInv' BY DEF TypeOK, PlaceInv, PrepInv
<1>2. SweepInv' BY Zenon DEF TypeOK, PlaceInv, SweepInv
<1>3. ASSUME NEW r \in Reqs PROVE PrepInv(r)' /\ RefInv(r)' /\ CallbackInv(r)'
  <2> PrepInv(r) /\ RefInv(r) /\ CallbackInv(r) BY <1>3, Zenon DEF IInv
  <2>1. PrepInv(r)' BY Zenon DEF TypeOK, PlaceInv, PrepInv
  <2>2. CallbackInv(r)' BY Zenon DEF TypeOK, PlaceInv, PrepInv, RefInv, Io, B, CallbackInv
  <2>3. /\ Io(r)' = Io(r)
        /\ Lk(r)' = Lk(r)
        /\ Qu(r)' = (IF r = pcur THEN Qu(r) - 1 ELSE Qu(r))
    BY DEF TypeOK, PlaceInv, PrepInv, Io, Lk, Qu, B
  <2>4. CASE r = pcur
    BY <2>1, <2>2, <2>3, <2>4, OwnersNat DEF TypeOK, PrepInv, RefInv
  <2>5. CASE r # pcur
    BY <2>1, <2>2, <2>3, <2>5, OwnersNat DEF TypeOK, PrepInv, RefInv
  <2>6. QED BY <2>4, <2>5, Zenon
<1>4. QED BY <1>1, <1>2, <1>3, Zenon DEF IInv

\* Ending a round touches no timer.
LEMMA RoundEndStep == ASSUME Assumed, IInv, RoundEnd PROVE IInv'
<1> USE NBAssumption DEF Assumed, UserPcs, Preparing, user, per, brk, RoundEnd
<1> TypeOK /\ PlaceInv /\ SweepInv BY Zenon DEF IInv
<1>1. TypeOK' /\ PlaceInv' BY DEF TypeOK, PlaceInv, PrepInv
<1>2. SweepInv' BY Zenon DEF TypeOK, PlaceInv, SweepInv
<1>3. ASSUME NEW r \in Reqs PROVE PrepInv(r)' /\ RefInv(r)' /\ CallbackInv(r)'
  <2> PrepInv(r) /\ RefInv(r) /\ CallbackInv(r) BY <1>3, Zenon DEF IInv
  <2>1. PrepInv(r)' BY Zenon DEF TypeOK, PlaceInv, PrepInv
  <2>2. CallbackInv(r)' BY Zenon DEF TypeOK, PlaceInv, PrepInv, RefInv, Io, B, CallbackInv
  <2>3. Io(r)' = Io(r) /\ Lk(r)' = Lk(r) /\ Qu(r)' = Qu(r)
    BY Zenon DEF TypeOK, PlaceInv, PrepInv, Io, Lk, Qu, B
  <2>4. QED BY <2>1, <2>2, <2>3, OwnersNat, Zenon DEF TypeOK, PrepInv, RefInv
<1>4. QED BY <1>1, <1>2, <1>3, Zenon DEF IInv

\* A step of the timeout thread preserves the invariant.
LEMMA PeriodicStep == ASSUME Assumed, IInv, Periodic PROVE IInv'
  BY RoundBeginStep, CollectStep, CleanUpStep, HandleEraseStep, HandleRunStep, HandleUnrefStep, UnlinkStep, LinkUnrefStep, QueueUnrefStep, RoundEndStep, Zenon
    DEF Periodic

-----------------------------------------------------------------------------
(* The sweep of a broken channel, and the theorems *)

\* Init establishes the invariant.
LEMMA InitIInv == Init => IInv
<1> SUFFICES ASSUME Init PROVE IInv
  BY Zenon
<1> USE NBAssumption, NoneAssumption DEF Init
<1>1. TypeOK
  <2>1. upc \in [Reqs -> UserPcs] /\ bucket \in [Reqs -> 0 .. NB - 1] /\ nextIdx \in 0 .. NB - 1
    BY DEF UserPcs
  <2>2. finished \in [Reqs -> BOOLEAN] /\ chOpen \in BOOLEAN /\ needStop \in BOOLEAN
    BY Zenon
  <2>3. cb \in [Reqs -> {"set", "ran", "deleted", "bad"}]
    BY Zenon
  <2>4. wk \in [Reqs -> {"none", "run", "mark", "unref"}]
    BY Zenon
  <2>5. ref \in [Reqs -> Int] /\ freed \in [Reqs -> Nat] /\ deadline \in [Reqs -> Nat]
    OBVIOUS
  <2>6. pidx \in 0 .. NB - 1 /\ bround \in 1 .. 2 /\ clock \in Nat
    OBVIOUS
  <2>7. QED
    BY <2>1, <2>2, <2>3, <2>4, <2>5, <2>6, Zenon DEF TypeOK
<1>2. PlaceInv /\ SweepInv
  BY Zenon DEF PlaceInv, SweepInv, Preparing
<1>3. ASSUME NEW r \in Reqs PROVE PrepInv(r) /\ RefInv(r) /\ CallbackInv(r)
  BY DEF PrepInv, RefInv, Io, Lk, Qu, B, CallbackInv, Preparing
<1>4. QED
  BY <1>1, <1>2, <1>3, Zenon DEF IInv

\* Closing the channel touches no timer.
LEMMA CloseStep == ASSUME Assumed, IInv, Close PROVE IInv'
<1> USE DEF Assumed, UserPcs, Preparing, user, per, brk, Close
<1> TypeOK /\ PlaceInv /\ SweepInv BY Zenon DEF IInv
<1>1. TypeOK' /\ PlaceInv' BY DEF TypeOK, PlaceInv, PrepInv
<1>2. SweepInv' BY Zenon DEF TypeOK, PlaceInv, SweepInv
<1>3. ASSUME NEW r \in Reqs PROVE PrepInv(r)' /\ RefInv(r)' /\ CallbackInv(r)'
  <2> PrepInv(r) /\ RefInv(r) /\ CallbackInv(r) BY <1>3, Zenon DEF IInv
  <2>1. PrepInv(r)' BY Zenon DEF TypeOK, PlaceInv, PrepInv
  <2>2. CallbackInv(r)' BY Zenon DEF TypeOK, PlaceInv, PrepInv, RefInv, Io, B, CallbackInv
  <2>3. Io(r)' = Io(r) /\ Lk(r)' = Lk(r) /\ Qu(r)' = Qu(r)
    BY Zenon DEF TypeOK, PlaceInv, PrepInv, Io, Lk, Qu, B
  <2>4. QED BY <2>1, <2>2, <2>3, OwnersNat, Zenon DEF TypeOK, PrepInv, RefInv
<1>4. QED BY <1>1, <1>2, <1>3, Zenon DEF IInv

\* GetTimerCtx moves the list's references to the sweep; senders are through.
LEMMA DetachStep == ASSUME Assumed, IInv, Detach PROVE IInv'
<1> USE DEF Assumed, UserPcs, Preparing, user, per, brk, Detach, Quiet
<1> TypeOK /\ PlaceInv /\ SweepInv BY Zenon DEF IInv
<1>1. TypeOK' /\ PlaceInv' BY DEF TypeOK, PlaceInv, PrepInv
<1>2. SweepInv' BY Zenon DEF TypeOK, PlaceInv, SweepInv
<1>3. ASSUME NEW r \in Reqs PROVE PrepInv(r)' /\ RefInv(r)' /\ CallbackInv(r)'
  <2> PrepInv(r) /\ RefInv(r) /\ CallbackInv(r) BY <1>3, Zenon DEF IInv
  <2>1. PrepInv(r)' BY Zenon DEF TypeOK, PlaceInv, PrepInv
  <2>2. CallbackInv(r)' BY Zenon DEF TypeOK, PlaceInv, PrepInv, RefInv, Io, B, CallbackInv
  <2>3. Io(r)' = Io(r) /\ Lk(r)' = Lk(r) /\ Qu(r)' = Qu(r)
    BY DEF TypeOK, PlaceInv, PrepInv, Io, Lk, Qu, B, SweepInv
  <2>4. QED BY <2>1, <2>2, <2>3, OwnersNat, Zenon DEF TypeOK, PrepInv, RefInv
<1>4. QED BY <1>1, <1>2, <1>3, Zenon DEF IInv

\* PROCESS_IO: the erase moves the io reference to the sweep, or fails.
LEMMA SweepEraseStep == ASSUME Assumed, IInv, NEW q \in Reqs, SweepErase(q) PROVE IInv'
<1> USE NoneAssumption DEF Assumed, UserPcs, Preparing, user, per, brk, SweepErase
<1> TypeOK /\ PlaceInv /\ SweepInv BY Zenon DEF IInv
<1> PrepInv(q) BY Zenon DEF IInv
<1>1. TypeOK' /\ PlaceInv' BY DEF TypeOK, PlaceInv, PrepInv
<1>2. SweepInv' BY Zenon DEF TypeOK, PlaceInv, SweepInv
<1>3. ASSUME NEW r \in Reqs PROVE PrepInv(r)' /\ RefInv(r)' /\ CallbackInv(r)'
  <2> PrepInv(r) /\ RefInv(r) /\ CallbackInv(r) BY <1>3, Zenon DEF IInv
  <2>1. PrepInv(r)' BY Zenon DEF TypeOK, PlaceInv, PrepInv
  <2>2. CallbackInv(r)' BY Zenon DEF TypeOK, PlaceInv, PrepInv, RefInv, Io, B, CallbackInv
  <2>3. Io(r)' = Io(r) /\ Lk(r)' = Lk(r) /\ Qu(r)' = Qu(r)
    BY DEF TypeOK, PlaceInv, PrepInv, Io, Lk, Qu, B
  <2>4. QED BY <2>1, <2>2, <2>3, OwnersNat, Zenon DEF TypeOK, PrepInv, RefInv
<1>4. QED BY <1>1, <1>2, <1>3, Zenon DEF IInv

\* PROCESS_IO: MarkFinished.
LEMMA SweepMarkStep == ASSUME Assumed, IInv, SweepMark PROVE IInv'
<1> USE NoneAssumption DEF Assumed, UserPcs, Preparing, user, per, brk, SweepMark, MarkFinished
<1> TypeOK /\ PlaceInv /\ SweepInv BY Zenon DEF IInv
<1>1. TypeOK' /\ PlaceInv' BY DEF TypeOK, PlaceInv, PrepInv
<1>2. SweepInv' BY Zenon DEF TypeOK, PlaceInv, SweepInv
<1>3. ASSUME NEW r \in Reqs PROVE PrepInv(r)' /\ RefInv(r)' /\ CallbackInv(r)'
  <2> PrepInv(r) /\ RefInv(r) /\ CallbackInv(r) BY <1>3, Zenon DEF IInv
  <2>1. PrepInv(r)' BY Zenon DEF TypeOK, PlaceInv, PrepInv
  <2>2. CallbackInv(r)' BY Zenon DEF TypeOK, PlaceInv, PrepInv, RefInv, Io, B, CallbackInv
  <2>3. Io(r)' = Io(r) /\ Lk(r)' = Lk(r) /\ Qu(r)' = Qu(r)
    BY Zenon DEF TypeOK, PlaceInv, PrepInv, Io, Lk, Qu, B
  <2>4. QED BY <2>1, <2>2, <2>3, OwnersNat, Zenon DEF TypeOK, PrepInv, RefInv
<1>4. QED BY <1>1, <1>2, <1>3, Zenon DEF IInv

\* PROCESS_IO: the sweep runs the callback of the timer it erased.
LEMMA SweepRunStep == ASSUME Assumed, IInv, SweepRun PROVE IInv'
<1> USE NoneAssumption DEF Assumed, UserPcs, Preparing, user, per, brk, SweepRun, RunCallBack
<1> TypeOK /\ PlaceInv /\ SweepInv BY Zenon DEF IInv
<1>1. TypeOK' /\ PlaceInv' BY DEF TypeOK, PlaceInv, PrepInv
<1>2. SweepInv' BY Zenon DEF TypeOK, PlaceInv, SweepInv
<1>3. ASSUME NEW r \in Reqs PROVE PrepInv(r)' /\ RefInv(r)' /\ CallbackInv(r)'
  <2> PrepInv(r) /\ RefInv(r) /\ CallbackInv(r) BY <1>3, Zenon DEF IInv
  <2>1. PrepInv(r)' BY Zenon DEF TypeOK, PlaceInv, PrepInv
  <2>2. CallbackInv(r)' BY DEF TypeOK, PlaceInv, PrepInv, RefInv, Io, B, CallbackInv
  <2>3. Io(r)' = Io(r) /\ Lk(r)' = Lk(r) /\ Qu(r)' = Qu(r)
    BY Zenon DEF TypeOK, PlaceInv, PrepInv, Io, Lk, Qu, B
  <2>4. QED BY <2>1, <2>2, <2>3, OwnersNat, Zenon DEF TypeOK, PrepInv, RefInv
<1>4. QED BY <1>1, <1>2, <1>3, Zenon DEF IInv

\* PROCESS_IO: the io reference is dropped.
LEMMA SweepUnrefStep == ASSUME Assumed, IInv, SweepUnref PROVE IInv'
<1> USE NoneAssumption DEF Assumed, UserPcs, Preparing, user, per, brk, SweepUnref, DecreaseRef
<1> TypeOK /\ PlaceInv /\ SweepInv BY Zenon DEF IInv
<1>1. TypeOK' /\ PlaceInv' BY DEF TypeOK, PlaceInv, PrepInv
<1>2. SweepInv' BY Zenon DEF TypeOK, PlaceInv, SweepInv
<1>3. ASSUME NEW r \in Reqs PROVE PrepInv(r)' /\ RefInv(r)' /\ CallbackInv(r)'
  <2> PrepInv(r) /\ RefInv(r) /\ CallbackInv(r) BY <1>3, Zenon DEF IInv
  <2>1. PrepInv(r)' BY Zenon DEF TypeOK, PlaceInv, PrepInv
  <2>2. CallbackInv(r)' BY Zenon DEF TypeOK, PlaceInv, PrepInv, RefInv, Io, B, CallbackInv
  <2>3. /\ Io(r)' = (IF r = bcur THEN Io(r) - 1 ELSE Io(r))
        /\ Lk(r)' = Lk(r)
        /\ Qu(r)' = Qu(r)
    BY DEF TypeOK, PlaceInv, PrepInv, Io, Lk, Qu, B
  <2>4. CASE r = bcur
    BY <2>1, <2>2, <2>3, <2>4, OwnersNat DEF TypeOK, PrepInv, RefInv
  <2>5. CASE r # bcur
    BY <2>1, <2>2, <2>3, <2>5, OwnersNat DEF TypeOK, PrepInv, RefInv
  <2>6. QED BY <2>4, <2>5, Zenon
<1>4. QED BY <1>1, <1>2, <1>3, Zenon DEF IInv

\* PROCESS_IO: the list's reference is dropped.
LEMMA SweepLinkUnrefStep == ASSUME Assumed, IInv, SweepLinkUnref PROVE IInv'
<1> USE NoneAssumption DEF Assumed, UserPcs, Preparing, user, per, brk, SweepLinkUnref, DecreaseRef
<1> TypeOK /\ PlaceInv /\ SweepInv BY Zenon DEF IInv
<1>1. TypeOK' /\ PlaceInv' BY DEF TypeOK, PlaceInv, PrepInv
<1>2. SweepInv' BY Zenon DEF TypeOK, PlaceInv, SweepInv
<1>3. ASSUME NEW r \in Reqs PROVE PrepInv(r)' /\ RefInv(r)' /\ CallbackInv(r)'
  <2> PrepInv(r) /\ RefInv(r) /\ CallbackInv(r) BY <1>3, Zenon DEF IInv
  <2>1. PrepInv(r)' BY Zenon DEF TypeOK, PlaceInv, PrepInv
  <2>2. CallbackInv(r)' BY Zenon DEF TypeOK, PlaceInv, PrepInv, RefInv, Io, B, CallbackInv
  <2>3. /\ Io(r)' = Io(r)
        /\ Lk(r)' = (IF r = bcur THEN Lk(r) - 1 ELSE Lk(r))
        /\ Qu(r)' = Qu(r)
    BY DEF TypeOK, PlaceInv, PrepInv, Io, Lk, Qu, B
  <2>4. CASE r = bcur
    BY <2>1, <2>2, <2>3, <2>4, OwnersNat DEF TypeOK, PrepInv, RefInv
  <2>5. CASE r # bcur
    BY <2>1, <2>2, <2>3, <2>5, OwnersNat DEF TypeOK, PrepInv, RefInv
  <2>6. QED BY <2>4, <2>5, Zenon
<1>4. QED BY <1>1, <1>2, <1>3, Zenon DEF IInv

\* After the first pass the sweep starts again, after the second it is done.
LEMMA SweepEndStep == ASSUME Assumed, IInv, SweepEnd PROVE IInv'
<1> USE DEF Assumed, UserPcs, Preparing, user, per, brk, SweepEnd
<1> TypeOK /\ PlaceInv /\ SweepInv BY Zenon DEF IInv
<1>1. TypeOK' /\ PlaceInv' BY DEF TypeOK, PlaceInv, PrepInv
<1>2. SweepInv' BY Zenon DEF TypeOK, PlaceInv, SweepInv
<1>3. ASSUME NEW r \in Reqs PROVE PrepInv(r)' /\ RefInv(r)' /\ CallbackInv(r)'
  <2> PrepInv(r) /\ RefInv(r) /\ CallbackInv(r) BY <1>3, Zenon DEF IInv
  <2>1. PrepInv(r)' BY Zenon DEF TypeOK, PlaceInv, PrepInv
  <2>2. CallbackInv(r)' BY Zenon DEF TypeOK, PlaceInv, PrepInv, RefInv, Io, B, CallbackInv
  <2>3. Io(r)' = Io(r) /\ Lk(r)' = Lk(r) /\ Qu(r)' = Qu(r)
    BY Zenon DEF TypeOK, PlaceInv, PrepInv, Io, Lk, Qu, B
  <2>4. QED BY <2>1, <2>2, <2>3, OwnersNat, Zenon DEF TypeOK, PrepInv, RefInv
<1>4. QED BY <1>1, <1>2, <1>3, Zenon DEF IInv

\* A step of the thread that breaks the channel preserves the invariant.
LEMMA BrokenStep == ASSUME Assumed, IInv, Close \/ Broken PROVE IInv'
  BY CloseStep, DetachStep, SweepEraseStep, SweepMarkStep, SweepRunStep, SweepUnrefStep, SweepLinkUnrefStep, SweepEndStep, Zenon
    DEF Broken

\* mNeedStop touches no timer.
LEMMA StopStep == ASSUME Assumed, IInv, Stop PROVE IInv'
<1> USE DEF Assumed, UserPcs, Preparing, user, per, brk, Stop
<1> TypeOK /\ PlaceInv /\ SweepInv BY Zenon DEF IInv
<1>1. TypeOK' /\ PlaceInv' BY DEF TypeOK, PlaceInv, PrepInv
<1>2. SweepInv' BY Zenon DEF TypeOK, PlaceInv, SweepInv
<1>3. ASSUME NEW r \in Reqs PROVE PrepInv(r)' /\ RefInv(r)' /\ CallbackInv(r)'
  <2> PrepInv(r) /\ RefInv(r) /\ CallbackInv(r) BY <1>3, Zenon DEF IInv
  <2>1. PrepInv(r)' BY Zenon DEF TypeOK, PlaceInv, PrepInv
  <2>2. CallbackInv(r)' BY Zenon DEF TypeOK, PlaceInv, PrepInv, RefInv, Io, B, CallbackInv
  <2>3. Io(r)' = Io(r) /\ Lk(r)' = Lk(r) /\ Qu(r)' = Qu(r)
    BY Zenon DEF TypeOK, PlaceInv, PrepInv, Io, Lk, Qu, B
  <2>4. QED BY <2>1, <2>2, <2>3, OwnersNat, Zenon DEF TypeOK, PrepInv, RefInv
<1>4. QED BY <1>1, <1>2, <1>3, Zenon DEF IInv

\* The clock stands still while a sender prepares, so no timer in preparation expires.
LEMMA TickStep == ASSUME Assumed, IInv, Tick PROVE IInv'
<1> USE DEF Assumed, UserPcs, Preparing, user, per, brk, Tick, Quiet
<1> TypeOK /\ PlaceInv /\ SweepInv BY Zenon DEF IInv
<1>1. TypeOK' /\ PlaceInv' BY DEF TypeOK, PlaceInv, PrepInv
<1>2. SweepInv' BY Zenon DEF TypeOK, PlaceInv, SweepInv
<1>3. ASSUME NEW r \in Reqs PROVE PrepInv(r)' /\ RefInv(r)' /\ CallbackInv(r)'
  <2> PrepInv(r) /\ RefInv(r) /\ CallbackInv(r) BY <1>3, Zenon DEF IInv
  <2>1. PrepInv(r)' BY Zenon DEF TypeOK, PlaceInv, PrepInv
  <2>2. CallbackInv(r)' BY Zenon DEF TypeOK, PlaceInv, PrepInv, RefInv, Io, B, CallbackInv
  <2>3. Io(r)' = Io(r) /\ Lk(r)' = Lk(r) /\ Qu(r)' = Qu(r)
    BY Zenon DEF TypeOK, PlaceInv, PrepInv, Io, Lk, Qu, B
  <2>4. QED BY <2>1, <2>2, <2>3, OwnersNat, Zenon DEF TypeOK, PrepInv, RefInv
<1>4. QED BY <1>1, <1>2, <1>3, Zenon DEF IInv

\* A step of the environment preserves the invariant.
LEMMA EnvironmentStep == ASSUME Assumed, IInv, Stop \/ Tick PROVE IInv'
  BY StopStep, TickStep, Zenon

\* IInv is an invariant of every behaviour of the timers.
THEOREM Invariance == ASSUME Assumed PROVE Spec => []IInv
<1>1. IInv /\ [Next]_vars => IInv'
  <2> SUFFICES ASSUME IInv, [Next]_vars PROVE IInv'
    BY Zenon
  <2>1. CASE UNCHANGED vars
    <3> USE <2>1 DEF vars, user, per, brk
    <3>1. TypeOK' /\ PlaceInv' /\ SweepInv'
      BY DEF IInv, TypeOK, PlaceInv, SweepInv
    <3>2. ASSUME NEW r \in Reqs PROVE PrepInv(r)' /\ RefInv(r)' /\ CallbackInv(r)'
      <4> PrepInv(r) /\ RefInv(r) /\ CallbackInv(r) BY Zenon DEF IInv
      <4>1. Io(r)' = Io(r) /\ Lk(r)' = Lk(r) /\ Qu(r)' = Qu(r) BY Zenon DEF Io, Lk, Qu
      <4>2. QED BY <4>1, Zenon DEF PrepInv, RefInv, CallbackInv
    <3>3. QED
      BY <3>1, <3>2, Zenon DEF IInv
  <2>2. ASSUME NEW q \in Reqs, User(q) PROVE IInv'
    BY <2>2, UserStep, Zenon
  <2>3. ASSUME NEW q \in Reqs, Receive(q) \/ Worker(q) PROVE IInv'
    BY <2>3, WorkerStep, Zenon
  <2>4. CASE Periodic
    BY <2>4, PeriodicStep, Zenon
  <2>5. CASE Close \/ Broken
    BY <2>5, BrokenStep, Zenon
  <2>6. CASE Stop \/ Tick
    BY <2>6, EnvironmentStep, Zenon
  <2>7. QED
    BY <2>1, <2>2, <2>3, <2>4, <2>5, <2>6, Zenon DEF Next
<1>2. QED
  BY InitIInv, <1>1, PTL DEF Spec

\* The variables keep their types.
THEOREM TypeCorrect == ASSUME Assumed PROVE Spec => []TypeOK
<1>1. IInv => TypeOK
  BY Zenon DEF IInv
<1>2. QED
  BY <1>1, Invariance, PTL

\* No timer object goes back to the pool (DecreaseRef at zero, or Return after a refused
\* AddTimer) while the context store, the list, a queue or a thread still points to it.
THEOREM TimersStayAlive == ASSUME Assumed PROVE Spec => []HoldersAlive
<1>1. IInv => HoldersAlive
  <2> SUFFICES ASSUME IInv, NEW r \in Holders PROVE freed[r] = 0
    BY Zenon DEF HoldersAlive
  <2>1. r \in Reqs
    BY Zenon DEF Holders, IInv, TypeOK
  <2>2. PrepInv(r) /\ RefInv(r)
    BY <2>1, Zenon DEF IInv
  <2>3. CASE upc[r] \in Preparing
    BY <2>2, <2>3, Zenon DEF RefInv
  <2>4. CASE upc[r] \notin Preparing
    <3>1. Io(r) + Lk(r) + Qu(r) # 0
      BY <2>1, <2>4, NoneAssumption DEF Holders, Io, Lk, Qu, B, Preparing
    <3>2. QED
      BY <2>2, <3>1, Zenon DEF RefInv
  <2>5. QED
    BY <2>3, <2>4, Zenon
<1>2. QED
  BY <1>1, Invariance, PTL

\* A timer object is given back to the pool at most once.
THEOREM TimersFreedOnce == ASSUME Assumed PROVE Spec => []FreedOnce
<1>1. IInv => FreedOnce
  <2> SUFFICES ASSUME IInv, NEW r \in Reqs PROVE freed[r] <= 1
    BY Zenon DEF FreedOnce
  <2>1. RefInv(r)
    BY Zenon DEF IInv
  <2>2. QED
    BY <2>1 DEF RefInv
<1>2. QED
  BY <1>1, Invariance, PTL

\* Completion, timeout, sweep and failed post never use a callback object twice: the erase
\* from the context store picks one of them.
THEOREM CallbacksOnce == ASSUME Assumed PROVE Spec => []CallbackOnce
<1>1. IInv => CallbackOnce
  BY Zenon DEF IInv, CallbackInv, CallbackOnce
<1>2. QED
  BY <1>1, Invariance, PTL

\* After ProcessIoInBroken no request is left in the context store.
THEOREM SweepLeavesNothing == ASSUME Assumed PROVE Spec => []SweepComplete
<1>1. IInv => SweepComplete
  BY Zenon DEF IInv, TypeOK, SweepInv, SweepComplete, Preparing
<1>2. QED
  BY <1>1, Invariance, PTL

=============================================================================
