--------------------------- MODULE ShmQueueProofs ---------------------------
(***************************************************************************)
(* Proofs about ShmQueue, for any capacity, any width of the indices and   *)
(* any number of producers.  First the indices: IndexInv is inductive and  *)
(* gives Window, however many producers are killed.  Then the items:       *)
(* ItemInv adds who works on which index and what the slots hold, and      *)
(* gives Genuine and NoLoss as long as one producer is killed at most.     *)
(***************************************************************************)
EXTENDS ShmQueue, FiniteSetTheorems, TLAPS

Pcs == {"idle", "space", "cas", "write", "publish", "post", "dead"}

\* A step of a producer changes its own record only.
LEMMA GoEffect ==
  ASSUME TypeOK, NEW p \in Prods, NEW x \in Pcs, Go(p, x)
  PROVE  /\ pr' \in [Prods -> [pc : Pcs, old : Nat]]
         /\ pr'[p].pc = x /\ pr'[p].old = pr[p].old
         /\ \A q \in Prods : q # p => pr'[q] = pr[q]
BY Zenon DEF TypeOK, Go, Pcs

-----------------------------------------------------------------------------
(* The indices *)

\* The consumer has claimed one index at most, and gives it back before it claims another.
ConsInv == IF cpc \in {"test", "item", "tail"} THEN ct = cold /\ ch = cold + 1 ELSE ct = ch

\* The head a producer has read is not ahead of the free space; when the space was looked at,
\* it is in front of it, whatever the consumer freed since.  A reserved index is below the head.
SpaceInv ==
    \A p \in Prods :
        /\ At(p, "space") => pr[p].old <= ct + Cap
        /\ At(p, "cas") => pr[p].old < ct + Cap
        /\ pr[p].pc \in {"write", "publish"} => pr[p].old < ph

\* Whom the consumer kicks out does not publish any more.
KickInv ==
    /\ cpc \in {"kick", "kicked"} => pt < ph /\ ~Owned(pt)
    /\ cpc = "kick" => temp = pt
    /\ cpc = "kicked" => cold = pt

IndexInv == TypeOK /\ Window /\ ConsInv /\ SpaceInv /\ KickInv

\* The load of prod.head: what is read is not ahead of the free space at that moment.
LEMMA LoadHeadIndex == ASSUME IndexInv, NEW p \in Prods, LoadHead(p) PROVE IndexInv'
<1>1. /\ pr'[p].pc = "space" /\ pr'[p].old = ph /\ \A q \in Prods : q # p => pr'[q] = pr[q]
      /\ pr' \in [Prods -> [pc : Pcs, old : Nat]]
  BY Zenon DEF LoadHead, IndexInv, TypeOK, Pcs
<1>2. UNCHANGED <<ph, pt, ch, ct, data, sem, cons, ok, out>> BY Zenon DEF LoadHead
<1>3. TypeOK' BY <1>1, <1>2, Zenon DEF IndexInv, TypeOK, cons, Pcs
<1>4. Window' /\ ConsInv' BY <1>2, Zenon DEF IndexInv, Window, ConsInv, cons
<1>5. SpaceInv' BY <1>1, <1>2, Zenon DEF IndexInv, SpaceInv, At, Window
<1>6. KickInv' BY <1>1, <1>2, Zenon DEF IndexInv, KickInv, Owned, cons
<1>7. QED BY <1>3, <1>4, <1>5, <1>6, Zenon DEF IndexInv

\* There is space if the difference of two words is not zero.
LEMMA LoadSpaceIndex == ASSUME IndexInv, NEW p \in Prods, LoadSpace(p) PROVE IndexInv'
<1> DEFINE free == Cap + ct - pr[p].old
           x == IF Word(free) = 0 THEN "idle" ELSE "cas"
<1>1. /\ pr'[p].pc = x /\ pr'[p].old = pr[p].old
      /\ \A q \in Prods : q # p => pr'[q] = pr[q]
      /\ pr' \in [Prods -> [pc : Pcs, old : Nat]]
  BY GoEffect, Zenon DEF LoadSpace, IndexInv, Pcs
<1>2. UNCHANGED <<ph, pt, ch, ct, data, sem, cons, ok, out>> BY Zenon DEF LoadSpace
<1>3. TypeOK' BY <1>1, <1>2, Zenon DEF IndexInv, TypeOK, cons, Pcs
<1>4. Window' /\ ConsInv' BY <1>2, Zenon DEF IndexInv, Window, ConsInv, cons
<1>5. SpaceInv'
  <2>0. Word(0) = 0 BY ONLY WAssumption DEF Word
  <2>1. free \in Nat /\ (free = 0 => x = "idle")
    BY <2>0, CapAssumption DEF IndexInv, TypeOK, SpaceInv, LoadSpace, At
  <2>2. x = "cas" => pr[p].old < ct + Cap
    BY <2>1, CapAssumption DEF IndexInv, TypeOK
  <2>3. x \in {"idle", "cas"} BY Zenon
  <2> HIDE DEF x
  <2>4. QED BY <1>1, <1>2, <2>2, <2>3, Zenon DEF IndexInv, SpaceInv, At
<1>6. KickInv' BY <1>1, <1>2, Zenon DEF IndexInv, KickInv, Owned, cons
<1>7. QED BY <1>3, <1>4, <1>5, <1>6, Zenon DEF IndexInv

\* The compare-and-swap reserves the index that the space was looked at for.
LEMMA CasHeadIndex == ASSUME IndexInv, NEW p \in Prods, CasHead(p) PROVE IndexInv'
<1>1. /\ pr'[p].old = pr[p].old /\ \A q \in Prods : q # p => pr'[q] = pr[q]
      /\ pr' \in [Prods -> [pc : Pcs, old : Nat]]
      /\ \/ ph = pr[p].old /\ ph' = ph + 1 /\ pr'[p].pc = "write"
         \/ ph' = ph /\ pr'[p].pc = "idle"
  BY GoEffect, Zenon DEF CasHead, IndexInv, Pcs
<1>2. UNCHANGED <<pt, ch, ct, data, sem, cons, ok, out>> BY Zenon DEF CasHead
<1>3. TypeOK' BY <1>1, <1>2 DEF IndexInv, TypeOK, cons, Pcs
<1>4. ph' <= ct + Cap
  <2>1. pr[p].old < ct + Cap BY Zenon DEF CasHead, IndexInv, SpaceInv
  <2>2. QED BY <1>1, <2>1, CapAssumption DEF IndexInv, TypeOK, Window
<1>5. Window' /\ ConsInv' BY <1>1, <1>2, <1>4 DEF IndexInv, TypeOK, Window, ConsInv, cons
<1>6. SpaceInv' BY <1>1, <1>2 DEF IndexInv, SpaceInv, At
<1>7. KickInv'
  <2>0. ph \in Nat /\ pt \in Nat /\ pt' = pt BY <1>2, Zenon DEF IndexInv, TypeOK
  <2>1. ASSUME pt < ph, Owned(pt)' PROVE Owned(pt)
    <3>1. PICK q \in Prods : pr'[q].old = pt /\ pr'[q].pc \in {"write", "publish"}
      BY <2>0, <2>1, Zenon DEF Owned
    <3>2. q # p BY <3>1, <2>0, <2>1, <1>1
    <3>3. QED BY <3>1, <3>2, <1>1, Zenon DEF Owned
  <2>2. pt < ph => pt < ph' BY <2>0, <1>1
  <2>3. QED BY <1>2, <2>1, <2>2, Zenon DEF IndexInv, KickInv, cons
<1>8. QED BY <1>3, <1>5, <1>6, <1>7, Zenon DEF IndexInv

\* Writing the slot leaves the indices alone.
LEMMA EnqueueItemIndex == ASSUME IndexInv, NEW p \in Prods, EnqueueItem(p) PROVE IndexInv'
<1>1. /\ pr'[p].pc = "publish" /\ pr'[p].old = pr[p].old
      /\ \A q \in Prods : q # p => pr'[q] = pr[q]
      /\ pr' \in [Prods -> [pc : Pcs, old : Nat]] /\ pr[p].pc = "write"
  BY GoEffect, Zenon DEF EnqueueItem, IndexInv, Pcs, At
<1>2. UNCHANGED <<ph, pt, ch, ct, sem, cons, ok, out>> BY Zenon DEF EnqueueItem
<1>3. data' \in [0 .. Cap - 1 -> Nat \cup {None}]
  BY Zenon DEF EnqueueItem, IndexInv, TypeOK
<1>4. TypeOK' BY <1>1, <1>2, <1>3, Zenon DEF IndexInv, TypeOK, cons, Pcs
<1>5. Window' /\ ConsInv' BY <1>2, Zenon DEF IndexInv, Window, ConsInv, cons
<1>6. SpaceInv' BY <1>1, <1>2, Zenon DEF IndexInv, SpaceInv, At
<1>7. KickInv' BY <1>1, <1>2, Zenon DEF IndexInv, KickInv, Owned, cons
<1>8. QED BY <1>4, <1>5, <1>6, <1>7, Zenon DEF IndexInv

\* Who publishes owns the index at prod.tail: it is not being kicked out.
LEMMA PublishIndex == ASSUME IndexInv, NEW p \in Prods, Publish(p) PROVE IndexInv'
<1>1. /\ pr'[p].pc \in {"post", "idle"} /\ pr'[p].old = pr[p].old
      /\ \A q \in Prods : q # p => pr'[q] = pr[q]
      /\ pr' \in [Prods -> [pc : Pcs, old : Nat]]
      /\ pt' = pt + 1 /\ ok' = ok \cup {pt}
  BY GoEffect, Zenon DEF Publish, IndexInv, Pcs
<1>2. UNCHANGED <<ph, ch, ct, data, sem, cons, out>> BY Zenon DEF Publish
<1>3. TypeOK'
  <2>0. pt \in Nat /\ ok \subseteq Nat BY Zenon DEF IndexInv, TypeOK
  <2>1. pt' \in Nat /\ ok' \subseteq Nat BY ONLY <1>1, <2>0
  <2>2. QED BY <1>1, <1>2, <2>1 DEF IndexInv, TypeOK, cons, Pcs
<1>4. Window' /\ ConsInv'
  <2>1. pt < ph BY Zenon DEF Publish, At, IndexInv, SpaceInv
  <2>2. QED BY <1>1, <1>2, <2>1 DEF IndexInv, TypeOK, Window, ConsInv, cons
<1>5. SpaceInv' BY <1>1, <1>2, Zenon DEF IndexInv, SpaceInv, At
<1>6. Owned(pt) BY Zenon DEF Publish, At, Owned
<1>7. KickInv' BY <1>2, <1>6, Zenon DEF IndexInv, KickInv, cons
<1>8. QED BY <1>3, <1>4, <1>5, <1>7, Zenon DEF IndexInv

\* Steps of a producer that only change where it stands: it gives up, posts, or is killed.
LEMMA LeaveIndex ==
  ASSUME IndexInv, NEW p \in Prods, NEW x \in {"idle", "dead"}, Go(p, x), sem' \in Nat,
         UNCHANGED <<ph, pt, ch, ct, data, cons, ok, out>>
  PROVE  IndexInv'
<1>1. /\ pr'[p].pc = x /\ pr'[p].old = pr[p].old
      /\ \A q \in Prods : q # p => pr'[q] = pr[q]
      /\ pr' \in [Prods -> [pc : Pcs, old : Nat]]
  BY GoEffect, Zenon DEF IndexInv, Pcs
<1>2. TypeOK' BY <1>1 DEF IndexInv, TypeOK, cons, Pcs
<1>3. Window' /\ ConsInv' BY Zenon DEF IndexInv, Window, ConsInv, cons
<1>4. SpaceInv' BY <1>1, Zenon DEF IndexInv, SpaceInv, At
<1>5. KickInv' BY <1>1, Zenon DEF IndexInv, KickInv, Owned, cons
<1>6. QED BY <1>2, <1>3, <1>4, <1>5, Zenon DEF IndexInv

\* The worker suspects the index at prod.tail, which is reserved, and kicks out nobody who is
\* still working on it.
LEMMA CheckIndex == ASSUME Prompt, IndexInv, Check PROVE IndexInv'
<1>1. /\ cpc = "check" /\ cpc' \in {"wait", "kick"} /\ temp' \in {temp, pt, None}
      /\ cpc' = "kick" => temp' = pt /\ ~Owned(pt) /\ Word(ph) > Word(pt)
  BY Zenon DEF Check
<1>2. UNCHANGED <<ph, pt, ch, ct, data, sem, pr, cold, failed, ok, out>> BY Zenon DEF Check
<1>3. cpc' = "kick" => pt < ph
  <2>1. cpc' = "kick" => pt # ph
    <3>1. Word(ph) \in Int /\ Word(pt) \in Int
      BY WAssumption DEF IndexInv, TypeOK, Word
    <3>2. QED BY <1>1, <3>1
  <2>2. QED BY <2>1 DEF IndexInv, TypeOK, Window
<1>4. TypeOK' BY <1>1, <1>2, Zenon DEF IndexInv, TypeOK
<1>5. Window' /\ ConsInv' BY <1>1, <1>2, Zenon DEF IndexInv, Window, ConsInv
<1>6. SpaceInv' BY <1>2, Zenon DEF IndexInv, SpaceInv, At
<1>7. KickInv' BY <1>1, <1>2, <1>3, Zenon DEF KickInv, Owned
<1>8. QED BY <1>4, <1>5, <1>6, <1>7, Zenon DEF IndexInv

\* The load of prod.tail++ remembers the index of the killed producer.
LEMMA KickLoadIndex == ASSUME IndexInv, KickLoad PROVE IndexInv'
<1>1. cpc = "kick" /\ cpc' = "kicked" /\ failed' = temp /\ temp' = None /\ cold' = pt
  BY Zenon DEF KickLoad
<1>2. UNCHANGED <<ph, pt, ch, ct, data, sem, pr, ok, out>> BY Zenon DEF KickLoad
<1>3. TypeOK' BY <1>1, <1>2, Zenon DEF IndexInv, TypeOK
<1>4. Window' /\ ConsInv' BY <1>1, <1>2, Zenon DEF IndexInv, Window, ConsInv
<1>5. SpaceInv' BY <1>2, Zenon DEF IndexInv, SpaceInv, At
<1>6. KickInv' BY <1>1, <1>2, Zenon DEF IndexInv, KickInv, Owned
<1>7. QED BY <1>3, <1>4, <1>5, <1>6, Zenon DEF IndexInv

\* prod.tail is what it was when it was loaded.
LEMMA KickStoreIndex == ASSUME IndexInv, KickStore PROVE IndexInv'
<1>1. cpc = "kicked" /\ cpc' = "wait" /\ pt' = pt + 1 /\ pt < ph
  BY Zenon DEF KickStore, IndexInv, KickInv
<1>2. UNCHANGED <<ph, ch, ct, data, sem, pr, cold, temp, failed, ok, out>> BY Zenon DEF KickStore
<1>3. TypeOK' BY <1>1, <1>2 DEF IndexInv, TypeOK
<1>4. Window' /\ ConsInv' BY <1>1, <1>2 DEF IndexInv, TypeOK, Window, ConsInv
<1>5. SpaceInv' BY <1>2, Zenon DEF IndexInv, SpaceInv, At
<1>6. KickInv' BY <1>1, Zenon DEF KickInv
<1>7. QED BY <1>3, <1>4, <1>5, <1>6, Zenon DEF IndexInv

\* The wait on the semaphore.
LEMMA WaitIndex == ASSUME IndexInv, Wait PROVE IndexInv'
<1>1. cpc = "wait" /\ cpc' \in {"deq", "check"} BY Zenon DEF Wait
<1>2. sem' \in Nat
  <2>1. sem \in Nat BY Zenon DEF IndexInv, TypeOK
  <2>2. sem' = sem \/ (sem > 0 /\ sem' = sem - 1) BY Zenon DEF Wait
  <2>3. QED BY ONLY <2>1, <2>2
<1>3. UNCHANGED <<ph, pt, ch, ct, data, pr, cold, temp, failed, ok, out>> BY Zenon DEF Wait
<1>4. TypeOK' BY <1>1, <1>2, <1>3, Zenon DEF IndexInv, TypeOK
<1>5. Window' /\ ConsInv' BY <1>1, <1>3, Zenon DEF IndexInv, Window, ConsInv
<1>6. SpaceInv' BY <1>3, Zenon DEF IndexInv, SpaceInv, At
<1>7. KickInv' BY <1>1, Zenon DEF KickInv
<1>8. QED BY <1>4, <1>5, <1>6, <1>7, Zenon DEF IndexInv

\* RequestDequeue claims one published index.
LEMMA RequestIndex ==
  ASSUME IndexInv, NEW x \in {"test", "item"}, cpc \in {"deq", "deq2"}, Request(x)
  PROVE  IndexInv'
<1>1. \/ cpc' = "check" /\ ch' = ch /\ cold' = cold
      \/ cpc' = x /\ ch' = ch + 1 /\ cold' = ch /\ pt # ch
  BY Zenon DEF Request
<1>2. UNCHANGED <<ph, pt, ct, data, sem, pr, temp, failed, ok, out>> BY Zenon DEF Request
<1>3. ct = ch /\ ch <= pt /\ pt \in Nat /\ ch \in Nat /\ cold \in Nat
  BY Zenon DEF IndexInv, ConsInv, Window, TypeOK
<1>4. ch' \in Nat /\ cold' \in Nat /\ cpc' \in {"check", "test", "item"} BY <1>1, <1>3
<1>5. TypeOK' BY <1>2, <1>4, Zenon DEF IndexInv, TypeOK
<1>6. Window' /\ ConsInv' BY <1>1, <1>2, <1>3 DEF IndexInv, Window, ConsInv
<1>7. SpaceInv' BY <1>2, Zenon DEF IndexInv, SpaceInv, At
<1>8. KickInv' BY <1>4, Zenon DEF KickInv
<1>9. QED BY <1>5, <1>6, <1>7, <1>8, Zenon DEF IndexInv

\* The claimed index is given back: skipped, or read and counted in cons.tail.
LEMMA FreeIndex ==
  ASSUME IndexInv, cpc \in {"test", "tail"}, ct' = cold + 1, cpc' \in {"deq2", "check"},
         UNCHANGED <<ph, pt, ch, data, sem, pr, cold, temp, failed, ok, out>>
  PROVE  IndexInv'
<1>1. ct = cold /\ ch = cold + 1 /\ cold \in Nat BY Zenon DEF IndexInv, ConsInv, TypeOK
<1>2. TypeOK' BY <1>1, Zenon DEF IndexInv, TypeOK
<1>3. Window' /\ ConsInv' BY <1>1, CapAssumption DEF IndexInv, TypeOK, Window, ConsInv
<1>4. SpaceInv'
  <2>1. ASSUME NEW p \in Prods
        PROVE  /\ At(p, "space") => pr[p].old <= ct + 1 + Cap
               /\ At(p, "cas") => pr[p].old < ct + 1 + Cap
               /\ pr[p].pc \in {"write", "publish"} => pr[p].old < ph
    BY <1>1, CapAssumption DEF IndexInv, TypeOK, SpaceInv
  <2>2. QED BY <1>1, <2>1, Zenon DEF SpaceInv, At
<1>5. KickInv' BY Zenon DEF KickInv
<1>6. QED BY <1>2, <1>3, <1>4, <1>5, Zenon DEF IndexInv

\* The item at the claimed index is read.
LEMMA DequeueItemIndex == ASSUME IndexInv, DequeueItem PROVE IndexInv'
<1>1. cpc \in {"item", "test"} /\ cpc' = "tail" /\ out' = out \cup {<<cold, data[Slot(cold)]>>}
  BY Zenon DEF DequeueItem
<1>2. UNCHANGED <<ph, pt, ch, ct, data, sem, pr, cold, temp, failed, ok>> BY Zenon DEF DequeueItem
<1>3. out' \subseteq Nat \X (Nat \cup {None})
  <2>1. cold \in Nat /\ out \subseteq Nat \X (Nat \cup {None}) BY Zenon DEF IndexInv, TypeOK
  <2>2. Slot(cold) \in 0 .. Cap - 1 BY ONLY <2>1, CapAssumption DEF Slot
  <2>3. data[Slot(cold)] \in Nat \cup {None} BY <2>2, Zenon DEF IndexInv, TypeOK
  <2>4. QED BY ONLY <1>1, <2>1, <2>3
<1>4. TypeOK' BY <1>1, <1>2, <1>3, Zenon DEF IndexInv, TypeOK
<1>5. Window' /\ ConsInv' BY <1>1, <1>2, Zenon DEF IndexInv, Window, ConsInv
<1>6. SpaceInv' BY <1>2, Zenon DEF IndexInv, SpaceInv, At
<1>7. KickInv' BY <1>1, Zenon DEF KickInv
<1>8. QED BY <1>4, <1>5, <1>6, <1>7, Zenon DEF IndexInv

\* Both directions, and a queue that nobody has used.
LEMMA IndexStep == ASSUME Prompt PROVE (Init => IndexInv) /\ (IndexInv /\ [Next]_vars => IndexInv')
<1>1. Init => IndexInv
  <2>1. SUFFICES ASSUME Init PROVE IndexInv BY Zenon
  <2>2. /\ ph = 0 /\ pt = 0 /\ ch = 0 /\ ct = 0 /\ sem = 0 /\ cold = 0 /\ cpc = "check"
        /\ data = [s \in 0 .. Cap - 1 |-> None]
        /\ pr = [p \in Prods |-> [pc |-> "idle", old |-> 0]]
        /\ temp = None /\ failed = None /\ ok = {} /\ out = {}
    BY <2>1, Zenon DEF Init
  <2>3. \A p \in Prods : pr[p].pc = "idle" BY <2>2, Zenon
  <2>4. SpaceInv BY <2>3, Zenon DEF SpaceInv, At
  <2>5. KickInv BY <2>2, Zenon DEF KickInv
  <2>6. Window /\ ConsInv BY <2>2, CapAssumption DEF Window, ConsInv
  <2>7. TypeOK BY <2>2 DEF TypeOK
  <2>8. QED BY <2>4, <2>5, <2>6, <2>7, Zenon DEF IndexInv
<1>2. ASSUME IndexInv, [Next]_vars PROVE IndexInv'
  <2>1. CASE UNCHANGED vars
    BY <2>1, <1>2, Zenon
      DEF vars, cons, IndexInv, TypeOK, Window, ConsInv, SpaceInv, KickInv, At, Owned
  <2>2. CASE Consumer
    <3>1. CASE Dequeue \/ DequeueNext BY <3>1, <1>2, RequestIndex, Zenon DEF Dequeue, DequeueNext
    <3>2. CASE Skip \/ UpdateConsTail BY <3>2, <1>2, FreeIndex, Zenon DEF Skip, UpdateConsTail
    <3>3. QED
      BY <2>2, <3>1, <3>2, <1>2, CheckIndex, KickLoadIndex, KickStoreIndex, WaitIndex,
         DequeueItemIndex, Zenon DEF Consumer
  <2>3. ASSUME NEW p \in Prods, Producer(p) \/ Die(p) PROVE IndexInv'
    <3>1. sem \in Nat BY <1>2, Zenon DEF IndexInv, TypeOK
    <3>2. CASE PublishTimeout(p) BY <3>1, <3>2, <1>2, LeaveIndex, Zenon DEF PublishTimeout
    <3>3. CASE Post(p) BY <3>1, <3>3, <1>2, LeaveIndex DEF Post
    <3>4. CASE Die(p) BY <3>1, <3>4, <1>2, LeaveIndex, Zenon DEF Die
    <3>5. QED
      BY <2>3, <3>2, <3>3, <3>4, <1>2, LoadHeadIndex, LoadSpaceIndex, CasHeadIndex,
         EnqueueItemIndex, PublishIndex, Zenon DEF Producer
  <2>4. QED BY <1>2, <2>1, <2>2, <2>3, Zenon DEF Next
<1>3. QED BY <1>1, <1>2, Zenon

\* The four indices never overtake each other and no more than the capacity is reserved, for
\* any capacity and width of the words, however many producers are killed: RequestProduceSpace
\* may start from a stale head, UpdateProdTail and the consumer's prod.tail++ move the same
\* index without a lock.
THEOREM IndicesInWindow == ASSUME Prompt PROVE Spec => []Window
<1>1. Init => IndexInv BY IndexStep, Zenon
<1>2. IndexInv /\ [Next]_vars => IndexInv' BY IndexStep, Zenon
<1>3. IndexInv => Window BY Zenon DEF IndexInv
<1>4. QED BY <1>1, <1>2, <1>3, PTL DEF Spec

-----------------------------------------------------------------------------
(* The items *)

Dead(p) == At(p, "dead")
Holder(p) == pr[p].pc \in {"write", "publish"}

\* A reserved index has one producer that works on it, and lies where the consumer does not
\* read; before it is published its slot is written.
OwnInv ==
    /\ \A p \in Prods : Holder(p) => pt <= pr[p].old
    /\ \A p, q \in Prods : Holder(p) /\ Holder(q) /\ pr[p].old = pr[q].old => p = q
    /\ \A p \in Prods : At(p, "publish") => data[Slot(pr[p].old)] = pr[p].old

\* An unpublished index that nobody works on is the one of the killed producer.
HoleInv ==
    /\ \A i \in pt .. ph - 1 : Owned(i) \/ \E p \in Prods : Dead(p) /\ pr[p].old = i
    /\ \A p, q \in Prods : Dead(p) /\ Dead(q) => p = q

\* mFailedProd is the index of the killed producer: it was never published, and prod.tail is
\* past it as soon as the consumer has stored it.
FailInv ==
    failed # None =>
        /\ \E p \in Prods : Dead(p) /\ pr[p].old = failed
        /\ failed < pt \/ (cpc = "kicked" /\ failed = pt)
        /\ failed \notin ok

\* What the consumer may read has been written, the failed index excepted.
DataInv == \A i \in ct .. pt - 1 : i = failed \/ data[Slot(i)] = i

\* The consumer is past the failed index when it asks for the next one.
SkipInv ==
    /\ cpc = "kicked" => failed = pt
    /\ cpc = "deq2" => failed # None /\ failed < ch
    /\ cpc = "item" => cold # failed

\* An item is below prod.tail when its Enqueue has returned.
OkInv == \A i \in ok : i < pt

ItemInv == IndexInv /\ OwnInv /\ HoleInv /\ FailInv /\ DataInv /\ SkipInv /\ OkInv
           /\ Genuine /\ NoLoss

\* Two indices that are less than the capacity apart have different slots.
LEMMA SlotsDiffer ==
  ASSUME NEW a \in Nat, NEW b \in Nat, a < b, b < a + Cap PROVE Slot(a) # Slot(b)
<1> DEFINE k == b \div Cap - a \div Cap
<1>1. SUFFICES ASSUME a % Cap = b % Cap PROVE FALSE BY Zenon DEF Slot
<1>2. /\ a \div Cap \in Int /\ a = Cap * (a \div Cap) + (a % Cap)
      /\ b \div Cap \in Int /\ b = Cap * (b \div Cap) + (b % Cap)
      /\ a % Cap \in Int
  BY CapAssumption
<1>3. k \in Int BY <1>2
<1>4. Cap * k = Cap * (b \div Cap) - Cap * (a \div Cap) BY <1>2, CapAssumption
<1>5. b - a = Cap * k BY <1>1, <1>2, <1>4, CapAssumption
<1> HIDE DEF k
<1>6. k >= 1 => Cap * k >= Cap BY <1>3, CapAssumption
<1>7. k <= 0 => Cap * k <= 0 BY <1>3, CapAssumption
<1>8. QED BY <1>3, <1>5, <1>6, <1>7, CapAssumption

\* Steps of a producer without a reserved index, before and after.
LEMMA QuietItem ==
  ASSUME ItemInv, IndexInv', NEW p \in Prods,
         pr[p].pc \notin {"write", "publish", "dead"}, pr'[p].pc \notin {"write", "publish", "dead"},
         \A q \in Prods : q # p => pr'[q] = pr[q],
         UNCHANGED <<ph, pt, ch, ct, data, cons, ok, out>>
  PROVE  ItemInv'
<1>1. \A q \in Prods : Holder(q) \/ Holder(q)' \/ Dead(q) \/ Dead(q)' => pr'[q] = pr[q]
  BY Zenon DEF Holder, Dead, At
<1>2. \A q \in Prods : (Holder(q)' <=> Holder(q)) /\ (Dead(q)' <=> Dead(q))
  BY <1>1, Zenon DEF Holder, Dead, At
<1>3. \A q \in Prods : At(q, "publish")' => At(q, "publish") /\ pr'[q] = pr[q]
  BY <1>1, Zenon DEF Holder, At
<1>4. OwnInv' BY <1>1, <1>2, <1>3, Zenon DEF ItemInv, OwnInv
<1>5. \A i : Owned(i)' <=> Owned(i) BY <1>1, <1>2, Zenon DEF Owned, Holder
<1>6. HoleInv' BY <1>1, <1>2, <1>5, Zenon DEF ItemInv, HoleInv
<1>7. FailInv' BY <1>1, <1>2, Zenon DEF ItemInv, FailInv, cons
<1>8. DataInv' /\ SkipInv' /\ OkInv' /\ Genuine' /\ NoLoss'
  BY Zenon DEF ItemInv, DataInv, SkipInv, OkInv, Genuine, NoLoss, cons
<1>9. QED BY <1>4, <1>6, <1>7, <1>8, Zenon DEF ItemInv

\* The compare-and-swap that succeeds makes a producer the only one with that index.
LEMMA ReserveItem ==
  ASSUME ItemInv, IndexInv', NEW p \in Prods, CasHead(p), ph = pr[p].old PROVE ItemInv'
<1>1. /\ pr'[p].pc = "write" /\ pr'[p].old = ph /\ pr[p].pc = "cas" /\ ph' = ph + 1
      /\ \A q \in Prods : q # p => pr'[q] = pr[q]
  BY GoEffect, Zenon DEF CasHead, At, ItemInv, IndexInv, Pcs
<1>2. UNCHANGED <<pt, ch, ct, data, sem, cons, ok, out>> BY Zenon DEF CasHead
<1>3. ph \in Nat /\ pt \in Nat /\ pt <= ph BY Zenon DEF ItemInv, IndexInv, TypeOK, Window
<1>4. \A q \in Prods : Holder(q)' => q = p \/ (Holder(q) /\ pr'[q] = pr[q] /\ pr[q].old # ph)
  BY <1>1, <1>3 DEF Holder, ItemInv, IndexInv, SpaceInv
<1>5. \A q \in Prods : At(q, "publish")' => At(q, "publish") /\ pr'[q] = pr[q]
  BY <1>1, Zenon DEF At
<1>6. \A q \in Prods : (Dead(q)' <=> Dead(q)) /\ (Dead(q) => pr'[q] = pr[q])
  BY <1>1, Zenon DEF Dead, At
<1>7. OwnInv'
  <2>1. \A q \in Prods : Holder(q)' => pt' <= pr'[q].old
    BY <1>1, <1>2, <1>3, <1>4, Zenon DEF ItemInv, OwnInv
  <2>2. \A q, r \in Prods : Holder(q)' /\ Holder(r)' /\ pr'[q].old = pr'[r].old => q = r
    BY <1>1, <1>4 DEF ItemInv, OwnInv
  <2>3. QED BY <1>2, <1>5, <2>1, <2>2, Zenon DEF ItemInv, OwnInv
<1>8. HoleInv'
  <2>1. ASSUME NEW i \in pt' .. ph' - 1
        PROVE  Owned(i)' \/ \E q \in Prods : Dead(q)' /\ pr'[q].old = i
    <3>1. CASE i = ph BY <3>1, <1>1, Zenon DEF Owned
    <3>2. CASE i \in pt .. ph - 1
      <4>1. Owned(i) => Owned(i)' BY <1>1, Zenon DEF Owned
      <4>2. QED BY <3>2, <4>1, <1>6, Zenon DEF ItemInv, HoleInv
    <3>3. QED BY <3>1, <3>2, <1>1, <1>2, <1>3
  <2>2. QED BY <2>1, <1>6, Zenon DEF ItemInv, HoleInv
<1>9. FailInv' BY <1>2, <1>6, Zenon DEF ItemInv, FailInv, cons
<1>10. DataInv' /\ SkipInv' /\ OkInv' /\ Genuine' /\ NoLoss'
  BY <1>2, Zenon DEF ItemInv, DataInv, SkipInv, OkInv, Genuine, NoLoss, cons
<1>11. QED BY <1>7, <1>8, <1>9, <1>10, Zenon DEF ItemInv

\* Writing a slot spoils neither what the consumer may read nor what another producer wrote.
LEMMA WriteItem == ASSUME ItemInv, IndexInv', NEW p \in Prods, EnqueueItem(p) PROVE ItemInv'
<1> DEFINE o == pr[p].old
<1>1. /\ pr'[p].pc = "publish" /\ pr'[p].old = o /\ pr[p].pc = "write"
      /\ \A q \in Prods : q # p => pr'[q] = pr[q]
  BY GoEffect, Zenon DEF EnqueueItem, At, ItemInv, IndexInv, Pcs
<1>2. UNCHANGED <<ph, pt, ch, ct, sem, cons, ok, out>> BY Zenon DEF EnqueueItem
<1>3. /\ ph \in Nat /\ pt \in Nat /\ ct \in Nat /\ o \in Nat /\ pt <= o /\ o < ph
      /\ ph <= ct + Cap /\ ct <= pt
  <2>1. Holder(p) BY <1>1, Zenon DEF Holder
  <2>2. ph \in Nat /\ pt \in Nat /\ ct \in Nat /\ ch \in Nat /\ o \in Nat
    BY Zenon DEF ItemInv, IndexInv, TypeOK
  <2>3. pt <= o /\ o < ph BY <2>1, Zenon DEF ItemInv, IndexInv, SpaceInv, OwnInv, Holder
  <2>4. ct <= ch /\ ch <= pt /\ ph <= ct + Cap BY Zenon DEF ItemInv, IndexInv, Window
  <2>5. QED BY <2>2, <2>3, <2>4
<1>4. \A q \in Prods : (Holder(q)' <=> Holder(q)) /\ (Dead(q)' <=> Dead(q)) /\ pr'[q].old = pr[q].old
  BY <1>1, Zenon DEF Holder, Dead, At
<1> HIDE DEF o
<1>5. \A i \in ct .. ph - 1 : i # o => data'[Slot(i)] = data[Slot(i)]
  <2>1. ASSUME NEW i \in ct .. ph - 1, i # o PROVE Slot(i) # Slot(o)
    <3>1. i \in Nat BY <1>3
    <3>2. CASE i < o BY <3>1, <3>2, <1>3, SlotsDiffer, CapAssumption
    <3>3. CASE o < i
      <4>1. i < o + Cap BY <3>1, <3>3, <1>3, CapAssumption
      <4>2. QED BY <3>1, <3>3, <4>1, <1>3, SlotsDiffer, Zenon
    <3>4. QED BY <2>1, <3>1, <3>2, <3>3, <1>3
  <2>2. data' = [data EXCEPT ![Slot(o)] = o] BY Zenon DEF EnqueueItem, o
  <2>3. data \in [0 .. Cap - 1 -> Nat \cup {None}] BY Zenon DEF ItemInv, IndexInv, TypeOK
  <2>4. \A i \in Nat : Slot(i) \in 0 .. Cap - 1 BY CapAssumption DEF Slot
  <2>5. QED BY <2>1, <2>2, <2>3, <2>4, <1>3
<1>6. data'[Slot(o)] = o
  <2>1. Slot(o) \in 0 .. Cap - 1 BY <1>3, CapAssumption DEF Slot
  <2>2. QED BY <2>1, Zenon DEF EnqueueItem, o, ItemInv, IndexInv, TypeOK
<1>7. OwnInv'
  <2>1. ASSUME NEW q \in Prods, At(q, "publish")' PROVE data'[Slot(pr'[q].old)] = pr'[q].old
    <3>1. CASE q = p BY <3>1, <1>1, <1>6, Zenon
    <3>2. CASE q # p
      <4>1. At(q, "publish") /\ Holder(q) /\ Holder(p) BY <2>1, <3>2, <1>1, Zenon DEF At, Holder
      <4>2. pr[q].old # o BY <3>2, <4>1, Zenon DEF o, ItemInv, OwnInv
      <4>3. pr[q].old \in ct .. ph - 1
        <5>1. pr[q].old \in Nat BY Zenon DEF ItemInv, IndexInv, TypeOK
        <5>2. pt <= pr[q].old /\ pr[q].old < ph
          BY <4>1, Zenon DEF ItemInv, IndexInv, SpaceInv, OwnInv, Holder
        <5>3. QED BY <5>1, <5>2, <1>3
      <4>4. QED BY <3>2, <4>1, <4>2, <4>3, <1>1, <1>5, Zenon DEF ItemInv, OwnInv
    <3>3. QED BY <3>1, <3>2, Zenon
  <2>2. QED BY <1>2, <1>4, <2>1, Zenon DEF ItemInv, OwnInv
<1>8. \A i : Owned(i)' <=> Owned(i) BY <1>4, Zenon DEF Owned, Holder
<1>9. HoleInv' BY <1>2, <1>4, <1>8, Zenon DEF ItemInv, HoleInv
<1>10. FailInv' BY <1>2, <1>4, Zenon DEF ItemInv, FailInv, cons
<1>11. DataInv'
  <2>1. \A i \in ct .. pt - 1 : i \in ct .. ph - 1 /\ i # o BY <1>3
  <2>2. QED BY <2>1, <1>2, <1>5, Zenon DEF ItemInv, DataInv, cons
<1>12. SkipInv' /\ OkInv' /\ Genuine' /\ NoLoss'
  BY <1>2, Zenon DEF ItemInv, SkipInv, OkInv, Genuine, NoLoss, cons
<1>13. QED BY <1>7, <1>9, <1>10, <1>11, <1>12, Zenon DEF ItemInv

\* UpdateProdTail publishes a slot that is written, and never the failed index.
LEMMA PublishItem == ASSUME ItemInv, IndexInv', NEW p \in Prods, Publish(p) PROVE ItemInv'
<1>1. /\ pr'[p].pc \in {"post", "idle"} /\ pr[p].pc = "publish" /\ pr[p].old = pt
      /\ \A q \in Prods : q # p => pr'[q] = pr[q]
      /\ pt' = pt + 1 /\ ok' = ok \cup {pt}
  BY GoEffect, Zenon DEF Publish, At, ItemInv, IndexInv, Pcs
<1>2. UNCHANGED <<ph, ch, ct, data, sem, cons, out>> BY Zenon DEF Publish
<1>3. ph \in Nat /\ pt \in Nat /\ ct \in Nat /\ ch \in Nat /\ ch <= pt /\ ok \subseteq Nat
  BY Zenon DEF ItemInv, IndexInv, TypeOK, Window
<1>4. \A q \in Prods : /\ Holder(q)' => Holder(q) /\ pr'[q] = pr[q] /\ pr[q].old # pt
                       /\ At(q, "publish")' => At(q, "publish") /\ pr'[q] = pr[q]
                       /\ Dead(q)' <=> Dead(q)
                       /\ Dead(q) => pr'[q] = pr[q]
  BY <1>1, Zenon DEF Holder, Dead, At, ItemInv, OwnInv
<1>5. Owned(pt) /\ data[Slot(pt)] = pt BY <1>1, Zenon DEF Owned, At, ItemInv, OwnInv
<1>6. OwnInv'
  <2>1. ASSUME NEW q \in Prods, Holder(q)' PROVE pt' <= pr'[q].old
    <3>1. pt <= pr[q].old /\ pr[q].old # pt /\ pr'[q] = pr[q] BY <2>1, <1>4, Zenon
      DEF ItemInv, OwnInv
    <3>2. pr[q].old \in Nat BY Zenon DEF ItemInv, IndexInv, TypeOK
    <3>3. QED BY <3>1, <3>2, <1>1, <1>3
  <2>2. QED BY <1>2, <1>4, <2>1, Zenon DEF ItemInv, OwnInv
<1>7. HoleInv'
  <2>1. ASSUME NEW i \in pt' .. ph' - 1
        PROVE  Owned(i)' \/ \E q \in Prods : Dead(q)' /\ pr'[q].old = i
    <3>1. i \in pt .. ph - 1 /\ i # pt BY <1>1, <1>2, <1>3
    <3>2. Owned(i) => Owned(i)' BY <3>1, <1>1, Zenon DEF Owned
    <3>3. QED BY <3>1, <3>2, <1>4, Zenon DEF ItemInv, HoleInv
  <2>2. QED BY <2>1, <1>4, Zenon DEF ItemInv, HoleInv
<1>8. cpc # "kicked" BY <1>5, Zenon DEF ItemInv, IndexInv, KickInv
<1>9. FailInv'
  <2>1. failed # None => failed \in Nat /\ failed < pt BY <1>8, Zenon
    DEF ItemInv, IndexInv, TypeOK, FailInv
  <2>2. failed # None => failed < pt' /\ failed \notin ok'
    BY <2>1, <1>1, <1>3 DEF ItemInv, FailInv
  <2>3. QED BY <2>2, <1>2, <1>4, Zenon DEF ItemInv, FailInv, cons
<1>10. DataInv'
  <2>1. \A i \in ct .. pt' - 1 : i = pt \/ i \in ct .. pt - 1 BY <1>1, <1>3
  <2>2. QED BY <2>1, <1>2, <1>5, Zenon DEF ItemInv, DataInv, cons
<1>11. SkipInv' BY <1>2, <1>8, Zenon DEF ItemInv, SkipInv, cons
<1>12. OkInv' BY <1>1, <1>3 DEF ItemInv, OkInv
<1>13. Genuine' BY <1>2, Zenon DEF ItemInv, Genuine
<1>14. NoLoss'
  <2>1. \A i \in ok' : i \in ok \/ (ch <= i /\ i < pt') BY <1>1, <1>3
  <2>2. \A i \in ok : i < pt => i < pt' BY <1>1, <1>3
  <2>3. QED BY <2>1, <2>2, <1>2, Zenon DEF ItemInv, NoLoss, cons
<1>15. QED
  BY <1>6, <1>7, <1>9, <1>10, <1>11, <1>12, <1>13, <1>14, Zenon DEF ItemInv

\* Nobody gives up: at most one index in front of a producer has no owner, and that one is
\* kicked out before mMaxEnqueueTimeout is over.
LEMMA NoTimeout == ASSUME Prompt, ItemInv, NEW p \in Prods PROVE ~PublishTimeout(p)
<1> DEFINE U == {i \in pt .. pr[p].old - 1 : ~Owned(i)}
<1>1. SUFFICES ASSUME PublishTimeout(p) PROVE FALSE BY Zenon
<1>2. Cardinality(U) > 1 BY <1>1, Zenon DEF PublishTimeout
<1>3. pt \in Nat /\ ph \in Nat /\ pr[p].old \in Nat /\ pr[p].old < ph
  BY <1>1, Zenon DEF PublishTimeout, At, ItemInv, IndexInv, TypeOK, SpaceInv
<1>4. \A i \in U : \E q \in Prods : Dead(q) /\ pr[q].old = i
  <2>1. \A i \in U : i \in pt .. ph - 1 /\ ~Owned(i) BY <1>3
  <2>2. QED BY <2>1, Zenon DEF ItemInv, HoleInv
<1>5. \A i, j \in U : i = j
  <2>1. TAKE i, j \in U
  <2>2. PICK q \in Prods : Dead(q) /\ pr[q].old = i BY <1>4, Zenon
  <2>3. PICK r \in Prods : Dead(r) /\ pr[r].old = j BY <1>4, Zenon
  <2>4. q = r BY <2>2, <2>3, Zenon DEF ItemInv, HoleInv
  <2>5. QED BY <2>2, <2>3, <2>4, Zenon
<1> HIDE DEF U
<1>6. CASE U = {} BY <1>2, <1>6, FS_EmptySet
<1>7. CASE U # {}
  <2>1. PICK i : i \in U BY <1>7, Zenon
  <2>2. U = {i} BY <2>1, <1>5, Zenon
  <2>3. Cardinality(U) = 1 BY <2>2, FS_Singleton, Zenon
  <2>4. QED BY <2>3, <1>2
<1>8. QED BY <1>6, <1>7, Zenon

\* The producer that is killed is the only one, and leaves at most one index without an owner.
LEMMA DieItem ==
  ASSUME MaxDeaths <= 1, ItemInv, IndexInv', NEW p \in Prods, Die(p) PROVE ItemInv'
<1>1. /\ pr'[p].pc = "dead" /\ pr'[p].old = pr[p].old
      /\ \A q \in Prods : q # p => pr'[q] = pr[q]
  BY GoEffect, Zenon DEF Die, ItemInv, IndexInv, Pcs
<1>2. UNCHANGED <<ph, pt, ch, ct, data, sem, cons, ok, out>> BY Zenon DEF Die
<1>3. \A q \in Prods : ~Dead(q)
  <2> DEFINE D == {q \in Prods : At(q, "dead")}
  <2>1. IsFiniteSet(D) BY ProdsAssumption, FS_Subset, Zenon
  <2>2. Cardinality(D) < MaxDeaths BY Zenon DEF Die
  <2>3. Cardinality(D) \in Nat BY <2>1, FS_CardinalityType, Zenon
  <2> HIDE DEF D
  <2>4. Cardinality(D) = 0 BY <2>2, <2>3, BoundAssumption
  <2>5. D = {} BY <2>1, <2>4, FS_EmptySet, Zenon
  <2>6. QED BY <2>5, Zenon DEF D, Dead
<1>4. \A q \in Prods : /\ Holder(q)' => Holder(q) /\ pr'[q] = pr[q]
                       /\ At(q, "publish")' => At(q, "publish") /\ pr'[q] = pr[q]
                       /\ Dead(q)' <=> q = p
  BY <1>1, <1>3, Zenon DEF Holder, Dead, At
<1>5. OwnInv' BY <1>2, <1>4, Zenon DEF ItemInv, OwnInv
<1>6. HoleInv'
  <2>1. ASSUME NEW i \in pt' .. ph' - 1
        PROVE  Owned(i)' \/ \E q \in Prods : Dead(q)' /\ pr'[q].old = i
    <3>1. Owned(i) BY <1>2, <1>3, Zenon DEF ItemInv, HoleInv
    <3>2. PICK q \in Prods : pr[q].old = i /\ pr[q].pc \in {"write", "publish"}
      BY <3>1, Zenon DEF Owned
    <3>3. CASE q = p BY <3>2, <3>3, <1>1, <1>4, Zenon
    <3>4. CASE q # p BY <3>2, <3>4, <1>1, Zenon DEF Owned
    <3>5. QED BY <3>3, <3>4, Zenon
  <2>2. QED BY <2>1, <1>4, Zenon DEF HoleInv
<1>7. failed = None BY <1>3, Zenon DEF ItemInv, FailInv
<1>8. FailInv' BY <1>2, <1>7, Zenon DEF FailInv, cons
<1>9. DataInv' /\ SkipInv' /\ OkInv' /\ Genuine' /\ NoLoss'
  BY <1>2, Zenon DEF ItemInv, DataInv, SkipInv, OkInv, Genuine, NoLoss, cons
<1>10. QED BY <1>5, <1>6, <1>8, <1>9, Zenon DEF ItemInv

\* Steps of the consumer leave the producers' claims alone, unless they move prod.tail.
LEMMA ConsumerKeeps ==
  ASSUME ItemInv, UNCHANGED <<ph, pt, data, pr, ok>> PROVE OwnInv' /\ HoleInv' /\ OkInv'
<1>1. OwnInv' BY Zenon DEF ItemInv, OwnInv, Holder, At
<1>2. HoleInv' BY Zenon DEF ItemInv, HoleInv, Owned, Dead, At
<1>3. OkInv' BY Zenon DEF ItemInv, OkInv
<1>4. QED BY <1>1, <1>2, <1>3, Zenon

\* Suspecting and waiting.
LEMMA CheckWaitItem ==
  ASSUME ItemInv, IndexInv', cpc \in {"check", "wait"}, cpc' \in {"wait", "kick", "deq", "check"},
         UNCHANGED <<ph, pt, ch, ct, data, pr, cold, failed, ok, out>>
  PROVE  ItemInv'
<1>1. OwnInv' /\ HoleInv' /\ OkInv' BY ConsumerKeeps, Zenon
<1>2. FailInv' BY Zenon DEF ItemInv, FailInv, Dead, At
<1>3. DataInv' /\ SkipInv' /\ Genuine' BY Zenon DEF ItemInv, DataInv, SkipInv, Genuine
<1>4. NoLoss' BY Zenon DEF ItemInv, NoLoss
<1>5. QED BY <1>1, <1>2, <1>3, <1>4, Zenon DEF ItemInv

\* The index that is kicked out is the killed producer's, and nobody was kicked out before.
LEMMA KickLoadItem == ASSUME ItemInv, IndexInv', KickLoad PROVE ItemInv'
<1>1. cpc = "kick" /\ cpc' = "kicked" /\ failed' = temp /\ temp = pt /\ pt < ph /\ ~Owned(pt)
  BY Zenon DEF KickLoad, ItemInv, IndexInv, KickInv
<1>2. UNCHANGED <<ph, pt, ch, ct, data, sem, pr, ok, out>> BY Zenon DEF KickLoad
<1>3. ph \in Nat /\ pt \in Nat /\ pt # None /\ (failed # None => failed \in Nat)
  BY NoneAssumption DEF ItemInv, IndexInv, TypeOK
<1>4. PICK p \in Prods : Dead(p) /\ pr[p].old = pt
  <2>1. pt \in pt .. ph - 1 BY <1>1, <1>3
  <2>2. QED BY <2>1, <1>1, Zenon DEF ItemInv, HoleInv
<1>5. failed = None
  <2>1. SUFFICES ASSUME failed # None PROVE FALSE BY Zenon
  <2>2. failed < pt /\ \E q \in Prods : Dead(q) /\ pr[q].old = failed
    BY <2>1, <1>1, Zenon DEF ItemInv, FailInv
  <2>3. failed = pt BY <2>2, <1>4, Zenon DEF ItemInv, HoleInv
  <2>4. QED BY <2>2, <2>3, <1>3
<1>6. OwnInv' /\ HoleInv' /\ OkInv' BY <1>2, ConsumerKeeps, Zenon
<1>7. FailInv'
  <2>1. pt \notin ok BY <1>3 DEF ItemInv, OkInv
  <2>2. Dead(p)' /\ pr'[p].old = pt BY <1>2, <1>4, Zenon DEF Dead, At
  <2>3. QED BY <1>1, <1>2, <2>1, <2>2, Zenon DEF FailInv
<1>8. DataInv'
  <2>1. \A i \in ct .. pt - 1 : i # failed
    <3>1. ct \in Nat BY Zenon DEF ItemInv, IndexInv, TypeOK
    <3>2. \A i \in ct .. pt - 1 : i \in Int BY <3>1, <1>3
    <3>3. QED BY <3>2, <1>5, NoneAssumption, Zenon
  <2>2. QED BY <2>1, <1>2, Zenon DEF ItemInv, DataInv
<1>9. SkipInv' /\ Genuine' BY <1>1, <1>2, Zenon DEF ItemInv, SkipInv, Genuine
<1>10. NoLoss' BY <1>1, <1>2, Zenon DEF ItemInv, NoLoss
<1>11. QED BY <1>6, <1>7, <1>8, <1>9, <1>10, Zenon DEF ItemInv

\* prod.tail moves past the killed producer's index, and past no other.
LEMMA KickStoreItem == ASSUME ItemInv, IndexInv', KickStore PROVE ItemInv'
<1>1. cpc = "kicked" /\ cpc' = "wait" /\ pt' = pt + 1 /\ failed = pt /\ ~Owned(pt)
  BY Zenon DEF KickStore, ItemInv, IndexInv, KickInv, SkipInv
<1>2. UNCHANGED <<ph, ch, ct, data, sem, pr, cold, temp, failed, ok, out>> BY Zenon DEF KickStore
<1>3. ph \in Nat /\ pt \in Nat /\ ct \in Nat /\ ok \subseteq Nat BY Zenon
  DEF ItemInv, IndexInv, TypeOK
<1>4. OwnInv'
  <2>1. ASSUME NEW q \in Prods, Holder(q) PROVE pt' <= pr[q].old
    <3>1. pt <= pr[q].old /\ pr[q].old # pt BY <2>1, <1>1, Zenon DEF ItemInv, OwnInv, Owned, Holder
    <3>2. pr[q].old \in Nat BY Zenon DEF ItemInv, IndexInv, TypeOK
    <3>3. QED BY <3>1, <3>2, <1>1, <1>3
  <2>2. QED BY <2>1, <1>2, Zenon DEF ItemInv, OwnInv, Holder, At
<1>5. HoleInv'
  <2>1. \A i \in pt' .. ph - 1 : i \in pt .. ph - 1 BY <1>1, <1>3
  <2>2. QED BY <2>1, <1>2, Zenon DEF ItemInv, HoleInv, Owned, Dead, At
<1>6. FailInv'
  <2>1. failed < pt' BY <1>1, <1>3
  <2>2. QED BY <2>1, <1>2, Zenon DEF ItemInv, FailInv, Dead, At
<1>7. DataInv'
  <2>1. \A i \in ct .. pt' - 1 : i = pt \/ i \in ct .. pt - 1 BY <1>1, <1>3
  <2>2. QED BY <2>1, <1>1, <1>2, Zenon DEF ItemInv, DataInv
<1>8. SkipInv' /\ Genuine' BY <1>1, <1>2, Zenon DEF ItemInv, SkipInv, Genuine
<1>9. \A i \in ok : i < pt => i < pt' BY <1>1, <1>3
<1>10. OkInv' BY <1>2, <1>9, Zenon DEF ItemInv, OkInv
<1>11. NoLoss' BY <1>1, <1>2, <1>9, Zenon DEF ItemInv, NoLoss
<1>12. QED BY <1>4, <1>5, <1>6, <1>7, <1>8, <1>10, <1>11, Zenon DEF ItemInv

\* RequestDequeue: what is claimed is not lost, and after a skip it is not the failed index.
LEMMA RequestItem ==
  ASSUME ItemInv, IndexInv', NEW x \in {"test", "item"}, Request(x),
         cpc = IF x = "test" THEN "deq" ELSE "deq2"
  PROVE  ItemInv'
<1>1. \/ cpc' = "check" /\ ch' = ch /\ cold' = cold
      \/ cpc' = x /\ ch' = ch + 1 /\ cold' = ch
  BY Zenon DEF Request
<1>2. UNCHANGED <<ph, pt, ct, data, sem, pr, temp, failed, ok, out>> BY Zenon DEF Request
<1>3. ch \in Nat /\ ok \subseteq Nat /\ (failed # None => failed \in Nat)
  BY Zenon DEF ItemInv, IndexInv, TypeOK
<1>4. OwnInv' /\ HoleInv' /\ OkInv' BY <1>2, ConsumerKeeps, Zenon
<1>5. FailInv'
  <2>1. cpc # "kicked" BY Zenon
  <2>2. QED BY <2>1, <1>2, Zenon DEF ItemInv, FailInv, Dead, At
<1>6. DataInv' /\ Genuine' BY <1>2, Zenon DEF ItemInv, DataInv, Genuine
<1>7. SkipInv'
  <2>1. cpc' = "item" => x = "item" BY <1>1, Zenon
  <2>2. x = "item" => failed # ch BY <1>3 DEF ItemInv, SkipInv
  <2>3. cpc' \notin {"kicked", "deq2"} BY <1>1, Zenon
  <2>4. QED BY <1>1, <1>2, <2>1, <2>2, <2>3, Zenon DEF SkipInv
<1>8. NoLoss'
  <2>1. SUFFICES ASSUME NEW i \in ok
                 PROVE  \/ <<i, i>> \in out
                        \/ ch' <= i /\ i < pt
                        \/ i = cold' /\ cpc' \in {"test", "item"} /\ (cpc' = "test" => cold' # failed)
    BY <1>2, Zenon DEF NoLoss
  <2>2. <<i, i>> \in out \/ (ch <= i /\ i < pt) BY Zenon DEF ItemInv, NoLoss
  <2>3. i # failed BY <1>3, NoneAssumption DEF ItemInv, FailInv
  <2>4. i # ch /\ ch <= i => ch + 1 <= i BY <1>3
  <2>5. QED BY <1>1, <2>2, <2>3, <2>4, Zenon
<1>9. QED BY <1>4, <1>5, <1>6, <1>7, <1>8, Zenon DEF ItemInv

\* The claimed index is given back: the failed one, which is nobody's item, or one that was
\* returned.
LEMMA FreeItem ==
  ASSUME ItemInv, IndexInv', ct' = cold + 1,
         \/ cpc = "test" /\ cold = failed /\ cpc' = "deq2"
         \/ cpc = "tail" /\ cpc' = "check",
         UNCHANGED <<ph, pt, ch, data, sem, pr, cold, temp, failed, ok, out>>
  PROVE  ItemInv'
<1>1. ct = cold /\ ch = cold + 1 /\ cold \in Nat /\ pt \in Nat
  BY Zenon DEF ItemInv, IndexInv, ConsInv, TypeOK
<1>2. OwnInv' /\ HoleInv' /\ OkInv' BY ConsumerKeeps, Zenon
<1>3. FailInv' BY Zenon DEF ItemInv, FailInv, Dead, At
<1>4. DataInv'
  <2>1. \A i \in ct' .. pt - 1 : i \in ct .. pt - 1 BY <1>1
  <2>2. QED BY <2>1, Zenon DEF ItemInv, DataInv
<1>5. SkipInv'
  <2>1. cpc' = "deq2" => failed # None /\ failed < ch BY <1>1, NoneAssumption
  <2>2. QED BY <2>1, Zenon DEF SkipInv
<1>6. Genuine' BY Zenon DEF ItemInv, Genuine
<1>7. NoLoss' BY Zenon DEF ItemInv, NoLoss
<1>8. QED BY <1>2, <1>3, <1>4, <1>5, <1>6, <1>7, Zenon DEF ItemInv

\* What is read at the claimed index is the item that was enqueued there.
LEMMA DequeueItemItem == ASSUME ItemInv, IndexInv', DequeueItem PROVE ItemInv'
<1>1. /\ cpc \in {"item", "test"} /\ cpc' = "tail" /\ cold # failed
      /\ out' = out \cup {<<cold, data[Slot(cold)]>>}
  BY Zenon DEF DequeueItem, ItemInv, SkipInv
<1>2. UNCHANGED <<ph, pt, ch, ct, data, sem, pr, cold, temp, failed, ok>> BY Zenon DEF DequeueItem
<1>3. data[Slot(cold)] = cold
  <2>1. ct = cold /\ ch = cold + 1 /\ cold \in Nat /\ pt \in Nat /\ ch <= pt
    BY <1>1, Zenon DEF ItemInv, IndexInv, ConsInv, TypeOK, Window
  <2>2. cold \in ct .. pt - 1 BY <2>1
  <2>3. QED BY <2>2, <1>1, Zenon DEF ItemInv, DataInv
<1>4. OwnInv' /\ HoleInv' /\ OkInv' BY <1>2, ConsumerKeeps, Zenon
<1>5. FailInv' BY <1>1, <1>2, Zenon DEF ItemInv, FailInv, Dead, At
<1>6. DataInv' /\ SkipInv' BY <1>1, <1>2, Zenon DEF ItemInv, DataInv, SkipInv
<1>7. Genuine'
  <2>1. \A y \in out' : y \in out \/ y = <<cold, cold>> BY <1>1, <1>3, Zenon
  <2>2. QED BY <2>1 DEF ItemInv, Genuine
<1>8. NoLoss'
  <2>1. out \subseteq out' /\ <<cold, cold>> \in out' BY <1>1, <1>3, Zenon
  <2>2. QED BY <2>1, <1>2, Zenon DEF ItemInv, NoLoss
<1>9. QED BY <1>4, <1>5, <1>6, <1>7, <1>8, Zenon DEF ItemInv

\* The whole queue: with one producer killed at most, each step keeps the items in order.
LEMMA ItemStep ==
  ASSUME Prompt, MaxDeaths <= 1
  PROVE  (Init => ItemInv) /\ (ItemInv /\ [Next]_vars => ItemInv')
<1>1. Init => ItemInv
  <2>1. SUFFICES ASSUME Init PROVE ItemInv BY Zenon
  <2>2. /\ IndexInv /\ ph = 0 /\ pt = 0 /\ ct = 0 /\ cpc = "check" /\ failed = None
        /\ ok = {} /\ out = {} /\ pr = [p \in Prods |-> [pc |-> "idle", old |-> 0]]
    BY <2>1, IndexStep, Zenon DEF Init
  <2>3. \A p \in Prods : pr[p].pc = "idle" BY <2>2, Zenon
  <2>4. OwnInv /\ FailInv /\ SkipInv BY <2>2, <2>3, Zenon DEF OwnInv, FailInv, SkipInv, Holder, At
  <2>5. HoleInv
    <3>1. pt .. ph - 1 = {} BY <2>2
    <3>2. QED BY <3>1, <2>3, Zenon DEF HoleInv, Dead, At
  <2>6. DataInv
    <3>1. ct .. pt - 1 = {} BY <2>2
    <3>2. QED BY <3>1, Zenon DEF DataInv
  <2>7. OkInv /\ Genuine /\ NoLoss BY <2>2, Zenon DEF OkInv, Genuine, NoLoss
  <2>8. QED BY <2>2, <2>4, <2>5, <2>6, <2>7, Zenon DEF ItemInv
<1>2. ASSUME ItemInv, [Next]_vars PROVE ItemInv'
  <2>1. IndexInv' BY <1>2, IndexStep, Zenon DEF ItemInv
  <2>2. CASE UNCHANGED vars
    <3>1. UNCHANGED <<ph, pt, ch, ct, data, pr, cpc, cold, failed, ok, out>>
      BY <2>2, Zenon DEF vars, cons
    <3>2. OwnInv' /\ HoleInv' /\ OkInv' BY <1>2, <3>1, ConsumerKeeps, Zenon
    <3>3. FailInv' /\ DataInv' /\ SkipInv' BY <1>2, <3>1, Zenon
      DEF ItemInv, FailInv, DataInv, SkipInv, Dead, At
    <3>4. Genuine' /\ NoLoss' BY <1>2, <3>1, Zenon DEF ItemInv, Genuine, NoLoss
    <3>5. QED BY <2>1, <3>2, <3>3, <3>4, Zenon DEF ItemInv
  <2>3. CASE Consumer
    <3>1. CASE Check \/ Wait
      <4>1. /\ cpc \in {"check", "wait"} /\ cpc' \in {"wait", "kick", "deq", "check"}
            /\ UNCHANGED <<ph, pt, ch, ct, data, pr, cold, failed, ok, out>>
        BY <3>1, Zenon DEF Check, Wait
      <4>2. QED BY <1>2, <2>1, <4>1, CheckWaitItem, Zenon
    <3>2. CASE Dequeue \/ DequeueNext BY <1>2, <2>1, <3>2, RequestItem, Zenon
      DEF Dequeue, DequeueNext
    <3>3. CASE Skip \/ UpdateConsTail BY <1>2, <2>1, <3>3, FreeItem, Zenon DEF Skip, UpdateConsTail
    <3>4. QED
      BY <1>2, <2>1, <2>3, <3>1, <3>2, <3>3, KickLoadItem, KickStoreItem, DequeueItemItem, Zenon
      DEF Consumer
  <2>4. ASSUME NEW p \in Prods, Producer(p) \/ Die(p) PROVE ItemInv'
    <3>1. CASE LoadHead(p) \/ LoadSpace(p) \/ Post(p) \/ (CasHead(p) /\ ph # pr[p].old)
      <4>1. /\ pr[p].pc \in {"idle", "space", "cas", "post"}
            /\ pr'[p].pc \in {"idle", "space", "cas"}
            /\ \A q \in Prods : q # p => pr'[q] = pr[q]
        BY <1>2, <3>1 DEF LoadHead, LoadSpace, Post, CasHead, At, Go, ItemInv, IndexInv, TypeOK
      <4>2. UNCHANGED <<ph, pt, ch, ct, data, cons, ok, out>>
        BY <3>1, Zenon DEF LoadHead, LoadSpace, Post, CasHead
      <4>3. /\ pr[p].pc \notin {"write", "publish", "dead"}
            /\ pr'[p].pc \notin {"write", "publish", "dead"}
        BY <4>1, Zenon
      <4>4. QED BY <1>2, <2>1, <4>1, <4>2, <4>3, QuietItem, Zenon
    <3>2. QED
      BY <1>2, <2>1, <2>4, <3>1, ReserveItem, WriteItem, PublishItem, NoTimeout, DieItem, Zenon
      DEF Producer
  <2>5. QED BY <1>2, <2>2, <2>3, <2>4, Zenon DEF Next
<1>3. QED BY <1>1, <1>2, Zenon

\* What Dequeue returns at an index is the item enqueued there, for any capacity and any number
\* of producers, one of them killed at any point of Enqueue: no slot that was not yet written,
\* no item of an earlier round, no hole of the killed producer.
THEOREM ItemsGenuine == ASSUME Prompt, MaxDeaths <= 1 PROVE Spec => []Genuine
<1>1. Init => ItemInv BY ItemStep, Zenon
<1>2. ItemInv /\ [Next]_vars => ItemInv' BY ItemStep, Zenon
<1>3. ItemInv => Genuine BY Zenon DEF ItemInv
<1>4. QED BY <1>1, <1>2, <1>3, PTL DEF Spec

\* An item whose Enqueue returned SH_OK is delivered or still in the queue: the consumer's
\* prod.tail++ past a killed producer, and its skip of mFailedProd, cost nobody else an item.
THEOREM ItemsNotLost == ASSUME Prompt, MaxDeaths <= 1 PROVE Spec => []NoLoss
<1>1. Init => ItemInv BY ItemStep, Zenon
<1>2. ItemInv /\ [Next]_vars => ItemInv' BY ItemStep, Zenon
<1>3. ItemInv => NoLoss BY Zenon DEF ItemInv
<1>4. QED BY <1>1, <1>2, <1>3, PTL DEF Spec

=============================================================================
