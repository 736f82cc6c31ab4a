------------------------------ MODULE ShmQueue ------------------------------
(***************************************************************************)
(* The event queue in shared memory, transport/shm/shm_queue.h: a ring     *)
(* that producers of several processes fill without a lock and one worker  *)
(* (or one synchronous endpoint) empties.  A producer reserves an index by *)
(* a compare-and-swap of prod.head, writes the slot, and publishes it by   *)
(* a compare-and-swap of prod.tail that succeeds in index order only.  A   *)
(* producer may be killed in between; the consumer then moves prod.tail    *)
(* past it (CheckAndMarkProducerState) and skips the index.                *)
(*                                                                         *)
(* Indices are counted without wrapping; the words in memory are Word(i).  *)
(* A comparison for equality of two live indices does not see the          *)
(* difference, "prod.head > prod.tail" and the free space do.  An item is  *)
(* represented by the index that was reserved for it.                      *)
(***************************************************************************)
EXTENDS Integers, FiniteSets

CONSTANTS
    Cap,           \* mCapacity
    W,             \* 2^32, a multiple of the capacity
    Prods,         \* producers
    EventPolling,  \* the consumer waits on the semaphore, or polls
    DiePcs,        \* where a producer may be killed
    MaxDeaths,     \* how many producers may be killed
    Prompt,        \* live producers are fast against mMaxFailedTime and mMaxEnqueueTimeout
    MaxHead,       \* bound on prod.head
    None           \* UINT64_MAX in mTempProdIdx and mFailedProd

ASSUME CapAssumption == Cap \in Nat \ {0}
ASSUME ProdsAssumption == IsFiniteSet(Prods)
ASSUME WAssumption == W \in Nat \ {0}
ASSUME FlagAssumption == {EventPolling, Prompt} \subseteq BOOLEAN
ASSUME BoundAssumption == MaxDeaths \in Nat /\ MaxHead \in Nat
ASSUME NoneAssumption == None \notin Int

VARIABLES
    ph, pt,    \* prod.head, prod.tail
    ch, ct,    \* cons.head, cons.tail
    data,      \* mQueueData: slot -> item
    sem,       \* the semaphore
    pr,        \* per producer: program counter and the local oldHead
    cpc, cold, \* the consumer: program counter and its oldHead
    temp,      \* mTempProdIdx
    failed,    \* mFailedProd
    ok,        \* history: items whose Enqueue returned SH_OK
    out        \* history: <<i, x>>: Dequeue at index i returned item x

cons == <<cpc, cold, temp, failed>>
vars == <<ph, pt, ch, ct, data, sem, pr, cons, ok, out>>

Word(i) == i % W
Slot(i) == i % Cap

Init ==
    /\ ph = 0 /\ pt = 0 /\ ch = 0 /\ ct = 0
    /\ data = [s \in 0 .. Cap - 1 |-> None]
    /\ sem = 0
    /\ pr = [p \in Prods |-> [pc |-> "idle", old |-> 0]]
    /\ cpc = "check" /\ cold = 0 /\ temp = None /\ failed = None
    /\ ok = {} /\ out = {}

-----------------------------------------------------------------------------
(* Enqueue and EnqueueAndNotify *)

At(p, pc) == pr[p].pc = pc
Go(p, pc) == pr' = [pr EXCEPT ![p].pc = pc]

\* The index i is reserved by a producer that is still working on it.
Owned(i) == \E p \in Prods : pr[p].old = i /\ pr[p].pc \in {"write", "publish"}

\* RequestProduceSpace, the load of prod.head.
LoadHead(p) ==
    /\ At(p, "idle")
    /\ ph < MaxHead
    /\ pr' = [pr EXCEPT ![p] = [pc |-> "space", old |-> ph]]
    /\ UNCHANGED <<ph, pt, ch, ct, data, sem, cons, ok, out>>

\* Mutant: the free space is not looked at.
LoadSpaceAnyway(p) ==
    /\ At(p, "space")
    /\ Go(p, "cas")
    /\ UNCHANGED <<ph, pt, ch, ct, data, sem, cons, ok, out>>

\* ... the load of cons.tail: without free space Enqueue returns SHM_QUEUE_FULL.
LoadSpace(p) ==
    /\ At(p, "space")
    /\ Go(p, IF Word(Cap + ct - pr[p].old) = 0 THEN "idle" ELSE "cas")
    /\ UNCHANGED <<ph, pt, ch, ct, data, sem, cons, ok, out>>

\* ... the compare-and-swap, or another turn of the loop.
CasHead(p) ==
    /\ At(p, "cas")
    /\ IF ph = pr[p].old THEN ph' = ph + 1 /\ Go(p, "write")
                         ELSE Go(p, "idle") /\ UNCHANGED ph
    /\ UNCHANGED <<pt, ch, ct, data, sem, cons, ok, out>>

EnqueueItem(p) ==
    /\ At(p, "write")
    /\ data' = [data EXCEPT ![Slot(pr[p].old)] = pr[p].old]
    /\ Go(p, "publish")
    /\ UNCHANGED <<ph, pt, ch, ct, sem, cons, ok, out>>

\* Mutant: the tail is advanced without waiting for the producers in front.
PublishAtOnce(p) ==
    /\ At(p, "publish")
    /\ pt' = pt + 1
    /\ ok' = ok \cup {pr[p].old}
    /\ Go(p, IF EventPolling THEN "post" ELSE "idle")
    /\ UNCHANGED <<ph, ch, ct, data, sem, cons, out>>

\* UpdateProdTail.
Publish(p) ==
    /\ At(p, "publish")
    /\ pt = pr[p].old
    /\ pt' = pt + 1
    /\ ok' = ok \cup {pt}
    /\ Go(p, IF EventPolling THEN "post" ELSE "idle")
    /\ UNCHANGED <<ph, ch, ct, data, sem, cons, out>>

\* UpdateProdTail gives up after mMaxEnqueueTimeout and Enqueue returns SHM_QUEUE_FULL.  That
\* is twice mMaxFailedTime: one killed producer is kicked out before those behind it give up.
PublishTimeout(p) ==
    /\ At(p, "publish")
    /\ pt # pr[p].old
    /\ Prompt => Cardinality({i \in pt .. pr[p].old - 1 : ~Owned(i)}) > 1
    /\ Go(p, "idle")
    /\ UNCHANGED <<ph, pt, ch, ct, data, sem, cons, ok, out>>

\* Mutant: no sem_post.
PostNothing(p) ==
    /\ At(p, "post")
    /\ Go(p, "idle")
    /\ UNCHANGED <<ph, pt, ch, ct, data, sem, cons, ok, out>>

\* sem_post.
Post(p) ==
    /\ At(p, "post")
    /\ sem' = sem + 1
    /\ Go(p, "idle")
    /\ UNCHANGED <<ph, pt, ch, ct, data, cons, ok, out>>

\* The process of the producer is killed.
Die(p) ==
    /\ pr[p].pc \in DiePcs
    /\ Cardinality({q \in Prods : At(q, "dead")}) < MaxDeaths
    /\ Go(p, "dead")
    /\ UNCHANGED <<ph, pt, ch, ct, data, sem, cons, ok, out>>

Producer(p) ==
    \/ LoadHead(p) \/ LoadSpace(p) \/ CasHead(p) \/ EnqueueItem(p)
    \/ Publish(p) \/ PublishTimeout(p) \/ Post(p)

-----------------------------------------------------------------------------
(* DequeueOrWait, or Dequeue in the busy-polling loop *)

\* Mutant: nobody is ever kicked out.
CheckOnly ==
    /\ cpc = "check"
    /\ temp' = IF Word(ph) > Word(pt) THEN pt ELSE None
    /\ cpc' = "wait"
    /\ UNCHANGED <<ph, pt, ch, ct, data, sem, pr, cold, failed, ok, out>>

\* CheckAndMarkProducerState.  The index under suspicion is given mMaxFailedTime.
Check ==
    /\ cpc = "check"
    /\ IF Word(ph) > Word(pt)
         THEN IF temp # pt THEN temp' = pt /\ cpc' = "wait"
              ELSE /\ UNCHANGED temp
                   /\ \/ cpc' = "wait"
                      \/ (Prompt => ~Owned(temp)) /\ cpc' = "kick"
         ELSE temp' = None /\ cpc' = "wait"
    /\ UNCHANGED <<ph, pt, ch, ct, data, sem, pr, cold, failed, ok, out>>

\* ... when the time is over: mFailedProd, and the load of prod.tail++.
KickLoad ==
    /\ cpc = "kick"
    /\ cpc' = "kicked"
    /\ failed' = temp
    /\ temp' = None
    /\ cold' = pt
    /\ UNCHANGED <<ph, pt, ch, ct, data, sem, pr, ok, out>>

\* ... the store of prod.tail++.
KickStore ==
    /\ cpc = "kicked"
    /\ cpc' = "wait"
    /\ pt' = cold + 1
    /\ UNCHANGED <<ph, ch, ct, data, sem, pr, cold, temp, failed, ok, out>>

\* sem_timedwait; the polling loop goes on at once.
Wait ==
    /\ cpc = "wait"
    /\ IF ~EventPolling THEN cpc' = "deq" /\ UNCHANGED sem
       ELSE IF sem > 0 THEN cpc' = "deq" /\ sem' = sem - 1
       ELSE cpc' = "check" /\ UNCHANGED sem
    /\ UNCHANGED <<ph, pt, ch, ct, data, pr, cold, temp, failed, ok, out>>

\* RequestDequeue: one consumer, so the compare-and-swap of cons.head succeeds.
Request(then) ==
    /\ IF pt = ch THEN cpc' = "check" /\ UNCHANGED <<ch, cold>>
                  ELSE cpc' = then /\ ch' = ch + 1 /\ cold' = ch
    /\ UNCHANGED <<ph, pt, ct, data, sem, pr, temp, failed, ok, out>>

Dequeue == cpc = "deq" /\ Request("test")

\* Mutant: whatever is not after the failed index is skipped.
SkipUpTo ==
    /\ cpc = "test"
    /\ failed # None /\ cold <= failed
    /\ ct' = cold + 1
    /\ cpc' = "deq2"
    /\ UNCHANGED <<ph, pt, ch, data, sem, pr, cold, temp, failed, ok, out>>

\* The failed index is skipped, and the next one requested.
Skip ==
    /\ cpc = "test"
    /\ cold = failed
    /\ ct' = cold + 1
    /\ cpc' = "deq2"
    /\ UNCHANGED <<ph, pt, ch, data, sem, pr, cold, temp, failed, ok, out>>

DequeueNext == cpc = "deq2" /\ Request("item")

DequeueItem ==
    /\ cpc = "item" \/ (cpc = "test" /\ cold # failed)
    /\ out' = out \cup {<<cold, data[Slot(cold)]>>}
    /\ cpc' = "tail"
    /\ UNCHANGED <<ph, pt, ch, ct, data, sem, pr, cold, temp, failed, ok>>

UpdateConsTail ==
    /\ cpc = "tail"
    /\ ct' = cold + 1
    /\ cpc' = "check"
    /\ UNCHANGED <<ph, pt, ch, data, sem, pr, cold, temp, failed, ok, out>>

Consumer ==
    \/ Check \/ KickLoad \/ KickStore \/ Wait
    \/ Dequeue \/ Skip \/ DequeueNext \/ DequeueItem \/ UpdateConsTail

-----------------------------------------------------------------------------
Next == Consumer \/ \E p \in Prods : Producer(p) \/ Die(p)

Spec == Init /\ [][Next]_vars

\* The worker thread runs, and so does a producer that is alive; the consumer's suspicion of
\* a killed producer times out in the end.
Fairness ==
    /\ WF_vars(Consumer)
    /\ SF_vars(Check /\ cpc' = "kick")
    /\ \A p \in Prods : WF_vars(Producer(p))

FairSpec == Spec /\ Fairness

-----------------------------------------------------------------------------
\* The variables have their types.
TypeOK ==
    /\ {ph, pt, ch, ct, sem} \subseteq Nat
    /\ data \in [0 .. Cap - 1 -> Nat \cup {None}]
    /\ pr \in [Prods -> [pc : {"idle", "space", "cas", "write", "publish", "post", "dead"}, old : Nat]]
    /\ cpc \in {"check", "kick", "kicked", "wait", "deq", "test", "deq2", "item", "tail"}
    /\ cold \in Nat /\ temp \in Nat \cup {None} /\ failed \in Nat \cup {None}
    /\ ok \subseteq Nat
    /\ out \subseteq Nat \X (Nat \cup {None})

\* The four indices never overtake each other, and no more than the capacity is reserved
\* (RequestProduceSpace against cons.tail, whatever stale head it started from).
Window == ct <= ch /\ ch <= pt /\ pt <= ph /\ ph <= ct + Cap

\* What Dequeue returns at an index is the item enqueued there: never a slot that was not yet
\* written, not the stale item of an earlier round, not the hole of a killed producer.
Genuine == \A x \in out : x[1] = x[2]

\* An item whose Enqueue returned SH_OK is delivered or still between the consumer's and the
\* producers' index: moving prod.tail past a killed producer skips nobody else's item.
NoLoss ==
    \A i \in ok : \/ <<i, i>> \in out
                  \/ ch <= i /\ i < pt
                  \/ i = cold /\ cpc \in {"test", "item"} /\ (cpc = "test" => cold # failed)

\* Every item whose Enqueue returned SH_OK is delivered.
Delivered == \A i \in 0 .. MaxHead - 1 : i \in ok ~> <<i, i>> \in out

\* prod.tail reaches every reserved index: a killed producer does not hold up the others
\* ("If stuck, kick it out").
Unstuck == \A i \in 0 .. MaxHead - 1 : ph > i ~> pt > i
=============================================================================
