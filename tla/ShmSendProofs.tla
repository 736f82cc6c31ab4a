--------------------------- MODULE ShmSendProofs ----------------------------
(***************************************************************************)
(* Proofs about ShmSend, for any number of operations, buckets and places  *)
(* in the queues and pools: an operation is completed once, the peer gets  *)
(* what was sent, and the channel's references are balanced.               *)
(***************************************************************************)
EXTENDS ShmSendSteps, FiniteSetTheorems

-----------------------------------------------------------------------------
(* The invariants of the steps *)

\* Of the worker that takes a local event, the keeper that walks over the lists of a broken
\* channel, and the sender whose local event failed, at most one completes an operation, and
\* once: for any number of operations in flight, as long as a sender that saw the channel
\* working has its context on the list before the keeper detaches it.
THEOREM OperationsCompletedOnce == ASSUME Prompt PROVE Spec => []CompletedOnce
<1>1. Init => CompInv BY InitComp, Zenon
<1>2. CompInv /\ [Next]_vars => CompInv' BY NextComp, Zenon
<1>3. CompInv => CompletedOnce BY Zenon DEF CompInv, DoneInv, CompletedOnce
<1>4. QED BY <1>1, <1>2, <1>3, PTL DEF Spec

\* Up to the first send that fails after its event was enqueued, the peer's handler is given
\* each message once and as it was posted, whatever the order in which senders occupy and
\* free buckets and the peer reads them and marks them free: as long as no send finds the pool
\* of contexts exhausted, for then the endpoint posts the message a second time.
THEOREM MessagesIntact == Spec /\ []Room => []IntactIfAccepted
<1> DEFINE I == Types /\ WorkerInv /\ IntactInv
<1>1. Init => I BY InitComp, InitEvents, Zenon DEF CompInv, PhaseInv
<1>2. I /\ Room /\ [Next]_vars => I' BY NextTypes, NextEvents, Zenon
<1>3. I => IntactIfAccepted BY EventsIntact, Zenon
<1> HIDE DEF I
<1>4. QED BY <1>1, <1>2, <1>3, PTL DEF Spec

-----------------------------------------------------------------------------
(* The references of the channel *)

\* The threads that have a reference for a local event they are about to send, the worker's
\* event, and the pointers of the endpoint and the keeper.
Locals == {o \in Ops : op[o].pc = "local"}
Busy == IF wk.o = None THEN 0 ELSE 1
Cleared == IF kp.pc = "released" THEN 0 ELSE IF kp.pc = "done" THEN 1 ELSE 2

\* The counts are numbers.
LEMMA Counts ==
  ASSUME Types
  PROVE  /\ Cardinality(ctxs) \in Nat /\ Cardinality(Locals) \in Nat /\ Len(localQ) \in Nat
         /\ Busy \in Nat /\ Cleared \in Nat
<1>1. ctxs \subseteq Ops /\ Locals \subseteq Ops /\ IsFiniteSet(Ops)
  BY OpsAssumption, Zenon DEF Types, Locals
<1>2. IsFiniteSet(ctxs) /\ IsFiniteSet(Locals) BY <1>1, FS_Subset, Zenon
<1>3. Cardinality(ctxs) \in Nat /\ Cardinality(Locals) \in Nat
  BY <1>2, FS_CardinalityType, Zenon
<1>4. Len(localQ) \in Nat BY DEF Types
<1>5. Busy \in Nat /\ Cleared \in Nat BY Zenon DEF Busy, Cleared
<1>6. QED BY <1>3, <1>4, <1>5, Zenon

\* One element more or less in a set of operations.
LEMMA OneMore ==
  ASSUME NEW S \in SUBSET Ops, NEW o \in Ops
  PROVE  /\ o \notin S => Cardinality(S \cup {o}) = Cardinality(S) + 1
         /\ o \in S => Cardinality(S \ {o}) = Cardinality(S) - 1
<1>1. IsFiniteSet(S) BY OpsAssumption, FS_Subset, Zenon
<1>2. o \notin S => Cardinality(S \cup {o}) = Cardinality(S) + 1 BY <1>1, FS_AddElement, Zenon
<1>3. o \in S => Cardinality(S \ {o}) = Cardinality(S) - 1 BY <1>1, FS_RemoveElement, Zenon
<1>4. QED BY <1>2, <1>3, Zenon

\* What a step of one thread means for the threads at their local event.
LEMMA LocalsMove ==
  ASSUME NEW o \in Ops, \A x \in Ops : x # o => op'[x] = op[x]
  PROVE  /\ op[o].pc # "local" /\ op'[o].pc # "local" => Locals' = Locals
         /\ op[o].pc # "local" /\ op'[o].pc = "local" =>
              Cardinality(Locals') = Cardinality(Locals) + 1
         /\ op[o].pc = "local" /\ op'[o].pc # "local" =>
              Cardinality(Locals') = Cardinality(Locals) - 1
<1>1. \A x \in Ops : x # o => (x \in Locals' <=> x \in Locals) BY Zenon DEF Locals
<1>2. /\ o \in Locals <=> op[o].pc = "local"
      /\ o \in Locals' <=> op'[o].pc = "local"
      /\ Locals \subseteq Ops /\ Locals' \subseteq Ops
  BY Zenon DEF Locals
<1>3. op[o].pc # "local" /\ op'[o].pc # "local" => Locals' = Locals BY <1>1, <1>2
<1>4. op[o].pc # "local" /\ op'[o].pc = "local" => Locals' = Locals \cup {o} BY <1>1, <1>2, Zenon
<1>5. op[o].pc = "local" /\ op'[o].pc # "local" => Locals' = Locals \ {o} BY <1>1, <1>2, Zenon
<1>6. QED BY <1>2, <1>3, <1>4, <1>5, OneMore, Zenon

\* The balance, by its terms.
LEMMA RefsTerms ==
  RefsBalance <=> chRef = Cardinality(ctxs) + (Len(localQ) + Cardinality(Locals) + Busy) + Cleared
BY Zenon DEF RefsBalance, Events, Locals, Busy, Cleared, At

\* A step of a posting thread: a context takes a reference when it leaves the pool, a local
\* event before it is sent.
LEMMA PosterRefs ==
  ASSUME CompInv, RefsBalance, NEW o \in Ops, Poster(o) PROVE RefsBalance'
<1> USE PcFacts
<1>1. Types /\ op \in [Ops -> OpRec] /\ ctxs \in SUBSET Ops BY Zenon DEF CompInv, Types
<1>2. chRef = Cardinality(ctxs) + (Len(localQ) + Cardinality(Locals) + Busy) + Cleared
  BY RefsTerms, Zenon
<1>3. /\ Cardinality(ctxs) \in Nat /\ Cardinality(Locals) \in Nat /\ Len(localQ) \in Nat
      /\ Busy \in Nat /\ Cleared \in Nat
  BY <1>1, Counts, Zenon
<1>4. \A x \in Ops : x # o => op'[x] = op[x] BY <1>1, PosterMoves, Zenon
<1>5. UNCHANGED <<wk, kp>> BY Zenon DEF Poster, Occupy, Post, Enqueue, GetCtx, Add, Local, Remove, Free
<1>6. Busy' = Busy /\ Cleared' = Cleared BY <1>5, Zenon DEF Busy, Cleared
<1>7. \A p \in Pcs : Go(o, p) => op'[o].pc = p BY <1>1, GoFacts, Zenon
<1>8. SUFFICES chRef' = Cardinality(ctxs') + (Len(localQ') + Cardinality(Locals') + Busy') + Cleared'
  BY RefsTerms, Zenon DEF RefsBalance, Events, Locals, Busy, Cleared, At
<1>9. CASE Occupy(o) \/ Post(o) \/ Enqueue(o) \/ Free(o)
  <2>1. op[o].pc # "local" BY <1>9, Zenon DEF Occupy, Post, Enqueue, Free, At
  <2>2. op'[o].pc # "local"
    <3>1. ASSUME NEW b \in Buckets, op' = [op EXCEPT ![o].pc = "post", ![o].buck = b]
          PROVE  op'[o].pc = "post"
      BY <1>1, <3>1, Zenon DEF OpRec
    <3>2. op' = [op EXCEPT ![o].pc = "ctx", ![o].sent = TRUE] => op'[o].pc = "ctx"
      BY <1>1 DEF OpRec
    <3>3. CASE Occupy(o) BY <1>7, <3>1, <3>3, Zenon DEF Occupy
    <3>4. CASE Post(o) BY <1>7, <3>4, Zenon DEF Post
    <3>5. CASE Enqueue(o) BY <1>7, <3>2, <3>5, Zenon DEF Enqueue, Again
    <3>6. CASE Free(o) BY <1>7, <3>6, Zenon DEF Free
    <3>7. QED BY <1>9, <3>3, <3>4, <3>5, <3>6, Zenon
  <2>3. Locals' = Locals BY <1>4, <2>1, <2>2, LocalsMove, Zenon
  <2>4. UNCHANGED <<chRef, ctxs, localQ>> BY <1>9, Zenon DEF Occupy, Post, Enqueue, Free
  <2>5. QED BY <1>2, <1>6, <2>3, <2>4, Zenon
<1>10. CASE GetCtx(o)
  <2>1. op[o].pc = "ctx" /\ o \notin ctxs
    BY <1>10, Zenon DEF GetCtx, At, CompInv, PhaseInv, EarlyOk
  <2>2. op'[o].pc # "local" BY <1>7, <1>10, Zenon DEF GetCtx, Again
  <2>3. Locals' = Locals /\ localQ' = localQ
    BY <1>4, <1>10, <2>1, <2>2, LocalsMove, Zenon DEF GetCtx
  <2>4. CASE ctxs' = ctxs \cup {o} /\ chRef' = chRef + 1
    <3>1. Cardinality(ctxs') = Cardinality(ctxs) + 1 BY <1>1, <2>1, <2>4, OneMore, Zenon
    <3>2. chRef' = chRef + 1 BY <2>4, Zenon
    <3>3. QED BY <1>2, <1>3, <1>6, <2>3, <3>1, <3>2
  <2>5. CASE UNCHANGED <<ctxs, chRef>> BY <1>2, <1>6, <2>3, <2>5, Zenon
  <2>6. QED BY <1>10, <2>4, <2>5, Zenon DEF GetCtx
<1>11. CASE Add(o)
  <2>1. op[o].pc # "local" /\ op'[o].pc = "local" BY <1>7, <1>11, Zenon DEF Add, At
  <2>2. Cardinality(Locals') = Cardinality(Locals) + 1 BY <1>4, <2>1, LocalsMove, Zenon
  <2>3. chRef' = chRef + 1 /\ UNCHANGED <<ctxs, localQ>> BY <1>11, Zenon DEF Add
  <2>4. QED BY <1>2, <1>3, <1>6, <2>2, <2>3
<1>12. CASE Local(o)
  <2>1. op[o].pc = "local" /\ op'[o].pc # "local" BY <1>7, <1>12, Zenon DEF Local, At
  <2>2. Cardinality(Locals') = Cardinality(Locals) - 1 BY <1>4, <2>1, LocalsMove, Zenon
  <2>3. ctxs' = ctxs BY <1>12, Zenon DEF Local
  <2>4. CASE localQ' = Append(localQ, o) /\ UNCHANGED chRef
    <3>1. localQ \in Seq(Ops) BY <1>1, Zenon DEF Types
    <3>2. Len(localQ') = Len(localQ) + 1 BY <2>4, <3>1
    <3>3. QED BY <1>2, <1>3, <1>6, <2>2, <2>3, <2>4, <3>2
  <2>5. CASE chRef' = chRef - 1 /\ UNCHANGED localQ BY <1>2, <1>3, <1>6, <2>2, <2>3, <2>5
  <2>6. QED BY <1>12, <2>4, <2>5, Zenon DEF Local
<1>13. CASE Remove(o)
  <2>1. op[o].pc # "local" /\ op'[o].pc # "local" BY <1>7, <1>13, Zenon DEF Remove, At
  <2>2. Locals' = Locals /\ localQ' = localQ BY <1>4, <1>13, <2>1, LocalsMove, Zenon DEF Remove
  <2>3. CASE RemovePosted(o) /\ ctxs' = ctxs \ {o} /\ chRef' = chRef - 1
    <3>1. o \in ctxs BY <1>5, <1>13, <2>3, Taken, Zenon DEF Remove
    <3>2. Cardinality(ctxs') = Cardinality(ctxs) - 1 BY <1>1, <2>3, <3>1, OneMore, Zenon
    <3>3. chRef' = chRef - 1 BY <2>3, Zenon
    <3>4. QED BY <1>2, <1>3, <1>6, <2>2, <3>2, <3>3
  <2>4. CASE UNCHANGED <<ctxs, chRef>> BY <1>2, <1>6, <2>2, <2>4, Zenon
  <2>5. QED BY <1>13, <2>3, <2>4, Zenon DEF Remove
<1>14. QED BY <1>9, <1>10, <1>11, <1>12, <1>13, Zenon DEF Poster

\* A step of the worker: it drops the reference of the event, and of the context it completes.
LEMMA WorkerRefs == ASSUME CompInv, RefsBalance, Worker PROVE RefsBalance'
<1>1. Types /\ localQ \in Seq(Ops) /\ ctxs \in SUBSET Ops BY Zenon DEF CompInv, Types
<1>2. chRef = Cardinality(ctxs) + (Len(localQ) + Cardinality(Locals) + Busy) + Cleared
  BY RefsTerms, Zenon
<1>3. /\ Cardinality(ctxs) \in Nat /\ Cardinality(Locals) \in Nat /\ Len(localQ) \in Nat
      /\ Busy \in Nat /\ Cleared \in Nat
  BY <1>1, Counts, Zenon
<1>4. UNCHANGED <<op, kp>> BY Zenon DEF Worker, WorkerTake, WorkerRemove, WorkerRun
<1>5. Locals' = Locals /\ Cleared' = Cleared BY <1>4, Zenon DEF Locals, Cleared
<1>6. wk.pc = "idle" <=> wk.o = None BY Zenon DEF CompInv, PhaseInv, WorkerInv
<1>7. SUFFICES chRef' = Cardinality(ctxs') + (Len(localQ') + Cardinality(Locals') + Busy') + Cleared'
  BY RefsTerms, Zenon DEF RefsBalance, Events, Locals, Busy, Cleared, At
<1>8. CASE WorkerTake
  <2>1. Len(localQ') = Len(localQ) - 1 /\ Head(localQ) \in Ops /\ Head(localQ) # None
    <3>1. localQ # <<>> /\ localQ' = Tail(localQ) BY <1>8, Zenon DEF WorkerTake
    <3>2. Len(Tail(localQ)) = Len(localQ) - 1 /\ Head(localQ) \in Ops
      BY <1>1, <3>1, TailFacts, Zenon
    <3>3. QED BY <3>1, <3>2, HeadFacts, Zenon
  <2>2. Busy = 0 /\ ctxs' = ctxs BY <1>6, <1>8, Zenon DEF WorkerTake, Busy
  <2>3. CASE wk' = [pc |-> "remove", o |-> Head(localQ)] /\ UNCHANGED chRef
    <3>1. Busy' = 1 BY <2>1, <2>3, Zenon DEF Busy
    <3>2. QED BY <1>2, <1>3, <1>5, <2>1, <2>2, <2>3, <3>1
  <2>4. CASE chRef' = chRef - 1 /\ UNCHANGED wk
    <3>1. Busy' = 0 BY <2>2, <2>4, Zenon DEF Busy
    <3>2. QED BY <1>2, <1>3, <1>5, <2>1, <2>2, <2>4, <3>1
  <2>5. QED BY <1>8, <2>3, <2>4, Zenon DEF WorkerTake
<1>9. CASE WorkerRemove
  <2>1. Busy = 1 BY <1>6, <1>9, Zenon DEF WorkerRemove, Busy
  <2>2. UNCHANGED <<ctxs, localQ>> BY <1>9, Zenon DEF WorkerRemove
  <2>3. CASE wk' = [wk EXCEPT !.pc = "run"] /\ UNCHANGED chRef
    <3>1. Busy' = Busy BY <1>1, <2>3, Zenon DEF Busy, Types
    <3>2. QED BY <1>2, <1>5, <2>2, <2>3, <3>1, Zenon
  <2>4. CASE wk' = [pc |-> "idle", o |-> None] /\ chRef' = chRef - 1
    <3>1. Busy' = 0 BY <2>4, Zenon DEF Busy
    <3>2. QED BY <1>2, <1>3, <1>5, <2>1, <2>2, <2>4, <3>1
  <2>5. QED BY <1>9, <2>3, <2>4, Zenon DEF WorkerRemove
<1>10. CASE WorkerRun
  <2>1. Busy = 1 /\ wk.o \in ctxs /\ wk.o \in Ops
    BY <1>1, <1>6, <1>10, Zenon DEF WorkerRun, Busy, CompInv, DoneInv, RunOk, Types
  <2>2. Busy' = 0 BY <1>10, Zenon DEF WorkerRun, Busy
  <2>3. Cardinality(ctxs') = Cardinality(ctxs) - 1
    BY <1>1, <1>10, <2>1, OneMore, Zenon DEF WorkerRun, Complete
  <2>4. chRef' = chRef - 2 /\ localQ' = localQ BY <1>10, Zenon DEF WorkerRun, Complete
  <2>5. QED BY <1>2, <1>3, <1>5, <2>1, <2>2, <2>3, <2>4
<1>11. QED BY <1>8, <1>9, <1>10, Zenon DEF Worker

\* A step of the keeper: it drops the reference of each context it completes, then its own and
\* the endpoint's.
LEMMA KeeperRefs == ASSUME CompInv, RefsBalance, Keeper PROVE RefsBalance'
<1>1. Types /\ ctxs \in SUBSET Ops /\ kp \in [pc : KpPcs, o : Ops \cup {None}]
  BY Zenon DEF CompInv, Types
<1>2. chRef = Cardinality(ctxs) + (Len(localQ) + Cardinality(Locals) + Busy) + Cleared
  BY RefsTerms, Zenon
<1>3. /\ Cardinality(ctxs) \in Nat /\ Cardinality(Locals) \in Nat /\ Len(localQ) \in Nat
      /\ Busy \in Nat /\ Cleared \in Nat
  BY <1>1, Counts, Zenon
<1>4. UNCHANGED <<op, wk, localQ>>
  BY Zenon DEF Keeper, Break, EpBroken, Detach, Walk, WalkEnd, Release
<1>5. Locals' = Locals /\ Busy' = Busy BY <1>4, Zenon DEF Locals, Busy
<1>6. SUFFICES chRef' = Cardinality(ctxs') + (Len(localQ') + Cardinality(Locals') + Busy') + Cleared'
  BY RefsTerms, Zenon DEF RefsBalance, Events, Locals, Busy, Cleared, At
<1>7. CASE Walk
  <2>1. kp.o \in Ops BY <1>1, <1>7, Zenon DEF Walk
  <2>2. kp.o \in ctxs BY <1>7, <2>1, Zenon DEF Walk, CompInv, DoneInv, WalkOk, DoneOk
  <2>3. Cardinality(ctxs') = Cardinality(ctxs) - 1
    BY <1>1, <1>7, <2>1, <2>2, OneMore, Zenon DEF Walk, Complete
  <2>4. chRef' = chRef - 1 BY <1>7, Zenon DEF Walk, Complete
  <2>5. Cleared' = Cleared BY <1>1, <1>7, Zenon DEF Walk, Cleared
  <2>6. QED BY <1>2, <1>3, <1>4, <1>5, <2>3, <2>4, <2>5
<1>8. CASE Break \/ EpBroken \/ Detach \/ WalkEnd \/ Release
  <2>1. ctxs' = ctxs BY <1>8, Zenon DEF Break, EpBroken, Detach, WalkEnd, Release
  <2>2. \/ Cleared' = Cleared /\ chRef' = chRef
        \/ Cleared' = Cleared - 1 /\ chRef' = chRef - 1
    BY <1>1, <1>8 DEF Break, EpBroken, Detach, WalkEnd, Release, Heads, Cleared
  <2>3. QED BY <1>2, <1>3, <1>4, <1>5, <2>1, <2>2
<1>9. QED BY <1>7, <1>8, Zenon DEF Keeper

\* The reference count of the channel is, in every state, the number of contexts out of their
\* pool, of local events on their way to the worker or with it, and of the pointers that the
\* endpoint and the keeper have: for any number of operations in flight the channel is not
\* destroyed while one of these uses it, and nothing is left that would keep it.
THEOREM ReferencesBalance == ASSUME Prompt PROVE Spec => []RefsBalance
<1>1. Init => CompInv /\ RefsBalance
  <2> SUFFICES ASSUME Init PROVE RefsBalance BY InitComp, Zenon
  <2>1. Locals = {} /\ ctxs = {} BY Zenon DEF Init, Locals
  <2>2. Cardinality({}) = 0 BY FS_EmptySet, Zenon
  <2>3. Len(localQ) = 0 /\ Busy = 0 /\ Cleared = 2 /\ chRef = 2 BY Zenon DEF Init, Busy, Cleared
  <2>4. chRef = Cardinality(ctxs) + (Len(localQ) + Cardinality(Locals) + Busy) + Cleared
    BY <2>1, <2>2, <2>3
  <2>5. QED BY <2>4, RefsTerms, Zenon
<1>2. CompInv /\ RefsBalance /\ [Next]_vars => CompInv' /\ RefsBalance'
  <2> SUFFICES ASSUME CompInv, RefsBalance, [Next]_vars PROVE RefsBalance' BY NextComp, Zenon
  <2>1. CASE Close \/ Peer \/ UNCHANGED vars
    <3>1. UNCHANGED <<chRef, ctxs, localQ, op, wk, kp>>
      BY <2>1, Zenon DEF Close, Peer, PeerReceive, PeerMarkFree, PeerDrop, vars
    <3>2. QED BY <3>1, Zenon DEF RefsBalance, Events, At
  <2>2. QED BY <2>1, PosterRefs, WorkerRefs, KeeperRefs, Zenon DEF Next
<1>3. QED BY <1>1, <1>2, PTL DEF Spec

-----------------------------------------------------------------------------
(* A pool that is large enough *)

\* The pool has a context for every send.
Roomy == Cardinality(Ops \ OneSided) <= Pool

\* A thread that goes on from where it took its context.
LEMMA PoolKept == ASSUME Types, PoolInv, Next PROVE PoolInv'
<1>1. op \in [Ops -> OpRec] BY Zenon DEF Types
<1>2. ASSUME NEW o \in Ops, Poster(o) PROVE PoolInv'
  <2>1. \A x \in Ops : x # o => op'[x] = op[x] BY <1>2, PosterMoves, Zenon
  <2>2. \A p \in Pcs : Go(o, p) => op'[o].pc = p BY <1>1, GoFacts, Zenon
  <2>3. CASE At(o, "idle") \/ At(o, "post") \/ At(o, "enq") \/ (At(o, "ctx") /\ ctxs' = ctxs)
    <3>1. ctxs' = ctxs
      BY <1>2, <2>3, Zenon DEF Poster, Occupy, Post, Enqueue, GetCtx, Add, Local, Remove, Free, At
    <3>2. o \notin ctxs BY <2>3, Zenon DEF PoolInv, At
    <3>3. QED BY <2>1, <3>1, <3>2, Zenon DEF PoolInv
  <2>4. CASE GetCtx(o) /\ ctxs' # ctxs
    <3>1. op'[o].pc = "add" /\ ctxs' = ctxs \cup {o}
      BY <2>2, <2>4, PcFacts, Zenon DEF GetCtx
    <3>2. QED BY <2>1, <3>1, Zenon DEF PoolInv
  <2>5. CASE Add(o) \/ Local(o) \/ Remove(o) \/ Free(o)
    <3>1. op'[o].pc \in {"local", "posted", "remove", "free", "failed"}
      BY <2>2, <2>5, PcFacts, Zenon DEF Add, Local, Remove, Free
    <3>2. ctxs' \subseteq ctxs BY <2>5, Zenon DEF Add, Local, Remove, Free
    <3>3. QED BY <2>1, <3>1, <3>2, Zenon DEF PoolInv
  <2>6. QED BY <1>2, <2>3, <2>4, <2>5, Zenon DEF Poster, Occupy, Post, Enqueue, GetCtx
<1>3. CASE Worker \/ Close \/ Keeper \/ Peer
  <2>1. op' = op
    BY <1>3, Zenon DEF Worker, WorkerTake, WorkerRemove, WorkerRun, Close, Keeper, Break, EpBroken,
                       Detach, Walk, WalkEnd, Release, Peer, PeerReceive, PeerMarkFree, PeerDrop
  <2>2. \A x : x \in ctxs' => x \in ctxs
    <3>1. CASE WorkerRun \/ Walk BY <3>1, Zenon DEF WorkerRun, Walk, Complete
    <3>2. CASE ~(WorkerRun \/ Walk)
      BY <1>3, <3>2, Zenon DEF Worker, WorkerTake, WorkerRemove, Close, Keeper, Break, EpBroken,
                         Detach, WalkEnd, Release, Peer, PeerReceive, PeerMarkFree, PeerDrop
    <3>3. QED BY <3>1, <3>2, Zenon
  <2>3. QED BY <2>1, <2>2, Zenon DEF PoolInv
<1>4. QED BY <1>2, <1>3, Zenon DEF Next

\* A pool with a context for every send is never exhausted: the thread that takes one has none.
LEMMA RoomyRoom == ASSUME Roomy, Types, PoolInv PROVE Room
<1> SUFFICES ASSUME NEW o \in Ops \ OneSided, op[o].pc = "ctx"
             PROVE  Cardinality({x \in ctxs : HeadOf(x) = HeadOf(o)}) < Pool
  BY Zenon DEF Room
<1> DEFINE S == Ops \ OneSided
           T == {x \in ctxs : HeadOf(x) = HeadOf(o)}
<1>1. o \notin ctxs BY Zenon DEF PoolInv
<1>2. T \subseteq S \ {o} BY <1>1, Zenon DEF Types, HeadOf
<1>3. IsFiniteSet(Ops) /\ S \subseteq Ops BY OpsAssumption, Zenon
<1>4. IsFiniteSet(S) BY <1>3, FS_Subset, Zenon
<1>5. IsFiniteSet(S \ {o}) /\ Cardinality(S \ {o}) = Cardinality(S) - 1
  BY <1>4, FS_RemoveElement, Zenon
<1>6. IsFiniteSet(T) /\ Cardinality(T) <= Cardinality(S \ {o}) BY <1>2, <1>5, FS_Subset, Zenon
<1>7. Cardinality(T) \in Nat /\ Cardinality(S) \in Nat
  BY <1>4, <1>6, FS_CardinalityType, Zenon
<1>8. Cardinality(S) <= Pool /\ Pool \in Nat BY BoundsAssumption, Zenon DEF Roomy
<1> HIDE DEF S, T
<1>9. Cardinality(T) < Pool BY <1>5, <1>6, <1>7, <1>8
<1>10. QED BY <1>9, Zenon DEF T

\* The same without a condition on the run when the pool has a context for every send.
THEOREM MessagesIntactRoomy == ASSUME Roomy PROVE Spec => []IntactIfAccepted
<1> DEFINE I == Types /\ WorkerInv /\ PoolInv
<1>1. Init => I
  <2>1. Init => PoolInv BY Zenon DEF Init, PoolInv
  <2>2. QED BY <2>1, InitComp, Zenon DEF CompInv, PhaseInv
<1>2. I /\ [Next]_vars => I'
  <2>1. PoolInv /\ UNCHANGED vars => PoolInv' BY Zenon DEF PoolInv, vars
  <2>2. QED BY <2>1, NextTypes, PoolKept, Zenon
<1>3. I => Room BY RoomyRoom, Zenon
<1>4. Spec /\ []Room => []IntactIfAccepted BY MessagesIntact, Zenon
<1> HIDE DEF I
<1>5. QED BY <1>1, <1>2, <1>3, <1>4, PTL DEF Spec
=============================================================================
