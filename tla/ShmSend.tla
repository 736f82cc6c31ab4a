------------------------------- MODULE ShmSend -------------------------------
(***************************************************************************)
(* Asynchronous operations on one shared-memory channel: sends, which go   *)
(* through a bucket of the data channel and an event in the peer's queue,  *)
(* and one-sided reads and writes, which copy directly.  Either kind gets  *)
(* a context from the worker's pool, puts it on the channel's list of      *)
(* posted contexts, and sends the worker a local event; the worker takes   *)
(* the context off the list and runs the completion.  When the channel     *)
(* breaks, the keeper thread detaches the lists and completes what is on   *)
(* them.  Every context and every local event holds a channel reference.   *)
(*                                                                         *)
(* The queues are FIFO (see ShmQueue).  An operation, the context it uses  *)
(* and the message it sends have the same name.                            *)
(***************************************************************************)
EXTENDS Integers, Sequences, FiniteSets

CONSTANTS
    Ops,       \* operations, by one thread each
    OneSided,  \* those that are reads or writes
    Buckets,   \* of the data channel
    Pool,      \* contexts in each of the worker's two pools
    LocalCap,  \* capacity left for local events in the worker's queue
    PeerCap,   \* capacity of the peer's queue
    Prompt,    \* a sender that saw CH_NEW has its context on the list before the keeper looks
    None

ASSUME OpsAssumption ==
    /\ IsFiniteSet(Ops) /\ OneSided \subseteq Ops
    /\ None \notin Ops \cup Buckets
    /\ {"comp", "ctx"} \cap (Ops \cup {None}) = {}
ASSUME BoundsAssumption == Pool \in Nat /\ LocalCap \in Nat /\ PeerCap \in Nat
ASSUME PromptAssumption == Prompt \in BOOLEAN

VARIABLES
    conn,      \* the connection between the two keepers is open
    chNew,     \* mState = CH_NEW
    epUp,      \* the endpoint's state is NEP_ESTABLISHED
    occ,       \* occupied buckets
    content,   \* bucket -> the message written to it last
    op,        \* per operation: program counter, bucket, and whether its event was enqueued
    peerQ,     \* events in the peer's queue: <<operation, bucket>>
    localQ,    \* local events in the worker's queue
    next,      \* the posted lists: list head or context -> context
    prev,      \* context -> list head or context
    count,     \* mCompPostedCount, mCtxPostedCount
    ctxs,      \* contexts not in their pool
    chRef,     \* reference count of the channel
    comp,      \* per operation: how often its completion ran
    wk,        \* the worker: program counter and operation
    kp,        \* the keeper: program counter and operation
    peer,      \* the peer's worker: the event it handles
    got        \* history: <<o, m>>: for the event of o the peer was given message m

lists == <<next, prev, count>>
vars == <<conn, chNew, epUp, occ, content, op, peerQ, localQ, lists, ctxs, chRef, comp, wk, kp,
          peer, got>>

\* The heads mCompPosted and mCtxPosted.
Heads == {"comp", "ctx"}
HeadOf(o) == IF o \in OneSided THEN "ctx" ELSE "comp"

\* The endpoint, the keeper's map and the contexts and events hold references.
Init ==
    /\ conn = TRUE /\ chNew = TRUE /\ epUp = TRUE
    /\ occ = {} /\ content = [b \in Buckets |-> None]
    /\ op = [o \in Ops |-> [pc |-> "idle", buck |-> None, sent |-> FALSE]]
    /\ peerQ = <<>> /\ localQ = <<>>
    /\ next = [x \in Ops \cup Heads |-> None]
    /\ prev = [o \in Ops |-> None]
    /\ count = [h \in Heads |-> 0]
    /\ ctxs = {} /\ chRef = 2
    /\ comp = [o \in Ops |-> 0]
    /\ wk = [pc |-> "idle", o |-> None]
    /\ kp = [pc |-> "idle", o |-> None]
    /\ peer = <<>> /\ got = <<>>

-----------------------------------------------------------------------------
(* ShmChannel: the lists of posted contexts *)

\* AddOpCompInfo, AddOpCtxInfo: insertion behind the head.
AddPosted(o) ==
    LET h == HeadOf(o) f == next[h] IN
    /\ next' = [next EXCEPT ![o] = f, ![h] = o]
    /\ prev' = [x \in Ops |-> IF x = o THEN h ELSE IF x = f THEN o ELSE prev[x]]
    /\ count' = [count EXCEPT ![h] = @ + 1]

\* RemoveOpCompInfo, RemoveOpCtxInfo return SH_OK, or SH_OP_CTX_REMOVED.
Removable(o) == count[HeadOf(o)] # 0 /\ prev[o] # None

RemovePosted(o) ==
    /\ Removable(o)
    /\ next' = [next EXCEPT ![prev[o]] = next[o], ![o] = None]
    /\ prev' = [x \in Ops |-> IF x = o THEN None ELSE IF x = next[o] THEN prev[o] ELSE prev[x]]
    /\ count' = [count EXCEPT ![HeadOf(o)] = @ - 1]

\* GetCompPosted, GetCtxPosted: the contexts keep their links.
DetachPosted(h) ==
    /\ next' = [next EXCEPT ![h] = None]
    /\ count' = [count EXCEPT ![h] = 0]
    /\ UNCHANGED prev

\* HandleReqPosted, OneSideDone: the completion runs, the context goes back to the pool and
\* its channel reference is dropped.
Complete(o, refs) ==
    /\ comp' = [comp EXCEPT ![o] = @ + 1]
    /\ ctxs' = ctxs \ {o}
    /\ chRef' = chRef - refs

-----------------------------------------------------------------------------
(* The thread that posts an operation *)

At(o, pc) == op[o].pc = pc
Go(o, pc) == op' = [op EXCEPT ![o].pc = pc]

\* Mutant: a bucket is taken without a compare-and-swap of its state.
OccupyAny(o) ==
    /\ At(o, "idle")
    /\ epUp
    /\ IF o \in OneSided THEN Go(o, "post") /\ UNCHANGED <<occ, content>>
       ELSE \E b \in Buckets :
                /\ occ' = occ \cup {b}
                /\ content' = [content EXCEPT ![b] = o]
                /\ op' = [op EXCEPT ![o].pc = "post", ![o].buck = b]
    /\ UNCHANGED <<conn, chNew, epUp, peerQ, localQ, lists, ctxs, chRef, comp, wk, kp, peer, got>>

\* Validation of the endpoint's state; a send then occupies a bucket and writes the message,
\* or gives up when there is none (SH_TIME_OUT).
Occupy(o) ==
    /\ At(o, "idle")
    /\ \/ ~epUp /\ Go(o, "failed") /\ UNCHANGED <<occ, content>>
       \/ epUp /\ o \in OneSided /\ Go(o, "post") /\ UNCHANGED <<occ, content>>
       \/ /\ epUp /\ o \notin OneSided
          /\ \E b \in Buckets \ occ :
                /\ occ' = occ \cup {b}
                /\ content' = [content EXCEPT ![b] = o]
                /\ op' = [op EXCEPT ![o].pc = "post", ![o].buck = b]
       \/ /\ epUp /\ o \notin OneSided /\ occ = Buckets
          /\ Go(o, "failed")
          /\ UNCHANGED <<occ, content>>
    /\ UNCHANGED <<conn, chNew, epUp, peerQ, localQ, lists, ctxs, chRef, comp, wk, kp, peer, got>>

\* PostSend, PostReadWrite: the state of the channel, or a failure to encrypt or copy the data.
Post(o) ==
    /\ At(o, "post")
    /\ \/ Go(o, "free")
       \/ chNew /\ Go(o, IF o \in OneSided THEN "ctx" ELSE "enq")
    /\ UNCHANGED <<conn, chNew, epUp, occ, content, peerQ, localQ, lists, ctxs, chRef, comp, wk, kp,
                   peer, got>>

\* The endpoint's loop repeats the post while there is time and the endpoint is established,
\* on SH_RETRY_FULL and SH_OP_CTX_FULL.
Again(o) == Go(o, "free") \/ (epUp /\ Go(o, "post"))

\* EQEventEnqueue: the event for the peer.
Enqueue(o) ==
    /\ At(o, "enq")
    /\ IF Len(peerQ) < PeerCap
         THEN /\ peerQ' = Append(peerQ, <<o, op[o].buck>>)
              /\ op' = [op EXCEPT ![o].pc = "ctx", ![o].sent = TRUE]
         ELSE Again(o) /\ UNCHANGED peerQ
    /\ UNCHANGED <<conn, chNew, epUp, occ, content, localQ, lists, ctxs, chRef, comp, wk, kp,
                   peer, got>>

\* The context, and the channel reference it holds.
GetCtx(o) ==
    /\ At(o, "ctx")
    /\ IF Cardinality({x \in ctxs : HeadOf(x) = HeadOf(o)}) < Pool
         THEN ctxs' = ctxs \cup {o} /\ chRef' = chRef + 1 /\ Go(o, "add")
         ELSE Again(o) /\ UNCHANGED <<ctxs, chRef>>
    /\ UNCHANGED <<conn, chNew, epUp, occ, content, peerQ, localQ, lists, comp, wk, kp, peer, got>>

\* Mutant: the local event holds no reference.
AddNoRef(o) ==
    /\ At(o, "add")
    /\ AddPosted(o)
    /\ Go(o, "local")
    /\ UNCHANGED <<conn, chNew, epUp, occ, content, peerQ, localQ, ctxs, chRef, comp, wk, kp,
                   peer, got>>

\* The list, and the reference of the local event.
Add(o) ==
    /\ At(o, "add")
    /\ AddPosted(o)
    /\ chRef' = chRef + 1
    /\ Go(o, "local")
    /\ UNCHANGED <<conn, chNew, epUp, occ, content, peerQ, localQ, ctxs, comp, wk, kp, peer, got>>

\* SendLocalEvent; on a full queue SH_CH_BROKEN when the channel is broken, else another try
\* or, when the time is over, SH_SEND_COMPLETION_CALLBACK_FAILURE.
Local(o) ==
    /\ At(o, "local")
    /\ IF Len(localQ) < LocalCap
         THEN localQ' = Append(localQ, o) /\ Go(o, "posted") /\ UNCHANGED chRef
         ELSE /\ chRef' = chRef - 1
              /\ Go(o, IF chNew THEN "remove" ELSE "free")
              /\ UNCHANGED localQ
    /\ UNCHANGED <<conn, chNew, epUp, occ, content, peerQ, lists, ctxs, comp, wk, kp, peer, got>>

\* After that failure the sender takes its context back, unless the keeper has it.
Remove(o) ==
    /\ At(o, "remove")
    /\ Go(o, "free")
    /\ \/ RemovePosted(o) /\ ctxs' = ctxs \ {o} /\ chRef' = chRef - 1
       \/ ~Removable(o) /\ UNCHANGED <<lists, ctxs, chRef>>
    /\ UNCHANGED <<conn, chNew, epUp, occ, content, peerQ, localQ, comp, wk, kp, peer, got>>

\* DCMarkBuckFree on every failure.
Free(o) ==
    /\ At(o, "free")
    /\ Go(o, "failed")
    /\ occ' = occ \ {op[o].buck}
    /\ UNCHANGED <<conn, chNew, epUp, content, peerQ, localQ, lists, ctxs, chRef, comp, wk, kp,
                   peer, got>>

Poster(o) ==
    \/ Occupy(o) \/ Post(o) \/ Enqueue(o) \/ GetCtx(o) \/ Add(o) \/ Local(o) \/ Remove(o)
    \/ Free(o)

-----------------------------------------------------------------------------
(* The worker: HANDLE_OP of a local event *)

\* Mutant: the result of the removal is ignored.
WorkerAnyway ==
    /\ wk.pc = "remove"
    /\ wk' = [wk EXCEPT !.pc = "run"]
    /\ IF Removable(wk.o) THEN RemovePosted(wk.o) ELSE UNCHANGED lists
    /\ UNCHANGED <<conn, chNew, epUp, occ, content, op, peerQ, localQ, ctxs, chRef, comp, kp,
                   peer, got>>

\* Mutant: a dropped event keeps its reference.
WorkerTakeKeep ==
    /\ wk.pc = "idle"
    /\ localQ # <<>>
    /\ localQ' = Tail(localQ)
    /\ IF chNew THEN wk' = [pc |-> "remove", o |-> Head(localQ)] ELSE UNCHANGED wk
    /\ UNCHANGED <<conn, chNew, epUp, occ, content, op, peerQ, lists, ctxs, chRef, comp, kp,
                   peer, got>>

\* On a broken channel the event is dropped: the keeper completes.
WorkerTake ==
    /\ wk.pc = "idle"
    /\ localQ # <<>>
    /\ localQ' = Tail(localQ)
    /\ IF chNew THEN wk' = [pc |-> "remove", o |-> Head(localQ)] /\ UNCHANGED chRef
                ELSE chRef' = chRef - 1 /\ UNCHANGED wk
    /\ UNCHANGED <<conn, chNew, epUp, occ, content, op, peerQ, lists, ctxs, comp, kp, peer, got>>

WorkerRemove ==
    /\ wk.pc = "remove"
    /\ \/ RemovePosted(wk.o) /\ wk' = [wk EXCEPT !.pc = "run"] /\ UNCHANGED chRef
       \/ /\ ~Removable(wk.o)
          /\ wk' = [pc |-> "idle", o |-> None]
          /\ chRef' = chRef - 1
          /\ UNCHANGED lists
    /\ UNCHANGED <<conn, chNew, epUp, occ, content, op, peerQ, localQ, ctxs, comp, kp, peer, got>>

\* The completion, and the reference of the event.
WorkerRun ==
    /\ wk.pc = "run"
    /\ wk' = [pc |-> "idle", o |-> None]
    /\ Complete(wk.o, 2)
    /\ UNCHANGED <<conn, chNew, epUp, occ, content, op, peerQ, localQ, lists, kp, peer, got>>

Worker == WorkerTake \/ WorkerRemove \/ WorkerRun

-----------------------------------------------------------------------------
(* The keeper *)

\* Either side closes the connection, or dies; each side notices in its own time.
Close ==
    /\ conn
    /\ conn' = FALSE
    /\ UNCHANGED <<chNew, epUp, occ, content, op, peerQ, localQ, lists, ctxs, chRef, comp, wk, kp,
                   peer, got>>

\* HandleEpollEvent: a pointer to the channel, RemoveShmChannel takes the map's.
Break ==
    /\ ~conn
    /\ kp.pc = "idle"
    /\ kp' = [kp EXCEPT !.pc = "ep"]
    /\ chNew' = FALSE
    /\ UNCHANGED <<conn, epUp, occ, content, op, peerQ, localQ, lists, ctxs, chRef, comp, wk,
                   peer, got>>

\* ProcessEpError: the endpoint's state, then the two lists one after the other.
EpBroken ==
    /\ kp.pc = "ep"
    /\ kp' = [kp EXCEPT !.pc = "comp"]
    /\ epUp' = FALSE
    /\ UNCHANGED <<conn, chNew, occ, content, op, peerQ, localQ, lists, ctxs, chRef, comp, wk,
                   peer, got>>

Detach ==
    /\ kp.pc \in Heads
    /\ Prompt => \A o \in Ops : op[o].pc \notin {"enq", "ctx", "add"}
    /\ kp' = [pc |-> IF kp.pc = "comp" THEN "walkcomp" ELSE "walkctx", o |-> next[kp.pc]]
    /\ DetachPosted(kp.pc)
    /\ UNCHANGED <<conn, chNew, epUp, occ, content, op, peerQ, localQ, ctxs, chRef, comp, wk,
                   peer, got>>

\* Mutant: the loop ends after the first context.
WalkOne ==
    /\ kp.pc \in {"walkcomp", "walkctx"}
    /\ kp.o # None
    /\ Complete(kp.o, 1)
    /\ kp' = [kp EXCEPT !.o = None]
    /\ UNCHANGED <<conn, chNew, epUp, occ, content, op, peerQ, localQ, lists, wk, peer, got>>

\* The loops over the detached contexts.
Walk ==
    /\ kp.pc \in {"walkcomp", "walkctx"}
    /\ kp.o # None
    /\ Complete(kp.o, 1)
    /\ kp' = [kp EXCEPT !.o = next[kp.o]]
    /\ UNCHANGED <<conn, chNew, epUp, occ, content, op, peerQ, localQ, lists, wk, peer, got>>

\* After the second list the endpoint's broken handler, DestroyEndpoint, and the keeper's pointer.
WalkEnd ==
    /\ kp.pc \in {"walkcomp", "walkctx"}
    /\ kp.o = None
    /\ IF kp.pc = "walkcomp" THEN kp' = [kp EXCEPT !.pc = "ctx"] /\ UNCHANGED chRef
                             ELSE kp' = [kp EXCEPT !.pc = "done"] /\ chRef' = chRef - 1
    /\ UNCHANGED <<conn, chNew, epUp, occ, content, op, peerQ, localQ, lists, ctxs, comp, wk,
                   peer, got>>

\* The delayed release of the endpoint, when no thread uses it any more.
Release ==
    /\ kp.pc = "done"
    /\ \A o \in Ops : op[o].pc \in {"idle", "posted", "failed"}
    /\ kp' = [kp EXCEPT !.pc = "released"]
    /\ chRef' = chRef - 1
    /\ UNCHANGED <<conn, chNew, epUp, occ, content, op, peerQ, localQ, lists, ctxs, comp, wk,
                   peer, got>>

Keeper == Break \/ EpBroken \/ Detach \/ Walk \/ WalkEnd \/ Release

-----------------------------------------------------------------------------
(* The peer's worker: HANDLE_OP of a received event *)

\* HandleNewRequest copies the message and calls the upper handler, or fails to.
PeerReceive ==
    /\ peer = <<>>
    /\ peerQ # <<>>
    /\ peer' = Head(peerQ)
    /\ peerQ' = Tail(peerQ)
    /\ got' \in {got, Append(got, <<Head(peerQ)[1], content[Head(peerQ)[2]]>>)}
    /\ UNCHANGED <<conn, chNew, epUp, occ, content, op, localQ, lists, ctxs, chRef, comp, wk, kp>>

\* Mutant: the bucket is not marked free.
PeerForget ==
    /\ peer # <<>>
    /\ peer' = <<>>
    /\ UNCHANGED <<conn, chNew, epUp, occ, content, op, peerQ, localQ, lists, ctxs, chRef, comp,
                   wk, kp, got>>

\* DCMarkPeerBuckFree.
PeerMarkFree ==
    /\ peer # <<>>
    /\ occ' = occ \ {peer[2]}
    /\ peer' = <<>>
    /\ UNCHANGED <<conn, chNew, epUp, content, op, peerQ, localQ, lists, ctxs, chRef, comp, wk,
                   kp, got>>

\* The peer has noticed that the connection is closed, and drops the event.
PeerDrop ==
    /\ ~conn
    /\ peer = <<>>
    /\ peerQ # <<>>
    /\ peerQ' = Tail(peerQ)
    /\ UNCHANGED <<conn, chNew, epUp, occ, content, op, localQ, lists, ctxs, chRef, comp, wk,
                   kp, peer, got>>

Peer == PeerReceive \/ PeerMarkFree \/ PeerDrop

-----------------------------------------------------------------------------
Next ==
    \/ \E o \in Ops : Poster(o)
    \/ Worker
    \/ Close
    \/ Keeper
    \/ Peer

Spec == Init /\ [][Next]_vars

\* Threads run; whether and when the connection is closed is open.
Fairness ==
    /\ \A o \in Ops : WF_vars(Poster(o))
    /\ WF_vars(Worker)
    /\ WF_vars(Keeper)
    /\ WF_vars(Peer)

FairSpec == Spec /\ Fairness

-----------------------------------------------------------------------------
Pcs == {"idle", "post", "enq", "ctx", "add", "local", "posted", "remove", "free", "failed"}

\* The variables have their types.
TypeOK ==
    /\ conn \in BOOLEAN /\ chNew \in BOOLEAN /\ epUp \in BOOLEAN
    /\ occ \subseteq Buckets
    /\ content \in [Buckets -> Ops \cup {None}]
    /\ op \in [Ops -> [pc : Pcs, buck : Buckets \cup {None}, sent : BOOLEAN]]
    /\ peerQ \in Seq(Ops \X Buckets) /\ localQ \in Seq(Ops)
    /\ next \in [Ops \cup Heads -> Ops \cup {None}]
    /\ prev \in [Ops -> Ops \cup Heads \cup {None}]
    /\ count \in [Heads -> Nat]
    /\ ctxs \subseteq Ops /\ chRef \in Nat
    /\ comp \in [Ops -> Nat]
    /\ wk \in [pc : {"idle", "remove", "run"}, o : Ops \cup {None}]
    /\ kp \in [pc : {"idle", "ep", "comp", "walkcomp", "ctx", "walkctx", "done", "released"},
               o : Ops \cup {None}]

\* The completion of an operation runs at most once, whoever of worker, keeper and failing
\* sender handles its context ("ensure not deal twice").
CompletedOnce == \A o \in Ops : comp[o] <= 1

\* The events that hold a channel reference.
Events == Len(localQ) + Cardinality({o \in Ops : At(o, "local")}) + (IF wk.o = None THEN 0 ELSE 1)

\* The channel's reference count is the number of contexts, local events, and the pointers of
\* the endpoint and the keeper: it is not destroyed while one of them uses it.
RefsBalance ==
    chRef = Cardinality(ctxs) + Events
            + (IF kp.pc = "released" THEN 0 ELSE IF kp.pc = "done" THEN 1 ELSE 2)

\* What the peer's handler is given for an event is the message that was posted with it, and
\* it is given each message once: a bucket is not used again while the peer has to read it.
Intact ==
    /\ \A i \in DOMAIN got : got[i][1] = got[i][2]
    /\ \A i, j \in DOMAIN got : i # j => got[i] # got[j]

\* The sends that returned an error, or are about to, after their event reached the peer.
Refused == {o \in Ops : op[o].sent /\ op[o].pc \in {"free", "failed"}}

\* The same, up to the first send that fails after its event was enqueued: on the failure
\* paths before that the bucket is marked free only when the peer has no event for it.
IntactIfAccepted == Refused = {} => Intact

\* An operation that was posted is completed, by the worker or by the keeper.
Completes == \A o \in Ops : At(o, "posted") ~> comp[o] = 1

\* A broken channel is destroyed in the end: no context or event keeps a reference.
Destroyed == kp.pc = "released" ~> chRef = 0

\* As long as the channel works, every occupied bucket is given back.
BucketsReturn == \A b \in Buckets : b \in occ ~> (b \notin occ \/ ~chNew)
=============================================================================
