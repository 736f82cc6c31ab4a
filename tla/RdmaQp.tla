------------------------------- MODULE RdmaQp -------------------------------
(***************************************************************************)
(* Operations on one asynchronous RDMA endpoint and its queue pair.  A     *)
(* posting thread takes a buffer for a send, then for every work request a *)
(* context from the pool and a credit of the queue pair; it puts the       *)
(* context on the list of posted contexts and gives it to the device.  A   *)
(* worker polls completions: a good one takes its context off the list and *)
(* runs the completion, a bad one makes the worker run ProcessEpError,     *)
(* which completes what is on the list.  The heartbeat and the device's    *)
(* event thread run ProcessEpError as well; the first of them does it.     *)
(*                                                                         *)
(* Contexts are used again, also by other endpoints of the worker, while   *)
(* the device may still complete what they stood for before.               *)
(***************************************************************************)
EXTENDS Integers, Sequences, FiniteSets

CONSTANTS
    Sends,    \* two-sided operations, through a buffer of the driver
    Inlines,  \* two-sided operations without a buffer
    Reads,    \* one-sided operations
    Sgls,     \* one-sided operations of two work requests
    Recv,     \* the posted receive
    Other,    \* the operation of another endpoint of the same worker
    Ctxs,     \* contexts of the pool
    Bufs,     \* buffers of the driver
    SendWr,   \* mPostSendMaxWr
    OneWr,    \* mOneSideMaxWr
    Prompt,   \* threads overtake each other only as far as the code expects
    Partial,  \* the device may accept the first of two work requests and refuse the other
    None

Ops == Sends \cup Inlines \cup Reads \cup Sgls
TwoSided == Sends \cup Inlines

\* The head of the list of posted contexts.
Anchor == "mCtxPosted"

ASSUME QpAssumption ==
    /\ Bufs \in Nat /\ SendWr \in Nat /\ OneWr \in Nat
    /\ Prompt \in BOOLEAN /\ Partial \in BOOLEAN
    /\ Ctxs # {} /\ IsFiniteSet(Ctxs) /\ IsFiniteSet(Sends)
    /\ Anchor \notin Ctxs /\ None \notin Ctxs /\ None # Anchor /\ None \notin {0, 1}
    /\ Recv \notin Ops /\ Other \notin Ops /\ None \notin Ops
    /\ Recv # Other /\ Recv # None /\ Other # None
    /\ TwoSided \cap (Reads \cup Sgls) = {} /\ Sends \cap Inlines = {} /\ Reads \cap Sgls = {}

VARIABLES
    epUp,       \* the endpoint's state is NEP_ESTABLISHED
    processed,  \* EPBrokenProcessed
    err,        \* the queue pair is in its error state
    alive,      \* the device still completes work
    op,         \* per operation: program counter and the contexts it posted
    bufs,       \* free buffers
    wr,         \* mPostSendRef, mOneSideRef
    pool,       \* context -> how often it is in the pool
    ctx,        \* context -> the operation it was last used for, qpNum, not INVALID_MAGIC
    list,       \* mCtxPosted and mCtxPostedCount: links and count
    qpRef,      \* reference count of the queue pair
    sgl,        \* refCount of the context shared by two work requests, None when in its pool
    comp,       \* per operation: how often its handler was called
    sq,         \* send queue of the device
    rq,         \* receive queue of the device
    cq,         \* completion queue
    wk,         \* the worker: running, and the completion it handles
    sw,         \* ProcessEpError: the thread, program counter, context and the next, and operations
                \* whose contexts it took before they were posted
    ev,         \* the event thread
    released    \* the endpoint is freed

vars == <<epUp, processed, err, alive, op, bufs, wr, pool, ctx, list, qpRef, sgl, comp, sq, rq, cq,
          wk, sw, ev, released>>
device == <<sq, rq, cq>>
threads == <<wk, sw, ev, released>>
ends == <<epUp, processed, err>>

-----------------------------------------------------------------------------
(* RDMAQp: the list of posted contexts *)

\* AddOpCtxInfo: insertion behind the head.
AddOpCtxInfo(l, c) ==
    LET first == l.next[Anchor] IN
    [next |-> [l.next EXCEPT ![c] = first, ![Anchor] = c],
     prev |-> [x \in Ctxs |-> IF x = c THEN Anchor ELSE IF x = first THEN c ELSE l.prev[x]],
     count |-> l.count + 1]

\* Mutant: the context is counted out and stays linked.
CountOut(l, c) == IF l.prev[c] = None THEN l ELSE [l EXCEPT !.count = @ - 1]

\* RemoveOpCtxInfo: nothing for a context whose prev is null.
RemoveOpCtxInfo(l, c) ==
    LET p == l.prev[c] n == l.next[c] IN
    IF p = None THEN l
    ELSE [next |-> [x \in DOMAIN l.next |-> IF x = c THEN None ELSE IF x = p THEN n ELSE l.next[x]],
          prev |-> [x \in Ctxs |-> IF x = c THEN None ELSE IF x = n THEN p ELSE l.prev[x]],
          count |-> l.count - 1]

\* The contexts of one operation, of which there are two at most, one after the other.
RemoveEach(l, cs) ==
    IF cs = <<>> THEN l
    ELSE LET m == RemoveOpCtxInfo(l, cs[1]) IN IF Len(cs) = 1 THEN m ELSE RemoveOpCtxInfo(m, cs[2])

\* GetCtxPosted: the contexts keep their links.
GetCtxPosted(l) == [next |-> [l.next EXCEPT ![Anchor] = None], prev |-> l.prev, count |-> 0]

Credit(o) == IF o \in TwoSided THEN "send" ELSE "one"
Entries(o) == IF o \in Sgls THEN 2 ELSE 1
InUse(c) == pool[c] = 0
Used(o) == {c \in Ctxs : InUse(c) /\ ctx[c].op = o}

\* NewConnectionCB has posted the receives, here one.  The endpoint holds the queue pair, and so
\* does every context in use.
Init ==
    LET r == CHOOSE c \in Ctxs : TRUE
        none == [next |-> [x \in Ctxs \cup {Anchor} |-> None], prev |-> [c \in Ctxs |-> None],
                 count |-> 0]
    IN
    /\ epUp = TRUE /\ processed = FALSE /\ err = FALSE /\ alive = TRUE
    /\ op = [o \in Ops |-> [pc |-> "idle", ctxs |-> <<>>]]
    /\ bufs = Bufs /\ wr = [send |-> SendWr, one |-> OneWr]
    /\ pool = [c \in Ctxs |-> IF c = r THEN 0 ELSE 1]
    /\ ctx = [c \in Ctxs |-> [op |-> IF c = r THEN Recv ELSE None,
                              qp |-> IF c = r THEN "this" ELSE "none", valid |-> TRUE]]
    /\ list = AddOpCtxInfo(none, r)
    /\ qpRef = 2
    /\ sgl = [o \in Ops |-> None] /\ comp = [o \in Ops |-> 0]
    /\ sq = <<>> /\ rq = <<[c |-> r, o |-> Recv]>> /\ cq = <<>>
    /\ wk = [up |-> TRUE, c |-> None, o |-> None]
    /\ sw = [by |-> None, pc |-> "none", c |-> None, n |-> None, took |-> {}]
    /\ ev = "idle" /\ released = FALSE

-----------------------------------------------------------------------------
(* Completion *)

\* ReturnOpContextInfo: the context goes back, and its reference to the queue pair.
ReturnOpContextInfo(c) == pool' = [pool EXCEPT ![c] = @ + 1] /\ qpRef' = qpRef - 1

\* The handler of the operation is called.
Called(o) == comp' = [comp EXCEPT ![o] = @ + 1]

\* Credit, buffer and context go back, and the handler is called.
SendFinishedCB(c) ==
    LET o == ctx[c].op IN
    /\ o \in TwoSided
    /\ wr' = [wr EXCEPT !.send = @ + 1]
    /\ bufs' = IF o \in Sends THEN bufs + 1 ELSE bufs
    /\ ReturnOpContextInfo(c)
    /\ Called(o)
    /\ UNCHANGED sgl

\* Of two work requests the second returns the shared context, and calls the handler when its own
\* result is good.
OneSideDoneCB(c, ok) ==
    LET o == ctx[c].op IN
    /\ o \in Reads \cup Sgls
    /\ wr' = [wr EXCEPT !.one = @ + 1]
    /\ ReturnOpContextInfo(c)
    /\ \/ o \in Reads /\ Called(o) /\ UNCHANGED sgl
       \/ o \in Sgls /\ sgl[o] = 0 /\ sgl' = [sgl EXCEPT ![o] = 1] /\ UNCHANGED comp
       \/ /\ o \in Sgls /\ sgl[o] # 0
          /\ sgl' = [sgl EXCEPT ![o] = None]
          /\ IF ok THEN Called(o) ELSE UNCHANGED comp
    /\ UNCHANGED bufs

\* A receive that is not used any more goes back without a call of the handler.
ProcessErrorNewRequest(c) ==
    /\ ctx[c].op \notin Ops
    /\ ReturnOpContextInfo(c)
    /\ UNCHANGED <<wr, bufs, sgl, comp>>

resources == <<bufs, wr, pool, qpRef, sgl>>

-----------------------------------------------------------------------------
(* The thread that posts an operation *)

At(o, pc) == op[o].pc = pc

\* PostSendValidation, ReadWriteValidation; a send then takes a buffer and fills it.  It fails when
\* there is none or the message cannot be copied or encrypted.
Validate(o) ==
    /\ At(o, "idle")
    /\ \/ /\ epUp
          /\ o \in Sends => bufs > 0
          /\ op' = [op EXCEPT ![o] = [pc |-> "valid", ctxs |-> <<>>]]
          /\ bufs' = IF o \in Sends THEN bufs - 1 ELSE bufs
       \/ /\ ~epUp \/ o \in Sends
          /\ op' = [op EXCEPT ![o] = [pc |-> "failed", ctxs |-> <<>>]]
          /\ UNCHANGED bufs
    /\ UNCHANGED <<ends, alive, wr, pool, ctx, list, qpRef, sgl, comp, device, threads>>

\* A context of the pool.  The sweep marks a context after it has returned it.
Takable(c) == pool[c] > 0 /\ (Prompt => ~(sw.pc = "mark" /\ sw.c = c))

\* The last reference destroys the queue pair, and its work and completions with it.
Exists == qpRef > 0

\* The device still has the context for this queue pair.
Has(q, c) == \E i \in DOMAIN q : q[i].c = c
Pending(c) == Exists /\ (Has(sq, c) \/ Has(rq, c) \/ Has(cq, c))

\* A thread of this endpoint does not get such a context.
Fresh(c) == Takable(c) /\ (Prompt => ~Pending(c))

\* One context more: credit, reference, list.
Attach(o) ==
    /\ At(o, "valid")
    /\ wr[Credit(o)] > 0
    /\ \E c \in Ctxs :
          /\ Fresh(c)
          /\ pool' = [pool EXCEPT ![c] = @ - 1]
          /\ ctx' = [ctx EXCEPT ![c] = [op |-> o, qp |-> "this", valid |-> TRUE]]
          /\ list' = AddOpCtxInfo(list, c)
          /\ op' = [op EXCEPT ![o] = [pc |-> IF Len(op[o].ctxs) + 1 = Entries(o) THEN "listed" ELSE "valid",
                                      ctxs |-> Append(op[o].ctxs, c)]]
    /\ wr' = [wr EXCEPT ![Credit(o)] = @ - 1]
    /\ qpRef' = qpRef + 1
    /\ sgl' = IF o \in Sgls /\ op[o].ctxs = <<>> THEN [sgl EXCEPT ![o] = 0] ELSE sgl
    /\ UNCHANGED <<ends, alive, bufs, comp, device, threads>>

\* The sweep has the contexts of the operation, or had them.
Overtaken(o) == o \in sw.took

\* The contexts of the operation are taken back: credits, references, list, pool.
TakeBack(o) ==
    LET cs == op[o].ctxs IN
    /\ Prompt => ~Overtaken(o)
    /\ wr' = [wr EXCEPT ![Credit(o)] = @ + Len(cs)]
    /\ qpRef' = qpRef - Len(cs)
    /\ list' = RemoveEach(list, cs)
    /\ pool' = [c \in Ctxs |-> IF \E i \in DOMAIN cs : cs[i] = c THEN pool[c] + 1 ELSE pool[c]]
    /\ sgl' = IF o \in Sgls THEN [sgl EXCEPT ![o] = None] ELSE sgl

\* Mutant: the buffer is forgotten.
GiveUpKeep(o) == op' = [op EXCEPT ![o] = [pc |-> "failed", ctxs |-> <<>>]] /\ UNCHANGED bufs

\* The endpoint's loop ends: the buffer goes back.
GiveUp(o) ==
    /\ op' = [op EXCEPT ![o] = [pc |-> "failed", ctxs |-> <<>>]]
    /\ bufs' = IF o \in Sends THEN bufs + 1 ELSE bufs

\* No context or no credit.  NeedRetry: another try while the endpoint is established and there
\* is time.
Full(o) ==
    /\ At(o, "valid")
    /\ wr[Credit(o)] = 0 \/ \A c \in Ctxs : ~Fresh(c)
    /\ TakeBack(o)
    /\ \/ GiveUp(o)
       \/ epUp /\ op' = [op EXCEPT ![o] = [pc |-> "valid", ctxs |-> <<>>]] /\ UNCHANGED bufs
    /\ UNCHANGED <<ends, alive, ctx, comp, device, threads>>

\* ibv_post_send accepts.
Post(o) ==
    /\ At(o, "listed")
    /\ sq' = sq \o [i \in 1..Entries(o) |-> [c |-> op[o].ctxs[i], o |-> o]]
    /\ op' = [op EXCEPT ![o] = [pc |-> "posted", ctxs |-> <<>>]]
    /\ sw' = [sw EXCEPT !.took = @ \ {o}]
    /\ UNCHANGED <<ends, alive, resources, ctx, list, comp, rq, cq, wk, ev, released>>

\* ibv_post_send refuses, perhaps after it accepted the first of two.
PostRefused(o) ==
    /\ At(o, "listed")
    /\ TakeBack(o)
    /\ GiveUp(o)
    /\ \E k \in 0..(IF Partial THEN Entries(o) - 1 ELSE 0) :
          sq' = sq \o [i \in 1..k |-> [c |-> op[o].ctxs[i], o |-> o]]
    /\ UNCHANGED <<ends, alive, ctx, comp, rq, cq, threads>>

Poster(o) == Validate(o) \/ Attach(o) \/ Full(o) \/ Post(o) \/ PostRefused(o)

-----------------------------------------------------------------------------
(* The device *)

\* The work requests of a queue complete in order; the first failure puts the queue pair into
\* its error state, where all that is left is flushed.
DeviceSend ==
    /\ alive /\ Exists /\ sq # <<>>
    /\ \E ok \in BOOLEAN :
          /\ err => ~ok
          /\ err' = (err \/ ~ok)
          /\ cq' = Append(cq, [c |-> Head(sq).c, o |-> Head(sq).o, ok |-> ok])
    /\ sq' = Tail(sq)
    /\ UNCHANGED <<epUp, processed, alive, op, resources, ctx, list, comp, rq, threads>>

\* A message of the peer, or the flush.
DeviceRecv ==
    /\ alive /\ Exists /\ rq # <<>>
    /\ cq' = Append(cq, [c |-> Head(rq).c, o |-> Recv, ok |-> ~err])
    /\ rq' = Tail(rq)
    /\ UNCHANGED <<ends, alive, op, resources, ctx, list, comp, sq, threads>>

\* The device stops completing.
DeviceDies ==
    /\ alive /\ Exists
    /\ alive' = FALSE
    /\ UNCHANGED <<ends, op, resources, ctx, list, comp, device, threads>>

\* Close: RDMAQp::Stop.
Close ==
    /\ ~released
    /\ ~err
    /\ err' = TRUE
    /\ UNCHANGED <<epUp, processed, alive, op, resources, ctx, list, comp, device, threads>>

\* An operation of another endpoint gets a context that the device still has for this queue pair
\* (any other use looks to this endpoint like an empty pool).
OtherTake ==
    /\ Used(Other) = {}
    /\ \E c \in Ctxs :
          /\ Takable(c) /\ Pending(c)
          /\ pool' = [pool EXCEPT ![c] = @ - 1]
          /\ ctx' = [ctx EXCEPT ![c] = [op |-> Other, qp |-> "other", valid |-> TRUE]]
    /\ UNCHANGED <<ends, alive, op, bufs, wr, qpRef, sgl, list, comp, device, threads>>

-----------------------------------------------------------------------------
(* ProcessEpError, by the worker, the heartbeat or the event thread *)

\* EPBrokenProcessed is set by the first; state of the endpoint, RDMAQp::Stop.
Begin(by) ==
    /\ ~processed
    /\ processed' = TRUE /\ epUp' = FALSE /\ err' = TRUE
    /\ sw' = [by |-> by, pc |-> "detach", c |-> None, n |-> None, took |-> {}]

Detach ==
    /\ sw.pc = "detach"
    /\ Prompt => \A o \in Ops : At(o, "valid") => op[o].ctxs = <<>>
    /\ sw' = [sw EXCEPT !.pc = "walk", !.c = list.next[Anchor],
                        !.took = {o \in Ops : op[o].ctxs # <<>>}]
    /\ list' = GetCtxPosted(list)
    /\ UNCHANGED <<ends, alive, op, resources, ctx, comp, device, wk, ev, released>>

\* ProcessErrorContext completes a context that is not marked; its switch has no case for an
\* inline send.
Walk ==
    /\ sw.pc = "walk" /\ sw.c # None
    /\ sw' = [sw EXCEPT !.pc = "mark", !.n = list.next[sw.c]]
    /\ IF ctx[sw.c].valid /\ ctx[sw.c].op \notin Inlines
       THEN SendFinishedCB(sw.c) \/ OneSideDoneCB(sw.c, FALSE) \/ ProcessErrorNewRequest(sw.c)
       ELSE UNCHANGED <<resources, comp>>
    /\ UNCHANGED <<ends, alive, op, ctx, list, device, wk, ev, released>>

\* Mutant: the loop moves on before it marks.
MarkNext ==
    /\ sw.pc = "mark"
    /\ sw' = [sw EXCEPT !.pc = "walk", !.c = sw.n, !.n = None]
    /\ ctx' = [c \in Ctxs |-> IF c = sw.n THEN [ctx[c] EXCEPT !.qp = "none", !.valid = FALSE]
                              ELSE ctx[c]]
    /\ UNCHANGED <<ends, alive, op, resources, list, comp, device, wk, ev, released>>

\* It then marks the context, which is in the pool by now.
Mark ==
    /\ sw.pc = "mark"
    /\ sw' = [sw EXCEPT !.pc = "walk", !.c = sw.n, !.n = None]
    /\ ctx' = [ctx EXCEPT ![sw.c] = [op |-> ctx[sw.c].op, qp |-> "none", valid |-> FALSE]]
    /\ UNCHANGED <<ends, alive, op, resources, list, comp, device, wk, ev, released>>

\* Mutant: contexts added meanwhile are not looked for.
CheckNot ==
    /\ sw.pc = "walk" /\ sw.c = None
    /\ Prompt => \A o \in Ops : ~At(o, "valid")
    /\ sw' = [sw EXCEPT !.by = None, !.pc = "done"]
    /\ UNCHANGED <<ends, alive, op, resources, ctx, list, comp, device, wk, ev, released>>

\* Contexts added meanwhile are detached as well; then the broken handler and DestroyEndpoint.
Check ==
    /\ sw.pc = "walk" /\ sw.c = None
    /\ \/ list.count # 0 /\ sw' = [sw EXCEPT !.pc = "detach"]
       \/ /\ list.count = 0
          /\ Prompt => \A o \in Ops : ~At(o, "valid")
          /\ sw' = [sw EXCEPT !.by = None, !.pc = "done"]
    /\ UNCHANGED <<ends, alive, op, resources, ctx, list, comp, device, wk, ev, released>>

Sweep == Detach \/ Walk \/ Mark \/ Check
Sweeping(by) == sw.by = by /\ sw.pc \notin {"none", "done"}

\* The endpoint is freed when the driver's map and no caller refer to it any more.
Release ==
    /\ sw.pc = "done" /\ ~released
    /\ \A o \in Ops : op[o].pc \in {"idle", "posted", "failed"}
    /\ released' = TRUE
    /\ qpRef' = qpRef - 1
    /\ UNCHANGED <<ends, alive, op, bufs, wr, pool, sgl, ctx, list, comp, device, wk, sw, ev>>

-----------------------------------------------------------------------------
(* The threads that find the endpoint broken *)

WorkerFree == wk.up /\ wk.c = None /\ ~Sweeping("worker")

\* Mutant: the number of the queue pair is not compared.
AcceptedAny(e) == ctx[e.c].valid

\* PROCESS_POLLING_RESULT drops a completion whose context is marked or is of another queue pair.
Accepted(e) == ctx[e.c].qp = "this" /\ ctx[e.c].valid

Poll ==
    /\ WorkerFree /\ Exists /\ cq # <<>>
    /\ cq' = Tail(cq)
    /\ LET e == Head(cq) IN
       \/ ~Accepted(e) /\ UNCHANGED <<ends, list, wk, sw>>
       \/ /\ Accepted(e) /\ e.ok
          /\ list' = RemoveOpCtxInfo(list, e.c)
          /\ wk' = [wk EXCEPT !.c = e.c, !.o = e.o]
          /\ UNCHANGED <<ends, sw>>
       \/ Accepted(e) /\ ~e.ok /\ ~processed /\ Begin("worker") /\ UNCHANGED <<list, wk>>
       \/ Accepted(e) /\ ~e.ok /\ processed /\ UNCHANGED <<ends, list, wk, sw>>
    /\ UNCHANGED <<alive, op, resources, ctx, comp, sq, rq, ev, released>>

\* SendFinished, OneSideDone.
Run ==
    /\ wk.c # None
    /\ SendFinishedCB(wk.c) \/ OneSideDoneCB(wk.c, TRUE)
    /\ wk' = [wk EXCEPT !.c = None, !.o = None]
    /\ UNCHANGED <<ends, alive, op, ctx, list, device, sw, ev, released>>

\* NewRequest gives the message to the upper layer; then RePostReceive, which the device may refuse.
RePostReceive ==
    /\ wk.c # None /\ ctx[wk.c].op = Recv
    /\ wk' = [wk EXCEPT !.c = None, !.o = None]
    /\ \/ /\ list' = AddOpCtxInfo(list, wk.c)
          /\ rq' = Append(rq, [c |-> wk.c, o |-> Recv])
          /\ UNCHANGED <<qpRef, pool>>
       \/ /\ qpRef' = qpRef - 1
          /\ pool' = [pool EXCEPT ![wk.c] = @ + 1]
          /\ list' = RemoveOpCtxInfo(AddOpCtxInfo(list, wk.c), wk.c)
          /\ UNCHANGED rq
    /\ UNCHANGED <<ends, alive, op, bufs, wr, sgl, ctx, comp, sq, cq, sw, ev, released>>

Worker == Poll \/ Run \/ RePostReceive \/ (sw.by = "worker" /\ Sweep)

\* Mutant: only a queue pair in its error state is found.
HbDetectError ==
    /\ epUp /\ err
    /\ epUp' = FALSE
    /\ UNCHANGED <<processed, err, alive, op, resources, ctx, list, comp, device, wk, sw, ev, released>>

\* DetectSingleEpHbState: the first probe that finds the state abnormal marks the endpoint (which
\* has no effect on one that is being handled).
HbDetect ==
    /\ epUp
    /\ epUp' = FALSE /\ err' = TRUE
    /\ UNCHANGED <<processed, alive, op, resources, ctx, list, comp, device, wk, sw, ev, released>>

\* Mutant: the next probe leaves the endpoint to the event thread.
HbHandleDown ==
    /\ ~epUp /\ ev = "down"
    /\ Begin("hb")
    /\ UNCHANGED <<alive, op, resources, ctx, list, comp, device, wk, ev, released>>

\* The next probe finds it marked (until ProcessEpError nothing else ends NEP_ESTABLISHED) and
\* handles it.
HbHandle ==
    /\ ~epUp
    /\ Prompt => wk.c = None /\ cq = <<>> /\ (alive => sq = <<>> /\ rq = <<>>)
    /\ Begin("hb")
    /\ UNCHANGED <<alive, op, resources, ctx, list, comp, device, wk, ev, released>>

\* HandlePortDown joins the worker, then breaks the endpoints of the port, those that still exist.
PortDown ==
    /\ ev = "idle" /\ WorkerFree /\ ~released
    /\ ev' = "down" /\ wk' = [wk EXCEPT !.up = FALSE]
    /\ UNCHANGED <<ends, alive, op, resources, ctx, list, comp, device, sw, released>>

DestroyEpByPortNum ==
    /\ ev = "down"
    /\ Begin("event")
    /\ UNCHANGED <<alive, op, resources, ctx, list, comp, device, wk, ev, released>>

\* HandlePortActive starts the worker again, with what is in the completion queue.
PortActive ==
    /\ ev = "down" /\ processed /\ ~Sweeping("event")
    /\ ev' = "up" /\ wk' = [wk EXCEPT !.up = TRUE]
    /\ UNCHANGED <<ends, alive, op, resources, ctx, list, comp, device, sw, released>>

-----------------------------------------------------------------------------
Next ==
    \/ \E o \in Ops : Poster(o)
    \/ DeviceSend \/ DeviceRecv \/ DeviceDies
    \/ Close
    \/ OtherTake
    \/ Worker
    \/ (sw.by # "worker" /\ Sweep)
    \/ HbDetect \/ HbHandle
    \/ PortDown \/ DestroyEpByPortNum \/ PortActive
    \/ Release

Spec == Init /\ [][Next]_vars

\* Threads run, the device completes what was posted or flushed until it dies, and the heartbeat
\* finds a queue pair on which nothing is completed any more.  What happens a bounded number of
\* times need not be told apart.
Fairness ==
    /\ WF_vars(\E o \in Ops : Poster(o))
    /\ WF_vars(DeviceSend \/ (err /\ DeviceRecv))
    /\ WF_vars(Worker)
    /\ WF_vars(\/ sw.by # "worker" /\ Sweep
               \/ (err \/ ~alive) /\ HbDetect
               \/ HbHandle \/ DestroyEpByPortNum \/ Release)

FairSpec == Spec /\ Fairness

-----------------------------------------------------------------------------
\* The variables have their types.
TypeOK ==
    /\ epUp \in BOOLEAN /\ processed \in BOOLEAN /\ err \in BOOLEAN /\ alive \in BOOLEAN
    /\ \A o \in Ops : /\ op[o].pc \in {"idle", "valid", "listed", "posted", "failed"}
                      /\ op[o].ctxs \in Seq(Ctxs) /\ Len(op[o].ctxs) <= 2
                      /\ sgl[o] \in {None, 0, 1}
    /\ bufs \in 0..Bufs /\ wr.send \in 0..SendWr /\ wr.one \in 0..OneWr
    /\ pool \in [Ctxs -> 0..1]
    /\ list.next \in [Ctxs \cup {Anchor} -> Ctxs \cup {None}]
    /\ list.prev \in [Ctxs -> Ctxs \cup {Anchor, None}] /\ list.count \in Nat
    /\ \A c \in Ctxs : ctx[c].qp \in {"this", "other", "none"} /\ ctx[c].valid \in BOOLEAN
    /\ qpRef \in Nat
    /\ wk.c \in Ctxs \cup {None} /\ sw.c \in Ctxs \cup {None}
    /\ ev \in {"idle", "down", "up"}

\* The handler of an operation is called at most once, and never for one whose post returned
\* an error.
CompletedOnce ==
    \A o \in Ops : comp[o] <= (IF At(o, "failed") THEN 0 ELSE 1)

\* A good completion is handled with the context of the operation it was posted for.
OwnCompletion == wk.c # None => InUse(wk.c) /\ ctx[wk.c].op = wk.o

\* A context in use is not marked: its completion will be recognised.
Recognised ==
    \A c \in Ctxs : InUse(c) => ctx[c].valid /\ ctx[c].qp = IF ctx[c].op = Other THEN "other" ELSE "this"

\* Credits, buffers and references are those of the contexts in use.
Balance ==
    /\ wr.send + Cardinality(UNION {Used(o) : o \in TwoSided}) = SendWr
    /\ wr.one + Cardinality(UNION {Used(o) : o \in Reads \cup Sgls}) = OneWr
    /\ bufs + Cardinality({o \in Sends : op[o].pc \in {"valid", "listed", "posted"} /\ comp[o] = 0})
         = Bufs
    /\ qpRef = (IF released THEN 0 ELSE 1) + Cardinality({c \in Ctxs : InUse(c) /\ ctx[c].op # Other})

\* When the endpoint is freed no context in use refers to its queue pair: the completion of one
\* would be handed to the endpoint.
NothingLeft == released => ~Exists

\* The handler of an accepted operation is called.
Completes == \A o \in Ops \ Sgls : At(o, "posted") ~> comp[o] > 0

\* A queue pair in its error state is freed.
Freed == err ~> qpRef = 0

=============================================================================
