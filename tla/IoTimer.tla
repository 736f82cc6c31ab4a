------------------------------- MODULE IoTimer -------------------------------
(***************************************************************************)
(* The life of a request's timer object (HcomServiceTimer) on one channel  *)
(* in worker-poll mode.  A user thread prepares the timer and posts the    *)
(* request; then four parties compete for it: the worker that receives the *)
(* completion, the timeout thread of HcomPeriodicManager, the sweep of     *)
(* ProcessIoInBroken when the channel breaks, and the user thread itself   *)
(* when the post fails.  Whoever erases the sequence number from the       *)
(* context store (one atomic step here, see CtxStore) owns the callback;   *)
(* three counted references - io, linked list, timeout queue - keep the    *)
(* object alive, and DecreaseRef gives it back to the pool at zero.        *)
(*                                                                         *)
(* PrepareTimerContext publishes the timer in the list and in the queue    *)
(* before it takes the references for them.  ServiceEndPointBroken sleeps  *)
(* 100us between closing the channel and sweeping it, and the deadline of  *)
(* a timer lies in the future: the code relies on a sender being through   *)
(* PrepareTimerContext by then.  Prompt = TRUE is that assumption.         *)
(***************************************************************************)
EXTENDS Integers, FiniteSets

CONSTANTS
    Reqs,        \* requests, one timer object each
    Sync,        \* the requests made by blocking calls
    Timeout,     \* seconds per request, -1: never (Reqs -> Int)
    None,        \* no timer
    NB,          \* timeout queues per timeout thread (M_MAX_BATCH_NUM)
    MaxClock,    \* bound on the clock
    Prompt,      \* senders finish PrepareTimerContext before sweep, expiry and clean-up
    PoolMayFail, \* the context pool may be exhausted or the number duplicated
    MayStop      \* the service may be stopped

ASSUME SyncAssumption == Sync \subseteq Reqs
ASSUME TimeoutAssumption == Timeout \in [Reqs -> Int]
ASSUME NoneAssumption == None \notin Reqs
ASSUME NBAssumption == NB \in Nat \ {0}
ASSUME MaxClockAssumption == MaxClock \in Nat
ASSUME FlagsAssumption == {Prompt, PoolMayFail, MayStop} \subseteq BOOLEAN

VARIABLES
    clock,     \* NetMonotonic::TimeSec
    chOpen,    \* mChState = CH_ESTABLISHED
    needStop,  \* mNeedStop
    upc,       \* per request: where its user thread is
    deadline,  \* mTimeout, 0: never
    store,     \* timers in the context store
    list,      \* timers in the channel's linked list
    queue,     \* timers in the timeout queues
    bucket,    \* which queue
    nextIdx,   \* nextIndex
    ref,       \* mRefCount
    freed,     \* how often the object was given back to the pool
    finished,  \* mState = CBS_FINISHED
    cb,        \* the callback: "set", "ran", "deleted", or "bad" once misused
    pin,       \* requests with a timer object that holds a channel reference
    net,       \* posted requests whose completion has not been received
    wk,        \* per request: the worker that took its completion
    ppc, pidx, pclean, ptodo, pcur,  \* timeout thread, then clean-up by StopInner
    bpc, bround, btodo, bcur         \* ServiceEndPointBroken / ProcessIoInBroken

user == <<upc, deadline, net>>
per == <<ppc, pidx, pclean, ptodo, pcur>>
brk == <<chOpen, bpc, bround, btodo, bcur>>
vars == <<clock, needStop, user, store, list, queue, bucket, nextIdx, ref, freed,
          finished, cb, pin, wk, per, brk>>

\* Between the channel-state check and the last IncreaseRef of PrepareTimerContext.
Preparing == {"sel", "put", "io", "valid", "link", "linkref", "push"}

Quiet == Prompt => \A r \in Reqs : upc[r] \notin Preparing

Init ==
    /\ clock = 1 /\ chOpen = TRUE /\ needStop = FALSE
    /\ upc = [r \in Reqs |-> "new"]
    /\ deadline = [r \in Reqs |-> 0]
    /\ store = {} /\ list = {} /\ queue = {} /\ net = {}
    /\ bucket = [r \in Reqs |-> 0] /\ nextIdx = 0
    /\ ref = [r \in Reqs |-> 0]
    /\ freed = [r \in Reqs |-> 0]
    /\ finished = [r \in Reqs |-> FALSE]
    /\ cb = [r \in Reqs |-> "set"]
    /\ pin = {}
    /\ wk = [r \in Reqs |-> "none"]
    /\ ppc = "idle" /\ pidx = 0 /\ pclean = FALSE /\ ptodo = {} /\ pcur = None
    /\ bpc = "idle" /\ bround = 1 /\ btodo = {} /\ bcur = None

-----------------------------------------------------------------------------
(* HcomServiceTimer *)

IncreaseRef(r) == ref' = [ref EXCEPT ![r] = @ + 1]

\* At zero the channel reference is dropped and the object returned to the pool.
DecreaseRef(r) ==
    /\ ref' = [ref EXCEPT ![r] = @ - 1]
    /\ IF ref[r] = 1
         THEN freed' = [freed EXCEPT ![r] = @ + 1] /\ pin' = pin \ {r}
         ELSE UNCHANGED <<freed, pin>>

\* Running or deleting a callback object that is gone already is "bad".
RunCallBack(r) == cb' = [cb EXCEPT ![r] = IF @ = "set" THEN "ran" ELSE "bad"]
DeleteCallBack(r) == cb' = [cb EXCEPT ![r] = IF @ = "set" THEN "deleted" ELSE "bad"]

MarkFinished(r) == finished' = [finished EXCEPT ![r] = TRUE]
MarkTimeout(r) == finished' = [finished EXCEPT ![r] = FALSE]

IsTimeOut(r) == deadline[r] # 0 /\ clock > deadline[r]

-----------------------------------------------------------------------------
(* The user thread of a request *)

Goto(r, from, to) == upc[r] = from /\ upc' = [upc EXCEPT ![r] = to]

\* Mutant: the channel state is not checked.
SelectUnchecked(r) ==
    /\ clock + Timeout[r] < MaxClock
    /\ Goto(r, "new", "sel")
    /\ UNCHANGED <<clock, needStop, deadline, net, store, list, queue, bucket, nextIdx,
                   ref, freed, finished, cb, pin, wk, per, brk>>

\* NextWorkerPollEp refuses a channel that is not established; an asynchronous call then
\* destroys its callback, a blocking one has made none yet.  The bound MaxClock leaves room
\* for the deadline of every request that begins.
Select(r) ==
    /\ clock + Timeout[r] < MaxClock
    /\ \/ chOpen /\ Goto(r, "new", "sel") /\ UNCHANGED cb
       \/ ~chOpen /\ Goto(r, "new", "failed")
           /\ IF r \in Sync THEN UNCHANGED cb ELSE DeleteCallBack(r)
    /\ UNCHANGED <<clock, needStop, deadline, net, store, list, queue, bucket, nextIdx,
                   ref, freed, finished, pin, wk, per, brk>>

\* The pool gives an object, the constructor sets the deadline and takes a channel
\* reference, PutAndGetSeqNo stores it.
Alloc(r) ==
    /\ Goto(r, "sel", "put")
    /\ deadline' = [deadline EXCEPT ![r] = IF Timeout[r] < 0 THEN 0 ELSE clock + Timeout[r]]
    /\ pin' = pin \cup {r}
    /\ store' = store \cup {r}
    /\ UNCHANGED <<clock, needStop, net, list, queue, bucket, nextIdx, ref, freed, finished,
                   cb, wk, per, brk>>

\* SER_NEW_OBJECT_FAILED: no object (no channel reference taken), or no sequence number
\* (the reference of the constructor is not given back).  The caller deletes the callback.
AllocFail(r) ==
    /\ PoolMayFail
    /\ Goto(r, "sel", "retry")
    /\ DeleteCallBack(r)
    /\ pin' \in {pin, pin \cup {r}}
    /\ UNCHANGED <<clock, needStop, deadline, net, store, list, queue, bucket, nextIdx, ref,
                   freed, finished, wk, per, brk>>

\* Mutant: a blocking call does not make a new callback.
RetryReusing(r) ==
    /\ Goto(r, "retry", "new") \/ Goto(r, "retry", "failed")
    /\ UNCHANGED <<clock, needStop, deadline, net, store, list, queue, bucket, nextIdx, ref,
                   freed, finished, cb, pin, wk, per, brk>>

\* The do-while of Send and Call repeats on SER_NEW_OBJECT_FAILED while there is time: a
\* blocking call makes a new callback object, an asynchronous one has only the user's.
Retry(r) ==
    /\ \/ Goto(r, "retry", "new") /\ cb' = IF r \in Sync THEN [cb EXCEPT ![r] = "set"] ELSE cb
       \/ Goto(r, "retry", "failed") /\ UNCHANGED cb
    /\ UNCHANGED <<clock, needStop, deadline, net, store, list, queue, bucket, nextIdx, ref,
                   freed, finished, pin, wk, per, brk>>

IoRef(r) ==
    /\ Goto(r, "put", "io")
    /\ IncreaseRef(r)
    /\ UNCHANGED <<clock, needStop, deadline, net, store, list, queue, bucket, nextIdx, freed,
                   finished, cb, pin, wk, per, brk>>

\* AddTimer: VALIDATE, then the queue is chosen.
Validate(r) ==
    /\ ~needStop
    /\ Goto(r, "io", "valid")
    /\ bucket' = [bucket EXCEPT ![r] = nextIdx]
    /\ nextIdx' = (nextIdx + 1) % NB
    /\ UNCHANGED <<clock, needStop, deadline, net, store, list, queue, ref, freed, finished,
                   cb, pin, wk, per, brk>>

\* Mutant: DecreaseRef before Return.
ValidateFailTwice(r) ==
    /\ needStop
    /\ Goto(r, "io", "failed")
    /\ store' = store \ {r}
    /\ ref' = [ref EXCEPT ![r] = @ - 1]
    /\ freed' = [freed EXCEPT ![r] = @ + 2]
    /\ pin' = pin \ {r}
    /\ DeleteCallBack(r)
    /\ UNCHANGED <<clock, needStop, deadline, net, list, queue, bucket, nextIdx, finished,
                   wk, per, brk>>

\* AddTimer refused (SER_STOP): EraseSeqNo and Return, without DecreaseRef.
ValidateFail(r) ==
    /\ needStop
    /\ Goto(r, "io", "failed")
    /\ store' = store \ {r}
    /\ freed' = [freed EXCEPT ![r] = @ + 1]
    /\ DeleteCallBack(r)
    /\ UNCHANGED <<clock, needStop, deadline, net, list, queue, bucket, nextIdx, ref, finished,
                   pin, wk, per, brk>>

\* AddTimerCtx: the insertion under mLock, and after Unlock the reference.
Link(r) ==
    /\ Goto(r, "valid", "link")
    /\ list' = list \cup {r}
    /\ UNCHANGED <<clock, needStop, deadline, net, store, queue, bucket, nextIdx, ref, freed,
                   finished, cb, pin, wk, per, brk>>

\* Mutant: AddTimerCtx takes no reference.
LinkNoRef(r) ==
    /\ Goto(r, "link", "linkref")
    /\ UNCHANGED <<clock, needStop, deadline, net, store, list, queue, bucket, nextIdx, ref,
                   freed, finished, cb, pin, wk, per, brk>>

LinkRef(r) ==
    /\ Goto(r, "link", "linkref")
    /\ IncreaseRef(r)
    /\ UNCHANGED <<clock, needStop, deadline, net, store, list, queue, bucket, nextIdx, freed,
                   finished, cb, pin, wk, per, brk>>

\* Mutant: AddTimer forgets the push.
PushNothing(r) ==
    /\ Goto(r, "linkref", "push")
    /\ UNCHANGED <<clock, needStop, deadline, net, store, list, queue, bucket, nextIdx, ref,
                   freed, finished, cb, pin, wk, per, brk>>

\* The push under the queue's lock, and after AddTimer returned the reference.
Push(r) ==
    /\ Goto(r, "linkref", "push")
    /\ queue' = queue \cup {r}
    /\ UNCHANGED <<clock, needStop, deadline, net, store, list, bucket, nextIdx, ref, freed,
                   finished, cb, pin, wk, per, brk>>

QueueRef(r) ==
    /\ Goto(r, "push", "ready")
    /\ IncreaseRef(r)
    /\ UNCHANGED <<clock, needStop, deadline, net, store, list, queue, bucket, nextIdx, freed,
                   finished, cb, pin, wk, per, brk>>

\* PostSend, PostWrite or PostRead.
Post(r) ==
    /\ Goto(r, "ready", IF r \in Sync THEN "wait" ELSE "returned")
    /\ net' = net \cup {r}
    /\ UNCHANGED <<clock, needStop, deadline, store, list, queue, bucket, nextIdx, ref, freed,
                   finished, cb, pin, wk, per, brk>>

PostFail(r) ==
    /\ Goto(r, "ready", "destroy")
    /\ UNCHANGED <<clock, needStop, deadline, net, store, list, queue, bucket, nextIdx, ref,
                   freed, finished, cb, pin, wk, per, brk>>

\* DestroyTimerContext: erase; if that succeeds delete the callback, mark, drop the io reference.
DestroyErase(r) ==
    /\ Goto(r, "destroy", IF r \in store THEN "delete" ELSE "failed")
    /\ store' = store \ {r}
    /\ UNCHANGED <<clock, needStop, deadline, net, list, queue, bucket, nextIdx, ref, freed,
                   finished, cb, pin, wk, per, brk>>

DestroyDelete(r) ==
    /\ Goto(r, "delete", "unref")
    /\ DeleteCallBack(r)
    /\ MarkFinished(r)
    /\ UNCHANGED <<clock, needStop, deadline, net, store, list, queue, bucket, nextIdx, ref,
                   freed, pin, wk, per, brk>>

DestroyUnref(r) ==
    /\ Goto(r, "unref", "failed")
    /\ DecreaseRef(r)
    /\ UNCHANGED <<clock, needStop, deadline, net, store, list, queue, bucket, nextIdx,
                   finished, cb, wk, per, brk>>

\* syncParam.Wait: the callback signals.
Wake(r) ==
    /\ cb[r] = "ran"
    /\ Goto(r, "wait", "returned")
    /\ UNCHANGED <<clock, needStop, deadline, net, store, list, queue, bucket, nextIdx, ref,
                   freed, finished, cb, pin, wk, per, brk>>

User(r) ==
    \/ Select(r) \/ Alloc(r) \/ AllocFail(r) \/ Retry(r) \/ IoRef(r)
    \/ Validate(r) \/ ValidateFail(r) \/ Link(r) \/ LinkRef(r) \/ Push(r) \/ QueueRef(r)
    \/ Post(r) \/ PostFail(r) \/ DestroyErase(r) \/ DestroyDelete(r) \/ DestroyUnref(r)
    \/ Wake(r)

-----------------------------------------------------------------------------
(* A worker: ServiceRequestReceived (response) or RunRequestCallback (posted) *)

\* The completion arrives; GetSeqNoAndRemove decides.
Receive(r) ==
    /\ r \in net
    /\ wk[r] = "none"
    /\ net' = net \ {r}
    /\ wk' = [wk EXCEPT ![r] = IF r \in store THEN "run" ELSE "none"]
    /\ store' = store \ {r}
    /\ UNCHANGED <<clock, needStop, upc, deadline, list, queue, bucket, nextIdx, ref, freed,
                   finished, cb, pin, per, brk>>

WorkerRun(r) ==
    /\ wk[r] = "run"
    /\ wk' = [wk EXCEPT ![r] = "mark"]
    /\ RunCallBack(r)
    /\ UNCHANGED <<clock, needStop, user, store, list, queue, bucket, nextIdx, ref, freed,
                   finished, pin, per, brk>>

WorkerMark(r) ==
    /\ wk[r] = "mark"
    /\ wk' = [wk EXCEPT ![r] = "unref"]
    /\ MarkFinished(r)
    /\ UNCHANGED <<clock, needStop, user, store, list, queue, bucket, nextIdx, ref, freed,
                   cb, pin, per, brk>>

\* Mutant: the worker keeps the io reference.
WorkerKeep(r) ==
    /\ wk[r] = "unref"
    /\ wk' = [wk EXCEPT ![r] = "none"]
    /\ UNCHANGED <<clock, needStop, user, store, list, queue, bucket, nextIdx, ref, freed,
                   finished, cb, pin, per, brk>>

WorkerUnref(r) ==
    /\ wk[r] = "unref"
    /\ wk' = [wk EXCEPT ![r] = "none"]
    /\ DecreaseRef(r)
    /\ UNCHANGED <<clock, needStop, user, store, list, queue, bucket, nextIdx, finished,
                   cb, per, brk>>

Worker(r) == WorkerRun(r) \/ WorkerMark(r) \/ WorkerUnref(r)

-----------------------------------------------------------------------------
(* The timeout thread, HcomPeriodicManager *)

InBucket(b) == {r \in queue : bucket[r] = b}

\* The sets of timers that popping the heap of queue b can yield: the top, a timer of least
\* deadline (0, never, is the least), is popped as long as it is finished or timed out.
Popped(b) ==
    {S \in SUBSET InBucket(b) :
        LET rest == InBucket(b) \ S IN
        /\ \A x \in S : finished[x] \/ IsTimeOut(x)
        /\ \A x \in S, y \in rest : deadline[x] <= deadline[y]
        /\ rest # {} => \E y \in rest : /\ \A z \in rest : deadline[y] <= deadline[z]
                                        /\ ~finished[y] /\ ~IsTimeOut(y)}

\* RunInThread: another round of ProcessTimeOut, or the end of the thread.
RoundBegin ==
    /\ ppc = "idle"
    /\ ppc' = IF needStop THEN "exit" ELSE "collect"
    /\ pidx' = IF needStop THEN 0 ELSE NB - 1
    /\ UNCHANGED <<clock, needStop, user, store, list, queue, bucket, nextIdx, ref, freed,
                   finished, cb, pin, wk, pclean, ptodo, pcur, brk>>

\* ProcessTimeOut, first loop: one queue under its lock.
Collect ==
    /\ ppc = "collect"
    /\ \E S \in Popped(pidx) : ptodo' = ptodo \cup S /\ queue' = queue \ S
    /\ IF pidx = 0 THEN ppc' = "loop" /\ UNCHANGED pidx
                   ELSE pidx' = pidx - 1 /\ UNCHANGED ppc
    /\ UNCHANGED <<clock, needStop, user, store, list, bucket, nextIdx, ref, freed, finished,
                   cb, pin, wk, pclean, pcur, brk>>

\* Stop joins the thread, then ProcessCleanUp empties each queue under its lock.
CleanUp ==
    /\ ppc = "exit"
    /\ Quiet
    /\ pclean' = TRUE
    /\ ptodo' = InBucket(pidx)
    /\ queue' = queue \ InBucket(pidx)
    /\ ppc' = "loop"
    /\ UNCHANGED <<clock, needStop, user, store, list, bucket, nextIdx, ref, freed, finished,
                   cb, pin, wk, pidx, pcur, brk>>

\* Mutant: the result of EraseSeqNoWithRet is ignored.
HandleAnyway(r) ==
    /\ ppc = "loop"
    /\ r \in ptodo
    /\ ptodo' = ptodo \ {r}
    /\ pcur' = r
    /\ ppc' = "run"
    /\ store' = store \ {r}
    /\ UNCHANGED <<clock, needStop, user, list, queue, bucket, nextIdx, ref, freed, finished,
                   cb, pin, wk, pidx, pclean, brk>>

\* Second loop, common to both: EraseSeqNoWithRet of the next timer.
HandleErase(r) ==
    /\ ppc = "loop"
    /\ r \in ptodo
    /\ ptodo' = ptodo \ {r}
    /\ pcur' = r
    /\ ppc' = IF r \in store THEN "run" ELSE "unlink"
    /\ store' = store \ {r}
    /\ UNCHANGED <<clock, needStop, user, list, queue, bucket, nextIdx, ref, freed, finished,
                   cb, pin, wk, pidx, pclean, brk>>

HandleRun ==
    /\ ppc = "run"
    /\ ppc' = "unref"
    /\ MarkTimeout(pcur)
    /\ RunCallBack(pcur)
    /\ UNCHANGED <<clock, needStop, user, store, list, queue, bucket, nextIdx, ref, freed,
                   pin, wk, pidx, pclean, ptodo, pcur, brk>>

HandleUnref ==
    /\ ppc = "unref"
    /\ ppc' = "unlink"
    /\ DecreaseRef(pcur)
    /\ UNCHANGED <<clock, needStop, user, store, list, queue, bucket, nextIdx, finished, cb,
                   wk, pidx, pclean, ptodo, pcur, brk>>

\* RemoveTimerCtx: under mLock, and if the timer was still linked its reference after Unlock.
Unlink ==
    /\ ppc = "unlink"
    /\ ppc' = IF pcur \in list THEN "linkunref" ELSE "queueunref"
    /\ list' = list \ {pcur}
    /\ UNCHANGED <<clock, needStop, user, store, queue, bucket, nextIdx, ref, freed, finished,
                   cb, pin, wk, pidx, pclean, ptodo, pcur, brk>>

LinkUnref ==
    /\ ppc = "linkunref"
    /\ ppc' = "queueunref"
    /\ DecreaseRef(pcur)
    /\ UNCHANGED <<clock, needStop, user, store, list, queue, bucket, nextIdx, finished, cb,
                   wk, pidx, pclean, ptodo, pcur, brk>>

QueueUnref ==
    /\ ppc = "queueunref"
    /\ ppc' = "loop"
    /\ pcur' = None
    /\ DecreaseRef(pcur)
    /\ UNCHANGED <<clock, needStop, user, store, list, queue, bucket, nextIdx, finished, cb,
                   wk, pidx, pclean, ptodo, brk>>

\* The round is over; clean-up goes on with the next queue.
RoundEnd ==
    /\ ppc = "loop"
    /\ ptodo = {}
    /\ IF ~pclean THEN ppc' = "idle" /\ UNCHANGED pidx
       ELSE IF pidx + 1 < NB THEN ppc' = "exit" /\ pidx' = pidx + 1
       ELSE ppc' = "stopped" /\ UNCHANGED pidx
    /\ UNCHANGED <<clock, needStop, user, store, list, queue, bucket, nextIdx, ref, freed,
                   finished, cb, pin, wk, pclean, ptodo, pcur, brk>>

Periodic ==
    \/ RoundBegin \/ Collect \/ CleanUp \/ HandleRun \/ HandleUnref
    \/ Unlink \/ LinkUnref \/ QueueUnref \/ RoundEnd
    \/ \E r \in Reqs : HandleErase(r)

\* Stop sets mNeedStop.
Stop ==
    /\ MayStop
    /\ ~needStop
    /\ needStop' = TRUE
    /\ UNCHANGED <<clock, user, store, list, queue, bucket, nextIdx, ref, freed, finished, cb,
                   pin, wk, per, brk>>

-----------------------------------------------------------------------------
(* The last endpoint of the channel breaks: ServiceEndPointBroken *)

\* The channel is closed, then usleep(100).
Close ==
    /\ bpc = "idle"
    /\ bpc' = "grace"
    /\ chOpen' = FALSE
    /\ UNCHANGED <<clock, needStop, user, store, list, queue, bucket, nextIdx, ref, freed,
                   finished, cb, pin, wk, per, bround, btodo, bcur>>

\* ProcessIoInBroken: GetTimerCtx detaches the whole list.
Detach ==
    /\ bpc \in {"grace", "again"}
    /\ Quiet
    /\ bpc' = "loop"
    /\ btodo' = list
    /\ list' = {}
    /\ UNCHANGED <<clock, needStop, user, store, queue, bucket, nextIdx, ref, freed, finished,
                   cb, pin, wk, per, chOpen, bround, bcur>>

\* PROCESS_IO.
SweepErase(r) ==
    /\ bpc = "loop"
    /\ r \in btodo
    /\ btodo' = btodo \ {r}
    /\ bcur' = r
    /\ bpc' = IF r \in store THEN "mark" ELSE "linkunref"
    /\ store' = store \ {r}
    /\ UNCHANGED <<clock, needStop, user, list, queue, bucket, nextIdx, ref, freed, finished,
                   cb, pin, wk, per, chOpen, bround>>

SweepMark ==
    /\ bpc = "mark"
    /\ bpc' = "run"
    /\ MarkFinished(bcur)
    /\ UNCHANGED <<clock, needStop, user, store, list, queue, bucket, nextIdx, ref, freed, cb,
                   pin, wk, per, chOpen, bround, btodo, bcur>>

SweepRun ==
    /\ bpc = "run"
    /\ bpc' = "unref"
    /\ RunCallBack(bcur)
    /\ UNCHANGED <<clock, needStop, user, store, list, queue, bucket, nextIdx, ref, freed,
                   finished, pin, wk, per, chOpen, bround, btodo, bcur>>

SweepUnref ==
    /\ bpc = "unref"
    /\ bpc' = "linkunref"
    /\ DecreaseRef(bcur)
    /\ UNCHANGED <<clock, needStop, user, store, list, queue, bucket, nextIdx, finished, cb,
                   wk, per, chOpen, bround, btodo, bcur>>

SweepLinkUnref ==
    /\ bpc = "linkunref"
    /\ bpc' = "loop"
    /\ bcur' = None
    /\ DecreaseRef(bcur)
    /\ UNCHANGED <<clock, needStop, user, store, list, queue, bucket, nextIdx, finished, cb,
                   wk, per, chOpen, bround, btodo>>

\* The list is swept twice.
SweepEnd ==
    /\ bpc = "loop"
    /\ btodo = {}
    /\ bpc' = IF bround = 1 THEN "again" ELSE "done"
    /\ bround' = 2
    /\ UNCHANGED <<clock, needStop, user, store, list, queue, bucket, nextIdx, ref, freed,
                   finished, cb, pin, wk, per, chOpen, btodo, bcur>>

Broken ==
    \/ Detach \/ SweepMark \/ SweepRun \/ SweepUnref \/ SweepLinkUnref \/ SweepEnd
    \/ \E r \in Reqs : SweepErase(r)

-----------------------------------------------------------------------------
Tick ==
    /\ clock < MaxClock
    /\ Quiet
    /\ clock' = clock + 1
    /\ UNCHANGED <<needStop, user, store, list, queue, bucket, nextIdx, ref, freed, finished,
                   cb, pin, wk, per, brk>>

Next ==
    \/ \E r \in Reqs : User(r) \/ Receive(r) \/ Worker(r)
    \/ Periodic
    \/ Stop
    \/ Close
    \/ Broken
    \/ Tick

Spec == Init /\ [][Next]_vars

\* Threads that run are scheduled: a user inside a call, a worker inside a handler, the
\* timeout thread, the thread in ServiceEndPointBroken; and time passes.  Completions,
\* breakage and Stop may or may not happen.
Fairness ==
    /\ \A r \in Reqs : WF_vars(User(r)) /\ WF_vars(Worker(r))
    /\ WF_vars(Periodic)
    /\ WF_vars(Broken)
    /\ WF_vars(Tick)

FairSpec == Spec /\ Fairness

-----------------------------------------------------------------------------
UserPcs == Preparing \cup {"new", "retry", "ready", "wait", "returned", "destroy", "delete",
                           "unref", "failed"}

\* The variables have their types.
TypeOK ==
    /\ clock \in Nat /\ chOpen \in BOOLEAN /\ needStop \in BOOLEAN
    /\ upc \in [Reqs -> UserPcs]
    /\ deadline \in [Reqs -> Nat]
    /\ store \subseteq Reqs /\ list \subseteq Reqs /\ queue \subseteq Reqs
    /\ net \subseteq Reqs /\ pin \subseteq Reqs
    /\ bucket \in [Reqs -> 0 .. NB - 1] /\ nextIdx \in 0 .. NB - 1
    /\ ref \in [Reqs -> Int]
    /\ freed \in [Reqs -> Nat]
    /\ finished \in [Reqs -> BOOLEAN]
    /\ cb \in [Reqs -> {"set", "ran", "deleted", "bad"}]
    /\ wk \in [Reqs -> {"none", "run", "mark", "unref"}]
    /\ ppc \in {"idle", "collect", "loop", "run", "unref", "unlink", "linkunref", "queueunref",
               "exit", "stopped"}
    /\ pidx \in 0 .. NB - 1 /\ pclean \in BOOLEAN
    /\ ptodo \subseteq Reqs /\ pcur \in Reqs \cup {None}
    /\ bpc \in {"idle", "grace", "again", "loop", "mark", "run", "unref", "linkunref", "done"}
    /\ bround \in 1 .. 2 /\ btodo \subseteq Reqs /\ bcur \in Reqs \cup {None}

\* The places that count as holders of a reference.
Holders ==
    store \cup list \cup queue \cup ptodo \cup btodo \cup ({pcur, bcur} \ {None})
        \cup {r \in Reqs : wk[r] # "none" \/ upc[r] \in {"delete", "unref"}}

\* No timer is given back to the pool while the store, the linked list, a timeout queue or a
\* thread that handles it still points to it: the three references of HcomServiceTimer do
\* their job whatever the order in which completion, timeout, sweep and failed post meet.
HoldersAlive == \A r \in Holders : freed[r] = 0

\* A timer object is given back at most once.
FreedOnce == \A r \in Reqs : freed[r] <= 1

\* A callback object is run or deleted, once, by the one party that erased the sequence
\* number; nobody runs or deletes it again (EraseSeqNoWithRet guards every RunCallBack,
\* Run and DeleteCallBack).
CallbackOnce == \A r \in Reqs : cb[r] # "bad"

\* When ProcessIoInBroken is through, no request is left in the context store to wait for a
\* completion that cannot come any more.
SweepComplete == bpc = "done" => store = {}

\* Every request that got through PrepareTimerContext and has a timeout is completed: its
\* callback is run (by completion, timeout, sweep or clean-up) or deleted by the failed sender.
Completes ==
    \A r \in Reqs : Timeout[r] >= 0 => (upc[r] = "ready" ~> cb[r] # "set")

\* A timer's reference on its channel is dropped in the end, so that a closed channel can be
\* destroyed.
Unpinned == \A r \in Reqs : r \in pin ~> r \notin pin

-----------------------------------------------------------------------------
(* The inductive invariant behind HoldersAlive, FreedOnce, CallbackOnce and *)
(* SweepComplete (for Prompt senders, see IoTimerProofs).                   *)

B(b) == IF b THEN 1 ELSE 0

\* The places that own r's io reference, its linked-list reference, its queue reference.
Io(r) ==
    B(r \in store /\ upc[r] # "put") + B(wk[r] # "none") + B(upc[r] \in {"delete", "unref"})
        + B(pcur = r /\ ppc \in {"run", "unref"}) + B(bcur = r /\ bpc \in {"mark", "run", "unref"})
Lk(r) ==
    B(r \in list /\ upc[r] # "link") + B(pcur = r /\ ppc = "linkunref")
        + B(r \in btodo) + B(bcur = r)
Qu(r) == B(r \in queue /\ upc[r] # "push") + B(r \in ptodo) + B(pcur = r)

\* A timer that is not through PrepareTimerContext is in no other thread's hands.
PrepInv(r) ==
    upc[r] \in Preparing \cup {"new", "retry"} =>
        /\ r \in store <=> upc[r] \notin {"new", "retry", "sel"}
        /\ r \in list <=> upc[r] \in {"link", "linkref", "push"}
        /\ r \in queue <=> upc[r] = "push"
        /\ r \notin net \cup ptodo \cup btodo
        /\ wk[r] = "none" /\ pcur # r /\ bcur # r
        /\ ~finished[r]
        /\ upc[r] \notin {"new", "retry", "sel"} => deadline[r] = 0 \/ clock <= deadline[r]

\* The count is the number of owners, and a timer without owner is given back once, for good.
RefInv(r) ==
    /\ Io(r) <= 1
    /\ \/ freed[r] = 0 /\ ref[r] = Io(r) + Lk(r) + Qu(r)
       \/ /\ freed[r] = 1 /\ Io(r) + Lk(r) + Qu(r) = 0
          /\ upc[r] \notin Preparing \cup {"new", "retry"}

\* Who will run or delete the callback finds it untouched.
CallbackInv(r) ==
    /\ cb[r] # "bad"
    /\ upc[r] = "retry" => r \in Sync
    /\ (\/ upc[r] \in Preparing \cup {"new", "delete"} \/ r \in store \/ wk[r] = "run"
        \/ pcur = r /\ ppc = "run"
        \/ bcur = r /\ bpc \in {"mark", "run"})
       => cb[r] = "set"

\* Only posted requests are on the network; a timer in the hands of the timeout thread is no
\* more in the store, and one it collected no more in a queue.
PlaceInv ==
    /\ \A r \in net : upc[r] \in {"wait", "returned"}
    /\ pcur \notin store
    /\ queue \cap ptodo = {}
    /\ ppc \in {"idle", "exit", "stopped"} => ptodo = {}
    /\ pcur # None <=> ppc \in {"run", "unref", "unlink", "linkunref", "queueunref"}
    /\ bcur # None <=> bpc \in {"mark", "run", "unref", "linkunref"}

\* From the first Detach on, the sweep has in btodo whatever is in the store.
SweepInv ==
    /\ chOpen <=> bpc = "idle"
    /\ \A r \in store : upc[r] \in {"put", "io", "valid"} \/ r \in list \cup btodo
    /\ bpc \notin {"idle", "grace"} => list = {} /\ \A r \in Reqs : upc[r] \notin Preparing
    /\ bpc \in {"idle", "grace", "again", "done"} => btodo = {}

\* References, callbacks and places are consistent at every step of every thread.
IInv ==
    /\ TypeOK /\ PlaceInv /\ SweepInv
    /\ \A r \in Reqs : PrepInv(r) /\ RefInv(r) /\ CallbackInv(r)
=============================================================================
