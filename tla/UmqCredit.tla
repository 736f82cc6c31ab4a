------------------------------ MODULE UmqCredit ------------------------------
(***************************************************************************)
(* Credit-based flow control of UMQ over UB (umq_ub_flow_control.c and its *)
(* callers in umq_pro_ub.c).                                               *)
(*                                                                         *)
(* The receiving process has one main queue whose receive buffers are      *)
(* shared by all its sub queues.  A pool counts the buffers: idle ones,    *)
(* and allocated ones whose use was promised to some peer.  The peer of    *)
(* sub queue q keeps the promises it got in window[q]; a send takes one.   *)
(* Promises travel in four messages over a jetty of their own: a request   *)
(* and its reply, a return and its acknowledgement.                        *)
(*                                                                         *)
(* One direction of each connection is modelled.  Threads of the sender:   *)
(* the one that posts (tx), the one that polls completions (ret), the one  *)
(* that polls messages, and the idle monitor.  Threads of the receiver:    *)
(* one per sub queue for the messages, one that polls the shared           *)
(* completion queue, and the ones that post buffers.  The changes that one *)
(* handler makes to several counters are one step: each is an atomic       *)
(* addition or a saturating subtraction, and they commute as long as no    *)
(* subtraction saturates, which the invariants below exclude.              *)
(***************************************************************************)
EXTENDS Integers, FiniteSets

CONSTANTS
    Queues,         \* the connections
    Depth,          \* rx_depth: receive buffers of the main queue
    InitialCredit,  \* initial_credit
    MinReserved,    \* min_reserved_credit
    ReturnRatio,    \* return_ratio
    Multiple,       \* credit_multiple
    MaxRequest,     \* max_credits_request
    MaxImm,         \* UMQ_UB_FC_MAX_IMM_DATA: most credits a message can carry
    Posters,        \* threads that post receive buffers
    Drained,        \* a queue is destroyed only when all it received was polled
    MaxSend,        \* bound: messages per connection
    MaxBatch,       \* bound: messages per call
    MaxTroubles     \* bound: failed posts, completions in error, connections closed

ASSUME CreditAssumption ==
    /\ IsFiniteSet(Queues)
    /\ Depth \in Nat \ {0}
    /\ InitialCredit \in Nat \ {0}
    /\ MinReserved \in Nat
    /\ ReturnRatio \in Nat \ {0}
    /\ Multiple \in Nat \ {0}
    /\ MaxRequest \in Nat
    /\ MaxImm \in Nat \ {0}
    /\ Posters \in Nat \ {0}
    /\ Drained \in BOOLEAN
    /\ MaxSend \in Nat
    /\ MaxBatch \in Nat
    /\ MaxTroubles \in Nat

VARIABLES
    \* --- the sender's side of q
    window,     \* remote_rx_window
    applying,   \* is_credit_applying, the permission to start an exchange
    per,        \* credits_per_request
    ratio,      \* peer_ratio: how much of the peer's pool is idle, in 0..3
    flag,       \* need_return_credit
    bound,      \* bind_ctx # NULL
    tx,         \* the posting thread: idle, checked the window, or has to retry; messages to post
    ret,        \* credits that poll_tx is about to return, 0 when it is not
    sent,       \* messages posted
    \* --- between the two
    fc,         \* the flow control message of q
    wire,       \* messages posted, not arrived
    failed,     \* messages that failed, completion not polled
    \* --- the receiver's side of q
    live,       \* the sub queue exists
    alloc,      \* local_rx_allocated of q
    consumed,   \* rx_consumed_jetty_table of q
    arrived,    \* completions of q not polled
    \* --- the main queue
    idle,       \* CREDIT_POOL_IDLE
    allocated,  \* CREDIT_POOL_ALLOCATED
    rqe,        \* buffers posted to the device
    held,       \* buffers with the user
    prefill,    \* prefill_rqe_cnt, and whether prefill_done is set
    \* --- bounds and history
    troubles,   \* failures and closings so far
    lost        \* an answer of the receiver to q was lost

senderVars == <<window, applying, per, ratio, flag, bound, tx, ret, sent>>
wireVars == <<fc, wire, failed>>
queueVars == <<live, alloc, consumed, arrived>>
poolVars == <<idle, allocated, rqe, held, prefill>>
vars == <<senderVars, wireVars, queueVars, poolVars, troubles, lost>>

-----------------------------------------------------------------------------
(* Arithmetic of umq_ub_flow_control.c *)

Least(a, b) == IF a <= b THEN a ELSE b

\* Two bits of the message: the idle share of the pool, in tenths, as a step.
RatioToImm(available, total) ==
    IF available > total \/ total = 0 THEN 0
    ELSE LET tenths == (available * 10) \div total
         IN  CASE tenths <= 1 -> 0
               [] tenths \in {2, 3} -> 1
               [] tenths \in {4, 5} -> 2
               [] OTHER -> 3

ImmToRatio(r) == CASE r = 1 -> 3 [] r = 2 -> 5 [] r = 3 -> 7 [] OTHER -> 1

ThresholdModify(threshold, r) ==
    LET t == (threshold * ImmToRatio(r)) \div 10
    IN  IF t = 0 THEN 2 ELSE t

\* What the next request asks for, after a reply of n credits.
NextRequest(p, n, r) ==
    LET new == IF n < p THEN p \div Multiple ELSE Least(p * Multiple, MaxRequest)
    IN  ThresholdModify(new, r) + 1

ReturnThreshold(q) ==
    IF ratio[q] = 0 THEN 0 ELSE ThresholdModify(MinReserved, ratio[q])

\* How much of a window of w is given back.
ReturnCredit(w, threshold) ==
    LET part == IF w \div ReturnRatio = 0 THEN 1 ELSE w \div ReturnRatio
    IN  Least(IF w - part <= threshold THEN w - threshold ELSE part, MaxImm)

-----------------------------------------------------------------------------
Types == {"NONE", "REQ", "REP", "RETURN_REQ", "RETURN_ACK"}

Message(type, n, r) == [type |-> type, n |-> n, ratio |-> r, failed |-> FALSE]
NoMessage == Message("NONE", 0, 0)

Received(q, type) == fc[q].type = type /\ ~fc[q].failed

\* Its completion is in error, which the side that posted it will see.
RequestFailed(q) == fc[q].failed /\ fc[q].type \in {"REQ", "RETURN_REQ"}
AnswerFailed(q) == fc[q].failed /\ fc[q].type \in {"REP", "RETURN_ACK"}

\* n messages to post; at "retry" the last attempt was refused
Call(pc, n) == [pc |-> pc, n |-> n]

Fault == troubles < MaxTroubles /\ troubles' = troubles + 1

\* The first of the two sides to close counts.
CloseBound(first) ==
    /\ first => troubles < MaxTroubles
    /\ troubles' = troubles + (IF first THEN 1 ELSE 0)

Init ==
    /\ window = [q \in Queues |-> 0]
    /\ applying = [q \in Queues |-> FALSE]
    /\ per = [q \in Queues |-> InitialCredit]
    /\ ratio = [q \in Queues |-> 0]
    /\ flag = [q \in Queues |-> FALSE]
    /\ bound = [q \in Queues |-> FALSE]
    /\ tx = [q \in Queues |-> Call("idle", 0)]
    /\ ret = [q \in Queues |-> 0]
    /\ sent = [q \in Queues |-> 0]
    /\ fc = [q \in Queues |-> NoMessage]
    /\ wire = [q \in Queues |-> 0]
    /\ failed = [q \in Queues |-> 0]
    /\ live = [q \in Queues |-> FALSE]
    /\ alloc = [q \in Queues |-> 0]
    /\ consumed = [q \in Queues |-> 0]
    /\ arrived = [q \in Queues |-> 0]
    /\ idle = 0 /\ allocated = 0 /\ rqe = 0 /\ held = Depth
    /\ prefill = [cnt |-> 0, done |-> FALSE]
    /\ troubles = 0
    /\ lost = [q \in Queues |-> FALSE]

-----------------------------------------------------------------------------
(* The sender's posting thread: umq_ub_post_tx *)

\* Mutant: the window is not looked at.
WindowDecAll(q, n) == n

\* umq_ub_window_dec: what it gets of the n credits it wants
WindowDec(q, n) == Least(window[q], n)

\* Mutant: the permission is kept.
RequestErrorKeeps(q, w) ==
    /\ RequestFailed(q)
    /\ window' = [window EXCEPT ![q] = w + (IF fc[q].type = "RETURN_REQ" THEN fc[q].n ELSE 0)]
    /\ fc' = [fc EXCEPT ![q] = NoMessage]
    /\ UNCHANGED applying

\* umq_ub_poll_fc_tx at the sender: a failed request gives the permission back, a
\* failed return the credits as well.  w is the window before.
RequestError(q, w) ==
    /\ RequestFailed(q)
    /\ applying' = [applying EXCEPT ![q] = FALSE]
    /\ window' = [window EXCEPT ![q] = w + (IF fc[q].type = "RETURN_REQ" THEN fc[q].n ELSE 0)]
    /\ fc' = [fc EXCEPT ![q] = NoMessage]

\* Mutant: the permission is tested and not taken.
ReqSentFree(q, w) ==
    /\ ~RequestFailed(q)
    /\ IF applying[q]
         THEN UNCHANGED fc
         ELSE fc' = [fc EXCEPT ![q] = Message("REQ", Least(per[q], MaxImm), 0)]
    /\ window' = [window EXCEPT ![q] = w]
    /\ UNCHANGED <<applying, troubles>>

\* umq_ub_shared_credit_req_send succeeds: another exchange is under way, or the request
\* is posted.
ReqSent(q, w) ==
    /\ ~RequestFailed(q)
    /\ IF applying[q]
         THEN UNCHANGED <<applying, fc>>
         ELSE /\ applying' = [applying EXCEPT ![q] = TRUE]
              /\ fc' = [fc EXCEPT ![q] = Message("REQ", Least(per[q], MaxImm), 0)]
    /\ window' = [window EXCEPT ![q] = w]
    /\ UNCHANGED troubles

\* It fails: poll_fc_tx reports an earlier failure, or the post fails.
ReqError(q, w) ==
    \/ RequestError(q, w) /\ UNCHANGED troubles
    \/ /\ ~RequestFailed(q) /\ ~applying[q] /\ Fault
       /\ window' = [window EXCEPT ![q] = w]
       /\ UNCHANGED <<applying, fc>>

\* umq_create and umq_bind at both sides; the binding side sends its first request.
Bind(q) ==
    /\ ~bound[q] /\ ~live[q] /\ failed[q] = 0 /\ arrived[q] = 0
    /\ bound' = [bound EXCEPT ![q] = TRUE]
    /\ live' = [live EXCEPT ![q] = TRUE]
    /\ window' = [window EXCEPT ![q] = 0]
    /\ applying' = [applying EXCEPT ![q] = TRUE]
    /\ per' = [per EXCEPT ![q] = InitialCredit]
    /\ ratio' = [ratio EXCEPT ![q] = 0]
    /\ flag' = [flag EXCEPT ![q] = FALSE]
    /\ alloc' = [alloc EXCEPT ![q] = 0]
    /\ consumed' = [consumed EXCEPT ![q] = 0]
    /\ fc' = [fc EXCEPT ![q] = Message("REQ", Least(InitialCredit, MaxImm), 0)]
    /\ lost' = [lost EXCEPT ![q] = FALSE]
    /\ UNCHANGED <<tx, ret, sent, wire, failed, arrived, poolVars, troubles>>

\* umq_ub_credit_check_and_request_send, at the start of a call for n messages
TxCheck(q, n) ==
    /\ bound[q]
    /\ \/ tx[q].pc = "idle" /\ sent[q] + n <= MaxSend
       \/ tx[q].pc = "retry" /\ tx[q].n = n
    /\ LET low == window[q] <= ThresholdModify(MinReserved, ratio[q])
       IN  \/ /\ ~low
              /\ tx' = [tx EXCEPT ![q] = Call("checked", n)]
              /\ UNCHANGED <<applying, window, fc, troubles>>
           \/ /\ low /\ ReqSent(q, window[q])
              /\ tx' = [tx EXCEPT ![q] = Call("checked", n)]
           \/ /\ low /\ ReqError(q, window[q])
              /\ tx' = [tx EXCEPT ![q] = Call("retry", n)]
    /\ UNCHANGED <<per, ratio, flag, bound, ret, sent, wire, failed, queueVars, poolVars, lost>>

\* k messages are accepted by the device; those to a destroyed queue will fail
Posted(q, k) ==
    /\ sent' = [sent EXCEPT ![q] = @ + k]
    /\ wire' = [wire EXCEPT ![q] = @ + (IF live[q] THEN k ELSE 0)]
    /\ failed' = [failed EXCEPT ![q] = @ + (IF live[q] THEN 0 ELSE k)]

\* umq_ub_window_dec takes what the window has, and that much is posted.  A short window
\* asks for more; a failed post gives the credits of what was not posted back.  The user
\* retries what was not posted.
TxPost(q) ==
    /\ tx[q].pc = "checked"
    /\ LET n == tx[q].n
           m == WindowDec(q, n)
       IN  \/ /\ m = n
              /\ Posted(q, m)
              /\ window' = [window EXCEPT ![q] = @ - m]
              /\ tx' = [tx EXCEPT ![q] = Call("idle", 0)]
              /\ UNCHANGED <<applying, fc, troubles>>
           \/ /\ m < n
              /\ Posted(q, m)
              /\ ReqSent(q, window[q] - m) \/ ReqError(q, window[q] - m)
              /\ tx' = [tx EXCEPT ![q] = Call("retry", n - m)]
           \/ \E k \in 0 .. m - 1 :
                /\ Fault
                /\ Posted(q, k)
                /\ window' = [window EXCEPT ![q] = @ - k]
                /\ tx' = [tx EXCEPT ![q] = Call("retry", n - k)]
                /\ UNCHANGED <<applying, fc>>
    /\ UNCHANGED <<per, ratio, flag, bound, ret, queueVars, poolVars, lost>>

-----------------------------------------------------------------------------
(* The sender's other threads *)

\* umq_ub_idle_queue_check.  The time since last_send may be over whenever the user has nothing
\* to post: a user who has to retry does so within that time.
Monitor(q) ==
    /\ bound[q] /\ tx[q].pc = "idle" /\ ~flag[q] /\ window[q] > ReturnThreshold(q)
    /\ flag' = [flag EXCEPT ![q] = TRUE]
    /\ UNCHANGED <<window, applying, per, ratio, bound, tx, ret, sent,
                   wireVars, queueVars, poolVars, troubles, lost>>

\* umq_ub_shared_credit_return_req_send up to its checks
ReturnCheck(q) ==
    /\ bound[q] /\ flag[q] /\ ret[q] = 0
    /\ IF tx[q].pc # "idle" \/ window[q] <= ReturnThreshold(q)
         THEN flag' = [flag EXCEPT ![q] = FALSE] /\ UNCHANGED ret
         ELSE /\ ret' = [ret EXCEPT ![q] = ReturnCredit(window[q], ReturnThreshold(q))]
              /\ UNCHANGED flag
    /\ UNCHANGED <<window, applying, per, ratio, bound, tx, sent,
                   wireVars, queueVars, poolVars, troubles, lost>>

\* and from the permission on; the window may have shrunk since
ReturnSend(q) ==
    /\ ret[q] > 0
    /\ ret' = [ret EXCEPT ![q] = 0]
    /\ \/ /\ applying[q]
          /\ flag' = [flag EXCEPT ![q] = FALSE]
          /\ UNCHANGED <<applying, per, window, fc, troubles>>
       \/ /\ ~applying[q]
          /\ per' = [per EXCEPT ![q] = IF @ \div Multiple = 0 THEN 1 ELSE @ \div Multiple]
          /\ \/ LET m == WindowDec(q, ret[q])
                IN  /\ applying' = [applying EXCEPT ![q] = TRUE]
                    /\ window' = [window EXCEPT ![q] = @ - m]
                    /\ fc' = [fc EXCEPT ![q] = Message("RETURN_REQ", m, 0)]
                    /\ flag' = [flag EXCEPT ![q] = FALSE]
                    /\ UNCHANGED troubles
             \/ Fault /\ UNCHANGED <<applying, window, fc, flag>>
    /\ UNCHANGED <<ratio, bound, tx, sent, wire, failed, queueVars, poolVars, lost>>

\* umq_ub_poll_fc_tx called from poll_tx
PollRequestError(q) ==
    /\ bound[q]
    /\ RequestError(q, window[q])
    /\ UNCHANGED <<per, ratio, flag, bound, tx, ret, sent, wire, failed,
                   queueVars, poolVars, troubles, lost>>

\* umq_ub_on_tx_done of a message that failed
TxFailed(q) ==
    /\ failed[q] > 0
    /\ failed' = [failed EXCEPT ![q] = @ - 1]
    /\ window' = [window EXCEPT ![q] = @ + 1]
    /\ UNCHANGED <<applying, per, ratio, flag, bound, tx, ret, sent, fc, wire,
                   queueVars, poolVars, troubles, lost>>

\* umq_ub_fill_rx_buff_post_process gives the permission back
Release(q) ==
    /\ applying' = [applying EXCEPT ![q] = FALSE]
    /\ fc' = [fc EXCEPT ![q] = NoMessage]

\* umq_ub_shared_credit_resp_handle
RespHandle(q) ==
    /\ bound[q] /\ Received(q, "REP")
    /\ ratio' = [ratio EXCEPT ![q] = fc[q].ratio]
    /\ per' = [per EXCEPT ![q] = NextRequest(@, fc[q].n, fc[q].ratio)]
    /\ window' = [window EXCEPT ![q] = @ + fc[q].n]
    /\ Release(q)
    /\ UNCHANGED <<flag, bound, tx, ret, sent, wire, failed, queueVars, poolVars, troubles, lost>>

\* umq_ub_process_fc_msg of an acknowledgement
AckHandle(q) ==
    /\ bound[q] /\ Received(q, "RETURN_ACK")
    /\ ratio' = [ratio EXCEPT ![q] = fc[q].ratio]
    /\ Release(q)
    /\ UNCHANGED <<window, per, flag, bound, tx, ret, sent, wire, failed,
                   queueVars, poolVars, troubles, lost>>

\* umq_unbind at the sender, no call being under way.  Messages to it are dropped.
Unbind(q) ==
    /\ bound[q] /\ tx[q].pc # "checked" /\ ret[q] = 0
    /\ CloseBound(live[q])
    /\ bound' = [bound EXCEPT ![q] = FALSE]
    /\ tx' = [tx EXCEPT ![q] = Call("idle", 0)]
    /\ UNCHANGED <<window, applying, per, ratio, flag, ret, sent,
                   wireVars, queueVars, poolVars, lost>>

-----------------------------------------------------------------------------
(* The receiver: messages of the sub queues *)

\* Mutant: the record of q is not brought down.
GiveBackPool(q, m) ==
    /\ allocated' = allocated - Least(allocated, m)
    /\ idle' = idle + m
    /\ UNCHANGED alloc

\* Mutant: the credits stay allocated.
GiveBackQueue(q, m) ==
    /\ idle' = idle + m
    /\ alloc' = [alloc EXCEPT ![q] = @ - Least(@, m)]
    /\ UNCHANGED allocated

\* available_credit_return and local_rx_allocated_dec
GiveBack(q, m) ==
    /\ allocated' = allocated - Least(allocated, m)
    /\ idle' = idle + m
    /\ alloc' = [alloc EXCEPT ![q] = @ - Least(@, m)]

\* The answer is posted, or it fails and nothing tells the sender.
Answer(q, msg) ==
    /\ fc' = [fc EXCEPT ![q] = msg]
    /\ UNCHANGED <<troubles, lost>>

NoAnswer(q) ==
    /\ Fault
    /\ fc' = [fc EXCEPT ![q] = NoMessage]
    /\ lost' = [lost EXCEPT ![q] = TRUE]

\* umq_ub_shared_credit_req_handle: idle credits become allocated and are sent.  If the
\* reply cannot be sent they are returned.
ReqHandle(q) ==
    /\ live[q] /\ Received(q, "REQ")
    /\ LET m == Least(idle, fc[q].n)
       IN  \/ /\ idle' = idle - m
              /\ allocated' = allocated + m
              /\ alloc' = [alloc EXCEPT ![q] = @ + m]
              /\ Answer(q, Message("REP", m, RatioToImm(idle - m, Depth)))
           \/ NoAnswer(q) /\ UNCHANGED <<idle, allocated, alloc>>
    /\ UNCHANGED <<senderVars, wire, failed, live, consumed, arrived, rqe, held, prefill>>

\* umq_ub_shared_credit_return_req_handle
ReturnHandle(q) ==
    /\ live[q] /\ Received(q, "RETURN_REQ")
    /\ LET m == IF alloc[q] < consumed[q] THEN 0 ELSE Least(fc[q].n, alloc[q] - consumed[q])
       IN  /\ GiveBack(q, m)
           /\ Answer(q, Message("RETURN_ACK", m, RatioToImm(idle + m, Depth))) \/ NoAnswer(q)
    /\ UNCHANGED <<senderVars, wire, failed, live, consumed, arrived, rqe, held, prefill>>

\* umq_ub_fc_process_tx_error at the receiver: the credits of a failed reply are taken back
AnswerError(q) ==
    /\ live[q] /\ AnswerFailed(q)
    /\ GiveBack(q, IF fc[q].type = "REP" THEN fc[q].n ELSE 0)
    /\ fc' = [fc EXCEPT ![q] = NoMessage]
    /\ lost' = [lost EXCEPT ![q] = TRUE]
    /\ UNCHANGED <<senderVars, wire, failed, live, consumed, arrived, rqe, held, prefill, troubles>>

\* umq_unbind and umq_destroy of the sub queue, with umq_ub_credit_clean_up: what q has not
\* consumed goes back to the pool.  What is on its way to q fails.
Destroy(q) ==
    /\ live[q]
    /\ CloseBound(bound[q])
    /\ Drained => arrived[q] = 0
    /\ GiveBack(q, IF alloc[q] < consumed[q] THEN 0 ELSE alloc[q] - consumed[q])
    /\ live' = [live EXCEPT ![q] = FALSE]
    /\ failed' = [failed EXCEPT ![q] = @ + wire[q]]
    /\ wire' = [wire EXCEPT ![q] = 0]
    /\ UNCHANGED <<senderVars, fc, consumed, arrived, rqe, held, prefill, lost>>

-----------------------------------------------------------------------------
(* The receiver: the main queue *)

\* umq_ub_poll_rx: one completion of the shared receive queue
PollRx(q) ==
    /\ arrived[q] > 0
    /\ arrived' = [arrived EXCEPT ![q] = @ - 1]
    /\ allocated' = allocated - Least(allocated, 1)
    /\ consumed' = [consumed EXCEPT ![q] = @ + 1]
    /\ held' = held + 1
    /\ UNCHANGED <<senderVars, wireVars, live, alloc, idle, rqe, prefill, troubles, lost>>

\* A thread has recharged the pool for the first time and not set prefill_done yet.
Charging == prefill.cnt >= Depth /\ ~prefill.done

\* Mutant: the credit is given although the device refused the buffer.
PostRxRefused ==
    /\ held > 0
    /\ Charging => Posters > 1
    /\ held' = held - 1
    /\ IF prefill.done
         THEN idle' = idle + 1 /\ UNCHANGED prefill
         ELSE /\ prefill' = [prefill EXCEPT !.cnt = @ + 1]
              /\ idle' = idle + (IF prefill.cnt + 1 >= Depth THEN Depth ELSE 0)
    /\ UNCHANGED <<senderVars, wireVars, queueVars, allocated, rqe, troubles, lost>>

\* umq_ub_post_rx_inner_impl: the device gets the buffer and umq_ub_rqe_posted_cnt_inc gives
\* its credit to the pool, or all of them when the queue is filled for the first time
PostRx ==
    /\ held > 0
    /\ Charging => Posters > 1
    /\ held' = held - 1
    /\ rqe' = rqe + 1
    /\ IF prefill.done
         THEN idle' = idle + 1 /\ UNCHANGED prefill
         ELSE /\ prefill' = [prefill EXCEPT !.cnt = @ + 1]
              /\ idle' = idle + (IF prefill.cnt + 1 >= Depth THEN Depth ELSE 0)
    /\ UNCHANGED <<senderVars, wireVars, queueVars, allocated, troubles, lost>>

PrefillDone ==
    /\ Charging
    /\ prefill' = [prefill EXCEPT !.done = TRUE]
    /\ UNCHANGED <<senderVars, wireVars, queueVars, idle, allocated, rqe, held, troubles, lost>>

-----------------------------------------------------------------------------
(* The network and the devices *)

Arrive(q) ==
    /\ wire[q] > 0 /\ rqe > 0
    /\ wire' = [wire EXCEPT ![q] = @ - 1]
    /\ arrived' = [arrived EXCEPT ![q] = @ + 1]
    /\ rqe' = rqe - 1
    /\ UNCHANGED <<senderVars, fc, failed, live, alloc, consumed,
                   idle, allocated, held, prefill, troubles, lost>>

FailSend(q) ==
    /\ wire[q] > 0 /\ Fault
    /\ wire' = [wire EXCEPT ![q] = @ - 1]
    /\ failed' = [failed EXCEPT ![q] = @ + 1]
    /\ UNCHANGED <<senderVars, fc, queueVars, poolVars, lost>>

FailMessage(q) ==
    /\ fc[q].type # "NONE" /\ ~fc[q].failed /\ Fault
    /\ fc' = [fc EXCEPT ![q].failed = TRUE]
    /\ UNCHANGED <<senderVars, wire, failed, queueVars, poolVars, lost>>

-----------------------------------------------------------------------------
QueueNext(q) ==
    \/ Bind(q) \/ (\E n \in 1 .. MaxBatch : TxCheck(q, n)) \/ TxPost(q)
    \/ Monitor(q) \/ ReturnCheck(q) \/ ReturnSend(q)
    \/ PollRequestError(q) \/ TxFailed(q) \/ RespHandle(q) \/ AckHandle(q) \/ Unbind(q)
    \/ ReqHandle(q) \/ ReturnHandle(q) \/ AnswerError(q) \/ Destroy(q) \/ PollRx(q)
    \/ Arrive(q) \/ FailSend(q) \/ FailMessage(q)

Next ==
    \/ \E q \in Queues : QueueNext(q)
    \/ PostRx \/ PrefillDone

Spec == Init /\ [][Next]_vars

\* Weak fairness of the threads that run in a loop or through a call: the user's retries, the
\* monitor with poll_tx, the polling of messages and completions, the posting of buffers; and
\* of the device that delivers what was posted.  New calls, binding, closing and failing are
\* not fair.  The actions under one condition exclude each other.
Retry(q) == tx[q].pc # "idle" /\ ((\E n \in 1 .. MaxBatch : TxCheck(q, n)) \/ TxPost(q))
Returning(q) == Monitor(q) \/ ReturnCheck(q) \/ ReturnSend(q)
Exchange(q) ==
    \/ RespHandle(q) \/ AckHandle(q) \/ PollRequestError(q)
    \/ ReqHandle(q) \/ ReturnHandle(q) \/ AnswerError(q)

Fairness ==
    /\ \A q \in Queues :
         /\ WF_vars(Retry(q)) /\ WF_vars(Returning(q)) /\ WF_vars(Exchange(q))
         /\ WF_vars(TxFailed(q)) /\ WF_vars(PollRx(q)) /\ WF_vars(Arrive(q))
    /\ WF_vars(PostRx \/ PrefillDone)

FairSpec == Spec /\ Fairness

-----------------------------------------------------------------------------
(* Properties *)

Messages == [type : Types, n : Nat, ratio : 0 .. 3, failed : BOOLEAN]

\* The types of all variables.  Counters that the code keeps unsigned never go below zero.
TypeOK ==
    /\ window \in [Queues -> Nat]
    /\ applying \in [Queues -> BOOLEAN]
    /\ per \in [Queues -> Nat]
    /\ ratio \in [Queues -> 0 .. 3]
    /\ flag \in [Queues -> BOOLEAN]
    /\ bound \in [Queues -> BOOLEAN]
    /\ tx \in [Queues -> [pc : {"idle", "checked", "retry"}, n : Nat]]
    /\ ret \in [Queues -> Nat]
    /\ sent \in [Queues -> Nat]
    /\ fc \in [Queues -> Messages]
    /\ wire \in [Queues -> Nat]
    /\ failed \in [Queues -> Nat]
    /\ live \in [Queues -> BOOLEAN]
    /\ alloc \in [Queues -> Nat]
    /\ consumed \in [Queues -> Nat]
    /\ arrived \in [Queues -> Nat]
    /\ idle \in Nat /\ allocated \in Nat /\ rqe \in Nat /\ held \in Nat
    /\ prefill \in [cnt : Nat, done : BOOLEAN]
    /\ troubles \in Nat
    /\ lost \in [Queues -> BOOLEAN]

\* The sum of f over the queues, as the number of pairs of a queue and one of its units.
Cells(f, Q) == UNION {{q} \X (1 .. f[q]) : q \in Q}
Total(f) == Cardinality(Cells(f, Queues))

\* Credits of q that its flow control message carries.
Carried(q) == IF fc[q].type \in {"REP", "RETURN_REQ"} THEN fc[q].n ELSE 0

\* What the receiver has promised to q and has not arrived.
Promised == [q \in Queues |->
    IF live[q] THEN window[q] + Carried(q) + wire[q] + failed[q] ELSE 0]

\* The two ends agree: what the receiver has promised to q and not seen used is what the
\* sender has in its window, in a message, or has spent on messages that are on their way,
\* waiting to be polled, or failed.  So a return is never larger than what the receiver has
\* on record: the branches of return_req_handle that repair a mismatch are not taken.
Conserved ==
    \A q \in Queues : live[q] => alloc[q] = consumed[q] + Promised[q] + arrived[q]

\* The pool counts every buffer once: with the user, idle, or allocated; and the allocated
\* ones are the promises of all queues and the messages that were not polled.
PoolBalance ==
    /\ idle + allocated + held + (IF prefill.cnt < Depth THEN prefill.cnt ELSE 0) = Depth
    /\ allocated = Total(Promised) + Total(arrived)

\* The purpose of the flow control: however many queues share the receive buffers, no more
\* messages are on their way than buffers are posted, so no message meets an empty queue.
NoOverrun == Total(wire) <= rqe

\* Whoever has a message under way has the permission: a queue never has two exchanges at
\* a time, also when a message of the first one failed.
OneExchange ==
    \A q \in Queues : fc[q].type # "NONE" => applying[q]

\* Where the buffers are: posted, used by a message not polled, or with the user.  A destroyed
\* queue has nothing on its way, and the pool was charged before prefill_done is set.
Stock ==
    /\ rqe + Total(arrived) + held = Depth
    /\ \A q \in Queues : ~live[q] => wire[q] = 0 /\ arrived[q] = 0
    /\ prefill.done => prefill.cnt >= Depth

\* The inductive invariant.
IInv == TypeOK /\ Conserved /\ PoolBalance /\ OneExchange /\ Stock

\* A post that is retried succeeds, unless the queue is closed, or an answer of the receiver
\* was lost (nothing takes the permission back then: the queue that waits for it asks and
\* returns nothing any more), or a peer is gone whose queue was not destroyed.
Served ==
    \A q \in Queues :
        tx[q].pc = "retry" ~> \/ tx[q].pc = "idle" \/ ~live[q]
                              \/ \E r \in Queues : lost[r] \/ (live[r] /\ ~bound[r])

=============================================================================
