-------------------------- MODULE UmqCreditProofs ---------------------------
(***************************************************************************)
(* Proofs about UmqCredit, for any finite set of connections, any depth of *)
(* the receive queue and any parameters of the flow control.  First sums   *)
(* over the queues and the types of the arithmetic; then the steps of the  *)
(* sender and of the network, which move credits between the window, the   *)
(* messages and the wire and leave the promises of every queue what they   *)
(* are; the steps of the receiver, which move credits between the pool and *)
(* the record of one queue; last the theorems.                             *)
(***************************************************************************)
EXTENDS UmqCredit, FiniteSetTheorems, TLAPS

-----------------------------------------------------------------------------
(* Sums over the queues *)

\* The units of finitely many queues are finitely many.
LEMMA CellsFinite ==
  ASSUME NEW f \in [Queues -> Nat], NEW Q \in SUBSET Queues
  PROVE  IsFiniteSet(Cells(f, Q))
<1> DEFINE Row(q) == {q} \X (1 .. f[q])
           Rows == {Row(q) : q \in Q}
           h == [q \in Q |-> Row(q)]
<1>1. IsFiniteSet(Q) BY FS_Subset, CreditAssumption, Zenon
<1>2. h \in Surjection(Q, Rows) BY Zenon DEF Surjection
<1>3. IsFiniteSet(Rows) BY <1>1, <1>2, FS_Surjection, Zenon
<1>4. \A q \in Q : IsFiniteSet(Row(q))
  <2> TAKE q \in Q
  <2>1. IsFiniteSet({q}) BY FS_Singleton, Zenon
  <2>2. f[q] \in Nat BY Zenon
  <2>3. IsFiniteSet(1 .. f[q]) BY <2>2, FS_Interval
  <2>4. QED BY <2>1, <2>3, FS_Product, Zenon
<1>5. \A T \in Rows : IsFiniteSet(T) BY <1>4, Zenon
<1>6. QED BY <1>3, <1>5, FS_UNION, Zenon DEF Cells

\* A sum is a natural number.
LEMMA TotalNat == ASSUME NEW f \in [Queues -> Nat] PROVE Total(f) \in Nat
BY CellsFinite, FS_CardinalityType, Zenon DEF Total

\* A sum is one of its terms and the sum of the others.
LEMMA TotalSplit ==
  ASSUME NEW f \in [Queues -> Nat], NEW q \in Queues
  PROVE  Total(f) = Cardinality(Cells(f, Queues \ {q})) + f[q]
<1> DEFINE R == Cells(f, Queues \ {q})
           C == {q} \X (1 .. f[q])
<1>1. Cells(f, Queues) = R \cup C /\ R \cap C = {} BY DEF Cells
<1>2. IsFiniteSet(R) BY CellsFinite, Zenon
<1>3. IsFiniteSet(C) /\ Cardinality(C) = f[q]
  <2>1. IsFiniteSet({q}) /\ Cardinality({q}) = 1 BY FS_Singleton, Zenon
  <2>2. IsFiniteSet(1 .. f[q]) /\ Cardinality(1 .. f[q]) = f[q] BY FS_Interval
  <2>3. IsFiniteSet(C) /\ Cardinality(C) = Cardinality({q}) * Cardinality(1 .. f[q])
    BY <2>1, <2>2, FS_Product, Zenon
  <2>4. QED BY <2>1, <2>2, <2>3
<1>4. Cardinality(R \cup C) = Cardinality(R) + Cardinality(C) - Cardinality(R \cap C)
  BY <1>2, <1>3, FS_Union, Zenon
<1>5. Cardinality(R) \in Nat BY <1>2, FS_CardinalityType, Zenon
<1>6. Cardinality(R \cap C) = 0 BY <1>1, FS_EmptySet, Zenon
<1> HIDE DEF R, C
<1>7. QED BY <1>1, <1>3, <1>4, <1>5, <1>6 DEF Total, R

\* A sum changes by what its one changed term changes.
LEMMA TotalUpdate ==
  ASSUME NEW f \in [Queues -> Nat], NEW g \in [Queues -> Nat], NEW q \in Queues,
         \A r \in Queues \ {q} : g[r] = f[r]
  PROVE  Total(g) = Total(f) + g[q] - f[q]
<1>1. Cells(g, Queues \ {q}) = Cells(f, Queues \ {q}) BY Zenon DEF Cells
<1>2. Cardinality(Cells(f, Queues \ {q})) \in Nat BY CellsFinite, FS_CardinalityType, Zenon
<1>3. QED BY <1>1, <1>2, TotalSplit

\* No term is above the sum.
LEMMA TotalAbove ==
  ASSUME NEW f \in [Queues -> Nat], NEW q \in Queues
  PROVE  f[q] <= Total(f)
<1>1. Cardinality(Cells(f, Queues \ {q})) \in Nat BY CellsFinite, FS_CardinalityType, Zenon
<1>2. QED BY <1>1, TotalSplit

\* Larger terms have a larger sum.
LEMMA TotalMonotone ==
  ASSUME NEW f \in [Queues -> Nat], NEW g \in [Queues -> Nat],
         \A q \in Queues : f[q] <= g[q]
  PROVE  Total(f) <= Total(g)
<1>1. Cells(f, Queues) \subseteq Cells(g, Queues)
  <2> SUFFICES ASSUME NEW q \in Queues
               PROVE  {q} \X (1 .. f[q]) \subseteq {q} \X (1 .. g[q])
    BY DEF Cells
  <2> QED OBVIOUS
<1>2. IsFiniteSet(Cells(g, Queues)) BY CellsFinite, Zenon
<1>3. QED BY <1>1, <1>2, FS_Subset, Zenon DEF Total

\* A sum of zeroes is zero.
LEMMA TotalZero ==
  ASSUME NEW f \in [Queues -> Nat], \A q \in Queues : f[q] = 0
  PROVE  Total(f) = 0
<1>1. Cells(f, Queues) = {} BY DEF Cells
<1>2. QED BY <1>1, FS_EmptySet, Zenon DEF Total

-----------------------------------------------------------------------------
(* Types *)

\* The arithmetic of the flow control stays in the naturals.
LEMMA DivNat == ASSUME NEW a \in Nat, NEW b \in Nat \ {0} PROVE a \div b \in Nat
OBVIOUS

\* The smaller of two numbers, as the saturating counters take it.
LEMMA LeastNat ==
  ASSUME NEW a \in Nat, NEW b \in Nat
  PROVE  Least(a, b) \in Nat /\ Least(a, b) <= a /\ Least(a, b) <= b
BY DEF Least

\* The idle share fits its two bits.
LEMMA RatioType == \A a, t : RatioToImm(a, t) \in 0 .. 3
BY DEF RatioToImm

\* A scaled threshold is a natural number.
LEMMA ThresholdNat ==
  ASSUME NEW t \in Nat, NEW r \in 0 .. 3 PROVE ThresholdModify(t, r) \in Nat
<1>1. ImmToRatio(r) \in Nat BY Zenon DEF ImmToRatio
<1>2. t * ImmToRatio(r) \in Nat BY <1>1
<1>3. (t * ImmToRatio(r)) \div 10 \in Nat BY <1>2, DivNat
<1>4. QED BY <1>3, Zenon DEF ThresholdModify

\* So is the size of the next request.
LEMMA NextRequestNat ==
  ASSUME NEW p \in Nat, NEW n \in Nat, NEW r \in 0 .. 3 PROVE NextRequest(p, n, r) \in Nat
<1>1. p \div Multiple \in Nat BY DivNat, CreditAssumption, Zenon
<1>2. p * Multiple \in Nat BY CreditAssumption
<1>3. Least(p * Multiple, MaxRequest) \in Nat BY <1>2, CreditAssumption, Zenon DEF Least
<1> DEFINE new == IF n < p THEN p \div Multiple ELSE Least(p * Multiple, MaxRequest)
<1>4. new \in Nat BY <1>1, <1>3, Zenon
<1>5. ThresholdModify(new, r) \in Nat BY <1>4, ThresholdNat, Zenon
<1>6. QED BY <1>5 DEF NextRequest

\* A return of a window above its threshold is a positive number of credits.
LEMMA ReturnNat ==
  ASSUME TypeOK, NEW q \in Queues, window[q] > ReturnThreshold(q)
  PROVE  ReturnCredit(window[q], ReturnThreshold(q)) \in Nat
<1>1. ReturnThreshold(q) \in Nat BY ThresholdNat, CreditAssumption, Zenon
  DEF TypeOK, ReturnThreshold
<1>2. window[q] \in Nat /\ window[q] \div ReturnRatio \in Nat
  BY DivNat, CreditAssumption, Zenon DEF TypeOK
<1>3. QED BY <1>1, <1>2, CreditAssumption DEF ReturnCredit, Least

\* The promises of a queue are a natural number.
LEMMA PromisedNat ==
  ASSUME TypeOK
  PROVE  /\ Promised \in [Queues -> Nat]
         /\ \A q \in Queues : Carried(q) \in Nat
BY DEF TypeOK, Promised, Carried, Messages

-----------------------------------------------------------------------------
(* The steps of the sender and of the network *)

\* The two sums of the pool follow what a step changes at one queue.
LEMMA Sums ==
  ASSUME TypeOK, TypeOK', NEW q \in Queues,
         \A r \in Queues \ {q} : Promised'[r] = Promised[r] /\ arrived'[r] = arrived[r]
  PROVE  /\ Total(Promised)' = Total(Promised) + Promised'[q] - Promised[q]
         /\ Total(arrived)' = Total(arrived) + arrived'[q] - arrived[q]
         /\ Total(Promised) \in Nat /\ Total(arrived) \in Nat
         /\ Promised[q] <= Total(Promised) /\ arrived[q] <= Total(arrived)
         /\ Promised[q] \in Nat /\ arrived[q] \in Nat
         /\ Promised'[q] \in Nat /\ arrived'[q] \in Nat
<1>1. Promised \in [Queues -> Nat] /\ Promised' \in [Queues -> Nat]
  BY PromisedNat DEF TypeOK, Promised, Carried, Messages
<1>2. arrived \in [Queues -> Nat] /\ arrived' \in [Queues -> Nat] BY Zenon DEF TypeOK
<1>3. Total(Promised') = Total(Promised) + Promised'[q] - Promised[q] BY <1>1, TotalUpdate, Zenon
<1>4. Total(arrived') = Total(arrived) + arrived'[q] - arrived[q] BY <1>2, TotalUpdate, Zenon
<1>5. QED BY <1>1, <1>2, <1>3, <1>4, TotalNat, TotalAbove, Zenon DEF Total, Cells

\* A step of the sender that leaves the promises of every queue as they are.
LEMMA SenderStep ==
  ASSUME IInv, TypeOK', OneExchange', UNCHANGED <<queueVars, poolVars>>,
         \A r \in Queues : Promised'[r] = Promised[r] /\ (live[r] \/ wire'[r] = 0)
  PROVE  IInv'
<1> USE DEF queueVars, poolVars
<1>1. Promised' = Promised BY Zenon DEF Promised
<1>2. Total(Promised)' = Total(Promised) BY <1>1, Zenon DEF Total, Cells
<1>3. Total(arrived)' = Total(arrived) BY Zenon DEF Total, Cells
<1>4. Conserved' BY <1>1, Zenon DEF IInv, Conserved
<1>5. PoolBalance' BY <1>2, <1>3, Zenon DEF IInv, PoolBalance
<1>6. Stock' BY <1>3, Zenon DEF IInv, Stock
<1>7. QED BY <1>4, <1>5, <1>6, Zenon DEF IInv

-----------------------------------------------------------------------------
(* The sender and the network *)

\* umq_ub_shared_credit_req_send, in its two outcomes, at a step that leaves w in the window.
LEMMA RequestOutcome ==
  ASSUME IInv, NEW q \in Queues, NEW w \in Nat, ReqSent(q, w) \/ ReqError(q, w)
  PROVE  /\ window' \in [Queues -> Nat] /\ applying' \in [Queues -> BOOLEAN]
         /\ fc' \in [Queues -> Messages] /\ troubles' \in Nat
         /\ \A r \in Queues : fc'[r].type # "NONE" => applying'[r]
         /\ \A r \in Queues \ {q} : window'[r] = window[r] /\ fc'[r] = fc[r]
         /\ window'[q] + Carried(q)' = w + Carried(q)
<1> USE DEF IInv, TypeOK, Messages, OneExchange, Carried, Message, NoMessage, RequestFailed, Types
<1>1. CASE ReqSent(q, w)
  <2> USE <1>1 DEF ReqSent
  <2>1. CASE applying[q] BY <2>1
  <2>2. CASE ~applying[q]
    <3> DEFINE n == Least(per[q], MaxImm)
    <3>0. n \in Nat BY CreditAssumption, Zenon DEF Least
    <3> HIDE DEF n
    <3>1. fc' = [fc EXCEPT ![q] = Message("REQ", n, 0)] /\ fc[q].type = "NONE" BY <2>2, Zenon DEF n
    <3>2. fc' \in [Queues -> Messages] BY <3>0, <3>1
    <3>3. Carried(q) = 0 /\ Carried(q)' = 0 BY <3>1
    <3>4. applying' = [applying EXCEPT ![q] = TRUE] BY <2>2, Zenon
    <3>5. QED BY <3>1, <3>2, <3>3, <3>4
  <2>3. QED BY <2>1, <2>2, Zenon
<1>2. CASE RequestError(q, w) /\ UNCHANGED troubles BY <1>2 DEF RequestError
<1>3. CASE ~RequestFailed(q) /\ ~applying[q] /\ Fault
           /\ window' = [window EXCEPT ![q] = w] /\ UNCHANGED <<applying, fc>>
  BY <1>3 DEF Fault
<1>4. QED BY <1>1, <1>2, <1>3, Zenon DEF ReqError

\* The check before a post may send a request, which carries no credits.
LEMMA TxCheckStep ==
  ASSUME IInv, NEW q \in Queues, NEW n \in Nat, TxCheck(q, n) PROVE IInv'
<1> USE DEF TxCheck, queueVars, poolVars
<1>1. window[q] \in Nat BY Zenon DEF IInv, TypeOK
<1>2. \/ UNCHANGED <<applying, window, fc, troubles>>
      \/ ReqSent(q, window[q]) \/ ReqError(q, window[q])
  BY Zenon
<1>3. tx' \in [Queues -> [pc : {"idle", "checked", "retry"}, n : Nat]]
  <2>1. PICK pc \in {"checked", "retry"} : tx' = [tx EXCEPT ![q] = Call(pc, n)] BY Zenon
  <2>2. Call(pc, n) \in [pc : {"idle", "checked", "retry"}, n : Nat] BY <2>1, Zenon DEF Call
  <2>3. QED BY <2>1, <2>2, Zenon DEF IInv, TypeOK
<1>4. TypeOK' BY <1>1, <1>2, <1>3, RequestOutcome, Zenon DEF IInv, TypeOK
<1>5. OneExchange' BY <1>1, <1>2, RequestOutcome, Zenon DEF IInv, OneExchange
<1>6. \A r \in Queues : Promised'[r] = Promised[r]
  <2>1. \A r \in Queues : window'[r] + Carried(r)' = window[r] + Carried(r)
    BY <1>1, <1>2, RequestOutcome DEF Carried
  <2>2. QED BY <2>1, PromisedNat, <1>4, Zenon DEF IInv, TypeOK, Promised, Carried, Messages
<1>7. QED BY <1>4, <1>5, <1>6, SenderStep, Zenon DEF IInv, Stock

\* Posting k messages with k credits of the window.
LEMMA PostedKeeps ==
  ASSUME IInv, NEW q \in Queues, NEW k \in Nat, Posted(q, k)
  PROVE  /\ sent' \in [Queues -> Nat] /\ wire' \in [Queues -> Nat] /\ failed' \in [Queues -> Nat]
         /\ \A r \in Queues \ {q} : wire'[r] = wire[r] /\ failed'[r] = failed[r]
         /\ wire'[q] + failed'[q] = wire[q] + failed[q] + k
         /\ \A r \in Queues : live[r] \/ wire'[r] = 0
BY DEF IInv, TypeOK, Stock, Posted

\* A post moves credits from the window to the wire, and back when it fails.
LEMMA TxPostStep == ASSUME IInv, NEW q \in Queues, TxPost(q) PROVE IInv'
<1> USE DEF queueVars, poolVars
<1> DEFINE n == tx[q].n
           m == WindowDec(q, n)
<1>1. window[q] \in Nat /\ n \in Nat /\ m \in Nat /\ m <= window[q] /\ m <= n
  BY LeastNat, Zenon DEF IInv, TypeOK, WindowDec
<1> DEFINE Outcome(k) ==
      /\ Posted(q, k)
      /\ tx' \in [Queues -> [pc : {"idle", "checked", "retry"}, n : Nat]]
      /\ window' \in [Queues -> Nat] /\ applying' \in [Queues -> BOOLEAN]
      /\ fc' \in [Queues -> Messages] /\ troubles' \in Nat
      /\ \A r \in Queues : fc'[r].type # "NONE" => applying'[r]
      /\ \A r \in Queues \ {q} : window'[r] = window[r] /\ fc'[r] = fc[r]
      /\ window'[q] + Carried(q)' = window[q] - k + Carried(q)
<1>2. \E k \in 0 .. window[q] : Outcome(k)
  <2>1. CASE /\ Posted(q, m) /\ window' = [window EXCEPT ![q] = @ - m]
             /\ tx' = [tx EXCEPT ![q] = Call("idle", 0)]
             /\ UNCHANGED <<applying, fc, troubles>>
    <3>1. Outcome(m)
      BY <2>1, <1>1, PromisedNat, SMTT(30) DEF IInv, TypeOK, OneExchange, Call, Carried
    <3>2. QED BY <3>1, <1>1, SMTT(30)
  <2>2. CASE /\ m < n /\ Posted(q, m)
             /\ ReqSent(q, window[q] - m) \/ ReqError(q, window[q] - m)
             /\ tx' = [tx EXCEPT ![q] = Call("retry", n - m)]
    <3>1. window[q] - m \in Nat /\ n - m \in Nat BY <1>1, <2>2
    <3>2. tx' \in [Queues -> [pc : {"idle", "checked", "retry"}, n : Nat]]
      BY <2>2, <3>1, Zenon DEF IInv, TypeOK, Call
    <3>3. Outcome(m) BY <2>2, <3>1, <3>2, RequestOutcome, Zenon
    <3>4. QED BY <3>3, <1>1
  <2>3. ASSUME NEW k \in 0 .. m - 1, Fault, Posted(q, k),
               window' = [window EXCEPT ![q] = @ - k],
               tx' = [tx EXCEPT ![q] = Call("retry", n - k)], UNCHANGED <<applying, fc>>
        PROVE  \E j \in 0 .. window[q] : Outcome(j)
    <3>0. k \in Nat /\ window[q] - k \in Nat /\ n - k \in Nat BY <1>1, SMTT(30)
    <3> HIDE DEF n, m
    <3>1. Outcome(k) BY <2>3, <3>0, <1>1, PromisedNat
      DEF IInv, TypeOK, OneExchange, Call, Carried, Fault
    <3>2. QED BY <3>1, <1>1
  <2>4. QED BY <2>1, <2>2, <2>3, Zenon DEF TxPost
<1>3. PICK k \in 0 .. window[q] : Outcome(k) BY <1>2, Zenon
<1>4. k \in Nat BY <1>1, <1>3
<1>5. UNCHANGED <<per, ratio, flag, bound, ret, queueVars, poolVars, lost>> BY Zenon DEF TxPost
<1>6. TypeOK' BY <1>3, <1>4, <1>5, PostedKeeps, Zenon DEF IInv, TypeOK
<1>7. OneExchange' BY <1>3, Zenon DEF OneExchange
<1>8. \A r \in Queues : Promised'[r] = Promised[r]
  <2>1. \A r \in Queues : Carried(r) \in Nat /\ Carried(r)' \in Nat
    BY <1>6, Zenon DEF IInv, TypeOK, Carried, Messages
  <2>2. \A r \in Queues \ {q} : Carried(r)' = Carried(r) BY <1>3, Zenon DEF Carried
  <2>3. wire'[q] + failed'[q] = wire[q] + failed[q] + k BY <1>3, <1>4, PostedKeeps, Zenon
  <2>4. Promised'[q] = Promised[q]
    <3>1. window'[q] + Carried(q)' = window[q] - k + Carried(q) BY <1>3, Zenon
    <3>2. /\ window[q] \in Nat /\ wire[q] \in Nat /\ failed[q] \in Nat
          /\ window'[q] \in Nat /\ wire'[q] \in Nat /\ failed'[q] \in Nat
      BY <1>6, Zenon DEF IInv, TypeOK
    <3>3. live'[q] = live[q] BY <1>5, Zenon DEF queueVars
    <3>4. /\ Promised[q] = IF live[q] THEN window[q] + Carried(q) + wire[q] + failed[q] ELSE 0
          /\ Promised'[q] =
               IF live'[q] THEN window'[q] + Carried(q)' + wire'[q] + failed'[q] ELSE 0
      BY Zenon DEF Promised
    <3>5. Carried(q) \in Nat /\ Carried(q)' \in Nat BY <2>1, Zenon
    <3>6. CASE live[q]
      <4>1. /\ Promised[q] = window[q] + Carried(q) + wire[q] + failed[q]
            /\ Promised'[q] = window'[q] + Carried(q)' + wire'[q] + failed'[q]
        BY <3>3, <3>4, <3>6, Zenon
      <4>2. window'[q] + Carried(q)' + wire'[q] + failed'[q] =
              window[q] + Carried(q) + wire[q] + failed[q]
        <5>1. window'[q] + Carried(q)' + wire'[q] + failed'[q] =
                (window'[q] + Carried(q)') + (wire'[q] + failed'[q])
          BY ONLY <3>2, <3>5
        <5>2. (window[q] - k + Carried(q)) + (wire[q] + failed[q] + k) =
                window[q] + Carried(q) + wire[q] + failed[q]
          BY ONLY <3>2, <3>5, <1>4
        <5>3. QED BY ONLY <5>1, <5>2, <3>1, <2>3, Zenon
      <4>3. QED BY ONLY <4>1, <4>2, Zenon
    <3>7. CASE ~live[q] BY <3>3, <3>4, <3>7, Zenon
    <3>8. QED BY <3>6, <3>7, Zenon
  <2>5. ASSUME NEW r \in Queues \ {q} PROVE Promised'[r] = Promised[r]
    <3>1. wire'[r] = wire[r] /\ failed'[r] = failed[r] BY <1>3, <1>4, PostedKeeps, Zenon
    <3>2. window'[r] = window[r] BY <1>3, Zenon
    <3>3. QED BY <3>1, <3>2, <2>2, <1>5, Zenon DEF Promised
  <2>6. QED BY <2>4, <2>5, Zenon
<1>9. QED BY <1>3, <1>4, <1>5, <1>6, <1>7, <1>8, PostedKeeps, SenderStep, Zenon

\* The idle monitor, and the checks of a return, leave all counters alone.
LEMMA MonitorStep == ASSUME IInv, NEW q \in Queues, Monitor(q) PROVE IInv'
<1> USE DEF Monitor, queueVars, poolVars, wireVars
<1>1. TypeOK' BY Zenon DEF IInv, TypeOK
<1>2. OneExchange' BY Zenon DEF IInv, TypeOK, OneExchange
<1>3. \A r \in Queues : Promised'[r] = Promised[r]
  BY Zenon DEF IInv, TypeOK, Messages, Promised, Carried
<1>4. \A r \in Queues : live[r] \/ wire'[r] = 0 BY Zenon DEF IInv, TypeOK, Stock
<1>5. QED BY <1>1, <1>2, <1>3, <1>4, SenderStep, Zenon

\* The checks of a return only decide how much to give back.
LEMMA ReturnCheckStep == ASSUME IInv, NEW q \in Queues, ReturnCheck(q) PROVE IInv'
<1> USE DEF ReturnCheck, queueVars, poolVars, wireVars
<1>1. TypeOK'
  <2>1. ret' \in [Queues -> Nat] /\ flag' \in [Queues -> BOOLEAN]
    <3>1. window[q] \in Nat /\ ReturnThreshold(q) \in Nat
      BY ThresholdNat, CreditAssumption, Zenon DEF IInv, TypeOK, ReturnThreshold
    <3>2. window[q] <= ReturnThreshold(q) \/ ReturnCredit(window[q], ReturnThreshold(q)) \in Nat
      <4>1. TypeOK BY Zenon DEF IInv
      <4>2. CASE window[q] > ReturnThreshold(q) BY ONLY <4>1, <4>2, ReturnNat, q \in Queues, Zenon
      <4>3. QED BY ONLY <3>1, <4>2
    <3>3. \/ flag' = [flag EXCEPT ![q] = FALSE] /\ ret' = ret
          \/ /\ ret' = [ret EXCEPT ![q] = ReturnCredit(window[q], ReturnThreshold(q))]
             /\ flag' = flag /\ ~(window[q] <= ReturnThreshold(q))
      BY Zenon
    <3>4. ret \in [Queues -> Nat] /\ flag \in [Queues -> BOOLEAN] BY Zenon DEF IInv, TypeOK
    <3> HIDE DEF ReturnCheck
    <3>5. QED BY <3>2, <3>3, <3>4, Zenon
  <2>2. UNCHANGED <<window, applying, per, ratio, bound, tx, sent, fc, wire, failed, live, alloc,
                    consumed, arrived, idle, allocated, rqe, held, prefill, troubles, lost>>
    BY Zenon
  <2> HIDE DEF ReturnCheck
  <2>3. QED BY <2>1, <2>2, Zenon DEF IInv, TypeOK
<1>2. OneExchange' BY Zenon DEF IInv, TypeOK, OneExchange
<1>3. \A r \in Queues : Promised'[r] = Promised[r]
  BY Zenon DEF IInv, TypeOK, Messages, Promised, Carried
<1>4. \A r \in Queues : live[r] \/ wire'[r] = 0 BY Zenon DEF IInv, TypeOK, Stock
<1>5. QED BY <1>1, <1>2, <1>3, <1>4, SenderStep, Zenon

\* A failed request or return is undone.
LEMMA PollRequestErrorStep == ASSUME IInv, NEW q \in Queues, PollRequestError(q) PROVE IInv'
<1> USE DEF PollRequestError, queueVars, poolVars, wireVars, RequestError, RequestFailed
<1>1. TypeOK' BY DEF IInv, TypeOK, Messages, Message, NoMessage, Types
<1>2. OneExchange' BY Zenon DEF IInv, TypeOK, OneExchange, Messages, Message, NoMessage, Types
<1>3. \A r \in Queues : Promised'[r] = Promised[r]
  BY DEF IInv, TypeOK, Messages, Promised, Carried, NoMessage, Message
<1>4. \A r \in Queues : live[r] \/ wire'[r] = 0 BY Zenon DEF IInv, TypeOK, Stock
<1>5. QED BY <1>1, <1>2, <1>3, <1>4, SenderStep, Zenon

\* A failed message is back in the window.
LEMMA TxFailedStep == ASSUME IInv, NEW q \in Queues, TxFailed(q) PROVE IInv'
<1> USE DEF TxFailed, queueVars, poolVars, wireVars
<1>1. TypeOK' BY DEF IInv, TypeOK
<1>2. OneExchange' BY Zenon DEF IInv, TypeOK, OneExchange
<1>3. \A r \in Queues : Promised'[r] = Promised[r]
  <2>1. \A r \in Queues : Carried(r) \in Nat /\ Carried(r)' = Carried(r)
    BY PromisedNat, Zenon DEF IInv, Carried
  <2>2. QED BY <2>1, SMTT(40) DEF IInv, TypeOK, Promised
<1>4. \A r \in Queues : live[r] \/ wire'[r] = 0 BY Zenon DEF IInv, TypeOK, Stock
<1>5. QED BY <1>1, <1>2, <1>3, <1>4, SenderStep, Zenon

\* The credits of a reply go to the window.
LEMMA RespHandleStep == ASSUME IInv, NEW q \in Queues, RespHandle(q) PROVE IInv'
<1> USE DEF RespHandle, queueVars, poolVars, wireVars, Received, Release
<1>1. TypeOK'
  <2>1. per[q] \in Nat /\ fc[q].n \in Nat /\ fc[q].ratio \in 0 .. 3
    BY Zenon DEF IInv, TypeOK, Messages
  <2>2. NextRequest(per[q], fc[q].n, fc[q].ratio) \in Nat BY <2>1, NextRequestNat, Zenon
  <2>3. QED BY <2>1, <2>2 DEF IInv, TypeOK, Messages, Message, NoMessage, Types
<1>2. OneExchange' BY Zenon DEF IInv, TypeOK, OneExchange, Messages, Message, NoMessage, Types
<1>3. \A r \in Queues : Promised'[r] = Promised[r]
  BY DEF IInv, TypeOK, Messages, Promised, Carried, NoMessage, Message
<1>4. \A r \in Queues : live[r] \/ wire'[r] = 0 BY Zenon DEF IInv, TypeOK, Stock
<1>5. QED BY <1>1, <1>2, <1>3, <1>4, SenderStep, Zenon

\* An acknowledgement carries none.
LEMMA AckHandleStep == ASSUME IInv, NEW q \in Queues, AckHandle(q) PROVE IInv'
<1> USE DEF AckHandle, queueVars, poolVars, wireVars, Received, Release
<1>1. TypeOK' BY DEF IInv, TypeOK, Messages, Message, NoMessage, Types
<1>2. OneExchange' BY Zenon DEF IInv, TypeOK, OneExchange, Messages, Message, NoMessage, Types
<1>3. \A r \in Queues : Promised'[r] = Promised[r]
  BY Zenon DEF IInv, TypeOK, Messages, Promised, Carried, NoMessage, Message
<1>4. \A r \in Queues : live[r] \/ wire'[r] = 0 BY Zenon DEF IInv, TypeOK, Stock
<1>5. QED BY <1>1, <1>2, <1>3, <1>4, SenderStep, Zenon

\* Unbinding forgets the call of the user.
LEMMA UnbindStep == ASSUME IInv, NEW q \in Queues, Unbind(q) PROVE IInv'
<1> USE DEF Unbind, queueVars, poolVars, wireVars, CloseBound
<1>1. TypeOK' BY DEF IInv, TypeOK, Call
<1>2. OneExchange' BY Zenon DEF IInv, TypeOK, OneExchange, Call
<1>3. \A r \in Queues : Promised'[r] = Promised[r]
  BY Zenon DEF IInv, TypeOK, Messages, Promised, Carried
<1>4. \A r \in Queues : live[r] \/ wire'[r] = 0 BY Zenon DEF IInv, TypeOK, Stock
<1>5. QED BY <1>1, <1>2, <1>3, <1>4, SenderStep, Zenon

\* A message fails, or a flow control message does: both are still counted.
LEMMA FailSendStep == ASSUME IInv, NEW q \in Queues, FailSend(q) PROVE IInv'
<1> USE DEF FailSend, senderVars, queueVars, poolVars, wireVars
<1>1. TypeOK' BY DEF IInv, TypeOK, Fault
<1>2. OneExchange' BY Zenon DEF IInv, TypeOK, OneExchange, Fault
<1>3. \A r \in Queues : Promised'[r] = Promised[r]
  <2>1. \A r \in Queues : Carried(r) \in Nat /\ Carried(r)' = Carried(r)
    BY PromisedNat, Zenon DEF IInv, Carried
  <2>2. wire \in [Queues -> Nat] /\ failed \in [Queues -> Nat] /\ window \in [Queues -> Nat]
    BY Zenon DEF IInv, TypeOK
  <2>3. \A r \in Queues : wire'[r] + failed'[r] = wire[r] + failed[r] BY <2>2
  <2>4. wire' \in [Queues -> Nat] /\ failed' \in [Queues -> Nat] BY <1>1, Zenon DEF TypeOK
  <2>5. QED BY <2>1, <2>2, <2>3, <2>4 DEF Promised
<1>4. \A r \in Queues : live[r] \/ wire'[r] = 0 BY DEF IInv, TypeOK, Stock
<1>5. QED BY <1>1, <1>2, <1>3, <1>4, SenderStep, ZenonT(40)

\* A failed flow control message still carries its credits until its completion is polled.
LEMMA FailMessageStep == ASSUME IInv, NEW q \in Queues, FailMessage(q) PROVE IInv'
<1> USE DEF FailMessage, senderVars, queueVars, poolVars, wireVars
<1>1. TypeOK'
  <2>1. fc \in [Queues -> Messages] BY Zenon DEF IInv, TypeOK
  <2>2. [fc[q] EXCEPT !.failed = TRUE] \in Messages BY <2>1, Zenon DEF Messages
  <2>3. fc' = [fc EXCEPT ![q] = [fc[q] EXCEPT !.failed = TRUE]] BY <2>1, Zenon
  <2>4. fc' \in [Queues -> Messages] BY <2>1, <2>2, <2>3, Zenon
  <2>5. QED BY <2>4 DEF IInv, TypeOK, Fault
<1>2. OneExchange' BY Zenon DEF IInv, TypeOK, OneExchange, Messages, Fault
<1>3. \A r \in Queues : Promised'[r] = Promised[r]
  BY DEF IInv, TypeOK, Messages, Promised, Carried, Messages
<1>4. \A r \in Queues : live[r] \/ wire'[r] = 0 BY Zenon DEF IInv, TypeOK, Stock
<1>5. QED BY <1>1, <1>2, <1>3, <1>4, SenderStep, Zenon

\* Returned credits leave the window and are in the message; the window may be short.
LEMMA ReturnSendStep == ASSUME IInv, NEW q \in Queues, ReturnSend(q) PROVE IInv'
<1> USE DEF ReturnSend, queueVars, poolVars
<1>0. UNCHANGED <<queueVars, poolVars>> /\ \A r \in Queues : live[r] \/ wire'[r] = 0
  <2>1. UNCHANGED <<queueVars, poolVars, wire>> BY Zenon
  <2>2. \A r \in Queues : live[r] \/ wire[r] = 0 BY Zenon DEF IInv, Stock
  <2> HIDE DEF ReturnSend
  <2>3. QED BY <2>1, <2>2, Zenon
<1> DEFINE m == WindowDec(q, ret[q])
<1>1. window[q] \in Nat /\ m \in Nat /\ window[q] - m \in Nat
  <2>1. window[q] \in Nat /\ ret[q] \in Nat BY Zenon DEF IInv, TypeOK
  <2> HIDE DEF ReturnSend
  <2>2. QED BY <2>1 DEF WindowDec, Least
<1>2. per' \in [Queues -> Nat] /\ ret' \in [Queues -> Nat] /\ flag' \in [Queues -> BOOLEAN]
  <2> DEFINE d == per[q] \div Multiple
  <2>1. d \in Nat BY DivNat, CreditAssumption, Zenon DEF IInv, TypeOK
  <2>2. per' = per \/ per' = [per EXCEPT ![q] = IF d = 0 THEN 1 ELSE d] BY Zenon DEF IInv, TypeOK
  <2>3. ret' = [ret EXCEPT ![q] = 0] /\ (flag' = flag \/ flag' = [flag EXCEPT ![q] = FALSE])
    BY Zenon
  <2> HIDE DEF ReturnSend, d
  <2>4. per \in [Queues -> Nat] /\ ret \in [Queues -> Nat] /\ flag \in [Queues -> BOOLEAN]
    BY Zenon DEF IInv, TypeOK
  <2>5. per' \in [Queues -> Nat] BY <2>1, <2>2, <2>4
  <2>6. ret' \in [Queues -> Nat] BY <2>3, <2>4, Zenon
  <2>7. flag' \in [Queues -> BOOLEAN] BY <2>3, <2>4, Zenon
  <2>8. QED BY <2>5, <2>6, <2>7, Zenon
<1>3. CASE UNCHANGED <<applying, window, fc>>
  <2>0. troubles' \in Nat BY SMTT(40) DEF IInv, TypeOK, Fault
  <2>1. TypeOK' BY <2>0, <1>2, <1>3, Zenon DEF IInv, TypeOK, Fault
  <2>2. OneExchange' BY <1>3, Zenon DEF IInv, OneExchange
  <2>3. \A r \in Queues : Promised'[r] = Promised[r] BY <1>3, Zenon DEF Promised, Carried
  <2>4. QED BY <1>0, <2>1, <2>2, <2>3, SenderStep, Zenon
<1>4. CASE /\ ~applying[q] /\ UNCHANGED troubles
           /\ applying' = [applying EXCEPT ![q] = TRUE]
           /\ window' = [window EXCEPT ![q] = @ - m]
           /\ fc' = [fc EXCEPT ![q] = Message("RETURN_REQ", m, 0)]
  <2> HIDE DEF m
  <2>1. fc' \in [Queues -> Messages]
    BY <1>1, <1>4, SMTT(40) DEF IInv, TypeOK, Messages, Message, Types
  <2>2. TypeOK' BY <1>1, <1>2, <1>4, <2>1, Zenon DEF IInv, TypeOK
  <2>3. OneExchange' BY <1>4, Zenon DEF IInv, TypeOK, OneExchange
  <2>4. Carried(q) = 0 /\ Carried(q)' = m
    BY <1>4, Zenon DEF IInv, TypeOK, OneExchange, Carried, Message
  <2>5. \A r \in Queues : Promised'[r] = Promised[r]
    BY <1>1, <1>4, <2>4, SMTT(40) DEF IInv, TypeOK, Promised, Carried
  <2>6. QED BY <1>0, <2>2, <2>3, <2>5, SenderStep, Zenon
<1>5. QED BY <1>3, <1>4, Zenon

-----------------------------------------------------------------------------
(* The receiver: the pool and the record of one queue *)

\* A step that changes the promises, the completions or the record of one queue, and the pool
\* by as much.
LEMMA PoolStep ==
  ASSUME IInv, TypeOK', OneExchange', NEW q \in Queues,
         \A r \in Queues \ {q} :
            /\ Promised'[r] = Promised[r] /\ arrived'[r] = arrived[r] /\ live'[r] = live[r]
            /\ alloc'[r] = alloc[r] /\ consumed'[r] = consumed[r] /\ wire'[r] = wire[r],
         allocated' = allocated + (Promised'[q] - Promised[q]) + (arrived'[q] - arrived[q]),
         idle' + allocated' + held' = idle + allocated + held,
         rqe' + arrived'[q] + held' = rqe + arrived[q] + held,
         prefill' = prefill,
         live'[q] => alloc'[q] = consumed'[q] + Promised'[q] + arrived'[q],
         ~live'[q] => wire'[q] = 0 /\ arrived'[q] = 0
  PROVE  IInv'
<1>1. TypeOK BY Zenon DEF IInv
<1>2. /\ Total(Promised)' = Total(Promised) + Promised'[q] - Promised[q]
      /\ Total(arrived)' = Total(arrived) + arrived'[q] - arrived[q]
      /\ Total(Promised) \in Nat /\ Total(arrived) \in Nat
  BY <1>1, Sums, Zenon
<1>3. Promised'[q] \in Nat /\ Promised[q] \in Nat /\ arrived[q] \in Nat /\ arrived'[q] \in Nat
  BY <1>1, Sums, Zenon
<1>4. /\ idle \in Nat /\ allocated \in Nat /\ rqe \in Nat /\ held \in Nat
      /\ idle' \in Nat /\ allocated' \in Nat /\ rqe' \in Nat /\ held' \in Nat
      /\ prefill.cnt \in Nat /\ Depth \in Nat
  BY ONLY <1>1, TypeOK', CreditAssumption, Zenon DEF TypeOK
<1>5. Conserved'
  <2>1. ASSUME NEW r \in Queues, live'[r]
        PROVE  alloc'[r] = consumed'[r] + Promised'[r] + arrived'[r]
    BY <2>1, Zenon DEF IInv, Conserved
  <2>2. QED BY <2>1, Zenon DEF Conserved
<1>6. PoolBalance' BY <1>2, <1>3, <1>4 DEF IInv, PoolBalance
<1>7. Stock'
  <2>1. (rqe + Total(arrived) + held = Depth)'
    <3>1. rqe + Total(arrived) + held = Depth BY Zenon DEF IInv, Stock
    <3>2. ASSUME NEW t \in Nat, rqe + t + held = Depth
          PROVE  rqe' + (t + arrived'[q] - arrived[q]) + held' = Depth
      BY ONLY <3>2, <1>3, <1>4, rqe' + arrived'[q] + held' = rqe + arrived[q] + held
    <3>3. rqe' + (Total(arrived) + arrived'[q] - arrived[q]) + held' = Depth
      BY <3>1, <3>2, <1>2, Zenon
    <3>4. QED BY <3>3, <1>2, Zenon
  <2>2. ASSUME NEW r \in Queues, ~live'[r] PROVE wire'[r] = 0 /\ arrived'[r] = 0
    BY <2>2, Zenon DEF IInv, Stock
  <2>3. QED BY <2>1, <2>2, Zenon DEF IInv, Stock
<1>8. QED BY <1>5, <1>6, <1>7, Zenon DEF IInv

\* What the record of a queue and the pool hold is enough for what the queue gives back.
LEMMA Enough ==
  ASSUME IInv, NEW q \in Queues
  PROVE  /\ Promised[q] \in Nat /\ arrived[q] \in Nat /\ alloc[q] \in Nat
         /\ consumed[q] \in Nat /\ allocated \in Nat /\ idle \in Nat
         /\ Promised[q] + arrived[q] <= allocated
         /\ live[q] => /\ alloc[q] - consumed[q] = Promised[q] + arrived[q]
                       /\ Carried(q) \in Nat /\ Carried(q) <= Promised[q]
<1>1. TypeOK BY Zenon DEF IInv
<1>2. Promised \in [Queues -> Nat] /\ arrived \in [Queues -> Nat] /\ Carried(q) \in Nat
  BY <1>1, PromisedNat, Zenon DEF TypeOK
<1>3. Promised[q] <= Total(Promised) /\ arrived[q] <= Total(arrived) BY <1>2, TotalAbove, Zenon
<1>4. Total(Promised) \in Nat /\ Total(arrived) \in Nat BY <1>2, TotalNat, Zenon
<1>5. allocated = Total(Promised) + Total(arrived) BY Zenon DEF IInv, PoolBalance
<1>6. alloc[q] \in Nat /\ consumed[q] \in Nat /\ allocated \in Nat /\ idle \in Nat
  BY <1>1, Zenon DEF TypeOK
<1>7. live[q] => alloc[q] = consumed[q] + Promised[q] + arrived[q] BY Zenon DEF IInv, Conserved
<1>8. live[q] => Carried(q) <= Promised[q] BY <1>1, <1>2 DEF TypeOK, Promised
<1>9. QED BY <1>2, <1>3, <1>4, <1>5, <1>6, <1>7, <1>8, SMTT(30)

\* Giving back m credits that are promised to the queue.
LEMMA GiveBackExact ==
  ASSUME IInv, NEW q \in Queues, NEW m \in Nat, live[q], m <= Promised[q], GiveBack(q, m)
  PROVE  /\ allocated' = allocated - m /\ allocated' \in Nat
         /\ idle' = idle + m /\ idle' \in Nat
         /\ alloc' = [alloc EXCEPT ![q] = alloc[q] - m] /\ alloc' \in [Queues -> Nat]
<1>1. m <= allocated /\ m <= alloc[q] BY Enough
<1>2. Least(allocated, m) = m /\ Least(alloc[q], m) = m BY <1>1, Enough DEF Least
<1>3. alloc[q] - m \in Nat /\ allocated - m \in Nat /\ idle + m \in Nat BY <1>1, Enough
<1>4. alloc \in [Queues -> Nat] BY Zenon DEF IInv, TypeOK
<1>5. QED BY <1>2, <1>3, <1>4, Zenon DEF GiveBack

-----------------------------------------------------------------------------
(* The receiver: the pool and the record of one queue *)

\* Idle credits become promises.
LEMMA ReqHandleStep == ASSUME IInv, NEW q \in Queues, ReqHandle(q) PROVE IInv'
<1> DEFINE m == Least(idle, fc[q].n)
<1>1. /\ live[q] /\ fc[q].type = "REQ" /\ fc[q].n \in Nat /\ Carried(q) = 0
      /\ UNCHANGED <<window, applying, per, ratio, flag, bound, tx, ret, sent, wire, failed, live,
                     consumed, arrived, rqe, held, prefill>>
  BY Zenon DEF ReqHandle, Received, IInv, TypeOK, Messages, Carried, senderVars
<1>2. m \in Nat /\ idle - m \in Nat BY <1>1, Enough DEF Least
<1>3. CASE /\ idle' = idle - m /\ allocated' = allocated + m
           /\ alloc' = [alloc EXCEPT ![q] = alloc[q] + m]
           /\ Answer(q, Message("REP", m, RatioToImm(idle - m, Depth)))
  <2> HIDE DEF m
  <2> DEFINE x == RatioToImm(idle - m, Depth)
  <2>1. x \in 0 .. 3 BY RatioType, Zenon
  <2> HIDE DEF x
  <2>2. fc' = [fc EXCEPT ![q] = Message("REP", m, x)] /\ UNCHANGED <<troubles, lost>>
    BY <1>3, Zenon DEF Answer, x
  <2>3. fc' \in [Queues -> Messages]
    BY <1>2, <2>1, <2>2, Zenon DEF IInv, TypeOK, Messages, Message, Types
  <2>0. /\ alloc[q] \in Nat /\ consumed[q] \in Nat /\ arrived[q] \in Nat /\ Promised[q] \in Nat
        /\ alloc[q] - consumed[q] = Promised[q] + arrived[q]
        /\ idle \in Nat /\ allocated \in Nat
    BY <1>1, Enough, Zenon
  <2> alloc[q] + m \in Nat /\ allocated + m \in Nat BY ONLY <2>0, <1>2
  <2>4. alloc' \in [Queues -> Nat] BY <1>3, Zenon DEF IInv, TypeOK
  <2>5. TypeOK' BY <1>1, <1>2, <1>3, <2>2, <2>3, <2>4, Zenon DEF IInv, TypeOK
  <2>6. OneExchange' BY <1>1, <2>2, Zenon DEF IInv, TypeOK, OneExchange
  <2>7. Carried(q)' = m BY <2>2, Zenon DEF IInv, TypeOK, Carried, Message
  <2>8. Promised'[q] = Promised[q] + m
    <3>1. /\ Promised'[q] = window[q] + m + wire[q] + failed[q]
          /\ Promised[q] = window[q] + 0 + wire[q] + failed[q]
      BY <1>1, <2>7, Zenon DEF Promised
    <3>2. window[q] \in Nat /\ wire[q] \in Nat /\ failed[q] \in Nat BY Zenon DEF IInv, TypeOK
    <3>3. QED BY ONLY <3>1, <3>2, <1>2
  <2>9. \A r \in Queues \ {q} : Promised'[r] = Promised[r] BY <1>1, <2>2 DEF Promised, Carried
  <2>10. \A r \in Queues \ {q} : alloc'[r] = alloc[r] BY <1>3, Zenon DEF IInv, TypeOK
  <2>11. alloc'[q] = consumed'[q] + Promised'[q] + arrived'[q]
    <3>1. /\ alloc'[q] = alloc[q] + m /\ consumed'[q] = consumed[q] /\ arrived'[q] = arrived[q]
      BY <1>1, <1>3, Zenon DEF IInv, TypeOK
    <3>2. QED BY ONLY <3>1, <2>0, <2>8, <1>2
  <2>12. allocated' = allocated + (Promised'[q] - Promised[q]) + (arrived'[q] - arrived[q])
    <3>1. arrived'[q] = arrived[q] BY <1>1, Zenon
    <3>2. QED BY ONLY <3>1, <2>0, <2>8, <1>2, <1>3
  <2>13. idle' + allocated' + held' = idle + allocated + held
    <3>1. held' = held /\ held \in Nat BY <1>1, Zenon DEF IInv, TypeOK
    <3>2. QED BY ONLY <3>1, <2>0, <1>2, <1>3, SMTT(30)
  <2>14. QED BY <1>1, <2>5, <2>6, <2>9, <2>10, <2>11, <2>12, <2>13, PoolStep, Zenon
<1>4. CASE NoAnswer(q) /\ UNCHANGED <<idle, allocated, alloc>>
  <2>1. fc' = [fc EXCEPT ![q] = NoMessage] /\ troubles' \in Nat /\ lost' \in [Queues -> BOOLEAN]
    BY <1>4, SMTT(30) DEF NoAnswer, Fault, IInv, TypeOK
  <2>2. fc' \in [Queues -> Messages] BY <2>1 DEF IInv, TypeOK, Messages, NoMessage, Message, Types
  <2>3. TypeOK' BY <1>1, <1>4, <2>1, <2>2, Zenon DEF IInv, TypeOK
  <2>4. OneExchange' BY <1>1, <2>1, Zenon DEF IInv, TypeOK, OneExchange, NoMessage, Message
  <2>5. Carried(q)' = 0 BY <2>1, Zenon DEF IInv, TypeOK, Carried, NoMessage, Message
  <2>6. \A r \in Queues : Promised'[r] = Promised[r]
    <3>1. Promised'[q] = Promised[q] BY <1>1, <2>5, Zenon DEF Promised
    <3>2. fc \in [Queues -> Messages] BY Zenon DEF IInv, TypeOK
    <3>3. \A r \in Queues \ {q} : fc'[r] = fc[r] BY <2>1, <3>2, Zenon
    <3>4. \A r \in Queues \ {q} : Promised'[r] = Promised[r]
      BY <1>1, <3>3, Zenon DEF Promised, Carried
    <3>5. QED BY <3>1, <3>4, Zenon
  <2>7. QED BY <1>1, <1>4, <2>3, <2>4, <2>6, SenderStep, Zenon DEF IInv, Stock, queueVars, poolVars
<1>5. QED BY <1>3, <1>4, Zenon DEF ReqHandle

\* A queue gives back m credits that its message carries; the message is replaced by one that
\* carries none.
LEMMA GiveBackStep ==
  ASSUME IInv, TypeOK', NEW q \in Queues, live[q],
         GiveBack(q, Carried(q)), Carried(q)' = 0,
         \A r \in Queues \ {q} : fc'[r] = fc[r],
         fc[q].type # "NONE",
         UNCHANGED <<senderVars, wire, failed, live, consumed, arrived, rqe, held, prefill>>
  PROVE  IInv'
<1> USE DEF senderVars
<1> DEFINE m == Carried(q)
<1>1. m \in Nat /\ m <= Promised[q] BY Enough, Zenon
<1>2. /\ allocated' = allocated - m /\ idle' = idle + m
      /\ alloc' = [alloc EXCEPT ![q] = alloc[q] - m]
  BY <1>1, GiveBackExact, Zenon
<1>3. OneExchange' BY Zenon DEF IInv, OneExchange
<1>4. Promised'[q] = Promised[q] - m BY <1>1 DEF Promised, IInv, TypeOK
<1>5. \A r \in Queues \ {q} : Promised'[r] = Promised[r] BY Zenon DEF Promised, Carried
<1> HIDE DEF m
<1>6. \A r \in Queues \ {q} : alloc'[r] = alloc[r] BY <1>2, Zenon DEF IInv, TypeOK
<1>7. alloc'[q] = consumed'[q] + Promised'[q] + arrived'[q]
  <2>1. alloc'[q] = alloc[q] - m BY <1>2, Zenon DEF IInv, TypeOK
  <2>2. alloc[q] = consumed[q] + Promised[q] + arrived[q] BY Zenon DEF IInv, Conserved
  <2>3. /\ alloc[q] \in Nat /\ consumed[q] \in Nat /\ Promised[q] \in Nat /\ arrived[q] \in Nat
    BY Enough, Zenon
  <2>4. consumed'[q] = consumed[q] /\ arrived'[q] = arrived[q] BY Zenon
  <2>5. QED BY ONLY <2>1, <2>2, <2>3, <2>4, <1>1, <1>4
<1>8. allocated' = allocated + (Promised'[q] - Promised[q]) + (arrived'[q] - arrived[q])
  <2>1. arrived'[q] = arrived[q] /\ arrived[q] \in Nat /\ Promised[q] \in Nat /\ allocated \in Nat
    BY Enough, Zenon
  <2>2. allocated' = allocated - m BY <1>2, Zenon
  <2>3. QED BY ONLY <2>1, <2>2, <1>1, <1>4
<1>9. idle' + allocated' + held' = idle + allocated + held
  <2>1. idle \in Nat /\ allocated \in Nat /\ held \in Nat /\ held' = held
    BY Zenon DEF IInv, TypeOK
  <2>2. QED BY ONLY <2>1, <1>1, <1>2
<1>10. QED BY <1>3, <1>5, <1>6, <1>7, <1>8, <1>9, PoolStep, Zenon

\* Returned credits become idle, whether or not the acknowledgement can be sent.
LEMMA ReturnHandleStep == ASSUME IInv, NEW q \in Queues, ReturnHandle(q) PROVE IInv'
<1> DEFINE m == IF alloc[q] < consumed[q] THEN 0 ELSE Least(fc[q].n, alloc[q] - consumed[q])
           x == RatioToImm(idle + m, Depth)
<1>1. /\ live[q] /\ fc[q].type = "RETURN_REQ" /\ GiveBack(q, m)
      /\ Answer(q, Message("RETURN_ACK", m, x)) \/ NoAnswer(q)
      /\ UNCHANGED <<senderVars, wire, failed, live, consumed, arrived, rqe, held, prefill>>
  BY Zenon DEF ReturnHandle, Received
<1>2. fc[q].n = Carried(q) BY <1>1, Zenon DEF Carried
<1>3. m = Carried(q) /\ m \in Nat
  <2>1. /\ alloc[q] - consumed[q] = Promised[q] + arrived[q]
        /\ Carried(q) \in Nat /\ Carried(q) <= Promised[q]
    BY <1>1, Enough, Zenon
  <2>2. /\ alloc[q] \in Nat /\ consumed[q] \in Nat /\ Promised[q] \in Nat /\ arrived[q] \in Nat
    BY Enough, Zenon
  <2>3. ~(alloc[q] < consumed[q]) /\ Carried(q) <= alloc[q] - consumed[q] BY ONLY <2>1, <2>2
  <2>4. QED BY ONLY <1>2, <2>1, <2>3, Zenon DEF m, Least
<1>4. x \in 0 .. 3 BY RatioType, Zenon
<1> HIDE DEF m, x
<1>5. troubles' \in Nat /\ lost' \in [Queues -> BOOLEAN]
  <2>1. \/ UNCHANGED <<troubles, lost>>
        \/ troubles' = troubles + 1 /\ lost' = [lost EXCEPT ![q] = TRUE]
    BY <1>1, Zenon DEF Answer, NoAnswer, Fault
  <2>2. troubles \in Nat /\ lost \in [Queues -> BOOLEAN] BY Zenon DEF IInv, TypeOK
  <2>3. troubles' \in Nat BY <2>1, <2>2
  <2>4. lost' \in [Queues -> BOOLEAN] BY <2>1, <2>2, Zenon
  <2>5. QED BY <2>3, <2>4, Zenon
<1>6. PICK msg \in {Message("RETURN_ACK", m, x), NoMessage} : fc' = [fc EXCEPT ![q] = msg]
  BY <1>1, Zenon DEF Answer, NoAnswer
<1>7. msg \in Messages /\ msg.type \notin {"REP", "RETURN_REQ"}
  <2>1. CASE msg = Message("RETURN_ACK", m, x)
    BY <1>3, <1>4, <2>1, Zenon DEF Messages, Message, Types
  <2>2. CASE msg = NoMessage
    <3>1. NoMessage = [type |-> "NONE", n |-> 0, ratio |-> 0, failed |-> FALSE]
      BY Zenon DEF NoMessage, Message
    <3>2. NoMessage \in Messages /\ NoMessage.type = "NONE" BY <3>1 DEF Messages, Types
    <3>3. QED BY <2>2, <3>2, Zenon
  <2>3. QED BY <1>6, <2>1, <2>2, Zenon
<1>8. Carried(q)' = 0 /\ \A r \in Queues \ {q} : fc'[r] = fc[r]
  BY <1>6, <1>7, Zenon DEF Carried, IInv, TypeOK
<1>9. fc' \in [Queues -> Messages] BY <1>6, <1>7, Zenon DEF IInv, TypeOK
<1>10. GiveBack(q, Carried(q)) BY <1>1, <1>3, Zenon
<1>11. TypeOK'
  <2>1. allocated' \in Nat /\ idle' \in Nat /\ alloc' \in [Queues -> Nat]
    BY <1>1, <1>10, Enough, GiveBackExact, Zenon
  <2>2. QED BY <2>1, <1>1, <1>5, <1>9, Zenon DEF IInv, TypeOK, senderVars
<1>12. QED BY <1>1, <1>8, <1>10, <1>11, GiveBackStep, Zenon

\* The credits of a failed reply return to the pool; an acknowledgement has none.
LEMMA AnswerErrorStep == ASSUME IInv, NEW q \in Queues, AnswerError(q) PROVE IInv'
<1>1. /\ live[q] /\ fc[q].type \in {"REP", "RETURN_ACK"}
      /\ fc' = [fc EXCEPT ![q] = NoMessage]
      /\ lost' = [lost EXCEPT ![q] = TRUE] /\ UNCHANGED troubles
      /\ UNCHANGED <<senderVars, wire, failed, live, consumed, arrived, rqe, held, prefill>>
  BY Zenon DEF AnswerError, AnswerFailed
<1>2. GiveBack(q, Carried(q)) BY <1>1, Zenon DEF AnswerError, Carried
<1>3. Carried(q)' = 0 /\ \A r \in Queues \ {q} : fc'[r] = fc[r]
  BY <1>1, Zenon DEF Carried, IInv, TypeOK, NoMessage, Message
<1>4. fc' \in [Queues -> Messages] BY <1>1 DEF IInv, TypeOK, Messages, NoMessage, Message, Types
<1>5. lost' \in [Queues -> BOOLEAN] BY <1>1, Zenon DEF IInv, TypeOK
<1>6. allocated' \in Nat /\ idle' \in Nat /\ alloc' \in [Queues -> Nat]
  BY <1>1, <1>2, Enough, GiveBackExact, Zenon
<1>7. TypeOK' BY <1>1, <1>4, <1>5, <1>6, Zenon DEF IInv, TypeOK, senderVars
<1>8. QED BY <1>1, <1>2, <1>3, <1>7, GiveBackStep, Zenon

-----------------------------------------------------------------------------
(* Connections and receive buffers, and the theorems *)

\* A new connection starts with nothing at both ends.
LEMMA BindStep == ASSUME IInv, NEW q \in Queues, Bind(q) PROVE IInv'
<1> USE DEF Bind, poolVars
<1>1. fc' \in [Queues -> Messages]
  <2>1. Least(InitialCredit, MaxImm) \in Nat BY CreditAssumption, Zenon DEF Least
  <2>2. QED BY <2>1 DEF IInv, TypeOK, Messages, Message, Types
<1>2. TypeOK' BY <1>1, CreditAssumption, SMTT(30) DEF IInv, TypeOK
<1>3. OneExchange' BY Zenon DEF IInv, TypeOK, OneExchange
<1>4. Promised[q] = 0 /\ arrived[q] = 0 /\ wire[q] = 0 BY Zenon DEF IInv, Stock, Promised
<1>5. Promised'[q] = 0 BY <1>4, SMTT(30) DEF IInv, TypeOK, Promised, Carried, Message
<1>6. \A r \in Queues \ {q} :
        /\ Promised'[r] = Promised[r] /\ arrived'[r] = arrived[r] /\ live'[r] = live[r]
        /\ alloc'[r] = alloc[r] /\ consumed'[r] = consumed[r] /\ wire'[r] = wire[r]
  BY Zenon DEF IInv, TypeOK, Promised, Carried
<1>7. alloc'[q] = 0 /\ consumed'[q] = 0 /\ live'[q] /\ arrived'[q] = 0 BY Zenon DEF IInv, TypeOK
<1>8. UNCHANGED <<allocated, idle, held, rqe, prefill, arrived>> BY Zenon
<1>9. allocated \in Nat BY Zenon DEF IInv, TypeOK
<1> HIDE DEF Bind
<1>10. allocated' = allocated + (Promised'[q] - Promised[q]) + (arrived'[q] - arrived[q])
  BY <1>4, <1>5, <1>7, <1>8, <1>9, SMTT(30)
<1>11. QED BY <1>2, <1>3, <1>4, <1>5, <1>6, <1>7, <1>8, <1>10, PoolStep, SMTT(30)

\* A destroyed queue, whose completions are polled, gives back all that is promised to it.
LEMMA DestroyStep == ASSUME Drained, IInv, NEW q \in Queues, Destroy(q) PROVE IInv'
<1>1. /\ live[q] /\ arrived[q] = 0 /\ live' = [live EXCEPT ![q] = FALSE]
      /\ failed' = [failed EXCEPT ![q] = @ + wire[q]] /\ wire' = [wire EXCEPT ![q] = 0]
      /\ UNCHANGED <<senderVars, fc, consumed, arrived, rqe, held, prefill, lost>>
      /\ CloseBound(bound[q])
  BY Zenon DEF Destroy
<1>2. GiveBack(q, Promised[q])
  <2>1. (IF alloc[q] < consumed[q] THEN 0 ELSE alloc[q] - consumed[q]) = Promised[q]
    BY <1>1, Enough, SMTT(30)
  <2>2. QED BY <2>1, Zenon DEF Destroy
<1>3. /\ allocated' = allocated - Promised[q] /\ allocated' \in Nat
      /\ idle' = idle + Promised[q] /\ idle' \in Nat
      /\ alloc' = [alloc EXCEPT ![q] = alloc[q] - Promised[q]] /\ alloc' \in [Queues -> Nat]
  BY <1>1, <1>2, Enough, GiveBackExact, SMTT(30)
<1>4. troubles' \in Nat BY <1>1, SMTT(30) DEF CloseBound, IInv, TypeOK
<1>5. /\ live' \in [Queues -> BOOLEAN] /\ failed' \in [Queues -> Nat]
      /\ wire' \in [Queues -> Nat]
  BY <1>1, SMTT(30) DEF IInv, TypeOK
<1>6. TypeOK' BY <1>1, <1>3, <1>4, <1>5, Zenon DEF IInv, TypeOK, senderVars
<1>7. OneExchange' BY <1>1, Zenon DEF IInv, OneExchange, senderVars
<1>8. ~live'[q] /\ wire'[q] = 0 /\ arrived'[q] = 0 BY <1>1, Zenon DEF IInv, TypeOK
<1>9. Promised'[q] = 0 BY <1>8, Zenon DEF Promised
<1>10. \A r \in Queues \ {q} :
        /\ Promised'[r] = Promised[r] /\ arrived'[r] = arrived[r] /\ live'[r] = live[r]
        /\ alloc'[r] = alloc[r] /\ consumed'[r] = consumed[r] /\ wire'[r] = wire[r]
  <2>1. TypeOK BY Zenon DEF IInv
  <2>2. ASSUME NEW r \in Queues \ {q}
        PROVE  /\ arrived'[r] = arrived[r] /\ live'[r] = live[r] /\ alloc'[r] = alloc[r]
               /\ consumed'[r] = consumed[r] /\ wire'[r] = wire[r] /\ failed'[r] = failed[r]
    BY ONLY <1>1, <1>3, <2>1, r \in Queues \ {q}, Zenon DEF TypeOK
  <2>3. fc' = fc /\ window' = window BY ONLY <1>1, Zenon DEF senderVars
  <2>4. QED BY ONLY <2>2, <2>3, Zenon DEF Promised, Carried
<1>11. allocated' = allocated + (Promised'[q] - Promised[q]) + (arrived'[q] - arrived[q])
  <2>1. Promised[q] \in Nat /\ allocated \in Nat BY Enough, Zenon
  <2>2. arrived[q] = 0 /\ arrived'[q] = 0 BY ONLY <1>1, <1>8, Zenon
  <2>3. QED BY ONLY <1>3, <1>9, <2>1, <2>2
<1>12. idle' + allocated' + held' = idle + allocated + held
  <2>1. Promised[q] \in Nat /\ allocated \in Nat /\ idle \in Nat BY Enough, Zenon
  <2>2. held' = held /\ held \in Nat BY <1>1, Zenon DEF IInv, TypeOK
  <2>3. QED BY ONLY <1>3, <2>1, <2>2
<1>13. QED BY <1>1, <1>6, <1>7, <1>8, <1>10, <1>11, <1>12, PoolStep, Zenon

\* A completion is polled: the promise is used up and the buffer is the user's.
LEMMA PollRxStep == ASSUME IInv, NEW q \in Queues, PollRx(q) PROVE IInv'
<1> USE DEF PollRx, senderVars, wireVars
<1>1. arrived[q] \in Nat /\ arrived[q] > 0 /\ allocated >= 1 /\ Promised[q] \in Nat
  <2>1. /\ Promised[q] \in Nat /\ arrived[q] \in Nat /\ allocated \in Nat
        /\ Promised[q] + arrived[q] <= allocated /\ arrived[q] > 0
    BY Enough, Zenon
  <2>2. QED BY ONLY <2>1
<1>2. live[q]
  <2>1. live[q] \/ arrived[q] = 0 BY Zenon DEF IInv, Stock
  <2>2. QED BY ONLY <2>1, <1>1
<1>3. allocated' = allocated - 1 /\ allocated' \in Nat
  <2>1. allocated' = allocated - Least(allocated, 1) BY Zenon
  <2>2. allocated \in Nat BY Zenon DEF IInv, TypeOK
  <2>3. QED BY ONLY <2>1, <2>2, <1>1 DEF Least
<1>4. /\ arrived' = [arrived EXCEPT ![q] = arrived[q] - 1]
      /\ consumed' = [consumed EXCEPT ![q] = consumed[q] + 1] /\ held' = held + 1
      /\ UNCHANGED <<window, applying, per, ratio, flag, bound, tx, ret, sent, fc, wire, failed,
                     live, alloc, idle, rqe, prefill, troubles, lost>>
  BY Zenon
<1> HIDE DEF PollRx
<1>5. /\ arrived'[q] = arrived[q] - 1 /\ consumed'[q] = consumed[q] + 1
      /\ \A r \in Queues \ {q} : arrived'[r] = arrived[r] /\ consumed'[r] = consumed[r]
      /\ arrived' \in [Queues -> Nat] /\ consumed' \in [Queues -> Nat]
  <2>1. arrived \in [Queues -> Nat] /\ consumed \in [Queues -> Nat] BY Zenon DEF IInv, TypeOK
  <2>2. QED BY ONLY <2>1, <1>1, <1>4, SMTT(30)
<1>6. TypeOK'
  <2>1. held \in Nat BY Zenon DEF IInv, TypeOK
  <2>2. held' \in Nat BY ONLY <2>1, <1>4
  <2>3. QED BY <1>3, <1>4, <1>5, <2>2, Zenon DEF IInv, TypeOK
<1>7. OneExchange' BY <1>4, Zenon DEF IInv, OneExchange
<1>8. Promised' = Promised BY <1>4, Zenon DEF Promised, Carried
<1>9. alloc'[q] = consumed'[q] + Promised'[q] + arrived'[q]
  <2>1. alloc[q] = consumed[q] + Promised[q] + arrived[q] BY <1>2, Zenon DEF IInv, Conserved
  <2>2. consumed[q] \in Nat BY Enough, Zenon
  <2>3. alloc'[q] = alloc[q] BY <1>4, Zenon
  <2>4. QED BY ONLY <2>1, <2>2, <2>3, <1>1, <1>5, <1>8, SMTT(30)
<1>10. allocated' = allocated + (Promised'[q] - Promised[q]) + (arrived'[q] - arrived[q])
  BY <1>1, <1>3, <1>5, <1>8, Enough, SMTT(30)
<1>11. /\ idle' + allocated' + held' = idle + allocated + held
       /\ rqe' + arrived'[q] + held' = rqe + arrived[q] + held
  <2>0. TypeOK BY Zenon DEF IInv
  <2>1. idle \in Nat /\ allocated \in Nat /\ held \in Nat /\ rqe \in Nat BY ONLY <2>0, Zenon
    DEF TypeOK
  <2>2. /\ idle' = idle /\ held' = held + 1 /\ rqe' = rqe /\ arrived'[q] = arrived[q] - 1
        /\ allocated' = allocated - 1
    BY <1>3, <1>4, <1>5, Zenon
  <2>3. QED BY ONLY <2>1, <2>2, <1>1
<1>12. QED BY <1>2, <1>4, <1>5, <1>6, <1>7, <1>8, <1>9, <1>10, <1>11, PoolStep, SMTT(30)

\* A message arrives in a posted buffer.
LEMMA ArriveStep == ASSUME IInv, NEW q \in Queues, Arrive(q) PROVE IInv'
<1> USE DEF Arrive, senderVars
<1>1. /\ wire[q] > 0 /\ rqe > 0 /\ rqe' = rqe - 1
      /\ wire' = [wire EXCEPT ![q] = wire[q] - 1]
      /\ arrived' = [arrived EXCEPT ![q] = arrived[q] + 1]
      /\ UNCHANGED <<window, applying, per, ratio, flag, bound, tx, ret, sent, fc, failed, live,
                     alloc, consumed, idle, allocated, held, prefill, troubles, lost>>
  BY Zenon
<1> HIDE DEF Arrive
<1>2. /\ wire[q] \in Nat /\ arrived[q] \in Nat /\ rqe \in Nat /\ held \in Nat
      /\ window[q] \in Nat /\ failed[q] \in Nat /\ Carried(q) \in Nat
  BY PromisedNat, Zenon DEF IInv, TypeOK
<1>3. live[q]
  <2>1. live[q] \/ wire[q] = 0 BY ONLY IInv, Zenon DEF IInv, Stock
  <2>2. QED BY ONLY <2>1, <1>1
<1>4. /\ wire'[q] = wire[q] - 1 /\ arrived'[q] = arrived[q] + 1
      /\ \A r \in Queues \ {q} : wire'[r] = wire[r] /\ arrived'[r] = arrived[r]
      /\ wire' \in [Queues -> Nat] /\ arrived' \in [Queues -> Nat]
  <2>1. wire \in [Queues -> Nat] /\ arrived \in [Queues -> Nat] BY Zenon DEF IInv, TypeOK
  <2>2. QED BY ONLY <2>1, <1>1, <1>2
<1>5. TypeOK'
  <2>1. rqe' \in Nat BY ONLY <1>1, <1>2
  <2>2. QED BY <1>1, <1>4, <2>1, Zenon DEF IInv, TypeOK
<1>6. OneExchange' BY <1>1, Zenon DEF IInv, OneExchange
<1>7. Carried(q)' = Carried(q) BY <1>1, Zenon DEF Carried
<1>8. Promised'[q] = Promised[q] - 1
  <2>1. /\ Promised'[q] = window[q] + Carried(q) + wire'[q] + failed[q]
        /\ Promised[q] = window[q] + Carried(q) + wire[q] + failed[q]
    BY <1>1, <1>3, <1>7, Zenon DEF Promised
  <2>2. QED BY ONLY <2>1, <1>1, <1>2, <1>4
<1>9. \A r \in Queues \ {q} : Promised'[r] = Promised[r] BY <1>1, <1>4, Zenon DEF Promised, Carried
<1>10. alloc'[q] = consumed'[q] + Promised'[q] + arrived'[q]
  <2>1. alloc[q] = consumed[q] + Promised[q] + arrived[q] BY <1>3, Zenon DEF IInv, Conserved
  <2>2. consumed[q] \in Nat /\ Promised[q] \in Nat BY Enough, Zenon
  <2>3. alloc'[q] = alloc[q] /\ consumed'[q] = consumed[q] BY <1>1, Zenon
  <2>4. QED BY ONLY <2>1, <2>2, <2>3, <1>2, <1>4, <1>8, SMTT(30)
<1>11. allocated' = allocated + (Promised'[q] - Promised[q]) + (arrived'[q] - arrived[q])
  <2>1. arrived'[q] = arrived[q] + 1 /\ allocated' = allocated BY <1>1, <1>4, Zenon
  <2>2. arrived[q] \in Nat /\ Promised[q] \in Nat /\ allocated \in Nat BY Enough, Zenon
  <2>3. QED BY ONLY <2>1, <2>2, <1>8
<1>12. rqe' + arrived'[q] + held' = rqe + arrived[q] + held
  <2>1. arrived'[q] = arrived[q] + 1 /\ rqe' = rqe - 1 /\ held' = held BY <1>1, <1>4, Zenon
  <2>2. QED BY ONLY <2>1, <1>2
<1>13. QED BY <1>1, <1>3, <1>4, <1>5, <1>6, <1>9, <1>10, <1>11, <1>12, PoolStep, SMTT(30)

\* A buffer is posted: its credit is idle, or all of them are when the queue is full for the
\* first time.
LEMMA PostRxStep == ASSUME Posters = 1, IInv, PostRx PROVE IInv'
<1> USE DEF PostRx, senderVars, wireVars, queueVars
<1>1. /\ held \in Nat /\ rqe \in Nat /\ idle \in Nat /\ allocated \in Nat /\ Depth \in Nat
      /\ prefill \in [cnt : Nat, done : BOOLEAN] /\ held > 0 /\ rqe' = rqe + 1 /\ held' = held - 1
  BY CreditAssumption, Zenon DEF IInv, TypeOK
<1>2. UNCHANGED <<window, applying, per, ratio, flag, bound, tx, ret, sent, fc, wire, failed, live,
                  alloc, consumed, arrived, allocated, troubles, lost>>
  BY Zenon
<1>3. ~prefill.done => prefill.cnt < Depth BY <1>1 DEF Charging
<1>4. /\ idle' \in Nat /\ prefill' \in [cnt : Nat, done : BOOLEAN]
      /\ idle' - idle + (IF prefill'.cnt < Depth THEN prefill'.cnt ELSE 0)
         = 1 + (IF prefill.cnt < Depth THEN prefill.cnt ELSE 0)
      /\ prefill'.done => prefill'.cnt >= Depth
  <2>1. CASE prefill.done
    <3>1. prefill.cnt >= Depth BY <2>1, Zenon DEF IInv, Stock
    <3>2. idle' = idle + 1 /\ prefill' = prefill BY <2>1, Zenon
    <3> HIDE DEF PostRx
    <3>3. QED BY <3>1, <3>2, <1>1
  <2>2. CASE ~prefill.done
    <3>1. prefill' = [prefill EXCEPT !.cnt = prefill.cnt + 1]
          /\ idle' = idle + (IF prefill.cnt + 1 >= Depth THEN Depth ELSE 0)
      BY <2>2, <1>1, Zenon
    <3> HIDE DEF PostRx
    <3>2. prefill'.cnt = prefill.cnt + 1 /\ prefill'.done = prefill.done
          /\ prefill' \in [cnt : Nat, done : BOOLEAN] /\ prefill.cnt \in Nat
      BY <3>1, <1>1, SMTT(30)
    <3>3. QED BY <3>1, <3>2, <2>2, <1>1, <1>3
  <2>3. QED BY <2>1, <2>2, Zenon
<1> HIDE DEF PostRx
<1>5. TypeOK'
  <2>1. rqe' \in Nat /\ held' \in Nat BY ONLY <1>1
  <2>2. QED BY <1>2, <1>4, <2>1, Zenon DEF IInv, TypeOK
<1>6. Promised' = Promised BY <1>2, Zenon DEF Promised, Carried
<1>7. Total(Promised)' = Total(Promised) BY <1>6, Zenon DEF Total, Cells
<1>8. Total(arrived)' = Total(arrived) /\ Total(arrived) \in Nat
  BY <1>2, TotalNat, Zenon DEF IInv, TypeOK, Total, Cells
<1>9. Conserved' /\ OneExchange' BY <1>2, <1>6, Zenon DEF IInv, Conserved, OneExchange
<1>10. PoolBalance'
  <2>1. idle + allocated + held + (IF prefill.cnt < Depth THEN prefill.cnt ELSE 0) = Depth
    BY Zenon DEF IInv, PoolBalance
  <2>2. PICK c \in Nat, d \in Nat :
          /\ c = IF prefill.cnt < Depth THEN prefill.cnt ELSE 0
          /\ d = IF prefill'.cnt < Depth THEN prefill'.cnt ELSE 0
    <3>1. prefill.cnt \in Nat /\ prefill'.cnt \in Nat BY <1>1, <1>4, Zenon
    <3>2. QED BY <3>1, Zenon
  <2>3. idle + allocated + held + c = Depth BY <2>1, <2>2, Zenon
  <2>4. idle' \in Nat /\ idle' - idle + d = 1 + c BY <1>4, <2>2, Zenon
  <2>5. \A j \in Nat : \A k : k = held - 1 /\ j - idle + d = 1 + c => j + allocated + k + d = Depth
    BY <2>3, <1>1
  <2>6. idle' + allocated + held' + d = Depth BY <2>4, <2>5, <1>1, Zenon
  <2>7. QED BY <2>2, <2>6, <1>2, <1>7, <1>8, Zenon DEF IInv, PoolBalance
<1>11. Stock'
  <2>1. rqe + Total(arrived) + held = Depth BY Zenon DEF IInv, Stock
  <2>2. rqe' + Total(arrived) + held' = Depth BY <2>1, <1>1, <1>8
  <2>3. QED BY <2>2, <1>2, <1>4, <1>8, Zenon DEF IInv, Stock
<1>12. QED BY <1>5, <1>9, <1>10, <1>11, Zenon DEF IInv

\* Setting prefill_done changes no counter.
LEMMA PrefillDoneStep == ASSUME IInv, PrefillDone PROVE IInv'
<1> USE DEF PrefillDone, Charging, senderVars, wireVars, queueVars
<1>1. prefill' = [prefill EXCEPT !.done = TRUE] /\ prefill \in [cnt : Nat, done : BOOLEAN]
  BY Zenon DEF IInv, TypeOK
<1>2. prefill' \in [cnt : Nat, done : BOOLEAN] /\ prefill'.cnt = prefill.cnt BY <1>1, Zenon
<1>3. TypeOK' BY <1>2, Zenon DEF IInv, TypeOK
<1>4. Promised' = Promised BY Zenon DEF Promised, Carried
<1>5. Total(Promised)' = Total(Promised) BY <1>4, Zenon DEF Total, Cells
<1>6. Total(arrived)' = Total(arrived) BY Zenon DEF Total, Cells
<1>7. Conserved' /\ OneExchange' BY <1>4, Zenon DEF IInv, Conserved, OneExchange
<1>8. PoolBalance' BY <1>2, <1>5, <1>6, Zenon DEF IInv, PoolBalance
<1>9. Stock' BY <1>2, <1>6, Zenon DEF IInv, Stock
<1>10. QED BY <1>3, <1>7, <1>8, <1>9, Zenon DEF IInv

-----------------------------------------------------------------------------
(* The theorems *)

\* What the proofs assume of the callers: a queue is destroyed when all that it received was
\* polled, and one thread posts the receive buffers.
Assumed == Drained /\ Posters = 1

\* Before the first connection all buffers are with the user.
LEMMA InitIInv == Init => IInv
<1> SUFFICES ASSUME Init PROVE IInv BY Zenon
<1> USE CreditAssumption DEF Init
<1>1. TypeOK
  <2>1. fc \in [Queues -> Messages] BY DEF Messages, NoMessage, Message, Types
  <2>2. tx \in [Queues -> [pc : {"idle", "checked", "retry"}, n : Nat]] BY Zenon DEF Call
  <2>3. prefill \in [cnt : Nat, done : BOOLEAN] BY Zenon
  <2>4. QED BY <2>1, <2>2, <2>3, SMTT(30) DEF TypeOK
<1>2. Promised \in [Queues -> Nat] /\ arrived \in [Queues -> Nat] BY <1>1, PromisedNat, Zenon
  DEF TypeOK
<1>3. \A q \in Queues : Promised[q] = 0 /\ arrived[q] = 0 BY Zenon DEF Promised
<1>4. Total(Promised) = 0 /\ Total(arrived) = 0 BY <1>2, <1>3, TotalZero, Zenon
<1>5. Conserved /\ OneExchange BY Zenon DEF Conserved, OneExchange, NoMessage, Message
<1>6. PoolBalance /\ Stock BY <1>4 DEF PoolBalance, Stock
<1>7. QED BY <1>1, <1>5, <1>6, Zenon DEF IInv

\* Every step keeps the invariant.
LEMMA NextIInv == ASSUME Assumed, IInv, [Next]_vars PROVE IInv'
<1> USE DEF Assumed
<1>1. ASSUME NEW q \in Queues, QueueNext(q) PROVE IInv'
  <2>1. ASSUME NEW n \in 1 .. MaxBatch, TxCheck(q, n) PROVE IInv'
    <3>1. n \in Nat BY CreditAssumption
    <3>2. QED BY <3>1, <2>1, TxCheckStep, Zenon
  <2>2. QED
    BY <1>1, <2>1, BindStep, TxPostStep, MonitorStep, ReturnCheckStep, ReturnSendStep,
       PollRequestErrorStep, TxFailedStep, RespHandleStep, AckHandleStep, UnbindStep,
       ReqHandleStep, ReturnHandleStep, AnswerErrorStep, DestroyStep, PollRxStep, ArriveStep,
       FailSendStep, FailMessageStep, Zenon DEF QueueNext
<1>2. CASE UNCHANGED vars
  <2>1. /\ UNCHANGED <<queueVars, poolVars, senderVars, wireVars, troubles, lost>>
    BY <1>2, Zenon DEF vars
  <2>2. TypeOK' /\ OneExchange'
    BY <2>1, Zenon DEF IInv, TypeOK, OneExchange, queueVars, poolVars, senderVars, wireVars
  <2>3. \A r \in Queues : Promised'[r] = Promised[r] /\ (live[r] \/ wire'[r] = 0)
    BY <2>1, Zenon DEF IInv, Stock, Promised, Carried, queueVars, senderVars, wireVars
  <2>4. QED BY <2>1, <2>2, <2>3, SenderStep, Zenon
<1>3. QED BY <1>1, <1>2, PostRxStep, PrefillDoneStep, Zenon DEF Next

\* The invariant holds in every reachable state.
THEOREM Invariance == ASSUME Assumed PROVE Spec => []IInv
<1>1. Init => IInv BY InitIInv, Zenon
<1>2. IInv /\ [Next]_vars => IInv' BY NextIInv, Zenon
<1>3. QED BY <1>1, <1>2, PTL DEF Spec

\* All counters keep their types: no subtraction goes below zero.
THEOREM TypeCorrect == ASSUME Assumed PROVE Spec => []TypeOK
<1>1. IInv => TypeOK BY Zenon DEF IInv
<1>2. QED BY <1>1, Invariance, PTL

\* The two ends of every connection agree on the credits, through failed posts, failed messages,
\* lost answers and closings, so that no credit is lost or made.
THEOREM CreditsConserved == ASSUME Assumed PROVE Spec => []Conserved
<1>1. IInv => Conserved BY Zenon DEF IInv
<1>2. QED BY <1>1, Invariance, PTL

\* The pool counts every receive buffer once.
THEOREM PoolBalanced == ASSUME Assumed PROVE Spec => []PoolBalance
<1>1. IInv => PoolBalance BY Zenon DEF IInv
<1>2. QED BY <1>1, Invariance, PTL

\* A queue has one exchange at a time.
THEOREM ExchangesAlone == ASSUME Assumed PROVE Spec => []OneExchange
<1>1. IInv => OneExchange BY Zenon DEF IInv
<1>2. QED BY <1>1, Invariance, PTL

\* No message meets an empty receive queue: what is on its way is part of the promises, and
\* those are at most the buffers that are neither with the user nor used.
THEOREM NeverOverrun == ASSUME Assumed PROVE Spec => []NoOverrun
<1>1. IInv => NoOverrun
  <2> SUFFICES ASSUME IInv PROVE NoOverrun BY Zenon
  <2>1. TypeOK BY Zenon DEF IInv
  <2>2. Promised \in [Queues -> Nat] /\ wire \in [Queues -> Nat] /\ arrived \in [Queues -> Nat]
    BY <2>1, PromisedNat, Zenon DEF TypeOK
  <2>3. ASSUME NEW q \in Queues PROVE wire[q] <= Promised[q]
    <3>1. /\ window[q] \in Nat /\ Carried(q) \in Nat /\ wire[q] \in Nat /\ failed[q] \in Nat
      BY <2>1, PromisedNat, Zenon DEF TypeOK
    <3>2. ~live[q] => wire[q] = 0 BY Zenon DEF IInv, Stock
    <3>3. Promised[q] = IF live[q] THEN window[q] + Carried(q) + wire[q] + failed[q] ELSE 0
      BY Zenon DEF Promised
    <3>4. CASE live[q]
      <4>1. Promised[q] = window[q] + Carried(q) + wire[q] + failed[q] BY <3>3, <3>4, Zenon
      <4>2. QED BY ONLY <3>1, <4>1
    <3>5. CASE ~live[q]
      <4>1. Promised[q] = 0 /\ wire[q] = 0 BY <3>2, <3>3, <3>5, Zenon
      <4>2. QED BY ONLY <4>1
    <3>6. QED BY <3>4, <3>5, Zenon
  <2>4. Total(wire) <= Total(Promised) BY <2>2, <2>3, TotalMonotone, Zenon
  <2>5. Total(wire) \in Nat /\ Total(Promised) \in Nat /\ Total(arrived) \in Nat BY <2>2, TotalNat,
    Zenon
  <2>6. idle \in Nat /\ held \in Nat /\ rqe \in Nat /\ prefill.cnt \in Nat /\ Depth \in Nat
    BY <2>1, CreditAssumption, Zenon DEF TypeOK
  <2>7. Total(Promised) + Total(arrived) + held <= Depth
    BY <2>5, <2>6 DEF IInv, PoolBalance
  <2>8. rqe + Total(arrived) + held = Depth BY Zenon DEF IInv, Stock
  <2>9. QED BY <2>4, <2>5, <2>6, <2>7, <2>8, SMTT(30) DEF NoOverrun
<1>2. QED BY <1>1, Invariance, PTL

=============================================================================
