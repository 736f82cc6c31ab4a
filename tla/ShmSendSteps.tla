---------------------------- MODULE ShmSendSteps ----------------------------
(***************************************************************************)
(* The invariants that the proofs about ShmSend rest on, and that every    *)
(* step keeps them: CompInv, about the posted lists and who completes what *)
(* is on them, and IntactInv, about buckets and the events for the peer.   *)
(***************************************************************************)
EXTENDS ShmSend, TLAPS

OpRec == [pc : Pcs, buck : Buckets \cup {None}, sent : BOOLEAN]
KpPcs == {"idle", "ep", "comp", "walkcomp", "ctx", "walkctx", "done", "released"}

\* What the proofs need of the types.
Types ==
    /\ occ \subseteq Buckets
    /\ content \in [Buckets -> Ops \cup {None}]
    /\ op \in [Ops -> OpRec]
    /\ peerQ \in Seq(Ops \X (Buckets \cup {None})) /\ localQ \in Seq(Ops)
    /\ next \in [Ops \cup Heads -> Ops \cup {None}]
    /\ prev \in [Ops -> Ops \cup Heads \cup {None}]
    /\ count \in [Heads -> Nat]
    /\ ctxs \subseteq Ops
    /\ comp \in [Ops -> Nat]
    /\ wk \in [pc : {"idle", "remove", "run"}, o : Ops \cup {None}]
    /\ kp \in [pc : KpPcs, o : Ops \cup {None}]

\* The keeper has detached the list h; it walks over it.
Detached(h) ==
    kp.pc \in {"walkctx", "done", "released"} \/ (h = "comp" /\ kp.pc \in {"walkcomp", "ctx"})
Walking(h) == kp.pc = IF h = "comp" THEN "walkcomp" ELSE "walkctx"

\* The context was put on a list and not removed; a detached one keeps its links.
Linked(o) == prev[o] # None

\* Nothing is added to a list that is detached.
KeeperInv ==
    /\ kp.pc # "idle" => ~chNew
    /\ Detached("comp") => \A o \in Ops : op[o].pc \notin {"enq", "ctx", "add"}
    /\ \A h \in Heads : Detached(h) => count[h] = 0

\* The worker handles events of operations that were posted.
WorkerInv ==
    /\ wk.pc = "idle" <=> wk.o = None
    /\ wk.o # None => op[wk.o].pc = "posted"
    /\ \A i \in DOMAIN localQ : op[localQ[i]].pc = "posted"

\* Before it is added a context is on no list, and before that it is in the pool.
EarlyOk(o) == op[o].pc \in {"idle", "post", "enq", "ctx", "add"} =>
                ~Linked(o) /\ comp[o] = 0 /\ (o \in ctxs <=> op[o].pc = "add")

PhaseInv == KeeperInv /\ WorkerInv /\ \A o \in Ops : EarlyOk(o)

\* The neighbours of a context on a list point to it; of a list that is detached the head does
\* not any more.
LinkOk(o) ==
    /\ \/ prev[o] = HeadOf(o)
       \/ prev[o] \in Ops /\ Linked(prev[o]) /\ HeadOf(prev[o]) = HeadOf(o)
    /\ prev[o] \in Ops \/ ~Detached(HeadOf(o)) => next[prev[o]] = o
    /\ next[o] # None => HeadOf(next[o]) = HeadOf(o) /\ prev[next[o]] = o

HeadOk(h) == ~Detached(h) /\ next[h] # None => HeadOf(next[h]) = h /\ prev[next[h]] = h

ListInv ==
    /\ \A o \in Ops : Linked(o) => LinkOk(o)
    /\ \A h \in Heads : HeadOk(h)

\* A context of a list that was completed: the keeper has completed the one before, too.
DoneOk(o) ==
    IF comp[o] = 0 THEN o \in ctxs
    ELSE Detached(HeadOf(o)) /\ (prev[o] \in Ops => comp[prev[o]] # 0)

\* The worker is about to complete a context that it removed; the keeper is at a context that
\* was not completed.
RunOk == wk.pc = "run" => ~Linked(wk.o) /\ comp[wk.o] = 0 /\ wk.o \in ctxs
WalkOk == kp.o # None => /\ Walking(HeadOf(kp.o)) /\ Linked(kp.o) /\ comp[kp.o] = 0
                         /\ prev[kp.o] \in Ops => comp[prev[kp.o]] # 0

DoneInv ==
    /\ \A o \in Ops : comp[o] <= 1
    /\ \A o \in Ops : Linked(o) => DoneOk(o)
    /\ RunOk /\ WalkOk

CompInv == Types /\ PhaseInv /\ ListInv /\ DoneInv

\* A send that has a bucket and no event for it yet; whose message a bucket holds.
Holds(o) == o \notin OneSided /\ ~op[o].sent /\ op[o].pc \in {"post", "enq", "free"}
Owns(o, b) == b \in occ /\ content[b] = o /\ op[o].buck = b

\* A bucket belongs to a send until its event is sent; one-sided operations have none.
OpOk(o) ==
    /\ op[o].pc \in {"idle", "post", "enq"} => ~op[o].sent
    /\ o \in OneSided => op[o].buck = None /\ ~op[o].sent /\ op[o].pc # "enq"
    /\ o \notin OneSided /\ op[o].pc \in {"ctx", "add", "local", "remove"} => op[o].sent
    /\ Holds(o) => Owns(o, op[o].buck)

\* Then it belongs to the event e, until the peer has read it.
EventOk(e) == e[1] \in Ops /\ e[2] \in Buckets /\ op[e[1]].sent /\ Owns(e[1], e[2])

\* The peer gets one event of each send.
QueueOk ==
    \A i \in DOMAIN peerQ :
       /\ EventOk(peerQ[i])
       /\ \A j \in DOMAIN peerQ : peerQ[j][1] = peerQ[i][1] => j = i
       /\ \A j \in DOMAIN got : got[j][1] # peerQ[i][1]
       /\ peer # <<>> => peer[1] # peerQ[i][1]
GotOk ==
    \A i \in DOMAIN got :
       /\ got[i][1] = got[i][2] /\ op[got[i][1]].sent
       /\ \A j \in DOMAIN got : got[j][1] = got[i][1] => j = i

EventInv ==
    /\ \A o \in Ops : OpOk(o)
    /\ QueueOk
    /\ peer # <<>> => EventOk(peer)
    /\ got \in Seq(Ops \X Ops) /\ GotOk

IntactInv == Refused = {} => EventInv

\* A context is in its pool until a thread takes it.
PoolInv == \A o \in Ops : op[o].pc \in {"idle", "post", "enq", "ctx"} => o \notin ctxs


-----------------------------------------------------------------------------
(* The lists *)

\* The heads are no operations.
LEMMA HeadFacts ==
  /\ \A o \in Ops : HeadOf(o) \in Heads
  /\ \A h \in Heads : h \notin Ops /\ h # None
  /\ None \notin Ops
  /\ Detached("ctx") => Detached("comp")
  /\ \A h \in Heads : Detached(h) => Detached("comp")
  /\ \A h \in Heads : Walking(h) => Detached(h)
<1>1. \A o \in Ops : HeadOf(o) \in Heads BY Zenon DEF HeadOf, Heads
<1>2. (\A h \in Heads : h \notin Ops /\ h # None) /\ None \notin Ops
  BY OpsAssumption, Zenon DEF Heads
<1>3. Detached("ctx") => Detached("comp") BY Zenon DEF Detached
<1>4. \A h \in Heads : Detached(h) => Detached("comp") BY Zenon DEF Detached, Heads
<1>5. \A h \in Heads : Walking(h) => Detached(h) BY Zenon DEF Detached, Walking, Heads
<1>6. QED BY <1>1, <1>2, <1>3, <1>4, <1>5, Zenon

\* The variables of the lists.
ListTypes ==
    /\ next \in [Ops \cup Heads -> Ops \cup {None}]
    /\ prev \in [Ops -> Ops \cup Heads \cup {None}]
    /\ count \in [Heads -> Nat]

\* A context is added behind the head.
LEMMA AddList ==
  ASSUME ListTypes, ListInv, NEW o \in Ops, ~Linked(o), ~Detached(HeadOf(o)), AddPosted(o),
         UNCHANGED kp
  PROVE  /\ ListTypes' /\ ListInv'
         /\ \A x \in Ops : Linked(x)' <=> Linked(x) \/ x = o
         /\ \A h \in Heads : h # HeadOf(o) => count'[h] = count[h]
<1> DEFINE h == HeadOf(o)
           f == next[h]
<1>1. h \in Heads /\ h \notin Ops /\ h # None /\ o # None /\ f \in Ops \cup {None}
  BY HeadFacts, Zenon DEF ListTypes
<1>2. /\ next' = [next EXCEPT ![o] = f, ![h] = o]
      /\ prev' = [x \in Ops |-> IF x = o THEN h ELSE IF x = f THEN o ELSE prev[x]]
      /\ count' = [count EXCEPT ![h] = @ + 1]
  BY Zenon DEF AddPosted
<1>3. f # None => HeadOf(f) = h /\ prev[f] = h BY <1>1, Zenon DEF ListInv, HeadOk
<1>4. f # None => f # o /\ Linked(f) BY <1>1, <1>3, Zenon DEF Linked
<1> HIDE DEF h, f
<1>5. /\ \A x \in Ops \cup Heads : next'[x] = IF x = h THEN o ELSE IF x = o THEN f ELSE next[x]
      /\ \A x \in Ops : prev'[x] = IF x = o THEN h ELSE IF x = f THEN o ELSE prev[x]
  BY <1>1, <1>2, Zenon DEF ListTypes
<1>6. ListTypes' BY <1>1, <1>2 DEF ListTypes
<1>7. ASSUME NEW x \in Ops, Linked(x) PROVE prev[x] # o
  <2>1. LinkOk(x) BY <1>7, Zenon DEF ListInv
  <2>2. prev[x] = o => Linked(prev[x]) BY <2>1, HeadFacts, Zenon DEF LinkOk
  <2>3. QED BY <2>2, Zenon DEF Linked
<1>8. ASSUME NEW x \in Ops PROVE Linked(x)' <=> Linked(x) \/ x = o
  <2>1. CASE x = o BY <1>1, <1>5, <2>1, Zenon DEF Linked
  <2>2. CASE x # o /\ x = f
    <3>1. prev'[x] = o BY <1>5, <2>2, Zenon
    <3>2. f # None BY <2>2, HeadFacts, Zenon
    <3>3. QED BY <1>1, <1>4, <2>2, <3>1, <3>2, Zenon DEF Linked
  <2>3. CASE x # o /\ x # f BY <1>5, <2>3, Zenon DEF Linked
  <2>4. QED BY <2>1, <2>2, <2>3, Zenon
<1>9. \A k \in Heads : Detached(k)' <=> Detached(k) BY Zenon DEF Detached
<1>10. ASSUME NEW x \in Ops, Linked(x)' PROVE LinkOk(x)'
  <2>1. CASE x = o
    <3>1. prev'[x] = HeadOf(x) /\ next'[x] = f /\ next'[h] = o BY <1>1, <1>5, <2>1, Zenon DEF h
    <3>2. f # None => HeadOf(f) = h /\ prev'[f] = o BY <1>1, <1>3, <1>4, <1>5, Zenon
    <3>3. QED BY <2>1, <3>1, <3>2, Zenon DEF LinkOk, h
  <2>2. CASE x # o /\ x = f
    <3>1. prev'[x] = o /\ next'[x] = next[x] /\ next'[o] = f BY <1>1, <1>5, <2>2, Zenon
    <3>2. Linked(x) /\ HeadOf(x) = h /\ prev[x] = h BY <1>1, <1>3, <1>4, <2>2, HeadFacts, Zenon
    <3>3. next[x] # None => HeadOf(next[x]) = HeadOf(x) /\ prev[next[x]] = x
      BY <3>2, Zenon DEF ListInv, LinkOk
    <3>4. ASSUME next[x] # None PROVE prev'[next[x]] = x
      <4>1. next[x] \in Ops /\ prev[next[x]] = x BY <3>3, <3>4, Zenon DEF ListTypes
      <4>2. next[x] # o BY <4>1, HeadFacts, Zenon DEF Linked
      <4>3. next[x] # f BY <1>1, <2>2, <3>2, <4>1, Zenon
      <4>4. QED BY <1>5, <4>1, <4>2, <4>3, Zenon
    <3>5. HeadOf(o) = HeadOf(x) /\ prev'[prev'[x]] # None BY <1>1, <1>5, <3>1, <3>2, Zenon DEF h
    <3>6. QED BY <2>2, <3>1, <3>3, <3>4, <3>5, Zenon DEF LinkOk, Linked
  <2>3. CASE x # o /\ x # f
    <3>1. prev'[x] = prev[x] /\ next'[x] = next[x] /\ Linked(x) BY <1>1, <1>5, <1>8, <1>10, <2>3,
      Zenon
    <3>2. prev[x] # o /\ prev[x] # None BY <1>7, <3>1, Zenon DEF Linked
    <3>3. LinkOk(x) BY <3>1, Zenon DEF ListInv
    <3>4. prev[x] # h
      <4>1. SUFFICES ASSUME prev[x] = h PROVE FALSE BY Zenon
      <4>2. HeadOf(x) = h BY <1>1, <3>3, <4>1, Zenon DEF LinkOk
      <4>3. next[h] = x BY <3>3, <4>1, <4>2, Zenon DEF LinkOk, h
      <4>4. QED BY <2>3, <4>3, Zenon DEF f, h
    <3>5. prev[x] \in Ops \cup Heads BY <3>2, Zenon DEF ListTypes
    <3>6. next'[prev[x]] = next[prev[x]] BY <1>5, <3>2, <3>4, <3>5, Zenon
    <3>7. ASSUME next[x] # None PROVE prev'[next[x]] = prev[next[x]]
      <4>1. next[x] \in Ops /\ prev[next[x]] = x BY <3>3, <3>7, Zenon DEF ListTypes, LinkOk
      <4>2. next[x] # o BY <4>1, HeadFacts, Zenon DEF Linked
      <4>3. next[x] # f BY <1>1, <1>3, <4>1, HeadFacts, Zenon
      <4>4. QED BY <1>5, <4>1, <4>2, <4>3, Zenon
    <3>8. prev[x] \in Ops /\ Linked(prev[x]) => prev'[prev[x]] # None
      BY <1>8, Zenon DEF Linked
    <3>9. Detached(HeadOf(x))' <=> Detached(HeadOf(x)) BY Zenon DEF Detached
    <3>10. QED BY <3>1, <3>3, <3>6, <3>7, <3>8, <3>9, Zenon DEF LinkOk, Linked
  <2>4. QED BY <2>1, <2>2, <2>3, Zenon
<1>11. ASSUME NEW k \in Heads PROVE HeadOk(k)'
  <2>1. CASE k = h BY <1>1, <1>5, <2>1, Zenon DEF h, HeadOk
  <2>2. CASE k # h
    <3>1. k \notin Ops /\ next'[k] = next[k] BY <1>1, <1>5, <2>2, HeadFacts, Zenon
    <3>2. SUFFICES ASSUME ~Detached(k), next[k] # None
                   PROVE  HeadOf(next[k]) = k /\ prev'[next[k]] = k
      BY <1>9, <3>1, Zenon DEF HeadOk
    <3>3. next[k] \in Ops /\ HeadOf(next[k]) = k /\ prev[next[k]] = k
      BY <3>2, Zenon DEF ListInv, ListTypes, HeadOk
    <3>4. next[k] # o BY <3>3, HeadFacts, Zenon DEF Linked
    <3>5. next[k] # f BY <1>1, <1>3, <2>2, <3>3, HeadFacts, Zenon
    <3>6. QED BY <1>5, <3>3, <3>4, <3>5, Zenon
  <2>3. QED BY <2>1, <2>2, Zenon
<1>12. ListInv' BY <1>10, <1>11, Zenon DEF ListInv
<1>13. \A k \in Heads : k # HeadOf(o) => count'[k] = count[k]
  BY <1>2, Zenon DEF h, ListTypes
<1>14. QED BY <1>6, <1>8, <1>12, <1>13, Zenon

\* A context is removed.
LEMMA RemoveList ==
  ASSUME ListTypes, ListInv, NEW o \in Ops, ~Detached(HeadOf(o)), RemovePosted(o), UNCHANGED kp
  PROVE  /\ ListTypes' /\ ListInv' /\ Linked(o)
         /\ \A x \in Ops : Linked(x)' <=> Linked(x) /\ x # o
         /\ \A x \in Ops : HeadOf(x) # HeadOf(o) => prev'[x] = prev[x]
         /\ \A h \in Heads : h # HeadOf(o) => count'[h] = count[h]
<1> DEFINE h == HeadOf(o)
           p == prev[o]
           n == next[o]
<1>1. h \in Heads /\ h \notin Ops /\ h # None /\ o # None /\ n \in Ops \cup {None}
  BY HeadFacts, Zenon DEF ListTypes
<1>2. /\ next' = [next EXCEPT ![p] = n, ![o] = None]
      /\ prev' = [x \in Ops |-> IF x = o THEN None ELSE IF x = n THEN p ELSE prev[x]]
      /\ count' = [count EXCEPT ![h] = @ - 1]
      /\ count[h] # 0 /\ Linked(o)
  BY Zenon DEF RemovePosted, Removable, Linked
<1>3. /\ p = h \/ (p \in Ops /\ Linked(p) /\ HeadOf(p) = h)
      /\ next[p] = o
      /\ n # None => HeadOf(n) = h /\ prev[n] = o
  <2>1. LinkOk(o) BY <1>2, Zenon DEF ListInv
  <2>2. QED BY <1>1, <2>1, Zenon DEF LinkOk
<1>4. (n = o => p = o) /\ (p = o => n = o) /\ p # None BY <1>1, <1>2, <1>3, Zenon DEF Linked
<1> HIDE DEF h, p, n
<1>5. /\ \A x \in Ops \cup Heads : next'[x] = IF x = o THEN None ELSE IF x = p THEN n ELSE next[x]
      /\ \A x \in Ops : prev'[x] = IF x = o THEN None ELSE IF x = n THEN p ELSE prev[x]
  BY <1>1, <1>2, <1>3, Zenon DEF ListTypes
<1>6. ListTypes'
  <2>1. next' \in [Ops \cup Heads -> Ops \cup {None}] BY <1>1, <1>2, Zenon DEF ListTypes
  <2>2. prev' \in [Ops -> Ops \cup Heads \cup {None}] BY <1>1, <1>2, <1>3, Zenon DEF ListTypes
  <2>3. count[h] \in Nat BY <1>1, Zenon DEF ListTypes
  <2>4. count[h] - 1 \in Nat BY <1>2, <2>3
  <2>5. count' \in [Heads -> Nat] BY <1>2, <2>4, Zenon DEF ListTypes
  <2>6. QED BY <2>1, <2>2, <2>5, Zenon DEF ListTypes
<1>7. ASSUME NEW x \in Ops PROVE Linked(x)' <=> Linked(x) /\ x # o
  <2>1. CASE x = o BY <1>5, <2>1, Zenon DEF Linked
  <2>2. CASE x # o /\ x = n
    <3>1. prev'[x] = p BY <1>5, <2>2, Zenon
    <3>2. n # None BY <2>2, HeadFacts, Zenon
    <3>3. QED BY <1>1, <1>3, <1>4, <2>2, <3>1, <3>2, Zenon DEF Linked
  <2>3. CASE x # o /\ x # n BY <1>5, <2>3, Zenon DEF Linked
  <2>4. QED BY <2>1, <2>2, <2>3, Zenon
<1>8. ASSUME NEW x \in Ops, HeadOf(x) # h PROVE prev'[x] = prev[x]
  <2>1. x # o BY <1>8, Zenon DEF h
  <2>2. x # n BY <1>3, <1>8, HeadFacts, Zenon
  <2>3. QED BY <1>5, <2>1, <2>2, Zenon
<1>9. \A k \in Heads : Detached(k)' <=> Detached(k) BY Zenon DEF Detached
<1>10. ASSUME NEW x \in Ops, x # o, Linked(x), x # p, next[x] # None
       PROVE  HeadOf(next[x]) = HeadOf(x) /\ prev'[next[x]] = x /\ next'[x] = next[x]
  <2>1. LinkOk(x) BY <1>10, Zenon DEF ListInv
  <2>2. next[x] \in Ops /\ prev[next[x]] = x /\ HeadOf(next[x]) = HeadOf(x)
    BY <1>10, <2>1, Zenon DEF LinkOk, ListTypes
  <2>3. next[x] # o BY <1>10, <2>2, Zenon DEF p
  <2>4. next[x] # n BY <1>3, <1>10, <2>2, HeadFacts, Zenon
  <2>5. QED BY <1>5, <1>10, <2>2, <2>3, <2>4, Zenon
<1>11. ASSUME NEW x \in Ops, Linked(x)' PROVE LinkOk(x)'
  <2>1. x # o /\ Linked(x) /\ LinkOk(x) BY <1>7, <1>11, Zenon DEF ListInv
  <2>2. Detached(HeadOf(x))' <=> Detached(HeadOf(x)) BY Zenon DEF Detached
  <2>3. next'[x] # None => HeadOf(next'[x]) = HeadOf(x) /\ prev'[next'[x]] = x
    <3>1. CASE x = p
      <4>1. next'[x] = n /\ HeadOf(x) = h BY <1>1, <1>3, <1>5, <2>1, <3>1, Zenon
      <4>2. n # None => n # o /\ n \in Ops /\ HeadOf(n) = h BY <1>1, <1>3, <1>4, <2>1, <3>1, Zenon
      <4>3. n # None => prev'[n] = p BY <1>5, <4>2, Zenon
      <4>4. QED BY <3>1, <4>1, <4>2, <4>3, Zenon
    <3>2. CASE x # p
      <4>1. next'[x] = next[x] BY <1>5, <2>1, <3>2, Zenon
      <4>2. QED BY <1>10, <2>1, <3>2, <4>1, Zenon
    <3>3. QED BY <3>1, <3>2, Zenon
  <2>4. CASE x = n
    <3>1. prev'[x] = p /\ n # None BY <1>5, <2>1, <2>4, HeadFacts, Zenon
    <3>2. HeadOf(x) = h /\ p # o BY <1>3, <1>4, <2>1, <2>4, <3>1, Zenon
    <3>3. p \in Ops => prev'[p] # None BY <1>3, <1>7, <1>1, <3>2, Zenon DEF Linked
    <3>4. next'[p] = x BY <1>1, <1>3, <1>5, <2>4, <3>2, Zenon
    <3>5. QED BY <1>1, <1>3, <2>3, <3>1, <3>2, <3>3, <3>4, Zenon DEF LinkOk, Linked
  <2>5. CASE x # n
    <3>1. prev'[x] = prev[x] /\ prev[x] # None BY <1>5, <2>1, <2>5, Zenon DEF Linked
    <3>2. prev[x] # o
      <4>1. prev[x] = o => next[o] = x BY <2>1, Zenon DEF LinkOk
      <4>2. QED BY <2>5, <4>1, Zenon DEF n
    <3>3. prev[x] \in Ops /\ Linked(prev[x]) => prev'[prev[x]] # None
      BY <1>7, <3>2, Zenon DEF Linked
    <3>4. ASSUME prev[x] \in Ops \/ ~Detached(HeadOf(x)) PROVE next'[prev[x]] = x
      <4>1. next[prev[x]] = x BY <2>1, <3>4, Zenon DEF LinkOk
      <4>2. prev[x] # p BY <1>3, <2>1, <4>1, Zenon
      <4>3. prev[x] \in Ops \cup Heads BY <3>1, Zenon DEF ListTypes
      <4>4. QED BY <1>5, <3>2, <4>1, <4>2, <4>3, Zenon
    <3>5. QED BY <2>1, <2>2, <2>3, <3>1, <3>3, <3>4, Zenon DEF LinkOk, Linked
  <2>6. QED BY <2>4, <2>5, Zenon
<1>12. ASSUME NEW k \in Heads PROVE HeadOk(k)'
  <2>1. k \notin Ops /\ k # o BY HeadFacts, Zenon
  <2>2. CASE k = p
    <3>1. next'[k] = n /\ k = h BY <1>3, <1>5, <2>1, <2>2, Zenon
    <3>2. n # None => n # o /\ n \in Ops /\ HeadOf(n) = h BY <1>1, <1>3, <1>4, <2>1, <2>2, Zenon
    <3>3. n # None => prev'[n] = p BY <1>5, <3>2, Zenon
    <3>4. QED BY <2>2, <3>1, <3>2, <3>3, Zenon DEF HeadOk
  <2>3. CASE k # p
    <3>1. next'[k] = next[k] BY <1>5, <2>1, <2>3, Zenon
    <3>2. SUFFICES ASSUME ~Detached(k), next[k] # None
                   PROVE  HeadOf(next[k]) = k /\ prev'[next[k]] = k
      BY <1>9, <3>1, Zenon DEF HeadOk
    <3>3. next[k] \in Ops /\ HeadOf(next[k]) = k /\ prev[next[k]] = k
      BY <3>2, Zenon DEF ListInv, ListTypes, HeadOk
    <3>4. next[k] # o BY <2>3, <3>3, Zenon DEF p
    <3>5. next[k] # n BY <1>3, <2>1, <3>3, HeadFacts, Zenon
    <3>6. QED BY <1>5, <3>3, <3>4, <3>5, Zenon
  <2>4. QED BY <2>2, <2>3, Zenon
<1>13. ListInv' BY <1>11, <1>12, Zenon DEF ListInv
<1>14. \A k \in Heads : k # HeadOf(o) => count'[k] = count[k]
  BY <1>2, Zenon DEF h, ListTypes
<1>15. QED BY <1>2, <1>6, <1>7, <1>8, <1>13, <1>14, Zenon DEF h

-----------------------------------------------------------------------------
(* The types *)

\* A step of a thread to another place in its code.
LEMMA GoFacts ==
  ASSUME op \in [Ops -> OpRec], NEW o \in Ops, NEW p \in Pcs, Go(o, p)
  PROVE  /\ op' \in [Ops -> OpRec]
         /\ op'[o].pc = p /\ op'[o].buck = op[o].buck /\ op'[o].sent = op[o].sent
         /\ \A x \in Ops : x # o => op'[x] = op[x]
<1>1. op[o] \in OpRec BY Zenon
<1>2. op' = [op EXCEPT ![o] = [op[o] EXCEPT !.pc = p]] BY Zenon DEF Go
<1>3. [op[o] EXCEPT !.pc = p] \in OpRec BY <1>1, Zenon DEF OpRec
<1>4. QED BY <1>1, <1>2, <1>3, Zenon DEF OpRec

\* Every place a thread can go to is one.
LEMMA PcFacts ==
  /\ "idle" \in Pcs /\ "post" \in Pcs /\ "enq" \in Pcs /\ "ctx" \in Pcs /\ "add" \in Pcs
  /\ "local" \in Pcs /\ "posted" \in Pcs /\ "remove" \in Pcs /\ "free" \in Pcs
  /\ "failed" \in Pcs
BY Zenon DEF Pcs

\* The lists keep their types when a context is added or removed, or a list detached.
LEMMA ListTyped ==
  ASSUME ListTypes
  PROVE  /\ \A o \in Ops : AddPosted(o) => ListTypes'
         /\ \A o \in Ops : RemovePosted(o) => ListTypes'
         /\ \A h \in Heads : DetachPosted(h) => ListTypes'
<1>1. ASSUME NEW o \in Ops, AddPosted(o) PROVE ListTypes'
  <2>1. HeadOf(o) \in Heads BY HeadFacts, Zenon
  <2>2. count[HeadOf(o)] \in Nat BY <2>1, Zenon DEF ListTypes
  <2>3. count[HeadOf(o)] + 1 \in Nat BY <2>2
  <2>4. count' \in [Heads -> Nat] BY <1>1, <2>3, Zenon DEF ListTypes, AddPosted
  <2>5. next' \in [Ops \cup Heads -> Ops \cup {None}] BY <1>1, <2>1, Zenon DEF ListTypes, AddPosted
  <2>6. prev' \in [Ops -> Ops \cup Heads \cup {None}] BY <1>1, <2>1, Zenon DEF ListTypes, AddPosted
  <2>7. QED BY <2>4, <2>5, <2>6, Zenon DEF ListTypes
<1>2. ASSUME NEW o \in Ops, RemovePosted(o) PROVE ListTypes'
  <2>1. HeadOf(o) \in Heads BY HeadFacts, Zenon
  <2>2. count[HeadOf(o)] \in Nat /\ count[HeadOf(o)] # 0
    BY <1>2, <2>1, Zenon DEF ListTypes, RemovePosted, Removable
  <2>3. count[HeadOf(o)] - 1 \in Nat BY <2>2
  <2>4. count' \in [Heads -> Nat] BY <1>2, <2>3, Zenon DEF ListTypes, RemovePosted
  <2>5. next' \in [Ops \cup Heads -> Ops \cup {None}] BY <1>2, Zenon DEF ListTypes, RemovePosted
  <2>6. prev' \in [Ops -> Ops \cup Heads \cup {None}] BY <1>2, Zenon DEF ListTypes, RemovePosted
  <2>7. QED BY <2>4, <2>5, <2>6, Zenon DEF ListTypes
<1>3. ASSUME NEW h \in Heads, DetachPosted(h) PROVE ListTypes'
  BY <1>3, Zenon DEF ListTypes, DetachPosted
<1>4. QED BY <1>1, <1>2, <1>3, Zenon

\* The completion of an operation keeps the types.
LEMMA CompleteTyped ==
  ASSUME Types, NEW o \in Ops, NEW r, Complete(o, r)
  PROVE  comp' \in [Ops -> Nat] /\ ctxs' \subseteq Ops
<1>1. comp[o] + 1 \in Nat BY DEF Types
<1>2. QED BY <1>1, Zenon DEF Types, Complete

\* Initially the variables have their types.
LEMMA InitTypes == Init => Types
<1> SUFFICES ASSUME Init PROVE Types BY Zenon
<1>1. op \in [Ops -> OpRec] BY PcFacts, Zenon DEF Init, OpRec
<1>2. ListTypes BY Zenon DEF Init, ListTypes
<1>3. /\ peerQ \in Seq(Ops \X (Buckets \cup {None})) /\ localQ \in Seq(Ops)
      /\ occ \subseteq Buckets /\ content \in [Buckets -> Ops \cup {None}]
  BY DEF Init
<1>4. /\ ctxs \subseteq Ops /\ comp \in [Ops -> Nat]
      /\ wk \in [pc : {"idle", "remove", "run"}, o : Ops \cup {None}]
      /\ kp \in [pc : KpPcs, o : Ops \cup {None}]
  BY Zenon DEF Init, KpPcs
<1>5. QED BY <1>1, <1>2, <1>3, <1>4, Zenon DEF Types, ListTypes

\* A step of a posting thread keeps the types.
LEMMA PosterTypes == ASSUME Types, NEW o \in Ops, Poster(o) PROVE Types'
<1> USE PcFacts
<1>1. op \in [Ops -> OpRec] /\ ListTypes BY Zenon DEF Types, ListTypes
<1>2. ASSUME UNCHANGED lists PROVE ListTypes' BY <1>1, <1>2, Zenon DEF ListTypes, lists
<1>3. CASE Occupy(o)
  <2>1. op' \in [Ops -> OpRec]
    <3>1. ASSUME NEW b \in Buckets, op' = [op EXCEPT ![o].pc = "post", ![o].buck = b]
          PROVE  op' \in [Ops -> OpRec]
      BY <1>1, <3>1 DEF OpRec
    <3>2. QED BY <1>1, <1>3, <3>1, GoFacts, Zenon DEF Occupy
  <2>2. occ' \subseteq Buckets /\ content' \in [Buckets -> Ops \cup {None}]
    <3>1. occ \subseteq Buckets /\ content \in [Buckets -> Ops \cup {None}] BY Zenon DEF Types
    <3>2. ASSUME NEW b \in Buckets, occ' = occ \cup {b}, content' = [content EXCEPT ![b] = o]
          PROVE  occ' \subseteq Buckets /\ content' \in [Buckets -> Ops \cup {None}]
      BY <3>1, <3>2, Zenon
    <3>3. QED BY <1>3, <3>1, <3>2, Zenon DEF Occupy
  <2>3. QED BY <1>2, <1>3, <2>1, <2>2, Zenon DEF Occupy, Types, ListTypes
<1>4. CASE Post(o)
  <2>1. op' \in [Ops -> OpRec] BY <1>1, <1>4, GoFacts, Zenon DEF Post
  <2>2. QED BY <1>2, <1>4, <2>1, Zenon DEF Post, Types, ListTypes
<1>5. CASE Enqueue(o)
  <2>1. op' \in [Ops -> OpRec]
    <3>1. ASSUME op' = [op EXCEPT ![o].pc = "ctx", ![o].sent = TRUE] PROVE op' \in [Ops -> OpRec]
      BY <1>1, <3>1, Zenon DEF OpRec
    <3>2. QED BY <1>1, <1>5, <3>1, GoFacts, Zenon DEF Enqueue, Again
  <2>2. peerQ' \in Seq(Ops \X (Buckets \cup {None}))
    <3>1. <<o, op[o].buck>> \in Ops \X (Buckets \cup {None}) BY <1>1, Zenon DEF OpRec
    <3>2. peerQ \in Seq(Ops \X (Buckets \cup {None})) BY Zenon DEF Types
    <3>3. peerQ' = Append(peerQ, <<o, op[o].buck>>) \/ peerQ' = peerQ BY <1>5, Zenon DEF Enqueue
    <3>4. QED BY <3>1, <3>2, <3>3
  <2>3. QED BY <1>2, <1>5, <2>1, <2>2, Zenon DEF Enqueue, Types, ListTypes
<1>6. CASE GetCtx(o)
  <2>1. op' \in [Ops -> OpRec] BY <1>1, <1>6, GoFacts, Zenon DEF GetCtx, Again
  <2>2. ctxs' \subseteq Ops BY <1>6 DEF GetCtx, Types
  <2>3. QED BY <1>2, <1>6, <2>1, <2>2, Zenon DEF GetCtx, Types, ListTypes
<1>7. CASE Add(o)
  <2>1. op' \in [Ops -> OpRec] BY <1>1, <1>7, GoFacts, Zenon DEF Add
  <2>2. ListTypes' BY <1>1, <1>7, ListTyped, Zenon DEF Add
  <2>3. QED BY <1>7, <2>1, <2>2, Zenon DEF Add, Types, ListTypes
<1>8. CASE Local(o)
  <2>1. op' \in [Ops -> OpRec] BY <1>1, <1>8, GoFacts, Zenon DEF Local
  <2>2. localQ' \in Seq(Ops)
    <3>1. localQ \in Seq(Ops) BY Zenon DEF Types
    <3>2. localQ' = Append(localQ, o) \/ localQ' = localQ BY <1>8, Zenon DEF Local
    <3>3. QED BY <3>1, <3>2
  <2>3. QED BY <1>2, <1>8, <2>1, <2>2, Zenon DEF Local, Types, ListTypes
<1>9. CASE Remove(o)
  <2>1. op' \in [Ops -> OpRec] BY <1>1, <1>9, GoFacts, Zenon DEF Remove
  <2>2. ListTypes' BY <1>1, <1>2, <1>9, ListTyped, Zenon DEF Remove
  <2>3. ctxs' \subseteq Ops BY <1>9, Zenon DEF Remove, Types
  <2>4. QED BY <1>9, <2>1, <2>2, <2>3, Zenon DEF Remove, Types, ListTypes
<1>10. CASE Free(o)
  <2>1. op' \in [Ops -> OpRec] BY <1>1, <1>10, GoFacts, Zenon DEF Free
  <2>2. occ' \subseteq Buckets BY <1>10, Zenon DEF Free, Types
  <2>3. QED BY <1>2, <1>10, <2>1, <2>2, Zenon DEF Free, Types, ListTypes
<1>11. QED BY <1>3, <1>4, <1>5, <1>6, <1>7, <1>8, <1>9, <1>10, Zenon DEF Poster

\* A step of the worker keeps the types.
LEMMA WorkerTypes == ASSUME Types, WorkerInv, Worker PROVE Types'
<1>1. ListTypes /\ wk.o \in Ops \cup {None} BY Zenon DEF Types, ListTypes
<1>2. ASSUME UNCHANGED lists PROVE ListTypes' BY <1>1, <1>2, Zenon DEF ListTypes, lists
<1>3. wk.pc # "idle" => wk.o \in Ops BY <1>1, Zenon DEF WorkerInv
<1>4. CASE WorkerTake
  <2>1. Head(localQ) \in Ops /\ localQ' \in Seq(Ops) BY <1>4 DEF WorkerTake, Types
  <2>2. wk' \in [pc : {"idle", "remove", "run"}, o : Ops \cup {None}]
    BY <1>4, <2>1 DEF WorkerTake, Types
  <2>3. QED BY <1>2, <1>4, <2>1, <2>2, Zenon DEF WorkerTake, Types, ListTypes
<1>5. CASE WorkerRemove
  <2>1. wk.o \in Ops BY <1>3, <1>5, Zenon DEF WorkerRemove
  <2>2. ListTypes' BY <1>1, <1>2, <1>5, <2>1, ListTyped, Zenon DEF WorkerRemove
  <2>3. wk' \in [pc : {"idle", "remove", "run"}, o : Ops \cup {None}]
    <3>1. wk \in [pc : {"idle", "remove", "run"}, o : Ops \cup {None}] BY Zenon DEF Types
    <3>2. wk' = [wk EXCEPT !.pc = "run"] \/ wk' = [pc |-> "idle", o |-> None]
      BY <1>5, Zenon DEF WorkerRemove
    <3>3. QED BY <3>1, <3>2
  <2>4. QED BY <1>5, <2>2, <2>3, Zenon DEF WorkerRemove, Types, ListTypes
<1>6. CASE WorkerRun
  <2>1. wk.o \in Ops BY <1>3, <1>6, Zenon DEF WorkerRun
  <2>2. comp' \in [Ops -> Nat] /\ ctxs' \subseteq Ops
    BY <1>6, <2>1, CompleteTyped, Zenon DEF WorkerRun
  <2>3. wk' \in [pc : {"idle", "remove", "run"}, o : Ops \cup {None}] BY <1>6, Zenon DEF WorkerRun
  <2>4. QED BY <1>2, <1>6, <2>2, <2>3, Zenon DEF WorkerRun, Types, ListTypes
<1>7. QED BY <1>4, <1>5, <1>6, Zenon DEF Worker

\* A step of the keeper keeps the types.
LEMMA KeeperTypes == ASSUME Types, Keeper PROVE Types'
<1>1. ListTypes BY Zenon DEF Types, ListTypes
<1>2. ASSUME UNCHANGED lists PROVE ListTypes' BY <1>1, <1>2, Zenon DEF ListTypes, lists
<1>3. kp \in [pc : KpPcs, o : Ops \cup {None}] BY Zenon DEF Types
<1>4. CASE Detach
  <2>1. kp.pc \in Heads /\ next[kp.pc] \in Ops \cup {None} BY <1>4, Zenon DEF Detach, Types
  <2>2. kp' \in [pc : KpPcs, o : Ops \cup {None}] BY <1>4, <2>1, Zenon DEF Detach, KpPcs
  <2>3. ListTypes' BY <1>1, <1>4, <2>1, ListTyped, Zenon DEF Detach
  <2>4. QED BY <1>4, <2>2, <2>3, Zenon DEF Detach, Types, ListTypes
<1>5. CASE Walk
  <2>1. kp.o \in Ops BY <1>3, <1>5, Zenon DEF Walk
  <2>2. next[kp.o] \in Ops \cup {None} BY <2>1, Zenon DEF Types
  <2>3. kp' \in [pc : KpPcs, o : Ops \cup {None}] BY <1>3, <1>5, <2>2, Zenon DEF Walk
  <2>4. comp' \in [Ops -> Nat] /\ ctxs' \subseteq Ops BY <1>5, <2>1, CompleteTyped, Zenon DEF Walk
  <2>5. QED BY <1>2, <1>5, <2>3, <2>4, Zenon DEF Walk, Types, ListTypes
<1>6. CASE Break \/ EpBroken \/ WalkEnd \/ Release
  <2>1. kp' \in [pc : KpPcs, o : Ops \cup {None}]
    BY <1>3, <1>6, Zenon DEF Break, EpBroken, WalkEnd, Release, KpPcs
  <2>2. UNCHANGED <<occ, content, op, peerQ, localQ, lists, ctxs, comp, wk>>
    BY <1>6, Zenon DEF Break, EpBroken, WalkEnd, Release
  <2>3. QED BY <1>2, <2>1, <2>2, Zenon DEF Types, ListTypes
<1>7. QED BY <1>4, <1>5, <1>6, Zenon DEF Keeper

\* A step of the peer keeps the types.
LEMMA PeerTypes == ASSUME Types, Peer PROVE Types'
<1>1. peerQ' \in Seq(Ops \X (Buckets \cup {None}))
  <2>1. peerQ \in Seq(Ops \X (Buckets \cup {None})) BY Zenon DEF Types
  <2>2. peerQ' = peerQ \/ (peerQ # <<>> /\ peerQ' = Tail(peerQ))
    BY Zenon DEF Peer, PeerReceive, PeerMarkFree, PeerDrop
  <2>3. QED BY ONLY <2>1, <2>2
<1>2. occ' \subseteq Buckets BY Zenon DEF Peer, PeerReceive, PeerMarkFree, PeerDrop, Types
<1>3. UNCHANGED <<content, op, localQ, lists, ctxs, comp, wk, kp>>
  BY Zenon DEF Peer, PeerReceive, PeerMarkFree, PeerDrop
<1>4. QED BY <1>1, <1>2, <1>3, Zenon DEF Types, lists

-----------------------------------------------------------------------------
(* What the worker finds in its queue *)

\* The elements of a queue with one more at its end.
LEMMA AppendFacts ==
  ASSUME NEW S, NEW q \in Seq(S), NEW e \in S
  PROVE  /\ Append(q, e) \in Seq(S) /\ Len(Append(q, e)) = Len(q) + 1
         /\ \A i \in DOMAIN q : i \in DOMAIN Append(q, e) /\ Append(q, e)[i] = q[i]
         /\ \A i \in DOMAIN Append(q, e) :
              \/ i \in DOMAIN q /\ Append(q, e)[i] = q[i]
              \/ i \notin DOMAIN q /\ i = Len(q) + 1 /\ Append(q, e)[i] = e
OBVIOUS

\* The elements of a queue without its first.
LEMMA TailFacts ==
  ASSUME NEW S, NEW q \in Seq(S), q # <<>>
  PROVE  /\ Head(q) \in S /\ 1 \in DOMAIN q /\ Head(q) = q[1]
         /\ Tail(q) \in Seq(S) /\ Len(Tail(q)) = Len(q) - 1
         /\ \A i \in DOMAIN Tail(q) : i + 1 \in DOMAIN q /\ i + 1 # 1 /\ Tail(q)[i] = q[i + 1]
OBVIOUS

\* A thread that is done with its operation stays so; the others do not move with it.
LEMMA PosterMoves ==
  ASSUME Types, NEW o \in Ops, Poster(o)
  PROVE  /\ op[o].pc # "posted" /\ wk' = wk
         /\ \A x \in Ops : x # o => op'[x] = op[x]
         /\ localQ' = localQ \/ (localQ' = Append(localQ, o) /\ op'[o].pc = "posted")
<1>1. op \in [Ops -> OpRec] BY Zenon DEF Types
<1>2. op[o].pc # "posted"
  BY Zenon DEF Poster, Occupy, Post, Enqueue, GetCtx, Add, Local, Remove, Free, At
<1>3. wk' = wk BY Zenon DEF Poster, Occupy, Post, Enqueue, GetCtx, Add, Local, Remove, Free
<1>4. \A x \in Ops : x # o => op'[x] = op[x]
  <2>1. CASE \E p : Go(o, p) BY <1>1, <2>1, Zenon DEF Go
  <2>2. CASE Occupy(o) BY <1>1, <2>1, <2>2, Zenon DEF Occupy
  <2>3. CASE Enqueue(o) BY <1>1, <2>1, <2>3, Zenon DEF Enqueue, Again
  <2>4. CASE GetCtx(o) BY <2>1, <2>4, Zenon DEF GetCtx, Again
  <2>5. CASE Post(o) \/ Add(o) \/ Local(o) \/ Remove(o) \/ Free(o)
    BY <2>1, <2>5, Zenon DEF Post, Add, Local, Remove, Free
  <2>6. QED BY <2>2, <2>3, <2>4, <2>5, Zenon DEF Poster
<1>5. localQ' = localQ \/ (localQ' = Append(localQ, o) /\ op'[o].pc = "posted")
  <2>1. CASE Local(o)
    <3>1. Go(o, "posted") => op'[o].pc = "posted" BY <1>1, GoFacts, PcFacts, Zenon
    <3>2. QED BY <2>1, <3>1, Zenon DEF Local
  <2>2. CASE ~Local(o)
    BY <2>2, Zenon DEF Poster, Occupy, Post, Enqueue, GetCtx, Add, Remove, Free
  <2>3. QED BY <2>1, <2>2, Zenon
<1>6. QED BY <1>2, <1>3, <1>4, <1>5, Zenon

\* The worker's events are of operations that were posted.
LEMMA WorkerKept == ASSUME Types, WorkerInv, Next PROVE WorkerInv'
<1>1. localQ \in Seq(Ops) /\ wk.o \in Ops \cup {None} BY Zenon DEF Types
<1>2. ASSUME NEW o \in Ops, Poster(o) PROVE WorkerInv'
  <2>1. /\ op[o].pc # "posted" /\ wk' = wk
        /\ \A x \in Ops : x # o => op'[x] = op[x]
        /\ localQ' = localQ \/ (localQ' = Append(localQ, o) /\ op'[o].pc = "posted")
    BY <1>2, PosterMoves, Zenon
  <2>2. \A x \in Ops : op[x].pc = "posted" => op'[x].pc = "posted" BY <2>1, Zenon
  <2>3. \A i \in DOMAIN localQ' : op'[localQ'[i]].pc = "posted"
    <3>1. \A i \in DOMAIN localQ : localQ[i] \in Ops /\ op[localQ[i]].pc = "posted"
      BY <1>1 DEF WorkerInv
    <3>2. CASE localQ' = localQ BY <2>2, <3>1, <3>2, Zenon
    <3>3. CASE localQ' = Append(localQ, o) /\ op'[o].pc = "posted"
      <4>1. \A i \in DOMAIN Append(localQ, o) :
              \/ i \in DOMAIN localQ /\ Append(localQ, o)[i] = localQ[i]
              \/ i \notin DOMAIN localQ /\ i = Len(localQ) + 1 /\ Append(localQ, o)[i] = o
        BY <1>1, AppendFacts, Zenon
      <4>2. QED BY <2>2, <3>1, <3>3, <4>1, Zenon
    <3>4. QED BY <2>1, <3>2, <3>3, Zenon
  <2>4. QED BY <1>1, <2>1, <2>2, <2>3, Zenon DEF WorkerInv
<1>3. CASE WorkerTake
  <2>1. localQ # <<>> /\ localQ' = Tail(localQ) /\ op' = op BY <1>3, Zenon DEF WorkerTake
  <2>2. /\ \A i \in DOMAIN Tail(localQ) : i + 1 \in DOMAIN localQ /\ Tail(localQ)[i] = localQ[i + 1]
        /\ Head(localQ) = localQ[1] /\ 1 \in DOMAIN localQ /\ Head(localQ) \in Ops
    BY <1>1, <2>1, TailFacts, Zenon
  <2>3. \A i \in DOMAIN localQ' : op'[localQ'[i]].pc = "posted"
    BY <2>1, <2>2, Zenon DEF WorkerInv
  <2>4. wk' = wk \/ (wk'.pc = "remove" /\ wk'.o = Head(localQ)) BY <1>3 DEF WorkerTake
  <2>5. Head(localQ) # None BY <2>2, HeadFacts, Zenon
  <2>6. (wk'.pc = "idle" <=> wk'.o = None) /\ (wk'.o # None => op'[wk'.o].pc = "posted")
    BY <2>1, <2>2, <2>4, <2>5, Zenon DEF WorkerInv
  <2>7. QED BY <2>3, <2>6, Zenon DEF WorkerInv
<1>4. CASE WorkerRemove
  <2>1. UNCHANGED <<op, localQ>> BY <1>4, Zenon DEF WorkerRemove
  <2>2. (wk'.pc = "run" /\ wk'.o = wk.o) \/ (wk'.pc = "idle" /\ wk'.o = None)
    BY <1>4 DEF WorkerRemove, Types
  <2>3. QED BY <1>4, <2>1, <2>2, Zenon DEF WorkerInv, WorkerRemove
<1>5. CASE WorkerRun
  BY <1>5, Zenon DEF WorkerInv, WorkerRun
<1>6. CASE Close \/ Keeper \/ Peer
  <2>1. UNCHANGED <<op, localQ, wk>>
    BY <1>6, Zenon DEF Close, Keeper, Break, EpBroken, Detach, Walk, WalkEnd, Release, Peer,
                       PeerReceive, PeerMarkFree, PeerDrop
  <2>2. QED BY <2>1, Zenon DEF WorkerInv
<1>7. QED BY <1>2, <1>3, <1>4, <1>5, <1>6, Zenon DEF Next, Worker

\* Every step keeps the types.
LEMMA NextTypes == ASSUME Types, WorkerInv, [Next]_vars PROVE Types' /\ WorkerInv'
<1>1. CASE Next
  <2>1. ASSUME Close PROVE Types' BY <2>1, Zenon DEF Close, Types, lists
  <2>2. Types' BY <1>1, <2>1, PosterTypes, WorkerTypes, KeeperTypes, PeerTypes, Zenon DEF Next
  <2>3. QED BY <1>1, <2>2, WorkerKept, Zenon
<1>2. CASE UNCHANGED vars BY <1>2, Zenon DEF vars, lists, Types, WorkerInv
<1>3. QED BY <1>1, <1>2, Zenon

-----------------------------------------------------------------------------
(* A context is completed once: the posting threads *)

\* The lists do not change.
LEMMA ListQuiet ==
  ASSUME ListInv, UNCHANGED <<next, prev>>, \A h \in Heads : Detached(h)' <=> Detached(h)
  PROVE  ListInv'
<1>1. ASSUME NEW o \in Ops, Linked(o)' PROVE LinkOk(o)'
  <2>1. LinkOk(o) BY <1>1, Zenon DEF ListInv, Linked
  <2>2. Detached(HeadOf(o))' <=> Detached(HeadOf(o)) BY HeadFacts, Zenon DEF Detached
  <2>3. QED BY <2>1, <2>2, Zenon DEF LinkOk, Linked
<1>2. ASSUME NEW h \in Heads PROVE HeadOk(h)'
  BY Zenon DEF ListInv, HeadOk
<1>3. QED BY <1>1, <1>2, Zenon DEF ListInv

\* A thread moves and the lists, the worker and the keeper do not.
LEMMA PosterQuiet ==
  ASSUME CompInv, Types', WorkerInv', NEW o \in Ops,
         \A x \in Ops : x # o => op'[x] = op[x],
         UNCHANGED <<chNew, lists, comp, wk, kp>>,
         \A x \in Ops : x # o => (x \in ctxs' <=> x \in ctxs),
         o \in ctxs => o \in ctxs',
         EarlyOk(o)', op'[o].pc \in {"enq", "ctx", "add"} => ~Detached("comp")
  PROVE  CompInv'
<1>1. UNCHANGED <<next, prev, count>> BY Zenon DEF lists
<1>2. \A h \in Heads \cup {"comp"} : Detached(h)' <=> Detached(h) BY Zenon DEF Detached
<1>3. ListInv' BY <1>1, <1>2, ListQuiet, Zenon DEF CompInv
<1>4. KeeperInv'
  <2>1. Detached("comp") => \A x \in Ops : op'[x].pc \notin {"enq", "ctx", "add"}
    BY Zenon DEF CompInv, PhaseInv, KeeperInv
  <2>2. QED BY <1>1, <1>2, <2>1, Zenon DEF CompInv, PhaseInv, KeeperInv
<1>5. \A x \in Ops : EarlyOk(x)'
  <2>1. ASSUME NEW x \in Ops, x # o PROVE EarlyOk(x)'
    BY <1>1, <2>1, Zenon DEF CompInv, PhaseInv, EarlyOk, Linked
  <2>2. QED BY <2>1, Zenon
<1>6. \A x \in Ops : x \in ctxs => x \in ctxs' BY Zenon
<1>7. DoneInv'
  <2>1. ASSUME NEW x \in Ops, Linked(x)' PROVE DoneOk(x)'
    <3>1. DoneOk(x) BY <1>1, <2>1, Zenon DEF CompInv, DoneInv, Linked
    <3>2. Detached(HeadOf(x))' <=> Detached(HeadOf(x)) BY Zenon DEF Detached
    <3>3. QED BY <1>1, <1>6, <3>1, <3>2, Zenon DEF DoneOk
  <2>2. RunOk'
    <3>1. wk.pc = "run" => wk.o \in Ops BY Zenon DEF CompInv, Types, PhaseInv, WorkerInv
    <3>2. QED BY <1>1, <1>6, <3>1, Zenon DEF CompInv, DoneInv, RunOk, Linked
  <2>3. WalkOk' BY <1>1, Zenon DEF CompInv, DoneInv, WalkOk, Walking, Linked
  <2>4. QED BY <2>1, <2>2, <2>3, Zenon DEF CompInv, DoneInv
<1>8. QED BY <1>3, <1>4, <1>5, <1>7, Zenon DEF CompInv, PhaseInv

\* A thread that is not on its way to the list, and does not take a context, moves.
LEMMA QuietComp ==
  ASSUME CompInv, Types', WorkerInv', NEW o \in Ops,
         Occupy(o) \/ Post(o) \/ Enqueue(o) \/ GetCtx(o) \/ Local(o) \/ Free(o)
  PROVE  CompInv'
<1> USE PcFacts
<1>1. op \in [Ops -> OpRec] /\ op' \in [Ops -> OpRec] /\ Types BY Zenon DEF CompInv, Types
<1>2. UNCHANGED <<lists, comp, wk, kp, chNew>>
  BY Zenon DEF Occupy, Post, Enqueue, GetCtx, Local, Free
<1>3. \A x \in Ops : x # o => op'[x] = op[x] BY <1>1, PosterMoves, Zenon DEF Poster
<1>4. /\ ctxs' = ctxs \/ (At(o, "ctx") /\ ctxs' = ctxs \cup {o})
      /\ \A x \in Ops : x # o => (x \in ctxs' <=> x \in ctxs)
      /\ o \in ctxs => o \in ctxs'
  <2>1. ctxs' = ctxs \/ (At(o, "ctx") /\ ctxs' = ctxs \cup {o})
    BY Zenon DEF Occupy, Post, Enqueue, GetCtx, Local, Free
  <2>2. QED BY <2>1, Zenon
<1>5. ~Detached("comp") \/ op'[o].pc \notin {"enq", "ctx", "add"}
  <2>1. CASE Occupy(o) \/ Local(o) \/ Free(o)
    <3>1. op'[o].pc \in {"failed", "post", "posted", "remove", "free"}
      <4>1. ASSUME NEW b \in Buckets, op' = [op EXCEPT ![o].pc = "post", ![o].buck = b]
            PROVE  op'[o].pc = "post"
        BY <1>1, <4>1, Zenon DEF OpRec
      <4>2. \A p \in Pcs : Go(o, p) => op'[o].pc = p BY <1>1, GoFacts, Zenon
      <4>3. QED BY <2>1, <4>1, <4>2, Zenon DEF Occupy, Local, Free
    <3>2. QED BY <3>1, Zenon
  <2>2. CASE Post(o)
    <3>1. chNew => ~Detached("comp") BY Zenon DEF CompInv, PhaseInv, KeeperInv, Detached
    <3>2. Go(o, "free") => op'[o].pc = "free" BY <1>1, GoFacts, Zenon
    <3>3. QED BY <2>2, <3>1, <3>2, Zenon DEF Post
  <2>3. CASE Enqueue(o) \/ GetCtx(o)
    BY <2>3, Zenon DEF CompInv, PhaseInv, KeeperInv, Enqueue, GetCtx, At
  <2>4. QED BY <2>1, <2>2, <2>3, Zenon
<1>6. EarlyOk(o)'
  <2>1. EarlyOk(o) BY Zenon DEF CompInv, PhaseInv
  <2>2. Linked(o)' <=> Linked(o) BY <1>2, Zenon DEF Linked, lists
  <2>3. CASE op[o].pc \in {"idle", "post", "enq"}
    <3>1. ~Linked(o) /\ comp[o] = 0 /\ o \notin ctxs BY <2>1, <2>3, Zenon DEF EarlyOk
    <3>2. ctxs' = ctxs BY <2>3, Zenon DEF Occupy, Post, Enqueue, GetCtx, Local, Free, At
    <3>3. op'[o].pc # "add"
      <4>1. ASSUME NEW b \in Buckets, op' = [op EXCEPT ![o].pc = "post", ![o].buck = b]
            PROVE  op'[o].pc = "post"
        BY <1>1, <4>1, Zenon DEF OpRec
      <4>2. op' = [op EXCEPT ![o].pc = "ctx", ![o].sent = TRUE] => op'[o].pc = "ctx"
        BY <1>1 DEF OpRec
      <4>3. \A p \in Pcs : Go(o, p) => op'[o].pc = p BY <1>1, GoFacts, Zenon
      <4>4. CASE Occupy(o) BY <4>1, <4>3, <4>4, Zenon DEF Occupy
      <4>5. CASE Post(o) BY <4>3, <4>5, Zenon DEF Post
      <4>6. CASE Enqueue(o) BY <4>2, <4>3, <4>6, Zenon DEF Enqueue, Again
      <4>7. ~GetCtx(o) /\ ~Local(o) /\ ~Free(o) BY <2>3, Zenon DEF GetCtx, Local, Free, At
      <4>8. QED BY <4>4, <4>5, <4>6, <4>7, Zenon
    <3>4. QED BY <1>2, <2>2, <3>1, <3>2, <3>3, Zenon DEF EarlyOk
  <2>4. CASE GetCtx(o)
    <3>1. ~Linked(o) /\ comp[o] = 0 /\ o \notin ctxs BY <2>1, <2>4, Zenon DEF EarlyOk, GetCtx, At
    <3>2. \A p \in Pcs : Go(o, p) => op'[o].pc = p BY <1>1, GoFacts, Zenon
    <3>3. o \in ctxs' <=> op'[o].pc = "add" BY <2>4, <3>1, <3>2, Zenon DEF GetCtx, Again
    <3>4. QED BY <1>2, <2>2, <3>1, <3>3, Zenon DEF EarlyOk
  <2>5. CASE Local(o) \/ Free(o)
    <3>1. \A p \in Pcs : Go(o, p) => op'[o].pc = p BY <1>1, GoFacts, Zenon
    <3>2. op'[o].pc \in {"posted", "remove", "free", "failed"} BY <2>5, <3>1, Zenon DEF Local, Free
    <3>3. QED BY <3>2, Zenon DEF EarlyOk
  <2>6. QED BY <2>3, <2>4, <2>5, Zenon DEF Occupy, Post, Enqueue, At
<1>7. QED BY <1>2, <1>3, <1>4, <1>5, <1>6, PosterQuiet, Zenon

\* A thread puts its context on a list: nothing is detached, so nothing on it was completed.
LEMMA AddComp == ASSUME CompInv, Types', WorkerInv', NEW o \in Ops, Add(o) PROVE CompInv'
<1>1. op \in [Ops -> OpRec] /\ ListTypes /\ ListInv /\ Types
  BY Zenon DEF CompInv, Types, ListTypes
<1>2. /\ op'[o].pc = "local" /\ \A x \in Ops : x # o => op'[x] = op[x]
      /\ op[o].pc = "add" /\ AddPosted(o) /\ UNCHANGED <<chNew, ctxs, comp, wk, kp>>
  <2>1. Go(o, "local") => op'[o].pc = "local" BY <1>1, GoFacts, PcFacts, Zenon
  <2>2. \A x \in Ops : x # o => op'[x] = op[x] BY <1>1, PosterMoves, Zenon DEF Poster
  <2>3. QED BY <2>1, <2>2, Zenon DEF Add, At
<1>3. ~Linked(o) /\ comp[o] = 0 /\ o \in ctxs BY <1>2, Zenon DEF CompInv, PhaseInv, EarlyOk
<1>4. \A h \in Heads \cup {"comp"} : ~Detached(h) /\ ~Detached(h)'
  <2>1. ~Detached("comp") BY <1>2, Zenon DEF CompInv, PhaseInv, KeeperInv
  <2>2. \A h \in Heads : ~Detached(h) BY <2>1, HeadFacts, Zenon
  <2>3. \A h : Detached(h)' <=> Detached(h) BY <1>2, Zenon DEF Detached
  <2>4. QED BY <2>1, <2>2, <2>3, Zenon
<1>5. HeadOf(o) \in Heads BY HeadFacts, Zenon
<1>6. ListInv' /\ \A x \in Ops : Linked(x)' <=> Linked(x) \/ x = o
  BY <1>1, <1>2, <1>3, <1>4, <1>5, AddList, Zenon
<1>7. KeeperInv' BY <1>2, <1>4, Zenon DEF CompInv, PhaseInv, KeeperInv
<1>8. \A x \in Ops : EarlyOk(x)'
  <2>1. EarlyOk(o)' BY <1>2, Zenon DEF EarlyOk
  <2>2. ASSUME NEW x \in Ops, x # o PROVE EarlyOk(x)'
    BY <1>2, <1>6, <2>2, Zenon DEF CompInv, PhaseInv, EarlyOk
  <2>3. QED BY <2>1, <2>2, Zenon
<1>9. \A x \in Ops : Linked(x) => comp[x] = 0 /\ x \in ctxs
  BY <1>4, HeadFacts, Zenon DEF CompInv, DoneInv, DoneOk
<1>10. \A x \in Ops : Linked(x)' => DoneOk(x)'
  BY <1>2, <1>3, <1>6, <1>9, Zenon DEF DoneOk
<1>11. RunOk'
  <2>1. wk.pc = "run" => wk.o \in Ops /\ wk.o # o
    BY <1>1, <1>2, Zenon DEF CompInv, Types, PhaseInv, WorkerInv
  <2>2. QED BY <1>2, <1>6, <2>1, Zenon DEF CompInv, DoneInv, RunOk
<1>12. WalkOk'
  <2>1. kp.o \in Ops \cup {None} BY <1>1, Zenon DEF Types
  <2>2. kp.o = None BY <1>4, <2>1, HeadFacts, Zenon DEF CompInv, DoneInv, WalkOk
  <2>3. QED BY <1>2, <2>2, Zenon DEF WalkOk
<1>13. DoneInv' BY <1>2, <1>10, <1>11, <1>12, Zenon DEF CompInv, DoneInv
<1>14. QED BY <1>6, <1>7, <1>8, <1>13, Zenon DEF CompInv, PhaseInv

\* What a thread that removes a context from a list finds: the list is not detached and the
\* context was not completed.  Contexts of the other list are not touched.
LEMMA Taken ==
  ASSUME CompInv, NEW o \in Ops, RemovePosted(o), UNCHANGED <<kp, comp>>
  PROVE  /\ ListInv' /\ Linked(o) /\ comp[o] = 0 /\ o \in ctxs
         /\ \A x \in Ops : Linked(x)' <=> Linked(x) /\ x # o
         /\ \A h \in Heads : Detached(h)' => count'[h] = 0
         /\ \A x \in Ops : Linked(x) /\ x # o /\ (comp[x] = 0 => x \in ctxs') => DoneOk(x)'
         /\ WalkOk'
<1>1. HeadOf(o) \in Heads /\ ListTypes /\ ListInv BY HeadFacts, Zenon DEF CompInv, Types, ListTypes
<1>2. ~Detached(HeadOf(o))
  BY <1>1, Zenon DEF CompInv, PhaseInv, KeeperInv, RemovePosted, Removable
<1>3. /\ ListInv' /\ Linked(o)
      /\ \A x \in Ops : Linked(x)' <=> Linked(x) /\ x # o
      /\ \A x \in Ops : HeadOf(x) # HeadOf(o) => prev'[x] = prev[x]
      /\ \A h \in Heads : h # HeadOf(o) => count'[h] = count[h]
  BY <1>1, <1>2, RemoveList, Zenon
<1>4. \A h \in Heads : Detached(h)' <=> Detached(h) BY Zenon DEF Detached
<1>5. DoneOk(o) BY <1>3, Zenon DEF CompInv, DoneInv
<1>6. comp[o] = 0 /\ o \in ctxs BY <1>2, <1>5, Zenon DEF DoneOk
<1>7. \A h \in Heads : Detached(h)' => count'[h] = 0
  BY <1>2, <1>3, <1>4, Zenon DEF CompInv, PhaseInv, KeeperInv
<1>8. ASSUME NEW x \in Ops, Linked(x), x # o, comp[x] = 0 => x \in ctxs' PROVE DoneOk(x)'
  <2>1. DoneOk(x) /\ HeadOf(x) \in Heads BY <1>8, HeadFacts, Zenon DEF CompInv, DoneInv
  <2>2. CASE comp[x] = 0 BY <1>8, <2>2, Zenon DEF DoneOk
  <2>3. CASE comp[x] # 0
    <3>1. Detached(HeadOf(x)) /\ (prev[x] \in Ops => comp[prev[x]] # 0)
      BY <2>1, <2>3, Zenon DEF DoneOk
    <3>2. prev'[x] = prev[x] BY <1>2, <1>3, <3>1, Zenon
    <3>3. Detached(HeadOf(x))' BY <3>1, Zenon DEF Detached
    <3>4. QED BY <2>3, <3>1, <3>2, <3>3, Zenon DEF DoneOk
  <2>4. QED BY <2>2, <2>3, Zenon
<1>9. WalkOk'
  <2>1. SUFFICES ASSUME kp.o # None
                 PROVE  /\ Walking(HeadOf(kp.o))' /\ Linked(kp.o)' /\ comp[kp.o] = 0
                        /\ prev'[kp.o] \in Ops => comp[prev'[kp.o]] # 0
    BY Zenon DEF WalkOk, Linked, Walking
  <2>2. kp.o \in Ops BY <2>1, Zenon DEF CompInv, Types
  <2>3. /\ Walking(HeadOf(kp.o)) /\ Linked(kp.o) /\ comp[kp.o] = 0
        /\ prev[kp.o] \in Ops => comp[prev[kp.o]] # 0
    BY <2>1, Zenon DEF CompInv, DoneInv, WalkOk
  <2>4. Detached(HeadOf(kp.o)) BY <2>2, <2>3, HeadFacts, Zenon
  <2>5. HeadOf(kp.o) # HeadOf(o) /\ kp.o # o BY <1>2, <2>4, Zenon
  <2>6. prev'[kp.o] = prev[kp.o] BY <1>3, <2>2, <2>5, Zenon
  <2>7. QED BY <2>3, <2>6, Zenon DEF Walking, Linked
<1>10. QED BY <1>3, <1>6, <1>7, <1>8, <1>9, Zenon

\* The sender takes its context back, or finds it gone.
LEMMA RemoveComp == ASSUME CompInv, Types', WorkerInv', NEW o \in Ops, Remove(o) PROVE CompInv'
<1>1. op \in [Ops -> OpRec] /\ Types BY Zenon DEF CompInv, Types
<1>2. /\ op'[o].pc = "free" /\ \A x \in Ops : x # o => op'[x] = op[x]
      /\ op[o].pc = "remove" /\ UNCHANGED <<chNew, comp, wk, kp>>
  <2>1. Go(o, "free") => op'[o].pc = "free" BY <1>1, GoFacts, PcFacts, Zenon
  <2>2. \A x \in Ops : x # o => op'[x] = op[x] BY <1>1, PosterMoves, Zenon DEF Poster
  <2>3. QED BY <2>1, <2>2, Zenon DEF Remove, At
<1>3. EarlyOk(o)' BY <1>2, Zenon DEF EarlyOk
<1>4. op'[o].pc \notin {"enq", "ctx", "add"} BY <1>2, Zenon
<1>5. CASE RemovePosted(o) /\ ctxs' = ctxs \ {o}
  <2>1. /\ ListInv'
        /\ \A x \in Ops : Linked(x)' <=> Linked(x) /\ x # o
        /\ \A h \in Heads : Detached(h)' => count'[h] = 0
        /\ \A x \in Ops : Linked(x) /\ x # o /\ (comp[x] = 0 => x \in ctxs') => DoneOk(x)'
        /\ WalkOk'
    BY <1>2, <1>5, Taken, Zenon
  <2>2. \A x \in Ops : x # o => (x \in ctxs' <=> x \in ctxs) BY <1>5, Zenon
  <2>3. KeeperInv'
    <3>1. Detached("comp")' => \A x \in Ops : op'[x].pc \notin {"enq", "ctx", "add"}
      BY <1>2, <1>4, Zenon DEF CompInv, PhaseInv, KeeperInv, Detached
    <3>2. QED BY <1>2, <2>1, <3>1, Zenon DEF CompInv, PhaseInv, KeeperInv
  <2>4. ASSUME NEW x \in Ops, x # o PROVE EarlyOk(x)'
    BY <1>2, <2>1, <2>2, <2>4, Zenon DEF CompInv, PhaseInv, EarlyOk
  <2>5. ASSUME NEW x \in Ops, Linked(x)' PROVE DoneOk(x)'
    <3>1. Linked(x) /\ x # o /\ DoneOk(x) BY <2>1, <2>5, Zenon DEF CompInv, DoneInv
    <3>2. comp[x] = 0 => x \in ctxs' BY <2>2, <3>1, Zenon DEF DoneOk
    <3>3. QED BY <2>1, <3>1, <3>2, Zenon
  <2>6. RunOk'
    <3>1. wk.pc = "run" => wk.o \in Ops /\ wk.o # o
      BY <1>1, <1>2, Zenon DEF CompInv, Types, PhaseInv, WorkerInv
    <3>2. QED BY <1>2, <2>1, <2>2, <3>1, Zenon DEF CompInv, DoneInv, RunOk
  <2>7. DoneInv' BY <1>2, <2>1, <2>5, <2>6, Zenon DEF CompInv, DoneInv
  <2>8. QED BY <1>3, <2>1, <2>3, <2>4, <2>7, Zenon DEF CompInv, PhaseInv
<1>6. CASE UNCHANGED <<lists, ctxs>>
  BY <1>2, <1>3, <1>4, <1>6, PosterQuiet, Zenon
<1>7. QED BY <1>5, <1>6, Zenon DEF Remove

-----------------------------------------------------------------------------
(* A context is completed once: the worker, the keeper and the peer *)

\* The worker takes an event, or finds the context of its event gone.
LEMMA WorkerQuietComp ==
  ASSUME CompInv, Types', WorkerInv', wk'.pc # "run",
         UNCHANGED <<chNew, op, lists, ctxs, comp, kp>>
  PROVE  CompInv'
<1>1. UNCHANGED <<next, prev, count>> BY Zenon DEF lists
<1>2. \A h : Detached(h)' <=> Detached(h) BY Zenon DEF Detached
<1>3. ListInv' BY <1>1, <1>2, ListQuiet, Zenon DEF CompInv
<1>4. KeeperInv' BY <1>1, <1>2, Zenon DEF CompInv, PhaseInv, KeeperInv
<1>5. \A x \in Ops : EarlyOk(x)' BY <1>1, Zenon DEF CompInv, PhaseInv, EarlyOk, Linked
<1>6. \A x \in Ops : Linked(x)' => DoneOk(x)'
  BY <1>1, <1>2, Zenon DEF CompInv, DoneInv, DoneOk, Linked, Detached
<1>7. WalkOk' BY <1>1, Zenon DEF CompInv, DoneInv, WalkOk, Walking, Linked
<1>8. DoneInv' BY <1>6, <1>7, Zenon DEF CompInv, DoneInv, RunOk
<1>9. QED BY <1>3, <1>4, <1>5, <1>8, Zenon DEF CompInv, PhaseInv

\* The steps of the worker.
LEMMA WorkerComp == ASSUME CompInv, Types', WorkerInv', Worker PROVE CompInv'
<1>1. Types /\ wk.o \in Ops \cup {None} /\ (wk.pc # "idle" => wk.o \in Ops)
  BY Zenon DEF CompInv, Types, PhaseInv, WorkerInv
<1>2. CASE WorkerTake
  <2>1. wk'.pc # "run" BY <1>2 DEF WorkerTake
  <2>2. QED BY <1>2, <2>1, WorkerQuietComp, Zenon DEF WorkerTake
<1>3. CASE WorkerRemove
  <2>1. CASE RemovePosted(wk.o) /\ wk' = [wk EXCEPT !.pc = "run"]
    <3> DEFINE o == wk.o
    <3>1. o \in Ops /\ UNCHANGED <<chNew, op, ctxs, comp, kp>>
      BY <1>1, <1>3, Zenon DEF WorkerRemove
    <3>2. wk'.pc = "run" /\ wk'.o = o BY <1>1, <2>1, Zenon DEF Types
    <3>3. /\ ListInv' /\ comp[o] = 0 /\ o \in ctxs
          /\ \A x \in Ops : Linked(x)' <=> Linked(x) /\ x # o
          /\ \A h \in Heads : Detached(h)' => count'[h] = 0
          /\ \A x \in Ops : Linked(x) /\ x # o /\ (comp[x] = 0 => x \in ctxs') => DoneOk(x)'
          /\ WalkOk'
      BY <2>1, <3>1, Taken, Zenon
    <3>4. KeeperInv' BY <3>1, <3>3, Zenon DEF CompInv, PhaseInv, KeeperInv, Detached
    <3>5. \A x \in Ops : EarlyOk(x)' BY <3>1, <3>3, Zenon DEF CompInv, PhaseInv, EarlyOk
    <3>6. ASSUME NEW x \in Ops, Linked(x)' PROVE DoneOk(x)'
      <4>1. Linked(x) /\ x # o /\ DoneOk(x) BY <3>3, <3>6, Zenon DEF CompInv, DoneInv
      <4>2. comp[x] = 0 => x \in ctxs' BY <3>1, <4>1, Zenon DEF DoneOk
      <4>3. QED BY <3>3, <4>1, <4>2, Zenon
    <3>7. RunOk' BY <3>1, <3>2, <3>3, Zenon DEF RunOk
    <3>8. DoneInv' BY <3>1, <3>3, <3>6, <3>7, Zenon DEF CompInv, DoneInv
    <3>9. QED BY <3>3, <3>4, <3>5, <3>8, Zenon DEF CompInv, PhaseInv
  <2>2. CASE wk' = [pc |-> "idle", o |-> None] /\ UNCHANGED lists
    <3>1. wk'.pc # "run" BY <2>2, Zenon
    <3>2. QED BY <1>3, <2>2, <3>1, WorkerQuietComp, Zenon DEF WorkerRemove
  <2>3. QED BY <1>3, <2>1, <2>2, Zenon DEF WorkerRemove
<1>4. CASE WorkerRun
  <2> DEFINE o == wk.o
  <2>1. o \in Ops /\ op[o].pc = "posted" /\ ~Linked(o) /\ comp[o] = 0
    BY <1>1, <1>4, HeadFacts, Zenon DEF WorkerRun, CompInv, PhaseInv, WorkerInv, DoneInv, RunOk
  <2>2. UNCHANGED <<chNew, op, next, prev, count, kp>> BY <1>4, Zenon DEF WorkerRun, lists
  <2>3. /\ comp' = [comp EXCEPT ![o] = @ + 1] /\ ctxs' = ctxs \ {o}
        /\ wk'.pc = "idle"
    BY <1>4, Zenon DEF WorkerRun, Complete
  <2> HIDE DEF o
  <2>4. comp'[o] = 1 /\ \A x \in Ops : x # o => comp'[x] = comp[x] /\ (x \in ctxs' <=> x \in ctxs)
    BY <1>1, <2>1, <2>3 DEF Types
  <2>5. \A h : Detached(h)' <=> Detached(h) BY <2>2, Zenon DEF Detached
  <2>6. ListInv' BY <2>2, <2>5, ListQuiet, Zenon DEF CompInv
  <2>7. KeeperInv' BY <2>2, <2>5, Zenon DEF CompInv, PhaseInv, KeeperInv
  <2>8. ASSUME NEW x \in Ops PROVE EarlyOk(x)'
    <3>1. CASE x = o BY <2>1, <2>2, <3>1, Zenon DEF EarlyOk
    <3>2. CASE x # o BY <2>2, <2>4, <3>2, Zenon DEF CompInv, PhaseInv, EarlyOk, Linked
    <3>3. QED BY <3>1, <3>2, Zenon
  <2>9. \A x \in Ops : comp[x] # 0 => comp'[x] # 0 BY <2>1, <2>4, Zenon
  <2>10. ASSUME NEW x \in Ops, Linked(x)' PROVE DoneOk(x)'
    <3>1. Linked(x) /\ x # o BY <2>1, <2>2, <2>10, Zenon DEF Linked
    <3>2. DoneOk(x) BY <3>1, Zenon DEF CompInv, DoneInv
    <3>3. Detached(HeadOf(x))' <=> Detached(HeadOf(x)) BY <2>2, Zenon DEF Detached
    <3>4. QED BY <2>2, <2>4, <2>9, <3>1, <3>2, <3>3, Zenon DEF DoneOk
  <2>11. WalkOk'
    <3>1. SUFFICES ASSUME kp.o # None
                   PROVE  /\ Walking(HeadOf(kp.o))' /\ Linked(kp.o)' /\ comp'[kp.o] = 0
                          /\ prev'[kp.o] \in Ops => comp'[prev'[kp.o]] # 0
      BY <2>2, Zenon DEF WalkOk, Linked, Walking
    <3>2. kp.o \in Ops BY <1>1, <3>1, Zenon DEF Types
    <3>3. /\ Walking(HeadOf(kp.o)) /\ Linked(kp.o) /\ comp[kp.o] = 0
          /\ prev[kp.o] \in Ops => comp[prev[kp.o]] # 0
      BY <3>1, Zenon DEF CompInv, DoneInv, WalkOk
    <3>4. kp.o # o BY <2>1, <3>3, Zenon
    <3>5. QED BY <2>2, <2>4, <2>9, <3>2, <3>3, <3>4, Zenon DEF Walking, Linked
  <2>12. \A x \in Ops : comp'[x] <= 1
    <3>1. \A x \in Ops : comp[x] <= 1 BY Zenon DEF CompInv, DoneInv
    <3>2. QED BY <2>4, <3>1
  <2>13. RunOk' BY <2>3, Zenon DEF RunOk
  <2>14. DoneInv' BY <2>10, <2>11, <2>12, <2>13, Zenon DEF DoneInv
  <2>15. QED BY <2>6, <2>7, <2>8, <2>14, Zenon DEF CompInv, PhaseInv
<1>5. QED BY <1>2, <1>3, <1>4, Zenon DEF Worker

\* The keeper goes on without a list being detached, or after one was walked over.
LEMMA KeeperQuietComp ==
  ASSUME CompInv, Types', WorkerInv', UNCHANGED <<op, lists, ctxs, comp, wk>>,
         kp.o = None, kp'.o = None, chNew' => chNew /\ kp'.pc = "idle",
         \A h \in Heads : Detached(h)' <=> Detached(h)
  PROVE  CompInv'
<1>1. UNCHANGED <<next, prev, count>> BY Zenon DEF lists
<1>2. ListInv' BY <1>1, ListQuiet, Zenon DEF CompInv
<1>3. KeeperInv'
  <2>1. "comp" \in Heads BY Zenon DEF Heads
  <2>2. Detached("comp")' <=> Detached("comp") BY <2>1, Zenon
  <2>3. QED BY <1>1, <2>2, Zenon DEF CompInv, PhaseInv, KeeperInv
<1>4. \A x \in Ops : EarlyOk(x)' BY <1>1, Zenon DEF CompInv, PhaseInv, EarlyOk, Linked
<1>5. ASSUME NEW x \in Ops, Linked(x)' PROVE DoneOk(x)'
  <2>1. DoneOk(x) BY <1>1, <1>5, Zenon DEF CompInv, DoneInv, Linked
  <2>2. HeadOf(x) \in Heads BY HeadFacts, Zenon
  <2>3. HeadOf(x)' = HeadOf(x) BY Zenon
  <2>4. Detached(HeadOf(x))' <=> Detached(HeadOf(x)) BY <2>2, Zenon DEF Detached
  <2>5. QED BY <1>1, <2>1, <2>4, Zenon DEF DoneOk
<1>6. RunOk' BY <1>1, Zenon DEF CompInv, DoneInv, RunOk, Linked
<1>7. DoneInv' BY <1>5, <1>6, Zenon DEF CompInv, DoneInv, WalkOk
<1>8. QED BY <1>2, <1>3, <1>4, <1>7, Zenon DEF CompInv, PhaseInv

\* The keeper detaches a list: the contexts on it were not completed.
LEMMA DetachComp == ASSUME Prompt, CompInv, Types', WorkerInv', Detach PROVE CompInv'
<1>0. PICK h \in Heads : h = kp.pc BY Zenon DEF Detach
<1>1. h \in Heads /\ Types /\ ListTypes /\ h \notin Ops
  BY HeadFacts, Zenon DEF CompInv, Types, ListTypes
<1>2. /\ next' = [next EXCEPT ![h] = None] /\ count' = [count EXCEPT ![h] = 0]
      /\ UNCHANGED <<chNew, op, ctxs, comp, wk, prev>>
      /\ kp'.pc = (IF h = "comp" THEN "walkcomp" ELSE "walkctx") /\ kp'.o = next[h]
      /\ \A x \in Ops : op[x].pc \notin {"enq", "ctx", "add"}
  BY <1>0, Zenon DEF Detach, DetachPosted
<1>3. ~Detached(h) /\ Walking(h)' /\ \A k \in Heads : Detached(k)' <=> Detached(k) \/ k = h
  BY <1>0, <1>2, Zenon DEF Heads, Detached, Walking
<1>4. ~chNew BY <1>0, Zenon DEF CompInv, PhaseInv, KeeperInv, Heads
<1>5. /\ \A x \in Ops : next'[x] = next[x]
      /\ \A k \in Heads : k # h => next'[k] = next[k] /\ count'[k] = count[k]
      /\ count'[h] = 0
  BY <1>1, <1>2, Zenon DEF ListTypes
<1>6. ListInv'
  <2>1. ASSUME NEW x \in Ops, Linked(x)' PROVE LinkOk(x)'
    <3>1. LinkOk(x) /\ HeadOf(x) \in Heads
      BY <1>2, <2>1, HeadFacts, Zenon DEF CompInv, ListInv, Linked
    <3>2. Detached(HeadOf(x))' <=> Detached(HeadOf(x)) \/ HeadOf(x) = h
      BY <1>3, <3>1, Zenon DEF Detached
    <3>3. ASSUME prev[x] \in Ops \/ ~Detached(HeadOf(x))' PROVE next'[prev[x]] = x
      <4>1. next[prev[x]] = x BY <3>1, <3>2, <3>3, Zenon DEF LinkOk
      <4>2. CASE prev[x] \in Ops BY <1>5, <4>1, <4>2, Zenon
      <4>3. CASE prev[x] \notin Ops
        <5>1. prev[x] = HeadOf(x) /\ HeadOf(x) # h BY <3>1, <3>2, <3>3, <4>3, Zenon DEF LinkOk
        <5>2. QED BY <1>5, <3>1, <4>1, <5>1, Zenon
      <4>4. QED BY <4>2, <4>3, Zenon
    <3>4. next'[x] = next[x] BY <1>5, Zenon
    <3>5. QED BY <1>2, <3>1, <3>3, <3>4, Zenon DEF LinkOk, Linked
  <2>2. ASSUME NEW k \in Heads PROVE HeadOk(k)'
    BY <1>2, <1>3, <1>5, Zenon DEF CompInv, ListInv, HeadOk
  <2>3. QED BY <2>1, <2>2, Zenon DEF ListInv
<1>7. KeeperInv' BY <1>2, <1>3, <1>4, <1>5, Zenon DEF CompInv, PhaseInv, KeeperInv
<1>8. \A x \in Ops : EarlyOk(x)' BY <1>2, Zenon DEF CompInv, PhaseInv, EarlyOk, Linked
<1>9. ASSUME NEW x \in Ops, Linked(x)' PROVE DoneOk(x)'
  <2>1. DoneOk(x) /\ HeadOf(x) \in Heads
    BY <1>2, <1>9, HeadFacts, Zenon DEF CompInv, DoneInv, Linked
  <2>2. Detached(HeadOf(x)) => Detached(HeadOf(x))' BY <1>3, <2>1, Zenon DEF Detached
  <2>3. QED BY <1>2, <2>1, <2>2, Zenon DEF DoneOk
<1>10. RunOk' BY <1>2, Zenon DEF CompInv, DoneInv, RunOk, Linked
<1>11. WalkOk'
  <2>0. PICK c : c = next[h] BY Zenon
  <2>1. SUFFICES ASSUME c # None
                 PROVE  /\ Walking(HeadOf(c))' /\ prev[c] # None /\ comp[c] = 0 /\ prev[c] \notin Ops
    BY <1>2, <2>0, Zenon DEF WalkOk, Linked, Walking
  <2>2. c \in Ops BY <1>1, <2>0, <2>1, Zenon DEF ListTypes
  <2>3. HeadOf(c) = h /\ prev[c] = h BY <1>1, <1>3, <2>0, <2>1, Zenon DEF CompInv, ListInv, HeadOk
  <2>4. prev[c] # None /\ prev[c] \notin Ops BY <1>1, <2>3, HeadFacts, Zenon
  <2>5. comp[c] = 0 BY <1>3, <2>2, <2>3, <2>4, Zenon DEF CompInv, DoneInv, DoneOk, Linked
  <2>6. QED BY <1>3, <2>3, <2>4, <2>5, Zenon DEF Walking
<1>12. DoneInv' BY <1>2, <1>9, <1>10, <1>11, Zenon DEF CompInv, DoneInv
<1>13. QED BY <1>6, <1>7, <1>8, <1>12, Zenon DEF CompInv, PhaseInv

\* The keeper completes a context of a detached list.  The next one has this one before it, and
\* would be completed only if this one was.
LEMMA WalkComp == ASSUME CompInv, Types', WorkerInv', Walk PROVE CompInv'
<1>0. PICK o \in Ops : o = kp.o BY Zenon DEF Walk, CompInv, Types
<1>1. Types /\ o \in Ops BY Zenon DEF CompInv
<1>2. /\ UNCHANGED <<chNew, op, next, prev, count, wk>>
      /\ comp' = [comp EXCEPT ![o] = @ + 1] /\ ctxs' = ctxs \ {o}
      /\ kp'.pc = kp.pc /\ kp'.o = next[o]
  BY <1>0, <1>1, Zenon DEF Walk, Complete, lists, Types
<1>3. /\ Walking(HeadOf(o)) /\ Linked(o) /\ comp[o] = 0
      /\ prev[o] \in Ops => comp[prev[o]] # 0
  BY <1>0, Zenon DEF Walk, CompInv, DoneInv, WalkOk
<1>4. Detached(HeadOf(o)) BY <1>1, <1>3, HeadFacts, Zenon
<1>5. comp'[o] = 1 /\ \A x \in Ops : x # o => comp'[x] = comp[x] /\ (x \in ctxs' <=> x \in ctxs)
  BY <1>1, <1>2, <1>3 DEF Types
<1>6. \A h : (Detached(h)' <=> Detached(h)) /\ (Walking(h)' <=> Walking(h))
  BY <1>2, Zenon DEF Detached, Walking
<1>7. ListInv' BY <1>2, <1>6, ListQuiet, Zenon DEF CompInv
<1>8. KeeperInv' BY <1>2, <1>6, Zenon DEF CompInv, PhaseInv, KeeperInv
<1>9. ASSUME NEW x \in Ops PROVE EarlyOk(x)'
  <2>1. CASE x = o
    <3>1. op[o].pc \notin {"idle", "post", "enq", "ctx", "add"}
      BY <1>1, <1>3, Zenon DEF CompInv, PhaseInv, EarlyOk
    <3>2. QED BY <1>2, <2>1, <3>1, Zenon DEF EarlyOk
  <2>2. CASE x # o BY <1>2, <1>5, <2>2, Zenon DEF CompInv, PhaseInv, EarlyOk, Linked
  <2>3. QED BY <2>1, <2>2, Zenon
<1>10. comp'[o] # 0 /\ \A x \in Ops : comp[x] # 0 => comp'[x] # 0 BY <1>3, <1>5
<1>11. ASSUME NEW x \in Ops, Linked(x)' PROVE DoneOk(x)'
  <2>1. DoneOk(x) BY <1>2, <1>11, Zenon DEF CompInv, DoneInv, Linked
  <2>2. Detached(HeadOf(x))' <=> Detached(HeadOf(x)) BY <1>2, Zenon DEF Detached
  <2>3. CASE x = o BY <1>2, <1>3, <1>4, <1>10, <2>2, <2>3, Zenon DEF DoneOk
  <2>4. CASE x # o BY <1>2, <1>5, <1>10, <2>1, <2>2, <2>4, Zenon DEF DoneOk
  <2>5. QED BY <2>3, <2>4, Zenon
<1>12. RunOk'
  <2>1. wk.pc = "run" => wk.o \in Ops BY <1>1, Zenon DEF CompInv, Types, PhaseInv, WorkerInv
  <2>2. wk.pc = "run" => wk.o # o BY <1>3, Zenon DEF CompInv, DoneInv, RunOk
  <2>3. QED BY <1>2, <1>5, <2>1, <2>2, Zenon DEF CompInv, DoneInv, RunOk, Linked
<1>13. WalkOk'
  <2>0. PICK c : c = next[o] BY Zenon
  <2>1. SUFFICES ASSUME c # None
                 PROVE  /\ Walking(HeadOf(c))' /\ prev[c] # None /\ comp'[c] = 0
                        /\ prev[c] \in Ops => comp'[prev[c]] # 0
    BY <1>2, <2>0, Zenon DEF WalkOk, Linked, Walking
  <2>2. c \in Ops BY <1>1, <2>0, <2>1, Zenon DEF Types
  <2>3. HeadOf(c) = HeadOf(o) /\ prev[c] = o
    BY <1>1, <1>3, <2>0, <2>1, Zenon DEF CompInv, ListInv, LinkOk
  <2>4. o # None BY <1>1, HeadFacts, Zenon
  <2>5. c # o BY <1>1, <1>3, <2>3, Zenon
  <2>6. comp[c] = 0 BY <1>1, <1>3, <2>2, <2>3, <2>4, Zenon DEF CompInv, DoneInv, DoneOk, Linked
  <2>7. Walking(HeadOf(c))' BY <1>2, <1>3, <2>3, Zenon DEF Walking
  <2>8. QED BY <1>5, <1>10, <2>2, <2>3, <2>4, <2>5, <2>6, <2>7, Zenon
<1>14. \A x \in Ops : comp'[x] <= 1
  <2>1. \A x \in Ops : comp[x] <= 1 BY Zenon DEF CompInv, DoneInv
  <2>2. QED BY <1>5, <2>1
<1>15. DoneInv' BY <1>11, <1>12, <1>13, <1>14, Zenon DEF DoneInv
<1>16. QED BY <1>7, <1>8, <1>9, <1>15, Zenon DEF CompInv, PhaseInv

\* The other steps of the keeper.
LEMMA OtherKeeperComp ==
  ASSUME CompInv, Types', WorkerInv', Break \/ EpBroken \/ WalkEnd \/ Release
  PROVE  CompInv'
<1>1. kp \in [pc : KpPcs, o : Ops \cup {None}] BY Zenon DEF CompInv, Types
<1>2. kp.o = None
  <2>1. SUFFICES ASSUME kp.o # None, ~WalkEnd PROVE FALSE BY Zenon DEF WalkEnd
  <2>2. Walking(HeadOf(kp.o)) BY <2>1, Zenon DEF CompInv, DoneInv, WalkOk
  <2>3. QED BY <2>1, <2>2, Zenon DEF Walking, Break, EpBroken, Release
<1>3. kp'.o = None BY <1>1, <1>2, Zenon DEF Break, EpBroken, WalkEnd, Release
<1>4. \A h \in Heads : Detached(h)' <=> Detached(h)
  BY <1>1, Zenon DEF Heads, Detached, Break, EpBroken, WalkEnd, Release
<1>5. ~chNew' BY Zenon DEF CompInv, PhaseInv, KeeperInv, Break, EpBroken, WalkEnd, Release
<1>6. UNCHANGED <<op, lists, ctxs, comp, wk>> BY Zenon DEF Break, EpBroken, WalkEnd, Release
<1>7. QED BY <1>2, <1>3, <1>4, <1>5, <1>6, KeeperQuietComp, Zenon

\* Initially nothing is posted.
LEMMA InitComp == Init => CompInv
<1> SUFFICES ASSUME Init PROVE CompInv BY Zenon
<1>1. Types BY InitTypes, Zenon
<1>2. \A o \in Ops : ~Linked(o) /\ comp[o] = 0 /\ o \notin ctxs /\ op[o].pc = "idle"
  BY Zenon DEF Init, Linked
<1>3. wk.pc = "idle" /\ wk.o = None /\ kp.pc = "idle" /\ kp.o = None BY Zenon DEF Init
<1>4. \A h : ~Detached(h) BY <1>3, Zenon DEF Detached
<1>5. ListInv BY <1>2, Zenon DEF Init, ListInv, HeadOk
<1>6. DoneInv
  <2>1. \A o \in Ops : comp[o] <= 1 BY <1>2
  <2>2. QED BY <1>2, <1>3, <2>1, Zenon DEF DoneInv, RunOk, WalkOk
<1>7. WorkerInv BY <1>3 DEF Init, WorkerInv
<1>8. KeeperInv BY <1>3, <1>4, Zenon DEF KeeperInv
<1>9. \A o \in Ops : EarlyOk(o) BY <1>2, Zenon DEF EarlyOk
<1>10. QED BY <1>1, <1>5, <1>6, <1>7, <1>8, <1>9, Zenon DEF CompInv, PhaseInv

\* Every step keeps the invariant.
LEMMA NextComp == ASSUME Prompt, CompInv, [Next]_vars PROVE CompInv'
<1>1. Types' /\ WorkerInv' BY NextTypes, Zenon DEF CompInv, PhaseInv
<1>2. ASSUME NEW o \in Ops, Poster(o) PROVE CompInv'
  BY <1>1, <1>2, QuietComp, AddComp, RemoveComp, Zenon DEF Poster
<1>3. CASE Worker BY <1>1, <1>3, WorkerComp, Zenon
<1>4. CASE Keeper BY <1>1, <1>4, DetachComp, WalkComp, OtherKeeperComp, Zenon DEF Keeper
<1>5. CASE Close \/ Peer \/ UNCHANGED vars
  <2>1. UNCHANGED <<chNew, op, next, prev, count, ctxs, comp, wk, kp>>
    BY <1>5, Zenon DEF Close, Peer, PeerReceive, PeerMarkFree, PeerDrop, vars, lists
  <2>2. \A h : Detached(h)' <=> Detached(h) BY <2>1, Zenon DEF Detached
  <2>3. ListInv' BY <2>1, <2>2, ListQuiet, Zenon DEF CompInv
  <2>4. KeeperInv' BY <2>1, <2>2, Zenon DEF CompInv, PhaseInv, KeeperInv
  <2>5. \A x \in Ops : EarlyOk(x)' BY <2>1, Zenon DEF CompInv, PhaseInv, EarlyOk, Linked
  <2>6. DoneInv'
    BY <2>1, Zenon DEF CompInv, DoneInv, DoneOk, RunOk, WalkOk, Walking, Linked, Detached
  <2>7. QED BY <1>1, <2>3, <2>4, <2>5, <2>6, Zenon DEF CompInv, PhaseInv
<1>6. QED BY <1>2, <1>3, <1>4, <1>5, Zenon DEF Next

-----------------------------------------------------------------------------
(* What the peer is given *)

\* The pool of send contexts is not exhausted when a send takes one.
Room == \A o \in Ops \ OneSided :
          op[o].pc = "ctx" => Cardinality({x \in ctxs : HeadOf(x) = HeadOf(o)}) < Pool

\* The queue, the peer and the buckets of the sends that have an event stay as they are.
LEMMA EventsStay ==
  ASSUME EventInv, UNCHANGED <<peerQ, peer, got>>,
         \A x \in Ops : op[x].sent => op'[x].sent,
         \A x \in Ops : \A b \in Buckets : op[x].sent /\ Owns(x, b) => Owns(x, b)',
         \A x \in Ops : OpOk(x)'
  PROVE  EventInv'
<1>1. ASSUME NEW e, EventOk(e) PROVE EventOk(e)'
  BY <1>1, Zenon DEF EventOk
<1>2. QueueOk'
  <2>1. ASSUME NEW i \in DOMAIN peerQ PROVE EventOk(peerQ[i])'
    <3>1. PICK e : e = peerQ[i] BY Zenon
    <3>2. EventOk(e)' BY <1>1, <2>1, <3>1, Zenon DEF EventInv, QueueOk
    <3>3. QED BY <3>1, <3>2, Zenon DEF EventOk, Owns
  <2>2. QED BY <2>1, Zenon DEF EventInv, QueueOk
<1>3. peer # <<>> => EventOk(peer)'
  <2>1. PICK e : e = peer BY Zenon
  <2>2. e # <<>> => EventOk(e)' BY <1>1, <2>1, Zenon DEF EventInv
  <2>3. QED BY <2>1, <2>2, Zenon DEF EventOk, Owns
<1>4. GotOk'
  <2>1. ASSUME NEW i \in DOMAIN got PROVE op'[got[i][1]].sent
    <3>1. got \in Seq(Ops \X Ops) BY Zenon DEF EventInv
    <3>2. got[i] \in Ops \X Ops BY <2>1, <3>1
    <3>3. got[i][1] \in Ops BY <3>2, Zenon
    <3>4. QED BY <2>1, <3>3, Zenon DEF EventInv, GotOk
  <2>2. QED BY <2>1, Zenon DEF EventInv, GotOk
<1>5. QED BY <1>2, <1>3, <1>4, Zenon DEF EventInv

\* A thread goes on and its bucket and its event, if it has any, stay as they are.
LEMMA PosterStays ==
  ASSUME EventInv, UNCHANGED <<peerQ, peer, got, occ, content>>, NEW o \in Ops,
         \A x \in Ops : x # o => op'[x] = op[x],
         op'[o].buck = op[o].buck, op'[o].sent = op[o].sent, OpOk(o)'
  PROVE  EventInv'
<1>1. \A x \in Ops : op[x].sent => op'[x].sent BY Zenon
<1>2. \A x \in Ops : op'[x].buck = op[x].buck BY Zenon
<1>3. \A x \in Ops : \A b \in Buckets : op[x].sent /\ Owns(x, b) => Owns(x, b)'
  BY <1>2, Zenon DEF Owns
<1>4. ASSUME NEW x \in Ops, x # o PROVE OpOk(x)'
  <2>1. op'[x] = op[x] /\ OpOk(x) BY <1>4, Zenon DEF EventInv
  <2>2. QED BY <2>1, Zenon DEF OpOk, Holds, Owns
<1>5. \A x \in Ops : OpOk(x)' BY <1>4, Zenon
<1>6. QED BY <1>1, <1>3, <1>5, EventsStay, Zenon

\* A send occupies a free bucket: no send or event owns it.
LEMMA OccupyEvents == ASSUME Types, EventInv, NEW o \in Ops, Occupy(o) PROVE EventInv'
<1> USE PcFacts
<1>1. op \in [Ops -> OpRec] /\ content \in [Buckets -> Ops \cup {None}] BY Zenon DEF Types
<1>2. \A x \in Ops : x # o => op'[x] = op[x] BY PosterMoves, Zenon DEF Poster
<1>3. OpOk(o) /\ ~op[o].sent /\ op[o].pc = "idle"
  <2>1. OpOk(o) /\ op[o].pc = "idle" BY Zenon DEF EventInv, Occupy, At
  <2>2. QED BY <2>1, Zenon DEF OpOk
<1>4. UNCHANGED <<peerQ, peer, got>> BY Zenon DEF Occupy
<1>5. CASE UNCHANGED <<occ, content>> /\ (Go(o, "failed") \/ (o \in OneSided /\ Go(o, "post")))
  <2>1. op'[o].buck = op[o].buck /\ op'[o].sent = op[o].sent BY <1>1, <1>5, GoFacts, Zenon
  <2>2. op'[o].pc = "failed" \/ (o \in OneSided /\ op'[o].pc = "post")
    BY <1>1, <1>5, GoFacts, Zenon
  <2>3. OpOk(o)' BY <1>3, <2>1, <2>2, Zenon DEF OpOk, Holds
  <2>4. QED BY <1>2, <1>4, <1>5, <2>1, <2>3, PosterStays, Zenon
<1>6. ASSUME NEW b \in Buckets \ occ, o \notin OneSided, occ' = occ \cup {b},
             content' = [content EXCEPT ![b] = o],
             op' = [op EXCEPT ![o].pc = "post", ![o].buck = b]
      PROVE  EventInv'
  <2>1. op'[o].pc = "post" /\ op'[o].buck = b /\ op'[o].sent = op[o].sent
    BY <1>1, <1>6, Zenon DEF OpRec
  <2>2. content'[b] = o /\ \A k \in occ : k \in Buckets => content'[k] = content[k]
    BY <1>1, <1>6, Zenon
  <2>3. \A x \in Ops : op[x].sent => op'[x].sent BY <1>2, <1>3, Zenon
  <2>4. \A x \in Ops : \A k \in Buckets : x # o /\ Owns(x, k) => Owns(x, k)'
    BY <1>2, <1>6, <2>2, Zenon DEF Owns
  <2>5. Owns(o, b)' BY <1>6, <2>1, <2>2, Zenon DEF Owns
  <2>6. OpOk(o)' BY <1>3, <1>6, <2>1, <2>5, Zenon DEF OpOk, Owns
  <2>7. ASSUME NEW x \in Ops, x # o PROVE OpOk(x)'
    <3>1. op'[x] = op[x] /\ OpOk(x) BY <1>2, <2>7, Zenon DEF EventInv
    <3>2. PICK k : k = op[x].buck BY Zenon
    <3>3. Owns(x, k) => k \in Buckets BY Zenon DEF Owns, Types
    <3>4. Owns(x, k) => Owns(x, k)' BY <2>4, <2>7, <3>3, Zenon
    <3>5. Holds(x)' <=> Holds(x) BY <3>1, Zenon DEF Holds
    <3>6. Holds(x)' => Owns(x, op[x].buck)' BY <3>1, <3>2, <3>4, <3>5, Zenon DEF OpOk, Owns
    <3>7. QED BY <3>1, <3>6 DEF OpOk
  <2>8. \A x \in Ops : \A k \in Buckets : op[x].sent /\ Owns(x, k) => Owns(x, k)'
    BY <1>3, <2>4, Zenon
  <2>9. QED BY <1>4, <2>3, <2>6, <2>7, <2>8, EventsStay, Zenon
<1>7. QED BY <1>5, <1>6, Zenon DEF Occupy

\* A send that goes on to its event has its bucket; a failure before that keeps it.
LEMMA PostEvents == ASSUME Types, EventInv, NEW o \in Ops, Post(o) PROVE EventInv'
<1> USE PcFacts
<1>1. op \in [Ops -> OpRec] BY Zenon DEF Types
<1>2. \A x \in Ops : x # o => op'[x] = op[x] BY PosterMoves, Zenon DEF Poster
<1>3. OpOk(o) /\ op[o].pc = "post" BY Zenon DEF EventInv, Post, At
<1>4. \A p \in Pcs : Go(o, p) => op'[o].pc = p /\ op'[o].buck = op[o].buck /\ op'[o].sent = op[o].sent
  BY <1>1, GoFacts, Zenon
<1>5. op'[o].buck = op[o].buck /\ op'[o].sent = op[o].sent BY <1>4, Zenon DEF Post
<1>6. op'[o].pc \in {"free", IF o \in OneSided THEN "ctx" ELSE "enq"} BY <1>4, Zenon DEF Post
<1>7. UNCHANGED <<peerQ, peer, got, occ, content>> BY Zenon DEF Post
<1>8. ~op[o].sent /\ (o \notin OneSided => Owns(o, op[o].buck)) BY <1>3, Zenon DEF OpOk, Holds
<1>9. Owns(o, op[o].buck) => Owns(o, op[o].buck)' BY <1>5, <1>7, Zenon DEF Owns
<1>10. OpOk(o)' BY <1>3, <1>5, <1>6, <1>8, <1>9, Zenon DEF OpOk, Holds
<1>11. QED BY <1>2, <1>5, <1>7, <1>10, PosterStays, Zenon

\* The event of a send is the first: its bucket passes to it.
LEMMA EnqueueEvents == ASSUME Types, EventInv, NEW o \in Ops, Enqueue(o) PROVE EventInv'
<1> USE PcFacts
<1>1. op \in [Ops -> OpRec] /\ peerQ \in Seq(Ops \X (Buckets \cup {None})) BY Zenon DEF Types
<1>2. \A x \in Ops : x # o => op'[x] = op[x] BY PosterMoves, Zenon DEF Poster
<1>3. OpOk(o) /\ op[o].pc = "enq" BY Zenon DEF EventInv, Enqueue, At
<1>4. ~op[o].sent /\ o \notin OneSided /\ Owns(o, op[o].buck) BY <1>3, Zenon DEF OpOk, Holds
<1>5. UNCHANGED <<peer, got, occ, content>> BY Zenon DEF Enqueue
<1>6. CASE Again(o) /\ UNCHANGED peerQ
  <2>1. \A p \in Pcs : Go(o, p) => op'[o].pc = p /\ op'[o].buck = op[o].buck /\ op'[o].sent = op[o].sent
    BY <1>1, GoFacts, Zenon
  <2>2. op'[o].buck = op[o].buck /\ op'[o].sent = op[o].sent BY <1>6, <2>1, Zenon DEF Again
  <2>3. op'[o].pc \in {"free", "post"} BY <1>6, <2>1, Zenon DEF Again
  <2>4. Owns(o, op[o].buck)' BY <1>4, <1>5, <2>2, Zenon DEF Owns
  <2>5. OpOk(o)' BY <1>4, <2>2, <2>3, <2>4, Zenon DEF OpOk, Holds
  <2>6. QED BY <1>2, <1>5, <1>6, <2>2, <2>5, PosterStays, Zenon
<1>7. CASE /\ peerQ' = Append(peerQ, <<o, op[o].buck>>)
           /\ op' = [op EXCEPT ![o].pc = "ctx", ![o].sent = TRUE]
  <2>1. PICK e : e = <<o, op[o].buck>> BY Zenon
  <2>2. op'[o].pc = "ctx" /\ op'[o].buck = op[o].buck /\ op'[o].sent = TRUE
    BY <1>1, <1>7, Zenon DEF OpRec
  <2>3. e \in Ops \X (Buckets \cup {None}) /\ e[1] = o /\ e[2] = op[o].buck
    BY <1>1, <2>1, Zenon DEF OpRec
  <2>4. \A x \in Ops : op'[x].buck = op[x].buck /\ (op[x].sent => op'[x].sent)
    BY <1>2, <2>2, Zenon
  <2>5. \A x \in Ops : \A b : Owns(x, b) => Owns(x, b)' BY <1>5, <2>4, Zenon DEF Owns
  <2>6. OpOk(o)' BY <1>4, <2>2, Zenon DEF OpOk, Holds
  <2>7. ASSUME NEW x \in Ops, x # o PROVE OpOk(x)'
    <3>1. op'[x] = op[x] /\ OpOk(x) BY <1>2, <2>7, Zenon DEF EventInv
    <3>2. QED BY <1>5, <3>1 DEF OpOk, Holds, Owns
  <2>8. ASSUME NEW d, EventOk(d) PROVE EventOk(d)' BY <2>4, <2>5, <2>8, Zenon DEF EventOk
  <2>9. EventOk(e)'
    <3>1. op[o].buck \in Buckets BY <1>4, Zenon DEF Owns, Types
    <3>2. Owns(o, op[o].buck)' BY <1>4, <1>5, <2>2, Zenon DEF Owns
    <3>3. QED BY <2>2, <2>3, <3>1, <3>2, Zenon DEF EventOk, Owns
  <2>10. /\ \A i \in DOMAIN peerQ : peerQ[i][1] # o
         /\ \A i \in DOMAIN got : got[i][1] # o
         /\ peer # <<>> => peer[1] # o
    BY <1>4, Zenon DEF EventInv, QueueOk, GotOk, EventOk
  <2>11. \A i \in DOMAIN peerQ' :
           \/ i \in DOMAIN peerQ /\ peerQ'[i] = peerQ[i]
           \/ i = Len(peerQ) + 1 /\ peerQ'[i] = e
    <3>1. \A i \in DOMAIN Append(peerQ, e) :
            \/ i \in DOMAIN peerQ /\ Append(peerQ, e)[i] = peerQ[i]
            \/ i \notin DOMAIN peerQ /\ i = Len(peerQ) + 1 /\ Append(peerQ, e)[i] = e
      BY ONLY <1>1, <2>3
    <3>2. peerQ' = Append(peerQ, e) BY <1>7, <2>1, Zenon
    <3>3. QED BY <3>1, <3>2, Zenon
  <2>12. ASSUME NEW i \in DOMAIN peerQ'
         PROVE  /\ EventOk(peerQ[i])'
                /\ \A j \in DOMAIN peerQ' : peerQ'[j][1] = peerQ'[i][1] => j = i
                /\ \A j \in DOMAIN got : got[j][1] # peerQ'[i][1]
                /\ peer # <<>> => peer[1] # peerQ'[i][1]
    <3>1. CASE i \in DOMAIN peerQ /\ peerQ'[i] = peerQ[i]
      <4>1. PICK d : d = peerQ[i] BY Zenon
      <4>2. EventOk(d)' BY <2>8, <3>1, <4>1, Zenon DEF EventInv, QueueOk
      <4>3. \A j \in DOMAIN peerQ' : peerQ'[j][1] = peerQ'[i][1] => j = i
        BY <2>3, <2>10, <2>11, <3>1, Zenon DEF EventInv, QueueOk
      <4>4. EventOk(peerQ[i])' BY <3>1, <4>1, <4>2, Zenon DEF EventOk, Owns
      <4>5. QED BY <3>1, <4>3, <4>4, Zenon DEF EventInv, QueueOk
    <3>2. CASE i = Len(peerQ) + 1 /\ peerQ'[i] = e
      <4>1. EventOk(peerQ[i])' BY <2>9, <3>2, Zenon DEF EventOk, Owns
      <4>2. \A j \in DOMAIN peerQ' : peerQ'[j][1] = peerQ'[i][1] => j = i
        BY <2>3, <2>10, <2>11, <3>2, Zenon
      <4>3. QED BY <2>3, <2>10, <3>2, <4>1, <4>2, Zenon
    <3>3. QED BY <2>11, <3>1, <3>2, Zenon
  <2>13. QueueOk' BY <1>5, <2>12, Zenon DEF QueueOk
  <2>14. peer' # <<>> => EventOk(peer)'
    <3>1. PICK d : d = peer BY Zenon
    <3>2. peer # <<>> => EventOk(d)' BY <2>8, <3>1, Zenon DEF EventInv
    <3>3. QED BY <1>5, <3>1, <3>2, Zenon DEF EventOk, Owns
  <2>15. got' \in Seq(Ops \X Ops) /\ GotOk'
    <3>1. ASSUME NEW i \in DOMAIN got PROVE op'[got[i][1]].sent
      <4>1. got \in Seq(Ops \X Ops) BY Zenon DEF EventInv
      <4>2. got[i] \in Ops \X Ops BY <3>1, <4>1
      <4>3. got[i][1] \in Ops BY <4>2, Zenon
      <4>4. QED BY <2>4, <4>3, Zenon DEF EventInv, GotOk
    <3>2. QED BY <1>5, <3>1, Zenon DEF EventInv, GotOk
  <2>16. QED BY <2>6, <2>7, <2>13, <2>14, <2>15, Zenon DEF EventInv
<1>8. QED BY <1>6, <1>7, Zenon DEF Enqueue

\* After its event a send has its context at once, when the pool has one; when it fails later
\* its error is returned although the peer has the event.
LEMMA LaterEvents ==
  ASSUME Types, Room, EventInv, Refused' = {}, NEW o \in Ops,
         GetCtx(o) \/ Add(o) \/ Local(o) \/ Remove(o)
  PROVE  EventInv'
<1> USE PcFacts
<1>1. op \in [Ops -> OpRec] BY Zenon DEF Types
<1>2. \A x \in Ops : x # o => op'[x] = op[x] BY PosterMoves, Zenon DEF Poster
<1>3. OpOk(o) /\ op[o].pc \in {"ctx", "add", "local", "remove"}
  <2>1. op[o].pc \in {"ctx", "add", "local", "remove"} BY Zenon DEF GetCtx, Add, Local, Remove, At
  <2>2. QED BY <2>1, Zenon DEF EventInv
<1>4. \A p \in Pcs : Go(o, p) => op'[o].pc = p /\ op'[o].buck = op[o].buck /\ op'[o].sent = op[o].sent
  BY <1>1, GoFacts, Zenon
<1>5. op'[o].buck = op[o].buck /\ op'[o].sent = op[o].sent
  <2>1. CASE GetCtx(o) BY <1>4, <2>1, Zenon DEF GetCtx, Again
  <2>2. CASE Add(o) \/ Remove(o) BY <1>4, <2>2, Zenon DEF Add, Remove
  <2>3. CASE Local(o) BY <1>4, <2>3, Zenon DEF Local
  <2>4. QED BY <2>1, <2>2, <2>3, Zenon
<1>6. UNCHANGED <<peerQ, peer, got, occ, content>> BY Zenon DEF GetCtx, Add, Local, Remove
<1>7. op'[o].pc \in {"add", "local", "posted", "remove", "free", "post"}
  <2>1. CASE GetCtx(o) BY <1>4, <2>1, Zenon DEF GetCtx, Again
  <2>2. CASE Add(o) \/ Remove(o) BY <1>4, <2>2, Zenon DEF Add, Remove
  <2>3. CASE Local(o) BY <1>4, <2>3, Zenon DEF Local
  <2>4. QED BY <2>1, <2>2, <2>3, Zenon
<1>8. CASE o \in OneSided
  <2>1. op[o].buck = None /\ ~op[o].sent BY <1>3, <1>8, Zenon DEF OpOk
  <2>2. OpOk(o)' BY <1>5, <1>7, <1>8, <2>1, Zenon DEF OpOk, Holds
  <2>3. QED BY <1>2, <1>5, <1>6, <2>2, PosterStays, Zenon
<1>9. CASE o \notin OneSided
  <2>1. op'[o].sent BY <1>3, <1>5, <1>9, Zenon DEF OpOk
  <2>2. op'[o].pc # "free" BY <2>1, Zenon DEF Refused
  <2>3. op'[o].pc # "post"
    <3>1. CASE GetCtx(o)
      <4>1. Go(o, "add") BY <1>9, <3>1, Zenon DEF GetCtx, Room, At
      <4>2. QED BY <1>4, <4>1, Zenon
    <3>2. CASE Add(o) \/ Remove(o) BY <1>4, <3>2, Zenon DEF Add, Remove
    <3>3. CASE Local(o) BY <1>4, <3>3, Zenon DEF Local
    <3>4. QED BY <3>1, <3>2, <3>3, Zenon
  <2>4. OpOk(o)' BY <1>7, <1>9, <2>1, <2>2, <2>3, Zenon DEF OpOk, Holds
  <2>5. QED BY <1>2, <1>5, <1>6, <2>4, PosterStays, Zenon
<1>10. QED BY <1>8, <1>9, Zenon

\* A send that fails before its event frees the bucket that it owns.
LEMMA FreeEvents ==
  ASSUME Types, EventInv, Refused = {}, NEW o \in Ops, Free(o)
  PROVE  EventInv'
<1>1. op \in [Ops -> OpRec] /\ occ \subseteq Buckets BY Zenon DEF Types
<1>2. \A x \in Ops : x # o => op'[x] = op[x] BY PosterMoves, Zenon DEF Poster
<1>3. PICK k : k = op[o].buck BY Zenon
<1>4. OpOk(o) /\ op[o].pc = "free" /\ ~op[o].sent
  <2>1. OpOk(o) /\ op[o].pc = "free" BY Zenon DEF EventInv, Free, At
  <2>2. QED BY <2>1, Zenon DEF Refused
<1>5. op'[o].pc = "failed" /\ op'[o].buck = op[o].buck /\ op'[o].sent = op[o].sent
  BY <1>1, GoFacts, PcFacts, Zenon DEF Free
<1>6. occ' = occ \ {k} /\ UNCHANGED <<content, peerQ, peer, got>> BY <1>3, Zenon DEF Free
<1>7. \A x \in Ops : \A b : x # o /\ Owns(x, b) => Owns(x, b)'
  <2>1. SUFFICES ASSUME NEW x \in Ops, NEW b, x # o, Owns(x, b) PROVE b # k
    BY <1>2, <1>6, Zenon DEF Owns
  <2>2. CASE o \in OneSided
    <3>1. k = None BY <1>3, <1>4, <2>2, Zenon DEF OpOk
    <3>2. b \in Buckets BY <1>1, <2>1, Zenon DEF Owns
    <3>3. QED BY <3>1, <3>2, OpsAssumption, Zenon
  <2>3. CASE o \notin OneSided
    <3>1. Holds(o) BY <1>4, <2>3, Zenon DEF Holds
    <3>2. Owns(o, k) BY <1>3, <1>4, <3>1, Zenon DEF OpOk
    <3>3. QED BY <2>1, <3>2, Zenon DEF Owns
  <2>4. QED BY <2>2, <2>3, Zenon
<1>8. OpOk(o)' BY <1>4, <1>5, Zenon DEF OpOk, Holds
<1>9. ASSUME NEW x \in Ops, x # o PROVE OpOk(x)'
  <2>1. op'[x] = op[x] /\ OpOk(x) BY <1>2, <1>9, Zenon DEF EventInv
  <2>2. PICK b : b = op[x].buck BY Zenon
  <2>3. Holds(x)' <=> Holds(x) BY <2>1, Zenon DEF Holds
  <2>4. Owns(x, b) => Owns(x, b)' BY <1>7, <1>9, Zenon
  <2>5. Holds(x)' => Owns(x, op[x].buck)' BY <2>1, <2>2, <2>3, <2>4, Zenon DEF OpOk, Owns
  <2>6. QED BY <2>1, <2>5 DEF OpOk
<1>10. \A x \in Ops : op[x].sent => op'[x].sent BY <1>2, <1>5, Zenon
<1>11. \A x \in Ops : \A b \in Buckets : op[x].sent /\ Owns(x, b) => Owns(x, b)'
  BY <1>4, <1>7, Zenon
<1>12. QED BY <1>6, <1>8, <1>9, <1>10, <1>11, EventsStay, Zenon

\* The events that are left when the first is taken from the queue.
LEMMA QueueTail ==
  ASSUME Types, EventInv, peerQ # <<>>, peerQ' = Tail(peerQ), UNCHANGED <<op, occ, content>>
  PROVE  /\ 1 \in DOMAIN peerQ /\ Head(peerQ) = peerQ[1] /\ EventOk(Head(peerQ))
         /\ \A i \in DOMAIN peerQ' :
              /\ \E k \in DOMAIN peerQ : k # 1 /\ peerQ'[i] = peerQ[k]
              /\ EventOk(peerQ[i])'
              /\ \A j \in DOMAIN peerQ' : peerQ'[j][1] = peerQ'[i][1] => j = i
              /\ peerQ'[i][1] # Head(peerQ)[1]
<1>1. peerQ \in Seq(Ops \X (Buckets \cup {None})) BY Zenon DEF Types
<1>2. /\ Head(peerQ) = peerQ[1] /\ 1 \in DOMAIN peerQ
      /\ \A i \in DOMAIN Tail(peerQ) :
           i + 1 \in DOMAIN peerQ /\ i + 1 # 1 /\ Tail(peerQ)[i] = peerQ[i + 1] /\ i \in Int
  BY <1>1
<1>3. EventOk(Head(peerQ)) BY <1>2, Zenon DEF EventInv, QueueOk
<1>4. ASSUME NEW i \in DOMAIN peerQ'
      PROVE  /\ i + 1 \in DOMAIN peerQ /\ i + 1 # 1 /\ peerQ'[i] = peerQ[i + 1] /\ i \in Int
             /\ EventOk(peerQ[i + 1])
  <2>1. i + 1 \in DOMAIN peerQ /\ i + 1 # 1 /\ peerQ'[i] = peerQ[i + 1] /\ i \in Int BY <1>2, <1>4, Zenon
  <2>2. QED BY <2>1, Zenon DEF EventInv, QueueOk
<1>5. ASSUME NEW i \in DOMAIN peerQ', NEW j \in DOMAIN peerQ', peerQ'[j][1] = peerQ'[i][1]
      PROVE  j = i
  <2>1. j + 1 = i + 1
    <3>1. /\ i + 1 \in DOMAIN peerQ /\ peerQ'[i] = peerQ[i + 1]
          /\ j + 1 \in DOMAIN peerQ /\ peerQ'[j] = peerQ[j + 1]
      BY <1>4, <1>5, Zenon
    <3>2. peerQ[j + 1][1] = peerQ[i + 1][1] BY <1>5, <3>1, Zenon
    <3>3. QED BY <3>1, <3>2, Zenon DEF EventInv, QueueOk
  <2>2. i \in Int /\ j \in Int BY <1>4, <1>5, Zenon
  <2>3. QED BY ONLY <2>1, <2>2
<1>6. ASSUME NEW i \in DOMAIN peerQ' PROVE EventOk(peerQ[i])'
  <2>1. PICK e : e = peerQ[i + 1] BY Zenon
  <2>2. EventOk(e) /\ peerQ'[i] = e BY <1>4, <1>6, <2>1, Zenon
  <2>3. QED BY <2>2, Zenon DEF EventOk, Owns
<1>7. ASSUME NEW i \in DOMAIN peerQ' PROVE peerQ'[i][1] # Head(peerQ)[1]
  BY <1>2, <1>4, Zenon DEF EventInv, QueueOk
<1>8. QED BY <1>2, <1>3, <1>4, <1>5, <1>6, <1>7, Zenon

\* The peer gives its handler the message of the event.
LEMMA ReceiveEvents == ASSUME Types, EventInv, PeerReceive PROVE EventInv'
<1>1. /\ peerQ # <<>> /\ peerQ' = Tail(peerQ) /\ UNCHANGED <<op, occ, content>>
      /\ peer' = Head(peerQ)
  BY Zenon DEF PeerReceive
<1>2. PICK h : h = Head(peerQ) BY Zenon
<1>3. /\ 1 \in DOMAIN peerQ /\ h = peerQ[1] /\ EventOk(h)
      /\ \A i \in DOMAIN peerQ' :
           /\ \E k \in DOMAIN peerQ : k # 1 /\ peerQ'[i] = peerQ[k]
           /\ EventOk(peerQ[i])'
           /\ \A j \in DOMAIN peerQ' : peerQ'[j][1] = peerQ'[i][1] => j = i
           /\ peerQ'[i][1] # h[1]
  BY <1>1, <1>2, QueueTail, Zenon
<1>4. h[1] \in Ops /\ content[h[2]] = h[1] /\ op[h[1]].sent /\ \A i \in DOMAIN got : got[i][1] # h[1]
  BY <1>3, Zenon DEF EventOk, Owns, EventInv, QueueOk
<1>5. \A x \in Ops : OpOk(x)' BY <1>1, Zenon DEF EventInv, OpOk, Holds, Owns
<1>6. peer' # <<>> => EventOk(peer)' BY <1>1, <1>2, <1>3, Zenon DEF EventOk, Owns
<1>7. got \in Seq(Ops \X Ops) /\ GotOk BY Zenon DEF EventInv
<1>8. CASE got' = got
  <2>1. \A i \in DOMAIN peerQ' : \A j \in DOMAIN got : got[j][1] # peerQ'[i][1]
    <3>1. SUFFICES ASSUME NEW i \in DOMAIN peerQ', NEW j \in DOMAIN got
                   PROVE  got[j][1] # peerQ'[i][1]
      BY Zenon
    <3>2. PICK k \in DOMAIN peerQ : peerQ'[i] = peerQ[k] BY <1>3, <3>1, Zenon
    <3>3. QED BY <3>1, <3>2, Zenon DEF EventInv, QueueOk
  <2>2. QueueOk' BY <1>1, <1>2, <1>3, <1>8, <2>1, Zenon DEF QueueOk
  <2>3. GotOk' BY <1>1, <1>7, <1>8, Zenon DEF GotOk
  <2>4. QED BY <1>5, <1>6, <1>7, <1>8, <2>2, <2>3, Zenon DEF EventInv
<1>9. CASE got' = Append(got, <<h[1], content[h[2]]>>)
  <2>1. PICK g : g = <<h[1], content[h[2]]>> BY Zenon
  <2>2. g \in Ops \X Ops /\ g[1] = h[1] /\ g[2] = h[1] BY <1>4, <2>1, Zenon
  <2>3. /\ got' \in Seq(Ops \X Ops)
        /\ \A i \in DOMAIN got' :
             \/ i \in DOMAIN got /\ got'[i] = got[i]
             \/ i = Len(got) + 1 /\ got'[i] = g
    <3>1. /\ Append(got, g) \in Seq(Ops \X Ops)
          /\ \A i \in DOMAIN Append(got, g) :
               \/ i \in DOMAIN got /\ Append(got, g)[i] = got[i]
               \/ i \notin DOMAIN got /\ i = Len(got) + 1 /\ Append(got, g)[i] = g
      BY <1>7, <2>2, AppendFacts, Zenon
    <3>2. got' = Append(got, g) BY <1>9, <2>1, Zenon
    <3>3. QED BY <3>1, <3>2, Zenon
  <2>4. ASSUME NEW i \in DOMAIN peerQ', NEW j \in DOMAIN got' PROVE got'[j][1] # peerQ'[i][1]
    <3>1. PICK k \in DOMAIN peerQ : k # 1 /\ peerQ'[i] = peerQ[k] BY <1>3, <2>4, Zenon
    <3>2. CASE j \in DOMAIN got /\ got'[j] = got[j]
      BY <3>1, <3>2, Zenon DEF EventInv, QueueOk
    <3>3. CASE got'[j] = g BY <1>3, <2>2, <2>4, <3>3, Zenon
    <3>4. QED BY <2>3, <2>4, <3>2, <3>3, Zenon
  <2>5. QueueOk' BY <1>1, <1>2, <1>3, <2>4, Zenon DEF QueueOk
  <2>6. ASSUME NEW i \in DOMAIN got'
        PROVE  /\ got'[i][1] = got'[i][2] /\ op'[got'[i][1]].sent
               /\ \A j \in DOMAIN got' : got'[j][1] = got'[i][1] => j = i
    <3>1. CASE i \in DOMAIN got /\ got'[i] = got[i]
      <4>1. got[i][1] = got[i][2] /\ op[got[i][1]].sent BY <1>7, <3>1, Zenon DEF GotOk
      <4>2. ASSUME NEW j \in DOMAIN got', got'[j][1] = got'[i][1] PROVE j = i
        <5>1. got'[j] # g BY <1>4, <2>2, <3>1, <4>2, Zenon
        <5>2. j \in DOMAIN got /\ got'[j] = got[j] BY <2>3, <4>2, <5>1, Zenon
        <5>3. got[j][1] = got[i][1] BY <3>1, <4>2, <5>2, Zenon
        <5>4. QED BY <1>7, <3>1, <5>2, <5>3, Zenon DEF GotOk
      <4>3. QED BY <1>1, <3>1, <4>1, <4>2, Zenon
    <3>2. CASE i = Len(got) + 1 /\ got'[i] = g
      <4>1. \A j \in DOMAIN got' : got'[j][1] = g[1] => j = Len(got) + 1
        BY <1>4, <2>2, <2>3, Zenon
      <4>2. QED BY <1>1, <1>4, <2>2, <3>2, <4>1, Zenon
    <3>3. QED BY <2>3, <2>6, <3>1, <3>2, Zenon
  <2>7. GotOk' BY <2>6, Zenon DEF GotOk
  <2>8. QED BY <1>5, <1>6, <2>3, <2>5, <2>7, Zenon DEF EventInv
<1>10. QED BY <1>2, <1>8, <1>9, Zenon DEF PeerReceive

\* The peer frees the bucket of the event it is done with, or drops an event.
LEMMA PeerEvents == ASSUME Types, EventInv, PeerMarkFree \/ PeerDrop PROVE EventInv'
<1>1. CASE PeerMarkFree
  <2>1. PICK e : e = peer BY Zenon
  <2>2. EventOk(e) /\ peer # <<>> BY <1>1, <2>1, Zenon DEF PeerMarkFree, EventInv
  <2>3. occ' = occ \ {e[2]} /\ peer' = <<>> /\ UNCHANGED <<content, op, peerQ, got>>
    BY <1>1, <2>1, Zenon DEF PeerMarkFree
  <2>4. \A x \in Ops : \A b : x # e[1] /\ Owns(x, b) => Owns(x, b)'
    BY <2>2, <2>3, Zenon DEF Owns, EventOk
  <2>5. ASSUME NEW x \in Ops PROVE OpOk(x)'
    <3>1. op'[x] = op[x] /\ OpOk(x) BY <2>3, Zenon DEF EventInv
    <3>2. PICK b : b = op[x].buck BY Zenon
    <3>3. Holds(x)' <=> Holds(x) BY <3>1, Zenon DEF Holds
    <3>4. Holds(x) => x # e[1] BY <2>2, Zenon DEF Holds, EventOk
    <3>5. Holds(x)' => Owns(x, b)' BY <2>4, <3>1, <3>2, <3>3, <3>4, Zenon DEF OpOk
    <3>6. Holds(x)' => Owns(x, op[x].buck)' BY <3>1, <3>2, <3>5, Zenon DEF Owns
    <3>7. QED BY <3>1, <3>6 DEF OpOk
  <2>6. ASSUME NEW i \in DOMAIN peerQ PROVE EventOk(peerQ[i])'
    <3>1. PICK d : d = peerQ[i] BY Zenon
    <3>2. EventOk(d) /\ d[1] # e[1] BY <2>1, <2>2, <2>6, <3>1, Zenon DEF EventInv, QueueOk
    <3>3. EventOk(d)' BY <2>3, <2>4, <3>2, Zenon DEF EventOk
    <3>4. QED BY <2>3, <3>1, <3>3, Zenon DEF EventOk, Owns
  <2>7. QueueOk' BY <2>3, <2>6, Zenon DEF EventInv, QueueOk
  <2>8. GotOk' BY <2>3, Zenon DEF EventInv, GotOk
  <2>9. QED BY <2>3, <2>5, <2>7, <2>8, Zenon DEF EventInv
<1>2. CASE PeerDrop
  <2>1. /\ peerQ # <<>> /\ peerQ' = Tail(peerQ) /\ UNCHANGED <<op, occ, content, peer, got>>
        /\ peer = <<>>
    BY <1>2, Zenon DEF PeerDrop
  <2>2. \A i \in DOMAIN peerQ' :
          /\ \E k \in DOMAIN peerQ : k # 1 /\ peerQ'[i] = peerQ[k]
          /\ EventOk(peerQ[i])'
          /\ \A j \in DOMAIN peerQ' : peerQ'[j][1] = peerQ'[i][1] => j = i
    BY <2>1, QueueTail, Zenon
  <2>3. \A i \in DOMAIN peerQ' : \A j \in DOMAIN got : got[j][1] # peerQ'[i][1]
    <3>1. SUFFICES ASSUME NEW i \in DOMAIN peerQ', NEW j \in DOMAIN got
                   PROVE  got[j][1] # peerQ'[i][1]
      BY Zenon
    <3>2. PICK k \in DOMAIN peerQ : peerQ'[i] = peerQ[k] BY <2>2, <3>1, Zenon
    <3>3. QED BY <3>1, <3>2, Zenon DEF EventInv, QueueOk
  <2>4. QueueOk' BY <2>1, <2>2, <2>3, Zenon DEF QueueOk
  <2>5. \A x \in Ops : OpOk(x)' BY <2>1, Zenon DEF EventInv, OpOk, Holds, Owns
  <2>6. GotOk' BY <2>1, Zenon DEF EventInv, GotOk
  <2>7. QED BY <2>1, <2>4, <2>5, <2>6, Zenon DEF EventInv
<1>3. QED BY <1>1, <1>2, Zenon

\* A send that was refused stays so.
LEMMA RefusedStays == ASSUME Types, [Next]_vars, Refused' = {} PROVE Refused = {}
<1>1. op \in [Ops -> OpRec] BY Zenon DEF Types
<1>2. SUFFICES ASSUME NEW o \in Ops, op[o].sent, op[o].pc \in {"free", "failed"}
               PROVE  op'[o].sent /\ op'[o].pc \in {"free", "failed"}
  BY Zenon DEF Refused
<1>3. ASSUME NEW x \in Ops, Poster(x) PROVE op'[o].sent /\ op'[o].pc \in {"free", "failed"}
  <2>1. CASE x # o
    <3>1. op'[o] = op[o] BY <1>3, <2>1, PosterMoves, Zenon
    <3>2. QED BY <1>2, <3>1, Zenon
  <2>2. CASE x = o
    <3>1. Go(o, "failed")
      BY <1>2, <1>3, <2>2, Zenon
        DEF Poster, Occupy, Post, Enqueue, GetCtx, Add, Local, Remove, Free, At
    <3>2. op'[o].pc = "failed" /\ op'[o].sent = op[o].sent BY <1>1, <3>1, GoFacts, PcFacts, Zenon
    <3>3. QED BY <1>2, <3>2, Zenon
  <2>3. QED BY <2>1, <2>2, Zenon
<1>4. CASE Worker \/ Close \/ Keeper \/ Peer \/ UNCHANGED vars
  <2>1. op' = op
    BY <1>4, Zenon DEF Worker, WorkerTake, WorkerRemove, WorkerRun, Close, Keeper, Break, EpBroken,
                       Detach, Walk, WalkEnd, Release, Peer, PeerReceive, PeerMarkFree, PeerDrop, vars
  <2>2. QED BY <1>2, <2>1, Zenon
<1>5. QED BY <1>3, <1>4, Zenon DEF Next

\* Every step keeps the invariant.
LEMMA NextEvents == ASSUME Types, Room, IntactInv, [Next]_vars PROVE IntactInv'
<1> SUFFICES ASSUME Refused' = {} PROVE EventInv' BY Zenon DEF IntactInv
<1>1. Refused = {} BY RefusedStays, Zenon
<1>2. EventInv BY <1>1, Zenon DEF IntactInv
<1>3. ASSUME NEW o \in Ops, Poster(o) PROVE EventInv'
  BY <1>1, <1>2, <1>3, OccupyEvents, PostEvents, EnqueueEvents, LaterEvents, FreeEvents, Zenon
     DEF Poster
<1>4. CASE Peer BY <1>2, <1>4, ReceiveEvents, PeerEvents, Zenon DEF Peer
<1>5. CASE Worker \/ Close \/ Keeper \/ UNCHANGED vars
  <2>1. UNCHANGED <<occ, content, op, peerQ, peer, got>>
    BY <1>5, Zenon DEF Worker, WorkerTake, WorkerRemove, WorkerRun, Close, Keeper, Break, EpBroken,
                       Detach, Walk, WalkEnd, Release, vars
  <2>2. \A x \in Ops : OpOk(x)' BY <1>2, <2>1, Zenon DEF EventInv, OpOk, Holds, Owns
  <2>3. \A x \in Ops : \A b \in Buckets : Owns(x, b) => Owns(x, b)' BY <2>1, Zenon DEF Owns
  <2>4. QED BY <1>2, <2>1, <2>2, <2>3, EventsStay, Zenon
<1>6. QED BY <1>3, <1>4, <1>5, Zenon DEF Next

\* Initially there is no event.
LEMMA InitEvents == Init => IntactInv
<1> SUFFICES ASSUME Init PROVE EventInv BY Zenon DEF IntactInv
<1>1. \A o \in Ops : op[o].pc = "idle" /\ op[o].buck = None /\ ~op[o].sent BY Zenon DEF Init
<1>2. \A o \in Ops : OpOk(o) BY <1>1, Zenon DEF OpOk, Holds
<1>3. QueueOk /\ GotOk /\ got \in Seq(Ops \X Ops) /\ peer = <<>> BY DEF Init, QueueOk, GotOk
<1>4. QED BY <1>2, <1>3, Zenon DEF EventInv

\* One event of each send, each with its own bucket: what was given to the peer's handler is
\* what was sent.
LEMMA EventsIntact == IntactInv => IntactIfAccepted
<1> SUFFICES ASSUME EventInv PROVE Intact BY Zenon DEF IntactInv, IntactIfAccepted
<1>1. GotOk BY Zenon DEF EventInv
<1>2. QED BY <1>1, Zenon DEF GotOk, Intact
=============================================================================
