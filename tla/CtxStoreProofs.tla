--------------------------- MODULE CtxStoreProofs ---------------------------
(***************************************************************************)
(* Proofs about CtxStore, for any number of threads, contexts and buckets, *)
(* up to the version width of the code and until the version number wraps  *)
(* around.                                                                 *)
(***************************************************************************)
EXTENDS CtxStore, TLAPS

\* The first numbers of a store: six version bits at most, no version is used twice.
FirstRound == VersionBits <= 6 /\ MaxIndex <= Versions * Capacity

\* No put carries the bits of an earlier try's version into its value.
Clean == \A t \in Threads : th[t].pc = "cas" => th[t].tag = Bits(VersionOf(th[t].n))

-----------------------------------------------------------------------------
(* Numbers and versions *)

\* The powers of two that a version has bits for.
LEMMA Powers == /\ 2^0 = 1 /\ 2^1 = 2 /\ 2^2 = 4 /\ 2^3 = 8 /\ 2^4 = 16 /\ 2^5 = 32 /\ 2^6 = 64
OBVIOUS

\* There are sixty-four versions at most.
LEMMA VersionsNat == ASSUME VersionBits <= 6 PROVE Versions \in 1 .. 64
<1>1. VersionBits \in {0, 1, 2, 3, 4, 5, 6} BY VersionBitsAssumption
<1>2. Versions \in {1, 2, 4, 8, 16, 32, 64} BY <1>1, Powers DEF Versions
<1>3. QED BY ONLY <1>2

\* A number below 64 is determined by its six bits.
LEMMA SixBits ==
  ASSUME NEW v \in Nat, NEW w \in Nat, v < 64, w < 64,
         \A b \in 0 .. 5 : (v \div 2^b) % 2 = 1 <=> (w \div 2^b) % 2 = 1
  PROVE  v = w
<1>1. /\ (v \div 2^0) % 2 = 1 <=> (w \div 2^0) % 2 = 1
      /\ (v \div 2^1) % 2 = 1 <=> (w \div 2^1) % 2 = 1
      /\ (v \div 2^2) % 2 = 1 <=> (w \div 2^2) % 2 = 1
      /\ (v \div 2^3) % 2 = 1 <=> (w \div 2^3) % 2 = 1
      /\ (v \div 2^4) % 2 = 1 <=> (w \div 2^4) % 2 = 1
      /\ (v \div 2^5) % 2 = 1 <=> (w \div 2^5) % 2 = 1
  OBVIOUS
<1>2. /\ (v \div 1) % 2 = 1 <=> (w \div 1) % 2 = 1
      /\ (v \div 2) % 2 = 1 <=> (w \div 2) % 2 = 1
      /\ (v \div 4) % 2 = 1 <=> (w \div 4) % 2 = 1
      /\ (v \div 8) % 2 = 1 <=> (w \div 8) % 2 = 1
      /\ (v \div 16) % 2 = 1 <=> (w \div 16) % 2 = 1
      /\ (v \div 32) % 2 = 1 <=> (w \div 32) % 2 = 1
  BY ONLY <1>1, Powers, Zenon
<1>3. QED BY <1>2

\* A version has no bits outside its width.
LEMMA HighBits ==
  ASSUME VersionBits <= 6, NEW v \in 0 .. Versions - 1, NEW b \in 0 .. 5, b >= VersionBits
  PROVE  (v \div 2^b) % 2 # 1
<1>1. VersionBits \in {0, 1, 2, 3, 4, 5} /\ b \in {0, 1, 2, 3, 4, 5} BY VersionBitsAssumption
<1>2. Versions \in Int /\ v \in Nat /\ v < Versions BY VersionsNat
<1>3. \/ VersionBits = 0 /\ Versions = 1
      \/ VersionBits = 1 /\ Versions = 2
      \/ VersionBits = 2 /\ Versions = 4
      \/ VersionBits = 3 /\ Versions = 8
      \/ VersionBits = 4 /\ Versions = 16
      \/ VersionBits = 5 /\ Versions = 32
  BY ONLY <1>1, Powers, Zenon DEF Versions
<1>4. PICK p : p = 2^b BY Zenon
<1>5. \/ b = 0 /\ p = 1
      \/ b = 1 /\ p = 2
      \/ b = 2 /\ p = 4
      \/ b = 3 /\ p = 8
      \/ b = 4 /\ p = 16
      \/ b = 5 /\ p = 32
  BY ONLY <1>1, <1>4, Powers, Zenon
<1>6. p \in Nat \ {0} /\ Versions <= p BY <1>3, <1>5
<1>7. v < p BY <1>2, <1>6
<1>8. v \div p = 0 BY <1>2, <1>6, <1>7
<1>9. (v \div p) % 2 # 1 BY ONLY <1>8
<1>10. QED BY <1>4, <1>9, Zenon

\* A version is determined by its one bits.
LEMMA BitsInjective ==
  ASSUME VersionBits <= 6, NEW v \in 0 .. Versions - 1, NEW w \in 0 .. Versions - 1,
         Bits(v) = Bits(w)
  PROVE  v = w
<1>1. v \in Nat /\ w \in Nat /\ v < 64 /\ w < 64 BY VersionsNat
<1>2. ASSUME NEW b \in 0 .. 5 PROVE (v \div 2^b) % 2 = 1 <=> (w \div 2^b) % 2 = 1
  <2>1. CASE b >= VersionBits BY <2>1, HighBits, Zenon
  <2>2. CASE b < VersionBits
    <3>1. b \in 0 .. VersionBits - 1 BY <2>2, VersionBitsAssumption
    <3>2. b \in Bits(v) <=> b \in Bits(w) BY Zenon
    <3>3. QED BY <3>1, <3>2, Zenon DEF Bits
  <2>3. QED BY <2>1, <2>2, VersionBitsAssumption
<1>3. QED BY <1>1, <1>2, SixBits, Zenon

\* In the first round the version counts how often the sequence numbers were used up.
LEMMA FirstVersion ==
  ASSUME FirstRound, NEW k \in Nat, k < MaxIndex
  PROVE  /\ k \div Capacity \in Nat /\ VersionOf(k) = k \div Capacity
         /\ k = Capacity * (k \div Capacity) + SeqOf(k)
<1>1. Versions \in Nat \ {0} BY VersionsNat DEF FirstRound
<1>2. /\ k \div Capacity \in Nat /\ k % Capacity \in Nat
      /\ k = Capacity * (k \div Capacity) + (k % Capacity)
  BY CapacityAssumption
<1>3. k < Capacity * Versions
  BY <1>1, CapacityAssumption, MaxIndexAssumption DEF FirstRound
<1>4. k \div Capacity < Versions
  <2>1. SUFFICES ASSUME k \div Capacity >= Versions PROVE FALSE BY <1>1, <1>2
  <2>2. Capacity * (k \div Capacity) >= Capacity * Versions
    BY <1>1, <1>2, <2>1, CapacityAssumption
  <2>3. QED BY <1>1, <1>2, <1>3, <2>2, CapacityAssumption
<1>5. (k \div Capacity) % Versions = k \div Capacity BY <1>1, <1>2, <1>4
<1>6. QED BY <1>2, <1>5, Zenon DEF VersionOf, SeqOf

\* In the first round, sequence number and version determine the request.
LEMMA NumberInjective ==
  ASSUME FirstRound, NEW m \in Nat, NEW n \in Nat, m < MaxIndex, n < MaxIndex,
         SeqOf(m) = SeqOf(n), VersionOf(m) = VersionOf(n)
  PROVE  m = n
BY FirstVersion, Zenon

-----------------------------------------------------------------------------
(* The invariant *)

\* A request i has been given a number.
Given(i) == i < MaxIndex

\* Numbers are what was fetched, in the put, in the tickets and in the take.
NumInv ==
    /\ \A t \in Threads : th[t].pc \in {"cas", "hash"} => Given(th[t].n)
    /\ \A k \in ticket : Given(k.id) /\ k.no = SeqNo(k.no.flat, k.id)
    /\ \A t \in Threads : th[t].pc = "take" => Given(th[t].id) /\ th[t].no = SeqNo(TRUE, th[t].id)

\* A bucket is empty or holds a context under its owner's number, and so does the hash map.
BuckInv ==
    \A s \in SeqNos :
        bucks[s].ptr # Nil =>
            Given(owner[s]) /\ SeqOf(owner[s]) = s /\ bucks[s].tag = Bits(VersionOf(owner[s]))

HashInv == \A e \in hash : Given(e.id) /\ e.no = SeqNo(FALSE, e.id)

StoreInv == TypeOK /\ NumInv /\ BuckInv /\ HashInv /\ OwnContext /\ Findable

PutRec == [pc : {"fetch", "refetch", "cas", "hash"}, ctx : Ctxs, try : 1 .. 3,
           tag : SUBSET (0 .. VersionBits - 1), n : Ids]
TakeRec == [pc : {"take"}, no : NoType, id : Ids, val : Ctxs \cup {Nil}]

\* A thread with a put's or a take's program counter has that operation's locals.
LEMMA Locals ==
  ASSUME TypeOK, NEW t \in Threads
  PROVE  /\ th[t].pc \in {"fetch", "refetch", "cas", "hash"} => th[t] \in PutRec
         /\ th[t].pc = "take" => th[t] \in TakeRec
<1>1. th[t] \in {Idle} \cup PutRec \cup TakeRec BY Zenon DEF TypeOK, ThType, PutRec, TakeRec
<1>2. Idle.pc = "idle" BY Zenon DEF Idle
<1>3. \A r \in PutRec : r.pc \in {"fetch", "refetch", "cas", "hash"} BY Zenon DEF PutRec
<1>4. \A r \in TakeRec : r.pc = "take" BY Zenon DEF TakeRec
<1>5. QED BY <1>1, <1>2, <1>3, <1>4, Zenon

\* A request's number has its type.
LEMMA NumberType ==
  ASSUME VersionBits <= 6, NEW n \in Nat, NEW f \in BOOLEAN
  PROVE  /\ SeqOf(n) \in SeqNos /\ VersionOf(n) \in 0 .. Versions - 1
         /\ SeqNo(f, n) \in NoType
         /\ Bits(VersionOf(n)) \in SUBSET (0 .. VersionBits - 1)
<1>1. SeqOf(n) \in SeqNos BY CapacityAssumption DEF SeqOf, SeqNos
<1>2. VersionOf(n) \in 0 .. Versions - 1
  <2>1. n \div Capacity \in Nat BY CapacityAssumption
  <2>2. Versions \in Nat \ {0} BY VersionsNat
  <2>3. QED BY <2>1, <2>2 DEF VersionOf
<1>3. QED BY <1>1, <1>2, Zenon DEF SeqNo, NoType, Bits

\* Two requests with the same number are the same.
LEMMA SameNumber ==
  ASSUME FirstRound, NEW i \in Ids, NEW j \in Ids, Given(i), Given(j),
         NEW f \in BOOLEAN, NEW g \in BOOLEAN, SeqNo(f, i) = SeqNo(g, j)
  PROVE  i = j
<1>1. i \in Nat /\ j \in Nat BY MaxIndexAssumption DEF Ids
<1>2. SeqOf(i) = SeqOf(j) /\ VersionOf(i) = VersionOf(j) BY Zenon DEF SeqNo
<1>3. QED BY <1>1, <1>2, NumberInjective, Zenon DEF Given

\* The owner of a bucket whose tag is that of a request's version is that request.
LEMMA BucketOwner ==
  ASSUME FirstRound, StoreInv, NEW i \in Ids, Given(i), NEW s \in SeqNos, SeqOf(i) = s,
         bucks[s].ptr # Nil, bucks[s].tag = Bits(VersionOf(i))
  PROVE  owner[s] = i
<1>1. owner[s] \in Ids BY Zenon DEF StoreInv, TypeOK
<1>2. i \in Nat /\ owner[s] \in Nat BY <1>1, MaxIndexAssumption DEF Ids
<1>3. Given(owner[s]) /\ SeqOf(owner[s]) = s /\ bucks[s].tag = Bits(VersionOf(owner[s]))
  BY Zenon DEF StoreInv, BuckInv
<1>4. VersionOf(owner[s]) \in 0 .. Versions - 1 /\ VersionOf(i) \in 0 .. Versions - 1
  BY <1>2, NumberType, Zenon DEF FirstRound
<1>5. VersionOf(owner[s]) = VersionOf(i) BY <1>3, <1>4, BitsInjective, Zenon DEF FirstRound
<1>6. QED BY <1>2, <1>3, <1>5, NumberInjective, Zenon DEF Given

-----------------------------------------------------------------------------
(* The steps *)

\* A step that changes one thread's locals only.
LEMMA LocalStep ==
  ASSUME StoreInv, NEW t \in Threads, NEW r \in ThType, th' = [th EXCEPT ![t] = r],
         r.pc \in {"cas", "hash"} => Given(r.n),
         r.pc = "take" => Given(r.id) /\ r.no = SeqNo(TRUE, r.id),
         index' \in Ids \cup {1}, UNCHANGED <<bucks, hash, ticket, owner, took>>
  PROVE  StoreInv'
<1>1. /\ th' \in [Threads -> ThType] /\ th'[t] = r
      /\ \A u \in Threads : u # t => th'[u] = th[u]
  BY Zenon DEF StoreInv, TypeOK
<1>2. TypeOK' BY <1>1, Zenon DEF StoreInv, TypeOK
<1>3. NumInv' BY <1>1, Zenon DEF StoreInv, NumInv
<1>4. BuckInv' /\ HashInv' /\ OwnContext' /\ Findable'
  BY Zenon DEF StoreInv, BuckInv, HashInv, OwnContext, Findable
<1>5. QED BY <1>2, <1>3, <1>4, Zenon DEF StoreInv

\* A put begins, and its value has no version yet.
LEMMA PutBeginStep ==
  ASSUME StoreInv, NEW t \in Threads, NEW c \in Ctxs, PutBegin(t, c) PROVE StoreInv'
<1> DEFINE r == [pc |-> "fetch", ctx |-> c, try |-> 1, tag |-> {}, n |-> 0]
<1>1. r \in ThType BY MaxIndexAssumption DEF ThType, Ids
<1>2. index' \in Ids \cup {1} BY Zenon DEF PutBegin, StoreInv, TypeOK
<1>3. th' = [th EXCEPT ![t] = r] /\ UNCHANGED <<bucks, hash, ticket, owner, took>> BY Zenon
  DEF PutBegin
<1>4. r.pc = "fetch" BY Zenon
<1> HIDE DEF r
<1>5. QED BY <1>1, <1>2, <1>3, <1>4, LocalStep, Zenon

\* __sync_fetch_and_add gives out a number below the bound.
LEMMA FetchedLocals ==
  ASSUME VersionBits <= 6, StoreInv, NEW t \in Threads, th[t].pc \in {"fetch", "refetch"},
         index < MaxIndex
  PROVE  /\ Fetched(t, index) \in ThType
         /\ Fetched(t, index).pc = "cas" /\ Given(Fetched(t, index).n)
         /\ index + 1 \in Ids
<1>1. index \in Ids /\ index \in Nat /\ index + 1 \in Ids
  BY MaxIndexAssumption DEF StoreInv, TypeOK, Ids
<1>2. th[t] \in PutRec BY Locals, Zenon DEF StoreInv
<1>3. Bits(VersionOf(index)) \in SUBSET (0 .. VersionBits - 1) BY <1>1, NumberType, Zenon
<1>4. Fetched(t, index) \in PutRec BY <1>1, <1>2, <1>3, Zenon DEF Fetched, PutRec
<1>5. Fetched(t, index).pc = "cas" /\ Fetched(t, index).n = index BY <1>2, Zenon DEF Fetched, PutRec
<1>6. QED BY <1>1, <1>4, <1>5, Zenon DEF ThType, PutRec, Given

\* The fetch, and the second one when the low bits are zero.
LEMMA FetchStep ==
  ASSUME VersionBits <= 6, StoreInv, NEW t \in Threads, Fetch(t) \/ Refetch(t) PROVE StoreInv'
<1>1. /\ th[t].pc \in {"fetch", "refetch"} /\ index < MaxIndex /\ index' = index + 1
      /\ UNCHANGED <<bucks, hash, ticket, owner, took>>
  BY Zenon DEF Fetch, Refetch
<1>2. /\ Fetched(t, index) \in ThType
      /\ Fetched(t, index).pc = "cas" /\ Given(Fetched(t, index).n)
      /\ index + 1 \in Ids
  BY <1>1, FetchedLocals, Zenon
<1>3. CASE th' = [th EXCEPT ![t] = Fetched(t, index)] BY <1>1, <1>2, <1>3, LocalStep, Zenon
<1>4. CASE th' = [th EXCEPT ![t] = [@ EXCEPT !.pc = "refetch"]]
  <2> DEFINE r == [th[t] EXCEPT !.pc = "refetch"]
  <2>1. th[t] \in PutRec BY <1>1, Locals, Zenon DEF StoreInv
  <2>2. r \in ThType /\ r.pc = "refetch" BY <2>1, Zenon DEF PutRec, ThType
  <2>3. th' = [th EXCEPT ![t] = r] BY <1>4, Zenon DEF StoreInv, TypeOK
  <2> HIDE DEF r
  <2>4. QED BY <1>1, <1>2, <2>2, <2>3, LocalStep, Zenon
<1>5. QED BY <1>3, <1>4, Zenon DEF Fetch, Refetch

\* The compare-and-swap finds the bucket in use: another try, or the hash map.
LEMMA PutRetryStep ==
  ASSUME StoreInv, NEW t \in Threads, PutCas(t), bucks[SeqOf(th[t].n)] # Empty PROVE StoreInv'
<1> DEFINE r == IF th[t].try < 3 THEN [th[t] EXCEPT !.pc = "fetch", !.try = th[t].try + 1]
                                 ELSE [th[t] EXCEPT !.pc = "hash"]
<1>0. /\ th[t].pc = "cas" /\ UNCHANGED <<index, bucks, hash, ticket, owner, took>>
      /\ th' = [th EXCEPT ![t] = IF @.try < 3
                                   THEN [@ EXCEPT !.pc = "fetch", !.try = th[t].try + 1]
                                   ELSE [@ EXCEPT !.pc = "hash"]]
  BY Zenon DEF PutCas
<1>1. th[t].pc = "cas" /\ th' = [th EXCEPT ![t] = r] BY <1>0, Zenon
<1>2. th[t] \in PutRec BY <1>1, Locals, Zenon DEF StoreInv
<1>3. r \in PutRec /\ r.n = th[t].n /\ r.pc \in {"fetch", "hash"}
  <2>1. CASE th[t].try < 3
    <3>1. th[t].try + 1 \in 1 .. 3 BY <2>1, <1>2 DEF PutRec
    <3>2. QED BY <2>1, <3>1, <1>2, Zenon DEF PutRec
  <2>2. CASE ~(th[t].try < 3) BY <2>2, <1>2, Zenon DEF PutRec
  <2>3. QED BY <2>1, <2>2, Zenon
<1>4. Given(th[t].n) BY <1>1, Zenon DEF StoreInv, NumInv
<1> HIDE DEF r
<1>5. r \in ThType BY <1>3, Zenon DEF ThType, PutRec
<1>6. index' \in Ids \cup {1} BY <1>0, Zenon DEF StoreInv, TypeOK
<1>7. QED BY <1>0, <1>1, <1>3, <1>4, <1>5, <1>6, LocalStep, Zenon

\* The plain load of the bucket, for a ticket.
LEMMA TakeReadStep ==
  ASSUME StoreInv, NEW t \in Threads, NEW k \in ticket, TakeRead(t, k) PROVE StoreInv'
<1> DEFINE r == [pc |-> "take", no |-> k.no, id |-> k.id, val |-> bucks[k.no.seq].ptr]
<1>1. /\ th' = [th EXCEPT ![t] = r] /\ k.no.flat
      /\ UNCHANGED <<index, bucks, hash, ticket, owner, took>>
  BY Zenon DEF TakeRead
<1>2. k.no \in NoType /\ k.id \in Ids BY Zenon DEF StoreInv, TypeOK
<1>3. k.no.seq \in SeqNos /\ k.no.flat = TRUE BY <1>1, <1>2, Zenon DEF NoType
<1>4. bucks[k.no.seq].ptr \in Ctxs \cup {Nil} BY <1>3, Zenon DEF StoreInv, TypeOK
<1>5. r \in ThType BY <1>2, <1>4, Zenon DEF ThType
<1>6. Given(k.id) /\ k.no = SeqNo(TRUE, k.id) BY <1>3, Zenon DEF StoreInv, NumInv
<1>7. r.pc = "take" /\ r.id = k.id /\ r.no = k.no BY Zenon
<1> HIDE DEF r
<1>8. index' \in Ids \cup {1} BY <1>1, Zenon DEF StoreInv, TypeOK
<1>9. QED BY <1>1, <1>5, <1>6, <1>7, <1>8, LocalStep, Zenon

\* An empty bucket takes the context: under the request's own version, unless the bits of an
\* earlier try are in the way.
LEMMA PutStoreStep ==
  ASSUME VersionBits <= 6, StoreInv, Clean, NEW t \in Threads, PutCas(t),
         bucks[SeqOf(th[t].n)] = Empty
  PROVE  StoreInv'
<1> DEFINE n == th[t].n
           s == SeqOf(n)
           c == th[t].ctx
           k == [no |-> SeqNo(TRUE, n), ctx |-> c, id |-> n]
<1>1. /\ bucks' = [bucks EXCEPT ![s] = [tag |-> th[t].tag, ptr |-> c]]
      /\ owner' = [owner EXCEPT ![s] = n] /\ ticket' = ticket \cup {k}
      /\ th' = [th EXCEPT ![t] = Idle] /\ UNCHANGED <<index, hash, took>> /\ th[t].pc = "cas"
  BY Zenon DEF PutCas
<1>2. th[t] \in PutRec BY <1>1, Locals, Zenon DEF StoreInv
<1>3. n \in Ids /\ c \in Ctxs /\ c # Nil BY <1>2, NilAssumption, Zenon DEF PutRec
<1>4. Given(n) /\ th[t].tag = Bits(VersionOf(n)) BY <1>1, Zenon DEF StoreInv, NumInv, Clean
<1>5. n \in Nat BY <1>3, MaxIndexAssumption DEF Ids
<1>6. s \in SeqNos /\ SeqNo(TRUE, n) \in NoType BY <1>5, NumberType, Zenon
<1>7. Bits(VersionOf(n)) \in SUBSET (0 .. VersionBits - 1) BY <1>5, NumberType, Zenon
<1>8. /\ k \in [no : NoType, ctx : Ctxs, id : Ids] /\ k.no = SeqNo(TRUE, n) /\ k.ctx = c
      /\ k.id = n /\ k.no.flat = TRUE /\ k.no.seq = s /\ k.no.ver = VersionOf(n)
  BY <1>3, <1>6, Zenon DEF SeqNo
<1> HIDE DEF k, c, s, n
<1>9. /\ bucks'[s] = [tag |-> Bits(VersionOf(n)), ptr |-> c] /\ owner'[s] = n
      /\ \A r \in SeqNos : r # s => bucks'[r] = bucks[r] /\ owner'[r] = owner[r]
  BY <1>1, <1>4, <1>6, Zenon DEF StoreInv, TypeOK
<1>10. TypeOK'
  <2>1. th' \in [Threads -> ThType] BY <1>1, Zenon DEF StoreInv, TypeOK, ThType
  <2>2. ticket' \subseteq [no : NoType, ctx : Ctxs, id : Ids] BY <1>1, <1>8, Zenon
    DEF StoreInv, TypeOK
  <2>3. bucks' \in [SeqNos -> [tag : SUBSET (0 .. VersionBits - 1), ptr : Ctxs \cup {Nil}]]
    BY <1>1, <1>3, <1>4, <1>7, Zenon DEF StoreInv, TypeOK
  <2>4. owner' \in [SeqNos -> Ids] BY <1>1, <1>3, Zenon DEF StoreInv, TypeOK
  <2>5. QED BY <1>1, <2>1, <2>2, <2>3, <2>4, Zenon DEF StoreInv, TypeOK
<1>11. NumInv'
  <2>1. th'[t].pc = "idle" /\ \A u \in Threads : u # t => th'[u] = th[u]
    BY <1>1, Zenon DEF StoreInv, TypeOK, Idle
  <2>2. \A j \in ticket' : Given(j.id) /\ j.no = SeqNo(j.no.flat, j.id)
    BY <1>1, <1>4, <1>8, Zenon DEF StoreInv, NumInv
  <2>3. QED BY <2>1, <2>2, Zenon DEF StoreInv, NumInv
<1>12. BuckInv' BY <1>4, <1>9 DEF StoreInv, BuckInv, s
<1>13. HashInv' /\ OwnContext' BY <1>1, Zenon DEF StoreInv, HashInv, OwnContext
<1>14. Findable'
  <2>1. SUFFICES ASSUME NEW j \in ticket'
                 PROVE  \/ \E p \in took : p[2] = j.id
                        \/ j.no.flat /\ bucks'[j.no.seq] = [tag |-> Bits(j.no.ver), ptr |-> j.ctx]
                        \/ ~j.no.flat /\ \E e \in hash : e.no = j.no /\ e.ptr = j.ctx
    BY <1>1, Zenon DEF Findable
  <2>2. CASE j = k BY <2>2, <1>8, <1>9, Zenon
  <2>3. CASE j \in ticket
    <3>1. j.no.seq \in SeqNos /\ j.ctx # Nil BY <2>3, NilAssumption, Zenon
      DEF StoreInv, TypeOK, NoType
    <3>2. j.no.flat /\ bucks[j.no.seq] = [tag |-> Bits(j.no.ver), ptr |-> j.ctx] => j.no.seq # s
      BY <3>1 DEF Empty, s, n
    <3>3. QED BY <2>3, <3>1, <3>2, <1>9, Zenon DEF StoreInv, Findable
  <2>4. QED BY <2>2, <2>3, <1>1, Zenon
<1>15. QED BY <1>10, <1>11, <1>12, <1>13, <1>14, Zenon DEF StoreInv

\* The hash map takes the context under the whole number.
LEMMA PutHashStep ==
  ASSUME VersionBits <= 6, StoreInv, NEW t \in Threads, PutHash(t) PROVE StoreInv'
<1> DEFINE n == th[t].n
           c == th[t].ctx
           k == [no |-> SeqNo(FALSE, n), ctx |-> c, id |-> n]
           e == [no |-> SeqNo(FALSE, n), ptr |-> c, id |-> n]
<1>1. /\ th[t].pc = "hash" /\ th' = [th EXCEPT ![t] = Idle]
      /\ UNCHANGED <<index, bucks, owner, took>>
      /\ \/ UNCHANGED <<hash, ticket>>
         \/ hash' = hash \cup {e} /\ ticket' = ticket \cup {k}
  BY Zenon DEF PutHash
<1>2. th[t] \in PutRec BY <1>1, Locals, Zenon DEF StoreInv
<1>3. n \in Ids /\ c \in Ctxs /\ Given(n) BY <1>1, <1>2, Zenon DEF PutRec, StoreInv, NumInv
<1>4. n \in Nat BY <1>3, MaxIndexAssumption DEF Ids
<1>5. SeqNo(FALSE, n) \in NoType BY <1>4, NumberType, Zenon
<1>6. /\ k \in [no : NoType, ctx : Ctxs, id : Ids] /\ k.no = SeqNo(FALSE, n) /\ k.ctx = c
      /\ k.id = n /\ k.no.flat = FALSE
      /\ e \in [no : NoType, ptr : Ctxs, id : Ids] /\ e.no = k.no /\ e.ptr = c /\ e.id = n
  BY <1>3, <1>5, Zenon DEF SeqNo
<1> HIDE DEF k, e, c, n
<1>7. hash \subseteq hash' /\ hash' \subseteq hash \cup {e} /\ ticket' \subseteq ticket \cup {k}
  BY <1>1, Zenon
<1>8. TypeOK'
  <2>1. th' \in [Threads -> ThType] BY <1>1, Zenon DEF StoreInv, TypeOK, ThType
  <2>2. ticket' \subseteq [no : NoType, ctx : Ctxs, id : Ids] BY <1>6, <1>7, Zenon
    DEF StoreInv, TypeOK
  <2>3. hash' \subseteq [no : NoType, ptr : Ctxs, id : Ids] BY <1>6, <1>7, Zenon
    DEF StoreInv, TypeOK
  <2>4. QED BY <1>1, <2>1, <2>2, <2>3, Zenon DEF StoreInv, TypeOK
<1>9. NumInv'
  <2>1. th'[t].pc = "idle" /\ \A u \in Threads : u # t => th'[u] = th[u]
    BY <1>1, Zenon DEF StoreInv, TypeOK, Idle
  <2>2. \A j \in ticket' : Given(j.id) /\ j.no = SeqNo(j.no.flat, j.id)
    BY <1>3, <1>6, <1>7, Zenon DEF StoreInv, NumInv
  <2>3. QED BY <2>1, <2>2, Zenon DEF StoreInv, NumInv
<1>10. BuckInv' /\ OwnContext' BY <1>1, Zenon DEF StoreInv, BuckInv, OwnContext
<1>11. HashInv' BY <1>3, <1>6, <1>7, Zenon DEF StoreInv, HashInv
<1>12. Findable'
  <2>1. ASSUME NEW j \in ticket', j \notin ticket
        PROVE  ~j.no.flat /\ \E x \in hash' : x.no = j.no /\ x.ptr = j.ctx
    <3>1. j = k /\ e \in hash' BY <1>1, <2>1, Zenon
    <3>2. ~k.no.flat /\ e.no = k.no /\ e.ptr = k.ctx BY <1>6, Zenon
    <3>3. QED BY <3>1, <3>2, Zenon
  <2>2. QED BY <2>1, <1>1, <1>7, Zenon DEF StoreInv, Findable
<1>13. QED BY <1>8, <1>9, <1>10, <1>11, <1>12, Zenon DEF StoreInv

\* The compare-and-swap of a take empties the bucket of the take's own request, or fails.
LEMMA TakeCasStep == ASSUME FirstRound, StoreInv, NEW t \in Threads, TakeCas(t) PROVE StoreInv'
<1> DEFINE i == th[t].id
           s == th[t].no.seq
           v == th[t].val
<1>1. th[t].pc = "take" /\ th' = [th EXCEPT ![t] = Idle] /\ UNCHANGED <<index, hash, ticket, owner>>
  BY Zenon DEF TakeCas
<1>2. th[t] \in TakeRec BY <1>1, Locals, Zenon DEF StoreInv
<1>3. th[t].no = SeqNo(TRUE, i) /\ Given(i) /\ i \in Ids
  BY <1>1, <1>2, Zenon DEF TakeRec, StoreInv, NumInv
<1>4. s \in SeqNos /\ s = SeqOf(i) /\ th[t].no.ver = VersionOf(i)
  BY <1>2, <1>3 DEF TakeRec, NoType, SeqNo
<1>5. \/ UNCHANGED <<bucks, took>>
      \/ /\ bucks[s] = [tag |-> Bits(VersionOf(i)), ptr |-> v]
         /\ bucks' = [bucks EXCEPT ![s] = Empty]
         /\ took' = IF v = Nil THEN took ELSE took \cup {<<i, owner[s]>>}
  BY <1>4, Zenon DEF TakeCas, Expected
<1> HIDE DEF i, s, v
<1>6. th'[t].pc = "idle" /\ \A u \in Threads : u # t => th'[u] = th[u]
  BY <1>1, Zenon DEF StoreInv, TypeOK, Idle
<1>7. th' \in [Threads -> ThType] BY <1>1, Zenon DEF StoreInv, TypeOK, ThType
<1>8. NumInv' BY <1>1, <1>6, Zenon DEF StoreInv, NumInv
<1>9. HashInv' BY <1>1, Zenon DEF StoreInv, HashInv
<1>10. CASE UNCHANGED <<bucks, took>>
  <2>1. TypeOK' BY <1>1, <1>7, <1>10, Zenon DEF StoreInv, TypeOK
  <2>2. BuckInv' /\ OwnContext' /\ Findable'
    BY <1>1, <1>10, Zenon DEF StoreInv, BuckInv, OwnContext, Findable
  <2>3. QED BY <1>8, <1>9, <2>1, <2>2, Zenon DEF StoreInv
<1>11. CASE /\ bucks[s] = [tag |-> Bits(VersionOf(i)), ptr |-> v]
            /\ bucks' = [bucks EXCEPT ![s] = Empty]
            /\ took' = IF v = Nil THEN took ELSE took \cup {<<i, owner[s]>>}
  <2>1. v # Nil => owner[s] = i BY <1>3, <1>4, <1>11, BucketOwner
  <2>2. took \subseteq took' /\ took' \subseteq took \cup {<<i, i>>} /\ (v # Nil => <<i, i>> \in took')
    BY <1>11, <2>1, Zenon
  <2>3. /\ bucks'[s] = Empty /\ \A r \in SeqNos : r # s => bucks'[r] = bucks[r]
        /\ bucks' \in [SeqNos -> [tag : SUBSET (0 .. VersionBits - 1), ptr : Ctxs \cup {Nil}]]
    BY <1>4, <1>11, Zenon DEF StoreInv, TypeOK, Empty
  <2>4. took' \subseteq Ids \X Ids BY <2>2, <1>3 DEF StoreInv, TypeOK
  <2>5. TypeOK' BY <1>1, <1>7, <2>3, <2>4, Zenon DEF StoreInv, TypeOK
  <2>6. BuckInv' BY <1>1, <2>3 DEF StoreInv, BuckInv, Empty
  <2>7. OwnContext'
    <3>1. \A p \in took' : p \in took \/ p = <<i, i>> BY <2>2, Zenon
    <3>2. QED BY <3>1 DEF StoreInv, OwnContext
  <2>8. Findable'
    <3>1. SUFFICES ASSUME NEW j \in ticket, j.no.flat, ~\E p \in took' : p[2] = j.id,
                          bucks[j.no.seq] = [tag |-> Bits(j.no.ver), ptr |-> j.ctx]
                   PROVE  bucks'[j.no.seq] = bucks[j.no.seq]
      BY <1>1, <2>2, Zenon DEF StoreInv, Findable
    <3>2. j.no.seq \in SeqNos /\ j.ctx # Nil /\ j.id \in Ids
      BY NilAssumption, Zenon DEF StoreInv, TypeOK, NoType
    <3>3. ASSUME j.no.seq = s PROVE FALSE
      <4>1. v = j.ctx BY <3>1, <3>3, <1>11
      <4>a. Given(j.id) /\ j.no = SeqNo(j.no.flat, j.id) BY Zenon DEF StoreInv, NumInv
      <4>b. j.no.seq = SeqOf(j.id) /\ j.no.ver = VersionOf(j.id) BY <4>a DEF SeqNo
      <4>2. Given(j.id) /\ SeqOf(j.id) = s /\ bucks[s].tag = Bits(VersionOf(j.id)) /\ bucks[s].ptr # Nil
        BY <3>1, <3>2, <3>3, <4>a, <4>b
      <4>3. owner[s] = j.id BY <1>4, <3>2, <4>2, BucketOwner, Zenon
      <4>4. QED BY <2>1, <2>2, <3>1, <3>2, <4>1, <4>3, Zenon
    <3>4. QED BY <2>3, <3>2, <3>3, Zenon
  <2>9. QED BY <1>8, <1>9, <2>5, <2>6, <2>7, <2>8, Zenon DEF StoreInv
<1>12. QED BY <1>5, <1>10, <1>11, Zenon

\* The hash path finds the entry of the request itself.
LEMMA TakeHashStep ==
  ASSUME FirstRound, StoreInv, NEW t \in Threads, NEW k \in ticket, TakeHash(t, k) PROVE StoreInv'
<1>1. PICK e \in hash : e.no = k.no /\ hash' = hash \ {e} /\ took' = took \cup {<<k.id, e.id>>}
  BY Zenon DEF TakeHash
<1>2. UNCHANGED <<index, bucks, th, ticket, owner>> BY Zenon DEF TakeHash
<1>3. \A j \in ticket : /\ j.id \in Ids /\ Given(j.id) /\ j.no = SeqNo(j.no.flat, j.id)
                        /\ j.no.flat \in BOOLEAN
  BY Zenon DEF StoreInv, TypeOK, NoType, NumInv
<1>4. e.id \in Ids /\ Given(e.id) /\ e.no = SeqNo(FALSE, e.id)
  BY Zenon DEF StoreInv, TypeOK, HashInv
<1>5. ASSUME NEW j \in ticket, j.no = e.no PROVE j.id = e.id
  <2>1. SeqNo(j.no.flat, j.id) = SeqNo(FALSE, e.id) BY <1>3, <1>4, <1>5, Zenon
  <2>2. QED BY <2>1, <1>3, <1>4, SameNumber, Zenon
<1>6. took' = took \cup {<<e.id, e.id>>} BY <1>1, <1>5, Zenon
<1>7. TypeOK' BY <1>1, <1>2, <1>4, <1>6 DEF StoreInv, TypeOK
<1>8. NumInv' /\ BuckInv' BY <1>2, Zenon DEF StoreInv, NumInv, BuckInv
<1>9. HashInv' BY <1>1, Zenon DEF StoreInv, HashInv
<1>10. OwnContext' BY <1>6 DEF StoreInv, OwnContext
<1>11. Findable'
  <2>1. <<e.id, e.id>> \in took' /\ took \subseteq took' BY <1>6, Zenon
  <2>2. SUFFICES ASSUME NEW j \in ticket, ~\E p \in took' : p[2] = j.id, ~j.no.flat,
                        NEW x \in hash, x.no = j.no, x.ptr = j.ctx
                 PROVE  x \in hash'
    BY <1>2, <2>1, Zenon DEF StoreInv, Findable
  <2>3. x # e BY <2>1, <2>2, <1>5, Zenon
  <2>4. QED BY <2>3, <1>1, Zenon
<1>12. QED BY <1>7, <1>8, <1>9, <1>10, <1>11, Zenon DEF StoreInv

\* Every step of the store, for as long as no put mixes two versions.
LEMMA StoreStep ==
  ASSUME FirstRound PROVE (Init => StoreInv) /\ (StoreInv /\ Clean /\ [Next]_vars => StoreInv')
<1>1. Init => StoreInv
  <2>1. SUFFICES ASSUME Init PROVE StoreInv BY Zenon
  <2>2. /\ index = 1 /\ hash = {} /\ ticket = {} /\ took = {} /\ bucks = [s \in SeqNos |-> Empty]
        /\ owner = [s \in SeqNos |-> 0] /\ th = [t \in Threads |-> Idle]
    BY <2>1, Zenon DEF Init
  <2>3. \A t \in Threads : th[t].pc = "idle" BY <2>2, Zenon DEF Idle
  <2>4. bucks \in [SeqNos -> [tag : SUBSET (0 .. VersionBits - 1), ptr : Ctxs \cup {Nil}]]
    BY <2>2, Zenon DEF Empty
  <2>5. TypeOK BY <2>2, <2>4, MaxIndexAssumption DEF TypeOK, ThType, Ids
  <2>6. NumInv /\ HashInv /\ OwnContext /\ Findable
    BY <2>2, <2>3, Zenon DEF NumInv, HashInv, OwnContext, Findable
  <2>7. BuckInv BY <2>2, Zenon DEF BuckInv, Empty
  <2>8. QED BY <2>5, <2>6, <2>7, Zenon DEF StoreInv
<1>2. ASSUME StoreInv, Clean, [Next]_vars PROVE StoreInv'
  <2>1. VersionBits <= 6 BY Zenon DEF FirstRound
  <2>2. CASE UNCHANGED vars
    BY <1>2, <2>2, Zenon
    DEF vars, StoreInv, TypeOK, NumInv, BuckInv, HashInv, OwnContext, Findable
  <2>3. ASSUME NEW t \in Threads, PutCas(t) PROVE StoreInv'
    BY <1>2, <2>1, <2>3, PutStoreStep, PutRetryStep, Zenon
  <2>4. QED
    BY <1>2, <2>1, <2>2, <2>3, PutBeginStep, FetchStep, PutHashStep, TakeReadStep, TakeCasStep,
       TakeHashStep, Zenon
    DEF Next
<1>3. QED BY <1>1, <1>2, Zenon

\* GetSeqNoAndRemove never returns another request's context, whatever late or repeated
\* response or timeout calls it and whatever has reused the bucket or the object since: until
\* the version wraps around, and unless a put merged the versions of two tries.
THEOREM OwnContexts == ASSUME FirstRound PROVE Spec /\ []Clean => []OwnContext
<1>1. Init => StoreInv BY StoreStep, Zenon
<1>2. StoreInv /\ Clean /\ [Next]_vars => StoreInv' BY StoreStep, Zenon
<1>3. StoreInv => OwnContext BY Zenon DEF StoreInv
<1>4. QED BY <1>1, <1>2, <1>3, PTL DEF Spec

\* Every context that PutAndGetSeqNo stored and nobody took is found under the number that was
\* returned for it, as long as no put merges the versions of two tries: the merge is the only
\* way to lose one.
THEOREM ContextsFindable == ASSUME FirstRound PROVE Spec /\ []Clean => []Findable
<1>1. Init => StoreInv BY StoreStep, Zenon
<1>2. StoreInv /\ Clean /\ [Next]_vars => StoreInv' BY StoreStep, Zenon
<1>3. StoreInv => Findable BY Zenon DEF StoreInv
<1>4. QED BY <1>1, <1>2, <1>3, PTL DEF Spec

-----------------------------------------------------------------------------
(* The first two versions cannot be merged into a third: version 0 has no bits *)

\* Version 0 has no bits.
LEMMA NoBits == ASSUME VersionBits <= 6 PROVE Bits(0) = {}
<1>1. ASSUME NEW b \in 0 .. VersionBits - 1 PROVE (0 \div 2^b) % 2 # 1
  <2>1. b \in {0, 1, 2, 3, 4, 5} BY VersionBitsAssumption
  <2>2. PICK p : p = 2^b BY Zenon
  <2>3. p \in {1, 2, 4, 8, 16, 32} BY ONLY <2>1, <2>2, Powers, Zenon
  <2>4. p \in Nat \ {0} BY ONLY <2>3
  <2>5. 0 \div p = 0 BY ONLY <2>4
  <2>6. (0 \div p) % 2 # 1 BY ONLY <2>5
  <2>7. QED BY <2>2, <2>6, Zenon
<1>2. QED BY <1>1, Zenon DEF Bits

TwoRounds == FirstRound /\ MaxIndex <= 2 * Capacity

\* A value has bits of version 1 only when the index has got there.
TagInv ==
    /\ Clean
    /\ \A t \in Threads :
          th[t].pc \in {"fetch", "refetch", "cas", "hash"} =>
              th[t].tag = {} \/ (th[t].tag = Bits(1) /\ Capacity <= index)

\* The version of a request among the first two rounds.
LEMMA TwoVersions ==
  ASSUME TwoRounds, NEW n \in Nat, n < MaxIndex
  PROVE  VersionOf(n) = IF Capacity <= n THEN 1 ELSE 0
<1> DEFINE d == n \div Capacity
<1>1. d \in Nat /\ VersionOf(n) = d /\ n = Capacity * d + SeqOf(n)
  BY FirstVersion, Zenon DEF TwoRounds
<1>2. SeqOf(n) \in Nat /\ SeqOf(n) < Capacity BY CapacityAssumption DEF SeqOf
<1>3. n < 2 * Capacity BY CapacityAssumption, MaxIndexAssumption DEF TwoRounds
<1> HIDE DEF d
<1>4. d >= 2 => Capacity * d >= 2 * Capacity BY <1>1, CapacityAssumption
<1>5. d < 2 BY <1>1, <1>2, <1>3, <1>4, CapacityAssumption
<1>6. CASE d = 0
  <2>1. Capacity * d = 0 BY <1>6, CapacityAssumption
  <2>2. QED BY <1>1, <1>2, <1>6, <2>1, CapacityAssumption
<1>7. CASE d = 1
  <2>1. Capacity * d = Capacity BY <1>7, CapacityAssumption
  <2>2. QED BY <1>1, <1>2, <1>7, <2>1, CapacityAssumption
<1>8. QED BY <1>1, <1>5, <1>6, <1>7

\* Each fetch finds bits that its own version has too.
LEMMA TagStep == ASSUME TwoRounds, StoreInv, TagInv, [Next]_vars PROVE TagInv'
<1>1. index \in Nat
  <2>1. index \in Ids \cup {1} BY Zenon DEF StoreInv, TypeOK
  <2>2. QED BY ONLY <2>1, MaxIndexAssumption DEF Ids
<1>2. index' = index \/ index' = index + 1 BY Zenon
  DEF Next, vars, PutBegin, Fetch, Refetch, PutCas, PutHash,
         TakeRead, TakeHash, TakeCas
<1>3. Capacity <= index => Capacity <= index' BY <1>1, <1>2, CapacityAssumption
<1>4. ASSUME NEW t \in Threads, th[t].pc \in {"fetch", "refetch"}, index < MaxIndex,
             index' = index + 1
      PROVE  LET r == Fetched(t, index)
             IN  /\ r.tag = Bits(VersionOf(r.n))
                 /\ r.tag = {} \/ (r.tag = Bits(1) /\ Capacity <= index')
  <2> DEFINE r == Fetched(t, index)
  <2>1. th[t] \in PutRec BY <1>4, Locals, Zenon DEF StoreInv
  <2>2. r.n = index /\ r.tag = th[t].tag \cup Bits(VersionOf(index)) BY <2>1, Zenon
    DEF Fetched, PutRec
  <2> HIDE DEF r
  <2>3. VersionOf(index) = IF Capacity <= index THEN 1 ELSE 0 BY <1>1, <1>4, TwoVersions, Zenon
  <2>4. Bits(0) = {} BY NoBits, Zenon DEF TwoRounds, FirstRound
  <2>5. th[t].tag = {} \/ (th[t].tag = Bits(1) /\ Capacity <= index) BY <1>4, Zenon DEF TagInv
  <2>6. QED BY <1>3, <2>2, <2>3, <2>4, <2>5, Zenon DEF r
<1>5. ASSUME NEW u \in Threads
      PROVE  /\ th'[u].pc = "cas" => th'[u].tag = Bits(VersionOf(th'[u].n))
             /\ th'[u].pc \in {"fetch", "refetch", "cas", "hash"} =>
                    th'[u].tag = {} \/ (th'[u].tag = Bits(1) /\ Capacity <= index')
  <2>1. CASE th'[u] = th[u] BY <2>1, <1>3, <1>5, Zenon DEF TagInv, Clean
  <2>2. CASE th'[u].pc \in {"idle", "take"} BY <2>2, Zenon
  <2>3. CASE th'[u].tag = {} /\ th'[u].pc = "fetch" BY <2>3, Zenon
  <2>4. CASE /\ th'[u].pc \in {"refetch", "fetch", "hash"} /\ th'[u].tag = th[u].tag
             /\ th[u].pc \in {"fetch", "cas"}
    BY <2>4, <1>3, <1>5, Zenon DEF TagInv
  <2>5. CASE /\ th'[u] = Fetched(u, index) /\ th[u].pc \in {"fetch", "refetch"}
             /\ index < MaxIndex /\ index' = index + 1
    BY <2>5, <1>4, Zenon
  <2>6. \/ th'[u] = th[u] \/ th'[u].pc \in {"idle", "take"}
        \/ (th'[u].tag = {} /\ th'[u].pc = "fetch")
        \/ (/\ th'[u].pc \in {"refetch", "fetch", "hash"} /\ th'[u].tag = th[u].tag
            /\ th[u].pc \in {"fetch", "cas"})
        \/ (/\ th'[u] = Fetched(u, index) /\ th[u].pc \in {"fetch", "refetch"}
            /\ index < MaxIndex /\ index' = index + 1)
    <3>1. th \in [Threads -> ThType] BY Zenon DEF StoreInv, TypeOK
    <3>2. th[u].pc \in {"fetch", "refetch", "cas", "hash"} => th[u] \in PutRec
      BY Locals, Zenon DEF StoreInv
    <3>3. CASE UNCHANGED vars BY <3>3, Zenon DEF vars
    <3>4. ASSUME NEW t \in Threads, NEW c \in Ctxs, PutBegin(t, c)
          PROVE  th'[u] = th[u] \/ (th'[u].tag = {} /\ th'[u].pc = "fetch")
      BY <3>1, <3>4, Zenon DEF PutBegin
    <3>5. ASSUME NEW t \in Threads, Fetch(t) \/ Refetch(t)
          PROVE  \/ th'[u] = th[u]
                 \/ (/\ th'[u].pc = "refetch" /\ th'[u].tag = th[u].tag /\ th[u].pc = "fetch")
                 \/ (/\ th'[u] = Fetched(u, index) /\ th[u].pc \in {"fetch", "refetch"}
                     /\ index < MaxIndex /\ index' = index + 1)
      BY <3>1, <3>2, <3>5 DEF Fetch, Refetch, PutRec
    <3>6. ASSUME NEW t \in Threads, PutCas(t)
          PROVE  \/ th'[u] = th[u] \/ th'[u].pc = "idle"
                 \/ (/\ th'[u].pc \in {"fetch", "hash"} /\ th'[u].tag = th[u].tag /\ th[u].pc = "cas")
      <4>1. CASE th' = [th EXCEPT ![t] = Idle] BY <3>1, <4>1, Zenon DEF Idle
      <4>2. CASE /\ th[t].pc = "cas"
                 /\ th' = [th EXCEPT ![t] = IF @.try < 3
                                THEN [@ EXCEPT !.pc = "fetch", !.try = th[t].try + 1]
                                ELSE [@ EXCEPT !.pc = "hash"]]
        <5>1. CASE u # t BY <3>1, <4>2, <5>1, Zenon
        <5>2. CASE u = t
          <6>1. th[t] \in PutRec BY <3>2, <4>2, <5>2, Zenon
          <6>2. th'[t] = IF th[t].try < 3 THEN [th[t] EXCEPT !.pc = "fetch", !.try = th[t].try + 1]
                                          ELSE [th[t] EXCEPT !.pc = "hash"]
            BY ONLY <3>1, <4>2, t \in Threads, Zenon
          <6>3. th'[t].pc \in {"fetch", "hash"} /\ th'[t].tag = th[t].tag
            BY ONLY <6>1, <6>2, Zenon DEF PutRec
          <6>4. QED BY <4>2, <5>2, <6>3, Zenon
        <5>3. QED BY <5>1, <5>2, Zenon
      <4>3. QED BY ONLY <3>6, <4>1, <4>2, Zenon DEF PutCas
    <3>7. ASSUME NEW t \in Threads, PutHash(t) \/ TakeCas(t)
          PROVE  th'[u] = th[u] \/ th'[u].pc = "idle"
      <4>1. th' = [th EXCEPT ![t] = Idle] BY <3>7, Zenon DEF PutHash, TakeCas
      <4>2. QED BY ONLY <3>1, <4>1, u \in Threads, Zenon DEF Idle
    <3>8. ASSUME NEW t \in Threads, NEW k \in ticket, TakeRead(t, k) \/ TakeHash(t, k)
          PROVE  th'[u] = th[u] \/ th'[u].pc = "take"
      BY <3>1, <3>8 DEF TakeRead, TakeHash
    <3>9. QED BY <3>3, <3>4, <3>5, <3>6, <3>7, <3>8, Zenon DEF Next
  <2>7. QED BY <2>1, <2>2, <2>3, <2>4, <2>5, <2>6, Zenon
<1>6. QED BY <1>5, Zenon DEF TagInv, Clean

\* With the first 2 * mFlatCapacity numbers nothing is merged, so both properties hold of the
\* store without a condition on its behaviour.
THEOREM FirstRequests == ASSUME TwoRounds PROVE Spec => [](OwnContext /\ Findable)
<1>1. Init => StoreInv /\ TagInv
  <2>1. Init => \A t \in Threads : th[t].pc = "idle" BY DEF Init, Idle
  <2>2. QED BY <2>1, StoreStep, Zenon DEF TwoRounds, TagInv, Clean
<1>2. StoreInv /\ TagInv /\ [Next]_vars => StoreInv' /\ TagInv'
  BY StoreStep, TagStep, Zenon DEF TwoRounds, TagInv
<1>3. StoreInv => OwnContext /\ Findable BY Zenon DEF StoreInv
<1>4. QED BY <1>1, <1>2, <1>3, PTL DEF Spec

=============================================================================
