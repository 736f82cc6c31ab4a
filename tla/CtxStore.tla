------------------------------ MODULE CtxStore ------------------------------
(***************************************************************************)
(* The context store of a channel, service_v2/service_ctx_store.h: the     *)
(* lock-free table in which a request leaves its timer object and from     *)
(* which the response, the timeout thread, the broken-channel sweep and    *)
(* the failed sender each try to take it.                                  *)
(*                                                                         *)
(* A bucket of mFlatCtxBucks is a 64-bit word, version tag in the high six *)
(* bits and pointer below; the tag is modelled as the set of its one bits, *)
(* so that the code's "|" is set union.  Each atomic instruction on the    *)
(* table or on mSeqNoAndVersionIndex is one step; the plain load of        *)
(* GetSeqNoAndRemove is a step of its own.                                 *)
(*                                                                         *)
(* ticket, owner and took are history variables: the requests that were    *)
(* given a sequence number, the request whose context a bucket holds, and  *)
(* who took whose context.  No guard reads them.                           *)
(***************************************************************************)
EXTENDS Integers

CONSTANTS
    Capacity,      \* mFlatCapacity, a power of two
    VersionBits,   \* VERSION_BIT_WIDTH, 6 in the code
    Threads,       \* threads that put and take contexts
    Ctxs,          \* context objects of the memory pool
    Nil,           \* the null pointer
    MaxIndex       \* bound on mSeqNoAndVersionIndex

ASSUME CapacityAssumption == Capacity \in Nat \ {0}
ASSUME VersionBitsAssumption == VersionBits \in Nat
ASSUME MaxIndexAssumption == MaxIndex \in Nat
ASSUME NilAssumption == Nil \notin Ctxs

VARIABLES
    index,    \* mSeqNoAndVersionIndex
    bucks,    \* mFlatCtxBucks: bucket -> tag and pointer
    hash,     \* mHashCtxMap: entries keyed by version and sequence number
    th,       \* per thread: program counter and the locals of its operation
    ticket,   \* history: requests whose PutAndGetSeqNo returned SER_OK
    owner,    \* history: bucket -> index of the request whose context it holds
    took      \* history: <<i, j>>: a take with i's number got j's context

vars == <<index, bucks, hash, th, ticket, owner, took>>

Versions == 2^VersionBits
SeqNos == 0 .. Capacity - 1

\* (newSeqAndVersion & mSeqNoMask) and ((newSeqAndVersion >> mVersionShift) & VERSION_MASK)
SeqOf(n) == n % Capacity
VersionOf(n) == (n \div Capacity) % Versions

\* The one bits of a version.
Bits(v) == {b \in 0 .. VersionBits - 1 : (v \div 2^b) % 2 = 1}

\* The word 0, that is an empty bucket.
Empty == [tag |-> {}, ptr |-> Nil]

\* A sequence number as it travels in messages: HcomSeqNo.
SeqNo(flat, n) == [flat |-> flat, ver |-> VersionOf(n), seq |-> SeqOf(n)]

Idle == [pc |-> "idle"]

Init ==
    /\ index = 1
    /\ bucks = [s \in SeqNos |-> Empty]
    /\ hash = {}
    /\ th = [t \in Threads |-> Idle]
    /\ ticket = {}
    /\ owner = [s \in SeqNos |-> 0]
    /\ took = {}

-----------------------------------------------------------------------------
(* PutAndGetSeqNo *)

\* Contexts that are held by a running put or are in the table.
InUse ==
    {th[t].ctx : t \in {u \in Threads : th[u].pc \in {"fetch", "refetch", "cas", "hash"}}}
        \cup {bucks[s].ptr : s \in SeqNos} \cup {e.ptr : e \in hash}

PutBegin(t, c) ==
    /\ th[t].pc = "idle"
    /\ c \notin InUse
    /\ th' = [th EXCEPT ![t] = [pc |-> "fetch", ctx |-> c, try |-> 1, tag |-> {}, n |-> 0]]
    /\ UNCHANGED <<index, bucks, hash, ticket, owner, took>>

\* The index n was fetched: the version is or-ed into the value, on top of what an
\* earlier try left there.
Fetched(t, n) == [th[t] EXCEPT !.pc = "cas", !.n = n, !.tag = @ \cup Bits(VersionOf(n))]

\* __sync_fetch_and_add; when the low bits are zero it is done once more.
Fetch(t) ==
    /\ th[t].pc = "fetch"
    /\ index < MaxIndex
    /\ index' = index + 1
    /\ th' = [th EXCEPT ![t] = IF SeqOf(index) = 0 THEN [@ EXCEPT !.pc = "refetch"]
                                                   ELSE Fetched(t, index)]
    /\ UNCHANGED <<bucks, hash, ticket, owner, took>>

Refetch(t) ==
    /\ th[t].pc = "refetch"
    /\ index < MaxIndex
    /\ index' = index + 1
    /\ th' = [th EXCEPT ![t] = Fetched(t, index)]
    /\ UNCHANGED <<bucks, hash, ticket, owner, took>>

\* Mutant: a plain store in place of the compare-and-swap.
PutStore(t) ==
    LET s == SeqOf(th[t].n) IN
    /\ th[t].pc = "cas"
    /\ bucks' = [bucks EXCEPT ![s] = [tag |-> th[t].tag, ptr |-> th[t].ctx]]
    /\ owner' = [owner EXCEPT ![s] = th[t].n]
    /\ ticket' = ticket \cup {[no |-> SeqNo(TRUE, th[t].n), ctx |-> th[t].ctx, id |-> th[t].n]}
    /\ th' = [th EXCEPT ![t] = Idle]
    /\ UNCHANGED <<index, hash, took>>

\* The compare-and-swap of an empty bucket: three tries, then the hash map.
PutCas(t) ==
    LET s == SeqOf(th[t].n) IN
    /\ th[t].pc = "cas"
    /\ \/ /\ bucks[s] = Empty
          /\ bucks' = [bucks EXCEPT ![s] = [tag |-> th[t].tag, ptr |-> th[t].ctx]]
          /\ owner' = [owner EXCEPT ![s] = th[t].n]
          /\ ticket' = ticket \cup {[no |-> SeqNo(TRUE, th[t].n), ctx |-> th[t].ctx, id |-> th[t].n]}
          /\ th' = [th EXCEPT ![t] = Idle]
       \/ /\ bucks[s] # Empty
          /\ th' = [th EXCEPT ![t] = IF @.try < 3
                                       THEN [@ EXCEPT !.pc = "fetch", !.try = th[t].try + 1]
                                       ELSE [@ EXCEPT !.pc = "hash"]]
          /\ UNCHANGED <<bucks, owner, ticket>>
    /\ UNCHANGED <<index, hash, took>>

\* The hash map keyed by the whole sequence number: a duplicate key is an error
\* (SER_STORE_SEQ_DUP) and the caller gives the context back.
PutHash(t) ==
    LET no == SeqNo(FALSE, th[t].n) IN
    /\ th[t].pc = "hash"
    /\ th' = [th EXCEPT ![t] = Idle]
    /\ IF \E e \in hash : e.no = no
         THEN UNCHANGED <<hash, ticket>>
         ELSE /\ hash' = hash \cup {[no |-> no, ptr |-> th[t].ctx, id |-> th[t].n]}
              /\ ticket' = ticket \cup {[no |-> no, ctx |-> th[t].ctx, id |-> th[t].n]}
    /\ UNCHANGED <<index, bucks, owner, took>>

-----------------------------------------------------------------------------
(* GetSeqNoAndRemove *)

\* The plain load of the bucket.
TakeRead(t, k) ==
    /\ th[t].pc = "idle"
    /\ k.no.flat
    /\ th' = [th EXCEPT ![t] = [pc |-> "take", no |-> k.no, id |-> k.id, val |-> bucks[k.no.seq].ptr]]
    /\ UNCHANGED <<index, bucks, hash, ticket, owner, took>>

\* Mutant: the version of the sequence number is not compared.
ExpectedAnyVersion(t) == [tag |-> bucks[th[t].no.seq].tag, ptr |-> th[t].val]

\* The word the compare-and-swap of a take expects.
Expected(t) == [tag |-> Bits(th[t].no.ver), ptr |-> th[t].val]

\* The compare-and-swap to 0; a successful swap of the null pointer is "not found" too.
TakeCas(t) ==
    LET s == th[t].no.seq IN
    /\ th[t].pc = "take"
    /\ IF bucks[s] = Expected(t)
         THEN /\ bucks' = [bucks EXCEPT ![s] = Empty]
              /\ took' = IF th[t].val = Nil THEN took ELSE took \cup {<<th[t].id, owner[s]>>}
         ELSE UNCHANGED <<bucks, took>>
    /\ th' = [th EXCEPT ![t] = Idle]
    /\ UNCHANGED <<index, hash, ticket, owner>>

\* The hash path is one critical section.
TakeHash(t, k) ==
    /\ th[t].pc = "idle"
    /\ ~k.no.flat
    /\ \E e \in hash :
          /\ e.no = k.no
          /\ hash' = hash \ {e}
          /\ took' = took \cup {<<k.id, e.id>>}
    /\ UNCHANGED <<index, bucks, th, ticket, owner>>

-----------------------------------------------------------------------------
Next ==
    \E t \in Threads :
        \/ \E c \in Ctxs : PutBegin(t, c)
        \/ Fetch(t)
        \/ Refetch(t)
        \/ PutCas(t)
        \/ PutHash(t)
        \/ \E k \in ticket : TakeRead(t, k) \/ TakeHash(t, k)
        \/ TakeCas(t)

Spec == Init /\ [][Next]_vars

-----------------------------------------------------------------------------
Ids == 0 .. MaxIndex

NoType == [flat : BOOLEAN, ver : 0 .. Versions - 1, seq : SeqNos]

ThType ==
    {Idle}
        \cup [pc : {"fetch", "refetch", "cas", "hash"}, ctx : Ctxs, try : 1 .. 3,
              tag : SUBSET (0 .. VersionBits - 1), n : Ids]
        \cup [pc : {"take"}, no : NoType, id : Ids, val : Ctxs \cup {Nil}]

\* The variables have their types: indices stay below the bound, a bucket holds a
\* six-bit tag and a pointer, a thread is idle, in a put or in a take.
TypeOK ==
    /\ index \in Ids \cup {1}
    /\ bucks \in [SeqNos -> [tag : SUBSET (0 .. VersionBits - 1), ptr : Ctxs \cup {Nil}]]
    /\ hash \subseteq [no : NoType, ptr : Ctxs, id : Ids]
    /\ th \in [Threads -> ThType]
    /\ ticket \subseteq [no : NoType, ctx : Ctxs, id : Ids]
    /\ owner \in [SeqNos -> Ids]
    /\ took \subseteq Ids \X Ids

\* A take with a request's sequence number returns that request's context and never
\* another's, however late it comes and whatever reused the bucket or the object since
\* (the version check of GetSeqNoAndRemove).
OwnContext == \A p \in took : p[1] = p[2]

\* A context that was stored and not yet taken can be found under the number that
\* PutAndGetSeqNo returned for it: the response and the timeout thread have nothing else.
Findable ==
    \A k \in ticket :
        \/ \E p \in took : p[2] = k.id
        \/ k.no.flat /\ bucks[k.no.seq] = [tag |-> Bits(k.no.ver), ptr |-> k.ctx]
        \/ ~k.no.flat /\ \E e \in hash : e.no = k.no /\ e.ptr = k.ctx
=============================================================================
