---------------------------- MODULE ChannelSetup ----------------------------
(***************************************************************************)
(* One connection of service_v2, from Connect to the erased channel.       *)
(*                                                                         *)
(* The client connects N endpoints one after the other.  The server        *)
(* collects them in a HcomConnectingEpInfo (info) under mNewEpMap, and the *)
(* last one makes the channel.  The client makes its channel when all      *)
(* endpoints are there.  Meanwhile, and later, endpoints break: the driver *)
(* calls ServiceEndPointBroken, which finds out from the UpCtx of the      *)
(* endpoint whom to tell, while HcomChannelImp::Initialize moves the UpCtx *)
(* from the info to the channel.                                           *)
(*                                                                         *)
(* Every endpoint has a thread for its break (bt).  The client's calling   *)
(* thread and the server's listener have a program counter each (pc).      *)
(* The endpoints are those of the RDMA driver.                             *)
(***************************************************************************)
EXTENDS Integers, Sequences

CONSTANTS
    N,          \* totalLinkCount
    Prompt,     \* see InTime and NobodyIn
    MaxFaults   \* bound: faults of the network

ASSUME SetupAssumption ==
    /\ N \in Nat \ {0}
    /\ Prompt \in BOOLEAN
    /\ MaxFaults \in Nat

Sides == {"client", "server"}
Links == 0 .. N - 1
Peer(s) == IF s = "client" THEN "server" ELSE "client"

VARIABLES
    pc,         \* what the client and the listener do next
    link,       \* the endpoint the client connects, N when it has them all
    at,         \* loop index of Initialize, on each side
    ep,         \* State() of the endpoints
    stopped,    \* the endpoints whose queue pair is in error, by Stop or by a fault
    listed,     \* the endpoint is in mEndPoints of the driver
    toList,     \* server endpoints that the driver has still to put there
    upCtx,      \* UpCtx of the endpoints: whom it points to
    bt,         \* what ProcessEpError of the endpoint does next
    info,       \* the HcomConnectingEpInfo
    chan,       \* the channels
    faults,     \* faults so far
    hist        \* what went wrong so far, see Init

vars == <<pc, link, at, ep, stopped, listed, toList, upCtx, bt, info, chan, faults, hist>>
epVars == <<ep, stopped, listed, toList>>
setupVars == <<pc, link, at>>

Fault == faults < MaxFaults /\ faults' = faults + 1

NoInfo == [state |-> "none", vec |-> <<>>, broken |-> {}, inMap |-> FALSE]

NoChannel ==
    [state |-> "none", broken |-> {}, inMap |-> FALSE, handler |-> FALSE, processed |-> FALSE,
     told |-> 0, announced |-> FALSE, timer |-> FALSE]

Init ==
    /\ pc = [client |-> "connect", server |-> "idle"]
    /\ link = 0
    /\ at = [s \in Sides |-> 0]
    /\ ep = [s \in Sides |-> [i \in Links |-> "none"]]
    /\ stopped = [s \in Sides |-> {}]
    /\ listed = [s \in Sides |-> {}]
    /\ toList = {}
    /\ upCtx = [s \in Sides |-> [i \in Links |-> "none"]]
    /\ bt = [s \in Sides |-> [i \in Links |-> "idle"]]
    /\ info = NoInfo
    /\ chan = [s \in Sides |-> NoChannel]
    /\ faults = 0
    \* early: a break found no UpCtx yet; again: an info was made for another endpoint than the
    \* first; lost: a ready signal was lost; late: listed after their break was handled
    /\ hist = [early |-> FALSE, again |-> FALSE, lost |-> FALSE, late |-> {}]

-----------------------------------------------------------------------------
(* Connecting one endpoint *)

\* Threads that have read the UpCtx of an endpoint of s and use what it pointed to.
Using(s, stages) == {i \in Links : bt[s][i] \in stages}

\* A thread that has read an UpCtx is through with the object before it is deleted.
NobodyIn(s, stages) == Prompt => Using(s, stages) = {}

\* NewConnectionCB makes the server's endpoint and calls its handler, or the connection fails.
Connect ==
    /\ pc["client"] = "connect" /\ pc["server"] = "idle"
    /\ \/ /\ pc' = [client |-> "wait", server |-> "emplace"]
          /\ ep' = [ep EXCEPT !["server"][link] = "established"]
          /\ UNCHANGED faults
       \/ /\ Fault
          /\ pc' = [pc EXCEPT !["client"] = "close"]
          /\ UNCHANGED ep
    /\ UNCHANGED <<link, at, stopped, listed, toList, upCtx, bt, info, chan, hist>>

Refuse == pc' = [client |-> "close", server |-> "idle"]

\* EmplaceNewEndpoint, under mNewEpMutex.  Compare wants the endpoints in order; AddEp adds the
\* endpoint even if it fails.
EmplaceNewEndpoint ==
    /\ pc["server"] = "emplace"
    /\ \/ /\ ~info.inMap
          /\ info' = [state |-> "new_ep", vec |-> <<link>>, broken |-> {}, inMap |-> TRUE]
          /\ hist' = [hist EXCEPT !.again = @ \/ link # 0]
          /\ pc' = [pc EXCEPT !["server"] = "upctx"]
       \/ /\ info.inMap
          /\ IF Len(info.vec) = link /\ info.state = "new_ep"
               THEN pc' = [pc EXCEPT !["server"] = "upctx"]
               ELSE Refuse
          /\ info' = [info EXCEPT !.vec = IF Len(@) = link THEN Append(@, link) ELSE @]
          /\ UNCHANGED hist
    /\ UNCHANGED <<link, at, epVars, upCtx, bt, chan, faults>>

SetUpCtx ==
    /\ pc["server"] = "upctx"
    /\ upCtx' = [upCtx EXCEPT !["server"][link] = "info"]
    /\ pc' = [pc EXCEPT !["server"] = IF Len(info.vec) < N THEN "ready" ELSE "last"]
    /\ UNCHANGED <<link, at, epVars, bt, info, chan, faults, hist>>

\* The last endpoint: no break may have taken the info meanwhile.
LastEndpoint ==
    /\ pc["server"] = "last"
    /\ IF info.state = "new_ep"
         THEN /\ info' = [info EXCEPT !.state = "new_channel"]
              /\ pc' = [pc EXCEPT !["server"] = "point"]
         ELSE Refuse /\ UNCHANGED info
    /\ UNCHANGED <<link, at, epVars, upCtx, bt, chan, faults, hist>>

\* The ready signal reaches the client, which has its endpoint now, or gets lost.
Ready ==
    /\ pc["server"] = "ready"
    /\ \/ /\ pc' = [client |-> IF link + 1 = N THEN "point" ELSE "connect", server |-> "idle"]
          /\ link' = link + 1
          /\ toList' = toList \cup {link}
          /\ ep' = [ep EXCEPT !["client"][link] = "established"]
          /\ listed' = [listed EXCEPT !["client"] = @ \cup {link}]
          /\ UNCHANGED <<faults, hist>>
       \/ /\ Fault
          /\ Refuse
          /\ hist' = [hist EXCEPT !.lost = TRUE]
          /\ UNCHANGED <<link, toList, ep, listed>>
    /\ UNCHANGED <<at, stopped, upCtx, bt, info, chan>>

\* The driver lists the server's endpoint after it sent the signal.
ListEndpoint(i) ==
    /\ i \in toList
    /\ toList' = toList \ {i}
    /\ listed' = [listed EXCEPT !["server"] = @ \cup {i}]
    /\ hist' = [hist EXCEPT !.late = @ \cup (IF bt["server"][i] = "done" THEN {i} ELSE {})]
    /\ UNCHANGED <<setupVars, ep, stopped, upCtx, bt, info, chan, faults>>

\* A Connect that fails closes the endpoints it has.
CloseConnected ==
    /\ pc["client"] = "close"
    /\ pc' = [pc EXCEPT !["client"] = "failed"]
    /\ stopped' = [stopped EXCEPT !["client"] = 0 .. link - 1]
    /\ UNCHANGED <<link, at, ep, listed, toList, upCtx, bt, info, chan, faults, hist>>

-----------------------------------------------------------------------------
(* HcomChannelImp::Initialize, on both sides *)

\* The loop goes on to the next endpoint, or to pc next.
Advance(s, next) ==
    /\ at' = [at EXCEPT ![s] = (@ + 1) % N]
    /\ pc' = [pc EXCEPT ![s] = IF at[s] + 1 = N THEN next ELSE @]

SetEpUpCtx(s) ==
    /\ pc[s] = "point"
    /\ chan' = [chan EXCEPT ![s].state = "new"]
    /\ upCtx' = [upCtx EXCEPT ![s][at[s]] = "channel"]
    /\ Advance(s, "verify")
    /\ UNCHANGED <<link, epVars, bt, info, faults, hist>>

EpBroken(s, i) == i \in chan[s].broken \/ ep[s][i] = "broken"

\* Mutant: only what the channel was told is looked at.
AllEpEstablishedTold(s) ==
    /\ pc[s] = "verify"
    /\ IF at[s] \in chan[s].broken
         THEN pc' = [pc EXCEPT ![s] = "undo"] /\ UNCHANGED at
         ELSE Advance(s, "establish")
    /\ UNCHANGED <<link, epVars, upCtx, bt, info, chan, faults, hist>>

AllEpEstablished(s) ==
    /\ pc[s] = "verify"
    /\ IF EpBroken(s, at[s])
         THEN pc' = [pc EXCEPT ![s] = "undo"] /\ UNCHANGED at
         ELSE Advance(s, "establish")
    /\ UNCHANGED <<link, epVars, upCtx, bt, info, chan, faults, hist>>

\* Mutant: the UpCtx of the endpoints stay.
UninitializedPointed(s) ==
    /\ chan' = [chan EXCEPT ![s].state = "destroy"]
    /\ UNCHANGED upCtx

\* What ForceUnInitialize leaves: nothing points to the channel, and its mEpInfo is gone.
Uninitialized(s) ==
    /\ upCtx' = [upCtx EXCEPT ![s] = [i \in Links |-> "none"]]
    /\ chan' = [chan EXCEPT ![s].state = "destroy"]

\* Initialize fails, and the caller closes the endpoints or refuses the last one.
ForceUnInitialize(s) ==
    /\ pc[s] = "undo"
    /\ NobodyIn(s, {"channel", "check", "notify"})
    /\ Uninitialized(s)
    /\ pc' = [pc EXCEPT ![s] = IF s = "client" THEN "close" ELSE "erase_error"]
    /\ UNCHANGED <<link, at, epVars, bt, info, faults, hist>>

Establish(s) ==
    /\ pc[s] = "establish"
    /\ chan' = [chan EXCEPT ![s].state = "established"]
    /\ pc' = [pc EXCEPT ![s] = IF s = "client" THEN "broken_info" ELSE "emplace_channel"]
    /\ UNCHANGED <<link, at, epVars, upCtx, bt, info, faults, hist>>

-----------------------------------------------------------------------------
(* The rest of Connect and of ServiceNewChannel *)

\* Mutant: the handler is left out.
SetBrokenInfoNone(s) ==
    /\ pc[s] = "broken_info"
    /\ pc' = [pc EXCEPT ![s] = IF s = "client" THEN "emplace_channel" ELSE "announce"]
    /\ UNCHANGED <<link, at, epVars, upCtx, bt, info, chan, faults, hist>>

SetBrokenInfo(s) ==
    /\ pc[s] = "broken_info"
    /\ chan' = [chan EXCEPT ![s].handler = TRUE]
    /\ pc' = [pc EXCEPT ![s] = IF s = "client" THEN "emplace_channel" ELSE "announce"]
    /\ UNCHANGED <<link, at, epVars, upCtx, bt, info, faults, hist>>

\* The client's user has the channel with it.
EmplaceChannelUuid(s) ==
    /\ pc[s] = "emplace_channel"
    /\ chan' = [chan EXCEPT ![s].inMap = TRUE, ![s].announced = (s = "client")]
    /\ pc' = [pc EXCEPT ![s] = IF s = "client" THEN "up" ELSE "broken_info"]
    /\ UNCHANGED <<link, at, epVars, upCtx, bt, info, faults, hist>>

\* UnInitialize: endpoints that are established are closed
Closed(s) == [stopped EXCEPT ![s] = @ \cup {i \in Links : ep[s][i] = "established"}]

\* chNewHandler takes the channel, or refuses it: it is erased and closed.
Announce ==
    /\ pc["server"] = "announce"
    /\ \/ /\ chan' = [chan EXCEPT !["server"].announced = TRUE]
          /\ pc' = [pc EXCEPT !["server"] = "erase_ok"]
          /\ UNCHANGED stopped
       \/ /\ chan' = [chan EXCEPT !["server"].inMap = FALSE, !["server"].state = "close"]
          /\ stopped' = Closed("server")
          /\ pc' = [pc EXCEPT !["server"] = "erase_error"]
    /\ UNCHANGED <<link, at, ep, listed, toList, upCtx, bt, info, faults, hist>>

\* Mutant: the result of ServiceNewChannel is dropped.
EraseNewEpOk ==
    /\ pc["server"] \in {"erase_ok", "erase_error"}
    /\ NobodyIn("server", {"info"})
    /\ info' = [info EXCEPT !.inMap = FALSE]
    /\ pc' = [pc EXCEPT !["server"] = "ready"]
    /\ UNCHANGED <<link, at, epVars, upCtx, bt, chan, faults, hist>>

\* The end of ServiceHandleNewEndPoint
EraseNewEp ==
    /\ pc["server"] \in {"erase_ok", "erase_error"}
    /\ NobodyIn("server", {"info"})
    /\ info' = [info EXCEPT !.inMap = FALSE]
    /\ IF pc["server"] = "erase_ok" THEN pc' = [pc EXCEPT !["server"] = "ready"] ELSE Refuse
    /\ UNCHANGED <<link, at, epVars, upCtx, bt, chan, faults, hist>>

\* A user disconnects.
Disconnect(s) ==
    /\ chan[s].announced /\ chan[s].state = "established"
    /\ chan' = [chan EXCEPT ![s].state = "close"]
    /\ stopped' = Closed(s)
    /\ UNCHANGED <<setupVars, ep, listed, toList, upCtx, bt, info, faults, hist>>

\* The destructor, when the last reference goes: the maps, the timer and the threads have none,
\* and the user had none or gave it up.
Destruct(s) ==
    /\ chan[s].state = "close" /\ ~chan[s].inMap /\ ~chan[s].timer
    /\ pc[s] \in {"idle", "up", "failed"}
    /\ Using(s, {"check", "notify"}) = {}
    /\ NobodyIn(s, {"channel"})
    /\ Uninitialized(s)
    /\ UNCHANGED <<setupVars, epVars, bt, info, faults, hist>>

-----------------------------------------------------------------------------
(* Endpoints break *)

\* An endpoint that is in no list lives as long as the handler, the info or a channel has it.
Held(s, i) ==
    /\ ep[s][i] # "none"
    /\ \/ i \in listed[s]
       \/ chan[s].state \notin {"none", "destroy"}
       \/ /\ s = "server"
          /\ \/ i \in toList
             \/ pc["server"] # "idle" /\ link = i
             \/ info.inMap /\ \E j \in DOMAIN info.vec : info.vec[j] = i

\* The device puts a queue pair into error.
QpError(s, i) ==
    /\ Held(s, i) /\ i \notin stopped[s]
    /\ Fault
    /\ stopped' = [stopped EXCEPT ![s] = @ \cup {i}]
    /\ UNCHANGED <<setupVars, ep, listed, toList, upCtx, bt, info, chan, hist>>

\* The heartbeat thread finds that the peer does not answer on a listed endpoint.
DetectHbState(s, i) ==
    /\ i \in listed[s] \ stopped[s]
    /\ i \in stopped[Peer(s)]
    /\ ep' = [ep EXCEPT ![s][i] = "broken"]
    /\ stopped' = [stopped EXCEPT ![s] = @ \cup {i}]
    /\ UNCHANGED <<setupVars, listed, toList, upCtx, bt, info, chan, faults, hist>>

\* A worker or the heartbeat thread begins ProcessEpError; EPBrokenProcessed lets one in.
ProcessEpError(s, i) ==
    /\ bt[s][i] = "idle" /\ i \in stopped[s] /\ Held(s, i)
    /\ bt' = [bt EXCEPT ![s][i] = "read"]
    /\ ep' = [ep EXCEPT ![s][i] = "broken"]
    /\ UNCHANGED <<setupVars, stopped, listed, toList, upCtx, info, chan, faults, hist>>

\* The thread goes on; when ServiceEndPointBroken is done, DestroyEndpoint follows.
Goto(s, i, stage) ==
    /\ bt' = [bt EXCEPT ![s][i] = stage]
    /\ listed' = [listed EXCEPT ![s] = IF stage = "done" THEN @ \ {i} ELSE @]
    /\ UNCHANGED <<setupVars, ep, stopped, toList, upCtx, faults>>

\* ServiceEndPointBroken reads the UpCtx.
ReadUpCtx(s, i) ==
    /\ bt[s][i] = "read"
    /\ Goto(s, i, IF upCtx[s][i] = "none" THEN "done" ELSE upCtx[s][i])
    /\ hist' = [hist EXCEPT !.early =
                    @ \/ (s = "server" /\ link = i /\ pc[s] \in {"emplace", "upctx"})]
    /\ UNCHANGED <<info, chan>>

\* Mutant: the endpoint is marked after the others are looked at.
AllEPBrokenLate(i) ==
    /\ bt["server"][i] = "info"
    /\ LET all == 0 .. Len(info.vec) - 1 \subseteq info.broken /\ info.state = "new_ep"
       IN  /\ info' = [info EXCEPT !.broken = @ \cup {i}, !.state = IF all THEN "ep_broken" ELSE @]
           /\ Goto("server", i, IF all THEN "erase" ELSE "done")
    /\ UNCHANGED <<chan, hist>>

\* HcomConnectingEpInfo::AllEPBroken, under mLock
AllEPBroken(i) ==
    /\ bt["server"][i] = "info"
    /\ LET broken == info.broken \cup {i}
           all == 0 .. Len(info.vec) - 1 \subseteq broken /\ info.state = "new_ep"
       IN  IF i >= Len(info.vec)
             THEN Goto("server", i, "done") /\ UNCHANGED info
             ELSE /\ info' = [info EXCEPT !.broken = broken,
                                          !.state = IF all THEN "ep_broken" ELSE @]
                  /\ Goto("server", i, IF all THEN "erase" ELSE "done")
    /\ UNCHANGED <<chan, hist>>

EraseBroken(i) ==
    /\ bt["server"][i] = "erase"
    /\ info' = [info EXCEPT !.inMap = FALSE]
    /\ Goto("server", i, "done")
    /\ UNCHANGED <<chan, hist>>

\* The channel is referenced, and told by SetEpBroken.
SetEpBroken(s, i) ==
    /\ bt[s][i] = "channel"
    /\ chan' = [chan EXCEPT ![s].broken = @ \cup {i}]
    /\ Goto(s, i, "check")
    /\ UNCHANGED <<info, hist>>

\* A channel does not lose its last endpoint between the check of its endpoints and the moment
\* it is complete.
InTime(s) == Prompt => pc[s] \notin {"establish", "emplace_channel", "broken_info"}

AllEpBroken(s) == \A i \in Links : i \in chan[s].broken /\ ep[s][i] = "broken"

\* Mutant: every thread that finds all endpoints broken goes on.
NeedProcessBrokenAll(s, i) ==
    /\ bt[s][i] = "check"
    /\ InTime(s)
    /\ IF AllEpBroken(s)
         THEN chan' = [chan EXCEPT ![s].state = "close"] /\ Goto(s, i, "notify")
         ELSE Goto(s, i, "done") /\ UNCHANGED chan
    /\ UNCHANGED <<info, hist>>

\* NeedProcessBroken lets one thread in, which closes the channel.
NeedProcessBroken(s, i) ==
    /\ bt[s][i] = "check"
    /\ InTime(s)
    /\ IF AllEpBroken(s) /\ ~chan[s].processed
         THEN /\ chan' = [chan EXCEPT ![s].processed = TRUE, ![s].state = "close"]
              /\ Goto(s, i, "notify")
         ELSE Goto(s, i, "done") /\ UNCHANGED chan
    /\ UNCHANGED <<info, hist>>

\* The broken callback, then DelayEraseChannel, or EraseChannel when there is no timer for it
InvokeChannelBrokenCb(s, i) ==
    /\ bt[s][i] = "notify"
    /\ \E timer \in BOOLEAN :
         chan' = [chan EXCEPT ![s].told = IF chan[s].handler THEN @ + 1 ELSE @,
                              ![s].timer = timer, ![s].inMap = @ /\ timer]
    /\ Goto(s, i, "done")
    /\ UNCHANGED <<info, hist>>

\* The timer of DelayEraseChannel expires.
EraseChannel(s) ==
    /\ chan[s].timer
    /\ chan' = [chan EXCEPT ![s].timer = FALSE, ![s].inMap = FALSE]
    /\ UNCHANGED <<setupVars, epVars, upCtx, bt, info, faults, hist>>

-----------------------------------------------------------------------------
Server ==
    \/ EmplaceNewEndpoint \/ SetUpCtx \/ LastEndpoint \/ Ready \/ Announce \/ EraseNewEp
    \/ \E i \in Links : ListEndpoint(i)

Client == Connect \/ CloseConnected

Initialize(s) ==
    \/ SetEpUpCtx(s) \/ AllEpEstablished(s) \/ ForceUnInitialize(s)
    \/ Establish(s) \/ SetBrokenInfo(s) \/ EmplaceChannelUuid(s)

Broken(s, i) ==
    \/ ProcessEpError(s, i) \/ ReadUpCtx(s, i) \/ SetEpBroken(s, i)
    \/ s = "server" /\ (AllEPBroken(i) \/ EraseBroken(i))
    \/ NeedProcessBroken(s, i) \/ InvokeChannelBrokenCb(s, i)

Next ==
    \/ Server \/ Client
    \/ \E s \in Sides : Initialize(s) \/ Disconnect(s) \/ Destruct(s) \/ EraseChannel(s)
    \/ \E s \in Sides, i \in Links : Broken(s, i) \/ QpError(s, i) \/ DetectHbState(s, i)

Spec == Init /\ [][Next]_vars

\* Some thread that can go on does: every thread ends or waits, so none is passed over for ever.
FairSpec ==
    /\ Spec
    /\ WF_vars(\/ Server \/ Client
               \/ \E s \in Sides : Initialize(s) \/ EraseChannel(s)
               \/ \E s \in Sides, i \in Links : Broken(s, i) \/ DetectHbState(s, i))

-----------------------------------------------------------------------------
(* Properties *)

\* The variables have the types of the fields they stand for.
TypeOK ==
    /\ pc \in [Sides -> {"connect", "wait", "close", "failed", "up", "idle", "emplace", "upctx",
                         "last", "point", "verify", "undo", "establish", "broken_info",
                         "emplace_channel", "announce", "erase_ok", "erase_error", "ready"}]
    /\ link \in 0 .. N
    /\ at \in [Sides -> Links]
    /\ ep \in [Sides -> [Links -> {"none", "established", "broken"}]]
    /\ stopped \in [Sides -> SUBSET Links]
    /\ listed \in [Sides -> SUBSET Links]
    /\ toList \subseteq Links
    /\ upCtx \in [Sides -> [Links -> {"none", "info", "channel"}]]
    /\ bt \in [Sides -> [Links -> {"idle", "read", "info", "erase", "channel", "check", "notify",
                                  "done"}]]
    /\ info \in [state : {"none", "new_ep", "new_channel", "ep_broken"}, vec : Seq(Links),
                 broken : SUBSET Links, inMap : BOOLEAN]
    /\ chan \in [Sides -> [state : {"none", "new", "established", "close", "destroy"},
                           broken : SUBSET Links, inMap : BOOLEAN, handler : BOOLEAN,
                           processed : BOOLEAN, told : Nat, announced : BOOLEAN,
                           timer : BOOLEAN]]
    /\ faults \in 0 .. MaxFaults
    /\ hist \in [early : BOOLEAN, again : BOOLEAN, lost : BOOLEAN, late : SUBSET Links]

\* A thread of ServiceEndPointBroken finds alive what the UpCtx it read points to: the channel
\* with its mEpInfo, or the info, which the map or the listener keeps.
PointeeAlive ==
    /\ \A s \in Sides : Using(s, {"channel", "check", "notify"}) # {} => chan[s].state # "destroy"
    /\ Using("server", {"info"}) # {} => info.inMap \/ pc["server"] # "idle"

\* No break falls between the info and the channel: an established channel has been told of
\* every endpoint whose break is through with ServiceEndPointBroken.  AllEpEstablished reads
\* the states after SetEpUpCtx, a break sets the state before it reads the UpCtx.
NoBreakMissed ==
    \A s \in Sides : chan[s].state = "established" =>
        \A i \in Links : bt[s][i] = "done" => i \in chan[s].broken

\* The user is told of a broken channel once, when all its endpoints are broken, and the
\* channel stays closed.
BrokenOnce ==
    \A s \in Sides : chan[s].told > 0 =>
        /\ chan[s].told = 1
        /\ \A i \in Links : ep[s][i] = "broken"
        /\ chan[s].state \in {"close", "destroy"}

\* A client that has a channel is connected to a server whose user accepted it, unless the
\* server's info was made again half-way.
Agreed == chan["client"].announced => chan["server"].announced \/ hist.again

\* A user who has a channel is told when every endpoint of it, here or at the peer, is in
\* error, unless the ready signal of the last endpoint was lost.
Notified ==
    \A s \in Sides :
        (/\ chan[s].announced
         /\ \A i \in Links : i \in stopped[s] \cup stopped[Peer(s)])
        ~> (chan[s].told = 1 \/ hist.lost)

\* What the client connected and what is in error now leaves no channel, no info and no
\* endpoint in the maps, but for the cases hist names.
Cleaned ==
    (/\ pc["client"] \in {"up", "failed"}
     /\ 0 .. link - 1 \subseteq stopped["client"])
    ~> \/ hist.early \/ hist.again \/ hist.lost
       \/ /\ ~info.inMap
          /\ \A s \in Sides : ~chan[s].inMap /\ listed[s] \subseteq hist.late

=============================================================================
