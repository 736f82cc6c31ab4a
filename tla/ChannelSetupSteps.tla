------------------------- MODULE ChannelSetupSteps --------------------------
(***************************************************************************)
(* The invariant behind the theorems of ChannelSetup, and the steps, which *)
(* all keep it.                                                            *)
(***************************************************************************)
EXTENDS ChannelSetup, TLAPS

Pcs == {"connect", "wait", "close", "failed", "up", "idle", "emplace", "upctx", "last", "point",
        "verify", "undo", "establish", "broken_info", "emplace_channel", "announce", "erase_ok",
        "erase_error", "ready"}
States == {"none", "established", "broken"}
Pointees == {"none", "info", "channel"}
Stages == {"idle", "read", "info", "erase", "channel", "check", "notify", "done"}
Infos == [state : {"none", "new_ep", "new_channel", "ep_broken"}, vec : Seq(Links),
          broken : SUBSET Links, inMap : BOOLEAN]
ChStates == {"none", "new", "established", "close", "destroy"}
Channels == [state : ChStates, broken : SUBSET Links,
             inMap : BOOLEAN, handler : BOOLEAN, processed : BOOLEAN, told : Nat,
             announced : BOOLEAN, timer : BOOLEAN]
Histories == [early : BOOLEAN, again : BOOLEAN, lost : BOOLEAN, late : SUBSET Links]

\* What the proofs need of the types.
Types ==
    /\ pc \in [Sides -> Pcs]
    /\ link \in Nat /\ link <= N
    /\ at \in [Sides -> Links]
    /\ ep \in [Sides -> [Links -> States]]
    /\ listed \in [Sides -> SUBSET Links]
    /\ toList \subseteq Links
    /\ upCtx \in [Sides -> [Links -> Pointees]]
    /\ bt \in [Sides -> [Links -> Stages]]
    /\ info \in Infos
    /\ chan \in [Sides -> Channels]
    /\ hist \in Histories

\* A break that has not been told to the channel yet will be, if the UpCtx points to the channel.
Covered(s, i) == bt[s][i] \in {"idle", "read", "channel"} \/ i \in chan[s].broken

\* Initialize first points the endpoints to the channel, then looks at their states.
PhaseInv ==
    \A s \in Sides :
        /\ pc[s] = "point" => \A i \in Links : i < at[s] => upCtx[s][i] = "channel"
        /\ pc[s] = "verify" =>
             \A i \in Links : upCtx[s][i] = "channel" /\ (i < at[s] => Covered(s, i))
        /\ pc[s] = "establish" \/ chan[s].state = "established" =>
             \A i \in Links : upCtx[s][i] = "channel" /\ Covered(s, i)
        /\ chan[s].state = "established" =>
             pc[s] \notin {"point", "verify", "undo", "establish", "wait", "connect",
                           "emplace", "upctx", "last"}

\* A thread that handles a break has set the state of its endpoint before; endpoints that are
\* still to come are in no list.
EpInv ==
    /\ \A s \in Sides : \A i \in Links :
         /\ bt[s][i] # "idle" => ep[s][i] = "broken"
         /\ i \in listed[s] => ep[s][i] # "none"
    /\ \A i \in toList : ep["server"][i] # "none"
    /\ \A i \in Links : i >= link => ep["client"][i] = "none"
    /\ pc["client"] = "connect" => \A i \in Links : i >= link => ep["server"][i] = "none"
    /\ pc["client"] = "wait" => \A i \in Links : i > link => ep["server"][i] = "none"
    /\ pc["server"] # "idle" => link < N /\ ep["server"][link] # "none"

\* The client waits while the listener works; a channel begins with the last endpoint.
OrderInv ==
    /\ pc["server"] # "idle" => pc["client"] = "wait"
    /\ pc["client"] \in {"connect", "wait"} => link < N /\ chan["client"].state = "none"
    /\ pc["client"] \in {"point", "verify", "undo", "establish", "broken_info", "emplace_channel"}
         => link = N
    /\ pc["client"] = "connect" \/ pc["server"] \in {"emplace", "upctx", "last"}
         => chan["server"].state = "none"
    /\ pc["server"] = "ready" /\ link + 1 < N => chan["server"].state = "none"
    /\ pc["server"] \in {"last", "point", "verify", "undo", "establish", "emplace_channel",
                         "broken_info", "announce", "erase_ok", "erase_error"} => link + 1 = N
    /\ pc["server"] = "upctx" =>
         Len(info.vec) <= link + 1 /\ (hist.again \/ Len(info.vec) = link + 1)

\* Nothing points to a channel that has not begun.
FreshInv ==
    \A s \in Sides : chan[s].state = "none" =>
        /\ at[s] = 0
        /\ \A i \in Links :
             upCtx[s][i] # "channel" /\ bt[s][i] \notin {"channel", "check", "notify"}

\* The last endpoint is ready when the server's user has accepted the channel.
AgreeInv ==
    /\ pc["server"] = "erase_ok" => chan["server"].announced
    /\ pc["server"] = "ready" /\ link + 1 = N => hist.again \/ chan["server"].announced
    /\ link = N => hist.again \/ chan["server"].announced
    /\ chan["client"].announced => link = N

SafeInv == Types /\ PhaseInv /\ EpInv /\ OrderInv /\ FreshInv /\ AgreeInv

\* Initialize or what is before it; and from the check of the endpoints to the complete channel.
Early == {"connect", "wait", "emplace", "upctx", "last", "point", "verify", "undo", "establish"}
Critical == {"establish", "emplace_channel", "broken_info"}

\* One thread at most closes a channel and tells the user; with the timing that Prompt stands
\* for it does so before Initialize has looked at all endpoints, and then Initialize fails, or
\* when the channel is complete.
TellAt(s) ==
    /\ chan[s].processed => \A i \in Links : ep[s][i] = "broken"
    /\ ~chan[s].processed => chan[s].told = 0
    /\ \A i \in Links : bt[s][i] = "notify" =>
         /\ chan[s].processed /\ chan[s].told = 0
         /\ \A j \in Links : bt[s][j] = "notify" => j = i
    /\ chan[s].told <= 1
    /\ chan[s].handler => pc[s] \notin Early /\ chan[s].state # "none"
    /\ chan[s].told > 0 => chan[s].handler
    /\ pc[s] \in Critical => ~chan[s].processed /\ chan[s].state # "none"
    /\ chan[s].processed /\ chan[s].handler => chan[s].state \in {"close", "destroy"}

TellInv == \A s \in Sides : TellAt(s)

-----------------------------------------------------------------------------
(* Steps *)

\* Of a function on the sides, the value at s becomes x.
Only(new, old, s, x) == new[s] = x /\ \A t \in Sides : t # s => new[t] = old[t]

\* The channel of s becomes c, as far as the invariants look at it.
Becomes(s, state, broken, handler, processed, told, announced) ==
    /\ chan' \in [Sides -> Channels]
    /\ \A t \in Sides : t # s => chan'[t] = chan[t]
    /\ chan'[s].state = state /\ chan'[s].broken = broken /\ chan'[s].handler = handler
    /\ chan'[s].processed = processed /\ chan'[s].told = told /\ chan'[s].announced = announced

\* The state of a channel changes.
LEMMA StateUpdate ==
  ASSUME NEW s \in Sides, chan \in [Sides -> Channels], NEW x \in ChStates,
         chan' = [chan EXCEPT ![s].state = x]
  PROVE  Becomes(s, x, chan[s].broken, chan[s].handler,
                 chan[s].processed, chan[s].told, chan[s].announced)
BY DEF Channels, Becomes

\* The broken handler is set.
LEMMA HandlerUpdate ==
  ASSUME NEW s \in Sides, chan \in [Sides -> Channels],
         chan' = [chan EXCEPT ![s].handler = TRUE]
  PROVE  Becomes(s, chan[s].state, chan[s].broken, TRUE,
                 chan[s].processed, chan[s].told, chan[s].announced)
BY Zenon DEF Channels, Becomes

\* The channel is put into the map, and perhaps given to the user.
LEMMA MapUpdate ==
  ASSUME NEW s \in Sides, chan \in [Sides -> Channels], NEW a \in BOOLEAN,
         chan' = [chan EXCEPT ![s].inMap = TRUE, ![s].announced = a]
  PROVE  Becomes(s, chan[s].state, chan[s].broken, chan[s].handler,
                 chan[s].processed, chan[s].told, a)
BY ZenonT(40) DEF Channels, Becomes

\* The user gets the channel.
LEMMA AnnounceUpdate ==
  ASSUME NEW s \in Sides, chan \in [Sides -> Channels],
         chan' = [chan EXCEPT ![s].announced = TRUE]
  PROVE  Becomes(s, chan[s].state, chan[s].broken, chan[s].handler,
                 chan[s].processed, chan[s].told, TRUE)
BY DEF Channels, Becomes

\* The user refuses the channel.
LEMMA RefuseUpdate ==
  ASSUME NEW s \in Sides, chan \in [Sides -> Channels],
         chan' = [chan EXCEPT ![s].inMap = FALSE, ![s].state = "close"]
  PROVE  Becomes(s, "close", chan[s].broken, chan[s].handler,
                 chan[s].processed, chan[s].told, chan[s].announced)
BY ZenonT(40) DEF Channels, ChStates, Becomes

\* An endpoint is marked.
LEMMA BrokenUpdate ==
  ASSUME NEW s \in Sides, chan \in [Sides -> Channels], NEW i \in Links,
         chan' = [chan EXCEPT ![s].broken = @ \cup {i}]
  PROVE  Becomes(s, chan[s].state, chan[s].broken \cup {i}, chan[s].handler,
                 chan[s].processed, chan[s].told, chan[s].announced)
BY DEF Channels, Becomes

\* A broken channel is closed.
LEMMA ProcessUpdate ==
  ASSUME NEW s \in Sides, chan \in [Sides -> Channels],
         chan' = [chan EXCEPT ![s].processed = TRUE, ![s].state = "close"]
  PROVE  Becomes(s, "close", chan[s].broken, chan[s].handler,
                 TRUE, chan[s].told, chan[s].announced)
BY ZenonT(40) DEF Channels, ChStates, Becomes

\* The user is told, and the channel erased or its timer set.
LEMMA TellUpdate ==
  ASSUME NEW s \in Sides, chan \in [Sides -> Channels], NEW n \in Nat, NEW timer \in BOOLEAN,
         NEW kept \in BOOLEAN,
         chan' = [chan EXCEPT ![s].told = n, ![s].timer = timer, ![s].inMap = kept]
  PROVE  Becomes(s, chan[s].state, chan[s].broken, chan[s].handler,
                 chan[s].processed, n, chan[s].announced)
BY ZenonT(40) DEF Channels, Becomes

\* The timer erases the channel.
LEMMA EraseUpdate ==
  ASSUME NEW s \in Sides, chan \in [Sides -> Channels],
         chan' = [chan EXCEPT ![s].timer = FALSE, ![s].inMap = FALSE]
  PROVE  Becomes(s, chan[s].state, chan[s].broken, chan[s].handler,
                 chan[s].processed, chan[s].told, chan[s].announced)
BY ZenonT(40) DEF Channels, Becomes

\* What InvokeChannelBrokenCb does to the channel.
LEMMA TellStep ==
  ASSUME NEW s \in Sides, NEW i \in Links, chan \in [Sides -> Channels],
         InvokeChannelBrokenCb(s, i)
  PROVE  Becomes(s, chan[s].state, chan[s].broken, chan[s].handler, chan[s].processed,
                 IF chan[s].handler THEN chan[s].told + 1 ELSE chan[s].told, chan[s].announced)
<1>1. chan[s] \in Channels BY Zenon
<1>2. (IF chan[s].handler THEN chan[s].told + 1 ELSE chan[s].told) \in Nat
  BY <1>1, SMTT(40) DEF Channels
<1>3. PICK timer \in BOOLEAN :
        chan' = [chan EXCEPT ![s].told = IF chan[s].handler THEN @ + 1 ELSE @,
                             ![s].timer = timer, ![s].inMap = @ /\ timer]
  BY Zenon DEF InvokeChannelBrokenCb
<1>4. (chan[s].inMap /\ timer) \in BOOLEAN BY <1>1, Zenon DEF Channels
<1>5. chan' = [chan EXCEPT ![s].told = IF chan[s].handler THEN chan[s].told + 1 ELSE chan[s].told,
                           ![s].timer = timer, ![s].inMap = chan[s].inMap /\ timer]
  BY <1>1, <1>3, SMTT(40) DEF Channels
<1>6. QED BY <1>2, <1>4, <1>5, TellUpdate, Zenon

\* The thread of endpoint i goes on to stage x; nothing is listed by that.
Moves(s, i, x) ==
    /\ bt' \in [Sides -> [Links -> Stages]]
    /\ \A t \in Sides, j \in Links : bt'[t][j] = IF t = s /\ j = i THEN x ELSE bt[t][j]
    /\ listed' \in [Sides -> SUBSET Links]
    /\ \A t \in Sides : listed'[t] \subseteq listed[t]
    /\ UNCHANGED <<pc, link, at, ep, toList, upCtx>>

\* What Goto does.
LEMMA GotoMoves ==
  ASSUME NEW s \in Sides, NEW i \in Links, NEW x \in Stages,
         bt \in [Sides -> [Links -> Stages]], listed \in [Sides -> SUBSET Links], Goto(s, i, x)
  PROVE  Moves(s, i, x)
<1>1. bt' = [bt EXCEPT ![s][i] = x] BY Zenon DEF Goto
<1>2. bt' \in [Sides -> [Links -> Stages]] BY <1>1, Zenon
<1>3. \A t \in Sides, j \in Links : bt'[t][j] = IF t = s /\ j = i THEN x ELSE bt[t][j] BY <1>1,
  Zenon
<1>4. listed' = [listed EXCEPT ![s] = IF x = "done" THEN @ \ {i} ELSE @] BY Zenon DEF Goto
<1>5. listed' \in [Sides -> SUBSET Links] /\ \A t \in Sides : listed'[t] \subseteq listed[t]
  BY <1>4, Zenon
<1>6. UNCHANGED <<pc, link, at, ep, toList, upCtx>> BY Zenon DEF Goto, setupVars
<1>7. QED BY <1>2, <1>3, <1>5, <1>6, Zenon DEF Moves

\* A break that goes on leaves the endpoints as they were.
LEMMA MovesEp ==
  ASSUME Types, EpInv, NEW s \in Sides, NEW i \in Links, NEW x \in Stages, bt[s][i] # "idle",
         Moves(s, i, x)
  PROVE  EpInv'
<1>1. \A t \in Sides : \A j \in Links : bt'[t][j] # "idle" => ep'[t][j] = "broken"
  BY DEF EpInv, Moves
<1>2. \A t \in Sides : \A j \in Links : j \in listed'[t] => ep'[t][j] # "none"
  BY Zenon DEF EpInv, Moves
<1>3. UNCHANGED <<pc, link, ep, toList>> BY Zenon DEF Moves
<1>4. QED BY <1>1, <1>2, <1>3 DEF EpInv

\* A break that goes on and leaves the endpoints covered that were.
LEMMA MovesPhase ==
  ASSUME PhaseInv, NEW s \in Sides, NEW i \in Links, NEW x \in Stages, Moves(s, i, x),
         \A t \in Sides : chan'[t].state = "established" => chan[t].state = "established",
         \A t \in Sides, j \in Links : upCtx[t][j] = "channel" /\ Covered(t, j) => Covered(t, j)'
  PROVE  PhaseInv'
<1>1. UNCHANGED <<pc, at, upCtx>> BY Zenon DEF Moves
<1>2. QED BY <1>1 DEF PhaseInv

\* The loop index of Initialize goes on to the next endpoint, or back to the first.
LEMMA NextIndex ==
  ASSUME NEW k \in Links
  PROVE  (k + 1) % N \in Links /\ (k + 1) % N = IF k + 1 = N THEN 0 ELSE k + 1
<1>1. k \in Nat /\ k + 1 <= N /\ N \in Nat /\ N > 0 BY SetupAssumption DEF Links
<1>2. CASE k + 1 = N BY <1>1, <1>2 DEF Links
<1>3. CASE k + 1 < N BY <1>1, <1>3 DEF Links
<1>4. QED BY <1>1, <1>2, <1>3

\* What Advance does.
LEMMA AdvanceStep ==
  ASSUME NEW s \in Sides, NEW x \in Pcs, pc \in [Sides -> Pcs], at \in [Sides -> Links],
         Advance(s, x)
  PROVE  /\ pc' \in [Sides -> Pcs] /\ at' \in [Sides -> Links]
         /\ Only(pc', pc, s, IF at[s] + 1 = N THEN x ELSE pc[s])
         /\ Only(at', at, s, IF at[s] + 1 = N THEN 0 ELSE at[s] + 1)
<1>1. at[s] \in Links BY Zenon
<1>2. pc' \in [Sides -> Pcs] /\ Only(pc', pc, s, IF at[s] + 1 = N THEN x ELSE pc[s])
  BY Zenon DEF Advance, Only
<1>3. at' \in [Sides -> Links] /\ Only(at', at, s, (at[s] + 1) % N)
  BY <1>1, NextIndex, Zenon DEF Advance, Only
<1>4. QED BY <1>1, <1>2, <1>3, NextIndex, Zenon DEF Only

\* The listener starts with an endpoint that was none.
LEMMA ConnectSafe == ASSUME SafeInv, Connect PROVE SafeInv'
<1> USE SetupAssumption DEF Sides, Links
<1>1. link \in Links /\ link \in Nat /\ pc["client"] = "connect" /\ pc["server"] = "idle"
  BY SetupAssumption DEF Connect, SafeInv, Types, OrderInv
<1>2. \/ /\ pc' = [client |-> "wait", server |-> "emplace"]
         /\ ep' = [ep EXCEPT !["server"][link] = "established"]
      \/ pc' = [pc EXCEPT !["client"] = "close"] /\ UNCHANGED ep
  BY Zenon DEF Connect
<1>3. UNCHANGED <<link, at, listed, toList, upCtx, bt, info, chan, hist>>
  BY Zenon DEF Connect
<1>4. /\ pc' \in [Sides -> Pcs] /\ pc'["server"] \in {"emplace", "idle"}
      /\ pc'["client"] = "wait" \/ (pc'["client"] = "close" /\ pc'["server"] = "idle")
  BY <1>1, <1>2 DEF SafeInv, Types, Pcs
<1>5. /\ ep' \in [Sides -> [Links -> States]]
      /\ \A t \in Sides, j \in Links :
           ep'[t][j] = IF pc'["client"] = "wait" /\ t = "server" /\ j = link
                         THEN "established" ELSE ep[t][j]
  <2>0. ep \in [Sides -> [Links -> States]] BY Zenon DEF SafeInv, Types
  <2>1. CASE pc' = [client |-> "wait", server |-> "emplace"]
    <3>1. ep' = [ep EXCEPT !["server"][link] = "established"] BY <1>1, <1>2, <2>1, Zenon
      DEF SafeInv, Types
    <3>2. pc'["client"] = "wait" BY <2>1, Zenon
    <3>3. QED BY ONLY <3>1, <3>2, <2>0, <1>1, Zenon DEF States, Sides
  <2>2. CASE pc' = [pc EXCEPT !["client"] = "close"] /\ UNCHANGED ep
    BY <2>0, <2>2, Zenon DEF SafeInv, Types
  <2>3. QED BY <1>2, <2>1, <2>2, Zenon
<1> USE <1>1, <1>3, <1>4, <1>5 DEF SafeInv
<1>6. Types' BY Zenon DEF Types
<1>7. PhaseInv' BY Zenon DEF Types, PhaseInv, Covered, OrderInv, FreshInv
<1>8. EpInv' BY DEF Types, EpInv, OrderInv
<1>9. OrderInv' BY Zenon DEF Types, OrderInv, EpInv
<1>10. FreshInv' BY Zenon DEF Types, FreshInv, OrderInv
<1>11. AgreeInv' BY Zenon DEF Types, AgreeInv, OrderInv
<1>12. QED BY ONLY <1>6, <1>7, <1>8, <1>9, <1>10, <1>11, Zenon DEF SafeInv

\* The info is new, or gets one endpoint more; at most as many as were connected.
LEMMA EmplaceNewEndpointSafe == ASSUME SafeInv, EmplaceNewEndpoint PROVE SafeInv'
<1> USE SetupAssumption DEF Sides, Links
<1>1. link \in Links /\ link \in Nat /\ pc["server"] = "emplace" /\ pc["client"] = "wait"
  BY SetupAssumption DEF EmplaceNewEndpoint, SafeInv, Types, OrderInv, EpInv
<1>2. /\ pc' \in [Sides -> Pcs]
      /\ \/ pc'["server"] = "upctx" /\ pc'["client"] = "wait"
         \/ pc'["server"] = "idle" /\ pc'["client"] = "close"
  BY <1>1 DEF EmplaceNewEndpoint, Refuse, SafeInv, Types, Pcs
<1>3. /\ info' \in Infos
      /\ pc'["server"] = "upctx" => Len(info'.vec) <= link + 1
      /\ pc'["server"] = "upctx" => hist'.again \/ Len(info'.vec) = link + 1
  <2>1. info \in Infos /\ <<link>> \in Seq(Links) /\ Len(<<link>>) = 1
    BY <1>1 DEF SafeInv, Types
  <2>2. info.vec \in Seq(Links) BY <2>1, Zenon DEF Infos
  <2>3. Append(info.vec, link) \in Seq(Links) /\ Len(Append(info.vec, link)) = Len(info.vec) + 1
    BY <1>1, <2>2
  <2>4. CASE ~info.inMap
    <3>1. /\ info' = [state |-> "new_ep", vec |-> <<link>>, broken |-> {}, inMap |-> TRUE]
          /\ hist' = [hist EXCEPT !.again = @ \/ link # 0]
      BY <2>4, Zenon DEF EmplaceNewEndpoint
    <3>2. info' \in Infos /\ info'.vec = <<link>> BY <2>1, <3>1, Zenon DEF Infos
    <3>3. hist'.again \/ link = 0 BY <3>1, Zenon DEF SafeInv, Types, Histories
    <3>4. Len(info'.vec) = 1 BY <2>1, <3>2, Zenon
    <3>5. hist'.again \/ Len(info'.vec) = link + 1 BY <1>1, <3>3, <3>4
    <3>6. Len(info'.vec) <= link + 1 BY <1>1, <3>4
    <3>7. QED BY <3>2, <3>5, <3>6, Zenon
  <2>5. CASE info.inMap
    <3>1. /\ info' = [info EXCEPT !.vec = IF Len(info.vec) = link THEN Append(info.vec, link)
                                                               ELSE info.vec]
          /\ Len(info.vec) = link \/ pc'["server"] = "idle"
      BY <2>5 DEF EmplaceNewEndpoint, Refuse
    <3>2. info' \in Infos /\ info'.vec = IF Len(info.vec) = link THEN Append(info.vec, link)
                                                               ELSE info.vec
      BY <2>1, <2>2, <2>3, <3>1, Zenon DEF Infos
    <3>3. Len(info.vec) = link => Len(info'.vec) = link + 1 BY <1>1, <2>3, <3>2, Zenon
    <3>4. Len(info.vec) = link => Len(info'.vec) <= link + 1 BY <1>1, <3>3
    <3>5. QED BY <3>1, <3>2, <3>3, <3>4, Zenon
  <2>6. QED BY <2>4, <2>5, Zenon
<1>4. hist' \in Histories /\ (hist.again => hist'.again)
  BY <1>1, Zenon DEF EmplaceNewEndpoint, SafeInv, Types, Histories
<1>5. UNCHANGED <<link, at, ep, listed, toList, upCtx, bt, chan>>
  BY Zenon DEF EmplaceNewEndpoint, epVars
<1> USE <1>1, <1>2, <1>3, <1>4, <1>5 DEF SafeInv
<1>6. Types' BY Zenon DEF Types
<1>7. PhaseInv' BY Zenon DEF Types, PhaseInv, Covered, OrderInv, FreshInv
<1>8. EpInv' BY DEF Types, EpInv, OrderInv
<1>9. OrderInv' BY Zenon DEF Types, OrderInv, EpInv
<1>10. FreshInv' BY DEF Types, FreshInv, OrderInv
<1>11. AgreeInv' BY Zenon DEF Types, AgreeInv, OrderInv
<1>12. QED BY ONLY <1>6, <1>7, <1>8, <1>9, <1>10, <1>11, Zenon DEF SafeInv

\* The endpoint points to the info, before there is a channel.
LEMMA SetUpCtxSafe == ASSUME SafeInv, SetUpCtx PROVE SafeInv'
<1> USE SetupAssumption DEF Sides, Links
<1>1. link \in Links /\ link \in Nat /\ pc["server"] = "upctx" /\ pc["client"] = "wait"
      /\ chan["server"].state = "none"
  BY SetupAssumption DEF SetUpCtx, SafeInv, Types, OrderInv, EpInv
<1>2. /\ pc' \in [Sides -> Pcs]
      /\ Only(pc', pc, "server", IF Len(info.vec) < N THEN "ready" ELSE "last")
      /\ Len(info.vec) \in Nat
  BY <1>1 DEF SetUpCtx, SafeInv, Types, Pcs, Only, Infos
<1>3. /\ upCtx' \in [Sides -> [Links -> Pointees]]
      /\ \A t \in Sides, j \in Links :
           upCtx'[t][j] = IF t = "server" /\ j = link THEN "info" ELSE upCtx[t][j]
  BY <1>1, Zenon DEF SetUpCtx, SafeInv, Types, Pointees
<1>4. pc'["server"] = "last" => link + 1 = N
  BY <1>1, <1>2, SetupAssumption DEF SetUpCtx, SafeInv, OrderInv, Only
<1>5. UNCHANGED <<link, at, ep, listed, toList, bt, info, chan, hist>>
  BY Zenon DEF SetUpCtx, epVars
<1> USE <1>1, <1>2, <1>3, <1>4, <1>5 DEF SafeInv, Only, Becomes
<1>6. Types' BY Zenon DEF Types
<1>7. PhaseInv' BY DEF Types, PhaseInv, Covered, OrderInv, FreshInv
<1>8. EpInv' BY DEF Types, EpInv, OrderInv
<1>9. OrderInv' BY Zenon DEF Types, OrderInv, EpInv
<1>10. FreshInv' BY DEF Types, FreshInv, OrderInv
<1>11. AgreeInv' BY DEF Types, AgreeInv, OrderInv
<1>12. QED BY ONLY <1>6, <1>7, <1>8, <1>9, <1>10, <1>11, Zenon DEF SafeInv

\* The channel begins, or the last endpoint is refused.
LEMMA LastEndpointSafe == ASSUME SafeInv, LastEndpoint PROVE SafeInv'
<1> USE SetupAssumption DEF Sides, Links
<1>1. pc["server"] = "last" /\ pc["client"] = "wait"
      /\ pc' \in [Sides -> Pcs]
      /\ \/ pc'["server"] = "point" /\ pc'["client"] = "wait"
         \/ pc'["server"] = "idle" /\ pc'["client"] = "close"
  BY DEF LastEndpoint, Refuse, SafeInv, Types, OrderInv, Pcs
<1>2. info' \in Infos
  BY DEF LastEndpoint, SafeInv, Types, Infos
<1>3. UNCHANGED <<link, at, ep, listed, toList, upCtx, bt, chan, hist>>
  BY Zenon DEF LastEndpoint, epVars
<1>4. at["server"] = 0
  BY <1>1, Zenon DEF SafeInv, OrderInv, FreshInv
<1> USE <1>1, <1>2, <1>3, <1>4 DEF SafeInv
<1>5. Types' BY Zenon DEF Types
<1>6. PhaseInv' BY DEF Types, PhaseInv, Covered, OrderInv, FreshInv
<1>7. EpInv' BY DEF Types, EpInv, OrderInv
<1>8. OrderInv' BY Zenon DEF Types, OrderInv, EpInv
<1>9. FreshInv' BY DEF Types, FreshInv, OrderInv
<1>10. AgreeInv' BY Zenon DEF Types, AgreeInv, OrderInv
<1>11. QED BY ONLY <1>5, <1>6, <1>7, <1>8, <1>9, <1>10, Zenon DEF SafeInv

\* The client has its endpoint, or gives up.
LEMMA ReadySafe == ASSUME SafeInv, Ready PROVE SafeInv'
<1> USE SetupAssumption DEF Sides, Links
<1>1. link \in Links /\ link \in Nat /\ pc["server"] = "ready" /\ pc["client"] = "wait"
      /\ chan["client"].state = "none" /\ ep["server"][link] # "none"
  BY DEF Ready, SafeInv, Types, OrderInv, EpInv
<1>2. \/ /\ pc' = [client |-> IF link + 1 = N THEN "point" ELSE "connect", server |-> "idle"]
         /\ link' = link + 1 /\ toList' = toList \cup {link}
         /\ ep' = [ep EXCEPT !["client"][link] = "established"]
         /\ listed' = [listed EXCEPT !["client"] = @ \cup {link}]
         /\ UNCHANGED hist
      \/ /\ pc' = [client |-> "close", server |-> "idle"]
         /\ hist' = [hist EXCEPT !.lost = TRUE]
         /\ UNCHANGED <<link, toList, ep, listed>>
  BY Zenon DEF Ready, Refuse
<1>3. /\ pc' \in [Sides -> Pcs] /\ pc'["server"] = "idle"
      /\ \/ link' = link + 1 /\ pc'["client"] = IF link + 1 = N THEN "point" ELSE "connect"
         \/ link' = link /\ pc'["client"] = "close"
      /\ link' \in Nat /\ link' <= N
  BY <1>1, <1>2 DEF SafeInv, Types, Pcs
<1>4. /\ ep' \in [Sides -> [Links -> States]]
      /\ \A t \in Sides, j \in Links :
           ep'[t][j] = IF link' # link /\ t = "client" /\ j = link
                         THEN "established" ELSE ep[t][j]
  <2>0. ep \in [Sides -> [Links -> States]] BY Zenon DEF SafeInv, Types
  <2>1. CASE ep' = [ep EXCEPT !["client"][link] = "established"] /\ link' = link + 1
    <3>1. link' # link BY <2>1, <1>1
    <3>2. QED BY ONLY <3>1, <2>1, <2>0, <1>1, Zenon DEF States, Sides
  <2>2. CASE UNCHANGED <<link, ep>> BY <2>0, <2>2, Zenon
  <2>3. QED BY <1>2, <2>1, <2>2, Zenon
<1>5. /\ listed' \in [Sides -> SUBSET Links] /\ toList' \subseteq Links
      /\ \A t \in Sides : \A j \in listed'[t] :
           j \in listed[t] \/ (link' # link /\ t = "client" /\ j = link)
      /\ \A j \in toList' : j \in toList \/ j = link
  <2>0. listed \in [Sides -> SUBSET Links] /\ toList \subseteq Links BY Zenon DEF SafeInv, Types
  <2>1. CASE /\ listed' = [listed EXCEPT !["client"] = @ \cup {link}] /\ link' = link + 1
             /\ toList' = toList \cup {link}
    <3>1. link' # link BY <2>1, <1>1
    <3>2. QED BY <3>1, <2>1, <2>0, <1>1, Zenon
  <2>2. CASE UNCHANGED <<link, listed, toList>> BY <2>0, <2>2, Zenon
  <2>3. QED BY <1>2, <2>1, <2>2, Zenon
<1>6. hist' \in Histories /\ hist'.again = hist.again
  BY <1>2, Zenon DEF SafeInv, Types, Histories
<1>7. at["client"] = 0 /\ (link + 1 # N => chan["server"].state = "none")
  BY <1>1 DEF SafeInv, Types, OrderInv, FreshInv
<1>8. UNCHANGED <<at, upCtx, bt, info, chan>>
  BY Zenon DEF Ready
<1>9. EpInv'
  <2>1. CASE link' = link + 1 /\ pc'["client"] = IF link + 1 = N THEN "point" ELSE "connect"
    <3>1. bt["client"][link] = "idle" /\ \A j \in Links : j > link => ep["server"][j] = "none"
      BY <1>1 DEF SafeInv, Types, EpInv
    <3>2. link' # link BY <1>1, <2>1
    <3>3. \A t \in Sides, j \in Links : ep[t][j] # "none" => ep'[t][j] # "none" BY <1>4, Zenon
    <3>4. \A t \in Sides : \A j \in Links : bt[t][j] # "idle" => ep'[t][j] = "broken"
      BY <1>4, <3>1, ZenonT(40) DEF SafeInv, EpInv
    <3>9. \A t \in Sides : \A j \in listed'[t] : ep'[t][j] # "none"
      <4> TAKE t \in Sides
      <4> TAKE j \in listed'[t]
      <4>1. CASE j \in listed[t] BY <3>3, <4>1 DEF SafeInv, Types, EpInv
      <4>2. CASE t = "client" /\ j = link BY <1>1, <1>4, <3>2, <4>2, Zenon
      <4>3. QED BY <1>5, <4>1, <4>2, Zenon
    <3>5. \A j \in toList' : ep'["server"][j] # "none"
      BY <1>1, <1>5, <3>3 DEF SafeInv, Types, EpInv
    <3>6. \A j \in Links : j >= link' => ep'["client"][j] = "none"
      BY <1>1, <1>4, <2>1 DEF SafeInv, EpInv
    <3>7. \A j \in Links : j >= link' => ep'["server"][j] = "none"
      BY <1>1, <1>4, <2>1, <3>1 DEF SafeInv, EpInv
    <3>8. QED BY <1>3, <1>8, <2>1, <3>4, <3>9, <3>5, <3>6, <3>7 DEF EpInv
  <2>2. CASE link' = link /\ pc'["client"] = "close"
    BY <1>1, <1>3, <1>4, <1>5, <1>8, <2>2 DEF SafeInv, Types, EpInv
  <2>3. QED BY <1>3, <2>1, <2>2, Zenon
<1> USE <1>1, <1>3, <1>4, <1>5, <1>6, <1>7, <1>8 DEF SafeInv
<1>10. Types' BY Zenon DEF Types
<1>11. PhaseInv' BY DEF Types, PhaseInv, Covered, OrderInv, FreshInv
<1>12. OrderInv' BY DEF Types, OrderInv, EpInv
<1>13. FreshInv' BY DEF Types, FreshInv, OrderInv
<1>14. AgreeInv' BY DEF Types, AgreeInv, OrderInv
<1>15. QED BY ONLY <1>10, <1>11, <1>9, <1>12, <1>13, <1>14, Zenon DEF SafeInv

\* An endpoint of the server is listed.
LEMMA ListEndpointSafe == ASSUME SafeInv, NEW i \in Links, ListEndpoint(i) PROVE SafeInv'
<1> USE SetupAssumption DEF Sides, Links
<1>1. /\ listed' \in [Sides -> SUBSET Links] /\ toList' \subseteq toList
      /\ \A t \in Sides : \A j \in listed'[t] : j \in listed[t] \/ (t = "server" /\ j \in toList)
  BY Zenon DEF ListEndpoint, SafeInv, Types
<1>2. hist' \in Histories /\ hist'.again = hist.again
  BY Zenon DEF ListEndpoint, SafeInv, Types, Histories
<1>3. UNCHANGED <<pc, link, at, ep, upCtx, bt, info, chan>>
  BY Zenon DEF ListEndpoint, setupVars
<1> USE <1>1, <1>2, <1>3 DEF SafeInv
<1>4. Types' BY Zenon DEF Types
<1>5. PhaseInv' BY DEF Types, PhaseInv, Covered, OrderInv, FreshInv
<1>6. EpInv' BY DEF Types, EpInv, OrderInv
<1>7. OrderInv' BY Zenon DEF Types, OrderInv, EpInv
<1>8. FreshInv' BY Zenon DEF Types, FreshInv, OrderInv
<1>9. AgreeInv' BY Zenon DEF Types, AgreeInv, OrderInv
<1>10. QED BY ONLY <1>4, <1>5, <1>6, <1>7, <1>8, <1>9, Zenon DEF SafeInv

\* The client is through.
LEMMA CloseConnectedSafe == ASSUME SafeInv, CloseConnected PROVE SafeInv'
<1> USE SetupAssumption DEF Sides, Links
<1>1. pc["client"] = "close" /\ pc' \in [Sides -> Pcs] /\ Only(pc', pc, "client", "failed")
  BY Zenon DEF CloseConnected, SafeInv, Types, Pcs, Only
<1>2. UNCHANGED <<link, at, ep, listed, toList, upCtx, bt, info, chan, hist>>
  BY Zenon DEF CloseConnected
<1> USE <1>1, <1>2 DEF SafeInv, Only, Becomes
<1>3. Types' BY Zenon DEF Types
<1>4. PhaseInv' BY DEF Types, PhaseInv, Covered, OrderInv, FreshInv
<1>5. EpInv' BY DEF Types, EpInv, OrderInv
<1>6. OrderInv' BY Zenon DEF Types, OrderInv, EpInv
<1>7. FreshInv' BY Zenon DEF Types, FreshInv, OrderInv
<1>8. AgreeInv' BY Zenon DEF Types, AgreeInv, OrderInv
<1>9. QED BY ONLY <1>3, <1>4, <1>5, <1>6, <1>7, <1>8, Zenon DEF SafeInv

\* One endpoint more points to the channel.
LEMMA SetEpUpCtxSafe == ASSUME SafeInv, NEW s \in Sides, SetEpUpCtx(s) PROVE SafeInv'
<1> USE SetupAssumption DEF Sides, Links
<1>1. pc[s] = "point" /\ at[s] \in Links /\ at[s] \in Nat
  BY SMTT(40) DEF SetEpUpCtx, SafeInv, Types
<1>2. /\ pc' \in [Sides -> Pcs] /\ at' \in [Sides -> Links]
      /\ Only(pc', pc, s, IF at[s] + 1 = N THEN "verify" ELSE "point")
      /\ Only(at', at, s, IF at[s] + 1 = N THEN 0 ELSE at[s] + 1)
  BY <1>1, AdvanceStep, Zenon DEF SetEpUpCtx, SafeInv, Types, Pcs
<1>3. Becomes(s, "new", chan[s].broken, chan[s].handler,
              chan[s].processed, chan[s].told, chan[s].announced)
  BY StateUpdate, Zenon DEF SetEpUpCtx, SafeInv, Types, ChStates
<1>4. /\ upCtx' \in [Sides -> [Links -> Pointees]]
      /\ \A t \in Sides, j \in Links :
           upCtx'[t][j] = IF t = s /\ j = at[s] THEN "channel" ELSE upCtx[t][j]
  BY <1>1, Zenon DEF SetEpUpCtx, SafeInv, Types, Pointees
<1>5. UNCHANGED <<link, ep, listed, toList, bt, info, hist>>
  BY Zenon DEF SetEpUpCtx, epVars
<1> USE <1>1, <1>2, <1>3, <1>4, <1>5 DEF SafeInv, Only, Becomes
<1>6. Types' BY Zenon DEF Types
<1>7. PhaseInv' BY DEF Types, PhaseInv, Covered, OrderInv, FreshInv
<1>8. EpInv' BY DEF Types, EpInv, OrderInv
<1>9. OrderInv' BY DEF Types, OrderInv, EpInv
<1>10. FreshInv' BY DEF Types, FreshInv, OrderInv
<1>11. AgreeInv' BY Zenon DEF Types, AgreeInv, OrderInv
<1>12. QED BY ONLY <1>6, <1>7, <1>8, <1>9, <1>10, <1>11, Zenon DEF SafeInv

\* An endpoint that is not broken now will tell the channel when it breaks.
LEMMA AllEpEstablishedSafe == ASSUME SafeInv, NEW s \in Sides, AllEpEstablished(s) PROVE SafeInv'
<1> USE SetupAssumption DEF Sides, Links
<1>1. pc[s] = "verify" /\ at[s] \in Links /\ at[s] \in Nat /\ chan[s].state # "none"
  BY SMTT(40) DEF AllEpEstablished, SafeInv, Types, PhaseInv, FreshInv
<1>2. /\ pc' \in [Sides -> Pcs] /\ at' \in [Sides -> Links]
      /\ \/ Only(pc', pc, s, "undo") /\ at' = at
         \/ /\ ep[s][at[s]] # "broken"
            /\ Only(pc', pc, s, IF at[s] + 1 = N THEN "establish" ELSE "verify")
            /\ Only(at', at, s, IF at[s] + 1 = N THEN 0 ELSE at[s] + 1)
  <2>0. pc \in [Sides -> Pcs] /\ at \in [Sides -> Links] BY Zenon DEF SafeInv, Types
  <2>1. CASE EpBroken(s, at[s]) BY <2>0, <2>1, SMTT(40) DEF AllEpEstablished, Only, Pcs
  <2>2. CASE ~EpBroken(s, at[s])
    <3>1. Advance(s, "establish") /\ ep[s][at[s]] # "broken" BY <2>2, Zenon
      DEF AllEpEstablished, EpBroken
    <3>2. QED BY <1>1, <2>0, <3>1, AdvanceStep, Zenon DEF Pcs
  <2>3. QED BY <2>1, <2>2, Zenon
<1>3. ep[s][at[s]] # "broken" => Covered(s, at[s])
  BY <1>1, Zenon DEF SafeInv, EpInv, Covered
<1>4. UNCHANGED <<link, ep, listed, toList, upCtx, bt, info, chan, hist>>
  BY Zenon DEF AllEpEstablished, epVars
<1>5. PhaseInv'
  <2>1. \A t \in Sides, j \in Links : Covered(t, j)' <=> Covered(t, j) BY <1>4, Zenon DEF Covered
  <2>2. chan[s].state # "established" /\ \A j \in Links : upCtx[s][j] = "channel"
    BY <1>1, Zenon DEF SafeInv, PhaseInv
  <2>3. \A j \in Links : j < at[s] => Covered(s, j) BY <1>1, Zenon DEF SafeInv, PhaseInv
  <2>4. /\ pc'[s] \notin {"point", "connect"}
        /\ pc'[s] = "verify" => \A j \in Links : j < at'[s] => Covered(s, j)
        /\ pc'[s] = "establish" => \A j \in Links : Covered(s, j)
    <3>1. CASE Only(pc', pc, s, "undo") BY <3>1, Zenon DEF Only
    <3>2. CASE /\ ep[s][at[s]] # "broken"
               /\ Only(pc', pc, s, IF at[s] + 1 = N THEN "establish" ELSE "verify")
               /\ Only(at', at, s, IF at[s] + 1 = N THEN 0 ELSE at[s] + 1)
      BY <1>1, <1>3, <2>3, <3>2 DEF Only
    <3>3. QED BY <1>2, <3>1, <3>2, Zenon
  <2>5. \A t \in Sides : t # s => pc'[t] = pc[t] /\ at'[t] = at[t] BY <1>2, Zenon DEF Only
  <2>6. QED BY <1>4, <2>1, <2>2, <2>4, <2>5 DEF SafeInv, PhaseInv
<1> USE <1>1, <1>2, <1>3, <1>4 DEF SafeInv, Only, Becomes
<1>6. Types' BY Zenon DEF Types
<1>7. EpInv' BY DEF Types, EpInv, OrderInv
<1>8. OrderInv' BY Zenon DEF Types, OrderInv, EpInv
<1>9. FreshInv' BY DEF Types, FreshInv, OrderInv
<1>10. AgreeInv' BY Zenon DEF Types, AgreeInv, OrderInv
<1>11. QED BY ONLY <1>6, <1>5, <1>7, <1>8, <1>9, <1>10, Zenon DEF SafeInv

\* Nothing points to the channel any more.
LEMMA ForceUnInitializeSafe == ASSUME SafeInv, NEW s \in Sides, ForceUnInitialize(s) PROVE SafeInv'
<1> USE SetupAssumption DEF Sides, Links
<1>1. pc[s] = "undo" /\ pc' \in [Sides -> Pcs]
      /\ Only(pc', pc, s, IF s = "client" THEN "close" ELSE "erase_error")
  BY Zenon DEF ForceUnInitialize, SafeInv, Types, Pcs, Only
<1>2. Becomes(s, "destroy", chan[s].broken, chan[s].handler,
              chan[s].processed, chan[s].told, chan[s].announced)
  BY StateUpdate, Zenon DEF ForceUnInitialize, Uninitialized, SafeInv, Types, ChStates
<1>3. /\ upCtx' \in [Sides -> [Links -> Pointees]]
      /\ \A t \in Sides, j \in Links :
           upCtx'[t][j] = IF t = s THEN "none" ELSE upCtx[t][j]
  BY Zenon DEF ForceUnInitialize, Uninitialized, SafeInv, Types, Pointees
<1>4. UNCHANGED <<link, at, ep, listed, toList, bt, info, hist>>
  BY Zenon DEF ForceUnInitialize, epVars
<1> USE <1>1, <1>2, <1>3, <1>4 DEF SafeInv, Only, Becomes
<1>5. Types' BY Zenon DEF Types
<1>6. PhaseInv' BY DEF Types, PhaseInv, Covered, OrderInv, FreshInv
<1>7. EpInv' BY DEF Types, EpInv, OrderInv
<1>8. OrderInv' BY DEF Types, OrderInv, EpInv
<1>9. FreshInv' BY DEF Types, FreshInv, OrderInv
<1>10. AgreeInv' BY Zenon DEF Types, AgreeInv, OrderInv
<1>11. QED BY ONLY <1>5, <1>6, <1>7, <1>8, <1>9, <1>10, Zenon DEF SafeInv

\* The channel is established with all its endpoints pointing to it.
LEMMA EstablishSafe == ASSUME SafeInv, NEW s \in Sides, Establish(s) PROVE SafeInv'
<1> USE SetupAssumption DEF Sides, Links
<1>1. pc[s] = "establish" /\ pc' \in [Sides -> Pcs]
      /\ Only(pc', pc, s, IF s = "client" THEN "broken_info" ELSE "emplace_channel")
  BY Zenon DEF Establish, SafeInv, Types, Pcs, Only
<1>2. Becomes(s, "established", chan[s].broken, chan[s].handler,
              chan[s].processed, chan[s].told, chan[s].announced)
  BY StateUpdate, Zenon DEF Establish, SafeInv, Types, ChStates
<1>3. UNCHANGED <<link, at, ep, listed, toList, upCtx, bt, info, hist>>
  BY Zenon DEF Establish, epVars
<1> USE <1>1, <1>2, <1>3 DEF SafeInv, Only, Becomes
<1>4. Types' BY Zenon DEF Types
<1>5. PhaseInv' BY DEF Types, PhaseInv, Covered, OrderInv, FreshInv
<1>6. EpInv' BY DEF Types, EpInv, OrderInv
<1>7. OrderInv' BY DEF Types, OrderInv, EpInv
<1>8. FreshInv' BY ZenonT(40) DEF Types, FreshInv, OrderInv
<1>9. AgreeInv' BY Zenon DEF Types, AgreeInv, OrderInv
<1>10. QED BY ONLY <1>4, <1>5, <1>6, <1>7, <1>8, <1>9, Zenon DEF SafeInv

\* The channel has its handler.
LEMMA SetBrokenInfoSafe == ASSUME SafeInv, NEW s \in Sides, SetBrokenInfo(s) PROVE SafeInv'
<1> USE SetupAssumption DEF Sides, Links
<1>1. pc[s] = "broken_info" /\ pc' \in [Sides -> Pcs]
      /\ Only(pc', pc, s, IF s = "client" THEN "emplace_channel" ELSE "announce")
  BY Zenon DEF SetBrokenInfo, SafeInv, Types, Pcs, Only
<1>2. Becomes(s, chan[s].state, chan[s].broken, TRUE,
              chan[s].processed, chan[s].told, chan[s].announced)
  BY HandlerUpdate, Zenon DEF SetBrokenInfo, SafeInv, Types, ChStates
<1>3. UNCHANGED <<link, at, ep, listed, toList, upCtx, bt, info, hist>>
  BY Zenon DEF SetBrokenInfo, epVars
<1> USE <1>1, <1>2, <1>3 DEF SafeInv, Only, Becomes
<1>4. Types' BY Zenon DEF Types
<1>5. PhaseInv' BY DEF Types, PhaseInv, Covered, OrderInv, FreshInv
<1>6. EpInv' BY DEF Types, EpInv, OrderInv
<1>7. OrderInv' BY DEF Types, OrderInv, EpInv
<1>8. FreshInv' BY DEF Types, FreshInv, OrderInv
<1>9. AgreeInv' BY Zenon DEF Types, AgreeInv, OrderInv
<1>10. QED BY ONLY <1>4, <1>5, <1>6, <1>7, <1>8, <1>9, Zenon DEF SafeInv

\* The client has the channel when it has all endpoints.
LEMMA EmplaceChannelUuidSafe ==
  ASSUME SafeInv, NEW s \in Sides, EmplaceChannelUuid(s)
  PROVE  SafeInv'
<1> USE SetupAssumption DEF Sides, Links
<1>1. pc[s] = "emplace_channel" /\ pc' \in [Sides -> Pcs]
      /\ Only(pc', pc, s, IF s = "client" THEN "up" ELSE "broken_info")
  BY SMTT(40) DEF EmplaceChannelUuid, SafeInv, Types, Pcs, Only
<1>2. Becomes(s, chan[s].state, chan[s].broken, chan[s].handler,
              chan[s].processed, chan[s].told, (s = "client"))
  BY MapUpdate, Zenon DEF EmplaceChannelUuid, SafeInv, Types, ChStates
<1>3. UNCHANGED <<link, at, ep, listed, toList, upCtx, bt, info, hist>>
  BY Zenon DEF EmplaceChannelUuid, epVars
<1> USE <1>1, <1>2, <1>3 DEF SafeInv, Only, Becomes
<1>4. Types' BY Zenon DEF Types
<1>5. PhaseInv' BY DEF Types, PhaseInv, Covered, OrderInv, FreshInv
<1>6. EpInv' BY DEF Types, EpInv, OrderInv
<1>7. OrderInv' BY DEF Types, OrderInv, EpInv
<1>8. FreshInv' BY DEF Types, FreshInv, OrderInv
<1>9. AgreeInv' BY DEF Types, AgreeInv, OrderInv
<1>10. QED BY ONLY <1>4, <1>5, <1>6, <1>7, <1>8, <1>9, Zenon DEF SafeInv

\* The user of the server takes the channel or refuses it.
LEMMA AnnounceSafe == ASSUME SafeInv, Announce PROVE SafeInv'
<1> USE SetupAssumption DEF Sides, Links
<1>1. pc["server"] = "announce" /\ pc' \in [Sides -> Pcs]
      /\ \/ /\ Only(pc', pc, "server", "erase_ok")
            /\ chan' = [chan EXCEPT !["server"].announced = TRUE]
         \/ /\ Only(pc', pc, "server", "erase_error")
            /\ chan' = [chan EXCEPT !["server"].inMap = FALSE, !["server"].state = "close"]
  BY ZenonT(40) DEF Announce, SafeInv, Types, Pcs, Only
<1>2. \/ /\ Only(pc', pc, "server", "erase_ok")
         /\ Becomes("server", chan["server"].state, chan["server"].broken, chan["server"].handler,
                chan["server"].processed, chan["server"].told, TRUE)
      \/ /\ Only(pc', pc, "server", "erase_error")
         /\ Becomes("server", "close", chan["server"].broken, chan["server"].handler,
                chan["server"].processed, chan["server"].told, chan["server"].announced)
  BY <1>1, AnnounceUpdate, RefuseUpdate, Zenon DEF SafeInv, Types
<1>3. UNCHANGED <<link, at, ep, listed, toList, upCtx, bt, info, hist>>
  BY Zenon DEF Announce
<1>4. pc["server"] = "announce" /\ pc' \in [Sides -> Pcs]
  BY <1>1, Zenon
<1> USE <1>2, <1>3, <1>4 DEF SafeInv, Only, Becomes
<1>5. Types' BY Zenon DEF Types
<1>6. PhaseInv' BY DEF Types, PhaseInv, Covered, OrderInv, FreshInv
<1>7. EpInv' BY DEF Types, EpInv, OrderInv
<1>8. OrderInv' BY Zenon DEF Types, OrderInv, EpInv
<1>9. FreshInv' BY DEF Types, FreshInv, OrderInv
<1>10. AgreeInv' BY Zenon DEF Types, AgreeInv, OrderInv
<1>11. QED BY ONLY <1>5, <1>6, <1>7, <1>8, <1>9, <1>10, Zenon DEF SafeInv

\* The listener is through with the last endpoint.
LEMMA EraseNewEpSafe == ASSUME SafeInv, EraseNewEp PROVE SafeInv'
<1> USE SetupAssumption DEF Sides, Links
<1>1. /\ pc["server"] \in {"erase_ok", "erase_error"} /\ pc["client"] = "wait"
      /\ pc' \in [Sides -> Pcs]
      /\ \/ pc["server"] = "erase_ok" /\ Only(pc', pc, "server", "ready")
         \/ pc'["server"] = "idle" /\ pc'["client"] = "close"
  BY DEF EraseNewEp, Refuse, SafeInv, Types, OrderInv, Pcs, Only
<1>2. info' \in Infos
  BY Zenon DEF EraseNewEp, SafeInv, Types, Infos
<1>3. UNCHANGED <<link, at, ep, listed, toList, upCtx, bt, chan, hist>>
  BY Zenon DEF EraseNewEp, epVars
<1> USE <1>1, <1>2, <1>3 DEF SafeInv, Only, Becomes
<1>4. Types' BY Zenon DEF Types
<1>5. PhaseInv' BY DEF Types, PhaseInv, Covered, OrderInv, FreshInv
<1>6. EpInv' BY DEF Types, EpInv, OrderInv
<1>7. OrderInv' BY DEF Types, OrderInv, EpInv
<1>8. FreshInv' BY Zenon DEF Types, FreshInv, OrderInv
<1>9. AgreeInv' BY Zenon DEF Types, AgreeInv, OrderInv
<1>10. QED BY ONLY <1>4, <1>5, <1>6, <1>7, <1>8, <1>9, Zenon DEF SafeInv

\* The user closes the channel.
LEMMA DisconnectSafe == ASSUME SafeInv, NEW s \in Sides, Disconnect(s) PROVE SafeInv'
<1> USE SetupAssumption DEF Sides, Links
<1>1. Becomes(s, "close", chan[s].broken, chan[s].handler,
              chan[s].processed, chan[s].told, chan[s].announced)
  BY StateUpdate, Zenon DEF Disconnect, SafeInv, Types, ChStates
<1>2. chan[s].state = "established"
  BY Zenon DEF Disconnect
<1>3. UNCHANGED <<pc, link, at, ep, listed, toList, upCtx, bt, info, hist>>
  BY Zenon DEF Disconnect, setupVars
<1> USE <1>1, <1>2, <1>3 DEF SafeInv, Only, Becomes
<1>4. Types' BY Zenon DEF Types
<1>5. PhaseInv' BY DEF Types, PhaseInv, Covered, OrderInv, FreshInv
<1>6. EpInv' BY DEF Types, EpInv, OrderInv
<1>7. OrderInv' BY Zenon DEF Types, OrderInv, EpInv
<1>8. FreshInv' BY DEF Types, FreshInv, OrderInv
<1>9. AgreeInv' BY Zenon DEF Types, AgreeInv, OrderInv
<1>10. QED BY ONLY <1>4, <1>5, <1>6, <1>7, <1>8, <1>9, Zenon DEF SafeInv

\* Nothing points to the channel any more.
LEMMA DestructSafe == ASSUME SafeInv, NEW s \in Sides, Destruct(s) PROVE SafeInv'
<1> USE SetupAssumption DEF Sides, Links
<1>1. Becomes(s, "destroy", chan[s].broken, chan[s].handler,
              chan[s].processed, chan[s].told, chan[s].announced)
  BY StateUpdate, Zenon DEF Destruct, Uninitialized, SafeInv, Types, ChStates
<1>2. /\ upCtx' \in [Sides -> [Links -> Pointees]]
      /\ \A t \in Sides, j \in Links :
           upCtx'[t][j] = IF t = s THEN "none" ELSE upCtx[t][j]
  BY Zenon DEF Destruct, Uninitialized, SafeInv, Types, Pointees
<1>3. pc[s] \in {"idle", "up", "failed"} /\ chan[s].state = "close"
  BY Zenon DEF Destruct
<1>4. UNCHANGED <<pc, link, at, ep, listed, toList, bt, info, hist>>
  BY Zenon DEF Destruct, setupVars, epVars
<1> USE <1>1, <1>2, <1>3, <1>4 DEF SafeInv, Only, Becomes
<1>5. Types' BY Zenon DEF Types
<1>6. PhaseInv' BY DEF Types, PhaseInv, Covered, OrderInv, FreshInv
<1>7. EpInv' BY DEF Types, EpInv, OrderInv
<1>8. OrderInv' BY DEF Types, OrderInv, EpInv
<1>9. FreshInv' BY DEF Types, FreshInv, OrderInv
<1>10. AgreeInv' BY Zenon DEF Types, AgreeInv, OrderInv
<1>11. QED BY ONLY <1>5, <1>6, <1>7, <1>8, <1>9, <1>10, Zenon DEF SafeInv

\* A fault leaves everything but the queue pair as it was.
LEMMA QpErrorSafe == ASSUME SafeInv, NEW s \in Sides, NEW i \in Links, QpError(s, i) PROVE SafeInv'
<1> USE SetupAssumption DEF Sides, Links
<1>1. UNCHANGED <<pc, link, at, ep, listed, toList, upCtx, bt, info, chan, hist>>
  BY Zenon DEF QpError, setupVars
<1> USE <1>1 DEF SafeInv
<1>2. Types' BY SMTT(40) DEF Types
<1>3. PhaseInv' BY DEF Types, PhaseInv, Covered, OrderInv, FreshInv
<1>4. EpInv' BY DEF Types, EpInv, OrderInv
<1>5. OrderInv' BY Zenon DEF Types, OrderInv, EpInv
<1>6. FreshInv' BY Zenon DEF Types, FreshInv, OrderInv
<1>7. AgreeInv' BY Zenon DEF Types, AgreeInv, OrderInv
<1>8. QED BY ONLY <1>2, <1>3, <1>4, <1>5, <1>6, <1>7, Zenon DEF SafeInv

\* An endpoint that is listed breaks.
LEMMA DetectHbStateSafe ==
  ASSUME SafeInv, NEW s \in Sides, NEW i \in Links, DetectHbState(s, i)
  PROVE  SafeInv'
<1> USE SetupAssumption DEF Sides, Links
<1>1. /\ ep' \in [Sides -> [Links -> States]]
      /\ \A t \in Sides, j \in Links :
           ep'[t][j] = IF t = s /\ j = i THEN "broken" ELSE ep[t][j]
  BY Zenon DEF DetectHbState, SafeInv, Types, States
<1>2. ep[s][i] # "none"
  BY Zenon DEF DetectHbState, SafeInv, EpInv
<1>3. UNCHANGED <<pc, link, at, listed, toList, upCtx, bt, info, chan, hist>>
  BY Zenon DEF DetectHbState, setupVars
<1> USE <1>1, <1>2, <1>3 DEF SafeInv
<1>4. Types' BY Zenon DEF Types
<1>5. PhaseInv' BY SMTT(40) DEF Types, PhaseInv, Covered, OrderInv, FreshInv
<1>6. EpInv' BY DEF Types, EpInv, OrderInv
<1>7. OrderInv' BY Zenon DEF Types, OrderInv, EpInv
<1>8. FreshInv' BY Zenon DEF Types, FreshInv, OrderInv
<1>9. AgreeInv' BY Zenon DEF Types, AgreeInv, OrderInv
<1>10. QED BY ONLY <1>4, <1>5, <1>6, <1>7, <1>8, <1>9, Zenon DEF SafeInv

\* The state is set before the UpCtx is read.
LEMMA ProcessEpErrorSafe ==
  ASSUME SafeInv, NEW s \in Sides, NEW i \in Links, ProcessEpError(s, i)
  PROVE  SafeInv'
<1> USE SetupAssumption DEF Sides, Links
<1>1. /\ ep' \in [Sides -> [Links -> States]]
      /\ \A t \in Sides, j \in Links :
           ep'[t][j] = IF t = s /\ j = i THEN "broken" ELSE ep[t][j]
  BY Zenon DEF ProcessEpError, SafeInv, Types, States
<1>2. ep[s][i] # "none" /\ bt[s][i] = "idle"
  BY Zenon DEF ProcessEpError, Held
<1>3. /\ bt' \in [Sides -> [Links -> Stages]]
      /\ \A t \in Sides, j \in Links : bt'[t][j] = IF t = s /\ j = i THEN "read" ELSE bt[t][j]
  BY Zenon DEF ProcessEpError, SafeInv, Types, Stages
<1>4. UNCHANGED <<pc, link, at, listed, toList, upCtx, info, chan, hist>>
  BY Zenon DEF ProcessEpError, setupVars
<1>5. EpInv'
  <2>1. \A t \in Sides, j \in Links : ep'[t][j] = "none" <=> ep[t][j] = "none" BY <1>1, <1>2, Zenon
  <2>2. \A t \in Sides, j \in Links : bt'[t][j] # "idle" => ep'[t][j] = "broken"
    <3> TAKE t \in Sides, j \in Links
    <3>1. CASE t = s /\ j = i BY <1>1, <3>1, Zenon
    <3>2. CASE ~(t = s /\ j = i)
      <4>1. bt'[t][j] = bt[t][j] /\ ep'[t][j] = ep[t][j] BY <1>1, <1>3, <3>2, Zenon
      <4>2. QED BY <4>1, Zenon DEF SafeInv, EpInv
    <3>3. QED BY <3>1, <3>2, Zenon
  <2>3. /\ \A t \in Sides : \A j \in Links : j \in listed[t] => ep'[t][j] # "none"
        /\ \A j \in toList : ep'["server"][j] # "none"
    BY <2>1, ZenonT(40) DEF SafeInv, Types, EpInv
  <2>4. /\ \A j \in Links : j >= link => ep'["client"][j] = "none"
        /\ pc["client"] = "connect" => \A j \in Links : j >= link => ep'["server"][j] = "none"
        /\ pc["client"] = "wait" => \A j \in Links : j > link => ep'["server"][j] = "none"
        /\ pc["server"] # "idle" => link < N /\ ep'["server"][link] # "none"
    BY <2>1 DEF SafeInv, Types, EpInv
  <2>5. QED BY <1>4, <2>2, <2>3, <2>4 DEF EpInv
<1> USE <1>1, <1>2, <1>3, <1>4 DEF SafeInv
<1>6. Types' BY Zenon DEF Types
<1>7. PhaseInv' BY DEF Types, PhaseInv, Covered, OrderInv, FreshInv
<1>8. OrderInv' BY Zenon DEF Types, OrderInv, EpInv
<1>9. FreshInv' BY DEF Types, FreshInv, OrderInv
<1>10. AgreeInv' BY Zenon DEF Types, AgreeInv, OrderInv
<1>11. QED BY ONLY <1>6, <1>7, <1>5, <1>8, <1>9, <1>10, Zenon DEF SafeInv

-----------------------------------------------------------------------------
(* ServiceEndPointBroken *)

\* A break that finds the channel will tell it.
LEMMA ReadUpCtxSafe ==
  ASSUME SafeInv, NEW s \in Sides, NEW i \in Links, ReadUpCtx(s, i)
  PROVE  SafeInv'
<1> USE SetupAssumption DEF Sides, Links
<1>1. bt[s][i] = "read" /\ upCtx[s][i] \in Pointees
  BY Zenon DEF ReadUpCtx, SafeInv, Types
<1>2. PICK x \in {"done", "info", "channel"} :
        Goto(s, i, x) /\ (x = "channel" <=> upCtx[s][i] = "channel")
  BY <1>1, Zenon DEF ReadUpCtx, Pointees
<1>3. Moves(s, i, x)
  BY <1>2, GotoMoves, ZenonT(40) DEF SafeInv, Types, Stages
<1>4. hist' \in Histories /\ hist'.again = hist.again
  BY Zenon DEF ReadUpCtx, SafeInv, Types, Histories
<1>5. UNCHANGED <<info, chan>>
  BY Zenon DEF ReadUpCtx
<1>6. PhaseInv'
  <2>1. \A t \in Sides, j \in Links : upCtx[t][j] = "channel" /\ Covered(t, j) => Covered(t, j)'
    BY <1>1, <1>2, <1>3, <1>5 DEF Covered, Moves, Becomes
  <2>2. \A t \in Sides : chan'[t].state = "established" => chan[t].state = "established"
    BY <1>1, <1>2, <1>3, <1>5, Zenon DEF SafeInv, Types, Becomes
  <2>3. QED BY <1>1, <1>2, <1>3, <1>5, <2>1, <2>2, MovesPhase, Zenon DEF SafeInv, Stages
<1>7. EpInv' BY <1>1, <1>2, <1>3, <1>5, MovesEp, Zenon DEF SafeInv, Stages
<1> USE <1>1, <1>2, <1>3, <1>4, <1>5 DEF SafeInv, Only, Becomes, Moves
<1>8. Types' BY Zenon DEF Types
<1>9. OrderInv' BY Zenon DEF Types, OrderInv, EpInv
<1>10. FreshInv' BY DEF Types, FreshInv, OrderInv
<1>11. AgreeInv' BY Zenon DEF Types, AgreeInv, OrderInv
<1>12. QED BY ONLY <1>8, <1>6, <1>7, <1>9, <1>10, <1>11, Zenon DEF SafeInv

\* The info keeps its endpoints.
LEMMA AllEPBrokenSafe == ASSUME SafeInv, NEW i \in Links, AllEPBroken(i) PROVE SafeInv'
<1> USE SetupAssumption DEF Sides, Links
<1>1. bt["server"][i] = "info"
  BY Zenon DEF AllEPBroken
<1>2. PICK x \in {"done", "erase"} : Goto("server", i, x)
  BY Zenon DEF AllEPBroken
<1>3. Moves("server", i, x)
  BY <1>2, GotoMoves, Zenon DEF SafeInv, Types, Stages
<1>4. info' \in Infos /\ info'.vec = info.vec
  <2>0. info \in Infos BY Zenon DEF SafeInv, Types
  <2>1. CASE info' = info BY <2>0, <2>1, Zenon
  <2>2. CASE \E b \in SUBSET Links, e \in {info.state, "ep_broken"} :
               info' = [info EXCEPT !.broken = b, !.state = e]
    BY <2>0, <2>2, Zenon DEF Infos
  <2>3. info.broken \cup {i} \in SUBSET Links BY <2>0, Zenon DEF Infos
  <2>4. QED BY <2>1, <2>2, <2>3, Zenon DEF AllEPBroken
<1>5. UNCHANGED <<chan, hist>>
  BY Zenon DEF AllEPBroken
<1>6. PhaseInv'
  <2>1. \A t \in Sides, j \in Links : upCtx[t][j] = "channel" /\ Covered(t, j) => Covered(t, j)'
    BY <1>1, <1>3, <1>5, Zenon DEF Covered, Moves, Becomes
  <2>2. \A t \in Sides : chan'[t].state = "established" => chan[t].state = "established"
    BY <1>1, <1>3, <1>5, Zenon DEF SafeInv, Types, Becomes
  <2>3. QED BY <1>1, <1>3, <1>5, <2>1, <2>2, MovesPhase, Zenon DEF SafeInv, Stages
<1>7. EpInv' BY <1>1, <1>3, <1>5, MovesEp, Zenon DEF SafeInv, Stages
<1> USE <1>1, <1>3, <1>4, <1>5 DEF SafeInv, Only, Becomes, Moves
<1>8. Types' BY Zenon DEF Types
<1>9. OrderInv' BY Zenon DEF Types, OrderInv, EpInv
<1>10. FreshInv' BY DEF Types, FreshInv, OrderInv
<1>11. AgreeInv' BY Zenon DEF Types, AgreeInv, OrderInv
<1>12. QED BY ONLY <1>8, <1>6, <1>7, <1>9, <1>10, <1>11, Zenon DEF SafeInv

\* The info leaves the map.
LEMMA EraseBrokenSafe == ASSUME SafeInv, NEW i \in Links, EraseBroken(i) PROVE SafeInv'
<1> USE SetupAssumption DEF Sides, Links
<1>1. bt["server"][i] = "erase" /\ Moves("server", i, "done")
  BY GotoMoves, SMTT(40) DEF EraseBroken, SafeInv, Types, Stages
<1>2. info' \in Infos /\ info'.vec = info.vec
  BY Zenon DEF EraseBroken, SafeInv, Types, Infos
<1>3. UNCHANGED <<chan, hist>>
  BY Zenon DEF EraseBroken
<1>4. PhaseInv'
  <2>1. \A t \in Sides, j \in Links : upCtx[t][j] = "channel" /\ Covered(t, j) => Covered(t, j)'
    BY <1>1, <1>3, Zenon DEF Covered, Moves, Becomes
  <2>2. \A t \in Sides : chan'[t].state = "established" => chan[t].state = "established"
    BY <1>1, <1>3, Zenon DEF SafeInv, Types, Becomes
  <2>3. QED BY <1>1, <1>3, <2>1, <2>2, MovesPhase, Zenon DEF SafeInv, Stages
<1>5. EpInv' BY <1>1, <1>3, MovesEp, Zenon DEF SafeInv, Stages
<1> USE <1>1, <1>2, <1>3 DEF SafeInv, Only, Becomes, Moves
<1>6. Types' BY Zenon DEF Types
<1>7. OrderInv' BY Zenon DEF Types, OrderInv, EpInv
<1>8. FreshInv' BY DEF Types, FreshInv, OrderInv
<1>9. AgreeInv' BY Zenon DEF Types, AgreeInv, OrderInv
<1>10. QED BY ONLY <1>6, <1>4, <1>5, <1>7, <1>8, <1>9, Zenon DEF SafeInv

\* The channel is told.
LEMMA SetEpBrokenSafe ==
  ASSUME SafeInv, NEW s \in Sides, NEW i \in Links, SetEpBroken(s, i)
  PROVE  SafeInv'
<1> USE SetupAssumption DEF Sides, Links
<1>1. bt[s][i] = "channel" /\ Moves(s, i, "check")
  BY GotoMoves, Zenon DEF SetEpBroken, SafeInv, Types, Stages
<1>2. Becomes(s, chan[s].state, chan[s].broken \cup {i}, chan[s].handler,
              chan[s].processed, chan[s].told, chan[s].announced)
  BY BrokenUpdate, Zenon DEF SetEpBroken, SafeInv, Types
<1>3. UNCHANGED <<info, hist>>
  BY Zenon DEF SetEpBroken
<1>4. PhaseInv'
  <2>1. \A t \in Sides, j \in Links : upCtx[t][j] = "channel" /\ Covered(t, j) => Covered(t, j)'
    BY <1>1, <1>2, <1>3 DEF Covered, Moves, Becomes
  <2>2. \A t \in Sides : chan'[t].state = "established" => chan[t].state = "established"
    BY <1>1, <1>2, <1>3, Zenon DEF SafeInv, Types, Becomes
  <2>3. QED BY <1>1, <1>2, <1>3, <2>1, <2>2, MovesPhase, Zenon DEF SafeInv, Stages
<1>5. EpInv' BY <1>1, <1>2, <1>3, MovesEp, Zenon DEF SafeInv, Stages
<1> USE <1>1, <1>2, <1>3 DEF SafeInv, Only, Becomes, Moves
<1>6. Types' BY Zenon DEF Types
<1>7. OrderInv' BY DEF Types, OrderInv, EpInv
<1>8. FreshInv' BY DEF Types, FreshInv, OrderInv
<1>9. AgreeInv' BY Zenon DEF Types, AgreeInv, OrderInv
<1>10. QED BY ONLY <1>6, <1>4, <1>5, <1>7, <1>8, <1>9, Zenon DEF SafeInv

\* The channel is closed, or the thread is through.
LEMMA NeedProcessBrokenSafe ==
  ASSUME SafeInv, NEW s \in Sides, NEW i \in Links, NeedProcessBroken(s, i)
  PROVE  SafeInv'
<1> USE SetupAssumption DEF Sides, Links
<1>1. /\ bt[s][i] = "check"
      /\ \/ Goto(s, i, "done") /\ chan' = chan
         \/ /\ Goto(s, i, "notify")
            /\ chan' = [chan EXCEPT ![s].processed = TRUE, ![s].state = "close"]
  BY Zenon DEF NeedProcessBroken
<1>2. /\ bt[s][i] = "check"
      /\ \/ Moves(s, i, "done") /\ chan' = chan
         \/ /\ Moves(s, i, "notify")
            /\ Becomes(s, "close", chan[s].broken, chan[s].handler,
                   TRUE, chan[s].told, chan[s].announced)
  BY <1>1, GotoMoves, ProcessUpdate, Zenon DEF SafeInv, Types, Stages
<1>3. UNCHANGED <<info, hist>>
  BY Zenon DEF NeedProcessBroken
<1>4. PICK x \in {"done", "notify"} : Moves(s, i, x)
  BY <1>2, Zenon
<1>5. /\ chan' \in [Sides -> Channels]
      /\ \A t \in Sides : /\ chan'[t].state = chan[t].state \/ (t = s /\ chan'[t].state = "close")
                         /\ chan'[t].broken = chan[t].broken
                         /\ chan'[t].announced = chan[t].announced
  BY <1>2, Zenon DEF SafeInv, Types, Becomes
<1>6. bt[s][i] = "check" /\ chan[s].state # "none"
  BY <1>2, Zenon DEF SafeInv, FreshInv
<1>7. PhaseInv'
  <2>1. \A t \in Sides, j \in Links : upCtx[t][j] = "channel" /\ Covered(t, j) => Covered(t, j)'
    BY <1>3, <1>4, <1>5, <1>6 DEF Covered, Moves, Becomes
  <2>2. \A t \in Sides : chan'[t].state = "established" => chan[t].state = "established"
    BY <1>3, <1>4, <1>5, <1>6, Zenon DEF SafeInv, Types, Becomes
  <2>3. QED BY <1>3, <1>4, <1>5, <1>6, <2>1, <2>2, MovesPhase, Zenon DEF SafeInv, Stages
<1>8. EpInv' BY <1>3, <1>4, <1>5, <1>6, MovesEp, Zenon DEF SafeInv, Stages
<1> USE <1>3, <1>4, <1>5, <1>6 DEF SafeInv, Only, Becomes, Moves
<1>9. Types' BY Zenon DEF Types
<1>10. OrderInv' BY Zenon DEF Types, OrderInv, EpInv
<1>11. FreshInv' BY DEF Types, FreshInv, OrderInv
<1>12. AgreeInv' BY Zenon DEF Types, AgreeInv, OrderInv
<1>13. QED BY ONLY <1>9, <1>7, <1>8, <1>10, <1>11, <1>12, Zenon DEF SafeInv

\* The user is told.
LEMMA InvokeChannelBrokenCbSafe ==
  ASSUME SafeInv, NEW s \in Sides, NEW i \in Links, InvokeChannelBrokenCb(s, i)
  PROVE  SafeInv'
<1> USE SetupAssumption DEF Sides, Links
<1>1. bt[s][i] = "notify" /\ Moves(s, i, "done")
  BY GotoMoves, Zenon DEF InvokeChannelBrokenCb, SafeInv, Types, Stages
<1>2. Becomes(s, chan[s].state, chan[s].broken, chan[s].handler,
              chan[s].processed, IF chan[s].handler THEN chan[s].told + 1 ELSE chan[s].told,
                   chan[s].announced)
  BY TellStep, Zenon DEF SafeInv, Types
<1>3. UNCHANGED <<info, hist>>
  BY Zenon DEF InvokeChannelBrokenCb
<1>4. PhaseInv'
  <2>1. \A t \in Sides, j \in Links : upCtx[t][j] = "channel" /\ Covered(t, j) => Covered(t, j)'
    BY <1>1, <1>2, <1>3 DEF Covered, Moves, Becomes
  <2>2. \A t \in Sides : chan'[t].state = "established" => chan[t].state = "established"
    BY <1>1, <1>2, <1>3, Zenon DEF SafeInv, Types, Becomes
  <2>3. QED BY <1>1, <1>2, <1>3, <2>1, <2>2, MovesPhase, Zenon DEF SafeInv, Stages
<1>5. EpInv' BY <1>1, <1>2, <1>3, MovesEp, Zenon DEF SafeInv, Stages
<1> USE <1>1, <1>2, <1>3 DEF SafeInv, Only, Becomes, Moves
<1>6. Types' BY Zenon DEF Types
<1>7. OrderInv' BY DEF Types, OrderInv, EpInv
<1>8. FreshInv' BY DEF Types, FreshInv, OrderInv
<1>9. AgreeInv' BY Zenon DEF Types, AgreeInv, OrderInv
<1>10. QED BY ONLY <1>6, <1>4, <1>5, <1>7, <1>8, <1>9, Zenon DEF SafeInv

\* The maps lose the channel.
LEMMA EraseChannelSafe == ASSUME SafeInv, NEW s \in Sides, EraseChannel(s) PROVE SafeInv'
<1> USE SetupAssumption DEF Sides, Links
<1>1. Becomes(s, chan[s].state, chan[s].broken, chan[s].handler,
              chan[s].processed, chan[s].told, chan[s].announced)
  BY EraseUpdate, Zenon DEF EraseChannel, SafeInv, Types
<1>2. UNCHANGED <<pc, link, at, ep, listed, toList, upCtx, bt, info, hist>>
  BY Zenon DEF EraseChannel, setupVars, epVars
<1> USE <1>1, <1>2 DEF SafeInv, Only, Becomes
<1>3. Types' BY Zenon DEF Types
<1>4. PhaseInv' BY DEF Types, PhaseInv, Covered, OrderInv, FreshInv
<1>5. EpInv' BY DEF Types, EpInv, OrderInv
<1>6. OrderInv' BY DEF Types, OrderInv, EpInv
<1>7. FreshInv' BY DEF Types, FreshInv, OrderInv
<1>8. AgreeInv' BY Zenon DEF Types, AgreeInv, OrderInv
<1>9. QED BY ONLY <1>3, <1>4, <1>5, <1>6, <1>7, <1>8, Zenon DEF SafeInv

=============================================================================
