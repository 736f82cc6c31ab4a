------------------------- MODULE ChannelSetupProofs -------------------------
(***************************************************************************)
(* Proofs about ChannelSetup, for any number of endpoints and faults: the  *)
(* user is told once, what a break points to is alive, and the theorems.   *)
(***************************************************************************)
EXTENDS ChannelSetupSteps

-----------------------------------------------------------------------------
(* Telling the user *)

\* A step that neither tells the user nor lets a thread in, and that comes to Initialize and to
\* its end only where TellInv allows it.
Quiet ==
    \A s \in Sides :
        /\ chan'[s].processed = chan[s].processed /\ chan'[s].told = chan[s].told
        /\ chan'[s].handler = chan[s].handler
        /\ \/ chan'[s].state = chan[s].state
           \/ chan'[s].state \in {"close", "destroy"}
           \/ chan'[s].state # "none" /\ ~chan[s].handler
        /\ chan[s].handler => pc'[s] \notin Early
        /\ pc'[s] \in Critical => ~chan[s].processed /\ chan[s].state # "none"
        /\ \A i \in Links : /\ ep[s][i] = "broken" => ep'[s][i] = "broken"
                            /\ bt'[s][i] = "notify" => bt[s][i] = "notify"

\* Such a step keeps TellInv.
LEMMA QuietTell == ASSUME TellInv, Quiet PROVE TellInv'
BY DEF TellInv, TellAt, Quiet

\* A break of one side leaves the other side as it was.
LEMMA OtherTell ==
  ASSUME TellInv, NEW s \in Sides, NEW i \in Links, NEW x \in Stages, Moves(s, i, x),
         NEW t \in Sides, t # s, chan'[t] = chan[t]
  PROVE  TellAt(t)'
<1>1. \A j \in Links : ep'[t][j] = ep[t][j] /\ bt'[t][j] = bt[t][j] BY Zenon DEF Moves
<1>2. pc'[t] = pc[t] BY Zenon DEF Moves
<1>3. TellAt(t) BY Zenon DEF TellInv
<1>4. QED BY <1>1, <1>2, <1>3 DEF TellAt

\* The endpoint that begins was none, and there is no channel.
LEMMA ConnectTell == ASSUME SafeInv, TellInv, Connect PROVE TellInv'
<1>1. /\ pc["client"] = "connect" /\ chan["server"].state = "none"
      /\ pc'["client"] \in {"wait", "close"} /\ pc'["server"] \in {"emplace", "idle"}
  BY DEF Connect, SafeInv, Types, OrderInv, Sides
<1>2. UNCHANGED <<chan, bt>>
  BY Zenon DEF Connect, epVars, setupVars
<1>3. \A t \in Sides, j \in Links : ep[t][j] = "broken" => ep'[t][j] = "broken"
  <2>1. ep["server"][link] = "none" /\ link \in Links
    BY SetupAssumption DEF Connect, SafeInv, Types, OrderInv, EpInv, Links
  <2>2. ep' = [ep EXCEPT !["server"][link] = "established"] \/ ep' = ep BY Zenon DEF Connect
  <2>3. ep \in [Sides -> [Links -> States]] BY Zenon DEF SafeInv, Types
  <2>4. QED BY ONLY <2>1, <2>2, <2>3
<1>4. Quiet BY <1>1, <1>2, <1>3, Zenon DEF TellInv, TellAt, Quiet, Early, Critical, Sides
<1>5. QED BY <1>4, QuietTell, Zenon

\* The listener goes on, or the client closes.
LEMMA EmplaceNewEndpointTell == ASSUME SafeInv, TellInv, EmplaceNewEndpoint PROVE TellInv'
<1>1. /\ pc["server"] = "emplace" /\ pc["client"] = "wait"
      /\ pc'["client"] \in {"wait", "close"} /\ pc'["server"] \in {"upctx", "idle"}
  BY DEF EmplaceNewEndpoint, Refuse, SafeInv, Types, OrderInv, Sides
<1>2. UNCHANGED <<chan, bt, ep>>
  BY Zenon DEF EmplaceNewEndpoint, epVars, setupVars
<1>3. Quiet BY <1>1, <1>2, Zenon DEF TellInv, TellAt, Quiet, Early, Critical, Sides
<1>4. QED BY <1>3, QuietTell, Zenon

\* The listener goes on.
LEMMA SetUpCtxTell == ASSUME SafeInv, TellInv, SetUpCtx PROVE TellInv'
<1>1. /\ pc["server"] = "upctx" /\ pc'["client"] = pc["client"]
      /\ pc'["server"] \in {"last", "ready"}
  BY Zenon DEF SetUpCtx, SafeInv, Types, Sides
<1>2. UNCHANGED <<chan, bt, ep>>
  BY Zenon DEF SetUpCtx, epVars, setupVars
<1>3. Quiet BY <1>1, <1>2, Zenon DEF TellInv, TellAt, Quiet, Early, Critical, Sides
<1>4. QED BY <1>3, QuietTell, Zenon

\* The listener goes on, or the client closes.
LEMMA LastEndpointTell == ASSUME SafeInv, TellInv, LastEndpoint PROVE TellInv'
<1>1. /\ pc["server"] = "last" /\ pc["client"] = "wait"
      /\ pc'["client"] \in {"wait", "close"} /\ pc'["server"] \in {"point", "idle"}
  BY DEF LastEndpoint, Refuse, SafeInv, Types, OrderInv, Sides
<1>2. UNCHANGED <<chan, bt, ep>>
  BY Zenon DEF LastEndpoint, epVars, setupVars
<1>3. Quiet BY <1>1, <1>2, Zenon DEF TellInv, TellAt, Quiet, Early, Critical, Sides
<1>4. QED BY <1>3, QuietTell, Zenon

\* The client goes on.
LEMMA ReadyTell == ASSUME SafeInv, TellInv, Ready PROVE TellInv'
<1>1. /\ pc["client"] = "wait" /\ pc'["server"] = "idle"
      /\ pc'["client"] \in {"point", "connect", "close"}
  BY DEF Ready, Refuse, SafeInv, Types, OrderInv, Sides
<1>2. UNCHANGED <<chan, bt>>
  BY Zenon DEF Ready, epVars, setupVars
<1>3. \A t \in Sides, j \in Links : ep[t][j] = "broken" => ep'[t][j] = "broken"
  <2>1. ep["client"][link] = "none" /\ link \in Links
    BY SetupAssumption DEF Ready, SafeInv, Types, OrderInv, EpInv, Links
  <2>2. QED BY <2>1 DEF Ready, SafeInv, Types, Sides
<1>4. Quiet BY <1>1, <1>2, <1>3, Zenon DEF TellInv, TellAt, Quiet, Early, Critical, Sides
<1>5. QED BY <1>4, QuietTell, Zenon

\* Nothing of that changes.
LEMMA ListEndpointTell == ASSUME SafeInv, TellInv, NEW i \in Links, ListEndpoint(i) PROVE TellInv'
<1>1. UNCHANGED pc
  BY Zenon DEF ListEndpoint, setupVars
<1>2. UNCHANGED <<chan, bt, ep>>
  BY Zenon DEF ListEndpoint, epVars, setupVars
<1>3. Quiet BY <1>1, <1>2, Zenon DEF TellInv, TellAt, Quiet, Early, Critical, Sides
<1>4. QED BY <1>3, QuietTell, Zenon

\* The client is through.
LEMMA CloseConnectedTell == ASSUME SafeInv, TellInv, CloseConnected PROVE TellInv'
<1>1. pc'["client"] = "failed" /\ pc'["server"] = pc["server"]
  BY Zenon DEF CloseConnected, SafeInv, Types, Sides
<1>2. UNCHANGED <<chan, bt, ep>>
  BY Zenon DEF CloseConnected, epVars, setupVars
<1>3. Quiet BY <1>1, <1>2, Zenon DEF TellInv, TellAt, Quiet, Early, Critical, Sides
<1>4. QED BY <1>3, QuietTell, Zenon

\* The channel is established only with an endpoint that is not broken.
LEMMA AllEpEstablishedTell ==
  ASSUME SafeInv, TellInv, NEW s \in Sides, AllEpEstablished(s)
  PROVE  TellInv'
<1>1. /\ pc[s] = "verify" /\ \A t \in Sides : t # s => pc'[t] = pc[t]
      /\ pc'[s] \in {"verify", "undo"} \/ (pc'[s] = "establish" /\ ~chan[s].processed)
      /\ chan[s].state # "none"
  <2>1. pc[s] = "verify" /\ at[s] \in Links BY Zenon DEF AllEpEstablished, SafeInv, Types
  <2>2. chan[s].state # "none" BY <2>1, Zenon DEF SafeInv, PhaseInv, FreshInv
  <2>3. CASE EpBroken(s, at[s]) BY <2>1, <2>2, <2>3, Zenon DEF AllEpEstablished, SafeInv, Types
  <2>4. CASE ~EpBroken(s, at[s])
    <3>1. ~chan[s].processed BY <2>1, <2>4, Zenon DEF EpBroken, TellInv, TellAt
    <3>2. QED BY <2>1, <2>2, <2>4, <3>1, Zenon DEF AllEpEstablished, Advance, SafeInv, Types
  <2>5. QED BY <2>3, <2>4, Zenon
<1>2. UNCHANGED <<chan, bt, ep>>
  BY Zenon DEF AllEpEstablished, epVars, setupVars
<1>3. Quiet BY <1>1, <1>2, Zenon DEF TellInv, TellAt, Quiet, Early, Critical, Sides
<1>4. QED BY <1>3, QuietTell, Zenon

\* The listener is through.
LEMMA EraseNewEpTell == ASSUME SafeInv, TellInv, EraseNewEp PROVE TellInv'
<1>1. /\ pc'["server"] \in {"ready", "idle"}
      /\ pc'["client"] \in {pc["client"], "close"}
  BY DEF EraseNewEp, Refuse, SafeInv, Types, Sides
<1>2. UNCHANGED <<chan, bt, ep>>
  BY Zenon DEF EraseNewEp, epVars, setupVars
<1>3. Quiet BY <1>1, <1>2, Zenon DEF TellInv, TellAt, Quiet, Early, Critical, Sides
<1>4. QED BY <1>3, QuietTell, Zenon

\* Nothing of that changes.
LEMMA QpErrorTell ==
  ASSUME SafeInv, TellInv, NEW s \in Sides, NEW i \in Links, QpError(s, i)
  PROVE  TellInv'
<1>1. UNCHANGED pc
  BY Zenon DEF QpError, setupVars
<1>2. UNCHANGED <<chan, bt, ep>>
  BY Zenon DEF QpError, epVars, setupVars
<1>3. Quiet BY <1>1, <1>2, Zenon DEF TellInv, TellAt, Quiet, Early, Critical, Sides
<1>4. QED BY <1>3, QuietTell, Zenon

\* A broken endpoint stays broken.
LEMMA DetectHbStateTell ==
  ASSUME SafeInv, TellInv, NEW s \in Sides, NEW i \in Links, DetectHbState(s, i)
  PROVE  TellInv'
<1>1. UNCHANGED pc
  BY Zenon DEF DetectHbState, setupVars
<1>2. UNCHANGED <<chan, bt>>
  BY Zenon DEF DetectHbState, epVars, setupVars
<1>3. \A t \in Sides, j \in Links : ep[t][j] = "broken" => ep'[t][j] = "broken"
  BY Zenon DEF DetectHbState, SafeInv, Types
<1>4. Quiet BY <1>1, <1>2, <1>3, Zenon DEF TellInv, TellAt, Quiet, Early, Critical, Sides
<1>5. QED BY <1>4, QuietTell, Zenon

\* A broken endpoint stays broken.
LEMMA ProcessEpErrorTell ==
  ASSUME SafeInv, TellInv, NEW s \in Sides, NEW i \in Links, ProcessEpError(s, i)
  PROVE  TellInv'
<1>1. UNCHANGED <<pc, chan>> BY Zenon DEF ProcessEpError, setupVars
<1>2. \A t \in Sides, j \in Links : ep[t][j] = "broken" => ep'[t][j] = "broken"
  BY Zenon DEF ProcessEpError, SafeInv, Types
<1>3. \A t \in Sides, j \in Links : bt'[t][j] = "notify" => bt[t][j] = "notify"
  BY Zenon DEF ProcessEpError, SafeInv, Types
<1>4. Quiet BY <1>1, <1>2, <1>3, Zenon DEF TellInv, TellAt, Quiet
<1>5. QED BY <1>4, QuietTell, Zenon

\* The channel is new, and has no handler.
LEMMA SetEpUpCtxTell == ASSUME SafeInv, TellInv, NEW s \in Sides, SetEpUpCtx(s) PROVE TellInv'
<1>1. /\ pc[s] = "point" /\ pc'[s] \in {"point", "verify"}
      /\ \A t \in Sides : t # s => pc'[t] = pc[t]
  BY Zenon DEF SetEpUpCtx, Advance, SafeInv, Types
<1>2. Becomes(s, "new", chan[s].broken, chan[s].handler,
              chan[s].processed, chan[s].told, chan[s].announced)
  BY StateUpdate, Zenon DEF SetEpUpCtx, SafeInv, Types, ChStates
<1>3. UNCHANGED <<ep, bt>> BY Zenon DEF SetEpUpCtx, epVars, setupVars
<1>4. Quiet BY <1>1, <1>2, <1>3 DEF TellInv, TellAt, Quiet, Becomes, Early, Critical
<1>5. QED BY <1>4, QuietTell, Zenon

\* The channel is gone.
LEMMA ForceUnInitializeTell ==
  ASSUME SafeInv, TellInv, NEW s \in Sides, ForceUnInitialize(s)
  PROVE  TellInv'
<1>1. /\ pc'[s] \in {"close", "erase_error"}
      /\ \A t \in Sides : t # s => pc'[t] = pc[t]
  BY Zenon DEF ForceUnInitialize, SafeInv, Types
<1>2. Becomes(s, "destroy", chan[s].broken, chan[s].handler,
              chan[s].processed, chan[s].told, chan[s].announced)
  BY StateUpdate, Zenon DEF ForceUnInitialize, Uninitialized, SafeInv, Types, ChStates
<1>3. UNCHANGED <<ep, bt>> BY Zenon DEF ForceUnInitialize, epVars, setupVars
<1>4. Quiet BY <1>1, <1>2, <1>3 DEF TellInv, TellAt, Quiet, Becomes, Early, Critical
<1>5. QED BY <1>4, QuietTell, Zenon

\* No thread was let in, and there is no handler yet.
LEMMA EstablishTell == ASSUME SafeInv, TellInv, NEW s \in Sides, Establish(s) PROVE TellInv'
<1>1. /\ pc[s] = "establish" /\ pc'[s] \in {"broken_info", "emplace_channel"}
      /\ \A t \in Sides : t # s => pc'[t] = pc[t]
  BY Zenon DEF Establish, SafeInv, Types
<1>2. Becomes(s, "established", chan[s].broken, chan[s].handler,
              chan[s].processed, chan[s].told, chan[s].announced)
  BY StateUpdate, Zenon DEF Establish, SafeInv, Types, ChStates
<1>3. UNCHANGED <<ep, bt>> BY Zenon DEF Establish, epVars, setupVars
<1>4. Quiet BY <1>1, <1>2, <1>3 DEF TellInv, TellAt, Quiet, Becomes, Early, Critical
<1>5. QED BY <1>4, QuietTell, Zenon

\* The channel goes into the map.
LEMMA EmplaceChannelUuidTell ==
  ASSUME SafeInv, TellInv, NEW s \in Sides, EmplaceChannelUuid(s)
  PROVE  TellInv'
<1>1. /\ pc[s] = "emplace_channel" /\ pc'[s] \in {"broken_info", "up"}
      /\ \A t \in Sides : t # s => pc'[t] = pc[t]
  BY Zenon DEF EmplaceChannelUuid, SafeInv, Types
<1>2. Becomes(s, chan[s].state, chan[s].broken, chan[s].handler,
              chan[s].processed, chan[s].told, (s = "client"))
  BY MapUpdate, Zenon DEF EmplaceChannelUuid, SafeInv, Types
<1>3. UNCHANGED <<ep, bt>> BY Zenon DEF EmplaceChannelUuid, epVars, setupVars
<1>4. Quiet BY <1>1, <1>2, <1>3 DEF TellInv, TellAt, Quiet, Becomes, Early, Critical
<1>5. QED BY <1>4, QuietTell, Zenon

\* The channel is closed.
LEMMA DisconnectTell == ASSUME SafeInv, TellInv, NEW s \in Sides, Disconnect(s) PROVE TellInv'
<1>1. UNCHANGED pc
  BY Zenon DEF Disconnect, setupVars
<1>2. Becomes(s, "close", chan[s].broken, chan[s].handler,
              chan[s].processed, chan[s].told, chan[s].announced)
  BY StateUpdate, Zenon DEF Disconnect, SafeInv, Types, ChStates
<1>3. UNCHANGED <<ep, bt>> BY Zenon DEF Disconnect, epVars, setupVars
<1>4. Quiet BY <1>1, <1>2, <1>3, Zenon DEF TellInv, TellAt, Quiet, Becomes, Early, Critical
<1>5. QED BY <1>4, QuietTell, Zenon

\* The channel is gone.
LEMMA DestructTell == ASSUME SafeInv, TellInv, NEW s \in Sides, Destruct(s) PROVE TellInv'
<1>1. UNCHANGED pc
  BY Zenon DEF Destruct, setupVars
<1>2. Becomes(s, "destroy", chan[s].broken, chan[s].handler,
              chan[s].processed, chan[s].told, chan[s].announced)
  BY StateUpdate, ZenonT(40) DEF Destruct, Uninitialized, SafeInv, Types, ChStates
<1>3. UNCHANGED <<ep, bt>> BY Zenon DEF Destruct, epVars, setupVars
<1>4. Quiet BY <1>1, <1>2, <1>3, Zenon DEF TellInv, TellAt, Quiet, Becomes, Early, Critical
<1>5. QED BY <1>4, QuietTell, Zenon

\* The maps lose the channel.
LEMMA EraseChannelTell == ASSUME SafeInv, TellInv, NEW s \in Sides, EraseChannel(s) PROVE TellInv'
<1>1. UNCHANGED pc
  BY Zenon DEF EraseChannel, setupVars
<1>2. Becomes(s, chan[s].state, chan[s].broken, chan[s].handler,
              chan[s].processed, chan[s].told, chan[s].announced)
  BY EraseUpdate, Zenon DEF EraseChannel, SafeInv, Types
<1>3. UNCHANGED <<ep, bt>> BY Zenon DEF EraseChannel, epVars, setupVars
<1>4. Quiet BY <1>1, <1>2, <1>3, Zenon DEF TellInv, TellAt, Quiet, Becomes, Early, Critical
<1>5. QED BY <1>4, QuietTell, Zenon

\* The user takes the channel, or it is closed.
LEMMA AnnounceTell == ASSUME SafeInv, TellInv, Announce PROVE TellInv'
<1>1. /\ pc'["server"] \in {"erase_ok", "erase_error"} /\ pc'["client"] = pc["client"]
      /\ \/ chan' = [chan EXCEPT !["server"].announced = TRUE]
         \/ chan' = [chan EXCEPT !["server"].inMap = FALSE, !["server"].state = "close"]
  BY Zenon DEF Announce, SafeInv, Types, Sides
<1>2. \/ Becomes("server", chan["server"].state, chan["server"].broken, chan["server"].handler,
                 chan["server"].processed, chan["server"].told, TRUE)
      \/ Becomes("server", "close", chan["server"].broken, chan["server"].handler,
                 chan["server"].processed, chan["server"].told, chan["server"].announced)
  BY <1>1, AnnounceUpdate, RefuseUpdate, Zenon DEF SafeInv, Types, Sides
<1>3. UNCHANGED <<ep, bt>> BY Zenon DEF Announce
<1>4. Quiet
  BY <1>1, <1>2, <1>3, SMTT(40) DEF TellInv, TellAt, Quiet, Becomes, Early, Critical, Sides
<1>5. QED BY <1>4, QuietTell, Zenon

\* The handler is set before a thread is let in.
LEMMA SetBrokenInfoTell == ASSUME SafeInv, TellInv, NEW s \in Sides, SetBrokenInfo(s) PROVE TellInv'
<1>1. pc[s] = "broken_info" /\ pc'[s] \in {"emplace_channel",
     "announce"} /\ \A t \in Sides : t # s => pc'[t] = pc[t]
  BY Zenon DEF SetBrokenInfo, SafeInv, Types
<1>2. Becomes(s, chan[s].state, chan[s].broken, TRUE,
              chan[s].processed, chan[s].told, chan[s].announced)
  BY HandlerUpdate, Zenon DEF SetBrokenInfo, SafeInv, Types
<1>3. UNCHANGED <<ep, bt>> BY Zenon DEF SetBrokenInfo, epVars
<1>4. ~chan[s].processed /\ chan[s].state # "none" BY <1>1, Zenon DEF TellInv, TellAt, Critical
<1>5. QED BY <1>1, <1>2, <1>3, <1>4 DEF TellInv, TellAt, Becomes, Early, Critical

\* The thread goes on to the info or to the channel.
LEMMA ReadUpCtxTell ==
  ASSUME SafeInv, TellInv, NEW s \in Sides, NEW i \in Links, ReadUpCtx(s, i)
  PROVE  TellInv'
<1>1. PICK x \in {"done", "info", "channel"} : Goto(s, i, x)
  BY Zenon DEF ReadUpCtx, SafeInv, Types, Pointees
<1>2. Moves(s, i, x) BY <1>1, GotoMoves, Zenon DEF SafeInv, Types, Stages, Sides
<1>3. UNCHANGED chan
  BY Zenon DEF ReadUpCtx
<1>4. Quiet BY <1>2, <1>3 DEF TellInv, TellAt, Quiet, Moves, Becomes, Early, Critical
<1>5. QED BY <1>4, QuietTell, Zenon

\* The thread is through, or erases the info.
LEMMA AllEPBrokenTell == ASSUME SafeInv, TellInv, NEW i \in Links, AllEPBroken(i) PROVE TellInv'
<1>1. PICK x \in {"done", "erase"} : Goto("server", i, x)
  BY Zenon DEF AllEPBroken
<1>2. Moves("server", i, x) BY <1>1, GotoMoves, Zenon DEF SafeInv, Types, Stages, Sides
<1>3. UNCHANGED chan
  BY Zenon DEF AllEPBroken
<1>4. Quiet BY <1>2, <1>3 DEF TellInv, TellAt, Quiet, Moves, Becomes, Early, Critical
<1>5. QED BY <1>4, QuietTell, Zenon

\* The thread is through.
LEMMA EraseBrokenTell == ASSUME SafeInv, TellInv, NEW i \in Links, EraseBroken(i) PROVE TellInv'
<1>1. PICK x \in {"done"} : Goto("server", i, x)
  BY Zenon DEF EraseBroken
<1>2. Moves("server", i, x) BY <1>1, GotoMoves, Zenon DEF SafeInv, Types, Stages, Sides
<1>3. UNCHANGED chan
  BY Zenon DEF EraseBroken
<1>4. Quiet BY <1>2, <1>3 DEF TellInv, TellAt, Quiet, Moves, Becomes, Early, Critical
<1>5. QED BY <1>4, QuietTell, Zenon

\* The thread goes on to look at the others.
LEMMA SetEpBrokenTell ==
  ASSUME SafeInv, TellInv, NEW s \in Sides, NEW i \in Links, SetEpBroken(s, i)
  PROVE  TellInv'
<1>1. PICK x \in {"check"} : Goto(s, i, x)
  BY Zenon DEF SetEpBroken
<1>2. Moves(s, i, x) BY <1>1, GotoMoves, Zenon DEF SafeInv, Types, Stages, Sides
<1>3. Becomes(s, chan[s].state, chan[s].broken \cup {i}, chan[s].handler,
              chan[s].processed, chan[s].told, chan[s].announced)
  BY BrokenUpdate, Zenon DEF SetEpBroken, SafeInv, Types
<1>4. Quiet BY <1>2, <1>3 DEF TellInv, TellAt, Quiet, Moves, Becomes, Early, Critical
<1>5. QED BY <1>4, QuietTell, Zenon

\* One thread is let in, when all endpoints are broken and the channel is not half-way.
LEMMA NeedProcessBrokenTell ==
  ASSUME Prompt, SafeInv, TellInv, NEW s \in Sides, NEW i \in Links, NeedProcessBroken(s, i)
  PROVE  TellInv'
<1>1. CASE AllEpBroken(s) /\ ~chan[s].processed
  <2>1. /\ Goto(s, i, "notify") /\ bt[s][i] = "check"
        /\ chan' = [chan EXCEPT ![s].processed = TRUE, ![s].state = "close"]
    BY <1>1, Zenon DEF NeedProcessBroken
  <2>2. Moves(s, i, "notify") BY <2>1, GotoMoves, Zenon DEF SafeInv, Types, Stages
  <2>3. Becomes(s, "close", chan[s].broken, chan[s].handler,
                TRUE, chan[s].told, chan[s].announced)
    BY <2>1, ProcessUpdate, Zenon DEF SafeInv, Types
  <2>4. pc[s] \notin Critical BY Zenon DEF NeedProcessBroken, InTime, Critical
  <2>5. \A j \in Links : ep[s][j] = "broken" /\ bt[s][j] # "notify"
    BY <1>1, Zenon DEF AllEpBroken, TellInv, TellAt, TellAt
  <2>6. chan[s].told = 0 BY <1>1, Zenon DEF TellInv, TellAt
  <2>7. SUFFICES ASSUME NEW t \in Sides PROVE TellAt(t)' BY SMTT(40) DEF TellInv
  <2>8. CASE t = s
    BY <2>2, <2>3, <2>4, <2>5, <2>6, <2>8, SMTT(40) DEF TellInv, TellAt, Moves, Becomes
  <2>9. CASE t # s BY <2>2, <2>3, <2>9, OtherTell, Zenon DEF Becomes, Stages
  <2>10. QED BY <2>8, <2>9, Zenon
<1>2. CASE ~(AllEpBroken(s) /\ ~chan[s].processed)
  <2>1. Goto(s, i, "done") /\ UNCHANGED chan BY <1>2, Zenon DEF NeedProcessBroken
  <2>2. Moves(s, i, "done") BY <2>1, GotoMoves, Zenon DEF SafeInv, Types, Stages
  <2>3. Quiet BY <2>1, <2>2 DEF TellInv, TellAt, Quiet, Moves
  <2>4. QED BY <2>3, QuietTell, Zenon
<1>3. QED BY <1>1, <1>2, Zenon

\* The one thread tells the user.
LEMMA InvokeChannelBrokenCbTell ==
  ASSUME SafeInv, TellInv, NEW s \in Sides, NEW i \in Links, InvokeChannelBrokenCb(s, i)
  PROVE  TellInv'
<1>1. bt[s][i] = "notify" /\ Moves(s, i, "done")
  BY GotoMoves, Zenon DEF InvokeChannelBrokenCb, SafeInv, Types, Stages
<1>2. Becomes(s, chan[s].state, chan[s].broken, chan[s].handler,
              chan[s].processed, IF chan[s].handler THEN chan[s].told + 1 ELSE chan[s].told,
                   chan[s].announced)
  BY TellStep, Zenon DEF SafeInv, Types
<1>3. chan[s].processed /\ chan[s].told = 0 /\ \A j \in Links : bt[s][j] = "notify" => j = i
  BY <1>1, Zenon DEF TellInv, TellAt
<1>4. chan'[s].told <= 1 /\ (chan'[s].told > 0 => chan[s].handler)
  <2>1. CASE chan[s].handler BY <1>2, <1>3, <2>1 DEF Becomes
  <2>2. CASE ~chan[s].handler BY <1>2, <1>3, <2>2 DEF Becomes
  <2>3. QED BY <2>1, <2>2, Zenon
<1>5. /\ chan'[s].processed = chan[s].processed /\ chan'[s].handler = chan[s].handler
      /\ chan'[s].state = chan[s].state /\ pc'[s] = pc[s]
  BY <1>1, <1>2, Zenon DEF Moves, Becomes
<1>6. \A j \in Links : bt'[s][j] # "notify" /\ ep'[s][j] = ep[s][j] BY <1>1, <1>3, Zenon DEF Moves
<1>7. SUFFICES ASSUME NEW t \in Sides PROVE TellAt(t)' BY Zenon DEF TellInv
<1>8. CASE t = s
  <2>1. TellAt(s) BY Zenon DEF TellInv
  <2>2. TellAt(s)' BY <1>3, <1>4, <1>5, <1>6, <2>1, Zenon DEF TellAt
  <2>3. QED BY <1>8, <2>2, Zenon
<1>9. CASE t # s BY <1>1, <1>2, <1>9, OtherTell, Zenon DEF Becomes, Stages
<1>10. QED BY <1>8, <1>9, Zenon

-----------------------------------------------------------------------------
(* What a break points to *)

\* Nothing points to a channel that is gone, and no thread is in it.
GoneInv ==
    \A s \in Sides : chan[s].state = "destroy" =>
        \A i \in Links :
            upCtx[s][i] # "channel" /\ bt[s][i] \notin {"channel", "check", "notify"}

\* The break of endpoint j uses the info, or will use it when it comes.
Refers(j) ==
    \/ bt["server"][j] = "info"
    \/ upCtx["server"][j] = "info" /\ bt["server"][j] \in {"idle", "read"}

\* The info is that of endpoint 0, unless it was made again half-way; then it never has all its
\* endpoints broken.
Whole == info.vec[1] = 0

Pointing == {"point", "verify", "undo", "establish", "emplace_channel", "broken_info", "announce",
             "erase_ok", "erase_error"}

\* The info is in the map as long as a break uses it.  It is taken from the map when every
\* endpoint in it is broken, by the last of their threads, or by the listener, when the endpoints
\* point to the channel.
InfoInv ==
    /\ \A i \in Links : i \in info.broken \/ upCtx["server"][i] = "info" \/ bt["server"][i] = "info"
         => ep["server"][i] # "none"
    /\ \A i \in Links : Refers(i) =>
         /\ info.inMap /\ info.state # "ep_broken" /\ i \notin info.broken
         /\ Whole => i < Len(info.vec)
         /\ i = 0 => Whole
    /\ info.inMap => info.vec # <<>>
    /\ 0 \in info.broken => Whole
    /\ pc["server"] \in {"emplace", "upctx"} => ~Refers(link) /\ link \notin info.broken
                                                /\ upCtx["server"][link] # "info"
    /\ pc["server"] = "upctx" =>
         /\ info.inMap /\ info.state = "new_ep"
         /\ Whole => link < Len(info.vec)
         /\ link = 0 => Whole
    /\ \A i, j \in Links : bt["server"][i] = "erase" =>
         /\ info.inMap /\ info.state = "ep_broken"
         /\ bt["server"][j] = "erase" => j = i
    /\ pc["server"] \in Pointing => info.state = "new_channel"
    /\ pc["server"] \in Pointing \ {"point"} => \A i \in Links : upCtx["server"][i] # "info"

\* A step that leaves the info alone, and lets nobody refer to it or erase it who did not.
InfoQuiet ==
    /\ info' = info
    /\ \A i \in Links :
         /\ ep["server"][i] # "none" => ep'["server"][i] # "none"
         /\ upCtx'["server"][i] = "info" => upCtx["server"][i] = "info"
         /\ bt'["server"][i] = "info" => Refers(i)
         /\ Refers(i)' => Refers(i)
         /\ bt'["server"][i] = "erase" => bt["server"][i] = "erase"
    /\ pc'["server"] \in {"emplace", "upctx"} => pc'["server"] = pc["server"] /\ link' = link
    /\ pc'["server"] \in Pointing => pc["server"] \in Pointing
    /\ pc'["server"] \in Pointing \ {"point"} => \A i \in Links : upCtx'["server"][i] # "info"

\* Such a step keeps InfoInv.
LEMMA QuietInfo == ASSUME SafeInv, InfoInv, InfoQuiet PROVE InfoInv'
<1>0. pc'["server"] \in {"emplace", "upctx"} => link \in Links
  BY SetupAssumption DEF InfoQuiet, SafeInv, Types, EpInv, Links
<1>1. \A i \in Links :
        i \in info'.broken \/ upCtx'["server"][i] = "info" \/ bt'["server"][i] = "info"
          => ep'["server"][i] # "none"
  BY Zenon DEF InfoQuiet, InfoInv, Refers
<1>2. \A i \in Links : Refers(i)' =>
        /\ info'.inMap /\ info'.state # "ep_broken" /\ i \notin info'.broken
        /\ Whole' => i < Len(info'.vec)
        /\ i = 0 => Whole'
  BY Zenon DEF InfoQuiet, InfoInv, Whole
<1>3. (info'.inMap => info'.vec # <<>>) /\ (0 \in info'.broken => Whole')
  BY Zenon DEF InfoQuiet, InfoInv, Whole
<1>4. pc'["server"] \in {"emplace", "upctx"} => ~Refers(link)' /\ link' \notin info'.broken
                                                /\ upCtx'["server"][link'] # "info"
  <2> SUFFICES ASSUME pc'["server"] \in {"emplace", "upctx"}
               PROVE  ~Refers(link)' /\ link' \notin info'.broken
                      /\ upCtx'["server"][link'] # "info"
    BY Zenon
  <2>1. link' = link /\ link \in Links /\ pc["server"] \in {"emplace", "upctx"}
    BY <1>0, Zenon DEF InfoQuiet
  <2>2. \A i \in Links : i = link' => (Refers(link)' <=> Refers(i)') BY Zenon DEF Refers
  <2>3. QED BY <2>1, <2>2, Zenon DEF InfoQuiet, InfoInv
<1>5. pc'["server"] = "upctx" =>
        /\ info'.inMap /\ info'.state = "new_ep"
        /\ Whole' => link' < Len(info'.vec)
        /\ link' = 0 => Whole'
  BY Zenon DEF InfoQuiet, InfoInv, Whole
<1>6. \A i, j \in Links : bt'["server"][i] = "erase" =>
        /\ info'.inMap /\ info'.state = "ep_broken"
        /\ bt'["server"][j] = "erase" => j = i
  BY Zenon DEF InfoQuiet, InfoInv
<1>7. pc'["server"] \in Pointing => info'.state = "new_channel"
  BY Zenon DEF InfoQuiet, InfoInv
<1>8. pc'["server"] \in Pointing \ {"point"} => \A i \in Links : upCtx'["server"][i] # "info"
  BY Zenon DEF InfoQuiet
<1>9. QED BY ONLY <1>1, <1>2, <1>3, <1>4, <1>5, <1>6, <1>7, <1>8, Zenon DEF InfoInv, Whole

\* A step in which the listener goes on, or somebody else does something, and no endpoint and no
\* break of the server changes.
Passes ==
    /\ UNCHANGED <<info, upCtx, bt>>
    /\ \A i \in Links : ep["server"][i] # "none" => ep'["server"][i] # "none"
    /\ \/ pc'["server"] = pc["server"] /\ link' = link
       \/ pc'["server"] \in {"idle", "ready"}
       \/ pc["server"] \in Pointing \ {"point"} /\ pc'["server"] \in Pointing \ {"point"}

\* Such a step keeps InfoInv.
LEMMA PassesInfo == ASSUME SafeInv, InfoInv, Passes PROVE InfoInv'
<1>1. \A i \in Links : Refers(i)' <=> Refers(i) BY Zenon DEF Passes, Refers
<1>2. "idle" \notin Pointing /\ "ready" \notin Pointing BY Zenon DEF Pointing
<1>3. \A x \in {"emplace", "upctx"} : x \notin Pointing BY Zenon DEF Pointing
<1>4. InfoQuiet BY <1>1, <1>2, <1>3, Zenon DEF Passes, InfoQuiet, InfoInv, Refers
<1>5. QED BY <1>4, QuietInfo, Zenon

\* A break goes on and leaves the info alone.
LEMMA MovesInfo ==
  ASSUME SafeInv, InfoInv, NEW s \in Sides, NEW i \in Links, NEW x \in Stages, Moves(s, i, x),
         UNCHANGED info, x \notin {"idle", "read", "erase"},
         x = "info" => bt[s][i] = "read" /\ upCtx[s][i] = "info"
  PROVE  InfoInv'
<1>0. \A j \in Links : bt'["server"][j] = IF s = "server" /\ j = i THEN x ELSE bt["server"][j]
  BY Zenon DEF Moves, Sides
<1>4. UNCHANGED <<pc, link, ep, upCtx>> BY Zenon DEF Moves
<1>1. \A j \in Links : Refers(j)' => Refers(j) BY <1>0, <1>4, Zenon DEF Refers
<1>2. \A j \in Links : bt'["server"][j] = "info" => Refers(j) BY <1>0, Zenon DEF Refers
<1>3. \A j \in Links : bt'["server"][j] = "erase" => bt["server"][j] = "erase" BY <1>0, Zenon
<1>5. InfoQuiet BY <1>1, <1>2, <1>3, <1>4, Zenon DEF InfoQuiet, InfoInv
<1>6. QED BY <1>5, QuietInfo, Zenon

\* A step that lets no thread into a channel that is gone.
GoneQuiet ==
    \A s \in Sides : chan'[s].state = "destroy" =>
        /\ chan[s].state = "destroy"
        /\ \A i \in Links :
             /\ upCtx'[s][i] = "channel" => upCtx[s][i] = "channel"
             /\ bt'[s][i] \in {"channel", "check", "notify"} =>
                  bt[s][i] \in {"channel", "check", "notify"} \/ upCtx[s][i] = "channel"

\* Such a step keeps GoneInv.
LEMMA QuietGone == ASSUME GoneInv, GoneQuiet PROVE GoneInv'
BY Zenon DEF GoneInv, GoneQuiet

LiveInv == GoneInv /\ InfoInv

\* A step that changes no endpoint's pointer, no thread and no info.
LEMMA PassesLive ==
  ASSUME SafeInv, LiveInv, Passes,
         \A s \in Sides : chan'[s].state = "destroy" => chan[s].state = "destroy"
  PROVE  LiveInv'
<1>1. GoneQuiet BY Zenon DEF GoneQuiet, Passes
<1>2. QED BY <1>1, QuietGone, PassesInfo, Zenon DEF LiveInv

\* The server lists an endpoint.
LEMMA ListEndpointLive ==
  ASSUME SafeInv, LiveInv, NEW i \in Links, ListEndpoint(i)
  PROVE  LiveInv'
<1>1. UNCHANGED <<info, upCtx, bt>> BY Zenon DEF ListEndpoint, epVars, setupVars
<1>2. UNCHANGED ep BY Zenon DEF ListEndpoint, epVars
<1>3. UNCHANGED <<pc, link>>
  BY Zenon DEF ListEndpoint, setupVars
<1>4. \A t \in Sides : chan'[t].state = "destroy" => chan[t].state = "destroy"
  BY Zenon DEF ListEndpoint
<1>5. Passes BY <1>1, <1>2, <1>3, Zenon DEF Passes, Pointing
<1>6. QED BY <1>1, <1>4, <1>5, PassesLive, Zenon

\* The client is through.
LEMMA CloseConnectedLive ==
  ASSUME SafeInv, LiveInv, CloseConnected
  PROVE  LiveInv'
<1>1. UNCHANGED <<info, upCtx, bt>> BY Zenon DEF CloseConnected, epVars, setupVars
<1>2. UNCHANGED ep BY Zenon DEF CloseConnected, epVars
<1>3. pc'["server"] = pc["server"] /\ link' = link
  BY Zenon DEF CloseConnected, SafeInv, Types, Sides
<1>4. \A t \in Sides : chan'[t].state = "destroy" => chan[t].state = "destroy"
  BY Zenon DEF CloseConnected
<1>5. Passes BY <1>1, <1>2, <1>3, Zenon DEF Passes, Pointing
<1>6. QED BY <1>1, <1>4, <1>5, PassesLive, Zenon

\* A queue pair fails.
LEMMA QpErrorLive ==
  ASSUME SafeInv, LiveInv, NEW s \in Sides, NEW i \in Links, QpError(s, i)
  PROVE  LiveInv'
<1>1. UNCHANGED <<info, upCtx, bt>> BY Zenon DEF QpError, epVars, setupVars
<1>2. UNCHANGED ep BY Zenon DEF QpError, epVars
<1>3. UNCHANGED <<pc, link>>
  BY Zenon DEF QpError, setupVars
<1>4. \A t \in Sides : chan'[t].state = "destroy" => chan[t].state = "destroy"
  BY Zenon DEF QpError
<1>5. Passes BY <1>1, <1>2, <1>3, Zenon DEF Passes, Pointing
<1>6. QED BY <1>1, <1>4, <1>5, PassesLive, Zenon

\* An endpoint is found broken.
LEMMA DetectHbStateLive ==
  ASSUME SafeInv, LiveInv, NEW s \in Sides, NEW i \in Links, DetectHbState(s, i)
  PROVE  LiveInv'
<1>1. UNCHANGED <<info, upCtx, bt>> BY Zenon DEF DetectHbState, epVars, setupVars
<1>2. \A j \in Links : ep["server"][j] # "none" => ep'["server"][j] # "none"
  BY Zenon DEF DetectHbState, SafeInv, Types, Sides
<1>3. UNCHANGED <<pc, link>>
  BY Zenon DEF DetectHbState, setupVars
<1>4. \A t \in Sides : chan'[t].state = "destroy" => chan[t].state = "destroy"
  BY Zenon DEF DetectHbState
<1>5. Passes BY <1>1, <1>2, <1>3, Zenon DEF Passes, Pointing
<1>6. QED BY <1>1, <1>4, <1>5, PassesLive, Zenon

\* The listener waits for the next endpoint, or the client closes.
LEMMA ReadyLive ==
  ASSUME SafeInv, LiveInv, Ready
  PROVE  LiveInv'
<1>1. UNCHANGED <<info, upCtx, bt>> BY Zenon DEF Ready, epVars, setupVars
<1>2. \A j \in Links : ep["server"][j] # "none" => ep'["server"][j] # "none"
  BY Zenon DEF Ready, SafeInv, Types, Sides
<1>3. pc'["server"] = "idle"
  BY DEF Ready, Refuse
<1>4. \A t \in Sides : chan'[t].state = "destroy" => chan[t].state = "destroy"
  BY Zenon DEF Ready
<1>5. Passes BY <1>1, <1>2, <1>3, Zenon DEF Passes, Pointing
<1>6. QED BY <1>1, <1>4, <1>5, PassesLive, Zenon

\* The listener looks at the next endpoint, or is through with them.
LEMMA AllEpEstablishedLive ==
  ASSUME SafeInv, LiveInv, NEW s \in Sides, AllEpEstablished(s)
  PROVE  LiveInv'
<1>1. UNCHANGED <<info, upCtx, bt>> BY Zenon DEF AllEpEstablished, epVars, setupVars
<1>2. UNCHANGED ep BY Zenon DEF AllEpEstablished, epVars
<1>3. link' = link /\ (pc'["server"] = pc["server"] \/ (pc["server"] = "verify" /\ pc'["server"] \in {"verify", "undo", "establish"}))
  BY Zenon DEF AllEpEstablished, Advance, SafeInv, Types, Sides
<1>4. \A t \in Sides : chan'[t].state = "destroy" => chan[t].state = "destroy"
  BY Zenon DEF AllEpEstablished
<1>5. Passes BY <1>1, <1>2, <1>3, Zenon DEF Passes, Pointing
<1>6. QED BY <1>1, <1>4, <1>5, PassesLive, Zenon

\* The channel is established.
LEMMA EstablishLive ==
  ASSUME SafeInv, LiveInv, NEW s \in Sides, Establish(s)
  PROVE  LiveInv'
<1>1. UNCHANGED <<info, upCtx, bt>> BY Zenon DEF Establish, epVars, setupVars
<1>2. UNCHANGED ep BY Zenon DEF Establish, epVars
<1>3. link' = link /\ (pc'["server"] = pc["server"] \/ (pc["server"] = "establish" /\ pc'["server"] = "emplace_channel"))
  BY Zenon DEF Establish, SafeInv, Types, Sides
<1>4. \A t \in Sides : chan'[t].state = "destroy" => chan[t].state = "destroy"
  <2>1. Becomes(s, "established", chan[s].broken, chan[s].handler,
                chan[s].processed, chan[s].told, chan[s].announced)
    BY StateUpdate, ZenonT(20) DEF Establish, SafeInv, Types, ChStates
  <2>2. QED BY <2>1, Zenon DEF Becomes
<1>5. Passes BY <1>1, <1>2, <1>3, Zenon DEF Passes, Pointing
<1>6. QED BY <1>1, <1>4, <1>5, PassesLive, Zenon

\* The handler is set.
LEMMA SetBrokenInfoLive ==
  ASSUME SafeInv, LiveInv, NEW s \in Sides, SetBrokenInfo(s)
  PROVE  LiveInv'
<1>1. UNCHANGED <<info, upCtx, bt>> BY Zenon DEF SetBrokenInfo, epVars, setupVars
<1>2. UNCHANGED ep BY Zenon DEF SetBrokenInfo, epVars
<1>3. link' = link /\ (pc'["server"] = pc["server"] \/ (pc["server"] = "broken_info" /\ pc'["server"] = "announce"))
  BY Zenon DEF SetBrokenInfo, SafeInv, Types, Sides
<1>4. \A t \in Sides : chan'[t].state = "destroy" => chan[t].state = "destroy"
  <2>1. Becomes(s, chan[s].state, chan[s].broken, TRUE,
                chan[s].processed, chan[s].told, chan[s].announced)
    BY HandlerUpdate, ZenonT(20) DEF SetBrokenInfo, SafeInv, Types, ChStates
  <2>2. QED BY <2>1, Zenon DEF Becomes
<1>5. Passes BY <1>1, <1>2, <1>3, Zenon DEF Passes, Pointing
<1>6. QED BY <1>1, <1>4, <1>5, PassesLive, Zenon

\* The channel goes into the map.
LEMMA EmplaceChannelUuidLive ==
  ASSUME SafeInv, LiveInv, NEW s \in Sides, EmplaceChannelUuid(s)
  PROVE  LiveInv'
<1>1. UNCHANGED <<info, upCtx, bt>> BY Zenon DEF EmplaceChannelUuid, epVars, setupVars
<1>2. UNCHANGED ep BY Zenon DEF EmplaceChannelUuid, epVars
<1>3. link' = link /\ (pc'["server"] = pc["server"] \/ (pc["server"] = "emplace_channel" /\ pc'["server"] = "broken_info"))
  BY Zenon DEF EmplaceChannelUuid, SafeInv, Types, Sides
<1>4. \A t \in Sides : chan'[t].state = "destroy" => chan[t].state = "destroy"
  <2>1. Becomes(s, chan[s].state, chan[s].broken, chan[s].handler,
                chan[s].processed, chan[s].told, (s = "client"))
    BY MapUpdate, ZenonT(20) DEF EmplaceChannelUuid, SafeInv, Types, ChStates
  <2>2. QED BY <2>1, Zenon DEF Becomes
<1>5. Passes BY <1>1, <1>2, <1>3, Zenon DEF Passes, Pointing
<1>6. QED BY <1>1, <1>4, <1>5, PassesLive, Zenon

\* The channel is closed.
LEMMA DisconnectLive ==
  ASSUME SafeInv, LiveInv, NEW s \in Sides, Disconnect(s)
  PROVE  LiveInv'
<1>1. UNCHANGED <<info, upCtx, bt>> BY Zenon DEF Disconnect, epVars, setupVars
<1>2. UNCHANGED ep BY Zenon DEF Disconnect, epVars
<1>3. UNCHANGED <<pc, link>>
  BY Zenon DEF Disconnect, setupVars
<1>4. \A t \in Sides : chan'[t].state = "destroy" => chan[t].state = "destroy"
  <2>1. Becomes(s, "close", chan[s].broken, chan[s].handler,
                chan[s].processed, chan[s].told, chan[s].announced)
    BY StateUpdate, ZenonT(20) DEF Disconnect, SafeInv, Types, ChStates
  <2>2. QED BY <2>1, Zenon DEF Becomes
<1>5. Passes BY <1>1, <1>2, <1>3, Zenon DEF Passes, Pointing
<1>6. QED BY <1>1, <1>4, <1>5, PassesLive, Zenon

\* The maps lose the channel.
LEMMA EraseChannelLive ==
  ASSUME SafeInv, LiveInv, NEW s \in Sides, EraseChannel(s)
  PROVE  LiveInv'
<1>1. UNCHANGED <<info, upCtx, bt>> BY Zenon DEF EraseChannel, epVars, setupVars
<1>2. UNCHANGED ep BY Zenon DEF EraseChannel, epVars
<1>3. UNCHANGED <<pc, link>>
  BY Zenon DEF EraseChannel, setupVars
<1>4. \A t \in Sides : chan'[t].state = "destroy" => chan[t].state = "destroy"
  <2>1. Becomes(s, chan[s].state, chan[s].broken, chan[s].handler,
                chan[s].processed, chan[s].told, chan[s].announced)
    BY EraseUpdate, ZenonT(20) DEF EraseChannel, SafeInv, Types, ChStates
  <2>2. QED BY <2>1, Zenon DEF Becomes
<1>5. Passes BY <1>1, <1>2, <1>3, Zenon DEF Passes, Pointing
<1>6. QED BY <1>1, <1>4, <1>5, PassesLive, Zenon

\* The user takes the channel, or it is closed.
LEMMA AnnounceLive ==
  ASSUME SafeInv, LiveInv, Announce
  PROVE  LiveInv'
<1>1. UNCHANGED <<info, upCtx, bt>> BY Zenon DEF Announce, epVars, setupVars
<1>2. UNCHANGED ep BY Zenon DEF Announce, epVars
<1>3. link' = link /\ pc["server"] = "announce" /\ pc'["server"] \in {"erase_ok", "erase_error"}
  BY Zenon DEF Announce, SafeInv, Types, Sides
<1>4. \A t \in Sides : chan'[t].state = "destroy" => chan[t].state = "destroy"
  <2>1. \/ chan' = [chan EXCEPT !["server"].announced = TRUE]
        \/ chan' = [chan EXCEPT !["server"].inMap = FALSE, !["server"].state = "close"]
    BY Zenon DEF Announce
  <2>2. \/ Becomes("server", chan["server"].state, chan["server"].broken, chan["server"].handler,
                   chan["server"].processed, chan["server"].told, TRUE)
        \/ Becomes("server", "close", chan["server"].broken, chan["server"].handler,
                   chan["server"].processed, chan["server"].told, chan["server"].announced)
    BY <2>1, AnnounceUpdate, RefuseUpdate, Zenon DEF SafeInv, Types, Sides
  <2>3. QED BY <2>2, Zenon DEF Becomes
<1>5. Passes BY <1>1, <1>2, <1>3, Zenon DEF Passes, Pointing
<1>6. QED BY <1>1, <1>4, <1>5, PassesLive, Zenon


\* A break begins.
LEMMA ProcessEpErrorLive ==
  ASSUME SafeInv, LiveInv, NEW s \in Sides, NEW i \in Links, ProcessEpError(s, i)
  PROVE  LiveInv'
<1>1. UNCHANGED <<pc, link, upCtx, info, chan>> BY Zenon DEF ProcessEpError, setupVars
<1>2. \A t \in Sides, j \in Links :
        /\ ep[t][j] # "none" => ep'[t][j] # "none"
        /\ bt'[t][j] = bt[t][j] \/ (bt[t][j] = "idle" /\ bt'[t][j] = "read")
  BY ZenonT(20) DEF ProcessEpError, SafeInv, Types
<1>3. GoneQuiet BY <1>1, <1>2, Zenon DEF GoneQuiet
<1>4. \A j \in Links : /\ ep["server"][j] # "none" => ep'["server"][j] # "none"
                       /\ bt'["server"][j] = bt["server"][j]
                            \/ (bt["server"][j] = "idle" /\ bt'["server"][j] = "read")
  BY <1>2, Zenon DEF Sides
<1>5. \A j \in Links : Refers(j)' => Refers(j) BY <1>1, <1>4, Zenon DEF Refers
<1>6. InfoQuiet BY <1>1, <1>4, <1>5, Zenon DEF InfoQuiet, LiveInv, InfoInv, Refers
<1>7. QED BY <1>3, <1>6, QuietGone, QuietInfo, Zenon DEF LiveInv

\* The thread goes on to what the endpoint points to.
LEMMA ReadUpCtxLive ==
  ASSUME SafeInv, LiveInv, NEW s \in Sides, NEW i \in Links, ReadUpCtx(s, i)
  PROVE  LiveInv'
<1>1. PICK x \in {"done", "info", "channel"} :
        Goto(s, i, x) /\ (x # "done" => upCtx[s][i] = x)
  BY Zenon DEF ReadUpCtx, SafeInv, Types, Pointees
<1>2. x \in Stages /\ Moves(s, i, x) BY <1>1, GotoMoves, Zenon DEF SafeInv, Types, Stages
<1>3. UNCHANGED <<info, chan>> /\ bt[s][i] = "read" BY Zenon DEF ReadUpCtx
<1>4. InfoInv' BY <1>1, <1>2, <1>3, MovesInfo, Zenon DEF LiveInv
<1>5. GoneQuiet BY <1>1, <1>2, <1>3, Zenon DEF GoneQuiet, Moves
<1>6. QED BY <1>4, <1>5, QuietGone, Zenon DEF LiveInv

\* The thread goes on within the channel.
LEMMA SetEpBrokenLive ==
  ASSUME SafeInv, LiveInv, NEW s \in Sides, NEW i \in Links, SetEpBroken(s, i)
  PROVE  LiveInv'
<1>1. bt[s][i] = "channel" /\ Moves(s, i, "check")
  BY GotoMoves, Zenon DEF SetEpBroken, SafeInv, Types, Stages
<1>2. Becomes(s, chan[s].state, chan[s].broken \cup {i}, chan[s].handler,
              chan[s].processed, chan[s].told, chan[s].announced)
  BY BrokenUpdate, Zenon DEF SetEpBroken, SafeInv, Types
<1>3. UNCHANGED info BY Zenon DEF SetEpBroken
<1>4. InfoInv' BY <1>1, <1>3, MovesInfo, Zenon DEF LiveInv, Stages
<1>5. GoneQuiet BY <1>1, <1>2, Zenon DEF GoneQuiet, Moves, Becomes
<1>6. QED BY <1>4, <1>5, QuietGone, Zenon DEF LiveInv

\* The thread is through, or goes on within a channel that it has closed.
LEMMA NeedProcessBrokenLive ==
  ASSUME SafeInv, LiveInv, NEW s \in Sides, NEW i \in Links, NeedProcessBroken(s, i)
  PROVE  LiveInv'
<1>1. /\ bt[s][i] = "check"
      /\ \/ Goto(s, i, "done") /\ chan' = chan
         \/ /\ Goto(s, i, "notify")
            /\ chan' = [chan EXCEPT ![s].processed = TRUE, ![s].state = "close"]
  BY Zenon DEF NeedProcessBroken
<1>2. \/ Moves(s, i, "done") /\ chan' = chan
      \/ /\ Moves(s, i, "notify")
         /\ Becomes(s, "close", chan[s].broken, chan[s].handler,
                    TRUE, chan[s].told, chan[s].announced)
  BY <1>1, GotoMoves, ProcessUpdate, Zenon DEF SafeInv, Types, Stages
<1>3. UNCHANGED info BY Zenon DEF NeedProcessBroken
<1>4. InfoInv' BY <1>1, <1>2, <1>3, MovesInfo, Zenon DEF LiveInv, Stages
<1>5. \A t \in Sides : chan'[t].state = "destroy" => chan[t].state = "destroy"
  BY <1>2, Zenon DEF Becomes
<1>6. GoneQuiet BY <1>1, <1>2, <1>5, Zenon DEF GoneQuiet, Moves
<1>7. QED BY <1>4, <1>6, QuietGone, Zenon DEF LiveInv

\* The thread is through.
LEMMA InvokeChannelBrokenCbLive ==
  ASSUME SafeInv, LiveInv, NEW s \in Sides, NEW i \in Links, InvokeChannelBrokenCb(s, i)
  PROVE  LiveInv'
<1>1. bt[s][i] = "notify" /\ Moves(s, i, "done")
  BY GotoMoves, Zenon DEF InvokeChannelBrokenCb, SafeInv, Types, Stages
<1>2. Becomes(s, chan[s].state, chan[s].broken, chan[s].handler,
              chan[s].processed, IF chan[s].handler THEN chan[s].told + 1 ELSE chan[s].told,
                   chan[s].announced)
  BY TellStep, Zenon DEF SafeInv, Types
<1>3. UNCHANGED info BY Zenon DEF InvokeChannelBrokenCb
<1>4. InfoInv' BY <1>1, <1>3, MovesInfo, Zenon DEF LiveInv, Stages
<1>5. GoneQuiet BY <1>1, <1>2, Zenon DEF GoneQuiet, Moves, Becomes
<1>6. QED BY <1>4, <1>5, QuietGone, Zenon DEF LiveInv

\* The endpoints point to the channel, one after the other.
LEMMA SetEpUpCtxLive ==
  ASSUME SafeInv, LiveInv, NEW s \in Sides, SetEpUpCtx(s)
  PROVE  LiveInv'
<1>1. /\ pc[s] = "point" /\ pc'[s] = (IF at[s] + 1 = N THEN "verify" ELSE "point")
      /\ \A t \in Sides : t # s => pc'[t] = pc[t]
  BY Zenon DEF SetEpUpCtx, Advance, SafeInv, Types
<1>2. Becomes(s, "new", chan[s].broken, chan[s].handler,
              chan[s].processed, chan[s].told, chan[s].announced)
  BY StateUpdate, Zenon DEF SetEpUpCtx, SafeInv, Types, ChStates
<1>3. UNCHANGED <<link, ep, bt, info>> BY Zenon DEF SetEpUpCtx, epVars
<1>4. at[s] \in Links /\ \A t \in Sides, j \in Links :
        upCtx'[t][j] = IF t = s /\ j = at[s] THEN "channel" ELSE upCtx[t][j]
  BY ZenonT(20) DEF SetEpUpCtx, SafeInv, Types
<1>5. GoneQuiet
  <2>1. \A t \in Sides : chan'[t].state = "destroy" => t # s /\ chan'[t] = chan[t]
    BY <1>2, Zenon DEF Becomes
  <2>2. QED BY <1>3, <1>4, <2>1, Zenon DEF GoneQuiet
<1>6. \A j \in Links : upCtx'["server"][j] = "info" => upCtx["server"][j] = "info"
  BY <1>4, Zenon DEF Sides
<1>7. \A j \in Links : Refers(j)' => Refers(j) BY <1>3, <1>6, Zenon DEF Refers
<1>8. pc'["server"] \in {"emplace", "upctx"} => pc'["server"] = pc["server"]
  BY <1>1, Zenon DEF Sides
<1>9. pc'["server"] \in Pointing => pc["server"] \in Pointing
  BY <1>1, Zenon DEF Sides, Pointing
<1>10. ASSUME pc'["server"] \in Pointing \ {"point"}, NEW j \in Links
       PROVE  upCtx'["server"][j] # "info"
  <2>1. CASE s = "server"
    <3>1. at[s] + 1 = N BY <1>1, <1>10, <2>1, Zenon DEF Pointing
    <3>2. j < at[s] \/ j = at[s] BY <1>4, <3>1, SetupAssumption DEF Links
    <3>3. j < at[s] => upCtx[s][j] = "channel" BY <1>1, Zenon DEF SafeInv, PhaseInv
    <3>4. upCtx'[s][j] = "channel" BY <1>4, <3>2, <3>3, Zenon
    <3>5. QED BY <2>1, <3>4, Zenon
  <2>2. CASE s # "server"
    BY <1>1, <1>6, <1>10, <2>2, Zenon DEF Sides, LiveInv, InfoInv
  <2>3. QED BY <2>1, <2>2, Zenon
<1>11. InfoQuiet
  BY <1>3, <1>6, <1>7, <1>8, <1>9, <1>10, Zenon DEF InfoQuiet, Refers
<1>12. QED BY <1>5, <1>11, QuietGone, QuietInfo, Zenon DEF LiveInv

\* Nothing points to the channel that is gone, and nobody is in it.
LEMMA UninitializedLive ==
  ASSUME SafeInv, LiveInv, NEW s \in Sides, Uninitialized(s),
         Using(s, {"channel", "check", "notify"}) = {}, UNCHANGED <<link, ep, bt, info>>,
         pc'["server"] \in {"emplace", "upctx"} => pc'["server"] = pc["server"],
         pc'["server"] \in Pointing => pc["server"] \in Pointing,
         pc'["server"] \in Pointing \ {"point"} =>
            s = "server" \/ pc["server"] \in Pointing \ {"point"}
  PROVE  LiveInv'
<1>1. \A t \in Sides, j \in Links : upCtx'[t][j] = IF t = s THEN "none" ELSE upCtx[t][j]
  BY Zenon DEF Uninitialized, SafeInv, Types
<1>2. Becomes(s, "destroy", chan[s].broken, chan[s].handler,
              chan[s].processed, chan[s].told, chan[s].announced)
  BY StateUpdate, Zenon DEF Uninitialized, SafeInv, Types, ChStates
<1>3. \A j \in Links : bt[s][j] \notin {"channel", "check", "notify"} BY Zenon DEF Using
<1>4. GoneInv'
  <2>1. \A t \in Sides : t # s => chan'[t] = chan[t] BY <1>2, Zenon DEF Becomes
  <2>2. QED BY <1>1, <1>3, <2>1, Zenon DEF LiveInv, GoneInv
<1>5. \A j \in Links : upCtx'["server"][j] = "info" => s # "server" /\ upCtx["server"][j] = "info"
  BY <1>1, Zenon DEF Sides
<1>6. \A j \in Links : Refers(j)' => Refers(j) BY <1>5, Zenon DEF Refers
<1>7. InfoQuiet BY <1>5, <1>6, Zenon DEF InfoQuiet, Refers, LiveInv, InfoInv
<1>8. QED BY <1>4, <1>7, QuietInfo, Zenon DEF LiveInv

\* Initialize fails.
LEMMA ForceUnInitializeLive ==
  ASSUME Prompt, SafeInv, LiveInv, NEW s \in Sides, ForceUnInitialize(s)
  PROVE  LiveInv'
<1>1. /\ pc[s] = "undo" /\ pc'[s] = (IF s = "client" THEN "close" ELSE "erase_error")
      /\ \A t \in Sides : t # s => pc'[t] = pc[t]
  BY Zenon DEF ForceUnInitialize, SafeInv, Types
<1>2. UNCHANGED <<link, ep, bt, info>> BY Zenon DEF ForceUnInitialize, epVars
<1>3. Uninitialized(s) /\ Using(s, {"channel", "check", "notify"}) = {}
  BY Zenon DEF ForceUnInitialize, NobodyIn
<1>4. /\ pc'["server"] \in {"emplace", "upctx"} => pc'["server"] = pc["server"]
      /\ pc'["server"] \in Pointing => pc["server"] \in Pointing
      /\ pc'["server"] \in Pointing \ {"point"} =>
           s = "server" \/ pc["server"] \in Pointing \ {"point"}
  BY <1>1, Zenon DEF Sides, Pointing
<1>5. QED BY <1>2, <1>3, <1>4, UninitializedLive, Zenon

\* The channel is destroyed.
LEMMA DestructLive ==
  ASSUME Prompt, SafeInv, LiveInv, NEW s \in Sides, Destruct(s)
  PROVE  LiveInv'
<1>1. UNCHANGED <<pc, link, ep, bt, info>> BY Zenon DEF Destruct, setupVars, epVars
<1>2. Uninitialized(s) BY Zenon DEF Destruct
<1>3. Using(s, {"channel", "check", "notify"}) = {} BY Zenon DEF Destruct, NobodyIn, Using
<1>4. QED BY <1>1, <1>2, <1>3, UninitializedLive, Zenon

\* The new endpoint is not in the info.
LEMMA ConnectLive == ASSUME SafeInv, LiveInv, Connect PROVE LiveInv'
<1>1. UNCHANGED <<link, upCtx, bt, info, chan>> /\ pc["client"] = "connect"
  BY Zenon DEF Connect
<1>2. CASE pc' = [pc EXCEPT !["client"] = "close"] /\ UNCHANGED ep
  <2>1. Passes BY <1>1, <1>2, Zenon DEF Passes, SafeInv, Types, Sides
  <2>2. QED BY <1>1, <2>1, PassesLive, Zenon
<1>3. CASE /\ pc' = [client |-> "wait", server |-> "emplace"]
           /\ ep' = [ep EXCEPT !["server"][link] = "established"]
  <2>1. link \in Links /\ ep["server"][link] = "none"
    BY <1>1, SetupAssumption DEF SafeInv, Types, OrderInv, EpInv, Links
  <2>2. link \notin info.broken /\ upCtx["server"][link] # "info" /\ bt["server"][link] # "info"
    BY <2>1, Zenon DEF LiveInv, InfoInv
  <2>3. \A j \in Links : ep["server"][j] # "none" => ep'["server"][j] # "none"
    BY <1>3, <2>1, Zenon DEF SafeInv, Types, Sides
  <2>4. pc'["server"] = "emplace" /\ "emplace" \notin Pointing BY <1>3, Zenon DEF Pointing
  <2>5. \A j \in Links : Refers(j)' <=> Refers(j) BY <1>1, Zenon DEF Refers
  <2>6. ~Refers(link)' BY <1>1, <2>2, Zenon DEF Refers
  <2>7. InfoInv'
    BY <1>1, <2>2, <2>3, <2>4, <2>5, <2>6, Zenon DEF LiveInv, InfoInv, Whole
  <2>8. GoneQuiet BY <1>1, Zenon DEF GoneQuiet
  <2>9. QED BY <2>7, <2>8, QuietGone, Zenon DEF LiveInv
<1>4. QED BY <1>2, <1>3, Zenon DEF Connect

\* A new info has no endpoint but this one, and no break refers to the one before; an info that
\* is in the map gets one endpoint more.
LEMMA EmplaceNewEndpointLive == ASSUME SafeInv, LiveInv, EmplaceNewEndpoint PROVE LiveInv'
<1>1. UNCHANGED <<link, ep, upCtx, bt, chan>> /\ pc["server"] = "emplace"
  BY Zenon DEF EmplaceNewEndpoint, epVars
<1>2. link \in Links /\ link \in Nat /\ link <= N - 1
  BY <1>1, SetupAssumption DEF SafeInv, Types, EpInv, Links
<1>3. ~Refers(link) /\ link \notin info.broken /\ upCtx["server"][link] # "info"
  BY <1>1, Zenon DEF LiveInv, InfoInv
<1>4. /\ \A j \in Links : Refers(j)' <=> Refers(j)
      /\ Refers(link)' <=> Refers(link)
  BY <1>1, Zenon DEF Refers
<1>5. pc'["server"] \in {"upctx", "idle"} /\ "upctx" \notin Pointing /\ "idle" \notin Pointing
  BY DEF EmplaceNewEndpoint, Refuse, Pointing, SafeInv, Types, Sides
<1>9. GoneInv'
  <2>1. GoneQuiet BY <1>1, Zenon DEF GoneQuiet
  <2>2. QED BY <2>1, QuietGone, Zenon DEF LiveInv
<1>6. CASE ~info.inMap
  <2>1. info' = [state |-> "new_ep", vec |-> <<link>>, broken |-> {}, inMap |-> TRUE]
    BY <1>6, Zenon DEF EmplaceNewEndpoint
  <2>2. /\ info'.state = "new_ep" /\ info'.vec = <<link>> /\ info'.broken = {} /\ info'.inMap
        /\ info'.vec # <<>> /\ info'.vec[1] = link /\ Len(info'.vec) = 1
    BY <2>1, <1>2, Zenon
  <2>3. \A j \in Links : ~Refers(j) BY <1>6, Zenon DEF LiveInv, InfoInv
  <2>4. \A j \in Links : bt["server"][j] # "erase" BY <1>6, Zenon DEF LiveInv, InfoInv
  <2>5. Whole' <=> link = 0 BY <2>2, Zenon DEF Whole
  <2>6. InfoInv'
    BY <1>1, <1>2, <1>3, <1>4, <1>5, <2>2, <2>3, <2>4, <2>5 DEF LiveInv, InfoInv
  <2>7. QED BY <1>9, <2>6, Zenon DEF LiveInv
<1>7. CASE info.inMap
  <2>1. info' = [info EXCEPT !.vec = IF Len(@) = link THEN Append(@, link) ELSE @]
    BY <1>7, Zenon DEF EmplaceNewEndpoint
  <2>2. info.vec \in Seq(Links) /\ info.vec # <<>> BY <1>7, Zenon DEF SafeInv, Types, Infos, LiveInv,
    InfoInv
  <2>3. info \in Infos BY Zenon DEF SafeInv, Types
  <2>4. /\ info'.state = info.state /\ info'.broken = info.broken /\ info'.inMap = info.inMap
        /\ info'.vec = IF Len(info.vec) = link THEN Append(info.vec, link) ELSE info.vec
    BY <2>1, <2>3, Zenon DEF Infos
  <2>5. /\ info'.vec # <<>> /\ info'.vec[1] = info.vec[1] /\ Len(info'.vec) >= Len(info.vec)
        /\ Len(info.vec) \in Nat /\ Len(info.vec) > 0 /\ Len(info'.vec) \in Nat
        /\ Len(info.vec) = link => Len(info'.vec) = link + 1
    BY <1>2, <2>2, <2>4
  <2>6. pc'["server"] = "upctx" => Len(info.vec) = link /\ info.state = "new_ep"
    BY <1>7 DEF EmplaceNewEndpoint, Refuse
  <2>7. Whole' <=> Whole BY <2>5, Zenon DEF Whole
  <2>8. pc'["server"] = "upctx" => link < Len(info'.vec) /\ link # 0
    BY <1>2, <2>5, <2>6
  <2>9. \A j \in Links : Refers(j) /\ Whole => j < Len(info'.vec)
    BY <2>5, SetupAssumption DEF LiveInv, InfoInv, Links
  <2>10. InfoInv'
    BY <1>1, <1>3, <1>4, <1>5, <1>7, <2>4, <2>5, <2>6, <2>7, <2>8, <2>9, Zenon DEF LiveInv, InfoInv
  <2>11. QED BY <1>9, <2>10, Zenon DEF LiveInv
<1>8. QED BY <1>6, <1>7, Zenon

\* The endpoint points to the info, which is in the map and not given up.
LEMMA SetUpCtxLive == ASSUME SafeInv, LiveInv, SetUpCtx PROVE LiveInv'
<1>1. UNCHANGED <<link, ep, bt, info, chan>> /\ pc["server"] = "upctx"
  BY Zenon DEF SetUpCtx, epVars
<1>2. link \in Links /\ link \in Nat /\ ep["server"][link] # "none"
  BY <1>1, SetupAssumption DEF SafeInv, Types, EpInv, Links
<1>3. pc'["server"] \in {"ready", "last"} BY Zenon DEF SetUpCtx, SafeInv, Types, Sides
<1>4. "ready" \notin Pointing /\ "last" \notin Pointing BY Zenon DEF Pointing
<1>5. \A t \in Sides, j \in Links :
        upCtx'[t][j] = IF t = "server" /\ j = link THEN "info" ELSE upCtx[t][j]
  BY <1>2, ZenonT(20) DEF SetUpCtx, SafeInv, Types, Sides
<1>6. \A j \in Links : upCtx'["server"][j] = IF j = link THEN "info" ELSE upCtx["server"][j]
  BY <1>5, Zenon DEF Sides
<1>7. GoneQuiet BY <1>1, <1>5, Zenon DEF GoneQuiet
<1>8. \A j \in Links : Refers(j)' => Refers(j) \/ j = link BY <1>1, <1>6, Zenon DEF Refers
<1>9. /\ info.inMap /\ info.state # "ep_broken" /\ link \notin info.broken
      /\ Whole => link < Len(info.vec)
      /\ link = 0 => Whole
  BY <1>1, Zenon DEF LiveInv, InfoInv
<1>10. UNCHANGED Whole BY <1>1, Zenon DEF Whole
<1>11. \A j \in Links : Refers(j)' =>
         /\ info.inMap /\ info.state # "ep_broken" /\ j \notin info.broken
         /\ Whole => j < Len(info.vec)
         /\ j = 0 => Whole
  BY <1>8, <1>9, Zenon DEF LiveInv, InfoInv
<1>12. InfoInv'
  BY <1>1, <1>2, <1>3, <1>4, <1>6, <1>10, <1>11, Zenon DEF LiveInv, InfoInv
<1>13. QED BY <1>7, <1>12, QuietGone, Zenon DEF LiveInv

\* The info is complete, or given up.
LEMMA LastEndpointLive == ASSUME SafeInv, LiveInv, LastEndpoint PROVE LiveInv'
<1>1. UNCHANGED <<link, ep, upCtx, bt, chan>> /\ pc["server"] = "last"
  BY Zenon DEF LastEndpoint, epVars
<1>2. CASE info.state # "new_ep"
  <2>1. info' = info /\ pc' = [client |-> "close", server |-> "idle"]
    BY <1>2, Zenon DEF LastEndpoint, Refuse
  <2>3. Passes BY <1>1, <2>1, Zenon DEF Passes
  <2>4. QED BY <1>1, <2>3, PassesLive, Zenon
<1>3. CASE info.state = "new_ep"
  <2>1. info \in Infos BY Zenon DEF SafeInv, Types
  <2>2. /\ info'.state = "new_channel" /\ info'.vec = info.vec /\ info'.broken = info.broken
        /\ info'.inMap = info.inMap
    BY <1>3, <2>1, Zenon DEF LastEndpoint, Infos
  <2>3. pc'["server"] = "point" BY <1>3, Zenon DEF LastEndpoint, SafeInv, Types, Sides
  <2>4. UNCHANGED Whole BY <2>2, Zenon DEF Whole
  <2>5. \A j \in Links : Refers(j)' <=> Refers(j) BY <1>1, Zenon DEF Refers
  <2>6. InfoInv' BY <1>1, <1>3, <2>2, <2>3, <2>4, <2>5, Zenon DEF LiveInv, InfoInv
  <2>7. GoneQuiet BY <1>1, Zenon DEF GoneQuiet
  <2>8. QED BY <2>6, <2>7, QuietGone, Zenon DEF LiveInv
<1>4. QED BY <1>2, <1>3, Zenon

\* The listener takes the info from the map: the endpoints point to the channel, or to nothing,
\* and nobody is in the info.
LEMMA EraseNewEpLive == ASSUME Prompt, SafeInv, LiveInv, EraseNewEp PROVE LiveInv'
<1>1. UNCHANGED <<link, ep, upCtx, bt, chan>> /\ pc["server"] \in {"erase_ok", "erase_error"}
  BY Zenon DEF EraseNewEp, epVars
<1>2. pc'["server"] \in {"ready", "idle"} BY DEF EraseNewEp, Refuse, SafeInv, Types, Sides
<1>3. "ready" \notin Pointing /\ "idle" \notin Pointing BY Zenon DEF Pointing
<1>4. info \in Infos BY Zenon DEF SafeInv, Types
<1>5. /\ info'.state = info.state /\ info'.vec = info.vec /\ info'.broken = info.broken
      /\ info'.inMap = FALSE
  BY <1>4, Zenon DEF EraseNewEp, Infos
<1>6. info.state = "new_channel" /\ \A j \in Links : upCtx["server"][j] # "info"
  BY <1>1, Zenon DEF LiveInv, InfoInv, Pointing
<1>7. \A j \in Links : bt["server"][j] # "info" BY Zenon DEF EraseNewEp, NobodyIn, Using
<1>8. \A j \in Links : ~Refers(j)' BY <1>1, <1>6, <1>7, Zenon DEF Refers
<1>9. \A j \in Links : bt["server"][j] # "erase" BY <1>6, Zenon DEF LiveInv, InfoInv
<1>10. UNCHANGED Whole BY <1>5, Zenon DEF Whole
<1>11. InfoInv' BY <1>1, <1>2, <1>3, <1>5, <1>8, <1>9, <1>10, Zenon DEF LiveInv, InfoInv
<1>12. GoneQuiet BY <1>1, Zenon DEF GoneQuiet
<1>13. QED BY <1>11, <1>12, QuietGone, Zenon DEF LiveInv

\* An endpoint is marked in the info; the last one gives the info up.
LEMMA AllEPBrokenLive == ASSUME SafeInv, LiveInv, NEW i \in Links, AllEPBroken(i) PROVE LiveInv'
<1>1. PICK x \in {"done", "erase"} : Goto("server", i, x)
  BY Zenon DEF AllEPBroken
<1>2. Moves("server", i, x) BY <1>1, GotoMoves, Zenon DEF SafeInv, Types, Stages, Sides
<1>3. UNCHANGED <<chan, pc, link, ep, upCtx>> /\ bt["server"][i] = "info"
  BY <1>2, Zenon DEF AllEPBroken, Moves
<1>4. \A j \in Links : bt'["server"][j] = IF j = i THEN x ELSE bt["server"][j]
  BY <1>2, Zenon DEF Moves, Sides
<1>5. GoneQuiet BY <1>1, <1>2, <1>3, Zenon DEF GoneQuiet, Moves
<1>6. Refers(i) /\ ~Refers(i)' /\ \A j \in Links : j # i => (Refers(j)' <=> Refers(j))
  BY <1>1, <1>3, <1>4, Zenon DEF Refers
<1>7. CASE i >= Len(info.vec)
  <2>1. Goto("server", i, "done") /\ UNCHANGED info BY <1>7, Zenon DEF AllEPBroken
  <2>2. Moves("server", i, "done") BY <2>1, GotoMoves, Zenon DEF SafeInv, Types, Stages, Sides
  <2>3. InfoInv' BY <2>1, <2>2, MovesInfo, Zenon DEF LiveInv, Stages, Sides
  <2>4. QED BY <1>5, <2>3, QuietGone, Zenon DEF LiveInv
<1>8. CASE ~(i >= Len(info.vec))
  <2> DEFINE broken == info.broken \cup {i}
             all == 0 .. Len(info.vec) - 1 \subseteq broken /\ info.state = "new_ep"
  <2>1. /\ info' = [info EXCEPT !.broken = broken, !.state = IF all THEN "ep_broken" ELSE @]
        /\ Goto("server", i, IF all THEN "erase" ELSE "done")
    BY <1>8, Zenon DEF AllEPBroken
  <2> HIDE DEF all
  <2>2. info \in Infos BY Zenon DEF SafeInv, Types
  <2>3. /\ info'.vec = info.vec /\ info'.broken = broken /\ info'.inMap = info.inMap
        /\ info'.state = IF all THEN "ep_broken" ELSE info.state
    BY <2>1, <2>2, Zenon DEF Infos
  <2>4. /\ info.inMap /\ info.state # "ep_broken" /\ i \notin info.broken /\ info.vec # <<>>
        /\ Whole => i < Len(info.vec)
        /\ i = 0 => Whole
    BY <1>6, Zenon DEF LiveInv, InfoInv
  <2>5. all => /\ info.state = "new_ep" /\ Whole
               /\ \A j \in Links : j < Len(info.vec) => j \in broken
    <3>1. info.vec \in Seq(Links) BY <2>2, Zenon DEF Infos
    <3>2. Len(info.vec) \in Nat /\ Len(info.vec) > 0 BY <2>4, <3>1
    <3>3. SUFFICES ASSUME all
                   PROVE  /\ info.state = "new_ep" /\ Whole
                          /\ \A j \in Links : j < Len(info.vec) => j \in broken
      BY Zenon
    <3>4. 0 \in broken BY <3>2, <3>3 DEF all
    <3>5. Whole BY <2>4, <3>4, Zenon DEF LiveInv, InfoInv
    <3>6. \A j \in Links : j < Len(info.vec) => j \in broken
      BY <3>2, <3>3, SetupAssumption DEF all, Links
    <3>7. QED BY <3>3, <3>5, <3>6, Zenon DEF all
  <2>6. all => \A j \in Links : ~Refers(j)'
    <3>1. SUFFICES ASSUME all, NEW j \in Links, Refers(j)' PROVE FALSE BY Zenon
    <3>2. j # i /\ Refers(j) BY <1>6, <3>1, Zenon
    <3>3. j \notin broken /\ j < Len(info.vec) BY <2>5, <3>1, <3>2, Zenon DEF LiveInv, InfoInv
    <3>4. QED BY <2>5, <3>1, <3>3, Zenon
  <2>7. UNCHANGED Whole BY <2>3, Zenon DEF Whole
  <2>8. x = "erase" <=> all
    <3>1. bt'["server"][i] = IF all THEN "erase" ELSE "done"
      BY <2>1, Zenon DEF Goto, SafeInv, Types, Sides
    <3>2. QED BY <1>1, <1>4, <3>1, Zenon
  <2>9. \A j \in Links : bt["server"][j] # "erase" BY <2>4, Zenon DEF LiveInv, InfoInv
  <2>10. InfoInv'
    <3>1. \A j \in Links :
            j \in info'.broken \/ upCtx'["server"][j] = "info" \/ bt'["server"][j] = "info"
              => ep'["server"][j] # "none"
      BY <1>1, <1>3, <1>4, <2>3, Zenon DEF LiveInv, InfoInv
    <3>2. \A j \in Links : Refers(j)' =>
            /\ info'.inMap /\ info'.state # "ep_broken" /\ j \notin info'.broken
            /\ Whole' => j < Len(info'.vec)
            /\ j = 0 => Whole'
      BY <1>6, <2>3, <2>6, <2>7, Zenon DEF LiveInv, InfoInv
    <3>3. (info'.inMap => info'.vec # <<>>) /\ (0 \in info'.broken => Whole')
      BY <2>3, <2>4, <2>7, Zenon DEF LiveInv, InfoInv
    <3>4. ASSUME pc["server"] \in {"emplace", "upctx"}
          PROVE  ~Refers(link)' /\ link \notin info'.broken /\ upCtx["server"][link] # "info"
      <4>1. link \in Links BY <3>4, SetupAssumption DEF SafeInv, Types, EpInv, Links
      <4>2. ~Refers(link) /\ link \notin info.broken /\ upCtx["server"][link] # "info"
        BY <3>4, Zenon DEF LiveInv, InfoInv
      <4>3. link # i BY <1>6, <4>2, Zenon
      <4>4. Refers(link)' <=> Refers(link) BY <1>3, <1>4, <4>1, <4>3, Zenon DEF Refers
      <4>5. QED BY <2>3, <4>2, <4>3, <4>4, Zenon
    <3>5. ASSUME pc["server"] = "upctx"
          PROVE  /\ info'.inMap /\ info'.state = "new_ep"
                 /\ Whole' => link < Len(info'.vec)
                 /\ link = 0 => Whole'
      <4>1. link \in Links BY <3>5, SetupAssumption DEF SafeInv, Types, EpInv, Links
      <4>2. link \notin info'.broken BY <3>4, <3>5, Zenon
      <4>3. /\ info.inMap /\ info.state = "new_ep"
            /\ Whole => link < Len(info.vec)
            /\ link = 0 => Whole
        BY <3>5, Zenon DEF LiveInv, InfoInv
      <4>4. ~all BY <2>3, <2>5, <4>1, <4>2, <4>3, Zenon
      <4>5. QED BY <2>3, <2>7, <4>3, <4>4, Zenon
    <3>6. \A j, k \in Links : bt'["server"][j] = "erase" =>
            /\ info'.inMap /\ info'.state = "ep_broken"
            /\ bt'["server"][k] = "erase" => k = j
      BY <1>4, <2>3, <2>4, <2>8, <2>9, Zenon
    <3>7. pc["server"] \in Pointing => info'.state = "new_channel"
      BY <2>3, <2>5, Zenon DEF LiveInv, InfoInv
    <3>8. pc["server"] \in Pointing \ {"point"} => \A j \in Links : upCtx["server"][j] # "info"
      BY Zenon DEF LiveInv, InfoInv
    <3>9. UNCHANGED <<pc, link, upCtx>> BY <1>3, Zenon
    <3>10. QED
      BY ONLY <3>1, <3>2, <3>3, <3>4, <3>5, <3>6, <3>7, <3>8, <3>9 DEF InfoInv
  <2>11. QED BY <1>5, <2>10, QuietGone, Zenon DEF LiveInv
<1>9. QED BY <1>7, <1>8, Zenon

\* The info that was given up leaves the map; nobody refers to it.
LEMMA EraseBrokenLive == ASSUME SafeInv, LiveInv, NEW i \in Links, EraseBroken(i) PROVE LiveInv'
<1>1. Moves("server", i, "done") /\ bt["server"][i] = "erase"
  BY GotoMoves, Zenon DEF EraseBroken, SafeInv, Types, Stages, Sides
<1>2. UNCHANGED <<chan, pc, link, ep, upCtx>> BY <1>1, Zenon DEF EraseBroken, Moves
<1>3. \A j \in Links : bt'["server"][j] = IF j = i THEN "done" ELSE bt["server"][j]
  BY <1>1, Zenon DEF Moves, Sides
<1>4. GoneQuiet BY <1>1, <1>2, Zenon DEF GoneQuiet, Moves
<1>5. info \in Infos BY Zenon DEF SafeInv, Types
<1>6. /\ info'.state = info.state /\ info'.vec = info.vec /\ info'.broken = info.broken
      /\ info'.inMap = FALSE
  BY <1>5, Zenon DEF EraseBroken, Infos
<1>7. info.state = "ep_broken" /\ \A j \in Links : bt["server"][j] = "erase" => j = i
  BY <1>1, Zenon DEF LiveInv, InfoInv
<1>8. \A j \in Links : ~Refers(j) /\ ~Refers(j)'
  <2>1. \A j \in Links : ~Refers(j) BY <1>7, Zenon DEF LiveInv, InfoInv
  <2>2. QED BY <1>2, <1>3, <2>1, Zenon DEF Refers
<1>9. \A j \in Links : bt'["server"][j] # "erase" BY <1>3, <1>7, Zenon
<1>10. UNCHANGED Whole BY <1>6, Zenon DEF Whole
<1>11. pc["server"] \in {"emplace", "upctx"} => link \in Links
  BY SetupAssumption DEF SafeInv, Types, EpInv, Links
<1>12. pc["server"] \in {"emplace", "upctx"} => ~Refers(link)'
  <2>1. \A j \in Links : j = link => ~Refers(link)' BY <1>2, <1>8, Zenon DEF Refers
  <2>2. QED BY <1>11, <2>1, Zenon
<1>13. InfoInv'
  BY <1>2, <1>3, <1>6, <1>7, <1>8, <1>9, <1>10, <1>12, Zenon DEF LiveInv, InfoInv
<1>14. QED BY <1>4, <1>13, QuietGone, Zenon DEF LiveInv

-----------------------------------------------------------------------------
(* Theorems *)

\* Nothing is connected and no endpoint exists.
LEMMA InitSafe == Init => SafeInv
<1> SUFFICES ASSUME Init PROVE SafeInv BY Zenon
<1>1. 0 \in Links /\ 0 < N /\ N \in Nat BY SetupAssumption DEF Links
<1>2. chan \in [Sides -> Channels] /\ \A s \in Sides : chan[s] = NoChannel
  <2>1. NoChannel \in Channels BY Zenon DEF NoChannel, Channels, ChStates
  <2>2. QED BY <2>1, Zenon DEF Init
<1>3. info \in Infos BY DEF Init, NoInfo, Infos
<1>4. hist \in Histories BY Zenon DEF Init, Histories
<1>5. Types BY <1>1, <1>2, <1>3, <1>4 DEF Init, Types, Sides, Pcs, States, Pointees, Stages
<1>6. \A s \in Sides : chan[s].state = "none" /\ ~chan[s].announced BY <1>2 DEF NoChannel
<1>7. PhaseInv BY <1>6 DEF Init, PhaseInv, Sides
<1>8. EpInv BY <1>1, Zenon DEF Init, EpInv, Sides
<1>9. OrderInv BY <1>1, <1>6, Zenon DEF Init, OrderInv, Sides
<1>10. FreshInv BY Zenon DEF Init, FreshInv
<1>11. AgreeInv BY <1>1, <1>6 DEF Init, AgreeInv, Sides
<1>12. QED BY <1>5, <1>7, <1>8, <1>9, <1>10, <1>11, Zenon DEF SafeInv

\* Nobody is told of anything.
LEMMA InitTell == Init => TellInv
<1> SUFFICES ASSUME Init PROVE TellInv BY Zenon
<1>1. \A s \in Sides : chan[s] = NoChannel BY SMTT(40) DEF Init
<1>2. \A s \in Sides : /\ ~chan[s].processed /\ ~chan[s].handler /\ chan[s].told = 0
                       /\ pc[s] \notin Critical
  BY <1>1 DEF NoChannel, Init, Sides, Critical
<1>3. \A s \in Sides, i \in Links : bt[s][i] # "notify" BY Zenon DEF Init
<1>4. QED BY <1>2, <1>3 DEF TellInv, TellAt

\* Nothing points anywhere.
LEMMA InitLive == Init => LiveInv
<1> SUFFICES ASSUME Init PROVE LiveInv BY Zenon
<1>1. \A s \in Sides : chan[s].state # "destroy" BY Zenon DEF Init, NoChannel
<1>2. \A i \in Links : upCtx["server"][i] = "none" /\ bt["server"][i] = "idle"
  BY Zenon DEF Init, Sides
<1>3. info.broken = {} /\ info.inMap = FALSE BY Zenon DEF Init, NoInfo
<1>4. pc["server"] = "idle" /\ "idle" \notin Pointing BY Zenon DEF Init, Pointing
<1>5. \A i \in Links : ~Refers(i) BY <1>2, Zenon DEF Refers
<1>6. QED BY <1>1, <1>2, <1>3, <1>4, <1>5, Zenon DEF LiveInv, GoneInv, InfoInv

\* Every step keeps SafeInv.
LEMMA NextSafe == ASSUME SafeInv, [Next]_vars PROVE SafeInv'
<1>1. CASE Server
  BY <1>1, EmplaceNewEndpointSafe, SetUpCtxSafe, LastEndpointSafe, ReadySafe,
     AnnounceSafe, EraseNewEpSafe, ListEndpointSafe, Zenon DEF Server
<1>2. CASE Client BY <1>2, ConnectSafe, CloseConnectedSafe, Zenon DEF Client
<1>3. ASSUME NEW s \in Sides, Initialize(s) \/ Disconnect(s) \/ Destruct(s) \/ EraseChannel(s)
      PROVE  SafeInv'
  BY <1>3, SetEpUpCtxSafe, AllEpEstablishedSafe, ForceUnInitializeSafe,
     EstablishSafe, SetBrokenInfoSafe, EmplaceChannelUuidSafe, DisconnectSafe,
     DestructSafe, EraseChannelSafe, Zenon DEF Initialize
<1>4. ASSUME NEW s \in Sides, NEW i \in Links,
             Broken(s, i) \/ QpError(s, i) \/ DetectHbState(s, i)
      PROVE  SafeInv'
  BY <1>4, ProcessEpErrorSafe, ReadUpCtxSafe, SetEpBrokenSafe, AllEPBrokenSafe,
     EraseBrokenSafe, NeedProcessBrokenSafe, InvokeChannelBrokenCbSafe,
     QpErrorSafe, DetectHbStateSafe, SMTT(40) DEF Broken
<1>5. CASE UNCHANGED vars
  BY <1>5 DEF vars, SafeInv, Types, PhaseInv, Covered, EpInv, OrderInv, FreshInv, AgreeInv
<1>6. QED BY <1>1, <1>2, <1>3, <1>4, <1>5, Zenon DEF Next

\* With the timing that Prompt stands for, every step keeps TellInv.
LEMMA NextTell == ASSUME Prompt, SafeInv, TellInv, [Next]_vars PROVE TellInv'
<1>1. CASE Server
  BY <1>1, EmplaceNewEndpointTell, SetUpCtxTell, LastEndpointTell, ReadyTell,
     AnnounceTell, EraseNewEpTell, ListEndpointTell, Zenon DEF Server
<1>2. CASE Client BY <1>2, ConnectTell, CloseConnectedTell, Zenon DEF Client
<1>3. ASSUME NEW s \in Sides, Initialize(s) \/ Disconnect(s) \/ Destruct(s) \/ EraseChannel(s)
      PROVE  TellInv'
  BY <1>3, SetEpUpCtxTell, AllEpEstablishedTell, ForceUnInitializeTell,
     EstablishTell, SetBrokenInfoTell, EmplaceChannelUuidTell, DisconnectTell,
     DestructTell, EraseChannelTell, Zenon DEF Initialize
<1>4. ASSUME NEW s \in Sides, NEW i \in Links,
             Broken(s, i) \/ QpError(s, i) \/ DetectHbState(s, i)
      PROVE  TellInv'
  BY <1>4, ProcessEpErrorTell, ReadUpCtxTell, SetEpBrokenTell, AllEPBrokenTell,
     EraseBrokenTell, NeedProcessBrokenTell, InvokeChannelBrokenCbTell,
     QpErrorTell, DetectHbStateTell, SMTT(40) DEF Broken
<1>5. CASE UNCHANGED vars
  BY <1>5 DEF vars, TellInv, TellAt
<1>6. QED BY <1>1, <1>2, <1>3, <1>4, <1>5, Zenon DEF Next

\* With the timing that Prompt stands for, every step keeps LiveInv.
LEMMA NextLive == ASSUME Prompt, SafeInv, LiveInv, [Next]_vars PROVE LiveInv'
<1>1. CASE Server
  BY <1>1, EmplaceNewEndpointLive, SetUpCtxLive, LastEndpointLive, ReadyLive,
     AnnounceLive, EraseNewEpLive, ListEndpointLive, Zenon DEF Server
<1>2. CASE Client BY <1>2, ConnectLive, CloseConnectedLive, Zenon DEF Client
<1>3. ASSUME NEW s \in Sides, Initialize(s) \/ Disconnect(s) \/ Destruct(s) \/ EraseChannel(s)
      PROVE  LiveInv'
  BY <1>3, SetEpUpCtxLive, AllEpEstablishedLive, ForceUnInitializeLive,
     EstablishLive, SetBrokenInfoLive, EmplaceChannelUuidLive, DisconnectLive,
     DestructLive, EraseChannelLive, Zenon DEF Initialize
<1>4. ASSUME NEW s \in Sides, NEW i \in Links,
             Broken(s, i) \/ QpError(s, i) \/ DetectHbState(s, i)
      PROVE  LiveInv'
  BY <1>4, ProcessEpErrorLive, ReadUpCtxLive, SetEpBrokenLive, AllEPBrokenLive,
     EraseBrokenLive, NeedProcessBrokenLive, InvokeChannelBrokenCbLive,
     QpErrorLive, DetectHbStateLive, SMTT(40) DEF Broken
<1>5. CASE UNCHANGED vars
  BY <1>5, SMTT(20) DEF vars, LiveInv, GoneInv, InfoInv, Refers, Whole
<1>6. QED BY <1>1, <1>2, <1>3, <1>4, <1>5, Zenon DEF Next

\* The order of Initialize and of a break holds in every reachable state, in any timing.
THEOREM Invariance == Spec => []SafeInv
<1>1. SafeInv /\ [Next]_vars => SafeInv' BY NextSafe, Zenon
<1>2. QED BY <1>1, InitSafe, PTL DEF Spec

\* An established channel has been told of every break that was handled, in any timing: the
\* endpoints point to it before it looks at their states, and a break sets the state before it
\* looks where the endpoint points to.
THEOREM BreaksReachChannel == Spec => []NoBreakMissed
<1>1. SafeInv => NoBreakMissed BY Zenon DEF SafeInv, PhaseInv, Covered, NoBreakMissed
<1>2. QED BY <1>1, Invariance, PTL

\* A client that has a channel has one whose server's user accepted it, in any timing, unless
\* the server's info was made again half-way.
THEOREM SidesAgree == Spec => []Agreed
<1>1. SafeInv => Agreed BY Zenon DEF SafeInv, AgreeInv, Agreed
<1>2. QED BY <1>1, Invariance, PTL

\* The user is told once, of a channel all of whose endpoints are broken and that is closed for
\* good, if no channel loses its last endpoint while it is being completed.
THEOREM ToldOnce == ASSUME Prompt PROVE Spec => []BrokenOnce
<1>1. SafeInv /\ TellInv /\ [Next]_vars => TellInv' BY NextTell, Zenon
<1>2. SafeInv /\ TellInv => BrokenOnce
  <2> SUFFICES ASSUME SafeInv, TellInv, NEW s \in Sides, chan[s].told > 0
               PROVE  /\ chan[s].told = 1
                      /\ \A i \in Links : ep[s][i] = "broken"
                      /\ chan[s].state \in {"close", "destroy"}
    BY Zenon DEF BrokenOnce
  <2>1. chan[s].told \in Nat BY Zenon DEF SafeInv, Types, Channels
  <2>2. TellAt(s) BY Zenon DEF TellInv
  <2>3. chan[s].processed /\ chan[s].handler BY <2>2 DEF TellAt
  <2>4. QED BY <2>1, <2>2, <2>3 DEF TellAt
<1>3. QED BY <1>1, <1>2, Invariance, InitTell, PTL DEF Spec

\* A thread that handles a break finds the channel or the info that it uses, if a thread that has
\* read the pointer of an endpoint is through before the object is deleted: the channel is
\* destroyed when no endpoint points to it, and the info leaves the map when the endpoints point
\* to the channel or when the last of its endpoints is broken.
THEOREM PointeesAlive == ASSUME Prompt PROVE Spec => []PointeeAlive
<1>1. SafeInv /\ LiveInv /\ [Next]_vars => LiveInv' BY NextLive, Zenon
<1>2. LiveInv => PointeeAlive
  <2> SUFFICES ASSUME LiveInv PROVE PointeeAlive BY Zenon
  <2>1. \A s \in Sides : Using(s, {"channel", "check", "notify"}) # {}
                          => chan[s].state # "destroy"
    BY Zenon DEF LiveInv, GoneInv, Using
  <2>2. Using("server", {"info"}) # {} => info.inMap BY Zenon DEF LiveInv, InfoInv, Refers, Using
  <2>3. QED BY <2>1, <2>2, Zenon DEF PointeeAlive
<1>3. QED BY <1>1, <1>2, Invariance, InitLive, PTL DEF Spec

=============================================================================
