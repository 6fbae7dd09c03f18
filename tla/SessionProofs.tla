---------------------------- MODULE SessionProofs ---------------------------
(***************************************************************************)
(* Proofs about Session, for any sets of rovers, endpoints and payloads,   *)
(* any number of handshake retries and any restarts.                       *)
(***************************************************************************)
EXTENDS Session, TLAPS

-----------------------------------------------------------------------------
(* Type correctness.                                                       *)

LEMMA CommandSentType ==
  ASSUME NEW c \in SessionReplies \cup LowPowerOrders, NEW st,
         NEW e \in Endpoints \cup {NoEndpoint}
  PROVE  CommandSent(c, st, e) \subseteq DownMessage
BY DEF CommandSent, Down, DownMessage

LEMMA SentType ==
  ASSUME TypeOK, NEW r \in Rovers, Running(r),
         NEW c \in SessionRequests \cup Payloads
  PROVE  Sent(r, c) \subseteq UpMessage
BY DEF TypeOK, RoverTypeOK, Running, Sent, Up, UpMessage

LEMMA BaseStepType ==
  ASSUME TypeOK, BaseStep
  PROVE  TypeOK'
PROOF
<1> USE DEF TypeOK
<1> RoverTypeOK'
  BY DEF BaseStep, roverVars, RoverTypeOK
<1>1. CASE BaseStart
  BY <1>1, Zenon DEF BaseStart, ClearedSession, BaseTypeOK, BaseStates, ChannelTypeOK,
     channelVars
<1>2. CASE BaseStop
  BY <1>2, Zenon DEF BaseStop, ClearedSession, BaseTypeOK, BaseStates, ChannelTypeOK,
     channelVars
<1>3. ASSUME NEW c \in Orders, BaseSendOrder(c)
      PROVE  TypeOK'
  BY <1>3, CommandSentType, OrdersAssumption DEF BaseSendOrder, baseVars, BaseTypeOK, ChannelTypeOK
<1>4. ASSUME NEW m \in uplink, HandleSessionInit(m)
      PROVE  TypeOK'
  <2>1. m \in UpMessage
    BY DEF ChannelTypeOK
  <2>2. /\ CommandSent("SESSION_ESTABLISHED", base_state, rover_endpoint)
             \subseteq DownMessage
        /\ CommandSent("SESSION_ACCEPT", "HANDSHAKE_ACCEPT", m.src)
             \subseteq DownMessage
    BY <2>1, CommandSentType DEF SessionReplies, BaseTypeOK, UpMessage
  <2> QED
    BY <1>4, <2>1, <2>2, Zenon DEF HandleSessionInit, FlagAfterInit, sessionVars,
       BaseTypeOK, BaseStates, ChannelTypeOK, UpMessage
<1>5. ASSUME NEW m \in uplink, HandleSessionConfirm(m)
      PROVE  TypeOK'
  <2>1. m \in UpMessage
    BY DEF ChannelTypeOK
  <2>2. CommandSent("SESSION_ESTABLISHED", "ACTIVE", rover_endpoint)
             \subseteq DownMessage
    BY CommandSentType DEF SessionReplies, BaseTypeOK
  <2> QED
    BY <1>5, <2>1, <2>2 DEF HandleSessionConfirm, ConfirmExpected, BaseTypeOK,
       BaseStates, ChannelTypeOK, UpMessage
<1>6. ASSUME NEW m \in uplink, RouteToApplication(m)
      PROVE  TypeOK'
  BY <1>6 DEF RouteToApplication, sessionVars, channelVars, BaseTypeOK,
     ChannelTypeOK
<1> QED
  BY <1>1, <1>2, <1>3, <1>4, <1>5, <1>6 DEF BaseStep, BaseReceive

LEMMA DispatchType ==
  ASSUME TypeOK, NEW r \in Rovers, ready[r] # <<>>,
         NEW ts \in Seq(Timers \cup Posted), Dispatch(r, ts)
  PROVE  ready' \in [Rovers -> Seq(Timers \cup Posted)]
PROOF
<1>1. Tail(ready[r]) \in Seq(Timers \cup Posted)
  BY DEF TypeOK, RoverTypeOK
<1>2. Tail(ready[r]) \o ts \in Seq(Timers \cup Posted)
  BY <1>1
<1> QED
  BY <1>2 DEF Dispatch, TypeOK, RoverTypeOK

LEMMA ArmedType ==
  ASSUME TypeOK, NEW r \in Rovers
  PROVE  /\ [armed EXCEPT ![r] = @ \ Timers] \in [Rovers -> SUBSET Timers]
         /\ \A t \in Timers :
              /\ [armed EXCEPT ![r] = @ \ {t}] \in [Rovers -> SUBSET Timers]
              /\ [armed EXCEPT ![r] = @ \cup {t}] \in [Rovers -> SUBSET Timers]
PROOF
<1>1. /\ armed \in [Rovers -> SUBSET Timers]
      /\ armed[r] \subseteq Timers
  BY DEF TypeOK, RoverTypeOK
<1>2. ASSUME NEW S, S \subseteq Timers
      PROVE  [armed EXCEPT ![r] = S] \in [Rovers -> SUBSET Timers]
  <2> S \in SUBSET Timers
    BY <1>2
  <2> HIDE <1>2
  <2> QED
    BY <1>1
<1>3. /\ armed[r] \ Timers \subseteq Timers
      /\ \A t \in Timers : /\ armed[r] \ {t} \subseteq Timers
                           /\ armed[r] \cup {t} \subseteq Timers
  BY <1>1
<1> QED
  BY <1>2, <1>3

LEMMA DisconnectType ==
  ASSUME TypeOK, NEW r \in Rovers, ready[r] # <<>>, HandleBaseDisconnect(r)
  PROVE  /\ session_state' \in [Rovers -> RoverStates]
         /\ armed' \in [Rovers -> SUBSET Timers]
         /\ ready' \in [Rovers -> Seq(Timers \cup Posted)]
PROOF
<1>1. /\ <<>> \in Seq(Timers \cup Posted)
      /\ DisconnectTasks \in Seq(Timers \cup Posted)
  BY DEF DisconnectTasks, Posted
<1>2. Dispatch(r, <<>>) \/ Dispatch(r, DisconnectTasks)
  BY DEF HandleBaseDisconnect
<1>3. ready' \in [Rovers -> Seq(Timers \cup Posted)]
  BY <1>1, <1>2, DispatchType, Zenon
<1>4. session_state' \in [Rovers -> RoverStates]
  BY Zenon DEF HandleBaseDisconnect, TypeOK, RoverTypeOK, RoverStates
<1>5. armed' = [armed EXCEPT ![r] = @ \ Timers] \/ armed' = armed
  BY DEF HandleBaseDisconnect, Timers
<1>6. armed' \in [Rovers -> SUBSET Timers]
  BY <1>5, ArmedType, Zenon DEF TypeOK, RoverTypeOK
<1> QED
  BY <1>3, <1>4, <1>6

\* A queue entry exists only in a live process.
LEMMA RunReadyType ==
  ASSUME TypeOK, NEW r \in Rovers, Running(r), RunReady(r), UNCHANGED baseVars
  PROVE  TypeOK'
PROOF
<1> USE DEF TypeOK
<1> BaseTypeOK'
  BY DEF baseVars, BaseTypeOK
<1>0. <<>> \in Seq(Timers \cup Posted)
  OBVIOUS
<1>t. "handshake" \in Timers /\ "probe" \in Timers
  BY DEF Timers
<1>a. armed \in [Rovers -> SUBSET Timers]
  BY DEF RoverTypeOK
<1>1. CASE HandlePacketTimeout(r)
  BY <1>1, DisconnectType DEF HandlePacketTimeout, Due, restVars, channelVars,
     RoverTypeOK, ChannelTypeOK
<1>2. CASE ResetSequence(r)
  BY <1>0, <1>2, DispatchType, Zenon DEF ResetSequence, Due, restVars, channelVars,
     RoverTypeOK, ChannelTypeOK
<1>3. CASE ArmProbe(r)
  BY <1>0, <1>3, DispatchType, Zenon DEF ArmProbe, Due, restVars, channelVars,
     RoverTypeOK, ChannelTypeOK, Timers
<1>4. CASE HandleProbeTimer(r)
  <2>1. Sent(r, "SESSION_INIT") \subseteq UpMessage
    BY SentType DEF SessionRequests
  <2>2. ready' \in [Rovers -> Seq(Timers \cup Posted)]
    BY <1>0, <1>4, DispatchType, Zenon DEF HandleProbeTimer, Due
  <2>3. armed' \in [Rovers -> SUBSET Timers]
    <3>1. armed' = [armed EXCEPT ![r] = @ \cup {"probe"}] \/ armed' = armed
      BY <1>4 DEF HandleProbeTimer, ArmedAfterProbe
    <3> QED
      BY <1>a, <1>t, <3>1, ArmedType
  <2>4. uplink' \subseteq UpMessage
    BY <1>4, <2>1 DEF HandleProbeTimer, SendCommand, ChannelTypeOK
  <2> QED
    BY <1>4, <2>2, <2>3, <2>4 DEF HandleProbeTimer, restVars, RoverTypeOK,
       ChannelTypeOK
<1>5. CASE HandleHandshakeTimer(r)
  <2>1. /\ Sent(r, "SESSION_INIT") \subseteq UpMessage
        /\ Sent(r, "SESSION_CONFIRM") \subseteq UpMessage
    BY SentType DEF SessionRequests
  <2>2. CASE Handshaking(r) /\ RetriesExhausted(r)
    BY <1>5, <2>2, DisconnectType DEF HandleHandshakeTimer, Due, restVars,
       RoverTypeOK, ChannelTypeOK
  <2>3. CASE ~(Handshaking(r) /\ RetriesExhausted(r))
    <3>1. ready' \in [Rovers -> Seq(Timers \cup Posted)]
      BY <1>0, <1>5, <2>3, DispatchType, Zenon DEF HandleHandshakeTimer, Due
    <3>2. handshake_retry_count' \in [Rovers -> 0 .. MAX_HANDSHAKE_RETRIES]
      BY <1>5, <2>3, RoverAssumption DEF HandleHandshakeTimer, RetriesExhausted,
         RoverTypeOK
    <3>3. uplink' \subseteq UpMessage
      BY <1>5, <2>1, <2>3 DEF HandleHandshakeTimer, SendCommand, ChannelTypeOK
    <3>4. armed' \in [Rovers -> SUBSET Timers]
      <4>1. armed' = [armed EXCEPT ![r] = @ \cup {"handshake"}] \/ armed' = armed
        BY <1>5, <2>3 DEF HandleHandshakeTimer
      <4> QED
        BY <1>a, <1>t, <4>1, ArmedType
    <3> QED
      BY <1>5, <2>3, <3>1, <3>2, <3>3, <3>4 DEF HandleHandshakeTimer, restVars,
         RoverTypeOK, ChannelTypeOK
  <2> QED
    BY <2>2, <2>3
<1>6. CASE ArmHandshake(r)
  BY <1>0, <1>6, DispatchType, Zenon DEF ArmHandshake, Due, restVars, channelVars,
     RoverTypeOK, ChannelTypeOK, Timers
<1> QED
  BY <1>1, <1>2, <1>3, <1>4, <1>5, <1>6 DEF RunReady

\* A datagram of the base station changes a rover within its type.
LEMMA RoverReceiveType ==
  ASSUME TypeOK, NEW r \in Rovers, NEW m \in downlink, RoverReceive(r, m),
         UNCHANGED baseVars
  PROVE  TypeOK'
PROOF
<1> USE DEF TypeOK
<1> BaseTypeOK'
  BY DEF baseVars, BaseTypeOK
<1>r. Running(r)
  BY DEF RoverReceive
<1>1. CASE HandleSessionAccept(r)
  <2>1. Sent(r, "SESSION_CONFIRM") \subseteq UpMessage
    BY <1>r, SentType DEF SessionRequests
  <2>2. uplink' \subseteq UpMessage
    BY <1>1, <2>1 DEF HandleSessionAccept, SendCommand, ChannelTypeOK
  <2>3. ready' \in [Rovers -> Seq(Timers \cup Posted)]
    BY <1>1 DEF HandleSessionAccept, RoverTypeOK, Posted
  <2>4. armed' \in [Rovers -> SUBSET Timers]
    <3>1. \/ armed' = [armed EXCEPT ![r] = @ \ Timers]
          \/ armed' = [armed EXCEPT ![r] = @ \ {"handshake"}]
      BY <1>1, Zenon DEF HandleSessionAccept, CancelledByAccept, Timers
    <3>2. "handshake" \in Timers
      BY DEF Timers
    <3> QED
      BY <3>1, <3>2, ArmedType
  <2>5. session_state' \in [Rovers -> RoverStates]
    BY <1>1 DEF HandleSessionAccept, StateAfterAccept, RoverTypeOK, RoverStates
  <2> QED
    BY <1>1, <2>2, <2>3, <2>4, <2>5 DEF HandleSessionAccept, restVars, RoverTypeOK,
       ChannelTypeOK
<1>2. CASE HandleSessionEstablished(r)
  <2>1. uplink' \subseteq UpMessage
    <3>1. Flushed(r) \subseteq UpMessage
      <4>1. \A i \in DOMAIN stored_packets[r] : stored_packets[r][i] \in Payloads
        BY DEF RoverTypeOK
      <4> QED
        BY <1>r, <4>1, SentType DEF Flushed
    <3>2. \A ps \in SUBSET Payloads : FirstReports(r, ps) \subseteq UpMessage
      BY <1>r, SentType DEF FirstReports
    <3>3. PICK s \in StatusReports, t \in TelemetryReports :
            uplink' = uplink \cup Flushed(r) \cup FirstReports(r, {s, t})
      BY <1>2, Zenon DEF HandleSessionEstablished
    <3>4. {s, t} \in SUBSET Payloads
      BY RoverAssumption
    <3>5. FirstReports(r, {s, t}) \subseteq UpMessage
      BY <3>2, <3>4
    <3> QED
      BY <3>1, <3>3, <3>5 DEF ChannelTypeOK
  <2>2. armed' \in [Rovers -> SUBSET Timers]
    <3>1. armed' = [armed EXCEPT ![r] = @ \ Timers]
      BY <1>2 DEF HandleSessionEstablished, Timers
    <3> QED
      BY <3>1, ArmedType
  <2>3. /\ session_state' \in [Rovers -> RoverStates]
        /\ handshake_retry_count' \in [Rovers -> 0 .. MAX_HANDSHAKE_RETRIES]
    BY <1>2, RoverAssumption DEF HandleSessionEstablished, RoverTypeOK, RoverStates
  <2>4. stored_packets' \in [Rovers -> Seq(Payloads)]
    BY <1>2 DEF HandleSessionEstablished, StoreAfterFlush, RoverTypeOK
  <2>5. reporting' \in [Rovers -> BOOLEAN]
    BY <1>2 DEF HandleSessionEstablished, RoverTypeOK
  <2> QED
    BY <1>2, <2>1, <2>2, <2>3, <2>4, <2>5, Zenon DEF HandleSessionEstablished, RoverTypeOK,
       ChannelTypeOK
<1>3. CASE HandleSetLowPower(r, m.content)
  BY <1>3 DEF HandleSetLowPower, channelVars, RoverTypeOK, ChannelTypeOK
<1> QED
  BY <1>1, <1>2, <1>3 DEF RoverReceive

LEMMA SendToBaseType ==
  ASSUME TypeOK, NEW r \in Rovers, Running(r), NEW p \in Payloads, SendToBase(r, p)
  PROVE  /\ uplink' \subseteq UpMessage
         /\ stored_packets' \in [Rovers -> Seq(Payloads)]
PROOF
<1>1. Sent(r, p) \subseteq UpMessage
  BY SentType
<1> QED
  BY <1>1 DEF SendToBase, StoreMessageForLater, TypeOK, ChannelTypeOK, RoverTypeOK

\* Only a live process has handlers due or timers running, which is what the
\* type of the messages it sends rests on.
LEMMA RoverStepType ==
  ASSUME TypeOK, ProcessInv, NEW r \in Rovers, RoverStep(r)
  PROVE  TypeOK'
PROOF
<1> USE DEF TypeOK
<1>b. BaseTypeOK'
  BY DEF RoverStep, baseVars, BaseTypeOK
<1>1. ASSUME NEW e \in Endpoints, RoverStart(r, e)
      PROVE  TypeOK'
  <2>1. uplink' \subseteq UpMessage
    BY <1>1 DEF RoverStart, Up, UpMessage, SessionRequests, ChannelTypeOK
  <2>2. {"handshake"} \in SUBSET Timers
    BY DEF Timers
  <2>3. armed' \in [Rovers -> SUBSET Timers]
    BY <1>1, <2>2 DEF RoverStart, RoverTypeOK
  <2>4. /\ endpoint' \in [Rovers -> Endpoints \cup {NoEndpoint}]
        /\ session_state' \in [Rovers -> RoverStates]
        /\ handshake_retry_count' \in [Rovers -> 0 .. MAX_HANDSHAKE_RETRIES]
    BY <1>1, RoverAssumption DEF RoverStart, RoverTypeOK, RoverStates
  <2> QED
    BY <1>b, <1>1, <2>1, <2>3, <2>4 DEF RoverStart, RoverTypeOK, ChannelTypeOK
<1>2. CASE RoverStop(r)
  <2>1. armed' \in [Rovers -> SUBSET Timers]
    BY <1>2 DEF RoverStop, RoverTypeOK
  <2>2. /\ endpoint' \in [Rovers -> Endpoints \cup {NoEndpoint}]
        /\ session_state' \in [Rovers -> RoverStates]
        /\ handshake_retry_count' \in [Rovers -> 0 .. MAX_HANDSHAKE_RETRIES]
    BY <1>2, RoverAssumption DEF RoverStop, RoverTypeOK, RoverStates
  <2>3. /\ ready' \in [Rovers -> Seq(Timers \cup Posted)]
        /\ stored_packets' \in [Rovers -> Seq(Payloads)]
        /\ low_power_mode' \in [Rovers -> BOOLEAN]
        /\ reporting' \in [Rovers -> BOOLEAN]
    BY <1>2 DEF RoverStop, RoverTypeOK
  <2> QED
    BY <1>b, <1>2, <2>1, <2>2, <2>3 DEF RoverStop, channelVars, RoverTypeOK,
       ChannelTypeOK
<1>3. ASSUME NEW t \in Timers, TimerExpires(r, t)
      PROVE  TypeOK'
  <2>1. armed' \in [Rovers -> SUBSET Timers]
    BY <1>3, ArmedType DEF TimerExpires
  <2>2. ready' \in [Rovers -> Seq(Timers \cup Posted)]
    BY <1>3 DEF TimerExpires, RoverTypeOK
  <2> QED
    BY <1>b, <1>3, <2>1, <2>2 DEF TimerExpires, restVars, channelVars, RoverTypeOK,
       ChannelTypeOK
<1>4. CASE PacketTimeout(r)
  <2>1. ready' \in [Rovers -> Seq(Timers \cup Posted)]
    BY <1>4 DEF PacketTimeout, RoverTypeOK, Posted
  <2> QED
    BY <1>b, <1>4, <2>1 DEF PacketTimeout, restVars, channelVars, RoverTypeOK,
       ChannelTypeOK
<1>5. CASE RunReady(r)
  <2>1. ready[r] # <<>>
    BY <1>5 DEF RunReady, HandlePacketTimeout, ResetSequence, ArmProbe,
       HandleProbeTimer, HandleHandshakeTimer, ArmHandshake, Due
  <2>2. Running(r)
    BY <2>1, Zenon DEF ProcessInv
  <2> QED
    BY <1>5, <2>2, RunReadyType DEF RoverStep
<1>6. ASSUME NEW m \in downlink, RoverReceive(r, m)
      PROVE  TypeOK'
  BY <1>6, RoverReceiveType DEF RoverStep
<1>7. ASSUME NEW p \in Payloads,
             \/ HandleStatusTimer(r, p)
             \/ HandlePositionTelemetryTimer(r, p)
             \/ SendMessage(r, p)
      PROVE  TypeOK'
  <2>1. Running(r) /\ SendToBase(r, p)
    BY <1>7, Zenon DEF HandleStatusTimer, HandlePositionTelemetryTimer, SendMessage,
       SendStatus, SendTelemetry,
       ProcessInv
  <2>2. /\ uplink' \subseteq UpMessage
        /\ stored_packets' \in [Rovers -> Seq(Payloads)]
    BY <2>1, SendToBaseType
  <2>3. UNCHANGED <<endpoint, used_endpoints, session_state, handshake_retry_count,
                    armed, ready, low_power_mode, reporting, downlink>>
    BY <1>7 DEF HandleStatusTimer, HandlePositionTelemetryTimer, SendMessage
  <2> QED
    BY <1>b, <2>2, <2>3 DEF RoverTypeOK, ChannelTypeOK
<1> QED
  BY <1>1, <1>2, <1>3, <1>4, <1>5, <1>6, <1>7 DEF RoverStep

LEMMA NetworkStepType ==
  ASSUME TypeOK, NetworkStep
  PROVE  TypeOK'
BY DEF TypeOK, NetworkStep, LoseUp, LoseDown, baseVars, roverVars, BaseTypeOK,
   RoverTypeOK, ChannelTypeOK

-----------------------------------------------------------------------------
(* The handshake invariant.  A step of a running rover other than its end  *)
(* is summarised by Progress: it keeps its endpoint, never takes back a    *)
(* confirmation, becomes ACTIVE only if the base station made it so, and   *)
(* signs what it sends.                                                    *)

Progress(r) ==
  /\ Running(r)
  /\ UNCHANGED <<endpoint, used_endpoints, downlink>>
  /\ \A q \in Rovers \ {r} : /\ session_state'[q] = session_state[q]
                             /\ armed'[q] = armed[q]
                             /\ ready'[q] = ready[q]
                             /\ reporting'[q] = reporting[q]
  /\ session_state'[r] # "INACTIVE"
  /\ HasConfirmed(r) => HasConfirmed(r)'
  /\ session_state'[r] = "ACTIVE"
       => session_state[r] = "ACTIVE" \/ <<r, endpoint[r]>> \in activated
  /\ \A m \in uplink' \ uplink :
       /\ m.sender = r
       /\ m.src = endpoint[r]
       /\ m.content = "SESSION_CONFIRM" => HasConfirmed(r)'

LEMMA ProgressInv ==
  ASSUME TypeOK, HandshakeInv, NEW r \in Rovers, Progress(r), UNCHANGED baseVars
  PROVE  HandshakeInv'
PROOF
<1> USE DEF HandshakeInv, Running
<1>1. ProcessInv'
  BY DEF Progress, ProcessInv, baseVars
<1>2. \A q \in Rovers : HasConfirmed(q) => HasConfirmed(q)'
  BY DEF Progress, HasConfirmed
<1>3. WireInv'
  <2>1. ASSUME NEW m \in uplink'
        PROVE  /\ m.src \in used_endpoints'
               /\ \A q \in Rovers :
                    Running(q)' /\ endpoint'[q] = m.src
                      => /\ m.sender = q
                         /\ m.content = "SESSION_CONFIRM" => HasConfirmed(q)'
    <3>1. CASE m \in uplink
      BY <1>2, <3>1 DEF Progress, WireInv
    <3>2. CASE m \notin uplink
      BY <2>1, <3>2 DEF Progress, ProcessInv
    <3> QED
      BY <3>1, <3>2
  <2>2. ASSUME NEW m \in downlink'
        PROVE  /\ m.dst \in used_endpoints'
               /\ \A q \in Rovers :
                    /\ Running(q)'
                    /\ endpoint'[q] = m.dst
                    /\ m.content = "SESSION_ESTABLISHED"
                    => HasConfirmed(q)' /\ <<q, m.dst>> \in activated'
    BY <1>2, <2>2 DEF Progress, WireInv, baseVars
  <2> QED
    BY <2>1, <2>2 DEF WireInv
<1>4. PeerInv'
  BY <1>2 DEF Progress, PeerInv, baseVars
<1>5. AckFlagOnlyWhenActive' /\ DeliveredOnlyFromSessions'
  BY DEF AckFlagOnlyWhenActive, DeliveredOnlyFromSessions, baseVars
<1> QED
  BY <1>1, <1>3, <1>4, <1>5

\* The handlers of the queue only make progress.
LEMMA RunReadyProgress ==
  ASSUME TypeOK, HandshakeInv, NEW r \in Rovers, RunReady(r)
  PROVE  Progress(r)
PROOF
<1>0. /\ Running(r)
      /\ session_state[r] # "INACTIVE"
  <2>1. ready[r] # <<>>
    BY DEF RunReady, HandlePacketTimeout, ResetSequence, ArmProbe, HandleProbeTimer,
       HandleHandshakeTimer, ArmHandshake, Due
  <2> QED
    BY <2>1, Zenon DEF HandshakeInv, ProcessInv
<1>1. UNCHANGED <<endpoint, used_endpoints, reporting, downlink>>
  BY DEF RunReady, HandlePacketTimeout, ResetSequence, ArmProbe, HandleProbeTimer,
     HandleHandshakeTimer, ArmHandshake, restVars, channelVars
<1>2. \A q \in Rovers \ {r} : ready'[q] = ready[q]
  <2>1. \E ts : Dispatch(r, ts)
    BY DEF RunReady, HandlePacketTimeout, ResetSequence, ArmProbe, HandleProbeTimer,
       HandleHandshakeTimer, ArmHandshake, HandleBaseDisconnect
  <2> QED
    BY <2>1 DEF Dispatch, TypeOK, RoverTypeOK
<1>a. \A q \in Rovers \ {r} : armed'[q] = armed[q]
  BY DEF RunReady, HandlePacketTimeout, ResetSequence, ArmProbe, HandleProbeTimer,
     HandleHandshakeTimer, ArmHandshake, HandleBaseDisconnect, TypeOK, RoverTypeOK
<1>3. \/ UNCHANGED session_state
      \/ /\ session_state[r] = "ACTIVE"
         /\ session_state' = [session_state EXCEPT ![r] = "DISCONNECTED"]
  BY DEF RunReady, HandlePacketTimeout, ResetSequence, ArmProbe, HandleProbeTimer,
     HandleHandshakeTimer, ArmHandshake, HandleBaseDisconnect
<1>4. \A m \in uplink' \ uplink :
        /\ m.sender = r
        /\ m.src = endpoint[r]
        /\ m.content = "SESSION_CONFIRM" => session_state[r] = "HANDSHAKE_ACCEPT"
  <2>1. CASE HandleHandshakeTimer(r)
    BY <2>1 DEF HandleHandshakeTimer, Handshaking, SendCommand, Sent, Up
  <2>2. CASE HandleProbeTimer(r)
    BY <2>2 DEF HandleProbeTimer, SendCommand, Sent, Up
  <2>3. CASE ~HandleHandshakeTimer(r) /\ ~HandleProbeTimer(r)
    BY <2>3 DEF RunReady, HandlePacketTimeout, ResetSequence, ArmProbe, ArmHandshake,
       channelVars
  <2> QED
    BY <2>1, <2>2, <2>3
<1> QED
  BY <1>0, <1>1, <1>2, <1>3, <1>4, <1>a DEF Progress, HasConfirmed, TypeOK,
     RoverTypeOK

\* So do the replies of the base station: SESSION_ESTABLISHED, taken in every
\* state, is on the wire only for a rover the base station made ACTIVE.
LEMMA RoverReceiveProgress ==
  ASSUME TypeOK, HandshakeInv, NEW r \in Rovers, NEW m \in downlink,
         RoverReceive(r, m)
  PROVE  Progress(r)
PROOF
<1>0. /\ Running(r)
      /\ m.dst = endpoint[r]
      /\ session_state[r] # "INACTIVE"
  BY Zenon DEF RoverReceive, HandshakeInv, ProcessInv
<1>1. CASE HandleSessionAccept(r)
  BY <1>0, <1>1 DEF HandleSessionAccept, StateAfterAccept, SendCommand, Sent, Up,
     restVars, Progress, HasConfirmed, TypeOK, RoverTypeOK
<1>2. CASE m.content = "SESSION_ESTABLISHED" /\ HandleSessionEstablished(r)
  <2>1. <<r, endpoint[r]>> \in activated
    BY <1>0, <1>2 DEF HandshakeInv, WireInv
  <2>2. \A n \in uplink' \ uplink :
          n.sender = r /\ n.src = endpoint[r]
    BY <1>2 DEF HandleSessionEstablished, Flushed, FirstReports, Sent, Up
  <2>3. /\ UNCHANGED <<endpoint, used_endpoints, ready, downlink>>
        /\ session_state' = [session_state EXCEPT ![r] = "ACTIVE"]
        /\ armed' = [armed EXCEPT ![r] = @ \ {"handshake", "probe"}]
        /\ reporting' = [reporting EXCEPT ![r] = TRUE]
    BY <1>2 DEF HandleSessionEstablished
  <2> QED
    BY <1>0, <2>1, <2>2, <2>3 DEF Progress, HasConfirmed, TypeOK, RoverTypeOK
<1>3. CASE HandleSetLowPower(r, m.content)
  BY <1>0, <1>3 DEF HandleSetLowPower, channelVars, Progress, HasConfirmed
<1> QED
  BY <1>1, <1>2, <1>3 DEF RoverReceive

\* Timers, time-outs and outbound messages do not touch the session state.
LEMMA OtherProgress ==
  ASSUME TypeOK, HandshakeInv, NEW r \in Rovers,
         \/ \E t \in Timers : TimerExpires(r, t)
         \/ PacketTimeout(r)
         \/ \E p \in Payloads : \/ HandleStatusTimer(r, p)
                                \/ HandlePositionTelemetryTimer(r, p)
                                \/ SendMessage(r, p)
  PROVE  Progress(r)
PROOF
<1>1. ASSUME NEW t \in Timers, TimerExpires(r, t)
      PROVE  Progress(r)
  <2>1. Running(r) /\ session_state[r] # "INACTIVE"
    BY <1>1, Zenon DEF TimerExpires, HandshakeInv, ProcessInv
  <2> QED
    BY <1>1, <2>1 DEF TimerExpires, restVars, channelVars, Progress, HasConfirmed,
       TypeOK, RoverTypeOK
<1>2. CASE PacketTimeout(r)
  BY <1>2 DEF PacketTimeout, restVars, channelVars, Progress, HasConfirmed, TypeOK,
     RoverTypeOK, HandshakeInv, ProcessInv
<1>3. ASSUME NEW p \in Payloads,
             \/ HandleStatusTimer(r, p)
             \/ HandlePositionTelemetryTimer(r, p)
             \/ SendMessage(r, p)
      PROVE  Progress(r)
  <2>1. Running(r) /\ session_state[r] # "INACTIVE"
    BY <1>3, Zenon DEF HandleStatusTimer, HandlePositionTelemetryTimer, SendMessage,
       HandshakeInv, ProcessInv
  <2>2. \A m \in uplink' \ uplink :
          m.sender = r /\ m.src = endpoint[r] /\ m.content = p
    <3>1. SendToBase(r, p)
      BY <1>3 DEF HandleStatusTimer, HandlePositionTelemetryTimer, SendMessage,
         SendStatus, SendTelemetry
    <3>2. uplink' \subseteq uplink \cup {Up(r, endpoint[r], p)}
      BY <3>1 DEF SendToBase, Sent
    <3> QED
      BY <3>2 DEF Up
  <2>3. p # "SESSION_CONFIRM"
    BY ChannelAssumption DEF SessionRequests
  <2>4. UNCHANGED <<endpoint, used_endpoints, session_state, armed, ready,
                    reporting, downlink>>
    BY <1>3 DEF HandleStatusTimer, HandlePositionTelemetryTimer, SendMessage
  <2> QED
    BY <2>1, <2>2, <2>3, <2>4 DEF Progress, HasConfirmed
<1> QED
  BY <1>1, <1>2, <1>3

\* A new process has an endpoint nobody has used, so nothing refers to it.
LEMMA RoverStartInv ==
  ASSUME TypeOK, HandshakeInv, NEW r \in Rovers, NEW e \in Endpoints,
         RoverStart(r, e), UNCHANGED baseVars
  PROVE  HandshakeInv'
PROOF
<1> USE DEF HandshakeInv, Running, TypeOK
<1>0. /\ e # NoEndpoint
      /\ endpoint' = [endpoint EXCEPT ![r] = e]
      /\ e \notin used_endpoints
      /\ used_endpoints' = used_endpoints \cup {e}
  BY ChannelAssumption DEF RoverStart
<1>1. ProcessInv'
  <2>1. /\ session_state' = [session_state EXCEPT ![r] = "HANDSHAKE_INIT"]
        /\ armed' = [armed EXCEPT ![r] = {"handshake"}]
        /\ UNCHANGED <<ready, reporting, activated>>
    BY DEF RoverStart, baseVars
  <2>2. \A q \in Rovers : endpoint[q] # e
    BY <1>0, Zenon DEF ProcessInv
  <2>3. \A q \in Rovers : endpoint'[q] = (IF q = r THEN e ELSE endpoint[q])
    BY <1>0 DEF RoverTypeOK
  <2>4. \A q \in Rovers \ {r} : /\ session_state'[q] = session_state[q]
                                /\ armed'[q] = armed[q]
    BY <2>1 DEF RoverTypeOK
  <2>5. session_state'[r] = "HANDSHAKE_INIT"
    BY <2>1 DEF RoverTypeOK
  <2> QED
    BY <1>0, <2>1, <2>2, <2>3, <2>4, <2>5 DEF ProcessInv
<1>2. \A q \in Rovers \ {r} : HasConfirmed(q) => HasConfirmed(q)'
  BY DEF RoverStart, HasConfirmed, RoverTypeOK
<1>3. WireInv'
  <2>1. ASSUME NEW m \in uplink'
        PROVE  /\ m.src \in used_endpoints'
               /\ \A q \in Rovers :
                    Running(q)' /\ endpoint'[q] = m.src
                      => /\ m.sender = q
                         /\ m.content = "SESSION_CONFIRM" => HasConfirmed(q)'
    <3>1. CASE m \in uplink
      BY <1>0, <1>2, <3>1 DEF WireInv, RoverTypeOK
    <3>2. CASE m = Up(r, e, "SESSION_INIT")
      <4>1. m.src = e /\ m.sender = r /\ m.content = "SESSION_INIT"
        BY <3>2 DEF Up
      <4>2. \A q \in Rovers \ {r} : endpoint'[q] = e => endpoint'[q] = NoEndpoint
        BY <1>0, Zenon DEF ProcessInv, RoverTypeOK
      <4> QED
        BY <1>0, <4>1, <4>2
    <3> QED
      BY <2>1, <3>1, <3>2 DEF RoverStart
  <2>2. ASSUME NEW m \in downlink
        PROVE  /\ m.dst \in used_endpoints'
               /\ \A q \in Rovers :
                    /\ Running(q)'
                    /\ endpoint'[q] = m.dst
                    /\ m.content = "SESSION_ESTABLISHED"
                    => HasConfirmed(q)' /\ <<q, m.dst>> \in activated'
    BY <1>0, <1>2 DEF WireInv, RoverTypeOK, baseVars
  <2>3. UNCHANGED downlink
    BY DEF RoverStart
  <2> QED
    BY <2>1, <2>2, <2>3 DEF WireInv
<1>4. PeerInv'
  BY <1>0, <1>2 DEF PeerInv, RoverTypeOK, baseVars
<1>5. AckFlagOnlyWhenActive' /\ DeliveredOnlyFromSessions'
  BY DEF AckFlagOnlyWhenActive, DeliveredOnlyFromSessions, baseVars
<1> QED
  BY <1>1, <1>3, <1>4, <1>5

\* A process that ends leaves only datagrams behind.
LEMMA RoverStopInv ==
  ASSUME TypeOK, HandshakeInv, NEW r \in Rovers, RoverStop(r), UNCHANGED baseVars
  PROVE  HandshakeInv'
PROOF
<1> USE DEF HandshakeInv, Running, TypeOK
<1>0. /\ endpoint' = [endpoint EXCEPT ![r] = NoEndpoint]
      /\ UNCHANGED <<used_endpoints, uplink, downlink>>
  BY DEF RoverStop, channelVars
<1>1. ProcessInv'
  BY <1>0 DEF RoverStop, ProcessInv, RoverTypeOK, baseVars
<1>2. \A q \in Rovers \ {r} : HasConfirmed(q) => HasConfirmed(q)'
  BY DEF RoverStop, HasConfirmed, RoverTypeOK
<1>3. WireInv'
  BY <1>0, <1>2 DEF WireInv, RoverTypeOK, baseVars
<1>4. PeerInv'
  BY <1>0, <1>2 DEF PeerInv, RoverTypeOK, baseVars
<1>5. AckFlagOnlyWhenActive' /\ DeliveredOnlyFromSessions'
  BY DEF AckFlagOnlyWhenActive, DeliveredOnlyFromSessions, baseVars
<1> QED
  BY <1>1, <1>3, <1>4, <1>5

\* The base station answers SESSION_INIT, SESSION_CONFIRM and payloads.
LEMMA BaseReceiveInv ==
  ASSUME TypeOK, HandshakeInv, NEW m \in uplink, BaseReceive(m), UNCHANGED roverVars
  PROVE  HandshakeInv'
PROOF
<1> USE DEF HandshakeInv, Running, HasConfirmed
<1>0. UNCHANGED <<endpoint, used_endpoints, session_state, armed, ready, reporting>>
  BY DEF roverVars
<1>m. /\ m.sender \in Rovers
      /\ m.src \in used_endpoints
      /\ m.src # NoEndpoint
  BY ChannelAssumption DEF TypeOK, ChannelTypeOK, UpMessage, WireInv
<1>1. CASE HandleSessionInit(m) /\ InSessionWith(m)
  <2>1. /\ downlink' \subseteq downlink \cup {Down(rover_endpoint, "SESSION_ESTABLISHED")}
        /\ UNCHANGED <<base_running, base_state, connected_rover_id, rover_endpoint,
                       session_active, activated, delivered, uplink>>
    BY <1>1 DEF HandleSessionInit, CommandSent, sessionVars
  <2>2. \A n \in downlink' : n \in downlink \/
          (n.dst = rover_endpoint /\ n.content = "SESSION_ESTABLISHED")
    BY <2>1 DEF Down
  <2>3. base_state = "ACTIVE"
    BY <1>1 DEF InSessionWith
  <2>4. WireInv'
    BY <1>0, <2>1, <2>2, <2>3 DEF WireInv, PeerInv
  <2> QED
    BY <1>0, <2>1, <2>4 DEF ProcessInv, PeerInv, AckFlagOnlyWhenActive,
       DeliveredOnlyFromSessions
<1>2. CASE HandleSessionInit(m) /\ ~InSessionWith(m)
  <2>1. /\ UNCHANGED <<base_running, activated, delivered, uplink>>
        /\ session_active' = FALSE
    BY <1>2, Zenon DEF HandleSessionInit, FlagAfterInit, AckFlagOnlyWhenActive, TypeOK,
       BaseTypeOK
  <2>2. ProcessInv' /\ DeliveredOnlyFromSessions' /\ AckFlagOnlyWhenActive'
    BY <1>0, <2>1 DEF ProcessInv, DeliveredOnlyFromSessions, AckFlagOnlyWhenActive
  <2>3. CASE MayInitiate(m)
    <3>1. /\ base_state' = "HANDSHAKE_ACCEPT"
          /\ connected_rover_id' = m.sender
          /\ rover_endpoint' = m.src
          /\ downlink' = downlink \cup {Down(m.src, "SESSION_ACCEPT")}
      BY <1>2, <1>m, <2>3 DEF HandleSessionInit, CommandSent
    <3>2. \A n \in downlink' : n \in downlink \/
            (n.dst = m.src /\ n.content = "SESSION_ACCEPT")
      BY <3>1 DEF Down
    <3>3. WireInv'
      BY <1>0, <1>m, <2>1, <3>2 DEF WireInv
    <3>4. PeerInv'
      BY <1>0, <1>2, <1>m, <2>1, <3>1 DEF PeerInv, WireInv, BaseReceive
    <3> QED
      BY <2>2, <3>3, <3>4
  <2>4. CASE ~MayInitiate(m)
    <3>1. UNCHANGED <<base_state, connected_rover_id, rover_endpoint, downlink>>
      BY <1>2, <2>4 DEF HandleSessionInit
    <3> QED
      BY <1>0, <2>1, <2>2, <3>1 DEF WireInv, PeerInv
  <2> QED
    BY <2>3, <2>4
<1>3. CASE HandleSessionConfirm(m)
  <2>1. /\ base_state = "HANDSHAKE_ACCEPT"
        /\ connected_rover_id = m.sender
        /\ rover_endpoint = m.src
        /\ m.content = "SESSION_CONFIRM"
    BY <1>3 DEF HandleSessionConfirm, ConfirmExpected
  <2>2. /\ base_state' = "ACTIVE"
        /\ activated' = activated \cup {<<m.sender, m.src>>}
        /\ downlink' = downlink \cup {Down(m.src, "SESSION_ESTABLISHED")}
        /\ UNCHANGED <<base_running, connected_rover_id, rover_endpoint, delivered,
                       uplink>>
    BY <1>3, <1>m, <2>1 DEF HandleSessionConfirm, CommandSent
  <2>3. \A n \in downlink' : n \in downlink \/
          (n.dst = m.src /\ n.content = "SESSION_ESTABLISHED")
    BY <2>2 DEF Down
  <2>4. \A r \in Rovers : Running(r) /\ endpoint[r] = m.src
          => HasConfirmed(r) /\ r = m.sender
    BY <2>1 DEF WireInv
  <2>5. WireInv'
    BY <1>0, <1>m, <2>2, <2>3, <2>4 DEF WireInv
  <2>6. PeerInv'
    BY <1>0, <1>m, <2>1, <2>2, <2>4 DEF PeerInv, BaseReceive
  <2>7. ProcessInv' /\ AckFlagOnlyWhenActive' /\ DeliveredOnlyFromSessions'
    BY <1>0, <2>2 DEF ProcessInv, AckFlagOnlyWhenActive, DeliveredOnlyFromSessions
  <2> QED
    BY <2>5, <2>6, <2>7
<1>4. CASE RouteToApplication(m)
  <2>1. /\ UNCHANGED <<base_running, base_state, connected_rover_id, rover_endpoint,
                       session_active, activated, uplink, downlink>>
        /\ delivered' = delivered \cup {m}
    BY <1>4 DEF RouteToApplication, sessionVars, channelVars
  <2>2. <<m.sender, m.src>> \in activated
    BY <1>4 DEF RouteToApplication, AllowMessage, InSessionWith, PeerInv
  <2>3. DeliveredOnlyFromSessions'
    BY <2>1, <2>2, Zenon DEF DeliveredOnlyFromSessions
  <2>4. ProcessInv'
    BY <1>0, <2>1 DEF ProcessInv
  <2>5. WireInv'
    BY <1>0, <2>1 DEF WireInv
  <2>6. PeerInv' /\ AckFlagOnlyWhenActive'
    BY <1>0, <2>1 DEF PeerInv, AckFlagOnlyWhenActive
  <2> QED
    BY <2>3, <2>4, <2>5, <2>6
<1> QED
  BY <1>1, <1>2, <1>3, <1>4 DEF BaseReceive

LEMMA HandshakeStep ==
  ASSUME TypeOK, HandshakeInv, [Next]_vars
  PROVE  TypeOK' /\ HandshakeInv'
PROOF
<1>p. ProcessInv
  BY DEF HandshakeInv
<1>1. CASE BaseStep
  <2>1. TypeOK'
    BY <1>1, BaseStepType
  <2>2. UNCHANGED roverVars
    BY <1>1 DEF BaseStep
  <2>3. CASE BaseStart \/ BaseStop
    <3>1. /\ base_state' = "INACTIVE"
          /\ session_active' = FALSE
          /\ UNCHANGED <<activated, delivered, uplink, downlink>>
      BY <2>3 DEF BaseStart, BaseStop, ClearedSession, channelVars
    <3>2. ProcessInv'
      BY <2>2, <3>1 DEF HandshakeInv, ProcessInv, roverVars, Running
    <3>3. WireInv'
      BY <2>2, <3>1 DEF HandshakeInv, WireInv, roverVars, Running, HasConfirmed
    <3>4. PeerInv'
      BY <3>1 DEF PeerInv
    <3>5. AckFlagOnlyWhenActive'
      BY <3>1 DEF AckFlagOnlyWhenActive
    <3>6. DeliveredOnlyFromSessions'
      BY <3>1, Zenon DEF HandshakeInv, DeliveredOnlyFromSessions
    <3> QED
      BY <2>1, <3>2, <3>3, <3>4, <3>5, <3>6 DEF HandshakeInv
  <2>4. ASSUME NEW c \in Orders, BaseSendOrder(c)
        PROVE  HandshakeInv'
    <3>1. /\ base_state # "INACTIVE"
          /\ downlink' = downlink \cup {Down(rover_endpoint, c)}
          /\ UNCHANGED <<uplink, baseVars>>
      BY <2>4 DEF BaseSendOrder, CommandSent
    <3>2. c # "SESSION_ESTABLISHED"
      BY OrdersAssumption DEF LowPowerOrders
    <3>3. \A n \in downlink' : n \in downlink \/
            (n.dst = rover_endpoint /\ n.content # "SESSION_ESTABLISHED")
      BY <3>1, <3>2 DEF Down
    <3>4. rover_endpoint \in used_endpoints
      BY <3>1 DEF HandshakeInv, PeerInv
    <3>5. WireInv'
      BY <2>2, <3>1, <3>3, <3>4 DEF HandshakeInv, WireInv, roverVars, baseVars, Running,
         HasConfirmed
    <3> QED
      BY <2>2, <3>1, <3>5 DEF HandshakeInv, ProcessInv, PeerInv, AckFlagOnlyWhenActive,
         DeliveredOnlyFromSessions, roverVars, baseVars, Running, HasConfirmed
  <2> QED
    BY <1>1, <2>1, <2>2, <2>3, <2>4, BaseReceiveInv DEF BaseStep
<1>2. ASSUME NEW r \in Rovers, RoverStep(r)
      PROVE  TypeOK' /\ HandshakeInv'
  <2>1. TypeOK'
    BY <1>2, <1>p, RoverStepType
  <2>2. UNCHANGED baseVars
    BY <1>2 DEF RoverStep
  <2>3. \/ \E e \in Endpoints : RoverStart(r, e)
        \/ RoverStop(r)
        \/ Progress(r)
    BY <1>2, RunReadyProgress, RoverReceiveProgress, OtherProgress DEF RoverStep
  <2> QED
    BY <2>1, <2>2, <2>3, RoverStartInv, RoverStopInv, ProgressInv
<1>3. CASE NetworkStep
  <2>1. TypeOK'
    BY <1>3, NetworkStepType
  <2>2. /\ uplink' \subseteq uplink
        /\ downlink' \subseteq downlink
        /\ UNCHANGED <<baseVars, roverVars>>
    BY <1>3 DEF NetworkStep, LoseUp, LoseDown
  <2>3. WireInv'
    BY <2>2 DEF HandshakeInv, WireInv, baseVars, roverVars, Running, HasConfirmed
  <2> QED
    BY <2>1, <2>2, <2>3 DEF HandshakeInv, ProcessInv, PeerInv, AckFlagOnlyWhenActive,
       DeliveredOnlyFromSessions, baseVars, roverVars, Running, HasConfirmed
<1>4. CASE UNCHANGED vars
  <2> USE <1>4 DEF vars, channelVars, baseVars, roverVars
  <2>1. TypeOK'
    BY DEF TypeOK, ChannelTypeOK, BaseTypeOK, RoverTypeOK
  <2>2. ProcessInv'
    BY DEF HandshakeInv, ProcessInv, Running
  <2>3. WireInv'
    BY DEF HandshakeInv, WireInv, Running, HasConfirmed
  <2>4. PeerInv'
    BY DEF HandshakeInv, PeerInv, Running, HasConfirmed
  <2>5. AckFlagOnlyWhenActive' /\ DeliveredOnlyFromSessions'
    BY DEF HandshakeInv, AckFlagOnlyWhenActive, DeliveredOnlyFromSessions
  <2> QED
    BY <2>1, <2>2, <2>3, <2>4, <2>5 DEF HandshakeInv
<1> QED
  BY <1>1, <1>2, <1>3, <1>4 DEF Next

LEMMA HandshakeInit ==
  ASSUME Init
  PROVE  TypeOK /\ HandshakeInv
PROOF
<1> USE RoverAssumption DEF Init, ChannelInit, BaseInit, RoverInit
<1>1. ChannelTypeOK
  BY DEF ChannelTypeOK
<1>2. BaseTypeOK
  BY Zenon DEF BaseTypeOK, BaseStates
<1>3. RoverTypeOK
  BY DEF RoverTypeOK, RoverStates
<1>4. HandshakeInv
  BY DEF HandshakeInv, ProcessInv, WireInv, PeerInv, AckFlagOnlyWhenActive,
     DeliveredOnlyFromSessions, Running
<1> QED
  BY <1>1, <1>2, <1>3, <1>4 DEF TypeOK

\* Every reachable state is well typed: no handler of the base station or of a
\* rover, whatever it receives in whatever state, leaves the session variables
\* outside their types, for any number of rovers, endpoints and payloads.
THEOREM TypeCorrect == Spec => []TypeOK
PROOF
<1>1. Init => TypeOK /\ HandshakeInv
  BY HandshakeInit
<1>2. TypeOK /\ HandshakeInv /\ [Next]_vars => (TypeOK /\ HandshakeInv)'
  BY HandshakeStep
<1> QED
  BY <1>1, <1>2, PTL DEF Spec

\* Processes, datagrams in flight and the record of the base station agree on
\* who has confirmed and who was made ACTIVE, in every reachable state.
THEOREM HandshakeSafe == Spec => []HandshakeInv
PROOF
<1>1. Init => TypeOK /\ HandshakeInv
  BY HandshakeInit
<1>2. TypeOK /\ HandshakeInv /\ [Next]_vars => (TypeOK /\ HandshakeInv)'
  BY HandshakeStep
<1> QED
  BY <1>1, <1>2, PTL DEF Spec

\* handle_session_confirm makes the session ACTIVE only for a process that has
\* sent SESSION_CONFIRM from that endpoint.
THEOREM BaseFollowsRover == Spec => []BaseNeverAhead
PROOF
<1>1. HandshakeInv => BaseNeverAhead
  BY DEF HandshakeInv, PeerInv, BaseNeverAhead
<1> QED
  BY <1>1, HandshakeSafe, PTL

\* handle_session_established makes a rover ACTIVE only after the base station
\* did the same for its identifier and endpoint.
THEOREM RoverFollowsBase == Spec => []RoverNeverAhead
PROOF
<1>1. HandshakeInv => RoverNeverAhead
  BY DEF HandshakeInv, ProcessInv, RoverNeverAhead
<1> QED
  BY <1>1, HandshakeSafe, PTL

\* A rover that has not confirmed has no SESSION_ESTABLISHED coming to it.
THEOREM NoEarlyEstablished == Spec => []EstablishedNeverEarly
PROOF
<1>1. HandshakeInv => EstablishedNeverEarly
  BY Zenon DEF HandshakeInv, WireInv, EstablishedNeverEarly, Down
<1> QED
  BY <1>1, HandshakeSafe, PTL

\* route_message hands a payload to the application only if its sender completed
\* a handshake from the endpoint it was sent from.  Two guards stand behind it:
\* rovers send payloads only when ACTIVE, the base station listens to its peer.
THEOREM OnlySessionsDeliver == Spec => []DeliveredOnlyFromSessions
PROOF
<1>1. HandshakeInv => DeliveredOnlyFromSessions
  BY DEF HandshakeInv
<1> QED
  BY <1>1, HandshakeSafe, PTL

\* The base station acknowledges packets only in an ACTIVE session.
THEOREM AckFlagSafe == Spec => []AckFlagOnlyWhenActive
PROOF
<1>1. HandshakeInv => AckFlagOnlyWhenActive
  BY DEF HandshakeInv
<1> QED
  BY <1>1, HandshakeSafe, PTL

=============================================================================
