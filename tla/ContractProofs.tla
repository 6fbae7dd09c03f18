---------------------------- MODULE ContractProofs --------------------------
(***************************************************************************)
(* What the two ends can rely on.  Session implements SessionContract:     *)
(* every step of a handler maps to a step of the contract or leaves what   *)
(* the contract sees unchanged.  And a rover that lost the base station    *)
(* goes on probing and loses no stored message.  Type correctness and the  *)
(* handshake invariant come from SessionProofs.                            *)
(***************************************************************************)
EXTENDS SessionProofs

\* What the contract sees of the base station, and of the rovers.
baseView == <<connected_rover_id, rover_endpoint, base_state, activated>>
roverView == <<endpoint, used_endpoints, session_state>>

LEMMA UnseenStep ==
  ASSUME UNCHANGED baseView, UNCHANGED roverView
  PROVE  UNCHANGED Contract!contractVars
BY DEF baseView, roverView, Contract!contractVars, HasConfirmed

-----------------------------------------------------------------------------
(* Steps of the base station.                                              *)

LEMMA BaseStepImplements ==
  ASSUME TypeOK, HandshakeInv, BaseStep
  PROVE  [Contract!Next]_Contract!contractVars
PROOF
<1>r. UNCHANGED <<endpoint, used_endpoints, session_state>>
  BY DEF BaseStep, roverVars
<1>u. /\ UNCHANGED {r \in Rovers : HasConfirmed(r)}
      /\ UNCHANGED {r \in Rovers : session_state[r] = "ACTIVE"}
  BY <1>r DEF HasConfirmed
<1>1. CASE BaseStart \/ BaseStop
  <2>1. Contract!Forget
    BY <1>1, <1>r, <1>u DEF BaseStart, BaseStop, ClearedSession, Contract!Forget,
       Contract!NoPeer
  <2> QED
    BY <2>1 DEF Contract!Next
<1>2. ASSUME NEW c \in Orders, BaseSendOrder(c)
      PROVE  UNCHANGED Contract!contractVars
  BY <1>2, <1>r, UnseenStep DEF BaseSendOrder, baseVars, baseView, roverView
<1>3. ASSUME NEW m \in uplink, HandleSessionInit(m)
      PROVE  [Contract!Next]_Contract!contractVars
  <2>1. m.sender \in Rovers /\ m.src \in Endpoints
    BY DEF TypeOK, ChannelTypeOK, UpMessage
  <2>2. m.src \in used_endpoints
    BY DEF HandshakeInv, WireInv
  <2>3. CASE InSessionWith(m) \/ ~MayInitiate(m)
    BY <1>3, <1>r, <2>3, UnseenStep DEF HandleSessionInit, sessionVars, baseView,
       roverView
  <2>4. CASE ~InSessionWith(m) /\ MayInitiate(m)
    <3>1. /\ base_state' = "HANDSHAKE_ACCEPT"
          /\ connected_rover_id' = m.sender
          /\ rover_endpoint' = m.src
          /\ activated' = activated
          /\ connected_rover_id \in {m.sender, NoRover}
      BY <1>3, <2>4 DEF HandleSessionInit, MayInitiate
    <3>2. Contract!Engage(m.sender, m.src)
      BY <1>r, <1>u, <2>2, <3>1 DEF Contract!Engage
    <3> QED
      BY <2>1, <3>2 DEF Contract!Next
  <2> QED
    BY <2>3, <2>4
<1>4. ASSUME NEW m \in uplink, HandleSessionConfirm(m)
      PROVE  [Contract!Next]_Contract!contractVars
  <2>1. /\ base_state = "HANDSHAKE_ACCEPT"
        /\ connected_rover_id = m.sender
        /\ rover_endpoint = m.src
        /\ m.content = "SESSION_CONFIRM"
        /\ base_state' = "ACTIVE"
        /\ activated' = activated \cup {<<connected_rover_id, rover_endpoint>>}
        /\ UNCHANGED <<connected_rover_id, rover_endpoint>>
    BY <1>4 DEF HandleSessionConfirm, ConfirmExpected
  <2>2. connected_rover_id # NoRover
    BY <2>1, ChannelAssumption DEF HandshakeInv, PeerInv
  <2>3. rover_endpoint # NoEndpoint
    BY <2>1, ChannelAssumption DEF TypeOK, ChannelTypeOK, UpMessage
  <2>4. \A r \in Rovers :
          endpoint[r] = rover_endpoint => connected_rover_id = r /\ HasConfirmed(r)
    BY <2>1, <2>3 DEF HandshakeInv, WireInv, Running
  <2>5. Contract!BaseOpens
    BY <1>r, <1>u, <2>1, <2>2, <2>4 DEF Contract!BaseOpens, Contract!NoPeer
  <2> QED
    BY <2>5 DEF Contract!Next
<1>5. ASSUME NEW m \in uplink, RouteToApplication(m)
      PROVE  UNCHANGED Contract!contractVars
  BY <1>5, <1>r, UnseenStep DEF RouteToApplication, sessionVars, baseView, roverView
<1> QED
  BY <1>1, <1>2, <1>3, <1>4, <1>5 DEF BaseStep, BaseReceive

-----------------------------------------------------------------------------
(* Steps of a rover.                                                       *)

\* What the contract sees of a step of a live process.
SessionChange(r) ==
  \/ session_state' = session_state
  \/ /\ session_state[r] = "ACTIVE"
     /\ session_state' = [session_state EXCEPT ![r] = "DISCONNECTED"]
  \/ /\ Running(r)
     /\ session_state[r] # "ACTIVE"
     /\ session_state' = [session_state EXCEPT ![r] = "HANDSHAKE_ACCEPT"]
  \/ /\ Running(r)
     /\ HasConfirmed(r)
     /\ <<r, endpoint[r]>> \in activated
     /\ session_state' = [session_state EXCEPT ![r] = "ACTIVE"]

LEMMA SessionChangeImplements ==
  ASSUME TypeOK, HandshakeInv, NEW r \in Rovers, SessionChange(r),
         UNCHANGED baseView, UNCHANGED <<endpoint, used_endpoints>>
  PROVE  [Contract!Next]_Contract!contractVars
PROOF
<1>t. session_state \in [Rovers -> RoverStates]
  BY DEF TypeOK, RoverTypeOK
<1>b. /\ UNCHANGED <<connected_rover_id, rover_endpoint>>
      /\ UNCHANGED (base_state = "ACTIVE")
      /\ UNCHANGED activated
  BY DEF baseView
<1>1. CASE session_state' = session_state
  BY <1>1, UnseenStep DEF roverView
<1>2. CASE /\ session_state[r] = "ACTIVE"
           /\ session_state' = [session_state EXCEPT ![r] = "DISCONNECTED"]
  <2>1. {q \in Rovers : session_state'[q] = "ACTIVE"}
          = {q \in Rovers : session_state[q] = "ACTIVE"} \ {r}
    BY <1>t, <1>2
  <2>2. {q \in Rovers : HasConfirmed(q)}' = {q \in Rovers : HasConfirmed(q)}
    BY <1>t, <1>2 DEF HasConfirmed
  <2>3. Contract!RoverLoses(r)
    BY <1>b, <2>1, <2>2 DEF Contract!RoverLoses
  <2> QED
    BY <2>3 DEF Contract!Next
<1>3. CASE /\ Running(r)
           /\ session_state[r] # "ACTIVE"
           /\ session_state' = [session_state EXCEPT ![r] = "HANDSHAKE_ACCEPT"]
  <2>1. {q \in Rovers : session_state'[q] = "ACTIVE"}
          = {q \in Rovers : session_state[q] = "ACTIVE"}
    BY <1>t, <1>3
  <2>2. {q \in Rovers : HasConfirmed(q)}' = {q \in Rovers : HasConfirmed(q)} \cup {r}
    BY <1>t, <1>3 DEF HasConfirmed
  <2>3. Contract!Agree(r)
    BY <1>b, <1>3, <2>1, <2>2 DEF Contract!Agree, Contract!Alive, Running
  <2> QED
    BY <2>3 DEF Contract!Next
<1>4. CASE /\ Running(r)
           /\ HasConfirmed(r)
           /\ <<r, endpoint[r]>> \in activated
           /\ session_state' = [session_state EXCEPT ![r] = "ACTIVE"]
  <2>1. {q \in Rovers : session_state'[q] = "ACTIVE"}
          = {q \in Rovers : session_state[q] = "ACTIVE"} \cup {r}
    BY <1>t, <1>4
  <2>2. {q \in Rovers : HasConfirmed(q)}' = {q \in Rovers : HasConfirmed(q)}
    BY <1>t, <1>4 DEF HasConfirmed
  <2>3. Contract!RoverOpens(r)
    BY <1>b, <1>4, <2>1, <2>2 DEF Contract!RoverOpens, Contract!Alive, Running
  <2> QED
    BY <2>3 DEF Contract!Next
<1> QED
  BY <1>1, <1>2, <1>3, <1>4 DEF SessionChange

LEMMA RunReadyChange ==
  ASSUME NEW r \in Rovers, RunReady(r)
  PROVE  SessionChange(r) /\ UNCHANGED <<endpoint, used_endpoints>>
BY DEF RunReady, SessionChange, HandlePacketTimeout, HandleBaseDisconnect,
   ResetSequence, ArmProbe, HandleProbeTimer, HandleHandshakeTimer, ArmHandshake,
   restVars

LEMMA RoverReceiveChange ==
  ASSUME HandshakeInv, NEW r \in Rovers, NEW m \in downlink, RoverReceive(r, m)
  PROVE  SessionChange(r) /\ UNCHANGED <<endpoint, used_endpoints>>
PROOF
<1>1. CASE m.content = "SESSION_ACCEPT" /\ HandleSessionAccept(r)
  BY <1>1 DEF RoverReceive, HandleSessionAccept, AcceptExpected, StateAfterAccept,
     SessionChange, restVars
<1>2. CASE m.content = "SESSION_ESTABLISHED" /\ HandleSessionEstablished(r)
  <2>1. Running(r) /\ endpoint[r] = m.dst
    BY DEF RoverReceive
  <2>2. HasConfirmed(r) /\ <<r, endpoint[r]>> \in activated
    BY <1>2, <2>1 DEF HandshakeInv, WireInv
  <2>3. /\ session_state' = [session_state EXCEPT ![r] = "ACTIVE"]
        /\ UNCHANGED <<endpoint, used_endpoints>>
    BY <1>2 DEF HandleSessionEstablished
  <2> QED
    BY <2>1, <2>2, <2>3 DEF SessionChange
<1>3. CASE HandleSetLowPower(r, m.content)
  BY <1>3 DEF HandleSetLowPower, SessionChange
<1> QED
  BY <1>1, <1>2, <1>3 DEF RoverReceive

LEMMA RoverStepImplements ==
  ASSUME TypeOK, HandshakeInv, NEW r \in Rovers, RoverStep(r)
  PROVE  [Contract!Next]_Contract!contractVars
PROOF
<1>t. session_state \in [Rovers -> RoverStates]
  BY DEF TypeOK, RoverTypeOK
<1>v. UNCHANGED baseView
  BY DEF RoverStep, baseVars, baseView
<1>b. /\ UNCHANGED <<connected_rover_id, rover_endpoint>>
      /\ UNCHANGED (base_state = "ACTIVE")
      /\ UNCHANGED activated
  BY <1>v DEF baseView
<1>1. ASSUME NEW e \in Endpoints, RoverStart(r, e)
      PROVE  [Contract!Next]_Contract!contractVars
  <2>1. session_state[r] = "INACTIVE"
    BY <1>1, Zenon DEF RoverStart, HandshakeInv, ProcessInv
  <2>2. session_state' = [session_state EXCEPT ![r] = "HANDSHAKE_INIT"]
    BY <1>1 DEF RoverStart
  <2>3. {q \in Rovers : session_state'[q] = "ACTIVE"}
          = {q \in Rovers : session_state[q] = "ACTIVE"}
    BY <1>t, <2>1, <2>2
  <2>4. {q \in Rovers : HasConfirmed(q)}' = {q \in Rovers : HasConfirmed(q)}
    BY <1>t, <2>1, <2>2 DEF HasConfirmed
  <2>5. Contract!Join(r, e)
    BY <1>1, <1>b, <2>3, <2>4 DEF RoverStart, Contract!Join, Contract!Alive, Running
  <2> QED
    BY <2>5 DEF Contract!Next
<1>2. CASE RoverStop(r)
  <2>1. session_state' = [session_state EXCEPT ![r] = "INACTIVE"]
    BY <1>2 DEF RoverStop
  <2>2. {q \in Rovers : session_state'[q] = "ACTIVE"}
          = {q \in Rovers : session_state[q] = "ACTIVE"} \ {r}
    BY <1>t, <2>1
  <2>3. {q \in Rovers : HasConfirmed(q)}' = {q \in Rovers : HasConfirmed(q)} \ {r}
    BY <1>t, <2>1 DEF HasConfirmed
  <2>4. Contract!Leave(r)
    BY <1>2, <1>b, <2>2, <2>3 DEF RoverStop, Contract!Leave, Contract!Alive, Running
  <2> QED
    BY <2>4 DEF Contract!Next
<1>3. ASSUME NEW t \in Timers, TimerExpires(r, t)
      PROVE  UNCHANGED roverView
  BY <1>3 DEF TimerExpires, restVars, roverView
<1>4. CASE PacketTimeout(r)
  BY <1>4, <1>v, UnseenStep DEF PacketTimeout, restVars, roverView
<1>5. ASSUME NEW p \in Payloads,
             \/ HandleStatusTimer(r, p)
             \/ HandlePositionTelemetryTimer(r, p)
             \/ SendMessage(r, p)
      PROVE  UNCHANGED roverView
  BY <1>5 DEF HandleStatusTimer, HandlePositionTelemetryTimer, SendMessage, roverView
<1>6. CASE RunReady(r)
  BY <1>6, <1>v, RunReadyChange, SessionChangeImplements
<1>7. ASSUME NEW m \in downlink, RoverReceive(r, m)
      PROVE  [Contract!Next]_Contract!contractVars
  BY <1>7, <1>v, RoverReceiveChange, SessionChangeImplements
<1> QED
  BY <1>v, <1>1, <1>2, <1>3, <1>4, <1>5, <1>6, <1>7, UnseenStep DEF RoverStep

-----------------------------------------------------------------------------
LEMMA ContractInit ==
  ASSUME Init
  PROVE  Contract!Init
BY DEF Init, BaseInit, RoverInit, Contract!Init, Contract!NoPeer, HasConfirmed

LEMMA ContractStep ==
  ASSUME TypeOK, HandshakeInv, [Next]_vars
  PROVE  [Contract!Next]_Contract!contractVars
PROOF
<1>1. CASE NetworkStep
  BY <1>1, UnseenStep DEF NetworkStep, baseVars, roverVars, baseView, roverView
<1>2. CASE UNCHANGED vars
  BY <1>2, UnseenStep DEF vars, baseVars, roverVars, baseView, roverView
<1> QED
  BY <1>1, <1>2, BaseStepImplements, RoverStepImplements DEF Next

\* The handshake of base_station.cpp and rover.cpp implements the contract, for
\* any number of rovers, processes and datagrams: a side opens its session only
\* when the other side has done what entitles it to, and the base station lets
\* go of a rover only by restarting.
THEOREM ContractHolds == Spec => ImplementsContract
PROOF
<1>1. Init => Contract!Init
  BY ContractInit
<1>2. TypeOK /\ HandshakeInv /\ [Next]_vars => [Contract!Next]_Contract!contractVars
  BY ContractStep
<1> QED
  BY <1>1, <1>2, TypeCorrect, HandshakeSafe, PTL
     DEF Spec, ImplementsContract, Contract!Spec

-----------------------------------------------------------------------------
(* The io_context queue: nothing but the head leaves it.                   *)

LEMMA QueueKeeps ==
  ASSUME TypeOK, NEW r \in Rovers, ready[r] # <<>>,
         NEW ts \in Seq(Timers \cup Posted), Dispatch(r, ts),
         NEW h, Queued(r, h), Head(ready[r]) # h
  PROVE  Queued(r, h)'
PROOF
<1> DEFINE q == ready[r]
           n == Tail(ready[r]) \o ts
<1>1. q \in Seq(Timers \cup Posted) /\ q # <<>> /\ Head(q) # h
  BY DEF TypeOK, RoverTypeOK
<1>2. PICK i \in DOMAIN q : q[i] = h
  BY DEF Queued
<1>3. i \in 2 .. Len(q)
  BY <1>1, <1>2
<1>4. n \in Seq(Timers \cup Posted) /\ Len(n) = Len(q) - 1 + Len(ts)
  BY <1>1
<1>5. n[i - 1] = h /\ i - 1 \in DOMAIN n
  BY <1>1, <1>2, <1>3, <1>4
<1>6. ready'[r] = n
  BY DEF Dispatch, TypeOK, RoverTypeOK
<1> QED
  BY <1>5, <1>6 DEF Queued

LEMMA QueueAdds ==
  ASSUME TypeOK, NEW r \in Rovers, ready[r] # <<>>,
         NEW ts \in Seq(Timers \cup Posted), Dispatch(r, ts),
         NEW i \in DOMAIN ts
  PROVE  Queued(r, ts[i])'
PROOF
<1> DEFINE q == Tail(ready[r])
           n == Tail(ready[r]) \o ts
<1>1. q \in Seq(Timers \cup Posted)
  BY DEF TypeOK, RoverTypeOK
<1>2. n[Len(q) + i] = ts[i] /\ Len(q) + i \in DOMAIN n
  BY <1>1
<1>3. ready'[r] = n
  BY DEF Dispatch, TypeOK, RoverTypeOK
<1> QED
  BY <1>2, <1>3 DEF Queued

LEMMA QueueAppends ==
  ASSUME TypeOK, NEW r \in Rovers, NEW t \in Timers \cup Posted,
         ready' = [ready EXCEPT ![r] = Append(@, t)]
  PROVE  /\ Queued(r, t)'
         /\ \A h : Queued(r, h) => Queued(r, h)'
PROOF
<1>1. ready[r] \in Seq(Timers \cup Posted) /\ ready'[r] = Append(ready[r], t)
  BY DEF TypeOK, RoverTypeOK
<1>2. Queued(r, t)'
  BY <1>1 DEF Queued
<1>3. ASSUME NEW h, Queued(r, h)
      PROVE  Queued(r, h)'
  BY <1>1, <1>3 DEF Queued
<1> QED
  BY <1>2, <1>3

-----------------------------------------------------------------------------
(* A DISCONNECTED rover has its next probe coming.                         *)

\* The queue of a rover is that of the rover's own steps only.
LEMMA OthersKeepProbe ==
  ASSUME NEW q \in Rovers, ProbePending(q),
         armed'[q] = armed[q], ready'[q] = ready[q]
  PROVE  ProbePending(q)'
BY DEF ProbePending, Queued

\* The handlers of the queue: handle_base_disconnect posts the task that arms
\* the timer, that task arms it, the timer's handler arms it again, and none of
\* the others takes any of this away from a DISCONNECTED rover.
LEMMA RunReadyKeepsProbe ==
  ASSUME TypeOK, NEW r \in Rovers, RunReady(r),
         session_state[r] = "DISCONNECTED" => ProbePending(r),
         session_state'[r] = "DISCONNECTED"
  PROVE  ProbePending(r)'
PROOF
<1>0. ready[r] # <<>>
  BY DEF RunReady, HandlePacketTimeout, ResetSequence, ArmProbe, HandleProbeTimer,
     HandleHandshakeTimer, ArmHandshake, Due
<1>e. <<>> \in Seq(Timers \cup Posted)
  OBVIOUS
<1>a. armed \in [Rovers -> SUBSET Timers]
  BY DEF TypeOK, RoverTypeOK
<1>1. CASE session_state[r] # "DISCONNECTED"
  <2>1. HandleBaseDisconnect(r) /\ session_state[r] = "ACTIVE"
    BY <1>1 DEF RunReady, HandlePacketTimeout, ResetSequence, ArmProbe,
       HandleProbeTimer, HandleHandshakeTimer, ArmHandshake, HandleBaseDisconnect
  <2>2. Dispatch(r, DisconnectTasks)
    BY <2>1 DEF HandleBaseDisconnect
  <2>3. /\ DisconnectTasks \in Seq(Timers \cup Posted)
        /\ 2 \in DOMAIN DisconnectTasks
        /\ DisconnectTasks[2] = "arm_probe"
    BY DEF DisconnectTasks, Posted
  <2>4. Queued(r, "arm_probe")'
    BY <1>0, <2>2, <2>3, QueueAdds
  <2> QED
    BY <2>4 DEF ProbePending
<1>2. CASE session_state[r] = "DISCONNECTED"
  <2>1. CASE ArmProbe(r)
    <3>1. armed'[r] = armed[r] \cup {"probe"}
      BY <1>a, <2>1 DEF ArmProbe
    <3> QED
      BY <3>1 DEF ProbePending
  <2>2. CASE HandleProbeTimer(r)
    <3>1. armed'[r] = armed[r] \cup {"probe"}
      BY <1>2, <1>a, <2>2 DEF HandleProbeTimer, ArmedAfterProbe
    <3> QED
      BY <3>1 DEF ProbePending
  <2>3. CASE \/ HandlePacketTimeout(r)
             \/ ResetSequence(r)
             \/ HandleHandshakeTimer(r)
             \/ ArmHandshake(r)
    <3>1. Dispatch(r, <<>>)
      BY <1>2, <2>3 DEF HandlePacketTimeout, ResetSequence, HandleHandshakeTimer,
         ArmHandshake, HandleBaseDisconnect, Handshaking
    <3>2. Head(ready[r]) \notin {"probe", "arm_probe"}
      BY <2>3 DEF HandlePacketTimeout, ResetSequence, HandleHandshakeTimer,
         ArmHandshake, Due
    <3>3. armed[r] \subseteq armed'[r]
      BY <1>2, <1>a, <2>3 DEF HandlePacketTimeout, ResetSequence,
         HandleHandshakeTimer, ArmHandshake, HandleBaseDisconnect, Handshaking
    <3>4. \A h \in {"probe", "arm_probe"} : Queued(r, h) => Queued(r, h)'
      BY <1>0, <1>e, <3>1, <3>2, QueueKeeps, Zenon
    <3> QED
      BY <1>2, <3>3, <3>4 DEF ProbePending
  <2> QED
    BY <2>1, <2>2, <2>3 DEF RunReady
<1> QED
  BY <1>1, <1>2

LEMMA ProbesStep ==
  ASSUME TypeOK, DisconnectedRoverProbes, [Next]_vars
  PROVE  DisconnectedRoverProbes'
PROOF
<1> SUFFICES ASSUME NEW q \in Rovers, session_state'[q] = "DISCONNECTED"
             PROVE  ProbePending(q)'
  BY DEF DisconnectedRoverProbes
<1>q. session_state[q] = "DISCONNECTED" => ProbePending(q)
  BY DEF DisconnectedRoverProbes
<1>1. CASE UNCHANGED roverVars
  BY <1>1, <1>q DEF roverVars, ProbePending, Queued
<1>2. ASSUME NEW r \in Rovers, RoverStep(r)
      PROVE  ProbePending(q)'
  <2>t. TypeOK
    OBVIOUS
  <2>1. CASE r # q
    <3>1. /\ session_state'[q] = session_state[q]
          /\ armed'[q] = armed[q]
          /\ ready'[q] = ready[q]
      <4> USE <2>1 DEF TypeOK, RoverTypeOK
      <4>1. CASE \E e \in Endpoints : RoverStart(r, e)
        BY <4>1 DEF RoverStart
      <4>2. CASE RoverStop(r)
        BY <4>2 DEF RoverStop
      <4>3. CASE (\E t \in Timers : TimerExpires(r, t)) \/ PacketTimeout(r)
        BY <4>3 DEF TimerExpires, PacketTimeout
      <4>4. CASE RunReady(r)
        BY <4>4 DEF RunReady, HandlePacketTimeout, ResetSequence, ArmProbe,
           HandleProbeTimer, HandleHandshakeTimer, ArmHandshake, HandleBaseDisconnect,
           Dispatch
      <4>5. CASE \E m \in downlink : RoverReceive(r, m)
        BY <4>5 DEF RoverReceive, HandleSessionAccept, HandleSessionEstablished,
           HandleSetLowPower
      <4>6. CASE \E p \in Payloads : \/ HandleStatusTimer(r, p)
                                     \/ HandlePositionTelemetryTimer(r, p)
                                     \/ SendMessage(r, p)
        BY <4>6 DEF HandleStatusTimer, HandlePositionTelemetryTimer, SendMessage
      <4> QED
        BY <1>2, <4>1, <4>2, <4>3, <4>4, <4>5, <4>6 DEF RoverStep
    <3> QED
      BY <1>q, <3>1, OthersKeepProbe
  <2>2. CASE r = q
    <3>1. CASE RunReady(q)
      BY <1>q, <2>t, <3>1, RunReadyKeepsProbe
    <3>2. ASSUME NEW t \in Timers, TimerExpires(q, t)
          PROVE  ProbePending(q)'
      <4>1. armed'[q] = armed[q] \ {t}
        BY <3>2 DEF TimerExpires, TypeOK, RoverTypeOK
      <4>2. Queued(q, t)' /\ \A h : Queued(q, h) => Queued(q, h)'
        BY <2>t, <3>2, QueueAppends, Zenon DEF TimerExpires
      <4> QED
        BY <1>q, <3>2, <4>1, <4>2 DEF TimerExpires, ProbePending
    <3>3. CASE PacketTimeout(q)
      <4>1. \A h : Queued(q, h) => Queued(q, h)'
        BY <2>t, <3>3, QueueAppends, Zenon DEF PacketTimeout, Posted
      <4> QED
        BY <1>q, <3>3, <4>1 DEF PacketTimeout, ProbePending
    <3>4. CASE \/ \E e \in Endpoints : RoverStart(q, e)
               \/ RoverStop(q)
               \/ \E m \in downlink : /\ RoverReceive(q, m)
                                      /\ m.content \in SessionReplies
      BY <3>4 DEF RoverStart, RoverStop, RoverReceive, SessionReplies, LowPowerOrders,
         HandleSessionAccept, StateAfterAccept, HandleSessionEstablished, TypeOK,
         RoverTypeOK
    <3>5. CASE \/ \E m \in downlink : /\ RoverReceive(q, m)
                                      /\ m.content \in LowPowerOrders
               \/ \E p \in Payloads : \/ HandleStatusTimer(q, p)
                                      \/ HandlePositionTelemetryTimer(q, p)
                                      \/ SendMessage(q, p)
      <4>1. UNCHANGED <<session_state, armed, ready>>
        BY <3>5 DEF RoverReceive, LowPowerOrders, HandleSetLowPower,
           HandleStatusTimer, HandlePositionTelemetryTimer, SendMessage
      <4> QED
        BY <1>q, <4>1 DEF ProbePending, Queued
    <3> QED
      BY <1>2, <2>2, <3>1, <3>2, <3>3, <3>4, <3>5 DEF RoverStep, RoverReceive,
         SessionReplies
  <2> QED
    BY <2>1, <2>2
<1> QED
  BY <1>1, <1>2 DEF Next, BaseStep, NetworkStep, vars

\* A rover in state DISCONNECTED always has a probe timer running, a probe due
\* or the task that arms the timer due, whichever order expired timers, posted
\* tasks and cancellations are executed in.
THEOREM ProbesForEver == Spec => []DisconnectedRoverProbes
PROOF
<1>1. Init => DisconnectedRoverProbes
  BY DEF Init, RoverInit, DisconnectedRoverProbes
<1>2. TypeOK /\ DisconnectedRoverProbes /\ [Next]_vars => DisconnectedRoverProbes'
  BY ProbesStep
<1> QED
  BY <1>1, <1>2, TypeCorrect, PTL DEF Spec

-----------------------------------------------------------------------------
(* Stored messages.                                                        *)

\* What a step of a rover can do to a store: nothing, forget it with the process,
\* flush it as the session becomes ACTIVE, or add to it while DISCONNECTED.
StoreChange(r) ==
  \/ /\ UNCHANGED stored_packets
     /\ \A q \in Rovers : session_state'[q] = "ACTIVE" => session_state[q] = "ACTIVE"
  \/ /\ endpoint'[r] = NoEndpoint
     /\ stored_packets' = [stored_packets EXCEPT ![r] = <<>>]
     /\ session_state' = [session_state EXCEPT ![r] = "INACTIVE"]
  \/ /\ session_state' = [session_state EXCEPT ![r] = "ACTIVE"]
     /\ stored_packets' = [stored_packets EXCEPT ![r] = <<>>]
     /\ Flushed(r) \subseteq uplink'
  \/ /\ session_state[r] = "DISCONNECTED"
     /\ UNCHANGED session_state
     /\ \E p \in Payloads :
          stored_packets' = [stored_packets EXCEPT ![r] = Append(@, p)]

LEMMA RoverStepStore ==
  ASSUME TypeOK, NEW r \in Rovers, RoverStep(r)
  PROVE  StoreChange(r)
PROOF
<1> USE DEF StoreChange
<1>t. session_state \in [Rovers -> RoverStates]
  BY DEF TypeOK, RoverTypeOK
<1>1. CASE \E e \in Endpoints : RoverStart(r, e)
  BY <1>t, <1>1 DEF RoverStart
<1>2. CASE RoverStop(r)
  BY <1>2 DEF RoverStop, TypeOK, RoverTypeOK
<1>3. CASE (\E t \in Timers : TimerExpires(r, t)) \/ PacketTimeout(r)
  BY <1>3 DEF TimerExpires, PacketTimeout, restVars
<1>4. CASE RunReady(r)
  BY <1>t, <1>4 DEF RunReady, HandlePacketTimeout, ResetSequence, ArmProbe,
     HandleProbeTimer, HandleHandshakeTimer, ArmHandshake, HandleBaseDisconnect,
     restVars
<1>5. CASE HandleSessionAccept(r)
  BY <1>t, <1>5 DEF HandleSessionAccept, StateAfterAccept, restVars
<1>6. CASE HandleSessionEstablished(r)
  BY <1>6 DEF HandleSessionEstablished, StoreAfterFlush
<1>7. CASE \E m \in downlink : HandleSetLowPower(r, m.content)
  BY <1>7 DEF HandleSetLowPower
<1>8. ASSUME NEW p \in Payloads,
             \/ HandleStatusTimer(r, p)
             \/ HandlePositionTelemetryTimer(r, p)
             \/ SendMessage(r, p)
      PROVE  StoreChange(r)
  <2>1. SendToBase(r, p) /\ UNCHANGED session_state
    BY <1>8 DEF HandleStatusTimer, HandlePositionTelemetryTimer, SendMessage,
       SendStatus, SendTelemetry
  <2> QED
    BY <2>1, Zenon DEF SendToBase, StoreMessageForLater
<1> QED
  BY <1>1, <1>2, <1>3, <1>4, <1>5, <1>6, <1>7, <1>8 DEF RoverStep, RoverReceive

LEMMA NothingStoredStep ==
  ASSUME TypeOK, NothingStoredWhileActive, [Next]_vars
  PROVE  NothingStoredWhileActive'
PROOF
<1>1. CASE UNCHANGED roverVars
  BY <1>1 DEF roverVars, NothingStoredWhileActive
<1>2. ASSUME NEW r \in Rovers, RoverStep(r)
      PROVE  NothingStoredWhileActive'
  BY <1>2, RoverStepStore, Zenon DEF StoreChange, NothingStoredWhileActive, TypeOK, RoverTypeOK
<1> QED
  BY <1>1, <1>2 DEF Next, BaseStep, NetworkStep, vars

\* send_stored_packets strands nothing: a rover in an ACTIVE session has an empty
\* store, however the loss and the return of the base station interleave with
\* the reports.
THEOREM NothingStranded == Spec => []NothingStoredWhileActive
PROOF
<1>1. Init => NothingStoredWhileActive
  BY DEF Init, RoverInit, NothingStoredWhileActive
<1>2. TypeOK /\ NothingStoredWhileActive /\ [Next]_vars => NothingStoredWhileActive'
  BY NothingStoredStep
<1> QED
  BY <1>1, <1>2, TypeCorrect, PTL DEF Spec

\* A live process gives up a stored message only by putting it on the wire in a
\* session that has become ACTIVE.
THEOREM StoreIsKept == Spec => StoreLeavesOnlyOntoTheWire
PROOF
<1> DEFINE Kept ==
      \A r \in Rovers :
        Running(r) /\ Running(r)' /\ stored_packets'[r] # stored_packets[r]
          => \/ \E p \in Payloads : stored_packets'[r] = Append(stored_packets[r], p)
             \/ /\ session_state'[r] = "ACTIVE"
                /\ \A i \in DOMAIN stored_packets[r] :
                     Up(r, endpoint[r], stored_packets[r][i]) \in uplink'
<1>1. ASSUME TypeOK, [Next]_vars
      PROVE  Kept
  <2> SUFFICES ASSUME NEW q \in Rovers, Running(q), Running(q)',
                      stored_packets'[q] # stored_packets[q]
               PROVE  \/ \E p \in Payloads :
                           stored_packets'[q] = Append(stored_packets[q], p)
                      \/ /\ session_state'[q] = "ACTIVE"
                         /\ \A i \in DOMAIN stored_packets[q] :
                              Up(q, endpoint[q], stored_packets[q][i]) \in uplink'
    OBVIOUS
  <2>1. PICK r \in Rovers : RoverStep(r)
    BY <1>1 DEF Next, BaseStep, NetworkStep, vars, roverVars
  <2>2. StoreChange(r)
    BY <1>1, <2>1, RoverStepStore
  <2>3. r = q
    BY <1>1, <2>2 DEF StoreChange, TypeOK, RoverTypeOK
  <2>4. CASE \E p \in Payloads :
               stored_packets' = [stored_packets EXCEPT ![q] = Append(@, p)]
    BY <1>1, <2>4 DEF TypeOK, RoverTypeOK
  <2>5. CASE /\ session_state' = [session_state EXCEPT ![q] = "ACTIVE"]
             /\ Flushed(q) \subseteq uplink'
    BY <1>1, <2>5 DEF Flushed, Sent, TypeOK, RoverTypeOK
  <2> QED
    BY <2>2, <2>3, <2>4, <2>5 DEF StoreChange, Running
<1>2. TypeOK /\ [Next]_vars => [Kept]_vars
  BY <1>1
<1>3. StoreLeavesOnlyOntoTheWire <=> [][Kept]_vars
  BY DEF StoreLeavesOnlyOntoTheWire
<1> HIDE DEF Kept
<1> QED
  BY <1>2, <1>3, TypeCorrect, PTL DEF Spec

-----------------------------------------------------------------------------
(* The base station's peer.                                                *)

\* While the base station is up, no message makes a session or a handshake pass
\* from one rover to another.
THEOREM OwnerKept == Spec => OwnerKeepsSession
PROOF
<1> DEFINE Kept == base_running' /\ base_state # "INACTIVE"
                     => connected_rover_id' = connected_rover_id
<1>1. ASSUME HandshakeInv, [Next]_vars
      PROVE  Kept
  <2>1. CASE UNCHANGED baseVars
    BY <2>1 DEF baseVars
  <2>2. CASE BaseStep
    BY <1>1, <2>2, Zenon DEF BaseStep, BaseStart, BaseStop, BaseSendOrder, BaseReceive,
       HandleSessionInit, MayInitiate, HandleSessionConfirm, RouteToApplication,
       sessionVars, baseVars, HandshakeInv, PeerInv
  <2> QED
    BY <1>1, <2>1, <2>2 DEF Next, RoverStep, NetworkStep, vars
<1>2. HandshakeInv /\ [Next]_vars => [Kept]_vars
  BY <1>1
<1>3. OwnerKeepsSession <=> [][Kept]_vars
  BY DEF OwnerKeepsSession
<1> HIDE DEF Kept
<1> QED
  BY <1>2, <1>3, HandshakeSafe, PTL DEF Spec

=============================================================================
