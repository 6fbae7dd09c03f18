------------------------------- MODULE Session ------------------------------
(***************************************************************************)
(* Rovers and one base station over the UDP channel: who believes that a   *)
(* session exists, and what that belief is good for.                       *)
(***************************************************************************)
EXTENDS BaseStation, Rover

vars == <<channelVars, baseVars, roverVars>>

Init ==
  /\ ChannelInit
  /\ BaseInit
  /\ RoverInit

\* Steps of the base station.
BaseStep ==
  /\ \/ BaseStart
     \/ BaseStop
     \/ \E c \in Orders : BaseSendOrder(c)
     \/ \E m \in uplink : BaseReceive(m)
  /\ UNCHANGED roverVars

\* The handler at the head of r's queue runs.
RunReady(r) ==
  \/ HandlePacketTimeout(r)
  \/ ResetSequence(r)
  \/ ArmProbe(r)
  \/ HandleProbeTimer(r)
  \/ HandleHandshakeTimer(r)
  \/ ArmHandshake(r)

\* Steps of rover r.
RoverStep(r) ==
  /\ \/ \E e \in Endpoints : RoverStart(r, e)
     \/ RoverStop(r)
     \/ \E t \in Timers : TimerExpires(r, t)
     \/ PacketTimeout(r)
     \/ RunReady(r)
     \/ \E m \in downlink : RoverReceive(r, m)
     \/ \E p \in Payloads : \/ HandleStatusTimer(r, p)
                            \/ HandlePositionTelemetryTimer(r, p)
                            \/ SendMessage(r, p)
  /\ UNCHANGED baseVars

\* Steps of the network.
NetworkStep ==
  /\ \/ \E m \in uplink : LoseUp(m)
     \/ \E m \in downlink : LoseDown(m)
  /\ UNCHANGED <<baseVars, roverVars>>

Next ==
  \/ BaseStep
  \/ \E r \in Rovers : RoverStep(r)
  \/ NetworkStep

Spec == Init /\ [][Next]_vars

-----------------------------------------------------------------------------
(* Safety.                                                                 *)

\* The type invariant.
TypeOK ==
  /\ ChannelTypeOK
  /\ BaseTypeOK
  /\ RoverTypeOK

\* The base station acknowledges packets (LumenProtocol::session_active_) only
\* while its session is ACTIVE: every path out of ACTIVE clears the flag.
AckFlagOnlyWhenActive ==
  session_active => base_state = "ACTIVE"

\* The same, the other way round: while the session is ACTIVE the base station
\* acknowledges what its rover sends.  LumenProtocol logs a suppressed ACK as
\* "Base Station session not active.".
AckFlagWheneverActive ==
  base_state = "ACTIVE" => session_active

\* r has answered a SESSION_ACCEPT since its process was started.
HasConfirmed(r) ==
  session_state[r] \in {"HANDSHAKE_ACCEPT", "ACTIVE", "DISCONNECTED"}

\* The base station is never ahead of the rover: with a session ACTIVE for the
\* endpoint of a running rover, that very process has sent SESSION_CONFIRM,
\* whatever was lost, repeated, delayed or left over from earlier processes.
BaseNeverAhead ==
  \A r \in Rovers :
    Running(r) /\ base_state = "ACTIVE" /\ rover_endpoint = endpoint[r]
      => connected_rover_id = r /\ HasConfirmed(r)

\* The rover is never ahead of the base station: a rover that takes its session
\* for ACTIVE has been made ACTIVE by the base station under its own identifier
\* and endpoint (handle_session_confirm).
RoverNeverAhead ==
  \A r \in Rovers :
    session_state[r] = "ACTIVE" => <<r, endpoint[r]>> \in activated

\* SESSION_ESTABLISHED never reaches a rover that has not confirmed, so
\* handle_session_established, which takes it in any state, never skips the
\* handshake.
EstablishedNeverEarly ==
  \A r \in Rovers :
    Running(r) /\ Down(endpoint[r], "SESSION_ESTABLISHED") \in downlink
      => HasConfirmed(r)

\* The application of the base station only sees messages of processes that
\* completed a handshake, even after the session moved to another endpoint.
DeliveredOnlyFromSessions ==
  \A m \in delivered : <<m.sender, m.src>> \in activated

\* The pending actions that make a DISCONNECTED rover talk to the base again.
ProbePending(r) ==
  "probe" \in armed[r] \/ Queued(r, "probe") \/ Queued(r, "arm_probe")

\* A DISCONNECTED rover always has its next probe coming, whichever order
\* cancellations, expired timers and posted tasks are executed in.
DisconnectedRoverProbes ==
  \A r \in Rovers : session_state[r] = "DISCONNECTED" => ProbePending(r)

\* The pending actions that make a handshake continue.
HandshakePending(r) ==
  "handshake" \in armed[r] \/ Queued(r, "handshake") \/ Queued(r, "arm_handshake")

\* A rover without a session keeps trying to get one: "it can detect a lost
\* connection, store outbound messages, and periodically probe the base station
\* to re-establish the session".
SessionlessRoverKeepsTrying ==
  \A r \in Rovers :
    Running(r) /\ session_state[r] # "ACTIVE"
      => ProbePending(r) \/ HandshakePending(r)

\* No stored message is stranded: once the session is ACTIVE the store is empty
\* (send_stored_packets), and it stays so until the base is lost again.
NothingStoredWhileActive ==
  \A r \in Rovers : session_state[r] = "ACTIVE" => stored_packets[r] = <<>>

-----------------------------------------------------------------------------
(* The inductive invariant behind the five properties above from           *)
(* AckFlagOnlyWhenActive to DeliveredOnlyFromSessions.                     *)

\* A process that is not there has nothing due; one that is there owns its
\* endpoint alone.
ProcessInv ==
  \A r \in Rovers :
    IF Running(r)
    THEN /\ session_state[r] # "INACTIVE"
         /\ endpoint[r] \in used_endpoints
         /\ \A q \in Rovers : endpoint[q] = endpoint[r] => q = r
         /\ session_state[r] = "ACTIVE" => <<r, endpoint[r]>> \in activated
    ELSE /\ session_state[r] = "INACTIVE"
         /\ armed[r] = {}
         /\ ready[r] = <<>>
         /\ ~reporting[r]

\* Datagrams come from and go to endpoints that some process has had, are signed
\* by the process that has the endpoint now, and are never ahead of it.
WireInv ==
  /\ \A m \in uplink :
       /\ m.src \in used_endpoints
       /\ \A r \in Rovers :
            Running(r) /\ endpoint[r] = m.src
              => /\ m.sender = r
                 /\ m.content = "SESSION_CONFIRM" => HasConfirmed(r)
  /\ \A m \in downlink :
       /\ m.dst \in used_endpoints
       /\ \A r \in Rovers :
            Running(r) /\ endpoint[r] = m.dst /\ m.content = "SESSION_ESTABLISHED"
              => HasConfirmed(r) /\ <<r, m.dst>> \in activated

\* What the base station holds about its peer.
PeerInv ==
  /\ ~base_running => base_state = "INACTIVE"
  /\ base_state # "INACTIVE" =>
       /\ connected_rover_id \in Rovers
       /\ rover_endpoint \in used_endpoints
       /\ \A r \in Rovers :
            Running(r) /\ endpoint[r] = rover_endpoint => connected_rover_id = r
  /\ base_state = "ACTIVE" =>
       /\ <<connected_rover_id, rover_endpoint>> \in activated
       /\ \A r \in Rovers :
            Running(r) /\ endpoint[r] = rover_endpoint => HasConfirmed(r)

\* The handshake in one formula: processes, datagrams and the base station's
\* record of its peer agree on who has confirmed and who was made ACTIVE, which
\* handle_session_confirm and handle_session_established rely on.
HandshakeInv ==
  /\ ProcessInv
  /\ WireInv
  /\ PeerInv
  /\ AckFlagOnlyWhenActive
  /\ DeliveredOnlyFromSessions

-----------------------------------------------------------------------------
(* Action properties.                                                      *)

\* The session of the base station changes hands only through a restart of the
\* base station: no message of another rover displaces the connected one.
OwnerKeepsSession ==
  [][base_running' /\ base_state # "INACTIVE"
       => connected_rover_id' = connected_rover_id]_vars

\* A stored message leaves the store of a live process only onto the wire, in a
\* session that is ACTIVE; until then messages are only added, behind it.
StoreLeavesOnlyOntoTheWire ==
  [][\A r \in Rovers :
       Running(r) /\ Running(r)' /\ stored_packets'[r] # stored_packets[r]
         => \/ \E p \in Payloads : stored_packets'[r] = Append(stored_packets[r], p)
            \/ /\ session_state'[r] = "ACTIVE"
               /\ \A i \in DOMAIN stored_packets[r] :
                    Up(r, endpoint[r], stored_packets[r][i]) \in uplink']_vars

-----------------------------------------------------------------------------
(* Liveness.  Timers expire, the io_context runs what is due, and the      *)
(* network is fair-lossy: a datagram that is sent again and again gets     *)
(* through again and again.                                                *)

Fairness ==
  /\ \A r \in Rovers :
       /\ WF_vars(TimerExpires(r, "probe") /\ UNCHANGED baseVars)
       /\ WF_vars(RunReady(r) /\ UNCHANGED baseVars)
       /\ \A e \in Endpoints, c \in SessionReplies :
            SF_vars(/\ Down(e, c) \in downlink
                    /\ RoverReceive(r, Down(e, c))
                    /\ UNCHANGED baseVars)
       /\ \A e \in Endpoints :
            SF_vars(/\ Up(r, e, "SESSION_INIT") \in uplink
                    /\ BaseReceive(Up(r, e, "SESSION_INIT"))
                    /\ UNCHANGED roverVars)

FairSpec == Spec /\ Fairness

\* If the base station, restarted however often, finally stays up, then probing
\* ends: a rover does not stay DISCONNECTED for ever, unless the base station
\* has meanwhile been taken by another rover (handle_probe_timer).
ProbingEnds ==
  <>[]base_running =>
    \A r \in Rovers :
      session_state[r] = "DISCONNECTED"
        ~> \/ session_state[r] # "DISCONNECTED"
           \/ connected_rover_id \notin {r, NoRover}

-----------------------------------------------------------------------------
(* Implementation of the contract.                                         *)

Contract == INSTANCE SessionContract WITH
  process    <- endpoint,
  seen       <- used_endpoints,
  agreed     <- {r \in Rovers : HasConfirmed(r)},
  rover_open <- {r \in Rovers : session_state[r] = "ACTIVE"},
  peer       <- <<connected_rover_id, rover_endpoint>>,
  base_open  <- (base_state = "ACTIVE"),
  granted    <- activated

\* The three-way handshake implements SessionContract: every handler of either
\* side, over a network that loses, repeats, delays and reorders datagrams,
\* takes a step the contract allows or one it does not see.
ImplementsContract == Contract!Spec

=============================================================================
