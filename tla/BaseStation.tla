---------------------------- MODULE BaseStation -----------------------------
(***************************************************************************)
(* The session management of the base station (src/base/base_station.cpp). *)
(*                                                                         *)
(* Every handler runs to completion on the single io_context thread, the   *)
(* operator's input included (it is posted to the io_context), so each one *)
(* is one action.  session_active is the flag of the LumenProtocol object  *)
(* that decides whether packets are acknowledged; it is a second copy of   *)
(* "the session is active" that the handlers must keep in step with        *)
(* base_state.                                                             *)
(***************************************************************************)
EXTENDS UdpChannel

CONSTANT
  Orders        \* the low power orders the operator may give

ASSUME OrdersAssumption == Orders \subseteq LowPowerOrders

VARIABLES
  base_running,         \* the base station process is up
  base_state,           \* session_state_
  connected_rover_id,   \* connected_rover_id_
  rover_endpoint,       \* rover_endpoint_
  session_active,       \* LumenProtocol::session_active_
  activated,            \* history: <<rover, endpoint>> pairs ever made ACTIVE
  delivered             \* history: messages handed to the application

sessionVars == <<base_state, connected_rover_id, rover_endpoint, session_active>>
baseVars == <<base_running, base_state, connected_rover_id, rover_endpoint,
              session_active, activated, delivered>>

BaseStates == {"INACTIVE", "HANDSHAKE_INIT", "HANDSHAKE_ACCEPT", "ACTIVE"}

BaseTypeOK ==
  /\ base_running \in BOOLEAN
  /\ base_state \in BaseStates
  /\ connected_rover_id \in Rovers \cup {NoRover}
  /\ rover_endpoint \in Endpoints \cup {NoEndpoint}
  /\ session_active \in BOOLEAN
  /\ activated \subseteq Rovers \X Endpoints
  /\ delivered \subseteq UpMessage

ClearedSession ==
  /\ base_state' = "INACTIVE"
  /\ connected_rover_id' = NoRover
  /\ rover_endpoint' = NoEndpoint
  /\ session_active' = FALSE

BaseInit ==
  /\ base_running = FALSE
  /\ base_state = "INACTIVE"
  /\ connected_rover_id = NoRover
  /\ rover_endpoint = NoEndpoint
  /\ session_active = FALSE
  /\ activated = {}
  /\ delivered = {}

-----------------------------------------------------------------------------
(* Start and stop.                                                         *)

\* A new base station process: constructor and BaseStation::start.
BaseStart ==
  /\ ~base_running
  /\ base_running' = TRUE
  /\ ClearedSession
  /\ UNCHANGED <<activated, delivered, channelVars>>

\* BaseStation::stop, or the end of the process: the session is forgotten.
BaseStop ==
  /\ "base" \in Stopping
  /\ base_running
  /\ base_running' = FALSE
  /\ ClearedSession
  /\ UNCHANGED <<activated, delivered, channelVars>>

-----------------------------------------------------------------------------
(* Sending.                                                                *)

\* BaseStation::send_command evaluated in session state st with peer e: what
\* it puts on the wire.  Session commands and operator orders alike need an
\* ACTIVE session; only SESSION_ACCEPT may be sent during the handshake.
CommandSent(c, st, e) ==
  IF /\ st = "ACTIVE" \/ (st = "HANDSHAKE_ACCEPT" /\ c = "SESSION_ACCEPT")
     /\ e # NoEndpoint
  THEN {Down(e, c)}
  ELSE {}

\* BaseStation::set_low_power_mode, from the operator's input thread.
BaseSendOrder(c) ==
  /\ base_running
  /\ c \in Orders
  /\ CommandSent(c, base_state, rover_endpoint) # {}
  /\ downlink' = downlink \cup CommandSent(c, base_state, rover_endpoint)
  /\ UNCHANGED <<uplink, baseVars>>

-----------------------------------------------------------------------------
(* SESSION_INIT.                                                           *)

\* The session is ACTIVE with the rover and the endpoint m comes from.
InSessionWith(m) ==
  /\ base_state = "ACTIVE"
  /\ connected_rover_id = m.sender
  /\ rover_endpoint = m.src

\* Plausible slip: a second rover may take the session over.
MayInitiateAlways(m) ==
  m \in UpMessage

\* The base is free, or its handshake or session is with the same rover.
MayInitiate(m) ==
  /\ base_state # "INACTIVE" => connected_rover_id = m.sender
  /\ connected_rover_id \in {m.sender, NoRover}

\* The acknowledgement flag after a SESSION_INIT that is not a repetition:
\* every branch asks for a reset exactly when the session was ACTIVE, the one
\* that rejects the message included.
FlagAfterInit ==
  session_active /\ base_state # "ACTIVE"

HandleSessionInit(m) ==
  /\ m.content = "SESSION_INIT"
  /\ IF InSessionWith(m)
     THEN /\ downlink' = downlink \cup
               CommandSent("SESSION_ESTABLISHED", base_state, rover_endpoint)
          /\ UNCHANGED sessionVars
     ELSE /\ session_active' = FlagAfterInit
          /\ IF MayInitiate(m)
             THEN /\ base_state' = "HANDSHAKE_ACCEPT"
                  /\ connected_rover_id' = m.sender
                  /\ rover_endpoint' = m.src
                  /\ downlink' = downlink \cup
                       CommandSent("SESSION_ACCEPT", "HANDSHAKE_ACCEPT", m.src)
             ELSE UNCHANGED <<base_state, connected_rover_id, rover_endpoint,
                              downlink>>
  /\ UNCHANGED <<base_running, activated, delivered, uplink>>

-----------------------------------------------------------------------------
(* SESSION_CONFIRM.                                                        *)

\* Plausible slip: the endpoint is not compared.
ConfirmExpectedAnyEndpoint(m) ==
  /\ base_state = "HANDSHAKE_ACCEPT"
  /\ connected_rover_id = m.sender

\* The confirmation answers the handshake in progress.
ConfirmExpected(m) ==
  /\ base_state = "HANDSHAKE_ACCEPT"
  /\ connected_rover_id = m.sender
  /\ rover_endpoint = m.src

HandleSessionConfirm(m) ==
  /\ m.content = "SESSION_CONFIRM"
  /\ ConfirmExpected(m)
  /\ base_state' = "ACTIVE"
  /\ session_active' = TRUE
  /\ activated' = activated \cup {<<connected_rover_id, rover_endpoint>>}
  /\ downlink' = downlink \cup
       CommandSent("SESSION_ESTABLISHED", "ACTIVE", rover_endpoint)
  /\ UNCHANGED <<base_running, connected_rover_id, rover_endpoint, delivered,
                 uplink>>

-----------------------------------------------------------------------------
(* Every other message: BaseStation::route_message lets it through to the  *)
(* application when the session is ACTIVE with its sender and endpoint.    *)

AllowMessage(m) == InSessionWith(m)

RouteToApplication(m) ==
  /\ m.content \in Payloads
  /\ AllowMessage(m)
  /\ delivered' = delivered \cup {m}
  /\ UNCHANGED <<base_running, sessionVars, activated, channelVars>>

\* A datagram reaches the base station.  One that no handler accepts is
\* ignored and leaves no trace.
BaseReceive(m) ==
  /\ base_running
  /\ m \in uplink
  /\ \/ HandleSessionInit(m)
     \/ HandleSessionConfirm(m)
     \/ RouteToApplication(m)

=============================================================================
