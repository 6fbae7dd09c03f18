-------------------------------- MODULE Rover -------------------------------
(***************************************************************************)
(* The session management of the rovers (src/rover/rover.cpp): handshake,  *)
(* loss of the base station, probing, and the store of outbound messages.  *)
(*                                                                         *)
(* A rover runs its handlers one at a time on its io_context.  ready[r] is *)
(* the queue of handlers that are due: expired timers, and tasks handed    *)
(* over with boost::asio::post.  A timer that is only armed can still be   *)
(* cancelled; once it has expired its handler is in the queue and runs     *)
(* whatever happens to the timer, which is why the handlers look at the    *)
(* session state again.                                                    *)
(***************************************************************************)
EXTENDS UdpChannel, Sequences

CONSTANTS
  StatusReports,           \* payloads handle_status_timer may send
  TelemetryReports,        \* payloads handle_position_telemetry_timer may send
  HighPriority,            \* the payloads of priority HIGH
  MAX_HANDSHAKE_RETRIES,   \* 5 in rover.hpp
  MaxStored                \* bound of the model on stored_packets_

ASSUME RoverAssumption ==
  /\ StatusReports \subseteq Payloads
  /\ TelemetryReports \subseteq Payloads
  /\ HighPriority \subseteq Payloads
  /\ MAX_HANDSHAKE_RETRIES \in Nat
  /\ MaxStored \in Nat

VARIABLES
  endpoint,               \* local endpoint of r's socket, NoEndpoint: no process
  used_endpoints,         \* endpoints of earlier and present processes
  session_state,          \* session_state_
  handshake_retry_count,  \* handshake_retry_count_
  armed,                  \* the timers among handshake and probe being waited on
  ready,                  \* io_context queue: the handlers that are due
  stored_packets,         \* stored_packets_
  low_power_mode,         \* low_power_mode_
  reporting               \* status and telemetry timers are being waited on

\* Everything but the session state, the queue and the wire.
restVars == <<endpoint, used_endpoints, stored_packets, low_power_mode, reporting>>
roverVars == <<endpoint, used_endpoints, session_state, handshake_retry_count,
               armed, ready, stored_packets, low_power_mode, reporting>>

RoverStates ==
  {"INACTIVE", "HANDSHAKE_INIT", "HANDSHAKE_ACCEPT", "ACTIVE", "DISCONNECTED"}

Timers == {"handshake", "probe"}
Posted == {"packet_timeout", "reset_sequence", "arm_probe", "arm_handshake"}

RoverTypeOK ==
  /\ endpoint \in [Rovers -> Endpoints \cup {NoEndpoint}]
  /\ used_endpoints \subseteq Endpoints
  /\ session_state \in [Rovers -> RoverStates]
  /\ handshake_retry_count \in [Rovers -> 0 .. MAX_HANDSHAKE_RETRIES]
  /\ armed \in [Rovers -> SUBSET Timers]
  /\ ready \in [Rovers -> Seq(Timers \cup Posted)]
  /\ stored_packets \in [Rovers -> Seq(Payloads)]
  /\ low_power_mode \in [Rovers -> BOOLEAN]
  /\ reporting \in [Rovers -> BOOLEAN]

Running(r) == endpoint[r] # NoEndpoint

Queued(r, h) == \E i \in DOMAIN ready[r] : ready[r][i] = h

RoverInit ==
  /\ endpoint = [r \in Rovers |-> NoEndpoint]
  /\ used_endpoints = {}
  /\ session_state = [r \in Rovers |-> "INACTIVE"]
  /\ handshake_retry_count = [r \in Rovers |-> 0]
  /\ armed = [r \in Rovers |-> {}]
  /\ ready = [r \in Rovers |-> <<>>]
  /\ stored_packets = [r \in Rovers |-> <<>>]
  /\ low_power_mode = [r \in Rovers |-> FALSE]
  /\ reporting = [r \in Rovers |-> FALSE]

-----------------------------------------------------------------------------
(* Sending.                                                                *)

\* What r puts on the wire when it sends c to the base station.
Sent(r, c) == {Up(r, endpoint[r], c)}

\* Rover::send_command for a session command: priority HIGH, so never subject
\* to low power mode.  All callers are in a state in which it is sent: only
\* SESSION_INIT is used while DISCONNECTED.
SendCommand(r, c) == uplink' = uplink \cup Sent(r, c)

\* Low power mode drops everything that is not of priority HIGH.
Suppressed(r, p) == low_power_mode[r] /\ p \notin HighPriority

\* Rover::store_message_for_later, behind what is stored already.
StoreMessageForLater(r, p) == [stored_packets EXCEPT ![r] = Append(@, p)]

\* Rover::send_message to the base station: suppressed, stored, sent or given
\* up, according to the session state.
SendToBase(r, p) ==
  /\ stored_packets' =
       IF ~Suppressed(r, p) /\ session_state[r] = "DISCONNECTED"
       THEN StoreMessageForLater(r, p)
       ELSE stored_packets
  /\ uplink' =
       IF ~Suppressed(r, p) /\ session_state[r] = "ACTIVE"
       THEN uplink \cup Sent(r, p)
       ELSE uplink

\* Rover::send_status and Rover::send_telemetry decide the same way.
SendStatus(r, p) == SendToBase(r, p)

SendTelemetry(r, p) == SendToBase(r, p)

-----------------------------------------------------------------------------
(* Start and stop.                                                         *)

\* A new rover process: constructor, Rover::start and initiate_handshake.  Its
\* socket is bound to an endpoint of its own.
RoverStart(r, e) ==
  /\ ~Running(r)
  /\ e \in Endpoints \ used_endpoints
  /\ endpoint' = [endpoint EXCEPT ![r] = e]
  /\ used_endpoints' = used_endpoints \cup {e}
  /\ session_state' = [session_state EXCEPT ![r] = "HANDSHAKE_INIT"]
  /\ handshake_retry_count' = [handshake_retry_count EXCEPT ![r] = 0]
  /\ armed' = [armed EXCEPT ![r] = {"handshake"}]
  /\ uplink' = uplink \cup {Up(r, e, "SESSION_INIT")}
  /\ UNCHANGED <<ready, stored_packets, low_power_mode, reporting, downlink>>

\* Rover::stop followed by io_context::stop: the process ends, its queue and
\* its stored messages with it.
RoverStop(r) ==
  /\ "rover" \in Stopping
  /\ Running(r)
  /\ endpoint' = [endpoint EXCEPT ![r] = NoEndpoint]
  /\ session_state' = [session_state EXCEPT ![r] = "INACTIVE"]
  /\ handshake_retry_count' = [handshake_retry_count EXCEPT ![r] = 0]
  /\ armed' = [armed EXCEPT ![r] = {}]
  /\ ready' = [ready EXCEPT ![r] = <<>>]
  /\ stored_packets' = [stored_packets EXCEPT ![r] = <<>>]
  /\ low_power_mode' = [low_power_mode EXCEPT ![r] = FALSE]
  /\ reporting' = [reporting EXCEPT ![r] = FALSE]
  /\ UNCHANGED <<used_endpoints, channelVars>>

-----------------------------------------------------------------------------
(* Entries of the io_context queue.                                        *)

\* A timer expires: its handler is due and can no longer be cancelled.  Timers
\* run for seconds and the queue drains in far less, so the handler of an
\* earlier expiry of the same timer has run by then; the one wait of no length,
\* for the first probe, is started by a task that was queued behind it.
TimerExpires(r, t) ==
  /\ t \in armed[r]
  /\ ~Queued(r, t)
  /\ armed' = [armed EXCEPT ![r] = @ \ {t}]
  /\ ready' = [ready EXCEPT ![r] = Append(@, t)]
  /\ UNCHANGED <<restVars, session_state, handshake_retry_count, channelVars>>

\* The reliability layer gives up on a packet to the base station and posts
\* handle_packet_timeout.  The model keeps at most one such task in the queue.
PacketTimeout(r) ==
  /\ Running(r)
  /\ ~Queued(r, "packet_timeout")
  /\ ready' = [ready EXCEPT ![r] = Append(@, "packet_timeout")]
  /\ UNCHANGED <<restVars, session_state, handshake_retry_count, armed,
                 channelVars>>

\* The io_context takes the first handler from the queue.
Due(r, h) ==
  /\ ready[r] # <<>>
  /\ Head(ready[r]) = h

\* ... and the handler leaves the tasks ts behind the others.
Dispatch(r, ts) == ready' = [ready EXCEPT ![r] = Tail(@) \o ts]

-----------------------------------------------------------------------------
(* Loss of the base station.                                               *)

\* Plausible slip: the probe timer is not armed.
DisconnectTasksNoProbe == <<"reset_sequence">>

\* The tasks handle_base_disconnect posts, in this order.
DisconnectTasks == <<"reset_sequence", "arm_probe">>

\* Rover::handle_base_disconnect, as the last thing a due handler does.
HandleBaseDisconnect(r) ==
  IF session_state[r] = "ACTIVE"
  THEN /\ session_state' = [session_state EXCEPT ![r] = "DISCONNECTED"]
       /\ armed' = [armed EXCEPT ![r] = @ \ {"handshake", "probe"}]
       /\ Dispatch(r, DisconnectTasks)
  ELSE /\ Dispatch(r, <<>>)
       /\ UNCHANGED <<session_state, armed>>

HandlePacketTimeout(r) ==
  /\ Due(r, "packet_timeout")
  /\ HandleBaseDisconnect(r)
  /\ UNCHANGED <<restVars, handshake_retry_count, channelVars>>

\* The posted reset of sequence number and reliability state.  The session
\* layer holds none of what it clears.
ResetSequence(r) ==
  /\ Due(r, "reset_sequence")
  /\ Dispatch(r, <<>>)
  /\ UNCHANGED <<restVars, session_state, handshake_retry_count, armed,
                 channelVars>>

ArmProbe(r) ==
  /\ Due(r, "arm_probe")
  /\ Dispatch(r, <<>>)
  /\ armed' = [armed EXCEPT ![r] = @ \cup {"probe"}]
  /\ UNCHANGED <<restVars, session_state, handshake_retry_count, channelVars>>

\* Plausible slip: one probe only.
ArmedAfterProbeOnce(r) == armed[r]

\* The timers waited on after a probe: it reschedules itself.
ArmedAfterProbe(r) == armed[r] \cup {"probe"}

\* Rover::handle_probe_timer.
HandleProbeTimer(r) ==
  /\ Due(r, "probe")
  /\ Dispatch(r, <<>>)
  /\ IF session_state[r] = "DISCONNECTED"
     THEN /\ SendCommand(r, "SESSION_INIT")
          /\ armed' = [armed EXCEPT ![r] = ArmedAfterProbe(r)]
     ELSE UNCHANGED <<uplink, armed>>
  /\ UNCHANGED <<restVars, session_state, handshake_retry_count, downlink>>

-----------------------------------------------------------------------------
(* Handshake.                                                              *)

Handshaking(r) == session_state[r] \in {"HANDSHAKE_INIT", "HANDSHAKE_ACCEPT"}

\* Plausible slip: one retry too many.
RetriesExhaustedLate(r) == handshake_retry_count[r] > MAX_HANDSHAKE_RETRIES

RetriesExhausted(r) == handshake_retry_count[r] >= MAX_HANDSHAKE_RETRIES

\* Rover::handle_handshake_timer: send the outstanding request again, or give
\* up.  Giving up calls handle_base_disconnect.
HandleHandshakeTimer(r) ==
  /\ Due(r, "handshake")
  /\ IF Handshaking(r) /\ RetriesExhausted(r)
     THEN /\ HandleBaseDisconnect(r)
          /\ UNCHANGED <<handshake_retry_count, uplink>>
     ELSE /\ Dispatch(r, <<>>)
          /\ UNCHANGED session_state
          /\ IF Handshaking(r)
             THEN /\ handshake_retry_count' =
                       [handshake_retry_count EXCEPT ![r] = @ + 1]
                  /\ SendCommand(r, IF session_state[r] = "HANDSHAKE_INIT"
                                    THEN "SESSION_INIT" ELSE "SESSION_CONFIRM")
                  /\ armed' = [armed EXCEPT ![r] = @ \cup {"handshake"}]
             ELSE UNCHANGED <<handshake_retry_count, uplink, armed>>
  /\ UNCHANGED <<restVars, downlink>>

\* The task handle_session_accept posts.
ArmHandshake(r) ==
  /\ Due(r, "arm_handshake")
  /\ Dispatch(r, <<>>)
  /\ armed' = [armed EXCEPT ![r] = @ \cup {"handshake"}]
  /\ UNCHANGED <<restVars, session_state, handshake_retry_count, channelVars>>

\* Where SESSION_ACCEPT is expected.
AcceptExpected(r) == session_state[r] \in {"HANDSHAKE_INIT", "DISCONNECTED"}

\* The timers SESSION_ACCEPT cancels.
CancelledByAccept(r) ==
  IF session_state[r] = "DISCONNECTED" THEN {"handshake", "probe"} ELSE {"handshake"}

\* Plausible slip: the rover takes SESSION_ACCEPT for the end of the handshake.
StateAfterAcceptEager == "ACTIVE"

StateAfterAccept == "HANDSHAKE_ACCEPT"

\* Rover::handle_session_accept.
HandleSessionAccept(r) ==
  /\ AcceptExpected(r)
  /\ session_state' = [session_state EXCEPT ![r] = StateAfterAccept]
  /\ armed' = [armed EXCEPT ![r] = @ \ CancelledByAccept(r)]
  /\ SendCommand(r, "SESSION_CONFIRM")
  /\ ready' = [ready EXCEPT ![r] = Append(@, "arm_handshake")]
  /\ UNCHANGED <<restVars, handshake_retry_count, downlink>>

\* Plausible slip: the loop stops one short of the end.
StoreAfterFlushButLast(r) ==
  IF stored_packets[r] = <<>> THEN <<>>
  ELSE <<stored_packets[r][Len(stored_packets[r])]>>

\* What Rover::send_stored_packets leaves in the store: nothing, the messages
\* having been given to the protocol front to back, low power mode or not.
StoreAfterFlush(r) == <<>>

\* Plausible slip: the first stored message is popped before it is sent.
FlushedButFirst(r) ==
  UNION {Sent(r, stored_packets[r][i]) : i \in DOMAIN stored_packets[r] \ {1}}

Flushed(r) == UNION {Sent(r, stored_packets[r][i]) : i \in DOMAIN stored_packets[r]}

\* A first report of each kind, sent as the session becomes ACTIVE.
FirstReports(r, ps) == UNION {Sent(r, p) : p \in {q \in ps : ~Suppressed(r, q)}}

\* Rover::handle_session_established: flush the store, then run the status and
\* the telemetry handler once, which keeps both timers going from then on.
HandleSessionEstablished(r) ==
  /\ session_state[r] # "ACTIVE"
  /\ session_state' = [session_state EXCEPT ![r] = "ACTIVE"]
  /\ handshake_retry_count' = [handshake_retry_count EXCEPT ![r] = 0]
  /\ armed' = [armed EXCEPT ![r] = @ \ {"handshake", "probe"}]
  /\ stored_packets' = [stored_packets EXCEPT ![r] = StoreAfterFlush(r)]
  /\ reporting' = [reporting EXCEPT ![r] = TRUE]
  /\ \E s \in StatusReports, t \in TelemetryReports :
       uplink' = uplink \cup Flushed(r) \cup FirstReports(r, {s, t})
  /\ UNCHANGED <<endpoint, used_endpoints, ready, low_power_mode, downlink>>

\* The SET_LOW_POWER branch of Rover::handle_internal_command.
HandleSetLowPower(r, c) ==
  /\ low_power_mode' = [low_power_mode EXCEPT ![r] = (c = "LOW_POWER_ON")]
  /\ UNCHANGED <<endpoint, used_endpoints, session_state, handshake_retry_count,
                 armed, ready, stored_packets, reporting, channelVars>>

\* A datagram of the base station reaches r, in whatever state r is: the
\* command branches of Rover::route_message and handle_internal_command.
RoverReceive(r, m) ==
  /\ Running(r)
  /\ m \in downlink
  /\ m.dst = endpoint[r]
  /\ \/ m.content = "SESSION_ACCEPT" /\ HandleSessionAccept(r)
     \/ m.content = "SESSION_ESTABLISHED" /\ HandleSessionEstablished(r)
     \/ m.content \in LowPowerOrders /\ HandleSetLowPower(r, m.content)

-----------------------------------------------------------------------------
(* Outbound messages.  The status and telemetry timers are cancelled only  *)
(* by Rover::stop and rearm themselves in every state, so once they run    *)
(* either may be the next to fire at any time.                             *)

\* Bound of the model: the code's deque has none.
StoreHasRoom(r) == Len(stored_packets[r]) < MaxStored

HandleStatusTimer(r, p) ==
  /\ reporting[r]
  /\ p \in StatusReports
  /\ StoreHasRoom(r)
  /\ SendStatus(r, p)
  /\ UNCHANGED <<endpoint, used_endpoints, session_state, handshake_retry_count,
                 armed, ready, low_power_mode, reporting, downlink>>

HandlePositionTelemetryTimer(r, p) ==
  /\ reporting[r]
  /\ p \in TelemetryReports
  /\ StoreHasRoom(r)
  /\ SendTelemetry(r, p)
  /\ UNCHANGED <<endpoint, used_endpoints, session_state, handshake_retry_count,
                 armed, ready, low_power_mode, reporting, downlink>>

\* Rover::send_message from the application.
SendMessage(r, p) ==
  /\ Running(r)
  /\ p \in Payloads \ (StatusReports \cup TelemetryReports)
  /\ StoreHasRoom(r)
  /\ SendToBase(r, p)
  /\ UNCHANGED <<endpoint, used_endpoints, session_state, handshake_retry_count,
                 armed, ready, low_power_mode, reporting, downlink>>

=============================================================================
