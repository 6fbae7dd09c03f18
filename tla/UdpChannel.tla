----------------------------- MODULE UdpChannel -----------------------------
(***************************************************************************)
(* The two directions of the UDP path between the rovers and the base      *)
(* station, as the session layer sees it.                                  *)
(*                                                                         *)
(* A datagram stays in the channel after it has been delivered and leaves  *)
(* it only by Lose.  A datagram can therefore be lost, delayed, reordered  *)
(* and delivered several times.  The last case also stands for the         *)
(* retransmissions of the reliability layer, which sends a packet again    *)
(* unchanged (LumenProtocol::handle_retransmission).                       *)
(***************************************************************************)
EXTENDS Naturals, FiniteSets

CONSTANTS
  Rovers,       \* rover identifiers (rover_id_), one process each
  Endpoints,    \* UDP endpoints a rover's socket can be bound to
  Payloads,     \* bodies of status, telemetry and application messages
  NoRover,      \* the empty connected_rover_id_ of the base station
  NoEndpoint,   \* a default-constructed, unspecified udp::endpoint
  Stopping,     \* the kinds of process, of {"base", "rover"}, that may end
  Lossy         \* whether datagrams are removed from the channel; without it
                \* a lost datagram is one that is never delivered

SessionRequests == {"SESSION_INIT", "SESSION_CONFIRM"}
SessionReplies  == {"SESSION_ACCEPT", "SESSION_ESTABLISHED"}
LowPowerOrders  == {"LOW_POWER_ON", "LOW_POWER_OFF"}

ASSUME ChannelAssumption ==
  /\ NoRover \notin Rovers
  /\ NoEndpoint \notin Endpoints
  /\ Payloads \cap SessionRequests = {}
  /\ Stopping \subseteq {"base", "rover"}
  /\ Lossy \in BOOLEAN

\* Rover to base: the sender field of the message, the source endpoint of the
\* datagram, and either a session command or a payload.
UpMessage == [sender : Rovers, src : Endpoints,
              content : SessionRequests \cup Payloads]

\* Base to rover: the base station only ever sends commands.
DownMessage == [dst : Endpoints, content : SessionReplies \cup LowPowerOrders]

VARIABLES
  uplink,       \* rover-to-base datagrams in flight
  downlink      \* base-to-rover datagrams in flight

channelVars == <<uplink, downlink>>

ChannelTypeOK ==
  /\ uplink \subseteq UpMessage
  /\ downlink \subseteq DownMessage

ChannelInit ==
  /\ uplink = {}
  /\ downlink = {}

Up(r, e, c) == [sender |-> r, src |-> e, content |-> c]

Down(e, c) == [dst |-> e, content |-> c]

\* The network drops a datagram.
LoseUp(m) ==
  /\ Lossy
  /\ m \in uplink
  /\ uplink' = uplink \ {m}
  /\ UNCHANGED downlink

LoseDown(m) ==
  /\ Lossy
  /\ m \in downlink
  /\ downlink' = downlink \ {m}
  /\ UNCHANGED uplink

=============================================================================
