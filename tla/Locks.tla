-------------------------------- MODULE Locks -------------------------------
(***************************************************************************)
(* The mutexes of a rover or base station process and the calls made while *)
(* they are held.  All handlers run on one thread, so no two threads wait  *)
(* for each other; but the mutexes are not recursive, some are held while  *)
(* callbacks run up and down the layers, and a callback that came back to  *)
(* the layer that holds one would wait for itself.                         *)
(*                                                                         *)
(* A function is the sequence of what it does with mutexes and calls:      *)
(* "touch" is a scope in which a mutex is held and nothing is called,      *)
(* "lock" and "unlock" delimit one with calls, "call" calls one function   *)
(* of a set or, where the code has a condition, none, and "post" hands     *)
(* functions over to the io_context.  A loop is one turn of it.            *)
(***************************************************************************)
EXTENDS Naturals, Sequences

CONSTANT
  Programs      \* "rover", "base"

VARIABLES
  program,      \* what the process is
  stack,        \* the calls that have not returned, the innermost first
  held,         \* the mutexes the thread holds
  posted        \* handlers waiting on the io_context

vars == <<program, stack, held, posted>>

-----------------------------------------------------------------------------
(* The functions, from the bottom to the top.                              *)

Touch(m) == <<"touch", m>>
Lock(m) == <<"lock", m>>
Unlock(m) == <<"unlock", m>>
Call(fs) == <<"call", fs>>
Post(fs) == <<"post", fs>>

\* UdpClient::handle_receive, UdpServer::receive_data.
TransportBody ==
  [receive |-> <<Touch("transport_callback"), Call({"handle_udp_data"})>>]

\* ReliabilityManager::process_nak: the packet is sent again under the mutex.
ProcessNak ==
  <<Lock("sent_packets"), Touch("retransmit_callback"), Call({"send_packet"}),
    Unlock("sent_packets")>>

\* ReliabilityManager::get_packets_to_retransmit: the timeout callback runs under
\* the mutex.
GetPacketsToRetransmit ==
  <<Lock("sent_packets"), Touch("timeout_callback"), Call({"on_timeout"}),
    Unlock("sent_packets")>>

\* ReliabilityManager.
ReliabilityBody ==
  [add_send_packet |-> <<Touch("sent_packets")>>,
   process_ack |-> <<Touch("sent_packets")>>,
   process_nak |-> ProcessNak,
   record_received_sequence |-> <<Touch("received_sequences")>>,
   get_missing_sequences |-> <<Touch("received_sequences")>>,
   is_recently_naked |-> <<Touch("recent_naks")>>,
   record_nak_sent |-> <<Touch("recent_naks")>>,
   get_packets_to_retransmit |-> GetPacketsToRetransmit,
   handle_retransmission_timer |->
     <<Call({"get_packets_to_retransmit"}), Touch("retransmit_callback"),
       Call({"send_packet"})>>,
   handle_cleanup_timer |->
     <<Touch("received_sequences"), Touch("recent_naks"), Touch("acked_sequences")>>,
   record_acked_sequence |-> <<Touch("acked_sequences")>>,
   has_acked_sequence |-> <<Touch("acked_sequences")>>,
   reset_state |->
     <<Lock("sent_packets"), Lock("received_sequences"), Lock("recent_naks"),
       Touch("acked_sequences"), Unlock("recent_naks"),
       Unlock("received_sequences"), Unlock("sent_packets")>>]

\* LumenProtocol::process_frame_buffer: packets are processed, up to the
\* application, under the mutex of the buffers.
ProcessFrameBuffer ==
  <<Lock("frame_buffers"), Call({"process_complete_packet"}), Unlock("frame_buffers")>>

\* LumenProtocol.
ProtocolBody ==
  [send_message |-> <<Call({"add_send_packet"}), Call({"send_packet"})>>,
   send_packet |-> <<>>,
   reset_sequence_number |-> <<Call({"reset_state"}), Touch("frame_buffers")>>,
   handle_udp_data |->
     <<Touch("endpoint"), Touch("frame_buffers"), Call({"process_frame_buffer"}),
       Touch("message_callback"), Call({"handle_lumen_message"})>>,
   process_frame_buffer |-> ProcessFrameBuffer,
   process_complete_packet |->
     <<Call({"record_received_sequence"}), Call({"process_ack", "process_nak"}),
       Call({"has_acked_sequence"}), Call({"send_ack"}), Call({"check_sequence_gaps"}),
       Touch("message_callback"), Call({"handle_lumen_message"})>>,
   send_ack |-> <<Call({"record_acked_sequence"}), Call({"send_packet"})>>,
   check_sequence_gaps |->
     <<Call({"get_missing_sequences"}), Call({"is_recently_naked"}),
       Call({"send_packet"}), Call({"record_nak_sent"})>>]

\* MessageManager::handle_lumen_message.
ManagerBody ==
  [handle_lumen_message |-> <<Touch("manager_callback"), Call({"route_message"})>>]

\* The timeout callback of Rover::start: "post to io_context".
OnTimeout == <<Post({"handle_packet_timeout"})>>

\* Plausible slip: the mutex is held as long as the state matters.
HandleHandshakeTimerLocked ==
  <<Lock("state"), Call({"send_command", "handle_base_disconnect"}), Unlock("state")>>

\* Rover::handle_handshake_timer.
HandleHandshakeTimer ==
  <<Touch("state"), Call({"send_command", "handle_base_disconnect"})>>

\* Rover::handle_base_disconnect: under the mutex of the state.
HandleBaseDisconnect ==
  <<Lock("state"), Post({"reset_sequence_number", "arm_probe_timer"}), Unlock("state")>>

\* Rover::send_stored_packets: packets are sent under the mutex of the store.
SendStoredPackets ==
  <<Lock("stored_packets"), Call({"send_message"}), Unlock("stored_packets")>>

\* Rover: the session.
RoverSessionBody ==
  [on_timeout |-> OnTimeout,
   handle_packet_timeout |-> <<Touch("state"), Call({"handle_base_disconnect"})>>,
   handle_base_disconnect |-> HandleBaseDisconnect,
   arm_probe_timer |-> <<>>,
   handle_handshake_timer |-> HandleHandshakeTimer,
   handle_probe_timer |-> <<Touch("state"), Call({"send_command"})>>,
   handle_session_accept |-> <<Touch("state"), Call({"send_command"})>>,
   handle_session_established |->
     <<Touch("state"), Call({"send_stored_packets"}), Call({"report"}), Call({"report"})>>,
   send_stored_packets |-> SendStoredPackets,
   send_command |-> <<Touch("low_power"), Touch("state"), Call({"send_message"})>>]

\* Rover: messages of its own, and from others.  report is send_status, send_
\* telemetry and Rover::send_message, which take the same mutexes.
RoverBody ==
  [route_message |->
     <<Call({"handle_session_accept", "handle_session_established", "set_low_power",
             "set_target", "handle_discovery_command"}), Touch("handler")>>,
   set_low_power |-> <<Touch("low_power")>>,
   set_target |-> <<Lock("target"), Touch("position"), Unlock("target")>>,
   handle_discovery_command |->
     <<Touch("discovery"), Touch("discovery_handler"), Touch("low_power"),
       Call({"send_packet"})>>,
   report |->
     <<Touch("status"), Touch("state"), Touch("low_power"),
       Call({"store_message_for_later", "send_message"})>>,
   store_message_for_later |-> <<Touch("stored_packets")>>,
   handle_status_timer |-> <<Touch("state"), Call({"report"})>>,
   handle_position_telemetry_timer |->
     <<Touch("position"), Touch("state"), Call({"report"})>>,
   handle_movement_timer |->
     <<Lock("target"), Touch("position"), Unlock("target"), Touch("target"),
       Call({"report"}), Touch("position")>>]

\* BaseStation.
BaseBody ==
  [on_timeout |-> <<>>,
   route_message |->
     <<Call({"handle_session_init", "handle_session_confirm"}), Touch("state"),
       Touch("status_callback"), Touch("handler")>>,
   handle_session_init |->
     <<Touch("state"), Call({"send_command"}), Touch("state"), Call({"send_command"})>>,
   handle_session_confirm |-> <<Touch("state"), Call({"send_command"})>>,
   send_command |-> <<Touch("state"), Call({"send_message"}), Touch("state")>>]

-----------------------------------------------------------------------------
(* The thread.                                                             *)

\* The functions a process has.
Layers(p) ==
  LET common == <<TransportBody, ReliabilityBody, ProtocolBody, ManagerBody>>
  IN IF p = "rover" THEN common \o <<RoverSessionBody, RoverBody>>
                    ELSE common \o <<BaseBody>>

Body(p, f) ==
  LET i == CHOOSE n \in DOMAIN Layers(p) : f \in DOMAIN Layers(p)[n]
  IN Layers(p)[i][f]

\* What the io_context runs without being asked: datagrams, timers and, at the
\* base station, the operator's commands.
Entries(p) ==
  {"receive", "handle_retransmission_timer", "handle_cleanup_timer"} \cup
  IF p = "rover"
  THEN {"handle_handshake_timer", "handle_probe_timer", "handle_status_timer",
        "handle_position_telemetry_timer", "handle_movement_timer"}
  ELSE {"send_command"}

\* What is left to do of a call.
Frame(f) == Body(program, f)

Busy == stack # <<>>

\* The next thing to do, in the innermost call.
Op == Head(Head(stack))
At(kind) == Busy /\ Head(stack) # <<>> /\ Op[1] = kind

\* The stack after it.
Done == <<Tail(Head(stack))>> \o Tail(stack)

\* The type invariant; between two handlers no mutex is held.
TypeOK ==
  /\ program \in Programs
  /\ posted \subseteq DOMAIN ProtocolBody \cup DOMAIN RoverSessionBody
  /\ stack = <<>> => held = {}

Init ==
  /\ program \in Programs
  /\ stack = <<>>
  /\ held = {}
  /\ posted = {}

Dispatch ==
  /\ ~Busy
  /\ \/ \E f \in Entries(program) : stack' = <<Frame(f)>> /\ UNCHANGED posted
     \/ \E f \in posted : stack' = <<Frame(f)>> /\ posted' = posted \ {f}
  /\ UNCHANGED <<program, held>>

TouchMutex ==
  /\ At("touch")
  /\ Op[2] \notin held
  /\ stack' = Done
  /\ UNCHANGED <<program, held, posted>>

LockMutex ==
  /\ At("lock")
  /\ Op[2] \notin held
  /\ held' = held \cup {Op[2]}
  /\ stack' = Done
  /\ UNCHANGED <<program, posted>>

UnlockMutex ==
  /\ At("unlock")
  /\ held' = held \ {Op[2]}
  /\ stack' = Done
  /\ UNCHANGED <<program, posted>>

CallFunction ==
  /\ At("call")
  /\ \/ \E f \in Op[2] : stack' = <<Frame(f)>> \o Done
     \/ stack' = Done
  /\ UNCHANGED <<program, held, posted>>

PostFunctions ==
  /\ At("post")
  /\ posted' = posted \cup Op[2]
  /\ stack' = Done
  /\ UNCHANGED <<program, held>>

Return ==
  /\ Busy
  /\ Head(stack) = <<>>
  /\ stack' = Tail(stack)
  /\ UNCHANGED <<program, held, posted>>

Next ==
  \/ Dispatch
  \/ TouchMutex
  \/ LockMutex
  \/ UnlockMutex
  \/ CallFunction
  \/ PostFunctions
  \/ Return

Spec == Init /\ [][Next]_vars

-----------------------------------------------------------------------------
(* Properties.                                                             *)

\* However callbacks lead from one layer to the other, the thread never locks a
\* mutex it holds: packets are handled under frame_buffers_mutex_, timeouts are
\* reported under sent_packets_mutex_ and the loss of the base station is noted
\* under state_mutex_; the state is copied before anything is called that looks at
\* it again, and the reset of the protocol is posted.
NeverWaitsForItself ==
  At("touch") \/ At("lock") => Op[2] \notin held

=============================================================================
