--------------------------- MODULE MCLumenEndpoint --------------------------
(***************************************************************************)
(* LumenEndpoint in three small instances, one of which each behaviour     *)
(* follows: a rover that sends to two peers, with the values of the .cfg;  *)
(* a rover looking for gaps; a base station.  All hear of one peer only,   *)
(* and the latter two send to none but that one.                           *)
(***************************************************************************)
EXTENDS LumenEndpoint

CONSTANTS base, other, packet

VARIABLE instance

Receiver == INSTANCE LumenEndpoint WITH
  SeqMod <- 3, Packets <- {}, Heard <- {0, 2}, RELIABILITY_BASE_TIMEOUT <- 1,
  CLEANUP_INTERVAL <- 2, SEQUENCE_RETAIN_TIME <- 2, WINDOW_SIZE <- 2,
  PacketsPerCheck <- 2, MaxTracked <- 0

Station == INSTANCE LumenEndpoint WITH
  Role <- "BASE_STATION", BasePeers <- {}, Heard <- {0, 1},
  RELIABILITY_BASE_TIMEOUT <- 1

InstanceInit ==
  \/ instance = "sender" /\ Init
  \/ instance = "receiver" /\ Receiver!Init
  \/ instance = "station" /\ Station!Init

\* Nothing is heard of the other peer ...
OtherIsSilent == received_sequences'[other] = received_sequences[other]

\* ... and nothing is sent to it.
OtherIsUnknown ==
  \A s \in DOMAIN sent_packets' :
    sent_packets'[s] # NoEntry => sent_packets'[s].recipient # other

InstanceNext ==
  /\ \/ instance = "sender" /\ Next
     \/ instance = "receiver" /\ Receiver!Next /\ OtherIsUnknown
     \/ instance = "station" /\ Station!Next /\ OtherIsUnknown
  /\ OtherIsSilent
  /\ UNCHANGED instance

\* No action reads what the last step did, or which packet was sent last.
WithoutOut ==
  <<instance, current_sequence, sent_packets, since_add, receiveVars, nakVars,
    ackVars, timerVars>>

InstanceSpec == InstanceInit /\ [][InstanceNext]_<<vars, instance>>

-----------------------------------------------------------------------------

\* The type invariant of all three.
EndpointTypeOK ==
  /\ instance = "sender" => TypeOK
  /\ instance = "receiver" => Receiver!TypeOK
  /\ instance = "station" => Station!TypeOK

=============================================================================
