------------------------------ MODULE LumenLink -----------------------------
(***************************************************************************)
(* The two ends of the LUMEN protocol, a rover and its base station in an  *)
(* active session, joined by a network: LumenEndpoint in both roles, the   *)
(* packets one sends being the packets the other receives.                 *)
(*                                                                         *)
(* The application of the rover sends the messages 1, 2, ... in this       *)
(* order, that of the base station the commands 1, 2, ...; each packet is  *)
(* in the network once for every time it was sent.                         *)
(***************************************************************************)
EXTENDS Integers, Sequences, FiniteSets

Fn == INSTANCE Functions

CONSTANTS
  SeqMod, RELIABILITY_MAX_RETRIES, RELIABILITY_BASE_TIMEOUT,
  RELIABILITY_CHECK_INTERVAL, NAK_DEBOUNCE_TIME, CLEANUP_INTERVAL,
  SEQUENCE_RETAIN_TIME, WINDOW_SIZE, MAX_NAKS_PER_CHECK, PacketsPerCheck,
  NoEntry,
  MaxMessages,    \* bound of the model: messages of the rover
  MaxCommands,    \* bound of the model: commands of the base station
  Capacity,       \* packets the network holds in one direction; more are lost
  Lossy,          \* packets may be lost at any time
  Reorders,       \* packets may overtake each other
  Prompt,         \* packets arrive, or are lost, before time passes
  Survives        \* the rover goes on after it has lost the base station

VARIABLES
  r_current_sequence, r_sent_packets, r_received_sequences, r_recent_naks,
  r_acked_sequences, r_ack_cleanup_age, r_check_counter, r_retransmit_in,
  r_cleanup_in, r_out, r_since_add, r_last_sent, r_since_received, r_since_nak,
  r_since_ack,
  b_current_sequence, b_sent_packets, b_received_sequences, b_recent_naks,
  b_acked_sequences, b_ack_cleanup_age, b_check_counter, b_retransmit_in,
  b_cleanup_in, b_out, b_since_add, b_last_sent, b_since_received, b_since_nak,
  b_since_ack,
  uplink, downlink,     \* packets in the network
  messages, commands,   \* how many the applications have sent
  arrived,              \* history: messages passed on at the base station
  executed,             \* history: commands passed on at the rover
  confirmed,            \* history: messages taken off sent_packets_ by an ACK
  base_lost             \* the loss of the base station has been reported

Seqs == 0 .. SeqMod - 1

DataPackets(n) == [type : {"DATA"}, seq : Seqs, body : 1 .. n]

ASSUME LinkAssumption ==
  /\ SeqMod \in Nat \ {0}
  /\ MaxMessages \in Nat
  /\ MaxCommands \in Nat
  /\ NoEntry \notin DataPackets(MaxMessages)

rovVars == <<r_current_sequence, r_sent_packets, r_received_sequences,
             r_recent_naks, r_acked_sequences, r_ack_cleanup_age,
             r_check_counter, r_retransmit_in, r_cleanup_in, r_out, r_since_add,
             r_last_sent, r_since_received, r_since_nak, r_since_ack>>
basVars == <<b_current_sequence, b_sent_packets, b_received_sequences,
             b_recent_naks, b_acked_sequences, b_ack_cleanup_age,
             b_check_counter, b_retransmit_in, b_cleanup_in, b_out, b_since_add,
             b_last_sent, b_since_received, b_since_nak, b_since_ack>>
appVars == <<messages, commands, arrived, executed, confirmed, base_lost>>
vars == <<rovVars, basVars, uplink, downlink, appVars>>

Rov == INSTANCE LumenEndpoint WITH
  Role <- "ROVER", Packets <- DataPackets(MaxMessages), Peers <- {"base"},
  BasePeers <- {"base"}, Heard <- Seqs, MaxTracked <- MaxMessages,
  current_sequence <- r_current_sequence, sent_packets <- r_sent_packets,
  received_sequences <- r_received_sequences, recent_naks <- r_recent_naks,
  acked_sequences <- r_acked_sequences, ack_cleanup_age <- r_ack_cleanup_age,
  check_counter <- r_check_counter, retransmit_in <- r_retransmit_in,
  cleanup_in <- r_cleanup_in, out <- r_out, since_add <- r_since_add,
  last_sent <- r_last_sent, since_received <- r_since_received,
  since_nak <- r_since_nak, since_ack <- r_since_ack

Bas == INSTANCE LumenEndpoint WITH
  Role <- "BASE_STATION", Packets <- DataPackets(MaxCommands),
  Peers <- {"rover"}, BasePeers <- {}, Heard <- Seqs, MaxTracked <- SeqMod,
  current_sequence <- b_current_sequence, sent_packets <- b_sent_packets,
  received_sequences <- b_received_sequences, recent_naks <- b_recent_naks,
  acked_sequences <- b_acked_sequences, ack_cleanup_age <- b_ack_cleanup_age,
  check_counter <- b_check_counter, retransmit_in <- b_retransmit_in,
  cleanup_in <- b_cleanup_in, out <- b_out, since_add <- b_since_add,
  last_sent <- b_last_sent, since_received <- b_since_received,
  since_nak <- b_since_nak, since_ack <- b_since_ack

Init ==
  /\ Rov!Init
  /\ Bas!Init
  /\ uplink = <<>>
  /\ downlink = <<>>
  /\ messages = 0
  /\ commands = 0
  /\ arrived = <<>>
  /\ executed = <<>>
  /\ confirmed = {}
  /\ base_lost = FALSE

-----------------------------------------------------------------------------
(* The network.                                                            *)

Data(s, n) == [type |-> "DATA", seq |-> s, body |-> n]
Control(t, s, n) == [type |-> t, seq |-> s, number |-> n]

\* The network ch without the packet at place i.
Without(ch, i) == SubSeq(ch, 1, i - 1) \o SubSeq(ch, i + 1, Len(ch))

\* The network ch after the packets ps have been sent into it.
Entered(ch, ps) ==
  IF Len(ch) + Len(ps) <= Capacity THEN ch \o ps ELSE ch

\* The places of ch the next packet to arrive can be at.
Arriving(ch) == IF Reorders THEN DOMAIN ch ELSE DOMAIN ch \cap {1}

LosePacket ==
  /\ Lossy
  /\ \/ \E i \in DOMAIN uplink : uplink' = Without(uplink, i) /\ UNCHANGED downlink
     \/ \E i \in DOMAIN downlink : downlink' = Without(downlink, i) /\ UNCHANGED uplink
  /\ UNCHANGED <<rovVars, basVars, appVars>>

-----------------------------------------------------------------------------
(* The rover.                                                              *)

RoverSends ==
  LET packet == Data(r_current_sequence, messages + 1) IN
  /\ messages < MaxMessages
  /\ base_lost => Survives
  /\ Rov!SendMessage(packet, "base")
  /\ uplink' = Entered(uplink, <<packet>>)
  /\ messages' = messages + 1
  /\ UNCHANGED <<basVars, downlink, commands, arrived, executed, confirmed, base_lost>>

\* The numbers ns in the order of the search for gaps.
InSearchOrder(ns) ==
  LET h == Rov!Highest(r_received_sequences'["base"])
  IN  {q \in [1 .. Cardinality(ns) -> ns] :
         \A i, j \in DOMAIN q : i < j => (h - q[i]) % SeqMod < (h - q[j]) % SeqMod}

\* The NAKs for the numbers q, in this order.
NakPackets(q) ==
  [i \in DOMAIN q |-> Control("NAK", (r_current_sequence + i - 1) % SeqMod, q[i])]

RoverReceives(i) ==
  LET p == downlink[i] IN
  /\ downlink' = Without(downlink, i)
  /\ \/ /\ p.type = "DATA"
        /\ Rov!RoverReceiveData(p.seq, "base")
        /\ \E q \in InSearchOrder({nak[1] : nak \in r_out'.naks}) :
             uplink' = Entered(uplink, NakPackets(q))
        /\ executed' = IF r_out'.forwarded = {} THEN executed
                       ELSE Append(executed, p.body)
        /\ UNCHANGED confirmed
     \/ /\ p.type = "ACK"
        /\ Rov!RoverReceiveAck(p.seq, "base", p.number)
        /\ confirmed' = confirmed \cup
             {r_sent_packets[s].packet.body : s \in {t \in r_out'.acked : Rov!Tracked(t)}}
        /\ UNCHANGED <<uplink, executed>>
  /\ UNCHANGED <<basVars, messages, commands, arrived, base_lost>>

\* The packets ps in the order of their numbers.
InNumberOrder(ps) ==
  {q \in [1 .. Cardinality(ps) -> ps] :
     \A i, j \in DOMAIN q : i < j => q[i].seq < q[j].seq}

\* The timer of the rover: what it sends again, and whether it reports the base
\* station lost.
RoverRetransmits ==
  /\ Rov!HandleRetransmissionTimer
  /\ \E q \in InNumberOrder({x[1] : x \in r_out'.resent}) : uplink' = Entered(uplink, q)
  /\ base_lost' = (base_lost \/ r_out'.timed_out # {})
  /\ UNCHANGED <<basVars, downlink, messages, commands, arrived, executed, confirmed>>

RoverCleansUp ==
  /\ Rov!HandleCleanupTimer
  /\ UNCHANGED <<basVars, uplink, downlink, appVars>>

\* The reset that the report brings about (Rover::handle_base_disconnect).
RoverResets ==
  /\ Survives
  /\ base_lost
  /\ Rov!ResetSequenceNumber
  /\ base_lost' = FALSE
  /\ UNCHANGED <<basVars, uplink, downlink, messages, commands, arrived, executed,
                 confirmed>>

-----------------------------------------------------------------------------
(* The base station.                                                       *)

BaseSends ==
  LET packet == Data(b_current_sequence, commands + 1) IN
  /\ commands < MaxCommands
  /\ Bas!SendMessage(packet, "rover")
  /\ downlink' = Entered(downlink, <<packet>>)
  /\ commands' = commands + 1
  /\ UNCHANGED <<rovVars, uplink, messages, arrived, executed, confirmed, base_lost>>

BaseReceives(i) ==
  LET p == uplink[i] IN
  /\ uplink' = Without(uplink, i)
  /\ \/ /\ p.type = "DATA"
        /\ Bas!BaseReceiveData(p.seq, "rover", TRUE)
        /\ downlink' = Entered(downlink,
                               <<Control("ACK", b_current_sequence, p.seq)>>)
        /\ arrived' = IF b_out'.forwarded = {} THEN arrived
                      ELSE Append(arrived, p.body)
     \/ /\ p.type = "NAK"
        /\ Bas!BaseReceiveNak(p.seq, "rover", p.number)
        /\ \E q \in InNumberOrder({x[1] : x \in b_out'.resent}) :
             downlink' = Entered(downlink, q)
        /\ UNCHANGED arrived
  /\ UNCHANGED <<rovVars, messages, commands, executed, confirmed, base_lost>>

BaseTimers ==
  /\ Bas!HandleRetransmissionTimer \/ Bas!HandleCleanupTimer
  /\ UNCHANGED <<rovVars, uplink, downlink, appVars>>

-----------------------------------------------------------------------------
\* Time passes for both; a rover that does not survive the loss of its base
\* station ends there.
Tick ==
  /\ Prompt => uplink = <<>> /\ downlink = <<>>
  /\ base_lost => Survives
  /\ Rov!Tick
  /\ Bas!Tick
  /\ UNCHANGED <<uplink, downlink, appVars>>

\* What happens within one session in which the base station gives no command.
MessageNext ==
  \/ RoverSends
  \/ \E i \in Arriving(downlink) : RoverReceives(i)
  \/ RoverRetransmits
  \/ RoverCleansUp
  \/ \E i \in Arriving(uplink) : BaseReceives(i)
  \/ BaseTimers
  \/ LosePacket
  \/ Tick

Next ==
  \/ MessageNext
  \/ RoverResets
  \/ BaseSends

Spec == Init /\ [][Next]_vars

\* Time passes, timers that are due are served, and what is in the network
\* arrives or is lost.
Fairness ==
  /\ WF_vars(Tick)
  /\ WF_vars(RoverRetransmits)
  /\ WF_vars(RoverCleansUp)
  /\ WF_vars(BaseTimers)
  /\ WF_vars(\E i \in Arriving(downlink) : RoverReceives(i))
  /\ WF_vars(\E i \in Arriving(uplink) : BaseReceives(i))

\* A session under fairness: DeliveryContract promises nothing beyond one.
FairSpec == Init /\ [][MessageNext]_vars /\ Fairness

-----------------------------------------------------------------------------
(* What the link promises to the applications.                             *)

Delivery == INSTANCE DeliveryContract WITH
  Messages <- 1 .. MaxMessages,
  sent     <- 1 .. messages,
  passed   <- Fn!Range(arrived),
  held     <- confirmed,
  lost     <- base_lost

\* As long as no number is used for a second message, sending, acknowledging,
\* retransmitting and forgetting implement DeliveryContract: above all, what
\* process_ack takes off sent_packets_ has been passed on by
\* process_complete_packet at the base station, although that one drops what it
\* takes for a duplicate.
ImplementsDelivery == Delivery!Spec

\* Every message is acknowledged in the end, or the base station is reported
\* lost: neither lost packets nor lost ACKs leave a message hanging.
EveryMessageSettles == Delivery!EverySettles

\* What the rover holds for delivered has arrived: "guaranteed in-order delivery
\* over UDP".
ConfirmedArrived == confirmed \subseteq Fn!Range(arrived)

\* Commands are passed on in the order they were sent in, by a network that
\* neither loses nor reorders anything: "guaranteed in-order delivery over UDP".
ExecutedInOrder ==
  \A i, j \in DOMAIN executed : i < j => executed[i] <= executed[j]

\* Over a network that keeps the order, asking for missing packets does no harm
\* while the rover's memory lasts: a command is passed on a second time only if
\* its number was last received more than SEQUENCE_RETAIN_TIME ago.
RepeatsOnlyForgotten ==
  [][executed' # executed /\ executed'[Len(executed')] \in Fn!Range(executed)
       => r_since_received["base"][Head(downlink).seq] = Rov!Absent]_vars

=============================================================================
