---------------------------- MODULE LumenEndpoint ---------------------------
(***************************************************************************)
(* One end of the LUMEN protocol: LumenProtocol (src/common/               *)
(* lumen_protocol.cpp) with its ReliabilityManager (src/common/            *)
(* reliability_manager.cpp), in either role, against a peer that may send  *)
(* anything.                                                               *)
(*                                                                         *)
(* Time is discrete.  The code stores time points and compares the time    *)
(* elapsed since; the model stores the elapsed time itself, an age that    *)
(* every Tick increases.  An io_context that keeps up is assumed: time     *)
(* does not pass a timer that is due.                                      *)
(***************************************************************************)
EXTENDS Integers, Sequences, FiniteSets

CONSTANTS
  Role,                      \* "ROVER" or "BASE_STATION"
  SeqMod,                    \* sequence numbers are 0 .. SeqMod - 1 (uint8_t: 256)
  Packets,                   \* what send_message may be asked to send
  Peers,                     \* endpoints of peers
  BasePeers,                 \* those whose port is 9000
  Heard,                     \* sequence numbers the peer's packets carry
  RELIABILITY_MAX_RETRIES,   \* configs.hpp, times in ticks
  RELIABILITY_BASE_TIMEOUT,
  RELIABILITY_CHECK_INTERVAL,
  NAK_DEBOUNCE_TIME,
  CLEANUP_INTERVAL,
  SEQUENCE_RETAIN_TIME,
  WINDOW_SIZE,
  MAX_NAKS_PER_CHECK,
  PacketsPerCheck,           \* data packets between two gap checks, 5 in the code
  MaxTracked,                \* bound of the model: packets tracked at a time
  NoEntry                    \* no packet

Seqs == 0 .. SeqMod - 1

\* 1 << k.
Shift[k \in Nat] == IF k = 0 THEN 1 ELSE 2 * Shift[k - 1]

\* Plausible slips: the backoff starts one step late; it does not grow.
TimeoutDoubled(k) == RELIABILITY_BASE_TIMEOUT * Shift[k + 1]
TimeoutConstant(k) == RELIABILITY_BASE_TIMEOUT + 0 * k

\* base * 2^retry_count, the exponential backoff.
Timeout(k) == RELIABILITY_BASE_TIMEOUT * Shift[k]

\* The base station never looks at the age of a packet it has sent.
SentLimit == IF Role = "ROVER" THEN Timeout(RELIABILITY_MAX_RETRIES) ELSE -1

SentPacketInfo == [packet : Packets, age : 0 .. SentLimit + 1,
                   retry_count : 0 .. RELIABILITY_MAX_RETRIES, recipient : Peers]

ASSUME EndpointAssumption ==
  /\ Role \in {"ROVER", "BASE_STATION"}
  /\ SeqMod \in Nat \ {0}
  /\ Peers # {}
  /\ BasePeers \subseteq Peers
  /\ Heard \subseteq Seqs
  /\ RELIABILITY_MAX_RETRIES \in Nat
  /\ RELIABILITY_CHECK_INTERVAL \in Nat \ {0}
  /\ CLEANUP_INTERVAL \in Nat \ {0}
  /\ NAK_DEBOUNCE_TIME \in Nat \ {0}
  /\ SEQUENCE_RETAIN_TIME \in Nat
  /\ WINDOW_SIZE \in 0 .. SeqMod - 1
  /\ MAX_NAKS_PER_CHECK \in Nat \ {0}
  /\ PacketsPerCheck \in Nat \ {0}
  /\ RELIABILITY_BASE_TIMEOUT \in Nat
  /\ RELIABILITY_CHECK_INTERVAL <= RELIABILITY_BASE_TIMEOUT
  /\ NoEntry \notin Packets
  /\ NoEntry \notin SentPacketInfo

VARIABLES
  current_sequence,    \* LumenProtocol::current_sequence_
  sent_packets,        \* sent_packets_: an entry or NoEntry for each number
  received_sequences,  \* received_sequences_: ages, by peer
  recent_naks,         \* recent_naks_: ages
  acked_sequences,     \* acked_sequences_: sets, by peer
  ack_cleanup_age,     \* time since last_ack_cleanup_time_
  check_counter,       \* check_counter of process_complete_packet, a uint8_t
  retransmit_in,       \* time until retransmit_timer_ expires
  cleanup_in,          \* time until cleanup_timer_ expires
  out,                 \* what the last step did, for the properties
  since_add,           \* history: time since a tracked packet was sent
  last_sent,           \* history: the packet last sent under a number
  since_received,      \* history: time since a number was received, if recent
  since_nak,           \* history: time since a number was asked for, if recent
  since_ack            \* history: time since a remembered number was acknowledged

trackVars   == <<sent_packets, since_add, last_sent>>
receiveVars == <<received_sequences, since_received, check_counter>>
nakVars     == <<recent_naks, since_nak>>
ackVars     == <<acked_sequences, since_ack, ack_cleanup_age>>
timerVars   == <<retransmit_in, cleanup_in>>
vars == <<current_sequence, trackVars, receiveVars, nakVars, ackVars, timerVars, out>>

\* The age of something that is not recorded.
Absent == -1

\* Ages that are only compared with limit: they stop just above it.
Ages(limit) == Absent .. limit + 1
Older(a, limit) == IF a = Absent \/ a > limit THEN a ELSE a + 1

\* Times that are forgotten once they exceed limit.
Since(limit) == Absent .. limit
Later(a, limit) == IF a \in {Absent, limit} THEN Absent ELSE a + 1

Effects == [resent : SUBSET (Packets \X Peers), timed_out : SUBSET Peers,
            gave_up : SUBSET Seqs, naks : SUBSET (Seqs \X Peers), acked : SUBSET Seqs,
            forwarded : SUBSET Seqs, reset : BOOLEAN]

Nothing == [resent |-> {}, timed_out |-> {}, gave_up |-> {}, naks |-> {},
            acked |-> {}, forwarded |-> {}, reset |-> FALSE]

\* The type invariant.
TypeOK ==
  /\ current_sequence \in Seqs
  /\ sent_packets \in [Seqs -> SentPacketInfo \cup {NoEntry}]
  /\ received_sequences \in [Peers -> [Seqs -> Ages(SEQUENCE_RETAIN_TIME)]]
  /\ recent_naks \in [Seqs -> Ages(2 * NAK_DEBOUNCE_TIME)]
  /\ acked_sequences \in [Peers -> SUBSET Seqs]
  /\ ack_cleanup_age \in 0 .. 2 * CLEANUP_INTERVAL + 1
  /\ check_counter \in 0 .. SeqMod - 1
  /\ retransmit_in \in 0 .. 2 * RELIABILITY_CHECK_INTERVAL
  /\ cleanup_in \in 0 .. 2 * CLEANUP_INTERVAL
  /\ out \in Effects
  /\ since_add \in [Seqs -> Nat]
  /\ last_sent \in [Seqs -> Packets \cup {NoEntry}]
  /\ since_received \in [Peers -> [Seqs -> Since(SEQUENCE_RETAIN_TIME)]]
  /\ since_nak \in [Seqs -> Since(NAK_DEBOUNCE_TIME - 1)]
  /\ since_ack \in [Peers -> [Seqs -> Ages(3 * CLEANUP_INTERVAL)]]

\* LumenProtocol::start and ReliabilityManager::start.  The timers were given
\* their first expiry by the constructor and are moved on by a full interval;
\* the first cleanup resets last_ack_cleanup_time_.
Init ==
  /\ current_sequence = 0
  /\ sent_packets = [s \in Seqs |-> NoEntry]
  /\ received_sequences = [e \in Peers |-> [s \in Seqs |-> Absent]]
  /\ recent_naks = [s \in Seqs |-> Absent]
  /\ acked_sequences = [e \in Peers |-> {}]
  /\ ack_cleanup_age = 0
  /\ check_counter = 0
  /\ retransmit_in = 2 * RELIABILITY_CHECK_INTERVAL
  /\ cleanup_in = 2 * CLEANUP_INTERVAL
  /\ out = Nothing
  /\ since_add = [s \in Seqs |-> 0]
  /\ last_sent = [s \in Seqs |-> NoEntry]
  /\ since_received = [e \in Peers |-> [s \in Seqs |-> Absent]]
  /\ since_nak = [s \in Seqs |-> Absent]
  /\ since_ack = [e \in Peers |-> [s \in Seqs |-> Absent]]

Tracked(s) == sent_packets[s] # NoEntry

-----------------------------------------------------------------------------
(* Sending: LumenProtocol::send_message and                                *)
(* ReliabilityManager::add_send_packet.                                    *)

\* emplace: an entry that is still there under the same number stays.
AddSendPacket(s, p, e) ==
  IF Tracked(s) THEN sent_packets
  ELSE [sent_packets EXCEPT ![s] =
          [packet |-> p, age |-> 0, retry_count |-> 0, recipient |-> e]]

SendMessage(p, e) ==
  LET s == current_sequence
  IN  /\ Cardinality({t \in Seqs \ {s} : Tracked(t)}) < MaxTracked
      /\ current_sequence' = (s + 1) % SeqMod
      /\ sent_packets' = AddSendPacket(s, p, e)
      /\ last_sent' = [last_sent EXCEPT ![s] = p]
      /\ out' = Nothing
      /\ UNCHANGED <<since_add, receiveVars, nakVars, ackVars, timerVars>>

-----------------------------------------------------------------------------
(* Receiving: LumenProtocol::process_complete_packet.                      *)

\* ReliabilityManager::record_received_sequence, done for every packet.
RecordReceived(s, e) ==
  /\ received_sequences' = [received_sequences EXCEPT ![e][s] = 0]
  /\ since_received' = [since_received EXCEPT ![e][s] = 0]

\* Plausible slip: an ACK is taken for an ACK of every number up to a.
RoverReceiveAckCumulative(s, e, a) ==
  /\ Role = "ROVER"
  /\ RecordReceived(s, e)
  /\ sent_packets' = [t \in Seqs |-> IF t <= a THEN NoEntry ELSE sent_packets[t]]
  /\ since_add' = [t \in Seqs |-> IF t <= a THEN 0 ELSE since_add[t]]
  /\ out' = [Nothing EXCEPT !.acked = 0 .. a]
  /\ UNCHANGED <<current_sequence, last_sent, check_counter, nakVars,
                 ackVars, timerVars>>

\* An ACK for number a, itself numbered s.
RoverReceiveAck(s, e, a) ==
  /\ Role = "ROVER"
  /\ RecordReceived(s, e)
  /\ sent_packets' = [sent_packets EXCEPT ![a] = NoEntry]
  /\ since_add' = [since_add EXCEPT ![a] = 0]
  /\ out' = [Nothing EXCEPT !.acked = {a}]
  /\ UNCHANGED <<current_sequence, last_sent, check_counter, nakVars,
                 ackVars, timerVars>>

\* LumenProtocol::handle_retransmission: what is sent again for the entries of
\* the numbers in ss, each packet unchanged.
Resent(ss) == {<<sent_packets[s].packet, sent_packets[s].recipient>> : s \in ss}

\* A NAK for number n: the base sends the packet it holds for n once more.
BaseReceiveNak(s, e, n) ==
  /\ Role = "BASE_STATION"
  /\ RecordReceived(s, e)
  /\ out' = [Nothing EXCEPT !.resent = Resent({t \in {n} : Tracked(t)})]
  /\ UNCHANGED <<current_sequence, trackVars, check_counter, nakVars, ackVars,
                 timerVars>>

\* A control packet that is not meant for this role only leaves its number: an
\* ACK at the base station, a NAK at the rover.
IgnoreControl(s, e) ==
  /\ RecordReceived(s, e)
  /\ out' = Nothing
  /\ UNCHANGED <<current_sequence, trackVars, check_counter, nakVars, ackVars,
                 timerVars>>

\* LumenProtocol::send_ack: the ACK for s takes a number of its own.
SendAck(s, e) ==
  /\ acked_sequences' = [acked_sequences EXCEPT ![e] = @ \cup {s}]
  /\ since_ack' = IF s \in acked_sequences[e] THEN since_ack
                  ELSE [since_ack EXCEPT ![e][s] = 0]
  /\ current_sequence' = (current_sequence + 1) % SeqMod

\* A data packet at the base.  While the session is active it is recorded as
\* acknowledged and an ACK is sent, the first time and as a duplicate; otherwise
\* it is neither.  A duplicate is not passed on.
BaseReceiveData(s, e, active) ==
  LET new == {s} \ acked_sequences[e] IN
  /\ Role = "BASE_STATION"
  /\ RecordReceived(s, e)
  /\ IF active
     THEN /\ SendAck(s, e)
          /\ out' = [Nothing EXCEPT !.acked = {s}, !.forwarded = new]
     ELSE /\ out' = [Nothing EXCEPT !.forwarded = new]
          /\ UNCHANGED <<acked_sequences, since_ack, current_sequence>>
  /\ UNCHANGED <<trackVars, check_counter, nakVars, ack_cleanup_age, timerVars>>

\* ReliabilityManager::get_missing_sequences on the numbers rcv received from
\* one peer: how far below the numerically highest one the missing ones lie,
\* within the window and modulo the number space.
Received(rcv) == {s \in Seqs : rcv[s] # Absent}
Highest(rcv) == CHOOSE s \in Received(rcv) : \A t \in Received(rcv) : t <= s
Below(h, i) == (h - i) % SeqMod

IsMissing(rcv, s) == s \notin Received(rcv)

\* ReliabilityManager::is_recently_naked.
RecentlyNaked(s) == recent_naks[s] # Absent /\ recent_naks[s] < NAK_DEBOUNCE_TIME

\* LumenProtocol::check_sequence_gaps: the numbers a NAK is sent for, the ones
\* nearest to the highest first and not more than MAX_NAKS_PER_CHECK.
NaksFor(rcv) ==
  LET h       == Highest(rcv)
      askable == {i \in 1 .. WINDOW_SIZE : /\ IsMissing(rcv, Below(h, i))
                                           /\ ~RecentlyNaked(Below(h, i))}
      nearest == {i \in askable :
                    Cardinality({j \in askable : j < i}) < MAX_NAKS_PER_CHECK}
  IN  {s \in Seqs : \E i \in nearest : s = Below(h, i)}

\* LumenProtocol::send_nak and record_nak_sent for each of these numbers: every
\* NAK takes a number of its own.
SendNaks(naks) ==
  /\ recent_naks' = [t \in Seqs |-> IF t \in naks THEN 0 ELSE recent_naks[t]]
  /\ since_nak' = [t \in Seqs |-> IF t \in naks THEN 0 ELSE since_nak[t]]
  /\ current_sequence' = (current_sequence + Cardinality(naks)) % SeqMod

\* A data packet at the rover: every PacketsPerCheck-th one, by a counter that
\* wraps like the sequence numbers, triggers a look for gaps.
RoverReceiveData(s, e) ==
  LET counter == (check_counter + 1) % SeqMod
      naks    == IF counter % PacketsPerCheck = 0
                 THEN NaksFor(received_sequences'[e]) ELSE {}
  IN  /\ Role = "ROVER"
      /\ RecordReceived(s, e)
      /\ check_counter' = counter
      /\ SendNaks(naks)
      /\ out' = [Nothing EXCEPT !.naks = {<<t, e>> : t \in naks}, !.forwarded = {s}]
      /\ UNCHANGED <<trackVars, ackVars, timerVars>>

-----------------------------------------------------------------------------
(* Timers.                                                                 *)

\* The timeout of entry s has passed.
Expired(s) ==
  /\ Tracked(s)
  /\ sent_packets[s].age > Timeout(sent_packets[s].retry_count)

\* Plausible slip: one retransmission too many.
ExhaustedLate(s) ==
  /\ Expired(s)
  /\ sent_packets[s].retry_count > RELIABILITY_MAX_RETRIES

\* ... and it has been retransmitted as often as allowed.
Exhausted(s) ==
  /\ Expired(s)
  /\ sent_packets[s].retry_count >= RELIABILITY_MAX_RETRIES

\* Plausible slip: the port is compared the wrong way round.
ReportedOthers(gone) == {sent_packets[s].recipient : s \in gone} \ BasePeers

\* The recipients whose loss is reported with the numbers given up.
Reported(gone) == {sent_packets[s].recipient : s \in gone} \cap BasePeers

\* ReliabilityManager::handle_retransmission_timer with
\* get_packets_to_retransmit.  The base station only rearms the timer.
HandleRetransmissionTimer ==
  LET due  == IF Role = "ROVER" THEN {s \in Seqs : Expired(s)} ELSE {}
      gone == {s \in due : Exhausted(s)}
  IN  /\ retransmit_in = 0
      /\ retransmit_in' = RELIABILITY_CHECK_INTERVAL
      /\ sent_packets' =
           [s \in Seqs |->
              IF s \in gone THEN NoEntry
              ELSE IF s \in due
              THEN [sent_packets[s] EXCEPT !.age = 0, !.retry_count = @ + 1]
              ELSE sent_packets[s]]
      /\ out' = [Nothing EXCEPT
                   !.resent = Resent(due \ gone),
                   !.timed_out = Reported(gone),
                   !.gave_up = gone]
      /\ since_add' = [s \in Seqs |-> IF s \in gone THEN 0 ELSE since_add[s]]
      /\ UNCHANGED <<current_sequence, last_sent, receiveVars, nakVars, ackVars,
                     cleanup_in>>

\* The entries of cleanup_old_entries that have had their time.
Forget(a, keep) == IF a > keep THEN Absent ELSE a

\* Plausible slips: received numbers are dropped with the NAKs; NAKs at once.
RetainReceivedAsNak == NAK_DEBOUNCE_TIME

RetainNakNot == -1

\* The times cleanup_old_entries keeps received numbers and NAKs for.
RetainReceived == SEQUENCE_RETAIN_TIME

RetainNak == 2 * NAK_DEBOUNCE_TIME

\* Plausible slip: one interval more.
AckCleanupDueLate == ack_cleanup_age > 3 * CLEANUP_INTERVAL

\* acked_sequences_ is emptied as a whole once two intervals have passed.
AckCleanupDue == ack_cleanup_age > 2 * CLEANUP_INTERVAL

\* ReliabilityManager::handle_cleanup_timer with cleanup_old_entries.
HandleCleanupTimer ==
  /\ cleanup_in = 0
  /\ cleanup_in' = CLEANUP_INTERVAL
  /\ received_sequences' =
       [e \in Peers |-> [s \in Seqs |-> Forget(received_sequences[e][s], RetainReceived)]]
  /\ recent_naks' = [s \in Seqs |-> Forget(recent_naks[s], RetainNak)]
  /\ IF AckCleanupDue
     THEN /\ acked_sequences' = [e \in Peers |-> {}]
          /\ since_ack' = [e \in Peers |-> [s \in Seqs |-> Absent]]
          /\ ack_cleanup_age' = 0
     ELSE UNCHANGED ackVars
  /\ out' = Nothing
  /\ UNCHANGED <<current_sequence, trackVars, since_received, check_counter,
                 since_nak, retransmit_in>>

\* LumenProtocol::reset_sequence_number with ReliabilityManager::reset_state.
ResetSequenceNumber ==
  /\ Role = "ROVER"
  /\ current_sequence' = 0
  /\ sent_packets' = [s \in Seqs |-> NoEntry]
  /\ received_sequences' = [e \in Peers |-> [s \in Seqs |-> Absent]]
  /\ recent_naks' = [s \in Seqs |-> Absent]
  /\ acked_sequences' = [e \in Peers |-> {}]
  /\ since_received' = [e \in Peers |-> [s \in Seqs |-> Absent]]
  /\ since_nak' = [s \in Seqs |-> Absent]
  /\ since_add' = [s \in Seqs |-> 0]
  /\ out' = [Nothing EXCEPT !.reset = TRUE]
  /\ UNCHANGED <<last_sent, since_ack, ack_cleanup_age, check_counter,
                 timerVars>>

\* Time passes, up to the next timer.
Tick ==
  /\ retransmit_in > 0
  /\ cleanup_in > 0
  /\ retransmit_in' = retransmit_in - 1
  /\ cleanup_in' = cleanup_in - 1
  /\ sent_packets' = [s \in Seqs |-> IF Tracked(s)
                                     THEN [sent_packets[s] EXCEPT !.age = Older(@, SentLimit)]
                                     ELSE NoEntry]
  /\ since_add' = [s \in Seqs |-> IF Tracked(s) /\ Role = "ROVER"
                                  THEN since_add[s] + 1 ELSE since_add[s]]
  /\ received_sequences' =
       [e \in Peers |-> [s \in Seqs |-> Older(received_sequences[e][s], SEQUENCE_RETAIN_TIME)]]
  /\ since_received' =
       [e \in Peers |-> [s \in Seqs |-> Later(since_received[e][s], SEQUENCE_RETAIN_TIME)]]
  /\ recent_naks' = [s \in Seqs |-> Older(recent_naks[s], 2 * NAK_DEBOUNCE_TIME)]
  /\ since_nak' = [s \in Seqs |-> Later(since_nak[s], NAK_DEBOUNCE_TIME - 1)]
  /\ since_ack' =
       [e \in Peers |-> [s \in Seqs |-> Older(since_ack[e][s], 3 * CLEANUP_INTERVAL)]]
  /\ ack_cleanup_age' = Older(ack_cleanup_age, 2 * CLEANUP_INTERVAL)
  /\ out' = Nothing
  /\ UNCHANGED <<current_sequence, last_sent, acked_sequences, check_counter>>

-----------------------------------------------------------------------------

\* A packet of the peer arrives.
Receive ==
  \E s \in Heard, e \in Peers :
    \/ IgnoreControl(s, e)
    \/ RoverReceiveData(s, e)
    \/ \E a \in Seqs : RoverReceiveAck(s, e, a)
    \/ \E n \in Seqs : BaseReceiveNak(s, e, n)
    \/ \E active \in BOOLEAN : BaseReceiveData(s, e, active)

Next ==
  \/ \E p \in Packets, e \in Peers : SendMessage(p, e)
  \/ Receive
  \/ HandleRetransmissionTimer
  \/ HandleCleanupTimer
  \/ ResetSequenceNumber
  \/ Tick

Spec == Init /\ [][Next]_vars

-----------------------------------------------------------------------------
(* What the reliability layer promises.                                    *)

\* The time all attempts of one packet take, 35 seconds in the code.
AttemptTime == RELIABILITY_BASE_TIMEOUT * (Shift[RELIABILITY_MAX_RETRIES + 1] - 1)

\* The loss of the peer is noticed in time: no packet of a rover stays
\* unacknowledged in sent_packets_ for longer than all its backoff timeouts and
\* one check interval for each (get_packets_to_retransmit compares with >).
DetectionDeadline ==
  Role = "ROVER" =>
    \A s \in Seqs : Tracked(s) =>
      since_add[s] <= AttemptTime
                      + (RELIABILITY_MAX_RETRIES + 1) * RELIABILITY_CHECK_INTERVAL

\* ... and not too early: a packet is given up, and the rover told to disconnect,
\* only when every attempt has had its full timeout.
NoHastyGiveUp ==
  [][\A s \in out'.gave_up : since_add[s] > AttemptTime]_vars

\* No packet to the base station vanishes silently: it leaves sent_packets_
\* with an ACK, with a reset of the protocol, or with a report to the rover
\* that the base station is lost.
NeverSilentlyDropped ==
  [][\A s \in Seqs :
       Tracked(s) /\ ~Tracked(s)' /\ sent_packets[s].recipient \in BasePeers
         => \/ s \in out'.acked
            \/ out'.reset
            \/ sent_packets[s].recipient \in out'.timed_out]_vars

\* The same number is not asked for twice within NAK_DEBOUNCE_TIME, although
\* the cleanup forgets NAKs on a timer of its own.
NakDebounced ==
  [][\A nak \in out'.naks : since_nak[nak[1]] = Absent]_vars

\* A rover never asks a peer for a number it received from that peer within
\* SEQUENCE_RETAIN_TIME, although the cleanup forgets received numbers.
NakOnlyMissing ==
  [][\A nak \in out'.naks : since_received'[nak[2]][nak[1]] = Absent]_vars

\* An acknowledged number is remembered for three cleanup intervals at most, so
\* a rover that reuses it later is not mistaken for a duplicate.
DuplicateMemoryBounded ==
  \A e \in Peers : \A s \in acked_sequences[e] :
    since_ack[e][s] <= 3 * CLEANUP_INTERVAL

\* What is held for a number is the packet last sent under it: add_send_packet
\* stores "packet details for potential retransmission or nak handling".
HoldsWhatWasSent ==
  \A s \in Seqs : Tracked(s) => sent_packets[s].packet = last_sent[s]

=============================================================================
