---------------------------- MODULE FrameBuffer -----------------------------
(***************************************************************************)
(* What LumenProtocol does with a datagram before process_complete_packet: *)
(* handle_udp_data and process_frame_buffer (src/common/lumen_protocol.cpp)*)
(* with one frame buffer per sender, in real bytes, while datagrams may    *)
(* arrive damaged.                                                         *)
(***************************************************************************)
EXTENDS LumenPacket, FiniteSets

LOCAL INSTANCE SequencesExt

CONSTANTS
  Endpoints,               \* senders
  Packets,                 \* the packets they send
  Damaged,                 \* what may arrive instead of one, damaged or cut off
  Others,                  \* datagrams that do not start with STX
  IsMessage(_),            \* the datagram is the JSON text of a message
  IsText(_),               \* the datagram is UTF-8
  MAX_FRAME_BUFFER_SIZE

LeftBrace == 123

VARIABLES
  frame_buffers,    \* frame_buffers_
  out,              \* what the last datagram led to, for the properties
  since_damage      \* history: bytes received intact since the last damage

vars == <<frame_buffers, out, since_damage>>

Nothing == [datagram |-> <<>>, from |-> {}, packets |-> <<>>, messages |-> <<>>]

\* LumenProtocol::start.
Init ==
  /\ frame_buffers = [e \in Endpoints |-> <<>>]
  /\ out = Nothing
  /\ since_damage = [e \in Endpoints |-> 0]

-----------------------------------------------------------------------------
(* process_frame_buffer.                                                   *)

Drop(bytes, n) == SubSeq(bytes, n + 1, Len(bytes))

\* Where the next packet may start: the offsets of an STX that is not the first
\* byte.
NextStx(buffer) == {i \in 1 .. Len(buffer) - 1 : At(buffer, i) = LUMEN_STX}

\* Plausible slip: nothing is cleared.
ClearedNever(buffer, limit) == buffer

Cleared(buffer, limit) == IF Len(buffer) > limit THEN <<>> ELSE buffer

\* The loop: what is left of the buffer and the packets found, after the ones
\* found before.  A packet that was parsed is not longer than the buffer, so the
\* branch for an internal error is never taken.
RECURSIVE Consume(_, _)
Consume(buffer, found) ==
  LET packet   == FromBytes(buffer)
      header   == HeaderFromBytes(buffer)
      declared == TotalSize(header.payload_length)
      skipped  == CHOOSE i \in NextStx(buffer) : \A j \in NextStx(buffer) : i <= j
  IN  CASE buffer = <<>> -> [buffer |-> buffer, packets |-> found]
        [] packet # Nullopt ->
             Consume(Drop(buffer, TotalSize(Len(packet.payload))), Append(found, packet))
        [] packet = Nullopt /\ header # Nullopt /\ Len(buffer) >= declared ->
             Consume(Drop(buffer, declared), found)
        [] packet = Nullopt /\ header # Nullopt /\ Len(buffer) < declared ->
             [buffer |-> buffer, packets |-> found]
        [] header = Nullopt /\ buffer # <<>> /\ NextStx(buffer) # {} ->
             Consume(Drop(buffer, skipped), found)
        [] header = Nullopt /\ buffer # <<>> /\ NextStx(buffer) = {} ->
             [buffer  |-> Cleared(buffer, MAX_FRAME_BUFFER_SIZE \div 2),
              packets |-> found]

ProcessFrameBuffer(buffer) ==
  LET done == Consume(buffer, <<>>)
  IN  [done EXCEPT !.buffer = Cleared(@, MAX_FRAME_BUFFER_SIZE)]

-----------------------------------------------------------------------------
(* handle_udp_data.                                                        *)

\* get_endpoint_key: every sender has a buffer of its own.
Key(e) == e

\* A datagram d of e that starts with STX goes through the frame buffer.
HandlePacketData(e, d) ==
  LET done == ProcessFrameBuffer(frame_buffers[Key(e)] \o d) IN
  /\ frame_buffers' = [frame_buffers EXCEPT ![Key(e)] = done.buffer]
  /\ out' = [datagram |-> d, from |-> {e}, packets |-> done.packets,
             messages |-> <<>>]

\* Any other is a message in JSON, or its text becomes a BasicMessage, which
\* cannot be written if it is not UTF-8.
HandleOtherData(e, d) ==
  /\ out' = [datagram |-> d, from |-> {e}, packets |-> <<>>,
             messages |-> IF d[1] = LeftBrace /\ IsMessage(d) THEN <<"json">>
                          ELSE IF IsText(d) THEN <<"wrapped">> ELSE <<>>]
  /\ UNCHANGED <<frame_buffers, since_damage>>

Receive(e) ==
  \/ \E p \in Packets :
       /\ HandlePacketData(e, ToBytes(p))
       /\ since_damage' = [since_damage EXCEPT
                             ![e] = IF @ > 2 * MAX_FRAME_BUFFER_SIZE THEN @
                                    ELSE @ + Len(ToBytes(p))]
  \/ \E d \in Damaged :
       /\ HandlePacketData(e, d)
       /\ since_damage' = [since_damage EXCEPT ![e] = 0]
  \/ \E d \in Others : HandleOtherData(e, d)

\* reset_sequence_number drops the frame buffers.
ResetSequenceNumber ==
  /\ frame_buffers' = [e \in Endpoints |-> <<>>]
  /\ out' = Nothing
  /\ UNCHANGED since_damage

Next ==
  \/ \E e \in Endpoints : Receive(e)
  \/ ResetSequenceNumber

Spec == Init /\ [][Next]_vars

-----------------------------------------------------------------------------
(* What the framing promises.                                              *)

\* The type invariant, with the bound that MAX_FRAME_BUFFER_SIZE sets on what
\* is kept between two datagrams.
TypeOK ==
  /\ \A e \in Endpoints : /\ frame_buffers[e] \in Seq(Byte)
                          /\ Len(frame_buffers[e]) <= MAX_FRAME_BUFFER_SIZE
  /\ since_damage \in [Endpoints -> Nat]

\* Nothing is made up: every packet passed on is one that a peer sent, although
\* it may be cut out of the remains of damaged datagrams and the beginnings of
\* intact ones.
NothingInvented ==
  [][\A i \in DOMAIN out'.packets : out'.packets[i] \in Packets]_vars

\* The damage is over after a while: when an endpoint has received twice
\* MAX_FRAME_BUFFER_SIZE without damage, its buffer is in step again and every
\* datagram is passed on whole.
ResynchronisesInTime ==
  \A e \in Endpoints :
    since_damage[e] > 2 * MAX_FRAME_BUFFER_SIZE => frame_buffers[e] = <<>>

=============================================================================
