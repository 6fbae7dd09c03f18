----------------------------- MODULE MCDatagrams ----------------------------
(***************************************************************************)
(* Datagrams for a small instance of FrameBuffer: packets as short as they *)
(* can be.                                                                 *)
(***************************************************************************)
EXTENDS LumenPacket

\* A status report and a command; 2 is also the STX: the type DATA, the priority
\* HIGH and the number 2 look like the start of a packet.
MCPackets ==
  {[type |-> 2, priority |-> 2, sequence |-> 2, timestamp |-> <<2, 2>>,
    payload |-> <<123, 125>>],
   [type |-> 5, priority |-> 1, sequence |-> 9, timestamp |-> <<0, 7>>,
    payload |-> <<57>>]}

Flipped(bytes, pos, bit) == [bytes EXCEPT ![pos + 1] = @ ^^ bit]

\* A payload with a wrong bit, a packet that did not fit the socket's buffer, and
\* lengths with a wrong bit: four, sixteen and 256 more.
MCDamaged ==
  LET bytes(p) == ToBytes(p) IN
  UNION {{Flipped(bytes(p), LUMEN_HEADER_SIZE, 1),
          SubSeq(bytes(p), 1, Len(bytes(p)) - 2),
          Flipped(bytes(p), LUMEN_LEN_POS + 1, 4),
          Flipped(bytes(p), LUMEN_LEN_POS + 1, 16),
          Flipped(bytes(p), LUMEN_LEN_POS, 1)} : p \in MCPackets}

\* A message in JSON, a brace without one, a text, and packets whose STX has a
\* wrong bit.
MCOthers ==
  {<<123, 125>>, <<123, 65>>, <<72, 105>>}
  \cup {Flipped(ToBytes(p), LUMEN_STX_POS, 1) : p \in MCPackets}

MCIsMessage(d) == d = <<123, 125>>
MCIsText(d) == \A i \in DOMAIN d : d[i] < 128

=============================================================================
