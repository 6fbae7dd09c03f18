----------------------------- MODULE LumenPacket ----------------------------
(***************************************************************************)
(* The packet format: LumenHeader (src/common/lumen_header.cpp) and        *)
(* LumenPacket (src/common/lumen_packet.cpp), on real bytes.               *)
(*                                                                         *)
(* A header is a record; its payload_length is set by the constructor of   *)
(* LumenPacket and is therefore not a field of its own.  A uint32_t does   *)
(* not fit TLC's integers: the timestamp is the pair of its halves.        *)
(***************************************************************************)
EXTENDS Integers, Sequences, Bitwise

LUMEN_STX == 2
LUMEN_ETX == 3

\* Offsets, from 0 as in configs.hpp.
LUMEN_STX_POS       == 0
LUMEN_TYPE_POS      == 1
LUMEN_PRIO_POS      == 2
LUMEN_SEQ_POS       == 3
LUMEN_TIMESTAMP_POS == 4
LUMEN_LEN_POS       == 8
LUMEN_HEADER_SIZE   == 10

Byte == 0 .. 255

At(bytes, pos) == bytes[pos + 1]

\* No header, no packet: std::nullopt.
Nullopt == [sequence |-> -1]

\* A big-endian uint16_t read at pos.
Word(bytes, pos) == 256 * At(bytes, pos) + At(bytes, pos + 1)

\* A uint16_t as two bytes, big-endian.
WordBytes(w) == <<(w \div 256) % 256, w % 256>>

-----------------------------------------------------------------------------
(* LumenHeader.                                                            *)

\* from_bytes: the enumerations are only checked for their range.
HeaderFromBytes(bytes) ==
  IF \/ Len(bytes) < LUMEN_HEADER_SIZE
     \/ At(bytes, LUMEN_STX_POS) # LUMEN_STX
     \/ At(bytes, LUMEN_TYPE_POS) > 5
     \/ At(bytes, LUMEN_PRIO_POS) > 2
  THEN Nullopt
  ELSE [type      |-> At(bytes, LUMEN_TYPE_POS),
        priority  |-> At(bytes, LUMEN_PRIO_POS),
        sequence  |-> At(bytes, LUMEN_SEQ_POS),
        timestamp |-> <<Word(bytes, LUMEN_TIMESTAMP_POS),
                        Word(bytes, LUMEN_TIMESTAMP_POS + 2)>>,
        payload_length |-> Word(bytes, LUMEN_LEN_POS)]

HeaderToBytes(p) ==
  <<LUMEN_STX, p.type, p.priority, p.sequence>>
    \o WordBytes(p.timestamp[1]) \o WordBytes(p.timestamp[2])
    \o WordBytes(Len(p.payload) % 65536)

\* Plausible slip: the bit that is shifted out is looked for after the shift.
ShiftedLate(crc) ==
  LET c == (2 * crc) % 256 IN IF c >= 128 THEN c ^^ 7 ELSE c

\* One turn of the inner loop of calculate_crc8: polynomial 0x07 in a uint8_t.
Shifted(crc) ==
  IF crc >= 128 THEN ((2 * crc) % 256) ^^ 7 ELSE 2 * crc

\* The inner loop: eight turns, for every value it can start from.
Shifted8 ==
  [crc \in Byte |->
     LET turn[i \in 0 .. 8] == IF i = 0 THEN crc ELSE Shifted(turn[i - 1])
     IN  turn[8]]

CalculateCrc8(data) ==
  LET crc[i \in 0 .. Len(data)] ==
        IF i = 0 THEN 0 ELSE Shifted8[crc[i - 1] ^^ data[i]]
  IN  crc[Len(data)]

-----------------------------------------------------------------------------
(* LumenPacket.                                                            *)

\* The size of a packet whose payload has n bytes: CRC and ETX follow it.
TotalSize(n) == LUMEN_HEADER_SIZE + n + 2

ToBytes(p) ==
  LET covered == HeaderToBytes(p) \o p.payload
  IN  covered \o <<CalculateCrc8(covered), LUMEN_ETX>>

\* Plausible slip: the checksum is not compared.
CrcMatchesAlways(bytes, size) == TRUE

\* The stored checksum is that of all bytes before it.
CrcMatches(bytes, size) ==
  CalculateCrc8(SubSeq(bytes, 1, size - 2)) = At(bytes, size - 2)

\* from_bytes: a packet at the beginning of bytes.
FromBytes(bytes) ==
  LET h    == HeaderFromBytes(bytes)
      size == TotalSize(h.payload_length)
  IN  IF \/ h = Nullopt
         \/ Len(bytes) < size
         \/ At(bytes, size - 1) # LUMEN_ETX
         \/ ~CrcMatches(bytes, size)
      THEN Nullopt
      ELSE [type |-> h.type, priority |-> h.priority, sequence |-> h.sequence,
            timestamp |-> h.timestamp,
            payload |-> SubSeq(bytes, LUMEN_HEADER_SIZE + 1, size - 2)]

=============================================================================
