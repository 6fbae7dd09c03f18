---------------------------- MODULE MCLumenPacket ---------------------------
(***************************************************************************)
(* The packet format checked on bounded inputs: a packet of a sample is    *)
(* written, bits of it are flipped on the way, and it is read.             *)
(***************************************************************************)
EXTENDS LumenPacket, FiniteSets, FiniteSetsExt

CONSTANT MaxFlips   \* bound of the model: bits flipped in one packet

VARIABLES
  packet,    \* the packet sent
  wire,      \* its bytes on the way
  flips      \* the bits flipped, counted from the first bit of the first byte

formatVars == <<packet, wire, flips>>

\* Every message type and priority in use, the extreme numbers, bytes that look
\* like markers, and timestamps with all bytes different.
Sample ==
  {[type |-> t, priority |-> 2, sequence |-> s, timestamp |-> <<258, 772>>,
    payload |-> pl] : t \in {0, 5}, s \in {2, 255}, pl \in {<<>>, <<123, 2, 125>>}}
  \cup
  {[type |-> t, priority |-> pr, sequence |-> 0, timestamp |-> <<65535, 0>>,
    payload |-> <<t>>] : t \in 1 .. 4, pr \in 0 .. 1}

Written ==
  /\ packet \in Sample
  /\ wire = ToBytes(packet)
  /\ flips = {}

\* Bit b is flipped, bits in the order they are in.
Flip(b) ==
  LET i == b \div 8 + 1
      v == 2^(7 - (b % 8)) IN
  /\ Cardinality(flips) < MaxFlips
  /\ \A c \in flips : c < b
  /\ wire' = [wire EXCEPT ![i] = @ ^^ v]
  /\ flips' = flips \cup {b}
  /\ UNCHANGED packet

Damage == \E b \in 0 .. 8 * Len(wire) - 1 : Flip(b)

-----------------------------------------------------------------------------
(* The reference for the checksum: polynomials over the field of two       *)
(* elements, as the sets of their exponents.                               *)

Plus(p, q) == (p \ q) \cup (q \ p)

Odd(S) == Cardinality(S) % 2 = 1

Times(p, q) ==
  {k \in 0 .. 14 : Odd({ij \in p \X q : ij[1] + ij[2] = k})}

\* A polynomial of degree below 15 modulo x^8 + x^2 + x + 1.
RECURSIVE Reduced(_, _)
Reduced(p, k) ==
  IF k < 8 THEN p
  ELSE Reduced(IF k \in p THEN Plus(p, {k, k - 6, k - 7, k - 8}) ELSE p, k - 1)

\* x^k modulo x^8 + x^2 + x + 1.
RECURSIVE Power(_)
Power(k) ==
  IF k < 8 THEN {k}
  ELSE Reduced(Times(Power(k \div 2), Power(k - k \div 2)), 14)

\* ... for the bits of the longest packet of the sample, times x^8.
Powers == [k \in 0 .. 8 * TotalSize(3) + 7 |-> Power(k)]

\* The bytes as a polynomial, the first bit being the highest power.
Polynomial(bytes) ==
  {k \in 0 .. 8 * Len(bytes) - 1 :
     (bytes[Len(bytes) - k \div 8] \div 2^(k % 8)) % 2 = 1}

\* The remainder of the bytes times x^8, as a number.
Remainder(bytes) ==
  SumSet({2^j : j \in {i \in 0 .. 7 :
                         Odd({k \in Polynomial(bytes) : i \in Powers[k + 8]})}})

-----------------------------------------------------------------------------
(* Properties.                                                             *)

\* calculate_crc8 computes what its comment says, the remainder of the bytes
\* times x^8 by "polynomial: 0x07 (x^8 + x^2 + x + 1)", whatever the bytes are.
CrcIsRemainder ==
  CalculateCrc8(wire) = Remainder(wire)

\* A packet with a damaged bit or two is never read as another one: from_bytes
\* rejects it, unless the length is damaged, which decides where the checksum
\* is looked for.
DamageDetected ==
  (flips # {} /\ \A b \in flips : b \div 8 \notin LUMEN_LEN_POS .. LUMEN_LEN_POS + 1)
    => FromBytes(wire) = Nullopt

=============================================================================
