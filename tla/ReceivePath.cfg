\* A socket with errors, sends and a stop at any time; packets with two bits
\* flipped; a sender whose datagrams arrive damaged; and every class of messages.
SPECIFICATION PathSpec
CONSTANTS
  Kinds = {"client", "server"}
  Data <- MCData
  Garbage = garbage
  Room = 1
  MaxSends = 2
  MaxFlips = 2
INVARIANTS
  
  OneReceive
  CrcIsRemainder
  
  ResynchronisesInTime
PROPERTIES
  ClientListens
  
  ReadAsSent
  RawTextPassedOnce
CHECK_DEADLOCK FALSE
