---------------------------- MODULE TransportProofs -------------------------
(***************************************************************************)
(* Transport's receive loop for every socket size and any number of sends. *)
(***************************************************************************)
EXTENDS Transport, TLAPS

\* After the stop the loop does not run.
Flags ==
  /\ running => started
  /\ stopped => started /\ ~running

\* Before the start nothing is pending, so start arms the only operation.
Counts ==
  /\ armed \in Nat
  /\ completed \in Nat
  /\ failed \in Nat
  /\ retries \in Nat
  /\ OneReceive
  /\ ~started => armed = 0 /\ completed = 0 /\ failed = 0 /\ retries = 0

LoopInv == Flags /\ Counts

LEMMA LoopInit == Init => LoopInv
  BY DEF Init, LoopInv, Flags, Counts, OneReceive

\* Flags change with start, stop and an error of the server only.
LEMMA FlagsStep == Flags /\ Next => Flags'
<1> SUFFICES ASSUME Flags, Next PROVE Flags'
  OBVIOUS
<1> USE DEF Flags, ownerVars
<1>1. CASE Start
  <2>1. started' = TRUE /\ stopped' = stopped /\ ~started
    BY <1>1 DEF Start
  <2>2. QED
    BY <2>1
<1>2. CASE Stop
  BY <1>2 DEF Stop, CloseSocket
<1>3. CASE HandleError
  BY <1>3 DEF HandleError, CloseSocket
<1>4. CASE Arrive \/ HandleDatagram \/ HandleAborted \/ RetryReceive
  BY <1>4 DEF Arrive, HandleDatagram, HandleAborted, RetryReceive
<1>5. ASSUME NEW d \in Data, Send(d)
      PROVE  Flags'
  <2>1. started' = started /\ stopped' = stopped /\ running' = running
    BY <1>5 DEF Send
  <2>2. QED
    BY <2>1
<1>6. CASE Transmit \/ WriteDeferred
  <2>1. started' = started /\ stopped' = stopped /\ running' = running
    BY <1>6 DEF Transmit, WriteDeferred
  <2>2. QED
    BY <2>1
<1>7. QED
  BY <1>1, <1>2, <1>3, <1>4, <1>5, <1>6 DEF Next

\* Every handler that takes an operation away while running puts one in its
\* place.
LEMMA CountsStep == LoopInv /\ Next => Counts'
<1> SUFFICES ASSUME LoopInv, Next PROVE Counts'
  OBVIOUS
<1> USE DEF LoopInv, Flags, Counts, OneReceive, ownerVars
<1>1. CASE Start
  BY <1>1 DEF Start
<1>2. CASE Stop
  BY <1>2 DEF Stop, CloseSocket
<1>3. CASE Arrive
  BY <1>3 DEF Arrive
<1>4. CASE HandleDatagram
  BY <1>4 DEF HandleDatagram
<1>5. CASE HandleAborted
  BY <1>5 DEF HandleAborted
<1>6. CASE HandleError
  <2>1. CASE running /\ kind = "client"
    BY <1>6, <2>1 DEF HandleError, ClientAfterError
  <2>2. CASE running /\ kind = "server"
    BY <1>6, <2>2 DEF HandleError, CloseSocket
  <2>3. CASE ~running
    BY <1>6, <2>3 DEF HandleError
  <2>4. QED
    BY <1>6, <2>1, <2>2, <2>3 DEF HandleError
<1>7. CASE RetryReceive
  BY <1>7 DEF RetryReceive
<1>8. ASSUME NEW d \in Data, Send(d)
      PROVE  Counts'
  <2>1. UNCHANGED <<started, running, armed, completed, failed, retries>>
    BY <1>8 DEF Send, receiveVars
  <2>2. QED
    BY <2>1
<1>9. CASE Transmit \/ WriteDeferred
  <2>1. UNCHANGED <<started, running, armed, completed, failed, retries>>
    BY <1>9 DEF Transmit, WriteDeferred, receiveVars
  <2>2. QED
    BY <2>1
<1>10. QED
  BY <1>1, <1>2, <1>3, <1>4, <1>5, <1>6, <1>7, <1>8, <1>9 DEF Next

LEMMA LoopStep == LoopInv /\ [Next]_vars => LoopInv'
<1> SUFFICES ASSUME LoopInv, [Next]_vars PROVE LoopInv'
  OBVIOUS
<1>1. CASE UNCHANGED vars
  BY <1>1 DEF LoopInv, Flags, Counts, OneReceive, vars, ownerVars, receiveVars
<1>2. CASE Next
  BY <1>2, FlagsStep, CountsStep DEF LoopInv
<1>3. QED
  BY <1>1, <1>2

\* While UdpClient or UdpServer runs there is exactly one receive operation or
\* one retry timer: no second operation ever writes into the shared buffer, and
\* the loop is never left without one.
THEOREM ReceiveLoopSound == Spec => []OneReceive
<1>1. LoopInv => OneReceive
  BY DEF LoopInv, Counts
<1>2. QED
  BY <1>1, LoopInit, LoopStep, PTL DEF Spec

\* No datagram reaches the callback once the owner has stopped the socket.
THEOREM StopIsQuiet == Spec => QuietAfterStop
<1>1. LoopInv /\ [Next]_vars => [stopped => ~passed']_vars
  <2> SUFFICES ASSUME LoopInv, Next, stopped
               PROVE  ~passed'
    BY DEF vars
  <2>1. ~running /\ started
    BY DEF LoopInv, Flags
  <2>2. CASE HandleDatagram
    BY <2>1, <2>2 DEF HandleDatagram, Passes
  <2>3. CASE ~HandleDatagram
    BY <2>1, <2>3 DEF Next, Start, Stop, Arrive, HandleAborted, HandleError,
                      RetryReceive, Send, Transmit, WriteDeferred
  <2>4. QED
    BY <2>2, <2>3
<1>2. QED
  BY <1>1, LoopInit, LoopStep, PTL DEF Spec, QuietAfterStop

=============================================================================
