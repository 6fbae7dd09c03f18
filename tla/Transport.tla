------------------------------ MODULE Transport -----------------------------
(***************************************************************************)
(* A socket as the two programs use it: UdpClient (src/rover/udp_client.   *)
(* cpp) and UdpServer (src/base/udp_server.cpp), with the asynchronous     *)
(* operations of boost::asio they rely on.                                 *)
(*                                                                         *)
(* A receive operation is armed, then complete with a datagram, with an    *)
(* error or because the socket was closed, and at last its handler runs.   *)
(* All operations share one buffer, so only their numbers matter.  A send  *)
(* operation writes to the socket at once if there is room, and later,     *)
(* after the function that started it has returned, if there is not.       *)
(***************************************************************************)
EXTENDS Integers, Sequences

CONSTANTS
  Kinds,       \* "client", "server"
  Data,        \* what is sent
  Garbage,     \* what freed memory may hold
  Room,        \* datagrams the socket holds
  MaxSends     \* bound of the model: sends

ASSUME TransportAssumption ==
  /\ Kinds \subseteq {"client", "server"}
  /\ Room \in Nat
  /\ MaxSends \in Nat
  /\ Data # {}

VARIABLES
  kind,        \* UdpClient or UdpServer
  started,     \* its owner has started it, once, ...
  stopped,     \* ... and stopped it
  running,     \* running_
  armed,       \* receive operations waiting for a datagram
  completed,   \* ... whose datagram is in the buffer
  failed,      \* ... that ended with an error
  aborted,     \* ... that ended with operation_aborted
  retries,     \* timers of CLIENT_RETRY_DELAY that are pending
  passed,      \* the last step ran the receive callback
  socket,      \* datagrams in the socket, with what their sender gave
  deferred,    \* send operations that wait for room
  sends        \* history: how many

receiveVars == <<armed, completed, failed, aborted, retries>>
sendVars == <<socket, deferred, sends>>
ownerVars == <<kind, started, stopped>>
vars == <<ownerVars, running, receiveVars, passed, sendVars>>

\* The socket is open until it is stopped.
IsOpen == running \/ ~started

\* The type invariant.
TypeOK ==
  /\ kind \in Kinds
  /\ started \in BOOLEAN
  /\ stopped \in BOOLEAN
  /\ running \in BOOLEAN
  /\ armed \in Nat
  /\ completed \in Nat
  /\ failed \in Nat
  /\ aborted \in Nat
  /\ retries \in Nat
  /\ passed \in BOOLEAN
  /\ socket \in Seq([given : Data, bytes : Data \cup {Garbage}])
  /\ Len(socket) <= Room
  /\ deferred \in Seq(Data)
  /\ sends \in 0 .. MaxSends

Init ==
  /\ kind \in Kinds
  /\ started = FALSE
  /\ stopped = FALSE
  /\ running = FALSE
  /\ armed = 0
  /\ completed = 0
  /\ failed = 0
  /\ aborted = 0
  /\ retries = 0
  /\ passed = FALSE
  /\ socket = <<>>
  /\ deferred = <<>>
  /\ sends = 0

-----------------------------------------------------------------------------
(* The owner: Rover or BaseStation.                                        *)

\* UdpClient::start_receive, UdpServer::start.
Start ==
  /\ ~started
  /\ started' = TRUE
  /\ running' = TRUE
  /\ armed' = armed + 1
  /\ passed' = FALSE
  /\ UNCHANGED <<kind, stopped, completed, failed, aborted, retries, sendVars>>

\* The socket is closed: what is armed or deferred completes with
\* operation_aborted.
CloseSocket ==
  /\ running' = FALSE
  /\ armed' = 0
  /\ aborted' = aborted + armed
  /\ socket' = <<>>
  /\ deferred' = <<>>

\* UdpClient::stop_receive, UdpServer::stop.
Stop ==
  /\ started
  /\ ~stopped
  /\ stopped' = TRUE
  /\ CloseSocket
  /\ passed' = FALSE
  /\ UNCHANGED <<kind, started, completed, failed, retries, sends>>

-----------------------------------------------------------------------------
(* Receiving.                                                              *)

\* A datagram, or an error, ends an armed operation.
Arrive ==
  /\ armed > 0
  /\ armed' = armed - 1
  /\ \/ completed' = completed + 1 /\ UNCHANGED failed
     \/ failed' = failed + 1 /\ UNCHANGED completed
  /\ passed' = FALSE
  /\ UNCHANGED <<ownerVars, running, aborted, retries, sendVars>>

\* The datagram is passed on, and the next operation armed, while running.
Passes == running

\* The handler of an operation that received a datagram: the callback, whose
\* exceptions stay here, and do_receive or receive_data.
HandleDatagram ==
  /\ completed > 0
  /\ completed' = completed - 1
  /\ passed' = Passes
  /\ armed' = IF running THEN armed + 1 ELSE armed
  /\ UNCHANGED <<ownerVars, running, failed, aborted, retries, sendVars>>

\* The handler of one that was aborted does nothing.
HandleAborted ==
  /\ aborted > 0
  /\ aborted' = aborted - 1
  /\ passed' = FALSE
  /\ UNCHANGED <<ownerVars, running, armed, completed, failed, retries, sendVars>>

\* Plausible slips: the client leaves it at the report of the error; it tries
\* again at once, and once more when the timer expires.
ClientAfterErrorNothing == UNCHANGED <<armed, retries>>

ClientAfterErrorTwice ==
  /\ armed' = armed + 1
  /\ retries' = retries + 1

\* A client that is running tries again after CLIENT_RETRY_DELAY.
ClientAfterError ==
  /\ retries' = retries + 1
  /\ UNCHANGED armed

\* The handler of one that failed: UdpClient waits, UdpServer stops.
HandleError ==
  /\ failed > 0
  /\ failed' = failed - 1
  /\ \/ /\ running /\ kind = "client"
        /\ ClientAfterError
        /\ UNCHANGED <<running, aborted, socket, deferred>>
     \/ /\ running /\ kind = "server"
        /\ CloseSocket
        /\ UNCHANGED retries
     \/ /\ ~running
        /\ UNCHANGED <<running, armed, aborted, retries, socket, deferred>>
  /\ passed' = FALSE
  /\ UNCHANGED <<ownerVars, completed, sends>>

\* The timer expires; nobody cancels it.
RetryReceive ==
  /\ retries > 0
  /\ retries' = retries - 1
  /\ armed' = IF running THEN armed + 1 ELSE armed
  /\ passed' = FALSE
  /\ UNCHANGED <<ownerVars, running, completed, failed, aborted, sendVars>>

-----------------------------------------------------------------------------
(* Sending.                                                                *)

\* Plausible slip: one datagram too many.
HasRoomForOneMore == Len(socket) <= Room

\* The socket takes another datagram without blocking.
HasRoom == Len(socket) < Room

\* UdpClient::send_data and send_data_to, UdpServer::send_data.  The server
\* refuses when it is not running; on a closed socket the operation fails.
Send(d) ==
  /\ sends < MaxSends
  /\ sends' = sends + 1
  /\ LET starts == IsOpen /\ (kind = "server" => running)
         writes == deferred = <<>> /\ HasRoom
     IN /\ socket' = IF starts /\ writes
                     THEN Append(socket, [given |-> d, bytes |-> d]) ELSE socket
        /\ deferred' = IF starts /\ ~writes THEN Append(deferred, d) ELSE deferred
  /\ passed' = FALSE
  /\ UNCHANGED <<ownerVars, running, receiveVars>>

\* The network takes a datagram.
Transmit ==
  /\ socket # <<>>
  /\ socket' = Tail(socket)
  /\ passed' = FALSE
  /\ UNCHANGED <<ownerVars, running, receiveVars, deferred, sends>>

\* A deferred operation finds room: it reads the vector it was given, which its
\* caller has destroyed in the meantime.
WriteDeferred ==
  /\ deferred # <<>>
  /\ HasRoom
  /\ \E b \in {Head(deferred), Garbage} :
       socket' = Append(socket, [given |-> Head(deferred), bytes |-> b])
  /\ deferred' = Tail(deferred)
  /\ passed' = FALSE
  /\ UNCHANGED <<ownerVars, running, receiveVars, sends>>

Next ==
  \/ Start
  \/ Stop
  \/ Arrive
  \/ HandleDatagram
  \/ HandleAborted
  \/ HandleError
  \/ RetryReceive
  \/ \E d \in Data : Send(d)
  \/ Transmit
  \/ WriteDeferred

Spec == Init /\ [][Next]_vars

\* The io_context runs every handler that is ready, and timers expire.
Fairness ==
  /\ WF_vars(HandleDatagram)
  /\ WF_vars(HandleError)
  /\ WF_vars(RetryReceive)

FairSpec == Spec /\ Fairness

-----------------------------------------------------------------------------
(* Properties.                                                             *)

\* While running_ there is exactly one receive operation, or a timer that will
\* arm one: the operations share receive_buffer_ and receive_endpoint_, so a
\* second one would overwrite a datagram that has not been handled.
OneReceive ==
  running => armed + completed + failed + retries = 1

\* Once the owner has stopped it, nothing is passed to the callback any more,
\* although handlers and timers may still run.
QuietAfterStop == [][stopped => ~passed']_vars

\* An error does not make a client deaf: as long as it runs it listens again and
\* again.
ClientListens == kind = "client" => []<>(~running \/ armed > 0)

=============================================================================
