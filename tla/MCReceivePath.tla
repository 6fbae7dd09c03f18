---------------------------- MODULE MCReceivePath ---------------------------
(***************************************************************************)
(* The parts a datagram passes on its way to the application, each as a    *)
(* small instance of its own: the socket, the packet format, the frame     *)
(* buffer of a sender, and the message manager.  The parts                 *)
(* share no state, so one of them is chosen at the beginning and the       *)
(* others stand still: the behaviours are those of every part by itself.   *)
(***************************************************************************)
EXTENDS Transport, MCLumenPacket, MCDatagrams, MCMessages

VARIABLES
  part,                                \* the part whose steps are taken
  frame_buffers, out, since_damage,    \* of the frame buffer
  manager_running, texts, app          \* of the message manager

frameVars == <<frame_buffers, out, since_damage>>
managerVars == <<manager_running, texts, app>>
pathVars == <<part, vars, formatVars, frameVars, managerVars>>

MCData == {"first", "second"}

\* Nothing is on the way.
NoPacket == Nullopt

\* One sender with many kinds of damage.
Sender ==
  INSTANCE FrameBuffer
    WITH Endpoints <- {"e1"}, Packets <- MCPackets, Damaged <- MCDamaged,
         Others <- MCOthers, IsMessage <- MCIsMessage, IsText <- MCIsText,
         MAX_FRAME_BUFFER_SIZE <- 40

\* One message at a time on the way.
Manager ==
  INSTANCE MessageManager
    WITH Messages <- MCMessages, Strays <- MCStrays, Endpoints <- {"base", "peer"},
         base_endpoint <- "base", unspecified <- "unspecified", MaxWire <- 1,
         running <- manager_running, wire <- texts

Parts == {"socket", "format", "sender", "manager"}

PathInit ==
  /\ part \in Parts
  /\ Init
  /\ part # "socket" => kind = "client"
  /\ IF part = "format" THEN Written
     ELSE packet = NoPacket /\ wire = <<>> /\ flips = {}
  /\ Sender!Init
  /\ Manager!Init

PathNext ==
  \/ /\ part = "socket"
     /\ Next
     /\ UNCHANGED <<part, formatVars, frameVars, managerVars>>
  \/ /\ part = "format"
     /\ Damage
     /\ UNCHANGED <<part, vars, frameVars, managerVars>>
  \/ /\ part = "sender"
     /\ Sender!Next
     /\ UNCHANGED <<part, vars, formatVars, managerVars>>
  \/ /\ part = "manager"
     /\ Manager!Next
     /\ UNCHANGED <<part, vars, formatVars, frameVars>>

\* The fairness of the socket asks nothing of the other parts, where nothing is
\* received.
PathSpec == PathInit /\ [][PathNext]_pathVars /\ Fairness

-----------------------------------------------------------------------------
(* The properties of the parts; Transport and MCLumenPacket state theirs.  *)

\* The type invariant: of the socket and of the frame buffer, which never keeps
\* more than MAX_FRAME_BUFFER_SIZE.
PathTypeOK == TypeOK /\ Sender!TypeOK

\* process_frame_buffer is in step again when a sender's datagrams were intact
\* for twice MAX_FRAME_BUFFER_SIZE.
ResynchronisesInTime == Sender!ResynchronisesInTime

\* process_frame_buffer passes on no packet that nobody sent, whatever remains of
\* damaged datagrams are in the buffer.
NothingInvented == Sender!NothingInvented

\* What the application gave to send_message, the application of the receiver
\* gets, with a header or raw.
ReadAsSent == Manager!ReadAsSent

\* handle_udp_data passes every raw text on, once.
RawTextPassedOnce == Manager!RawTextPassedOnce

=============================================================================
