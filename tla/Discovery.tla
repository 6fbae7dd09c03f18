------------------------------ MODULE Discovery -----------------------------
(***************************************************************************)
(* How rovers find each other and exchange locations: the listeners and    *)
(* timers of src/rover/test_rover_main.cpp, UdpServer::scan_for_rovers     *)
(* (src/base/udp_server.cpp) and the discovery part of src/rover/rover.cpp.*)
(*                                                                         *)
(* Every rover has three sockets: the one of its UdpClient ("main"), and   *)
(* the listeners on EXTRA_LISTENER_PORT ("extra") and on COORD_REQUEST_    *)
(* TARGET_PORT ("coords").  An endpoint is a rover, for its address, and   *)
(* one of these ports.  Datagrams are raw JSON, not LUMEN packets; they    *)
(* may be lost and overtake each other.                                    *)
(***************************************************************************)
EXTENDS Integers, FiniteSets

CONSTANTS
  Rovers,       \* the rovers in the address range of the scans
  Scanners,     \* those that run the timers of the program
  ScanPorts,    \* ports Rover::scan_for_rovers is called with
  MaxInTransit  \* bound of the model: a scan or a round starts below it

Ports == {"main", "extra", "coords"}
Endpoints == Rovers \X Ports
Kinds == {"ROVER_DISCOVER", "ROVER_ANNOUNCE", "Acknowledged", "SEND_DATA", "location"}

\* hop: history, how many datagrams led to this one, itself included.
Datagrams == [kind : Kinds, from : Endpoints, to : Endpoints, hop : Nat]

VARIABLES
  low_power_mode,      \* low_power_mode_
  received_endpoints,  \* received_endpoints, as a set
  discovered_rovers,   \* the keys of discovered_rovers_; the value of q is its main socket
  posted,              \* calls of the discovery handler on the io_context
  told,                \* history: how often the application was told of a rover
  transit              \* datagrams in transit

vars == <<low_power_mode, received_endpoints, discovered_rovers, posted, told, transit>>

\* The type invariant; no rover discovers itself, though it scans its own address.
TypeOK ==
  /\ low_power_mode \in [Rovers -> BOOLEAN]
  /\ received_endpoints \in [Rovers -> SUBSET (Rovers \X {"main", "extra"})]
  /\ discovered_rovers \in [Rovers -> SUBSET Rovers]
  /\ \A r \in Rovers : r \notin discovered_rovers[r]
  /\ posted \in [Rovers -> SUBSET Rovers]
  /\ told \in [Rovers -> [Rovers -> Nat]]
  /\ transit \subseteq Datagrams

Init ==
  /\ low_power_mode = [r \in Rovers |-> FALSE]
  /\ received_endpoints = [r \in Rovers |-> {}]
  /\ discovered_rovers = [r \in Rovers |-> {}]
  /\ posted = [r \in Rovers |-> {}]
  /\ told = [r \in Rovers |-> [q \in Rovers |-> 0]]
  /\ transit = {}

-----------------------------------------------------------------------------
(* Sending.                                                                *)

\* Command messages have priority HIGH, the others MEDIUM.
IsHigh(kind) == kind \in {"ROVER_DISCOVER", "ROVER_ANNOUNCE", "SEND_DATA"}

\* Rover::send_raw_message to another rover: not with low priority, and then
\* not at all, in low power mode.
MaySendRaw(r, kind) ==
  /\ low_power_mode[r] => IsHigh(kind)
  /\ ~low_power_mode[r]

\* Plausible slip: the listener answers from its own socket.
RawSocketExtra(r) == <<r, "extra">>

\* Raw messages leave through the UdpClient.
RawSocket(r) == <<r, "main">>

\* What send_raw_message puts on the wire.
Raw(r, kind, to, hop) ==
  IF MaySendRaw(r, kind)
  THEN {[kind |-> kind, from |-> RawSocket(r), to |-> to, hop |-> hop]}
  ELSE {}

\* A scan of the address range, the rover's own address included.
Probes(from, port) ==
  [kind : {"ROVER_DISCOVER"}, from : {from}, to : Rovers \X {port}, hop : {1}]

HasRoom == Cardinality(transit) < MaxInTransit

-----------------------------------------------------------------------------
(* The timers and the application.                                         *)

\* broadcast_timer_handler, every 23 s: UdpServer::scan_for_rovers.
BroadcastTimer(r) ==
  /\ r \in Scanners
  /\ HasRoom
  /\ ~low_power_mode[r]
  /\ transit' = transit \cup Probes(<<r, "extra">>, "extra")
  /\ UNCHANGED <<low_power_mode, received_endpoints, discovered_rovers, posted, told>>

\* request_timer_handler, every 17 s.
RequestTimer(r) ==
  /\ r \in Scanners
  /\ HasRoom
  /\ ~low_power_mode[r]
  /\ transit' = transit \cup UNION {Raw(r, "SEND_DATA", <<e[1], "coords">>, 1) :
                                      e \in received_endpoints[r]}
  /\ UNCHANGED <<low_power_mode, received_endpoints, discovered_rovers, posted, told>>

\* Rover::scan_for_rovers.
ScanForRovers(r, port) ==
  /\ HasRoom
  /\ ~low_power_mode[r]
  /\ transit' = transit \cup Probes(<<r, "main">>, port)
  /\ UNCHANGED <<low_power_mode, received_endpoints, discovered_rovers, posted, told>>

\* SET_LOW_POWER from the base station.
SetLowPower(r) ==
  /\ low_power_mode' = [low_power_mode EXCEPT ![r] = ~@]
  /\ UNCHANGED <<received_endpoints, discovered_rovers, posted, told, transit>>

-----------------------------------------------------------------------------
(* Receiving.                                                              *)

\* Plausible slip: only the senders of probes are stored.
StoresProbes(d) == IF d.kind = "ROVER_DISCOVER" THEN {d.from} ELSE {}

\* "store endpoint if new".
Stores(d) == {d.from}

\* The callback of extra_listener: whatever comes is acknowledged.
ExtraReceives(d) ==
  LET r == d.to[1] IN
  /\ d.to[2] = "extra"
  /\ received_endpoints' = [received_endpoints EXCEPT ![r] = @ \cup Stores(d)]
  /\ transit' = (transit \ {d}) \cup Raw(r, "Acknowledged", d.from, d.hop + 1)
  /\ UNCHANGED <<low_power_mode, discovered_rovers, posted, told>>

\* The callback of coords_listener: whatever comes is answered.
CoordsReceives(d) ==
  LET r == d.to[1] IN
  /\ d.to[2] = "coords"
  /\ transit' = (transit \ {d}) \cup Raw(r, "location", d.from, d.hop + 1)
  /\ UNCHANGED <<low_power_mode, received_endpoints, discovered_rovers, posted, told>>

\* Plausible slip: the application is told of every announcement.
IsNewAlways(r, q) == TRUE

\* insert_or_assign inserted.
IsNew(r, q) == q \notin discovered_rovers[r]

\* Plausible slip: the sender is not looked at.
IsOwnNever(r, q) == FALSE

\* sender_id is rover_id_.
IsOwn(r, q) == q = r

\* Rover::route_message and handle_discovery_command for what the main socket
\* receives.  The rover's own messages, discovery in low power mode, and what is
\* only shown to the application, leave the state as it is.
MainReceives(d) ==
  LET r == d.to[1]
      q == d.from[1]
      handles(kind) == d.kind = kind /\ ~IsOwn(r, q) /\ ~low_power_mode[r]
  IN
  /\ d.to[2] = "main"
  /\ \/ /\ handles("ROVER_ANNOUNCE")
        /\ discovered_rovers' = [discovered_rovers EXCEPT ![r] = @ \cup {q}]
        /\ posted' = IF IsNew(r, q) THEN [posted EXCEPT ![r] = @ \cup {q}] ELSE posted
        /\ transit' = transit \ {d}
     \/ /\ handles("ROVER_DISCOVER")
        /\ transit' = (transit \ {d}) \cup Raw(r, "ROVER_ANNOUNCE", d.from, d.hop + 1)
        /\ UNCHANGED <<discovered_rovers, posted>>
     \/ /\ ~handles("ROVER_ANNOUNCE")
        /\ ~handles("ROVER_DISCOVER")
        /\ transit' = transit \ {d}
        /\ UNCHANGED <<discovered_rovers, posted>>
  /\ UNCHANGED <<low_power_mode, received_endpoints, told>>

Receive(d) == ExtraReceives(d) \/ CoordsReceives(d) \/ MainReceives(d)

\* The posted call of the discovery handler.
TellApplication(r, q) ==
  /\ q \in posted[r]
  /\ posted' = [posted EXCEPT ![r] = @ \ {q}]
  /\ told' = [told EXCEPT ![r][q] = @ + 1]
  /\ UNCHANGED <<low_power_mode, received_endpoints, discovered_rovers, transit>>

\* UDP.
Lose(d) ==
  /\ transit' = transit \ {d}
  /\ UNCHANGED <<low_power_mode, received_endpoints, discovered_rovers, posted, told>>

Next ==
  \/ \E r \in Rovers : BroadcastTimer(r)
  \/ \E r \in Rovers : RequestTimer(r)
  \/ \E r \in Rovers, p \in ScanPorts : ScanForRovers(r, p)
  \/ \E r \in Rovers : SetLowPower(r)
  \/ \E d \in transit : ExtraReceives(d)
  \/ \E d \in transit : CoordsReceives(d)
  \/ \E d \in transit : MainReceives(d)
  \/ \E r, q \in Rovers : TellApplication(r, q)
  \/ \E d \in transit : Lose(d)

Spec == Init /\ [][Next]_vars

\* The endpoints datagrams come from.
Sources == {RawSocket(r) : r \in Rovers} \cup (Scanners \X {"extra"})

\* The timers are armed again after every run.  A socket hands over what it has
\* received, and UDP delivers some of what is sent again and again.
Fairness ==
  /\ \A r \in Scanners : SF_vars(BroadcastTimer(r))
  /\ WF_vars(\E d \in transit : Receive(d))
  /\ \A f \in Sources, r \in Rovers :
       SF_vars(\E d \in transit : d.from = f /\ d.to = <<r, "extra">> /\ Receive(d))

FairSpec == Spec /\ Fairness

-----------------------------------------------------------------------------
(* Properties.                                                             *)

\* Listeners answer everything, answers included, and yet no exchange goes on
\* for ever: a probe is acknowledged, the acknowledgement once more, and that is
\* the end, because raw messages leave through the main socket, which acknowledges
\* nothing.
ExchangesEnd == \A d \in transit : d.hop <= 3

\* The application is told of a rover once, however often it announces itself.
ToldOnce == \A r, q \in Rovers : told[r][q] + (IF q \in posted[r] THEN 1 ELSE 0) <= 1

\* A rover knows another one when it has an endpoint to derive its coordinate
\* port from.
Knows(r, q) == \E e \in received_endpoints[r] : e[1] = q

\* One rover that scans is enough for two to get to know each other, over a
\* network that loses datagrams, unless they keep going into low power mode.
Acquainted ==
  \A r \in Scanners, q \in Rovers :
    (<>[]~low_power_mode[r] /\ <>[]~low_power_mode[q])
      => <>(Knows(r, q) /\ Knows(q, r))

=============================================================================
