---------------------------- MODULE ProgramParts ----------------------------
(***************************************************************************)
(* The parts of the two programs above the link, side by side: the         *)
(* movement of a rover, the discovery of rovers and the threads of the     *)
(* base program.  They share no state.                                     *)
(***************************************************************************)
EXTENDS RoverMovement, Sequences

CONSTANTS
  Rovers, Scanners, ScanPorts, MaxInTransit,    \* of Discovery
  MaxLines                                      \* of BaseProgram

VARIABLES
  low_power_mode, received_endpoints, discovered_rovers,
  posted, told, transit,                        \* of Discovery
  line, input, shutdown_requested, queue, run,
  exited, signalled, lines, entered, executed   \* of BaseProgram

Found == INSTANCE Discovery

Base == INSTANCE BaseProgram

ASSUME PartsAssumption ==
  /\ ScanPorts \subseteq Found!Ports
  /\ MaxLines \in Nat

-----------------------------------------------------------------------------
(* The properties of the parts; those of RoverMovement keep their names.   *)

\* The listeners of test_rover_main.cpp answer everything, answers included, and
\* yet no exchange is longer than three datagrams.
ExchangesEnd == Found!ExchangesEnd

\* handle_discovery_command tells the application of a rover once.
ToldOnce == Found!ToldOnce

\* command_input_thread: commands are carried out in the order they were typed in,
\* and none is left out when the program ends by "quit".
AcceptedIsExecuted == Base!AcceptedIsExecuted

=============================================================================
