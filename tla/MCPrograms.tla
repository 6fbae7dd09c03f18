----------------------------- MODULE MCPrograms -----------------------------
(***************************************************************************)
(* The parts of the two programs above the link, each as a small instance  *)
(* of its own: the movement of a rover, the discovery of rovers by their   *)
(* listeners and by the scans of the application, the threads of the base  *)
(* program, and the mutexes of both.  The parts share no state, so one of  *)
(* them is chosen at the beginning and the others stand still: the         *)
(* behaviours are those of every part by itself.                           *)
(***************************************************************************)
EXTENDS ProgramParts

VARIABLES
  part,                                         \* the part whose steps are taken
  program, stack, held, posted_handlers         \* of the mutexes

discoveryVars ==
  <<low_power_mode, received_endpoints, discovered_rovers, posted, told, transit>>
baseVars ==
  <<line, input, shutdown_requested, queue, run, exited, signalled, lines, entered,
    executed>>
lockVars == <<program, stack, held, posted_handlers>>
programVars == <<part, vars, discoveryVars, baseVars, lockVars>>

\* Two units to the metre, so that targets lie between the points a rover stops
\* at; near and far ones, on both sides.
MCCoordinates == {-5, -1, 2, 3, 7}

\* The listeners and timers of the program have the values of the .cfg; with the
\* scans of the application there are no timers.
Scans == INSTANCE Discovery WITH Scanners <- {}, ScanPorts <- {"main"}

Mutexes == INSTANCE Locks WITH Programs <- {"rover", "base"}, posted <- posted_handlers

Parts == {"movement", "listeners", "scans", "base", "mutexes"}

ProgramInit ==
  /\ part \in Parts
  /\ Init
  /\ Found!Init
  /\ Base!Init
  /\ Mutexes!Init
  /\ part # "mutexes" => program = "rover"

ProgramNext ==
  \/ /\ part = "movement"
     /\ Next
     /\ UNCHANGED <<part, discoveryVars, baseVars, lockVars>>
  \/ /\ part = "listeners"
     /\ Found!Next
     /\ UNCHANGED <<part, vars, baseVars, lockVars>>
  \/ /\ part = "scans"
     /\ Scans!Next
     /\ UNCHANGED <<part, vars, baseVars, lockVars>>
  \/ /\ part = "base"
     /\ Base!Next
     /\ UNCHANGED <<part, vars, discoveryVars, lockVars>>
  \/ /\ part = "mutexes"
     /\ Mutexes!Next
     /\ UNCHANGED <<part, vars, discoveryVars, baseVars>>

\* Discovery's fairness, in the part of the listeners.
ListenersFairness ==
  LET listen(A) == part = "listeners" /\ A IN
  /\ \A s \in Scanners : SF_discoveryVars(listen(Found!BroadcastTimer(s)))
  /\ WF_discoveryVars(listen(\E d \in transit : Found!Receive(d)))
  /\ \A f \in Found!Sources, r \in Rovers :
       SF_discoveryVars(
         listen(\E d \in transit :
                  d.from = f /\ d.to = <<r, "extra">> /\ Found!Receive(d)))

\* The fairness of the movement and of the base program asks nothing of the other
\* parts, where no target is set and no line typed.
ProgramSpec ==
  /\ ProgramInit
  /\ [][ProgramNext]_programVars
  /\ Fairness
  /\ Base!Fairness
  /\ ListenersFairness

-----------------------------------------------------------------------------
(* Properties besides those of ProgramParts and RoverMovement.             *)

\* The type invariants: the rover stays between the places it was sent to, no
\* rover discovers itself, the base program ends after its threads, and no mutex is
\* held between two handlers.
ProgramTypeOK ==
  /\ TypeOK
  /\ Found!TypeOK
  /\ Base!TypeOK
  /\ Mutexes!TypeOK

\* One rover whose broadcast timer runs is enough for two to know each other, over
\* a network that loses datagrams.
Acquainted == part = "listeners" => Found!Acquainted

\* "quit" ends the base program.
QuitEnds == Base!QuitEnds

\* However callbacks lead from one layer to the other, the thread never locks a
\* mutex that it holds.
NeverWaitsForItself == Mutexes!NeverWaitsForItself

=============================================================================
