---------------------------- MODULE RoverMovement ---------------------------
(***************************************************************************)
(* The simulated movement of a rover (src/rover/rover.cpp): SET_TARGET_    *)
(* COORD, the movement timer and the message that reports the arrival.     *)
(*                                                                         *)
(* The rover moves on the line through its position and its target, so     *)
(* coordinates are integers, Metre of them to the metre.  A wait on the    *)
(* timer is outstanding, and can be cancelled, until it expires; then its  *)
(* handler is queued on the io_context and runs whatever happens to the    *)
(* timer.  The session is reduced to the changes of session_state_.        *)
(***************************************************************************)
EXTENDS Integers

CONSTANTS
  Metre,        \* units of length in a metre
  Coordinates,  \* targets the base station may set
  Start,        \* where the rover is when it starts
  NoTarget,     \* std::nullopt
  MaxTargets    \* bound of the model: SET_TARGET_COORD commands

ASSUME MovementAssumption ==
  /\ Metre \in Nat \ {0}
  /\ Coordinates \subseteq Int
  /\ Start \in Int
  /\ NoTarget \notin Int
  /\ MaxTargets \in Nat

VARIABLES
  position,     \* current_coordinate_
  target,       \* target_coordinate_
  waiting,      \* outstanding waits on movement_timer_
  queued,       \* expired ones whose handlers have not run yet
  session,      \* session_state_
  low_power,    \* low_power_mode_
  report,       \* what the last step did with a message about the arrival
  targets,      \* history: how many targets were set
  arrivals      \* history: how many times handle_movement_timer saw an arrival

motionVars == <<position, target, waiting, queued>>
vars == <<motionVars, session, low_power, report, targets, arrivals>>

\* The first target comes from a base station with a session, and the rover does
\* not go back to HANDSHAKE_INIT.
SessionStates ==
  {"HANDSHAKE_ACCEPT", "ACTIVE", "DISCONNECTED"}

Reports == {"none", "sent", "stored", "suppressed", "dropped"}

\* The type invariant; the rover stays between the places it was sent to.
TypeOK ==
  /\ position \in Int
  /\ \E a, b \in Coordinates \cup {Start} : a <= position /\ position <= b
  /\ target \in Coordinates \cup {NoTarget}
  /\ waiting \in Nat
  /\ queued \in Nat
  /\ session \in SessionStates
  /\ low_power \in BOOLEAN
  /\ report \in Reports
  /\ targets \in 0 .. MaxTargets
  /\ arrivals \in Nat

Init ==
  /\ position = Start
  /\ target = NoTarget
  /\ waiting = 0
  /\ queued = 0
  /\ session = "ACTIVE"
  /\ low_power = FALSE
  /\ report = "none"
  /\ targets = 0
  /\ arrivals = 0

-----------------------------------------------------------------------------
(* The parts of the algorithm.                                             *)

\* calculate_distance, on a line.
Distance(a, b) == IF a <= b THEN b - a ELSE a - b

\* TARGET_REACHED_THRESHOLD_METERS is 1.0.
IsAt(a, b) == Distance(a, b) <= Metre

\* Plausible slip: one more metre than is left.
StepDistanceUnchecked(d) == 2 * Metre

\* MOVE_RATE_METERS_PER_SECOND for MOVEMENT_INTERVAL, "prevent overshooting".
StepDistance(d) == IF Metre > d THEN d ELSE Metre

\* One step from a towards b.
Towards(a, b) ==
  IF a <= b THEN a + StepDistance(Distance(a, b))
            ELSE a - StepDistance(Distance(a, b))

\* Plausible slip: the waits are cancelled and none is started.
RearmedNot == 0

\* expires_after and expires_at cancel the waits that are outstanding;
\* async_wait adds one.
Rearmed == 1

\* send_message(reached_msg, base): BasicMessage has priority MEDIUM.
Reported ==
  CASE low_power                              -> "suppressed"
    [] ~low_power /\ session = "DISCONNECTED" -> "stored"
    [] ~low_power /\ session = "ACTIVE"       -> "sent"
    [] OTHER                                  -> "dropped"

-----------------------------------------------------------------------------
(* The handlers.                                                           *)

\* SET_TARGET_COORD with two coordinates, from the base station; with anything
\* else it is ignored.  At the target already, the timer is left as it is.
SetTarget(t) ==
  /\ targets < MaxTargets
  /\ targets' = targets + 1
  /\ \/ /\ ~IsAt(position, t)
        /\ target' = t
        /\ waiting' = Rearmed
     \/ /\ IsAt(position, t)
        /\ target' = NoTarget
        /\ UNCHANGED waiting
  /\ report' = "none"
  /\ UNCHANGED <<position, queued, session, low_power, arrivals>>

\* The timer expires: every outstanding wait is over.
Expire ==
  /\ waiting > 0
  /\ waiting' = 0
  /\ queued' = queued + waiting
  /\ report' = "none"
  /\ UNCHANGED <<position, target, session, low_power, targets, arrivals>>

\* handle_movement_timer without a target.
MovementWithoutTarget ==
  /\ queued > 0
  /\ target = NoTarget
  /\ queued' = queued - 1
  /\ report' = "none"
  /\ UNCHANGED <<position, target, waiting, session, low_power, targets, arrivals>>

\* Plausible slip: the target stays, and so does the timer.
MovementArrivesAgain ==
  /\ queued > 0
  /\ target # NoTarget
  /\ IsAt(position, target)
  /\ queued' = queued - 1
  /\ waiting' = Rearmed
  /\ report' = Reported
  /\ arrivals' = arrivals + 1
  /\ UNCHANGED <<position, target, session, low_power, targets>>

\* ... at the target.
MovementArrives ==
  /\ queued > 0
  /\ target # NoTarget
  /\ IsAt(position, target)
  /\ queued' = queued - 1
  /\ target' = NoTarget
  /\ report' = Reported
  /\ arrivals' = arrivals + 1
  /\ UNCHANGED <<position, waiting, session, low_power, targets>>

\* ... and on the way.
MovementMoves ==
  /\ queued > 0
  /\ target # NoTarget
  /\ ~IsAt(position, target)
  /\ queued' = queued - 1
  /\ position' = Towards(position, target)
  /\ waiting' = Rearmed
  /\ report' = "none"
  /\ UNCHANGED <<target, session, low_power, targets, arrivals>>

\* handle_movement_timer.
HandleMovementTimer == MovementWithoutTarget \/ MovementArrives \/ MovementMoves

\* SET_LOW_POWER.
SetLowPower ==
  /\ low_power' = ~low_power
  /\ report' = "none"
  /\ UNCHANGED <<motionVars, session, targets, arrivals>>

\* handle_base_disconnect, handle_session_accept and handle_session_established.
SessionMoves(from) ==
  CASE from = "ACTIVE"           -> {"DISCONNECTED"}
    [] from = "DISCONNECTED"     -> {"HANDSHAKE_ACCEPT", "ACTIVE"}
    [] from = "HANDSHAKE_ACCEPT" -> {"ACTIVE"}

SessionChanges ==
  /\ session' \in SessionMoves(session)
  /\ report' = "none"
  /\ UNCHANGED <<motionVars, low_power, targets, arrivals>>

Next ==
  \/ \E t \in Coordinates : SetTarget(t)
  \/ Expire
  \/ MovementWithoutTarget
  \/ MovementArrives
  \/ MovementMoves
  \/ SetLowPower
  \/ SessionChanges

Spec == Init /\ [][Next]_vars

\* Timers expire, and the io_context runs the handlers that are due.
Fairness == WF_vars(Expire) /\ WF_vars(HandleMovementTimer)

FairSpec == Spec /\ Fairness

-----------------------------------------------------------------------------
(* Properties.                                                             *)

\* A target is not forgotten: while there is one, the timer is being waited on
\* or a handler is due, whatever commands cancelled before.
TargetIsPursued == target # NoTarget => waiting + queued > 0

\* A step leads closer to the target, by a metre at most, and not beyond it.
StepsApproach ==
  [][position' # position =>
       /\ target # NoTarget
       /\ Distance(position', target) < Distance(position, target)
       /\ Distance(position, position') <= Metre
       /\ \/ position <= position' /\ position' <= target
          \/ target <= position' /\ position' <= position]_vars

\* However commands and handlers interleave, a target is reported as reached
\* once at most.
ReportedOnce ==
  arrivals + (IF target = NoTarget THEN 0 ELSE 1) <= targets

\* Every target is reached, or replaced by another.
TargetIsLeft ==
  \A t \in Coordinates : (target = t) ~> (target # t)

=============================================================================
