---------------------------- MODULE ProgramProofs ---------------------------
(***************************************************************************)
(* The parts of the two programs above the link: RoverMovement for any     *)
(* targets, any unit of length and any number of commands, Discovery for   *)
(* any number of rovers, and BaseProgram for any number of lines.          *)
(***************************************************************************)
EXTENDS ProgramParts, TLAPS

-----------------------------------------------------------------------------
(* The movement of a rover.                                                *)

\* What the types say, and that nothing is lost or reported twice.
MovementInv ==
  /\ position \in Int
  /\ target \in Coordinates \cup {NoTarget}
  /\ waiting \in Nat
  /\ queued \in Nat
  /\ targets \in Nat
  /\ arrivals \in Nat
  /\ TargetIsPursued
  /\ ReportedOnce

\* A step of the algorithm, when the target is more than a metre away: a metre
\* closer, on the same side of the target.
LEMMA TowardsApproaches ==
  ASSUME NEW a \in Int, NEW b \in Int, ~IsAt(a, b)
  PROVE  /\ Towards(a, b) \in Int
         /\ Distance(Towards(a, b), b) = Distance(a, b) - Metre
         /\ Distance(a, Towards(a, b)) = Metre
         /\ \/ a <= Towards(a, b) /\ Towards(a, b) <= b
            \/ b <= Towards(a, b) /\ Towards(a, b) <= a
<1>1. Metre \in Nat /\ Metre > 0
  BY MovementAssumption
<1>2. StepDistance(Distance(a, b)) = Metre
  BY <1>1 DEF IsAt, StepDistance, Distance
<1>3. CASE a <= b
  <2>1. Towards(a, b) = a + Metre /\ a + Metre <= b
    BY <1>1, <1>2, <1>3 DEF IsAt, Towards, Distance
  <2>2. QED
    BY <1>1, <1>3, <2>1 DEF Distance
<1>4. CASE ~(a <= b)
  <2>1. Towards(a, b) = a - Metre /\ b <= a - Metre
    BY <1>1, <1>2, <1>4 DEF IsAt, Towards, Distance
  <2>2. QED
    BY <1>1, <1>4, <2>1 DEF Distance
<1>5. QED
  BY <1>3, <1>4

LEMMA MovementInit == Init => MovementInv
  BY MovementAssumption
     DEF Init, MovementInv, TargetIsPursued, ReportedOnce

LEMMA MovementStep == MovementInv /\ [Next]_vars => MovementInv'
<1> SUFFICES ASSUME MovementInv, [Next]_vars PROVE MovementInv'
  OBVIOUS
<1> USE MovementAssumption
    DEF MovementInv, TargetIsPursued, ReportedOnce, Rearmed
<1>1. ASSUME NEW t \in Coordinates, SetTarget(t)
      PROVE  MovementInv'
  <2>1. CASE ~IsAt(position, t)
    BY <1>1, <2>1 DEF SetTarget
  <2>2. CASE IsAt(position, t)
    BY <1>1, <2>2 DEF SetTarget
  <2>3. QED
    BY <2>1, <2>2
<1>2. CASE Expire
  BY <1>2 DEF Expire
<1>3. CASE MovementWithoutTarget
  BY <1>3 DEF MovementWithoutTarget
<1>4. CASE MovementArrives
  BY <1>4 DEF MovementArrives
<1>5. CASE MovementMoves
  <2>1. target \in Int /\ ~IsAt(position, target)
    BY <1>5 DEF MovementMoves
  <2>2. position' \in Int
    BY <1>5, <2>1, TowardsApproaches DEF MovementMoves
  <2>3. QED
    BY <1>5, <2>2 DEF MovementMoves
<1>6. CASE SetLowPower \/ SessionChanges \/ UNCHANGED vars
  BY <1>6 DEF SetLowPower, SessionChanges, vars, motionVars
<1>7. QED
  BY <1>1, <1>2, <1>3, <1>4, <1>5, <1>6 DEF Next

LEMMA MovementInvariant == Spec => []MovementInv
  BY MovementInit, MovementStep, PTL DEF Spec

\* A target the base station set is pursued until it is reached or replaced:
\* cancelling the timer and expiring never leave it without a wait or a handler.
THEOREM TargetNeverForgotten == Spec => []TargetIsPursued
<1>1. MovementInv => TargetIsPursued
  BY DEF MovementInv
<1>2. QED
  BY <1>1, MovementInvariant, PTL

\* No interleaving of commands, expiries and handlers reports a target twice.
THEOREM TargetReportedOnce == Spec => []ReportedOnce
<1>1. MovementInv => ReportedOnce
  BY DEF MovementInv
<1>2. QED
  BY <1>1, MovementInvariant, PTL

\* handle_movement_timer never overshoots, whatever the target and however often
\* it changes.
THEOREM MovementApproaches == Spec => StepsApproach
<1>1. MovementInv /\ [Next]_vars =>
        [position' # position =>
           /\ target # NoTarget
           /\ Distance(position', target) < Distance(position, target)
           /\ Distance(position, position') <= Metre
           /\ \/ position <= position' /\ position' <= target
              \/ target <= position' /\ position' <= position]_vars
  <2> SUFFICES ASSUME MovementInv, Next, position' # position
               PROVE  /\ target # NoTarget
                      /\ Distance(position', target) < Distance(position, target)
                      /\ Distance(position, position') <= Metre
                      /\ \/ position <= position' /\ position' <= target
                         \/ target <= position' /\ position' <= position
    OBVIOUS
  <2>1. MovementMoves
    BY DEF Next, SetTarget, Expire, MovementWithoutTarget, MovementArrives,
           SetLowPower, SessionChanges, motionVars
  <2>2. target \in Int /\ position \in Int /\ ~IsAt(position, target)
    BY <2>1, MovementAssumption DEF MovementMoves, MovementInv
  <2>3. /\ target # NoTarget
        /\ position' = Towards(position, target)
    BY <2>1 DEF MovementMoves
  <2>4. Metre \in Nat /\ Metre > 0 /\ Distance(position, target) \in Int
    BY <2>2, MovementAssumption DEF Distance
  <2>5. QED
    BY <2>2, <2>3, <2>4, TowardsApproaches
<1>2. QED
  BY <1>1, MovementInvariant, PTL DEF Spec, StepsApproach

\* The type invariant of the movement: whatever the commands, the rover stays
\* between the places it was sent to.
THEOREM MovementTypes == Spec => []TypeOK
<1> USE MovementAssumption
<1>1. Init => TypeOK
  <2> SUFFICES ASSUME Init PROVE TypeOK
    OBVIOUS
  <2>1. Start \in Coordinates \cup {Start} /\ Start <= position /\ position <= Start
    BY DEF Init
  <2>2. \E a, b \in Coordinates \cup {Start} : a <= position /\ position <= b
    BY <2>1
  <2>3. /\ position \in Int /\ target \in Coordinates \cup {NoTarget}
        /\ waiting \in Nat /\ queued \in Nat /\ targets \in 0 .. MaxTargets /\ arrivals \in Nat
        /\ session \in SessionStates /\ report \in Reports
    BY DEF Init, SessionStates, Reports
  <2>4. low_power \in BOOLEAN
    BY Zenon DEF Init
  <2> QED
    BY <2>2, <2>3, <2>4 DEF TypeOK
<1>2. MovementInv /\ TypeOK /\ [Next]_vars => TypeOK'
  <2> SUFFICES ASSUME MovementInv, TypeOK, [Next]_vars PROVE TypeOK'
    OBVIOUS
  <2> USE DEF TypeOK, MovementInv
  <2>1. MovementInv'
    BY MovementStep
  <2>2. session' \in SessionStates /\ low_power' \in BOOLEAN /\ report' \in Reports
    <3>1. Reported \in Reports
      BY Zenon DEF Reported, Reports
    <3>2. SessionMoves(session) \subseteq SessionStates
      BY DEF SessionMoves, SessionStates
    <3>3. {"none", Reported} \subseteq Reports
      BY <3>1 DEF Reports
    <3> HIDE DEF Reported
    <3>4. /\ session' \in {session} \cup SessionMoves(session)
          /\ low_power' \in {low_power, ~low_power}
          /\ report' \in {report, "none", Reported}
      BY DEF Next, SetTarget, Expire, MovementWithoutTarget, MovementArrives,
         MovementMoves, SetLowPower, SessionChanges, vars, motionVars
    <3> QED
      BY <3>2, <3>3, <3>4, Zenon
  <2>3. targets' \in 0 .. MaxTargets
    BY DEF Next, SetTarget, Expire, MovementWithoutTarget, MovementArrives, MovementMoves,
       SetLowPower, SessionChanges, vars, motionVars
  <2>4. \E a, b \in Coordinates \cup {Start} : a <= position' /\ position' <= b
    <3>1. CASE position' = position
      BY <3>1
    <3>2. CASE position' # position
      <4>1. MovementMoves
        BY <3>2 DEF Next, SetTarget, Expire, MovementWithoutTarget, MovementArrives,
           SetLowPower, SessionChanges, vars, motionVars
      <4>2. target \in Coordinates /\ ~IsAt(position, target) /\ position' = Towards(position, target)
        BY <4>1 DEF MovementMoves
      <4>3. /\ position' \in Int
            /\ \/ position <= position' /\ position' <= target
               \/ target <= position' /\ position' <= position
        BY <4>2, TowardsApproaches
      <4>4. PICK a, b \in Coordinates \cup {Start} : a <= position /\ position <= b
        OBVIOUS
      <4>5. a \in Int /\ b \in Int /\ target \in Int /\ target \in Coordinates \cup {Start}
        BY <4>2
      <4> HIDE DEF TypeOK, MovementInv
      <4>6. CASE position <= position' /\ position' <= target
        BY <4>3, <4>4, <4>5, <4>6 DEF TypeOK
      <4>7. CASE target <= position' /\ position' <= position
        BY <4>3, <4>4, <4>5, <4>7 DEF TypeOK
      <4> QED
        BY <4>3, <4>6, <4>7
    <3> QED
      BY <3>1, <3>2
  <2> QED
    BY <2>1, <2>2, <2>3, <2>4, Zenon
<1> QED
  BY <1>1, <1>2, MovementInvariant, PTL DEF Spec

-----------------------------------------------------------------------------
(* The discovery of rovers.                                                *)

\* Datagrams by the length of the exchange: timers and scans begin it from the
\* main or the extra socket; every answer leaves through the main socket and goes
\* to the socket that asked; and only a socket other than the main one, or a
\* probe, is answered.
ExchangeInv ==
  \A d \in transit :
    /\ d \in Found!Datagrams
    /\ d.hop \in 1 .. 3
    /\ d.from[2] # "coords"
    /\ d.hop >= 2 => d.from[2] = "main" /\ d.kind # "ROVER_DISCOVER" /\ d.to[2] # "coords"
    /\ d.hop = 3 => d.to[2] = "main"

\* What send_raw_message adds.
LEMMA RawFacts ==
  ASSUME NEW r, NEW kind, NEW to, NEW hop
  PROVE  Found!Raw(r, kind, to, hop) \subseteq
           {[kind |-> kind, from |-> <<r, "main">>, to |-> to, hop |-> hop]}
  BY DEF Found!Raw, Found!RawSocket

LEMMA ExchangeStep ==
  ASSUME Found!TypeOK, ExchangeInv, [Found!Next]_Found!vars
  PROVE  ExchangeInv'
PROOF
<1> DEFINE Good(d) ==
      /\ d \in Found!Datagrams
      /\ d.hop \in 1 .. 3
      /\ d.from[2] # "coords"
      /\ d.hop >= 2 => d.from[2] = "main" /\ d.kind # "ROVER_DISCOVER" /\ d.to[2] # "coords"
      /\ d.hop = 3 => d.to[2] = "main"
<1>g. \A d \in transit : Good(d)
  BY DEF ExchangeInv
<1>s. SUFFICES \A d \in transit' : d \in transit \/ Good(d)
  BY <1>g DEF ExchangeInv
<1>1. ASSUME NEW r \in Rovers, NEW from \in {"main", "extra"}, NEW port \in Found!Ports,
             NEW d \in Found!Probes(<<r, from>>, port)
      PROVE  Good(d)
  BY <1>1 DEF Found!Probes, Found!Datagrams, Found!Endpoints, Found!Ports, Found!Kinds
<1>2. ASSUME NEW r \in Rovers, Found!BroadcastTimer(r)
      PROVE  \A d \in transit' : d \in transit \/ Good(d)
  BY <1>1, <1>2, Zenon DEF Found!BroadcastTimer, Found!Ports
<1>3. ASSUME NEW r \in Rovers, NEW p \in ScanPorts, Found!ScanForRovers(r, p)
      PROVE  \A d \in transit' : d \in transit \/ Good(d)
  BY <1>1, <1>3, PartsAssumption, Zenon DEF Found!ScanForRovers
<1>4. ASSUME NEW r \in Rovers, Found!RequestTimer(r)
      PROVE  \A d \in transit' : d \in transit \/ Good(d)
  <2>1. ASSUME NEW e \in received_endpoints[r],
               NEW d \in Found!Raw(r, "SEND_DATA", <<e[1], "coords">>, 1)
        PROVE  Good(d)
    <3>1. e[1] \in Rovers
      BY DEF Found!TypeOK
    <3>2. d = [kind |-> "SEND_DATA", from |-> <<r, "main">>, to |-> <<e[1], "coords">>, hop |-> 1]
      BY <2>1, RawFacts
    <3> QED
      BY <3>1, <3>2 DEF Found!Datagrams, Found!Endpoints, Found!Ports, Found!Kinds
  <2> HIDE DEF Good
  <2> QED
    BY <1>4, <2>1, Zenon DEF Found!RequestTimer
<1>5. ASSUME NEW c \in transit, NEW kind \in Found!Kinds \ {"ROVER_DISCOVER"},
             NEW d \in Found!Raw(c.to[1], kind, c.from, c.hop + 1),
             c.hop = 1 \/ c.to[2] # "main"
      PROVE  Good(d)
  <2>1. d = [kind |-> kind, from |-> <<c.to[1], "main">>, to |-> c.from, hop |-> c.hop + 1]
    BY <1>5, RawFacts
  <2>2. c.to[1] \in Rovers /\ c.from \in Found!Endpoints /\ c.hop \in 1 .. 2
    BY <1>g, <1>5 DEF Found!Datagrams, Found!Endpoints
  <2>3. d \in Found!Datagrams
    BY <2>1, <2>2 DEF Found!Datagrams, Found!Endpoints, Found!Ports
  <2> QED
    BY <1>g, <2>1, <2>2, <2>3
<1>6. ASSUME NEW c \in transit, Found!ExtraReceives(c) \/ Found!CoordsReceives(c)
      PROVE  \A d \in transit' : d \in transit \/ Good(d)
  <2> HIDE DEF Good
  <2> QED
    BY <1>5, <1>6 DEF Found!ExtraReceives, Found!CoordsReceives, Found!Kinds
<1>7. ASSUME NEW c \in transit, Found!MainReceives(c)
      PROVE  \A d \in transit' : d \in transit \/ Good(d)
  <2>1. c.kind = "ROVER_DISCOVER" => c.hop = 1
    BY <1>g
  <2> HIDE DEF Good
  <2> QED
    BY <1>5, <1>7, <2>1 DEF Found!MainReceives, Found!Kinds
<1>8. ASSUME \/ \E r \in Rovers : Found!SetLowPower(r)
             \/ \E r, q \in Rovers : Found!TellApplication(r, q)
             \/ \E d \in transit : Found!Lose(d)
             \/ UNCHANGED Found!vars
      PROVE  transit' \subseteq transit
  BY <1>8 DEF Found!SetLowPower, Found!TellApplication, Found!Lose, Found!vars
<1> HIDE DEF Good
<1> QED
  BY <1>2, <1>3, <1>4, <1>6, <1>7, <1>8 DEF Found!Next

\* A rover of whose discovery nothing was posted or told is a new one.
ToldInv ==
  \A r, q \in Rovers :
    /\ told[r][q] + (IF q \in posted[r] THEN 1 ELSE 0) <= 1
    /\ q \notin discovered_rovers[r] => told[r][q] = 0 /\ q \notin posted[r]

LEMMA DiscoveryTypesStep ==
  ASSUME Found!TypeOK, ExchangeInv, ExchangeInv', [Found!Next]_Found!vars
  PROVE  Found!TypeOK'
PROOF
<1>1. transit' \subseteq Found!Datagrams
  BY DEF ExchangeInv
<1>2. ASSUME NEW d \in transit
      PROVE  d.to[1] \in Rovers /\ d.from[1] \in Rovers /\ d.from \in Rovers \X {"main", "extra"}
  BY DEF ExchangeInv, Found!Datagrams, Found!Endpoints, Found!Ports
<1>3. ASSUME NEW d \in transit, Found!ExtraReceives(d)
      PROVE  Found!TypeOK'
  BY <1>1, <1>2, <1>3 DEF Found!TypeOK, Found!ExtraReceives, Found!Stores
<1>4. ASSUME NEW d \in transit, Found!MainReceives(d)
      PROVE  Found!TypeOK'
  <2>1. /\ UNCHANGED <<low_power_mode, received_endpoints, told>>
        /\ \/ UNCHANGED <<discovered_rovers, posted>>
           \/ /\ d.from[1] # d.to[1]
              /\ discovered_rovers' = [discovered_rovers EXCEPT ![d.to[1]] = @ \cup {d.from[1]}]
              /\ posted' \in {posted, [posted EXCEPT ![d.to[1]] = @ \cup {d.from[1]}]}
    BY <1>4 DEF Found!MainReceives, Found!IsOwn
  <2>2. CASE UNCHANGED <<discovered_rovers, posted>>
    BY <1>1, <2>1, <2>2 DEF Found!TypeOK
  <2>3. CASE ~UNCHANGED <<discovered_rovers, posted>>
    <3>1. discovered_rovers' \in [Rovers -> SUBSET Rovers] /\ posted' \in [Rovers -> SUBSET Rovers]
      BY <1>2, <2>1, <2>3 DEF Found!TypeOK
    <3>2. \A r \in Rovers : r \notin discovered_rovers'[r]
      BY <1>2, <2>1, <2>3 DEF Found!TypeOK
    <3> QED
      BY <1>1, <2>1, <3>1, <3>2 DEF Found!TypeOK
  <2> QED
    BY <2>2, <2>3
<1>5. ASSUME NEW r \in Rovers, NEW q \in Rovers, Found!TellApplication(r, q)
      PROVE  Found!TypeOK'
  BY <1>1, <1>5 DEF Found!TypeOK, Found!TellApplication
<1>6. ASSUME NEW r \in Rovers, Found!SetLowPower(r)
      PROVE  Found!TypeOK'
  BY <1>1, <1>6 DEF Found!TypeOK, Found!SetLowPower
<1>7. ASSUME \/ \E r \in Rovers : Found!BroadcastTimer(r) \/ Found!RequestTimer(r)
             \/ \E r \in Rovers, p \in ScanPorts : Found!ScanForRovers(r, p)
             \/ \E d \in transit : Found!CoordsReceives(d) \/ Found!Lose(d)
             \/ UNCHANGED Found!vars
      PROVE  UNCHANGED <<low_power_mode, received_endpoints, discovered_rovers, posted, told>>
  BY <1>7, Zenon DEF Found!BroadcastTimer, Found!RequestTimer, Found!ScanForRovers,
     Found!CoordsReceives, Found!Lose, Found!vars
<1>8. UNCHANGED <<low_power_mode, received_endpoints, discovered_rovers, posted, told>> =>
        Found!TypeOK'
  BY <1>1 DEF Found!TypeOK
<1> QED
  BY <1>3, <1>4, <1>5, <1>6, <1>7, <1>8 DEF Found!Next

LEMMA ToldStep ==
  ASSUME Found!TypeOK, ExchangeInv, ToldInv, [Found!Next]_Found!vars
  PROVE  ToldInv'
PROOF
<1>1. ASSUME NEW d \in transit, Found!MainReceives(d)
      PROVE  ToldInv'
  <2>1. d.to[1] \in Rovers /\ d.from[1] \in Rovers
    BY DEF ExchangeInv, Found!Datagrams, Found!Endpoints
  <2>2. /\ UNCHANGED told
        /\ \/ UNCHANGED <<discovered_rovers, posted>>
           \/ /\ discovered_rovers' = [discovered_rovers EXCEPT ![d.to[1]] = @ \cup {d.from[1]}]
              /\ posted' = IF d.from[1] \notin discovered_rovers[d.to[1]]
                           THEN [posted EXCEPT ![d.to[1]] = @ \cup {d.from[1]}] ELSE posted
    BY <1>1 DEF Found!MainReceives, Found!IsNew
  <2>3. ASSUME NEW r \in Rovers, NEW q \in Rovers
        PROVE  /\ told'[r][q] + (IF q \in posted'[r] THEN 1 ELSE 0) <= 1
               /\ q \notin discovered_rovers'[r] => told'[r][q] = 0 /\ q \notin posted'[r]
    BY <2>1, <2>2 DEF ToldInv, Found!TypeOK
  <2> QED
    BY <2>3 DEF ToldInv
<1>2. ASSUME NEW r \in Rovers, NEW q \in Rovers, Found!TellApplication(r, q)
      PROVE  ToldInv'
  <2>1. q \in discovered_rovers[r] /\ told[r][q] = 0
    BY <1>2 DEF Found!TellApplication, ToldInv, Found!TypeOK
  <2>2. ASSUME NEW x \in Rovers, NEW y \in Rovers
        PROVE  /\ told'[x][y] + (IF y \in posted'[x] THEN 1 ELSE 0) <= 1
               /\ y \notin discovered_rovers'[x] => told'[x][y] = 0 /\ y \notin posted'[x]
    BY <1>2, <2>1 DEF Found!TellApplication, ToldInv, Found!TypeOK
  <2> QED
    BY <2>2 DEF ToldInv
<1>3. ASSUME \/ \E r \in Rovers : Found!BroadcastTimer(r) \/ Found!RequestTimer(r) \/ Found!SetLowPower(r)
             \/ \E r \in Rovers, p \in ScanPorts : Found!ScanForRovers(r, p)
             \/ \E d \in transit : Found!ExtraReceives(d) \/ Found!CoordsReceives(d) \/ Found!Lose(d)
             \/ UNCHANGED Found!vars
      PROVE  UNCHANGED <<discovered_rovers, posted, told>>
  BY <1>3, Zenon DEF Found!BroadcastTimer, Found!RequestTimer, Found!ScanForRovers, Found!SetLowPower,
     Found!ExtraReceives, Found!CoordsReceives, Found!Lose, Found!vars
<1>4. UNCHANGED <<discovered_rovers, posted, told>> => ToldInv'
  BY DEF ToldInv
<1> QED
  BY <1>1, <1>2, <1>3, <1>4 DEF Found!Next

LEMMA DiscoveryInvariant ==
  Found!Spec => [](Found!TypeOK /\ ExchangeInv /\ ToldInv)
PROOF
<1>1. Found!Init => Found!TypeOK /\ ExchangeInv /\ ToldInv
  BY DEF Found!Init, Found!TypeOK, ExchangeInv, ToldInv
<1>2. Found!TypeOK /\ ExchangeInv /\ ToldInv /\ [Found!Next]_Found!vars =>
        (Found!TypeOK /\ ExchangeInv /\ ToldInv)'
  BY ExchangeStep, DiscoveryTypesStep, ToldStep
<1> QED
  BY <1>1, <1>2, PTL DEF Found!Spec

\* The type invariant of the discovery, for any rovers that scan any of the ports:
\* in particular no rover discovers itself.
THEOREM DiscoveryTypes ==
  Found!Spec => []Found!TypeOK
PROOF
<1>1. Found!Spec => [](Found!TypeOK /\ ExchangeInv /\ ToldInv)
  BY DiscoveryInvariant
<1> QED
  BY <1>1, PTL

\* The listeners of test_rover_main.cpp answer everything, answers included: however
\* many rovers there are, whatever they scan and whatever is lost or overtaken, no
\* exchange is longer than three datagrams.
THEOREM ExchangesAreShort ==
  Found!Spec => []ExchangesEnd
PROOF
<1>1. Found!Spec => [](Found!TypeOK /\ ExchangeInv /\ ToldInv)
  BY DiscoveryInvariant
<1>2. ExchangeInv => ExchangesEnd
  BY DEF ExchangeInv, ExchangesEnd, Found!ExchangesEnd
<1> QED
  BY <1>1, <1>2, PTL

\* handle_discovery_command tells the application of a rover once, however often it
\* announces itself and whenever the posted call runs.
THEOREM ToldAtMostOnce ==
  Found!Spec => []ToldOnce
PROOF
<1>1. Found!Spec => [](Found!TypeOK /\ ExchangeInv /\ ToldInv)
  BY DiscoveryInvariant
<1>2. ToldInv => ToldOnce
  BY DEF ToldInv, ToldOnce, Found!ToldOnce
<1> QED
  BY <1>1, <1>2, PTL

-----------------------------------------------------------------------------
(* The threads of the base program.                                        *)

\* The commands c that were accepted and not yet carried out, x being those that
\* were, are the members of K in the queue q, in this order: f finds them there.
Holds(K, q, c, x, n, f) ==
  /\ Len(c) = Len(x) + n
  /\ f \in [1 .. n -> 1 .. Len(q)]
  /\ \A i, j \in 1 .. n : i < j => f[i] < f[j]
  /\ \A i \in 1 .. n : q[f[i]] = c[Len(x) + i]
  /\ \A k \in 1 .. Len(q) : q[k] \in K => \E i \in 1 .. n : f[i] = k

LEMMA HoldsOther ==
  ASSUME NEW K, NEW H, NEW q \in Seq(H), NEW c \in Seq(K), NEW x \in Seq(K),
         NEW n \in Nat, NEW f, Holds(K, q, c, x, n, f), NEW h \in H \ K
  PROVE  Holds(K, Append(q, h), c, x, n, f)
PROOF
<1> DEFINE Q == Append(q, h)
<1>1. /\ Len(q) \in Nat
      /\ Len(Q) = Len(q) + 1
      /\ \A k \in 1 .. Len(q) : Q[k] = q[k]
      /\ Q[Len(q) + 1] = h
  OBVIOUS
<1> HIDE DEF Q
<1>2. \A i \in 1 .. n : f[i] \in 1 .. Len(q)
  BY DEF Holds
<1>3. f \in [1 .. n -> 1 .. Len(Q)]
  BY <1>1 DEF Holds
<1>4. \A i \in 1 .. n : Q[f[i]] = c[Len(x) + i]
  BY <1>1, <1>2, Zenon DEF Holds
<1>5. ASSUME NEW k \in 1 .. Len(Q), Q[k] \in K
      PROVE  \E i \in 1 .. n : f[i] = k
  <2>1. k \in 1 .. Len(q) /\ q[k] \in K
    BY <1>1, <1>5
  <2> QED
    BY <2>1 DEF Holds
<1>6. Holds(K, Q, c, x, n, f)
  BY <1>3, <1>4, <1>5 DEF Holds
<1> QED
  BY <1>6 DEF Q

LEMMA HoldsPosted ==
  ASSUME NEW K, NEW H, NEW q \in Seq(H), NEW c \in Seq(K), NEW x \in Seq(K),
         NEW n \in Nat, NEW f, Holds(K, q, c, x, n, f), NEW h \in K
  PROVE  \E g : Holds(K, Append(q, h), Append(c, h), x, n + 1, g)
PROOF
<1> DEFINE g == [i \in 1 .. n + 1 |-> IF i = n + 1 THEN Len(q) + 1 ELSE f[i]]
           Q == Append(q, h)
           C == Append(c, h)
<1>1. /\ Len(Q) = Len(q) + 1
      /\ \A k \in 1 .. Len(q) : Q[k] = q[k]
      /\ Q[Len(q) + 1] = h
  OBVIOUS
<1>2. /\ Len(C) = Len(c) + 1
      /\ \A k \in 1 .. Len(c) : C[k] = c[k]
      /\ C[Len(c) + 1] = h
  OBVIOUS
<1>3. Len(q) \in Nat /\ Len(c) \in Nat /\ Len(x) \in Nat /\ Len(c) = Len(x) + n
  BY DEF Holds
<1>4. g[n + 1] = Len(q) + 1
  OBVIOUS
<1>5. ASSUME NEW i \in 1 .. n
      PROVE  g[i] = f[i] /\ f[i] \in 1 .. Len(q) /\ i \in 1 .. n + 1
  BY DEF Holds
<1>6. \A i \in 1 .. n + 1 : i = n + 1 \/ i \in 1 .. n
  OBVIOUS
<1>7. g \in [1 .. n + 1 -> 1 .. Len(Q)]
  <2>1. ASSUME NEW i \in 1 .. n + 1
        PROVE  g[i] \in 1 .. Len(q) + 1
    <3> HIDE DEF g
    <3>1. CASE i = n + 1
      BY <1>3, <1>4, <3>1
    <3>2. CASE i \in 1 .. n
      <4>1. g[i] \in 1 .. Len(q)
        BY <1>5, <3>2, Zenon
      <4> QED
        BY <1>3, <4>1
    <3> QED
      BY <1>6, <3>1, <3>2
  <2> QED
    BY <1>1, <2>1
<1> HIDE DEF g, Q, C
<1>8. ASSUME NEW i \in 1 .. n + 1, NEW j \in 1 .. n + 1, i < j
      PROVE  g[i] < g[j]
  <2>1. i \in 1 .. n
    BY <1>8
  <2>2. CASE j = n + 1
    BY <1>3, <1>4, <1>5, <2>1, <2>2
  <2>3. CASE j \in 1 .. n
    BY <1>5, <1>8, <2>1, <2>3, Zenon DEF Holds
  <2> QED
    BY <1>6, <2>2, <2>3
<1>9. ASSUME NEW i \in 1 .. n + 1
      PROVE  Q[g[i]] = C[Len(x) + i]
  <2>1. CASE i = n + 1
    BY <1>1, <1>2, <1>3, <1>4, <2>1
  <2>2. CASE i \in 1 .. n
    <3>1. q[f[i]] = c[Len(x) + i] /\ Len(x) + i \in 1 .. Len(c)
      BY <1>3, <2>2 DEF Holds
    <3> QED
      BY <1>1, <1>2, <1>5, <2>2, <3>1
  <2> QED
    BY <1>6, <2>1, <2>2
<1>10. ASSUME NEW k \in 1 .. Len(Q), Q[k] \in K
       PROVE  \E i \in 1 .. n + 1 : g[i] = k
  <2>1. CASE k = Len(q) + 1
    BY <1>4, <2>1
  <2>2. CASE k \in 1 .. Len(q)
    <3>1. PICK i \in 1 .. n : f[i] = k
      BY <1>1, <1>10, <2>2, Zenon DEF Holds
    <3> QED
      BY <1>5, <3>1, Zenon
  <2> QED
    BY <1>1, <1>3, <2>1, <2>2
<1>11. Len(C) = Len(x) + (n + 1)
  BY <1>2, <1>3
<1>12. Holds(K, Q, C, x, n + 1, g)
  BY <1>7, <1>8, <1>9, <1>10, <1>11 DEF Holds
<1> QED
  BY <1>12 DEF Q, C

\* What Tail does.
LEMMA TailFacts ==
  ASSUME NEW H, NEW q \in Seq(H), q # <<>>
  PROVE  /\ Len(q) \in Nat /\ Len(q) > 0
         /\ Len(Tail(q)) = Len(q) - 1
         /\ \A k \in 1 .. Len(q) - 1 : Tail(q)[k] = q[k + 1]
         /\ Tail(q) \in Seq(H)
         /\ Head(q) = q[1]
OBVIOUS

LEMMA HoldsRun ==
  ASSUME NEW K, NEW H, NEW q \in Seq(H), NEW c \in Seq(K), NEW x \in Seq(K),
         NEW n \in Nat, NEW f, Holds(K, q, c, x, n, f), q # <<>>, q[1] \in K
  PROVE  /\ n - 1 \in Nat
         /\ q[1] = c[Len(x) + 1]
         /\ \E g : Holds(K, Tail(q), c, Append(x, q[1]), n - 1, g)
PROOF
<1> DEFINE g == [i \in 1 .. n - 1 |-> f[i + 1] - 1]
           Q == Tail(q)
           X == Append(x, q[1])
<1>1. /\ Len(q) \in Nat /\ Len(q) > 0
      /\ Len(Q) = Len(q) - 1
      /\ \A k \in 1 .. Len(q) - 1 : Q[k] = q[k + 1]
  BY TailFacts
<1>2. Len(X) = Len(x) + 1 /\ Len(x) \in Nat /\ Len(c) = Len(x) + n
  BY DEF Holds
<1>3. PICK m \in 1 .. n : f[m] = 1
  <2>1. 1 \in 1 .. Len(q)
    BY <1>1
  <2> QED
    BY <2>1, Zenon DEF Holds
<1>4. 1 \in 1 .. n /\ f[1] \in 1 .. Len(q)
  BY <1>3 DEF Holds
<1>5. m = 1
  <2>1. 1 < m => f[1] < f[m]
    BY <1>3, <1>4 DEF Holds
  <2> QED
    BY <1>1, <1>3, <1>4, <2>1
<1>6. q[1] = c[Len(x) + 1]
  BY <1>3, <1>4, <1>5 DEF Holds
<1>7. ASSUME NEW i \in 1 .. n - 1
      PROVE  i + 1 \in 1 .. n /\ f[i + 1] \in 2 .. Len(q) /\ g[i] = f[i + 1] - 1
  <2>1. i + 1 \in 1 .. n /\ 1 < i + 1
    OBVIOUS
  <2>2. f[i + 1] \in 1 .. Len(q) /\ f[1] < f[i + 1]
    BY <1>4, <2>1 DEF Holds
  <2> QED
    BY <1>1, <1>3, <1>5, <2>1, <2>2
<1>8. g \in [1 .. n - 1 -> 1 .. Len(Q)]
  <2>1. \A i \in 1 .. n - 1 : g[i] \in 1 .. Len(q) - 1
    BY <1>1, <1>7
  <2> QED
    BY <1>1, <2>1
<1> HIDE DEF g, Q, X
<1>9. ASSUME NEW i \in 1 .. n - 1, NEW j \in 1 .. n - 1, i < j
      PROVE  g[i] < g[j]
  <2>1. i + 1 \in 1 .. n /\ j + 1 \in 1 .. n /\ i + 1 < j + 1
    BY <1>9
  <2>2. f[i + 1] < f[j + 1]
    BY <2>1, Zenon DEF Holds
  <2>3. /\ g[i] = f[i + 1] - 1 /\ f[i + 1] \in 2 .. Len(q)
        /\ g[j] = f[j + 1] - 1 /\ f[j + 1] \in 2 .. Len(q)
    BY <1>7, Zenon
  <2> QED
    BY <1>1, <2>2, <2>3
<1>10. ASSUME NEW i \in 1 .. n - 1
       PROVE  Q[g[i]] = c[Len(X) + i]
  <2>1. q[f[i + 1]] = c[Len(x) + (i + 1)]
    BY <1>7, Zenon DEF Holds
  <2>2. Q[g[i]] = q[f[i + 1]]
    BY <1>1, <1>7
  <2>3. Len(x) + (i + 1) = Len(X) + i
    BY <1>2
  <2> QED
    BY <2>1, <2>2, <2>3
<1>11. ASSUME NEW k \in 1 .. Len(Q), Q[k] \in K
       PROVE  \E i \in 1 .. n - 1 : g[i] = k
  <2>1. k + 1 \in 1 .. Len(q) /\ q[k + 1] \in K /\ k \in 1 .. Len(q) - 1
    BY <1>1, <1>11
  <2>2. PICK i \in 1 .. n : f[i] = k + 1
    BY <2>1 DEF Holds
  <2>3. i # 1
    BY <1>3, <1>5, <2>1, <2>2
  <2>4. i - 1 \in 1 .. n - 1 /\ (i - 1) + 1 = i
    BY <2>3
  <2>5. g[i - 1] = k
    <3>1. g[i - 1] = f[(i - 1) + 1] - 1
      BY <1>7, <2>4
    <3> QED
      BY <1>1, <2>1, <2>2, <2>4, <3>1
  <2> QED
    BY <2>4, <2>5
<1>12. Len(c) = Len(X) + (n - 1)
  BY <1>2
<1>13. Holds(K, Q, c, X, n - 1, g)
  BY <1>8, <1>9, <1>10, <1>11, <1>12, Zenon DEF Holds
<1> QED
  BY <1>4, <1>6, <1>13 DEF Q, X

LEMMA HoldsDropped ==
  ASSUME NEW K, NEW H, NEW q \in Seq(H), NEW c \in Seq(K), NEW x \in Seq(K),
         NEW n \in Nat, NEW f, Holds(K, q, c, x, n, f), q # <<>>, q[1] \notin K
  PROVE  \E g : Holds(K, Tail(q), c, x, n, g)
PROOF
<1> DEFINE g == [i \in 1 .. n |-> f[i] - 1]
           Q == Tail(q)
<1>1. /\ Len(q) \in Nat /\ Len(q) > 0
      /\ Len(Q) = Len(q) - 1
      /\ \A k \in 1 .. Len(q) - 1 : Q[k] = q[k + 1]
  BY TailFacts
<1>2. Len(x) \in Nat /\ Len(c) = Len(x) + n
  BY DEF Holds
<1>3. ASSUME NEW i \in 1 .. n
      PROVE  f[i] \in 2 .. Len(q) /\ g[i] = f[i] - 1
  <2>1. Len(x) + i \in 1 .. Len(c)
    BY <1>2
  <2>2. c[Len(x) + i] \in K
    BY <2>1
  <2>3. f[i] \in 1 .. Len(q) /\ f[i] # 1
    BY <2>2 DEF Holds
  <2> QED
    BY <1>1, <2>3
<1>4. g \in [1 .. n -> 1 .. Len(Q)]
  <2>1. \A i \in 1 .. n : g[i] \in 1 .. Len(q) - 1
    BY <1>1, <1>3
  <2> QED
    BY <1>1, <2>1
<1> HIDE DEF g, Q
<1>5. ASSUME NEW i \in 1 .. n, NEW j \in 1 .. n, i < j
      PROVE  g[i] < g[j]
  <2>1. f[i] < f[j]
    BY <1>5 DEF Holds
  <2> QED
    BY <1>1, <1>3, <2>1
<1>6. ASSUME NEW i \in 1 .. n
      PROVE  Q[g[i]] = c[Len(x) + i]
  <2>1. Q[g[i]] = q[f[i]]
    BY <1>1, <1>3
  <2> QED
    BY <2>1 DEF Holds
<1>7. ASSUME NEW k \in 1 .. Len(Q), Q[k] \in K
      PROVE  \E i \in 1 .. n : g[i] = k
  <2>1. k + 1 \in 1 .. Len(q) /\ q[k + 1] \in K /\ k \in 1 .. Len(q) - 1
    BY <1>1, <1>7
  <2>2. PICK i \in 1 .. n : f[i] = k + 1
    BY <2>1 DEF Holds
  <2>3. g[i] = k
    <3>1. g[i] = f[i] - 1
      BY <1>3
    <3> QED
      BY <1>1, <2>1, <2>2, <3>1
  <2> QED
    BY <2>3
<1>8. Holds(K, Q, c, x, n, g)
  BY <1>2, <1>4, <1>5, <1>6, <1>7 DEF Holds
<1> QED
  BY <1>8 DEF Q

\* What Append does.
LEMMA AppendOneFacts ==
  ASSUME NEW H, NEW q \in Seq(H), NEW h \in H
  PROVE  /\ Append(q, h) \in Seq(H)
         /\ Len(q) \in Nat
         /\ Len(Append(q, h)) = Len(q) + 1
         /\ \A k \in 1 .. Len(q) : Append(q, h)[k] = q[k]
         /\ Append(q, h)[Len(q) + 1] = h
OBVIOUS

\* The queue of the io_context: the commands in it are those still to be carried
\* out, and behind the task that "quit" posted there are none.
QueueInv ==
  /\ \E n \in Nat : \E f : Holds(Base!Commands, queue, entered, executed, n, f)
  /\ \A i \in 1 .. Len(executed) : entered[i] = executed[i]
  /\ ~signalled => \A k \in 1 .. Len(queue) : queue[k] \notin {"signal", "stop"}
  /\ \A k \in 1 .. Len(queue) :
       queue[k] = "stop_all" =>
         /\ input = "finished"
         /\ \A j \in k .. Len(queue) : queue[j] \notin Base!Commands
  /\ ~run /\ ~signalled => executed = entered /\ input = "finished"

LEMMA BaseTypesStep ==
  ASSUME Base!TypeOK, [Base!Next]_Base!vars
  PROVE  Base!TypeOK'
PROOF
<1> USE DEF Base!TypeOK
<1>1. CASE Base!TypeLine
  BY <1>1, PartsAssumption DEF Base!TypeLine
<1>2. CASE Base!EndOfInput \/ Base!SkipLine \/ Base!RejectLine \/ Base!ReadAgain
  BY <1>2 DEF Base!EndOfInput, Base!SkipLine, Base!RejectLine, Base!ReadAgain
<1>3. CASE Base!Signal
  BY <1>3 DEF Base!Signal, Base!Handlers
<1>4. CASE Base!Quit
  BY <1>4 DEF Base!Quit, Base!StopsByTask, Base!Handlers
<1>5. CASE Base!PostCommand
  BY <1>5 DEF Base!PostCommand, Base!Handlers
<1>6. CASE Base!RunHandler
  BY <1>6 DEF Base!RunHandler, Base!Handlers
<1>7. CASE Base!Exit
  BY <1>7 DEF Base!Exit, Base!Joins
<1>8. CASE UNCHANGED Base!vars
  BY <1>8 DEF Base!vars
<1> QED
  BY <1>1, <1>2, <1>3, <1>4, <1>5, <1>6, <1>7, <1>8 DEF Base!Next

LEMMA CommandsAreHandlers ==
  /\ Base!Commands \subseteq Base!Handlers
  /\ {"signal", "stop_all", "stop"} \subseteq Base!Handlers \ Base!Commands
BY DEF Base!Commands, Base!Handlers

\* The steps that post a handler.
LEMMA QueueGrows ==
  ASSUME Base!TypeOK, QueueInv, Base!Signal \/ Base!Quit \/ Base!PostCommand
  PROVE  QueueInv'
PROOF
<1> DEFINE K == Base!Commands
           H == Base!Handlers
<1>t. queue \in Seq(H) /\ entered \in Seq(K) /\ executed \in Seq(K)
  BY DEF Base!TypeOK
<1> PICK n \in Nat : \E f : Holds(K, queue, entered, executed, n, f)
  BY DEF QueueInv
<1> PICK f : Holds(K, queue, entered, executed, n, f)
  OBVIOUS
<1> HIDE DEF K, H
<1>1. CASE Base!Signal
  <2>1. /\ queue' = Append(queue, "signal") /\ signalled' = TRUE /\ run
        /\ UNCHANGED <<input, run, entered, executed>>
    BY <1>1 DEF Base!Signal
  <2>2. "signal" \in H \ K
    BY CommandsAreHandlers DEF K, H
  <2>3. Holds(K, queue', entered, executed, n, f)
    BY <1>t, <2>1, <2>2, HoldsOther
  <2>4. \A k \in 1 .. Len(queue') :
          queue'[k] = "stop_all" =>
            /\ input = "finished"
            /\ \A j \in k .. Len(queue') : queue'[j] \notin K
    BY <1>t, <2>1, <2>2, AppendOneFacts DEF QueueInv, K
  <2> QED
    BY <2>1, <2>3, <2>4 DEF QueueInv, K
<1>2. CASE Base!Quit
  <2>1. /\ queue' = Append(queue, "stop_all") /\ input = "command" /\ input' = "finished"
        /\ UNCHANGED <<signalled, run, entered, executed>>
    BY <1>2 DEF Base!Quit, Base!StopsByTask
  <2>2. "stop_all" \in H \ K
    BY CommandsAreHandlers DEF K, H
  <2>3. Holds(K, queue', entered, executed, n, f)
    BY <1>t, <2>1, <2>2, HoldsOther
  <2>4. \A k \in 1 .. Len(queue') :
          queue'[k] = "stop_all" => \A j \in k .. Len(queue') : queue'[j] \notin K
    BY <1>t, <2>1, <2>2, AppendOneFacts DEF QueueInv
  <2>5. ~signalled => \A k \in 1 .. Len(queue') : queue'[k] \notin {"signal", "stop"}
    BY <1>t, <2>1, <2>2, AppendOneFacts DEF QueueInv
  <2> QED
    BY <2>1, <2>3, <2>4, <2>5 DEF QueueInv, K
<1>3. CASE Base!PostCommand
  <2>1. /\ line \in K /\ queue' = Append(queue, line) /\ entered' = Append(entered, line)
        /\ input = "command"
        /\ UNCHANGED <<signalled, run, executed>>
    BY <1>3 DEF Base!PostCommand, K
  <2>2. line \in H /\ line \notin {"signal", "stop_all", "stop"}
    BY <2>1, CommandsAreHandlers DEF K, H
  <2>3. \E g : Holds(K, queue', entered', executed, n + 1, g)
    BY <1>t, <2>1, HoldsPosted
  <2>4. \A k \in 1 .. Len(queue') : queue'[k] # "stop_all"
    BY <1>t, <2>1, <2>2, AppendOneFacts DEF QueueInv
  <2>5. ~signalled => \A k \in 1 .. Len(queue') : queue'[k] \notin {"signal", "stop"}
    BY <1>t, <2>1, <2>2, AppendOneFacts DEF QueueInv
  <2>6. \A i \in 1 .. Len(executed) : entered'[i] = executed[i]
    <3>1. Len(entered) = Len(executed) + n /\ Len(executed) \in Nat
      BY <1>t DEF Holds
    <3> QED
      BY <1>t, <2>1, <3>1, AppendOneFacts DEF QueueInv
  <2>7. n + 1 \in Nat /\ (run \/ signalled)
    BY <2>1 DEF QueueInv
  <2> QED
    BY <2>1, <2>3, <2>4, <2>5, <2>6, <2>7, Zenon DEF QueueInv, K
<1> QED
  BY <1>1, <1>2, <1>3

\* io_context.run() takes the head of the queue.
LEMMA QueueShrinks ==
  ASSUME Base!TypeOK, QueueInv, Base!RunHandler
  PROVE  QueueInv'
PROOF
<1> DEFINE K == Base!Commands
           H == Base!Handlers
<1>t. queue \in Seq(H) /\ entered \in Seq(K) /\ executed \in Seq(K)
  BY DEF Base!TypeOK
<1> PICK n \in Nat : \E f : Holds(K, queue, entered, executed, n, f)
  BY DEF QueueInv
<1> PICK f : Holds(K, queue, entered, executed, n, f)
  OBVIOUS
<1> HIDE DEF K, H
<1> DEFINE Q == Tail(queue)
<1>1. queue # <<>> /\ run /\ UNCHANGED <<input, signalled, entered>>
  BY DEF Base!RunHandler
<1>2. /\ Len(queue) \in Nat /\ Len(queue) > 0 /\ Q \in Seq(H)
      /\ Len(Q) = Len(queue) - 1
      /\ \A k \in 1 .. Len(Q) : Q[k] = queue[k + 1]
      /\ Head(queue) = queue[1]
  BY <1>t, <1>1, TailFacts
<1>3. /\ queue' = IF queue[1] = "signal" THEN Append(Q, "stop") ELSE Q
      /\ run' = (queue[1] \notin {"stop", "stop_all"})
      /\ executed' = IF queue[1] \in K THEN Append(executed, queue[1]) ELSE executed
  BY <1>2 DEF Base!RunHandler, K
<1> HIDE DEF Q
<1>4. {"signal", "stop_all", "stop"} \subseteq H \ K
  BY CommandsAreHandlers DEF K, H
<1>5. /\ queue[1] # "signal" =>
           \A k \in 1 .. Len(queue') : queue'[k] = queue[k + 1] /\ k + 1 \in 1 .. Len(queue)
      /\ queue[1] = "signal" =>
           /\ signalled
           /\ Len(queue') = Len(queue)
           /\ queue'[Len(queue)] = "stop"
           /\ \A k \in 1 .. Len(queue) - 1 : queue'[k] = queue[k + 1] /\ k + 1 \in 1 .. Len(queue)
      /\ Len(queue') \in Nat
  <2>1. CASE queue[1] # "signal"
    BY <1>2, <1>3, <2>1
  <2>2. CASE queue[1] = "signal"
    <3>1. signalled
      BY <1>2, <2>2 DEF QueueInv
    <3>2. queue' = Append(Q, "stop") /\ "stop" \in H
      BY <1>3, <1>4, <2>2
    <3>3. Len(queue') = Len(Q) + 1 /\ queue'[Len(Q) + 1] = "stop" /\ \A k \in 1 .. Len(Q) : queue'[k] = Q[k]
      BY <1>2, <3>2, AppendOneFacts
    <3> QED
      BY <1>2, <2>2, <3>1, <3>3
  <2> QED
    BY <2>1, <2>2
<1>6. ASSUME NEW k \in 1 .. Len(queue'), queue'[k] = "stop_all"
      PROVE  /\ input = "finished"
             /\ \A j \in k .. Len(queue') : queue'[j] \notin K
  <2>1. k + 1 \in 1 .. Len(queue) /\ queue[k + 1] = "stop_all"
    BY <1>2, <1>5, <1>6
  <2>2. input = "finished" /\ \A j \in k + 1 .. Len(queue) : queue[j] \notin K
    BY <2>1 DEF QueueInv, K
  <2>3. ASSUME NEW j \in k .. Len(queue')
        PROVE  queue'[j] \notin K
    <3>1. \/ queue'[j] = "stop"
          \/ queue'[j] = queue[j + 1] /\ j + 1 \in k + 1 .. Len(queue)
      BY <1>2, <1>5
    <3> QED
      BY <1>4, <2>2, <3>1
  <2> QED
    BY <2>2, <2>3
<1>7. ~signalled => \A k \in 1 .. Len(queue') : queue'[k] \notin {"signal", "stop"}
  BY <1>5 DEF QueueInv
<1>8. CASE queue[1] \in K
  <2>1. /\ n - 1 \in Nat
        /\ queue[1] = entered[Len(executed) + 1]
        /\ \E g : Holds(K, Q, entered, Append(executed, queue[1]), n - 1, g)
    BY <1>t, <1>1, <1>8, HoldsRun DEF Q
  <2>2. queue' = Q /\ executed' = Append(executed, queue[1]) /\ run' = TRUE
    BY <1>3, <1>4, <1>8, Zenon
  <2>3. \A i \in 1 .. Len(executed') : entered[i] = executed'[i]
    <3>1. /\ Len(executed) \in Nat /\ Len(executed') = Len(executed) + 1
          /\ \A i \in 1 .. Len(executed) : executed'[i] = executed[i]
          /\ executed'[Len(executed) + 1] = queue[1]
      BY <1>t, <1>8, <2>2, AppendOneFacts
    <3> QED
      BY <2>1, <3>1 DEF QueueInv
  <2>4. \E m \in Nat : \E g : Holds(K, queue', entered, executed', m, g)
    BY <2>1, <2>2
  <2> QED
    BY <1>1, <1>6, <1>7, <2>2, <2>3, <2>4 DEF QueueInv, K
<1>9. CASE queue[1] \notin K
  <2>1. PICK g : Holds(K, Q, entered, executed, n, g)
    BY <1>t, <1>1, <1>9, HoldsDropped DEF Q
  <2>2. Holds(K, queue', entered, executed, n, g)
    BY <1>t, <1>2, <1>3, <1>4, <2>1, HoldsOther
  <2>3. executed' = executed
    BY <1>3, <1>9
  <2>4. ~run' /\ ~signalled => executed = entered /\ input = "finished"
    <3> SUFFICES ASSUME ~run', ~signalled PROVE executed = entered /\ input = "finished"
      OBVIOUS
    <3>1. queue[1] = "stop_all"
      <4>1. queue[1] \in {"stop", "stop_all"}
        BY <1>3, Zenon
      <4>2. 1 \in 1 .. Len(queue)
        BY <1>2
      <4> QED
        BY <4>1, <4>2 DEF QueueInv
    <3>2. input = "finished" /\ \A j \in 1 .. Len(queue) : queue[j] \notin K
      BY <1>2, <3>1 DEF QueueInv, K
    <3>3. n = 0
      <4> SUFFICES ASSUME n # 0 PROVE FALSE
        OBVIOUS
      <4>1. 1 \in 1 .. n /\ Len(executed) + 1 \in 1 .. Len(entered)
        BY <1>t DEF Holds
      <4>2. f[1] \in 1 .. Len(queue) /\ queue[f[1]] = entered[Len(executed) + 1]
        BY <4>1 DEF Holds
      <4> QED
        BY <1>t, <3>2, <4>1, <4>2
    <3>4. Len(entered) = Len(executed)
      BY <1>t, <3>3 DEF Holds
    <3>5. \A i \in 1 .. Len(executed) : entered[i] = executed[i]
      BY DEF QueueInv
    <3> QED
      BY <1>t, <3>2, <3>4, <3>5
  <2> QED
    BY <1>1, <1>6, <1>7, <2>2, <2>3, <2>4 DEF QueueInv, K
<1> QED
  BY <1>8, <1>9

LEMMA QueueStep ==
  ASSUME Base!TypeOK, QueueInv, [Base!Next]_Base!vars
  PROVE  QueueInv'
PROOF
<1>1. ASSUME \/ Base!TypeLine \/ Base!EndOfInput \/ Base!SkipLine \/ Base!RejectLine
             \/ Base!ReadAgain \/ Base!Exit \/ UNCHANGED Base!vars
      PROVE  /\ UNCHANGED <<queue, entered, executed, signalled, run>>
             /\ input = "finished" => input' = "finished"
  BY <1>1 DEF Base!TypeLine, Base!EndOfInput, Base!SkipLine, Base!RejectLine,
     Base!ReadAgain, Base!Exit, Base!vars
<1>2. ASSUME UNCHANGED <<queue, entered, executed, signalled, run>>,
             input = "finished" => input' = "finished"
      PROVE  QueueInv'
  BY <1>2 DEF QueueInv
<1> QED
  BY <1>1, <1>2, QueueGrows, QueueShrinks DEF Base!Next

\* command_input_thread and the main thread: commands are carried out in the order
\* they were typed in, and when the program was ended with "quit" none that was
\* accepted before is left out, for any number of lines and any interleaving of
\* the two threads and the signal.
THEOREM CommandsAreCarriedOut ==
  Base!Spec => [](Base!TypeOK /\ AcceptedIsExecuted)
PROOF
<1>1. Base!Init => Base!TypeOK /\ QueueInv
  <2> SUFFICES ASSUME Base!Init PROVE Base!TypeOK /\ QueueInv
    OBVIOUS
  <2>1. Base!TypeOK
    <3>1. /\ line \in Base!Lines /\ lines \in 0 .. MaxLines
          /\ input \in {"getline", "command", "again", "finished"}
          /\ queue \in Seq(Base!Handlers)
          /\ entered \in Seq(Base!Commands) /\ executed \in Seq(Base!Commands)
      BY PartsAssumption DEF Base!Init, Base!Lines
    <3>2. /\ shutdown_requested \in BOOLEAN /\ run \in BOOLEAN /\ signalled \in BOOLEAN
          /\ exited \in BOOLEAN /\ ~exited
      BY Zenon DEF Base!Init
    <3> QED
      BY <3>1, <3>2, Zenon DEF Base!TypeOK
  <2>2. queue = <<>> /\ entered = <<>> /\ executed = <<>> /\ run
    BY DEF Base!Init
  <2>3. Len(queue) = 0 /\ Len(entered) = 0 /\ Len(executed) = 0
    BY <2>2
  <2>4. Holds(Base!Commands, queue, entered, executed, 0, <<>>)
    BY <2>2, <2>3 DEF Holds
  <2>5. \E n \in Nat : \E f : Holds(Base!Commands, queue, entered, executed, n, f)
    BY <2>4
  <2> QED
    BY <2>1, <2>2, <2>3, <2>5 DEF QueueInv
<1>2. Base!TypeOK /\ QueueInv /\ [Base!Next]_Base!vars => Base!TypeOK' /\ QueueInv'
  BY BaseTypesStep, QueueStep
<1>3. Base!TypeOK /\ QueueInv => AcceptedIsExecuted
  <2> SUFFICES ASSUME Base!TypeOK, QueueInv PROVE AcceptedIsExecuted
    OBVIOUS
  <2>1. entered \in Seq(Base!Commands) /\ executed \in Seq(Base!Commands)
    BY DEF Base!TypeOK
  <2>2. Len(executed) \in Nat /\ Len(entered) \in Nat /\ Len(executed) <= Len(entered)
    BY <2>1 DEF QueueInv, Holds
  <2>3. \A i \in 1 .. Len(executed) : entered[i] = executed[i]
    BY DEF QueueInv
  <2>4. executed = SubSeq(entered, 1, Len(executed))
    BY <2>1, <2>2, <2>3
  <2> QED
    BY <2>4 DEF QueueInv, AcceptedIsExecuted, Base!AcceptedIsExecuted
<1> QED
  BY <1>1, <1>2, <1>3, PTL DEF Base!Spec

=============================================================================
