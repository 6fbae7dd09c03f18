---------------------------- MODULE MCScenarios ----------------------------
(***************************************************************************)
(* Session in three surroundings, each too large to be combined with the   *)
(* others.                                                                 *)
(***************************************************************************)
EXTENDS Session, TLC

VARIABLE scenario

EndpointSymmetry == Permutations(Endpoints)

\* The rover that is there in every scenario.
First == CHOOSE r \in Rovers : TRUE

\* A payload that is not of priority HIGH.
Ordinary == CHOOSE p \in Payloads : p \notin HighPriority

\* What the surroundings do.  "store": one rover, which does not end, stores
\* messages and is told to save power.  "restart": one rover, with a store of one
\* message, that ends and is started again from another endpoint; the base station
\* restarts too.  "rivals": two rovers, and a base station that does not end.
Scenarios == {"store", "restart", "rivals"}

InScenario ==
  /\ scenario # "rivals" => \A r \in Rovers \ {First} : ~Running(r)'
  /\ scenario # "restart" =>
       /\ base_running => base_running'
       /\ \A r \in Rovers : handshake_retry_count'[r] = 0
  /\ scenario = "store" => \A r \in Rovers : Running(r) => Running(r)'
  /\ scenario = "restart" => \A r \in Rovers : stored_packets'[r] \in {<<>>, <<Ordinary>>}
  /\ scenario = "rivals" => \A r \in Rovers : stored_packets'[r] = <<>>
  /\ scenario # "store" =>
       /\ \A m \in uplink' : m.content \notin HighPriority
       /\ \A m \in downlink' : m.content \notin Orders

ScenarioInit == Init /\ scenario \in Scenarios

ScenarioNext == Next /\ InScenario /\ UNCHANGED scenario

ScenarioSpec == ScenarioInit /\ [][ScenarioNext]_<<vars, scenario>>

=============================================================================
