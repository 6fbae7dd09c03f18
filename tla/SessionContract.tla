--------------------------- MODULE SessionContract --------------------------
(***************************************************************************)
(* What the session handshake promises, without messages, timers, retries  *)
(* or loss: who may believe in a session, and when.  Session implements    *)
(* this specification.                                                     *)
(***************************************************************************)
EXTENDS Naturals

CONSTANTS Rovers, Endpoints, NoRover, NoEndpoint

VARIABLES
  process,      \* the endpoint of each rover's process, NoEndpoint: none
  seen,         \* the endpoints that have been used
  agreed,       \* the rovers whose present process has agreed to a session
  rover_open,   \* the rovers that take their session for open
  peer,         \* the rover and the endpoint the base station is engaged with
  base_open,    \* the base station takes that session for open
  granted       \* the pairs the base station has ever opened a session for

contractVars == <<process, seen, agreed, rover_open, peer, base_open, granted>>

NoPeer == <<NoRover, NoEndpoint>>

Alive(r) == process[r] # NoEndpoint

Init ==
  /\ process = [r \in Rovers |-> NoEndpoint]
  /\ seen = {}
  /\ agreed = {}
  /\ rover_open = {}
  /\ peer = NoPeer
  /\ base_open = FALSE
  /\ granted = {}

-----------------------------------------------------------------------------
(* Rovers come and go.                                                     *)

Join(r, e) ==
  /\ ~Alive(r)
  /\ e \in Endpoints \ seen
  /\ process' = [process EXCEPT ![r] = e]
  /\ seen' = seen \cup {e}
  /\ UNCHANGED <<agreed, rover_open, peer, base_open, granted>>

Leave(r) ==
  /\ Alive(r)
  /\ process' = [process EXCEPT ![r] = NoEndpoint]
  /\ agreed' = agreed \ {r}
  /\ rover_open' = rover_open \ {r}
  /\ UNCHANGED <<seen, peer, base_open, granted>>

\* A process agrees to the session it was offered; it cannot take that back.
Agree(r) ==
  /\ Alive(r)
  /\ agreed' = agreed \cup {r}
  /\ UNCHANGED <<process, seen, rover_open, peer, base_open, granted>>

\* A rover opens its side only after it has agreed, and only after the base
\* station opened its side for this very process.
RoverOpens(r) ==
  /\ Alive(r)
  /\ r \in agreed
  /\ <<r, process[r]>> \in granted
  /\ rover_open' = rover_open \cup {r}
  /\ UNCHANGED <<process, seen, agreed, peer, base_open, granted>>

RoverLoses(r) ==
  /\ rover_open' = rover_open \ {r}
  /\ UNCHANGED <<process, seen, agreed, peer, base_open, granted>>

-----------------------------------------------------------------------------
(* The base station.                                                       *)

\* It engages with a rover when it is free, or again with the one it has; its
\* side is then closed until the handshake is over.
Engage(r, e) ==
  /\ peer[1] \in {r, NoRover}
  /\ e \in seen
  /\ peer' = <<r, e>>
  /\ base_open' = FALSE
  /\ UNCHANGED <<process, seen, agreed, rover_open, granted>>

\* It opens its side only if the process it is engaged with, should that still
\* be there, has agreed.
BaseOpens ==
  /\ peer # NoPeer
  /\ \A r \in Rovers : process[r] = peer[2] => peer[1] = r /\ r \in agreed
  /\ base_open' = TRUE
  /\ granted' = granted \cup {peer}
  /\ UNCHANGED <<process, seen, agreed, rover_open, peer>>

\* It forgets its session with its process, and in no other way.
Forget ==
  /\ peer' = NoPeer
  /\ base_open' = FALSE
  /\ UNCHANGED <<process, seen, agreed, rover_open, granted>>

-----------------------------------------------------------------------------
Next ==
  \/ \E r \in Rovers : \/ \E e \in Endpoints : Join(r, e) \/ Engage(r, e)
                       \/ Leave(r)
                       \/ Agree(r)
                       \/ RoverOpens(r)
                       \/ RoverLoses(r)
  \/ BaseOpens
  \/ Forget

Spec == Init /\ [][Next]_contractVars

=============================================================================
