--------------------------- MODULE DeliveryContract -------------------------
(***************************************************************************)
(* What the application of a rover may rely on when it sends messages to   *)
(* the base station: a message it holds for delivered has been passed on   *)
(* at the other end, and in the end every message is either held for       *)
(* delivered or the base station is reported lost.  LumenLink implements   *)
(* this as long as no sequence number is used for a second message.        *)
(***************************************************************************)
EXTENDS Naturals

CONSTANT Messages

VARIABLES
  sent,       \* messages handed over
  passed,     \* messages passed on at the other end
  held,       \* messages the sender holds for delivered
  lost        \* the loss of the other end has been reported

deliveryVars == <<sent, passed, held, lost>>

Init ==
  /\ sent = {}
  /\ passed = {}
  /\ held = {}
  /\ lost = FALSE

Send(m) ==
  /\ m \notin sent
  /\ sent' = sent \cup {m}
  /\ UNCHANGED <<passed, held, lost>>

PassOn(m) ==
  /\ m \in sent
  /\ passed' = passed \cup {m}
  /\ UNCHANGED <<sent, held, lost>>

Confirm(m) ==
  /\ m \in passed
  /\ held' = held \cup {m}
  /\ UNCHANGED <<sent, passed, lost>>

ReportLoss ==
  /\ lost' = TRUE
  /\ UNCHANGED <<sent, passed, held>>

\* The sender starts again.
StartAgain ==
  /\ lost' = FALSE
  /\ UNCHANGED <<sent, passed, held>>

Next ==
  \/ \E m \in Messages : Send(m) \/ PassOn(m) \/ Confirm(m)
  \/ ReportLoss
  \/ StartAgain

Spec == Init /\ [][Next]_deliveryVars

Settled(m) == m \in held \/ lost

\* Nothing is left hanging.
EverySettles == \A m \in Messages : m \in sent ~> Settled(m)

=============================================================================
