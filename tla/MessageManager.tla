--------------------------- MODULE MessageManager ---------------------------
(***************************************************************************)
(* The way of messages through MessageManager (src/common/                 *)
(* message_manager.cpp) on either side: what it sends, the texts that      *)
(* LumenProtocol::handle_udp_data passes on without a LUMEN header, and    *)
(* the application's callback.                                             *)
(***************************************************************************)
EXTENDS MessageFormat, Naturals, FiniteSets

CONSTANTS
  Messages,      \* the messages the applications send
  Strays,        \* other texts that may arrive
  Endpoints,     \* peers, the base station among them
  base_endpoint,
  unspecified,   \* no endpoint
  MaxWire        \* bound of the model: messages on the way

VARIABLES
  running,     \* running_
  wire,        \* texts sent: with a LUMEN header (priority, type) or raw
  app          \* what the last step led to, for the properties

vars == <<running, wire, app>>

-----------------------------------------------------------------------------
Idle == [text |-> {}, sent |-> {}, raw |-> FALSE, passed |-> {}]

Init ==
  /\ running = FALSE
  /\ wire = {}
  /\ app = Idle

\* start registers handle_lumen_message with the protocol.
Start ==
  /\ ~running
  /\ running' = TRUE
  /\ app' = Idle
  /\ UNCHANGED wire

Stop ==
  /\ running
  /\ running' = FALSE
  /\ app' = Idle
  /\ UNCHANGED wire

\* A rover sends to its base station unless it is told another recipient.
Target(e) == IF e = unspecified THEN base_endpoint ELSE e

Datagram(m, e, raw) ==
  [text |-> Serialise(m), message |-> m, to |-> Target(e), raw |-> raw,
   priority |-> Priority(m), type |-> LumenType(m)]

\* send_message hands the text to the protocol, send_raw_message to the socket.
SendMessage(m, e, raw) ==
  /\ running
  /\ Cardinality(wire) < MaxWire
  /\ wire' = wire \cup {Datagram(m, e, raw)}
  /\ app' = Idle
  /\ UNCHANGED running

\* Plausible slip: an exception ends the datagram.
AcceptedAsTextNever(t) == FALSE

\* The fallback of handle_udp_data makes a BasicMessage of any text that its
\* serialise can write, which throws when it is not UTF-8.
AcceptedAsText(t) == t.utf8

Wrapped(t) ==
  [type |-> "BasicMessage", own |-> [content |-> String(t.name)],
   sender |-> "Unknown", time |-> "now"]

\* What handle_udp_data passes to the protocol's callback for a text without a
\* header.
RawTexts(t) ==
  IF Deserialises(t) THEN {t}
  ELSE IF AcceptedAsText(t) THEN {Serialise(Wrapped(t))}
  ELSE {}

\* handle_lumen_message: what reaches the application's callback; exceptions end
\* here.
HandleLumenMessage(t) ==
  IF running /\ Deserialises(t) THEN {Deserialised(t)} ELSE {}

\* A text t arrives, from the payload of a packet or raw.
Handle(t, raw, sent) ==
  LET texts == IF raw THEN RawTexts(t) ELSE {t} IN
  /\ app' = [text |-> {t}, sent |-> sent, raw |-> raw,
             passed |-> UNION {HandleLumenMessage(u) : u \in texts}]
  /\ UNCHANGED running

\* One that was sent ...
ReceiveSent(d) ==
  /\ wire' = wire \ {d}
  /\ Handle(d.text, d.raw, {d.message})

\* ... or a stray one.
ReceiveStray(t, raw) ==
  /\ Handle(t, raw, {})
  /\ UNCHANGED wire

Next ==
  \/ Start
  \/ Stop
  \/ \E m \in Messages, e \in Endpoints \cup {unspecified}, raw \in BOOLEAN :
       SendMessage(m, e, raw)
  \/ \E d \in wire : ReceiveSent(d)
  \/ \E t \in Strays, raw \in BOOLEAN : ReceiveStray(t, raw)

Spec == Init /\ [][Next]_vars

-----------------------------------------------------------------------------
(* Properties.                                                             *)

\* A message is read as it was written, by either way: what the application of
\* the sender gave, the application of the receiver gets, its time included.
ReadAsSent ==
  [][running /\ app'.sent # {} => app'.passed = app'.sent]_vars

\* A raw text is never lost while the manager runs: it is passed on once, as the
\* message it is or wrapped in a BasicMessage, unless it is no text at all.
RawTextPassedOnce ==
  [][running /\ app'.raw /\ (\A t \in app'.text : t.utf8)
       => Cardinality(app'.passed) = 1]_vars

=============================================================================
