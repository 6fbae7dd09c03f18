---------------------------- MODULE MessageFormat ---------------------------
(***************************************************************************)
(* Messages and their texts: the four classes of include/common, their     *)
(* serialise and from_json, and Message::deserialise (src/common/          *)
(* message.cpp).                                                           *)
(*                                                                         *)
(* A text is valid JSON or not, valid UTF-8 or not, and as JSON a document:*)
(* a function from the names of its fields to their values.                *)
(***************************************************************************)

Levels == {"OK", "WARNING", "ERROR", "CRITICAL"}

\* The fields that belong to a class.
OwnFields ==
  [BasicMessage     |-> {"content"},
   CommandMessage   |-> {"command", "params"},
   TelemetryMessage |-> {"readings"},
   StatusMessage    |-> {"level", "description"}]

\* Values: strings, objects whose members are numbers, and the rest.
String(s) == [kind |-> "string", of |-> s]
Readings(r) == [kind |-> "numbers", of |-> r]
FieldKind(f) == IF f = "readings" THEN "numbers" ELSE "string"

\* A message has the fields of its class, a sender and a time.
IsMessage(m) ==
  /\ m.type \in DOMAIN OwnFields
  /\ DOMAIN m.own = OwnFields[m.type]
  /\ \A f \in DOMAIN m.own : m.own[f].kind = FieldKind(f)
  /\ m.type = "StatusMessage" => m.own["level"].of \in Levels

-----------------------------------------------------------------------------
(* Texts.                                                                  *)

\* get_lumen_priority and get_lumen_type.
Priority(m) ==
  CASE m.type = "CommandMessage" -> "HIGH"
    [] m.type \in {"BasicMessage", "TelemetryMessage"} -> "MEDIUM"
    [] m.type = "StatusMessage" -> [OK |-> "LOW", WARNING |-> "MEDIUM", ERROR |-> "HIGH",
                                    CRITICAL |-> "HIGH"][m.own["level"].of]

LumenType(m) ==
  [BasicMessage |-> "DATA", CommandMessage |-> "CMD", TelemetryMessage |-> "DATA",
   StatusMessage |-> "STATUS"][m.type]

Field(m, f) ==
  CASE f = "msg_type"  -> String(m.type)
    [] f = "sender"    -> String(m.sender)
    [] f = "timestamp" -> String(m.time)
    [] f \in DOMAIN m.own -> m.own[f]

\* serialise.
Serialise(m) ==
  [name |-> "text of a message", json |-> TRUE, utf8 |-> TRUE,
   doc  |-> [f \in {"msg_type", "sender", "timestamp"} \cup DOMAIN m.own |-> Field(m, f)]]

Has(doc, f, kind) == f \in DOMAIN doc /\ doc[f].kind = kind

\* StatusMessage::from_json knows four levels.
LevelRead(s) == IF s \in Levels THEN s ELSE "none"

\* Whether deserialise accepts the text: with msg_type and sender, the fields of
\* a known class in their kinds.  Otherwise it throws.
Deserialises(t) ==
  /\ t.json
  /\ Has(t.doc, "msg_type", "string")
  /\ Has(t.doc, "sender", "string")
  /\ t.doc["msg_type"].of \in DOMAIN OwnFields
  /\ \A f \in OwnFields[t.doc["msg_type"].of] : Has(t.doc, f, FieldKind(f))
  /\ t.doc["msg_type"].of = "StatusMessage" => LevelRead(t.doc["level"].of) # "none"

\* tp_utils::string_to_tp: a text that is no time stands for now.  tp_to_string
\* writes the seconds with all digits of the clock, so any other time is read as
\* it was written.
ParsedTime(s) == IF s = "no time" THEN "now" ELSE s

\* Plausible slip: the time stays that of the creation.
TimeOfCreation(doc) == "now"

\* The constructor takes the time of creation; a timestamp replaces it.
Time(doc) ==
  IF Has(doc, "timestamp", "string") THEN ParsedTime(doc["timestamp"].of) ELSE "now"

\* deserialise with the from_json of the class.
Deserialised(t) ==
  LET type    == t.doc["msg_type"].of
      read(f) == IF f = "level" THEN String(LevelRead(t.doc[f].of)) ELSE t.doc[f]
  IN  [type |-> type, own |-> [f \in OwnFields[type] |-> read(f)],
       sender |-> t.doc["sender"].of, time |-> Time(t.doc)]

=============================================================================
