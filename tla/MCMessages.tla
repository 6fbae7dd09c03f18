----------------------------- MODULE MCMessages -----------------------------
(***************************************************************************)
(* Messages and other texts for a small instance of MessageManager.        *)
(***************************************************************************)
EXTENDS MessageFormat

Message(type, own) == [type |-> type, own |-> own, sender |-> "rover", time |-> "t1"]

\* One message of each class, and every level of a status.
MCMessages ==
  {Message("BasicMessage", [content |-> String("hello")]),
   Message("CommandMessage", [command |-> String("SESSION_INIT"), params |-> String("")]),
   Message("TelemetryMessage", [readings |-> Readings("r1")])}
  \cup {Message("StatusMessage", [level |-> String(l), description |-> String("d")]) :
          l \in Levels}

\* A document with the field f dropped, or with the value v in it.
Without(t, f) == [t EXCEPT !.doc = [g \in DOMAIN t.doc \ {f} |-> t.doc[g]]]
With(t, f, v) == [t EXCEPT !.doc = [g \in DOMAIN t.doc |-> IF g = f THEN v ELSE t.doc[g]]]

\* Documents with a field missing or with a value of another kind or unknown,
\* and texts that are not JSON or not even text.
MCStrays ==
  LET written == {Serialise(m) : m \in MCMessages}
  IN  UNION {{Without(t, f) : f \in DOMAIN t.doc} : t \in written}
      \cup UNION {{With(t, f, [kind |-> "number", of |-> "7"]) : f \in DOMAIN t.doc} : t \in written}
      \cup UNION {{With(t, f, String("no time")) : f \in DOMAIN t.doc} : t \in written}
      \cup {[name |-> "Hi", json |-> FALSE, utf8 |-> TRUE, doc |-> <<>>],
            [name |-> "noise", json |-> FALSE, utf8 |-> FALSE, doc |-> <<>>]}

=============================================================================
