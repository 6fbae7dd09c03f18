-------------------------- MODULE NumberedDelivery --------------------------
(***************************************************************************)
(* Why an acknowledgement is a proof of delivery: messages that go by a    *)
(* number, copies of them that may be kept, lost, repeated and overtaken,  *)
(* and acknowledgements that name nothing but the number.  Between         *)
(* LumenLink, of which it keeps what the argument needs, and               *)
(* DeliveryContract, which it implements.                                  *)
(***************************************************************************)
EXTENDS TLAPS

CONSTANTS Messages, Numbers

VARIABLES
  used,       \* the messages sent, each with its number
  copies,     \* numbered messages in the network or kept for retransmission
  settled,    \* numbers remembered as acknowledged, or in an acknowledgement
  sent, passed, held, lost      \* as in DeliveryContract

Contract == INSTANCE DeliveryContract

numberedVars == <<used, copies, settled, sent, passed, held, lost>>

Init ==
  /\ used = {}
  /\ copies = {}
  /\ settled = {}
  /\ sent = {}
  /\ passed = {}
  /\ held = {}
  /\ lost = FALSE

\* Copies and acknowledgements get lost.
Forget == copies' \subseteq copies /\ settled' \subseteq settled

\* A number stands for one message only.
Send(m, s) ==
  /\ m \notin sent
  /\ \A c \in used : c[1] # s
  /\ used' = used \cup {<<s, m>>}
  /\ copies' \subseteq copies \cup {<<s, m>>}
  /\ settled' \subseteq settled
  /\ sent' = sent \cup {m}
  /\ UNCHANGED <<passed, held, lost>>

\* A copy of message m arrives under number s; it is passed on unless the number
\* is taken for settled, which it is then in any case.
Arrive(m, s) ==
  /\ <<s, m>> \in copies
  /\ \/ s \in settled /\ passed' = passed
     \/ passed' = passed \cup {m}
  /\ copies' \subseteq copies
  /\ settled' \subseteq settled \cup {s}
  /\ UNCHANGED <<used, sent, held, lost>>

\* The copy of m kept under number s is dropped for an acknowledgement of s.
Confirm(m, s) ==
  /\ <<s, m>> \in copies
  /\ s \in settled
  /\ held' = held \cup {m}
  /\ Forget
  /\ UNCHANGED <<used, sent, passed, lost>>

\* The other end is reported lost, or it is found again.
Report ==
  /\ lost' \in BOOLEAN
  /\ Forget
  /\ UNCHANGED <<used, sent, passed, held>>

Next ==
  \/ \E m \in Messages, s \in Numbers : Send(m, s) \/ Arrive(m, s) \/ Confirm(m, s)
  \/ Report

Spec == Init /\ [][Next]_numberedVars

\* The message a number stands for is the one of every copy, and it has been
\* passed on if the number is settled.
Sound ==
  /\ used \subseteq Numbers \X Messages
  /\ \A c, d \in used : c[1] = d[1] => c = d
  /\ \A c \in used : c[2] \in sent
  /\ copies \subseteq used
  /\ \A s \in settled : \E c \in used : c[1] = s /\ c[2] \in passed
  /\ held \subseteq passed
  /\ lost \in BOOLEAN

LEMMA SoundInit == Init => Sound /\ Contract!Init
BY DEF Init, Sound, Contract!Init

LEMMA SoundStep ==
  ASSUME Sound, [Next]_numberedVars
  PROVE  Sound' /\ [Contract!Next]_Contract!deliveryVars
PROOF
<1>1. ASSUME NEW m \in Messages, NEW s \in Numbers, Send(m, s)
      PROVE  Sound' /\ [Contract!Next]_Contract!deliveryVars
  <2>1. Contract!Send(m)
    BY <1>1 DEF Send, Contract!Send
  <2>2. used' \subseteq Numbers \X Messages /\ \A c \in used' : c[2] \in sent'
    BY <1>1 DEF Send, Sound
  <2>3. \A c, d \in used' : c[1] = d[1] => c = d
    BY <1>1 DEF Send, Sound
  <2>4. copies' \subseteq used' /\ held' \subseteq passed' /\ lost' \in BOOLEAN
    BY <1>1 DEF Send, Sound
  <2>5. \A t \in settled' : \E c \in used' : c[1] = t /\ c[2] \in passed'
    BY <1>1 DEF Send, Sound
  <2> QED
    BY <1>1, <2>1, <2>2, <2>3, <2>4, <2>5 DEF Sound, Contract!Next
<1>2. ASSUME NEW m \in Messages, NEW s \in Numbers, Arrive(m, s)
      PROVE  Sound' /\ [Contract!Next]_Contract!deliveryVars
  <2>1. <<s, m>> \in used /\ m \in sent
    BY <1>2 DEF Arrive, Sound
  <2>2. passed' = passed \cup {m}
    <3>1. CASE s \in settled /\ passed' = passed
      <4>1. PICK c \in used : c[1] = s /\ c[2] \in passed
        BY <3>1 DEF Sound
      <4>2. c = <<s, m>>
        BY <2>1, <4>1 DEF Sound
      <4> QED
        BY <3>1, <4>1, <4>2
    <3> QED
      BY <1>2, <3>1 DEF Arrive
  <2>3. Contract!PassOn(m)
    BY <1>2, <2>1, <2>2 DEF Arrive, Contract!PassOn
  <2>4. ASSUME NEW t \in settled'
        PROVE  \E c \in used' : c[1] = t /\ c[2] \in passed'
    <3>1. CASE t = s
      <4>1. <<s, m>>[1] = t /\ <<s, m>>[2] \in passed' /\ <<s, m>> \in used'
        BY <1>2, <2>1, <2>2, <3>1 DEF Arrive
      <4> QED
        BY <4>1
    <3>2. CASE t \in settled
      BY <1>2, <2>2, <3>2 DEF Arrive, Sound
    <3> QED
      BY <1>2, <3>1, <3>2 DEF Arrive
  <2>5. used' = used /\ sent' = sent /\ copies' \subseteq used /\ held' \subseteq passed'
    BY <1>2, <2>2 DEF Arrive, Sound
  <2>6. Sound'
    BY <1>2, <2>4, <2>5 DEF Arrive, Sound
  <2> QED
    BY <2>3, <2>6 DEF Contract!Next
<1>3. ASSUME NEW m \in Messages, NEW s \in Numbers, Confirm(m, s)
      PROVE  Sound' /\ [Contract!Next]_Contract!deliveryVars
  <2>1. m \in passed
    <3>1. PICK c \in used : c[1] = s /\ c[2] \in passed
      BY <1>3 DEF Confirm, Sound
    <3>2. c = <<s, m>>
      BY <1>3, <3>1 DEF Confirm, Sound
    <3> QED
      BY <3>1, <3>2
  <2>2. Contract!Confirm(m)
    BY <1>3, <2>1 DEF Confirm, Contract!Confirm
  <2> QED
    BY <1>3, <2>1, <2>2 DEF Confirm, Forget, Sound, Contract!Next
<1>4. CASE Report
  <2>1. lost' = TRUE \/ lost' = FALSE
    BY <1>4 DEF Report
  <2>2. Contract!ReportLoss \/ Contract!StartAgain
    BY <1>4, <2>1 DEF Report, Contract!ReportLoss, Contract!StartAgain
  <2> QED
    BY <1>4, <2>2 DEF Report, Forget, Sound, Contract!Next
<1>5. CASE UNCHANGED numberedVars
  BY <1>5 DEF numberedVars, Sound, Contract!deliveryVars
<1> QED
  BY <1>1, <1>2, <1>3, <1>4, <1>5 DEF Next

\* Numbers that stand for one message only make acknowledgements proofs of
\* delivery.
THEOREM NumbersSuffice == Spec => Contract!Spec
PROOF
<1>1. Sound /\ [Next]_numberedVars => Sound' /\ [Contract!Next]_Contract!deliveryVars
  BY SoundStep
<1> QED
  BY <1>1, SoundInit, PTL DEF Spec, Contract!Spec

=============================================================================
