------------------------------ MODULE LinkProofs ----------------------------
(***************************************************************************)
(* The link between a rover and its base station implements                *)
(* DeliveryContract for every size of the number space, every network and  *)
(* every choice of the time constants, as long as no sequence number is    *)
(* used for a second message.                                              *)
(***************************************************************************)
EXTENDS LinkFacts

(* NumberedDelivery in the state of the link.                              *)

used == {<<s, r_last_sent[s].body>> : s \in {t \in Seqs : r_last_sent[t] # NoEntry}}

copies ==
  {<<p.seq, p.body>> : p \in {q \in Fn!Range(uplink) : q.type = "DATA"}} \cup
  {<<s, r_sent_packets[s].packet.body>> : s \in {t \in Seqs : r_sent_packets[t] # NoEntry}}

settled ==
  b_acked_sequences["rover"] \cup
  {p.number : p \in {q \in Fn!Range(downlink) : q.type = "ACK"}}

\* A packet is kept under its own number.
KeptUnder ==
  /\ \A s \in Seqs : r_sent_packets[s] # NoEntry => r_sent_packets[s].packet.seq = s
  /\ base_lost \in BOOLEAN

\* What a step that sends no new message does to the copies.
LEMMA CopiesKept ==
  ASSUME LinkTypes, KeptUnder, Keeps(r_sent_packets, r_sent_packets'),
         \A p \in Fn!Range(uplink') :
           \/ p \in Fn!Range(uplink)
           \/ p.type # "DATA"
           \/ \E s \in Seqs : r_sent_packets[s] # NoEntry /\ p = r_sent_packets[s].packet
  PROVE  /\ copies' \subseteq copies
         /\ \A s \in Seqs : r_sent_packets'[s] # NoEntry => r_sent_packets'[s].packet.seq = s
PROOF
<1>1. Fn!Range(uplink)' = Fn!Range(uplink')
  BY DEF Fn!Range
<1>2. \A s \in Seqs : r_sent_packets'[s] # NoEntry =>
        r_sent_packets[s] # NoEntry /\ r_sent_packets'[s].packet = r_sent_packets[s].packet
  BY DEF Keeps
<1>3. ASSUME NEW p \in Fn!Range(uplink'), p.type = "DATA"
      PROVE  <<p.seq, p.body>> \in copies
  <2>1. CASE p \in Fn!Range(uplink)
    BY <1>3, <2>1 DEF copies
  <2>2. ASSUME NEW s \in Seqs, r_sent_packets[s] # NoEntry, p = r_sent_packets[s].packet
        PROVE  <<p.seq, p.body>> \in copies
    <3>1. p.seq = s
      BY <2>2 DEF KeptUnder
    <3> QED
      BY <2>2, <3>1 DEF copies
  <2> QED
    BY <1>3, <2>1, <2>2
<1>4. ASSUME NEW s \in Seqs, r_sent_packets'[s] # NoEntry
      PROVE  <<s, r_sent_packets'[s].packet.body>> \in copies
  BY <1>2, <1>4 DEF copies
<1>5. copies' \subseteq copies
  BY <1>1, <1>3, <1>4 DEF copies
<1> QED
  BY <1>2, <1>5 DEF KeptUnder

\* A new message is used with its number, and there is no other new copy.
LEMMA SendUses ==
  ASSUME LinkTypes, RoverSends, FreshStep, NEW c, c = r_current_sequence,
         NEW m, m = messages + 1
  PROVE  /\ c \in Seqs
         /\ m \in 1 .. MaxMessages /\ m \notin 1 .. messages
         /\ 1 .. messages' = (1 .. messages) \cup {m}
         /\ \A u \in used : u[1] # c
         /\ used' = used \cup {<<c, m>>}
PROOF
<1> DEFINE p == Data(c, m)
<1>1. /\ p \in DataPackets(MaxMessages) /\ p.body = m
      /\ messages' = m /\ messages < MaxMessages
      /\ r_last_sent' = [r_last_sent EXCEPT ![c] = p]
  BY SendFacts
<1>2. /\ c \in Seqs /\ messages \in Nat
      /\ m \in 1 .. MaxMessages /\ m \notin 1 .. messages
      /\ 1 .. messages' = (1 .. messages) \cup {m}
  BY <1>1, LinkAssumption DEF LinkTypes
<1>3. r_last_sent[c] = NoEntry
  BY <1>1, <1>2 DEF FreshStep
<1> HIDE DEF p
<1>4. \A u \in used : u[1] # c
  BY <1>3 DEF used
<1>5. r_last_sent'[c] = p /\ p # NoEntry
  BY <1>1, <1>2, LinkAssumption DEF LinkTypes
<1>6. \A s \in Seqs \ {c} : r_last_sent'[s] = r_last_sent[s]
  BY <1>1, <1>2 DEF LinkTypes
<1>7. used' = {<<s, r_last_sent'[s].body>> : s \in {t \in Seqs : r_last_sent'[t] # NoEntry}}
  BY DEF used
<1>8. {t \in Seqs : r_last_sent'[t] # NoEntry} = {t \in Seqs : r_last_sent[t] # NoEntry} \cup {c}
  BY <1>2, <1>3, <1>5, <1>6
<1>9. \A t \in {t \in Seqs : r_last_sent[t] # NoEntry} : r_last_sent'[t].body = r_last_sent[t].body
  BY <1>3, <1>6
<1>10. used' = used \cup {<<c, m>>}
  BY <1>1, <1>5, <1>7, <1>8, <1>9 DEF used
<1> QED
  BY <1>2, <1>4, <1>10

LEMMA SendCopies ==
  ASSUME LinkTypes, KeptUnder, RoverSends, NEW c, c = r_current_sequence,
         NEW m, m = messages + 1
  PROVE  copies' \subseteq copies \cup {<<c, m>>} /\ KeptUnder'
PROOF
<1> DEFINE p == Data(c, m)
<1>1. /\ p \in DataPackets(MaxMessages)
      /\ p.seq = c /\ p.body = m /\ p.type = "DATA"
      /\ r_sent_packets' = IF r_sent_packets[c] # NoEntry THEN r_sent_packets
                           ELSE [r_sent_packets EXCEPT ![c] =
                                   [packet |-> p, age |-> 0, retry_count |-> 0,
                                    recipient |-> "base"]]
      /\ uplink' = Entered(uplink, <<p>>)
      /\ UNCHANGED base_lost
  BY SendFacts
<1> HIDE DEF p
<1>2. ASSUME NEW q \in Fn!Range(uplink'), q.type = "DATA"
      PROVE  <<q.seq, q.body>> \in copies \cup {<<c, m>>}
  <2>1. uplink \in Seq(UpPackets) /\ <<p>> \in Seq(UpPackets)
    BY <1>1, PacketFacts DEF LinkTypes
  <2>2. q \in Fn!Range(uplink) \/ q \in Fn!Range(<<p>>)
    BY <1>1, <2>1, EnteredFacts, Zenon
  <2>3. CASE q \in Fn!Range(uplink)
    BY <1>2, <2>3 DEF copies
  <2>4. CASE q \in Fn!Range(<<p>>)
    <3>1. q = p
      BY <2>4 DEF Fn!Range
    <3> QED
      BY <1>1, <3>1
  <2> QED
    BY <2>2, <2>3, <2>4
<1>3. ASSUME NEW s \in Seqs, r_sent_packets'[s] # NoEntry
      PROVE  /\ <<s, r_sent_packets'[s].packet.body>> \in copies \cup {<<c, m>>}
             /\ r_sent_packets'[s].packet.seq = s
  <2>1. CASE r_sent_packets'[s] = r_sent_packets[s]
    BY <1>3, <2>1 DEF copies, KeptUnder
  <2>2. CASE r_sent_packets'[s] # r_sent_packets[s]
    <3>1. /\ s = c
          /\ r_sent_packets'[s] = [packet |-> p, age |-> 0, retry_count |-> 0,
                                   recipient |-> "base"]
      BY <1>1, <2>2 DEF LinkTypes
    <3> QED
      BY <1>1, <3>1
  <2> QED
    BY <2>1, <2>2
<1>4. Fn!Range(uplink)' = Fn!Range(uplink')
  BY DEF Fn!Range
<1>5. copies' \subseteq copies \cup {<<c, m>>}
  BY <1>2, <1>3, <1>4 DEF copies
<1> QED
  BY <1>1, <1>3, <1>5 DEF KeptUnder

Num == INSTANCE NumberedDelivery WITH
  Messages <- 1 .. MaxMessages, Numbers <- Seqs, sent <- 1 .. messages,
  passed <- Fn!Range(arrived), held <- confirmed, lost <- base_lost

\* A step in which messages are at most lost or repeated.
LEMMA QuietStep ==
  ASSUME copies' \subseteq copies, settled' \subseteq settled, base_lost' \in BOOLEAN,
         UNCHANGED <<r_last_sent, messages, arrived, confirmed>>
  PROVE  Num!Next
PROOF
<1>1. used' = used /\ Fn!Range(arrived)' = Fn!Range(arrived)
  BY DEF used, Fn!Range
<1>2. Num!Report
  BY <1>1 DEF Num!Report, Num!Forget
<1> QED
  BY <1>2 DEF Num!Next

LEMMA NumberedSend ==
  ASSUME LinkTypes, KeptUnder, RoverSends, FreshStep
  PROVE  Num!Next /\ KeptUnder'
PROOF
<1>0. PICK c : c = r_current_sequence
  OBVIOUS
<1>1. PICK m : m = messages + 1
  OBVIOUS
<1>2. UNCHANGED <<b_acked_sequences, downlink, arrived, confirmed, base_lost>>
  BY SendFacts DEF basVars
<1>3. settled' = settled /\ Fn!Range(arrived)' = Fn!Range(arrived)
  BY <1>2 DEF settled, Fn!Range
<1>4. copies' \subseteq copies \cup {<<c, m>>} /\ KeptUnder'
  BY <1>0, <1>1, SendCopies, Zenon
<1>5. /\ c \in Seqs
      /\ m \in 1 .. MaxMessages /\ m \notin 1 .. messages
      /\ 1 .. messages' = (1 .. messages) \cup {m}
      /\ \A u \in used : u[1] # c
      /\ used' = used \cup {<<c, m>>}
  BY <1>0, <1>1, SendUses, Zenon
<1>6. Num!Send(m, c)
  BY <1>2, <1>3, <1>4, <1>5, Zenon DEF Num!Send
<1> QED
  BY <1>4, <1>5, <1>6 DEF Num!Next

\* An ACK confirms the message that is kept under the number it names.
LEMMA NumberedAck ==
  ASSUME LinkTypes, KeptUnder, NEW i \in DOMAIN downlink, RoverReceives(i),
         downlink[i].type = "ACK", copies' \subseteq copies, settled' \subseteq settled
  PROVE  Num!Next
PROOF
<1> DEFINE a == downlink[i].number
           m == r_sent_packets[a].packet.body
<1>1. /\ a \in Seqs
      /\ UNCHANGED r_last_sent
      /\ confirmed' = IF r_sent_packets[a] # NoEntry THEN confirmed \cup {m} ELSE confirmed
  BY AckFacts, Zenon
<1>2. UNCHANGED <<messages, arrived, base_lost>>
  BY DEF RoverReceives
<1>3. CASE r_sent_packets[a] = NoEntry
  BY <1>1, <1>2, <1>3, QuietStep DEF KeptUnder
<1>4. CASE r_sent_packets[a] # NoEntry
  <2>1. a \in settled
    <3>1. downlink[i] \in Fn!Range(downlink)
      BY RemoveAtFacts DEF LinkTypes
    <3> QED
      BY <3>1, Zenon DEF settled
  <2> HIDE DEF a
  <2>2. <<a, m>> \in copies
    BY <1>1, <1>4 DEF copies
  <2>3. m \in 1 .. MaxMessages
    <3>1. r_sent_packets[a] \in Entries(MaxMessages)
      BY <1>1, <1>4 DEF LinkTypes
    <3> QED
      BY <3>1, PacketFacts DEF Entries
  <2>4. used' = used /\ Fn!Range(arrived)' = Fn!Range(arrived)
    BY <1>1, <1>2 DEF used, Fn!Range
  <2> HIDE DEF m
  <2>5. Num!Confirm(m, a)
    BY <1>1, <1>2, <1>4, <2>1, <2>2, <2>4 DEF Num!Confirm, Num!Forget
  <2> QED
    BY <1>1, <2>3, <2>5, Zenon DEF Num!Next
<1> QED
  BY <1>3, <1>4

\* A message that arrives is passed on, or its number is in acked_sequences_.
LEMMA NumberedMessage ==
  ASSUME LinkTypes, KeptUnder, NEW i \in DOMAIN uplink, BaseReceives(i),
         uplink[i].type = "DATA", copies' \subseteq copies
  PROVE  Num!Next
PROOF
<1>0. PICK p : p = uplink[i]
  OBVIOUS
<1> DEFINE ack == Control("ACK", b_current_sequence, p.seq)
<1>1. /\ p \in DataPackets(MaxMessages)
      /\ b_acked_sequences' = [b_acked_sequences EXCEPT !["rover"] = @ \cup {p.seq}]
      /\ arrived' = IF p.seq \in b_acked_sequences["rover"] THEN arrived
                    ELSE Append(arrived, p.body)
      /\ downlink' = Entered(downlink, <<ack>>)
  BY <1>0, MessageFacts
<1>2. p.seq \in Seqs /\ p.body \in 1 .. MaxMessages /\ p.type = "DATA"
  BY <1>1, PacketFacts
<1>3. <<p.seq, p.body>> \in copies
  <2>1. p \in Fn!Range(uplink)
    BY <1>0, RemoveAtFacts DEF LinkTypes
  <2> QED
    BY <1>2, <2>1 DEF copies
<1>4. \/ p.seq \in settled /\ Fn!Range(arrived)' = Fn!Range(arrived)
      \/ Fn!Range(arrived)' = Fn!Range(arrived) \cup {p.body}
  <2>1. CASE p.seq \in b_acked_sequences["rover"]
    BY <1>1, <2>1 DEF settled, Fn!Range
  <2>2. CASE p.seq \notin b_acked_sequences["rover"]
    <3> DEFINE M == 1 .. MaxMessages
    <3>1. arrived \in Seq(M) /\ p.body \in M
      BY <1>2, Zenon DEF LinkTypes
    <3> HIDE DEF M
    <3>2. Fn!Range(Append(arrived, p.body)) = Fn!Range(arrived) \cup {p.body}
      BY <3>1, AppendFacts
    <3>3. Fn!Range(arrived)' = Fn!Range(arrived')
      BY DEF Fn!Range
    <3> QED
      BY <1>1, <2>2, <3>2, <3>3
  <2> QED
    BY <2>1, <2>2
<1>5. settled' \subseteq settled \cup {p.seq}
  <2>1. b_acked_sequences'["rover"] = b_acked_sequences["rover"] \cup {p.seq}
    BY <1>1, Zenon DEF LinkTypes
  <2>2. <<ack>> \in Seq(DownPackets) /\ downlink \in Seq(DownPackets) /\ ack.number = p.seq
    BY <1>2 DEF Control, DownPackets, LinkTypes
  <2> HIDE DEF ack
  <2>3. \A q \in Fn!Range(downlink') : q \in Fn!Range(downlink) \/ q \in Fn!Range(<<ack>>)
    BY <1>1, <2>2, EnteredFacts, Zenon
  <2>4. \A q \in Fn!Range(<<ack>>) : q = ack
    BY DEF Fn!Range
  <2>5. Fn!Range(downlink)' = Fn!Range(downlink')
    BY DEF Fn!Range
  <2> QED
    BY <2>1, <2>2, <2>3, <2>4, <2>5 DEF settled
<1>6. used' = used /\ UNCHANGED <<messages, confirmed, base_lost>>
  BY DEF BaseReceives, rovVars, used
<1>7. Num!Arrive(p.body, p.seq)
  BY <1>3, <1>4, <1>5, <1>6 DEF Num!Arrive
<1> QED
  BY <1>2, <1>7 DEF Num!Next

LEMMA NumberedInit == Init => Num!Init /\ KeptUnder
PROOF
<1> SUFFICES ASSUME Init PROVE Num!Init /\ KeptUnder
  BY Zenon
<1>1. /\ r_sent_packets = [s \in Seqs |-> NoEntry]
      /\ r_last_sent = [s \in Seqs |-> NoEntry]
      /\ b_acked_sequences = [e \in {"rover"} |-> {}]
  BY EndFacts DEF Init, Rov!Init, Bas!Init
<1>2. /\ uplink = <<>> /\ downlink = <<>> /\ arrived = <<>> /\ messages = 0
      /\ confirmed = {} /\ base_lost = FALSE
  BY DEF Init
<1>3. Fn!Range(uplink) = {} /\ Fn!Range(downlink) = {} /\ Fn!Range(arrived) = {}
  BY <1>2 DEF Fn!Range
<1>4. used = {} /\ copies = {} /\ settled = {} /\ 1 .. messages = {}
  <2>1. used = {}
    BY <1>1, Zenon DEF used
  <2>2. copies = {}
    BY <1>1, <1>3 DEF copies
  <2>3. settled = {}
    BY <1>1, <1>3 DEF settled
  <2>4. 1 .. messages = {}
    BY <1>2
  <2> QED
    BY <2>1, <2>2, <2>3, <2>4
<1> QED
  BY <1>1, <1>2, <1>3, <1>4, Zenon DEF Num!Init, KeptUnder

LEMMA PlainFacts ==
  /\ \A f : Keeps(f, f)
  /\ KeptUnder => base_lost \in BOOLEAN
  /\ Fn!Range(downlink)' = Fn!Range(downlink')
  BY DEF Keeps, KeptUnder, Fn!Range

LEMMA SettledKept ==
  ASSUME UNCHANGED <<b_acked_sequences, downlink>>
  PROVE  settled' \subseteq settled
  BY DEF settled, Fn!Range

LEMMA CopiesSame ==
  ASSUME UNCHANGED <<r_sent_packets, uplink>>
  PROVE  copies' \subseteq copies
  BY DEF copies, Fn!Range

LEMMA NumberedRoverReceives ==
  ASSUME FiniteNumbers, LinkTypes, KeptUnder, NEW i \in Arriving(downlink), RoverReceives(i)
  PROVE  [Num!Next]_Num!numberedVars /\ KeptUnder'
PROOF
<1>1. /\ i \in DOMAIN downlink
      /\ UNCHANGED <<b_acked_sequences, messages, arrived, base_lost>>
  BY Zenon DEF Arriving, RoverReceives, basVars
<1>2. settled' \subseteq settled
  <2>1. downlink' = Without(downlink, i) /\ downlink \in Seq(DownPackets)
    BY Zenon DEF RoverReceives, LinkTypes
  <2>2. Fn!Range(downlink') \subseteq Fn!Range(downlink)
    BY <1>1, <2>1, RemoveAtFacts
  <2> QED
    BY PlainFacts, <1>1, <2>2 DEF settled
<1>3. CASE downlink[i].type = "DATA"
  <2>1. /\ UNCHANGED <<r_sent_packets, r_last_sent, confirmed>>
        /\ \A p \in Fn!Range(uplink') : p \in Fn!Range(uplink) \/ p.type # "DATA"
    BY <1>1, <1>3, CommandFacts, Zenon
  <2>2. copies' \subseteq copies
    BY PlainFacts, <2>1, CopiesKept, Zenon
  <2> QED
    BY PlainFacts, <1>1, <1>2, <2>1, <2>2, QuietStep, Zenon DEF KeptUnder
<1>4. CASE downlink[i].type = "ACK"
  <2>1. UNCHANGED uplink /\ Keeps(r_sent_packets, r_sent_packets')
    BY <1>1, <1>4, AckFacts, Zenon DEF LinkTypes, Keeps
  <2>2. /\ copies' \subseteq copies
        /\ \A s \in Seqs : r_sent_packets'[s] # NoEntry => r_sent_packets'[s].packet.seq = s
    BY <2>1, CopiesKept, Zenon
  <2>3. Num!Next
    BY <1>1, <1>2, <1>4, <2>2, NumberedAck, Zenon
  <2> QED
    BY PlainFacts, <1>1, <2>2, <2>3, Zenon DEF KeptUnder
<1> QED
  BY <1>3, <1>4 DEF RoverReceives

LEMMA NumberedRoverRetransmits ==
  ASSUME FiniteNumbers, LinkTypes, KeptUnder, RoverRetransmits
  PROVE  [Num!Next]_Num!numberedVars /\ KeptUnder'
PROOF
<1>1. UNCHANGED <<b_acked_sequences, downlink, messages, arrived, confirmed>>
  BY Zenon DEF RoverRetransmits, basVars
<1>2. base_lost' \in BOOLEAN
  BY DEF RoverRetransmits
<1>3. /\ copies' \subseteq copies
      /\ \A s \in Seqs : r_sent_packets'[s] # NoEntry => r_sent_packets'[s].packet.seq = s
      /\ UNCHANGED r_last_sent
  BY RetransmitFacts, CopiesKept
<1> QED
  BY SettledKept, <1>1, <1>2, <1>3, QuietStep DEF KeptUnder

LEMMA NumberedRoverCleansUp ==
  ASSUME LinkTypes, KeptUnder, RoverCleansUp
  PROVE  [Num!Next]_Num!numberedVars /\ KeptUnder'
PROOF
<1>1. UNCHANGED <<r_last_sent, r_sent_packets, b_acked_sequences, uplink, downlink, messages,
                  arrived, confirmed, base_lost>>
  BY Zenon DEF RoverCleansUp, Rov!HandleCleanupTimer, Rov!trackVars, basVars, appVars
<1> QED
  BY PlainFacts, SettledKept, CopiesSame, <1>1, QuietStep DEF KeptUnder

LEMMA NumberedBaseReceives ==
  ASSUME FiniteNumbers, LinkTypes, KeptUnder, NEW i \in Arriving(uplink), BaseReceives(i)
  PROVE  [Num!Next]_Num!numberedVars /\ KeptUnder'
PROOF
<1>1. /\ i \in DOMAIN uplink
      /\ UNCHANGED <<r_last_sent, r_sent_packets, messages, confirmed, base_lost>>
  BY Zenon DEF Arriving, BaseReceives, rovVars
<1>2. copies' \subseteq copies
  <2>1. uplink' = Without(uplink, i) /\ uplink \in Seq(UpPackets)
    BY Zenon DEF BaseReceives, LinkTypes
  <2>2. Fn!Range(uplink') \subseteq Fn!Range(uplink)
    BY <1>1, <2>1, RemoveAtFacts
  <2> QED
    BY PlainFacts, <1>1, <2>2, CopiesKept
<1>3. KeptUnder'
  BY PlainFacts, <1>1 DEF KeptUnder
<1>4. CASE uplink[i].type = "DATA"
  BY <1>1, <1>2, <1>3, <1>4, NumberedMessage
<1>5. CASE uplink[i].type = "NAK"
  <2>1. /\ UNCHANGED <<b_acked_sequences, arrived>>
        /\ \A p \in Fn!Range(downlink') :
             \/ p \in Fn!Range(downlink)
             \/ \E s \in Seqs : b_sent_packets[s] # NoEntry /\ p = b_sent_packets[s].packet
    BY <1>1, <1>5, NakAnswered, Zenon
  <2>2. ASSUME NEW s \in Seqs, b_sent_packets[s] # NoEntry
        PROVE  b_sent_packets[s].packet.type # "ACK"
    <3>1. b_sent_packets[s] \in Entries(MaxCommands)
      BY <2>2 DEF LinkTypes
    <3> QED
      BY <3>1, Zenon DEF Entries, DataPackets
  <2>3. settled' \subseteq settled
    BY PlainFacts, <2>1, <2>2 DEF settled
  <2> QED
    BY PlainFacts, <1>1, <1>2, <1>3, <2>1, <2>3, QuietStep, Zenon
<1> QED
  BY <1>4, <1>5, Zenon DEF BaseReceives

LEMMA NumberedBaseTimers ==
  ASSUME LinkTypes, KeptUnder, BaseTimers
  PROVE  [Num!Next]_Num!numberedVars /\ KeptUnder'
PROOF
<1>1. UNCHANGED <<r_last_sent, r_sent_packets, uplink, downlink, messages, arrived, confirmed,
                  base_lost>>
  BY Zenon DEF BaseTimers, rovVars, appVars
<1>2. settled' \subseteq settled
  BY PlainFacts, <1>1, BaseTimerFacts DEF settled
<1> QED
  BY PlainFacts, CopiesSame, <1>1, <1>2, QuietStep DEF KeptUnder

LEMMA NumberedLosePacket ==
  ASSUME LinkTypes, KeptUnder, LosePacket
  PROVE  [Num!Next]_Num!numberedVars /\ KeptUnder'
PROOF
<1>1. uplink \in Seq(UpPackets) /\ downlink \in Seq(DownPackets)
  BY Zenon DEF LinkTypes
<1>2. /\ Fn!Range(uplink') \subseteq Fn!Range(uplink)
      /\ Fn!Range(downlink') \subseteq Fn!Range(downlink)
  BY <1>1, RemoveAtFacts DEF LosePacket
<1>3. UNCHANGED <<r_last_sent, r_sent_packets, b_acked_sequences, messages, arrived, confirmed,
                  base_lost>>
  BY DEF LosePacket, rovVars, basVars, appVars
<1>4. copies' \subseteq copies
  BY PlainFacts, <1>2, <1>3, CopiesKept
<1>5. settled' \subseteq settled
  BY PlainFacts, <1>2, <1>3, Zenon DEF settled
<1> QED
  BY PlainFacts, <1>3, <1>4, <1>5, QuietStep DEF KeptUnder

LEMMA NumberedTick ==
  ASSUME LinkTypes, KeptUnder, Tick
  PROVE  [Num!Next]_Num!numberedVars /\ KeptUnder'
PROOF
<1>1. UNCHANGED <<r_last_sent, b_acked_sequences, uplink, downlink, messages, arrived, confirmed,
                  base_lost>>
  BY Zenon DEF Tick, Rov!Tick, Bas!Tick, appVars
<1>2. Keeps(r_sent_packets, r_sent_packets')
  BY RoverTickKeeps DEF Tick, LinkTypes
<1>3. /\ copies' \subseteq copies
      /\ \A s \in Seqs : r_sent_packets'[s] # NoEntry => r_sent_packets'[s].packet.seq = s
  BY <1>1, <1>2, CopiesKept
<1> QED
  BY PlainFacts, SettledKept, <1>1, <1>3, QuietStep DEF KeptUnder

LEMMA NumberedRoverResets ==
  ASSUME LinkTypes, KeptUnder, RoverResets
  PROVE  [Num!Next]_Num!numberedVars /\ KeptUnder'
PROOF
<1>1. /\ r_sent_packets' = [s \in Seqs |-> NoEntry]
      /\ base_lost' = FALSE
      /\ UNCHANGED <<r_last_sent, b_acked_sequences, uplink, downlink, messages, arrived,
                     confirmed>>
  BY EndFacts, Zenon DEF RoverResets, Rov!ResetSequenceNumber, basVars
<1>2. copies' \subseteq copies /\ KeptUnder'
  BY <1>1, Zenon DEF copies, KeptUnder, Fn!Range
<1> QED
  BY SettledKept, <1>1, <1>2, QuietStep, Zenon

LEMMA NumberedBaseSends ==
  ASSUME LinkTypes, KeptUnder, BaseSends
  PROVE  [Num!Next]_Num!numberedVars /\ KeptUnder'
PROOF
<1> DEFINE p == Data(b_current_sequence, commands + 1)
<1>1. UNCHANGED <<r_last_sent, r_sent_packets, b_acked_sequences, uplink, messages, arrived,
                  confirmed, base_lost>>
  BY Zenon DEF BaseSends, Bas!SendMessage, Bas!ackVars, rovVars
<1>2. p \in DataPackets(MaxCommands)
  BY LinkAssumption DEF BaseSends, LinkTypes, Data, DataPackets
<1>3. downlink' = Entered(downlink, <<p>>)
  BY DEF BaseSends
<1> HIDE DEF p
<1>4. <<p>> \in Seq(DownPackets) /\ downlink \in Seq(DownPackets) /\ p.type # "ACK"
  BY <1>2, PacketFacts DEF LinkTypes
<1>5. \A q \in Fn!Range(downlink') : q \in Fn!Range(downlink) \/ q \in Fn!Range(<<p>>)
  BY <1>3, <1>4, EnteredFacts, Zenon
<1>6. \A q \in Fn!Range(<<p>>) : q.type # "ACK"
  BY <1>4 DEF Fn!Range
<1>7. settled' \subseteq settled
  BY PlainFacts, <1>1, <1>5, <1>6 DEF settled
<1> QED
  BY PlainFacts, CopiesSame, <1>1, <1>7, QuietStep, Zenon DEF KeptUnder

LEMMA NumberedStutter ==
  ASSUME LinkTypes, KeptUnder, UNCHANGED vars
  PROVE  [Num!Next]_Num!numberedVars /\ KeptUnder'
PROOF
<1>1. UNCHANGED <<r_last_sent, r_sent_packets, b_acked_sequences, uplink, downlink, messages,
                  arrived, confirmed, base_lost>>
  BY Zenon DEF vars, rovVars, basVars, appVars
<1> QED
  BY PlainFacts, SettledKept, CopiesSame, <1>1, QuietStep, Zenon DEF KeptUnder

LEMMA NumberedStep ==
  ASSUME FiniteNumbers, LinkTypes, KeptUnder, [Next]_vars, FreshStep
  PROVE  [Num!Next]_Num!numberedVars /\ KeptUnder'
  BY NumberedSend, NumberedRoverReceives, NumberedRoverRetransmits,
     NumberedRoverCleansUp, NumberedBaseReceives, NumberedBaseTimers,
     NumberedLosePacket, NumberedTick, NumberedRoverResets, NumberedBaseSends,
     NumberedStutter, Zenon DEF Next, MessageNext

-----------------------------------------------------------------------------

LEMMA SameContract == Num!Contract!Spec <=> Delivery!Spec
PROOF
<1>1. Num!Contract!Init <=> Delivery!Init
  BY Zenon DEF Num!Contract!Init, Delivery!Init
<1>2. Num!Contract!Next <=> Delivery!Next
  BY DEF Num!Contract!Next, Delivery!Next, Num!Contract!Send, Delivery!Send,
         Num!Contract!PassOn, Delivery!PassOn, Num!Contract!Confirm, Delivery!Confirm,
         Num!Contract!ReportLoss, Delivery!ReportLoss, Num!Contract!StartAgain,
         Delivery!StartAgain
<1>3. UNCHANGED Num!Contract!deliveryVars <=> UNCHANGED Delivery!deliveryVars
  BY DEF Num!Contract!deliveryVars, Delivery!deliveryVars
<1> QED
  BY <1>1, <1>2, <1>3, PTL DEF Num!Contract!Spec, Delivery!Spec

Fin == INSTANCE FiniteSetTheorems

LEMMA NumbersAreFinite == FiniteNumbers
PROOF
<1> SUFFICES ASSUME NEW S \in SUBSET Seqs, NEW f
             PROVE  Cardinality(S) \in Nat /\ Cardinality({f[s] : s \in S}) \in Nat
  BY Zenon DEF FiniteNumbers
<1> DEFINE T == {f[s] : s \in S}
           g == [s \in S |-> f[s]]
<1>1. \A X : Fin!Cardinality(X) = Cardinality(X)
  BY Zenon DEF Fin!Cardinality, Cardinality
<1>2. Fin!IsFiniteSet(Seqs)
  BY LinkAssumption, Fin!FS_Interval DEF Seqs
<1>3. Fin!IsFiniteSet(S)
  BY <1>2, Fin!FS_Subset, Zenon
<1>4. g \in Fin!Surjection(S, T)
  BY DEF Fin!Surjection
<1>5. Fin!IsFiniteSet(T)
  BY <1>3, <1>4, Fin!FS_Surjection, Zenon
<1> QED
  BY <1>1, <1>3, <1>5, Fin!FS_CardinalityType, Zenon

FreshSends == [][FreshStep]_vars

\* Over any network, whatever is lost, repeated or overtaken, with any number of
\* commands and NAKs, resets included, and for all values of the constants:
\* unless a sequence number is used for a second message, what process_ack takes
\* off sent_packets_ has been passed on by process_complete_packet at the base
\* station.
THEOREM AcksProveDelivery == Spec /\ FreshSends => ImplementsDelivery
PROOF
<1>1. Init => LinkTypes /\ KeptUnder /\ Num!Init
  BY LinkTypesInit, NumberedInit, Zenon
<1>2. LinkTypes /\ KeptUnder /\ [Next]_vars /\ [FreshStep]_vars
        => LinkTypes' /\ KeptUnder' /\ [Num!Next]_Num!numberedVars
  <2> SUFFICES ASSUME LinkTypes, KeptUnder, [Next]_vars, [FreshStep]_vars
               PROVE  LinkTypes' /\ KeptUnder' /\ [Num!Next]_Num!numberedVars
    BY Zenon
  <2>1. FreshStep
    BY Zenon DEF FreshStep, vars, appVars
  <2> QED
    BY <2>1, NumbersAreFinite, LinkTypesStep, NumberedStep
<1>3. Num!Spec => Num!Contract!Spec
  BY Num!NumbersSuffice
<1>4. Spec /\ FreshSends => Num!Spec
  BY <1>1, <1>2, PTL DEF Spec, FreshSends, Num!Spec
<1> QED
  BY <1>3, <1>4, SameContract, PTL DEF ImplementsDelivery

\* Within one session in which the base station gives no command, and in which
\* there are no more messages than numbers (256), nothing has to be assumed: the
\* numbers are used in their order, and DeliveryContract is implemented over any
\* network and for all values of the time constants.
THEOREM OneSessionDelivers ==
  ASSUME MaxMessages <= SeqMod
  PROVE  Init /\ [][MessageNext]_vars => ImplementsDelivery
PROOF
<1>1. Init => LinkTypes /\ InOrder
  BY LinkTypesInit, InOrderInit, Zenon
<1>2. MessageNext => Next
  BY Zenon DEF Next
<1>3. LinkTypes /\ InOrder /\ [MessageNext]_vars => LinkTypes' /\ InOrder' /\ FreshStep
  BY <1>2, NumbersAreFinite, LinkTypesStep, InOrderStep, Zenon
<1>4. Init /\ [][MessageNext]_vars => Spec /\ FreshSends
  BY <1>1, <1>2, <1>3, PTL DEF Spec, FreshSends
<1> QED
  BY <1>4, AcksProveDelivery, PTL

=============================================================================
