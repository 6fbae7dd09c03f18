------------------------------ MODULE LinkFacts -----------------------------
(***************************************************************************)
(* What the steps of the link do: lemmas about the network, the packets    *)
(* kept and sent again, and the handlers of both ends, and that every step *)
(* keeps the types.                                                        *)
(***************************************************************************)
EXTENDS LumenLink, TLAPS

LEMMA SeqsFacts ==
  /\ 0 \in Seqs
  /\ \A n \in Int : n % SeqMod \in Seqs
BY LinkAssumption DEF Seqs

-----------------------------------------------------------------------------
(* The network.                                                            *)

\* What enters the network is all that can be new in it.
LEMMA EnteredFacts ==
  ASSUME NEW P, NEW ch \in Seq(P), NEW ps \in Seq(P)
  PROVE  /\ Entered(ch, ps) \in Seq(P)
         /\ \A p \in Fn!Range(Entered(ch, ps)) : p \in Fn!Range(ch) \/ p \in Fn!Range(ps)
PROOF
<1>1. /\ ch \o ps \in Seq(P)
      /\ \A i \in DOMAIN (ch \o ps) :
           \/ i \in DOMAIN ch /\ (ch \o ps)[i] = ch[i]
           \/ i - Len(ch) \in DOMAIN ps /\ (ch \o ps)[i] = ps[i - Len(ch)]
  OBVIOUS
<1> QED
  BY <1>1 DEF Entered, Fn!Range

LEMMA RemoveAtFacts ==
  ASSUME NEW P, NEW ch \in Seq(P), NEW i \in DOMAIN ch
  PROVE  /\ Without(ch, i) \in Seq(P)
         /\ Fn!Range(Without(ch, i)) \subseteq Fn!Range(ch)
         /\ ch[i] \in P
         /\ ch[i] \in Fn!Range(ch)
PROOF
<1> DEFINE a == SubSeq(ch, 1, i - 1)
           b == SubSeq(ch, i + 1, Len(ch))
<1>1. a \in Seq(P) /\ \A j \in DOMAIN a : j \in DOMAIN ch /\ a[j] = ch[j]
  OBVIOUS
<1>2. b \in Seq(P) /\ \A j \in DOMAIN b : i + j \in DOMAIN ch /\ b[j] = ch[i + j]
  OBVIOUS
<1> HIDE DEF a, b
<1>3. /\ a \o b \in Seq(P)
      /\ \A j \in DOMAIN (a \o b) :
           \/ j \in DOMAIN a /\ (a \o b)[j] = a[j]
           \/ j - Len(a) \in DOMAIN b /\ (a \o b)[j] = b[j - Len(a)]
  BY <1>1, <1>2
<1>4. Without(ch, i) = a \o b
  BY DEF Without, a, b
<1> QED
  BY <1>1, <1>2, <1>3, <1>4 DEF Fn!Range

LEMMA AppendFacts ==
  ASSUME NEW P, NEW s \in Seq(P), NEW x \in P
  PROVE  /\ Append(s, x) \in Seq(P)
         /\ Fn!Range(Append(s, x)) = Fn!Range(s) \cup {x}
PROOF
<1>1. /\ Append(s, x) \in Seq(P)
      /\ DOMAIN Append(s, x) = 1 .. Len(s) + 1
      /\ DOMAIN s = 1 .. Len(s)
      /\ \A i \in 1 .. Len(s) : Append(s, x)[i] = s[i]
      /\ Append(s, x)[Len(s) + 1] = x
      /\ Len(s) \in Nat
  OBVIOUS
<1>2. ASSUME NEW i \in DOMAIN Append(s, x)
      PROVE  Append(s, x)[i] \in Fn!Range(s) \cup {x}
  BY <1>1 DEF Fn!Range
<1>3. ASSUME NEW i \in DOMAIN s
      PROVE  s[i] \in Fn!Range(Append(s, x))
  BY <1>1 DEF Fn!Range
<1>4. x \in Fn!Range(Append(s, x))
  BY <1>1 DEF Fn!Range
<1> QED
  BY <1>1, <1>2, <1>3, <1>4 DEF Fn!Range

\* Sets of numbers, and of what is kept under them, can be counted: shown below,
\* and a hypothesis of the lemmas until then.
FiniteNumbers ==
  \A S \in SUBSET Seqs : /\ Cardinality(S) \in Nat
                         /\ \A f : Cardinality({f[s] : s \in S}) \in Nat

\* A sequence of all the members of a set.
LEMMA SeqOfSet ==
  ASSUME NEW S, Cardinality(S) \in Nat, NEW q \in [1 .. Cardinality(S) -> S]
  PROVE  q \in Seq(S) /\ Fn!Range(q) \subseteq S
  BY DEF Fn!Range

-----------------------------------------------------------------------------
(* The two ends: the number space is the same, and what is tracked keeps   *)
(* its packet.                                                             *)

LEMMA EndFacts ==
  /\ Rov!Seqs = Seqs
  /\ Bas!Seqs = Seqs
  /\ \A S : Rov!Cardinality(S) = Cardinality(S)
PROOF
<1>1. \A S : Rov!Cardinality(S) = Cardinality(S)
  BY DEF Rov!Cardinality, Cardinality
<1> QED
  BY <1>1 DEF Rov!Seqs, Bas!Seqs, Seqs

Entries(n) == [packet : DataPackets(n), age : Nat, retry_count : Nat,
               recipient : {"base", "rover"}]

\* What is tracked in new is what was tracked in old, with the same packet.
Keeps(old, new) ==
  \A s \in Seqs : new[s] # NoEntry => old[s] # NoEntry /\ new[s].packet = old[s].packet

LEMMA EntryFacts ==
  ASSUME NEW n \in Nat, NEW i \in Entries(n), NEW limit
  PROVE  /\ [i EXCEPT !.age = Rov!Older(@, limit)] \in Entries(n)
         /\ [i EXCEPT !.age = Rov!Older(@, limit)].packet = i.packet
         /\ [i EXCEPT !.age = 0, !.retry_count = @ + 1] \in Entries(n)
         /\ [i EXCEPT !.age = 0, !.retry_count = @ + 1].packet = i.packet
PROOF
<1>1. /\ i.age \in Nat /\ i.retry_count \in Nat
      /\ "age" \in DOMAIN i /\ "retry_count" \in DOMAIN i /\ "packet" \in DOMAIN i
  BY DEF Entries
<1>2. Rov!Older(i.age, limit) \in Nat /\ i.retry_count + 1 \in Nat
  BY <1>1 DEF Rov!Older
<1> QED
  BY <1>1, <1>2, Zenon DEF Entries

LEMMA RoverTickKeeps ==
  ASSUME r_sent_packets \in [Seqs -> Entries(MaxMessages) \cup {NoEntry}], Rov!Tick
  PROVE  /\ r_sent_packets' \in [Seqs -> Entries(MaxMessages) \cup {NoEntry}]
         /\ Keeps(r_sent_packets, r_sent_packets')
PROOF
<1>1. r_sent_packets' = [s \in Seqs |->
        IF r_sent_packets[s] # NoEntry
        THEN [r_sent_packets[s] EXCEPT !.age = Rov!Older(@, Rov!SentLimit)]
        ELSE NoEntry]
  BY EndFacts DEF Rov!Tick, Rov!Tracked
<1>2. ASSUME NEW s \in Seqs, r_sent_packets[s] # NoEntry
      PROVE  /\ r_sent_packets'[s] \in Entries(MaxMessages)
             /\ r_sent_packets'[s].packet = r_sent_packets[s].packet
  <2>1. r_sent_packets[s] \in Entries(MaxMessages)
    BY <1>2
  <2>2. r_sent_packets'[s] = [r_sent_packets[s] EXCEPT !.age = Rov!Older(@, Rov!SentLimit)]
    BY <1>1, <1>2
  <2>3. [r_sent_packets[s] EXCEPT !.age = Rov!Older(@, Rov!SentLimit)] \in Entries(MaxMessages)
    BY <2>1, EntryFacts, LinkAssumption, Zenon
  <2>4. [r_sent_packets[s] EXCEPT !.age = Rov!Older(@, Rov!SentLimit)].packet
          = r_sent_packets[s].packet
    BY <2>1 DEF Entries
  <2> QED
    BY <2>2, <2>3, <2>4
<1> QED
  BY <1>1, <1>2 DEF Keeps

LEMMA BaseTickKeeps ==
  ASSUME b_sent_packets \in [Seqs -> Entries(MaxCommands) \cup {NoEntry}], Bas!Tick
  PROVE  b_sent_packets' \in [Seqs -> Entries(MaxCommands) \cup {NoEntry}]
PROOF
<1>1. b_sent_packets' = [s \in Seqs |->
        IF b_sent_packets[s] # NoEntry
        THEN [b_sent_packets[s] EXCEPT !.age = Bas!Older(@, Bas!SentLimit)]
        ELSE NoEntry]
  BY EndFacts DEF Bas!Tick, Bas!Tracked
<1>2. ASSUME NEW s \in Seqs, b_sent_packets[s] # NoEntry
      PROVE  b_sent_packets'[s] \in Entries(MaxCommands)
  <2>1. [b_sent_packets[s] EXCEPT !.age = Rov!Older(@, Bas!SentLimit)] \in Entries(MaxCommands)
    BY <1>2, EntryFacts, LinkAssumption, Zenon
  <2>2. \A a, l : Rov!Older(a, l) = Bas!Older(a, l)
    BY DEF Rov!Older, Bas!Older, Rov!Absent, Bas!Absent
  <2> QED
    BY <1>1, <1>2, <2>1, <2>2
<1> QED
  BY <1>1, <1>2

\* The retransmission timer of the rover sends packets it holds.
LEMMA RetransmitKeeps ==
  ASSUME FiniteNumbers, r_sent_packets \in [Seqs -> Entries(MaxMessages) \cup {NoEntry}],
         Rov!HandleRetransmissionTimer
  PROVE  /\ r_sent_packets' \in [Seqs -> Entries(MaxMessages) \cup {NoEntry}]
         /\ Keeps(r_sent_packets, r_sent_packets')
         /\ Cardinality({x[1] : x \in r_out'.resent}) \in Nat
         /\ \A p \in {x[1] : x \in r_out'.resent} :
              \E s \in Seqs : r_sent_packets[s] # NoEntry /\ p = r_sent_packets[s].packet
PROOF
<1> DEFINE due  == {s \in Seqs : Rov!Expired(s)}
           gone == {s \in due : Rov!Exhausted(s)}
<1>1. /\ r_sent_packets' = [s \in Seqs |->
           IF s \in gone THEN NoEntry
           ELSE IF s \in due
           THEN [r_sent_packets[s] EXCEPT !.age = 0, !.retry_count = @ + 1]
           ELSE r_sent_packets[s]]
      /\ \E y, z : r_out' = [Rov!Nothing EXCEPT !.resent = Rov!Resent(due \ gone),
                                               !.timed_out = y, !.gave_up = z]
  BY EndFacts, Zenon DEF Rov!HandleRetransmissionTimer
<1>2. \A s \in due : r_sent_packets[s] # NoEntry
  BY DEF Rov!Expired, Rov!Tracked
<1>3. due \ gone \in SUBSET Seqs
  OBVIOUS
<1>4. r_out'.resent = {<<r_sent_packets[s].packet, r_sent_packets[s].recipient>> : s \in due \ gone}
  BY <1>1, Zenon DEF Rov!Nothing, Rov!Resent
<1> HIDE DEF gone
<1>5. ASSUME NEW s \in Seqs, r_sent_packets'[s] # NoEntry
      PROVE  /\ r_sent_packets[s] # NoEntry
             /\ r_sent_packets'[s] \in Entries(MaxMessages)
             /\ r_sent_packets'[s].packet = r_sent_packets[s].packet
  <2>1. CASE s \in due
    <3>1. r_sent_packets[s] \in Entries(MaxMessages)
      BY <1>2, <2>1, Zenon
    <3> QED
      BY <1>1, <1>2, <1>5, <2>1, <3>1, EntryFacts, LinkAssumption, Zenon
  <2>2. CASE s \notin due
    BY <1>1, <1>5, <2>2, Zenon
  <2> QED
    BY <2>1, <2>2
<1>6. r_sent_packets' \in [Seqs -> Entries(MaxMessages) \cup {NoEntry}]
  BY <1>1, <1>5, Zenon
<1> DEFINE f == [s \in Seqs |-> r_sent_packets[s].packet]
           ps == {x[1] : x \in r_out'.resent}
<1>7. ps = {f[s] : s \in due \ gone}
  <2>1. \A s \in due \ gone : f[s] = r_sent_packets[s].packet
    BY <1>3
  <2>2. \A x \in r_out'.resent : \E s \in due \ gone : x[1] = f[s]
    BY <1>4, <2>1
  <2>3. \A s \in due \ gone : \E x \in r_out'.resent : x[1] = f[s]
    <3> TAKE s \in due \ gone
    <3>1. <<r_sent_packets[s].packet, r_sent_packets[s].recipient>> \in r_out'.resent
      BY <1>4
    <3> QED
      BY <2>1, <3>1
  <2> HIDE DEF f, due
  <2> QED
    BY <2>2, <2>3
<1>8. Cardinality(ps) \in Nat
  <2> HIDE DEF f, ps, due
  <2> QED
    BY <1>3, <1>7, Zenon DEF FiniteNumbers
<1>9. \A p \in ps : \E s \in Seqs : r_sent_packets[s] # NoEntry /\ p = r_sent_packets[s].packet
  BY <1>2, <1>3, <1>4
<1> QED
  BY <1>5, <1>6, <1>8, <1>9 DEF Keeps

-----------------------------------------------------------------------------
(* Types of what the argument is about.                                    *)

UpPackets == DataPackets(MaxMessages) \cup [type : {"NAK"}, seq : Seqs, number : Seqs]
DownPackets == DataPackets(MaxCommands) \cup [type : {"ACK"}, seq : Seqs, number : Seqs]

LinkTypes ==
  /\ messages \in 0 .. MaxMessages
  /\ commands \in 0 .. MaxCommands
  /\ r_current_sequence \in Seqs
  /\ b_current_sequence \in Seqs
  /\ r_sent_packets \in [Seqs -> Entries(MaxMessages) \cup {NoEntry}]
  /\ b_sent_packets \in [Seqs -> Entries(MaxCommands) \cup {NoEntry}]
  /\ r_last_sent \in [Seqs -> DataPackets(MaxMessages) \cup {NoEntry}]
  /\ b_acked_sequences \in [{"rover"} -> SUBSET Seqs]
  /\ uplink \in Seq(UpPackets)
  /\ downlink \in Seq(DownPackets)
  /\ arrived \in Seq(1 .. MaxMessages)

LEMMA PacketFacts ==
  /\ \A p \in UpPackets : p.type = "DATA" => p \in DataPackets(MaxMessages)
  /\ \A p \in UpPackets : p.type = "NAK" => p.number \in Seqs
  /\ \A p \in DownPackets : p.type = "DATA" => p \in DataPackets(MaxCommands)
  /\ \A p \in DownPackets : p.type = "ACK" => p.number \in Seqs
  /\ \A n, p : p \in DataPackets(n) => p.type = "DATA" /\ p.seq \in Seqs /\ p.body \in 1 .. n
  /\ DataPackets(MaxMessages) \subseteq UpPackets
  /\ DataPackets(MaxCommands) \subseteq DownPackets
PROOF
<1>1. \A n, p : p \in DataPackets(n) => p.type = "DATA" /\ p.seq \in Seqs /\ p.body \in 1 .. n
  BY DEF DataPackets
<1>2. /\ \A p \in [type : {"NAK"}, seq : Seqs, number : Seqs] : p.type # "DATA" /\ p.number \in Seqs
      /\ \A p \in [type : {"ACK"}, seq : Seqs, number : Seqs] : p.type # "DATA" /\ p.number \in Seqs
  OBVIOUS
<1>3. "DATA" # "NAK" /\ "DATA" # "ACK"
  OBVIOUS
<1> QED
  BY <1>1, <1>2, <1>3 DEF UpPackets, DownPackets

\* What the rover's side of a step does to what the argument is about.
LEMMA SendFacts ==
  ASSUME LinkTypes, RoverSends
  PROVE  LET c == r_current_sequence
             p == Data(c, messages + 1)
         IN  /\ p \in DataPackets(MaxMessages)
             /\ p.seq = c /\ p.body = messages + 1 /\ p.type = "DATA"
             /\ messages' = messages + 1 /\ messages < MaxMessages
             /\ r_last_sent' = [r_last_sent EXCEPT ![c] = p]
             /\ r_sent_packets' = IF r_sent_packets[c] # NoEntry THEN r_sent_packets
                                  ELSE [r_sent_packets EXCEPT ![c] =
                                          [packet |-> p, age |-> 0, retry_count |-> 0,
                                           recipient |-> "base"]]
             /\ r_current_sequence' \in Seqs
             /\ uplink' = Entered(uplink, <<p>>)
             /\ UNCHANGED <<basVars, downlink, commands, arrived, confirmed, base_lost>>
PROOF
<1> DEFINE c == r_current_sequence
           p == Data(c, messages + 1)
<1>1. messages < MaxMessages /\ messages + 1 \in 1 .. MaxMessages
  BY LinkAssumption DEF RoverSends, LinkTypes
<1>2. /\ p \in DataPackets(MaxMessages)
      /\ p.seq = c /\ p.body = messages + 1 /\ p.type = "DATA"
  BY <1>1 DEF Data, DataPackets, LinkTypes
<1>3. r_current_sequence' \in Seqs
  <2>1. r_current_sequence' = (r_current_sequence + 1) % SeqMod
    BY DEF RoverSends, Rov!SendMessage
  <2>2. r_current_sequence + 1 \in Int
    BY DEF LinkTypes, Seqs
  <2> QED
    BY <2>1, <2>2, SeqsFacts
<1> HIDE DEF p
<1>4. /\ r_last_sent' = [r_last_sent EXCEPT ![c] = p]
      /\ r_sent_packets' = IF r_sent_packets[c] # NoEntry THEN r_sent_packets
                           ELSE [r_sent_packets EXCEPT ![c] =
                                   [packet |-> p, age |-> 0, retry_count |-> 0,
                                    recipient |-> "base"]]
      /\ uplink' = Entered(uplink, <<p>>)
      /\ UNCHANGED <<basVars, downlink, commands, arrived, confirmed, base_lost>>
      /\ messages' = messages + 1
  BY DEF RoverSends, Rov!SendMessage, Rov!AddSendPacket, Rov!Tracked, p
<1> QED
  BY <1>1, <1>2, <1>3, <1>4 DEF p

\* The numbers of a NAK, and those it is sent under.
LEMMA NakFacts ==
  ASSUME FiniteNumbers, LinkTypes, NEW ns \in SUBSET Seqs, NEW q \in [1 .. Cardinality(ns) -> ns]
  PROVE  /\ NakPackets(q) \in Seq(UpPackets)
         /\ \A p \in Fn!Range(NakPackets(q)) : p.type # "DATA"
PROOF
<1>1. Cardinality(ns) \in Nat
  BY DEF FiniteNumbers
<1>2. ASSUME NEW i \in 1 .. Cardinality(ns)
      PROVE  /\ NakPackets(q)[i] \in UpPackets
             /\ NakPackets(q)[i].type = "NAK"
  <2>1. NakPackets(q)[i] = [type |-> "NAK", seq |-> (r_current_sequence + i - 1) % SeqMod,
                            number |-> q[i]]
    BY DEF NakPackets, Control
  <2>2. r_current_sequence + i - 1 \in Int
    BY <1>1 DEF LinkTypes, Seqs
  <2>3. (r_current_sequence + i - 1) % SeqMod \in Seqs
    BY <2>2, SeqsFacts
  <2> QED
    BY <2>1, <2>3 DEF UpPackets
<1>3. DOMAIN NakPackets(q) = 1 .. Cardinality(ns)
  BY DEF NakPackets
<1>4. NakPackets(q) = [i \in 1 .. Cardinality(ns) |-> NakPackets(q)[i]]
  BY DEF NakPackets
<1>5. NakPackets(q) \in [1 .. Cardinality(ns) -> UpPackets]
  BY <1>2, <1>4
<1> QED
  BY <1>1, <1>2, <1>3, <1>5 DEF Fn!Range

\* A command at the rover: nothing but NAKs enters the network.
LEMMA CommandFacts ==
  ASSUME FiniteNumbers, LinkTypes, NEW i \in DOMAIN downlink,
         RoverReceives(i), downlink[i].type = "DATA"
  PROVE  /\ r_current_sequence' \in Seqs
         /\ UNCHANGED <<r_sent_packets, r_last_sent, confirmed>>
         /\ uplink' \in Seq(UpPackets)
         /\ \A p \in Fn!Range(uplink') : p \in Fn!Range(uplink) \/ p.type # "DATA"
PROOF
<1> DEFINE s == downlink[i].seq
           ns == {nak[1] : nak \in r_out'.naks}
<1>1. Rov!RoverReceiveData(s, "base") /\ UNCHANGED confirmed
  BY DEF RoverReceives
<1>2. PICK q \in [1 .. Cardinality(ns) -> ns] : uplink' = Entered(uplink, NakPackets(q))
  BY DEF RoverReceives, InSearchOrder
<1>3. PICK naks \in SUBSET Seqs :
        /\ Rov!SendNaks(naks)
        /\ r_out'.naks = {<<t, "base">> : t \in naks}
  <2> DEFINE counter == (r_check_counter + 1) % SeqMod
             naks == IF counter % PacketsPerCheck = 0
                     THEN Rov!NaksFor(r_received_sequences'["base"]) ELSE {}
  <2>1. /\ Rov!SendNaks(naks)
        /\ r_out' = [Rov!Nothing EXCEPT !.naks = {<<t, "base">> : t \in naks}, !.forwarded = {s}]
    BY <1>1 DEF Rov!RoverReceiveData
  <2>2. Rov!NaksFor(r_received_sequences'["base"]) \in SUBSET Seqs
    BY EndFacts DEF Rov!NaksFor
  <2>3. naks \in SUBSET Seqs
    BY <2>2
  <2> HIDE DEF naks
  <2>4. r_out'.naks = {<<t, "base">> : t \in naks}
    BY <2>1 DEF Rov!Nothing
  <2> QED
    BY <2>1, <2>3, <2>4
<1>4. ns \in SUBSET Seqs
  BY <1>3
<1>5. r_current_sequence' \in Seqs
  <2>1. r_current_sequence' = (r_current_sequence + Cardinality(naks)) % SeqMod
    BY <1>3, EndFacts DEF Rov!SendNaks
  <2>2. r_current_sequence + Cardinality(naks) \in Int
    BY DEF FiniteNumbers, LinkTypes, Seqs
  <2> QED
    BY <2>1, <2>2, SeqsFacts
<1> HIDE DEF ns
<1>6. /\ NakPackets(q) \in Seq(UpPackets)
      /\ \A p \in Fn!Range(NakPackets(q)) : p.type # "DATA"
  BY <1>4, NakFacts
<1>7. uplink \in Seq(UpPackets)
  BY DEF LinkTypes
<1>8. /\ uplink' \in Seq(UpPackets)
      /\ \A p \in Fn!Range(uplink') : p \in Fn!Range(uplink) \/ p \in Fn!Range(NakPackets(q))
  BY <1>2, <1>6, <1>7, EnteredFacts
<1>9. UNCHANGED <<r_sent_packets, r_last_sent>>
  BY <1>1 DEF Rov!RoverReceiveData, Rov!trackVars
<1> QED
  BY <1>1, <1>5, <1>6, <1>8, <1>9

\* An ACK at the rover: the packet it names is taken off sent_packets_.
LEMMA AckFacts ==
  ASSUME LinkTypes, NEW i \in DOMAIN downlink, RoverReceives(i), downlink[i].type = "ACK"
  PROVE  LET a == downlink[i].number
         IN  /\ a \in Seqs
             /\ r_sent_packets' = [r_sent_packets EXCEPT ![a] = NoEntry]
             /\ UNCHANGED <<r_current_sequence, r_last_sent, uplink>>
             /\ confirmed' = IF r_sent_packets[a] # NoEntry
                             THEN confirmed \cup {r_sent_packets[a].packet.body}
                             ELSE confirmed
PROOF
<1> DEFINE a == downlink[i].number
<1>1. downlink[i] \in DownPackets
  BY DEF LinkTypes
<1>2. a \in Seqs
  BY <1>1, PacketFacts
<1>3. /\ Rov!RoverReceiveAck(downlink[i].seq, "base", a)
      /\ UNCHANGED uplink
      /\ confirmed' = confirmed \cup
           {r_sent_packets[s].packet.body : s \in {t \in r_out'.acked : Rov!Tracked(t)}}
  BY DEF RoverReceives
<1> HIDE DEF a
<1>4. r_out'.acked = {a}
  BY <1>3 DEF Rov!RoverReceiveAck, Rov!Nothing
<1>5. /\ r_sent_packets' = [r_sent_packets EXCEPT ![a] = NoEntry]
      /\ UNCHANGED <<r_current_sequence, r_last_sent>>
  BY <1>3 DEF Rov!RoverReceiveAck
<1>6. CASE r_sent_packets[a] # NoEntry
  <2>1. {t \in r_out'.acked : Rov!Tracked(t)} = {a}
    BY <1>4, <1>6 DEF Rov!Tracked
  <2> QED
    BY <1>2, <1>3, <1>5, <1>6, <2>1 DEF a
<1>7. CASE r_sent_packets[a] = NoEntry
  <2>1. {t \in r_out'.acked : Rov!Tracked(t)} = {}
    BY <1>4, <1>7, Zenon DEF Rov!Tracked
  <2> QED
    BY <1>2, <1>3, <1>5, <1>7, <2>1 DEF a
<1> QED
  BY <1>6, <1>7

\* A message at the base station: it is passed on unless its number has been
\* acknowledged, and acknowledged in any case.
LEMMA MessageFacts ==
  ASSUME LinkTypes, NEW i \in DOMAIN uplink, BaseReceives(i), uplink[i].type = "DATA"
  PROVE  LET p == uplink[i]
         IN  /\ p \in DataPackets(MaxMessages)
             /\ b_current_sequence' \in Seqs
             /\ UNCHANGED b_sent_packets
             /\ b_acked_sequences' = [b_acked_sequences EXCEPT !["rover"] = @ \cup {p.seq}]
             /\ arrived' = IF p.seq \in b_acked_sequences["rover"] THEN arrived
                           ELSE Append(arrived, p.body)
             /\ downlink' = Entered(downlink, <<Control("ACK", b_current_sequence, p.seq)>>)
PROOF
<1> DEFINE p == uplink[i]
<1>1. p \in UpPackets
  BY DEF LinkTypes
<1>2. p \in DataPackets(MaxMessages)
  BY <1>1, PacketFacts
<1>3. /\ Bas!BaseReceiveData(p.seq, "rover", TRUE)
      /\ downlink' = Entered(downlink, <<Control("ACK", b_current_sequence, p.seq)>>)
      /\ arrived' = IF b_out'.forwarded = {} THEN arrived ELSE Append(arrived, p.body)
  BY Zenon DEF BaseReceives
<1> HIDE DEF p
<1>4. b_out'.forwarded = {p.seq} \ b_acked_sequences["rover"]
  BY <1>3, Zenon DEF Bas!BaseReceiveData, Bas!Nothing
<1>5. /\ b_acked_sequences' = [b_acked_sequences EXCEPT !["rover"] = @ \cup {p.seq}]
      /\ b_current_sequence' = (b_current_sequence + 1) % SeqMod
      /\ UNCHANGED b_sent_packets
  BY <1>3 DEF Bas!BaseReceiveData, Bas!SendAck, Bas!trackVars
<1>6. b_current_sequence' \in Seqs
  <2>1. b_current_sequence + 1 \in Int
    BY DEF LinkTypes, Seqs
  <2> QED
    BY <1>5, <2>1, SeqsFacts
<1>7. arrived' = IF p.seq \in b_acked_sequences["rover"] THEN arrived
                 ELSE Append(arrived, p.body)
  BY <1>3, <1>4
<1> QED
  BY <1>2, <1>3, <1>5, <1>6, <1>7 DEF p

\* A NAK at the base station: nothing but commands enters the network.
LEMMA NakAnswered ==
  ASSUME FiniteNumbers, LinkTypes, NEW i \in DOMAIN uplink, BaseReceives(i), uplink[i].type = "NAK"
  PROVE  /\ UNCHANGED <<b_current_sequence, b_sent_packets, b_acked_sequences, arrived>>
         /\ downlink' \in Seq(DownPackets)
         /\ \A p \in Fn!Range(downlink') :
              \/ p \in Fn!Range(downlink)
              \/ \E s \in Seqs : b_sent_packets[s] # NoEntry /\ p = b_sent_packets[s].packet
PROOF
<1> DEFINE n == uplink[i].number
           ss == {t \in {n} : Bas!Tracked(t)}
           ps == {x[1] : x \in b_out'.resent}
<1>1. Bas!BaseReceiveNak(uplink[i].seq, "rover", n) /\ UNCHANGED arrived
  BY DEF BaseReceives
<1>2. PICK q \in [1 .. Cardinality(ps) -> ps] : downlink' = Entered(downlink, q)
  BY DEF BaseReceives, InNumberOrder
<1>3. uplink[i] \in UpPackets
  BY DEF LinkTypes
<1>4. n \in Seqs
  BY <1>3, PacketFacts
<1> HIDE DEF n
<1>5. UNCHANGED <<b_current_sequence, b_sent_packets, b_acked_sequences>>
  BY <1>1 DEF Bas!BaseReceiveNak, Bas!trackVars, Bas!ackVars
<1>6. b_out'.resent = {<<b_sent_packets[s].packet, b_sent_packets[s].recipient>> : s \in ss}
  BY <1>1 DEF Bas!BaseReceiveNak, Bas!Nothing, Bas!Resent
<1>7. \A p \in ps : \E s \in Seqs : b_sent_packets[s] # NoEntry /\ p = b_sent_packets[s].packet
  BY <1>4, <1>6 DEF Bas!Tracked
<1> DEFINE f == [s \in Seqs |-> b_sent_packets[s].packet]
<1>8. ps = {f[s] : s \in ss} /\ ss \in SUBSET Seqs
  <2>1. \A s \in ss : s \in Seqs /\ f[s] = b_sent_packets[s].packet
    BY <1>4
  <2> HIDE DEF f, ss
  <2>2. \A x \in b_out'.resent : \E s \in ss : x[1] = f[s]
    BY <1>6, <2>1
  <2>3. \A s \in ss : \E x \in b_out'.resent : x[1] = f[s]
    <3> TAKE s \in ss
    <3>1. <<b_sent_packets[s].packet, b_sent_packets[s].recipient>> \in b_out'.resent
      BY <1>6
    <3> QED
      BY <2>1, <3>1
  <2>4. ss \in SUBSET Seqs
    BY <2>1
  <2> QED
    BY <2>2, <2>3, <2>4
<1>9. Cardinality(ps) \in Nat
  <2> HIDE DEF f, ps, ss
  <2> QED
    BY <1>8, Zenon DEF FiniteNumbers
<1>10. ps \subseteq DownPackets
  <2> SUFFICES ASSUME NEW p \in ps PROVE p \in DownPackets
    OBVIOUS
  <2>1. PICK s \in Seqs : b_sent_packets[s] # NoEntry /\ p = b_sent_packets[s].packet
    BY <1>7
  <2>2. b_sent_packets[s] \in Entries(MaxCommands)
    BY <2>1 DEF LinkTypes
  <2> QED
    BY <2>1, <2>2, PacketFacts DEF Entries
<1> HIDE DEF ps
<1>11. q \in Seq(ps) /\ Fn!Range(q) \subseteq ps
  BY <1>9, SeqOfSet
<1>12. q \in Seq(DownPackets) /\ downlink \in Seq(DownPackets)
  BY <1>10, <1>11 DEF LinkTypes
<1>13. /\ downlink' \in Seq(DownPackets)
       /\ \A p \in Fn!Range(downlink') : p \in Fn!Range(downlink) \/ p \in Fn!Range(q)
  BY <1>2, <1>12, EnteredFacts
<1> QED
  BY <1>1, <1>5, <1>7, <1>11, <1>13

LEMMA RetransmitFacts ==
  ASSUME FiniteNumbers, LinkTypes, RoverRetransmits
  PROVE  /\ r_sent_packets' \in [Seqs -> Entries(MaxMessages) \cup {NoEntry}]
         /\ Keeps(r_sent_packets, r_sent_packets')
         /\ UNCHANGED <<r_current_sequence, r_last_sent>>
         /\ uplink' \in Seq(UpPackets)
         /\ \A p \in Fn!Range(uplink') :
              \/ p \in Fn!Range(uplink)
              \/ \E s \in Seqs : r_sent_packets[s] # NoEntry /\ p = r_sent_packets[s].packet
PROOF
<1> DEFINE ps == {x[1] : x \in r_out'.resent}
<1>1. Rov!HandleRetransmissionTimer
  BY DEF RoverRetransmits
<1>2. PICK q \in [1 .. Cardinality(ps) -> ps] : uplink' = Entered(uplink, q)
  BY DEF RoverRetransmits, InNumberOrder
<1>3. UNCHANGED <<r_current_sequence, r_last_sent>>
  BY <1>1, Zenon DEF Rov!HandleRetransmissionTimer
<1>4. r_sent_packets \in [Seqs -> Entries(MaxMessages) \cup {NoEntry}]
  BY DEF LinkTypes
<1>5. /\ r_sent_packets' \in [Seqs -> Entries(MaxMessages) \cup {NoEntry}]
      /\ Keeps(r_sent_packets, r_sent_packets')
      /\ Cardinality(ps) \in Nat
      /\ \A p \in ps : \E s \in Seqs : r_sent_packets[s] # NoEntry /\ p = r_sent_packets[s].packet
  BY <1>1, <1>4, RetransmitKeeps, Zenon
<1>6. ps \subseteq UpPackets
  <2> SUFFICES ASSUME NEW p \in ps PROVE p \in UpPackets
    OBVIOUS
  <2>1. PICK s \in Seqs : r_sent_packets[s] # NoEntry /\ p = r_sent_packets[s].packet
    BY <1>5, Zenon
  <2>2. r_sent_packets[s] \in Entries(MaxMessages)
    BY <1>4, <2>1
  <2> QED
    BY <2>1, <2>2, PacketFacts DEF Entries
<1> HIDE DEF ps
<1>7. q \in Seq(ps) /\ Fn!Range(q) \subseteq ps
  BY <1>5, SeqOfSet
<1>8. q \in Seq(UpPackets) /\ uplink \in Seq(UpPackets)
  BY <1>6, <1>7 DEF LinkTypes
<1>9. /\ uplink' \in Seq(UpPackets)
      /\ \A p \in Fn!Range(uplink') : p \in Fn!Range(uplink) \/ p \in Fn!Range(q)
  BY <1>2, <1>8, EnteredFacts
<1> QED
  BY <1>3, <1>5, <1>7, <1>9

LEMMA BaseTimerFacts ==
  ASSUME LinkTypes, BaseTimers
  PROVE  /\ UNCHANGED <<b_current_sequence, b_sent_packets>>
         /\ b_acked_sequences' \in [{"rover"} -> SUBSET Seqs]
         /\ b_acked_sequences'["rover"] \subseteq b_acked_sequences["rover"]
PROOF
<1>1. CASE Bas!HandleRetransmissionTimer
  <2>1. b_sent_packets' = [s \in Seqs |-> b_sent_packets[s]]
    BY <1>1, EndFacts DEF Bas!HandleRetransmissionTimer
  <2>2. UNCHANGED <<b_current_sequence, b_acked_sequences>>
    BY <1>1 DEF Bas!HandleRetransmissionTimer, Bas!ackVars
  <2> QED
    BY <2>1, <2>2 DEF LinkTypes
<1>2. CASE Bas!HandleCleanupTimer
  <2>1. UNCHANGED <<b_current_sequence, b_sent_packets>>
    BY <1>2 DEF Bas!HandleCleanupTimer, Bas!trackVars
  <2>2. \/ b_acked_sequences' = [e \in {"rover"} |-> {}]
        \/ UNCHANGED b_acked_sequences
    BY <1>2 DEF Bas!HandleCleanupTimer, Bas!ackVars
  <2> QED
    BY <2>1, <2>2 DEF LinkTypes
<1> QED
  BY <1>1, <1>2 DEF BaseTimers

LEMMA LinkTypesInit == Init => LinkTypes
PROOF
<1> SUFFICES ASSUME Init PROVE LinkTypes
  OBVIOUS
<1>1. /\ r_current_sequence = 0 /\ b_current_sequence = 0
      /\ r_sent_packets = [s \in Seqs |-> NoEntry]
      /\ b_sent_packets = [s \in Seqs |-> NoEntry]
      /\ r_last_sent = [s \in Seqs |-> NoEntry]
      /\ b_acked_sequences = [e \in {"rover"} |-> {}]
  BY EndFacts DEF Init, Rov!Init, Bas!Init
<1>2. uplink = <<>> /\ downlink = <<>> /\ arrived = <<>> /\ messages = 0 /\ commands = 0
  BY DEF Init
<1> QED
  BY <1>1, <1>2, SeqsFacts, LinkAssumption DEF LinkTypes

LEMMA TypesRoverSends ==
  ASSUME LinkTypes, RoverSends
  PROVE  LinkTypes'
PROOF
<1> DEFINE c == r_current_sequence
           p == Data(c, messages + 1)
           new == [packet |-> p, age |-> 0, retry_count |-> 0, recipient |-> "base"]
<1>1. new \in Entries(MaxMessages)
  BY SendFacts DEF Entries
<1>2. r_sent_packets' \in [Seqs -> Entries(MaxMessages) \cup {NoEntry}]
  BY <1>1, SendFacts DEF LinkTypes
<1>3. r_last_sent' \in [Seqs -> DataPackets(MaxMessages) \cup {NoEntry}]
  BY SendFacts, Zenon DEF LinkTypes
<1>4. <<p>> \in Seq(UpPackets) /\ uplink \in Seq(UpPackets)
  BY SendFacts, PacketFacts DEF LinkTypes
<1>5. uplink' \in Seq(UpPackets)
  <2>1. uplink' = Entered(uplink, <<p>>)
    BY SendFacts, Zenon
  <2> HIDE DEF p
  <2> QED
    BY <1>4, <2>1, EnteredFacts, Zenon
<1>6. messages' \in 0 .. MaxMessages /\ r_current_sequence' \in Seqs
  BY SendFacts, LinkAssumption DEF LinkTypes
<1> QED
  BY <1>2, <1>3, <1>5, <1>6, SendFacts, Zenon DEF LinkTypes, basVars

LEMMA TypesRoverReceives ==
  ASSUME FiniteNumbers, LinkTypes, NEW i \in Arriving(downlink), RoverReceives(i)
  PROVE  LinkTypes'
PROOF
<1>1. i \in DOMAIN downlink
  BY DEF Arriving
<1>2. downlink' \in Seq(DownPackets)
  <2>1. downlink' = Without(downlink, i) /\ downlink \in Seq(DownPackets)
    BY DEF RoverReceives, LinkTypes
  <2> QED
    BY <1>1, <2>1, RemoveAtFacts
<1>3. UNCHANGED <<basVars, messages, commands, arrived>>
  BY DEF RoverReceives
<1>4. CASE downlink[i].type = "DATA"
  BY <1>1, <1>2, <1>3, <1>4, CommandFacts DEF LinkTypes, basVars
<1>5. CASE downlink[i].type = "ACK"
  <2>1. /\ UNCHANGED <<r_current_sequence, r_last_sent, uplink>>
        /\ r_sent_packets' \in [Seqs -> Entries(MaxMessages) \cup {NoEntry}]
    BY <1>1, <1>5, AckFacts, Zenon DEF LinkTypes
  <2> QED
    BY <1>2, <1>3, <2>1, Zenon DEF LinkTypes, basVars
<1> QED
  BY <1>4, <1>5 DEF RoverReceives

LEMMA TypesRoverRetransmits ==
  ASSUME FiniteNumbers, LinkTypes, RoverRetransmits
  PROVE  LinkTypes'
PROOF
<1>1. UNCHANGED <<basVars, downlink, messages, commands, arrived>>
  BY DEF RoverRetransmits
<1> QED
  BY <1>1, RetransmitFacts DEF LinkTypes, basVars

LEMMA TypesRoverCleansUp ==
  ASSUME LinkTypes, RoverCleansUp
  PROVE  LinkTypes'
  BY DEF RoverCleansUp, Rov!HandleCleanupTimer, Rov!trackVars, LinkTypes, basVars, appVars

LEMMA TypesBaseReceives ==
  ASSUME FiniteNumbers, LinkTypes, NEW i \in Arriving(uplink), BaseReceives(i)
  PROVE  LinkTypes'
PROOF
<1>1. i \in DOMAIN uplink
  BY DEF Arriving
<1>2. uplink' \in Seq(UpPackets)
  <2>1. uplink' = Without(uplink, i) /\ uplink \in Seq(UpPackets)
    BY DEF BaseReceives, LinkTypes
  <2> QED
    BY <1>1, <2>1, RemoveAtFacts
<1>3. UNCHANGED <<rovVars, messages, commands>>
  BY DEF BaseReceives
<1>4. CASE uplink[i].type = "DATA"
  <2> DEFINE p == uplink[i]
             ack == Control("ACK", b_current_sequence, p.seq)
  <2>1. /\ p.seq \in Seqs /\ p.body \in 1 .. MaxMessages
        /\ UNCHANGED b_sent_packets
        /\ b_current_sequence' \in Seqs
    BY <1>1, <1>4, MessageFacts, PacketFacts, Zenon
  <2> HIDE DEF p
  <2>a. b_acked_sequences' = [b_acked_sequences EXCEPT !["rover"] = @ \cup {p.seq}]
    BY <1>1, <1>4, MessageFacts, Zenon DEF p
  <2>b. arrived' = IF p.seq \in b_acked_sequences["rover"] THEN arrived
                   ELSE Append(arrived, p.body)
    BY <1>1, <1>4, MessageFacts, Zenon DEF p
  <2>c. downlink' = Entered(downlink, <<ack>>)
    BY <1>1, <1>4, MessageFacts DEF p
  <2>2. arrived' \in Seq(1 .. MaxMessages)
    <3> DEFINE M == 1 .. MaxMessages
    <3>1. arrived \in Seq(M) /\ p.body \in M
      BY <2>1 DEF LinkTypes
    <3> HIDE DEF M
    <3>2. Append(arrived, p.body) \in Seq(M)
      BY <3>1, AppendFacts
    <3> QED
      BY <2>b, <3>1, <3>2, Zenon DEF M
  <2>3. b_acked_sequences' \in [{"rover"} -> SUBSET Seqs]
    <3>1. b_acked_sequences \in [{"rover"} -> SUBSET Seqs]
      BY DEF LinkTypes
    <3>2. b_acked_sequences["rover"] \cup {p.seq} \in SUBSET Seqs
      BY <2>1, <3>1
    <3> QED
      BY <2>a, <3>1, <3>2
  <2>4. <<ack>> \in Seq(DownPackets) /\ downlink \in Seq(DownPackets)
    BY <2>1 DEF Control, DownPackets, LinkTypes
  <2> HIDE DEF ack
  <2>5. downlink' \in Seq(DownPackets)
    BY <2>4, <2>c, EnteredFacts, Zenon
  <2> QED
    BY <1>2, <1>3, <2>1, <2>2, <2>3, <2>5 DEF LinkTypes, rovVars
<1>5. CASE uplink[i].type = "NAK"
  BY <1>1, <1>2, <1>3, <1>5, NakAnswered, Zenon DEF LinkTypes, rovVars
<1> QED
  BY <1>4, <1>5, Zenon DEF BaseReceives

LEMMA TypesBaseTimers ==
  ASSUME LinkTypes, BaseTimers
  PROVE  LinkTypes'
PROOF
<1>1. UNCHANGED <<rovVars, uplink, downlink, appVars>>
  BY DEF BaseTimers
<1> QED
  BY <1>1, BaseTimerFacts DEF LinkTypes, rovVars, appVars

LEMMA TypesLosePacket ==
  ASSUME LinkTypes, LosePacket
  PROVE  LinkTypes'
PROOF
<1>1. uplink \in Seq(UpPackets) /\ downlink \in Seq(DownPackets)
  BY DEF LinkTypes
<1>2. uplink' \in Seq(UpPackets) /\ downlink' \in Seq(DownPackets)
  BY <1>1, RemoveAtFacts DEF LosePacket
<1> QED
  BY <1>2 DEF LosePacket, LinkTypes, rovVars, basVars, appVars

LEMMA TypesTick ==
  ASSUME LinkTypes, Tick
  PROVE  LinkTypes'
PROOF
<1>1. /\ r_sent_packets' \in [Seqs -> Entries(MaxMessages) \cup {NoEntry}]
      /\ b_sent_packets' \in [Seqs -> Entries(MaxCommands) \cup {NoEntry}]
  BY RoverTickKeeps, BaseTickKeeps DEF Tick, LinkTypes
<1>2. UNCHANGED <<r_current_sequence, r_last_sent, b_current_sequence, b_acked_sequences>>
  BY DEF Tick, Rov!Tick, Bas!Tick
<1> QED
  BY <1>1, <1>2 DEF Tick, LinkTypes, appVars

LEMMA TypesRoverResets ==
  ASSUME LinkTypes, RoverResets
  PROVE  LinkTypes'
PROOF
<1>1. /\ r_current_sequence' = 0
      /\ r_sent_packets' = [s \in Seqs |-> NoEntry]
      /\ UNCHANGED r_last_sent
  BY EndFacts DEF RoverResets, Rov!ResetSequenceNumber
<1> QED
  BY <1>1, SeqsFacts DEF RoverResets, LinkTypes, basVars

LEMMA TypesBaseSends ==
  ASSUME LinkTypes, BaseSends
  PROVE  LinkTypes'
PROOF
<1> DEFINE c == b_current_sequence
           p == Data(c, commands + 1)
           new == [packet |-> p, age |-> 0, retry_count |-> 0, recipient |-> "rover"]
<1>1. commands' \in 0 .. MaxCommands /\ commands + 1 \in 1 .. MaxCommands
  BY LinkAssumption DEF BaseSends, LinkTypes
<1>2. p \in DataPackets(MaxCommands)
  BY <1>1 DEF Data, DataPackets, LinkTypes
<1>3. b_current_sequence' \in Seqs
  <2>1. b_current_sequence' = (b_current_sequence + 1) % SeqMod
    BY DEF BaseSends, Bas!SendMessage
  <2>2. b_current_sequence + 1 \in Int
    BY DEF LinkTypes, Seqs
  <2> QED
    BY <2>1, <2>2, SeqsFacts
<1> HIDE DEF p
<1>4. new \in Entries(MaxCommands)
  BY <1>2 DEF Entries
<1>5. /\ b_sent_packets' = IF b_sent_packets[c] # NoEntry THEN b_sent_packets
                           ELSE [b_sent_packets EXCEPT ![c] = new]
      /\ UNCHANGED b_acked_sequences
      /\ downlink' = Entered(downlink, <<p>>)
  BY DEF BaseSends, Bas!SendMessage, Bas!AddSendPacket, Bas!Tracked, Bas!ackVars, p
<1>6. b_sent_packets' \in [Seqs -> Entries(MaxCommands) \cup {NoEntry}]
  BY <1>4, <1>5 DEF LinkTypes
<1>7. <<p>> \in Seq(DownPackets) /\ downlink \in Seq(DownPackets)
  <2>1. DataPackets(MaxCommands) \subseteq DownPackets
    BY PacketFacts, Zenon
  <2>2. p \in DownPackets
    BY <1>2, <2>1
  <2>3. downlink \in Seq(DownPackets)
    BY Zenon DEF LinkTypes
  <2> QED
    BY <2>2, <2>3
<1>8. downlink' \in Seq(DownPackets)
  BY <1>5, <1>7, EnteredFacts, Zenon
<1>9. UNCHANGED <<rovVars, uplink, messages, arrived>>
  BY DEF BaseSends
<1> QED
  BY <1>1, <1>3, <1>5, <1>6, <1>8, <1>9 DEF LinkTypes, rovVars

LEMMA TypesStutter ==
  ASSUME LinkTypes, UNCHANGED vars
  PROVE  LinkTypes'
  BY DEF vars, LinkTypes, rovVars, basVars, appVars

LEMMA LinkTypesStep ==
  ASSUME FiniteNumbers, LinkTypes, [Next]_vars
  PROVE  LinkTypes'
  BY TypesRoverSends, TypesRoverReceives, TypesRoverRetransmits, TypesRoverCleansUp,
     TypesBaseReceives, TypesBaseTimers, TypesLosePacket, TypesTick,
     TypesRoverResets, TypesBaseSends, TypesStutter DEF Next, MessageNext

-----------------------------------------------------------------------------
(* One session without commands: the numbers are used in their order.      *)

\* No message is sent under a number that has been used before.
FreshStep == messages' # messages => r_last_sent[r_current_sequence] = NoEntry

\* As the base station sends nothing but ACKs, the rover sends no NAKs, and counts
\* nothing but its messages.
InOrder ==
  /\ \A s \in Seqs : b_sent_packets[s] = NoEntry
  /\ \A p \in Fn!Range(downlink) : p.type = "ACK"
  /\ messages < SeqMod => r_current_sequence = messages
  /\ \A s \in Seqs : s >= messages => r_last_sent[s] = NoEntry

LEMMA InOrderInit == Init => InOrder
  BY EndFacts DEF Init, Rov!Init, Bas!Init, InOrder, Fn!Range

\* The steps other than the rover's sends.
LEMMA InOrderKept ==
  ASSUME InOrder, UNCHANGED <<r_current_sequence, r_last_sent, messages>>,
         \A s \in Seqs : b_sent_packets'[s] = NoEntry,
         \A p \in Fn!Range(downlink') : p.type = "ACK"
  PROVE  InOrder' /\ FreshStep
PROOF
<1>1. Fn!Range(downlink)' = Fn!Range(downlink')
  BY DEF Fn!Range
<1> QED
  BY <1>1 DEF InOrder, FreshStep

LEMMA InOrderSends ==
  ASSUME MaxMessages <= SeqMod, LinkTypes, InOrder, RoverSends
  PROVE  InOrder' /\ FreshStep
PROOF
<1> PICK c : c = r_current_sequence
  OBVIOUS
<1>1. /\ messages' = messages + 1 /\ messages < MaxMessages
      /\ r_last_sent' = [r_last_sent EXCEPT ![c] = Data(c, messages + 1)]
      /\ UNCHANGED <<basVars, downlink>>
  BY SendFacts
<1>2. messages \in Nat /\ messages < SeqMod /\ c = messages /\ c \in Seqs
  BY <1>1, LinkAssumption DEF LinkTypes, InOrder
<1>3. r_current_sequence' = (c + 1) % SeqMod
  BY DEF RoverSends, Rov!SendMessage
<1>4. messages' < SeqMod => r_current_sequence' = messages'
  BY <1>1, <1>2, <1>3, LinkAssumption
<1>5. \A s \in Seqs : s >= messages' => r_last_sent'[s] = NoEntry
  <2> SUFFICES ASSUME NEW s \in Seqs, s >= messages' PROVE r_last_sent'[s] = NoEntry
    OBVIOUS
  <2>1. s # c /\ s >= messages
    BY <1>1, <1>2 DEF Seqs
  <2> QED
    BY <1>1, <2>1 DEF LinkTypes, InOrder
<1>6. r_last_sent[c] = NoEntry
  BY <1>2 DEF InOrder
<1>7. Fn!Range(downlink)' = Fn!Range(downlink)
  BY <1>1 DEF Fn!Range
<1> QED
  BY <1>1, <1>4, <1>5, <1>6, <1>7 DEF InOrder, FreshStep, basVars

LEMMA InOrderStep ==
  ASSUME MaxMessages <= SeqMod, FiniteNumbers, LinkTypes, InOrder, [MessageNext]_vars
  PROVE  InOrder' /\ FreshStep
PROOF
<1>t. uplink \in Seq(UpPackets) /\ downlink \in Seq(DownPackets)
  BY Zenon DEF LinkTypes
<1>b. /\ \A s \in Seqs : b_sent_packets[s] = NoEntry
      /\ \A p \in Fn!Range(downlink) : p.type = "ACK"
  BY Zenon DEF InOrder
<1>1. ASSUME NEW i \in Arriving(downlink), RoverReceives(i)
      PROVE  InOrder' /\ FreshStep
  <2>1. i \in DOMAIN downlink
    BY Zenon DEF Arriving
  <2>2. downlink[i].type = "ACK" /\ Fn!Range(Without(downlink, i)) \subseteq Fn!Range(downlink)
    BY <1>t, <1>b, <2>1, RemoveAtFacts, Zenon
  <2>3. UNCHANGED <<r_current_sequence, r_last_sent>>
    BY <1>1, <2>1, <2>2, AckFacts
  <2>4. downlink' = Without(downlink, i) /\ UNCHANGED <<b_sent_packets, messages>>
    BY <1>1, Zenon DEF RoverReceives, basVars
  <2> QED
    BY <1>b, <2>2, <2>3, <2>4, InOrderKept
<1>2. CASE RoverRetransmits
  <2>1. UNCHANGED <<r_current_sequence, r_last_sent>>
    BY <1>2, RetransmitFacts, Zenon
  <2>2. UNCHANGED <<b_sent_packets, downlink, messages>>
    BY <1>2, Zenon DEF RoverRetransmits, basVars
  <2> QED
    BY <1>b, <2>1, <2>2, InOrderKept
<1>3. CASE RoverCleansUp
  <2>1. UNCHANGED <<r_current_sequence, r_last_sent, b_sent_packets, downlink, messages>>
    BY <1>3 DEF RoverCleansUp, Rov!HandleCleanupTimer, Rov!trackVars, basVars, appVars
  <2> QED
    BY <1>b, <2>1, InOrderKept
<1>4. ASSUME NEW i \in Arriving(uplink), BaseReceives(i)
      PROVE  InOrder' /\ FreshStep
  <2>1. i \in DOMAIN uplink /\ UNCHANGED <<r_current_sequence, r_last_sent, messages>>
    BY <1>4, Zenon DEF Arriving, BaseReceives, rovVars
  <2>2. CASE uplink[i].type = "DATA"
    <3>1. UNCHANGED b_sent_packets
      BY <1>4, <2>1, <2>2, MessageFacts, Zenon
    <3>2. PICK ack : ack = Control("ACK", b_current_sequence, uplink[i].seq)
      OBVIOUS
    <3>3. /\ downlink' = Entered(downlink, <<ack>>)
          /\ uplink[i] \in DataPackets(MaxMessages)
      BY <1>4, <2>1, <2>2, <3>2, MessageFacts
    <3>4. ack.type = "ACK" /\ ack \in DownPackets
      BY <3>2, <3>3, PacketFacts DEF Control, DownPackets, LinkTypes
    <3>5. <<ack>> \in Seq(DownPackets) /\ \A q \in Fn!Range(<<ack>>) : q = ack
      BY <3>4 DEF Fn!Range
    <3>6. \A p \in Fn!Range(downlink') : p \in Fn!Range(downlink) \/ p \in Fn!Range(<<ack>>)
      BY <1>t, <3>3, <3>5, EnteredFacts, Zenon
    <3>7. \A p \in Fn!Range(downlink') : p.type = "ACK"
      BY <1>b, <3>4, <3>5, <3>6, Zenon
    <3> QED
      BY <1>b, <2>1, <3>1, <3>7, InOrderKept
  <2>3. CASE uplink[i].type = "NAK"
    <3>1. /\ UNCHANGED b_sent_packets
          /\ \A p \in Fn!Range(downlink') :
               \/ p \in Fn!Range(downlink)
               \/ \E s \in Seqs : b_sent_packets[s] # NoEntry /\ p = b_sent_packets[s].packet
      BY <1>4, <2>1, <2>3, NakAnswered, Zenon
    <3>2. \A p \in Fn!Range(downlink') : p.type = "ACK"
      BY <1>b, <3>1, Zenon
    <3> QED
      BY <1>b, <2>1, <3>1, <3>2, InOrderKept
  <2> QED
    BY <1>4, <2>2, <2>3, Zenon DEF BaseReceives
<1>5. CASE BaseTimers
  <2>1. UNCHANGED b_sent_packets
    BY <1>5, BaseTimerFacts, Zenon
  <2>2. UNCHANGED <<r_current_sequence, r_last_sent, downlink, messages>>
    BY <1>5, Zenon DEF BaseTimers, rovVars, appVars
  <2> QED
    BY <1>b, <2>1, <2>2, InOrderKept
<1>6. CASE LosePacket
  <2>1. UNCHANGED <<r_current_sequence, r_last_sent, b_sent_packets, messages>>
    BY <1>6, Zenon DEF LosePacket, rovVars, basVars, appVars
  <2>2. Fn!Range(downlink') \subseteq Fn!Range(downlink)
    <3>1. CASE UNCHANGED downlink
      BY <3>1
    <3>2. ASSUME NEW i \in DOMAIN downlink, downlink' = Without(downlink, i)
          PROVE  Fn!Range(downlink') \subseteq Fn!Range(downlink)
      BY <1>t, <3>2, RemoveAtFacts
    <3> QED
      BY <1>6, <3>1, <3>2, Zenon DEF LosePacket
  <2> QED
    BY <1>b, <2>1, <2>2, InOrderKept
<1>7. CASE Tick
  <2>1. UNCHANGED <<r_current_sequence, r_last_sent>>
    BY <1>7 DEF Tick, Rov!Tick
  <2>2. UNCHANGED <<downlink, messages>>
    BY <1>7, Zenon DEF Tick, appVars
  <2>3. \A s \in Seqs : b_sent_packets'[s] = NoEntry
    BY <1>7, <1>b, EndFacts DEF Tick, Bas!Tick, Bas!Tracked
  <2> QED
    BY <1>b, <2>1, <2>2, <2>3, InOrderKept
<1>8. CASE UNCHANGED vars
  <2>1. UNCHANGED <<r_current_sequence, r_last_sent, b_sent_packets, downlink, messages>>
    BY <1>8, Zenon DEF vars, rovVars, basVars, appVars
  <2> QED
    BY <1>b, <2>1, InOrderKept
<1> QED
  BY <1>1, <1>2, <1>3, <1>4, <1>5, <1>6, <1>7, <1>8, InOrderSends, Zenon DEF MessageNext

=============================================================================
