--------------------------- MODULE EndpointProofs ---------------------------
(***************************************************************************)
(* What holds of one end of the LUMEN protocol for every size of the       *)
(* number space, every window, and every choice of the time constants.     *)
(***************************************************************************)
EXTENDS LumenEndpoint, FiniteSetTheorems, WellFoundedInduction, TLAPS

LEMMA SeqsFacts ==
  /\ SeqMod \in Nat \ {0}
  /\ 0 \in Seqs
  /\ Seqs \subseteq Nat
  /\ \A n \in Int : n % SeqMod \in Seqs
BY EndpointAssumption DEF Seqs

-----------------------------------------------------------------------------
(* NAKs.  A number asked for recently is in recent_naks_ with that very    *)
(* time: the cleanup keeps NAKs for twice the debounce time.               *)

NakInv ==
  /\ recent_naks \in [Seqs -> Int]
  /\ since_nak \in [Seqs -> Since(NAK_DEBOUNCE_TIME - 1)]
  /\ \A s \in Seqs : since_nak[s] # Absent => recent_naks[s] = since_nak[s]

LEMMA NakStep ==
  ASSUME NakInv, [Next]_vars
  PROVE  NakInv'
PROOF
<1>d. NAK_DEBOUNCE_TIME \in Nat \ {0}
  BY EndpointAssumption
<1> USE <1>d DEF NakInv, Since, Absent
<1>1. CASE UNCHANGED nakVars
  BY <1>1 DEF nakVars
<1>2. ASSUME NEW s \in Heard, NEW e \in Peers, RoverReceiveData(s, e)
      PROVE  NakInv'
  <2>1. PICK naks : /\ recent_naks' = [t \in Seqs |-> IF t \in naks THEN 0 ELSE recent_naks[t]]
                    /\ since_nak' = [t \in Seqs |-> IF t \in naks THEN 0 ELSE since_nak[t]]
    BY <1>2, Zenon DEF RoverReceiveData, SendNaks
  <2> QED
    BY <2>1
<1>3. CASE HandleCleanupTimer
  <2>1. /\ recent_naks' = [s \in Seqs |-> Forget(recent_naks[s], RetainNak)]
        /\ UNCHANGED since_nak
    BY <1>3 DEF HandleCleanupTimer
  <2>2. ASSUME NEW s \in Seqs
        PROVE  /\ recent_naks'[s] \in Int
               /\ since_nak[s] # Absent => recent_naks'[s] = since_nak[s]
    <3>1. recent_naks'[s] = Forget(recent_naks[s], RetainNak)
      BY <2>1
    <3>2. recent_naks[s] \in Int /\ since_nak[s] \in -1 .. NAK_DEBOUNCE_TIME - 1
      OBVIOUS
    <3> QED
      BY <3>1, <3>2 DEF Forget, RetainNak
  <2> QED
    BY <2>1, <2>2
<1>4. CASE ResetSequenceNumber
  BY <1>4 DEF ResetSequenceNumber
<1>5. CASE Tick
  <2>1. /\ recent_naks' = [s \in Seqs |-> Older(recent_naks[s], 2 * NAK_DEBOUNCE_TIME)]
        /\ since_nak' = [s \in Seqs |-> Later(since_nak[s], NAK_DEBOUNCE_TIME - 1)]
    BY <1>5 DEF Tick
  <2>2. ASSUME NEW s \in Seqs
        PROVE  /\ recent_naks'[s] \in Int
               /\ since_nak'[s] \in Since(NAK_DEBOUNCE_TIME - 1)
               /\ since_nak'[s] # Absent => recent_naks'[s] = since_nak'[s]
    <3>1. /\ recent_naks'[s] = Older(recent_naks[s], 2 * NAK_DEBOUNCE_TIME)
          /\ since_nak'[s] = Later(since_nak[s], NAK_DEBOUNCE_TIME - 1)
      BY <2>1
    <3>2. recent_naks[s] \in Int /\ since_nak[s] \in -1 .. NAK_DEBOUNCE_TIME - 1
      OBVIOUS
    <3> QED
      BY <3>1, <3>2 DEF Older, Later
  <2> QED
    BY <2>1, <2>2
<1> QED
  BY <1>1, <1>2, <1>3, <1>4, <1>5, Zenon DEF Next, Receive, SendMessage, IgnoreControl,
     RoverReceiveAck, BaseReceiveNak, BaseReceiveData, HandleRetransmissionTimer, vars

\* The numbers NAKs are sent for were not asked for recently and are missing.
LEMMA NaksForFacts ==
  ASSUME NEW rcv, NEW s \in NaksFor(rcv)
  PROVE  ~RecentlyNaked(s) /\ IsMissing(rcv, s)
BY Zenon DEF NaksFor

\* Only a data packet makes a rover send NAKs.
LEMMA NaksOnlyFromData ==
  ASSUME [Next]_vars, ~UNCHANGED vars, out'.naks # {}
  PROVE  \E s \in Heard, e \in Peers :
           /\ RoverReceiveData(s, e)
           /\ out'.naks \subseteq NaksFor(received_sequences'[e]) \X {e}
PROOF
<1> USE DEF Nothing
<1>1. ASSUME NEW s \in Heard, NEW e \in Peers, RoverReceiveData(s, e)
      PROVE  out'.naks \subseteq NaksFor(received_sequences'[e]) \X {e}
  BY <1>1 DEF RoverReceiveData
<1>2. ASSUME \/ \E p \in Packets, e \in Peers : SendMessage(p, e)
             \/ HandleCleanupTimer
             \/ Tick
             \/ \E s \in Heard, e \in Peers : IgnoreControl(s, e)
      PROVE  FALSE
  <2>1. out' = Nothing
    BY <1>2, Zenon DEF SendMessage, HandleCleanupTimer, Tick, IgnoreControl
  <2> QED
    BY <2>1
<1>3. ASSUME HandleRetransmissionTimer
      PROVE  FALSE
  <2>1. PICK x, y, z : out' = [Nothing EXCEPT !.resent = x, !.timed_out = y, !.gave_up = z]
    BY <1>3, Zenon DEF HandleRetransmissionTimer
  <2> QED
    BY <2>1
<1>4. ASSUME ResetSequenceNumber
      PROVE  FALSE
  BY <1>4 DEF ResetSequenceNumber
<1>5. ASSUME NEW s \in Heard, NEW e \in Peers,
             \/ \E a \in Seqs : RoverReceiveAck(s, e, a)
             \/ \E n \in Seqs : BaseReceiveNak(s, e, n)
             \/ \E active \in BOOLEAN : BaseReceiveData(s, e, active)
      PROVE  FALSE
  <2>1. \/ \E x : out' = [Nothing EXCEPT !.acked = x]
        \/ \E x : out' = [Nothing EXCEPT !.resent = x]
        \/ \E x : out' = [Nothing EXCEPT !.forwarded = x]
        \/ \E x, y : out' = [Nothing EXCEPT !.acked = x, !.forwarded = y]
    BY <1>5, Zenon DEF RoverReceiveAck, BaseReceiveNak, BaseReceiveData
  <2> QED
    BY <2>1, Zenon
<1> QED
  BY <1>1, <1>2, <1>3, <1>4, <1>5 DEF Next, Receive

\* A number is not asked for twice within NAK_DEBOUNCE_TIME, although the cleanup
\* forgets NAKs (check_sequence_gaps, is_recently_naked, cleanup_old_entries).
THEOREM NaksAreDebounced == Spec => NakDebounced
PROOF
<1> DEFINE Debounced == \A nak \in out'.naks : since_nak[nak[1]] = Absent
<1>1. Init => NakInv
  BY EndpointAssumption DEF Init, NakInv, Since, Absent
<1>2. NakInv /\ [Next]_vars => NakInv'
  BY NakStep
<1>3. ASSUME NakInv, [Next]_vars, ~UNCHANGED vars
      PROVE  Debounced
  <2> SUFFICES ASSUME NEW nak \in out'.naks
               PROVE  since_nak[nak[1]] = Absent
    OBVIOUS
  <2>1. PICK e \in Peers : out'.naks \subseteq NaksFor(received_sequences'[e]) \X {e}
    BY <1>3, NaksOnlyFromData
  <2> DEFINE t == nak[1]
  <2>2. t \in NaksFor(received_sequences'[e])
    BY <2>1
  <2>3. t \in Seqs /\ ~RecentlyNaked(t)
    BY <2>2, NaksForFacts, Zenon DEF NaksFor
  <2> HIDE DEF t
  <2> QED
    BY <1>3, <2>3, EndpointAssumption DEF NakInv, RecentlyNaked, Since, Absent, t
<1>4. NakInv /\ [Next]_vars => [Debounced]_vars
  BY <1>3
<1>5. NakDebounced <=> [][Debounced]_vars
  BY DEF NakDebounced
<1> HIDE DEF Debounced
<1> QED
  BY <1>1, <1>2, <1>4, <1>5, PTL DEF Spec

-----------------------------------------------------------------------------
(* Received numbers.  One received recently is in received_sequences_ with *)
(* that very time.                                                         *)

ReceivedInv ==
  /\ received_sequences \in [Peers -> [Seqs -> Int]]
  /\ since_received \in [Peers -> [Seqs -> Since(SEQUENCE_RETAIN_TIME)]]
  /\ \A e \in Peers, s \in Seqs :
       since_received[e][s] # Absent => received_sequences[e][s] = since_received[e][s]

\* An age and the history of it that stops at the same limit agree.
LEMMA AgesAgree ==
  ASSUME NEW limit \in Nat, NEW a \in Int, NEW b \in Since(limit), b # Absent => a = b
  PROVE  /\ Older(a, limit) \in Int
         /\ Later(b, limit) \in Since(limit)
         /\ Later(b, limit) # Absent => Older(a, limit) = Later(b, limit)
BY DEF Older, Later, Since, Absent

LEMMA ReceivedStep ==
  ASSUME ReceivedInv, [Next]_vars
  PROVE  ReceivedInv'
PROOF
<1>d. /\ SEQUENCE_RETAIN_TIME \in Nat
      /\ Heard \subseteq Seqs
  BY EndpointAssumption
<1> USE <1>d DEF ReceivedInv, Since, Absent
<1>1. CASE UNCHANGED <<received_sequences, since_received>>
  BY <1>1
<1>2. ASSUME NEW s \in Heard, NEW e \in Peers, RecordReceived(s, e)
      PROVE  ReceivedInv'
  <2>1. /\ received_sequences' = [received_sequences EXCEPT ![e][s] = 0]
        /\ since_received' = [since_received EXCEPT ![e][s] = 0]
    BY <1>2 DEF RecordReceived
  <2>2. 0 \in Int /\ 0 \in Since(SEQUENCE_RETAIN_TIME) /\ s \in Seqs
    OBVIOUS
  <2>3. /\ received_sequences' \in [Peers -> [Seqs -> Int]]
        /\ since_received' \in [Peers -> [Seqs -> Since(SEQUENCE_RETAIN_TIME)]]
    BY <2>1, <2>2
  <2>4. ASSUME NEW f \in Peers, NEW t \in Seqs
        PROVE  since_received'[f][t] # Absent
                 => received_sequences'[f][t] = since_received'[f][t]
    BY <2>1, <2>2
  <2> QED
    BY <2>3, <2>4
<1>3. CASE HandleCleanupTimer
  <2>1. /\ received_sequences' = [e \in Peers |->
             [s \in Seqs |-> Forget(received_sequences[e][s], RetainReceived)]]
        /\ UNCHANGED since_received
    BY <1>3 DEF HandleCleanupTimer
  <2>2. ASSUME NEW e \in Peers, NEW s \in Seqs
        PROVE  /\ received_sequences'[e][s] \in Int
               /\ since_received[e][s] # Absent
                    => received_sequences'[e][s] = since_received[e][s]
    <3>1. received_sequences'[e][s] = Forget(received_sequences[e][s], RetainReceived)
      BY <2>1
    <3>2. /\ received_sequences[e][s] \in Int
          /\ since_received[e][s] \in -1 .. SEQUENCE_RETAIN_TIME
      OBVIOUS
    <3> QED
      BY <3>1, <3>2 DEF Forget, RetainReceived
  <2>3. received_sequences' \in [Peers -> [Seqs -> Int]]
    BY <2>1, <2>2
  <2> QED
    BY <2>1, <2>2, <2>3
<1>4. CASE ResetSequenceNumber
  <2>1. /\ received_sequences' = [e \in Peers |-> [s \in Seqs |-> Absent]]
        /\ since_received' = [e \in Peers |-> [s \in Seqs |-> Absent]]
    BY <1>4 DEF ResetSequenceNumber
  <2> QED
    BY <2>1
<1>5. CASE Tick
  <2>1. /\ received_sequences' = [e \in Peers |-> [s \in Seqs |->
             Older(received_sequences[e][s], SEQUENCE_RETAIN_TIME)]]
        /\ since_received' = [e \in Peers |-> [s \in Seqs |->
             Later(since_received[e][s], SEQUENCE_RETAIN_TIME)]]
    BY <1>5 DEF Tick
  <2>2. ASSUME NEW e \in Peers, NEW s \in Seqs
        PROVE  /\ received_sequences'[e][s] \in Int
               /\ since_received'[e][s] \in Since(SEQUENCE_RETAIN_TIME)
               /\ since_received'[e][s] # Absent
                    => received_sequences'[e][s] = since_received'[e][s]
    <3>1. /\ received_sequences'[e][s] = Older(received_sequences[e][s], SEQUENCE_RETAIN_TIME)
          /\ since_received'[e][s] = Later(since_received[e][s], SEQUENCE_RETAIN_TIME)
      BY <2>1
    <3>2. /\ received_sequences[e][s] \in Int
          /\ since_received[e][s] \in Since(SEQUENCE_RETAIN_TIME)
          /\ since_received[e][s] # Absent
               => received_sequences[e][s] = since_received[e][s]
      OBVIOUS
    <3> HIDE DEF ReceivedInv, Since, Absent
    <3> QED
      BY <3>1, <3>2, AgesAgree
  <2>3. /\ received_sequences' \in [Peers -> [Seqs -> Int]]
        /\ since_received' \in [Peers -> [Seqs -> Since(SEQUENCE_RETAIN_TIME)]]
    BY <2>1, <2>2
  <2> QED
    BY <2>2, <2>3
<1> QED
  BY <1>1, <1>2, <1>3, <1>4, <1>5, Zenon DEF Next, Receive, SendMessage, IgnoreControl,
     RoverReceiveAck, RoverReceiveData, BaseReceiveNak, BaseReceiveData,
     HandleRetransmissionTimer, receiveVars, vars

\* A rover asks a peer only for numbers it has not received from it within
\* SEQUENCE_RETAIN_TIME (get_missing_sequences, cleanup_old_entries).
THEOREM NaksAreForMissing == Spec => NakOnlyMissing
PROOF
<1> DEFINE Missing == \A nak \in out'.naks : since_received'[nak[2]][nak[1]] = Absent
<1>1. Init => ReceivedInv
  BY EndpointAssumption DEF Init, ReceivedInv, Since, Absent
<1>2. ReceivedInv /\ [Next]_vars => ReceivedInv'
  BY ReceivedStep
<1>3. ASSUME ReceivedInv, [Next]_vars, ~UNCHANGED vars
      PROVE  Missing
  <2> SUFFICES ASSUME NEW nak \in out'.naks
               PROVE  since_received'[nak[2]][nak[1]] = Absent
    OBVIOUS
  <2>1. PICK e \in Peers : out'.naks \subseteq NaksFor(received_sequences'[e]) \X {e}
    BY <1>3, NaksOnlyFromData
  <2>2. nak[2] = e /\ nak[1] \in NaksFor(received_sequences'[e])
    BY <2>1
  <2>3. nak[1] \in Seqs
    BY <2>2 DEF NaksFor
  <2>4. received_sequences'[e][nak[1]] = Absent
    BY <2>2, <2>3, NaksForFacts DEF IsMissing, Received
  <2>5. ReceivedInv'
    BY <1>3, ReceivedStep
  <2> QED
    BY <2>2, <2>3, <2>4, <2>5 DEF ReceivedInv
<1>4. ReceivedInv /\ [Next]_vars => [Missing]_vars
  BY <1>3
<1>5. NakOnlyMissing <=> [][Missing]_vars
  BY DEF NakOnlyMissing
<1> HIDE DEF Missing
<1> QED
  BY <1>1, <1>2, <1>4, <1>5, PTL DEF Spec

-----------------------------------------------------------------------------
(* The duplicate memory of the base station.  It is emptied at the first   *)
(* cleanup more than two intervals after the last time; the time to the    *)
(* next cleanup bounds how old an entry can still become.                  *)

MemoryInv ==
  /\ acked_sequences \in [Peers -> SUBSET Seqs]
  /\ since_ack \in [Peers -> [Seqs -> Int]]
  /\ cleanup_in \in 0 .. 2 * CLEANUP_INTERVAL
  /\ ack_cleanup_age \in 0 .. 2 * CLEANUP_INTERVAL + 1
  /\ IF ack_cleanup_age <= 2 * CLEANUP_INTERVAL
     THEN ack_cleanup_age + cleanup_in <= 3 * CLEANUP_INTERVAL
     ELSE cleanup_in < CLEANUP_INTERVAL
  /\ \A e \in Peers : \A s \in acked_sequences[e] :
       /\ since_ack[e][s] >= 0
       /\ since_ack[e][s] + cleanup_in <= 3 * CLEANUP_INTERVAL
       /\ ack_cleanup_age <= 2 * CLEANUP_INTERVAL => since_ack[e][s] <= ack_cleanup_age

LEMMA MemoryStep ==
  ASSUME MemoryInv, [Next]_vars
  PROVE  MemoryInv'
PROOF
<1>d. /\ CLEANUP_INTERVAL \in Nat \ {0}
      /\ Heard \subseteq Seqs
  BY EndpointAssumption
<1> USE <1>d DEF MemoryInv, Absent
<1>1. CASE UNCHANGED <<ackVars, cleanup_in>>
  BY <1>1 DEF ackVars
<1>2. ASSUME NEW s \in Heard, NEW e \in Peers, NEW active \in BOOLEAN,
             BaseReceiveData(s, e, active)
      PROVE  MemoryInv'
  <2>0. UNCHANGED <<ack_cleanup_age, cleanup_in>>
    BY <1>2 DEF BaseReceiveData, timerVars
  <2>1. CASE UNCHANGED <<acked_sequences, since_ack>>
    BY <2>0, <2>1
  <2>2. CASE /\ acked_sequences' = [acked_sequences EXCEPT ![e] = @ \cup {s}]
             /\ s \in acked_sequences[e]
             /\ UNCHANGED since_ack
    <3>1. acked_sequences' = acked_sequences
      BY <2>2
    <3> QED
      BY <2>0, <2>2, <3>1
  <2>3. CASE /\ acked_sequences' = [acked_sequences EXCEPT ![e] = @ \cup {s}]
             /\ since_ack' = [since_ack EXCEPT ![e][s] = 0]
    <3>1. /\ acked_sequences' \in [Peers -> SUBSET Seqs]
          /\ since_ack' \in [Peers -> [Seqs -> Int]]
      BY <2>3
    <3>2. ASSUME NEW f \in Peers, NEW t \in acked_sequences'[f]
          PROVE  \/ since_ack'[f][t] = 0
                 \/ t \in acked_sequences[f] /\ since_ack'[f][t] = since_ack[f][t]
      BY <2>3, <3>1
    <3> QED
      BY <2>0, <3>1, <3>2
  <2> QED
    BY <1>2, <2>1, <2>2, <2>3 DEF BaseReceiveData, SendAck
<1>3. CASE HandleCleanupTimer
  <2>1. CASE AckCleanupDue
    <3>1. /\ acked_sequences' = [e \in Peers |-> {}]
          /\ since_ack' = [e \in Peers |-> [s \in Seqs |-> Absent]]
          /\ ack_cleanup_age' = 0
          /\ cleanup_in' = CLEANUP_INTERVAL
      BY <1>3, <2>1 DEF HandleCleanupTimer
    <3> QED
      BY <3>1
  <2>2. CASE ~AckCleanupDue
    <3>1. /\ UNCHANGED <<acked_sequences, since_ack, ack_cleanup_age>>
          /\ cleanup_in' = CLEANUP_INTERVAL
          /\ ack_cleanup_age <= 2 * CLEANUP_INTERVAL
      BY <1>3, <2>2 DEF HandleCleanupTimer, AckCleanupDue, ackVars
    <3>2. \A e \in Peers : \A s \in acked_sequences[e] :
            /\ since_ack[e][s] \in Int
            /\ since_ack[e][s] + CLEANUP_INTERVAL <= 3 * CLEANUP_INTERVAL
      BY <3>1
    <3> QED
      BY <3>1, <3>2
  <2> QED
    BY <2>1, <2>2
<1>4. CASE ResetSequenceNumber
  BY <1>4 DEF ResetSequenceNumber, timerVars
<1>5. CASE Tick
  <2>1. /\ cleanup_in > 0
        /\ cleanup_in' = cleanup_in - 1
        /\ since_ack' = [e \in Peers |-> [s \in Seqs |->
             Older(since_ack[e][s], 3 * CLEANUP_INTERVAL)]]
        /\ ack_cleanup_age' = Older(ack_cleanup_age, 2 * CLEANUP_INTERVAL)
        /\ UNCHANGED acked_sequences
    BY <1>5 DEF Tick
  <2>2. ASSUME NEW e \in Peers, NEW s \in Seqs
        PROVE  /\ since_ack'[e][s] \in Int
               /\ s \in acked_sequences[e] => since_ack'[e][s] = since_ack[e][s] + 1
    <3>1. /\ since_ack'[e][s] = Older(since_ack[e][s], 3 * CLEANUP_INTERVAL)
          /\ since_ack[e][s] \in Int
      BY <2>1
    <3>2. s \in acked_sequences[e] =>
            since_ack[e][s] >= 0 /\ since_ack[e][s] + cleanup_in <= 3 * CLEANUP_INTERVAL
      OBVIOUS
    <3> QED
      BY <2>1, <3>1, <3>2 DEF Older
  <2>3. IF ack_cleanup_age <= 2 * CLEANUP_INTERVAL
        THEN ack_cleanup_age' = ack_cleanup_age + 1
        ELSE ack_cleanup_age' = ack_cleanup_age
    BY <2>1 DEF Older
  <2>4. since_ack' \in [Peers -> [Seqs -> Int]]
    BY <2>1, <2>2
  <2>5. ASSUME NEW e \in Peers, NEW s \in acked_sequences'[e]
        PROVE  /\ since_ack'[e][s] >= 0
               /\ since_ack'[e][s] + cleanup_in' <= 3 * CLEANUP_INTERVAL
               /\ ack_cleanup_age' <= 2 * CLEANUP_INTERVAL
                    => since_ack'[e][s] <= ack_cleanup_age'
    <3>1. s \in acked_sequences[e] /\ s \in Seqs
      BY <2>1, <2>5
    <3>2. since_ack'[e][s] = since_ack[e][s] + 1 /\ since_ack[e][s] \in Int
      BY <2>2, <3>1
    <3> QED
      BY <2>1, <2>3, <3>1, <3>2
  <2>6. /\ cleanup_in' \in 0 .. 2 * CLEANUP_INTERVAL
        /\ ack_cleanup_age' \in 0 .. 2 * CLEANUP_INTERVAL + 1
        /\ IF ack_cleanup_age' <= 2 * CLEANUP_INTERVAL
           THEN ack_cleanup_age' + cleanup_in' <= 3 * CLEANUP_INTERVAL
           ELSE cleanup_in' < CLEANUP_INTERVAL
    <3>1. CASE ack_cleanup_age <= 2 * CLEANUP_INTERVAL
      BY <2>1, <2>3, <3>1
    <3>2. CASE ~(ack_cleanup_age <= 2 * CLEANUP_INTERVAL)
      BY <2>1, <2>3, <3>2
    <3> QED
      BY <3>1, <3>2
  <2> QED
    BY <2>1, <2>4, <2>5, <2>6, Zenon
<1> QED
  BY <1>1, <1>2, <1>3, <1>4, <1>5, Zenon DEF Next, Receive, SendMessage, IgnoreControl,
     RoverReceiveAck, RoverReceiveData, BaseReceiveNak, HandleRetransmissionTimer,
     timerVars, vars

\* acked_sequences_ forgets a number after three cleanup intervals at most, so a
\* number reused later is not taken for a duplicate.
THEOREM MemoryIsBounded == Spec => []DuplicateMemoryBounded
PROOF
<1>1. Init => MemoryInv
  BY EndpointAssumption DEF Init, MemoryInv, Absent
<1>2. MemoryInv /\ [Next]_vars => MemoryInv'
  BY MemoryStep
<1>3. MemoryInv => DuplicateMemoryBounded
  <2> SUFFICES ASSUME MemoryInv, NEW e \in Peers, NEW s \in acked_sequences[e]
               PROVE  since_ack[e][s] <= 3 * CLEANUP_INTERVAL
    BY DEF DuplicateMemoryBounded
  <2>1. since_ack[e][s] \in Int
    BY DEF MemoryInv
  <2> QED
    BY <2>1, EndpointAssumption DEF MemoryInv
<1> QED
  BY <1>1, <1>2, <1>3, PTL DEF Spec

-----------------------------------------------------------------------------
(* The backoff.  1 << k is defined by recursion; that the definition has a  *)
(* value, and what that value is, is shown by induction, as the absence of *)
(* a least counterexample.                                                 *)

\* A set of naturals has a least member.
LEMMA LeastNat ==
  ASSUME NEW T \in SUBSET Nat, T # {}
  PROVE  \E x \in T : \A y \in T : x <= y
PROOF
<1> DEFINE R == OpToRel(<, Nat)
<1>1. PICK x \in T : \A y \in T : ~(<<y, x>> \in R)
  BY NatLessThanWellFounded, WFMin, Zenon
<1>2. ASSUME NEW y \in T
      PROVE  x <= y
  <2>1. x \in Nat /\ y \in Nat
    OBVIOUS
  <2>2. <<y, x>> \in R <=> y < x
    BY <2>1 DEF OpToRel
  <2>3. ~(y < x)
    BY <1>1, <2>2, Zenon
  <2> HIDE DEF R
  <2> QED
    BY <2>1, <2>3
<1> QED
  BY <1>2

\* The powers of two up to the n-th.
Powers(h, n) ==
  /\ h \in [0 .. n -> Nat]
  /\ h[0] = 1
  /\ \A i \in 1 .. n : h[i] = 2 * h[i - 1]

LEMMA PowersExist ==
  ASSUME NEW n \in Nat 
  PROVE  \E h : Powers(h, n)
PROOF
<1> DEFINE T == {m \in Nat : ~\E h : Powers(h, m)}
<1> SUFFICES ASSUME T # {}
             PROVE  FALSE
  OBVIOUS
<1>1. PICK m \in T : \A k \in T : m <= k
  BY LeastNat, Zenon
<1>2. CASE m = 0
  <2>1. Powers([i \in 0 .. 0 |-> 1], 0)
    BY DEF Powers
  <2> QED
    BY <1>2, <2>1
<1>3. CASE m # 0
  <2>1. m - 1 \in Nat /\ m - 1 \notin T
    BY <1>1, <1>3
  <2>2. PICK h : Powers(h, m - 1)
    BY <2>1
  <2> DEFINE g == [i \in 0 .. m |-> IF i = m THEN 2 * h[m - 1] ELSE h[i]]
  <2>3. g \in [0 .. m -> Nat] /\ g[0] = 1
    BY <1>3, <2>1, <2>2 DEF Powers
  <2>4. ASSUME NEW i \in 1 .. m
        PROVE  g[i] = 2 * g[i - 1]
    <3>1. i - 1 \in 0 .. m - 1 /\ g[i - 1] = h[i - 1]
      BY <2>1
    <3>2. CASE i = m
      BY <3>1, <3>2
    <3>3. CASE i # m
      <4>1. i \in 1 .. m - 1 /\ g[i] = h[i]
        BY <2>1, <3>3
      <4> QED
        BY <2>2, <3>1, <4>1 DEF Powers
    <3> QED
      BY <3>2, <3>3
  <2>5. Powers(g, m)
    BY <2>3, <2>4, Zenon DEF Powers
  <2> QED
    BY <2>5
<1> QED
  BY <1>2, <1>3

LEMMA PowersAgree ==
  ASSUME NEW n \in Nat, NEW m \in Nat, NEW h, NEW g, Powers(h, n), Powers(g, m),
         NEW i \in Nat, i <= n, i <= m
  PROVE  h[i] = g[i]
PROOF
<1> DEFINE T == {j \in 0 .. i : h[j] # g[j]}
<1> SUFFICES ASSUME T # {}
             PROVE  FALSE
  OBVIOUS
<1>0. T \in SUBSET Nat
  OBVIOUS
<1>1. PICK j \in T : \A k \in T : j <= k
  BY <1>0, LeastNat, Zenon
<1>2. CASE j = 0
  BY <1>2 DEF Powers
<1>3. CASE j # 0
  <2>1. j - 1 \in 0 .. i /\ j - 1 \notin T
    BY <1>1, <1>3
  <2>2. h[j - 1] = g[j - 1]
    BY <2>1
  <2>3. h[j] = 2 * h[j - 1] /\ g[j] = 2 * g[j - 1]
    BY <1>3 DEF Powers
  <2> QED
    BY <2>2, <2>3
<1> QED
  BY <1>2, <1>3

\* Shift satisfies its recursive definition.
LEMMA ShiftDef ==
   Shift = [k \in Nat |-> IF k = 0 THEN 1 ELSE 2 * Shift[k - 1]]
PROOF
<1> DEFINE H(n) == CHOOSE h : Powers(h, n)
           G == [n \in Nat |-> H(n)[n]]
<1>1. ASSUME NEW n \in Nat
      PROVE  Powers(H(n), n)
  BY PowersExist
<1> HIDE DEF H
<1>2. G[0] = 1
  BY <1>1 DEF Powers
<1>3. ASSUME NEW n \in Nat, n # 0
      PROVE  G[n] = 2 * G[n - 1]
  <2>1. n - 1 \in Nat
    BY <1>3
  <2>2. H(n)[n] = 2 * H(n)[n - 1]
    BY <1>1, <1>3 DEF Powers
  <2>3. H(n)[n - 1] = H(n - 1)[n - 1]
    BY <1>1, <2>1, PowersAgree
  <2> QED
    BY <2>1, <2>2, <2>3
<1>4. G = [n \in Nat |-> IF n = 0 THEN 1 ELSE 2 * G[n - 1]]
  BY <1>2, <1>3
<1> HIDE DEF G
<1> QED
  BY <1>4 DEF Shift

\* It doubles at every step, so it never decreases.
LEMMA ShiftFacts ==
  /\ Shift[0] = 1
  /\ \A k \in Nat : Shift[k] \in Nat \ {0} /\ Shift[k + 1] = 2 * Shift[k]
  /\ \A k, n \in Nat : k <= n => Shift[k] <= Shift[n]
PROOF
<1> DEFINE S == Shift
<1>1. /\ S[0] = 1
      /\ \A k \in Nat : S[k + 1] = 2 * S[k]
  BY ShiftDef
<1> HIDE DEF S
<1>2. ASSUME NEW k \in Nat
      PROVE  S[k] \in Nat \ {0}
  <2> DEFINE T == {j \in Nat : S[j] \notin Nat \ {0}}
  <2> SUFFICES ASSUME T # {}
               PROVE  FALSE
    OBVIOUS
  <2>1. PICK j \in T : \A i \in T : j <= i
    BY LeastNat, Zenon
  <2>2. j # 0
    BY <1>1
  <2>3. j - 1 \in Nat /\ j - 1 \notin T
    BY <2>1, <2>2
  <2>4. S[j] = 2 * S[j - 1]
    BY <1>1, <2>3
  <2> QED
    BY <2>3, <2>4
<1>3. ASSUME NEW k \in Nat, NEW n \in Nat, k <= n
      PROVE  S[k] <= S[n]
  <2> DEFINE T == {j \in Nat : k <= j /\ ~(S[k] <= S[j])}
  <2> SUFFICES ASSUME T # {}
               PROVE  FALSE
    BY <1>3
  <2>1. PICK j \in T : \A i \in T : j <= i
    BY LeastNat, Zenon
  <2>2. j # k
    BY <1>2
  <2>3. j - 1 \in Nat /\ k <= j - 1 /\ j - 1 \notin T
    BY <2>1, <2>2
  <2>4. S[j] = 2 * S[j - 1]
    BY <1>1, <2>3
  <2> QED
    BY <1>2, <2>3, <2>4
<1> QED
  BY <1>1, <1>2, <1>3 DEF S

\* The times of the first k attempts: as the timeouts go, and with one check
\* interval for each.
Elapsed(k) == RELIABILITY_BASE_TIMEOUT * (Shift[k] - 1)
Budget(k) == Elapsed(k) + k * RELIABILITY_CHECK_INTERVAL

LEMMA TimeFacts ==
  /\ Elapsed(0) = 0 /\ Budget(0) = 0
  /\ \A k \in Nat : /\ Timeout(k) \in Nat /\ Elapsed(k) \in Nat /\ Budget(k) \in Nat
                     /\ RELIABILITY_BASE_TIMEOUT <= Timeout(k)
                     /\ Elapsed(k + 1) = Elapsed(k) + Timeout(k)
                     /\ Budget(k + 1) = Budget(k) + Timeout(k) + RELIABILITY_CHECK_INTERVAL
  /\ \A k, n \in Nat : k <= n => /\ Timeout(k) <= Timeout(n)
                                 /\ Budget(k) <= Budget(n)
PROOF
<1> DEFINE S == Shift
           B == RELIABILITY_BASE_TIMEOUT
           C == RELIABILITY_CHECK_INTERVAL
<1>1. B \in Nat /\ C \in Nat
  BY EndpointAssumption
<1>2. /\ S[0] = 1
      /\ \A k \in Nat : S[k] \in Nat \ {0} /\ S[k + 1] = 2 * S[k]
      /\ \A k, n \in Nat : k <= n => S[k] <= S[n]
  BY ShiftFacts
<1>3. \A k : /\ Timeout(k) = B * S[k]
             /\ Elapsed(k) = B * (S[k] - 1)
             /\ Budget(k) = B * (S[k] - 1) + k * C
  BY DEF Timeout, Elapsed, Budget
<1> HIDE DEF S, B, C
<1>4. \A x, y, z \in Nat : /\ x * y \in Nat
                           /\ y <= z => x * y <= x * z /\ y * x <= z * x
  OBVIOUS
<1>5. Elapsed(0) = 0 /\ Budget(0) = 0
  BY <1>1, <1>2, <1>3
<1>6. ASSUME NEW k \in Nat
      PROVE  /\ Timeout(k) \in Nat /\ Elapsed(k) \in Nat /\ Budget(k) \in Nat
             /\ B <= Timeout(k)
             /\ Elapsed(k + 1) = Elapsed(k) + Timeout(k)
             /\ Budget(k + 1) = Budget(k) + Timeout(k) + C
  <2>1. PICK d \in Nat : S[k] = d + 1
    <3>1. S[k] - 1 \in Nat /\ S[k] = (S[k] - 1) + 1
      BY <1>2
    <3> QED
      BY <3>1
  <2>2. S[k + 1] = 2 * (d + 1)
    BY <1>2, <2>1
  <2>3. B * d \in Nat /\ k * C \in Nat
    BY <1>1, <1>4
  <2>4. /\ B * (d + 1) = B * d + B
        /\ B * ((d + 1) - 1) = B * d
        /\ B * (2 * (d + 1) - 1) = B * d + B * d + B
        /\ (k + 1) * C = k * C + C
    BY <1>1
  <2>5. /\ Timeout(k) = B * d + B
        /\ Elapsed(k) = B * d
        /\ Budget(k) = B * d + k * C
    BY <1>3, <2>1, <2>4
  <2>6. /\ Elapsed(k + 1) = B * d + B * d + B
        /\ Budget(k + 1) = B * d + B * d + B + (k * C + C)
    BY <1>3, <2>2, <2>4
  <2> QED
    BY <1>1, <2>3, <2>5, <2>6
<1>7. ASSUME NEW k \in Nat, NEW n \in Nat, k <= n
      PROVE  Timeout(k) <= Timeout(n) /\ Budget(k) <= Budget(n)
  <2>1. S[k] \in Nat \ {0} /\ S[n] \in Nat \ {0} /\ S[k] <= S[n]
    BY <1>2, <1>7
  <2>2. B * S[k] <= B * S[n]
    BY <1>1, <1>4, <2>1
  <2>3. S[k] - 1 \in Nat /\ S[n] - 1 \in Nat /\ S[k] - 1 <= S[n] - 1
    BY <2>1
  <2>4. /\ B * (S[k] - 1) \in Nat /\ B * (S[n] - 1) \in Nat
        /\ B * (S[k] - 1) <= B * (S[n] - 1)
    BY <1>1, <1>4, <2>3
  <2>5. k * C \in Nat /\ n * C \in Nat /\ k * C <= n * C
    BY <1>1, <1>4, <1>7
  <2> QED
    BY <1>3, <2>2, <2>4, <2>5
<1> QED
  BY <1>5, <1>6, <1>7 DEF B, C

-----------------------------------------------------------------------------
(* Types.                                                                  *)

LEMMA SentLimitFacts ==
  /\ SentLimit \in Int
  /\ SentLimit >= -1
  /\ Role = "ROVER" => SentLimit = Timeout(RELIABILITY_MAX_RETRIES)
PROOF
<1>1. RELIABILITY_MAX_RETRIES \in Nat
  BY EndpointAssumption
<1>2. Timeout(RELIABILITY_MAX_RETRIES) \in Nat
  BY <1>1, TimeFacts, Zenon
<1> QED
  BY <1>2 DEF SentLimit

\* Ages and times keep their range as time passes and entries are forgotten.
LEMMA AgesFacts ==
  ASSUME NEW limit \in Nat
  PROVE  /\ \A a \in Ages(limit) : Older(a, limit) \in Ages(limit)
         /\ \A a \in Ages(limit), keep \in Int : Forget(a, keep) \in Ages(limit)
         /\ \A a \in Since(limit) : Later(a, limit) \in Since(limit)
         /\ {Absent, 0} \subseteq Ages(limit)
         /\ {Absent, 0} \subseteq Since(limit)
BY DEF Ages, Since, Older, Later, Forget, Absent

\* A set of numbers has a size.
LEMMA SizeFacts ==
  ASSUME NEW S \in SUBSET Seqs
  PROVE  Cardinality(S) \in Nat
PROOF
<1>1. IsFiniteSet(Seqs)
  BY SeqsFacts, FS_Interval DEF Seqs
<1> QED
  BY <1>1, FS_Subset, FS_CardinalityType

\* What a step may report.
LEMMA EffectsFacts ==
  /\ Nothing \in Effects
  /\ \A S \in SUBSET Seqs : [Nothing EXCEPT !.acked = S] \in Effects
  /\ \A S \in SUBSET Seqs : [Nothing EXCEPT !.forwarded = S] \in Effects
  /\ \A S, T \in SUBSET Seqs : [Nothing EXCEPT !.acked = S, !.forwarded = T] \in Effects
  /\ \A N \in SUBSET (Seqs \X Peers), T \in SUBSET Seqs :
       [Nothing EXCEPT !.naks = N, !.forwarded = T] \in Effects
  /\ \A R \in SUBSET (Packets \X Peers) : [Nothing EXCEPT !.resent = R] \in Effects
  /\ \A R \in SUBSET (Packets \X Peers), P \in SUBSET Peers, S \in SUBSET Seqs :
       [Nothing EXCEPT !.resent = R, !.timed_out = P, !.gave_up = S] \in Effects
  /\ [Nothing EXCEPT !.reset = TRUE] \in Effects
BY Zenon DEF Nothing, Effects

LEMMA ResentFacts ==
  ASSUME NEW ss \in SUBSET Seqs, sent_packets \in [Seqs -> SentPacketInfo \cup {NoEntry}],
         \A s \in ss : Tracked(s)
  PROVE  /\ Resent(ss) \in SUBSET (Packets \X Peers)
         /\ {sent_packets[s].recipient : s \in ss} \subseteq Peers
PROOF
<1>1. ASSUME NEW s \in ss
      PROVE  sent_packets[s].packet \in Packets /\ sent_packets[s].recipient \in Peers
  <2>1. sent_packets[s] \in SentPacketInfo
    BY DEF Tracked
  <2> QED
    BY <2>1 DEF SentPacketInfo
<1> QED
  BY <1>1 DEF Resent

\* The tables that only receiving, and the passing of time, disturb.
TableTypes ==
  /\ received_sequences \in [Peers -> [Seqs -> Ages(SEQUENCE_RETAIN_TIME)]]
  /\ recent_naks \in [Seqs -> Ages(2 * NAK_DEBOUNCE_TIME)]
  /\ since_received \in [Peers -> [Seqs -> Since(SEQUENCE_RETAIN_TIME)]]
  /\ since_nak \in [Seqs -> Since(NAK_DEBOUNCE_TIME - 1)]
  /\ acked_sequences \in [Peers -> SUBSET Seqs]
  /\ since_ack \in [Peers -> [Seqs -> Ages(3 * CLEANUP_INTERVAL)]]

\* The counters and the timers.
CounterTypes ==
  /\ current_sequence \in Seqs
  /\ ack_cleanup_age \in 0 .. 2 * CLEANUP_INTERVAL + 1
  /\ check_counter \in 0 .. SeqMod - 1
  /\ retransmit_in \in 0 .. 2 * RELIABILITY_CHECK_INTERVAL
  /\ cleanup_in \in 0 .. 2 * CLEANUP_INTERVAL

\* What is tracked.
TrackTypes ==
  /\ sent_packets \in [Seqs -> SentPacketInfo \cup {NoEntry}]
  /\ since_add \in [Seqs -> Nat]
  /\ last_sent \in [Seqs -> Packets \cup {NoEntry}]

LEMMA TypeSplit == TypeOK <=> TableTypes /\ CounterTypes /\ TrackTypes /\ out \in Effects
BY DEF TypeOK, TableTypes, CounterTypes, TrackTypes

LEMMA TableStep ==
  ASSUME TableTypes, [Next]_vars
  PROVE  TableTypes'
PROOF
<1>d. /\ SEQUENCE_RETAIN_TIME \in Nat
      /\ 2 * NAK_DEBOUNCE_TIME \in Nat
      /\ NAK_DEBOUNCE_TIME - 1 \in Nat
      /\ 3 * CLEANUP_INTERVAL \in Nat
      /\ Heard \subseteq Seqs
      /\ RetainReceived \in Int /\ RetainNak \in Int
  BY EndpointAssumption DEF RetainReceived, RetainNak
<1>a. \A limit \in Nat :
        /\ \A a \in Ages(limit) : Older(a, limit) \in Ages(limit)
        /\ \A a \in Ages(limit), keep \in Int : Forget(a, keep) \in Ages(limit)
        /\ \A a \in Since(limit) : Later(a, limit) \in Since(limit)
        /\ Absent \in Ages(limit) /\ 0 \in Ages(limit)
        /\ Absent \in Since(limit) /\ 0 \in Since(limit)
  BY AgesFacts
<1> USE DEF TableTypes
<1>1. CASE UNCHANGED <<received_sequences, since_received, nakVars, acked_sequences, since_ack>>
  BY <1>1 DEF nakVars
<1>2. ASSUME NEW s \in Heard, NEW e \in Peers, RecordReceived(s, e)
      PROVE  /\ received_sequences' \in [Peers -> [Seqs -> Ages(SEQUENCE_RETAIN_TIME)]]
             /\ since_received' \in [Peers -> [Seqs -> Since(SEQUENCE_RETAIN_TIME)]]
  BY <1>2, <1>a, <1>d DEF RecordReceived
<1>3. ASSUME NEW s \in Heard, NEW e \in Peers, NEW active \in BOOLEAN,
             BaseReceiveData(s, e, active)
      PROVE  TableTypes'
  <2>1. RecordReceived(s, e) /\ UNCHANGED nakVars
    BY <1>3 DEF BaseReceiveData
  <2>2. /\ acked_sequences' \in [Peers -> SUBSET Seqs]
        /\ since_ack' \in [Peers -> [Seqs -> Ages(3 * CLEANUP_INTERVAL)]]
    <3>1. /\ \/ acked_sequences' = acked_sequences
             \/ acked_sequences' = [acked_sequences EXCEPT ![e] = @ \cup {s}]
          /\ \/ since_ack' = since_ack
             \/ since_ack' = [since_ack EXCEPT ![e][s] = 0]
      BY <1>3 DEF BaseReceiveData, SendAck
    <3>2. s \in Seqs /\ 0 \in Ages(3 * CLEANUP_INTERVAL)
      BY <1>a, <1>d
    <3>3. acked_sequences' \in [Peers -> SUBSET Seqs]
      BY <3>1, <3>2
    <3>4. since_ack' \in [Peers -> [Seqs -> Ages(3 * CLEANUP_INTERVAL)]]
      <4>1. since_ack[e] \in [Seqs -> Ages(3 * CLEANUP_INTERVAL)]
        OBVIOUS
      <4>2. [since_ack[e] EXCEPT ![s] = 0] \in [Seqs -> Ages(3 * CLEANUP_INTERVAL)]
        BY <3>2, <4>1
      <4> QED
        BY <3>1, <4>2, Zenon
    <3> QED
      BY <3>3, <3>4
  <2> QED
    BY <1>2, <2>1, <2>2 DEF nakVars
<1>4. ASSUME NEW s \in Heard, NEW e \in Peers, RoverReceiveData(s, e)
      PROVE  TableTypes'
  <2>1. RecordReceived(s, e) /\ UNCHANGED <<acked_sequences, since_ack>>
    BY <1>4 DEF RoverReceiveData, ackVars
  <2>2. PICK naks : /\ recent_naks' = [t \in Seqs |-> IF t \in naks THEN 0 ELSE recent_naks[t]]
                    /\ since_nak' = [t \in Seqs |-> IF t \in naks THEN 0 ELSE since_nak[t]]
    BY <1>4, Zenon DEF RoverReceiveData, SendNaks
  <2> QED
    BY <1>2, <1>a, <1>d, <2>1, <2>2
<1>5. CASE HandleCleanupTimer
  <2>1. /\ received_sequences' = [e \in Peers |->
             [s \in Seqs |-> Forget(received_sequences[e][s], RetainReceived)]]
        /\ recent_naks' = [s \in Seqs |-> Forget(recent_naks[s], RetainNak)]
        /\ UNCHANGED <<since_received, since_nak>>
        /\ \/ /\ acked_sequences' = [e \in Peers |-> {}]
              /\ since_ack' = [e \in Peers |-> [s \in Seqs |-> Absent]]
           \/ UNCHANGED <<acked_sequences, since_ack>>
    BY <1>5 DEF HandleCleanupTimer, ackVars
  <2> QED
    BY <1>a, <1>d, <2>1
<1>6. CASE ResetSequenceNumber
  BY <1>6, <1>a, <1>d DEF ResetSequenceNumber
<1>7. CASE Tick
  BY <1>7, <1>a, <1>d DEF Tick
<1> QED
  BY <1>1, <1>2, <1>3, <1>4, <1>5, <1>6, <1>7, Zenon DEF Next, Receive, SendMessage,
     IgnoreControl, RoverReceiveAck, BaseReceiveNak, HandleRetransmissionTimer,
     ackVars, receiveVars, nakVars, vars

LEMMA CounterStep ==
  ASSUME CounterTypes, [Next]_vars
  PROVE  CounterTypes'
PROOF
<1>d. /\ RELIABILITY_CHECK_INTERVAL \in Nat \ {0}
      /\ CLEANUP_INTERVAL \in Nat \ {0}
      /\ SeqMod \in Nat \ {0} /\ 0 \in Seqs
  BY EndpointAssumption, SeqsFacts
<1>m. \A n \in Nat : (current_sequence + n) % SeqMod \in Seqs
  BY SeqsFacts DEF CounterTypes
<1> USE DEF CounterTypes
<1>1. CASE UNCHANGED <<current_sequence, ack_cleanup_age, check_counter, timerVars>>
  BY <1>1 DEF timerVars
<1>2. CASE \E p \in Packets, e \in Peers : SendMessage(p, e)
  BY <1>2, <1>m DEF SendMessage, receiveVars, ackVars, timerVars
<1>3. ASSUME NEW s \in Heard, NEW e \in Peers, NEW active \in BOOLEAN,
             BaseReceiveData(s, e, active)
      PROVE  CounterTypes'
  BY <1>3, <1>m DEF BaseReceiveData, SendAck, timerVars
<1>4. ASSUME NEW s \in Heard, NEW e \in Peers, RoverReceiveData(s, e)
      PROVE  CounterTypes'
  <2>1. /\ UNCHANGED <<ack_cleanup_age, retransmit_in, cleanup_in>>
        /\ check_counter' = (check_counter + 1) % SeqMod
    BY <1>4 DEF RoverReceiveData, ackVars, timerVars
  <2>2. PICK naks \in SUBSET Seqs :
          current_sequence' = (current_sequence + Cardinality(naks)) % SeqMod
    BY <1>4, Zenon DEF RoverReceiveData, SendNaks, NaksFor
  <2>3. current_sequence' \in Seqs
    BY <1>m, <2>2, SizeFacts
  <2> QED
    BY <1>d, <2>1, <2>3
<1>5. CASE HandleRetransmissionTimer
  <2>1. /\ retransmit_in' = RELIABILITY_CHECK_INTERVAL
        /\ UNCHANGED <<current_sequence, check_counter, ack_cleanup_age, cleanup_in>>
    BY <1>5, Zenon DEF HandleRetransmissionTimer, receiveVars, ackVars
  <2> QED
    BY <1>d, <2>1
<1>6. CASE HandleCleanupTimer
  BY <1>6, <1>d DEF HandleCleanupTimer, ackVars
<1>7. CASE ResetSequenceNumber
  BY <1>7, <1>d DEF ResetSequenceNumber, timerVars
<1>8. CASE Tick
  BY <1>8, <1>d DEF Tick, Older, Absent
<1> QED
  BY <1>1, <1>2, <1>3, <1>4, <1>5, <1>6, <1>7, <1>8, Zenon DEF Next, Receive, IgnoreControl,
     RoverReceiveAck, BaseReceiveNak, ackVars, receiveVars, timerVars, vars

\* An entry of sent_packets_ whose age and retry count are changed.
LEMMA InfoFacts ==
  ASSUME NEW i \in SentPacketInfo
  PROVE  /\ \A a \in 0 .. SentLimit + 1 : [i EXCEPT !.age = a] \in SentPacketInfo
         /\ \A a \in 0 .. SentLimit + 1, k \in 0 .. RELIABILITY_MAX_RETRIES :
              [i EXCEPT !.age = a, !.retry_count = k] \in SentPacketInfo
BY Zenon DEF SentPacketInfo

LEMMA AgedIsTracked ==
  ASSUME NEW i \in SentPacketInfo
  PROVE  [i EXCEPT !.age = Older(@, SentLimit)] \in SentPacketInfo
PROOF
<1>1. i.age \in 0 .. SentLimit + 1
  BY DEF SentPacketInfo
<1>2. Older(i.age, SentLimit) \in 0 .. SentLimit + 1
  BY <1>1, SentLimitFacts DEF Older, Absent
<1> QED
  BY <1>2, InfoFacts, Zenon

LEMMA RetriedIsTracked ==
  ASSUME NEW i \in SentPacketInfo, ~(i.retry_count >= RELIABILITY_MAX_RETRIES)
  PROVE  [i EXCEPT !.age = 0, !.retry_count = @ + 1] \in SentPacketInfo
PROOF
<1>1. i.retry_count \in 0 .. RELIABILITY_MAX_RETRIES
  BY DEF SentPacketInfo
<1>2. i.retry_count + 1 \in 0 .. RELIABILITY_MAX_RETRIES
  BY <1>1, EndpointAssumption
<1>3. 0 \in 0 .. SentLimit + 1
  BY SentLimitFacts
<1> QED
  BY <1>2, <1>3, InfoFacts, Zenon

LEMMA TrackStep ==
  ASSUME TrackTypes, current_sequence \in Seqs, [Next]_vars
  PROVE  TrackTypes'
PROOF
<1>d. /\ SentLimit + 1 \in Nat
      /\ RELIABILITY_MAX_RETRIES \in Nat
      /\ NoEntry \notin SentPacketInfo
  BY EndpointAssumption, SentLimitFacts
<1>p. ASSUME NEW s \in Seqs, Tracked(s)
      PROVE  sent_packets[s] \in SentPacketInfo
  BY <1>p DEF Tracked, TrackTypes
<1> USE DEF TrackTypes
<1>1. CASE UNCHANGED trackVars
  BY <1>1 DEF trackVars
<1>2. ASSUME NEW p \in Packets, NEW e \in Peers, SendMessage(p, e)
      PROVE  TrackTypes'
  <2> DEFINE info == [packet |-> p, age |-> 0, retry_count |-> 0, recipient |-> e]
  <2>1. info \in SentPacketInfo
    BY <1>d DEF SentPacketInfo
  <2>2. /\ \/ sent_packets' = sent_packets
           \/ sent_packets' = [sent_packets EXCEPT ![current_sequence] = info]
        /\ last_sent' = [last_sent EXCEPT ![current_sequence] = p]
        /\ since_add' = since_add
    BY <1>2 DEF SendMessage, AddSendPacket
  <2> HIDE DEF info
  <2> QED
    BY <2>1, <2>2
<1>3. ASSUME NEW s \in Heard, NEW e \in Peers, NEW a \in Seqs, RoverReceiveAck(s, e, a)
      PROVE  TrackTypes'
  BY <1>3 DEF RoverReceiveAck
<1>4. CASE HandleRetransmissionTimer
  <2> DEFINE due == IF Role = "ROVER" THEN {s \in Seqs : Expired(s)} ELSE {}
  <2>1. /\ due \in SUBSET Seqs
        /\ \A s \in due : Expired(s)
        /\ sent_packets' =
             [s \in Seqs |->
                IF s \in due /\ Exhausted(s) THEN NoEntry
                ELSE IF s \in due
                THEN [sent_packets[s] EXCEPT !.age = 0, !.retry_count = @ + 1]
                ELSE sent_packets[s]]
        /\ since_add' = [s \in Seqs |-> IF s \in due /\ Exhausted(s) THEN 0 ELSE since_add[s]]
        /\ UNCHANGED last_sent
    BY <1>4, Zenon DEF HandleRetransmissionTimer
  <2> HIDE DEF due
  <2>2. ASSUME NEW s \in due, ~Exhausted(s)
        PROVE  [sent_packets[s] EXCEPT !.age = 0, !.retry_count = @ + 1] \in SentPacketInfo
    <3>1. sent_packets[s] \in SentPacketInfo
      BY <1>p, <2>1, Zenon DEF Expired
    <3>2. ~(sent_packets[s].retry_count >= RELIABILITY_MAX_RETRIES)
      BY <2>1, <2>2, Zenon DEF Exhausted
    <3> QED
      BY <3>1, <3>2, RetriedIsTracked, Zenon
  <2>3. ASSUME NEW s \in Seqs
        PROVE  sent_packets'[s] \in SentPacketInfo \cup {NoEntry}
    <3>1. CASE s \in due /\ ~Exhausted(s)
      BY <2>1, <2>2, <3>1, Zenon
    <3>2. CASE ~(s \in due /\ ~Exhausted(s))
      BY <2>1, <3>2, Zenon
    <3> QED
      BY <3>1, <3>2
  <2>4. sent_packets' \in [Seqs -> SentPacketInfo \cup {NoEntry}]
    BY <2>1, <2>3, Zenon
  <2> QED
    BY <2>1, <2>4, Zenon
<1>5. CASE ResetSequenceNumber
  BY <1>5 DEF ResetSequenceNumber
<1>6. CASE Tick
  <2>1. /\ sent_packets' = [s \in Seqs |-> IF Tracked(s)
                              THEN [sent_packets[s] EXCEPT !.age = Older(@, SentLimit)]
                              ELSE NoEntry]
        /\ since_add' = [s \in Seqs |-> IF Tracked(s) /\ Role = "ROVER"
                                        THEN since_add[s] + 1 ELSE since_add[s]]
        /\ UNCHANGED last_sent
    BY <1>6 DEF Tick
  <2>2. ASSUME NEW s \in Seqs, Tracked(s)
        PROVE  [sent_packets[s] EXCEPT !.age = Older(@, SentLimit)] \in SentPacketInfo
    BY <1>p, <2>2, AgedIsTracked
  <2>3. sent_packets' \in [Seqs -> SentPacketInfo \cup {NoEntry}]
    BY <2>1, <2>2
  <2> QED
    BY <2>1, <2>3
<1> QED
  BY <1>1, <1>2, <1>3, <1>4, <1>5, <1>6, Zenon DEF Next, Receive, IgnoreControl,
     RoverReceiveData, BaseReceiveNak, BaseReceiveData, HandleCleanupTimer,
     trackVars, vars

LEMMA OutStep ==
  ASSUME TrackTypes, out \in Effects, [Next]_vars
  PROVE  out' \in Effects
PROOF
<1>h. Heard \subseteq Seqs
  BY EndpointAssumption
<1>1. ASSUME NEW s \in Heard, NEW e \in Peers, RoverReceiveData(s, e)
      PROVE  out' \in Effects
  <2>1. PICK naks \in SUBSET Seqs :
          out' = [Nothing EXCEPT !.naks = {<<t, e>> : t \in naks}, !.forwarded = {s}]
    BY <1>1, Zenon DEF RoverReceiveData, NaksFor
  <2>2. {s} \in SUBSET Seqs /\ {<<t, e>> : t \in naks} \in SUBSET (Seqs \X Peers)
    BY <1>h
  <2> QED
    BY <2>1, <2>2, EffectsFacts, Zenon
<1>2. ASSUME NEW s \in Heard, NEW e \in Peers, NEW a \in Seqs, RoverReceiveAck(s, e, a)
      PROVE  out' \in Effects
  <2>1. out' = [Nothing EXCEPT !.acked = {a}] /\ {a} \in SUBSET Seqs
    BY <1>2 DEF RoverReceiveAck
  <2> QED
    BY <2>1, EffectsFacts, Zenon
<1>3. ASSUME NEW s \in Heard, NEW e \in Peers, NEW n \in Seqs, BaseReceiveNak(s, e, n)
      PROVE  out' \in Effects
  <2> DEFINE ss == {t \in {n} : Tracked(t)}
  <2>1. out' = [Nothing EXCEPT !.resent = Resent(ss)]
    BY <1>3 DEF BaseReceiveNak
  <2>2. ss \in SUBSET Seqs /\ \A t \in ss : Tracked(t)
    OBVIOUS
  <2> HIDE DEF ss
  <2>3. Resent(ss) \in SUBSET (Packets \X Peers)
    BY <2>2, ResentFacts DEF TrackTypes
  <2> QED
    BY <2>1, <2>3, EffectsFacts, Zenon
<1>4. ASSUME NEW s \in Heard, NEW e \in Peers, NEW active \in BOOLEAN,
             BaseReceiveData(s, e, active)
      PROVE  out' \in Effects
  <2> DEFINE new == {s} \ acked_sequences[e]
  <2>1. \/ out' = [Nothing EXCEPT !.acked = {s}, !.forwarded = new]
        \/ out' = [Nothing EXCEPT !.forwarded = new]
    BY <1>4 DEF BaseReceiveData
  <2>2. {s} \in SUBSET Seqs /\ new \in SUBSET Seqs
    BY <1>h
  <2> HIDE DEF new
  <2> QED
    BY <2>1, <2>2, EffectsFacts, Zenon
<1>5. CASE HandleRetransmissionTimer
  <2> DEFINE due  == IF Role = "ROVER" THEN {s \in Seqs : Expired(s)} ELSE {}
             gone == {s \in due : Exhausted(s)}
  <2>1. out' = [Nothing EXCEPT !.resent = Resent(due \ gone),
                               !.timed_out = Reported(gone), !.gave_up = gone]
    BY <1>5, Zenon DEF HandleRetransmissionTimer
  <2>2. /\ due \ gone \in SUBSET Seqs /\ \A s \in due \ gone : Tracked(s)
        /\ gone \in SUBSET Seqs /\ \A s \in gone : Tracked(s)
    BY DEF Expired
  <2> HIDE DEF due, gone
  <2>3. Resent(due \ gone) \in SUBSET (Packets \X Peers)
    BY <2>2, ResentFacts DEF TrackTypes
  <2>4. Reported(gone) \in SUBSET Peers
    BY <2>2, ResentFacts, Zenon DEF TrackTypes, Reported
  <2> QED
    BY <2>1, <2>2, <2>3, <2>4, EffectsFacts, Zenon
<1>6. CASE ResetSequenceNumber
  BY <1>6, EffectsFacts, Zenon DEF ResetSequenceNumber
<1>7. ASSUME out' = Nothing
      PROVE  out' \in Effects
  BY <1>7, EffectsFacts, Zenon
<1> QED
  BY <1>1, <1>2, <1>3, <1>4, <1>5, <1>6, <1>7, Zenon DEF Next, Receive, IgnoreControl,
     SendMessage, HandleCleanupTimer, Tick, vars

\* Every table, counter and timer keeps its range: no retry count exceeds
\* RELIABILITY_MAX_RETRIES, no number leaves the number space.
THEOREM TypesHold == Spec => []TypeOK
PROOF
<1>1. Init => TypeOK
  <2> SUFFICES ASSUME Init
               PROVE  TypeOK
    OBVIOUS
  <2>1. TableTypes
    <3>1. \A limit \in Nat : Absent \in Ages(limit) /\ Absent \in Since(limit)
      BY AgesFacts
    <3>2. /\ SEQUENCE_RETAIN_TIME \in Nat /\ 2 * NAK_DEBOUNCE_TIME \in Nat
          /\ NAK_DEBOUNCE_TIME - 1 \in Nat /\ 3 * CLEANUP_INTERVAL \in Nat
      BY EndpointAssumption
    <3> QED
      BY <3>1, <3>2 DEF Init, TableTypes
  <2>2. CounterTypes
    BY EndpointAssumption, SeqsFacts DEF Init, CounterTypes
  <2>3. TrackTypes
    BY DEF Init, TrackTypes
  <2>4. out \in Effects
    BY EffectsFacts, Zenon DEF Init
  <2> QED
    BY <2>1, <2>2, <2>3, <2>4, TypeSplit
<1>2. TypeOK /\ [Next]_vars => TypeOK'
  <2> SUFFICES ASSUME TypeOK, [Next]_vars
               PROVE  TypeOK'
    OBVIOUS
  <2>1. TableTypes /\ CounterTypes /\ TrackTypes /\ out \in Effects
    BY TypeSplit
  <2>2. TableTypes' /\ CounterTypes' /\ TrackTypes' /\ (out \in Effects)'
    BY <2>1, TableStep, CounterStep, TrackStep, OutStep DEF CounterTypes
  <2> QED
    BY <2>2 DEF TypeOK, TableTypes, CounterTypes, TrackTypes
<1> QED
  BY <1>1, <1>2, PTL DEF Spec

-----------------------------------------------------------------------------
(* The retransmissions of a rover.  How long a packet has been waiting is  *)
(* bounded from both sides by the attempts it has had, the age of the last *)
(* one and the time to the next check.                                     *)

\* An entry i, added t ago, when the next check is due in r.  An age above
\* SentLimit is not exact and bounds t from below only.
OnTime(i, t, r) ==
  LET k == i.retry_count IN
  /\ t + r <= Budget(k) + Timeout(k) + RELIABILITY_CHECK_INTERVAL
  /\ i.age <= SentLimit => t <= Budget(k) + i.age
  /\ Elapsed(k) + k + i.age <= t

BackoffInv ==
  Role = "ROVER" =>
    \A s \in Seqs : IF Tracked(s) THEN OnTime(sent_packets[s], since_add[s], retransmit_in)
                    ELSE since_add[s] = 0

\* A packet is sent, at most two check intervals before the next check.
LEMMA SentOnTime ==
  ASSUME NEW p, NEW e, NEW r \in 0 .. 2 * RELIABILITY_CHECK_INTERVAL
  PROVE  OnTime([packet |-> p, age |-> 0, retry_count |-> 0, recipient |-> e], 0, r)
PROOF
<1>1. /\ RELIABILITY_CHECK_INTERVAL \in Nat /\ RELIABILITY_BASE_TIMEOUT \in Nat
      /\ RELIABILITY_CHECK_INTERVAL <= RELIABILITY_BASE_TIMEOUT
  BY EndpointAssumption
<1>2. /\ Elapsed(0) = 0 /\ Budget(0) = 0
      /\ Timeout(0) \in Nat /\ RELIABILITY_BASE_TIMEOUT <= Timeout(0)
  BY TimeFacts
<1> QED
  BY <1>1, <1>2 DEF OnTime

\* A tick brings the check as much nearer as it makes the packet older.
LEMMA TickOnTime ==
  ASSUME NEW i \in SentPacketInfo, NEW t \in Nat, NEW r \in Nat, OnTime(i, t, r)
  PROVE  OnTime([i EXCEPT !.age = Older(@, SentLimit)], t + 1, r - 1)
PROOF
<1> DEFINE k == i.retry_count
           a == i.age
           j == [i EXCEPT !.age = Older(@, SentLimit)]
<1>1. k \in Nat /\ a \in Nat /\ SentLimit \in Int
  BY SentLimitFacts, EndpointAssumption DEF SentPacketInfo
<1>2. j.retry_count = k /\ j.age = Older(a, SentLimit)
  BY DEF SentPacketInfo
<1>3. Older(a, SentLimit) = IF a > SentLimit THEN a ELSE a + 1
  BY <1>1 DEF Older, Absent
<1>4. Timeout(k) \in Nat /\ Budget(k) \in Nat /\ Elapsed(k) \in Nat
  BY <1>1, TimeFacts, Zenon
<1>5. RELIABILITY_CHECK_INTERVAL \in Nat
  BY EndpointAssumption
<1>6. /\ t + r <= Budget(k) + Timeout(k) + RELIABILITY_CHECK_INTERVAL
      /\ a <= SentLimit => t <= Budget(k) + a
      /\ Elapsed(k) + k + a <= t
  BY DEF OnTime
<1> HIDE DEF k, a, j
<1>7. /\ (t + 1) + (r - 1) <= Budget(k) + Timeout(k) + RELIABILITY_CHECK_INTERVAL
      /\ j.age <= SentLimit => t + 1 <= Budget(k) + j.age
      /\ Elapsed(k) + k + j.age <= t + 1
  BY <1>1, <1>2, <1>3, <1>4, <1>5, <1>6
<1>8. OnTime(j, t + 1, r - 1)
  BY <1>2, <1>7 DEF OnTime
<1> QED
  BY <1>8 DEF j

\* A check that finds the timeout not yet passed.
LEMMA CheckedOnTime ==
  ASSUME Role = "ROVER", NEW i \in SentPacketInfo, NEW t \in Nat, OnTime(i, t, 0),
         ~(i.age > Timeout(i.retry_count))
  PROVE  OnTime(i, t, RELIABILITY_CHECK_INTERVAL)
PROOF
<1> DEFINE k == i.retry_count
           a == i.age
<1>1. k \in Nat /\ a \in Nat /\ k <= RELIABILITY_MAX_RETRIES /\ RELIABILITY_MAX_RETRIES \in Nat
  BY SentLimitFacts, EndpointAssumption DEF SentPacketInfo
<1>2. Timeout(k) \in Nat /\ Budget(k) \in Nat /\ Elapsed(k) \in Nat
  BY <1>1, TimeFacts, Zenon
<1>3. Timeout(k) <= SentLimit /\ SentLimit \in Int
  BY <1>1, TimeFacts, SentLimitFacts, Zenon
<1>4. RELIABILITY_CHECK_INTERVAL \in Nat
  BY EndpointAssumption
<1>5. /\ a <= SentLimit => t <= Budget(k) + a
      /\ Elapsed(k) + k + a <= t
      /\ ~(a > Timeout(k))
  BY DEF OnTime
<1> HIDE DEF k, a
<1>6. t + RELIABILITY_CHECK_INTERVAL <= Budget(k) + Timeout(k) + RELIABILITY_CHECK_INTERVAL
  BY <1>1, <1>2, <1>3, <1>4, <1>5
<1> USE DEF k, a
<1> QED
  BY <1>5, <1>6 DEF OnTime

\* A check that sends the packet again.
LEMMA ResentOnTime ==
  ASSUME NEW i \in SentPacketInfo, NEW t \in Nat, OnTime(i, t, 0),
         i.age > Timeout(i.retry_count)
  PROVE  OnTime([i EXCEPT !.age = 0, !.retry_count = @ + 1], t, RELIABILITY_CHECK_INTERVAL)
PROOF
<1> DEFINE k == i.retry_count
           a == i.age
           j == [i EXCEPT !.age = 0, !.retry_count = @ + 1]
<1>1. k \in Nat /\ a \in Nat
  BY SentLimitFacts, EndpointAssumption DEF SentPacketInfo
<1>2. j.retry_count = k + 1 /\ j.age = 0
  BY DEF SentPacketInfo
<1>3. /\ Timeout(k) \in Nat /\ Budget(k) \in Nat /\ Elapsed(k) \in Nat
      /\ Elapsed(k + 1) = Elapsed(k) + Timeout(k)
      /\ Budget(k + 1) = Budget(k) + Timeout(k) + RELIABILITY_CHECK_INTERVAL
  BY <1>1, TimeFacts, Zenon
<1>4. Timeout(k + 1) \in Nat
  <2>1. k + 1 \in Nat
    BY <1>1
  <2> HIDE DEF k
  <2> QED
    BY <2>1, TimeFacts
<1>5. RELIABILITY_CHECK_INTERVAL \in Nat
  BY EndpointAssumption
<1>6. /\ t + 0 <= Budget(k) + Timeout(k) + RELIABILITY_CHECK_INTERVAL
      /\ Elapsed(k) + k + a <= t
      /\ a > Timeout(k)
  BY DEF OnTime
<1> HIDE DEF k, a, j
<1>7. /\ t + RELIABILITY_CHECK_INTERVAL
           <= Budget(k + 1) + Timeout(k + 1) + RELIABILITY_CHECK_INTERVAL
      /\ t <= Budget(k + 1) + 0
      /\ Elapsed(k + 1) + (k + 1) + 0 <= t
  BY <1>1, <1>3, <1>4, <1>5, <1>6
<1>8. OnTime(j, t, RELIABILITY_CHECK_INTERVAL)
  BY <1>2, <1>7 DEF OnTime
<1> QED
  BY <1>8 DEF j

LEMMA BackoffStep ==
  ASSUME TypeOK, BackoffInv, [Next]_vars
  PROVE  BackoffInv'
PROOF
<1> SUFFICES ASSUME Role = "ROVER", NEW s \in Seqs
             PROVE  (IF Tracked(s) THEN OnTime(sent_packets[s], since_add[s], retransmit_in)
                     ELSE since_add[s] = 0)'
  BY DEF BackoffInv
<1> DEFINE Good == IF Tracked(s) THEN OnTime(sent_packets[s], since_add[s], retransmit_in)
                   ELSE since_add[s] = 0
<1>g. /\ Tracked(s) => OnTime(sent_packets[s], since_add[s], retransmit_in)
      /\ ~Tracked(s) => since_add[s] = 0
  BY DEF BackoffInv
<1>t. /\ Tracked(s) => sent_packets[s] \in SentPacketInfo
      /\ since_add[s] \in Nat
      /\ retransmit_in \in 0 .. 2 * RELIABILITY_CHECK_INTERVAL
      /\ sent_packets \in [Seqs -> SentPacketInfo \cup {NoEntry}]
      /\ since_add \in [Seqs -> Nat]
      /\ NoEntry \notin SentPacketInfo
      /\ RELIABILITY_CHECK_INTERVAL \in Nat
  BY EndpointAssumption DEF TypeOK, Tracked
<1>1. CASE UNCHANGED <<sent_packets, since_add, retransmit_in>>
  BY <1>1, <1>g DEF Tracked
<1>2. ASSUME NEW p \in Packets, NEW e \in Peers, SendMessage(p, e)
      PROVE  Good'
  <2>1. UNCHANGED <<since_add, retransmit_in>>
    BY <1>2 DEF SendMessage, timerVars
  <2> DEFINE i == [packet |-> p, age |-> 0, retry_count |-> 0, recipient |-> e]
  <2>2. \/ sent_packets'[s] = sent_packets[s]
        \/ ~Tracked(s) /\ sent_packets'[s] = i
    <3>1. \/ sent_packets' = sent_packets
          \/ /\ ~Tracked(current_sequence)
             /\ sent_packets' = [sent_packets EXCEPT ![current_sequence] = i]
      BY <1>2 DEF SendMessage, AddSendPacket
    <3> HIDE DEF i
    <3> QED
      BY <1>t, <3>1 DEF Tracked
  <2>3. CASE sent_packets'[s] = sent_packets[s]
    BY <1>g, <2>1, <2>3 DEF Tracked
  <2>4. CASE ~Tracked(s) /\ sent_packets'[s] = i
    <3>1. since_add'[s] = 0 /\ retransmit_in' \in 0 .. 2 * RELIABILITY_CHECK_INTERVAL
      BY <1>g, <1>t, <2>1, <2>4
    <3>2. OnTime(i, 0, retransmit_in')
      BY <3>1, SentOnTime
    <3>3. i # NoEntry
      <4>1. 0 \in 0 .. SentLimit + 1 /\ 0 \in 0 .. RELIABILITY_MAX_RETRIES
        BY SentLimitFacts, EndpointAssumption
      <4>2. i \in SentPacketInfo
        BY <4>1 DEF SentPacketInfo
      <4> QED
        BY <1>t, <4>2
    <3> HIDE DEF i
    <3> QED
      BY <2>4, <3>1, <3>2, <3>3 DEF Tracked
  <2> QED
    BY <2>2, <2>3, <2>4
<1>3. ASSUME NEW n \in Heard, NEW e \in Peers, NEW a \in Seqs, RoverReceiveAck(n, e, a)
      PROVE  Good'
  <2>1. /\ sent_packets' = [sent_packets EXCEPT ![a] = NoEntry]
        /\ since_add' = [since_add EXCEPT ![a] = 0]
        /\ UNCHANGED retransmit_in
    BY <1>3 DEF RoverReceiveAck, timerVars
  <2> QED
    BY <1>g, <1>t, <2>1 DEF Tracked
<1>4. CASE HandleRetransmissionTimer
  <2>1. /\ retransmit_in = 0
        /\ retransmit_in' = RELIABILITY_CHECK_INTERVAL
        /\ sent_packets'[s] = IF Expired(s) /\ Exhausted(s) THEN NoEntry
                              ELSE IF Expired(s)
                              THEN [sent_packets[s] EXCEPT !.age = 0, !.retry_count = @ + 1]
                              ELSE sent_packets[s]
        /\ since_add'[s] = IF Expired(s) /\ Exhausted(s) THEN 0 ELSE since_add[s]
    BY <1>4, Zenon DEF HandleRetransmissionTimer
  <2>2. CASE Expired(s) /\ Exhausted(s)
    BY <2>1, <2>2 DEF Tracked
  <2>3. CASE Expired(s) /\ ~Exhausted(s)
    <3>1. /\ Tracked(s)
          /\ sent_packets[s].age > Timeout(sent_packets[s].retry_count)
      BY <2>3 DEF Expired
    <3>2. OnTime(sent_packets'[s], since_add'[s], retransmit_in')
      BY <1>g, <1>t, <2>1, <2>3, <3>1, ResentOnTime, Zenon
    <3>3. ~(sent_packets[s].retry_count >= RELIABILITY_MAX_RETRIES)
      BY <2>3 DEF Exhausted
    <3>4. sent_packets'[s] # NoEntry
      BY <1>t, <2>1, <2>3, <3>1, <3>3, RetriedIsTracked, Zenon
    <3> QED
      BY <3>2, <3>4 DEF Tracked
  <2>4. CASE ~Expired(s) /\ Tracked(s)
    <3>1. ~(sent_packets[s].age > Timeout(sent_packets[s].retry_count))
      BY <2>4 DEF Expired
    <3>2. OnTime(sent_packets[s], since_add[s], RELIABILITY_CHECK_INTERVAL)
      BY <1>g, <1>t, <2>1, <2>4, <3>1, CheckedOnTime
    <3> QED
      BY <2>1, <2>4, <3>2 DEF Tracked
  <2>5. CASE ~Tracked(s)
    BY <1>g, <2>1, <2>5 DEF Tracked, Expired
  <2> QED
    BY <2>2, <2>3, <2>4, <2>5
<1>5. CASE ResetSequenceNumber
  BY <1>5 DEF ResetSequenceNumber, Tracked
<1>6. CASE Tick
  <2>1. /\ retransmit_in > 0
        /\ retransmit_in' = retransmit_in - 1
        /\ sent_packets'[s] = IF Tracked(s)
                              THEN [sent_packets[s] EXCEPT !.age = Older(@, SentLimit)]
                              ELSE NoEntry
        /\ since_add'[s] = IF Tracked(s) THEN since_add[s] + 1 ELSE since_add[s]
    BY <1>6 DEF Tick
  <2>2. CASE Tracked(s)
    <3>1. retransmit_in \in Nat
      BY <1>t
    <3>2. OnTime(sent_packets'[s], since_add'[s], retransmit_in')
      BY <1>g, <1>t, <2>1, <2>2, <3>1, TickOnTime
    <3>3. sent_packets'[s] # NoEntry
      BY <1>t, <2>1, <2>2, AgedIsTracked
    <3> QED
      BY <3>2, <3>3 DEF Tracked
  <2>3. CASE ~Tracked(s)
    BY <1>g, <2>1, <2>3 DEF Tracked
  <2> QED
    BY <2>2, <2>3
<1> QED
  BY <1>1, <1>2, <1>3, <1>4, <1>5, <1>6, Zenon DEF Next, Receive, IgnoreControl,
     RoverReceiveData, BaseReceiveNak, BaseReceiveData, HandleCleanupTimer,
     trackVars, timerVars, vars

LEMMA BackoffInit == Init => BackoffInv
BY DEF Init, BackoffInv, Tracked

LEMMA AttemptTimeFact == AttemptTime = Elapsed(RELIABILITY_MAX_RETRIES + 1)
BY DEF AttemptTime, Elapsed

\* The loss of the peer is noticed in time, whatever the retries and the times
\* are: no packet waits in sent_packets_ for longer than all its timeouts and
\* one check interval for each (get_packets_to_retransmit).
THEOREM LossIsNoticed == Spec => []DetectionDeadline
PROOF
<1>1. TypeOK /\ BackoffInv => DetectionDeadline
  <2> SUFFICES ASSUME TypeOK, BackoffInv, Role = "ROVER", NEW s \in Seqs, Tracked(s)
               PROVE  since_add[s] <= AttemptTime
                        + (RELIABILITY_MAX_RETRIES + 1) * RELIABILITY_CHECK_INTERVAL
    BY DEF DetectionDeadline
  <2> DEFINE k == sent_packets[s].retry_count
             n == RELIABILITY_MAX_RETRIES + 1
  <2>1. sent_packets[s] \in SentPacketInfo
    BY DEF TypeOK, Tracked
  <2>2. k \in Nat /\ k + 1 \in Nat /\ n \in Nat /\ k + 1 <= n
    BY <2>1, EndpointAssumption DEF SentPacketInfo
  <2>3. /\ since_add[s] \in Nat /\ retransmit_in \in Nat
        /\ since_add[s] + retransmit_in <= Budget(k) + Timeout(k) + RELIABILITY_CHECK_INTERVAL
    BY EndpointAssumption DEF BackoffInv, OnTime, TypeOK
  <2> HIDE DEF k, n
  <2>4. /\ Budget(k + 1) = Budget(k) + Timeout(k) + RELIABILITY_CHECK_INTERVAL
        /\ Budget(k + 1) \in Nat /\ Budget(n) \in Nat
        /\ Budget(k + 1) <= Budget(n)
    BY <2>2, TimeFacts, Zenon
  <2>5. since_add[s] <= Budget(n)
    BY <2>3, <2>4
  <2> QED
    BY <2>5, AttemptTimeFact DEF Budget, n
<1>2. TypeOK /\ BackoffInv /\ [Next]_vars => BackoffInv'
  BY BackoffStep
<1> QED
  BY <1>1, <1>2, BackoffInit, TypesHold, PTL DEF Spec

\* Only the retransmission timer gives packets up, and only exhausted ones.
LEMMA GivenUp ==
  ASSUME [Next]_vars, ~UNCHANGED vars, NEW s \in out'.gave_up
  PROVE  Role = "ROVER" /\ s \in Seqs /\ Exhausted(s)
PROOF
<1> USE DEF Nothing
<1>1. CASE HandleRetransmissionTimer
  <2> DEFINE due  == IF Role = "ROVER" THEN {t \in Seqs : Expired(t)} ELSE {}
             gone == {t \in due : Exhausted(t)}
  <2>1. PICK x, y : out' = [Nothing EXCEPT !.resent = x, !.timed_out = y, !.gave_up = gone]
    BY <1>1, Zenon DEF HandleRetransmissionTimer
  <2>2. out'.gave_up = gone
    BY <2>1
  <2> QED
    BY <2>2
<1>2. ASSUME \/ \E p \in Packets, e \in Peers : SendMessage(p, e)
             \/ HandleCleanupTimer
             \/ Tick
             \/ \E n \in Heard, e \in Peers : IgnoreControl(n, e)
      PROVE  FALSE
  <2>1. out' = Nothing
    BY <1>2, Zenon DEF SendMessage, HandleCleanupTimer, Tick, IgnoreControl
  <2> QED
    BY <2>1
<1>3. ASSUME ResetSequenceNumber
      PROVE  FALSE
  BY <1>3 DEF ResetSequenceNumber
<1>4. ASSUME NEW n \in Heard, NEW e \in Peers,
             \/ RoverReceiveData(n, e)
             \/ \E a \in Seqs : RoverReceiveAck(n, e, a)
             \/ \E m \in Seqs : BaseReceiveNak(n, e, m)
             \/ \E active \in BOOLEAN : BaseReceiveData(n, e, active)
      PROVE  FALSE
  <2>1. \/ \E x : out' = [Nothing EXCEPT !.acked = x]
        \/ \E x : out' = [Nothing EXCEPT !.resent = x]
        \/ \E x : out' = [Nothing EXCEPT !.forwarded = x]
        \/ \E x, y : out' = [Nothing EXCEPT !.acked = x, !.forwarded = y]
        \/ \E x, y : out' = [Nothing EXCEPT !.naks = x, !.forwarded = y]
    BY <1>4, Zenon DEF RoverReceiveAck, BaseReceiveNak, BaseReceiveData, RoverReceiveData
  <2> QED
    BY <2>1, Zenon
<1> QED
  BY <1>1, <1>2, <1>3, <1>4 DEF Next, Receive

\* A packet is given up, and the rover told to disconnect, only when every
\* attempt has had its full timeout (get_packets_to_retransmit).
THEOREM NeverGivenUpEarly == Spec => NoHastyGiveUp
PROOF
<1> DEFINE Patient == \A s \in out'.gave_up : since_add[s] > AttemptTime
<1>1. ASSUME TypeOK, BackoffInv, [Next]_vars, ~UNCHANGED vars
      PROVE  Patient
  <2> SUFFICES ASSUME NEW s \in out'.gave_up
               PROVE  since_add[s] > AttemptTime
    OBVIOUS
  <2>1. Role = "ROVER" /\ s \in Seqs /\ Exhausted(s)
    BY <1>1, GivenUp
  <2> DEFINE k == sent_packets[s].retry_count
             a == sent_packets[s].age
  <2>2. Tracked(s) /\ a > Timeout(k) /\ k >= RELIABILITY_MAX_RETRIES
    BY <2>1 DEF Exhausted, Expired
  <2>3. sent_packets[s] \in SentPacketInfo
    BY <1>1, <2>1, <2>2 DEF TypeOK, Tracked
  <2>4. k \in Nat /\ a \in Nat /\ k = RELIABILITY_MAX_RETRIES
    BY <2>2, <2>3, EndpointAssumption, SentLimitFacts DEF SentPacketInfo
  <2>5. Elapsed(k) + k + a <= since_add[s] /\ since_add[s] \in Nat
    BY <1>1, <2>1, <2>2 DEF BackoffInv, OnTime, TypeOK
  <2>6. AttemptTime = Elapsed(k + 1)
    BY <2>4, AttemptTimeFact
  <2> HIDE DEF k, a
  <2>7. Elapsed(k + 1) = Elapsed(k) + Timeout(k) /\ Elapsed(k) \in Nat /\ Timeout(k) \in Nat
    BY <2>4, TimeFacts
  <2> QED
    BY <2>2, <2>4, <2>5, <2>6, <2>7
<1>2. TypeOK /\ BackoffInv /\ [Next]_vars => [Patient]_vars
  BY <1>1
<1>3. TypeOK /\ BackoffInv /\ [Next]_vars => BackoffInv'
  BY BackoffStep
<1>4. NoHastyGiveUp <=> [][Patient]_vars
  BY DEF NoHastyGiveUp
<1> HIDE DEF Patient
<1> QED
  BY <1>2, <1>3, <1>4, BackoffInit, TypesHold, PTL DEF Spec

\* No packet to the base station vanishes from sent_packets_ unless it was
\* acknowledged, the protocol was reset, or the rover is told that the base
\* station is lost (process_ack, reset_state, handle_retransmission_timer).
THEOREM NothingVanishes == Spec => NeverSilentlyDropped
PROOF
<1> DEFINE Kept(s) == Tracked(s) /\ ~Tracked(s)' /\ sent_packets[s].recipient \in BasePeers
                        => \/ s \in out'.acked
                           \/ out'.reset
                           \/ sent_packets[s].recipient \in out'.timed_out
           AllKept == \A s \in Seqs : Kept(s)
<1>1. ASSUME TypeOK, [Next]_vars, ~UNCHANGED vars, NEW s \in Seqs, Tracked(s), ~Tracked(s)',
             sent_packets[s].recipient \in BasePeers
      PROVE  \/ s \in out'.acked
             \/ out'.reset
             \/ sent_packets[s].recipient \in out'.timed_out
  <2>t. /\ sent_packets[s] \in SentPacketInfo
        /\ NoEntry \notin SentPacketInfo
        /\ sent_packets \in [Seqs -> SentPacketInfo \cup {NoEntry}]
    BY <1>1, EndpointAssumption DEF TypeOK, Tracked
  <2>n. sent_packets'[s] = NoEntry
    BY <1>1 DEF Tracked
  <2>1. CASE UNCHANGED sent_packets
    BY <1>1, <2>1 DEF Tracked
  <2>2. ASSUME NEW p \in Packets, NEW e \in Peers, SendMessage(p, e)
        PROVE  FALSE
    <3> DEFINE i == [packet |-> p, age |-> 0, retry_count |-> 0, recipient |-> e]
    <3>1. \/ sent_packets' = sent_packets
          \/ /\ ~Tracked(current_sequence)
             /\ sent_packets' = [sent_packets EXCEPT ![current_sequence] = i]
      BY <2>2 DEF SendMessage, AddSendPacket
    <3> HIDE DEF i
    <3> QED
      BY <1>1, <2>n, <2>t, <3>1 DEF Tracked
  <2>3. ASSUME NEW n \in Heard, NEW e \in Peers, NEW a \in Seqs, RoverReceiveAck(n, e, a)
        PROVE  s \in out'.acked
    <3>1. /\ sent_packets' = [sent_packets EXCEPT ![a] = NoEntry]
          /\ out' = [Nothing EXCEPT !.acked = {a}]
      BY <2>3 DEF RoverReceiveAck
    <3>2. s = a
      BY <1>1, <2>n, <2>t, <3>1
    <3> QED
      BY <3>1, <3>2 DEF Nothing
  <2>4. CASE HandleRetransmissionTimer
    <3> DEFINE due  == IF Role = "ROVER" THEN {t \in Seqs : Expired(t)} ELSE {}
               gone == {t \in due : Exhausted(t)}
    <3>1. /\ sent_packets'[s] = IF s \in gone THEN NoEntry
                                ELSE IF s \in due
                                THEN [sent_packets[s] EXCEPT !.age = 0, !.retry_count = @ + 1]
                                ELSE sent_packets[s]
          /\ \E x : out' = [Nothing EXCEPT !.resent = x, !.timed_out = Reported(gone),
                                           !.gave_up = gone]
      BY <2>4, Zenon DEF HandleRetransmissionTimer
    <3>2. s \in due \ gone => ~(sent_packets[s].retry_count >= RELIABILITY_MAX_RETRIES)
      BY DEF Exhausted
    <3> HIDE DEF due, gone
    <3>3. s \in gone
      <4>1. CASE s \in due \ gone
        BY <2>n, <2>t, <3>1, <3>2, <4>1, RetriedIsTracked, Zenon
      <4>2. CASE s \notin due /\ s \notin gone
        BY <2>n, <2>t, <3>1, <4>2
      <4> QED
        BY <4>1, <4>2
    <3>4. out'.timed_out = Reported(gone)
      BY <3>1 DEF Nothing
    <3> QED
      BY <1>1, <3>3, <3>4 DEF Reported
  <2>5. CASE ResetSequenceNumber
    BY <2>5 DEF ResetSequenceNumber, Nothing
  <2>6. CASE Tick
    <3>1. sent_packets'[s] = [sent_packets[s] EXCEPT !.age = Older(@, SentLimit)]
      BY <1>1, <2>6 DEF Tick
    <3> QED
      BY <2>n, <2>t, <3>1, AgedIsTracked
  <2> QED
    BY <1>1, <2>1, <2>2, <2>3, <2>4, <2>5, <2>6, Zenon DEF Next, Receive, IgnoreControl,
       RoverReceiveData, BaseReceiveNak, BaseReceiveData, HandleCleanupTimer, trackVars
<1>2. TypeOK /\ [Next]_vars => [AllKept]_vars
  BY <1>1
<1>3. NeverSilentlyDropped <=> [][AllKept]_vars
  BY DEF NeverSilentlyDropped
<1> HIDE DEF AllKept
<1> QED
  BY <1>2, <1>3, TypesHold, PTL DEF Spec

=============================================================================
