------------------------------- MODULE MCLinks ------------------------------
(***************************************************************************)
(* LumenLink in two small instances, one of which each behaviour follows:  *)
(* messages of a rover until it has lost the base station, with the values *)
(* of the .cfg; and commands to a rover that goes on after that.           *)
(***************************************************************************)
EXTENDS MCLumenLink

VARIABLE instance

Commanding == INSTANCE LumenLink WITH
  SeqMod <- 6, RELIABILITY_MAX_RETRIES <- 0, SEQUENCE_RETAIN_TIME <- 2,
  MAX_NAKS_PER_CHECK <- 2, PacketsPerCheck <- 1, MaxMessages <- 1, MaxCommands <- 2,
  Reorders <- FALSE, Prompt <- TRUE, Survives <- TRUE

LinksInit ==
  \/ instance = "messages" /\ Init
  \/ instance = "commands" /\ Commanding!Init

LinksNext ==
  /\ \/ instance = "messages" /\ Next
     \/ instance = "commands" /\ Commanding!Next
  /\ UNCHANGED instance

LinksSpec == LinksInit /\ [][LinksNext]_<<vars, instance>>

\* How often each of the packets of ch is in the network.
Copies(ch) == [p \in Fn!Range(ch) |-> Cardinality({i \in DOMAIN ch : ch[i] = p})]

\* Without commands a rover never reads the numbers it has received, so that those
\* the ACKs carry make no difference; nor, where packets overtake each other, does
\* their order.
OfMessages ==
  <<r_current_sequence, r_sent_packets, r_retransmit_in, r_cleanup_in,
    b_acked_sequences, b_ack_cleanup_age, b_retransmit_in, b_cleanup_in,
    Copies(uplink), Copies([i \in DOMAIN downlink |-> downlink[i].number]), appVars>>

\* With commands the history of the numbers received matters too.
LinksView ==
  <<instance, IF instance = "messages" THEN OfMessages ELSE WithReceived>>

=============================================================================
