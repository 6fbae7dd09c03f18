---------------------------- MODULE MCLumenLink -----------------------------
(***************************************************************************)
(* Small instances of LumenLink for TLC.                                   *)
(***************************************************************************)
EXTENDS LumenLink

\* States that differ only in the histories of LumenEndpoint, in what its last
\* step did or in what its role never reads go on alike.
WithoutHistories ==
  <<r_current_sequence, r_sent_packets, r_received_sequences, r_recent_naks,
    r_check_counter, r_retransmit_in, r_cleanup_in,
    b_current_sequence, b_sent_packets, b_acked_sequences, b_ack_cleanup_age,
    b_retransmit_in, b_cleanup_in, uplink, downlink, appVars>>

\* ... except the history of the numbers a rover has received.
WithReceived == <<WithoutHistories, r_since_received>>

=============================================================================
