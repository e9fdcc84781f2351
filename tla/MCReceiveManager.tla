-------------------------- MODULE MCReceiveManager --------------------------
(***************************************************************************)
(* ReceiveManager with two senders: one cuts a packet in three, the other  *)
(* sends a whole packet to another node, and the first fragment of a       *)
(* packet before it restarts and uses its sequence number again.           *)
(***************************************************************************)
EXTENDS ReceiveManager

CONSTANTS A, B

Fragment(packet, seq, index, offset, more) ==
  [packet |-> packet, seq |-> seq, index |-> index, offset |-> offset, more |-> more,
   fragment |-> TRUE, mine |-> TRUE]

Whole(packet, mine) ==
  [packet |-> packet, seq |-> 0, index |-> 0, offset |-> 0, more |-> FALSE,
   fragment |-> FALSE, mine |-> mine]

MCStream == [s \in Sources |->
  IF s = A
  THEN <<Fragment(1, 1, 0, 0, TRUE), Fragment(1, 1, 1, 2, TRUE), Fragment(1, 1, 2, 3, FALSE)>>
  ELSE <<Whole(1, FALSE), Fragment(2, 1, 0, 0, TRUE),
         Fragment(3, 1, 0, 0, TRUE), Fragment(3, 1, 1, 1, FALSE)>>]
=============================================================================
