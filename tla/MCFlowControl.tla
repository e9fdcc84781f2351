--------------------------- MODULE MCFlowControl ---------------------------
(***************************************************************************)
(* Instances of FlowControl for TLC.                                       *)
(***************************************************************************)
EXTENDS FlowControl

\* A slot of the lowest class that holds the largest packet and the smallest with it, and
\* one of the highest class in which the largest packet is too big or becomes a fragment.
MCSlots ==
  {[queue |-> 0, bytes |-> 4, dest |-> 0], [queue |-> 3, bytes |-> 2, dest |-> 0]}

\* Slots the schedule grants for one destination.
MCDirectedSlots == {[queue |-> 0, bytes |-> 4, dest |-> 1]}

\* With flow control: all choices of fragmentation and aggregation.  Without: strict
\* dequeuing of as much as fits.
MCConfigs ==
  [flow : {TRUE}, fragment : BOOLEAN, aggregate : BOOLEAN, strict : {FALSE}, threshold : {50}]
    \cup {[flow |-> FALSE, fragment |-> TRUE, aggregate |-> TRUE, strict |-> TRUE,
           threshold |-> 100]}
=============================================================================
