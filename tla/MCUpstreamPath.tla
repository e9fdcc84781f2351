--------------------------- MODULE MCUpstreamPath ---------------------------
(***************************************************************************)
(* The way of packets through a node under a few schedules: one that       *)
(* receives on two frequencies in turn, one that receives in every other   *)
(* slot only, an update of it, and a message that does not parse.          *)
(***************************************************************************)
EXTENDS UpstreamPath

Event == INSTANCE ScheduleEvent

Slot(i, type, freq) == [index |-> i, type |-> type, freq |-> {freq}, class |-> {0}]

Message(structure, slots) ==
  [parses |-> TRUE, structure |-> structure, freq |-> {1}, class |-> {0},
   frames |-> <<[index |-> 0, freq |-> {}, class |-> {}, slots |-> slots]>>]

Pair == {[frames |-> 1, slots |-> 2, bandwidth |-> 1]}

Messages == {
  Message(Pair, <<Slot(0, "rx", 1), Slot(1, "rx", 2)>>),
  Message(Pair, <<Slot(0, "tx", 1), Slot(1, "rx", 1)>>),
  Message({}, <<Slot(0, "rx", 2), Slot(1, "idle", 1)>>),
  [Message({}, <<>>) EXCEPT !.parses = FALSE]}

MCScheduleEvents == {Event!Decode(m) : m \in Messages}

MCInitialFoi == [freqs |-> {3}, bandwidth |-> 2]

MCTransmissions == {
  [freq |-> 1, spills |-> FALSE, form |-> "ok"],
  [freq |-> 1, spills |-> TRUE, form |-> "ok"],
  [freq |-> 2, spills |-> FALSE, form |-> "ok"],
  [freq |-> 1, spills |-> FALSE, form |-> "foreign"],
  [freq |-> 2, spills |-> FALSE, form |-> "badLength"]}

MCHeaders == {HeaderOn(t.freq) : t \in Transmissions}

MCControlFois == Settings
=============================================================================
