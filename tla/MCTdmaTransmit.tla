--------------------------- MODULE MCTdmaTransmit ---------------------------
(***************************************************************************)
(* The transmit chain on a few schedules: a multiframe of two slots and    *)
(* one of three frames, some or all slots to transmit in, one that         *)
(* only receives, updates that move transmit slots, and a message          *)
(* that does not parse.                                                    *)
(***************************************************************************)
EXTENDS TdmaTransmit

Event == INSTANCE ScheduleEvent

Slot(i, type) == [index |-> i, type |-> type, freq |-> {}, class |-> {}]

Frame(i, slots) == [index |-> i, freq |-> {}, class |-> {}, slots |-> slots]

Message(structure, freq, frames) ==
  [parses |-> TRUE, structure |-> structure, freq |-> {freq}, class |-> {0},
   frames |-> frames]

Pair == {[frames |-> 1, slots |-> 2, bandwidth |-> 1]}

Column == {[frames |-> 3, slots |-> 1, bandwidth |-> 2]}

Messages == {
  Message(Pair, 1, <<Frame(0, <<Slot(0, "rx"), Slot(1, "tx")>>)>>),
  Message(Pair, 1, <<Frame(0, <<Slot(0, "rx"), Slot(1, "rx")>>)>>),
  Message(Column, 1, <<Frame(0, <<Slot(0, "tx")>>), Frame(2, <<Slot(0, "tx")>>)>>),
  Message({}, 2, <<Frame(0, <<Slot(0, "tx")>>)>>),
  Message({}, 1, <<Frame(0, <<Slot(0, "idle"), Slot(1, "tx")>>)>>),
  [Message({}, 1, <<>>) EXCEPT !.parses = FALSE]}

MCScheduleEvents == {Event!Decode(m) : m \in Messages}
=============================================================================
