-------------------------- MODULE MCEventScheduler --------------------------
(***************************************************************************)
(* EventScheduler on the events TDMAScheduleEvent decodes from a set of    *)
(* messages: full schedules of three shapes and updates, with frames       *)
(* listed twice, slots left out or repeated, frequencies at each of the    *)
(* three levels or at none, and indexes one past either bound.             *)
(***************************************************************************)
EXTENDS EventScheduler

Event == INSTANCE ScheduleEvent

Shape(f, s, b) == [frames |-> f, slots |-> s, bandwidth |-> b]

Shapes == {Shape(1, 2, 1), Shape(2, 1, 1), Shape(2, 2, 2)}

Slot(i, type, freq) == [index |-> i, type |-> type, freq |-> freq, class |-> {}]

SlotMessages(types) == {Slot(i, t, IF t = "tx" THEN {1} ELSE {}) : i \in 0..2, t \in types}

Frame(i, freq, slots) == [index |-> i, freq |-> freq, class |-> {}, slots |-> slots]

Message(structure, freq, class, frames) ==
  [parses |-> TRUE, structure |-> structure, freq |-> freq, class |-> class,
   frames |-> frames]

OneSlot(structure, frames, types) ==
  {Message(structure, {2}, {0}, <<Frame(i, {}, <<s>>)>>) :
     i \in frames, s \in SlotMessages(types)}

\* Two frames, or one frame twice: a frame that names a transmit slot and an empty one.
TwoFrames(structure) ==
  {Message(structure, {}, {0}, <<Frame(i, {1}, <<Slot(0, "tx", {})>>), Frame(j, {2}, <<>>)>>) :
     i \in 0..1, j \in 0..1}

\* An update whose second entry repeats, follows or leaves the range of the first.
TwoSlots ==
  {Message({}, {1}, {0}, <<Frame(0, {}, <<Slot(0, "tx", {4}), s>>)>>) :
     s \in {Slot(0, "rx", {}), Slot(1, "tx", {3}), Slot(2, "rx", {})}}

Undeterminable ==
  {Message(st, {}, class, <<Frame(0, freq, <<Slot(0, "tx", {})>>)>>) :
     st \in {{}, {Shape(1, 2, 1)}}, class \in {{}, {0}}, freq \in {{}, {1}}}

NoSlotsAtAll ==
  {Message(st, {}, {}, <<>>) : st \in {{}, {Shape(1, 2, 1)}, {Shape(0, 2, 1)}}}

Unparsable == [Message({}, {}, {}, <<>>) EXCEPT !.parses = FALSE]

Messages ==
  UNION {OneSlot({st}, {1}, {"tx"}) \cup TwoFrames({st}) : st \in Shapes}
    \cup OneSlot({}, 0..2, {"tx", "rx"}) \cup OneSlot({}, {0}, {"idle"}) \cup TwoSlots \cup Undeterminable \cup NoSlotsAtAll \cup {Unparsable}

MCScheduleEvents == {Event!Decode(m) : m \in Messages}
=============================================================================
