--------------------------- MODULE ScheduleEvent ---------------------------
(***************************************************************************)
(* TDMAScheduleEvent: what the constructor of HBtdmascheduleevent.cc makes *)
(* of a received protobuf message.  A message either carries a structure   *)
(* (a full schedule) or does not (an update), and lists frames, each with  *)
(* slots.  An optional protobuf field is a set: {} when absent, {v} when   *)
(* present.  The data rate, service class and power of a transmit slot are *)
(* resolved alike; "class" stands for the three, and is narrowed to a byte *)
(* as the service class is, the only one of them that is narrowed.         *)
(*                                                                         *)
(* The loops of the constructor overwrite slotInfos_ by index, so each     *)
(* entry is what its last writer left: it is stated here for each index    *)
(* rather than replayed write by write.                                    *)
(***************************************************************************)
EXTENDS Integers, Sequences, FiniteSets, SequencesExt, Schedules

SlotMessages ==
  [index : Nat, type : SlotTypes, freq : Optional(Nat), class : Optional(Nat)]

FrameMessages ==
  [index : Nat, freq : Optional(Nat), class : Optional(Nat), slots : Seq(SlotMessages)]

\* Everything that may be received: the fields of a message that parses are those the
\* protobuf definition requires, and any of the optional ones.
Messages ==
  [parses : BOOLEAN, structure : Optional(Structures), freq : Optional(Nat),
   class : Optional(Nat), frames : Seq(FrameMessages)]

Info(type, f, s, freq, class) ==
  [type |-> type, frame |-> f, slot |-> s, freq |-> freq, class |-> class]

FirstPresent(a, b, c) == IF a # {} THEN a ELSE IF b # {} THEN b ELSE c

\* An idle slot has frequency 0 and, like a receive slot, no class.
SlotFrequency(msg, frame, slot) ==
  IF slot.type = "idle" THEN {0}
  ELSE FirstPresent(slot.freq, frame.freq, msg.freq)

\* The message holds the service class in 32 bits, the slot in 8 (u8ServiceClass).
Byte(field) == {v % 256 : v \in field}

SlotClass(msg, frame, slot) ==
  IF slot.type # "tx" THEN {0}
  ELSE Byte(FirstPresent(slot.class, frame.class, msg.class))

\* The frequency of a slot that a listed frame of a full schedule leaves out.
FillFrequency(msg, frame) == FirstPresent(frame.freq, msg.freq, {})

The(optional) == CHOOSE v \in optional : TRUE

HasStructure(msg) == msg.structure # {}

SlotDecoded(msg, frame, slot) ==
  Info(slot.type, frame.index, slot.index,
       The(SlotFrequency(msg, frame, slot)), The(SlotClass(msg, frame, slot)))

Listed(frame) == {frame.slots[j].index : j \in DOMAIN frame.slots}

Missing(msg, frame) == (0..(The(msg.structure).slots - 1)) \ Listed(frame)

\* The conditions under which the constructor throws SerializationException.
OutOfRange(msg) ==
  /\ HasStructure(msg)
  /\ \E i \in DOMAIN msg.frames :
       \/ msg.frames[i].index >= The(msg.structure).frames
       \/ \E s \in Listed(msg.frames[i]) : s >= The(msg.structure).slots

Undeterminable(msg) ==
  \E i \in DOMAIN msg.frames :
    LET frame == msg.frames[i] IN
    \/ \E j \in DOMAIN frame.slots :
         \/ SlotFrequency(msg, frame, frame.slots[j]) = {}
         \/ SlotClass(msg, frame, frame.slots[j]) = {}
    \/ /\ HasStructure(msg)
       /\ Missing(msg, frame) # {}
       /\ FillFrequency(msg, frame) = {}

\* A frame listed twice: each listing writes every slot of the frame, present
\* or missing, so the last listing decides the whole frame.
FullSlots(msg) ==
  LET st == The(msg.structure)
      listings(f) == {i \in DOMAIN msg.frames : msg.frames[i].index = f}
      entry(f, s) ==
        LET frame == msg.frames[Max(listings(f))]
            writes == {j \in DOMAIN frame.slots : frame.slots[j].index = s}
        IN IF writes # {} THEN SlotDecoded(msg, frame, frame.slots[Max(writes)])
           ELSE Info("rx", f, s, The(FillFrequency(msg, frame)), 0)
  IN [k \in 0..(st.frames * st.slots - 1) |->
        LET f == k \div st.slots
            s == k % st.slots
        IN IF listings(f) = {} THEN Info("idle", f, s, 0, 0) ELSE entry(f, s)]

\* Without a structure the slots are appended as they come, whatever their indexes.
UpdateSlots(msg) ==
  FlattenSeq([i \in DOMAIN msg.frames |->
                [j \in DOMAIN msg.frames[i].slots |->
                   SlotDecoded(msg, msg.frames[i], msg.frames[i].slots[j])]])

EventFrequencies(msg) ==
  UNION {LET frame == msg.frames[i] IN
           (UNION {SlotFrequency(msg, frame, frame.slots[j]) : j \in DOMAIN frame.slots})
             \cup IF HasStructure(msg) /\ Missing(msg, frame) # {}
                  THEN FillFrequency(msg, frame) ELSE {}
         : i \in DOMAIN msg.frames}

\* The event handed to EventScheduler::processEvent, or the exception.
Decode(msg) ==
  IF ~msg.parses \/ OutOfRange(msg) \/ Undeterminable(msg)
  THEN [kind |-> "exception", structure |-> NoStructure, slots |-> <<>>, freqs |-> {}]
  ELSE IF HasStructure(msg)
  THEN [kind |-> "full", structure |-> The(msg.structure),
        slots |-> FullSlots(msg), freqs |-> EventFrequencies(msg)]
  ELSE [kind |-> "update", structure |-> NoStructure,
        slots |-> UpdateSlots(msg), freqs |-> EventFrequencies(msg)]
=============================================================================
