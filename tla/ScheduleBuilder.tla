-------------------------- MODULE ScheduleBuilder --------------------------
(***************************************************************************)
(* TDMAScheduleEvent of HBtdmascheduleevent.py: the object a tool builds a *)
(* schedule event with, slot by slot, and what the radios then decode.     *)
(*                                                                         *)
(* event is the protobuf message under construction; an optional field is  *)
(* a set, {} while it is absent.  Beside it the object keeps an index,     *)
(* _frames, from frame indexes to the frame's entry of the message and the *)
(* slots appended to it.  The data rate, service class and power of a slot *)
(* are treated alike: "class" stands for the three.                        *)
(***************************************************************************)
EXTENDS Integers, Sequences, Schedules

CONSTANTS
  Defaults,     \* the frequency and class an event is constructed with
  Indexes,      \* the frame and slot indexes append() is called with
  Keywords,     \* the keyword arguments append() is called with
  Shapes,       \* the arguments structure() is called with
  Archive,      \* the messages restore() is called with
  MaxUInt,      \* the greatest value of the message's integers (2^32 - 1)
  MaxCalls      \* bound: calls of append()

\* A caller may leave the type out, pass a value that is refused (not sound), or pass a
\* frequency, data rate, power or destination that is accepted and then does not fit its
\* field: for the frame or for the slot.
KeywordArguments ==
  [type : SlotTypes \cup {"none"}, freq : Optional(Nat \ {0}), class : Optional(0..3),
   frameFreq : Optional(Nat \ {0}), frameClass : Optional(0..3), sound : BOOLEAN,
   misfit : {"none", "frame", "slot"}]

StructureFields == [frames : Optional(Nat), slots : Optional(Nat), bandwidth : Optional(Nat)]

NoFields == [frames |-> {}, slots |-> {}, bandwidth |-> {}]

SlotEntries ==
  [index : Optional(Nat), type : Optional(SlotTypes), freq : Optional(Nat), class : Optional(Nat)]

FrameEntries ==
  [index : Optional(Nat), freq : Optional(Nat), class : Optional(Nat), slots : Seq(SlotEntries)]

Events ==
  [structure : StructureFields, freq : Optional(Nat), class : Optional(Nat),
   frames : Seq(FrameEntries)]

ASSUME BuilderAssumption ==
  /\ Defaults \subseteq [freq : Optional(Nat), class : Optional(Nat)]
  /\ Indexes \subseteq Int
  /\ Keywords \subseteq KeywordArguments
  /\ Shapes \subseteq [frames : Nat, slots : Nat, bandwidth : Nat, misfit : BOOLEAN]
  /\ Archive \subseteq Events
  /\ MaxUInt \in Nat
  /\ MaxCalls \in Nat

VARIABLES
  event,      \* _event
  index,      \* _frames: the place of a frame's entry in event, 0 once it is detached, and its slots
  calls,      \* how often append() was called
  outcome,    \* how the last call ended
  asked,      \* history: the slots accepted since the last restore()
  restored,   \* history: how many of the frames of event came with restore()
  raised      \* history: the frames calls raised for since then, and the field each raised at

vars == <<event, index, calls, outcome, asked, restored, raised>>

NoIndex == [f \in {} |-> 0]

\* A default that does not fit raises, and there is no object.  The class is not held to
\* 0..3 here, as it is in append().
Init ==
  /\ \E d \in Defaults :
       /\ d.class \subseteq 0..MaxUInt
       /\ event = [structure |-> NoFields, freq |-> d.freq, class |-> d.class, frames |-> <<>>]
  /\ index = NoIndex
  /\ calls = 0 /\ outcome = "none"
  /\ asked = <<>> /\ restored = 0 /\ raised = {}

-----------------------------------------------------------------------------
(* append                                                                  *)

\* Mutant: negative integers are let through.
FitsBelow(i) == i <= MaxUInt

\* Assigning an integer that does not fit raises, and leaves the field absent.
Fits(i) == i \in 0..MaxUInt

\* Reading an absent optional field gives 0, which is not None: no default is ever missed.
Read(field) == IF field = {} THEN {0} ELSE field

Missing(slotField, frameField, default) ==
  slotField = {} /\ frameField = {} /\ Read(default) = {}

\* Mutant: the slots appended to a frame are not remembered.
NeverDefined(f, s) == FALSE

AlreadyDefined(f, s) == f \in DOMAIN index /\ s \in index[f].slots

\* What the checks before the first change of the message refuse.
Refused(k) ==
  \/ ~k.sound
  \/ /\ k.type = "tx"
     /\ \/ Missing(k.freq, k.frameFreq, event.freq)
        \/ Missing(k.class, k.frameClass, event.class)
  \/ /\ k.type = "rx"
     /\ k.class # {} \/ Missing(k.freq, k.frameFreq, event.freq)
  \/ k.type = "idle" /\ (k.freq # {} \/ k.class # {})
  \/ k.type = "none"

Starts(f, s, k) == ~AlreadyDefined(f, s) /\ ~Refused(k)

\* The place of the frame's entry, at the end of the message if it has none yet.
Place(f) == IF f \in DOMAIN index THEN index[f].at ELSE Len(event.frames) + 1

NewFrame(f) ==
  [index |-> IF Fits(f) THEN {f} ELSE {}, freq |-> {}, class |-> {}, slots |-> <<>>]

\* A frame new to the index is entered in the message and the index before its own index
\* is assigned; a frame detached by restore() is written to no more.
Entered(f) == IF f \in DOMAIN index THEN event.frames ELSE Append(event.frames, NewFrame(f))

Entry(f) == Entered(f)[Place(f)]

Written(f, frame) ==
  IF Place(f) = 0 THEN event.frames ELSE [Entered(f) EXCEPT ![Place(f)] = frame]

Indexed(f, slots) ==
  [g \in DOMAIN index \cup {f} |->
     IF g # f THEN index[g]
     ELSE [at |-> Place(f), slots |-> slots \cup IF f \in DOMAIN index THEN index[f].slots ELSE {}]]

\* frame.index = frameIndex is reached for new frames only.
FrameEntered(f) == f \in DOMAIN index \/ Fits(f)

\* Mutant: frame defaults not named in this call are cleared.
Overridden(old, new) == new

Kept(old, new) == IF new # {} THEN new ELSE old

WithDefaults(frame, freq, class) ==
  [frame EXCEPT !.freq = Kept(@, freq), !.class = Kept(@, class)]

WithSlot(frame, slot) == [frame EXCEPT !.slots = Append(@, slot)]

NoSlot == [index |-> {}, type |-> {}, freq |-> {}, class |-> {}]

NewSlot(s, type, freq, class) ==
  [index |-> {s}, type |-> {type}, freq |-> freq, class |-> class]

\* Frequency, data rate, class, power and destination are assigned in this order: a value
\* that does not fit leaves nothing, the frequency, or the frequency and the class assigned.
Parts(freq, class) == {<<{}, {}>>, <<freq, {}>>, <<freq, class>>}

\* Nothing of an idle slot is assigned, and of a receive slot the frequency only.
SlotMisfits(k) ==
  k.misfit = "slot" /\ (k.type = "tx" \/ (k.type = "rx" /\ k.freq # {}))

SlotParts(k) == IF k.type = "tx" THEN Parts(k.freq, k.class) ELSE {<<{}, {}>>}

RefuseAppend(f, s, k) ==
  /\ ~Starts(f, s, k)
  /\ outcome' = "refused"
  /\ UNCHANGED <<event, index, asked, restored, raised>>

\* The call ends with an exception and leaves the frame as far as it was written; its slot
\* is not remembered, as the index of slots is written last (:343).
Raise(f, frame, field) ==
  /\ event' = [event EXCEPT !.frames = Written(f, frame)]
  /\ index' = Indexed(f, {})
  /\ outcome' = "raised"
  /\ raised' = raised \cup {[frame |-> f, field |-> field]}
  /\ UNCHANGED <<asked, restored>>

\* frame.index = frameIndex raises, with the frame entered.
RaiseAtFrame(f, s, k) ==
  /\ Starts(f, s, k) /\ ~FrameEntered(f)
  /\ Raise(f, Entry(f), "frame index")

\* A default of the frame does not fit.
RaiseAtDefault(f, s, k) ==
  /\ Starts(f, s, k) /\ FrameEntered(f)
  /\ k.misfit = "frame"
  /\ \E part \in Parts(k.frameFreq, k.frameClass) :
       Raise(f, WithDefaults(Entry(f), part[1], part[2]), "default")

\* slot.index = slotIndex raises, with the slot entered and the frame's defaults changed.
RaiseAtSlot(f, s, k) ==
  /\ Starts(f, s, k) /\ FrameEntered(f)
  /\ k.misfit # "frame" /\ ~Fits(s)
  /\ Raise(f, WithSlot(WithDefaults(Entry(f), k.frameFreq, k.frameClass), NoSlot), "slot index")

\* A value of the slot does not fit, with the index and the type of the slot entered.
RaiseAtField(f, s, k) ==
  /\ Starts(f, s, k) /\ FrameEntered(f)
  /\ Fits(s) /\ SlotMisfits(k)
  /\ \E part \in SlotParts(k) :
       Raise(f, WithSlot(WithDefaults(Entry(f), k.frameFreq, k.frameClass),
                         NewSlot(s, k.type, part[1], part[2])), "value")

AppendSlot(f, s, k) ==
  /\ Starts(f, s, k) /\ FrameEntered(f)
  /\ k.misfit # "frame" /\ Fits(s) /\ ~SlotMisfits(k)
  /\ event' = [event EXCEPT !.frames =
       Written(f, WithSlot(WithDefaults(Entry(f), k.frameFreq, k.frameClass),
                           NewSlot(s, k.type, k.freq, k.class)))]
  /\ index' = Indexed(f, {s})
  /\ outcome' = "accepted"
  /\ asked' = Append(asked, [frame |-> f, slot |-> s, args |-> k])
  /\ UNCHANGED <<restored, raised>>

CallAppend ==
  /\ calls < MaxCalls
  /\ calls' = calls + 1
  /\ \E f, s \in Indexes, k \in Keywords :
       \/ RefuseAppend(f, s, k)
       \/ RaiseAtFrame(f, s, k)
       \/ RaiseAtDefault(f, s, k)
       \/ RaiseAtSlot(f, s, k)
       \/ RaiseAtField(f, s, k)
       \/ AppendSlot(f, s, k)

-----------------------------------------------------------------------------
(* structure, serialize and restore                                        *)

\* The fields are assigned in order: slots, frames, then overhead, duration and bandwidth.
\* The first that does not fit raises and leaves those after it as they were.
Assigned(fields, st) ==
  CASE ~Fits(st.slots)                                  -> fields
    [] Fits(st.slots) /\ ~Fits(st.frames)               -> [fields EXCEPT !.slots = {st.slots}]
    [] Fits(st.slots) /\ Fits(st.frames) /\ st.misfit   ->
         [fields EXCEPT !.slots = {st.slots}, !.frames = {st.frames}]
    [] Fits(st.slots) /\ Fits(st.frames) /\ ~st.misfit  ->
         [frames |-> {st.frames}, slots |-> {st.slots}, bandwidth |-> {st.bandwidth}]

RefuseStructure(st) ==
  /\ 0 \in {st.slots, st.frames, st.bandwidth}
  /\ outcome' = "refused"
  /\ UNCHANGED <<event, index, calls, asked, restored, raised>>

Structure(st) ==
  /\ 0 \notin {st.slots, st.frames, st.bandwidth}
  /\ event' = [event EXCEPT !.structure = Assigned(@, st)]
  /\ outcome' = IF Fits(st.slots) /\ Fits(st.frames) /\ ~st.misfit THEN "accepted" ELSE "raised"
  /\ UNCHANGED <<index, calls, asked, restored, raised>>

\* Every required field is present: otherwise SerializeToString raises.
Complete(ev) ==
  /\ ev.structure = NoFields \/ \A field \in DOMAIN NoFields : ev.structure[field] # {}
  /\ \A i \in DOMAIN ev.frames :
       /\ ev.frames[i].index # {}
       /\ \A j \in DOMAIN ev.frames[i].slots :
            ev.frames[i].slots[j].index # {} /\ ev.frames[i].slots[j].type # {}

Decoder == INSTANCE ScheduleEvent

\* The message as its receiver parses it.
Serialized(ev) ==
  [parses |-> TRUE,
   structure |-> IF ev.structure = NoFields THEN {}
                 ELSE {[field \in DOMAIN NoFields |-> Decoder!The(ev.structure[field])]},
   freq |-> ev.freq, class |-> ev.class,
   frames |->
     [i \in DOMAIN ev.frames |->
        LET frame == ev.frames[i] IN
        [index |-> Decoder!The(frame.index), freq |-> frame.freq, class |-> frame.class,
         slots |-> [j \in DOMAIN frame.slots |->
                      LET slot == frame.slots[j] IN
                      [index |-> Decoder!The(slot.index), type |-> Decoder!The(slot.type),
                       freq |-> slot.freq, class |-> slot.class]]]]]

\* ParseFromString replaces the message; the entries the index holds belong to it no more.
Detached == [f \in DOMAIN index |-> [index[f] EXCEPT !.at = 0]]

Restore(ev) ==
  /\ event' = ev
  /\ index' = Detached
  /\ outcome' = "accepted"
  /\ asked' = <<>>
  /\ restored' = Len(ev.frames)
  /\ raised' = {}
  /\ UNCHANGED calls

Next ==
  \/ CallAppend
  \/ \E st \in Shapes : RefuseStructure(st) \/ Structure(st)
  \/ \E ev \in Archive : Restore(ev)

Spec == Init /\ [][Next]_vars

-----------------------------------------------------------------------------
(* Properties                                                              *)

Entries == [at : Nat, slots : SUBSET Int]

RaisedCalls ==
  [frame : Indexes, field : {"frame index", "default", "slot index", "value"}]

\* The message and its index are well typed.
BuilderTypeOK ==
  /\ event \in Events
  /\ DOMAIN index \subseteq Indexes /\ \A f \in DOMAIN index : index[f] \in Entries
  /\ calls \in 0..MaxCalls
  /\ outcome \in {"none", "refused", "raised", "accepted"}
  /\ asked \in Seq([frame : Indexes, slot : Indexes, args : Keywords])
  /\ restored \in 0..Len(event.frames)
  /\ raised \subseteq RaisedCalls

\* The frames of which append() listed a slot that it does not remember.
Forgetful == {r.frame : r \in {q \in raised : q.field = "value"}}

\* A frame entered by append() is listed once, apart from frames a restored message may
\* have brought, and holds no slot twice: "slot index already defined for frame" (:157).
\* The receiver would let the last listing decide the whole frame
\* (HBtdmascheduleevent.cc:240).  Left out are the slots of a frame for which a call raised
\* at a value of its slot: the slot is listed and not remembered, and a retry lists it again.
ListedOnce ==
  /\ \A i, j \in (restored + 1)..Len(event.frames) :
       event.frames[i].index # {} /\ event.frames[j].index = event.frames[i].index => j = i
  /\ \A f \in DOMAIN index \ Forgetful : index[f].at # 0 =>
       LET slots == event.frames[index[f].at].slots IN
       \A u, v \in DOMAIN slots :
         slots[u].index # {} /\ slots[u].index = slots[v].index => u = v

\* Nothing of the message came from elsewhere, and nothing appended went elsewhere.
Fresh == restored = 0 /\ \A f \in DOMAIN index : index[f].at # 0

\* The frames a call that raised may have changed.
Spoilt == {r.frame : r \in raised}

\* The default a frame was given last, in whichever call for it.
LatestDefault(f, keyword) ==
  LET given == {i \in DOMAIN asked : asked[i].frame = f /\ asked[i].args[keyword] # {}}
  IN UNION {asked[i].args[keyword] : i \in {g \in given : \A h \in given : h <= g}}

Meant(a) ==
  [type |-> a.args.type,
   freq |-> IF a.args.type = "idle" THEN {0}
            ELSE Decoder!FirstPresent(a.args.freq, LatestDefault(a.frame, "frameFreq"), event.freq),
   class |-> IF a.args.type # "tx" THEN {0}
             ELSE Decoder!Byte(
                    Decoder!FirstPresent(a.args.class, LatestDefault(a.frame, "frameClass"), event.class))]

MeantOfRest(f) ==
  IF \E i \in DOMAIN asked : asked[i].frame = f
  THEN [type |-> "rx", class |-> {0},
        freq |-> Decoder!FirstPresent(LatestDefault(f, "frameFreq"), event.freq, {})]
  ELSE [type |-> "idle", class |-> {0}, freq |-> {0}]

Heard(info) == [type |-> info.type, freq |-> {info.freq}, class |-> {info.class}]

IsOf(info, a) == info.frame = a.frame /\ info.slot = a.slot

\* What a radio decodes is what was asked for, call by call: each slot appended with its
\* type and its own frequency and class, the frame's last default or the event's, and of
\* a full schedule the rest to listen in or idle (HBtdmascheduleevent.py:293).  A class
\* above 255, which only the constructor lets through (:35), is heard modulo 256
\* (HBtdmascheduleevent.cc:139).  A call that raises spoils no frame but its own, and there
\* no slot asked for gets lost.
RadioAsAsked ==
  Fresh /\ Complete(event) =>
    LET e == Decoder!Decode(Serialized(event)) IN
    e.kind # "exception" =>
      /\ \A i \in DOMAIN asked : \E k \in DOMAIN e.slots : IsOf(e.slots[k], asked[i])
      /\ \A k \in DOMAIN e.slots : e.slots[k].frame \notin Spoilt =>
           \/ \E i \in DOMAIN asked :
                IsOf(e.slots[k], asked[i]) /\ Heard(e.slots[k]) = Meant(asked[i])
           \/ /\ e.kind = "full"
              /\ \A i \in DOMAIN asked : ~IsOf(e.slots[k], asked[i])
              /\ Heard(e.slots[k]) = MeantOfRest(e.slots[k].frame)
=============================================================================
