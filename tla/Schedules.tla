----------------------------- MODULE Schedules -----------------------------
(***************************************************************************)
(* The data the schedule event and the scheduler have in common: what a    *)
(* slot is told to do, the structure of a multiframe, and the events that  *)
(* are passed from the one to the other.                                   *)
(***************************************************************************)
EXTENDS Integers, Sequences

\* A field that may be absent: {}, or {v} when it has the value v.
Optional(S) == {field \in SUBSET S : \A v, w \in field : v = w}

SlotTypes == {"idle", "rx", "tx"}

SlotInfos == [type : SlotTypes, frame : Nat, slot : Nat, freq : Nat, class : 0..255]

Structures == [frames : Nat, slots : Nat, bandwidth : Nat]

NoStructure == [frames |-> 0, slots |-> 0, bandwidth |-> 0]

NumSlots(st) == st.frames * st.slots

\* Every slot in which the radio does something has its frequency announced.
Announced(slots, freqs) ==
  \A k \in DOMAIN slots : slots[k].type # "idle" => slots[k].freq \in freqs

\* Every entry of a complete schedule stands at its own index.
InPlace(st, slots) ==
  \A k \in DOMAIN slots :
    /\ slots[k].frame < st.frames
    /\ slots[k].slot < st.slots
    /\ k = slots[k].frame * st.slots + slots[k].slot

\* The events TDMAScheduleEvent's constructor returns, or its exception.
DecodedEvent(e) ==
  /\ e.freqs \subseteq Nat
  /\ \/ e.kind = "exception"
     \/ /\ e.kind = "full"
        /\ e.structure \in Structures
        /\ e.slots \in [0..(NumSlots(e.structure) - 1) -> SlotInfos]
        /\ InPlace(e.structure, e.slots)
        /\ Announced(e.slots, e.freqs)
     \/ /\ e.kind = "update"
        /\ e.slots \in Seq(SlotInfos)
        /\ Announced(e.slots, e.freqs)
=============================================================================
