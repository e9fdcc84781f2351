----------------------- MODULE EventScheduler_proofs -----------------------
(***************************************************************************)
(* Proofs about EventScheduler, for every set of decoded events: the       *)
(* schedule it keeps is always well formed, and it implements the plan.    *)
(***************************************************************************)
EXTENDS EventScheduler, WellFoundedInduction, TLAPS

\* What holds of the scheduler's state before and after every event.
Sound(s) ==
  /\ s = [structure |-> s.structure, slots |-> s.slots, freqs |-> s.freqs,
          slotter |-> s.slotter, waiting |-> s.waiting]
  /\ s.structure \in Structures
  /\ s.slots \in [0..(NumSlots(s.structure) - 1) -> SlotInfos]
  /\ InPlace(s.structure, s.slots)
  /\ s.slotter = SlotterReset(s.structure)
  /\ s.freqs \subseteq Nat
  /\ Announced(s.slots, s.freqs)
  /\ s.waiting \in BOOLEAN

SchedInv ==
  /\ Sound(sched)
  /\ NoPendingFirstRequest
  /\ outcome \in Outcomes

-----------------------------------------------------------------------------
\* The index of a frame and slot in range is within the vector.
LEMMA IndexInRange ==
  ASSUME NEW F \in Nat, NEW S \in Nat, NEW f \in Nat, NEW s \in Nat, f < F, s < S
  PROVE  f * S + s \in 0..(F * S - 1)
  OBVIOUS

\* Two cells of a structure share an index only if they are the same cell.
LEMMA IndexInjective ==
  ASSUME NEW S \in Nat, NEW f \in Nat, NEW s \in Nat, NEW g \in Nat, NEW t \in Nat,
         s < S, t < S, f * S + s = g * S + t
  PROVE  f = g /\ s = t
<1>1. (f * S + s) % S = s /\ (f * S + s) \div S = f  OBVIOUS
<1>2. (g * S + t) % S = t /\ (g * S + t) \div S = g  OBVIOUS
<1> QED BY <1>1, <1>2

\* A set of natural numbers that is not empty has a least element.
LEMMA LeastExists ==
  ASSUME NEW T \in SUBSET Nat, T # {}
  PROVE  \E x \in T : \A y \in T : x <= y
<1>1. PICK x \in T : \A y \in T : ~ (<<y, x>> \in OpToRel(<, Nat))
  BY NatLessThanWellFounded, WFMin
<1>2. \A y \in T : ~ (y < x)
  BY <1>1 DEF OpToRel
<1> QED BY <1>2

\* A bounded one has a greatest element.
LEMMA GreatestExists ==
  ASSUME NEW n \in Nat, NEW T \in SUBSET (0..n), T # {}
  PROVE  \E x \in T : \A y \in T : y <= x
<1> DEFINE U == {n - t : t \in T}
<1>1. U \in SUBSET Nat /\ U # {}
  <2>1. \A t \in T : n - t \in Nat  OBVIOUS
  <2>2. PICK t \in T : TRUE  OBVIOUS
  <2>3. n - t \in U  BY <2>2
  <2> QED BY <2>1, <2>3
<1>2. PICK u \in U : \A v \in U : u <= v  BY <1>1, LeastExists
<1>3. PICK x \in T : u = n - x  OBVIOUS
<1>4. \A y \in T : n - x <= n - y  BY <1>2, <1>3
<1> QED BY <1>4

\* Among the entries of an update that write one index there is a last one.
LEMMA LastWriteIsWrite ==
  ASSUME NEW s, NEW e, NEW k, e.slots \in Seq(SlotInfos), WritesTo(s, e, k) # {}
  PROVE  LastWrite(s, e, k) \in WritesTo(s, e, k)
<1>1. DOMAIN e.slots = 1..Len(e.slots) /\ Len(e.slots) \in Nat  OBVIOUS
<1>2. WritesTo(s, e, k) \in SUBSET (0..Len(e.slots))  BY <1>1 DEF WritesTo
<1>3. \E j \in WritesTo(s, e, k) : \A i \in WritesTo(s, e, k) : i <= j
  BY <1>1, <1>2, GreatestExists
<1> QED BY <1>3 DEF LastWrite

-----------------------------------------------------------------------------
\* An accepted full schedule is well formed.
LEMMA ReplacedSound ==
  ASSUME NEW s, NEW e, DecodedEvent(e), e.kind = "full"
  PROVE  Sound(Replaced(s, e))
BY DEF DecodedEvent, Sound, Replaced, SlotterReset, Structures

\* So is the state a flush leaves.
LEMMA FlushedSound ==
  ASSUME NEW s, s.waiting \in BOOLEAN
  PROVE  Sound(Flushed(s)) /\ Empty(Flushed(s))
<1>1. Flushed(s) = [structure |-> NoStructure, slots |-> NoSlots, freqs |-> {},
                    slotter |-> [frames |-> 0, slots |-> 0], waiting |-> s.waiting]
  BY DEF Flushed, NoSchedule
<1>2. NoSlots \in [0..(NumSlots(NoStructure) - 1) -> SlotInfos] /\ DOMAIN NoSlots = {}
  BY DEF NoSlots, NumSlots, NoStructure
<1>3. NoStructure \in Structures
      /\ SlotterReset(NoStructure) = [frames |-> 0, slots |-> 0]
  BY DEF NoStructure, Structures, SlotterReset
<1>4. InPlace(NoStructure, NoSlots) /\ Announced(NoSlots, {})
  BY <1>2 DEF InPlace, Announced
<1> QED BY <1>1, <1>2, <1>3, <1>4 DEF Sound, Empty

\* An update whose entries are all in range leaves every slot in its place.
LEMMA UpdatedSound ==
  ASSUME NEW s, NEW e, Sound(s), DecodedEvent(e), e.kind = "update", Rejected(s, e) = {}
  PROVE  Sound(Updated(s, e)) /\ DOMAIN Updated(s, e).slots = DOMAIN s.slots
<1> DEFINE n == NumSlots(s.structure)
           new == Overwritten(s, e)
<1>1. e.slots \in Seq(SlotInfos) /\ Announced(e.slots, e.freqs) /\ e.freqs \subseteq Nat
  BY DEF DecodedEvent
<1>2. s.structure.frames \in Nat /\ s.structure.slots \in Nat
  BY DEF Sound, Structures
<1>3. \A j \in DOMAIN e.slots :
        /\ e.slots[j] \in SlotInfos
        /\ e.slots[j].frame < s.structure.frames
        /\ e.slots[j].slot < s.structure.slots
        /\ UpdateIndex(s, e.slots[j]) \in 0..(n - 1)
  <2> SUFFICES ASSUME NEW j \in DOMAIN e.slots
               PROVE  /\ e.slots[j] \in SlotInfos
                      /\ e.slots[j].frame < s.structure.frames
                      /\ e.slots[j].slot < s.structure.slots
                      /\ UpdateIndex(s, e.slots[j]) \in 0..(n - 1)
    OBVIOUS
  <2>1. e.slots[j] \in SlotInfos  BY <1>1
  <2>2. InRange(s, e.slots[j])  BY DEF Rejected
  <2>3. e.slots[j].frame \in Nat /\ e.slots[j].slot \in Nat  BY <2>1 DEF SlotInfos
  <2> QED BY <1>2, <2>1, <2>2, <2>3, IndexInRange
          DEF InRange, FrameInRange, SlotInRange, UpdateIndex, NumSlots
<1>4. DOMAIN s.slots = 0..(n - 1)  BY DEF Sound
<1>5. DOMAIN new = 0..(n - 1)  BY <1>3, <1>4 DEF Overwritten
<1>6. \A k \in 0..(n - 1) :
        \/ WritesTo(s, e, k) = {} /\ new[k] = s.slots[k]
        \/ \E j \in DOMAIN e.slots : UpdateIndex(s, e.slots[j]) = k /\ new[k] = e.slots[j]
  <2> SUFFICES ASSUME NEW k \in 0..(n - 1), WritesTo(s, e, k) # {}
               PROVE  \E j \in DOMAIN e.slots :
                        UpdateIndex(s, e.slots[j]) = k /\ new[k] = e.slots[j]
    BY <1>5 DEF Overwritten
  <2>1. LastWrite(s, e, k) \in WritesTo(s, e, k)  BY <1>1, LastWriteIsWrite
  <2>2. new[k] = e.slots[LastWrite(s, e, k)]  BY <1>5 DEF Overwritten
  <2> QED BY <2>1, <2>2 DEF WritesTo
<1>7. new \in [0..(n - 1) -> SlotInfos]
  <2>1. \A k \in 0..(n - 1) : new[k] \in SlotInfos  BY <1>3, <1>6 DEF Sound
  <2>2. new = [k \in 0..(n - 1) |-> new[k]]  BY <1>5 DEF Overwritten
  <2> QED BY <2>1, <2>2
<1>8. InPlace(s.structure, new)
  <2>1. InPlace(s.structure, s.slots)  BY DEF Sound
  <2> QED BY <1>3, <1>4, <1>5, <1>6, <2>1 DEF InPlace, UpdateIndex
<1>9. Announced(new, s.freqs \cup e.freqs)
  <2>1. Announced(s.slots, s.freqs)  BY DEF Sound
  <2> QED BY <1>1, <1>4, <1>5, <1>6, <2>1 DEF Announced
<1> HIDE DEF new
<1>10. Updated(s, e) =
         [structure |-> s.structure, slots |-> new, freqs |-> s.freqs \cup e.freqs,
          slotter |-> SlotterReset(s.structure), waiting |-> TRUE]
  <2>1. s = [structure |-> s.structure, slots |-> s.slots, freqs |-> s.freqs,
             slotter |-> s.slotter, waiting |-> s.waiting]
    BY DEF Sound
  <2>2. Updated(s, e) = [s EXCEPT !.slots = new, !.freqs = s.freqs \cup e.freqs,
                           !.slotter = SlotterReset(s.structure), !.waiting = TRUE]
    BY DEF Updated, new
  <2> QED BY <2>1, <2>2
<1> QED BY <1>1, <1>4, <1>5, <1>7, <1>8, <1>9, <1>10 DEF Sound

\* Whatever the event, the state the SchedulerUser is notified of is well formed.
LEMMA ResponseSound ==
  ASSUME NEW s, NEW e, Sound(s), DecodedEvent(e)
  PROVE  /\ Sound(Response(s, e).sched)
         /\ Response(s, e).outcome \in Outcomes
         /\ Response(s, e).notify \in BOOLEAN
         /\ ~Response(s, e).notify => Response(s, e).sched = s
<1>1. e.kind \in {"full", "exception", "update"}  BY DEF DecodedEvent
<1>2. s.waiting \in BOOLEAN  BY DEF Sound
<1>3. CASE e.kind = "full"
  BY <1>3, ReplacedSound DEF Response, Outcomes
<1>4. CASE e.kind = "exception"
  <2>1. Sound(Flushed(s))  BY <1>2, FlushedSound
  <2>2. Response(s, e) =
          [outcome |-> "rejectOther", sched |-> Flushed(s), notify |-> TRUE]
    BY <1>4 DEF Response
  <2> QED BY <2>1, <2>2 DEF Outcomes
<1>5. CASE e.kind = "update" /\ Empty(s)
  BY <1>5 DEF Response, Outcomes
<1>6. CASE e.kind = "update" /\ ~Empty(s) /\ Rejected(s, e) # {}
  <2>1. Sound(Flushed(s))  BY <1>2, FlushedSound
  <2>2. /\ Response(s, e).sched = Flushed(s) /\ Response(s, e).notify = TRUE
        /\ Response(s, e).outcome \in {"rejectSlotIndex", "rejectFrameIndex"}
    BY <1>6 DEF Response
  <2> QED BY <2>1, <2>2 DEF Outcomes
<1>7. CASE e.kind = "update" /\ ~Empty(s) /\ Rejected(s, e) = {}
  BY <1>7, UpdatedSound DEF Response, Outcomes
<1> QED BY <1>1, <1>3, <1>4, <1>5, <1>6, <1>7

\* Asking for transmit slots changes nothing but the first-request flag.
LEMMA RequestedSound ==
  ASSUME NEW s, Sound(s)
  PROVE  /\ Sound(Requested(s))
         /\ Requested(s).waiting => Empty(Requested(s))
BY DEF Sound, Requested, Empty

-----------------------------------------------------------------------------
LEMMA SchedInitInv == SchedInit => SchedInv
BY DEF SchedInit, SchedInv, Sound, NoSchedule, NoStructure, NoSlots, Structures, NumSlots,
       InPlace, SlotterReset, Announced, NoPendingFirstRequest, Outcomes

LEMMA ProcessEventInv ==
  ASSUME SchedInv, NEW e \in ScheduleEvents, ProcessEvent(e)
  PROVE  SchedInv'
<1>1. DecodedEvent(e)  BY EventsAssumption
<1>2. Sound(sched)  BY DEF SchedInv
<1> DEFINE r == Response(sched, e)
<1>3. /\ Sound(r.sched) /\ r.outcome \in Outcomes
      /\ r.notify \in BOOLEAN
      /\ ~r.notify => r.sched = sched
  BY <1>1, <1>2, ResponseSound
<1>4. outcome' = r.outcome /\ sched' = IF r.notify THEN Requested(r.sched) ELSE r.sched
  BY DEF ProcessEvent
<1> HIDE DEF r
<1>5. Sound(Requested(r.sched)) /\ (Requested(r.sched).waiting => Empty(Requested(r.sched)))
  BY <1>3, RequestedSound
<1>6. Sound(sched') /\ (sched'.waiting => Empty(sched'))
  BY <1>2, <1>3, <1>4, <1>5 DEF SchedInv, NoPendingFirstRequest
<1>7. Sound(sched)'  BY <1>6 DEF Sound
<1> QED BY <1>3, <1>4, <1>6, <1>7 DEF SchedInv, NoPendingFirstRequest, Empty

THEOREM SchedInvariance == SchedSpec => []SchedInv
<1>1. SchedInv /\ [SchedNext]_schedVars => SchedInv'
  <2>1. ASSUME SchedInv, UNCHANGED schedVars PROVE SchedInv'
    BY <2>1 DEF SchedInv, schedVars, Sound, NoPendingFirstRequest, Empty
  <2> QED BY <2>1, ProcessEventInv DEF SchedNext
<1> QED BY <1>1, SchedInitInv, PTL DEF SchedSpec

LEMMA SchedInvTyped == SchedInv => SchedTypeOK
<1> SUFFICES ASSUME SchedInv PROVE SchedTypeOK
  OBVIOUS
<1>1. Sound(sched) /\ outcome \in Outcomes  BY DEF SchedInv
<1>2. /\ DOMAIN sched.slots \subseteq Nat
      /\ \A k \in DOMAIN sched.slots : sched.slots[k] \in SlotInfos
  BY <1>1 DEF Sound, Structures, NumSlots
<1>3. sched.structure \in Structures /\ sched.slotter \in [frames : Nat, slots : Nat]
  BY <1>1 DEF Sound, SlotterReset, Structures
<1>4. sched.freqs \subseteq Nat /\ sched.waiting \in BOOLEAN
  BY <1>1 DEF Sound
<1> QED BY <1>1, <1>2, <1>3, <1>4 DEF SchedTypeOK

\* The state is always well typed.
THEOREM SchedTyping == SchedSpec => []SchedTypeOK
BY SchedInvTyped, SchedInvariance, PTL

\* Whatever events come, slotInfos_ has one entry for every slot of structure_, in its
\* place, and the slotter is set for the same structure: no lookup leaves the vector.
THEOREM ScheduleStaysInPlace == SchedSpec => []ScheduleInPlace
<1>1. SchedInv => ScheduleInPlace
  BY DEF SchedInv, Sound, ScheduleInPlace
<1> QED BY <1>1, SchedInvariance, PTL

\* Every slot in use has its frequency announced to the MAC.
THEOREM FrequenciesStayAnnounced == SchedSpec => []FrequenciesAnnounced
<1>1. SchedInv => FrequenciesAnnounced
  BY DEF SchedInv, Sound, FrequenciesAnnounced
<1> QED BY <1>1, SchedInvariance, PTL

-----------------------------------------------------------------------------
(* EventScheduler implements SchedulePlan.                                 *)

Cell(info) == <<info.frame, info.slot>>

\* The entry of a sound schedule for a cell is the one that names the cell.
LEMMA PlanOfSound ==
  ASSUME NEW s, Sound(s)
  PROVE  /\ DOMAIN PlanOf(s) = Plan!Cells(s.structure)
         /\ \A p \in Plan!Cells(s.structure) :
              /\ PlanOf(s)[p] = s.slots[p[1] * s.structure.slots + p[2]]
              /\ p[1] * s.structure.slots + p[2] \in DOMAIN s.slots
         /\ PlanOf(s) = [p \in Plan!Cells(s.structure) |-> PlanOf(s)[p]]
<1>1. s.structure.frames \in Nat /\ s.structure.slots \in Nat
  BY DEF Sound, Structures
<1>2. DOMAIN s.slots = 0..(s.structure.frames * s.structure.slots - 1)
  BY DEF Sound, NumSlots
<1>3. \A p \in Plan!Cells(s.structure) : p[1] * s.structure.slots + p[2] \in DOMAIN s.slots
  <2> SUFFICES ASSUME NEW p \in Plan!Cells(s.structure)
               PROVE  p[1] * s.structure.slots + p[2] \in DOMAIN s.slots
    OBVIOUS
  <2>1. /\ p[1] \in Nat /\ p[1] < s.structure.frames
        /\ p[2] \in Nat /\ p[2] < s.structure.slots
    BY <1>1 DEF Plan!Cells
  <2> QED BY <1>1, <1>2, <2>1, IndexInRange
<1>4. CASE Empty(s)
  <2>1. Plan!Cells(s.structure) = {}  BY <1>3, <1>4 DEF Empty
  <2>2. PlanOf(s) = NoSlots  BY <1>4 DEF PlanOf
  <2> QED BY <2>1, <2>2 DEF NoSlots
<1>5. CASE ~Empty(s)
  <2>1. PlanOf(s) = [p \in Plan!Cells(s.structure) |->
                       s.slots[p[1] * s.structure.slots + p[2]]]
    BY <1>5 DEF PlanOf, Plan!Cells
  <2> QED BY <1>3, <2>1
<1> QED BY <1>4, <1>5

\* Without slots there is no cell, and the plan is the empty one.
LEMMA EmptyPlan ==
  ASSUME NEW s, Sound(s)
  PROVE  (PlanOf(s) = Plan!NoPlan) <=> Empty(s)
<1>1. Empty(s) => PlanOf(s) = Plan!NoPlan
  BY DEF PlanOf, NoSlots, Plan!NoPlan
<1>2. ASSUME ~Empty(s) PROVE PlanOf(s) # Plan!NoPlan
  <2>1. PICK k \in DOMAIN s.slots : TRUE  BY <1>2 DEF Empty
  <2>2. /\ s.slots[k].frame \in Nat /\ s.slots[k].slot \in Nat
        /\ s.slots[k].frame < s.structure.frames
        /\ s.slots[k].slot < s.structure.slots
    BY <2>1 DEF Sound, InPlace, SlotInfos
  <2>3. s.structure.frames \in Nat /\ s.structure.slots \in Nat
    BY DEF Sound, Structures
  <2>4. Cell(s.slots[k]) \in Plan!Cells(s.structure)
    BY <2>2, <2>3 DEF Cell, Plan!Cells
  <2>5. DOMAIN PlanOf(s) # {}  BY <2>4, PlanOfSound
  <2> QED BY <2>5 DEF Plan!NoPlan
<1> QED BY <1>1, <1>2

\* The first request changes no entry.
LEMMA RequestedPlan ==
  ASSUME NEW s, Sound(s)
  PROVE  PlanOf(Requested(s)) = PlanOf(s)
<1>1. Requested(s).slots = s.slots /\ Requested(s).structure = s.structure
  BY DEF Requested, Sound
<1> QED BY <1>1 DEF PlanOf, Empty

\* A full event names each of its cells exactly once, at the cell's own index.
LEMMA FullReplaces ==
  ASSUME NEW s, NEW e, DecodedEvent(e), e.kind = "full"
  PROVE  PlanOf(Replaced(s, e)) =
           [p \in Plan!Cells(e.structure) |-> e.slots[Plan!LastOf(e, p)]]
<1> DEFINE S == e.structure.slots
           new == Replaced(s, e)
<1>1. Sound(new) /\ new.structure = e.structure /\ new.slots = e.slots
  BY ReplacedSound DEF Replaced
<1>2. S \in Nat /\ e.structure.frames \in Nat  BY DEF DecodedEvent, Structures
<1>3. \A k \in DOMAIN e.slots :
        /\ e.slots[k].frame \in Nat /\ e.slots[k].slot \in Nat /\ e.slots[k].slot < S
        /\ k = e.slots[k].frame * S + e.slots[k].slot
  BY DEF DecodedEvent, InPlace, SlotInfos
<1>4. ASSUME NEW p \in Plan!Cells(e.structure)
      PROVE  Plan!LastOf(e, p) = p[1] * S + p[2]
  <2>1. /\ p = <<p[1], p[2]>> /\ p[1] \in Nat /\ p[2] \in Nat /\ p[2] < S
        /\ p[1] * S + p[2] \in Int
    BY <1>2 DEF Plan!Cells
  <2>2. p[1] * S + p[2] \in DOMAIN e.slots  BY <1>1, PlanOfSound
  <2>3. Plan!Naming(e, p) = {p[1] * S + p[2]}
    <3>1. ASSUME NEW k \in DOMAIN e.slots, <<e.slots[k].frame, e.slots[k].slot>> = p
          PROVE  k = p[1] * S + p[2]
      BY <1>3, <3>1
    <3>2. Cell(e.slots[p[1] * S + p[2]]) = p
      <4> DEFINE info == e.slots[p[1] * S + p[2]]
      <4>1. /\ info.frame \in Nat /\ info.slot \in Nat /\ info.slot < S
            /\ info.frame * S + info.slot = p[1] * S + p[2]
        BY <1>3, <2>2
      <4>2. info.frame = p[1] /\ info.slot = p[2]
        BY <1>2, <2>1, <4>1, IndexInjective
      <4> QED BY <2>1, <4>2 DEF Cell
    <3> QED BY <2>2, <3>1, <3>2 DEF Plan!Naming, Cell
  <2> QED BY <2>1, <2>3 DEF Plan!LastOf
<1>5. PlanOf(new) = [p \in Plan!Cells(e.structure) |-> e.slots[p[1] * S + p[2]]]
  BY <1>1, PlanOfSound
<1> QED BY <1>4, <1>5

\* An update within range overrides exactly the cells it names.
LEMMA UpdateOverrides ==
  ASSUME NEW s, NEW e, Sound(s), DecodedEvent(e), e.kind = "update", Rejected(s, e) = {}
  PROVE  /\ \A j \in DOMAIN e.slots : Cell(e.slots[j]) \in DOMAIN PlanOf(s)
         /\ PlanOf(Updated(s, e)) =
              [p \in DOMAIN PlanOf(s) |->
                 IF Plan!Naming(e, p) = {} THEN PlanOf(s)[p]
                 ELSE e.slots[Plan!LastOf(e, p)]]
<1> DEFINE S == s.structure.slots
           new == Updated(s, e)
<1>1. S \in Nat /\ s.structure.frames \in Nat  BY DEF Sound, Structures
<1>2. \A j \in DOMAIN e.slots :
        /\ e.slots[j].frame \in Nat /\ e.slots[j].slot \in Nat
        /\ e.slots[j].frame < s.structure.frames /\ e.slots[j].slot < S
  <2> SUFFICES ASSUME NEW j \in DOMAIN e.slots
               PROVE  /\ e.slots[j].frame \in Nat /\ e.slots[j].slot \in Nat
                      /\ e.slots[j].frame < s.structure.frames /\ e.slots[j].slot < S
    OBVIOUS
  <2>1. e.slots[j] \in SlotInfos  BY DEF DecodedEvent
  <2>2. InRange(s, e.slots[j])  BY DEF Rejected
  <2>3. e.slots[j].frame \in Nat /\ e.slots[j].slot \in Nat  BY <2>1 DEF SlotInfos
  <2> QED BY <2>2, <2>3 DEF InRange, FrameInRange, SlotInRange
<1>3. \A j \in DOMAIN e.slots : Cell(e.slots[j]) \in DOMAIN PlanOf(s)
  <2>1. DOMAIN PlanOf(s) = Plan!Cells(s.structure)  BY PlanOfSound
  <2> QED BY <1>1, <1>2, <2>1 DEF Cell, Plan!Cells
<1>4. Sound(new) /\ DOMAIN new.slots = DOMAIN s.slots
  BY UpdatedSound
<1>5. new.structure = s.structure /\ new.slots = Overwritten(s, e)
  <2>1. s = [structure |-> s.structure, slots |-> s.slots, freqs |-> s.freqs,
             slotter |-> s.slotter, waiting |-> s.waiting]
    BY DEF Sound
  <2> HIDE DEF Sound
  <2> QED BY <2>1 DEF Updated
<1>6. ASSUME NEW p \in Plan!Cells(s.structure)
      PROVE  PlanOf(new)[p] = IF Plan!Naming(e, p) = {} THEN PlanOf(s)[p]
                              ELSE e.slots[Plan!LastOf(e, p)]
  <2> DEFINE k == p[1] * S + p[2]
  <2>1. p = <<p[1], p[2]>> /\ p[1] \in Nat /\ p[2] \in Nat /\ p[2] < S
    BY <1>1 DEF Plan!Cells
  <2>2. WritesTo(s, e, k) = Plan!Naming(e, p)
    <3>1. ASSUME NEW j \in DOMAIN e.slots
          PROVE  UpdateIndex(s, e.slots[j]) = k <=> Cell(e.slots[j]) = p
      <4>1. CASE UpdateIndex(s, e.slots[j]) = k
        <5>1. e.slots[j].frame = p[1] /\ e.slots[j].slot = p[2]
          BY <1>1, <1>2, <2>1, <4>1, IndexInjective DEF UpdateIndex
        <5> QED BY <2>1, <4>1, <5>1 DEF Cell
      <4>2. CASE Cell(e.slots[j]) = p
        BY <2>1, <4>2 DEF Cell, UpdateIndex
      <4> QED BY <4>1, <4>2
    <3> QED BY <3>1 DEF WritesTo, Plan!Naming, Cell
  <2>3. LastWrite(s, e, k) = Plan!LastOf(e, p)
    BY <2>2 DEF LastWrite, Plan!LastOf
  <2>4. PlanOf(new)[p] = new.slots[k] /\ k \in DOMAIN new.slots /\ PlanOf(s)[p] = s.slots[k]
    BY <1>4, <1>5, PlanOfSound
  <2>5. new.slots[k] = IF WritesTo(s, e, k) = {} THEN s.slots[k]
                       ELSE e.slots[LastWrite(s, e, k)]
    BY <1>5, <2>4, <1>4 DEF Overwritten
  <2> QED BY <2>2, <2>3, <2>4, <2>5
<1>7. /\ DOMAIN PlanOf(s) = Plan!Cells(s.structure)
      /\ PlanOf(new) = [p \in Plan!Cells(s.structure) |-> PlanOf(new)[p]]
  BY <1>4, <1>5, PlanOfSound
<1> QED BY <1>3, <1>6, <1>7

LEMMA ProcessEventPlan ==
  ASSUME SchedInv, NEW e \in ScheduleEvents, ProcessEvent(e)
  PROVE  [Plan!Next]_(PlanOf(sched))
<1>1. DecodedEvent(e) /\ Sound(sched)
  BY EventsAssumption DEF SchedInv
<1>2. e.kind \in {"full", "exception", "update"}  BY <1>1 DEF DecodedEvent
<1> DEFINE r == Response(sched, e)
<1>3. Sound(r.sched) /\ r.notify \in BOOLEAN /\ (~r.notify => r.sched = sched)
  BY <1>1, ResponseSound
<1>4. PlanOf(sched)' = PlanOf(r.sched)
  <2>1. sched' = IF r.notify THEN Requested(r.sched) ELSE r.sched
    BY DEF ProcessEvent
  <2> HIDE DEF r
  <2>2. PlanOf(sched') = PlanOf(r.sched)
    BY <1>3, <2>1, RequestedPlan
  <2> QED BY <2>2 DEF PlanOf, Empty
<1>5. CASE e.kind = "full"
  <2>1. r.sched = Replaced(sched, e)  BY <1>5 DEF Response
  <2>2. Plan!Replace(e)
    BY <1>1, <1>4, <1>5, <2>1, FullReplaces DEF Plan!Replace
  <2> QED BY <2>2 DEF Plan!Next
<1>6. CASE e.kind = "exception"
  <2>1. r.sched = Flushed(sched)  BY <1>6 DEF Response
  <2>2. Empty(r.sched)  BY <1>1, <2>1, FlushedSound DEF Sound
  <2>3. PlanOf(r.sched) = Plan!NoPlan  BY <1>3, <2>2, EmptyPlan
  <2>4. Plan!Drop(e)  BY <1>4, <1>6, <2>3 DEF Plan!Drop
  <2> QED BY <2>4 DEF Plan!Next
<1>7. CASE e.kind = "update" /\ Empty(sched)
  <2>1. r.sched = sched  BY <1>7 DEF Response
  <2> QED BY <1>4, <2>1
<1>8. CASE e.kind = "update" /\ ~Empty(sched) /\ Rejected(sched, e) # {}
  <2>1. r.sched = Flushed(sched)  BY <1>8 DEF Response
  <2>2. Empty(r.sched)  BY <1>1, <2>1, FlushedSound DEF Sound
  <2>3. PlanOf(r.sched) = Plan!NoPlan  BY <1>3, <2>2, EmptyPlan
  <2>4. PICK j \in DOMAIN e.slots : ~InRange(sched, e.slots[j])
    BY <1>8 DEF Rejected
  <2>5. Cell(e.slots[j]) \notin DOMAIN PlanOf(sched)
    <3>1. DOMAIN PlanOf(sched) = Plan!Cells(sched.structure)  BY <1>1, PlanOfSound
    <3>2. e.slots[j] \in SlotInfos  BY <1>1, <1>8 DEF DecodedEvent
    <3>3. sched.structure.frames \in Nat /\ sched.structure.slots \in Nat
      BY <1>1 DEF Sound, Structures
    <3> QED BY <2>4, <3>1, <3>2, <3>3
            DEF InRange, FrameInRange, SlotInRange, Cell, Plan!Cells, SlotInfos
  <2>6. Plan!Drop(e)  BY <1>4, <1>8, <2>3, <2>5 DEF Plan!Drop, Cell
  <2> QED BY <2>6 DEF Plan!Next
<1>9. CASE e.kind = "update" /\ ~Empty(sched) /\ Rejected(sched, e) = {}
  <2>1. r.sched = Updated(sched, e)  BY <1>9 DEF Response
  <2>2. PlanOf(sched) # Plan!NoPlan  BY <1>1, <1>9, EmptyPlan
  <2>3. Plan!Override(e)
    BY <1>1, <1>4, <1>9, <2>1, <2>2, UpdateOverrides DEF Plan!Override, Cell
  <2> QED BY <2>3 DEF Plan!Next
<1> QED BY <1>2, <1>5, <1>6, <1>7, <1>8, <1>9

\* EventScheduler implements the plan: every event replaces it, overrides it as a whole,
\* drops it or leaves it alone, and nothing in between.
THEOREM SchedulerImplementsPlan == SchedSpec => ImplementsPlan
<1>1. SchedInit => Plan!Init
  BY DEF SchedInit, NoSchedule, PlanOf, Empty, NoSlots, Plan!Init, Plan!NoPlan
<1>2. SchedInv /\ [SchedNext]_schedVars => [Plan!Next]_(PlanOf(sched))
  <2>1. ASSUME SchedInv, UNCHANGED schedVars PROVE UNCHANGED PlanOf(sched)
    BY <2>1 DEF schedVars, PlanOf, Empty
  <2> QED BY <2>1, ProcessEventPlan DEF SchedNext
<1> QED BY <1>1, <1>2, SchedInvariance, PTL DEF SchedSpec, ImplementsPlan, Plan!Spec
=============================================================================
