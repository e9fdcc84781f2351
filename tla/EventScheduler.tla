--------------------------- MODULE EventScheduler ---------------------------
(***************************************************************************)
(* EventScheduler: keeps the TDMA schedule a node received and answers the *)
(* MAC's questions about it.  Time is counted in slots: an absolute slot   *)
(* index is the number of slot durations since the epoch, and every        *)
(* schedule has the same slot duration.                                    *)
(***************************************************************************)
EXTENDS Integers, Sequences, Schedules

CONSTANT ScheduleEvents     \* the decoded TDMAScheduleEvents that may arrive

NoSlots == [k \in {} |-> 0]

ASSUME EventsAssumption == \A e \in ScheduleEvents : DecodedEvent(e)

VARIABLES
  sched,      \* structure_, slotInfos_, slotter_, the first-request flag, frequencies_
  outcome     \* the statistic the last event incremented

schedVars == <<sched, outcome>>

Outcomes == {"none", "acceptFull", "acceptUpdate", "rejectFrameIndex",
             "rejectSlotIndex", "rejectUpdateBeforeFull", "rejectOther"}

NoSchedule == [structure |-> NoStructure, slots |-> NoSlots, freqs |-> {},
               slotter |-> [frames |-> 0, slots |-> 0], waiting |-> FALSE]

Empty(s) == DOMAIN s.slots = {}

-----------------------------------------------------------------------------
(* Slotter: absolute and relative indexes of a multiframe.  External.      *)

MultiFrameLength(slotter) == slotter.frames * slotter.slots

MultiFrameIndex(slotter, a) == a \div MultiFrameLength(slotter)

MultiFrameSlot(slotter, m) == m * MultiFrameLength(slotter)

RelativeSlot(slotter, a) == a % slotter.slots

RelativeFrame(slotter, a) == (a \div slotter.slots) % slotter.frames

SlotterReset(st) == [frames |-> st.frames, slots |-> st.slots]

-----------------------------------------------------------------------------
(* processEvent                                                            *)

FrameInRange(s, info) == info.frame < s.structure.frames

\* Mutant: one past the last slot is let through.
SlotInRangeOrNext(s, info) == info.slot <= s.structure.slots

SlotInRange(s, info) == info.slot < s.structure.slots

InRange(s, info) == FrameInRange(s, info) /\ SlotInRange(s, info)

\* The indexes an update gives slots out of the structure's range, in its order.
Rejected(s, e) == {j \in DOMAIN e.slots : ~InRange(s, e.slots[j])}

FirstRejected(s, e) ==
  CHOOSE j \in Rejected(s, e) : \A i \in Rejected(s, e) : j <= i

\* Mutant: slot indexes counted from one.
UpdateIndexFromOne(s, info) == info.frame * s.structure.slots + info.slot - 1

UpdateIndex(s, info) == info.frame * s.structure.slots + info.slot

\* The entries of an update written to index k; the last one stays.
WritesTo(s, e, k) == {j \in DOMAIN e.slots : UpdateIndex(s, e.slots[j]) = k}

\* Mutant: the first entry stays.
FirstWrite(s, e, k) ==
  CHOOSE j \in WritesTo(s, e, k) : \A i \in WritesTo(s, e, k) : j <= i

LastWrite(s, e, k) ==
  CHOOSE j \in WritesTo(s, e, k) : \A i \in WritesTo(s, e, k) : i <= j

\* A write past the end of the vector shows as an index out of its domain.
Overwritten(s, e) ==
  [k \in DOMAIN s.slots \cup {UpdateIndex(s, e.slots[j]) : j \in DOMAIN e.slots} |->
     IF WritesTo(s, e, k) = {} THEN s.slots[k] ELSE e.slots[LastWrite(s, e, k)]]

Replaced(s, e) ==
  [structure |-> e.structure, slots |-> e.slots, freqs |-> e.freqs,
   slotter |-> SlotterReset(e.structure), waiting |-> TRUE]

\* Mutant: an update's frequencies replace those of the slots it leaves alone.
UpdatedFrequenciesReplaced(s, e) ==
  [s EXCEPT !.slots = Overwritten(s, e), !.freqs = e.freqs,
            !.slotter = SlotterReset(s.structure), !.waiting = TRUE]

Updated(s, e) ==
  [s EXCEPT !.slots = Overwritten(s, e), !.freqs = @ \cup e.freqs,
            !.slotter = SlotterReset(s.structure), !.waiting = TRUE]

\* flushSchedule leaves the first-request flag alone.
Flushed(s) == [NoSchedule EXCEPT !.waiting = s.waiting]

\* What processEvent makes of an event: the statistic it increments, the state
\* it leaves to the SchedulerUser it then notifies, and whether it does notify.
Response(s, e) ==
  CASE e.kind = "full" ->
         [outcome |-> "acceptFull", sched |-> Replaced(s, e), notify |-> TRUE]
    [] e.kind = "exception" ->
         [outcome |-> "rejectOther", sched |-> Flushed(s), notify |-> TRUE]
    [] e.kind = "update" /\ Empty(s) ->
         [outcome |-> "rejectUpdateBeforeFull", sched |-> s, notify |-> FALSE]
    [] e.kind = "update" /\ ~Empty(s) /\ Rejected(s, e) # {} ->
         [outcome |-> IF FrameInRange(s, e.slots[FirstRejected(s, e)])
                      THEN "rejectSlotIndex" ELSE "rejectFrameIndex",
          sched |-> Flushed(s), notify |-> TRUE]
    [] e.kind = "update" /\ ~Empty(s) /\ Rejected(s, e) = {} ->
         [outcome |-> "acceptUpdate", sched |-> Updated(s, e), notify |-> TRUE]

-----------------------------------------------------------------------------
(* The SchedulerService calls                                              *)

\* getSlotInfo(timePoint) of a time in slot a: absolute index 0 without a schedule.
SlotIndexAt(s, a) == IF Empty(s) THEN 0 ELSE a

\* The entry getSlotInfo and getRxSlotInfo read for absolute slot a.
RelativeIndex(s, a) ==
  RelativeFrame(s.slotter, a) * s.structure.slots + RelativeSlot(s.slotter, a)

InfoAt(s, a) == s.slots[RelativeIndex(s, a)]

\* Mutant: the first request starts at the multiframe under way.
RequestThisMultiFrame(s, a) ==
  IF s.waiting THEN MultiFrameSlot(s.slotter, MultiFrameIndex(s.slotter, a)) ELSE a

\* getTxSlotInfo(timePoint, 1) for a time in slot a: the first request after a
\* schedule change starts at the next multiframe.
RequestSlot(s, a) ==
  IF s.waiting THEN MultiFrameSlot(s.slotter, MultiFrameIndex(s.slotter, a) + 1) ELSE a

\* The transmit slots from the request to the end of its multiframe, as a set of
\* absolute indexes: the code lists them in ascending order.
TxSlots(s, a) ==
  LET r == RequestSlot(s, a)
      first == RelativeIndex(s, r)
  IN {r + (k - first) : k \in {i \in DOMAIN s.slots : i >= first /\ s.slots[i].type = "tx"}}

TxSlotInfo(s, a) ==
  IF Empty(s) THEN [slots |-> {}, next |-> 0]
  ELSE [slots |-> TxSlots(s, a),
        next |-> MultiFrameSlot(s.slotter,
                   MultiFrameIndex(s.slotter, RequestSlot(s, a)) + 1)]

\* The state getTxSlotInfo leaves: an empty schedule returns before the flag is reset.
Requested(s) == IF Empty(s) THEN s ELSE [s EXCEPT !.waiting = FALSE]

-----------------------------------------------------------------------------
SchedInit ==
  /\ sched = NoSchedule
  /\ outcome = "none"

\* processEvent and the first request its notification makes of the scheduler
\* (BaseModel::notifyScheduleChange calls getTxSlotInfo before it returns).
ProcessEvent(e) ==
  LET r == Response(sched, e) IN
  /\ outcome' = r.outcome
  /\ sched' = IF r.notify THEN Requested(r.sched) ELSE r.sched

SchedNext == \E e \in ScheduleEvents : ProcessEvent(e)

SchedSpec == SchedInit /\ [][SchedNext]_schedVars

-----------------------------------------------------------------------------
(* Properties                                                              *)

\* The state processEvent leaves is well typed.
SchedTypeOK ==
  /\ sched.structure \in Structures
  /\ DOMAIN sched.slots \subseteq Nat
  /\ \A k \in DOMAIN sched.slots : sched.slots[k] \in SlotInfos
  /\ sched.freqs \subseteq Nat
  /\ sched.slotter \in [frames : Nat, slots : Nat]
  /\ sched.waiting \in BOOLEAN
  /\ outcome \in Outcomes

\* slotInfos_ holds one entry for every slot of structure_, each at its own index, and
\* the slotter is set for the same structure, whatever full events, updates and flushes
\* came before: a lookup neither divides by zero nor reads past the vector nor reports
\* another slot's frame and slot (HBeventscheduler.cc:240, :262).
ScheduleInPlace ==
  /\ DOMAIN sched.slots = 0..(NumSlots(sched.structure) - 1)
  /\ InPlace(sched.structure, sched.slots)
  /\ sched.slotter = SlotterReset(sched.structure)

\* Every slot to listen or transmit in has its frequency among those the MAC was told
\* to make known to the radio, across accumulating updates (HBeventscheduler.cc:268).
FrequenciesAnnounced == Announced(sched.slots, sched.freqs)

\* The first-request flag never outlives the notification that raised it while there
\* is a schedule: no later request of the MAC skips a multiframe.
NoPendingFirstRequest == sched.waiting => Empty(sched)

\* The flat vector as a plan of frames and slots.
PlanOf(s) ==
  IF Empty(s) THEN NoSlots
  ELSE [p \in (0..(s.structure.frames - 1)) \X (0..(s.structure.slots - 1)) |->
          s.slots[p[1] * s.structure.slots + p[2]]]

Plan == INSTANCE SchedulePlan WITH plan <- PlanOf(sched)

\* EventScheduler implements the plan: a full event replaces it, an update is applied
\* as a whole or leaves no plan, an unreadable event leaves none (HBeventscheduler.cc:230).
ImplementsPlan == Plan!Spec
=============================================================================
