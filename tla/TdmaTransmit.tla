---------------------------- MODULE TdmaTransmit ----------------------------
(***************************************************************************)
(* The transmit side of BaseModel, driven by EventScheduler: a chain of    *)
(* timers, each armed by the handler of the one before, that walks the     *)
(* transmit slots of the schedule in force.                                *)
(*                                                                         *)
(* The MAC runs on one thread: events, fired timers and packets are queued *)
(* to it and handled one at a time, so a fired timer may wait while time   *)
(* passes and a new schedule is taken, and can then no longer be cancelled.*)
(* Only inside getDstByMaxWeight does a handler give time away: it opens a *)
(* FIFO for writing, which blocks until someone reads it.                  *)
(*                                                                         *)
(* "lastVerdict", "verdicts" and "onAir" are history: no action reads them.*)
(***************************************************************************)
EXTENDS EventScheduler

CONSTANTS
  MaxSlot,          \* bound: the last slot of the instance's time
  MaxSchedules,     \* bound: notified schedule changes
  ReaderMayLeave    \* whether the FIFO may be without a reader

ASSUME BoundsAssumption ==
  /\ MaxSlot \in Nat
  /\ MaxSchedules \in Nat
  /\ ReaderMayLeave \in BOOLEAN

VARIABLES
  \* the environment: Clock::now(), the timer service, the queued callbacks
  clock,            \* the absolute slot of Clock::now()
  timers,           \* armed timers: the schedule index bound into each, and its time
  calls,            \* fired timers waiting for the MAC thread: their schedule indexes
  initialized,      \* Utils::initialized: some pathloss event has arrived
  reader,           \* whether a process has the FIFO open for reading
  \* BaseModel::Implementation
  scheduleIndex,    \* u64ScheduleIndex_
  txSlots,          \* txSlotInfos_, by absolute index
  nextMultiFrame,   \* nextMultiFrameTime_
  pending,          \* pendingTxSlotInfo_.u64AbsoluteSlotIndex_
  timerId,          \* transmitTimedEventId_: {} for 0, else the timer it names
  foi,              \* frequencies_ and u64BandwidthHz_, as last told to the radio
  \* the handler in progress
  pc,               \* "idle", "send", "open" or "find"
  nowSlot,          \* nowSlotInfo.u64AbsoluteSlotIndex_
  \* history
  from,             \* the slot the current schedule's first request started at
  verdicts,         \* the slots of the current schedule given a status
  lastVerdict,      \* the last slot of any schedule given a status
  onAir             \* the last transmission: its slot, and when it left

envVars == <<clock, timers, calls, initialized, reader>>
macVars == <<scheduleIndex, txSlots, nextMultiFrame, pending, timerId, foi>>
runVars == <<pc, nowSlot>>
historyVars == <<from, verdicts, lastVerdict, onAir>>
vars == <<schedVars, envVars, macVars, runVars, historyVars>>

Nothing == [slot |-> 0, at |-> 0]

Init ==
  /\ SchedInit
  /\ clock = 0 /\ timers = {} /\ calls = <<>>
  /\ initialized = FALSE /\ reader = TRUE
  /\ scheduleIndex = 0 /\ txSlots = {} /\ nextMultiFrame = 0 /\ pending = 0
  /\ timerId = {} /\ foi = [freqs |-> {}, bandwidth |-> 0]
  /\ pc = "idle" /\ nowSlot = 0
  /\ from = 0 /\ verdicts = {} /\ lastVerdict = 0 /\ onAir = Nothing

First(slots) == CHOOSE a \in slots : \A b \in slots : a <= b

\* Mutant: the index is incremented once more as it is bound.
TimerOfNextIndex(index, slot) == [index |-> index + 1, at |-> slot]

Timer(index, slot) == [index |-> index, at |-> slot]

-----------------------------------------------------------------------------
(* notifyScheduleChange                                                    *)

\* Mutant: no timer while an id is held, though its timer may have fired or been cancelled.
StartChainUnlessHeld(index, slots, armed) ==
  /\ txSlots' = slots \ {First(slots)}
  /\ pending' = First(slots)
  /\ timers' = armed \cup IF timerId = {} THEN {Timer(index, First(slots))} ELSE {}
  /\ timerId' = {Timer(index, First(slots))}

\* pending' is the first transmit slot, and a timer is armed for it, when the new
\* schedule has any.  cancelTimedEvent does nothing to a timer that has fired.
StartChain(index, slots, armed) ==
  /\ txSlots' = slots \ {First(slots)}
  /\ pending' = First(slots)
  /\ timers' = armed \cup {Timer(index, First(slots))}
  /\ timerId' = {Timer(index, First(slots))}

NoChain(armed) ==
  /\ txSlots' = {}
  /\ timers' = armed
  /\ timerId' = {}
  /\ UNCHANGED pending

\* Mutant: told only when the bandwidth and the frequencies both differ.
FrequencyOfInterestBoth(s) ==
  IF foi.bandwidth # s.structure.bandwidth /\ foi.freqs # s.freqs
  THEN [freqs |-> s.freqs, bandwidth |-> s.structure.bandwidth]
  ELSE foi

\* The radio is told the frequencies of interest when something about them changed.
FrequencyOfInterest(s) ==
  IF foi.bandwidth # s.structure.bandwidth \/ foi.freqs # s.freqs
  THEN [freqs |-> s.freqs, bandwidth |-> s.structure.bandwidth]
  ELSE foi

\* The scheduler's new state, as the notification finds it, is s.
NotifyScheduleChange(s) ==
  LET request == TxSlotInfo(s, clock)
      index == scheduleIndex + 1
  IN
  /\ scheduleIndex' = index
  /\ foi' = FrequencyOfInterest(s)
  /\ nextMultiFrame' = request.next
  /\ IF request.slots = {} THEN NoChain(timers \ timerId)
     ELSE StartChain(index, request.slots, timers \ timerId)
  /\ from' = IF Empty(s) THEN 0 ELSE RequestSlot(s, clock)
  /\ verdicts' = {}
  /\ UNCHANGED <<clock, calls, initialized, reader, runVars, lastVerdict, onAir>>

\* A schedule event reaches the MAC thread.
ReceiveSchedule(e) ==
  /\ pc = "idle"
  /\ scheduleIndex < MaxSchedules
  /\ ProcessEvent(e)
  /\ LET r == Response(sched, e) IN
     IF r.notify THEN NotifyScheduleChange(r.sched)
     ELSE UNCHANGED <<envVars, macVars, runVars, historyVars>>

-----------------------------------------------------------------------------
(* processTxOpportunity                                                    *)

\* The slot in hand is given its TX_GOOD or TX_MISSED status.
Verdict(slot) ==
  /\ verdicts' = verdicts \cup {slot}
  /\ lastVerdict' = slot

\* Mutant: requested for the present time, not for where the list ended.
RefillFromNow(slots) ==
  LET request == TxSlotInfo(sched, clock) IN
  IF slots = {}
  THEN txSlots' = request.slots /\ nextMultiFrame' = request.next
  ELSE txSlots' = slots /\ UNCHANGED nextMultiFrame

\* "request more slots" once the list in hand is empty.
Refill(slots) ==
  LET request == TxSlotInfo(sched, nextMultiFrame) IN
  IF slots = {}
  THEN txSlots' = request.slots /\ nextMultiFrame' = request.next
  ELSE txSlots' = slots /\ UNCHANGED nextMultiFrame

\* Mutant: every callback is taken for one of the schedule in force.
AnyCallback(index) == TRUE

CurrentCallback(index) == index = scheduleIndex

\* Mutant: a slot that has gone by is still used.
PresentOrPast(slot, now) == slot <= now

Present(slot, now) == slot = now

\* A callback bound before the schedule changed is disregarded.
DisregardOldOpportunity ==
  /\ pc = "idle" /\ calls # <<>>
  /\ ~CurrentCallback(Head(calls))
  /\ calls' = Tail(calls)
  /\ UNCHANGED <<schedVars, clock, timers, initialized, reader, macVars, runVars, historyVars>>

\* The handler reads the clock once, and either turns to its slot or finds it missed.
ProcessTxOpportunity ==
  /\ pc = "idle" /\ calls # <<>>
  /\ CurrentCallback(Head(calls))
  /\ calls' = Tail(calls)
  /\ nowSlot' = SlotIndexAt(sched, clock)
  /\ IF Present(pending, nowSlot')
     THEN /\ pc' = "send"
          /\ UNCHANGED <<txSlots, nextMultiFrame, verdicts, lastVerdict>>
     ELSE /\ pc' = "find"
          /\ Verdict(pending)
          /\ Refill(txSlots)
  /\ UNCHANGED <<schedVars, clock, timers, initialized, reader, scheduleIndex, pending,
                 timerId, foi, from, onAir>>

\* sendDownstreamPacket for the slot in hand.  With nothing queued no packet leaves, and
\* the slot is TX_GOOD all the same.  Its error path, without a status, is for a queue
\* that returns more than the slot holds: the queue, asked for at most that, does not.
SendDownstreamPacket ==
  /\ pc' = "find"
  /\ Verdict(pending)
  /\ Refill(txSlots)
  /\ \E empty \in BOOLEAN :
       onAir' = IF empty THEN onAir ELSE [slot |-> pending, at |-> clock]
  /\ UNCHANGED <<schedVars, envVars, scheduleIndex, pending, timerId, foi, nowSlot, from>>

\* getDstByMaxWeight finds its destination without waiting: no pathloss is known yet, the
\* broadcast backlog takes the slot, or there is no FIFO file and open() fails at once.
SendAtOnce ==
  /\ pc = "send"
  /\ SendDownstreamPacket

\* It opens the FIFO to report the weights ...
OpenFifo ==
  /\ pc = "send" /\ initialized
  /\ pc' = "open"
  /\ UNCHANGED <<schedVars, envVars, macVars, nowSlot, historyVars>>

\* ... and goes on when a reader has it open.
SendOnceRead ==
  /\ pc = "open" /\ reader
  /\ SendDownstreamPacket

\* One turn of the loop that looks for the next opportunity.  Having armed the timer it
\* leaves the inner loop only: a list that is now empty is refilled all the same.
ArmNextOpportunity ==
  /\ pc = "find" /\ txSlots # {}
  /\ First(txSlots) > nowSlot
  /\ pending' = First(txSlots)
  /\ Refill(txSlots \ {First(txSlots)})
  /\ timers' = timers \cup {Timer(scheduleIndex, First(txSlots))}
  /\ timerId' = {Timer(scheduleIndex, First(txSlots))}
  /\ pc' = "idle"
  /\ UNCHANGED <<schedVars, clock, calls, initialized, reader, scheduleIndex, foi, nowSlot,
                 historyVars>>

MissOpportunity ==
  /\ pc = "find" /\ txSlots # {}
  /\ First(txSlots) < nowSlot
  /\ pending' = First(txSlots)
  /\ Verdict(First(txSlots))
  /\ Refill(txSlots \ {First(txSlots)})
  /\ UNCHANGED <<schedVars, envVars, scheduleIndex, timerId, foi, runVars, from, onAir>>

TakeOpportunity ==
  /\ pc = "find" /\ txSlots # {}
  /\ Present(First(txSlots), nowSlot)
  /\ pending' = First(txSlots)
  /\ txSlots' = txSlots \ {First(txSlots)}
  /\ pc' = "send"
  /\ UNCHANGED <<schedVars, envVars, scheduleIndex, nextMultiFrame, timerId, foi,
                 nowSlot, historyVars>>

-----------------------------------------------------------------------------
(* The environment                                                         *)

\* The timer service queues a due timer's callback to the MAC thread.
FireTimer(t) ==
  /\ t.at <= clock
  /\ timers' = timers \ {t}
  /\ calls' = Append(calls, t.index)
  /\ UNCHANGED <<schedVars, clock, initialized, reader, macVars, runVars, historyVars>>

\* Time passes between handlers, and inside one only while it is blocked.
Tick ==
  /\ clock < MaxSlot
  /\ pc = "idle" \/ (pc = "open" /\ ~reader)
  /\ clock' = clock + 1
  /\ UNCHANGED <<schedVars, timers, calls, initialized, reader, macVars, runVars, historyVars>>

\* FrameworkPHY::processEvent takes the first pathloss event, on its own thread.
LearnPathloss ==
  /\ ~initialized
  /\ initialized' = TRUE
  /\ UNCHANGED <<schedVars, clock, timers, calls, reader, macVars, runVars, historyVars>>

ReaderLeaves ==
  /\ ReaderMayLeave /\ reader
  /\ reader' = FALSE
  /\ UNCHANGED <<schedVars, clock, timers, calls, initialized, macVars, runVars, historyVars>>

ReaderReturns ==
  /\ ~reader
  /\ reader' = TRUE
  /\ UNCHANGED <<schedVars, clock, timers, calls, initialized, macVars, runVars, historyVars>>

\* Bound: nothing more happens once the instance's time is over.
Horizon ==
  /\ clock = MaxSlot /\ pc = "idle"
  /\ UNCHANGED vars

Handle ==
  \/ DisregardOldOpportunity
  \/ ProcessTxOpportunity
  \/ SendAtOnce
  \/ OpenFifo
  \/ SendOnceRead
  \/ ArmNextOpportunity
  \/ MissOpportunity
  \/ TakeOpportunity

Next ==
  \/ \E e \in ScheduleEvents : ReceiveSchedule(e)
  \/ Handle
  \/ \E t \in timers : FireTimer(t)
  \/ Tick
  \/ LearnPathloss
  \/ ReaderLeaves
  \/ ReaderReturns
  \/ Horizon

Spec == Init /\ [][Next]_vars

\* The MAC thread serves its queue, due timers fire and time passes.  That a reader
\* comes back is the operator's part (the mgen process of the emulated node), and is
\* assumed: nothing in the code bounds how long open() blocks.
Fairness ==
  /\ WF_vars(DisregardOldOpportunity) /\ WF_vars(ProcessTxOpportunity)
  /\ WF_vars(SendAtOnce \/ OpenFifo) /\ SF_vars(SendOnceRead)
  /\ WF_vars(ArmNextOpportunity) /\ WF_vars(MissOpportunity) /\ WF_vars(TakeOpportunity)
  /\ WF_vars(\E t \in timers : FireTimer(t))
  /\ WF_vars(Tick)
  /\ WF_vars(ReaderReturns)

FairSpec == Spec /\ Fairness

-----------------------------------------------------------------------------
(* Properties                                                              *)

Transmits(s) == \E k \in DOMAIN s.slots : s.slots[k].type = "tx"

IsTransmit(s, a) == ~Empty(s) /\ InfoAt(s, a).type = "tx"

\* The transmit slots of the schedule in force from one slot up to another.
Opportunities(lo, hi) == {a \in lo..(hi - 1) : IsTransmit(sched, a)}

\* What the MAC holds that has no status yet: the slot in hand and the list.
Remaining == txSlots \cup (IF Transmits(sched) /\ pc # "find" THEN {pending} ELSE {})

Armed == {t \in timers : t.index = scheduleIndex}

Due == {i \in DOMAIN calls : calls[i] = scheduleIndex}

\* The MAC's and the environment's state is well typed.
TypeOK ==
  /\ SchedTypeOK
  /\ clock \in 0..MaxSlot
  /\ timers \subseteq [index : 0..MaxSchedules, at : Nat]
  /\ calls \in Seq(0..MaxSchedules)
  /\ initialized \in BOOLEAN /\ reader \in BOOLEAN
  /\ scheduleIndex \in 0..MaxSchedules
  /\ txSlots \subseteq Nat /\ nextMultiFrame \in Nat /\ pending \in Nat
  /\ timerId \subseteq [index : 0..MaxSchedules, at : Nat]
  /\ foi.freqs \subseteq Nat /\ foi.bandwidth \in Nat
  /\ pc \in {"idle", "send", "open", "find"} /\ nowSlot \in Nat
  /\ from \in Nat /\ verdicts \subseteq Nat /\ lastVerdict \in Nat
  /\ onAir \in [slot : Nat, at : Nat]

\* While the schedule in force grants transmit slots there is exactly one live link of
\* the timer chain: one timer armed for the slot in hand, or one of its callbacks queued,
\* or its handler running with slots left to look at.  Otherwise there is none.  Timers
\* and callbacks of earlier schedules do not count (basemodelimplHB.cc:1226, :1276).
SingleChain ==
  /\ pc # "idle" => Transmits(sched) /\ Armed = {} /\ Due = {}
  /\ pc = "find" => txSlots # {}
  /\ pc = "idle" =>
       IF Transmits(sched)
       THEN \/ Armed = {Timer(scheduleIndex, pending)} /\ Due = {}
            \/ Armed = {} /\ \E i \in DOMAIN calls : Due = {i}
       ELSE Armed = {} /\ Due = {}

\* The slots given a status and those still held are together exactly the transmit slots
\* of the schedule in force since its first multiframe: none is forgotten, whatever the
\* delay of the callback, and the ones with a status come before the ones without.
EveryOpportunityAccounted ==
  Transmits(sched) =>
    /\ verdicts \cup Remaining = Opportunities(from, nextMultiFrame)
    /\ \A a \in verdicts, b \in Remaining : a < b

\* No slot held for a status had one before, under this schedule or an earlier one: a
\* schedule change never brings back a slot that was already used.
NoSecondVerdict == \A a \in Remaining : a > lastVerdict

\* The frequencies and bandwidth the radio was last told are those of the schedule in
\* force, and cover each of its slots, whichever events were refused in between.
RadioKnowsFrequencies ==
  /\ Announced(sched.slots, foi.freqs)
  /\ foi = [freqs |-> sched.freqs, bandwidth |-> sched.structure.bandwidth]

\* A transmission is made in a slot the schedule in force grants, one later than that of
\* every earlier transmission, and never before its slot has come.
TransmitsBySchedule ==
  [][onAir' # onAir => /\ IsTransmit(sched, onAir'.slot)
                       /\ onAir'.slot > onAir.slot
                       /\ onAir'.slot <= clock]_vars

\* When the handler turns to a slot, that slot is the present one, even at the end of a
\* backlog of missed ones; only the FIFO can make it late after that.
TurnsToPresentSlot == pc = "send" => pending = clock

\* A transmission leaves in its own slot: "transmit in this slot" says the comment at
\* basemodelimplHB.cc:1251.
SentInSlot == onAir.at = onAir.slot

\* Every transmit slot the MAC holds gets its status in the end, unless a new schedule
\* is notified first: the chain of timers never stops by itself.
OpportunityServed ==
  \A a \in 1..MaxSlot, i \in 1..MaxSchedules :
    (scheduleIndex = i /\ a \in Remaining) ~> (scheduleIndex # i \/ a \in verdicts)
=============================================================================
