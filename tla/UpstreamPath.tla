---------------------------- MODULE UpstreamPath ----------------------------
(***************************************************************************)
(* The way of a received packet through a node: FrameworkPHY hears it on   *)
(* its thread and queues it to the MAC, whose classifier compares it with  *)
(* the schedule in force when it is handled, and hands it to reassembly or *)
(* drops it.  The schedule's frequencies go the other way, in control      *)
(* messages that wait in the queue of the PHY's thread.                    *)
(***************************************************************************)
EXTENDS EventScheduler, FrameworkPHY

CONSTANTS
  MaxSlot,              \* bound: the last slot of the instance's time
  MaxSchedules,         \* bound: notified schedule changes
  Packets,              \* bound: the packets that other nodes send
  Sender,               \* the node they are of
  Transmissions,        \* what they may be: frequency, whether they spill, their form
  SyncSlots,            \* timeSyncThreshold_, in slots
  ScheduleFrequencies,  \* the frequencies and bandwidths of the schedule events
  ScheduleBandwidths

\* What a schedule may have the radio told; nothing is {} and 0.
Settings == [freqs : SUBSET ScheduleFrequencies, bandwidth : ScheduleBandwidths \cup {0}]

NoSettings == [freqs |-> {}, bandwidth |-> 0]

\* Whether the MAC header, then the length prefix, is as expected.
Forms == {"ok", "foreign", "badLength"}

\* The header of a packet on a frequency.
HeaderOn(freq) ==
  [inBand |-> TRUE, fixedGain |-> TRUE, bandwidth |-> 1, transmitters |-> <<Sender>>,
   segments |-> <<freq>>]

ASSUME PathAssumption ==
  /\ MaxSlot \in Nat /\ MaxSchedules \in Nat /\ SyncSlots \in Nat
  /\ Sender \in Nodes
  /\ Transmissions \subseteq [freq : Nat, spills : BOOLEAN, form : Forms]
  /\ \A t \in Transmissions : HeaderOn(t.freq) \in Headers
  /\ ScheduleFrequencies \subseteq Nat /\ ScheduleBandwidths \subseteq Nat
  /\ Settings \subseteq ControlFois
  /\ \A e \in ScheduleEvents :
       /\ e.freqs \subseteq ScheduleFrequencies
       /\ e.kind = "full" => e.structure.bandwidth \in ScheduleBandwidths

VARIABLES
  clock,      \* the absolute slot of Clock::now()
  notified,   \* schedule changes notified, for the bound
  told,       \* frequencies_ and u64BandwidthHz_, as last told to the radio
  toPhy,      \* frequency of interest messages in the queue of the PHY's thread
  toMac,      \* packets in the queue of the MAC's thread
  packet      \* the packets by name: what was sent, and where it is

pathVars == <<clock, notified, told, toPhy, toMac, packet>>

vars == <<schedVars, phyVars, pathVars>>

Unsent == [stage |-> "unsent", slot |-> 0, freq |-> 0, spills |-> FALSE, form |-> "ok"]

Sent(slot, t) ==
  [stage |-> "air", slot |-> slot, freq |-> t.freq, spills |-> t.spills, form |-> t.form]

Init ==
  /\ SchedInit
  /\ PhyInit
  /\ clock = 1 /\ notified = 0 /\ told = NoSettings
  /\ toPhy = <<>> /\ toMac = <<>>
  /\ packet = [p \in Packets |-> Unsent]

\* A packet comes to rest: all that is kept of it is what became of it.
Rests(p, stage) == packet' = [packet EXCEPT ![p] = [Unsent EXCEPT !.stage = stage]]

-----------------------------------------------------------------------------
(* Another node transmits in its slot; its clock may be ahead of this      *)
(* node's.  A packet that spills ends in the slot after its own.           *)
Transmit(p) ==
  /\ packet[p].stage = "unsent"
  /\ \E slot \in {clock, clock + 1}, t \in Transmissions :
       packet' = [packet EXCEPT ![p] = Sent(slot, t)]
  /\ UNCHANGED <<schedVars, phyVars, clock, notified, told, toPhy, toMac>>

-----------------------------------------------------------------------------
(* FrameworkPHY's thread                                                   *)

\* "sot": the start of reception is rewritten to the present when the packet is late by
\* more than the threshold.
Rewritten(m) == clock > m.slot + SyncSlots

\* The slots the reception may be said to start and to end in.
Receivals(p) ==
  LET m == packet[p] IN
  IF Rewritten(m) THEN {[packet |-> p, sot |-> clock, eor |-> e] : e \in {clock, clock + 1}}
  ELSE {[packet |-> p, sot |-> m.slot, eor |-> IF m.spills THEN m.slot + 1 ELSE m.slot]}

FinalCode(r) == (CHOOSE c \in r.counted : \A d \in r.counted : d.at <= c.at).code

PhyHearsPacket(p) ==
  /\ packet[p].stage = "air"
  /\ ProcessUpstreamPacket(HeaderOn(packet[p].freq))
  /\ IF Passed(heard')
     THEN /\ packet' = [packet EXCEPT ![p].stage = "queued"]
          /\ \E r \in Receivals(p) : toMac' = Append(toMac, r)
     ELSE Rests(p, FinalCode(heard')) /\ UNCHANGED toMac
  /\ UNCHANGED <<schedVars, clock, notified, told, toPhy>>

PhyHearsControl ==
  /\ toPhy # <<>>
  /\ ControlFrequencyOfInterest(Head(toPhy))
  /\ toPhy' = Tail(toPhy)
  /\ UNCHANGED <<schedVars, clock, notified, told, toMac, packet>>

PhyLearns ==
  /\ \E nodes \in EventNodes : PathlossEvent(nodes)
  /\ UNCHANGED <<schedVars, pathVars>>

-----------------------------------------------------------------------------
(* The MAC's thread: a schedule event, with the part of                    *)
(* notifyScheduleChange that concerns the radio.                           *)

SettingsOf(s) == [freqs |-> s.freqs, bandwidth |-> s.structure.bandwidth]

\* Mutant: the message is sent, but not remembered.
TellNotRemembered(settings) ==
  /\ toPhy' = IF settings # told THEN Append(toPhy, settings) ELSE toPhy
  /\ UNCHANGED told

\* "only required if freq set/bandwidth differs from existing"
Tell(settings) ==
  /\ toPhy' = IF settings # told THEN Append(toPhy, settings) ELSE toPhy
  /\ told' = settings

ReceiveSchedule(e) ==
  /\ notified < MaxSchedules
  /\ ProcessEvent(e)
  /\ LET r == Response(sched, e) IN
     IF r.notify THEN Tell(SettingsOf(r.sched)) /\ notified' = notified + 1
     ELSE UNCHANGED <<told, toPhy, notified>>
  /\ UNCHANGED <<phyVars, clock, toMac, packet>>

-----------------------------------------------------------------------------
(* The MAC's thread: processUpstreamPacket.  The PHY gives every packet    *)
(* both of its control messages, so that it drops none for lack of them.   *)

\* Mutant: the packet stays in the queue.
JudgeInPlace(stage) ==
  /\ Rests(Head(toMac).packet, stage)
  /\ UNCHANGED <<schedVars, phyVars, clock, notified, told, toPhy, toMac>>

\* The packet at the head of the queue is judged.
Judge(stage) ==
  /\ Rests(Head(toMac).packet, stage)
  /\ toMac' = Tail(toMac)
  /\ UNCHANGED <<schedVars, phyVars, clock, notified, told, toPhy>>

InHand == packet[Head(toMac).packet]

DropForeign ==
  /\ toMac # <<>>
  /\ InHand.form = "foreign"
  /\ Judge("registration")

\* Only logged.
IgnoreBadLength ==
  /\ toMac # <<>>
  /\ InHand.form = "badLength"
  /\ Judge("badLength")

\* "if EOR slot does not match the SOT slot drop the packet": the slot it is compared
\* with is the one the message names.
TooLong == SlotIndexAt(sched, Head(toMac).eor) # InHand.slot

DropTooLong ==
  /\ toMac # <<>>
  /\ InHand.form = "ok" /\ TooLong
  /\ Judge("tooLong")

\* The packet's slot is the present one.
Timely == toMac # <<>> /\ InHand.form = "ok" /\ ~TooLong /\ SlotIndexAt(sched, clock) = InHand.slot

\* Mutant: any slot that is not idle is one to receive in.
ReceivingUnlessIdle == InfoAt(sched, clock).type # "idle"

\* getRxSlotInfo: whether the present slot is one to receive in.
Receiving == InfoAt(sched, clock).type = "rx"

Tuned == InfoAt(sched, clock).freq = InHand.freq

\* RX_GOOD, and the packet is handed to the receive manager.
EnqueueForReassembly ==
  /\ Timely /\ Receiving /\ Tuned
  /\ Judge("good")

DropWrongFrequency ==
  /\ Timely /\ Receiving /\ ~Tuned
  /\ Judge("wrongFrequency")

\* RX_IDLE or RX_TX.
DropSlotNotRx ==
  /\ Timely /\ ~Receiving
  /\ Judge("slotNotRx")

\* The packet's slot is not the present one: what counts as its slot's type is that of
\* the present slot.
Untimely == toMac # <<>> /\ InHand.form = "ok" /\ ~TooLong /\ SlotIndexAt(sched, clock) # InHand.slot

DropMissed ==
  /\ Untimely /\ InfoAt(sched, clock).type = "rx"
  /\ Judge("missed")

\* Mutant: no branch for a slot to transmit in.
DropMismatchIdle ==
  /\ Untimely /\ InfoAt(sched, clock).type = "idle"
  /\ Judge("mismatchNotRx")

DropMismatchNotRx ==
  /\ Untimely /\ InfoAt(sched, clock).type # "rx"
  /\ Judge("mismatchNotRx")

MacHearsPacket ==
  \/ DropForeign
  \/ IgnoreBadLength
  \/ DropTooLong
  \/ EnqueueForReassembly
  \/ DropWrongFrequency
  \/ DropSlotNotRx
  \/ DropMissed
  \/ DropMismatchNotRx

-----------------------------------------------------------------------------
Tick ==
  /\ clock < MaxSlot
  /\ clock' = clock + 1
  /\ UNCHANGED <<schedVars, phyVars, notified, told, toPhy, toMac, packet>>

\* Bound: nothing more happens once all packets are judged and the time is over.
Horizon == clock = MaxSlot /\ UNCHANGED vars

Next ==
  \/ \E p \in Packets : Transmit(p) \/ PhyHearsPacket(p)
  \/ PhyHearsControl
  \/ PhyLearns
  \/ \E e \in ScheduleEvents : ReceiveSchedule(e)
  \/ MacHearsPacket
  \/ Tick
  \/ Horizon

Spec == Init /\ [][Next]_vars

\* The PHY's thread serves its queue and a packet on the air reaches it: that thread waits
\* for no one.
PhyThreadServes ==
  /\ \A p \in Packets : WF_vars(PhyHearsPacket(p))
  /\ WF_vars(PhyHearsControl)

\* An assumption, which the code alone does not justify: the MAC's thread serves its queue.
\* Its transmit handler may wait in open() for a reader of the FIFO
\* (basemodelimplHB.cc:1430), and nothing in the code bounds that wait.  As in TdmaTransmit,
\* it is assumed of the operator that a reader comes each time, so that every wait ends.
MacThreadServes == WF_vars(MacHearsPacket)

Fairness == PhyThreadServes /\ MacThreadServes

FairSpec == Spec /\ Fairness

-----------------------------------------------------------------------------
(* Properties                                                              *)

MacVerdicts == {"registration", "badLength", "tooLong", "good", "wrongFrequency", "slotNotRx",
                "missed", "mismatchNotRx"}

Stages == {"unsent", "air", "queued"} \cup MacVerdicts \cup (Codes \ {"pass"})

\* The state of the path is well typed.
PathTypeOK ==
  /\ SchedTypeOK
  /\ PhyTypeOK
  /\ clock \in Nat /\ notified \in Nat /\ told \in Settings
  /\ toPhy \in Seq(Settings)
  /\ toMac \in Seq([packet : Packets, sot : Nat, eor : Nat])
  /\ packet \in [Packets -> [stage : Stages, slot : Nat, freq : Nat, spills : BOOLEAN,
                             form : Forms]]

\* What the radio is or will be tuned to, once its queue is served.
LastTold ==
  IF toPhy = <<>> THEN [freqs |-> phy.foi, bandwidth |-> phy.bandwidth]
  ELSE toPhy[Len(toPhy)]

\* The schedule's frequencies and bandwidth are on their way to the radio, or are there,
\* whatever was told before and has not arrived yet; only a node that was never told
\* anything has those it was configured with (basemodelimplHB.cc:997).
FoiOnItsWay ==
  /\ told = SettingsOf(sched)
  /\ \/ LastTold = told
     \/ /\ told = NoSettings /\ toPhy = <<>>
        /\ phy.foi = InitialFoi.freqs /\ phy.bandwidth = InitialFoi.bandwidth

\* A packet waits once in the queue to the MAC, and only while it is in that stage: no
\* packet is judged twice or forgotten between the two threads.
QueuedOnce ==
  /\ \A i, j \in DOMAIN toMac : toMac[i].packet = toMac[j].packet => i = j
  /\ \A p \in Packets :
       packet[p].stage = "queued" <=> \E i \in DOMAIN toMac : toMac[i].packet = p

\* The schedule in force has this node receive on the packet's frequency in its slot.
Scheduled(m) ==
  ~Empty(sched) /\ InfoAt(sched, m.slot).type = "rx" /\ InfoAt(sched, m.slot).freq = m.freq

\* The packet is dropped for what the radio knows and hears, not for its settings.
NotHeard == {"propagation", "gain", "fading", "clamp", "sensitivity"}

\* A packet of a slot to receive in, on its frequency, is dropped only if it is not
\* heard, malformed, not handled within its slot, ends in another, or meets a radio
\* that has yet to take its new frequencies from its queue; and only such a packet is
\* handed to reassembly (basemodelimplHB.cc:610, frameworkphyHB.cc:1254).
TakenIfDue ==
  [][\A p \in Packets :
       LET m == packet[p]
           stage == packet'[p].stage
       IN stage # m.stage =>
            /\ stage \in (MacVerdicts \ {"good"}) \cup (Codes \ {"pass"}) /\ Scheduled(m) =>
                 \/ stage \in NotHeard
                 \/ stage = "notFoi" /\ toPhy # <<>>
                 \/ m.form # "ok"
                 \/ clock # m.slot
                 \/ toMac # <<>> /\ Head(toMac).packet = p /\ Head(toMac).eor # m.slot
            /\ stage = "good" => Scheduled(m) /\ clock = m.slot]_vars

\* Every packet sent is judged in the end, by the PHY or by the MAC: none stays on the air
\* or in the queue between the two threads (basemodelimplHB.cc:442).  This rests on
\* MacThreadServes: with the MAC's thread in open() for good, the queue is not served.
EveryPacketJudged ==
  \A p \in Packets : []<>(packet[p].stage \notin {"air", "queued"})

\* The radio ends up with the settings it was told last, unless it is told others again
\* and again: no setting waits in the queue for good (basemodelimplHB.cc:1000).
\* Only PhyThreadServes is needed.
RadioRetuned ==
  \/ []<>(told \in {NoSettings, [freqs |-> phy.foi, bandwidth |-> phy.bandwidth]})
  \/ []<><<told' # told>>_vars
=============================================================================
