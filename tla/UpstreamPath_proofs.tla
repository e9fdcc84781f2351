------------------------ MODULE UpstreamPath_proofs ------------------------
(***************************************************************************)
(* Theorems about UpstreamPath, for any number of packets, of schedules    *)
(* and of slots: the radio's tuning follows the schedule, no packet is     *)
(* lost between the threads, and one that is due is dropped only for a     *)
(* reason.  A node's path is also a FrameworkPHY.                          *)
(***************************************************************************)
EXTENDS UpstreamPath, EventScheduler_proofs, FrameworkPHY_proofs

PacketShape == [stage : Stages, slot : Nat, freq : Nat, spills : BOOLEAN, form : Forms]

QueueEntry == [packet : Packets, sot : Nat, eor : Nat]

\* The path's own variables are well typed, and no packet under way is of slot 0.
PathTyped ==
  /\ clock \in Nat \ {0} /\ notified \in Nat /\ told \in Settings
  /\ toPhy \in Seq(Settings)
  /\ toMac \in Seq(QueueEntry)
  /\ packet \in [Packets -> PacketShape]
  /\ \A p \in Packets : packet[p].stage \in {"air", "queued"} =>
       /\ packet[p].slot # 0
       /\ HeaderOn(packet[p].freq) \in Headers

PathInv == SchedInv /\ PhyTypeOK /\ PathTyped /\ FoiOnItsWay /\ QueuedOnce

-----------------------------------------------------------------------------
(* The packets                                                             *)

LEMMA UnsentShape == \A stage \in Stages : [Unsent EXCEPT !.stage = stage] \in PacketShape
BY DEF Unsent, PacketShape, Forms

LEMMA StageFacts ==
  /\ \A c \in Codes \ {"pass"} : c \in Stages /\ c \notin {"air", "queued", "unsent", "good"}
  /\ \A c \in MacVerdicts : c \in Stages /\ c \notin {"air", "queued", "unsent"}
BY DEF Codes, MacVerdicts, Stages

\* A packet that comes to rest leaves the others as they are.
LEMMA RestsTyped ==
  ASSUME PathTyped, NEW p \in Packets, NEW stage \in Stages \ {"air", "queued"},
         Rests(p, stage)
  PROVE  /\ packet' \in [Packets -> PacketShape]
         /\ packet'[p].stage = stage
         /\ \A q \in Packets : q # p => packet'[q] = packet[q]
         /\ \A q \in Packets : packet'[q].stage \in {"air", "queued"} =>
              /\ packet'[q].slot # 0
              /\ HeaderOn(packet'[q].freq) \in Headers
<1>1. packet' = [packet EXCEPT ![p] = [Unsent EXCEPT !.stage = stage]]
  BY DEF Rests
<1>2. [Unsent EXCEPT !.stage = stage] \in PacketShape /\ [Unsent EXCEPT !.stage = stage].stage = stage
  BY UnsentShape DEF Unsent
<1>3. packet \in [Packets -> PacketShape]
  BY DEF PathTyped
<1>4. packet'[p].stage = stage /\ \A q \in Packets : q # p => packet'[q] = packet[q]
  BY <1>1, <1>2, <1>3
<1>5. packet' \in [Packets -> PacketShape]
  BY <1>1, <1>2, <1>3
<1> QED
  BY <1>4, <1>5 DEF PathTyped

\* What FrameworkPHY counts a packet of one transmitter as: one code.
LEMMA OneTransmitter ==
  ASSUME NEW freq, HeaderOn(freq) \in Headers, NEW gains, NEW faded, NEW spectrum
  PROVE  \E c \in [at : Nat, code : Codes] :
           Counted(phy, HeaderOn(freq), gains, faded, spectrum) = {c}
<1> DEFINE h == HeaderOn(freq)
           D == Drops(phy, h, gains, faded)
<1>1. DOMAIN h.transmitters = {1}
  BY DEF HeaderOn
<1>2. D \subseteq {1}
  BY <1>1 DEF Drops, Examined
<1>3. /\ Counted(phy, h, gains, faded, spectrum) # {}
      /\ Counted(phy, h, gains, faded, spectrum) \subseteq [at : Nat, code : Codes]
  BY CountedFacts
<1>4. CASE ~h.inBand /\ NoiseMode = "none"
  <2>1. Counted(phy, h, gains, faded, spectrum) = {[at |-> 0, code |-> "outOfBand"]}
    BY <1>4 DEF Counted
  <2> QED
    BY <2>1, <1>3
<1>5. CASE ~(~h.inBand /\ NoiseMode = "none") /\ D # {}
  <2>1. Counted(phy, h, gains, faded, spectrum) =
          {[at |-> i, code |-> LoopCode(phy, h, gains, i)] : i \in D}
    BY <1>5 DEF Counted
  <2>2. D = {1}
    BY <1>2, <1>5
  <2>3. Counted(phy, h, gains, faded, spectrum) = {[at |-> 1, code |-> LoopCode(phy, h, gains, 1)]}
    BY <2>1, <2>2
  <2> QED
    BY <2>3, <1>3
<1>6. CASE ~(~h.inBand /\ NoiseMode = "none") /\ D = {}
  <2>1. Counted(phy, h, gains, faded, spectrum) =
          {[at |-> 0, code |-> Verdict(phy, h, spectrum)]}
    BY <1>6 DEF Counted
  <2> QED
    BY <2>1, <1>3
<1> QED
  BY <1>4, <1>5, <1>6

\* The verdict on a packet that is not passed on, and what "notFoi" says of it.
LEMMA FinalFacts ==
  ASSUME NEW freq, HeaderOn(freq) \in Headers, ProcessUpstreamPacket(HeaderOn(freq))
  PROVE  /\ ~Passed(heard') => FinalCode(heard') \in Codes \ {"pass"}
         /\ FinalCode(heard') # "outOfBand"
         /\ FinalCode(heard') = "notFoi" => freq \notin phy.foi
<1> DEFINE h == HeaderOn(freq)
<1>1. PICK gains, faded, spectrum : heard' = Reception(phy, h, gains, faded, spectrum)
  BY DEF ProcessUpstreamPacket, Receptions
<1>2. PICK c \in [at : Nat, code : Codes] :
        Counted(phy, h, gains, faded, spectrum) = {c}
  BY OneTransmitter
<1>3. heard'.counted = {c}
  BY <1>1, <1>2 DEF Reception
<1>4. FinalCode(heard') = c.code
  BY <1>3 DEF FinalCode
<1>5. h.inBand /\ DOMAIN h.segments = {1} /\ h.segments[1] = freq
  BY DEF HeaderOn
<1>6. \/ c.code \in {"propagation", "gain", "fading"}
      \/ c.code = Verdict(phy, h, spectrum)
  <2>1. CASE Drops(phy, h, gains, faded) # {}
    <3>1. c \in {[at |-> i, code |-> LoopCode(phy, h, gains, i)] :
                   i \in Drops(phy, h, gains, faded)}
      BY <1>2, <1>5, <2>1 DEF Counted
    <3> QED
      BY <3>1 DEF LoopCode
  <2>2. CASE Drops(phy, h, gains, faded) = {}
    <3>1. c \in {[at |-> 0, code |-> Verdict(phy, h, spectrum)]}
      BY <1>2, <1>5, <2>2 DEF Counted
    <3> QED
      BY <3>1
  <2> QED
    BY <2>1, <2>2
<1>7. Verdict(phy, h, spectrum) # "outOfBand"
  BY <1>5 DEF Verdict
<1>8. Verdict(phy, h, spectrum) = "notFoi" => freq \notin phy.foi
  BY <1>5 DEF Verdict, TreatAsInBand
<1>9. ~Passed(heard') => c.code # "pass"
  BY <1>3 DEF Passed
<1> QED
  BY <1>2, <1>4, <1>6, <1>7, <1>8, <1>9 DEF Codes

-----------------------------------------------------------------------------
(* The schedule                                                            *)

LEMMA NoSettingsTyped == NoSettings \in Settings
BY DEF NoSettings, Settings

\* A schedule change stays within the frequencies and bandwidths of the events.
LEMMA ResponseSettings ==
  ASSUME Sound(sched), SettingsOf(sched) \in Settings, NEW e \in ScheduleEvents
  PROVE  SettingsOf(Response(sched, e).sched) \in Settings
<1>1. DecodedEvent(e)
  BY EventsAssumption
<1>2. e.freqs \subseteq ScheduleFrequencies
  BY PathAssumption
<1>3. e.kind \in {"full", "exception", "update"}
  BY <1>1 DEF DecodedEvent
<1>4. CASE e.kind = "full"
  <2>1. Response(sched, e).sched = Replaced(sched, e)
    BY <1>4 DEF Response
  <2>2. e.structure.bandwidth \in ScheduleBandwidths
    BY <1>4, PathAssumption
  <2> QED
    BY <1>2, <2>1, <2>2 DEF Replaced, SettingsOf, Settings
<1>5. ASSUME Response(sched, e).sched = Flushed(sched)
      PROVE  SettingsOf(Response(sched, e).sched) \in Settings
  <2>1. SettingsOf(Flushed(sched)) = NoSettings
    BY DEF Flushed, NoSchedule, NoStructure, SettingsOf, NoSettings
  <2> QED
    BY <1>5, <2>1, NoSettingsTyped
<1>6. CASE e.kind = "exception"
  <2>1. Response(sched, e).sched = Flushed(sched)
    BY <1>6 DEF Response
  <2> QED
    BY <2>1, <1>5
<1>7. CASE e.kind = "update" /\ Empty(sched)
  <2>1. Response(sched, e).sched = sched
    BY <1>7 DEF Response
  <2> QED
    BY <2>1
<1>8. CASE e.kind = "update" /\ ~Empty(sched) /\ Rejected(sched, e) # {}
  <2>1. Response(sched, e).sched = Flushed(sched)
    BY <1>8 DEF Response
  <2> QED
    BY <2>1, <1>5
<1>9. CASE e.kind = "update" /\ ~Empty(sched) /\ Rejected(sched, e) = {}
  <2>1. Response(sched, e).sched = Updated(sched, e)
    BY <1>9 DEF Response
  <2>2. /\ Updated(sched, e).structure = sched.structure
        /\ Updated(sched, e).freqs = sched.freqs \cup e.freqs
    BY DEF Updated, Sound
  <2> QED
    BY <1>2, <2>1, <2>2 DEF SettingsOf, Settings
<1> QED
  BY <1>3, <1>4, <1>6, <1>7, <1>8, <1>9

\* The frame and slot of an absolute slot are within the multiframe.
LEMMA CellInRange ==
  ASSUME NEW F \in Nat, NEW S \in Nat, F > 0, S > 0, NEW a \in Nat
  PROVE  (a \div S) % F \in 0..(F - 1) /\ a % S \in 0..(S - 1)
<1>1. a \div S \in Nat /\ a % S \in 0..(S - 1)
  OBVIOUS
<1> QED
  BY <1>1

\* A schedule that is not empty has an entry for every absolute slot.
LEMMA EntryExists ==
  ASSUME NEW s, Sound(s), ~Empty(s), NEW a \in Nat
  PROVE  RelativeIndex(s, a) \in DOMAIN s.slots
<1>1. PICK F \in Nat : s.structure.frames = F
  BY DEF Sound, Structures
<1>2. PICK S \in Nat : s.structure.slots = S
  BY DEF Sound, Structures
<1>3. DOMAIN s.slots = 0..(F * S - 1)
  BY <1>1, <1>2 DEF Sound, NumSlots
<1>4. F > 0 /\ S > 0
  <2>1. 0..(F * S - 1) # {}
    BY <1>3 DEF Empty
  <2> QED
    BY <2>1
<1>5. PICK f \in 0..(F - 1) : f = (a \div S) % F
  BY <1>4, CellInRange
<1>6. PICK t \in 0..(S - 1) : t = a % S
  BY <1>4, CellInRange
<1>7. s.slotter.frames = F /\ s.slotter.slots = S
  BY <1>1, <1>2 DEF Sound, SlotterReset
<1>8. RelativeFrame(s.slotter, a) = f /\ RelativeSlot(s.slotter, a) = t
  BY <1>5, <1>6, <1>7, Zenon DEF RelativeFrame, RelativeSlot
<1>9. RelativeIndex(s, a) = f * S + t
  BY <1>2, <1>8, Zenon DEF RelativeIndex
<1>10. f * S + t \in 0..(F * S - 1)
  BY IndexInRange
<1> QED
  BY <1>3, <1>9, <1>10

\* The radio has been told the frequency of every slot to receive in, or will be once
\* its queue is served.
LEMMA ScheduledIsTuned ==
  ASSUME SchedInv, FoiOnItsWay, NEW m, m.slot \in Nat, Scheduled(m), toPhy = <<>>
  PROVE  m.freq \in phy.foi
<1>1. Sound(sched)
  BY DEF SchedInv
<1>2. ~Empty(sched) /\ InfoAt(sched, m.slot).type = "rx" /\ InfoAt(sched, m.slot).freq = m.freq
  BY DEF Scheduled
<1>3. RelativeIndex(sched, m.slot) \in DOMAIN sched.slots
  BY <1>1, <1>2, EntryExists
<1>4. m.freq \in sched.freqs
  BY <1>1, <1>2, <1>3 DEF Sound, Announced, InfoAt
<1>5. told.freqs = sched.freqs
  BY DEF FoiOnItsWay, SettingsOf
<1>6. told # NoSettings
  BY <1>4, <1>5 DEF NoSettings
<1>7. LastTold = told
  BY <1>6 DEF FoiOnItsWay
<1> QED
  BY <1>4, <1>5, <1>7 DEF LastTold

-----------------------------------------------------------------------------
(* Steps                                                                   *)

\* A packet the MAC handles leaves the queue with a verdict of the MAC's.
LEMMA JudgedFacts ==
  ASSUME MacHearsPacket
  PROVE  toMac # <<>> /\ \E stage \in MacVerdicts : Judge(stage)
BY DEF MacHearsPacket, DropForeign, IgnoreBadLength, DropTooLong, EnqueueForReassembly,
       DropWrongFrequency, DropSlotNotRx, DropMissed, DropMismatchNotRx, Timely, Untimely,
       MacVerdicts

LEMMA HeadQueued ==
  ASSUME PathTyped, toMac # <<>>
  PROVE  /\ toMac = <<Head(toMac)>> \o Tail(toMac)
         /\ Head(toMac).packet \in Packets
<1>1. toMac \in Seq(QueueEntry)
  BY DEF PathTyped
<1>2. Head(toMac) \in QueueEntry
  BY <1>1
<1> QED
  BY <1>1, <1>2 DEF QueueEntry

\* A node's path takes FrameworkPHY's steps only.
LEMMA PathPhyStep ==
  ASSUME PathTyped, [Next]_vars
  PROVE  [PhyNext]_phyVars
<1>1. CASE UNCHANGED vars
  BY <1>1 DEF vars, phyVars
<1>2. ASSUME NEW p \in Packets, Transmit(p) PROVE [PhyNext]_phyVars
  BY <1>2 DEF Transmit
<1>3. ASSUME NEW p \in Packets, PhyHearsPacket(p) PROVE [PhyNext]_phyVars
  <2>1. HeaderOn(packet[p].freq) \in Headers /\ ProcessUpstreamPacket(HeaderOn(packet[p].freq))
    BY <1>3 DEF PhyHearsPacket, PathTyped
  <2> QED
    BY <2>1 DEF PhyNext
<1>4. CASE PhyHearsControl
  <2>1. Head(toPhy) \in Settings
    BY <1>4 DEF PhyHearsControl, PathTyped
  <2>2. Head(toPhy) \in ControlFois /\ ControlFrequencyOfInterest(Head(toPhy))
    BY <1>4, <2>1, PathAssumption DEF PhyHearsControl
  <2> QED
    BY <2>2 DEF PhyNext
<1>5. CASE PhyLearns
  BY <1>5 DEF PhyLearns, PhyNext
<1>6. ASSUME NEW e \in ScheduleEvents, ReceiveSchedule(e) PROVE [PhyNext]_phyVars
  BY <1>6 DEF ReceiveSchedule
<1>7. CASE MacHearsPacket
  BY <1>7, JudgedFacts DEF Judge
<1>8. CASE Tick
  BY <1>8 DEF Tick
<1>9. CASE Horizon
  BY <1>9 DEF Horizon, vars, phyVars
<1> QED
  BY <1>1, <1>2, <1>3, <1>4, <1>5, <1>6, <1>7, <1>8, <1>9 DEF Next

\* The schedule changes with events only.
LEMMA PathSchedStep ==
  ASSUME SchedInv, [Next]_vars
  PROVE  SchedInv'
<1>1. CASE UNCHANGED schedVars
  BY <1>1 DEF schedVars, SchedInv, Sound, NoPendingFirstRequest, Empty
<1>2. ASSUME NEW e \in ScheduleEvents, ReceiveSchedule(e) PROVE SchedInv'
  BY <1>2, ProcessEventInv DEF ReceiveSchedule
<1>3. \/ UNCHANGED schedVars
      \/ \E e \in ScheduleEvents : ReceiveSchedule(e)
  BY JudgedFacts DEF Next, vars, Transmit, PhyHearsPacket, PhyHearsControl, PhyLearns, Judge,
                     Tick, Horizon
<1> QED
  BY <1>1, <1>2, <1>3

\* Told is what the schedule in force says, after an event as before it.
LEMMA ToldStep ==
  ASSUME SchedInv, told = SettingsOf(sched), told \in Settings,
         NEW e \in ScheduleEvents, ReceiveSchedule(e)
  PROVE  /\ told' = SettingsOf(sched)' /\ told' \in Settings
         /\ \/ told' = told /\ toPhy' = toPhy
            \/ toPhy' = Append(toPhy, told')
<1> DEFINE r == Response(sched, e)
<1>1. Sound(sched) /\ DecodedEvent(e)
  BY EventsAssumption DEF SchedInv
<1>2. SettingsOf(r.sched) \in Settings
  BY <1>1, ResponseSettings
<1>3. Sound(r.sched) /\ r.notify \in BOOLEAN /\ (~r.notify => r.sched = sched)
  BY <1>1, ResponseSound
<1>4. CASE r.notify
  <2>1. Tell(SettingsOf(r.sched)) /\ sched' = Requested(r.sched)
    BY <1>4 DEF ReceiveSchedule, ProcessEvent
  <2>2. SettingsOf(Requested(r.sched)) = SettingsOf(r.sched)
    BY <1>3 DEF Requested, SettingsOf, Sound
  <2> QED
    BY <1>2, <2>1, <2>2 DEF Tell, SettingsOf
<1>5. CASE ~r.notify
  <2>1. sched' = sched /\ told' = told /\ toPhy' = toPhy
    BY <1>3, <1>5 DEF ReceiveSchedule, ProcessEvent
  <2> QED
    BY <2>1 DEF SettingsOf
<1> QED
  BY <1>3, <1>4, <1>5

LEMMA PathInitInv == Init => PathInv
<1> SUFFICES ASSUME Init PROVE PathInv
  OBVIOUS
<1>1. SchedInv /\ PhyTypeOK
  BY SchedInitInv, TypeInit DEF Init
<1>2. Unsent \in PacketShape /\ Unsent.stage = "unsent"
  BY DEF Unsent, PacketShape, Stages, Forms
<1>3. PathTyped
  BY <1>2, NoSettingsTyped DEF Init, PathTyped
<1>4. FoiOnItsWay
  BY DEF Init, SchedInit, PhyInit, PhyConfigured, FoiOnItsWay, SettingsOf, NoSettings,
         NoSchedule, NoStructure
<1>5. QueuedOnce
  BY <1>2 DEF Init, QueuedOnce
<1> QED
  BY <1>1, <1>3, <1>4, <1>5 DEF PathInv

LEMMA PathTypedStep ==
  ASSUME SchedInv, PathTyped, told = SettingsOf(sched), [Next]_vars
  PROVE  PathTyped'
<1>1. CASE UNCHANGED vars
  BY <1>1 DEF vars, pathVars, PathTyped
<1>2. ASSUME NEW p \in Packets, Transmit(p) PROVE PathTyped'
  <2>1. PICK slot \in {clock, clock + 1}, t \in Transmissions :
          packet' = [packet EXCEPT ![p] = Sent(slot, t)]
    BY <1>2 DEF Transmit
  <2>2. slot \in Nat \ {0}
    BY DEF PathTyped
  <2>3. Sent(slot, t) \in PacketShape
    BY <2>2, PathAssumption DEF Sent, PacketShape, Stages
  <2>4. Sent(slot, t).slot # 0 /\ HeaderOn(Sent(slot, t).freq) \in Headers
    BY <2>2, PathAssumption DEF Sent
  <2> QED
    BY <1>2, <2>1, <2>3, <2>4 DEF Transmit, PathTyped
<1>3. ASSUME NEW p \in Packets, PhyHearsPacket(p) PROVE PathTyped'
  <2>1. packet[p].stage = "air" /\ packet[p].slot # 0 /\ packet[p] \in PacketShape
        /\ HeaderOn(packet[p].freq) \in Headers
    BY <1>3 DEF PhyHearsPacket, PathTyped
  <2>2. CASE Passed(heard')
    <3>1. PICK r \in Receivals(p) : toMac' = Append(toMac, r)
      BY <1>3, <2>2 DEF PhyHearsPacket
    <3>2. r \in QueueEntry
      BY <2>1, <3>1 DEF Receivals, QueueEntry, PathTyped, PacketShape
    <3>3. packet' = [packet EXCEPT ![p].stage = "queued"]
      BY <1>3, <2>2 DEF PhyHearsPacket
    <3>4. "queued" \in Stages
      BY DEF Stages
    <3>5. packet' \in [Packets -> PacketShape]
      BY <3>3, <3>4 DEF PathTyped, PacketShape
    <3>6. \A q \in Packets : packet'[q].stage \in {"air", "queued"} =>
            packet'[q].slot # 0 /\ HeaderOn(packet'[q].freq) \in Headers
      BY <2>1, <3>3 DEF PathTyped, PacketShape
    <3> QED
      BY <1>3, <3>1, <3>2, <3>5, <3>6 DEF PhyHearsPacket, PathTyped
  <2>3. CASE ~Passed(heard')
    <3>1. FinalCode(heard') \in Codes \ {"pass"}
      BY <1>3, <2>1, <2>3, FinalFacts DEF PhyHearsPacket
    <3>2. FinalCode(heard') \in Stages \ {"air", "queued"} /\ Rests(p, FinalCode(heard'))
      BY <1>3, <2>3, <3>1, StageFacts DEF PhyHearsPacket
    <3>3. /\ packet' \in [Packets -> PacketShape]
          /\ \A q \in Packets : packet'[q].stage \in {"air", "queued"} =>
               packet'[q].slot # 0 /\ HeaderOn(packet'[q].freq) \in Headers
      BY <3>2, RestsTyped
    <3> QED
      BY <1>3, <2>3, <3>3 DEF PhyHearsPacket, PathTyped
  <2> QED
    BY <2>2, <2>3
<1>4. CASE PhyHearsControl
  BY <1>4 DEF PhyHearsControl, PathTyped
<1>5. CASE PhyLearns
  BY <1>5 DEF PhyLearns, pathVars, PathTyped
<1>6. ASSUME NEW e \in ScheduleEvents, ReceiveSchedule(e) PROVE PathTyped'
  <2>1. /\ told' \in Settings
        /\ \/ told' = told /\ toPhy' = toPhy
           \/ toPhy' = Append(toPhy, told')
    BY <1>6, ToldStep DEF PathTyped
  <2>2. notified' \in Nat /\ UNCHANGED <<clock, toMac, packet>>
    BY <1>6 DEF ReceiveSchedule, PathTyped
  <2> QED
    BY <2>1, <2>2 DEF PathTyped
<1>7. CASE MacHearsPacket
  <2>1. PICK stage \in MacVerdicts : Judge(stage)
    BY <1>7, JudgedFacts
  <2>2. Head(toMac).packet \in Packets
    BY <1>7, JudgedFacts, HeadQueued
  <2>3. stage \in Stages \ {"air", "queued"}
    BY StageFacts
  <2>4. /\ packet' \in [Packets -> PacketShape]
        /\ \A q \in Packets : packet'[q].stage \in {"air", "queued"} =>
             packet'[q].slot # 0 /\ HeaderOn(packet'[q].freq) \in Headers
    BY <2>1, <2>2, <2>3, RestsTyped DEF Judge
  <2>5. Tail(toMac) \in Seq(QueueEntry)
    BY <1>7, JudgedFacts DEF PathTyped
  <2> QED
    BY <2>1, <2>4, <2>5 DEF Judge, PathTyped
<1>8. CASE Tick
  BY <1>8 DEF Tick, PathTyped
<1>9. CASE Horizon
  BY <1>9 DEF Horizon, vars, pathVars, PathTyped
<1> QED
  BY <1>1, <1>2, <1>3, <1>4, <1>5, <1>6, <1>7, <1>8, <1>9 DEF Next

LEMMA LastOfTail ==
  ASSUME NEW T, NEW q \in Seq(T), q # <<>>, Len(q) # 1
  PROVE  Tail(q) # <<>> /\ Tail(q)[Len(Tail(q))] = q[Len(q)]
<1>1. Len(Tail(q)) = Len(q) - 1 /\ Len(q) - 1 \in Nat \ {0}
  OBVIOUS
<1>2. \A i \in 1..(Len(q) - 1) : Tail(q)[i] = q[i + 1]
  OBVIOUS
<1>3. Tail(q)[Len(q) - 1] = q[Len(q) - 1 + 1]
  BY <1>1, <1>2
<1>4. Len(q) - 1 + 1 = Len(q)
  BY <1>1
<1>5. Tail(q) # <<>>
  BY <1>1
<1> QED
  BY <1>1, <1>3, <1>4, <1>5, Zenon

LEMMA FoiStep ==
  ASSUME SchedInv, PhyTypeOK, PathTyped, FoiOnItsWay, [Next]_vars
  PROVE  FoiOnItsWay'
<1>1. CASE UNCHANGED <<sched, phy, told, toPhy>>
  BY <1>1 DEF FoiOnItsWay, SettingsOf, LastTold
<1>2. CASE PhyHearsControl
  <2>1. toPhy # <<>> /\ toPhy \in Seq(Settings) /\ toPhy' = Tail(toPhy)
    BY <1>2 DEF PhyHearsControl, PathTyped
  <2>2. /\ LastTold = told /\ told = SettingsOf(sched)
        /\ LastTold = toPhy[Len(toPhy)]
    BY <2>1 DEF FoiOnItsWay, LastTold
  <2>3. sched' = sched /\ told' = told
    BY <1>2 DEF PhyHearsControl, schedVars
  <2>4. CASE Len(toPhy) = 1
    <3>1. Head(toPhy) = told /\ toPhy' = <<>>
      BY <2>1, <2>2, <2>4
    <3>2. phy' = FrequencyOfInterestSet(phy, told)
      BY <1>2, <3>1 DEF PhyHearsControl, ControlFrequencyOfInterest
    <3>3. told = [freqs |-> told.freqs, bandwidth |-> told.bandwidth]
      BY DEF PathTyped, Settings
    <3>4. phy'.foi = told.freqs /\ phy'.bandwidth = told.bandwidth
      <4>1. phy \in PhyShape
        BY DEF PhyTypeOK
      <4>2. phy' = [phy EXCEPT !.foi = told.freqs, !.bandwidth = told.bandwidth]
        BY <3>2 DEF FrequencyOfInterestSet
      <4> QED
        BY <4>1, <4>2 DEF PhyShape
    <3> QED
      BY <2>2, <2>3, <3>1, <3>3, <3>4 DEF FoiOnItsWay, LastTold, SettingsOf
  <2>5. CASE Len(toPhy) # 1
    <3>1. toPhy' # <<>> /\ toPhy'[Len(toPhy')] = toPhy[Len(toPhy)]
      BY <2>1, <2>5, LastOfTail
    <3> QED
      BY <2>2, <2>3, <3>1 DEF FoiOnItsWay, LastTold, SettingsOf
  <2> QED
    BY <2>4, <2>5
<1>3. ASSUME NEW e \in ScheduleEvents, ReceiveSchedule(e) PROVE FoiOnItsWay'
  <2>1. /\ told' = SettingsOf(sched)' /\ told' \in Settings
        /\ \/ told' = told /\ toPhy' = toPhy
           \/ toPhy' = Append(toPhy, told')
    BY <1>3, ToldStep DEF FoiOnItsWay, PathTyped
  <2>2. phy' = phy
    BY <1>3 DEF ReceiveSchedule, phyVars
  <2>3. CASE told' = told /\ toPhy' = toPhy
    BY <2>1, <2>2, <2>3 DEF FoiOnItsWay, LastTold
  <2>4. CASE toPhy' = Append(toPhy, told')
    <3>1. toPhy' # <<>> /\ toPhy'[Len(toPhy')] = told'
      BY <2>4 DEF PathTyped
    <3> QED
      BY <2>1, <3>1 DEF FoiOnItsWay, LastTold
  <2> QED
    BY <2>1, <2>3, <2>4
<1>4. ASSUME NEW p \in Packets, PhyHearsPacket(p) PROVE FoiOnItsWay'
  <2>1. UNCHANGED <<sched, phy, told, toPhy>>
    BY <1>4 DEF PhyHearsPacket, ProcessUpstreamPacket, schedVars
  <2> QED
    BY <2>1, <1>1
<1>5. CASE PhyLearns
  <2>1. UNCHANGED <<sched, told, toPhy>> /\ phy'.foi = phy.foi /\ phy'.bandwidth = phy.bandwidth
    BY <1>5 DEF PhyLearns, PathlossEvent, schedVars, pathVars
  <2> QED
    BY <2>1 DEF FoiOnItsWay, SettingsOf, LastTold
<1>6. CASE MacHearsPacket
  BY <1>6, <1>1, JudgedFacts DEF Judge, schedVars, phyVars
<1>7. \/ UNCHANGED <<sched, phy, told, toPhy>>
      \/ PhyHearsControl \/ PhyLearns \/ MacHearsPacket
      \/ \E e \in ScheduleEvents : ReceiveSchedule(e)
      \/ \E p \in Packets : PhyHearsPacket(p)
  BY DEF Next, vars, Transmit, Tick, Horizon, schedVars, phyVars, pathVars
<1> QED
  BY <1>1, <1>2, <1>3, <1>4, <1>5, <1>6, <1>7

\* The queue with a packet more, and without its head.
LEMMA QueuedStep ==
  ASSUME PathTyped, QueuedOnce, [Next]_vars
  PROVE  QueuedOnce'
<1>1. CASE UNCHANGED <<toMac, packet>>
  BY <1>1 DEF QueuedOnce
<1>2. ASSUME NEW p \in Packets, Transmit(p) PROVE QueuedOnce'
  <2>1. PICK slot, t : packet' = [packet EXCEPT ![p] = Sent(slot, t)]
    BY <1>2 DEF Transmit
  <2>2. packet[p].stage = "unsent" /\ toMac' = toMac
    BY <1>2 DEF Transmit
  <2>3. \A q \in Packets : packet'[q].stage = "queued" <=> packet[q].stage = "queued"
    BY <2>1, <2>2 DEF PathTyped, Sent
  <2> QED
    BY <2>2, <2>3 DEF QueuedOnce
<1>3. ASSUME NEW p \in Packets, PhyHearsPacket(p), Passed(heard') PROVE QueuedOnce'
  <2>1. PICK r \in Receivals(p) : toMac' = Append(toMac, r)
    BY <1>3 DEF PhyHearsPacket
  <2>2. r.packet = p
    BY DEF Receivals
  <2>3. packet[p].stage = "air" /\ packet' = [packet EXCEPT ![p].stage = "queued"]
    BY <1>3 DEF PhyHearsPacket
  <2>4. /\ packet'[p].stage = "queued"
        /\ \A q \in Packets : q # p => packet'[q] = packet[q]
    BY <2>3 DEF PathTyped, PacketShape
  <2>5. \A i \in DOMAIN toMac : toMac[i].packet # p
    BY <2>3 DEF QueuedOnce
  <2>6. /\ Len(toMac) \in Nat /\ DOMAIN toMac = 1..Len(toMac)
        /\ DOMAIN toMac' = 1..(Len(toMac) + 1)
        /\ toMac'[Len(toMac) + 1] = r
        /\ \A i \in 1..Len(toMac) : toMac'[i] = toMac[i]
    BY <2>1 DEF PathTyped
  <2>7. \A i, j \in DOMAIN toMac' : toMac'[i].packet = toMac'[j].packet => i = j
    BY <2>2, <2>5, <2>6 DEF QueuedOnce
  <2>8. \A q \in Packets :
          packet'[q].stage = "queued" <=> \E i \in DOMAIN toMac' : toMac'[i].packet = q
    BY <2>2, <2>4, <2>5, <2>6 DEF QueuedOnce
  <2> QED
    BY <2>7, <2>8 DEF QueuedOnce
<1>4. ASSUME NEW p \in Packets, PhyHearsPacket(p), ~Passed(heard') PROVE QueuedOnce'
  <2>1. packet[p].stage = "air" /\ HeaderOn(packet[p].freq) \in Headers
    BY <1>4 DEF PhyHearsPacket, PathTyped
  <2>2. FinalCode(heard') \in Codes \ {"pass"}
    BY <1>4, <2>1, FinalFacts DEF PhyHearsPacket
  <2>3. FinalCode(heard') \in Stages \ {"air", "queued"} /\ Rests(p, FinalCode(heard'))
    BY <1>4, <2>2, StageFacts DEF PhyHearsPacket
  <2>4. \A q \in Packets : packet'[q].stage = "queued" <=> packet[q].stage = "queued"
    BY <2>1, <2>3, RestsTyped
  <2>5. toMac' = toMac
    BY <1>4 DEF PhyHearsPacket
  <2> QED
    BY <2>4, <2>5 DEF QueuedOnce
<1>5. CASE MacHearsPacket
  <2>1. toMac # <<>>
    BY <1>5, JudgedFacts
  <2>2. PICK stage \in MacVerdicts : Judge(stage)
    BY <1>5, JudgedFacts
  <2> DEFINE p == Head(toMac).packet
  <2>3. p \in Packets
    BY <2>1, HeadQueued
  <2>4. stage \in Stages \ {"air", "queued"} /\ Rests(p, stage) /\ toMac' = Tail(toMac)
    BY <2>2, StageFacts DEF Judge
  <2>5. /\ packet'[p].stage # "queued"
        /\ \A q \in Packets : q # p => packet'[q] = packet[q]
    BY <2>3, <2>4, RestsTyped
  <2>6. /\ Len(toMac) \in Nat \ {0} /\ DOMAIN toMac = 1..Len(toMac)
        /\ DOMAIN toMac' = 1..(Len(toMac) - 1)
        /\ toMac[1].packet = p
    BY <2>1, <2>4 DEF PathTyped
  <2>7. \A i \in 1..(Len(toMac) - 1) : toMac'[i] = toMac[i + 1]
    BY <2>1, <2>4 DEF PathTyped
  <2> HIDE DEF p
  <2>8. \A i \in DOMAIN toMac' : i + 1 \in DOMAIN toMac /\ toMac'[i].packet # p
    BY <2>6, <2>7 DEF QueuedOnce
  <2>9. \A i, j \in DOMAIN toMac' : toMac'[i].packet = toMac'[j].packet => i = j
    <3> SUFFICES ASSUME NEW i \in DOMAIN toMac', NEW j \in DOMAIN toMac',
                        toMac'[i].packet = toMac'[j].packet
                 PROVE  i = j
      OBVIOUS
    <3>1. toMac[i + 1].packet = toMac[j + 1].packet
      BY <2>6, <2>7
    <3>2. i + 1 = j + 1
      BY <2>8, <3>1 DEF QueuedOnce
    <3> QED
      BY <2>6, <3>2
  <2>10. ASSUME NEW q \in Packets, q # p, packet[q].stage = "queued"
         PROVE  \E i \in DOMAIN toMac' : toMac'[i].packet = q
    <3>1. PICK i \in DOMAIN toMac : toMac[i].packet = q
      BY <2>10 DEF QueuedOnce
    <3>2. i - 1 \in 1..(Len(toMac) - 1)
      BY <2>6, <2>10, <3>1
    <3>3. toMac'[i - 1] = toMac[i - 1 + 1]
      BY <2>7, <3>2
    <3>4. i - 1 + 1 = i
      BY <2>6
    <3> QED
      BY <2>6, <3>1, <3>2, <3>3, <3>4
  <2>11. ASSUME NEW q \in Packets, NEW i \in DOMAIN toMac', toMac'[i].packet = q
         PROVE  q # p /\ packet[q].stage = "queued"
    <3>1. toMac[i + 1].packet = q
      BY <2>6, <2>7, <2>11
    <3> QED
      BY <2>8, <2>11, <3>1 DEF QueuedOnce
  <2>12. \A q \in Packets :
           packet'[q].stage = "queued" <=> \E i \in DOMAIN toMac' : toMac'[i].packet = q
    BY <2>5, <2>10, <2>11
  <2> QED
    BY <2>9, <2>12 DEF QueuedOnce
<1>6. \/ UNCHANGED <<toMac, packet>>
      \/ \E p \in Packets : Transmit(p) \/ PhyHearsPacket(p)
      \/ MacHearsPacket
  BY DEF Next, vars, PhyHearsControl, PhyLearns, ReceiveSchedule, Tick, Horizon, pathVars
<1> QED
  BY <1>1, <1>2, <1>3, <1>4, <1>5, <1>6

LEMMA PathStep == PathInv /\ [Next]_vars => PathInv'
<1> SUFFICES ASSUME PathInv, [Next]_vars PROVE PathInv'
  OBVIOUS
<1>1. SchedInv /\ PhyTypeOK /\ PathTyped /\ FoiOnItsWay /\ QueuedOnce
  BY DEF PathInv
<1>2. SchedInv' /\ FoiOnItsWay' /\ QueuedOnce'
  BY <1>1, PathSchedStep, FoiStep, QueuedStep
<1>3. PathTyped'
  BY <1>1, PathTypedStep DEF FoiOnItsWay
<1>4. PhyTypeOK'
  BY <1>1, PathPhyStep, TypeStep
<1> QED
  BY <1>2, <1>3, <1>4 DEF PathInv

LEMMA PathInvariance == Spec => []PathInv
BY PathInitInv, PathStep, PTL DEF Spec

-----------------------------------------------------------------------------
(* A packet that is due                                                    *)

\* While there is a packet to judge in its slot, there is a schedule.
LEMMA JudgedSlot ==
  ASSUME PathInv, toMac # <<>>
  PROVE  /\ InHand.slot \in Nat \ {0}
         /\ SlotIndexAt(sched, clock) = InHand.slot =>
              ~Empty(sched) /\ clock = InHand.slot
<1>1. PathTyped /\ QueuedOnce
  BY DEF PathInv
<1>2. Head(toMac).packet \in Packets
  BY <1>1, HeadQueued
<1>3. packet[Head(toMac).packet].stage = "queued"
  <2>1. 1 \in DOMAIN toMac /\ toMac[1] = Head(toMac)
    BY <1>1 DEF PathTyped
  <2> QED
    BY <1>1, <1>2, <2>1 DEF QueuedOnce
<1>4. InHand.slot \in Nat /\ InHand.slot # 0
  BY <1>1, <1>2, <1>3 DEF PathTyped, PacketShape, InHand
<1> QED
  BY <1>4 DEF SlotIndexAt

Due(p) ==
  LET m == packet[p]
      stage == packet'[p].stage
  IN stage # m.stage =>
       /\ stage \in (MacVerdicts \ {"good"}) \cup (Codes \ {"pass"}) /\ Scheduled(m) =>
            \/ stage \in NotHeard
            \/ stage = "notFoi" /\ toPhy # <<>>
            \/ m.form # "ok"
            \/ clock # m.slot
            \/ toMac # <<>> /\ Head(toMac).packet = p /\ Head(toMac).eor # m.slot
       /\ stage = "good" => Scheduled(m) /\ clock = m.slot

\* The PHY's part: a packet on a frequency it was told of fails for what it hears.
LEMMA DuePhy ==
  ASSUME PathInv, NEW p \in Packets, PhyHearsPacket(p)
  PROVE  Due(p)
<1>1. PathTyped /\ SchedInv /\ FoiOnItsWay
  BY DEF PathInv
<1>2. packet[p].stage = "air" /\ HeaderOn(packet[p].freq) \in Headers /\ packet[p].slot \in Nat
  BY <1>1 DEF PhyHearsPacket, PathTyped, PacketShape
<1>3. CASE Passed(heard')
  <2>1. packet'[p].stage = "queued"
    BY <1>1, <1>3 DEF PhyHearsPacket, PathTyped, PacketShape
  <2> QED
    BY <2>1 DEF Due, MacVerdicts, Codes
<1>4. CASE ~Passed(heard')
  <2>1. /\ FinalCode(heard') \in Codes \ {"pass"}
        /\ FinalCode(heard') # "outOfBand"
        /\ FinalCode(heard') = "notFoi" => packet[p].freq \notin phy.foi
    BY <1>2, <1>4, FinalFacts DEF PhyHearsPacket
  <2>2. FinalCode(heard') \in Stages \ {"air", "queued"} /\ Rests(p, FinalCode(heard'))
    BY <1>4, <2>1, StageFacts DEF PhyHearsPacket
  <2>3. packet'[p].stage = FinalCode(heard')
    BY <1>1, <2>2, RestsTyped
  <2>4. packet'[p].stage # "good"
    BY <2>1, <2>3, StageFacts
  <2>5. Scheduled(packet[p]) /\ packet'[p].stage = "notFoi" => toPhy # <<>>
    BY <1>1, <1>2, <2>1, <2>3, ScheduledIsTuned
  <2>6. packet'[p].stage \in NotHeard \cup {"notFoi"}
    BY <2>1, <2>3 DEF Codes, NotHeard
  <2> QED
    BY <2>4, <2>5, <2>6 DEF Due
<1> QED
  BY <1>3, <1>4

\* The MAC's part: each branch that drops the packet says why.
LEMMA DueMac ==
  ASSUME PathInv, NEW p \in Packets, MacHearsPacket
  PROVE  Due(p)
<1>1. toMac # <<>> /\ PathTyped
  BY JudgedFacts DEF PathInv
<1> DEFINE h == Head(toMac)
<1>2. /\ InHand.slot \in Nat \ {0}
      /\ SlotIndexAt(sched, clock) = InHand.slot => ~Empty(sched) /\ clock = InHand.slot
  BY <1>1, JudgedSlot
<1>3. ASSUME NEW stage \in MacVerdicts, Judge(stage)
      PROVE  /\ packet'[h.packet].stage = stage
             /\ \A q \in Packets : q # h.packet => packet'[q] = packet[q]
  <2>1. h.packet \in Packets
    BY <1>1, HeadQueued
  <2>2. stage \in Stages \ {"air", "queued"} /\ Rests(h.packet, stage)
    BY <1>3, StageFacts DEF Judge
  <2> QED
    BY <1>1, <2>1, <2>2, RestsTyped
<1>4. CASE p # h.packet
  <2>1. packet'[p] = packet[p]
    BY <1>3, <1>4, JudgedFacts
  <2> QED
    BY <2>1 DEF Due
<1>5. CASE p = h.packet
  <2>1. InHand = packet[p] /\ toMac # <<>>
    BY <1>1, <1>5 DEF InHand
  <2>2. ASSUME NEW stage \in MacVerdicts, Judge(stage) PROVE packet'[p].stage = stage
    BY <1>3, <1>5, <2>2
  <2>3. CASE DropForeign
    <3>1. packet'[p].stage = "registration" /\ packet[p].form # "ok"
      BY <2>1, <2>2, <2>3 DEF DropForeign, MacVerdicts
    <3> QED
      BY <3>1 DEF Due
  <2>4. CASE IgnoreBadLength
    <3>1. packet'[p].stage = "badLength" /\ packet[p].form # "ok"
      BY <2>1, <2>2, <2>4 DEF IgnoreBadLength, MacVerdicts
    <3> QED
      BY <3>1 DEF Due
  <2>5. CASE DropTooLong
    <3>1. packet'[p].stage = "tooLong" /\ SlotIndexAt(sched, h.eor) # packet[p].slot
      BY <2>1, <2>2, <2>5 DEF DropTooLong, TooLong, MacVerdicts
    <3>2. Scheduled(packet[p]) => h.eor # packet[p].slot
      BY <3>1 DEF Scheduled, SlotIndexAt
    <3> QED
      BY <1>5, <2>1, <3>1, <3>2 DEF Due
  <2>6. CASE EnqueueForReassembly
    <3>1. /\ packet'[p].stage = "good"
          /\ Receiving /\ Tuned /\ SlotIndexAt(sched, clock) = InHand.slot
      BY <2>2, <2>6 DEF EnqueueForReassembly, Timely, MacVerdicts
    <3>2. Scheduled(packet[p]) /\ clock = packet[p].slot
      BY <1>2, <2>1, <3>1 DEF Scheduled, Receiving, Tuned
    <3> QED
      BY <3>1, <3>2 DEF Due, MacVerdicts, Codes
  <2>7. CASE DropWrongFrequency
    <3>1. /\ packet'[p].stage = "wrongFrequency"
          /\ ~Tuned /\ SlotIndexAt(sched, clock) = InHand.slot
      BY <2>2, <2>7 DEF DropWrongFrequency, Timely, MacVerdicts
    <3>2. ~Scheduled(packet[p])
      BY <1>2, <2>1, <3>1 DEF Scheduled, Tuned
    <3> QED
      BY <3>1, <3>2 DEF Due
  <2>8. CASE DropSlotNotRx
    <3>1. /\ packet'[p].stage = "slotNotRx"
          /\ ~Receiving /\ SlotIndexAt(sched, clock) = InHand.slot
      BY <2>2, <2>8 DEF DropSlotNotRx, Timely, MacVerdicts
    <3>2. ~Scheduled(packet[p])
      BY <1>2, <2>1, <3>1 DEF Scheduled, Receiving
    <3> QED
      BY <3>1, <3>2 DEF Due
  <2>9. CASE DropMissed \/ DropMismatchNotRx
    <3>1. /\ packet'[p].stage \in {"missed", "mismatchNotRx"}
          /\ SlotIndexAt(sched, clock) # InHand.slot
      BY <2>2, <2>9 DEF DropMissed, DropMismatchNotRx, Untimely, MacVerdicts
    <3>2. Scheduled(packet[p]) => clock # packet[p].slot
      BY <2>1, <3>1 DEF Scheduled, SlotIndexAt
    <3> QED
      BY <3>1, <3>2 DEF Due
  <2> QED
    BY <2>3, <2>4, <2>5, <2>6, <2>7, <2>8, <2>9 DEF MacHearsPacket
<1> QED
  BY <1>4, <1>5

\* Packets change stage nowhere else, but when they are sent.
LEMMA DueStep ==
  ASSUME PathInv, [Next]_vars, NEW p \in Packets
  PROVE  Due(p)
<1>1. CASE UNCHANGED packet
  BY <1>1 DEF Due
<1>2. ASSUME NEW q \in Packets, Transmit(q) PROVE Due(p)
  <2>1. PICK slot, t : packet' = [packet EXCEPT ![q] = Sent(slot, t)]
    BY <1>2 DEF Transmit
  <2>2. packet'[p] = packet[p] \/ packet'[p].stage = "air"
    BY <2>1 DEF PathInv, PathTyped, Sent
  <2> QED
    BY <2>2 DEF Due, MacVerdicts, Codes
<1>3. ASSUME NEW q \in Packets, PhyHearsPacket(q) PROVE Due(p)
  <2>1. CASE p = q
    BY <1>3, <2>1, DuePhy
  <2>2. CASE p # q
    <3>1. packet'[p] = packet[p]
      BY <1>3, <2>2 DEF PhyHearsPacket, Rests, PathInv, PathTyped
    <3> QED
      BY <3>1 DEF Due
  <2> QED
    BY <2>1, <2>2
<1>4. CASE MacHearsPacket
  BY <1>4, DueMac
<1>5. \/ UNCHANGED packet
      \/ \E q \in Packets : Transmit(q) \/ PhyHearsPacket(q)
      \/ MacHearsPacket
  BY DEF Next, vars, PhyHearsControl, PhyLearns, ReceiveSchedule, Tick, Horizon, pathVars
<1> QED
  BY <1>1, <1>2, <1>3, <1>4, <1>5

-----------------------------------------------------------------------------
(* Theorems                                                                *)

\* However packets, schedules and both threads interleave, the path's state is well
\* typed: no packet ends with a verdict that is not one of the code's.
THEOREM PathTyping == Spec => []PathTypeOK
<1>1. PathInv => PathTypeOK
  BY SchedInvTyped DEF PathInv, PathTyped, PathTypeOK, PacketShape, QueueEntry
<1> QED
  BY <1>1, PathInvariance, PTL

\* The schedule's frequencies are at the radio or last in its queue, for any number of
\* schedule changes: a change is neither lost nor overtaken (basemodelimplHB.cc:997).
THEOREM FoiStaysOnItsWay == Spec => []FoiOnItsWay
<1>1. PathInv => FoiOnItsWay
  BY DEF PathInv
<1> QED
  BY <1>1, PathInvariance, PTL

\* A packet passed by the PHY waits exactly once for the MAC, until it is judged.
THEOREM PacketsStayQueuedOnce == Spec => []QueuedOnce
<1>1. PathInv => QueuedOnce
  BY DEF PathInv
<1> QED
  BY <1>1, PathInvariance, PTL

\* Every behaviour of the path is one of FrameworkPHY: what is proved of the layer with
\* any packets and messages holds for those of a running node.
THEOREM PathImplementsPhy == Spec => PhySpec
<1>1. Init => PhyInit
  BY DEF Init
<1>2. PathInv /\ [Next]_vars => [PhyNext]_phyVars
  BY PathPhyStep DEF PathInv
<1> QED
  BY <1>1, <1>2, PathInvariance, PTL DEF Spec, PhySpec

\* A packet of a slot to receive in is dropped only for one of the reasons named, however
\* schedule changes, both queues and the clock interleave; and what goes to reassembly is
\* of the present slot, on its frequency (basemodelimplHB.cc:610).
THEOREM DueIsTaken == Spec => TakenIfDue
<1>1. PathInv /\ [Next]_vars => [\A p \in Packets : Due(p)]_vars
  BY DueStep
<1> QED
  BY <1>1, PathInvariance, PTL DEF Spec, TakenIfDue, Due

\* Packets and the radio leave the schedule alone: every step of the path is one of the
\* scheduler's, or none.
LEMMA PathSchedulerStep == [Next]_vars => [SchedNext]_schedVars
<1>1. ASSUME NEW e \in ScheduleEvents, ReceiveSchedule(e) PROVE SchedNext
  BY <1>1 DEF ReceiveSchedule, SchedNext
<1>2. [Next]_vars => \/ UNCHANGED schedVars
                     \/ \E e \in ScheduleEvents : ReceiveSchedule(e)
  BY JudgedFacts DEF Next, vars, Transmit, PhyHearsPacket, PhyHearsControl, PhyLearns, Judge,
                     Tick, Horizon
<1> QED
  BY <1>1, <1>2

\* The schedule packets are judged by lives as a plan does, whatever is received meanwhile:
\* with PathImplementsPhy, the path is both of its parts at once (HBeventscheduler.cc:116).
THEOREM PathFollowsPlan == Spec => ImplementsPlan
<1>1. Init => SchedInit
  BY DEF Init
<1>2. Spec => SchedSpec
  BY <1>1, PathSchedulerStep, PTL DEF Spec, SchedSpec
<1> QED
  BY <1>2, SchedulerImplementsPlan
=============================================================================
