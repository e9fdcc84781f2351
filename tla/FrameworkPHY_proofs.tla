------------------------ MODULE FrameworkPHY_proofs ------------------------
(***************************************************************************)
(* Theorems about FrameworkPHY, for all headers, requests and events.      *)
(***************************************************************************)
EXTENDS FrameworkPHY, SequenceTheorems, WellFoundedInduction, TLAPS

-----------------------------------------------------------------------------
(* Receptions                                                              *)

\* Every nonempty set of naturals has a least element.
LEMMA NatLeast ==
  ASSUME NEW T \in SUBSET Nat, T # {}
  PROVE  \E m \in T : \A j \in T : m <= j
<1>1. PICK m \in T : \A j \in T : ~ (<<j, m>> \in OpToRel(<, Nat))
  BY NatLessThanWellFounded, WFMin
<1>2. \A j \in T : ~ (j < m)
  BY <1>1 DEF OpToRel
<1> QED
  BY <1>2

\* A packet is counted at least once, and only under the codes of the table.
LEMMA CountedFacts ==
  ASSUME NEW p, NEW h \in Headers, NEW gains, NEW faded, NEW spectrum
  PROVE  /\ Counted(p, h, gains, faded, spectrum) # {}
         /\ Counted(p, h, gains, faded, spectrum) \subseteq [at : Nat, code : Codes]
<1>1. DOMAIN h.transmitters \subseteq Nat
  BY HeadersAssumption
<1>2. \A i \in Drops(p, h, gains, faded) : i \in Nat
  BY <1>1 DEF Drops, Examined
<1>3. \A i : LoopCode(p, h, gains, i) \in Codes
  BY DEF LoopCode, Codes
<1>4. Verdict(p, h, spectrum) \in Codes
  BY DEF Verdict, Codes
<1>5. CASE ~h.inBand /\ NoiseMode = "none"
  <2>1. Counted(p, h, gains, faded, spectrum) = {[at |-> 0, code |-> "outOfBand"]}
    BY <1>5 DEF Counted
  <2> QED
    BY <2>1 DEF Codes
<1>6. CASE ~(~h.inBand /\ NoiseMode = "none") /\ Drops(p, h, gains, faded) # {}
  <2>1. Counted(p, h, gains, faded, spectrum) =
          {[at |-> i, code |-> LoopCode(p, h, gains, i)] : i \in Drops(p, h, gains, faded)}
    BY <1>6 DEF Counted
  <2>2. \A i \in Drops(p, h, gains, faded) :
          [at |-> i, code |-> LoopCode(p, h, gains, i)] \in [at : Nat, code : Codes]
    BY <1>2, <1>3
  <2> QED
    BY <2>1, <2>2, <1>6
<1>7. CASE ~(~h.inBand /\ NoiseMode = "none") /\ Drops(p, h, gains, faded) = {}
  <2>1. Counted(p, h, gains, faded, spectrum) = {[at |-> 0, code |-> Verdict(p, h, spectrum)]}
    BY <1>7 DEF Counted
  <2> QED
    BY <2>1, <1>4
<1> QED
  BY <1>5, <1>6, <1>7

\* Of two counts for one packet neither is a pass, and the earlier one is for fading.
LEMMA CountedTwice ==
  ASSUME NEW p, NEW h \in Headers, NEW gains, NEW faded, NEW spectrum,
         NEW c \in Counted(p, h, gains, faded, spectrum),
         NEW d \in Counted(p, h, gains, faded, spectrum),
         c # d
  PROVE  /\ "pass" \notin {c.code, d.code}
         /\ c.at < d.at => c.code = "fading"
<1>1. ~(~h.inBand /\ NoiseMode = "none") /\ Drops(p, h, gains, faded) # {}
  BY DEF Counted
<1>2. \E i, j \in Drops(p, h, gains, faded) :
        /\ c = [at |-> i, code |-> LoopCode(p, h, gains, i)]
        /\ d = [at |-> j, code |-> LoopCode(p, h, gains, j)]
  BY <1>1 DEF Counted
<1>3. PICK i \in Drops(p, h, gains, faded), j \in Drops(p, h, gains, faded) :
        /\ c = [at |-> i, code |-> LoopCode(p, h, gains, i)]
        /\ d = [at |-> j, code |-> LoopCode(p, h, gains, j)]
  BY <1>2
<1>4. "pass" \notin {c.code, d.code}
  BY <1>3 DEF LoopCode
<1>5. ASSUME i < j PROVE LoopCode(p, h, gains, i) = "fading"
  <2>1. ~EndsLoop(p, h, gains, i)
    BY <1>5 DEF Drops, Examined
  <2> QED
    BY <2>1 DEF EndsLoop, LoopCode
<1> QED
  BY <1>3, <1>4, <1>5

\* A packet that passes has no transmitter it is dropped for.
LEMMA PassedFacts ==
  ASSUME NEW p, NEW h \in Headers, NEW gains,
         NEW faded \in FadingAnswers(p, h), NEW spectrum \in SpectrumAnswers(h),
         Passed(Reception(p, h, gains, faded, spectrum))
  PROVE  /\ h.inBand /\ h.segments # <<>>
         /\ \A k \in DOMAIN h.segments :
              /\ h.segments[k] \in p.foi
              /\ Power(p, h, gains, faded, k) = DOMAIN h.transmitters
         /\ \A i \in DOMAIN h.transmitters : HasPathloss(p, h.transmitters[i])
<1>1. PICK c \in Counted(p, h, gains, faded, spectrum) : c.code = "pass"
  BY DEF Passed, Reception
<1>2. \A i : LoopCode(p, h, gains, i) # "pass"
  BY DEF LoopCode
<1>3. /\ Drops(p, h, gains, faded) = {}
      /\ Verdict(p, h, spectrum) = "pass"
  BY <1>1, <1>2 DEF Counted
<1>4. /\ TreatAsInBand(p, h)
      /\ spectrum.kept # {}
  BY <1>3 DEF Verdict
<1>5. h.segments \in Seq(Nat) /\ h.transmitters \in Seq(Nodes)
  BY HeadersAssumption
<1>6. h.segments # <<>>
  BY <1>4, <1>5 DEF SpectrumAnswers
<1>7. \A i \in Examined(p, h, gains) : ~EndsLoop(p, h, gains, i) /\ ~Faded(h, faded, i)
  BY <1>3 DEF Drops
<1>8. Examined(p, h, gains) = DOMAIN h.transmitters
  <2>1. DOMAIN h.transmitters = 1..Len(h.transmitters) /\ Len(h.transmitters) \in Nat
    BY <1>5
  <2>2. SUFFICES ASSUME NEW i \in DOMAIN h.transmitters, i \notin Examined(p, h, gains)
                 PROVE  FALSE
    BY DEF Examined
  <2> DEFINE Ending == {j \in DOMAIN h.transmitters : EndsLoop(p, h, gains, j)}
  <2>3. Ending # {} /\ Ending \subseteq Nat
    BY <2>1, <2>2 DEF Examined
  <2>4. PICK m \in Ending : \A j \in Ending : m <= j
    BY <2>3, NatLeast
  <2>5. m \in Examined(p, h, gains)
    BY <2>1, <2>4 DEF Examined
  <2> QED
    BY <2>4, <2>5, <1>7
<1>9. ASSUME NEW k \in DOMAIN h.segments
      PROVE  Power(p, h, gains, faded, k) = DOMAIN h.transmitters
  <2>1. k \in 1..Len(h.segments) /\ Len(h.segments) \in Nat
    BY <1>5, <1>9
  <2>2. \A i \in DOMAIN h.transmitters : faded[i] \in 0..Len(h.segments)
    BY DEF FadingAnswers
  <2> QED
    BY <2>1, <2>2, <1>7, <1>8 DEF Power, Faded
<1> QED
  BY <1>4, <1>6, <1>7, <1>8, <1>9 DEF TreatAsInBand, EndsLoop

-----------------------------------------------------------------------------
(* Headers sent                                                            *)

\* The transmitters of a header sent, and its segments, are what they should be.
LEMMA SentFacts ==
  ASSUME NEW p, p.bandwidth \in Nat, NEW r \in Requests
  PROVE  LET s == SentHeader(p, r) IN
         /\ s.transmitters \in Seq(Nodes) /\ s.segments \in Seq(Nat) /\ s.bandwidth \in Nat
         /\ NamedOnce(s.transmitters, Self)
         /\ \A k \in DOMAIN s.segments : s.segments[k] # 0
<1> DEFINE t == IF r.transmitters = {} THEN <<Self>> ELSE CHOOSE u \in r.transmitters : TRUE
           s == SentHeader(p, r)
<1>1. t \in Seq(Nodes) /\ IsInjective(t)
  <2>1. CASE r.transmitters = {}
    BY <2>1, PhyAssumption DEF IsInjective
  <2>2. CASE r.transmitters # {}
    BY <2>2, RequestsAssumption
  <2> QED
    BY <2>1, <2>2
<1>2. s.transmitters = WithSelf(t)
  BY DEF SentHeader
<1> HIDE DEF t
<1>3. /\ s.transmitters \in Seq(Nodes)
      /\ NamedOnce(s.transmitters, Self)
  <2>1. CASE \E i \in DOMAIN t : t[i] = Self
    <3>1. s.transmitters = t
      BY <2>1, <1>2 DEF WithSelf
    <3> QED
      BY <2>1, <3>1, <1>1 DEF IsInjective, NamedOnce
  <2>2. CASE ~\E i \in DOMAIN t : t[i] = Self
    <3>1. s.transmitters = Append(t, Self)
      BY <2>2, <1>2 DEF WithSelf
    <3>2. /\ Append(t, Self) \in Seq(Nodes)
          /\ DOMAIN Append(t, Self) = 1..(Len(t) + 1)
          /\ Append(t, Self)[Len(t) + 1] = Self
          /\ \A i \in 1..Len(t) : Append(t, Self)[i] = t[i]
      BY <1>1, PhyAssumption
    <3>3. Len(t) \in Nat /\ DOMAIN t = 1..Len(t)
      BY <1>1
    <3>4. \A j \in 1..(Len(t) + 1) : Append(t, Self)[j] = Self => j = Len(t) + 1
      BY <3>2, <3>3, <2>2
    <3>5. Len(t) + 1 \in 1..(Len(t) + 1)
      BY <3>3
    <3>6. NamedOnce(Append(t, Self), Self)
      BY <3>2, <3>4, <3>5 DEF NamedOnce
    <3> QED
      BY <3>1, <3>2, <3>6
  <2> QED
    BY <2>1, <2>2
<1>4. s.segments \in Seq(Nat) /\ \A k \in DOMAIN s.segments : s.segments[k] # 0
  <2>1. CASE r.frequency = {}
    <3>1. s.segments = <<Frequency>>
      BY <2>1 DEF SentHeader
    <3> QED
      BY <3>1, PhyAssumption
  <2>2. CASE r.frequency # {}
    <3> DEFINE q == CHOOSE u \in r.frequency : TRUE
    <3>1. q \in Seq(Nat)
      BY <2>2, RequestsAssumption
    <3>2. s.segments = SegmentFrequencies(q)
      BY <2>2 DEF SentHeader
    <3> HIDE DEF q
    <3>3. SegmentFrequencies(q) = [k \in 1..Len(q) |-> IF q[k] = 0 THEN Frequency ELSE q[k]]
      BY <3>1 DEF SegmentFrequencies
    <3>4. \A k \in 1..Len(q) : (IF q[k] = 0 THEN Frequency ELSE q[k]) \in Nat \ {0}
      BY <3>1, PhyAssumption
    <3>5. Len(q) \in Nat
      BY <3>1
    <3>6. SegmentFrequencies(q) \in [1..Len(q) -> Nat \ {0}]
      BY <3>3, <3>4
    <3>7. SegmentFrequencies(q) \in [1..Len(q) -> Nat]
      BY <3>3, <3>4
    <3>8. SegmentFrequencies(q) \in Seq(Nat)
      BY <3>5, <3>7, SeqDef
    <3> QED
      BY <3>2, <3>6, <3>8
  <2> QED
    BY <2>1, <2>2
<1>5. s.bandwidth \in Nat
  BY RequestsAssumption DEF SentHeader
<1> QED
  BY <1>3, <1>4, <1>5

\* Over the air no other node is named than in the header.
LEMMA OtaNamed ==
  ASSUME NEW p, NEW r \in Requests,
         \A t, u \in r.transmitters : t = u
  PROVE  \A n \in SentHeader(p, r).ota :
           \E i \in DOMAIN SentHeader(p, r).transmitters :
             SentHeader(p, r).transmitters[i] = n
<1> DEFINE s == SentHeader(p, r)
<1>1. SUFFICES ASSUME NEW n \in s.ota
               PROVE  \E i \in DOMAIN s.transmitters : s.transmitters[i] = n
  OBVIOUS
<1>2. PICK t \in r.transmitters : n \in {t[i] : i \in DOMAIN t}
  BY DEF SentHeader
<1>3. PICK i \in DOMAIN t : t[i] = n
  BY <1>2
<1>4. r.transmitters # {} /\ (CHOOSE u \in r.transmitters : TRUE) = t
  BY <1>2
<1>5. s.transmitters = WithSelf(t)
  BY <1>4 DEF SentHeader
<1>6. t \in Seq(Nodes)
  BY RequestsAssumption
<1>7. CASE s.transmitters = t
  BY <1>3, <1>7
<1>8. CASE s.transmitters = Append(t, Self)
  <2>1. i \in 1..Len(t) /\ Len(t) \in Nat
    BY <1>3, <1>6
  <2>2. i \in DOMAIN Append(t, Self) /\ Append(t, Self)[i] = t[i]
    BY <2>1, <1>6, PhyAssumption
  <2> QED
    BY <2>2, <1>3, <1>8
<1> QED
  BY <1>5, <1>7, <1>8 DEF WithSelf

-----------------------------------------------------------------------------
(* The theorems                                                            *)

LEMMA TypeInit == PhyInit => PhyTypeOK
<1> SUFFICES ASSUME PhyInit PROVE PhyTypeOK
  OBVIOUS
<1>1. phy \in PhyShape
  BY PhyAssumption DEF PhyInit, PhyConfigured, PhyShape
<1>2. /\ holder \subseteq Nodes /\ initialized \in BOOLEAN
      /\ heard.counted = {}
      /\ sent.transmitters = <<>> /\ sent.segments = <<>> /\ sent.bandwidth = 0
  BY DEF PhyInit, NothingHeard, NothingSent
<1> QED
  BY <1>1, <1>2 DEF PhyTypeOK

LEMMA TypeStep ==
  ASSUME PhyTypeOK, [PhyNext]_phyVars
  PROVE  PhyTypeOK'
<1>1. CASE UNCHANGED phyVars
  BY <1>1 DEF phyVars, PhyTypeOK
<1>2. ASSUME NEW h \in Headers, ProcessUpstreamPacket(h) PROVE PhyTypeOK'
  <2>1. PICK gains, faded, spectrum : heard' = Reception(phy, h, gains, faded, spectrum)
    BY <1>2 DEF ProcessUpstreamPacket, Receptions
  <2>2. heard'.counted \subseteq [at : Nat, code : Codes]
    BY <2>1, CountedFacts DEF Reception
  <2> QED
    BY <1>2, <2>2 DEF ProcessUpstreamPacket, PhyTypeOK
<1>3. ASSUME NEW r \in Requests, ProcessDownstreamPacket(r) PROVE PhyTypeOK'
  <2>1. /\ sent'.transmitters \in Seq(Nodes)
        /\ sent'.segments \in Seq(Nat)
        /\ sent'.bandwidth \in Nat
    BY <1>3, SentFacts DEF ProcessDownstreamPacket, PhyTypeOK, PhyShape
  <2>2. r.foi # {} => (CHOOSE f \in r.foi : TRUE) \in ControlFois
    BY RequestsAssumption
  <2>3. phy' \in PhyShape
    BY <1>3, <2>2, PhyAssumption
    DEF ProcessDownstreamPacket, AfterRequest, FrequencyOfInterestSet, PhyTypeOK, PhyShape
  <2> QED
    BY <1>3, <2>1, <2>3 DEF ProcessDownstreamPacket, PhyTypeOK
<1>4. ASSUME NEW f \in ControlFois, ControlFrequencyOfInterest(f) PROVE PhyTypeOK'
  BY <1>4, PhyAssumption DEF ControlFrequencyOfInterest, FrequencyOfInterestSet, PhyTypeOK, PhyShape
<1>5. CASE ControlAntennaProfile
  BY <1>5, PhyAssumption DEF ControlAntennaProfile, PhyTypeOK, PhyShape
<1>6. ASSUME NEW nodes \in EventNodes,
             \/ AntennaProfileEvent(nodes)
             \/ FadingSelectionEvent(nodes)
             \/ LocationEvent(nodes)
             \/ PathlossEvent(nodes)
      PROVE  PhyTypeOK'
  <2>1. nodes \subseteq Nodes /\ phy \in PhyShape
    BY PhyAssumption DEF PhyTypeOK
  <2>2. phy' \in PhyShape
    BY <1>6, <2>1
    DEF AntennaProfileEvent, FadingSelectionEvent, LocationEvent, PathlossEvent, Merged, PhyShape
  <2>3. holder' \subseteq Nodes /\ initialized' \in BOOLEAN
    BY <1>6, <2>1
    DEF AntennaProfileEvent, FadingSelectionEvent, LocationEvent, PathlossEvent, PhyTypeOK
  <2>4. UNCHANGED <<heard, sent>>
    BY <1>6 DEF AntennaProfileEvent, FadingSelectionEvent, LocationEvent, PathlossEvent
  <2> QED
    BY <2>2, <2>3, <2>4 DEF PhyTypeOK
<1> QED
  BY <1>1, <1>2, <1>3, <1>4, <1>5, <1>6 DEF PhyNext

\* The layer's state is always well typed.
THEOREM PhyTyping == PhySpec => []PhyTypeOK
<1>1. PhyInit => PhyTypeOK
  BY TypeInit
<1>2. PhyTypeOK /\ [PhyNext]_phyVars => PhyTypeOK'
  BY TypeStep
<1> QED
  BY <1>1, <1>2, PTL DEF PhySpec

\* Whatever is heard, known and answered, a packet is counted, as passed or as dropped,
\* and twice only after a fading failure.
THEOREM PacketsCounted == PhySpec => []CountedOnceUnlessFaded
<1>1. PhyInit => CountedOnceUnlessFaded
  BY DEF PhyInit, CountedOnceUnlessFaded, NothingHeard
<1>2. CountedOnceUnlessFaded /\ [PhyNext]_phyVars => CountedOnceUnlessFaded'
  <2> SUFFICES ASSUME CountedOnceUnlessFaded, [PhyNext]_phyVars
               PROVE  CountedOnceUnlessFaded'
    OBVIOUS
  <2>1. CASE UNCHANGED heard
    BY <2>1 DEF CountedOnceUnlessFaded
  <2>2. ASSUME NEW h \in Headers, ProcessUpstreamPacket(h) PROVE CountedOnceUnlessFaded'
    <3>1. PICK gains, faded, spectrum : heard' = Reception(phy, h, gains, faded, spectrum)
      BY <2>2 DEF ProcessUpstreamPacket, Receptions
    <3>2. heard'.counted = Counted(phy, h, gains, faded, spectrum)
      BY <3>1 DEF Reception
    <3> QED
      BY <3>2, CountedFacts, CountedTwice DEF CountedOnceUnlessFaded
  <2> QED
    BY <2>1, <2>2
    DEF PhyNext, phyVars, ProcessDownstreamPacket, ControlFrequencyOfInterest,
        ControlAntennaProfile, AntennaProfileEvent, FadingSelectionEvent, LocationEvent,
        PathlossEvent
<1> QED
  BY <1>1, <1>2, PTL DEF PhySpec

\* A packet that goes up to the MAC has the power of all its transmitters in all its
\* segments, and only frequencies of interest.
THEOREM PassesWithAllPower == PhySpec => PassedWithAllPower
<1> DEFINE Whole ==
      heard' # heard /\ Passed(heard') =>
       LET h == heard'.header IN
       /\ h.inBand /\ h.segments # <<>>
       /\ \A k \in DOMAIN h.segments :
            /\ h.segments[k] \in phy.foi
            /\ heard'.power[k] = DOMAIN h.transmitters
       /\ \A i \in DOMAIN h.transmitters : HasPathloss(phy, h.transmitters[i])
<1>1. [PhyNext]_phyVars => Whole
  <2> SUFFICES ASSUME [PhyNext]_phyVars, heard' # heard, Passed(heard')
               PROVE  Whole
    OBVIOUS
  <2>1. PICK h \in Headers : ProcessUpstreamPacket(h)
    BY DEF PhyNext, phyVars, ProcessDownstreamPacket, ControlFrequencyOfInterest,
           ControlAntennaProfile, AntennaProfileEvent, FadingSelectionEvent, LocationEvent,
           PathlossEvent
  <2>2. PICK gains \in GainAnswers(phy, h), faded \in FadingAnswers(phy, h),
             spectrum \in SpectrumAnswers(h) :
          heard' = Reception(phy, h, gains, faded, spectrum)
    BY <2>1 DEF ProcessUpstreamPacket, Receptions
  <2>3. /\ heard'.header = h
        /\ \A k \in DOMAIN h.segments : heard'.power[k] = Power(phy, h, gains, faded, k)
    BY <2>2 DEF Reception
  <2>4. Passed(Reception(phy, h, gains, faded, spectrum))
    BY <2>2
  <2>5. /\ h.inBand /\ h.segments # <<>>
        /\ \A k \in DOMAIN h.segments :
             /\ h.segments[k] \in phy.foi
             /\ Power(phy, h, gains, faded, k) = DOMAIN h.transmitters
        /\ \A i \in DOMAIN h.transmitters : HasPathloss(phy, h.transmitters[i])
    BY <2>4, PassedFacts
  <2> QED
    BY <2>3, <2>5
<1> QED
  BY <1>1, PTL DEF PhySpec, PassedWithAllPower

\* Every header sent names this node once, no frequency of 0 Hz, and over the air no
\* other node than the header does.
THEOREM HeadersSound == PhySpec => []HeaderSound
<1>1. PhyInit => HeaderSound
  BY DEF PhyInit, HeaderSound
<1>2. PhyTypeOK /\ HeaderSound /\ [PhyNext]_phyVars => HeaderSound'
  <2> SUFFICES ASSUME PhyTypeOK, HeaderSound, [PhyNext]_phyVars PROVE HeaderSound'
    OBVIOUS
  <2>1. CASE UNCHANGED sent
    BY <2>1 DEF HeaderSound
  <2>2. ASSUME NEW r \in Requests, ProcessDownstreamPacket(r) PROVE HeaderSound'
    <3>1. sent' = SentHeader(phy, r)
      BY <2>2 DEF ProcessDownstreamPacket
    <3>2. \A t, u \in r.transmitters : t = u
      BY RequestsAssumption
    <3>3. phy.bandwidth \in Nat
      BY DEF PhyTypeOK, PhyShape
    <3>4. /\ NamedOnce(sent'.transmitters, Self)
          /\ \A k \in DOMAIN sent'.segments : sent'.segments[k] # 0
      BY <3>1, <3>3, SentFacts
    <3>5. \A n \in sent'.ota : \E i \in DOMAIN sent'.transmitters : sent'.transmitters[i] = n
      BY <3>1, <3>2, OtaNamed
    <3> QED
      BY <3>4, <3>5 DEF HeaderSound
  <2> QED
    BY <2>1, <2>2
    DEF PhyNext, phyVars, ProcessUpstreamPacket, ControlFrequencyOfInterest,
        ControlAntennaProfile, AntennaProfileEvent, FadingSelectionEvent, LocationEvent,
        PathlossEvent
<1> QED
  BY <1>1, <1>2, PhyTyping, PTL DEF PhySpec
=============================================================================
