---------------------------- MODULE FrameworkPHY ----------------------------
(***************************************************************************)
(* FrameworkPHY: what the physical layer makes of the packets it hears,    *)
(* with what location, pathloss, antenna and fading events have told it,   *)
(* and the header it puts on the packets it sends.  Power, gain and noise  *)
(* are reals in the code; here a segment's power is the set of the         *)
(* transmitters that were added up in it.                                  *)
(*                                                                         *)
(* LocationManager, PropagationModelAlgorithm, GainManager, FadingManager  *)
(* and SpectrumMonitor are not in the repository: each is what the handler *)
(* asks of it.  "heard" and "sent" are history: no action reads them.      *)
(***************************************************************************)
EXTENDS Integers, Sequences, Functions

CONSTANTS
  Nodes, Self,      \* the nodes, and the one this layer belongs to
  Frequency,        \* u64TxFrequencyHz_
  InitialFoi,       \* the configured frequencies of interest and bandwidth
  NoiseMode,        \* noiseMode_: "none", "all" or "outofband"
  NoiseMaxClamp,    \* bNoiseMaxClamp_
  Precomputed,      \* whether the propagation model is the precomputed one
  FixedGain,        \* optionalFixedAntennaGaindBi_.second
  FadingByEvent,    \* whether the fading model is selected by events
  Headers,          \* the common PHY headers that may arrive
  Requests,         \* the control messages of the packets the MAC sends
  ControlFois,      \* the frequencies of interest the MAC may tell
  EventNodes        \* the sets of nodes an event may be about

FoiSettings == [freqs : SUBSET Nat, bandwidth : Nat]

\* The registered PHY and the sub id are one bit; which is first decides nothing else.
HeaderShape ==
  [inBand : BOOLEAN, fixedGain : BOOLEAN, bandwidth : Nat,
   transmitters : Seq(Nodes), segments : Seq(Nat)]

\* An optional control message is a set of at most one.
RequestShape ==
  [frequency : SUBSET Seq(Nat), bandwidth : Nat, transmitters : SUBSET Seq(Nodes),
   foi : SUBSET FoiSettings, profile : BOOLEAN]

ASSUME PhyAssumption ==
  /\ Self \in Nodes
  /\ Frequency \in Nat \ {0}
  /\ InitialFoi.freqs \subseteq Nat /\ InitialFoi.bandwidth \in Nat \ {0}
  /\ NoiseMode \in {"none", "all", "outofband"}
  /\ NoiseMaxClamp \in BOOLEAN /\ Precomputed \in BOOLEAN
  /\ FixedGain \in BOOLEAN /\ FadingByEvent \in BOOLEAN
  /\ \A f \in ControlFois : f.freqs \subseteq Nat /\ f.bandwidth \in Nat
  /\ \A s \in EventNodes : s \subseteq Nodes

\* A packet names its transmitters, each once.
ASSUME HeadersAssumption ==
  \A h \in Headers :
    /\ h.inBand \in BOOLEAN /\ h.fixedGain \in BOOLEAN /\ h.bandwidth \in Nat
    /\ h.transmitters \in Seq(Nodes) /\ h.transmitters # <<>>
    /\ IsInjective(h.transmitters)
    /\ h.segments \in Seq(Nat)

ASSUME RequestsAssumption ==
  \A r \in Requests :
    /\ r.frequency \subseteq Seq(Nat) /\ r.bandwidth \in Nat
    /\ r.transmitters \subseteq Seq(Nodes)
    /\ \A t \in r.transmitters : IsInjective(t) /\ r.transmitters = {t}
    /\ r.foi \subseteq ControlFois /\ r.profile \in BOOLEAN

VARIABLES
  phy,          \* the layer's own state, below
  holder,       \* Utils::pathlossesHolder, by the nodes in it
  initialized,  \* Utils::initialized
  heard,        \* the last packet received: how it was counted, and its power
  sent          \* the last header sent

phyVars == <<phy, holder, initialized, heard, sent>>

NoHeader == [inBand |-> FALSE, fixedGain |-> FALSE, bandwidth |-> 0,
             transmitters |-> <<>>, segments |-> <<>>]

NothingHeard == [header |-> NoHeader, counted |-> {}, power |-> <<>>]

NothingSent == [bandwidth |-> 0, segments |-> <<>>, transmitters |-> <<>>, ota |-> {}]

\* After configure: foi and bandwidth are configured, and no event has come.
PhyConfigured ==
  [foi |-> InitialFoi.freqs, bandwidth |-> InitialFoi.bandwidth,
   located |-> {}, pathloss |-> {}, profiles |-> {}, fading |-> {}]

-----------------------------------------------------------------------------
(* processUpstreamPacket: what is known of a transmitter                   *)

Located(p, n) == {Self, n} \subseteq p.located

\* The propagation model's answer: whether it has a pathloss for the node.
HasPathloss(p, n) == IF Precomputed THEN n \in p.pathloss ELSE Located(p, n)

\* The gain manager may succeed; with profiles the node may also be below the horizon.
MayHaveGain(p, h, n) ==
  \/ FixedGain /\ h.fixedGain
  \/ Located(p, n) /\ (FixedGain \/ Self \in p.profiles) /\ (h.fixedGain \/ n \in p.profiles)

\* Answers of the gain manager: the transmitters, by place, it succeeds for.
GainAnswers(p, h) ==
  LET known == {i \in DOMAIN h.transmitters : MayHaveGain(p, h, h.transmitters[i])}
  IN IF FixedGain /\ h.fixedGain THEN {known} ELSE SUBSET known

\* Answers of the fading manager: how many segments of each transmitter it succeeds for.
FadingAnswers(p, h) ==
  {f \in [DOMAIN h.transmitters -> 0..Len(h.segments)] :
     \A i \in DOMAIN f :
       /\ ~FadingByEvent => f[i] = Len(h.segments)
       /\ FadingByEvent /\ h.transmitters[i] \notin p.fading => f[i] = 0}

\* Answers of the spectrum monitor: an exception for a value out of bounds, or the
\* segments it leaves above the receiver sensitivity.
SpectrumAnswers(h) ==
  [clamped : IF NoiseMaxClamp THEN {FALSE} ELSE BOOLEAN, kept : SUBSET DOMAIN h.segments]

\* The monitor treats a packet as in-band if each of its frequencies is of interest.
TreatAsInBand(p, h) == h.inBand /\ \A k \in DOMAIN h.segments : h.segments[k] \in p.foi

-----------------------------------------------------------------------------
(* processUpstreamPacket: the transmitters, one after the other            *)

\* The loop over the transmitters ends where a pathloss or a gain is missing ...
EndsLoop(p, h, gains, i) == ~HasPathloss(p, h.transmitters[i]) \/ i \notin gains

\* Mutant: the loop goes on over all transmitters.
ExaminedAll(p, h, gains) == DOMAIN h.transmitters

\* ... but a fading failure only ends the loop over the segments of that transmitter.
Examined(p, h, gains) ==
  {i \in DOMAIN h.transmitters :
     \A j \in DOMAIN h.transmitters : j < i => ~EndsLoop(p, h, gains, j)}

Faded(h, faded, i) == faded[i] < Len(h.segments)

\* Mutant: a failure that no case of the switch names.
LoopCodeUnnamed(p, h, gains, i) ==
  IF ~HasPathloss(p, h.transmitters[i]) THEN "propagation"
  ELSE IF i \notin gains THEN "gain" ELSE "unknown"

LoopCode(p, h, gains, i) ==
  IF ~HasPathloss(p, h.transmitters[i]) THEN "propagation"
  ELSE IF i \notin gains THEN "gain" ELSE "fading"

\* Mutant: a fading failure does not mark the packet as dropped.
DropsNotFaded(p, h, gains, faded) ==
  {i \in Examined(p, h, gains) : EndsLoop(p, h, gains, i)}

\* The transmitters the packet is dropped for, by place; each is counted.
Drops(p, h, gains, faded) ==
  {i \in Examined(p, h, gains) : EndsLoop(p, h, gains, i) \/ Faded(h, faded, i)}

\* rxPowerSegments: the transmitters added up in segment k.
Power(p, h, gains, faded, k) ==
  {i \in Examined(p, h, gains) : ~EndsLoop(p, h, gains, i) /\ k <= faded[i]}

\* What becomes of a packet that no transmitter dropped.
Verdict(p, h, spectrum) ==
  IF spectrum.clamped THEN "clamp"
  ELSE IF TreatAsInBand(p, h) THEN IF spectrum.kept = {} THEN "sensitivity" ELSE "pass"
  ELSE IF h.inBand THEN "notFoi" ELSE "outOfBand"

\* Every call of processOutbound made for the packet: the place of the transmitter it
\* was made for, or 0 at the end of the handler.
Counted(p, h, gains, faded, spectrum) ==
  IF ~h.inBand /\ NoiseMode = "none" THEN {[at |-> 0, code |-> "outOfBand"]}
  ELSE IF Drops(p, h, gains, faded) # {}
  THEN {[at |-> i, code |-> LoopCode(p, h, gains, i)] : i \in Drops(p, h, gains, faded)}
  ELSE {[at |-> 0, code |-> Verdict(p, h, spectrum)]}

\* The handler's outcome for one packet, given the answers of the external parts.
Reception(p, h, gains, faded, spectrum) ==
  [header |-> h,
   counted |-> Counted(p, h, gains, faded, spectrum),
   power |-> [k \in DOMAIN h.segments |-> Power(p, h, gains, faded, k)]]

Receptions(p, h) ==
  {Reception(p, h, gains, faded, spectrum) :
     gains \in GainAnswers(p, h), faded \in FadingAnswers(p, h),
     spectrum \in SpectrumAnswers(h)}

Passed(r) == \E c \in r.counted : c.code = "pass"

-----------------------------------------------------------------------------
(* The downstream handlers                                                 *)

\* Mutant: the bandwidth stays.
FrequenciesSetAlone(p, f) == [p EXCEPT !.foi = f.freqs]

FrequencyOfInterestSet(p, f) == [p EXCEPT !.foi = f.freqs, !.bandwidth = f.bandwidth]

\* Mutant: 0 Hz goes out as it is.
SegmentsAsGiven(segments) == segments

\* "a mac can set duration and offset without specifying frequency by using 0 Hz"
SegmentFrequencies(segments) ==
  [k \in DOMAIN segments |-> IF segments[k] = 0 THEN Frequency ELSE segments[k]]

\* "verify the transmitters list include this nem"
WithSelf(transmitters) ==
  IF \E i \in DOMAIN transmitters : transmitters[i] = Self
  THEN transmitters ELSE Append(transmitters, Self)

\* The header made for a packet with control messages r, and the over-the-air transmitters.
SentHeader(p, r) ==
  [bandwidth |-> IF r.frequency # {} /\ r.bandwidth # 0 THEN r.bandwidth ELSE p.bandwidth,
   segments |-> IF r.frequency = {} THEN <<Frequency>>
                ELSE SegmentFrequencies(CHOOSE s \in r.frequency : TRUE),
   transmitters |-> WithSelf(IF r.transmitters = {} THEN <<Self>>
                             ELSE CHOOSE t \in r.transmitters : TRUE),
   ota |-> UNION {{t[i] : i \in DOMAIN t} : t \in r.transmitters}]

\* The layer's state after the packet's own control messages.
AfterRequest(p, r) ==
  LET q == IF r.profile THEN [p EXCEPT !.profiles = @ \cup {Self}] ELSE p
  IN IF r.foi = {} THEN q ELSE FrequencyOfInterestSet(q, CHOOSE f \in r.foi : TRUE)

-----------------------------------------------------------------------------
PhyInit ==
  /\ phy = PhyConfigured
  /\ holder = {} /\ initialized = FALSE
  /\ heard = NothingHeard /\ sent = NothingSent

ProcessUpstreamPacket(h) ==
  /\ heard' \in Receptions(phy, h)
  /\ UNCHANGED <<phy, holder, initialized, sent>>

ProcessDownstreamPacket(r) ==
  /\ sent' = SentHeader(phy, r)
  /\ phy' = AfterRequest(phy, r)
  /\ UNCHANGED <<holder, initialized, heard>>

\* processDownstreamControl: a frequency of interest or an antenna profile message.
ControlFrequencyOfInterest(f) ==
  /\ phy' = FrequencyOfInterestSet(phy, f)
  /\ UNCHANGED <<holder, initialized, heard, sent>>

ControlAntennaProfile ==
  /\ phy' = [phy EXCEPT !.profiles = @ \cup {Self}]
  /\ UNCHANGED <<holder, initialized, heard, sent>>

\* processEvent: one action for each kind of event.
AntennaProfileEvent(nodes) ==
  /\ phy' = [phy EXCEPT !.profiles = @ \cup nodes]
  /\ UNCHANGED <<holder, initialized, heard, sent>>

FadingSelectionEvent(nodes) ==
  /\ phy' = [phy EXCEPT !.fading = @ \cup nodes]
  /\ UNCHANGED <<holder, initialized, heard, sent>>

LocationEvent(nodes) ==
  /\ phy' = [phy EXCEPT !.located = @ \cup nodes]
  /\ UNCHANGED <<holder, initialized, heard, sent>>

\* The propagation model keeps the pathlosses of earlier events, if it is the
\* precomputed one; the holder does not.
Merged(p, nodes) == IF Precomputed THEN p.pathloss \cup nodes ELSE p.pathloss

PathlossEvent(nodes) ==
  /\ holder' = nodes
  /\ initialized' = TRUE
  /\ phy' = [phy EXCEPT !.pathloss = Merged(phy, nodes)]
  /\ UNCHANGED <<heard, sent>>

PhyNext ==
  \/ \E h \in Headers : ProcessUpstreamPacket(h)
  \/ \E r \in Requests : ProcessDownstreamPacket(r)
  \/ \E f \in ControlFois : ControlFrequencyOfInterest(f)
  \/ ControlAntennaProfile
  \/ \E nodes \in EventNodes :
       \/ AntennaProfileEvent(nodes)
       \/ FadingSelectionEvent(nodes)
       \/ LocationEvent(nodes)
       \/ PathlossEvent(nodes)

PhySpec == PhyInit /\ [][PhyNext]_phyVars

-----------------------------------------------------------------------------
(* Properties                                                              *)

Codes == {"pass", "outOfBand", "notFoi", "clamp", "sensitivity", "propagation", "gain",
          "fading"}

PhyShape ==
  [foi : SUBSET Nat, bandwidth : Nat, located : SUBSET Nodes, pathloss : SUBSET Nodes,
   profiles : SUBSET Nodes, fading : SUBSET Nodes]

\* The layer's state is well typed.
PhyTypeOK ==
  /\ phy \in PhyShape
  /\ holder \subseteq Nodes /\ initialized \in BOOLEAN
  /\ heard.counted \subseteq [at : Nat, code : Codes]
  /\ sent.transmitters \in Seq(Nodes) /\ sent.segments \in Seq(Nat) /\ sent.bandwidth \in Nat

\* A packet received is counted as passed or as dropped, never as both, and never not
\* at all; it is counted twice only if all but its last count are for fading, whose
\* break leaves the loop over the transmitters running (frameworkphyHB.cc:1075).
CountedOnceUnlessFaded ==
  /\ heard # NothingHeard => heard.counted # {}
  /\ \A c, d \in heard.counted :
       c # d => /\ "pass" \notin {c.code, d.code}
                /\ c.at < d.at => c.code = "fading"

\* A packet goes up to the MAC only if it is of this network, on frequencies of interest
\* alone, and with the power of each of its transmitters, whose pathlosses were all
\* known, in each of its segments (frameworkphyHB.cc:1171).
PassedWithAllPower ==
  [][heard' # heard /\ Passed(heard') =>
       LET h == heard'.header IN
       /\ h.inBand /\ h.segments # <<>>
       /\ \A k \in DOMAIN h.segments :
            /\ h.segments[k] \in phy.foi
            /\ heard'.power[k] = DOMAIN h.transmitters
       /\ \A i \in DOMAIN h.transmitters : HasPathloss(phy, h.transmitters[i])]_phyVars

NamedOnce(transmitters, n) ==
  \E i \in DOMAIN transmitters :
    /\ transmitters[i] = n
    /\ \A j \in DOMAIN transmitters : transmitters[j] = n => j = i

\* A header names this node as a transmitter exactly once, no frequency of 0 Hz, and,
\* when the MAC names the transmitters, over the air no other node than the header does.
HeaderSound ==
  sent # NothingSent =>
    /\ NamedOnce(sent.transmitters, Self)
    /\ \A k \in DOMAIN sent.segments : sent.segments[k] # 0
    /\ \A n \in sent.ota : \E i \in DOMAIN sent.transmitters : sent.transmitters[i] = n
=============================================================================
