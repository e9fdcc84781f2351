------------------------ MODULE TdmaTransmit_proofs ------------------------
(***************************************************************************)
(* Proofs about TdmaTransmit, for every set of decoded events and every    *)
(* bound: the timer chain, the accounting of transmit slots and the order  *)
(* of transmissions.                                                       *)
(***************************************************************************)
EXTENDS TdmaTransmit, EventScheduler_proofs

Multi(s) == NumSlots(s.structure)

OpportunitiesOf(s, lo, hi) == {a \in lo..(hi - 1) : IsTransmit(s, a)}

-----------------------------------------------------------------------------
(* The slots getTxSlotInfo lists                                           *)

\* The lookup by relative frame and slot is the remainder by the multiframe.
LEMMA RelativeIsRemainder ==
  ASSUME NEW F \in Nat, NEW S \in Nat, F > 0, S > 0, NEW a \in Nat
  PROVE  ((a \div S) % F) * S + (a % S) = a % (F * S)
<1> DEFINE q == a \div S
           r == a % S
           m == q \div F
           f == q % F
<1>1. q \in Nat /\ r \in 0..(S - 1) /\ a = q * S + r  OBVIOUS
<1>2. m \in Nat /\ f \in 0..(F - 1) /\ q = m * F + f  BY <1>1
<1>3. f * S + r \in 0..(F * S - 1)  BY <1>1, <1>2, IndexInRange
<1>4. a = m * (F * S) + (f * S + r)  BY <1>1, <1>2
<1> HIDE DEF q, r, m, f
<1>5. F * S \in Nat /\ F * S > 0  OBVIOUS
<1>6. (m * (F * S) + (f * S + r)) % (F * S) = f * S + r
  BY <1>2, <1>3, <1>5
<1>7. a % (F * S) = f * S + r  BY <1>4, <1>6
<1> QED BY <1>7, Zenon DEF q, r, f

LEMMA SoundIndex ==
  ASSUME NEW s, Sound(s), ~Empty(s)
  PROVE  /\ Multi(s) \in Nat /\ Multi(s) > 0
         /\ MultiFrameLength(s.slotter) = Multi(s)
         /\ DOMAIN s.slots = 0..(Multi(s) - 1)
         /\ \A a \in Nat : RelativeIndex(s, a) = a % Multi(s)
<1>1. /\ s.structure.frames \in Nat /\ s.structure.slots \in Nat
      /\ s.slotter.frames = s.structure.frames /\ s.slotter.slots = s.structure.slots
  BY DEF Sound, Structures, SlotterReset
<1>2. DOMAIN s.slots = 0..(Multi(s) - 1)  BY DEF Sound, Multi
<1>3. Multi(s) = s.structure.frames * s.structure.slots  BY DEF Multi, NumSlots
<1>4. Multi(s) \in Nat /\ Multi(s) > 0  BY <1>1, <1>2, <1>3 DEF Empty
<1>5. s.structure.frames > 0 /\ s.structure.slots > 0  BY <1>1, <1>3, <1>4
<1>6. \A a \in Nat : RelativeIndex(s, a) = a % Multi(s)
  <2> SUFFICES ASSUME NEW a \in Nat PROVE RelativeIndex(s, a) = a % Multi(s)
    OBVIOUS
  <2>1. ((a \div s.structure.slots) % s.structure.frames) * s.structure.slots
          + (a % s.structure.slots) = a % (s.structure.frames * s.structure.slots)
    BY <1>1, <1>5, RelativeIsRemainder
  <2> QED BY <1>1, <1>3, <2>1, Zenon DEF RelativeIndex, RelativeFrame, RelativeSlot
<1>7. MultiFrameLength(s.slotter) = Multi(s)
  BY <1>1, <1>3 DEF MultiFrameLength
<1> QED BY <1>2, <1>4, <1>6, <1>7

\* Within a multiframe that starts at a multiple of its length, slots count from 0.
LEMMA AlignedRemainder ==
  ASSUME NEW n \in Nat, n > 0, NEW m \in Nat, NEW k \in 0..(n - 1)
  PROVE  (m * n + k) % n = k /\ (m * n + k) \div n = m
  OBVIOUS

\* A request at the start of multiframe m lists all its transmit slots and ends with it.
LEMMA ListsMultiFrame ==
  ASSUME NEW s, Sound(s), ~Empty(s), NEW a, NEW m \in Nat,
         RequestSlot(s, a) = m * Multi(s)
  PROVE  /\ TxSlotInfo(s, a).next = (m + 1) * Multi(s)
         /\ TxSlotInfo(s, a).slots =
              OpportunitiesOf(s, m * Multi(s), (m + 1) * Multi(s))
         /\ TxSlotInfo(s, a).slots # {} <=> Transmits(s)
<1> DEFINE n == Multi(s)
           r == RequestSlot(s, a)
<1>1. n \in Nat /\ n > 0 /\ MultiFrameLength(s.slotter) = n /\ DOMAIN s.slots = 0..(n - 1)
      /\ \A b \in Nat : RelativeIndex(s, b) = b % n
  BY SoundIndex
<1>2. r = m * n /\ r \in Nat /\ (m + 1) * n = r + n
  <2>1. r = m * n  OBVIOUS
  <2> HIDE DEF n, r
  <2> QED BY <1>1, <2>1
<1>3. \A k \in 0..(n - 1) : (r + k) % n = k /\ (r + k) \div n = m
  BY <1>1, <1>2, AlignedRemainder
<1>4. r % n = 0 /\ r \div n = m
  <2> HIDE DEF n, r
  <2>1. (r + 0) % n = 0 /\ (r + 0) \div n = m  BY <1>1, <1>3
  <2>2. r + 0 = r  BY <1>2
  <2> QED BY <2>1, <2>2
<1>5. RelativeIndex(s, r) = 0  BY <1>1, <1>2, <1>4
<1>6. TxSlotInfo(s, a).next = (m + 1) * n
  BY <1>1, <1>4 DEF TxSlotInfo, MultiFrameIndex, MultiFrameSlot
<1>7. TxSlotInfo(s, a).slots =
        {r + (k - 0) : k \in {i \in DOMAIN s.slots : i >= 0 /\ s.slots[i].type = "tx"}}
  BY <1>5 DEF TxSlotInfo, TxSlots
<1> DEFINE tx == {k \in 0..(n - 1) : s.slots[k].type = "tx"}
<1>8. \A k \in 0..(n - 1) : IsTransmit(s, r + k) <=> s.slots[k].type = "tx"
  <2> SUFFICES ASSUME NEW k \in 0..(n - 1)
               PROVE  IsTransmit(s, r + k) <=> s.slots[k].type = "tx"
    OBVIOUS
  <2>1. RelativeIndex(s, r + k) = k  BY <1>1, <1>2, <1>3
  <2> QED BY <2>1 DEF IsTransmit, InfoAt
<1>9. TxSlotInfo(s, a).slots = OpportunitiesOf(s, r, r + n)
  <2> HIDE DEF r, n
  <2>1. ASSUME NEW b \in TxSlotInfo(s, a).slots PROVE b \in OpportunitiesOf(s, r, r + n)
    <3>1. PICK k \in 0..(n - 1) : b = r + (k - 0) /\ s.slots[k].type = "tx"
      BY <1>1, <1>7, <2>1
    <3>2. b = r + k /\ b \in r..((r + n) - 1)
      <4>1. r \in Int /\ n \in Int /\ k \in 0..(n - 1) /\ b = r + (k - 0)
        BY <1>1, <1>2, <3>1
      <4> QED BY <4>1
    <3> QED BY <1>8, <3>1, <3>2 DEF OpportunitiesOf
  <2>2. ASSUME NEW b \in OpportunitiesOf(s, r, r + n) PROVE b \in TxSlotInfo(s, a).slots
    <3>1. b \in r..((r + n) - 1) /\ IsTransmit(s, b)
      BY <2>2, Zenon DEF OpportunitiesOf
    <3>2. b - r \in 0..(n - 1) /\ b = r + (b - r) /\ b = r + ((b - r) - 0)
      <4>1. r \in Int /\ n \in Int /\ b \in r..((r + n) - 1)  BY <1>1, <1>2, <3>1
      <4> QED BY <4>1
    <3>3. s.slots[b - r].type = "tx"  BY <1>8, <3>1, <3>2
    <3>4. b - r \in {i \in DOMAIN s.slots : i >= 0 /\ s.slots[i].type = "tx"}
      BY <1>1, <3>2, <3>3
    <3>5. b \in {r + (k - 0) :
                k \in {i \in DOMAIN s.slots : i >= 0 /\ s.slots[i].type = "tx"}}
      BY <3>2, <3>4, Zenon
    <3> QED BY <1>7, <3>5, Zenon
  <2> QED BY <2>1, <2>2
<1>10. TxSlotInfo(s, a).slots # {} <=> Transmits(s)
  BY <1>1, <1>7 DEF Transmits
<1> QED BY <1>2, <1>6, <1>9, <1>10

\* Under a schedule whose first request is past, a refill at multiframe m lists it.
LEMMA RefillLists ==
  ASSUME NEW s, Sound(s), ~Empty(s), s.waiting = FALSE, NEW m \in Nat
  PROVE  /\ TxSlotInfo(s, m * Multi(s)).next = (m + 1) * Multi(s)
         /\ TxSlotInfo(s, m * Multi(s)).slots =
              OpportunitiesOf(s, m * Multi(s), (m + 1) * Multi(s))
         /\ TxSlotInfo(s, m * Multi(s)).slots # {} <=> Transmits(s)
<1>1. RequestSlot(s, m * Multi(s)) = m * Multi(s)  BY DEF RequestSlot
<1> QED BY <1>1, ListsMultiFrame

\* The first request of a new schedule starts at a multiframe that is still to come.
LEMMA FirstRequestLists ==
  ASSUME NEW s, Sound(s), ~Empty(s), s.waiting = TRUE, NEW c \in Nat
  PROVE  \E m \in Nat :
           /\ RequestSlot(s, c) = m * Multi(s)
           /\ m * Multi(s) > c
           /\ TxSlotInfo(s, c).next = (m + 1) * Multi(s)
           /\ TxSlotInfo(s, c).slots =
                OpportunitiesOf(s, m * Multi(s), (m + 1) * Multi(s))
           /\ TxSlotInfo(s, c).slots # {} <=> Transmits(s)
<1> DEFINE m == (c \div Multi(s)) + 1
<1>1. Multi(s) \in Nat /\ Multi(s) > 0 /\ MultiFrameLength(s.slotter) = Multi(s)
  BY SoundIndex
<1>2. m \in Nat  BY <1>1
<1>3. RequestSlot(s, c) = m * Multi(s)
  BY <1>1 DEF RequestSlot, MultiFrameSlot, MultiFrameIndex
<1>4. m * Multi(s) > c  BY <1>1
<1> HIDE DEF m
<1> QED BY <1>2, <1>3, <1>4, ListsMultiFrame

\* After a notification there is a first request to make, unless no schedule is left.
LEMMA NotifiedWaits ==
  ASSUME NEW s, NEW e, Sound(s), DecodedEvent(e), Response(s, e).notify
  PROVE  LET t == Response(s, e).sched IN Empty(t) \/ t.waiting = TRUE
<1>1. e.kind \in {"full", "exception", "update"}  BY DEF DecodedEvent
<1>2. s.waiting \in BOOLEAN  BY DEF Sound
<1>3. CASE e.kind = "full"
  <2>1. Response(s, e).sched = Replaced(s, e)  BY <1>3 DEF Response
  <2> QED BY <2>1 DEF Replaced
<1>4. CASE e.kind = "exception"
  <2>1. Response(s, e).sched = Flushed(s)  BY <1>4 DEF Response
  <2> QED BY <1>2, <2>1, FlushedSound
<1>5. CASE e.kind = "update" /\ Empty(s)
  BY <1>5 DEF Response
<1>6. CASE e.kind = "update" /\ ~Empty(s) /\ Rejected(s, e) # {}
  <2>1. Response(s, e).sched = Flushed(s)  BY <1>6 DEF Response
  <2> QED BY <1>2, <2>1, FlushedSound
<1>7. CASE e.kind = "update" /\ ~Empty(s) /\ Rejected(s, e) = {}
  <2>1. Response(s, e).sched = Updated(s, e)  BY <1>7 DEF Response
  <2>2. s = [structure |-> s.structure, slots |-> s.slots, freqs |-> s.freqs,
             slotter |-> s.slotter, waiting |-> s.waiting]
    BY DEF Sound
  <2> HIDE DEF Sound
  <2>3. Updated(s, e).waiting = TRUE  BY <2>2 DEF Updated
  <2> QED BY <2>1, <2>3
<1> QED BY <1>1, <1>3, <1>4, <1>5, <1>6, <1>7

\* The least element of a set of slots.
LEMMA FirstIsLeast ==
  ASSUME NEW T \in SUBSET Nat, T # {}
  PROVE  /\ First(T) \in T
         /\ \A b \in T \ {First(T)} : First(T) < b
<1>1. First(T) \in T /\ \A b \in T : First(T) <= b
  BY LeastExists DEF First
<1>2. ASSUME NEW b \in T \ {First(T)} PROVE First(T) < b
  <2>1. First(T) \in Nat /\ b \in Nat /\ First(T) <= b /\ b # First(T)  BY <1>1
  <2> QED BY <2>1
<1> QED BY <1>1, <1>2

-----------------------------------------------------------------------------
(* The inductive invariant                                                 *)

\* No timer or callback is bound to a schedule that is still to come.
Indexed ==
  /\ \A t \in timers : t.index <= scheduleIndex
  /\ \A i \in DOMAIN calls : calls[i] <= scheduleIndex

\* The list reaches to the end of a multiframe and follows the slot in hand.
Listed ==
  /\ ~Transmits(sched) => txSlots = {}
  /\ Transmits(sched) =>
       /\ from <= nextMultiFrame
       /\ nextMultiFrame % Multi(sched) = 0
       /\ pc # "find" => \A b \in txSlots : pending < b

\* How the slots the handler works on lie around the present one.
Timed ==
  /\ lastVerdict <= clock /\ nowSlot <= clock /\ onAir.slot <= lastVerdict
  /\ Due # {} => pending <= clock
  /\ pc \in {"send", "open"} => nowSlot = pending
  /\ TurnsToPresentSlot
  /\ pc = "find" => nowSlot = clock \/ \A b \in txSlots : nowSlot < b

TxInv ==
  /\ TypeOK
  /\ SchedInv
  /\ Indexed
  /\ SingleChain
  /\ EveryOpportunityAccounted
  /\ NoSecondVerdict
  /\ Listed
  /\ Timed
  /\ RadioKnowsFrequencies

\* While the schedule stays, so does everything that is said of it alone.
LEMMA SameSchedule ==
  ASSUME UNCHANGED schedVars
  PROVE  /\ SchedInv <=> SchedInv'
         /\ SchedTypeOK <=> SchedTypeOK'
         /\ Transmits(sched)' <=> Transmits(sched)
         /\ Multi(sched)' = Multi(sched)
         /\ sched' = sched
<1>1. sched' = sched /\ outcome' = outcome  BY DEF schedVars
<1>2. SchedInv <=> SchedInv'
  BY <1>1 DEF SchedInv, Sound, NoPendingFirstRequest, Empty
<1>3. SchedTypeOK <=> SchedTypeOK'
  BY <1>1 DEF SchedTypeOK
<1> QED BY <1>1, <1>2, <1>3 DEF Transmits, Multi, NumSlots

LEMMA TickInv == ASSUME TxInv, Tick PROVE TxInv'
<1> USE DEF TxInv
<1>1. /\ clock \in Nat /\ clock' = clock + 1 /\ clock < MaxSlot
      /\ pc # "send" /\ pc # "find"
  BY DEF TypeOK, Tick
<1>2. UNCHANGED <<schedVars, timers, calls, initialized, reader, macVars, runVars, historyVars>>
  BY DEF Tick
<1> USE <1>2 DEF macVars, runVars, historyVars
<1>3. /\ SchedInv' /\ SchedTypeOK' /\ (Transmits(sched)' <=> Transmits(sched))
      /\ Multi(sched)' = Multi(sched) /\ sched' = sched
  BY SameSchedule DEF TypeOK
<1>4. TypeOK'
  BY <1>1, <1>3, BoundsAssumption DEF TypeOK
<1>5. Indexed'  BY DEF Indexed
<1>6. SingleChain'
  BY <1>3 DEF SingleChain, Armed, Due
<1>7. EveryOpportunityAccounted' /\ NoSecondVerdict'
  BY <1>3 DEF EveryOpportunityAccounted, NoSecondVerdict, Remaining, Opportunities
<1>8. Listed'  BY <1>3 DEF Listed
<1>9. Timed'
  BY <1>1 DEF Timed, Due, TurnsToPresentSlot, TypeOK
<1>10. RadioKnowsFrequencies'
  BY <1>3 DEF RadioKnowsFrequencies, Announced
<1> QED BY <1>3, <1>4, <1>5, <1>6, <1>7, <1>8, <1>9, <1>10

LEMMA LearnPathlossInv == ASSUME TxInv, LearnPathloss PROVE TxInv'
<1> USE DEF TxInv
<1>1. initialized' \in BOOLEAN /\ reader' \in BOOLEAN
  BY DEF TypeOK, LearnPathloss
<1>2. UNCHANGED <<schedVars, clock, timers, calls, macVars, runVars, historyVars>>
  BY DEF LearnPathloss
<1> USE <1>2 DEF macVars, runVars, historyVars
<1>3. /\ SchedInv' /\ SchedTypeOK' /\ (Transmits(sched)' <=> Transmits(sched))
      /\ Multi(sched)' = Multi(sched) /\ sched' = sched
  BY SameSchedule DEF TypeOK
<1>4. TypeOK'
  BY <1>1, <1>3 DEF TypeOK
<1>5. Indexed'  BY DEF Indexed
<1>6. SingleChain'
  BY <1>3 DEF SingleChain, Armed, Due
<1>7. EveryOpportunityAccounted' /\ NoSecondVerdict'
  BY <1>3 DEF EveryOpportunityAccounted, NoSecondVerdict, Remaining, Opportunities
<1>8. Listed'  BY <1>3 DEF Listed
<1>9. Timed'
  BY DEF Timed, Due, TurnsToPresentSlot
<1>10. RadioKnowsFrequencies'
  BY <1>3 DEF RadioKnowsFrequencies, Announced
<1> QED BY <1>3, <1>4, <1>5, <1>6, <1>7, <1>8, <1>9, <1>10

LEMMA ReaderLeavesInv == ASSUME TxInv, ReaderLeaves PROVE TxInv'
<1> USE DEF TxInv
<1>1. initialized' \in BOOLEAN /\ reader' \in BOOLEAN
  BY DEF TypeOK, ReaderLeaves
<1>2. UNCHANGED <<schedVars, clock, timers, calls, macVars, runVars, historyVars>>
  BY DEF ReaderLeaves
<1> USE <1>2 DEF macVars, runVars, historyVars
<1>3. /\ SchedInv' /\ SchedTypeOK' /\ (Transmits(sched)' <=> Transmits(sched))
      /\ Multi(sched)' = Multi(sched) /\ sched' = sched
  BY SameSchedule DEF TypeOK
<1>4. TypeOK'
  BY <1>1, <1>3 DEF TypeOK
<1>5. Indexed'  BY DEF Indexed
<1>6. SingleChain'
  BY <1>3 DEF SingleChain, Armed, Due
<1>7. EveryOpportunityAccounted' /\ NoSecondVerdict'
  BY <1>3 DEF EveryOpportunityAccounted, NoSecondVerdict, Remaining, Opportunities
<1>8. Listed'  BY <1>3 DEF Listed
<1>9. Timed'
  BY DEF Timed, Due, TurnsToPresentSlot
<1>10. RadioKnowsFrequencies'
  BY <1>3 DEF RadioKnowsFrequencies, Announced
<1> QED BY <1>3, <1>4, <1>5, <1>6, <1>7, <1>8, <1>9, <1>10

LEMMA ReaderReturnsInv == ASSUME TxInv, ReaderReturns PROVE TxInv'
<1> USE DEF TxInv
<1>1. initialized' \in BOOLEAN /\ reader' \in BOOLEAN
  BY DEF TypeOK, ReaderReturns
<1>2. UNCHANGED <<schedVars, clock, timers, calls, macVars, runVars, historyVars>>
  BY DEF ReaderReturns
<1> USE <1>2 DEF macVars, runVars, historyVars
<1>3. /\ SchedInv' /\ SchedTypeOK' /\ (Transmits(sched)' <=> Transmits(sched))
      /\ Multi(sched)' = Multi(sched) /\ sched' = sched
  BY SameSchedule DEF TypeOK
<1>4. TypeOK'
  BY <1>1, <1>3 DEF TypeOK
<1>5. Indexed'  BY DEF Indexed
<1>6. SingleChain'
  BY <1>3 DEF SingleChain, Armed, Due
<1>7. EveryOpportunityAccounted' /\ NoSecondVerdict'
  BY <1>3 DEF EveryOpportunityAccounted, NoSecondVerdict, Remaining, Opportunities
<1>8. Listed'  BY <1>3 DEF Listed
<1>9. Timed'
  BY DEF Timed, Due, TurnsToPresentSlot
<1>10. RadioKnowsFrequencies'
  BY <1>3 DEF RadioKnowsFrequencies, Announced
<1> QED BY <1>3, <1>4, <1>5, <1>6, <1>7, <1>8, <1>9, <1>10

\* A fired timer of the schedule in force becomes its one queued callback; another one
\* leaves the chain as it is.
LEMMA FireTimerInv == ASSUME TxInv, NEW t \in timers, FireTimer(t) PROVE TxInv'
<1> USE DEF TxInv
<1>1. /\ t \in [index : 0..MaxSchedules, at : Nat] /\ t.at <= clock
      /\ timers' = timers \ {t} /\ calls' = Append(calls, t.index)
      /\ calls \in Seq(0..MaxSchedules) /\ t.index <= scheduleIndex
  BY DEF TypeOK, FireTimer, Indexed
<1>2. UNCHANGED <<schedVars, clock, initialized, reader, macVars, runVars, historyVars>>
  BY DEF FireTimer
<1> USE <1>2 DEF macVars, runVars, historyVars
<1>3. /\ SchedInv' /\ SchedTypeOK' /\ (Transmits(sched)' <=> Transmits(sched))
      /\ Multi(sched)' = Multi(sched) /\ sched' = sched
  BY SameSchedule DEF TypeOK
<1>4. TypeOK'
  BY <1>1, <1>3 DEF TypeOK
<1>5. Indexed'
  BY <1>1 DEF Indexed
<1>6. /\ DOMAIN calls = 1..Len(calls) /\ Len(calls) \in Nat
      /\ DOMAIN calls' = 1..(Len(calls) + 1)
      /\ \A i \in 1..Len(calls) : calls'[i] = calls[i]
      /\ calls'[Len(calls) + 1] = t.index
  BY <1>1
<1>7. SingleChain' /\ Timed'
  <2>1. CASE t.index = scheduleIndex
    <3>1. t \in Armed  BY <2>1 DEF Armed
    <3>2. /\ pc = "idle" /\ Transmits(sched)
          /\ Armed = {Timer(scheduleIndex, pending)} /\ Due = {}
      BY <3>1 DEF SingleChain
    <3>3. t = Timer(scheduleIndex, pending) /\ t.at = pending
      BY <3>1, <3>2 DEF Timer
    <3>4. Armed' = {} /\ Due' = {Len(calls) + 1}
      BY <1>1, <1>6, <2>1, <3>2, <3>3 DEF Armed, Due
    <3>5. SingleChain'
      BY <1>3, <1>6, <3>2, <3>4 DEF SingleChain
    <3>6. Timed'
      BY <1>1, <3>2, <3>3 DEF Timed, TurnsToPresentSlot
    <3> QED BY <3>5, <3>6
  <2>2. CASE t.index # scheduleIndex
    <3>1. Armed' = Armed /\ Due' = Due
      BY <1>1, <1>6, <2>2 DEF Armed, Due
    <3>2. SingleChain'
      BY <1>3, <1>6, <3>1 DEF SingleChain
    <3>3. Timed'
      BY <3>1 DEF Timed, TurnsToPresentSlot
    <3> QED BY <3>2, <3>3
  <2> QED BY <2>1, <2>2
<1>9. EveryOpportunityAccounted' /\ NoSecondVerdict'
  BY <1>3 DEF EveryOpportunityAccounted, NoSecondVerdict, Remaining, Opportunities
<1>10. Listed'  BY <1>3 DEF Listed
<1>11. RadioKnowsFrequencies'
  BY <1>3 DEF RadioKnowsFrequencies, Announced
<1> QED BY <1>3, <1>4, <1>5, <1>7, <1>9, <1>10, <1>11

\* A callback of an earlier schedule is taken from the queue and nothing else happens.
LEMMA DisregardInv == ASSUME TxInv, DisregardOldOpportunity PROVE TxInv'
<1> USE DEF TxInv
<1>1. /\ pc = "idle" /\ calls # <<>> /\ calls \in Seq(0..MaxSchedules)
      /\ Head(calls) # scheduleIndex /\ calls' = Tail(calls)
  BY DEF TypeOK, DisregardOldOpportunity, CurrentCallback
<1>2. UNCHANGED <<schedVars, clock, timers, initialized, reader, macVars, runVars, historyVars>>
  BY DEF DisregardOldOpportunity
<1> USE <1>2 DEF macVars, runVars, historyVars
<1>3. /\ SchedInv' /\ SchedTypeOK' /\ (Transmits(sched)' <=> Transmits(sched))
      /\ Multi(sched)' = Multi(sched) /\ sched' = sched
  BY SameSchedule DEF TypeOK
<1>4. /\ DOMAIN calls = 1..Len(calls) /\ Len(calls) \in Nat /\ Len(calls) > 0
      /\ DOMAIN calls' = 1..(Len(calls) - 1)
      /\ \A i \in 1..(Len(calls) - 1) : calls'[i] = calls[i + 1]
      /\ calls[1] # scheduleIndex
      /\ calls' \in Seq(0..MaxSchedules)
  BY <1>1
<1>5. TypeOK'
  BY <1>3, <1>4 DEF TypeOK
<1>6. Indexed'
  BY <1>4 DEF Indexed
<1>7. Armed' = Armed  BY DEF Armed
<1>8. Due' = {i - 1 : i \in Due}
  <2>1. ASSUME NEW i \in Due' PROVE i \in {j - 1 : j \in Due}
    <3>1. i + 1 \in Due /\ i = (i + 1) - 1  BY <1>4, <2>1 DEF Due
    <3> QED BY <3>1
  <2>2. ASSUME NEW j \in Due PROVE j - 1 \in Due'
    <3>1. j \in 1..Len(calls) /\ j # 1 /\ calls[j] = scheduleIndex  BY <1>4, <2>2 DEF Due
    <3>2. j - 1 \in 1..(Len(calls) - 1) /\ (j - 1) + 1 = j  BY <1>4, <3>1
    <3> QED BY <1>4, <3>1, <3>2 DEF Due
  <2> QED BY <2>1, <2>2
<1>9. SingleChain'
  <2>1. Due = {} => Due' = {}  BY <1>8
  <2>2. \A i : Due = {i} => Due' = {i - 1} /\ i - 1 \in DOMAIN calls'
    <3>1. ASSUME NEW i, Due = {i} PROVE Due' = {i - 1} /\ i - 1 \in DOMAIN calls'
      <4>1. Due' = {i - 1}  BY <1>8, <3>1
      <4> QED BY <4>1 DEF Due
    <3> QED BY <3>1
  <2> QED BY <1>1, <1>3, <1>7, <2>1, <2>2 DEF SingleChain
<1>10. EveryOpportunityAccounted' /\ NoSecondVerdict'
  BY <1>3 DEF EveryOpportunityAccounted, NoSecondVerdict, Remaining, Opportunities
<1>11. Listed'  BY <1>3 DEF Listed
<1>12. Timed'
  BY <1>8 DEF Timed, TurnsToPresentSlot
<1>13. RadioKnowsFrequencies'
  BY <1>3 DEF RadioKnowsFrequencies, Announced
<1> QED BY <1>3, <1>5, <1>6, <1>9, <1>10, <1>11, <1>12, <1>13

LEMMA OpenFifoInv == ASSUME TxInv, OpenFifo PROVE TxInv'
<1> USE DEF TxInv
<1>1. pc = "send" /\ pc' = "open"  BY DEF OpenFifo
<1>2. UNCHANGED <<schedVars, envVars, macVars, nowSlot, historyVars>>  BY DEF OpenFifo
<1> USE <1>2 DEF envVars, macVars, historyVars
<1>3. /\ SchedInv' /\ SchedTypeOK' /\ (Transmits(sched)' <=> Transmits(sched))
      /\ Multi(sched)' = Multi(sched) /\ sched' = sched
  BY SameSchedule DEF TypeOK
<1>4. TypeOK'  BY <1>1, <1>3 DEF TypeOK
<1>5. Indexed'  BY DEF Indexed
<1>6. SingleChain'  BY <1>1, <1>3 DEF SingleChain, Armed, Due
<1>7. EveryOpportunityAccounted' /\ NoSecondVerdict'
  BY <1>1, <1>3 DEF EveryOpportunityAccounted, NoSecondVerdict, Remaining, Opportunities
<1>8. Listed'  BY <1>1, <1>3 DEF Listed
<1>9. Timed'  BY <1>1 DEF Timed, Due, TurnsToPresentSlot
<1>10. RadioKnowsFrequencies'
  BY <1>3 DEF RadioKnowsFrequencies, Announced
<1> QED BY <1>3, <1>4, <1>5, <1>6, <1>7, <1>8, <1>9, <1>10
-----------------------------------------------------------------------------
(* Serving slots                                                           *)

LEMMA OpportunitySplit ==
  ASSUME NEW s, NEW lo \in Nat, NEW mid \in Nat, NEW hi \in Nat, lo <= mid, mid <= hi
  PROVE  OpportunitiesOf(s, lo, hi) =
           OpportunitiesOf(s, lo, mid) \cup OpportunitiesOf(s, mid, hi)
<1>1. lo..(hi - 1) = (lo..(mid - 1)) \cup (mid..(hi - 1))  OBVIOUS
<1> QED BY <1>1 DEF OpportunitiesOf

\* An empty list is filled with the whole next multiframe, which has transmit slots.
LEMMA RefillStep ==
  ASSUME SchedInv, Transmits(sched), nextMultiFrame \in Nat,
         nextMultiFrame % Multi(sched) = 0, NEW X \in SUBSET Nat, Refill(X)
  PROVE  /\ txSlots' \in SUBSET Nat /\ txSlots' # {}
         /\ nextMultiFrame' \in Nat /\ nextMultiFrame <= nextMultiFrame'
         /\ nextMultiFrame' % Multi(sched) = 0
         /\ X # {} => txSlots' = X /\ nextMultiFrame' = nextMultiFrame
         /\ X = {} => txSlots' = OpportunitiesOf(sched, nextMultiFrame, nextMultiFrame')
<1>1. Sound(sched) /\ ~Empty(sched) /\ sched.waiting = FALSE
  <2>1. Sound(sched) /\ ~Empty(sched)  BY DEF SchedInv, Transmits, Empty
  <2>2. sched.waiting \in BOOLEAN /\ (sched.waiting => Empty(sched))
    BY <2>1 DEF SchedInv, Sound, NoPendingFirstRequest
  <2> QED BY <2>1, <2>2
<1> DEFINE n == Multi(sched)
           m == nextMultiFrame \div n
<1>2. n \in Nat /\ n > 0  BY <1>1, SoundIndex
<1> HIDE DEF n
<1>3. m \in Nat /\ nextMultiFrame = m * n /\ (m + 1) * n = nextMultiFrame + n
      /\ (nextMultiFrame + n) % n = 0
  <2>1. m \in Nat /\ nextMultiFrame = m * n
    BY <1>2 DEF n
  <2> HIDE DEF m
  <2>2. (m + 1) * n = m * n + n  BY <1>2, <2>1
  <2>3. ((m + 1) * n + 0) % n = 0  BY <1>2, <2>1, AlignedRemainder
  <2>4. (m + 1) * n + 0 = nextMultiFrame + n  BY <1>2, <2>1, <2>2
  <2> QED BY <2>1, <2>2, <2>3, <2>4
<1> HIDE DEF m
<1>4. CASE X # {}
  <2>1. txSlots' = X /\ nextMultiFrame' = nextMultiFrame
    BY <1>4, Zenon DEF Refill
  <2>2. nextMultiFrame <= nextMultiFrame  OBVIOUS
  <2>3. /\ nextMultiFrame' \in Nat /\ nextMultiFrame <= nextMultiFrame'
        /\ nextMultiFrame' % Multi(sched) = 0 /\ txSlots' \in SUBSET Nat
    BY <2>1, <2>2, Zenon
  <2> QED BY <1>4, <2>1, <2>3, Zenon
<1>5. CASE X = {}
  <2>1. /\ TxSlotInfo(sched, m * n).next = (m + 1) * n
        /\ TxSlotInfo(sched, m * n).slots = OpportunitiesOf(sched, m * n, (m + 1) * n)
        /\ TxSlotInfo(sched, m * n).slots # {}
    BY <1>1, <1>3, RefillLists DEF n
  <2>2. /\ txSlots' = TxSlotInfo(sched, nextMultiFrame).slots
        /\ nextMultiFrame' = TxSlotInfo(sched, nextMultiFrame).next
    BY <1>5 DEF Refill
  <2>3. nextMultiFrame' = nextMultiFrame + n
    BY <1>3, <2>1, <2>2
  <2>4. /\ txSlots' = OpportunitiesOf(sched, nextMultiFrame, nextMultiFrame')
        /\ txSlots' # {}
    BY <1>3, <2>1, <2>2
  <2>5. nextMultiFrame' \in Nat /\ nextMultiFrame <= nextMultiFrame'
    BY <1>2, <2>3
  <2>6. txSlots' \in SUBSET Nat
    BY <2>4, <2>5 DEF OpportunitiesOf
  <2>7. nextMultiFrame' % n = 0  BY <1>3, <2>3
  <2> QED BY <1>5, <2>4, <2>5, <2>6, <2>7 DEF n
<1> QED BY <1>4, <1>5

\* Giving the slot in hand its status keeps the account, and the list is never left empty.
LEMMA ServeSlot ==
  ASSUME SchedInv, Transmits(sched), UNCHANGED schedVars,
         from \in Nat, nextMultiFrame \in Nat, from <= nextMultiFrame,
         nextMultiFrame % Multi(sched) = 0, verdicts \subseteq Nat,
         NEW p \in Nat, NEW X \in SUBSET Nat,
         verdicts \cup {p} \cup X = Opportunities(from, nextMultiFrame),
         \A a \in verdicts : a < p,
         \A b \in X : p < b,
         from' = from, pc' = "find", Verdict(p), Refill(X)
  PROVE  /\ txSlots' \in SUBSET Nat /\ txSlots' # {} /\ nextMultiFrame' \in Nat
         /\ verdicts' \subseteq Nat /\ lastVerdict' = p
         /\ \A b \in txSlots' : p < b
         /\ EveryOpportunityAccounted' /\ NoSecondVerdict' /\ Listed'
<1>1. /\ txSlots' \in SUBSET Nat /\ txSlots' # {}
      /\ nextMultiFrame' \in Nat /\ nextMultiFrame <= nextMultiFrame'
      /\ nextMultiFrame' % Multi(sched) = 0
      /\ X # {} => txSlots' = X /\ nextMultiFrame' = nextMultiFrame
      /\ X = {} => txSlots' = OpportunitiesOf(sched, nextMultiFrame, nextMultiFrame')
  BY RefillStep
<1>2. verdicts' = verdicts \cup {p} /\ lastVerdict' = p  BY DEF Verdict
<1>3. /\ sched' = sched /\ (Transmits(sched)' <=> Transmits(sched))
      /\ Multi(sched)' = Multi(sched)
  BY SameSchedule
<1>4. p < nextMultiFrame
  <2>1. p \in Opportunities(from, nextMultiFrame)  OBVIOUS
  <2> QED BY <2>1 DEF Opportunities
<1>5. \A b \in txSlots' : p < b
  <2>1. CASE X # {}  BY <1>1, <2>1
  <2>2. CASE X = {}
    <3>1. \A b \in txSlots' : b \in Nat /\ nextMultiFrame <= b
      BY <1>1, <2>2 DEF OpportunitiesOf
    <3> QED BY <1>4, <3>1
  <2> QED BY <2>1, <2>2
<1>6. Remaining' = txSlots'  BY DEF Remaining
<1>7. verdicts' \cup txSlots' = OpportunitiesOf(sched, from, nextMultiFrame')
  <2>1. verdicts \cup {p} \cup X = OpportunitiesOf(sched, from, nextMultiFrame)
    BY DEF Opportunities, OpportunitiesOf
  <2>2. CASE X # {}  BY <1>1, <1>2, <2>1, <2>2
  <2>3. CASE X = {}
    <3>1. OpportunitiesOf(sched, from, nextMultiFrame') =
            OpportunitiesOf(sched, from, nextMultiFrame)
              \cup OpportunitiesOf(sched, nextMultiFrame, nextMultiFrame')
      <4>1. nextMultiFrame' \in Nat /\ nextMultiFrame <= nextMultiFrame'  BY <1>1
      <4> QED BY <4>1, OpportunitySplit
    <3>2. verdicts \cup {p} = OpportunitiesOf(sched, from, nextMultiFrame)
      BY <2>1, <2>3
    <3>3. txSlots' = OpportunitiesOf(sched, nextMultiFrame, nextMultiFrame')
      BY <1>1, <2>3
    <3> QED BY <1>2, <3>1, <3>2, <3>3, Zenon
  <2> QED BY <2>2, <2>3
<1>8. EveryOpportunityAccounted'
  <2>1. Opportunities(from, nextMultiFrame)' = OpportunitiesOf(sched, from, nextMultiFrame')
    BY <1>3 DEF Opportunities, OpportunitiesOf
  <2>2. \A a \in verdicts', b \in txSlots' : a < b
    <3> SUFFICES ASSUME NEW a \in verdicts', NEW b \in txSlots' PROVE a < b
      OBVIOUS
    <3>1. a \in Nat /\ a <= p /\ b \in Nat /\ p < b  BY <1>1, <1>2, <1>5
    <3> QED BY <3>1
  <2> QED BY <1>6, <1>7, <2>1, <2>2 DEF EveryOpportunityAccounted
<1>9. NoSecondVerdict'
  BY <1>1, <1>2, <1>5, <1>6 DEF NoSecondVerdict
<1>10. Listed'
  BY <1>1, <1>3 DEF Listed
<1> QED BY <1>1, <1>2, <1>5, <1>8, <1>9, <1>10

\* What holds of the slot in hand and the list while a schedule grants transmit slots.
LEMMA InHand ==
  ASSUME TxInv, Transmits(sched)
  PROVE  /\ SchedInv /\ ~Empty(sched) /\ from \in Nat /\ nextMultiFrame \in Nat
         /\ from <= nextMultiFrame /\ nextMultiFrame % Multi(sched) = 0
         /\ verdicts \subseteq Nat /\ lastVerdict \in Nat /\ clock \in Nat /\ nowSlot \in Nat
         /\ pending \in Nat /\ txSlots \in SUBSET Nat /\ scheduleIndex \in 0..MaxSchedules
         /\ pc # "find" =>
              /\ verdicts \cup {pending} \cup txSlots = Opportunities(from, nextMultiFrame)
              /\ \A a \in verdicts : a < pending
              /\ \A b \in txSlots : pending < b
              /\ lastVerdict < pending
         /\ pc = "find" =>
              /\ verdicts \cup txSlots = Opportunities(from, nextMultiFrame)
              /\ \A a \in verdicts, b \in txSlots : a < b
              /\ \A b \in txSlots : lastVerdict < b
<1> USE DEF TxInv
<1>1. /\ SchedInv /\ from \in Nat /\ nextMultiFrame \in Nat
      /\ verdicts \subseteq Nat /\ lastVerdict \in Nat /\ clock \in Nat /\ nowSlot \in Nat
      /\ pending \in Nat /\ txSlots \in SUBSET Nat /\ scheduleIndex \in 0..MaxSchedules
  BY DEF TypeOK
<1>2. /\ from <= nextMultiFrame /\ nextMultiFrame % Multi(sched) = 0
      /\ pc # "find" => \A b \in txSlots : pending < b
  BY DEF Listed
<1>3. ~Empty(sched)  BY DEF Transmits, Empty
<1>4. /\ verdicts \cup Remaining = Opportunities(from, nextMultiFrame)
      /\ \A a \in verdicts, b \in Remaining : a < b
      /\ \A b \in Remaining : lastVerdict < b
  BY <1>1 DEF EveryOpportunityAccounted, NoSecondVerdict, Remaining
<1>5. CASE pc = "find"
  <2>1. Remaining = txSlots  BY <1>5 DEF Remaining
  <2> QED BY <1>1, <1>2, <1>3, <1>4, <1>5, <2>1
<1>6. CASE pc # "find"
  <2>1. Remaining = txSlots \cup {pending}  BY <1>6 DEF Remaining
  <2>2. verdicts \cup {pending} \cup txSlots = Opportunities(from, nextMultiFrame)
    BY <1>4, <2>1
  <2> QED BY <1>1, <1>2, <1>3, <1>4, <1>6, <2>1, <2>2
<1> QED BY <1>5, <1>6

\* Sending, whether or not a packet leaves, gives the slot in hand its status.
LEMMA SendInv == ASSUME TxInv, pc \in {"send", "open"}, SendDownstreamPacket PROVE TxInv'
<1> USE DEF TxInv
<1>1. /\ pc' = "find" /\ Verdict(pending) /\ Refill(txSlots)
      /\ onAir' = onAir \/ onAir' = [slot |-> pending, at |-> clock]
  BY DEF SendDownstreamPacket
<1>2. UNCHANGED <<schedVars, envVars, scheduleIndex, pending, timerId, foi, nowSlot, from>>
  BY DEF SendDownstreamPacket
<1>3. Transmits(sched) /\ Armed = {} /\ Due = {}  BY DEF SingleChain
<1> USE <1>2 DEF envVars
<1>4. /\ SchedInv' /\ SchedTypeOK' /\ (Transmits(sched)' <=> Transmits(sched))
      /\ Multi(sched)' = Multi(sched) /\ sched' = sched
  BY SameSchedule DEF TypeOK
<1>5. /\ txSlots' \in SUBSET Nat /\ txSlots' # {} /\ nextMultiFrame' \in Nat
      /\ verdicts' \subseteq Nat /\ lastVerdict' = pending
      /\ \A b \in txSlots' : pending < b
      /\ EveryOpportunityAccounted' /\ NoSecondVerdict' /\ Listed'
  <2>1. from' = from /\ UNCHANGED schedVars  BY <1>2
  <2> QED BY <1>1, <1>3, <2>1, InHand, ServeSlot
<1>6. TypeOK'
  BY <1>1, <1>4, <1>5, InHand, <1>3 DEF TypeOK
<1>7. Indexed'  BY DEF Indexed
<1>8. SingleChain'
  BY <1>1, <1>3, <1>4, <1>5 DEF SingleChain, Armed, Due
<1>9. Timed'
  <2>1. /\ nowSlot = pending /\ nowSlot <= clock /\ onAir.slot <= lastVerdict
        /\ onAir.slot \in Nat
    BY DEF Timed, TypeOK
  <2>2. lastVerdict < pending /\ lastVerdict \in Nat /\ pending \in Nat
    BY <1>3, InHand
  <2>3. onAir'.slot <= lastVerdict'
    BY <1>1, <1>5, <2>1, <2>2
  <2>4. Due' = {}  BY <1>3 DEF Due
  <2> QED BY <1>1, <1>5, <2>1, <2>3, <2>4 DEF Timed, TurnsToPresentSlot
<1>10. RadioKnowsFrequencies'
  BY <1>4 DEF RadioKnowsFrequencies, Announced
<1> QED BY <1>4, <1>5, <1>6, <1>7, <1>8, <1>9, <1>10

\* The current callback is consumed: its slot is turned to, or missed and counted.
LEMMA ProcessTxOpportunityInv == ASSUME TxInv, ProcessTxOpportunity PROVE TxInv'
<1> USE DEF TxInv
<1>1. /\ pc = "idle" /\ calls # <<>> /\ calls \in Seq(0..MaxSchedules)
      /\ Head(calls) = scheduleIndex /\ calls' = Tail(calls)
  BY DEF TypeOK, ProcessTxOpportunity, CurrentCallback
<1>2. UNCHANGED <<schedVars, clock, timers, initialized, reader, scheduleIndex, pending,
                  timerId, foi, from, onAir>>
  BY DEF ProcessTxOpportunity
<1> USE <1>2
<1>3. /\ DOMAIN calls = 1..Len(calls) /\ Len(calls) \in Nat /\ Len(calls) > 0
      /\ DOMAIN calls' = 1..(Len(calls) - 1)
      /\ \A i \in 1..(Len(calls) - 1) : calls'[i] = calls[i + 1]
      /\ calls[1] = scheduleIndex
      /\ calls' \in Seq(0..MaxSchedules)
  BY <1>1
<1>4. 1 \in Due  BY <1>3 DEF Due
<1>5. Transmits(sched) /\ Armed = {} /\ Due = {1}
  BY <1>1, <1>4 DEF SingleChain
<1>6. Due' = {}
  <2> SUFFICES ASSUME NEW i \in Due' PROVE FALSE
    OBVIOUS
  <2>1. i \in 1..(Len(calls) - 1) /\ calls[i + 1] = scheduleIndex  BY <1>3 DEF Due
  <2>2. i + 1 \in Due /\ i + 1 # 1  BY <1>3, <2>1 DEF Due
  <2> QED BY <1>5, <2>2
<1>7. Armed' = {}  BY <1>5 DEF Armed
<1>8. /\ SchedInv' /\ SchedTypeOK' /\ (Transmits(sched)' <=> Transmits(sched))
      /\ Multi(sched)' = Multi(sched) /\ sched' = sched
  BY SameSchedule DEF TypeOK
<1>9. nowSlot' = clock /\ clock \in Nat /\ pending <= clock
  <2>1. nowSlot' = SlotIndexAt(sched, clock)  BY DEF ProcessTxOpportunity
  <2>2. ~Empty(sched) /\ clock \in Nat  BY <1>5, InHand
  <2> QED BY <1>5, <2>1, <2>2 DEF SlotIndexAt, Timed
<1>10. Indexed'
  BY <1>3 DEF Indexed
<1>11. RadioKnowsFrequencies'
  BY <1>8 DEF RadioKnowsFrequencies, Announced
<1>12. /\ EveryOpportunityAccounted' /\ NoSecondVerdict' /\ Listed'
       /\ SingleChain' /\ Timed' /\ TypeOK'
  <2>1. CASE pending = clock
    <3>1. pc' = "send" /\ UNCHANGED <<txSlots, nextMultiFrame, verdicts, lastVerdict>>
      BY <1>9, <2>1 DEF ProcessTxOpportunity, Present
    <3>2. EveryOpportunityAccounted' /\ NoSecondVerdict'
      BY <1>1, <1>8, <3>1
      DEF EveryOpportunityAccounted, NoSecondVerdict, Remaining, Opportunities
    <3>3. Listed'  BY <1>1, <1>8, <3>1 DEF Listed
    <3>4. SingleChain'  BY <1>5, <1>6, <1>7, <1>8, <3>1 DEF SingleChain
    <3>5. Timed'
      BY <1>6, <1>9, <2>1, <3>1 DEF Timed, TurnsToPresentSlot
    <3>6. TypeOK'  BY <1>3, <1>8, <1>9, <3>1 DEF TypeOK
    <3> QED BY <3>2, <3>3, <3>4, <3>5, <3>6
  <2>2. CASE pending # clock
    <3>1. pc' = "find" /\ Verdict(pending) /\ Refill(txSlots)
      BY <1>9, <2>2 DEF ProcessTxOpportunity, Present
    <3>2. /\ txSlots' \in SUBSET Nat /\ txSlots' # {} /\ nextMultiFrame' \in Nat
          /\ verdicts' \subseteq Nat /\ lastVerdict' = pending
          /\ EveryOpportunityAccounted' /\ NoSecondVerdict' /\ Listed'
      <4>1. from' = from /\ UNCHANGED schedVars  BY <1>2
      <4> QED BY <1>1, <1>5, <3>1, <4>1, InHand, ServeSlot
    <3>3. lastVerdict < pending /\ lastVerdict \in Nat /\ pending \in Nat
      BY <1>1, <1>5, InHand
    <3>4. SingleChain'  BY <1>5, <1>6, <1>7, <1>8, <3>1, <3>2 DEF SingleChain
    <3>5. Timed'
      <4>1. onAir'.slot <= lastVerdict'
        BY <3>2, <3>3 DEF Timed, TypeOK
      <4> QED BY <1>6, <1>9, <3>1, <3>2, <4>1 DEF Timed, TurnsToPresentSlot
    <3>6. TypeOK'  BY <1>3, <1>8, <1>9, <3>1, <3>2, <3>3 DEF TypeOK
    <3> QED BY <3>2, <3>4, <3>5, <3>6
  <2> QED BY <2>1, <2>2
<1> QED BY <1>8, <1>10, <1>11, <1>12

\* The next slot is still to come: a timer is armed for it, and the list is refilled when
\* that slot was its last.
LEMMA ArmInv == ASSUME TxInv, ArmNextOpportunity PROVE TxInv'
<1> USE DEF TxInv
<1> DEFINE f == First(txSlots)
           X == txSlots \ {f}
<1>1. /\ pc = "find" /\ txSlots # {} /\ f > nowSlot /\ pending' = f /\ Refill(X)
      /\ timers' = timers \cup {Timer(scheduleIndex, f)}
      /\ timerId' = {Timer(scheduleIndex, f)} /\ pc' = "idle"
  BY DEF ArmNextOpportunity
<1>2. UNCHANGED <<schedVars, clock, calls, initialized, reader, scheduleIndex, foi, nowSlot,
                  historyVars>>
  BY DEF ArmNextOpportunity
<1> USE <1>2 DEF historyVars
<1>3. Transmits(sched) /\ Armed = {} /\ Due = {}  BY <1>1 DEF SingleChain
<1>4. /\ SchedInv' /\ SchedTypeOK' /\ (Transmits(sched)' <=> Transmits(sched))
      /\ Multi(sched)' = Multi(sched) /\ sched' = sched
  BY SameSchedule DEF TypeOK
<1>5. txSlots \in SUBSET Nat /\ scheduleIndex \in 0..MaxSchedules /\ verdicts \subseteq Nat
      /\ lastVerdict \in Nat /\ from \in Nat /\ nextMultiFrame \in Nat
  BY DEF TypeOK
<1>6. f \in txSlots /\ f \in Nat /\ \A b \in txSlots \ {f} : f < b
  BY <1>1, <1>5, FirstIsLeast
<1> HIDE DEF f
<1>7. Timer(scheduleIndex, f) \in [index : 0..MaxSchedules, at : Nat]
      /\ Timer(scheduleIndex, f).index = scheduleIndex
  BY <1>5, <1>6 DEF Timer
<1>8. /\ from <= nextMultiFrame /\ nextMultiFrame % Multi(sched) = 0
      /\ verdicts \cup txSlots = Opportunities(from, nextMultiFrame)
      /\ \A a \in verdicts, b \in txSlots : a < b
      /\ \A b \in txSlots : b > lastVerdict
  BY <1>1, <1>3 DEF Listed, EveryOpportunityAccounted, NoSecondVerdict, Remaining
<1>9. X \in SUBSET Nat  BY <1>5
<1> HIDE DEF X
<1>10. /\ txSlots' \in SUBSET Nat
       /\ nextMultiFrame' \in Nat /\ nextMultiFrame <= nextMultiFrame'
       /\ nextMultiFrame' % Multi(sched) = 0
       /\ X # {} => txSlots' = X /\ nextMultiFrame' = nextMultiFrame
       /\ X = {} => txSlots' = OpportunitiesOf(sched, nextMultiFrame, nextMultiFrame')
  <2>1. /\ SchedInv /\ Transmits(sched) /\ nextMultiFrame \in Nat
        /\ nextMultiFrame % Multi(sched) = 0 /\ Refill(X)
    BY <1>1, <1>3, <1>5, <1>8
  <2> QED BY <1>9, <2>1, RefillStep
<1>11. f < nextMultiFrame
  <2>1. f \in Opportunities(from, nextMultiFrame)  BY <1>6, <1>8
  <2>2. f \in from..(nextMultiFrame - 1)  BY <2>1, Zenon DEF Opportunities
  <2> QED BY <1>5, <1>6, <2>2
<1>12. \A b \in txSlots' : f < b
  <2>1. CASE X # {}  BY <1>6, <1>10, <2>1 DEF X
  <2>2. CASE X = {}
    <3>1. \A b \in txSlots' : b \in Nat /\ nextMultiFrame <= b
      BY <1>10, <2>2 DEF OpportunitiesOf
    <3> QED BY <1>5, <1>6, <1>11, <3>1
  <2> QED BY <2>1, <2>2
<1>13. Remaining' = {f} \cup txSlots'
  BY <1>1, <1>3, <1>4 DEF Remaining
<1>14. verdicts \cup {f} \cup txSlots' = OpportunitiesOf(sched, from, nextMultiFrame')
  <2>1. verdicts \cup {f} \cup X = OpportunitiesOf(sched, from, nextMultiFrame)
    BY <1>6, <1>8 DEF Opportunities, OpportunitiesOf, X
  <2>2. CASE X # {}  BY <1>10, <2>1, <2>2
  <2>3. CASE X = {}
    <3>1. OpportunitiesOf(sched, from, nextMultiFrame') =
            OpportunitiesOf(sched, from, nextMultiFrame)
              \cup OpportunitiesOf(sched, nextMultiFrame, nextMultiFrame')
      BY <1>5, <1>8, <1>10, OpportunitySplit
    <3> QED BY <1>10, <2>1, <2>3, <3>1, Zenon
  <2> QED BY <2>2, <2>3
<1>15. EveryOpportunityAccounted'
  <2>1. Opportunities(from, nextMultiFrame)' = OpportunitiesOf(sched, from, nextMultiFrame')
    BY <1>4 DEF Opportunities, OpportunitiesOf
  <2>2. \A a \in verdicts, b \in {f} \cup txSlots' : a < b
    <3> SUFFICES ASSUME NEW a \in verdicts, NEW b \in {f} \cup txSlots' PROVE a < b
      OBVIOUS
    <3>1. a \in Nat /\ a < f /\ b \in Nat /\ f <= b
      BY <1>5, <1>6, <1>8, <1>10, <1>12
    <3> QED BY <1>6, <3>1
  <2> QED BY <1>13, <1>14, <2>1, <2>2 DEF EveryOpportunityAccounted
<1>16. NoSecondVerdict'
  <2> SUFFICES ASSUME NEW b \in {f} \cup txSlots' PROVE b > lastVerdict
    BY <1>13 DEF NoSecondVerdict
  <2>1. f > lastVerdict /\ b \in Nat /\ f <= b  BY <1>6, <1>8, <1>10, <1>12
  <2> QED BY <1>5, <1>6, <2>1
<1>17. TypeOK'
  BY <1>1, <1>4, <1>5, <1>6, <1>7, <1>10 DEF TypeOK
<1>18. Indexed'
  BY <1>1, <1>5, <1>7 DEF Indexed
<1>19. Armed' = {Timer(scheduleIndex, pending')} /\ Due' = {}
  BY <1>1, <1>3, <1>7 DEF Armed, Due
<1>20. SingleChain'
  BY <1>1, <1>3, <1>4, <1>19 DEF SingleChain
<1>21. Listed'
  <2>1. from' <= nextMultiFrame'  BY <1>5, <1>8, <1>10
  <2> QED BY <1>1, <1>3, <1>4, <1>10, <1>12, <2>1 DEF Listed
<1>22. Timed'
  BY <1>1, <1>19 DEF Timed, TurnsToPresentSlot
<1>23. RadioKnowsFrequencies'
  BY <1>4 DEF RadioKnowsFrequencies, Announced
<1> QED BY <1>4, <1>15, <1>16, <1>17, <1>18, <1>20, <1>21, <1>22, <1>23

\* The next slot has gone by: it is missed, and the present one is still the clock's.
LEMMA MissInv == ASSUME TxInv, MissOpportunity PROVE TxInv'
<1> USE DEF TxInv
<1> DEFINE f == First(txSlots)
<1>1. /\ pc = "find" /\ pc' = "find" /\ txSlots # {} /\ f < nowSlot /\ pending' = f
      /\ Verdict(f) /\ Refill(txSlots \ {f})
  BY DEF MissOpportunity, runVars
<1>2. UNCHANGED <<schedVars, envVars, scheduleIndex, timerId, foi, runVars, from, onAir>>
  BY DEF MissOpportunity
<1> USE <1>2 DEF envVars, runVars
<1>3. Transmits(sched) /\ Armed = {} /\ Due = {}  BY <1>1 DEF SingleChain
<1>4. /\ SchedInv' /\ SchedTypeOK' /\ (Transmits(sched)' <=> Transmits(sched))
      /\ Multi(sched)' = Multi(sched) /\ sched' = sched
  BY SameSchedule DEF TypeOK
<1>5. txSlots \in SUBSET Nat /\ lastVerdict \in Nat /\ nowSlot \in Nat /\ clock \in Nat
  BY <1>3, InHand
<1>6. f \in txSlots /\ f \in Nat /\ \A b \in txSlots \ {f} : f < b
  BY <1>1, <1>5, FirstIsLeast
<1> HIDE DEF f
<1>7. nowSlot = clock
  BY <1>1, <1>5, <1>6 DEF Timed
<1>8. /\ txSlots' \in SUBSET Nat /\ txSlots' # {} /\ nextMultiFrame' \in Nat
      /\ verdicts' \subseteq Nat /\ lastVerdict' = f
      /\ EveryOpportunityAccounted' /\ NoSecondVerdict' /\ Listed'
  <2>1. from' = from /\ UNCHANGED schedVars  BY <1>2
  <2>2. /\ verdicts \cup txSlots = Opportunities(from, nextMultiFrame)
        /\ \A a \in verdicts, b \in txSlots : a < b
    BY <1>1, <1>3, InHand
  <2>3. verdicts \cup {f} \cup (txSlots \ {f}) = Opportunities(from, nextMultiFrame)
    BY <1>6, <2>2
  <2>4. \A a \in verdicts : a < f  BY <1>6, <2>2
  <2>5. txSlots \ {f} \in SUBSET Nat  BY <1>5
  <2>6. /\ SchedInv /\ from \in Nat /\ nextMultiFrame \in Nat /\ from <= nextMultiFrame
        /\ nextMultiFrame % Multi(sched) = 0 /\ verdicts \subseteq Nat
    BY <1>3, InHand
  <2> QED BY <1>1, <1>3, <1>6, <2>1, <2>3, <2>4, <2>5, <2>6, ServeSlot
<1>9. TypeOK'
  BY <1>1, <1>4, <1>6, <1>8 DEF TypeOK
<1>10. Indexed'  BY DEF Indexed
<1>11. SingleChain'
  BY <1>1, <1>3, <1>4, <1>8 DEF SingleChain, Armed, Due
<1>12. Timed'
  <2>1. lastVerdict < f  BY <1>1, <1>3, <1>6, InHand
  <2>2. onAir'.slot <= lastVerdict' /\ lastVerdict' <= clock
    BY <1>1, <1>5, <1>6, <1>7, <1>8, <2>1 DEF Timed, TypeOK
  <2>3. Due' = {}  BY <1>3 DEF Due
  <2> QED BY <1>1, <1>5, <1>7, <2>2, <2>3 DEF Timed, TurnsToPresentSlot
<1>13. RadioKnowsFrequencies'
  BY <1>4 DEF RadioKnowsFrequencies, Announced
<1> QED BY <1>4, <1>8, <1>9, <1>10, <1>11, <1>12, <1>13

\* The next slot is the present one: the handler turns to it.
LEMMA TakeInv == ASSUME TxInv, TakeOpportunity PROVE TxInv'
<1> USE DEF TxInv
<1> DEFINE f == First(txSlots)
<1>1. /\ pc = "find" /\ pc' = "send" /\ txSlots # {} /\ f = nowSlot /\ pending' = f
      /\ txSlots' = txSlots \ {f}
  BY DEF TakeOpportunity, Present
<1>2. UNCHANGED <<schedVars, envVars, scheduleIndex, nextMultiFrame, timerId, foi,
                  nowSlot, historyVars>>
  BY DEF TakeOpportunity
<1> USE <1>2 DEF envVars, historyVars
<1>3. Transmits(sched) /\ Armed = {} /\ Due = {}  BY <1>1 DEF SingleChain
<1>4. /\ SchedInv' /\ SchedTypeOK' /\ (Transmits(sched)' <=> Transmits(sched))
      /\ Multi(sched)' = Multi(sched) /\ sched' = sched
  BY SameSchedule DEF TypeOK
<1>5. txSlots \in SUBSET Nat /\ nowSlot \in Nat /\ clock \in Nat
  BY <1>3, InHand
<1>6. f \in txSlots /\ f \in Nat /\ \A b \in txSlots \ {f} : f < b
  BY <1>1, <1>5, FirstIsLeast
<1> HIDE DEF f
<1>7. nowSlot = clock
  BY <1>1, <1>5, <1>6 DEF Timed
<1>8. TypeOK'
  BY <1>1, <1>4, <1>5, <1>6 DEF TypeOK
<1>9. Indexed'  BY DEF Indexed
<1>10. SingleChain'
  BY <1>1, <1>3, <1>4 DEF SingleChain, Armed, Due
<1>11. Remaining = txSlots /\ Remaining' = txSlots
  BY <1>1, <1>3, <1>4, <1>6 DEF Remaining
<1>12. EveryOpportunityAccounted' /\ NoSecondVerdict'
  BY <1>4, <1>11 DEF EveryOpportunityAccounted, NoSecondVerdict, Opportunities
<1>13. Listed'
  BY <1>1, <1>3, <1>4, <1>6 DEF Listed
<1>14. Timed'
  <2>1. Due' = {}  BY <1>3 DEF Due
  <2> QED BY <1>1, <1>7, <2>1 DEF Timed, TurnsToPresentSlot
<1>15. RadioKnowsFrequencies'
  BY <1>4 DEF RadioKnowsFrequencies, Announced
<1> QED BY <1>4, <1>8, <1>9, <1>10, <1>12, <1>13, <1>14, <1>15
-----------------------------------------------------------------------------
(* Schedule changes                                                        *)

LEMMA SeqElements ==
  ASSUME NEW S, NEW q \in Seq(S)
  PROVE  \A i \in DOMAIN q : q[i] \in S
  OBVIOUS

\* Making the first request does not change which slots a schedule grants.
LEMMA RequestedSameSlots ==
  ASSUME NEW s, Sound(s)
  PROVE  /\ Transmits(Requested(s)) <=> Transmits(s)
         /\ Multi(Requested(s)) = Multi(s)
         /\ \A lo, hi : OpportunitiesOf(Requested(s), lo, hi) = OpportunitiesOf(s, lo, hi)
         /\ Requested(s).freqs = s.freqs /\ Requested(s).slots = s.slots
         /\ Requested(s).structure = s.structure
<1>1. /\ Requested(s).structure = s.structure /\ Requested(s).slots = s.slots
      /\ Requested(s).freqs = s.freqs /\ Requested(s).slotter = s.slotter
  BY DEF Sound, Requested
<1>2. \A a : IsTransmit(Requested(s), a) <=> IsTransmit(s, a)
  BY <1>1 DEF IsTransmit, Empty, InfoAt, RelativeIndex, RelativeFrame, RelativeSlot
<1> QED BY <1>1, <1>2 DEF Transmits, Multi, NumSlots, OpportunitiesOf

\* An event without a notification leaves the schedule, and the MAC, as they are.
LEMMA UnnotifiedInv ==
  ASSUME TxInv, NEW e \in ScheduleEvents, ReceiveSchedule(e), ~Response(sched, e).notify
  PROVE  TxInv'
<1> USE DEF TxInv
<1>1. ProcessEvent(e) /\ UNCHANGED <<envVars, macVars, runVars, historyVars>>
  BY DEF ReceiveSchedule
<1>2. DecodedEvent(e) /\ Sound(sched)  BY EventsAssumption DEF SchedInv
<1>3. sched' = sched
  BY <1>1, <1>2, ResponseSound DEF ProcessEvent
<1>4. SchedInv' /\ SchedTypeOK'
  <2>1. SchedInv'  BY <1>1, ProcessEventInv
  <2>2. (SchedInv => SchedTypeOK)'  BY SchedInvTyped, PTL
  <2> QED BY <2>1, <2>2
<1> USE <1>1 DEF envVars, macVars, runVars, historyVars
<1>5. (Transmits(sched)' <=> Transmits(sched)) /\ Multi(sched)' = Multi(sched)
  BY <1>3 DEF Transmits, Multi, NumSlots
<1>6. TypeOK'  BY <1>4 DEF TypeOK
<1>7. Indexed'  BY DEF Indexed
<1>8. SingleChain'
  BY <1>5 DEF SingleChain, Armed, Due
<1>9. EveryOpportunityAccounted' /\ NoSecondVerdict'
  BY <1>3, <1>5 DEF EveryOpportunityAccounted, NoSecondVerdict, Remaining, Opportunities
<1>10. Listed'  BY <1>5 DEF Listed
<1>11. Timed'  BY DEF Timed, Due, TurnsToPresentSlot
<1>12. RadioKnowsFrequencies'
  BY <1>3 DEF RadioKnowsFrequencies, Announced
<1> QED BY <1>4, <1>6, <1>7, <1>8, <1>9, <1>10, <1>11, <1>12

\* A notified one ends the old chain: nothing of it bears the new schedule's index.  The
\* new list starts at a multiframe still to come, after every slot used before.
LEMMA NotifiedInv ==
  ASSUME TxInv, NEW e \in ScheduleEvents, ReceiveSchedule(e), Response(sched, e).notify
  PROVE  TxInv'
<1> USE DEF TxInv
<1> DEFINE s == Response(sched, e).sched
           index == scheduleIndex + 1
<1>1. /\ pc = "idle" /\ pc' = "idle" /\ nowSlot' = nowSlot
      /\ ProcessEvent(e) /\ NotifyScheduleChange(s) /\ scheduleIndex < MaxSchedules
  BY DEF ReceiveSchedule, NotifyScheduleChange, runVars
<1>2. DecodedEvent(e) /\ Sound(sched)  BY EventsAssumption DEF SchedInv
<1>3. Sound(s) /\ (Empty(s) \/ s.waiting = TRUE)
  BY <1>2, ResponseSound, NotifiedWaits
<1>4. sched' = Requested(s)  BY DEF ReceiveSchedule, ProcessEvent
<1> HIDE DEF s
<1>5. SchedInv' /\ SchedTypeOK'
  <2>1. SchedInv'  BY <1>1, ProcessEventInv
  <2>2. (SchedInv => SchedTypeOK)'  BY SchedInvTyped, PTL
  <2> QED BY <2>1, <2>2
<1>6. /\ (Transmits(sched)' <=> Transmits(s)) /\ Multi(sched)' = Multi(s)
      /\ \A lo, hi : Opportunities(lo, hi)' = OpportunitiesOf(s, lo, hi)
      /\ sched'.freqs = s.freqs /\ sched'.slots = s.slots /\ sched'.structure = s.structure
  BY <1>3, <1>4, RequestedSameSlots DEF Opportunities, OpportunitiesOf, Transmits, Multi, NumSlots
<1>7. /\ scheduleIndex' = index /\ foi' = FrequencyOfInterest(s)
      /\ nextMultiFrame' = TxSlotInfo(s, clock).next
      /\ verdicts' = {}
      /\ from' = IF Empty(s) THEN 0 ELSE RequestSlot(s, clock)
      /\ UNCHANGED <<clock, calls, initialized, reader, lastVerdict, onAir>>
  BY <1>1 DEF NotifyScheduleChange
<1>8. /\ index \in 0..MaxSchedules /\ index > scheduleIndex /\ scheduleIndex \in Nat
      /\ clock \in Nat /\ lastVerdict \in Nat /\ pending \in Nat
  BY <1>1, BoundsAssumption DEF TypeOK
<1> HIDE DEF index
<1> USE <1>7
<1>9. RadioKnowsFrequencies'
  <2>1. foi' = [freqs |-> s.freqs, bandwidth |-> s.structure.bandwidth]
    BY DEF FrequencyOfInterest, RadioKnowsFrequencies
  <2>2. Announced(s.slots, s.freqs)  BY <1>3 DEF Sound
  <2> QED BY <1>6, <2>1, <2>2 DEF RadioKnowsFrequencies, Announced
<1>10. foi'.freqs \subseteq Nat /\ foi'.bandwidth \in Nat
  BY <1>3, <1>5, <1>6, <1>9 DEF RadioKnowsFrequencies, SchedTypeOK, Structures
<1>11. Due' = {}
  BY <1>8 DEF Due, Indexed, TypeOK
<1>12. \A t \in timers : t.index # index
  BY <1>8 DEF Indexed, TypeOK
<1>13. Timed'
  BY <1>1, <1>11 DEF Timed, TurnsToPresentSlot
<1>14. CASE TxSlotInfo(s, clock).slots = {}
  <2>1. txSlots' = {} /\ timers' = timers \ timerId /\ timerId' = {} /\ pending' = pending
    BY <1>1, <1>14 DEF NotifyScheduleChange, NoChain
  <2>2. ~Transmits(s) /\ nextMultiFrame' \in Nat /\ from' \in Nat
    <3>1. CASE Empty(s)
      BY <3>1 DEF Empty, Transmits, TxSlotInfo
    <3>2. CASE ~Empty(s)
      <4>1. Multi(s) \in Nat  BY <1>3, <3>2, SoundIndex
      <4>2. PICK m \in Nat :
              /\ RequestSlot(s, clock) = m * Multi(s)
              /\ TxSlotInfo(s, clock).next = (m + 1) * Multi(s)
              /\ TxSlotInfo(s, clock).slots # {} <=> Transmits(s)
        BY <1>3, <1>8, <3>2, FirstRequestLists
      <4>3. m * Multi(s) \in Nat /\ (m + 1) * Multi(s) \in Nat  BY <4>1
      <4> QED BY <1>14, <3>2, <4>2, <4>3
    <3> QED BY <3>1, <3>2
  <2>3. TypeOK'
    BY <1>1, <1>5, <1>8, <1>10, <2>1, <2>2 DEF TypeOK
  <2>4. Indexed'
    <3>1. \A t \in timers' : t \in timers  BY <2>1
    <3>2. \A t \in timers : t \in [index : 0..MaxSchedules, at : Nat]  BY DEF TypeOK
    <3>3. \A i \in DOMAIN calls : calls[i] \in 0..MaxSchedules
      <4>1. calls \in Seq(0..MaxSchedules)  BY DEF TypeOK
      <4> QED BY <4>1, SeqElements
    <3> QED BY <1>8, <3>1, <3>2, <3>3 DEF Indexed
  <2>5. Armed' = {}  BY <1>12, <2>1 DEF Armed
  <2>6. SingleChain'
    BY <1>1, <1>6, <1>11, <2>2, <2>5 DEF SingleChain
  <2>7. Remaining' = {}  BY <1>6, <2>1, <2>2 DEF Remaining
  <2>8. EveryOpportunityAccounted' /\ NoSecondVerdict' /\ Listed'
    BY <1>6, <2>1, <2>2, <2>7 DEF EveryOpportunityAccounted, NoSecondVerdict, Listed
  <2> QED BY <1>5, <1>9, <1>13, <2>3, <2>4, <2>6, <2>8
<1>15. CASE TxSlotInfo(s, clock).slots # {}
  <2> DEFINE slots == TxSlotInfo(s, clock).slots
             f == First(slots)
  <2>1. /\ txSlots' = slots \ {f} /\ pending' = f
        /\ timers' = (timers \ timerId) \cup {Timer(index, f)}
        /\ timerId' = {Timer(index, f)}
    BY <1>1, <1>15 DEF NotifyScheduleChange, StartChain, index
  <2>2. ~Empty(s)  BY <1>15 DEF TxSlotInfo
  <2>3. Multi(s) \in Nat /\ Multi(s) > 0  BY <1>3, <2>2, SoundIndex
  <2>4. PICK m \in Nat :
          /\ RequestSlot(s, clock) = m * Multi(s)
          /\ m * Multi(s) > clock
          /\ TxSlotInfo(s, clock).next = (m + 1) * Multi(s)
          /\ slots = OpportunitiesOf(s, m * Multi(s), (m + 1) * Multi(s))
          /\ slots # {} <=> Transmits(s)
    BY <1>3, <1>8, <2>2, FirstRequestLists
  <2>5. /\ m * Multi(s) \in Nat /\ (m + 1) * Multi(s) \in Nat
        /\ m * Multi(s) <= (m + 1) * Multi(s)
        /\ ((m + 1) * Multi(s)) % Multi(s) = 0
    <3>1. m * Multi(s) \in Nat /\ (m + 1) * Multi(s) = m * Multi(s) + Multi(s)  BY <2>3
    <3>2. ((m + 1) * Multi(s) + 0) % Multi(s) = 0  BY <2>3, AlignedRemainder
    <3> DEFINE n == Multi(s)
               lo == m * n
               hi == (m + 1) * n
    <3>3. n \in Nat /\ lo \in Nat /\ hi = lo + n /\ ((hi + 0) % n) = 0  BY <2>3, <3>1, <3>2
    <3> HIDE DEF n, lo, hi
    <3>4. lo \in Nat /\ hi \in Nat /\ lo <= hi /\ hi + 0 = hi  BY <3>3
    <3>5. hi % n = 0  BY <3>3, <3>4
    <3> QED BY <3>4, <3>5, Zenon DEF n, lo, hi
  <2>6. from' = m * Multi(s) /\ nextMultiFrame' = (m + 1) * Multi(s)
    BY <2>2, <2>4
  <2>7. Transmits(s)  BY <1>15, <2>4
  <2>8. \A b \in slots : b \in Nat /\ clock < b
    <3>1. \A b \in slots : b \in (m * Multi(s))..((m + 1) * Multi(s) - 1)
      BY <2>4 DEF OpportunitiesOf
    <3> HIDE DEF slots
    <3> QED BY <1>8, <2>4, <2>5, <3>1
  <2>9. f \in slots /\ f \in Nat /\ \A b \in slots \ {f} : f < b
    <3>1. slots \in SUBSET Nat  BY <2>8
    <3> QED BY <1>15, <3>1, FirstIsLeast
  <2>10. slots = OpportunitiesOf(s, from', nextMultiFrame')
    BY <2>4, <2>6
  <2> HIDE DEF slots, f
  <2>11. Timer(index, f) \in [index : 0..MaxSchedules, at : Nat]
         /\ Timer(index, f).index = index
    BY <1>8, <2>9 DEF Timer
  <2>12. TypeOK'
    <3>1. txSlots' \subseteq Nat /\ pending' \in Nat  BY <2>1, <2>8, <2>9
    <3>2. nextMultiFrame' \in Nat /\ from' \in Nat  BY <2>5, <2>6
    <3>3. timers' \subseteq [index : 0..MaxSchedules, at : Nat]
          /\ timerId' \subseteq [index : 0..MaxSchedules, at : Nat]
      BY <2>1, <2>11 DEF TypeOK
    <3> QED BY <1>1, <1>5, <1>8, <1>10, <3>1, <3>2, <3>3 DEF TypeOK
  <2>13. Indexed'
    <3>1. \A t \in timers' : t \in timers \/ t.index = index  BY <2>1, <2>11
    <3>2. \A t \in timers : t \in [index : 0..MaxSchedules, at : Nat]  BY DEF TypeOK
    <3>3. \A i \in DOMAIN calls : calls[i] \in 0..MaxSchedules
      <4>1. calls \in Seq(0..MaxSchedules)  BY DEF TypeOK
      <4> QED BY <4>1, SeqElements
    <3> QED BY <1>8, <3>1, <3>2, <3>3 DEF Indexed
  <2>14. Armed' = {Timer(scheduleIndex', pending')}
    BY <1>12, <2>1, <2>11 DEF Armed
  <2>15. SingleChain'
    BY <1>1, <1>6, <1>11, <2>7, <2>14 DEF SingleChain
  <2>16. Remaining' = slots
    BY <1>1, <1>6, <2>1, <2>7, <2>9 DEF Remaining
  <2>17. EveryOpportunityAccounted'
    BY <1>6, <2>10, <2>16 DEF EveryOpportunityAccounted
  <2>18. NoSecondVerdict'
    <3>1. lastVerdict <= clock  BY DEF Timed
    <3>2. \A b \in slots : b > lastVerdict  BY <1>8, <2>8, <3>1
    <3> QED BY <2>16, <3>2 DEF NoSecondVerdict
  <2>19. Listed'
    BY <1>6, <2>1, <2>5, <2>6, <2>7, <2>9 DEF Listed
  <2> QED BY <1>5, <1>9, <1>13, <2>12, <2>13, <2>15, <2>17, <2>18, <2>19
<1> QED BY <1>14, <1>15

-----------------------------------------------------------------------------
(* The theorems                                                            *)

LEMMA InitInv == Init => TxInv
<1> SUFFICES ASSUME Init PROVE TxInv
  OBVIOUS
<1> USE DEF Init
<1>1. SchedInv /\ SchedTypeOK  BY SchedInitInv, SchedInvTyped
<1>2. sched = NoSchedule /\ Empty(sched) /\ ~Transmits(sched)
  BY DEF SchedInit, NoSchedule, NoSlots, Empty, Transmits
<1>3. TypeOK
  <2>1. calls \in Seq(0..MaxSchedules)  OBVIOUS
  <2>2. clock \in 0..MaxSlot /\ scheduleIndex \in 0..MaxSchedules  BY BoundsAssumption
  <2> QED BY <1>1, <2>1, <2>2 DEF TypeOK, Nothing
<1>4. Indexed  BY DEF Indexed
<1>5. SingleChain  BY <1>2 DEF SingleChain, Armed, Due
<1>6. EveryOpportunityAccounted /\ NoSecondVerdict /\ Listed
  BY <1>2 DEF EveryOpportunityAccounted, NoSecondVerdict, Listed, Remaining
<1>7. Timed  BY DEF Timed, Due, TurnsToPresentSlot, Nothing
<1>8. RadioKnowsFrequencies
  BY <1>2 DEF RadioKnowsFrequencies, Announced, NoSchedule, NoStructure, NoSlots
<1> QED BY <1>1, <1>3, <1>4, <1>5, <1>6, <1>7, <1>8 DEF TxInv

LEMMA StutterInv == ASSUME TxInv, UNCHANGED vars PROVE TxInv'
<1> USE DEF TxInv
<1>1. UNCHANGED <<schedVars, envVars, macVars, runVars, historyVars>>
  BY DEF vars
<1> USE <1>1 DEF envVars, macVars, runVars, historyVars
<1>2. /\ SchedInv' /\ SchedTypeOK' /\ (Transmits(sched)' <=> Transmits(sched))
      /\ Multi(sched)' = Multi(sched) /\ sched' = sched
  BY SameSchedule DEF TypeOK
<1>3. TypeOK'  BY <1>2 DEF TypeOK
<1>4. Indexed'  BY DEF Indexed
<1>5. SingleChain'  BY <1>2 DEF SingleChain, Armed, Due
<1>6. EveryOpportunityAccounted' /\ NoSecondVerdict'
  BY <1>2 DEF EveryOpportunityAccounted, NoSecondVerdict, Remaining, Opportunities
<1>7. Listed'  BY <1>2 DEF Listed
<1>8. Timed'  BY DEF Timed, Due, TurnsToPresentSlot
<1>9. RadioKnowsFrequencies'  BY <1>2 DEF RadioKnowsFrequencies, Announced
<1> QED BY <1>2, <1>3, <1>4, <1>5, <1>6, <1>7, <1>8, <1>9

LEMMA NextInv == TxInv /\ [Next]_vars => TxInv'
<1> SUFFICES ASSUME TxInv, [Next]_vars PROVE TxInv'
  OBVIOUS
<1>1. ASSUME NEW e \in ScheduleEvents, ReceiveSchedule(e) PROVE TxInv'
  <2>1. CASE Response(sched, e).notify  BY <1>1, <2>1, NotifiedInv
  <2>2. CASE ~Response(sched, e).notify  BY <1>1, <2>2, UnnotifiedInv
  <2> QED BY <2>1, <2>2
<1>2. CASE DisregardOldOpportunity  BY <1>2, DisregardInv
<1>3. CASE ProcessTxOpportunity  BY <1>3, ProcessTxOpportunityInv
<1>4. CASE SendAtOnce  BY <1>4, SendInv DEF SendAtOnce
<1>5. CASE OpenFifo  BY <1>5, OpenFifoInv
<1>6. CASE SendOnceRead  BY <1>6, SendInv DEF SendOnceRead
<1>7. CASE ArmNextOpportunity  BY <1>7, ArmInv
<1>8. CASE MissOpportunity  BY <1>8, MissInv
<1>9. CASE TakeOpportunity  BY <1>9, TakeInv
<1>10. ASSUME NEW t \in timers, FireTimer(t) PROVE TxInv'  BY <1>10, FireTimerInv
<1>11. CASE Tick  BY <1>11, TickInv
<1>12. CASE LearnPathloss  BY <1>12, LearnPathlossInv
<1>13. CASE ReaderLeaves  BY <1>13, ReaderLeavesInv
<1>14. CASE ReaderReturns  BY <1>14, ReaderReturnsInv
<1>15. CASE Horizon \/ UNCHANGED vars  BY <1>15, StutterInv DEF Horizon
<1> QED BY <1>1, <1>2, <1>3, <1>4, <1>5, <1>6, <1>7, <1>8, <1>9, <1>10, <1>11, <1>12,
           <1>13, <1>14, <1>15 DEF Next, Handle

\* The inductive invariant holds whatever schedules arrive and however long they last.
THEOREM TxInvariance == Spec => []TxInv
BY InitInv, NextInv, PTL DEF Spec

\* The scheduler's, the MAC's and the environment's state is always well typed.
THEOREM TransmitTyping == Spec => []TypeOK
BY TxInvariance, PTL DEF TxInv

\* processTxOpportunity keeps exactly one live link of the timer chain per schedule that
\* grants transmit slots, however late its timers fire and whatever schedules replace it.
THEOREM OneChain == Spec => []SingleChain
BY TxInvariance, PTL DEF TxInv

\* No transmit slot of the schedule in force is forgotten, and they are served in order.
THEOREM OpportunitiesAccounted == Spec => []EveryOpportunityAccounted
BY TxInvariance, PTL DEF TxInv

\* No slot is given a status twice, even across schedule changes in mid-multiframe.
THEOREM NoVerdictTwice == Spec => []NoSecondVerdict
BY TxInvariance, PTL DEF TxInv

\* The radio's frequencies of interest are those of the schedule in force.
THEOREM FrequenciesKnown == Spec => []RadioKnowsFrequencies
BY TxInvariance, PTL DEF TxInv

\* The slot the handler turns to is the present one.
THEOREM PresentSlotTaken == Spec => []TurnsToPresentSlot
BY TxInvariance, PTL DEF TxInv, Timed
LEMMA SendBySchedule ==
  ASSUME TxInv, pc \in {"send", "open"}, SendDownstreamPacket, onAir' # onAir
  PROVE  /\ IsTransmit(sched, onAir'.slot)
         /\ onAir'.slot > onAir.slot
         /\ onAir'.slot <= clock
<1>1. onAir'.slot = pending  BY DEF SendDownstreamPacket
<1>2. Transmits(sched)  BY DEF TxInv, SingleChain
<1>3. /\ pending \in Opportunities(from, nextMultiFrame)
      /\ lastVerdict < pending /\ lastVerdict \in Nat /\ pending \in Nat /\ clock \in Nat
  BY <1>2, InHand
<1>4. IsTransmit(sched, pending)  BY <1>3 DEF Opportunities
<1>5. nowSlot = pending /\ nowSlot <= clock /\ onAir.slot <= lastVerdict /\ onAir.slot \in Nat
  BY DEF TxInv, Timed, TypeOK
<1> QED BY <1>1, <1>3, <1>4, <1>5

\* Transmissions are made in granted slots, in order, none ahead of its time: under any
\* schedules, however late the timers and for however long the FIFO blocks.
THEOREM TransmissionsBySchedule == Spec => TransmitsBySchedule
<1> DEFINE A == onAir' # onAir => /\ IsTransmit(sched, onAir'.slot)
                                  /\ onAir'.slot > onAir.slot
                                  /\ onAir'.slot <= clock
<1>1. TxInv /\ [Next]_vars => [A]_vars
  <2> SUFFICES ASSUME TxInv, [Next]_vars, onAir' # onAir PROVE A
    OBVIOUS
  <2>1. CASE SendAtOnce  BY <2>1, SendBySchedule DEF SendAtOnce
  <2>2. CASE SendOnceRead  BY <2>2, SendBySchedule DEF SendOnceRead
  <2>3. ASSUME ~SendAtOnce, ~SendOnceRead PROVE onAir' = onAir
    BY <2>3 DEF Next, Handle, ReceiveSchedule, NotifyScheduleChange, DisregardOldOpportunity,
       ProcessTxOpportunity, OpenFifo, ArmNextOpportunity, MissOpportunity, TakeOpportunity,
       FireTimer, Tick, LearnPathloss, ReaderLeaves, ReaderReturns, Horizon, historyVars, vars
  <2> QED BY <2>1, <2>2, <2>3
<1> QED BY <1>1, TxInvariance, PTL DEF Spec, TransmitsBySchedule

\* The timers, the callbacks and the FIFO leave the schedule alone: every step of the MAC
\* is one of the scheduler's, or none.
LEMMA SchedulerSteps == [Next]_vars => [SchedNext]_schedVars
<1> SUFFICES ASSUME [Next]_vars PROVE [SchedNext]_schedVars
  OBVIOUS
<1>1. ASSUME NEW e \in ScheduleEvents, ReceiveSchedule(e) PROVE SchedNext
  BY <1>1 DEF ReceiveSchedule, SchedNext
<1>2. CASE SendAtOnce \/ SendOnceRead
  BY <1>2 DEF SendAtOnce, SendOnceRead, SendDownstreamPacket
<1>3. ASSUME NEW t \in timers, FireTimer(t) PROVE UNCHANGED schedVars
  BY <1>3 DEF FireTimer
<1>4. CASE DisregardOldOpportunity \/ ProcessTxOpportunity \/ OpenFifo
  BY <1>4 DEF DisregardOldOpportunity, ProcessTxOpportunity, OpenFifo
<1>5. CASE ArmNextOpportunity \/ MissOpportunity \/ TakeOpportunity
  BY <1>5 DEF ArmNextOpportunity, MissOpportunity, TakeOpportunity
<1>6. CASE Tick \/ LearnPathloss \/ ReaderLeaves \/ ReaderReturns
  BY <1>6 DEF Tick, LearnPathloss, ReaderLeaves, ReaderReturns
<1>7. CASE Horizon \/ UNCHANGED vars
  BY <1>7 DEF Horizon, vars
<1> QED BY <1>1, <1>2, <1>3, <1>4, <1>5, <1>6, <1>7 DEF Next, Handle

\* What a running MAC makes of its schedule events is a plan's life: each replaces the
\* plan, overrides it as a whole, drops it or leaves it alone, and no timer, callback or
\* transmission in between changes any of it (HBeventscheduler.cc:116).
THEOREM TransmitterFollowsPlan == Spec => ImplementsPlan
<1>1. Init => SchedInit  BY DEF Init
<1>2. Spec => SchedSpec
  BY <1>1, SchedulerSteps, PTL DEF Spec, SchedSpec
<1> QED BY <1>2, SchedulerImplementsPlan
=============================================================================
