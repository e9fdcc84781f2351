------------------------ MODULE FlowControl_proofs ------------------------
(***************************************************************************)
(* Proofs about FlowControl, for every configuration, every set of slots,  *)
(* sizes and nodes, and every number of tokens and packets: where each     *)
(* token is, that no transmission exceeds its slot, that what it holds is  *)
(* for the chosen destination, that no queue asked has anything left that  *)
(* should have gone, and that a queue can always answer.                   *)
(***************************************************************************)
EXTENDS FlowControl, FiniteSetTheorems, WellFoundedInduction, TLAPS

\* A packet whose last component was dequeued is in hand, and only those are and packets
\* that are fragmented and still queued.
InHand ==
  /\ \A p \in hand : pkt[p].fate = "hand" \/ (pkt[p].fate = "queued" /\ config.fragment)
  /\ \A p \in DOMAIN pkt : pkt[p].fate = "hand" => p \in hand
  /\ pc = "idle" => hand = {}

\* The slot's own queue is asked for the whole slot.
NothingYet == pc = "own" => total = 0

HandAsChosen == dst # 0 => \A p \in hand : pkt[p].dest = dst

FlowInv ==
  /\ TypeOK
  /\ InHand
  /\ WithinSlot
  /\ NothingYet
  /\ HandAsChosen
  /\ TokensAccounted

-----------------------------------------------------------------------------
(* What the queue's contract gives                                         *)

LEMMA ResultFacts ==
  ASSUME NEW q, NEW bytes \in Nat, NEW d, NEW drop, NEW r \in DequeueResults(q, bytes, d, drop)
  PROVE  /\ r.whole \subseteq DOMAIN pkt /\ r.part \subseteq DOMAIN pkt
         /\ r.dropped \subseteq DOMAIN pkt
         /\ \A p \in r.whole \cup r.part \cup r.dropped :
              pkt[p].queue = q /\ pkt[p].fate = "queued"
         /\ \A p \in r.whole \cup r.part : d \in {0, pkt[p].dest}
         /\ r.whole \cap r.part = {}
         /\ (r.whole \cup r.part) \cap r.dropped = {}
         /\ BytesLeft(r.whole) \in 0..bytes
         /\ \A p \in r.part : bytes - BytesLeft(r.whole) \in 1..(pkt[p].left - 1)
         /\ r.part # {} => config.fragment
         /\ r.dropped # {} => ~config.fragment
         /\ \A p \in r.dropped : TooBig(p, bytes, drop)
<1> DEFINE E == Eligible(q, d)
<1>1. /\ r \in [whole : SUBSET E, part : SUBSET E, dropped : SUBSET E]
      /\ r.whole \cap r.part = {} /\ (r.whole \cup r.part) \cap r.dropped = {}
      /\ BytesLeft(r.whole) \in 0..bytes
      /\ \A p \in r.part : bytes - BytesLeft(r.whole) \in 1..(pkt[p].left - 1)
      /\ r.part # {} => config.fragment
      /\ \A p \in r.dropped : TooBig(p, bytes, drop)
  BY DEF DequeueResults
<1>2. r.whole \subseteq E /\ r.part \subseteq E /\ r.dropped \subseteq E
  BY <1>1
<1>3. \A p \in E : /\ p \in DOMAIN pkt /\ pkt[p].queue = q /\ pkt[p].fate = "queued"
                   /\ d \in {0, pkt[p].dest}
  BY DEF Eligible, InQueue
<1>4. r.dropped # {} => ~config.fragment
  BY <1>1 DEF TooBig
<1> QED BY <1>1, <1>2, <1>3, <1>4

\* What a dequeue makes of every packet.
LEMMA AfterFacts ==
  ASSUME pkt \in Seq(Packets), NEW q, NEW bytes \in Nat, NEW d, NEW drop,
         NEW r \in DequeueResults(q, bytes, d, drop)
  PROVE  /\ After(r, bytes) \in Seq(Packets)
         /\ DOMAIN After(r, bytes) = DOMAIN pkt
         /\ \A p \in DOMAIN pkt :
              /\ After(r, bytes)[p].queue = pkt[p].queue
              /\ After(r, bytes)[p].dest = pkt[p].dest
              /\ p \in r.whole => After(r, bytes)[p].fate = "hand"
              /\ p \in r.part => After(r, bytes)[p].fate = "queued"
              /\ p \in r.dropped => After(r, bytes)[p].fate = "toobig"
              /\ p \notin r.whole \cup r.part \cup r.dropped =>
                   After(r, bytes)[p] = pkt[p]
<1> DEFINE B == BytesLeft(r.whole)
<1> DEFINE A == After(r, bytes)
<1>1. /\ r.whole \cap r.part = {} /\ (r.whole \cup r.part) \cap r.dropped = {}
      /\ \A p \in r.part : bytes - B \in 1..(pkt[p].left - 1)
      /\ \A p \in r.part : pkt[p].fate = "queued"
  BY ResultFacts
<1>2. \A p \in DOMAIN pkt : pkt[p] \in Packets
  OBVIOUS
<1>3. /\ DOMAIN A = DOMAIN pkt
      /\ \A p \in DOMAIN pkt :
           A[p] = CASE p \in r.whole   -> [pkt[p] EXCEPT !.fate = "hand", !.left = 0]
                    [] p \in r.part    -> [pkt[p] EXCEPT !.left = @ - (bytes - B)]
                    [] p \in r.dropped -> [pkt[p] EXCEPT !.fate = "toobig"]
                    [] OTHER           -> pkt[p]
  BY DEF After
<1> HIDE DEF A, B
<1>4. ASSUME NEW p \in DOMAIN pkt
      PROVE  /\ A[p] \in Packets
             /\ A[p].queue = pkt[p].queue /\ A[p].dest = pkt[p].dest
             /\ p \in r.whole => A[p].fate = "hand"
             /\ p \in r.part => A[p].fate = "queued"
             /\ p \in r.dropped => A[p].fate = "toobig"
             /\ p \notin r.whole \cup r.part \cup r.dropped => A[p] = pkt[p]
  <2>1. CASE p \in r.whole
    <3>1. A[p] = [pkt[p] EXCEPT !.fate = "hand", !.left = 0]
      BY <1>1, <1>3, <2>1
    <3>2. pkt[p] \in [queue : 0..4, dest : Destinations, size : Nat, left : Nat, fate : Fates]
      BY <1>2 DEF Packets
    <3>3. A[p] = [queue |-> pkt[p].queue, dest |-> pkt[p].dest, size |-> pkt[p].size,
                  left |-> 0, fate |-> "hand"]
      BY <3>1, <3>2
    <3>4. A[p] \in Packets
      BY <3>2, <3>3 DEF Packets, Fates
    <3> QED BY <1>1, <2>1, <3>3, <3>4
  <2>2. CASE p \in r.part
    <3>1. A[p] = [pkt[p] EXCEPT !.left = @ - (bytes - B)]
      BY <1>1, <1>3, <2>2
    <3>2. pkt[p].left \in Nat /\ bytes - B \in 1..(pkt[p].left - 1)
      BY <1>1, <1>2, <2>2 DEF Packets
    <3>3. pkt[p].left - (bytes - B) \in Nat
      BY <3>2
    <3> QED BY <1>1, <1>2, <2>2, <3>1, <3>3 DEF Packets, Fates
  <2>3. CASE p \in r.dropped
    <3>1. A[p] = [pkt[p] EXCEPT !.fate = "toobig"]
      BY <1>1, <1>3, <2>3
    <3> QED BY <1>1, <1>2, <2>3, <3>1 DEF Packets, Fates
  <2>4. CASE p \notin r.whole \cup r.part \cup r.dropped
    BY <1>2, <1>3, <2>4
  <2> QED BY <2>1, <2>2, <2>3, <2>4
<1>5. A \in Seq(Packets)
  <2>1. DOMAIN pkt = 1..Len(pkt) /\ Len(pkt) \in Nat
    OBVIOUS
  <2>2. A \in [1..Len(pkt) -> Packets]
    BY <1>3, <1>4, <2>1 DEF A, After
  <2> QED BY <2>1, <2>2
<1> QED BY <1>3, <1>4, <1>5 DEF A

LEMMA LengthBound ==
  ASSUME NEW q, NEW bytes \in Nat, NEW d, NEW drop, NEW r \in DequeueResults(q, bytes, d, drop)
  PROVE  LengthOf(r, bytes) \in 0..bytes
<1>1. BytesLeft(r.whole) \in 0..bytes
  BY ResultFacts
<1> QED BY <1>1 DEF LengthOf

-----------------------------------------------------------------------------
(* Tokens                                                                  *)

LEMMA TokensAddedFacts ==
  ASSUME NEW t \in 0..MaxTokens, NEW n \in Nat, NEW u \in TokensAdded(t, n)
  PROVE  u \in 0..MaxTokens /\ (t + n <= MaxTokens => u = t + n)
BY FlowAssumption DEF TokensAdded

LEMMA HoldingFinite ==
  ASSUME pkt \in Seq(Packets)
  PROVE  IsFiniteSet(DOMAIN pkt) /\ IsFiniteSet(Holding)
<1>1. DOMAIN pkt = 1..Len(pkt) /\ Len(pkt) \in Nat
  OBVIOUS
<1>2. IsFiniteSet(DOMAIN pkt)
  BY <1>1, FS_Interval
<1>3. Holding \subseteq DOMAIN pkt
  BY DEF Holding
<1> QED BY <1>2, <1>3, FS_Subset

\* A packet as it is put into a queue.
LEMMA NewPacket ==
  ASSUME NEW q \in 0..4, NEW d \in Destinations, NEW s \in Sizes,
         NEW f \in Fates
  PROVE  /\ Packet(q, d, s, f) \in Packets
         /\ Packet(q, d, s, f).queue = q /\ Packet(q, d, s, f).fate = f
         /\ Packet(q, d, s, f).left = s
BY FlowAssumption DEF Packet, Packets

\* Where the next packet comes to stand.
NewIndex == Len(pkt) + 1

\* What an enqueue makes of the packets: the new one is there, and at most one packet
\* of its queue is dropped, when the queue is full.
LEMMA EnqueuedFacts ==
  ASSUME pkt \in Seq(Packets), NEW q \in 0..4, NEW d \in Destinations, NEW s \in Sizes,
         NEW ps \in Enqueued(q, d, s)
  PROVE  /\ ps \in Seq(Packets)
         /\ \A p : p \in DOMAIN ps <=> (p \in DOMAIN pkt \/ p = NewIndex)
         /\ NewIndex \notin DOMAIN pkt
         /\ ps[NewIndex].queue = q /\ ps[NewIndex].left = s
         /\ \A p \in DOMAIN pkt : ps[p].queue = pkt[p].queue /\ ps[p].dest = pkt[p].dest
         /\ \/ /\ ~Overflows(q)
               /\ ps[NewIndex].fate = "queued"
               /\ \A p \in DOMAIN pkt : ps[p] = pkt[p]
            \/ /\ Overflows(q)
               /\ \E v \in DOMAIN ps :
                    /\ ps[v].queue = q /\ ps[v].fate = "overflow"
                    /\ v \in DOMAIN pkt => pkt[v].fate = "queued"
                    /\ v # NewIndex => ps[NewIndex].fate = "queued"
                    /\ \A p \in DOMAIN pkt \ {v} : ps[p] = pkt[p]
<1> DEFINE new == Packet(q, d, s, "queued")
           all == Append(pkt, new)
           n == NewIndex
<1>1. new \in Packets /\ new.queue = q /\ new.fate = "queued" /\ new.left = s
  BY NewPacket DEF Fates
<1>2. Len(pkt) \in Nat /\ DOMAIN pkt = 1..Len(pkt)
  OBVIOUS
<1> HIDE DEF new
<1>3. /\ all \in Seq(Packets) /\ DOMAIN all = DOMAIN pkt \cup {n} /\ all[n] = new
      /\ \A p \in DOMAIN pkt : all[p] = pkt[p] /\ p # n
  BY <1>1, <1>2 DEF NewIndex
<1> HIDE DEF all
<1>4. ps \in IF Overflows(q) THEN {[all EXCEPT ![p].fate = "overflow"] : p \in InQueue(all, q)}
             ELSE {all}
  BY DEF Enqueued, all, new
<1>5. CASE ~Overflows(q)
  <2>1. ps = all
    BY <1>4, <1>5
  <2> QED BY <1>1, <1>3, <1>5, <2>1
<1>6. CASE Overflows(q)
  <2>1. PICK v \in InQueue(all, q) : ps = [all EXCEPT ![v].fate = "overflow"]
    BY <1>4, <1>6
  <2>2. v \in DOMAIN all /\ all[v].queue = q /\ all[v].fate = "queued" /\ all[v] \in Packets
    BY <1>3, <2>1 DEF InQueue
  <2>3. /\ DOMAIN ps = DOMAIN all
        /\ ps[v] = [all[v] EXCEPT !.fate = "overflow"]
        /\ \A p \in DOMAIN all \ {v} : ps[p] = all[p]
    BY <2>1, <2>2
  <2>4. /\ ps[v] \in Packets /\ ps[v].queue = q /\ ps[v].dest = all[v].dest
        /\ ps[v].fate = "overflow" /\ ps[v].left = all[v].left
    BY <2>2, <2>3 DEF Packets, Fates
  <2>5. ps \in Seq(Packets)
    <3>1. DOMAIN all = 1..Len(all) /\ Len(all) \in Nat /\ \A p \in DOMAIN all : all[p] \in Packets
      BY <1>3
    <3>2. \A p \in DOMAIN all : ps[p] \in Packets
      BY <2>3, <2>4, <3>1
    <3>3. ps \in [1..Len(all) -> Packets]
      BY <2>1, <2>3, <3>1, <3>2
    <3> QED BY <3>1, <3>3
  <2>6. ps[n].queue = q /\ ps[n].left = s
    <3>1. CASE v = n
      BY <1>1, <1>3, <2>4, <3>1
    <3>2. CASE v # n
      BY <1>1, <1>3, <2>3, <3>2
    <3> QED BY <3>1, <3>2
  <2>7. \A p \in DOMAIN pkt : ps[p].queue = pkt[p].queue /\ ps[p].dest = pkt[p].dest
    BY <1>3, <2>2, <2>3, <2>4
  <2>8. /\ v \in DOMAIN ps
        /\ v \in DOMAIN pkt => pkt[v].fate = "queued"
        /\ v # n => ps[n].fate = "queued"
        /\ \A p \in DOMAIN pkt \ {v} : ps[p] = pkt[p]
    BY <1>1, <1>3, <2>2, <2>3
  <2>9. DOMAIN ps = DOMAIN pkt \cup {n} /\ n \notin DOMAIN pkt
    BY <1>3, <2>3
  <2> QED BY <1>6, <2>4, <2>5, <2>6, <2>7, <2>8, <2>9
<1> QED BY <1>5, <1>6

-----------------------------------------------------------------------------
(* The invariant                                                           *)

\* What a token is accounted for once scheduler packets are left out.
OnlyUserPacketsSent == \A p \in DOMAIN pkt : pkt[p].fate = "sent" => pkt[p].queue \in UserQueues

LEMMA FlowInitially == Init => FlowInv
<1> SUFFICES ASSUME Init PROVE FlowInv
  OBVIOUS
<1>1. DOMAIN pkt = {} /\ pkt \in Seq(Packets)
  BY DEF Init
<1>2. TypeOK
  BY <1>1, FlowAssumption DEF Init, TypeOK, NoSlot, SlotKinds, MAX_QUEUES
<1>3. InHand /\ NothingYet /\ HandAsChosen
  BY <1>1 DEF Init, InHand, NothingYet, HandAsChosen
<1>4. WithinSlot
  BY <1>1 DEF Init, WithinSlot, NoSlot
<1>5. Holding = {}
  BY <1>1 DEF Holding
<1>6. tokens + Cardinality(Holding) = MaxTokens
  BY <1>5, FS_EmptySet, FlowAssumption DEF Init
<1> QED BY <1>2, <1>3, <1>4, <1>6 DEF FlowInv, TokensAccounted

LEMMA RefusePreserves ==
  ASSUME FlowInv, NEW q \in Classes, NEW d \in Destinations, NEW s \in Sizes, RefusePacket(q, d, s)
  PROVE  FlowInv'
<1> DEFINE n == Len(pkt) + 1
<1> USE DEF txVars
<1>1. pkt \in Seq(Packets) /\ q \in 0..4 /\ hand \subseteq DOMAIN pkt /\ pc = "idle" /\ hand = {}
  BY FlowAssumption DEF FlowInv, TypeOK, InHand, UserQueues, RefusePacket, Idle
<1>2. /\ Packet(q, d, s, "refused") \in Packets
      /\ Packet(q, d, s, "refused").fate = "refused"
  BY <1>1, NewPacket DEF Fates
<1>3. pkt' = Append(pkt, Packet(q, d, s, "refused"))
  BY DEF RefusePacket
<1>4. /\ pkt' \in Seq(Packets) /\ DOMAIN pkt' = DOMAIN pkt \cup {n} /\ pkt'[n].fate = "refused"
      /\ \A p \in DOMAIN pkt : pkt'[p] = pkt[p]
  <2> DEFINE new == Packet(q, d, s, "refused")
  <2>1. new \in Packets /\ new.fate = "refused" /\ pkt' = Append(pkt, new)
    BY <1>2, <1>3
  <2> HIDE DEF new
  <2> QED BY <1>1, <2>1
<1>5. TypeOK'
  BY <1>1, <1>4 DEF FlowInv, TypeOK, RefusePacket
<1>6. InHand' /\ NothingYet' /\ HandAsChosen'
  BY <1>1, <1>4 DEF FlowInv, InHand, NothingYet, HandAsChosen, RefusePacket
<1>7. WithinSlot'
  BY <1>4 DEF FlowInv, WithinSlot, RefusePacket
<1>8. Holding' = Holding
  BY <1>4 DEF Holding
<1>9. TokensAccounted'
  BY <1>4, <1>8 DEF FlowInv, TokensAccounted, RefusePacket
<1> QED BY <1>5, <1>6, <1>7, <1>9 DEF FlowInv

\* What both enqueueing handlers preserve, whatever they do with the tokens.
LEMMA EnqueuePreserves ==
  ASSUME FlowInv, NEW q \in 0..4, NEW d \in Destinations, NEW s \in Sizes,
         pkt' \in Enqueued(q, d, s), pc = "idle", tokens' \in 0..MaxTokens,
         UNCHANGED <<config, txVars>>
  PROVE  TypeOK' /\ InHand' /\ NothingYet' /\ WithinSlot' /\ HandAsChosen'
<1> DEFINE n == NewIndex
<1> USE DEF txVars
<1>1. pkt \in Seq(Packets) /\ hand = {}
  BY DEF FlowInv, TypeOK, InHand
<1>2. /\ pkt' \in Seq(Packets)
      /\ (\A p : p \in DOMAIN pkt' <=> (p \in DOMAIN pkt \/ p = n))
      /\ \A p \in DOMAIN pkt' :
           \/ p \in DOMAIN pkt /\ pkt'[p] = pkt[p]
           \/ pkt'[p].fate \in {"queued", "overflow"}
  <2>1. PICK ps \in Enqueued(q, d, s) : ps = pkt'
    OBVIOUS
  <2>2. /\ ps \in Seq(Packets)
        /\ (\A p : p \in DOMAIN ps <=> (p \in DOMAIN pkt \/ p = n))
        /\ \A p \in DOMAIN ps :
             \/ p \in DOMAIN pkt /\ ps[p] = pkt[p]
             \/ ps[p].fate \in {"queued", "overflow"}
    BY <1>1, <2>1, EnqueuedFacts
  <2> QED BY <2>1, <2>2
<1>3. TypeOK'
  BY <1>1, <1>2 DEF FlowInv, TypeOK
<1>4. InHand' /\ NothingYet' /\ HandAsChosen'
  BY <1>1, <1>2 DEF FlowInv, InHand, NothingYet, HandAsChosen
<1>5. WithinSlot'
  BY <1>2 DEF FlowInv, WithinSlot
<1> QED BY <1>3, <1>4, <1>5

LEMMA DownstreamPreserves ==
  ASSUME FlowInv, NEW q \in Classes, NEW d \in Destinations, NEW s \in Sizes,
         ProcessDownstreamPacket(q, d, s)
  PROVE  FlowInv'
<1> DEFINE n == NewIndex
<1>1. pkt \in Seq(Packets) /\ q \in 0..4 /\ q \in UserQueues /\ tokens \in 0..MaxTokens
      /\ MaxTokens \in Nat
  BY FlowAssumption DEF FlowInv, TypeOK, UserQueues
<1>2. /\ pkt' \in Enqueued(q, d, s) /\ pc = "idle" /\ UNCHANGED <<config, txVars>>
      /\ config.flow => tokens > 0
      /\ tokens' \in IF config.flow THEN TokensAfterEnqueue(q) ELSE {tokens}
  BY DEF ProcessDownstreamPacket, Idle, TokenAvailable
<1>3. /\ tokens' \in 0..MaxTokens
      /\ config.flow => tokens' = IF Overflows(q) THEN tokens ELSE tokens - 1
  <2>1. CASE ~config.flow
    BY <1>1, <1>2, <2>1
  <2>2. CASE config.flow /\ ~Overflows(q)
    BY <1>1, <1>2, <2>2 DEF TokensAfterEnqueue
  <2>3. CASE config.flow /\ Overflows(q)
    <3>1. tokens - 1 \in 0..MaxTokens /\ (tokens - 1) + 1 = tokens
      BY <1>1, <1>2, <2>3
    <3>2. tokens' \in TokensAdded(tokens - 1, 1)
      BY <1>2, <2>3 DEF TokensAfterEnqueue
    <3>3. tokens' = tokens
      BY <1>1, <3>1, <3>2, TokensAddedFacts
    <3> QED BY <1>1, <2>3, <3>3
  <2> QED BY <2>1, <2>2, <2>3
<1>4. TypeOK' /\ InHand' /\ NothingYet' /\ WithinSlot' /\ HandAsChosen'
  BY <1>1, <1>2, <1>3, EnqueuePreserves
<1>5. ASSUME config.flow', OnlyUserPacketsSent' PROVE tokens' + Cardinality(Holding') = MaxTokens
  <2>1. config.flow
    BY <1>2, <1>5
  <2>2. /\ (\A p : p \in DOMAIN pkt' <=> (p \in DOMAIN pkt \/ p = n)) /\ pkt'[n].queue = q /\ n \notin DOMAIN pkt
        /\ \A p \in DOMAIN pkt : pkt'[p].queue = pkt[p].queue
    <3>1. PICK ps \in Enqueued(q, d, s) : ps = pkt'
      BY <1>2
    <3>2. /\ (\A p : p \in DOMAIN ps <=> (p \in DOMAIN pkt \/ p = n)) /\ ps[n].queue = q /\ n \notin DOMAIN pkt
          /\ \A p \in DOMAIN pkt : ps[p].queue = pkt[p].queue
      BY <1>1, <3>1, EnqueuedFacts
    <3> QED BY <3>1, <3>2
  <2>3. OnlyUserPacketsSent
    <3> SUFFICES ASSUME NEW p \in DOMAIN pkt, pkt[p].fate = "sent"
                 PROVE  pkt[p].queue \in UserQueues
      BY DEF OnlyUserPacketsSent
    <3>1. pkt'[p] = pkt[p]
      BY <1>1, <1>2, EnqueuedFacts
    <3> QED BY <1>5, <2>2, <3>1 DEF OnlyUserPacketsSent
  <2>4. tokens + Cardinality(Holding) = MaxTokens
    BY <2>1, <2>3 DEF FlowInv, TokensAccounted, OnlyUserPacketsSent
  <2>5. IsFiniteSet(Holding) /\ n \notin Holding
    BY <1>1, <2>2, HoldingFinite DEF Holding
  <2>6. IsFiniteSet(Holding \cup {n}) /\ Cardinality(Holding \cup {n}) = Cardinality(Holding) + 1
        /\ Cardinality(Holding) \in Nat
    BY <2>5, FS_AddElement, FS_CardinalityType
  <2>7. CASE ~Overflows(q)
    <3>1. pkt'[n].fate = "queued" /\ \A p \in DOMAIN pkt : pkt'[p] = pkt[p]
      BY <1>1, <1>2, <2>7, EnqueuedFacts
    <3>2. Holding' = Holding \cup {n}
      BY <1>1, <2>2, <3>1 DEF Holding
    <3> QED BY <1>1, <1>3, <2>1, <2>4, <2>6, <2>7, <3>2
  <2>8. CASE Overflows(q)
    <3>1. PICK v \in DOMAIN pkt' :
            /\ pkt'[v].queue = q /\ pkt'[v].fate = "overflow"
            /\ v \in DOMAIN pkt => pkt[v].fate = "queued"
            /\ v # n => pkt'[n].fate = "queued"
            /\ \A p \in DOMAIN pkt \ {v} : pkt'[p] = pkt[p]
      BY <1>1, <1>2, <2>8, EnqueuedFacts
    <3>2. v \in Holding \cup {n}
      BY <1>1, <2>2, <3>1 DEF Holding
    <3>3. Holding' = (Holding \cup {n}) \ {v}
      BY <1>1, <2>2, <3>1 DEF Holding
    <3>4. Cardinality(Holding') = Cardinality(Holding)
      <4> DEFINE H == Holding \cup {n}
      <4>1. IsFiniteSet(H) /\ v \in H /\ Cardinality(H) = Cardinality(Holding) + 1
        BY <2>6, <3>2
      <4> HIDE DEF H
      <4>2. Cardinality(H \ {v}) = Cardinality(H) - 1
        BY <4>1, FS_RemoveElement
      <4>3. Holding' = H \ {v}
        BY <3>3 DEF H
      <4> QED BY <2>6, <4>1, <4>2, <4>3
    <3> QED BY <1>3, <2>1, <2>4, <2>8, <3>4
  <2> QED BY <2>7, <2>8
<1>6. TokensAccounted'
  BY <1>5 DEF TokensAccounted, OnlyUserPacketsSent
<1> QED BY <1>4, <1>6 DEF FlowInv

LEMMA SchedulerPacketPreserves ==
  ASSUME FlowInv, NEW d \in Destinations, NEW s \in Sizes, ProcessSchedulerPacket(d, s)
  PROVE  FlowInv'
<1> DEFINE n == NewIndex
<1>1. pkt \in Seq(Packets) /\ tokens \in 0..MaxTokens /\ ControlQueue \in 0..4
      /\ ControlQueue \notin UserQueues
  BY DEF FlowInv, TypeOK, ControlQueue, UserQueues
<1>2. /\ pkt' \in Enqueued(ControlQueue, d, s) /\ pc = "idle"
      /\ UNCHANGED <<config, txVars>> /\ tokens' = tokens
  BY DEF ProcessSchedulerPacket, Idle
<1>3. TypeOK' /\ InHand' /\ NothingYet' /\ WithinSlot' /\ HandAsChosen'
  BY <1>1, <1>2, EnqueuePreserves
<1>4. /\ (\A p : p \in DOMAIN pkt' <=> (p \in DOMAIN pkt \/ p = n)) /\ pkt'[n].queue = ControlQueue /\ n \notin DOMAIN pkt
      /\ \A p \in DOMAIN pkt : pkt'[p].queue = pkt[p].queue
      /\ \A p \in DOMAIN pkt : pkt'[p] = pkt[p] \/ pkt'[p].queue = ControlQueue
      /\ \A p \in DOMAIN pkt : pkt[p].fate = "sent" => pkt'[p] = pkt[p]
  <2>1. PICK ps \in Enqueued(ControlQueue, d, s) : ps = pkt'
    BY <1>2
  <2>2. /\ (\A p : p \in DOMAIN ps <=> (p \in DOMAIN pkt \/ p = n)) /\ ps[n].queue = ControlQueue /\ n \notin DOMAIN pkt
        /\ \A p \in DOMAIN pkt : ps[p].queue = pkt[p].queue
        /\ \/ \A p \in DOMAIN pkt : ps[p] = pkt[p]
           \/ \E v \in DOMAIN ps : /\ ps[v].queue = ControlQueue
                                   /\ v \in DOMAIN pkt => pkt[v].fate = "queued"
                                   /\ \A p \in DOMAIN pkt \ {v} : ps[p] = pkt[p]
    BY <1>1, <2>1, EnqueuedFacts
  <2> QED BY <2>1, <2>2
<1>5. Holding' = Holding
  BY <1>1, <1>4 DEF Holding
<1>6. OnlyUserPacketsSent' => OnlyUserPacketsSent
  BY <1>4 DEF OnlyUserPacketsSent
<1>7. TokensAccounted'
  BY <1>2, <1>5, <1>6 DEF FlowInv, TokensAccounted, OnlyUserPacketsSent
<1> QED BY <1>3, <1>7 DEF FlowInv

LEMMA SendPreserves ==
  ASSUME FlowInv, NEW s \in Slots, SendDownstreamPacket(s)
  PROVE  FlowInv'
<1>1. /\ slot' = s /\ hand' = {} /\ total' = 0 /\ index' = 5 /\ pc' \in {"own", "send"}
      /\ dst' \in MaxWeightChoices /\ UNCHANGED <<config, tokens, pkt>> /\ pc = "idle" /\ hand = {}
  BY DEF SendDownstreamPacket, MAX_QUEUES, FlowInv, InHand
<1>2. s \in SlotKinds /\ s.bytes \in Nat
  BY FlowAssumption DEF SlotKinds
<1>3. dst' \in {0} \cup Destinations
  BY <1>1 DEF MaxWeightChoices, Queue0Destinations, Destinations
<1>4. TypeOK'
  BY <1>1, <1>2, <1>3 DEF FlowInv, TypeOK, MAX_QUEUES
<1>5. InHand' /\ NothingYet' /\ HandAsChosen'
  BY <1>1 DEF FlowInv, InHand, NothingYet, HandAsChosen
<1>6. WithinSlot'
  BY <1>1, <1>2 DEF FlowInv, WithinSlot
<1>7. TokensAccounted'
  BY <1>1 DEF FlowInv, TokensAccounted, Holding
<1> QED BY <1>4, <1>5, <1>6, <1>7 DEF FlowInv

\* One queue asked for the rest of the slot.
LEMMA TakePreserves ==
  ASSUME FlowInv, NEW q, NEW bytes \in Nat, NEW drop, total + bytes <= slot.bytes,
         TakeFrom(q, bytes, dst, drop), pc' \in {"others", "send"},
         index' \in 0..MAX_QUEUES, UNCHANGED <<config, tokens, slot, dst>>
  PROVE  FlowInv'
<1>1. pkt \in Seq(Packets) /\ total \in Nat /\ slot.bytes \in Nat /\ hand \subseteq DOMAIN pkt
  BY DEF FlowInv, TypeOK, SlotKinds
<1>2. PICK r \in DequeueResults(q, bytes, dst, drop) :
        /\ pkt' = After(r, bytes)
        /\ hand' = hand \cup r.whole \cup r.part
        /\ total' = total + LengthOf(r, bytes)
  BY DEF TakeFrom
<1>3. /\ r.whole \subseteq DOMAIN pkt /\ r.part \subseteq DOMAIN pkt
      /\ r.dropped \subseteq DOMAIN pkt
      /\ \A p \in r.whole \cup r.part \cup r.dropped : pkt[p].fate = "queued"
      /\ \A p \in r.whole \cup r.part : dst \in {0, pkt[p].dest}
      /\ r.whole \cap r.part = {} /\ (r.whole \cup r.part) \cap r.dropped = {}
      /\ r.part # {} => config.fragment
      /\ r.dropped # {} => ~config.fragment
  BY <1>2, ResultFacts
<1>4. /\ pkt' \in Seq(Packets) /\ DOMAIN pkt' = DOMAIN pkt
      /\ \A p \in DOMAIN pkt :
           /\ pkt'[p].queue = pkt[p].queue /\ pkt'[p].dest = pkt[p].dest
           /\ p \in r.whole => pkt'[p].fate = "hand"
           /\ p \in r.part => pkt'[p].fate = "queued"
           /\ p \in r.dropped => pkt'[p].fate = "toobig"
           /\ p \notin r.whole \cup r.part \cup r.dropped => pkt'[p] = pkt[p]
  <2> DEFINE A == After(r, bytes)
  <2>1. /\ A \in Seq(Packets) /\ DOMAIN A = DOMAIN pkt
        /\ \A p \in DOMAIN pkt :
             /\ A[p].queue = pkt[p].queue /\ A[p].dest = pkt[p].dest
             /\ p \in r.whole => A[p].fate = "hand"
             /\ p \in r.part => A[p].fate = "queued"
             /\ p \in r.dropped => A[p].fate = "toobig"
             /\ p \notin r.whole \cup r.part \cup r.dropped => A[p] = pkt[p]
    BY <1>1, <1>2, AfterFacts
  <2>2. pkt' = A
    BY <1>2
  <2> HIDE DEF A
  <2> QED BY <2>1, <2>2
<1>5. total' \in Nat /\ total' <= slot.bytes
  <2>1. LengthOf(r, bytes) \in 0..bytes
    BY <1>2, LengthBound
  <2> QED BY <1>1, <1>2, <2>1
<1>6. TypeOK'
  BY <1>1, <1>2, <1>3, <1>4, <1>5 DEF FlowInv, TypeOK
<1> HIDE DEF FlowInv
<1>7. InHand' /\ NothingYet' /\ HandAsChosen'
  <2>1. \A p \in DOMAIN pkt : pkt'[p].fate = "hand" => p \in hand'
    BY <1>2, <1>3, <1>4 DEF FlowInv, InHand
  <2>2. HandAsChosen'
    BY <1>1, <1>2, <1>3, <1>4 DEF FlowInv, HandAsChosen
  <2>3. ASSUME NEW p \in hand'
        PROVE  pkt'[p].fate = "hand" \/ (pkt'[p].fate = "queued" /\ config'.fragment)
    <3>1. CASE p \in r.whole \cup r.part
      BY <1>3, <1>4, <3>1
    <3>2. CASE p \in hand /\ p \notin r.whole \cup r.part
      BY <1>1, <1>3, <1>4, <3>2 DEF FlowInv, InHand
    <3> QED BY <1>2, <3>1, <3>2
  <2> QED BY <1>4, <2>1, <2>2, <2>3 DEF InHand, NothingYet
<1>9. WithinSlot'
  BY <1>3, <1>4, <1>5 DEF FlowInv, WithinSlot
<1>10. Holding' = Holding
  BY <1>3, <1>4 DEF Holding
<1>11. OnlyUserPacketsSent' => OnlyUserPacketsSent
  BY <1>3, <1>4 DEF OnlyUserPacketsSent
<1>12. TokensAccounted'
  BY <1>10, <1>11 DEF FlowInv, TokensAccounted, OnlyUserPacketsSent
<1> QED BY <1>6, <1>7, <1>9, <1>12 DEF FlowInv

LEMMA TransmitPreserves ==
  ASSUME FlowInv, Transmit
  PROVE  FlowInv'
<1>1. /\ pkt \in Seq(Packets) /\ hand \subseteq DOMAIN pkt /\ tokens \in 0..MaxTokens
      /\ total <= slot.bytes /\ config \in Configs
  BY DEF FlowInv, TypeOK, WithinSlot
<1>2. /\ pkt' = Settled("sent")
      /\ tokens' \in IF config.flow /\ Completed # {}
                     THEN TokensAdded(tokens, CompletedPackets) ELSE {tokens}
      /\ pc' = "idle" /\ slot' = NoSlot /\ dst' = 0 /\ index' = 0 /\ hand' = {} /\ total' = 0
      /\ config' = config
  BY <1>1 DEF Transmit
<1>3. Completed \subseteq DOMAIN pkt /\ \A p \in DOMAIN pkt : p \in Completed <=> pkt[p].fate = "hand"
  BY <1>1 DEF FlowInv, InHand, Completed
<1>4. /\ pkt' \in Seq(Packets) /\ DOMAIN pkt' = DOMAIN pkt
      /\ \A p \in DOMAIN pkt :
           /\ pkt'[p].queue = pkt[p].queue
           /\ p \in Completed => pkt'[p].fate = "sent"
           /\ p \notin Completed => pkt'[p] = pkt[p]
  <2>1. DOMAIN pkt = 1..Len(pkt) /\ Len(pkt) \in Nat /\ \A p \in DOMAIN pkt : pkt[p] \in Packets
    BY <1>1
  <2>2. /\ DOMAIN pkt' = DOMAIN pkt
        /\ \A p \in DOMAIN pkt :
             pkt'[p] = IF p \in Completed THEN [pkt[p] EXCEPT !.fate = "sent"] ELSE pkt[p]
    BY <1>2 DEF Settled
  <2>3. \A p \in DOMAIN pkt : /\ pkt'[p] \in Packets
                              /\ pkt'[p].queue = pkt[p].queue
                              /\ p \in Completed => pkt'[p].fate = "sent"
                              /\ p \notin Completed => pkt'[p] = pkt[p]
    BY <2>1, <2>2 DEF Packets, Fates
  <2>4. pkt' \in [1..Len(pkt) -> Packets]
    BY <1>2, <2>1, <2>2, <2>3 DEF Settled
  <2> QED BY <2>1, <2>2, <2>3, <2>4
<1>5. IsFiniteSet(DOMAIN pkt) /\ IsFiniteSet(Holding) /\ IsFiniteSet(Completed)
  BY <1>1, <1>3, HoldingFinite, FS_Subset
<1>6. CompletedPackets \in Nat
  BY <1>5, FS_CardinalityType DEF CompletedPackets
<1>7. tokens' \in 0..MaxTokens
  <2>1. CASE config.flow /\ Completed # {}
    BY <1>1, <1>2, <1>6, <2>1, TokensAddedFacts
  <2>2. CASE ~(config.flow /\ Completed # {})
    BY <1>1, <1>2, <2>2
  <2> QED BY <2>1, <2>2
<1>8. TypeOK'
  BY <1>1, <1>2, <1>4, <1>7, FlowAssumption
  DEF TypeOK, NoSlot, SlotKinds, MAX_QUEUES
<1>9. InHand' /\ NothingYet' /\ HandAsChosen'
  BY <1>2, <1>3, <1>4 DEF InHand, NothingYet, HandAsChosen
<1>10. WithinSlot'
  BY <1>2, <1>4 DEF FlowInv, WithinSlot, NoSlot
<1>11. ASSUME config.flow', OnlyUserPacketsSent' PROVE tokens' + Cardinality(Holding') = MaxTokens
  <2>1. config.flow /\ OnlyUserPacketsSent
    BY <1>2, <1>3, <1>4, <1>11 DEF OnlyUserPacketsSent
  <2>2. tokens + Cardinality(Holding) = MaxTokens
    BY <2>1 DEF FlowInv, TokensAccounted, OnlyUserPacketsSent
  <2>3. Completed \subseteq Holding
    BY <1>3, <1>4, <1>11 DEF OnlyUserPacketsSent, Holding
  <2>4. Holding' = Holding \ Completed
    BY <1>3, <1>4 DEF Holding
  <2>5. /\ Cardinality(Holding') = Cardinality(Holding) - Cardinality(Completed)
        /\ Cardinality(Completed) <= Cardinality(Holding)
        /\ Cardinality(Holding) \in Nat /\ Cardinality(Completed) \in Nat
    <3>1. Holding \cap Completed = Completed
      BY <2>3
    <3>2. Cardinality(Holding \ Completed) = Cardinality(Holding) - Cardinality(Holding \cap Completed)
      BY <1>5, FS_Difference
    <3>3. Cardinality(Completed) <= Cardinality(Holding)
      BY <1>5, <2>3, FS_Subset
    <3>4. Cardinality(Holding) \in Nat /\ Cardinality(Completed) \in Nat
      BY <1>5, FS_CardinalityType
    <3> QED BY <2>4, <3>1, <3>2, <3>3, <3>4
  <2>6. tokens' = tokens + Cardinality(Completed)
    <3>1. CASE Completed # {}
      <4>1. tokens' \in TokensAdded(tokens, CompletedPackets)
        BY <1>2, <2>1, <3>1
      <4>2. tokens + CompletedPackets <= MaxTokens
        BY <1>1, <2>2, <2>5 DEF CompletedPackets
      <4> QED BY <1>1, <1>6, <4>1, <4>2, TokensAddedFacts DEF CompletedPackets
    <3>2. CASE Completed = {}
      <4>1. tokens' = tokens /\ Cardinality(Completed) = 0
        BY <1>2, <3>2, FS_EmptySet
      <4> QED BY <1>1, <4>1
    <3> QED BY <3>1, <3>2
  <2> QED BY <1>1, <2>2, <2>5, <2>6
<1>12. TokensAccounted'
  BY <1>11 DEF TokensAccounted, OnlyUserPacketsSent
<1> QED BY <1>8, <1>9, <1>10, <1>12 DEF FlowInv

LEMMA FlowStep == FlowInv /\ [Next]_vars => FlowInv'
<1> SUFFICES ASSUME FlowInv, [Next]_vars PROVE FlowInv'
  OBVIOUS
<1>0. total \in Nat /\ slot.bytes \in Nat /\ total <= slot.bytes /\ index \in 0..MAX_QUEUES
      /\ config \in ConfigKinds
  BY FlowAssumption DEF FlowInv, TypeOK, WithinSlot, SlotKinds
<1>1. ASSUME NEW q \in Classes, NEW d \in Destinations, NEW s \in Sizes, RefusePacket(q, d, s)
      PROVE  FlowInv'
  BY <1>1, RefusePreserves
<1>2. ASSUME NEW q \in Classes, NEW d \in Destinations, NEW s \in Sizes,
             ProcessDownstreamPacket(q, d, s)
      PROVE  FlowInv'
  BY <1>2, DownstreamPreserves
<1>3. ASSUME NEW d \in Destinations, NEW s \in Sizes, ProcessSchedulerPacket(d, s)
      PROVE  FlowInv'
  BY <1>3, SchedulerPacketPreserves
<1>4. ASSUME NEW s \in Slots, SendDownstreamPacket(s) PROVE FlowInv'
  BY <1>4, SendPreserves
<1>5. CASE DequeueOwn
  <2>1. pc = "own" /\ TakeFrom(slot.queue, slot.bytes, dst, TRUE)
        /\ pc' \in {"others", "send"} /\ UNCHANGED <<config, tokens, slot, dst, index>>
    BY <1>5 DEF DequeueOwn
  <2>2. total + slot.bytes <= slot.bytes
    BY <1>0, <2>1 DEF FlowInv, NothingYet
  <2> QED BY <1>0, <2>1, <2>2, TakePreserves
<1>6. CASE DequeueOther
  <2>1. /\ pc = "others" /\ Looking /\ index' = index - 1
        /\ UNCHANGED <<config, tokens, pc, slot, dst>>
    BY <1>6 DEF DequeueOther
  <2>2. index' \in 0..MAX_QUEUES
    BY <1>0, <2>1 DEF Looking, MAX_QUEUES
  <2>3. CASE index - 1 # slot.queue
    <3>1. TakeFrom(index - 1, Remaining, dst, DropFromOthers)
      BY <1>6, <2>3 DEF DequeueOther, DestinationOfOthers
    <3>2. Remaining \in Nat /\ total + Remaining <= slot.bytes
      BY <1>0 DEF Remaining
    <3> QED BY <2>1, <2>2, <3>1, <3>2, TakePreserves
  <2>4. CASE index - 1 = slot.queue
    <3>1. UNCHANGED <<pkt, hand, total>>
      BY <1>6, <2>4 DEF DequeueOther
    <3> QED BY <2>1, <2>2, <3>1
        DEF FlowInv, TypeOK, InHand, NothingYet, WithinSlot, HandAsChosen, TokensAccounted, Holding
  <2> QED BY <2>3, <2>4
<1>7. CASE EndDequeue
  BY <1>7 DEF EndDequeue, FlowInv, TypeOK, InHand, NothingYet, WithinSlot, HandAsChosen, TokensAccounted, Holding
<1>8. CASE Transmit
  BY <1>8, TransmitPreserves
<1>9. CASE UNCHANGED vars
  BY <1>9 DEF vars, FlowInv, TypeOK, InHand, NothingYet, WithinSlot, HandAsChosen, TokensAccounted, Holding
<1> QED BY <1>1, <1>2, <1>3, <1>4, <1>5, <1>6, <1>7, <1>8, <1>9 DEF Next

\* The inductive invariant holds in every state (basemodelimplHB.cc:864, :1077).
THEOREM FlowInvariance == Spec => []FlowInv
<1>1. Init => FlowInv
  BY FlowInitially
<1>2. FlowInv /\ [Next]_vars => FlowInv'
  BY FlowStep
<1> QED BY <1>1, <1>2, PTL DEF Spec

\* The state of tokens, packets and dequeue is always well typed, tokens never beyond
\* the configured number (basemodelimplHB.h:90).
THEOREM FlowTyping == Spec => []TypeOK
<1>1. FlowInv => TypeOK
  BY DEF FlowInv
<1> QED BY <1>1, FlowInvariance, PTL

\* Each token is available or held by exactly one packet, whatever was aggregated, cut
\* in fragments or dropped (basemodelimplHB.cc:872, :1150).
THEOREM TokensHeld == Spec => []TokensAccounted
<1>1. FlowInv => TokensAccounted
  BY DEF FlowInv
<1> QED BY <1>1, FlowInvariance, PTL

\* No transmission exceeds its slot and none is discarded (basicqueuemanagerHB.cc:329).
THEOREM NeverBeyondSlot == Spec => []WithinSlot
<1>1. FlowInv => WithinSlot
  BY DEF FlowInv
<1> QED BY <1>1, FlowInvariance, PTL

\* A frame is addressed to the destination the weights chose, and all its components
\* are for it (basemodelimplHB.cc:1117).
THEOREM FramesAddressed == Spec => []AddressedAsChosen
<1>1. FlowInv => AddressedAsChosen
  <2> SUFFICES ASSUME FlowInv, hand # {}, dst # 0
               PROVE  FrameDestination = dst /\ \A p \in hand : pkt[p].dest = dst
    BY DEF AddressedAsChosen
  <2>1. \A p \in hand : pkt[p].dest = dst
    BY DEF FlowInv, HandAsChosen
  <2>2. dst \in Destinations
    BY DEF FlowInv, TypeOK
  <2>3. \A d \in Destinations : (\A p \in hand : pkt[p].dest = d) => d = dst
    BY <2>1
  <2>4. FrameDestination = dst
    BY <2>1, <2>2, <2>3 DEF FrameDestination
  <2> QED BY <2>1, <2>4
<1> QED BY <1>1, FlowInvariance, PTL

\* Only the slot's own queue drops packets as too big, and only when they may not be
\* fragmented (basicqueuemanagerHB.cc:61, :272).
THEOREM TooBigDrops == Spec => TooBigInOwnClass
<1>1. FlowInv /\ [Next]_vars => [DropsOfOwnClass]_vars
  <2> SUFFICES ASSUME FlowInv, Next, NEW p \in DOMAIN pkt, pkt[p].fate = "queued",
                      pkt'[p].fate = "toobig"
               PROVE  pkt[p].queue = slot.queue /\ ~config.fragment /\ pkt[p].left > slot.bytes
    BY DEF DropsOfOwnClass
  <2>0. /\ pkt \in Seq(Packets) /\ slot.bytes \in Nat /\ total \in Nat /\ total <= slot.bytes
        /\ UserQueues \subseteq 0..4 /\ ControlQueue \in 0..4 /\ Classes \subseteq UserQueues
    BY FlowAssumption
    DEF FlowInv, TypeOK, WithinSlot, SlotKinds, UserQueues, ControlQueue
  <2>1. ASSUME NEW q \in Classes, NEW d \in Destinations, NEW s \in Sizes, RefusePacket(q, d, s)
        PROVE  FALSE
    <3>1. pkt'[p] = pkt[p]
      <4> DEFINE new == Packet(q, d, s, "refused")
      <4>1. pkt' = Append(pkt, new)
        BY <2>1 DEF RefusePacket
      <4> HIDE DEF new
      <4> QED BY <2>0, <4>1
    <3> QED BY <3>1
  <2>2. ASSUME NEW q \in 0..4, NEW d \in Destinations, NEW s \in Sizes, pkt' \in Enqueued(q, d, s)
        PROVE  FALSE
    <3>1. PICK ps \in Enqueued(q, d, s) : ps = pkt'
      BY <2>2
    <3>2. ps[p] = pkt[p] \/ ps[p].fate = "overflow"
      BY <2>0, <3>1, EnqueuedFacts
    <3> QED BY <3>1, <3>2
  <2>3. ASSUME NEW q, NEW bytes \in Nat, NEW drop, TakeFrom(q, bytes, dst, drop)
        PROVE  pkt[p].queue = q /\ TooBig(p, bytes, drop)
    <3>1. PICK r \in DequeueResults(q, bytes, dst, drop) : pkt' = After(r, bytes)
      BY <2>3 DEF TakeFrom
    <3> DEFINE A == After(r, bytes)
    <3>2. /\ p \in r.whole => A[p].fate = "hand"
          /\ p \in r.part => A[p].fate = "queued"
          /\ p \notin r.whole \cup r.part \cup r.dropped => A[p] = pkt[p]
      BY <2>0, <3>1, AfterFacts
    <3>3. pkt' = A
      BY <3>1
    <3> HIDE DEF A
    <3>4. p \in r.dropped
      BY <3>2, <3>3
    <3> QED BY <3>1, <3>4, ResultFacts
  <2>4. CASE DequeueOwn
    <3>1. pkt[p].queue = slot.queue /\ TooBig(p, slot.bytes, TRUE)
      BY <2>0, <2>3, <2>4 DEF DequeueOwn
    <3> QED BY <3>1 DEF TooBig
  <2>5. CASE DequeueOther
    <3>1. CASE index - 1 # slot.queue
      <4>1. TakeFrom(index - 1, Remaining, dst, DropFromOthers) /\ Remaining \in Nat
        BY <2>0, <2>5, <3>1 DEF DequeueOther, DestinationOfOthers, Remaining
      <4>2. TooBig(p, Remaining, DropFromOthers)
        BY <2>3, <4>1
      <4> QED BY <4>2 DEF TooBig, DropFromOthers
    <3>2. CASE index - 1 = slot.queue
      BY <2>5, <3>2 DEF DequeueOther
    <3> QED BY <3>1, <3>2
  <2>6. CASE Transmit
    <3>1. \E fate \in {"sent", "discarded"} : pkt' = Settled(fate)
      BY <2>6 DEF Transmit
    <3>2. p \notin Completed
      BY DEF Completed
    <3>3. pkt'[p] = pkt[p]
      BY <3>1, <3>2 DEF Settled
    <3> QED BY <3>3
  <2>7. CASE UNCHANGED pkt
    BY <2>7
  <2> QED
    <3>1. ASSUME NEW q \in Classes, NEW d \in Destinations, NEW s \in Sizes,
                 ProcessDownstreamPacket(q, d, s)
          PROVE  FALSE
      BY <2>0, <2>2, <3>1 DEF ProcessDownstreamPacket
    <3>2. ASSUME NEW d \in Destinations, NEW s \in Sizes, ProcessSchedulerPacket(d, s)
          PROVE  FALSE
      BY <2>0, <2>2, <3>2 DEF ProcessSchedulerPacket
    <3>3. ASSUME NEW s \in Slots, SendDownstreamPacket(s) PROVE FALSE
      BY <2>7, <3>3 DEF SendDownstreamPacket
    <3>4. CASE EndDequeue
      BY <2>7, <3>4 DEF EndDequeue
    <3> QED BY <2>1, <2>4, <2>5, <2>6, <3>1, <3>2, <3>3, <3>4 DEF Next
<1> QED BY <1>1, FlowInvariance, PTL DEF Spec, TooBigInOwnClass

-----------------------------------------------------------------------------
(* What a set of packets has left                                          *)

LEMMA NoBytesLeft == BytesLeft({}) = 0
<1> DEFINE D(g) == [s \in SUBSET {} |->
                      IF s = {} THEN 0
                      ELSE pkt[CHOOSE x \in s : TRUE].left + g[s \ {CHOOSE x \in s : TRUE}]]
           g0 == [s \in SUBSET {} |-> 0]
<1>1. g0 = D(g0)
  OBVIOUS
<1>2. BytesLeft({}) = (CHOOSE g : g = D(g))[{}]
  BY DEF BytesLeft, MapThenSumSet, MapThenFoldSet
<1>3. PICK g : g = D(g) /\ BytesLeft({}) = g[{}]
  BY <1>1, <1>2
<1> QED BY <1>3

\* A set of natural numbers that is not empty has a least element.
LEMMA LeastNumber ==
  ASSUME NEW T \in SUBSET Nat, T # {}
  PROVE  \E x \in T : \A y \in T : x <= y
<1>1. PICK x \in T : \A y \in T : ~ (<<y, x>> \in OpToRel(<, Nat))
  BY NatLessThanWellFounded, WFMin
<1>2. \A y \in T : ~ (y < x)  BY <1>1 DEF OpToRel
<1> QED BY <1>2

\* What the packets of each set have left in sum.
Sums(n) ==
  {h \in [SUBSET (1..n) -> Nat] :
     /\ h[{}] = 0
     /\ \A S \in SUBSET (1..n) : \A p \in S : h[S] = pkt[p].left + h[S \ {p}]}

\* One packet more: each sum without it, with and without what it has left.
LEMMA OneMoreSum ==
  ASSUME NEW n \in Nat, NEW h \in Sums(n), \A p \in 1..(n + 1) : pkt[p].left \in Nat
  PROVE  Sums(n + 1) # {}
<1> DEFINE m == n + 1
           own(S) == IF m \in S THEN pkt[m].left ELSE 0
           more == [S \in SUBSET (1..m) |-> h[S \ {m}] + own(S)]
<1>1. /\ h \in [SUBSET (1..n) -> Nat] /\ h[{}] = 0
      /\ \A S \in SUBSET (1..n) : \A p \in S : h[S] = pkt[p].left + h[S \ {p}]
  BY DEF Sums
<1>2. \A S \in SUBSET (1..m) : S \ {m} \in SUBSET (1..n)
  OBVIOUS
<1>3. \A S \in SUBSET (1..m) : own(S) \in Nat /\ h[S \ {m}] \in Nat
  BY <1>1, <1>2
<1>4. more \in [SUBSET (1..m) -> Nat]
  <2>1. ASSUME NEW S \in SUBSET (1..m) PROVE h[S \ {m}] + own(S) \in Nat
    <3>1. own(S) \in Nat /\ h[S \ {m}] \in Nat
      BY <1>3
    <3> HIDE DEF own, m
    <3> QED BY <3>1
  <2> HIDE DEF own
  <2> QED BY <2>1
<1>5. more[{}] = 0
  <2>1. {} \ {m} = {} /\ own({}) = 0 /\ {} \in SUBSET (1..m)
    OBVIOUS
  <2>2. more[{}] = h[{} \ {m}] + own({})
    BY <2>1
  <2> HIDE DEF own, more
  <2> QED BY <1>1, <2>1, <2>2
<1>6. ASSUME NEW S \in SUBSET (1..m), NEW p \in S
      PROVE  more[S] = pkt[p].left + more[S \ {p}]
  <2>1. S \ {p} \in SUBSET (1..m)
    OBVIOUS
  <2>2. more[S] = h[S \ {m}] + own(S) /\ more[S \ {p}] = h[(S \ {p}) \ {m}] + own(S \ {p})
    BY <2>1
  <2>3. /\ own(S) \in Nat /\ own(S \ {p}) \in Nat
        /\ h[S \ {m}] \in Nat /\ h[(S \ {p}) \ {m}] \in Nat
    <3> HIDE DEF own, m
    <3> QED BY <1>3, <2>1
  <2>4. CASE p = m
    <3>1. (S \ {p}) \ {m} = S \ {m} /\ own(S) = pkt[p].left /\ own(S \ {p}) = 0
      BY <2>4
    <3> HIDE DEF own, more
    <3>2. more[S] = h[S \ {m}] + pkt[p].left /\ more[S \ {p}] = h[S \ {m}] + 0
      BY <2>2, <3>1
    <3> HIDE DEF m
    <3> QED BY <2>3, <3>1, <3>2
  <2>5. CASE p # m
    <3>1. (S \ {p}) \ {m} = (S \ {m}) \ {p} /\ own(S) = own(S \ {p}) /\ p \in S \ {m}
      BY <2>5
    <3>2. h[S \ {m}] = pkt[p].left + h[(S \ {m}) \ {p}]
      BY <1>1, <1>2, <3>1
    <3>3. pkt[p].left \in Nat
      OBVIOUS
    <3> HIDE DEF own, more, m
    <3> QED BY <2>2, <2>3, <3>1, <3>2, <3>3
  <2> QED BY <2>4, <2>5
<1> HIDE DEF more
<1>7. more \in Sums(m)
  BY <1>4, <1>5, <1>6 DEF Sums
<1> QED BY <1>7

LEMMA SumsExist ==
  ASSUME NEW n \in Nat, \A p \in 1..n : pkt[p].left \in Nat
  PROVE  Sums(n) # {}
<1> DEFINE T == {m \in 0..n : Sums(m) = {}}
<1>1. Sums(0) # {}
  <2> DEFINE h == [S \in SUBSET {} |-> 0]
  <2>1. 1..0 = {}
    OBVIOUS
  <2>2. h \in [SUBSET {} -> Nat] /\ h[{}] = 0
    OBVIOUS
  <2>3. \A S \in SUBSET {} : \A p \in S : h[S] = pkt[p].left + h[S \ {p}]
    OBVIOUS
  <2> HIDE DEF h
  <2>4. h \in Sums(0)
    BY <2>1, <2>2, <2>3 DEF Sums
  <2> QED BY <2>4
<1>2. SUFFICES ASSUME T # {} PROVE FALSE
  <2>1. n \notin T
    BY <1>2
  <2> QED BY <2>1
<1>3. PICK m \in T : \A k \in T : m <= k
  <2>1. T \in SUBSET Nat
    OBVIOUS
  <2> HIDE DEF T
  <2> QED BY <1>2, <2>1, LeastNumber
<1>4. m \in 0..n /\ Sums(m) = {}
  OBVIOUS
<1>5. m - 1 \in Nat /\ m - 1 <= n /\ (m - 1) + 1 = m
  <2>1. m # 0
    BY <1>1, <1>4
  <2> QED BY <1>4, <2>1
<1>6. m - 1 \notin T
  <2> HIDE DEF T
  <2>1. ~ (m <= m - 1)
    BY <1>4
  <2> QED BY <1>3, <2>1
<1>7. PICK h : h \in Sums(m - 1)
  BY <1>5, <1>6
<1>8. \A p \in 1..((m - 1) + 1) : pkt[p].left \in Nat
  BY <1>4, <1>5
<1>9. Sums((m - 1) + 1) # {}
  <2> HIDE DEF T
  <2> QED BY <1>5, <1>7, <1>8, OneMoreSum
<1> QED BY <1>4, <1>5, <1>9

\* BytesLeft is that sum, in whatever order it counts.
LEMMA SumIsBytesLeft ==
  ASSUME NEW n \in Nat, NEW h \in Sums(n), NEW S \in SUBSET (1..n)
  PROVE  BytesLeft(S) = h[S]
<1> DEFINE D(g) == [s \in SUBSET S |->
                      IF s = {} THEN 0
                      ELSE pkt[CHOOSE x \in s : TRUE].left + g[s \ {CHOOSE x \in s : TRUE}]]
           h0 == [s \in SUBSET S |-> h[s]]
<1>1. /\ h \in [SUBSET (1..n) -> Nat] /\ h[{}] = 0
      /\ \A s \in SUBSET (1..n) : \A p \in s : h[s] = pkt[p].left + h[s \ {p}]
  BY DEF Sums
<1>2. \A s \in SUBSET S : s # {} =>
        /\ (CHOOSE x \in s : TRUE) \in s
        /\ s \ {CHOOSE x \in s : TRUE} \in SUBSET S
        /\ h[s] = pkt[CHOOSE x \in s : TRUE].left + h[s \ {CHOOSE x \in s : TRUE}]
  <2>1. ASSUME NEW s \in SUBSET S, s # {}
        PROVE  (CHOOSE x \in s : TRUE) \in s
    <3>1. \E x \in s : TRUE
      BY <2>1
    <3> QED BY <3>1
  <2> QED BY <1>1, <2>1
<1>3. h0 = D(h0)
  <2>1. ASSUME NEW s \in SUBSET S PROVE h0[s] = D(h0)[s]
    <3>1. CASE s = {}
      BY <1>1, <3>1
    <3>2. CASE s # {}
      <4>1. D(h0)[s] = pkt[CHOOSE x \in s : TRUE].left + h0[s \ {CHOOSE x \in s : TRUE}]
        BY <3>2
      <4>2. h0[s] = h[s] /\ h0[s \ {CHOOSE x \in s : TRUE}] = h[s \ {CHOOSE x \in s : TRUE}]
        BY <1>2, <3>2
      <4> HIDE DEF h0, D
      <4> QED BY <1>2, <3>2, <4>1, <4>2
    <3> QED BY <3>1, <3>2
  <2> QED BY <2>1
<1>4. BytesLeft(S) = (CHOOSE g : g = D(g))[S]
  BY DEF BytesLeft, MapThenSumSet, MapThenFoldSet
<1>5. PICK g : g = D(g) /\ BytesLeft(S) = g[S]
  BY <1>3, <1>4
<1>6. g[{}] = 0
  BY <1>5
<1>7. ASSUME NEW s \in SUBSET S, s # {}
      PROVE  g[s] = pkt[CHOOSE x \in s : TRUE].left + g[s \ {CHOOSE x \in s : TRUE}]
  <2>1. D(g)[s] = pkt[CHOOSE x \in s : TRUE].left + g[s \ {CHOOSE x \in s : TRUE}]
    BY <1>7
  <2>2. g[s] = D(g)[s]
    BY <1>5
  <2> HIDE DEF D
  <2> QED BY <2>1, <2>2
<1> HIDE DEF D, h0
<1> DEFINE bad == {s \in SUBSET S : g[s] # h[s]}
           T == {Cardinality(s) : s \in bad}
<1>8. \A s \in SUBSET S : IsFiniteSet(s) /\ Cardinality(s) \in Nat
  <2>1. IsFiniteSet(1..n)
    BY FS_Interval
  <2> QED BY <2>1, FS_Subset, FS_CardinalityType
<1>9. SUFFICES ASSUME bad # {} PROVE FALSE
  <2>1. S \notin bad
    BY <1>9
  <2> QED BY <1>5, <2>1
<1>10. T \in SUBSET Nat /\ T # {}
  BY <1>8, <1>9
<1>11. PICK s \in bad : \A u \in bad : Cardinality(s) <= Cardinality(u)
  <2>1. PICK t \in T : \A v \in T : t <= v
    <3> HIDE DEF T
    <3> QED BY <1>10, LeastNumber
  <2>2. PICK s \in bad : t = Cardinality(s)
    OBVIOUS
  <2>3. \A u \in bad : Cardinality(u) \in T
    OBVIOUS
  <2> HIDE DEF bad, T
  <2> QED BY <2>1, <2>2, <2>3
<1>12. s \in SUBSET S /\ g[s] # h[s]
  OBVIOUS
<1>13. s # {}
  BY <1>1, <1>6, <1>12
<1> DEFINE x == CHOOSE x \in s : TRUE
<1>14. x \in s /\ s \ {x} \in SUBSET S /\ h[s] = pkt[x].left + h[s \ {x}]
  BY <1>2, <1>12, <1>13
<1>15. g[s] = pkt[x].left + g[s \ {x}]
  BY <1>7, <1>12, <1>13
<1> HIDE DEF x
<1>16. s \ {x} \in bad
  BY <1>12, <1>14, <1>15
<1>17. Cardinality(s \ {x}) = Cardinality(s) - 1
  BY <1>8, <1>12, <1>14, FS_RemoveElement
<1>18. Cardinality(s) \in Nat
  BY <1>8, <1>12
<1>19. Cardinality(s) <= Cardinality(s) - 1
  <2> HIDE DEF bad
  <2> QED BY <1>11, <1>16, <1>17
<1> HIDE DEF bad, T
<1> QED BY <1>18, <1>19

\* A set of packets has a number of bytes left.
LEMMA BytesLeftNat ==
  ASSUME pkt \in Seq(Packets), NEW S \in SUBSET DOMAIN pkt
  PROVE  BytesLeft(S) \in Nat
<1> DEFINE n == Len(pkt)
<1>1. n \in Nat /\ DOMAIN pkt = 1..n /\ \A o \in 1..n : pkt[o] \in Packets
  OBVIOUS
<1> HIDE DEF n
<1>2. \A o \in 1..n : pkt[o].left \in Nat
  BY <1>1 DEF Packets
<1>3. PICK h : h \in Sums(n)
  BY <1>1, <1>2, SumsExist
<1>4. S \in SUBSET (1..n)
  BY <1>1
<1>5. BytesLeft(S) = h[S]
  BY <1>1, <1>3, <1>4, SumIsBytesLeft
<1>6. h[S] \in Nat
  BY <1>3, <1>4 DEF Sums
<1> QED BY <1>5, <1>6

\* A packet more in a set adds what it has left, in whatever order they are counted.
LEMMA BytesLeftAdds ==
  ASSUME pkt \in Seq(Packets), NEW S \in SUBSET DOMAIN pkt, NEW p \in DOMAIN pkt \ S
  PROVE  /\ BytesLeft(S) \in Nat /\ pkt[p].left \in Nat
         /\ BytesLeft(S \cup {p}) = BytesLeft(S) + pkt[p].left
<1> DEFINE n == Len(pkt)
<1>1. n \in Nat /\ DOMAIN pkt = 1..n /\ \A o \in 1..n : pkt[o].left \in Nat
  <2>1. n \in Nat /\ DOMAIN pkt = 1..n /\ \A o \in 1..n : pkt[o] \in Packets
    OBVIOUS
  <2> HIDE DEF n
  <2>2. \A o \in 1..n : pkt[o].left \in Nat
    BY <2>1 DEF Packets
  <2> QED BY <2>1, <2>2
<1> HIDE DEF n
<1>2. PICK h : h \in Sums(n)
  BY <1>1, SumsExist
<1>3. /\ S \in SUBSET (1..n) /\ S \cup {p} \in SUBSET (1..n) /\ p \in S \cup {p}
      /\ (S \cup {p}) \ {p} = S /\ p \in 1..n
  <2>1. S \in SUBSET (1..n) /\ p \in 1..n /\ p \notin S
    BY <1>1
  <2> QED BY <2>1
<1>4. BytesLeft(S) = h[S] /\ BytesLeft(S \cup {p}) = h[S \cup {p}]
  BY <1>1, <1>2, <1>3, SumIsBytesLeft
<1>5. h[S] \in Nat /\ h[S \cup {p}] = pkt[p].left + h[(S \cup {p}) \ {p}]
  BY <1>2, <1>3 DEF Sums
<1>6. pkt[p].left \in Nat
  <2>1. p \in 1..n
    BY <1>3
  <2> QED BY <1>1, <2>1
<1>7. h[S \cup {p}] = pkt[p].left + h[S]
  <2>1. (S \cup {p}) \ {p} = S
    BY <1>3
  <2> QED BY <1>5, <2>1
<1>8. h[S] \in Nat
  BY <1>5
<1> QED BY <1>4, <1>6, <1>7, <1>8

LEMMA OneBytesLeft ==
  ASSUME pkt \in Seq(Packets), NEW p \in DOMAIN pkt
  PROVE  BytesLeft({p}) = pkt[p].left
<1>1. {} \in SUBSET DOMAIN pkt /\ p \in DOMAIN pkt \ {} /\ {} \cup {p} = {p}
  OBVIOUS
<1>2. pkt[p].left \in Nat /\ BytesLeft({} \cup {p}) = BytesLeft({}) + pkt[p].left
  BY <1>1, BytesLeftAdds
<1> QED BY <1>1, <1>2, NoBytesLeft

-----------------------------------------------------------------------------
(* The order in which the queues are asked                                 *)

\* A queued packet has bytes left.
LeftPositive == \A p \in DOMAIN pkt : pkt[p].fate = "queued" => pkt[p].left > 0

\* Queue q had nothing that fits the slot.
Passed(q) == \A p \in FirstEligible(q) : ~Fits(p, slot.bytes)

\* Queue q is asked before the queue of p.
AskedBefore(q, p) == pkt[p].queue # slot.queue /\ (q > pkt[p].queue \/ q = slot.queue)

Searching ==
  pc \in {"others", "send"} /\ slot.queue < MAX_QUEUES /\ ~config.strict /\ ~config.aggregate

\* While nothing is found the queues asked so far are passed, and what is found ends the search.
SearchOrder ==
  /\ hand # {} => total > 0 /\ \A q \in 0..4 : (\A p \in hand : AskedBefore(q, p)) => Passed(q)
  /\ hand = {} => /\ total = 0 /\ Passed(slot.queue)
                  /\ \A q \in index..4 : Passed(q)
                  /\ pc = "send" => index = 0

SearchInv ==
  /\ LeftPositive
  /\ pc \in {"idle", "own"} => hand = {}
  /\ pc = "own" => index = MAX_QUEUES
  /\ Searching => SearchOrder

LEMMA TakeKeepsLeft ==
  ASSUME pkt \in Seq(Packets), LeftPositive, NEW q, NEW bytes \in Nat, NEW d, NEW drop,
         NEW r \in DequeueResults(q, bytes, d, drop), pkt' = After(r, bytes)
  PROVE  LeftPositive'
<1> DEFINE B == BytesLeft(r.whole)
           A == After(r, bytes)
<1>1. /\ r.whole \cap r.part = {} /\ (r.whole \cup r.part) \cap r.dropped = {}
      /\ \A p \in r.part : bytes - B \in 1..(pkt[p].left - 1)
  BY ResultFacts
<1>2. \A p \in DOMAIN pkt : pkt[p] \in Packets
  OBVIOUS
<1>3. /\ DOMAIN A = DOMAIN pkt
      /\ \A p \in DOMAIN pkt :
           A[p] = CASE p \in r.whole   -> [pkt[p] EXCEPT !.fate = "hand", !.left = 0]
                    [] p \in r.part    -> [pkt[p] EXCEPT !.left = @ - (bytes - B)]
                    [] p \in r.dropped -> [pkt[p] EXCEPT !.fate = "toobig"]
                    [] OTHER           -> pkt[p]
  BY DEF After
<1>4. pkt' = A
  OBVIOUS
<1> HIDE DEF A, B
<1> SUFFICES ASSUME NEW p \in DOMAIN pkt, A[p].fate = "queued"
             PROVE  A[p].left > 0
  BY <1>3, <1>4 DEF LeftPositive
<1>5. CASE p \in r.whole
  <2>1. A[p] = [pkt[p] EXCEPT !.fate = "hand", !.left = 0]
    BY <1>1, <1>3, <1>5
  <2>2. A[p].fate = "hand"
    BY <1>2, <2>1 DEF Packets
  <2> QED BY <2>2
<1>6. CASE p \in r.part
  <2>1. A[p] = [pkt[p] EXCEPT !.left = @ - (bytes - B)]
    BY <1>1, <1>3, <1>6
  <2>2. bytes - B \in 1..(pkt[p].left - 1)
    BY <1>1, <1>6
  <2>3. pkt[p].left \in Nat
    BY <1>2 DEF Packets
  <2>4. A[p].left = pkt[p].left - (bytes - B)
    BY <1>2, <2>1 DEF Packets
  <2> QED BY <2>2, <2>3, <2>4
<1>7. CASE p \in r.dropped
  <2>1. A[p] = [pkt[p] EXCEPT !.fate = "toobig"]
    BY <1>1, <1>3, <1>7
  <2>2. A[p].fate = "toobig"
    BY <1>2, <2>1 DEF Packets
  <2> QED BY <2>2
<1>8. CASE p \notin r.whole \cup r.part \cup r.dropped
  <2>1. A[p] = pkt[p]
    BY <1>3, <1>8
  <2> QED BY <2>1 DEF LeftPositive
<1> QED BY <1>5, <1>6, <1>7, <1>8

\* The packets after a queue was asked.
LEMMA TakenFacts ==
  ASSUME pkt \in Seq(Packets), NEW q, NEW bytes \in Nat, NEW d, NEW drop,
         NEW r \in DequeueResults(q, bytes, d, drop), pkt' = After(r, bytes)
  PROVE  /\ DOMAIN pkt' = DOMAIN pkt
         /\ \A p \in DOMAIN pkt :
              /\ pkt'[p].queue = pkt[p].queue /\ pkt'[p].dest = pkt[p].dest
              /\ p \in r.whole => pkt'[p].fate = "hand"
              /\ p \in r.dropped => pkt'[p].fate = "toobig"
              /\ p \notin r.whole \cup r.part \cup r.dropped => pkt'[p] = pkt[p]
<1> DEFINE A == After(r, bytes)
<1>1. /\ A \in Seq(Packets) /\ DOMAIN A = DOMAIN pkt
      /\ \A p \in DOMAIN pkt :
           /\ A[p].queue = pkt[p].queue /\ A[p].dest = pkt[p].dest
           /\ p \in r.whole => A[p].fate = "hand"
           /\ p \in r.part => A[p].fate = "queued"
           /\ p \in r.dropped => A[p].fate = "toobig"
           /\ p \notin r.whole \cup r.part \cup r.dropped => A[p] = pkt[p]
  BY AfterFacts
<1>2. pkt' = A
  OBVIOUS
<1> HIDE DEF A
<1> QED BY <1>1, <1>2

\* One queue is asked, by a node that does not aggregate and has nothing yet.
LEMMA Asking ==
  ASSUME FlowInv, LeftPositive, ~config.aggregate, hand = {}, total = 0,
         NEW q, NEW drop, NEW bytes \in Nat, bytes = slot.bytes,
         TakeFrom(q, bytes, dst, drop), UNCHANGED <<config, slot, dst>>
  PROVE  /\ LeftPositive'
         /\ \A p \in hand' : pkt'[p].queue = q
         /\ hand' = {} => total' = 0 /\ Passed(q)'
         /\ hand' # {} => total' > 0
         /\ \A o : o # q /\ Passed(o) => Passed(o)'
<1> DEFINE E == Eligible(q, dst)
<1>1. pkt \in Seq(Packets) /\ bytes \in Nat /\ \A p \in DOMAIN pkt : p \in Nat /\ pkt[p].left \in Nat
  <2>1. pkt \in Seq(Packets) /\ bytes \in Nat
    BY DEF FlowInv, TypeOK, SlotKinds
  <2>2. \A p \in DOMAIN pkt : p \in Nat /\ pkt[p] \in Packets
    BY <2>1
  <2> QED BY <2>1, <2>2 DEF Packets
<1>2. PICK r \in DequeueResults(q, bytes, dst, drop) :
        /\ pkt' = After(r, bytes)
        /\ hand' = r.whole \cup r.part
        /\ total' = LengthOf(r, bytes)
  <2>1. PICK r \in DequeueResults(q, bytes, dst, drop) :
          /\ pkt' = After(r, bytes)
          /\ hand' = hand \cup r.whole \cup r.part
          /\ total' = total + LengthOf(r, bytes)
    BY DEF TakeFrom
  <2>2. LengthOf(r, bytes) \in 0..bytes
    BY <1>1, LengthBound
  <2> QED BY <1>1, <2>1, <2>2
<1>3. /\ r.whole \subseteq DOMAIN pkt /\ r.part \subseteq DOMAIN pkt /\ r.dropped \subseteq DOMAIN pkt
      /\ \A p \in r.whole \cup r.part \cup r.dropped : pkt[p].queue = q /\ pkt[p].fate = "queued"
      /\ BytesLeft(r.whole) \in 0..bytes
      /\ \A p \in r.part : bytes - BytesLeft(r.whole) \in 1..(pkt[p].left - 1)
  BY <1>1, ResultFacts
<1>4. /\ DOMAIN pkt' = DOMAIN pkt
      /\ \A p \in DOMAIN pkt :
           /\ pkt'[p].queue = pkt[p].queue /\ pkt'[p].dest = pkt[p].dest
           /\ p \in r.dropped => pkt'[p].fate = "toobig"
           /\ p \notin r.whole \cup r.part \cup r.dropped => pkt'[p] = pkt[p]
  <2>1. pkt \in Seq(Packets) /\ pkt' = After(r, bytes)
    BY <1>1, <1>2
  <2>2. /\ DOMAIN pkt' = DOMAIN pkt
        /\ \A p \in DOMAIN pkt :
             /\ pkt'[p].queue = pkt[p].queue /\ pkt'[p].dest = pkt[p].dest
             /\ p \in r.whole => pkt'[p].fate = "hand"
             /\ p \in r.dropped => pkt'[p].fate = "toobig"
             /\ p \notin r.whole \cup r.part \cup r.dropped => pkt'[p] = pkt[p]
    BY <2>1, TakenFacts
  <2> QED BY <2>2
<1>5. /\ r.whole \cup r.part = {} =>
           \/ r.dropped = E
           \/ \E p \in E \ r.dropped :
                (\A o \in E \ r.dropped : p <= o) /\ ~Fits(p, bytes - BytesLeft(r.whole))
      /\ \A p, o \in r.whole \cup r.part : p = o
  BY DEF DequeueResults
<1>6. LeftPositive'
  BY <1>1, <1>2, TakeKeepsLeft
<1>7. \A p \in hand' : pkt'[p].queue = q
  BY <1>2, <1>3, <1>4
<1>8. ASSUME hand' # {} PROVE total' > 0
  <2>1. CASE r.part # {}
    <3>1. total' = bytes /\ bytes > 0
      BY <1>1, <1>2, <1>3, <2>1 DEF LengthOf
    <3> QED BY <3>1
  <2>2. CASE r.part = {}
    <3>1. PICK p \in r.whole : TRUE
      BY <1>2, <1>8, <2>2
    <3>2. r.whole = {p}
      BY <1>5, <3>1
    <3>3. BytesLeft({p}) = pkt[p].left /\ pkt[p].left > 0
      BY <1>1, <1>3, <3>1, OneBytesLeft DEF LeftPositive
    <3>4. total' = BytesLeft({p})
      BY <1>2, <2>2, <3>2 DEF LengthOf
    <3> QED BY <3>3, <3>4
  <2> QED BY <2>1, <2>2
<1>9. ASSUME hand' = {} PROVE total' = 0 /\ Passed(q)'
  <2>1. r.whole = {} /\ r.part = {} /\ r.whole \cup r.part = {}
    BY <1>2, <1>9
  <2>2. BytesLeft(r.whole) = 0 /\ bytes - BytesLeft(r.whole) = bytes
    BY <1>1, <2>1, NoBytesLeft
  <2>3. total' = 0
    BY <1>2, <2>1, <2>2 DEF LengthOf
  <2>4. \A p : p \in Eligible(q, dst)' <=> p \in E \ r.dropped
    <3>1. \A p : p \in Eligible(q, dst)' <=>
            p \in DOMAIN pkt /\ pkt'[p].queue = q /\ pkt'[p].fate = "queued" /\ dst \in {0, pkt'[p].dest}
      BY <1>4 DEF Eligible, InQueue
    <3>2. \A p : p \in E <=>
            p \in DOMAIN pkt /\ pkt[p].queue = q /\ pkt[p].fate = "queued" /\ dst \in {0, pkt[p].dest}
      BY DEF Eligible, InQueue
    <3> HIDE DEF E
    <3> QED BY <1>4, <2>1, <3>1, <3>2
  <2>5. SUFFICES ASSUME NEW p \in FirstEligible(q)' PROVE ~Fits(p, slot.bytes)'
    BY <2>3 DEF Passed
  <2>6. p \in E \ r.dropped /\ \A o \in E \ r.dropped : p <= o
    BY <2>4 DEF FirstEligible
  <2>7. PICK f \in E \ r.dropped : (\A o \in E \ r.dropped : f <= o) /\ ~Fits(f, bytes)
    <3> HIDE DEF E
    <3> QED BY <1>5, <2>1, <2>2, <2>6
  <2>8. f \in DOMAIN pkt /\ p \in DOMAIN pkt
    BY <2>6 DEF Eligible, InQueue
  <2>9. f = p
    BY <1>1, <2>6, <2>7, <2>8
  <2>10. pkt'[p] = pkt[p]
    BY <1>4, <2>1, <2>6, <2>8
  <2> QED BY <2>7, <2>9, <2>10 DEF Fits
<1>10. ASSUME NEW o, o # q, Passed(o) PROVE Passed(o)'
  <2>1. \A p \in DOMAIN pkt : pkt[p].queue # q => pkt'[p] = pkt[p]
    BY <1>3, <1>4
  <2>2. \A p : p \in Eligible(o, dst)' <=> p \in Eligible(o, dst)
    <3>1. \A p : p \in Eligible(o, dst)' <=>
            p \in DOMAIN pkt /\ pkt'[p].queue = o /\ pkt'[p].fate = "queued" /\ dst \in {0, pkt'[p].dest}
      BY <1>4 DEF Eligible, InQueue
    <3>2. \A p : p \in Eligible(o, dst) <=>
            p \in DOMAIN pkt /\ pkt[p].queue = o /\ pkt[p].fate = "queued" /\ dst \in {0, pkt[p].dest}
      BY DEF Eligible, InQueue
    <3> QED BY <1>4, <1>10, <2>1, <3>1, <3>2
  <2>3. SUFFICES ASSUME NEW p \in FirstEligible(o)' PROVE ~Fits(p, slot.bytes)'
    BY DEF Passed
  <2>4. p \in FirstEligible(o)
    BY <2>2 DEF FirstEligible
  <2>5. p \in DOMAIN pkt /\ pkt[p].queue = o
    BY <2>4 DEF FirstEligible, Eligible, InQueue
  <2>6. pkt'[p] = pkt[p]
    BY <1>10, <2>1, <2>5
  <2> QED BY <1>10, <2>4, <2>6 DEF Passed, Fits
<1> QED BY <1>6, <1>7, <1>8, <1>9, <1>10

\* LeftPositive when packets keep what they were or are no longer queued.
LEMMA LeftKept ==
  ASSUME LeftPositive, DOMAIN pkt' = DOMAIN pkt,
         \A p \in DOMAIN pkt : pkt'[p] = pkt[p] \/ pkt'[p].fate # "queued"
  PROVE  LeftPositive'
BY DEF LeftPositive

LEMMA SearchInitially == Init => SearchInv
<1> SUFFICES ASSUME Init PROVE SearchInv
  OBVIOUS
<1>1. pc = "idle" /\ hand = {} /\ DOMAIN pkt = {}
  BY DEF Init
<1> QED BY <1>1 DEF SearchInv, LeftPositive, Searching

\* A packet arrives, whatever becomes of it.
LEMMA ArrivalSearch ==
  ASSUME FlowInv, SearchInv, NEW q \in 0..4, NEW d \in Destinations, NEW s \in Sizes, Idle,
         \/ pkt' = Append(pkt, Packet(q, d, s, "refused"))
         \/ pkt' \in Enqueued(q, d, s),
         UNCHANGED txVars
  PROVE  SearchInv'
<1>1. pkt \in Seq(Packets) /\ pc = "idle" /\ LeftPositive /\ s > 0 /\ hand = {}
  BY FlowAssumption DEF FlowInv, TypeOK, Idle, SearchInv
<1>2. pc' = "idle" /\ hand' = {}
  BY <1>1 DEF txVars
<1>3. CASE pkt' = Append(pkt, Packet(q, d, s, "refused"))
  <2> DEFINE new == Packet(q, d, s, "refused")
  <2>1. new.fate = "refused"
    BY NewPacket DEF Fates
  <2>2. pkt' = Append(pkt, new)
    BY <1>3
  <2> HIDE DEF new
  <2>3. \A p \in DOMAIN pkt' : (p \in DOMAIN pkt /\ pkt'[p] = pkt[p]) \/ pkt'[p].fate = "refused"
    BY <1>1, <2>1, <2>2
  <2>4. LeftPositive'
    BY <1>1, <2>3 DEF LeftPositive
  <2> QED BY <1>2, <2>4 DEF SearchInv, Searching
<1>4. CASE pkt' \in Enqueued(q, d, s)
  <2>1. PICK ps \in Enqueued(q, d, s) : ps = pkt'
    BY <1>4
  <2>2. \A p \in DOMAIN ps : \/ p \in DOMAIN pkt /\ ps[p] = pkt[p]
                             \/ ps[p].fate = "overflow"
                             \/ ps[p].left = s
    BY <1>1, <2>1, EnqueuedFacts
  <2>3. LeftPositive'
    BY <1>1, <2>1, <2>2 DEF LeftPositive
  <2> QED BY <1>2, <2>3 DEF SearchInv, Searching
<1> QED BY <1>3, <1>4

LEMMA SendSearch ==
  ASSUME FlowInv, SearchInv, NEW s \in Slots, SendDownstreamPacket(s)
  PROVE  SearchInv'
<1>1. /\ pkt' = pkt /\ hand' = {} /\ index' = MAX_QUEUES /\ slot' = s
      /\ pc' = IF s.queue < MAX_QUEUES THEN "own" ELSE "send"
  BY DEF SendDownstreamPacket
<1>2. LeftPositive'
  BY <1>1 DEF SearchInv, LeftPositive
<1>3. ~Searching'
  BY <1>1 DEF Searching
<1> QED BY <1>1, <1>2, <1>3 DEF SearchInv

\* A node that is strict or aggregates only has to keep what is left of its packets.
LEMMA TakeUnordered ==
  ASSUME FlowInv, SearchInv, NEW q, NEW bytes \in Nat, NEW drop,
         TakeFrom(q, bytes, dst, drop), pc' \in {"others", "send"},
         config.strict \/ config.aggregate, UNCHANGED config
  PROVE  SearchInv'
<1>1. pkt \in Seq(Packets) /\ LeftPositive
  BY DEF FlowInv, TypeOK, SearchInv
<1>2. PICK r \in DequeueResults(q, bytes, dst, drop) : pkt' = After(r, bytes)
  BY DEF TakeFrom
<1>3. LeftPositive'
  BY <1>1, <1>2, TakeKeepsLeft
<1> QED BY <1>3 DEF SearchInv, Searching

LEMMA OwnSearch ==
  ASSUME FlowInv, SearchInv, DequeueOwn
  PROVE  SearchInv'
<1>1. /\ pc = "own" /\ hand = {} /\ index = MAX_QUEUES /\ total = 0 /\ LeftPositive
      /\ slot.bytes \in Nat /\ slot.queue \in Nat
  BY DEF DequeueOwn, SearchInv, FlowInv, NothingYet, TypeOK, SlotKinds
<1>2. /\ TakeFrom(slot.queue, slot.bytes, dst, TRUE)
      /\ pc' = IF config.strict THEN "send" ELSE "others"
      /\ UNCHANGED <<config, slot, dst, index>>
  BY DEF DequeueOwn
<1>3. CASE config.strict \/ config.aggregate
  BY <1>1, <1>2, <1>3, TakeUnordered
<1>4. CASE ~config.strict /\ ~config.aggregate
  <2>0. PICK k, b : k = slot.queue /\ b = slot.bytes
    OBVIOUS
  <2>1. /\ LeftPositive'
        /\ \A p \in hand' : pkt'[p].queue = k
        /\ hand' = {} => total' = 0 /\ Passed(k)'
        /\ hand' # {} => total' > 0
    BY <1>1, <1>2, <1>4, <2>0, Asking
  <2>2. \A q \in index'..4 : FALSE
    BY <1>1, <1>2 DEF MAX_QUEUES
  <2>3. SearchOrder'
    <3>1. slot'.queue = k /\ pc' = "others"
      BY <1>2, <1>4, <2>0
    <3>2. ASSUME hand' # {}, NEW q \in 0..4 PROVE ~(\A p \in hand' : AskedBefore(q, p)')
      BY <2>1, <3>1, <3>2 DEF AskedBefore
    <3> QED BY <2>1, <2>2, <3>1, <3>2 DEF SearchOrder
  <2> QED BY <1>2, <1>4, <2>1, <2>3 DEF SearchInv
<1> QED BY <1>3, <1>4

LEMMA OtherSearch ==
  ASSUME FlowInv, SearchInv, DequeueOther
  PROVE  SearchInv'
<1>1. /\ pc = "others" /\ Looking /\ LeftPositive /\ index' = index - 1 /\ index \in 1..5
      /\ total \in Nat /\ slot.bytes \in Nat /\ slot.queue \in Nat /\ total <= slot.bytes
      /\ UNCHANGED <<config, pc, slot, dst>>
  BY DEF DequeueOther, Looking, SearchInv, FlowInv, TypeOK, WithinSlot, SlotKinds, MAX_QUEUES
<1>0. PICK q, k, b : q = index - 1 /\ k = slot.queue /\ b = slot.bytes
  OBVIOUS
<1>2. CASE q = k
  <2>1. UNCHANGED <<pkt, hand, total>>
    BY <1>0, <1>2 DEF DequeueOther
  <2>2. ASSUME Searching' PROVE SearchOrder'
    <3>1. SearchOrder
      BY <1>1, <2>2 DEF SearchInv, Searching
    <3>2. \A o : Passed(o)' <=> Passed(o)
      BY <1>1, <2>1 DEF Passed, FirstEligible, Eligible, InQueue, Fits
    <3>3. \A o, p : AskedBefore(o, p)' <=> AskedBefore(o, p)
      BY <1>1, <2>1 DEF AskedBefore
    <3>4. \A o \in index'..4 : o \in index..4 \/ o = slot.queue
      BY <1>0, <1>1, <1>2
    <3> QED BY <1>1, <2>1, <3>1, <3>2, <3>3, <3>4 DEF SearchOrder
  <2>3. LeftPositive'
    BY <1>1, <2>1 DEF LeftPositive
  <2> QED BY <1>1, <2>2, <2>3 DEF SearchInv
<1>3. CASE q # k
  <2>1. TakeFrom(q, Remaining, dst, DropFromOthers) /\ Remaining \in Nat
    BY <1>0, <1>1, <1>3 DEF DequeueOther, DestinationOfOthers, Remaining
  <2>2. CASE config.strict \/ config.aggregate
    BY <1>1, <2>1, <2>2, TakeUnordered
  <2>3. CASE ~config.strict /\ ~config.aggregate
    <3>1. total = 0 /\ Remaining = b
      BY <1>0, <1>1, <2>3 DEF Looking, Remaining
    <3>2. CASE ~Searching'
      <4>1. PICK r \in DequeueResults(q, Remaining, dst, DropFromOthers) :
              pkt' = After(r, Remaining)
        BY <2>1 DEF TakeFrom
      <4>2. pkt \in Seq(Packets)
        BY DEF FlowInv, TypeOK
      <4>3. LeftPositive'
        BY <1>1, <2>1, <4>1, <4>2, TakeKeepsLeft
      <4> QED BY <1>1, <3>2, <4>3 DEF SearchInv
    <3>3. CASE Searching'
      <4>1. SearchOrder
        BY <1>1, <3>3 DEF SearchInv, Searching
      <4>2. hand = {} /\ Passed(k) /\ \A o \in index..4 : Passed(o)
        BY <1>0, <3>1, <4>1 DEF SearchOrder
      <4>3. /\ LeftPositive'
            /\ \A p \in hand' : pkt'[p].queue = q
            /\ hand' = {} => total' = 0 /\ Passed(q)'
            /\ hand' # {} => total' > 0
            /\ \A o : o # q /\ Passed(o) => Passed(o)'
        <5>1. TakeFrom(q, b, dst, DropFromOthers) /\ b \in Nat /\ b = slot.bytes
          BY <1>0, <2>1, <3>1
        <5> QED BY <1>1, <2>3, <3>1, <4>2, <5>1, Asking
      <4>4. Passed(k)' /\ \A o \in index..4 : Passed(o)'
        BY <1>0, <1>1, <1>3, <4>2, <4>3
      <4>5. SearchOrder'
        <5>1. slot'.queue = k /\ pc' = "others"
          BY <1>0, <1>1
        <5>2. ASSUME hand' # {}, NEW o \in 0..4, \A p \in hand' : AskedBefore(o, p)'
              PROVE  Passed(o)'
          <6>1. PICK p \in hand' : pkt'[p].queue = q
            BY <4>3, <5>2
          <6>2. o > q \/ o = k
            BY <5>1, <5>2, <6>1 DEF AskedBefore
          <6>3. o \in index..4 \/ o = k
            BY <1>0, <1>1, <6>2
          <6> QED BY <4>4, <6>3
        <5>3. \A o \in index'..4 : o \in index..4 \/ o = q
          BY <1>0, <1>1
        <5> QED BY <4>3, <4>4, <5>1, <5>2, <5>3 DEF SearchOrder
      <4> QED BY <1>1, <4>3, <4>5 DEF SearchInv
    <3> QED BY <3>2, <3>3
  <2> QED BY <2>2, <2>3
<1> QED BY <1>2, <1>3

LEMMA EndSearch ==
  ASSUME FlowInv, SearchInv, EndDequeue
  PROVE  SearchInv'
<1>1. /\ pc = "others" /\ pc' = "send" /\ ~Looking
      /\ UNCHANGED <<config, pkt, slot, dst, index, hand, total>>
  BY DEF EndDequeue
<1>2. slot.bytes \in Nat /\ config.threshold \in Nat /\ index \in Nat
  <2>1. config \in ConfigKinds
    BY FlowAssumption DEF FlowInv, TypeOK
  <2>2. config.threshold \in Nat
    BY <2>1 DEF ConfigKinds
  <2>3. slot.bytes \in Nat /\ index \in Nat
    BY DEF FlowInv, TypeOK, SlotKinds, MAX_QUEUES
  <2> QED BY <2>2, <2>3
<1>3. AggregationThreshold >= 0
  <2>1. slot.bytes * config.threshold \in Nat
    BY <1>2
  <2> QED BY <2>1 DEF AggregationThreshold
<1>4. total = 0 => index = 0
  BY <1>1, <1>2, <1>3 DEF Looking
<1>5. ASSUME Searching' PROVE SearchOrder'
  <2>1. SearchOrder
    BY <1>1, <1>5 DEF SearchInv, Searching
  <2>2. \A o : Passed(o)' <=> Passed(o)
    BY <1>1 DEF Passed, FirstEligible, Eligible, InQueue, Fits
  <2>3. \A o, p : AskedBefore(o, p)' <=> AskedBefore(o, p)
    BY <1>1 DEF AskedBefore
  <2> QED BY <1>1, <1>4, <2>1, <2>2, <2>3 DEF SearchOrder
<1>6. LeftPositive'
  BY <1>1 DEF SearchInv, LeftPositive
<1> QED BY <1>1, <1>5, <1>6 DEF SearchInv

LEMMA TransmitSearch ==
  ASSUME FlowInv, SearchInv, Transmit
  PROVE  SearchInv'
<1>1. pc' = "idle" /\ hand' = {} /\ \E fate \in {"sent", "discarded"} : pkt' = Settled(fate)
  BY DEF Transmit
<1>2. PICK fate \in {"sent", "discarded"} : pkt' = Settled(fate)
  BY <1>1
<1>3. /\ DOMAIN pkt' = DOMAIN pkt
      /\ \A p \in DOMAIN pkt :
           pkt'[p] = IF p \in Completed THEN [pkt[p] EXCEPT !.fate = fate] ELSE pkt[p]
  BY <1>2 DEF Settled
<1>4. \A p \in DOMAIN pkt : pkt[p] \in Packets
  BY DEF FlowInv, TypeOK
<1>5. \A p \in DOMAIN pkt : pkt'[p] = pkt[p] \/ pkt'[p].fate # "queued"
  <2> TAKE p \in DOMAIN pkt
  <2>1. CASE p \in Completed
    <3>1. pkt'[p] = [pkt[p] EXCEPT !.fate = fate]
      BY <1>3, <2>1
    <3>2. pkt'[p].fate = fate
      BY <1>4, <3>1 DEF Packets
    <3> QED BY <3>2
  <2>2. CASE p \notin Completed
    BY <1>3, <2>2
  <2> QED BY <2>1, <2>2
<1>6. LeftPositive'
  BY <1>3, <1>5, LeftKept DEF SearchInv
<1> QED BY <1>1, <1>6 DEF SearchInv, Searching

LEMMA SearchStep == FlowInv /\ SearchInv /\ [Next]_vars => SearchInv'
<1> SUFFICES ASSUME FlowInv, SearchInv, [Next]_vars PROVE SearchInv'
  OBVIOUS
<1>1. ASSUME NEW q \in Classes, NEW d \in Destinations, NEW s \in Sizes,
             RefusePacket(q, d, s) \/ ProcessDownstreamPacket(q, d, s)
      PROVE  SearchInv'
  <2>1. q \in 0..4
    BY FlowAssumption DEF UserQueues
  <2> QED BY <1>1, <2>1, ArrivalSearch DEF RefusePacket, ProcessDownstreamPacket
<1>2. ASSUME NEW d \in Destinations, NEW s \in Sizes, ProcessSchedulerPacket(d, s)
      PROVE  SearchInv'
  <2>1. ControlQueue \in 0..4
    BY DEF ControlQueue
  <2> QED BY <1>2, <2>1, ArrivalSearch DEF ProcessSchedulerPacket
<1>3. ASSUME NEW s \in Slots, SendDownstreamPacket(s) PROVE SearchInv'
  BY <1>3, SendSearch
<1>4. CASE UNCHANGED vars
  BY <1>4 DEF vars, SearchInv, LeftPositive, Searching, SearchOrder, Passed, FirstEligible,
              Eligible, InQueue, Fits, AskedBefore
<1> QED BY <1>1, <1>2, <1>3, <1>4, OwnSearch, OtherSearch, EndSearch, TransmitSearch DEF Next

-----------------------------------------------------------------------------
(* How full the slot becomes                                               *)

\* Nothing of queue q fits what the slot has left.
Spent(q) == \A p \in FirstEligible(q) : ~Fits(p, Remaining)

Filling ==
  pc \in {"others", "send"} /\ slot.queue < MAX_QUEUES /\ ~config.strict /\ config.aggregate

\* A node that aggregates has taken all it can of the queues asked so far.
FillOrder ==
  /\ Spent(slot.queue) /\ \A q \in index..4 : Spent(q)
  /\ pc = "send" => index = 0 \/ total > AggregationThreshold

FillInv == Filling => FillOrder

\* What does not fit does not fit into less.
LEMMA LessFitsLess ==
  ASSUME NEW p, pkt[p].left \in Nat, NEW b \in Int, NEW c \in Int, c <= b, ~Fits(p, b)
  PROVE  ~Fits(p, c)
BY DEF Fits

\* A queue gives an aggregating node all that fits, and the others keep what they have.
LEMMA AskingToFill ==
  ASSUME FlowInv, LeftPositive, config.aggregate,
         NEW q, NEW drop, NEW bytes \in Nat, bytes = Remaining,
         TakeFrom(q, bytes, dst, drop), UNCHANGED <<config, slot, dst>>
  PROVE  Spent(q)' /\ \A o : o # q /\ Spent(o) => Spent(o)'
<1> DEFINE E == Eligible(q, dst)
<1>1. /\ pkt \in Seq(Packets) /\ slot.bytes \in Nat /\ total \in Nat
      /\ \A p \in DOMAIN pkt : p \in Nat /\ pkt[p].left \in Nat
  <2>1. pkt \in Seq(Packets) /\ slot.bytes \in Nat /\ total \in Nat
    BY DEF FlowInv, TypeOK, SlotKinds
  <2>2. \A p \in DOMAIN pkt : p \in Nat /\ pkt[p] \in Packets
    BY <2>1
  <2> QED BY <2>1, <2>2 DEF Packets
<1>2. PICK r \in DequeueResults(q, bytes, dst, drop) :
        /\ pkt' = After(r, bytes)
        /\ total' = total + LengthOf(r, bytes)
  BY DEF TakeFrom
<1>3. LengthOf(r, bytes) \in 0..bytes
  BY LengthBound
<1>4. /\ Remaining' = bytes - LengthOf(r, bytes)
      /\ Remaining' \in Nat /\ Remaining' <= bytes
  <2> DEFINE length == LengthOf(r, bytes)
  <2>1. bytes = slot.bytes - total /\ Remaining' = slot.bytes - (total + length)
    BY <1>2 DEF Remaining
  <2>2. length \in 0..bytes
    BY <1>3
  <2> HIDE DEF length
  <2>3. slot.bytes - (total + length) = bytes - length
    BY <1>1, <2>1, <2>2
  <2> QED BY <2>1, <2>2, <2>3 DEF length
<1>5. /\ r.whole \subseteq DOMAIN pkt /\ r.part \subseteq DOMAIN pkt /\ r.dropped \subseteq DOMAIN pkt
      /\ \A p \in r.whole \cup r.part \cup r.dropped : pkt[p].queue = q /\ pkt[p].fate = "queued"
      /\ BytesLeft(r.whole) \in 0..bytes
  BY ResultFacts
<1>6. /\ DOMAIN pkt' = DOMAIN pkt
      /\ \A p \in DOMAIN pkt :
           /\ pkt'[p].queue = pkt[p].queue /\ pkt'[p].dest = pkt[p].dest
           /\ p \in r.whole => pkt'[p].fate = "hand"
           /\ p \in r.dropped => pkt'[p].fate = "toobig"
           /\ p \notin r.whole \cup r.part \cup r.dropped => pkt'[p] = pkt[p]
  <2>1. pkt \in Seq(Packets) /\ pkt' = After(r, bytes)
    BY <1>1, <1>2
  <2> QED BY <2>1, TakenFacts
<1>7. Spent(q)'
  <2>1. CASE r.part # {}
    <3>1. Remaining' = 0
      BY <1>4, <2>1 DEF LengthOf
    <3>2. LeftPositive'
      BY <1>1, <1>2, TakeKeepsLeft
    <3>3. SUFFICES ASSUME NEW p \in FirstEligible(q)' PROVE ~Fits(p, Remaining)'
      BY DEF Spent
    <3>4. p \in DOMAIN pkt' /\ pkt'[p].fate = "queued"
      BY DEF FirstEligible, Eligible, InQueue
    <3>5. pkt'[p].left > 0
      BY <3>2, <3>4 DEF LeftPositive
    <3>6. pkt'[p].left \in Nat
      <4>1. After(r, bytes) \in Seq(Packets)
        BY <1>1, AfterFacts
      <4>2. pkt' \in Seq(Packets)
        BY <1>2, <4>1
      <4>3. pkt'[p] \in Packets
        BY <3>4, <4>2
      <4> QED BY <4>3 DEF Packets
    <3> QED BY <3>1, <3>5, <3>6 DEF Fits
  <2>2. CASE r.part = {}
    <3> DEFINE met == r.whole \cup r.dropped
               rest == bytes - BytesLeft(r.whole)
    <3>1. \/ met = E
          \/ \E p \in E \ met : (\A o \in E \ met : p <= o) /\ ~Fits(p, rest)
      <4>1. r.whole \cup r.part = r.whole /\ ~ (r.part # {}) /\ config.aggregate
        BY <2>2
      <4> QED BY <4>1 DEF DequeueResults
    <3>2. Remaining' = rest
      BY <1>4, <2>2 DEF LengthOf
    <3>3. \A p : p \in Eligible(q, dst)' <=> p \in E \ met
      <4>1. \A p : p \in Eligible(q, dst)' <=>
              p \in DOMAIN pkt /\ pkt'[p].queue = q /\ pkt'[p].fate = "queued" /\ dst \in {0, pkt'[p].dest}
        BY <1>6 DEF Eligible, InQueue
      <4>2. \A p : p \in E <=>
              p \in DOMAIN pkt /\ pkt[p].queue = q /\ pkt[p].fate = "queued" /\ dst \in {0, pkt[p].dest}
        BY DEF Eligible, InQueue
      <4> HIDE DEF E
      <4> QED BY <1>6, <2>2, <4>1, <4>2
    <3>4. SUFFICES ASSUME NEW p \in FirstEligible(q)' PROVE ~Fits(p, Remaining)'
      BY DEF Spent
    <3> HIDE DEF met, E, rest
    <3>5. p \in E \ met /\ \A o \in E \ met : p <= o
      BY <3>3 DEF FirstEligible
    <3>6. PICK f \in E \ met : (\A o \in E \ met : f <= o) /\ ~Fits(f, rest)
      BY <3>1, <3>5
    <3>7. E \subseteq DOMAIN pkt
      BY DEF E, Eligible, InQueue
    <3>8. f = p
      BY <1>1, <3>5, <3>6, <3>7
    <3>9. pkt'[p] = pkt[p]
      BY <1>6, <2>2, <3>5, <3>7 DEF met
    <3> QED BY <3>2, <3>6, <3>8, <3>9 DEF Fits
  <2> QED BY <2>1, <2>2
<1>8. ASSUME NEW o, o # q, Spent(o) PROVE Spent(o)'
  <2>1. \A p \in DOMAIN pkt : pkt[p].queue # q => pkt'[p] = pkt[p]
    BY <1>5, <1>6
  <2>2. \A p : p \in Eligible(o, dst)' <=> p \in Eligible(o, dst)
    <3>1. \A p : p \in Eligible(o, dst)' <=>
            p \in DOMAIN pkt /\ pkt'[p].queue = o /\ pkt'[p].fate = "queued" /\ dst \in {0, pkt'[p].dest}
      BY <1>6 DEF Eligible, InQueue
    <3>2. \A p : p \in Eligible(o, dst) <=>
            p \in DOMAIN pkt /\ pkt[p].queue = o /\ pkt[p].fate = "queued" /\ dst \in {0, pkt[p].dest}
      BY DEF Eligible, InQueue
    <3> QED BY <1>6, <1>8, <2>1, <3>1, <3>2
  <2>3. SUFFICES ASSUME NEW p \in FirstEligible(o)' PROVE ~Fits(p, Remaining)'
    BY DEF Spent
  <2>4. p \in FirstEligible(o)
    BY <2>2 DEF FirstEligible
  <2>5. p \in DOMAIN pkt /\ pkt[p].queue = o
    BY <2>4 DEF FirstEligible, Eligible, InQueue
  <2>6. pkt'[p] = pkt[p] /\ pkt[p].left \in Nat
    BY <1>1, <1>8, <2>1, <2>5
  <2>7. ~Fits(p, bytes)
    BY <1>8, <2>4 DEF Spent
  <2>8. PICK c : c = Remaining'
    OBVIOUS
  <2>9. ~Fits(p, c)
    BY <1>4, <2>6, <2>7, <2>8, LessFitsLess
  <2> QED BY <2>6, <2>8, <2>9 DEF Fits
<1> QED BY <1>7, <1>8

LEMMA OwnFill ==
  ASSUME FlowInv, SearchInv, DequeueOwn
  PROVE  FillInv'
<1> SUFFICES ASSUME Filling' PROVE FillOrder'
  BY DEF FillInv
<1>1. /\ total = 0 /\ index = MAX_QUEUES /\ LeftPositive /\ slot.bytes \in Nat
  BY DEF DequeueOwn, SearchInv, FlowInv, NothingYet, TypeOK, SlotKinds
<1>2. /\ TakeFrom(slot.queue, slot.bytes, dst, TRUE)
      /\ pc' = IF config.strict THEN "send" ELSE "others"
      /\ UNCHANGED <<config, slot, dst, index>>
  BY DEF DequeueOwn
<1>3. ~config.strict /\ config.aggregate /\ pc' = "others"
  BY <1>2 DEF Filling
<1>4. PICK k, b : k = slot.queue /\ b = slot.bytes
  OBVIOUS
<1>5. b \in Nat /\ b = Remaining
  BY <1>1, <1>4 DEF Remaining
<1>6. Spent(k)'
  BY <1>1, <1>2, <1>3, <1>4, <1>5, AskingToFill
<1>7. \A q \in index'..4 : FALSE
  BY <1>1, <1>2 DEF MAX_QUEUES
<1>8. slot'.queue = k
  BY <1>2, <1>4
<1> QED BY <1>3, <1>6, <1>7, <1>8 DEF FillOrder

LEMMA OtherFill ==
  ASSUME FlowInv, SearchInv, FillInv, DequeueOther
  PROVE  FillInv'
<1> SUFFICES ASSUME Filling' PROVE FillOrder'
  BY DEF FillInv
<1>1. /\ pc = "others" /\ LeftPositive /\ index' = index - 1 /\ index \in 1..5
      /\ total \in Nat /\ slot.bytes \in Nat /\ total <= slot.bytes
      /\ UNCHANGED <<config, pc, slot, dst>>
  BY DEF DequeueOther, Looking, SearchInv, FlowInv, TypeOK, WithinSlot, SlotKinds, MAX_QUEUES
<1>2. PICK q, k, b : q = index - 1 /\ k = slot.queue /\ b = Remaining
  OBVIOUS
<1>3. config.aggregate /\ FillOrder
  BY <1>1 DEF FillInv, Filling
<1>4. Spent(k) /\ \A o \in index..4 : Spent(o)
  BY <1>2, <1>3 DEF FillOrder
<1>5. (\A o \in index'..4 : o \in index..4 \/ o = q) /\ slot'.queue = k /\ pc' # "send"
  BY <1>1, <1>2
<1>6. CASE q = k
  <2>1. UNCHANGED <<pkt, hand, total>>
    BY <1>2, <1>6 DEF DequeueOther
  <2>2. \A o : Spent(o)' <=> Spent(o)
    BY <1>1, <2>1 DEF Spent, FirstEligible, Eligible, InQueue, Fits, Remaining
  <2> QED BY <1>4, <1>5, <1>6, <2>2 DEF FillOrder
<1>7. CASE q # k
  <2>1. TakeFrom(q, b, dst, DropFromOthers) /\ b \in Nat
    BY <1>1, <1>2, <1>7 DEF DequeueOther, DestinationOfOthers, Remaining
  <2>2. Spent(q)' /\ \A o : o # q /\ Spent(o) => Spent(o)'
    BY <1>1, <1>2, <1>3, <2>1, AskingToFill
  <2>3. Spent(k)' /\ \A o \in index'..4 : Spent(o)'
    BY <1>4, <1>5, <1>7, <2>2
  <2> QED BY <1>5, <2>3 DEF FillOrder
<1> QED BY <1>6, <1>7

LEMMA EndFill ==
  ASSUME FlowInv, FillInv, EndDequeue
  PROVE  FillInv'
<1> SUFFICES ASSUME Filling' PROVE FillOrder'
  BY DEF FillInv
<1>1. /\ pc = "others" /\ pc' = "send" /\ ~Looking
      /\ UNCHANGED <<config, pkt, slot, dst, index, total>>
  BY DEF EndDequeue
<1>2. config.aggregate /\ FillOrder
  BY <1>1 DEF FillInv, Filling
<1>3. \A o : Spent(o)' <=> Spent(o)
  BY <1>1 DEF Spent, FirstEligible, Eligible, InQueue, Fits, Remaining
<1>4. slot.bytes \in Nat /\ config.threshold \in Nat /\ index \in Nat /\ total \in Nat
  <2>1. config \in ConfigKinds
    BY FlowAssumption DEF FlowInv, TypeOK
  <2>2. config.threshold \in Nat
    BY <2>1 DEF ConfigKinds
  <2>3. slot.bytes \in Nat /\ index \in Nat /\ total \in Nat
    BY DEF FlowInv, TypeOK, SlotKinds, MAX_QUEUES
  <2> QED BY <2>2, <2>3
<1>5. AggregationThreshold \in Nat /\ AggregationThreshold' = AggregationThreshold
  <2>1. slot.bytes * config.threshold \in Nat
    BY <1>4
  <2> QED BY <1>1, <2>1 DEF AggregationThreshold
<1>6. index = 0 \/ total > AggregationThreshold
  <2>1. ~ (total <= AggregationThreshold) \/ ~ (index > 0)
    BY <1>1, <1>2 DEF Looking
  <2> QED BY <1>4, <1>5, <2>1
<1> QED BY <1>1, <1>2, <1>3, <1>5, <1>6 DEF FillOrder

LEMMA FillStep == FlowInv /\ SearchInv /\ FillInv /\ [Next]_vars => FillInv'
<1> SUFFICES ASSUME FlowInv, SearchInv, FillInv, [Next]_vars PROVE FillInv'
  OBVIOUS
<1>1. CASE pc' \in {"idle", "own"}
  BY <1>1 DEF FillInv, Filling
<1>2. ASSUME NEW q \in Classes, NEW d \in Destinations, NEW s \in Sizes,
             RefusePacket(q, d, s) \/ ProcessDownstreamPacket(q, d, s)
      PROVE  FillInv'
  BY <1>1, <1>2 DEF RefusePacket, ProcessDownstreamPacket, Idle, txVars
<1>3. ASSUME NEW d \in Destinations, NEW s \in Sizes, ProcessSchedulerPacket(d, s)
      PROVE  FillInv'
  BY <1>1, <1>3 DEF ProcessSchedulerPacket, Idle, txVars
<1>4. ASSUME NEW s \in Slots, SendDownstreamPacket(s) PROVE FillInv'
  <2>1. slot' = s /\ pc' = IF s.queue < MAX_QUEUES THEN "own" ELSE "send"
    BY <1>4 DEF SendDownstreamPacket
  <2> QED BY <2>1 DEF FillInv, Filling
<1>5. CASE Transmit
  BY <1>1, <1>5 DEF Transmit
<1>6. CASE UNCHANGED vars
  BY <1>6 DEF vars, FillInv, Filling, FillOrder, Spent, FirstEligible, Eligible, InQueue, Fits,
              Remaining, AggregationThreshold
<1> QED BY <1>2, <1>3, <1>4, <1>5, <1>6, OwnFill, OtherFill, EndFill DEF Next

\* Unless it is strict, a node passes over a queue only if what comes first in it does not
\* fit the slot, or, if it aggregates, what the slot has left (basicqueuemanagerHB.cc:306).
THEOREM HighestFirst == Spec => []HighestPriorityFirst
<1>1. FlowInv /\ SearchInv /\ FillInv => HighestPriorityFirst
  <2> SUFFICES ASSUME FlowInv, SearchInv, FillInv,
                      pc = "send", slot.queue < MAX_QUEUES, ~config.strict, NEW q \in 0..4
               PROVE  /\ ~config.aggregate /\ (\A p \in hand : AskedBefore(q, p)) => Passed(q)
                      /\ config.aggregate /\ total <= AggregationThreshold => Spent(q)
    BY DEF HighestPriorityFirst, AskedBefore, Passed, Spent
  <2>1. ASSUME ~config.aggregate, \A p \in hand : AskedBefore(q, p) PROVE Passed(q)
    <3>1. SearchOrder
      BY <2>1 DEF SearchInv, Searching
    <3>2. CASE hand = {}
      BY <3>1, <3>2 DEF SearchOrder
    <3>3. CASE hand # {}
      BY <2>1, <3>1, <3>3 DEF SearchOrder
    <3> QED BY <3>2, <3>3
  <2>2. ASSUME config.aggregate, total <= AggregationThreshold PROVE Spent(q)
    <3>1. FillOrder
      BY <2>2 DEF FillInv, Filling
    <3>2. total \in Nat /\ slot.bytes \in Nat /\ config.threshold \in Nat
      <4>1. config \in ConfigKinds
        BY FlowAssumption DEF FlowInv, TypeOK
      <4>2. config.threshold \in Nat
        BY <4>1 DEF ConfigKinds
      <4>3. total \in Nat /\ slot.bytes \in Nat
        BY DEF FlowInv, TypeOK, SlotKinds
      <4> QED BY <4>2, <4>3
    <3>3. AggregationThreshold \in Nat
      <4>1. slot.bytes * config.threshold \in Nat
        BY <3>2
      <4> QED BY <4>1 DEF AggregationThreshold
    <3>4. index = 0
      BY <2>2, <3>1, <3>2, <3>3 DEF FillOrder
    <3> QED BY <3>1, <3>4 DEF FillOrder
  <2> QED BY <2>1, <2>2
<1>2. Init => FillInv
  BY DEF Init, FillInv, Filling
<1> QED BY <1>1, <1>2, SearchInitially, SearchStep, FillStep, FlowInvariance, PTL DEF Spec

-----------------------------------------------------------------------------
(* The queue can always answer                                             *)

\* Up to place k of the packets, a queue may take those in W and drop those in D.
Passable(q, bytes, d, drop, k, W, D) ==
  /\ W \subseteq Eligible(q, d) /\ D \subseteq Eligible(q, d) /\ W \cap D = {}
  /\ \A o \in Eligible(q, d) : o <= k <=> o \in W \cup D
  /\ \A p \in D : TooBig(p, bytes, drop)
  /\ BytesLeft(W) <= bytes
  /\ ~config.aggregate => \A p, o \in W : p = o

LEMMA EligibleQueued ==
  ASSUME NEW q, NEW d
  PROVE  Eligible(q, d) \subseteq DOMAIN pkt
BY DEF Eligible, InQueue

\* It goes on to the next place, unless the packet there ends the search.
LEMMA PassOne ==
  ASSUME pkt \in Seq(Packets), NEW q, NEW bytes \in Nat, NEW d, NEW drop,
         NEW k \in 0..(Len(pkt) - 1), NEW W, NEW D, Passable(q, bytes, d, drop, k, W, D)
  PROVE  \/ \E V, C \in SUBSET DOMAIN pkt : Passable(q, bytes, d, drop, k + 1, V, C)
         \/ /\ k + 1 \in Eligible(q, d) /\ ~TooBig(k + 1, bytes, drop)
            /\ \/ ~config.aggregate /\ W # {}
               \/ pkt[k + 1].left > bytes - BytesLeft(W)
<1> DEFINE E == Eligible(q, d)
           p == k + 1
<1>1. /\ W \subseteq E /\ D \subseteq E /\ W \cap D = {}
      /\ \A o \in E : o <= k <=> o \in W \cup D
      /\ \A o \in D : TooBig(o, bytes, drop)
      /\ BytesLeft(W) <= bytes
      /\ ~config.aggregate => \A o, u \in W : o = u
  BY DEF Passable
<1>2. E \subseteq DOMAIN pkt /\ E \subseteq 1..Len(pkt) /\ p \in DOMAIN pkt
  BY EligibleQueued
<1> HIDE DEF E
<1>3. \A o \in E : o <= p <=> o <= k \/ o = p
  BY <1>2
<1>4. p \notin W /\ p \notin D
  BY <1>1, <1>2
<1>0. SUFFICES ASSUME ~ (/\ p \in E /\ ~TooBig(p, bytes, drop)
                         /\ \/ ~config.aggregate /\ W # {}
                            \/ pkt[p].left > bytes - BytesLeft(W))
               PROVE  \E V, C \in SUBSET DOMAIN pkt : Passable(q, bytes, d, drop, k + 1, V, C)
  BY DEF E
<1>5. CASE p \notin E
  <2>1. \A o \in E : o <= p <=> o \in W \cup D
    BY <1>1, <1>3, <1>5
  <2>2. Passable(q, bytes, d, drop, p, W, D)
    BY <1>1, <2>1 DEF Passable, E
  <2>3. W \in SUBSET DOMAIN pkt /\ D \in SUBSET DOMAIN pkt
    BY <1>1, <1>2
  <2> QED BY <2>2, <2>3
<1>6. CASE p \in E /\ TooBig(p, bytes, drop)
  <2> DEFINE C == D \cup {p}
  <2>1. C \subseteq E /\ W \cap C = {} /\ \A o \in C : TooBig(o, bytes, drop)
    BY <1>1, <1>4, <1>6
  <2>2. \A o \in E : o <= p <=> o \in W \cup C
    BY <1>1, <1>3
  <2> HIDE DEF C
  <2>3. Passable(q, bytes, d, drop, p, W, C)
    BY <1>1, <2>1, <2>2 DEF Passable, E
  <2>4. W \in SUBSET DOMAIN pkt /\ C \in SUBSET DOMAIN pkt
    BY <1>1, <1>2, <2>1
  <2> QED BY <2>3, <2>4
<1>7. CASE /\ p \in E /\ (config.aggregate \/ W = {})
           /\ ~ (pkt[p].left > bytes - BytesLeft(W))
  <2> DEFINE V == W \cup {p}
  <2>1. V \subseteq E /\ V \cap D = {} /\ (~config.aggregate => \A o, u \in V : o = u)
    BY <1>1, <1>4, <1>7
  <2>2. \A o \in E : o <= p <=> o \in V \cup D
    BY <1>1, <1>3
  <2>3. /\ BytesLeft(W) \in Nat /\ pkt[p].left \in Nat
        /\ BytesLeft(V) = BytesLeft(W) + pkt[p].left
    <3>1. W \in SUBSET DOMAIN pkt /\ p \in DOMAIN pkt \ W
      BY <1>1, <1>2, <1>4
    <3> HIDE DEF p
    <3> QED BY <3>1, BytesLeftAdds
  <2> HIDE DEF V
  <2>4. BytesLeft(V) <= bytes
    BY <1>7, <2>3
  <2>5. Passable(q, bytes, d, drop, p, V, D)
    BY <1>1, <2>1, <2>2, <2>4 DEF Passable, E
  <2>6. V \in SUBSET DOMAIN pkt /\ D \in SUBSET DOMAIN pkt
    BY <1>1, <1>2, <2>1
  <2> QED BY <2>5, <2>6
<1> QED BY <1>0, <1>5, <1>6, <1>7

\* Whatever is queued, configured and asked for, there is an answer as the contract wants it:
\* what a queue gives that takes and drops packets in their order, as far as it comes.
LEMMA QueueAnswers ==
  ASSUME pkt \in Seq(Packets), NEW q, NEW bytes \in Nat, NEW d, NEW drop
  PROVE  DequeueResults(q, bytes, d, drop) # {}
<1> DEFINE n == Len(pkt)
           E == Eligible(q, d)
           Comes(k) == \E W, D \in SUBSET DOMAIN pkt : Passable(q, bytes, d, drop, k, W, D)
           T == {j \in 0..n : Comes(n - j)}
<1>1. n \in Nat /\ DOMAIN pkt = 1..n /\ E \subseteq 1..n
  BY EligibleQueued
<1>2. Comes(0)
  <2>1. BytesLeft({}) <= bytes
    BY NoBytesLeft
  <2>2. Passable(q, bytes, d, drop, 0, {}, {})
    BY <1>1, <2>1 DEF Passable
  <2> QED BY <2>2
<1>3. PICK j \in T : \A i \in T : j <= i
  <2>1. n \in T
    <3>1. n - n = 0
      BY <1>1
    <3> HIDE DEF Comes, n
    <3> QED BY <1>1, <1>2, <3>1
  <2>2. T \in SUBSET Nat
    BY <1>1
  <2> HIDE DEF T
  <2> QED BY <2>1, <2>2, LeastNumber
<1> DEFINE k == n - j
<1>4. j \in 0..n /\ k \in 0..n /\ Comes(k)
  <2> HIDE DEF Comes, n
  <2> QED BY <1>1, <1>3
<1>5. k < n => ~Comes(k + 1)
  <2> SUFFICES ASSUME k < n, Comes(k + 1) PROVE FALSE
    OBVIOUS
  <2>1. j - 1 \in 0..n /\ n - (j - 1) = k + 1
    <3> HIDE DEF n, Comes, T
    <3> QED BY <1>1, <1>4
  <2>2. j - 1 \in T
    <3> HIDE DEF n, k, Comes
    <3> QED BY <2>1
  <2>3. j <= j - 1
    <3> HIDE DEF T
    <3> QED BY <1>3, <2>2
  <2> HIDE DEF T, n, Comes
  <2> QED BY <1>1, <1>4, <2>3
<1>6. PICK W, D \in SUBSET DOMAIN pkt : Passable(q, bytes, d, drop, k, W, D)
  BY <1>4
<1>7. /\ W \subseteq E /\ D \subseteq E /\ W \cap D = {}
      /\ \A o \in E : o <= k <=> o \in W \cup D
      /\ \A o \in D : TooBig(o, bytes, drop)
      /\ BytesLeft(W) <= bytes
      /\ ~config.aggregate => \A o, u \in W : o = u
  BY <1>6 DEF Passable
<1>8. BytesLeft(W) \in 0..bytes
  <2>2. BytesLeft(W) \in Nat
    <3>1. pkt \in Seq(Packets) /\ W \in SUBSET DOMAIN pkt
      BY <1>6
    <3> QED BY <3>1, BytesLeftNat
  <2> QED BY <1>7, <2>2
<1>15. \A o \in E : pkt[o].left \in Nat
  <2>1. \A o \in 1..n : pkt[o] \in Packets
    OBVIOUS
  <2> HIDE DEF E, n
  <2> QED BY <1>1, <2>1 DEF Packets
<1> HIDE DEF E, n, k, Comes, T
<1> DEFINE rest == bytes - BytesLeft(W)
           p == k + 1
<1>9. ASSUME k < n
      PROVE  /\ p \in E /\ ~TooBig(p, bytes, drop)
             /\ \/ ~config.aggregate /\ W # {}
                \/ pkt[p].left > rest
  <2>1. k \in 0..(Len(pkt) - 1)
    BY <1>1, <1>4, <1>9 DEF n
  <2>2. \/ Comes(k + 1)
        \/ /\ k + 1 \in Eligible(q, d) /\ ~TooBig(k + 1, bytes, drop)
           /\ \/ ~config.aggregate /\ W # {}
              \/ pkt[k + 1].left > bytes - BytesLeft(W)
    BY <1>6, <2>1, PassOne DEF Comes
  <2> QED BY <1>5, <1>9, <2>2 DEF E
<1>10. \A o \in W \cup D : o <= k /\ \A u \in E : u < o => u \in W \cup D
  <2>1. \A o \in W \cup D : o \in E /\ o <= k /\ o \in Int
    BY <1>1, <1>7
  <2>2. \A u \in E : u \in Int
    BY <1>1
  <2>3. \A o \in W \cup D : \A u \in E : u < o => u <= k
    BY <1>4, <2>1, <2>2
  <2> QED BY <1>7, <2>1, <2>3
\* It gives the packets it comes past, and stops there,
<1>11. ASSUME \/ ~config.aggregate /\ W # {}
              \/ W \cup D = E
              \/ \E o \in E \ (W \cup D) : /\ \A u \in E \ (W \cup D) : o <= u
                                           /\ ~Fits(o, rest)
                                           /\ ~TooBig(o, bytes, drop)
       PROVE  DequeueResults(q, bytes, d, drop) # {}
  <2> DEFINE r == [whole |-> W, part |-> {}, dropped |-> D]
  <2>1. r \in [whole : SUBSET E, part : SUBSET E, dropped : SUBSET E]
    BY <1>7
  <2>2. r.whole = W /\ r.part = {} /\ r.dropped = D /\ W \cup {} = W
    OBVIOUS
  <2> HIDE DEF r
  <2>3. r \in DequeueResults(q, bytes, d, drop)
    BY <1>7, <1>8, <1>10, <1>11, <2>1, <2>2 DEF DequeueResults, E
  <2> QED BY <2>3
\* or fills the rest of the bytes with a fragment of the next.
<1>12. ASSUME k < n, W = {} \/ config.aggregate, config.fragment, rest > 0
       PROVE  DequeueResults(q, bytes, d, drop) # {}
  <2> DEFINE r == [whole |-> W, part |-> {p}, dropped |-> D]
  <2>1. p \in E /\ ~TooBig(p, bytes, drop) /\ pkt[p].left > rest
    BY <1>9, <1>12
  <2>2. r \in [whole : SUBSET E, part : SUBSET E, dropped : SUBSET E]
    BY <1>7, <2>1
  <2>3. r.whole = W /\ r.part = {p} /\ r.dropped = D
    OBVIOUS
  <2>4. pkt[p].left \in Nat /\ rest \in Nat /\ p \in Nat
    BY <1>15, <1>1, <1>4, <1>8, <2>1
  <2>5. rest \in 1..(pkt[p].left - 1)
    <3> HIDE DEF rest, p
    <3> QED BY <1>12, <2>1, <2>4
  <2>6. p \notin W \cup D
    BY <1>4, <1>10
  <2>7. \A o \in (W \cup {p}) \cup D : o <= p /\ \A u \in E : u < o => u \in (W \cup {p}) \cup D
    <3>1. \A u \in E : u < p => u <= k
      BY <1>1, <1>4
    <3>2. \A o \in W \cup D : o <= p
      BY <1>1, <1>4, <1>7, <1>10
    <3> QED BY <1>7, <1>10, <2>4, <3>1, <3>2
  <2>8. ~config.aggregate => \A o, u \in W \cup {p} : o = u
    BY <1>12
  <2> HIDE DEF r, p
  <2>9. r \in DequeueResults(q, bytes, d, drop)
    BY <1>7, <1>8, <1>12, <2>2, <2>3, <2>5, <2>6, <2>7, <2>8 DEF DequeueResults, E
  <2> QED BY <2>9
<1>13. CASE k = n
  <2>1. \A o \in E : o \in W \cup D
    <3>1. \A o \in E : o <= k
      BY <1>1, <1>13
    <3> QED BY <1>7, <3>1
  <2>2. W \cup D \subseteq E
    BY <1>7
  <2>3. W \cup D = E
    BY <2>1, <2>2
  <2> QED BY <1>11, <2>3
<1>14. CASE k < n
  <2>1. CASE ~config.aggregate /\ W # {}
    BY <1>11, <2>1
  <2>2. CASE (W = {} \/ config.aggregate) /\ config.fragment /\ rest > 0
    BY <1>12, <1>14, <2>2
  <2>3. CASE (W = {} \/ config.aggregate) /\ ~ (config.fragment /\ rest > 0)
    <3>1. p \in E /\ ~TooBig(p, bytes, drop) /\ pkt[p].left > rest
      BY <1>9, <1>14, <2>3
    <3>2. p \notin W \cup D /\ \A u \in E \ (W \cup D) : p <= u
      BY <1>1, <1>4, <1>7, <1>10
    <3>3. rest \in Int /\ pkt[p].left \in Nat
      BY <1>15, <1>8, <3>1
    <3>4. ~Fits(p, rest)
      <4> HIDE DEF p, rest
      <4> QED BY <2>3, <3>1, <3>3 DEF Fits
    <3> HIDE DEF p, rest
    <3> QED BY <1>11, <3>1, <3>2, <3>4
  <2> HIDE DEF rest
  <2> QED BY <2>1, <2>2, <2>3
<1> QED BY <1>1, <1>4, <1>13, <1>14

\* The queues and the flow control can answer whatever they are asked.
ContractsMet ==
  /\ pc = "own" => DequeueResults(slot.queue, slot.bytes, dst, TRUE) # {}
  /\ pc = "others" /\ Looking =>
       DequeueResults(index - 1, Remaining, DestinationOfOthers, DropFromOthers) # {}
  /\ pc = "send" => TokensAdded(tokens, CompletedPackets) # {}
  /\ \A q \in 0..4, d \in Destinations, s \in Sizes : Enqueued(q, d, s) # {}

\* No handler waits for a queue that cannot answer: what is said of all answers is never
\* said of none (basicqueuemanagerHB.cc:306, queueHB.h).
THEOREM QueuesAnswer == Spec => []ContractsMet
<1>1. FlowInv => ContractsMet
  <2> SUFFICES ASSUME FlowInv PROVE ContractsMet
    OBVIOUS
  <2>1. pkt \in Seq(Packets) /\ slot.bytes \in Nat /\ Remaining \in Nat
    <3>1. slot.bytes \in Nat /\ total \in Nat /\ total <= slot.bytes
      BY DEF FlowInv, TypeOK, SlotKinds, WithinSlot
    <3>2. Remaining \in Nat
      BY <3>1 DEF Remaining
    <3> QED BY <3>1, <3>2 DEF FlowInv, TypeOK
  <2>2. /\ DequeueResults(slot.queue, slot.bytes, dst, TRUE) # {}
        /\ DequeueResults(index - 1, Remaining, DestinationOfOthers, DropFromOthers) # {}
    BY <2>1, QueueAnswers
  <2>3. TokensAdded(tokens, CompletedPackets) # {}
    BY DEF TokensAdded
  <2>4. ASSUME NEW q \in 0..4, NEW d \in Destinations, NEW s \in Sizes
        PROVE  Enqueued(q, d, s) # {}
    <3> DEFINE ps == Append(pkt, Packet(q, d, s, "queued"))
               n == Len(pkt) + 1
    <3>1. n \in DOMAIN ps /\ ps[n] = Packet(q, d, s, "queued")
      BY <2>1
    <3>2. n \in InQueue(ps, q)
      <4> HIDE DEF ps, n
      <4> QED BY <3>1 DEF InQueue, Packet
    <3>3. Enqueued(q, d, s) =
            IF Overflows(q) THEN {[ps EXCEPT ![p].fate = "overflow"] : p \in InQueue(ps, q)}
            ELSE {ps}
      BY DEF Enqueued
    <3> HIDE DEF ps, n
    <3> QED BY <3>2, <3>3
  <2> QED BY <2>2, <2>3, <2>4 DEF ContractsMet
<1> QED BY <1>1, FlowInvariance, PTL
=============================================================================
