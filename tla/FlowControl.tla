---------------------------- MODULE FlowControl ----------------------------
(***************************************************************************)
(* From the upper layer to the air: flow-control tokens, the five packet   *)
(* queues of BasicQueueManagerHB, and what a transmit slot takes of them.  *)
(*                                                                         *)
(* All handlers run on the MAC's thread, one at a time; pc divides the     *)
(* transmission where the queue manager turns to another queue.  The queue *)
(* itself is not in the repository: DequeueResults is its contract.        *)
(***************************************************************************)
EXTENDS Integers, Sequences, FiniteSets, FiniteSetsExt

CONSTANTS
  Nodes,        \* the NEMs packets are for
  Sizes,        \* packet sizes, in bytes
  Classes,      \* the service classes packets are mapped to by priority
  Slots,        \* transmit slots: service class, bytes, and scheduled destination
  Configs,      \* the configurations a node may run with
  MaxTokens,    \* flowcontroltokens
  QueueDepth,   \* queue.depth
  MaxPackets    \* bound: packets a behaviour may have

MAX_QUEUES == 5

ControlQueue == 4

UserQueues == 0..3

Broadcast == 65535

Destinations == Nodes \cup {Broadcast}

SlotKinds == [queue : Nat, bytes : Nat, dest : Nat]

ConfigKinds == [flow : BOOLEAN, fragment : BOOLEAN, aggregate : BOOLEAN,
                strict : BOOLEAN, threshold : 0..100]

ASSUME FlowAssumption ==
  /\ Nodes \subseteq 1..(Broadcast - 1)
  /\ Sizes \subseteq Nat \ {0}
  /\ Classes \subseteq UserQueues
  /\ Slots \subseteq SlotKinds
  /\ Configs \subseteq ConfigKinds
  /\ MaxTokens \in Nat /\ QueueDepth \in Nat /\ MaxPackets \in Nat

VARIABLES
  config,       \* the parameters, set before start
  tokens,       \* FlowControlManager: tokens available
  pkt,          \* every packet in order of arrival, and what became of it
  pc,           \* where the handler stands
  slot,         \* pendingTxSlotInfo_
  dst,          \* getDstByMaxWeight()'s answer
  index,        \* dequeue's i
  hand,         \* packets with a component in hand
  total         \* totalLength

vars == <<config, tokens, pkt, pc, slot, dst, index, hand, total>>

txVars == <<pc, slot, dst, index, hand, total>>

\* "hand": the last component is dequeued; "discarded": with a transmission too long.
Fates == {"refused", "overflow", "queued", "hand", "sent", "toobig", "discarded"}

Packets == [queue : 0..4, dest : Destinations, size : Nat, left : Nat, fate : Fates]

Packet(q, d, s, f) == [queue |-> q, dest |-> d, size |-> s, left |-> s, fate |-> f]

InQueue(ps, q) == {p \in DOMAIN ps : ps[p].queue = q /\ ps[p].fate = "queued"}

NoSlot == [queue |-> 0, bytes |-> 0, dest |-> 0]

Init ==
  /\ config \in Configs
  /\ tokens = MaxTokens
  /\ pkt = <<>>
  /\ pc = "idle"
  /\ slot = NoSlot
  /\ dst = 0
  /\ index = 0
  /\ hand = {}
  /\ total = 0

-----------------------------------------------------------------------------
(* FlowControlManager and Queue.  External.                                *)

\* addToken(n) fails above the total; what it then does with the n is not known here.
TokensAdded(t, n) == IF t + n <= MaxTokens THEN {t + n} ELSE {t, MaxTokens}

\* Queue::enqueue gives a full queue's victim back, which may be the new packet.
Overflows(q) == Cardinality(InQueue(pkt, q)) >= QueueDepth

Enqueued(q, d, s) ==
  LET ps == Append(pkt, Packet(q, d, s, "queued")) IN
  IF Overflows(q) THEN {[ps EXCEPT ![p].fate = "overflow"] : p \in InQueue(ps, q)}
  ELSE {ps}

\* By destination, or in the order of arrival if there is none.
Eligible(q, d) == {p \in InQueue(pkt, q) : d \in {0, pkt[p].dest}}

BytesLeft(ps) == MapThenSumSet(LAMBDA p : pkt[p].left, ps)

Fits(p, bytes) == pkt[p].left <= bytes \/ (config.fragment /\ bytes > 0)

TooBig(p, bytes, drop) == drop /\ ~config.fragment /\ pkt[p].left > bytes

\* Queue::dequeue(bytes, d, drop) takes packets in their order as long as they fit,
\* one if it does not aggregate; the last may be cut to fill the rest of the bytes.
\* Packets that are in the way and too big are dropped if that is asked for.
DequeueResults(q, bytes, d, drop) ==
  LET E == Eligible(q, d) IN
  {r \in [whole : SUBSET E, part : SUBSET E, dropped : SUBSET E] :
     LET taken == r.whole \cup r.part
         met   == taken \cup r.dropped
         rest  == bytes - BytesLeft(r.whole)
         full  == r.part # {} \/ (~config.aggregate /\ taken # {})
     IN
     /\ r.whole \cap r.part = {} /\ taken \cap r.dropped = {}
     /\ \A p \in met : \A o \in E : o < p => o \in met
     /\ BytesLeft(r.whole) \in 0..bytes
     /\ ~config.aggregate => \A p, o \in taken : p = o
     /\ \A p \in r.part :
          /\ config.fragment
          /\ rest \in 1..(pkt[p].left - 1)
          /\ \A o \in met : o <= p
     /\ \A p \in r.dropped : TooBig(p, bytes, drop)
     /\ \/ full
        \/ met = E
        \/ \E p \in E \ met : /\ \A o \in E \ met : p <= o
                              /\ ~Fits(p, rest)
                              /\ ~TooBig(p, bytes, drop)}

LengthOf(r, bytes) == IF r.part # {} THEN bytes ELSE BytesLeft(r.whole)

After(r, bytes) ==
  [p \in DOMAIN pkt |->
     CASE p \in r.whole   -> [pkt[p] EXCEPT !.fate = "hand", !.left = 0]
       [] p \in r.part    -> [pkt[p] EXCEPT !.left = @ - (bytes - BytesLeft(r.whole))]
       [] p \in r.dropped -> [pkt[p] EXCEPT !.fate = "toobig"]
       [] OTHER           -> pkt[p]]

-----------------------------------------------------------------------------
(* processDownstreamPacket, processSchedulerPacket                         *)

Idle == pc = "idle" /\ Len(pkt) < MaxPackets

\* Mutant: the result of removeToken is not looked at.
TokenNotChecked == TRUE

TokenAvailable == tokens > 0

RefusePacket(q, d, s) ==
  /\ Idle
  /\ config.flow /\ ~TokenAvailable
  /\ pkt' = Append(pkt, Packet(q, d, s, "refused"))
  /\ UNCHANGED <<config, tokens, txVars>>

TokensAfterEnqueue(q) == IF Overflows(q) THEN TokensAdded(tokens - 1, 1) ELSE {tokens - 1}

ProcessDownstreamPacket(q, d, s) ==
  /\ Idle
  /\ config.flow => TokenAvailable
  /\ pkt' \in Enqueued(q, d, s)
  /\ tokens' \in IF config.flow THEN TokensAfterEnqueue(q) ELSE {tokens}
  /\ UNCHANGED <<config, txVars>>

\* A scheduler's own packets take no token.
ProcessSchedulerPacket(d, s) ==
  /\ Idle
  /\ pkt' \in Enqueued(ControlQueue, d, s)
  /\ UNCHANGED <<config, tokens, txVars>>

-----------------------------------------------------------------------------
(* sendDownstreamPacket                                                    *)

Queue0Broadcasts == {p \in InQueue(pkt, 0) : pkt[p].dest = Broadcast}

\* Nodes the queue has an entry for: one whose packets are all gone may still have one.
Queue0Destinations ==
  {d \in Nodes : \E p \in DOMAIN pkt :
     pkt[p].queue = 0 /\ pkt[p].dest = d /\ pkt[p].fate # "refused"}

\* What HeavyBall's ChoiceAsPromised promises of the greatest weight; 0 if no pathloss is
\* known or no weight is positive.
MaxWeightChoices ==
  IF Cardinality(Queue0Broadcasts) > 2 THEN {Broadcast}
  ELSE {0} \cup Queue0Destinations

SendDownstreamPacket(s) ==
  /\ pc = "idle"
  /\ slot' = s
  /\ dst' \in MaxWeightChoices
  /\ pc' = IF s.queue < MAX_QUEUES THEN "own" ELSE "send"
  /\ index' = MAX_QUEUES
  /\ hand' = {}
  /\ total' = 0
  /\ UNCHANGED <<config, tokens, pkt>>

TakeFrom(q, bytes, d, drop) ==
  \E r \in DequeueResults(q, bytes, d, drop) :
    /\ pkt' = After(r, bytes)
    /\ hand' = hand \cup r.whole \cup r.part
    /\ total' = total + LengthOf(r, bytes)

DequeueOwn ==
  /\ pc = "own"
  /\ TakeFrom(slot.queue, slot.bytes, dst, TRUE)
  /\ pc' = IF config.strict THEN "send" ELSE "others"
  /\ UNCHANGED <<config, tokens, slot, dst, index>>

AggregationThreshold == (slot.bytes * config.threshold) \div 100

\* Mutant: the last queue is passed over.
LoopBeforeLast ==
  (total = 0 \/ config.aggregate) /\ total <= AggregationThreshold /\ index > 1

Looking ==
  /\ total = 0 \/ config.aggregate
  /\ total <= AggregationThreshold
  /\ index > 0

\* Mutant: each queue is asked for the whole slot.
AskForWholeSlot == slot.bytes

Remaining == slot.bytes - total

\* Mutant: the other queues drop what is too big as well.
DropEverywhere == TRUE

DropFromOthers == FALSE

\* Mutant: the other queues give packets for anyone.
AnyDestination == 0

DestinationOfOthers == dst

DequeueOther ==
  /\ pc = "others"
  /\ Looking
  /\ IF index - 1 # slot.queue
     THEN TakeFrom(index - 1, Remaining, DestinationOfOthers, DropFromOthers)
     ELSE UNCHANGED <<pkt, hand, total>>
  /\ index' = index - 1
  /\ UNCHANGED <<config, tokens, pc, slot, dst>>

EndDequeue ==
  /\ pc = "others"
  /\ ~Looking
  /\ pc' = "send"
  /\ UNCHANGED <<config, tokens, pkt, slot, dst, index, hand, total>>

\* The packets of which no fragment remains.
Completed == {p \in hand : pkt[p].fate = "hand"}

\* Mutant: a token for every component, whether or not fragments remain.
CompletedPerComponent == Cardinality(hand)

CompletedPackets == Cardinality(Completed)

\* The NEM address of the frame: that of its components if they have one.
FrameDestination ==
  IF \E d \in Destinations : \A p \in hand : pkt[p].dest = d
  THEN CHOOSE d \in Destinations : \A p \in hand : pkt[p].dest = d
  ELSE Broadcast

\* A transmission longer than the slot is discarded; no token is added for it.
Settled(fate) ==
  [p \in DOMAIN pkt |-> IF p \in Completed THEN [pkt[p] EXCEPT !.fate = fate] ELSE pkt[p]]

Transmit ==
  /\ pc = "send"
  /\ IF total <= slot.bytes
     THEN /\ pkt' = Settled("sent")
          /\ tokens' \in IF config.flow /\ Completed # {}
                         THEN TokensAdded(tokens, CompletedPackets) ELSE {tokens}
     ELSE /\ pkt' = Settled("discarded")
          /\ UNCHANGED tokens
  /\ pc' = "idle"
  /\ slot' = NoSlot
  /\ dst' = 0
  /\ index' = 0
  /\ hand' = {}
  /\ total' = 0
  /\ UNCHANGED config

-----------------------------------------------------------------------------
Next ==
  \/ \E q \in Classes, d \in Destinations, s \in Sizes :
       \/ RefusePacket(q, d, s)
       \/ ProcessDownstreamPacket(q, d, s)
  \/ \E d \in Destinations, s \in Sizes : ProcessSchedulerPacket(d, s)
  \/ \E s \in Slots : SendDownstreamPacket(s)
  \/ DequeueOwn
  \/ DequeueOther
  \/ EndDequeue
  \/ Transmit

Spec == Init /\ [][Next]_vars

-----------------------------------------------------------------------------
(* Properties                                                              *)

TypeOK ==
  /\ config \in Configs
  /\ tokens \in 0..MaxTokens
  /\ pkt \in Seq(Packets)
  /\ pc \in {"idle", "own", "others", "send"}
  /\ slot \in SlotKinds
  /\ dst \in {0} \cup Destinations
  /\ index \in 0..MAX_QUEUES
  /\ hand \subseteq DOMAIN pkt
  /\ total \in Nat

\* The packets a token was taken for and not given back.
Holding ==
  {p \in DOMAIN pkt : pkt[p].queue \in UserQueues /\ pkt[p].fate \in {"queued", "hand", "toobig"}}

\* Each token is available, or held by a packet that is queued, cut in fragments, in
\* hand, or that was dropped as too big, as long as no scheduler's packet was sent: one
\* token a packet over overflow, aggregation and fragments (basemodelimplHB.cc:872, :1150).
TokensAccounted ==
  (config.flow /\ \A p \in DOMAIN pkt : pkt[p].fate = "sent" => pkt[p].queue \in UserQueues)
    => tokens + Cardinality(Holding) = MaxTokens

\* What has been dequeued never exceeds the slot, queue after queue: the unsigned
\* requestedBytes - totalLength does not wrap and sendDownstreamPacket never discards
\* (basicqueuemanagerHB.cc:329, basemodelimplHB.cc:1203).
WithinSlot ==
  /\ total <= slot.bytes
  /\ \A p \in DOMAIN pkt : pkt[p].fate # "discarded"

\* The first packet of queue q that could go to the chosen destination.
FirstEligible(q) == {p \in Eligible(q, dst) : \A o \in Eligible(q, dst) : p <= o}

\* Unless dequeuing is strict, no queue with something that fits is passed over: without
\* aggregation one that gave nothing while a lower one did, or while the slot stayed empty,
\* had nothing that fits, the slot's own queue first and the others by priority, control
\* included; with it, up to the threshold, none has anything that still fits the rest
\* (basicqueuemanagerHB.cc:320).
HighestPriorityFirst ==
  (pc = "send" /\ slot.queue < MAX_QUEUES /\ ~config.strict) =>
    \A q \in 0..4 :
      /\ ~config.aggregate /\ (\A p \in hand : pkt[p].queue # slot.queue /\
                                               (q > pkt[p].queue \/ q = slot.queue)) =>
           \A p \in FirstEligible(q) : ~Fits(p, slot.bytes)
      /\ config.aggregate /\ total <= AggregationThreshold =>
           \A p \in FirstEligible(q) : ~Fits(p, Remaining)

\* When the weights have chosen a destination the frame is addressed to it and every
\* component is for it, from whatever queue it was aggregated (basemodelimplHB.cc:1094).
AddressedAsChosen ==
  (pc = "send" /\ hand # {} /\ dst # 0) =>
    FrameDestination = dst /\ \A p \in hand : pkt[p].dest = dst

\* A packet is dropped as too big only in a slot of its own service class, and only
\* without fragmentation, as queue.fragmentationenable says (basicqueuemanagerHB.cc:61).
DropsOfOwnClass ==
  \A p \in DOMAIN pkt :
    (pkt[p].fate = "queued" /\ pkt'[p].fate = "toobig") =>
      pkt[p].queue = slot.queue /\ ~config.fragment /\ pkt[p].left > slot.bytes

TooBigInOwnClass == [][DropsOfOwnClass]_vars

\* A drop replaces its token: what is not available is held by packets still on their
\* way ("drop, replace token", basemodelimplHB.cc:906).
DropsReplaceTokens ==
  config.flow =>
    tokens + Cardinality({p \in DOMAIN pkt : pkt[p].fate \in {"queued", "hand"}}) >= MaxTokens

\* Only traffic for a slot's destination is sent in it (PythonFile/HBtdmaschedule.xsd:209).
SlotDestinationKept ==
  (pc = "send" /\ slot.dest # 0) => \A p \in hand : pkt[p].dest = slot.dest
=============================================================================
