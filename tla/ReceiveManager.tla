--------------------------- MODULE ReceiveManager ---------------------------
(***************************************************************************)
(* ReceiveManager: keeps the one packet a node is receiving until its slot *)
(* is over, then judges it and hands its components up, joining fragments  *)
(* to the packets they were cut from.                                      *)
(*                                                                         *)
(* All of it runs on the MAC thread, from two sides: enqueue(), called for *)
(* an arriving packet, and process(), called by a timer at the end of the  *)
(* slot or by enqueue() itself when that timer is late.  "pc" divides      *)
(* process() into steps, one per component; nothing else happens between   *)
(* them.  Time is counted in slots.  A component is named by its sender    *)
(* and its place among all that node sends.                                *)
(*                                                                         *)
(* "received", "delivered", "reported", "ignored", "dropped" and "bytes"   *)
(* are history: no action reads them.                                      *)
(***************************************************************************)
EXTENDS Integers, Sequences, FiniteSets

CONSTANTS
  Sources,          \* the other nodes
  Stream,           \* the components each sends, in order
  CheckThreshold,   \* fragmentCheckThreshold_, in slots
  TimeoutThreshold, \* fragmentTimeoutThreshold_, in slots
  FirstSlot,        \* bound: the first slot of the instance's time
  MaxSlot,          \* bound: the last, in which no packet arrives any more
  MaxAggregate,     \* bound: components in a packet
  MaxLost,          \* bound: components lost between two packets of a source
  MaxChanges,       \* bound: changes of the slots' numbering or of the promiscuous mode
  Renumbered        \* what a schedule with another slot duration adds to the slot indexes

\* Fragments carry the sequence number of the packet they are cut from.  "packet" is
\* which packet that is, and "mine" whether it is for this node or for all: the sender's
\* numbering may start again, so that one sequence number stands for two packets.
Components == [packet : Nat, seq : Nat, index : Nat, offset : Nat,
               more : BOOLEAN, fragment : BOOLEAN, mine : BOOLEAN]

ASSUME SourcesAssumption == IsFiniteSet(Sources)

ASSUME StreamAssumption == Stream \in [Sources -> Seq(Components)]

\* How a sender cuts a packet: no two fragments of it have the same index, or begin at
\* the same offset, and the one that no more follow has the greatest index.
ASSUME FragmentsAssumption ==
  \A s \in Sources : \A i \in DOMAIN Stream[s], j \in DOMAIN Stream[s] :
    i # j /\ Stream[s][i].packet = Stream[s][j].packet =>
      /\ Stream[s][i].index # Stream[s][j].index
      /\ Stream[s][i].offset # Stream[s][j].offset
      /\ ~Stream[s][i].more => Stream[s][j].index < Stream[s][i].index

ASSUME TimeAssumption ==
  /\ CheckThreshold \in Nat /\ TimeoutThreshold \in Nat
  /\ FirstSlot \in Nat /\ MaxSlot \in Nat /\ Renumbered \in Nat
  /\ MaxAggregate \in Nat /\ MaxLost \in Nat /\ MaxChanges \in Nat
  /\ CheckThreshold <= FirstSlot
  /\ 0 < FirstSlot /\ FirstSlot <= MaxSlot /\ MaxSlot < Renumbered

VARIABLES
  \* the environment
  clock,            \* the slot of Clock::now(), as first numbered
  base,             \* what the schedule in force adds to slot indexes: 0 or Renumbered
  sent,             \* how much of its stream each source had sent by its last packet
  lastSent,         \* the slot of the last packet that arrived from each
  changes,          \* the changes there were of "base" and "promiscuous"
  timers,           \* armed timers: the index bound into process(), and the slot they are due
  promiscuous,      \* bPromiscuousMode_
  \* ReceiveManager
  pending,          \* u64PendingAbsoluteSlotIndex_
  held,             \* the components of pendingInfo_'s message; <<>> once it is judged
  store,            \* fragmentStore_
  lastCheck,        \* lastFragmentCheckTime_
  \* the handler in progress
  pc,               \* "idle", "parts", "check" or "store"
  work,             \* the components process() has not come to yet
  incoming,         \* the message enqueue() has still to keep
  \* history
  received,         \* every component handed to enqueue()
  delivered,        \* the sets of components sent up as one packet
  reported,         \* the components given a drop status
  ignored,          \* the fragments not kept, being thought repeated
  dropped,          \* the components dropped with their message, without a status
  bytes             \* the bytes of all drop statuses, one for each component's data

envVars == <<clock, base, sent, lastSent, changes>>
rxVars == <<pending, held, store, lastCheck>>
runVars == <<pc, work, incoming>>
historyVars == <<received, delivered, reported, ignored, dropped, bytes>>
vars == <<envVars, timers, promiscuous, rxVars, runVars, historyVars>>

Ids == UNION {{s} \X DOMAIN Stream[s] : s \in Sources}

Comp(c) == Stream[c[1]][c[2]]

Parts(message) == {message[i] : i \in DOMAIN message}

\* Fragments of one source, priority and fragment sequence are assembled together.
Key(c) == <<c[1], Comp(c).seq>>

SlotIndex(slot) == base + slot

Init ==
  /\ clock = FirstSlot /\ base \in {0, Renumbered} /\ changes = 0
  /\ sent = [s \in Sources |-> 0] /\ lastSent = [s \in Sources |-> 0]
  /\ timers = {} /\ promiscuous = FALSE
  /\ pending = 0 /\ held = <<>> /\ store = <<>> /\ lastCheck = 0
  /\ pc = "idle" /\ work = <<>> /\ incoming = <<>>
  /\ received = {} /\ delivered = {} /\ reported = {} /\ ignored = {} /\ dropped = {}
  /\ bytes = 0

-----------------------------------------------------------------------------
(* process()                                                               *)

\* Mutant: the index is compared as if process() were called in the slot itself.
EndsSlot(slot, index) == slot = index

\* process() is called with the index after that of the slot that has ended.
EndsPending(slot, index) == slot + 1 = index

Report(components) ==
  /\ reported' = reported \cup components
  /\ bytes' = bytes + Cardinality(components)

\* Where process() returns to: enqueue(), or the queue of the MAC thread.
Return(message) == IF message = <<>> THEN "idle" ELSE "store"

\* The pending packet cannot be received: no spectrum window, or the draw against its
\* probability of reception fails.  Returns at once.
FailReception ==
  /\ pending' = 0 /\ held' = <<>>
  /\ Report(Parts(held))
  /\ pc' = Return(incoming')
  /\ UNCHANGED <<work, dropped>>

PassReception ==
  /\ pending' = 0 /\ held' = <<>>
  /\ work' = held
  /\ pc' = IF held = <<>> THEN "check" ELSE "parts"
  /\ UNCHANGED <<reported, bytes, dropped>>

NothingToJudge ==
  /\ pc' = "check"
  /\ UNCHANGED <<pending, held, work, reported, bytes, dropped>>

Process(index) ==
  /\ IF EndsPending(pending, index)
     THEN FailReception \/ PassReception
     ELSE NothingToJudge
  /\ UNCHANGED <<store, lastCheck, delivered, ignored>>

\* The timer service calls due timers in their order.
ProcessCallback(t) ==
  /\ pc = "idle"
  /\ t.due <= clock /\ \A u \in timers : t.due <= u.due
  /\ timers' = timers \ {t}
  /\ incoming' = <<>>
  /\ Process(t.index)
  /\ UNCHANGED <<envVars, promiscuous, received>>

-----------------------------------------------------------------------------
(* process(): one component of a received message.                         *)

\* What the handling of each component has in common.
Handle ==
  /\ pc = "parts"
  /\ work' = Tail(work)
  /\ pc' = IF Tail(work) = <<>> THEN "check" ELSE "parts"
  /\ UNCHANGED <<envVars, timers, promiscuous, pending, held, lastCheck, incoming,
                 received, dropped>>

ForUs(c) == promiscuous \/ Comp(c).mine

Assembled(c) == Key(c) \in DOMAIN store

\* Mutant: assemblies stay when they are done with.
EraseNothing(keys) == UNCHANGED store

Erase(keys) == store' = [k \in DOMAIN store \ keys |-> store[k]]

Put(k, assembly) ==
  store' = [j \in DOMAIN store \cup {k} |-> IF j = k THEN assembly ELSE store[j]]

NotForUs(c) ==
  /\ Handle
  /\ ~ForUs(c)
  /\ Report({c})
  /\ UNCHANGED <<store, delivered, ignored>>

DeliverWhole(c) ==
  /\ Handle
  /\ ForUs(c) /\ ~Comp(c).fragment
  /\ delivered' = delivered \cup {{c}}
  /\ UNCHANGED <<store, reported, bytes, ignored>>

\* Mutant: an assembly is started by whichever fragment comes first.
AnyFragment(c) == TRUE

FirstFragment(c) == Comp(c).index = 0

StartAssembly(c) ==
  /\ Handle
  /\ ForUs(c) /\ Comp(c).fragment
  /\ ~Assembled(c) /\ FirstFragment(c)
  /\ Put(Key(c), [indexes |-> {Comp(c).index}, parts |-> {c}, last |-> clock])
  /\ UNCHANGED <<delivered, reported, bytes, ignored>>

\* The fragments before this one were lost.
MissFirst(c) ==
  /\ Handle
  /\ ForUs(c) /\ Comp(c).fragment
  /\ ~Assembled(c) /\ ~FirstFragment(c)
  /\ Report({c})
  /\ UNCHANGED <<store, delivered, ignored>>

RepeatFragment(c) ==
  /\ Handle
  /\ ForUs(c) /\ Comp(c).fragment
  /\ Assembled(c) /\ Comp(c).index \in store[Key(c)].indexes
  /\ ignored' = ignored \cup {c}
  /\ UNCHANGED <<store, delivered, reported, bytes>>

\* The first part inserted at an offset stays: its place is what tells parts apart.
HasOffset(parts, c) == \E d \in parts : Comp(d).offset = Comp(c).offset

\* The assembly fragment c belongs to, with c.
Joined(c) ==
  LET assembly == store[Key(c)] IN
  [indexes |-> assembly.indexes \cup {Comp(c).index},
   parts |-> assembly.parts \cup IF HasOffset(assembly.parts, c) THEN {} ELSE {c},
   last |-> clock]

\* Mutant: gaps are not looked for.
AnyPrevious(c) == TRUE

\* All previous fragments have been received.
NoGap(c) == Cardinality(Joined(c).indexes) = Comp(c).index + 1

NewFragment(c) ==
  /\ Handle
  /\ ForUs(c) /\ Comp(c).fragment
  /\ Assembled(c) /\ Comp(c).index \notin store[Key(c)].indexes
  /\ ignored' = ignored \cup ({c} \ Joined(c).parts)

AddFragment(c) ==
  /\ NewFragment(c)
  /\ NoGap(c) /\ Comp(c).more
  /\ Put(Key(c), Joined(c))
  /\ UNCHANGED <<delivered, reported, bytes>>

CompleteAssembly(c) ==
  /\ NewFragment(c)
  /\ NoGap(c) /\ ~Comp(c).more
  /\ delivered' = delivered \cup {Joined(c).parts}
  /\ Erase({Key(c)})
  /\ UNCHANGED <<reported, bytes>>

\* The bytes of the fragment are counted, and then those of all parts, itself among them.
GapFragment(c) ==
  /\ NewFragment(c)
  /\ ~NoGap(c)
  /\ reported' = reported \cup Joined(c).parts
  /\ bytes' = bytes + 1 + Cardinality(Joined(c).parts)
  /\ Erase({Key(c)})
  /\ UNCHANGED delivered

\* One turn of the loop over the message's components.
HandleComponent ==
  LET c == Head(work) IN
  \/ NotForUs(c)
  \/ DeliverWhole(c)
  \/ StartAssembly(c)
  \/ MissFirst(c)
  \/ RepeatFragment(c)
  \/ AddFragment(c)
  \/ CompleteAssembly(c)
  \/ GapFragment(c)

-----------------------------------------------------------------------------
(* process(): the assemblies to abandon, looked for now and then.          *)

Expired == {k \in DOMAIN store : store[k].last + TimeoutThreshold <= clock}

\* Mutant: an abandoned assembly is forgotten without a status.
ForgetExpired ==
  /\ Erase(Expired)
  /\ UNCHANGED <<reported, bytes>>

AbandonExpired ==
  /\ Erase(Expired)
  /\ Report(UNION {store[k].parts : k \in Expired})

CheckAssemblies ==
  /\ pc = "check"
  /\ IF lastCheck + CheckThreshold <= clock
     THEN AbandonExpired /\ lastCheck' = clock
     ELSE UNCHANGED <<store, reported, bytes, lastCheck>>
  /\ pc' = Return(incoming)
  /\ UNCHANGED <<envVars, timers, promiscuous, pending, held, work, incoming,
                 received, delivered, ignored, dropped>>

-----------------------------------------------------------------------------
(* enqueue()                                                               *)

\* Mutant: the callback is due a slot later.
ArmLate ==
  timers' = timers \cup {[index |-> SlotIndex(clock) + 1, due |-> clock + 2]}

\* Mutant: no callback for a packet that replaces the pending one.
ArmOnce ==
  timers' = timers \cup IF pending # 0 THEN {}
                        ELSE {[index |-> SlotIndex(clock) + 1, due |-> clock + 1]}

\* enqueue() returns true: its caller arms process() for the end of the slot.
ArmProcess ==
  timers' = timers \cup {[index |-> SlotIndex(clock) + 1, due |-> clock + 1]}

\* The message becomes the pending one, whatever was held before.
Keep(message) ==
  /\ pending' = SlotIndex(clock)
  /\ held' = message
  /\ dropped' = dropped \cup Parts(held)
  /\ ArmProcess

EnqueueFirst(message) ==
  /\ pending = 0
  /\ Keep(message)
  /\ UNCHANGED <<store, lastCheck, runVars, delivered, reported, ignored, bytes>>

\* The pending packet's slot is over and its callback has not come.
EnqueueLater(message) ==
  /\ 0 < pending /\ pending < SlotIndex(clock)
  /\ incoming' = message
  /\ Process(SlotIndex(clock))
  /\ UNCHANGED timers

KeepIncoming ==
  /\ pc = "store"
  /\ Keep(incoming)
  /\ incoming' = <<>>
  /\ pc' = "idle"
  /\ UNCHANGED <<envVars, promiscuous, store, lastCheck, work,
                 received, delivered, reported, ignored, bytes>>

EnqueueEarlier(message) ==
  /\ pending > SlotIndex(clock)
  /\ Keep(message)
  /\ UNCHANGED <<store, lastCheck, runVars, delivered, reported, ignored, bytes>>

\* Of two packets in a slot the one whose reception starts later is kept.
EnqueueSameSlot(message) ==
  /\ pending = SlotIndex(clock)
  /\ \E startsLater \in BOOLEAN :
       IF startsLater
       THEN held' = message /\ dropped' = dropped \cup Parts(held)
       ELSE held' = held /\ dropped' = dropped \cup Parts(message)
  /\ UNCHANGED <<pending, store, lastCheck, timers, runVars, delivered, reported,
                 ignored, bytes>>

\* A packet of n components arrives from s, and the classifier has found it to be of the
\* present slot.  What s sent in earlier slots and did not arrive is lost.
Enqueue(s, lost, n) ==
  LET message == [i \in 1..n |-> <<s, sent[s] + lost + i>>] IN
  /\ pc = "idle" /\ clock < MaxSlot
  /\ lastSent[s] < IF lost = 0 THEN clock ELSE clock - 1
  /\ sent[s] + lost + n <= Len(Stream[s])
  /\ sent' = [sent EXCEPT ![s] = @ + lost + n]
  /\ lastSent' = [lastSent EXCEPT ![s] = clock]
  /\ received' = received \cup Parts(message)
  /\ \/ EnqueueFirst(message)
     \/ EnqueueLater(message)
     \/ EnqueueEarlier(message)
     \/ EnqueueSameSlot(message)
  /\ UNCHANGED <<clock, base, changes, promiscuous>>

-----------------------------------------------------------------------------
(* The environment                                                         *)

\* A schedule with another slot duration counts the slots since the epoch anew.
Renumber ==
  /\ pc = "idle" /\ changes < MaxChanges
  /\ changes' = changes + 1
  /\ base' = Renumbered - base
  /\ UNCHANGED <<clock, sent, lastSent, timers, promiscuous, rxVars, runVars, historyVars>>

\* processConfiguration()
SetPromiscuousMode ==
  /\ pc = "idle" /\ changes < MaxChanges
  /\ changes' = changes + 1
  /\ promiscuous' = ~promiscuous
  /\ UNCHANGED <<clock, base, sent, lastSent, timers, rxVars, runVars, historyVars>>

Tick ==
  /\ pc = "idle" /\ clock < MaxSlot
  /\ clock' = clock + 1
  /\ UNCHANGED <<base, sent, lastSent, changes, timers, promiscuous, rxVars, runVars, historyVars>>

\* Bound: nothing more happens once the instance's time is over.
Horizon ==
  /\ clock = MaxSlot /\ pc = "idle"
  /\ UNCHANGED vars

Next ==
  \/ \E s \in Sources, lost \in 0..MaxLost, n \in 1..MaxAggregate : Enqueue(s, lost, n)
  \/ \E t \in timers : ProcessCallback(t)
  \/ HandleComponent
  \/ CheckAssemblies
  \/ KeepIncoming
  \/ Renumber
  \/ SetPromiscuousMode
  \/ Tick
  \/ Horizon

Spec == Init /\ [][Next]_vars

\* An assumption, which the code alone does not justify: the MAC thread serves its queue.
\* The thread's transmit handler may wait in open() for a reader of the FIFO
\* (basemodelimplHB.cc:1430), and nothing in the code bounds that wait.  As in TdmaTransmit,
\* it is assumed of the operator that a reader comes each time; every wait then ends, and
\* the thread goes on with its handlers and with the callbacks of fired timers.
MacThreadServes ==
  /\ WF_vars(\E t \in timers : ProcessCallback(t))
  /\ WF_vars(HandleComponent) /\ WF_vars(CheckAssemblies) /\ WF_vars(KeepIncoming)

Fairness == MacThreadServes /\ WF_vars(Tick)

FairSpec == Spec /\ Fairness

-----------------------------------------------------------------------------
(* Properties                                                              *)

Keys == Sources \X Nat

Assemblies == [indexes : SUBSET Nat, parts : SUBSET Ids, last : FirstSlot..MaxSlot]

\* The manager's and the environment's state is well typed.
RxTypeOK ==
  /\ clock \in FirstSlot..MaxSlot /\ base \in {0, Renumbered} /\ changes \in Nat
  /\ sent \in [Sources -> Nat] /\ lastSent \in [Sources -> 0..MaxSlot]
  /\ \A s \in Sources : sent[s] <= Len(Stream[s])
  /\ timers \subseteq [index : Nat, due : FirstSlot..MaxSlot]
  /\ promiscuous \in BOOLEAN
  /\ pending \in Nat /\ held \in Seq(Ids)
  /\ DOMAIN store \subseteq Keys
  /\ \A k \in DOMAIN store : store[k] \in Assemblies
  /\ lastCheck \in 0..MaxSlot
  /\ pc \in {"idle", "parts", "check", "store"}
  /\ work \in Seq(Ids) /\ incoming \in Seq(Ids)
  /\ received \subseteq Ids /\ delivered \subseteq SUBSET Ids
  /\ reported \subseteq Ids /\ ignored \subseteq Ids /\ dropped \subseteq Ids
  /\ bytes \in Nat

\* What the manager still holds of the packets it was given.
InHand ==
  Parts(held) \cup Parts(work) \cup Parts(incoming) \cup UNION {store[k].parts : k \in DOMAIN store}

\* Every component handed to enqueue() is delivered, reported with a drop status, ignored
\* as repeated, dropped with its message, or still in hand: none is forgotten, whichever
\* of the branches of receivemanagerHB.cc:270-443 it takes and whenever its assembly ends.
EveryComponentAccounted ==
  received = (UNION delivered) \cup reported \cup ignored \cup dropped \cup InHand

\* A component goes up in one packet at most, and never with a drop status as well: an
\* assembly is gone once it is delivered or given up (receivemanagerHB.cc:348, :367).
DeliveredOnce ==
  /\ \A d \in delivered, e \in delivered : d # e => d \cap e = {}
  /\ (UNION delivered) \cap (reported \cup dropped \cup InHand) = {}

\* An assembly holds the first fragments of its packet up to the last one received, with
\* none left out: "check that all previous fragments have been received"
\* (receivemanagerHB.cc:301).
AssembliesArePrefixes ==
  \A k \in DOMAIN store :
    store[k].indexes = 0..(Cardinality(store[k].indexes) - 1)

\* Packets whose sequence number their source gave to no other packet.
OwnSequence(c) ==
  \A d \in Ids : Key(d) = Key(c) => Comp(d).packet = Comp(c).packet

FragmentsOf(c) == {d \in Ids : d[1] = c[1] /\ Comp(d).packet = Comp(c).packet}

\* What is sent up is one whole packet, as long as its source does not use its sequence
\* number again, whatever was lost, captured, abandoned or interleaved with others.
DeliveredWhole ==
  \A d \in delivered : \A c \in d :
    Comp(c).fragment /\ OwnSequence(c) => d = FragmentsOf(c)

\* The pending packet was received under the numbering in force.
SameNumbering == base < pending /\ pending <= base + MaxSlot

\* A pending packet always has its process callback to come: one armed for the end of its
\* slot, which no callback of another slot or of an earlier numbering takes the place of.
PendingHasCallback ==
  pending # 0 =>
    \E t \in timers : /\ t.index = pending + 1
                      /\ SameNumbering => SlotIndex(t.due) = t.index

\* A packet is dropped without a status only if another is received in its slot, its
\* callback is late by a whole slot, or the slots were numbered anew in between
\* (receivemanagerHB.cc:74, :90).
DroppedOnlyIfLate ==
  [][\A c \in dropped' \ dropped :
       \/ pending = SlotIndex(clock)
       \/ ~SameNumbering
       \/ \E t \in timers : t.index = pending + 1 /\ t.due < clock]_vars

\* A packet is judged when its slot is over, never while it is being received.
JudgedAfterItsSlot ==
  [][pending # 0 /\ pending' = 0 /\ SameNumbering => pending < SlotIndex(clock)]_vars

\* A pending packet is judged, dropped or replaced in the end: either no packet is pending
\* again and again, or the pending one changes again and again (receivemanagerHB.cc:74).
\* This rests on MacThreadServes: with the thread in open() for good, the packet stays.
PendingResolved == []<>(pending = 0) \/ []<><<pending' # pending>>_vars

\* "record all bytes received" (receivemanagerHB.cc:353): a drop status counts each
\* component's bytes once.
BytesRecorded == bytes = Cardinality(reported)
=============================================================================
