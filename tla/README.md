# Heavy-ball TDMA radio model: verification project

The repository extends EMANE's TDMA radio model ("event scheduler" flavour) with a
"heavy ball" (momentum) version of max-weight scheduling: when a node's transmit slot
comes and nothing says to whom it is, the node sends to the neighbour with the greatest
product of link quality and a weight that follows its queue's growth. All of the
extension is in `src/src/HBShimlayer`; the rest of the repository is EMANE's own test
harness, schemas and packaging.

This project models the parts of `HBShimlayer` that decide *when* a node transmits, *to whom*,
*what* it takes from its queues, *what becomes* of a packet it receives, and how schedules
are built and reach it. It checks them with TLC on small instances and proves their safety
properties with TLAPS for all instances.

| module | what it is |
| --- | --- |
| `Schedules` | the data that schedule events and the scheduler share: slots, structures, decoded events |
| `ScheduleEvent` | operators: what a schedule message is decoded to |
| `SchedulePlan` | abstract specification: a schedule as a plan of frames and slots |
| `EventScheduler` | the schedule a node keeps, and its answers to the MAC |
| `TdmaTransmit` | EventScheduler composed with the MAC's chain of transmit timers |
| `ReceiveManager` | the pending packet, its callback, and reassembly |
| `FlowControl` | flow-control tokens, the five packet queues, what a slot takes of them |
| `FrameworkPHY` | what the physical layer makes of the packets it hears and sends |
| `UpstreamPath` | EventScheduler composed with FrameworkPHY by the queues of two threads, and the classifier |
| `HeavyBall` | the destination of a slot by heavy-ball weights, with pathlosses shared unlocked |
| `ScheduleBuilder` | the Python object a schedule message is built with, against ScheduleEvent |
| `MC...` | an instance for TLC of the module it is named after (`MCEventScheduler` etc.) |
| `..._proofs` | theorems about the module it is named after, and their proofs |

## 1. Inventory

### Components and how they interact

One node runs one MAC (`BaseModelHB`) on one PHY (`FrameworkPHY`). Events, packets and
fired timers are queued to a layer and handled one at a time by its thread; each of the two
layers has its own. Besides the queues, the PHY shares with the MAC two globals without a
lock, `Utils::initialized` and `Utils::pathlossesHolder`, which its event handler writes.

```
 Python builder --> schedule message --> TDMAScheduleEvent --> EventScheduler --notifyScheduleChange--> BaseModel tx
                                                                    ^------getTxSlotInfo / getSlotInfo------'  |
 timer service --processTxOpportunity--> BaseModel tx --dequeue--> QueueManager             | sendDownstreamPacket
 upper layer --processDownstreamPacket--> QueueManager <--tokens--> FlowControl             v
 PHY --pathlosses--> getDstByMaxWeight --FIFO--> mgen                                      PHY
 PHY --processUpstreamPacket--> classifier --enqueue--> ReceiveManager --sendUpstreamPacket--> upper layer
                                    '--timer, end of slot--> process --'
```

| component | state | operations | what is hard | what makes it correct |
| --- | --- | --- | --- | --- |
| TDMAScheduleEvent (`HBtdmascheduleevent.cc`) | structure, slot infos, frequencies | the constructor | three levels of defaults, frames listed twice, missing slots | in place, frequencies announced, or an exception |
| EventScheduler (`HBeventscheduler.cc`) | `structure_`, `slotInfos_`, `slotter_`, frequencies, first-request flag | `processEvent`, `flushSchedule`, `getTxSlotInfo`, `getRxSlotInfo`, `getSlotInfo` | updates against an earlier structure, all-or-nothing, flush halfway | implements the plan; lookups hit their own entry |
| BaseModel, transmit side (`basemodelimplHB.cc`) | `u64ScheduleIndex_`, `txSlotInfos_`, `nextMultiFrameTime_`, `pendingTxSlotInfo_`, timer id | `notifyScheduleChange`, `processTxOpportunity`, `sendDownstreamPacket` | a fired timer cannot be cancelled; handlers run late; a FIFO that blocks | one live timer chain; every slot one status, in order; transmissions by schedule |
| Heavy-ball choice (`getDstByMaxWeight`) | weights and queue lengths of the last two slots | one call a transmission | skipped updates, stale lengths, blocking FIFO | weights follow the queues |
| ReceiveManager (`receivemanagerHB.cc`) | pending slot index and packet, fragment store, last check | `enqueue`, `process` | late and stale callbacks, renumbered slots, lost fragments, sequence numbers used again | every component one fate; whole packets only; a callback for each pending packet |
| Receive classifier (`processUpstreamPacket`) | none of its own | one call a packet | a queue and a schedule change between hearing and judging | each packet judged once; taken exactly if the schedule in force says so |
| Flow control, queue manager (`basicqueuemanagerHB.cc`) | tokens, five queues | `processDownstreamPacket`, `processSchedulerPacket`, `enqueue`, `dequeue` | tokens over overflow, fragments, aggregation and drops; a loop over queues with an unsigned rest | one token a packet; no more than the slot; highest priority first; one destination |
| FrameworkPHY (`frameworkphyHB.cc`) | frequencies of interest, bandwidth, locations, pathlosses, profiles, fading selections, the two globals | packets and control messages both ways, four kinds of events | one transmitter of several fails; retuning races arrivals; the unlocked globals | a packet passes only with all its power; headers are complete; retuned in the end |
| Configuration and life cycle (`basemodelHB.cc`) | parameters | initialize, configure, start, stop | none after start | - |
| Python schedule tools (`PythonFile/`) | message under construction, its index of frames | construct, `append`, `structure`, `serialize`, `restore`; an XML reader | calls that raise half-way; defaults given in any call | what a radio decodes is what was asked for |

`PROJECT.json` lists all components with their status, the parts that are not modelled
with the reason, and every hazard with its line and the properties aimed at it.

### How the source was read

The tree is a work in progress and does not compile as it stands. Where it must be
corrected to be read at all, the plain reading is taken:

- `getDstByMaxWeight` declares `nemID` (`basemodelimplHB.cc:1359`) and uses `nemId`, writes
  `msg ! = ""`, and declares none of the arrays it uses. Undeclared arrays are taken
  literally: each name is an array of its own, 0 at first. So `lastQueueLength_`, which the
  weight reads, is never written: the length is saved in `lastLAstQueueLength_` (:1387), and
  :1388 writes `lastLastQueueLength_`. `BETA_` is a constant: the `beta` of a schedule's
  structure is not passed on to it.
- `notifyScheduleChange` takes four arguments in one place and five in another; the same
  values are meant.
- `counter_ == 1` right after `counter_++` from 0, with the reset inside, makes the FIFO be
  opened on every call that finds pathlosses.
- `Slotter`, the timer service and the protobuf classes are not in the repository. They are
  modelled from their use and marked external.
- `queueHB.cc` holds a second copy of the queue manager, under the original's name; the queue
  has only its header. `basicqueuemanagerHB.cc` is the one modelled.

## 2. The modules and the code

### ScheduleEvent

`Decode(msg)` is the constructor of `TDMAScheduleEvent`. The constructor's nested loops
overwrite `slotInfos_` by index; `FullSlots` says for every index which write stays: the
last listing of the slot's frame, in it the last listing of the slot, or else a receive
slot at the frame's (or the message's) frequency, or idle if the frame is not listed at
all. Data rate, service class and power are resolved alike and are one value, `class`,
which `Byte` narrows to eight bits as the constructor narrows the service class.
Protobuf's optional fields are sets of at most one value. Every `throw` is a disjunct of
`OutOfRange` or `Undeterminable`. `Messages` are all messages that protobuf can parse; what a
decoded event is (`DecodedEvent`) is in `Schedules`, which the decoder and `EventScheduler`
extend, and neither extends the other.

### EventScheduler and SchedulePlan

`sched` is the record of the scheduler's members. `Response(s, e)` is `processEvent`: one
case per outcome, with the statistic incremented, the state left, and whether the
`SchedulerUser` is notified (a rejected update before any full schedule is not). A vector
write out of range would show as an index outside the domain, so `ScheduleInPlace` sees it.
`getTxSlotInfo` is `TxSlotInfo` and `Requested`: the first request after a change skips to
the next multiframe, by a flag that an *empty* schedule leaves raised. The action
`ProcessEvent` is the whole handler, with the request that the notification makes before
`processEvent` returns.

`SchedulePlan` is what the scheduler promises: a function from frame and slot to what the
radio does, replaced by a full event, overridden as a whole by an update or else dropped.
`ImplementsPlan` is the refinement, by the mapping `PlanOf`.

### TdmaTransmit

Time is the absolute slot of `Clock::now()`. `timers` are armed timers, `calls` the fired
ones whose callback waits for the MAC thread: only the first can be cancelled. `timerId`
is the timer `transmitTimedEventId_` names, which may have fired. `ReceiveSchedule` is
`processEvent` with the MAC's whole `notifyScheduleChange` inside. `processTxOpportunity`
is divided where its loop turns and where it may block: `pc` is `"find"` at the head of
the loop, `"send"` before `sendDownstreamPacket`, `"open"` inside the blocking `open()` of
the FIFO. Time passes between handlers, and in a handler only while it is blocked:
`Tick` asks for `"idle"` or a blocked `"open"`. A handler that is simply slow is a
callback served late, which the model has at every call. `Refill` belongs to every turn that
may empty the list: after the slot in hand (`:1264-1271`), after a missed slot, and after the
slot the timer was armed for, since the `break` at `:1298` leaves the inner loop only.

`LearnPathloss` is all that the transmit side sees of `FrameworkPHY`: after the first
pathloss event the FIFO is opened.

### ReceiveManager

Both entrances run on the MAC thread. `Enqueue` has one operator for each branch of
`enqueue()` and includes its caller's arming of the process callback
(`basemodelimplHB.cc:631-645`), which happens exactly when `enqueue` returns true.
`process()` is divided into one step per component of the packet, then the check for old
assemblies; `pc` names the step and nothing else happens in between. When `enqueue` calls
`process` itself, `incoming` holds the packet it will keep afterwards (`KeepIncoming`).
`ProcessCallback` serves due timers in the order of their times. A callback already queued
is a due timer not yet served: nothing cancels these timers, so the two need not be told
apart.

A component is a pair of a sender and a place in that sender's stream, which is a constant:
which packet it is of, its fragment sequence, index, offset, and whether more follow.
`Enqueue` may skip components (lost), or hold several (aggregated). An instance's stream
may use a sequence number for two packets, as a sender that restarts does. Sizes are one
unit per component. A new schedule with another slot duration renumbers slots: `Renumber`
moves the index of the present slot between two ranges that do not overlap. The verdicts
of the spectrum service and of the draw against the probability of reception are a choice.

### FlowControl

The path from `processDownstreamPacket` to the radio, on its own: the slots that
`sendDownstreamPacket` is called for come in any order. A packet has a record from its arrival
on, with its queue, its destination, the bytes left of it, and its fate, by which the token
taken for it can be followed. The queues are the packets with fate `"queued"`, in the order of
arrival. `pc` divides `sendDownstreamPacket` at the turns of `dequeue`'s loop: `DequeueOwn` is
the slot's queue, `DequeueOther` one turn of the loop for another (the loop's condition is
`Looking`), `Transmit` what is done with the components. Nothing else happens in between.

`Queue` is not in the repository, nor is `FlowControlManager`. Both are external here:

- `DequeueResults` is what a caller can rely on from `queueHB.h` and the configuration texts:
  in order, by destination if one is given, at most the bytes asked for, one component unless
  aggregating, the last packet cut if fragmenting, too big packets dropped on demand if not.
- `Enqueued` lets a full queue give up any of its packets, the new one included.
- `TokensAdded` lets an addition beyond the total be refused or cut.

The destination of `getDstByMaxWeight` is broadcast if more than two broadcasts wait in
queue 0, and else a choice (`MaxWeightChoices`): which neighbour is the heaviest does not
matter to what is claimed here. Sizes are payload; headers are left out on both sides of
every comparison. The fields of `config` are the queue manager's parameters.

### FrameworkPHY

`Reception` is `processUpstreamPacket`: the loop over a packet's transmitters, the checks
that end it or drop the packet, and the verdict. Power, gain and noise are reals; what the
properties need of them is *whose* power was added up in a segment, so that a segment's
power is a set of transmitters. Location, propagation, gain, fading and spectrum classes are
not in the repository: their answers are chosen, among those that the state allows
(`GainAnswers`, `FadingAnswers`, `SpectrumAnswers`). `Examined`, `Drops` and `Power` say
where each of the code's `break`s leaves which loop. `SentHeader` and `AfterRequest` are
`processDownstreamPacket`; the control messages and the four kinds of events have an action
each. `PathlossEvent` *replaces* the global the MAC reads (`holder`) and *adds to* the
propagation model.

### UpstreamPath

Two threads and two queues: `toPhy` with the frequency settings that the MAC tells, `toMac`
with the packets that the PHY passes. Actions are whole handlers of either thread.
`ReceiveSchedule` is the MAC's part of `notifyScheduleChange` that concerns the radio; the
transmit part is in `TdmaTransmit`. `MacHearsPacket` is `processUpstreamPacket` of the MAC,
one disjunct for each way to leave it. The branch for missing control messages
(`basemodelimplHB.cc:525-542`) cannot be reached, since the PHY sends both. The slots of the start
and end of a reception are what the PHY may say of them; a packet later than the
synchronization threshold has its start rewritten. `EnqueueForReassembly` is where
`ReceiveManager` takes over. Every step of the composition is a step of `FrameworkPHY` or
leaves it alone: `PathImplementsPhy` proves it, so that the PHY's theorems hold here too.

### HeavyBall

One call of `getDstByMaxWeight` is: the early answers, the copy of the global, one step per
entry of the copy, and the end. `torn` says that the PHY assigned the global while the MAC
was copying it, and then the copy is any list of entries of any events (`TornCopies`); that
such a copy may also crash the program is left out. Weights are integers scaled by `Scale`,
beta a fraction; the rate `log2(1 + snr)` of a pathloss is a natural number. Between calls
packets arrive, and `Serve` uses the slot. The queue may keep an entry for a destination
whose packets are gone. `report` is the message for the FIFO (the writing of which is in
`TdmaTransmit`). `FlowControl` uses of this module's answer only what
`ChoiceAsPromised` states.

### ScheduleBuilder

`event` is the protobuf message of `TDMAScheduleEvent` in `HBtdmascheduleevent.py`, its
optional fields sets of at most one value; `index` is `_frames`, with the place of a frame's
entry in the message instead of the reference to it, 0 when `restore()` has cut it off. A
number that does not fit its field raises in the middle of `append()` or `structure()`. The
actions `RaiseAtFrame`, `RaiseAtDefault`, `RaiseAtSlot`, `RaiseAtField` and `Structure` leave
what had been done by then. The indexes and structure numbers say themselves whether they fit
(`Fits`); of frequency, data rate, power and destination a keyword argument says it (`misfit`),
and `Parts` says how far the assignments came. Data rate, service and power are one value.
`append()` takes classes 0 to 3 only, the constructor any that fits the message.
`Serialized` is the message in the form that `ScheduleEvent!Decode` takes, so that the property
`RadioAsAsked` runs the Python side's message through the C++ side's decoder.

The history variable `raised` holds the frames calls raised for. They are `Spoilt`: what else
than the slots asked for a radio finds there is not claimed. Those whose call raised at a value of
the slot are also `Forgetful`: that slot is in the message but not in `_frames`, so that
`ListedOnce` leaves their slots out.

The variables called *history* in the modules are read by no action.

## 3. What is checked

| run | states | question | result |
| --- | --- | --- | --- |
| `scheduler` | 995 | does any order of full schedules, updates and unreadable events leave a consistent schedule that implements the plan? | holds |
| `transmit` | 56006 | is there one timer chain, is each transmit slot given one status, in order, whatever is late, and in the end? | holds, the last under fairness and the assumption that a reader of the FIFO comes back |
| `transmit_blocked` | - | does a packet leave in its own slot? | no: the FIFO |
| `reception` | 648768 | has each received component exactly one fate, are whole packets delivered, is a pending packet always resolved? | holds, the last under fairness and the assumption that a reader of the FIFO comes back |
| `reception_bytes` | - | are the bytes of a failed assembly recorded once? | no |
| `flow` | 5626306 | is each token available or held by one packet; does a slot take the highest queue with something for the chosen destination, nothing for another, no more than its size, and, aggregating, leave nothing that fits? | holds |
| `flow_token` | - | are tokens held only by packets on their way? | no: drops keep theirs |
| `flow_directed` | - | is only a slot's destination served in it? | no |
| `phy` | 19158 | with transmitters that fail in every way: is a packet counted once, and passed only with all its power? | holds |
| `upstream` | 281660 | is a packet taken exactly if the schedule in force has the node receive it, are all packets judged, is the radio retuned? | holds; the last but one under fairness and the assumption that a reader of the FIFO comes back, the last under the fairness of the PHY's thread alone |
| `heavy` | 2025562 | is the destination of the greatest weight chosen, is someone served, whatever copy a race leaves? | holds |
| `builder` | 1398567 | does a radio decode what was asked for, whatever calls were refused, raised half-way or came after a restore? | holds, but for frames a call raised for, and the class modulo 256 |

### The disagreements

- **A packet may leave after its slot** (`transmit_blocked`). `open(..., O_WRONLY)` on a FIFO
  blocks without a reader, between the test that the slot is the present one and the
  transmission "in this slot". The theorem `PresentSlotTaken` shows that this is the only
  way: up to the call, the slot is the present one.
- **Bytes counted twice** (`reception_bytes`). A fragment that comes after a gap is inserted
  into the parts, and then its size is added to that of all parts.
- **Dropped packets keep their token** (`flow_token`). `dequeue` drops packets too big for a
  slot if fragmentation is off, and tells the statistics but not its caller. The tokens are lost
  one by one until the upper layer is refused for good. `TokensAccounted` shows that this is
  the only leak while no scheduler's packet is sent.
- **A slot's destination is not used** (`flow_directed`). The schedule can name the destination
  of a slot; the extension dequeues for the neighbour of the greatest weight instead.

Further observations, made while modelling; the modules do what the code does here, and no
run is about them:

- The search for assemblies to abandon (`receivemanagerHB.cc:447`) is at the end of
  `process()`, behind two early returns, and has no timer: a fragment can join an assembly of
  any age, where the configuration text (`basemodelimplHB.cc:149-156`) has a rate and a threshold.
- A late packet's status is decided by the type of the slot that is present
  (`basemodelimplHB.cc:709`), while the comment at :718 asks for that of the packet's slot.
- "Too long for the slot" compares the end of reception, which for a packet later than the
  synchronization threshold is counted from the rewritten start, with the slot that the message
  names (`basemodelimplHB.cc:553-558`).
- After a flush the radio is told a bandwidth of 0 Hz (`basemodelimplHB.cc:997`), which no
  configuration could set.
- The weight of a node never falls (`WeightsNeverFall`), since the queue length it should
  fall by is saved under another name. The choice is sound for the weights as they are.
- In `HBtdmascheduleevent.py`, reading an absent field gives 0 and never `None`, so that the
  three `KeyError`s about missing defaults (:254, :259, :264) are never raised, and the
  receiver rejects the whole message instead (`Undeterminable`).
- `restore()` leaves `_frames` as it was: a later `append()` for a known frame goes to an
  entry that is no longer part of the message, and one for a restored frame lists it again
  (`ListedOnce` and `RadioAsAsked` say so in their conditions).
- `append()` calls that raise at an index leave an entry without its required index, after
  which the event does not serialize. A call that raises at a frequency, data rate or destination
  of its slot leaves a complete entry, which `_frames` does not know: the event serializes with a
  slot nobody got an answer for, and repeating the call with a value that fits lists the
  slot twice (the second listing decides).
- The service class has 32 bits in the message and 8 in the slot
  (`HBtdmascheduleevent.cc:71,135,139,143`), and neither the builder's constructor
  (`HBtdmascheduleevent.py:35`) nor the decoder has an upper limit:
  `TDMAScheduleEvent(service=256)` is heard as class 0. `RadioAsAsked` states the class modulo 256.
- The totals of nodes with ids of 10 and more are never reset (`basemodelimplHB.cc:1419`): what
  the FIFO is told of them is the sum of all their weights since the start. `ReportIsLastWeight`
  speaks of the ids below 10.

### Bounds, and why they are enough

- `scheduler` has no bound: the events are a finite set, chosen to have each of the three
  levels of defaults, frames listed twice, slots repeated, missing or one past the end in
  both dimensions, a structure without slots, and three shapes whose flat indexes collide
  if frame and slot are confused (1x2, 2x1, 2x2).
- `transmit`: `MaxSlot = 7` with multiframes of two and three slots is room for two to three
  multiframes, thus for a backlog that runs over a multiframe's end; `MaxSchedules = 3` is the
  schedule whose callback is stale, the one it must not disturb, and a third that meets the
  other two's timers.
- `reception`: four slots with `MaxSlot = 4` are three in which packets arrive (one pending,
  one that finds it late, one more) and one for the last callbacks. `MaxAggregate = 2` has
  packets with two fragments, `MaxLost = 1` gaps, `MaxChanges = 1` a renumbering or a change
  of mode. One sender cuts a packet in three: first, middle and last fragments differ. The
  other has a packet for another node, then a first fragment, then a packet with the *same*
  sequence number: the repeated index and the assembly meeting another packet both happen.
  Thresholds of 1 let assemblies expire between slots. `Renumbered = 10` exceeds `MaxSlot`,
  as `TimeAssumption` asks.
- `flow`: three packets against two tokens and queues of depth two: refusal, overflow and a
  queue with packets of two destinations behind each other happen. Sizes 1 and 3 against
  slots of 4 and 2 bytes: a slot that takes two packets, one that cuts or drops the large one.
  Classes 0 and 3 are the queue the choice looks at and another; the control queue is the third. `MCConfigs`
  has every choice of fragmentation and aggregation with flow control, and a strict
  configuration without it.
- `phy`: two neighbours and packets of one and two transmitters and segments: with two, every
  first failure meets a second transmitter that fails in another way, or not. Nothing in the
  layer counts higher.
- `upstream`: two packets, so that one overtakes the other's wait in a queue; four slots and
  two schedule changes, so that a change falls between each two of sending, hearing and
  judging, and a packet can be late by more than the threshold of one slot.
- `heavy`: ids 1 and 12 are on both sides of the 10 in the reset of the totals; three calls
  reach back to the last weight but one; three broadcasts are the backlog that matters.
- `builder`: three calls of `append()` with an index that does not fit the message and
  two that do, which is room for a frame named again after each way a call can end; arguments
  of each type with each level of defaults present or not, and with values that do not fit, for
  the frame and for the slot; structures with a number that does not fit, among the first two
  assigned or after them; a restored message with a frame listed twice. `MaxUInt = 300` stands for
  2^32 - 1 and leaves room for a default class of 256, which is heard as 0.

The clocks of `transmit`, `reception` and `upstream` stop at `MaxSlot`, where `Horizon` stutters;
so deadlock is checked in all runs.

### Fairness, and why

EMANE's layer threads and its timer service are loops: they serve their queues, due timers
fire, and time passes. But the MAC's thread is not free of the outside: its transmit handler
opens the FIFO (`basemodelimplHB.cc:1430`), waits there until someone reads it, and nothing in
the code bounds that wait. While it lasts the same thread handles no packet, no timer and no
event. So what the MAC does in the end rests on one assumption about the operator, the same in
all three modules: **each time, a reader of the FIFO comes** (the mgen process).

- `TdmaTransmit` has the reader as a variable and states the assumption as fairness of
  `ReaderReturns`, with strong fairness of `SendOnceRead`, as a reader may leave again before
  `open` notices. Without it `OpportunityServed` is false.
- `ReceiveManager` and `UpstreamPath` have no FIFO. There the assumption is the conjunct
  `MacThreadServes` of their `Fairness`: every wait ends, so the thread goes on with its
  handlers. `PendingResolved` and `EveryPacketJudged` hold on this assumption only; with the
  thread in `open()` for good a packet stays pending, or queued to the MAC, for good.
- `PhyThreadServes` of `UpstreamPath` is the PHY's thread, which waits for no one, and that a
  packet on the air reaches it. `RadioRetuned` needs nothing else.

No fairness is assumed of schedule events, arrivals or pathloss events, nor that the schedule
ever comes to rest, for which reason `RadioRetuned` excuses a radio that is told new settings
again and again, as `PendingResolved` excuses packets that replace each other.

## 4. What is proved

`TLAPS` proves the theorems of `PROJECT.json` for every value of the constants, under the
named assumptions of the modules: `EventsAssumption` (the events are what the decoder
returns), `BoundsAssumption`, `FragmentsAssumption` (fragments of one packet differ in index and in
offset, and the one without `more` is the last), `SourcesAssumption` (finitely many senders),
`StreamAssumption`, `FlowAssumption`, `TimeAssumption` (slots are counted from 1, the numberings are
apart), `PhyAssumption`, `HeadersAssumption` and `RequestsAssumption` (a packet names each
transmitter once, a control message is there once or not), `PathAssumption` (the frequencies of
schedules and packets are those the instance lists), `HeavyAssumption` (an event lists a node
once, beta is below 1) and `BuilderAssumption` (the types of arguments). TLC evaluates each of them in the runs. `EventsAssumption` is also discharged: the run
evaluates it on the events that `ScheduleEvent` decodes from the instance's messages, and the
theorem `MessagesDecode` proves it of the events of *every* message.

**EventScheduler.** `SchedInv` is inductive: `Sound(sched)` says that vector, structure,
slotter and frequencies fit, and `NoPendingFirstRequest` that the first-request flag does not
outlive the notification while there is a schedule. The arithmetic is in `IndexInRange` and
`IndexInjective`: frame and slot in range give an index in the vector, and each index one
frame and slot. From this follow typing, `ScheduleInPlace`,
`FrequenciesAnnounced`, and, case by case of `Response`, that every step of the scheduler is a
step of the plan or a stutter (`SchedulerImplementsPlan`).

**TdmaTransmit.** `TxInv` adds to the properties what they need to be inductive:

- `Indexed`: no timer or callback has the index of a schedule still to come, so that the
  increment in `notifyScheduleChange` makes all old ones stale at once;
- `Listed`: the list in hand ends at a multiframe's end and follows the slot in hand, so a
  refill continues it without a gap;
- `Timed`: no status is given ahead of its time and a queued callback's slot has come, so
  the next multiframe, where a new schedule starts, is later than all statuses given.

`RelativeIsRemainder` shows that the lookup by relative frame and slot is the remainder by the
multiframe. `SchedulerSteps` says that only an event changes the schedule, so that the whole transmit
side refines the plan too (`TransmitterFollowsPlan`). `SingleChain`, `EveryOpportunityAccounted`, `NoSecondVerdict`,
`RadioKnowsFrequencies`, `TurnsToPresentSlot` and the action property `TransmitsBySchedule` follow.

**ReceiveManager.** `RxInv` adds:

- `Control`: what `pc` says of the work left, and that the packet pending when a later one
  has been processed against it is late by a whole slot;
- `ReceivedWasSent`: what arrives next is not yet anywhere;
- `Apart`: no component is in two places: in two messages or assemblies, in hand and
  settled, or in two packets sent up. `DeliveredOnce` alone is not inductive: an assembly
  must be known not to share a fragment with what was delivered before;
- `FiniteIndexes`: Cardinality counts;
- `Numbered`: each timer and the pending packet have one numbering, and the pending packet
  has its timer.

Then `EveryComponentAccounted`, `DeliveredOnce`, `AssembliesArePrefixes`, `PendingHasCallback`, and
the action properties `DroppedOnlyIfLate` and `JudgedAfterItsSlot` are proved for every number
of senders, every stream (sequence numbers used again as they may be) and all thresholds.

`DeliveredWhole` needs `AssembliesKept`: an assembly keeps a part for each index it has marked. The
code marks the index before it looks at the offset, so that this is so only where every offset is
of the packet's own fragments; `Kept` says it with the condition `OwnSequence`, as the property does.
A packet is sent up when its marks are as many as the last fragment's index asks for, and by
`FragmentsAssumption` no fragment of it lies beyond that index or shares one: the parts are
all of it (`PacketsWhole`).

**FlowControl.** `FlowInv` adds `InHand` (the packets marked as in hand are in `hand`, and what
else is there is fragmented and still queued), `NothingYet` (the slot's own queue is asked
first) and `HandAsChosen`. `ResultFacts` and `AfterFacts` say once what the queue's contract
gives, `EnqueuedFacts` what an arrival does to the packets that hold a token. Then
`TokensAccounted` is counting: each action moves as many packets out of `Holding` as it adds
tokens, so the count never exceeds the total and `TokensAdded` is never refused. `WithinSlot`,
`AddressedAsChosen` and the action property `TooBigInOwnClass` follow. For
`HighestPriorityFirst`, `SearchInv` says of a node that neither aggregates nor is strict: while
nothing is in hand, nothing is counted either and every queue asked so far has nothing that fits;
once something is, no further queue is asked. `Asking` is the step: a queue that gives nothing
keeps or drops what it had, and what then comes first in it does not fit; one that gives
something gives at least a byte, because queued packets have bytes left (`LeftPositive`).

The other half is about a node that aggregates, and an argument over time: a queue asked early must
still have nothing that fits when the slot is complete. `FillInv` says that each queue asked so
far has no first packet that fits what `Remaining` was left, and is kept because what remains only
shrinks and less room fits less (`LessFitsLess`), and because the contract of an aggregating
queue is to go on while something fits (`Filling`). For this the bytes of a set of packets must
add up the same in whatever order they are taken: `BytesLeftAdds`, from `SumsExist`, again by a
least counterexample.

`DequeueResults`, `Enqueued` and `TokensAdded` are contracts of external parts, and what is said of all
their answers would be worth nothing where they have none. `QueuesAnswer` shows that in each state a
handler asks them, they have one: a queue passes its packets in order (`Passable`), taking or
dropping each, and the furthest place it can pass is an answer (`PassOne`, `QueueAnswers`).

**FrameworkPHY.** The layer's state is little; the proofs are about `Reception` for any header
and any answers: where the loops end (`Examined`) and what is counted there.
`CountedOnceUnlessFaded` needs that all transmitters before the last one examined went on,
`PassedWithAllPower` that nothing was dropped, so that all were examined and added up;
`HeaderSound` that `WithSelf` keeps a list without repetitions.

**UpstreamPath.** `PathInv` joins the invariants of both parts (`SchedInv` from
EventScheduler's proofs, used for the schedule in force) with the types of the queues,
`FoiOnItsWay`, and `QueuedOnce`, which ties a packet's stage to its place. The proof of `TakenIfDue` takes the
classifier's disjuncts one by one; `PathImplementsPhy` is a step simulation under the identity, and
`PathFollowsPlan` the same for the scheduler: the composition is both of its parts.

**HeavyBall.** `ChosenIsHeaviest` is the loop's invariant over the places weighed so far: as
a weighed node may occur once only in a whole copy (`Distinct`), later steps do not change
earlier scores, which is why torn copies are excepted. `SomeoneServed` holds for torn copies
too: a node with packets has an entry in the queue and a positive weight once weighed.
`WeightsNeverFall` rests on `lastQueue = 0`, by arithmetic with the fraction beta.

**ScheduleBuilder.** `BuilderInv` adds `Matched`: the index names each frame entered since the
last `restore()`, each once, and knows all slots of those it can write to. It is kept by
`Entering` (a frame is entered in both) and `Writing` (the frame's entry is revised, and the
slot it may take is added to both). `Revised` says what each call, also one that raises half-way,
may do to a frame's entry, and `CallRevises` that each does no more. The index knows all slots of
a frame only while no call raised at a value of its slot (`Forgetful`). `ListedOnce` follows, for
any number and order of calls.

`RadioAsAsked` runs the decoder, and is proved in two parts. `AskedInv` is what the calls leave in
the message: each call that was accepted has an entry (`EachEntered`), in whichever frame; and
in the frames no call raised for, each slot entry was asked for, there is one at least, and the
frame has the defaults given last (`FrameAsAsked`). A call changes no frame but its own
(`AskedWriting`), so that the frames it may spoil are those of `raised`. The other part is the
decoder, for every message: `FlattenElements` and `UpdateEntries` say what an update is a list of,
`FullEntry` what a cell of a full schedule holds after the constructor's loops. `EventSerialized`,
`SlotHeard` and `AskedListed` join the two, and `RadiosHearWhatWasAsked` follows for any number of
calls. Where a lemma is by induction (on the length of a list of frames), it supposes a least
counterexample: the library's induction theorems have an operator as a parameter. The decoder's
lemmas also give `MessagesDecode`, which discharges `EventsAssumption`, and `BuiltDecodes`.

**Only model-checked.** The liveness properties `OpportunityServed`, `PendingResolved`,
`EveryPacketJudged` and `RadioRetuned`, which are out of the prover's reach; the first three
rest on the assumption about the FIFO's reader in section 3. Every other
property of a passing run is a theorem.

## 5. What is not modelled

- Received power, noise, antennas, probability-of-reception curves: arithmetic on reals; the
  verdict is a choice.
- Statistics and tables other than the transmit slot status and the drop status.
- The flow-control handshake with the upper layer, in `FlowControlManager`: not in this
  repository, and all that `processDownstreamControl` does is to forward it.
- `write` to a FIFO whose reader has gone (SIGPIPE): outside this repository.
- A copy of the global pathloss list that crashes: undefined behaviour past which there is
  nothing to state.
- Life cycle: parameters are set before any event; the models start after `postStart`.
- `HBtdmaschedule.py`, which reads a schedule from XML and calls the builder, and `__iter__`
  of the builder; `restore()` of data that does not parse. The reader overwrites where its
  schema allows one definition only (`HBtdmaschedule.xsd:166`, `HBtdmaschedule.py:189`).

## 6. Plan

Done: all modules of the table above, in order of importance, each with its runs and proofs.
What would come next:

1. One module that composes `UpstreamPath` with `ReceiveManager` at `EnqueueForReassembly`, and
   `HeavyBall` with `FlowControl` at `MaxWeightChoices`, in place of the contracts stated there.
2. The XML reader, with a schedule's intended meaning as the specification.

Later modules keep to what the proofs need: parameters as constants with named assumptions,
no RECURSIVE operators, invariants as conjunctions of named parts.
