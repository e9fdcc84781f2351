------------------------------ MODULE HeavyBall ------------------------------
(***************************************************************************)
(* getDstByMaxWeight: the choice of a slot's destination by heavy-ball     *)
(* weights.  The pathlosses it weighs by are in a global that FrameworkPHY *)
(* assigns on its own thread, without a lock, while the MAC copies it.     *)
(*                                                                         *)
(* The class declares none of the arrays of weights: each name the         *)
(* function uses is an array of its own, large enough, and 0 at first.     *)
(* Weights are scaled by Scale; log2(1 + snr) is a rate in Nat, which may  *)
(* be 0 for a pathloss so great that 1 + snr is 1.                         *)
(***************************************************************************)
EXTENDS Integers, Sequences, Functions

CONSTANTS
  Nodes,              \* ids of possible destinations
  Broadcast,          \* 65535
  BetaNum, BetaDen,   \* BETA_, "[0-1)"
  Scale,              \* the unit of the weights
  PathlossEvents,     \* what events may list: sequences of [node, rate]
  TornLength,         \* bound: entries in a torn copy
  MaxBacklog,         \* bound: packets for each destination in queue 0
  MaxCalls            \* bound: choices made

Entries == [node : Nodes, rate : Nat]

EntriesOf(events) == UNION {{ev[i] : i \in DOMAIN ev} : ev \in events}

\* An event lists each node at most once.
Distinct(entries) == \A i, j \in DOMAIN entries : entries[i].node = entries[j].node => i = j

ASSUME HeavyAssumption ==
  /\ Nodes \subseteq Nat \ {0} /\ Broadcast \in Nat \ ({0} \cup Nodes)
  /\ BetaNum \in Nat /\ BetaDen \in Nat \ {0} /\ BetaNum < BetaDen
  /\ Scale \in Nat \ {0} /\ TornLength \in Nat /\ MaxCalls \in Nat
  /\ MaxBacklog \in [Nodes \cup {Broadcast} -> Nat]
  /\ \A ev \in PathlossEvents : ev \in Seq(Entries) /\ Distinct(ev)

VARIABLES
  holder,       \* Utils::pathlossesHolder
  initialized,  \* Utils::initialized
  torn,         \* whether the holder was assigned while the MAC was copying it
  backlog,      \* packets in queue 0, by destination
  listed,       \* the destinations that getDestQueueLength(0) has an entry for
  mem,          \* the arrays of the weights, by node
  pc, copy, place, best, \* the call under way: its list, its iterator, its maximum
  report,       \* the message to the FIFO: per node its weightT_ / counter_, or 0
  calls         \* for the bound

queueVars == <<backlog, listed>>
callVars == <<pc, copy, place, best>>
vars == <<holder, initialized, torn, queueVars, mem, callVars, report, calls>>

NoMemory == [last |-> 0, lastLast |-> 0, lastQueue |-> 0, lastLastQueue |-> 0, total |-> 0]

NoBest == [dst |-> 0, score |-> 0]

Init ==
  /\ holder = <<>> /\ initialized = FALSE
  /\ backlog = [d \in Nodes \cup {Broadcast} |-> 0]
  /\ listed = {}
  /\ mem = [n \in Nodes |-> NoMemory]
  /\ pc = "idle" /\ torn = FALSE /\ copy = <<>> /\ place = 1 /\ best = NoBest
  /\ report = <<>>
  /\ calls = 0

-----------------------------------------------------------------------------
(* FrameworkPHY's thread                                                   *)

PathlossEvent(ev) ==
  /\ holder' = ev
  /\ initialized' = TRUE
  /\ torn' = (torn \/ pc = "copying")
  /\ UNCHANGED <<queueVars, mem, callVars, report, calls>>

-----------------------------------------------------------------------------
(* The queue.  External: a packet that leaves may leave an empty entry.    *)
(* Between two calls of the choice nothing is kept but the arrays.         *)

Arrive(d) ==
  /\ pc = "idle"
  /\ backlog[d] < MaxBacklog[d]
  /\ backlog' = [backlog EXCEPT ![d] = @ + 1]
  /\ listed' = listed \cup {d}
  /\ UNCHANGED <<holder, initialized, torn, mem, callVars, report, calls>>

\* The slot is used: for the chosen destination, or for any if none is chosen.
Serve ==
  /\ pc = "chosen"
  /\ \E d \in IF best.dst = 0 THEN DOMAIN backlog ELSE {best.dst} :
     \E n \in 0..backlog[d] :
       /\ backlog' = [backlog EXCEPT ![d] = n]
       /\ \/ UNCHANGED listed
          \/ n = 0 /\ listed' = listed \ {d}
  /\ pc' = "idle" /\ torn' = FALSE /\ copy' = <<>> /\ place' = 1 /\ best' = NoBest
  /\ report' = <<>>
  /\ UNCHANGED <<holder, initialized, mem, calls>>

-----------------------------------------------------------------------------
(* The MAC's thread: getDstByMaxWeight                                     *)

BroadcastBacklogged == backlog[Broadcast] > 2

StartCall ==
  /\ pc = "idle"
  /\ calls < MaxCalls
  /\ calls' = calls + 1
  /\ UNCHANGED <<holder, initialized, torn, queueVars, mem, copy, place, report>>

\* The broadcast is answered before anything is weighed.
AnswerBroadcast ==
  /\ StartCall
  /\ BroadcastBacklogged
  /\ pc' = "chosen" /\ best' = [NoBest EXCEPT !.dst = Broadcast]

AnswerUninitialized ==
  /\ StartCall
  /\ ~BroadcastBacklogged /\ ~initialized
  /\ pc' = "chosen" /\ best' = NoBest

BeginCopy ==
  /\ StartCall
  /\ ~BroadcastBacklogged /\ initialized
  /\ pc' = "copying" /\ best' = NoBest

\* A copy made during an assignment may hold any of the entries there are, in any order.
TornCopies == UNION {[1..n -> EntriesOf(PathlossEvents)] : n \in 0..TornLength}

FinishCopy ==
  /\ pc = "copying"
  /\ copy' \in IF torn THEN TornCopies ELSE {holder}
  /\ pc' = "weighing"
  /\ UNCHANGED <<holder, initialized, torn, queueVars, mem, place, best, report, calls>>

NonNegative(w) == IF w < 0 THEN 0 ELSE w

\* "weight" of a node, of its memory and the packets waiting for it.
Weight(m, packets) ==
  LET q == Scale * packets IN
  NonNegative(
    m.last + q - m.lastQueue
      + (BetaNum * (m.last - m.lastLast + q + m.lastLastQueue - 2 * m.lastQueue)) \div BetaDen)

\* Mutant: the queue length goes to the array that the weight reads.
RememberedAsSpelt(m, packets) ==
  [last |-> Weight(m, packets), lastLast |-> m.last, lastQueue |-> Scale * packets,
   lastLastQueue |-> m.lastQueue, total |-> m.total + m.last]

\* What the arrays remember after the node is weighed.  lastQueueLength_ is never written:
\* it is saved in an array of another name, and ql->second in lastLastQueueLength_.
Remembered(m, packets) ==
  [last |-> Weight(m, packets), lastLast |-> m.last, lastQueue |-> m.lastQueue,
   lastLastQueue |-> Scale * packets, total |-> m.total + m.last]

Entry == copy[place]

\* Mutant: the node is weighed without looking for its queue.
InQueues(n) == n \in Nodes

Listed(n) == n \in listed

\* Mutant: the iterator is advanced twice.
NextEntryButOne == place + 2

\* Mutant: the search ends at a node without a queue.
NextEntryOrEnd == IF Listed(Entry.node) THEN place + 1 ELSE Len(copy) + 1

NextEntry == place + 1

SkipNext ==
  /\ pc = "weighing" /\ place <= Len(copy)
  /\ ~Listed(Entry.node)
  /\ report' = Append(report, [node |-> Entry.node, value |-> 0])
  /\ place' = NextEntry
  /\ UNCHANGED <<holder, initialized, torn, queueVars, mem, pc, copy, best, calls>>

Score(entry, m) == entry.rate * m.last

\* Mutant: maxScore is not raised.
BetterThanNone(score) == score > 0

Better(score) == score > best.score

WeighNext ==
  /\ pc = "weighing" /\ place <= Len(copy)
  /\ Listed(Entry.node)
  /\ LET n == Entry.node
         m == Remembered(mem[n], backlog[n])
         score == Score(Entry, m)
     IN /\ mem' = [mem EXCEPT ![n] = m]
        /\ report' = Append(report, [node |-> n, value |-> m.total])
        /\ best' = IF Better(score) THEN [dst |-> n, score |-> score] ELSE best
  /\ place' = NextEntry
  /\ UNCHANGED <<holder, initialized, torn, queueVars, pc, copy, calls>>

\* Mutant: the totals are kept.
TotalsKept(memory) == memory

\* The totals of the nodes below 10 start again.
TotalsReset(memory) ==
  [n \in DOMAIN memory |-> IF n < 10 THEN [memory[n] EXCEPT !.total = 0] ELSE memory[n]]

\* counter_ is 1 whenever the loop ends: each call resets it.
EndCall ==
  /\ pc = "weighing" /\ place > Len(copy)
  /\ mem' = TotalsReset(mem)
  /\ pc' = "chosen"
  /\ UNCHANGED <<holder, initialized, torn, queueVars, copy, place, best, report, calls>>

Next ==
  \/ \E ev \in PathlossEvents : PathlossEvent(ev)
  \/ \E d \in Nodes \cup {Broadcast} : Arrive(d)
  \/ AnswerBroadcast \/ AnswerUninitialized \/ BeginCopy
  \/ FinishCopy \/ SkipNext \/ WeighNext \/ EndCall
  \/ Serve

Spec == Init /\ [][Next]_vars

-----------------------------------------------------------------------------
(* Properties                                                              *)

Memories == [last : Nat, lastLast : Nat, lastQueue : Nat, lastLastQueue : Nat, total : Nat]

\* The state of the choice is well typed; no weight is ever negative.
TypeOK ==
  /\ holder \in Seq(Entries) /\ initialized \in BOOLEAN /\ torn \in BOOLEAN
  /\ backlog \in [Nodes \cup {Broadcast} -> Nat]
  /\ listed \subseteq Nodes \cup {Broadcast}
  /\ mem \in [Nodes -> Memories]
  /\ pc \in {"idle", "copying", "weighing", "chosen"}
  /\ copy \in Seq(Entries) /\ place \in 1..(Len(copy) + 1)
  /\ best.dst \in {0, Broadcast} \cup Nodes /\ best.score \in Nat
  /\ report \in Seq([node : Nodes, value : Nat])
  /\ calls \in Nat

\* A weight never falls, and rises by at least the queue each time its node is weighed:
\* since lastQueueLength_ stays 0 a queue that drains never takes anything off the weight
\* it has earned (basemodelimplHB.cc:1380, :1387).
WeightsNeverFall ==
  [][\A n \in Nodes :
       mem'[n].last # mem[n].last \/ mem'[n].lastLast # mem[n].lastLast =>
         mem'[n].last >= mem[n].last + Scale * backlog[n]]_vars

\* Places of the list that were weighed.
WeighedPlaces == {i \in 1..(place - 1) : Listed(copy[i].node)}

ScoreAt(i) == Score(copy[i], mem[copy[i].node])

\* The answer is the first of the greatest positive scores of the nodes weighed, those of
\* the last event that have an entry in the queue, or none if no score is positive
\* (basemodelimplHB.cc:1399).
ChosenIsHeaviest ==
  pc = "chosen" /\ copy # <<>> /\ ~torn =>
    \/ /\ best.dst = 0
       /\ \A i \in WeighedPlaces : ScoreAt(i) = 0
    \/ \E i \in WeighedPlaces :
         /\ copy[i].node = best.dst /\ ScoreAt(i) > 0
         /\ \A j \in WeighedPlaces :
              ScoreAt(j) <= ScoreAt(i) /\ (j < i => ScoreAt(j) < ScoreAt(i))

\* Whatever copy of the list a race leaves, a node listed in it that packets wait for and
\* that can be reached keeps the answer from being none (basemodelimplHB.cc:1371).
SomeoneServed ==
  pc = "chosen" /\ best.dst = 0 =>
    \A i \in DOMAIN copy : copy[i].rate = 0 \/ backlog[copy[i].node] = 0

\* What the queue manager and the slot's frame rely on: broadcast exactly if three or more
\* broadcasts wait, and otherwise no destination but those in the queue (basemodelimplHB.cc:1357).
ChoiceAsPromised ==
  pc = "chosen" =>
    IF BroadcastBacklogged THEN best.dst = Broadcast
    ELSE best.dst \in {0} \cup (listed \ {Broadcast})

\* Below 10 a node's report is the weight it came into the choice with: the average over
\* counter_ choices is one over a single choice (basemodelimplHB.cc:1391, :1415).
ReportIsLastWeight ==
  pc \in {"weighing", "chosen"} /\ ~torn =>
    \A i \in DOMAIN report :
      LET n == report[i].node IN
      n < 10 /\ Listed(n) => report[i].value = mem[n].lastLast
=============================================================================
