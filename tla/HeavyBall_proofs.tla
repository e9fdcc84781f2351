-------------------------- MODULE HeavyBall_proofs --------------------------
(***************************************************************************)
(* Theorems about HeavyBall, for any nodes, rates, queues and events, and  *)
(* for any number of choices.                                              *)
(***************************************************************************)
EXTENDS HeavyBall, SequenceTheorems, TLAPS

\* What the arrays hold of a node: its weight has not fallen, and lastQueueLength_ is
\* what it was at first.
Sound(m) == m \in Memories /\ m.lastLast <= m.last /\ m.lastQueue = 0

Reports == [node : Nodes, value : Nat]

Shape ==
  /\ holder \in Seq(Entries) /\ initialized \in BOOLEAN /\ torn \in BOOLEAN
  /\ backlog \in [Nodes \cup {Broadcast} -> Nat]
  /\ listed \subseteq Nodes \cup {Broadcast}
  /\ \A d \in Nodes \cup {Broadcast} : backlog[d] > 0 => d \in listed
  /\ mem \in [Nodes -> Memories] /\ \A n \in Nodes : Sound(mem[n])
  /\ pc \in {"idle", "copying", "weighing", "chosen"}
  /\ copy \in Seq(Entries) /\ place \in 1..(Len(copy) + 1)
  /\ best.dst \in {0, Broadcast} \cup Nodes /\ best.score \in Nat
  /\ report \in Seq(Reports)
  /\ calls \in Nat

\* The list is only there while its nodes are weighed and the answer is used; it lists
\* each node once, unless it was torn.
ListInv ==
  /\ pc \in {"idle", "copying"} => copy = <<>> /\ best = NoBest
  /\ pc = "chosen" => place = Len(copy) + 1
  /\ pc \in {"copying", "weighing"} => ~BroadcastBacklogged
  /\ pc \in {"weighing", "chosen"} /\ ~torn => Distinct(copy)
  /\ Distinct(holder)

\* The answer so far is among the nodes weighed, and none only if no score is positive.
AnswerInv ==
  /\ pc \in {"weighing", "chosen"} =>
       IF BroadcastBacklogged THEN best.dst = Broadcast
       ELSE best.dst \in {0} \cup (listed \ {Broadcast})
  /\ best.dst = 0 =>
       /\ best.score = 0
       /\ \A i \in 1..(place - 1) : copy[i].rate = 0 \/ backlog[copy[i].node] = 0

Inv == Shape /\ ListInv /\ AnswerInv

-----------------------------------------------------------------------------
(* Weights                                                                 *)

LEMMA ScaledNat ==
  ASSUME NEW a \in Nat, NEW b \in Nat, NEW d \in Nat \ {0}
  PROVE  a * b \in Nat /\ (a * b) \div d \in Nat
<1>1. a * b \in Nat
  OBVIOUS
<1> QED
  BY <1>1

\* A weight rises by the queue at least.
LEMMA WeightRises ==
  ASSUME NEW m, Sound(m), NEW packets \in Nat
  PROVE  /\ Weight(m, packets) \in Nat
         /\ Weight(m, packets) >= m.last + Scale * packets
<1> DEFINE q == Scale * packets
           x == m.last - m.lastLast + q + m.lastLastQueue - 2 * m.lastQueue
<1>1. m.last \in Nat /\ m.lastLast \in Nat /\ m.lastLastQueue \in Nat
      /\ m.lastQueue = 0 /\ m.lastLast <= m.last
  BY DEF Sound, Memories
<1>2. q \in Nat
  BY HeavyAssumption, ScaledNat
<1> HIDE DEF q
<1>3. x \in Nat
  BY <1>1, <1>2
<1> HIDE DEF x
<1>4. (BetaNum * x) \div BetaDen \in Nat
  BY <1>3, HeavyAssumption, ScaledNat
<1>5. Weight(m, packets) = NonNegative(m.last + q - m.lastQueue + (BetaNum * x) \div BetaDen)
  BY DEF Weight, q, x
<1>6. PICK y \in Nat : y = (BetaNum * x) \div BetaDen
  BY <1>4
<1>7. Weight(m, packets) = m.last + q + y
  BY <1>1, <1>2, <1>5, <1>6 DEF NonNegative
<1> QED
  BY <1>1, <1>2, <1>6, <1>7 DEF q

LEMMA RememberedSound ==
  ASSUME NEW m, Sound(m), NEW packets \in Nat
  PROVE  /\ Sound(Remembered(m, packets))
         /\ Remembered(m, packets).last = Weight(m, packets)
         /\ Remembered(m, packets).lastLast = m.last
<1>1. /\ Weight(m, packets) \in Nat
      /\ Weight(m, packets) >= m.last + Scale * packets
  BY WeightRises
<1>2. Scale * packets \in Nat
  BY HeavyAssumption, ScaledNat
<1>3. m \in Memories /\ m.lastQueue = 0
  BY DEF Sound
<1>4. m.last + m.total \in Nat /\ m.total + m.last \in Nat /\ m.last \in Nat
  BY <1>3 DEF Memories
<1>5. Remembered(m, packets) =
        [last |-> Weight(m, packets), lastLast |-> m.last, lastQueue |-> m.lastQueue,
         lastLastQueue |-> Scale * packets, total |-> m.total + m.last]
  BY DEF Remembered
<1>6. m.last <= Weight(m, packets)
  BY <1>1, <1>2, <1>4
<1> QED
  BY <1>1, <1>2, <1>3, <1>4, <1>5, <1>6 DEF Sound, Memories

\* A node with packets that can be reached scores.
LEMMA ScorePositive ==
  ASSUME NEW r \in Nat, NEW w \in Nat
  PROVE  r * w \in Nat /\ (r # 0 /\ w # 0 => r * w > 0)
OBVIOUS

\* The totals go, the weights stay.
LEMMA ResetFacts ==
  ASSUME mem \in [Nodes -> Memories], \A n \in Nodes : Sound(mem[n])
  PROVE  /\ TotalsReset(mem) \in [Nodes -> Memories]
         /\ \A n \in Nodes : /\ Sound(TotalsReset(mem)[n])
                             /\ TotalsReset(mem)[n].last = mem[n].last
                             /\ TotalsReset(mem)[n].lastLast = mem[n].lastLast
<1>1. \A n \in Nodes : TotalsReset(mem)[n] =
        IF n < 10 THEN [mem[n] EXCEPT !.total = 0] ELSE mem[n]
  BY DEF TotalsReset
<1>2. ASSUME NEW m \in Memories
      PROVE  /\ [m EXCEPT !.total = 0] \in Memories
             /\ [m EXCEPT !.total = 0].last = m.last
             /\ [m EXCEPT !.total = 0].lastLast = m.lastLast
             /\ [m EXCEPT !.total = 0].lastQueue = m.lastQueue
  BY DEF Memories
<1>3. \A n \in Nodes : /\ TotalsReset(mem)[n] \in Memories
                       /\ TotalsReset(mem)[n].last = mem[n].last
                       /\ TotalsReset(mem)[n].lastLast = mem[n].lastLast
                       /\ TotalsReset(mem)[n].lastQueue = mem[n].lastQueue
  BY <1>1, <1>2
<1>4. TotalsReset(mem) \in [Nodes -> Memories]
  BY <1>3 DEF TotalsReset
<1> QED
  BY <1>3, <1>4 DEF Sound

-----------------------------------------------------------------------------
(* The invariant                                                           *)

LEMMA NothingTyped ==
  /\ <<>> \in Seq(Entries) /\ <<>> \in Seq(Reports) /\ 1 \in 1..(Len(<<>>) + 1)
  /\ NoBest.dst = 0 /\ NoBest.score = 0
BY DEF NoBest

LEMMA InitInv == Init => Inv
<1> SUFFICES ASSUME Init PROVE Inv
  OBVIOUS
<1>1. Sound(NoMemory) /\ NoMemory \in Memories
  BY DEF Sound, NoMemory, Memories
<1>2. mem \in [Nodes -> Memories] /\ \A n \in Nodes : Sound(mem[n])
  BY <1>1 DEF Init
<1>5. backlog \in [Nodes \cup {Broadcast} -> Nat]
      /\ \A d \in Nodes \cup {Broadcast} : backlog[d] = 0
  BY DEF Init
<1>6. Shape
  <2>1. holder \in Seq(Entries) /\ copy \in Seq(Entries) /\ report \in Seq(Reports)
    BY NothingTyped DEF Init
  <2>2. place \in 1..(Len(copy) + 1) /\ best.dst = 0 /\ best.score = 0
    BY NothingTyped DEF Init
  <2>3. initialized \in BOOLEAN /\ torn \in BOOLEAN /\ calls = 0 /\ listed = {} /\ pc = "idle"
    BY DEF Init
  <2> QED
    BY <1>2, <1>5, <2>1, <2>2, <2>3 DEF Shape
<1>3. ListInv
  BY DEF Init, ListInv, Distinct
<1>4. AnswerInv
  BY DEF Init, AnswerInv, NoBest
<1> QED
  BY <1>3, <1>4, <1>6 DEF Inv

\* Entries of events are entries.
LEMMA EntriesTyped ==
  /\ EntriesOf(PathlossEvents) \subseteq Entries
  /\ \A c \in TornCopies : c \in Seq(Entries)
<1>1. EntriesOf(PathlossEvents) \subseteq Entries
  BY HeavyAssumption DEF EntriesOf
<1>2. ASSUME NEW n \in 0..TornLength, NEW c \in [1..n -> EntriesOf(PathlossEvents)]
      PROVE  c \in Seq(Entries)
  <2>1. n \in Nat /\ c \in [1..n -> Entries]
    BY <1>1, HeavyAssumption
  <2> QED
    BY <2>1
<1> QED
  BY <1>1, <1>2 DEF TornCopies

LEMMA EventStep ==
  ASSUME Inv, NEW ev \in PathlossEvents, PathlossEvent(ev)
  PROVE  Inv'
<1>1. ev \in Seq(Entries) /\ Distinct(ev)
  BY HeavyAssumption
<1>2. /\ holder' = ev /\ initialized' = TRUE /\ torn' = (torn \/ pc = "copying")
      /\ UNCHANGED <<backlog, listed, mem, pc, copy, place, best, report, calls>>
  BY DEF PathlossEvent, queueVars, callVars
<1>3. Shape'
  BY <1>1, <1>2 DEF Inv, Shape
<1>4. ListInv'
  BY <1>1, <1>2 DEF Inv, ListInv, Shape, BroadcastBacklogged, Distinct
<1>5. AnswerInv'
  BY <1>2 DEF Inv, AnswerInv, BroadcastBacklogged
<1> QED
  BY <1>3, <1>4, <1>5 DEF Inv

LEMMA ArriveStep ==
  ASSUME Inv, NEW d \in Nodes \cup {Broadcast}, Arrive(d)
  PROVE  Inv'
<1>1. /\ pc = "idle" /\ backlog' = [backlog EXCEPT ![d] = @ + 1] /\ listed' = listed \cup {d}
      /\ UNCHANGED <<holder, initialized, torn, mem, pc, copy, place, best, report, calls>>
  BY DEF Arrive, callVars
<1>2. Shape'
  BY <1>1 DEF Inv, Shape
<1>3. ListInv'
  BY <1>1 DEF Inv, ListInv, Distinct
<1>4. place = 1
  BY <1>1 DEF Inv, Shape, ListInv
<1>5. AnswerInv'
  BY <1>1, <1>4 DEF Inv, ListInv, AnswerInv
<1> QED
  BY <1>2, <1>3, <1>5 DEF Inv

LEMMA ServeStep ==
  ASSUME Inv, Serve
  PROVE  Inv'
<1>0. PICK d \in IF best.dst = 0 THEN DOMAIN backlog ELSE {best.dst} :
        \E n \in 0..backlog[d] :
          /\ backlog' = [backlog EXCEPT ![d] = n]
          /\ listed' = listed \/ (n = 0 /\ listed' = listed \ {d})
  BY DEF Serve
<1>1. PICK n \in 0..backlog[d] :
        /\ backlog' = [backlog EXCEPT ![d] = n]
        /\ listed' = listed \/ (n = 0 /\ listed' = listed \ {d})
  BY <1>0
<1>2. /\ pc' = "idle" /\ torn' = FALSE /\ copy' = <<>> /\ place' = 1 /\ best' = NoBest
      /\ report' = <<>> /\ UNCHANGED <<holder, initialized, mem, calls>>
  BY DEF Serve
<1>3. d \in Nodes \cup {Broadcast} /\ n \in Nat
  BY <1>0, <1>1 DEF Inv, Shape
<1>4. backlog' \in [Nodes \cup {Broadcast} -> Nat]
  BY <1>1, <1>3 DEF Inv, Shape
<1>5. \A e \in Nodes \cup {Broadcast} : backlog'[e] > 0 => e \in listed'
  BY <1>1, <1>3 DEF Inv, Shape
<1>6. listed' \subseteq Nodes \cup {Broadcast}
  BY <1>1 DEF Inv, Shape
<1>7. Shape'
  <2>1. holder' \in Seq(Entries) /\ copy' \in Seq(Entries) /\ report' \in Seq(Reports)
    BY <1>2, NothingTyped DEF Inv, Shape
  <2>2. place' \in 1..(Len(copy') + 1) /\ best'.dst = 0 /\ best'.score = 0
    BY <1>2, NothingTyped
  <2>3. initialized' \in BOOLEAN /\ torn' \in BOOLEAN /\ calls' \in Nat /\ pc' = "idle"
    BY <1>2 DEF Inv, Shape
  <2>4. mem' \in [Nodes -> Memories] /\ \A e \in Nodes : Sound(mem'[e])
    BY <1>2 DEF Inv, Shape
  <2> QED
    BY <1>4, <1>5, <1>6, <2>1, <2>2, <2>3, <2>4 DEF Shape
<1>8. ListInv'
  BY <1>2 DEF Inv, ListInv, Distinct
<1>9. AnswerInv'
  BY <1>2 DEF AnswerInv, NoBest
<1> QED
  BY <1>7, <1>8, <1>9 DEF Inv

LEMMA StartStep ==
  ASSUME Inv, AnswerBroadcast \/ AnswerUninitialized \/ BeginCopy
  PROVE  Inv'
<1>1. /\ pc = "idle" /\ calls' = calls + 1
      /\ UNCHANGED <<holder, initialized, torn, backlog, listed, mem, copy, place, report>>
  BY DEF AnswerBroadcast, AnswerUninitialized, BeginCopy, StartCall, queueVars
<1>2. copy = <<>> /\ place = 1
  BY <1>1 DEF Inv, Shape, ListInv
<1>3. \/ BroadcastBacklogged /\ pc' = "chosen" /\ best' = [dst |-> Broadcast, score |-> 0]
      \/ ~BroadcastBacklogged /\ pc' \in {"copying", "chosen"} /\ best' = NoBest
         /\ (pc' = "chosen" \/ pc' = "copying")
  BY DEF AnswerBroadcast, AnswerUninitialized, BeginCopy, NoBest
<1>4. best'.dst \in {0, Broadcast} /\ best'.score = 0
  BY <1>3 DEF NoBest
<1>5. Shape'
  BY <1>1, <1>3, <1>4 DEF Inv, Shape
<1>6. ListInv'
  BY <1>1, <1>2, <1>3 DEF Inv, ListInv, BroadcastBacklogged, Distinct
<1>7. BroadcastBacklogged' <=> BroadcastBacklogged
  BY <1>1 DEF BroadcastBacklogged
<1>8. AnswerInv'
  BY <1>1, <1>2, <1>3, <1>4, <1>7, HeavyAssumption DEF AnswerInv, NoBest
<1> QED
  BY <1>5, <1>6, <1>8 DEF Inv

LEMMA FinishStep ==
  ASSUME Inv, FinishCopy
  PROVE  Inv'
<1>1. /\ pc = "copying" /\ pc' = "weighing"
      /\ copy' \in IF torn THEN TornCopies ELSE {holder}
      /\ UNCHANGED <<holder, initialized, torn, backlog, listed, mem, place, best, report, calls>>
  BY DEF FinishCopy, queueVars
<1>2. copy' \in Seq(Entries)
  BY <1>1, EntriesTyped DEF Inv, Shape
<1>3. place = 1 /\ best = NoBest
  BY <1>1 DEF Inv, Shape, ListInv
<1>4. Shape'
  BY <1>1, <1>2, <1>3 DEF Inv, Shape
<1>5. ListInv'
  BY <1>1, <1>2, <1>3 DEF Inv, ListInv, BroadcastBacklogged, Distinct
<1>6. AnswerInv'
  BY <1>1, <1>3 DEF Inv, ListInv, AnswerInv, BroadcastBacklogged, NoBest
<1> QED
  BY <1>4, <1>5, <1>6 DEF Inv

\* The entry the iterator is at.
LEMMA EntryFacts ==
  ASSUME Inv, pc = "weighing", place <= Len(copy)
  PROVE  /\ place \in 1..Len(copy) /\ Len(copy) \in Nat
         /\ Entry = copy[place] /\ Entry \in Entries
         /\ Entry.node \in Nodes /\ Entry.rate \in Nat
         /\ NextEntry \in 1..(Len(copy) + 1) /\ 1..(NextEntry - 1) = 1..(place - 1) \cup {place}
<1>1. copy \in Seq(Entries) /\ place \in 1..(Len(copy) + 1)
  BY DEF Inv, Shape
<1>2. place \in 1..Len(copy) /\ Len(copy) \in Nat
  BY <1>1
<1>3. Entry \in Entries /\ Entry = copy[place]
  BY <1>1, <1>2 DEF Entry
<1> QED
  BY <1>2, <1>3 DEF Entries, NextEntry

LEMMA SkipStep ==
  ASSUME Inv, SkipNext
  PROVE  Inv'
<1>1. /\ pc = "weighing" /\ place <= Len(copy) /\ Entry.node \notin listed
      /\ report' = Append(report, [node |-> Entry.node, value |-> 0])
      /\ place' = NextEntry
      /\ UNCHANGED <<holder, initialized, torn, backlog, listed, mem, pc, copy, best, calls>>
  BY DEF SkipNext, Listed, queueVars
<1>2. /\ Entry = copy[place] /\ Entry.node \in Nodes
      /\ NextEntry \in 1..(Len(copy) + 1) /\ 1..(NextEntry - 1) = 1..(place - 1) \cup {place}
  BY <1>1, EntryFacts
<1>3. report' \in Seq(Reports)
  BY <1>1, <1>2 DEF Inv, Shape, Reports
<1>4. Shape'
  BY <1>1, <1>2, <1>3 DEF Inv, Shape
<1>5. ListInv'
  BY <1>1 DEF Inv, ListInv, BroadcastBacklogged, Distinct
<1>6. backlog[Entry.node] = 0
  BY <1>1, <1>2 DEF Inv, Shape
<1>7. AnswerInv'
  BY <1>1, <1>2, <1>6 DEF Inv, AnswerInv, BroadcastBacklogged
<1> QED
  BY <1>4, <1>5, <1>7 DEF Inv

\* What a node's turn makes of its memory and of the answer.
LEMMA WeighFacts ==
  ASSUME Inv, WeighNext
  PROVE  LET n == Entry.node
             m == Remembered(mem[n], backlog[n])
             score == Score(Entry, m)
         IN /\ pc = "weighing" /\ place <= Len(copy) /\ n \in listed /\ n \in Nodes
            /\ Sound(m) /\ m.lastLast = mem[n].last
            /\ m.last >= mem[n].last + Scale * backlog[n]
            /\ mem' = [mem EXCEPT ![n] = m]
            /\ report' = Append(report, [node |-> n, value |-> m.total])
            /\ score \in Nat
            /\ best' = IF score > best.score THEN [dst |-> n, score |-> score] ELSE best
            /\ score = 0 => Entry.rate = 0 \/ backlog[n] = 0
<1> DEFINE n == Entry.node
           m == Remembered(mem[n], backlog[n])
           score == Score(Entry, m)
<1>1. /\ pc = "weighing" /\ place <= Len(copy) /\ n \in listed
      /\ mem' = [mem EXCEPT ![n] = m]
      /\ report' = Append(report, [node |-> n, value |-> m.total])
      /\ best' = IF score > best.score THEN [dst |-> n, score |-> score] ELSE best
  BY DEF WeighNext, Listed, Better
<1>2. n \in Nodes /\ Entry.rate \in Nat
  BY <1>1, EntryFacts
<1>3. Sound(mem[n]) /\ backlog[n] \in Nat
  BY <1>2 DEF Inv, Shape
<1>4. /\ Sound(m) /\ m.last = Weight(mem[n], backlog[n]) /\ m.lastLast = mem[n].last
      /\ m.last >= mem[n].last + Scale * backlog[n]
  BY <1>3, RememberedSound, WeightRises
<1> HIDE DEF m
<1>5. m.last \in Nat /\ mem[n].last \in Nat
  BY <1>3, <1>4 DEF Sound, Memories
<1>6. Scale * backlog[n] \in Nat /\ (backlog[n] # 0 => Scale * backlog[n] > 0)
  BY <1>3, HeavyAssumption, ScorePositive
<1>7. backlog[n] # 0 => m.last # 0
  BY <1>4, <1>5, <1>6
<1>8. score \in Nat /\ (score = 0 => Entry.rate = 0 \/ m.last = 0)
  <2>1. score = Entry.rate * m.last
    BY DEF Score
  <2>2. PICK r \in Nat, w \in Nat : r = Entry.rate /\ w = m.last
    BY <1>2, <1>5
  <2>3. r * w \in Nat /\ (r # 0 /\ w # 0 => r * w > 0)
    BY ScorePositive
  <2>4. r * w = 0 => r = 0 \/ w = 0
    BY <2>3
  <2>5. score = r * w
    BY <2>1, <2>2, Zenon
  <2> QED
    BY <2>2, <2>3, <2>4, <2>5
<1> QED
  BY <1>1, <1>2, <1>4, <1>7, <1>8 DEF m

LEMMA WeighStep ==
  ASSUME Inv, WeighNext
  PROVE  Inv'
<1> DEFINE n == Entry.node
           m == Remembered(mem[n], backlog[n])
           score == Score(Entry, m)
<1>1. /\ pc = "weighing" /\ place <= Len(copy) /\ n \in listed /\ n \in Nodes
      /\ Sound(m) /\ mem' = [mem EXCEPT ![n] = m]
      /\ report' = Append(report, [node |-> n, value |-> m.total])
      /\ score \in Nat
      /\ best' = IF score > best.score THEN [dst |-> n, score |-> score] ELSE best
      /\ score = 0 => Entry.rate = 0 \/ backlog[n] = 0
  BY WeighFacts
<1>2. /\ place' = NextEntry
      /\ UNCHANGED <<holder, initialized, torn, backlog, listed, pc, copy, calls>>
  BY DEF WeighNext, queueVars
<1>3. /\ Entry = copy[place]
      /\ NextEntry \in 1..(Len(copy) + 1) /\ 1..(NextEntry - 1) = 1..(place - 1) \cup {place}
  BY <1>1, EntryFacts
<1> HIDE DEF m, score
<1>4. m \in Memories /\ m.total \in Nat
  BY <1>1 DEF Sound, Memories
<1>5. report' \in Seq(Reports)
  BY <1>1, <1>4 DEF Inv, Shape, Reports
<1>6. mem' \in [Nodes -> Memories] /\ \A k \in Nodes : Sound(mem'[k])
  <2>1. mem \in [Nodes -> Memories] /\ \A k \in Nodes : Sound(mem[k])
    BY DEF Inv, Shape
  <2>2. \A k \in Nodes : mem'[k] = IF k = n THEN m ELSE mem[k]
    BY <1>1, <2>1
  <2> QED
    BY <1>1, <1>4, <2>1, <2>2
<1>7. best'.dst \in {0, Broadcast} \cup Nodes /\ best'.score \in Nat
  BY <1>1 DEF Inv, Shape
<1>8. Shape'
  BY <1>1, <1>2, <1>3, <1>5, <1>6, <1>7 DEF Inv, Shape
<1>9. ListInv'
  BY <1>1, <1>2 DEF Inv, ListInv, BroadcastBacklogged, Distinct
<1>10. n # 0 /\ n # Broadcast
  BY <1>1, HeavyAssumption
<1>11. best'.dst = 0 => best' = best /\ score = 0
  BY <1>1, <1>10 DEF Inv, Shape, AnswerInv
<1>12. ~BroadcastBacklogged /\ ~BroadcastBacklogged'
  BY <1>1, <1>2 DEF Inv, ListInv, BroadcastBacklogged
<1>13. best'.dst \in {0} \cup (listed \ {Broadcast})
  BY <1>1, <1>10, <1>12 DEF Inv, AnswerInv
<1>14. AnswerInv'
  BY <1>1, <1>2, <1>3, <1>11, <1>12, <1>13 DEF Inv, AnswerInv
<1> QED
  BY <1>8, <1>9, <1>14 DEF Inv

LEMMA EndStep ==
  ASSUME Inv, EndCall
  PROVE  Inv'
<1>1. /\ pc = "weighing" /\ place > Len(copy) /\ mem' = TotalsReset(mem) /\ pc' = "chosen"
      /\ UNCHANGED <<holder, initialized, torn, backlog, listed, copy, place, best, report, calls>>
  BY DEF EndCall, queueVars
<1>2. mem' \in [Nodes -> Memories] /\ \A n \in Nodes : Sound(mem'[n])
  BY <1>1, ResetFacts DEF Inv, Shape
<1>3. Shape'
  BY <1>1, <1>2 DEF Inv, Shape
<1>4. place = Len(copy) + 1
  BY <1>1 DEF Inv, Shape
<1>5. ListInv'
  BY <1>1, <1>4 DEF Inv, ListInv, BroadcastBacklogged, Distinct
<1>6. AnswerInv'
  BY <1>1 DEF Inv, AnswerInv, BroadcastBacklogged
<1> QED
  BY <1>3, <1>5, <1>6 DEF Inv

LEMMA InvStep == Inv /\ [Next]_vars => Inv'
<1> SUFFICES ASSUME Inv, [Next]_vars PROVE Inv'
  OBVIOUS
<1>1. CASE UNCHANGED vars
  <2>1. UNCHANGED <<holder, initialized, torn, backlog, listed, mem, pc, copy, place, best,
                    report, calls>>
    BY <1>1 DEF vars, queueVars, callVars
  <2> QED
    BY <2>1 DEF Inv, Shape, ListInv, AnswerInv, BroadcastBacklogged, Distinct
<1>2. CASE Next
  BY <1>2, EventStep, ArriveStep, ServeStep, StartStep, FinishStep, SkipStep, WeighStep, EndStep
     DEF Next
<1> QED
  BY <1>1, <1>2

LEMMA Invariance == Spec => []Inv
BY InitInv, InvStep, PTL DEF Spec

-----------------------------------------------------------------------------
(* Theorems                                                                *)

\* The state is well typed, whatever events, queues and races there are.
THEOREM Typing == Spec => []TypeOK
<1>1. Inv => TypeOK
  BY DEF Inv, Shape, TypeOK, Reports
<1> QED
  BY <1>1, Invariance, PTL

\* Whatever list a choice is made from, torn ones included, it is broadcast exactly if
\* that is backlogged, and otherwise none or a destination of the queue's.
THEOREM ChoiceKeepsPromise == Spec => []ChoiceAsPromised
<1>1. Inv => ChoiceAsPromised
  BY DEF Inv, AnswerInv, ChoiceAsPromised
<1> QED
  BY <1>1, Invariance, PTL

\* No choice is none while a node it could reach and weigh has packets waiting.
THEOREM SomeoneIsServed == Spec => []SomeoneServed
<1>1. Inv => SomeoneServed
  <2> SUFFICES ASSUME Inv, pc = "chosen", best.dst = 0, NEW i \in DOMAIN copy
               PROVE  copy[i].rate = 0 \/ backlog[copy[i].node] = 0
    BY DEF SomeoneServed
  <2>1. i \in 1..(place - 1)
    BY DEF Inv, Shape, ListInv
  <2> QED
    BY <2>1 DEF Inv, AnswerInv
<1> QED
  BY <1>1, Invariance, PTL

\* A node's weight never falls, for any number of choices.
THEOREM WeightsOnlyRise == Spec => WeightsNeverFall
<1> DEFINE Rises == \A n \in Nodes :
       mem'[n].last # mem[n].last \/ mem'[n].lastLast # mem[n].lastLast =>
         mem'[n].last >= mem[n].last + Scale * backlog[n]
<1>1. Inv /\ [Next]_vars => Rises
  <2> SUFFICES ASSUME Inv, [Next]_vars PROVE Rises
    OBVIOUS
  <2>1. CASE UNCHANGED mem
    BY <2>1
  <2>2. CASE WeighNext
    <3> DEFINE e == Entry.node
               m == Remembered(mem[e], backlog[e])
    <3>1. /\ mem' = [mem EXCEPT ![e] = m] /\ e \in Nodes
          /\ m.last >= mem[e].last + Scale * backlog[e]
      BY <2>2, WeighFacts
    <3>2. mem \in [Nodes -> Memories]
      BY DEF Inv, Shape
    <3> HIDE DEF m
    <3> QED
      BY <3>1, <3>2
  <2>3. CASE EndCall
    BY <2>3, ResetFacts DEF EndCall, Inv, Shape
  <2>4. UNCHANGED mem \/ WeighNext \/ EndCall
    BY DEF Next, vars, PathlossEvent, Arrive, AnswerBroadcast, AnswerUninitialized, BeginCopy,
           StartCall, FinishCopy, SkipNext, Serve
  <2> QED
    BY <2>1, <2>2, <2>3, <2>4
<1> QED
  BY <1>1, Invariance, PTL DEF Spec, WeightsNeverFall

-----------------------------------------------------------------------------
(* The greatest score                                                      *)

\* The answer so far, of the places weighed so far.
HeaviestSoFar ==
  pc \in {"weighing", "chosen"} /\ ~torn /\ copy # <<>> =>
    \/ /\ best.dst = 0 /\ best.score = 0
       /\ \A i \in WeighedPlaces : ScoreAt(i) = 0
    \/ \E i \in WeighedPlaces :
         /\ copy[i].node = best.dst /\ best.score = ScoreAt(i) /\ ScoreAt(i) > 0
         /\ \A j \in WeighedPlaces :
              ScoreAt(j) <= ScoreAt(i) /\ (j < i => ScoreAt(j) < ScoreAt(i))

LEMMA ScoresTyped ==
  ASSUME Inv, NEW i \in WeighedPlaces
  PROVE  /\ i \in 1..Len(copy) /\ i < place /\ copy[i].node \in Nodes
         /\ ScoreAt(i) \in Nat
<1>1. i \in 1..Len(copy) /\ i < place
  BY DEF WeighedPlaces, Inv, Shape
<1>2. copy[i] \in Entries
  BY <1>1 DEF Inv, Shape
<1>3. copy[i].node \in Nodes /\ copy[i].rate \in Nat
  BY <1>2 DEF Entries
<1>4. mem[copy[i].node].last \in Nat
  BY <1>3 DEF Inv, Shape, Memories
<1>5. copy[i].rate * mem[copy[i].node].last \in Nat
  BY <1>3, <1>4, ScorePositive
<1> QED
  BY <1>1, <1>3, <1>5 DEF ScoreAt, Score

LEMMA HeaviestWeigh ==
  ASSUME Inv, HeaviestSoFar, WeighNext
  PROVE  HeaviestSoFar'
<1> SUFFICES ASSUME ~torn, copy # <<>>
             PROVE  HeaviestSoFar'
  BY DEF HeaviestSoFar, WeighNext
<1> DEFINE n == Entry.node
           m == Remembered(mem[n], backlog[n])
           score == Score(Entry, m)
<1>1. /\ pc = "weighing" /\ place <= Len(copy) /\ n \in listed /\ n \in Nodes
      /\ mem' = [mem EXCEPT ![n] = m]
      /\ score \in Nat
      /\ best' = IF score > best.score THEN [dst |-> n, score |-> score] ELSE best
  BY WeighFacts
<1>2. /\ Entry = copy[place] /\ place \in 1..Len(copy)
      /\ 1..(NextEntry - 1) = 1..(place - 1) \cup {place}
  BY <1>1, EntryFacts
<1>3. /\ place' = NextEntry /\ copy' = copy /\ listed' = listed /\ torn' = torn /\ pc' = pc
  BY DEF WeighNext, queueVars
<1>9. PICK p \in Nat : p = place
  BY <1>2
<1>4. WeighedPlaces' = WeighedPlaces \cup {p}
  BY <1>1, <1>2, <1>3, <1>9 DEF WeighedPlaces, Listed
<1>5. ScoreAt(p)' = score
  <2>1. mem'[n] = m
    BY <1>1 DEF Inv, Shape
  <2> QED
    BY <1>2, <1>3, <1>9, <2>1 DEF ScoreAt, Score
<1>6. ASSUME NEW i \in WeighedPlaces PROVE ScoreAt(i)' = ScoreAt(i)
  <2>1. i \in 1..Len(copy) /\ i < place /\ copy[i].node \in Nodes
    BY ScoresTyped
  <2>2. copy[i].node # n
    BY <1>1, <1>2, <2>1 DEF Inv, ListInv, Distinct
  <2>3. mem'[copy[i].node] = mem[copy[i].node]
    BY <1>1, <2>1, <2>2 DEF Inv, Shape
  <2> QED
    BY <1>3, <2>3 DEF ScoreAt, Score
<1> HIDE DEF score
<1> DEFINE S(i) == ScoreAt(i)
           T(i) == ScoreAt(i)'
<1>7. /\ \A i \in WeighedPlaces : T(i) = S(i) /\ S(i) \in Nat /\ i < p /\ i \in Nat
      /\ T(p) = score
  BY <1>5, <1>6, <1>9, ScoresTyped
<1>8. best.score \in Nat /\ best'.score \in Nat
  BY <1>1 DEF Inv, Shape
<1>10. \/ best.dst = 0 /\ best.score = 0 /\ \A i \in WeighedPlaces : S(i) = 0
       \/ \E i \in WeighedPlaces :
            /\ copy[i].node = best.dst /\ best.score = S(i) /\ S(i) > 0
            /\ \A j \in WeighedPlaces : S(j) <= S(i) /\ (j < i => S(j) < S(i))
  BY <1>1 DEF HeaviestSoFar
<1>11. \A j \in WeighedPlaces : S(j) <= best.score
  BY <1>7, <1>8, <1>10
<1>12. CASE score > best.score
  <2>1. best'.dst = n /\ best'.score = score /\ n = copy[p].node
    BY <1>1, <1>2, <1>9, <1>12
  <2> HIDE DEF S, T, n
  <2>2. \A j \in WeighedPlaces : T(j) < T(p)
    <3>1. score \in Nat
      BY <1>1
    <3> SUFFICES ASSUME NEW j \in WeighedPlaces PROVE T(j) < T(p)
      OBVIOUS
    <3>2. T(j) \in Nat /\ T(j) <= best.score /\ T(p) = score
      BY <1>7, <1>11
    <3> QED
      BY <1>8, <1>12, <3>1, <3>2
  <2>3. \A j \in WeighedPlaces \cup {p} :
          T(j) <= T(p) /\ (j < p => T(j) < T(p))
    BY <1>7, <1>9, <2>2, <1>1
  <2>4. T(p) > 0
    BY <1>1, <1>7, <1>8, <1>12
  <2> QED
    BY <1>3, <1>4, <1>7, <2>1, <2>3, <2>4 DEF HeaviestSoFar, T
<1>13. CASE ~(score > best.score)
  <2>1. best' = best /\ score <= best.score
    BY <1>1, <1>8, <1>13
  <2>2. CASE best.dst = 0 /\ best.score = 0 /\ \A i \in WeighedPlaces : S(i) = 0
    <3>1. score = 0
      BY <1>1, <2>1, <2>2
    <3>2. \A i \in WeighedPlaces \cup {p} : T(i) = 0
      BY <1>7, <2>2, <3>1
    <3> QED
      BY <1>4, <2>1, <2>2, <3>2 DEF HeaviestSoFar
  <2>3. ASSUME NEW i \in WeighedPlaces,
               copy[i].node = best.dst /\ best.score = S(i) /\ S(i) > 0,
               \A j \in WeighedPlaces : S(j) <= S(i) /\ (j < i => S(j) < S(i))
        PROVE  HeaviestSoFar'
    <3>1. T(i) = S(i) /\ T(i) > 0 /\ i < p
      BY <1>7, <2>3
    <3> HIDE DEF S, T
    <3>2. \A j \in WeighedPlaces \cup {p} : T(j) <= T(i) /\ (j < i => T(j) < T(i))
      BY <1>7, <1>9, <2>1, <2>3, <3>1
    <3> QED
      BY <1>3, <1>4, <2>1, <2>3, <3>1, <3>2 DEF HeaviestSoFar, T, S
  <2> QED
    BY <1>10, <2>2, <2>3
<1> QED
  BY <1>12, <1>13

LEMMA HeaviestStep == Inv /\ HeaviestSoFar /\ [Next]_vars => HeaviestSoFar'
<1> SUFFICES ASSUME Inv, HeaviestSoFar, [Next]_vars PROVE HeaviestSoFar'
  OBVIOUS
<1>1. CASE UNCHANGED <<torn, listed, mem, pc, copy, place, best>>
  BY <1>1 DEF HeaviestSoFar, WeighedPlaces, Listed, ScoreAt
<1>2. ASSUME NEW ev \in PathlossEvents, PathlossEvent(ev) PROVE HeaviestSoFar'
  <2>1. /\ torn' = (torn \/ pc = "copying")
        /\ UNCHANGED <<listed, mem, pc, copy, place, best>>
    BY <1>2 DEF PathlossEvent, queueVars, callVars
  <2>2. pc = "copying" \/ torn' = torn
    BY <2>1 DEF Inv, Shape
  <2> QED
    BY <2>1, <2>2 DEF HeaviestSoFar, WeighedPlaces, Listed, ScoreAt
<1>3. ASSUME NEW d \in Nodes \cup {Broadcast}, Arrive(d) PROVE HeaviestSoFar'
  BY <1>3 DEF Arrive, callVars, HeaviestSoFar
<1>4. CASE Serve
  BY <1>4 DEF Serve, HeaviestSoFar
<1>5. CASE AnswerBroadcast \/ AnswerUninitialized \/ BeginCopy
  <2>1. pc = "idle" /\ copy' = copy
    BY <1>5 DEF AnswerBroadcast, AnswerUninitialized, BeginCopy, StartCall
  <2> QED
    BY <2>1 DEF HeaviestSoFar, Inv, ListInv
<1>6. CASE FinishCopy
  <2>1. pc = "copying" /\ place' = place /\ best' = best
    BY <1>6 DEF FinishCopy
  <2>2. copy = <<>> /\ place = 1 /\ best = NoBest
    BY <2>1 DEF Inv, Shape, ListInv
  <2>3. WeighedPlaces' = {}
    BY <2>1, <2>2 DEF WeighedPlaces
  <2> QED
    BY <2>1, <2>2, <2>3, NothingTyped DEF HeaviestSoFar
<1>7. CASE SkipNext
  <2>1. /\ pc = "weighing" /\ place <= Len(copy) /\ Entry.node \notin listed
        /\ place' = NextEntry
        /\ UNCHANGED <<torn, listed, mem, pc, copy, best>>
    BY <1>7 DEF SkipNext, Listed, queueVars
  <2>2. Entry = copy[place] /\ 1..(NextEntry - 1) = 1..(place - 1) \cup {place}
    BY <2>1, EntryFacts
  <2>3. WeighedPlaces' = WeighedPlaces
    BY <2>1, <2>2 DEF WeighedPlaces, Listed
  <2> QED
    BY <2>1, <2>3 DEF HeaviestSoFar, ScoreAt
<1>8. CASE WeighNext
  BY <1>8, HeaviestWeigh
<1>9. CASE EndCall
  <2>1. /\ pc = "weighing" /\ mem' = TotalsReset(mem) /\ pc' = "chosen"
        /\ UNCHANGED <<torn, listed, copy, place, best>>
    BY <1>9 DEF EndCall, queueVars
  <2>2. \A i \in WeighedPlaces : ScoreAt(i)' = ScoreAt(i)
    BY <2>1, ScoresTyped, ResetFacts DEF ScoreAt, Score, Inv, Shape
  <2>3. WeighedPlaces' = WeighedPlaces
    BY <2>1 DEF WeighedPlaces, Listed
  <2> QED
    BY <2>1, <2>2, <2>3 DEF HeaviestSoFar
<1>10. CASE UNCHANGED vars
  BY <1>1, <1>10 DEF vars, queueVars, callVars
<1> QED
  BY <1>2, <1>3, <1>4, <1>5, <1>6, <1>7, <1>8, <1>9, <1>10 DEF Next

\* Unless the list was torn, the answer is the first of the nodes with the greatest
\* positive score, however many nodes and choices there are.
THEOREM HeaviestIsChosen == Spec => []ChosenIsHeaviest
<1>1. Init => HeaviestSoFar
  BY DEF Init, HeaviestSoFar
<1>2. HeaviestSoFar => ChosenIsHeaviest
  BY DEF HeaviestSoFar, ChosenIsHeaviest
<1> QED
  BY <1>1, <1>2, HeaviestStep, Invariance, PTL DEF Spec

-----------------------------------------------------------------------------
(* The report                                                              *)

\* A report has an entry for each place passed; below 10 nothing is left in the totals of
\* nodes that are not weighed yet.
ReportInv ==
  /\ Len(report) = place - 1
  /\ \A i \in 1..(place - 1) : report[i].node = copy[i].node
  /\ \A n \in Nodes :
       n < 10 /\ (pc = "weighing" => ~torn /\ \A i \in 1..(place - 1) : copy[i].node # n) =>
         mem[n].total = 0
  /\ ReportIsLastWeight

LEMMA ReportPlaces ==
  ASSUME Inv, ReportInv
  PROVE  /\ DOMAIN report = 1..(place - 1) /\ place - 1 \in Nat
         /\ \A i \in 1..(place - 1) : i \in 1..Len(copy) /\ copy[i].node \in Nodes
<1>1. /\ report \in Seq(Reports) /\ copy \in Seq(Entries) /\ place \in 1..(Len(copy) + 1)
  BY DEF Inv, Shape
<1>2. DOMAIN report = 1..(place - 1) /\ place - 1 \in Nat
  BY <1>1 DEF ReportInv
<1>3. \A i \in 1..(place - 1) : i \in 1..Len(copy)
  BY <1>1
<1>4. \A i \in 1..Len(copy) : copy[i] \in Entries
  BY <1>1
<1> QED
  BY <1>2, <1>3, <1>4 DEF Entries

LEMMA ReportWeigh ==
  ASSUME Inv, ReportInv, WeighNext
  PROVE  ReportInv'
<1> DEFINE n == Entry.node
           m == Remembered(mem[n], backlog[n])
<1>1. /\ pc = "weighing" /\ place <= Len(copy) /\ n \in listed /\ n \in Nodes
      /\ mem' = [mem EXCEPT ![n] = m] /\ m.lastLast = mem[n].last
      /\ report' = Append(report, [node |-> n, value |-> m.total])
  BY WeighFacts
<1>2. PICK p \in Nat : p = place /\ n = copy[p].node /\ p \in 1..Len(copy)
  BY <1>1, EntryFacts
<1>3. /\ place' = p + 1 /\ UNCHANGED <<torn, listed, pc, copy>>
  BY <1>2 DEF WeighNext, NextEntry, queueVars
<1>4. m.total = mem[n].total + mem[n].last /\ mem[n].last \in Nat
  BY <1>1 DEF Remembered, Inv, Shape, Memories
<1> HIDE DEF m
<1>5. mem'[n] = m /\ \A k \in Nodes : k # n => mem'[k] = mem[k]
  BY <1>1 DEF Inv, Shape
<1>6. DOMAIN report = 1..(p - 1) /\ Len(report) = p - 1 /\ report \in Seq(Reports)
  BY <1>2, ReportPlaces DEF ReportInv, Inv, Shape
<1>7. /\ Len(report') = p /\ DOMAIN report' = 1..p /\ report'[p] = [node |-> n, value |-> m.total]
      /\ \A i \in 1..(p - 1) : report'[i] = report[i]
  BY <1>1, <1>2, <1>6
<1>8. \A i \in 1..p : report'[i].node = copy[i].node
  <2> SUFFICES ASSUME NEW i \in 1..p PROVE report'[i].node = copy[i].node
    OBVIOUS
  <2>1. CASE i = p
    BY <1>2, <1>7, <2>1
  <2>2. CASE i # p
    <3>1. i \in 1..(p - 1)
      BY <1>2, <2>2
    <3> QED
      BY <1>2, <1>7, <3>1 DEF ReportInv
  <2> QED
    BY <2>1, <2>2
<1>9. ASSUME NEW k \in Nodes, k < 10, ~torn, \A i \in 1..p : copy[i].node # k
      PROVE  mem'[k].total = 0
  <2>1. k # n
    BY <1>2, <1>9
  <2>2. \A i \in 1..(place - 1) : copy[i].node # k
    BY <1>2, <1>9
  <2> QED
    BY <1>1, <1>5, <1>9, <2>1, <2>2 DEF ReportInv
<1>10. ASSUME ~torn, NEW i \in 1..p, report'[i].node < 10, report'[i].node \in listed
       PROVE  report'[i].value = mem'[report'[i].node].lastLast
  <2>1. \A j \in 1..(p - 1) : copy[j].node # n
    BY <1>1, <1>2, <1>10 DEF Inv, ListInv, Distinct, Shape
  <2>2. CASE i = p
    <3>1. n < 10 /\ report'[i].node = n /\ report'[i].value = m.total
      BY <1>7, <1>10, <2>2
    <3>2. mem[n].total = 0
      BY <1>1, <1>2, <1>10, <2>1, <3>1 DEF ReportInv
    <3>3. m.total = m.lastLast
      BY <1>1, <1>4, <3>2
    <3> QED
      BY <1>5, <3>1, <3>3
  <2>3. CASE i # p
    <3>1. i \in 1..(p - 1)
      BY <1>2, <2>3
    <3>2. report'[i] = report[i] /\ report[i].node = copy[i].node /\ copy[i].node \in Nodes
      BY <1>2, <1>7, <3>1, ReportPlaces DEF ReportInv
    <3>3. report[i].node # n
      BY <2>1, <3>1, <3>2
    <3>4. report[i].value = mem[report[i].node].lastLast
      BY <1>1, <1>6, <1>10, <3>1, <3>2 DEF ReportInv, ReportIsLastWeight, Listed
    <3> QED
      BY <1>5, <3>2, <3>3, <3>4
  <2> QED
    BY <2>2, <2>3
<1>11. ReportIsLastWeight'
  BY <1>3, <1>7, <1>10 DEF ReportIsLastWeight, Listed
<1>12. place' - 1 = p
  BY <1>2, <1>3
<1> QED
  BY <1>1, <1>3, <1>7, <1>8, <1>9, <1>11, <1>12 DEF ReportInv

LEMMA ReportSkip ==
  ASSUME Inv, ReportInv, SkipNext
  PROVE  ReportInv'
<1> DEFINE n == Entry.node
<1>1. /\ pc = "weighing" /\ place <= Len(copy) /\ n \notin listed
      /\ report' = Append(report, [node |-> n, value |-> 0])
      /\ place' = NextEntry
      /\ UNCHANGED <<torn, listed, mem, pc, copy>>
  BY DEF SkipNext, Listed, queueVars
<1>2. PICK p \in Nat : p = place /\ n = copy[p].node /\ p \in 1..Len(copy)
  BY <1>1, EntryFacts
<1>3. place' = p + 1 /\ place' - 1 = p
  BY <1>1, <1>2 DEF NextEntry
<1>4. DOMAIN report = 1..(p - 1) /\ Len(report) = p - 1 /\ report \in Seq(Reports)
  BY <1>2, ReportPlaces DEF ReportInv, Inv, Shape
<1>5. /\ Len(report') = p /\ DOMAIN report' = 1..p /\ report'[p] = [node |-> n, value |-> 0]
      /\ \A i \in 1..(p - 1) : report'[i] = report[i]
  BY <1>1, <1>2, <1>4
<1>6. \A i \in 1..p : i = p \/ i \in 1..(p - 1)
  BY <1>2
<1>7. \A i \in 1..p : report'[i].node = copy[i].node
  BY <1>2, <1>5, <1>6 DEF ReportInv
<1>8. \A i \in 1..p : report'[i].node \in listed => i \in 1..(p - 1)
  BY <1>1, <1>5, <1>6
<1>9. ReportIsLastWeight'
  BY <1>1, <1>4, <1>5, <1>8 DEF ReportInv, ReportIsLastWeight, Listed
<1>10. 1..(place - 1) \subseteq 1..p
  BY <1>2
<1> QED
  BY <1>1, <1>3, <1>5, <1>7, <1>9, <1>10 DEF ReportInv

LEMMA ReportStep == Inv /\ ReportInv /\ [Next]_vars => ReportInv'
<1> SUFFICES ASSUME Inv, ReportInv, [Next]_vars PROVE ReportInv'
  OBVIOUS
<1>1. CASE UNCHANGED <<torn, listed, mem, pc, copy, place, report>>
  BY <1>1 DEF ReportInv, ReportIsLastWeight, Listed
<1>2. ASSUME NEW ev \in PathlossEvents, PathlossEvent(ev) PROVE ReportInv'
  <2>1. /\ torn' = (torn \/ pc = "copying")
        /\ UNCHANGED <<listed, mem, pc, copy, place, report>>
    BY <1>2 DEF PathlossEvent, queueVars, callVars
  <2>2. pc = "copying" \/ torn' = torn
    BY <2>1 DEF Inv, Shape
  <2> QED
    BY <2>1, <2>2 DEF ReportInv, ReportIsLastWeight, Listed
<1>3. ASSUME NEW d \in Nodes \cup {Broadcast}, Arrive(d) PROVE ReportInv'
  <2>1. pc = "idle" /\ UNCHANGED <<torn, mem, pc, copy, place, report>>
    BY <1>3 DEF Arrive, callVars
  <2> QED
    BY <2>1 DEF ReportInv, ReportIsLastWeight
<1>4. CASE Serve
  <2>1. /\ pc = "chosen" /\ pc' = "idle" /\ place' = 1 /\ report' = <<>> /\ mem' = mem
    BY <1>4 DEF Serve
  <2> QED
    BY <2>1 DEF ReportInv, ReportIsLastWeight
<1>5. CASE AnswerBroadcast \/ AnswerUninitialized \/ BeginCopy
  <2>1. pc = "idle" /\ pc' # "weighing" /\ UNCHANGED <<torn, listed, mem, copy, place, report>>
    BY <1>5 DEF AnswerBroadcast, AnswerUninitialized, BeginCopy, StartCall, queueVars
  <2>2. copy = <<>> /\ place = 1
    BY <2>1 DEF Inv, Shape, ListInv
  <2>3. DOMAIN report = {}
    BY <2>2, ReportPlaces
  <2> QED
    BY <2>1, <2>2, <2>3 DEF ReportInv, ReportIsLastWeight
<1>6. CASE FinishCopy
  <2>1. pc = "copying" /\ UNCHANGED <<torn, listed, mem, place, report>>
    BY <1>6 DEF FinishCopy, queueVars
  <2>2. place = 1
    BY <2>1 DEF Inv, Shape, ListInv
  <2>3. DOMAIN report = {}
    BY <2>2, ReportPlaces
  <2> QED
    BY <2>1, <2>2, <2>3 DEF ReportInv, ReportIsLastWeight
<1>7. CASE SkipNext
  BY <1>7, ReportSkip
<1>8. CASE WeighNext
  BY <1>8, ReportWeigh
<1>9. CASE EndCall
  <2>1. /\ pc = "weighing" /\ mem' = TotalsReset(mem) /\ pc' = "chosen"
        /\ UNCHANGED <<torn, listed, copy, place, report>>
    BY <1>9 DEF EndCall, queueVars
  <2>2. \A n \in Nodes : n < 10 => mem'[n].total = 0
    BY <2>1 DEF TotalsReset, Inv, Shape, Memories
  <2>3. \A n \in Nodes : mem'[n].lastLast = mem[n].lastLast
    BY <2>1, ResetFacts DEF Inv, Shape
  <2>4. \A i \in DOMAIN report : report[i].node \in Nodes
    <3> SUFFICES ASSUME NEW i \in DOMAIN report PROVE report[i].node \in Nodes
      OBVIOUS
    <3>1. report \in Seq(Reports)
      BY DEF Inv, Shape
    <3>2. report[i] \in Reports
      BY <3>1
    <3> QED
      BY <3>2 DEF Reports
  <2> QED
    BY <2>1, <2>2, <2>3, <2>4 DEF ReportInv, ReportIsLastWeight, Listed
<1>10. CASE UNCHANGED vars
  BY <1>1, <1>10 DEF vars, queueVars, callVars
<1> QED
  BY <1>2, <1>3, <1>4, <1>5, <1>6, <1>7, <1>8, <1>9, <1>10 DEF Next

\* Of a node below 10 each report gives the weight it came into that choice with: the
\* totals and the counter never span two choices.
THEOREM ReportsLastWeight == Spec => []ReportIsLastWeight
<1>1. Init => ReportInv
  <2> SUFFICES ASSUME Init PROVE ReportInv
    OBVIOUS
  <2>1. report = <<>> /\ place = 1 /\ pc = "idle" /\ \A n \in Nodes : mem[n] = NoMemory
    BY DEF Init
  <2> QED
    BY <2>1 DEF ReportInv, ReportIsLastWeight, NoMemory
<1>2. ReportInv => ReportIsLastWeight
  BY DEF ReportInv
<1> QED
  BY <1>1, <1>2, ReportStep, Invariance, PTL DEF Spec
=============================================================================
