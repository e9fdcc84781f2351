----------------------- MODULE ReceiveManager_proofs -----------------------
(***************************************************************************)
(* Proofs about ReceiveManager, for every number of senders, every stream  *)
(* of components and every thresholds: no component is forgotten or        *)
(* delivered twice, what goes up is one whole packet, and the pending      *)
(* packet always has its process callback to come.                         *)
(***************************************************************************)
EXTENDS ReceiveManager, FiniteSetTheorems, TLAPS

\* What "pc" says of the handler's work.
Control ==
  /\ pc = "parts" <=> work # <<>>
  /\ pc = "idle" => incoming = <<>>
  /\ pc = "store" => incoming # <<>>
  /\ pending = 0 => held = <<>>
  /\ incoming # <<>> /\ pending # 0 => pending + 1 < SlotIndex(clock)
  /\ clock = MaxSlot => incoming = <<>>

\* Only what a source has sent is received, and it sends each component once.
ReceivedWasSent == \A c \in received : c[2] <= sent[c[1]]

Once(message) ==
  \A i \in DOMAIN message, j \in DOMAIN message : message[i] = message[j] => i = j

Settled == (UNION delivered) \cup reported \cup ignored \cup dropped

InMessages == Parts(held) \cup Parts(work) \cup Parts(incoming)

\* No component is in two places: in two messages in hand or twice in one,
MessagesApart ==
  /\ Once(held) /\ Once(work) /\ Once(incoming)
  /\ Parts(held) \cap Parts(work) = {}
  /\ Parts(held) \cap Parts(incoming) = {}
  /\ Parts(work) \cap Parts(incoming) = {}
  /\ Settled \cap InMessages = {}

\* in two assemblies, or in an assembly and elsewhere,
StoreApart ==
  \A k \in DOMAIN store : \A c \in store[k].parts :
    Key(c) = k /\ c \notin InMessages /\ c \notin Settled

\* or in two packets sent up, or sent up and reported or dropped as well.
FatesApart ==
  /\ (UNION delivered) \cap (reported \cup dropped) = {}
  /\ \A d \in delivered, e \in delivered : d # e => d \cap e = {}

Apart == MessagesApart /\ StoreApart /\ FatesApart

\* The numbering of an armed timer and of the pending packet was the same when they came.
Numbered ==
  /\ \A t \in timers : t.index = t.due \/ t.index = Renumbered + t.due
  /\ pending # 0 =>
       \E b \in {0, Renumbered}, t \in timers :
         /\ t.index = pending + 1 /\ pending + 1 = b + t.due
         /\ b < pending /\ pending <= b + clock

FiniteIndexes == \A k \in DOMAIN store : IsFiniteSet(store[k].indexes)

\* An assembly keeps a part for each index it has marked, unless the offset of a fragment
\* was taken by one of another packet: those of packets whose sequence number is their own
\* never are.
Kept(a) ==
  /\ \A c \in a.parts : Comp(c).index \in a.indexes
  /\ (\A c \in a.parts : OwnSequence(c)) => a.indexes \subseteq {Comp(c).index : c \in a.parts}

AssembliesKept == \A k \in DOMAIN store : Kept(store[k])

RxInv ==
  /\ RxTypeOK
  /\ Control
  /\ ReceivedWasSent
  /\ EveryComponentAccounted
  /\ Apart
  /\ FiniteIndexes
  /\ AssembliesArePrefixes
  /\ Numbered
  /\ AssembliesKept
  /\ DeliveredWhole

-----------------------------------------------------------------------------
(* Components and messages                                                 *)

LEMMA FiniteIds ==
  ASSUME NEW T \in SUBSET Ids
  PROVE  IsFiniteSet(T) /\ Cardinality(T) \in Nat
<1> DEFINE all(s) == {s} \X DOMAIN Stream[s]
           cover == {all(s) : s \in Sources}
           f == [s \in Sources |-> all(s)]
<1>1. IsFiniteSet(cover)
  <2>1. f \in Surjection(Sources, cover)
    BY DEF Surjection
  <2> QED BY <2>1, FS_Surjection, SourcesAssumption
<1>2. \A T1 \in cover : IsFiniteSet(T1)
  <2>1. SUFFICES ASSUME NEW s \in Sources PROVE IsFiniteSet(all(s))
    OBVIOUS
  <2>2. DOMAIN Stream[s] = 1..Len(Stream[s]) /\ Len(Stream[s]) \in Nat
    BY StreamAssumption
  <2>3. IsFiniteSet(DOMAIN Stream[s])
    BY <2>2, FS_Interval
  <2>4. IsFiniteSet({s})
    BY FS_Singleton
  <2> HIDE DEF f, cover
  <2> QED BY <2>3, <2>4, FS_Product
<1>3. IsFiniteSet(UNION cover)
  <2> HIDE DEF cover
  <2> QED BY <1>1, <1>2, FS_UNION
<1>4. IsFiniteSet(Ids)
  BY <1>3 DEF Ids
<1> QED BY <1>4, FS_Subset, FS_CardinalityType

LEMMA CompTyped ==
  ASSUME NEW c \in Ids
  PROVE  /\ c[1] \in Sources /\ c[2] \in Nat
         /\ Comp(c) \in Components
         /\ Key(c) \in Keys
<1>1. PICK s \in Sources : c \in {s} \X DOMAIN Stream[s]
  BY DEF Ids
<1>2. c[1] = s /\ c[2] \in DOMAIN Stream[s]
  BY <1>1
<1>3. Stream[s] \in Seq(Components)
  BY StreamAssumption
<1>4. Stream[s][c[2]] \in Components /\ c[2] \in Nat
  BY <1>2, <1>3
<1>5. Comp(c) \in Components
  BY <1>2, <1>4 DEF Comp
<1>6. Comp(c).seq \in Nat
  BY <1>5 DEF Components
<1> QED BY <1>2, <1>4, <1>5, <1>6 DEF Key, Keys

LEMMA PartsTyped ==
  ASSUME NEW m \in Seq(Ids)
  PROVE  Parts(m) \subseteq Ids
  BY DEF Parts

LEMMA NoParts == Parts(<<>>) = {} /\ Once(<<>>)
  BY DEF Parts, Once

\* The components of a message are its first and those after it.
LEMMA HeadAndTail ==
  ASSUME NEW m \in Seq(Ids), m # <<>>
  PROVE  /\ Head(m) \in Ids /\ Tail(m) \in Seq(Ids)
         /\ Parts(m) = {Head(m)} \cup Parts(Tail(m))
         /\ Once(m) => Once(Tail(m)) /\ Head(m) \notin Parts(Tail(m))
<1>1. Head(m) = m[1] /\ Len(m) \in Nat /\ Len(m) > 0 /\ DOMAIN m = 1..Len(m)
  OBVIOUS
<1>2. DOMAIN Tail(m) = 1..(Len(m) - 1) /\ \A i \in 1..(Len(m) - 1) : Tail(m)[i] = m[i + 1]
  OBVIOUS
<1>3. Head(m) \in Ids /\ Tail(m) \in Seq(Ids)
  OBVIOUS
<1>4. \A i \in DOMAIN m : i = 1 \/ (i - 1 \in DOMAIN Tail(m) /\ m[i] = Tail(m)[i - 1])
  BY <1>1, <1>2
<1>5. \A i \in DOMAIN Tail(m) : i + 1 \in DOMAIN m /\ Tail(m)[i] = m[i + 1] /\ i + 1 # 1
  BY <1>1, <1>2
<1>6. Parts(m) = {Head(m)} \cup Parts(Tail(m))
  <2>1. \A c \in Parts(m) : c = Head(m) \/ c \in Parts(Tail(m))
    BY <1>1, <1>4 DEF Parts
  <2>2. 1 \in DOMAIN m
    BY <1>1
  <2>3. Head(m) \in Parts(m)
    BY <1>1, <2>2 DEF Parts
  <2>4. \A c \in Parts(Tail(m)) : c \in Parts(m)
    BY <1>5 DEF Parts
  <2> QED BY <2>1, <2>3, <2>4
<1>7. ASSUME Once(m) PROVE Once(Tail(m)) /\ Head(m) \notin Parts(Tail(m))
  <2>1. 1 \in DOMAIN m
    BY <1>1
  <2>2. Head(m) \notin Parts(Tail(m))
    BY <1>1, <1>5, <1>7, <2>1 DEF Once, Parts
  <2>3. \A i, j \in DOMAIN Tail(m) : Tail(m)[i] = Tail(m)[j] => i + 1 = j + 1
    BY <1>5, <1>7 DEF Once
  <2> QED BY <1>2, <2>2, <2>3 DEF Once
<1> QED BY <1>3, <1>6, <1>7

\* The next n components of a source, after the first p.
Message(s, p, n) == [i \in 1..n |-> <<s, p + i>>]

\* A message just arrived holds components its source had not sent before.
LEMMA NewMessage ==
  ASSUME NEW s \in Sources, NEW p \in Nat, NEW n \in Nat, n > 0,
         p + n <= Len(Stream[s])
  PROVE  /\ Message(s, p, n) \in Seq(Ids) /\ Message(s, p, n) # <<>>
         /\ Once(Message(s, p, n))
         /\ \A c \in Parts(Message(s, p, n)) : c[1] = s /\ p < c[2] /\ c[2] <= p + n
<1> DEFINE m == [i \in 1..n |-> <<s, p + i>>]
<1> SUFFICES /\ m \in Seq(Ids) /\ m # <<>> /\ Once(m)
             /\ \A c \in Parts(m) : c[1] = s /\ p < c[2] /\ c[2] <= p + n
  BY DEF Message
<1>1. Len(Stream[s]) \in Nat /\ DOMAIN Stream[s] = 1..Len(Stream[s])
  BY StreamAssumption
<1>2. \A i \in 1..n : <<s, p + i>> \in Ids
  <2>1. SUFFICES ASSUME NEW i \in 1..n PROVE <<s, p + i>> \in Ids
    OBVIOUS
  <2>2. p + i \in DOMAIN Stream[s]
    BY <1>1
  <2> QED BY <2>2 DEF Ids
<1>3. m \in Seq(Ids) /\ DOMAIN m = 1..n /\ Len(m) = n
  <2>1. m \in [1..n -> Ids]
    BY <1>2
  <2>2. n \in Nat /\ DOMAIN m = 1..n
    OBVIOUS
  <2>3. \A S : \A f \in [1..n -> S] : f \in Seq(S) /\ Len(f) = n
    OBVIOUS
  <2> QED BY <2>1, <2>2, <2>3
<1>4. Once(m)
  <2>1. \A i, j \in 1..n : m[i] = m[j] => p + i = p + j
    OBVIOUS
  <2> QED BY <1>3, <2>1 DEF Once
<1>5. \A c \in Parts(m) : \E i \in 1..n : c = <<s, p + i>>
  BY <1>3 DEF Parts
<1>6. m # <<>>
  BY <1>3
<1>7. \A c \in Parts(m) : c[1] = s /\ p < c[2] /\ c[2] <= p + n
  <2>1. \A i \in 1..n : <<s, p + i>>[1] = s /\ <<s, p + i>>[2] = p + i
    OBVIOUS
  <2>2. \A i \in 1..n : p < p + i /\ p + i <= p + n
    OBVIOUS
  <2> QED BY <1>5, <2>1, <2>2
<1> QED BY <1>3, <1>4, <1>6, <1>7

-----------------------------------------------------------------------------
(* Typing                                                                  *)

LEMMA EmptyMessage == <<>> \in Seq(Ids)
  OBVIOUS

\* The three things process() may begin with, and what each leaves alone.
LEMMA ProcessCases ==
  ASSUME NEW index, Process(index)
  PROVE  /\ UNCHANGED <<store, lastCheck, delivered, ignored, dropped>>
         /\ \/ /\ EndsPending(pending, index) /\ pending' = 0 /\ held' = <<>>
               /\ Report(Parts(held)) /\ pc' = Return(incoming') /\ work' = work
            \/ /\ EndsPending(pending, index) /\ pending' = 0 /\ held' = <<>>
               /\ work' = held /\ pc' = (IF held = <<>> THEN "check" ELSE "parts")
               /\ UNCHANGED <<reported, bytes>>
            \/ /\ ~EndsPending(pending, index)
               /\ pc' = "check" /\ UNCHANGED <<pending, held, work, reported, bytes>>
  BY DEF Process, FailReception, PassReception, NothingToJudge

LEMMA ReportTyped ==
  ASSUME RxTypeOK, NEW T \in SUBSET Ids, Report(T)
  PROVE  reported' \in SUBSET Ids /\ bytes' \in Nat
<1>1. Cardinality(T) \in Nat
  BY FiniteIds
<1> QED BY <1>1 DEF Report, RxTypeOK

LEMMA ProcessTyped ==
  ASSUME RxTypeOK, NEW index, Process(index)
  PROVE  /\ pending' \in Nat /\ held' \in Seq(Ids) /\ work' \in Seq(Ids)
         /\ reported' \in SUBSET Ids /\ bytes' \in Nat
         /\ pc' \in {"idle", "parts", "check", "store"}
         /\ UNCHANGED <<store, lastCheck, delivered, ignored, dropped>>
<1> held \in Seq(Ids) /\ Parts(held) \in SUBSET Ids
  BY PartsTyped DEF RxTypeOK
<1>1. CASE /\ pending' = 0 /\ held' = <<>>
           /\ Report(Parts(held)) /\ pc' = Return(incoming') /\ work' = work
  <2>1. reported' \in SUBSET Ids /\ bytes' \in Nat
    BY <1>1, ReportTyped
  <2> QED BY <1>1, <2>1, ProcessCases, EmptyMessage DEF RxTypeOK, Return
<1>2. CASE /\ pending' = 0 /\ held' = <<>>
           /\ work' = held /\ pc' = (IF held = <<>> THEN "check" ELSE "parts")
           /\ UNCHANGED <<reported, bytes>>
  <2>1. pc' \in {"check", "parts"}
    BY <1>2
  <2> QED BY <1>2, <2>1, ProcessCases, EmptyMessage DEF RxTypeOK
<1>3. CASE pc' = "check" /\ UNCHANGED <<pending, held, work, reported, bytes>>
  BY <1>3, ProcessCases DEF RxTypeOK
<1> QED BY <1>1, <1>2, <1>3, ProcessCases

\* The callback that is armed for a kept packet is due by the last slot.
LEMMA KeepTyped ==
  ASSUME RxTypeOK, NEW m \in Seq(Ids), Keep(m), clock < MaxSlot
  PROVE  /\ pending' \in Nat /\ held' \in Seq(Ids) /\ dropped' \in SUBSET Ids
         /\ timers' \in SUBSET [index : Nat, due : FirstSlot..MaxSlot]
<1>1. Parts(held) \in SUBSET Ids
  BY PartsTyped DEF RxTypeOK
<1>2. SlotIndex(clock) \in Nat /\ clock + 1 \in FirstSlot..MaxSlot
  BY TimeAssumption DEF RxTypeOK, SlotIndex
<1>3. timers' \in SUBSET [index : Nat, due : FirstSlot..MaxSlot]
  BY <1>2 DEF Keep, ArmProcess, RxTypeOK
<1> QED BY <1>1, <1>2, <1>3 DEF Keep, RxTypeOK

LEMMA PutTyped ==
  ASSUME RxTypeOK, NEW k \in Keys, NEW a \in Assemblies, Put(k, a)
  PROVE  DOMAIN store' \subseteq Keys /\ \A j \in DOMAIN store' : store'[j] \in Assemblies
  BY DEF Put, RxTypeOK

LEMMA EraseTyped ==
  ASSUME RxTypeOK, NEW keys, Erase(keys)
  PROVE  DOMAIN store' \subseteq Keys /\ \A j \in DOMAIN store' : store'[j] \in Assemblies
  BY DEF Erase, RxTypeOK

LEMMA JoinedTyped ==
  ASSUME RxTypeOK, NEW c \in Ids, Assembled(c)
  PROVE  Joined(c) \in Assemblies
<1>1. store[Key(c)] \in Assemblies
  BY DEF Assembled, RxTypeOK
<1>2. Comp(c).index \in Nat
  BY CompTyped DEF Components
<1> QED BY <1>1, <1>2 DEF Joined, Assemblies, RxTypeOK

LEMMA HandlerTyped ==
  ASSUME RxTypeOK, Control, Handle
  PROVE  /\ Head(work) \in Ids /\ work # <<>>
         /\ work' \in Seq(Ids) /\ pc' \in {"idle", "parts", "check", "store"}
  BY HeadAndTail DEF Handle, Control, RxTypeOK

LEMMA TypingInit == Init => RxTypeOK
<1> SUFFICES ASSUME Init PROVE RxTypeOK
  OBVIOUS
<1>1. \A s \in Sources : Len(Stream[s]) \in Nat
  BY StreamAssumption
<1>2. clock \in FirstSlot..MaxSlot /\ 0 \in 0..MaxSlot
  BY TimeAssumption DEF Init
<1>3. \A s \in Sources : sent[s] <= Len(Stream[s])
  BY <1>1 DEF Init
<1>4. DOMAIN store = {}
  BY DEF Init
<1> QED BY <1>2, <1>3, <1>4, EmptyMessage DEF Init, RxTypeOK

\* What enqueue() is given, in each of its branches.
LEMMA EnqueueMessage ==
  ASSUME RxTypeOK, NEW s \in Sources, NEW lost \in 0..MaxLost, NEW n \in 1..MaxAggregate,
         Enqueue(s, lost, n)
  PROVE  \E m \in Seq(Ids) :
           /\ m # <<>> /\ Once(m)
           /\ \A c \in Parts(m) : c[1] = s /\ sent[s] < c[2] /\ c[2] <= sent'[s]
           /\ received' = received \cup Parts(m)
           /\ EnqueueFirst(m) \/ EnqueueLater(m) \/ EnqueueEarlier(m) \/ EnqueueSameSlot(m)
<1> DEFINE m == Message(s, sent[s] + lost, n)
<1>1. sent[s] \in Nat /\ sent[s] + lost \in Nat /\ n \in Nat /\ n > 0
  BY TimeAssumption DEF RxTypeOK
<1>2. (sent[s] + lost) + n <= Len(Stream[s])
  BY DEF Enqueue
<1>3. sent'[s] = (sent[s] + lost) + n
  BY DEF Enqueue, RxTypeOK
<1>4. /\ m \in Seq(Ids) /\ m # <<>> /\ Once(m)
      /\ \A c \in Parts(m) : c[1] = s /\ sent[s] + lost < c[2] /\ c[2] <= (sent[s] + lost) + n
  BY <1>1, <1>2, NewMessage
<1>5. /\ received' = received \cup Parts(m)
      /\ EnqueueFirst(m) \/ EnqueueLater(m) \/ EnqueueEarlier(m) \/ EnqueueSameSlot(m)
  BY DEF Enqueue, Message
<1>6. \A c \in Parts(m) : sent[s] < c[2] /\ c[2] <= sent'[s]
  <2> HIDE DEF m
  <2>1. \A c \in Parts(m) : c \in Ids
    BY <1>4, PartsTyped
  <2>2. \A c \in Parts(m) : c[2] \in Nat
    BY <2>1, CompTyped
  <2> QED BY <1>1, <1>3, <1>4, <2>2
<1> HIDE DEF m
<1> QED BY <1>4, <1>5, <1>6

LEMMA TypingEnqueue ==
  ASSUME RxTypeOK, Control, NEW s \in Sources, NEW lost \in 0..MaxLost,
         NEW n \in 1..MaxAggregate, Enqueue(s, lost, n)
  PROVE  RxTypeOK'
<1>1. PICK m \in Seq(Ids) :
        /\ received' = received \cup Parts(m)
        /\ EnqueueFirst(m) \/ EnqueueLater(m) \/ EnqueueEarlier(m) \/ EnqueueSameSlot(m)
  BY EnqueueMessage
<1>2. /\ UNCHANGED <<clock, base, changes, promiscuous>> /\ clock < MaxSlot
      /\ sent' \in [Sources -> Nat] /\ lastSent' \in [Sources -> 0..MaxSlot]
      /\ \A r \in Sources : sent'[r] <= Len(Stream[r])
  <2>1. sent[s] + lost + n \in Nat /\ clock \in 0..MaxSlot
    BY TimeAssumption DEF RxTypeOK
  <2> QED BY <2>1 DEF Enqueue, RxTypeOK
<1>3. Parts(m) \in SUBSET Ids /\ received' \in SUBSET Ids
  BY <1>1, PartsTyped DEF RxTypeOK
<1>4. CASE EnqueueFirst(m) \/ EnqueueEarlier(m)
  <2>1. /\ pending' \in Nat /\ held' \in Seq(Ids) /\ dropped' \in SUBSET Ids
        /\ timers' \in SUBSET [index : Nat, due : FirstSlot..MaxSlot]
    BY <1>2, <1>4, KeepTyped DEF EnqueueFirst, EnqueueEarlier
  <2> QED BY <1>2, <1>3, <1>4, <2>1 DEF EnqueueFirst, EnqueueEarlier, RxTypeOK, runVars
<1>5. CASE EnqueueLater(m)
  <2>1. Process(SlotIndex(clock)) /\ incoming' = m /\ timers' = timers
    BY <1>5 DEF EnqueueLater
  <2> QED BY <1>2, <1>3, <2>1, ProcessTyped DEF RxTypeOK
<1>6. CASE EnqueueSameSlot(m)
  <2>1. held' \in Seq(Ids) /\ dropped' \in SUBSET Ids
    BY <1>3, <1>6, PartsTyped DEF EnqueueSameSlot, RxTypeOK
  <2> QED BY <1>2, <1>3, <1>6, <2>1 DEF EnqueueSameSlot, RxTypeOK, runVars
<1> QED BY <1>1, <1>4, <1>5, <1>6

LEMMA TypingCallback ==
  ASSUME RxTypeOK, NEW t \in timers, ProcessCallback(t)
  PROVE  RxTypeOK'
<1>1. Process(t.index) /\ incoming' = <<>> /\ timers' = timers \ {t}
  BY DEF ProcessCallback
<1>2. UNCHANGED <<envVars, promiscuous, received>>
  BY DEF ProcessCallback
<1> QED BY <1>1, <1>2, ProcessTyped, EmptyMessage DEF RxTypeOK, envVars

LEMMA TypingComponent ==
  ASSUME RxTypeOK, Control, HandleComponent
  PROVE  RxTypeOK'
<1> DEFINE c == Head(work)
<1>1. Handle
  BY DEF HandleComponent, NotForUs, DeliverWhole, StartAssembly, MissFirst, RepeatFragment,
         AddFragment, CompleteAssembly, GapFragment, NewFragment
<1>2. /\ c \in Ids /\ work' \in Seq(Ids) /\ pc' \in {"idle", "parts", "check", "store"}
      /\ Key(c) \in Keys /\ Comp(c).index \in Nat
  BY <1>1, HandlerTyped, CompTyped DEF Components
<1>3. UNCHANGED <<envVars, timers, promiscuous, pending, held, lastCheck, incoming,
                  received, dropped>>
  BY <1>1 DEF Handle
<1>4. SUFFICES /\ DOMAIN store' \subseteq Keys
               /\ \A k \in DOMAIN store' : store'[k] \in Assemblies
               /\ delivered' \in SUBSET SUBSET Ids
               /\ reported' \in SUBSET Ids /\ bytes' \in Nat
               /\ ignored' \in SUBSET Ids
  BY <1>2, <1>3 DEF RxTypeOK, envVars
<1> HIDE DEF c
<1>5. CASE NotForUs(c) \/ MissFirst(c)
  <2>1. {c} \in SUBSET Ids /\ Report({c})
    BY <1>2, <1>5 DEF NotForUs, MissFirst
  <2>2. reported' \in SUBSET Ids /\ bytes' \in Nat
    BY <2>1, ReportTyped
  <2> QED BY <1>5, <2>2 DEF NotForUs, MissFirst, RxTypeOK
<1>6. CASE DeliverWhole(c) \/ RepeatFragment(c)
  BY <1>2, <1>6 DEF DeliverWhole, RepeatFragment, RxTypeOK
<1>7. CASE StartAssembly(c)
  <2>1. [indexes |-> {Comp(c).index}, parts |-> {c}, last |-> clock] \in Assemblies
    BY <1>2 DEF Assemblies, RxTypeOK
  <2>2. Put(Key(c), [indexes |-> {Comp(c).index}, parts |-> {c}, last |-> clock])
    BY <1>7 DEF StartAssembly
  <2> QED BY <1>2, <1>7, <2>1, <2>2, PutTyped DEF StartAssembly, RxTypeOK
<1>8. CASE AddFragment(c)
  <2>1. Joined(c) \in Assemblies /\ Put(Key(c), Joined(c)) /\ ignored' \in SUBSET Ids
    BY <1>2, <1>8, JoinedTyped DEF AddFragment, NewFragment, RxTypeOK
  <2> QED BY <1>2, <1>8, <2>1, PutTyped DEF AddFragment, RxTypeOK
<1>9. CASE CompleteAssembly(c)
  <2>1. Joined(c).parts \in SUBSET Ids /\ Erase({Key(c)}) /\ ignored' \in SUBSET Ids
    BY <1>2, <1>9, JoinedTyped DEF CompleteAssembly, NewFragment, RxTypeOK, Assemblies
  <2> QED BY <1>9, <2>1, EraseTyped DEF CompleteAssembly, RxTypeOK
<1>10. CASE GapFragment(c)
  <2>1. Joined(c).parts \in SUBSET Ids /\ Erase({Key(c)}) /\ ignored' \in SUBSET Ids
    BY <1>2, <1>10, JoinedTyped DEF GapFragment, NewFragment, RxTypeOK, Assemblies
  <2>2. Cardinality(Joined(c).parts) \in Nat
    BY <2>1, FiniteIds
  <2> QED BY <1>10, <2>1, <2>2, EraseTyped DEF GapFragment, RxTypeOK
<1> QED BY <1>5, <1>6, <1>7, <1>8, <1>9, <1>10 DEF HandleComponent, c

LEMMA TypingCheck ==
  ASSUME RxTypeOK, CheckAssemblies
  PROVE  RxTypeOK'
<1>1. UNCHANGED <<envVars, timers, promiscuous, pending, held, work, incoming,
                  received, delivered, ignored, dropped>>
  BY DEF CheckAssemblies
<1>2. pc' \in {"idle", "store"}
  BY DEF CheckAssemblies, Return
<1>3. CASE AbandonExpired /\ lastCheck' = clock
  <2>1. UNION {store[k].parts : k \in Expired} \in SUBSET Ids
    BY DEF Expired, RxTypeOK, Assemblies
  <2>2. reported' \in SUBSET Ids /\ bytes' \in Nat
    BY <1>3, <2>1, ReportTyped DEF AbandonExpired
  <2>3. lastCheck' \in 0..MaxSlot
    BY <1>3, TimeAssumption DEF RxTypeOK
  <2>4. DOMAIN store' \subseteq Keys /\ \A j \in DOMAIN store' : store'[j] \in Assemblies
    BY <1>3, EraseTyped DEF AbandonExpired
  <2> QED BY <1>1, <1>2, <2>2, <2>3, <2>4 DEF RxTypeOK, envVars
<1>4. CASE UNCHANGED <<store, reported, bytes, lastCheck>>
  BY <1>1, <1>2, <1>4 DEF RxTypeOK, envVars
<1> QED BY <1>3, <1>4 DEF CheckAssemblies

LEMMA TypingKeep ==
  ASSUME RxTypeOK, Control, KeepIncoming
  PROVE  RxTypeOK'
<1>1. incoming \in Seq(Ids) /\ Keep(incoming) /\ clock < MaxSlot
  BY TimeAssumption DEF KeepIncoming, Control, RxTypeOK
<1>2. /\ pending' \in Nat /\ held' \in Seq(Ids) /\ dropped' \in SUBSET Ids
      /\ timers' \in SUBSET [index : Nat, due : FirstSlot..MaxSlot]
  BY <1>1, KeepTyped
<1> QED BY <1>2, EmptyMessage DEF KeepIncoming, RxTypeOK, envVars

\* The steps of the environment.
Surroundings == Renumber \/ SetPromiscuousMode \/ Tick \/ UNCHANGED vars

LEMMA TypingSurroundings ==
  ASSUME RxTypeOK, Surroundings
  PROVE  RxTypeOK'
<1>1. CASE Renumber
  <2>1. base' \in {0, Renumbered} /\ changes' \in Nat
    BY <1>1, TimeAssumption DEF Renumber, RxTypeOK
  <2> QED BY <1>1, <2>1 DEF Renumber, RxTypeOK, rxVars, runVars, historyVars
<1>2. CASE SetPromiscuousMode
  BY <1>2 DEF SetPromiscuousMode, RxTypeOK, rxVars, runVars, historyVars
<1>3. CASE Tick
  <2>1. clock' \in FirstSlot..MaxSlot
    BY <1>3, TimeAssumption DEF Tick, RxTypeOK
  <2> QED BY <1>3, <2>1 DEF Tick, RxTypeOK, rxVars, runVars, historyVars
<1>4. CASE UNCHANGED vars
  BY <1>4 DEF RxTypeOK, vars, envVars, rxVars, runVars, historyVars
<1> QED BY <1>1, <1>2, <1>3, <1>4 DEF Surroundings

\* The steps there are.
LEMMA Steps ==
  ASSUME [Next]_vars
  PROVE  \/ \E s \in Sources, lost \in 0..MaxLost, n \in 1..MaxAggregate : Enqueue(s, lost, n)
         \/ \E t \in timers : ProcessCallback(t)
         \/ HandleComponent \/ CheckAssemblies \/ KeepIncoming \/ Surroundings
  BY DEF Next, Horizon, Surroundings

LEMMA TypingNext ==
  ASSUME RxTypeOK, Control, [Next]_vars
  PROVE  RxTypeOK'
  BY Steps, TypingEnqueue, TypingCallback, TypingComponent, TypingCheck, TypingKeep,
     TypingSurroundings

-----------------------------------------------------------------------------
(* Control                                                                 *)

LEMMA SlotsCounted ==
  ASSUME RxTypeOK
  PROVE  /\ SlotIndex(clock) \in Nat /\ SlotIndex(clock) # 0
         /\ clock \in Nat /\ base \in Nat /\ pending \in Nat
  BY TimeAssumption DEF RxTypeOK, SlotIndex

LEMMA ControlEnqueue ==
  ASSUME RxTypeOK, Control, NEW s \in Sources, NEW lost \in 0..MaxLost,
         NEW n \in 1..MaxAggregate, Enqueue(s, lost, n)
  PROVE  Control'
<1>1. PICK m \in Seq(Ids) :
        /\ m # <<>>
        /\ EnqueueFirst(m) \/ EnqueueLater(m) \/ EnqueueEarlier(m) \/ EnqueueSameSlot(m)
  BY EnqueueMessage
<1>2. /\ pc = "idle" /\ work = <<>> /\ incoming = <<>>
      /\ clock < MaxSlot /\ clock' = clock /\ base' = base
  BY DEF Enqueue, Control
<1>3. SlotIndex(clock) \in Nat /\ SlotIndex(clock) # 0 /\ clock \in Nat /\ pending \in Nat
  BY SlotsCounted
<1>4. CASE EnqueueFirst(m) \/ EnqueueEarlier(m) \/ EnqueueSameSlot(m)
  <2>1. pc' = pc /\ work' = work /\ incoming' = incoming /\ pending' = SlotIndex(clock)
    BY <1>4 DEF EnqueueFirst, EnqueueEarlier, EnqueueSameSlot, Keep, runVars
  <2> QED BY <1>2, <1>3, <2>1 DEF Control
<1>5. CASE EnqueueLater(m)
  <2>1. Process(SlotIndex(clock)) /\ incoming' = m /\ pending # 0 /\ pending < SlotIndex(clock)
    BY <1>3, <1>5 DEF EnqueueLater
  <2>2. SlotIndex(clock)' = SlotIndex(clock)
    BY <1>2 DEF SlotIndex
  <2>3. CASE pending' = 0 /\ held' = <<>> /\ pc' = Return(incoming') /\ work' = work
    BY <1>1, <1>2, <1>3, <2>1, <2>3 DEF Control, Return
  <2>4. CASE /\ pending' = 0 /\ held' = <<>>
             /\ work' = held /\ pc' = (IF held = <<>> THEN "check" ELSE "parts")
    BY <1>1, <1>2, <1>3, <2>1, <2>4 DEF Control
  <2>5. CASE /\ ~EndsPending(pending, SlotIndex(clock))
             /\ pc' = "check" /\ UNCHANGED <<pending, held, work>>
    <3>1. pending + 1 < SlotIndex(clock)
      BY <1>3, <2>1, <2>5 DEF EndsPending
    <3> QED BY <1>1, <1>2, <1>3, <2>1, <2>2, <2>5, <3>1 DEF Control
  <2> QED BY <2>1, <2>3, <2>4, <2>5, ProcessCases
<1> QED BY <1>1, <1>4, <1>5

LEMMA ControlCallback ==
  ASSUME RxTypeOK, Control, NEW t \in timers, ProcessCallback(t)
  PROVE  Control'
<1>1. pc = "idle" /\ work = <<>> /\ incoming' = <<>> /\ Process(t.index)
  BY DEF ProcessCallback, Control
<1>2. CASE pending' = 0 /\ held' = <<>> /\ pc' = Return(incoming') /\ work' = work
  BY <1>1, <1>2 DEF Control, Return
<1>3. CASE /\ pending' = 0 /\ held' = <<>>
           /\ work' = held /\ pc' = (IF held = <<>> THEN "check" ELSE "parts")
  BY <1>1, <1>3 DEF Control
<1>4. CASE pc' = "check" /\ UNCHANGED <<pending, held, work>>
  BY <1>1, <1>4 DEF Control
<1> QED BY <1>1, <1>2, <1>3, <1>4, ProcessCases

LEMMA ControlInside ==
  ASSUME RxTypeOK, Control, HandleComponent \/ CheckAssemblies \/ KeepIncoming
  PROVE  Control'
<1>1. CASE HandleComponent
  <2>1. Handle
    BY <1>1 DEF HandleComponent, NotForUs, DeliverWhole, StartAssembly, MissFirst,
                RepeatFragment, AddFragment, CompleteAssembly, GapFragment, NewFragment
  <2>2. /\ UNCHANGED <<clock, base, incoming, pending, held>> /\ pc = "parts"
        /\ work' = Tail(work) /\ pc' = IF Tail(work) = <<>> THEN "check" ELSE "parts"
    BY <2>1 DEF Handle, envVars
  <2>3. SlotIndex(clock)' = SlotIndex(clock)
    BY <2>2 DEF SlotIndex
  <2> QED BY <2>2, <2>3 DEF Control
<1>2. CASE CheckAssemblies
  <2>1. /\ UNCHANGED <<clock, base, incoming, pending, held, work>> /\ pc = "check"
        /\ pc' = Return(incoming)
    BY <1>2 DEF CheckAssemblies, envVars
  <2>2. SlotIndex(clock)' = SlotIndex(clock)
    BY <2>1 DEF SlotIndex
  <2> QED BY <2>1, <2>2 DEF Control, Return
<1>3. CASE KeepIncoming
  <2>1. pending' # 0
    BY <1>3, SlotsCounted DEF KeepIncoming, Keep
  <2> QED BY <1>3, <2>1 DEF KeepIncoming, Control
<1> QED BY <1>1, <1>2, <1>3

LEMMA ControlSurroundings ==
  ASSUME RxTypeOK, Control, Surroundings
  PROVE  Control'
<1>1. CASE Renumber \/ SetPromiscuousMode \/ Tick
  <2>1. pc = "idle" /\ incoming = <<>> /\ UNCHANGED <<pc, work, incoming, pending, held>>
    BY <1>1 DEF Renumber, SetPromiscuousMode, Tick, Control, rxVars, runVars
  <2> QED BY <2>1 DEF Control
<1>2. CASE UNCHANGED vars
  <2>1. SlotIndex(clock)' = SlotIndex(clock)
    BY <1>2 DEF SlotIndex, vars, envVars
  <2> QED BY <1>2, <2>1 DEF Control, vars, envVars, rxVars, runVars
<1> QED BY <1>1, <1>2 DEF Surroundings

LEMMA ControlNext ==
  ASSUME RxTypeOK, Control, [Next]_vars
  PROVE  Control'
  BY Steps, ControlEnqueue, ControlCallback, ControlInside, ControlSurroundings

-----------------------------------------------------------------------------
(* No component is forgotten                                               *)

LEMMA SentNext ==
  ASSUME RxTypeOK, ReceivedWasSent, [Next]_vars
  PROVE  ReceivedWasSent'
<1>1. CASE \E s \in Sources, lost \in 0..MaxLost, n \in 1..MaxAggregate : Enqueue(s, lost, n)
  <2>1. PICK s \in Sources, lost \in 0..MaxLost, n \in 1..MaxAggregate : Enqueue(s, lost, n)
    BY <1>1
  <2>2. PICK m \in Seq(Ids) :
          /\ \A c \in Parts(m) : c[1] = s /\ sent[s] < c[2] /\ c[2] <= sent'[s]
          /\ received' = received \cup Parts(m)
    BY <2>1, EnqueueMessage
  <2>3. \A r \in Sources : sent[r] \in Nat /\ sent'[r] \in Nat /\ sent[r] <= sent'[r]
    <3>1. sent \in [Sources -> Nat] /\ lost \in Nat /\ n \in Nat
      BY TimeAssumption DEF RxTypeOK
    <3>2. sent' = [sent EXCEPT ![s] = @ + lost + n]
      BY <2>1 DEF Enqueue
    <3>3. \A r \in Sources : r # s => sent'[r] = sent[r]
      BY <3>1, <3>2
    <3>4. sent'[s] = sent[s] + lost + n /\ sent[s] \in Nat
      BY <3>1, <3>2
    <3> QED BY <3>1, <3>3, <3>4
  <2>4. \A c \in received : c[1] \in Sources /\ c[2] \in Nat
    BY CompTyped DEF RxTypeOK
  <2>5. \A c \in received : c[2] <= sent'[c[1]]
    BY <2>3, <2>4 DEF ReceivedWasSent
  <2>6. \A c \in Parts(m) : c[2] <= sent'[c[1]]
    BY <2>2
  <2> QED BY <2>2, <2>5, <2>6 DEF ReceivedWasSent
<1>2. CASE UNCHANGED <<sent, received>>
  BY <1>2 DEF ReceivedWasSent
<1>3. CASE \E t \in timers : ProcessCallback(t)
  BY <1>2, <1>3 DEF ProcessCallback, envVars
<1>4. CASE HandleComponent
  <2>1. Handle
    BY <1>4 DEF HandleComponent, NotForUs, DeliverWhole, StartAssembly, MissFirst,
                RepeatFragment, AddFragment, CompleteAssembly, GapFragment, NewFragment
  <2> QED BY <1>2, <2>1 DEF Handle, envVars
<1>5. CASE CheckAssemblies \/ KeepIncoming
  BY <1>2, <1>5 DEF CheckAssemblies, KeepIncoming, envVars
<1>6. CASE Surroundings
  BY <1>2, <1>6 DEF Surroundings, Renumber, SetPromiscuousMode, Tick, vars, envVars, historyVars
<1> QED BY <1>1, <1>3, <1>4, <1>5, <1>6, Steps

\* The fragments in assemblies, but for those with one of some keys.
Stored(keys) == UNION {store[k].parts : k \in DOMAIN store \ keys}

LEMMA InHandIs ==
  InHand = Parts(held) \cup Parts(work) \cup Parts(incoming) \cup Stored({})
  BY DEF InHand, Stored

LEMMA StoredPut ==
  ASSUME NEW k, NEW a, Put(k, a)
  PROVE  Stored({})' = a.parts \cup Stored({k})
  BY DEF Put, Stored

LEMMA StoredErase ==
  ASSUME NEW keys, Erase(keys)
  PROVE  Stored({})' = Stored(keys)
  BY DEF Erase, Stored

LEMMA StoredSplit ==
  ASSUME NEW k \in DOMAIN store
  PROVE  Stored({}) = store[k].parts \cup Stored({k})
  BY DEF Stored

\* A component that process() has come to leaves the work, and nothing else in hand but
\* the assemblies changes.
LEMMA HandleLeaves ==
  ASSUME RxTypeOK, Control, Handle
  PROVE  /\ Head(work) \in Ids
         /\ Parts(work) = {Head(work)} \cup Parts(work')
         /\ Once(work) => Once(work') /\ Head(work) \notin Parts(work')
         /\ UNCHANGED <<received, dropped, held, incoming>>
<1>1. work \in Seq(Ids) /\ work # <<>> /\ work' = Tail(work)
  BY DEF Handle, Control, RxTypeOK
<1>2. UNCHANGED <<received, dropped, held, incoming>>
  BY DEF Handle
<1> QED BY <1>1, <1>2, HeadAndTail

LEMMA JoinedParts ==
  ASSUME NEW c, Assembled(c)
  PROVE  /\ Joined(c).parts \subseteq store[Key(c)].parts \cup {c}
         /\ store[Key(c)].parts \subseteq Joined(c).parts
         /\ Key(c) \in DOMAIN store
         /\ Joined(c).indexes = store[Key(c)].indexes \cup {Comp(c).index}
  BY DEF Joined, Assembled

LEMMA AccountedComponent ==
  ASSUME RxTypeOK, Control, EveryComponentAccounted, HandleComponent
  PROVE  EveryComponentAccounted'
<1> DEFINE c == Head(work)
           fates == (UNION delivered) \cup reported \cup ignored
           gone == dropped \cup Parts(held) \cup Parts(incoming)
<1>1. Handle
  BY DEF HandleComponent, NotForUs, DeliverWhole, StartAssembly, MissFirst, RepeatFragment,
         AddFragment, CompleteAssembly, GapFragment, NewFragment
<1>2. Parts(work) = {c} \cup Parts(work') /\ UNCHANGED <<received, gone>>
  BY <1>1, HandleLeaves
<1>3. received = fates \cup gone \cup Stored({}) \cup {c} \cup Parts(work')
  BY <1>2, InHandIs DEF EveryComponentAccounted
<1>4. InHand' = Parts(held)' \cup Parts(work') \cup Parts(incoming)' \cup Stored({})'
  BY DEF InHand, Stored, Parts
<1>5. SUFFICES fates' \cup Stored({})' = fates \cup Stored({}) \cup {c}
  BY <1>2, <1>3, <1>4 DEF EveryComponentAccounted
<1> HIDE DEF c
<1>6. CASE NotForUs(c) \/ DeliverWhole(c) \/ MissFirst(c) \/ RepeatFragment(c)
  <2>1. Stored({})' = Stored({})
    BY <1>6 DEF NotForUs, DeliverWhole, MissFirst, RepeatFragment, Stored
  <2>2. fates' = fates \cup {c}
    BY <1>6 DEF NotForUs, DeliverWhole, MissFirst, RepeatFragment, Report
  <2> QED BY <2>1, <2>2
<1>7. CASE StartAssembly(c)
  <2>1. Stored({})' = {c} \cup Stored({Key(c)})
    BY <1>7, StoredPut DEF StartAssembly
  <2>2. Stored({Key(c)}) = Stored({})
    BY <1>7 DEF StartAssembly, Assembled, Stored
  <2>3. fates' = fates
    BY <1>7 DEF StartAssembly
  <2> QED BY <2>1, <2>2, <2>3
<1>8. CASE AddFragment(c) \/ CompleteAssembly(c) \/ GapFragment(c)
  <2>1. /\ ignored' = ignored \cup ({c} \ Joined(c).parts)
        /\ Assembled(c)
    BY <1>8 DEF AddFragment, CompleteAssembly, GapFragment, NewFragment
  <2>2. Stored({}) = store[Key(c)].parts \cup Stored({Key(c)})
    BY <2>1, StoredSplit, JoinedParts
  <2>3. Joined(c).parts \cup ({c} \ Joined(c).parts) = store[Key(c)].parts \cup {c}
    BY <2>1, JoinedParts
  <2>4. CASE AddFragment(c)
    <3>1. Stored({})' = Joined(c).parts \cup Stored({Key(c)})
      BY <2>4, StoredPut DEF AddFragment
    <3>2. fates' = fates \cup ({c} \ Joined(c).parts)
      BY <2>1, <2>4 DEF AddFragment
    <3> QED BY <2>2, <2>3, <3>1, <3>2
  <2>5. CASE CompleteAssembly(c) \/ GapFragment(c)
    <3>1. Stored({})' = Stored({Key(c)})
      BY <2>5, StoredErase DEF CompleteAssembly, GapFragment
    <3>2. fates' = fates \cup Joined(c).parts \cup ({c} \ Joined(c).parts)
      BY <2>1, <2>5 DEF CompleteAssembly, GapFragment
    <3> QED BY <2>2, <2>3, <3>1, <3>2
  <2> QED BY <1>8, <2>4, <2>5
<1> QED BY <1>6, <1>7, <1>8 DEF HandleComponent, c

\* What process() begins with reports the held packet, takes it to work or leaves it.
LEMMA ProcessMoves ==
  ASSUME RxTypeOK, Control, pc = "idle", NEW index, Process(index)
  PROVE  /\ reported' \cup Parts(held') \cup Parts(work') =
              reported \cup Parts(held) \cup Parts(work)
         /\ Stored({})' = Stored({})
         /\ UNCHANGED <<delivered, ignored, dropped>>
<1>1. work = <<>> /\ Parts(work) = {} /\ Parts(<<>>) = {}
  BY NoParts DEF Control
<1>2. Stored({})' = Stored({}) /\ UNCHANGED <<delivered, ignored, dropped>>
  BY ProcessCases DEF Stored
<1>3. CASE held' = <<>> /\ Report(Parts(held)) /\ work' = work
  BY <1>1, <1>2, <1>3 DEF Report
<1>4. CASE held' = <<>> /\ work' = held /\ UNCHANGED reported
  BY <1>1, <1>2, <1>4
<1>5. CASE UNCHANGED <<held, work, reported>>
  BY <1>1, <1>2, <1>5
<1> QED BY <1>3, <1>4, <1>5, ProcessCases

LEMMA AccountedEnqueue ==
  ASSUME RxTypeOK, Control, EveryComponentAccounted, NEW s \in Sources, NEW lost \in 0..MaxLost,
         NEW n \in 1..MaxAggregate, Enqueue(s, lost, n)
  PROVE  EveryComponentAccounted'
<1>1. PICK m \in Seq(Ids) :
        /\ received' = received \cup Parts(m)
        /\ EnqueueFirst(m) \/ EnqueueLater(m) \/ EnqueueEarlier(m) \/ EnqueueSameSlot(m)
  BY EnqueueMessage
<1>2. pc = "idle" /\ incoming = <<>> /\ Parts(incoming) = {} /\ Parts(<<>>) = {}
  BY NoParts DEF Enqueue, Control
<1>3. InHand' = Parts(held') \cup Parts(work') \cup Parts(incoming') \cup Stored({})'
  BY DEF InHand, Stored, Parts
<1>4. CASE EnqueueFirst(m) \/ EnqueueEarlier(m) \/ EnqueueSameSlot(m)
  <2>1. /\ UNCHANGED <<work, incoming, delivered, reported, ignored, Stored({})>>
        /\ dropped' \cup Parts(held') = dropped \cup Parts(held) \cup Parts(m)
    BY <1>4 DEF EnqueueFirst, EnqueueEarlier, EnqueueSameSlot, Keep, runVars, Stored
  <2> QED BY <1>1, <1>2, <1>3, <2>1, InHandIs DEF EveryComponentAccounted
<1>5. CASE EnqueueLater(m)
  <2>1. Process(SlotIndex(clock)) /\ incoming' = m
    BY <1>5 DEF EnqueueLater
  <2> QED BY <1>1, <1>2, <1>3, <2>1, InHandIs, ProcessMoves DEF EveryComponentAccounted
<1> QED BY <1>1, <1>4, <1>5

LEMMA AccountedNext ==
  ASSUME RxTypeOK, Control, EveryComponentAccounted, [Next]_vars
  PROVE  EveryComponentAccounted'
<1>1. InHand' = Parts(held') \cup Parts(work') \cup Parts(incoming') \cup Stored({})'
  BY DEF InHand, Stored, Parts
<1>2. ASSUME NEW t \in timers, ProcessCallback(t) PROVE EveryComponentAccounted'
  <2>1. pc = "idle" /\ incoming = <<>> /\ incoming' = <<>> /\ Process(t.index)
        /\ received' = received
    BY <1>2 DEF ProcessCallback, Control
  <2> QED BY <1>1, <2>1, InHandIs, ProcessMoves DEF EveryComponentAccounted
<1>3. CASE CheckAssemblies
  <2>1. UNCHANGED <<held, work, incoming, received, delivered, ignored, dropped>>
    BY <1>3 DEF CheckAssemblies
  <2>2. reported' \cup Stored({})' = reported \cup Stored({})
    <3>1. CASE AbandonExpired
      <4>1. Stored({})' = Stored(Expired)
        BY <3>1, StoredErase DEF AbandonExpired
      <4>2. reported' = reported \cup UNION {store[k].parts : k \in Expired}
        BY <3>1 DEF AbandonExpired, Report
      <4>3. Stored({}) = Stored(Expired) \cup UNION {store[k].parts : k \in Expired}
        BY DEF Stored, Expired
      <4> QED BY <4>1, <4>2, <4>3
    <3>2. CASE UNCHANGED <<store, reported>>
      BY <3>2 DEF Stored
    <3> QED BY <1>3, <3>1, <3>2 DEF CheckAssemblies
  <2> QED BY <1>1, <2>1, <2>2, InHandIs DEF EveryComponentAccounted
<1>4. CASE KeepIncoming
  <2>1. /\ UNCHANGED <<work, received, delivered, reported, ignored, Stored({})>>
        /\ held' = incoming /\ incoming' = <<>> /\ dropped' = dropped \cup Parts(held)
    BY <1>4 DEF KeepIncoming, Keep, Stored
  <2> QED BY <1>1, <2>1, InHandIs, NoParts DEF EveryComponentAccounted
<1>5. CASE Surroundings
  <2>1. UNCHANGED <<held, work, incoming, store, received, delivered, reported, ignored, dropped>>
    BY <1>5 DEF Surroundings, Renumber, SetPromiscuousMode, Tick, vars, rxVars, runVars,
                historyVars
  <2> QED BY <2>1 DEF EveryComponentAccounted, InHand, Parts
<1> QED BY <1>2, <1>3, <1>4, <1>5, Steps, AccountedEnqueue, AccountedComponent

-----------------------------------------------------------------------------
(* Assemblies have no gaps                                                 *)

LEMMA IntervalGrows ==
  ASSUME NEW n \in Nat
  PROVE  (0..(n - 1)) \cup {n} = 0..n
  OBVIOUS

\* A next fragment without a gap continues the ones before.
LEMMA PrefixContinues ==
  ASSUME NEW I, IsFiniteSet(I), I = 0..(Cardinality(I) - 1), NEW i \in Nat, i \notin I,
         Cardinality(I \cup {i}) = i + 1
  PROVE  /\ IsFiniteSet(I \cup {i})
         /\ I \cup {i} = 0..(Cardinality(I \cup {i}) - 1)
<1>1. Cardinality(I) \in Nat
  BY FS_CardinalityType
<1>2. IsFiniteSet(I \cup {i}) /\ Cardinality(I \cup {i}) = Cardinality(I) + 1
  BY FS_AddElement
<1>3. Cardinality(I) = i
  BY <1>1, <1>2
<1>4. I \cup {i} = 0..i
  <2>1. I = 0..(i - 1)
    BY <1>3
  <2>2. (0..(i - 1)) \cup {i} = 0..i
    BY IntervalGrows
  <2> QED BY <2>1, <2>2, Zenon
<1>5. Cardinality(I \cup {i}) - 1 = i
  OBVIOUS
<1> QED BY <1>2, <1>4, <1>5, Zenon

Prefix(a) ==
  /\ IsFiniteSet(a.indexes)
  /\ a.indexes = 0..(Cardinality(a.indexes) - 1)

LEMMA PrefixesStored ==
  FiniteIndexes /\ AssembliesArePrefixes <=> \A k \in DOMAIN store : Prefix(store[k])
  BY DEF FiniteIndexes, AssembliesArePrefixes, Prefix

LEMMA PrefixPut ==
  ASSUME \A k \in DOMAIN store : Prefix(store[k]), NEW k, NEW a, Prefix(a), Put(k, a)
  PROVE  \A j \in DOMAIN store' : Prefix(store'[j])
  BY DEF Put

LEMMA PrefixErase ==
  ASSUME \A k \in DOMAIN store : Prefix(store[k]), NEW keys, Erase(keys)
  PROVE  \A j \in DOMAIN store' : Prefix(store'[j])
  BY DEF Erase

LEMMA PrefixJoined ==
  ASSUME RxTypeOK, Control, \A k \in DOMAIN store : Prefix(store[k]), NEW c \in Ids, AddFragment(c)
  PROVE  Prefix(Joined(c))
<1> DEFINE I == store[Key(c)].indexes
           i == Comp(c).index
<1>1. /\ Assembled(c) /\ i \notin I /\ Joined(c).indexes = I \cup {i}
      /\ Cardinality(I \cup {i}) = i + 1
  BY JoinedParts DEF AddFragment, NewFragment, NoGap
<1>2. IsFiniteSet(I) /\ I = 0..(Cardinality(I) - 1)
  BY <1>1 DEF Prefix, Assembled
<1>3. i \in Nat
  BY CompTyped DEF Components
<1>4. Joined(c).indexes = I \cup {i}
  BY <1>1
<1>5. IsFiniteSet(I \cup {i}) /\ I \cup {i} = 0..(Cardinality(I \cup {i}) - 1)
  <2> HIDE DEF I, i
  <2> QED BY <1>1, <1>2, <1>3, PrefixContinues
<1> QED BY <1>4, <1>5 DEF Prefix

LEMMA PrefixesNext ==
  ASSUME RxTypeOK, Control, FiniteIndexes, AssembliesArePrefixes, [Next]_vars
  PROVE  FiniteIndexes' /\ AssembliesArePrefixes'
<1>0. \A k \in DOMAIN store : Prefix(store[k])
  BY PrefixesStored
<1> USE <1>0
<1> SUFFICES \A k \in DOMAIN store' : Prefix(store'[k])
  BY DEF FiniteIndexes, AssembliesArePrefixes, Prefix
<1>1. CASE UNCHANGED store
  BY <1>1
<1>2. CASE HandleComponent
  <2> DEFINE c == Head(work)
  <2>1. c \in Ids
    <3>1. Handle
      BY <1>2 DEF HandleComponent, NotForUs, DeliverWhole, StartAssembly, MissFirst,
                  RepeatFragment, AddFragment, CompleteAssembly, GapFragment, NewFragment
    <3> QED BY <3>1, HandleLeaves
  <2> HIDE DEF c
  <2>2. CASE NotForUs(c) \/ DeliverWhole(c) \/ MissFirst(c) \/ RepeatFragment(c)
    BY <1>1, <2>2 DEF NotForUs, DeliverWhole, MissFirst, RepeatFragment
  <2>3. CASE StartAssembly(c)
    <3> DEFINE a == [indexes |-> {Comp(c).index}, parts |-> {c}, last |-> clock]
    <3>1. Cardinality({0}) = 1 /\ IsFiniteSet({0})
      BY FS_Singleton
    <3>2. a.indexes = {0} /\ {0} = 0..(Cardinality({0}) - 1)
      <4>1. {0} = 0..0
        OBVIOUS
      <4>2. a.indexes = {0}
        BY <2>3 DEF StartAssembly, FirstFragment
      <4> QED BY <3>1, <4>1, <4>2
    <3>3. Prefix(a)
      BY <3>1, <3>2 DEF Prefix
    <3>4. Put(Key(c), a)
      BY <2>3 DEF StartAssembly
    <3> HIDE DEF a
    <3> QED BY <3>3, <3>4, PrefixPut
  <2>4. CASE AddFragment(c)
    BY <2>1, <2>4, PrefixJoined, PrefixPut DEF AddFragment
  <2>5. CASE CompleteAssembly(c) \/ GapFragment(c)
    BY <2>5, PrefixErase DEF CompleteAssembly, GapFragment
  <2> QED BY <1>2, <2>2, <2>3, <2>4, <2>5 DEF HandleComponent, c
<1>3. CASE CheckAssemblies
  BY <1>1, <1>3, PrefixErase DEF CheckAssemblies, AbandonExpired
<1>4. ASSUME NEW s \in Sources, NEW lost \in 0..MaxLost, NEW n \in 1..MaxAggregate,
             Enqueue(s, lost, n)
      PROVE  UNCHANGED store
  <2>1. PICK m \in Seq(Ids) :
          EnqueueFirst(m) \/ EnqueueLater(m) \/ EnqueueEarlier(m) \/ EnqueueSameSlot(m)
    BY <1>4, EnqueueMessage
  <2> QED BY <2>1, ProcessCases
          DEF EnqueueFirst, EnqueueLater, EnqueueEarlier, EnqueueSameSlot
<1>5. ASSUME NEW t \in timers, ProcessCallback(t) PROVE UNCHANGED store
  BY <1>5, ProcessCases DEF ProcessCallback
<1>6. CASE KeepIncoming \/ Surroundings
  BY <1>1, <1>6 DEF KeepIncoming, Surroundings, Renumber, SetPromiscuousMode, Tick, vars, rxVars
<1> QED BY <1>1, <1>2, <1>3, <1>4, <1>5, <1>6, Steps

-----------------------------------------------------------------------------
(* The pending packet and its callback                                     *)

\* The numbering is told by the slot index: the two ranges are apart.
LEMMA NumberedProcess ==
  ASSUME RxTypeOK, Numbered, NEW index, Process(index), clock' = clock,
         \/ timers' = timers
         \/ \E t \in timers : t.index = index /\ timers' = timers \ {t}
  PROVE  Numbered'
<1>1. CASE pending' = 0
  BY <1>1 DEF Numbered
<1>2. CASE pending' = pending /\ pending + 1 # index
  <2>1. SUFFICES ASSUME pending # 0,
                        NEW b \in {0, Renumbered}, NEW t \in timers,
                        t.index = pending + 1, pending + 1 = b + t.due,
                        b < pending, pending <= b + clock
                 PROVE  t \in timers'
    BY <1>2 DEF Numbered
  <2> QED BY <1>2, <2>1
<1> QED BY <1>1, <1>2, ProcessCases DEF EndsPending

LEMMA NumberedKeep ==
  ASSUME RxTypeOK, Numbered, NEW m, Keep(m), clock' = clock
  PROVE  Numbered'
<1> DEFINE t == [index |-> SlotIndex(clock) + 1, due |-> clock + 1]
<1>1. clock \in Nat /\ clock > 0 /\ base \in {0, Renumbered} /\ Renumbered \in Nat
  BY TimeAssumption DEF RxTypeOK
<1>2. timers' = timers \cup {t} /\ pending' = base + clock
  BY DEF Keep, ArmProcess, SlotIndex
<1>3. t.index = (base + clock) + 1 /\ t.due = clock + 1
  BY DEF SlotIndex
<1>4. t.index = t.due \/ t.index = Renumbered + t.due
  BY <1>1, <1>3
<1>5. /\ t.index = pending' + 1 /\ pending' + 1 = base + t.due
      /\ base < pending' /\ pending' <= base + clock'
  BY <1>1, <1>2, <1>3
<1> HIDE DEF t
<1> QED BY <1>1, <1>2, <1>4, <1>5 DEF Numbered

LEMMA NumberedNext ==
  ASSUME RxTypeOK, Control, Numbered, [Next]_vars
  PROVE  Numbered'
<1>1. CASE UNCHANGED <<timers, pending, clock>>
  BY <1>1 DEF Numbered
<1>2. ASSUME NEW s \in Sources, NEW lost \in 0..MaxLost, NEW n \in 1..MaxAggregate,
             Enqueue(s, lost, n)
      PROVE  Numbered'
  <2>1. PICK m \in Seq(Ids) :
          EnqueueFirst(m) \/ EnqueueLater(m) \/ EnqueueEarlier(m) \/ EnqueueSameSlot(m)
    BY <1>2, EnqueueMessage
  <2>2. clock' = clock
    BY <1>2 DEF Enqueue
  <2>3. CASE EnqueueFirst(m) \/ EnqueueEarlier(m)
    BY <2>2, <2>3, NumberedKeep DEF EnqueueFirst, EnqueueEarlier
  <2>4. CASE EnqueueLater(m)
    BY <2>2, <2>4, NumberedProcess DEF EnqueueLater
  <2>5. CASE EnqueueSameSlot(m)
    BY <1>1, <2>2, <2>5 DEF EnqueueSameSlot
  <2> QED BY <2>1, <2>3, <2>4, <2>5
<1>3. ASSUME NEW t \in timers, ProcessCallback(t) PROVE Numbered'
  BY <1>3, NumberedProcess DEF ProcessCallback, envVars
<1>4. CASE HandleComponent
  <2>1. Handle
    BY <1>4 DEF HandleComponent, NotForUs, DeliverWhole, StartAssembly, MissFirst,
                RepeatFragment, AddFragment, CompleteAssembly, GapFragment, NewFragment
  <2> QED BY <1>1, <2>1 DEF Handle, envVars
<1>5. CASE CheckAssemblies
  BY <1>1, <1>5 DEF CheckAssemblies, envVars
<1>6. CASE KeepIncoming
  BY <1>6, NumberedKeep DEF KeepIncoming, envVars
<1>7. CASE Tick
  <2>1. clock' = clock + 1 /\ UNCHANGED <<timers, pending>>
    BY <1>7 DEF Tick, rxVars
  <2>2. clock \in Nat /\ pending \in Nat /\ Renumbered \in Nat
    BY TimeAssumption DEF RxTypeOK
  <2> QED BY <2>1, <2>2 DEF Numbered
<1>8. CASE Renumber \/ SetPromiscuousMode \/ UNCHANGED vars
  BY <1>1, <1>8 DEF Renumber, SetPromiscuousMode, vars, envVars, rxVars
<1> QED BY <1>2, <1>3, <1>4, <1>5, <1>6, <1>7, <1>8, Steps DEF Surroundings

-----------------------------------------------------------------------------
(* No component is in two places                                           *)

LEMMA InMessagesNext ==
  InMessages' = Parts(held') \cup Parts(work') \cup Parts(incoming')
  BY DEF InMessages, Parts

LEMMA OnceNext ==
  MessagesApart' <=>
    /\ Once(held') /\ Once(work') /\ Once(incoming')
    /\ Parts(held') \cap Parts(work') = {}
    /\ Parts(held') \cap Parts(incoming') = {}
    /\ Parts(work') \cap Parts(incoming') = {}
    /\ Settled' \cap (Parts(held') \cup Parts(work') \cup Parts(incoming')) = {}
  BY InMessagesNext DEF MessagesApart, Once, Parts

\* What arrives is nowhere yet.
LEMMA MessageIsNew ==
  ASSUME RxTypeOK, ReceivedWasSent, EveryComponentAccounted, NEW s \in Sources, NEW m \in Seq(Ids),
         \A c \in Parts(m) : c[1] = s /\ sent[s] < c[2]
  PROVE  /\ Parts(m) \cap (InMessages \cup Settled) = {}
         /\ \A k \in DOMAIN store : store[k].parts \cap Parts(m) = {}
<1>1. \A c \in Parts(m) : c \notin received
  <2>1. SUFFICES ASSUME NEW c \in Parts(m), c \in received PROVE FALSE
    OBVIOUS
  <2>2. c[2] \in Nat /\ sent[s] \in Nat
    BY <2>1, CompTyped DEF RxTypeOK
  <2> QED BY <2>1, <2>2 DEF ReceivedWasSent
<1>2. received = Settled \cup InMessages \cup Stored({})
  BY InHandIs DEF EveryComponentAccounted, Settled, InMessages
<1>3. \A k \in DOMAIN store : store[k].parts \subseteq Stored({})
  BY DEF Stored
<1> QED BY <1>1, <1>2, <1>3

\* A step that moves components between the messages and the fates, and leaves the
\* assemblies and what was delivered.
LEMMA ApartMoves ==
  ASSUME Apart, UNCHANGED <<store, delivered>>,
         NEW M, \A k \in DOMAIN store : store[k].parts \cap M = {},
         M \cap Settled = {},
         InMessages' \cup Settled' \subseteq InMessages \cup Settled \cup M,
         reported' \cup dropped' \subseteq reported \cup dropped \cup InMessages \cup M
  PROVE  StoreApart' /\ FatesApart'
<1>1. StoreApart'
  BY DEF Apart, StoreApart, Key, Comp
<1>2. (UNION delivered) \cap (reported' \cup dropped') = {}
  BY DEF Apart, MessagesApart, FatesApart, Settled
<1>3. FatesApart'
  BY <1>2 DEF Apart, FatesApart
<1> QED BY <1>1, <1>3

SettledNext == (UNION delivered') \cup reported' \cup ignored' \cup dropped'

LEMMA SettledNextIs == Settled' = SettledNext
  BY DEF Settled, SettledNext

\* process() begins with nothing at work and no more than the new message to keep.
LEMMA ApartProcess ==
  ASSUME RxTypeOK, Control, Apart, pc = "idle", NEW index, Process(index),
         NEW m \in Seq(Ids), Once(m), incoming' = m,
         Parts(m) \cap (InMessages \cup Settled) = {},
         \A k \in DOMAIN store : store[k].parts \cap Parts(m) = {}
  PROVE  Apart'
<1>1. /\ work = <<>> /\ Parts(work) = {} /\ incoming = <<>> /\ Parts(incoming) = {}
      /\ Parts(<<>>) = {} /\ Once(<<>>)
  BY NoParts DEF Control
<1>2. /\ UNCHANGED <<store, delivered, ignored, dropped>>
      /\ \/ held' = <<>> /\ work' = work /\ reported' = reported \cup Parts(held)
         \/ held' = <<>> /\ work' = held /\ reported' = reported
         \/ UNCHANGED <<held, work, reported>>
  BY ProcessCases DEF Report
<1>3. /\ Once(held) /\ Settled \cap Parts(held) = {} /\ InMessages = Parts(held)
  BY <1>1 DEF Apart, MessagesApart, InMessages
<1>4. Once(held') /\ Once(work') /\ Parts(held') \cap Parts(work') = {}
  BY <1>1, <1>2, <1>3
<1>5. Parts(held') \cup Parts(work') \subseteq Parts(held)
  BY <1>1, <1>2
<1>6. /\ SettledNext \cup Parts(held') \cup Parts(work') = Settled \cup Parts(held)
      /\ SettledNext \cap (Parts(held') \cup Parts(work')) = {}
  BY <1>1, <1>2, <1>3 DEF Settled, SettledNext
<1>7. MessagesApart'
  BY <1>3, <1>4, <1>5, <1>6, OnceNext, SettledNextIs
<1>8. /\ InMessages' \cup Settled' \subseteq InMessages \cup Settled \cup Parts(m)
      /\ reported' \cup dropped' \subseteq reported \cup dropped \cup InMessages \cup Parts(m)
  BY <1>2, <1>3, <1>5, <1>6, InMessagesNext, SettledNextIs
<1>9. StoreApart' /\ FatesApart'
  BY <1>2, <1>8, ApartMoves
<1> QED BY <1>7, <1>9 DEF Apart

LEMMA ApartEnqueue ==
  ASSUME RxTypeOK, Control, ReceivedWasSent, EveryComponentAccounted, Apart,
         NEW s \in Sources, NEW lost \in 0..MaxLost, NEW n \in 1..MaxAggregate,
         Enqueue(s, lost, n)
  PROVE  Apart'
<1>1. PICK m \in Seq(Ids) :
        /\ Once(m) /\ \A c \in Parts(m) : c[1] = s /\ sent[s] < c[2] /\ c[2] <= sent'[s]
        /\ EnqueueFirst(m) \/ EnqueueLater(m) \/ EnqueueEarlier(m) \/ EnqueueSameSlot(m)
  BY EnqueueMessage
<1>2. /\ Parts(m) \cap (InMessages \cup Settled) = {}
      /\ \A k \in DOMAIN store : store[k].parts \cap Parts(m) = {}
  BY <1>1, MessageIsNew
<1>3. /\ pc = "idle" /\ work = <<>> /\ incoming = <<>> /\ Parts(<<>>) = {} /\ Once(<<>>)
  BY NoParts DEF Enqueue, Control
<1>4. CASE EnqueueFirst(m) \/ EnqueueEarlier(m) \/ EnqueueSameSlot(m)
  <2>1. /\ UNCHANGED <<store, work, incoming, delivered, reported, ignored>>
        /\ \/ held' = m /\ dropped' = dropped \cup Parts(held)
           \/ held' = held /\ dropped' = dropped \cup Parts(m)
    BY <1>4 DEF EnqueueFirst, EnqueueEarlier, EnqueueSameSlot, Keep, runVars
  <2>2. Once(held) /\ Settled \cap Parts(held) = {} /\ InMessages = Parts(held)
    BY <1>3 DEF Apart, MessagesApart, InMessages
  <2>3. /\ Once(held') /\ SettledNext \cap Parts(held') = {}
        /\ SettledNext \cup Parts(held') = Settled \cup Parts(held) \cup Parts(m)
    BY <1>1, <1>2, <2>1, <2>2 DEF Settled, SettledNext
  <2>4. Parts(work') = {} /\ Parts(incoming') = {} /\ Once(work') /\ Once(incoming')
    BY <1>3, <2>1
  <2>5. MessagesApart'
    BY <2>3, <2>4, OnceNext, SettledNextIs
  <2>6. /\ InMessages' \cup Settled' \subseteq InMessages \cup Settled \cup Parts(m)
        /\ reported' \cup dropped' \subseteq reported \cup dropped \cup InMessages \cup Parts(m)
    BY <2>1, <2>2, <2>3, <2>4, InMessagesNext, SettledNextIs
  <2>7. StoreApart' /\ FatesApart'
    BY <1>2, <2>1, <2>6, ApartMoves
  <2> QED BY <2>5, <2>7 DEF Apart
<1>5. CASE EnqueueLater(m)
  BY <1>1, <1>2, <1>3, <1>5, ApartProcess DEF EnqueueLater
<1> QED BY <1>1, <1>4, <1>5

LEMMA ApartCallback ==
  ASSUME RxTypeOK, Control, Apart, NEW t \in timers, ProcessCallback(t)
  PROVE  Apart'
<1>1. pc = "idle" /\ incoming' = <<>> /\ Process(t.index)
  BY DEF ProcessCallback
<1> QED BY <1>1, NoParts, EmptyMessage, ApartProcess

LEMMA ApartKeep ==
  ASSUME Apart, KeepIncoming
  PROVE  Apart'
<1>1. /\ UNCHANGED <<store, work, delivered, reported, ignored>>
      /\ held' = incoming /\ incoming' = <<>> /\ dropped' = dropped \cup Parts(held)
  BY DEF KeepIncoming, Keep
<1>2. SettledNext = Settled \cup Parts(held) /\ Parts(incoming') = {} /\ Once(incoming')
  BY <1>1, NoParts DEF Settled, SettledNext
<1>3. /\ Once(held') /\ Once(work') /\ Parts(held') = Parts(incoming)
      /\ Parts(work') = Parts(work)
  BY <1>1 DEF Apart, MessagesApart
<1>4. MessagesApart'
  BY <1>2, <1>3, OnceNext, SettledNextIs DEF Apart, MessagesApart, InMessages
<1> DEFINE M == {}
<1>5. /\ InMessages' \cup Settled' \subseteq InMessages \cup Settled \cup M
      /\ reported' \cup dropped' \subseteq reported \cup dropped \cup InMessages \cup M
  BY <1>1, <1>2, <1>3, InMessagesNext, SettledNextIs DEF InMessages
<1>6. (\A k \in DOMAIN store : store[k].parts \cap M = {}) /\ M \cap Settled = {}
  OBVIOUS
<1>7. StoreApart' /\ FatesApart'
  <2> HIDE DEF M
  <2> QED BY <1>1, <1>5, <1>6, ApartMoves
<1> QED BY <1>4, <1>7 DEF Apart

LEMMA ApartSurroundings ==
  ASSUME Apart, Surroundings
  PROVE  Apart'
<1>1. UNCHANGED <<held, work, incoming, store, delivered, reported, ignored, dropped>>
  BY DEF Surroundings, Renumber, SetPromiscuousMode, Tick, vars, rxVars, runVars, historyVars
<1> QED BY <1>1 DEF Apart, MessagesApart, StoreApart, FatesApart, Settled, InMessages, Once,
                    Parts, Key, Comp

\* The assemblies given up go, each with its own fragments.
LEMMA ApartCheck ==
  ASSUME Apart, CheckAssemblies
  PROVE  Apart'
<1>1. UNCHANGED <<held, work, incoming, delivered, ignored, dropped>>
  BY DEF CheckAssemblies
<1>2. InMessages' = InMessages
  BY <1>1 DEF InMessages, Parts
<1>3. CASE UNCHANGED <<store, reported>>
  BY <1>1, <1>3 DEF Apart, MessagesApart, StoreApart, FatesApart, Settled, InMessages, Once,
                    Parts, Key, Comp
<1>4. CASE AbandonExpired
  <2> DEFINE gone == UNION {store[k].parts : k \in Expired}
  <2>1. /\ reported' = reported \cup gone
        /\ DOMAIN store' = DOMAIN store \ Expired
        /\ \A k \in DOMAIN store' : store'[k] = store[k]
        /\ Expired \subseteq DOMAIN store
    BY <1>4 DEF AbandonExpired, Report, Erase, Expired
  <2>2. \A c \in gone : Key(c) \in Expired /\ c \notin InMessages /\ c \notin Settled
    BY <2>1 DEF Apart, StoreApart
  <2> HIDE DEF gone
  <2>3. SettledNext = Settled \cup gone
    BY <1>1, <2>1 DEF Settled, SettledNext
  <2>4. SettledNext \cap InMessages = {}
    BY <2>2, <2>3 DEF Apart, MessagesApart
  <2>5. MessagesApart'
    BY <1>1, <1>2, <2>4, OnceNext, InMessagesNext, SettledNextIs DEF Apart, MessagesApart
  <2>6. ASSUME NEW k \in DOMAIN store', NEW c \in store'[k].parts
        PROVE  Key(c) = k /\ c \notin InMessages' /\ c \notin Settled'
    <3>1. k \in DOMAIN store /\ k \notin Expired /\ c \in store[k].parts
      BY <2>1, <2>6
    <3>2. Key(c) = k /\ c \notin InMessages /\ c \notin Settled
      BY <3>1 DEF Apart, StoreApart
    <3> QED BY <1>2, <2>2, <2>3, <3>1, <3>2, SettledNextIs
  <2>7. StoreApart'
    BY <2>6 DEF StoreApart, Key, Comp
  <2>8. (UNION delivered) \cap (reported' \cup dropped') = {}
    BY <1>1, <2>1, <2>2 DEF Apart, FatesApart, Settled
  <2> QED BY <1>1, <2>5, <2>7, <2>8 DEF Apart, FatesApart
<1> QED BY <1>3, <1>4 DEF CheckAssemblies

\* What every turn of the loop starts from: its component is in no other place.
LEMMA TurnOf ==
  ASSUME RxTypeOK, Control, Apart, Handle
  PROVE  /\ Head(work) \notin Settled
         /\ \A k \in DOMAIN store : Head(work) \notin store[k].parts
         /\ Head(work) \notin Parts(held) \cup Parts(work') \cup Parts(incoming)
         /\ InMessages' \subseteq InMessages /\ InMessages' \cap Settled = {}
         /\ InMessages = InMessages' \cup {Head(work)} /\ Head(work) \notin InMessages'
         /\ Once(held') /\ Once(work') /\ Once(incoming')
         /\ Parts(held') \cap Parts(work') = {}
         /\ Parts(held') \cap Parts(incoming') = {}
         /\ Parts(work') \cap Parts(incoming') = {}
<1>1. /\ Parts(work) = {Head(work)} \cup Parts(work')
      /\ Once(work') /\ Head(work) \notin Parts(work')
      /\ UNCHANGED <<dropped, held, incoming>>
  BY HandleLeaves DEF Apart, MessagesApart
<1>2. InMessages' = Parts(held) \cup Parts(work') \cup Parts(incoming)
  BY <1>1, InMessagesNext
<1>3. InMessages = Parts(held) \cup Parts(work) \cup Parts(incoming)
  BY DEF InMessages
<1>4. /\ Parts(held) \cap Parts(work) = {} /\ Parts(work) \cap Parts(incoming) = {}
      /\ Parts(held) \cap Parts(incoming) = {} /\ Settled \cap InMessages = {}
      /\ Once(held) /\ Once(incoming)
  BY DEF Apart, MessagesApart
<1>5. \A k \in DOMAIN store : Head(work) \notin store[k].parts
  BY <1>1, <1>3 DEF Apart, StoreApart
<1> QED BY <1>1, <1>2, <1>3, <1>4, <1>5

\* A component and the assembly it would join.
Group(c) == {c} \cup UNION {store[k].parts : k \in DOMAIN store \cap {Key(c)}}

LEMMA GroupIs ==
  ASSUME RxTypeOK, Control, Apart, Handle
  PROVE  /\ Group(Head(work)) \cap Settled = {}
         /\ \A d \in Group(Head(work)) : Key(d) = Key(Head(work)) /\ d \notin InMessages'
  BY TurnOf DEF Group, Apart, StoreApart

\* A turn that settles components of one group and changes that group's assembly only.
LEMMA ApartTurn ==
  ASSUME RxTypeOK, Control, Apart, Handle,
         NEW old \in SUBSET Group(Head(work)), Settled' \subseteq Settled \cup old,
         \A j \in DOMAIN store' :
            \/ j # Key(Head(work)) /\ j \in DOMAIN store /\ store'[j] = store[j]
            \/ /\ j = Key(Head(work))
               /\ store'[j].parts \subseteq Group(Head(work)) \ old
  PROVE  MessagesApart' /\ StoreApart'
<1> DEFINE c == Head(work)
<1>1. InMessages' \subseteq InMessages /\ InMessages' \cap Settled = {}
  BY TurnOf
<1>2. \A d \in Group(c) : Key(d) = Key(c) /\ d \notin InMessages' /\ d \notin Settled
  BY GroupIs
<1>3. SettledNext \cap InMessages' = {} /\ SettledNext \subseteq Settled \cup old
  BY <1>1, <1>2, SettledNextIs
<1>4. MessagesApart'
  BY <1>3, TurnOf, OnceNext, InMessagesNext, SettledNextIs
<1>5. ASSUME NEW j \in DOMAIN store', NEW d \in store'[j].parts
      PROVE  Key(d) = j /\ d \notin InMessages' /\ d \notin SettledNext
  <2>1. CASE j # Key(c) /\ j \in DOMAIN store /\ store'[j] = store[j]
    <3>1. Key(d) = j /\ d \notin InMessages /\ d \notin Settled
      BY <1>5, <2>1 DEF Apart, StoreApart
    <3> QED BY <1>1, <1>2, <1>3, <2>1, <3>1
  <2>2. CASE j = Key(c) /\ store'[j].parts \subseteq Group(c) \ old
    BY <1>2, <1>3, <1>5, <2>2
  <2> QED BY <1>5, <2>1, <2>2
<1>6. StoreApart'
  BY <1>5, SettledNextIs DEF StoreApart, Key, Comp
<1> QED BY <1>4, <1>6

LEMMA FatesSettle ==
  ASSUME FatesApart, NEW old, old \cap Settled = {}, dropped' = dropped,
         \/ delivered' = delivered /\ reported' = reported
         \/ delivered' = delivered /\ reported' = reported \cup old
         \/ delivered' = delivered \cup {old} /\ reported' = reported
  PROVE  FatesApart'
<1>1. \A d \in delivered : d \cap old = {}
  BY DEF Settled
<1>2. (reported \cup dropped) \cap old = {}
  BY DEF Settled
<1> QED BY <1>1, <1>2 DEF FatesApart

LEMMA ApartComponent ==
  ASSUME RxTypeOK, Control, Apart, HandleComponent
  PROVE  Apart'
<1> DEFINE c == Head(work)
<1>1. Handle
  BY DEF HandleComponent, NotForUs, DeliverWhole, StartAssembly, MissFirst, RepeatFragment,
         AddFragment, CompleteAssembly, GapFragment, NewFragment
<1>2. /\ Group(c) \cap Settled = {} /\ c \in Group(c) /\ dropped' = dropped
      /\ \A k \in DOMAIN store : c \notin store[k].parts
  BY <1>1, GroupIs, TurnOf DEF Group, Handle
<1>3. FatesApart
  BY DEF Apart
<1>4. \A k \in DOMAIN store : k = Key(c) => store[k].parts \subseteq Group(c)
  BY DEF Group
<1>5. SUFFICES \E old \in SUBSET Group(c) :
                 /\ Settled' \subseteq Settled \cup old
                 /\ \A j \in DOMAIN store' :
                      \/ j # Key(c) /\ j \in DOMAIN store /\ store'[j] = store[j]
                      \/ j = Key(c) /\ store'[j].parts \subseteq Group(c) \ old
                 /\ FatesApart'
  BY <1>1, ApartTurn DEF Apart
<1> HIDE DEF c
<1>6. CASE NotForUs(c) \/ DeliverWhole(c) \/ MissFirst(c) \/ RepeatFragment(c)
  <2> DEFINE own == {c}
  <2>1. /\ UNCHANGED store
        /\ \/ delivered' = delivered /\ reported' = reported
           \/ delivered' = delivered /\ reported' = reported \cup own
           \/ delivered' = delivered \cup {own} /\ reported' = reported
        /\ ignored' \subseteq ignored \cup own
    BY <1>6 DEF NotForUs, DeliverWhole, MissFirst, RepeatFragment, Report
  <2>2. own \in SUBSET Group(c) /\ own \cap Settled = {}
    BY <1>2
  <2>3. \A k \in DOMAIN store : own \cap store[k].parts = {}
    BY <1>2
  <2> HIDE DEF own
  <2>4. Settled' \subseteq Settled \cup own
    BY <1>2, <2>1 DEF Settled
  <2>5. FatesApart'
    BY <1>2, <1>3, <2>1, <2>2, FatesSettle
  <2>6. \A j \in DOMAIN store' :
          \/ j # Key(c) /\ j \in DOMAIN store /\ store'[j] = store[j]
          \/ j = Key(c) /\ store'[j].parts \subseteq Group(c) \ own
    BY <1>4, <2>1, <2>3
  <2> QED BY <2>2, <2>4, <2>5, <2>6
<1>7. CASE StartAssembly(c)
  <2> DEFINE a == [indexes |-> {Comp(c).index}, parts |-> {c}, last |-> clock]
  <2>1. Put(Key(c), a) /\ UNCHANGED <<delivered, reported, ignored>>
    BY <1>7 DEF StartAssembly
  <2>2. a.parts \subseteq Group(c) \ {}
    BY <1>2
  <2>3. FatesApart' /\ Settled' \subseteq Settled \cup {}
    BY <1>2, <1>3, <2>1 DEF FatesApart, Settled
  <2> HIDE DEF a
  <2>4. \A j \in DOMAIN store' :
          \/ j # Key(c) /\ j \in DOMAIN store /\ store'[j] = store[j]
          \/ j = Key(c) /\ store'[j].parts \subseteq Group(c) \ {}
    BY <2>1, <2>2 DEF Put
  <2> QED BY <2>3, <2>4
<1>8. CASE AddFragment(c) \/ CompleteAssembly(c) \/ GapFragment(c)
  <2> DEFINE all == Joined(c).parts
  <2>1. Assembled(c) /\ ignored' = ignored \cup ({c} \ all)
    BY <1>8 DEF AddFragment, CompleteAssembly, GapFragment, NewFragment
  <2>2. all \subseteq Group(c) /\ {c} \ all \subseteq Group(c)
    BY <1>2, <1>4, <2>1, JoinedParts
  <2>3. CASE AddFragment(c)
    <3>1. Put(Key(c), Joined(c)) /\ UNCHANGED <<delivered, reported>>
      BY <2>3 DEF AddFragment
    <3>2. FatesApart' /\ Settled' \subseteq Settled \cup ({c} \ all)
      BY <1>2, <1>3, <2>1, <3>1 DEF FatesApart, Settled
    <3>3. all \subseteq Group(c) \ ({c} \ all)
      BY <2>2
    <3>4. \A j \in DOMAIN store' :
            \/ j # Key(c) /\ j \in DOMAIN store /\ store'[j] = store[j]
            \/ j = Key(c) /\ store'[j].parts \subseteq Group(c) \ ({c} \ all)
      BY <3>1, <3>3 DEF Put
    <3> QED BY <2>2, <3>2, <3>4
  <2>4. CASE CompleteAssembly(c) \/ GapFragment(c)
    <3>1. /\ Erase({Key(c)})
          /\ \/ delivered' = delivered /\ reported' = reported \cup all
             \/ delivered' = delivered \cup {all} /\ reported' = reported
      BY <2>4 DEF CompleteAssembly, GapFragment
    <3>2. all \cap Settled = {}
      BY <1>2, <2>2
    <3> HIDE DEF all
    <3>3. FatesApart'
      BY <1>2, <1>3, <3>1, <3>2, FatesSettle
    <3>4. all \cup ({c} \ all) \in SUBSET Group(c)
      BY <2>2
    <3>5. Settled' \subseteq Settled \cup (all \cup ({c} \ all))
      BY <1>2, <2>1, <3>1 DEF Settled
    <3>6. \A j \in DOMAIN store' : j # Key(c) /\ j \in DOMAIN store /\ store'[j] = store[j]
      BY <3>1 DEF Erase
    <3> QED BY <3>3, <3>4, <3>5, <3>6
  <2> QED BY <1>8, <2>3, <2>4
<1> QED BY <1>6, <1>7, <1>8 DEF HandleComponent, c

LEMMA ApartNext ==
  ASSUME RxTypeOK, Control, ReceivedWasSent, EveryComponentAccounted, Apart, [Next]_vars
  PROVE  Apart'
  BY Steps, ApartEnqueue, ApartCallback, ApartComponent, ApartCheck, ApartKeep,
     ApartSurroundings

-----------------------------------------------------------------------------
(* What goes up is whole                                                   *)

\* Two fragments of one packet have neither index nor offset in common.
LEMMA FragmentsDiffer ==
  ASSUME NEW c \in Ids, NEW d \in Ids, c # d, c[1] = d[1], Comp(c).packet = Comp(d).packet
  PROVE  /\ Comp(c).index # Comp(d).index /\ Comp(c).offset # Comp(d).offset
         /\ ~Comp(c).more => Comp(d).index < Comp(c).index
<1>1. PICK s \in Sources : c \in {s} \X DOMAIN Stream[s]
  BY DEF Ids
<1>2. PICK r \in Sources : d \in {r} \X DOMAIN Stream[r]
  BY DEF Ids
<1>3. r = s
  BY <1>1, <1>2
<1>4. /\ c = <<s, c[2]>> /\ d = <<s, d[2]>>
      /\ c[2] \in DOMAIN Stream[s] /\ d[2] \in DOMAIN Stream[s]
  BY <1>1, <1>2, <1>3
<1>5. c[2] # d[2]
  BY <1>4
<1>6. Comp(c) = Stream[s][c[2]] /\ Comp(d) = Stream[s][d[2]]
  BY <1>1, <1>2, <1>3 DEF Comp
<1> QED BY <1>4, <1>5, <1>6, FragmentsAssumption

\* A fragment that is not marked yet finds its offset free in an assembly whose packets
\* have their sequence number to themselves.
LEMMA OffsetFree ==
  ASSUME NEW c \in Ids, NEW parts \in SUBSET Ids, OwnSequence(c),
         \A d \in parts : Key(d) = Key(c) /\ Comp(d).index # Comp(c).index
  PROVE  ~HasOffset(parts, c)
<1> SUFFICES ASSUME NEW d \in parts, Comp(d).offset = Comp(c).offset PROVE FALSE
  BY DEF HasOffset
<1>1. d \in Ids /\ d # c /\ d[1] = c[1]
  BY DEF Key
<1>2. Comp(d).packet = Comp(c).packet
  BY <1>1 DEF OwnSequence
<1> QED BY <1>1, <1>2, FragmentsDiffer

LEMMA NewFragmentFinds ==
  ASSUME RxTypeOK, StoreApart, AssembliesKept, NEW c \in Ids, NewFragment(c)
  PROVE  /\ Assembled(c) /\ Kept(store[Key(c)]) /\ store[Key(c)].parts \in SUBSET Ids
         /\ \A d \in store[Key(c)].parts : Key(d) = Key(c) /\ Comp(d).index # Comp(c).index
<1>1. Assembled(c) /\ Comp(c).index \notin store[Key(c)].indexes
  BY DEF NewFragment
<1>2. Key(c) \in DOMAIN store /\ store[Key(c)] \in Assemblies
  BY <1>1 DEF Assembled, RxTypeOK
<1>3. Kept(store[Key(c)])
  BY <1>2 DEF AssembliesKept
<1> QED BY <1>1, <1>2, <1>3 DEF Kept, StoreApart, Assemblies

LEMMA JoinedKept ==
  ASSUME RxTypeOK, StoreApart, AssembliesKept, NEW c \in Ids, NewFragment(c)
  PROVE  /\ Kept(Joined(c))
         /\ \A d \in Joined(c).parts : d \in Ids /\ Key(d) = Key(c)
<1> DEFINE a == store[Key(c)]
           b == Joined(c)
<1>1. /\ Assembled(c) /\ Kept(a) /\ a.parts \in SUBSET Ids
      /\ \A d \in a.parts : Key(d) = Key(c) /\ Comp(d).index # Comp(c).index
  BY NewFragmentFinds
<1>2. /\ b.parts \subseteq a.parts \cup {c} /\ a.parts \subseteq b.parts
      /\ b.indexes = a.indexes \cup {Comp(c).index}
  BY <1>1, JoinedParts
<1>3. \A d \in b.parts : Comp(d).index \in b.indexes
  BY <1>1, <1>2 DEF Kept
<1>4. ASSUME \A d \in b.parts : OwnSequence(d)
      PROVE  b.indexes \subseteq {Comp(d).index : d \in b.parts}
  <2>1. c \in b.parts
    <3>1. CASE a.parts = {}
      BY <3>1 DEF Joined, HasOffset
    <3>2. CASE a.parts # {}
      <4>1. PICK d \in a.parts : OwnSequence(d) /\ Key(d) = Key(c) /\ d \in Ids
        BY <1>1, <1>2, <1>4, <3>2
      <4>2. OwnSequence(c)
        BY <4>1 DEF OwnSequence
      <4>3. ~HasOffset(a.parts, c)
        BY <1>1, <4>2, OffsetFree
      <4> QED BY <4>3 DEF Joined
    <3> QED BY <3>1, <3>2
  <2>2. a.indexes \subseteq {Comp(d).index : d \in a.parts}
    BY <1>1, <1>2, <1>4 DEF Kept
  <2> QED BY <1>2, <2>1, <2>2
<1>5. Kept(b)
  BY <1>3, <1>4 DEF Kept
<1>6. \A d \in b.parts : d \in Ids /\ Key(d) = Key(c)
  BY <1>1, <1>2
<1> QED BY <1>5, <1>6

\* An assembly completed by its last fragment is the whole packet.
LEMMA CompleteIsWhole ==
  ASSUME RxTypeOK, StoreApart, AssembliesKept, FiniteIndexes, AssembliesArePrefixes,
         NEW c \in Ids, CompleteAssembly(c), NEW e \in Joined(c).parts, OwnSequence(e)
  PROVE  Joined(c).parts = FragmentsOf(e)
<1> DEFINE d == Joined(c).parts
           I == Joined(c).indexes
<1>1. /\ NewFragment(c) /\ ~Comp(c).more /\ Cardinality(I) = Comp(c).index + 1
      /\ Comp(c).index \in Nat
  BY CompTyped DEF CompleteAssembly, NoGap, Components
<1>2. Kept(Joined(c)) /\ \A f \in d : f \in Ids /\ Key(f) = Key(c)
  BY <1>1, JoinedKept
<1>3. e \in Ids /\ OwnSequence(c)
  BY <1>2 DEF OwnSequence
<1>4. \A f \in d : f[1] = e[1] /\ Comp(f).packet = Comp(e).packet /\ OwnSequence(f)
  BY <1>2, <1>3 DEF OwnSequence, Key
<1>5. c[1] = e[1] /\ Comp(c).packet = Comp(e).packet
  BY <1>2, <1>3 DEF OwnSequence, Key
<1>6. d \subseteq FragmentsOf(e)
  BY <1>2, <1>4 DEF FragmentsOf
<1>7. I = 0..Comp(c).index
  <2>1. Assembled(c) /\ Comp(c).index \notin store[Key(c)].indexes
    BY <1>1 DEF NewFragment
  <2>2. I = store[Key(c)].indexes \cup {Comp(c).index} /\ Prefix(store[Key(c)])
    BY <2>1, JoinedParts, PrefixesStored
  <2>3. I = 0..(Cardinality(I) - 1)
    <3> HIDE DEF I
    <3> QED BY <1>1, <2>1, <2>2, PrefixContinues DEF Prefix
  <2>4. Cardinality(I) - 1 = Comp(c).index
    BY <1>1
  <2> QED BY <2>3, <2>4
<1>8. ASSUME NEW f \in FragmentsOf(e) PROVE f \in d
  <2>1. f \in Ids /\ f[1] = c[1] /\ Comp(f).packet = Comp(c).packet /\ Comp(f).index \in Nat
    BY <1>5, CompTyped DEF FragmentsOf, Components
  <2>2. Comp(f).index <= Comp(c).index
    BY <1>1, <2>1, FragmentsDiffer
  <2>3. Comp(f).index \in I
    BY <1>1, <1>7, <2>1, <2>2
  <2>4. PICK g \in d : Comp(g).index = Comp(f).index
    BY <1>2, <1>4, <2>3 DEF Kept
  <2>5. g \in Ids /\ g[1] = f[1] /\ Comp(g).packet = Comp(f).packet
    BY <1>2, <1>4, <1>5, <2>1
  <2>6. g = f
    BY <2>1, <2>4, <2>5, FragmentsDiffer
  <2> QED BY <2>6
<1> QED BY <1>6, <1>8

LEMMA KeptPut ==
  ASSUME AssembliesKept, NEW k, NEW a, Kept(a), Put(k, a)
  PROVE  \A j \in DOMAIN store' : Kept(store'[j])
  BY DEF Put, AssembliesKept

LEMMA KeptErase ==
  ASSUME AssembliesKept, NEW keys, Erase(keys)
  PROVE  \A j \in DOMAIN store' : Kept(store'[j])
  BY DEF Erase, AssembliesKept

\* What one packet sent up has to be.
Intact(d) == \A c \in d : Comp(c).fragment /\ OwnSequence(c) => d = FragmentsOf(c)

LEMMA WholeComponent ==
  ASSUME RxTypeOK, Control, StoreApart, AssembliesKept, FiniteIndexes, AssembliesArePrefixes,
         DeliveredWhole, HandleComponent
  PROVE  /\ \A k \in DOMAIN store' : Kept(store'[k])
         /\ \A d \in delivered' : Intact(d)
<1> DEFINE c == Head(work)
<1>1. \A k \in DOMAIN store : Kept(store[k])
  BY DEF AssembliesKept
<1>2. \A d \in delivered : Intact(d)
  BY DEF DeliveredWhole, Intact
<1>3. c \in Ids
  <2>1. Handle
    BY DEF HandleComponent, NotForUs, DeliverWhole, StartAssembly, MissFirst,
           RepeatFragment, AddFragment, CompleteAssembly, GapFragment, NewFragment
  <2> QED BY <2>1, HandleLeaves
<1> HIDE DEF c
<1>4. CASE NotForUs(c) \/ MissFirst(c) \/ RepeatFragment(c)
  BY <1>1, <1>2, <1>4 DEF NotForUs, MissFirst, RepeatFragment
<1>5. CASE DeliverWhole(c)
  <2>1. Intact({c})
    BY <1>5 DEF DeliverWhole, Intact
  <2> QED BY <1>1, <1>2, <1>5, <2>1 DEF DeliverWhole
<1>6. CASE StartAssembly(c)
  <2> DEFINE a == [indexes |-> {Comp(c).index}, parts |-> {c}, last |-> clock]
  <2>1. Kept(a)
    BY DEF Kept
  <2>2. Put(Key(c), a) /\ delivered' = delivered
    BY <1>6 DEF StartAssembly
  <2> HIDE DEF a
  <2> QED BY <1>2, <2>1, <2>2, KeptPut
<1>7. CASE AddFragment(c)
  <2>1. Kept(Joined(c))
    BY <1>3, <1>7, JoinedKept DEF AddFragment
  <2> QED BY <1>2, <1>7, <2>1, KeptPut DEF AddFragment
<1>8. CASE CompleteAssembly(c)
  <2>1. Intact(Joined(c).parts)
    BY <1>3, <1>8, CompleteIsWhole DEF Intact
  <2>2. delivered' = delivered \cup {Joined(c).parts} /\ Erase({Key(c)})
    BY <1>8 DEF CompleteAssembly
  <2> QED BY <1>2, <2>1, <2>2, KeptErase
<1>9. CASE GapFragment(c)
  BY <1>2, <1>9, KeptErase DEF GapFragment
<1> QED BY <1>4, <1>5, <1>6, <1>7, <1>8, <1>9 DEF HandleComponent, c

LEMMA WholeNext ==
  ASSUME RxTypeOK, Control, StoreApart, AssembliesKept, FiniteIndexes, AssembliesArePrefixes,
         DeliveredWhole, [Next]_vars
  PROVE  AssembliesKept' /\ DeliveredWhole'
<1> SUFFICES /\ \A k \in DOMAIN store' : Kept(store'[k])
             /\ \A d \in delivered' : Intact(d)
  BY DEF AssembliesKept, Kept, DeliveredWhole, Intact, OwnSequence, FragmentsOf, Comp, Key, Ids
<1>1. CASE UNCHANGED <<store, delivered>>
  BY <1>1 DEF AssembliesKept, DeliveredWhole, Intact
<1>2. CASE HandleComponent
  BY <1>2, WholeComponent
<1>3. CASE CheckAssemblies
  <2>1. \A d \in delivered' : Intact(d)
    BY <1>3 DEF CheckAssemblies, DeliveredWhole, Intact
  <2>2. CASE Erase(Expired)
    BY <2>1, <2>2, KeptErase
  <2>3. CASE store' = store
    BY <2>1, <2>3 DEF AssembliesKept
  <2> QED BY <1>3, <2>2, <2>3 DEF CheckAssemblies, AbandonExpired
<1>4. ASSUME NEW s \in Sources, NEW lost \in 0..MaxLost, NEW n \in 1..MaxAggregate,
             Enqueue(s, lost, n)
      PROVE  UNCHANGED <<store, delivered>>
  <2>1. PICK m \in Seq(Ids) :
          EnqueueFirst(m) \/ EnqueueLater(m) \/ EnqueueEarlier(m) \/ EnqueueSameSlot(m)
    BY <1>4, EnqueueMessage
  <2> QED BY <2>1, ProcessCases
          DEF EnqueueFirst, EnqueueLater, EnqueueEarlier, EnqueueSameSlot
<1>5. ASSUME NEW t \in timers, ProcessCallback(t) PROVE UNCHANGED <<store, delivered>>
  BY <1>5, ProcessCases DEF ProcessCallback
<1>6. CASE KeepIncoming \/ Surroundings
  BY <1>1, <1>6 DEF KeepIncoming, Surroundings, Renumber, SetPromiscuousMode, Tick, vars, rxVars,
                    historyVars
<1> QED BY <1>1, <1>2, <1>3, <1>4, <1>5, <1>6, Steps

-----------------------------------------------------------------------------
(* The invariant                                                           *)

LEMMA RxInvInit == Init => RxInv
<1> SUFFICES ASSUME Init PROVE RxInv
  OBVIOUS
<1>1. RxTypeOK
  BY TypingInit
<1>2. /\ DOMAIN store = {} /\ Parts(<<>>) = {} /\ Once(<<>>)
      /\ held = <<>> /\ work = <<>> /\ incoming = <<>> /\ pc = "idle" /\ pending = 0
      /\ received = {} /\ delivered = {} /\ reported = {} /\ ignored = {} /\ dropped = {}
      /\ timers = {}
  BY NoParts DEF Init
<1>3. Control
  BY <1>2 DEF Control
<1>4. ReceivedWasSent
  BY <1>2 DEF ReceivedWasSent
<1>5. InMessages = {} /\ Settled = {} /\ Stored({}) = {}
  BY <1>2 DEF InMessages, Settled, Stored
<1>6. EveryComponentAccounted
  BY <1>2, <1>5, InHandIs DEF EveryComponentAccounted, InMessages, Settled
<1>7. Apart
  BY <1>2, <1>5 DEF Apart, MessagesApart, StoreApart, FatesApart
<1>8. FiniteIndexes /\ AssembliesArePrefixes
  BY <1>2 DEF FiniteIndexes, AssembliesArePrefixes
<1>9. Numbered
  BY <1>2 DEF Numbered
<1>10. AssembliesKept /\ DeliveredWhole
  BY <1>2 DEF AssembliesKept, DeliveredWhole
<1> QED BY <1>1, <1>3, <1>4, <1>6, <1>7, <1>8, <1>9, <1>10 DEF RxInv

LEMMA RxInvNext == RxInv /\ [Next]_vars => RxInv'
<1> SUFFICES ASSUME RxInv, [Next]_vars PROVE RxInv'
  OBVIOUS
<1>1. /\ RxTypeOK /\ Control /\ ReceivedWasSent /\ EveryComponentAccounted /\ Apart
      /\ FiniteIndexes /\ AssembliesArePrefixes /\ Numbered /\ StoreApart
      /\ AssembliesKept /\ DeliveredWhole
  BY DEF RxInv, Apart
<1>2. RxTypeOK' /\ Control' /\ ReceivedWasSent' /\ EveryComponentAccounted' /\ Apart'
  BY <1>1, TypingNext, ControlNext, SentNext, AccountedNext, ApartNext
<1>3. FiniteIndexes' /\ AssembliesArePrefixes' /\ Numbered'
  BY <1>1, PrefixesNext, NumberedNext
<1>4. AssembliesKept' /\ DeliveredWhole'
  BY <1>1, WholeNext
<1> QED BY <1>2, <1>3, <1>4 DEF RxInv

\* The strengthening the theorems below rest on is an invariant of the specification.
THEOREM RxInvariance == Spec => []RxInv
<1>1. RxInv /\ UNCHANGED vars => RxInv'
  BY RxInvNext
<1> QED BY RxInvInit, RxInvNext, PTL DEF Spec

\* The receive manager's and its environment's state stays well typed, whatever the order
\* of arrivals, callbacks, schedule changes and configurations.
THEOREM RxTyping == Spec => []RxTypeOK
<1>1. RxInv => RxTypeOK
  BY DEF RxInv
<1> QED BY <1>1, RxInvariance, PTL

\* Whichever branches of process() and enqueue() the components of a packet take, none is
\* forgotten: it is delivered, reported, ignored as repeated, dropped with its message or
\* still in hand.
THEOREM ComponentsAccounted == Spec => []EveryComponentAccounted
<1>1. RxInv => EveryComponentAccounted
  BY DEF RxInv
<1> QED BY <1>1, RxInvariance, PTL

\* No component is sent up twice, nor sent up and reported, dropped or kept as well, in
\* any stream of packets and fragments.
THEOREM ComponentsOnce == Spec => []DeliveredOnce
<1>1. RxInv => DeliveredOnce
  <2> SUFFICES ASSUME RxInv PROVE DeliveredOnce
    OBVIOUS
  <2>1. Apart
    BY DEF RxInv
  <2>2. InHand = InMessages \cup Stored({})
    BY InHandIs DEF InMessages
  <2>3. (UNION delivered) \cap InMessages = {}
    BY <2>1 DEF Apart, MessagesApart, Settled
  <2>4. (UNION delivered) \cap Stored({}) = {}
    BY <2>1 DEF Apart, StoreApart, Stored, Settled
  <2> QED BY <2>1, <2>2, <2>3, <2>4 DEF Apart, FatesApart, DeliveredOnce
<1> QED BY <1>1, RxInvariance, PTL

\* Assemblies have no gaps, in any stream of packets and fragments.
THEOREM AssembliesStayPrefixes == Spec => []AssembliesArePrefixes
<1>1. RxInv => AssembliesArePrefixes
  BY DEF RxInv
<1> QED BY <1>1, RxInvariance, PTL

\* A packet that goes up is whole, if its source gave its sequence number to no other:
\* no fragment of it is missing and none of another packet is among them.
THEOREM PacketsWhole == Spec => []DeliveredWhole
<1>1. RxInv => DeliveredWhole
  BY DEF RxInv
<1> QED BY <1>1, RxInvariance, PTL

\* The two numberings are apart, so that an index tells the slot under each.
LEMMA OneNumbering ==
  ASSUME RxTypeOK, SameNumbering, NEW b \in {0, Renumbered}, b < pending, pending <= b + clock
  PROVE  b = base
  BY TimeAssumption DEF RxTypeOK, SameNumbering

\* A kept packet is never left without the callback that judges it, for any thresholds,
\* arrivals and renumberings.
THEOREM CallbackToCome == Spec => []PendingHasCallback
<1>1. RxInv => PendingHasCallback
  <2> SUFFICES ASSUME RxInv, pending # 0
               PROVE  \E t \in timers : /\ t.index = pending + 1
                                        /\ SameNumbering => SlotIndex(t.due) = t.index
    BY DEF PendingHasCallback
  <2>1. RxTypeOK /\ Numbered
    BY DEF RxInv
  <2>2. PICK b \in {0, Renumbered}, t \in timers :
          /\ t.index = pending + 1 /\ pending + 1 = b + t.due
          /\ b < pending /\ pending <= b + clock
    BY <2>1 DEF Numbered
  <2>3. SameNumbering => b = base
    BY <2>1, <2>2, OneNumbering
  <2> QED BY <2>2, <2>3 DEF SlotIndex
<1> QED BY <1>1, RxInvariance, PTL

LEMMA DropsNext ==
  ASSUME RxInv, [Next]_vars, NEW c \in dropped' \ dropped
  PROVE  \/ pending = SlotIndex(clock)
         \/ ~SameNumbering
         \/ \E t \in timers : t.index = pending + 1 /\ t.due < clock
<1>1. RxTypeOK /\ Control /\ Numbered
  BY DEF RxInv
<1>2. /\ clock \in Nat /\ base \in Nat /\ pending \in Nat /\ SlotIndex(clock) = base + clock
      /\ \A t \in timers : t.due \in Nat
  BY <1>1, SlotsCounted, TimeAssumption DEF RxTypeOK, SlotIndex
<1>3. ASSUME pending = 0, dropped' = dropped \cup Parts(held) PROVE FALSE
  BY <1>1, <1>3, NoParts DEF Control
<1>4. ASSUME pending # 0, SameNumbering
      PROVE  \E t \in timers : /\ t.index = pending + 1 /\ pending + 1 = base + t.due
                               /\ pending <= base + clock
  BY <1>1, <1>4, OneNumbering DEF Numbered
<1>5. ASSUME NEW s \in Sources, NEW lost \in 0..MaxLost, NEW n \in 1..MaxAggregate,
             Enqueue(s, lost, n)
      PROVE  pending = SlotIndex(clock) \/ ~SameNumbering
  <2>1. PICK m \in Seq(Ids) :
          EnqueueFirst(m) \/ EnqueueLater(m) \/ EnqueueEarlier(m) \/ EnqueueSameSlot(m)
    BY <1>1, <1>5, EnqueueMessage
  <2>2. CASE EnqueueFirst(m)
    BY <1>3, <2>2 DEF EnqueueFirst, Keep
  <2>3. CASE EnqueueLater(m)
    BY <2>3, ProcessCases DEF EnqueueLater
  <2>4. CASE EnqueueEarlier(m)
    <3>1. pending # 0 /\ ~(pending <= base + clock)
      BY <1>2, <2>4 DEF EnqueueEarlier
    <3> QED BY <1>4, <3>1
  <2>5. CASE EnqueueSameSlot(m)
    BY <2>5 DEF EnqueueSameSlot
  <2> QED BY <2>1, <2>2, <2>3, <2>4, <2>5
<1>6. CASE KeepIncoming
  <2>1. dropped' = dropped \cup Parts(held) /\ incoming # <<>>
    BY <1>1, <1>6 DEF KeepIncoming, Keep, Control
  <2>2. CASE pending # 0 /\ SameNumbering
    <3>1. PICK t \in timers : t.index = pending + 1 /\ pending + 1 = base + t.due
      BY <1>4, <2>2
    <3>2. pending + 1 < base + clock
      BY <1>1, <1>2, <2>1, <2>2 DEF Control
    <3> QED BY <1>2, <3>1, <3>2
  <2> QED BY <1>3, <2>1, <2>2
<1>7. CASE dropped' = dropped
  BY <1>7
<1>8. ASSUME NEW t \in timers, ProcessCallback(t) PROVE dropped' = dropped
  BY <1>8, ProcessCases DEF ProcessCallback
<1>9. CASE HandleComponent
  <2>1. Handle
    BY <1>9 DEF HandleComponent, NotForUs, DeliverWhole, StartAssembly, MissFirst,
                RepeatFragment, AddFragment, CompleteAssembly, GapFragment, NewFragment
  <2> QED BY <1>7, <2>1 DEF Handle
<1>10. CASE CheckAssemblies \/ Surroundings
  BY <1>7, <1>10 DEF CheckAssemblies, Surroundings, Renumber, SetPromiscuousMode, Tick, vars,
                     historyVars
<1> QED BY <1>5, <1>6, <1>7, <1>8, <1>9, <1>10, Steps

\* A packet is dropped without a status only when another came in its slot, its callback
\* was late by a slot, or the slots were numbered anew.
THEOREM SilentDrops == Spec => DroppedOnlyIfLate
<1>1. RxInv /\ [Next]_vars =>
        [\A c \in dropped' \ dropped :
           \/ pending = SlotIndex(clock)
           \/ ~SameNumbering
           \/ \E t \in timers : t.index = pending + 1 /\ t.due < clock]_vars
  BY DropsNext
<1> QED BY <1>1, RxInvariance, PTL DEF Spec, DroppedOnlyIfLate

LEMMA JudgesNext ==
  ASSUME RxInv, [Next]_vars, pending # 0, pending' = 0, SameNumbering
  PROVE  pending < SlotIndex(clock)
<1>1. RxTypeOK /\ Control /\ Numbered
  BY DEF RxInv
<1>2. /\ clock \in Nat /\ base \in {0, Renumbered} /\ pending \in Nat
      /\ SlotIndex(clock) = base + clock /\ SlotIndex(clock) # 0
      /\ Renumbered \in Nat /\ MaxSlot \in Nat /\ MaxSlot < Renumbered
  BY <1>1, SlotsCounted, TimeAssumption DEF RxTypeOK, SlotIndex
<1>3. ASSUME NEW s \in Sources, NEW lost \in 0..MaxLost, NEW n \in 1..MaxAggregate,
             Enqueue(s, lost, n)
      PROVE  pending < SlotIndex(clock)
  <2>1. PICK m \in Seq(Ids) :
          EnqueueFirst(m) \/ EnqueueLater(m) \/ EnqueueEarlier(m) \/ EnqueueSameSlot(m)
    BY <1>1, <1>3, EnqueueMessage
  <2> QED BY <1>2, <2>1 DEF EnqueueFirst, EnqueueLater, EnqueueEarlier, EnqueueSameSlot, Keep
<1>4. ASSUME NEW t \in timers, ProcessCallback(t) PROVE pending < SlotIndex(clock)
  <2>1. pending + 1 = t.index /\ t.due <= clock
    BY <1>4, ProcessCases DEF ProcessCallback, EndsPending
  <2>2. t.due \in FirstSlot..MaxSlot /\ t.due \in Nat /\ t.due > 0 /\ t.due <= MaxSlot
    BY <1>1, TimeAssumption DEF RxTypeOK
  <2>3. t.index = t.due \/ t.index = Renumbered + t.due
    BY <1>1 DEF Numbered
  <2>4. base < pending /\ pending <= base + MaxSlot
    BY DEF SameNumbering
  <2> QED BY <1>2, <2>1, <2>2, <2>3, <2>4
<1>5. CASE HandleComponent
  <2>1. Handle
    BY <1>5 DEF HandleComponent, NotForUs, DeliverWhole, StartAssembly, MissFirst,
                RepeatFragment, AddFragment, CompleteAssembly, GapFragment, NewFragment
  <2> QED BY <2>1 DEF Handle
<1>6. CASE CheckAssemblies \/ Surroundings
  BY <1>6 DEF CheckAssemblies, Surroundings, Renumber, SetPromiscuousMode, Tick, vars, rxVars
<1>7. CASE KeepIncoming
  BY <1>2, <1>7 DEF KeepIncoming, Keep
<1> QED BY <1>3, <1>4, <1>5, <1>6, <1>7, Steps

\* A packet is never judged while its slot lasts, whichever stale callbacks are armed.
THEOREM JudgedLater == Spec => JudgedAfterItsSlot
<1>1. RxInv /\ [Next]_vars =>
        [pending # 0 /\ pending' = 0 /\ SameNumbering => pending < SlotIndex(clock)]_vars
  BY JudgesNext
<1> QED BY <1>1, RxInvariance, PTL DEF Spec, JudgedAfterItsSlot
=============================================================================
