----------------------- MODULE ScheduleBuilder_proofs -----------------------
(***************************************************************************)
(* Proofs about ScheduleBuilder, for any sequence of calls: the message    *)
(* and its index stay well typed, append() lists no frame twice and no     *)
(* slot twice but in frames for which a call raised at a slot's value, and *)
(* what radios decode of the message is what was asked for.                *)
(*                                                                         *)
(* Between the two theorems on the index and the one on the radios stands  *)
(* what is proved of the decoder, for every message: whatever arrives is   *)
(* refused or decoded to an event as the scheduler expects it.             *)
(***************************************************************************)
EXTENDS ScheduleBuilder, SequenceTheorems, WellFoundedInduction, TLAPS

\* The index names each frame entered since the last restore(), each once, and knows the
\* slots of those it can still write to, apart from the frames of b.
Matched(frames, idx, r, b) ==
  /\ \A f \in DOMAIN idx : idx[f].at # 0 =>
       /\ idx[f].at \in (r + 1)..Len(frames)
       /\ frames[idx[f].at].index = IF Fits(f) THEN {f} ELSE {}
       /\ f \notin b =>
            \A u \in DOMAIN frames[idx[f].at].slots :
              frames[idx[f].at].slots[u].index \subseteq idx[f].slots
  /\ \A i \in (r + 1)..Len(frames) : \E f \in DOMAIN idx : idx[f].at = i
  /\ \A f, g \in DOMAIN idx : idx[f].at # 0 /\ idx[f].at = idx[g].at => f = g

\* No slot is in its list twice.
Distinct(slots) ==
  \A u, v \in DOMAIN slots :
    slots[u].index # {} /\ slots[u].index = slots[v].index => u = v

SlotsOnce(frames, idx, b) ==
  \A f \in DOMAIN idx \ b : idx[f].at # 0 => Distinct(frames[idx[f].at].slots)

BuilderInv ==
  /\ BuilderTypeOK
  /\ Matched(event.frames, index, restored, Forgetful)
  /\ SlotsOnce(event.frames, index, Forgetful)

-----------------------------------------------------------------------------
(* append                                                                  *)

\* The optional fields the code writes are typed.
LEMMA OptionalFields ==
  ASSUME NEW S
  PROVE  /\ {} \in Optional(S)
         /\ \A v \in S : {v} \in Optional(S)
         /\ \A T \in SUBSET S : Optional(T) \subseteq Optional(S)
BY DEF Optional

\* What a call names is typed, and so is the part of it that is assigned before a value
\* that does not fit.
LEMMA ArgumentsTyped ==
  ASSUME NEW k \in KeywordArguments
  PROVE  /\ k.freq \in Optional(Nat) /\ k.class \in Optional(Nat)
         /\ k.frameFreq \in Optional(Nat) /\ k.frameClass \in Optional(Nat)
         /\ \A part \in Parts(k.freq, k.class) :
              part[1] \in Optional(Nat) /\ part[2] \in Optional(Nat)
         /\ \A part \in Parts(k.frameFreq, k.frameClass) :
              part[1] \in Optional(Nat) /\ part[2] \in Optional(Nat)
<1>1. Optional(Nat \ {0}) \subseteq Optional(Nat) /\ Optional(0..3) \subseteq Optional(Nat)
  <2>1. Nat \ {0} \subseteq Nat /\ 0..3 \subseteq Nat  OBVIOUS
  <2> QED BY <2>1, OptionalFields
<1>2. /\ k.freq \in Optional(Nat \ {0}) /\ k.class \in Optional(0..3)
      /\ k.frameFreq \in Optional(Nat \ {0}) /\ k.frameClass \in Optional(0..3)
  BY DEF KeywordArguments
<1>3. /\ k.freq \in Optional(Nat) /\ k.class \in Optional(Nat)
      /\ k.frameFreq \in Optional(Nat) /\ k.frameClass \in Optional(Nat)
  BY <1>1, <1>2
<1>4. ASSUME NEW freq \in Optional(Nat), NEW class \in Optional(Nat),
             NEW part \in Parts(freq, class)
      PROVE  part[1] \in Optional(Nat) /\ part[2] \in Optional(Nat)
  <2>1. part = <<{}, {}>> \/ part = <<freq, {}>> \/ part = <<freq, class>>  BY DEF Parts
  <2>2. {} \in Optional(Nat)  BY OptionalFields
  <2> QED BY <2>1, <2>2
<1> QED BY <1>3, <1>4

\* What a call makes of the entry of its frame: the defaults may change, and a slot with an
\* index in S may be added.
Revised(old, frame, S) ==
  /\ frame \in FrameEntries
  /\ frame.index = old.index
  /\ \/ frame.slots = old.slots
     \/ \E new \in SlotEntries : frame.slots = Append(old.slots, new) /\ new.index \subseteq S

LEMMA DefaultsRevise ==
  ASSUME NEW old \in FrameEntries, NEW freq \in Optional(Nat), NEW class \in Optional(Nat)
  PROVE  /\ WithDefaults(old, freq, class) \in FrameEntries
         /\ WithDefaults(old, freq, class).index = old.index
         /\ WithDefaults(old, freq, class).slots = old.slots
         /\ WithDefaults(old, freq, class).freq = Kept(old.freq, freq)
         /\ WithDefaults(old, freq, class).class = Kept(old.class, class)
BY DEF WithDefaults, Kept, FrameEntries

LEMMA SlotRevises ==
  ASSUME NEW old \in FrameEntries, NEW new \in SlotEntries
  PROVE  /\ WithSlot(old, new) \in FrameEntries
         /\ WithSlot(old, new).index = old.index
         /\ WithSlot(old, new).freq = old.freq
         /\ WithSlot(old, new).class = old.class
         /\ WithSlot(old, new).slots = Append(old.slots, new)
<1>1. old.slots \in Seq(SlotEntries)  BY DEF FrameEntries
<1>2. Append(old.slots, new) \in Seq(SlotEntries)  BY <1>1
<1> DEFINE more == Append(old.slots, new)
<1>3. WithSlot(old, new) = [old EXCEPT !.slots = more]  BY DEF WithSlot
<1> HIDE DEF more
<1>4. more \in Seq(SlotEntries)  BY <1>2 DEF more
<1>5. /\ WithSlot(old, new) \in FrameEntries
      /\ WithSlot(old, new).index = old.index
      /\ WithSlot(old, new).freq = old.freq
      /\ WithSlot(old, new).class = old.class
      /\ WithSlot(old, new).slots = more
  BY <1>3, <1>4 DEF FrameEntries
<1> QED BY <1>5 DEF more

\* A call changes the entry of its frame in one of these ways.
LEMMA CallRevises ==
  ASSUME NEW old \in FrameEntries, NEW s, NEW k \in KeywordArguments
  PROVE  /\ \A part \in Parts(k.frameFreq, k.frameClass) :
              Revised(old, WithDefaults(old, part[1], part[2]), {})
         /\ Revised(old, WithSlot(WithDefaults(old, k.frameFreq, k.frameClass), NoSlot), {})
         /\ Fits(s) /\ ~Refused(k) =>
              \A part \in Parts(k.freq, k.class) \cup {<<{}, {}>>} :
                Revised(old, WithSlot(WithDefaults(old, k.frameFreq, k.frameClass),
                                      NewSlot(s, k.type, part[1], part[2])), {s})
<1> DEFINE mid == WithDefaults(old, k.frameFreq, k.frameClass)
<1>1. mid \in FrameEntries /\ mid.index = old.index /\ mid.slots = old.slots
  BY ArgumentsTyped, DefaultsRevise
<1>2. ASSUME NEW part \in Parts(k.frameFreq, k.frameClass)
      PROVE  Revised(old, WithDefaults(old, part[1], part[2]), {})
  <2>1. part[1] \in Optional(Nat) /\ part[2] \in Optional(Nat)  BY ArgumentsTyped
  <2> QED BY <2>1, DefaultsRevise DEF Revised
<1> HIDE DEF mid
<1>3. ASSUME NEW new \in SlotEntries, NEW S, new.index \subseteq S
      PROVE  Revised(old, WithSlot(mid, new), S)
  <2>1. /\ WithSlot(mid, new) \in FrameEntries
        /\ WithSlot(mid, new).index = mid.index
        /\ WithSlot(mid, new).slots = Append(mid.slots, new)
    BY <1>1, SlotRevises
  <2> QED BY <1>1, <1>3, <2>1 DEF Revised
<1>4. NoSlot \in SlotEntries /\ NoSlot.index \subseteq {}
  BY OptionalFields DEF NoSlot, SlotEntries
<1>5. ASSUME Fits(s), ~Refused(k), NEW part \in Parts(k.freq, k.class) \cup {<<{}, {}>>}
      PROVE  /\ NewSlot(s, k.type, part[1], part[2]) \in SlotEntries
             /\ NewSlot(s, k.type, part[1], part[2]).index \subseteq {s}
  <2>1. k.type \in SlotTypes  BY <1>5 DEF Refused, KeywordArguments
  <2>2. part[1] \in Optional(Nat) /\ part[2] \in Optional(Nat)
    <3>1. CASE part \in Parts(k.freq, k.class)  BY <3>1, ArgumentsTyped
    <3>2. CASE part = <<{}, {}>>  BY <3>2, OptionalFields
    <3> QED BY <3>1, <3>2
  <2>3. {s} \in Optional(Nat) /\ {k.type} \in Optional(SlotTypes)
    <3>1. s \in Nat  BY <1>5, BuilderAssumption DEF Fits
    <3> QED BY <2>1, <3>1, OptionalFields
  <2>4. NewSlot(s, k.type, part[1], part[2]).index = {s}  BY DEF NewSlot
  <2>5. NewSlot(s, k.type, part[1], part[2]) \in SlotEntries
    BY <2>2, <2>3 DEF NewSlot, SlotEntries
  <2> QED BY <2>4, <2>5
<1>6. Revised(old, WithSlot(mid, NoSlot), {})  BY <1>3, <1>4
<1>7. ASSUME Fits(s), ~Refused(k), NEW part \in Parts(k.freq, k.class) \cup {<<{}, {}>>}
      PROVE  Revised(old, WithSlot(mid, NewSlot(s, k.type, part[1], part[2])), {s})
  <2>1. /\ NewSlot(s, k.type, part[1], part[2]) \in SlotEntries
        /\ NewSlot(s, k.type, part[1], part[2]).index \subseteq {s}
    BY <1>5, <1>7
  <2> QED BY <1>3, <2>1
<1> QED BY <1>2, <1>6, <1>7 DEF mid

LEMMA OneMore ==
  ASSUME NEW S, NEW q \in Seq(S), NEW v \in S
  PROVE  /\ Append(q, v) \in Seq(S) /\ Len(Append(q, v)) = Len(q) + 1
         /\ \A i \in 1..Len(q) : Append(q, v)[i] = q[i]
         /\ Append(q, v)[Len(q) + 1] = v
OBVIOUS

\* Entering a frame keeps the message and the index matched.
LEMMA Entering ==
  ASSUME BuilderInv, NEW f \in Indexes
  PROVE  /\ Entered(f) \in Seq(FrameEntries)
         /\ DOMAIN Indexed(f, {}) = DOMAIN index \cup {f}
         /\ \A g \in DOMAIN Indexed(f, {}) : Indexed(f, {})[g] \in Entries
         /\ Indexed(f, {})[f].at = Place(f)
         /\ f \in DOMAIN index => Indexed(f, {})[f].slots = index[f].slots
         /\ f \notin DOMAIN index => Indexed(f, {})[f].slots = {}
         /\ restored \in 0..Len(Entered(f))
         /\ Matched(Entered(f), Indexed(f, {}), restored, Forgetful)
         /\ SlotsOnce(Entered(f), Indexed(f, {}), Forgetful)
         /\ Place(f) # 0 => Entry(f) \in FrameEntries
<1> DEFINE X == Indexed(f, {})
           n == Len(event.frames)
           b == Forgetful
<1>1. /\ event.frames \in Seq(FrameEntries) /\ n \in Nat /\ restored \in 0..n
      /\ \A g \in DOMAIN index : index[g] \in Entries
  BY DEF BuilderInv, BuilderTypeOK, Events
<1>2. DOMAIN X = DOMAIN index \cup {f} /\ \A g \in DOMAIN X : g # f => X[g] = index[g]
  BY DEF Indexed
<1>10. \A g \in DOMAIN index : index[g].at # 0 => index[g].at \in (restored + 1)..n
  BY DEF BuilderInv, Matched
<1>3. CASE f \in DOMAIN index
  <2>1. X[f].at = index[f].at /\ X[f].slots = index[f].slots /\ X[f] \in Entries
    BY <1>1, <1>3 DEF Indexed, Place, Entries
  <2>2. \A g \in DOMAIN X : X[g].at = index[g].at /\ X[g].slots = index[g].slots
    BY <1>2, <1>3, <2>1
  <2>3. DOMAIN X = DOMAIN index  BY <1>2, <1>3
  <2>4. Entered(f) = event.frames /\ Place(f) = index[f].at  BY <1>3 DEF Entered, Place
  <2>5. Matched(event.frames, index, restored, b) /\ SlotsOnce(event.frames, index, b)
    BY DEF BuilderInv
  <2> HIDE DEF X, b
  <2>6. Matched(event.frames, X, restored, b)  BY <2>2, <2>3, <2>5 DEF Matched
  <2>9. SlotsOnce(event.frames, X, b)  BY <2>2, <2>3, <2>5 DEF SlotsOnce
  <2>7. \A g \in DOMAIN X : X[g] \in Entries  BY <1>1, <1>2, <1>3, <2>1
  <2>8. Place(f) # 0 => Entry(f) \in FrameEntries
    <3>1. Place(f) # 0 => Place(f) \in (restored + 1)..n  BY <1>3, <1>10, <2>4
    <3>2. Place(f) # 0 => Place(f) \in 1..n
      <4> HIDE DEF n
      <4> QED BY <1>1, <3>1
    <3>3. Entry(f) = event.frames[Place(f)]  BY <2>4 DEF Entry
    <3> QED BY <1>1, <3>2, <3>3
  <2> QED BY <1>1, <1>2, <1>3, <2>1, <2>4, <2>6, <2>7, <2>8, <2>9 DEF X, b, Place
<1>4. CASE f \notin DOMAIN index
  <2> DEFINE F == Append(event.frames, NewFrame(f))
  <2>1. NewFrame(f) \in FrameEntries
    <3>1. \A i : Fits(i) => i \in Nat  BY BuilderAssumption DEF Fits
    <3>2. {} \in Optional(Nat) /\ (Fits(f) => {f} \in Optional(Nat))
      BY <3>1, OptionalFields
    <3> QED BY <3>2 DEF NewFrame, FrameEntries
  <2>2. /\ F \in Seq(FrameEntries) /\ Len(F) = n + 1
        /\ \A i \in 1..n : F[i] = event.frames[i]
        /\ F[n + 1] = NewFrame(f)
    BY <1>1, <2>1, OneMore
  <2>3. Entered(f) = F  BY <1>4 DEF Entered
  <2>4. X[f].at = n + 1 /\ X[f].slots = {} /\ X[f] \in Entries /\ Place(f) = n + 1
    BY <1>1, <1>4 DEF Indexed, Place, Entries
  <2>5. /\ NewFrame(f).index = (IF Fits(f) THEN {f} ELSE {})
        /\ DOMAIN NewFrame(f).slots = {}
    BY DEF NewFrame
  <2>11. Entry(f) \in FrameEntries  BY <2>1, <2>2, <2>3, <2>4 DEF Entry
  <2> HIDE DEF X, F, b
  <2>10. \A g \in DOMAIN index :
          /\ index[g].at \in Nat
          /\ index[g].at # 0 => index[g].at \in (restored + 1)..n
    BY <1>1, <1>10 DEF Entries
  <2>12. ASSUME NEW g \in DOMAIN X, g # f, X[g].at # 0
         PROVE  /\ g \in DOMAIN index /\ X[g] = index[g]
                /\ X[g].at \in (restored + 1)..n /\ X[g].at \in 1..n
                /\ F[X[g].at] = event.frames[X[g].at]
    <3>1. g \in DOMAIN index /\ X[g] = index[g]  BY <1>2, <2>12
    <3>2. X[g].at \in (restored + 1)..n /\ X[g].at \in 1..n  BY <1>1, <2>10, <2>12, <3>1
    <3>3. F[X[g].at] = event.frames[X[g].at]  BY <2>2, <3>2
    <3> QED BY <3>1, <3>2, <3>3
  <2>6. Matched(F, X, restored, b)
    <3>2. ASSUME NEW g \in DOMAIN X, X[g].at # 0
          PROVE  /\ X[g].at \in (restored + 1)..Len(F)
                 /\ F[X[g].at].index = IF Fits(g) THEN {g} ELSE {}
                 /\ g \notin b => \A u \in DOMAIN F[X[g].at].slots :
                      F[X[g].at].slots[u].index \subseteq X[g].slots
      <4>1. CASE g = f  BY <1>1, <2>2, <2>4, <2>5, <4>1
      <4>2. CASE g # f
        <5>1. g \in DOMAIN index /\ X[g] = index[g] /\ F[X[g].at] = event.frames[X[g].at]
              /\ X[g].at \in (restored + 1)..n
          BY <2>12, <3>2, <4>2
        <5>4. /\ event.frames[index[g].at].index = IF Fits(g) THEN {g} ELSE {}
              /\ g \notin b => \A u \in DOMAIN event.frames[index[g].at].slots :
                   event.frames[index[g].at].slots[u].index \subseteq index[g].slots
          BY <3>2, <5>1 DEF BuilderInv, Matched, b
        <5>5. X[g].at \in (restored + 1)..Len(F)  BY <1>1, <2>2, <5>1
        <5> QED BY <5>1, <5>4, <5>5
      <4> QED BY <4>1, <4>2
    <3>3. ASSUME NEW i \in (restored + 1)..Len(F)  PROVE \E g \in DOMAIN X : X[g].at = i
      <4>1. CASE i = n + 1  BY <1>2, <2>4, <4>1
      <4>2. CASE i # n + 1
        <5>1. i \in (restored + 1)..n  BY <1>1, <2>2, <4>2
        <5>2. PICK g \in DOMAIN index : index[g].at = i  BY <5>1 DEF BuilderInv, Matched
        <5> QED BY <1>2, <1>4, <5>2
      <4> QED BY <4>1, <4>2
    <3>4. ASSUME NEW g \in DOMAIN X, NEW h \in DOMAIN X, X[g].at # 0, X[g].at = X[h].at
          PROVE  g = h
      <4>1. \A j \in DOMAIN X : j # f => j \in DOMAIN index /\ X[j].at # n + 1
        BY <1>1, <1>2, <2>10
      <4>2. CASE g = f \/ h = f  BY <2>4, <3>4, <4>1, <4>2
      <4>3. CASE g # f /\ h # f
        BY <1>2, <3>4, <4>1, <4>3 DEF BuilderInv, Matched
      <4> QED BY <4>2, <4>3
    <3> QED BY <3>2, <3>3, <3>4 DEF Matched
  <2>7. SlotsOnce(F, X, b)
    <3> SUFFICES ASSUME NEW g \in DOMAIN X \ b, X[g].at # 0
                 PROVE  Distinct(F[X[g].at].slots)
      BY DEF SlotsOnce
    <3>1. CASE g = f  BY <2>2, <2>4, <2>5, <3>1 DEF Distinct
    <3>2. CASE g # f
      <4>1. g \in DOMAIN index /\ X[g] = index[g] /\ F[X[g].at] = event.frames[X[g].at]
        BY <2>12, <3>2
      <4> QED BY <4>1 DEF BuilderInv, SlotsOnce, b
    <3> QED BY <3>1, <3>2
  <2>8. \A g \in DOMAIN X : X[g] \in Entries  BY <1>1, <1>2, <2>4
  <2>9. restored \in 0..Len(F)  BY <1>1, <2>2
  <2> QED BY <1>2, <1>4, <2>2, <2>3, <2>4, <2>6, <2>7, <2>8, <2>9, <2>11 DEF X, b
<1> QED BY <1>3, <1>4

\* G and Y are F and X after the frame of f was revised and the slots of T remembered.
Writes(F, X, r, b, f, frame, S, T, G, Y) ==
  /\ F \in Seq(FrameEntries) /\ r \in Nat /\ f \in DOMAIN X
  /\ \A g \in DOMAIN X : X[g] \in Entries
  /\ Matched(F, X, r, b) /\ SlotsOnce(F, X, b)
  /\ X[f].at # 0
  /\ Revised(F[X[f].at], frame, S)
  /\ f \notin b => S \subseteq T /\ S \cap X[f].slots = {}
  /\ G = [F EXCEPT ![X[f].at] = frame]
  /\ DOMAIN Y = DOMAIN X /\ \A g \in DOMAIN X : g # f => Y[g] = X[g]
  /\ Y[f].at = X[f].at /\ Y[f].slots = X[f].slots \cup T

\* Revising one frame keeps the message and the index matched.
LEMMA Writing ==
  ASSUME NEW F, NEW X, NEW r, NEW b, NEW f, NEW frame, NEW S, NEW T, NEW G, NEW Y,
         Writes(F, X, r, b, f, frame, S, T, G, Y)
  PROVE  /\ G \in Seq(FrameEntries) /\ Len(G) = Len(F)
         /\ Matched(G, Y, r, b) /\ SlotsOnce(G, Y, b)
<1> USE DEF Writes
<1> DEFINE p == X[f].at
           n == Len(F)
           old == F[p].slots
           m == Len(old)
<1>1. p \in (r + 1)..n /\ p \in 1..n /\ n \in Nat
  <2>1. \A g \in DOMAIN X : X[g].at # 0 => X[g].at \in (r + 1)..Len(F)
    BY DEF Matched
  <2>2. X[f].at \in (r + 1)..Len(F)  BY <2>1
  <2>3. n \in Nat  OBVIOUS
  <2> HIDE DEF p, n
  <2>4. p \in (r + 1)..n  BY <2>2 DEF p, n
  <2> QED BY <2>3, <2>4
<1>2. /\ G \in Seq(FrameEntries) /\ Len(G) = n
      /\ G[p] = frame
      /\ \A i \in 1..n : i # p => G[i] = F[i]
  <2>1. frame \in FrameEntries  BY DEF Revised
  <2> QED BY <1>1, <2>1
<1>3. old \in Seq(SlotEntries) /\ m \in Nat /\ DOMAIN old = 1..m
  <2>1. F[p] \in FrameEntries  BY <1>1
  <2>2. old \in Seq(SlotEntries)  BY <2>1 DEF FrameEntries
  <2> HIDE DEF old
  <2> QED BY <2>2
<1>20. frame.index = F[p].index  BY DEF Revised
<1>21. /\ frame.slots = old \/ \E new \in SlotEntries : frame.slots = Append(old, new) /\ new.index \subseteq S
  BY DEF Revised
<1>5. f \notin b => \A u \in 1..m : old[u].index \subseteq X[f].slots
  <2>1. f \notin b => \A u \in DOMAIN F[X[f].at].slots : F[X[f].at].slots[u].index \subseteq X[f].slots
    BY DEF Matched
  <2> QED BY <1>3, <2>1
<1>22. f \notin b => Distinct(old)  BY DEF SlotsOnce
<1> HIDE DEF p, n, old, m
<1>4. \A u \in DOMAIN frame.slots :
        \/ u \in 1..m /\ u \in DOMAIN old /\ frame.slots[u] = old[u]
        \/ u = m + 1 /\ frame.slots[u].index \subseteq S
  <2>1. CASE frame.slots = old  BY <1>3, <2>1
  <2>2. CASE \E new \in SlotEntries : frame.slots = Append(old, new) /\ new.index \subseteq S
    <3>1. PICK new \in SlotEntries : frame.slots = Append(old, new) /\ new.index \subseteq S
      BY <2>2
    <3>2. /\ DOMAIN Append(old, new) = 1..(m + 1)
          /\ \A u \in 1..m : Append(old, new)[u] = old[u]
          /\ Append(old, new)[m + 1] = new
      BY <1>3 DEF m
    <3>3. \A u \in 1..(m + 1) : u \in 1..m \/ u = m + 1  BY <1>3
    <3> QED BY <1>3, <3>1, <3>2, <3>3
  <2> QED BY <1>21, <2>1, <2>2
<1>6. \A g \in DOMAIN X : Y[g].at = X[g].at
  <2> TAKE g \in DOMAIN X
  <2>1. CASE g = f  BY <2>1
  <2>2. CASE g # f  BY <2>2
  <2> QED BY <2>1, <2>2
<1>7. \A g, h \in DOMAIN X : X[g].at # 0 /\ X[g].at = X[h].at => g = h
  BY DEF Matched
<1>23. ASSUME NEW g \in DOMAIN Y, Y[g].at # 0
       PROVE  /\ g \in DOMAIN X /\ Y[g].at = X[g].at
              /\ X[g].at \in (r + 1)..n /\ X[g].at \in 1..n
              /\ F[X[g].at].index = IF Fits(g) THEN {g} ELSE {}
              /\ g \notin b =>
                   \A u \in DOMAIN F[X[g].at].slots : F[X[g].at].slots[u].index \subseteq X[g].slots
              /\ g # f => X[g].at # p /\ G[Y[g].at] = F[X[g].at] /\ X[g].slots = Y[g].slots
              /\ g = f => G[Y[g].at] = frame
  <2>1. g \in DOMAIN X /\ Y[g].at = X[g].at /\ X[g].at # 0  BY <1>6, <1>23
  <2>2. /\ X[g].at \in (r + 1)..n
        /\ F[X[g].at].index = IF Fits(g) THEN {g} ELSE {}
        /\ g \notin b =>
             \A u \in DOMAIN F[X[g].at].slots : F[X[g].at].slots[u].index \subseteq X[g].slots
    BY <2>1 DEF Matched, n
  <2>3. X[g].at \in 1..n  BY <1>1, <2>2
  <2>4. g # f => X[g].at # p  BY <1>7, <2>1 DEF p
  <2>5. g # f => G[Y[g].at] = F[X[g].at]  BY <1>2, <2>1, <2>3, <2>4
  <2>6. g # f => X[g].slots = Y[g].slots  BY <2>1
  <2>7. g = f => G[Y[g].at] = frame  BY <1>2, <2>1 DEF p
  <2> QED BY <2>1, <2>2, <2>3, <2>4, <2>5, <2>6, <2>7
<1>8. Matched(G, Y, r, b)
  <2>1. ASSUME NEW g \in DOMAIN Y, Y[g].at # 0
        PROVE  /\ Y[g].at \in (r + 1)..Len(G)
               /\ G[Y[g].at].index = IF Fits(g) THEN {g} ELSE {}
               /\ g \notin b => \A u \in DOMAIN G[Y[g].at].slots : G[Y[g].at].slots[u].index \subseteq Y[g].slots
    <3>1. /\ g \in DOMAIN X /\ Y[g].at = X[g].at
          /\ X[g].at \in (r + 1)..n
          /\ F[X[g].at].index = IF Fits(g) THEN {g} ELSE {}
          /\ g \notin b =>
               \A u \in DOMAIN F[X[g].at].slots : F[X[g].at].slots[u].index \subseteq X[g].slots
          /\ g # f => G[Y[g].at] = F[X[g].at] /\ X[g].slots = Y[g].slots
          /\ g = f => G[Y[g].at] = frame
      BY <1>23, <2>1
    <3>2. CASE g = f
      <4>1. G[Y[g].at] = frame /\ frame.index = F[X[g].at].index  BY <1>20, <3>1, <3>2 DEF p
      <4>2. ASSUME f \notin b, NEW u \in DOMAIN frame.slots
            PROVE  frame.slots[u].index \subseteq Y[f].slots
        BY <1>4, <1>5, <4>2
      <4> QED BY <1>2, <3>1, <3>2, <4>1, <4>2
    <3>3. CASE g # f
      <4>1. G[Y[g].at] = F[X[g].at] /\ X[g].slots = Y[g].slots  BY <3>1, <3>3
      <4> QED BY <1>2, <3>1, <4>1
    <3> QED BY <3>2, <3>3
  <2>2. \A i \in (r + 1)..Len(G) : \E g \in DOMAIN Y : Y[g].at = i
    BY <1>2, <1>6 DEF Matched, n
  <2>3. \A g, h \in DOMAIN Y : Y[g].at # 0 /\ Y[g].at = Y[h].at => g = h
    BY <1>6, <1>7
  <2> QED BY <2>1, <2>2, <2>3 DEF Matched
<1>9. SlotsOnce(G, Y, b)
  <2> SUFFICES ASSUME NEW g \in DOMAIN Y \ b, Y[g].at # 0
               PROVE  Distinct(G[Y[g].at].slots)
    BY DEF SlotsOnce
  <2>4. /\ g \in DOMAIN X /\ Y[g].at = X[g].at
        /\ g # f => G[Y[g].at] = F[X[g].at]
        /\ g = f => G[Y[g].at] = frame
    BY <1>23
  <2>1. CASE g = f
    <3> SUFFICES ASSUME NEW u \in DOMAIN frame.slots, NEW v \in DOMAIN frame.slots,
                        frame.slots[u].index # {}, frame.slots[u].index = frame.slots[v].index
                 PROVE  u = v
      BY <2>1, <2>4 DEF Distinct
    <3>1. f \notin b  BY <2>1
    <3>2. S \cap X[f].slots = {}  BY <3>1
    <3>3. \A w \in DOMAIN frame.slots :
            \/ w \in 1..m /\ w \in DOMAIN old /\ frame.slots[w] = old[w]
               /\ frame.slots[w].index \subseteq X[f].slots
            \/ w = m + 1 /\ frame.slots[w].index \subseteq S
      BY <1>4, <1>5, <3>1
    <3>4. Distinct(old)  BY <1>22, <3>1
    <3>5. CASE u \in DOMAIN old /\ frame.slots[u] = old[u] /\ v \in DOMAIN old /\ frame.slots[v] = old[v]
      BY <3>4, <3>5 DEF Distinct
    <3>6. CASE u = m + 1 /\ v = m + 1  BY <3>6
    <3>7. CASE frame.slots[u].index \subseteq X[f].slots /\ frame.slots[v].index \subseteq S
      BY <3>2, <3>7
    <3>8. CASE frame.slots[v].index \subseteq X[f].slots /\ frame.slots[u].index \subseteq S
      BY <3>2, <3>8
    <3> QED BY <3>3, <3>5, <3>6, <3>7, <3>8
  <2>2. CASE g # f
    <3>1. X[g].at # 0  BY <2>4
    <3> QED BY <2>2, <2>4, <3>1 DEF SlotsOnce
  <2> QED BY <2>1, <2>2
<1> QED BY <1>2, <1>8, <1>9 DEF n

\* What append() does from its first change of the message on: the frame f is revised, the
\* slots of T are remembered, and f is in b if a slot of S is not.
LEMMA Appending ==
  ASSUME BuilderInv, NEW f \in Indexes, NEW frame, NEW S, NEW T \in SUBSET Indexes,
         NEW b, Forgetful \subseteq b,
         Place(f) # 0 => Revised(Entry(f), frame, S),
         f \notin b => S \subseteq T /\ \A s \in S : ~AlreadyDefined(f, s)
  PROVE  /\ Written(f, frame) \in Seq(FrameEntries)
         /\ DOMAIN Indexed(f, T) \subseteq Indexes
         /\ \A g \in DOMAIN Indexed(f, T) : Indexed(f, T)[g] \in Entries
         /\ restored \in 0..Len(Written(f, frame))
         /\ Matched(Written(f, frame), Indexed(f, T), restored, b)
         /\ SlotsOnce(Written(f, frame), Indexed(f, T), b)
<1> DEFINE F == Entered(f)
           X == Indexed(f, {})
           Y == Indexed(f, T)
           G == Written(f, frame)
<1>1. /\ F \in Seq(FrameEntries)
      /\ DOMAIN X = DOMAIN index \cup {f}
      /\ \A g \in DOMAIN X : X[g] \in Entries
      /\ X[f].at = Place(f)
      /\ f \in DOMAIN index => X[f].slots = index[f].slots
      /\ f \notin DOMAIN index => X[f].slots = {}
      /\ restored \in 0..Len(F)
  BY Entering
<1>10. Matched(F, X, restored, b) /\ SlotsOnce(F, X, b)
  <2>1. Matched(F, X, restored, Forgetful) /\ SlotsOnce(F, X, Forgetful)  BY Entering
  <2> HIDE DEF F, X
  <2>2. \A g : g \notin b => g \notin Forgetful  OBVIOUS
  <2>3. Matched(F, X, restored, b)  BY <2>1, <2>2 DEF Matched
  <2>4. SlotsOnce(F, X, b)  BY <2>1, <2>2 DEF SlotsOnce
  <2> QED BY <2>3, <2>4
<1>2. /\ DOMAIN Y = DOMAIN X
      /\ \A g \in DOMAIN X : g # f => Y[g] = X[g]
      /\ Y[f].at = X[f].at /\ Y[f].slots = X[f].slots \cup T
  BY DEF Indexed
<1>3. DOMAIN index \subseteq Indexes  BY DEF BuilderInv, BuilderTypeOK
<1>4. f \notin b => S \subseteq T /\ S \cap X[f].slots = {}  BY <1>1 DEF AlreadyDefined
<1>5. \A g \in DOMAIN Y : Y[g] \in Entries
  <2>1. T \subseteq Int  BY BuilderAssumption
  <2>2. Y[f] = [at |-> Place(f), slots |-> T \cup IF f \in DOMAIN index THEN index[f].slots ELSE {}]
    BY DEF Indexed
  <2>3. Place(f) \in Nat /\ X[f].slots \subseteq Int  BY <1>1 DEF Entries
  <2>4. Y[f].at = Place(f) /\ Y[f].slots \subseteq Int  BY <1>1, <1>2, <2>1, <2>3
  <2>5. Y[f] \in Entries  BY <2>2, <2>3, <2>4 DEF Entries
  <2> QED BY <1>1, <1>2, <2>5
<1>6. CASE Place(f) = 0
  <2>1. f \in DOMAIN index
    BY <1>6 DEF Place, BuilderInv, BuilderTypeOK, Events
  <2>2. G = F  BY <1>6, <2>1 DEF Written, Entered
  <2> HIDE DEF F, X, Y, G
  <2>3. \A g \in DOMAIN X : Y[g].at = X[g].at /\ (Y[g].at # 0 => Y[g].slots = X[g].slots)
    BY <1>1, <1>2, <1>6
  <2>4. Matched(F, Y, restored, b)
    <3>1. \A g \in DOMAIN Y : Y[g].at # 0 =>
            /\ Y[g].at \in (restored + 1)..Len(F)
            /\ F[Y[g].at].index = IF Fits(g) THEN {g} ELSE {}
            /\ g \notin b =>
                 \A u \in DOMAIN F[Y[g].at].slots : F[Y[g].at].slots[u].index \subseteq Y[g].slots
      BY <1>2, <1>10, <2>3 DEF Matched
    <3>2. \A i \in (restored + 1)..Len(F) : \E g \in DOMAIN Y : Y[g].at = i
      BY <1>2, <1>10, <2>3 DEF Matched
    <3>3. \A g, h \in DOMAIN X : X[g].at # 0 /\ X[g].at = X[h].at => g = h
      BY <1>10 DEF Matched
    <3>4. \A g, h \in DOMAIN Y : Y[g].at # 0 /\ Y[g].at = Y[h].at => g = h
      BY <1>2, <2>3, <3>3
    <3> QED BY <3>1, <3>2, <3>4 DEF Matched
  <2>6. SlotsOnce(F, Y, b)  BY <1>2, <1>10, <2>3 DEF SlotsOnce
  <2>5. DOMAIN Y \subseteq Indexes  BY <1>1, <1>2, <1>3
  <2> QED BY <1>1, <1>5, <2>2, <2>4, <2>5, <2>6 DEF Y, G
<1>7. CASE Place(f) # 0
  <2> DEFINE p == X[f].at
  <2>1. G = [F EXCEPT ![p] = frame]  BY <1>1, <1>7 DEF Written
  <2>2. Revised(F[p], frame, S)  BY <1>1, <1>7 DEF Entry
  <2>6. f \in DOMAIN X /\ X[f].at # 0 /\ restored \in Nat  BY <1>1, <1>7
  <2> HIDE DEF F, X, Y, G
  <2>7. /\ G \in Seq(FrameEntries) /\ Len(G) = Len(F)
        /\ Matched(G, Y, restored, b) /\ SlotsOnce(G, Y, b)
    <3>1. Writes(F, X, restored, b, f, frame, S, T, G, Y)
      BY <1>1, <1>2, <1>4, <1>10, <2>1, <2>2, <2>6 DEF Writes
    <3> QED BY <3>1, Writing
  <2>8. DOMAIN Y \subseteq Indexes  BY <1>1, <1>2, <1>3
  <2> QED BY <1>1, <1>5, <2>7, <2>8 DEF Y, G
<1> QED BY <1>6, <1>7

-----------------------------------------------------------------------------
(* The invariant                                                           *)

LEMMA BuilderInitially == Init => BuilderInv
<1> SUFFICES ASSUME Init PROVE BuilderInv
  OBVIOUS
<1>1. PICK d \in Defaults :
        event = [structure |-> NoFields, freq |-> d.freq, class |-> d.class, frames |-> <<>>]
  BY DEF Init
<1>2. NoFields \in StructureFields  BY OptionalFields DEF NoFields, StructureFields
<1>3. d.freq \in Optional(Nat) /\ d.class \in Optional(Nat)  BY BuilderAssumption
<1>4. event \in Events /\ event.frames = <<>>  BY <1>1, <1>2, <1>3 DEF Events
<1>5. DOMAIN index = {}  BY DEF Init, NoIndex
<1>6. BuilderTypeOK
  BY <1>4, <1>5, BuilderAssumption DEF Init, BuilderTypeOK
<1>7. Matched(event.frames, index, restored, Forgetful) /\ SlotsOnce(event.frames, index, Forgetful)
  BY <1>4, <1>5 DEF Init, Matched, SlotsOnce
<1> QED BY <1>6, <1>7 DEF BuilderInv

\* A call that raises keeps the invariant: its frame is one of the forgetful from then on
\* if the slot was listed.
LEMMA RaiseKeeps ==
  ASSUME BuilderInv, NEW f \in Indexes, NEW frame, NEW field, NEW S,
         calls' \in 0..MaxCalls, Raise(f, frame, field),
         field \in {"frame index", "default", "slot index", "value"},
         field = "value" \/ S = {},
         Place(f) # 0 => Revised(Entry(f), frame, S)
  PROVE  BuilderInv'
<1>1. /\ event' = [event EXCEPT !.frames = Written(f, frame)] /\ index' = Indexed(f, {})
      /\ outcome' = "raised" /\ asked' = asked /\ restored' = restored
      /\ raised' = raised \cup {[frame |-> f, field |-> field]}
  BY DEF Raise
<1>2. event \in Events /\ raised \subseteq RaisedCalls  BY DEF BuilderInv, BuilderTypeOK
<1>3. raised' \subseteq RaisedCalls
  <2>1. [frame |-> f, field |-> field] \in RaisedCalls  BY DEF RaisedCalls
  <2> QED BY <1>1, <1>2, <2>1
<1>4. Forgetful \subseteq Forgetful'  BY <1>1 DEF Forgetful
<1>5. field = "value" => f \in Forgetful'
  <2> SUFFICES ASSUME field = "value" PROVE f \in Forgetful'
    OBVIOUS
  <2> DEFINE q == [frame |-> f, field |-> field]
  <2>1. q \in raised' /\ q.field = "value" /\ q.frame = f  BY <1>1
  <2> HIDE DEF q
  <2> QED BY <2>1 DEF Forgetful
<1>6. PICK b : b = Forgetful'  OBVIOUS
<1>7. {} \in SUBSET Indexes /\ Forgetful \subseteq b
      /\ (f \notin b => S \subseteq {} /\ \A s \in S : ~AlreadyDefined(f, s))
  BY <1>4, <1>5, <1>6
<1>8. /\ Written(f, frame) \in Seq(FrameEntries)
      /\ DOMAIN Indexed(f, {}) \subseteq Indexes
      /\ \A g \in DOMAIN Indexed(f, {}) : Indexed(f, {})[g] \in Entries
      /\ restored \in 0..Len(Written(f, frame))
      /\ Matched(Written(f, frame), Indexed(f, {}), restored, b)
      /\ SlotsOnce(Written(f, frame), Indexed(f, {}), b)
  BY <1>7, Appending
<1>9. event' \in Events /\ event'.frames = Written(f, frame)  BY <1>1, <1>2, <1>8 DEF Events
<1>10. BuilderTypeOK'
  BY <1>1, <1>3, <1>8, <1>9 DEF BuilderInv, BuilderTypeOK
<1>11. Matched(event'.frames, index', restored', b) /\ SlotsOnce(event'.frames, index', b)
  BY <1>1, <1>8, <1>9
<1> QED BY <1>6, <1>10, <1>11 DEF BuilderInv

LEMMA CallAppendKeeps == BuilderInv /\ CallAppend => BuilderInv'
<1> SUFFICES ASSUME BuilderInv, CallAppend PROVE BuilderInv'
  OBVIOUS
<1>1. /\ event \in Events /\ event.frames \in Seq(FrameEntries)
      /\ calls' \in 0..MaxCalls
      /\ asked \in Seq([frame : Indexes, slot : Indexes, args : Keywords])
  BY BuilderAssumption DEF BuilderInv, BuilderTypeOK, Events, CallAppend
<1>2. PICK f \in Indexes, s \in Indexes, k \in Keywords :
        \/ RefuseAppend(f, s, k)
        \/ RaiseAtFrame(f, s, k)
        \/ RaiseAtDefault(f, s, k)
        \/ RaiseAtSlot(f, s, k)
        \/ RaiseAtField(f, s, k)
        \/ AppendSlot(f, s, k)
  BY DEF CallAppend
<1>3. k \in KeywordArguments  BY BuilderAssumption
<1>4. CASE RefuseAppend(f, s, k)
  BY <1>1, <1>4 DEF RefuseAppend, BuilderInv, BuilderTypeOK, Forgetful
<1> DEFINE old == Entry(f)
           mid == WithDefaults(old, k.frameFreq, k.frameClass)
<1>5. Place(f) # 0 =>
        /\ Revised(old, old, {})
        /\ \A part \in Parts(k.frameFreq, k.frameClass) :
             Revised(old, WithDefaults(old, part[1], part[2]), {})
        /\ Revised(old, WithSlot(mid, NoSlot), {})
        /\ Fits(s) /\ ~Refused(k) =>
             \A part \in Parts(k.freq, k.class) \cup {<<{}, {}>>} :
               Revised(old, WithSlot(mid, NewSlot(s, k.type, part[1], part[2])), {s})
  <2>1. Place(f) # 0 => old \in FrameEntries  BY Entering
  <2>2. Place(f) # 0 => Revised(old, old, {})  BY <2>1 DEF Revised
  <2> HIDE DEF old
  <2> QED BY <1>3, <2>1, <2>2, CallRevises
<1> HIDE DEF old, mid
<1>6. CASE RaiseAtFrame(f, s, k)
  <2>1. Raise(f, old, "frame index")  BY <1>6 DEF RaiseAtFrame, old
  <2> QED BY <1>1, <1>5, <2>1, RaiseKeeps DEF old
<1>7. CASE RaiseAtDefault(f, s, k)
  <2>1. PICK part \in Parts(k.frameFreq, k.frameClass) :
          Raise(f, WithDefaults(old, part[1], part[2]), "default")
    BY <1>7 DEF RaiseAtDefault, old
  <2>2. Place(f) # 0 => Revised(Entry(f), WithDefaults(old, part[1], part[2]), {})
    BY <1>5 DEF old
  <2> QED BY <1>1, <2>1, <2>2, RaiseKeeps
<1>8. CASE RaiseAtSlot(f, s, k)
  <2>1. Raise(f, WithSlot(mid, NoSlot), "slot index")  BY <1>8 DEF RaiseAtSlot, mid, old
  <2>2. Place(f) # 0 => Revised(Entry(f), WithSlot(mid, NoSlot), {})  BY <1>5 DEF old
  <2> QED BY <1>1, <2>1, <2>2, RaiseKeeps
<1>9. CASE RaiseAtField(f, s, k)
  <2>1. PICK part \in SlotParts(k) :
          Raise(f, WithSlot(mid, NewSlot(s, k.type, part[1], part[2])), "value")
    BY <1>9 DEF RaiseAtField, mid, old
  <2>2. part \in Parts(k.freq, k.class) \cup {<<{}, {}>>} /\ Fits(s) /\ ~Refused(k)
    BY <1>9 DEF RaiseAtField, Starts, SlotParts
  <2>3. Place(f) # 0 =>
          Revised(Entry(f), WithSlot(mid, NewSlot(s, k.type, part[1], part[2])), {s})
    BY <1>5, <2>2 DEF old
  <2> QED BY <1>1, <2>1, <2>3, RaiseKeeps
<1>10. CASE AppendSlot(f, s, k)
  <2> DEFINE frame == WithSlot(mid, NewSlot(s, k.type, k.freq, k.class))
  <2>1. /\ event' = [event EXCEPT !.frames = Written(f, frame)] /\ index' = Indexed(f, {s})
        /\ outcome' = "accepted" /\ restored' = restored /\ raised' = raised
        /\ asked' = Append(asked, [frame |-> f, slot |-> s, args |-> k])
        /\ ~AlreadyDefined(f, s) /\ ~Refused(k) /\ Fits(s)
    BY <1>10 DEF AppendSlot, Starts, mid, old
  <2>2. Place(f) # 0 => Revised(Entry(f), frame, {s})
    <3>1. <<k.freq, k.class>> \in Parts(k.freq, k.class) \cup {<<{}, {}>>}  BY DEF Parts
    <3>2. <<k.freq, k.class>>[1] = k.freq /\ <<k.freq, k.class>>[2] = k.class  OBVIOUS
    <3>3. PICK part \in Parts(k.freq, k.class) \cup {<<{}, {}>>} :
            part[1] = k.freq /\ part[2] = k.class
      BY <3>1, <3>2
    <3>4. Place(f) # 0 => Revised(old, WithSlot(mid, NewSlot(s, k.type, part[1], part[2])), {s})
      BY <1>5, <2>1
    <3> QED BY <3>3, <3>4 DEF old
  <2> HIDE DEF frame
  <2>3. /\ Written(f, frame) \in Seq(FrameEntries)
        /\ DOMAIN Indexed(f, {s}) \subseteq Indexes
        /\ \A g \in DOMAIN Indexed(f, {s}) : Indexed(f, {s})[g] \in Entries
        /\ restored \in 0..Len(Written(f, frame))
        /\ Matched(Written(f, frame), Indexed(f, {s}), restored, Forgetful)
        /\ SlotsOnce(Written(f, frame), Indexed(f, {s}), Forgetful)
    BY <2>1, <2>2, Appending
  <2>4. event' \in Events /\ event'.frames = Written(f, frame)  BY <1>1, <2>1, <2>3 DEF Events
  <2>5. asked' \in Seq([frame : Indexes, slot : Indexes, args : Keywords])
    BY <1>1, <2>1
  <2>7. raised' \subseteq RaisedCalls /\ Forgetful' = Forgetful
    BY <2>1 DEF BuilderInv, BuilderTypeOK, Forgetful
  <2>6. BuilderTypeOK'  BY <1>1, <2>1, <2>3, <2>4, <2>5, <2>7 DEF BuilderTypeOK
  <2> QED BY <2>1, <2>3, <2>4, <2>6, <2>7 DEF BuilderInv
<1> QED BY <1>2, <1>4, <1>6, <1>7, <1>8, <1>9, <1>10

LEMMA StructureKeeps ==
  ASSUME BuilderInv, NEW st \in Shapes, RefuseStructure(st) \/ Structure(st)
  PROVE  BuilderInv'
<1>1. CASE RefuseStructure(st)
  BY <1>1 DEF RefuseStructure, BuilderInv, BuilderTypeOK, Forgetful
<1>2. CASE Structure(st)
  <2>1. event' = [event EXCEPT !.structure = Assigned(event.structure, st)]
        /\ outcome' \in {"accepted", "raised"}
        /\ index' = index /\ calls' = calls /\ asked' = asked /\ restored' = restored
        /\ raised' = raised
    BY <1>2 DEF Structure
  <2>2. event.structure \in StructureFields /\ event \in Events
    BY DEF BuilderInv, BuilderTypeOK, Events
  <2>3. /\ {st.slots} \in Optional(Nat) /\ {st.frames} \in Optional(Nat)
        /\ {st.bandwidth} \in Optional(Nat)
    BY BuilderAssumption, OptionalFields
  <2>4. Assigned(event.structure, st) \in StructureFields
    BY <2>2, <2>3 DEF Assigned, StructureFields
  <2>5. event' \in Events /\ event'.frames = event.frames  BY <2>1, <2>2, <2>4 DEF Events
  <2>6. BuilderTypeOK'  BY <2>1, <2>5 DEF BuilderInv, BuilderTypeOK
  <2> QED BY <2>1, <2>5, <2>6 DEF BuilderInv, Forgetful
<1> QED BY <1>1, <1>2

LEMMA RestoreKeeps ==
  ASSUME BuilderInv, NEW ev \in Archive, Restore(ev)
  PROVE  BuilderInv'
<1>1. event' = ev /\ index' = Detached /\ outcome' = "accepted" /\ asked' = <<>>
      /\ restored' = Len(ev.frames) /\ calls' = calls /\ raised' = {}
  BY DEF Restore
<1>2. ev \in Events /\ Len(ev.frames) \in Nat  BY BuilderAssumption DEF Events
<1>3. DOMAIN Detached = DOMAIN index /\ \A f \in DOMAIN Detached :
        Detached[f] = [index[f] EXCEPT !.at = 0]
  BY DEF Detached
<1>4. \A f \in DOMAIN index : index[f] \in Entries  BY DEF BuilderInv, BuilderTypeOK
<1>5. \A f \in DOMAIN Detached : Detached[f].at = 0 /\ Detached[f] \in Entries
  BY <1>3, <1>4 DEF Entries
<1>6. BuilderTypeOK'
  BY <1>1, <1>2, <1>3, <1>5 DEF BuilderInv, BuilderTypeOK
<1>7. Matched(event.frames, index, restored, Forgetful)'
      /\ SlotsOnce(event.frames, index, Forgetful)'
  <2>1. PICK b : b = Forgetful'  OBVIOUS
  <2>3. Matched(event'.frames, index', restored', b) /\ SlotsOnce(event'.frames, index', b)
    BY <1>1, <1>2, <1>5 DEF Matched, SlotsOnce
  <2> QED BY <2>1, <2>3
<1> QED BY <1>6, <1>7 DEF BuilderInv

LEMMA BuilderStep == BuilderInv /\ [Next]_vars => BuilderInv'
<1> SUFFICES ASSUME BuilderInv, [Next]_vars PROVE BuilderInv'
  OBVIOUS
<1>1. CASE CallAppend  BY <1>1, CallAppendKeeps
<1>2. CASE \E st \in Shapes : RefuseStructure(st) \/ Structure(st)
  BY <1>2, StructureKeeps
<1>3. CASE \E ev \in Archive : Restore(ev)  BY <1>3, RestoreKeeps
<1>4. CASE UNCHANGED vars
  BY <1>4 DEF vars, BuilderInv, BuilderTypeOK, Forgetful
<1> QED BY <1>1, <1>2, <1>3, <1>4 DEF Next

-----------------------------------------------------------------------------
(* Theorems: the message and its index                                     *)

\* The inductive invariant: message and index match in every reachable state.
THEOREM BuilderInvariance == Spec => []BuilderInv
BY BuilderInitially, BuilderStep, PTL DEF Spec

\* The message and its index stay well typed, whatever is called.
THEOREM BuilderTyping == Spec => []BuilderTypeOK
<1>1. BuilderInv => BuilderTypeOK  BY DEF BuilderInv
<1> QED BY <1>1, BuilderInvariance, PTL

\* append() lists no frame twice, and no slot twice but of a frame for which a call raised
\* at a value of its slot.
THEOREM FramesListedOnce == Spec => []ListedOnce
<1>1. BuilderInv => ListedOnce
  <2> SUFFICES ASSUME BuilderInv PROVE ListedOnce
    OBVIOUS
  <2>1. ASSUME NEW i \in (restored + 1)..Len(event.frames),
               NEW j \in (restored + 1)..Len(event.frames), event.frames[i].index # {},
               event.frames[j].index = event.frames[i].index
        PROVE  j = i
    <3>1. PICK f \in DOMAIN index : index[f].at = i  BY DEF BuilderInv, Matched
    <3>2. PICK g \in DOMAIN index : index[g].at = j  BY DEF BuilderInv, Matched
    <3>3. i # 0 /\ j # 0  BY DEF BuilderInv, BuilderTypeOK
    <3>4. /\ event.frames[i].index = IF Fits(f) THEN {f} ELSE {}
          /\ event.frames[j].index = IF Fits(g) THEN {g} ELSE {}
      BY <3>1, <3>2, <3>3 DEF BuilderInv, Matched
    <3>5. f = g  BY <2>1, <3>4
    <3> QED BY <3>1, <3>2, <3>5
  <2>2. \A f \in DOMAIN index \ Forgetful :
          index[f].at # 0 => Distinct(event.frames[index[f].at].slots)
    BY DEF BuilderInv, SlotsOnce
  <2> QED BY <2>1, <2>2 DEF ListedOnce, Distinct
<1> QED BY <1>1, BuilderInvariance, PTL

-----------------------------------------------------------------------------
(* Sequences and sets of indexes                                           *)

\* A set of natural numbers that is not empty has a least element.
LEMMA LeastIndex ==
  ASSUME NEW T \in SUBSET Nat, T # {}
  PROVE  \E x \in T : \A y \in T : x <= y
<1>1. PICK x \in T : \A y \in T : ~ (<<y, x>> \in OpToRel(<, Nat))
  BY NatLessThanWellFounded, WFMin
<1>2. \A y \in T : ~ (y < x)  BY <1>1 DEF OpToRel
<1> QED BY <1>2

\* A set of indexes of a sequence that is not empty has a greatest one.
LEMMA GreatestIndex ==
  ASSUME NEW n \in Nat, NEW T \in SUBSET (1..n), T # {}
  PROVE  /\ Decoder!Max(T) \in T
         /\ \A y \in T : y <= Decoder!Max(T)
<1> DEFINE U == {n - t : t \in T}
<1>1. U \in SUBSET Nat /\ U # {}
  <2>1. \A t \in T : n - t \in Nat  OBVIOUS
  <2>2. PICK t \in T : TRUE  OBVIOUS
  <2>3. n - t \in U  BY <2>2
  <2> QED BY <2>1, <2>3
<1>2. PICK u \in U : \A v \in U : u <= v  BY <1>1, LeastIndex
<1>3. PICK x \in T : u = n - x  OBVIOUS
<1>4. \A y \in T : n - x <= n - y  BY <1>2, <1>3
<1>5. \A y \in T : x >= y  BY <1>4
<1>6. \E z \in T : \A y \in T : z >= y  BY <1>5
<1>7. /\ Decoder!Max(T) \in T
      /\ \A y \in T : Decoder!Max(T) >= y
  BY <1>6 DEF Decoder!Max
<1> QED BY <1>7

LEMMA OnlyIndex ==
  ASSUME NEW n \in Nat, NEW x \in 1..n
  PROVE  Decoder!Max({x}) = x
BY GreatestIndex

\* What is in a sequence: one sequence after another holds what each of them does.
LEMMA ElementsOfBoth ==
  ASSUME NEW T, NEW a \in Seq(T), NEW b \in Seq(T)
  PROVE  /\ a \o b \in Seq(T)
         /\ Decoder!Range(a \o b) = Decoder!Range(a) \cup Decoder!Range(b)
<1>1. /\ a \o b \in Seq(T) /\ DOMAIN (a \o b) = 1..(Len(a) + Len(b))
      /\ \A i \in 1..(Len(a) + Len(b)) :
           (a \o b)[i] = IF i <= Len(a) THEN a[i] ELSE b[i - Len(a)]
  BY ConcatProperties
<1>2. DOMAIN a = 1..Len(a) /\ DOMAIN b = 1..Len(b) /\ Len(a) \in Nat /\ Len(b) \in Nat
  OBVIOUS
<1>3. \A i \in DOMAIN (a \o b) :
        \/ i \in DOMAIN a /\ (a \o b)[i] = a[i]
        \/ i - Len(a) \in DOMAIN b /\ (a \o b)[i] = b[i - Len(a)]
  BY <1>1, <1>2
<1>4. \A i \in DOMAIN a : i \in DOMAIN (a \o b) /\ (a \o b)[i] = a[i]
  BY <1>1, <1>2
<1>5. \A i \in DOMAIN b :
        i + Len(a) \in DOMAIN (a \o b) /\ (a \o b)[i + Len(a)] = b[i]
  BY <1>1, <1>2
<1>6. \A v \in Decoder!Range(a \o b) : v \in Decoder!Range(a) \cup Decoder!Range(b)
  BY <1>3 DEF Decoder!Range
<1>7. \A v \in Decoder!Range(a) \cup Decoder!Range(b) : v \in Decoder!Range(a \o b)
  BY <1>4, <1>5 DEF Decoder!Range
<1> QED BY <1>1, <1>6, <1>7

\* g is the function FlattenSeq defines, up to m.
Flattens(seqs, m, g) ==
  g = [i \in 1..m |-> IF i = 1 THEN seqs[i] ELSE g[i - 1] \o seqs[i]]

\* The function FlattenSeq defines exists, by induction on its domain.
LEMMA FlattenDefined ==
  ASSUME NEW seqs, NEW n \in Nat
  PROVE  \E g : Flattens(seqs, n, g)
<1> DEFINE T == {m \in 0..n : ~\E g : Flattens(seqs, m, g)}
<1> SUFFICES ASSUME T # {} PROVE FALSE
  <2>1. n \in 0..n  OBVIOUS
  <2> QED BY <2>1
<1>1. T \in SUBSET Nat  OBVIOUS
<1>2. PICK m \in T : \A y \in T : m <= y  BY <1>1, LeastIndex
<1>3. m \in 0..n /\ ~\E g : Flattens(seqs, m, g)  BY <1>2
<1>4. m # 0
  <2>1. Flattens(seqs, 0, [i \in 1..0 |-> 0])  BY DEF Flattens
  <2> QED BY <1>3, <2>1
<1>5. m - 1 \in 0..n /\ m - 1 \notin T  BY <1>2, <1>3, <1>4
<1>6. PICK g : Flattens(seqs, m - 1, g)  BY <1>5
<1> DEFINE h == [i \in 1..m |-> IF i = m THEN (IF m = 1 THEN seqs[m] ELSE g[m - 1] \o seqs[m])
                                ELSE g[i]]
<1>7. /\ g = [i \in 1..(m - 1) |-> IF i = 1 THEN seqs[i] ELSE g[i - 1] \o seqs[i]]
      /\ \A i \in 1..(m - 1) : g[i] = IF i = 1 THEN seqs[i] ELSE g[i - 1] \o seqs[i]
  BY <1>6 DEF Flattens
<1>8. \A i \in 1..m : h[i] = IF i = 1 THEN seqs[i] ELSE h[i - 1] \o seqs[i]
  <2>1. SUFFICES ASSUME NEW i \in 1..m
                 PROVE  h[i] = IF i = 1 THEN seqs[i] ELSE h[i - 1] \o seqs[i]
    OBVIOUS
  <2>2. m \in Nat /\ m >= 1  BY <1>3, <1>4
  <2>3. CASE i = 1
    <3>1. CASE m = 1  BY <2>3, <3>1
    <3>2. CASE m # 1
      <4>1. 1 \in 1..(m - 1) /\ h[1] = g[1]  BY <2>2, <3>2
      <4> QED BY <1>7, <2>3, <4>1
    <3> QED BY <3>1, <3>2
  <2>4. CASE i # 1
    <3>1. i - 1 \in 1..m /\ i - 1 # m /\ h[i - 1] = g[i - 1]  BY <2>2, <2>4
    <3>2. CASE i = m  BY <2>4, <3>1, <3>2
    <3>3. CASE i # m
      <4>1. i \in 1..(m - 1) /\ h[i] = g[i]  BY <2>2, <3>3
      <4> QED BY <1>7, <2>4, <3>1, <4>1
    <3> QED BY <3>2, <3>3
  <2> QED BY <2>3, <2>4
<1>9. h = [i \in 1..m |-> h[i]]  OBVIOUS
<1> HIDE DEF h
<1>10. Flattens(seqs, m, h)
  BY <1>8, <1>9 DEF Flattens
<1> QED BY <1>3, <1>10

\* Sequences strung together hold what is in one of them, by induction on their number.
LEMMA FlattenElements ==
  ASSUME NEW T, NEW seqs \in Seq(Seq(T))
  PROVE  /\ Decoder!FlattenSeq(seqs) \in Seq(T)
         /\ Decoder!Range(Decoder!FlattenSeq(seqs))
              = UNION {Decoder!Range(seqs[i]) : i \in DOMAIN seqs}
<1> DEFINE n == Len(seqs)
<1>1. n \in Nat /\ DOMAIN seqs = 1..n /\ \A i \in 1..n : seqs[i] \in Seq(T)
  OBVIOUS
<1>2. CASE n = 0
  <2>1. seqs = <<>> /\ <<>> \in Seq(T)  BY <1>2
  <2>2. Decoder!FlattenSeq(seqs) = <<>>  BY <2>1 DEF Decoder!FlattenSeq
  <2>3. Decoder!Range(<<>>) = {}  BY DEF Decoder!Range
  <2>4. UNION {Decoder!Range(seqs[i]) : i \in DOMAIN seqs} = {}  BY <1>1, <1>2
  <2> QED BY <2>1, <2>2, <2>3, <2>4
<1>3. CASE n # 0
  <2> DEFINE g == CHOOSE h : Flattens(seqs, n, h)
             all(m) == UNION {Decoder!Range(seqs[i]) : i \in 1..m}
             Bad == {m \in 1..n : ~ (g[m] \in Seq(T) /\ Decoder!Range(g[m]) = all(m))}
  <2>1. Decoder!FlattenSeq(seqs) = g[n]
    BY <1>3 DEF Decoder!FlattenSeq, Flattens
  <2>2. Flattens(seqs, n, g)  BY <1>1, FlattenDefined
  <2> HIDE DEF n, g
  <2>3. \A i \in 1..n : g[i] = IF i = 1 THEN seqs[i] ELSE g[i - 1] \o seqs[i]
    BY <2>2 DEF Flattens
  <2>4. ASSUME Bad # {} PROVE FALSE
    <3>1. Bad \in SUBSET Nat  OBVIOUS
    <3>2. PICK m \in Bad : \A y \in Bad : m <= y  BY <2>4, <3>1, LeastIndex
    <3>3. m \in 1..n /\ ~ (g[m] \in Seq(T) /\ Decoder!Range(g[m]) = all(m))
      BY <3>2
    <3> HIDE DEF Bad
    <3>4. CASE m = 1
      <4>1. g[1] = seqs[1] /\ seqs[1] \in Seq(T)  BY <1>1, <2>3, <3>3, <3>4
      <4>2. all(1) = Decoder!Range(seqs[1])
        <5>1. 1..1 = {1}  OBVIOUS
        <5> QED BY <5>1
      <4> QED BY <3>3, <3>4, <4>1, <4>2
    <3>5. CASE m # 1
      <4>1. m - 1 \in 1..n /\ m \in 1..n  BY <1>1, <3>3, <3>5
      <4>2. m - 1 \notin Bad  BY <1>1, <3>2, <3>3
      <4>3. g[m - 1] \in Seq(T) /\ Decoder!Range(g[m - 1]) = all(m - 1)
        BY <4>1, <4>2 DEF Bad
      <4>4. g[m] = g[m - 1] \o seqs[m] /\ seqs[m] \in Seq(T)  BY <1>1, <2>3, <3>5, <4>1
      <4>5. g[m] \in Seq(T) /\ Decoder!Range(g[m]) = Decoder!Range(g[m - 1]) \cup Decoder!Range(seqs[m])
        BY <4>3, <4>4, ElementsOfBoth
      <4>6. all(m) = all(m - 1) \cup Decoder!Range(seqs[m])
        <5>1. 1..m = (1..(m - 1)) \cup {m}  BY <1>1, <3>3
        <5> QED BY <5>1
      <4> HIDE DEF all
      <4> QED BY <3>3, <4>3, <4>5, <4>6
    <3> QED BY <3>4, <3>5
  <2>5. n \in 1..n  BY <1>1, <1>3
  <2>7. n \notin Bad  BY <2>4
  <2>6. g[n] \in Seq(T) /\ Decoder!Range(g[n]) = all(n)  BY <2>5, <2>7
  <2> QED BY <1>1, <2>1, <2>6
<1> QED BY <1>2, <1>3

-----------------------------------------------------------------------------
(* What a radio decodes from a message                                     *)

LEMMA FieldValue ==
  ASSUME NEW field, field # {}
  PROVE  Decoder!The(field) \in field
BY DEF Decoder!The

\* What a class is narrowed to fits a byte, and is there if the class is.
LEMMA ByteOf ==
  /\ \A field \in SUBSET Nat : Decoder!Byte(field) \subseteq 0..255
  /\ \A field \in Optional(Nat) : Decoder!Byte(field) \in Optional(Nat)
<1>1. \A v \in Nat : v % 256 \in 0..255  OBVIOUS
<1>2. \A field \in SUBSET Nat : Decoder!Byte(field) \subseteq 0..255
  BY <1>1, Zenon DEF Decoder!Byte
<1>3. ASSUME NEW field \in Optional(Nat)  PROVE Decoder!Byte(field) \in Optional(Nat)
  <2>1. field \subseteq Nat /\ \A v, w \in field : v = w  BY DEF Optional
  <2>2. Decoder!Byte(field) \subseteq 0..255  BY <1>2, <2>1
  <2>3. 0..255 \subseteq Nat  OBVIOUS
  <2>4. \A x, y \in Decoder!Byte(field) : x = y  BY <2>1, Zenon DEF Decoder!Byte
  <2>5. Decoder!Byte(field) \subseteq Nat  BY <2>2, <2>3
  <2> HIDE DEF Decoder!Byte
  <2> QED BY <2>4, <2>5 DEF Optional
<1> QED BY <1>2, <1>3

\* A message of frames and slots: what is read of a slot is well typed.
LEMMA SlotRead ==
  ASSUME NEW msg \in Decoder!Messages, NEW i \in DOMAIN msg.frames
  PROVE  /\ msg.frames[i] \in Decoder!FrameMessages
         /\ msg.frames[i].index \in Nat
         /\ msg.frames[i].slots \in Seq(Decoder!SlotMessages)
         /\ Decoder!FillFrequency(msg, msg.frames[i]) \subseteq Nat
         /\ \A j \in DOMAIN msg.frames[i].slots :
              /\ msg.frames[i].slots[j] \in Decoder!SlotMessages
              /\ msg.frames[i].slots[j].index \in Nat
              /\ msg.frames[i].slots[j].type \in Decoder!SlotTypes
              /\ Decoder!SlotFrequency(msg, msg.frames[i], msg.frames[i].slots[j]) \subseteq Nat
              /\ Decoder!SlotClass(msg, msg.frames[i], msg.frames[i].slots[j]) \subseteq 0..255
<1> DEFINE frame == msg.frames[i]
<1>1. /\ msg.frames \in Seq(Decoder!FrameMessages)
      /\ msg.freq \subseteq Nat /\ msg.class \subseteq Nat
  BY DEF Decoder!Messages, Decoder!Optional
<1>2. frame \in Decoder!FrameMessages  BY <1>1
<1> HIDE DEF frame
<1>3. /\ frame.index \in Nat /\ frame.freq \subseteq Nat /\ frame.class \subseteq Nat
      /\ frame.slots \in Seq(Decoder!SlotMessages)
  BY <1>2 DEF Decoder!FrameMessages, Decoder!Optional
<1>4. Decoder!FillFrequency(msg, frame) \subseteq Nat
  BY <1>1, <1>3 DEF Decoder!FillFrequency, Decoder!FirstPresent
<1>5. ASSUME NEW j \in DOMAIN frame.slots
      PROVE  /\ frame.slots[j] \in Decoder!SlotMessages
             /\ frame.slots[j].index \in Nat
             /\ frame.slots[j].type \in Decoder!SlotTypes
             /\ Decoder!SlotFrequency(msg, frame, frame.slots[j]) \subseteq Nat
             /\ Decoder!SlotClass(msg, frame, frame.slots[j]) \subseteq 0..255
  <2>1. frame.slots[j] \in Decoder!SlotMessages  BY <1>3
  <2>2. /\ frame.slots[j].index \in Nat /\ frame.slots[j].type \in Decoder!SlotTypes
        /\ frame.slots[j].freq \subseteq Nat /\ frame.slots[j].class \subseteq Nat
    BY <2>1 DEF Decoder!SlotMessages, Decoder!Optional
  <2>3. Decoder!SlotFrequency(msg, frame, frame.slots[j]) \subseteq Nat
    BY <1>1, <1>3, <2>2 DEF Decoder!SlotFrequency, Decoder!FirstPresent
  <2>4. Decoder!SlotClass(msg, frame, frame.slots[j]) \subseteq 0..255
    <3> DEFINE class == Decoder!FirstPresent(frame.slots[j].class, frame.class, msg.class)
    <3>1. class \in SUBSET Nat  BY <1>1, <1>3, <2>2 DEF Decoder!FirstPresent
    <3>2. Decoder!Byte(class) \subseteq 0..255 /\ {0} \subseteq 0..255  BY <3>1, ByteOf
    <3> HIDE DEF class
    <3>3. \/ Decoder!SlotClass(msg, frame, frame.slots[j]) = {0}
          \/ Decoder!SlotClass(msg, frame, frame.slots[j]) = Decoder!Byte(class)
      BY DEF Decoder!SlotClass, class
    <3> QED BY <3>2, <3>3
  <2> QED BY <2>1, <2>2, <2>3, <2>4
<1> QED BY <1>2, <1>3, <1>4, <1>5 DEF frame

\* The entry a slot of a readable message becomes, with a frequency that is announced.
LEMMA SlotDecodes ==
  ASSUME NEW msg \in Decoder!Messages, ~Decoder!Undeterminable(msg),
         NEW i \in DOMAIN msg.frames, NEW j \in DOMAIN msg.frames[i].slots
  PROVE  LET info == Decoder!SlotDecoded(msg, msg.frames[i], msg.frames[i].slots[j])
         IN /\ info \in Decoder!SlotInfos
            /\ info.frame = msg.frames[i].index /\ info.slot = msg.frames[i].slots[j].index
            /\ info.freq \in Decoder!EventFrequencies(msg)
<1> DEFINE frame == msg.frames[i]
           slot == frame.slots[j]
           freq == Decoder!SlotFrequency(msg, frame, slot)
           class == Decoder!SlotClass(msg, frame, slot)
           info == Decoder!SlotDecoded(msg, frame, slot)
<1>1. /\ frame.index \in Nat /\ slot.index \in Nat /\ slot.type \in Decoder!SlotTypes
      /\ freq \subseteq Nat /\ class \subseteq 0..255
  BY SlotRead
<1>2. freq # {} /\ class # {}  BY DEF Decoder!Undeterminable
<1>3. Decoder!The(freq) \in freq /\ Decoder!The(class) \in class  BY <1>2, FieldValue
<1>4. info = [type |-> slot.type, frame |-> frame.index, slot |-> slot.index,
              freq |-> Decoder!The(freq), class |-> Decoder!The(class)]
  BY DEF Decoder!SlotDecoded, Decoder!Info
<1>5. freq \subseteq Decoder!EventFrequencies(msg)
  BY DEF Decoder!EventFrequencies
<1> HIDE DEF frame, slot, freq, class, info
<1>6. info \in Decoder!SlotInfos  BY <1>1, <1>3, <1>4 DEF Decoder!SlotInfos
<1>7. info.frame = frame.index /\ info.slot = slot.index /\ info.freq = Decoder!The(freq)
  BY <1>4
<1> QED BY <1>3, <1>5, <1>6, <1>7 DEF frame, slot, freq, class, info

\* The frequencies announced are those of the slots listed and of those left out.
LEMMA FrequenciesOf ==
  ASSUME NEW msg
  PROVE  LET own(i) == UNION {Decoder!SlotFrequency(msg, msg.frames[i], msg.frames[i].slots[j]) :
                                j \in DOMAIN msg.frames[i].slots}
             fill(i) == IF Decoder!HasStructure(msg) /\ Decoder!Missing(msg, msg.frames[i]) # {}
                        THEN Decoder!FillFrequency(msg, msg.frames[i]) ELSE {}
         IN Decoder!EventFrequencies(msg) = UNION {own(i) \cup fill(i) : i \in DOMAIN msg.frames}
BY DEF Decoder!EventFrequencies

LEMMA FrequenciesRead ==
  ASSUME NEW msg \in Decoder!Messages
  PROVE  Decoder!EventFrequencies(msg) \subseteq Nat
<1>1. \A i \in DOMAIN msg.frames :
        /\ Decoder!FillFrequency(msg, msg.frames[i]) \subseteq Nat
        /\ \A j \in DOMAIN msg.frames[i].slots :
             Decoder!SlotFrequency(msg, msg.frames[i], msg.frames[i].slots[j]) \subseteq Nat
  BY SlotRead
<1> DEFINE own(i) == UNION {Decoder!SlotFrequency(msg, msg.frames[i], msg.frames[i].slots[j]) :
                             j \in DOMAIN msg.frames[i].slots}
           fill(i) == IF Decoder!HasStructure(msg) /\ Decoder!Missing(msg, msg.frames[i]) # {}
                      THEN Decoder!FillFrequency(msg, msg.frames[i]) ELSE {}
<1>2. Decoder!EventFrequencies(msg) = UNION {own(i) \cup fill(i) : i \in DOMAIN msg.frames}
  BY FrequenciesOf
<1>3. \A i \in DOMAIN msg.frames : own(i) \subseteq Nat /\ fill(i) \subseteq Nat
  BY <1>1
<1> HIDE DEF own, fill
<1> QED BY <1>2, <1>3

LEMMA FillAnnounced ==
  ASSUME NEW msg, Decoder!HasStructure(msg), NEW i \in DOMAIN msg.frames,
         Decoder!Missing(msg, msg.frames[i]) # {}
  PROVE  Decoder!FillFrequency(msg, msg.frames[i]) \subseteq Decoder!EventFrequencies(msg)
<1> DEFINE own(x) == UNION {Decoder!SlotFrequency(msg, msg.frames[x], msg.frames[x].slots[j]) :
                             j \in DOMAIN msg.frames[x].slots}
           fill(x) == IF Decoder!HasStructure(msg) /\ Decoder!Missing(msg, msg.frames[x]) # {}
                      THEN Decoder!FillFrequency(msg, msg.frames[x]) ELSE {}
<1>1. Decoder!EventFrequencies(msg) = UNION {own(x) \cup fill(x) : x \in DOMAIN msg.frames}
  BY FrequenciesOf
<1>2. fill(i) = Decoder!FillFrequency(msg, msg.frames[i])  OBVIOUS
<1> HIDE DEF own, fill
<1> QED BY <1>1, <1>2

-----------------------------------------------------------------------------
(* Updates                                                                 *)

\* The entries of an update: those of its frames' slots and no others.
LEMMA UpdateEntries ==
  ASSUME NEW msg \in Decoder!Messages, ~Decoder!Undeterminable(msg)
  PROVE  /\ Decoder!UpdateSlots(msg) \in Seq(Decoder!SlotInfos)
         /\ \A k \in DOMAIN Decoder!UpdateSlots(msg) :
              \E i \in DOMAIN msg.frames : \E j \in DOMAIN msg.frames[i].slots :
                Decoder!UpdateSlots(msg)[k]
                  = Decoder!SlotDecoded(msg, msg.frames[i], msg.frames[i].slots[j])
         /\ \A i \in DOMAIN msg.frames : \A j \in DOMAIN msg.frames[i].slots :
              \E k \in DOMAIN Decoder!UpdateSlots(msg) :
                Decoder!UpdateSlots(msg)[k]
                  = Decoder!SlotDecoded(msg, msg.frames[i], msg.frames[i].slots[j])
<1> DEFINE info(i, j) == Decoder!SlotDecoded(msg, msg.frames[i], msg.frames[i].slots[j])
           of == [i \in DOMAIN msg.frames |-> [j \in DOMAIN msg.frames[i].slots |-> info(i, j)]]
           flat == Decoder!FlattenSeq(of)
<1>1. \A i \in DOMAIN msg.frames : \A j \in DOMAIN msg.frames[i].slots :
        info(i, j) \in Decoder!SlotInfos
  BY SlotDecodes
<1>2. Decoder!UpdateSlots(msg) = flat  BY DEF Decoder!UpdateSlots
<1>3. \A i \in DOMAIN msg.frames : msg.frames[i].slots \in Seq(Decoder!SlotMessages)
  BY SlotRead
<1>4. msg.frames \in Seq(Decoder!FrameMessages)  BY DEF Decoder!Messages
<1> HIDE DEF info
<1>5. \A i \in DOMAIN msg.frames : of[i] \in Seq(Decoder!SlotInfos)
  <2>1. SUFFICES ASSUME NEW i \in DOMAIN msg.frames PROVE of[i] \in Seq(Decoder!SlotInfos)
    OBVIOUS
  <2>2. of[i] = [j \in DOMAIN msg.frames[i].slots |-> info(i, j)]  OBVIOUS
  <2>3. /\ DOMAIN msg.frames[i].slots = 1..Len(msg.frames[i].slots)
        /\ Len(msg.frames[i].slots) \in Nat
    BY <1>3
  <2>4. of[i] \in [1..Len(msg.frames[i].slots) -> Decoder!SlotInfos]
    BY <1>1, <2>2, <2>3
  <2> QED BY <2>3, <2>4
<1>6. of \in Seq(Seq(Decoder!SlotInfos))
  <2>1. DOMAIN msg.frames = 1..Len(msg.frames) /\ Len(msg.frames) \in Nat  BY <1>4
  <2>2. of \in [1..Len(msg.frames) -> Seq(Decoder!SlotInfos)]  BY <1>5, <2>1
  <2> QED BY <2>1, <2>2
<1>7. DOMAIN of = DOMAIN msg.frames
      /\ \A i \in DOMAIN of : DOMAIN of[i] = DOMAIN msg.frames[i].slots
                              /\ \A j \in DOMAIN of[i] : of[i][j] = info(i, j)
  OBVIOUS
<1> HIDE DEF of, flat
<1>8. /\ flat \in Seq(Decoder!SlotInfos)
      /\ Decoder!Range(flat) = UNION {Decoder!Range(of[i]) : i \in DOMAIN of}
  BY <1>6, FlattenElements DEF flat
<1>9. \A k \in DOMAIN flat :
        \E i \in DOMAIN msg.frames : \E j \in DOMAIN msg.frames[i].slots : flat[k] = info(i, j)
  <2> TAKE k \in DOMAIN flat
  <2>1. flat[k] \in Decoder!Range(flat)  BY DEF Decoder!Range
  <2>2. PICK i \in DOMAIN of : flat[k] \in Decoder!Range(of[i])  BY <1>8, <2>1
  <2>3. PICK j \in DOMAIN of[i] : flat[k] = of[i][j]  BY <2>2 DEF Decoder!Range
  <2> QED BY <1>7, <2>3
<1>10. \A i \in DOMAIN msg.frames : \A j \in DOMAIN msg.frames[i].slots :
         \E k \in DOMAIN flat : flat[k] = info(i, j)
  <2> TAKE i \in DOMAIN msg.frames
  <2> TAKE j \in DOMAIN msg.frames[i].slots
  <2>1. info(i, j) \in Decoder!Range(of[i])
    <3>1. j \in DOMAIN of[i] /\ of[i][j] = info(i, j)  BY <1>7
    <3> QED BY <3>1 DEF Decoder!Range
  <2>2. info(i, j) \in Decoder!Range(flat)  BY <1>7, <1>8, <2>1
  <2> QED BY <2>2 DEF Decoder!Range
<1> QED BY <1>2, <1>8, <1>9, <1>10 DEF info

-----------------------------------------------------------------------------
(* Full schedules                                                          *)

\* The index of a slot in the flat vector is that of one frame and slot of the structure.
LEMMA CellOfIndex ==
  ASSUME NEW F \in Nat, NEW S \in Nat, NEW k \in 0..(F * S - 1)
  PROVE  /\ k \div S \in 0..(F - 1) /\ k % S \in 0..(S - 1)
         /\ k = (k \div S) * S + (k % S)
<1>1. S > 0
  <2>1. CASE S = 0
    <3>1. F * S = 0  BY <2>1
    <3> QED BY <3>1
  <2> QED BY <2>1
<1>2. k \in Nat /\ k < F * S  OBVIOUS
<1>3. k = (k \div S) * S + (k % S) /\ k % S \in 0..(S - 1) /\ k \div S \in Nat
  BY <1>1, <1>2
<1>4. k \div S < F
  <2> DEFINE q == k \div S
  <2>1. q \in Nat /\ q * S <= k  BY <1>1, <1>2, <1>3
  <2> HIDE DEF q
  <2>2. ASSUME q >= F PROVE FALSE
    <3>1. PICK d \in Nat : q = F + d  BY <2>1, <2>2
    <3>2. q * S = F * S + d * S  BY <3>1
    <3>3. d * S \in Nat /\ F * S \in Nat  BY <3>1
    <3>4. q * S >= F * S  BY <3>2, <3>3
    <3> QED BY <1>2, <2>1, <3>3, <3>4
  <2> QED BY <2>1, <2>2 DEF q
<1> QED BY <1>3, <1>4

\* What a full schedule says of a slot: its frame is not listed and it idles, or the last
\* listing of the frame tells it, which names the slot or leaves it to be listened in.
LEMMA FullEntry ==
  ASSUME NEW msg \in Decoder!Messages, Decoder!HasStructure(msg),
         NEW F, NEW S, F = Decoder!The(msg.structure).frames,
         S = Decoder!The(msg.structure).slots,
         NEW k \in 0..(F * S - 1), NEW f, NEW s, f = k \div S, s = k % S
  PROVE  \/ /\ \A i \in DOMAIN msg.frames : msg.frames[i].index # f
            /\ Decoder!FullSlots(msg)[k] = Decoder!Info("idle", f, s, 0, 0)
         \/ \E i \in DOMAIN msg.frames :
              /\ msg.frames[i].index = f
              /\ \/ \E j \in DOMAIN msg.frames[i].slots :
                      /\ msg.frames[i].slots[j].index = s
                      /\ Decoder!FullSlots(msg)[k]
                           = Decoder!SlotDecoded(msg, msg.frames[i], msg.frames[i].slots[j])
                 \/ /\ s \notin Decoder!Listed(msg.frames[i])
                    /\ Decoder!FullSlots(msg)[k] =
                         Decoder!Info("rx", f, s,
                           Decoder!The(Decoder!FillFrequency(msg, msg.frames[i])), 0)
<1> DEFINE listings == {i \in DOMAIN msg.frames : msg.frames[i].index = f}
           frame == msg.frames[Decoder!Max(listings)]
           writes == {j \in DOMAIN frame.slots : frame.slots[j].index = s}
           e == Decoder!FullSlots(msg)[k]
<1>1. e = IF listings = {} THEN Decoder!Info("idle", f, s, 0, 0)
          ELSE IF writes # {}
          THEN Decoder!SlotDecoded(msg, frame, frame.slots[Decoder!Max(writes)])
          ELSE Decoder!Info("rx", f, s, Decoder!The(Decoder!FillFrequency(msg, frame)), 0)
  BY DEF Decoder!FullSlots
<1>2. CASE listings = {}
  BY <1>1, <1>2
<1>3. CASE listings # {}
  <2>1. msg.frames \in Seq(Decoder!FrameMessages)  BY DEF Decoder!Messages
  <2>2. listings \in SUBSET (1..Len(msg.frames)) /\ Len(msg.frames) \in Nat  BY <2>1
  <2>3. Decoder!Max(listings) \in listings  BY <1>3, <2>2, GreatestIndex
  <2>4. PICK i \in DOMAIN msg.frames : i = Decoder!Max(listings) /\ msg.frames[i].index = f
    BY <2>3
  <2>5. frame = msg.frames[i]  BY <2>4
  <2> HIDE DEF listings, frame
  <2>6. CASE writes = {}
    <3>1. s \notin Decoder!Listed(frame)  BY <2>6 DEF Decoder!Listed
    <3> QED BY <1>1, <1>3, <2>4, <2>5, <2>6, <3>1
  <2>7. CASE writes # {}
    <3>1. frame.slots \in Seq(Decoder!SlotMessages)  BY <2>4, <2>5, SlotRead
    <3>2. writes \in SUBSET (1..Len(frame.slots)) /\ Len(frame.slots) \in Nat  BY <3>1
    <3>3. Decoder!Max(writes) \in writes  BY <2>7, <3>2, GreatestIndex
    <3>4. Decoder!Max(writes) \in DOMAIN frame.slots /\ frame.slots[Decoder!Max(writes)].index = s
      BY <3>3
    <3>5. e = Decoder!SlotDecoded(msg, frame, frame.slots[Decoder!Max(writes)])
      BY <1>1, <1>3, <2>7
    <3> HIDE DEF writes, e
    <3>6. /\ Decoder!Max(writes) \in DOMAIN msg.frames[i].slots
          /\ msg.frames[i].slots[Decoder!Max(writes)].index = s
          /\ e = Decoder!SlotDecoded(msg, msg.frames[i], msg.frames[i].slots[Decoder!Max(writes)])
      BY <2>5, <3>4, <3>5
    <3>7. \E j \in DOMAIN msg.frames[i].slots :
            /\ msg.frames[i].slots[j].index = s
            /\ e = Decoder!SlotDecoded(msg, msg.frames[i], msg.frames[i].slots[j])
      BY <3>6
    <3> QED BY <2>4, <3>7 DEF e
  <2> QED BY <2>6, <2>7
<1> QED BY <1>2, <1>3

\* Every slot of a full schedule stands at its index, with its frequency announced.
LEMMA FullSound ==
  ASSUME NEW msg \in Decoder!Messages, Decoder!HasStructure(msg),
         ~Decoder!Undeterminable(msg)
  PROVE  LET st == Decoder!The(msg.structure)
             slots == Decoder!FullSlots(msg)
         IN /\ st \in Decoder!Structures
            /\ slots \in [0..(Decoder!NumSlots(st) - 1) -> Decoder!SlotInfos]
            /\ Decoder!InPlace(st, slots)
            /\ Decoder!Announced(slots, Decoder!EventFrequencies(msg))
<1> DEFINE st == Decoder!The(msg.structure)
           F == st.frames
           S == st.slots
           slots == Decoder!FullSlots(msg)
<1>1. st \in Decoder!Structures
  <2>1. msg.structure \subseteq Decoder!Structures  BY DEF Decoder!Messages, Decoder!Optional
  <2> QED BY <2>1, FieldValue DEF Decoder!HasStructure
<1>2. F \in Nat /\ S \in Nat  BY <1>1 DEF Decoder!Structures
<1>3. DOMAIN slots = 0..(F * S - 1) /\ slots = [k \in 0..(F * S - 1) |-> slots[k]]
  BY DEF Decoder!FullSlots
<1>4. ASSUME NEW k \in 0..(F * S - 1)
      PROVE  /\ slots[k] \in Decoder!SlotInfos
             /\ slots[k].frame = k \div S /\ slots[k].slot = k % S
             /\ slots[k].type # "idle" => slots[k].freq \in Decoder!EventFrequencies(msg)
  <2> HIDE DEF st, F, S, slots
  <2> DEFINE f == k \div S
             s == k % S
  <2>1. f \in Nat /\ s \in 0..(S - 1) /\ s \in Nat
    <3>1. f \in 0..(F - 1) /\ s \in 0..(S - 1)  BY <1>2, CellOfIndex
    <3> HIDE DEF f, s
    <3> QED BY <1>2, <3>1
  <2> HIDE DEF f, s
  <2>2. \/ /\ \A i \in DOMAIN msg.frames : msg.frames[i].index # f
           /\ slots[k] = Decoder!Info("idle", f, s, 0, 0)
        \/ \E i \in DOMAIN msg.frames :
             /\ msg.frames[i].index = f
             /\ \/ \E j \in DOMAIN msg.frames[i].slots :
                     /\ msg.frames[i].slots[j].index = s
                     /\ slots[k] = Decoder!SlotDecoded(msg, msg.frames[i], msg.frames[i].slots[j])
                \/ /\ s \notin Decoder!Listed(msg.frames[i])
                   /\ slots[k] = Decoder!Info("rx", f, s,
                        Decoder!The(Decoder!FillFrequency(msg, msg.frames[i])), 0)
    BY FullEntry DEF st, F, S, slots, f, s
  <2>3. CASE slots[k] = Decoder!Info("idle", f, s, 0, 0)
    BY <2>1, <2>3 DEF Decoder!Info, Decoder!SlotInfos, Decoder!SlotTypes, f, s
  <2>4. ASSUME NEW i \in DOMAIN msg.frames, msg.frames[i].index = f,
               NEW j \in DOMAIN msg.frames[i].slots, msg.frames[i].slots[j].index = s,
               slots[k] = Decoder!SlotDecoded(msg, msg.frames[i], msg.frames[i].slots[j])
        PROVE  /\ slots[k] \in Decoder!SlotInfos /\ slots[k].frame = f /\ slots[k].slot = s
               /\ slots[k].freq \in Decoder!EventFrequencies(msg)
    BY <2>4, SlotDecodes
  <2>5. ASSUME NEW i \in DOMAIN msg.frames, msg.frames[i].index = f,
               s \notin Decoder!Listed(msg.frames[i]),
               slots[k] = Decoder!Info("rx", f, s,
                 Decoder!The(Decoder!FillFrequency(msg, msg.frames[i])), 0)
        PROVE  /\ slots[k] \in Decoder!SlotInfos /\ slots[k].frame = f /\ slots[k].slot = s
               /\ slots[k].freq \in Decoder!EventFrequencies(msg)
    <3> DEFINE fill == Decoder!FillFrequency(msg, msg.frames[i])
    <3>1. s \in Decoder!Missing(msg, msg.frames[i])
      BY <2>1, <2>5 DEF Decoder!Missing, S, st
    <3>2. fill # {}
      BY <3>1 DEF Decoder!Undeterminable
    <3>3. fill \subseteq Nat  BY SlotRead
    <3>4. fill \subseteq Decoder!EventFrequencies(msg)
      BY <3>1, FillAnnounced
    <3>5. Decoder!The(fill) \in fill  BY <3>2, FieldValue
    <3> HIDE DEF fill
    <3>6. slots[k] = [type |-> "rx", frame |-> f, slot |-> s, freq |-> Decoder!The(fill), class |-> 0]
      BY <2>5 DEF Decoder!Info, fill
    <3>7. Decoder!The(fill) \in Nat /\ Decoder!The(fill) \in Decoder!EventFrequencies(msg)
      BY <3>3, <3>4, <3>5
    <3>8. slots[k] \in Decoder!SlotInfos
      BY <2>1, <3>6, <3>7 DEF Decoder!SlotInfos, Decoder!SlotTypes
    <3> QED BY <3>6, <3>7, <3>8
  <2> QED BY <2>2, <2>3, <2>4, <2>5 DEF f, s
<1>5. slots \in [0..(F * S - 1) -> Decoder!SlotInfos]  BY <1>3, <1>4
<1>6. Decoder!NumSlots(st) = F * S  BY DEF Decoder!NumSlots
<1>7. Decoder!InPlace(st, slots)
  <2>1. SUFFICES ASSUME NEW k \in 0..(F * S - 1)
                 PROVE  /\ slots[k].frame < F /\ slots[k].slot < S
                        /\ k = slots[k].frame * S + slots[k].slot
    BY <1>3 DEF Decoder!InPlace
  <2>2. slots[k].frame = k \div S /\ slots[k].slot = k % S  BY <1>4
  <2> HIDE DEF slots, F, S
  <2>3. /\ k \div S \in 0..(F - 1) /\ k % S \in 0..(S - 1)
        /\ k = (k \div S) * S + (k % S)
    BY <1>2, CellOfIndex
  <2>4. k \div S < F /\ k % S < S  BY <1>2, <2>3
  <2> QED BY <2>2, <2>3, <2>4
<1>8. Decoder!Announced(slots, Decoder!EventFrequencies(msg))
  BY <1>3, <1>4 DEF Decoder!Announced
<1> QED BY <1>1, <1>5, <1>6, <1>7, <1>8

-----------------------------------------------------------------------------
\* Whatever message arrives, the constructor of TDMAScheduleEvent throws or makes an event
\* as the scheduler expects it: each slot of a full schedule at its own index, and every
\* frequency that is used among those announced (HBtdmascheduleevent.cc:42, :213, :264).
THEOREM MessagesDecode ==
  ASSUME NEW msg \in Decoder!Messages
  PROVE  Decoder!DecodedEvent(Decoder!Decode(msg))
<1>1. CASE ~msg.parses \/ Decoder!OutOfRange(msg) \/ Decoder!Undeterminable(msg)
  BY <1>1 DEF Decoder!Decode, Decoder!DecodedEvent
<1>2. CASE /\ ~ (~msg.parses \/ Decoder!OutOfRange(msg) \/ Decoder!Undeterminable(msg))
           /\ Decoder!HasStructure(msg)
  <2>1. Decoder!Decode(msg) =
          [kind |-> "full", structure |-> Decoder!The(msg.structure),
           slots |-> Decoder!FullSlots(msg), freqs |-> Decoder!EventFrequencies(msg)]
    BY <1>2 DEF Decoder!Decode
  <2>2. /\ Decoder!The(msg.structure) \in Decoder!Structures
        /\ Decoder!FullSlots(msg)
             \in [0..(Decoder!NumSlots(Decoder!The(msg.structure)) - 1) -> Decoder!SlotInfos]
        /\ Decoder!InPlace(Decoder!The(msg.structure), Decoder!FullSlots(msg))
        /\ Decoder!Announced(Decoder!FullSlots(msg), Decoder!EventFrequencies(msg))
    BY <1>2, FullSound
  <2> QED BY <2>1, <2>2, FrequenciesRead DEF Decoder!DecodedEvent
<1>3. CASE /\ ~ (~msg.parses \/ Decoder!OutOfRange(msg) \/ Decoder!Undeterminable(msg))
           /\ ~Decoder!HasStructure(msg)
  <2> DEFINE slots == Decoder!UpdateSlots(msg)
  <2>1. Decoder!Decode(msg) =
          [kind |-> "update", structure |-> Decoder!NoStructure,
           slots |-> slots, freqs |-> Decoder!EventFrequencies(msg)]
    BY <1>3 DEF Decoder!Decode
  <2>2. /\ slots \in Seq(Decoder!SlotInfos)
        /\ \A k \in DOMAIN slots :
             \E i \in DOMAIN msg.frames : \E j \in DOMAIN msg.frames[i].slots :
               slots[k] = Decoder!SlotDecoded(msg, msg.frames[i], msg.frames[i].slots[j])
    BY <1>3, UpdateEntries
  <2>3. Decoder!Announced(slots, Decoder!EventFrequencies(msg))
    <3> HIDE DEF slots
    <3>1. \A k \in DOMAIN slots : slots[k].freq \in Decoder!EventFrequencies(msg)
      BY <1>3, <2>2, SlotDecodes
    <3> QED BY <3>1 DEF Decoder!Announced
  <2> QED BY <2>1, <2>2, <2>3, FrequenciesRead DEF Decoder!DecodedEvent
<1> QED BY <1>1, <1>2, <1>3

-----------------------------------------------------------------------------
(* What was asked for is in the message                                    *)

\* LatestDefault of any history of calls.
Latest(ask, f, keyword) ==
  LET given == {i \in DOMAIN ask : ask[i].frame = f /\ ask[i].args[keyword] # {}}
  IN UNION {ask[i].args[keyword] : i \in {g \in given : \A h \in given : h <= g}}

\* The slot entry is the one the call a made.
Made(slot, a) ==
  Fits(a.slot) /\ slot = NewSlot(a.slot, a.args.type, a.args.freq, a.args.class)

\* Every slot entry was asked for, and the frame has the defaults it was given last.
FrameAsAsked(frame, f, ask) ==
  /\ \A u \in DOMAIN frame.slots :
       \E i \in DOMAIN ask : ask[i].frame = f /\ Made(frame.slots[u], ask[i])
  /\ frame.freq = Latest(ask, f, "frameFreq")
  /\ frame.class = Latest(ask, f, "frameClass")

\* What was asked for was entered in its frame.
EachEntered(frames, idx, ask) ==
  \A i \in DOMAIN ask :
    /\ ask[i].frame \in DOMAIN idx
    /\ \E u \in DOMAIN frames[idx[ask[i].frame].at].slots :
         Made(frames[idx[ask[i].frame].at].slots[u], ask[i])

\* Each frame but those of b is listed for a slot that was asked for, and as it was.
AsAsked(frames, idx, ask, b) ==
  /\ EachEntered(frames, idx, ask)
  /\ \A f \in DOMAIN idx \ b :
       FrameAsAsked(frames[idx[f].at], f, ask) /\ frames[idx[f].at].slots # <<>>

AskedInv == Fresh => AsAsked(event.frames, index, asked, Spoilt)

LEMMA LatestAppend ==
  ASSUME NEW R, NEW ask \in Seq(R), NEW a, NEW f, NEW keyword
  PROVE  Latest(Append(ask, a), f, keyword)
           = IF a.frame = f /\ a.args[keyword] # {} THEN a.args[keyword]
             ELSE Latest(ask, f, keyword)
<1> DEFINE n == Len(ask)
           more == Append(ask, a)
           given == {i \in DOMAIN ask : ask[i].frame = f /\ ask[i].args[keyword] # {}}
           given2 == {i \in DOMAIN more : more[i].frame = f /\ more[i].args[keyword] # {}}
           last == {g \in given : \A h \in given : h <= g}
           last2 == {g \in given2 : \A h \in given2 : h <= g}
<1>1. /\ n \in Nat /\ DOMAIN ask = 1..n /\ DOMAIN more = 1..(n + 1)
      /\ more[n + 1] = a /\ \A i \in 1..n : more[i] = ask[i]
  OBVIOUS
<1>2. /\ Latest(ask, f, keyword) = UNION {ask[i].args[keyword] : i \in last}
      /\ Latest(more, f, keyword) = UNION {more[i].args[keyword] : i \in last2}
  BY DEF Latest
<1> HIDE DEF n, more
<1>3. given \subseteq 1..n  BY <1>1
<1>4. CASE a.frame = f /\ a.args[keyword] # {}
  <2>1. n + 1 \in given2 /\ given2 \subseteq 1..(n + 1)  BY <1>1, <1>4
  <2> HIDE DEF given, given2
  <2>2. last2 = {n + 1}
    <3>1. \A h \in given2 : h <= n + 1  BY <1>1, <2>1
    <3>2. \A g \in given2 : n + 1 <= g => g = n + 1  BY <1>1, <2>1
    <3> QED BY <2>1, <3>1, <3>2
  <2>3. Latest(more, f, keyword) = more[n + 1].args[keyword]
    <3> HIDE DEF last2
    <3>1. {more[i].args[keyword] : i \in {n + 1}} = {more[n + 1].args[keyword]}
      OBVIOUS
    <3>2. {more[i].args[keyword] : i \in last2} = {more[n + 1].args[keyword]}
      BY <2>2, <3>1
    <3>3. UNION {more[n + 1].args[keyword]} = more[n + 1].args[keyword]
      OBVIOUS
    <3> QED BY <1>2, <3>2, <3>3
  <2> QED BY <1>1, <1>4, <2>3 DEF more
<1>5. CASE ~ (a.frame = f /\ a.args[keyword] # {})
  <2>1. \A i \in DOMAIN more : i \in given2 <=> i \in given
    <3>1. \A i \in 1..n : i \in given2 <=> i \in given  BY <1>1
    <3>2. n + 1 \notin given2 /\ n + 1 \notin given  BY <1>1, <1>5
    <3>3. \A i \in 1..(n + 1) : i \in 1..n \/ i = n + 1  BY <1>1
    <3> HIDE DEF given, given2
    <3> QED BY <1>1, <3>1, <3>2, <3>3
  <2>2. given2 = given
    <3>1. given2 \subseteq DOMAIN more  OBVIOUS
    <3>2. given \subseteq DOMAIN more  BY <1>1, <1>3
    <3> HIDE DEF given, given2
    <3> QED BY <2>1, <3>1, <3>2
  <2>3. last2 = last  BY <2>2
  <2>4. \A i \in last : more[i] = ask[i]  BY <1>1, <1>3
  <2> HIDE DEF last, last2
  <2>5. {more[i].args[keyword] : i \in last2} = {ask[i].args[keyword] : i \in last}
    BY <2>3, <2>4
  <2>6. Latest(more, f, keyword) = Latest(ask, f, keyword)  BY <1>2, <2>5
  <2> QED BY <1>5, <2>6 DEF more
<1> QED BY <1>4, <1>5

\* A frame nothing was asked of has no defaults.
LEMMA LatestOfNone ==
  ASSUME NEW ask, NEW f, NEW keyword, \A i \in DOMAIN ask : ask[i].frame # f
  PROVE  Latest(ask, f, keyword) = {}
BY DEF Latest

\* A frame that takes the defaults and the slot of a call is as it was asked for with it.
LEMMA FrameTakesCall ==
  ASSUME NEW R, NEW ask \in Seq(R), NEW old \in FrameEntries, NEW f, NEW s,
         NEW k \in KeywordArguments, Fits(s), ~Refused(k), FrameAsAsked(old, f, ask)
  PROVE  LET new == NewSlot(s, k.type, k.freq, k.class)
             frame == WithSlot(WithDefaults(old, k.frameFreq, k.frameClass), new)
             a == [frame |-> f, slot |-> s, args |-> k]
         IN /\ FrameAsAsked(frame, f, Append(ask, a))
            /\ frame.slots # <<>>
            /\ \E u \in DOMAIN frame.slots : Made(frame.slots[u], a)
<1> DEFINE new == NewSlot(s, k.type, k.freq, k.class)
           mid == WithDefaults(old, k.frameFreq, k.frameClass)
           frame == WithSlot(mid, new)
           a == [frame |-> f, slot |-> s, args |-> k]
           ask2 == Append(ask, a)
           n == Len(ask)
           m == Len(old.slots)
<1>1. new \in SlotEntries
  <2>1. k.type \in SlotTypes  BY DEF Refused, KeywordArguments
  <2>2. k.freq \in Optional(Nat) /\ k.class \in Optional(Nat)  BY ArgumentsTyped
  <2>3. {s} \in Optional(Nat) /\ {k.type} \in Optional(SlotTypes)
    <3>1. s \in Nat  BY BuilderAssumption DEF Fits
    <3> QED BY <2>1, <3>1, OptionalFields
  <2> QED BY <2>2, <2>3 DEF NewSlot, SlotEntries
<1>2. /\ mid \in FrameEntries /\ mid.slots = old.slots
      /\ mid.freq = Kept(old.freq, k.frameFreq) /\ mid.class = Kept(old.class, k.frameClass)
  BY ArgumentsTyped, DefaultsRevise
<1> HIDE DEF new, mid
<1>3. /\ frame.slots = Append(old.slots, new)
      /\ frame.freq = Kept(old.freq, k.frameFreq)
      /\ frame.class = Kept(old.class, k.frameClass)
  BY <1>1, <1>2, SlotRevises
<1>4. old.slots \in Seq(SlotEntries)  BY DEF FrameEntries
<1>6. a.frame = f /\ a.slot = s /\ a.args = k  OBVIOUS
<1>8. /\ m \in Nat /\ DOMAIN old.slots = 1..m /\ DOMAIN frame.slots = 1..(m + 1)
      /\ \A u \in 1..m : frame.slots[u] = old.slots[u]
      /\ frame.slots[m + 1] = new
  <2> HIDE DEF frame
  <2> QED BY <1>1, <1>3, <1>4
<1>7. Made(new, a)  BY <1>6 DEF Made, new
<1>9. /\ \A i \in DOMAIN ask : i \in DOMAIN ask2 /\ ask2[i] = ask[i]
      /\ n + 1 \in DOMAIN ask2 /\ ask2[n + 1] = a
  <2> HIDE DEF a
  <2> QED OBVIOUS
<1>5. \A keyword :
        Latest(ask2, f, keyword)
          = IF a.frame = f /\ a.args[keyword] # {} THEN a.args[keyword]
            ELSE Latest(ask, f, keyword)
  BY LatestAppend
<1> HIDE DEF frame, a, ask2, m, n
<1>10. m + 1 \in DOMAIN frame.slots  BY <1>8
<1>11. ASSUME NEW u \in DOMAIN frame.slots
       PROVE  \E i \in DOMAIN ask2 : ask2[i].frame = f /\ Made(frame.slots[u], ask2[i])
  <2>1. CASE u = m + 1  BY <1>6, <1>7, <1>8, <1>9, <2>1
  <2>2. CASE u # m + 1
    <3>1. u \in DOMAIN old.slots /\ frame.slots[u] = old.slots[u]  BY <1>8, <2>2
    <3>2. PICK i \in DOMAIN ask : ask[i].frame = f /\ Made(old.slots[u], ask[i])
      BY <3>1 DEF FrameAsAsked
    <3> QED BY <1>9, <3>1, <3>2
  <2> QED BY <2>1, <2>2
<1>12. /\ frame.freq = Latest(ask2, f, "frameFreq")
       /\ frame.class = Latest(ask2, f, "frameClass")
  <2>1. old.freq = Latest(ask, f, "frameFreq") /\ old.class = Latest(ask, f, "frameClass")
    BY DEF FrameAsAsked
  <2>2. /\ Latest(ask2, f, "frameFreq") = Kept(Latest(ask, f, "frameFreq"), k.frameFreq)
        /\ Latest(ask2, f, "frameClass") = Kept(Latest(ask, f, "frameClass"), k.frameClass)
    BY <1>5, <1>6 DEF Kept
  <2> QED BY <1>3, <2>1, <2>2
<1>13. FrameAsAsked(frame, f, ask2)  BY <1>11, <1>12 DEF FrameAsAsked
<1>14. frame.slots # <<>>  BY <1>10
<1>15. \E u \in DOMAIN frame.slots : Made(frame.slots[u], a)  BY <1>7, <1>8, <1>10
<1> QED BY <1>13, <1>14, <1>15 DEF frame, mid, new, ask2, a

\* The frames a call is not about stay as they were asked for.
LEMMA OthersAsAsked ==
  ASSUME NEW R, NEW ask \in Seq(R), NEW a, NEW frame, NEW g, g # a.frame,
         FrameAsAsked(frame, g, ask)
  PROVE  FrameAsAsked(frame, g, Append(ask, a))
<1> DEFINE ask2 == Append(ask, a)
<1>1. \A i \in DOMAIN ask : i \in DOMAIN ask2 /\ ask2[i] = ask[i]  OBVIOUS
<1>2. /\ Latest(ask2, g, "frameFreq") = Latest(ask, g, "frameFreq")
      /\ Latest(ask2, g, "frameClass") = Latest(ask, g, "frameClass")
  BY LatestAppend
<1> HIDE DEF ask2
<1>3. FrameAsAsked(frame, g, ask2)  BY <1>1, <1>2 DEF FrameAsAsked
<1> QED BY <1>3 DEF ask2

\* Where the frames of the index are, in a message nothing was restored into.
LEMMA Places ==
  ASSUME NEW F, NEW X, NEW b, Matched(F, X, 0, b), \A g \in DOMAIN X : X[g].at # 0
  PROVE  /\ \A g \in DOMAIN X : X[g].at \in 1..Len(F)
         /\ \A g, h \in DOMAIN X : X[g].at = X[h].at => g = h
<1>1. \A g \in DOMAIN X : X[g].at \in (0 + 1)..Len(F)  BY DEF Matched
<1>2. \A g, h \in DOMAIN X : X[g].at = X[h].at => g = h  BY DEF Matched
<1> QED BY <1>1, <1>2

\* Entering a frame leaves the others as they were asked for; a new one has no defaults and
\* no slots, and none was asked for.
LEMMA AskedEntering ==
  ASSUME BuilderInv, Fresh, NEW b, AsAsked(event.frames, index, asked, b), NEW f \in Indexes
  PROVE  /\ AsAsked(Entered(f), Indexed(f, {}), asked, b \cup {f})
         /\ \A g \in DOMAIN Indexed(f, {}) : Indexed(f, {})[g].at # 0
         /\ f \notin b => FrameAsAsked(Entry(f), f, asked)
<1> DEFINE F == event.frames
           G == Entered(f)
           Y == Indexed(f, {})
           n == Len(F)
<1>1. /\ F \in Seq(FrameEntries) /\ n \in Nat
      /\ Matched(F, index, 0, Forgetful) /\ \A g \in DOMAIN index : index[g].at # 0
  BY DEF BuilderInv, BuilderTypeOK, Events, Fresh
<1>2. \A g \in DOMAIN index : index[g].at \in 1..n  BY <1>1, Places
<1>3. DOMAIN Y = DOMAIN index \cup {f} /\ Y[f].at = Place(f)  BY DEF Indexed
<1>4. \A g \in DOMAIN index : Y[g].at = index[g].at /\ G[Y[g].at] = F[index[g].at]
  <2> TAKE g \in DOMAIN index
  <2>1. Y[g].at = index[g].at
    <3>1. CASE g = f  BY <1>3, <3>1 DEF Place
    <3>2. CASE g # f  BY <3>2 DEF Indexed
    <3> QED BY <3>1, <3>2
  <2>2. index[g].at \in 1..n  BY <1>2
  <2> HIDE DEF Y
  <2>3. G[index[g].at] = F[index[g].at]
    <3>1. CASE f \in DOMAIN index  BY <3>1 DEF Entered
    <3>2. CASE f \notin DOMAIN index
      <4>1. G = Append(F, NewFrame(f))  BY <3>2 DEF Entered
      <4> HIDE DEF F, G
      <4> QED BY <1>1, <2>2, <4>1 DEF n
    <3> QED BY <3>1, <3>2
  <2> QED BY <2>1, <2>3
<1>5. f \notin DOMAIN index => Y[f].at = n + 1 /\ G[Y[f].at] = NewFrame(f)
  <2> SUFFICES ASSUME f \notin DOMAIN index
               PROVE  Y[f].at = n + 1 /\ G[Y[f].at] = NewFrame(f)
    OBVIOUS
  <2>1. Y[f].at = n + 1  BY <1>3 DEF Place
  <2>2. G = Append(F, NewFrame(f))  BY DEF Entered
  <2> HIDE DEF F, G, Y
  <2> QED BY <1>1, <2>1, <2>2 DEF n
<1>11. Entry(f) = G[Y[f].at]  BY <1>3 DEF Entry
<1>6. \A g \in DOMAIN Y : Y[g].at # 0
  <2> HIDE DEF Y, n
  <2> TAKE g \in DOMAIN Y
  <2>1. CASE g \in DOMAIN index  BY <1>1, <1>4, <2>1
  <2>2. CASE g \notin DOMAIN index
    <3>1. g = f /\ f \notin DOMAIN index  BY <1>3, <2>2
    <3> QED BY <1>1, <1>5, <3>1
  <2> QED BY <2>1, <2>2
<1> HIDE DEF F, G, Y
<1>7. /\ EachEntered(F, index, asked)
      /\ \A g \in DOMAIN index \ b :
           FrameAsAsked(F[index[g].at], g, asked) /\ F[index[g].at].slots # <<>>
  BY DEF AsAsked, F
<1>8. EachEntered(G, Y, asked)
  <2>1. SUFFICES ASSUME NEW i \in DOMAIN asked
                 PROVE  /\ asked[i].frame \in DOMAIN Y
                        /\ \E u \in DOMAIN G[Y[asked[i].frame].at].slots :
                             Made(G[Y[asked[i].frame].at].slots[u], asked[i])
    BY DEF EachEntered
  <2>2. /\ asked[i].frame \in DOMAIN index
        /\ \E u \in DOMAIN F[index[asked[i].frame].at].slots :
             Made(F[index[asked[i].frame].at].slots[u], asked[i])
    BY <1>7 DEF EachEntered
  <2> QED BY <1>3, <1>4, <2>2
<1>9. ASSUME NEW g \in DOMAIN Y \ (b \cup {f})
      PROVE  FrameAsAsked(G[Y[g].at], g, asked) /\ G[Y[g].at].slots # <<>>
  <2>1. g \in DOMAIN index \ b  BY <1>3
  <2> QED BY <1>4, <1>7, <2>1
<1>10. AsAsked(G, Y, asked, b \cup {f})  BY <1>8, <1>9 DEF AsAsked
<1>12. f \notin b => FrameAsAsked(Entry(f), f, asked)
  <2>1. CASE f \in DOMAIN index  BY <1>4, <1>7, <1>11, <2>1
  <2>2. CASE f \notin DOMAIN index
    <3>2. \A i \in DOMAIN asked : asked[i].frame # f  BY <1>7, <2>2 DEF EachEntered
    <3>3. Latest(asked, f, "frameFreq") = {} /\ Latest(asked, f, "frameClass") = {}
      BY <3>2, LatestOfNone
    <3>4. FrameAsAsked(NewFrame(f), f, asked)  BY <3>3 DEF FrameAsAsked, NewFrame
    <3> QED BY <1>5, <1>11, <2>2, <3>4
  <2> QED BY <2>1, <2>2
<1> QED BY <1>6, <1>10, <1>12 DEF F, G, Y

\* The slots of old are in frame, where they were.
Extends(old, frame) ==
  \A u \in DOMAIN old.slots : u \in DOMAIN frame.slots /\ frame.slots[u] = old.slots[u]

LEMMA RevisedExtends ==
  ASSUME NEW old \in FrameEntries, NEW frame, NEW S, Revised(old, frame, S)
  PROVE  Extends(old, frame)
<1>1. old.slots \in Seq(SlotEntries)  BY DEF FrameEntries
<1>2. CASE frame.slots = old.slots  BY <1>2 DEF Extends
<1>3. CASE \E new \in SlotEntries : frame.slots = Append(old.slots, new)
  <2>1. PICK new \in SlotEntries : frame.slots = Append(old.slots, new)  BY <1>3
  <2> QED BY <1>1, <2>1 DEF Extends
<1> QED BY <1>2, <1>3 DEF Revised

\* What was asked for in ask2 is what was in ask, and possibly a slot of the frame f.
AskedFor(ask, ask2, f, frame) ==
  \/ ask2 = ask
  \/ \E a : /\ ask2 = Append(ask, a) /\ a.frame = f
            /\ \E u \in DOMAIN frame.slots : Made(frame.slots[u], a)

\* G and Y are F and X after the frame of f was revised.
TakesCall(F, X, G, Y, f, frame, ask, ask2, b, b2) ==
  /\ F \in Seq(FrameEntries) /\ f \in DOMAIN X /\ \E R : ask \in Seq(R)
  /\ \A g \in DOMAIN X : X[g].at \in 1..Len(F)
  /\ \A g, h \in DOMAIN X : X[g].at = X[h].at => g = h
  /\ Extends(F[X[f].at], frame)
  /\ G = [F EXCEPT ![X[f].at] = frame]
  /\ DOMAIN Y = DOMAIN X /\ \A g \in DOMAIN X : Y[g].at = X[g].at
  /\ AsAsked(F, X, ask, b \cup {f})
  /\ AskedFor(ask, ask2, f, frame)
  /\ b \subseteq b2
  /\ f \notin b2 => FrameAsAsked(frame, f, ask2) /\ frame.slots # <<>>

\* A call that is written to its frame leaves all as it was asked for, but the frames of b2.
LEMMA AskedWriting ==
  ASSUME NEW F, NEW X, NEW G, NEW Y, NEW f, NEW frame, NEW ask, NEW ask2, NEW b, NEW b2,
         TakesCall(F, X, G, Y, f, frame, ask, ask2, b, b2)
  PROVE  AsAsked(G, Y, ask2, b2)
<1> USE DEF TakesCall
<1> DEFINE p == X[f].at
           old == F[p]
<1>1. F \in Seq(FrameEntries) /\ p \in 1..Len(F) /\ G = [F EXCEPT ![p] = frame]
  OBVIOUS
<1>2. \A g \in DOMAIN X : X[g].at \in 1..Len(F) /\ (g # f => X[g].at # p)
  OBVIOUS
<1>3. Extends(old, frame)  OBVIOUS
<1>8. G[p] = frame /\ \A q \in 1..Len(F) : q # p => G[q] = F[q]
  <2> HIDE DEF p
  <2> QED BY <1>1
<1>9. Y[f].at = p /\ DOMAIN Y = DOMAIN X /\ \A g \in DOMAIN X : Y[g].at = X[g].at  OBVIOUS
<1>4. PICK R : ask \in Seq(R)  OBVIOUS
<1>5. /\ EachEntered(F, X, ask)
      /\ \A g \in DOMAIN X \ (b \cup {f}) :
           FrameAsAsked(F[X[g].at], g, ask) /\ F[X[g].at].slots # <<>>
  BY DEF AsAsked
<1>6. b \subseteq b2 /\ (f \notin b2 => FrameAsAsked(frame, f, ask2) /\ frame.slots # <<>>)
  OBVIOUS
<1>7. AskedFor(ask, ask2, f, frame)  OBVIOUS
<1> HIDE DEF TakesCall, old
<1>10. \A g \in DOMAIN X : g # f => G[Y[g].at] = F[X[g].at]
  <2> HIDE DEF p
  <2> QED BY <1>2, <1>8, <1>9
<1> HIDE DEF p
<1>11. ASSUME NEW g \in DOMAIN Y \ b2
       PROVE  FrameAsAsked(G[Y[g].at], g, ask2) /\ G[Y[g].at].slots # <<>>
  <2>1. CASE g = f  BY <1>6, <1>8, <1>9, <2>1
  <2>2. CASE g # f
    <3>1. g \in DOMAIN X \ (b \cup {f})  BY <1>6, <1>9, <2>2
    <3>2. FrameAsAsked(F[X[g].at], g, ask) /\ F[X[g].at].slots # <<>>  BY <1>5, <3>1
    <3>3. FrameAsAsked(F[X[g].at], g, ask2)
      <4>1. CASE ask2 = ask  BY <3>2, <4>1
      <4>2. CASE \E a : ask2 = Append(ask, a) /\ a.frame = f
        <5>1. PICK a : ask2 = Append(ask, a) /\ a.frame = f  BY <4>2
        <5> QED BY <1>4, <2>2, <3>2, <5>1, OthersAsAsked
      <4> QED BY <1>7, <4>1, <4>2 DEF AskedFor
    <3> QED BY <1>9, <1>10, <2>2, <3>2, <3>3
  <2> QED BY <2>1, <2>2
<1>12. ASSUME NEW c, c.frame \in DOMAIN X,
              \E u \in DOMAIN F[X[c.frame].at].slots : Made(F[X[c.frame].at].slots[u], c)
       PROVE  \E u \in DOMAIN G[Y[c.frame].at].slots : Made(G[Y[c.frame].at].slots[u], c)
  <2>1. CASE c.frame # f  BY <1>10, <1>12, <2>1
  <2>2. CASE c.frame = f
    <3>1. PICK u \in DOMAIN old.slots : Made(old.slots[u], c)  BY <1>12, <2>2 DEF old, p
    <3>2. u \in DOMAIN frame.slots /\ frame.slots[u] = old.slots[u]  BY <1>3, <3>1 DEF Extends
    <3> QED BY <1>8, <1>9, <2>2, <3>1, <3>2
  <2> QED BY <2>1, <2>2
<1>13. EachEntered(G, Y, ask2)
  <2>1. \A i \in DOMAIN ask :
          /\ ask[i].frame \in DOMAIN X
          /\ \E u \in DOMAIN F[X[ask[i].frame].at].slots :
               Made(F[X[ask[i].frame].at].slots[u], ask[i])
    BY <1>5 DEF EachEntered
  <2>2. \A i \in DOMAIN ask :
          /\ ask[i].frame \in DOMAIN Y
          /\ \E u \in DOMAIN G[Y[ask[i].frame].at].slots :
               Made(G[Y[ask[i].frame].at].slots[u], ask[i])
    BY <1>9, <1>12, <2>1
  <2>3. CASE ask2 = ask  BY <2>2, <2>3 DEF EachEntered
  <2>4. CASE \E a : /\ ask2 = Append(ask, a) /\ a.frame = f
                    /\ \E u \in DOMAIN frame.slots : Made(frame.slots[u], a)
    <3>1. PICK a : /\ ask2 = Append(ask, a) /\ a.frame = f
                   /\ \E u \in DOMAIN frame.slots : Made(frame.slots[u], a)
      BY <2>4
    <3>2. f \in DOMAIN X  BY DEF TakesCall
    <3>3. /\ a.frame \in DOMAIN Y
          /\ \E u \in DOMAIN G[Y[a.frame].at].slots : Made(G[Y[a.frame].at].slots[u], a)
      BY <1>8, <1>9, <3>1, <3>2
    <3>4. \A i \in DOMAIN ask2 : (i \in DOMAIN ask /\ ask2[i] = ask[i]) \/ ask2[i] = a
      BY <1>4, <3>1
    <3> QED BY <2>2, <3>3, <3>4 DEF EachEntered
  <2> QED BY <1>7, <2>3, <2>4 DEF AskedFor
<1> QED BY <1>11, <1>13 DEF AsAsked

\* append() moves no frame of the index.
LEMMA SamePlaces ==
  ASSUME NEW f \in Indexes, NEW T \in SUBSET Indexes
  PROVE  /\ DOMAIN Indexed(f, T) = DOMAIN index \cup {f}
         /\ \A g \in DOMAIN index : Indexed(f, T)[g].at = index[g].at
         /\ Indexed(f, T)[f].at = Place(f)
<1>1. ASSUME NEW g \in DOMAIN index  PROVE Indexed(f, T)[g].at = index[g].at
  <2>1. CASE g = f  BY <2>1 DEF Indexed, Place
  <2>2. CASE g # f  BY <2>2 DEF Indexed
  <2> QED BY <2>1, <2>2
<1> QED BY <1>1 DEF Indexed

\* What append() does from its first change of the message on, to what was asked for.
LEMMA AskedAppending ==
  ASSUME BuilderInv, Fresh, AsAsked(event.frames, index, asked, Spoilt),
         NEW f \in Indexes, NEW T \in SUBSET Indexes, NEW frame, NEW ask2, NEW b,
         Spoilt \subseteq b, Extends(Entry(f), frame), AskedFor(asked, ask2, f, frame),
         f \notin b => (FrameAsAsked(Entry(f), f, asked)
                          => FrameAsAsked(frame, f, ask2) /\ frame.slots # <<>>)
  PROVE  AsAsked(Written(f, frame), Indexed(f, T), ask2, b)
<1> DEFINE F == Entered(f)
           X == Indexed(f, {})
           Y == Indexed(f, T)
           G == Written(f, frame)
<1>1. F \in Seq(FrameEntries) /\ Matched(F, X, restored, Forgetful)  BY Entering
<1>2. /\ AsAsked(F, X, asked, Spoilt \cup {f}) /\ \A g \in DOMAIN X : X[g].at # 0
      /\ f \notin Spoilt => FrameAsAsked(Entry(f), f, asked)
  BY AskedEntering
<1>3. Matched(F, X, 0, Forgetful)  BY <1>1 DEF Fresh
<1>4. /\ DOMAIN X = DOMAIN index \cup {f} /\ X[f].at = Place(f)
      /\ \A g \in DOMAIN index : X[g].at = index[g].at
  BY SamePlaces
<1>5. DOMAIN Y = DOMAIN X /\ \A g \in DOMAIN X : Y[g].at = X[g].at
  <2>1. /\ DOMAIN Y = DOMAIN index \cup {f} /\ Y[f].at = Place(f)
        /\ \A g \in DOMAIN index : Y[g].at = index[g].at
    BY SamePlaces
  <2> HIDE DEF X, Y
  <2> QED BY <1>4, <2>1
<1>6. Place(f) # 0  BY <1>2, <1>4
<1>7. G = [F EXCEPT ![X[f].at] = frame] /\ Extends(F[X[f].at], frame)
  BY <1>4, <1>6 DEF Written, Entry
<1> HIDE DEF F, X, Y, G
<1>8. /\ \A g \in DOMAIN X : X[g].at \in 1..Len(F)
      /\ \A g, h \in DOMAIN X : X[g].at = X[h].at => g = h
  BY <1>2, <1>3, Places
<1>9. f \notin b => FrameAsAsked(frame, f, ask2) /\ frame.slots # <<>>  BY <1>2
<1>10. \E R : asked \in Seq(R)  BY DEF BuilderInv, BuilderTypeOK
<1>11. TakesCall(F, X, G, Y, f, frame, asked, ask2, Spoilt, b)
  BY <1>1, <1>2, <1>4, <1>5, <1>7, <1>8, <1>9, <1>10 DEF TakesCall
<1> QED BY <1>11, AskedWriting DEF Y, G

\* The message stays as it was asked for, whatever call is written to it.
LEMMA WasFresh ==
  ASSUME BuilderInv, AskedInv, Fresh', NEW f \in Indexes, NEW T \in SUBSET Indexes,
         index' = Indexed(f, T), restored' = restored
  PROVE  /\ Fresh /\ AsAsked(event.frames, index, asked, Spoilt)
         /\ Place(f) # 0 /\ Entry(f) \in FrameEntries
<1>1. restored' = 0 /\ \A g \in DOMAIN index' : index'[g].at # 0  BY DEF Fresh
<1>2. /\ \A g \in DOMAIN index : g \in DOMAIN index' /\ index'[g].at = index[g].at
      /\ f \in DOMAIN index' /\ index'[f].at = Place(f)
  BY SamePlaces
<1>3. Fresh  BY <1>1, <1>2 DEF Fresh
<1>4. Place(f) # 0  BY <1>1, <1>2
<1> QED BY <1>3, <1>4, Entering DEF AskedInv

LEMMA RaiseAsked ==
  ASSUME BuilderInv, AskedInv, NEW f \in Indexes, NEW frame, NEW field, NEW S,
         Raise(f, frame, field), Place(f) # 0 => Revised(Entry(f), frame, S)
  PROVE  AskedInv'
<1>1. /\ event' = [event EXCEPT !.frames = Written(f, frame)] /\ index' = Indexed(f, {})
      /\ asked' = asked /\ restored' = restored
      /\ raised' = raised \cup {[frame |-> f, field |-> field]}
  BY DEF Raise
<1> SUFFICES ASSUME Fresh' PROVE AsAsked(event.frames, index, asked, Spoilt)'
  BY DEF AskedInv
<1>2. {} \in SUBSET Indexes  OBVIOUS
<1>3. /\ Fresh /\ AsAsked(event.frames, index, asked, Spoilt)
      /\ Place(f) # 0 /\ Entry(f) \in FrameEntries
  BY <1>1, <1>2, WasFresh
<1>4. PICK b : b = Spoilt'  OBVIOUS
<1>5. Spoilt \subseteq b /\ f \in b
  <2> DEFINE q == [frame |-> f, field |-> field]
  <2>1. raised \subseteq raised' /\ q \in raised' /\ q.frame = f  BY <1>1
  <2> HIDE DEF q
  <2> QED BY <1>4, <2>1 DEF Spoilt
<1>6. Extends(Entry(f), frame)  BY <1>3, RevisedExtends
<1>7. AskedFor(asked, asked, f, frame)  BY DEF AskedFor
<1>8. AsAsked(Written(f, frame), Indexed(f, {}), asked, b)
  BY <1>2, <1>3, <1>5, <1>6, <1>7, AskedAppending
<1>9. event'.frames = Written(f, frame)
  BY <1>1 DEF BuilderInv, BuilderTypeOK, Events
<1>10. AsAsked(event'.frames, index', asked', b)  BY <1>1, <1>8, <1>9
<1> QED BY <1>4, <1>10

LEMMA SameAsked ==
  ASSUME AskedInv, event'.frames = event.frames, index' = index, asked' = asked,
         restored' = restored, raised' = raised
  PROVE  AskedInv'
<1> SUFFICES ASSUME Fresh' PROVE AsAsked(event.frames, index, asked, Spoilt)'
  BY DEF AskedInv
<1>1. AsAsked(event.frames, index, asked, Spoilt)  BY DEF AskedInv, Fresh
<1>2. PICK b : b = Spoilt  OBVIOUS
<1>3. b = Spoilt'  BY <1>2 DEF Spoilt
<1>4. AsAsked(event'.frames, index', asked', b)  BY <1>1, <1>2
<1> QED BY <1>3, <1>4

LEMMA CallAppendAsked == BuilderInv /\ AskedInv /\ CallAppend => AskedInv'
<1> SUFFICES ASSUME BuilderInv, AskedInv, CallAppend PROVE AskedInv'
  OBVIOUS
<1>1. PICK f \in Indexes, s \in Indexes, k \in Keywords :
        \/ RefuseAppend(f, s, k)
        \/ RaiseAtFrame(f, s, k)
        \/ RaiseAtDefault(f, s, k)
        \/ RaiseAtSlot(f, s, k)
        \/ RaiseAtField(f, s, k)
        \/ AppendSlot(f, s, k)
  BY DEF CallAppend
<1>2. k \in KeywordArguments /\ event \in Events
  BY BuilderAssumption DEF BuilderInv, BuilderTypeOK
<1> DEFINE old == Entry(f)
           mid == WithDefaults(old, k.frameFreq, k.frameClass)
<1>3. Place(f) # 0 =>
        /\ Revised(old, old, {})
        /\ \A part \in Parts(k.frameFreq, k.frameClass) :
             Revised(old, WithDefaults(old, part[1], part[2]), {})
        /\ Revised(old, WithSlot(mid, NoSlot), {})
        /\ Fits(s) /\ ~Refused(k) =>
             \A part \in Parts(k.freq, k.class) \cup {<<{}, {}>>} :
               Revised(old, WithSlot(mid, NewSlot(s, k.type, part[1], part[2])), {s})
  <2>1. Place(f) # 0 => old \in FrameEntries  BY Entering
  <2>2. Place(f) # 0 => Revised(old, old, {})  BY <2>1 DEF Revised
  <2> HIDE DEF old
  <2> QED BY <1>2, <2>1, <2>2, CallRevises
<1> HIDE DEF old, mid
<1>4. CASE RefuseAppend(f, s, k)
  BY <1>4, SameAsked DEF RefuseAppend
<1>6. CASE RaiseAtFrame(f, s, k)
  <2>1. Raise(f, old, "frame index")  BY <1>6 DEF RaiseAtFrame, old
  <2> QED BY <1>3, <2>1, RaiseAsked DEF old
<1>7. CASE RaiseAtDefault(f, s, k)
  <2>1. PICK part \in Parts(k.frameFreq, k.frameClass) :
          Raise(f, WithDefaults(old, part[1], part[2]), "default")
    BY <1>7 DEF RaiseAtDefault, old
  <2>2. Place(f) # 0 => Revised(Entry(f), WithDefaults(old, part[1], part[2]), {})
    BY <1>3 DEF old
  <2> QED BY <2>1, <2>2, RaiseAsked
<1>8. CASE RaiseAtSlot(f, s, k)
  <2>1. Raise(f, WithSlot(mid, NoSlot), "slot index")  BY <1>8 DEF RaiseAtSlot, mid, old
  <2>2. Place(f) # 0 => Revised(Entry(f), WithSlot(mid, NoSlot), {})  BY <1>3 DEF old
  <2> QED BY <2>1, <2>2, RaiseAsked
<1>9. CASE RaiseAtField(f, s, k)
  <2>1. PICK part \in SlotParts(k) :
          Raise(f, WithSlot(mid, NewSlot(s, k.type, part[1], part[2])), "value")
    BY <1>9 DEF RaiseAtField, mid, old
  <2>2. part \in Parts(k.freq, k.class) \cup {<<{}, {}>>} /\ Fits(s) /\ ~Refused(k)
    BY <1>9 DEF RaiseAtField, Starts, SlotParts
  <2>3. Place(f) # 0 =>
          Revised(Entry(f), WithSlot(mid, NewSlot(s, k.type, part[1], part[2])), {s})
    BY <1>3, <2>2 DEF old
  <2> QED BY <2>1, <2>3, RaiseAsked
<1>10. CASE AppendSlot(f, s, k)
  <2> DEFINE frame == WithSlot(mid, NewSlot(s, k.type, k.freq, k.class))
             a == [frame |-> f, slot |-> s, args |-> k]
  <2>1. /\ event' = [event EXCEPT !.frames = Written(f, frame)] /\ index' = Indexed(f, {s})
        /\ restored' = restored /\ raised' = raised
        /\ asked' = Append(asked, a)
        /\ ~Refused(k) /\ Fits(s)
    BY <1>10 DEF AppendSlot, Starts, mid, old
  <2> SUFFICES ASSUME Fresh' PROVE AsAsked(event.frames, index, asked, Spoilt)'
    BY DEF AskedInv
  <2>2. {s} \in SUBSET Indexes  OBVIOUS
  <2>3. /\ Fresh /\ AsAsked(event.frames, index, asked, Spoilt)
        /\ Place(f) # 0 /\ old \in FrameEntries
    BY <2>1, <2>2, WasFresh DEF old
  <2>4. PICK part \in Parts(k.freq, k.class) \cup {<<{}, {}>>} :
          part[1] = k.freq /\ part[2] = k.class
    <3>1. <<k.freq, k.class>> \in Parts(k.freq, k.class) \cup {<<{}, {}>>}  BY DEF Parts
    <3>2. <<k.freq, k.class>>[1] = k.freq /\ <<k.freq, k.class>>[2] = k.class  OBVIOUS
    <3> QED BY <3>1, <3>2
  <2>5. Revised(old, frame, {s})
    <3>1. Revised(old, WithSlot(mid, NewSlot(s, k.type, part[1], part[2])), {s})
      BY <1>3, <2>1, <2>3
    <3> QED BY <2>4, <3>1
  <2>6. asked \in Seq([frame : Indexes, slot : Indexes, args : Keywords])
    BY DEF BuilderInv, BuilderTypeOK
  <2>7. FrameAsAsked(old, f, asked) =>
          FrameAsAsked(frame, f, Append(asked, a)) /\ frame.slots # <<>>
    BY <1>2, <2>1, <2>3, <2>6, FrameTakesCall DEF mid
  <2>8. \E u \in DOMAIN frame.slots : Made(frame.slots[u], a)
    <3> DEFINE new == NewSlot(s, k.type, k.freq, k.class)
               m == Len(old.slots)
    <3>1. mid \in FrameEntries /\ mid.slots = old.slots
      BY <1>2, <2>3, ArgumentsTyped, DefaultsRevise DEF mid
    <3>2. frame.slots = Append(old.slots, new) /\ old.slots \in Seq(SlotEntries)
      BY <2>3, <3>1 DEF WithSlot, FrameEntries
    <3> HIDE DEF frame
    <3>3. m + 1 \in DOMAIN frame.slots /\ frame.slots[m + 1] = new
      <4> HIDE DEF new
      <4> QED BY <3>2
    <3>4. Made(new, a)  BY <2>1 DEF Made
    <3> QED BY <3>3, <3>4
  <2> HIDE DEF frame, a
  <2>9. a.frame = f  BY DEF a
  <2>10. AskedFor(asked, Append(asked, a), f, frame)  BY <2>8, <2>9 DEF AskedFor
  <2>11. Extends(Entry(f), frame)  BY <2>3, <2>5, RevisedExtends DEF old
  <2>12. AsAsked(Written(f, frame), Indexed(f, {s}), Append(asked, a), Spoilt)
    BY <2>2, <2>3, <2>7, <2>10, <2>11, AskedAppending DEF old
  <2>13. event'.frames = Written(f, frame)  BY <1>2, <2>1 DEF Events
  <2>14. PICK b : b = Spoilt  OBVIOUS
  <2>15. b = Spoilt'  BY <2>1, <2>14 DEF Spoilt
  <2>16. AsAsked(event'.frames, index', asked', b)  BY <2>1, <2>12, <2>13, <2>14
  <2> QED BY <2>15, <2>16
<1> QED BY <1>1, <1>4, <1>6, <1>7, <1>8, <1>9, <1>10

\* No slot was asked for while the index is empty.
LEMMA AskedOfNone ==
  ASSUME NEW frames, NEW idx, NEW b, DOMAIN idx = {}
  PROVE  AsAsked(frames, idx, <<>>, b)
<1>1. \A i \in DOMAIN <<>> : FALSE  OBVIOUS
<1> QED BY <1>1 DEF AsAsked, EachEntered

LEMMA AskedInitially == Init => AskedInv
<1> SUFFICES ASSUME Init PROVE AskedInv
  OBVIOUS
<1>1. DOMAIN index = {} /\ asked = <<>>  BY DEF Init, NoIndex
<1> QED BY <1>1, AskedOfNone DEF AskedInv

LEMMA AskedStep == BuilderInv /\ AskedInv /\ [Next]_vars => AskedInv'
<1> SUFFICES ASSUME BuilderInv, AskedInv, [Next]_vars PROVE AskedInv'
  OBVIOUS
<1>1. ASSUME event'.frames = event.frames, index' = index, asked' = asked,
             restored' = restored, raised' = raised
      PROVE  AskedInv'
  BY <1>1, SameAsked
<1>2. CASE CallAppend  BY <1>2, CallAppendAsked
<1>3. ASSUME NEW st \in Shapes, RefuseStructure(st) \/ Structure(st)  PROVE AskedInv'
  <2>1. event'.frames = event.frames
    BY <1>3 DEF RefuseStructure, Structure, BuilderInv, BuilderTypeOK, Events
  <2> QED BY <1>1, <1>3, <2>1 DEF RefuseStructure, Structure
<1>4. ASSUME NEW ev \in Archive, Restore(ev)  PROVE AskedInv'
  <2> SUFFICES ASSUME Fresh' PROVE AsAsked(event.frames, index, asked, Spoilt)'
    BY DEF AskedInv
  <2>1. index' = Detached /\ asked' = <<>>  BY <1>4 DEF Restore
  <2>2. \A f \in DOMAIN index : index[f] \in Entries  BY DEF BuilderInv, BuilderTypeOK
  <2>3. \A f \in DOMAIN index' : index'[f].at = 0  BY <2>1, <2>2 DEF Detached, Entries
  <2>4. DOMAIN index' = {}  BY <2>3 DEF Fresh
  <2>5. PICK b : b = Spoilt'  OBVIOUS
  <2>6. AsAsked(event'.frames, index', asked', b)  BY <2>1, <2>4, AskedOfNone
  <2> QED BY <2>5, <2>6
<1>5. CASE UNCHANGED vars  BY <1>1, <1>5 DEF vars
<1> QED BY <1>2, <1>3, <1>4, <1>5 DEF Next

-----------------------------------------------------------------------------
(* What is built is a message                                              *)

LEMMA SameData ==
  /\ Decoder!SlotTypes = SlotTypes /\ Decoder!Structures = Structures
  /\ \A S : Decoder!Optional(S) = Optional(S)
BY DEF Decoder!SlotTypes, SlotTypes, Decoder!Structures, Structures, Decoder!Optional, Optional

\* A field that is present has one value.
LEMMA Present ==
  ASSUME NEW S, NEW field \in Optional(S), field # {}
  PROVE  field = {Decoder!The(field)} /\ Decoder!The(field) \in S
<1>1. Decoder!The(field) \in field  BY FieldValue
<1>2. field \subseteq S /\ \A v, w \in field : v = w  BY DEF Optional
<1> HIDE DEF Decoder!The
<1> QED BY <1>1, <1>2

\* What of a slot entry is serialized.
SlotOf(slot) ==
  [index |-> Decoder!The(slot.index), type |-> Decoder!The(slot.type),
   freq |-> slot.freq, class |-> slot.class]

FrameOf(frame) ==
  [index |-> Decoder!The(frame.index), freq |-> frame.freq, class |-> frame.class,
   slots |-> [j \in DOMAIN frame.slots |-> SlotOf(frame.slots[j])]]

LEMMA SlotSerialized ==
  ASSUME NEW slot \in SlotEntries, slot.index # {}, slot.type # {}
  PROVE  /\ SlotOf(slot) \in Decoder!SlotMessages
         /\ slot.index = {SlotOf(slot).index} /\ slot.type = {SlotOf(slot).type}
<1>1. /\ slot.index \in Optional(Nat) /\ slot.type \in Optional(SlotTypes)
      /\ slot.freq \in Optional(Nat) /\ slot.class \in Optional(Nat)
  BY DEF SlotEntries
<1>2. /\ slot.index = {Decoder!The(slot.index)} /\ Decoder!The(slot.index) \in Nat
      /\ slot.type = {Decoder!The(slot.type)} /\ Decoder!The(slot.type) \in SlotTypes
  BY <1>1, Present
<1>3. SlotOf(slot).index = Decoder!The(slot.index) /\ SlotOf(slot).type = Decoder!The(slot.type)
  BY DEF SlotOf
<1>4. SlotOf(slot) \in Decoder!SlotMessages
  BY <1>1, <1>2, SameData DEF SlotOf, Decoder!SlotMessages
<1> QED BY <1>2, <1>3, <1>4

LEMMA FrameSerialized ==
  ASSUME NEW frame \in FrameEntries, frame.index # {},
         \A j \in DOMAIN frame.slots : frame.slots[j].index # {} /\ frame.slots[j].type # {}
  PROVE  /\ FrameOf(frame) \in Decoder!FrameMessages
         /\ frame.index = {FrameOf(frame).index}
<1>1. /\ frame.index \in Optional(Nat) /\ frame.freq \in Optional(Nat)
      /\ frame.class \in Optional(Nat) /\ frame.slots \in Seq(SlotEntries)
  BY DEF FrameEntries
<1>2. frame.index = {Decoder!The(frame.index)} /\ Decoder!The(frame.index) \in Nat
  BY <1>1, Present
<1> DEFINE slots == [j \in DOMAIN frame.slots |-> SlotOf(frame.slots[j])]
           n == Len(frame.slots)
<1>3. \A j \in DOMAIN frame.slots : SlotOf(frame.slots[j]) \in Decoder!SlotMessages
  <2> TAKE j \in DOMAIN frame.slots
  <2>1. frame.slots[j] \in SlotEntries  BY <1>1
  <2> QED BY <2>1, SlotSerialized
<1>4. DOMAIN frame.slots = 1..n /\ n \in Nat  BY <1>1
<1>5. slots \in [1..n -> Decoder!SlotMessages]  BY <1>3, <1>4
<1>6. slots \in Seq(Decoder!SlotMessages)  BY <1>4, <1>5
<1>7. FrameOf(frame) = [index |-> Decoder!The(frame.index), freq |-> frame.freq,
                        class |-> frame.class, slots |-> slots]
  BY DEF FrameOf
<1> HIDE DEF slots
<1>8. FrameOf(frame) \in Decoder!FrameMessages
  BY <1>1, <1>2, <1>6, <1>7, SameData DEF Decoder!FrameMessages
<1> QED BY <1>2, <1>7, <1>8

\* A message that is complete is one a radio may receive; it says what the event says.
LEMMA EventSerialized ==
  ASSUME BuilderTypeOK, Complete(event)
  PROVE  LET msg == Serialized(event) IN
         /\ msg \in Decoder!Messages
         /\ msg.freq = event.freq /\ msg.class = event.class
         /\ DOMAIN msg.frames = DOMAIN event.frames
         /\ \A i \in DOMAIN event.frames :
              /\ event.frames[i] \in FrameEntries
              /\ event.frames[i].index = {msg.frames[i].index}
              /\ msg.frames[i] = FrameOf(event.frames[i])
<1> DEFINE msg == Serialized(event)
           F == event.frames
           st == event.structure
           n == Len(F)
           frames == [i \in DOMAIN F |-> FrameOf(F[i])]
           structure == IF st = NoFields THEN {}
                        ELSE {[field \in DOMAIN NoFields |-> Decoder!The(st[field])]}
<1>1. /\ F \in Seq(FrameEntries) /\ st \in StructureFields
      /\ event.freq \in Optional(Nat) /\ event.class \in Optional(Nat)
  BY DEF BuilderTypeOK, Events
<1>2. msg = [parses |-> TRUE, structure |-> structure, freq |-> event.freq,
             class |-> event.class, frames |-> frames]
  BY DEF Serialized, FrameOf, SlotOf
<1>3. \A i \in DOMAIN F :
        /\ F[i] \in FrameEntries
        /\ frames[i] = FrameOf(F[i])
        /\ FrameOf(F[i]) \in Decoder!FrameMessages
        /\ F[i].index = {FrameOf(F[i]).index}
  <2> TAKE i \in DOMAIN F
  <2>1. F[i] \in FrameEntries  BY <1>1
  <2>2. /\ F[i].index # {}
        /\ \A j \in DOMAIN F[i].slots : F[i].slots[j].index # {} /\ F[i].slots[j].type # {}
    BY DEF Complete
  <2> QED BY <2>1, <2>2, FrameSerialized
<1>4. DOMAIN F = 1..n /\ n \in Nat  BY <1>1
<1>5. frames \in [1..n -> Decoder!FrameMessages]
  <2> HIDE DEF F, n
  <2> QED BY <1>3, <1>4
<1>6. frames \in Seq(Decoder!FrameMessages)  BY <1>4, <1>5
<1>7. structure \in Optional(Structures)
  <2>1. CASE st = NoFields  BY <2>1, OptionalFields
  <2>2. CASE st # NoFields
    <3>1. st.frames # {} /\ st.slots # {} /\ st.bandwidth # {}
      BY <2>2 DEF Complete, NoFields
    <3>2. st.frames \in Optional(Nat) /\ st.slots \in Optional(Nat) /\ st.bandwidth \in Optional(Nat)
      BY <1>1 DEF StructureFields
    <3>3. /\ Decoder!The(st.frames) \in Nat /\ Decoder!The(st.slots) \in Nat
          /\ Decoder!The(st.bandwidth) \in Nat
      BY <3>1, <3>2, Present
    <3> DEFINE value == [field \in DOMAIN NoFields |-> Decoder!The(st[field])]
    <3>4. value = [frames |-> Decoder!The(st.frames), slots |-> Decoder!The(st.slots),
                   bandwidth |-> Decoder!The(st.bandwidth)]
      BY DEF NoFields
    <3>5. structure = {value}  BY <2>2
    <3> HIDE DEF value, structure
    <3>6. value \in Structures  BY <3>3, <3>4 DEF Structures
    <3> QED BY <3>5, <3>6, OptionalFields
  <2> QED BY <2>1, <2>2
<1>8. DOMAIN frames = DOMAIN F  OBVIOUS
<1> HIDE DEF msg, frames, structure
<1>9. msg \in Decoder!Messages
  BY <1>1, <1>2, <1>6, <1>7, SameData DEF Decoder!Messages
<1>10. msg.frames = frames /\ msg.freq = event.freq /\ msg.class = event.class
  BY <1>2
<1> QED BY <1>3, <1>8, <1>9, <1>10 DEF msg

-----------------------------------------------------------------------------
(* What is decoded is what was asked for                                   *)

\* The message is complete, nothing of it was restored, and it is as it was asked for, apart
\* from the frames calls raised for.
Faithful ==
  /\ BuilderInv /\ Fresh /\ Complete(event)
  /\ AsAsked(event.frames, index, asked, Spoilt)

LEMMA LatestIsDefault ==
  ASSUME NEW f, NEW keyword  PROVE LatestDefault(f, keyword) = Latest(asked, f, keyword)
BY DEF LatestDefault, Latest

\* Whose frame an entry of the message is, and what it says.
LEMMA FrameRead ==
  ASSUME Faithful, NEW i \in DOMAIN event.frames
  PROVE  LET msg == Serialized(event)
             f == msg.frames[i].index
         IN /\ f \in DOMAIN index /\ index[f].at = i /\ Fits(f)
            /\ f \notin Spoilt =>
                 /\ FrameAsAsked(event.frames[i], f, asked) /\ event.frames[i].slots # <<>>
                 /\ msg.frames[i].freq = LatestDefault(f, "frameFreq")
                 /\ msg.frames[i].class = LatestDefault(f, "frameClass")
            /\ DOMAIN msg.frames[i].slots = DOMAIN event.frames[i].slots
            /\ \A j \in DOMAIN event.frames[i].slots :
                 /\ event.frames[i].slots[j].index = {msg.frames[i].slots[j].index}
                 /\ event.frames[i].slots[j].type = {msg.frames[i].slots[j].type}
                 /\ msg.frames[i].slots[j].freq = event.frames[i].slots[j].freq
                 /\ msg.frames[i].slots[j].class = event.frames[i].slots[j].class
<1> DEFINE msg == Serialized(event)
           F == event.frames
           f == msg.frames[i].index
<1>1. BuilderTypeOK /\ Complete(event) /\ F \in Seq(FrameEntries)
  BY DEF Faithful, BuilderInv, BuilderTypeOK, Events
<1>2. F[i] \in FrameEntries /\ F[i].index = {f} /\ msg.frames[i] = FrameOf(F[i])
  BY <1>1, EventSerialized
<1>3. Matched(F, index, 0, Forgetful) /\ \A g \in DOMAIN index : index[g].at # 0
  BY DEF Faithful, BuilderInv, Fresh
<1>4. i \in (0 + 1)..Len(F)  BY <1>1
<1>5. PICK g \in DOMAIN index : index[g].at = i  BY <1>3, <1>4 DEF Matched
<1>6. F[i].index = IF Fits(g) THEN {g} ELSE {}
  BY <1>3, <1>5 DEF Matched
<1>7. g = f /\ Fits(g)  BY <1>2, <1>6
<1>8. f \notin Spoilt => FrameAsAsked(F[i], f, asked) /\ F[i].slots # <<>>
  BY <1>5, <1>7 DEF Faithful, AsAsked
<1>9. \A j \in DOMAIN F[i].slots : F[i].slots[j].index # {} /\ F[i].slots[j].type # {}
  BY <1>1 DEF Complete
<1>10. f \notin Spoilt =>
         /\ F[i].freq = LatestDefault(f, "frameFreq")
         /\ F[i].class = LatestDefault(f, "frameClass")
  BY <1>8, LatestIsDefault DEF FrameAsAsked
<1>11. /\ msg.frames[i].freq = F[i].freq /\ msg.frames[i].class = F[i].class
       /\ msg.frames[i].slots = [j \in DOMAIN F[i].slots |-> SlotOf(F[i].slots[j])]
  BY <1>2 DEF FrameOf
<1> HIDE DEF msg, F, f
<1>12. ASSUME NEW j \in DOMAIN F[i].slots
       PROVE  /\ F[i].slots[j].index = {msg.frames[i].slots[j].index}
              /\ F[i].slots[j].type = {msg.frames[i].slots[j].type}
              /\ msg.frames[i].slots[j].freq = F[i].slots[j].freq
              /\ msg.frames[i].slots[j].class = F[i].slots[j].class
  <2>1. F[i].slots[j] \in SlotEntries  BY <1>2 DEF FrameEntries
  <2>2. msg.frames[i].slots[j] = SlotOf(F[i].slots[j])  BY <1>11
  <2>3. /\ F[i].slots[j].index = {SlotOf(F[i].slots[j]).index}
        /\ F[i].slots[j].type = {SlotOf(F[i].slots[j]).type}
    BY <1>9, <2>1, SlotSerialized
  <2>4. /\ SlotOf(F[i].slots[j]).freq = F[i].slots[j].freq
        /\ SlotOf(F[i].slots[j]).class = F[i].slots[j].class
    BY DEF SlotOf
  <2> QED BY <2>2, <2>3, <2>4
<1>13. DOMAIN msg.frames[i].slots = DOMAIN F[i].slots  BY <1>11
<1> QED BY <1>5, <1>7, <1>8, <1>10, <1>11, <1>12, <1>13 DEF msg, F, f

\* Where a slot is decoded to.
LEMMA SlotPlaced ==
  ASSUME NEW msg, NEW frame, NEW slot
  PROVE  LET info == Decoder!SlotDecoded(msg, frame, slot) IN
         info.frame = frame.index /\ info.slot = slot.index
BY DEF Decoder!SlotDecoded, Decoder!Info

\* A slot of a frame no call raised for is decoded as the call that made it meant it.
LEMMA SlotHeard ==
  ASSUME Faithful, ~Decoder!Undeterminable(Serialized(event)),
         NEW i \in DOMAIN event.frames, NEW j \in DOMAIN event.frames[i].slots,
         Serialized(event).frames[i].index \notin Spoilt
  PROVE  LET msg == Serialized(event)
             info == Decoder!SlotDecoded(msg, msg.frames[i], msg.frames[i].slots[j])
         IN \E x \in DOMAIN asked : IsOf(info, asked[x]) /\ Heard(info) = Meant(asked[x])
<1> DEFINE msg == Serialized(event)
           frame == msg.frames[i]
           slot == frame.slots[j]
           f == frame.index
           freq == Decoder!SlotFrequency(msg, frame, slot)
           class == Decoder!SlotClass(msg, frame, slot)
           info == Decoder!SlotDecoded(msg, frame, slot)
           entry == event.frames[i].slots[j]
<1>1. /\ msg \in Decoder!Messages /\ DOMAIN msg.frames = DOMAIN event.frames
      /\ msg.freq = event.freq /\ msg.class = event.class
  BY EventSerialized DEF Faithful, BuilderInv
<1>2. /\ FrameAsAsked(event.frames[i], f, asked)
      /\ frame.freq = LatestDefault(f, "frameFreq") /\ frame.class = LatestDefault(f, "frameClass")
      /\ DOMAIN frame.slots = DOMAIN event.frames[i].slots
      /\ entry.index = {slot.index} /\ entry.type = {slot.type}
      /\ slot.freq = entry.freq /\ slot.class = entry.class
  BY FrameRead
<1>4. PICK x \in DOMAIN asked : asked[x].frame = f /\ Made(entry, asked[x])
  BY <1>2 DEF FrameAsAsked
<1> DEFINE a == asked[x]
<1>5. /\ a.frame = f /\ a.slot = slot.index /\ a.args.type = slot.type
      /\ slot.freq = a.args.freq /\ slot.class = a.args.class
  <2>1. entry = [index |-> {a.slot}, type |-> {a.args.type}, freq |-> a.args.freq,
                 class |-> a.args.class]
    BY <1>4 DEF Made, NewSlot
  <2> HIDE DEF entry, slot, frame
  <2>2. /\ entry.index = {a.slot} /\ entry.type = {a.args.type} /\ entry.freq = a.args.freq
        /\ entry.class = a.args.class
    BY <2>1
  <2> QED BY <1>2, <1>4, <2>2
<1>6. freq # {} /\ class # {}  BY <1>1, <1>2 DEF Decoder!Undeterminable
<1>7. freq \in Optional(Nat) /\ class \in Optional(Nat)
  <2>1. msg.freq \in Optional(Nat) /\ msg.class \in Optional(Nat) /\ frame \in Decoder!FrameMessages
    BY <1>1, SameData, SlotRead DEF Decoder!Messages
  <2>2. slot \in Decoder!SlotMessages  BY <1>1, <1>2, SlotRead
  <2> HIDE DEF msg, frame, slot
  <2>3. /\ frame.freq \in Optional(Nat) /\ frame.class \in Optional(Nat)
        /\ slot.freq \in Optional(Nat) /\ slot.class \in Optional(Nat)
    BY <2>1, <2>2, SameData DEF Decoder!FrameMessages, Decoder!SlotMessages
  <2>4. {0} \in Optional(Nat)  BY OptionalFields
  <2>5. /\ Decoder!FirstPresent(slot.freq, frame.freq, msg.freq) \in Optional(Nat)
        /\ Decoder!FirstPresent(slot.class, frame.class, msg.class) \in Optional(Nat)
    BY <2>1, <2>3 DEF Decoder!FirstPresent
  <2>6. Decoder!Byte(Decoder!FirstPresent(slot.class, frame.class, msg.class)) \in Optional(Nat)
    BY <2>5, ByteOf
  <2> QED BY <2>4, <2>5, <2>6 DEF Decoder!SlotFrequency, Decoder!SlotClass
<1>8. freq = {Decoder!The(freq)} /\ class = {Decoder!The(class)}
  <2> HIDE DEF freq, class
  <2> QED BY <1>6, <1>7, Present
<1>9. freq = Meant(a).freq /\ class = Meant(a).class
  <2>1. freq = IF slot.type = "idle" THEN {0}
               ELSE Decoder!FirstPresent(slot.freq, frame.freq, msg.freq)
    BY DEF Decoder!SlotFrequency
  <2>2. class = IF slot.type # "tx" THEN {0}
                ELSE Decoder!Byte(Decoder!FirstPresent(slot.class, frame.class, msg.class))
    BY DEF Decoder!SlotClass
  <2>3. /\ Meant(a).freq = IF a.args.type = "idle" THEN {0}
             ELSE Decoder!FirstPresent(a.args.freq, LatestDefault(a.frame, "frameFreq"), event.freq)
        /\ Meant(a).class = IF a.args.type # "tx" THEN {0}
             ELSE Decoder!Byte(
                    Decoder!FirstPresent(a.args.class, LatestDefault(a.frame, "frameClass"), event.class))
    BY DEF Meant
  <2> HIDE DEF freq, class, slot, frame, msg, a, f
  <2> QED BY <1>1, <1>2, <1>5, <2>1, <2>2, <2>3
<1>10. info = [type |-> slot.type, frame |-> f, slot |-> slot.index,
               freq |-> Decoder!The(freq), class |-> Decoder!The(class)]
  BY DEF Decoder!SlotDecoded, Decoder!Info
<1>11. Meant(a).type = a.args.type /\ Meant(a) = [type |-> Meant(a).type, freq |-> Meant(a).freq,
                                                 class |-> Meant(a).class]
  BY DEF Meant
<1> HIDE DEF msg, frame, slot, f, freq, class, info, entry, a
<1>12. info.type = slot.type /\ info.frame = f /\ info.slot = slot.index
       /\ info.freq = Decoder!The(freq) /\ info.class = Decoder!The(class)
  BY <1>10
<1>13. IsOf(info, a)  BY <1>5, <1>12 DEF IsOf
<1>14. Heard(info) = Meant(a)
  <2>1. Heard(info) = [type |-> slot.type, freq |-> freq, class |-> class]
    BY <1>8, <1>12 DEF Heard
  <2> QED BY <1>5, <1>9, <1>11, <2>1
<1> QED BY <1>13, <1>14 DEF msg, frame, slot, f, info, a

\* What was asked for is listed in the message.
LEMMA AskedListed ==
  ASSUME Faithful, NEW x \in DOMAIN asked
  PROVE  LET msg == Serialized(event) IN
         \E i \in DOMAIN event.frames : \E j \in DOMAIN event.frames[i].slots :
           /\ msg.frames[i].index = asked[x].frame
           /\ msg.frames[i].slots[j].index = asked[x].slot
<1> DEFINE msg == Serialized(event)
           F == event.frames
           f == asked[x].frame
           i == index[f].at
<1>1. f \in DOMAIN index /\ \E u \in DOMAIN F[i].slots : Made(F[i].slots[u], asked[x])
  BY DEF Faithful, AsAsked, EachEntered
<1>2. PICK j \in DOMAIN F[i].slots : Made(F[i].slots[j], asked[x])  BY <1>1
<1>3. Matched(F, index, 0, Forgetful) /\ \A g \in DOMAIN index : index[g].at # 0
  BY DEF Faithful, BuilderInv, Fresh
<1>4. i \in 1..Len(F) /\ F \in Seq(FrameEntries)
  BY <1>1, <1>3, Places DEF Faithful, BuilderInv, BuilderTypeOK, Events
<1>5. i \in DOMAIN F  BY <1>4
<1>6. F[i].slots[j].index = {asked[x].slot}  BY <1>2 DEF Made, NewSlot
<1>7. /\ msg.frames[i].index \in DOMAIN index /\ index[msg.frames[i].index].at = i
      /\ F[i].slots[j].index = {msg.frames[i].slots[j].index}
  BY <1>5, FrameRead
<1>8. msg.frames[i].index = f
  BY <1>1, <1>3, <1>7, Places
<1>9. msg.frames[i].slots[j].index = asked[x].slot  BY <1>6, <1>7
<1> HIDE DEF i, F
<1> QED BY <1>2, <1>5, <1>8, <1>9 DEF F

LEMMA UpdateHeard ==
  ASSUME Faithful, ~Decoder!Undeterminable(Serialized(event))
  PROVE  LET slots == Decoder!UpdateSlots(Serialized(event)) IN
         /\ \A x \in DOMAIN asked : \E k \in DOMAIN slots : IsOf(slots[k], asked[x])
         /\ \A k \in DOMAIN slots : slots[k].frame \notin Spoilt =>
              \E x \in DOMAIN asked :
                IsOf(slots[k], asked[x]) /\ Heard(slots[k]) = Meant(asked[x])
<1> DEFINE msg == Serialized(event)
           slots == Decoder!UpdateSlots(msg)
           info(i, j) == Decoder!SlotDecoded(msg, msg.frames[i], msg.frames[i].slots[j])
<1>1. msg \in Decoder!Messages /\ DOMAIN msg.frames = DOMAIN event.frames
  BY EventSerialized DEF Faithful, BuilderInv
<1>2. \A i \in DOMAIN event.frames : DOMAIN msg.frames[i].slots = DOMAIN event.frames[i].slots
  BY FrameRead
<1>3. /\ \A k \in DOMAIN slots :
           \E i \in DOMAIN msg.frames : \E j \in DOMAIN msg.frames[i].slots : slots[k] = info(i, j)
      /\ \A i \in DOMAIN msg.frames : \A j \in DOMAIN msg.frames[i].slots :
           \E k \in DOMAIN slots : slots[k] = info(i, j)
  BY <1>1, UpdateEntries
<1>4. \A i \in DOMAIN event.frames : \A j \in DOMAIN event.frames[i].slots :
        /\ info(i, j).frame = msg.frames[i].index
        /\ info(i, j).slot = msg.frames[i].slots[j].index
        /\ msg.frames[i].index \notin Spoilt =>
             \E x \in DOMAIN asked : IsOf(info(i, j), asked[x]) /\ Heard(info(i, j)) = Meant(asked[x])
  BY SlotPlaced, SlotHeard
<1>5. \A x \in DOMAIN asked :
        \E i \in DOMAIN event.frames : \E j \in DOMAIN event.frames[i].slots :
          msg.frames[i].index = asked[x].frame /\ msg.frames[i].slots[j].index = asked[x].slot
  BY AskedListed
<1> HIDE DEF msg, slots, info
<1>6. ASSUME NEW x \in DOMAIN asked  PROVE \E k \in DOMAIN slots : IsOf(slots[k], asked[x])
  <2>1. PICK i \in DOMAIN event.frames : \E j \in DOMAIN event.frames[i].slots :
          msg.frames[i].index = asked[x].frame /\ msg.frames[i].slots[j].index = asked[x].slot
    BY <1>5
  <2>2. PICK j \in DOMAIN event.frames[i].slots :
          msg.frames[i].index = asked[x].frame /\ msg.frames[i].slots[j].index = asked[x].slot
    BY <2>1
  <2>3. PICK k \in DOMAIN slots : slots[k] = info(i, j)  BY <1>1, <1>2, <1>3
  <2> QED BY <1>4, <2>2, <2>3 DEF IsOf
<1>7. ASSUME NEW k \in DOMAIN slots, slots[k].frame \notin Spoilt
      PROVE  \E x \in DOMAIN asked : IsOf(slots[k], asked[x]) /\ Heard(slots[k]) = Meant(asked[x])
  <2>1. PICK i \in DOMAIN msg.frames : \E j \in DOMAIN msg.frames[i].slots : slots[k] = info(i, j)
    BY <1>3
  <2>2. PICK j \in DOMAIN msg.frames[i].slots : slots[k] = info(i, j)  BY <2>1
  <2>3. i \in DOMAIN event.frames /\ j \in DOMAIN event.frames[i].slots  BY <1>1, <1>2
  <2> QED BY <1>4, <1>7, <2>2, <2>3
<1> QED BY <1>6, <1>7 DEF slots, msg

\* A frame and slot of the structure have one index in the flat vector.
LEMMA OneCell ==
  ASSUME NEW F \in Nat, NEW S \in Nat, NEW f \in 0..(F - 1), NEW s \in 0..(S - 1)
  PROVE  /\ f * S + s \in 0..(F * S - 1)
         /\ \A g \in Nat, t \in 0..(S - 1) : f * S + s = g * S + t => g = f /\ t = s
<1>1. f * S + s \in 0..(F * S - 1)
  <2>1. PICK d \in Nat : F = f + 1 + d
    <3>1. F - f - 1 \in Nat /\ F = f + 1 + (F - f - 1)  OBVIOUS
    <3> QED BY <3>1
  <2>2. F * S = f * S + S + d * S /\ d * S \in Nat /\ f * S \in Nat /\ F * S \in Nat  BY <2>1
  <2> QED BY <2>2
<1>2. ASSUME NEW x \in Nat, NEW y \in Nat, NEW u \in 0..(S - 1), NEW v \in 0..(S - 1),
             x * S + u = y * S + v, x < y
      PROVE  FALSE
  <2>1. PICK d \in Nat : y = x + 1 + d
    <3>1. y - x - 1 \in Nat /\ y = x + 1 + (y - x - 1)  BY <1>2
    <3> QED BY <3>1
  <2>2. y * S = x * S + S + d * S /\ d * S \in Nat /\ x * S \in Nat /\ y * S \in Nat  BY <2>1
  <2> QED BY <1>2, <2>2
<1>3. ASSUME NEW g \in Nat, NEW t \in 0..(S - 1), f * S + s = g * S + t
      PROVE  g = f /\ t = s
  <2>1. ~ (f < g)  BY <1>2, <1>3
  <2>2. ~ (g < f)  BY <1>2, <1>3
  <2>3. g = f  BY <2>1, <2>2
  <2>4. f * S \in Nat  OBVIOUS
  <2> QED BY <1>3, <2>3, <2>4
<1> QED BY <1>1, <1>3

LEMMA FullHeard ==
  ASSUME Faithful, ~Decoder!Undeterminable(Serialized(event)),
         ~Decoder!OutOfRange(Serialized(event)), Decoder!HasStructure(Serialized(event))
  PROVE  LET slots == Decoder!FullSlots(Serialized(event)) IN
         /\ \A x \in DOMAIN asked : \E k \in DOMAIN slots : IsOf(slots[k], asked[x])
         /\ \A k \in DOMAIN slots : slots[k].frame \notin Spoilt =>
              \/ \E x \in DOMAIN asked :
                   IsOf(slots[k], asked[x]) /\ Heard(slots[k]) = Meant(asked[x])
              \/ /\ \A x \in DOMAIN asked : ~IsOf(slots[k], asked[x])
                 /\ Heard(slots[k]) = MeantOfRest(slots[k].frame)
<1> DEFINE msg == Serialized(event)
           slots == Decoder!FullSlots(msg)
           st == Decoder!The(msg.structure)
           F == st.frames
           S == st.slots
<1>1. /\ msg \in Decoder!Messages /\ DOMAIN msg.frames = DOMAIN event.frames
      /\ msg.freq = event.freq
  BY EventSerialized DEF Faithful, BuilderInv
<1>2. \A i \in DOMAIN event.frames :
        /\ DOMAIN msg.frames[i].slots = DOMAIN event.frames[i].slots
        /\ msg.frames[i].index \in DOMAIN index /\ index[msg.frames[i].index].at = i
        /\ msg.frames[i].index \notin Spoilt =>
             msg.frames[i].freq = LatestDefault(msg.frames[i].index, "frameFreq")
  BY FrameRead
<1>3. /\ st \in Decoder!Structures
      /\ slots \in [0..(Decoder!NumSlots(st) - 1) -> Decoder!SlotInfos]
      /\ Decoder!InPlace(st, slots)
  BY <1>1, FullSound
<1>4. F \in Nat /\ S \in Nat /\ DOMAIN slots = 0..(F * S - 1)
  BY <1>3 DEF Decoder!Structures, Decoder!NumSlots
<1>5. \A k \in DOMAIN slots :
        /\ slots[k].frame \in Nat /\ slots[k].slot \in 0..(S - 1)
        /\ k = slots[k].frame * S + slots[k].slot
  <2>1. \A k \in DOMAIN slots : slots[k] \in Decoder!SlotInfos  BY <1>3
  <2>2. \A k \in DOMAIN slots : /\ slots[k].slot < S
                                /\ k = slots[k].frame * S + slots[k].slot
    BY <1>3 DEF Decoder!InPlace
  <2> HIDE DEF slots, S
  <2>3. \A k \in DOMAIN slots : slots[k].frame \in Nat /\ slots[k].slot \in Nat
    BY <2>1 DEF Decoder!SlotInfos
  <2> QED BY <1>4, <2>2, <2>3
<1>6. \A x \in DOMAIN asked :
        \E i \in DOMAIN event.frames : \E j \in DOMAIN event.frames[i].slots :
          msg.frames[i].index = asked[x].frame /\ msg.frames[i].slots[j].index = asked[x].slot
  BY AskedListed
<1>7. ASSUME NEW x \in DOMAIN asked  PROVE \E k \in DOMAIN slots : IsOf(slots[k], asked[x])
  <2>1. PICK i \in DOMAIN event.frames : \E j \in DOMAIN event.frames[i].slots :
          msg.frames[i].index = asked[x].frame /\ msg.frames[i].slots[j].index = asked[x].slot
    BY <1>6
  <2>2. PICK j \in DOMAIN event.frames[i].slots :
          msg.frames[i].index = asked[x].frame /\ msg.frames[i].slots[j].index = asked[x].slot
    BY <2>1
  <2> DEFINE f == msg.frames[i].index
             s == msg.frames[i].slots[j].index
  <2>3. f \in Nat /\ s \in Nat  BY <1>1, <1>2, SlotRead
  <2>4. s \in Decoder!Listed(msg.frames[i])  BY <1>2 DEF Decoder!Listed
  <2>5. ~ (f >= F) /\ ~ (s >= S)  BY <1>1, <2>4 DEF Decoder!OutOfRange
  <2> HIDE DEF f, s, F, S, slots
  <2>6. f \in 0..(F - 1) /\ s \in 0..(S - 1)  BY <1>4, <2>3, <2>5
  <2>7. f * S + s \in DOMAIN slots  BY <1>4, <2>6, OneCell
  <2> DEFINE k == f * S + s
  <2>8. k = slots[k].frame * S + slots[k].slot /\ slots[k].frame \in Nat /\ slots[k].slot \in 0..(S - 1)
    BY <1>5, <2>7
  <2>9. slots[k].frame = f /\ slots[k].slot = s
    <3>1. \A g \in Nat, t \in 0..(S - 1) : f * S + s = g * S + t => g = f /\ t = s
      BY <1>4, <2>6, OneCell
    <3>2. f * S + s = slots[k].frame * S + slots[k].slot  BY <2>8
    <3> HIDE DEF k
    <3> QED BY <2>8, <3>1, <3>2
  <2>10. IsOf(slots[k], asked[x])  BY <2>2, <2>9 DEF IsOf, f, s
  <2> QED BY <2>7, <2>10
<1>8. ASSUME NEW k \in DOMAIN slots, slots[k].frame \notin Spoilt
      PROVE  \/ \E x \in DOMAIN asked :
                  IsOf(slots[k], asked[x]) /\ Heard(slots[k]) = Meant(asked[x])
             \/ /\ \A x \in DOMAIN asked : ~IsOf(slots[k], asked[x])
                /\ Heard(slots[k]) = MeantOfRest(slots[k].frame)
  <2> DEFINE f == k \div S
             s == k % S
             e == slots[k]
  <2>1. s \in 0..(S - 1)
    <3> HIDE DEF F, S, slots
    <3> QED BY <1>4, CellOfIndex
  <2>2. \/ /\ \A i \in DOMAIN msg.frames : msg.frames[i].index # f
           /\ e = Decoder!Info("idle", f, s, 0, 0)
        \/ \E i \in DOMAIN msg.frames :
             /\ msg.frames[i].index = f
             /\ \/ \E j \in DOMAIN msg.frames[i].slots :
                     /\ msg.frames[i].slots[j].index = s
                     /\ e = Decoder!SlotDecoded(msg, msg.frames[i], msg.frames[i].slots[j])
                \/ /\ s \notin Decoder!Listed(msg.frames[i])
                   /\ e = Decoder!Info("rx", f, s,
                            Decoder!The(Decoder!FillFrequency(msg, msg.frames[i])), 0)
    <3>1. F = Decoder!The(msg.structure).frames /\ S = Decoder!The(msg.structure).slots
      OBVIOUS
    <3>2. k \in 0..(F * S - 1) /\ Decoder!HasStructure(msg)  BY <1>4
    <3> HIDE DEF msg, slots, st, F, S, f, s
    <3> QED BY <1>1, <3>1, <3>2, FullEntry DEF slots, f, s
  <2> HIDE DEF f, s, e, slots
  <2>3. CASE /\ \A i \in DOMAIN msg.frames : msg.frames[i].index # f
             /\ e = Decoder!Info("idle", f, s, 0, 0)
    <3>1. e = [type |-> "idle", frame |-> f, slot |-> s, freq |-> 0, class |-> 0]
      BY <2>3 DEF Decoder!Info
    <3>2. \A x \in DOMAIN asked : asked[x].frame # f  BY <1>1, <1>6, <2>3
    <3>3. \A x \in DOMAIN asked : ~IsOf(e, asked[x])
      <4>1. e.frame = f  BY <3>1
      <4> QED BY <3>2, <4>1 DEF IsOf
    <3>4. Heard(e) = [type |-> "idle", freq |-> {0}, class |-> {0}]  BY <3>1 DEF Heard
    <3>5. MeantOfRest(f) = [type |-> "idle", class |-> {0}, freq |-> {0}]
      BY <3>2 DEF MeantOfRest
    <3>6. e.frame = f  BY <3>1
    <3> QED BY <3>3, <3>4, <3>5, <3>6 DEF e
  <2>4. ASSUME NEW i \in DOMAIN msg.frames, NEW j \in DOMAIN msg.frames[i].slots,
               msg.frames[i].index = f,
               e = Decoder!SlotDecoded(msg, msg.frames[i], msg.frames[i].slots[j])
        PROVE  \E x \in DOMAIN asked : IsOf(e, asked[x]) /\ Heard(e) = Meant(asked[x])
    <3>1. i \in DOMAIN event.frames /\ j \in DOMAIN event.frames[i].slots  BY <1>1, <1>2
    <3>2. msg.frames[i].index \notin Spoilt
      <4>1. e.frame = msg.frames[i].index  BY <2>4, SlotPlaced
      <4> QED BY <1>8, <4>1 DEF e
    <3> QED BY <2>4, <3>1, <3>2, SlotHeard
  <2>5. ASSUME NEW i \in DOMAIN msg.frames, msg.frames[i].index = f,
               s \notin Decoder!Listed(msg.frames[i]),
               e = Decoder!Info("rx", f, s,
                     Decoder!The(Decoder!FillFrequency(msg, msg.frames[i])), 0)
        PROVE  /\ \A x \in DOMAIN asked : ~IsOf(e, asked[x])
               /\ Heard(e) = MeantOfRest(e.frame)
    <3> DEFINE fill == Decoder!FillFrequency(msg, msg.frames[i])
    <3>1. e = [type |-> "rx", frame |-> f, slot |-> s, freq |-> Decoder!The(fill), class |-> 0]
      BY <2>5 DEF Decoder!Info
    <3>2. i \in DOMAIN event.frames /\ f \notin Spoilt
      <4>1. e.frame = f  BY <3>1
      <4> QED BY <1>1, <1>8, <4>1 DEF e
    <3>3. \A x \in DOMAIN asked : ~IsOf(e, asked[x])
      <4> SUFFICES ASSUME NEW x \in DOMAIN asked, asked[x].frame = f, asked[x].slot = s
                   PROVE  FALSE
        BY <3>1 DEF IsOf
      <4>1. PICK h \in DOMAIN event.frames : \E j \in DOMAIN event.frames[h].slots :
              msg.frames[h].index = f /\ msg.frames[h].slots[j].index = s
        BY <1>6
      <4>2. PICK j \in DOMAIN event.frames[h].slots :
              msg.frames[h].index = f /\ msg.frames[h].slots[j].index = s
        BY <4>1
      <4>3. h = i  BY <1>2, <2>5, <3>2, <4>2
      <4>4. s \in Decoder!Listed(msg.frames[i])  BY <1>2, <4>2, <4>3 DEF Decoder!Listed
      <4> QED BY <2>5, <4>4
    <3>4. PICK x \in DOMAIN asked : asked[x].frame = f
      <4>1. FrameAsAsked(event.frames[i], f, asked) /\ event.frames[i].slots # <<>>
        BY <2>5, <3>2, FrameRead
      <4>3. event.frames[i].slots \in Seq(SlotEntries)
        <5>1. event.frames[i] \in FrameEntries  BY <3>2, EventSerialized DEF Faithful, BuilderInv
        <5> QED BY <5>1 DEF FrameEntries
      <4>4. 1 \in DOMAIN event.frames[i].slots  BY <4>1, <4>3
      <4> QED BY <4>1, <4>4 DEF FrameAsAsked
    <3>5. s \in Decoder!Missing(msg, msg.frames[i])
      <4>1. s \in 0..(st.slots - 1)  BY <2>1
      <4> HIDE DEF msg, st
      <4> QED BY <2>5, <4>1 DEF Decoder!Missing, st
    <3>6. fill # {}  BY <3>5 DEF Decoder!Undeterminable
    <3>7. fill = Decoder!FirstPresent(LatestDefault(f, "frameFreq"), event.freq, {})
      BY <1>1, <1>2, <2>5, <3>2 DEF Decoder!FillFrequency
    <3>8. fill \in Optional(Nat)
      <4>1. msg.freq \in Optional(Nat) /\ msg.frames[i] \in Decoder!FrameMessages
        BY <1>1, SameData, SlotRead DEF Decoder!Messages
      <4>2. msg.frames[i].freq \in Optional(Nat)
        BY <4>1, SameData DEF Decoder!FrameMessages
      <4> QED BY <4>1, <4>2, OptionalFields DEF Decoder!FillFrequency, Decoder!FirstPresent
    <3> HIDE DEF fill
    <3>9. fill = {Decoder!The(fill)}  BY <3>6, <3>8, Present
    <3>10. Heard(e) = [type |-> "rx", freq |-> fill, class |-> {0}]
      BY <3>1, <3>9 DEF Heard
    <3>11. MeantOfRest(f) = [type |-> "rx", class |-> {0}, freq |-> fill]
      BY <3>4, <3>7 DEF MeantOfRest
    <3>12. e.frame = f  BY <3>1
    <3> QED BY <3>3, <3>10, <3>11, <3>12
  <2> QED BY <2>2, <2>3, <2>4, <2>5 DEF e
<1> QED BY <1>7, <1>8

LEMMA RadioHears == BuilderInv /\ AskedInv => RadioAsAsked
<1> SUFFICES ASSUME BuilderInv, AskedInv, Fresh, Complete(event)
             PROVE  LET e == Decoder!Decode(Serialized(event)) IN
                    e.kind # "exception" =>
                      /\ \A i \in DOMAIN asked : \E k \in DOMAIN e.slots : IsOf(e.slots[k], asked[i])
                      /\ \A k \in DOMAIN e.slots : e.slots[k].frame \notin Spoilt =>
                           \/ \E i \in DOMAIN asked :
                                IsOf(e.slots[k], asked[i]) /\ Heard(e.slots[k]) = Meant(asked[i])
                           \/ /\ e.kind = "full"
                              /\ \A i \in DOMAIN asked : ~IsOf(e.slots[k], asked[i])
                              /\ Heard(e.slots[k]) = MeantOfRest(e.slots[k].frame)
  BY DEF RadioAsAsked
<1> DEFINE msg == Serialized(event)
           e == Decoder!Decode(msg)
<1>1. Faithful  BY DEF AskedInv, Faithful
<1>2. CASE ~msg.parses \/ Decoder!OutOfRange(msg) \/ Decoder!Undeterminable(msg)
  <2>1. e.kind = "exception"  BY <1>2 DEF Decoder!Decode
  <2> QED BY <2>1
<1>3. CASE /\ ~ (~msg.parses \/ Decoder!OutOfRange(msg) \/ Decoder!Undeterminable(msg))
           /\ Decoder!HasStructure(msg)
  <2>1. e.kind = "full" /\ e.slots = Decoder!FullSlots(msg)  BY <1>3 DEF Decoder!Decode
  <2>2. /\ \A x \in DOMAIN asked : \E k \in DOMAIN Decoder!FullSlots(msg) :
             IsOf(Decoder!FullSlots(msg)[k], asked[x])
        /\ \A k \in DOMAIN Decoder!FullSlots(msg) :
             Decoder!FullSlots(msg)[k].frame \notin Spoilt =>
             \/ \E x \in DOMAIN asked :
                  /\ IsOf(Decoder!FullSlots(msg)[k], asked[x])
                  /\ Heard(Decoder!FullSlots(msg)[k]) = Meant(asked[x])
             \/ /\ \A x \in DOMAIN asked : ~IsOf(Decoder!FullSlots(msg)[k], asked[x])
                /\ Heard(Decoder!FullSlots(msg)[k]) = MeantOfRest(Decoder!FullSlots(msg)[k].frame)
    BY <1>1, <1>3, FullHeard
  <2> HIDE DEF e, msg
  <2> QED BY <2>1, <2>2 DEF e, msg
<1>4. CASE /\ ~ (~msg.parses \/ Decoder!OutOfRange(msg) \/ Decoder!Undeterminable(msg))
           /\ ~Decoder!HasStructure(msg)
  <2>1. e.kind = "update" /\ e.slots = Decoder!UpdateSlots(msg)  BY <1>4 DEF Decoder!Decode
  <2>2. /\ \A x \in DOMAIN asked : \E k \in DOMAIN Decoder!UpdateSlots(msg) :
             IsOf(Decoder!UpdateSlots(msg)[k], asked[x])
        /\ \A k \in DOMAIN Decoder!UpdateSlots(msg) :
             Decoder!UpdateSlots(msg)[k].frame \notin Spoilt => \E x \in DOMAIN asked :
             /\ IsOf(Decoder!UpdateSlots(msg)[k], asked[x])
             /\ Heard(Decoder!UpdateSlots(msg)[k]) = Meant(asked[x])
    BY <1>1, <1>4, UpdateHeard
  <2> HIDE DEF e, msg
  <2> QED BY <2>1, <2>2 DEF e, msg
<1> QED BY <1>2, <1>3, <1>4

\* What a radio decodes of an event built from nothing is what was asked for, call by call
\* (HBtdmascheduleevent.py:293): each slot asked for, and nothing else in the frames for
\* which no call raised, each with its class in a byte (HBtdmascheduleevent.cc:139).
THEOREM RadiosHearWhatWasAsked == Spec => []RadioAsAsked
<1> DEFINE Inv == BuilderInv /\ AskedInv
<1>1. Init => Inv  BY BuilderInitially, AskedInitially
<1>2. Inv /\ [Next]_vars => Inv'  BY BuilderStep, AskedStep
<1>3. Inv => RadioAsAsked  BY RadioHears
<1> HIDE DEF Inv
<1> QED BY <1>1, <1>2, <1>3, PTL DEF Spec

\* What a complete event is serialized to is decoded to an event as the scheduler expects it,
\* or refused, however it was built.
THEOREM BuiltDecodes ==
  Spec => [](Complete(event) => Decoder!DecodedEvent(Decoder!Decode(Serialized(event))))
<1>1. BuilderTypeOK /\ Complete(event) => Serialized(event) \in Decoder!Messages
  BY EventSerialized
<1>2. BuilderTypeOK
        => (Complete(event) => Decoder!DecodedEvent(Decoder!Decode(Serialized(event))))
  BY <1>1, MessagesDecode
<1> QED BY <1>2, BuilderTyping, PTL
=============================================================================
