--------------------------- MODULE AudioRingProofs ---------------------------
(***************************************************************************)
(* Theorems about AudioRing for every capacity, request size and bound.    *)
(***************************************************************************)
EXTENDS AudioRing, SequenceTheorems, TLAPS

\* The positions are ordered, and the producer stays within one lap.
PositionsOrdered ==
    /\ readPosition <= writePosition
    /\ writePosition - readPosition <= Capacity
    /\ discardBefore <= writePosition

\* The room the producer found is still there when it uses it: the consumer
\* only adds to it.
ProducerHasRoom ==
    producerPc # "idle" =>
        /\ writePosition - readPosition < Capacity
        /\ writePosition < MaxFrames

WrittenAwaitsPublish ==
    producerPc = "publish" => samples[SlotOf(writePosition)] = writePosition

\* A call reads from frames that are still in the ring.
CallInRange ==
    consumerPc # "idle" =>
        /\ readPosition <= read
        /\ read + count <= writePosition
        /\ consumerPc \in {"flush", "load"} => count = 0
        /\ Len(interleaved) <= count
        /\ consumerPc = "copy" => Len(interleaved) < count

\* Where a call stands decides what it has stored and copied so far: a call that
\* applies the flush at once has done so before it loads the write position, and
\* only a call that copies has copied.
CallProtocol ==
    /\ consumerPc = "flush" => readPosition < read /\ read <= discardBefore
    /\ consumerPc = "load" /\ AppliesFlushFirst(call) => read = readPosition
    /\ consumerPc = "copy" => call # "discard"
    /\ call = "discard" => interleaved = << >>
    /\ consumerPc = "publish" /\ call # "discard" => Len(interleaved) = count

\* Every frame in the ring is where its position says.
HeldFramesAreCurrent ==
    \A p \in readPosition .. writePosition - 1 : samples[SlotOf(p)] = p

IInv ==
    /\ TypeOK
    /\ PositionsOrdered
    /\ ProducerHasRoom
    /\ WrittenAwaitsPublish
    /\ CallInRange
    /\ CallProtocol
    /\ HeldFramesAreCurrent
    /\ CopiedFramesAreCurrent

-----------------------------------------------------------------------------
\* A slot index is an index of samples.
LEMMA SlotInRange ==
    ASSUME NEW p \in Int
    PROVE  SlotOf(p) \in 0 .. Capacity - 1
  BY RingAssumption DEF SlotOf

\* A product with a positive factor is at least the other factor.
LEMMA MultipleAtLeast ==
    ASSUME NEW c \in Nat, NEW k \in Int, k >= 1
    PROVE  c * k >= c
  BY SMT

\* Two positions less than a lap apart have different slots.
LEMMA SlotsDiffer ==
    ASSUME NEW p \in Nat, NEW q \in Nat, p < q, q - p < Capacity
    PROVE  SlotOf(p) # SlotOf(q)
  <1> DEFINE k == (q \div Capacity) - (p \div Capacity)
  <1>1. /\ p = Capacity * (p \div Capacity) + (p % Capacity)
        /\ q = Capacity * (q \div Capacity) + (q % Capacity)
        /\ p \div Capacity \in Int /\ q \div Capacity \in Int
        /\ p % Capacity \in Int /\ q % Capacity \in Int
    BY RingAssumption
  <1>2. SUFFICES ASSUME p % Capacity = q % Capacity PROVE FALSE
    BY DEF SlotOf
  <1>3. q - p = Capacity * k /\ k \in Int
    BY <1>1, <1>2, RingAssumption
  <1>4. CASE k >= 1
    BY <1>3, <1>4, MultipleAtLeast, RingAssumption
  <1>5. CASE k <= 0
    BY <1>3, <1>5, RingAssumption
  <1>6. QED
    BY <1>3, <1>4, <1>5

\* While frames are written and read, different positions of the ring's window
\* keep different slots: what the producer writes is in none of the held ones.
LEMMA WindowSlotsDiffer ==
    ASSUME TypeOK, PositionsOrdered, writePosition - readPosition < Capacity,
           NEW p \in readPosition .. writePosition - 1
    PROVE  SlotOf(p) # SlotOf(writePosition)
  BY SlotsDiffer, RingAssumption DEF TypeOK, PositionsOrdered

-----------------------------------------------------------------------------
(* The inductive invariant.                                                *)

LEMMA InitInvariant == Init => IInv
  BY RingAssumption
     DEF Init, IInv, TypeOK, PositionsOrdered, ProducerHasRoom,
         WrittenAwaitsPublish, CallInRange, CallProtocol, HeldFramesAreCurrent,
         CopiedFramesAreCurrent, Calls, Empty

\* A step of the producer leaves the consumer's part of the invariant alone, and
\* adds a frame above those the consumer may read.
LEMMA ProducerKeepsInvariant == IInv /\ Producer => IInv'
  <1> SUFFICES ASSUME IInv, Producer PROVE IInv'
    OBVIOUS
  <1> USE RingAssumption
  <1>1. CASE PushCheck
    BY <1>1
       DEF PushCheck, consumerVars, IInv, TypeOK, PositionsOrdered, ProducerHasRoom,
           WrittenAwaitsPublish, CallInRange, CallProtocol, HeldFramesAreCurrent,
           CopiedFramesAreCurrent
  <1>2. CASE PushWrite
    <2>1. SlotOf(writePosition) \in 0 .. Capacity - 1
      BY SlotInRange DEF IInv, TypeOK
    <2>2. TypeOK'
      BY <1>2, <2>1 DEF PushWrite, consumerVars, IInv, TypeOK
    <2>3. /\ PositionsOrdered' /\ ProducerHasRoom' /\ CallInRange'
          /\ CallProtocol' /\ CopiedFramesAreCurrent'
      BY <1>2
         DEF PushWrite, consumerVars, IInv, PositionsOrdered, ProducerHasRoom,
             CallInRange, CallProtocol, CopiedFramesAreCurrent
    <2>4. WrittenAwaitsPublish'
      BY <1>2, <2>1 DEF PushWrite, IInv, TypeOK, WrittenAwaitsPublish
    <2>5. HeldFramesAreCurrent'
      <3>1. ASSUME NEW p \in readPosition .. writePosition - 1
            PROVE  samples'[SlotOf(p)] = p
        <4>1. SlotOf(p) # SlotOf(writePosition)
          BY <1>2, WindowSlotsDiffer DEF PushWrite, IInv, ProducerHasRoom
        <4>2. SlotOf(p) \in 0 .. Capacity - 1
          BY SlotInRange DEF IInv, TypeOK
        <4>3. QED
          BY <1>2, <4>1, <4>2 DEF PushWrite, IInv, TypeOK, HeldFramesAreCurrent
      <3>2. QED
        BY <1>2, <3>1 DEF PushWrite, consumerVars, HeldFramesAreCurrent
    <2>6. QED
      BY <2>2, <2>3, <2>4, <2>5 DEF IInv
  <1>3. CASE PushPublish
    <2>1. HeldFramesAreCurrent'
      BY <1>3
         DEF PushPublish, consumerVars, IInv, TypeOK, WrittenAwaitsPublish,
             HeldFramesAreCurrent
    <2>2. QED
      BY <1>3, <2>1
         DEF PushPublish, consumerVars, IInv, TypeOK, PositionsOrdered,
             ProducerHasRoom, WrittenAwaitsPublish, CallInRange, CallProtocol,
             CopiedFramesAreCurrent
  <1>4. CASE Clear
    BY <1>4
       DEF Clear, consumerVars, IInv, TypeOK, PositionsOrdered, ProducerHasRoom,
           WrittenAwaitsPublish, CallInRange, CallProtocol, HeldFramesAreCurrent,
           CopiedFramesAreCurrent
  <1>5. QED
    BY <1>1, <1>2, <1>3, <1>4 DEF Producer

\* A step of the consumer only removes frames from the window, and copies one
\* only from a position inside it.
LEMMA ConsumerKeepsInvariant == IInv /\ Consumer => IInv'
  <1> SUFFICES ASSUME IInv, Consumer PROVE IInv'
    OBVIOUS
  <1> USE RingAssumption
  <1>1. ASSUME NEW c \in Calls, BeginCall(c) PROVE IInv'
    BY <1>1
       DEF BeginCall, AppliesFlushFirst, Larger, producerVars, IInv, TypeOK,
           PositionsOrdered, ProducerHasRoom, WrittenAwaitsPublish, CallInRange, CallProtocol,
           HeldFramesAreCurrent, CopiedFramesAreCurrent
  <1>2. CASE StoreFlush
    BY <1>2
       DEF StoreFlush, producerVars, IInv, TypeOK, PositionsOrdered, ProducerHasRoom,
           WrittenAwaitsPublish, CallInRange, CallProtocol, HeldFramesAreCurrent,
           CopiedFramesAreCurrent
  <1>3. ASSUME NEW frames \in 1 .. MaxRequest, LoadWrite(frames) PROVE IInv'
    BY <1>3
       DEF LoadWrite, Smaller, producerVars, IInv, TypeOK, PositionsOrdered,
           ProducerHasRoom, WrittenAwaitsPublish, CallInRange, CallProtocol, HeldFramesAreCurrent,
           CopiedFramesAreCurrent
  <1>4. CASE LoadWriteForOne
    BY <1>4
       DEF LoadWriteForOne, producerVars, IInv, TypeOK, PositionsOrdered,
           ProducerHasRoom, WrittenAwaitsPublish, CallInRange, CallProtocol, HeldFramesAreCurrent,
           CopiedFramesAreCurrent
  <1>5. CASE ReturnWithoutTaking
    BY <1>5
       DEF ReturnWithoutTaking, producerVars, IInv, TypeOK, PositionsOrdered,
           ProducerHasRoom, WrittenAwaitsPublish, CallInRange, CallProtocol, HeldFramesAreCurrent,
           CopiedFramesAreCurrent
  <1>6. CASE CopyFrame
    <2> DEFINE p == read + Len(interleaved)
    <2>1. p \in readPosition .. writePosition - 1 /\ p = read + (Len(interleaved) + 1) - 1
      BY <1>6 DEF CopyFrame, IInv, TypeOK, CallInRange
    <2>2. interleaved' = Append(interleaved, p) /\ p \in Nat
      BY <1>6, <2>1 DEF CopyFrame, IInv, TypeOK, HeldFramesAreCurrent
    <2>3. interleaved' \in Seq(Nat) /\ Len(interleaved') = Len(interleaved) + 1
      BY <2>2 DEF IInv, TypeOK
    <2>4. CopiedFramesAreCurrent'
      <3>1. ASSUME NEW i \in 1 .. Len(interleaved) + 1
            PROVE  interleaved'[i] = read + i - 1
        <4>1. /\ interleaved'[Len(interleaved) + 1] = p
              /\ i <= Len(interleaved) => interleaved'[i] = interleaved[i]
          BY <2>2, AppendProperties DEF IInv, TypeOK
        <4>2. CASE i <= Len(interleaved)
          BY <4>1, <4>2 DEF IInv, TypeOK, CopiedFramesAreCurrent
        <4>3. CASE i = Len(interleaved) + 1
          BY <2>1, <4>1, <4>3
        <4>4. QED
          BY <4>2, <4>3 DEF IInv, TypeOK
      <3>2. QED
        BY <1>6, <2>3, <3>1 DEF CopyFrame, CopiedFramesAreCurrent
    <2>5. QED
      BY <1>6, <2>3, <2>4
         DEF CopyFrame, producerVars, IInv, TypeOK, PositionsOrdered, ProducerHasRoom,
             WrittenAwaitsPublish, CallInRange, CallProtocol, HeldFramesAreCurrent
  <1>7. CASE Publish
    BY <1>7
       DEF Publish, producerVars, IInv, TypeOK, PositionsOrdered, ProducerHasRoom,
           WrittenAwaitsPublish, CallInRange, CallProtocol, HeldFramesAreCurrent,
           CopiedFramesAreCurrent
  <1>8. QED
    BY <1>1, <1>2, <1>3, <1>4, <1>5, <1>6, <1>7 DEF Consumer

LEMMA StutterKeepsInvariant == IInv /\ UNCHANGED vars => IInv'
  BY DEF vars, IInv, TypeOK, PositionsOrdered, ProducerHasRoom, WrittenAwaitsPublish,
         CallInRange, CallProtocol, HeldFramesAreCurrent, CopiedFramesAreCurrent

\* Every reachable state of the ring, of any capacity, satisfies the invariant.
THEOREM Invariant == Spec => []IInv
  <1>1. IInv /\ [Next]_vars => IInv'
    BY ProducerKeepsInvariant, ConsumerKeepsInvariant, StutterKeepsInvariant DEF Next
  <1>2. QED
    BY <1>1, InitInvariant, PTL DEF Spec

-----------------------------------------------------------------------------
\* The ring's variables keep their types, and no call takes more than a ring.
THEOREM TypeCorrect == Spec => []TypeOK
  <1>1. IInv => TypeOK
    BY DEF IInv
  <1>2. QED
    BY <1>1, Invariant, PTL

\* push never writes a slot that a pop is still to copy.
THEOREM RaceFree == Spec => []NoDataRace
  <1>1. IInv => NoDataRace
    <2> SUFFICES ASSUME IInv, producerPc = "write", consumerPc = "copy",
                        NEW i \in Len(interleaved) .. count - 1
                 PROVE  SlotOf(writePosition) # SlotOf(read + i)
      BY DEF NoDataRace
    <2>1. read + i \in readPosition .. writePosition - 1
      BY DEF IInv, TypeOK, CallInRange
    <2>2. QED
      BY <2>1, WindowSlotsDiffer DEF IInv, ProducerHasRoom
  <1>2. QED
    BY <1>1, Invariant, PTL

\* No difference of positions wraps or exceeds the capacity.
THEOREM DifferencesExact == Spec => []NoUnderflow
  <1>1. IInv => NoUnderflow
    BY RingAssumption DEF IInv, TypeOK, PositionsOrdered, CallInRange, NoUnderflow
  <1>2. QED
    BY <1>1, Invariant, PTL

\* What a call has copied is what was pushed at the positions it took.
THEOREM CopiesCurrent == Spec => []CopiedFramesAreCurrent
  <1>1. IInv => CopiedFramesAreCurrent
    BY DEF IInv
  <1>2. QED
    BY <1>1, Invariant, PTL

-----------------------------------------------------------------------------
(* AudioRing implements FrameQueue.  The frames the ring holds are         *)
(* consecutive numbers, so the abstract queue is always a window of them.  *)

Window(first, n) == [i \in 1 .. n |-> first + i - 1]

LEMMA WindowIsSeq ==
    ASSUME NEW first \in Nat, NEW n \in Nat
    PROVE  /\ Window(first, n) \in Seq(Nat)
           /\ Len(Window(first, n)) = n
           /\ \A i \in 1 .. n : Window(first, n)[i] = first + i - 1
  <1> DEFINE e(i) == first + i - 1
  <1>1. \A i \in 1 .. n : e(i) \in Nat
    OBVIOUS
  <1>2. [i \in 1 .. n |-> e(i)] \in Seq(Nat)
    BY <1>1, SMT
  <1>3. QED
    BY <1>2 DEF Window

\* Putting the next number at the end of a window lengthens it.
LEMMA WindowAppend ==
    ASSUME NEW first \in Nat, NEW n \in Nat
    PROVE  Append(Window(first, n), first + n) = Window(first, n + 1)
  <1> DEFINE w == Window(first, n)
             v == Window(first, n + 1)
             a == Append(w, first + n)
  <1>1a. w \in Seq(Nat) /\ Len(w) = n /\ \A i \in 1 .. n : w[i] = first + i - 1
    BY WindowIsSeq
  <1>2. first + n \in Nat /\ n + 1 \in Nat
    OBVIOUS
  <1>1b. v \in Seq(Nat) /\ Len(v) = n + 1 /\ \A i \in 1 .. n + 1 : v[i] = first + i - 1
    BY <1>2, WindowIsSeq
  <1> HIDE DEF w, v
  <1>3. /\ a \in Seq(Nat) /\ Len(a) = n + 1 /\ a[n + 1] = first + n
        /\ \A i \in 1 .. n : a[i] = w[i]
    BY <1>1a, <1>2, AppendProperties
  <1> HIDE DEF a
  <1>4. \A i \in 1 .. Len(a) : a[i] = v[i]
    <2> SUFFICES ASSUME NEW i \in 1 .. n + 1 PROVE a[i] = v[i]
      BY <1>3
    <2>1. CASE i = n + 1
      BY <1>1b, <1>3, <2>1
    <2>2. CASE i \in 1 .. n
      BY <1>1a, <1>1b, <1>3, <2>2
    <2>3. QED
      BY <2>1, <2>2
  <1>5. a = v
    BY <1>1b, <1>3, <1>4, SeqEqual
  <1>6. QED
    BY <1>5 DEF a, v, w

\* A part of a window is a window.
Cut(first, n, low, to) == SubSeq(Window(first, n), low, to)

LEMMA WindowPart ==
    ASSUME NEW first \in Nat, NEW n \in Nat, NEW from \in Nat, NEW to \in Nat,
           from <= to, to <= n
    PROVE  Cut(first, n, from + 1, to) = Window(first + from, to - from)
  <1> DEFINE w == Window(first, n)
             v == Window(first + from, to - from)
             p == SubSeq(w, from + 1, to)
             len == to - from
  <1>0. first + from \in Nat /\ len \in Nat
    OBVIOUS
  <1>1a. w \in Seq(Nat) /\ Len(w) = n /\ \A i \in 1 .. n : w[i] = first + i - 1
    BY WindowIsSeq
  <1>1b. v \in Seq(Nat) /\ Len(v) = len /\ \A i \in 1 .. len : v[i] = (first + from) + i - 1
    BY <1>0, WindowIsSeq
  <1> HIDE DEF w, v
  <1>2. \A i \in from + 1 .. to : w[i] \in Nat
    BY <1>1a
  <1>3. /\ p \in Seq(Nat)
        /\ Len(p) = IF from + 1 <= to THEN to - (from + 1) + 1 ELSE 0
        /\ \A i \in 1 .. to - (from + 1) + 1 : p[i] = w[from + 1 + i - 1]
    BY <1>2, SubSeqProperties
  <1> HIDE DEF p
  <1>4. Len(p) = len
    BY <1>0, <1>3
  <1>5. ASSUME NEW i \in 1 .. len PROVE p[i] = v[i]
    <2>1. p[i] = w[from + i] /\ from + i \in 1 .. n
      BY <1>3
    <2>2. QED
      BY <1>1a, <1>1b, <2>1
  <1>7. p = v
    BY <1>1b, <1>3, <1>4, <1>5, SeqEqual
  <1>6. QED
    BY <1>7 DEF p, v, w, Cut

HeldWindow ==
    /\ Held = Window(readPosition, writePosition - readPosition)
    /\ Len(Held) = writePosition - readPosition

LEMMA HeldIsWindow == IInv => HeldWindow
  <1> SUFFICES ASSUME IInv PROVE HeldWindow
    OBVIOUS
  <1>1. \A i \in 1 .. writePosition - readPosition :
            samples[SlotOf(readPosition + i - 1)] = readPosition + i - 1
    BY DEF IInv, TypeOK, PositionsOrdered, HeldFramesAreCurrent
  <1>2. Held = Window(readPosition, writePosition - readPosition)
    BY <1>1 DEF Held, Window
  <1>3. readPosition \in Nat /\ writePosition - readPosition \in Nat
    BY DEF IInv, TypeOK, PositionsOrdered
  <1>4. QED
    BY <1>2, <1>3, WindowIsSeq DEF HeldWindow

LEMMA HeldIsWindowNext == IInv' => HeldWindow'
  BY HeldIsWindow, PTL

\* At the end of a copy the call has all its frames, and they are a window.
LEMMA InterleavedIsWindow ==
    ASSUME IInv, Len(interleaved) = count
    PROVE  interleaved = Window(read, count)
  <1> DEFINE v == Window(read, count)
  <1>1. /\ v \in Seq(Nat) /\ Len(v) = count
        /\ \A i \in 1 .. count : v[i] = read + i - 1
    <2>1. read \in Nat /\ count \in Nat
      BY RingAssumption DEF IInv, TypeOK
    <2>2. QED
      BY <2>1, WindowIsSeq
  <1> HIDE DEF v
  <1>2. interleaved \in Seq(Nat) /\ \A i \in 1 .. Len(interleaved) : interleaved[i] = v[i]
    BY <1>1 DEF IInv, TypeOK, CopiedFramesAreCurrent
  <1>3. interleaved = v
    BY <1>1, <1>2, SeqEqual
  <1>4. QED
    BY <1>3 DEF v

\* The variables of FrameQueue, as AudioRing's refinement mapping gives them.
StaleFrames == Larger(discardBefore - readPosition, 0)
OpenCall == [stage |-> Stage,
             drop |-> IF consumerPc = "idle" THEN 0 ELSE read - readPosition,
             take |-> IF Stage = "committed" THEN count ELSE 0]
LastDelivered == IF consumerPc = "idle" THEN interleaved ELSE << >>

MappedUnchanged ==
    /\ Held' = Held
    /\ writePosition' = writePosition
    /\ StaleFrames' = StaleFrames
    /\ OpenCall' = OpenCall
    /\ LastDelivered' = LastDelivered

LEMMA InitRefines == Init => Queue!Init
  <1> SUFFICES ASSUME Init PROVE Queue!Init
    OBVIOUS
  <1>1. Held \in Seq(Nat) /\ Len(Held) = 0
    BY InitInvariant, HeldIsWindow, WindowIsSeq DEF Init, HeldWindow
  <1>2. Held = << >>
    BY <1>1, EmptySeq
  <1>3. QED
    BY <1>2 DEF Init, Queue!Init, Queue!NoCall, Larger, Stage

\* Pushing: the frame joins the queue when its position is published.
LEMMA ProducerRefines ==
    ASSUME IInv, IInv', Producer
    PROVE  MappedUnchanged \/ Queue!Put \/ Queue!Flush
  <1> DEFINE n == writePosition - readPosition
  <1> USE RingAssumption
  <1>0. /\ Held = Window(readPosition, n) /\ Len(Held) = n
        /\ Held' = Window(readPosition', n')
        /\ n \in Nat /\ n <= Capacity /\ readPosition \in Nat
    <2>1. HeldWindow /\ HeldWindow'
      BY HeldIsWindow, HeldIsWindowNext
    <2>2. n \in Nat /\ n <= Capacity /\ readPosition \in Nat
      BY DEF IInv, TypeOK, PositionsOrdered
    <2>3. QED
      BY <2>1, <2>2 DEF HeldWindow
  <1>1. CASE PushCheck
    BY <1>0, <1>1
       DEF PushCheck, consumerVars, MappedUnchanged, StaleFrames, OpenCall, Stage,
           LastDelivered
  <1>2. CASE PushWrite
    BY <1>0, <1>2
       DEF PushWrite, consumerVars, MappedUnchanged, StaleFrames, OpenCall, Stage,
           LastDelivered
  <1>3. CASE PushPublish
    <2>1. Held' = Append(Held, writePosition)
      <3>1. Append(Window(readPosition, n), readPosition + n) = Window(readPosition, n + 1)
        BY <1>0, WindowAppend
      <3>2. readPosition + n = writePosition /\ readPosition' = readPosition /\ n' = n + 1
        BY <1>3 DEF PushPublish, consumerVars, IInv, TypeOK
      <3>3. QED
        BY <1>0, <3>1, <3>2
    <2>2. Len(Held) < Capacity /\ writePosition < MaxFrames
      BY <1>0, <1>3 DEF PushPublish, IInv, ProducerHasRoom
    <2>3. Queue!Put
      BY <1>3, <2>1, <2>2
         DEF PushPublish, consumerVars, Queue!Put, Stage
    <2>4. QED
      BY <2>3
  <1>4. CASE Clear
    <2>1. Held' = Held
      BY <1>0, <1>4 DEF Clear, consumerVars
    <2>2. Larger(discardBefore - readPosition, 0)' = Len(Held)
      BY <1>0, <1>4 DEF Clear, consumerVars, Larger, IInv, TypeOK
    <2>3. Queue!Flush
      BY <1>4, <2>1, <2>2 DEF Clear, consumerVars, Queue!Flush, Stage
    <2>4. QED
      BY <2>3
  <1>5. QED
    BY <1>1, <1>2, <1>3, <1>4 DEF Producer

LEMMA CommittedRecord ==
    ASSUME NEW d, NEW t, NEW r, NEW s,
           r = [stage |-> "open", drop |-> d, take |-> 0],
           s = [stage |-> "committed", drop |-> d, take |-> t]
    PROVE  [r EXCEPT !.stage = "committed", !.take = t] = s
  <1> DEFINE q == [stage |-> "committed", drop |-> d, take |-> 0]
  <1>1. q = [stage |-> "committed", drop |-> d, take |-> 0]
    OBVIOUS
  <1> HIDE DEF q
  <1>2. [r EXCEPT !.stage = "committed"] = q
    BY <1>1, SMT
  <1>3. [q EXCEPT !.take = t] = s
    BY <1>1, SMT
  <1>4. [r EXCEPT !.stage = "committed", !.take = t]
            = [[r EXCEPT !.stage = "committed"] EXCEPT !.take = t]
    BY Zenon
  <1>5. QED
    BY <1>2, <1>3, <1>4, Zenon

\* Loading the write position commits the open call to a count.
LEMMA CommitStep ==
    ASSUME NEW frames, consumerPc = "load", consumerPc' \in {"copy", "publish"},
           Held' = Held,
           count' = Queue!Smaller(frames, Len(Held) - (read - readPosition)),
           UNCHANGED <<readPosition, call, read, interleaved, producerVars>>
    PROVE  Queue!Commit(frames)
  <1>1. Stage = "open" /\ Stage' = "committed"
    BY DEF Stage
  <1>2. /\ OpenCall = [stage |-> "open", drop |-> read - readPosition, take |-> 0]
        /\ OpenCall' = [stage |-> "committed", drop |-> read - readPosition,
                        take |-> count']
        /\ LastDelivered' = LastDelivered
    BY <1>1 DEF OpenCall, LastDelivered
  <1>3. /\ OpenCall.stage = "open"
        /\ OpenCall.drop = read - readPosition
        /\ [OpenCall EXCEPT !.stage = "committed", !.take = count'] = OpenCall'
    <2>1. OpenCall.stage = "open" /\ OpenCall.drop = read - readPosition
      BY <1>2
    <2>2. [OpenCall EXCEPT !.stage = "committed", !.take = count'] = OpenCall'
      BY <1>2, CommittedRecord, Zenon
    <2>3. QED
      BY <2>1, <2>2
  <1>4. StaleFrames' = StaleFrames /\ writePosition' = writePosition
    BY DEF StaleFrames, producerVars
  <1>5. count' = Queue!Smaller(frames, Len(Held) - OpenCall.drop)
    BY <1>3
  <1>6. QED
    BY <1>2, <1>3, <1>4, <1>5
       DEF Queue!Commit, OpenCall, StaleFrames, LastDelivered

\* Consuming: a call opens when it loads the flush boundary, commits when it loads
\* the write position, and closes when it stores the read position.
LEMMA ConsumerRefines ==
    ASSUME IInv, IInv', Consumer
    PROVE  \/ MappedUnchanged
           \/ Queue!Open
           \/ Queue!Drop
           \/ \E frames \in 1 .. MaxRequest : Queue!Commit(frames)
           \/ Queue!Leave
           \/ \E skip \in BOOLEAN : Queue!Close(skip)
  <1> DEFINE n == writePosition - readPosition
  <1> USE RingAssumption
  <1>0. /\ Held = Window(readPosition, n) /\ Len(Held) = n
        /\ Held' = Window(readPosition', n')
        /\ n \in Nat /\ n <= Capacity /\ readPosition \in Nat
    <2>1. HeldWindow /\ HeldWindow'
      BY HeldIsWindow, HeldIsWindowNext
    <2>2. n \in Nat /\ n <= Capacity /\ readPosition \in Nat
      BY DEF IInv, TypeOK, PositionsOrdered
    <2>3. QED
      BY <2>1, <2>2 DEF HeldWindow
  <1>1. ASSUME NEW c \in Calls, BeginCall(c) PROVE Queue!Open
    <2>1. Held' = Held
      BY <1>0, <1>1 DEF BeginCall, producerVars
    <2>2. read' - readPosition' = StaleFrames
      BY <1>1 DEF BeginCall, producerVars, StaleFrames, Larger, IInv, TypeOK
    <2>3. QED
      BY <1>1, <2>1, <2>2
         DEF BeginCall, producerVars, Queue!Open, Stage, StaleFrames
  <1>2. CASE StoreFlush
    <2> DEFINE k == read - readPosition
    <2>1. k \in Nat /\ 0 < k /\ k <= n /\ readPosition' = readPosition + k /\ n' = n - k
      BY <1>2
         DEF StoreFlush, producerVars, IInv, TypeOK, CallInRange, CallProtocol,
             PositionsOrdered
    <2>2. Held' = SubSeq(Held, k + 1, Len(Held))
      <3>0. k \in Nat /\ n \in Nat /\ k <= n /\ readPosition \in Nat
        BY <1>0, <2>1
      <3> HIDE DEF k, n
      <3>1. Cut(readPosition, n, k + 1, n) = Window(readPosition + k, n - k)
        BY <3>0, WindowPart
      <3>2. QED
        BY <1>0, <2>1, <3>1 DEF Cut
    <2>3. StaleFrames' = StaleFrames - k
      BY <1>2
         DEF StoreFlush, producerVars, StaleFrames, Larger, IInv, TypeOK, CallProtocol
    <2>4. /\ OpenCall = [stage |-> "open", drop |-> k, take |-> 0]
          /\ OpenCall' = [stage |-> "open", drop |-> 0, take |-> 0]
          /\ LastDelivered' = LastDelivered /\ writePosition' = writePosition
      <3>1. Stage = "open" /\ Stage' = "open" /\ read' - readPosition' = 0
        BY <1>2 DEF StoreFlush, Stage, IInv, TypeOK
      <3>2. QED
        BY <1>2, <3>1 DEF StoreFlush, producerVars, OpenCall, LastDelivered
    <2>6. Queue!Drop
      <3>1. [OpenCall EXCEPT !.drop = 0] = OpenCall'
        BY <2>4
      <3>2. OpenCall.stage = "open" /\ OpenCall.drop = k
        BY <2>4
      <3>3. QED
        BY <2>1, <2>2, <2>3, <2>4, <3>1, <3>2
           DEF Queue!Drop, Queue!DropFirst, OpenCall, StaleFrames, LastDelivered
    <2>5. QED
      BY <2>6
  <1>3. ASSUME NEW frames \in 1 .. MaxRequest, LoadWrite(frames)
        PROVE  Queue!Commit(frames)
    <2>1. Held' = Held
      BY <1>0, <1>3 DEF LoadWrite, producerVars
    <2>2. writePosition - read = Len(Held) - (read - readPosition)
      BY <1>0 DEF IInv, TypeOK
    <2>3. count' = Queue!Smaller(frames, Len(Held) - (read - readPosition))
      BY <1>3, <2>2 DEF LoadWrite, Queue!Smaller, Smaller
    <2>4. QED
      BY <1>3, <2>1, <2>3, CommitStep DEF LoadWrite
  <1>4. CASE LoadWriteForOne
    <2>1. Held' = Held
      BY <1>0, <1>4 DEF LoadWriteForOne, producerVars
    <2>2. Queue!Smaller(1, Len(Held) - (read - readPosition)) = 1
      BY <1>0, <1>4
         DEF LoadWriteForOne, Queue!Smaller, IInv, TypeOK, CallInRange
    <2>3. Queue!Commit(1)
      BY <1>4, <2>1, <2>2, CommitStep DEF LoadWriteForOne
    <2>4. QED
      BY <2>3
  <1>5. CASE ReturnWithoutTaking
    <2>1. Held' = Held
      BY <1>0, <1>5 DEF ReturnWithoutTaking, producerVars
    <2>2. read - readPosition = 0 /\ interleaved = << >>
      BY <1>5
         DEF ReturnWithoutTaking, IInv, TypeOK, CallInRange, CallProtocol,
             AppliesFlushFirst
    <2>3. Queue!Leave
      BY <1>5, <2>1, <2>2
         DEF ReturnWithoutTaking, producerVars, Queue!Leave, Queue!NoCall, Stage
    <2>4. QED
      BY <2>3
  <1>6. CASE CopyFrame
    <2>1. Held' = Held
      BY <1>0, <1>6 DEF CopyFrame, producerVars
    <2>2. MappedUnchanged
      BY <1>6, <2>1
         DEF CopyFrame, producerVars, MappedUnchanged, StaleFrames, OpenCall, Stage,
             LastDelivered
    <2>3. QED
      BY <2>2
  <1>7. CASE Publish
    <2> DEFINE gone == (read - readPosition) + count
    <2>1. /\ gone \in Nat /\ gone <= n /\ readPosition' = readPosition + gone
          /\ n' = n - gone /\ gone - (read - readPosition) = count
          /\ read - readPosition \in Nat /\ read - readPosition <= gone
      BY <1>7 DEF Publish, producerVars, IInv, TypeOK, CallInRange
    <2>2. Held' = SubSeq(Held, gone + 1, Len(Held))
      <3> HIDE DEF gone, n
      <3>1. Cut(readPosition, n, gone + 1, n)
              = Window(readPosition + gone, n - gone)
        BY <1>0, <2>1, WindowPart
      <3>2. QED
        BY <1>0, <2>1, <3>1 DEF Cut
    <2>3. StaleFrames' = Queue!AtLeastZero(StaleFrames - gone)
      BY <1>7, <2>1
         DEF Publish, producerVars, StaleFrames, Larger, Queue!AtLeastZero, IInv, TypeOK
    <2>4. CASE call = "discard"
      <3>1. interleaved' = << >>
        BY <1>7, <2>4 DEF Publish, IInv, CallProtocol
      <3>2. Queue!Close(TRUE)
        BY <1>7, <2>2, <2>3, <3>1
           DEF Publish, producerVars, Queue!Close, Queue!DropFirst, Queue!NoCall, Stage,
               StaleFrames
      <3>3. QED
        BY <3>2
    <2>5. CASE call # "discard"
      <3>1. interleaved = Window(read, count)
        BY <1>7, <2>5, InterleavedIsWindow DEF Publish, IInv, CallProtocol
      <3>2. SubSeq(Held, (read - readPosition) + 1, gone) = Window(read, count)
        <4> DEFINE from == read - readPosition
        <4>1. from \in Nat /\ from <= gone /\ gone - from = count /\ readPosition + from = read
          BY <2>1 DEF IInv, TypeOK
        <4>2. Cut(readPosition, n, from + 1, gone)
                = Window(readPosition + from, gone - from)
          <5> HIDE DEF from, gone, n
          <5>1. QED
            BY <1>0, <2>1, <4>1, WindowPart
        <4>3. QED
          BY <1>0, <4>1, <4>2 DEF Cut
      <3>3. Queue!Close(FALSE)
        BY <1>7, <2>2, <2>3, <3>1, <3>2
           DEF Publish, producerVars, Queue!Close, Queue!DropFirst, Queue!NoCall, Stage,
               StaleFrames
      <3>4. QED
        BY <3>3
    <2>6. QED
      BY <2>4, <2>5
  <1>8. QED
    BY <1>1, <1>2, <1>3, <1>4, <1>5, <1>6, <1>7 DEF Consumer

\* The lock-free ring is a bounded queue with a deferred flush, for every capacity:
\* each step of the ring is a step of FrameQueue or leaves the queue as it is.
THEOREM Refinement == Spec => ImplementsFrameQueue
  <1>1. IInv /\ IInv' /\ [Next]_vars => [Queue!Next]_Queue!vars
    <2> SUFFICES ASSUME IInv, IInv', [Next]_vars PROVE [Queue!Next]_Queue!vars
      OBVIOUS
    <2>1. MappedUnchanged => UNCHANGED Queue!vars
      BY DEF MappedUnchanged, StaleFrames, OpenCall, LastDelivered, Queue!vars
    <2>2. CASE Producer
      BY <2>1, <2>2, ProducerRefines DEF Queue!Next
    <2>3. CASE Consumer
      BY <2>1, <2>3, ConsumerRefines DEF Queue!Next
    <2>4. CASE UNCHANGED vars
      BY <2>4 DEF vars, Queue!vars, Held, Stage
    <2>5. QED
      BY <2>2, <2>3, <2>4 DEF Next
  <1>2. QED
    BY <1>1, InitRefines, Invariant, PTL DEF Spec, Queue!Spec, ImplementsFrameQueue
=============================================================================
