----------------------------- MODULE QueueProofs -----------------------------
(***************************************************************************)
(* Theorems of two modules that have no name in common: of BlockingQueue,  *)
(* the queue that the threads share, and of Visuals, where samples go      *)
(* through such queues to the canvases.                                    *)
(*                                                                         *)
(* No wakeup of ThreadBlockingQueue is lost, for any set of producers and  *)
(* consumers and any maximum.  TypeOK /\ NoLostWakeup is inductive: a step *)
(* that ends a condition someone may sleep on (full, empty) wakes all of   *)
(* that side, and a thread falls asleep only in a step that tested it.     *)
(*                                                                         *)
(* No frame of the spectrum joins the two sides of a gap, no line of the   *)
(* waterfall leaves samples out, and no buffer is used again while someone *)
(* has it, for any sizes of blocks, frames, rings, pools and queues.  What *)
(* waits, what is collected and what was told of gaps are kept in one      *)
(* order; the ring of the distributor holds the last samples it took.      *)
(***************************************************************************)
EXTENDS BlockingQueue, Visuals, SequenceTheorems, FiniteSetTheorems, WellFoundedInduction, TLAPS

-----------------------------------------------------------------------------
(* BlockingQueue.                                                          *)

QueueInv == TypeOK /\ NoLostWakeup

LEMMA NotifyTyped ==
    ASSUME NEW pcs \in [Threads -> States], NEW S
    PROVE  NotifyAll(pcs, S) \in [Threads -> States]
  BY DEF NotifyAll, States

\* notify_all leaves no thread of S waiting, and moves no other.
LEMMA NotifyWakes ==
    ASSUME NEW pcs \in [Threads -> States], NEW S, NEW t \in Threads
    PROVE  /\ t \in S => NotifyAll(pcs, S)[t] # "waiting"
           /\ NotifyAll(pcs, S)[t] = "waiting" => pcs[t] = "waiting"
  BY DEF NotifyAll, States

\* A side that sleeps on a condition which a step does not end keeps its reason.
LEMMA SleepersKeepTheirReason ==
    ASSUME QueueInv, UNCHANGED <<size, max>>, NEW t \in Threads, NEW state \in States,
           Goto(t, state),
           state = "waiting" => (t \in Producers => Full) /\ (t \in Consumers => Empty)
    PROVE  NoLostWakeup'
  BY DEF QueueInv, TypeOK, NoLostWakeup, Goto, Full, Empty, Threads, States

LEMMA GotoTyped ==
    ASSUME TypeOK, NEW t \in Threads, NEW state \in States, Goto(t, state)
    PROVE  thread' \in [Threads -> States]
  BY DEF TypeOK, Goto

LEMMA InitEstablishes == Init => QueueInv
  <1>. SUFFICES ASSUME Init PROVE QueueInv
    OBVIOUS
  <1>1. thread \in [Threads -> States] /\ \A t \in Threads : thread[t] # "waiting"
    BY DEF Init, States
  <1>2. max \in 1 .. MaxItems /\ size \in 0 .. max
    BY QueueAssumption DEF Init
  <1>3. timed \subseteq Threads /\ stopping \in BOOLEAN /\ terminator = "idle"
    BY DEF Init
  <1>. QED
    BY <1>1, <1>2, <1>3 DEF QueueInv, TypeOK, NoLostWakeup, Threads

\* The steps of a producer.
LEMMA ProducerStep ==
    ASSUME QueueInv, NEW p \in Producers, Producing(p)
    PROVE  QueueInv'
  <1>0. p \in Threads /\ p \notin Consumers
    BY QueueAssumption DEF Threads
  <1>1. CASE ProducerLoop(p)
    <2>1. UNCHANGED <<size, max, stopping, terminator>> /\ timed' \subseteq Threads
      BY <1>0, <1>1 DEF ProducerLoop, QueueInv, TypeOK
    <2>2. PICK state \in {"done", "call"} : Goto(p, state)
      BY <1>1 DEF ProducerLoop
    <2>3. thread' \in [Threads -> States]
      BY <1>0, <2>2, GotoTyped DEF QueueInv, States
    <2>4. NoLostWakeup'
      BY <1>0, <2>1, <2>2, SleepersKeepTheirReason DEF States
    <2>. QED
      BY <2>1, <2>3, <2>4 DEF QueueInv, TypeOK
  <1>2. CASE Push(p)
    <2>. DEFINE pcs == [thread EXCEPT ![p] = "loop"]
    <2>1. /\ pcs \in [Threads -> States]
          /\ thread' = NotifyAll(pcs, Consumers)
          /\ size' = size + 1 /\ ~Full
          /\ UNCHANGED <<max, timed, stopping, terminator>>
      BY <1>0, <1>2 DEF Push, QueueInv, TypeOK, States
    <2>2. size' \in 0 .. max' /\ max' \in 1 .. MaxItems
      BY <2>1, QueueAssumption DEF QueueInv, TypeOK, Full
    <2>3. thread' \in [Threads -> States]
      BY <2>1, NotifyTyped
    <2>4. TypeOK'
      BY <2>1, <2>2, <2>3 DEF QueueInv, TypeOK
    <2>5. ASSUME NEW q \in Producers PROVE thread'[q] # "waiting"
      <3>1. q \in Threads
        BY DEF Threads
      <3>2. pcs[q] # "waiting"
        BY <3>1, <2>1 DEF QueueInv, TypeOK, NoLostWakeup
      <3>. QED
        BY <2>1, <3>1, <3>2, NotifyWakes
    <2>6. ASSUME NEW c \in Consumers PROVE thread'[c] # "waiting"
      BY <2>1, NotifyWakes DEF Threads
    <2>. QED
      BY <2>4, <2>5, <2>6 DEF QueueInv, NoLostWakeup
  <1>3. CASE WaitForRoom(p)
    <2>1. UNCHANGED <<size, max, timed, stopping, terminator>> /\ Goto(p, "waiting") /\ Full
      BY <1>3 DEF WaitForRoom
    <2>2. thread' \in [Threads -> States]
      BY <1>0, <2>1, GotoTyped DEF QueueInv, States
    <2>3. NoLostWakeup'
      BY <1>0, <2>1, SleepersKeepTheirReason DEF States
    <2>. QED
      BY <2>1, <2>2, <2>3 DEF QueueInv, TypeOK
  <1>4. CASE PushFails(p)
    <2>1. UNCHANGED <<size, max, timed, stopping, terminator>> /\ Goto(p, "loop")
      BY <1>4 DEF PushFails
    <2>2. thread' \in [Threads -> States]
      BY <1>0, <2>1, GotoTyped DEF QueueInv, States
    <2>3. NoLostWakeup'
      BY <1>0, <2>1, SleepersKeepTheirReason DEF States
    <2>. QED
      BY <2>1, <2>2, <2>3 DEF QueueInv, TypeOK
  <1>. QED
    BY <1>1, <1>2, <1>3, <1>4 DEF Producing

\* A step that leaves every producer awake and consumers as they were.
LEMMA MakingRoomIsSafe ==
    ASSUME QueueInv, NEW pcs \in [Threads -> States],
           \A t \in Threads : pcs[t] = "waiting" => thread[t] = "waiting",
           thread' = NotifyAll(pcs, Producers),
           max' \in 1 .. MaxItems, size' \in 0 .. max', size' <= size,
           UNCHANGED <<timed, stopping, terminator>>
    PROVE  QueueInv'
  <1>1. TypeOK'
    BY NotifyTyped DEF QueueInv, TypeOK
  <1>2. ASSUME NEW p \in Producers PROVE thread'[p] # "waiting"
    BY NotifyWakes DEF Threads
  <1>3. ASSUME NEW c \in Consumers, thread'[c] = "waiting" PROVE size' = 0
    <2>1. thread[c] = "waiting"
      BY <1>3, NotifyWakes DEF Threads
    <2>. QED
      BY <2>1 DEF QueueInv, TypeOK, NoLostWakeup, Empty
  <1>. QED
    BY <1>1, <1>2, <1>3 DEF QueueInv, NoLostWakeup, Empty

\* The steps of a consumer.
LEMMA ConsumerStep ==
    ASSUME QueueInv, NEW c \in Consumers, Consuming(c)
    PROVE  QueueInv'
  <1>0. c \in Threads /\ c \notin Producers
    BY QueueAssumption DEF Threads
  <1>1. CASE ConsumerLoop(c)
    <2>1. /\ UNCHANGED <<size, max, stopping, terminator>> /\ timed' \subseteq Threads
          /\ Goto(c, "call")
      BY <1>0, <1>1 DEF ConsumerLoop, QueueInv, TypeOK
    <2>2. thread' \in [Threads -> States]
      BY <1>0, <2>1, GotoTyped DEF QueueInv, States
    <2>3. NoLostWakeup'
      BY <1>0, <2>1, SleepersKeepTheirReason DEF States
    <2>. QED
      BY <2>1, <2>2, <2>3 DEF QueueInv, TypeOK
  <1>2. CASE Leave(c)
    <2>. DEFINE pcs == [thread EXCEPT ![c] = "done"]
    <2>1. /\ pcs \in [Threads -> States]
          /\ thread' = NotifyAll(pcs, Producers)
          /\ \A t \in Threads : pcs[t] = "waiting" => thread[t] = "waiting"
          /\ size' = 0
          /\ UNCHANGED <<max, timed, stopping, terminator>>
      BY <1>0, <1>2 DEF Leave, QueueInv, TypeOK, States
    <2>2. max' \in 1 .. MaxItems /\ size' \in 0 .. max' /\ size' <= size
      BY <2>1 DEF QueueInv, TypeOK
    <2>. QED
      BY <2>1, <2>2, MakingRoomIsSafe
  <1>3. CASE Pop(c)
    <2>. DEFINE pcs == [thread EXCEPT ![c] = "loop"]
    <2>1. /\ pcs \in [Threads -> States]
          /\ thread' = NotifyAll(pcs, Producers)
          /\ \A t \in Threads : pcs[t] = "waiting" => thread[t] = "waiting"
          /\ size' = size - 1 /\ size # 0
          /\ UNCHANGED <<max, timed, stopping, terminator>>
      BY <1>0, <1>3 DEF Pop, QueueInv, TypeOK, States, Empty
    <2>2. max' \in 1 .. MaxItems /\ size' \in 0 .. max' /\ size' <= size
      BY <2>1 DEF QueueInv, TypeOK
    <2>. QED
      BY <2>1, <2>2, MakingRoomIsSafe
  <1>4. CASE WaitForItem(c)
    <2>1. UNCHANGED <<size, max, timed, stopping, terminator>> /\ Goto(c, "waiting") /\ Empty
      BY <1>4 DEF WaitForItem
    <2>2. thread' \in [Threads -> States]
      BY <1>0, <2>1, GotoTyped DEF QueueInv, States
    <2>3. NoLostWakeup'
      BY <1>0, <2>1, SleepersKeepTheirReason DEF States
    <2>. QED
      BY <2>1, <2>2, <2>3 DEF QueueInv, TypeOK
  <1>5. CASE PopFails(c)
    <2>1. UNCHANGED <<size, max, timed, stopping, terminator>> /\ Goto(c, "loop")
      BY <1>5 DEF PopFails
    <2>2. thread' \in [Threads -> States]
      BY <1>0, <2>1, GotoTyped DEF QueueInv, States
    <2>3. NoLostWakeup'
      BY <1>0, <2>1, SleepersKeepTheirReason DEF States
    <2>. QED
      BY <2>1, <2>2, <2>3 DEF QueueInv, TypeOK
  <1>. QED
    BY <1>1, <1>2, <1>3, <1>4, <1>5 DEF Consuming

LEMMA StepPreserves == QueueInv /\ [Next]_vars => QueueInv'
  <1>. SUFFICES ASSUME QueueInv, [Next]_vars PROVE QueueInv'
    OBVIOUS
  <1>0. thread \in [Threads -> States]
    BY DEF QueueInv, TypeOK
  <1>1. CASE \E p \in Producers : Producing(p)
    BY <1>1, ProducerStep
  <1>2. CASE \E c \in Consumers : Consuming(c)
    BY <1>2, ConsumerStep
  <1>3. ASSUME NEW n \in 1 .. MaxItems, SetMax(n) PROVE QueueInv'
    <2>1. max' \in 1 .. MaxItems /\ size' \in 0 .. max' /\ size' <= size
      BY <1>3, QueueAssumption DEF SetMax, QueueInv, TypeOK
    <2>2. thread' = NotifyAll(thread, Producers) /\ UNCHANGED <<timed, stopping, terminator>>
      BY <1>3 DEF SetMax
    <2>. QED
      BY <1>0, <2>1, <2>2, MakingRoomIsSafe
  <1>4. CASE Terminate
    BY <1>4 DEF Terminate, QueueInv, TypeOK, NoLostWakeup, Full, Empty
  <1>5. CASE TerminateFlush
    \* terminator moves, so this is MakingRoomIsSafe with one variable more.
    <2>1. /\ size' = 0 /\ thread' = NotifyAll(thread, Producers) /\ terminator' = "done"
          /\ UNCHANGED <<max, timed, stopping>>
      BY <1>5 DEF TerminateFlush, Flush
    <2>2. TypeOK'
      BY <1>0, <2>1, NotifyTyped DEF QueueInv, TypeOK
    <2>3. ASSUME NEW p \in Producers PROVE thread'[p] # "waiting"
      BY <1>0, <2>1, NotifyWakes DEF Threads
    <2>. QED
      BY <2>1, <2>2, <2>3 DEF QueueInv, NoLostWakeup, Empty
  <1>6. CASE UNCHANGED vars
    BY <1>6 DEF vars, QueueInv, TypeOK, NoLostWakeup, Full, Empty
  <1>. QED
    BY <1>1, <1>2, <1>3, <1>4, <1>5, <1>6 DEF Next

\* In every reachable state whoever sleeps has a reason to, and the types hold.
THEOREM QueueInvariant == Spec => []QueueInv
  BY InitEstablishes, StepPreserves, PTL DEF Spec

\* The queue never holds more than its maximum, however it is raised.
THEOREM QueueTypeCorrect == Spec => []TypeOK
  <1>1. QueueInv => TypeOK
    BY DEF QueueInv
  <1>. QED
    BY <1>1, QueueInvariant, PTL

\* No wakeup is lost, for any number of threads on either side.
THEOREM WakeupsAreKept == Spec => []NoLostWakeup
  <1>1. QueueInv => NoLostWakeup
    BY DEF QueueInv
  <1>. QED
    BY <1>1, QueueInvariant, PTL
-----------------------------------------------------------------------------
(* Visuals: the invariant.                                                 *)

VisualSamples == [n : Nat, freq : VisualTunings \cup {0}]
VisualBlocks == [data : Seq(VisualSamples), discontinuity : BOOLEAN]
CanvasItems == [buffer : Nat \ {0}, given : Seq(VisualSamples)]
PoolEntries == [buffer : Nat \ {0}, age : Int]

Rising(s) == \A i, j \in 1 .. Len(s) : i < j => s[i].n < s[j].n
\* The samples of s are of one frequency, and of what A holds nothing is left out between them.
GaplessIn(s, A) ==
    /\ Rising(s)
    /\ \A i, j \in 1 .. Len(s) : s[i].freq = s[j].freq
    /\ \A i \in 1 .. Len(s) : s[i].n \in A
    /\ \A i \in 1 .. Len(s) - 1 : \A a \in A : ~(s[i].n < a /\ a < s[i + 1].n)

\* What the ring of the distributor holds, in order.
Stored(d) == [i \in 1 .. d.items |-> d.data[1 + ((d.read + i - 1) % d.max)]]
Distributors == [fftSize : Nat \ {0}, data : Seq(VisualSamples), max : Nat, read : Nat, write : Nat,
                 items : Nat, freq : VisualTunings \cup {0}]
IsRing(d) ==
    /\ d \in Distributors
    /\ Len(d.data) = d.max /\ d.items =< d.max
    /\ d.max > 0 => d.read < d.max /\ d.write = (d.read + d.items) % d.max

Processors == [step : {"idle", "setup", "pop"}, isView : BOOLEAN, zoomed : BOOLEAN,
               fftSize : FFTSizes, newFFTSize : FFTSizes \cup {0}, fftSizeChanged : BOOLEAN,
               desired : Nat, history : Seq(VisualSamples)]

VisualsTypes ==
    /\ way \in Ways
    /\ received \in [samples : Nat, blocks : Nat, freq : VisualTunings]
    /\ told \subseteq 1 .. received.samples /\ accepted \subseteq 1 .. received.samples
    /\ visualBlocks \in Seq(VisualBlocks) /\ fftQueue \in Seq(VisualBlocks)
    /\ IsRing(distributor)
    /\ visualLoop \in {"resize", "distribute", "process"}
    /\ way = "direct" => visualLoop = "process"
    /\ processor \in Processors
    /\ (processor.fftSizeChanged \/ processor.step = "setup") => processor.newFFTSize # 0
    /\ processor.step # "idle" => visualLoop = "process"
    /\ pool \in Seq(PoolEntries)
    /\ canvasQueues \in [DOMAIN CanvasMax[way] -> Seq(CanvasItems)]
    /\ drawn \in CanvasItems \cup {Nothing}

\* The blocks that wait: each is a stretch of samples at one frequency, one after the other, and
\* new to the distributor.
RiseBeyond(blocks, A, n) ==
    \A b \in 1 .. Len(blocks) :
        LET data == blocks[b].data
        IN /\ Len(data) > 0 /\ Rising(data)
           /\ \A i \in 1 .. Len(data) :
                 /\ data[i].n \in 1 .. n /\ data[i].freq = data[1].freq
                 /\ \A a \in A : a < data[i].n
                 /\ \A c \in b + 1 .. Len(blocks) :
                       \A j \in 1 .. Len(blocks[c].data) : data[i].n < blocks[c].data[j].n
BlocksRise == RiseBeyond(visualBlocks, accepted, received.samples)

\* The ring holds the last samples that were taken.
RingIsGapless ==
    /\ GaplessIn(Stored(distributor), accepted)
    /\ \A i \in 1 .. distributor.items : Stored(distributor)[i].freq = distributor.freq
    /\ distributor.items > 0 =>
          \A a \in accepted : a =< Stored(distributor)[distributor.items].n

LinesAreGapless ==
    \A k \in 1 .. Len(fftQueue) :
        /\ fftQueue[k].discontinuity = TRUE
        /\ GaplessIn(fftQueue[k].data, accepted)

\* Every gap that was told is before all that is collected or waits, or its block waits, marked.
GapIsAhead(g) ==
    /\ \A i \in 1 .. Len(processor.history) : processor.history[i].n < g
    /\ \E b \in 1 .. Len(visualBlocks) :
          visualBlocks[b].discontinuity /\ visualBlocks[b].data[1].n = g
GapIsPast(g) ==
    /\ \A i \in 1 .. Len(processor.history) : g =< processor.history[i].n
    /\ \A b \in 1 .. Len(visualBlocks) :
          \A i \in 1 .. Len(visualBlocks[b].data) : g =< visualBlocks[b].data[i].n

HistoryRises ==
    /\ Rising(processor.history)
    /\ Len(processor.history) =< Internal(processor.fftSize)
    /\ \A i \in 1 .. Len(processor.history) : processor.history[i].n =< received.samples
    /\ way = "direct" =>
          /\ \A i \in 1 .. Len(processor.history) : \A b \in 1 .. Len(visualBlocks) :
                \A j \in 1 .. Len(visualBlocks[b].data) :
                    processor.history[i].n < visualBlocks[b].data[j].n
          /\ \A g \in told : GapIsAhead(g) \/ GapIsPast(g)

\* The samples of s are of one frequency, and between two that follow each other at most one of A
\* is left out.
LineSample(s, A) ==
    /\ \A i, j \in 1 .. Len(s) : s[i].freq = s[j].freq
    /\ \A i \in 1 .. Len(s) : s[i].n \in A
    /\ \A i \in 1 .. Len(s) - 1 : \A a, b \in A :
          (s[i].n < a /\ a < s[i + 1].n /\ s[i].n < b /\ b < s[i + 1].n) => a = b

\* A frame for the canvases.
IsFrame(s) ==
    /\ Rising(s) /\ \A i \in 1 .. Len(s) : s[i].n =< received.samples
    /\ way = "direct" => \A g \in told : \/ \A i \in 1 .. Len(s) : s[i].n < g
                                         \/ \A i \in 1 .. Len(s) : g =< s[i].n
    /\ way = "lines" => LineSample(s, accepted)
BufferHolds(s) == s.buffer \in DOMAIN contents /\ contents[s.buffer] = s.given

CanvasesHold ==
    /\ DOMAIN contents = 1 .. Len(contents) /\ Len(contents) \in Nat
    /\ \A k \in DOMAIN canvasQueues :
          /\ \A i \in 1 .. Len(canvasQueues[k]) :
                IsFrame(canvasQueues[k][i].given) /\ BufferHolds(canvasQueues[k][i])
          /\ Len(canvasQueues[k]) =< CanvasMax[way][k]
          /\ processor.step # "idle" => Len(canvasQueues[k]) < CanvasMax[way][k]
    /\ drawn # Nothing => IsFrame(drawn.given) /\ BufferHolds(drawn)

VisualsInv ==
    VisualsTypes /\ BlocksRise /\ RingIsGapless /\ LinesAreGapless /\ HistoryRises /\ CanvasesHold

-----------------------------------------------------------------------------
(* Visuals: minima, samples in order.                                      *)

\* The lesser and the greater of two numbers.
LEMMA MinOfTwo ==
  ASSUME NEW a \in Int, NEW b \in Int
  PROVE  /\ Min({a, b}) = IF a =< b THEN a ELSE b
         /\ Max({a, b}) = IF a =< b THEN b ELSE a
<1>1. CASE a =< b
  <2>1. a \in {a, b} /\ (\A y \in {a, b} : a =< y) /\ b \in {a, b} /\ (\A y \in {a, b} : b >= y)
    BY <1>1
  <2> QED
    BY <1>1, <2>1 DEF Min, Max
<1>2. CASE ~(a =< b)
  <2>1. b \in {a, b} /\ (\A y \in {a, b} : b =< y) /\ a \in {a, b} /\ (\A y \in {a, b} : a >= y)
    BY <1>2
  <2> QED
    BY <1>2, <2>1 DEF Min, Max
<1> QED
  BY <1>1, <1>2

\* The last n samples.
LEMMA LastOfWorks ==
  ASSUME NEW S, NEW s \in Seq(S), NEW n \in 0 .. Len(s)
  PROVE  /\ LastOf(s, n) \in Seq(S) /\ Len(LastOf(s, n)) = n
         /\ \A i \in 1 .. n : LastOf(s, n)[i] = s[Len(s) - n + i]
<1>1. Len(s) \in Nat /\ \A i \in 1 .. Len(s) : s[i] \in S
  BY LenProperties, ElementOfSeq
<1>2. \A i \in Len(s) - n + 1 .. Len(s) : s[i] \in S
  BY <1>1
<1>3. /\ SubSeq(s, Len(s) - n + 1, Len(s)) \in Seq(S)
      /\ Len(SubSeq(s, Len(s) - n + 1, Len(s))) =
            IF Len(s) - n + 1 =< Len(s) THEN Len(s) - (Len(s) - n + 1) + 1 ELSE 0
      /\ \A i \in 1 .. Len(s) - (Len(s) - n + 1) + 1 :
            SubSeq(s, Len(s) - n + 1, Len(s))[i] = s[Len(s) - n + 1 + i - 1]
  BY <1>1, <1>2, SubSeqProperties
<1> QED
  BY <1>1, <1>3 DEF LastOf

\* The last samples of what rises rise.
LEMMA LastOfRises ==
  ASSUME NEW s \in Seq(VisualSamples), NEW n \in 0 .. Len(s), Rising(s)
  PROVE  Rising(LastOf(s, n))
<1>1. Len(s) \in Nat
  BY LenProperties
<1>2. /\ Len(LastOf(s, n)) = n
      /\ \A i \in 1 .. n : LastOf(s, n)[i] = s[Len(s) - n + i]
  BY LastOfWorks
<1> SUFFICES ASSUME NEW i \in 1 .. n, NEW j \in 1 .. n, i < j
             PROVE  LastOf(s, n)[i].n < LastOf(s, n)[j].n
  BY <1>2 DEF Rising
<1>3. Len(s) - n + i \in 1 .. Len(s) /\ Len(s) - n + j \in 1 .. Len(s)
      /\ Len(s) - n + i < Len(s) - n + j
  BY <1>1
<1>4. s[Len(s) - n + i].n < s[Len(s) - n + j].n
  BY <1>3 DEF Rising
<1> QED
  BY <1>2, <1>4

\* Two rising sequences, of which the second one begins after the first.
LEMMA JoinedRises ==
  ASSUME NEW s \in Seq(VisualSamples), NEW t \in Seq(VisualSamples), Rising(s), Rising(t),
         \A i \in 1 .. Len(s), j \in 1 .. Len(t) : s[i].n < t[j].n
  PROVE  Rising(s \o t)
<1>1. Len(s) \in Nat /\ Len(t) \in Nat
  BY LenProperties
<1>2. /\ Len(s \o t) = Len(s) + Len(t)
      /\ \A i \in 1 .. Len(s) + Len(t) :
            (s \o t)[i] = IF i =< Len(s) THEN s[i] ELSE t[i - Len(s)]
  BY ConcatProperties
<1> SUFFICES ASSUME NEW i \in 1 .. Len(s) + Len(t), NEW j \in 1 .. Len(s) + Len(t), i < j
             PROVE  (s \o t)[i].n < (s \o t)[j].n
  BY <1>2 DEF Rising
<1>3. CASE j =< Len(s)
  BY <1>1, <1>2, <1>3 DEF Rising
<1>4. CASE i =< Len(s) /\ ~(j =< Len(s))
  BY <1>1, <1>2, <1>4
<1>5. CASE ~(i =< Len(s))
  <2>1. i - Len(s) \in 1 .. Len(t) /\ j - Len(s) \in 1 .. Len(t) /\ i - Len(s) < j - Len(s)
    BY <1>1, <1>5
  <2>2. t[i - Len(s)].n < t[j - Len(s)].n
    BY <2>1 DEF Rising
  <2>3. (s \o t)[i] = t[i - Len(s)] /\ (s \o t)[j] = t[j - Len(s)]
    BY <1>1, <1>2, <1>5
  <2> QED
    BY <2>2, <2>3
<1> QED
  BY <1>1, <1>3, <1>4, <1>5

\* s is made of samples of the one or of the other.
MadeOf(s, one, other) ==
    \A k \in 1 .. Len(s) : \/ \E i \in 1 .. Len(one) : s[k] = one[i]
                           \/ \E j \in 1 .. Len(other) : s[k] = other[j]

\* What is kept of the history, and the samples behind it.
LEMMA JoinedWorks ==
  ASSUME NEW history, NEW part \in Seq(VisualSamples), NEW samples \in Seq(VisualSamples),
         Rising(part), Rising(samples),
         \A i \in 1 .. Len(part) : \E h \in 1 .. Len(history) : part[i] = history[h],
         \A i \in 1 .. Len(history), j \in 1 .. Len(samples) : history[i].n < samples[j].n
  PROVE  /\ part \o samples \in Seq(VisualSamples)
         /\ Len(part \o samples) = Len(part) + Len(samples)
         /\ Rising(part \o samples) /\ MadeOf(part \o samples, history, samples)
<1>1. Len(part) \in Nat /\ Len(samples) \in Nat
  BY LenProperties
<1>2. /\ part \o samples \in Seq(VisualSamples)
      /\ Len(part \o samples) = Len(part) + Len(samples)
      /\ \A i \in 1 .. Len(part) + Len(samples) :
            (part \o samples)[i] = IF i =< Len(part) THEN part[i] ELSE samples[i - Len(part)]
  BY ConcatProperties
<1>3. \A i \in 1 .. Len(part), j \in 1 .. Len(samples) : part[i].n < samples[j].n
  OBVIOUS
<1>4. Rising(part \o samples)
  BY <1>3, JoinedRises
<1>5. ASSUME NEW k \in 1 .. Len(part) + Len(samples)
      PROVE  \/ \E i \in 1 .. Len(history) : (part \o samples)[k] = history[i]
             \/ \E j \in 1 .. Len(samples) : (part \o samples)[k] = samples[j]
  <2>1. CASE k =< Len(part)
    <3>1. k \in 1 .. Len(part) /\ (part \o samples)[k] = part[k]
      BY <1>1, <1>2, <2>1
    <3> QED
      BY <3>1
  <2>2. CASE ~(k =< Len(part))
    <3>1. k - Len(part) \in 1 .. Len(samples) /\ (part \o samples)[k] = samples[k - Len(part)]
      BY <1>1, <1>2, <2>2
    <3> QED
      BY <3>1
  <2> QED
    BY <2>1, <2>2
<1> QED
  BY <1>2, <1>4, <1>5 DEF MadeOf

\* A frame is made of what was collected and of what comes in, in that order.
LEMMA AppendSamplesWorks ==
  ASSUME NEW history \in Seq(VisualSamples), NEW samples \in Seq(VisualSamples),
         NEW width \in Nat \ {0}, Len(history) =< width, Rising(history), Rising(samples),
         \A i \in 1 .. Len(history), j \in 1 .. Len(samples) : history[i].n < samples[j].n
  PROVE  /\ AppendSamples(history, samples, width) \in Seq(VisualSamples)
         /\ Len(AppendSamples(history, samples, width)) =< width
         /\ Rising(AppendSamples(history, samples, width))
         /\ MadeOf(AppendSamples(history, samples, width), history, samples)
<1> DEFINE f == AppendSamples(history, samples, width)
<1>1. Len(history) \in Nat /\ Len(samples) \in Nat
  BY LenProperties
<1>2. CASE Len(samples) >= width
  <2>1. width \in 0 .. Len(samples) /\ f = LastOf(samples, width)
    BY <1>1, <1>2 DEF AppendSamples
  <2>2. /\ f \in Seq(VisualSamples) /\ Len(f) = width
        /\ \A i \in 1 .. width : f[i] = samples[Len(samples) - width + i]
        /\ Rising(f)
    BY <2>1, LastOfWorks, LastOfRises
  <2> HIDE DEF f
  <2>3. ASSUME NEW k \in 1 .. Len(f) PROVE \E j \in 1 .. Len(samples) : f[k] = samples[j]
    <3>1. Len(samples) - width + k \in 1 .. Len(samples) /\ f[k] = samples[Len(samples) - width + k]
      BY <1>1, <2>1, <2>2
    <3> QED
      BY <3>1
  <2> QED
    BY <2>2, <2>3 DEF MadeOf, f
<1>3. CASE ~(Len(samples) >= width) /\ Len(history) + Len(samples) < width
  <2>1. f = history \o samples
    BY <1>1, <1>3 DEF AppendSamples
  <2>2. \A i \in 1 .. Len(history) : \E h \in 1 .. Len(history) : history[i] = history[h]
    OBVIOUS
  <2>3. /\ history \o samples \in Seq(VisualSamples)
        /\ Len(history \o samples) = Len(history) + Len(samples)
        /\ Rising(history \o samples) /\ MadeOf(history \o samples, history, samples)
    BY <2>2, JoinedWorks
  <2> QED
    BY <1>1, <1>3, <2>1, <2>3
<1>4. CASE ~(Len(samples) >= width) /\ ~(Len(history) + Len(samples) < width)
  <2> DEFINE n == width - Len(samples)
             part == LastOf(history, n)
  <2>1. n \in 0 .. Len(history) /\ f = part \o samples
    BY <1>1, <1>4 DEF AppendSamples
  <2>2. /\ part \in Seq(VisualSamples) /\ Len(part) = n
        /\ \A i \in 1 .. n : part[i] = history[Len(history) - n + i]
        /\ Rising(part)
    BY <2>1, LastOfWorks, LastOfRises
  <2>3. n + Len(samples) = width
    BY <1>1
  <2> HIDE DEF part, n
  <2>4. ASSUME NEW i \in 1 .. Len(part) PROVE \E h \in 1 .. Len(history) : part[i] = history[h]
    <3>1. Len(history) - n + i \in 1 .. Len(history) /\ part[i] = history[Len(history) - n + i]
      BY <1>1, <2>1, <2>2
    <3> QED
      BY <3>1
  <2>5. /\ part \o samples \in Seq(VisualSamples)
        /\ Len(part \o samples) = Len(part) + Len(samples)
        /\ Rising(part \o samples) /\ MadeOf(part \o samples, history, samples)
    BY <2>2, <2>4, JoinedWorks
  <2> QED
    BY <1>1, <2>1, <2>2, <2>5, <2>3
<1> QED
  BY <1>2, <1>3, <1>4

\* What a view shows of a block is some of its samples, in order.
LEMMA ViewedWorks ==
  ASSUME NEW p \in Processors, NEW data \in Seq(VisualSamples), Rising(data),
         FFTSizes \subseteq Nat \ {0}
  PROVE  /\ Viewed(p, data) \in Seq(VisualSamples) /\ Rising(Viewed(p, data))
         /\ \A k \in 1 .. Len(Viewed(p, data)) :
               \E j \in 1 .. Len(data) : Viewed(p, data)[k] = data[j]
<1> DEFINE n == Min({Len(data), Desired(p)})
           taken == SubSeq(data, 1, n)
           IsPart(v) == /\ v \in Seq(VisualSamples) /\ Rising(v)
                        /\ \A k \in 1 .. Len(v) : \E j \in 1 .. Len(data) : v[k] = data[j]
<1>1. Len(data) \in Nat /\ \A i \in 1 .. Len(data) : data[i] \in VisualSamples
  BY LenProperties, ElementOfSeq
<1>2. Desired(p) \in Nat
  <2>1. p.fftSize \in Nat
    BY DEF Processors
  <2> QED
    BY <2>1 DEF Desired, Internal
<1>3. n \in 0 .. Len(data)
  BY <1>1, <1>2, MinOfTwo
<1>4. /\ taken \in Seq(VisualSamples) /\ Len(taken) = n
      /\ \A i \in 1 .. n : taken[i] = data[i]
  <2>1. \A i \in 1 .. n : data[i] \in VisualSamples
    BY <1>1, <1>3
  <2> HIDE DEF n
  <2>2. /\ taken \in Seq(VisualSamples)
        /\ Len(taken) = IF 1 =< n THEN n - 1 + 1 ELSE 0
        /\ \A i \in 1 .. n - 1 + 1 : taken[i] = data[1 + i - 1]
    BY <1>3, <2>1, SubSeqProperties
  <2> QED
    BY <1>1, <1>3, <2>2
<1>5. IsPart(data)
  OBVIOUS
<1> HIDE DEF n, taken
<1>6. IsPart(taken)
  BY <1>1, <1>3, <1>4 DEF Rising
<1>7. IsPart(EverySecond(taken))
  <2> DEFINE m == (Len(taken) + 1) \div 2
  <2>1. m \in Nat /\ \A k \in 1 .. m : 2 * k - 1 \in 1 .. n
    BY <1>1, <1>3, <1>4
  <2>2. EverySecond(taken) = [k \in 1 .. m |-> taken[(2 * k) - 1]]
    BY DEF EverySecond
  <2> HIDE DEF m
  <2>3. \A k \in 1 .. m : /\ taken[(2 * k) - 1] \in VisualSamples
                          /\ taken[(2 * k) - 1] = data[(2 * k) - 1]
                          /\ (2 * k) - 1 \in 1 .. Len(data)
    BY <1>1, <1>3, <1>4, <2>1
  <2>4. /\ EverySecond(taken) \in Seq(VisualSamples) /\ Len(EverySecond(taken)) = m
        /\ \A k \in 1 .. m : EverySecond(taken)[k] = data[(2 * k) - 1]
    BY <2>1, <2>2, <2>3
  <2>5. ASSUME NEW i \in 1 .. m, NEW j \in 1 .. m, i < j
        PROVE  EverySecond(taken)[i].n < EverySecond(taken)[j].n
    <3>1. (2 * i) - 1 < (2 * j) - 1
      BY <2>1, <2>5
    <3>2. data[(2 * i) - 1].n < data[(2 * j) - 1].n
      BY <2>3, <3>1 DEF Rising
    <3> QED
      BY <2>4, <3>2
  <2>6. Rising(EverySecond(taken))
    BY <2>4, <2>5 DEF Rising
  <2> QED
    BY <2>3, <2>4, <2>6
<1> QED
  BY <1>5, <1>6, <1>7 DEF Viewed, taken, n

\* The last samples of a stretch, of which one is left out at a time.
LEMMA LastOfLine ==
  ASSUME NEW s \in Seq(VisualSamples), NEW A, LineSample(s, A), NEW n \in 0 .. Len(s)
  PROVE  LineSample(LastOf(s, n), A)
<1> DEFINE o == Len(s) - n
           t == LastOf(s, n)
<1>1. Len(s) \in Nat /\ o \in Nat /\ n \in Nat /\ o + n = Len(s)
  BY LenProperties
<1>2. Len(t) = n /\ \A i \in 1 .. n : t[i] = s[o + i]
  BY LastOfWorks
<1> HIDE DEF o, t
<1>3. \A i \in 1 .. n : o + i \in 1 .. Len(s)
  BY <1>1
<1>4. /\ \A i, j \in 1 .. n : t[i].freq = t[j].freq
      /\ \A i \in 1 .. n : t[i].n \in A
  BY <1>2, <1>3 DEF LineSample
<1>5. ASSUME NEW i \in 1 .. n - 1, NEW a \in A, NEW b \in A,
             t[i].n < a, a < t[i + 1].n, t[i].n < b, b < t[i + 1].n
      PROVE  a = b
  <2>1. o + i \in 1 .. Len(s) - 1 /\ (o + i) + 1 = o + (i + 1) /\ i \in 1 .. n /\ i + 1 \in 1 .. n
    BY <1>1
  <2>2. t[i] = s[o + i] /\ t[i + 1] = s[(o + i) + 1]
    BY <1>2, <2>1
  <2> QED
    BY <1>5, <2>1, <2>2 DEF LineSample
<1> QED
  BY <1>2, <1>4, <1>5 DEF LineSample, t

\* What a view shows of a stretch without gaps leaves out one sample at a time.
LEMMA ViewedOfLine ==
  ASSUME NEW p \in Processors, NEW data \in Seq(VisualSamples), NEW A \in SUBSET Nat,
         GaplessIn(data, A), FFTSizes \subseteq Nat \ {0}
  PROVE  LineSample(Viewed(p, data), A)
<1> DEFINE n == Min({Len(data), Desired(p)})
           taken == SubSeq(data, 1, n)
<1>1. Len(data) \in Nat /\ \A i \in 1 .. Len(data) : data[i] \in VisualSamples
  BY LenProperties, ElementOfSeq
<1>2. Desired(p) \in Nat
  <2>1. p.fftSize \in Nat
    BY DEF Processors
  <2> QED
    BY <2>1 DEF Desired, Internal
<1>3. n \in 0 .. Len(data)
  BY <1>1, <1>2, MinOfTwo
<1>4. Len(taken) = n /\ \A i \in 1 .. n : taken[i] = data[i]
  <2>1. \A i \in 1 .. n : data[i] \in VisualSamples
    BY <1>1, <1>3
  <2> HIDE DEF n
  <2>2. /\ Len(taken) = IF 1 =< n THEN n - 1 + 1 ELSE 0
        /\ \A i \in 1 .. n - 1 + 1 : taken[i] = data[1 + i - 1]
    BY <1>3, <2>1, SubSeqProperties
  <2> QED
    BY <1>1, <1>3, <2>2
<1> HIDE DEF n, taken
<1>5. /\ \A i, j \in 1 .. Len(data) : data[i].freq = data[j].freq
      /\ \A i \in 1 .. Len(data) : data[i].n \in A
      /\ \A i \in 1 .. Len(data) - 1 : \A a \in A : ~(data[i].n < a /\ a < data[i + 1].n)
  BY DEF GaplessIn
<1>6. LineSample(data, A)
  BY <1>5 DEF LineSample
<1>7. LineSample(taken, A)
  <2>1. \A i \in 1 .. n : i \in 1 .. Len(data)
    BY <1>1, <1>3
  <2>2. ASSUME NEW i \in 1 .. n - 1
        PROVE  i \in 1 .. Len(data) - 1 /\ taken[i] = data[i] /\ taken[i + 1] = data[i + 1]
    <3>1. i \in 1 .. n /\ i + 1 \in 1 .. n /\ i \in 1 .. Len(data) - 1
      BY <1>1, <1>3
    <3> QED
      BY <1>4, <3>1
  <2>3. \A i \in 1 .. n - 1 : \A a \in A : ~(taken[i].n < a /\ a < taken[i + 1].n)
    BY <1>5, <2>2
  <2> QED
    BY <1>4, <1>5, <2>1, <2>3 DEF LineSample
<1>8. LineSample(EverySecond(taken), A)
  <2> DEFINE m == (Len(taken) + 1) \div 2
             t == EverySecond(taken)
  <2>1. m \in Nat /\ \A k \in 1 .. m : 2 * k - 1 \in 1 .. n
    BY <1>1, <1>3, <1>4
  <2>2. t = [k \in 1 .. m |-> taken[(2 * k) - 1]]
    BY DEF EverySecond
  <2> HIDE DEF m, t
  <2>3. Len(t) = m
    <3>1. \A k \in 1 .. m : taken[(2 * k) - 1] \in VisualSamples
      BY <1>1, <1>3, <1>4, <2>1
    <3>2. t \in [1 .. m -> VisualSamples]
      BY <2>2, <3>1
    <3> QED
      BY <2>1, <3>2, LenProperties, SeqDef
  <2>4. ASSUME NEW k \in 1 .. m
        PROVE  (2 * k) - 1 \in 1 .. Len(data) /\ t[k] = data[(2 * k) - 1]
    <3> DEFINE i == (2 * k) - 1
    <3>1. i \in 1 .. n
      BY <2>1
    <3>2. t[k] = taken[i]
      BY <2>2
    <3> HIDE DEF i
    <3>3. i \in 1 .. Len(data) /\ taken[i] = data[i]
      BY <1>1, <1>3, <1>4, <3>1
    <3>4. i \in 1 .. Len(data) /\ t[k] = data[i]
      BY <3>2, <3>3
    <3> QED
      BY <3>4 DEF i
  <2>5. (\A i, j \in 1 .. m : t[i].freq = t[j].freq) /\ (\A i \in 1 .. m : t[i].n \in A)
    <3>1. \A k \in 1 .. m : \E i \in 1 .. Len(data) : t[k] = data[i]
      BY <2>4
    <3> QED
      BY <1>5, <3>1
  <2>6. ASSUME NEW k \in 1 .. m - 1, NEW a \in A, t[k].n < a, a < t[k + 1].n
        PROVE  a = data[2 * k].n
    <3>1. k \in 1 .. m /\ k + 1 \in 1 .. m
      BY <2>1
    <3>2. (2 * k) - 1 \in 1 .. Len(data) /\ (2 * (k + 1)) - 1 \in 1 .. Len(data)
      BY <2>4, <3>1
    <3>3. PICK j : j = 2 * k
      OBVIOUS
    <3>4. j \in 1 .. Len(data) - 1 /\ j - 1 \in 1 .. Len(data) - 1 /\ (j - 1) + 1 = j
          /\ (2 * (k + 1)) - 1 = j + 1 /\ (2 * k) - 1 = j - 1 /\ j \in 1 .. Len(data)
      BY <1>1, <3>2, <3>3
    <3>5. t[k] = data[j - 1] /\ t[k + 1] = data[j + 1]
      BY <2>4, <3>1, <3>4
    <3>6. ~(data[j - 1].n < a /\ a < data[j].n) /\ ~(data[j].n < a /\ a < data[j + 1].n)
      BY <1>5, <3>4
    <3> DEFINE x == data[j].n
    <3>7. x \in Nat /\ a \in Nat /\ ~(a < x) /\ ~(x < a)
      BY <1>5, <2>6, <3>4, <3>5, <3>6
    <3> HIDE DEF x
    <3>8. a = x
      BY <3>7
    <3> QED
      BY <3>3, <3>8 DEF x
  <2>7. ASSUME NEW i \in 1 .. m - 1, NEW a \in A, NEW b \in A,
               t[i].n < a, a < t[i + 1].n, t[i].n < b, b < t[i + 1].n
        PROVE  a = b
    BY <2>6, <2>7
  <2> QED
    BY <2>3, <2>5, <2>7 DEF LineSample, t
<1> QED
  BY <1>6, <1>7, <1>8 DEF Viewed, taken, n
-----------------------------------------------------------------------------
(* Visuals: the distributor's ring.                                        *)

\* Division with remainder.
LEMMA Rest ==
  ASSUME NEW m \in Nat \ {0}, NEW a \in Int
  PROVE  a % m \in 0 .. m - 1 /\ a \div m \in Int /\ a = m * (a \div m) + (a % m)
  OBVIOUS

\* A multiple of m other than 0 is at least m away from 0.
LEMMA FarMultiple ==
  ASSUME NEW m \in Nat \ {0}, NEW k \in Int
  PROVE  m * k \in Int /\ (k >= 1 => m * k >= m) /\ (k =< -1 => m * k =< -m)
<1>1. CASE k >= 1
  BY <1>1
<1>2. CASE k = 0
  BY <1>2
<1>3. CASE k =< -1
  <2>1. m * (-k) >= m /\ m * (-k) = -(m * k)
    BY <1>3
  <2> QED
    BY <1>3, <2>1
<1> QED
  BY <1>1, <1>2, <1>3

\* A number has one remainder.
LEMMA RestIsUnique ==
  ASSUME NEW m \in Nat \ {0}, NEW k \in Int, NEW l \in Int, NEW r \in 0 .. m - 1,
         NEW s \in 0 .. m - 1, m * k + r = m * l + s
  PROVE  r = s
<1>1. m * (k - l) = m * k - m * l /\ m * k \in Int /\ m * l \in Int
  OBVIOUS
<1>2. m * (k - l) = s - r
  BY <1>1
<1>3. ~(k - l >= 1) /\ ~(k - l =< -1)
  BY <1>2, FarMultiple
<1> QED
  BY <1>2, <1>3

\* A position moved by so much, and the slot of it moved by so much.
LEMMA SlotMoves ==
  ASSUME NEW m \in Nat \ {0}, NEW a \in Int, NEW b \in Int
  PROVE  ((a % m) + b) % m = (a + b) % m
<1> DEFINE c == (a % m) + b
           e == a + b
<1>1. a % m \in 0 .. m - 1 /\ a \div m \in Int /\ a = m * (a \div m) + (a % m)
  BY Rest
<1>2. c \in Int /\ e \in Int
  BY <1>1
<1>3. e = m * (a \div m) + c
  BY <1>1
<1> HIDE DEF c, e
<1>4. c % m \in 0 .. m - 1 /\ c \div m \in Int /\ c = m * (c \div m) + (c % m)
  BY <1>2, Rest
<1>5. e % m \in 0 .. m - 1 /\ e \div m \in Int /\ e = m * (e \div m) + (e % m)
  BY <1>2, Rest
<1>6. \A p, q \in Int : m * (p + q) = m * p + m * q /\ m * p \in Int /\ m * q \in Int
  OBVIOUS
<1>7. m * ((a \div m) + (c \div m)) + (c % m) = m * (e \div m) + (e % m)
  <2>1. /\ m * ((a \div m) + (c \div m)) = m * (a \div m) + m * (c \div m)
        /\ m * (a \div m) \in Int /\ m * (c \div m) \in Int
    BY <1>1, <1>4, <1>6
  <2>2. m * (a \div m) + m * (c \div m) + (c % m) = e
    BY <1>4, <1>3, <2>1, <1>2
  <2> QED
    BY <1>5, <2>1, <2>2
<1>8. (a \div m) + (c \div m) \in Int
  BY <1>1, <1>4
<1>9. c % m = e % m
  BY <1>4, <1>5, <1>7, <1>8, RestIsUnique
<1> QED
  BY <1>9 DEF c, e

\* Positions less than a round apart are at different slots.
LEMMA SlotsApart ==
  ASSUME NEW m \in Nat \ {0}, NEW a \in Int, NEW b \in Int, a < b, b - a < m
  PROVE  a % m # b % m
<1>1. SUFFICES ASSUME a % m = b % m PROVE FALSE
  OBVIOUS
<1>2. /\ a % m \in 0 .. m - 1 /\ a \div m \in Int /\ a = m * (a \div m) + (a % m)
      /\ b % m \in 0 .. m - 1 /\ b \div m \in Int /\ b = m * (b \div m) + (b % m)
  BY Rest
<1>3. m * ((b \div m) - (a \div m)) = m * (b \div m) - m * (a \div m)
  BY <1>2
<1>4. m * (b \div m) \in Int /\ m * (a \div m) \in Int
  BY <1>2
<1>5. m * ((b \div m) - (a \div m)) = b - a
  BY <1>1, <1>2, <1>3, <1>4
<1>6. (b \div m) - (a \div m) \in Int
  BY <1>2
<1>7. ~((b \div m) - (a \div m) >= 1) /\ ~((b \div m) - (a \div m) =< -1)
  BY <1>5, <1>6, FarMultiple
<1> QED
  BY <1>5, <1>6, <1>7

\* A number below m is its own remainder.
LEMMA SmallRest ==
  ASSUME NEW m \in Nat \ {0}, NEW a \in 0 .. m - 1
  PROVE  a % m = a
<1>1. a % m \in 0 .. m - 1 /\ a \div m \in Int /\ a = m * (a \div m) + (a % m)
  BY Rest
<1>2. m * 0 + a = m * (a \div m) + (a % m)
  BY <1>1
<1> QED
  BY <1>1, <1>2, RestIsUnique

\* The ring is a function of its slots, and what is stored a sequence of samples.
LEMMA RingFacts ==
  ASSUME NEW d, IsRing(d)
  PROVE  /\ d.fftSize \in Nat \ {0} /\ d.max \in Nat /\ d.read \in Nat /\ d.write \in Nat
         /\ d.items \in 0 .. d.max /\ d.freq \in VisualTunings \cup {0}
         /\ d.data \in Seq(VisualSamples) /\ Len(d.data) = d.max
         /\ \A i \in 1 .. d.max : d.data[i] \in VisualSamples
         /\ d.max > 0 => d.read < d.max /\ d.write = (d.read + d.items) % d.max
<1>1. d \in Distributors
  BY DEF IsRing
<1>2. /\ d.fftSize \in Nat \ {0} /\ d.max \in Nat /\ d.read \in Nat /\ d.write \in Nat
      /\ d.items \in Nat /\ d.freq \in VisualTunings \cup {0} /\ d.data \in Seq(VisualSamples)
  BY <1>1 DEF Distributors
<1>3. /\ d.items \in 0 .. d.max /\ Len(d.data) = d.max
      /\ d.max > 0 => d.read < d.max /\ d.write = (d.read + d.items) % d.max
  BY <1>2 DEF IsRing
<1>4. \A i \in 1 .. d.max : d.data[i] \in VisualSamples
  BY <1>2, <1>3, ElementOfSeq
<1> QED
  BY <1>2, <1>3, <1>4

\* What the ring holds.
LEMMA StoredWorks ==
  ASSUME NEW d, IsRing(d)
  PROVE  /\ Stored(d) \in Seq(VisualSamples) /\ Len(Stored(d)) = d.items /\ d.items \in Nat
         /\ \A i \in 1 .. d.items : Stored(d)[i] = d.data[1 + ((d.read + i - 1) % d.max)]
<1>1. /\ d.max \in Nat /\ d.read \in Nat /\ d.items \in 0 .. d.max
      /\ \A i \in 1 .. d.max : d.data[i] \in VisualSamples
  BY RingFacts
<1>2. ASSUME NEW i \in 1 .. d.items
      PROVE  d.data[1 + ((d.read + i - 1) % d.max)] \in VisualSamples
  <2>1. d.max \in Nat \ {0} /\ d.read + i - 1 \in Int
    BY <1>1
  <2>2. (d.read + i - 1) % d.max \in 0 .. d.max - 1
    BY <2>1, Rest
  <2>3. 1 + ((d.read + i - 1) % d.max) \in 1 .. d.max
    BY <1>1, <2>2
  <2> QED
    BY <1>1, <2>3
<1> DEFINE s == Stored(d)
<1>3. s = [i \in 1 .. d.items |-> d.data[1 + ((d.read + i - 1) % d.max)]]
  BY DEF Stored
<1>4. s \in [1 .. d.items -> VisualSamples] /\ d.items \in Nat
  BY <1>1, <1>2, <1>3
<1>5. \A i \in 1 .. d.items : s[i] = d.data[1 + ((d.read + i - 1) % d.max)]
  BY <1>3
<1> HIDE DEF s
<1>6. s \in Seq(VisualSamples) /\ Len(s) = d.items
  BY <1>4
<1> QED
  BY <1>4, <1>5, <1>6 DEF s
-----------------------------------------------------------------------------
(* Visuals: what goes into the ring, and what comes out.                   *)

\* A ring of m slots with n samples written from the slot w on.
Written(old, samples, m, w, n) ==
    [i \in 1 .. m |-> IF \E k \in 1 .. n : 1 + ((w + k - 1) % m) = i
                      THEN samples[CHOOSE k \in 1 .. n : 1 + ((w + k - 1) % m) = i]
                      ELSE old[i]]

RingSlot(m, r, i) == 1 + ((r + i - 1) % m)

HoldsBehind(data, old, samples, m, r, c, n) ==
    /\ data \in [1 .. m -> VisualSamples]
    /\ \A i \in 1 .. c : data[RingSlot(m, r, i)] = old[RingSlot(m, r, i)]
    /\ \A k \in 1 .. n : data[RingSlot(m, r, c + k)] = samples[k]

\* n samples are written behind the c that are stored from position r on, and hit none of them.
LEMMA WrittenBehind ==
  ASSUME NEW m \in Nat \ {0}, NEW r \in Nat, NEW c \in 0 .. m, NEW n \in Nat, n =< m - c,
         NEW w \in Nat, w = (r + c) % m, NEW old \in [1 .. m -> VisualSamples], NEW samples,
         \A k \in 1 .. n : samples[k] \in VisualSamples
  PROVE  HoldsBehind(Written(old, samples, m, w, n), old, samples, m, r, c, n)
<1> DEFINE data == Written(old, samples, m, w, n)
           index(k) == 1 + ((w + k - 1) % m)
           slot(i) == 1 + ((r + i - 1) % m)
<1>1. \A i \in 1 .. c + n : slot(i) \in 1 .. m
  <2> SUFFICES ASSUME NEW i \in 1 .. c + n PROVE slot(i) \in 1 .. m
    OBVIOUS
  <2> DEFINE a == r + i - 1
  <2>1. a \in Int
    OBVIOUS
  <2> HIDE DEF a
  <2>2. a % m \in 0 .. m - 1
    BY <2>1, Rest
  <2> DEFINE b == a % m
  <2> HIDE DEF b
  <2>3. 1 + b \in 1 .. m
    BY <2>2 DEF b
  <2> QED
    BY <2>3 DEF b, a
<1>2. \A i, j \in 1 .. c + n : i < j => slot(i) # slot(j)
  <2> SUFFICES ASSUME NEW i \in 1 .. c + n, NEW j \in 1 .. c + n, i < j PROVE slot(i) # slot(j)
    OBVIOUS
  <2> DEFINE a == r + i - 1
             b == r + j - 1
  <2>1. a \in Int /\ b \in Int /\ a < b /\ b - a < m
    OBVIOUS
  <2> HIDE DEF a, b
  <2>2. a % m # b % m /\ a % m \in 0 .. m - 1 /\ b % m \in 0 .. m - 1
    BY <2>1, SlotsApart, Rest
  <2> DEFINE p == a % m
             q == b % m
  <2> HIDE DEF p, q
  <2>3. 1 + p # 1 + q
    BY <2>2 DEF p, q
  <2> QED
    BY <2>3 DEF p, q, a, b
<1>3. \A k \in 1 .. n : index(k) = slot(c + k)
  <2> SUFFICES ASSUME NEW k \in 1 .. n PROVE index(k) = slot(c + k)
    OBVIOUS
  <2> DEFINE a == r + c
             b == k - 1
  <2>1. a \in Int /\ b \in Int /\ r + (c + k) - 1 = a + b /\ w + k - 1 = w + b
    OBVIOUS
  <2>2. w = a % m
    OBVIOUS
  <2> HIDE DEF a, b
  <2>3. ((a % m) + b) % m = (a + b) % m
    BY <2>1, SlotMoves
  <2> QED
    BY <2>1, <2>2, <2>3
<1>4. data = [i \in 1 .. m |-> IF \E k \in 1 .. n : index(k) = i
                               THEN samples[CHOOSE k \in 1 .. n : index(k) = i] ELSE old[i]]
  BY DEF Written
<1>5. \A i \in 1 .. c : i \in 1 .. c + n /\ \A k \in 1 .. n : c + k \in 1 .. c + n /\ i < c + k
  OBVIOUS
<1>6. \A k, l \in 1 .. n : k # l => c + k < c + l \/ c + l < c + k
  OBVIOUS
<1> HIDE DEF index, slot, data
<1>7. data \in [1 .. m -> VisualSamples]
  <2>1. ASSUME NEW i \in 1 .. m, \E k \in 1 .. n : index(k) = i
        PROVE  samples[CHOOSE k \in 1 .. n : index(k) = i] \in VisualSamples
    <3>1. (CHOOSE k \in 1 .. n : index(k) = i) \in 1 .. n
      BY <2>1
    <3> QED
      BY <3>1
  <2> QED
    BY <1>4, <2>1
<1>8. ASSUME NEW i \in 1 .. c PROVE data[slot(i)] = old[slot(i)]
  <2>1. slot(i) \in 1 .. m /\ \A k \in 1 .. n : index(k) # slot(i)
    BY <1>1, <1>2, <1>3, <1>5
  <2> QED
    BY <1>4, <2>1
<1>9. ASSUME NEW k \in 1 .. n PROVE data[slot(c + k)] = samples[k]
  <2>1. c + k \in 1 .. c + n /\ \A l \in 1 .. n : c + l \in 1 .. c + n
    OBVIOUS
  <2>2. slot(c + k) \in 1 .. m /\ index(k) = slot(c + k)
    BY <1>1, <1>3, <2>1
  <2>3. \A l \in 1 .. n : index(l) = slot(c + k) => l = k
    BY <1>2, <1>3, <1>6, <2>1
  <2>4. (CHOOSE l \in 1 .. n : index(l) = slot(c + k)) = k
    BY <2>2, <2>3
  <2> QED
    BY <1>4, <2>2, <2>4
<1> QED
  BY <1>7, <1>8, <1>9 DEF HoldsBehind, slot, data, RingSlot

\* The positions behind the first c.
LEMMA Behind ==
  ASSUME NEW c \in Nat, NEW n \in Nat
  PROVE  /\ \A i \in 1 .. c : i \in 1 .. c + n
         /\ \A k \in 1 .. n : c + k \in 1 .. c + n
  OBVIOUS

\* What fits of the samples comes behind what is stored.
FitsBehind(d, samples, n, e) ==
    /\ n \in 0 .. Len(samples)
    /\ IsRing(e) /\ e.items = d.items + n
    /\ e.freq = d.freq /\ e.fftSize = d.fftSize /\ e.max = d.max
    /\ \A i \in 1 .. d.items : Stored(e)[i] = Stored(d)[i]
    /\ \A i \in 1 .. n : Stored(e)[d.items + i] = samples[i]

\* What fits comes behind what is stored.
LEMMA AppendedWorks ==
  ASSUME NEW d, IsRing(d), d.max > 0, NEW samples \in Seq(VisualSamples),
         NEW n, n = Min({Len(samples), d.max - d.items})
  PROVE  FitsBehind(d, samples, n, Appended(d, samples))
<1> DEFINE e == Appended(d, samples)
           slot(i) == 1 + ((d.read + i - 1) % d.max)
           data == Written(d.data, samples, d.max, d.write, n)
           written == (d.write + n) % d.max
<1>1. /\ d.fftSize \in Nat \ {0} /\ d.max \in Nat \ {0} /\ d.read \in Nat /\ d.write \in Nat
      /\ d.items \in 0 .. d.max /\ d.freq \in VisualTunings \cup {0}
      /\ d.data \in [1 .. d.max -> VisualSamples] /\ DOMAIN d.data = 1 .. d.max
      /\ d.read < d.max /\ d.write = (d.read + d.items) % d.max /\ d \in Distributors
  BY RingFacts, LenProperties DEF IsRing
<1>2. Len(samples) \in Nat /\ \A k \in 1 .. Len(samples) : samples[k] \in VisualSamples
  BY LenProperties, ElementOfSeq
<1>3. n \in 0 .. Len(samples) /\ n =< d.max - d.items
  <2>1. d.max - d.items \in Nat
    BY <1>1
  <2> QED
    BY <1>2, <2>1, MinOfTwo
<1>4. /\ d.max \in Nat \ {0} /\ d.read \in Nat /\ d.write \in Nat /\ d.items \in 0 .. d.max
      /\ n \in Nat /\ n =< d.max - d.items
  BY <1>1, <1>2, <1>3
<1>5. e = [d EXCEPT !.data = data, !.write = written, !.items = d.items + n]
  BY <1>1 DEF Appended, Written, Distributors
<1>6. /\ data \in [1 .. d.max -> VisualSamples]
      /\ \A i \in 1 .. d.items : data[slot(i)] = d.data[slot(i)]
      /\ \A k \in 1 .. n : data[1 + ((d.read + (d.items + k) - 1) % d.max)] = samples[k]
  <2>1. \A k \in 1 .. n : samples[k] \in VisualSamples
    BY <1>2, <1>3
  <2>2. /\ d.write = (d.read + d.items) % d.max
        /\ d.data \in [1 .. d.max -> VisualSamples]
    BY <1>1
  <2>3. HoldsBehind(data, d.data, samples, d.max, d.read, d.items, n)
    BY <1>4, <2>1, <2>2, WrittenBehind
  <2> QED
    BY <2>3 DEF HoldsBehind, RingSlot
<1>7. written = (d.read + (d.items + n)) % d.max /\ written \in 0 .. d.max - 1
  <2> DEFINE a == d.read + d.items
             b == d.write + n
  <2>1. a \in Int /\ b \in Int /\ n \in Int /\ a + n = d.read + (d.items + n)
    BY <1>4
  <2>2. d.write = a % d.max
    BY <1>1
  <2> HIDE DEF a
  <2>3. ((a % d.max) + n) % d.max = (a + n) % d.max
    BY <1>1, <2>1, SlotMoves
  <2> HIDE DEF b
  <2>4. b % d.max \in 0 .. d.max - 1
    BY <1>1, <2>1, Rest
  <2> QED
    BY <2>1, <2>2, <2>3, <2>4 DEF b
<1> HIDE DEF data, written
<1>8. data \in Seq(VisualSamples) /\ Len(data) = d.max
  BY <1>4, <1>6
<1>9. /\ e \in Distributors /\ e.data = data /\ e.max = d.max /\ e.read = d.read
      /\ e.items = d.items + n /\ e.write = written /\ e.freq = d.freq /\ e.fftSize = d.fftSize
  <2>1. written \in Nat /\ d.items + n \in Nat
    BY <1>1, <1>3, <1>7
  <2> HIDE DEF e
  <2> QED
    BY <1>1, <1>5, <1>8, <2>1 DEF Distributors
<1> HIDE DEF e
<1>10. IsRing(e)
  <2>1. e.items =< e.max /\ e.read < e.max /\ e.write = (e.read + e.items) % e.max
    BY <1>1, <1>3, <1>7, <1>9
  <2> QED
    BY <1>8, <1>9, <2>1 DEF IsRing
<1>11. \A i \in 1 .. d.items + n : Stored(e)[i] = data[slot(i)]
  BY <1>9, <1>10, StoredWorks
<1>12. \A i \in 1 .. d.items : Stored(d)[i] = d.data[slot(i)]
  BY StoredWorks
<1>13. \A k \in 1 .. n : data[slot(d.items + k)] = samples[k]
  BY <1>6
<1>14. /\ \A i \in 1 .. d.items : i \in 1 .. d.items + n
       /\ \A k \in 1 .. n : d.items + k \in 1 .. d.items + n
  <2>1. d.items \in Nat /\ n \in Nat
    BY <1>4
  <2> QED
    BY <2>1, Behind
<1> HIDE DEF slot
<1>15. \A i \in 1 .. d.items : Stored(e)[i] = Stored(d)[i]
  BY <1>6, <1>11, <1>12, <1>14
<1>16. \A k \in 1 .. n : Stored(e)[d.items + k] = samples[k]
  BY <1>11, <1>13, <1>14
<1> QED
  <2>1. FitsBehind(d, samples, n, e)
    BY <1>3, <1>9, <1>10, <1>15, <1>16 DEF FitsBehind
  <2> QED
    BY <2>1 DEF e

\* What is taken out of the ring was in front.
LEMMA ConsumedWorks ==
  ASSUME NEW d, IsRing(d), d.max > 0, NEW n \in 0 .. d.items
  PROVE  /\ IsRing(Consumed(d, n)) /\ Consumed(d, n).items = d.items - n
         /\ Consumed(d, n).freq = d.freq /\ Consumed(d, n).fftSize = d.fftSize
         /\ Consumed(d, n).max = d.max
         /\ \A i \in 1 .. d.items - n : Stored(Consumed(d, n))[i] = Stored(d)[n + i]
<1> DEFINE e == Consumed(d, n)
           first == IF d.items = n THEN d.write ELSE (d.read + n) % d.max
<1>1. /\ d.fftSize \in Nat \ {0} /\ d.max \in Nat \ {0} /\ d.read \in Nat /\ d.write \in Nat
      /\ d.items \in 0 .. d.max /\ d.freq \in VisualTunings \cup {0}
      /\ d.data \in Seq(VisualSamples) /\ Len(d.data) = d.max /\ d \in Distributors
  BY RingFacts DEF IsRing
<1>2. d.read < d.max /\ d.write = (d.read + d.items) % d.max
  BY <1>1, RingFacts
<1>3. /\ d.max \in Nat \ {0} /\ d.read \in Nat /\ d.write \in Nat /\ d.items \in Nat
      /\ n \in Nat /\ n =< d.items /\ d.items - n \in Nat /\ d.items =< d.max
  BY <1>1
<1>4. e = [d EXCEPT !.items = d.items - n, !.read = first]
  BY <1>1 DEF Consumed, Distributors
<1>5. /\ first \in 0 .. d.max - 1
      /\ (first + (d.items - n)) % d.max = d.write
      /\ d.items # n => first = (d.read + n) % d.max
  <2> DEFINE m == d.max
             a == d.read + n
             b == d.items - n
             c == d.read + d.items
  <2>1. a \in Int /\ b \in Int /\ c \in Int /\ a + b = c
    BY <1>3
  <2>2. d.write = c % m /\ m \in Nat \ {0} /\ first = IF d.items = n THEN d.write ELSE a % m
    BY <1>2, <1>3
  <2>3. d.items = n => b = 0
    BY <1>3
  <2> HIDE DEF m, a, b, c, first
  <2>4. a % m \in 0 .. m - 1 /\ c % m \in 0 .. m - 1
    BY <2>1, <2>2, Rest
  <2>5. ((a % m) + b) % m = c % m
    BY <2>1, <2>2, SlotMoves
  <2>6. (c % m) + 0 = c % m /\ (c % m) % m = c % m
    BY <2>2, <2>4, SmallRest
  <2>7. first \in 0 .. m - 1
    BY <2>2, <2>4
  <2>8. (first + b) % m = d.write
    BY <2>2, <2>3, <2>5, <2>6
  <2> QED
    BY <2>2, <2>7, <2>8 DEF m, a, b
<1> HIDE DEF first
<1>6. /\ e \in Distributors /\ e.data = d.data /\ e.max = d.max /\ e.read = first
      /\ e.items = d.items - n /\ e.write = d.write /\ e.freq = d.freq /\ e.fftSize = d.fftSize
  <2>1. first \in Nat
    BY <1>3, <1>5
  <2> HIDE DEF e
  <2> QED
    BY <1>1, <1>3, <1>4, <2>1 DEF Distributors
<1> HIDE DEF e
<1>7. IsRing(e)
  <2>1. e.items =< e.max /\ e.read < e.max
    BY <1>3, <1>5, <1>6
  <2>2. e.write = (e.read + e.items) % e.max
    BY <1>5, <1>6
  <2>3. Len(e.data) = e.max
    BY <1>1, <1>6
  <2> QED
    BY <1>6, <2>1, <2>2, <2>3 DEF IsRing
<1>8. ASSUME NEW i \in 1 .. d.items - n PROVE Stored(e)[i] = Stored(d)[n + i]
  <2> DEFINE m == d.max
             a == d.read + n
             b == i - 1
  <2>1. n + i \in 1 .. d.items /\ i \in 1 .. e.items /\ d.items # n
    BY <1>3, <1>6
  <2>2. /\ Stored(e)[i] = d.data[1 + ((first + i - 1) % m)]
        /\ Stored(d)[n + i] = d.data[1 + ((d.read + (n + i) - 1) % m)]
    BY <1>6, <1>7, <2>1, StoredWorks
  <2>3. first \in Int
    BY <1>3, <1>5
  <2>4. /\ a \in Int /\ b \in Int /\ d.read + (n + i) - 1 = a + b /\ first + i - 1 = first + b
    BY <1>3, <2>3
  <2>5. first = a % m /\ m \in Nat \ {0}
    BY <1>3, <1>5, <2>1
  <2> HIDE DEF m, a, b
  <2>6. ((a % m) + b) % m = (a + b) % m
    BY <2>4, <2>5, SlotMoves
  <2> QED
    BY <2>2, <2>4, <2>5, <2>6
<1> QED
  BY <1>6, <1>7, <1>8 DEF e

\* All of a line is within what is stored.
LEMMA LinesFit ==
  ASSUME NEW f \in Nat \ {0}, NEW items \in Nat, NEW k \in 1 .. items \div f, NEW i \in 1 .. f
  PROVE  ((k - 1) * f) + i \in 1 .. items /\ (items \div f) * f \in 0 .. items
<1> DEFINE q == items \div f
<1>1. q \in Nat /\ f * q =< items
  <2>1. items % f \in 0 .. f - 1 /\ q \in Int /\ items = f * q + (items % f)
    BY Rest
  <2>2. f * q \in Int /\ items % f \in Nat
    BY <2>1
  <2>3. q >= 0
    OBVIOUS
  <2> HIDE DEF q
  <2> QED
    BY <2>1, <2>2, <2>3
<1>2. k \in Int /\ 1 =< k /\ k =< q
  OBVIOUS
<1> HIDE DEF q
<1>3. f * (k - 1) >= 0 /\ f * (q - k) >= 0
  BY <1>1, <1>2
<1>4. /\ f * (k - 1) = f * k - f /\ f * (q - k) = f * q - f * k /\ f * k \in Int /\ f * q \in Int
      /\ (k - 1) * f = f * (k - 1) /\ q * f = f * q
  BY <1>1, <1>2
<1>5. f * q >= 0
  BY <1>1
<1> QED
  BY <1>1, <1>3, <1>4, <1>5 DEF q

\* A line is cut out of what is stored.
LEMMA LineWorks ==
  ASSUME NEW d, IsRing(d), d.max > 0, NEW k \in 1 .. d.items \div d.fftSize
  PROVE  /\ Line(d, k) \in Seq(VisualSamples) /\ Len(Line(d, k)) = d.fftSize
         /\ \A i \in 1 .. d.fftSize : /\ ((k - 1) * d.fftSize) + i \in 1 .. d.items
                                      /\ Line(d, k)[i] = Stored(d)[((k - 1) * d.fftSize) + i]
<1> DEFINE f == d.fftSize
           o == (k - 1) * f
           line == Line(d, k)
<1>1. /\ f \in Nat \ {0} /\ d.read \in Nat /\ d.items \in Nat
  BY RingFacts
<1>2. k - 1 \in Nat
  <2>1. f \in Nat \ {0} /\ d.items \div f \in Int
    BY <1>1
  <2> QED
    BY <2>1
<1>3. \A i \in 1 .. f : o + i \in 1 .. d.items
  BY <1>1, LinesFit
<1>4. o \in Int
  BY <1>1, <1>2
<1>5. line = [i \in 1 .. f |-> d.data[1 + ((d.read + o + i - 1) % d.max)]]
  BY DEF Line
<1> HIDE DEF o, f, line
<1>6. \A i \in 1 .. f : d.read + o + i - 1 = d.read + (o + i) - 1
  BY <1>1, <1>4
<1>7. \A j \in 1 .. d.items : Stored(d)[j] = d.data[1 + ((d.read + j - 1) % d.max)]
                              /\ Stored(d)[j] \in VisualSamples
  BY StoredWorks, ElementOfSeq
<1>8. ASSUME NEW i \in 1 .. f PROVE line[i] = Stored(d)[o + i]
  <2>1. line[i] = d.data[1 + ((d.read + o + i - 1) % d.max)]
    BY <1>5
  <2>2. d.read + o + i - 1 = d.read + (o + i) - 1
    BY <1>6
  <2>3. Stored(d)[o + i] = d.data[1 + ((d.read + (o + i) - 1) % d.max)]
    BY <1>3, <1>7
  <2> QED
    BY <2>1, <2>2, <2>3
<1>9. line \in [1 .. f -> VisualSamples]
  <2>1. \A i \in 1 .. f : line[i] \in VisualSamples
    BY <1>3, <1>7, <1>8
  <2>2. DOMAIN line = 1 .. f /\ line = [i \in 1 .. f |-> line[i]]
    BY <1>5
  <2> QED
    BY <2>1, <2>2
<1>10. line \in Seq(VisualSamples) /\ Len(line) = f
  BY <1>1, <1>9
<1> QED
  BY <1>3, <1>8, <1>10 DEF o, f, line
-----------------------------------------------------------------------------
(* Visuals: nothing is left out.                                           *)

\* What begins somewhere in s and goes on as s does.
LEMMA PartIsGapless ==
  ASSUME NEW s, NEW A, GaplessIn(s, A), Len(s) \in Nat, NEW t, Len(t) \in Nat, NEW o \in Int,
         \A i \in 1 .. Len(t) : o + i \in 1 .. Len(s) /\ t[i] = s[o + i]
  PROVE  GaplessIn(t, A)
<1>1. /\ \A i, j \in 1 .. Len(s) : i < j => s[i].n < s[j].n
      /\ \A i, j \in 1 .. Len(s) : s[i].freq = s[j].freq
      /\ \A i \in 1 .. Len(s) : s[i].n \in A
      /\ \A i \in 1 .. Len(s) - 1 : \A a \in A : ~(s[i].n < a /\ a < s[i + 1].n)
  BY DEF GaplessIn, Rising
<1>2. ASSUME NEW i \in 1 .. Len(t), NEW j \in 1 .. Len(t), i < j PROVE t[i].n < t[j].n
  <2>1. o + i < o + j
    BY <1>2
  <2> QED
    BY <1>1, <2>1
<1>3. \A i, j \in 1 .. Len(t) : t[i].freq = t[j].freq
  BY <1>1
<1>4. \A i \in 1 .. Len(t) : t[i].n \in A
  BY <1>1
<1>5. ASSUME NEW i \in 1 .. Len(t) - 1, NEW a \in A PROVE ~(t[i].n < a /\ a < t[i + 1].n)
  <2>1. i \in 1 .. Len(t) /\ i + 1 \in 1 .. Len(t)
    OBVIOUS
  <2>2. o + i \in 1 .. Len(s) /\ o + (i + 1) \in 1 .. Len(s)
        /\ t[i] = s[o + i] /\ t[i + 1] = s[o + (i + 1)]
    BY <2>1
  <2>3. o + i \in 1 .. Len(s) - 1 /\ o + (i + 1) = (o + i) + 1
    BY <2>2
  <2>4. ~(s[o + i].n < a /\ a < s[(o + i) + 1].n)
    BY <1>1, <2>3
  <2> QED
    BY <2>2, <2>3, <2>4
<1> QED
  BY <1>2, <1>3, <1>4, <1>5 DEF GaplessIn, Rising

\* What is taken later is not in between.
LEMMA GaplessStays ==
  ASSUME NEW s, NEW A \in SUBSET Nat, GaplessIn(s, A), Len(s) \in Nat, NEW B \in SUBSET Nat,
         \A a \in A, b \in B : a < b
  PROVE  GaplessIn(s, A \cup B)
<1>1. \A i \in 1 .. Len(s) : s[i].n \in A
  BY DEF GaplessIn
<1>2. ASSUME NEW i \in 1 .. Len(s) - 1, NEW b \in B PROVE ~(b < s[i + 1].n)
  <2>1. i + 1 \in 1 .. Len(s)
    OBVIOUS
  <2>2. s[i + 1].n \in A
    BY <1>1, <2>1
  <2> DEFINE m == s[i + 1].n
  <2> HIDE DEF m
  <2>3. m < b /\ m \in Nat /\ b \in Nat
    BY <2>2 DEF m
  <2>4. ~(b < m)
    BY <2>3
  <2> QED
    BY <2>4 DEF m
<1>3. \A i \in 1 .. Len(s) - 1 : \A a \in A \cup B : ~(s[i].n < a /\ a < s[i + 1].n)
  BY <1>2 DEF GaplessIn
<1> QED
  BY <1>1, <1>3 DEF GaplessIn

LEMMA LineSampleStays ==
  ASSUME NEW s \in Seq(VisualSamples), NEW A \in SUBSET Nat, LineSample(s, A), NEW B \in SUBSET Nat,
         \A a \in A, b \in B : a < b
  PROVE  LineSample(s, A \cup B)
<1>1. Len(s) \in Nat /\ \A i \in 1 .. Len(s) : s[i].n \in A
  BY LenProperties DEF LineSample
<1>2. ASSUME NEW i \in 1 .. Len(s) - 1, NEW b \in B PROVE ~(b < s[i + 1].n)
  <2>1. i + 1 \in 1 .. Len(s)
    BY <1>1
  <2> DEFINE m == s[i + 1].n
  <2>2. m \in A
    BY <1>1, <2>1
  <2> HIDE DEF m
  <2>3. m < b /\ m \in Nat /\ b \in Nat
    BY <2>2
  <2>4. ~(b < m)
    BY <2>3
  <2> QED
    BY <2>4 DEF m
<1>3. ASSUME NEW i \in 1 .. Len(s) - 1, NEW a \in A \cup B, NEW b \in A \cup B,
             s[i].n < a, a < s[i + 1].n, s[i].n < b, b < s[i + 1].n
      PROVE  a = b
  <2>1. a \in A /\ b \in A
    BY <1>2, <1>3
  <2> QED
    BY <1>3, <2>1 DEF LineSample
<1>4. /\ \A i, j \in 1 .. Len(s) : s[i].freq = s[j].freq
      /\ \A i \in 1 .. Len(s) : s[i].n \in A \cup B
  BY DEF LineSample
<1> QED
  BY <1>3, <1>4 DEF LineSample

\* The first n samples of t come behind s, and are what is taken.
GrowsBy(A, B, s, t, n, u) ==
    /\ A \in SUBSET Nat /\ s \in Seq(VisualSamples) /\ GaplessIn(s, A)
    /\ Len(s) > 0 => \A a \in A : a =< s[Len(s)].n
    /\ t \in Seq(VisualSamples) /\ Rising(t) /\ n \in 0 .. Len(t)
    /\ \A i, j \in 1 .. Len(t) : t[i].freq = t[j].freq
    /\ \A i \in 1 .. Len(s), j \in 1 .. Len(t) : s[i].freq = t[j].freq
    /\ \A a \in A, j \in 1 .. Len(t) : a < t[j].n
    /\ B = {t[k].n : k \in 1 .. n}
    /\ u \in Seq(VisualSamples) /\ Len(u) = Len(s) + n
    /\ \A i \in 1 .. Len(s) : u[i] = s[i]
    /\ \A k \in 1 .. n : u[Len(s) + k] = t[k]

\* What is taken behind a gapless stretch keeps it gapless.
LEMMA GaplessGrows ==
  ASSUME NEW A, NEW B, NEW s, NEW t, NEW n, NEW u, GrowsBy(A, B, s, t, n, u)
  PROVE  /\ GaplessIn(u, A \cup B)
         /\ Len(u) > 0 => \A a \in A \cup B : a =< u[Len(u)].n
<1> DEFINE c == Len(s)
<1>1. /\ A \in SUBSET Nat /\ s \in Seq(VisualSamples) /\ GaplessIn(s, A)
      /\ Len(s) > 0 => \A a \in A : a =< s[Len(s)].n
      /\ t \in Seq(VisualSamples) /\ Rising(t) /\ n \in 0 .. Len(t)
      /\ \A i, j \in 1 .. Len(t) : t[i].freq = t[j].freq
      /\ \A i \in 1 .. Len(s), j \in 1 .. Len(t) : s[i].freq = t[j].freq
      /\ \A a \in A, j \in 1 .. Len(t) : a < t[j].n
      /\ B = {t[k].n : k \in 1 .. n}
      /\ u \in Seq(VisualSamples) /\ Len(u) = Len(s) + n
      /\ \A i \in 1 .. Len(s) : u[i] = s[i]
      /\ \A k \in 1 .. n : u[Len(s) + k] = t[k]
  BY DEF GrowsBy
<1> USE <1>1
<1>2. /\ c \in Nat /\ Len(t) \in Nat /\ Len(u) = c + n /\ n \in Nat /\ n =< Len(t)
      /\ \A k \in 1 .. n : k \in 1 .. Len(t)
  BY LenProperties
<1>3. /\ \A k \in 1 .. Len(t) : t[k].n \in Nat
      /\ \A k \in 1 .. c : s[k].n \in Nat
  <2>1. /\ \A k \in 1 .. Len(t) : t[k] \in VisualSamples
        /\ \A k \in 1 .. c : s[k] \in VisualSamples
    BY ElementOfSeq
  <2>2. \A x \in VisualSamples : x.n \in Nat
    BY DEF VisualSamples
  <2> QED
    BY <2>1, <2>2
<1>4. /\ \A i, j \in 1 .. c : i < j => s[i].n < s[j].n
      /\ \A i, j \in 1 .. c : s[i].freq = s[j].freq
      /\ \A i \in 1 .. c : s[i].n \in A
      /\ \A i \in 1 .. c - 1 : \A a \in A : ~(s[i].n < a /\ a < s[i + 1].n)
      /\ \A i, j \in 1 .. Len(t) : i < j => t[i].n < t[j].n
  BY DEF GaplessIn, Rising
<1>5. ASSUME NEW i \in 1 .. c + n
      PROVE  \/ i \in 1 .. c /\ u[i] = s[i]
             \/ \E k \in 1 .. n : i = c + k /\ u[i] = t[k]
  <2>1. CASE i =< c
    BY <1>2, <2>1
  <2>2. CASE ~(i =< c)
    <3>1. i - c \in 1 .. n /\ i = c + (i - c)
      BY <1>2, <2>2
    <3> QED
      BY <3>1
  <2> QED
    BY <2>1, <2>2
<1>6. B \in SUBSET Nat /\ \A k \in 1 .. n : t[k].n \in B
  BY <1>2, <1>3
<1>7. ASSUME NEW i \in 1 .. c + n, NEW j \in 1 .. c + n, i < j PROVE u[i].n < u[j].n
  <2>1. CASE j \in 1 .. c /\ u[j] = s[j]
    <3>1. i \in 1 .. c /\ u[i] = s[i]
      BY <1>2, <1>7, <2>1
    <3> QED
      BY <1>4, <1>7, <2>1, <3>1
  <2>2. ASSUME NEW l \in 1 .. n, j = c + l, u[j] = t[l] PROVE u[i].n < u[j].n
    <3>1. CASE i \in 1 .. c /\ u[i] = s[i]
      BY <1>2, <1>4, <2>2, <3>1
    <3>2. ASSUME NEW k \in 1 .. n, i = c + k, u[i] = t[k] PROVE u[i].n < u[j].n
      <4>1. k < l
        BY <1>2, <1>7, <2>2, <3>2
      <4> QED
        BY <1>2, <1>4, <2>2, <3>2, <4>1
    <3> QED
      BY <1>5, <3>1, <3>2
  <2> QED
    BY <1>5, <2>1, <2>2
<1>8. \A i, j \in 1 .. c + n : u[i].freq = u[j].freq
  <2> SUFFICES ASSUME NEW i \in 1 .. c + n, NEW j \in 1 .. c + n PROVE u[i].freq = u[j].freq
    OBVIOUS
  <2>1. \/ i \in 1 .. c /\ u[i] = s[i]
        \/ \E k \in 1 .. Len(t) : u[i] = t[k]
    BY <1>2, <1>5
  <2>2. \/ j \in 1 .. c /\ u[j] = s[j]
        \/ \E k \in 1 .. Len(t) : u[j] = t[k]
    BY <1>2, <1>5
  <2>3. CASE i \in 1 .. c /\ u[i] = s[i]
    BY <1>4, <2>2, <2>3
  <2>4. CASE \E k \in 1 .. Len(t) : u[i] = t[k]
    <3>1. PICK k \in 1 .. Len(t) : u[i] = t[k]
      BY <2>4
    <3>2. CASE j \in 1 .. c /\ u[j] = s[j]
      BY <3>1, <3>2
    <3>3. CASE \E l \in 1 .. Len(t) : u[j] = t[l]
      BY <3>1, <3>3
    <3> QED
      BY <2>2, <3>2, <3>3
  <2> QED
    BY <2>1, <2>3, <2>4
<1>9. \A i \in 1 .. c + n : u[i].n \in A \cup B
  <2> SUFFICES ASSUME NEW i \in 1 .. c + n PROVE u[i].n \in A \cup B
    OBVIOUS
  <2>1. CASE i \in 1 .. c /\ u[i] = s[i]
    BY <1>4, <2>1
  <2>2. CASE \E k \in 1 .. n : u[i] = t[k]
    BY <1>6, <2>2
  <2> QED
    BY <1>5, <2>1, <2>2
<1>10. ASSUME NEW i \in 1 .. c + n - 1, NEW a \in A \cup B PROVE ~(u[i].n < a /\ a < u[i + 1].n)
  <2>1. i \in 1 .. c + n /\ i + 1 \in 1 .. c + n /\ i \in Int
    BY <1>2
  <2>2. CASE i + 1 \in 1 .. c /\ u[i + 1] = s[i + 1]
    <3>1. i \in 1 .. c - 1 /\ i \in 1 .. c /\ u[i] = s[i]
      BY <1>2, <2>2
    <3>2. CASE a \in A
      BY <1>4, <2>2, <3>1, <3>2
    <3>3. CASE a \in B
      <4>1. PICK k \in 1 .. n : a = t[k].n
        BY <3>3
      <4>2. s[i + 1].n \in A /\ s[i + 1].n < a
        BY <1>2, <1>4, <2>2, <4>1
      <4> DEFINE m == s[i + 1].n
      <4> HIDE DEF m
      <4>3. m < a /\ m \in Nat /\ a \in Nat
        BY <1>6, <3>3, <4>2 DEF m
      <4>4. ~(a < m)
        BY <4>3
      <4> QED
        BY <2>2, <4>4 DEF m
    <3> QED
      BY <3>2, <3>3
  <2>3. ASSUME NEW l \in 1 .. n, i + 1 = c + l, u[i + 1] = t[l]
        PROVE  ~(u[i].n < a /\ a < u[i + 1].n)
    <3>1. CASE l = 1
      <4>1. i = c /\ c > 0 /\ c \in 1 .. c /\ u[i] = s[c]
        BY <1>2, <2>1, <2>3, <3>1
      <4>2. CASE a \in A
        <5>1. a =< s[c].n /\ a \in Nat /\ s[c].n \in Nat
          BY <1>3, <4>1, <4>2
        <5> QED
          BY <4>1, <5>1
      <4>3. CASE a \in B
        <5>1. PICK k \in 1 .. n : a = t[k].n
          BY <4>3
        <5>2. k = l \/ l < k
          BY <3>1
        <5>3. t[l].n = t[k].n \/ t[l].n < t[k].n
          BY <1>2, <1>4, <5>2
        <5>4. t[l].n \in Nat /\ t[k].n \in Nat
          BY <1>2, <1>3
        <5> DEFINE x == t[k].n
                   y == t[l].n
        <5> HIDE DEF x, y
        <5>5. a = x /\ x \in Nat /\ y \in Nat /\ (y = x \/ y < x)
          BY <5>1, <5>3, <5>4 DEF x, y
        <5>6. ~(a < y)
          BY <5>5
        <5> QED
          BY <2>3, <5>6 DEF y
      <4> QED
        BY <4>2, <4>3
    <3>2. CASE l # 1
      <4>1. l - 1 \in 1 .. n /\ i = c + (l - 1)
        BY <1>2, <2>1, <2>3, <3>2
      <4>2. u[i] = t[l - 1]
        BY <4>1
      <4>3. CASE a \in A
        <5>1. a < t[l - 1].n /\ a \in Nat /\ t[l - 1].n \in Nat
          BY <1>2, <1>3, <4>1, <4>3
        <5>2. ~(t[l - 1].n < a)
          BY <5>1
        <5> QED
          BY <4>2, <5>2
      <4>4. CASE a \in B
        <5>1. PICK k \in 1 .. n : a = t[k].n
          BY <4>4
        <5>2. k = l - 1 \/ k = l \/ k < l - 1 \/ l < k
          BY <4>1
        <5>3. \/ t[k].n = t[l - 1].n \/ t[k].n < t[l - 1].n
              \/ t[k].n = t[l].n \/ t[l].n < t[k].n
          BY <1>2, <1>4, <4>1, <5>2
        <5>4. t[k].n \in Nat /\ t[l].n \in Nat /\ t[l - 1].n \in Nat
          BY <1>2, <1>3, <4>1
        <5> DEFINE x == t[k].n
                   y == t[l].n
                   z == t[l - 1].n
        <5> HIDE DEF x, y, z
        <5>5. /\ a = x /\ x \in Nat /\ y \in Nat /\ z \in Nat
              /\ (x = z \/ x < z \/ x = y \/ y < x)
          BY <5>1, <5>3, <5>4 DEF x, y, z
        <5>6. ~(z < a /\ a < y)
          BY <5>5
        <5> QED
          BY <2>3, <4>2, <5>6 DEF y, z
      <4> QED
        BY <4>3, <4>4
    <3> QED
      BY <3>1, <3>2
  <2> QED
    BY <1>5, <2>1, <2>2, <2>3
<1>11. ASSUME c + n > 0, NEW a \in A \cup B PROVE a =< u[c + n].n
  <2>1. CASE n = 0
    <3>1. c > 0 /\ c + n = c /\ c \in 1 .. c /\ u[c + n] = s[c] /\ a \in A
      BY <1>2, <1>11, <2>1
    <3> QED
      BY <3>1
  <2>2. CASE n # 0
    <3>1. n \in 1 .. n /\ u[c + n] = t[n] /\ n \in 1 .. Len(t) /\ t[n].n \in Nat
      BY <1>2, <1>3, <2>2
    <3>2. CASE a \in A
      BY <3>1, <3>2
    <3>3. CASE a \in B
      <4>1. PICK k \in 1 .. n : a = t[k].n
        BY <3>3
      <4>2. k = n \/ k < n
        BY <1>2
      <4>3. t[k].n = t[n].n \/ t[k].n < t[n].n
        BY <1>2, <1>4, <4>2
      <4>4. t[k].n \in Nat /\ t[n].n \in Nat
        BY <1>2, <1>3, <3>1
      <4>5. a =< t[n].n
        <5> DEFINE x == t[k].n
                   y == t[n].n
        <5>1. a = x /\ x \in Nat /\ y \in Nat /\ (x = y \/ x < y)
          BY <4>1, <4>3, <4>4
        <5> HIDE DEF x, y
        <5>2. a =< y
          BY <5>1
        <5> QED
          BY <5>2 DEF y
      <4> QED
        BY <3>1, <4>5
    <3> QED
      BY <3>2, <3>3
  <2> QED
    BY <1>2, <2>1, <2>2
<1>12. GaplessIn(u, A \cup B)
  BY <1>2, <1>7, <1>8, <1>9, <1>10 DEF GaplessIn, Rising
<1>13. Len(u) > 0 => \A a \in A \cup B : a =< u[Len(u)].n
  BY <1>2, <1>11
<1> QED
  BY <1>12, <1>13
-----------------------------------------------------------------------------
(* Visuals: the ring is refitted; the buffers.                             *)

\* The ring is never empty, and as large as what a line asks for.
LEMMA RingSizeWorks ==
  ASSUME NEW f \in Nat \ {0}
  PROVE  RingSize(f) \in Nat \ {0} /\ (12 * f) \div 10 >= 1
<1>1. DistributorSamples \in Nat \ {0}
  BY VisualsAssumption
<1>2. (12 * f) \div 10 \in Nat /\ (12 * f) \div 10 >= 1
  OBVIOUS
<1> QED
  BY <1>1, <1>2 DEF RingSize

\* The ring is as it was, or new and empty.
LEMMA RefittedWorks ==
  ASSUME NEW d, IsRing(d), NEW freq \in VisualTunings \cup {0}
  PROVE  /\ IsRing(Refitted(d, freq)) /\ Refitted(d, freq).max > 0
         /\ Refitted(d, freq).freq = freq /\ Refitted(d, freq).fftSize = d.fftSize
         /\ Refitted(d, freq).items = 0 \/ Refitted(d, freq) = d
<1> DEFINE width == RingSize(d.fftSize)
           empty == [d EXCEPT !.max = width, !.data = EmptyRing(width),
                              !.read = 0, !.write = 0, !.items = 0, !.freq = freq]
<1>1. d \in Distributors /\ d.fftSize \in Nat \ {0} /\ d.max \in Nat
  BY RingFacts DEF IsRing
<1>2. width \in Nat \ {0} /\ (12 * d.fftSize) \div 10 >= 1 /\ (12 * d.fftSize) \div 10 \in Int
  BY <1>1, RingSizeWorks
<1>3. Refitted(d, freq) = IF d.freq # freq \/ d.max < (12 * d.fftSize) \div 10 THEN empty ELSE d
  BY DEF Refitted
<1> HIDE DEF width
<1>4. EmptyRing(width) \in Seq(VisualSamples) /\ Len(EmptyRing(width)) = width
  <2>1. [n |-> 0, freq |-> 0] \in VisualSamples
    BY DEF VisualSamples
  <2> QED
    BY <1>2, <2>1 DEF EmptyRing
<1>5. /\ empty \in Distributors /\ empty.max = width /\ empty.data = EmptyRing(width)
      /\ empty.read = 0 /\ empty.write = 0 /\ empty.items = 0 /\ empty.freq = freq
      /\ empty.fftSize = d.fftSize
  BY <1>1, <1>2, <1>4 DEF Distributors
<1>6. (0 + 0) % width = 0
  BY <1>2, SmallRest
<1> HIDE DEF empty
<1>7. IsRing(empty) /\ empty.max > 0
  BY <1>2, <1>4, <1>5, <1>6 DEF IsRing
<1>8. CASE d.freq # freq \/ d.max < (12 * d.fftSize) \div 10
  BY <1>3, <1>5, <1>7, <1>8
<1>9. CASE ~(d.freq # freq \/ d.max < (12 * d.fftSize) \div 10)
  <2>1. Refitted(d, freq) = d /\ d.freq = freq /\ d.max > 0
    BY <1>1, <1>2, <1>3, <1>9
  <2> QED
    BY <2>1
<1> QED
  BY <1>8, <1>9

\* A set of numbers that is not empty has a least one.
LEMMA LeastThereIs ==
  ASSUME NEW S \in SUBSET Nat, S # {}
  PROVE  \E x \in S : \A y \in S : x =< y
<1>1. PICK x \in S : \A y \in S : ~(<<y, x>> \in OpToRel(<, Nat))
  BY NatLessThanWellFounded, WFMin
<1>2. ASSUME NEW y \in S PROVE x =< y
  <2>1. ~(<<y, x>> \in OpToRel(<, Nat)) /\ x \in Nat /\ y \in Nat
    BY <1>1
  <2>2. ~(y < x)
    BY <2>1 DEF OpToRel
  <2>3. x \in Nat /\ y \in Nat
    OBVIOUS
  <2> QED
    BY <2>2, <2>3
<1> QED
  BY <1>2

\* There are no more values than indices.
LEMMA ImageIsFinite ==
  ASSUME NEW n \in Nat, NEW f, DOMAIN f = 1 .. n
  PROVE  IsFiniteSet({f[k] : k \in 1 .. n}) /\ Cardinality({f[k] : k \in 1 .. n}) =< n
<1> DEFINE T == {f[k] : k \in 1 .. n}
           M == [k \in 1 .. n |-> f[k]]
<1>1. M \in Surjection(1 .. n, T)
  BY DEF Surjection
<1>2. IsFiniteSet(1 .. n) /\ Cardinality(1 .. n) = n
  BY FS_Interval
<1> HIDE DEF T, M
<1>3. IsFiniteSet(T) /\ Cardinality(T) =< n
  BY <1>1, <1>2, FS_Surjection
<1> QED
  BY <1>3 DEF T

\* There is always a number that no buffer has.
LEMMA FreshWorks ==
  ASSUME NEW p \in Seq(PoolEntries), NEW held \in SUBSET Nat, IsFiniteSet(held)
  PROVE  /\ Fresh(p, held) \in Nat \ {0} /\ Fresh(p, held) \notin held
<1> DEFINE taken == {p[k].buffer : k \in DOMAIN p}
           all == held \cup taken
           most == Len(p) + Cardinality(held) + 1
<1>1. Len(p) \in Nat /\ DOMAIN p = 1 .. Len(p) /\ Cardinality(held) \in Nat /\ most \in Nat
  BY LenProperties, FS_CardinalityType
<1>2. IsFiniteSet(taken) /\ Cardinality(taken) =< Len(p)
  <2> DEFINE f == [k \in 1 .. Len(p) |-> p[k].buffer]
  <2>1. taken = {f[k] : k \in 1 .. Len(p)} /\ DOMAIN f = 1 .. Len(p)
    BY <1>1
  <2> HIDE DEF f, taken
  <2> QED
    BY <1>1, <2>1, ImageIsFinite
<1> HIDE DEF taken
<1>3. IsFiniteSet(all) /\ Cardinality(all) =< Len(p) + Cardinality(held)
  <2>1. /\ IsFiniteSet(held \cup taken)
        /\ Cardinality(held \cup taken) =
              Cardinality(held) + Cardinality(taken) - Cardinality(held \cap taken)
    BY <1>2, FS_Union
  <2>2. IsFiniteSet(held \cap taken) /\ Cardinality(held \cap taken) \in Nat
    BY <1>2, FS_Subset, FS_CardinalityType
  <2>3. Cardinality(taken) \in Nat
    BY <1>2, FS_CardinalityType
  <2> QED
    BY <1>1, <1>2, <2>1, <2>2, <2>3
<1> DEFINE free == {b \in 1 .. most : b \notin all}
<1>4. free # {} /\ free \in SUBSET Nat
  <2>1. SUFFICES ASSUME free = {} PROVE FALSE
    BY <1>1
  <2>2. 1 .. most \in SUBSET all
    BY <2>1
  <2>3. IsFiniteSet(1 .. most) /\ Cardinality(1 .. most) = most
    BY <1>1, FS_Interval
  <2> HIDE DEF all, free
  <2>4. Cardinality(1 .. most) =< Cardinality(all)
    BY <1>3, <2>2, FS_Subset
  <2>5. Cardinality(all) \in Nat
    BY <1>3, FS_CardinalityType
  <2> QED
    BY <1>1, <1>3, <2>3, <2>4, <2>5
<1> HIDE DEF free
<1>5. PICK b \in free : \A c \in free : b =< c
  BY <1>4, LeastThereIs
<1>6. b \in 1 .. most /\ b \notin all /\ \A c \in 1 .. b - 1 : c \in all
  <2>1. b \in 1 .. most /\ b \notin all
    BY DEF free
  <2>2. ASSUME NEW c \in 1 .. b - 1 PROVE c \in all
    <3>1. c \in 1 .. most /\ c < b /\ ~(b =< c)
      BY <1>1, <2>1
    <3> QED
      BY <1>5, <3>1 DEF free
  <2> QED
    BY <2>1, <2>2
<1>7. Fresh(p, held) = CHOOSE c \in 1 .. most : c \notin all /\ \A e \in 1 .. c - 1 : e \in all
  BY DEF Fresh, taken
<1> HIDE DEF all, most
<1>8. Fresh(p, held) \in 1 .. most /\ Fresh(p, held) \notin all
  BY <1>6, <1>7
<1>9. Fresh(p, held) \in Nat \ {0}
  BY <1>1, <1>8
<1> QED
  BY <1>8, <1>9 DEF all

\* The i-th of the places in K.
LEMMA RankThereIs ==
  ASSUME NEW m \in Nat, NEW K \in SUBSET (1 .. m), NEW i \in 1 .. Cardinality(K)
  PROVE  \E k \in K : Cardinality({j \in 1 .. k : j \in K}) = i
<1> DEFINE upTo(k) == {j \in 1 .. k : j \in K}
           S == {k \in 0 .. m : Cardinality(upTo(k)) >= i}
<1>1. IsFiniteSet(K) /\ Cardinality(K) \in Nat
  <2>1. IsFiniteSet(1 .. m)
    BY FS_Interval
  <2>2. IsFiniteSet(K)
    BY <2>1, FS_Subset
  <2> QED
    BY <2>2, FS_CardinalityType
<1>2. \A k \in 0 .. m : IsFiniteSet(upTo(k)) /\ Cardinality(upTo(k)) \in Nat
  <2> SUFFICES ASSUME NEW k \in 0 .. m
               PROVE  IsFiniteSet(upTo(k)) /\ Cardinality(upTo(k)) \in Nat
    OBVIOUS
  <2>1. upTo(k) \in SUBSET K
    OBVIOUS
  <2> HIDE DEF upTo
  <2> QED
    BY <1>1, <2>1, FS_Subset, FS_CardinalityType
<1>3. m \in S
  <2>1. upTo(m) = K
    OBVIOUS
  <2> HIDE DEF upTo
  <2> QED
    BY <1>1, <2>1
<1>4. PICK k \in S : \A l \in S : k =< l
  <2>1. S \in SUBSET Nat /\ S # {}
    <3> HIDE DEF upTo
    <3> QED
      BY <1>3
  <2> HIDE DEF S
  <2> QED
    BY <2>1, LeastThereIs
<1>5. k \in 1 .. m
  <2>1. upTo(0) = {}
    OBVIOUS
  <2>2. Cardinality(upTo(0)) = 0
    BY <2>1, FS_EmptySet
  <2>3. 0 \notin S
    BY <2>2
  <2> HIDE DEF upTo
  <2>4. k \in 0 .. m
    OBVIOUS
  <2> HIDE DEF S
  <2> QED
    BY <2>3, <2>4
<1>6. k - 1 \in 0 .. m /\ k - 1 \notin S
  <2>1. k - 1 \in 0 .. m /\ ~(k =< k - 1)
    BY <1>5
  <2> HIDE DEF S
  <2> QED
    BY <1>4, <2>1
<1>7. Cardinality(upTo(k - 1)) < i
  <2> HIDE DEF upTo
  <2>1. ~(Cardinality(upTo(k - 1)) >= i)
    BY <1>6
  <2> QED
    BY <1>2, <1>6, <2>1
<1>8. Cardinality(upTo(k)) >= i
  OBVIOUS
<1> HIDE DEF S
<1>9. CASE k \in K
  <2>1. upTo(k) = upTo(k - 1) \cup {k}
    BY <1>5, <1>9
  <2> HIDE DEF upTo
  <2>2. Cardinality(upTo(k)) =< Cardinality(upTo(k - 1)) + 1
    <3>1. Cardinality(upTo(k - 1) \cup {k}) = IF k \in upTo(k - 1) THEN Cardinality(upTo(k - 1))
                                              ELSE Cardinality(upTo(k - 1)) + 1
      BY <1>2, <1>6, FS_AddElement
    <3> QED
      BY <1>2, <1>6, <2>1, <3>1
  <2>3. Cardinality(upTo(k)) = i
    BY <1>2, <1>5, <1>6, <1>7, <1>8, <2>2
  <2> QED
    BY <1>9, <2>3 DEF upTo
<1>10. CASE k \notin K
  <2>1. upTo(k) = upTo(k - 1)
    BY <1>5, <1>10
  <2> HIDE DEF upTo
  <2> QED
    BY <1>2, <1>6, <1>7, <1>8, <2>1
<1> QED
  BY <1>9, <1>10

\* The buffer that is given out is held by nobody, and the pool stays a pool.
LEMMA GetBufferWorks ==
  ASSUME NEW p \in Seq(PoolEntries), NEW held \in SUBSET Nat, IsFiniteSet(held)
  PROVE  /\ GetBuffer(p, held).buffer \in Nat \ {0} /\ GetBuffer(p, held).buffer \notin held
         /\ GetBuffer(p, held).pool \in Seq(PoolEntries)
<1> DEFINE idle(k) == p[k].buffer \notin held
           first == CHOOSE k \in DOMAIN p : idle(k) /\ \A j \in 1 .. k - 1 : ~idle(j)
           aged == [k \in DOMAIN p |-> IF ~idle(k) THEN p[k]
                                       ELSE [p[k] EXCEPT !.age = IF k = first THEN 1 ELSE @ - 1]]
           collected == IF Last(aged).age < -GCLimit THEN Front(aged) ELSE aged
           idleBefore(k) == Cardinality({j \in 1 .. k - 1 : idle(j) /\ j # first})
           keeps(k) == ~idle(k) \/ k = first \/ 1 + idleBefore(k) < IdleCacheLimit
           K == {k \in DOMAIN collected : keeps(k)}
           kept == [i \in 1 .. Cardinality(K) |->
                       collected[CHOOSE k \in DOMAIN collected :
                           keeps(k) /\ Cardinality({j \in 1 .. k : keeps(j)}) = i]]
<1>1. /\ Len(p) \in Nat /\ DOMAIN p = 1 .. Len(p)
      /\ \A k \in 1 .. Len(p) : p[k] \in PoolEntries
  BY LenProperties, ElementOfSeq
<1>2. /\ \A e \in PoolEntries : e.buffer \in Nat \ {0} /\ e.age \in Int
      /\ \A e \in PoolEntries, a \in Int : [e EXCEPT !.age = a] \in PoolEntries
  BY DEF PoolEntries
<1>3. GetBuffer(p, held) = IF \E k \in DOMAIN p : idle(k)
                           THEN [buffer |-> p[first].buffer, pool |-> kept]
                           ELSE [buffer |-> Fresh(p, held),
                                 pool |-> Append(p, [buffer |-> Fresh(p, held), age |-> 1])]
  BY DEF GetBuffer
<1>4. CASE \E k \in DOMAIN p : idle(k)
  <2>1. first \in 1 .. Len(p) /\ idle(first)
    <3> DEFINE S == {k \in 1 .. Len(p) : idle(k)}
    <3>1. S # {} /\ S \in SUBSET Nat
      BY <1>1, <1>4
    <3> HIDE DEF S
    <3>2. PICK k \in S : \A l \in S : k =< l
      BY <3>1, LeastThereIs
    <3>3. k \in 1 .. Len(p) /\ idle(k)
      BY DEF S
    <3>4. ASSUME NEW j \in 1 .. k - 1 PROVE ~idle(j)
      <4>1. j \in 1 .. Len(p) /\ ~(k =< j)
        BY <1>1, <3>3
      <4> QED
        BY <3>2, <4>1 DEF S
    <3> HIDE DEF idle
    <3> QED
      BY <1>1, <3>3, <3>4
  <2> HIDE DEF first, idle
  <2>2. aged \in [1 .. Len(p) -> PoolEntries]
    <3>1. ASSUME NEW k \in 1 .. Len(p) PROVE aged[k] \in PoolEntries
      <4>1. p[k] \in PoolEntries /\ p[k].age \in Int
        BY <1>1, <1>2
      <4>2. (IF k = first THEN 1 ELSE p[k].age - 1) \in Int
        BY <4>1
      <4>3. [p[k] EXCEPT !.age = IF k = first THEN 1 ELSE p[k].age - 1] \in PoolEntries
        BY <1>2, <4>1, <4>2
      <4>4. aged[k] = IF ~idle(k) THEN p[k]
                      ELSE [p[k] EXCEPT !.age = IF k = first THEN 1 ELSE p[k].age - 1]
        BY <1>1, <4>1 DEF PoolEntries
      <4> QED
        BY <4>1, <4>3, <4>4
    <3>2. DOMAIN aged = 1 .. Len(p) /\ aged = [k \in 1 .. Len(p) |-> aged[k]]
      BY <1>1
    <3> HIDE DEF aged
    <3> QED
      BY <3>1, <3>2
  <2> HIDE DEF aged
  <2>3. aged \in Seq(PoolEntries) /\ Len(aged) = Len(p) /\ Len(p) >= 1
    BY <1>1, <2>1, <2>2
  <2>4. Front(aged) \in Seq(PoolEntries)
    <3>1. \A k \in 1 .. Len(aged) - 1 : aged[k] \in PoolEntries
      BY <1>1, <2>2, <2>3
    <3>2. 1 \in Int /\ Len(aged) - 1 \in Int /\ 1 .. Len(aged) - 1 \subseteq 1 .. Len(aged)
      BY <1>1, <2>3
    <3> QED
      BY <2>3, <3>1, <3>2, SubSeqProperties DEF Front
  <2>5. collected \in Seq(PoolEntries)
    BY <2>3, <2>4
  <2> HIDE DEF collected
  <2>6. /\ Len(collected) \in Nat /\ DOMAIN collected = 1 .. Len(collected)
        /\ \A k \in 1 .. Len(collected) : collected[k] \in PoolEntries
    BY <2>5, LenProperties, ElementOfSeq
  <2> HIDE DEF keeps
  <2>7. ASSUME NEW i \in 1 .. Cardinality(K)
        PROVE  \E k \in DOMAIN collected : keeps(k) /\ Cardinality({j \in 1 .. k : keeps(j)}) = i
    <3>1. K \in SUBSET (1 .. Len(collected))
      BY <2>6
    <3>2. PICK k \in K : Cardinality({j \in 1 .. k : j \in K}) = i
      <4> HIDE DEF K
      <4> QED
        BY <2>6, <3>1, RankThereIs
    <3>3. {j \in 1 .. k : j \in K} = {j \in 1 .. k : keeps(j)}
      BY <2>6
    <3> QED
      BY <3>2, <3>3
  <2>8. Cardinality(K) \in Nat
    <3>1. K \in SUBSET (1 .. Len(collected))
      BY <2>6
    <3>2. IsFiniteSet(1 .. Len(collected))
      BY <2>6, FS_Interval
    <3> HIDE DEF K
    <3> QED
      BY <3>1, <3>2, FS_Subset, FS_CardinalityType
  <2>9. ASSUME NEW i \in 1 .. Cardinality(K) PROVE kept[i] \in PoolEntries
    <3> DEFINE chosen == CHOOSE k \in DOMAIN collected :
                            keeps(k) /\ Cardinality({j \in 1 .. k : keeps(j)}) = i
    <3>1. chosen \in DOMAIN collected
      BY <2>7
    <3>2. kept[i] = collected[chosen]
      OBVIOUS
    <3> HIDE DEF chosen, kept
    <3> QED
      BY <2>6, <3>1, <3>2
  <2>10. DOMAIN kept = 1 .. Cardinality(K) /\ kept = [i \in 1 .. Cardinality(K) |-> kept[i]]
    OBVIOUS
  <2> HIDE DEF kept, K
  <2>11. kept \in [1 .. Cardinality(K) -> PoolEntries]
    BY <2>9, <2>10
  <2>12. kept \in Seq(PoolEntries)
    BY <2>8, <2>11
  <2>13. GetBuffer(p, held) = [buffer |-> p[first].buffer, pool |-> kept]
    BY <1>3, <1>4
  <2> QED
    BY <1>1, <1>2, <2>1, <2>12, <2>13 DEF idle
<1>5. CASE ~\E k \in DOMAIN p : idle(k)
  <2>1. GetBuffer(p, held) = [buffer |-> Fresh(p, held),
                              pool |-> Append(p, [buffer |-> Fresh(p, held), age |-> 1])]
    <3> HIDE DEF idle, kept, first
    <3> QED
      BY <1>3, <1>5
  <2>2. Fresh(p, held) \in Nat \ {0} /\ Fresh(p, held) \notin held
    BY FreshWorks
  <2>3. [buffer |-> Fresh(p, held), age |-> 1] \in PoolEntries
    BY <2>2 DEF PoolEntries
  <2>4. Append(p, [buffer |-> Fresh(p, held), age |-> 1]) \in Seq(PoolEntries)
    BY <2>3, AppendProperties
  <2> QED
    BY <2>1, <2>2, <2>4
<1> QED
  BY <1>4, <1>5
-----------------------------------------------------------------------------
(* Visuals: what the types say; what is held.                              *)

\* The fields of the processor.
LEMMA ProcessorFields ==
  ASSUME NEW p \in Processors
  PROVE  /\ p.step \in {"idle", "setup", "pop"} /\ p.isView \in BOOLEAN /\ p.zoomed \in BOOLEAN
         /\ p.fftSize \in FFTSizes /\ p.newFFTSize \in FFTSizes \cup {0}
         /\ p.fftSizeChanged \in BOOLEAN /\ p.desired \in Nat /\ p.history \in Seq(VisualSamples)
         /\ p.fftSize \in Nat \ {0} /\ Internal(p.fftSize) \in Nat \ {0} /\ Desired(p) \in Nat
<1>1. /\ p.step \in {"idle", "setup", "pop"} /\ p.isView \in BOOLEAN /\ p.zoomed \in BOOLEAN
      /\ p.fftSize \in FFTSizes /\ p.newFFTSize \in FFTSizes \cup {0}
      /\ p.fftSizeChanged \in BOOLEAN /\ p.desired \in Nat /\ p.history \in Seq(VisualSamples)
  BY DEF Processors
<1>2. p.fftSize \in Nat \ {0}
  BY <1>1, VisualsAssumption
<1>3. Internal(p.fftSize) \in Nat \ {0}
  BY <1>2 DEF Internal
<1>4. Desired(p) \in Nat
  BY <1>3 DEF Desired
<1> QED
  BY <1>1, <1>2, <1>3, <1>4

\* The state's records, field by field.
LEMMA TypesSay ==
  ASSUME VisualsTypes
  PROVE  /\ way \in Ways
         /\ received.samples \in Nat /\ received.blocks \in Nat /\ received.freq \in VisualTunings
         /\ processor \in Processors
         /\ DOMAIN canvasQueues = DOMAIN CanvasMax[way]
         /\ \A k \in DOMAIN canvasQueues : /\ canvasQueues[k] \in Seq(CanvasItems)
                                           /\ CanvasMax[way][k] \in Nat \ {0}
         /\ \E n \in Nat : DOMAIN canvasQueues = 1 .. n
<1>1. /\ way \in Ways /\ received \in [samples : Nat, blocks : Nat, freq : VisualTunings]
      /\ processor \in Processors /\ canvasQueues \in [DOMAIN CanvasMax[way] -> Seq(CanvasItems)]
  BY DEF VisualsTypes
<1>2. received.samples \in Nat /\ received.blocks \in Nat /\ received.freq \in VisualTunings
  BY <1>1
<1>3. CanvasMax[way] \in Seq(Nat \ {0})
  BY <1>1, VisualsAssumption
<1>4. /\ Len(CanvasMax[way]) \in Nat /\ DOMAIN CanvasMax[way] = 1 .. Len(CanvasMax[way])
      /\ \A k \in DOMAIN CanvasMax[way] : CanvasMax[way][k] \in Nat \ {0}
  BY <1>3, LenProperties, ElementOfSeq
<1>5. /\ DOMAIN canvasQueues = DOMAIN CanvasMax[way]
      /\ \A k \in DOMAIN canvasQueues : canvasQueues[k] \in Seq(CanvasItems)
  BY <1>1
<1> QED
  BY <1>1, <1>2, <1>4, <1>5

\* What the canvases hold is finite.
LEMMA HeldWorks ==
  ASSUME VisualsTypes
  PROVE  Held \in SUBSET Nat /\ IsFiniteSet(Held)
<1>1. PICK n \in Nat : DOMAIN canvasQueues = 1 .. n
  BY TypesSay
<1>2. /\ \A k \in 1 .. n : canvasQueues[k] \in Seq(CanvasItems)
      /\ drawn \in CanvasItems \cup {Nothing}
  BY <1>1, TypesSay DEF VisualsTypes
<1>3. drawn.buffer \in Nat
  BY <1>2 DEF CanvasItems, Nothing
<1> DEFINE of(k) == {canvasQueues[k][i].buffer : i \in DOMAIN canvasQueues[k]}
           f == [k \in 1 .. n |-> of(k)]
           all == {f[k] : k \in 1 .. n}
<1>4. \A k \in 1 .. n : of(k) \in SUBSET Nat /\ IsFiniteSet(of(k))
  <2> SUFFICES ASSUME NEW k \in 1 .. n PROVE of(k) \in SUBSET Nat /\ IsFiniteSet(of(k))
    OBVIOUS
  <2>1. /\ Len(canvasQueues[k]) \in Nat /\ DOMAIN canvasQueues[k] = 1 .. Len(canvasQueues[k])
        /\ \A i \in DOMAIN canvasQueues[k] : canvasQueues[k][i] \in CanvasItems
    BY <1>2, LenProperties, ElementOfSeq
  <2>2. of(k) \in SUBSET Nat
    BY <2>1 DEF CanvasItems
  <2> DEFINE g == [i \in 1 .. Len(canvasQueues[k]) |-> canvasQueues[k][i].buffer]
  <2>3. of(k) = {g[i] : i \in 1 .. Len(canvasQueues[k])} /\ DOMAIN g = 1 .. Len(canvasQueues[k])
    BY <2>1
  <2> HIDE DEF of, g
  <2> QED
    BY <2>1, <2>2, <2>3, ImageIsFinite
<1>5. Held = {drawn.buffer} \cup UNION all
  BY <1>1 DEF Held
<1>6. DOMAIN f = 1 .. n /\ \A T \in all : T \in SUBSET Nat /\ IsFiniteSet(T)
  <2> HIDE DEF of
  <2> QED
    BY <1>4
<1> HIDE DEF f, of
<1>7. IsFiniteSet(all)
  BY <1>6, ImageIsFinite
<1> HIDE DEF all
<1>8. IsFiniteSet(UNION all) /\ UNION all \in SUBSET Nat
  BY <1>6, <1>7, FS_UNION
<1>9. IsFiniteSet((UNION all) \cup {drawn.buffer})
  BY <1>8, FS_AddElement
<1>10. (UNION all) \cup {drawn.buffer} = Held
  BY <1>5
<1> QED
  BY <1>3, <1>5, <1>8, <1>9, <1>10

\* There is a least FFT size.
LEMMA DefaultSizeWorks == DefaultSize \in FFTSizes /\ DefaultSize \in Nat \ {0}
<1>1. FFTSizes \in SUBSET Nat /\ FFTSizes # {} /\ FFTSizes \subseteq Nat \ {0}
  BY VisualsAssumption
<1>2. \E x \in FFTSizes : \A y \in FFTSizes : x =< y
  BY <1>1, LeastThereIs
<1> QED
  BY <1>1, <1>2 DEF DefaultSize

-----------------------------------------------------------------------------
(* Visuals: the beginning, and the actions that move no samples.           *)

\* An empty ring holds nothing.
LEMMA EmptyStores ==
  ASSUME NEW d, IsRing(d), d.items = 0, NEW A
  PROVE  GaplessIn(Stored(d), A) /\ Len(Stored(d)) = 0
<1>1. Len(Stored(d)) = 0
  BY StoredWorks
<1> QED
  BY <1>1 DEF GaplessIn, Rising

\* The invariant holds at the beginning.
LEMMA VisualsBegins == VisualsInit => VisualsInv
<1> SUFFICES ASSUME VisualsInit PROVE VisualsInv
  OBVIOUS
<1>1. DefaultSize \in FFTSizes /\ DefaultSize \in Nat \ {0} /\ Internal(DefaultSize) \in Nat
  BY DefaultSizeWorks DEF Internal
<1>2. received \in [samples : Nat, blocks : Nat, freq : VisualTunings] /\ received.samples = 0
  <2>1. (CHOOSE freq \in VisualTunings : TRUE) \in VisualTunings
    BY VisualsAssumption
  <2> QED
    BY <2>1 DEF VisualsInit
<1>3. IsRing(distributor) /\ distributor.items = 0
  <2>1. distributor = [fftSize |-> DefaultSize, data |-> << >>, max |-> 0, read |-> 0, write |-> 0,
                       items |-> 0, freq |-> 0]
    BY DEF VisualsInit
  <2>2. << >> \in Seq(VisualSamples) /\ Len(<< >>) = 0
    OBVIOUS
  <2> QED
    BY <1>1, <2>1, <2>2 DEF IsRing, Distributors
<1>4. /\ processor \in Processors /\ processor.step = "idle" /\ processor.history = << >>
      /\ processor.fftSizeChanged = FALSE /\ processor.fftSize = DefaultSize
  BY <1>1 DEF VisualsInit, Processors
<1>5. /\ canvasQueues = [k \in DOMAIN CanvasMax[way] |-> << >>] /\ way \in Ways
      /\ visualBlocks = << >> /\ fftQueue = << >> /\ accepted = {} /\ told = {} /\ pool = << >>
      /\ contents = << >> /\ drawn = Nothing
      /\ visualLoop = IF way = "lines" THEN "resize" ELSE "process"
  BY DEF VisualsInit
<1>6. VisualsTypes
  <2>1. canvasQueues \in [DOMAIN CanvasMax[way] -> Seq(CanvasItems)]
    BY <1>5
  <2>2. /\ visualLoop \in {"resize", "distribute", "process"}
        /\ way = "direct" => visualLoop = "process"
    BY <1>5 DEF Ways
  <2> QED
    BY <1>2, <1>3, <1>4, <1>5, <2>1, <2>2 DEF VisualsTypes
<1>7. BlocksRise
  BY <1>5 DEF BlocksRise, RiseBeyond
<1>8. RingIsGapless
  BY <1>3, EmptyStores DEF RingIsGapless
<1>9. LinesAreGapless
  BY <1>5 DEF LinesAreGapless
<1>10. HistoryRises
  BY <1>1, <1>4, <1>5 DEF HistoryRises, Rising
<1>11. CanvasesHold
  <2>1. \A k \in DOMAIN canvasQueues : Len(canvasQueues[k]) = 0 /\ CanvasMax[way][k] \in Nat \ {0}
    BY <1>5, <1>6, TypesSay
  <2>2. DOMAIN contents = 1 .. Len(contents) /\ Len(contents) \in Nat
    BY <1>5
  <2> QED
    BY <1>4, <1>5, <2>1, <2>2 DEF CanvasesHold
<1> QED
  BY <1>6, <1>7, <1>8, <1>9, <1>10, <1>11 DEF VisualsInv

\* Nothing of it moves: what is held is what it was.
LEMMA NothingMoves ==
  ASSUME VisualsInv, VisualsTypes', UNCHANGED <<way, told, accepted, visualBlocks, fftQueue>>,
         received'.samples = received.samples,
         Stored(distributor') = Stored(distributor),
         distributor'.items = distributor.items, distributor'.freq = distributor.freq
  PROVE  BlocksRise' /\ RingIsGapless' /\ LinesAreGapless'
<1>1. BlocksRise /\ RingIsGapless /\ LinesAreGapless
  BY DEF VisualsInv
<1>2. BlocksRise'
  BY <1>1 DEF BlocksRise
<1>3. RingIsGapless'
  BY <1>1 DEF RingIsGapless
<1>4. LinesAreGapless'
  BY <1>1 DEF LinesAreGapless
<1> QED
  BY <1>2, <1>3, <1>4

\* The history goes on, or begins anew.
LEMMA HistoryStays ==
  ASSUME VisualsInv, UNCHANGED <<way, told, visualBlocks>>, received'.samples = received.samples,
         \/ processor'.history = processor.history /\ processor'.fftSize = processor.fftSize
         \/ processor'.history = << >> /\ processor'.fftSize \in Nat
  PROVE  HistoryRises'
<1>1. HistoryRises
  BY DEF VisualsInv
<1>2. CASE processor'.history = processor.history /\ processor'.fftSize = processor.fftSize
  BY <1>1, <1>2 DEF HistoryRises, GapIsAhead, GapIsPast, Rising
<1>3. CASE processor'.history = << >> /\ processor'.fftSize \in Nat
  <2>1. Len(processor'.history) = 0 /\ Internal(processor'.fftSize) \in Nat
    BY <1>3 DEF Internal
  <2>2. way = "direct" => \A g \in told : (GapIsAhead(g) \/ GapIsPast(g))'
    BY <1>1, <2>1 DEF HistoryRises, GapIsAhead, GapIsPast
  <2> QED
    BY <2>1, <2>2 DEF HistoryRises, Rising
<1> QED
  BY <1>2, <1>3

\* The canvases hold what they held, which stays a frame.
LEMMA CanvasesStayIf ==
  ASSUME VisualsInv, UNCHANGED <<way, contents, canvasQueues, drawn>>,
         \A s \in Seq(VisualSamples) : IsFrame(s) => IsFrame(s)',
         \/ processor'.step = "idle"
         \/ processor.step # "idle"
         \/ \A k \in DOMAIN canvasQueues : Len(canvasQueues[k]) < CanvasMax[way][k]
  PROVE  CanvasesHold'
<1>1. CanvasesHold
  BY DEF VisualsInv
<1>2. /\ \A k \in DOMAIN canvasQueues : \A i \in 1 .. Len(canvasQueues[k]) :
             canvasQueues[k][i].given \in Seq(VisualSamples)
      /\ drawn # Nothing => drawn.given \in Seq(VisualSamples)
  <2>1. ASSUME NEW k \in DOMAIN canvasQueues, NEW i \in 1 .. Len(canvasQueues[k])
        PROVE  canvasQueues[k][i].given \in Seq(VisualSamples)
    <3>1. canvasQueues[k] \in Seq(CanvasItems)
      BY TypesSay DEF VisualsInv
    <3>2. canvasQueues[k][i] \in CanvasItems
      BY <3>1, ElementOfSeq
    <3> QED
      BY <3>2 DEF CanvasItems
  <2>2. drawn # Nothing => drawn.given \in Seq(VisualSamples)
    BY DEF VisualsInv, VisualsTypes, CanvasItems
  <2> QED
    BY <2>1, <2>2
<1>3. \A k \in DOMAIN canvasQueues : \A i \in 1 .. Len(canvasQueues[k]) :
          (IsFrame(canvasQueues[k][i].given) /\ BufferHolds(canvasQueues[k][i]))'
  BY <1>1, <1>2 DEF CanvasesHold, BufferHolds
<1>4. drawn # Nothing => (IsFrame(drawn.given) /\ BufferHolds(drawn))'
  BY <1>1, <1>2 DEF CanvasesHold, BufferHolds
<1>5. \A k \in DOMAIN canvasQueues :
          /\ Len(canvasQueues[k]) =< CanvasMax[way][k]
          /\ processor'.step # "idle" => Len(canvasQueues[k]) < CanvasMax[way][k]
  BY <1>1 DEF CanvasesHold
<1> QED
  BY <1>1, <1>3, <1>4, <1>5 DEF CanvasesHold

\* No sample is received or taken.
LEMMA CanvasesStay ==
  ASSUME VisualsInv, UNCHANGED <<way, told, accepted, contents, canvasQueues, drawn>>,
         received'.samples = received.samples,
         \/ processor'.step = "idle"
         \/ processor.step # "idle"
         \/ \A k \in DOMAIN canvasQueues : Len(canvasQueues[k]) < CanvasMax[way][k]
  PROVE  CanvasesHold'
<1>1. \A s \in Seq(VisualSamples) : IsFrame(s) => IsFrame(s)'
  BY DEF IsFrame
<1> QED
  BY <1>1, CanvasesStayIf

\* Retune.
LEMMA RetuneKeeps ==
  ASSUME VisualsInv, NEW freq \in VisualTunings, Retune(freq)
  PROVE  VisualsInv'
<1>1. VisualsTypes
  BY DEF VisualsInv
<1>2. received' = [received EXCEPT !.freq = freq]
      /\ UNCHANGED <<told, visualBlocks, way, accepted, distributor, fftQueue, visualLoop, processor,
                     pool, contents, canvasQueues, drawn>>
  BY DEF Retune, outsideInput
<1>3. received'.samples = received.samples /\ received' \in [samples : Nat, blocks : Nat, freq : VisualTunings]
  BY <1>1, <1>2 DEF VisualsTypes
<1>4. VisualsTypes'
  BY <1>1, <1>2, <1>3 DEF VisualsTypes
<1> QED
  BY <1>2, <1>3, <1>4, NothingMoves, HistoryStays, CanvasesStay DEF VisualsInv

\* SetDistributorSize.
LEMMA SetDistributorSizeKeeps ==
  ASSUME VisualsInv, SetDistributorSize
  PROVE  VisualsInv'
<1>1. VisualsTypes /\ processor \in Processors /\ IsRing(distributor)
  BY TypesSay DEF VisualsInv, VisualsTypes
<1>2. /\ visualLoop = "resize" /\ processor.step = "idle" /\ visualLoop' = "distribute"
      /\ UNCHANGED <<accepted, visualBlocks, fftQueue, way, received, told, processor, pool,
                     contents, canvasQueues, drawn>>
  BY DEF SetDistributorSize, outsideDistributor
<1>3. PICK width \in Nat \ {0} : distributor' = [distributor EXCEPT !.fftSize = width]
  <2>1. Internal(DefaultSize) \in Nat \ {0} /\ processor.desired \in Nat
    BY <1>1, DefaultSizeWorks, ProcessorFields DEF Internal
  <2> QED
    BY <2>1 DEF SetDistributorSize
<1>4. distributor \in Distributors
  BY <1>1 DEF IsRing
<1>5. /\ distributor' \in Distributors /\ distributor'.data = distributor.data
      /\ distributor'.max = distributor.max /\ distributor'.read = distributor.read
      /\ distributor'.write = distributor.write /\ distributor'.items = distributor.items
      /\ distributor'.freq = distributor.freq
  BY <1>3, <1>4 DEF Distributors
<1>6. IsRing(distributor') /\ Stored(distributor') = Stored(distributor)
  BY <1>1, <1>5 DEF IsRing, Stored
<1>7. VisualsTypes'
  BY <1>1, <1>2, <1>6 DEF VisualsTypes
<1> QED
  BY <1>2, <1>5, <1>6, <1>7, NothingMoves, HistoryStays, CanvasesStay DEF VisualsInv

\* The thread goes on to its next part.
LEMMA LoopKeeps ==
  ASSUME VisualsInv, EndDistribute \/ EndProcess
  PROVE  VisualsInv'
<1>1. VisualsTypes
  BY DEF VisualsInv
<1>2. UNCHANGED <<accepted, visualBlocks, distributor, fftQueue, way, received, told, processor, pool,
                  contents, canvasQueues, drawn>>
  BY DEF EndDistribute, EndProcess, outsideDistributor
<1>3. VisualsTypes'
  BY <1>1, <1>2 DEF VisualsTypes, EndDistribute, EndProcess
<1> QED
  BY <1>2, <1>3, NothingMoves, HistoryStays, CanvasesStay DEF VisualsInv

\* A step of the processor or of the GUI that moves no samples: new settings, a new step.
LEMMA SettingKeeps ==
  ASSUME VisualsInv,
         UNCHANGED <<way, received, told, accepted, visualBlocks, distributor, fftQueue, visualLoop,
                     pool, contents, canvasQueues, drawn>>,
         processor' \in Processors,
         (processor'.fftSizeChanged \/ processor'.step = "setup") => processor'.newFFTSize # 0,
         processor'.step # "idle" => visualLoop = "process",
         \/ processor'.history = processor.history /\ processor'.fftSize = processor.fftSize
         \/ processor'.history = << >>,
         \/ processor'.step = "idle"
         \/ processor.step # "idle"
         \/ \A k \in DOMAIN canvasQueues : Len(canvasQueues[k]) < CanvasMax[way][k]
  PROVE  VisualsInv'
<1>1. VisualsTypes
  BY DEF VisualsInv
<1>2. VisualsTypes'
  BY <1>1 DEF VisualsTypes
<1>3. processor'.fftSize \in Nat
  BY ProcessorFields
<1> QED
  BY <1>2, <1>3, NothingMoves, HistoryStays, CanvasesStay DEF VisualsInv

\* RunProcessor, Setup and the settings.
LEMMA SettingsKeep ==
  ASSUME VisualsInv,
         \/ RunProcessor
         \/ Setup
         \/ \E b, c \in BOOLEAN : SetView(b, c)
         \/ \E width \in FFTSizes : SetFFTSize(width)
  PROVE  VisualsInv'
<1>1. /\ VisualsTypes /\ processor \in Processors
      /\ (processor.fftSizeChanged \/ processor.step = "setup") => processor.newFFTSize # 0
      /\ processor.step # "idle" => visualLoop = "process"
  BY TypesSay DEF VisualsInv, VisualsTypes
<1>2. CASE RunProcessor
  <2>1. /\ visualLoop = "process"
        /\ \A k \in DOMAIN canvasQueues : Len(canvasQueues[k]) < CanvasMax[way][k]
        /\ UNCHANGED <<visualBlocks, fftQueue, pool, contents, canvasQueues, way, received, told,
                       accepted, distributor, visualLoop, drawn>>
    BY <1>2 DEF RunProcessor, outsideProcessor
  <2>2. PICK step \in {"setup", "pop"} :
          /\ step = IF processor.fftSizeChanged THEN "setup" ELSE "pop"
          /\ processor' = [processor EXCEPT !.step = step, !.fftSizeChanged = FALSE]
    BY <1>2 DEF RunProcessor
  <2>3. /\ processor' \in Processors /\ processor'.step = step /\ processor'.fftSizeChanged = FALSE
        /\ processor'.newFFTSize = processor.newFFTSize /\ processor'.history = processor.history
        /\ processor'.fftSize = processor.fftSize
    BY <1>1, <2>2 DEF Processors
  <2> QED
    BY <1>1, <2>1, <2>2, <2>3, SettingKeeps
<1>3. CASE Setup
  <2>1. /\ processor.step = "setup"
        /\ UNCHANGED <<visualBlocks, fftQueue, pool, contents, canvasQueues, way, received, told,
                       accepted, distributor, visualLoop, drawn>>
    BY <1>3 DEF Setup, outsideProcessor
  <2>2. processor' = [processor EXCEPT !.step = "pop", !.fftSize = processor.newFFTSize,
                                       !.history = << >>]
    BY <1>3 DEF Setup
  <2>3. processor.newFFTSize \in FFTSizes /\ processor.newFFTSize # 0
    BY <1>1, <2>1, ProcessorFields
  <2> DEFINE width == processor.newFFTSize
  <2>4. << >> \in Seq(VisualSamples) /\ width \in FFTSizes
    BY <2>3
  <2>5. processor' = [processor EXCEPT !.step = "pop", !.fftSize = width, !.history = << >>]
    BY <2>2
  <2>6. /\ processor' \in Processors /\ processor'.step = "pop" /\ processor'.history = << >>
        /\ processor'.newFFTSize = processor.newFFTSize
    <3> HIDE DEF width
    <3>1. /\ processor' \in Processors /\ processor'.step = "pop" /\ processor'.history = << >>
          /\ processor'.newFFTSize = processor.newFFTSize
      BY <1>1, <2>4, <2>5 DEF Processors
    <3> QED
      BY <3>1
  <2> QED
    BY <1>1, <2>1, <2>3, <2>6, SettingKeeps
<1>4. ASSUME NEW b \in BOOLEAN, NEW c \in BOOLEAN, SetView(b, c) PROVE VisualsInv'
  <2>1. UNCHANGED <<way, received, told, accepted, visualBlocks, distributor, fftQueue, visualLoop,
                    pool, contents, canvasQueues, drawn>>
    BY <1>4 DEF SetView, outsideSettings
  <2>2. processor' = [processor EXCEPT !.isView = b, !.zoomed = c]
    BY <1>4 DEF SetView
  <2>3. /\ processor' \in Processors /\ processor'.step = processor.step
        /\ processor'.fftSizeChanged = processor.fftSizeChanged
        /\ processor'.newFFTSize = processor.newFFTSize /\ processor'.history = processor.history
        /\ processor'.fftSize = processor.fftSize
    BY <1>1, <2>2 DEF Processors
  <2> QED
    BY <1>1, <2>1, <2>3, SettingKeeps
<1>5. ASSUME NEW width \in FFTSizes, SetFFTSize(width) PROVE VisualsInv'
  <2>1. UNCHANGED <<way, received, told, accepted, visualBlocks, distributor, fftQueue, visualLoop,
                    pool, contents, canvasQueues, drawn>>
    BY <1>5 DEF SetFFTSize, outsideSettings
  <2>2. processor' = [processor EXCEPT !.newFFTSize = width, !.fftSizeChanged = TRUE]
    BY <1>5 DEF SetFFTSize
  <2>3. width # 0
    BY VisualsAssumption
  <2>4. /\ processor' \in Processors /\ processor'.step = processor.step
        /\ processor'.newFFTSize = width /\ processor'.history = processor.history
        /\ processor'.fftSize = processor.fftSize
    BY <1>1, <2>2 DEF Processors
  <2> QED
    BY <1>1, <2>1, <2>3, <2>4, SettingKeeps
<1> QED
  BY <1>2, <1>3, <1>4, <1>5

\* A step that changes nothing.
LEMMA StutterKeeps ==
  ASSUME VisualsInv, UNCHANGED visualVars
  PROVE  VisualsInv'
<1>1. VisualsTypes'
  BY DEF VisualsInv, VisualsTypes, visualVars
<1> QED
  BY <1>1, NothingMoves, HistoryStays, CanvasesStay DEF VisualsInv, visualVars

-----------------------------------------------------------------------------
(* Visuals: a block is received.                                           *)

\* A function on 1 .. n is a sequence.
LEMMA TupleWorks ==
  ASSUME NEW S, NEW n \in Nat, NEW f \in [1 .. n -> S]
  PROVE  f \in Seq(S) /\ Len(f) = n
<1> QED
  BY SeqDef, LenProperties

\* All that is there is older than what comes: more samples, another gap.
LEMMA CanvasesGrow ==
  ASSUME VisualsInv, UNCHANGED <<way, accepted, contents, canvasQueues, drawn, processor>>,
         received'.samples \in Nat, received.samples =< received'.samples,
         \A g \in told' \ told : g \in Nat /\ received.samples < g
  PROVE  CanvasesHold'
<1>1. CanvasesHold /\ received.samples \in Nat /\ told \in SUBSET Nat /\ processor'.step = processor.step
  BY TypesSay DEF VisualsInv, VisualsTypes
<1>2. ASSUME NEW s \in Seq(VisualSamples), IsFrame(s) PROVE IsFrame(s)'
  <2> DEFINE n(i) == s[i].n
  <2>1. \A i \in 1 .. Len(s) : n(i) \in Nat /\ n(i) =< received.samples
    <3>1. \A i \in 1 .. Len(s) : s[i] \in VisualSamples /\ s[i].n =< received.samples
      BY <1>2, ElementOfSeq DEF IsFrame
    <3> QED
      BY <3>1 DEF VisualSamples
  <2> DEFINE r == received.samples
             q == received'.samples
  <2>2. r \in Nat /\ q \in Nat /\ r =< q /\ \A g \in told' \ told : g \in Nat /\ r < g
    BY <1>1
  <2>3. \A i \in 1 .. Len(s) : n(i) =< q
    <3> HIDE DEF n, r, q
    <3> QED
      BY <2>2, <2>1 DEF r
  <2>4. \A g \in told' \ told : \A i \in 1 .. Len(s) : n(i) < g
    <3>1. \A i \in 1 .. Len(s) : n(i) \in Nat /\ n(i) =< r
      BY <2>1
    <3> HIDE DEF n, r, q
    <3> QED
      BY <2>2, <3>1
  <2> QED
    BY <1>2, <2>3, <2>4 DEF IsFrame, Rising
<1> QED
  BY <1>1, <1>2, CanvasesStayIf

\* PushVisualData.
LEMMA PushKeeps ==
  ASSUME VisualsInv, NEW width \in VisualBlockSizes, NEW gap \in BOOLEAN, PushVisualData(width, gap)
  PROVE  VisualsInv'
<1>1. PICK first : first = received.samples + (IF gap THEN 2 ELSE 1)
  OBVIOUS
<1>2. PICK data : data = [k \in 1 .. width |-> [n |-> first + k - 1, freq |-> received.freq]]
  OBVIOUS
<1> DEFINE last == first + width - 1
           blocks == received.blocks + 1
<1>3. /\ VisualsTypes /\ width \in Nat \ {0} /\ received.samples \in Nat /\ received.blocks \in Nat
      /\ received.freq \in VisualTunings
      /\ received \in [samples : Nat, blocks : Nat, freq : VisualTunings]
  BY VisualsAssumption, TypesSay DEF VisualsInv, VisualsTypes
<1>4. first \in Nat \ {0} /\ received.samples < first /\ last \in Nat /\ received.samples =< last
      /\ first =< last
  BY <1>3, <1>1
<1>5. /\ received' = [received EXCEPT !.samples = last, !.blocks = blocks]
      /\ \/ /\ visualBlocks' = Append(visualBlocks, [data |-> data, discontinuity |-> gap])
            /\ told' = IF gap THEN told \cup {first} ELSE told
         \/ UNCHANGED <<visualBlocks, told>>
      /\ UNCHANGED <<way, accepted, distributor, fftQueue, visualLoop, processor, pool, contents,
                     canvasQueues, drawn>>
  BY <1>1, <1>2 DEF PushVisualData, outsideInput
<1>6. /\ data \in Seq(VisualSamples) /\ Len(data) = width /\ Rising(data)
      /\ \A i \in 1 .. width : /\ data[i].n \in Nat /\ first =< data[i].n
                              /\ data[i].n =< last /\ data[i].freq = received.freq
      /\ data[1].n = first
  <2> DEFINE n(i) == first + i - 1
  <2>1. \A i \in 1 .. width : data[i] = [n |-> n(i), freq |-> received.freq]
    BY <1>2
  <2>2. \A i \in 1 .. width : n(i) \in Nat /\ first =< n(i) /\ n(i) =< last
    BY <1>3, <1>4
  <2>3. n(1) = first /\ 1 \in 1 .. width /\ \A i, j \in 1 .. width : i < j => n(i) < n(j)
    BY <1>3, <1>4
  <2> HIDE DEF n
  <2>4. ASSUME NEW i \in 1 .. width
        PROVE  data[i].n = n(i) /\ data[i].freq = received.freq /\ data[i] \in VisualSamples
    <3> DEFINE x == n(i)
               fq == received.freq
    <3>1. data[i] = [n |-> x, freq |-> fq] /\ x \in Nat /\ fq \in VisualTunings
      BY <1>3, <2>1, <2>2
    <3> HIDE DEF x, fq
    <3>2. data[i].n = x /\ data[i].freq = fq /\ data[i] \in VisualSamples
      BY <3>1 DEF VisualSamples
    <3> QED
      BY <3>2 DEF x, fq
  <2>5. data \in [1 .. width -> VisualSamples]
    BY <1>2, <2>4
  <2>6. data \in Seq(VisualSamples) /\ Len(data) = width
    BY <1>3, <2>5, TupleWorks
  <2>7. Rising(data)
    BY <2>3, <2>4, <2>6 DEF Rising
  <2> QED
    BY <2>2, <2>3, <2>4, <2>6, <2>7
<1>7. blocks \in Nat
  BY <1>3
<1> DEFINE block == [data |-> data, discontinuity |-> gap]
           L == Len(visualBlocks)
<1> HIDE DEF last, blocks
<1>8. block \in VisualBlocks /\ block.data = data /\ block.discontinuity = gap
  BY <1>6 DEF VisualBlocks
<1> HIDE DEF block
<1>9. visualBlocks \in Seq(VisualBlocks) /\ L \in Nat
      /\ told \in SUBSET (1 .. received.samples) /\ accepted \in SUBSET (1 .. received.samples)
  BY <1>3 DEF VisualsTypes
<1>10. received' \in [samples : Nat, blocks : Nat, freq : VisualTunings] /\ received'.samples = last
  BY <1>3, <1>4, <1>5, <1>7
<1> DEFINE Pushed == /\ visualBlocks' \in Seq(VisualBlocks) /\ Len(visualBlocks') = L + 1
                     /\ \A b \in 1 .. L : visualBlocks'[b] = visualBlocks[b]
                     /\ visualBlocks'[L + 1] = block
                     /\ told' = IF gap THEN told \cup {first} ELSE told
<1>11. Pushed \/ UNCHANGED <<visualBlocks, told>>
  <2>1. CASE visualBlocks' = Append(visualBlocks, block) /\ told' = IF gap THEN told \cup {first} ELSE told
    BY <1>8, <1>9, <2>1, AppendProperties
  <2> QED
    BY <1>5, <2>1 DEF block
<1>12. /\ told' \in SUBSET (1 .. last) /\ \A g \in told' \ told : g = first
      /\ accepted' \in SUBSET (1 .. last)
  <2>1. first \in 1 .. last /\ \A x \in 1 .. received.samples : x \in 1 .. last
    BY <1>3, <1>4
  <2>2. \/ told' = told \/ told' = told \cup {first}
    BY <1>5
  <2>3. \A g \in told' \ told : g = first
    BY <2>2
  <2> QED
    BY <1>5, <1>9, <2>1, <2>2, <2>3
<1>13. visualBlocks' \in Seq(VisualBlocks)
  BY <1>9, <1>11
<1> HIDE DEF Pushed
<1>14. VisualsTypes'
  BY <1>3, <1>5, <1>10, <1>12, <1>13 DEF VisualsTypes
<1>15. BlocksRise /\ RingIsGapless /\ LinesAreGapless /\ HistoryRises
  BY DEF VisualsInv
<1>16. \A b \in 1 .. L : \A i \in 1 .. Len(visualBlocks[b].data) :
          visualBlocks[b].data[i].n \in 1 .. received.samples
  BY <1>15 DEF BlocksRise, RiseBeyond
<1>17. \A x \in 1 .. received.samples : x \in 1 .. last /\ x < first
  BY <1>3, <1>4
<1>18. \A i \in 1 .. width : data[i].n \in 1 .. last
  <2> SUFFICES ASSUME NEW i \in 1 .. width PROVE data[i].n \in 1 .. last
    OBVIOUS
  <2> DEFINE x == data[i].n
  <2>1. x \in Nat /\ first =< x /\ x =< last
    BY <1>6
  <2> HIDE DEF x
  <2>2. x \in 1 .. last
    BY <1>4, <2>1
  <2> QED
    BY <2>2 DEF x
<1>19. \A x \in 1 .. received.samples : \A i \in 1 .. width : x < data[i].n
  <2> SUFFICES ASSUME NEW x \in 1 .. received.samples, NEW i \in 1 .. width PROVE x < data[i].n
    OBVIOUS
  <2> DEFINE y == data[i].n
  <2>1. y \in Nat /\ first =< y
    BY <1>6
  <2> HIDE DEF y
  <2>2. x < y
    BY <1>3, <1>4, <2>1
  <2> QED
    BY <2>2 DEF y
<1>20. BlocksRise'
  <2>1. CASE UNCHANGED <<visualBlocks, told>>
    <3>1. \A b \in 1 .. L : \A i \in 1 .. Len(visualBlocks[b].data) :
              visualBlocks[b].data[i].n \in 1 .. last
      BY <1>16, <1>17
    <3> QED
      BY <1>5, <1>10, <1>15, <2>1, <3>1 DEF BlocksRise, RiseBeyond
  <2>2. CASE Pushed
    <3>1. /\ visualBlocks' \in Seq(VisualBlocks) /\ Len(visualBlocks') = L + 1
          /\ \A b \in 1 .. L : visualBlocks'[b] = visualBlocks[b]
          /\ visualBlocks'[L + 1] = block
      BY <2>2 DEF Pushed
    <3>2. \A b \in 1 .. L + 1 : b \in 1 .. L \/ b = L + 1
      BY <1>9
    <3>3. ASSUME NEW b \in 1 .. L + 1
          PROVE  LET d == visualBlocks'[b].data
                 IN /\ Len(d) > 0 /\ Rising(d)
                    /\ \A i \in 1 .. Len(d) :
                          /\ d[i].n \in 1 .. last /\ d[i].freq = d[1].freq
                          /\ \A a \in accepted : a < d[i].n
                          /\ \A c \in b + 1 .. L + 1 :
                                \A j \in 1 .. Len(visualBlocks'[c].data) :
                                    d[i].n < visualBlocks'[c].data[j].n
      <4>1. CASE b = L + 1
        <5>1. visualBlocks'[b].data = data /\ b + 1 .. L + 1 = {} /\ Len(data) > 0 /\ 1 \in 1 .. width
          BY <1>3, <1>6, <1>8, <1>9, <3>1, <4>1
        <5>2. \A i \in 1 .. width : /\ data[i].n \in 1 .. last /\ data[i].freq = data[1].freq
                                   /\ \A a \in accepted : a < data[i].n
          BY <1>6, <1>9, <1>18, <1>19, <5>1
        <5> QED
          BY <1>6, <5>1, <5>2
      <4>2. CASE b \in 1 .. L
        <5> DEFINE d == visualBlocks[b].data
        <5>1. visualBlocks'[b] = visualBlocks[b]
          BY <3>1, <4>2
        <5>2. /\ Len(d) > 0 /\ Rising(d)
              /\ \A i \in 1 .. Len(d) :
                    /\ d[i].n \in 1 .. received.samples /\ d[i].freq = d[1].freq
                    /\ \A a \in accepted : a < d[i].n
                    /\ \A c \in b + 1 .. L :
                          \A j \in 1 .. Len(visualBlocks[c].data) : d[i].n < visualBlocks[c].data[j].n
          BY <1>15, <4>2 DEF BlocksRise, RiseBeyond
        <5> HIDE DEF d
        <5>3. ASSUME NEW i \in 1 .. Len(d), NEW c \in b + 1 .. L + 1,
                     NEW j \in 1 .. Len(visualBlocks'[c].data)
              PROVE  d[i].n < visualBlocks'[c].data[j].n
          <6>1. (c \in b + 1 .. L /\ c \in 1 .. L) \/ c = L + 1
            BY <1>9, <4>2
          <6>2. CASE c \in b + 1 .. L /\ c \in 1 .. L
            BY <3>1, <5>2, <5>3, <6>2
          <6>3. CASE c = L + 1
            BY <1>6, <1>8, <1>19, <3>1, <5>2, <5>3, <6>3
          <6> QED
            BY <6>1, <6>2, <6>3
        <5>4. \A i \in 1 .. Len(d) : d[i].n \in 1 .. last
          BY <1>17, <5>2
        <5> QED
          BY <5>1, <5>2, <5>3, <5>4 DEF d
      <4> QED
        BY <3>2, <4>1, <4>2
    <3>4. RiseBeyond(visualBlocks', accepted, last)
      BY <3>1, <3>3 DEF RiseBeyond
    <3> QED
      BY <1>5, <1>10, <3>4 DEF BlocksRise
  <2> QED
    BY <1>11, <2>1, <2>2
<1>21. RingIsGapless' /\ LinesAreGapless'
  BY <1>5, <1>15 DEF RingIsGapless, LinesAreGapless
<1>22. HistoryRises'
  <2> DEFINE H == processor.history
  <2>1. /\ processor' = processor /\ Rising(H) /\ Len(H) =< Internal(processor.fftSize)
        /\ \A i \in 1 .. Len(H) : H[i].n =< received.samples
    BY <1>5, <1>15 DEF HistoryRises
  <2>2. H \in Seq(VisualSamples) /\ Len(H) \in Nat /\ \A i \in 1 .. Len(H) : H[i].n \in Nat
    <3>1. H \in Seq(VisualSamples)
      BY <1>3, TypesSay, ProcessorFields
    <3> QED
      <4>1. Len(H) \in Nat /\ \A i \in 1 .. Len(H) : H[i] \in VisualSamples
        BY <3>1, ElementOfSeq, LenProperties
      <4> HIDE DEF H
      <4> QED
        BY <3>1, <4>1 DEF VisualSamples
  <2> HIDE DEF H
  <2>3. \A i \in 1 .. Len(H) : H[i].n =< last /\ H[i].n < first
    <3> SUFFICES ASSUME NEW i \in 1 .. Len(H) PROVE H[i].n =< last /\ H[i].n < first
      OBVIOUS
    <3> DEFINE x == H[i].n
    <3>1. x \in Nat /\ x =< received.samples
      BY <2>1, <2>2
    <3> HIDE DEF x
    <3>2. x =< last /\ x < first
      BY <1>3, <1>4, <3>1
    <3> QED
      BY <3>2 DEF x
  <2>4. \A i \in 1 .. Len(H), j \in 1 .. width : H[i].n < data[j].n
    <3> SUFFICES ASSUME NEW i \in 1 .. Len(H), NEW j \in 1 .. width PROVE H[i].n < data[j].n
      OBVIOUS
    <3> DEFINE x == H[i].n
               y == data[j].n
    <3>1. x \in Nat /\ x < first /\ y \in Nat /\ first =< y
      BY <1>6, <2>2, <2>3
    <3> HIDE DEF x, y
    <3>2. x < y
      BY <1>4, <3>1
    <3> QED
      BY <3>2 DEF x, y
  <2>5. ASSUME way = "direct"
        PROVE  /\ \A i \in 1 .. Len(H) : \A b \in 1 .. Len(visualBlocks') :
                     \A j \in 1 .. Len(visualBlocks'[b].data) : H[i].n < visualBlocks'[b].data[j].n
               /\ \A g \in told' : (GapIsAhead(g) \/ GapIsPast(g))'
    <3>1. /\ \A i \in 1 .. Len(H) : \A b \in 1 .. L :
                \A j \in 1 .. Len(visualBlocks[b].data) : H[i].n < visualBlocks[b].data[j].n
          /\ \A g \in told : GapIsAhead(g) \/ GapIsPast(g)
      BY <1>15, <2>5 DEF HistoryRises, H
    <3>2. CASE UNCHANGED <<visualBlocks, told>>
      BY <2>1, <3>1, <3>2 DEF GapIsAhead, GapIsPast
    <3>3. CASE Pushed
      <4>1. /\ visualBlocks' \in Seq(VisualBlocks) /\ Len(visualBlocks') = L + 1
            /\ \A b \in 1 .. L : visualBlocks'[b] = visualBlocks[b]
            /\ visualBlocks'[L + 1] = block
            /\ told' = IF gap THEN told \cup {first} ELSE told
        BY <3>3 DEF Pushed
      <4>2. /\ \A b \in 1 .. L + 1 : b \in 1 .. L \/ b = L + 1
            /\ L + 1 \in 1 .. L + 1 /\ \A b \in 1 .. L : b \in 1 .. L + 1
        BY <1>9
      <4>3. \A i \in 1 .. Len(H) : \A b \in 1 .. L + 1 :
               \A j \in 1 .. Len(visualBlocks'[b].data) : H[i].n < visualBlocks'[b].data[j].n
        BY <1>6, <1>8, <2>4, <3>1, <4>1, <4>2
      <4>4. ASSUME NEW g \in told, GapIsAhead(g) PROVE GapIsAhead(g)'
        BY <2>1, <4>1, <4>2, <4>4 DEF GapIsAhead
      <4>5. ASSUME NEW g \in told, GapIsPast(g) PROVE GapIsPast(g)'
        <5>1. \A i \in 1 .. width : g =< data[i].n
          <6> SUFFICES ASSUME NEW i \in 1 .. width PROVE g =< data[i].n
            OBVIOUS
          <6> DEFINE y == data[i].n
          <6>1. g \in 1 .. received.samples /\ g < y /\ y \in Nat
            BY <1>6, <1>9, <1>19
          <6> HIDE DEF y
          <6>2. g =< y
            BY <6>1
          <6> QED
            BY <6>2 DEF y
        <5> QED
          BY <1>6, <1>8, <2>1, <4>1, <4>2, <4>5, <5>1 DEF GapIsPast
      <4>6. ASSUME gap PROVE GapIsAhead(first)'
        <5>1. visualBlocks'[L + 1].discontinuity /\ visualBlocks'[L + 1].data[1].n = first
          BY <1>6, <1>8, <4>1, <4>6
        <5> QED
          <6>1. \A i \in 1 .. Len(processor'.history) : processor'.history[i].n < first
            BY <2>1, <2>3 DEF H
          <6>2. \E b \in 1 .. Len(visualBlocks') :
                    visualBlocks'[b].discontinuity /\ visualBlocks'[b].data[1].n = first
            BY <4>1, <4>2, <5>1
          <6> QED
            BY <6>1, <6>2 DEF GapIsAhead
      <4>7. \A g \in told' : g \in told \/ (gap /\ g = first)
        BY <4>1
      <4>8. ASSUME NEW g \in told' PROVE (GapIsAhead(g) \/ GapIsPast(g))'
        BY <3>1, <4>4, <4>5, <4>6, <4>7
      <4> QED
        BY <4>1, <4>3, <4>8
    <3> QED
      BY <1>11, <3>2, <3>3
  <2> QED
    BY <1>5, <1>10, <2>1, <2>3, <2>5 DEF HistoryRises, H
<1>23. CanvasesHold'
  <2>1. \A g \in told' \ told : g \in Nat /\ received.samples < g
    BY <1>4, <1>12
  <2> QED
    BY <1>4, <1>5, <1>10, <2>1, CanvasesGrow
<1> QED
  BY <1>14, <1>20, <1>21, <1>22, <1>23 DEF VisualsInv

-----------------------------------------------------------------------------
(* Visuals: the canvases.                                                  *)

\* The head of a sequence and the rest.
LEMMA TailIs ==
  ASSUME NEW S, NEW s \in Seq(S), s # << >>
  PROVE  /\ Head(s) \in S /\ Head(s) = s[1] /\ 1 \in 1 .. Len(s) /\ Tail(s) \in Seq(S)
         /\ Len(s) \in Nat /\ Len(Tail(s)) = Len(s) - 1
         /\ \A i \in 1 .. Len(Tail(s)) : i + 1 \in 1 .. Len(s) /\ Tail(s)[i] = s[i + 1]
<1>1. Len(s) \in Nat /\ Len(s) > 0
  BY EmptySeq, LenProperties
<1>2. Head(s) = s[1] /\ Tail(s) \in Seq(S) /\ Len(Tail(s)) = Len(s) - 1
      /\ \A i \in 1 .. Len(Tail(s)) : Tail(s)[i] = s[i + 1]
  BY HeadTailProperties
<1> QED
  BY <1>1, <1>2, ElementOfSeq

\* The canvases give up what they hold, and get nothing new.
LEMMA CanvasKeeps ==
  ASSUME VisualsInv,
         UNCHANGED <<way, received, told, accepted, visualBlocks, distributor, fftQueue, visualLoop,
                     processor, pool, contents>>,
         canvasQueues' \in [DOMAIN CanvasMax[way] -> Seq(CanvasItems)],
         drawn' \in CanvasItems \cup {Nothing},
         \A k \in DOMAIN canvasQueues :
            /\ Len(canvasQueues'[k]) =< Len(canvasQueues[k])
            /\ \A i \in 1 .. Len(canvasQueues'[k]) :
                  \E j \in 1 .. Len(canvasQueues[k]) : canvasQueues'[k][i] = canvasQueues[k][j],
         drawn' # Nothing =>
            \E k \in DOMAIN canvasQueues : \E j \in 1 .. Len(canvasQueues[k]) :
                drawn' = canvasQueues[k][j]
  PROVE  VisualsInv'
<1>1. VisualsTypes /\ CanvasesHold
  BY DEF VisualsInv
<1>2. VisualsTypes'
  BY <1>1 DEF VisualsTypes
<1>3. DOMAIN canvasQueues' = DOMAIN canvasQueues
  BY <1>1, TypesSay
<1>4. ASSUME NEW k \in DOMAIN canvasQueues
      PROVE  /\ Len(canvasQueues'[k]) =< CanvasMax[way][k]
             /\ processor.step # "idle" => Len(canvasQueues'[k]) < CanvasMax[way][k]
  <2> DEFINE a == Len(canvasQueues'[k])
             b == Len(canvasQueues[k])
             c == CanvasMax[way][k]
  <2>1. /\ a \in Nat /\ b \in Nat /\ c \in Nat /\ a =< b /\ b =< c
        /\ processor.step # "idle" => b < c
    <3>1. canvasQueues[k] \in Seq(CanvasItems) /\ canvasQueues'[k] \in Seq(CanvasItems) /\ c \in Nat
      BY <1>1, TypesSay
    <3> QED
      BY <1>1, <3>1, LenProperties DEF CanvasesHold
  <2> HIDE DEF a, b, c
  <2>2. a =< c /\ (processor.step # "idle" => a < c)
    BY <2>1
  <2> QED
    BY <2>2 DEF a, c
<1>5. CanvasesHold'
  <2>1. \A k \in DOMAIN canvasQueues : \A i \in 1 .. Len(canvasQueues[k]) :
            IsFrame(canvasQueues[k][i].given) /\ BufferHolds(canvasQueues[k][i])
    BY <1>1 DEF CanvasesHold
  <2>2. ASSUME NEW k \in DOMAIN canvasQueues, NEW i \in 1 .. Len(canvasQueues'[k])
        PROVE  (IsFrame(canvasQueues[k][i].given) /\ BufferHolds(canvasQueues[k][i]))'
    <3>1. PICK s : /\ s = canvasQueues'[k][i] /\ IsFrame(s.given) /\ BufferHolds(s)
      BY <2>1
    <3> QED
      BY <3>1 DEF IsFrame, BufferHolds
  <2>3. drawn' # Nothing => IsFrame(drawn.given)' /\ BufferHolds(drawn)'
    BY <2>1 DEF IsFrame, BufferHolds
  <2> QED
    BY <1>1, <1>3, <1>4, <2>2, <2>3 DEF CanvasesHold
<1>6. UNCHANGED <<way, told, accepted, visualBlocks, fftQueue, received, distributor, processor>>
  OBVIOUS
<1>7. HistoryRises'
  BY <1>6 DEF VisualsInv, HistoryRises, GapIsAhead, GapIsPast, Rising
<1> QED
  BY <1>2, <1>5, <1>6, <1>7, NothingMoves DEF VisualsInv

\* DrawNext, Drawn and FlushCanvas.
LEMMA GUIKeeps ==
  ASSUME VisualsInv, (\E k \in DOMAIN canvasQueues : DrawNext(k)) \/ Drawn \/ FlushCanvas
  PROVE  VisualsInv'
<1>1. /\ VisualsTypes /\ canvasQueues \in [DOMAIN CanvasMax[way] -> Seq(CanvasItems)]
      /\ drawn \in CanvasItems \cup {Nothing}
      /\ DOMAIN canvasQueues = DOMAIN CanvasMax[way]
      /\ \A k \in DOMAIN canvasQueues : canvasQueues[k] \in Seq(CanvasItems)
  BY TypesSay DEF VisualsInv, VisualsTypes
<1>2. UNCHANGED <<way, received, told, accepted, visualBlocks, distributor, fftQueue, visualLoop,
                  processor, pool, contents>>
  BY DEF DrawNext, Drawn, FlushCanvas, outsideSettings
<1>3. ASSUME NEW k \in DOMAIN canvasQueues, DrawNext(k) PROVE VisualsInv'
  <2>1. /\ canvasQueues[k] # << >> /\ drawn' = Head(canvasQueues[k])
        /\ canvasQueues' = [canvasQueues EXCEPT ![k] = Tail(canvasQueues[k])]
    BY <1>3 DEF DrawNext
  <2>2. /\ Head(canvasQueues[k]) \in CanvasItems /\ Head(canvasQueues[k]) = canvasQueues[k][1]
        /\ 1 \in 1 .. Len(canvasQueues[k]) /\ Tail(canvasQueues[k]) \in Seq(CanvasItems)
        /\ Len(canvasQueues[k]) \in Nat
        /\ Len(Tail(canvasQueues[k])) = Len(canvasQueues[k]) - 1
        /\ \A i \in 1 .. Len(Tail(canvasQueues[k])) :
              /\ i + 1 \in 1 .. Len(canvasQueues[k])
              /\ Tail(canvasQueues[k])[i] = canvasQueues[k][i + 1]
    BY <1>1, <2>1, TailIs
  <2>3. canvasQueues' \in [DOMAIN CanvasMax[way] -> Seq(CanvasItems)]
    BY <1>1, <2>1, <2>2
  <2>4. ASSUME NEW l \in DOMAIN canvasQueues
        PROVE  /\ Len(canvasQueues'[l]) =< Len(canvasQueues[l])
               /\ \A i \in 1 .. Len(canvasQueues'[l]) :
                     \E j \in 1 .. Len(canvasQueues[l]) : canvasQueues'[l][i] = canvasQueues[l][j]
    <3>1. CASE l = k
      <4>1. canvasQueues'[l] = Tail(canvasQueues[k])
        BY <2>1, <3>1
      <4> QED
        BY <2>2, <3>1, <4>1
    <3>2. CASE l # k
      <4>1. canvasQueues'[l] = canvasQueues[l] /\ Len(canvasQueues[l]) \in Nat
        BY <1>1, <2>1, <3>2, LenProperties
      <4> QED
        BY <4>1
    <3> QED
      BY <3>1, <3>2
  <2>5. drawn' \in CanvasItems /\ \E j \in 1 .. Len(canvasQueues[k]) : drawn' = canvasQueues[k][j]
    BY <2>1, <2>2
  <2> QED
    BY <1>2, <2>3, <2>4, <2>5, CanvasKeeps
<1>4. ASSUME Drawn PROVE VisualsInv'
  <2>1. drawn' = Nothing /\ canvasQueues' = canvasQueues
    BY <1>4 DEF Drawn
  <2>2. \A k \in DOMAIN canvasQueues : Len(canvasQueues[k]) \in Nat
    BY <1>1, LenProperties
  <2> QED
    BY <1>1, <1>2, <2>1, <2>2, CanvasKeeps
<1>5. ASSUME FlushCanvas PROVE VisualsInv'
  <2>1. drawn' = drawn /\ drawn = Nothing /\ canvasQueues' = [k \in DOMAIN canvasQueues |-> << >>]
    BY <1>5 DEF FlushCanvas
  <2>2. \A k \in DOMAIN canvasQueues : Len(canvasQueues[k]) \in Nat /\ Len(canvasQueues'[k]) = 0
    BY <1>1, <2>1, LenProperties
  <2>3. canvasQueues' \in [DOMAIN CanvasMax[way] -> Seq(CanvasItems)]
    BY <1>1, <2>1
  <2> QED
    BY <1>1, <1>2, <2>1, <2>2, <2>3, CanvasKeeps
<1> QED
  BY <1>3, <1>4, <1>5

-----------------------------------------------------------------------------
(* Visuals: a block is taken.                                              *)

\* The blocks behind it are newer than all of it, whatever the distributor took of it.
LEMMA TailRises ==
  ASSUME BlocksRise, visualBlocks \in Seq(VisualBlocks), visualBlocks # << >>,
         visualBlocks' = Tail(visualBlocks), received'.samples = received.samples,
         \A a \in accepted' : \/ a \in accepted
                              \/ \E i \in 1 .. Len(visualBlocks[1].data) :
                                    a = visualBlocks[1].data[i].n
  PROVE  BlocksRise'
<1> DEFINE old == visualBlocks
           new == visualBlocks'
           L == Len(visualBlocks)
<1>1. /\ L \in Nat /\ Len(new) = L - 1 /\ 1 \in 1 .. L
      /\ \A b \in 1 .. Len(new) : b + 1 \in 1 .. L /\ new[b] = old[b + 1]
  BY TailIs
<1>2. ASSUME NEW b \in 1 .. Len(new)
      PROVE  LET data == new[b].data
             IN /\ Len(data) > 0 /\ Rising(data)
                /\ \A i \in 1 .. Len(data) :
                      /\ data[i].n \in 1 .. received.samples /\ data[i].freq = data[1].freq
                      /\ \A a \in accepted' : a < data[i].n
                      /\ \A c \in b + 1 .. Len(new) :
                            \A j \in 1 .. Len(new[c].data) : data[i].n < new[c].data[j].n
  <2> DEFINE data == old[b + 1].data
  <2>1. new[b].data = data /\ b + 1 \in 1 .. L
    BY <1>1
  <2>2. /\ Len(data) > 0 /\ Rising(data)
        /\ \A i \in 1 .. Len(data) :
              /\ data[i].n \in 1 .. received.samples /\ data[i].freq = data[1].freq
              /\ \A a \in accepted : a < data[i].n
              /\ \A c \in (b + 1) + 1 .. L :
                    \A j \in 1 .. Len(old[c].data) : data[i].n < old[c].data[j].n
    BY <2>1 DEF BlocksRise, RiseBeyond
  <2>3. b + 1 \in 1 + 1 .. L
    BY <1>1, <2>1
  <2>4. \A i \in 1 .. Len(old[1].data), j \in 1 .. Len(data) : old[1].data[i].n < data[j].n
    BY <1>1, <2>3 DEF BlocksRise, RiseBeyond
  <2>5. \A c \in b + 1 .. Len(new) : c \in 1 .. Len(new) /\ c + 1 \in (b + 1) + 1 .. L
    BY <1>1
  <2> HIDE DEF data, old, new
  <2>6. ASSUME NEW i \in 1 .. Len(data), NEW a \in accepted' PROVE a < data[i].n
    BY <2>2, <2>4 DEF old
  <2>7. ASSUME NEW i \in 1 .. Len(data), NEW c \in b + 1 .. Len(new), NEW j \in 1 .. Len(new[c].data)
        PROVE  data[i].n < new[c].data[j].n
    BY <1>1, <2>2, <2>5, <2>7
  <2> QED
    BY <2>1, <2>2, <2>6, <2>7
<1>3. RiseBeyond(new, accepted', received.samples)
  <2> HIDE DEF new
  <2> QED
    BY <1>2 DEF RiseBeyond
<1> QED
  BY <1>3 DEF BlocksRise

\* What is made of the history and of the view of the first block.
LEMMA FrameWorks ==
  ASSUME VisualsInv, NEW input, input = ProcessorInput, input # << >>,
         NEW frame, frame = AppendSamples(HistoryAfter(processor, Head(input).discontinuity),
                                          Viewed(processor, Head(input).data),
                                          Internal(processor.fftSize))
  PROVE  /\ Head(input) = input[1] /\ input \in Seq(VisualBlocks)
         /\ frame \in Seq(VisualSamples) /\ Rising(frame)
         /\ Len(frame) \in Nat /\ Len(frame) =< Internal(processor.fftSize)
         /\ \A k \in 1 .. Len(frame) :
               \/ \E j \in 1 .. Len(input[1].data) : frame[k] = input[1].data[j]
               \/ /\ ~input[1].discontinuity
                  /\ \E i \in 1 .. Len(processor.history) : frame[k] = processor.history[i]
         /\ way = "lines" => LineSample(frame, accepted)
<1> DEFINE width == Internal(processor.fftSize)
           block == input[1]
           hist == HistoryAfter(processor, block.discontinuity)
           view == Viewed(processor, block.data)
<1>1. /\ processor \in Processors /\ way \in Ways
      /\ visualBlocks \in Seq(VisualBlocks) /\ fftQueue \in Seq(VisualBlocks)
  BY TypesSay DEF VisualsInv, VisualsTypes
<1>2. /\ processor.history \in Seq(VisualSamples) /\ width \in Nat \ {0}
      /\ FFTSizes \subseteq Nat \ {0}
  BY <1>1, ProcessorFields, VisualsAssumption
<1>3. input \in Seq(VisualBlocks)
  BY <1>1 DEF ProcessorInput
<1>4. Head(input) = block /\ block \in VisualBlocks /\ 1 \in 1 .. Len(input)
  BY <1>3, TailIs
<1>5. block.data \in Seq(VisualSamples) /\ block.discontinuity \in BOOLEAN
  BY <1>4 DEF VisualBlocks
<1>6. BlocksRise /\ LinesAreGapless /\ HistoryRises
  BY DEF VisualsInv
<1>7. Rising(block.data)
  <2>1. CASE way = "lines"
    BY <1>4, <1>6, <2>1 DEF LinesAreGapless, GaplessIn, ProcessorInput
  <2>2. CASE way # "lines"
    BY <1>4, <1>6, <2>2 DEF BlocksRise, RiseBeyond, ProcessorInput
  <2> QED
    BY <2>1, <2>2
<1>8. /\ view \in Seq(VisualSamples) /\ Rising(view)
      /\ \A k \in 1 .. Len(view) : \E j \in 1 .. Len(block.data) : view[k] = block.data[j]
  BY <1>1, <1>2, <1>5, <1>7, ViewedWorks
<1>9. /\ hist \in Seq(VisualSamples) /\ Len(hist) =< width /\ Rising(hist)
      /\ \A i \in 1 .. Len(hist) : ~block.discontinuity /\ \E h \in 1 .. Len(processor.history) :
                                                              hist[i] = processor.history[h]
  <2>1. CASE block.discontinuity
    <3>1. hist = << >> /\ Len(hist) = 0
      BY <2>1 DEF HistoryAfter
    <3> HIDE DEF hist, width
    <3> QED
      BY <1>2, <3>1 DEF Rising
  <2>2. CASE ~block.discontinuity
    <3>1. hist = processor.history
      BY <2>2 DEF HistoryAfter
    <3> HIDE DEF hist
    <3> QED
      BY <1>2, <1>6, <2>2, <3>1 DEF HistoryRises
  <2> QED
    BY <2>1, <2>2
<1>10. \A i \in 1 .. Len(hist), j \in 1 .. Len(view) : hist[i].n < view[j].n
  <2> SUFFICES ASSUME NEW i \in 1 .. Len(hist), NEW j \in 1 .. Len(view) PROVE hist[i].n < view[j].n
    OBVIOUS
  <2> HIDE DEF hist, view
  <2>1. PICK h \in 1 .. Len(processor.history) : hist[i] = processor.history[h]
    BY <1>9
  <2>2. PICK l \in 1 .. Len(block.data) : view[j] = block.data[l]
    BY <1>8
  <2>3. way = "direct" /\ block = visualBlocks[1] /\ 1 \in 1 .. Len(visualBlocks)
    <3>1. ~block.discontinuity
      BY <1>9
    <3>2. way # "lines"
      BY <1>4, <1>6, <3>1 DEF LinesAreGapless, ProcessorInput
    <3> QED
      BY <1>1, <1>4, <3>2 DEF Ways, ProcessorInput
  <2>4. processor.history[h].n < block.data[l].n
    BY <1>6, <2>3 DEF HistoryRises
  <2> QED
    BY <2>1, <2>2, <2>4
<1>11. frame = AppendSamples(hist, view, width)
  BY <1>4
<1>14. ASSUME way = "lines" PROVE LineSample(view, accepted) /\ hist = << >>
  <2>1. block.discontinuity = TRUE /\ GaplessIn(block.data, accepted)
    BY <1>4, <1>6, <1>14 DEF LinesAreGapless, ProcessorInput
  <2>2. accepted \in SUBSET Nat
    BY TypesSay DEF VisualsInv, VisualsTypes
  <2> QED
    BY <1>1, <1>2, <1>5, <2>1, <2>2, ViewedOfLine DEF HistoryAfter
<1> HIDE DEF hist, view, width
<1>15. ASSUME way = "lines" PROVE LineSample(frame, accepted)
  <2>1. Len(view) \in Nat /\ hist = << >> /\ Len(hist) = 0 /\ << >> \o view = view
    BY <1>8, <1>14, <1>15, LenProperties, ConcatEmptySeq
  <2>2. frame = view \/ (width \in 0 .. Len(view) /\ frame = LastOf(view, width))
    BY <1>2, <1>11, <2>1 DEF AppendSamples
  <2> QED
    BY <1>8, <1>14, <1>15, <2>2, LastOfLine
<1>12. /\ frame \in Seq(VisualSamples) /\ Len(frame) =< width
       /\ Rising(frame) /\ MadeOf(frame, hist, view)
  BY <1>2, <1>8, <1>9, <1>10, <1>11, AppendSamplesWorks
<1>13. \A k \in 1 .. Len(frame) :
          \/ \E j \in 1 .. Len(block.data) : frame[k] = block.data[j]
          \/ /\ ~block.discontinuity
             /\ \E i \in 1 .. Len(processor.history) : frame[k] = processor.history[i]
  BY <1>8, <1>9, <1>12 DEF MadeOf
<1> QED
  BY <1>3, <1>4, <1>12, <1>13, <1>15, LenProperties DEF width

\* Whatever was collected, a gap that was told parts it from what waits, or is before or behind all.
LEMMA GapsAreKept ==
  ASSUME VisualsInv, way = "direct", visualBlocks # << >>,
         NEW frame \in Seq(VisualSamples),
         \A k \in 1 .. Len(frame) :
               \/ \E j \in 1 .. Len(visualBlocks[1].data) : frame[k] = visualBlocks[1].data[j]
               \/ /\ ~visualBlocks[1].discontinuity
                  /\ \E i \in 1 .. Len(processor.history) : frame[k] = processor.history[i],
         processor'.history = frame, visualBlocks' = Tail(visualBlocks), UNCHANGED told
  PROVE  /\ \A g \in told' : (GapIsAhead(g) \/ GapIsPast(g))'
         /\ \A g \in told : \/ \A i \in 1 .. Len(frame) : frame[i].n < g
                            \/ \A i \in 1 .. Len(frame) : g =< frame[i].n
         /\ \A i \in 1 .. Len(frame) : \A b \in 1 .. Len(visualBlocks') :
               \A j \in 1 .. Len(visualBlocks'[b].data) : frame[i].n < visualBlocks'[b].data[j].n
         /\ \A i \in 1 .. Len(frame) : frame[i].n =< received.samples
<1> DEFINE L == Len(visualBlocks)
           data(b) == visualBlocks[b].data
<1>1. /\ visualBlocks \in Seq(VisualBlocks) /\ told \in SUBSET Nat /\ received.samples \in Nat
      /\ BlocksRise /\ HistoryRises
  BY TypesSay DEF VisualsInv, VisualsTypes
<1>2. /\ L \in Nat /\ Len(visualBlocks') = L - 1 /\ 1 \in 1 .. L
      /\ \A b \in 1 .. Len(visualBlocks') : b + 1 \in 1 .. L /\ visualBlocks'[b] = visualBlocks[b + 1]
  BY <1>1, TailIs
<1>3. ASSUME NEW b \in 1 .. L
      PROVE  /\ Len(data(b)) \in Nat /\ Len(data(b)) > 0 /\ 1 \in 1 .. Len(data(b))
             /\ \A i \in 1 .. Len(data(b)) : data(b)[i].n \in Nat
             /\ \A i \in 1 .. Len(data(b)) : i = 1 \/ data(b)[1].n < data(b)[i].n
  <2>1. data(b) \in Seq(VisualSamples)
    <3>1. visualBlocks[b] \in VisualBlocks
      BY <1>1, <1>3, ElementOfSeq
    <3> QED
      BY <3>1 DEF VisualBlocks
  <2>2. Len(data(b)) > 0 /\ Rising(data(b))
    BY <1>1, <1>3 DEF BlocksRise, RiseBeyond
  <2>3. Len(data(b)) \in Nat /\ \A i \in 1 .. Len(data(b)) : data(b)[i] \in VisualSamples
    BY <2>1, LenProperties, ElementOfSeq
  <2> HIDE DEF data
  <2>4. \A i \in 1 .. Len(data(b)) : data(b)[i].n \in Nat
    BY <2>3 DEF VisualSamples
  <2> QED
    BY <2>2, <2>3, <2>4 DEF Rising
<1>4. \A b \in 2 .. L : \A i \in 1 .. Len(data(1)), j \in 1 .. Len(data(b)) :
          data(1)[i].n < data(b)[j].n
  <2>1. \A b \in 2 .. L : b \in 1 + 1 .. L
    BY <1>2
  <2>2. \A i \in 1 .. Len(data(1)) : \A b \in 1 + 1 .. L : \A j \in 1 .. Len(data(b)) :
           data(1)[i].n < data(b)[j].n
    BY <1>1, <1>2 DEF BlocksRise, RiseBeyond
  <2> HIDE DEF data
  <2> QED
    BY <2>1, <2>2
<1>5. /\ \A i \in 1 .. Len(processor.history) : \A b \in 1 .. L :
            \A j \in 1 .. Len(data(b)) : processor.history[i].n < data(b)[j].n
      /\ \A i \in 1 .. Len(processor.history) : processor.history[i].n =< received.samples
      /\ \A g \in told : GapIsAhead(g) \/ GapIsPast(g)
  BY <1>1 DEF HistoryRises
<1>6. \A i \in 1 .. Len(data(1)) : data(1)[i].n =< received.samples
  <2> DEFINE r == received.samples
  <2>1. \A i \in 1 .. Len(data(1)) : data(1)[i].n \in 1 .. r
    BY <1>1, <1>2 DEF BlocksRise, RiseBeyond
  <2>2. \A x \in 1 .. r : x =< r
    BY <1>1
  <2> HIDE DEF r
  <2>3. \A i \in 1 .. Len(data(1)) : data(1)[i].n =< r
    BY <2>1, <2>2
  <2> QED
    BY <2>3 DEF r
<1>7. \A k \in 1 .. Len(frame) :
          \/ \E j \in 1 .. Len(data(1)) : frame[k] = data(1)[j]
          \/ /\ ~visualBlocks[1].discontinuity
             /\ \E i \in 1 .. Len(processor.history) : frame[k] = processor.history[i]
  OBVIOUS
<1>8. \A b \in 1 .. Len(visualBlocks') : /\ b + 1 \in 2 .. L /\ b + 1 \in 1 .. L
                                         /\ visualBlocks'[b].data = data(b + 1)
                                         /\ visualBlocks'[b].discontinuity = visualBlocks[b + 1].discontinuity
  BY <1>2
<1>9. \A k \in 1 .. Len(frame) : frame[k].n \in Nat
  <2>1. \A k \in 1 .. Len(frame) : frame[k] \in VisualSamples
    BY ElementOfSeq
  <2> QED
    BY <2>1 DEF VisualSamples
<1>10. ASSUME NEW g \in told, GapIsPast(g)
       PROVE  GapIsPast(g)' /\ \A i \in 1 .. Len(frame) : g =< frame[i].n
  <2>1. /\ \A i \in 1 .. Len(processor.history) : g =< processor.history[i].n
        /\ \A b \in 1 .. L : \A i \in 1 .. Len(data(b)) : g =< data(b)[i].n
    BY <1>10 DEF GapIsPast
  <2> HIDE DEF data
  <2>2. \A i \in 1 .. Len(frame) : g =< frame[i].n
    BY <1>2, <1>7, <2>1
  <2>3. \A b \in 1 .. Len(visualBlocks') :
           \A i \in 1 .. Len(visualBlocks'[b].data) : g =< visualBlocks'[b].data[i].n
    BY <1>8, <2>1
  <2> QED
    BY <2>2, <2>3 DEF GapIsPast
<1>11. ASSUME NEW g \in told, GapIsAhead(g)
       PROVE  \/ GapIsPast(g)' /\ \A i \in 1 .. Len(frame) : g =< frame[i].n
              \/ GapIsAhead(g)' /\ \A i \in 1 .. Len(frame) : frame[i].n < g
  <2>1. PICK b \in 1 .. L : visualBlocks[b].discontinuity /\ data(b)[1].n = g
    BY <1>11 DEF GapIsAhead
  <2>2. \A i \in 1 .. Len(processor.history) : processor.history[i].n < g
    BY <1>11 DEF GapIsAhead
  <2>3. CASE b = 1
    <3>1. \A i \in 1 .. Len(data(1)) : i = 1 \/ g < data(1)[i].n
      BY <1>2, <1>3, <2>1, <2>3
    <3>2. g = data(1)[1].n /\ g \in Nat
      BY <1>1, <2>1, <2>3
    <3> HIDE DEF data
    <3>3. \A i \in 1 .. Len(frame) : \E j \in 1 .. Len(data(1)) : frame[i] = data(1)[j]
      BY <1>7, <2>1, <2>3
    <3>4. ASSUME NEW i \in 1 .. Len(frame) PROVE g =< frame[i].n
      <4> DEFINE x == frame[i].n
      <4>1. x \in Nat /\ (x = g \/ g < x)
        BY <1>9, <3>1, <3>2, <3>3, <3>4
      <4> HIDE DEF x
      <4>2. g =< x
        BY <3>2, <4>1
      <4> QED
        BY <4>2 DEF x
    <3>5. ASSUME NEW c \in 1 .. Len(visualBlocks'), NEW i \in 1 .. Len(visualBlocks'[c].data)
          PROVE  g =< visualBlocks'[c].data[i].n
      <4>1. /\ c + 1 \in 2 .. L /\ c + 1 \in 1 .. L /\ visualBlocks'[c].data = data(c + 1)
            /\ i \in 1 .. Len(data(c + 1)) /\ 1 \in 1 .. Len(data(1))
        BY <1>2, <1>3, <1>8, <3>5
      <4> DEFINE x == data(c + 1)[i].n
      <4>2. x \in Nat
        BY <1>3, <4>1
      <4>3. g < x
        BY <1>4, <3>2, <4>1
      <4> HIDE DEF x
      <4>4. g =< x
        BY <3>2, <4>2, <4>3
      <4> QED
        BY <4>1, <4>4 DEF x
    <3> QED
      BY <3>4, <3>5 DEF GapIsPast
  <2>4. CASE b # 1
    <3> DEFINE c == b - 1
    <3>1. b \in 2 .. L /\ c \in 1 .. Len(visualBlocks') /\ c + 1 = b
      BY <1>2, <2>4
    <3>2. \A i \in 1 .. Len(data(1)) : data(1)[i].n < g
      BY <1>3, <1>4, <2>1, <3>1
    <3> HIDE DEF data, c
    <3>3. \A i \in 1 .. Len(frame) : frame[i].n < g
      BY <1>7, <2>2, <3>2
    <3>4. visualBlocks'[c].discontinuity /\ visualBlocks'[c].data[1].n = g
      BY <1>8, <2>1, <3>1
    <3> QED
      BY <3>1, <3>3, <3>4 DEF GapIsAhead
  <2> QED
    BY <2>3, <2>4
<1>12. \A i \in 1 .. Len(frame) : \A b \in 1 .. Len(visualBlocks') :
          \A j \in 1 .. Len(visualBlocks'[b].data) : frame[i].n < visualBlocks'[b].data[j].n
  <2> HIDE DEF data
  <2> SUFFICES ASSUME NEW i \in 1 .. Len(frame), NEW b \in 1 .. Len(visualBlocks'),
                      NEW j \in 1 .. Len(visualBlocks'[b].data)
               PROVE  frame[i].n < visualBlocks'[b].data[j].n
    OBVIOUS
  <2>1. /\ b + 1 \in 2 .. L /\ b + 1 \in 1 .. L /\ visualBlocks'[b].data = data(b + 1)
        /\ j \in 1 .. Len(data(b + 1))
    BY <1>8
  <2>2. CASE \E l \in 1 .. Len(data(1)) : frame[i] = data(1)[l]
    BY <1>4, <2>1, <2>2
  <2>3. CASE \E h \in 1 .. Len(processor.history) : frame[i] = processor.history[h]
    BY <1>5, <2>1, <2>3
  <2> QED
    BY <1>7, <2>2, <2>3
<1>13. \A i \in 1 .. Len(frame) : frame[i].n =< received.samples
  <2> HIDE DEF data
  <2> QED
    BY <1>5, <1>6, <1>7
<1> QED
  BY <1>5, <1>10, <1>11, <1>12, <1>13

\* Process.
LEMMA ProcessKeeps ==
  ASSUME VisualsInv, Process
  PROVE  VisualsInv'
<1>1. PICK input : input = ProcessorInput
  OBVIOUS
<1>2. PICK frame : frame = AppendSamples(HistoryAfter(processor, Head(input).discontinuity),
                                         Viewed(processor, Head(input).data),
                                         Internal(processor.fftSize))
  OBVIOUS
<1>3. PICK got : got = GetBuffer(pool, Held)
  OBVIOUS
<1>4. /\ processor.step = "pop" /\ input # << >>
      /\ processor' = [processor EXCEPT !.step = "idle", !.desired = Desired(processor),
                                        !.history = frame]
      /\ \/ UNCHANGED <<pool, contents, canvasQueues>>
         \/ /\ pool' = got.pool
            /\ contents' = [b \in 1 .. Max({Len(contents), got.buffer}) |->
                               IF b = got.buffer THEN frame ELSE contents[b]]
            /\ canvasQueues' = [k \in DOMAIN canvasQueues |->
                   Append(canvasQueues[k], [buffer |-> got.buffer, given |-> frame])]
      /\ IF way = "lines" THEN fftQueue' = Tail(fftQueue) /\ visualBlocks' = visualBlocks
                          ELSE visualBlocks' = Tail(visualBlocks) /\ fftQueue' = fftQueue
      /\ UNCHANGED <<way, received, told, accepted, distributor, visualLoop, drawn, visualEvents>>
  BY <1>1, <1>2, <1>3 DEF Process, outsideProcessor
<1>5. /\ VisualsTypes /\ BlocksRise /\ RingIsGapless /\ LinesAreGapless /\ HistoryRises /\ CanvasesHold
      /\ way \in Ways /\ processor \in Processors
      /\ visualBlocks \in Seq(VisualBlocks) /\ fftQueue \in Seq(VisualBlocks)
      /\ pool \in Seq(PoolEntries)
  BY TypesSay DEF VisualsInv, VisualsTypes
<1>6. /\ input \in Seq(VisualBlocks) /\ frame \in Seq(VisualSamples) /\ Rising(frame)
      /\ Len(frame) \in Nat /\ Len(frame) =< Internal(processor.fftSize)
      /\ \A k \in 1 .. Len(frame) :
            \/ \E j \in 1 .. Len(input[1].data) : frame[k] = input[1].data[j]
            \/ /\ ~input[1].discontinuity
               /\ \E i \in 1 .. Len(processor.history) : frame[k] = processor.history[i]
      /\ way = "lines" => LineSample(frame, accepted)
  BY <1>1, <1>2, <1>4, FrameWorks
<1>7. /\ processor' \in Processors /\ processor'.history = frame /\ processor'.step = "idle"
      /\ processor'.fftSize = processor.fftSize
      /\ processor'.fftSizeChanged = processor.fftSizeChanged
      /\ processor'.newFFTSize = processor.newFFTSize
  <2> DEFINE desired == Desired(processor)
  <2>1. desired \in Nat
    BY <1>5, ProcessorFields
  <2>2. processor' = [processor EXCEPT !.step = "idle", !.desired = desired, !.history = frame]
    BY <1>4
  <2> HIDE DEF desired
  <2> QED
    BY <1>5, <1>6, <2>1, <2>2 DEF Processors
<1>8. got.buffer \in Nat \ {0} /\ got.buffer \notin Held /\ got.pool \in Seq(PoolEntries)
  BY <1>3, <1>5, HeldWorks, GetBufferWorks
<1>9. visualBlocks' \in Seq(VisualBlocks) /\ fftQueue' \in Seq(VisualBlocks)
  <2>1. CASE way = "lines"
    <3>1. fftQueue # << >> /\ fftQueue' = Tail(fftQueue) /\ visualBlocks' = visualBlocks
      BY <1>1, <1>4, <2>1 DEF ProcessorInput
    <3> QED
      BY <1>5, <3>1, TailIs
  <2>2. CASE way # "lines"
    <3>1. visualBlocks # << >> /\ visualBlocks' = Tail(visualBlocks) /\ fftQueue' = fftQueue
      BY <1>1, <1>4, <2>2 DEF ProcessorInput
    <3> QED
      BY <1>5, <3>1, TailIs
  <2> QED
    BY <2>1, <2>2
<1> DEFINE item == [buffer |-> got.buffer, given |-> frame]
<1>10. item \in CanvasItems /\ item.buffer = got.buffer /\ item.given = frame
  BY <1>6, <1>8 DEF CanvasItems
<1> HIDE DEF item
<1>11. \/ UNCHANGED <<pool, contents, canvasQueues>>
       \/ /\ pool' = got.pool
          /\ contents' = [b \in 1 .. Max({Len(contents), got.buffer}) |->
                             IF b = got.buffer THEN frame ELSE contents[b]]
          /\ canvasQueues' = [k \in DOMAIN canvasQueues |-> Append(canvasQueues[k], item)]
  BY <1>4 DEF item
<1>12. /\ canvasQueues \in [DOMAIN CanvasMax[way] -> Seq(CanvasItems)]
       /\ DOMAIN canvasQueues = DOMAIN CanvasMax[way]
       /\ \A k \in DOMAIN canvasQueues : canvasQueues[k] \in Seq(CanvasItems)
                                         /\ CanvasMax[way][k] \in Nat
  BY <1>5, TypesSay DEF VisualsTypes
<1>13. /\ canvasQueues' \in [DOMAIN CanvasMax[way] -> Seq(CanvasItems)]
       /\ pool' \in Seq(PoolEntries)
  <2>1. \A k \in DOMAIN canvasQueues : Append(canvasQueues[k], item) \in Seq(CanvasItems)
    BY <1>10, <1>12, AppendProperties
  <2> QED
    <3>1. pool' \in Seq(PoolEntries)
      BY <1>5, <1>8, <1>11
    <3>2. CASE canvasQueues' = canvasQueues
      BY <1>12, <3>1, <3>2
    <3>3. CASE canvasQueues' = [k \in DOMAIN canvasQueues |-> Append(canvasQueues[k], item)]
      BY <1>12, <2>1, <3>1, <3>3
    <3> QED
      BY <1>11, <3>2, <3>3
<1>14. VisualsTypes'
  BY <1>4, <1>5, <1>7, <1>9, <1>13 DEF VisualsTypes
<1>15. /\ RingIsGapless'
       /\ way = "lines" => BlocksRise' /\ LinesAreGapless'
       /\ way = "direct" => BlocksRise' /\ LinesAreGapless'
  <2>1. RingIsGapless'
    BY <1>4, <1>5 DEF RingIsGapless
  <2>2. ASSUME way = "lines" PROVE BlocksRise' /\ LinesAreGapless'
    <3>1. fftQueue # << >> /\ fftQueue' = Tail(fftQueue) /\ visualBlocks' = visualBlocks
      BY <1>1, <1>4, <2>2 DEF ProcessorInput
    <3>2. \A k \in 1 .. Len(fftQueue') : k + 1 \in 1 .. Len(fftQueue) /\ fftQueue'[k] = fftQueue[k + 1]
      BY <1>5, <3>1, TailIs
    <3>3. LinesAreGapless'
      BY <1>4, <1>5, <3>2 DEF LinesAreGapless
    <3> QED
      BY <1>4, <1>5, <3>1, <3>3 DEF BlocksRise, RiseBeyond
  <2>3. ASSUME way = "direct" PROVE BlocksRise' /\ LinesAreGapless'
    <3>1. visualBlocks # << >> /\ visualBlocks' = Tail(visualBlocks) /\ fftQueue' = fftQueue
      BY <1>1, <1>4, <2>3 DEF ProcessorInput
    <3>2. BlocksRise'
      BY <1>4, <1>5, <3>1, TailRises
    <3> QED
      BY <1>4, <1>5, <3>1, <3>2 DEF LinesAreGapless
  <2> QED
    BY <2>1, <2>2, <2>3
<1>16. HistoryRises' /\ IsFrame(frame)
  <2>1. CASE way = "lines"
    <3>1. \A k \in 1 .. Len(frame) : frame[k].n =< received.samples
      <4>1. input = fftQueue /\ 1 \in 1 .. Len(fftQueue)
        BY <1>1, <1>4, <1>5, <2>1, TailIs DEF ProcessorInput
      <4> DEFINE r == received.samples
                 data == input[1].data
      <4>2. r \in Nat /\ accepted \in SUBSET (1 .. r)
        BY <1>5, TypesSay DEF VisualsTypes
      <4>3. input[1].discontinuity /\ \A i \in 1 .. Len(data) : data[i].n \in accepted
        BY <1>5, <4>1 DEF LinesAreGapless, GaplessIn
      <4>4. \A x \in accepted : x =< r
        <5> HIDE DEF r
        <5> QED
          BY <4>2
      <4> HIDE DEF r
      <4>5. \A k \in 1 .. Len(frame) : frame[k].n =< r
        BY <1>6, <4>3, <4>4
      <4> QED
        BY <4>5 DEF r
    <3>2. way # "direct" /\ way' = way /\ received' = received
      BY <1>4, <2>1
    <3> QED
      BY <1>6, <1>7, <3>1, <3>2 DEF HistoryRises, IsFrame
  <2>2. CASE way = "direct"
    <3>1. visualBlocks # << >> /\ visualBlocks' = Tail(visualBlocks) /\ input = visualBlocks
      BY <1>1, <1>4, <2>2 DEF ProcessorInput
    <3>2. /\ \A g \in told' : (GapIsAhead(g) \/ GapIsPast(g))'
          /\ \A g \in told : \/ \A i \in 1 .. Len(frame) : frame[i].n < g
                             \/ \A i \in 1 .. Len(frame) : g =< frame[i].n
          /\ \A i \in 1 .. Len(frame) : \A b \in 1 .. Len(visualBlocks') :
                \A j \in 1 .. Len(visualBlocks'[b].data) : frame[i].n < visualBlocks'[b].data[j].n
          /\ \A i \in 1 .. Len(frame) : frame[i].n =< received.samples
      BY <1>4, <1>6, <1>7, <2>2, <3>1, GapsAreKept
    <3>3. IsFrame(frame)
      BY <1>6, <2>2, <3>2 DEF IsFrame
    <3> QED
      BY <1>4, <1>6, <1>7, <3>2, <3>3 DEF HistoryRises
  <2> QED
    BY <1>5, <2>1, <2>2 DEF Ways
<1>17. CanvasesHold'
  <2>1. CASE UNCHANGED <<pool, contents, canvasQueues>>
    BY <1>4, <1>7, <2>1, CanvasesStay
  <2>2. CASE /\ contents' = [b \in 1 .. Max({Len(contents), got.buffer}) |->
                               IF b = got.buffer THEN frame ELSE contents[b]]
             /\ canvasQueues' = [k \in DOMAIN canvasQueues |-> Append(canvasQueues[k], item)]
    <3> DEFINE m == Max({Len(contents), got.buffer})
               n == Len(contents)
    <3>1. m \in Nat /\ got.buffer \in 1 .. m /\ DOMAIN contents = 1 .. n /\ \A b \in 1 .. n : b \in 1 .. m
      <4>1. n \in Nat /\ DOMAIN contents = 1 .. n
        BY <1>5 DEF CanvasesHold
      <4> DEFINE b == got.buffer
      <4>2. b \in Nat \ {0}
        BY <1>8
      <4>3. m = Max({n, b})
        OBVIOUS
      <4> HIDE DEF n, b, m
      <4>4. m = IF n =< b THEN b ELSE n
        BY <4>1, <4>2, <4>3, MinOfTwo
      <4>5. m \in Nat /\ b \in 1 .. m /\ \A c \in 1 .. n : c \in 1 .. m
        BY <4>1, <4>2, <4>4
      <4> QED
        BY <4>1, <4>5 DEF b
    <3> HIDE DEF m, n
    <3>2. /\ DOMAIN contents' = 1 .. m /\ contents'[got.buffer] = frame
          /\ \A b \in 1 .. n : b # got.buffer => contents'[b] = contents[b]
      BY <2>2, <3>1 DEF m
    <3>3. Len(contents') = m
      <4> DEFINE T == {contents'[b] : b \in 1 .. m}
      <4>1. contents' = [b \in 1 .. m |-> contents'[b]]
        BY <2>2 DEF m
      <4>2. contents' \in [1 .. m -> T]
        BY <4>1
      <4> QED
        BY <3>1, <4>2, TupleWorks
    <3>4. BufferHolds(item)' /\ IsFrame(frame)'
      <4>1. item.buffer \in DOMAIN contents' /\ contents'[item.buffer] = item.given
        BY <1>10, <3>1, <3>2
      <4> QED
        BY <1>4, <1>16, <4>1 DEF BufferHolds, IsFrame, item
    <3>5. ASSUME NEW s, s.buffer \in Held, BufferHolds(s), IsFrame(s.given)
          PROVE  BufferHolds(s)' /\ IsFrame(s.given)'
      <4>1. s.buffer \in 1 .. n /\ contents[s.buffer] = s.given /\ s.buffer # got.buffer
        BY <1>8, <3>1, <3>5 DEF BufferHolds
      <4>2. s.buffer \in DOMAIN contents' /\ contents'[s.buffer] = s.given
        BY <3>1, <3>2, <4>1
      <4> QED
        BY <1>4, <3>5, <4>2 DEF BufferHolds, IsFrame
    <3>6. ASSUME NEW k \in DOMAIN canvasQueues, NEW i \in 1 .. Len(canvasQueues[k])
          PROVE  /\ canvasQueues[k][i].buffer \in Held
                 /\ BufferHolds(canvasQueues[k][i]) /\ IsFrame(canvasQueues[k][i].given)
      <4>1. i \in DOMAIN canvasQueues[k]
        BY <1>12, <3>6, LenProperties
      <4> QED
        BY <1>5, <4>1 DEF Held, CanvasesHold
    <3>7. drawn # Nothing => BufferHolds(drawn)' /\ IsFrame(drawn.given)'
      <4>1. PICK s : s = drawn
        OBVIOUS
      <4>2. s # Nothing => s.buffer \in Held /\ BufferHolds(s) /\ IsFrame(s.given)
        BY <1>5, <4>1 DEF Held, CanvasesHold
      <4>3. s # Nothing => BufferHolds(s)' /\ IsFrame(s.given)'
        BY <3>5, <4>2
      <4> QED
        BY <1>4, <4>1, <4>3 DEF BufferHolds, IsFrame
    <3>8. ASSUME NEW k \in DOMAIN canvasQueues
          PROVE  /\ \A i \in 1 .. Len(canvasQueues'[k]) :
                       (IsFrame(canvasQueues[k][i].given) /\ BufferHolds(canvasQueues[k][i]))'
                 /\ Len(canvasQueues'[k]) =< CanvasMax[way][k]
      <4> DEFINE q == canvasQueues[k]
                 room == CanvasMax[way][k]
      <4>1. /\ q \in Seq(CanvasItems) /\ room \in Nat /\ Len(q) < room /\ Len(q) \in Nat
            /\ canvasQueues'[k] = Append(q, item)
        <5>1. q \in Seq(CanvasItems) /\ room \in Nat
          BY <1>12
        <5>2. Len(q) < room
          BY <1>4, <1>5 DEF CanvasesHold
        <5> QED
          BY <2>2, <5>1, <5>2, LenProperties
      <4>2. /\ Len(canvasQueues'[k]) = Len(q) + 1 /\ canvasQueues'[k][Len(q) + 1] = item
            /\ \A i \in 1 .. Len(q) : canvasQueues'[k][i] = q[i]
        <5> HIDE DEF q
        <5> QED
          BY <1>10, <4>1, AppendProperties
      <4>3. Len(canvasQueues'[k]) =< room
        <5> HIDE DEF q, room
        <5> QED
          BY <4>1, <4>2
      <4>4. ASSUME NEW i \in 1 .. Len(canvasQueues'[k])
            PROVE  (IsFrame(canvasQueues[k][i].given) /\ BufferHolds(canvasQueues[k][i]))'
        <5>1. i \in 1 .. Len(q) \/ i = Len(q) + 1
          BY <4>1, <4>2
        <5>2. CASE i = Len(q) + 1
          <6>1. canvasQueues'[k][i] = item
            BY <4>2, <5>2
          <6>2. IsFrame(item.given)' /\ BufferHolds(item)'
            BY <1>10, <3>4
          <6> QED
            BY <6>1, <6>2 DEF IsFrame, BufferHolds
        <5>3. CASE i \in 1 .. Len(q)
          <6>1. PICK s : s = canvasQueues[k][i]
            OBVIOUS
          <6>2. BufferHolds(s)' /\ IsFrame(s.given)'
            BY <3>5, <3>6, <5>3, <6>1
          <6>3. canvasQueues'[k][i] = s
            BY <4>2, <5>3, <6>1
          <6> QED
            BY <6>2, <6>3 DEF IsFrame, BufferHolds
        <5> QED
          BY <5>1, <5>2, <5>3
      <4> QED
        BY <4>3, <4>4
    <3>9. DOMAIN canvasQueues' = DOMAIN canvasQueues
      BY <2>2
    <3> QED
      BY <1>4, <1>7, <3>1, <3>2, <3>3, <3>7, <3>8, <3>9 DEF CanvasesHold
  <2> QED
    BY <1>11, <2>1, <2>2
<1> QED
  BY <1>5, <1>14, <1>15, <1>16, <1>17 DEF VisualsInv, Ways

-----------------------------------------------------------------------------
(* Visuals: lines are cut.                                                 *)

NumbersOf(samples, n) == {samples[k].n : k \in 1 .. n}
TakenFits(d, samples, B) ==
    /\ IsRing(d) /\ d.max > 0 /\ GaplessIn(Stored(d), accepted \cup B)
    /\ \A i \in 1 .. d.items : Stored(d)[i].freq = d.freq
    /\ d.items > 0 => \A a \in accepted \cup B : a =< Stored(d)[d.items].n
    /\ B \in SUBSET (1 .. received.samples) /\ B \in SUBSET Nat
    /\ \A a \in accepted, b \in B : a < b
    /\ \A b \in B : \E i \in 1 .. Len(samples) : b = samples[i].n

\* What fits of the first block is behind what was stored, and nothing is left out.
LEMMA TakenWorks ==
  ASSUME VisualsInv, visualBlocks # << >>,
         NEW samples, samples = visualBlocks[1].data,
         NEW refitted, refitted = Refitted(distributor, samples[1].freq),
         NEW d, d = Appended(refitted, samples),
         NEW B, B = NumbersOf(samples, d.items - refitted.items)
  PROVE  TakenFits(d, samples, B)
<1>1. /\ visualBlocks \in Seq(VisualBlocks) /\ IsRing(distributor) /\ BlocksRise /\ RingIsGapless
      /\ received.samples \in Nat /\ accepted \in SUBSET (1 .. received.samples)
  BY TypesSay DEF VisualsInv, VisualsTypes
<1>2. 1 \in 1 .. Len(visualBlocks) /\ visualBlocks[1] \in VisualBlocks
  BY <1>1, TailIs
<1>3. samples \in Seq(VisualSamples) /\ Len(samples) \in Nat
  <2>1. samples \in Seq(VisualSamples)
    BY <1>2 DEF VisualBlocks
  <2> QED
    BY <2>1, LenProperties
<1>4. /\ Len(samples) > 0 /\ Rising(samples)
      /\ \A i \in 1 .. Len(samples) : /\ samples[i].n \in 1 .. received.samples
                                      /\ samples[i].freq = samples[1].freq
                                      /\ \A a \in accepted : a < samples[i].n
  BY <1>1, <1>2 DEF BlocksRise, RiseBeyond
<1> DEFINE freq == samples[1].freq
<1>5. freq \in VisualTunings \cup {0}
  <2>1. samples[1] \in VisualSamples
    BY <1>3, <1>4, ElementOfSeq
  <2> QED
    BY <2>1 DEF VisualSamples
<1>6. /\ IsRing(refitted) /\ refitted.max > 0 /\ refitted.freq = freq
      /\ refitted.items = 0 \/ refitted = distributor
  <2> HIDE DEF freq
  <2>1. refitted = Refitted(distributor, freq)
    BY DEF freq
  <2> QED
    BY <1>1, <1>5, <2>1, RefittedWorks
<1> DEFINE s == Stored(refitted)
<1>7. /\ s \in Seq(VisualSamples) /\ Len(s) = refitted.items /\ refitted.items \in Nat
  BY <1>6, StoredWorks
<1>8. /\ GaplessIn(s, accepted)
      /\ Len(s) > 0 => \A a \in accepted : a =< s[Len(s)].n
      /\ \A i \in 1 .. Len(s) : s[i].freq = freq
  <2>1. CASE refitted.items = 0
    BY <1>6, <1>7, <2>1, EmptyStores
  <2>2. CASE refitted = distributor
    BY <1>1, <1>6, <1>7, <2>2 DEF RingIsGapless
  <2> QED
    BY <1>6, <2>1, <2>2
<1> DEFINE n == Min({Len(samples), refitted.max - refitted.items})
           u == Stored(d)
<1>9. /\ n \in 0 .. Len(samples) /\ IsRing(d) /\ d.items = refitted.items + n
      /\ d.freq = refitted.freq /\ d.max = refitted.max
      /\ \A i \in 1 .. refitted.items : u[i] = s[i]
      /\ \A i \in 1 .. n : u[refitted.items + i] = samples[i]
  <2> HIDE DEF n
  <2>1. n = Min({Len(samples), refitted.max - refitted.items})
    BY DEF n
  <2>2. FitsBehind(refitted, samples, n, d)
    BY <1>3, <1>6, <2>1, AppendedWorks
  <2> QED
    BY <2>2 DEF FitsBehind
<1>10. u \in Seq(VisualSamples) /\ Len(u) = d.items /\ d.items \in Nat
  BY <1>9, StoredWorks
<1> HIDE DEF n, u, s
<1>11. B = {samples[k].n : k \in 1 .. n}
  <2> DEFINE r == refitted.items
             t == d.items
  <2>1. n \in 0 .. Len(samples) /\ t = r + n
    BY <1>9
  <2>2. r \in Nat
    BY <1>7
  <2> HIDE DEF r, t
  <2>3. t = r + n /\ r \in Nat /\ n \in Nat
    BY <1>3, <2>1, <2>2
  <2>4. t - r = n
    BY <2>3
  <2> QED
    BY <2>4 DEF r, t, NumbersOf
<1>12. /\ Len(u) = Len(s) + n /\ \A i \in 1 .. Len(s) : u[i] = s[i]
       /\ \A k \in 1 .. n : u[Len(s) + k] = samples[k]
  BY <1>7, <1>9, <1>10
<1>13. /\ \A i, j \in 1 .. Len(samples) : samples[i].freq = samples[j].freq
       /\ \A i \in 1 .. Len(s), j \in 1 .. Len(samples) : s[i].freq = samples[j].freq
       /\ \A a \in accepted, j \in 1 .. Len(samples) : a < samples[j].n
  BY <1>4, <1>8
<1>14. accepted \in SUBSET Nat
  BY <1>1
<1>15. GaplessIn(u, accepted \cup B) /\ (Len(u) > 0 => \A a \in accepted \cup B : a =< u[Len(u)].n)
  <2>1. GrowsBy(accepted, B, s, samples, n, u)
    BY <1>3, <1>4, <1>7, <1>8, <1>9, <1>10, <1>11, <1>12, <1>13, <1>14 DEF GrowsBy
  <2> QED
    BY <2>1, GaplessGrows
<1>16. \A i \in 1 .. d.items : u[i].freq = d.freq
  <2> SUFFICES ASSUME NEW i \in 1 .. d.items PROVE u[i].freq = d.freq
    OBVIOUS
  <2>1. 1 \in 1 .. d.items
    BY <1>10
  <2>2. CASE refitted.items = 0
    <3>1. u[0 + i] = samples[i] /\ i \in 1 .. n /\ i \in 1 .. Len(samples)
      BY <1>3, <1>9, <2>2
    <3>2. u[i] = samples[i]
      BY <3>1
    <3> QED
      BY <1>4, <1>6, <1>9, <3>1, <3>2
  <2>3. CASE refitted.items # 0
    <3>1. 1 \in 1 .. Len(s) /\ 1 \in 1 .. Len(u) /\ i \in 1 .. Len(u)
      BY <1>7, <1>10, <2>1, <2>3
    <3>2. u[i].freq = u[1].freq
      BY <1>15, <3>1 DEF GaplessIn
    <3> QED
      BY <1>6, <1>8, <1>9, <1>12, <3>1, <3>2
  <2> QED
    BY <2>2, <2>3
<1>17. \A b \in B : \E i \in 1 .. Len(samples) : b = samples[i].n
  <2>1. \A k \in 1 .. n : k \in 1 .. Len(samples)
    BY <1>3, <1>9
  <2> QED
    BY <1>11, <2>1
<1>18. B \in SUBSET (1 .. received.samples) /\ B \in SUBSET Nat /\ \A a \in accepted, b \in B : a < b
  <2>1. B \in SUBSET (1 .. received.samples) /\ \A a \in accepted, b \in B : a < b
    <3> SUFFICES ASSUME NEW b \in B PROVE b \in 1 .. received.samples /\ \A a \in accepted : a < b
      OBVIOUS
    <3>1. PICK i \in 1 .. Len(samples) : b = samples[i].n
      BY <1>17
    <3> QED
      BY <1>4, <3>1
  <2>2. 1 .. received.samples \in SUBSET Nat
    BY <1>1
  <2> QED
    BY <2>1, <2>2
<1> QED
  BY <1>6, <1>9, <1>10, <1>11, <1>15, <1>16, <1>17, <1>18 DEF u, TakenFits

\* What is picked are lines there are.
LEMMA PickedWorks ==
  ASSUME NEW lines \in Nat, NEW p \in Picked(lines)
  PROVE  p.passOver \in BOOLEAN /\ p.chosen \in Seq(1 .. lines)
<1>1. CASE p = [chosen |-> << >>, passOver |-> TRUE]
  BY <1>1
<1>2. \/ p \in {[chosen |-> c, passOver |-> FALSE] :
                   c \in {s \in UNION {[1 .. n -> 1 .. lines] : n \in 0 .. lines} : LinesAscend(s)}}
      \/ p \in {[chosen |-> << >>, passOver |-> TRUE] : k \in 1 .. Min({lines, 1})}
  BY DEF Picked
<1>3. CASE p \in {[chosen |-> c, passOver |-> FALSE] :
                   c \in {s \in UNION {[1 .. n -> 1 .. lines] : n \in 0 .. lines} : LinesAscend(s)}}
  <2>1. PICK c \in {s \in UNION {[1 .. n -> 1 .. lines] : n \in 0 .. lines} : LinesAscend(s)} :
          p = [chosen |-> c, passOver |-> FALSE]
    BY <1>3
  <2>2. PICK n \in 0 .. lines : c \in [1 .. n -> 1 .. lines]
    OBVIOUS
  <2>3. c \in Seq(1 .. lines)
    BY <2>2, TupleWorks
  <2> QED
    BY <2>1, <2>3
<1> QED
  BY <1>1, <1>2, <1>3

\* A line is a stretch of what is stored.
LEMMA LineIsGapless ==
  ASSUME NEW d, IsRing(d), d.max > 0, NEW A, GaplessIn(Stored(d), A),
         NEW k \in 1 .. d.items \div d.fftSize
  PROVE  Line(d, k) \in Seq(VisualSamples) /\ GaplessIn(Line(d, k), A)
<1> DEFINE f == d.fftSize
           o == (k - 1) * f
           s == Stored(d)
           t == Line(d, k)
<1>1. /\ t \in Seq(VisualSamples) /\ Len(t) = f
      /\ \A i \in 1 .. f : o + i \in 1 .. d.items /\ t[i] = s[o + i]
  BY LineWorks
<1>2. f \in Nat \ {0} /\ Len(s) = d.items /\ d.items \in Nat
  BY RingFacts, StoredWorks
<1>3. o \in Int
  <2>1. k - 1 \in Int
    <3>1. k \in Int
      <4>1. d.items \div f \in Int
        BY <1>2
      <4> QED
        BY <4>1
    <3> QED
      BY <3>1
  <2> QED
    BY <1>2, <2>1
<1> HIDE DEF f, o, s, t
<1>4. /\ GaplessIn(s, A) /\ Len(s) \in Nat /\ Len(t) \in Nat
      /\ \A i \in 1 .. Len(t) : o + i \in 1 .. Len(s) /\ t[i] = s[o + i]
  BY <1>1, <1>2 DEF s
<1>5. GaplessIn(t, A)
  BY <1>3, <1>4, PartIsGapless
<1> QED
  BY <1>1, <1>5 DEF t

\* What is left of the ring when lines are cut off it.
LEMMA RestIsGapless ==
  ASSUME NEW d, IsRing(d), d.max > 0, NEW A, GaplessIn(Stored(d), A), NEW n \in 0 .. d.items,
         \A i \in 1 .. d.items : Stored(d)[i].freq = d.freq,
         d.items > 0 => \A a \in A : a =< Stored(d)[d.items].n,
         NEW e, e = Consumed(d, n)
  PROVE  /\ IsRing(e) /\ GaplessIn(Stored(e), A)
         /\ \A i \in 1 .. e.items : Stored(e)[i].freq = e.freq
         /\ e.items > 0 => \A a \in A : a =< Stored(e)[e.items].n
<1>1. /\ IsRing(e) /\ e.items = d.items - n /\ e.freq = d.freq
      /\ \A i \in 1 .. d.items - n : Stored(e)[i] = Stored(d)[n + i]
  BY ConsumedWorks
<1>2. d.items \in Nat /\ Len(Stored(d)) = d.items /\ Len(Stored(e)) = e.items /\ e.items \in Nat
  BY <1>1, StoredWorks
<1> DEFINE c == d.items
           r == e.items
           s == Stored(d)
           t == Stored(e)
<1>3. /\ c \in Nat /\ r \in Nat /\ n \in Nat /\ r = c - n /\ Len(s) = c /\ Len(t) = r
      /\ \A i \in 1 .. r : t[i] = s[n + i]
  BY <1>1, <1>2
<1> HIDE DEF c, r, s, t
<1>4. /\ \A i \in 1 .. r : n + i \in 1 .. c
      /\ r > 0 => c > 0 /\ n + r = c /\ r \in 1 .. r
  BY <1>3
<1>5. GaplessIn(t, A)
  <2>1. GaplessIn(s, A) /\ n \in Int
    BY <1>3 DEF s
  <2> QED
    BY <1>3, <1>4, <2>1, PartIsGapless
<1>6. \A i \in 1 .. r : t[i].freq = e.freq
  BY <1>1, <1>3, <1>4 DEF s, c
<1>7. r > 0 => \A a \in A : a =< t[r].n
  <2> SUFFICES ASSUME r > 0 PROVE \A a \in A : a =< t[r].n
    OBVIOUS
  <2>1. t[r] = s[c]
    BY <1>3, <1>4
  <2>2. c > 0
    BY <1>4
  <2>3. \A a \in A : a =< s[c].n
    BY <2>2 DEF s, c
  <2> QED
    BY <2>1, <2>3
<1> QED
  BY <1>1, <1>5, <1>6, <1>7 DEF r, t

\* DistributeBlock.
LEMMA DistributeBlockKeeps ==
  ASSUME VisualsInv, DistributeBlock
  PROVE  VisualsInv'
<1>1. PICK samples : samples = visualBlocks[1].data
  OBVIOUS
<1>2. PICK refitted : refitted = Refitted(distributor, samples[1].freq)
  OBVIOUS
<1>3. PICK d : d = Appended(refitted, samples)
  OBVIOUS
<1>4. PICK B : B = NumbersOf(samples, d.items - refitted.items)
  OBVIOUS
<1>5. /\ VisualsTypes /\ BlocksRise /\ LinesAreGapless /\ HistoryRises
      /\ way \in Ways /\ processor \in Processors
      /\ visualBlocks \in Seq(VisualBlocks) /\ fftQueue \in Seq(VisualBlocks)
      /\ received.samples \in Nat /\ accepted \in SUBSET (1 .. received.samples)
      /\ way = "direct" => visualLoop = "process"
  BY TypesSay DEF VisualsInv, VisualsTypes
<1>6. /\ visualLoop = "distribute" /\ visualBlocks # << >> /\ Len(fftQueue) < LinesMax
      /\ visualBlocks' = Tail(visualBlocks)
      /\ UNCHANGED <<visualLoop, way, received, told, processor, pool, contents, canvasQueues, drawn>>
  BY DEF DistributeBlock, outsideDistributor
<1>7. Head(visualBlocks) = visualBlocks[1]
  BY <1>5, <1>6, TailIs
<1> DEFINE lines == d.items \div d.fftSize
           piece(c, k) == [data |-> Line(d, c[k]), discontinuity |-> TRUE]
           room(c) == Min({Len(c), LinesMax - Len(fftQueue)})
           taken(p) == IF p.passOver THEN d.items ELSE lines * d.fftSize
<1>8. /\ accepted' = accepted \cup B
      /\ \E p \in Picked(lines) :
            /\ fftQueue' = fftQueue \o [k \in 1 .. room(p.chosen) |-> piece(p.chosen, k)]
            /\ distributor' = Consumed(d, taken(p))
  BY <1>1, <1>2, <1>3, <1>4, <1>7 DEF DistributeBlock, NumbersOf, LineOut
<1>9. PICK p \in Picked(lines) :
            /\ fftQueue' = fftQueue \o [k \in 1 .. room(p.chosen) |-> piece(p.chosen, k)]
            /\ distributor' = Consumed(d, taken(p))
  BY <1>8
<1>10. /\ IsRing(d) /\ d.max > 0 /\ GaplessIn(Stored(d), accepted \cup B)
       /\ \A i \in 1 .. d.items : Stored(d)[i].freq = d.freq
       /\ d.items > 0 => \A a \in accepted \cup B : a =< Stored(d)[d.items].n
       /\ B \in SUBSET (1 .. received.samples) /\ B \in SUBSET Nat
       /\ \A a \in accepted, b \in B : a < b
       /\ \A b \in B : \E i \in 1 .. Len(samples) : b = samples[i].n
  <2>1. TakenFits(d, samples, B)
    BY <1>1, <1>2, <1>3, <1>4, <1>6, TakenWorks
  <2> QED
    BY <2>1 DEF TakenFits
<1>11. way = "lines" /\ way # "direct"
  BY <1>5, <1>6 DEF Ways
<1>12. d.items \in Nat /\ d.fftSize \in Nat \ {0} /\ lines \in Nat
  <2>1. d.items \in Nat /\ d.fftSize \in Nat \ {0}
    <3>1. d.items \in 0 .. d.max /\ d.max \in Nat /\ d.fftSize \in Nat \ {0}
      BY <1>10, RingFacts
    <3> DEFINE x == d.items
               y == d.max
    <3>2. x \in 0 .. y /\ y \in Nat
      BY <3>1
    <3> HIDE DEF x, y
    <3>3. x \in Nat
      BY <3>2
    <3> QED
      BY <3>1, <3>3 DEF x
  <2> DEFINE x == d.items
             f == d.fftSize
  <2>2. x \in Nat /\ f \in Nat \ {0}
    BY <2>1
  <2> HIDE DEF x, f
  <2>3. x \div f \in Nat
    BY <2>2
  <2> QED
    BY <2>1, <2>3 DEF x, f
<1>13. taken(p) \in 0 .. d.items
  <2> DEFINE x == d.items
             f == d.fftSize
  <2>1. x \in Nat /\ f \in Nat \ {0} /\ lines = x \div f /\ lines \in Nat
    BY <1>12
  <2> HIDE DEF x, f, lines
  <2>2. lines * f \in 0 .. x
    <3>1. CASE lines = 0
      BY <2>1, <3>1
    <3>2. CASE lines # 0
      <4>1. 1 \in 1 .. x \div f /\ 1 \in 1 .. f
        BY <2>1, <3>2
      <4> QED
        BY <2>1, <4>1, LinesFit
    <3> QED
      BY <3>1, <3>2
  <2> QED
    BY <2>1, <2>2 DEF x, f
<1>14. /\ IsRing(distributor') /\ RingIsGapless'
  <2> DEFINE n == taken(p)
             e == distributor'
             A == accepted \cup B
  <2>1. n \in 0 .. d.items /\ e = Consumed(d, n)
    BY <1>9, <1>13
  <2> HIDE DEF n, e
  <2>2. /\ IsRing(e) /\ GaplessIn(Stored(e), A)
        /\ \A i \in 1 .. e.items : Stored(e)[i].freq = e.freq
        /\ e.items > 0 => \A a \in A : a =< Stored(e)[e.items].n
    BY <1>10, <2>1, RestIsGapless
  <2> QED
    BY <1>8, <2>2 DEF RingIsGapless, e
<1>15. p.chosen \in Seq(1 .. lines) /\ Len(p.chosen) \in Nat
  <2>1. p.chosen \in Seq(1 .. lines)
    BY <1>9, <1>12, PickedWorks
  <2> QED
    BY <2>1, LenProperties
<1>16. room(p.chosen) \in 0 .. Len(p.chosen)
  <2> DEFINE a == Len(p.chosen)
             b == LinesMax - Len(fftQueue)
  <2>1. a \in Nat /\ b \in Nat
    <3>1. LinesMax \in Nat /\ Len(fftQueue) \in Nat
      BY <1>5, VisualsAssumption, LenProperties
    <3> QED
      BY <1>6, <1>15, <3>1
  <2>2. room(p.chosen) = Min({a, b})
    OBVIOUS
  <2> HIDE DEF a, b, room
  <2>3. room(p.chosen) = IF a =< b THEN a ELSE b
    BY <2>1, <2>2, MinOfTwo
  <2>4. room(p.chosen) \in 0 .. a
    BY <2>1, <2>3
  <2> QED
    BY <2>4 DEF a
<1> DEFINE m == room(p.chosen)
           pieces == [k \in 1 .. m |-> piece(p.chosen, k)]
<1>17. ASSUME NEW k \in 1 .. m
       PROVE  /\ piece(p.chosen, k) \in VisualBlocks /\ piece(p.chosen, k).discontinuity = TRUE
              /\ GaplessIn(piece(p.chosen, k).data, accepted \cup B)
  <2>1. k \in 1 .. Len(p.chosen)
    BY <1>15, <1>16
  <2>2. p.chosen[k] \in 1 .. lines
    BY <1>15, <2>1, ElementOfSeq
  <2>3. Line(d, p.chosen[k]) \in Seq(VisualSamples) /\ GaplessIn(Line(d, p.chosen[k]), accepted \cup B)
    BY <1>10, <2>2, LineIsGapless
  <2> QED
    BY <2>3 DEF VisualBlocks
<1>18. m \in Nat /\ fftQueue' = fftQueue \o pieces
  <2>1. fftQueue' = fftQueue \o pieces
    BY <1>9
  <2> HIDE DEF m, pieces
  <2>2. m \in Nat
    BY <1>15, <1>16 DEF m
  <2> QED
    BY <2>1, <2>2
<1> HIDE DEF m, piece, room, taken, lines
<1>19. pieces \in Seq(VisualBlocks) /\ Len(pieces) = m /\ \A k \in 1 .. m : pieces[k] = piece(p.chosen, k)
  <2>1. pieces \in [1 .. m -> VisualBlocks] /\ \A k \in 1 .. m : pieces[k] = piece(p.chosen, k)
    BY <1>17
  <2> HIDE DEF pieces
  <2> QED
    BY <1>18, <2>1, TupleWorks
<1> HIDE DEF pieces
<1>20. /\ fftQueue' \in Seq(VisualBlocks)
       /\ \A i \in 1 .. Len(fftQueue') : \/ i \in 1 .. Len(fftQueue) /\ fftQueue'[i] = fftQueue[i]
                                         \/ \E k \in 1 .. m : fftQueue'[i] = pieces[k]
  <2> DEFINE c == Len(fftQueue)
  <2>1. /\ fftQueue' \in Seq(VisualBlocks) /\ Len(fftQueue') = c + m /\ c \in Nat
        /\ \A i \in 1 .. c + m : fftQueue'[i] = IF i <= c THEN fftQueue[i] ELSE pieces[i - c]
    BY <1>5, <1>18, <1>19, ConcatProperties, LenProperties
  <2> HIDE DEF c
  <2>2. ASSUME NEW i \in 1 .. c + m
        PROVE  \/ i \in 1 .. c /\ fftQueue'[i] = fftQueue[i]
               \/ \E k \in 1 .. m : fftQueue'[i] = pieces[k]
    <3>1. CASE i <= c
      BY <1>18, <2>1, <3>1
    <3>2. CASE ~(i <= c)
      <4>1. i - c \in 1 .. m
        BY <1>18, <2>1, <3>2
      <4> QED
        BY <2>1, <3>2, <4>1
    <3> QED
      BY <3>1, <3>2
  <2> QED
    BY <2>1, <2>2 DEF c
<1>21. LinesAreGapless'
  <2> SUFFICES ASSUME NEW i \in 1 .. Len(fftQueue')
               PROVE  fftQueue'[i].discontinuity = TRUE /\ GaplessIn(fftQueue'[i].data, accepted \cup B)
    BY <1>8 DEF LinesAreGapless
  <2>1. CASE i \in 1 .. Len(fftQueue) /\ fftQueue'[i] = fftQueue[i]
    <3> DEFINE s == fftQueue[i].data
    <3>1. fftQueue[i].discontinuity = TRUE /\ GaplessIn(s, accepted)
      BY <1>5, <2>1 DEF LinesAreGapless
    <3>2. Len(s) \in Nat
      <4>1. fftQueue[i] \in VisualBlocks
        BY <1>5, <2>1, ElementOfSeq
      <4>2. s \in Seq(VisualSamples)
        BY <4>1 DEF VisualBlocks
      <4> QED
        BY <4>2, LenProperties
    <3>3. accepted \in SUBSET Nat
      BY <1>5
    <3> HIDE DEF s
    <3>4. GaplessIn(s, accepted \cup B)
      BY <1>10, <3>1, <3>2, <3>3, GaplessStays
    <3> QED
      BY <2>1, <3>1, <3>4 DEF s
  <2>2. CASE \E k \in 1 .. m : fftQueue'[i] = pieces[k]
    BY <1>17, <1>19, <2>2
  <2> QED
    BY <1>20, <2>1, <2>2
<1>22. BlocksRise'
  BY <1>1, <1>5, <1>6, <1>8, <1>10, TailRises
<1>23. HistoryRises'
  BY <1>5, <1>6, <1>11 DEF HistoryRises, Rising
<1>24. visualBlocks' \in Seq(VisualBlocks)
  BY <1>5, <1>6, TailIs
<1>25. VisualsTypes'
  <2>1. accepted' \subseteq 1 .. received.samples
    BY <1>5, <1>8, <1>10
  <2> QED
    BY <1>5, <1>6, <1>14, <1>20, <1>24, <2>1 DEF VisualsTypes
<1>26. CanvasesHold'
  <2>1. accepted \in SUBSET Nat
    BY <1>5
  <2>2. ASSUME NEW s \in Seq(VisualSamples), LineSample(s, accepted)
        PROVE  LineSample(s, accepted \cup B)
    BY <1>10, <2>1, <2>2, LineSampleStays
  <2>3. \A s \in Seq(VisualSamples) : IsFrame(s) => IsFrame(s)'
    BY <1>6, <1>8, <2>2 DEF IsFrame
  <2> QED
    BY <1>6, <2>3, CanvasesStayIf
<1> QED
  BY <1>14, <1>21, <1>22, <1>23, <1>25, <1>26 DEF VisualsInv

-----------------------------------------------------------------------------
(* Visuals: the theorems.                                                  *)

\* Every step keeps the invariant.
LEMMA VisualsKeeps == VisualsInv /\ [VisualsNext]_visualVars => VisualsInv'
<1> SUFFICES ASSUME VisualsInv, [VisualsNext]_visualVars PROVE VisualsInv'
  OBVIOUS
<1>1. CASE \E width \in VisualBlockSizes : PushVisualData(width, FALSE) \/ PushVisualData(width, TRUE)
  BY <1>1, PushKeeps
<1>2. CASE \E freq \in VisualTunings : Retune(freq)
  BY <1>2, RetuneKeeps
<1>3. CASE SetDistributorSize \/ EndDistribute \/ EndProcess
  BY <1>3, SetDistributorSizeKeeps, LoopKeeps
<1>4. CASE DistributeBlock
  BY <1>4, DistributeBlockKeeps
<1>5. CASE RunProcessor \/ Setup
  BY <1>5, SettingsKeep
<1>6. CASE Process
  BY <1>6, ProcessKeeps
<1>7. CASE (\E b, c \in BOOLEAN : SetView(b, c)) \/ (\E width \in FFTSizes : SetFFTSize(width))
  BY <1>7, SettingsKeep
<1>8. CASE (\E k \in DOMAIN canvasQueues : DrawNext(k)) \/ Drawn \/ FlushCanvas
  BY <1>8, GUIKeeps
<1>9. CASE UNCHANGED visualVars
  BY <1>9, StutterKeeps
<1> QED
  BY <1>1, <1>2, <1>3, <1>4, <1>5, <1>6, <1>7, <1>8, <1>9 DEF VisualsNext

\* The invariant.
THEOREM VisualsInvariant == VisualsSpec => []VisualsInv
<1> QED
  BY VisualsBegins, VisualsKeeps, PTL DEF VisualsSpec

\* A finite set of numbers that is not empty has a greatest one.
LEMMA GreatestThereIs ==
  ASSUME NEW S \in SUBSET Nat, S # {}, IsFiniteSet(S)
  PROVE  \E x \in S : \A y \in S : y =< x
<1> DEFINE Has(T) == \E x \in T : \A y \in T : y =< x
           Bad(T) == T \in SUBSET Nat /\ T # {} /\ IsFiniteSet(T) /\ ~Has(T)
           C == {n \in Nat : \E T \in SUBSET Nat : Bad(T) /\ Cardinality(T) = n}
<1> SUFFICES ASSUME ~Has(S) PROVE FALSE
  OBVIOUS
<1>1. C # {}
  <2>1. Cardinality(S) \in Nat
    BY FS_CardinalityType
  <2> QED
    BY <2>1
<1>2. PICK n \in C : \A m \in C : n =< m
  <2>1. C \in SUBSET Nat
    OBVIOUS
  <2> HIDE DEF C
  <2> QED
    BY <1>1, <2>1, LeastThereIs
<1>3. PICK T \in SUBSET Nat : Bad(T) /\ Cardinality(T) = n /\ n \in Nat
  BY <1>2
<1>4. PICK x \in T : x \in Nat
  BY <1>3
<1> DEFINE R == T \ {x}
<1>5. R \in SUBSET Nat /\ IsFiniteSet(R) /\ Cardinality(R) = n - 1
  BY <1>3, <1>4, FS_RemoveElement
<1>6. R # {}
  <2> SUFFICES ASSUME R = {} PROVE FALSE
    OBVIOUS
  <2>1. T = {x}
    <3> HIDE DEF Bad, C
    <3> QED
      BY <1>4
  <2>2. T = {x} /\ x =< x
    BY <1>4, <2>1
  <2> QED
    BY <1>3, <2>2
<1>7. Has(R)
  <2> SUFFICES ASSUME ~Has(R) PROVE FALSE
    OBVIOUS
  <2>1. Bad(R)
    BY <1>5, <1>6
  <2>2. n - 1 \in Nat
    BY <1>5, FS_CardinalityType
  <2>3. n - 1 \in C
    BY <1>5, <2>1, <2>2
  <2> HIDE DEF C
  <2>4. n =< n - 1
    BY <1>2, <2>3
  <2> QED
    BY <1>3, <2>4
<1>8. PICK y \in R : \A z \in R : z =< y
  BY <1>7
<1>9. y \in Nat /\ y \in T
  BY <1>5, <1>8
<1>10. CASE x =< y
  <2>1. \A z \in T : z =< y
    BY <1>8, <1>10
  <2> QED
    BY <1>3, <1>9, <2>1
<1>11. CASE ~(x =< y)
  <2>1. \A z \in T : z \in Nat /\ (z = x \/ z =< y)
    BY <1>3, <1>8
  <2>2. \A z \in T : z =< x
    BY <1>4, <1>9, <1>11, <2>1
  <2> QED
    BY <1>3, <1>4, <2>2
<1> QED
  BY <1>10, <1>11

\* The loop and the processor are where they can be; what is collected is never more than the
\* largest frame, and no canvas is given more than its queue holds.
THEOREM VisualsTypeCorrect == VisualsSpec => []VisualsTypeOK
<1>1. VisualsInv => VisualsTypeOK
  <2> SUFFICES ASSUME VisualsInv PROVE VisualsTypeOK
    OBVIOUS
  <2>1. /\ visualLoop \in {"resize", "distribute", "process"} /\ processor \in Processors
        /\ IsRing(distributor) /\ HistoryRises /\ CanvasesHold
    BY DEF VisualsInv, VisualsTypes
  <2>2. distributor.items \in 0 .. distributor.max
    BY <2>1, RingFacts
  <2>3. processor.step \in {"idle", "setup", "pop"} /\ processor.fftSize \in FFTSizes
        /\ processor.history \in Seq(VisualSamples)
    BY <2>1, ProcessorFields
  <2>4. Len(processor.history) =< Internal(Max(FFTSizes))
    <3>1. FFTSizes \in SUBSET Nat /\ FFTSizes # {} /\ IsFiniteSet(FFTSizes)
      BY VisualsAssumption
    <3>2. \E x \in FFTSizes : \A y \in FFTSizes : y =< x
      BY <3>1, GreatestThereIs
    <3> DEFINE m == Max(FFTSizes)
               f == processor.fftSize
               l == Len(processor.history)
    <3>3. m \in FFTSizes /\ \A y \in FFTSizes : y =< m
      <4>1. \E x \in FFTSizes : \A y \in FFTSizes : x >= y
        BY <3>1, <3>2
      <4>2. m \in FFTSizes /\ \A y \in FFTSizes : m >= y
        BY <4>1 DEF Max
      <4> QED
        BY <3>1, <4>2
    <3>4. m \in Nat /\ f \in Nat /\ f =< m /\ l \in Nat
      BY <2>3, <3>1, <3>3, LenProperties
    <3>5. l =< 2 * f
      BY <2>1 DEF HistoryRises, Internal
    <3> HIDE DEF m, f, l
    <3>6. l =< 2 * m
      BY <3>4, <3>5
    <3> QED
      BY <3>6 DEF l, m, Internal
  <2>5. \A k \in DOMAIN canvasQueues : Len(canvasQueues[k]) =< CanvasMax[way][k]
    BY <2>1 DEF CanvasesHold
  <2> QED
    BY <2>1, <2>2, <2>3, <2>4, <2>5 DEF VisualsTypeOK
<1> QED
  BY <1>1, VisualsInvariant, PTL

\* No frame joins samples from both sides of a gap that was told, every line of the waterfall is a
\* gapless stretch of what the distributor took, and no buffer is filled again while a canvas has it.
THEOREM FramesStayWhole == VisualsSpec => []FramesAreWhole
<1>1. VisualsInv => FramesAreWhole
  <2> SUFFICES ASSUME VisualsInv PROVE FramesAreWhole
    OBVIOUS
  <2>1. VisualsTypes /\ LinesAreGapless /\ CanvasesHold
    BY DEF VisualsInv
  <2>2. ASSUME NEW s \in Shown, s # Nothing
        PROVE  s \in CanvasItems /\ IsFrame(s.given) /\ BufferHolds(s)
    <3>1. CASE s = drawn
      BY <2>1, <2>2, <3>1 DEF CanvasesHold, VisualsTypes
    <3>2. CASE s # drawn
      <4>1. PICK k \in DOMAIN canvasQueues : s \in ToSet(canvasQueues[k])
        BY <2>2, <3>2 DEF Shown
      <4>2. canvasQueues[k] \in Seq(CanvasItems)
        BY <2>1, <4>1, TypesSay
      <4>3. PICK i \in 1 .. Len(canvasQueues[k]) : s = canvasQueues[k][i]
        BY <4>1, <4>2, LenProperties DEF ToSet
      <4> QED
        BY <2>1, <4>1, <4>2, <4>3, ElementOfSeq DEF CanvasesHold
    <3> QED
      BY <3>1, <3>2
  <2>3. ASSUME NEW s \in Shown
        PROVE  /\ Len(s.given) \in Nat /\ DOMAIN s.given = 1 .. Len(s.given)
               /\ Rising(s.given)
               /\ way = "direct" => \A g \in told : \/ \A i \in 1 .. Len(s.given) : s.given[i].n < g
                                                    \/ \A i \in 1 .. Len(s.given) : g =< s.given[i].n
               /\ way = "lines" => LineSample(s.given, accepted)
    <3>1. CASE s = Nothing
      <4>1. s.given = << >> /\ Len(s.given) = 0
        BY <3>1 DEF Nothing
      <4> QED
        BY <4>1 DEF Rising, LineSample
    <3>2. CASE s # Nothing
      <4>1. s \in CanvasItems /\ IsFrame(s.given)
        BY <2>2, <3>2
      <4>2. s.given \in Seq(VisualSamples)
        BY <4>1 DEF CanvasItems
      <4> QED
        BY <4>1, <4>2, LenProperties DEF IsFrame
    <3> QED
      BY <3>1, <3>2
  <2>4. \A s \in Shown \ {Nothing} : s.buffer \in DOMAIN contents /\ contents[s.buffer] = s.given
    BY <2>2 DEF BufferHolds
  <2>5. ASSUME NEW s \in Shown PROVE Increasing(s.given)
    <3> DEFINE n == Len(s.given)
    <3>1. n \in Nat /\ \A i, j \in 1 .. n : i < j => s.given[i].n < s.given[j].n
      BY <2>3 DEF Rising
    <3> HIDE DEF n
    <3>2. \A i \in 1 .. n - 1 : i \in 1 .. n /\ i + 1 \in 1 .. n /\ i < i + 1
      BY <3>1
    <3>3. \A i \in 1 .. n - 1 : s.given[i].n < s.given[i + 1].n
      BY <3>1, <3>2
    <3> QED
      BY <3>3 DEF n, Increasing
  <2>6. ASSUME way = "direct", NEW s \in Shown, NEW g \in told
        PROVE  ~Joins(s.given, g)
    <3> SUFFICES ASSUME NEW i \in DOMAIN s.given, NEW j \in DOMAIN s.given,
                        s.given[i].n < g, g =< s.given[j].n
                 PROVE  FALSE
      BY DEF Joins
    <3> DEFINE x == s.given[i].n
               y == s.given[j].n
    <3>1. (x < g /\ y < g) \/ (g =< x /\ g =< y)
      BY <2>3, <2>6
    <3>2. x \in Nat /\ y \in Nat /\ g \in Nat
      <4>1. s \in CanvasItems
        <5>1. s # Nothing
          BY DEF Nothing
        <5> QED
          BY <2>2, <5>1
      <4>2. s.given \in Seq(VisualSamples)
        BY <4>1 DEF CanvasItems
      <4>3. s.given[i] \in VisualSamples /\ s.given[j] \in VisualSamples
        BY <2>3, <4>2, ElementOfSeq
      <4>4. g \in Nat
        BY <2>1 DEF VisualsTypes
      <4> QED
        BY <4>3, <4>4 DEF VisualSamples
    <3>3. x < g /\ g =< y
      OBVIOUS
    <3> HIDE DEF x, y
    <3> QED
      BY <3>1, <3>2, <3>3
  <2>7. ASSUME NEW k \in DOMAIN fftQueue
        PROVE  LET line == fftQueue[k].data
               IN /\ \A i \in DOMAIN line : line[i].freq = line[1].freq
                  /\ \A i \in 1 .. Len(line) - 1 :
                        /\ line[i].n < line[i + 1].n
                        /\ accepted \cap (line[i].n + 1 .. line[i + 1].n - 1) = {}
    <3> DEFINE line == fftQueue[k].data
               n == Len(line)
    <3>1. fftQueue \in Seq(VisualBlocks) /\ accepted \in SUBSET Nat
      BY <2>1, TypesSay DEF VisualsTypes
    <3>2. k \in 1 .. Len(fftQueue) /\ fftQueue[k] \in VisualBlocks
      BY <3>1, LenProperties, ElementOfSeq
    <3>3. line \in Seq(VisualSamples) /\ GaplessIn(line, accepted)
      BY <2>1, <3>2 DEF VisualBlocks, LinesAreGapless
    <3> HIDE DEF line
    <3>4. /\ n \in Nat /\ DOMAIN line = 1 .. n
          /\ \A i \in 1 .. n : line[i] \in VisualSamples
      BY <3>3, LenProperties, ElementOfSeq
    <3>5. \A i \in DOMAIN line : line[i].freq = line[1].freq
      <4>1. \A i \in 1 .. n : 1 \in 1 .. n
        BY <3>4
      <4> QED
        BY <3>3, <3>4, <4>1 DEF GaplessIn
    <3>6. ASSUME NEW i \in 1 .. n - 1
          PROVE  /\ line[i].n < line[i + 1].n
                 /\ accepted \cap (line[i].n + 1 .. line[i + 1].n - 1) = {}
      <4>1. i \in 1 .. n /\ i + 1 \in 1 .. n /\ i < i + 1
        BY <3>4
      <4> DEFINE x == line[i].n
                 y == line[i + 1].n
      <4>2. x < y /\ x \in Nat /\ y \in Nat /\ \A a \in accepted : ~(x < a /\ a < y)
        BY <3>3, <3>4, <4>1 DEF GaplessIn, Rising, VisualSamples
      <4> HIDE DEF x, y
      <4>3. accepted \cap (x + 1 .. y - 1) = {}
        BY <3>1, <4>2
      <4> QED
        BY <4>2, <4>3 DEF x, y
    <3> QED
      BY <3>5, <3>6 DEF line
  <2>8. ASSUME way = "lines", NEW s \in Shown
        PROVE  /\ \A i \in DOMAIN s.given : s.given[i].freq = s.given[1].freq
               /\ Consecutive(s.given, accepted)
    <3> DEFINE f == s.given
    <3>1. /\ Len(f) \in Nat /\ DOMAIN f = 1 .. Len(f) /\ LineSample(f, accepted)
          /\ accepted \in SUBSET Nat
      BY <2>1, <2>3, <2>8, TypesSay DEF VisualsTypes
    <3> HIDE DEF f
    <3>2. \A i \in DOMAIN f : f[i].freq = f[1].freq
      <4>1. \A i \in DOMAIN f : 1 \in DOMAIN f
        BY <3>1
      <4> QED
        BY <3>1, <4>1 DEF LineSample
    <3>3. ASSUME NEW i \in 1 .. Len(f) - 1, NEW m \in accepted, NEW n \in accepted,
                 {m, n} \subseteq f[i].n + 1 .. f[i + 1].n - 1
          PROVE  m = n
      <4> DEFINE x == f[i].n
                 y == f[i + 1].n
      <4>1. i \in 1 .. Len(f) /\ i + 1 \in 1 .. Len(f)
        BY <3>1
      <4>2. x \in Nat /\ y \in Nat /\ m \in Nat /\ n \in Nat /\ m \in x + 1 .. y - 1
            /\ n \in x + 1 .. y - 1
        BY <3>1, <3>3, <4>1 DEF LineSample
      <4> HIDE DEF x, y
      <4>3. x < m /\ m < y /\ x < n /\ n < y
        BY <4>2
      <4> QED
        BY <3>1, <4>3 DEF LineSample, x, y
    <3>4. Consecutive(f, accepted)
      BY <3>3 DEF Consecutive
    <3> QED
      BY <3>2, <3>4 DEF f
  <2> QED
    BY <2>4, <2>5, <2>6, <2>7, <2>8 DEF FramesAreWhole
<1> QED
  BY <1>1, VisualsInvariant, PTL
=============================================================================
