------------------------------- MODULE Visuals -------------------------------
(***************************************************************************)
(* The frames that the spectrum and the waterfall show.                    *)
(*                                                                         *)
(* SDRPostThread offers its blocks to two queues.  One feeds a             *)
(* SpectrumVisualProcessor directly (src/process/SpectrumVisualProcessor   *)
(* .cpp, run by SpectrumVisualDataThread.cpp); the other one an            *)
(* FFTDataDistributor (src/process/FFTDataDistributor.cpp), which cuts the *)
(* samples into lines for another such processor in the same thread        *)
(* (src/process/FFTVisualDataThread.cpp).  A processor collects samples    *)
(* into frames (src/dsp/SampleFrameAccumulator.h), and what it makes of a  *)
(* frame goes to its canvases in a buffer of a pool (ReBuffer of           *)
(* src/IOThread.h).                                                        *)
(*                                                                         *)
(* A sample is its number and the frequency it was received at; the        *)
(* transform, its averages and peaks are left out, and so is the shift of  *)
(* a view to another center.  A zoomed view keeps every second sample.     *)
(***************************************************************************)
EXTENDS Integers, Sequences, SequencesExt, FiniteSets, FiniteSetsExt

CONSTANTS
    VisualBlockSizes,   \* samples in a block
    VisualTunings,      \* frequencies of the receiver
    FFTSizes,           \* fftSize
    DistributorSamples, \* in FFT_DISTRIBUTOR_BUFFER_IN_SECONDS
    VisualInputMax,     \* of the queue of blocks, by how it is consumed
    LinesMax,           \* of fftQueue
    CanvasMax,          \* of the queues of the canvases, by how they are fed
    GCLimit,            \* REBUFFER_GC_LIMIT
    IdleCacheLimit,     \* REBUFFER_IDLE_CACHE_LIMIT
    MaxVisualBlocks,    \* bound: blocks received
    MaxVisualEvents     \* bound: gaps, retunings and what the user does

Ways == {"direct", "lines"}

ASSUME VisualsAssumption ==
    /\ VisualBlockSizes \cup FFTSizes \cup {DistributorSamples, LinesMax, IdleCacheLimit} \subseteq Nat \ {0}
    /\ VisualTunings # {} /\ FFTSizes # {} /\ IsFiniteSet(FFTSizes)
    /\ VisualInputMax \in [Ways -> Nat \ {0}]
    /\ CanvasMax \in [Ways -> Seq(Nat \ {0})]
    /\ {GCLimit, MaxVisualBlocks, MaxVisualEvents} \subseteq Nat

VARIABLES
    way,           \* whether lines are cut from the blocks
    received,      \* the number of the last sample, how many blocks, the frequency
    told,          \* first samples of the blocks that are marked as a discontinuity
    accepted,      \* samples the distributor took (for the property)
    visualBlocks,  \* the input queue
    distributor,   \* its fftSize, and inputBuffer: a ring with its indices and frequency
    fftQueue,      \* lines for the processor
    visualLoop,    \* FFTVisualDataThread: resize, distribute, process
    processor,     \* its step and settings, and the accumulated samples
    pool,          \* outputBuffers: buffers with their ages, the first one first
    contents,      \* of the buffers
    canvasQueues,  \* of buffers, each with what it was given (for the property)
    drawn,         \* what a canvas has popped
    visualEvents

visualVars == <<way, received, told, accepted, visualBlocks, distributor, fftQueue, visualLoop,
                processor, pool, contents, canvasQueues, drawn, visualEvents>>

Internal(fftSize) == 2 * fftSize     \* SPECTRUM_VZM
RingSize(fftSize) == LET enough == (12 * fftSize) \div 10
                     IN IF DistributorSamples > enough THEN DistributorSamples ELSE enough
EmptyRing(size) == [k \in 1 .. size |-> [n |-> 0, freq |-> 0]]
DefaultSize == CHOOSE size \in FFTSizes : \A other \in FFTSizes : size =< other
Nothing == [buffer |-> 0, given |-> << >>]

VisualsInit ==
    /\ way \in Ways
    /\ received = [samples |-> 0, blocks |-> 0, freq |-> CHOOSE freq \in VisualTunings : TRUE]
    /\ told = {} /\ accepted = {}
    /\ visualBlocks = << >> /\ fftQueue = << >>
    /\ distributor = [fftSize |-> DefaultSize, data |-> << >>, max |-> 0, read |-> 0, write |-> 0,
                      items |-> 0, freq |-> 0]
    /\ visualLoop = IF way = "lines" THEN "resize" ELSE "process"
    /\ processor = [step |-> "idle", isView |-> FALSE, zoomed |-> FALSE, fftSize |-> DefaultSize,
                    newFFTSize |-> 0, fftSizeChanged |-> FALSE, desired |-> 0, history |-> << >>]
    /\ pool = << >> /\ contents = << >> /\ drawn = Nothing
    /\ canvasQueues = [k \in DOMAIN CanvasMax[way] |-> << >>]
    /\ visualEvents = 0

-----------------------------------------------------------------------------
(* SDRPostThread.                                                          *)

VisualEvent == visualEvents < MaxVisualEvents /\ visualEvents' = visualEvents + 1

outsideInput == <<way, accepted, distributor, fftQueue, visualLoop, processor, pool, contents,
                  canvasQueues, drawn>>

\* A block that does not fit into the queue is lost without a word.
PushVisualData(size, gap) ==
    /\ received.blocks < MaxVisualBlocks
    /\ LET first == received.samples + (IF gap THEN 2 ELSE 1)
           data == [k \in 1 .. size |-> [n |-> first + k - 1, freq |-> received.freq]]
       IN /\ received' = [received EXCEPT !.samples = first + size - 1, !.blocks = @ + 1]
          /\ IF Len(visualBlocks) < VisualInputMax[way]
             THEN /\ visualBlocks' = Append(visualBlocks, [data |-> data, discontinuity |-> gap])
                  /\ told' = IF gap THEN told \cup {first} ELSE told
             ELSE UNCHANGED <<visualBlocks, told>>
    /\ UNCHANGED outsideInput

Retune(freq) ==
    /\ VisualEvent
    /\ received' = [received EXCEPT !.freq = freq]
    /\ UNCHANGED <<told, visualBlocks, outsideInput>>

-----------------------------------------------------------------------------
(* FFTDataDistributor.                                                     *)

outsideDistributor == <<way, received, told, processor, pool, contents, canvasQueues, drawn,
                        visualEvents>>

\* The thread's loop begins with the size the processor asks for.
SetDistributorSize ==
    /\ visualLoop = "resize" /\ processor.step = "idle"
    /\ distributor' = [distributor EXCEPT !.fftSize =
                          IF processor.desired # 0 THEN processor.desired ELSE Internal(DefaultSize)]
    /\ visualLoop' = "distribute"
    /\ UNCHANGED <<accepted, visualBlocks, fftQueue, outsideDistributor>>

\* Another frequency empties the ring, and so does a ring that is too small for a line.
Refitted(d, freq) ==
    LET empty == [d EXCEPT !.max = RingSize(d.fftSize), !.data = EmptyRing(RingSize(d.fftSize)),
                           !.read = 0, !.write = 0, !.items = 0, !.freq = freq]
    IN  IF d.freq # freq \/ d.max < (12 * d.fftSize) \div 10 THEN empty ELSE d

\* Samples that find no room are dropped.
Appended(d, samples) ==
    LET n == Min({Len(samples), d.max - d.items})
        index(k) == 1 + ((d.write + k - 1) % d.max)
    IN  [d EXCEPT !.data = [i \in DOMAIN d.data |->
                               IF \E k \in 1 .. n : index(k) = i
                               THEN samples[CHOOSE k \in 1 .. n : index(k) = i] ELSE d.data[i]],
                  !.write = (@ + n) % d.max, !.items = @ + n]

Line(d, k) ==
    [i \in 1 .. d.fftSize |-> d.data[1 + ((d.read + ((k - 1) * d.fftSize) + i - 1) % d.max)]]

\* Mutant: no line is.
LineOutUnmarked(d, k) == [data |-> Line(d, k), discontinuity |-> FALSE]

\* Every line is marked: its buffer says so from the start, and nothing says otherwise.
LineOut(d, k) == [data |-> Line(d, k), discontinuity |-> TRUE]

Consumed(d, n) == [d EXCEPT !.items = @ - n, !.read = IF d.items = n THEN d.write ELSE (@ + n) % d.max]

LinesAscend(c) == \A i, j \in DOMAIN c : i < j => c[i] < c[j]

\* Of the lines there are, the line rate picks some, or it passes all samples over.
Picked(lines) ==
    {[chosen |-> c, passOver |-> FALSE] :
        c \in {s \in UNION {[1 .. n -> 1 .. lines] : n \in 0 .. lines} : LinesAscend(s)}}
    \cup {[chosen |-> << >>, passOver |-> TRUE] : k \in 1 .. Min({lines, 1})}

\* Whether the block is marked is not asked.  A line that finds fftQueue full is lost.
DistributeBlock ==
    /\ visualLoop = "distribute" /\ visualBlocks # << >> /\ Len(fftQueue) < LinesMax
    /\ LET samples == Head(visualBlocks).data
           refitted == Refitted(distributor, samples[1].freq)
           d == Appended(refitted, samples)
           lines == d.items \div d.fftSize
       IN /\ accepted' = accepted \cup {samples[k].n : k \in 1 .. (d.items - refitted.items)}
          /\ \E p \in Picked(lines) :
                /\ fftQueue' = fftQueue \o [k \in 1 .. Min({Len(p.chosen), LinesMax - Len(fftQueue)}) |->
                                             LineOut(d, p.chosen[k])]
                /\ distributor' = Consumed(d, IF p.passOver THEN d.items ELSE lines * d.fftSize)
    /\ visualBlocks' = Tail(visualBlocks)
    /\ UNCHANGED <<visualLoop, outsideDistributor>>

EndDistribute ==
    /\ visualLoop = "distribute"
    /\ visualBlocks = << >> \/ Len(fftQueue) = LinesMax
    /\ visualLoop' = "process"
    /\ UNCHANGED <<accepted, visualBlocks, distributor, fftQueue, outsideDistributor>>

EndProcess ==
    /\ way = "lines" /\ visualLoop = "process" /\ processor.step = "idle" /\ fftQueue = << >>
    /\ visualLoop' = "resize"
    /\ UNCHANGED <<accepted, visualBlocks, distributor, fftQueue, outsideDistributor>>

-----------------------------------------------------------------------------
(* ReBuffer, as a function of the pool and the buffers that others hold.   *)

Fresh(p, held) == CHOOSE b \in 1 .. Len(p) + Cardinality(held) + 1 :
    /\ b \notin held \cup {p[k].buffer : k \in DOMAIN p}
    /\ \A c \in 1 .. b - 1 : c \in held \cup {p[k].buffer : k \in DOMAIN p}

\* The first idle buffer is taken, the others age; the last one goes when it is too old,
\* and so do those beyond the cache.
GetBuffer(p, held) ==
    LET idle(k) == p[k].buffer \notin held
        first == CHOOSE k \in DOMAIN p : idle(k) /\ \A j \in 1 .. k - 1 : ~idle(j)
        aged == [k \in DOMAIN p |-> IF ~idle(k) THEN p[k]
                                    ELSE [p[k] EXCEPT !.age = IF k = first THEN 1 ELSE @ - 1]]
        collected == IF Last(aged).age < -GCLimit THEN Front(aged) ELSE aged
        idleBefore(k) == Cardinality({j \in 1 .. k - 1 : idle(j) /\ j # first})
        keeps(k) == ~idle(k) \/ k = first \/ 1 + idleBefore(k) < IdleCacheLimit
    IN  IF \E k \in DOMAIN p : idle(k)
        THEN [buffer |-> p[first].buffer,
              pool |-> [i \in 1 .. Cardinality({k \in DOMAIN collected : keeps(k)}) |->
                            collected[CHOOSE k \in DOMAIN collected :
                                keeps(k) /\ Cardinality({j \in 1 .. k : keeps(j)}) = i]]]
        ELSE [buffer |-> Fresh(p, held), pool |-> Append(p, [buffer |-> Fresh(p, held), age |-> 1])]

Held == {drawn.buffer} \cup
        UNION {{canvasQueues[k][i].buffer : i \in DOMAIN canvasQueues[k]} : k \in DOMAIN canvasQueues}

-----------------------------------------------------------------------------
(* SpectrumVisualProcessor.                                                *)

outsideProcessor == <<way, received, told, accepted, distributor, visualLoop, drawn, visualEvents>>

ProcessorInput == IF way = "lines" THEN fftQueue ELSE visualBlocks

\* Only when every canvas has room; a new size is noted here, and set up after the lock is
\* released.
RunProcessor ==
    /\ visualLoop = "process" /\ processor.step = "idle" /\ ProcessorInput # << >>
    /\ \A k \in DOMAIN canvasQueues : Len(canvasQueues[k]) < CanvasMax[way][k]
    /\ processor' = [processor EXCEPT !.step = IF processor.fftSizeChanged THEN "setup" ELSE "pop",
                                      !.fftSizeChanged = FALSE]
    /\ UNCHANGED <<visualBlocks, fftQueue, pool, contents, canvasQueues, outsideProcessor>>

Setup ==
    /\ processor.step = "setup"
    /\ processor' = [processor EXCEPT !.step = "pop", !.fftSize = processor.newFFTSize,
                                      !.history = << >>]
    /\ UNCHANGED <<visualBlocks, fftQueue, pool, contents, canvasQueues, outsideProcessor>>

LastOf(samples, n) == SubSeq(samples, Len(samples) - n + 1, Len(samples))

\* SampleFrameAccumulator::append; the history is full when a frame was made.
AppendSamples(history, samples, size) ==
    IF Len(samples) >= size THEN LastOf(samples, size)
    ELSE IF Len(history) + Len(samples) < size THEN history \o samples
    ELSE LastOf(history, size - Len(samples)) \o samples

EverySecond(samples) == [k \in 1 .. (Len(samples) + 1) \div 2 |-> samples[(2 * k) - 1]]

\* Mutant: a gap leaves the samples before it.
HistoryKept(p, discontinuity) == p.history

HistoryAfter(p, discontinuity) == IF discontinuity THEN << >> ELSE p.history

\* The samples of a view: as many as a frame needs, the first of the block, resampled.
Desired(p) == IF p.isView /\ p.zoomed THEN 2 * Internal(p.fftSize) ELSE Internal(p.fftSize)
Viewed(p, data) ==
    LET taken == SubSeq(data, 1, Min({Len(data), Desired(p)}))
    IN  IF ~p.isView THEN data ELSE IF p.zoomed THEN EverySecond(taken) ELSE taken

\* All under the lock that the setters take.
Process ==
    /\ processor.step = "pop" /\ ProcessorInput # << >>
    /\ LET block == Head(ProcessorInput)
           size == Internal(processor.fftSize)
           frame == AppendSamples(HistoryAfter(processor, block.discontinuity),
                                  Viewed(processor, block.data), size)
           got == GetBuffer(pool, Held)
       IN /\ processor' = [processor EXCEPT !.step = "idle", !.desired = Desired(processor),
                                            !.history = frame]
          /\ IF Len(frame) < size THEN UNCHANGED <<pool, contents, canvasQueues>>
             ELSE /\ pool' = got.pool
                  /\ contents' = [b \in 1 .. Max({Len(contents), got.buffer}) |->
                                     IF b = got.buffer THEN frame ELSE contents[b]]
                  /\ canvasQueues' = [k \in DOMAIN canvasQueues |->
                         Append(canvasQueues[k], [buffer |-> got.buffer, given |-> frame])]
    /\ IF way = "lines" THEN fftQueue' = Tail(fftQueue) /\ UNCHANGED visualBlocks
       ELSE visualBlocks' = Tail(visualBlocks) /\ UNCHANGED fftQueue
    /\ UNCHANGED outsideProcessor

-----------------------------------------------------------------------------
(* The GUI.                                                                *)

outsideSettings == <<way, received, told, accepted, visualBlocks, distributor, fftQueue, visualLoop,
                     pool, contents>>

SetView(bView, zoomed) ==
    /\ VisualEvent
    /\ processor' = [processor EXCEPT !.isView = bView, !.zoomed = zoomed]
    /\ UNCHANGED <<canvasQueues, drawn, outsideSettings>>

\* The size that is set up already is not noted, whatever is noted.
SetFFTSize(size) ==
    /\ VisualEvent /\ size # processor.fftSize
    /\ processor' = [processor EXCEPT !.newFFTSize = size, !.fftSizeChanged = TRUE]
    /\ UNCHANGED <<canvasQueues, drawn, outsideSettings>>

\* A canvas takes what is queued, and lets go of it when it has been copied.
DrawNext(k) ==
    /\ drawn = Nothing /\ canvasQueues[k] # << >>
    /\ drawn' = Head(canvasQueues[k])
    /\ canvasQueues' = [canvasQueues EXCEPT ![k] = Tail(@)]
    /\ UNCHANGED <<processor, visualEvents, outsideSettings>>

Drawn ==
    /\ drawn # Nothing /\ drawn' = Nothing
    /\ UNCHANGED <<processor, canvasQueues, visualEvents, outsideSettings>>

\* A new line rate empties the waterfall's queue.
FlushCanvas ==
    /\ VisualEvent /\ way = "lines" /\ drawn = Nothing
    /\ canvasQueues' = [k \in DOMAIN canvasQueues |-> << >>]
    /\ UNCHANGED <<processor, drawn, outsideSettings>>

VisualsNext ==
    \/ \E size \in VisualBlockSizes :
          \/ PushVisualData(size, FALSE) /\ UNCHANGED visualEvents
          \/ PushVisualData(size, TRUE) /\ VisualEvent
    \/ \E freq \in VisualTunings : Retune(freq)
    \/ SetDistributorSize \/ DistributeBlock \/ EndDistribute \/ EndProcess
    \/ RunProcessor \/ Setup \/ Process
    \/ \E b, c \in BOOLEAN : SetView(b, c)
    \/ \E size \in FFTSizes : SetFFTSize(size)
    \/ \E k \in DOMAIN canvasQueues : DrawNext(k)
    \/ Drawn \/ FlushCanvas

VisualsSpec == VisualsInit /\ [][VisualsNext]_visualVars

-----------------------------------------------------------------------------
(* Properties.                                                             *)

VisualsTypeOK ==
    /\ visualLoop \in {"resize", "distribute", "process"}
    /\ processor.step \in {"idle", "setup", "pop"}
    /\ Len(processor.history) =< Internal(Max(FFTSizes))
    /\ distributor.items \in 0 .. distributor.max
    /\ \A k \in DOMAIN canvasQueues : Len(canvasQueues[k]) =< CanvasMax[way][k]

Shown == {drawn} \cup UNION {ToSet(canvasQueues[k]) : k \in DOMAIN canvasQueues}

Increasing(samples) == \A i \in 1 .. Len(samples) - 1 : samples[i].n < samples[i + 1].n

\* Between two samples that follow each other at most one was left out, as a zoomed view does.
Consecutive(samples, from) ==
    \A i \in 1 .. Len(samples) - 1 :
        \A m, n \in from : ({m, n} \subseteq samples[i].n + 1 .. samples[i + 1].n - 1) => m = n

Joins(samples, gap) == \E i, j \in DOMAIN samples : samples[i].n < gap /\ gap =< samples[j].n

\* A frame of the spectrum joins no samples from both sides of a gap that was told
\* (SpectrumVisualProcessor.cpp:269-276).  A line of the waterfall is a stretch of what the
\* distributor took, at one frequency, however its ring is filled, wrapped, emptied or resized
\* (FFTDataDistributor.cpp:28-159), and a frame of the waterfall is of one line: lines that the
\* line rate or a full queue leaves out are never bridged by a rolling frame.  What a canvas
\* holds is what it was given, whatever buffers are used again meanwhile (ReBuffer::getBuffer,
\* IOThread.h:63-144).  That no displayed frame joins samples from both sides of a gap
\* (SpectrumVisualProcessor.cpp:270) is not so in general: the distributor does not ask whether
\* a block is marked, so that a line may hold both sides of a told gap, and what is said here
\* of told gaps is of the spectrum alone; and a block lost at the full input queue is not told.
FramesAreWhole ==
    /\ \A s \in Shown \ {Nothing} : s.buffer \in DOMAIN contents /\ contents[s.buffer] = s.given
    /\ \A s \in Shown : Increasing(s.given)
    /\ way = "direct" => \A s \in Shown, gap \in told : ~Joins(s.given, gap)
    /\ way = "lines" =>
          \A s \in Shown : /\ \A i \in DOMAIN s.given : s.given[i].freq = s.given[1].freq
                           /\ Consecutive(s.given, accepted)
    /\ \A k \in DOMAIN fftQueue :
          LET line == fftQueue[k].data
          IN /\ \A i \in DOMAIN line : line[i].freq = line[1].freq
             /\ \A i \in 1 .. Len(line) - 1 :
                   /\ line[i].n < line[i + 1].n
                   /\ accepted \cap (line[i].n + 1 .. line[i + 1].n - 1) = {}
=============================================================================
