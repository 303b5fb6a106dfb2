---------------------------- MODULE IQStreamProofs ----------------------------
(***************************************************************************)
(* Theorems about IQStream for every number of demodulators, every choice  *)
(* of rates and sizes, and every bound.                                    *)
(***************************************************************************)
EXTENDS IQStream, SequenceTheorems, TLAPS

\* Samples without a gap, each told by the first one: Contiguous, without an induction.
Run(s) == \A i \in 1 .. Len(s) : s[i] = s[1] + i - 1

\* The position after the last sample.
End(s) == s[Len(s)] + 1

-----------------------------------------------------------------------------
(* SDRThread.                                                              *)

\* What the buffers of readStream hold ends at the receiver's position, unless the
\* block being read has failed.
ReaderIsAtPosition ==
    /\ Run(dataOut) /\ Run(overflowBuffer)
    /\ overflowBuffer # << >> => End(overflowBuffer) = position
    /\ discontinuityAfterBlock => overflowBuffer = << >>
    /\ discontinuityAfterBlock => step # "read"
    /\ discontinuityAfterBlock /\ step = "settings" => pendingDiscontinuity
    /\ step # "settings" =>
        /\ overflowBuffer # << >> =>
            Len(dataOut) = NumElems /\ overflowBuffer[1] = End(dataOut)
        /\ dataOut # << >> => End(dataOut) <= position
        /\ dataOut # << >> /\ overflowBuffer = << >> /\ ~discontinuityAfterBlock =>
            End(dataOut) = position

\* Where the block that will be pushed next starts.
Upcoming == IF step = "settings" THEN overflowBuffer ELSE dataOut
UpcomingStart == IF Upcoming = << >> THEN position ELSE Upcoming[1]

\* It will be announced as a discontinuity.
Told == pendingDiscontinuity \/ (discontinuityAfterBlock /\ Upcoming = << >>)

\* The next block follows what ended at `end` with that many channels, or says otherwise.
UpcomingFollows(end, channels) ==
    /\ end <= UpcomingStart
    /\ ~Told => UpcomingStart = end /\ numChannels = channels

BlockFollows(block, end, channels) ==
    /\ end <= block.data[1]
    /\ ~block.discontinuity => block.data[1] = end /\ block.numChannels = channels

\* Each block in the queue follows the one before it, and the last is followed by the
\* one being read.
QueueFollows ==
    /\ \A i \in 1 .. Len(iqDataOut) :
        /\ Run(iqDataOut[i].data)
        /\ End(iqDataOut[i].data) <= position
        /\ iqDataOut[i].sequence < nextSequence
    /\ \A i \in 1 .. Len(iqDataOut) - 1 :
        /\ iqDataOut[i].sequence < iqDataOut[i + 1].sequence
        /\ BlockFollows(iqDataOut[i + 1], End(iqDataOut[i].data), iqDataOut[i].numChannels)
    /\ iqDataOut # << >> =>
        LET last == iqDataOut[Len(iqDataOut)] IN
            UpcomingFollows(End(last.data), last.numChannels)

-----------------------------------------------------------------------------
(* SDRPostThread and the demodulators.                                     *)

\* What demodulator d has taken, at 0, and the blocks of its queue.
SequenceAt(d, i) == IF i = 0 THEN pre[d].sequence ELSE inputs[d][i].sequence
EndAt(d, i) == IF i = 0 THEN pre[d].next ELSE End(inputs[d][i].data)
Newest(d) == Len(inputs[d])

\* The blocks of the queue follow each other, and the first what was taken, or can be
\* told from its flag or its number.
InputsFollow(d) ==
    /\ \A i \in 1 .. Len(inputs[d]) : Run(inputs[d][i].data)
    /\ \A i \in 0 .. Len(inputs[d]) : \A j \in i + 1 .. Len(inputs[d]) :
        /\ SequenceAt(d, i) < inputs[d][j].sequence
        /\ EndAt(d, i) <= inputs[d][j].data[1]
    /\ \A i \in 0 .. Len(inputs[d]) - 1 :
        SequenceAt(d, i) # NoSequence /\ ~Gap(inputs[d][i + 1], SequenceAt(d, i))
            => inputs[d][i + 1].data[1] = EndAt(d, i)

\* The last block that SDRPostThread took ended at `end` and had that many channels.
\* What the channelizer has kept ends there, unless the channelizer has been bypassed since.
KeptFollows(end, channels) ==
    channels > 1 /\ channelizerInput # << >> => End(channelizerInput) = end

\* Where the next sample for the demodulators comes from.
NextSample(end, channels) ==
    IF channels > 1 /\ channelizerInput # << >> THEN channelizerInput[1] ELSE end

\* A demodulator that got a part of the last block got all before the next sample.
DemodFollows(d, end, channels) ==
    /\ SequenceAt(d, Newest(d)) <= lastInputSequence
    /\ EndAt(d, Newest(d)) <= NextSample(end, channels)
    /\ SequenceAt(d, Newest(d)) = lastInputSequence /\ lastInputSequence # NoSequence
        => EndAt(d, Newest(d)) = NextSample(end, channels)

\* The next block follows the last one taken.
HeadFollows(end, channels) ==
    IF iqDataOut = << >> THEN UpcomingFollows(end, channels)
    ELSE /\ lastInputSequence < iqDataOut[1].sequence
         /\ BlockFollows(iqDataOut[1], end, channels)

PostFollows(end, channels) ==
    /\ end <= position
    /\ lastInputSequence < nextSequence
    /\ HeadFollows(end, channels)
    /\ KeptFollows(end, channels)
    /\ \A d \in Demods : DemodFollows(d, end, channels)

IInv ==
    /\ TypeOK
    /\ ReaderIsAtPosition
    /\ QueueFollows
    /\ Run(channelizerInput)
    /\ \A d \in Demods : InputsFollow(d)
    /\ \E end \in Nat, channels \in Nat \ {0} : PostFollows(end, channels)
-----------------------------------------------------------------------------
(* Sequences of samples.                                                   *)

LEMMA PositionsAreNumbers == Positions \subseteq Nat /\ Positions \in SUBSET Int
  BY StreamAssumption DEF Positions

\* A run ends as many samples after its first as it has.
LEMMA RunEnds ==
    ASSUME NEW S \in SUBSET Int, NEW s \in Seq(S), s # << >>, Run(s)
    PROVE  /\ Len(s) \in Nat \ {0} /\ s[1] \in S /\ s[Len(s)] \in S
           /\ End(s) = s[1] + Len(s)
  <1>1. Len(s) \in Nat \ {0}
    BY EmptySeq
  <1>2. s[1] \in S /\ s[Len(s)] \in S
    BY <1>1, ElementOfSeq
  <1>3. s[Len(s)] = s[1] + Len(s) - 1
    BY <1>1 DEF Run
  <1>4. s[1] \in Int
    BY <1>2
  <1>5. End(s) = s[1] + Len(s)
    BY <1>1, <1>3, <1>4 DEF End
  <1>6. QED
    BY <1>1, <1>2, <1>5

\* The same, for what a block holds.
LEMMA BlockRunEnds ==
    ASSUME NEW s \in SampleSeqs, Run(s)
    PROVE  /\ Len(s) \in Nat \ {0} /\ s[1] \in Positions /\ s[Len(s)] \in Positions
           /\ s[1] \in Nat /\ End(s) \in Nat /\ End(s) = s[1] + Len(s)
  <1>1. s \in Seq(Positions) /\ s # << >> /\ Positions \in SUBSET Int
    BY PositionsAreNumbers DEF SampleSeqs
  <1>2. /\ Len(s) \in Nat \ {0} /\ s[1] \in Positions /\ s[Len(s)] \in Positions
        /\ End(s) = s[1] + Len(s)
    BY <1>1, RunEnds
  <1>3. s[1] \in Nat
    BY <1>2, PositionsAreNumbers
  <1>4. QED
    BY <1>2, <1>3

LEMMA TakeRuns ==
    ASSUME NEW S \in SUBSET Int, NEW s \in Seq(S), Run(s), NEW n \in Nat
    PROVE  /\ Take(s, n) \in Seq(S)
           /\ Len(Take(s, n)) = IF n < Len(s) THEN n ELSE Len(s)
           /\ \A i \in 1 .. Len(Take(s, n)) : Take(s, n)[i] = s[i]
           /\ Run(Take(s, n))
  <1> DEFINE m == IF n < Len(s) THEN n ELSE Len(s)
  <1>1. m \in 0 .. Len(s) /\ Len(s) \in Nat
    BY LenProperties
  <1>2. \A i \in 1 .. m : s[i] \in S
    BY <1>1, ElementOfSeq
  <1>3. /\ Take(s, n) \in Seq(S) /\ Len(Take(s, n)) = m
        /\ \A i \in 1 .. m : Take(s, n)[i] = s[i]
    <2> HIDE DEF m
    <2>1. Take(s, n) = SubSeq(s, 1, m)
      BY DEF Take, m
    <2>2. /\ SubSeq(s, 1, m) \in Seq(S)
          /\ Len(SubSeq(s, 1, m)) = IF 1 <= m THEN m - 1 + 1 ELSE 0
          /\ \A i \in 1 .. m - 1 + 1 : SubSeq(s, 1, m)[i] = s[1 + i - 1]
      BY <1>1, <1>2, SubSeqProperties
    <2>3. QED
      BY <1>1, <2>1, <2>2
  <1>4. Run(Take(s, n))
    BY <1>1, <1>2, <1>3 DEF Run
  <1>5. QED
    BY <1>3, <1>4

LEMMA DropRuns ==
    ASSUME NEW S \in SUBSET Int, NEW s \in Seq(S), Run(s), NEW n \in Nat
    PROVE  /\ Drop(s, n) \in Seq(S)
           /\ Len(Drop(s, n)) = IF n < Len(s) THEN Len(s) - n ELSE 0
           /\ Drop(s, n) # << >> => Drop(s, n)[1] = s[1] + n /\ End(Drop(s, n)) = End(s)
           /\ Run(Drop(s, n))
  <1>1. Len(s) \in Nat /\ \A i \in n + 1 .. Len(s) : s[i] \in S
    BY LenProperties, ElementOfSeq
  <1>2. /\ Drop(s, n) \in Seq(S)
        /\ Len(Drop(s, n)) = IF n + 1 <= Len(s) THEN Len(s) - (n + 1) + 1 ELSE 0
        /\ \A i \in 1 .. Len(s) - (n + 1) + 1 : Drop(s, n)[i] = s[n + 1 + i - 1]
    BY <1>1, SubSeqProperties DEF Drop
  <1>3. Len(Drop(s, n)) = IF n < Len(s) THEN Len(s) - n ELSE 0
    BY <1>1, <1>2
  <1>4. ASSUME NEW i \in 1 .. Len(Drop(s, n))
        PROVE  Drop(s, n)[i] = s[n + i] /\ s[n + i] = s[1] + n + i - 1
    <2>1. /\ i \in 1 .. Len(s) - (n + 1) + 1 /\ n + 1 + i - 1 = n + i
          /\ n + i \in 1 .. Len(s) /\ 1 \in 1 .. Len(s)
      BY <1>1, <1>3
    <2>2. s[n + i] = s[1] + (n + i) - 1 /\ s[1] \in S
      BY <2>1, ElementOfSeq DEF Run
    <2>3. s[1] \in Int
      BY <2>2
    <2>4. Drop(s, n)[i] = s[n + i]
      BY <1>2, <2>1
    <2>5. s[1] + (n + i) - 1 = s[1] + n + i - 1
      BY <1>1, <2>1, <2>3
    <2>6. QED
      BY <2>2, <2>4, <2>5
  <1>5. Drop(s, n) # << >> => Len(Drop(s, n)) \in 1 .. Len(s)
    BY <1>1, <1>2, <1>3, EmptySeq
  <1>6. Drop(s, n) # << >> => Drop(s, n)[1] = s[1] + n /\ End(Drop(s, n)) = End(s)
    <2>1. SUFFICES ASSUME Drop(s, n) # << >>
                   PROVE  Drop(s, n)[1] = s[1] + n /\ Drop(s, n)[Len(Drop(s, n))] = s[Len(s)]
      BY DEF End
    <2>2. n + Len(Drop(s, n)) = Len(s) /\ 1 \in 1 .. Len(s)
      BY <1>1, <1>3, <1>5, <2>1
    <2>3. s[1] \in Int
      BY <2>2, ElementOfSeq
    <2>4. Drop(s, n)[1] = s[1] + n + 1 - 1
      BY <1>4, <1>5, <2>1
    <2>5. Drop(s, n)[Len(Drop(s, n))] = s[n + Len(Drop(s, n))]
      BY <1>4, <1>5, <2>1
    <2>6. QED
      BY <2>2, <2>3, <2>4, <2>5
  <1>7. Run(Drop(s, n))
    <2>1. ASSUME NEW i \in 1 .. Len(Drop(s, n))
          PROVE  Drop(s, n)[i] = Drop(s, n)[1] + i - 1
      <3>1. Drop(s, n) # << >>
        BY <1>2, EmptySeq
      <3>2. Drop(s, n)[1] = s[1] + n /\ Drop(s, n)[i] = s[1] + n + i - 1
        BY <1>4, <1>6, <3>1
      <3>3. QED
        BY <3>2
    <2>2. QED
      BY <2>1 DEF Run
  <1>8. QED
    BY <1>2, <1>3, <1>6, <1>7

\* Two runs make one when the second starts where the first ends.
LEMMA ConcatRuns ==
    ASSUME NEW S \in SUBSET Int, NEW s \in Seq(S), NEW t \in Seq(S), Run(s), Run(t),
           s # << >> /\ t # << >> => t[1] = End(s)
    PROVE  /\ s \o t \in Seq(S) /\ Len(s \o t) = Len(s) + Len(t)
           /\ s # << >> => (s \o t)[1] = s[1]
           /\ s = << >> => s \o t = t
           /\ t # << >> => End(s \o t) = End(t)
           /\ t = << >> => s \o t = s
           /\ Run(s \o t)
  <1>1. /\ s \o t \in Seq(S) /\ Len(s \o t) = Len(s) + Len(t)
        /\ \A i \in 1 .. Len(s) + Len(t) :
            (s \o t)[i] = IF i <= Len(s) THEN s[i] ELSE t[i - Len(s)]
    BY ConcatProperties
  <1>2. /\ Len(s) \in Nat /\ Len(t) \in Nat
        /\ s # << >> => Len(s) > 0
        /\ t # << >> => Len(t) > 0
    BY EmptySeq, LenProperties
  <1>3. (s = << >> => s \o t = t) /\ (t = << >> => s \o t = s)
    BY ConcatEmptySeq
  <1>4. s # << >> => (s \o t)[1] = s[1]
    BY <1>1, <1>2
  <1>5. t # << >> => End(s \o t) = End(t)
    <2>1. SUFFICES ASSUME t # << >> PROVE (s \o t)[Len(s) + Len(t)] = t[Len(t)]
      BY <1>1 DEF End
    <2>2. QED
      BY <1>1, <1>2, <2>1
  <1>6. Run(s \o t)
    <2>1. CASE s = << >> \/ t = << >>
      BY <1>3, <2>1
    <2>2. CASE s # << >> /\ t # << >>
      <3>1. t[1] = s[1] + Len(s) /\ s[1] \in Int /\ t[1] \in Int
        BY <2>2, RunEnds
      <3>2. \A i \in 1 .. Len(s) + Len(t) : (s \o t)[i] = s[1] + i - 1
        <4>1. ASSUME NEW i \in 1 .. Len(s) + Len(t) PROVE (s \o t)[i] = s[1] + i - 1
          <5>1. CASE i <= Len(s)
            BY <1>1, <1>2, <5>1 DEF Run
          <5>2. CASE i > Len(s)
            <6>1. i - Len(s) \in 1 .. Len(t)
              BY <1>2, <5>2
            <6>2. t[i - Len(s)] = t[1] + (i - Len(s)) - 1
              BY <6>1 DEF Run
            <6>3. ~(i <= Len(s)) /\ (s \o t)[i] = t[i - Len(s)]
              BY <1>1, <1>2, <5>2
            <6>4. QED
              BY <1>2, <3>1, <6>2, <6>3
          <5>3. QED
            BY <1>2, <5>1, <5>2
        <4>2. QED
          BY <4>1
      <3>3. QED
        BY <1>1, <1>4, <2>2, <3>2 DEF Run
    <2>3. QED
      BY <2>1, <2>2
  <1>7. QED
    BY <1>1, <1>3, <1>4, <1>5, <1>6

\* What the device returns is a run from the receiver's position.
LEMMA SamplesRun ==
    ASSUME NEW n \in Nat \ {0}, position \in Nat, position + n <= MaxPosition
    PROVE  /\ Samples(n) \in Seq(Positions) /\ Len(Samples(n)) = n
           /\ Samples(n) # << >> /\ Samples(n)[1] = position
           /\ End(Samples(n)) = position + n
           /\ Run(Samples(n))
  <1>1. \A i \in 1 .. n : position + i - 1 \in Positions
    BY StreamAssumption DEF Positions
  <1>2. Samples(n) \in Seq(Positions) /\ Len(Samples(n)) = n
    BY <1>1 DEF Samples
  <1>3. \A i \in 1 .. n : Samples(n)[i] = position + i - 1
    BY DEF Samples
  <1>4. Samples(n) # << >>
    BY <1>2, EmptySeq
  <1>5. QED
    BY <1>2, <1>3, <1>4 DEF Run, End

LEMMA EmptyRuns == Run(<< >>)
  BY DEF Run

\* A run is contiguous.
LEMMA RunIsContiguous ==
    ASSUME NEW S \in SUBSET Int, NEW s \in Seq(S), Run(s)
    PROVE  Contiguous(s)
  <1>1. Len(s) \in Nat /\ \A i \in 1 .. Len(s) : s[i] \in Int
    BY LenProperties, ElementOfSeq
  <1>2. ASSUME NEW i \in 1 .. Len(s) - 1 PROVE s[i + 1] = s[i] + 1
    BY <1>1 DEF Run
  <1>3. QED
    BY <1>2 DEF Contiguous

-----------------------------------------------------------------------------
(* Steps of SDRThread.                                                     *)

\* The types of what a step of SDRThread changes; the other variables keep theirs.
LEMMA ReaderKeepsTypes ==
    ASSUME TypeOK, UNCHANGED <<post, inputs, pre>>,
           position' \in 0 .. MaxPosition, numChannels' \in ChannelCounts,
           step' \in {"settings", "read", "push"},
           dataOut' \in Seq(Positions), Len(dataOut') <= NumElems,
           overflowBuffer' \in Seq(Positions), Len(overflowBuffer') < Mtu,
           discontinuityAfterBlock' \in BOOLEAN, pendingDiscontinuity' \in BOOLEAN,
           nextSequence' \in Nat,
           iqDataOut' \in Seq(InputBlocks), Len(iqDataOut') <= QueueMax
    PROVE  TypeOK'
  BY DEF TypeOK, post

\* A step that leaves the queue alone keeps the invariant when the block that comes
\* next still follows what it followed, or is told.
LEMMA QuietReaderStep ==
    ASSUME IInv, TypeOK', ReaderIsAtPosition', UNCHANGED <<iqDataOut, post, inputs, pre>>,
           position' >= position, nextSequence' >= nextSequence,
           \A end \in Int, channels \in Nat :
               end <= position /\ UpcomingFollows(end, channels) => UpcomingFollows(end, channels)'
    PROVE  IInv'
  <1> USE DEF IInv
  <1>1. position \in Nat /\ position' \in Nat /\ nextSequence \in Nat /\ nextSequence' \in Nat
    BY StreamAssumption DEF TypeOK
  <1>2. QueueFollows'
    <2>1. ASSUME NEW i \in 1 .. Len(iqDataOut)
          PROVE  /\ Run(iqDataOut[i].data) /\ End(iqDataOut[i].data) <= position'
                 /\ iqDataOut[i].sequence < nextSequence'
                 /\ End(iqDataOut[i].data) \in Int /\ iqDataOut[i].numChannels \in Nat
      <3>1. iqDataOut[i] \in InputBlocks
        BY ElementOfSeq DEF TypeOK
      <3>2. /\ Run(iqDataOut[i].data) /\ End(iqDataOut[i].data) <= position
            /\ iqDataOut[i].sequence < nextSequence
        BY DEF QueueFollows
      <3>3. iqDataOut[i].data \in SampleSeqs
        BY <3>1 DEF InputBlocks
      <3>4. End(iqDataOut[i].data) \in Int
        BY <3>2, <3>3, BlockRunEnds
      <3>5. iqDataOut[i].sequence \in Nat /\ iqDataOut[i].numChannels \in Nat
        BY <3>1, StreamAssumption DEF InputBlocks
      <3>6. QED
        BY <1>1, <3>2, <3>4, <3>5
    <2>2. ASSUME iqDataOut # << >>
          PROVE  UpcomingFollows(End(iqDataOut[Len(iqDataOut)].data), iqDataOut[Len(iqDataOut)].numChannels)'
      <3>1. Len(iqDataOut) \in 1 .. Len(iqDataOut)
        BY <2>2, EmptySeq DEF TypeOK
      <3>2. UpcomingFollows(End(iqDataOut[Len(iqDataOut)].data), iqDataOut[Len(iqDataOut)].numChannels)
        BY <2>2 DEF QueueFollows
      <3>3. End(iqDataOut[Len(iqDataOut)].data) <= position
        BY <3>1 DEF QueueFollows
      <3>4. QED
        BY <2>1, <3>1, <3>2, <3>3 DEF UpcomingFollows
    <2>3. QED
      BY <2>1, <2>2 DEF QueueFollows, UpcomingFollows, BlockFollows
  <1>3. PICK end \in Nat, channels \in Nat \ {0} : PostFollows(end, channels)
    OBVIOUS
  <1>4. PostFollows(end, channels)'
    <2>1. HeadFollows(end, channels)'
      BY <1>3 DEF PostFollows, HeadFollows, UpcomingFollows, BlockFollows, post
    <2>2. end <= position' /\ lastInputSequence < nextSequence'
      BY <1>1, <1>3 DEF PostFollows, TypeOK, Seqs, NoSequence
    <2>3. QED
      BY <1>3, <2>1, <2>2
         DEF PostFollows, KeptFollows, DemodFollows, NextSample, SequenceAt, EndAt, Newest, post
  <1>5. Run(channelizerInput)' /\ \A d \in Demods : InputsFollow(d)'
    BY DEF post, InputsFollow, SequenceAt, EndAt
  <1>6. QED
    BY <1>2, <1>4, <1>5

\* The types that the steps below read off the invariant.
LEMMA ReaderTypes ==
    ASSUME TypeOK
    PROVE  /\ position \in Nat /\ position <= MaxPosition /\ MaxPosition \in Nat
           /\ NumElems \in Nat \ {0} /\ Mtu \in Nat \ {0}
           /\ dataOut \in Seq(Positions) /\ overflowBuffer \in Seq(Positions)
           /\ Len(dataOut) \in Nat /\ Len(overflowBuffer) \in Nat
           /\ Len(dataOut) <= NumElems /\ Len(overflowBuffer) < Mtu
           /\ dataOut = << >> <=> Len(dataOut) = 0
           /\ overflowBuffer = << >> <=> Len(overflowBuffer) = 0
           /\ << >> \in Seq(Positions) /\ Len(<< >>) = 0
           /\ discontinuityAfterBlock \in BOOLEAN /\ pendingDiscontinuity \in BOOLEAN
           /\ nextSequence \in Nat
  BY StreamAssumption, EmptySeq, LenProperties DEF TypeOK

\* What the overflow buffer holds becomes the block being read, and the rest of it.
LEMMA StartReadStarts ==
    ASSUME IInv, NEW samples \in Seq(Positions), Run(samples), Len(samples) < Mtu,
           samples # << >> => End(samples) = position', StartRead(samples)
    PROVE  /\ dataOut' \in Seq(Positions) /\ Len(dataOut') <= NumElems
           /\ overflowBuffer' \in Seq(Positions) /\ Len(overflowBuffer') < Mtu
           /\ (Upcoming = << >>)' <=> samples = << >>
           /\ samples # << >> => UpcomingStart' = samples[1]
           /\ samples = << >> => UpcomingStart' = position'
           /\ ReaderIsAtPosition'
  <1> USE DEF IInv
  <1> DEFINE taken == Take(samples, NumElems)
             left  == Drop(samples, NumElems)
  <1>1. /\ dataOut' = taken /\ overflowBuffer' = left /\ discontinuityAfterBlock' = FALSE
        /\ step' = "read"
    BY DEF StartRead
  <1>2. /\ taken \in Seq(Positions) /\ Run(taken)
        /\ Len(taken) = IF NumElems < Len(samples) THEN NumElems ELSE Len(samples)
        /\ \A i \in 1 .. Len(taken) : taken[i] = samples[i]
    BY TakeRuns, PositionsAreNumbers, ReaderTypes
  <1>3. /\ left \in Seq(Positions) /\ Run(left)
        /\ Len(left) = IF NumElems < Len(samples) THEN Len(samples) - NumElems ELSE 0
        /\ left # << >> => left[1] = samples[1] + NumElems /\ End(left) = End(samples)
    BY DropRuns, PositionsAreNumbers, ReaderTypes
  <1> HIDE DEF taken, left
  <1>4. /\ Len(samples) \in Nat /\ (samples = << >> <=> Len(samples) = 0)
        /\ taken = << >> <=> Len(taken) = 0
        /\ left = << >> <=> Len(left) = 0
    BY <1>2, <1>3, EmptySeq, LenProperties
  <1>5. samples # << >> =>
            /\ taken # << >> /\ taken[1] = samples[1] /\ samples[1] \in Int
            /\ End(samples) = samples[1] + Len(samples)
            /\ End(taken) = taken[1] + Len(taken)
    <2>1. SUFFICES ASSUME samples # << >>
                   PROVE  /\ taken # << >> /\ taken[1] = samples[1] /\ samples[1] \in Int
                          /\ End(samples) = samples[1] + Len(samples)
                          /\ End(taken) = taken[1] + Len(taken)
      OBVIOUS
    <2>2. taken # << >> /\ 1 \in 1 .. Len(taken)
      BY <1>2, <1>4, <2>1, ReaderTypes
    <2>3. samples[1] \in Positions /\ End(samples) = samples[1] + Len(samples)
      BY <2>1, RunEnds, PositionsAreNumbers
    <2>4. End(taken) = taken[1] + Len(taken)
      BY <1>2, <2>2, RunEnds, PositionsAreNumbers
    <2>5. QED
      BY <1>2, <2>2, <2>3, <2>4, PositionsAreNumbers
  <1>6. ReaderIsAtPosition'
    <2>1. left # << >> =>
              Len(taken) = NumElems /\ left[1] = End(taken) /\ End(left) = position'
      BY <1>2, <1>3, <1>4, <1>5, ReaderTypes
    <2>2. taken # << >> /\ left = << >> => End(taken) = position'
      BY <1>2, <1>3, <1>4, <1>5, ReaderTypes
    <2>3. taken # << >> => End(taken) <= position'
      <3>1. CASE left = << >>
        <4>1. taken # << >> => End(taken) = position' /\ End(taken) \in Int
          BY <1>4, <1>5, <1>2, <2>2, <3>1
        <4>2. QED
          BY <4>1
      <3>2. CASE left # << >>
        BY <1>2, <1>3, <1>4, <1>5, <3>2, ReaderTypes
      <3>3. QED
        BY <3>1, <3>2
    <2>4. QED
      BY <1>1, <1>2, <1>3, <2>1, <2>2, <2>3 DEF ReaderIsAtPosition
  <1>7. QED
    BY <1>1, <1>2, <1>3, <1>4, <1>5, <1>6, ReaderTypes DEF Upcoming, UpcomingStart

LEMMA ReadStreamKeeps == IInv /\ ReadStream => IInv'
  <1> SUFFICES ASSUME IInv, ReadStream PROVE IInv'
    OBVIOUS
  <1>1. /\ Run(overflowBuffer)
        /\ overflowBuffer # << >> => End(overflowBuffer) = position'
        /\ overflowBuffer \in Seq(Positions) /\ Len(overflowBuffer) < Mtu
    BY DEF IInv, TypeOK, ReaderIsAtPosition, ReadStream, device
  <1>2. /\ dataOut' \in Seq(Positions) /\ Len(dataOut') <= NumElems
        /\ overflowBuffer' \in Seq(Positions) /\ Len(overflowBuffer') < Mtu
        /\ (Upcoming = << >>)' <=> overflowBuffer = << >>
        /\ overflowBuffer # << >> => UpcomingStart' = overflowBuffer[1]
        /\ overflowBuffer = << >> => UpcomingStart' = position'
        /\ ReaderIsAtPosition'
    BY <1>1, StartReadStarts, EmptySeq DEF ReadStream, device
  <1>3. TypeOK'
    BY <1>2, ReaderKeepsTypes DEF IInv, TypeOK, ReadStream, StartRead, device
  <1>4. ASSUME NEW end \in Int, NEW channels \in Nat, UpcomingFollows(end, channels)
        PROVE  UpcomingFollows(end, channels)'
    BY <1>2, <1>4
       DEF IInv, ReaderIsAtPosition, UpcomingFollows, UpcomingStart, Upcoming, Told, ReadStream,
           StartRead, device
  <1>5. QED
    BY <1>2, <1>3, <1>4, QuietReaderStep, ReaderTypes DEF IInv, ReadStream, device

LEMMA ChangeRateKeeps ==
    ASSUME IInv, NEW channels \in ChannelCounts, NEW lost \in 1 .. MaxLoss, ChangeRate(channels, lost)
    PROVE  IInv'
  <1>1. position' = position + lost /\ position' <= MaxPosition /\ position' \in Nat /\ lost \in Nat
    BY StreamAssumption, ReaderTypes DEF ChangeRate, Passes, IInv
  <1>2. /\ dataOut' \in Seq(Positions) /\ Len(dataOut') <= NumElems
        /\ overflowBuffer' \in Seq(Positions) /\ Len(overflowBuffer') < Mtu
        /\ UpcomingStart' = position'
        /\ ReaderIsAtPosition'
    <2>1. /\ << >> \in Seq(Positions) /\ Run(<< >>) /\ Len(<< >>) < Mtu
          /\ StartRead(<< >>)
      BY EmptyRuns, ReaderTypes DEF ChangeRate, IInv
    <2>2. QED
      BY <2>1, StartReadStarts
  <1>3. TypeOK'
    <2>1. /\ step' = "read" /\ discontinuityAfterBlock' = FALSE /\ pendingDiscontinuity' = TRUE
          /\ numChannels' = channels /\ UNCHANGED <<nextSequence, iqDataOut, post, inputs, pre>>
      BY DEF ChangeRate, StartRead
    <2>2. position' \in 0 .. MaxPosition
      BY <1>1, ReaderTypes DEF IInv
    <2>3. iqDataOut \in Seq(InputBlocks) /\ Len(iqDataOut) <= QueueMax /\ TypeOK
      BY DEF IInv, TypeOK
    <2>4. QED
      BY <1>2, <2>1, <2>2, <2>3, ReaderKeepsTypes, ReaderTypes
  <1>4. ASSUME NEW end \in Int, NEW c \in Nat, end <= position
        PROVE  UpcomingFollows(end, c)'
    BY <1>1, <1>2, <1>4, ReaderTypes DEF IInv, UpcomingFollows, Told, ChangeRate
  <1>5. QED
    BY <1>1, <1>2, <1>3, <1>4, QuietReaderStep, ReaderTypes DEF IInv, ChangeRate

\* What the device returns continues the block being read, and what it has in excess
\* the overflow buffer.
LEMMA ReadKeeps ==
    ASSUME IInv, NEW n \in 1 .. Mtu, Read(n)
    PROVE  IInv'
  <1> DEFINE got   == dataOut \o Samples(n)
             taken == Take(got, NumElems)
             left  == Drop(got, NumElems)
  <1>1. /\ position' = position + n /\ position' \in 0 .. MaxPosition /\ n \in Nat \ {0}
        /\ position \in Nat
    BY ReaderTypes DEF Read, Passes, IInv
  <1>2. /\ step = "read" /\ Len(dataOut) < NumElems /\ overflowBuffer = << >>
        /\ discontinuityAfterBlock = FALSE
    BY ReaderTypes DEF Read, IInv, ReaderIsAtPosition
  <1>3. /\ Run(dataOut) /\ dataOut \in Seq(Positions)
        /\ dataOut # << >> => End(dataOut) = position
    BY <1>2, ReaderTypes DEF IInv, ReaderIsAtPosition
  <1>4. /\ Samples(n) \in Seq(Positions) /\ Len(Samples(n)) = n /\ Run(Samples(n))
        /\ Samples(n) # << >> /\ Samples(n)[1] = position /\ End(Samples(n)) = position'
    BY <1>1, SamplesRun DEF Read, Passes
  <1>5. /\ got \in Seq(Positions) /\ Len(got) = Len(dataOut) + n /\ Run(got)
        /\ dataOut # << >> => got[1] = dataOut[1]
        /\ dataOut = << >> => got[1] = position
        /\ End(got) = position'
    BY <1>3, <1>4, ConcatRuns, PositionsAreNumbers
  <1>6. /\ dataOut' = taken /\ overflowBuffer' = left /\ step' = "read"
        /\ discontinuityAfterBlock' = FALSE /\ pendingDiscontinuity' = pendingDiscontinuity
        /\ nextSequence' = nextSequence
        /\ UNCHANGED <<numChannels, iqDataOut, post, inputs, pre>>
    <2>1. left \in Seq(Positions)
      BY <1>5, DropRuns, PositionsAreNumbers, ReaderTypes DEF IInv
    <2>2. << >> \o left = left
      BY <2>1, ConcatEmptySeq
    <2>3. QED
      BY <1>2, <2>2 DEF Read
  <1> HIDE DEF got
  <1>7. /\ taken \in Seq(Positions) /\ Run(taken)
        /\ Len(taken) = IF NumElems < Len(got) THEN NumElems ELSE Len(got)
        /\ \A i \in 1 .. Len(taken) : taken[i] = got[i]
    BY <1>5, TakeRuns, PositionsAreNumbers, ReaderTypes DEF IInv
  <1>8. /\ left \in Seq(Positions) /\ Run(left)
        /\ Len(left) = IF NumElems < Len(got) THEN Len(got) - NumElems ELSE 0
        /\ left # << >> => left[1] = got[1] + NumElems /\ End(left) = End(got)
    BY <1>5, DropRuns, PositionsAreNumbers, ReaderTypes DEF IInv
  <1> HIDE DEF taken, left
  <1>9. /\ Len(got) \in Nat \ {0} /\ got # << >> /\ got[1] \in Positions
        /\ End(got) = got[1] + Len(got)
    <2>1. Len(got) \in Nat \ {0} /\ got # << >>
      BY <1>1, <1>5, EmptySeq, ReaderTypes DEF IInv
    <2>2. QED
      BY <1>5, <2>1, RunEnds, PositionsAreNumbers
  <1>10. /\ Len(taken) \in Nat \ {0} /\ taken # << >> /\ taken[1] = got[1]
         /\ End(taken) = got[1] + Len(taken)
    <2>1. Len(taken) \in Nat \ {0} /\ taken # << >>
      BY <1>7, <1>9, EmptySeq, ReaderTypes DEF IInv
    <2>2. End(taken) = taken[1] + Len(taken)
      BY <1>7, <2>1, RunEnds, PositionsAreNumbers
    <2>3. QED
      BY <1>7, <2>1, <2>2
  <1>11. left = << >> <=> Len(left) = 0
    BY <1>8, EmptySeq
  <1>12. Len(taken) <= NumElems /\ Len(left) < Mtu
    <2>1. /\ NumElems \in Nat \ {0} /\ Mtu \in Nat \ {0} /\ Len(dataOut) \in Nat
          /\ n <= Mtu
      BY ReaderTypes DEF IInv
    <2>2. QED
      BY <1>1, <1>2, <1>5, <1>7, <1>8, <2>1
  <1>13. TypeOK'
    <2>1. iqDataOut \in Seq(InputBlocks) /\ Len(iqDataOut) <= QueueMax /\ TypeOK
          /\ numChannels \in ChannelCounts
      BY DEF IInv, TypeOK
    <2>2. QED
      BY <1>1, <1>6, <1>7, <1>8, <1>12, <2>1, ReaderKeepsTypes, ReaderTypes
  <1>14. ReaderIsAtPosition'
    <2>1. got[1] \in Nat /\ position' \in Nat
      BY <1>1, <1>9, StreamAssumption DEF Positions
    <2>2. left # << >> => Len(taken) = NumElems /\ left[1] = End(taken) /\ End(left) = position'
      BY <1>5, <1>7, <1>8, <1>9, <1>10, <1>11, <2>1, ReaderTypes DEF IInv
    <2>3. left = << >> => End(taken) = position'
      BY <1>5, <1>7, <1>8, <1>9, <1>10, <1>11, <2>1, ReaderTypes DEF IInv
    <2>4. End(taken) <= position'
      BY <1>5, <1>7, <1>9, <1>10, <2>1, ReaderTypes DEF IInv
    <2>5. QED
      BY <1>6, <1>7, <1>8, <2>2, <2>3, <2>4 DEF ReaderIsAtPosition
  <1>15. UpcomingStart' = UpcomingStart
    BY <1>2, <1>5, <1>6, <1>10 DEF UpcomingStart, Upcoming
  <1>16. ASSUME NEW end \in Int, NEW c \in Nat, UpcomingFollows(end, c)
         PROVE  UpcomingFollows(end, c)'
    BY <1>2, <1>6, <1>15, <1>16 DEF UpcomingFollows, Told
  <1>17. QED
    BY <1>1, <1>6, <1>13, <1>14, <1>16, QuietReaderStep, ReaderTypes DEF IInv

\* The steps that move no sample.
LEMMA OtherQuietReaderSteps ==
    ASSUME IInv, NEW lost \in 1 .. MaxLoss,
           ReadNothing \/ ReadFails(lost) \/ BlockRead \/ PushNothing \/ PushDrops
    PROVE  IInv'
  <1>1. /\ position' \in 0 .. MaxPosition /\ position' >= position
        /\ position' # position => ReadFails(lost)
    BY ReaderTypes
       DEF IInv, ReadNothing, ReadFails, BlockRead, PushNothing, PushDrops, Passes, device
  <1>2. /\ UNCHANGED <<numChannels, dataOut, overflowBuffer, iqDataOut, post, inputs, pre>>
        /\ step' \in {"settings", "push"}
        /\ discontinuityAfterBlock' \in BOOLEAN /\ pendingDiscontinuity' \in BOOLEAN
        /\ nextSequence' \in Nat /\ nextSequence' >= nextSequence
    <2>1. /\ UNCHANGED <<numChannels, dataOut, overflowBuffer, iqDataOut, post, inputs, pre>>
          /\ step' \in {"settings", "push"}
          /\ discontinuityAfterBlock' \in {discontinuityAfterBlock, TRUE}
      BY DEF ReadNothing, ReadFails, BlockRead, PushNothing, PushDrops, device
    <2>2. pendingDiscontinuity' \in BOOLEAN
      BY ReaderTypes DEF IInv, ReadNothing, ReadFails, BlockRead, PushNothing, PushDrops, device
    <2>3. nextSequence' = nextSequence \/ nextSequence' = nextSequence + 1
      BY DEF ReadNothing, ReadFails, BlockRead, PushNothing, PushDrops, device
    <2>4. nextSequence' \in Nat /\ nextSequence' >= nextSequence
      BY <2>3, ReaderTypes DEF IInv
    <2>5. QED
      BY <2>1, <2>2, <2>4, ReaderTypes DEF IInv
  <1>3. TypeOK'
    <2>1. /\ iqDataOut \in Seq(InputBlocks) /\ Len(iqDataOut) <= QueueMax /\ TypeOK
          /\ numChannels \in ChannelCounts
      BY DEF IInv, TypeOK
    <2>2. QED
      BY <1>1, <1>2, <2>1, ReaderKeepsTypes, ReaderTypes
  <1>4. ReaderIsAtPosition'
    <2>1. CASE ReadNothing \/ BlockRead
      BY <1>2, <2>1 DEF IInv, ReaderIsAtPosition, ReadNothing, BlockRead, device
    <2>2. CASE ReadFails(lost)
      <3>1. overflowBuffer = << >>
        BY <2>2, ReaderTypes DEF IInv, ReaderIsAtPosition, ReadFails
      <3>2. dataOut # << >> => End(dataOut) <= position'
        <4>1. dataOut # << >> => End(dataOut) = position
          BY <2>2, <3>1 DEF IInv, ReaderIsAtPosition, ReadFails
        <4>2. QED
          BY <1>1, <4>1
      <3>3. QED
        BY <1>2, <2>2, <3>1, <3>2 DEF IInv, ReaderIsAtPosition, ReadFails
    <2>3. CASE PushNothing \/ PushDrops
      BY <1>2, <2>3 DEF IInv, ReaderIsAtPosition, PushNothing, PushDrops, device
    <2>4. QED
      BY <2>1, <2>2, <2>3
  <1>5. ASSUME NEW end \in Int, NEW c \in Nat, end <= position, UpcomingFollows(end, c)
        PROVE  UpcomingFollows(end, c)'
    <2>1. CASE ReadNothing \/ BlockRead
      BY <1>2, <1>5, <2>1
         DEF UpcomingFollows, UpcomingStart, Upcoming, Told, ReadNothing, BlockRead, device
    <2>2. CASE ReadFails(lost)
      <3>1. dataOut = << >> => end <= position'
        BY <1>1, <1>5, ReaderTypes DEF IInv
      <3>2. QED
        BY <1>2, <1>5, <2>2, <3>1
           DEF UpcomingFollows, UpcomingStart, Upcoming, Told, ReadFails
    <2>3. CASE PushNothing
      <3>1. overflowBuffer = << >> /\ dataOut = << >>
        BY <2>3, ReaderTypes DEF IInv, ReaderIsAtPosition, PushNothing
      <3>2. QED
        BY <1>2, <1>5, <2>3, <3>1
           DEF UpcomingFollows, UpcomingStart, Upcoming, Told, PushNothing, device
    <2>4. CASE PushDrops
      <3>1. end <= UpcomingStart'
        <4>1. end <= dataOut[1] /\ position' = position /\ UpcomingStart' = IF overflowBuffer = << >> THEN position ELSE overflowBuffer[1]
          BY <1>2, <1>5, <2>4 DEF UpcomingFollows, UpcomingStart, Upcoming, PushDrops, device
        <4>2. overflowBuffer # << >> => end <= overflowBuffer[1]
          <5>1. SUFFICES ASSUME overflowBuffer # << >> PROVE end <= overflowBuffer[1]
            OBVIOUS
          <5>2. overflowBuffer[1] = End(dataOut)
            BY <2>4, <5>1 DEF IInv, ReaderIsAtPosition, PushDrops
          <5>3. /\ dataOut \in SampleSeqs /\ Run(dataOut)
            BY <2>4, ReaderTypes DEF IInv, ReaderIsAtPosition, PushDrops, SampleSeqs
          <5>4. QED
            BY <4>1, <5>2, <5>3, BlockRunEnds
        <4>3. QED
          BY <1>5, <4>1, <4>2
      <3>2. QED
        BY <2>4, <3>1 DEF UpcomingFollows, Told, PushDrops
    <2>5. QED
      BY <2>1, <2>2, <2>3, <2>4
  <1>6. QED
    BY <1>1, <1>2, <1>3, <1>4, <1>5, QuietReaderStep

\* A block that is pushed says what it follows, and is followed by what is read next.
LEMMA PushKeeps == IInv /\ Push => IInv'
  <1> SUFFICES ASSUME IInv, Push PROVE IInv'
    OBVIOUS
  <1>1. /\ step = "push" /\ dataOut \in SampleSeqs /\ Run(dataOut) /\ Len(iqDataOut) < QueueMax
        /\ iqDataOut' = Append(iqDataOut, Block)
        /\ pendingDiscontinuity' = discontinuityAfterBlock
        /\ nextSequence' = nextSequence + 1 /\ step' = "settings"
        /\ UNCHANGED <<position, numChannels, dataOut, overflowBuffer, discontinuityAfterBlock,
                       post, inputs, pre>>
    BY ReaderTypes DEF IInv, ReaderIsAtPosition, Push, device, SampleSeqs
  <1>2. /\ Block \in InputBlocks /\ Block.data = dataOut /\ Block.numChannels = numChannels
        /\ Block.discontinuity = pendingDiscontinuity /\ Block.sequence = nextSequence
    BY <1>1, ReaderTypes DEF IInv, TypeOK, Block, InputBlocks
  <1>3. /\ iqDataOut \in Seq(InputBlocks) /\ Len(iqDataOut) \in Nat
        /\ iqDataOut' \in Seq(InputBlocks) /\ Len(iqDataOut') = Len(iqDataOut) + 1
        /\ \A i \in 1 .. Len(iqDataOut) : iqDataOut'[i] = iqDataOut[i]
        /\ iqDataOut'[Len(iqDataOut) + 1] = Block
        /\ iqDataOut' # << >>
    <2>1. iqDataOut \in Seq(InputBlocks) /\ Len(iqDataOut) \in Nat
      BY LenProperties DEF IInv, TypeOK
    <2>2. QED
      BY <1>1, <1>2, <2>1, AppendProperties, EmptySeq
  <1>4. TypeOK'
    <2>1. TypeOK /\ numChannels \in ChannelCounts /\ QueueMax \in Nat
      BY StreamAssumption DEF IInv, TypeOK
    <2>2. Len(iqDataOut') <= QueueMax
      BY <1>1, <1>3, <2>1
    <2>3. position' \in 0 .. MaxPosition /\ nextSequence' \in Nat
      BY <1>1, <2>1, ReaderTypes
    <2>4. QED
      BY <1>1, <1>3, <2>1, <2>2, <2>3, ReaderKeepsTypes, ReaderTypes
  <1>5. ReaderIsAtPosition'
    BY <1>1 DEF IInv, ReaderIsAtPosition
  <1>6. /\ dataOut[1] \in Nat /\ End(dataOut) \in Nat /\ End(dataOut) <= position
        /\ position \in Nat /\ nextSequence \in Nat
    BY <1>1, BlockRunEnds, ReaderTypes DEF IInv, ReaderIsAtPosition, SampleSeqs
  <1>7. ASSUME NEW end \in Int, NEW c \in Nat, UpcomingFollows(end, c)
        PROVE  BlockFollows(Block, end, c)
    BY <1>1, <1>2, <1>7
       DEF UpcomingFollows, UpcomingStart, Upcoming, Told, BlockFollows, SampleSeqs
  <1>8. UpcomingFollows(End(dataOut), numChannels)'
    <2>1. UpcomingStart' = IF overflowBuffer = << >> THEN position ELSE overflowBuffer[1]
      BY <1>1 DEF UpcomingStart, Upcoming
    <2>2. UpcomingStart' >= End(dataOut)
      BY <1>1, <1>6, <2>1 DEF IInv, ReaderIsAtPosition
    <2>3. ~Told' => UpcomingStart' = End(dataOut)
      BY <1>1, <2>1 DEF IInv, ReaderIsAtPosition, Told, SampleSeqs
    <2>4. QED
      BY <1>1, <1>6, <2>2, <2>3 DEF UpcomingFollows, End
  <1>9. QueueFollows'
    <2>1. ASSUME NEW i \in 1 .. Len(iqDataOut')
          PROVE  /\ Run(iqDataOut'[i].data) /\ End(iqDataOut'[i].data) <= position'
                 /\ iqDataOut'[i].sequence < nextSequence'
      <3>1. CASE i = Len(iqDataOut) + 1
        BY <1>1, <1>2, <1>3, <1>6, <3>1
      <3>2. CASE i \in 1 .. Len(iqDataOut)
        <4>1. /\ Run(iqDataOut[i].data) /\ End(iqDataOut[i].data) <= position
              /\ iqDataOut[i].sequence < nextSequence
          BY <3>2 DEF IInv, QueueFollows
        <4>2. iqDataOut[i] \in InputBlocks
          BY <1>3, <3>2, ElementOfSeq
        <4>3. iqDataOut[i].sequence \in Nat
          BY <4>2 DEF InputBlocks
        <4>4. QED
          BY <1>1, <1>3, <1>6, <3>2, <4>1, <4>3
      <3>3. QED
        BY <1>3, <3>1, <3>2
    <2>2. ASSUME NEW i \in 1 .. Len(iqDataOut') - 1
          PROVE  /\ iqDataOut'[i].sequence < iqDataOut'[i + 1].sequence
                 /\ BlockFollows(iqDataOut'[i + 1], End(iqDataOut'[i].data),
                                 iqDataOut'[i].numChannels)
      <3>1. CASE i = Len(iqDataOut)
        <4>1. iqDataOut # << >> /\ i \in 1 .. Len(iqDataOut)
          BY <1>3, <3>1, EmptySeq
        <4>2. /\ iqDataOut[i].sequence < nextSequence /\ Run(iqDataOut[i].data)
              /\ UpcomingFollows(End(iqDataOut[i].data), iqDataOut[i].numChannels)
          BY <3>1, <4>1 DEF IInv, QueueFollows
        <4>3. iqDataOut[i] \in InputBlocks
          BY <1>3, <4>1, ElementOfSeq
        <4>4. iqDataOut[i].data \in SampleSeqs /\ iqDataOut[i].numChannels \in Nat
          BY <4>3, StreamAssumption DEF InputBlocks
        <4>5. End(iqDataOut[i].data) \in Int
          BY <4>2, <4>4, BlockRunEnds
        <4>6. BlockFollows(Block, End(iqDataOut[i].data), iqDataOut[i].numChannels)
          BY <1>7, <4>2, <4>4, <4>5
        <4>7. iqDataOut'[i] = iqDataOut[i] /\ iqDataOut'[i + 1] = Block
          BY <1>3, <3>1, <4>1
        <4>8. QED
          BY <1>2, <4>2, <4>6, <4>7
      <3>2. CASE i \in 1 .. Len(iqDataOut) - 1
        <4>1. iqDataOut'[i] = iqDataOut[i] /\ iqDataOut'[i + 1] = iqDataOut[i + 1]
          BY <1>3, <3>2
        <4>2. QED
          BY <3>2, <4>1 DEF IInv, QueueFollows
      <3>3. QED
        BY <1>3, <3>1, <3>2
    <2>3. UpcomingFollows(End(iqDataOut[Len(iqDataOut)].data),
                          iqDataOut[Len(iqDataOut)].numChannels)'
      <3>1. /\ iqDataOut'[Len(iqDataOut')].data = dataOut'
            /\ iqDataOut'[Len(iqDataOut')].numChannels = numChannels'
        BY <1>1, <1>2, <1>3
      <3>2. QED
        BY <1>8, <3>1 DEF UpcomingFollows, End
    <2>4. QED
      BY <2>1, <2>2, <2>3 DEF QueueFollows, BlockFollows, End
  <1>10. PICK end \in Nat, channels \in Nat \ {0} : PostFollows(end, channels)
    BY DEF IInv
  <1>11. PostFollows(end, channels)'
    <2>1. HeadFollows(end, channels)'
      <3>1. CASE iqDataOut = << >>
        <4>1. UpcomingFollows(end, channels) /\ lastInputSequence < nextSequence
          BY <1>10, <3>1 DEF PostFollows, HeadFollows
        <4>2. iqDataOut'[1] = Block
          BY <1>3, <3>1, EmptySeq
        <4>3. BlockFollows(Block, end, channels)
          BY <1>7, <4>1
        <4>4. QED
          BY <1>1, <1>2, <1>3, <4>1, <4>2, <4>3 DEF HeadFollows, BlockFollows, post
      <3>2. CASE iqDataOut # << >>
        <4>1. iqDataOut'[1] = iqDataOut[1]
          BY <1>3, <3>2, EmptySeq
        <4>2. QED
          BY <1>1, <1>3, <1>10, <3>2, <4>1 DEF PostFollows, HeadFollows, BlockFollows, post
      <3>3. QED
        BY <3>1, <3>2
    <2>2. lastInputSequence < nextSequence'
      BY <1>1, <1>6, <1>10 DEF PostFollows, IInv, TypeOK, Seqs, NoSequence
    <2>3. QED
      BY <1>1, <1>10, <2>1, <2>2
         DEF PostFollows, KeptFollows, DemodFollows, NextSample, SequenceAt, EndAt, Newest, post
  <1>12. Run(channelizerInput)' /\ \A d \in Demods : InputsFollow(d)'
    BY <1>1 DEF IInv, post, InputsFollow, SequenceAt, EndAt
  <1>13. QED
    BY <1>4, <1>5, <1>9, <1>11, <1>12 DEF IInv

\* A restart empties the queue, and the next block says so.
LEMMA RestartKeeps ==
    ASSUME IInv, NEW rate \in ChannelCounts, NEW lost \in 1 .. MaxLoss, Restart(rate, lost)
    PROVE  IInv'
  <1>1. position' = position + lost /\ position' \in 0 .. MaxPosition /\ lost \in Nat
    BY StreamAssumption, ReaderTypes DEF Restart, Passes, IInv
  <1>2. /\ dataOut' \in Seq(Positions) /\ Len(dataOut') <= NumElems
        /\ overflowBuffer' \in Seq(Positions) /\ Len(overflowBuffer') < Mtu
        /\ UpcomingStart' = position'
        /\ ReaderIsAtPosition'
    <2>1. /\ << >> \in Seq(Positions) /\ Run(<< >>) /\ Len(<< >>) < Mtu
          /\ StartRead(<< >>)
      BY EmptyRuns, ReaderTypes DEF Restart, IInv
    <2>2. QED
      BY <2>1, StartReadStarts
  <1>3. /\ step' = "read" /\ discontinuityAfterBlock' = FALSE /\ pendingDiscontinuity' = TRUE
        /\ numChannels' = rate /\ iqDataOut' = << >>
        /\ UNCHANGED <<nextSequence, post, inputs, pre>>
    BY DEF Restart, StartRead
  <1>4. TypeOK'
    <2>1. << >> \in Seq(InputBlocks) /\ Len(<< >>) <= QueueMax /\ TypeOK
      BY EmptySeq, StreamAssumption DEF IInv
    <2>2. QED
      BY <1>1, <1>2, <1>3, <2>1, ReaderKeepsTypes, ReaderTypes
  <1>5. QueueFollows'
    BY <1>3, EmptySeq DEF QueueFollows
  <1>6. PICK end \in Nat, channels \in Nat \ {0} : PostFollows(end, channels)
    BY DEF IInv
  <1>7. PostFollows(end, channels)'
    <2>1. end <= position'
      BY <1>1, <1>6, ReaderTypes DEF PostFollows, IInv
    <2>2. HeadFollows(end, channels)'
      BY <1>2, <1>3, <2>1 DEF HeadFollows, UpcomingFollows, Told
    <2>3. QED
      BY <1>3, <1>6, <2>1, <2>2
         DEF PostFollows, KeptFollows, DemodFollows, NextSample, SequenceAt, EndAt, Newest, post
  <1>8. Run(channelizerInput)' /\ \A d \in Demods : InputsFollow(d)'
    BY <1>3 DEF IInv, post, InputsFollow, SequenceAt, EndAt
  <1>9. QED
    BY <1>2, <1>4, <1>5, <1>7, <1>8 DEF IInv

LEMMA ReaderKeepsInvariant == IInv /\ Reader => IInv'
  <1> SUFFICES ASSUME IInv, Reader PROVE IInv'
    OBVIOUS
  <1>1. 1 \in 1 .. MaxLoss
    BY StreamAssumption
  <1>2. QED
    BY <1>1, ReadStreamKeeps, ChangeRateKeeps, RestartKeeps, ReadKeeps, OtherQuietReaderSteps, PushKeeps
       DEF Reader

-----------------------------------------------------------------------------
(* The input queues of the demodulators.                                   *)

LEMMA InputTypes ==
    ASSUME TypeOK, NEW d \in Demods
    PROVE  /\ inputs[d] \in Seq(Blocks) /\ Newest(d) \in Nat /\ Newest(d) = Len(inputs[d])
           /\ pre[d].sequence \in Seqs /\ pre[d].next \in Nat
           /\ inputs[d] # << >> <=> Newest(d) # 0
  BY LenProperties, EmptySeq DEF TypeOK, Newest

LEMMA BlockTypes ==
    ASSUME NEW block \in Blocks
    PROVE  block.data \in SampleSeqs /\ block.sequence \in Nat /\ block.discontinuity \in BOOLEAN
  BY DEF Blocks

\* The numbers that InputsFollow compares.
LEMMA EntryTypes ==
    ASSUME TypeOK, NEW d \in Demods, InputsFollow(d), NEW i \in 0 .. Newest(d)
    PROVE  /\ SequenceAt(d, i) \in Seqs /\ EndAt(d, i) \in Nat
           /\ i # 0 => /\ inputs[d][i] \in Blocks /\ SequenceAt(d, i) \in Nat
                       /\ inputs[d][i].data \in SampleSeqs /\ Run(inputs[d][i].data)
                       /\ inputs[d][i].data[1] \in Nat
                       /\ inputs[d][i].data[1] < EndAt(d, i)
  <1>1. CASE i = 0
    BY <1>1, InputTypes DEF SequenceAt, EndAt
  <1>2. CASE i # 0
    <2>1. i \in 1 .. Len(inputs[d]) /\ inputs[d] \in Seq(Blocks)
      BY <1>2, InputTypes
    <2>2. inputs[d][i] \in Blocks /\ Run(inputs[d][i].data)
      BY <2>1, ElementOfSeq DEF InputsFollow
    <2>3. inputs[d][i].data \in SampleSeqs /\ inputs[d][i].sequence \in Nat
      BY <2>2, BlockTypes
    <2>4. /\ End(inputs[d][i].data) \in Nat /\ inputs[d][i].data[1] \in Nat
          /\ inputs[d][i].data[1] < End(inputs[d][i].data)
      BY <2>2, <2>3, BlockRunEnds
    <2>5. QED
      BY <1>2, <2>2, <2>3, <2>4 DEF SequenceAt, EndAt, Seqs
  <1>3. QED
    BY <1>1, <1>2

\* Nothing in the queue is newer than its last block.
LEMMA NewestIsLast ==
    ASSUME TypeOK, NEW d \in Demods, InputsFollow(d), NEW i \in 0 .. Newest(d)
    PROVE  /\ SequenceAt(d, i) <= SequenceAt(d, Newest(d))
           /\ EndAt(d, i) <= EndAt(d, Newest(d))
  <1>1. Newest(d) \in 0 .. Newest(d) /\ Newest(d) = Len(inputs[d])
    BY InputTypes
  <1>2. CASE i = Newest(d)
    BY <1>1, <1>2, EntryTypes DEF Seqs, NoSequence
  <1>3. CASE i # Newest(d)
    <2>1. Newest(d) \in i + 1 .. Len(inputs[d]) /\ Newest(d) # 0 /\ i \in 0 .. Len(inputs[d])
      BY <1>1, <1>3
    <2>2. /\ SequenceAt(d, i) < inputs[d][Newest(d)].sequence
          /\ EndAt(d, i) <= inputs[d][Newest(d)].data[1]
      BY <2>1 DEF InputsFollow
    <2>3. SequenceAt(d, Newest(d)) = inputs[d][Newest(d)].sequence
      BY <2>1 DEF SequenceAt
    <2>4. /\ inputs[d][Newest(d)].data[1] < EndAt(d, Newest(d)) /\ EndAt(d, Newest(d)) \in Nat
          /\ inputs[d][Newest(d)].data[1] \in Nat /\ SequenceAt(d, Newest(d)) \in Nat
      BY <1>1, <2>1, EntryTypes
    <2>5. EndAt(d, i) \in Nat /\ SequenceAt(d, i) \in Int
      BY EntryTypes DEF Seqs, NoSequence
    <2>6. QED
      BY <2>2, <2>3, <2>4, <2>5
  <1>4. QED
    BY <1>2, <1>3

\* A newer block at the end of the queue, that starts where the last one ended or says so.
LEMMA AppendInput ==
    ASSUME TypeOK, NEW d \in Demods, InputsFollow(d),
           NEW entry \in Blocks, Run(entry.data),
           SequenceAt(d, Newest(d)) < entry.sequence,
           EndAt(d, Newest(d)) <= entry.data[1],
           SequenceAt(d, Newest(d)) # NoSequence /\ ~Gap(entry, SequenceAt(d, Newest(d)))
               => entry.data[1] = EndAt(d, Newest(d)),
           inputs'[d] = Append(inputs[d], entry), pre'[d] = pre[d]
    PROVE  /\ InputsFollow(d)'
           /\ SequenceAt(d, Newest(d))' = entry.sequence
           /\ EndAt(d, Newest(d))' = End(entry.data)
           /\ inputs'[d] \in Seq(Blocks) /\ Len(inputs'[d]) = Len(inputs[d]) + 1
  <1> DEFINE n == Newest(d)
  <1>1. /\ n \in Nat /\ n = Len(inputs[d]) /\ inputs[d] \in Seq(Blocks)
    BY InputTypes
  <1>2. /\ inputs'[d] \in Seq(Blocks) /\ Len(inputs'[d]) = n + 1
        /\ \A i \in 1 .. n : inputs'[d][i] = inputs[d][i]
        /\ inputs'[d][n + 1] = entry
    BY <1>1, AppendProperties
  <1> HIDE DEF n
  <1>3. \A i \in 0 .. n : SequenceAt(d, i)' = SequenceAt(d, i) /\ EndAt(d, i)' = EndAt(d, i)
    BY <1>1, <1>2 DEF SequenceAt, EndAt
  <1>4. entry.data[1] \in Nat /\ entry.sequence \in Nat
    BY BlockTypes, BlockRunEnds
  <1>5. \A i \in 1 .. Len(inputs'[d]) : Run(inputs'[d][i].data)
    BY <1>1, <1>2 DEF InputsFollow
  <1>6. ASSUME NEW i \in 0 .. n
        PROVE  /\ SequenceAt(d, i) < entry.sequence /\ EndAt(d, i) <= entry.data[1]
    <2>1. /\ SequenceAt(d, i) <= SequenceAt(d, n) /\ EndAt(d, i) <= EndAt(d, n)
      BY NewestIsLast DEF n
    <2>2. /\ SequenceAt(d, i) \in Int /\ EndAt(d, i) \in Int
          /\ SequenceAt(d, n) \in Int /\ EndAt(d, n) \in Int
      BY <1>1, EntryTypes DEF n, Seqs, NoSequence
    <2>3. SequenceAt(d, n) < entry.sequence /\ EndAt(d, n) <= entry.data[1]
      BY DEF n
    <2>4. QED
      BY <1>4, <2>1, <2>2, <2>3
  <1>7. ASSUME NEW i \in 0 .. Len(inputs'[d]), NEW j \in i + 1 .. Len(inputs'[d])
        PROVE  /\ SequenceAt(d, i)' < inputs'[d][j].sequence
               /\ EndAt(d, i)' <= inputs'[d][j].data[1]
    <2>1. i \in 0 .. n /\ (j = n + 1 \/ j \in i + 1 .. n)
      BY <1>1, <1>2
    <2>2. CASE j = n + 1
      BY <1>2, <1>3, <1>6, <2>1, <2>2
    <2>3. CASE j \in i + 1 .. n
      <3>1. j \in 1 .. n /\ i \in 0 .. Len(inputs[d]) /\ j \in i + 1 .. Len(inputs[d])
        BY <1>1, <2>1, <2>3
      <3>2. SequenceAt(d, i) < inputs[d][j].sequence /\ EndAt(d, i) <= inputs[d][j].data[1]
        BY <3>1 DEF InputsFollow
      <3>3. QED
        BY <1>2, <1>3, <2>1, <3>1, <3>2
    <2>4. QED
      BY <2>1, <2>2, <2>3
  <1>8. ASSUME NEW i \in 0 .. Len(inputs'[d]) - 1, SequenceAt(d, i)' # NoSequence,
               ~Gap(inputs'[d][i + 1], SequenceAt(d, i)')
        PROVE  inputs'[d][i + 1].data[1] = EndAt(d, i)'
    <2>1. i \in 0 .. n
      BY <1>1, <1>2
    <2>2. CASE i = n
      BY <1>2, <1>3, <1>8, <2>1, <2>2 DEF n
    <2>3. CASE i # n
      <3>1. i \in 0 .. Len(inputs[d]) - 1 /\ i + 1 \in 1 .. n
        BY <1>1, <2>1, <2>3
      <3>2. inputs'[d][i + 1] = inputs[d][i + 1]
        BY <1>2, <3>1
      <3>3. SequenceAt(d, i) # NoSequence /\ ~Gap(inputs[d][i + 1], SequenceAt(d, i))
        BY <1>3, <1>8, <2>1, <3>2
      <3>4. QED
        BY <1>3, <2>1, <3>1, <3>2, <3>3 DEF InputsFollow
    <2>4. QED
      BY <2>2, <2>3
  <1>9. InputsFollow(d)'
    BY <1>5, <1>7, <1>8 DEF InputsFollow, Gap
  <1>10. /\ SequenceAt(d, Newest(d))' = entry.sequence
         /\ EndAt(d, Newest(d))' = End(entry.data)
    BY <1>1, <1>2 DEF SequenceAt, EndAt, Newest, End
  <1>11. QED
    BY <1>1, <1>2, <1>9, <1>10

\* A queue that a step leaves alone.
LEMMA KeepInput ==
    ASSUME NEW d \in Demods, inputs'[d] = inputs[d], pre'[d] = pre[d]
    PROVE  /\ InputsFollow(d)' <=> InputsFollow(d)
           /\ SequenceAt(d, Newest(d))' = SequenceAt(d, Newest(d))
           /\ EndAt(d, Newest(d))' = EndAt(d, Newest(d))
  BY DEF InputsFollow, SequenceAt, EndAt, Newest, End

-----------------------------------------------------------------------------
(* Steps of SDRPostThread.                                                 *)

LEMMA WholeGroups ==
    ASSUME NEW size \in Nat, NEW group \in Nat \ {0}
    PROVE  /\ (size \div group) * group \in Nat
           /\ (size \div group) * group <= size
           /\ size < (size \div group) * group + group
  BY SMT

LEMMA GroupSize ==
    ASSUME NEW channels \in Nat, channels > 1, NEW mode \in {1, 2}
    PROVE  channels \div mode \in Nat \ {0} /\ channels \div mode <= channels
  BY SMT

LEMMA PostTypes ==
    ASSUME TypeOK
    PROVE  /\ lastInputSequence \in Seqs /\ lastInputSequence \in Int
           /\ channelizerInput \in Seq(Positions)
           /\ iqDataOut \in Seq(InputBlocks) /\ Len(iqDataOut) \in Nat
           /\ position \in Nat /\ nextSequence \in Nat
  BY StreamAssumption, LenProperties DEF TypeOK, Seqs, NoSequence

\* The next sample is not after the end of the last block.
LEMMA NextSampleTypes ==
    ASSUME TypeOK, Run(channelizerInput), NEW end \in Nat, NEW channels \in Nat \ {0},
           KeptFollows(end, channels)
    PROVE  NextSample(end, channels) \in Nat /\ NextSample(end, channels) <= end
  <1>1. CASE channels > 1 /\ channelizerInput # << >>
    <2>1. channelizerInput \in SampleSeqs
      BY <1>1, PostTypes DEF SampleSeqs
    <2>2. /\ channelizerInput[1] \in Nat /\ Len(channelizerInput) \in Nat
          /\ End(channelizerInput) = channelizerInput[1] + Len(channelizerInput)
      BY <2>1, BlockRunEnds
    <2>3. End(channelizerInput) = end
      BY <1>1 DEF KeptFollows
    <2>4. QED
      BY <1>1, <2>2, <2>3 DEF NextSample
  <1>2. CASE ~(channels > 1 /\ channelizerInput # << >>)
    BY <1>2 DEF NextSample
  <1>3. QED
    BY <1>1, <1>2

\* The block that SDRPostThread takes follows the one before it, and is followed by the
\* next one.
LEMMA PopBlockFollows ==
    ASSUME IInv, PopBlock, UNCHANGED <<device, reader>>,
           NEW end \in Nat, NEW channels \in Nat \ {0}, PostFollows(end, channels),
           NEW block, block = Head(iqDataOut)
    PROVE  /\ block \in InputBlocks /\ block.data \in SampleSeqs /\ Run(block.data)
           /\ block.numChannels \in ChannelCounts /\ block.numChannels \in Nat \ {0}
           /\ block.sequence \in Nat /\ block.discontinuity \in BOOLEAN
           /\ End(block.data) \in Nat /\ End(block.data) <= position
           /\ lastInputSequence < block.sequence /\ block.sequence < nextSequence
           /\ lastInputSequence' = block.sequence
           /\ BlockFollows(block, end, channels)
           /\ HeadFollows(End(block.data), block.numChannels)'
           /\ QueueFollows' /\ ReaderIsAtPosition'
           /\ iqDataOut' \in Seq(InputBlocks) /\ Len(iqDataOut') <= Len(iqDataOut)
  <1> DEFINE n == Len(iqDataOut)
  <1>1. /\ iqDataOut \in Seq(InputBlocks) /\ iqDataOut # << >> /\ n \in Nat \ {0}
        /\ block = iqDataOut[1] /\ block \in InputBlocks
        /\ iqDataOut' \in Seq(InputBlocks) /\ Len(iqDataOut') = n - 1
        /\ \A i \in 1 .. n - 1 : iqDataOut'[i] = iqDataOut[i + 1]
    <2>1. iqDataOut \in Seq(InputBlocks) /\ iqDataOut # << >> /\ iqDataOut' = Tail(iqDataOut)
      BY PostTypes DEF PopBlock, IInv
    <2>2. n \in Nat \ {0}
      BY <2>1, EmptySeq, LenProperties
    <2>3. block = iqDataOut[1] /\ block \in InputBlocks
      BY <2>1, <2>2, HeadTailProperties, ElementOfSeq
    <2>4. QED
      BY <2>1, <2>2, <2>3, HeadTailProperties
  <1>2. lastInputSequence' = block.sequence
    BY DEF PopBlock
  <1>3. /\ block.data \in SampleSeqs /\ block.numChannels \in ChannelCounts
        /\ block.sequence \in Nat /\ block.discontinuity \in BOOLEAN
    BY <1>1 DEF InputBlocks
  <1>4. block.numChannels \in Nat \ {0}
    BY <1>3, StreamAssumption
  <1>5. /\ Run(block.data) /\ End(block.data) <= position /\ block.sequence < nextSequence
    BY <1>1 DEF IInv, QueueFollows
  <1>6. End(block.data) \in Nat
    BY <1>3, <1>5, BlockRunEnds
  <1>7. lastInputSequence < block.sequence /\ BlockFollows(block, end, channels)
    BY <1>1 DEF PostFollows, HeadFollows
  <1>8. UNCHANGED <<position, numChannels, step, dataOut, overflowBuffer,
                    discontinuityAfterBlock, pendingDiscontinuity, nextSequence>>
    BY DEF device, reader
  <1>9. ReaderIsAtPosition'
    BY <1>8 DEF IInv, ReaderIsAtPosition
  <1>10. ASSUME NEW e \in Int, NEW c \in Nat
         PROVE  UpcomingFollows(e, c)' <=> UpcomingFollows(e, c)
    BY <1>8 DEF UpcomingFollows, UpcomingStart, Upcoming, Told
  <1>11. iqDataOut' = << >> <=> n = 1
    BY <1>1, EmptySeq
  <1>12. HeadFollows(End(block.data), block.numChannels)'
    <2>1. CASE n = 1
      <3>1. UpcomingFollows(End(block.data), block.numChannels)
        BY <1>1, <2>1 DEF IInv, QueueFollows
      <3>2. UpcomingFollows(End(block.data), block.numChannels)'
        BY <1>4, <1>6, <1>10, <3>1
      <3>3. QED
        BY <1>11, <2>1, <3>2 DEF HeadFollows
    <2>2. CASE n # 1
      <3>1. 1 \in 1 .. n - 1 /\ iqDataOut'[1] = iqDataOut[2] /\ iqDataOut' # << >>
        BY <1>1, <1>11, <2>2
      <3>2. /\ iqDataOut[1].sequence < iqDataOut[1 + 1].sequence
            /\ BlockFollows(iqDataOut[1 + 1], End(iqDataOut[1].data), iqDataOut[1].numChannels)
        BY <3>1 DEF IInv, QueueFollows
      <3>3. QED
        BY <1>1, <1>2, <3>1, <3>2 DEF HeadFollows, BlockFollows
    <2>3. QED
      BY <2>1, <2>2
  <1>13. QueueFollows'
    <2>1. ASSUME NEW i \in 1 .. Len(iqDataOut')
          PROVE  /\ Run(iqDataOut'[i].data) /\ End(iqDataOut'[i].data) <= position'
                 /\ iqDataOut'[i].sequence < nextSequence'
      <3>1. i \in 1 .. n - 1 /\ i + 1 \in 1 .. Len(iqDataOut)
        BY <1>1
      <3>2. iqDataOut'[i] = iqDataOut[i + 1]
        BY <1>1, <3>1
      <3>3. /\ Run(iqDataOut[i + 1].data) /\ End(iqDataOut[i + 1].data) <= position
            /\ iqDataOut[i + 1].sequence < nextSequence
        BY <3>1 DEF IInv, QueueFollows
      <3>4. QED
        BY <1>8, <3>2, <3>3
    <2>2. ASSUME NEW i \in 1 .. Len(iqDataOut') - 1
          PROVE  /\ iqDataOut'[i].sequence < iqDataOut'[i + 1].sequence
                 /\ BlockFollows(iqDataOut'[i + 1], End(iqDataOut'[i].data),
                                 iqDataOut'[i].numChannels)
      <3>1. i \in 1 .. n - 1 /\ i + 1 \in 1 .. n - 1 /\ i + 1 \in 1 .. Len(iqDataOut) - 1
        BY <1>1
      <3>2. iqDataOut'[i] = iqDataOut[i + 1] /\ iqDataOut'[i + 1] = iqDataOut[i + 1 + 1]
        BY <1>1, <3>1
      <3>3. /\ iqDataOut[i + 1].sequence < iqDataOut[i + 1 + 1].sequence
            /\ BlockFollows(iqDataOut[i + 1 + 1], End(iqDataOut[i + 1].data),
                            iqDataOut[i + 1].numChannels)
        BY <3>1 DEF IInv, QueueFollows
      <3>4. QED
        BY <3>2, <3>3
    <2>3. iqDataOut' # << >> =>
            UpcomingFollows(End(iqDataOut[Len(iqDataOut)].data),
                            iqDataOut[Len(iqDataOut)].numChannels)'
      <3>1. SUFFICES ASSUME iqDataOut' # << >>
                     PROVE  UpcomingFollows(End(iqDataOut[Len(iqDataOut)].data),
                                            iqDataOut[Len(iqDataOut)].numChannels)'
        OBVIOUS
      <3>2. iqDataOut'[Len(iqDataOut')] = iqDataOut[Len(iqDataOut)]
        BY <1>1, <1>11, <3>1
      <3>3. UpcomingFollows(End(iqDataOut[Len(iqDataOut)].data),
                            iqDataOut[Len(iqDataOut)].numChannels)
        BY <1>1 DEF IInv, QueueFollows
      <3>4. QED
        BY <1>8, <3>2, <3>3 DEF UpcomingFollows, UpcomingStart, Upcoming, Told, End
    <2>4. QED
      BY <2>1, <2>2, <2>3 DEF QueueFollows, BlockFollows, End
  <1>14. QED
    BY <1>1, <1>2, <1>3, <1>4, <1>5, <1>6, <1>7, <1>9, <1>12, <1>13

\* What the demodulators are given starts at the next sample, or says that it does not.
LEMMA DistributeKeeps ==
    ASSUME TypeOK, Run(channelizerInput), \A d \in Demods : InputsFollow(d),
           NEW end \in Nat, NEW channels \in Nat \ {0}, PostFollows(end, channels),
           NEW served \in SUBSET Demods, NEW data, NEW discontinuity \in BOOLEAN,
           NEW sequence \in Nat,
           Distribute(served, data, discontinuity, sequence), pre' = pre,
           lastInputSequence < sequence, lastInputSequence' = sequence,
           NEW newEnd \in Nat, NEW newChannels \in Nat \ {0},
           NextSample(newEnd, newChannels)' \in Nat,
           NextSample(end, channels) <= NextSample(newEnd, newChannels)',
           served # {} =>
               /\ data \in SampleSeqs /\ Run(data)
               /\ NextSample(end, channels) <= data[1]
               /\ ~discontinuity => data[1] = NextSample(end, channels)
               /\ End(data) = NextSample(newEnd, newChannels)'
    PROVE  /\ inputs' \in [Demods -> Seq(Blocks)]
           /\ \A d \in Demods : /\ Len(inputs'[d]) <= InputMax
                                /\ InputsFollow(d)'
                                /\ DemodFollows(d, newEnd, newChannels)'
  <1> DEFINE entry == [data |-> data, discontinuity |-> discontinuity, sequence |-> sequence]
  <1>1. NextSample(end, channels) \in Nat
    BY NextSampleTypes DEF PostFollows
  <1>2. ASSUME NEW d \in Demods
        PROVE  /\ inputs'[d] \in Seq(Blocks)
               /\ Len(inputs'[d]) <= InputMax
               /\ InputsFollow(d)'
               /\ DemodFollows(d, newEnd, newChannels)'
    <2>1. /\ inputs[d] \in Seq(Blocks) /\ Len(inputs[d]) \in Nat /\ Len(inputs[d]) <= InputMax
          /\ InputMax \in Nat /\ Newest(d) \in 0 .. Newest(d)
      <3>1. inputs[d] \in Seq(Blocks) /\ Newest(d) = Len(inputs[d]) /\ Newest(d) \in Nat
        BY InputTypes
      <3>2. Len(inputs[d]) <= InputMax
        BY DEF TypeOK
      <3>3. QED
        BY <3>1, <3>2, StreamAssumption
    <2>2. /\ SequenceAt(d, Newest(d)) \in Int /\ EndAt(d, Newest(d)) \in Nat
          /\ lastInputSequence \in Int
      BY <2>1, EntryTypes, PostTypes DEF Seqs, NoSequence
    <2>3. DemodFollows(d, end, channels)
      BY DEF PostFollows
    <2>4. CASE d \in served /\ Len(inputs[d]) < InputMax
      <3>1. inputs'[d] = Append(inputs[d], entry) /\ pre'[d] = pre[d]
        BY <2>4 DEF Distribute
      <3>2. /\ entry \in Blocks /\ entry.data = data /\ entry.sequence = sequence
            /\ entry.discontinuity = discontinuity
        BY <2>4 DEF Blocks
      <3>3. /\ data \in SampleSeqs /\ Run(data) /\ data[1] \in Nat
        BY <2>4, BlockRunEnds
      <3>4. SequenceAt(d, Newest(d)) < entry.sequence /\ EndAt(d, Newest(d)) <= entry.data[1]
        BY <1>1, <2>2, <2>3, <2>4, <3>2, <3>3 DEF DemodFollows
      <3>5. ASSUME SequenceAt(d, Newest(d)) # NoSequence, ~Gap(entry, SequenceAt(d, Newest(d)))
            PROVE  entry.data[1] = EndAt(d, Newest(d))
        <4>1. ~discontinuity /\ sequence = SequenceAt(d, Newest(d)) + 1
          BY <3>2, <3>5 DEF Gap
        <4>2. SequenceAt(d, Newest(d)) = lastInputSequence
          BY <2>2, <2>3, <4>1 DEF DemodFollows
        <4>3. EndAt(d, Newest(d)) = NextSample(end, channels)
          BY <2>3, <3>5, <4>2 DEF DemodFollows
        <4>4. QED
          BY <2>4, <3>2, <4>1, <4>3
      <3> HIDE DEF entry
      <3>6. /\ InputsFollow(d)'
            /\ SequenceAt(d, Newest(d))' = sequence
            /\ EndAt(d, Newest(d))' = End(data)
            /\ inputs'[d] \in Seq(Blocks) /\ Len(inputs'[d]) = Len(inputs[d]) + 1
        BY <3>1, <3>2, <3>3, <3>4, <3>5, AppendInput
      <3>7. Len(inputs'[d]) <= InputMax
        BY <2>1, <2>4, <3>6
      <3>8. DemodFollows(d, newEnd, newChannels)'
        BY <2>4, <3>6 DEF DemodFollows
      <3>9. QED
        BY <3>6, <3>7, <3>8
    <2>5. CASE ~(d \in served /\ Len(inputs[d]) < InputMax)
      <3>1. inputs'[d] = inputs[d] /\ pre'[d] = pre[d]
        BY <2>5 DEF Distribute
      <3>2. /\ SequenceAt(d, Newest(d))' = SequenceAt(d, Newest(d))
            /\ EndAt(d, Newest(d))' = EndAt(d, Newest(d))
            /\ InputsFollow(d)'
        BY <3>1, KeepInput
      <3>3. SequenceAt(d, Newest(d)) < lastInputSequence'
        BY <2>2, <2>3 DEF DemodFollows
      <3>4. EndAt(d, Newest(d)) <= NextSample(newEnd, newChannels)'
        BY <1>1, <2>2, <2>3 DEF DemodFollows
      <3>5. DemodFollows(d, newEnd, newChannels)'
        BY <2>2, <3>2, <3>3, <3>4 DEF DemodFollows
      <3>6. QED
        BY <2>1, <3>1, <3>2, <3>5
    <2>6. QED
      BY <2>4, <2>5
  <1>3. inputs' \in [Demods -> Seq(Blocks)]
    BY <1>2 DEF Distribute
  <1>4. QED
    BY <1>2, <1>3

\* Without the channelizer, and whatever it has kept.
LEMMA RunSingleCHKeeps ==
    ASSUME IInv, NEW refresh \in BOOLEAN, NEW served \in SUBSET Demods,
           RunSingleCH(refresh, served)
    PROVE  IInv'
  <1>1. PICK block : block = Head(iqDataOut)
    OBVIOUS
  <1>2. PICK end \in Nat, channels \in Nat \ {0} : PostFollows(end, channels)
    BY DEF IInv
  <1>3. /\ PopBlock /\ UNCHANGED <<device, reader, channelizerInput, pre>>
        /\ block.numChannels = 1
        /\ Distribute(served, block.data, InputGap(block), block.sequence)
    BY <1>1 DEF RunSingleCH
  <1>4. /\ block \in InputBlocks /\ block.data \in SampleSeqs /\ Run(block.data)
        /\ block.numChannels \in ChannelCounts /\ block.numChannels \in Nat \ {0}
        /\ block.sequence \in Nat /\ block.discontinuity \in BOOLEAN
        /\ End(block.data) \in Nat /\ End(block.data) <= position
        /\ lastInputSequence < block.sequence /\ block.sequence < nextSequence
        /\ lastInputSequence' = block.sequence
        /\ BlockFollows(block, end, channels)
        /\ HeadFollows(End(block.data), block.numChannels)'
        /\ QueueFollows' /\ ReaderIsAtPosition'
        /\ iqDataOut' \in Seq(InputBlocks) /\ Len(iqDataOut') <= Len(iqDataOut)
    BY <1>1, <1>2, <1>3, PopBlockFollows
  <1>5. PICK e \in Nat : e = End(block.data)
    BY <1>4
  <1>6. NextSample(e, 1)' = e
    BY DEF NextSample
  <1>7. /\ block.data[1] \in Nat /\ block.data[1] < e
        /\ NextSample(end, channels) \in Nat /\ NextSample(end, channels) <= end
        /\ end <= block.data[1]
    <2>1. block.data[1] \in Nat /\ block.data[1] < e
      BY <1>4, <1>5, BlockRunEnds
    <2>2. NextSample(end, channels) \in Nat /\ NextSample(end, channels) <= end
      BY <1>2, NextSampleTypes DEF PostFollows, IInv
    <2>3. QED
      BY <1>4, <2>1, <2>2 DEF BlockFollows
  <1>8. ASSUME ~InputGap(block) PROVE block.data[1] = NextSample(end, channels)
    BY <1>3, <1>4, <1>8 DEF InputGap, Gap, BlockFollows, NextSample
  <1>9. InputGap(block) \in BOOLEAN
    BY <1>4 DEF InputGap, Gap
  <1>10. /\ inputs' \in [Demods -> Seq(Blocks)]
         /\ \A d \in Demods : /\ Len(inputs'[d]) <= InputMax
                              /\ InputsFollow(d)'
                              /\ DemodFollows(d, e, 1)'
    <2>1. /\ TypeOK /\ Run(channelizerInput) /\ \A d \in Demods : InputsFollow(d)
          /\ pre' = pre /\ NextSample(e, 1)' \in Nat
          /\ NextSample(end, channels) <= NextSample(e, 1)'
      BY <1>3, <1>6, <1>7 DEF IInv
    <2>2. served # {} =>
            /\ block.data \in SampleSeqs /\ Run(block.data)
            /\ NextSample(end, channels) <= block.data[1]
            /\ ~InputGap(block) => block.data[1] = NextSample(end, channels)
            /\ End(block.data) = NextSample(e, 1)'
      BY <1>4, <1>5, <1>6, <1>7, <1>8
    <2>3. QED
      BY <1>2, <1>3, <1>4, <1>9, <2>1, <2>2, DistributeKeeps
  <1>11. TypeOK'
    <2>1. Len(iqDataOut') <= QueueMax /\ lastInputSequence' \in Seqs
      <3>1. /\ Len(iqDataOut) <= QueueMax /\ Len(iqDataOut) \in Nat /\ QueueMax \in Nat
            /\ Len(iqDataOut') \in Nat
        BY <1>4, PostTypes, LenProperties, StreamAssumption DEF IInv, TypeOK
      <3>2. QED
        BY <1>4, <3>1 DEF Seqs
    <2>2. postChannels' \in ChannelCounts \cup {0}
      BY <1>1, <1>4 DEF IInv, TypeOK, RunSingleCH
    <2>3. /\ UNCHANGED <<device, reader, channelizerInput, pre, lastChanMode,
                         pendingChannelizerDiscontinuity>>
          /\ iqDataOut' \in Seq(InputBlocks)
      BY <1>3, <1>4 DEF RunSingleCH
    <2>4. QED
      BY <1>10, <2>1, <2>2, <2>3 DEF IInv, TypeOK, device, reader
  <1>12. PostFollows(e, 1)'
    <2>1. HeadFollows(e, 1)'
      BY <1>3, <1>4, <1>5
    <2>2. KeptFollows(e, 1)'
      BY DEF KeptFollows
    <2>3. e <= position' /\ lastInputSequence' < nextSequence'
      BY <1>3, <1>4, <1>5 DEF device, reader
    <2>4. QED
      BY <1>10, <2>1, <2>2, <2>3 DEF PostFollows
  <1>13. Run(channelizerInput)'
    BY <1>3 DEF IInv, Run
  <1>14. QED
    BY <1>4, <1>10, <1>11, <1>12, <1>13 DEF IInv

\* Through the channelizer: what it keeps is what the next block goes on from.
LEMMA RunPFBCHKeeps ==
    ASSUME IInv, NEW mode \in {1, 2}, NEW refresh \in BOOLEAN, NEW run \in SUBSET Demods,
           NEW served \in SUBSET run, RunPFBCH(mode, refresh, run, served)
    PROVE  IInv'
  <1>1. PICK block : block = Head(iqDataOut)
    OBVIOUS
  <1> DEFINE refreshed == Refreshed(refresh, mode)
             kept == IF refreshed \/ InputGap(block) THEN << >> ELSE channelizerInput
             group == block.numChannels \div mode
             input == kept \o block.data
             size == (Len(input) \div group) * group
             pending == pendingChannelizerDiscontinuity \/ InputGap(block) \/ refreshed
             runs == run # {} /\ size # 0
             to == IF runs THEN served ELSE {}
  <1>2. PICK end \in Nat, channels \in Nat \ {0} : PostFollows(end, channels)
    BY DEF IInv
  <1>3. /\ PopBlock /\ UNCHANGED <<device, reader, pre>>
        /\ block.numChannels > 1
        /\ postChannels' = block.numChannels /\ lastChanMode' = mode
        /\ channelizerInput' = Drop(input, size)
        /\ pendingChannelizerDiscontinuity' = (pending /\ ~runs)
        /\ Distribute(to, Take(input, size), pending, block.sequence)
    BY <1>1 DEF RunPFBCH, RunChannelizer
  <1>4. /\ block \in InputBlocks /\ block.data \in SampleSeqs /\ Run(block.data)
        /\ block.numChannels \in ChannelCounts /\ block.numChannels \in Nat \ {0}
        /\ block.sequence \in Nat /\ block.discontinuity \in BOOLEAN
        /\ End(block.data) \in Nat /\ End(block.data) <= position
        /\ lastInputSequence < block.sequence /\ block.sequence < nextSequence
        /\ lastInputSequence' = block.sequence
        /\ BlockFollows(block, end, channels)
        /\ HeadFollows(End(block.data), block.numChannels)'
        /\ QueueFollows' /\ ReaderIsAtPosition'
        /\ iqDataOut' \in Seq(InputBlocks) /\ Len(iqDataOut') <= Len(iqDataOut)
    BY <1>1, <1>2, <1>3, PopBlockFollows
  <1> HIDE DEF refreshed
  <1>5. PICK e \in Nat, c \in Nat \ {0} : e = End(block.data) /\ c = block.numChannels
    BY <1>4
  <1>6. /\ kept \in Seq(Positions) /\ Run(kept)
        /\ ~InputGap(block) /\ ~refreshed => kept = channelizerInput
        /\ pending \in BOOLEAN /\ (~pending => ~InputGap(block) /\ ~refreshed)
        /\ InputGap(block) \/ refreshed => kept = << >>
    <2>1. << >> \in Seq(Positions) /\ Run(<< >>) /\ channelizerInput \in Seq(Positions)
          /\ Run(channelizerInput)
      BY EmptyRuns, PostTypes DEF IInv
    <2>2. kept \in Seq(Positions) /\ Run(kept)
      BY <2>1
    <2>3. QED
      BY <2>2
  <1> HIDE DEF kept, pending
  <1>7. ASSUME ~InputGap(block)
        PROVE  block.data[1] = end /\ channels = c /\ c > 1
    BY <1>3, <1>4, <1>5, <1>7 DEF InputGap, Gap, BlockFollows
  <1>8. kept # << >> => End(kept) = end /\ block.data[1] = end /\ channels > 1 /\ kept = channelizerInput
    BY <1>2, <1>6, <1>7 DEF PostFollows, KeptFollows
  <1>9. /\ block.data \in Seq(Positions) /\ block.data # << >> /\ Positions \in SUBSET Int
        /\ Len(block.data) \in Nat \ {0} /\ Len(kept) \in Nat
        /\ block.data[1] \in Nat /\ block.data[1] < e /\ end <= block.data[1]
    BY <1>4, <1>5, <1>6, BlockRunEnds, PositionsAreNumbers, LenProperties
       DEF SampleSeqs, BlockFollows
  <1>10. /\ input \in Seq(Positions) /\ Run(input)
         /\ Len(input) = Len(kept) + Len(block.data)
         /\ kept # << >> => input[1] = kept[1]
         /\ kept = << >> => input = block.data
         /\ End(input) = e
    <2>1. kept # << >> /\ block.data # << >> => block.data[1] = End(kept)
      BY <1>8
    <2>2. /\ input \in Seq(Positions) /\ Run(input)
          /\ Len(input) = Len(kept) + Len(block.data)
          /\ kept # << >> => input[1] = kept[1]
          /\ kept = << >> => input = block.data
          /\ End(input) = End(block.data)
      <3>1. Positions \in SUBSET Int /\ kept \in Seq(Positions) /\ block.data \in Seq(Positions)
            /\ Run(kept) /\ Run(block.data) /\ block.data # << >>
        BY <1>4, <1>6, <1>9
      <3>2. QED
        BY <2>1, <3>1, ConcatRuns
    <2>3. QED
      BY <1>5, <2>2
  <1> HIDE DEF input
  <1>11. Len(input) \in Nat \ {0} /\ input # << >>
    BY <1>9, <1>10, EmptySeq
  <1>12. /\ input[1] \in Nat /\ e = input[1] + Len(input)
    <2>1. input \in SampleSeqs
      BY <1>10, <1>11 DEF SampleSeqs
    <2>2. QED
      BY <1>10, <2>1, BlockRunEnds
  <1>13. NextSample(end, channels) \in Nat /\ NextSample(end, channels) <= end
    BY <1>2, NextSampleTypes DEF PostFollows, IInv
  <1>14. NextSample(end, channels) <= input[1]
    <2>1. CASE kept = << >>
      BY <1>9, <1>10, <1>12, <1>13, <2>1
    <2>2. CASE kept # << >>
      BY <1>8, <1>10, <1>12, <2>2 DEF NextSample
    <2>3. QED
      BY <2>1, <2>2
  <1>15. ASSUME ~pending PROVE input[1] = NextSample(end, channels)
    <2>1. kept = channelizerInput /\ block.data[1] = end /\ channels > 1
      BY <1>6, <1>7, <1>15
    <2>2. QED
      BY <1>10, <2>1 DEF NextSample
  <1>16. group \in Nat \ {0} /\ group <= c
    BY <1>3, <1>4, <1>5, GroupSize
  <1>17. size \in Nat /\ size <= Len(input) /\ Len(input) - size < group
    <2> HIDE DEF group
    <2>1. size \in Nat /\ size <= Len(input) /\ Len(input) < size + group
      BY <1>11, <1>16, WholeGroups
    <2> HIDE DEF size
    <2>2. QED
      BY <1>11, <1>16, <2>1
  <1> HIDE DEF group, size
  <1>18. /\ Take(input, size) \in Seq(Positions) /\ Run(Take(input, size))
         /\ Len(Take(input, size)) = size
         /\ \A i \in 1 .. size : Take(input, size)[i] = input[i]
    <2>1. /\ Take(input, size) \in Seq(Positions) /\ Run(Take(input, size))
          /\ Len(Take(input, size)) = IF size < Len(input) THEN size ELSE Len(input)
          /\ \A i \in 1 .. Len(Take(input, size)) : Take(input, size)[i] = input[i]
      BY <1>9, <1>10, <1>17, TakeRuns
    <2>2. QED
      BY <1>11, <1>17, <2>1
  <1>19. /\ Drop(input, size) \in Seq(Positions) /\ Run(Drop(input, size))
         /\ Len(Drop(input, size)) = Len(input) - size
         /\ Drop(input, size) # << >> => /\ Drop(input, size)[1] = input[1] + size
                                         /\ End(Drop(input, size)) = e
         /\ Drop(input, size) = << >> <=> size = Len(input)
    <2>1. /\ Drop(input, size) \in Seq(Positions) /\ Run(Drop(input, size))
          /\ Len(Drop(input, size)) = IF size < Len(input) THEN Len(input) - size ELSE 0
          /\ Drop(input, size) # << >> => /\ Drop(input, size)[1] = input[1] + size
                                          /\ End(Drop(input, size)) = End(input)
      BY <1>9, <1>10, <1>17, DropRuns
    <2>2. Len(Drop(input, size)) = Len(input) - size
      BY <1>11, <1>17, <2>1
    <2>3. Drop(input, size) = << >> <=> size = Len(input)
      BY <1>11, <1>17, <2>1, <2>2, EmptySeq
    <2>4. QED
      BY <1>10, <2>1, <2>2, <2>3
  <1>20. NextSample(e, c)' = input[1] + size
    <2>1. NextSample(e, c)' = IF channelizerInput' # << >> THEN channelizerInput'[1] ELSE e
      BY <1>3, <1>5 DEF NextSample
    <2>2. QED
      BY <1>3, <1>11, <1>12, <1>17, <1>19, <2>1
  <1>21. runs => /\ Take(input, size) \in SampleSeqs
                 /\ Take(input, size)[1] = input[1]
                 /\ End(Take(input, size)) = input[1] + size
    <2>1. SUFFICES ASSUME size # 0
                   PROVE  /\ Take(input, size) \in SampleSeqs
                          /\ Take(input, size)[1] = input[1]
                          /\ End(Take(input, size)) = input[1] + size
      OBVIOUS
    <2>2. Take(input, size) \in SampleSeqs
      BY <1>17, <1>18, <2>1, EmptySeq DEF SampleSeqs
    <2>3. Take(input, size)[1] = input[1]
      BY <1>17, <1>18, <2>1
    <2>4. QED
      BY <1>18, <2>2, <2>3, BlockRunEnds
  <1>22. /\ inputs' \in [Demods -> Seq(Blocks)]
         /\ \A d \in Demods : /\ Len(inputs'[d]) <= InputMax
                              /\ InputsFollow(d)'
                              /\ DemodFollows(d, e, c)'
    <2>1. to \in SUBSET Demods /\ (to # {} => runs)
      OBVIOUS
    <2>2. /\ NextSample(e, c)' \in Nat
          /\ NextSample(end, channels) <= NextSample(e, c)'
      BY <1>12, <1>13, <1>14, <1>17, <1>20
    <2>3. to # {} =>
            /\ Take(input, size) \in SampleSeqs /\ Run(Take(input, size))
            /\ NextSample(end, channels) <= Take(input, size)[1]
            /\ ~pending => Take(input, size)[1] = NextSample(end, channels)
            /\ End(Take(input, size)) = NextSample(e, c)'
      BY <1>14, <1>15, <1>18, <1>20, <1>21, <2>1
    <2> HIDE DEF to
    <2>4. QED
      BY <1>2, <1>3, <1>4, <1>6, <2>1, <2>2, <2>3, DistributeKeeps DEF IInv
  <1>23. TypeOK'
    <2>1. channelizerInput' # << >> => \E n \in ChannelCounts : Len(channelizerInput') < n
      <3>1. Len(channelizerInput') < c
        BY <1>3, <1>11, <1>16, <1>17, <1>19
      <3>2. QED
        BY <1>4, <1>5, <3>1
    <2>2. pendingChannelizerDiscontinuity' \in BOOLEAN
      BY <1>3
    <2>3. /\ channelizerInput' \in Seq(Positions)
          /\ postChannels' \in ChannelCounts /\ lastChanMode' \in 0 .. 2
          /\ lastInputSequence' \in Seqs
      BY <1>3, <1>4, <1>19 DEF Seqs
    <2>4. Len(iqDataOut') <= QueueMax
      BY <1>4, PostTypes, StreamAssumption DEF IInv, TypeOK
    <2>5. UNCHANGED <<device, reader, pre>> /\ iqDataOut' \in Seq(InputBlocks)
      BY <1>3, <1>4
    <2>6. QED
      BY <1>22, <2>1, <2>2, <2>3, <2>4, <2>5 DEF IInv, TypeOK, device, reader
  <1>24. PostFollows(e, c)'
    <2>1. HeadFollows(e, c)'
      BY <1>4, <1>5
    <2>2. KeptFollows(e, c)'
      BY <1>3, <1>5, <1>19 DEF KeptFollows, End
    <2>3. e <= position' /\ lastInputSequence' < nextSequence'
      BY <1>3, <1>4, <1>5 DEF device, reader
    <2>4. QED
      BY <1>22, <2>1, <2>2, <2>3 DEF PostFollows
  <1>25. Run(channelizerInput)'
    BY <1>3, <1>19 DEF Run
  <1>26. QED
    BY <1>4, <1>22, <1>23, <1>24, <1>25 DEF IInv

-----------------------------------------------------------------------------
(* Steps of the demodulators.                                              *)

\* What such a step leaves alone.
LEMMA DemodStepKeeps ==
    ASSUME IInv, UNCHANGED <<device, reader, iqDataOut, post>>,
           NEW d \in Demods, NEW queue \in Seq(Blocks), Len(queue) <= Len(inputs[d]),
           inputs' = [inputs EXCEPT ![d] = queue],
           \A other \in Demods \ {d} : pre'[other] = pre[other],
           pre' \in [Demods -> [sequence : Seqs, next : Nat, first : Nat, discontinuity : BOOLEAN]],
           InputsFollow(d)',
           NEW sequence \in Int, sequence = SequenceAt(d, Newest(d))', NEW after \in Nat,
           after = EndAt(d, Newest(d))',
           sequence <= SequenceAt(d, Newest(d)), after <= EndAt(d, Newest(d)),
           sequence = SequenceAt(d, Newest(d)) => after = EndAt(d, Newest(d))
    PROVE  IInv'
  <1>1. PICK end \in Nat, channels \in Nat \ {0} : PostFollows(end, channels)
    BY DEF IInv
  <1>2. /\ UNCHANGED <<position, numChannels, step, dataOut, overflowBuffer,
                       discontinuityAfterBlock, pendingDiscontinuity, nextSequence,
                       iqDataOut, postChannels, lastChanMode, lastInputSequence,
                       channelizerInput, pendingChannelizerDiscontinuity>>
    BY DEF device, reader, post
  <1>3. NextSample(end, channels)' = NextSample(end, channels)
    BY <1>2 DEF NextSample
  <1>4. NextSample(end, channels) \in Nat
    BY <1>1, NextSampleTypes DEF PostFollows, IInv
  <1>5. inputs \in [Demods -> Seq(Blocks)]
    BY DEF IInv, TypeOK
  <1>6. ASSUME NEW other \in Demods
        PROVE  InputsFollow(other)' /\ DemodFollows(other, end, channels)'
    <2>1. CASE other = d
      <3>1. DemodFollows(d, end, channels)
        BY <1>1 DEF PostFollows
      <3>2. /\ SequenceAt(d, Newest(d)) \in Int /\ EndAt(d, Newest(d)) \in Nat
            /\ lastInputSequence \in Int
        <4>1. Newest(d) \in 0 .. Newest(d) /\ InputsFollow(d) /\ TypeOK
          BY InputTypes DEF IInv
        <4>2. QED
          BY <4>1, EntryTypes, PostTypes DEF Seqs, NoSequence
      <3>3. sequence <= lastInputSequence /\ after <= NextSample(end, channels)
        BY <1>4, <3>1, <3>2 DEF DemodFollows
      <3>4. sequence = lastInputSequence => sequence = SequenceAt(d, Newest(d))
        BY <3>1, <3>2 DEF DemodFollows
      <3>5. sequence = lastInputSequence /\ lastInputSequence # NoSequence
                => after = NextSample(end, channels)
        BY <3>1, <3>4 DEF DemodFollows
      <3>6. QED
        BY <1>2, <1>3, <2>1, <3>3, <3>5 DEF DemodFollows
    <2>2. CASE other # d
      <3>1. inputs'[other] = inputs[other] /\ pre'[other] = pre[other]
        BY <1>5, <2>2
      <3>2. /\ InputsFollow(other)'
            /\ SequenceAt(other, Newest(other))' = SequenceAt(other, Newest(other))
            /\ EndAt(other, Newest(other))' = EndAt(other, Newest(other))
        BY <3>1, KeepInput DEF IInv
      <3>3. QED
        BY <1>1, <1>2, <1>3, <3>2 DEF PostFollows, DemodFollows
    <2>3. QED
      BY <2>1, <2>2
  <1>7. PostFollows(end, channels)'
    BY <1>1, <1>2, <1>6
       DEF PostFollows, HeadFollows, BlockFollows, UpcomingFollows, UpcomingStart, Upcoming,
           Told, KeptFollows, End
  <1>8. TypeOK'
    <2>1. inputs' \in [Demods -> Seq(Blocks)]
      BY <1>5
    <2>2. ASSUME NEW other \in Demods PROVE Len(inputs'[other]) <= InputMax
      <3>1. /\ Len(inputs[other]) <= InputMax /\ Len(inputs[other]) \in Nat
            /\ InputMax \in Nat /\ Len(queue) \in Nat
        BY <1>5, LenProperties, StreamAssumption DEF IInv, TypeOK
      <3>2. inputs'[other] = IF other = d THEN queue ELSE inputs[other]
        BY <1>5
      <3>3. QED
        BY <3>1, <3>2
    <2>3. QED
      BY <1>2, <2>1, <2>2 DEF IInv, TypeOK
  <1>9. ReaderIsAtPosition' /\ QueueFollows' /\ Run(channelizerInput)'
    BY <1>2 DEF IInv, ReaderIsAtPosition, QueueFollows, BlockFollows, UpcomingFollows,
                UpcomingStart, Upcoming, Told, Run, End
  <1>10. QED
    BY <1>6, <1>7, <1>8, <1>9 DEF IInv

\* Flushing a queue loses its blocks: the next one is not taken for their successor.
LEMMA FlushInputKeeps ==
    ASSUME IInv, NEW d \in Demods, FlushInput(d)
    PROVE  IInv'
  <1>1. /\ inputs[d] # << >> /\ inputs' = [inputs EXCEPT ![d] = << >>]
        /\ UNCHANGED <<device, reader, iqDataOut, post, pre>>
    BY DEF FlushInput
  <1>2. /\ TypeOK /\ InputsFollow(d) /\ inputs \in [Demods -> Seq(Blocks)]
        /\ pre \in [Demods -> [sequence : Seqs, next : Nat, first : Nat, discontinuity : BOOLEAN]]
    BY DEF IInv, TypeOK
  <1>3. inputs'[d] = << >> /\ Len(<< >>) = 0 /\ << >> \in Seq(Blocks)
    BY <1>1, <1>2, EmptySeq
  <1>4. /\ SequenceAt(d, Newest(d))' = SequenceAt(d, 0)
        /\ EndAt(d, Newest(d))' = EndAt(d, 0)
    BY <1>1, <1>3 DEF SequenceAt, EndAt, Newest
  <1>5. Newest(d) \in Nat \ {0} /\ Newest(d) = Len(inputs[d])
    BY <1>1, <1>2, InputTypes
  <1>6. /\ SequenceAt(d, 0) \in Int /\ EndAt(d, 0) \in Nat
        /\ SequenceAt(d, Newest(d)) \in Int /\ EndAt(d, Newest(d)) \in Nat
        /\ EndAt(d, 0) <= EndAt(d, Newest(d))
    <2>1. 0 \in 0 .. Newest(d) /\ Newest(d) \in 0 .. Newest(d)
      BY <1>5
    <2>2. QED
      BY <1>2, <2>1, EntryTypes, NewestIsLast DEF Seqs, NoSequence
  <1>7. SequenceAt(d, 0) < SequenceAt(d, Newest(d))
    <2>1. 0 \in 0 .. Len(inputs[d]) /\ Newest(d) \in 0 + 1 .. Len(inputs[d])
      BY <1>5
    <2>2. SequenceAt(d, 0) < inputs[d][Newest(d)].sequence
      BY <1>2, <2>1 DEF InputsFollow
    <2>3. QED
      BY <1>5, <2>2 DEF SequenceAt
  <1>8. InputsFollow(d)'
    BY <1>3 DEF InputsFollow
  <1>9. Len(<< >>) <= Len(inputs[d])
    BY <1>3, <1>5
  <1>10. SequenceAt(d, 0) <= SequenceAt(d, Newest(d)) /\ SequenceAt(d, 0) # SequenceAt(d, Newest(d))
    BY <1>6, <1>7
  <1>11. PICK s \in Int, a \in Nat : s = SequenceAt(d, 0) /\ a = EndAt(d, 0)
    BY <1>6
  <1>12. \A other \in Demods \ {d} : pre'[other] = pre[other]
    BY <1>1
  <1>13. QED
    BY <1>1, <1>2, <1>3, <1>4, <1>6, <1>8, <1>9, <1>10, <1>11, <1>12, DemodStepKeeps

\* What taking the first block of a queue does to the queue and to what is remembered.
LEMMA PopInputShifts ==
    ASSUME IInv, NEW d \in Demods, PopInput(d)
    PROVE  /\ inputs[d] \in Seq(Blocks) /\ inputs[d] # << >> /\ Newest(d) \in Nat \ {0}
           /\ Newest(d) = Len(inputs[d])
           /\ Tail(inputs[d]) \in Seq(Blocks) /\ Len(Tail(inputs[d])) = Newest(d) - 1
           /\ inputs' = [inputs EXCEPT ![d] = Tail(inputs[d])]
           /\ inputs'[d] = Tail(inputs[d])
           /\ \A i \in 1 .. Newest(d) - 1 : inputs'[d][i] = inputs[d][i + 1]
           /\ pre' = [pre EXCEPT ![d] =
                  [sequence |-> inputs[d][1].sequence,
                   discontinuity |-> Gap(inputs[d][1], pre[d].sequence),
                   first |-> inputs[d][1].data[1],
                   next |-> inputs[d][1].data[Len(inputs[d][1].data)] + 1]]
           /\ inputs[d][1] \in Blocks /\ Run(inputs[d][1].data)
  <1>1. /\ inputs[d] # << >> /\ TypeOK /\ InputsFollow(d) /\ inputs \in [Demods -> Seq(Blocks)]
    BY DEF PopInput, IInv, TypeOK
  <1>2. /\ inputs[d] \in Seq(Blocks) /\ Newest(d) \in Nat \ {0} /\ Newest(d) = Len(inputs[d])
    BY <1>1, InputTypes
  <1>3. /\ Head(inputs[d]) = inputs[d][1] /\ Tail(inputs[d]) \in Seq(Blocks)
        /\ Len(Tail(inputs[d])) = Newest(d) - 1
        /\ \A i \in 1 .. Newest(d) - 1 : Tail(inputs[d])[i] = inputs[d][i + 1]
    BY <1>1, <1>2, HeadTailProperties
  <1>4. /\ inputs' = [inputs EXCEPT ![d] = Tail(inputs[d])] /\ inputs'[d] = Tail(inputs[d])
    BY <1>1 DEF PopInput
  <1>5. pre' = [pre EXCEPT ![d] =
            [sequence |-> inputs[d][1].sequence,
             discontinuity |-> Gap(inputs[d][1], pre[d].sequence),
             first |-> inputs[d][1].data[1],
             next |-> inputs[d][1].data[Len(inputs[d][1].data)] + 1]]
    BY <1>3 DEF PopInput
  <1>6. inputs[d][1] \in Blocks /\ Run(inputs[d][1].data)
    <2>1. 1 \in 0 .. Newest(d)
      BY <1>2
    <2>2. QED
      BY <1>1, <2>1, EntryTypes
  <1>7. QED
    BY <1>1, <1>2, <1>3, <1>4, <1>5, <1>6

LEMMA PopInputKeeps ==
    ASSUME IInv, NEW d \in Demods, PopInput(d)
    PROVE  IInv'
  <1> DEFINE n == Newest(d)
             first == inputs[d][1]
             queue == Tail(inputs[d])
             taken == [sequence |-> first.sequence,
                       discontinuity |-> Gap(first, pre[d].sequence),
                       first |-> first.data[1],
                       next |-> first.data[Len(first.data)] + 1]
  <1>1. /\ inputs[d] \in Seq(Blocks) /\ inputs[d] # << >> /\ n \in Nat \ {0}
        /\ n = Len(inputs[d]) /\ queue \in Seq(Blocks) /\ Len(queue) = n - 1
        /\ inputs' = [inputs EXCEPT ![d] = queue] /\ inputs'[d] = queue
        /\ \A i \in 1 .. n - 1 : inputs'[d][i] = inputs[d][i + 1]
        /\ pre' = [pre EXCEPT ![d] = taken]
        /\ first \in Blocks /\ Run(first.data)
    BY PopInputShifts
  <1>2. /\ TypeOK /\ InputsFollow(d)
        /\ pre \in [Demods -> [sequence : Seqs, next : Nat, first : Nat, discontinuity : BOOLEAN]]
        /\ UNCHANGED <<device, reader, iqDataOut, post>>
    BY DEF IInv, TypeOK, PopInput
  <1> HIDE DEF queue
  <1>3. /\ first.data \in SampleSeqs /\ first.sequence \in Nat /\ first.discontinuity \in BOOLEAN
        /\ first.data[1] \in Nat /\ End(first.data) \in Nat
    BY <1>1, BlockTypes, BlockRunEnds
  <1>4. taken \in [sequence : Seqs, next : Nat, first : Nat, discontinuity : BOOLEAN]
    BY <1>3 DEF Seqs, Gap, End
  <1>5. /\ pre'[d].sequence = first.sequence /\ pre'[d].next = End(first.data)
    BY <1>1, <1>2 DEF End
  <1>6. /\ pre' \in [Demods -> [sequence : Seqs, next : Nat, first : Nat, discontinuity : BOOLEAN]]
        /\ \A other \in Demods \ {d} : pre'[other] = pre[other]
    <2> HIDE DEF taken
    <2>1. QED
      BY <1>1, <1>2, <1>4
  <1> HIDE DEF first, taken, n
  <1>7. \A i \in 0 .. n - 1 : /\ SequenceAt(d, i)' = SequenceAt(d, i + 1)
                              /\ EndAt(d, i)' = EndAt(d, i + 1)
    <2>1. ASSUME NEW i \in 0 .. n - 1
          PROVE  /\ SequenceAt(d, i)' = SequenceAt(d, i + 1)
                 /\ EndAt(d, i)' = EndAt(d, i + 1)
      <3>1. CASE i = 0
        BY <1>5, <3>1 DEF SequenceAt, EndAt, first
      <3>2. CASE i # 0
        <4>1. inputs'[d][i] = inputs[d][i + 1] /\ i + 1 # 0
          BY <1>1, <3>2
        <4>2. QED
          BY <3>2, <4>1 DEF SequenceAt, EndAt, End
      <3>3. QED
        BY <3>1, <3>2
    <2>2. QED
      BY <2>1
  <1>8. InputsFollow(d)'
    <2>1. ASSUME NEW i \in 1 .. Len(inputs'[d]) PROVE Run(inputs'[d][i].data)
      <3>1. inputs'[d][i] = inputs[d][i + 1] /\ i + 1 \in 1 .. Len(inputs[d])
        BY <1>1
      <3>2. QED
        BY <1>2, <3>1 DEF InputsFollow
    <2>2. ASSUME NEW i \in 0 .. Len(inputs'[d]), NEW j \in i + 1 .. Len(inputs'[d])
          PROVE  /\ SequenceAt(d, i)' < inputs'[d][j].sequence
                 /\ EndAt(d, i)' <= inputs'[d][j].data[1]
      <3>1. /\ i \in 0 .. n - 1 /\ j \in 1 .. n - 1 /\ i + 1 \in 0 .. Len(inputs[d])
            /\ j + 1 \in (i + 1) + 1 .. Len(inputs[d])
        BY <1>1
      <3>2. /\ SequenceAt(d, i + 1) < inputs[d][j + 1].sequence
            /\ EndAt(d, i + 1) <= inputs[d][j + 1].data[1]
        BY <1>2, <3>1 DEF InputsFollow
      <3>3. inputs'[d][j] = inputs[d][j + 1]
        BY <1>1, <3>1
      <3>4. QED
        BY <1>7, <3>1, <3>2, <3>3
    <2>3. ASSUME NEW i \in 0 .. Len(inputs'[d]) - 1, SequenceAt(d, i)' # NoSequence,
                 ~Gap(inputs'[d][i + 1], SequenceAt(d, i)')
          PROVE  inputs'[d][i + 1].data[1] = EndAt(d, i)'
      <3>1. i \in 0 .. n - 1 /\ i + 1 \in 1 .. n - 1 /\ i + 1 \in 0 .. Len(inputs[d]) - 1
        BY <1>1
      <3>2. inputs'[d][i + 1] = inputs[d][i + 1 + 1]
        BY <1>1, <3>1
      <3>3. SequenceAt(d, i + 1) # NoSequence /\ ~Gap(inputs[d][i + 1 + 1], SequenceAt(d, i + 1))
        BY <1>7, <2>3, <3>1, <3>2
      <3>4. inputs[d][i + 1 + 1].data[1] = EndAt(d, i + 1)
        BY <1>2, <3>1, <3>3 DEF InputsFollow
      <3>5. QED
        BY <1>7, <3>1, <3>2, <3>4
    <2>4. QED
      BY <2>1, <2>2, <2>3 DEF InputsFollow, Gap
  <1>9. /\ SequenceAt(d, Newest(d))' = SequenceAt(d, Newest(d))
        /\ EndAt(d, Newest(d))' = EndAt(d, Newest(d))
    <2>1. Newest(d)' = n - 1 /\ n - 1 \in 0 .. n - 1 /\ n - 1 + 1 = n
      BY <1>1 DEF Newest
    <2>2. PICK i \in 0 .. n - 1 : i = n - 1
      BY <2>1
    <2>3. SequenceAt(d, i)' = SequenceAt(d, n) /\ EndAt(d, i)' = EndAt(d, n)
      BY <1>1, <1>7, <2>1, <2>2
    <2>4. QED
      BY <2>1, <2>2, <2>3 DEF n, SequenceAt, EndAt
  <1>10. SequenceAt(d, Newest(d)) \in Int /\ EndAt(d, Newest(d)) \in Nat
    <2>1. Newest(d) \in 0 .. Newest(d)
      BY <1>1 DEF n
    <2>2. QED
      BY <1>2, <2>1, EntryTypes DEF Seqs, NoSequence
  <1>11. PICK s \in Int, a \in Nat : s = SequenceAt(d, Newest(d)) /\ a = EndAt(d, Newest(d))
    BY <1>10
  <1>12. Len(queue) <= Len(inputs[d]) /\ s <= s /\ a <= a
    BY <1>1
  <1>13. QED
    BY <1>1, <1>2, <1>6, <1>8, <1>9, <1>11, <1>12, DemodStepKeeps

-----------------------------------------------------------------------------
(* The specification.                                                      *)

LEMMA InitInvariant == Init => IInv
  <1> SUFFICES ASSUME Init PROVE IInv
    OBVIOUS
  <1>1. /\ << >> \in Seq(Positions) /\ << >> \in Seq(InputBlocks) /\ << >> \in Seq(Blocks)
        /\ Len(<< >>) = 0
    BY EmptySeq
  <1>2. TypeOK
    <2>1. /\ NumElems \in Nat \ {0} /\ Mtu \in Nat \ {0} /\ QueueMax \in Nat \ {0}
          /\ InputMax \in Nat \ {0} /\ MaxPosition \in Nat
      BY StreamAssumption
    <2>2. /\ inputs \in [Demods -> Seq(Blocks)]
          /\ \A d \in Demods : Len(inputs[d]) <= InputMax
          /\ pre \in [Demods -> [sequence : Seqs, next : Nat, first : Nat,
                                discontinuity : BOOLEAN]]
      BY <1>1, <2>1 DEF Init, Seqs, NoSequence
    <2>3. /\ iqDataOut \in Seq(InputBlocks) /\ Len(iqDataOut) <= QueueMax
          /\ dataOut \in Seq(Positions) /\ Len(dataOut) <= NumElems
          /\ overflowBuffer \in Seq(Positions) /\ Len(overflowBuffer) < Mtu
          /\ channelizerInput \in Seq(Positions)
          /\ channelizerInput # << >> => \E n \in ChannelCounts : Len(channelizerInput) < n
      BY <1>1, <2>1 DEF Init
    <2>4. /\ position \in 0 .. MaxPosition /\ numChannels \in ChannelCounts
          /\ step \in {"settings", "read", "push"} /\ nextSequence \in Nat
          /\ postChannels \in ChannelCounts \cup {0} /\ lastChanMode \in 0 .. 2
      BY <2>1 DEF Init
    <2>5. {discontinuityAfterBlock, pendingDiscontinuity,
           pendingChannelizerDiscontinuity} \subseteq BOOLEAN
      BY DEF Init
    <2>6. lastInputSequence \in Seqs
      BY DEF Init, Seqs
    <2>7. QED
      BY <2>2, <2>3, <2>4, <2>5, <2>6 DEF TypeOK
  <1>3. ReaderIsAtPosition
    BY EmptyRuns DEF Init, ReaderIsAtPosition
  <1>4. QueueFollows /\ Run(channelizerInput)
    BY <1>1, EmptyRuns DEF Init, QueueFollows
  <1>5. ASSUME NEW d \in Demods PROVE InputsFollow(d) /\ DemodFollows(d, 0, 1)
    <2>1. /\ inputs[d] = << >> /\ pre[d].sequence = NoSequence /\ pre[d].next = 0
          /\ lastInputSequence = NoSequence
      BY DEF Init
    <2>2. InputsFollow(d)
      BY <1>1, <2>1 DEF InputsFollow
    <2>3. QED
      BY <1>1, <2>1, <2>2
         DEF DemodFollows, SequenceAt, EndAt, Newest, NextSample, NoSequence
  <1>6. PostFollows(0, 1)
    BY <1>5 DEF Init, PostFollows, HeadFollows, UpcomingFollows, UpcomingStart, Upcoming, Told,
                KeptFollows, NoSequence
  <1>7. QED
    BY <1>2, <1>3, <1>4, <1>5, <1>6 DEF IInv

LEMMA StepKeepsInvariant == IInv /\ [Next]_vars => IInv'
  <1> SUFFICES ASSUME IInv, [Next]_vars PROVE IInv'
    OBVIOUS
  <1>1. CASE Reader
    BY <1>1, ReaderKeepsInvariant
  <1>2. CASE Post
    BY <1>2, RunSingleCHKeeps, RunPFBCHKeeps DEF Post
  <1>3. CASE \E d \in Demods : FlushInput(d) \/ PopInput(d)
    BY <1>3, FlushInputKeeps, PopInputKeeps
  <1>4. CASE UNCHANGED vars
    <2>1. UNCHANGED <<position, numChannels, step, dataOut, overflowBuffer,
                      discontinuityAfterBlock, pendingDiscontinuity, nextSequence,
                      iqDataOut, postChannels, lastChanMode, lastInputSequence,
                      channelizerInput, pendingChannelizerDiscontinuity, inputs, pre>>
      BY <1>4 DEF vars, device, reader, post
    <2>2. TypeOK'
      BY <2>1 DEF IInv, TypeOK
    <2>3. ReaderIsAtPosition' /\ QueueFollows' /\ Run(channelizerInput)'
      BY <2>1 DEF IInv, ReaderIsAtPosition, QueueFollows, BlockFollows, UpcomingFollows,
                  UpcomingStart, Upcoming, Told, Run, End
    <2>4. \A d \in Demods : InputsFollow(d)'
      BY <2>1, KeepInput DEF IInv
    <2>5. PICK end \in Nat, channels \in Nat \ {0} : PostFollows(end, channels)
      BY DEF IInv
    <2>6. PostFollows(end, channels)'
      BY <2>1, <2>5
         DEF PostFollows, HeadFollows, BlockFollows, UpcomingFollows, UpcomingStart, Upcoming,
             Told, KeptFollows, DemodFollows, NextSample, SequenceAt, EndAt, Newest, End
    <2>7. QED
      BY <2>2, <2>3, <2>4, <2>6 DEF IInv
  <1>5. QED
    BY <1>1, <1>2, <1>3, <1>4 DEF Next

\* In every reachable state the blocks on their way follow each other, or say that they do
\* not, from the receiver through both queues to what each demodulator has taken.
THEOREM Invariant == Spec => []IInv
  BY InitInvariant, StepKeepsInvariant, PTL DEF Spec

\* Every variable keeps its type, the queues their maximum, the overflow buffer of
\* readStream less than a chunk, and the channelizer's input less than a group.
THEOREM TypeCorrect == Spec => []TypeOK
  <1>1. IInv => TypeOK
    BY DEF IInv
  <1>2. QED
    BY <1>1, Invariant, PTL

\* No block and no buffer of SDRThread or SDRPostThread ever joins the samples from both
\* sides of a gap.
THEOREM NothingIsJoined == Spec => []BlocksAreContiguous
  <1>1. IInv => BlocksAreContiguous
    <2> SUFFICES ASSUME IInv PROVE BlocksAreContiguous
      OBVIOUS
    <2>1. ASSUME NEW s \in Seq(Positions), Run(s) PROVE Contiguous(s)
      BY <2>1, RunIsContiguous, PositionsAreNumbers
    <2>2. Contiguous(dataOut) /\ Contiguous(overflowBuffer) /\ Contiguous(channelizerInput)
      BY <2>1 DEF IInv, TypeOK, ReaderIsAtPosition
    <2>3. ASSUME NEW i \in DOMAIN iqDataOut PROVE Contiguous(iqDataOut[i].data)
      <3>1. iqDataOut \in Seq(InputBlocks) /\ i \in 1 .. Len(iqDataOut)
        BY LenProperties DEF IInv, TypeOK
      <3>2. iqDataOut[i] \in InputBlocks /\ Run(iqDataOut[i].data)
        BY <3>1, ElementOfSeq DEF IInv, QueueFollows
      <3>3. iqDataOut[i].data \in Seq(Positions)
        BY <3>2 DEF InputBlocks, SampleSeqs
      <3>4. QED
        BY <2>1, <3>2, <3>3
    <2>4. ASSUME NEW d \in Demods, NEW i \in DOMAIN inputs[d]
          PROVE  Contiguous(inputs[d][i].data)
      <3>1. inputs[d] \in Seq(Blocks) /\ i \in 1 .. Len(inputs[d])
        BY InputTypes, LenProperties DEF IInv
      <3>2. inputs[d][i] \in Blocks /\ Run(inputs[d][i].data)
        BY <3>1, ElementOfSeq DEF IInv, InputsFollow
      <3>3. inputs[d][i].data \in Seq(Positions)
        BY <3>2 DEF Blocks, SampleSeqs
      <3>4. QED
        BY <2>1, <3>2, <3>3
    <2>5. QED
      BY <2>2, <2>3, <2>4 DEF BlocksAreContiguous
  <1>2. QED
    BY <1>1, Invariant, PTL

\* A demodulator gets every sample in order and once, and knows of every gap, whatever was
\* lost in the device, at the queues, in the channelizer, to a flush or to a restart.
THEOREM GapsAreTold == Spec => IntactOrTold
  <1>1. ASSUME IInv, Next, NEW d \in Demods, Popped(d)
        PROVE  /\ pre'[d].first >= pre[d].next
               /\ pre[d].sequence # NoSequence /\ pre'[d].first # pre[d].next
                     => pre'[d].discontinuity
    <2>1. PopInput(d)
      <3>1. PICK other \in Demods : PopInput(other)
        BY <1>1
           DEF Popped, Next, Reader, ReadStream, ChangeRate, Restart, Read, ReadNothing, ReadFails,
               BlockRead, PushNothing, Push, PushDrops, Post, RunSingleCH, RunPFBCH, FlushInput
      <3>2. pre'[d] # pre[d] => d = other
        BY <3>1 DEF PopInput, IInv, TypeOK
      <3>3. QED
        BY <1>1, <3>1, <3>2 DEF Popped
    <2>2. /\ pre \in [Demods -> [sequence : Seqs, next : Nat, first : Nat, discontinuity : BOOLEAN]]
          /\ InputsFollow(d) /\ TypeOK
      BY <1>1 DEF IInv, TypeOK
    <2>3. /\ Len(inputs[d]) \in Nat \ {0}
          /\ pre'[d].first = inputs[d][1].data[1]
          /\ pre'[d].discontinuity = Gap(inputs[d][1], pre[d].sequence)
          /\ inputs[d][1].data[1] \in Nat
      <3>1. /\ Len(inputs[d]) \in Nat \ {0}
            /\ inputs[d][1] \in Blocks /\ Run(inputs[d][1].data)
        BY <1>1, <2>1, PopInputShifts
      <3>2. /\ pre'[d].first = inputs[d][1].data[1]
            /\ pre'[d].discontinuity = Gap(inputs[d][1], pre[d].sequence)
        BY <1>1, <2>1, <2>2, PopInputShifts
      <3>3. inputs[d][1].data[1] \in Nat
        BY <3>1, BlockTypes, BlockRunEnds
      <3>4. QED
        BY <3>1, <3>2, <3>3
    <2>4. /\ 0 \in 0 .. Len(inputs[d]) /\ 1 \in 0 + 1 .. Len(inputs[d])
          /\ 0 \in 0 .. Len(inputs[d]) - 1 /\ 0 + 1 = 1
      BY <2>3
    <2>5. pre[d].next <= inputs[d][1].data[1] /\ pre[d].next \in Nat
      BY <2>2, <2>4, InputTypes DEF InputsFollow, EndAt
    <2>6. pre[d].sequence # NoSequence /\ ~Gap(inputs[d][1], pre[d].sequence)
              => inputs[d][1].data[1] = pre[d].next
      <3>1. SequenceAt(d, 0) # NoSequence /\ ~Gap(inputs[d][0 + 1], SequenceAt(d, 0))
                => inputs[d][0 + 1].data[1] = EndAt(d, 0)
        BY <2>2, <2>4 DEF InputsFollow
      <3>2. QED
        BY <2>4, <3>1 DEF SequenceAt, EndAt
    <2>7. QED
      BY <2>3, <2>5, <2>6
  <1>2. IInv /\ [Next]_vars
            => [\A d \in Demods : Popped(d) =>
                    /\ pre'[d].first >= pre[d].next
                    /\ pre[d].sequence # NoSequence /\ pre'[d].first # pre[d].next
                          => pre'[d].discontinuity]_vars
    BY <1>1
  <1>3. QED
    BY <1>2, Invariant, PTL DEF Spec, IntactOrTold
=============================================================================
