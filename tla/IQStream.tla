------------------------------ MODULE IQStream ------------------------------
(***************************************************************************)
(* The IQ stream, from the receiver to the demodulators, and how a gap in  *)
(* it becomes known to each of them.                                       *)
(*                                                                         *)
(* SDRThread (src/sdr/SoapySDRThread.cpp) reads the device in MTU-sized    *)
(* chunks, cuts the samples into blocks and queues them; what a chunk has  *)
(* in excess of a block waits in overflowBuffer.  SDRPostThread            *)
(* (src/sdr/SDRPostThread.cpp) hands each block to the demodulators as it  *)
(* is, or runs it through a channelizer that consumes whole groups of      *)
(* samples.  No push ever waits: a block that finds a queue full is lost.  *)
(* DemodulatorPreThread learns of a gap from a block's flag or from its    *)
(* sequence number.                                                        *)
(*                                                                         *)
(* A sample is its position in the receiver's own stream: the n-th sample  *)
(* the receiver ever took is n.  A sample rate is named by the number of   *)
(* channels SDRThread chooses for it, numChannels.                         *)
(***************************************************************************)
EXTENDS Integers, Sequences

CONSTANTS
    Demods,     \* demodulators, each with its input queue
    ChannelCounts, \* sample rates, named by numChannels
    NumElems,   \* samples in a full block
    Mtu,        \* samples the device returns at most
    QueueMax,   \* of SDRThread's output queue
    InputMax,   \* of a demodulator's input queue
    MaxLoss,    \* bound: samples lost at once
    MaxPosition \* bound: samples ever taken

ASSUME StreamAssumption ==
    /\ ChannelCounts \subseteq Nat \ {0} /\ ChannelCounts # {}
    /\ {NumElems, Mtu, QueueMax, InputMax, MaxLoss} \subseteq Nat \ {0}
    /\ MaxPosition \in Nat

VARIABLES
    \* The device and SDRThread
    position,             \* of the receiver's next sample
    step,                 \* of SDRThread: settings | read | push
    numChannels,
    dataOut,              \* the samples of the block being read
    overflowBuffer,
    discontinuityAfterBlock, pendingDiscontinuity, nextSequence,
    iqDataOut,            \* its output queue
    \* SDRPostThread
    postChannels,         \* numChannels
    lastChanMode,         \* 1: runPFBCH, 2: runPFBCH2
    lastInputSequence, channelizerInput, pendingChannelizerDiscontinuity,
    \* The demodulators
    inputs,               \* demodulator -> its input queue
    pre                   \* demodulator -> what its DemodulatorPreThread has seen

device == <<position, numChannels>>
reader == <<step, dataOut, overflowBuffer, discontinuityAfterBlock, pendingDiscontinuity,
            nextSequence>>
post == <<postChannels, lastChanMode, lastInputSequence, channelizerInput, 
          pendingChannelizerDiscontinuity>>
vars == <<device, reader, iqDataOut, post, inputs, pre>>

NoSequence == -1 \* haveInputSequence is false
Seqs == Nat \cup {NoSequence}

Init ==
    /\ position = 0 /\ numChannels \in ChannelCounts
    /\ step = "settings"
    /\ dataOut = << >> /\ overflowBuffer = << >>
    /\ discontinuityAfterBlock = FALSE
    /\ pendingDiscontinuity = TRUE
    /\ nextSequence = 0
    /\ iqDataOut = << >>
    /\ postChannels = 0 /\ lastChanMode = 0 /\ lastInputSequence = NoSequence
    /\ channelizerInput = << >>
    /\ pendingChannelizerDiscontinuity = TRUE
    /\ inputs = [d \in Demods |-> << >>]
    /\ pre = [d \in Demods |-> [sequence |-> NoSequence, next |-> 0, first |-> 0,
                                discontinuity |-> FALSE]]

-----------------------------------------------------------------------------
(* SDRThread.                                                              *)

Take(s, n) == SubSeq(s, 1, IF n < Len(s) THEN n ELSE Len(s))
Drop(s, n) == SubSeq(s, n + 1, Len(s))
Samples(n) == [i \in 1 .. n |-> position + i - 1]
Passes(n) == position + n <= MaxPosition /\ position' = position + n

StartRead(samples) ==
    /\ dataOut' = Take(samples, NumElems)
    /\ overflowBuffer' = Drop(samples, NumElems)
    /\ discontinuityAfterBlock' = FALSE
    /\ step' = "read"

\* Mutant: the samples handed over stay in the overflow buffer.
ReadStreamKeepsOverflow ==
    /\ step = "settings"
    /\ dataOut' = Take(overflowBuffer, NumElems)
    /\ discontinuityAfterBlock' = FALSE
    /\ step' = "read"
    /\ UNCHANGED <<device, overflowBuffer, pendingDiscontinuity, nextSequence, iqDataOut,
                   post, inputs, pre>>

\* readStream starts with what the last one left over.
ReadStream ==
    /\ step = "settings"
    /\ StartRead(overflowBuffer)
    /\ UNCHANGED <<device, pendingDiscontinuity, nextSequence, iqDataOut, post, inputs, pre>>

\* Mutant: the overflow buffer survives a change of rate.
ChangeRateKeepsOverflow(channels, lost) ==
    /\ step = "settings"
    /\ Passes(lost)
    /\ numChannels' = channels
    /\ pendingDiscontinuity' = TRUE
    /\ StartRead(overflowBuffer)
    /\ UNCHANGED <<nextSequence, iqDataOut, post, inputs, pre>>

\* updateSettings changes the rate: the device is silenced meanwhile.
ChangeRate(channels, lost) ==
    /\ step = "settings"
    /\ Passes(lost)
    /\ numChannels' = channels
    /\ pendingDiscontinuity' = TRUE
    /\ StartRead(<< >>)
    /\ UNCHANGED <<nextSequence, iqDataOut, post, inputs, pre>>

\* The device returns n samples.
Read(n) ==
    /\ step = "read" /\ Len(dataOut) < NumElems
    /\ Passes(n)
    /\ LET got == dataOut \o Samples(n) IN
        /\ dataOut' = Take(got, NumElems)
        /\ overflowBuffer' = overflowBuffer \o Drop(got, NumElems)
    /\ UNCHANGED <<numChannels, step, discontinuityAfterBlock, pendingDiscontinuity,
                   nextSequence, iqDataOut, post, inputs, pre>>

\* It returns a timeout or nothing, which loses no samples, ...
ReadNothing ==
    /\ step = "read" /\ Len(dataOut) < NumElems
    /\ step' = "push"
    /\ UNCHANGED <<device, dataOut, overflowBuffer, discontinuityAfterBlock,
                   pendingDiscontinuity, nextSequence, iqDataOut, post, inputs, pre>>

\* ... or an overflow, a corruption or a stream error, which does.
ReadFails(lost) ==
    /\ step = "read" /\ Len(dataOut) < NumElems
    /\ Passes(lost)
    /\ discontinuityAfterBlock' = TRUE
    /\ step' = "push"
    /\ UNCHANGED <<numChannels, dataOut, overflowBuffer, pendingDiscontinuity, nextSequence,
                   iqDataOut, post, inputs, pre>>

BlockRead ==
    /\ step = "read" /\ Len(dataOut) = NumElems
    /\ step' = "push"
    /\ UNCHANGED <<device, dataOut, overflowBuffer, discontinuityAfterBlock,
                   pendingDiscontinuity, nextSequence, iqDataOut, post, inputs, pre>>

Block ==
    [data |-> dataOut, numChannels |-> numChannels, discontinuity |-> pendingDiscontinuity,
     sequence |-> nextSequence]

\* The end of readStream.  Without samples an error is kept for the next block.
PushNothing ==
    /\ step = "push" /\ dataOut = << >>
    /\ pendingDiscontinuity' = (pendingDiscontinuity \/ discontinuityAfterBlock)
    /\ step' = "settings"
    /\ UNCHANGED <<device, dataOut, overflowBuffer, discontinuityAfterBlock, nextSequence,
                   iqDataOut, post, inputs, pre>>

\* Mutant: a pushed block settles the discontinuity that followed it.
PushForgets ==
    /\ step = "push" /\ dataOut # << >> /\ Len(iqDataOut) < QueueMax
    /\ iqDataOut' = Append(iqDataOut, Block)
    /\ pendingDiscontinuity' = FALSE
    /\ nextSequence' = nextSequence + 1
    /\ step' = "settings"
    /\ UNCHANGED <<device, dataOut, overflowBuffer, discontinuityAfterBlock, post, inputs, pre>>

\* Mutant: a full queue is no obstacle.
PushWhenFull ==
    /\ step = "push" /\ dataOut # << >>
    /\ iqDataOut' = Append(iqDataOut, Block)
    /\ pendingDiscontinuity' = discontinuityAfterBlock
    /\ nextSequence' = nextSequence + 1
    /\ step' = "settings"
    /\ UNCHANGED <<device, dataOut, overflowBuffer, discontinuityAfterBlock, post, inputs, pre>>

Push ==
    /\ step = "push" /\ dataOut # << >> /\ Len(iqDataOut) < QueueMax
    /\ iqDataOut' = Append(iqDataOut, Block)
    /\ pendingDiscontinuity' = discontinuityAfterBlock
    /\ nextSequence' = nextSequence + 1
    /\ step' = "settings"
    /\ UNCHANGED <<device, dataOut, overflowBuffer, discontinuityAfterBlock, post, inputs, pre>>

PushDrops ==
    /\ step = "push" /\ dataOut # << >> /\ Len(iqDataOut) >= QueueMax
    /\ pendingDiscontinuity' = TRUE
    /\ nextSequence' = nextSequence + 1
    /\ step' = "settings"
    /\ UNCHANGED <<device, dataOut, overflowBuffer, discontinuityAfterBlock, iqDataOut,
                   post, inputs, pre>>

\* The thread is stopped, which abandons the block being read and flushes the queue,
\* and started again: init goes through a change of rate.
Restart(channels, lost) ==
    /\ Passes(lost)
    /\ numChannels' = channels
    /\ iqDataOut' = << >>
    /\ pendingDiscontinuity' = TRUE
    /\ StartRead(<< >>)
    /\ UNCHANGED <<nextSequence, post, inputs, pre>>

-----------------------------------------------------------------------------
\* Does the block not follow the one whose sequence number was last?
Gap(block, last) ==
    block.discontinuity \/ (last # NoSequence /\ block.sequence # last + 1)

-----------------------------------------------------------------------------
(* SDRPostThread, one block.  Which demodulators run changes with the      *)
(* frequency and with what the user does: run is any set of them, and      *)
(* served those in it that the block is for.  refresh: doRefresh is set or *)
(* the block's sample rate is not the last one's.  setSampleRate changes   *)
(* that label at once, also for a block half read, and the channel count   *)
(* only follows with the device: a new rate may come without a new count,  *)
(* and a new count with a rate already seen.                               *)

InputGap(block) == Gap(block, lastInputSequence)

\* try_push to each input queue.
Distribute(served, data, discontinuity, sequence) ==
    inputs' = [d \in Demods |->
        IF d \in served /\ Len(inputs[d]) < InputMax
        THEN Append(inputs[d], [data |-> data, discontinuity |-> discontinuity,
                                sequence |-> sequence])
        ELSE inputs[d]]

PopBlock ==
    /\ iqDataOut # << >>
    /\ iqDataOut' = Tail(iqDataOut)
    /\ lastInputSequence' = Head(iqDataOut).sequence

RunSingleCH(refresh, served) ==
    /\ PopBlock
    /\ LET block == Head(iqDataOut) IN
        /\ block.numChannels = 1
        /\ postChannels' = IF refresh THEN 1 ELSE postChannels
        /\ Distribute(served, block.data, InputGap(block), block.sequence)
    /\ UNCHANGED <<device, reader, lastChanMode, channelizerInput,
                   pendingChannelizerDiscontinuity, pre>>

\* Whole groups go through the channelizer: numChannels samples each for runPFBCH
\* (mode 1), half as many for runPFBCH2 (mode 2).
RunChannelizer(mode, refreshed, kept, run, served) ==
    LET block == Head(iqDataOut)
        group == block.numChannels \div mode
        input == kept \o block.data
        inputSize == (Len(input) \div group) * group
        pending == pendingChannelizerDiscontinuity \/ InputGap(block) \/ refreshed
        runs == run # {} /\ inputSize # 0 IN
    /\ block.numChannels > 1
    /\ postChannels' = block.numChannels /\ lastChanMode' = mode
    /\ channelizerInput' = Drop(input, inputSize)
    /\ pendingChannelizerDiscontinuity' = (pending /\ ~runs)
    /\ Distribute(IF runs THEN served ELSE {}, Take(input, inputSize), pending, block.sequence)

Refreshed(refresh, mode) ==
    refresh \/ postChannels # Head(iqDataOut).numChannels \/ lastChanMode # mode

\* Mutant: a gap in the input leaves the channelizer's samples where they are.
RunPFBCHJoins(mode, refresh, run, served) ==
    /\ PopBlock
    /\ LET refreshed == Refreshed(refresh, mode) IN
        RunChannelizer(mode, refreshed, IF refreshed THEN << >> ELSE channelizerInput,
                       run, served)
    /\ UNCHANGED <<device, reader, pre>>

RunPFBCH(mode, refresh, run, served) ==
    /\ PopBlock
    /\ LET refreshed == Refreshed(refresh, mode)
           cleared == refreshed \/ InputGap(Head(iqDataOut)) IN
        RunChannelizer(mode, refreshed, IF cleared THEN << >> ELSE channelizerInput,
                       run, served)
    /\ UNCHANGED <<device, reader, pre>>

-----------------------------------------------------------------------------
(* The demodulators.                                                       *)

\* resetAllDemodulators.
FlushInput(d) ==
    /\ inputs[d] # << >>
    /\ inputs' = [inputs EXCEPT ![d] = << >>]
    /\ UNCHANGED <<device, reader, iqDataOut, post, pre>>

\* Mutant: only the block's own flag is looked at.
PopInputByFlag(d) ==
    /\ inputs[d] # << >>
    /\ LET block == Head(inputs[d]) IN
        pre' = [pre EXCEPT ![d] =
            [sequence |-> block.sequence, discontinuity |-> block.discontinuity,
             first |-> block.data[1], next |-> block.data[Len(block.data)] + 1]]
    /\ inputs' = [inputs EXCEPT ![d] = Tail(@)]
    /\ UNCHANGED <<device, reader, iqDataOut, post>>

\* DemodulatorPreThread pops a block.  The first and next sample are remembered for
\* the properties.
PopInput(d) ==
    /\ inputs[d] # << >>
    /\ LET block == Head(inputs[d]) IN
        pre' = [pre EXCEPT ![d] =
            [sequence |-> block.sequence,
             discontinuity |-> Gap(block, pre[d].sequence),
             first |-> block.data[1], next |-> block.data[Len(block.data)] + 1]]
    /\ inputs' = [inputs EXCEPT ![d] = Tail(@)]
    /\ UNCHANGED <<device, reader, iqDataOut, post>>

-----------------------------------------------------------------------------
Reader ==
    \/ ReadStream
    \/ \E channels \in ChannelCounts, lost \in 1 .. MaxLoss : ChangeRate(channels, lost) \/ Restart(channels, lost)
    \/ \E n \in 1 .. Mtu : Read(n)
    \/ ReadNothing
    \/ \E lost \in 1 .. MaxLoss : ReadFails(lost)
    \/ BlockRead \/ PushNothing \/ Push \/ PushDrops

Post ==
    \E refresh \in BOOLEAN, run \in SUBSET Demods : \E served \in SUBSET run :
        \/ RunSingleCH(refresh, served)
        \/ \E mode \in {1, 2} : RunPFBCH(mode, refresh, run, served)

Next == Reader \/ Post \/ \E d \in Demods : FlushInput(d) \/ PopInput(d)

Spec == Init /\ [][Next]_vars

-----------------------------------------------------------------------------
(* Properties.                                                             *)

Positions == 0 .. MaxPosition - 1
SampleSeqs == Seq(Positions) \ {<< >>}
Blocks == [data : SampleSeqs, discontinuity : BOOLEAN, sequence : Nat]
InputBlocks ==
    [data : SampleSeqs, numChannels : ChannelCounts, discontinuity : BOOLEAN, sequence : Nat]

\* Every variable keeps its type, and the buffers their bounds: the queues what they
\* were made for, the overflow buffer less than a chunk, the channelizer's input less
\* than a group.
TypeOK ==
    /\ position \in 0 .. MaxPosition /\ numChannels \in ChannelCounts
    /\ step \in {"settings", "read", "push"}
    /\ dataOut \in Seq(Positions) /\ Len(dataOut) <= NumElems
    /\ overflowBuffer \in Seq(Positions) /\ Len(overflowBuffer) < Mtu
    /\ {discontinuityAfterBlock, pendingDiscontinuity,
        pendingChannelizerDiscontinuity} \subseteq BOOLEAN
    /\ nextSequence \in Nat
    /\ iqDataOut \in Seq(InputBlocks) /\ Len(iqDataOut) <= QueueMax
    /\ postChannels \in ChannelCounts \cup {0} /\ lastChanMode \in 0 .. 2
    /\ lastInputSequence \in Seqs
    /\ channelizerInput \in Seq(Positions)
    /\ channelizerInput # << >> => \E n \in ChannelCounts : Len(channelizerInput) < n
    /\ inputs \in [Demods -> Seq(Blocks)] /\ \A d \in Demods : Len(inputs[d]) <= InputMax
    /\ pre \in [Demods -> [sequence : Seqs, next : Nat, first : Nat, discontinuity : BOOLEAN]]

Contiguous(samples) ==
    \A i \in 1 .. Len(samples) - 1 : samples[i + 1] = samples[i] + 1

\* No block, and none of the buffers in which samples of two reads or of two blocks
\* meet (dataOut and overflowBuffer of readStream, channelizerInput), ever holds the
\* samples from both sides of a gap next to each other: a filter runs over a block
\* without looking, so such a join would be an audible step nothing can repair.
BlocksAreContiguous ==
    /\ Contiguous(dataOut) /\ Contiguous(overflowBuffer) /\ Contiguous(channelizerInput)
    /\ \A i \in DOMAIN iqDataOut : Contiguous(iqDataOut[i].data)
    /\ \A d \in Demods : \A i \in DOMAIN inputs[d] : Contiguous(inputs[d][i].data)

Popped(d) == pre'[d] # pre[d]

\* Whatever was lost on the way, in the device, at any of the queues, in the channelizer
\* or to a flush: when the block a demodulator takes does not start where the one before
\* ended, the demodulator knows, from the block's flag or from its sequence number; and it
\* never gets a sample twice or an older one after a newer one, across overflow, restart
\* and change of rate.
IntactOrTold ==
    [][\A d \in Demods : Popped(d) =>
          /\ pre'[d].first >= pre[d].next
          /\ pre[d].sequence # NoSequence /\ pre'[d].first # pre[d].next
                => pre'[d].discontinuity]_vars
=============================================================================
