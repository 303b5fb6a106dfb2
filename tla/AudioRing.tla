------------------------------ MODULE AudioRing ------------------------------
(***************************************************************************)
(* AudioStereoRing (src/audio/AudioMixer.cpp): the lock-free ring between  *)
(* an AudioThread, which resamples and queues demodulated audio, and the   *)
(* sound card's callback, which plays it.                                  *)
(*                                                                         *)
(* There is one producer at a time (AudioMixState's producerMutex is held  *)
(* by queue() and clear(), whichever threads call them) and one consumer   *)
(* (the audio callback).  Neither waits for the other: each operation is a *)
(* few loads and stores of three atomic positions, and an action here is   *)
(* one of those accesses together with the thread-local work around it.    *)
(*                                                                         *)
(* A slot holds the serial number of the frame last written to it, which   *)
(* is the position it was written at; both channels are one frame.         *)
(* Positions are size_t counters that never wrap in 64 bits.               *)
(***************************************************************************)
EXTENDS Integers, Sequences

CONSTANTS
    Capacity,    \* capacityFrames
    MaxRequest,  \* the largest block the consumer asks for
    MaxFrames    \* frames ever pushed: the bound of the model

ASSUME RingAssumption ==
    /\ Capacity \in Nat \ {0}
    /\ MaxRequest \in Nat \ {0}
    /\ MaxFrames \in Nat

VARIABLES
    samples,        \* the slots
    writePosition,  \* stored by the producer
    discardBefore,  \* stored by the producer: frames below it are flushed
    readPosition,   \* stored by the consumer
    producerPc,     \* the producer's next step: idle | write | publish
    consumerPc,     \* the consumer's: idle | flush | load | copy | publish
    call,           \* the consumer's operation
    read,           \* the consumer's local variables: where it reads from,
    count,          \*   how many frames it takes,
    interleaved     \*   and the frames it has copied out

producerVars == <<samples, writePosition, discardBefore, producerPc>>
consumerVars == <<readPosition, consumerPc, call, read, count, interleaved>>
vars == <<samples, writePosition, discardBefore, readPosition, producerPc,
          consumerPc, call, read, count, interleaved>>

Empty == -1
Calls == {"pop", "popBlock", "discard", "available"}
Smaller(a, b) == IF a <= b THEN a ELSE b
Larger(a, b) == IF a >= b THEN a ELSE b
SlotOf(position) == position % Capacity

Init ==
    /\ samples = [slot \in 0 .. Capacity - 1 |-> Empty]
    /\ writePosition = 0
    /\ discardBefore = 0
    /\ readPosition = 0
    /\ producerPc = "idle"
    /\ consumerPc = "idle"
    /\ call = "available"
    /\ read = 0
    /\ count = 0
    /\ interleaved = << >>

-----------------------------------------------------------------------------
(* Producer: push and clear.                                               *)

\* Mutant: the full ring is found one frame late.
PushCheckOffByOne ==
    /\ producerPc = "idle"
    /\ writePosition < MaxFrames
    /\ writePosition - readPosition <= Capacity
    /\ producerPc' = "write"
    /\ UNCHANGED <<samples, writePosition, discardBefore, consumerVars>>

\* push up to its test for a full ring.  A full ring returns false and changes
\* nothing, so only the other outcome is an action.  writePosition is the
\* producer's own: it does not change before PushPublish.
PushCheck ==
    /\ producerPc = "idle"
    /\ writePosition < MaxFrames
    /\ writePosition - readPosition < Capacity
    /\ producerPc' = "write"
    /\ UNCHANGED <<samples, writePosition, discardBefore, consumerVars>>

PushWrite ==
    /\ producerPc = "write"
    /\ samples' = [samples EXCEPT ![SlotOf(writePosition)] = writePosition]
    /\ producerPc' = "publish"
    /\ UNCHANGED <<writePosition, discardBefore, consumerVars>>

PushPublish ==
    /\ producerPc = "publish"
    /\ writePosition' = writePosition + 1
    /\ producerPc' = "idle"
    /\ UNCHANGED <<samples, discardBefore, consumerVars>>

\* Mutant: the boundary includes the frame that will be pushed next.
ClearPastEnd ==
    /\ producerPc = "idle"
    /\ discardBefore' = writePosition + 1
    /\ UNCHANGED <<samples, writePosition, producerPc, consumerVars>>

Clear ==
    /\ producerPc = "idle"
    /\ discardBefore' = writePosition
    /\ UNCHANGED <<samples, writePosition, producerPc, consumerVars>>

-----------------------------------------------------------------------------
(* Consumer: pop of one frame, pop of a block, discard and available all   *)
(* load the flush boundary, then the write position, and end by storing    *)
(* readPosition.  pop of one frame and available also store it at once     *)
(* when the boundary moves it.                                             *)

AppliesFlushFirst(c) == c \in {"pop", "available"}

BeginCall(c) ==
    /\ consumerPc = "idle"
    /\ call' = c
    /\ read' = Larger(readPosition, discardBefore)
    /\ consumerPc' = IF AppliesFlushFirst(c) /\ readPosition < discardBefore
                     THEN "flush" ELSE "load"
    /\ count' = 0
    /\ interleaved' = << >>
    /\ UNCHANGED <<readPosition, producerVars>>

StoreFlush ==
    /\ consumerPc = "flush"
    /\ readPosition' = read
    /\ consumerPc' = "load"
    /\ UNCHANGED <<call, read, count, interleaved, producerVars>>

\* Mutant: the request is not cut to what the ring holds.
LoadWriteUnclamped(frames) ==
    /\ consumerPc = "load"
    /\ call \in {"popBlock", "discard"}
    /\ count' = frames
    /\ consumerPc' = IF call = "discard" \/ count' = 0 THEN "publish" ELSE "copy"
    /\ UNCHANGED <<readPosition, call, read, interleaved, producerVars>>

\* The block operations take min(frames, write - read); the argument frames is
\* first used here, so it is chosen here.
LoadWrite(frames) ==
    /\ consumerPc = "load"
    /\ call \in {"popBlock", "discard"}
    /\ count' = Smaller(frames, writePosition - read)
    /\ consumerPc' = IF call = "discard" \/ count' = 0 THEN "publish" ELSE "copy"
    /\ UNCHANGED <<readPosition, call, read, interleaved, producerVars>>

LoadWriteForOne ==
    /\ consumerPc = "load"
    /\ call = "pop"
    /\ read # writePosition
    /\ count' = 1
    /\ consumerPc' = "copy"
    /\ UNCHANGED <<readPosition, call, read, interleaved, producerVars>>

\* pop of one frame from an empty ring returns false; available returns the
\* difference of the positions.
ReturnWithoutTaking ==
    /\ consumerPc = "load"
    /\ \/ call = "available"
       \/ call = "pop" /\ read = writePosition
    /\ consumerPc' = "idle"
    /\ UNCHANGED <<readPosition, call, read, count, interleaved, producerVars>>

\* memcpy, a frame at a time: the producer may run between two frames.
CopyFrame ==
    /\ consumerPc = "copy"
    /\ interleaved' = Append(interleaved, samples[SlotOf(read + Len(interleaved))])
    /\ consumerPc' = IF Len(interleaved) + 1 = count THEN "publish" ELSE "copy"
    /\ UNCHANGED <<readPosition, call, read, count, producerVars>>

\* Mutant: the position is advanced by the frames taken, and the flushed ones
\* below them stay.
PublishFromOldPosition ==
    /\ consumerPc = "publish"
    /\ readPosition' = readPosition + count
    /\ consumerPc' = "idle"
    /\ UNCHANGED <<call, read, count, interleaved, producerVars>>

Publish ==
    /\ consumerPc = "publish"
    /\ readPosition' = read + count
    /\ consumerPc' = "idle"
    /\ UNCHANGED <<call, read, count, interleaved, producerVars>>

-----------------------------------------------------------------------------
Producer == PushCheck \/ PushWrite \/ PushPublish \/ Clear

Consumer ==
    \/ \E c \in Calls : BeginCall(c)
    \/ StoreFlush
    \/ \E frames \in 1 .. MaxRequest : LoadWrite(frames)
    \/ LoadWriteForOne
    \/ ReturnWithoutTaking
    \/ CopyFrame
    \/ Publish

Next == Producer \/ Consumer

Spec == Init /\ [][Next]_vars

-----------------------------------------------------------------------------
TypeOK ==
    /\ samples \in [0 .. Capacity - 1 -> Nat \cup {Empty}]
    /\ writePosition \in Nat
    /\ discardBefore \in Nat
    /\ readPosition \in Nat
    /\ producerPc \in {"idle", "write", "publish"}
    /\ consumerPc \in {"idle", "flush", "load", "copy", "publish"}
    /\ call \in Calls
    /\ read \in Nat
    /\ count \in 0 .. Capacity
    /\ interleaved \in Seq(Nat)

\* The producer never writes a slot the consumer is still to copy, so the plain
\* (non-atomic) accesses to samples in push and pop are no data race.
NoDataRace ==
    producerPc = "write" /\ consumerPc = "copy" =>
        \A i \in Len(interleaved) .. count - 1 :
            SlotOf(writePosition) # SlotOf(read + i)

\* The unsigned differences of positions that push, pop, discard and available
\* compute are the true ones: none is below zero, and none exceeds the capacity.
\* This rests on the order of the consumer's loads, boundary before write position.
NoUnderflow ==
    /\ writePosition - readPosition \in 0 .. Capacity
    /\ consumerPc = "load" => writePosition - read \in 0 .. Capacity

\* The frames a call has copied are those pushed at the positions it took, each
\* whole and in order: never a frame from an earlier or a later lap of the ring.
CopiedFramesAreCurrent ==
    \A i \in 1 .. Len(interleaved) : interleaved[i] = read + i - 1

\* The ring implements FrameQueue: interleaved with pushes and flushes in any
\* way, its loads and stores add up to a queue with a deferred flush.
Held == [i \in 1 .. writePosition - readPosition |->
            samples[SlotOf(readPosition + i - 1)]]

Stage ==
    CASE consumerPc = "idle" -> "idle"
      [] consumerPc \in {"flush", "load"} -> "open"
      [] OTHER -> "committed"

Queue == INSTANCE FrameQueue WITH
    queue <- Held,
    putCount <- writePosition,
    stale <- Larger(discardBefore - readPosition, 0),
    call <- [stage |-> Stage,
             drop |-> IF consumerPc = "idle" THEN 0 ELSE read - readPosition,
             take |-> IF Stage = "committed" THEN count ELSE 0],
    delivered <- IF consumerPc = "idle" THEN interleaved ELSE << >>

ImplementsFrameQueue == Queue!Spec
=============================================================================
