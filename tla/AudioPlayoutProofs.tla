-------------------------- MODULE AudioPlayoutProofs --------------------------
(***************************************************************************)
(* Theorems about AudioPlayout for all sizes of the ring, of callbacks and *)
(* of margins.                                                             *)
(***************************************************************************)
EXTENDS AudioPlayout, TLAPS

-----------------------------------------------------------------------------
\* A ring call takes no more stale frames than there are.
Opened == {"available", "discard", "prime", "play"}
DropIsThere == step \in Opened => drop <= ring

\* render has a margin, no fewer frames than it counted, and a cushion to prime the
\* history from.
RenderIsReady ==
    /\ step # "idle" => margin # 0
    /\ step = "test" => fill <= ring
    /\ step \in {"skip", "discard", "start", "startPlayout", "prime"} => fill >= PrimeFrames

\* How far render can be in its first callback since playout started, and in the second.
FirstSteps ==
    {"skip", "discard", "start", "startPlayout", "prime", "primed", "stats", "chunk", "play", "idle"}
SecondSteps == {"fill", "available", "test", "stats", "chunk", "play", "idle"}

\* The rate is not trimmed before the second callback asks for its frames.
TrimIsLate ==
    /\ early = 1 =>
        /\ step \in FirstSteps
        /\ step \in {"primed", "stats", "chunk", "play", "idle"} => trim = 0
        /\ step \in {"primed", "stats"} => windowCount = 0
        /\ step \in {"chunk", "play"} => want = Frames
        /\ step \in {"startPlayout", "prime"} => want = PrimeFrames
    /\ early = 2 =>
        /\ step \in SecondSteps
        /\ step \in {"fill", "available", "test", "stats"} => trim = 0

\* While nobody clears, the cushion covers priming and two callbacks, then what is left of them.
CushionLasts ==
    early > 0 /\ ~cleared =>
        /\ stale = 0
        /\ step \in Opened => drop = 0
        /\ early = 1 =>
            /\ step \in {"skip", "discard"} => ring >= want + fill
            /\ step \in {"start", "startPlayout", "prime"} => ring >= fill
            /\ step \in {"skip", "discard", "start", "startPlayout", "prime"}
                    => fill >= 2 * Frames + PrimeFrames
            /\ step \in {"primed", "stats", "chunk", "play"} => ring >= 2 * Frames
            /\ step = "idle" => ring >= Frames
        /\ early = 2 =>
            /\ step \in {"fill", "available"} => ring >= Frames
            /\ step \in {"test", "stats"} => ring >= fill /\ fill >= Frames
            /\ step \in {"chunk", "play"} => ring >= want

IInv == TypeOK /\ DropIsThere /\ RenderIsReady /\ TrimIsLate /\ CushionLasts
-----------------------------------------------------------------------------
(* Sizes.                                                                  *)

LEMMA Sizes ==
    /\ Capacity \in Nat /\ Block \in Nat /\ PrimeFrames \in Nat /\ MinStartup \in Nat
    /\ MarginStep \in Nat /\ MarginCap \in Nat /\ MarginDecay \in Nat /\ CatchUp \in Nat
    /\ JitterGap \in Nat /\ StartExcess \in Nat /\ StartShortfall \in Nat /\ StopExcess \in Nat
    /\ Frames \in Nat /\ Frames >= 1 /\ Window \in Nat /\ Window >= 2
    /\ DefaultMargin \in Nat /\ DefaultMargin >= 1 /\ DefaultMargin <= MarginCap
  BY PlayoutAssumption

\* Every cushion fits the ring, and covers priming and two callbacks.
LEMMA StartupBounds ==
    ASSUME NEW m \in Nat, m <= MarginCap
    PROVE  /\ Startup(m) \in Nat /\ Startup(m) <= Capacity
           /\ Startup(m) >= 2 * Frames + PrimeFrames
  <1>1. Startup(m) \in Nat /\ Startup(m) >= 2 * Frames + PrimeFrames
    BY Sizes DEF Startup, Larger
  <1>2. Startup(m) <= Startup(MarginCap)
    BY Sizes DEF Startup, Larger
  <1>3. Startup(MarginCap) \in Nat
    BY Sizes DEF Startup, Larger
  <1>4. QED
    BY <1>1, <1>2, <1>3, Sizes, StartupFits

LEMMA RingHoldsTwo == Capacity \in Nat /\ 2 * Frames + PrimeFrames <= Capacity
  BY Sizes, StartupBounds

LEMMA Numbers ==
    ASSUME TypeOK
    PROVE  /\ ring \in Nat /\ ring <= Capacity /\ stale \in Nat /\ stale <= ring
           /\ queueing \in Nat /\ queueing <= Block
           /\ want \in Nat /\ want <= Capacity /\ drop \in Nat /\ drop <= Capacity
           /\ fill \in Nat /\ fill <= Capacity
           /\ margin \in Nat /\ margin <= MarginCap /\ (margin # 0 => margin >= DefaultMargin)
           /\ starved \in Nat /\ starved <= JitterGap
           /\ trim \in {-1, 0, 1}
           /\ windowMin \in Nat /\ windowMin <= NoMinimum
           /\ windowCount \in Nat /\ windowCount <= Window - 1
           /\ early \in {0, 1, 2} /\ cleared \in BOOLEAN
           /\ NoMinimum = Capacity + 1
  BY Sizes DEF TypeOK, NoMinimum

LEMMA Step == TypeOK => /\ step \in {"idle", "fill", "available", "test", "skip", "discard", "start",
                                      "startPlayout", "prime", "primed", "stats", "chunk", "play"}
  BY DEF TypeOK

\* The producer.
LEMMA QueueKeeps ==
    ASSUME IInv, NEW n \in 1 .. Block, Queue(n)
    PROVE  IInv'
  <1>1. TypeOK'
    BY Sizes, Numbers, Step DEF IInv, Queue, ProducerFree, ringVars, renderVars, observed, TypeOK
  <1>2. DropIsThere' /\ RenderIsReady'
    BY Sizes, Numbers, Step
       DEF IInv, Queue, ProducerFree, ringVars, renderVars, observed, DropIsThere, RenderIsReady,
           Opened
  <1>3. TrimIsLate'
    BY Sizes, Numbers, Step
       DEF IInv, Queue, ProducerFree, ringVars, renderVars, observed, TrimIsLate, FirstSteps,
           SecondSteps
  <1>4. CushionLasts'
    BY Sizes, Numbers, Step
       DEF IInv, Queue, ProducerFree, ringVars, renderVars, observed, CushionLasts, DropIsThere,
           TrimIsLate, FirstSteps, SecondSteps, Opened
  <1>5. QED
    BY <1>1, <1>2, <1>3, <1>4 DEF IInv

LEMMA PushFrameKeeps ==
    ASSUME IInv, PushFrame
    PROVE  IInv'
  <1>1. TypeOK'
    BY Sizes, Numbers, Step DEF IInv, PushFrame, renderVars, observed, TypeOK
  <1>2. DropIsThere' /\ RenderIsReady'
    BY Sizes, Numbers, Step
       DEF IInv, PushFrame, renderVars, observed, DropIsThere, RenderIsReady, Opened
  <1>3. TrimIsLate'
    BY Sizes, Numbers, Step
       DEF IInv, PushFrame, renderVars, observed, TrimIsLate, FirstSteps, SecondSteps
  <1>4. CushionLasts'
    BY Sizes, Numbers, Step
       DEF IInv, PushFrame, renderVars, observed, CushionLasts, DropIsThere, TrimIsLate,
           FirstSteps, SecondSteps, Opened
  <1>5. QED
    BY <1>1, <1>2, <1>3, <1>4 DEF IInv

\* The threads that switch and clear.
LEMMA SetActiveKeeps ==
    ASSUME IInv, SetActive
    PROVE  IInv'
  <1>1. TypeOK'
    BY Sizes, Numbers, Step DEF IInv, SetActive, ringVars, renderVars, observed, TypeOK
  <1>2. DropIsThere' /\ RenderIsReady'
    BY Sizes, Numbers, Step
       DEF IInv, SetActive, ringVars, renderVars, observed, DropIsThere, RenderIsReady, Opened
  <1>3. TrimIsLate'
    BY Sizes, Numbers, Step
       DEF IInv, SetActive, ringVars, renderVars, observed, TrimIsLate, FirstSteps, SecondSteps
  <1>4. CushionLasts'
    BY Sizes, Numbers, Step
       DEF IInv, SetActive, ringVars, renderVars, observed, CushionLasts, DropIsThere, TrimIsLate,
           FirstSteps, SecondSteps, Opened
  <1>5. QED
    BY <1>1, <1>2, <1>3, <1>4 DEF IInv

LEMMA ClearRingKeeps ==
    ASSUME IInv, ClearRing
    PROVE  IInv'
  <1>1. TypeOK'
    BY Sizes, Numbers, Step DEF IInv, ClearRing, renderVars, TypeOK
  <1>2. DropIsThere' /\ RenderIsReady'
    BY Sizes, Numbers, Step DEF IInv, ClearRing, renderVars, DropIsThere, RenderIsReady, Opened
  <1>3. TrimIsLate'
    BY Sizes, Numbers, Step DEF IInv, ClearRing, renderVars, TrimIsLate, FirstSteps, SecondSteps
  <1>4. CushionLasts'
    BY Sizes, Numbers, Step
       DEF IInv, ClearRing, renderVars, CushionLasts, DropIsThere, TrimIsLate, FirstSteps,
           SecondSteps, Opened
  <1>5. QED
    BY <1>1, <1>2, <1>3, <1>4 DEF IInv

LEMMA ClearPrimedKeeps ==
    ASSUME IInv, ClearPrimed
    PROVE  IInv'
  <1>1. TypeOK'
    BY Sizes, Numbers, Step DEF IInv, ClearPrimed, ringVars, renderVars, observed, TypeOK
  <1>2. DropIsThere' /\ RenderIsReady'
    BY Sizes, Numbers, Step
       DEF IInv, ClearPrimed, ringVars, renderVars, observed, DropIsThere, RenderIsReady, Opened
  <1>3. TrimIsLate'
    BY Sizes, Numbers, Step
       DEF IInv, ClearPrimed, ringVars, renderVars, observed, TrimIsLate, FirstSteps, SecondSteps
  <1>4. CushionLasts'
    BY Sizes, Numbers, Step
       DEF IInv, ClearPrimed, ringVars, renderVars, observed, CushionLasts, DropIsThere,
           TrimIsLate, FirstSteps, SecondSteps, Opened
  <1>5. QED
    BY <1>1, <1>2, <1>3, <1>4 DEF IInv

\* The callback.
LEMMA RenderBeginKeeps ==
    ASSUME IInv, RenderBegin
    PROVE  IInv'
  <1>1. TypeOK'
    BY Sizes, Numbers, Step DEF IInv, RenderBegin, Smaller, ringVars, controlVars, TypeOK
  <1>2. DropIsThere' /\ RenderIsReady'
    BY Sizes, Numbers, Step
       DEF IInv, RenderBegin, Smaller, ringVars, controlVars, DropIsThere, RenderIsReady, Opened
  <1>3. TrimIsLate'
    BY Sizes, Numbers, Step
       DEF IInv, RenderBegin, Smaller, ringVars, controlVars, TrimIsLate, FirstSteps, SecondSteps
  <1>4. CushionLasts'
    BY Sizes, Numbers, Step
       DEF IInv, RenderBegin, Smaller, ringVars, controlVars, CushionLasts, DropIsThere,
           TrimIsLate, FirstSteps, SecondSteps, Opened
  <1>5. QED
    BY <1>1, <1>2, <1>3, <1>4 DEF IInv

LEMMA OpenAvailableKeeps ==
    ASSUME IInv, OpenAvailable
    PROVE  IInv'
  <1>1. TypeOK'
    BY Sizes, Numbers, Step
       DEF IInv, OpenAvailable, OpenRing, ringVars, controlVars, observed, TypeOK
  <1>2. DropIsThere' /\ RenderIsReady'
    BY Sizes, Numbers, Step
       DEF IInv, OpenAvailable, OpenRing, ringVars, controlVars, observed, DropIsThere,
           RenderIsReady, Opened
  <1>3. TrimIsLate'
    BY Sizes, Numbers, Step
       DEF IInv, OpenAvailable, OpenRing, ringVars, controlVars, observed, TrimIsLate, FirstSteps,
           SecondSteps
  <1>4. CushionLasts'
    BY Sizes, Numbers, Step
       DEF IInv, OpenAvailable, OpenRing, ringVars, controlVars, observed, CushionLasts,
           DropIsThere, TrimIsLate, FirstSteps, SecondSteps, Opened
  <1>5. QED
    BY <1>1, <1>2, <1>3, <1>4 DEF IInv

LEMMA AvailableKeeps ==
    ASSUME IInv, Available
    PROVE  IInv'
  <1>1. TypeOK'
    BY Sizes, Numbers, Step
       DEF IInv, Available, Larger, controlVars, observed, TypeOK, DropIsThere, Opened
  <1>2. DropIsThere' /\ RenderIsReady'
    BY Sizes, Numbers, Step
       DEF IInv, Available, Larger, controlVars, observed, DropIsThere, RenderIsReady, Opened
  <1>3. TrimIsLate'
    BY Sizes, Numbers, Step
       DEF IInv, Available, Larger, controlVars, observed, TrimIsLate, FirstSteps, SecondSteps
  <1>4. CushionLasts'
    BY Sizes, Numbers, Step
       DEF IInv, Available, Larger, controlVars, observed, CushionLasts, DropIsThere, TrimIsLate,
           FirstSteps, SecondSteps, Opened
  <1>5. QED
    BY <1>1, <1>2, <1>3, <1>4 DEF IInv

LEMMA StillPlayingKeeps ==
    ASSUME IInv, StillPlaying
    PROVE  IInv'
  <1>1. TypeOK'
    BY Sizes, Numbers, Step
       DEF IInv, StillPlaying, ringVars, controlVars, renderVars, observed, TypeOK
  <1>2. DropIsThere' /\ RenderIsReady'
    BY Sizes, Numbers, Step
       DEF IInv, StillPlaying, ringVars, controlVars, renderVars, observed, DropIsThere,
           RenderIsReady, Opened
  <1>3. TrimIsLate'
    BY Sizes, Numbers, Step
       DEF IInv, StillPlaying, ringVars, controlVars, renderVars, observed, TrimIsLate, FirstSteps,
           SecondSteps
  <1>4. CushionLasts'
    BY Sizes, Numbers, Step
       DEF IInv, StillPlaying, ringVars, controlVars, renderVars, observed, CushionLasts,
           DropIsThere, TrimIsLate, FirstSteps, SecondSteps, Opened
  <1>5. QED
    BY <1>1, <1>2, <1>3, <1>4 DEF IInv

LEMMA WaitForCushionKeeps ==
    ASSUME IInv, WaitForCushion
    PROVE  IInv'
  <1>1. TypeOK'
    BY Sizes, Numbers, Step
       DEF IInv, WaitForCushion, Return, ringVars, controlVars, observed, TypeOK
  <1>2. DropIsThere' /\ RenderIsReady'
    BY Sizes, Numbers, Step
       DEF IInv, WaitForCushion, Return, ringVars, controlVars, observed, DropIsThere,
           RenderIsReady, Opened
  <1>3. TrimIsLate'
    BY Sizes, Numbers, Step
       DEF IInv, WaitForCushion, Return, ringVars, controlVars, observed, TrimIsLate, FirstSteps,
           SecondSteps
  <1>4. CushionLasts'
    BY Sizes, Numbers, Step
       DEF IInv, WaitForCushion, Return, ringVars, controlVars, observed, CushionLasts,
           DropIsThere, TrimIsLate, FirstSteps, SecondSteps, Opened
  <1>5. QED
    BY <1>1, <1>2, <1>3, <1>4 DEF IInv

LEMMA StartKeeps ==
    ASSUME IInv, Start
    PROVE  IInv'
  <1>1. /\ Startup(margin) \in Nat /\ Startup(margin) >= 2 * Frames + PrimeFrames
        /\ Startup(margin) <= fill
    BY StartupBounds, Numbers DEF IInv, Start
  <1> DEFINE startup == Startup(margin)
  <1>2. /\ step = "test" /\ step' \in {"skip", "start"} /\ early' = 1 /\ cleared' = (stale > 0)
        /\ \/ step' = "skip" /\ want' = fill - startup /\ fill' = startup
           \/ step' = "start" /\ want' = 0 /\ fill' = fill
        /\ UNCHANGED <<ringVars, controlVars, primed, drop, margin, starving, starved,
                       correcting, trim, windowMin, windowCount, history>>
    BY DEF Start
  <1> HIDE DEF startup
  <1>3. startup \in Nat /\ startup >= 2 * Frames + PrimeFrames /\ startup <= fill
    BY <1>1 DEF startup
  <1>4. fill <= ring /\ margin # 0
    BY <1>2 DEF IInv, RenderIsReady
  <1>5. want' \in 0 .. Capacity /\ fill' \in 0 .. Capacity
    BY <1>2, <1>3, Numbers, Sizes DEF IInv
  <1>6. TypeOK'
    BY <1>2, <1>5 DEF IInv, TypeOK, ringVars, controlVars
  <1>7. DropIsThere' /\ RenderIsReady'
    BY <1>2, <1>3, <1>4, Numbers, Sizes DEF IInv, DropIsThere, RenderIsReady, Opened
  <1>8. TrimIsLate'
    BY <1>2 DEF TrimIsLate, FirstSteps
  <1>9. CushionLasts'
    <2>1. early' = 1 /\ (~cleared' => stale = 0) /\ UNCHANGED <<ring, stale>>
      <3>1. ~cleared' => stale = 0
        <4>1. stale \in Nat
          BY Numbers DEF IInv
        <4>2. (stale > 0) => cleared'
          BY <1>2
        <4>3. QED
          BY <4>1, <4>2
      <3>2. early' = 1 /\ UNCHANGED <<ring, stale>>
        BY <1>2 DEF ringVars
      <3>3. QED
        BY <3>1, <3>2
    <2>2. step' = "skip" => ring' >= want' + fill'
      BY <1>2, <1>3, <1>4, <2>1, Numbers DEF IInv
    <2>3. (step' = "start" => ring' >= fill') /\ fill' >= 2 * Frames + PrimeFrames
      <3>1. fill \in Nat /\ 2 * Frames + PrimeFrames \in Nat
        BY Numbers, Sizes DEF IInv
      <3>2. fill' = startup \/ fill' = fill
        BY <1>2
      <3>3. QED
        BY <1>2, <1>3, <1>4, <2>1, <3>1, <3>2
    <2>4. step' \in {"skip", "start"}
      BY <1>2
    <2>5. QED
      BY <2>1, <2>2, <2>3, <2>4 DEF CushionLasts, Opened
  <1>10. QED
    BY <1>6, <1>7, <1>8, <1>9 DEF IInv

LEMMA OpenSkipKeeps ==
    ASSUME IInv, OpenSkip
    PROVE  IInv'
  <1>1. TypeOK'
    BY Sizes, Numbers, Step DEF IInv, OpenSkip, OpenRing, ringVars, controlVars, observed, TypeOK
  <1>2. DropIsThere' /\ RenderIsReady'
    BY Sizes, Numbers, Step
       DEF IInv, OpenSkip, OpenRing, ringVars, controlVars, observed, DropIsThere, RenderIsReady,
           Opened
  <1>3. TrimIsLate'
    BY Sizes, Numbers, Step
       DEF IInv, OpenSkip, OpenRing, ringVars, controlVars, observed, TrimIsLate, FirstSteps,
           SecondSteps
  <1>4. CushionLasts'
    BY Sizes, Numbers, Step
       DEF IInv, OpenSkip, OpenRing, ringVars, controlVars, observed, CushionLasts, DropIsThere,
           TrimIsLate, FirstSteps, SecondSteps, Opened
  <1>5. QED
    BY <1>1, <1>2, <1>3, <1>4 DEF IInv

LEMMA DiscardKeeps ==
    ASSUME IInv, Discard
    PROVE  IInv'
  <1>1. TypeOK'
    BY Sizes, Numbers, Step
       DEF IInv, Discard, TakeFrames, Took, Smaller, Larger, controlVars, renderVars, observed,
           TypeOK, DropIsThere, Opened
  <1>2. DropIsThere' /\ RenderIsReady'
    BY Sizes, Numbers, Step
       DEF IInv, Discard, TakeFrames, Took, Smaller, Larger, controlVars, renderVars, observed,
           DropIsThere, RenderIsReady, Opened
  <1>3. TrimIsLate'
    BY Sizes, Numbers, Step
       DEF IInv, Discard, TakeFrames, Took, Smaller, Larger, controlVars, renderVars, observed,
           TrimIsLate, FirstSteps, SecondSteps
  <1>4. CushionLasts'
    BY Sizes, Numbers, Step
       DEF IInv, Discard, TakeFrames, Took, Smaller, Larger, controlVars, renderVars, observed,
           CushionLasts, DropIsThere, TrimIsLate, FirstSteps, SecondSteps, Opened
  <1>5. QED
    BY <1>1, <1>2, <1>3, <1>4 DEF IInv

LEMMA CountDropoutKeeps ==
    ASSUME IInv, CountDropout
    PROVE  IInv'
  <1>1. TypeOK'
    <2>1. margin' \in DefaultMargin .. MarginCap
      <3>1. margin \in Nat /\ margin >= DefaultMargin /\ margin <= MarginCap
        BY Numbers DEF IInv, RenderIsReady, CountDropout
      <3>2. margin' = margin \/ margin' = Smaller(margin + MarginStep, MarginCap)
        BY DEF CountDropout
      <3>3. QED
        BY <3>1, <3>2, Sizes DEF Smaller
    <2>2. want' \in 0 .. Capacity /\ 0 \in 0 .. JitterGap
      BY Sizes, RingHoldsTwo DEF CountDropout
    <2>3. QED
      BY <2>1, <2>2 DEF IInv, TypeOK, CountDropout, ringVars, controlVars
  <1>2. DropIsThere' /\ RenderIsReady'
    BY Sizes, Numbers, Step
       DEF IInv, CountDropout, Smaller, ringVars, controlVars, DropIsThere, RenderIsReady, Opened
  <1>3. TrimIsLate'
    BY Sizes, Numbers, Step
       DEF IInv, CountDropout, Smaller, ringVars, controlVars, TrimIsLate, FirstSteps, SecondSteps
  <1>4. CushionLasts'
    BY Sizes, Numbers, Step
       DEF IInv, CountDropout, Smaller, ringVars, controlVars, CushionLasts, DropIsThere,
           TrimIsLate, FirstSteps, SecondSteps, Opened
  <1>5. QED
    BY <1>1, <1>2, <1>3, <1>4 DEF IInv

LEMMA OpenPrimeKeeps ==
    ASSUME IInv, OpenPrime
    PROVE  IInv'
  <1>1. TypeOK'
    BY Sizes, Numbers, Step DEF IInv, OpenPrime, OpenRing, ringVars, controlVars, observed, TypeOK
  <1>2. DropIsThere' /\ RenderIsReady'
    BY Sizes, Numbers, Step
       DEF IInv, OpenPrime, OpenRing, ringVars, controlVars, observed, DropIsThere, RenderIsReady,
           Opened
  <1>3. TrimIsLate'
    BY Sizes, Numbers, Step
       DEF IInv, OpenPrime, OpenRing, ringVars, controlVars, observed, TrimIsLate, FirstSteps,
           SecondSteps
  <1>4. CushionLasts'
    BY Sizes, Numbers, Step
       DEF IInv, OpenPrime, OpenRing, ringVars, controlVars, observed, CushionLasts, DropIsThere,
           TrimIsLate, FirstSteps, SecondSteps, Opened
  <1>5. QED
    BY <1>1, <1>2, <1>3, <1>4 DEF IInv

LEMMA PrimeKeeps ==
    ASSUME IInv, Prime
    PROVE  IInv'
  <1>1. TypeOK'
    <2>1. Took \in Nat /\ Took <= ring - drop /\ drop <= ring
      BY Numbers DEF IInv, Prime, Took, Smaller, DropIsThere, Opened
    <2>2. /\ ring' = ring - drop - Took
          /\ stale' = Larger(stale - drop - Took, 0)
      BY DEF Prime, TakeFrames
    <2>3. ring' \in 0 .. Capacity /\ stale' \in 0 .. ring'
      <3>1. ring' \in Nat /\ ring' <= Capacity
        BY <2>1, <2>2, Numbers, Sizes DEF IInv
      <3>2. stale' \in Nat /\ stale' <= ring'
        BY <2>1, <2>2, Numbers DEF IInv, Larger
      <3>3. QED
        BY <3>1, <3>2, Sizes
    <2>4. fill' \in 0 .. Capacity
      BY Numbers, Sizes DEF IInv, Prime, RenderIsReady
    <2>5. windowMin' \in 0 .. NoMinimum /\ windowCount' \in 0 .. Window - 1
      BY Sizes DEF Prime, NoMinimum
    <2>6. QED
      <3>1. /\ UNCHANGED <<active, queueing, control, primed, want, drop, margin, starving,
                           starved, early, cleared>>
            /\ correcting' = FALSE /\ trim' = 0 /\ step' = "primed"
            /\ history' \in {"frames", "garbage"}
        BY DEF Prime, controlVars, observed
      <3>2. 0 \in -1 .. 1
        OBVIOUS
      <3>3. QED
        BY <2>3, <2>4, <2>5, <3>1, <3>2 DEF IInv, TypeOK
  <1>2. DropIsThere' /\ RenderIsReady'
    BY Sizes, Numbers, Step
       DEF IInv, Prime, TakeFrames, Took, Smaller, Larger, controlVars, observed, DropIsThere,
           RenderIsReady, Opened
  <1>3. TrimIsLate'
    BY Sizes, Numbers, Step
       DEF IInv, Prime, TakeFrames, Took, Smaller, Larger, controlVars, observed, TrimIsLate,
           FirstSteps, SecondSteps
  <1>4. CushionLasts'
    BY Sizes, Numbers, Step
       DEF IInv, Prime, TakeFrames, Took, Smaller, Larger, controlVars, observed, CushionLasts,
           DropIsThere, TrimIsLate, FirstSteps, SecondSteps, Opened
  <1>5. QED
    BY <1>1, <1>2, <1>3, <1>4 DEF IInv

LEMMA StorePrimedKeeps ==
    ASSUME IInv, StorePrimed
    PROVE  IInv'
  <1>1. TypeOK'
    BY Sizes, Numbers, Step
       DEF IInv, StorePrimed, ringVars, controlVars, renderVars, observed, TypeOK
  <1>2. DropIsThere' /\ RenderIsReady'
    BY Sizes, Numbers, Step
       DEF IInv, StorePrimed, ringVars, controlVars, renderVars, observed, DropIsThere,
           RenderIsReady, Opened
  <1>3. TrimIsLate'
    BY Sizes, Numbers, Step
       DEF IInv, StorePrimed, ringVars, controlVars, renderVars, observed, TrimIsLate, FirstSteps,
           SecondSteps
  <1>4. CushionLasts'
    BY Sizes, Numbers, Step
       DEF IInv, StorePrimed, ringVars, controlVars, renderVars, observed, CushionLasts,
           DropIsThere, TrimIsLate, FirstSteps, SecondSteps, Opened
  <1>5. QED
    BY <1>1, <1>2, <1>3, <1>4 DEF IInv

\* Only a fill above the target is trimmed by reading faster.
LEMMA StatsAsk ==
    ASSUME IInv, Stats
    PROVE  /\ want' \in {Frames, Frames + trim'} /\ trim' \in {-1, 0, 1}
           /\ margin' \in Nat /\ margin' >= DefaultMargin /\ margin' <= MarginCap
           /\ windowMin' \in Nat /\ windowMin' <= NoMinimum
           /\ windowCount' \in Nat /\ windowCount' <= Window - 1
           /\ correcting' \in BOOLEAN
           /\ trim' = 1 => trim = 1 \/ (windowCount + 1 >= Window /\ fill > Frames)
           /\ windowCount + 1 < Window => trim' = trim
  <1>1. TypeOK /\ step = "stats" /\ margin # 0 /\ want' \in {Frames, Frames + trim'}
    BY DEF IInv, Stats, RenderIsReady
  <1>2. CASE windowCount + 1 >= Window
    <2>1. /\ correcting' = Corrects /\ trim' = IF Corrects THEN SignOf(Excess) ELSE 0
          /\ margin' = Larger(DefaultMargin, margin - MarginDecay)
          /\ windowMin' = NoMinimum /\ windowCount' = 0
      BY <1>2 DEF Stats
    <2>2. Excess \in Int /\ (Excess > 0 => fill > Frames)
      BY <1>1, Numbers, Sizes DEF Excess, Smaller
    <2>3. SignOf(Excess) \in {-1, 0, 1} /\ (SignOf(Excess) = 1 => fill > Frames)
      BY <2>2 DEF SignOf
    <2>4. Corrects \in BOOLEAN
      BY <1>1 DEF Corrects, TypeOK
    <2>5. trim' \in {-1, 0, 1} /\ (trim' = 1 => fill > Frames) /\ correcting' \in BOOLEAN
      BY <2>1, <2>3, <2>4
    <2>6. margin' \in Nat /\ margin' >= DefaultMargin /\ margin' <= MarginCap
      BY <1>1, <2>1, Numbers, Sizes DEF Larger
    <2>7. QED
      BY <1>1, <1>2, <2>1, <2>5, <2>6, Numbers, Sizes
  <1>3. CASE ~(windowCount + 1 >= Window)
    <2>1. /\ windowMin' = Smaller(windowMin, fill) /\ windowCount' = windowCount + 1
          /\ UNCHANGED <<correcting, trim, margin>>
      BY <1>3 DEF Stats
    <2>2. windowMin' \in Nat /\ windowMin' <= NoMinimum
      BY <1>1, <2>1, Numbers, Sizes DEF Smaller
    <2>3. QED
      BY <1>1, <1>3, <2>1, <2>2, Numbers, Sizes DEF TypeOK
  <1>4. QED
    BY <1>2, <1>3

LEMMA StatsKeeps ==
    ASSUME IInv, Stats
    PROVE  IInv'
  <1>1. /\ step = "stats" /\ step' = "chunk" /\ TypeOK
        /\ UNCHANGED <<ringVars, controlVars, primed, drop, fill, starving, starved, history,
                       observed>>
    BY DEF IInv, Stats
  <1>2. want' \in 0 .. Capacity
    BY StatsAsk, Sizes, RingHoldsTwo
  <1>3. TypeOK'
    BY <1>1, <1>2, StatsAsk, Sizes, Numbers DEF TypeOK, ringVars, controlVars, observed
  <1>4. DropIsThere' /\ RenderIsReady'
    BY <1>1, StatsAsk, Sizes DEF DropIsThere, RenderIsReady, Opened
  <1>5. early = 1 => trim' = 0 /\ want' = Frames
    BY StatsAsk, Sizes, <1>1 DEF IInv, TrimIsLate
  <1>6. TrimIsLate'
    BY <1>1, <1>5, Numbers DEF IInv, TrimIsLate, FirstSteps, SecondSteps, observed
  <1>7. early = 2 => want' = Frames \/ want' <= fill \/ want' < Frames
    BY StatsAsk, Sizes, Numbers, <1>1 DEF IInv, TrimIsLate
  <1>8. CushionLasts'
    <2>1. want' \in Nat
      BY <1>2, Sizes
    <2>2. QED
      BY <1>1, <1>7, <2>1, Numbers, Sizes DEF IInv, CushionLasts, Opened, ringVars, observed
  <1>9. QED
    BY <1>3, <1>4, <1>6, <1>8 DEF IInv

LEMMA OpenChunkKeeps ==
    ASSUME IInv, OpenChunk
    PROVE  IInv'
  <1>1. TypeOK'
    BY Sizes, Numbers, Step DEF IInv, OpenChunk, OpenRing, ringVars, controlVars, observed, TypeOK
  <1>2. DropIsThere' /\ RenderIsReady'
    BY Sizes, Numbers, Step
       DEF IInv, OpenChunk, OpenRing, ringVars, controlVars, observed, DropIsThere, RenderIsReady,
           Opened
  <1>3. TrimIsLate'
    BY Sizes, Numbers, Step
       DEF IInv, OpenChunk, OpenRing, ringVars, controlVars, observed, TrimIsLate, FirstSteps,
           SecondSteps
  <1>4. CushionLasts'
    BY Sizes, Numbers, Step
       DEF IInv, OpenChunk, OpenRing, ringVars, controlVars, observed, CushionLasts, DropIsThere,
           TrimIsLate, FirstSteps, SecondSteps, Opened
  <1>5. QED
    BY <1>1, <1>2, <1>3, <1>4 DEF IInv

LEMMA PlayKeeps ==
    ASSUME IInv, Play
    PROVE  IInv'
  <1>1. TypeOK'
    BY Sizes, Numbers, Step
       DEF IInv, Play, TakeFrames, Took, Smaller, Larger, Return, controlVars, observed, TypeOK,
           DropIsThere, Opened
  <1>2. DropIsThere' /\ RenderIsReady'
    BY Sizes, Numbers, Step
       DEF IInv, Play, TakeFrames, Took, Smaller, Larger, Return, controlVars, observed,
           DropIsThere, RenderIsReady, Opened
  <1>3. TrimIsLate'
    BY Sizes, Numbers, Step
       DEF IInv, Play, TakeFrames, Took, Smaller, Larger, Return, controlVars, observed,
           TrimIsLate, FirstSteps, SecondSteps
  <1>4. CushionLasts'
    BY Sizes, Numbers, Step
       DEF IInv, Play, TakeFrames, Took, Smaller, Larger, Return, controlVars, observed,
           CushionLasts, DropIsThere, TrimIsLate, FirstSteps, SecondSteps, Opened
  <1>5. QED
    BY <1>1, <1>2, <1>3, <1>4 DEF IInv

LEMMA UnderflowKeeps ==
    ASSUME IInv, Underflow
    PROVE  IInv'
  <1>1. TypeOK'
    <2>1. Took \in Nat /\ Took <= ring - drop /\ drop <= ring
      BY Numbers DEF IInv, Underflow, Took, Smaller, DropIsThere, Opened
    <2>2. /\ ring' = ring - drop - Took
          /\ stale' = Larger(stale - drop - Took, 0)
      BY DEF Underflow, TakeFrames
    <2>3. ring' \in 0 .. Capacity /\ stale' \in 0 .. ring'
      <3>1. ring' \in Nat /\ ring' <= Capacity
        BY <2>1, <2>2, Numbers, Sizes DEF IInv
      <3>2. stale' \in Nat /\ stale' <= ring'
        BY <2>1, <2>2, Numbers DEF IInv, Larger
      <3>3. QED
        BY <3>1, <3>2, Sizes
    <2>4. 0 \in 0 .. Capacity /\ 0 \in 0 .. JitterGap
      BY Sizes
    <2>5. QED
      <3>1. /\ UNCHANGED <<active, queueing, control, margin, correcting, trim, windowMin,
                           windowCount, history>>
            /\ primed' = FALSE /\ starving' = TRUE /\ starved' = 0 /\ early' = 0
            /\ cleared' = FALSE /\ step' = "idle" /\ want' = 0 /\ drop' = 0 /\ fill' = 0
        BY DEF Underflow, Return, controlVars
      <3>2. 0 \in 0 .. 2
        OBVIOUS
      <3>3. QED
        BY <2>3, <2>4, <3>1, <3>2 DEF IInv, TypeOK
  <1>2. DropIsThere' /\ RenderIsReady'
    BY Sizes, Numbers, Step
       DEF IInv, Underflow, TakeFrames, Took, Smaller, Larger, Return, controlVars, DropIsThere,
           RenderIsReady, Opened
  <1>3. TrimIsLate'
    BY Sizes, Numbers, Step
       DEF IInv, Underflow, TakeFrames, Took, Smaller, Larger, Return, controlVars, TrimIsLate,
           FirstSteps, SecondSteps
  <1>4. CushionLasts'
    BY Sizes, Numbers, Step
       DEF IInv, Underflow, TakeFrames, Took, Smaller, Larger, Return, controlVars, CushionLasts,
           DropIsThere, TrimIsLate, FirstSteps, SecondSteps, Opened
  <1>5. QED
    BY <1>1, <1>2, <1>3, <1>4 DEF IInv

-----------------------------------------------------------------------------
(* The theorems.                                                           *)

LEMMA InitInvariant == Init => IInv
  <1> SUFFICES ASSUME Init PROVE IInv
    OBVIOUS
  <1>1. TypeOK
    <2>1. /\ 0 \in 0 .. Capacity /\ 0 \in 0 .. 0 /\ 0 \in 0 .. Block /\ 0 \in 0 .. JitterGap
          /\ 0 \in 0 .. NoMinimum /\ 0 \in 0 .. Window - 1 /\ 0 \in 0 .. 2 /\ 0 \in -1 .. 1
      BY Sizes DEF NoMinimum
    <2>2. QED
      BY <2>1 DEF Init, TypeOK
  <1>2. DropIsThere /\ RenderIsReady /\ TrimIsLate /\ CushionLasts
    BY DEF Init, DropIsThere, RenderIsReady, TrimIsLate, CushionLasts, Opened
  <1>3. QED
    BY <1>1, <1>2 DEF IInv

LEMMA StepKeepsInvariant == IInv /\ [Next]_vars => IInv'
  <1> SUFFICES ASSUME IInv, [Next]_vars PROVE IInv'
    OBVIOUS
  <1>1. CASE Producer
    BY <1>1, QueueKeeps, PushFrameKeeps DEF Producer
  <1>2. CASE Control
    BY <1>2, SetActiveKeeps, ClearRingKeeps, ClearPrimedKeeps DEF Control
  <1>3. CASE Callback
    BY <1>3, RenderBeginKeeps, OpenAvailableKeeps, AvailableKeeps, StillPlayingKeeps,
       WaitForCushionKeeps, StartKeeps, OpenSkipKeeps, DiscardKeeps, CountDropoutKeeps,
       OpenPrimeKeeps, PrimeKeeps, StorePrimedKeeps, StatsKeeps, OpenChunkKeeps, PlayKeeps,
       UnderflowKeeps DEF Callback
  <1>4. CASE UNCHANGED vars
    <2>1. UNCHANGED <<ring, stale, active, queueing, control, primed, step, want, drop, fill, margin,
                      starving, starved, correcting, trim, windowMin, windowCount, history, early,
                      cleared>>
      BY <1>4 DEF vars, ringVars, controlVars, renderVars, observed
    <2>2. QED
      BY <2>1 DEF IInv, TypeOK, DropIsThere, RenderIsReady, TrimIsLate, CushionLasts
  <1>5. QED
    BY <1>1, <1>2, <1>3, <1>4 DEF Next

\* Playout, its ring and the threads that clear it keep to the inductive invariant.
THEOREM Invariant == Spec => []IInv
  BY InitInvariant, StepKeepsInvariant, PTL DEF Spec

\* Types are kept: no counter of frames leaves the ring's capacity, the margin stays
\* between its default and its cap, and a flush never condemns more than there is.
THEOREM TypeCorrect == Spec => []TypeOK
  <1>1. IInv => TypeOK
    BY DEF IInv
  <1>2. QED
    BY <1>1, Invariant, PTL

\* The cushion render waits for outlasts the first two callbacks for every rate, size of
\* callback and margin, as long as nobody clears the ring.
THEOREM CushionOutlasts == Spec => []CushionOutlastsTwoCallbacks
  <1>1. IInv => CushionOutlastsTwoCallbacks
    <2> SUFFICES ASSUME IInv, step = "play", early > 0, ~cleared PROVE ~(Took < want)
      BY Numbers DEF IInv, CushionOutlastsTwoCallbacks
    <2>1. drop = 0
      BY DEF IInv, CushionLasts, Opened
    <2>2. ring >= want
      BY Numbers, Sizes DEF IInv, CushionLasts, TrimIsLate
    <2>3. QED
      BY <2>1, <2>2, Numbers DEF IInv, Took, Smaller
  <1>2. QED
    BY <1>1, Invariant, PTL
=============================================================================
