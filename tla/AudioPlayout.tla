---------------------------- MODULE AudioPlayout ----------------------------
(***************************************************************************)
(* AudioMixState (src/audio/AudioMixer.cpp): how one demodulator's audio   *)
(* is queued, and played by the callback through render().                 *)
(*                                                                         *)
(* render starts only once the ring holds a cushion, plays until the ring  *)
(* runs dry, and then waits for a new cushion; a gap that ends soon makes  *)
(* the cushion larger, and a slow trim of the read rate holds the fill.    *)
(* clear(), called by other threads at any moment, empties the ring and    *)
(* makes playout start over.                                               *)
(*                                                                         *)
(* The ring is the queue that AudioRing implements: a count of frames,     *)
(* `stale` of which a flush has condemned.  A consumer call reads the      *)
(* flush boundary in one step and takes its frames in another.  Samples    *)
(* are left out; whether the history holds frames or garbage is not.  A    *)
(* callback asks for at most one chunk (kRenderChunkFrames).               *)
(***************************************************************************)
EXTENDS Integers

CONSTANTS
    Capacity,       \* of the ring
    Block,          \* frames one input yields at most
    Frames,         \* frames per callback
    PrimeFrames,    \* kPrimeFrames
    MinStartup,     \* rate / 50
    DefaultMargin,  \* rate / 100
    MarginStep,     \* rate / 200
    MarginCap,      \* rate / 10
    MarginDecay,    \* rate / 10000
    CatchUp,        \* kCatchUpSeconds, in frames
    JitterGap,      \* kJitterGapSeconds, in frames
    Window,         \* callbacks in a second
    StartExcess, StartShortfall, StopExcess \* kTrim...Seconds, in frames

Larger(a, b) == IF a >= b THEN a ELSE b
Smaller(a, b) == IF a <= b THEN a ELSE b
Startup(margin) == Larger(Larger(2 * Frames, MinStartup), Frames + margin) + PrimeFrames

\* A second is longer than one callback, which asks for at most one chunk.
ASSUME PlayoutAssumption ==
    /\ {Capacity, Block, PrimeFrames, MinStartup, MarginStep, MarginCap, MarginDecay, CatchUp,
        JitterGap, StartExcess, StartShortfall, StopExcess} \subseteq Nat
    /\ Frames \in Nat \ {0} /\ Window \in Nat \ {0, 1}
    /\ DefaultMargin \in 1 .. MarginCap

\* Playout can start at all: the largest cushion fits the ring.
ASSUME StartupFits == Startup(MarginCap) <= Capacity

VARIABLES
    ring,        \* frames in the ring
    stale,       \* how many of them, from the oldest, are flushed
    active,      \* mixState->active
    primed,      \* playing
    queueing,    \* frames the running queue() has still to push
    control,     \* a thread that switches or clears: idle | flush | unprime
    step,        \* the callback's next step
    want,        \* frames its ring call asks for
    drop,        \*   and the stale frames that call drops
    fill,        \* local variable of render
    margin,      \* jitterMarginFrames; 0 until the first render
    starving, starved, \* starved counts frames, up to JitterGap
    correcting, trim,  \* trim: the sign of readRatio - 1
    windowMin, windowCount,
    history,     \* what the interpolation window was primed with
    \* Observations that no code makes:
    early,       \* the callback is the first or second since playout started; or 0
    cleared      \*   and the ring was cleared since

ringVars == <<ring, stale>>
controlVars == <<active, queueing, control>>
renderVars == <<want, drop, fill, margin, starving, starved, correcting, trim,
                windowMin, windowCount, history>>
observed == <<early, cleared>>
vars == <<ringVars, controlVars, primed, step, renderVars, observed>>

NoMinimum == Capacity + 1

Init ==
    /\ ring = 0 /\ stale = 0
    /\ active = FALSE /\ primed = FALSE
    /\ queueing = 0
    /\ control = "idle"
    /\ step = "idle"
    /\ want = 0 /\ drop = 0 /\ fill = 0
    /\ margin = 0
    /\ starving = FALSE /\ starved = 0
    /\ correcting = FALSE /\ trim = 0
    /\ windowMin = 0 /\ windowCount = 0
    /\ history = "none"
    /\ early = 0 /\ cleared = FALSE

-----------------------------------------------------------------------------
(* queue and clear share producerMutex: one runs at a time.                *)

ProducerFree == queueing = 0 /\ control # "unprime"

\* Mutant: the flush on every packet that the comment in queue warns of.
QueueFlushes(n) ==
    /\ ProducerFree
    /\ queueing' = n
    /\ stale' = ring
    /\ UNCHANGED <<ring, active, control, primed, step, renderVars, observed>>

\* The input yields n frames.
Queue(n) ==
    /\ ProducerFree
    /\ queueing' = n
    /\ UNCHANGED <<ringVars, active, control, primed, step, renderVars, observed>>

\* A full ring ends the block: an overflow, after which the ring stays playable.
PushFrame ==
    /\ queueing > 0
    /\ IF ring < Capacity
       THEN ring' = ring + 1 /\ queueing' = queueing - 1
       ELSE ring' = ring /\ queueing' = 0
    /\ UNCHANGED <<stale, active, control, primed, step, renderVars, observed>>

\* setActive stores active and then calls clear; setDenoiseMode, setSampleRate and
\* the like only call clear.
SetActive ==
    /\ control = "idle"
    /\ \E on \in BOOLEAN : active' = on
    /\ control' = "flush"
    /\ UNCHANGED <<ringVars, queueing, primed, step, renderVars, observed>>

ClearRing ==
    /\ control = "flush" /\ queueing = 0
    /\ stale' = ring
    /\ control' = "unprime"
    /\ cleared' = (early > 0)
    /\ UNCHANGED <<ring, active, queueing, primed, step, renderVars, early>>

ClearPrimed ==
    /\ control = "unprime"
    /\ primed' = FALSE
    /\ control' = "idle"
    /\ UNCHANGED <<ringVars, active, queueing, step, renderVars, observed>>

-----------------------------------------------------------------------------
(* A ring call of the callback: the boundary is read, then the frames are  *)
(* taken.                                                                  *)

OpenRing(at, next) ==
    /\ step = at
    /\ drop' = stale
    /\ step' = next

Took == Smaller(want, ring - drop)
TakeFrames ==
    /\ ring' = ring - drop - Took
    /\ stale' = Larger(stale - drop - Took, 0)

(* The callback and render.                                                *)

\* The locals die with the call.
Return == step' = "idle" /\ want' = 0 /\ drop' = 0 /\ fill' = 0

\* The callback passes over a state that is not active: nothing in it moves.
RenderBegin ==
    /\ step = "idle" /\ active
    /\ step' = "fill"
    /\ margin' = IF margin = 0 THEN DefaultMargin ELSE margin
    /\ starved' = IF starving THEN Smaller(starved + Frames, JitterGap) ELSE starved
    /\ early' = IF early = 1 THEN 2 ELSE 0
    /\ cleared' = (cleared /\ early = 1)
    /\ UNCHANGED <<ringVars, controlVars, primed, want, drop, fill, starving,
                   correcting, trim, windowMin, windowCount, history>>

OpenAvailable ==
    /\ OpenRing("fill", "available")
    /\ UNCHANGED <<ringVars, controlVars, primed, want, fill, margin, starving, starved,
                   correcting, trim, windowMin, windowCount, history, observed>>

Available ==
    /\ step = "available"
    /\ ring' = ring - drop
    /\ stale' = Larger(stale - drop, 0)
    /\ fill' = ring'
    /\ step' = "test"
    /\ UNCHANGED <<controlVars, primed, want, drop, margin, starving, starved,
                   correcting, trim, windowMin, windowCount, history, observed>>

StillPlaying ==
    /\ step = "test" /\ primed
    /\ step' = "stats"
    /\ UNCHANGED <<ringVars, controlVars, primed, renderVars, observed>>

WaitForCushion ==
    /\ step = "test" /\ ~primed /\ fill < Startup(margin)
    /\ Return
    /\ UNCHANGED <<ringVars, controlVars, primed, margin, starving, starved,
                   correcting, trim, windowMin, windowCount, history, observed>>

\* Mutant: the cushion forgets the frames that priming takes.
StartShort ==
    /\ step = "test" /\ ~primed /\ fill >= Startup(margin) - PrimeFrames
    /\ LET startup == Startup(margin)
           catchUp == fill > startup + CatchUp IN
        /\ want' = IF catchUp THEN fill - startup ELSE 0
        /\ fill' = IF catchUp THEN startup ELSE fill
        /\ step' = IF catchUp THEN "skip" ELSE "start"
    /\ early' = 1 /\ cleared' = (stale > 0)
    /\ UNCHANGED <<ringVars, controlVars, primed, drop, margin, starving, starved,
                   correcting, trim, windowMin, windowCount, history>>

\* A backlog larger than a stall should leave is skipped first.  A clear since
\* available has left stale frames behind.
Start ==
    /\ step = "test" /\ ~primed /\ fill >= Startup(margin)
    /\ LET startup == Startup(margin)
           catchUp == fill > startup + CatchUp IN
        /\ want' = IF catchUp THEN fill - startup ELSE 0
        /\ fill' = IF catchUp THEN startup ELSE fill
        /\ step' = IF catchUp THEN "skip" ELSE "start"
    /\ early' = 1 /\ cleared' = (stale > 0)
    /\ UNCHANGED <<ringVars, controlVars, primed, drop, margin, starving, starved,
                   correcting, trim, windowMin, windowCount, history>>

OpenSkip ==
    /\ OpenRing("skip", "discard")
    /\ UNCHANGED <<ringVars, controlVars, primed, want, fill, margin, starving, starved,
                   correcting, trim, windowMin, windowCount, history, observed>>

Discard ==
    /\ step = "discard"
    /\ TakeFrames
    /\ step' = "start"
    /\ UNCHANGED <<controlVars, primed, renderVars, observed>>

CountsDropout == starving /\ starved < JitterGap

\* Mutant: the margin grows with every dropout and is never capped.
CountDropoutUncapped ==
    /\ step = "start"
    /\ margin' = IF CountsDropout THEN margin + MarginStep ELSE margin
    /\ starving' = FALSE /\ starved' = 0 \* which nothing reads until the ring runs dry
    /\ want' = PrimeFrames
    /\ step' = "startPlayout"
    /\ UNCHANGED <<ringVars, controlVars, primed, drop, fill, correcting, trim,
                   windowMin, windowCount, history, early, cleared>>

CountDropout ==
    /\ step = "start"
    /\ margin' = IF CountsDropout THEN Smaller(margin + MarginStep, MarginCap) ELSE margin
    /\ starving' = FALSE /\ starved' = 0 \* which nothing reads until the ring runs dry
    /\ want' = PrimeFrames
    /\ step' = "startPlayout"
    /\ UNCHANGED <<ringVars, controlVars, primed, drop, fill, correcting, trim,
                   windowMin, windowCount, history, early, cleared>>

OpenPrime ==
    /\ OpenRing("startPlayout", "prime")
    /\ UNCHANGED <<ringVars, controlVars, primed, want, fill, margin, starving, starved,
                   correcting, trim, windowMin, windowCount, history, observed>>

\* startPlayout ignores how many frames pop gave it: the rest of its array is
\* whatever was on the stack.
Prime ==
    /\ step = "prime"
    /\ TakeFrames
    /\ history' = IF Took = PrimeFrames THEN "frames" ELSE "garbage"
    /\ fill' = fill - PrimeFrames
    /\ correcting' = FALSE /\ trim' = 0
    /\ windowMin' = NoMinimum /\ windowCount' = 0
    /\ step' = "primed"
    /\ UNCHANGED <<controlVars, primed, want, drop, margin, starving, starved, observed>>

StorePrimed ==
    /\ step = "primed"
    /\ primed' = TRUE
    /\ step' = "stats"
    /\ UNCHANGED <<ringVars, controlVars, renderVars, observed>>

\* updateRateTrim, once a second: hysteresis on the least fill of the window.
Excess == Smaller(windowMin, fill) - (Frames + margin)
Corrects ==
    \/ Excess > StartExcess \/ -Excess > StartShortfall
    \/ correcting /\ (Excess >= StopExcess \/ -Excess >= StopExcess)
SignOf(n) == IF n > 0 THEN 1 ELSE IF n < 0 THEN -1 ELSE 0

\* The statistics, and what the chunk needs: a frame more or less now and then
\* while the rate is trimmed.
Stats ==
    /\ step = "stats"
    /\ IF windowCount + 1 >= Window
       THEN /\ correcting' = Corrects
            /\ trim' = IF Corrects THEN SignOf(Excess) ELSE 0
            /\ margin' = Larger(DefaultMargin, margin - MarginDecay)
            /\ windowMin' = NoMinimum /\ windowCount' = 0
       ELSE /\ windowMin' = Smaller(windowMin, fill)
            /\ windowCount' = windowCount + 1
            /\ UNCHANGED <<correcting, trim, margin>>
    /\ want' \in {Frames, Frames + trim'}
    /\ step' = "chunk"
    /\ UNCHANGED <<ringVars, controlVars, primed, drop, fill, starving, starved, history,
                   observed>>

OpenChunk ==
    /\ OpenRing("chunk", "play")
    /\ UNCHANGED <<ringVars, controlVars, primed, want, fill, margin, starving, starved,
                   correcting, trim, windowMin, windowCount, history, observed>>

Play ==
    /\ step = "play" /\ Took = want
    /\ TakeFrames
    /\ Return
    /\ UNCHANGED <<controlVars, primed, margin, starving, starved, correcting, trim,
                   windowMin, windowCount, history, observed>>

Underflow ==
    /\ step = "play" /\ Took < want
    /\ TakeFrames
    /\ primed' = FALSE
    /\ starving' = TRUE /\ starved' = 0
    /\ early' = 0 /\ cleared' = FALSE
    /\ Return
    /\ UNCHANGED <<controlVars, margin, correcting, trim,
                   windowMin, windowCount, history>>

-----------------------------------------------------------------------------
Producer == (\E n \in 1 .. Block : Queue(n)) \/ PushFrame

Control == SetActive \/ ClearRing \/ ClearPrimed

Callback ==
    \/ RenderBegin \/ OpenAvailable \/ Available
    \/ StillPlaying \/ WaitForCushion \/ Start
    \/ OpenSkip \/ Discard
    \/ CountDropout \/ OpenPrime \/ Prime \/ StorePrimed
    \/ Stats \/ OpenChunk \/ Play \/ Underflow

Next == Producer \/ Control \/ Callback

Spec == Init /\ [][Next]_vars

\* The sound card calls back, and a demodulator with an open squelch delivers audio.
\* Nothing says that it delivers as fast as it is played.
FairSpec == Spec /\ WF_vars(Callback) /\ WF_vars(Producer)

-----------------------------------------------------------------------------
TypeOK ==
    /\ ring \in 0 .. Capacity /\ stale \in 0 .. ring
    /\ active \in BOOLEAN /\ primed \in BOOLEAN
    /\ queueing \in 0 .. Block
    /\ control \in {"idle", "flush", "unprime"}
    /\ step \in {"idle", "fill", "available", "test", "skip", "discard", "start",
                 "startPlayout", "prime", "primed", "stats", "chunk", "play"}
    /\ want \in 0 .. Capacity /\ drop \in 0 .. Capacity /\ fill \in 0 .. Capacity
    /\ margin \in {0} \cup DefaultMargin .. MarginCap
    /\ starving \in BOOLEAN /\ starved \in 0 .. JitterGap
    /\ correcting \in BOOLEAN /\ trim \in -1 .. 1
    /\ windowMin \in 0 .. NoMinimum /\ windowCount \in 0 .. Window - 1
    /\ history \in {"none", "frames", "garbage"}
    /\ early \in 0 .. 2 /\ cleared \in BOOLEAN

\* The cushion outlasts two callbacks: playout that has started does not run dry in
\* its first two callbacks, however slow the producer, unless the ring is cleared.
CushionOutlastsTwoCallbacks ==
    step = "play" /\ Took < want /\ early > 0 => cleared

\* Silence is never for good: while audio arrives and no one clears, the fill reaches
\* the cushion and playout starts, however the margin has grown and whatever the ring
\* held when it last ran dry.
StartsPlaying ==
    active /\ ~primed ~> primed \/ ~active \/ control # "idle"

\* startPlayout's comment: the first output is exactly the first buffered frame.
FirstOutputIsBuffered == step = "play" => history # "garbage"
=============================================================================
