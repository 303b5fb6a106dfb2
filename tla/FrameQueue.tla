----------------------------- MODULE FrameQueue -----------------------------
(***************************************************************************)
(* What an AudioStereoRing promises its two users: a bounded queue of      *)
(* frames with a deferred flush.                                           *)
(*                                                                         *)
(* A flush is a request: the frames queued when it is made are dropped by  *)
(* the first consumer call that opens after it, never by the producer, and *)
(* a call that was already open may still deliver them.  Between opening   *)
(* and closing, a call commits to the number of frames it takes; they stay *)
(* in the queue, and count against its capacity, until the call closes.    *)
(*                                                                         *)
(* A frame is its serial number: the n-th frame ever put is n - 1.         *)
(***************************************************************************)
EXTENDS Integers, Sequences

CONSTANTS
    Capacity,    \* frames the queue can hold
    MaxRequest,  \* the largest number of frames one call asks for
    MaxFrames    \* frames ever put: the bound of the model

VARIABLES
    queue,      \* the frames put and not yet taken or dropped, oldest first
    putCount,   \* how many frames were ever put
    stale,      \* how many frames at the head of the queue are to be dropped
    call,       \* the consumer's open call: its stage, what it drops and takes
    delivered   \* the frames the last closed call returned

vars == <<queue, putCount, stale, call, delivered>>

NoCall == [stage |-> "idle", drop |-> 0, take |-> 0]

Smaller(a, b) == IF a <= b THEN a ELSE b
AtLeastZero(n) == IF n < 0 THEN 0 ELSE n
DropFirst(n) == SubSeq(queue, n + 1, Len(queue))

Init ==
    /\ queue = << >>
    /\ putCount = 0
    /\ stale = 0
    /\ call = NoCall
    /\ delivered = << >>

Put ==
    /\ putCount < MaxFrames
    /\ Len(queue) < Capacity
    /\ queue' = Append(queue, putCount)
    /\ putCount' = putCount + 1
    /\ UNCHANGED <<stale, call, delivered>>

Flush ==
    /\ stale' = Len(queue)
    /\ UNCHANGED <<queue, putCount, call, delivered>>

\* A call owes a drop of exactly the frames that were stale when it opened.
Open ==
    /\ call.stage = "idle"
    /\ call' = [stage |-> "open", drop |-> stale, take |-> 0]
    /\ delivered' = << >>
    /\ UNCHANGED <<queue, putCount, stale>>

Drop ==
    /\ call.stage = "open" /\ call.drop > 0
    /\ queue' = DropFirst(call.drop)
    /\ stale' = stale - call.drop
    /\ call' = [call EXCEPT !.drop = 0]
    /\ UNCHANGED <<putCount, delivered>>

\* A call falls short of what it asked for only when the queue does.
Commit(frames) ==
    /\ call.stage = "open"
    /\ call' = [call EXCEPT !.stage = "committed",
                            !.take = Smaller(frames, Len(queue) - call.drop)]
    /\ UNCHANGED <<queue, putCount, stale, delivered>>

Leave ==
    /\ call.stage = "open" /\ call.drop = 0
    /\ call' = NoCall
    /\ UNCHANGED <<queue, putCount, stale, delivered>>

\* Closing a taking call delivers the frames it committed to, in order, and a
\* skipping call drops them.
Close(skip) ==
    /\ call.stage = "committed"
    /\ LET gone == call.drop + call.take IN
        /\ queue' = DropFirst(gone)
        /\ stale' = AtLeastZero(stale - gone)
        /\ delivered' = IF skip THEN << >> ELSE SubSeq(queue, call.drop + 1, gone)
    /\ call' = NoCall
    /\ UNCHANGED putCount

Next ==
    \/ Put
    \/ Flush
    \/ Open
    \/ Drop
    \/ \E frames \in 1 .. MaxRequest : Commit(frames)
    \/ Leave
    \/ \E skip \in BOOLEAN : Close(skip)

Spec == Init /\ [][Next]_vars
=============================================================================
