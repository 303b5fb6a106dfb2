---------------------------- MODULE BlockingQueue ----------------------------
(***************************************************************************)
(* ThreadBlockingQueue (src/util/ThreadBlockingQueue.h), and how the       *)
(* threads of a pipeline use one: a producer that loops over blocking      *)
(* pushes until its thread is stopped, a consumer that loops over timed    *)
(* pops, and a terminate() that must get the producer out of its push.     *)
(*                                                                         *)
(* The body of every call runs under the queue's mutex, so a call is one   *)
(* step up to the point where it waits on a condition variable; a notified *)
(* thread takes the mutex again in a step of its own, and tests again.     *)
(* Items are left out: what they carry plays no part in who waits.         *)
(***************************************************************************)
EXTENDS Integers, FiniteSets

CONSTANTS Producers, Consumers,
          MaxItems  \* bound on m_max_num_items

ASSUME QueueAssumption ==
    /\ MaxItems \in Nat \ {0}
    /\ Producers \cap Consumers = {}

VARIABLES
    size,      \* m_queue.size()
    max,       \* m_max_num_items
    thread,    \* what each thread does: see States
    timed,     \* threads whose present call has a timeout
    stopping,  \* IOThread::stopping, of the producers' thread
    terminator \* terminate(): idle | stopped | done

vars == <<size, max, thread, timed, stopping, terminator>>

Threads == Producers \cup Consumers

\* loop: between calls; call: has decided on a call; waiting: on m_cond_not_full
\* (a producer) or m_cond_not_empty (a consumer); woken: notified; done: run() ended.
States == {"loop", "call", "waiting", "woken", "done"}

Init ==
    /\ size = 0
    /\ max \in 1 .. MaxItems
    /\ thread = [t \in Threads |-> "loop"]
    /\ timed = {}
    /\ stopping = FALSE
    /\ terminator = "idle"

-----------------------------------------------------------------------------
Goto(t, state) == thread' = [thread EXCEPT ![t] = state]

\* notify_all: those of S that wait will take the mutex again.
NotifyAll(pcs, S) ==
    [t \in Threads |-> IF t \in S /\ pcs[t] = "waiting" THEN "woken" ELSE pcs[t]]

\* The step that tests the wait's condition: on entry, when notified, and when
\* the time is up.
Tests(t) ==
    \/ thread[t] \in {"call", "woken"}
    \/ thread[t] = "waiting" /\ t \in timed

Full == size >= max
Empty == size = 0

\* while (!stopping) ... push(...)
ProducerLoop(p) ==
    /\ thread[p] = "loop"
    /\ IF stopping
       THEN Goto(p, "done") /\ timed' = timed
       ELSE Goto(p, "call") /\ timed' \in {timed \ {p}, timed \cup {p}}
    /\ UNCHANGED <<size, max, stopping, terminator>>

\* Mutant: the item is queued and no one is told.
PushSilent(p) ==
    /\ Tests(p) /\ ~Full
    /\ size' = size + 1
    /\ Goto(p, "loop")
    /\ UNCHANGED <<max, timed, stopping, terminator>>

Push(p) ==
    /\ Tests(p) /\ ~Full
    /\ size' = size + 1
    /\ thread' = NotifyAll([thread EXCEPT ![p] = "loop"], Consumers)
    /\ UNCHANGED <<max, timed, stopping, terminator>>

WaitForRoom(p) ==
    /\ thread[p] \in {"call", "woken"} /\ Full
    /\ Goto(p, "waiting")
    /\ UNCHANGED <<size, max, timed, stopping, terminator>>

\* try_push, a timeout below NON_BLOCKING_TIMEOUT, or one that is up.
PushFails(p) ==
    /\ Tests(p) /\ p \in timed /\ Full
    /\ Goto(p, "loop")
    /\ UNCHANGED <<size, max, timed, stopping, terminator>>

\* A consumer is another thread, with a stopping flag of its own: it may end at
\* any time between two pops, and flushes the queue as it does.
ConsumerLoop(c) ==
    /\ thread[c] = "loop"
    /\ Goto(c, "call")
    /\ timed' \in {timed \ {c}, timed \cup {c}}
    /\ UNCHANGED <<size, max, stopping, terminator>>

Leave(c) ==
    /\ thread[c] = "loop"
    /\ size' = 0
    /\ thread' = NotifyAll([thread EXCEPT ![c] = "done"], Producers)
    /\ UNCHANGED <<max, timed, stopping, terminator>>

Pop(c) ==
    /\ Tests(c) /\ ~Empty
    /\ size' = size - 1
    /\ thread' = NotifyAll([thread EXCEPT ![c] = "loop"], Producers)
    /\ UNCHANGED <<max, timed, stopping, terminator>>

WaitForItem(c) ==
    /\ thread[c] \in {"call", "woken"} /\ Empty
    /\ Goto(c, "waiting")
    /\ UNCHANGED <<size, max, timed, stopping, terminator>>

PopFails(c) ==
    /\ Tests(c) /\ c \in timed /\ Empty
    /\ Goto(c, "loop")
    /\ UNCHANGED <<size, max, timed, stopping, terminator>>

-----------------------------------------------------------------------------
\* Mutant: the maximum may be lowered under the items already queued.
SetMaxLowers(n) ==
    /\ n # max
    /\ max' = n
    /\ thread' = NotifyAll(thread, Producers)
    /\ UNCHANGED <<size, timed, stopping, terminator>>

\* set_max_num_items only raises the maximum.
SetMax(n) ==
    /\ n > max
    /\ max' = n
    /\ thread' = NotifyAll(thread, Producers)
    /\ UNCHANGED <<size, timed, stopping, terminator>>

Flush ==
    /\ size' = 0
    /\ thread' = NotifyAll(thread, Producers)

\* terminate(): IOThread::terminate(), and then flush() to unblock the push.
Terminate ==
    /\ terminator = "idle"
    /\ stopping' = TRUE
    /\ terminator' = "stopped"
    /\ UNCHANGED <<size, max, thread, timed>>

\* Mutant: terminate() only sets the flag.
TerminateOnlyStops ==
    /\ terminator = "stopped"
    /\ terminator' = "done"
    /\ UNCHANGED <<size, max, thread, timed, stopping>>

TerminateFlush ==
    /\ terminator = "stopped"
    /\ Flush
    /\ terminator' = "done"
    /\ UNCHANGED <<max, timed, stopping>>

-----------------------------------------------------------------------------
Producing(p) == ProducerLoop(p) \/ Push(p) \/ WaitForRoom(p) \/ PushFails(p)
Consuming(c) ==
    ConsumerLoop(c) \/ Leave(c) \/ Pop(c) \/ WaitForItem(c) \/ PopFails(c)

Next ==
    \/ \E p \in Producers : Producing(p)
    \/ \E c \in Consumers : Consuming(c)
    \/ \E n \in 1 .. MaxItems : SetMax(n)
    \/ Terminate \/ TerminateFlush

Spec == Init /\ [][Next]_vars

\* Threads that can run do, and terminate() goes on to its flush.  Nothing is
\* assumed of the consumers.
FairSpec ==
    /\ Spec
    /\ \A p \in Producers : WF_vars(Producing(p))
    /\ WF_vars(TerminateFlush)

-----------------------------------------------------------------------------
TypeOK ==
    /\ max \in 1 .. MaxItems
    /\ size \in 0 .. max
    /\ thread \in [Threads -> States]
    /\ timed \subseteq Threads
    /\ stopping \in BOOLEAN
    /\ terminator \in {"idle", "stopped", "done"}

\* No wakeup is lost: whoever sleeps on a condition variable sleeps because of the
\* state the queue is in now, whatever was pushed, popped, flushed, raised or timed
\* out since it fell asleep.
NoLostWakeup ==
    /\ \A p \in Producers : thread[p] = "waiting" => Full
    /\ \A c \in Consumers : thread[c] = "waiting" => Empty

\* "unblock the push()": a stopped producer's thread ends, though it may be asleep
\* in a push without timeout and no consumer may be left; for a queue with room for
\* an item of every producer (in the program, each such queue has one producer).
StopEnds ==
    stopping /\ max >= Cardinality(Producers) ~> \A p \in Producers : thread[p] = "done"
=============================================================================
