----------------------------- MODULE LockOrder ------------------------------
(***************************************************************************)
(* The order in which the program's threads take its mutexes.              *)
(*                                                                         *)
(* An operation is the sequence of the locks it takes and releases, with   *)
(* those of the calls it makes; everything else it does is left out.  All  *)
(* demodulators use one output device, so there is one controller.  Locks  *)
(* that are never held while another is taken cannot be part of a cycle    *)
(* and are left out, as are the mutexes of one GUI object each.            *)
(***************************************************************************)
EXTENDS Integers, Sequences, FiniteSets

CONSTANTS
    LockDemods,       \* demodulators: positive numbers
    Operations        \* the operations that are performed

ASSUME LockOrderAssumption == LockDemods \subseteq Nat \ {0} /\ IsFiniteSet(LockDemods)

VARIABLES
    program,   \* what each thread still has to do
    owner,     \* of each lock, or NoOwner
    depth      \* how often it holds it: all but squelch are recursive

lockVars == <<program, owner, depth>>

Thread(name, d) == [thread |-> name, demod |-> d]
NoOwner == Thread("none", 0)
Threads ==
    {Thread("GUI", 0), Thread("SDRPost", 0), Thread("Controller", 0)}
    \cup {Thread(name, d) : name \in {"Audio", "Demodulator"}, d \in LockDemods}

\* m_device_mutex, m_mutex of the controller, demods_busy, squelchLockMutex, busy_lock of
\* BookmarkMgr, m_mutex of a demodulator's AudioThread.
Lock(name, d) == [lock |-> name, demod |-> d]
Locks ==
    {Lock(name, 0) : name \in {"device", "controller", "demods", "squelch", "bookmarks"}}
    \cup {Lock("bound", d) : d \in LockDemods}

Take(lock) == <<[do |-> "lock", lock |-> lock]>>
Drop(lock) == <<[do |-> "unlock", lock |-> lock]>>
Holding(lock, inside) == Take(lock) \o inside \o Drop(lock)
Visit(lock) == Holding(lock, << >>)

\* One lock after the other, of a sequence.
VisitAll(locks) ==
    [k \in 1 .. 2 * Len(locks) |->
        [do |-> IF k % 2 = 1 THEN "lock" ELSE "unlock", lock |-> locks[(k + 1) \div 2]]]

\* The demodulators that a loop may find, in any order.
Loops ==
    {demods \in UNION {[1 .. n -> LockDemods] : n \in 0 .. Cardinality(LockDemods)} :
        \A i, j \in DOMAIN demods : demods[i] = demods[j] => i = j}

-----------------------------------------------------------------------------
(* The operations.                                                         *)

\* Mutant: looks at the device threads while it holds a controller.
BindAsksDevice == Holding(Lock("controller", 0), Visit(Lock("device", 0)))

BindOrRemove == Visit(Lock("controller", 0))

\* AudioThread::setActive; releaseSquelchLock follows in the instance's.
SetActive(d, state) ==
    Visit(Lock("device", 0))
    \o (IF state THEN BindOrRemove ELSE << >>)
    \o Visit(Lock("bound", d))
    \o (IF state THEN << >> ELSE BindOrRemove \o Visit(Lock("squelch", 0)))

SetupDevice(d) ==
    Holding(Lock("device", 0),
            Holding(Lock("controller", 0), BindOrRemove) \o Holding(Lock("controller", 0), BindOrRemove))

ExitAudio(d) == Visit(Lock("device", 0)) \o Holding(Lock("controller", 0), BindOrRemove)

\* Each bound thread looks at the device as well.
SetBoundSampleRates(demods) ==
    VisitAll([k \in 1 .. 2 * Len(demods) |->
        IF k % 2 = 1 THEN Lock("device", 0) ELSE Lock("bound", demods[k \div 2])])

SetControllerSampleRate(bound, demods) ==
    Visit(Lock("device", 0))
    \o Holding(Lock("controller", 0),
               SetBoundSampleRates(bound)
               \o Visit(Lock("demods", 0))
               \o VisitAll([k \in 1 .. Len(demods) |-> Lock("bound", demods[k])]))

DeleteThread(d) ==
    Holding(Lock("demods", 0),
            Visit(Lock("bookmarks", 0)) \o SetActive(d, FALSE) \o Visit(Lock("bound", d)))

SetActiveDemodulator == Holding(Lock("demods", 0), Visit(Lock("demods", 0)))

UpdateActiveDemodulators(d, state) ==
    Visit(Lock("demods", 0)) \o SetActive(d, state)
    \o (IF state THEN SetActiveDemodulator ELSE << >>)

OpenInSoloMode ==
    Holding(Lock("squelch", 0), SetActiveDemodulator \o Holding(Lock("demods", 0), SetActiveDemodulator))

SaveBookmarks == Holding(Lock("bookmarks", 0), Visit(Lock("demods", 0)) \o Visit(Lock("demods", 0)))

ProgramsOf(t) ==
    CASE t.thread = "GUI" ->
            (IF "DeleteThread" \in Operations THEN {DeleteThread(d) : d \in LockDemods} ELSE {})
            \cup {SetActiveDemodulator, SaveBookmarks}
      [] t.thread = "SDRPost" ->
            {UpdateActiveDemodulators(d, state) : d \in LockDemods, state \in BOOLEAN}
      [] t.thread = "Controller" ->
            IF "SetSampleRate" \in Operations
            THEN {SetControllerSampleRate(bound, demods) : bound \in Loops, demods \in Loops} ELSE {}
      [] t.thread = "Audio" -> {SetupDevice(t.demod), ExitAudio(t.demod)}
      [] t.thread = "Demodulator" ->
            (IF "OpenInSoloMode" \in Operations THEN {OpenInSoloMode} ELSE {})
            \cup {Visit(Lock("squelch", 0))}

-----------------------------------------------------------------------------

LockOrderInit ==
    /\ program = [t \in Threads |-> << >>]
    /\ owner = [l \in Locks |-> NoOwner]
    /\ depth = [l \in Locks |-> 0]

Begin(t) ==
    /\ program[t] = << >>
    /\ \E steps \in ProgramsOf(t) : program' = [program EXCEPT ![t] = steps]
    /\ UNCHANGED <<owner, depth>>

NextStep(t) == Head(program[t])
IsFree(l, t) == owner[l] = NoOwner \/ (owner[l] = t /\ l.lock # "squelch")

TakeLock(t) ==
    /\ program[t] # << >> /\ NextStep(t).do = "lock"
    /\ LET l == NextStep(t).lock
       IN /\ IsFree(l, t)
          /\ owner' = [owner EXCEPT ![l] = t]
          /\ depth' = [depth EXCEPT ![l] = @ + 1]
    /\ program' = [program EXCEPT ![t] = Tail(@)]

DropLock(t) ==
    /\ program[t] # << >> /\ NextStep(t).do = "unlock"
    /\ LET l == NextStep(t).lock
       IN /\ owner' = [owner EXCEPT ![l] = IF depth[l] = 1 THEN NoOwner ELSE @]
          /\ depth' = [depth EXCEPT ![l] = @ - 1]
    /\ program' = [program EXCEPT ![t] = Tail(@)]

LockOrderNext == \E t \in Threads : Begin(t) \/ TakeLock(t) \/ DropLock(t)

LockOrderSpec == LockOrderInit /\ [][LockOrderNext]_lockVars

-----------------------------------------------------------------------------
(* Properties.                                                             *)

\* A lock is held by one thread, at most three times over, until it was given back as often.
LockOrderTypeOK ==
    /\ owner \in [Locks -> Threads \cup {NoOwner}]
    /\ \A l \in Locks : depth[l] \in 0 .. 3 /\ (depth[l] = 0) = (owner[l] = NoOwner)

WaitsFor(t, u) ==
    /\ program[t] # << >> /\ NextStep(t).do = "lock"
    /\ ~IsFree(NextStep(t).lock, t) /\ owner[NextStep(t).lock] = u

\* Threads none of which can go on before another of them.
Deadlocked(S) == \A t \in S : \E u \in S : WaitsFor(t, u)

\* A thread waits for a lock while it holds one that others take after it: the controller,
\* changing its rate, for the device mutex or demods_busy under its own (AudioThread.cpp:
\* 362-383), or a demodulator that opens in solo mode for demods_busy under squelchLockMutex
\* (DemodulatorThread.cpp:227-231).
AgainstTheOrder(t) ==
    /\ program[t] # << >> /\ NextStep(t).do = "lock"
    /\ \/ /\ t.thread = "Controller" /\ owner[Lock("controller", 0)] = t
          /\ NextStep(t).lock.lock \in {"device", "demods"}
       \/ /\ t.thread = "Demodulator" /\ owner[Lock("squelch", 0)] = t
          /\ NextStep(t).lock.lock = "demods"

\* Every deadlock there is, is one of two: a thread that takes part in it waits against the
\* order.  With demodulators started, moved to another device, deleted, bookmarked, made the
\* current one and opening in solo mode, and the output rate changed, whatever locks these
\* take, no other threads wait for each other for good (AudioThread.cpp:345-482, 560-662,
\* DemodulatorMgr.cpp:144-169, 210-251, DemodulatorThread.cpp:222-239).
OnlyKnownDeadlocks ==
    LET waiting == {t \in Threads : \E u \in Threads : WaitsFor(t, u)}
    IN \A S \in (SUBSET waiting) \ {{}} : Deadlocked(S) => \E t \in S : AgainstTheOrder(t)
=============================================================================
