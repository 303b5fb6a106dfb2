----------------------------- MODULE MixSources -----------------------------
(***************************************************************************)
(* How demodulators join and leave an output device while its callback     *)
(* plays (src/audio/AudioThread.cpp).                                      *)
(*                                                                         *)
(* A device has a controller AudioThread.  Every other AudioThread plays   *)
(* through it: bindThread puts the thread's AudioMixState in a slot of     *)
(* mixSources, removeThread takes it out and lets go of it.  Both hold the *)
(* controller's m_mutex.  The callback takes no lock: before it uses a     *)
(* slot's state it announces it in mixHazards and looks at the slot again, *)
(* and removeThread waits until no hazard names the state.                 *)
(*                                                                         *)
(* setActive, deleteThread, the start and the end of an audio thread run   *)
(* on any thread of the program, in any order.  An AudioThread stands for  *)
(* its AudioMixState, which it and mixStateOwners share.                   *)
(***************************************************************************)
EXTENDS Integers

CONSTANTS
    Threads,   \* the AudioThreads of the demodulators
    Callers,   \* program threads that switch them: the GUI, SDRPostThread
    NumSlots,  \* MAX_MIX_SOURCES
    None       \* nullptr

ASSUME MixAssumption ==
    /\ NumSlots \in Nat \ {0}
    /\ None \notin Threads \cup Callers
    /\ Threads \cap Callers = {}

VARIABLES
    mixSources,     \* slot -> the state the callback is to play
    mixHazards,     \* slot -> the state the callback says it is using
    boundThreads,   \* raw pointers to the bound threads
    mixStateOwners, \* the controller's shares of their states
    mutex,          \* who holds the controller's m_mutex
    callback,       \* the audio callback: its next step, slot and state
    op,             \* actor -> the operation it is in
    active,         \* AudioThread::active
    mixActive,      \* mixState->active
    phase,          \* an AudioThread: new | running | exited | freed
    stopping,       \* IOThread::stopping
    listed,         \* DemodulatorMgr::demods
    held            \* caller -> the demodulator it holds a reference to

controllerVars == <<mixSources, mixHazards, boundThreads, mixStateOwners, mutex>>
threadVars == <<active, mixActive, phase, stopping, listed, held>>
vars == <<controllerVars, callback, op, threadVars>>

\* An audio thread acts on itself, when it starts, changes device and ends.
Actors == Callers \cup Threads
Slots == 0 .. NumSlots - 1
Tasks == {"activate", "deactivate", "delete", "setup", "exit"}

\* The steps of an operation.  In "own" to "erase" the actor holds the mutex.
Locked == {"own", "clear", "scan", "erase"}
Steps == {"bind", "remove", "store", "terminate"} \cup Locked

Idle == [task |-> "none", step |-> "idle", thread |-> None, unbinds |-> FALSE, next |-> 0]
Operation(task, step, t, unbinds) ==
    [task |-> task, step |-> step, thread |-> t, unbinds |-> unbinds, next |-> 0]
GoTo(a, step) == op' = [op EXCEPT ![a].step = step, ![a].next = 0]
Advance(a, i) == op' = [op EXCEPT ![a].next = i]
Begin(a, task, step, t, unbinds) ==
    op' = [op EXCEPT ![a] = Operation(task, step, t, unbinds)]
Return(a) == op' = [op EXCEPT ![a] = Idle]
\* DemodulatorMgr::deleteThread goes on to terminate() after setActive(false).
ReturnFromSetActive(a) ==
    IF op[a].task = "delete" THEN GoTo(a, "terminate") ELSE Return(a)

Init ==
    /\ mixSources = [i \in Slots |-> None]
    /\ mixHazards = [i \in Slots |-> None]
    /\ boundThreads = {}
    /\ mixStateOwners = {}
    /\ mutex = None
    /\ callback = [step |-> "load", slot |-> 0, state |-> None]
    /\ op = [a \in Actors |-> Idle]
    /\ active = [t \in Threads |-> FALSE]
    /\ mixActive = [t \in Threads |-> FALSE]
    /\ phase = [t \in Threads |-> "new"]
    /\ stopping = [t \in Threads |-> FALSE]
    /\ listed = Threads
    /\ held = [c \in Callers |-> None]

-----------------------------------------------------------------------------
(* audioCallback: for each slot in turn, protect, test active, render,     *)
(* release.  It takes no lock and writes nothing but mixHazards.           *)

CallbackFrame == UNCHANGED <<mixSources, boundThreads, mixStateOwners, mutex, op, threadVars>>

LoadSource ==
    /\ callback.step = "load"
    /\ callback' = [callback EXCEPT !.step = "announce", !.state = mixSources[callback.slot]]
    /\ UNCHANGED mixHazards
    /\ CallbackFrame

Announce ==
    /\ callback.step = "announce"
    /\ mixHazards' = [mixHazards EXCEPT ![callback.slot] = callback.state]
    /\ callback' = [callback EXCEPT !.step = "recheck"]
    /\ CallbackFrame

\* Mutant: the pointer is used without a second look at the slot.
RecheckNothing ==
    /\ callback.step = "recheck"
    /\ callback' = [callback EXCEPT !.step = "test"]
    /\ UNCHANGED mixHazards
    /\ CallbackFrame

Recheck ==
    /\ callback.step = "recheck"
    /\ callback' = [callback EXCEPT !.step =
                        IF mixSources[callback.slot] = callback.state THEN "test" ELSE "load"]
    /\ UNCHANGED mixHazards
    /\ CallbackFrame

\* !state || !state->active; a state that is used is rendered.
TestActive ==
    /\ callback.step = "test"
    /\ callback' = [callback EXCEPT !.step =
                        IF callback.state # None /\ mixActive[callback.state]
                        THEN "render" ELSE "release"]
    /\ UNCHANGED mixHazards
    /\ CallbackFrame

\* render ends; while the step is "render" the callback may be anywhere inside it.
RenderDone ==
    /\ callback.step = "render"
    /\ callback' = [callback EXCEPT !.step = "release"]
    /\ UNCHANGED mixHazards
    /\ CallbackFrame

\* Mutant: the loop runs one slot too far.
ReleasePastEnd ==
    /\ callback.step = "release"
    /\ mixHazards' = [mixHazards EXCEPT ![callback.slot] = None]
    /\ callback' = [step |-> "load", slot |-> (callback.slot + 1) % (NumSlots + 1), state |-> None]
    /\ CallbackFrame

\* After the last slot the callback returns; the next one starts at the first.
Release ==
    /\ callback.step = "release"
    /\ mixHazards' = [mixHazards EXCEPT ![callback.slot] = None]
    /\ callback' = [step |-> "load", slot |-> (callback.slot + 1) % NumSlots, state |-> None]
    /\ CallbackFrame

Callback == LoadSource \/ Announce \/ Recheck \/ TestActive \/ RenderDone \/ Release

-----------------------------------------------------------------------------
(* bindThread and removeThread, on the controller, by actor a.             *)

Free(i) == mixSources[i] = None
SlotsOf(t) == {i \in Slots : mixSources[i] = t}
First(slots) == CHOOSE i \in slots : \A j \in slots : i <= j
TakenBy(t) == {i \in Slots : Free(i)} \cup SlotsOf(t)

\* The compare-and-swap loop stops at the first slot that is free or already the
\* thread's.  Only a holder of the mutex writes slots, so the loop is one step.
BindSource(a) ==
    /\ op[a].step = "bind"
    /\ mutex = None
    /\ TakenBy(op[a].thread) # {}
    /\ mixSources' = [mixSources EXCEPT ![First(TakenBy(op[a].thread))] = op[a].thread]
    /\ mutex' = a
    /\ GoTo(a, "own")
    /\ UNCHANGED <<mixHazards, boundThreads, mixStateOwners, callback, threadVars>>

\* Every slot is another thread's: bindThread returns and says nothing.
BindNowhere(a) ==
    /\ op[a].step = "bind"
    /\ mutex = None
    /\ TakenBy(op[a].thread) = {}
    /\ GoTo(a, "store")
    /\ UNCHANGED <<controllerVars, callback, threadVars>>

BindOwner(a) ==
    /\ op[a].step = "own"
    /\ boundThreads' = boundThreads \cup {op[a].thread}
    /\ mixStateOwners' = mixStateOwners \cup {op[a].thread}
    /\ mutex' = None
    /\ GoTo(a, "store")
    /\ UNCHANGED <<mixSources, mixHazards, callback, threadVars>>

\* Mutant: the hazards are scanned while the slots still hold the state.
RemoveScansFirst(a) ==
    /\ op[a].step = "remove"
    /\ mutex = None
    /\ mutex' = a
    /\ GoTo(a, "scan")
    /\ UNCHANGED <<mixSources, mixHazards, boundThreads, mixStateOwners, callback, threadVars>>

\* The loop over the slots ends in the scan; a slot that is not the thread's stays
\* as it is, for only a holder of the mutex writes slots.
RemoveBegin(a) ==
    /\ op[a].step = "remove"
    /\ mutex = None
    /\ mutex' = a
    /\ GoTo(a, IF SlotsOf(op[a].thread) = {} THEN "scan" ELSE "clear")
    /\ UNCHANGED <<mixSources, mixHazards, boundThreads, mixStateOwners, callback, threadVars>>

ClearSource(a) ==
    /\ op[a].step = "clear"
    /\ LET i == First(SlotsOf(op[a].thread)) IN
        /\ mixSources' = [mixSources EXCEPT ![i] = None]
        /\ GoTo(a, IF SlotsOf(op[a].thread) = {i} THEN "scan" ELSE "clear")
    /\ UNCHANGED <<mixHazards, boundThreads, mixStateOwners, mutex, callback, threadVars>>

\* Mutant: the scan ends one hazard early.
ScanMissesLast(a) ==
    /\ op[a].step = "scan"
    /\ IF mixHazards[op[a].next] = op[a].thread THEN Advance(a, 0)
       ELSE IF op[a].next >= NumSlots - 2 THEN GoTo(a, "erase")
       ELSE Advance(a, op[a].next + 1)
    /\ UNCHANGED <<controllerVars, callback, threadVars>>

\* One load of the scan; a hazard that names the state starts it over.
ScanHazard(a) ==
    /\ op[a].step = "scan"
    /\ IF mixHazards[op[a].next] = op[a].thread THEN Advance(a, 0)
       ELSE IF op[a].next = NumSlots - 1 THEN GoTo(a, "erase")
       ELSE Advance(a, op[a].next + 1)
    /\ UNCHANGED <<controllerVars, callback, threadVars>>

\* Letting go of the state, and the step of the operation that comes after.
Erase(a) ==
    /\ op[a].step = "erase"
    /\ boundThreads' = boundThreads \ {op[a].thread}
    /\ mixStateOwners' = mixStateOwners \ {op[a].thread}
    /\ mutex' = None
    /\ CASE op[a].task = "setup" -> GoTo(a, "bind")
         [] op[a].task = "exit" -> Return(a)
         [] OTHER -> ReturnFromSetActive(a)
    /\ phase' = IF op[a].task = "exit" THEN [phase EXCEPT ![op[a].thread] = "exited"] ELSE phase
    /\ UNCHANGED <<mixSources, mixHazards, callback, active, mixActive, stopping, listed, held>>

-----------------------------------------------------------------------------
(* AudioThread::setActive, by a caller that holds the demodulator.  It     *)
(* reads active with no lock, and acts on what it read.                    *)

\* getDemodulators copies the list: a demodulator in the copy stays until it is
\* dropped, on the list or not.  A caller acts on one demodulator of it at a time.
TakeReference(c, t) ==
    /\ op[c] = Idle /\ held[c] = None /\ t \in listed
    /\ held' = [held EXCEPT ![c] = t]
    /\ UNCHANGED <<controllerVars, callback, op, active, mixActive, phase, stopping, listed>>

DropReference(c) ==
    /\ op[c] = Idle /\ held[c] # None
    /\ held' = [held EXCEPT ![c] = None]
    /\ UNCHANGED <<controllerVars, callback, op, active, mixActive, phase, stopping, listed>>

\* A thread that has not started has no inputQueue, and is not bound.
Activate(c, t) ==
    /\ op[c] = Idle /\ held[c] = t
    /\ Begin(c, "activate",
             IF ~active[t] /\ phase[t] # "new" THEN "bind" ELSE "store", t, FALSE)
    /\ UNCHANGED <<controllerVars, callback, threadVars>>

Deactivate(c, t) ==
    /\ op[c] = Idle /\ held[c] = t
    /\ Begin(c, "deactivate", "store", t, active[t])
    /\ UNCHANGED <<controllerVars, callback, threadVars>>

\* DemodulatorMgr::deleteThread: off the list, then setActive(false), terminate().
Delete(c, t) ==
    /\ op[c] = Idle /\ held[c] = t /\ t \in listed
    /\ listed' = listed \ {t}
    /\ Begin(c, "delete", "store", t, active[t])
    /\ UNCHANGED <<controllerVars, callback, active, mixActive, phase, stopping, held>>

\* Under the thread's own m_mutex: active, then mixState->active.  setupDevice does
\* the same at its end.
Store(a) ==
    /\ op[a].step = "store"
    /\ LET on == op[a].task \in {"activate", "setup"} IN
        /\ active' = [active EXCEPT ![op[a].thread] = on]
        /\ mixActive' = [mixActive EXCEPT ![op[a].thread] = on]
    /\ IF op[a].unbinds THEN GoTo(a, "remove") ELSE ReturnFromSetActive(a)
    /\ UNCHANGED <<controllerVars, callback, phase, stopping, listed, held>>

\* The caller of deleteThread is done with the demodulator.
Terminate(c) ==
    /\ op[c].step = "terminate"
    /\ stopping' = [stopping EXCEPT ![op[c].thread] = TRUE]
    /\ mixActive' = [mixActive EXCEPT ![op[c].thread] = FALSE]
    /\ held' = [held EXCEPT ![c] = None]
    /\ Return(c)
    /\ UNCHANGED <<controllerVars, callback, active, phase, listed>>

-----------------------------------------------------------------------------
(* The life of an AudioThread.                                             *)

\* threadMain resets stopping, also when terminate() came first; run() goes to
\* setupDevice, which removes the thread from the device it was on and binds it.
Start(t) ==
    /\ phase[t] = "new"
    /\ phase' = [phase EXCEPT ![t] = "running"]
    /\ stopping' = [stopping EXCEPT ![t] = FALSE]
    /\ Begin(t, "setup", "remove", t, FALSE)
    /\ UNCHANGED <<controllerVars, callback, active, mixActive, listed, held>>

\* AUDIO_THREAD_CMD_SET_DEVICE, to the device it is on.
ChangeDevice(t) ==
    /\ phase[t] = "running" /\ op[t] = Idle /\ ~stopping[t]
    /\ Begin(t, "setup", "remove", t, FALSE)
    /\ UNCHANGED <<controllerVars, callback, threadVars>>

\* run leaves its loop; active stays as it is.
Exit(t) ==
    /\ phase[t] = "running" /\ op[t] = Idle /\ stopping[t]
    /\ mixActive' = [mixActive EXCEPT ![t] = FALSE]
    /\ Begin(t, "exit", "remove", t, FALSE)
    /\ UNCHANGED <<controllerVars, callback, active, phase, stopping, listed, held>>

\* The last reference to the demodulator is gone: ~DemodulatorInstance waits for
\* the thread to end and deletes it, and ~AudioThread drops its share of mixState.
Destroy(t) ==
    /\ phase[t] = "exited"
    /\ t \notin listed
    /\ \A c \in Callers : held[c] # t
    /\ phase' = [phase EXCEPT ![t] = "freed"]
    /\ mixActive' = [mixActive EXCEPT ![t] = FALSE]
    /\ UNCHANGED <<controllerVars, callback, op, active, stopping, listed, held>>

-----------------------------------------------------------------------------
Bind(a) == BindSource(a) \/ BindNowhere(a) \/ BindOwner(a)
Remove(a) == RemoveBegin(a) \/ ClearSource(a) \/ ScanHazard(a) \/ Erase(a)
Call(c) ==
    \/ \E t \in Threads : TakeReference(c, t)
    \/ DropReference(c)
    \/ \E t \in Threads : Activate(c, t) \/ Deactivate(c, t) \/ Delete(c, t)
    \/ Terminate(c)
Life(t) == Start(t) \/ ChangeDevice(t) \/ Exit(t) \/ Destroy(t)

Next ==
    \/ Callback
    \/ \E a \in Actors : Bind(a) \/ Remove(a) \/ Store(a)
    \/ \E c \in Callers : Call(c)
    \/ \E t \in Threads : Life(t)

Spec == Init /\ [][Next]_vars

\* The sound card calls back for as long as the stream runs, and a thread that
\* holds the mutex is scheduled.
Fairness ==
    /\ WF_vars(Callback)
    /\ \A a \in Actors : WF_vars(op[a].step \in Locked /\ (Bind(a) \/ Remove(a)))

FairSpec == Spec /\ Fairness

-----------------------------------------------------------------------------
TypeOK ==
    /\ mixSources \in [Slots -> Threads \cup {None}]
    /\ mixHazards \in [Slots -> Threads \cup {None}]
    /\ boundThreads \subseteq Threads
    /\ mixStateOwners \subseteq Threads
    /\ mutex \in Actors \cup {None}
    /\ callback \in [step : {"load", "announce", "recheck", "test", "render", "release"},
                     slot : Slots, state : Threads \cup {None}]
    /\ op \in [Actors -> [task : Tasks \cup {"none"}, step : Steps \cup {"idle"},
                          thread : Threads \cup {None}, unbinds : BOOLEAN, next : Slots]]
    /\ active \in [Threads -> BOOLEAN]
    /\ mixActive \in [Threads -> BOOLEAN]
    /\ phase \in [Threads -> {"new", "running", "exited", "freed"}]
    /\ stopping \in [Threads -> BOOLEAN]
    /\ listed \subseteq Threads
    /\ held \in [Callers -> Threads \cup {None}]

\* A mix state exists while its AudioThread or the controller holds a share of it.
StateExists(t) == phase[t] # "freed" \/ t \in mixStateOwners

\* The callback never touches a state that is gone: from its second look at the slot
\* to the end of render, whatever joins, leaves or is destroyed meanwhile.
UsedStateExists ==
    callback.step \in {"test", "render"} /\ callback.state # None
        => StateExists(callback.state)

\* When removeThread has seen no hazard, the callback has let go of the state and
\* cannot get it back: its caller may free it at once.
RemovedStateIsUnused ==
    \A a \in Actors :
        op[a].step = "erase" =>
            ~(callback.step \in {"test", "render"} /\ callback.state = op[a].thread)

\* removeThread, which spins on the hazards, always ends, and with it everyone who
\* waits for the controller's mutex.
RemovalEnds ==
    \A a \in Actors : op[a].step = "scan" ~> op[a].step # "scan"

\* What ~DemodulatorInstance takes for granted: no one uses a thread it deletes.  The
\* controller's boundThreads are plain pointers, used by its setSampleRate.
NoDanglingThread == \A t \in boundThreads : phase[t] # "freed"
=============================================================================
