-------------------------- MODULE MixSourcesProofs --------------------------
(***************************************************************************)
(* The hazard protocol of MixSources is safe for any number of threads,    *)
(* callers and slots.                                                      *)
(***************************************************************************)
EXTENDS MixSources, TLAPS

Using(t) == callback.step \in {"test", "render"} /\ callback.state = t

\* Between its second look at the slot and its release the callback is announced.
Announced ==
    callback.step \in {"recheck", "test", "render", "release"} =>
        mixHazards[callback.slot] = callback.state

\* An operation that binds or removes holds the mutex.
LockHeld == \A a \in Actors : op[a].step \in Locked => mutex = a

\* A state in a slot is owned by the controller, or about to be.
Kept(t) == t \in mixStateOwners \/ \E a \in Actors : op[a].step = "own" /\ op[a].thread = t
SourcesKept == \A i \in Slots : mixSources[i] # None => Kept(mixSources[i])
UsedKept == \A t \in Threads : Using(t) => Kept(t)

\* While the hazards are scanned the slots stay free of the state, so the callback
\* cannot come to use it; and it does not use it under a hazard already scanned.
ScanProgress ==
    \A a \in Actors :
        /\ op[a].step \in {"scan", "erase"} =>
               \A i \in Slots : mixSources[i] # op[a].thread
        /\ op[a].step = "scan" =>
               ~(Using(op[a].thread) /\ callback.slot < op[a].next)

\* An operation is on a thread that its actor keeps from being destroyed.
ThreadOps ==
    \A t \in Threads :
        op[t].step # "idle" => op[t].thread = t /\ phase[t] = "running"
CallerOps ==
    \A c \in Callers :
        op[c].step # "idle" =>
            /\ op[c].thread \in Threads
            /\ held[c] = op[c].thread
            /\ op[c].task \notin {"setup", "exit"}
ReferencesAlive ==
    /\ \A t \in listed : phase[t] # "freed"
    /\ \A c \in Callers : held[c] # None => phase[held[c]] # "freed"

IInv ==
    /\ TypeOK
    /\ Announced
    /\ LockHeld
    /\ SourcesKept
    /\ UsedKept
    /\ ScanProgress
    /\ RemovedStateIsUnused
    /\ ThreadOps
    /\ CallerOps
    /\ ReferencesAlive

-----------------------------------------------------------------------------
OpRecord == [task : Tasks \cup {"none"}, step : Steps \cup {"idle"},
             thread : Threads \cup {None}, unbinds : BOOLEAN, next : Slots]

LEMMA ZeroIsSlot == 0 \in Slots
  BY MixAssumption DEF Slots

\* What each way of moving an operation on leaves of it, and of the others.
LEMMA GoToEffect ==
    ASSUME op \in [Actors -> OpRecord], NEW a \in Actors, NEW s \in Steps, GoTo(a, s)
    PROVE  /\ op' \in [Actors -> OpRecord]
           /\ op'[a].step = s /\ op'[a].thread = op[a].thread
           /\ op'[a].task = op[a].task /\ op'[a].next = 0
           /\ \A b \in Actors : b # a => op'[b] = op[b]
  BY ZeroIsSlot DEF GoTo, OpRecord

LEMMA AdvanceEffect ==
    ASSUME op \in [Actors -> OpRecord], NEW a \in Actors, NEW i \in Slots, Advance(a, i)
    PROVE  /\ op' \in [Actors -> OpRecord]
           /\ op'[a].step = op[a].step /\ op'[a].thread = op[a].thread
           /\ op'[a].task = op[a].task /\ op'[a].next = i
           /\ \A b \in Actors : b # a => op'[b] = op[b]
  BY DEF Advance, OpRecord

LEMMA BeginEffect ==
    ASSUME op \in [Actors -> OpRecord], NEW a \in Actors, NEW task \in Tasks,
           NEW s \in Steps, NEW t \in Threads, NEW u \in BOOLEAN,
           Begin(a, task, s, t, u)
    PROVE  /\ op' \in [Actors -> OpRecord]
           /\ op'[a].step = s /\ op'[a].thread = t /\ op'[a].task = task
           /\ op'[a].next = 0
           /\ \A b \in Actors : b # a => op'[b] = op[b]
  BY ZeroIsSlot DEF Begin, Operation, OpRecord

LEMMA ReturnEffect ==
    ASSUME op \in [Actors -> OpRecord], NEW a \in Actors, Return(a)
    PROVE  /\ op' \in [Actors -> OpRecord]
           /\ op'[a].step = "idle"
           /\ \A b \in Actors : b # a => op'[b] = op[b]
  BY ZeroIsSlot DEF Return, Idle, OpRecord

-----------------------------------------------------------------------------
LEMMA InitInvariant == Init => IInv
  BY ZeroIsSlot, MixAssumption
     DEF Init, IInv, TypeOK, Announced, LockHeld, SourcesKept, UsedKept, Using, Kept,
         ScanProgress, RemovedStateIsUnused, ThreadOps, CallerOps, ReferencesAlive,
         Idle, Locked, Actors

\* A step of the callback leaves everything else to the others.
LEMMA CallbackFrameKeeps ==
    ASSUME IInv, CallbackFrame
    PROVE  LockHeld' /\ SourcesKept' /\ ThreadOps' /\ CallerOps' /\ ReferencesAlive'
  BY DEF IInv, CallbackFrame, threadVars, LockHeld, SourcesKept, Kept, ThreadOps,
         CallerOps, ReferencesAlive

\* A step after which the callback uses only what it used before keeps the facts
\* about the state in use.
LEMMA UseShrinks ==
    ASSUME IInv, CallbackFrame,
           \A t : Using(t)' => Using(t) /\ callback'.slot = callback.slot
    PROVE  UsedKept' /\ ScanProgress' /\ RemovedStateIsUnused'
  <1>1. UsedKept'
    BY DEF IInv, CallbackFrame, UsedKept, Kept
  <1>2. ScanProgress'
    BY DEF IInv, CallbackFrame, ScanProgress
  <1>3. RemovedStateIsUnused'
    BY DEF IInv, CallbackFrame, RemovedStateIsUnused, Using
  <1>4. QED
    BY <1>1, <1>2, <1>3

\* The callback: it uses a state only after it has seen it in a slot under its hazard.
LEMMA CallbackKeepsInvariant == IInv /\ Callback => IInv'
  <1> SUFFICES ASSUME IInv, Callback PROVE IInv'
    OBVIOUS
  <1> DEFINE Record == [step : {"load", "announce", "recheck", "test", "render", "release"},
                        slot : Slots, state : Threads \cup {None}]
  <1>0. CallbackFrame /\ callback \in Record /\ mixHazards \in [Slots -> Threads \cup {None}]
    BY DEF IInv, TypeOK, Callback, LoadSource, Announce, Recheck, TestActive, RenderDone,
           Release
  <1>a. /\ callback' \in Record /\ mixHazards' \in [Slots -> Threads \cup {None}]
        /\ Announced'
    <2>1. CASE LoadSource
      BY <1>0, <2>1 DEF LoadSource, IInv, TypeOK, Announced
    <2>2. CASE Announce
      BY <1>0, <2>2 DEF Announce, IInv, Announced
    <2>3. CASE Recheck
      BY <1>0, <2>3 DEF Recheck, IInv, Announced
    <2>4. CASE TestActive
      BY <1>0, <2>4 DEF TestActive, IInv, Announced
    <2>5. CASE RenderDone
      BY <1>0, <2>5 DEF RenderDone, IInv, Announced
    <2>6. CASE Release
      <3>1. (callback.slot + 1) % NumSlots \in Slots
        BY <1>0, MixAssumption DEF Slots
      <3>2. callback' \in Record /\ callback'.step = "load"
        BY <2>6, <3>1 DEF Release
      <3>3. mixHazards' \in [Slots -> Threads \cup {None}]
        BY <1>0, <2>6 DEF Release
      <3>4. QED
        BY <3>2, <3>3 DEF Announced
    <2>7. QED
      BY <2>1, <2>2, <2>3, <2>4, <2>5, <2>6 DEF Callback
  <1>b. TypeOK'
    BY <1>0, <1>a DEF IInv, TypeOK, CallbackFrame, threadVars
  <1>c. UsedKept' /\ ScanProgress' /\ RemovedStateIsUnused'
    <2>1. CASE Recheck
      <3>1. /\ callback'.state = callback.state /\ callback'.slot = callback.slot
            /\ callback'.step = "test" => mixSources[callback.slot] = callback.state
            /\ callback'.step \in {"test", "load"} /\ callback.slot \in Slots
        BY <1>0, <2>1 DEF Recheck
      <3>2. UsedKept'
        <4>1. ASSUME NEW t \in Threads, Using(t)' PROVE Kept(t)'
          <5>1. mixSources[callback.slot] = t /\ t # None
            BY <3>1, <4>1, MixAssumption DEF Using
          <5>2. Kept(t)
            BY <3>1, <5>1 DEF IInv, SourcesKept
          <5>3. QED
            BY <1>0, <5>2 DEF Kept, CallbackFrame
        <4>2. QED
          BY <4>1 DEF UsedKept
      <3>3. \A a \in Actors :
                op[a].step \in {"scan", "erase"} =>
                    ~(callback'.step = "test" /\ callback'.state = op[a].thread)
        BY <3>1 DEF IInv, ScanProgress
      <3>4. ScanProgress'
        BY <1>0, <3>1, <3>3 DEF IInv, ScanProgress, CallbackFrame, Using
      <3>5. RemovedStateIsUnused'
        BY <1>0, <3>1, <3>3 DEF RemovedStateIsUnused, CallbackFrame
      <3>6. QED
        BY <3>2, <3>4, <3>5
    <2>2. CASE LoadSource \/ Announce \/ TestActive \/ RenderDone \/ Release
      <3>1. ASSUME NEW t, Using(t)' PROVE Using(t) /\ callback'.slot = callback.slot
        <4>1. CASE TestActive \/ RenderDone
          <5>1. /\ callback.step \in {"test", "render"}
                /\ callback'.state = callback.state /\ callback'.slot = callback.slot
            BY <1>0, <4>1 DEF TestActive, RenderDone
          <5>2. QED
            BY <3>1, <5>1 DEF Using
        <4>2. CASE LoadSource \/ Announce \/ Release
          <5>1. callback'.step \in {"announce", "recheck", "load"}
            <6>1. CASE LoadSource
              BY <1>0, <6>1 DEF LoadSource
            <6>2. CASE Announce
              BY <1>0, <6>2 DEF Announce
            <6>3. CASE Release
              BY <6>3 DEF Release
            <6>4. QED
              BY <4>2, <6>1, <6>2, <6>3
          <5>2. QED
            BY <3>1, <5>1 DEF Using
        <4>3. QED
          BY <2>2, <4>1, <4>2
      <3>2. QED
        BY <1>0, <3>1, UseShrinks
    <2>3. QED
      BY <2>1, <2>2 DEF Callback
  <1>d. QED
    BY <1>0, <1>a, <1>b, <1>c, CallbackFrameKeeps DEF IInv

-----------------------------------------------------------------------------
LEMMA OpThread ==
    ASSUME IInv, NEW a \in Actors, op[a].step # "idle"
    PROVE  op[a].thread \in Threads /\ phase[op[a].thread] # "freed"
  BY MixAssumption DEF IInv, Actors, ThreadOps, CallerOps, ReferencesAlive

\* Actor a moves its operation on, or ends it; the lives of the threads stay.
MovesOn(a) ==
    /\ op[a].step # "idle"
    /\ op'[a].step # "idle" => op'[a].thread = op[a].thread /\ op'[a].task = op[a].task
    /\ \A b \in Actors : b # a => op'[b] = op[b]
    /\ UNCHANGED <<phase, listed, held>>

LEMMA MovesOnKeeps ==
    ASSUME IInv, NEW a \in Actors, MovesOn(a)
    PROVE  ThreadOps' /\ CallerOps' /\ ReferencesAlive'
  BY DEF IInv, MovesOn, Actors, ThreadOps, CallerOps, ReferencesAlive

LEMMA BindSourceKeeps == \A a \in Actors : IInv /\ BindSource(a) => IInv'
  <1> SUFFICES ASSUME NEW a \in Actors, IInv, BindSource(a) PROVE IInv'
    OBVIOUS
  <1>1. /\ op \in [Actors -> OpRecord] /\ op[a].step = "bind" /\ mutex = None
        /\ op[a].thread \in Threads /\ GoTo(a, "own") /\ "own" \in Steps
    BY OpThread DEF BindSource, IInv, TypeOK, OpRecord, Steps, Locked
  <1>2. /\ op' \in [Actors -> OpRecord]
        /\ op'[a].step = "own" /\ op'[a].thread = op[a].thread
        /\ op'[a].task = op[a].task
        /\ \A b \in Actors : b # a => op'[b] = op[b]
    BY <1>1, GoToEffect
  <1>3. \A b \in Actors : op[b].step \notin Locked
    BY <1>1, MixAssumption DEF IInv, LockHeld, Actors
  <1>4. TypeOK' /\ Announced'
    BY <1>1, <1>2 DEF BindSource, IInv, TypeOK, Announced, OpRecord, threadVars
  <1>5. LockHeld'
    BY <1>2, <1>3 DEF BindSource, LockHeld
  <1>6. \A t \in Threads : Kept(t) => Kept(t)'
    BY <1>3 DEF BindSource, Kept, Locked
  <1>7. SourcesKept'
    <2>1. ASSUME NEW i \in Slots, mixSources'[i] # None PROVE Kept(mixSources[i])'
      <3>1. mixSources'[i] = mixSources[i] \/ mixSources'[i] = op[a].thread
        BY DEF BindSource, IInv, TypeOK
      <3>2. mixSources[i] \in Threads \cup {None}
        BY DEF IInv, TypeOK
      <3>3. CASE mixSources'[i] = mixSources[i]
        BY <1>6, <2>1, <3>2, <3>3 DEF IInv, SourcesKept, Kept
      <3>4. CASE mixSources'[i] = op[a].thread
        BY <1>2, <3>4 DEF Kept
      <3>5. QED
        BY <3>1, <3>3, <3>4
    <2>2. QED
      BY <2>1 DEF SourcesKept, Kept
  <1>8. UsedKept'
    BY <1>6 DEF BindSource, IInv, UsedKept, Using
  <1>9. ScanProgress' /\ RemovedStateIsUnused'
    BY <1>2, <1>3 DEF ScanProgress, RemovedStateIsUnused, Locked
  <1>10. MovesOn(a)
    BY <1>1, <1>2 DEF BindSource, MovesOn, threadVars
  <1>11. QED
    BY <1>4, <1>5, <1>7, <1>8, <1>9, <1>10, MovesOnKeeps DEF IInv

\* An operation that is outside the mutex before and after its step, and leaves the
\* controller alone.
OutsideLock(a) ==
    /\ op[a].step \notin Locked /\ op'[a].step \notin Locked
    /\ \A b \in Actors : b # a => op'[b] = op[b]
    /\ UNCHANGED <<controllerVars, callback>>

LEMMA OutsideLockKeeps ==
    ASSUME IInv, NEW a \in Actors, OutsideLock(a)
    PROVE  /\ Announced' /\ LockHeld' /\ SourcesKept' /\ UsedKept'
           /\ ScanProgress' /\ RemovedStateIsUnused'
  <1>1. Announced' /\ LockHeld'
    BY DEF IInv, OutsideLock, controllerVars, Announced, LockHeld
  <1>2. \A t : Kept(t) => Kept(t)'
    BY DEF OutsideLock, controllerVars, Kept, Locked
  <1>3. SourcesKept'
    BY <1>2 DEF IInv, OutsideLock, controllerVars, SourcesKept, Kept
  <1>4. UsedKept'
    BY <1>2 DEF IInv, OutsideLock, UsedKept, Using
  <1>5. ScanProgress'
    BY DEF IInv, OutsideLock, controllerVars, ScanProgress, Using, Locked
  <1>6. RemovedStateIsUnused'
    BY DEF IInv, OutsideLock, RemovedStateIsUnused, Locked
  <1>7. QED
    BY <1>1, <1>3, <1>4, <1>5, <1>6

LEMMA BindNowhereKeeps == \A a \in Actors : IInv /\ BindNowhere(a) => IInv'
  <1> SUFFICES ASSUME NEW a \in Actors, IInv, BindNowhere(a) PROVE IInv'
    OBVIOUS
  <1>1. /\ op \in [Actors -> OpRecord] /\ op[a].step = "bind"
        /\ GoTo(a, "store") /\ "store" \in Steps
    BY DEF BindNowhere, IInv, TypeOK, OpRecord, Steps
  <1>2. /\ op' \in [Actors -> OpRecord]
        /\ op'[a].step = "store" /\ op'[a].thread = op[a].thread
        /\ op'[a].task = op[a].task
        /\ \A b \in Actors : b # a => op'[b] = op[b]
    BY <1>1, GoToEffect
  <1>3. OutsideLock(a)
    BY <1>1, <1>2 DEF BindNowhere, OutsideLock, controllerVars, threadVars, Locked
  <1>4. TypeOK'
    BY <1>2 DEF BindNowhere, IInv, TypeOK, OpRecord, controllerVars, threadVars
  <1>5. MovesOn(a)
    BY <1>1, <1>2 DEF BindNowhere, MovesOn, threadVars
  <1>6. QED
    BY <1>3, <1>4, <1>5, OutsideLockKeeps, MovesOnKeeps DEF IInv

\* Inside the mutex an actor is alone.
LEMMA LockedAlone ==
    ASSUME IInv, NEW a \in Actors, op[a].step \in Locked
    PROVE  /\ mutex = a
           /\ \A b \in Actors : b # a => op[b].step \notin Locked
  BY DEF IInv, LockHeld

LEMMA BindOwnerKeeps == \A a \in Actors : IInv /\ BindOwner(a) => IInv'
  <1> SUFFICES ASSUME NEW a \in Actors, IInv, BindOwner(a) PROVE IInv'
    OBVIOUS
  <1>1. /\ op \in [Actors -> OpRecord] /\ op[a].step = "own"
        /\ op[a].thread \in Threads /\ GoTo(a, "store") /\ "store" \in Steps
    BY OpThread DEF BindOwner, IInv, TypeOK, OpRecord, Steps
  <1>2. /\ op' \in [Actors -> OpRecord]
        /\ op'[a].step = "store" /\ op'[a].thread = op[a].thread
        /\ op'[a].task = op[a].task
        /\ \A b \in Actors : b # a => op'[b] = op[b]
    BY <1>1, GoToEffect
  <1>3. \A b \in Actors : b # a => op[b].step \notin Locked
    BY <1>1, LockedAlone DEF Locked
  <1>4. TypeOK' /\ Announced'
    BY <1>1, <1>2 DEF BindOwner, IInv, TypeOK, Announced, OpRecord, threadVars
  <1>5. LockHeld' /\ ScanProgress' /\ RemovedStateIsUnused'
    BY <1>2, <1>3 DEF LockHeld, ScanProgress, RemovedStateIsUnused, Locked
  <1>6. \A t : Kept(t) => Kept(t)'
    BY <1>3 DEF BindOwner, Kept, Locked
  <1>7. SourcesKept' /\ UsedKept'
    BY <1>6 DEF BindOwner, IInv, SourcesKept, UsedKept, Using, Kept
  <1>8. MovesOn(a)
    BY <1>1, <1>2 DEF BindOwner, MovesOn, threadVars
  <1>9. QED
    BY <1>4, <1>5, <1>7, <1>8, MovesOnKeeps DEF IInv

LEMMA RemoveBeginKeeps == \A a \in Actors : IInv /\ RemoveBegin(a) => IInv'
  <1> SUFFICES ASSUME NEW a \in Actors, IInv, RemoveBegin(a) PROVE IInv'
    OBVIOUS
  <1> DEFINE s == IF SlotsOf(op[a].thread) = {} THEN "scan" ELSE "clear"
  <1>1. /\ op \in [Actors -> OpRecord] /\ op[a].step = "remove" /\ mutex = None
        /\ GoTo(a, s) /\ s \in Steps /\ s \in {"scan", "clear"}
    BY DEF RemoveBegin, IInv, TypeOK, OpRecord, Steps, Locked
  <1>2. s = "scan" => \A i \in Slots : mixSources[i] # op[a].thread
    BY DEF SlotsOf
  <1> HIDE DEF s
  <1>3. /\ op' \in [Actors -> OpRecord]
        /\ op'[a].step = s /\ op'[a].thread = op[a].thread
        /\ op'[a].task = op[a].task /\ op'[a].next = 0
        /\ \A b \in Actors : b # a => op'[b] = op[b]
    BY <1>1, GoToEffect
  <1>4. \A b \in Actors : op[b].step \notin Locked
    BY <1>1, MixAssumption DEF IInv, LockHeld, Actors
  <1>5. TypeOK' /\ Announced'
    BY <1>1, <1>3 DEF RemoveBegin, IInv, TypeOK, Announced, OpRecord, threadVars
  <1>6. LockHeld' /\ RemovedStateIsUnused'
    BY <1>1, <1>3, <1>4 DEF RemoveBegin, LockHeld, RemovedStateIsUnused, Locked
  <1>7. ScanProgress'
    <2>1. callback'.slot \in Slots /\ ~(callback'.slot < 0)
      BY DEF RemoveBegin, IInv, TypeOK, Slots
    <2>2. QED
      BY <1>1, <1>2, <1>3, <1>4, <2>1 DEF RemoveBegin, ScanProgress, Locked
  <1>8. \A t : Kept(t) => Kept(t)'
    BY <1>4 DEF RemoveBegin, Kept, Locked
  <1>9. SourcesKept' /\ UsedKept'
    BY <1>8 DEF RemoveBegin, IInv, SourcesKept, UsedKept, Using, Kept
  <1>10. MovesOn(a)
    BY <1>1, <1>3 DEF RemoveBegin, MovesOn, threadVars
  <1>11. QED
    BY <1>5, <1>6, <1>7, <1>9, <1>10, MovesOnKeeps DEF IInv

LEMMA ClearSourceKeeps == \A a \in Actors : IInv /\ ClearSource(a) => IInv'
  <1> SUFFICES ASSUME NEW a \in Actors, IInv, ClearSource(a) PROVE IInv'
    OBVIOUS
  <1> DEFINE i == First(SlotsOf(op[a].thread))
             s == IF SlotsOf(op[a].thread) = {i} THEN "scan" ELSE "clear"
  <1>1. /\ op \in [Actors -> OpRecord] /\ op[a].step = "clear"
        /\ GoTo(a, s) /\ s \in Steps /\ s \in {"scan", "clear"}
        /\ mixSources' = [mixSources EXCEPT ![i] = None]
        /\ op[a].thread \in Threads
    BY OpThread DEF ClearSource, IInv, TypeOK, OpRecord, Steps, Locked
  <1>2. s = "scan" => \A j \in Slots : mixSources'[j] # op[a].thread
    BY <1>1, MixAssumption DEF IInv, TypeOK, SlotsOf
  <1>3. \A j \in Slots : mixSources'[j] = mixSources[j] \/ mixSources'[j] = None
    BY <1>1 DEF IInv, TypeOK
  <1>4. mixSources' \in [Slots -> Threads \cup {None}]
    BY <1>1 DEF IInv, TypeOK
  <1> HIDE DEF s, i
  <1>5. /\ op' \in [Actors -> OpRecord]
        /\ op'[a].step = s /\ op'[a].thread = op[a].thread
        /\ op'[a].task = op[a].task /\ op'[a].next = 0
        /\ \A b \in Actors : b # a => op'[b] = op[b]
    BY <1>1, GoToEffect
  <1>6. mutex = a /\ \A b \in Actors : b # a => op[b].step \notin Locked
    BY <1>1, LockedAlone DEF Locked
  <1>7. TypeOK' /\ Announced'
    BY <1>4, <1>5 DEF ClearSource, IInv, TypeOK, Announced, OpRecord, threadVars
  <1>8. LockHeld' /\ RemovedStateIsUnused'
    BY <1>1, <1>5, <1>6 DEF ClearSource, LockHeld, RemovedStateIsUnused, Locked
  <1>9. ScanProgress'
    <2>1. callback'.slot \in Slots /\ ~(callback'.slot < 0)
      BY DEF ClearSource, IInv, TypeOK, Slots
    <2>2. QED
      BY <1>1, <1>2, <1>5, <1>6, <2>1 DEF ScanProgress, Locked
  <1>10. \A t : Kept(t) => Kept(t)'
    BY <1>1, <1>5, <1>6 DEF ClearSource, Kept, Locked
  <1>11. SourcesKept' /\ UsedKept'
    BY <1>3, <1>10 DEF ClearSource, IInv, SourcesKept, UsedKept, Using, Kept
  <1>12. MovesOn(a)
    BY <1>1, <1>5 DEF ClearSource, MovesOn, threadVars
  <1>13. QED
    BY <1>7, <1>8, <1>9, <1>11, <1>12, MovesOnKeeps DEF IInv

LEMMA ScanHazardKeeps == \A a \in Actors : IInv /\ ScanHazard(a) => IInv'
  <1> SUFFICES ASSUME NEW a \in Actors, IInv, ScanHazard(a) PROVE IInv'
    OBVIOUS
  <1> DEFINE t == op[a].thread
             n == op[a].next
  <1>1. /\ op \in [Actors -> OpRecord] /\ op[a].step = "scan"
        /\ t \in Threads /\ n \in Slots
    BY OpThread DEF ScanHazard, IInv, TypeOK, OpRecord
  <1>2. mutex = a /\ \A b \in Actors : b # a => op[b].step \notin Locked
    BY <1>1, LockedAlone DEF Locked
  \* A hazard that names another state is not in front of a use of this one.
  <1>3. mixHazards[n] # t => ~(Using(t) /\ callback.slot = n)
    BY DEF IInv, Announced, Using
  <1>4. /\ op' \in [Actors -> OpRecord]
        /\ op'[a].thread = t /\ op'[a].task = op[a].task
        /\ op'[a].step \in {"scan", "erase"}
        /\ op'[a].step = "scan" =>
               op'[a].next = 0 \/ (op'[a].next = n + 1 /\ mixHazards[n] # t)
        /\ op'[a].step = "erase" => n = NumSlots - 1 /\ mixHazards[n] # t
        /\ \A b \in Actors : b # a => op'[b] = op[b]
    <2>1. CASE mixHazards[n] = t
      <3>1. Advance(a, 0)
        BY <2>1 DEF ScanHazard
      <3>2. QED
        BY <1>1, <3>1, AdvanceEffect, ZeroIsSlot
    <2>2. CASE mixHazards[n] # t /\ n = NumSlots - 1
      <3>1. GoTo(a, "erase") /\ "erase" \in Steps
        BY <2>2 DEF ScanHazard, Steps, Locked
      <3>2. QED
        BY <1>1, <2>2, <3>1, GoToEffect
    <2>3. CASE mixHazards[n] # t /\ n # NumSlots - 1
      <3>1. Advance(a, n + 1)
        BY <2>3 DEF ScanHazard
      <3>2. n + 1 \in Slots
        BY <1>1, <2>3, MixAssumption DEF Slots
      <3>3. QED
        BY <1>1, <2>3, <3>1, <3>2, AdvanceEffect
    <2>4. QED
      BY <2>1, <2>2, <2>3
  <1>5. ~(Using(t) /\ callback.slot < n) /\ callback.slot \in Slots
    BY <1>1 DEF IInv, TypeOK, ScanProgress
  <1>6. TypeOK' /\ Announced'
    BY <1>4 DEF ScanHazard, IInv, TypeOK, Announced, OpRecord, controllerVars, threadVars
  <1>7. LockHeld'
    BY <1>2, <1>4 DEF ScanHazard, controllerVars, LockHeld
  <1>8. ScanProgress'
    <2>1. \A j \in Slots : mixSources'[j] # t
      BY <1>1 DEF ScanHazard, controllerVars, IInv, ScanProgress
    <2>2. op'[a].step = "scan" =>
              ~(callback.step \in {"test", "render"} /\ callback.state = t
                  /\ callback.slot < op'[a].next)
      BY <1>1, <1>3, <1>4, <1>5 DEF Slots, Using
    <2>3. QED
      BY <1>2, <1>4, <2>1, <2>2 DEF ScanHazard, ScanProgress, Using, Locked
  <1>9. RemovedStateIsUnused'
    <2>1. op'[a].step = "erase" => ~Using(t)
      BY <1>1, <1>3, <1>4, <1>5, MixAssumption DEF Slots
    <2>2. QED
      BY <1>2, <1>4, <2>1 DEF ScanHazard, RemovedStateIsUnused, Using, Locked
  <1>10. \A u : Kept(u) => Kept(u)'
    BY <1>1, <1>4 DEF ScanHazard, controllerVars, Kept
  <1>11. SourcesKept' /\ UsedKept'
    BY <1>10 DEF ScanHazard, controllerVars, IInv, SourcesKept, UsedKept, Using, Kept
  <1>12. MovesOn(a)
    BY <1>1, <1>4 DEF ScanHazard, MovesOn, threadVars
  <1>13. QED
    BY <1>6, <1>7, <1>8, <1>9, <1>11, <1>12, MovesOnKeeps DEF IInv

LEMMA ReturnFromSetActiveEffect ==
    ASSUME op \in [Actors -> OpRecord], NEW a \in Actors, ReturnFromSetActive(a)
    PROVE  /\ op' \in [Actors -> OpRecord]
           /\ op'[a].step \in {"terminate", "idle"}
           /\ op'[a].step # "idle" =>
                  op'[a].thread = op[a].thread /\ op'[a].task = op[a].task
           /\ \A b \in Actors : b # a => op'[b] = op[b]
  <1>1. "terminate" \in Steps
    BY DEF Steps
  <1>2. CASE op[a].task = "delete"
    BY <1>1, <1>2, GoToEffect DEF ReturnFromSetActive
  <1>3. CASE op[a].task # "delete"
    BY <1>3, ReturnEffect DEF ReturnFromSetActive
  <1>4. QED
    BY <1>2, <1>3

LEMMA EraseKeeps == \A a \in Actors : IInv /\ Erase(a) => IInv'
  <1> SUFFICES ASSUME NEW a \in Actors, IInv, Erase(a) PROVE IInv'
    OBVIOUS
  <1> DEFINE t == op[a].thread
  <1>1. /\ op \in [Actors -> OpRecord] /\ op[a].step = "erase" /\ t \in Threads
    BY OpThread DEF Erase, IInv, TypeOK, OpRecord
  <1>2. mutex = a /\ \A b \in Actors : b # a => op[b].step \notin Locked
    BY <1>1, LockedAlone DEF Locked
  <1>3. /\ op' \in [Actors -> OpRecord]
        /\ op'[a].step \in {"bind", "terminate", "idle"}
        /\ op'[a].step # "idle" => op'[a].thread = t /\ op'[a].task = op[a].task
        /\ op[a].task = "exit" => op'[a].step = "idle"
        /\ \A b \in Actors : b # a => op'[b] = op[b]
    <2>1. CASE op[a].task = "setup"
      <3>1. GoTo(a, "bind") /\ "bind" \in Steps
        BY <2>1 DEF Erase, Steps
      <3>2. QED
        BY <1>1, <2>1, <3>1, GoToEffect
    <2>2. CASE op[a].task = "exit"
      <3>1. Return(a)
        BY <2>2 DEF Erase
      <3>2. QED
        BY <1>1, <3>1, ReturnEffect
    <2>3. CASE op[a].task \notin {"setup", "exit"}
      <3>1. ReturnFromSetActive(a)
        BY <2>3 DEF Erase
      <3>2. QED
        BY <1>1, <2>3, <3>1, ReturnFromSetActiveEffect
    <2>4. QED
      BY <2>1, <2>2, <2>3
  <1>4. /\ phase' \in [Threads -> {"new", "running", "exited", "freed"}]
        /\ \A u \in Threads : phase'[u] = phase[u] \/ (phase'[u] = "exited" /\ u = t)
        /\ op[a].task # "exit" => phase' = phase
    BY <1>1 DEF Erase, IInv, TypeOK
  <1>5. TypeOK' /\ Announced'
    BY <1>3, <1>4 DEF Erase, IInv, TypeOK, Announced, OpRecord
  <1>6. LockHeld' /\ ScanProgress' /\ RemovedStateIsUnused'
    BY <1>2, <1>3 DEF LockHeld, ScanProgress, RemovedStateIsUnused, Locked
  <1>7. \A u : Kept(u) /\ u # t => Kept(u)'
    BY <1>1, <1>2 DEF Erase, Kept, Locked
  <1>8. SourcesKept'
    <2>1. \A i \in Slots : mixSources[i] # t
      BY <1>1 DEF IInv, ScanProgress
    <2>2. QED
      BY <1>7, <2>1 DEF Erase, IInv, SourcesKept, Kept
  <1>9. UsedKept'
    <2>1. ~Using(t)
      BY <1>1 DEF IInv, RemovedStateIsUnused, Using
    <2>2. QED
      BY <1>7, <2>1 DEF Erase, IInv, UsedKept, Using
  <1>10. ThreadOps'
    <2>1. ASSUME NEW u \in Threads, op'[u].step # "idle"
          PROVE  op'[u].thread = u /\ phase'[u] = "running"
      <3>1. op[u].step # "idle" /\ op[u].thread = u /\ phase[u] = "running"
            /\ op'[u].thread = u
        BY <1>1, <1>3, <2>1 DEF Actors, IInv, ThreadOps
      <3>2. CASE op[a].task = "exit"
        <4>1. a \in Threads /\ t = a
          BY <1>1, <3>2 DEF Actors, IInv, CallerOps, ThreadOps
        <4>2. QED
          BY <1>3, <1>4, <2>1, <3>1, <3>2, <4>1
      <3>3. CASE op[a].task # "exit"
        BY <1>4, <3>1, <3>3
      <3>4. QED
        BY <3>2, <3>3
    <2>2. QED
      BY <2>1 DEF ThreadOps
  <1>11. CallerOps'
    BY <1>1, <1>3 DEF Erase, Actors, IInv, CallerOps
  <1>12. ReferencesAlive'
    BY <1>4 DEF Erase, IInv, TypeOK, ReferencesAlive
  <1>13. QED
    BY <1>5, <1>6, <1>8, <1>9, <1>10, <1>11, <1>12 DEF IInv

LEMMA StoreKeeps == \A a \in Actors : IInv /\ Store(a) => IInv'
  <1> SUFFICES ASSUME NEW a \in Actors, IInv, Store(a) PROVE IInv'
    OBVIOUS
  <1>1. op \in [Actors -> OpRecord] /\ op[a].step = "store"
    BY DEF Store, IInv, TypeOK, OpRecord
  <1>2. /\ op' \in [Actors -> OpRecord]
        /\ op'[a].step \in {"remove", "terminate", "idle"}
        /\ op'[a].step # "idle" =>
               op'[a].thread = op[a].thread /\ op'[a].task = op[a].task
        /\ \A b \in Actors : b # a => op'[b] = op[b]
    <2>1. CASE op[a].unbinds
      <3>1. GoTo(a, "remove") /\ "remove" \in Steps
        BY <2>1 DEF Store, Steps
      <3>2. QED
        BY <1>1, <3>1, GoToEffect
    <2>2. CASE ~op[a].unbinds
      <3>1. ReturnFromSetActive(a)
        BY <2>2 DEF Store
      <3>2. QED
        BY <1>1, <3>1, ReturnFromSetActiveEffect
    <2>3. QED
      BY <2>1, <2>2
  <1>3. OutsideLock(a)
    BY <1>1, <1>2 DEF Store, OutsideLock, Locked
  <1>4. TypeOK'
    <2> DEFINE on == op[a].task \in {"activate", "setup"}
    <2>0. /\ active' = [active EXCEPT ![op[a].thread] = on]
          /\ mixActive' = [mixActive EXCEPT ![op[a].thread] = on]
          /\ on \in BOOLEAN
      BY DEF Store
    <2> HIDE DEF on
    <2>1. active' \in [Threads -> BOOLEAN] /\ mixActive' \in [Threads -> BOOLEAN]
      BY <2>0 DEF IInv, TypeOK
    <2>2. QED
      BY <1>2, <2>1 DEF Store, IInv, TypeOK, OpRecord, controllerVars
  <1>5. MovesOn(a)
    BY <1>1, <1>2 DEF Store, MovesOn
  <1>6. QED
    BY <1>3, <1>4, <1>5, OutsideLockKeeps, MovesOnKeeps DEF IInv

LEMMA TerminateKeeps == \A c \in Callers : IInv /\ Terminate(c) => IInv'
  <1> SUFFICES ASSUME NEW c \in Callers, IInv, Terminate(c) PROVE IInv'
    OBVIOUS
  <1>1. op \in [Actors -> OpRecord] /\ op[c].step = "terminate" /\ c \in Actors
    BY DEF Terminate, IInv, TypeOK, OpRecord, Actors
  <1>2. /\ op' \in [Actors -> OpRecord] /\ op'[c].step = "idle"
        /\ \A b \in Actors : b # c => op'[b] = op[b]
    BY <1>1, ReturnEffect DEF Terminate
  <1>3. OutsideLock(c)
    BY <1>1, <1>2 DEF Terminate, OutsideLock, Locked
  <1>4. TypeOK'
    BY <1>2 DEF Terminate, IInv, TypeOK, OpRecord, controllerVars
  <1>5. ThreadOps' /\ CallerOps' /\ ReferencesAlive'
    BY <1>2, MixAssumption
       DEF Terminate, Actors, IInv, TypeOK, ThreadOps, CallerOps, ReferencesAlive
  <1>6. QED
    BY <1>1, <1>3, <1>4, <1>5, OutsideLockKeeps DEF IInv

\* A step that moves no operation and leaves the controller alone.
Elsewhere == UNCHANGED <<controllerVars, callback, op>>

LEMMA ElsewhereKeeps ==
    ASSUME IInv, Elsewhere
    PROVE  /\ Announced' /\ LockHeld' /\ SourcesKept' /\ UsedKept'
           /\ ScanProgress' /\ RemovedStateIsUnused'
  <1>1. Announced' /\ LockHeld' /\ SourcesKept'
    BY DEF IInv, Elsewhere, controllerVars, Announced, LockHeld, SourcesKept, Kept
  <1>2. UsedKept' /\ ScanProgress' /\ RemovedStateIsUnused'
    BY DEF IInv, Elsewhere, controllerVars, UsedKept, ScanProgress, RemovedStateIsUnused,
           Using, Kept
  <1>3. QED
    BY <1>1, <1>2

\* Taking and dropping references, and destroying what no one refers to.
LEMMA ReferencesKeep ==
    IInv /\ (\/ \E c \in Callers, t \in Threads : TakeReference(c, t)
             \/ \E c \in Callers : DropReference(c)
             \/ \E t \in Threads : Destroy(t)) => IInv'
  <1> USE MixAssumption
  <1>1. ASSUME IInv, NEW c \in Callers, NEW t \in Threads, TakeReference(c, t) PROVE IInv'
    <2>1. TypeOK' /\ Elsewhere
      BY <1>1 DEF TakeReference, Elsewhere, controllerVars, IInv, TypeOK
    <2>2. ThreadOps' /\ CallerOps' /\ ReferencesAlive'
      BY <1>1
         DEF TakeReference, IInv, TypeOK, Idle, ThreadOps, CallerOps, ReferencesAlive
    <2>3. QED
      BY <1>1, <2>1, <2>2, ElsewhereKeeps DEF IInv
  <1>2. ASSUME IInv, NEW c \in Callers, DropReference(c) PROVE IInv'
    <2>1. TypeOK' /\ Elsewhere
      BY <1>2 DEF DropReference, Elsewhere, controllerVars, IInv, TypeOK
    <2>2. ThreadOps' /\ CallerOps' /\ ReferencesAlive'
      BY <1>2
         DEF DropReference, IInv, TypeOK, Idle, ThreadOps, CallerOps, ReferencesAlive
    <2>3. QED
      BY <1>2, <2>1, <2>2, ElsewhereKeeps DEF IInv
  <1>3. ASSUME IInv, NEW t \in Threads, Destroy(t) PROVE IInv'
    <2>1. TypeOK' /\ Elsewhere
      BY <1>3 DEF Destroy, Elsewhere, controllerVars, IInv, TypeOK
    <2>2. ThreadOps' /\ CallerOps' /\ ReferencesAlive'
      BY <1>3 DEF Destroy, IInv, TypeOK, ThreadOps, CallerOps, ReferencesAlive
    <2>3. QED
      BY <1>3, <2>1, <2>2, ElsewhereKeeps DEF IInv
  <1>4. QED
    BY <1>1, <1>2, <1>3

\* An idle actor begins an operation on a thread.
LEMMA BeginKeeps ==
    ASSUME IInv, NEW a \in Actors, NEW t \in Threads, NEW task \in Tasks,
           NEW s \in Steps \ Locked, NEW u \in BOOLEAN,
           op[a].step = "idle", Begin(a, task, s, t, u), UNCHANGED <<controllerVars, callback>>
    PROVE  /\ op' \in [Actors -> OpRecord]
           /\ op'[a].thread = t /\ op'[a].task = task
           /\ \A b \in Actors : b # a => op'[b] = op[b]
           /\ Announced' /\ LockHeld' /\ SourcesKept' /\ UsedKept'
           /\ ScanProgress' /\ RemovedStateIsUnused'
  <1>1. op \in [Actors -> OpRecord] /\ op[a].step = "idle" /\ s \in Steps
    BY DEF IInv, TypeOK, OpRecord
  <1>2. /\ op' \in [Actors -> OpRecord]
        /\ op'[a].step = s /\ op'[a].thread = t /\ op'[a].task = task
        /\ \A b \in Actors : b # a => op'[b] = op[b]
    BY <1>1, BeginEffect
  <1>3. OutsideLock(a)
    BY <1>1, <1>2 DEF OutsideLock, Locked
  <1>4. QED
    BY <1>2, <1>3, OutsideLockKeeps

LEMMA CallerBeginsKeep ==
    IInv /\ (\E c \in Callers, t \in Threads :
                Activate(c, t) \/ Deactivate(c, t) \/ Delete(c, t)) => IInv'
  <1> SUFFICES ASSUME IInv, NEW c \in Callers, NEW t \in Threads,
                      Activate(c, t) \/ Deactivate(c, t) \/ Delete(c, t)
               PROVE  IInv'
    OBVIOUS
  <1>1. c \in Actors /\ op[c].step = "idle" /\ held[c] = t
    <2>1. op[c] = Idle /\ held[c] = t
      BY DEF Activate, Deactivate, Delete
    <2>2. QED
      BY <2>1 DEF Actors, Idle
  <1>2. \E task \in Tasks \ {"setup", "exit"}, s \in Steps \ Locked, u \in BOOLEAN :
            Begin(c, task, s, t, u)
    <2>1. CASE Activate(c, t)
      <3>1. PICK s \in {"bind", "store"} : Begin(c, "activate", s, t, FALSE)
        BY <2>1 DEF Activate
      <3>2. QED
        BY <3>1 DEF Tasks, Steps, Locked
    <2>2. CASE Deactivate(c, t)
      BY <2>2 DEF Deactivate, Tasks, Steps, Locked, IInv, TypeOK
    <2>3. CASE Delete(c, t)
      BY <2>3 DEF Delete, Tasks, Steps, Locked, IInv, TypeOK
    <2>4. QED
      BY <2>1, <2>2, <2>3
  <1>3. PICK task \in Tasks \ {"setup", "exit"}, s \in Steps \ Locked, u \in BOOLEAN :
            Begin(c, task, s, t, u)
    BY <1>2
  <1>4. /\ UNCHANGED <<controllerVars, callback, active, mixActive, phase, stopping, held>>
        /\ listed' \subseteq listed
    BY DEF Activate, Deactivate, Delete, threadVars
  <1>5. /\ op' \in [Actors -> OpRecord]
        /\ op'[c].thread = t /\ op'[c].task = task
        /\ \A b \in Actors : b # c => op'[b] = op[b]
        /\ Announced' /\ LockHeld' /\ SourcesKept' /\ UsedKept'
        /\ ScanProgress' /\ RemovedStateIsUnused'
    BY <1>1, <1>3, <1>4, BeginKeeps
  <1>6. TypeOK'
    BY <1>4, <1>5 DEF IInv, TypeOK, OpRecord, controllerVars
  <1>7. ThreadOps' /\ CallerOps' /\ ReferencesAlive'
    BY <1>1, <1>3, <1>4, <1>5, MixAssumption
       DEF Actors, IInv, ThreadOps, CallerOps, ReferencesAlive
  <1>8. QED
    BY <1>5, <1>6, <1>7 DEF IInv

LEMMA ThreadBeginsKeep ==
    IInv /\ (\E t \in Threads : Start(t) \/ ChangeDevice(t) \/ Exit(t)) => IInv'
  <1> SUFFICES ASSUME IInv, NEW t \in Threads, Start(t) \/ ChangeDevice(t) \/ Exit(t)
               PROVE  IInv'
    OBVIOUS
  <1>1. t \in Actors /\ op[t].step = "idle"
    <2>1. CASE Start(t)
      BY <2>1 DEF Start, Actors, IInv, ThreadOps
    <2>2. CASE op[t] = Idle
      BY <2>2 DEF Actors, Idle
    <2>3. QED
      BY <2>1, <2>2 DEF ChangeDevice, Exit
  <1>2. PICK task \in {"setup", "exit"} : Begin(t, task, "remove", t, FALSE)
    BY DEF Start, ChangeDevice, Exit
  <1>3. UNCHANGED <<controllerVars, callback, listed, held>>
    BY DEF Start, ChangeDevice, Exit, threadVars
  <1>4. /\ phase'[t] = "running"
        /\ phase' \in [Threads -> {"new", "running", "exited", "freed"}]
        /\ \A u \in Threads : u # t => phase'[u] = phase[u]
        /\ active' \in [Threads -> BOOLEAN] /\ mixActive' \in [Threads -> BOOLEAN]
        /\ stopping' \in [Threads -> BOOLEAN]
    BY DEF Start, ChangeDevice, Exit, threadVars, IInv, TypeOK
  <1>5. /\ op' \in [Actors -> OpRecord]
        /\ op'[t].thread = t /\ op'[t].task = task
        /\ \A b \in Actors : b # t => op'[b] = op[b]
        /\ Announced' /\ LockHeld' /\ SourcesKept' /\ UsedKept'
        /\ ScanProgress' /\ RemovedStateIsUnused'
    <2>1. task \in Tasks /\ "remove" \in Steps \ Locked
      BY DEF Tasks, Steps, Locked
    <2>2. QED
      BY <1>1, <1>2, <1>3, <2>1, BeginKeeps
  <1>6. TypeOK'
    BY <1>3, <1>4, <1>5 DEF IInv, TypeOK, OpRecord, controllerVars
  <1>7. ThreadOps' /\ CallerOps' /\ ReferencesAlive'
    BY <1>1, <1>3, <1>4, <1>5, MixAssumption
       DEF Actors, IInv, TypeOK, ThreadOps, CallerOps, ReferencesAlive
  <1>8. QED
    BY <1>5, <1>6, <1>7 DEF IInv

LEMMA StutterKeeps == IInv /\ UNCHANGED vars => IInv'
  <1> SUFFICES ASSUME IInv, UNCHANGED vars PROVE IInv'
    OBVIOUS
  <1>1. Elsewhere /\ UNCHANGED threadVars
    BY DEF vars, Elsewhere
  <1>2. TypeOK' /\ ThreadOps' /\ CallerOps' /\ ReferencesAlive'
    BY <1>1
       DEF Elsewhere, controllerVars, threadVars, IInv, TypeOK, ThreadOps, CallerOps,
           ReferencesAlive
  <1>3. QED
    BY <1>1, <1>2, ElsewhereKeeps DEF IInv

\* Every reachable state satisfies the invariant.
THEOREM Invariant == Spec => []IInv
  <1>1. IInv /\ [Next]_vars => IInv'
    <2> SUFFICES ASSUME IInv, [Next]_vars PROVE IInv'
      OBVIOUS
    <2>1. CASE Callback
      BY <2>1, CallbackKeepsInvariant
    <2>2. CASE \E a \in Actors : Bind(a) \/ Remove(a) \/ Store(a)
      BY <2>2, BindSourceKeeps, BindNowhereKeeps, BindOwnerKeeps, RemoveBeginKeeps,
         ClearSourceKeeps, ScanHazardKeeps, EraseKeeps, StoreKeeps DEF Bind, Remove
    <2>3. CASE \E c \in Callers : Call(c)
      BY <2>3, ReferencesKeep, CallerBeginsKeep, TerminateKeeps DEF Call
    <2>4. CASE \E t \in Threads : Life(t)
      BY <2>4, ThreadBeginsKeep, ReferencesKeep DEF Life
    <2>5. CASE UNCHANGED vars
      BY <2>5, StutterKeeps
    <2>6. QED
      BY <2>1, <2>2, <2>3, <2>4, <2>5 DEF Next
  <1>2. QED
    BY <1>1, InitInvariant, PTL DEF Spec

-----------------------------------------------------------------------------
\* The controller, the callback and the operations keep their types.
THEOREM TypeCorrect == Spec => []TypeOK
  <1>1. IInv => TypeOK
    BY DEF IInv
  <1>2. QED
    BY <1>1, Invariant, PTL

\* Once removeThread has seen no hazard, the callback does not use the state.
THEOREM RemovalIsSafe == Spec => []RemovedStateIsUnused
  <1>1. IInv => RemovedStateIsUnused
    BY DEF IInv
  <1>2. QED
    BY <1>1, Invariant, PTL

\* The callback never uses a mix state that no longer exists.
THEOREM UseIsSafe == Spec => []UsedStateExists
  <1>1. IInv => UsedStateExists
    <2> SUFFICES ASSUME IInv, callback.step \in {"test", "render"}, callback.state # None
                 PROVE  StateExists(callback.state)
      BY DEF UsedStateExists
    <2>1. callback.state \in Threads /\ Kept(callback.state)
      BY DEF IInv, TypeOK, UsedKept, Using
    <2>2. CASE callback.state \in mixStateOwners
      BY <2>2 DEF StateExists
    <2>3. CASE \E a \in Actors : op[a].step = "own" /\ op[a].thread = callback.state
      BY <2>3, OpThread DEF StateExists
    <2>4. QED
      BY <2>1, <2>2, <2>3 DEF Kept
  <1>2. QED
    BY <1>1, Invariant, PTL
=============================================================================
