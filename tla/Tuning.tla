------------------------------- MODULE Tuning -------------------------------
(***************************************************************************)
(* Which modems there are, where they and the receiver are tuned, and      *)
(* which of them is selected (src/demod/DemodulatorMgr.cpp,                *)
(* src/visual/WaterfallCanvas.cpp, TuningCanvas.cpp, SpectrumCanvas.cpp,   *)
(* src/AppFrame.cpp, src/SessionMgr.cpp, and updateActiveDemodulators of   *)
(* src/sdr/SDRPostThread.cpp).                                             *)
(*                                                                         *)
(* The GUI thread handles one event at a time; SDRPostThread goes through  *)
(* a copy of the list of modems, and demodulator threads select themselves *)
(* in solo mode.  A handler is one step, except where it lets go of what   *)
(* it works on: between a frequency and the offset of its delta lock,      *)
(* between switching a modem off and deleting it, and while a session is   *)
(* loaded.  Frequencies are small numbers, bandwidths are left out.        *)
(***************************************************************************)
EXTENDS Integers, Sequences, SequencesExt, FiniteSets

CONSTANTS
    MaxModems,        \* bound: modems made
    TunedTo,          \* frequencies the user tunes to
    HalfRate,         \* half the sample rate
    DeltaLocks,       \* whether a modem is made with a delta lock
    MaxTuningClicks   \* bound: what the user does

ASSUME TuningAssumption ==
    /\ {MaxModems, HalfRate, MaxTuningClicks} \subseteq Nat
    /\ TunedTo \subseteq Nat /\ DeltaLocks \subseteq BOOLEAN

VARIABLES
    center,       \* the frequency of the receiver
    demods,       \* DemodulatorMgr's list
    modem,        \* what each modem is set to
    selection,    \* currentModem, activeContextModem, activeVisualDemodulator, and the
                  \* modems that have the visual queue
    drag,         \* WaterfallCanvas: dragState, "up" when no button is down
    handler,      \* the GUI's handler between two of its steps
    post,         \* SDRPostThread's update: its step, the rest of its copy, its center
    solo,         \* the demodulator that selects itself, 0 when none does
    ghosts,       \* modems deleted while SDRPostThread had them before it (for the property)
    modemsMade, tuningClicks

tuningVars == <<center, demods, modem, selection, drag, handler, post, solo, ghosts, modemsMade,
                tuningClicks>>

Modems == 1 .. MaxModems
None == 0
NewModem == [freq |-> 0, active |-> FALSE, follow |-> FALSE, tracking |-> FALSE,
             deltaLock |-> FALSE, ofs |-> 0]
Idle == [call |-> "none", demod |-> None]
NoUpdate == [step |-> "idle", list |-> << >>, center |-> 0]

TuningInit ==
    /\ center = HalfRate /\ demods = << >>
    /\ modem = [d \in Modems |-> NewModem]
    /\ selection = [current |-> None, context |-> None, visual |-> None, fed |-> {}]
    /\ drag = "up"
    /\ handler = Idle /\ post = NoUpdate /\ solo = None
    /\ ghosts = {} /\ modemsMade = 0 /\ tuningClicks = 0

-----------------------------------------------------------------------------
(* DemodulatorMgr, as functions of the selection s, the modems m and the list. *)

\* A current modem that is not listed gives way to the context modem.
UpdateLastState(s, m, listed) ==
    LET orphan == s.current \notin listed /\ s.context # None
        s1 == IF ~orphan THEN s
              ELSE IF m[s.context].active THEN [s EXCEPT !.current = s.context]
              ELSE [s EXCEPT !.current = None, !.context = None]
    IN  IF s1.current # None /\ ~m[s1.current].active THEN [s1 EXCEPT !.current = None] ELSE s1

\* Passes the visual queue on to the modem, or to the current one when there is none.
ShowModem(s, d) ==
    LET shown == IF d = None THEN s.current ELSE d
    IN  [s EXCEPT !.fed = (@ \ {s.visual}) \cup ({shown} \ {None}), !.visual = shown, !.context = d]

SetActiveTemporarily(s, d) == ShowModem(s, d)

\* The context modem becomes the current one, if there is one.
SetActiveModem(s, m, listed, d) ==
    LET s1 == IF s.context # None THEN UpdateLastState([s EXCEPT !.current = s.context], m, listed)
              ELSE [s EXCEPT !.current = d]
    IN  ShowModem(UpdateLastState(s1, m, listed), d)

\* An inactive context modem is replaced by the current one.
ActiveContextModem(s, m) ==
    IF s.context # None /\ ~m[s.context].active THEN [s EXCEPT !.context = s.current] ELSE s

\* Mutant: the context modem is left as it is.
DeselectCurrent(s, deleted) ==
    [s EXCEPT !.current = IF @ \in deleted THEN None ELSE @,
              !.visual = IF @ \in deleted THEN None ELSE @]

\* What deleteThread does to the selection; a modem keeps the visual queue to its end.
Deselect(s, deleted) ==
    LET without(x) == IF x \in deleted THEN None ELSE x
    IN  [s EXCEPT !.current = without(@), !.context = without(@), !.visual = without(@)]

Listed == ToSet(demods)
PlaceOf(d) == CHOOSE i \in DOMAIN demods : demods[i] = d
Now == ActiveContextModem(selection, modem)
AtLeastHalfRate(freq) == IF freq < HalfRate THEN HalfRate ELSE freq

-----------------------------------------------------------------------------
(* The GUI.                                                                *)

outsideGUI == <<post, solo>>

Event ==
    /\ handler = Idle /\ tuningClicks < MaxTuningClicks
    /\ tuningClicks' = tuningClicks + 1

\* The mouse is over a modem, or over none.
Hover(d) ==
    LET none == SetActiveTemporarily(selection, None)
    IN  IF d = None THEN none ELSE SetActiveTemporarily(none, d)

OnMouseMoved(d) ==
    /\ Event /\ drag = "up" /\ d \in Listed \cup {None}
    /\ selection' = Hover(d)
    /\ UNCHANGED <<center, demods, modem, drag, handler, outsideGUI, ghosts, modemsMade>>

\* Over a digit of the tuner, or away from it.
HoverTuner(overModem) ==
    /\ Event /\ drag = "up"
    /\ selection' = SetActiveTemporarily(selection, IF overModem THEN selection.current ELSE None)
    /\ UNCHANGED <<center, demods, modem, drag, handler, outsideGUI, ghosts, modemsMade>>

\* What will be dragged was decided when the mouse last moved, except beside the modems;
\* a modem that will be dragged is selected.
OnMouseDown(d, state) ==
    /\ Event /\ drag = "up" /\ d \in Listed \cup {None}
    /\ d = None => state \in {"none", "range"}
    /\ LET over == UpdateLastState(Hover(d), modem, Listed)
           updated == ActiveContextModem(over, modem)
       IN selection' = IF state \in {"none", "range"} THEN over
                       ELSE SetActiveModem(updated, modem, Listed, updated.context)
    /\ drag' = state
    /\ UNCHANGED <<center, demods, modem, handler, outsideGUI, ghosts, modemsMade>>

\* The modem is moved, and with it, a step later, the offset of its delta lock.
Place(d, freq, call) ==
    /\ modem' = [modem EXCEPT ![d].freq = freq]
    /\ handler' = [call |-> call, demod |-> d]

OnDrag(freq) ==
    /\ Event /\ drag = "frequency"
    /\ Now.context # None /\ Place(Now.context, freq, "offset")
    /\ selection' = Now
    /\ UNCHANGED <<center, demods, drag, outsideGUI, ghosts, modemsMade>>

\* Dragging anything else asks for the context modem too.
OnDragOther ==
    /\ Event /\ drag \notin {"up", "frequency"}
    /\ selection' = Now
    /\ UNCHANGED <<center, demods, modem, drag, handler, outsideGUI, ghosts, modemsMade>>

SetOffset(m, d) == IF m[d].deltaLock THEN [m EXCEPT ![d].ofs = m[d].freq - center] ELSE m

\* After a click the modem is selected too.
FinishPlace ==
    /\ handler.call \in {"offset", "select"}
    /\ modem' = SetOffset(modem, handler.demod)
    /\ selection' = IF handler.call = "select"
                    THEN SetActiveModem(selection, modem', Listed, handler.demod) ELSE selection
    /\ handler' = Idle
    /\ UNCHANGED <<center, demods, drag, outsideGUI, ghosts, modemsMade, tuningClicks>>

NewThread(freq, deltaLock, ofs) ==
    /\ modemsMade < MaxModems
    /\ modemsMade' = modemsMade + 1
    /\ demods' = Append(demods, modemsMade')
    /\ modem' = [modem EXCEPT ![modemsMade'] =
                    [NewModem EXCEPT !.freq = freq, !.deltaLock = deltaLock,
                                     !.ofs = IF deltaLock THEN ofs ELSE 0]]

Released == drag' = "up"
AfterUpdate == UpdateLastState(selection, modem, Listed)
IsNew(shiftDown) == shiftDown \/ AfterUpdate.current = None
MakesModem(shiftDown) == IsNew(shiftDown) \/ demods = << >>

\* Asks for the context modem unless a new one is made.
AfterRelease(isNew) == IF isNew THEN AfterUpdate ELSE ActiveContextModem(AfterUpdate, modem)

\* A click beside the modems makes a modem, or moves the current one.
ClickCreates(freq, shiftDown, deltaLock) ==
    /\ Event /\ drag = "none" /\ MakesModem(shiftDown)
    /\ NewThread(freq, deltaLock, center - freq)
    /\ handler' = [call |-> "select", demod |-> modemsMade']
    /\ selection' = AfterRelease(IsNew(shiftDown))
    /\ Released
    /\ UNCHANGED <<center, outsideGUI, ghosts>>

ClickMoves(freq) ==
    /\ Event /\ drag = "none" /\ ~MakesModem(FALSE)
    /\ selection' = AfterRelease(FALSE)
    /\ Place(AfterRelease(FALSE).current, freq, "select")
    /\ Released
    /\ UNCHANGED <<center, demods, outsideGUI, ghosts, modemsMade>>

\* A click on a modem; or the end of a drag, which selects nothing.
ReleaseOnModem(clicked, shiftDown) ==
    /\ Event /\ drag # "up"
    /\ drag = "none" => ~clicked
    /\ drag = "range" => clicked
    /\ LET s == AfterRelease(IsNew(shiftDown))
           d == IF IsNew(shiftDown) THEN None ELSE s.context
       IN IF clicked /\ d # None
          THEN /\ selection' = UpdateLastState(SetActiveModem(s, modem, Listed, d), modem, Listed)
               /\ modem' = [modem EXCEPT ![d].tracking = TRUE]
          ELSE selection' = s /\ UNCHANGED modem
    /\ Released
    /\ UNCHANGED <<center, demods, handler, outsideGUI, ghosts, modemsMade>>

\* A range that was dragged makes a modem, or moves the current one; its offset stays.
RangeCreates(freq, shiftDown, deltaLock) ==
    /\ Event /\ drag = "range" /\ MakesModem(shiftDown)
    /\ NewThread(freq, deltaLock, center - freq)
    /\ selection' = UpdateLastState(SetActiveModem(AfterRelease(IsNew(shiftDown)), modem', ToSet(demods'), modemsMade'),
                                    modem', ToSet(demods'))
    /\ Released
    /\ UNCHANGED <<center, handler, outsideGUI, ghosts>>

RangeMoves(freq) ==
    /\ Event /\ drag = "range" /\ ~MakesModem(FALSE)
    /\ LET s == AfterRelease(FALSE)
       IN /\ modem' = [modem EXCEPT ![s.current].freq = freq]
          /\ selection' = UpdateLastState(SetActiveModem(s, modem, Listed, s.current), modem, Listed)
    /\ Released
    /\ UNCHANGED <<center, demods, handler, outsideGUI, ghosts, modemsMade>>

\* The tuner, which moves the receiver along with a modem that is far away.
StepModem(freq) ==
    /\ Event /\ selection.current # None
    /\ LET d == selection.current
           far == HalfRate < center - modem[d].freq \/ HalfRate < modem[d].freq - center
       IN /\ center' = IF far THEN AtLeastHalfRate(freq) ELSE center
          /\ modem' = [modem EXCEPT ![d].freq = freq, ![d].follow = TRUE, ![d].tracking = TRUE]
          /\ handler' = [call |-> "offset", demod |-> d]
    /\ UNCHANGED <<demods, selection, drag, outsideGUI, ghosts, modemsMade>>

\* The tuner's center, dragging the spectrum, the arrow keys, and 'C'.
SetCenter(freq) ==
    /\ Event
    /\ center' = AtLeastHalfRate(freq)
    /\ UNCHANGED <<demods, modem, selection, drag, handler, outsideGUI, ghosts, modemsMade>>

CenterOnModem ==
    /\ Event /\ Now.context # None
    /\ center' = AtLeastHalfRate(modem[Now.context].freq)
    /\ selection' = Now
    /\ UNCHANGED <<demods, modem, drag, handler, outsideGUI, ghosts, modemsMade>>

\* '[' and ']': the offset stays.
Nudge(freq) ==
    /\ Event /\ selection.current # None
    /\ LET leaves == freq > center + HalfRate \/ freq < center - HalfRate
       IN center' = IF leaves THEN AtLeastHalfRate(center + (2 * (freq - modem[selection.current].freq)))
                    ELSE center
    /\ modem' = [modem EXCEPT ![selection.current].freq = freq]
    /\ UNCHANGED <<demods, selection, drag, handler, outsideGUI, ghosts, modemsMade>>

\* 'V'
ToggleDeltaLock ==
    /\ Event
    /\ LET d == IF Now.context # None THEN Now.context ELSE Now.current
       IN /\ d # None
          /\ modem' = [modem EXCEPT ![d].deltaLock = ~@,
                                    ![d].ofs = IF modem[d].deltaLock THEN @ ELSE modem[d].freq - center]
    /\ selection' = Now
    /\ UNCHANGED <<center, demods, drag, handler, outsideGUI, ghosts, modemsMade>>

ByFrequency(d, e) == modem[d].freq < modem[e].freq \/ (modem[d].freq = modem[e].freq /\ d < e)

\* In that order d comes after e; the first one comes after the last.
Follows(d, e) ==
    LET after(x) == {y \in Listed : ByFrequency(x, y)}
    IN  IF after(e) = {} THEN \A x \in Listed : ~ByFrequency(x, d)
        ELSE d \in after(e) /\ \A x \in after(e) : ~ByFrequency(x, d)

\* TAB: the next modem in the order of frequencies, or the previous one.
SelectNext(backwards) ==
    /\ Event /\ selection.current \in Listed
    /\ \E d \in Listed :
          /\ IF backwards THEN Follows(selection.current, d) ELSE Follows(d, selection.current)
          /\ selection' = SetActiveModem(SetActiveTemporarily(selection, None), modem, Listed, d)
    /\ UNCHANGED <<center, demods, modem, drag, handler, outsideGUI, ghosts, modemsMade>>

-----------------------------------------------------------------------------
(* Deleting modems, and sessions.                                          *)

BeforePost == ToSet(post.list)

\* 'D': removeDemodulator, then deleteThread.
RemoveDemodulator ==
    /\ Event /\ Now.context # None
    /\ modem' = [modem EXCEPT ![Now.context].active = FALSE]
    /\ selection' = Now
    /\ handler' = [call |-> "delete", demod |-> Now.context]
    /\ UNCHANGED <<center, demods, drag, outsideGUI, ghosts, modemsMade>>

FinishDelete ==
    /\ handler.call = "delete"
    /\ LET d == handler.demod
       IN /\ demods' = IF d \in Listed THEN RemoveAt(demods, PlaceOf(d)) ELSE demods
          /\ selection' = Deselect(selection, {d})
          /\ modem' = [modem EXCEPT ![d].active = FALSE]
          /\ ghosts' = ghosts \cup ({d} \cap BeforePost)
    /\ handler' = Idle
    /\ UNCHANGED <<center, drag, outsideGUI, modemsMade, tuningClicks>>

\* A new session, and the beginning of loading one: terminateAll.
TerminateAll(loads) ==
    /\ Event
    /\ selection' = Deselect(SetActiveModem(selection, modem, Listed, None), Listed)
    /\ modem' = [d \in Modems |-> IF d \in Listed THEN [modem[d] EXCEPT !.active = FALSE] ELSE modem[d]]
    /\ ghosts' = ghosts \cup (Listed \cap BeforePost)
    /\ demods' = << >>
    /\ handler' = IF loads THEN [Idle EXCEPT !.call = "load"] ELSE Idle
    /\ UNCHANGED <<center, drag, outsideGUI, modemsMade>>

\* loadInstance, and run and setActive of what it made.
LoadInstance(freq, deltaLock, ofs) ==
    /\ handler.call = "load"
    /\ NewThread(freq, deltaLock, ofs)
    /\ handler' = [call |-> "activate", demod |-> modemsMade']
    /\ UNCHANGED <<center, selection, drag, outsideGUI, ghosts, tuningClicks>>

ActivateLoaded ==
    /\ handler.call = "activate"
    /\ modem' = [modem EXCEPT ![handler.demod].active = TRUE]
    /\ handler' = [handler EXCEPT !.call = "load"]
    /\ UNCHANGED <<center, demods, selection, drag, outsideGUI, ghosts, modemsMade, tuningClicks>>

\* The modem that the session calls active is selected, or the last one.
FinishLoad(freq, d) ==
    /\ handler.call = "load"
    /\ d \in Listed \/ (d = None /\ demods = << >>)
    /\ center' = AtLeastHalfRate(freq)
    /\ selection' = IF d = None THEN selection ELSE SetActiveModem(selection, modem, Listed, d)
    /\ handler' = Idle
    /\ UNCHANGED <<demods, modem, drag, outsideGUI, ghosts, modemsMade, tuningClicks>>

-----------------------------------------------------------------------------
(* updateActiveDemodulators, by SDRPostThread.                             *)

outsidePost == <<demods, drag, handler, solo, ghosts, modemsMade, tuningClicks>>

BeginUpdate ==
    /\ post.step = "idle" /\ demods # << >>
    /\ post' = [step |-> "lock", list |-> demods, center |-> center]
    /\ UNCHANGED <<center, modem, selection, outsidePost>>

\* A modem with a delta lock follows the receiver.
FollowCenter ==
    /\ post.step = "lock"
    /\ LET d == Head(post.list)
           target == post.center + modem[d].ofs
       IN modem' = IF modem[d].deltaLock /\ modem[d].freq # target
                   THEN [modem EXCEPT ![d].freq = target, ![d].follow = FALSE, ![d].tracking = FALSE]
                   ELSE modem
    /\ post' = [post EXCEPT !.step = "range"]
    /\ UNCHANGED <<center, selection, outsidePost>>

NextModem(p) ==
    IF Len(p.list) = 1 THEN NoUpdate ELSE [p EXCEPT !.step = "lock", !.list = Tail(@)]

\* Switches a modem that is out of range off, and lets the receiver follow it.
LeaveRange(blockCenter) ==
    /\ post.step = "range"
    /\ LET d == Head(post.list)
           m == modem[d]
           out == HalfRate < blockCenter - m.freq \/ HalfRate < m.freq - blockCenter
           off == d = selection.current \/ (m.active /\ ~m.follow /\ ~m.tracking)
           follows == m.follow /\ post.center # m.freq
       IN /\ out
          /\ modem' = [modem EXCEPT ![d].active = @ /\ ~off, ![d].follow = @ /\ ~follows]
          /\ center' = IF follows THEN AtLeastHalfRate(m.freq) ELSE center
    /\ post' = NextModem(post)
    /\ UNCHANGED <<selection, outsidePost>>

EnterRange(blockCenter) ==
    /\ post.step = "range"
    /\ LET d == Head(post.list)
           m == modem[d]
           out == HalfRate < blockCenter - m.freq \/ HalfRate < m.freq - blockCenter
       IN /\ ~out
          /\ modem' = [modem EXCEPT ![d].active = TRUE]
          /\ post' = IF m.active THEN NextModem(post) ELSE [post EXCEPT !.step = "adopt"]
    /\ UNCHANGED <<center, selection, outsidePost>>

\* Without a current modem the one that was switched on is focused: deleted or not.
Adopt ==
    /\ post.step = "adopt"
    /\ selection' = IF selection.current = None
                    THEN SetActiveTemporarily(selection, Head(post.list)) ELSE selection
    /\ post' = NextModem(post)
    /\ UNCHANGED <<center, modem, outsidePost>>

-----------------------------------------------------------------------------
(* A demodulator thread that opens in solo mode.                           *)

OpensSolo(d) ==
    /\ solo = None /\ modem[d].active
    /\ selection.current = None \/ selection.context \in {None, selection.current}
    /\ selection' = SetActiveTemporarily(selection, None)
    /\ solo' = d
    /\ UNCHANGED <<center, demods, modem, drag, handler, post, ghosts, modemsMade, tuningClicks>>

\* By its pointer, if that is still listed.
SelectsItself ==
    /\ solo # None
    /\ selection' = IF solo \in Listed THEN SetActiveModem(selection, modem, Listed, solo) ELSE selection
    /\ solo' = None
    /\ UNCHANGED <<center, demods, modem, drag, handler, post, ghosts, modemsMade, tuningClicks>>

-----------------------------------------------------------------------------

MouseEvents ==
    \/ \E d \in Modems \cup {None} :
          OnMouseMoved(d) \/ \E state \in {"none", "range", "frequency", "bandwidth"} : OnMouseDown(d, state)
    \/ \E b \in BOOLEAN : HoverTuner(b)
    \/ \E freq \in TunedTo : OnDrag(freq) \/ ClickMoves(freq) \/ RangeMoves(freq)
    \/ \E freq \in TunedTo, b \in BOOLEAN, lock \in DeltaLocks :
          ClickCreates(freq, b, lock) \/ RangeCreates(freq, b, lock)
    \/ \E b, c \in BOOLEAN : ReleaseOnModem(b, c)
    \/ FinishPlace \/ OnDragOther

KeysAndTuner ==
    \/ \E freq \in TunedTo : StepModem(freq) \/ SetCenter(freq) \/ Nudge(freq)
    \/ CenterOnModem \/ ToggleDeltaLock \/ \E b \in BOOLEAN : SelectNext(b)
    \/ RemoveDemodulator \/ FinishDelete

Sessions ==
    \/ \E b \in BOOLEAN : TerminateAll(b)
    \/ \E freq \in TunedTo, lock \in DeltaLocks : LoadInstance(freq, lock, 0)
    \/ ActivateLoaded \/ \E freq \in TunedTo, d \in Modems \cup {None} : FinishLoad(freq, d)

PostUpdates ==
    \/ BeginUpdate \/ FollowCenter \/ Adopt
    \/ \E c \in {center, post.center} : LeaveRange(c) \/ EnterRange(c)

TuningNext ==
    \/ MouseEvents \/ KeysAndTuner \/ Sessions \/ PostUpdates
    \/ \E d \in Modems : OpensSolo(d)
    \/ SelectsItself

TuningSpec == TuningInit /\ [][TuningNext]_tuningVars

-----------------------------------------------------------------------------
(* Properties.                                                             *)

TuningTypeOK ==
    /\ {selection.current, selection.context, selection.visual, solo} \subseteq Modems \cup {None}
    /\ selection.fed \cup ghosts \cup Listed \subseteq Modems
    /\ center >= HalfRate

\* Whatever order modems are selected, hovered, deleted and loaded in, what is selected
\* exists: it is listed, or SDRPostThread had it in its copy of the list when it was
\* deleted, and focused it afterwards; and of the listed modems at most the one on show
\* feeds the visual queue (DemodulatorMgr.cpp:144-169, 210-251, 312-339;
\* SDRPostThread.cpp:57-86).
SelectedModemsExist ==
    /\ {selection.current, selection.context, selection.visual} \subseteq Listed \cup ghosts \cup {None}
    /\ selection.fed \cap Listed \subseteq {selection.visual}
=============================================================================
