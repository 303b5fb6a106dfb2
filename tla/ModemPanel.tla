----------------------------- MODULE ModemPanel ------------------------------
(***************************************************************************)
(* The panel of the current modem and what it is pressed for               *)
(* (AppFrame::OnIdle and its handlers and the global keys of               *)
(* src/AppFrame.cpp, src/visual/ModeSelectorCanvas.cpp,                    *)
(* src/visual/MeterCanvas.cpp, setDemodulatorType of                       *)
(* src/demod/DemodulatorInstance.cpp, updateLastState of                   *)
(* src/demod/DemodulatorMgr.cpp).                                          *)
(*                                                                         *)
(* A press only changes the widget; the next idle pass carries it over to  *)
(* whatever modem is then the current one, unless the panel was loaded for *)
(* another, and "another" is told by the address.  A modem that changes    *)
(* its type has none for a while, and the panel waits.  The default build: *)
(* no modems of the Digital Lab.  A modem that ends may leave its address  *)
(* to the next one, except while the property sheet still holds it.        *)
(***************************************************************************)
EXTENDS Integers, FiniteSets, Sequences

CONSTANTS
    PanelSlots,      \* addresses of modems
    PanelPlaces,     \* the frequency of the modem at each
    PanelRate,       \* the sample rate
    PanelPicks,      \* the modes picked with the mouse
    PanelKeys,       \* the keys pressed
    MaxPanelEvents   \* bound: what the user and the receiver do

Vacant == 0

MIN_MODEM_BAND == 500
LEAST_ZOOM == 20000

\* What a modem's class says its bandwidth is.
DefaultBand == [FM |-> 200000, FMS |-> 200000, NBFM |-> 12500, AM |-> 6000,
                LSB |-> 5400, USB |-> 5400]
PanelModes == DOMAIN DefaultBand
NoMode == ""

ASSUME PanelAssumption ==
    /\ IsFiniteSet(PanelSlots) /\ PanelSlots # {} /\ PanelSlots \subseteq Nat \ {Vacant}
    /\ PanelPlaces \in [PanelSlots -> Nat] /\ PanelPicks \subseteq PanelModes
    /\ {PanelRate, MaxPanelEvents} \subseteq Nat

VARIABLES
    slots,      \* what is at each address: a modem, or NoSlot
    focus,      \* DemodulatorMgr: currentModem, activeContextModem
    recall,     \* DemodulatorMgr: what the next modem is given
    widgets,    \* the panel's buttons and meters
    frame,      \* AppFrame: activeDemodulator, modemPropertiesUpdated, the sheet's modem
    effects,    \* solo mode, the processors' peak hold and rates, the 3D history
    sights,     \* what the canvases look at, what their processors were told
    meantFor,   \* the current modem, and the one shown, when each widget was last pressed;
                \* the one whose setting the widget no longer shows, though never pressed for it
    panelEvents

panelVars == <<slots, focus, recall, widgets, frame, effects, sights, meantFor, panelEvents>>

NoSlot == [live |-> FALSE]

\* A new modem asks for its first kit.
Born(mode, r) ==
    [live |-> TRUE, active |-> TRUE, type |-> NoMode, want |-> mode, changed |-> TRUE,
     ready |-> FALSE, stale |-> FALSE, jobs |-> << >>, rebuild |-> TRUE, band |-> r.band,
     bands |-> [b \in PanelModes |-> 0],
     muted |-> r.muted, delta |-> r.delta, quality |-> r.quality, gain |-> r.gain,
     squelch |-> r.squelch, recording |-> FALSE, tracking |-> FALSE]

\* A modem that has run for a while.
Running(mode) ==
    [Born(mode, [band |-> DefaultBand[mode], muted |-> FALSE, delta |-> FALSE, quality |-> TRUE,
                 gain |-> 10, squelch |-> 1])
        EXCEPT !.type = mode, !.changed = FALSE, !.ready = TRUE, !.rebuild = FALSE]

Button(on) == [on |-> on, pressed |-> FALSE]
Meter(value) == [value |-> value, input |-> value]
Moved(meter) == meter.value # meter.input
Spent(meter) == Meter(meter.input)

\* The type that getDemodulatorType tells: the wish, until the worker has answered anything.
TypeOf(d) == IF d.changed THEN d.want ELSE d.type

PanelWidgets == {"mode", "mute", "delta", "quality", "gain", "squelch"}
LiveSlots == {s \in PanelSlots : slots[s].live}
Press(w) ==
    meantFor' = [meantFor EXCEPT ![w] = [modem |-> focus.current, shown |-> frame.loaded,
                                         outdated |-> Vacant]]
PanelEvent == panelEvents < MaxPanelEvents /\ panelEvents' = panelEvents + 1
\* What changes nothing for a modem counts twice.
MinorEvent == panelEvents + 1 < MaxPanelEvents /\ panelEvents' = panelEvents + 2

ModemPanelInit ==
    /\ \E full \in {PanelSlots, {CHOOSE s \in PanelSlots : TRUE}}, m \in PanelPicks :
          slots = [s \in PanelSlots |-> IF s \in full THEN Running(m) ELSE NoSlot]
    /\ \E s \in LiveSlots \cup {Vacant} :
          /\ focus = [current |-> s, context |-> Vacant]
          \* The panel was loaded for the first modem, which may have left the band since.
          /\ s \in {CHOOSE t \in PanelSlots : TRUE, Vacant}
    /\ LET first == CHOOSE t \in PanelSlots : TRUE
           d == slots[first]
       IN  /\ recall = [type |-> d.type, band |-> d.band, muted |-> FALSE, delta |-> FALSE,
                        quality |-> TRUE, gain |-> d.gain, squelch |-> d.squelch]
           /\ frame = [loaded |-> first, due |-> FALSE, sheet |-> first]
           /\ widgets = [mode |-> d.type, mute |-> Button(FALSE), delta |-> Button(FALSE),
                         solo |-> Button(FALSE), quality |-> Button(TRUE),
                         peak |-> Button(FALSE), history |-> Button(FALSE), gain |-> Meter(d.gain),
                         squelch |-> Meter(d.squelch), average |-> Meter(0),
                         speed |-> Meter(0)]
           /\ meantFor = [w \in PanelWidgets |->
                            [modem |-> first, shown |-> first, outdated |-> Vacant]]
    /\ effects = [solo |-> FALSE, peak |-> FALSE, demodPeak |-> FALSE, history |-> FALSE,
                  average |-> 65, lines |-> 25]
    /\ sights = [app |-> 100000000, view |-> FALSE, center |-> 100000000, width |-> PanelRate,
                 demodCenter |-> 100000000, demodWidth |-> 300000, dragging |-> FALSE,
                 panes |-> {"scope"}, told |-> << >>]
    /\ panelEvents = 0

-----------------------------------------------------------------------------
(* DemodulatorMgr.                                                         *)

Clamped(band) ==
    CASE band < MIN_MODEM_BAND -> MIN_MODEM_BAND
      [] band > PanelRate -> PanelRate
      [] OTHER -> band

IsActive(s) == s # Vacant /\ slots[s].live /\ slots[s].active

\* A current modem that is deleted or out of range is none; another one is remembered.
UpdatedFocus(f) ==
    LET gone == f.current = Vacant \/ ~slots[f.current].live
        g == CASE gone /\ IsActive(f.context) -> [f EXCEPT !.current = f.context]
               [] gone /\ f.context # Vacant /\ ~IsActive(f.context) ->
                      [current |-> Vacant, context |-> Vacant]
               [] OTHER -> f
    IN  IF IsActive(g.current) THEN g ELSE [g EXCEPT !.current = Vacant]

Remembered(s) ==
    IF s = Vacant THEN recall
    ELSE LET d == slots[s]
         IN  [recall EXCEPT !.band = d.band, !.type = TypeOf(d), !.quality = d.quality,
                            !.squelch = d.squelch, !.gain = d.gain]

\* setActiveDemodulator(s, true), and that of no modem and then of s, for good.
PointTo(s) == focus' = [focus EXCEPT !.context = s] /\ UNCHANGED recall
BringForward(s) ==
    LET f == UpdatedFocus([current |-> s, context |-> Vacant])
    IN  /\ focus' = [f EXCEPT !.context = s]
        /\ recall' = Remembered(f.current)

\* The context modem, which is the current one once it is out of range.
ContextModem == IF focus.context # Vacant /\ ~IsActive(focus.context) THEN focus.current
                ELSE focus.context

-----------------------------------------------------------------------------
(* An idle pass.                                                           *)

Retyped(d, mode) ==
    LET old == TypeOf(d)
        bands == IF old \notin {NoMode, mode} THEN [d.bands EXCEPT ![old] = d.band] ELSE d.bands
    IN  [d EXCEPT !.bands = bands, !.want = mode, !.changed = TRUE, !.rebuild = TRUE,
                  !.band = IF old # NoMode /\ bands[mode] # 0 THEN bands[mode]
                           ELSE DefaultBand[mode]]

\* Mutant: the buttons keep what they showed of the modem before.
LoadMeters(w, d) ==
    [w EXCEPT !.squelch = Meter(d.squelch), !.gain = Meter(d.gain), !.mode = TypeOf(d)]

\* The panel takes over what the modem is set to.
LoadPanel(w, d) ==
    [w EXCEPT !.squelch = Meter(d.squelch), !.gain = Meter(d.gain), !.mode = TypeOf(d),
              !.delta.on = d.delta, !.mute.on = d.muted, !.quality.on = d.quality]

\* The mode that is selected, if it is another one, and the buttons that were pressed.
ApplyMode(d, w) == IF w.mode \notin {NoMode, TypeOf(d)} THEN Retyped(d, w.mode) ELSE d
ApplyMute(d, w) == IF w.mute.pressed THEN [d EXCEPT !.muted = w.mute.on] ELSE d
ApplyDelta(d, w) == IF w.delta.pressed THEN [d EXCEPT !.delta = w.delta.on] ELSE d
ApplyQuality(d, w) == IF w.quality.pressed THEN [d EXCEPT !.quality = w.quality.on] ELSE d
ApplyButtons(d, w) == ApplyQuality(ApplyDelta(ApplyMute(ApplyMode(d, w), w), w), w)
ApplyMeters(d, w) ==
    [d EXCEPT !.squelch = IF Moved(w.squelch) THEN w.squelch.input ELSE @,
              !.gain = IF Moved(w.gain) THEN w.gain.input ELSE @]

\* A button that was not pressed shows what the modem, or the program, is set to.
Settle(w, d, solo) ==
    [w EXCEPT !.mute = Button(d.muted), !.delta = Button(d.delta), !.solo = Button(solo),
              !.quality = Button(d.quality)]

RecallButtons(r, w, was, is) ==
    [r EXCEPT !.muted = IF w.mute.pressed \/ w.mute.on # was.muted THEN is.muted ELSE @,
              !.delta = IF w.delta.pressed \/ w.delta.on # was.delta THEN is.delta ELSE @,
              !.quality = IF w.quality.pressed THEN is.quality ELSE @]

\* Where the zoomed canvases look: the modem's band, one side of it for a side band.
ZoomWidth(d) ==
    LET full == (9 * d.band + 3) \div 4
        side == IF TypeOf(d) \in {"USB", "LSB"} THEN full \div 2 ELSE full
        cut == IF side > PanelRate \div 2 THEN PanelRate \div 2 ELSE side
    IN  IF cut < LEAST_ZOOM THEN LEAST_ZOOM ELSE cut
ZoomCenter(d, frequency) ==
    frequency + CASE TypeOf(d) = "USB" -> d.band \div 4
                  [] TypeOf(d) = "LSB" -> -(d.band \div 4)
                  [] OTHER -> 0

Distance(a, b) == IF a < b THEN b - a ELSE a - b

\* The receiver is not tuned so low that a part of what it receives is below zero.
InBand(app) == IF app < PanelRate \div 2 THEN PanelRate \div 2 ELSE app

\* The view moves; one that reaches beyond what is received takes the center along.
MovedView(v, change) ==
    LET center == IF v.center - change < v.width \div 2 THEN v.width \div 2
                  ELSE v.center - change
        edge == center + (IF center > v.app THEN v.width \div 2 ELSE -(v.width \div 2))
        beyond == IF center > v.app THEN edge - v.app - PanelRate \div 2
                  ELSE edge - v.app + PanelRate \div 2
    IN  [v EXCEPT !.center = center,
                  !.app = IF Distance(v.app, edge) > PanelRate \div 2
                          THEN InBand(v.app + beyond) ELSE @]

\* A tracked modem beyond the edge of the view is followed, once.
OutOfSight(d, frequency, v) ==
    Distance(frequency, v.center) + d.band \div 2 + d.band \div 4 - v.width \div 2
Follow(d, frequency, v) ==
    IF ~d.tracking \/ ~v.view \/ OutOfSight(d, frequency, v) <= 0 THEN v
    ELSE LET way == Distance(frequency, v.center)
             by == IF d.band > v.width THEN way ELSE OutOfSight(d, frequency, v)
         IN  MovedView(v, IF frequency < v.center THEN by ELSE -by)
StillTracking(d, frequency, v) == d.tracking /\ v.view /\ OutOfSight(d, frequency, v) <= 0

\* handleScopeProcessor and the rest of what every pass does, after w, v, e and due.
Prompted(v) ==
    [main |-> IF v.view THEN <<TRUE, v.center, v.width>> ELSE <<FALSE, v.app, PanelRate>>,
     demod |-> <<v.demodCenter, v.demodWidth>>,
     scope |-> "scope" \in v.panes,
     spectrum |-> v.panes \cap {"spectrum", "history"} # {},
     queue |-> Cardinality({p \in {{"scope"}, {"spectrum", "history"}} : v.panes \cap p # {}})]

RateOf(meter) == IF meter.input < 1 THEN 1 ELSE IF meter.input > 99 THEN 99 ELSE meter.input

FinishPass(w, v, e) ==
    /\ widgets' = [w EXCEPT !.average = Spent(@), !.speed = Spent(@), !.peak.pressed = FALSE,
                            !.history.pressed = FALSE]
    /\ sights' = [v EXCEPT !.told = Prompted(v)]
    /\ effects' = [e EXCEPT !.average = IF Moved(w.average) THEN RateOf(w.average) ELSE @,
                            !.lines = IF Moved(w.speed) THEN w.speed.input * w.speed.input
                                      ELSE @,
                            !.peak = IF w.peak.pressed THEN w.peak.on ELSE @,
                            !.demodPeak = IF w.peak.pressed THEN w.peak.on ELSE @,
                            !.history = IF w.history.pressed THEN w.history.on ELSE @]
    /\ UNCHANGED <<focus, panelEvents>>

\* What the panel, just loaded, will not show of the modem: the type it is to have when it tells
\* another one still, and a button whose press waits for the mouse that drags.
Outdated(w, d, still) ==
    IF w = "mode" THEN d.want # TypeOf(d)
    ELSE w \in {"mute", "delta", "quality"} /\ still /\ widgets[w].pressed

\* A pass with a current modem that has its kit.
HandleCurrentModem ==
    LET s == focus.current
        d == slots[s]
        f == PanelPlaces[s]
        fresh == s # frame.loaded
        w == IF fresh THEN LoadPanel(widgets, d) ELSE widgets
        v == Follow(d, f, sights)
        t == [d EXCEPT !.tracking = StillTracking(d, f, sights)]
        still == sights.dragging
        b == IF still THEN t ELSE ApplyButtons(t, w)
        solo == IF ~still /\ w.solo.pressed THEN w.solo.on ELSE effects.solo
        is == ApplyMeters(b, w)
        x == IF still THEN w ELSE Settle(w, b, solo)
        r == [recall EXCEPT !.band = Clamped(d.band), !.gain = IF fresh THEN d.gain ELSE @,
                            !.squelch = IF Moved(w.squelch) THEN w.squelch.input ELSE @]
    IN  /\ slots' = [slots EXCEPT ![s] = is]
        /\ recall' = IF still THEN r ELSE RecallButtons(r, w, t, b)
        /\ meantFor' = IF fresh
                       THEN [k \in PanelWidgets |->
                               [meantFor[k] EXCEPT !.outdated = IF Outdated(k, d, still) THEN s
                                                                ELSE Vacant]]
                       ELSE meantFor
        \* The sheet shows the modem at the end of the pass.
        /\ frame' = [loaded |-> s, due |-> (fresh \/ frame.due) /\ ~is.ready,
                     sheet |-> IF (fresh \/ frame.due) /\ is.ready THEN s ELSE frame.sheet]
        /\ FinishPass([x EXCEPT !.squelch = Spent(@), !.gain = Spent(@)],
                      IF still THEN v
                      ELSE [v EXCEPT !.demodCenter = ZoomCenter(d, f),
                                      !.demodWidth = ZoomWidth(d)],
                      [effects EXCEPT !.solo = solo])

IdleWithModem ==
    /\ focus.current # Vacant
    /\ slots[focus.current].ready
    /\ HandleCurrentModem

IdleWaiting ==
    /\ focus.current # Vacant
    /\ ~slots[focus.current].ready
    /\ FinishPass(widgets, sights, effects)
    /\ UNCHANGED <<slots, recall, frame, meantFor>>

\* Without a modem the panel is about the next one, and the canvases are about the receiver.
IdleWithoutModem ==
    LET w == widgets
        lost == sights.view /\ Distance(sights.app, sights.center) > PanelRate \div 2
        other == w.mode \notin {NoMode, recall.type}
    IN  /\ focus.current = Vacant
        /\ recall' = [recall EXCEPT
                         !.type = IF other THEN w.mode ELSE @,
                         !.band = IF other THEN Clamped(DefaultBand[w.mode]) ELSE @,
                         !.squelch = IF Moved(w.squelch) THEN w.squelch.input ELSE @,
                         !.gain = IF Moved(w.gain) THEN w.gain.input ELSE @,
                         !.muted = IF w.mute.pressed THEN w.mute.on ELSE @,
                         !.quality = IF w.quality.pressed THEN w.quality.on ELSE @]
        /\ frame' = [frame EXCEPT !.sheet = IF frame.due THEN Vacant ELSE @]
        /\ FinishPass([w EXCEPT !.squelch = Spent(@), !.gain = Spent(@), !.mute.pressed = FALSE,
                                !.quality.pressed = FALSE],
                      [sights EXCEPT !.center = IF lost THEN sights.app ELSE @,
                                     !.demodCenter = sights.app],
                      effects)
        /\ UNCHANGED <<slots, meantFor>>

-----------------------------------------------------------------------------
(* The threads of a modem.                                                 *)

Becomes(s, d) == slots' = [slots EXCEPT ![s] = d]

\* What the worker is told: to make a modem, or only its filters; it answers with a type.
Job(type, makes) == [type |-> type, makes |-> makes]
NextType(d) == IF d.jobs = << >> THEN d.type ELSE d.jobs[Len(d.jobs)].type

\* The pre-thread passes the wish on.
TakeType(s) ==
    /\ slots[s].live /\ slots[s].changed /\ ~slots[s].stale
    /\ Becomes(s, [slots[s] EXCEPT !.jobs = Append(@, Job(slots[s].want, TRUE)),
                                   !.type = slots[s].want, !.changed = FALSE, !.stale = TRUE])
    /\ UNCHANGED <<focus, recall, widgets, frame, effects, sights, meantFor, panelEvents>>

\* The bandwidth was set with the type: filters are asked for, for the modem made last.
AskFilters(s) ==
    LET d == slots[s]
    IN  /\ d.live /\ d.rebuild /\ d.ready /\ ~d.stale /\ ~d.changed
        /\ Becomes(s, [d EXCEPT !.jobs = Append(@, Job(NextType(d), FALSE)), !.rebuild = FALSE])
        /\ UNCHANGED <<focus, recall, widgets, frame, effects, sights, meantFor, panelEvents>>

\* A moment later it says that it has no modem.
ForgetKit(s) ==
    /\ slots[s].live /\ slots[s].stale
    /\ Becomes(s, [slots[s] EXCEPT !.ready = FALSE, !.stale = FALSE])
    /\ UNCHANGED <<focus, recall, widgets, frame, effects, sights, meantFor, panelEvents>>

\* The worker's answer, to some commands at once: it tells a type, and may undo a wish.
TakeKit(s) ==
    /\ slots[s].live /\ ~slots[s].stale
    /\ LET jobs == slots[s].jobs
       IN  \E n \in DOMAIN jobs :
              /\ Becomes(s, [slots[s] EXCEPT !.type = jobs[n].type, !.changed = FALSE,
                                             !.ready = TRUE, !.jobs = SubSeq(@, n + 1, Len(@))])
              \* The property sheet is told of a new modem.
              /\ frame' = [frame EXCEPT !.due = @ \/ \E m \in 1 .. n : jobs[m].makes]
    /\ UNCHANGED <<focus, recall, widgets, effects, sights, meantFor, panelEvents>>

-----------------------------------------------------------------------------
(* The mouse.                                                              *)

\* A release over a button toggles it; one outside of the button turns it off.
Toggled(button, over) ==
    LET on == over /\ ~button.on IN [on |-> on, pressed |-> button.pressed \/ on # button.on]

ReleaseButton(b, over) ==
    /\ IF b \in PanelWidgets /\ over THEN PanelEvent ELSE MinorEvent
    /\ widgets' = [widgets EXCEPT ![b] = Toggled(@, over)]
    /\ IF b \in PanelWidgets THEN Press(b) ELSE UNCHANGED meantFor
    /\ UNCHANGED <<slots, focus, recall, frame, effects, sights>>

\* A mode is picked; a release outside of the list selects none.
PickMode(mode) ==
    /\ PanelEvent
    /\ widgets' = [widgets EXCEPT !.mode = mode]
    /\ Press("mode")
    /\ UNCHANGED <<slots, focus, recall, frame, effects, sights>>

MoveMeter(k, value) ==
    /\ IF k \in PanelWidgets THEN PanelEvent ELSE MinorEvent
    /\ widgets' = [widgets EXCEPT ![k].input = value]
    /\ IF k \in PanelWidgets THEN Press(k) ELSE UNCHANGED meantFor
    /\ UNCHANGED <<slots, focus, recall, frame, effects, sights>>

\* The mouse comes over a modem in the waterfall, or leaves all of them.
PointAt(s) ==
    /\ PanelEvent
    /\ s = Vacant \/ IsActive(s)
    /\ PointTo(s)
    /\ UNCHANGED <<slots, widgets, frame, effects, sights, meantFor>>

\* A modem is clicked, or is chosen in the list of bookmarks, out of range or not.
ClickModem(s) ==
    /\ PanelEvent
    /\ slots[s].live
    /\ BringForward(s)
    /\ UNCHANGED <<slots, widgets, frame, effects, sights, meantFor>>

\* A click in the waterfall on nothing, while SHIFT is held: a new modem, made the current one.
AddModem(s) ==
    /\ PanelEvent
    /\ ~slots[s].live /\ frame.sheet # s
    /\ LET d == Born(recall.type, recall)
       IN  /\ slots' = [slots EXCEPT ![s] = d]
           /\ focus' = [current |-> s, context |-> s]
    /\ UNCHANGED <<recall, widgets, frame, effects, sights, meantFor>>

\* A modem that is loaded from a file is not made the current one.
LoadModem(s, mode) ==
    /\ PanelEvent
    /\ ~slots[s].live /\ frame.sheet # s
    /\ slots' = [slots EXCEPT ![s] = Born(mode, [band |-> DefaultBand[mode], muted |-> TRUE,
                                                 delta |-> TRUE, quality |-> FALSE, gain |-> 5,
                                                 squelch |-> 3])]
    /\ UNCHANGED <<focus, recall, widgets, frame, effects, sights, meantFor>>

\* SDRPostThread: a modem is out of range, or comes back, into the focus if there is none.
OutOfRange(s) ==
    /\ PanelEvent
    /\ IsActive(s)
    /\ focus.current = s \/ ~slots[s].tracking
    /\ Becomes(s, [slots[s] EXCEPT !.active = FALSE, !.tracking = FALSE])
    /\ UNCHANGED <<focus, recall, widgets, frame, effects, sights, meantFor>>

BackInRange(s) ==
    /\ PanelEvent
    /\ slots[s].live /\ ~slots[s].active
    /\ Becomes(s, [slots[s] EXCEPT !.active = TRUE])
    /\ focus' = IF focus.current = Vacant THEN [focus EXCEPT !.context = s] ELSE focus
    /\ UNCHANGED <<recall, widgets, frame, effects, sights, meantFor>>

\* The modem under the mouse is dragged in the zoomed waterfall, and let go of.
DragZoomed ==
    /\ MinorEvent
    /\ ~sights.dragging /\ focus.context # Vacant /\ IsActive(focus.context)
    /\ sights' = [sights EXCEPT !.dragging = TRUE]
    /\ BringForward(focus.context)
    /\ UNCHANGED <<slots, widgets, frame, effects, meantFor>>

DropZoomed ==
    /\ sights.dragging
    /\ sights' = [sights EXCEPT !.dragging = FALSE]
    /\ focus' = UpdatedFocus(focus)
    /\ recall' = Remembered(focus'.current)
    /\ UNCHANGED <<slots, widgets, frame, effects, meantFor, panelEvents>>

\* The main waterfall is zoomed in, or the receiver is tuned away.
ZoomIn ==
    /\ MinorEvent
    /\ ~sights.view
    /\ sights' = [sights EXCEPT !.view = TRUE, !.width = 400000]
    /\ UNCHANGED <<slots, focus, recall, widgets, frame, effects, meantFor>>

TuneAway ==
    /\ MinorEvent
    /\ sights' = [sights EXCEPT !.app = @ + 2 * PanelRate,
                                !.center = IF sights.view THEN @
                                           ELSE sights.app + 2 * PanelRate]
    /\ UNCHANGED <<slots, focus, recall, widgets, frame, effects, meantFor>>

SwitchPane(pane) ==
    /\ MinorEvent
    /\ sights' = [sights EXCEPT !.panes = IF pane \in @ THEN @ \ {pane} ELSE @ \cup {pane}]
    /\ UNCHANGED <<slots, focus, recall, widgets, frame, effects, meantFor>>

\* A click elsewhere in the waterfall: the context modem is the current one and is followed.
TrackModem ==
    LET s == ContextModem
    IN  /\ PanelEvent
        /\ s # Vacant /\ slots[s].live
        /\ Becomes(s, [slots[s] EXCEPT !.tracking = TRUE])
        /\ LET f == UpdatedFocus([focus EXCEPT !.current = s, !.context = s])
           IN  focus' = [f EXCEPT !.context = s] /\ recall' = Remembered(f.current)
        /\ UNCHANGED <<widgets, frame, effects, sights, meantFor>>

-----------------------------------------------------------------------------
(* The keyboard, while the pointer is not over the property sheet or the   *)
(* bookmarks.                                                              *)

\* TAB: the next of the active modems by frequency, or the previous one with SHIFT.
Neighbour(s, back) ==
    LET others == {t \in PanelSlots : IsActive(t)}
        before == {t \in others : PanelPlaces[t] < PanelPlaces[s]}
        after == {t \in others : PanelPlaces[t] > PanelPlaces[s]}
        Lowest(ts) == CHOOSE t \in ts : \A u \in ts : PanelPlaces[t] <= PanelPlaces[u]
        Highest(ts) == CHOOSE t \in ts : \A u \in ts : PanelPlaces[t] >= PanelPlaces[u]
    IN  IF back THEN Highest(IF before = {} THEN others ELSE before)
        ELSE Lowest(IF after = {} THEN others ELSE after)

GoRound(back) ==
    /\ PanelEvent
    /\ IsActive(focus.current)
    /\ BringForward(Neighbour(focus.current, back))
    /\ UNCHANGED <<slots, widgets, frame, effects, sights, meantFor>>

\* V and M are for the context modem, or else for the current one.
Addressed == IF ContextModem # Vacant THEN ContextModem ELSE focus.current

ToggleLockOrMute(key) ==
    LET s == Addressed
    IN  /\ PanelEvent
        /\ s # Vacant
        /\ Becomes(s, IF key = "V" THEN [slots[s] EXCEPT !.delta = ~@]
                      ELSE [slots[s] EXCEPT !.muted = ~@])
        /\ recall' = IF key = "M" THEN [recall EXCEPT !.muted = ~slots[s].muted] ELSE recall
        /\ focus' = [focus EXCEPT !.context = ContextModem]
        /\ UNCHANGED <<widgets, frame, effects, sights, meantFor>>

\* A, L and U pick a mode; F goes round the frequency modulations.
KeyMode(key) ==
    CASE key = "A" -> "AM" [] key = "L" -> "LSB" [] key = "U" -> "USB"
      [] key = "F" /\ widgets.mode = "FM" -> "FMS"
      [] key = "F" /\ widgets.mode = "FMS" -> "NBFM"
      [] key = "F" /\ widgets.mode = "NBFM" -> "FM"
      [] OTHER -> widgets.mode

PressModeKey(key) ==
    /\ PanelEvent
    /\ widgets' = [widgets EXCEPT !.mode = KeyMode(key)]
    /\ IF KeyMode(key) # widgets.mode THEN Press("mode") ELSE UNCHANGED meantFor
    /\ UNCHANGED <<slots, focus, recall, frame, effects, sights>>

PressSolo ==
    /\ MinorEvent
    /\ effects' = [effects EXCEPT !.solo = ~@]
    /\ UNCHANGED <<slots, focus, recall, widgets, frame, sights, meantFor>>

\* P sets the button as well, and forgets that it was pressed.
PressPeak ==
    /\ MinorEvent
    /\ effects' = [effects EXCEPT !.peak = ~@, !.demodPeak = ~effects.peak]
    /\ widgets' = [widgets EXCEPT !.peak = Button(~effects.peak)]
    /\ UNCHANGED <<slots, focus, recall, frame, sights, meantFor>>

\* R is for the context modem; with SHIFT, all stop, or all start when none records.
PressRecord ==
    LET s == ContextModem
    IN  /\ MinorEvent
        /\ s # Vacant
        /\ Becomes(s, [slots[s] EXCEPT !.recording = ~@])
        /\ focus' = [focus EXCEPT !.context = s]
        /\ UNCHANGED <<recall, widgets, frame, effects, sights, meantFor>>

PressRecordAll ==
    /\ MinorEvent
    /\ LET start == \A s \in LiveSlots : ~slots[s].recording
       IN  slots' = [s \in PanelSlots |->
                        IF s \in LiveSlots THEN [slots[s] EXCEPT !.recording = start] ELSE NoSlot]
    /\ focus' = [focus EXCEPT !.context = ContextModem]
    /\ UNCHANGED <<recall, widgets, frame, effects, sights, meantFor>>

\* D, over the waterfall: the context modem is deleted.
DeleteModem ==
    LET s == ContextModem
    IN  /\ PanelEvent
        /\ s # Vacant
        /\ Becomes(s, NoSlot)
        /\ focus' = [current |-> IF focus.current = s THEN Vacant ELSE focus.current,
                     context |-> Vacant]
        \* The mode is still selected for the next modem at that address.
        /\ meantFor' = [w \in PanelWidgets |->
                            [meantFor[w] EXCEPT
                                !.modem = IF @ = s THEN Vacant ELSE @,
                                !.outdated = IF w = "mode" /\ s = frame.loaded THEN s ELSE @]]
        /\ UNCHANGED <<recall, widgets, frame, effects, sights>>

PressKey ==
    \/ \E back \in BOOLEAN : "TAB" \in PanelKeys /\ GoRound(back)
    \/ \E key \in PanelKeys \cap {"V", "M"} : ToggleLockOrMute(key)
    \/ \E key \in PanelKeys \cap {"A", "F", "L", "U"} : PressModeKey(key)
    \/ "S" \in PanelKeys /\ PressSolo
    \/ "P" \in PanelKeys /\ PressPeak
    \/ "R" \in PanelKeys /\ (PressRecord \/ PressRecordAll)
    \/ "D" \in PanelKeys /\ DeleteModem

UseMouse ==
    \/ \E b \in {"mute", "delta", "solo", "quality", "peak", "history"}, over \in BOOLEAN :
          ReleaseButton(b, over)
    \/ \E mode \in PanelPicks \cup {NoMode} : PickMode(mode)
    \/ \E k \in {"gain", "squelch", "average", "speed"} : MoveMeter(k, 3)
    \/ \E s \in PanelSlots \cup {Vacant} : PointAt(s)
    \/ \E s \in PanelSlots : ClickModem(s) \/ AddModem(s) \/ LoadModem(s, "AM")
    \/ DragZoomed \/ DropZoomed \/ ZoomIn \/ TuneAway \/ TrackModem
    \/ \E pane \in {"scope", "spectrum"} : SwitchPane(pane)

ModemPanelNext ==
    \/ IdleWithModem \/ IdleWaiting \/ IdleWithoutModem
    \/ \E s \in PanelSlots :
          TakeType(s) \/ AskFilters(s) \/ ForgetKit(s) \/ TakeKit(s) \/ OutOfRange(s) \/ BackInRange(s)
    \/ PressKey
    \/ UseMouse

-----------------------------------------------------------------------------

ModemPanelSpec == ModemPanelInit /\ [][ModemPanelNext]_panelVars

Buttons == [on : BOOLEAN, pressed : BOOLEAN]
Meters == [value : Int, input : Int]
PanelModems ==
    [live : {TRUE}, active : BOOLEAN, type : PanelModes \cup {NoMode}, want : PanelModes,
     changed : BOOLEAN, ready : BOOLEAN, stale : BOOLEAN,
     jobs : Seq([type : PanelModes, makes : BOOLEAN]), rebuild : BOOLEAN, band : Nat,
     bands : [PanelModes -> Nat], muted : BOOLEAN, delta : BOOLEAN, quality : BOOLEAN,
     gain : Int, squelch : Int, recording : BOOLEAN, tracking : BOOLEAN]

\* The variables have their types, but for the sights; a modem tells a type from the first; the
\* focus and the ghost name modems that live.
ModemPanelTypeOK ==
    /\ slots \in [PanelSlots -> PanelModems \cup {NoSlot}]
    /\ \A s \in LiveSlots : TypeOf(slots[s]) # NoMode
    /\ focus \in [current : LiveSlots \cup {Vacant}, context : LiveSlots \cup {Vacant}]
    /\ recall \in [type : PanelModes, band : Nat, muted : BOOLEAN, delta : BOOLEAN,
                   quality : BOOLEAN, gain : Int, squelch : Int]
    /\ widgets \in [mode : PanelModes \cup {NoMode}, mute : Buttons, delta : Buttons,
                    solo : Buttons, quality : Buttons, peak : Buttons, history : Buttons,
                    gain : Meters, squelch : Meters, average : Meters, speed : Meters]
    /\ effects \in [solo : BOOLEAN, peak : BOOLEAN, demodPeak : BOOLEAN, history : BOOLEAN,
                    average : Int, lines : Int]
    /\ frame \in [loaded : PanelSlots, due : BOOLEAN, sheet : PanelSlots \cup {Vacant}]
    /\ meantFor \in [PanelWidgets -> [modem : LiveSlots \cup {Vacant}, shown : PanelSlots,
                                      outdated : PanelSlots \cup {Vacant}]]
    /\ panelEvents \in 0 .. MaxPanelEvents

\* Of every modem that lives on, only what its widget was meant for is changed.
OnlyWhereMeant ==
    \A s \in PanelSlots : (slots[s].live /\ slots'[s].live) =>
        LET was == slots[s]
            is == slots'[s]
            May(w) == s \in {meantFor[w].modem, meantFor[w].shown, meantFor[w].outdated}
        IN  /\ is.want # was.want => May("mode")
            /\ is.muted # was.muted => May("mute")
            /\ is.delta # was.delta => May("delta")
            /\ is.quality # was.quality => May("quality")
            /\ is.gain # was.gain => May("gain")
            /\ is.squelch # was.squelch => May("squelch")

\* A press reaches the modem it was made for: an idle pass changes the mode, the mute, the lock,
\* the quality squelch, the gain or the level of no modem but the one that was current when that
\* widget was last pressed, or the one at the address that the panel was loaded for then, whatever
\* was chosen, deleted or created in between (AppFrame::handleCurrentModem).  But where the panel
\* was loaded with what is no longer so, the modem gets it back unasked: a type that was being
\* changed, or the mode shown of a modem that left its address to another; a button whose press
\* was still to come when the mouse began to drag another modem.
PressesReachTheirModem ==
    [][slots' # slots /\ panelEvents' = panelEvents => OnlyWhereMeant]_panelVars
=============================================================================
