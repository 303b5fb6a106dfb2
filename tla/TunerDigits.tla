----------------------------- MODULE TunerDigits -----------------------------
(***************************************************************************)
(* The digits of the tuner and the dialog for direct input                 *)
(* (src/visual/TuningCanvas.cpp, src/FrequencyDialog.cpp, frequencyToStr,  *)
(* strToFrequency and showFrequencyInput of src/CubicSDR.cpp, and the      *)
(* dialog's target and keys in src/AppFrame.cpp).                          *)
(*                                                                         *)
(* A digit of the modem's frequency, of its bandwidth, of the center or of *)
(* the PPM is stepped by a click, the wheel or a drag; SHIFT keeps it from *)
(* carrying, SHIFT and the right button zero what is right of it.  A text  *)
(* is what it stands for in Hz, its unit, and whether it has a point.  One *)
(* modem at most; the device runs, so that it keeps the PPM at once.       *)
(***************************************************************************)
EXTENDS Integers, FiniteSets, SequencesExt

CONSTANTS
    TunerModems,     \* what the modem is set to at first, or NoTuned
    TunerRate,       \* the sample rate
    TunerHovers,     \* [state, index]: the digits the mouse goes to
    TunerHalves,     \* which half of a digit it is on: "top", "bottom", "middle" is both
    TypedTexts,      \* what is typed into the dialog
    GainLimits,      \* <<least, most>> of the gain entered
    MeterInputs,     \* [meter, value]: what a meter is dragged to
    GrowingRates,    \* of 1 .. 1024, those below the square of their root in single precision
    MaxTunerEvents   \* bound: events handled

MIN_BANDWIDTH == 500
CHANNELIZER_RATE_MAX == 500000
Targets == {"default", "freq", "bandwidth", "lps", "avg", "gain"}
NoHover == [state |-> "none", index |-> 0]
NoTuned == [exists |-> FALSE, freq |-> 0, bandwidth |-> 0, sideband |-> FALSE, locked |-> FALSE,
            offset |-> 0]

ASSUME TunerAssumption ==
    /\ {TunerRate, MaxTunerEvents} \subseteq Nat
    /\ TunerHalves \subseteq {"top", "bottom", "middle"}
    /\ \A m \in TunerModems : m = NoTuned \/ (m.exists /\ 2 * m.freq >= m.bandwidth)
    /\ GrowingRates \subseteq 1 .. 1024
    /\ \A h \in TunerHovers : h.state \in {"freq", "bw", "center", "ppm"} /\ h.index \in 1 .. 11

VARIABLES
    tuned,     \* the modem
    dials,     \* center, DemodulatorMgr's lastBandwidth, the snap, the device's PPM
    meters,    \* lines per second, average rate in hundredths, the gain entered last; and for the
               \* first two MeterCanvas's userInputValue (set) and inputValue (used), as what
               \* they give
    view,      \* what the canvases show: all, or <<center, bandwidth>>
    pointer,   \* where the mouse is, and whether the modem is the context modem there
    tuner,     \* TuningCanvas: hover and down digit, the button, dragging, half, SHIFT, currentPPM
    entry,    \* FrequencyDialog: its target, its text, whether it has the modem
    tunerEvents

tunerVars == <<tuned, dials, meters, view, pointer, tuner, entry, tunerEvents>>

NoDialog == [target |-> "closed", modem |-> FALSE, text |-> << >>, touched |-> FALSE]

TunerDigitsInit ==
    /\ tuned \in TunerModems
    /\ dials = [center |-> TunerRate, bandwidth |-> IF tuned.exists THEN tuned.bandwidth ELSE 12500,
                snap |-> 1, ppm |-> 9]
    /\ meters = [lps |-> 30, avg |-> 65, gain |-> 10, set |-> [lps |-> 0, avg |-> 0],
                 used |-> [lps |-> 0, avg |-> 0]]
    /\ view = << >>
    /\ pointer = [place |-> "none", context |-> FALSE, gainEntry |-> FALSE]
    /\ tuner = [hover |-> NoHover, down |-> NoHover, button |-> "up", dragging |-> FALSE,
                half |-> "bottom", shift |-> FALSE, ppm |-> 0]
    /\ entry = NoDialog
    /\ tunerEvents = 0

-----------------------------------------------------------------------------
(* A step of one digit.                                                    *)

AtLeast(limit, n) == IF n < limit THEN limit ELSE n
AtMost(limit, n) == IF n > limit THEN limit ELSE n
SizeOf(n) == IF n < 0 THEN -n ELSE n

\* Integer division of C++, and the truncation of modf.
Cut(n, by) == IF n < 0 THEN -((-n) \div by) ELSE n \div by

ZeroRight(n, exp) == Cut(n, exp * 10) * exp * 10

\* Mutant: what the lower half is for is forgotten.
CarriesAbove(n, amount, exp, low) == Cut(n, exp * 10) # Cut(n + amount, exp * 10)

\* With the mouse in the lower half, a number too short for the digit carries, too.
Carries(n, amount, exp, low) ==
    Cut(n, exp * 10) # Cut(n + amount, exp * 10) \/ (low /\ n < exp)

StepDigit(n, exp, amount, way) ==
    CASE way = "zero right" -> ZeroRight(n, exp)
      [] way = "digit" /\ Carries(n, amount, exp, tuner.half # "top") -> n - 9 * amount
      [] OTHER -> n + amount

Amount(exp, up) == IF up THEN exp ELSE -exp
Limited(freq, bandwidth) == IF freq - bandwidth \div 2 <= 0 THEN bandwidth \div 2 ELSE freq
CenterAt(freq) == AtLeast(TunerRate \div 2, freq)
BandwidthAt(bw) == AtMost(TunerRate, AtLeast(MIN_BANDWIDTH, bw))
PPMAt(ppm) == AtMost(2000, AtLeast(-2000, ppm))

\* The center follows a modem that was out of sight before the step.
StepFrequency(exp, up, way) ==
    IF ~tuned.exists THEN UNCHANGED <<tuned, dials>>
    ELSE LET freq == StepDigit(tuned.freq, exp, Amount(exp, up), way)
             far == TunerRate \div 2 < SizeOf(dials.center - tuned.freq)
             center == IF far THEN CenterAt(freq) ELSE dials.center
             at == Limited(freq, tuned.bandwidth)
         IN  /\ dials' = [dials EXCEPT !.center = center]
             /\ tuned' = [tuned EXCEPT !.freq = at,
                                       !.offset = IF tuned.locked THEN at - center ELSE @]

\* A sideband's amount is doubled: the tuner shows half the bandwidth.
StepBandwidth(exp, up, way) ==
    LET amount == Amount(exp, up) * (IF tuned.sideband THEN 2 ELSE 1)
        bw == BandwidthAt(AtMost(CHANNELIZER_RATE_MAX,
                                 StepDigit(dials.bandwidth, exp, amount, way)))
    IN  /\ dials' = [dials EXCEPT !.bandwidth = bw]
        /\ tuned' = IF tuned.exists THEN [tuned EXCEPT !.bandwidth = bw] ELSE tuned

StepCenter(exp, up, way) ==
    /\ dials' = [dials EXCEPT !.center = CenterAt(StepDigit(@, exp, Amount(exp, up), way))]
    /\ UNCHANGED tuned

\* The PPM the tuner read when the mouse came in; there is no zeroing it.
StepPPM(exp, up, way) ==
    /\ dials' = [dials EXCEPT !.ppm = PPMAt(StepDigit(tuner.ppm, exp, Amount(exp, up),
                                                     IF way = "digit" THEN way ELSE "carry"))]
    /\ UNCHANGED tuned

\* t is the tuner as the event leaves it; its PPM is what the step makes of it.
StepTuner(digit, up, way, t) ==
    LET exp == 10 ^ (digit.index - 1)
    IN  /\ CASE digit.state = "freq" -> StepFrequency(exp, up, way)
             [] digit.state = "bw" -> StepBandwidth(exp, up, way)
             [] digit.state = "center" -> StepCenter(exp, up, way)
             [] OTHER -> StepPPM(exp, up, way)
        /\ tuner' = IF digit.state = "ppm" THEN [t EXCEPT !.ppm = dials'.ppm] ELSE t
        /\ UNCHANGED <<meters, view, pointer, entry>>

Way == IF tuner.shift THEN "digit" ELSE "carry"

-----------------------------------------------------------------------------
(* The mouse.                                                              *)

InTuner == pointer.place = "tuner"

\* The dialog is modal.
TunerEvent ==
    /\ entry = NoDialog /\ tunerEvents < MaxTunerEvents
    /\ tunerEvents' = tunerEvents + 1

OnlyTuner(t) == tuner' = t /\ UNCHANGED <<tuned, dials, meters, view, entry>>

OnMouseEnterTuner ==
    /\ entry = NoDialog /\ ~InTuner
    /\ pointer' = [pointer EXCEPT !.place = "tuner"]
    /\ OnlyTuner([tuner EXCEPT !.button = "up", !.hover = NoHover, !.ppm = dials.ppm])
    /\ UNCHANGED tunerEvents

\* The modem is the context modem while the mouse is over one of its digits.
OnTunerMoved(hover, half, shift) ==
    /\ TunerEvent /\ InTuner /\ hover \in TunerHovers \cup {NoHover}
    /\ pointer' = [pointer EXCEPT !.context = tuned.exists /\ hover.state \in {"freq", "bw"}]
    /\ OnlyTuner([tuner EXCEPT !.hover = hover, !.half = half, !.shift = shift])

\* A button that goes down while the other one is down only picks the digit.
OnTunerDown(button) ==
    /\ TunerEvent /\ InTuner /\ tuner.button # button
    /\ OnlyTuner([tuner EXCEPT !.button = IF @ = "up" THEN button ELSE @, !.down = tuner.hover])
    /\ UNCHANGED pointer

SameDigit == tuner.hover # NoHover /\ tuner.down = tuner.hover
IsClick == SameDigit /\ ~tuner.dragging

\* What is released here may have gone down elsewhere.
OnTunerReleased ==
    /\ TunerEvent /\ InTuner
    /\ LET released == [tuner EXCEPT !.button = IF @ = "left" THEN "up" ELSE @, !.dragging = FALSE]
       IN IF IsClick THEN StepTuner(tuner.hover, tuner.half # "bottom", Way, released)
          ELSE OnlyTuner(released) /\ UNCHANGED pointer

ZeroOnRight ==
    /\ TunerEvent /\ InTuner /\ tuner.shift
    /\ LET released == [tuner EXCEPT !.button = IF @ = "right" THEN "up" ELSE @]
       IN IF IsClick THEN StepTuner(tuner.hover, tuner.half # "bottom", "zero right", released)
          ELSE OnlyTuner(released) /\ UNCHANGED pointer

\* Without SHIFT the right button sets the snap, or takes it back.
SnapOnRight ==
    LET snap == 10 ^ (tuner.hover.index - 1)
    IN  /\ TunerEvent /\ InTuner /\ tuner.button = "right" /\ ~tuner.shift
        /\ dials' = IF tuner.hover.state = "freq" /\ tuner.hover.index < 8
                    THEN [dials EXCEPT !.snap = IF @ = snap THEN 1 ELSE snap] ELSE dials
        /\ tuner' = [tuner EXCEPT !.button = "up"]
        /\ UNCHANGED <<tuned, meters, view, pointer, entry>>

OnTunerWheel(up) ==
    /\ TunerEvent /\ InTuner /\ tuner.hover # NoHover /\ tuner.button # "left"
    /\ StepTuner(tuner.hover, up, Way, tuner)

\* OnIdle steps the digit that was pressed for every stretch the mouse is away from there.
DragTuner(up) ==
    /\ TunerEvent /\ InTuner /\ tuner.button = "left" /\ tuner.down # NoHover
    /\ StepTuner(tuner.down, up, Way, [tuner EXCEPT !.dragging = TRUE])

DragNothing ==
    /\ entry = NoDialog /\ InTuner /\ tuner.button = "left" /\ tuner.down = NoHover /\ tuner.dragging
    /\ OnlyTuner([tuner EXCEPT !.dragging = FALSE]) /\ UNCHANGED <<pointer, tunerEvents>>

\* What is being dragged stays so until a button is released over the tuner.
OnMouseLeftTuner ==
    /\ entry = NoDialog /\ InTuner
    /\ pointer' = [pointer EXCEPT !.place = "none", !.context = FALSE]
    /\ OnlyTuner([tuner EXCEPT !.button = "up", !.hover = NoHover, !.shift = FALSE])
    /\ UNCHANGED tunerEvents

\* Another canvas; a gain that was pointed at stays the one to enter.
OnMouseEnterWindow(place, overModem) ==
    /\ TunerEvent /\ ~InTuner
    /\ overModem => place = "waterfall" /\ tuned.exists
    /\ pointer' = [place |-> place,
                   context |-> IF place = "waterfall" THEN overModem ELSE pointer.context,
                   gainEntry |-> pointer.gainEntry \/ place = "gain"]
    /\ UNCHANGED <<tuned, dials, meters, view, tuner, entry>>

\* A meter takes any value of its range.
OnMeterMoved(input) ==
    /\ TunerEvent /\ pointer.place = input.meter
    /\ meters' = [meters EXCEPT !.set[input.meter] = input.value]
    /\ UNCHANGED <<tuned, dials, view, pointer, tuner, entry>>

\* AppFrame::OnIdle hands on what a meter was set to, if it is not what was used before;
\* it runs while the dialog is open, too.
MetersUsed(m) ==
    [m EXCEPT !.used = m.set,
              !.lps = IF m.set.lps = m.used.lps THEN @ ELSE m.set.lps,
              !.avg = IF m.set.avg = m.used.avg THEN @ ELSE AtLeast(1, AtMost(99, m.set.avg))]
UseMeters ==
    /\ meters.set # meters.used /\ meters' = MetersUsed(meters)
    /\ UNCHANGED <<tuned, dials, view, pointer, tuner, entry, tunerEvents>>

\* AppFrame::OnIdle has the last bandwidth follow the modem's.
FollowBandwidth ==
    /\ tuned.exists /\ dials.bandwidth # BandwidthAt(tuned.bandwidth)
    /\ dials' = [dials EXCEPT !.bandwidth = BandwidthAt(tuned.bandwidth)]
    /\ UNCHANGED <<tuned, meters, view, pointer, tuner, entry, tunerEvents>>

-----------------------------------------------------------------------------
(* Frequencies as texts.                                                   *)

EntryText(unit, value, point) == [unit |-> unit, value |-> value, point |-> point]
NoEntry == EntryText("none", 0, FALSE)

\* The digits left of the point, less one, and how many are shown.
Magnitude(freq) == Cardinality({k \in 1 .. 9 : 10 ^ k <= freq})
Precision(k) == IF k >= 9 THEN 10 ELSE IF k >= 6 THEN 7 ELSE 4
UnitOf(k) == IF k >= 9 THEN "G" ELSE IF k >= 6 THEN "M" ELSE IF k >= 3 THEN "K" ELSE ""
UnitSize(unit) ==
    CASE unit = "G" -> 1000000000 [] unit = "M" -> 1000000 [] unit = "K" -> 1000 [] OTHER -> 1
LeastShown(freq) ==
    LET k == Magnitude(freq) IN IF k < Precision(k) THEN 1 ELSE 10 ^ (k + 1 - Precision(k))

\* Rounded to what is shown; a tie goes the way its binary form does.
frequencyToStr(freq) ==
    LET unit == UnitOf(Magnitude(freq))
        least == LeastShown(freq)
        rounded == {n \in {least * (freq \div least), least * (freq \div least + 1)} :
                       2 * SizeOf(n - freq) <= least}
    IN  {EntryText(unit, n, n % UnitSize(unit) # 0) : n \in rounded}

\* The result is cut off, and a text with a point has no exact binary form.  Without a
\* unit, a number with a point or up to 3000 is in MHz; value has that in it already when
\* there is a point.
strToFrequency(text) ==
    CASE text.point -> {text.value, text.value - 1}
      [] text.unit = "" /\ text.value <= 3000 -> {text.value * 1000000}
      [] OTHER -> {text.value}

-----------------------------------------------------------------------------
(* The dialog.                                                             *)

getFrequencyDialogTarget ==
    CASE pointer.place \in {"lps", "avg", "gain"} -> pointer.place
      [] InTuner /\ tuner.hover.state = "bw" -> "bandwidth"
      [] InTuner /\ tuner.hover.state = "freq" -> "freq"
      [] OTHER -> "default"

\* What the dialog opens with, as the texts it may be.
TextFor(target) ==
    CASE target = "default" ->
            frequencyToStr(IF pointer.context THEN tuned.freq ELSE dials.center)
      [] target = "bandwidth" ->
            frequencyToStr(IF tuned.sideband THEN dials.bandwidth \div 2 ELSE dials.bandwidth)
      [] target = "lps" -> {EntryText("", meters.lps, FALSE)}
      [] target = "avg" -> {EntryText("", meters.avg, FALSE)}
      [] target = "gain" -> {EntryText("", meters.gain, FALSE)}
      [] OTHER -> {NoEntry}

\* A key that is a digit is the text; there is no entry for a gain that was not pointed at.
showFrequencyInput(target, key) ==
    /\ TunerEvent
    /\ target = "gain" => pointer.gainEntry
    /\ \E text \in IF key = NoEntry THEN TextFor(target) ELSE {key} :
          entry' = [target |-> target, modem |-> pointer.context, text |-> <<text>>,
                     touched |-> key # NoEntry]
    /\ UNCHANGED <<tuned, dials, meters, view, pointer, tuner>>

\* A range can only be typed for the center.
TypeText(texts) ==
    /\ entry # NoDialog /\ tunerEvents < MaxTunerEvents /\ texts \in TypedTexts
    /\ Len(texts) = 2 => entry.target = "default" /\ ~entry.modem
    /\ entry.target \in {"lps", "avg", "gain"} =>
          texts[1].unit = "" /\ ~texts[1].point
    /\ entry' = [entry EXCEPT !.text = texts, !.touched = TRUE]
    /\ tunerEvents' = tunerEvents + 1
    /\ UNCHANGED <<tuned, dials, meters, view, pointer, tuner>>

CancelEntry ==
    /\ entry # NoDialog /\ entry' = NoDialog
    /\ UNCHANGED <<tuned, dials, meters, view, pointer, tuner, tunerEvents>>

Confirm(targets) == entry # NoDialog /\ entry.target \in targets /\ entry' = NoDialog

\* The modem's frequency; the offset of its delta lock stays as it was.
EnterFrequency ==
    /\ Confirm({"default", "freq"}) /\ entry.modem
    /\ \E freq \in strToFrequency(entry.text[1]) :
          LET half == TunerRate \div 2
          IN  /\ tuned' = [tuned EXCEPT !.freq = Limited(freq, tuned.bandwidth)]
              /\ dials' = [dials EXCEPT !.center =
                              IF freq \in @ - half .. @ + half THEN @ ELSE CenterAt(freq)]
    /\ UNCHANGED <<meters, view, pointer, tuner, tunerEvents>>

\* Any text for the center is a range; without "-", from a frequency to the same.
EnterCenter ==
    /\ Confirm({"default"}) /\ ~entry.modem /\ entry.text # <<NoEntry>>
    /\ \E f1 \in strToFrequency(entry.text[1]), f2 \in strToFrequency(Last(entry.text)) :
          LET low == AtMost(f1, f2)
              high == AtLeast(f1, f2)
              middle == low + (high - low) \div 2
              width == AtLeast(30000, AtMost(TunerRate, high - low))
          IN  IF f1 = f2
              THEN /\ dials' = [dials EXCEPT !.center = CenterAt(middle)]
                   /\ view' = IF f1 = 0 THEN view ELSE << >>
              ELSE /\ Len(entry.text) = 2
                   /\ dials' = [dials EXCEPT !.center = CenterAt(
                          IF TunerRate \div 4 > width THEN middle + TunerRate \div 4 ELSE middle)]
                   /\ view' = <<middle, width>>
    /\ UNCHANGED <<tuned, meters, pointer, tuner, tunerEvents>>

\* No text at all, or the target "freq" without a modem.
EnterCenterOnly ==
    /\ Confirm({"default", "freq"}) /\ ~entry.modem
    /\ entry.target = "freq" \/ entry.text = <<NoEntry>>
    /\ \E freq \in strToFrequency(entry.text[1]) :
          dials' = [dials EXCEPT !.center = CenterAt(freq)]
    /\ UNCHANGED <<tuned, meters, view, pointer, tuner, tunerEvents>>

EnterBandwidth ==
    /\ Confirm({"bandwidth"})
    /\ \E freq \in strToFrequency(entry.text[1]) :
          LET bw == AtMost(CHANNELIZER_RATE_MAX, IF tuned.sideband THEN 2 * freq ELSE freq)
          IN  IF entry.modem
              THEN tuned' = [tuned EXCEPT !.bandwidth = bw] /\ UNCHANGED dials
              ELSE dials' = [dials EXCEPT !.bandwidth = BandwidthAt(bw)] /\ UNCHANGED tuned
    /\ UNCHANGED <<meters, view, pointer, tuner, tunerEvents>>

\* What the meter makes of a number of lines: it keeps the root, and rounds the square up.
RootedLines(n) == IF n \in GrowingRates THEN n + 1 ELSE n

\* No number: the dialog closes.
EnterMeter ==
    /\ Confirm({"lps", "avg"})
    /\ LET n == entry.text[1].value
       IN meters' = CASE entry.text = <<NoEntry>> -> meters
                      [] entry.target = "lps" ->
                            [meters EXCEPT !.set.lps = RootedLines(AtLeast(1, AtMost(1024, n)))]
                      [] OTHER -> [meters EXCEPT !.set.avg = AtLeast(10, AtMost(99, n))]
    /\ UNCHANGED <<tuned, dials, view, pointer, tuner, tunerEvents>>

\* Without a number the dialog stays open.
EnterGain ==
    /\ Confirm({"gain"}) /\ entry.text # <<NoEntry>>
    /\ meters' = [meters EXCEPT !.gain =
                     AtLeast(GainLimits[1], AtMost(GainLimits[2], entry.text[1].value))]
    /\ UNCHANGED <<tuned, dials, view, pointer, tuner, tunerEvents>>

-----------------------------------------------------------------------------
(* The specification.                                                      *)

\* A key that is a digit asks for the target below the mouse, SPACE in the tuner only for
\* a frequency or the bandwidth.
OnGlobalKeyDown(key) == showFrequencyInput(getFrequencyDialogTarget, key)
OnGlobalKeyUp == ~InTuner /\ showFrequencyInput(getFrequencyDialogTarget, NoEntry)
OnTunerKeyDown ==
    /\ InTuner /\ tuner.hover.state \in {"center", "freq", "bw"}
    /\ showFrequencyInput(IF tuner.hover.state = "bw" THEN "bandwidth" ELSE "default", NoEntry)

TunerDigitsNext ==
    \/ OnMouseEnterTuner
    \/ \E hover \in TunerHovers \cup {NoHover}, half \in TunerHalves,
          shift \in BOOLEAN : OnTunerMoved(hover, half, shift)
    \/ \E button \in {"left", "right"} : OnTunerDown(button)
    \/ OnTunerReleased \/ ZeroOnRight \/ SnapOnRight
    \/ \E up \in BOOLEAN : OnTunerWheel(up)
    \/ \E up \in BOOLEAN : DragTuner(up)
    \/ DragNothing \/ OnMouseLeftTuner
    \/ \E place \in {"none", "waterfall", "lps", "avg", "gain"}, overModem \in BOOLEAN :
          OnMouseEnterWindow(place, overModem)
    \/ \E input \in MeterInputs : OnMeterMoved(input)
    \/ UseMeters \/ FollowBandwidth
    \/ \E key \in {EntryText("", 1, FALSE)} : OnGlobalKeyDown(key)
    \/ OnGlobalKeyUp \/ OnTunerKeyDown
    \/ \E texts \in TypedTexts : TypeText(texts)
    \/ CancelEntry \/ EnterFrequency \/ EnterCenter \/ EnterCenterOnly \/ EnterBandwidth
    \/ EnterMeter \/ EnterGain

TunerDigitsTypeOK ==
    /\ tuned = NoTuned \/ (tuned.exists /\ tuned.freq \in Nat /\ tuned.bandwidth \in Nat)
    /\ dials.center >= TunerRate \div 2 /\ dials.bandwidth \in MIN_BANDWIDTH .. TunerRate
    /\ dials.snap \in {10 ^ k : k \in 0 .. 6} /\ dials.ppm \in -2000 .. 2000
    /\ meters.lps \in 0 .. 1024 /\ meters.avg \in 1 .. 99
    /\ meters.gain \in GainLimits[1] .. GainLimits[2]
    /\ view = << >> \/ view \in Nat \X (30000 .. AtLeast(30000, TunerRate))
    /\ pointer.context => tuned.exists
    /\ tuner.hover \in TunerHovers \cup {NoHover} /\ tuner.down \in TunerHovers \cup {NoHover}
    /\ entry = NoDialog \/ entry.target \in Targets
    /\ tunerEvents \in 0 .. MaxTunerEvents

-----------------------------------------------------------------------------
(* What the digits and the dialog must not change.                         *)

\* One digit of n, counted from the right, one up or down without a carry.
Turned(n, index, up) ==
    LET exp == 10 ^ (index - 1)
        digit == (n \div exp) % 10
    IN  n + (((digit + (IF up THEN 1 ELSE 9)) % 10) - digit) * exp

\* A click with SHIFT on the upper or the lower half of a digit turns that digit and no
\* other: of the modem's frequency, of the center, of a PPM that is not negative, and of
\* a bandwidth that is shown as it is.
ClickTurnsOneDigit ==
    LET h == tuner.hover
        up == tuner.half = "top"
    IN  /\ h.state = "freq" /\ tuned.exists =>
              tuned'.freq = Limited(Turned(tuned.freq, h.index, up), tuned.bandwidth)
        /\ h.state = "center" => dials'.center = CenterAt(Turned(dials.center, h.index, up))
        /\ h.state = "ppm" /\ tuner.ppm >= 0 =>
              dials'.ppm = PPMAt(Turned(tuner.ppm, h.index, up))
        /\ h.state = "bw" /\ ~tuned.sideband =>
              dials'.bandwidth = BandwidthAt(AtMost(CHANNELIZER_RATE_MAX,
                                                    Turned(dials.bandwidth, h.index, up)))

\* A dialog that is confirmed as it opened changes nothing it showed: a frequency stays within
\* the last digit shown of what it was, a bandwidth and the meters become what was shown (the
\* meters once OnIdle used it), whatever a meter was moved to meanwhile.  Four exceptions:
\* below 1 kHz there is no unit, and what was shown in Hz is taken for MHz; an average rate
\* below 0.1, which the meter sets down to 0.01 (AppFrame.cpp:2385-2394), is raised to 0.1
\* (FrequencyDialog.cpp:195-197); a meter at its bottom gives 0 lines per second, raised to
\* 1; and where the root of the lines is rounded up (AppFrame.cpp:2412), the dialog adds one.
ConfirmedAsShown ==
    LET near(new, old) == old < 1000 \/ SizeOf(new - old) <= LeastShown(old)
        half == IF tuned.sideband THEN 2 ELSE 1
    IN  /\ entry.target = "default" /\ entry.modem =>
              near(tuned'.freq, Limited(tuned.freq, tuned.bandwidth))
        /\ entry.target = "default" /\ ~entry.modem => near(dials'.center, dials.center)
        /\ entry.target = "bandwidth" =>
              near((IF entry.modem THEN tuned'.bandwidth ELSE dials'.bandwidth) \div half,
                   entry.text[1].value)
        /\ entry.target = "gain" => meters' = meters
        /\ entry.target = "avg" =>
              LET shown == entry.text[1].value
              IN MetersUsed(meters').avg = shown \/ shown < 10
        /\ entry.target = "lps" =>
              LET shown == entry.text[1].value
              IN MetersUsed(meters').lps = shown \/ shown = 0 \/ shown \in GrowingRates

\* Turning a digit and confirming a dialog keep what they should not change.
EntriesKeepTheRest ==
    [][/\ tuner.button = "left" /\ tuner'.button = "up" /\ pointer'.place = "tuner" /\ IsClick
          /\ tuner.shift /\ tuner.half # "middle" /\ tunerEvents' # tunerEvents
          => ClickTurnsOneDigit
       /\ entry # NoDialog /\ entry' = NoDialog /\ ~entry.touched /\ ~CancelEntry
          => ConfirmedAsShown]_tunerVars
=============================================================================
